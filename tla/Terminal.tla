------------------------------- MODULE Terminal -------------------------------
(***************************************************************************)
(* The terminal of the devices page: TerminalOverlay holds a page with a   *)
(* WebSocket, and ServeWS bridges it to a shell on the device.  Two        *)
(* goroutines serve a bridge.  One copies what the shell writes, the other *)
(* passes on what is typed; when the second ends it waits for the first,   *)
(* and only then is anything closed.  The shell and the page end when they *)
(* like, and the overlay may be opened again before an old bridge is gone. *)
(***************************************************************************)
EXTENDS Integers, Sequences, SequencesExt

CONSTANTS
    Bridge,     \* the calls of ServeWS there can be at once
    MaxInput,   \* messages on their way from a page
    MaxOutput   \* chunks on their way from a shell

ASSUME TerminalAssumption == MaxInput \in Nat /\ MaxOutput \in Nat

VARIABLE bridge  \* bridge[b]: one call of ServeWS, its page and its shell

-----------------------------------------------------------------------------
(* refused: a page that was never connected; told: one that was and shows  *)
(* "[Connection closed]".                                                  *)
BridgeState == [phase  : {"none", "dialled", "open", "closed"},
                typing : BOOLEAN,
                copies : BOOLEAN,
                page   : {"gone", "there", "refused", "told"},
                shell  : {"gone", "there"},
                input  : BoundedSeq({"key", "size"}, MaxInput),
                output : 0 .. MaxOutput]

NoBridge == [phase |-> "none", typing |-> FALSE, copies |-> FALSE, page |-> "gone",
             shell |-> "gone", input |-> <<>>, output |-> 0]

TerminalTypeOK == bridge \in [Bridge -> BridgeState]

TerminalInit == bridge = [b \in Bridge |-> NoBridge]

Become(b, s) == bridge' = [bridge EXCEPT ![b] = s]

-----------------------------------------------------------------------------
(* The overlay and the shell *)

(* An operator opens the terminal, or gets it back from its minimized form:*)
(* the page is loaded, the token checked and the shell started.            *)
Dial(b) ==
    /\ bridge[b].phase \in {"none", "closed"}
    /\ \A c \in Bridge : bridge[c].page = "gone"
    /\ Become(b, [NoBridge EXCEPT !.phase = "dialled", !.page = "there", !.shell = "there"])

(* The overlay is closed; or minimized, which does not render its page.    *)
Leave(b) ==
    /\ bridge[b].page # "gone"
    /\ Become(b, [bridge[b] EXCEPT !.page = "gone"])

(* The page sends its size when it is opened or resized, and what is typed.*)
Input(b, message) ==
    /\ bridge[b].phase = "open" /\ bridge[b].page = "there"
    /\ Len(bridge[b].input) < MaxInput
    /\ Become(b, [bridge[b] EXCEPT !.input = Append(@, message)])

ShellWrites(b) ==
    /\ bridge[b].shell = "there" /\ bridge[b].output < MaxOutput
    /\ Become(b, [bridge[b] EXCEPT !.output = @ + 1])

(* An exit, the end of its input, or an SSH connection that breaks. *)
ShellEnds(b) ==
    /\ bridge[b].shell = "there"
    /\ Become(b, [bridge[b] EXCEPT !.shell = "gone"])

-----------------------------------------------------------------------------
(* ServeWS *)

Upgrade(b) ==
    /\ bridge[b].phase = "dialled"
    /\ Become(b, [bridge[b] EXCEPT !.phase = "open", !.typing = TRUE, !.copies = TRUE])

(* The deferred Close of the connection, the session and the client. *)
Released(s, news) ==
    [s EXCEPT !.phase = "closed", !.shell = "gone", !.input = <<>>,
              !.page = IF @ = "there" THEN news ELSE @]

(* The page has gone, the handshake times out, the connection breaks. *)
UpgradeFails(b) ==
    /\ bridge[b].phase = "dialled"
    /\ Become(b, Released(bridge[b], "refused"))

(* A new size is passed on or not; what is typed must find a shell. *)
TypingOn(s) == Head(s.input) = "size" \/ s.shell = "there"

ReadMessage(b) ==
    /\ bridge[b].typing /\ bridge[b].input # <<>>
    /\ Become(b, [bridge[b] EXCEPT !.input = Tail(@), !.typing = TypingOn(bridge[b])])

(* Mutant: an error of ReadMessage does not end the loop. *)
HungUpNever(s) == FALSE

HungUp(s) == s.input = <<>> /\ s.page = "gone"

ReadFails(b) ==
    /\ bridge[b].typing /\ HungUp(bridge[b])
    /\ Become(b, [bridge[b] EXCEPT !.typing = FALSE])

(* Mutant: a read that returned nothing is passed on, too. *)
CopyAlways(b) ==
    /\ bridge[b].copies
    /\ \E on \in BOOLEAN :
        /\ bridge[b].page = "there" => on
        /\ Become(b, [bridge[b] EXCEPT !.output = @ - 1, !.copies = on])

(* stdout.Read and WriteMessage, which may fail once the page has gone. *)
Copy(b) ==
    /\ bridge[b].copies /\ bridge[b].output > 0
    /\ \E on \in BOOLEAN :
        /\ bridge[b].page = "there" => on
        /\ Become(b, [bridge[b] EXCEPT !.output = @ - 1, !.copies = on])

(* Mutant: the copying ends as soon as the shell has. *)
DrainedEarly(s) == s.shell = "gone"

Drained(s) == s.output = 0 /\ s.shell = "gone"

EndOfOutput(b) ==
    /\ bridge[b].copies /\ Drained(bridge[b])
    /\ Become(b, [bridge[b] EXCEPT !.copies = FALSE])

(* <-done *)
Release(b) ==
    /\ bridge[b].phase = "open" /\ ~bridge[b].typing /\ ~bridge[b].copies
    /\ Become(b, Released(bridge[b], "told"))

(* The goroutine of the request, and the one it starts. *)
Handler(b) ==
    \/ Upgrade(b) \/ UpgradeFails(b)
    \/ ReadMessage(b) \/ ReadFails(b)
    \/ Release(b)

Copier(b) == Copy(b) \/ EndOfOutput(b)

TerminalNext ==
    \E b \in Bridge :
        \/ Dial(b) \/ Leave(b)
        \/ Input(b, "key") \/ Input(b, "size")
        \/ ShellWrites(b) \/ ShellEnds(b)
        \/ Handler(b) \/ Copier(b)

TerminalSpec == TerminalInit /\ [][TerminalNext]_bridge

(* Fairness: both goroutines of a bridge run, and a shell ends when its    *)
(* input has ended, which stdin.Close tells it.                            *)
AtEndOfInput(b) == bridge[b].phase = "open" /\ ~bridge[b].typing

TerminalFairness ==
    \A b \in Bridge :
        /\ WF_bridge(Handler(b))
        /\ WF_bridge(Copier(b))
        /\ WF_bridge(AtEndOfInput(b) /\ ShellEnds(b))

-----------------------------------------------------------------------------
(* A terminal whose page has gone does not stay: whichever of its sides    *)
(* ended first, and whatever was typed or written last, both goroutines    *)
(* end, and its connections are closed (terminal.go:177-220).              *)
LeftTerminalsClose ==
    \A b \in Bridge :
        (bridge[b].phase # "none" /\ bridge[b].page = "gone") ~> (bridge[b].phase = "closed")

(* A page that is told that its connection is closed was shown all that    *)
(* its shell wrote, whatever was typed into a shell that had ended         *)
(* (terminal.go:180-196, 207-221).                                         *)
ClosedIsTheEnd ==
    \A b \in Bridge :
        bridge[b].page = "told" => bridge[b].shell = "gone" /\ bridge[b].output = 0

==============================================================================
