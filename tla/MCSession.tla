------------------------------ MODULE MCSession ------------------------------
(* One browser: the tabs of a dashboard that sign in and out, or the       *)
(* terminals that its pages open, for model checking with TLC.             *)
EXTENDS Session, Terminal

VARIABLE focus

SessionPart == focus = "tabs" /\ SessionNext /\ UNCHANGED <<bridge, focus>>

TerminalPart == focus = "terminals" /\ TerminalNext /\ UNCHANGED <<sessionVars, focus>>

BrowserInit == SessionInit /\ TerminalInit /\ focus \in {"tabs", "terminals"}

BrowserNext == SessionPart \/ TerminalPart

BrowserSpec == BrowserInit /\ [][BrowserNext]_<<sessionVars, bridge, focus>>

BrowserFairSpec == BrowserSpec /\ SessionFairness /\ TerminalFairness
=============================================================================
