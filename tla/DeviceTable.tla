---------------------------- MODULE DeviceTable ----------------------------
(***************************************************************************)
(* The devices table of the provisioning database and the statements the   *)
(* services run against it.                                                *)
(*                                                                         *)
(* Everything here is an operator on a table value: the modules that give  *)
(* the services their steps say when a statement runs, and this module     *)
(* says what PostgreSQL does with it.  A serial number or a MAC address is *)
(* represented by the network device (Box) that carries it, so that        *)
(* r.serial = b reads "the serial number in row r is that of box b".       *)
(* Columns that no modelled decision reads (vendor class, hostname,        *)
(* description, variables, the last_* columns, the firmware columns) are   *)
(* left out; provisioned_at is kept as whether it is set (stamped).        *)
(***************************************************************************)

CONSTANTS
    Id,       \* the UUIDs available for rows of devices
    Box,      \* the physical network devices
    Profile,  \* the UUIDs available for rows of device_profiles
    Addr,     \* the management addresses an operator may enter
    NULL      \* SQL NULL, and a nil pointer of the Go structures

ASSUME NullAssumption == NULL \notin Id \cup Box \cup Profile \cup Addr

(* A nullable column over S. *)
Opt(S) == S \cup {NULL}

(* The enumerated type device_status. *)
Status == {"unknown", "discovered", "provisioning", "provisioned",
           "failed", "ignored"}

(* How the serial number of a row is spelled: as the lookup of the box's   *)
(* own requests spells it, or with the capitals its label prints.  The two *)
(* differ for Juniper boxes only, whose handler lower-cases the serial     *)
(* number of the URL before it looks it up or inserts it.                  *)
Spelling == {"requested", "printed"}

(* The columns of devices; also the Go structure models.Device. *)
Row == [serial : Opt(Box), spelt : Spelling, mac : Opt(Box), status : Status,
        profile : Opt(Profile), mgmt : Opt(Addr), stamped : BOOLEAN]

(* The value of a table at an id that has no row. *)
NoRow == [serial |-> NULL, spelt |-> "requested", mac |-> NULL,
          status |-> "absent", profile |-> NULL, mgmt |-> NULL, stamped |-> FALSE]

Table == [Id -> Row \cup {NoRow}]

EmptyTable == [i \in Id |-> NoRow]

(* The ids that have a row. *)
Live(tbl) == {i \in Id : tbl[i] # NoRow}

-----------------------------------------------------------------------------
(* The constraints of the table, as PostgreSQL enforces them on a write of *)
(* row r at id i: chk_device_identity, the two UNIQUE columns (NULLs never *)
(* clash), and the foreign key to the profiles that exist, profs.          *)

Identified(r) == r.serial # NULL \/ r.mac # NULL

Clash(q, r) ==
    \/ r.serial # NULL /\ q.serial = r.serial /\ q.spelt = r.spelt
    \/ r.mac # NULL /\ q.mac = r.mac

Admits(tbl, profs, i, r) ==
    /\ Identified(r)
    /\ r.profile \in Opt(profs)
    /\ \A j \in Live(tbl) \ {i} : ~Clash(tbl[j], r)

-----------------------------------------------------------------------------
(* The statements.  A statement that violates a constraint changes nothing *)
(* (the caller sees an error); neither does one whose WHERE matches no row *)
(* (the caller sees success).                                              *)

(* Mutant: the lookup returns an arbitrary row. *)
FindAny(tbl, key, b) == Live(tbl)

(* The rows a lookup by one identifier of box b can return.                *)
(* GetDeviceByIdentifier tries the serial column and then the MAC column;  *)
(* a serial number never has the form of a MAC address, so the column that *)
(* can match is fixed by the kind of identifier the request carries.  The  *)
(* serial column is text and compared as it is spelled.                    *)
Find(tbl, key, b) ==
    {i \in Live(tbl) : /\ tbl[i][key] = b
                       /\ key = "serial" => tbl[i].spelt = "requested"}

(* Mutant: the INSERT names the status column, empty unless given. *)
StoredEmpty(r) == [r EXCEPT !.status = "", !.stamped = FALSE]

(* CreateDevice: the INSERT names neither status nor provisioned_at, so    *)
(* the columns take their defaults whatever the Go structure says.         *)
Stored(r) == [r EXCEPT !.status = "unknown", !.stamped = FALSE]

Insert(tbl, i, r) == [tbl EXCEPT ![i] = Stored(r)]

(* Mutant: UpdateDevice written as an upsert that brings a row back. *)
Upserted(tbl, profs, i, r) ==
    IF Admits(tbl, profs, i, r) THEN [tbl EXCEPT ![i] = r] ELSE tbl

(* UpdateDevice: every column from the structure, whatever the row now     *)
(* holds.                                                                  *)
Overwrite(tbl, profs, i, r) ==
    IF i \in Live(tbl) /\ Admits(tbl, profs, i, r)
    THEN [tbl EXCEPT ![i] = r] ELSE tbl

(* DeleteDevice. *)
Erase(tbl, i) == [tbl EXCEPT ![i] = NoRow]

(* DeleteProfile, through ON DELETE SET NULL. *)
Unassign(tbl, p) ==
    [i \in Id |-> IF i \in Live(tbl) /\ tbl[i].profile = p
                  THEN [tbl[i] EXCEPT !.profile = NULL] ELSE tbl[i]]

-----------------------------------------------------------------------------
(* What the constraints promise of a whole table: every row is identified, *)
(* refers to a profile that exists, and shares no identifier with another. *)
TableOK(tbl, profs) ==
    \A i \in Live(tbl) :
        /\ Identified(tbl[i])
        /\ tbl[i].profile \in Opt(profs)
        /\ \A j \in Live(tbl) : Clash(tbl[j], tbl[i]) => i = j
=============================================================================
