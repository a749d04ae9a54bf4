--------------------------- MODULE MCProvisioning ---------------------------
(* Constants for model checking Provisioning with TLC. *)
EXTENDS Provisioning, TLC

(* Ids, request slots and forms are interchangeable. *)
Symmetry == Permutations(Id) \cup Permutations(Handler)

All == Cisco \cup Juniper \cup Aruba
=============================================================================
