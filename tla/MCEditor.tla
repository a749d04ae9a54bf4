------------------------------ MODULE MCEditor ------------------------------
EXTENDS Editor
MCContents == {Nothing,
   [scalars |-> [k \in {"k"} |-> "x"],
    lists   |-> [NoLists EXCEPT !["vlans"] = <<[id |-> 1, text |-> "a"]>>]]}
==============================================================================
