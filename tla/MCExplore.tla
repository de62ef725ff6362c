----------------------------- MODULE MCExplore -----------------------------
(***************************************************************************)
(* Instances of Explore for TLC.                                           *)
(***************************************************************************)
EXTENDS Explore

Object == {"view", "edit", "create", "delete", "summary", "search"}

\* Two kinds without children.  A node and a client share a name on a real
\* server: every node registers a client of its own name.
FlatKinds == {"nodes", "clients"}
FlatMenu == FlatKinds
FlatCaps == [k \in FlatKinds |-> IF k = "clients" THEN Object \cup {"secret"} ELSE Object]
FlatChild == [k \in {} |-> {}]
FlatStored == [p \in Profiles |-> [k \in FlatKinds |-> {1}]]

\* Data bags 1 and 2 with their items, and cookbooks 1 and 2 with their versions.
\* Items are searched from their own list only.
TreeKinds == {"bags", "items1", "items2", "cookbooks", "versions1", "versions2"}
TreeMenu == {"bags", "cookbooks"}
TreeCaps == [k \in TreeKinds |->
    CASE k = "bags"      -> {"drill", "named", "delete", "summary"}
      [] k = "cookbooks" -> {"drill", "summary"}
      [] k \in {"items1", "items2"} -> Object
      [] OTHER -> {"view", "delete", "download", "summary"}]
TreeChild == [k \in TreeMenu |-> [n \in Names |->
    IF k = "bags" THEN IF n = 1 THEN "items1" ELSE "items2"
    ELSE IF n = 1 THEN "versions1" ELSE "versions2"]]
TreeStored == [p \in Profiles |-> [k \in TreeKinds |-> Names]]
=============================================================================
