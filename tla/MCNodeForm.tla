----------------------------- MODULE MCNodeForm -----------------------------
(***************************************************************************)
(* Instances of NodeForm and JsonEditor for TLC.                           *)
(***************************************************************************)
EXTENDS NodeForm

Leaf(literal) == <<>> :> Node(literal, NoKey)
Empty(kind) == <<>> :> Node(kind, NoKey)
With(kind, key, t) ==
    (<<>> :> Node(kind, NoKey)) @@ ReplaceValueAt(<<1>> :> Node("null", key), <<1>>, t)
ThreeBags(normal) ==
    (<<>> :> Node("object", NoKey)) @@ ReplaceValueAt(<<1>> :> Node("null", "normal"), <<1>>, normal)
    @@ (<<2>> :> Node("object", "default")) @@ (<<3>> :> Node("object", "override"))

SomeSeeds == {Text(TRUE, t) : t \in {Empty("object"), With("object", "a", With("array", NoKey, Leaf("x")))}}
Refused == {Text(FALSE, NoTree), Text(FALSE, Empty("object"))}
TypedIn == [h \in Hosts |->
                Refused \cup {Text(TRUE, Leaf("x"))} \cup (IF h = "form" THEN {} ELSE {Text(TRUE, Empty("array"))})]
NodesOf == [command |-> 4, explorer |-> 3, form |-> 5]
OneList == {<<>>, <<"recipe[a]">>}
Bag == ThreeBags(With("object", "a", Leaf("x")))
NoBags == ThreeBags(Empty("object"))
=============================================================================
