------------------------------ MODULE JsonTree ------------------------------
(***************************************************************************)
(* The ordered JSON tree of the structural editor (cli/jsoneditor: tree.go, *)
(* navigate.go, edit.go).                                                  *)
(*                                                                         *)
(* A tree is a function from paths to nodes.  A path is the sequence of    *)
(* member and element positions from the root, counted from 1.  The kind   *)
(* of a scalar is its literal; a member's key is kept at the path of its   *)
(* value, and document order is the order of paths.                        *)
(***************************************************************************)
EXTENDS SequencesExt

NoKey == "(none)"      \* the root and array elements have no key, not even an empty one
Blocks == {"object", "array"}
Node(kind, key) == [kind |-> kind, key |-> key]
NullNode(key) == Node("null", key)

Kids(t, p) == {q \in DOMAIN t : Len(q) = Len(p) + 1 /\ IsPrefix(p, q)}
IsBlock(t, p) == t[p].kind \in Blocks
HasKey(t, p) == p # <<>> /\ t[Front(p)].kind = "object"

\* What parseTree returns: every node but the root is a child of a block, children
\* are counted without gaps, members have keys and nothing else has.
IsTree(t) ==
    /\ IsFiniteSet(DOMAIN t) /\ DOMAIN t \subseteq Seq(Nat) /\ <<>> \in DOMAIN t
    /\ t = [p \in DOMAIN t |-> Node(t[p].kind, t[p].key)]
    /\ \A p \in DOMAIN t \ {<<>>} :
           /\ Front(p) \in DOMAIN t /\ IsBlock(t, Front(p))
           /\ Last(p) \in 1..Cardinality(Kids(t, Front(p)))
    /\ \A p \in DOMAIN t : HasKey(t, p) <=> t[p].key # NoKey
-----------------------------------------------------------------------------
(* Mutations                                                               *)

Suffix(p, q) == SubSeq(q, Len(p) + 1, Len(q))
SubtreeAt(t, p) ==
    LET below == {q \in DOMAIN t : IsPrefix(p, q)}
    IN  [r \in {Suffix(p, q) : q \in below} |-> IF r = <<>> THEN [t[p] EXCEPT !.key = NoKey] ELSE t[p \o r]]

\* replaceValueAt: the value at p becomes the tree s, a member keeps its key.
ReplaceValueAt(t, p, s) ==
    [q \in {r \in DOMAIN t : ~IsPrefix(p, r)} \cup {p \o r : r \in DOMAIN s} |->
        IF ~IsPrefix(p, q) THEN t[q]
        ELSE IF q = p THEN Node(s[<<>>].kind, t[p].key) ELSE s[Suffix(p, q)]]

SetKeyAt(t, p, key) == [t EXCEPT ![p].key = key]

\* Where q comes to be when the sibling at p and all after it move by d positions.
Moved(p, d, q) ==
    IF Len(q) >= Len(p) /\ IsPrefix(Front(p), q) /\ q[Len(p)] >= Last(p)
    THEN [q EXCEPT ![Len(p)] = @ + d] ELSE q
Renumber(t, rest, p, d) ==
    [r \in {Moved(p, d, q) : q \in rest} |-> t[CHOOSE q \in rest : Moved(p, d, q) = r]]

DeleteAt(t, p) == Renumber(t, {q \in DOMAIN t : ~IsPrefix(p, q)}, p, -1)

\* addMember, addElem and insertSiblingAfter: a new leaf at p.
InsertLeaf(t, p, node) ==
    LET rest == Renumber(t, DOMAIN t, p, 1)
    IN  [q \in {p} \cup DOMAIN rest |-> IF q = p THEN node ELSE rest[q]]
EndOf(t, p) == Append(p, Cardinality(Kids(t, p)) + 1)
NextSibling(p) == Append(Front(p), Last(p) + 1)
-----------------------------------------------------------------------------
(* Units: what the cursor selects                                          *)

Precedes(p, q) ==
    \/ IsStrictPrefix(p, q)
    \/ \E i \in (DOMAIN p) \cap (DOMAIN q) :
           SubSeq(p, 1, i - 1) = SubSeq(q, 1, i - 1) /\ p[i] < q[i]

\* collectUnits: the key and the value of every node below the root; the root
\* itself where it has nothing below.
Unit(p, typ) == [path |-> p, typ |-> typ]
ValueUnit(t, p) == Unit(p, IF IsBlock(t, p) THEN "block" ELSE "scalar")
CollectUnits(t) ==
    LET below == DOMAIN t \ {<<>>}
    IN  {Unit(p, "key") : p \in {q \in below : HasKey(t, q)}}
        \cup {ValueUnit(t, p) : p \in IF below = {} THEN {<<>>} ELSE below}
UnitBefore(u, v) ==
    Precedes(u.path, v.path) \/ (u.path = v.path /\ u.typ = "key" /\ v.typ # "key")

\* findUnit and findValueUnit; 0 if there is none.
Position(units, u) == IF u \in units THEN Cardinality({v \in units : UnitBefore(v, u)}) ELSE 0
-----------------------------------------------------------------------------
(* What a decoder makes of the document: the last of several members with  *)
(* one key counts.                                                         *)

LastWithKey(t, p, key) ==
    CHOOSE q \in Kids(t, p) : t[q].key = key /\ \A r \in Kids(t, p) : t[r].key = key => Last(r) <= Last(q)
Meaning(t) ==
    LET value[p \in DOMAIN t] ==
            CASE t[p].kind = "object" ->
                    <<"object", [k \in {t[q].key : q \in Kids(t, p)} |-> value[LastWithKey(t, p, k)]]>>
              [] t[p].kind = "array" ->
                    <<"array", [i \in 1..Cardinality(Kids(t, p)) |-> value[Append(p, i)]]>>
              [] OTHER -> <<"scalar", t[p].kind>>
    IN  value
=============================================================================
