----------------------------- MODULE PolicyDiff -----------------------------
(***************************************************************************)
(* What `cinc policy diff` says of two revisions of a policy                *)
(* (apps/cinc/cmd/policylifecycle.go), and what a reader can make of it.    *)
(*                                                                         *)
(* A revision is a lock: a run list, the version and identifier of each      *)
(* cookbook, and attributes.  Attributes are a function from the paths of a  *)
(* tree, inner nodes included, to what is there: Map, Null or a value, which    *)
(* like versions are sequences.                                             *)
(***************************************************************************)
EXTENDS Sequences, FiniteSets, Functions

Map == <<"map">>
Null == <<"null">>
None == <<>>

\* From is None for what was added, To for what was removed.
Delta(of, from, to) == [of |-> of, from |-> from, to |-> to]

VersionDelta(n, a, b) ==                                                 \* mutant
    IF n \notin DOMAIN b THEN {Delta(n, a[n].version, None)}
    ELSE IF n \notin DOMAIN a THEN {Delta(n, None, b[n].version)}
    ELSE IF a[n].version # b[n].version THEN {Delta(n, a[n].version, b[n].version)} ELSE {}
\* A changed cookbook shows its versions, or its identifiers under one version.
CookbookDelta(n, a, b) ==
    IF n \notin DOMAIN b THEN {Delta(n, a[n].version, None)}
    ELSE IF n \notin DOMAIN a THEN {Delta(n, None, b[n].version)}
    ELSE IF a[n].version # b[n].version THEN {Delta(n, a[n].version, b[n].version)}
    ELSE IF a[n].id # b[n].id THEN {Delta(n, <<a[n].id>>, <<b[n].id>>)} ELSE {}
CookbookDeltas(a, b) == UNION {CookbookDelta(n, a, b) : n \in DOMAIN a \cup DOMAIN b}

\* Run lists are compared as sets.
Added(a, b) == Range(b) \ Range(a)

\* The leaves of both precedence levels; an empty map leaves nothing.
Flat(attrs) == {p \in DOMAIN attrs : attrs[p] # Map}
Leaf(attrs, p) == IF p \in Flat(attrs) /\ attrs[p] # Null THEN attrs[p] ELSE None
AttrDeltas(a, b) ==
    LET same(p) == p \in Flat(a) \cap Flat(b) /\ a[p] = b[p] IN
    {Delta(p, Leaf(a, p), Leaf(b, p)) : p \in {q \in Flat(a) \cup Flat(b) : ~same(q)}}

Diff(a, b) ==
    [cookbooks |-> CookbookDeltas(a.locks, b.locks),
     added |-> Added(a.runlist, b.runlist), removed |-> Added(b.runlist, a.runlist),
     attributes |-> AttrDeltas(a.attrs, b.attrs)]
Empty(d) == d = [cookbooks |-> {}, added |-> {}, removed |-> {}, attributes |-> {}]
-----------------------------------------------------------------------------
(* Reading a diff                                                          *)

\* What someone who knows a and reads the deltas takes a path to be in b.
Believed(deltas, of, was) ==
    IF \E d \in deltas : d.of = of THEN (CHOOSE d \in deltas : d.of = of).to ELSE was

\* Cookbooks and their versions, recipes, and attributes up to null and empty maps,
\* are all told; no difference told is no difference there.
TellsAll(d, a, b) ==
    LET version(l, n) == IF n \in DOMAIN l.locks THEN l.locks[n].version ELSE None
        changed(n) == \E x \in d.cookbooks : x.of = n
    IN  /\ \A n \in DOMAIN a.locks \cup DOMAIN b.locks :
             /\ changed(n) <=> n \notin DOMAIN a.locks \cap DOMAIN b.locks \/ a.locks[n] # b.locks[n]
             /\ version(a, n) # version(b, n) => Believed(d.cookbooks, n, version(a, n)) = version(b, n)
        /\ (Range(a.runlist) \ d.removed) \cup d.added = Range(b.runlist)
        /\ \A p \in DOMAIN a.attrs \cup DOMAIN b.attrs :
             Believed(d.attributes, p, Leaf(a.attrs, p)) = Leaf(b.attrs, p)
=============================================================================
