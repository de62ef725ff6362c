------------------------------ MODULE Versions ------------------------------
(***************************************************************************)
(* Versions and constraints as the Policyfile resolver reads them           *)
(* (cli/policyfile/resolver/version.go, after Semverse).                    *)
(*                                                                         *)
(* A version has the one to three numbers that were written and the         *)
(* identifiers of its pre-release, numeric ones and others, which are        *)
(* numbered in the order of their texts.  Build metadata is ignored there.   *)
(***************************************************************************)
EXTENDS Integers, Sequences, SequencesExt

Version(nums, pre) == [nums |-> nums, pre |-> pre]
Constraint(op, nums, pre) == [op |-> op, nums |-> nums, pre |-> pre]
\* What constraintRE does not match.
Malformed == Constraint("malformed", <<0>>, <<>>)
AnyVersion == Constraint(">=", <<0, 0, 0>>, <<>>)

Identifiers == [numeric : BOOLEAN, val : Int]
IsVersion(v) == v = Version(v.nums, v.pre) /\ v.nums \in Seq(Nat) /\ v.pre \in Seq(Identifiers)

\* A missing minor or patch is 0.
Padded(nums) == [i \in 1..3 |-> IF i <= Len(nums) THEN nums[i] ELSE 0]

CmpInt(a, b) == IF a < b THEN -1 ELSE IF a > b THEN 1 ELSE 0
CmpIdentifier(x, y) ==
    IF x.numeric = y.numeric THEN CmpInt(x.val, y.val) ELSE IF x.numeric THEN -1 ELSE 1

\* The first place where two sequences differ decides.
FirstNonZero(cmps, otherwise) ==
    LET D == {i \in DOMAIN cmps : cmps[i] # 0} IN IF D = {} THEN otherwise ELSE cmps[Min(D)]

\* A release comes after its pre-releases.
ComparePreRelease(a, b) ==
    IF a = b THEN 0
    ELSE IF a = <<>> THEN 1
    ELSE IF b = <<>> THEN -1
    ELSE FirstNonZero([i \in DOMAIN a \cap DOMAIN b |-> CmpIdentifier(a[i], b[i])], CmpInt(Len(a), Len(b)))

Compare(v, w) ==
    FirstNonZero([i \in 1..3 |-> CmpInt(Padded(v.nums)[i], Padded(w.nums)[i])], ComparePreRelease(v.pre, w.pre))
-----------------------------------------------------------------------------
Approximate(c) == c.op \in {"~>", "~"}

NormalizedPadded(c) == [c EXCEPT !.nums = Padded(@)]                     \* mutant
\* What a lock says of a constraint: only ~> keeps the numbers that were written.
Normalized(c) == IF Approximate(c) THEN c ELSE [c EXCEPT !.nums = Padded(@)]

IsZero(c) == Padded(c.nums) = <<0, 0, 0>> /\ c.pre = <<>>

\* A constraint on releases does not let a pre-release in, but from above.
GreedyMatch(c, v) == c.op \notin {"<", "<="} /\ v.pre # <<>> /\ c.pre = <<>>

\* ~> is bounded by the number before the last one written, and by the major alone.
Approx(c, v) ==
    LET low == Version(c.nums, c.pre)
        high == Version(IF Len(c.nums) < 3 THEN <<c.nums[1] + 1>> ELSE <<c.nums[1], c.nums[2] + 1>>, <<>>)
    IN  Compare(low, v) <= 0 /\ Compare(v, high) < 0

Satisfies(c, v) ==
    LET cmp == Compare(v, Version(c.nums, c.pre)) IN
    /\ IsZero(c) \/ ~GreedyMatch(c, v)
    /\ CASE c.op = "=" -> cmp = 0
         [] c.op = "!=" -> cmp # 0
         [] c.op = ">" -> cmp > 0
         [] c.op = "<" -> cmp < 0
         [] c.op = ">=" -> cmp >= 0
         [] c.op = "<=" -> cmp <= 0
         [] Approximate(c) -> Approx(c, v)
         [] OTHER -> FALSE
=============================================================================
