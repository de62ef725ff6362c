------------------------------- MODULE Solver -------------------------------
(***************************************************************************)
(* The backtracking search of the Policyfile resolver, one candidate at a   *)
(* time (cli/policyfile/resolver/solver.go), and what a solution is.        *)
(*                                                                         *)
(* Cookbooks are numbers, in the order of their names.  A problem has a      *)
(* universe, from a cookbook to the candidates of it that are to be had, and *)
(* demands.  A candidate has a version and a sequence of dependencies.  A    *)
(* frame of the stack is a call of backtrack: the cookbook it decides, what  *)
(* is asked and what is assigned so far, and the candidates not yet given up. *)
(***************************************************************************)
EXTENDS Versions, FiniteSets

Needs(name, con) == [name |-> name, con |-> con]
Candidate(version, deps) == [version |-> version, deps |-> deps]
Problem(universe, demands) == [universe |-> universe, demands |-> demands]

\* f, and value at key.
Put(f, key, value) == [x \in DOMAIN f \cup {key} |-> IF x = key THEN value ELSE f[x]]

NoProblem == Problem(<<>>, {})
NotSolving == [problem |-> NoProblem, stack |-> <<>>, answer |-> <<>>, out |-> "none"]

SatisfiesAll(version, name, asked) == \A a \in asked : a.name = name => Satisfies(a.con, version)
\* The loop goes through the candidates sorted: the next is the highest one left.
Highest(cands) == CHOOSE c \in cands : \A d \in cands : Compare(c.version, d.version) >= 0

RejectedKeeps(s) == IF s.stack = <<>> THEN [s EXCEPT !.out = "failed"] ELSE s  \* mutant
\* An error returns to the call below, which goes on with its next candidate.
Rejected(s) ==
    IF s.stack = <<>> THEN [s EXCEPT !.out = "failed"]
    ELSE [s EXCEPT !.stack[Len(s.stack)].todo = @ \ {Highest(@)}]
GiveUp(s) == Rejected([s EXCEPT !.stack = Front(@)])

\* backtrack decides the first cookbook asked for and not assigned.
Backtrack(s, asked, assigned) ==
    LET open == {a.name : a \in asked} \ DOMAIN assigned
        name == Min(open)
    IN  IF open = {} THEN [s EXCEPT !.out = "solved", !.answer = assigned]
        ELSE IF name \notin DOMAIN s.problem.universe THEN Rejected(s)
        ELSE [s EXCEPT !.stack = Append(@, [name |-> name, asked |-> asked, assigned |-> assigned,
                                             todo |-> s.problem.universe[name]])]

Solve(problem) == Backtrack([NotSolving EXCEPT !.problem = problem, !.out = "solving"], problem.demands, <<>>)

NoConflicts(deps, assigned) == {}                                        \* mutant
\* The dependencies of a candidate are taken in order, up to one that is malformed or
\* that an assigned version does not satisfy.
Conflicts(deps, assigned) ==
    {i \in DOMAIN deps : \/ deps[i].con = Malformed
                         \/ deps[i].name \in DOMAIN assigned /\ ~Satisfies(deps[i].con, assigned[deps[i].name])}

Tried(s) ==
    LET f == Last(s.stack)
        c == Highest(f.todo)
        assigned == Put(f.assigned, f.name, c.version)
        bad == Conflicts(c.deps, assigned)
    IN  IF f.todo = {} THEN GiveUp(s)
        ELSE IF ~SatisfiesAll(c.version, f.name, f.asked) THEN Rejected(s)
        ELSE IF bad = {} THEN Backtrack(s, f.asked \cup Range(c.deps), assigned)
        ELSE IF c.deps[Min(bad)].con = Malformed THEN GiveUp(s)
        ELSE Rejected(s)
-----------------------------------------------------------------------------
(* What is asked of it                                                     *)

Names(p) == DOMAIN p.universe
\* Everything a problem can ask for, and what a problem is: names are numbers, a cookbook has
\* finitely many candidates, and no two of them in one version.
Asks(p) == p.demands \cup UNION {Range(c.deps) : c \in UNION {p.universe[n] : n \in Names(p)}}
IsProblem(p) ==
    /\ Names(p) \subseteq Nat
    /\ \A n \in Names(p) :
          /\ IsFiniteSet(p.universe[n])
          /\ \A c \in p.universe[n] : IsVersion(c.version) /\ DOMAIN c.deps \subseteq Nat
          /\ \A c, d \in p.universe[n] : Compare(c.version, d.version) = 0 => c = d
    /\ \A a \in Asks(p) : a.name \in Nat

Chosen(p, f, n) == CHOOSE c \in p.universe[n] : c.version = f[n]

\* Any choice of versions that meets the demands and its own dependencies.
IsSolution(p, f) ==
    LET met(a) == a.name \in DOMAIN f /\ Satisfies(a.con, f[a.name]) IN
    /\ \A d \in p.demands : met(d)
    /\ \A n \in DOMAIN f : \A i \in DOMAIN Chosen(p, f, n).deps : met(Chosen(p, f, n).deps[i])
Picks(p) ==
    UNION {{f \in [S -> UNION {{c.version : c \in p.universe[n]} : n \in S}] :
              \A n \in S : f[n] \in {c.version : c \in p.universe[n]}} : S \in SUBSET Names(p)}
WellFormed(p) ==
    /\ \A d \in p.demands : d.con # Malformed
    /\ \A n \in Names(p) : \A c \in p.universe[n] : \A i \in DOMAIN c.deps : c.deps[i].con # Malformed

Sound(s) == s.out = "solved" => IsSolution(s.problem, s.answer)
\* Every cookbook of the answer is demanded, or needed by another one of it.
Needed(s) ==
    s.out = "solved" =>
        \A n \in DOMAIN s.answer :
            \/ n \in {d.name : d \in s.problem.demands}
            \/ \E m \in DOMAIN s.answer \ {n} : \E i \in DOMAIN Chosen(s.problem, s.answer, m).deps :
                   Chosen(s.problem, s.answer, m).deps[i].name = n
Complete(s) == s.out = "failed" /\ WellFormed(s.problem) => \A f \in Picks(s.problem) : ~IsSolution(s.problem, f)

\* Where another solution first differs, in the order cookbooks are decided, it is lower.
Decided(s) == [i \in DOMAIN s.stack |-> s.stack[i].name]
HighestFirst(s) ==
    s.out = "solved" /\ WellFormed(s.problem) =>
        \A f \in {g \in Picks(s.problem) : IsSolution(s.problem, g)} :
            LET D == {i \in DOMAIN s.stack : Decided(s)[i] \in DOMAIN f => f[Decided(s)[i]] # s.answer[Decided(s)[i]]}
            IN  D # {} => LET n == Decided(s)[Min(D)] IN n \in DOMAIN f /\ Compare(f[n], s.answer[n]) < 0
=============================================================================
