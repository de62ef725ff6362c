-------------------------- MODULE PolicyLifecycle --------------------------
(***************************************************************************)
(* The commands that write policies on one Cinc Server: `cinc policy push` *)
(* and `push-archive`, `policy clean`, `policy clean-cookbooks`, `policy   *)
(* delete` and `policy-group delete` (apps/cinc/cmd: policy_deploy.go,     *)
(* policylifecycle.go, policy.go, policygroup.go), and what `cinc explore` *)
(* deletes of policies and groups (cli/explore/kind_policy*.go).           *)
(*                                                                         *)
(* Several users run them at once.  A command is a sequence of requests,   *)
(* nothing locks the server between two of them, and the two clean         *)
(* commands delete what earlier answers told them nothing referred to.     *)
(* One action is one request and what the command does with its answer.    *)
(*                                                                         *)
(* The server, and the library's PushRevision, are modelled from how the   *)
(* commands and their tests use them.                                      *)
(***************************************************************************)
EXTENDS Integers, FiniteSets

CONSTANTS Users,       \* who runs commands
          Policies,    \* names of policies
          Groups,      \* names of policy groups
          Revisions,   \* revisions, numbered in the order their names and ids sort
          PolicyOf,    \* the policy each revision is of
          Artifacts,   \* cookbook artifacts, numbered in the same way
          Locks,       \* the artifacts each revision's lock pins
          MaxCommands  \* bound on the commands started

ASSUME OrderAssumption == Revisions \subseteq Nat /\ Artifacts \subseteq Nat
ASSUME LockAssumption ==
    PolicyOf \in [Revisions -> Policies] /\ Locks \in [Revisions -> SUBSET Artifacts]
ASSUME BoundAssumption == MaxCommands \in Nat

VARIABLES
    revs,        \* the revisions the server holds
    pins,        \* pairs <<group, revision>>: the revision is active in the group
    artifacts,   \* the artifacts the server holds
    run,         \* the command each user runs
    started,     \* how many commands were started
    pushed,      \* history: the revisions pinned while the user's command ran
    met,         \* history: what kinds of command overlapped the user's command
    unsafe       \* history: the revisions whose last push met a clean-cookbooks

vars == <<revs, pins, artifacts, run, started, pushed, met, unsafe>>
server == <<revs, pins, artifacts>>

Pinned == {r \in Revisions : \E g \in Groups : <<g, r>> \in pins}
Referenced(rs) == UNION {Locks[r] : r \in rs}

Idle == [op |-> "none"]
Pushing == [op : {"push"}, at : {"list", "upload"}, rev : Revisions, group : Groups,
            missing : SUBSET Artifacts]
Cleaning == [op : {"clean"}, at : {"groups", "policies", "delete"}, scope : SUBSET Policies,
             dry : BOOLEAN, inUse : SUBSET Revisions, orphans : SUBSET Revisions]
Sweeping == [op : {"sweep"}, at : {"index", "revisions", "delete"}, dry : BOOLEAN,
             unread : SUBSET Revisions, referenced : SUBSET Artifacts, orphans : SUBSET Artifacts]
Kinds == {"push", "clean", "sweep", "delete"}

\* Nobody runs a command.  Pushes and deletes of groups have left what they leave:
\* revisions no group pins, artifacts no revision refers to.
Init ==
    /\ revs \in SUBSET Revisions
    /\ pins \in SUBSET (Groups \X revs)
    /\ \A p, q \in pins : p[1] = q[1] /\ PolicyOf[p[2]] = PolicyOf[q[2]] => p = q
    /\ artifacts \in {as \in SUBSET Artifacts : Referenced(revs) \subseteq as}
    /\ run = [u \in Users |-> Idle] /\ started = 0
    /\ pushed = [u \in Users |-> {}] /\ met = [u \in Users |-> {}] /\ unsafe = {}
-----------------------------------------------------------------------------
(* Commands                                                                *)

Others(u) == {v \in Users \ {u} : run[v] # Idle}

\* User u starts a command of a kind: what runs overlaps it, and has met it.
Overlaps(u, kind, others) ==
    /\ run[u] = Idle /\ started < MaxCommands
    /\ started' = started + 1
    /\ met' = [v \in Users |-> IF v = u THEN others
                               ELSE IF v \in Others(u) THEN met[v] \cup {kind} ELSE met[v]]

Start(u, command) ==
    /\ Overlaps(u, command.op, {run[v].op : v \in Others(u)})
    /\ run' = [run EXCEPT ![u] = command]
    /\ UNCHANGED <<server, pushed, unsafe>>

\* The command goes on, or it returns.
Goes(u, command) ==
    /\ run' = [run EXCEPT ![u] = command]
    /\ UNCHANGED <<started, pushed, met, unsafe>>
Forgets(u) ==
    /\ run' = [run EXCEPT ![u] = Idle]
    /\ met' = [met EXCEPT ![u] = {}]
    /\ UNCHANGED started
Returns(u) ==
    /\ Forgets(u)
    /\ pushed' = [pushed EXCEPT ![u] = {}]
    /\ UNCHANGED unsafe

\* A request fails, or the command is interrupted, and it returns; what its
\* earlier requests did stays done.
Fail(u) == run[u] # Idle /\ Returns(u) /\ UNCHANGED server
-----------------------------------------------------------------------------
(* Push and push-archive                                                   *)

Push(u) ==
    \E r \in Revisions, g \in Groups :
        Start(u, [op |-> "push", at |-> "list", rev |-> r, group |-> g, missing |-> {}])

\* GET /cookbook_artifacts: what the server holds already is not uploaded.
PushList(u) ==
    /\ run[u].op = "push" /\ run[u].at = "list"
    /\ Goes(u, [run[u] EXCEPT !.at = "upload", !.missing = Locks[run[u].rev] \ artifacts])
    /\ UNCHANGED server

PushUpload(u) ==
    /\ run[u].op = "push" /\ run[u].at = "upload"
    /\ \E a \in run[u].missing :
           /\ artifacts' = artifacts \cup {a}
           /\ Goes(u, [run[u] EXCEPT !.missing = @ \ {a}])
    /\ UNCHANGED <<revs, pins>>

\* PUT /policy_groups/GROUP/policies/NAME: the revision exists from then on and
\* takes the place of the group's revision of the same policy.
Pin(u) ==
    LET r == run[u].rev
        g == run[u].group
    IN  /\ revs' = revs \cup {r}
        /\ pins' = {p \in pins : p[1] = g => PolicyOf[p[2]] # PolicyOf[r]} \cup {<<g, r>>}
        /\ pushed' = [v \in Users |-> IF v \in Others(u) THEN pushed[v] \cup {r} ELSE {}]
        /\ unsafe' = IF "sweep" \in met[u] THEN unsafe \cup {r} ELSE unsafe \ {r}
        /\ Forgets(u)
        /\ UNCHANGED artifacts

PushPinEarly(u) == run[u].op = "push" /\ run[u].at = "upload" /\ Pin(u)   \* mutant
PushPin(u) ==
    /\ run[u].op = "push" /\ run[u].at = "upload" /\ run[u].missing = {}
    /\ Pin(u)
-----------------------------------------------------------------------------
(* Clean                                                                   *)

Clean(u) ==
    \E scope \in {Policies} \cup {{p} : p \in Policies}, dry \in BOOLEAN :
        Start(u, [op |-> "clean", at |-> "groups", scope |-> scope, dry |-> dry,
                  inUse |-> {}, orphans |-> {}])

\* revisionsInUse: GET /policy_groups.
CleanGroups(u) ==
    /\ run[u].op = "clean" /\ run[u].at = "groups"
    /\ Goes(u, [run[u] EXCEPT !.at = "policies", !.inUse = Pinned])
    /\ UNCHANGED server

OrphanPolicies(u) ==                                                      \* mutant
    {r \in revs : \A s \in run[u].inUse : PolicyOf[s] # PolicyOf[r]}
\* GET /policies: the revisions in scope that were not in use a request ago.
Orphans(u) == {r \in revs \ run[u].inUse : PolicyOf[r] \in run[u].scope}
CleanPolicies(u) ==
    /\ run[u].op = "clean" /\ run[u].at = "policies"
    /\ Goes(u, [run[u] EXCEPT !.at = "delete", !.orphans = IF run[u].dry THEN {} ELSE Orphans(u)])
    /\ UNCHANGED server

\* DELETE /policies/NAME/revisions/ID, in order.  A revision that is gone is an
\* error, and the ones after it stay.
CleanDelete(u) ==
    /\ run[u].op = "clean" /\ run[u].at = "delete"
    /\ \E r \in run[u].orphans :
           /\ \A s \in run[u].orphans : r <= s
           /\ revs' = revs \ {r}
           /\ pins' = {p \in pins : p[2] # r}
           /\ IF r \in revs THEN Goes(u, [run[u] EXCEPT !.orphans = @ \ {r}]) ELSE Returns(u)
    /\ UNCHANGED artifacts

CleanDone(u) ==
    /\ run[u].op = "clean" /\ run[u].at = "delete" /\ run[u].orphans = {}
    /\ Returns(u)
    /\ UNCHANGED server
-----------------------------------------------------------------------------
(* Clean-cookbooks                                                         *)

Sweep(u) ==
    \E dry \in BOOLEAN :
        Start(u, [op |-> "sweep", at |-> "index", dry |-> dry, unread |-> {},
                  referenced |-> {}, orphans |-> {}])

SweepIndexPinned(u) ==                                                    \* mutant
    /\ run[u].op = "sweep" /\ run[u].at = "index"
    /\ Goes(u, [run[u] EXCEPT !.at = "revisions", !.unread = Pinned])
    /\ UNCHANGED server
\* referencedArtifacts: GET /policies, then each revision in any order; one that
\* is gone by then is an error, and nothing is deleted.
SweepIndex(u) ==
    /\ run[u].op = "sweep" /\ run[u].at = "index"
    /\ Goes(u, [run[u] EXCEPT !.at = "revisions", !.unread = revs])
    /\ UNCHANGED server

SweepRevision(u) ==
    /\ run[u].op = "sweep" /\ run[u].at = "revisions"
    /\ \E r \in run[u].unread :
           IF r \in revs
           THEN Goes(u, [run[u] EXCEPT !.unread = @ \ {r}, !.referenced = @ \cup Locks[r]])
           ELSE Returns(u)
    /\ UNCHANGED server

\* orphanedArtifacts: GET /cookbook_artifacts.
SweepArtifacts(u) ==
    /\ run[u].op = "sweep" /\ run[u].at = "revisions" /\ run[u].unread = {}
    /\ Goes(u, [run[u] EXCEPT !.at = "delete",
                    !.orphans = IF run[u].dry THEN {} ELSE artifacts \ run[u].referenced])
    /\ UNCHANGED server

SweepDelete(u) ==
    /\ run[u].op = "sweep" /\ run[u].at = "delete"
    /\ \E a \in run[u].orphans :
           /\ \A b \in run[u].orphans : a <= b
           /\ artifacts' = artifacts \ {a}
           /\ IF a \in artifacts THEN Goes(u, [run[u] EXCEPT !.orphans = @ \ {a}]) ELSE Returns(u)
    /\ UNCHANGED <<revs, pins>>

SweepDone(u) ==
    /\ run[u].op = "sweep" /\ run[u].at = "delete" /\ run[u].orphans = {}
    /\ Returns(u)
    /\ UNCHANGED server
-----------------------------------------------------------------------------
(* Deletes: one request each, from the command line or from `cinc explore` *)

\* The revisions of the policy go, and with them what groups pinned.
DeletePolicy(u) ==
    /\ \E p \in Policies :
           /\ revs' = {r \in revs : PolicyOf[r] # p}
           /\ pins' = {q \in pins : PolicyOf[q[2]] # p}
    /\ Overlaps(u, "delete", {})
    /\ UNCHANGED <<artifacts, run, pushed, unsafe>>

\* The revisions the group pinned are left in place.
DeleteGroup(u) ==
    /\ \E g \in Groups : pins' = {q \in pins : q[1] # g}
    /\ Overlaps(u, "delete", {})
    /\ UNCHANGED <<revs, artifacts, run, pushed, unsafe>>

\* In the terminal UI: one revision, or what a group pins of one policy.
DeleteRevision(u) ==
    /\ \E r \in revs : revs' = revs \ {r} /\ pins' = {p \in pins : p[2] # r}
    /\ Overlaps(u, "delete", {})
    /\ UNCHANGED <<artifacts, run, pushed, unsafe>>
Unpin(u) ==
    /\ \E p \in pins : pins' = pins \ {p}
    /\ Overlaps(u, "delete", {})
    /\ UNCHANGED <<revs, artifacts, run, pushed, unsafe>>
-----------------------------------------------------------------------------
Step(u) ==
    \/ Fail(u) \/ DeletePolicy(u) \/ DeleteGroup(u) \/ DeleteRevision(u) \/ Unpin(u)
    \/ Push(u) \/ PushList(u) \/ PushUpload(u) \/ PushPin(u)
    \/ Clean(u) \/ CleanGroups(u) \/ CleanPolicies(u) \/ CleanDelete(u) \/ CleanDone(u)
    \/ Sweep(u) \/ SweepIndex(u) \/ SweepRevision(u) \/ SweepArtifacts(u)
    \/ SweepDelete(u) \/ SweepDone(u)

Next == \E u \in Users : Step(u)

Spec == Init /\ [][Next]_vars
-----------------------------------------------------------------------------
(* Properties                                                              *)

\* The server holds revisions and artifacts of the sets, a command is one of three.
TypeOK ==
    /\ revs \subseteq Revisions /\ artifacts \subseteq Artifacts
    /\ pins \subseteq Groups \X revs
    /\ run \in [Users -> {Idle} \cup Pushing \cup Cleaning \cup Sweeping]
    /\ started \in Nat
    /\ pushed \in [Users -> SUBSET Revisions] /\ met \in [Users -> SUBSET Kinds]
    /\ unsafe \subseteq Revisions

\* `policy clean` deletes a revision that a group pins only if a push has pinned it
\* since the command began: the groups are read before the revisions, and what
\* was pinned then is never an orphan (newPolicyCleanCmd, revisionsInUse).
CleanSparesPinned ==
    \A u \in Users : run[u].op = "clean" => run[u].orphans \cap Pinned \subseteq pushed[u]

\* `policy clean-cookbooks` deletes an artifact that a revision refers to only if
\* the revision was pushed since the command began, whatever revisions are
\* deleted while it reads them (referencedArtifacts, orphanedArtifacts).
SweepSparesReferenced ==
    \A u \in Users : run[u].op = "sweep" =>
        \A r \in revs \ pushed[u] : run[u].orphans \cap Locks[r] = {}

\* A revision lacks an artifact only if its last push overlapped a clean-cookbooks:
\* a push that met none leaves it complete, and every command after that keeps it
\* so; pushing again mends one that is not (PushRevision, clean-cookbooks).
RevisionsComplete == \A r \in revs \ unsafe : Locks[r] \subseteq artifacts

\* A clean that deleted all it meant to leaves no revision in its scope that no
\* group pins, if no push and no delete overlapped it (newPolicyCleanCmd).
CleanLeavesNoOrphans ==
    \A u \in Users :
        /\ run[u].op = "clean" /\ run[u].at = "delete" /\ ~run[u].dry
        /\ run[u].orphans = {} /\ met[u] \subseteq {"clean", "sweep"}
        => \A r \in revs : PolicyOf[r] \in run[u].scope => r \in Pinned

\* A clean-cookbooks that deleted all it meant to leaves no artifact that no
\* revision refers to, if nothing but others of its kind overlapped it; a clean that
\* does may orphan more after the revisions are read (newPolicyCleanCookbooksCmd).
SweepLeavesNoOrphans ==
    \A u \in Users :
        /\ run[u].op = "sweep" /\ run[u].at = "delete" /\ ~run[u].dry
        /\ run[u].orphans = {} /\ met[u] \subseteq {"sweep"}
        => artifacts \subseteq Referenced(revs)

\* What a clean command means to delete is nothing that was referred to when it began:
\* policy clean and clean-cookbooks, each beside every other command.
CleansAreSafe == TypeOK /\ CleanSparesPinned /\ SweepSparesReferenced

\* Left in peace by pushes and deletes, both delete all that nothing refers to.
CleansAreThorough == CleanLeavesNoOrphans /\ SweepLeavesNoOrphans

-----------------------------------------------------------------------------
(* Why they hold: the inductive invariant of PolicyLifecycleProofs         *)

\* Two commands that run met each other.
Overlap == \A u, v \in Users : u # v /\ run[u] # Idle /\ run[v] # Idle => run[v].op \in met[u]

\* Who runs nothing remembers nothing.
Forgotten == \A u \in Users : run[u] = Idle => pushed[u] = {} /\ met[u] = {}

\* What is pinned was in use when the groups were read, or has been pinned since.
CleanKnows ==
    \A u \in Users : run[u].op = "clean" =>
        /\ run[u].at # "groups" => Pinned \subseteq run[u].inUse \cup pushed[u]
        /\ run[u].at # "delete" => run[u].orphans = {}
        /\ run[u].orphans \cap run[u].inUse = {}

\* A revision is still to be read, is read, or has been pushed since; the last is unsafe.
SweepKnows ==
    \A u \in Users : run[u].op = "sweep" =>
        /\ run[u].at # "index" =>
               \A r \in revs \ pushed[u] : r \in run[u].unread \/ Locks[r] \subseteq run[u].referenced
        /\ run[u].at # "delete" => run[u].orphans = {}
        /\ run[u].at = "delete" => run[u].unread = {}
        /\ run[u].orphans \cap run[u].referenced = {}
        /\ pushed[u] \subseteq unsafe

\* Undisturbed by a clean-cookbooks, a push has what it found and what it uploaded.
PushKnows ==
    \A u \in Users : run[u].op = "push" /\ run[u].at = "upload" /\ "sweep" \notin met[u] =>
        Locks[run[u].rev] \subseteq artifacts \cup run[u].missing

\* Undisturbed, the clean commands know all there is to delete.
CleanFinds ==
    \A u \in Users : run[u].op = "clean" /\ met[u] \subseteq {"clean", "sweep"} =>
        /\ run[u].at # "groups" => run[u].inUse \cap revs \subseteq Pinned
        /\ run[u].at = "delete" /\ ~run[u].dry =>
               \A r \in revs : PolicyOf[r] \in run[u].scope => r \in run[u].orphans \cup Pinned
SweepFinds ==
    \A u \in Users : run[u].op = "sweep" /\ met[u] \subseteq {"sweep"} =>
        /\ run[u].at # "index" => run[u].unread \subseteq revs
        /\ run[u].referenced \subseteq Referenced(revs)
        /\ run[u].at = "delete" /\ ~run[u].dry => artifacts \subseteq Referenced(revs) \cup run[u].orphans
=============================================================================
