----------------------- MODULE PolicyLifecycleProofs -----------------------
(***************************************************************************)
(* Theorems about PolicyLifecycle, for every set of users, groups and      *)
(* policies, every lock, and any number of commands.                       *)
(***************************************************************************)
EXTENDS PolicyLifecycle, TLAPS

\* The inductive invariant.
IInv ==
    /\ TypeOK /\ Overlap /\ Forgotten
    /\ CleanKnows /\ SweepKnows /\ PushKnows /\ RevisionsComplete
    /\ CleanFinds /\ SweepFinds

-----------------------------------------------------------------------------
(* What a step does                                                        *)

\* A command is what its op says.
LEMMA CommandType ==
    ASSUME TypeOK, NEW u \in Users
    PROVE  /\ run[u].op = "push" => run[u] \in Pushing
           /\ run[u].op = "clean" => run[u] \in Cleaning
           /\ run[u].op = "sweep" => run[u] \in Sweeping
           /\ run[u] # Idle => run[u].op \in {"push", "clean", "sweep"}
           /\ run[u].op \in {"push", "clean", "sweep"} => run[u] # Idle
<1>1. run[u] \in {Idle} \cup Pushing \cup Cleaning \cup Sweeping
  BY DEF TypeOK
<1>2. CASE run[u] = Idle
  BY <1>2 DEF Idle
<1>3. CASE run[u] \in Pushing
  BY <1>3 DEF Pushing, Idle
<1>4. CASE run[u] \in Cleaning
  BY <1>4 DEF Cleaning, Idle
<1>5. CASE run[u] \in Sweeping
  BY <1>5 DEF Sweeping, Idle
<1> QED
  BY <1>1, <1>2, <1>3, <1>4, <1>5

\* A request that is not the last: u goes on, the histories stay.
Quiet(u) == /\ run' = [run EXCEPT ![u] = run'[u]]
            /\ UNCHANGED <<started, pushed, met, unsafe>>

\* The requests of a push, with what they leave in the command.
Listed(u) ==
    /\ Quiet(u) /\ UNCHANGED server
    /\ run[u] \in Pushing /\ run'[u] \in Pushing
    /\ run'[u].rev = run[u].rev /\ run'[u].at = "upload"
    /\ run'[u].missing = Locks[run[u].rev] \ artifacts
Uploaded(u, a) ==
    /\ Quiet(u) /\ UNCHANGED <<revs, pins>> /\ artifacts' = artifacts \cup {a}
    /\ run[u] \in Pushing /\ run'[u] \in Pushing
    /\ run'[u].rev = run[u].rev /\ run[u].at = "upload" /\ run'[u].at = "upload"
    /\ a \in run[u].missing /\ run'[u].missing = run[u].missing \ {a}

\* The requests of a clean.
GroupsRead(u) ==
    /\ Quiet(u) /\ UNCHANGED server
    /\ run[u] \in Cleaning /\ run'[u] \in Cleaning
    /\ run[u].at = "groups" /\ run'[u].at = "policies"
    /\ run'[u].inUse = Pinned /\ run'[u].orphans = run[u].orphans
PoliciesRead(u) ==
    /\ Quiet(u) /\ UNCHANGED server
    /\ run[u] \in Cleaning /\ run'[u] \in Cleaning
    /\ run[u].at = "policies" /\ run'[u].at = "delete"
    /\ run'[u].inUse = run[u].inUse /\ run'[u].scope = run[u].scope /\ run'[u].dry = run[u].dry
    /\ run'[u].orphans = IF run[u].dry THEN {} ELSE Orphans(u)
RevisionDeleted(u, r) ==
    /\ Quiet(u) /\ UNCHANGED artifacts
    /\ r \in run[u].orphans /\ revs' = revs \ {r} /\ pins' = {p \in pins : p[2] # r}
    /\ run[u] \in Cleaning /\ run'[u] \in Cleaning
    /\ run[u].at = "delete" /\ run'[u].at = "delete"
    /\ run'[u].inUse = run[u].inUse /\ run'[u].scope = run[u].scope /\ run'[u].dry = run[u].dry
    /\ run'[u].orphans = run[u].orphans \ {r}

\* The requests of a clean-cookbooks.
IndexRead(u) ==
    /\ Quiet(u) /\ UNCHANGED server
    /\ run[u] \in Sweeping /\ run'[u] \in Sweeping
    /\ run[u].at = "index" /\ run'[u].at = "revisions" /\ run'[u].unread = revs
    /\ run'[u].referenced = run[u].referenced /\ run'[u].orphans = run[u].orphans
RevisionRead(u, r) ==
    /\ Quiet(u) /\ UNCHANGED server /\ r \in revs
    /\ run[u] \in Sweeping /\ run'[u] \in Sweeping
    /\ run[u].at = "revisions" /\ run'[u].at = "revisions" /\ run'[u].unread = run[u].unread \ {r}
    /\ run'[u].referenced = run[u].referenced \cup Locks[r] /\ run'[u].orphans = run[u].orphans
ArtifactsRead(u) ==
    /\ Quiet(u) /\ UNCHANGED server
    /\ run[u] \in Sweeping /\ run'[u] \in Sweeping
    /\ run[u].at = "revisions" /\ run'[u].at = "delete"
    /\ run[u].unread = {} /\ run'[u].unread = {}
    /\ run'[u].referenced = run[u].referenced /\ run'[u].dry = run[u].dry
    /\ run'[u].orphans = IF run[u].dry THEN {} ELSE artifacts \ run[u].referenced
ArtifactDeleted(u, a) ==
    /\ Quiet(u) /\ UNCHANGED <<revs, pins>>
    /\ a \in run[u].orphans /\ artifacts' = artifacts \ {a}
    /\ run[u] \in Sweeping /\ run'[u] \in Sweeping
    /\ run[u].at = "delete" /\ run'[u].at = "delete"
    /\ run'[u].unread = run[u].unread /\ run'[u].dry = run[u].dry
    /\ run'[u].referenced = run[u].referenced /\ run'[u].orphans = run[u].orphans \ {a}

\* The other steps: u returns, starts, or deletes a policy or a group.
Ended(u) == run[u] # Idle /\ Returns(u) /\ UNCHANGED server
Began(u, c) ==
    /\ Start(u, c)
    /\ c \in Pushing \cup Cleaning \cup Sweeping /\ c.at \in {"list", "groups", "index"}
    /\ c.op # "push" => c.orphans = {}
    /\ c.op = "sweep" => c.referenced = {}
Deleted(u) ==
    /\ Overlaps(u, "delete", {}) /\ UNCHANGED <<artifacts, run, pushed, unsafe>>
    /\ revs' \subseteq revs
    /\ pins' \subseteq {p \in pins : p[2] \in revs'}

Went(u) ==
    \/ Listed(u) \/ \E a \in Artifacts : Uploaded(u, a)
    \/ GroupsRead(u) \/ PoliciesRead(u) \/ \E r \in Revisions : RevisionDeleted(u, r)
    \/ IndexRead(u) \/ \E r \in Revisions : RevisionRead(u, r)
    \/ ArtifactsRead(u) \/ \E a \in Artifacts : ArtifactDeleted(u, a)

\* A push lists what the server holds, and uploads one artifact after the other.
LEMMA PushGoes ==
    ASSUME TypeOK, NEW u \in Users, PushList(u) \/ PushUpload(u)
    PROVE  Went(u)
<1>1. run[u] \in Pushing /\ run \in [Users -> {Idle} \cup Pushing \cup Cleaning \cup Sweeping]
  BY CommandType DEF PushList, PushUpload, TypeOK
<1>2. CASE PushList(u)
  <2> DEFINE c == [run[u] EXCEPT !.at = "upload", !.missing = Locks[run[u].rev] \ artifacts]
  <2>1. Locks[run[u].rev] \ artifacts \in SUBSET Artifacts
    BY <1>1, LockAssumption DEF Pushing
  <2>2. c \in Pushing /\ c.at = "upload" /\ c.rev = run[u].rev
        /\ c.missing = Locks[run[u].rev] \ artifacts
    BY <1>1, <2>1 DEF Pushing
  <2>3. run' = [run EXCEPT ![u] = c] /\ UNCHANGED <<server, started, pushed, met, unsafe>>
    BY <1>2 DEF PushList, Goes
  <2> HIDE DEF c
  <2>4. Listed(u)
    BY <1>1, <2>2, <2>3 DEF Listed, Quiet
  <2> QED
    BY <2>4 DEF Went
<1>3. CASE PushUpload(u)
  <2>1. PICK a \in run[u].missing :
            /\ artifacts' = artifacts \cup {a}
            /\ Goes(u, [run[u] EXCEPT !.missing = @ \ {a}])
    BY <1>3 DEF PushUpload
  <2> DEFINE c == [run[u] EXCEPT !.missing = @ \ {a}]
  <2>2. c \in Pushing /\ c.at = run[u].at /\ c.rev = run[u].rev
        /\ c.missing = run[u].missing \ {a}
    BY <1>1 DEF Pushing
  <2>3. run' = [run EXCEPT ![u] = c] /\ UNCHANGED <<revs, pins, started, pushed, met, unsafe>>
        /\ run[u].at = "upload"
    BY <1>3, <2>1 DEF PushUpload, Goes
  <2>4. a \in Artifacts
    BY <1>1 DEF Pushing
  <2> HIDE DEF c
  <2>5. Uploaded(u, a)
    BY <1>1, <2>1, <2>2, <2>3 DEF Uploaded, Quiet
  <2> QED
    BY <2>4, <2>5 DEF Went
<1> QED
  BY <1>2, <1>3

\* A clean reads the groups, then the policies, and deletes one orphan after the
\* other; a revision that is gone ends it.
LEMMA CleanGoes ==
    ASSUME TypeOK, NEW u \in Users, CleanGroups(u) \/ CleanPolicies(u) \/ CleanDelete(u)
    PROVE  Went(u) \/ Ended(u)
<1>1. run[u] \in Cleaning /\ run[u] # Idle
      /\ run \in [Users -> {Idle} \cup Pushing \cup Cleaning \cup Sweeping]
  BY CommandType DEF CleanGroups, CleanPolicies, CleanDelete, TypeOK
<1>2. CASE CleanGroups(u)
  <2> DEFINE c == [run[u] EXCEPT !.at = "policies", !.inUse = Pinned]
  <2>1. Pinned \in SUBSET Revisions
    BY DEF Pinned
  <2>2. c \in Cleaning /\ c.at = "policies" /\ c.inUse = Pinned /\ c.orphans = run[u].orphans
    <3> HIDE DEF Pinned
    <3> QED
      BY <1>1, <2>1 DEF Cleaning
  <2>3. run' = [run EXCEPT ![u] = c] /\ UNCHANGED <<server, started, pushed, met, unsafe>>
        /\ run[u].at = "groups"
    BY <1>2 DEF CleanGroups, Goes
  <2> HIDE DEF c
  <2>4. GroupsRead(u)
    BY <1>1, <2>2, <2>3 DEF GroupsRead, Quiet
  <2> QED
    BY <2>4 DEF Went
<1>3. CASE CleanPolicies(u)
  <2> DEFINE os == IF run[u].dry THEN {} ELSE Orphans(u)
             c == [run[u] EXCEPT !.at = "delete", !.orphans = os]
  <2>1. os \in SUBSET Revisions
    BY DEF Orphans, TypeOK
  <2>2. run' = [run EXCEPT ![u] = c] /\ UNCHANGED <<server, started, pushed, met, unsafe>>
        /\ run[u].at = "policies"
    BY <1>3 DEF CleanPolicies, Goes
  <2>3. c \in Cleaning /\ c.at = "delete" /\ c.inUse = run[u].inUse /\ c.scope = run[u].scope
        /\ c.dry = run[u].dry /\ c.orphans = os
    <3> HIDE DEF os
    <3> QED
      BY <1>1, <2>1 DEF Cleaning
  <2> HIDE DEF c
  <2>4. PoliciesRead(u)
    BY <1>1, <2>2, <2>3 DEF PoliciesRead, Quiet
  <2> QED
    BY <2>4 DEF Went
<1>4. CASE CleanDelete(u)
  <2>1. PICK r \in run[u].orphans :
            /\ revs' = revs \ {r} /\ pins' = {p \in pins : p[2] # r}
            /\ IF r \in revs THEN Goes(u, [run[u] EXCEPT !.orphans = @ \ {r}]) ELSE Returns(u)
    BY <1>4 DEF CleanDelete
  <2>2. UNCHANGED artifacts /\ run[u].at = "delete" /\ r \in Revisions
    BY <1>1, <1>4 DEF CleanDelete, Cleaning
  <2>3. CASE r \in revs
    <3> DEFINE c == [run[u] EXCEPT !.orphans = @ \ {r}]
    <3>1. c \in Cleaning /\ c.at = run[u].at /\ c.inUse = run[u].inUse /\ c.scope = run[u].scope
          /\ c.dry = run[u].dry /\ c.orphans = run[u].orphans \ {r}
      BY <1>1 DEF Cleaning
    <3>2. run' = [run EXCEPT ![u] = c] /\ UNCHANGED <<started, pushed, met, unsafe>>
      BY <2>1, <2>3 DEF Goes
    <3> HIDE DEF c
    <3>3. RevisionDeleted(u, r)
      BY <1>1, <2>1, <2>2, <3>1, <3>2 DEF RevisionDeleted, Quiet
    <3> QED
      BY <2>2, <3>3 DEF Went
  <2>4. CASE r \notin revs
    <3>1. revs' = revs /\ pins' = pins
      BY <2>1, <2>4 DEF TypeOK
    <3> QED
      BY <1>1, <2>1, <2>2, <2>4, <3>1 DEF Ended, server
  <2> QED
    BY <2>3, <2>4
<1> QED
  BY <1>2, <1>3, <1>4

\* A clean-cookbooks reads the policies, each revision, then the artifacts, and
\* deletes one orphan after the other; what is gone ends it.
LEMMA SweepGoes ==
    ASSUME TypeOK, NEW u \in Users,
           SweepIndex(u) \/ SweepRevision(u) \/ SweepArtifacts(u) \/ SweepDelete(u)
    PROVE  Went(u) \/ Ended(u)
<1>1. run[u] \in Sweeping /\ run[u] # Idle
      /\ run \in [Users -> {Idle} \cup Pushing \cup Cleaning \cup Sweeping]
  BY CommandType DEF SweepIndex, SweepRevision, SweepArtifacts, SweepDelete, TypeOK
<1>2. CASE SweepIndex(u)
  <2> DEFINE c == [run[u] EXCEPT !.at = "revisions", !.unread = revs]
  <2>1. c \in Sweeping /\ c.at = "revisions" /\ c.unread = revs /\ c.orphans = run[u].orphans
        /\ c.referenced = run[u].referenced
    BY <1>1 DEF Sweeping, TypeOK
  <2>2. run' = [run EXCEPT ![u] = c] /\ UNCHANGED <<server, started, pushed, met, unsafe>>
        /\ run[u].at = "index"
    BY <1>2 DEF SweepIndex, Goes
  <2> HIDE DEF c
  <2>3. IndexRead(u)
    BY <1>1, <2>1, <2>2 DEF IndexRead, Quiet
  <2> QED
    BY <2>3 DEF Went
<1>3. CASE SweepRevision(u)
  <2>1. PICK r \in run[u].unread :
            IF r \in revs
            THEN Goes(u, [run[u] EXCEPT !.unread = @ \ {r}, !.referenced = @ \cup Locks[r]])
            ELSE Returns(u)
    BY <1>3 DEF SweepRevision
  <2>2. UNCHANGED server /\ run[u].at = "revisions" /\ r \in Revisions
    BY <1>1, <1>3 DEF SweepRevision, Sweeping
  <2>3. CASE r \in revs
    <3> DEFINE c == [run[u] EXCEPT !.unread = @ \ {r}, !.referenced = @ \cup Locks[r]]
    <3>1. Locks[r] \in SUBSET Artifacts
      BY <2>2, LockAssumption
    <3>2. c \in Sweeping /\ c.at = run[u].at /\ c.unread = run[u].unread \ {r}
          /\ c.referenced = run[u].referenced \cup Locks[r] /\ c.orphans = run[u].orphans
      BY <1>1, <3>1 DEF Sweeping
    <3>3. run' = [run EXCEPT ![u] = c] /\ UNCHANGED <<started, pushed, met, unsafe>>
      BY <2>1, <2>3 DEF Goes
    <3> HIDE DEF c
    <3>4. RevisionRead(u, r)
      BY <1>1, <2>2, <2>3, <3>2, <3>3 DEF RevisionRead, Quiet
    <3> QED
      BY <2>2, <3>4 DEF Went
  <2>4. CASE r \notin revs
    BY <1>1, <2>1, <2>2, <2>4 DEF Ended
  <2> QED
    BY <2>3, <2>4
<1>4. CASE SweepArtifacts(u)
  <2> DEFINE os == IF run[u].dry THEN {} ELSE artifacts \ run[u].referenced
             c == [run[u] EXCEPT !.at = "delete", !.orphans = os]
  <2>1. os \in SUBSET Artifacts
    BY DEF TypeOK
  <2>2. run' = [run EXCEPT ![u] = c] /\ UNCHANGED <<server, started, pushed, met, unsafe>>
        /\ run[u].at = "revisions" /\ run[u].unread = {}
    BY <1>4 DEF SweepArtifacts, Goes
  <2>3. c \in Sweeping /\ c.at = "delete" /\ c.unread = run[u].unread /\ c.dry = run[u].dry
        /\ c.referenced = run[u].referenced /\ c.orphans = os
    <3> HIDE DEF os
    <3> QED
      BY <1>1, <2>1 DEF Sweeping
  <2> HIDE DEF c
  <2>4. ArtifactsRead(u)
    BY <1>1, <2>2, <2>3 DEF ArtifactsRead, Quiet
  <2> QED
    BY <2>4 DEF Went
<1>5. CASE SweepDelete(u)
  <2>1. PICK a \in run[u].orphans :
            /\ artifacts' = artifacts \ {a}
            /\ IF a \in artifacts THEN Goes(u, [run[u] EXCEPT !.orphans = @ \ {a}]) ELSE Returns(u)
    BY <1>5 DEF SweepDelete
  <2>2. UNCHANGED <<revs, pins>> /\ run[u].at = "delete" /\ a \in Artifacts
    BY <1>1, <1>5 DEF SweepDelete, Sweeping
  <2>3. CASE a \in artifacts
    <3> DEFINE c == [run[u] EXCEPT !.orphans = @ \ {a}]
    <3>1. c \in Sweeping /\ c.at = run[u].at /\ c.unread = run[u].unread /\ c.dry = run[u].dry
          /\ c.referenced = run[u].referenced /\ c.orphans = run[u].orphans \ {a}
      BY <1>1 DEF Sweeping
    <3>2. run' = [run EXCEPT ![u] = c] /\ UNCHANGED <<started, pushed, met, unsafe>>
      BY <2>1, <2>3 DEF Goes
    <3> HIDE DEF c
    <3>3. ArtifactDeleted(u, a)
      BY <1>1, <2>1, <2>2, <3>1, <3>2 DEF ArtifactDeleted, Quiet
    <3> QED
      BY <2>2, <3>3 DEF Went
  <2>4. CASE a \notin artifacts
    <3>1. artifacts' = artifacts
      BY <2>1, <2>4
    <3> QED
      BY <1>1, <2>1, <2>2, <2>4, <3>1 DEF Ended, server
  <2> QED
    BY <2>3, <2>4
<1> QED
  BY <1>2, <1>3, <1>4, <1>5

\* A step goes on with a command, ends or begins one, pins a revision, or deletes.
LEMMA StepCases ==
    ASSUME TypeOK, NEW u \in Users, Step(u)
    PROVE  Went(u) \/ Ended(u) \/ PushPin(u) \/ Deleted(u) \/ \E c : Began(u, c)
<1>1. CASE Fail(u) \/ CleanDone(u) \/ SweepDone(u)
  <2>1. run[u] # Idle
    BY <1>1, CommandType DEF Fail, CleanDone, SweepDone
  <2> QED
    BY <1>1, <2>1 DEF Fail, CleanDone, SweepDone, Ended
<1>2. CASE PushList(u) \/ PushUpload(u) \/ PushPin(u)
  BY <1>2, PushGoes
<1>3. CASE CleanGroups(u) \/ CleanPolicies(u) \/ CleanDelete(u)
  BY <1>3, CleanGoes
<1>4. CASE SweepIndex(u) \/ SweepRevision(u) \/ SweepArtifacts(u) \/ SweepDelete(u)
  BY <1>4, SweepGoes
<1>5. CASE DeletePolicy(u)
  <2>1. PICK p \in Policies : /\ revs' = {r \in revs : PolicyOf[r] # p}
                             /\ pins' = {q \in pins : PolicyOf[q[2]] # p}
    BY <1>5 DEF DeletePolicy
  <2>2. pins' \subseteq {q \in pins : q[2] \in revs'}
    BY <2>1 DEF TypeOK
  <2> QED
    BY <1>5, <2>1, <2>2 DEF DeletePolicy, Deleted
<1>6. CASE DeleteGroup(u)
  <2>1. revs' = revs /\ pins' \subseteq pins
    BY <1>6 DEF DeleteGroup
  <2>2. pins' \subseteq {q \in pins : q[2] \in revs'}
    BY <2>1 DEF TypeOK
  <2> QED
    BY <1>6, <2>1, <2>2 DEF DeleteGroup, Deleted
<1>10. CASE DeleteRevision(u)
  <2>1. PICK r \in revs : revs' = revs \ {r} /\ pins' = {p \in pins : p[2] # r}
    BY <1>10 DEF DeleteRevision
  <2>2. pins' \subseteq {q \in pins : q[2] \in revs'}
    BY <2>1 DEF TypeOK
  <2> QED
    BY <1>10, <2>1, <2>2 DEF DeleteRevision, Deleted
<1>11. CASE Unpin(u)
  <2>1. revs' = revs /\ pins' \subseteq pins
    BY <1>11 DEF Unpin
  <2>2. pins' \subseteq {q \in pins : q[2] \in revs'}
    BY <2>1 DEF TypeOK
  <2> QED
    BY <1>11, <2>1, <2>2 DEF Unpin, Deleted
<1>7. CASE Push(u)
  <2>1. PICK r \in Revisions, g \in Groups :
            Start(u, [op |-> "push", at |-> "list", rev |-> r, group |-> g, missing |-> {}])
    BY <1>7 DEF Push
  <2>2. [op |-> "push", at |-> "list", rev |-> r, group |-> g, missing |-> {}] \in Pushing
    BY DEF Pushing
  <2> QED
    BY <2>1, <2>2 DEF Began
<1>8. CASE Clean(u)
  <2>1. PICK scope \in {Policies} \cup {{p} : p \in Policies}, dry \in BOOLEAN :
            Start(u, [op |-> "clean", at |-> "groups", scope |-> scope, dry |-> dry,
                      inUse |-> {}, orphans |-> {}])
    BY <1>8 DEF Clean
  <2>2. [op |-> "clean", at |-> "groups", scope |-> scope, dry |-> dry,
         inUse |-> {}, orphans |-> {}] \in Cleaning
    BY DEF Cleaning
  <2> QED
    BY <2>1, <2>2 DEF Began
<1>9. CASE Sweep(u)
  <2>1. PICK dry \in BOOLEAN :
            Start(u, [op |-> "sweep", at |-> "index", dry |-> dry, unread |-> {},
                      referenced |-> {}, orphans |-> {}])
    BY <1>9 DEF Sweep
  <2>2. [op |-> "sweep", at |-> "index", dry |-> dry, unread |-> {},
         referenced |-> {}, orphans |-> {}] \in Sweeping
    BY DEF Sweeping
  <2> QED
    BY <2>1, <2>2 DEF Began
<1> QED
  BY <1>1, <1>2, <1>3, <1>4, <1>5, <1>6, <1>7, <1>8, <1>9, <1>10, <1>11 DEF Step

-----------------------------------------------------------------------------
(* Types                                                                   *)

Commands == {Idle} \cup Pushing \cup Cleaning \cup Sweeping

LEMMA EffectTyped ==
    ASSUME TypeOK, NEW u \in Users, Went(u)
    PROVE  /\ run' = [run EXCEPT ![u] = run'[u]] /\ run'[u] \in Commands
           /\ UNCHANGED <<started, pushed, met, unsafe>>
           /\ revs' \subseteq revs /\ artifacts' \subseteq Artifacts
           /\ pins' = {p \in pins : p[2] \in revs'}
<1>1. UNCHANGED <<revs, pins>> => revs' \subseteq revs /\ pins' = {p \in pins : p[2] \in revs'}
  BY DEF TypeOK
<1>2. CASE Listed(u) \/ GroupsRead(u) \/ PoliciesRead(u) \/ IndexRead(u) \/ ArtifactsRead(u)
           \/ \E r \in Revisions : RevisionRead(u, r)
  BY <1>1, <1>2 DEF Listed, GroupsRead, PoliciesRead, IndexRead, ArtifactsRead, RevisionRead, Quiet,
     server, Commands, TypeOK
<1>3. CASE \E a \in Artifacts : Uploaded(u, a) \/ ArtifactDeleted(u, a)
  BY <1>1, <1>3 DEF Uploaded, ArtifactDeleted, Quiet, Commands, TypeOK
<1>4. ASSUME NEW r \in Revisions, RevisionDeleted(u, r)
      PROVE  /\ run' = [run EXCEPT ![u] = run'[u]] /\ run'[u] \in Commands
             /\ UNCHANGED <<started, pushed, met, unsafe>>
             /\ revs' \subseteq revs /\ artifacts' \subseteq Artifacts
             /\ pins' = {p \in pins : p[2] \in revs'}
  <2>1. {p \in pins : p[2] # r} = {p \in pins : p[2] \in revs \ {r}}
    BY DEF TypeOK
  <2> QED
    BY <1>4, <2>1 DEF RevisionDeleted, Quiet, Commands, TypeOK
<1> QED
  BY <1>2, <1>3, <1>4 DEF Went

\* What a command begins with is made of kinds of command.
LEMMA OverlapsTyped ==
    ASSUME TypeOK, NEW u \in Users, NEW k \in Kinds, NEW others \in SUBSET Kinds,
           Overlaps(u, k, others)
    PROVE  /\ started' \in Nat /\ met' \in [Users -> SUBSET Kinds]
           /\ run[u] = Idle /\ met'[u] = others
           /\ \A v \in Users \ {u} : met'[v] = IF run[v] # Idle THEN met[v] \cup {k} ELSE met[v]
<1> DEFINE next(v) == IF v = u THEN others ELSE IF v \in Others(u) THEN met[v] \cup {k} ELSE met[v]
<1>1. started' \in Nat /\ run[u] = Idle /\ met' = [v \in Users |-> next(v)]
  BY DEF Overlaps, TypeOK
<1>2. \A v \in Users : met[v] \in SUBSET Kinds /\ next(v) \in SUBSET Kinds
  BY DEF TypeOK
<1>3. met' \in [Users -> SUBSET Kinds]
  <2> HIDE DEF next
  <2> QED
    BY <1>1, <1>2
<1> QED
  BY <1>1, <1>3 DEF Others

\* A command begins with those that run, and they meet it.
LEMMA BeganTyped ==
    ASSUME TypeOK, NEW u \in Users, NEW c, Began(u, c)
    PROVE  /\ c \in Pushing \cup Cleaning \cup Sweeping /\ c.op \in Kinds /\ c # Idle
           /\ run[u] = Idle /\ run' = [run EXCEPT ![u] = c] /\ UNCHANGED <<server, pushed, unsafe>>
           /\ started' \in Nat /\ met' \in [Users -> SUBSET Kinds]
           /\ \A v \in Users \ {u} : met'[v] = IF run[v] # Idle THEN met[v] \cup {c.op} ELSE met[v]
           /\ \A v \in Users \ {u} : run[v] # Idle => run[v].op \in met'[u]
<1>1. c \in Pushing \cup Cleaning \cup Sweeping /\ c.op \in Kinds /\ c.op # "none"
  BY DEF Began, Pushing, Cleaning, Sweeping, Kinds
<1>2. {run[v].op : v \in Others(u)} \in SUBSET Kinds
  BY CommandType DEF Others, Kinds
<1>3. run' = [run EXCEPT ![u] = c] /\ UNCHANGED <<server, pushed, unsafe>>
      /\ Overlaps(u, c.op, {run[v].op : v \in Others(u)})
  BY DEF Began, Start
<1>4. \A v \in Users \ {u} : run[v] # Idle => run[v].op \in {run[w].op : w \in Others(u)}
  BY DEF Others
<1>5. /\ started' \in Nat /\ met' \in [Users -> SUBSET Kinds] /\ run[u] = Idle
      /\ met'[u] = {run[v].op : v \in Others(u)}
      /\ \A v \in Users \ {u} : met'[v] = IF run[v] # Idle THEN met[v] \cup {c.op} ELSE met[v]
  <2> DEFINE now == {run[v].op : v \in Others(u)}
  <2>1. now \in SUBSET Kinds /\ Overlaps(u, c.op, now)
    BY <1>2, <1>3
  <2> HIDE DEF now
  <2>2. /\ started' \in Nat /\ met' \in [Users -> SUBSET Kinds] /\ run[u] = Idle /\ met'[u] = now
        /\ \A v \in Users \ {u} : met'[v] = IF run[v] # Idle THEN met[v] \cup {c.op} ELSE met[v]
    <3> DEFINE k == c.op
    <3>1. k \in Kinds /\ Overlaps(u, k, now)
      BY <1>1, <2>1
    <3> HIDE DEF k
    <3>2. /\ started' \in Nat /\ met' \in [Users -> SUBSET Kinds] /\ run[u] = Idle /\ met'[u] = now
          /\ \A v \in Users \ {u} : met'[v] = IF run[v] # Idle THEN met[v] \cup {k} ELSE met[v]
      BY <2>1, <3>1, OverlapsTyped
    <3> QED
      BY <3>2 DEF k
  <2> QED
    BY <2>2 DEF now
<1>6. c # Idle
  BY <1>1 DEF Idle
<1>7. \A v \in Users \ {u} : run[v] # Idle => run[v].op \in met'[u]
  BY <1>4, <1>5
<1> QED
  BY <1>1, <1>3, <1>5, <1>6, <1>7

\* A delete is over at once.
LEMMA DeletedTyped ==
    ASSUME TypeOK, NEW u \in Users, Deleted(u)
    PROVE  /\ run[u] = Idle /\ UNCHANGED <<artifacts, run, pushed, unsafe>>
           /\ started' \in Nat /\ met' \in [Users -> SUBSET Kinds] /\ met'[u] = {}
           /\ \A v \in Users \ {u} : met'[v] = IF run[v] # Idle THEN met[v] \cup {"delete"} ELSE met[v]
<1>1. "delete" \in Kinds /\ {} \in SUBSET Kinds
  BY DEF Kinds
<1> QED
  BY <1>1, OverlapsTyped DEF Deleted

\* PUT on the group's policy: the group has the revision, for one or another of its own.
LEMMA PinTyped ==
    ASSUME TypeOK, NEW u \in Users, PushPin(u)
    PROVE  /\ run[u] \in Pushing /\ run[u].at = "upload" /\ run[u].missing = {}
           /\ run[u].rev \in Revisions
           /\ revs' = revs \cup {run[u].rev} /\ artifacts' = artifacts
           /\ pins' \subseteq pins \cup {<<run[u].group, run[u].rev>>}
           /\ run' = [run EXCEPT ![u] = Idle] /\ met' = [met EXCEPT ![u] = {}]
           /\ UNCHANGED started
           /\ pushed' = [v \in Users |-> IF v \in Others(u) THEN pushed[v] \cup {run[u].rev} ELSE {}]
           /\ unsafe' = IF "sweep" \in met[u] THEN unsafe \cup {run[u].rev} ELSE unsafe \ {run[u].rev}
           /\ TypeOK'
<1>1. run[u] \in Pushing /\ run[u].at = "upload" /\ run[u].missing = {} /\ Pin(u)
  BY CommandType DEF PushPin
<1>2. run[u].rev \in Revisions /\ run[u].group \in Groups
  BY <1>1 DEF Pushing
<1>3. /\ revs' = revs \cup {run[u].rev} /\ artifacts' = artifacts
      /\ pins' \subseteq pins \cup {<<run[u].group, run[u].rev>>}
      /\ run' = [run EXCEPT ![u] = Idle] /\ met' = [met EXCEPT ![u] = {}]
      /\ UNCHANGED started
      /\ pushed' = [v \in Users |-> IF v \in Others(u) THEN pushed[v] \cup {run[u].rev} ELSE {}]
      /\ unsafe' = IF "sweep" \in met[u] THEN unsafe \cup {run[u].rev} ELSE unsafe \ {run[u].rev}
  BY <1>1 DEF Pin, Forgets
<1>4. pins' \subseteq Groups \X revs'
  BY <1>2, <1>3 DEF TypeOK
<1>5. pushed' \in [Users -> SUBSET Revisions] /\ met' \in [Users -> SUBSET Kinds]
  BY <1>2, <1>3 DEF TypeOK
<1>6. run' \in [Users -> {Idle} \cup Pushing \cup Cleaning \cup Sweeping]
  BY <1>3 DEF TypeOK
<1>7. revs' \subseteq Revisions /\ artifacts' \subseteq Artifacts /\ unsafe' \subseteq Revisions
      /\ started' \in Nat
  BY <1>2, <1>3 DEF TypeOK
<1> QED
  BY <1>1, <1>2, <1>3, <1>4, <1>5, <1>6, <1>7 DEF TypeOK

\* Every request keeps the types of the server and of the commands.
LEMMA StepTyped == ASSUME TypeOK, NEW u \in Users, Step(u) PROVE TypeOK'
<1>1. CASE Went(u)
  <2>1. run' \in [Users -> {Idle} \cup Pushing \cup Cleaning \cup Sweeping]
    BY <1>1, EffectTyped DEF TypeOK, Commands
  <2>2. pins' \subseteq Groups \X revs'
    BY <1>1, EffectTyped DEF TypeOK
  <2> QED
    BY <1>1, <2>1, <2>2, EffectTyped DEF TypeOK
<1>2. CASE Ended(u)
  BY <1>2 DEF Ended, Returns, Forgets, TypeOK, server
<1>3. CASE PushPin(u)
  BY <1>3, PinTyped
<1>4. CASE Deleted(u)
  <2>1. started' \in Nat /\ met' \in [Users -> SUBSET Kinds]
    BY <1>4, DeletedTyped
  <2>2. pins' \subseteq Groups \X revs'
    BY <1>4 DEF Deleted, TypeOK
  <2> QED
    BY <1>4, <2>1, <2>2 DEF Deleted, TypeOK
<1>5. ASSUME NEW c, Began(u, c) PROVE TypeOK'
  BY <1>5, BeganTyped DEF TypeOK, server
<1> QED
  BY <1>1, <1>2, <1>3, <1>4, <1>5, StepCases

-----------------------------------------------------------------------------
(* The other users' commands                                               *)

\* A request does not change what a command is.
LEMMA WentOp ==
    ASSUME NEW u \in Users, Went(u) PROVE run'[u].op = run[u].op /\ run[u] # Idle
<1>1. \/ run[u] \in Pushing /\ run'[u] \in Pushing
      \/ run[u] \in Cleaning /\ run'[u] \in Cleaning
      \/ run[u] \in Sweeping /\ run'[u] \in Sweeping
  BY DEF Went, Listed, Uploaded, GroupsRead, PoliciesRead, RevisionDeleted, IndexRead, RevisionRead,
     ArtifactsRead, ArtifactDeleted
<1> QED
  BY <1>1 DEF Pushing, Cleaning, Sweeping, Idle

\* Only a clean deletes revisions, only a push adds artifacts, only a
\* clean-cookbooks deletes them.
LEMMA WentServer ==
    ASSUME TypeOK, NEW u \in Users, Went(u)
    PROVE  /\ run[u].op # "clean" => UNCHANGED <<revs, pins>>
           /\ run[u].op # "push" => artifacts' \subseteq artifacts
           /\ run[u].op # "sweep" => artifacts \subseteq artifacts'
<1>1. CASE Listed(u) \/ GroupsRead(u) \/ PoliciesRead(u) \/ IndexRead(u) \/ ArtifactsRead(u)
           \/ \E r \in Revisions : RevisionRead(u, r)
  BY <1>1 DEF Listed, GroupsRead, PoliciesRead, IndexRead, ArtifactsRead, RevisionRead, server
<1>2. CASE \E a \in Artifacts : Uploaded(u, a)
  BY <1>2 DEF Uploaded, Pushing
<1>3. CASE \E r \in Revisions : RevisionDeleted(u, r)
  BY <1>3 DEF RevisionDeleted, Cleaning
<1>4. CASE \E a \in Artifacts : ArtifactDeleted(u, a)
  BY <1>4 DEF ArtifactDeleted, Sweeping
<1> QED
  BY <1>1, <1>2, <1>3, <1>4 DEF Went

\* What a step of u may do to the server under the command of v.
LEMMA Elsewhere ==
    ASSUME TypeOK, Overlap, NEW u \in Users, Step(u), NEW v \in Users \ {u}, run[v] # Idle
    PROVE  /\ run'[v] = run[v] /\ met[v] \subseteq met'[v] /\ pushed[v] \subseteq pushed'[v]
           /\ revs' \subseteq revs \cup pushed'[v] /\ Pinned' \subseteq Pinned \cup pushed'[v]
           /\ run[v].op = "sweep" /\ pushed[v] \subseteq unsafe => pushed'[v] \subseteq unsafe'
           /\ met'[v] \subseteq {"clean", "sweep"} =>
                  revs' \subseteq revs /\ \A r \in revs' : r \in Pinned => r \in Pinned'
           /\ met'[v] \subseteq {"sweep"} => revs' = revs /\ artifacts' \subseteq artifacts
           /\ "sweep" \notin met'[v] => artifacts \subseteq artifacts'
<1> USE DEF Pinned
<1>0. run[u] # Idle => run[u].op \in met[v] /\ run[v].op \in met[u]
  BY DEF Overlap
<1>1. CASE Went(u)
  <2>1. run'[v] = run[v] /\ UNCHANGED <<pushed, met, unsafe>>
    BY <1>1, EffectTyped DEF TypeOK
  <2>2. revs' \subseteq revs /\ pins' \subseteq pins /\ \A r \in revs' : r \in Pinned => r \in Pinned'
    BY <1>1, EffectTyped
  <2>3. run[u].op \in met[v]
    BY <1>0, <1>1, WentOp
  <2> QED
    BY <1>1, <2>1, <2>2, <2>3, WentServer
<1>2. CASE Ended(u)
  BY <1>2 DEF Ended, Returns, Forgets, server, TypeOK
<1>3. CASE PushPin(u)
  <2>1. run'[v] = run[v] /\ met'[v] = met[v] /\ artifacts' = artifacts
        /\ revs' = revs \cup {run[u].rev} /\ pins' \subseteq pins \cup {<<run[u].group, run[u].rev>>}
    BY <1>3, PinTyped DEF TypeOK
  <2>2. pushed'[v] = pushed[v] \cup {run[u].rev}
    BY <1>3, PinTyped DEF Others
  <2>3. "push" \in met[v] /\ run[v].op \in met[u]
    BY <1>0, <1>3, PinTyped, CommandType DEF Pushing
  <2>4. Pinned' \subseteq Pinned \cup pushed'[v]
    BY <2>1, <2>2
  <2>5. run[v].op = "sweep" => unsafe' = unsafe \cup {run[u].rev}
    BY <1>3, <2>3, PinTyped
  <2> QED
    BY <2>1, <2>2, <2>3, <2>4, <2>5
<1>4. CASE Deleted(u)
  <2>1. UNCHANGED <<artifacts, run, pushed, unsafe>> /\ revs' \subseteq revs /\ pins' \subseteq pins
    BY <1>4 DEF Deleted
  <2>2. met'[v] = met[v] \cup {"delete"}
    BY <1>4, DeletedTyped
  <2> QED
    BY <2>1, <2>2
<1>5. ASSUME NEW c, Began(u, c)
      PROVE  UNCHANGED <<server, pushed, unsafe>> /\ run'[v] = run[v] /\ met[v] \subseteq met'[v]
  BY <1>5, BeganTyped DEF TypeOK
<1>6. CASE \E c : Began(u, c)
  BY <1>5, <1>6 DEF server
<1> QED
  BY <1>1, <1>2, <1>3, <1>4, <1>6, StepCases

\* A command of another user that runs after a step ran before it.
LEMMA SameElsewhere ==
    ASSUME TypeOK, NEW u \in Users, Step(u), NEW v \in Users \ {u}
    PROVE  run'[v] = run[v]
<1>1. CASE Went(u) \/ PushPin(u) \/ Deleted(u)
  BY <1>1, EffectTyped, PinTyped, DeletedTyped DEF TypeOK
<1>2. CASE Ended(u)
  BY <1>2 DEF Ended, Returns, Forgets, TypeOK
<1>3. CASE \E c : Began(u, c)
  BY <1>3, BeganTyped DEF TypeOK
<1> QED
  BY <1>1, <1>2, <1>3, StepCases

\* Commands that run know of each other, and who runs none remembers none.
LEMMA OverlapStep ==
    ASSUME TypeOK, Overlap, Forgotten, NEW u \in Users, Step(u)
    PROVE  Overlap' /\ Forgotten'
<1>1. ASSUME NEW v \in Users \ {u}, run[v] = Idle PROVE run'[v] = Idle /\ pushed'[v] = {} /\ met'[v] = {}
  <2>1. pushed[v] = {} /\ met[v] = {}
    BY <1>1 DEF Forgotten
  <2>2. CASE Went(u)
    BY <1>1, <2>1, <2>2, EffectTyped DEF TypeOK
  <2>3. CASE Ended(u)
    BY <1>1, <2>1, <2>3 DEF Ended, Returns, Forgets, TypeOK
  <2>4. CASE PushPin(u)
    BY <1>1, <2>1, <2>4, PinTyped DEF Others, TypeOK
  <2>5. CASE Deleted(u)
    BY <1>1, <2>1, <2>5, DeletedTyped
  <2>6. ASSUME NEW c, Began(u, c) PROVE run'[v] = Idle /\ pushed'[v] = {} /\ met'[v] = {}
    BY <1>1, <2>1, <2>6, BeganTyped DEF TypeOK
  <2> QED
    BY <2>2, <2>3, <2>4, <2>5, <2>6, StepCases
<1>2. /\ run'[u] = Idle => pushed'[u] = {} /\ met'[u] = {}
      /\ run'[u] # Idle => \A v \in Users \ {u} : run[v] # Idle =>
             run[v].op \in met'[u] /\ run'[u].op \in met'[v]
  <2>1. CASE Went(u)
    <3>1. run[u] # Idle /\ run'[u].op = run[u].op /\ met' = met
      BY <2>1, WentOp, EffectTyped
    <3>2. run'[u] # Idle
      BY <3>1, CommandType DEF Idle
    <3> QED
      BY <3>1, <3>2 DEF Overlap
  <2>2. CASE Ended(u)
    BY <2>2 DEF Ended, Returns, Forgets, TypeOK
  <2>3. CASE PushPin(u)
    BY <2>3, PinTyped DEF Others, TypeOK
  <2>4. CASE Deleted(u)
    BY <2>4, DeletedTyped DEF Forgotten
  <2>5. ASSUME NEW c, Began(u, c)
        PROVE  run'[u] # Idle /\ \A v \in Users \ {u} : run[v] # Idle =>
                   run[v].op \in met'[u] /\ run'[u].op \in met'[v]
    BY <2>5, BeganTyped DEF TypeOK
  <2> QED
    BY <2>1, <2>2, <2>3, <2>4, <2>5, StepCases
<1>3. ASSUME NEW v \in Users \ {u}, run[v] # Idle PROVE run'[v] = run[v] /\ met[v] \subseteq met'[v]
  BY <1>3, Elsewhere
<1>4. Overlap'
  BY <1>1, <1>2, <1>3 DEF Overlap
<1>5. Forgotten'
  BY <1>1, <1>2, <1>3 DEF Forgotten
<1> QED
  BY <1>4, <1>5

-----------------------------------------------------------------------------
(* The user's own command                                                  *)

\* What a running command can just have done: a request of its kind, or begun.
Fresh(u) == /\ run[u] = Idle /\ UNCHANGED <<server, pushed, unsafe>>
            /\ run'[u].op = "push" => run'[u].at = "list"
            /\ run'[u].op = "clean" => run'[u].at = "groups" /\ run'[u].orphans = {}
            /\ run'[u].op = "sweep" => /\ run'[u].at = "index" /\ run'[u].orphans = {}
                                       /\ run'[u].referenced = {}
LEMMA OwnCases ==
    ASSUME TypeOK, NEW u \in Users, Step(u)
    PROVE  /\ run'[u].op = "push" =>
                  Fresh(u) \/ Listed(u) \/ \E a \in Artifacts : Uploaded(u, a)
           /\ run'[u].op = "clean" =>
                  \/ Fresh(u) \/ GroupsRead(u) \/ PoliciesRead(u)
                  \/ \E r \in Revisions : RevisionDeleted(u, r)
           /\ run'[u].op = "sweep" =>
                  \/ Fresh(u) \/ IndexRead(u) \/ ArtifactsRead(u)
                  \/ \E r \in Revisions : RevisionRead(u, r)
                  \/ \E a \in Artifacts : ArtifactDeleted(u, a)
<1>1. CASE Went(u)
  BY <1>1 DEF Went, Listed, Uploaded, GroupsRead, PoliciesRead, RevisionDeleted, IndexRead, RevisionRead,
     ArtifactsRead, ArtifactDeleted, Pushing, Cleaning, Sweeping
<1>2. CASE Ended(u) \/ PushPin(u) \/ Deleted(u)
  <2>1. run'[u] = Idle
    BY <1>2, PinTyped, DeletedTyped DEF Ended, Returns, Forgets, TypeOK
  <2> QED
    BY <2>1 DEF Idle
<1>3. ASSUME NEW c, Began(u, c) PROVE Fresh(u)
  <2>1. run'[u] = c /\ c \in Pushing \cup Cleaning \cup Sweeping /\ run[u] = Idle
        /\ UNCHANGED <<server, pushed, unsafe>>
    BY <1>3, BeganTyped DEF TypeOK
  <2>2. /\ c.op = "push" => c.at = "list"
        /\ c.op = "clean" => c.at = "groups" /\ c.orphans = {}
        /\ c.op = "sweep" => c.at = "index" /\ c.orphans = {} /\ c.referenced = {}
    BY <1>3, <2>1 DEF Began, Pushing, Cleaning, Sweeping
  <2> QED
    BY <2>1, <2>2 DEF Fresh
<1> QED
  BY <1>1, <1>2, <1>3, StepCases

\* A revision in use was read, or is pinned since; an orphan was not in use.
LEMMA CleanKnowsStep ==
    ASSUME TypeOK, Overlap, CleanKnows, NEW u \in Users, Step(u)
    PROVE  CleanKnows'
<1> SUFFICES ASSUME NEW v \in Users, run'[v].op = "clean"
             PROVE  /\ run'[v].at # "groups" => Pinned' \subseteq run'[v].inUse \cup pushed'[v]
                    /\ run'[v].at # "delete" => run'[v].orphans = {}
                    /\ run'[v].orphans \cap run'[v].inUse = {}
  BY DEF CleanKnows
<1>1. CASE v # u
  <2>1. run[v].op = "clean" /\ run[v] # Idle
    BY <1>1, SameElsewhere DEF Idle
  <2>2. run'[v] = run[v] /\ pushed[v] \subseteq pushed'[v] /\ Pinned' \subseteq Pinned \cup pushed'[v]
    BY <1>1, <2>1, Elsewhere
  <2> QED
    BY <2>1, <2>2 DEF CleanKnows
<1>2. CASE v = u
  <2>1. CASE Fresh(u)
    <3>1. run'[u].at = "groups" /\ run'[u].orphans = {}
      BY <1>2, <2>1 DEF Fresh
    <3> QED
      BY <1>2, <3>1
  <2>2. CASE GroupsRead(u)
    BY <1>2, <2>2 DEF GroupsRead, Quiet, server, Pinned, CleanKnows, Cleaning
  <2>3. CASE PoliciesRead(u)
    BY <1>2, <2>3 DEF PoliciesRead, Quiet, server, Pinned, CleanKnows, Orphans, Cleaning
  <2>4. CASE \E r \in Revisions : RevisionDeleted(u, r)
    BY <1>2, <2>4 DEF RevisionDeleted, Quiet, Pinned, CleanKnows, Cleaning
  <2> QED
    BY <1>2, <2>1, <2>2, <2>3, <2>4, OwnCases
<1> QED
  BY <1>1, <1>2

\* A clean that no push and no delete overlaps finds every revision that is not pinned.
LEMMA CleanFindsStep ==
    ASSUME TypeOK, Overlap, CleanFinds, NEW u \in Users, Step(u)
    PROVE  CleanFinds'
<1> SUFFICES ASSUME NEW v \in Users, run'[v].op = "clean", met'[v] \subseteq {"clean", "sweep"}
             PROVE  /\ run'[v].at # "groups" => run'[v].inUse \cap revs' \subseteq Pinned'
                    /\ run'[v].at = "delete" /\ ~run'[v].dry =>
                           \A r \in revs' : PolicyOf[r] \in run'[v].scope =>
                               r \in run'[v].orphans \cup Pinned'
  BY DEF CleanFinds
<1>1. CASE v # u
  <2>1. run[v].op = "clean" /\ run[v] # Idle
    BY <1>1, SameElsewhere DEF Idle
  <2>2. run'[v] = run[v] /\ met[v] \subseteq {"clean", "sweep"} /\ revs' \subseteq revs
        /\ \A r \in revs' : r \in Pinned => r \in Pinned'
    BY <1>1, <2>1, Elsewhere
  <2> HIDE DEF Pinned
  <2> QED
    BY <2>1, <2>2 DEF CleanFinds
<1>2. CASE v = u
  <2>1. CASE Fresh(u)
    BY <1>2, <2>1 DEF Fresh
  <2>2. CASE GroupsRead(u)
    BY <1>2, <2>2 DEF GroupsRead, server, Pinned
  <2>3. CASE PoliciesRead(u)
    <3>1. run[u].op = "clean" /\ run[u].at # "groups" /\ met[u] \subseteq {"clean", "sweep"}
      BY <1>2, <2>3 DEF PoliciesRead, Quiet, Cleaning
    <3>2. run[u].inUse \cap revs \subseteq Pinned
      BY <3>1 DEF CleanFinds
    <3>3. revs' = revs /\ Pinned' = Pinned
      BY <2>3 DEF PoliciesRead, server, Pinned
    <3>4. ~run[u].dry => \A r \in revs : PolicyOf[r] \in run[u].scope => r \in run'[u].orphans \cup Pinned
      BY <2>3, <3>2 DEF PoliciesRead, Orphans
    <3> QED
      BY <1>2, <2>3, <3>2, <3>3, <3>4 DEF PoliciesRead
  <2>4. ASSUME NEW r \in Revisions, RevisionDeleted(u, r)
        PROVE  /\ run'[v].inUse \cap revs' \subseteq Pinned'
               /\ ~run'[v].dry => \A s \in revs' : PolicyOf[s] \in run'[v].scope =>
                                      s \in run'[v].orphans \cup Pinned'
    <3>1. run[u].op = "clean" /\ run[u].at = "delete" /\ met[u] \subseteq {"clean", "sweep"}
      BY <1>2, <2>4 DEF RevisionDeleted, Quiet, Cleaning
    <3>2. \A s \in Pinned : s # r => s \in Pinned'
      BY <2>4 DEF RevisionDeleted, Pinned
    <3>3. /\ run[u].inUse \cap revs \subseteq Pinned
          /\ ~run[u].dry => \A s \in revs : PolicyOf[s] \in run[u].scope => s \in run[u].orphans \cup Pinned
      BY <3>1 DEF CleanFinds
    <3> QED
      BY <1>2, <2>4, <3>2, <3>3 DEF RevisionDeleted
  <2> QED
    BY <1>2, <2>1, <2>2, <2>3, <2>4, OwnCases
<1> QED
  BY <1>1, <1>2

-----------------------------------------------------------------------------
(* Clean-cookbooks and push                                                *)

\* A revision that was there is read or to be read; one pushed since is unsafe.
LEMMA SweepKnowsStep ==
    ASSUME TypeOK, Overlap, Forgotten, SweepKnows, NEW u \in Users, Step(u)
    PROVE  SweepKnows'
<1> SUFFICES ASSUME NEW v \in Users, run'[v].op = "sweep"
             PROVE  /\ run'[v].at # "index" =>
                           \A r \in revs' \ pushed'[v] :
                               r \in run'[v].unread \/ Locks[r] \subseteq run'[v].referenced
                    /\ run'[v].at # "delete" => run'[v].orphans = {}
                    /\ run'[v].at = "delete" => run'[v].unread = {}
                    /\ run'[v].orphans \cap run'[v].referenced = {}
                    /\ pushed'[v] \subseteq unsafe'
  BY DEF SweepKnows
<1>1. CASE v # u
  <2>1. run[v].op = "sweep" /\ run[v] # Idle
    BY <1>1, SameElsewhere DEF Idle
  <2>2. run'[v] = run[v] /\ revs' \ pushed'[v] \subseteq revs \ pushed[v]
        /\ (pushed[v] \subseteq unsafe => pushed'[v] \subseteq unsafe')
    BY <1>1, <2>1, Elsewhere
  <2> QED
    BY <2>1, <2>2 DEF SweepKnows
<1>2. CASE v = u
  <2>1. CASE Fresh(u)
    <3>1. pushed'[u] = {} /\ run'[u].at = "index" /\ run'[u].orphans = {}
      BY <1>2, <2>1 DEF Fresh, Forgotten
    <3> QED
      BY <1>2, <3>1
  <2>2. CASE IndexRead(u)
    BY <1>2, <2>2 DEF IndexRead, Quiet, server, SweepKnows, Sweeping
  <2>3. CASE \E r \in Revisions : RevisionRead(u, r)
    BY <1>2, <2>3 DEF RevisionRead, Quiet, server, SweepKnows, Sweeping
  <2>4. CASE ArtifactsRead(u)
    BY <1>2, <2>4 DEF ArtifactsRead, Quiet, server, SweepKnows, Sweeping
  <2>5. CASE \E a \in Artifacts : ArtifactDeleted(u, a)
    BY <1>2, <2>5 DEF ArtifactDeleted, Quiet, SweepKnows, Sweeping
  <2> QED
    BY <1>2, <2>1, <2>2, <2>3, <2>4, <2>5, OwnCases
<1> QED
  BY <1>1, <1>2

\* A clean-cookbooks that only others of its kind overlap finds every artifact that
\* no revision refers to.
LEMMA SweepFindsStep ==
    ASSUME TypeOK, Overlap, SweepFinds, NEW u \in Users, Step(u)
    PROVE  SweepFinds'
<1> SUFFICES ASSUME NEW v \in Users, run'[v].op = "sweep", met'[v] \subseteq {"sweep"}
             PROVE  /\ run'[v].at # "index" => run'[v].unread \subseteq revs'
                    /\ run'[v].referenced \subseteq Referenced(revs')
                    /\ run'[v].at = "delete" /\ ~run'[v].dry =>
                           artifacts' \subseteq Referenced(revs') \cup run'[v].orphans
  BY DEF SweepFinds, Referenced
<1>1. CASE v # u
  <2>1. run[v].op = "sweep" /\ run[v] # Idle
    BY <1>1, SameElsewhere DEF Idle
  <2>2. run'[v] = run[v] /\ met[v] \subseteq {"sweep"} /\ revs' = revs /\ artifacts' \subseteq artifacts
    BY <1>1, <2>1, Elsewhere
  <2> QED
    BY <2>1, <2>2 DEF SweepFinds
<1>2. CASE v = u
  <2>1. CASE Fresh(u)
    BY <1>2, <2>1 DEF Fresh
  <2>2. CASE IndexRead(u)
    BY <1>2, <2>2 DEF IndexRead, Quiet, server, SweepFinds, Sweeping
  <2>3. ASSUME NEW r \in Revisions, RevisionRead(u, r)
        PROVE  run'[u].unread \subseteq revs' /\ run'[u].referenced \subseteq Referenced(revs')
               /\ run'[u].at = "revisions"
    <3>1. run[u].unread \subseteq revs /\ run[u].referenced \subseteq Referenced(revs)
      BY <1>2, <2>3 DEF RevisionRead, Quiet, SweepFinds, Sweeping
    <3>2. Locks[r] \subseteq Referenced(revs)
      BY <2>3 DEF RevisionRead, Referenced
    <3> QED
      BY <2>3, <3>1, <3>2 DEF RevisionRead, server
  <2>4. CASE ArtifactsRead(u)
    BY <1>2, <2>4 DEF ArtifactsRead, Quiet, server, SweepFinds, Sweeping
  <2>5. CASE \E a \in Artifacts : ArtifactDeleted(u, a)
    BY <1>2, <2>5 DEF ArtifactDeleted, Quiet, SweepFinds, Sweeping
  <2> QED
    BY <1>2, <2>1, <2>2, <2>3, <2>4, <2>5, OwnCases
<1> QED
  BY <1>1, <1>2

\* A push that no clean-cookbooks overlaps has all its artifacts there or to come.
LEMMA PushKnowsStep ==
    ASSUME TypeOK, Overlap, PushKnows, NEW u \in Users, Step(u)
    PROVE  PushKnows'
<1> SUFFICES ASSUME NEW v \in Users, run'[v].op = "push", run'[v].at = "upload", "sweep" \notin met'[v]
             PROVE  Locks[run'[v].rev] \subseteq artifacts' \cup run'[v].missing
  BY DEF PushKnows
<1>1. CASE v # u
  <2>1. run[v].op = "push" /\ run[v] # Idle
    BY <1>1, SameElsewhere DEF Idle
  <2>2. run'[v] = run[v] /\ "sweep" \notin met[v] /\ artifacts \subseteq artifacts'
    BY <1>1, <2>1, Elsewhere
  <2> QED
    BY <2>1, <2>2 DEF PushKnows
<1>2. CASE v = u
  <2>1. CASE Fresh(u)
    BY <1>2, <2>1 DEF Fresh
  <2>2. CASE Listed(u)
    BY <1>2, <2>2 DEF Listed, server
  <2>3. CASE \E a \in Artifacts : Uploaded(u, a)
    BY <1>2, <2>3 DEF Uploaded, Quiet, PushKnows, Pushing
  <2> QED
    BY <1>2, <2>1, <2>2, <2>3, OwnCases
<1> QED
  BY <1>1, <1>2

\* No request takes an artifact from a revision whose push met no clean-cookbooks.
LEMMA CompleteStep ==
    ASSUME TypeOK, SweepKnows, PushKnows, RevisionsComplete, NEW u \in Users, Step(u)
    PROVE  RevisionsComplete'
<1> SUFFICES ASSUME NEW r \in revs' \ unsafe' PROVE Locks[r] \subseteq artifacts'
  BY DEF RevisionsComplete
<1>1. CASE Went(u)
  <2>1. r \in revs \ unsafe
    BY <1>1, EffectTyped
  <2>2. Locks[r] \subseteq artifacts
    BY <2>1 DEF RevisionsComplete
  <2>3. CASE run[u].op # "sweep"
    BY <1>1, <2>2, <2>3, WentServer
  <2>4. CASE run[u].op = "sweep"
    <3>1. \/ UNCHANGED server
          \/ \E a \in Artifacts : ArtifactDeleted(u, a)
      BY <1>1, <2>4, CommandType DEF Went, Listed, Uploaded, GroupsRead, PoliciesRead, RevisionDeleted,
         IndexRead, RevisionRead, ArtifactsRead, Pushing, Cleaning, Sweeping
    <3>2. ASSUME NEW a \in Artifacts, ArtifactDeleted(u, a) PROVE a \notin Locks[r]
      <4>1. /\ r \notin pushed[u] /\ run[u].at = "delete" /\ a \in run[u].orphans
            /\ run[u].unread = {} /\ run[u].orphans \cap run[u].referenced = {}
        BY <2>1, <2>4, <3>2 DEF ArtifactDeleted, SweepKnows
      <4>2. Locks[r] \subseteq run[u].referenced
        BY <2>1, <2>4, <4>1 DEF SweepKnows
      <4> QED
        BY <4>1, <4>2
    <3> QED
      BY <2>2, <3>1, <3>2 DEF ArtifactDeleted, server
  <2> QED
    BY <2>3, <2>4
<1>2. CASE PushPin(u)
  <2>1. CASE r = run[u].rev
    <3>1. "sweep" \notin met[u] /\ run[u].op = "push" /\ run[u].at = "upload" /\ run[u].missing = {}
      BY <1>2, <2>1, PinTyped DEF Pushing
    <3> QED
      BY <1>2, <2>1, <3>1, PinTyped DEF PushKnows
  <2>2. CASE r # run[u].rev
    BY <1>2, <2>2, PinTyped DEF RevisionsComplete
  <2> QED
    BY <2>1, <2>2
<1>3. CASE Ended(u)
  BY <1>3 DEF Ended, Returns, server, RevisionsComplete
<1>4. CASE Deleted(u)
  BY <1>4 DEF Deleted, RevisionsComplete
<1>5. CASE \E c : Began(u, c)
  BY <1>5, BeganTyped DEF server, RevisionsComplete
<1> QED
  BY <1>1, <1>2, <1>3, <1>4, <1>5, StepCases

-----------------------------------------------------------------------------
(* Theorems                                                                *)

LEMMA InitIInv == Init => IInv
<1> SUFFICES ASSUME Init PROVE IInv
  OBVIOUS
<1>1. \A u \in Users : run[u] = Idle /\ run[u].op = "none" /\ pushed[u] = {} /\ met[u] = {}
  BY DEF Init, Idle
<1>2. TypeOK
  BY DEF Init, TypeOK
<1>3. RevisionsComplete
  BY DEF Init, RevisionsComplete, Referenced
<1> QED
  BY <1>1, <1>2, <1>3 DEF IInv, Overlap, Forgotten, CleanKnows, SweepKnows, PushKnows, CleanFinds, SweepFinds

LEMMA NextIInv == IInv /\ [Next]_vars => IInv'
<1>1. ASSUME IInv, UNCHANGED vars PROVE IInv'
  BY <1>1 DEF vars, IInv, TypeOK, Overlap, Forgotten, CleanKnows, SweepKnows, PushKnows,
     RevisionsComplete, CleanFinds, SweepFinds, Pinned, Referenced
<1>2. ASSUME IInv, NEW u \in Users, Step(u) PROVE IInv'
  BY <1>2, StepTyped, OverlapStep, CleanKnowsStep, SweepKnowsStep, PushKnowsStep, CompleteStep,
     CleanFindsStep, SweepFindsStep DEF IInv
<1> QED
  BY <1>1, <1>2 DEF Next

LEMMA Inductive == Spec => []IInv
  BY InitIInv, NextIInv, PTL DEF Spec

\* The server holds revisions and artifacts of the sets, a command is one of three.
THEOREM TypesHold == Spec => []TypeOK
<1>1. IInv => TypeOK
  BY DEF IInv
<1> QED
  BY <1>1, Inductive, PTL

\* `policy clean` deletes no revision that a group pinned when it began and still
\* pins: only one that a push pinned since (newPolicyCleanCmd, revisionsInUse).
THEOREM CleanIsSafe == Spec => []CleanSparesPinned
<1>1. IInv => CleanSparesPinned
  <2> SUFFICES ASSUME IInv, NEW u \in Users, run[u].op = "clean"
               PROVE  run[u].orphans \cap Pinned \subseteq pushed[u]
    BY DEF CleanSparesPinned
  <2>1. CASE run[u].at = "groups"
    BY <2>1 DEF IInv, CleanKnows
  <2>2. CASE run[u].at # "groups"
    BY <2>2 DEF IInv, CleanKnows
  <2> QED
    BY <2>1, <2>2
<1> QED
  BY <1>1, Inductive, PTL

\* `policy clean-cookbooks` deletes no artifact that a revision refers to, but for
\* revisions pushed since it began (referencedArtifacts, orphanedArtifacts).
THEOREM SweepIsSafe == Spec => []SweepSparesReferenced
<1>1. IInv => SweepSparesReferenced
  <2> SUFFICES ASSUME IInv, NEW u \in Users, run[u].op = "sweep", NEW r \in revs \ pushed[u]
               PROVE  run[u].orphans \cap Locks[r] = {}
    BY DEF SweepSparesReferenced
  <2>1. CASE run[u].at = "delete"
    BY <2>1 DEF IInv, SweepKnows
  <2>2. CASE run[u].at # "delete"
    BY <2>2 DEF IInv, SweepKnows
  <2> QED
    BY <2>1, <2>2
<1> QED
  BY <1>1, Inductive, PTL

\* A revision whose last push met no clean-cookbooks has all its artifacts on the
\* server, whatever runs afterwards (PushRevision against clean-cookbooks).
THEOREM PushesComplete == Spec => []RevisionsComplete
<1>1. IInv => RevisionsComplete
  BY DEF IInv
<1> QED
  BY <1>1, Inductive, PTL

\* A clean that returns without an error, overlapped by no push and no delete, has
\* left no revision of its scope that no group pins (newPolicyCleanCmd).
THEOREM CleanIsThorough == Spec => []CleanLeavesNoOrphans
<1>1. IInv => CleanLeavesNoOrphans
  BY DEF IInv, CleanFinds, CleanLeavesNoOrphans
<1> QED
  BY <1>1, Inductive, PTL

\* A clean-cookbooks that returns without an error, overlapped by its own kind only,
\* has left no artifact that no revision refers to (newPolicyCleanCookbooksCmd).
THEOREM SweepIsThorough == Spec => []SweepLeavesNoOrphans
<1>1. IInv => SweepLeavesNoOrphans
  BY DEF IInv, SweepFinds, SweepLeavesNoOrphans
<1> QED
  BY <1>1, Inductive, PTL

\* Neither clean command means to delete what was referred to when it began.
THEOREM CleansAreSafeHolds == Spec => []CleansAreSafe
  BY TypesHold, CleanIsSafe, SweepIsSafe, PTL DEF CleansAreSafe

\* Both, left in peace, delete all that nothing refers to.
THEOREM CleansAreThoroughHolds == Spec => []CleansAreThorough
  BY CleanIsThorough, SweepIsThorough, PTL DEF CleansAreThorough
=============================================================================
