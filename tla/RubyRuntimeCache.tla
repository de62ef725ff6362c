-------------------------- MODULE RubyRuntimeCache --------------------------
(***************************************************************************)
(* The per-user cache of the ruby.wasm release                             *)
(* (src/cli/policyfile/rubyeval/loader.go): ensureRuntimeFrom without      *)
(* seeds, materializeFrom and moveIntoPlace, and the read that prepare     *)
(* (rubyeval.go) makes of what they return.                                *)
(*                                                                         *)
(* Several processes run these at once.  What they share is one directory  *)
(* of the cache, the archive's only top-level entry: absent, holding a     *)
(* usable release, or a broken one.  Each extracts into a staging          *)
(* directory of its own, so a step is one look at the shared directory or  *)
(* one rename of it.  usable() takes three looks, of which the last, the   *)
(* checksum, decides: nothing puts a broken release back.                  *)
(***************************************************************************)
EXTENDS Naturals

CONSTANTS Processes,   \* the processes
          Starts       \* what the first of them may find in the cache

Releases == {"absent", "broken", "usable"}

ASSUME StartsAssumption == Starts \subseteq Releases

VARIABLES start,      \* what there was to begin with
          release,    \* what there is now
          phase       \* phase[p]: where process p is

runtimeVars == <<start, release, phase>>

\* One line each for ensureRuntimeFrom, materializeFrom, moveIntoPlace and prepare.
RuntimeRunning == {"look", "download", "verify"}
           \cup {"recheck"}
           \cup {"rename", "occupied", "stat", "aside", "again", "recheckAgain"}
           \cup {"read"}
RuntimeEnded == {"evaluating", "unfetched", "failed", "crashed"}

RuntimeInit ==
    /\ start \in Starts
    /\ release = start
    /\ phase = [p \in Processes |-> "look"]

Usable == release = "usable"
Advance(p, from, to) == phase[p] = from /\ phase' = [phase EXCEPT ![p] = to]
Keep == UNCHANGED <<start, release>>

LookTrusts(p) == Advance(p, "look", IF release # "absent" THEN "read" ELSE "download") /\ Keep \* mutant
\* A cache hit, or a download.
LookUp(p) == Advance(p, "look", IF Usable THEN "read" ELSE "download") /\ Keep

\* fetch, the check of the archive, and its extraction into the staging directory.
Download(p) ==
    /\ \E to \in {"recheck", "unfetched"} : Advance(p, "download", to)
    /\ Keep

Recheck(p) == Advance(p, "recheck", IF Usable THEN "verify" ELSE "rename") /\ Keep

\* os.Rename puts nothing in the place of a directory that is there.
PutInPlace(p, from, otherwise) ==
    /\ Advance(p, from, IF release = "absent" THEN "verify" ELSE otherwise)
    /\ release' = IF release = "absent" THEN "usable" ELSE release
    /\ UNCHANGED start

MoveIn(p) == PutInPlace(p, "rename", "occupied")

OccupiedOverwrites(p) == Advance(p, "occupied", "stat") /\ Keep               \* mutant
\* Somebody else's finished copy is kept.
Occupied(p) == Advance(p, "occupied", IF Usable THEN "verify" ELSE "stat") /\ Keep

\* Nothing in the way after all: the rename's error is reported.
Stat(p) == Advance(p, "stat", IF release = "absent" THEN "failed" ELSE "aside") /\ Keep

\* What is in the way goes aside; that it has gone already is no error.
MoveAside(p) ==
    /\ Advance(p, "aside", "again")
    /\ release' = "absent"
    /\ UNCHANGED start

RenameAgainGivesUp(p) == Advance(p, "again", "failed") /\ Keep               \* mutant
RenameAgain(p) == PutInPlace(p, "again", "recheckAgain")

RecheckAgain(p) == Advance(p, "recheckAgain", IF Usable THEN "verify" ELSE "failed") /\ Keep

\* ensureRuntimeFrom looks once more before it returns the paths.
Verify(p) == Advance(p, "verify", IF Usable THEN "read" ELSE "failed") /\ Keep

\* prepare reads the module by its path, without another check.
Read(p) == Advance(p, "read", IF release = "absent" THEN "failed" ELSE "evaluating") /\ Keep

\* A process can die between any two steps.
ProcessCrash(p) ==
    /\ phase[p] \in RuntimeRunning
    /\ phase' = [phase EXCEPT ![p] = "crashed"]
    /\ Keep

RuntimeNext == \E p \in Processes :
    \/ LookUp(p) \/ Download(p) \/ Recheck(p) \/ MoveIn(p) \/ Occupied(p) \/ Stat(p)
    \/ MoveAside(p) \/ RenameAgain(p) \/ RecheckAgain(p) \/ Verify(p) \/ Read(p)
    \/ ProcessCrash(p)

RuntimeSpec == RuntimeInit /\ [][RuntimeNext]_runtimeVars
-----------------------------------------------------------------------------
(* Properties                                                              *)

\* The cache holds one of the three things usable() tells apart, every process is
\* at a step of the code.
RuntimeTypeOK ==
    /\ start \in Starts /\ release \in Releases
    /\ phase \in [Processes -> RuntimeRunning \cup RuntimeEnded]

\* A module is run only if its checksum was right, although it is read after the
\* check and others rename releases meanwhile (prepare, os.ReadFile).
RunsVerified ==
    [][\A p \in Processes : phase[p] # "evaluating" /\ phase'[p] = "evaluating" => Usable]_runtimeVars

\* Unless the cache was broken before, a release that is in place stays: the
\* processes that evaluate with it, and mount its library, never lose it.
ReleaseStays == [][start # "broken" /\ Usable => release' = "usable"]_runtimeVars

\* Unless the cache was broken before, parallel first runs do not fail each other:
\* a run that has downloaded the archive gets a runtime.
NobodyFails == start # "broken" => \A p \in Processes : phase[p] # "failed"

\* Even from a broken cache: when no process is running, one evaluated and none
\* crashed half-way, a usable release is there for the next run.
NobodyRuns == \A p \in Processes : phase[p] \in RuntimeEnded \ {"crashed"}
OneReleaseSurvives == NobodyRuns /\ (\E p \in Processes : phase[p] = "evaluating") => Usable

\* Parallel first runs get along, and what they fight over survives (moveIntoPlace).
ParallelRunsGetAlong == RuntimeTypeOK /\ NobodyFails /\ OneReleaseSurvives
=============================================================================
