---------------------------- MODULE SharingProofs ----------------------------
(***************************************************************************)
(* Theorems about what processes and goroutines share: the entries of the  *)
(* cookbook cache (CookbookCache), the Ruby runtime (RubyRuntimeCache) and *)
(* the hosts of a remote command (RemotePool).  They are for every number  *)
(* of runs, processes, workers and hosts, and every set of files.          *)
(***************************************************************************)
EXTENDS CookbookCache, RubyRuntimeCache, RemotePool, FiniteSetTheorems, TLAPS

(***************************************************************************)
(* The cookbook cache                                                      *)
(***************************************************************************)

\* Runs that do not overlap are under way one at a time.
OneAtATime ==
    ~overlap => \A p, q \in Procs : at[p] \in Running /\ at[q] \in Running => p = q

\* Runs that do not share the staging directory use it one at a time, and then two have
\* never been under way at once without the history saying so.
OneUser ==
    /\ shared => overlap
    /\ ~shared => \A p, q \in Procs : at[p] \in Using /\ at[q] \in Using => p = q

\* What holds of the run that uses the staging directory while no two have: it removes
\* what it has listed from the directory that is staged, and has written there all files
\* but those left to do.
SoleOK(p) ==
    /\ at[p] \in {"cleaning", "dropping"} => open[p] = staging /\ content[staging] = todo[p]
    /\ at[p] \in {"openRoot", "fetch", "rename"} => staging # None
    /\ at[p] \in {"fetch", "rename"} =>
           open[p] \in {None, staging} /\ Files \ todo[p] \subseteq content[staging]
    /\ at[p] = "rename" => todo[p] = {} /\ entry = None
    /\ at[p] = "served" => entry # None
    /\ at[p] \in {"drop", "dropping", "failed"} => ~fetched[p] \/ entry # None
Sole == ~shared => EntryComplete /\ \A p \in Procs : SoleOK(p)

\* When runs do not even overlap, one gets past the look only if there is no entry.
AloneOK(p) ==
    /\ at[p] \in Running /\ entry # None => at[p] = "look"
    /\ at[p] \in {"drop", "dropping", "failed"} => ~fetched[p]
Alone == ~overlap => \A p \in Procs : AloneOK(p)

\* The inductive invariant.
IInv == TypeOK /\ OneAtATime /\ OneUser /\ Sole /\ Alone

\* The steps of a run, grouped by what they do.
Removes(p) == Clean(p) \/ Cleaning(p) \/ Drop(p) \/ Dropping(p)
Writes(p) == \E f \in Files : WriteByPath(p, f) \/ WriteByHandle(p, f)
Others(p) ==
    Start(p) \/ Look(p) \/ Make(p) \/ OpenRoot(p) \/ FetchFails(p) \/ CheckEntry(p) \/ Rename(p)
    \/ Crash(p)

\* Every step removes, writes, or is one of the other steps of one run (EnsureCookbook).
LEMMA StepCases == Next => \E p \in Procs : Removes(p) \/ Writes(p) \/ Others(p)
BY DEF Next, Removes, Writes, Others
-----------------------------------------------------------------------------
(* Types                                                                   *)

\* The cache starts without the entry and with no run under way.
LEMMA InitIInv == Init => IInv
BY CacheAssumption
DEF Init, IInv, TypeOK, OneAtATime, OneUser, Sole, SoleOK, Alone, AloneOK, EntryComplete, Running,
    Using, Ended

\* os.RemoveAll has a directory open exactly between its start and its end.
LEMMA RemoveTypeOK ==
    ASSUME TypeOK, NEW p \in Procs, Removes(p) PROVE TypeOK'
<1> USE CacheAssumption DEF TypeOK, Go, dirVars, history, Running, Using, Ended
<1>1. ASSUME NEW from \in {"clean", "drop"}, NEW during \in {"cleaning", "dropping"},
             NEW after \in {"mkdir", "failed"}, RemoveStart(p, from, during, after)
      PROVE  TypeOK'
  <2>1. CASE Removable
    BY <1>1, <2>1 DEF RemoveStart
  <2>2. CASE ~Removable
    <3>1. staging \in Dirs
      BY <2>2 DEF Removable
    <3> QED
      BY <1>1, <2>2, <3>1 DEF RemoveStart
  <2> QED
    BY <2>1, <2>2
<1>2. ASSUME NEW during \in {"cleaning", "dropping"}, NEW f \in Files, RemoveFile(p, during, f)
      PROVE  TypeOK'
  BY <1>2 DEF RemoveFile
<1>3. ASSUME NEW during \in {"cleaning", "dropping"}, NEW after \in {"mkdir", "failed"},
             NEW onError \in {"failed"}, RemoveEnd(p, during, after, onError)
      PROVE  TypeOK'
  BY <1>3 DEF RemoveEnd
<1> QED
  BY <1>1, <1>2, <1>3 DEF Removes, Clean, Cleaning, Drop, Dropping

\* A directory that is written to is the one staged, or the one a handle is on.
LEMMA WriteTypeOK ==
    ASSUME TypeOK, NEW p \in Procs, Writes(p) PROVE TypeOK'
<1> USE CacheAssumption DEF TypeOK, Go, dirVars, history, Running, Using, Ended, WriteInto, Free, Linked
<1>1. ASSUME NEW f \in Files, WriteByPath(p, f) PROVE TypeOK'
  BY <1>1 DEF WriteByPath
<1>2. ASSUME NEW f \in Files, WriteByHandle(p, f) PROVE TypeOK'
  BY <1>2 DEF WriteByHandle
<1> QED
  BY <1>1, <1>2 DEF Writes

\* A directory that is made is a new one, and a rename closes the handle on it.
LEMMA OtherTypeOK ==
    ASSUME TypeOK, NEW p \in Procs, Others(p) PROVE TypeOK'
<1> USE CacheAssumption DEF TypeOK, Go, dirVars, history, Running, Using, Ended, Free, Linked
<1>1. CASE Start(p) \/ Look(p) \/ Crash(p) \/ FetchFails(p)
  BY <1>1 DEF Start, Look, Crash, FetchFails
<1>2. CASE Make(p)
  BY <1>2 DEF Make
<1>3. CASE OpenRoot(p)
  BY <1>3 DEF OpenRoot
<1>4. CASE CheckEntry(p) \/ Rename(p)
  BY <1>4 DEF CheckEntry, Rename, Replaceable
<1> QED
  BY <1>1, <1>2, <1>3, <1>4 DEF Others

\* Every step keeps the types (EnsureCookbook).
LEMMA StepTypeOK == TypeOK /\ [Next]_vars => TypeOK'
<1>1. TypeOK /\ UNCHANGED vars => TypeOK'
  BY DEF TypeOK, vars
<1> QED
  BY <1>1, StepCases, RemoveTypeOK, WriteTypeOK, OtherTypeOK
-----------------------------------------------------------------------------
(* Runs that do not overlap                                                *)

\* A run that starts beside another one is an overlap.
LEMMA StepOneAtATime == TypeOK /\ OneAtATime /\ [Next]_vars => OneAtATime'
<1> SUFFICES ASSUME TypeOK, OneAtATime, [Next]_vars, ~overlap'
             PROVE  \A p, q \in Procs : at'[p] \in Running /\ at'[q] \in Running => p = q
  BY DEF OneAtATime
<1> USE DEF TypeOK, OneAtATime, Go, dirVars, history
<1>1. CASE UNCHANGED vars
  BY <1>1 DEF vars
<1>2. ASSUME NEW p \in Procs, Start(p)
      PROVE  \A r, q \in Procs : at'[r] \in Running /\ at'[q] \in Running => r = q
  BY <1>2 DEF Start
<1>3. ASSUME NEW p \in Procs, Next, ~Start(p), Removes(p) \/ Writes(p) \/ Others(p)
      PROVE  /\ ~overlap
             /\ \A q \in Procs : at'[q] \in Running => at[q] \in Running
  <2>1. CASE Removes(p)
    BY <2>1, <1>3 DEF Removes, Clean, Cleaning, Drop, Dropping, RemoveStart, RemoveFile, RemoveEnd,
                      Running, Using
  <2>2. CASE Writes(p)
    BY <2>2, <1>3 DEF Writes, WriteByPath, WriteByHandle, WriteInto, Running, Using
  <2>3. CASE Others(p)
    BY <2>3, <1>3 DEF Others, Look, Make, OpenRoot, FetchFails, CheckEntry, Rename, Crash,
                      Running, Using
  <2> QED
    BY <1>3, <2>1, <2>2, <2>3
<1> QED
  BY <1>1, <1>2, <1>3, StepCases

\* A step of p changes nothing that another process has.
LEMMA StepOfOne ==
    ASSUME TypeOK, NEW p \in Procs, Removes(p) \/ Writes(p) \/ Others(p)
    PROVE  \A q \in Procs \ {p} : at'[q] = at[q] /\ open'[q] = open[q] /\ todo'[q] = todo[q]
                                  /\ fetched'[q] = fetched[q]
<1> USE DEF TypeOK, Go, dirVars, history
<1>1. CASE Removes(p)
  BY <1>1 DEF Removes, Clean, Cleaning, Drop, Dropping, RemoveStart, RemoveFile, RemoveEnd
<1>2. CASE Writes(p)
  BY <1>2 DEF Writes, WriteByPath, WriteByHandle, WriteInto
<1>3. CASE Others(p)
  BY <1>3 DEF Others, Start, Look, Make, OpenRoot, FetchFails, CheckEntry, Rename, Crash
<1> QED
  BY <1>1, <1>2, <1>3

\* What the history says was so stays said.
LEMMA HistoryStays ==
    ASSUME TypeOK, NEW p \in Procs, Removes(p) \/ Writes(p) \/ Others(p)
    PROVE  (overlap => overlap') /\ (shared => shared')
<1> USE DEF TypeOK, history
<1>1. CASE Removes(p)
  BY <1>1 DEF Removes, Clean, Cleaning, Drop, Dropping, RemoveStart, RemoveFile, RemoveEnd
<1>2. CASE Writes(p)
  BY <1>2 DEF Writes, WriteByPath, WriteByHandle, WriteInto
<1>3. CASE Start(p)
  BY <1>3 DEF Start
<1>4. CASE Others(p) /\ ~Start(p)
  BY <1>4 DEF Others, Look, Make, OpenRoot, FetchFails, CheckEntry, Rename, Crash
<1> QED
  BY <1>1, <1>2, <1>3, <1>4

\* A run that comes to the staging directory while another uses it shares it.
LEMMA StepOneUser == TypeOK /\ OneAtATime /\ OneUser /\ [Next]_vars => OneUser'
<1> SUFFICES ASSUME TypeOK, OneAtATime, OneUser, [Next]_vars PROVE OneUser'
  OBVIOUS
<1> USE DEF TypeOK, Go, dirVars, history
<1>1. CASE UNCHANGED vars
  BY <1>1 DEF vars, OneUser
<1>2. ASSUME NEW p \in Procs, Clean(p) \/ Drop(p) PROVE OneUser'
  <2>1. at[p] \in Running /\ overlap' = overlap
    BY <1>2 DEF Clean, Drop, RemoveStart, Running, Using
  <2>2. shared' = (shared \/ \E q \in Procs \ {p} : at[q] \in Using)
    BY <1>2 DEF Clean, Drop, RemoveStart
  <2>3. shared' => overlap'
    BY <2>1, <2>2 DEF OneUser, OneAtATime, Running
  <2>4. \A q \in Procs \ {p} : at'[q] = at[q]
    BY <1>2 DEF Clean, Drop, RemoveStart
  <2>5. ~shared' => \A q, r \in Procs : at'[q] \in Using /\ at'[r] \in Using => q = r
    BY <2>2, <2>4
  <2> QED
    BY <2>3, <2>5 DEF OneUser
<1>3. ASSUME NEW p \in Procs, Cleaning(p) \/ Dropping(p) \/ Writes(p) \/ Others(p) PROVE OneUser'
  <2>1. shared' = shared /\ (overlap => overlap')
    <3>1. CASE Cleaning(p) \/ Dropping(p)
      BY <3>1 DEF Cleaning, Dropping, RemoveFile, RemoveEnd
    <3>2. CASE Writes(p)
      BY <3>2 DEF Writes, WriteByPath, WriteByHandle, WriteInto
    <3>3. CASE Others(p)
      BY <3>3, HistoryStays
      DEF Others, Start, Look, Make, OpenRoot, FetchFails, CheckEntry, Rename, Crash
    <3> QED
      BY <1>3, <3>1, <3>2, <3>3
  <2>2. \A q \in Procs : at'[q] \in Using => at[q] \in Using
    <3>1. CASE Cleaning(p) \/ Dropping(p)
      BY <3>1 DEF Cleaning, Dropping, RemoveFile, RemoveEnd, Using
    <3>2. CASE Writes(p)
      BY <3>2 DEF Writes, WriteByPath, WriteByHandle, WriteInto, Using
    <3>3. CASE Others(p)
      BY <3>3 DEF Others, Start, Look, Make, OpenRoot, FetchFails, CheckEntry, Rename, Crash, Using
    <3> QED
      BY <1>3, <3>1, <3>2, <3>3
  <2> QED
    BY <2>1, <2>2 DEF OneUser
<1> QED
  BY <1>1, <1>2, <1>3, StepCases DEF Removes

\* The run that uses the staging directory leaves an entry alone: it is another directory.
LEMMA SoleRemoves ==
    ASSUME IInv, NEW p \in Procs, Removes(p), ~shared PROVE EntryComplete' /\ SoleOK(p)'
<1> USE CacheAssumption DEF IInv, TypeOK, Sole, SoleOK, EntryComplete, Go, dirVars
<1>1. CASE Clean(p) \/ Drop(p)
  BY <1>1 DEF Clean, Drop, RemoveStart, Removable
<1>2. CASE Cleaning(p) \/ Dropping(p)
  <2>1. ASSUME NEW during \in {"cleaning", "dropping"}, NEW f \in Files, RemoveFile(p, during, f)
        PROVE  EntryComplete' /\ SoleOK(p)'
    BY <2>1 DEF RemoveFile
  <2>2. CASE RemoveEnd(p, "cleaning", "mkdir", "failed")
    BY <2>2 DEF RemoveEnd, Removable
  <2>3. CASE RemoveEnd(p, "dropping", "failed", "failed")
    BY <2>3 DEF RemoveEnd, Removable
  <2> QED
    BY <1>2, <2>1, <2>2, <2>3 DEF Cleaning, Dropping
<1> QED
  BY <1>1, <1>2 DEF Removes

\* Not shared, both ways to write put the file into the staged directory.
LEMMA SoleWrites ==
    ASSUME IInv, NEW p \in Procs, Writes(p), ~shared PROVE EntryComplete' /\ SoleOK(p)'
<1> USE CacheAssumption DEF IInv, TypeOK, Sole, SoleOK, EntryComplete, Go, dirVars
<1>1. staging \in Dirs /\ staging # entry
  BY DEF Writes, WriteByPath, WriteByHandle
<1>2. ASSUME NEW f \in Files, WriteByPath(p, f) \/ WriteByHandle(p, f)
      PROVE  WriteInto(staging, p, f) /\ UNCHANGED staging /\ f \in todo[p] /\ at[p] = "fetch"
  BY <1>1, <1>2 DEF WriteByPath, WriteByHandle, Linked
<1>3. ASSUME NEW f \in Files, WriteInto(staging, p, f), UNCHANGED staging, at[p] = "fetch"
      PROVE  EntryComplete' /\ SoleOK(p)'
  BY <1>1, <1>3 DEF WriteInto
<1> QED
  BY <1>2, <1>3 DEF Writes

\* Not shared, only a whole directory is renamed, and only an entry in the way stops it.
LEMMA SoleOthers ==
    ASSUME IInv, NEW p \in Procs, Others(p), ~shared PROVE EntryComplete' /\ SoleOK(p)'
<1> USE CacheAssumption DEF IInv, TypeOK, Sole, SoleOK, EntryComplete, Go, dirVars
<1>1. CASE Start(p) \/ Look(p) \/ Crash(p) \/ FetchFails(p)
  BY <1>1 DEF Start, Look, Crash, FetchFails
<1>2. CASE Make(p)
  BY <1>2 DEF Make, Free, Linked
<1>3. CASE OpenRoot(p)
  BY <1>3 DEF OpenRoot
<1>4. CASE CheckEntry(p)
  BY <1>4 DEF CheckEntry
<1>5. CASE Rename(p)
  <2>1. staging \in Dirs /\ entry = None /\ content[staging] = Files /\ open[p] = None
    BY <1>5 DEF Rename
  <2>2. Replaceable
    BY <2>1 DEF Replaceable
  <2>3. entry' = staging /\ at'[p] = "served" /\ content' = content
    BY <1>5, <2>1, <2>2 DEF Rename
  <2> QED
    BY <2>1, <2>3
<1> QED
  BY <1>1, <1>2, <1>3, <1>4, <1>5 DEF Others

\* The entry goes from none to a directory, and back never.
LEMMA EntryIsKept ==
    ASSUME TypeOK, NEW p \in Procs, Removes(p) \/ Writes(p) \/ Others(p), entry # None
    PROVE  entry' # None
BY DEF Removes, Writes, Others, Start, Look, Clean, Cleaning, Drop, Dropping, RemoveStart,
       RemoveFile, RemoveEnd, Make, OpenRoot, WriteByPath, WriteByHandle, WriteInto, FetchFails,
       CheckEntry, Rename, Crash, dirVars, history

\* A step that changes a directory is one of the run that uses the staging directory.
LEMMA OnlyUsersChange ==
    ASSUME NEW p \in Procs, Removes(p) \/ Writes(p) \/ Others(p), ~UNCHANGED dirVars
    PROVE  at[p] \in Using \/ Clean(p)
BY DEF Removes, Writes, Others, Start, Look, Cleaning, Drop, Dropping, RemoveStart,
       RemoveFile, RemoveEnd, Make, OpenRoot, WriteByPath, WriteByHandle, WriteInto, FetchFails,
       CheckEntry, Rename, Crash, Go, dirVars, history, Using

\* Runs that do not share the staging directory keep the entry whole (EnsureCookbook).
LEMMA StepSole == IInv /\ [Next]_vars => Sole'
<1> SUFFICES ASSUME IInv, [Next]_vars, ~shared' PROVE EntryComplete' /\ \A q \in Procs : SoleOK(q)'
  BY DEF Sole
<1>1. CASE UNCHANGED vars
  BY <1>1 DEF vars, IInv, Sole, SoleOK, EntryComplete
<1>2. ASSUME NEW p \in Procs, Removes(p) \/ Writes(p) \/ Others(p)
      PROVE  EntryComplete' /\ \A q \in Procs : SoleOK(q)'
  <2>1. ~shared
    BY <1>2, HistoryStays DEF IInv
  <2>2. EntryComplete' /\ SoleOK(p)'
    BY <1>2, <2>1, SoleRemoves, SoleWrites, SoleOthers
  <2>3. ASSUME NEW q \in Procs, q # p PROVE SoleOK(q)'
    <3>1. /\ at'[q] = at[q] /\ open'[q] = open[q] /\ todo'[q] = todo[q] /\ fetched'[q] = fetched[q]
          /\ SoleOK(q) /\ (entry # None => entry' # None)
      BY <1>2, <2>1, <2>3, StepOfOne, EntryIsKept DEF IInv, Sole
    <3>2. CASE UNCHANGED dirVars
      BY <3>1, <3>2 DEF SoleOK, dirVars
    <3>3. CASE ~UNCHANGED dirVars
      <4>1. at[q] \notin Using
        BY <1>2, <2>1, <2>3, <3>3, OnlyUsersChange DEF IInv, OneUser, Clean, RemoveStart
      <4> QED
        BY <3>1, <4>1 DEF SoleOK, Using
    <3> QED
      BY <3>2, <3>3
  <2> QED
    BY <2>2, <2>3
<1> QED
  BY <1>1, <1>2, StepCases

\* Not even overlapping, a run finds no entry in its way that was not there at its look.
LEMMA AloneStep ==
    ASSUME IInv, NEW p \in Procs, Removes(p) \/ Writes(p) \/ Others(p), ~overlap, ~overlap'
    PROVE  AloneOK(p)'
<1> USE DEF IInv, TypeOK, Alone, AloneOK, Go, dirVars, history, Running, Using
<1>1. ~shared
  BY DEF OneUser
<1>2. CASE Clean(p) \/ Drop(p)
  BY <1>2 DEF Clean, Drop, RemoveStart
<1>3. CASE Cleaning(p) \/ Dropping(p)
  <2>1. content[staging] = todo[p]
    BY <1>1, <1>3 DEF Sole, SoleOK, Cleaning, Dropping, RemoveFile, RemoveEnd
  <2> QED
    BY <1>3, <2>1 DEF Cleaning, Dropping, RemoveFile, RemoveEnd, Removable
<1>4. CASE Writes(p)
  <2>1. at[p] = "fetch" => staging # None /\ open[p] \in {None, staging}
    BY <1>1 DEF Sole, SoleOK
  <2> QED
    BY <1>4, <2>1 DEF Writes, WriteByPath, WriteByHandle, WriteInto, Linked
<1>5. CASE Start(p) \/ Look(p) \/ Crash(p) \/ FetchFails(p) \/ Make(p) \/ CheckEntry(p)
  BY <1>5 DEF Start, Look, Crash, FetchFails, Make, CheckEntry
<1>6. CASE OpenRoot(p)
  <2>1. staging # None
    BY <1>1, <1>6 DEF Sole, SoleOK, OpenRoot
  <2> QED
    BY <1>6, <2>1 DEF OpenRoot
<1>7. CASE Rename(p)
  <2>1. staging # None /\ entry = None
    BY <1>1, <1>7 DEF Sole, SoleOK, Rename
  <2> QED
    BY <1>7, <2>1, CacheAssumption DEF Rename, Replaceable
<1> QED
  BY <1>2, <1>3, <1>4, <1>5, <1>6, <1>7 DEF Removes, Others

\* Runs that do not overlap keep what each relies on (EnsureCookbook).
LEMMA StepAlone == IInv /\ [Next]_vars => Alone'
<1> SUFFICES ASSUME IInv, [Next]_vars, ~overlap' PROVE \A q \in Procs : AloneOK(q)'
  BY DEF Alone
<1>1. CASE UNCHANGED vars
  BY <1>1 DEF vars, IInv, Alone, AloneOK
<1>2. ASSUME NEW p \in Procs, Removes(p) \/ Writes(p) \/ Others(p)
      PROVE  \A q \in Procs : AloneOK(q)'
  <2>1. ~overlap
    BY <1>2, HistoryStays DEF IInv
  <2>2. AloneOK(p)'
    BY <1>2, <2>1, AloneStep
  <2>3. ASSUME NEW q \in Procs, q # p PROVE AloneOK(q)'
    <3>1. at[q] \notin Running
      <4>1. at[p] \in Running \/ Start(p)
        BY <1>2 DEF Removes, Writes, Others, Look, Clean, Cleaning, Drop, Dropping, RemoveStart,
                    RemoveFile, RemoveEnd, Make, OpenRoot, WriteByPath, WriteByHandle, FetchFails,
                    CheckEntry, Rename, Crash, Go, Running, Using
      <4> QED
        BY <4>1, <2>1, <2>3 DEF IInv, OneAtATime, Start
    <3>2. at'[q] = at[q] /\ fetched'[q] = fetched[q]
      BY <1>2, <2>3, StepOfOne DEF IInv
    <3> QED
      BY <2>1, <3>1, <3>2 DEF IInv, Alone, AloneOK, Running, Using
  <2> QED
    BY <2>2, <2>3
<1> QED
  BY <1>1, <1>2, StepCases

\* The inductive invariant holds (EnsureCookbook).
THEOREM CacheInvariant == Spec => []IInv
<1>1. IInv /\ [Next]_vars => IInv'
  BY StepTypeOK, StepOneAtATime, StepOneUser, StepSole, StepAlone DEF IInv
<1> QED
  BY InitIInv, <1>1, PTL DEF Spec
-----------------------------------------------------------------------------
\* The staged directory is never the entry, and handles are closed when they should be.
THEOREM TypesHold == Spec => []TypeOK
<1>1. IInv => TypeOK
  BY DEF IInv
<1> QED
  BY CacheInvariant, <1>1, PTL

\* Runs one after the other leave a complete entry or none, whatever failed or died.
THEOREM CompleteHolds == Spec => []CompleteOneByOne
<1>1. IInv => CompleteOneByOne
  BY DEF IInv, OneUser, Sole, CompleteOneByOne
<1> QED
  BY CacheInvariant, <1>1, PTL

\* What an earlier run left never makes a later one fail (os.RemoveAll in EnsureCookbook).
THEOREM FailsHolds == Spec => []FailsOnlyOnFetch
<1>1. IInv => FailsOnlyOnFetch
  BY DEF IInv, Alone, AloneOK, FailsOnlyOnFetch
<1> QED
  BY CacheInvariant, <1>1, PTL

\* Runs that look early and fetch late do no harm while they do not share the staging
\* directory: the entry they return is whole, and nothing else makes them fail.
THEOREM LateRunsHold == Spec => []LateRunsDoNoHarm
<1>1. IInv => LateRunsDoNoHarm
  BY DEF IInv, Sole, SoleOK, LateRunsDoNoHarm
<1> QED
  BY CacheInvariant, <1>1, PTL

\* EnsureCookbook: runs one after the other leave a whole entry and do not stop each other.
THEOREM NoHarmHolds == Spec => []EarlierRunsDoNoHarm
  BY TypesHold, CompleteHolds, FailsHolds, PTL DEF EarlierRunsDoNoHarm
-----------------------------------------------------------------------------
(***************************************************************************)
(* The Ruby runtime                                                        *)
(***************************************************************************)

\* Past the check, or given up after finding something in the way.
Checked == {"verify", "read", "evaluating"}
Blocked == {"stat", "aside", "again", "recheckAgain", "failed"}

\* A broken release is there from the start, and until somebody has moved it aside
\* nobody has got past a check.
BrokenIsOld ==
    release = "broken" =>
        /\ start = "broken"
        /\ \A p \in Processes : phase[p] \notin Checked \cup {"again", "recheckAgain"}

\* In a cache that was not broken nobody moves anything aside, and whoever finds
\* the place taken finds it taken by a usable release.
CleanStays ==
    start # "broken" => \A p \in Processes :
        /\ phase[p] \notin Blocked
        /\ phase[p] \in Checked \cup {"occupied"} => Usable

\* A release that is gone was moved aside by a process about to replace it.
GapIsClosing ==
    release = "absent" =>
        \/ \E p \in Processes : phase[p] \in {"again", "crashed"}
        \/ \A p \in Processes : phase[p] \notin Checked

\* The inductive invariant.
RuntimeIInv == RuntimeTypeOK /\ BrokenIsOld /\ CleanStays /\ GapIsClosing

-----------------------------------------------------------------------------
\* The first process finds one of the three releases (ensureRuntimeFrom).
LEMMA RuntimeInitIInv == RuntimeInit => RuntimeIInv
<1> SUFFICES ASSUME RuntimeInit PROVE RuntimeIInv
  OBVIOUS
<1>1. RuntimeTypeOK
  BY StartsAssumption DEF RuntimeInit, RuntimeTypeOK, RuntimeRunning
<1> QED
  BY <1>1 DEF RuntimeInit, RuntimeIInv, BrokenIsOld, CleanStays, GapIsClosing, Checked, Blocked

\* Where a step of process p leads to, and what it does to the release: only a
\* rename changes it, and none makes it a broken one (moveIntoPlace).
Quiet(p) ==
    \/ LookUp(p) \/ Download(p) \/ Recheck(p) \/ Occupied(p) \/ Stat(p) \/ RecheckAgain(p)
    \/ Verify(p) \/ Read(p) \/ ProcessCrash(p)

\* A step of a process keeps it at a step of the code, and the release one of three.
LEMMA StepRuntimeTypeOK == RuntimeTypeOK /\ [RuntimeNext]_runtimeVars => RuntimeTypeOK'
<1> SUFFICES ASSUME RuntimeTypeOK, [RuntimeNext]_runtimeVars PROVE RuntimeTypeOK'
  OBVIOUS
<1> USE DEF RuntimeTypeOK, Advance, Keep, RuntimeRunning, RuntimeEnded
<1>1. CASE UNCHANGED runtimeVars
  BY <1>1 DEF runtimeVars
<1>2. ASSUME NEW p \in Processes, LookUp(p) \/ Download(p) \/ Recheck(p) \/ Occupied(p)
      PROVE RuntimeTypeOK'
  BY <1>2 DEF LookUp, Download, Recheck, Occupied
<1>3. ASSUME NEW p \in Processes, Stat(p) \/ RecheckAgain(p) \/ Verify(p) \/ Read(p) \/ ProcessCrash(p)
      PROVE RuntimeTypeOK'
  BY <1>3 DEF Stat, RecheckAgain, Verify, Read, ProcessCrash
<1>4. ASSUME NEW p \in Processes, MoveIn(p) \/ RenameAgain(p) \/ MoveAside(p) PROVE RuntimeTypeOK'
  BY <1>4 DEF MoveIn, RenameAgain, MoveAside, PutInPlace, Releases
<1> QED
  BY <1>1, <1>2, <1>3, <1>4 DEF RuntimeNext

\* Nobody gets past a check while the release is broken (usable).
LEMMA StepBrokenIsOld == RuntimeTypeOK /\ BrokenIsOld /\ [RuntimeNext]_runtimeVars => BrokenIsOld'
<1> SUFFICES ASSUME RuntimeTypeOK, BrokenIsOld, [RuntimeNext]_runtimeVars PROVE BrokenIsOld'
  OBVIOUS
<1> USE DEF RuntimeTypeOK, BrokenIsOld, Checked, Advance, Keep, Usable
<1>1. CASE UNCHANGED runtimeVars
  BY <1>1 DEF runtimeVars
<1>2. ASSUME NEW p \in Processes, Quiet(p) PROVE BrokenIsOld'
  BY <1>2 DEF Quiet, LookUp, Download, Recheck, Occupied, Stat, RecheckAgain, Verify, Read, ProcessCrash
<1>3. ASSUME NEW p \in Processes, MoveIn(p) \/ RenameAgain(p) \/ MoveAside(p) PROVE BrokenIsOld'
  BY <1>3 DEF MoveIn, RenameAgain, MoveAside, PutInPlace
<1> QED
  BY <1>1, <1>2, <1>3 DEF RuntimeNext, Quiet

\* Without a broken release in the way no process goes further than finding the
\* place taken by a usable one (moveIntoPlace).
LEMMA StepCleanStays == RuntimeIInv /\ [RuntimeNext]_runtimeVars => CleanStays'
<1> SUFFICES ASSUME RuntimeIInv, [RuntimeNext]_runtimeVars, start # "broken" PROVE CleanStays'
  BY DEF RuntimeIInv, RuntimeTypeOK, RuntimeNext, runtimeVars, LookUp, Download, Recheck, MoveIn, Occupied, Stat, MoveAside,
         RenameAgain, RecheckAgain, Verify, Read, ProcessCrash, PutInPlace, Keep, CleanStays
<1>1. release \in {"absent", "usable"}
  BY DEF RuntimeIInv, RuntimeTypeOK, Releases, BrokenIsOld
<1> USE DEF RuntimeIInv, RuntimeTypeOK, CleanStays, Checked, Blocked, Advance, Keep, Usable
<1>2. CASE UNCHANGED runtimeVars
  BY <1>2 DEF runtimeVars
<1>3. ASSUME NEW p \in Processes, Quiet(p) PROVE CleanStays'
  BY <1>1, <1>3
  DEF Quiet, LookUp, Download, Recheck, Occupied, Stat, RecheckAgain, Verify, Read, ProcessCrash
<1>4. ASSUME NEW p \in Processes, MoveIn(p) \/ RenameAgain(p) \/ MoveAside(p) PROVE CleanStays'
  BY <1>1, <1>4 DEF MoveIn, RenameAgain, MoveAside, PutInPlace
<1> QED
  BY <1>2, <1>3, <1>4 DEF RuntimeNext, Quiet

\* Whoever moves a release aside puts one in its place, or crashes (moveIntoPlace).
LEMMA StepGapIsClosing == RuntimeIInv /\ [RuntimeNext]_runtimeVars => GapIsClosing'
<1> SUFFICES ASSUME RuntimeIInv, [RuntimeNext]_runtimeVars PROVE GapIsClosing'
  OBVIOUS
<1> USE DEF RuntimeIInv, RuntimeTypeOK, GapIsClosing, Checked, Advance, Keep, Usable
<1>1. CASE UNCHANGED runtimeVars
  BY <1>1 DEF runtimeVars
<1>2. ASSUME NEW p \in Processes, Quiet(p) PROVE GapIsClosing'
  BY <1>2 DEF Quiet, LookUp, Download, Recheck, Occupied, Stat, RecheckAgain, Verify, Read, ProcessCrash,
              RuntimeRunning
<1>3. ASSUME NEW p \in Processes, MoveIn(p) \/ RenameAgain(p) PROVE GapIsClosing'
  BY <1>3 DEF MoveIn, RenameAgain, PutInPlace, Releases
<1>4. ASSUME NEW p \in Processes, MoveAside(p) PROVE GapIsClosing'
  BY <1>4 DEF MoveAside
<1> QED
  BY <1>1, <1>2, <1>3, <1>4 DEF RuntimeNext, Quiet

\* The inductive invariant holds (ensureRuntimeFrom, materializeFrom, moveIntoPlace).
THEOREM RuntimeInvariant == RuntimeSpec => []RuntimeIInv
<1>1. RuntimeIInv /\ [RuntimeNext]_runtimeVars => RuntimeIInv'
  BY StepRuntimeTypeOK, StepBrokenIsOld, StepCleanStays, StepGapIsClosing DEF RuntimeIInv
<1> QED
  BY RuntimeInitIInv, <1>1, PTL DEF RuntimeSpec

-----------------------------------------------------------------------------
\* Every process is at a step of the code and the cache in one of three states.
THEOREM RuntimeTypesHold == RuntimeSpec => []RuntimeTypeOK
<1>1. RuntimeIInv => RuntimeTypeOK
  BY DEF RuntimeIInv
<1> QED
  BY RuntimeInvariant, <1>1, PTL

\* Parallel first runs do not fail each other (moveIntoPlace, ensureRuntimeFrom).
THEOREM NobodyFailsHolds == RuntimeSpec => []NobodyFails
<1>1. RuntimeIInv => NobodyFails
  BY DEF RuntimeIInv, CleanStays, NobodyFails, Blocked
<1> QED
  BY RuntimeInvariant, <1>1, PTL

\* A usable release is left for the next run, from a broken cache too.
THEOREM SurvivalHolds == RuntimeSpec => []OneReleaseSurvives
<1>1. RuntimeIInv => OneReleaseSurvives
  <2> SUFFICES ASSUME RuntimeIInv, NobodyRuns, NEW p \in Processes, phase[p] = "evaluating" PROVE Usable
    BY DEF OneReleaseSurvives
  <2>1. release # "broken"
    BY DEF RuntimeIInv, BrokenIsOld, Checked
  <2>2. release # "absent"
    BY DEF RuntimeIInv, GapIsClosing, Checked, NobodyRuns, RuntimeEnded
  <2> QED
    BY <2>1, <2>2 DEF RuntimeIInv, RuntimeTypeOK, Releases, Usable
<1> QED
  BY RuntimeInvariant, <1>1, PTL

\* No process runs a module whose checksum is wrong (prepare).
THEOREM RunsVerifiedHolds == RuntimeSpec => RunsVerified
<1> DEFINE Verified(p) == phase[p] # "evaluating" /\ phase'[p] = "evaluating" => Usable
<1>1. RuntimeIInv /\ [RuntimeNext]_runtimeVars => [\A p \in Processes : Verified(p)]_runtimeVars
  <2> SUFFICES ASSUME RuntimeIInv, RuntimeNext, NEW p \in Processes, phase[p] # "evaluating", phase'[p] = "evaluating"
               PROVE  Usable
    OBVIOUS
  <2>1. PICK q \in Processes : Quiet(q) \/ MoveIn(q) \/ RenameAgain(q) \/ MoveAside(q)
    BY DEF RuntimeNext, Quiet
  <2>2. Read(q)
    BY <2>1 DEF RuntimeIInv, RuntimeTypeOK, Quiet, LookUp, Download, Recheck, Occupied, Stat, RecheckAgain, Verify,
                ProcessCrash, MoveIn, RenameAgain, MoveAside, PutInPlace, Advance
  <2>3. phase[q] = "read" /\ release # "absent"
    BY <2>2 DEF RuntimeIInv, RuntimeTypeOK, Read, Advance
  <2> QED
    BY <2>3 DEF RuntimeIInv, RuntimeTypeOK, Releases, BrokenIsOld, Checked, Usable
<1> QED
  BY RuntimeInvariant, <1>1, PTL DEF RuntimeSpec, RunsVerified, Verified

\* A release in place stays, unless the cache was broken before (moveIntoPlace).
THEOREM ReleaseStaysHolds == RuntimeSpec => ReleaseStays
<1> DEFINE Stays == start # "broken" /\ Usable => release' = "usable"
<1>1. RuntimeIInv /\ [RuntimeNext]_runtimeVars => [Stays]_runtimeVars
  <2> SUFFICES ASSUME RuntimeIInv, RuntimeNext, start # "broken", Usable PROVE release' = "usable"
    OBVIOUS
  <2>1. PICK q \in Processes : Quiet(q) \/ MoveIn(q) \/ RenameAgain(q) \/ MoveAside(q)
    BY DEF RuntimeNext, Quiet
  <2>2. ~MoveAside(q)
    BY DEF RuntimeIInv, CleanStays, Blocked, MoveAside, Advance
  <2> QED
    BY <2>1, <2>2 DEF Quiet, LookUp, Download, Recheck, Occupied, Stat, RecheckAgain, Verify, Read,
                      ProcessCrash, MoveIn, RenameAgain, PutInPlace, Keep, Usable
<1> QED
  BY RuntimeInvariant, <1>1, PTL DEF RuntimeSpec, ReleaseStays, Stays

\* moveIntoPlace: parallel first runs do not fail each other and leave a usable release.
THEOREM ParallelRunsHold == RuntimeSpec => []ParallelRunsGetAlong
  BY RuntimeTypesHold, NobodyFailsHolds, SurvivalHolds, PTL DEF ParallelRunsGetAlong
-----------------------------------------------------------------------------
(***************************************************************************)
(* The remote command pool                                                 *)
(***************************************************************************)

AnyFailed == \E i \in Hosts : results[i] = "failed"

\* What ties the feeder to the workers.
Feeding ==
    /\ \A w \in Workers : Busy(w) => job[w] \in Hosts
    /\ \A i \in Hosts : results[i] # "none" => i < next
    /\ main # "feeding" => next = N + 1
    /\ main = "returned" => \A w \in Workers : doing[w] = "exited"

\* What ties the stop flag to the results.
Stopping ==
    /\ stop => exitOnError /\ AnyFailed
    /\ \A w \in Workers : doing[w] = "failing" => exitOnError /\ AnyFailed

\* The inductive invariant.
PoolIInv == PoolTypeOK /\ OneWorkerPerHost /\ Feeding /\ Stopping /\ SkipsFollowFailure

-----------------------------------------------------------------------------
(* The number of workers                                                   *)

\* RunMany starts at least one worker, and Limit of them.
LEMMA LimitType ==
    /\ Limit \in Nat \ {0}
    /\ IsFiniteSet(Workers)
    /\ Cardinality(Workers) = Limit
<1>1. Limit \in Nat \ {0}
  BY PoolAssumption DEF Limit
<1> QED
  BY <1>1, FS_Interval DEF Workers

-----------------------------------------------------------------------------
(* The inductive invariant holds                                           *)

\* Nothing is handed out when RunMany starts.
LEMMA PoolInitIInv == PoolInit => PoolIInv
<1> SUFFICES ASSUME PoolInit PROVE PoolIInv
  OBVIOUS
<1>1. N + 1 \in Nat /\ next \in 1..(N + 1) /\ 0 \in 0..N
  BY PoolAssumption DEF PoolInit
<1>2. doing \in [Workers -> {"idle", "taken", "running", "failing", "exited"}]
  BY DEF PoolInit
<1>3. job \in [Workers -> 0..N]
  BY <1>1 DEF PoolInit
<1>4. results \in [Hosts -> {"none", "ok", "failed", "skipped"}]
  BY DEF PoolInit
<1>5. PoolTypeOK
  BY <1>1, <1>2, <1>3, <1>4 DEF PoolInit, PoolTypeOK
<1> QED
  BY <1>5, PoolAssumption
  DEF PoolInit, PoolIInv, OneWorkerPerHost, Feeding, Stopping, SkipsFollowFailure, Busy, Hosts

\* Every step of a goroutine keeps the types of what it shares (RunMany).
LEMMA StepPoolTypeOK == PoolTypeOK /\ OneWorkerPerHost /\ Feeding /\ [PoolNext]_poolVars => PoolTypeOK'
<1> SUFFICES ASSUME PoolTypeOK, Feeding, [PoolNext]_poolVars PROVE PoolTypeOK'
  OBVIOUS
<1> USE PoolAssumption DEF PoolTypeOK, Hosts
<1>1. CASE Close \/ Return \/ Cancel \/ Done \/ UNCHANGED poolVars
  BY <1>1 DEF Close, Return, Cancel, Done, poolVars
<1>2. ASSUME NEW w \in Workers, Hand(w) PROVE PoolTypeOK'
  BY <1>2 DEF Hand
<1>3. ASSUME NEW w \in Workers, Skip(w) PROVE PoolTypeOK'
  BY <1>3 DEF Skip
<1>4. ASSUME NEW w \in Workers, Launch(w) \/ Stop(w) \/ Exit(w) PROVE PoolTypeOK'
  BY <1>4 DEF Launch, Stop, Exit
<1>5. ASSUME NEW w \in Workers, NEW o \in {"ok", "failed"}, Finish(w, o) PROVE PoolTypeOK'
  BY <1>5 DEF Finish
<1> QED
  BY <1>1, <1>2, <1>3, <1>4, <1>5 DEF PoolNext, PoolStep, SessionEnd

\* A host goes to one worker, which alone gives it its one result (RunMany).
LEMMA StepOneWorker == PoolTypeOK /\ OneWorkerPerHost /\ Feeding /\ [PoolNext]_poolVars => OneWorkerPerHost'
<1> SUFFICES ASSUME PoolTypeOK, OneWorkerPerHost, Feeding, [PoolNext]_poolVars PROVE OneWorkerPerHost'
  OBVIOUS
<1> USE PoolAssumption DEF PoolTypeOK, OneWorkerPerHost, Feeding, Busy, Hosts
<1>1. CASE Close \/ Return \/ Cancel \/ Done \/ UNCHANGED poolVars
  BY <1>1 DEF Close, Return, Cancel, Done, poolVars
<1>2. ASSUME NEW w \in Workers, Hand(w) PROVE OneWorkerPerHost'
  <2>1. next \in Hosts /\ ~\E v \in Workers : Busy(v) /\ job[v] = next
    BY <1>2 DEF Hand
  <2>2. \A v \in Workers : Busy(v)' <=> Busy(v) \/ v = w
    BY <1>2 DEF Hand
  <2>3. \A v \in Workers : job'[v] = IF v = w THEN next ELSE job[v]
    BY <1>2 DEF Hand
  <2>4. results' = results /\ next' = next + 1 /\ ~Busy(w)
    BY <1>2 DEF Hand
  <2>5. results[next] = "none"
    BY <2>1 DEF Hand
  <2>6. ASSUME NEW i \in Hosts, NEW u \in Workers, NEW v \in Workers,
               Busy(u)', Busy(v)', job'[u] = i, job'[v] = i
        PROVE  u = v
    BY <2>1, <2>2, <2>3, <2>6
  <2>7. ASSUME NEW i \in Hosts
        PROVE  (i < next' /\ results'[i] = "none") <=> \E v \in Workers : Busy(v)' /\ job'[v] = i
    <3>1. CASE i = next
      BY <3>1, <2>2, <2>3, <2>4, <2>5
    <3>2. CASE i # next
      <4>1. i < next' <=> i < next
        BY <3>2, <2>4
      <4>2. \A v \in Workers : (Busy(v)' /\ job'[v] = i) <=> (Busy(v) /\ job[v] = i)
        BY <3>2, <2>2, <2>3, <2>4
      <4> QED
        BY <4>1, <4>2, <2>4
    <3> QED
      BY <3>1, <3>2
  <2> QED
    BY <2>6, <2>7
<1>3. ASSUME NEW w \in Workers, Skip(w) PROVE OneWorkerPerHost'
  BY <1>3 DEF Skip
<1>4. ASSUME NEW w \in Workers, Launch(w) \/ Stop(w) \/ Exit(w) PROVE OneWorkerPerHost'
  <2>1. next' = next /\ job' = job /\ results' = results
    BY <1>4 DEF Launch, Stop, Exit
  <2>2. \A v \in Workers : Busy(v)' <=> Busy(v)
    BY <1>4 DEF Launch, Stop, Exit
  <2> QED
    BY <2>1, <2>2
<1>5. ASSUME NEW w \in Workers, NEW o \in {"ok", "failed"}, Finish(w, o) PROVE OneWorkerPerHost'
  BY <1>5 DEF Finish
<1> QED
  BY <1>1, <1>2, <1>3, <1>4, <1>5 DEF PoolNext, PoolStep, SessionEnd

\* A worker ends only when the feeder is done, RunMany when all workers are.
LEMMA StepFeeding == PoolTypeOK /\ OneWorkerPerHost /\ Feeding /\ [PoolNext]_poolVars => Feeding'
<1> SUFFICES ASSUME PoolTypeOK, OneWorkerPerHost, Feeding, [PoolNext]_poolVars PROVE Feeding'
  OBVIOUS
<1> USE PoolAssumption DEF PoolTypeOK, Feeding, Busy, Hosts
<1>1. CASE Close \/ Return \/ Cancel \/ Done \/ UNCHANGED poolVars
  BY <1>1 DEF Close, Return, Cancel, Done, poolVars
<1>2. ASSUME NEW w \in Workers, Hand(w) PROVE Feeding'
  BY <1>2 DEF Hand
<1>3. ASSUME NEW w \in Workers, Skip(w) PROVE Feeding'
  BY <1>3 DEF Skip, OneWorkerPerHost
<1>4. ASSUME NEW w \in Workers, Launch(w) \/ Stop(w) \/ Exit(w) PROVE Feeding'
  BY <1>4 DEF Launch, Stop, Exit
<1>5. ASSUME NEW w \in Workers, NEW o \in {"ok", "failed"}, Finish(w, o) PROVE Feeding'
  BY <1>5 DEF Finish, OneWorkerPerHost
<1> QED
  BY <1>1, <1>2, <1>3, <1>4, <1>5 DEF PoolNext, PoolStep, SessionEnd

\* A step writes a result only where there was none, so a failure stays on record.
LEMMA ResultsAreKept ==
    ASSUME PoolTypeOK, OneWorkerPerHost, Feeding, [PoolNext]_poolVars
    PROVE  \A i \in Hosts : results[i] # "none" => results'[i] = results[i]
<1> USE DEF PoolTypeOK, OneWorkerPerHost, Feeding, Busy
<1>1. CASE UNCHANGED results
  BY <1>1
<1>2. ASSUME NEW w \in Workers, Skip(w)
      PROVE  \A i \in Hosts : results[i] # "none" => results'[i] = results[i]
  BY <1>2 DEF Skip
<1>3. ASSUME NEW w \in Workers, NEW o \in {"ok", "failed"}, Finish(w, o)
      PROVE  \A i \in Hosts : results[i] # "none" => results'[i] = results[i]
  BY <1>3 DEF Finish
<1> QED
  BY <1>1, <1>2, <1>3
  DEF PoolNext, PoolStep, SessionEnd, Close, Return, Cancel, Done, Hand, Launch, Stop, Exit, poolVars

\* The flag goes up for a failure under --exit-on-error, and only then is a host skipped.
LEMMA StepStopping == PoolIInv /\ [PoolNext]_poolVars => Stopping' /\ SkipsFollowFailure'
<1> SUFFICES ASSUME PoolIInv, [PoolNext]_poolVars PROVE Stopping' /\ SkipsFollowFailure'
  OBVIOUS
<1>1. AnyFailed => AnyFailed'
  BY ResultsAreKept DEF PoolIInv, AnyFailed, Hosts
<1>2. exitOnError' = exitOnError /\ (cancelled => cancelled')
  BY DEF PoolNext, PoolStep, SessionEnd, Close, Return, Cancel, Done, Hand, Skip, Launch, Finish,
         Stop, Exit, poolVars
<1> USE DEF PoolIInv, PoolTypeOK, Stopping, SkipsFollowFailure
<1>3. CASE Close \/ Return \/ Cancel \/ Done \/ UNCHANGED poolVars
  BY <1>1, <1>2, <1>3 DEF Close, Return, Cancel, Done, poolVars
<1>4. ASSUME NEW w \in Workers, Hand(w) \/ Launch(w) \/ Stop(w) \/ Exit(w)
      PROVE  Stopping' /\ SkipsFollowFailure'
  BY <1>1, <1>2, <1>4 DEF Hand, Launch, Stop, Exit
<1>5. ASSUME NEW w \in Workers, Skip(w) PROVE Stopping' /\ SkipsFollowFailure'
  BY <1>1, <1>2, <1>5 DEF Skip, AnyFailed
<1>6. ASSUME NEW w \in Workers, NEW o \in {"ok", "failed"}, Finish(w, o)
      PROVE  Stopping' /\ SkipsFollowFailure'
  <2>1. job[w] \in Hosts
    BY <1>6 DEF Finish, Feeding, Busy
  <2>2. results'[job[w]] = o
    BY <2>1, <1>6 DEF Finish
  <2>3. o = "failed" => AnyFailed'
    BY <2>1, <2>2 DEF AnyFailed, Hosts
  <2>4. Stopping'
    BY <1>1, <1>2, <1>6, <2>3 DEF Finish
  <2>5. \A i \in Hosts : results'[i] = "skipped" => results[i] = "skipped"
    BY <1>6, <2>1 DEF Finish
  <2> QED
    BY <2>4, <2>5, <1>1, <1>2 DEF AnyFailed, Hosts
<1> QED
  BY <1>3, <1>4, <1>5, <1>6 DEF PoolNext, PoolStep, SessionEnd

\* The inductive invariant holds throughout RunMany.
THEOREM PoolInvariant == PoolSpec => []PoolIInv
<1>1. PoolIInv /\ [PoolNext]_poolVars => PoolIInv'
  BY StepPoolTypeOK, StepOneWorker, StepFeeding, StepStopping DEF PoolIInv
<1> QED
  BY PoolInitIInv, <1>1, PTL DEF PoolSpec

\* RunMany's shared variables keep their types.
THEOREM PoolTypesHold == PoolSpec => []PoolTypeOK
<1>1. PoolIInv => PoolTypeOK
  BY DEF PoolIInv
<1> QED
  BY PoolInvariant, <1>1, PTL

\* No host is run twice and no result is written twice, however the workers interleave.
THEOREM OneWorkerHolds == PoolSpec => []OneWorkerPerHost
<1>1. PoolIInv => OneWorkerPerHost
  BY DEF PoolIInv
<1> QED
  BY PoolInvariant, <1>1, PTL

\* When RunMany returns, every host has its result.
THEOREM ResultsHold == PoolSpec => []ResultsComplete
<1>1. PoolIInv => ResultsComplete
  <2> SUFFICES ASSUME PoolIInv, main = "returned", NEW i \in Hosts PROVE results[i] # "none"
    BY DEF ResultsComplete
  <2>1. i < next /\ ~\E w \in Workers : Busy(w)
    BY PoolAssumption DEF PoolIInv, Feeding, Busy, Hosts
  <2> QED
    BY <2>1 DEF PoolIInv, OneWorkerPerHost
<1> QED
  BY PoolInvariant, <1>1, PTL

\* A skipped host is explained by a failed one, or by a cancelled context.
THEOREM SkipsHold == PoolSpec => []SkipsFollowFailure
<1>1. PoolIInv => SkipsFollowFailure
  BY DEF PoolIInv
<1> QED
  BY PoolInvariant, <1>1, PTL

-----------------------------------------------------------------------------
(* The pool implements the fan-out                                         *)

RunningHosts == {i \in Hosts : state[i] = "running"}
RunningWorkers == {w \in Workers : doing[w] = "running"}

\* Never more hosts run than workers, one less when a worker is still to launch.
LEMMA RunningBound ==
    ASSUME PoolTypeOK, Feeding, NEW w \in Workers, doing[w] # "running"
    PROVE  Cardinality(RunningHosts) < Limit
<1> DEFINE RestOfThem == Workers \ {w}
           f == [v \in RunningWorkers |-> job[v]]
<1>1. IsFiniteSet(RestOfThem) /\ Cardinality(RestOfThem) = Limit - 1
  BY LimitType, FS_RemoveElement
<1>2. RunningWorkers \in SUBSET RestOfThem
  BY DEF RunningWorkers
<1>3. IsFiniteSet(RunningWorkers) /\ Cardinality(RunningWorkers) <= Limit - 1
  <2> HIDE DEF RestOfThem
  <2> QED
    BY <1>1, <1>2, FS_Subset
<1>4. \A i \in RunningHosts : \E v \in RunningWorkers : job[v] = i
  BY DEF RunningHosts, RunningWorkers, state, HostState, PoolTypeOK
<1>5. PICK T : T = {i \in Hosts : \E v \in RunningWorkers : job[v] = i}
  OBVIOUS
<1>6. f \in Surjection(RunningWorkers, T)
  BY <1>5 DEF Surjection, RunningWorkers, Feeding, Busy
<1>7. IsFiniteSet(T) /\ Cardinality(T) <= Cardinality(RunningWorkers)
  BY <1>3, <1>6, FS_Surjection
<1>8. RunningHosts \in SUBSET T
  BY <1>4, <1>5 DEF RunningHosts
<1>9. IsFiniteSet(RunningHosts) /\ Cardinality(RunningHosts) <= Cardinality(T)
  BY <1>7, <1>8, FS_Subset
<1> QED
  BY <1>3, <1>7, <1>9, LimitType, FS_CardinalityType

\* Before anything is handed out every host waits.
LEMMA FanInit == PoolInit => Fan!Init
  BY DEF PoolInit, Fan!Init, state, HostState, Hosts

\* A step that changes no result and no running session is none of the fan-out's.
LEMMA Unseen ==
    ASSUME PoolTypeOK, results' = results,
           \A v \in Workers : doing'[v] = "running" <=> doing[v] = "running",
           \A v \in Workers : doing[v] = "running" => job'[v] = job[v]
    PROVE  state' = state
  BY DEF state, HostState

\* FanOut counts with the same Cardinality.
LEMMA SameCardinality == \A S : Fan!Cardinality(S) = Cardinality(S)
  BY DEF Fan!Cardinality, Cardinality

\* A worker that passes the flag starts its host (remote.go: runner.Run is called).
LEMMA LaunchStarts ==
    ASSUME PoolIInv, NEW w \in Workers, Launch(w)
    PROVE  Fan!Start(job[w])
<1> DEFINE h == job[w]
<1> USE DEF PoolIInv
<1>1. h \in Hosts /\ results[h] = "none"
  BY DEF Launch, Feeding, OneWorkerPerHost, Busy
<1>2. \A v \in Workers : doing[v] = "running" => job[v] # h
  BY <1>1 DEF Launch, OneWorkerPerHost, Busy
<1>3. state[h] = "waiting"
  BY <1>1, <1>2 DEF state, HostState
<1>4. Cardinality(RunningHosts) < Limit
  BY RunningBound DEF Launch
<1>5. \A v \in Workers : doing'[v] = "running" <=> doing[v] = "running" \/ v = w
  BY DEF Launch, PoolTypeOK
<1>6. job' = job /\ results' = results
  BY DEF Launch
<1>7. \A i \in Hosts : HostState(i)' = IF i = h THEN "running" ELSE HostState(i)
  BY <1>1, <1>5, <1>6 DEF HostState
<1>8. state' = [state EXCEPT ![h] = "running"]
  BY <1>7 DEF state
<1>9. Cardinality({g \in Hosts : state[g] = "running"}) < Limit
  BY <1>4 DEF RunningHosts
<1>10. UNCHANGED <<exitOnError, cancelled>>
  BY DEF Launch
<1> QED
  BY <1>3, <1>8, <1>9, <1>10, SameCardinality DEF Fan!Start

\* A worker that sees the flag or the context skips its host, with cause.
LEMMA SkipSkips ==
    ASSUME PoolIInv, NEW w \in Workers, Skip(w)
    PROVE  Fan!Skip(job[w])
<1> DEFINE h == job[w]
<1> USE DEF PoolIInv
<1>1. h \in Hosts /\ results[h] = "none"
  BY DEF Skip, Feeding, OneWorkerPerHost, Busy
<1>2. \A v \in Workers : doing[v] = "running" => job[v] # h
  BY <1>1 DEF Skip, OneWorkerPerHost, Busy
<1>3. state[h] = "waiting"
  BY <1>1, <1>2 DEF state, HostState
<1>4. stop => \E i \in Hosts : state[i] = "failed"
  BY DEF Stopping, AnyFailed, state, HostState
<1>5. Fan!MaySkip
  BY <1>4 DEF Skip, Stopping, Fan!MaySkip, Fan!Failed
<1>6. \A v \in Workers : doing'[v] = "running" <=> doing[v] = "running"
  BY DEF Skip, PoolTypeOK
<1>7. \A i \in Hosts : results'[i] = IF i = h THEN "skipped" ELSE results[i]
  BY <1>1 DEF Skip, PoolTypeOK
<1>8. \A i \in Hosts : HostState(i)' = IF i = h THEN "skipped" ELSE HostState(i)
  BY <1>6, <1>7 DEF HostState, Skip
<1>9. state' = [state EXCEPT ![h] = "skipped"]
  BY <1>8 DEF state
<1> QED
  BY <1>1, <1>3, <1>5, <1>9 DEF Fan!Skip, Skip

\* A session that returns ends its host with the session's own outcome.
LEMMA FinishEnds ==
    ASSUME PoolIInv, NEW w \in Workers, NEW o \in {"ok", "failed"}, Finish(w, o)
    PROVE  Fan!End(job[w], o)
<1> DEFINE h == job[w]
<1> USE DEF PoolIInv
<1>1. h \in Hosts /\ results[h] = "none"
  BY DEF Finish, Feeding, OneWorkerPerHost, Busy
<1>2. state[h] = "running"
  BY <1>1 DEF state, HostState, Finish
<1>3. \A v \in Workers : doing'[v] = "running" <=> doing[v] = "running" /\ v # w
  BY DEF Finish, PoolTypeOK
<1>4. \A i \in Hosts : results'[i] = IF i = h THEN o ELSE results[i]
  BY <1>1 DEF Finish, PoolTypeOK
<1>5. job' = job
  BY DEF Finish
<1>6. \A i \in Hosts : HostState(i)' = IF i = h THEN o ELSE HostState(i)
  BY <1>3, <1>4, <1>5 DEF HostState
<1>7. state' = [state EXCEPT ![h] = o]
  BY <1>6 DEF state
<1> QED
  BY <1>1, <1>2, <1>7 DEF Fan!End, Finish

\* Each step of RunMany is a step of the fan-out or invisible to it.
LEMMA FanStep == PoolIInv /\ [PoolNext]_poolVars => [Fan!Next]_(Fan!vars)
<1> SUFFICES ASSUME PoolIInv, [PoolNext]_poolVars PROVE [Fan!Next]_(Fan!vars)
  OBVIOUS
<1>1. PoolTypeOK
  BY DEF PoolIInv
<1>2. CASE Close \/ Return \/ Done \/ UNCHANGED poolVars
  <2>1. UNCHANGED <<exitOnError, cancelled, doing, job, results>>
    BY <1>2 DEF Close, Return, Done, poolVars
  <2> QED
    BY <1>1, <2>1, Unseen DEF Fan!vars
<1>3. CASE Cancel
  <2>1. state' = state
    BY <1>1, <1>3, Unseen DEF Cancel
  <2> QED
    BY <1>3, <2>1 DEF Cancel, Fan!Cancel, Fan!Next
<1>4. ASSUME NEW w \in Workers, Hand(w) \/ Stop(w) \/ Exit(w) PROVE [Fan!Next]_(Fan!vars)
  <2>1. UNCHANGED <<exitOnError, cancelled, results>>
    BY <1>4 DEF Hand, Stop, Exit
  <2>2. \A v \in Workers : doing'[v] = "running" <=> doing[v] = "running"
    BY <1>1, <1>4 DEF Hand, Stop, Exit, PoolTypeOK
  <2>3. \A v \in Workers : doing[v] = "running" => job'[v] = job[v]
    BY <1>1, <1>4 DEF Hand, Stop, Exit, PoolTypeOK
  <2> QED
    BY <1>1, <2>1, <2>2, <2>3, Unseen DEF Fan!vars
<1>5. ASSUME NEW w \in Workers, Launch(w) PROVE [Fan!Next]_(Fan!vars)
  <2>1. job[w] \in Hosts
    BY <1>5 DEF PoolIInv, Launch, Feeding, Busy
  <2> QED
    BY <1>5, <2>1, LaunchStarts DEF Fan!Next
<1>6. ASSUME NEW w \in Workers, Skip(w) PROVE [Fan!Next]_(Fan!vars)
  <2>1. job[w] \in Hosts
    BY <1>6 DEF PoolIInv, Skip, Feeding, Busy
  <2> QED
    BY <1>6, <2>1, SkipSkips DEF Fan!Next
<1>7. ASSUME NEW w \in Workers, NEW o \in {"ok", "failed"}, Finish(w, o)
      PROVE  [Fan!Next]_(Fan!vars)
  <2>1. job[w] \in Hosts
    BY <1>7 DEF PoolIInv, Finish, Feeding, Busy
  <2> QED
    BY <1>7, <2>1, FinishEnds DEF Fan!Next
<1> QED
  BY <1>2, <1>3, <1>4, <1>5, <1>6, <1>7 DEF PoolNext, PoolStep, SessionEnd

\* RunMany implements what `cinc node ssh` promises, at most Limit hosts at a time included.
THEOREM PoolImplementsFanOut == PoolSpec => ImplementsFanOut
<1>1. PoolSpec => Fan!Spec
  BY FanInit, FanStep, PoolInvariant, PTL DEF PoolSpec, Fan!Spec
<1> QED
  BY <1>1 DEF ImplementsFanOut

\* RunMany: one worker and one result for every host, and a reason for every skip.
THEOREM ResultsAreRightHolds == PoolSpec => []ResultsAreRight
  BY PoolTypesHold, OneWorkerHolds, ResultsHold, SkipsHold, PTL DEF ResultsAreRight
=============================================================================
