---------------------------- MODULE CookbookCache ----------------------------
(***************************************************************************)
(* One entry of the cookbook cache, filled by EnsureCookbook               *)
(* (src/cli/policyfile/fetch.go) for a cookbook that a lock pins.          *)
(*                                                                         *)
(* A fetch works in <entry>.partial, the same path in every process, and   *)
(* renames it to the entry when it is complete.  The paths name            *)
(* directories: a process that has one open (os.Root, os.RemoveAll) goes   *)
(* on with it when the path is renamed or removed.  A step is one system   *)
(* call on a directory or one file; a file half written counts as absent.  *)
(***************************************************************************)
EXTENDS Naturals

CONSTANTS Procs,    \* the runs of cinc, one fetch each
          Files,    \* the files of the cookbook
          Dirs,     \* directories (inodes), those nobody has any more reused
          None      \* "no directory"

ASSUME CacheAssumption == None \notin Dirs

VARIABLES entry, staging,   \* the directories the two paths name
          content,          \* content[d]: the files in directory d
          source,           \* where the lock takes the cookbook from
          at, open, todo,   \* where a process is, what it has open, what is left to do
          fetched,          \* fetched[p]: whether the download has gone well so far
          overlap,          \* history: whether two runs have been under way at a time
          shared            \* history: whether two have used the staging directory at a time

vars == <<entry, staging, content, source, at, open, todo, fetched, overlap, shared>>

\* From its first step on the staging directory to its last one a run uses it.
Using == {"cleaning", "mkdir", "openRoot", "fetch", "rename", "drop", "dropping"}
Running == {"look", "clean"} \cup Using
Ended == {"served", "failed", "crashed"}

Init ==
    /\ entry = None /\ staging = None
    /\ content = [d \in Dirs |-> {}]
    /\ source \in {"artifactserver", "git", "chef_server"}
    /\ at = [p \in Procs |-> "idle"]
    /\ open = [p \in Procs |-> None]
    /\ todo = [p \in Procs |-> {}]
    /\ fetched = [p \in Procs |-> TRUE]
    /\ overlap = FALSE /\ shared = FALSE

Go(p, from, to) == at[p] = from /\ at' = [at EXCEPT ![p] = to]
Linked == {entry, staging} \ {None}
Free == Dirs \ (Linked \cup {open[q] : q \in Procs})
dirVars == <<entry, staging, content, source>>
history == <<overlap, shared>>

Start(p) ==
    /\ Go(p, "idle", "look")
    /\ overlap' = (overlap \/ \E q \in Procs : at[q] \in Running)
    /\ UNCHANGED <<dirVars, open, todo, fetched, shared>>

\* A cache hit is a directory-exists check.
Look(p) ==
    /\ Go(p, "look", IF entry # None THEN "served" ELSE "clean")
    /\ UNCHANGED <<dirVars, open, todo, fetched, history>>

(* os.RemoveAll(staging): rmdir at once if that is enough; otherwise open   *)
(* the directory, unlink the files read from it, then rmdir by the path.    *)
Removable == \A d \in Dirs : d = staging => content[d] = {}

RemoveStart(p, from, during, after) ==
    /\ shared' = (shared \/ \E q \in Procs \ {p} : at[q] \in Using)
    /\ \/ /\ Removable
          /\ Go(p, from, after)
          /\ staging' = None
          /\ UNCHANGED <<entry, content, source, open, todo, fetched, overlap>>
       \/ /\ ~Removable
          /\ Go(p, from, during)
          /\ open' = [open EXCEPT ![p] = staging]
          /\ todo' = [todo EXCEPT ![p] = content[staging]]
          /\ UNCHANGED <<dirVars, fetched, overlap>>

RemoveFile(p, during, f) ==
    /\ at[p] = during /\ f \in todo[p]
    /\ content' = [content EXCEPT ![open[p]] = @ \ {f}]
    /\ todo' = [todo EXCEPT ![p] = @ \ {f}]
    /\ UNCHANGED <<entry, staging, source, at, open, fetched, history>>

RemoveEnd(p, during, after, onError) ==
    /\ todo[p] = {}
    /\ Go(p, during, IF Removable THEN after ELSE onError)
    /\ staging' = IF Removable THEN None ELSE staging
    /\ open' = [open EXCEPT ![p] = None]
    /\ UNCHANGED <<entry, content, source, todo, fetched, history>>

\* What an earlier run left behind goes first.
Clean(p) == RemoveStart(p, "clean", "cleaning", "mkdir")
Cleaning(p) ==
    \/ \E f \in Files : RemoveFile(p, "cleaning", f)
    \/ RemoveEnd(p, "cleaning", "mkdir", "failed")

\* os.MkdirAll(staging)
Make(p) ==
    /\ Go(p, "mkdir", "openRoot")
    /\ \/ staging # None /\ UNCHANGED <<staging, content>>
       \/ staging = None /\ \E d \in Free :
              staging' = d /\ content' = [content EXCEPT ![d] = {}]
    /\ UNCHANGED <<entry, source, open, todo, fetched, history>>

\* A tarball is unpacked through a handle on the directory (tarball.Extract); git and
\* the server's files are written by path.
OpenRoot(p) ==
    /\ at[p] = "openRoot"
    /\ IF source = "artifactserver" /\ staging = None
       THEN at' = [at EXCEPT ![p] = "drop"] /\ UNCHANGED <<open, todo>>
       ELSE /\ at' = [at EXCEPT ![p] = "fetch"]
            /\ open' = [open EXCEPT ![p] = IF source = "artifactserver" THEN staging ELSE None]
            /\ todo' = [todo EXCEPT ![p] = Files]
    /\ UNCHANGED <<dirVars, fetched, history>>

WriteInto(d, p, f) ==
    /\ content' = [content EXCEPT ![d] = @ \cup {f}]
    /\ todo' = [todo EXCEPT ![p] = @ \ {f}]
    /\ UNCHANGED <<entry, source, at, open, fetched, history>>

\* By path: copyFile makes the directory anew when it has gone.
WriteByPath(p, f) ==
    /\ at[p] = "fetch" /\ f \in todo[p] /\ open[p] = None
    /\ \/ staging # None /\ UNCHANGED staging /\ WriteInto(staging, p, f)
       \/ /\ staging = None
          /\ \E d \in Free :
                 /\ staging' = d
                 /\ content' = [content EXCEPT ![d] = {f}]
          /\ todo' = [todo EXCEPT ![p] = @ \ {f}]
          /\ UNCHANGED <<entry, source, at, open, fetched, history>>

\* By handle: nothing can be created in a directory that has been removed.
WriteByHandle(p, f) ==
    /\ at[p] = "fetch" /\ f \in todo[p] /\ open[p] # None
    /\ \/ open[p] \in Linked /\ UNCHANGED staging /\ WriteInto(open[p], p, f)
       \/ /\ open[p] \notin Linked
          /\ Go(p, "fetch", "drop")
          /\ open' = [open EXCEPT ![p] = None]
          /\ UNCHANGED <<dirVars, todo, fetched, history>>

FetchFailsQuietly(p) ==                                                   \* mutant
    /\ at[p] = "fetch" /\ todo' = [todo EXCEPT ![p] = {}]
    /\ UNCHANGED <<dirVars, at, open, fetched, history>>
\* The download, the unpacking or git fails, with some files written.
FetchFails(p) ==
    /\ todo[p] # {}
    /\ Go(p, "fetch", "drop")
    /\ open' = [open EXCEPT ![p] = None]
    /\ fetched' = [fetched EXCEPT ![p] = FALSE]
    /\ UNCHANGED <<dirVars, todo, history>>

EmptyEntryFirst(p) ==                                                     \* mutant
    /\ todo[p] = {}
    /\ Go(p, "fetch", "rename")
    /\ open' = [open EXCEPT ![p] = None]
    /\ content' = [d \in Dirs |-> IF d = entry THEN {} ELSE content[d]]
    /\ UNCHANGED <<entry, staging, source, todo, fetched, history>>
\* os.Rename refuses a destination that is a directory, looking at it first ...
CheckEntry(p) ==
    /\ todo[p] = {}
    /\ Go(p, "fetch", IF entry = None THEN "rename" ELSE "drop")
    /\ open' = [open EXCEPT ![p] = None]
    /\ UNCHANGED <<dirVars, todo, fetched, history>>

\* ... and rename(2) puts the staged directory where there is none, or an empty one.
Replaceable == \A d \in Dirs : d = entry => content[d] = {}

Rename(p) ==
    /\ \/ /\ staging # None /\ Replaceable
          /\ Go(p, "rename", "served")
          /\ entry' = staging /\ staging' = None
       \/ /\ staging = None \/ ~Replaceable
          /\ Go(p, "rename", "drop")
          /\ UNCHANGED <<entry, staging>>
    /\ UNCHANGED <<content, source, open, todo, fetched, history>>

\* After an error what was staged is removed, as far as that works.
Drop(p) == RemoveStart(p, "drop", "dropping", "failed")
Dropping(p) ==
    \/ \E f \in Files : RemoveFile(p, "dropping", f)
    \/ RemoveEnd(p, "dropping", "failed", "failed")

Crash(p) ==
    /\ at[p] \in Running
    /\ at' = [at EXCEPT ![p] = "crashed"]
    /\ open' = [open EXCEPT ![p] = None]
    /\ UNCHANGED <<dirVars, todo, fetched, history>>

Next == \E p \in Procs :
    \/ Start(p) \/ Look(p) \/ Clean(p) \/ Cleaning(p) \/ Make(p) \/ OpenRoot(p)
    \/ \E f \in Files : WriteByPath(p, f) \/ WriteByHandle(p, f)
    \/ FetchFails(p) \/ CheckEntry(p) \/ Rename(p) \/ Drop(p) \/ Dropping(p) \/ Crash(p)

Spec == Init /\ [][Next]_vars
-----------------------------------------------------------------------------
(* Properties                                                              *)

\* The two paths never name the same directory, and a process has one open only
\* while it unpacks into it or removes it.
TypeOK ==
    /\ entry \in Dirs \cup {None} /\ staging \in Dirs \cup {None}
    /\ entry = staging => entry = None
    /\ content \in [Dirs -> SUBSET Files]
    /\ source \in {"artifactserver", "git", "chef_server"}
    /\ at \in [Procs -> Running \cup Ended \cup {"idle"}]
    /\ open \in [Procs -> Dirs \cup {None}]
    /\ todo \in [Procs -> SUBSET Files]
    /\ fetched \in [Procs -> BOOLEAN]
    /\ overlap \in BOOLEAN /\ shared \in BOOLEAN
    /\ \A p \in Procs : open[p] # None => at[p] \in {"cleaning", "fetch", "dropping"}
    /\ \A p \in Procs : at[p] \in {"cleaning", "dropping"} => open[p] # None

\* The directory a hit returns contains the cookbook, all of it (EnsureCookbook: a
\* hit is a directory-exists check).
EntryComplete == entry # None => content[entry] = Files

\* So it is while the runs that fetch it come one after the other, whatever fetches
\* failed or died before.
CompleteOneByOne == ~overlap => EntryComplete

\* In the same way no failure and no crash of an earlier run makes a later one fail:
\* it fails only if its own download does.
FailsOnlyOnFetch == ~overlap => \A p \in Procs : at[p] = "failed" => ~fetched[p]

\* One after the other, runs neither leave part of a cookbook as the entry nor stop each
\* other with what they leave in the staging directory (EnsureCookbook).
EarlierRunsDoNoHarm == TypeOK /\ CompleteOneByOne /\ FailsOnlyOnFetch

\* Runs may overlap all the same: one that has looked and found no entry may go on much
\* later.  As long as no two use the staging directory at one time the entry is whole,
\* stays so for whoever was handed it, and a run whose download went well fails only when
\* another one has filled the entry meanwhile (the hit check and the rename in
\* EnsureCookbook).
LateRunsDoNoHarm ==
    ~shared =>
        /\ EntryComplete
        /\ \A p \in Procs :
               /\ at[p] = "served" => entry # None
               /\ at[p] = "failed" => ~fetched[p] \/ entry # None
=============================================================================
