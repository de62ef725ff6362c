----------------------------- MODULE Workspace -----------------------------
(***************************************************************************)
(* The files of one user who works on a policy, through `cinc policy        *)
(* create, install, export, push, push-archive, diff` and `cinc supermarket *)
(* download` (cli/policyfile: resolver, export.go, archive.go;              *)
(* apps/cinc/cmd: policy_install.go, policy_deploy.go, policylifecycle.go;  *)
(* cli/supermarket/download.go).                                            *)
(*                                                                         *)
(* Commands run one after another and read and write file after file.  In   *)
(* between the user edits the Policyfile and the cookbooks, and a write may *)
(* be cut short: the process is killed, or the disk is full.                *)
(*                                                                         *)
(* A cookbook's identifier is the fingerprint of its files, and stands for  *)
(* them: identifier 0 is no cookbook.  A file holds the identifier of the    *)
(* cookbook it came from.                                                   *)
(***************************************************************************)
EXTENDS Solver, PolicyDiff

CONSTANTS Of,          \* cookbook -> the identifiers it may have on disk
          Content,     \* identifier -> its version, dependencies and files
          Policyfiles, \* what Policyfile.rb may be edited to
          FirstPolicyfiles, \* and may be to begin with
          Scaffold,    \* what policy create makes
          Served,      \* what others have pushed to the server before
          Commands,    \* the commands the user gives
          Posed,       \* problems put to the solver directly, as solver_test.go does
          MaxCommands, MaxEdits, MaxCuts

VARIABLES
    rb,       \* Policyfile.rb
    disk,     \* the identifier of each cookbook as it is
    lockfile, \* Policyfile.lock.json
    bundle,   \* the directory of an export
    archive,  \* its .tar.gz
    tarball,  \* a downloaded cookbook's .tar.gz, and its .partial
    server,   \* artifacts, revisions and what each group has active
    solver,   \* the search of Solver
    cmd,      \* the command that runs, or ran last, with its locals
    past      \* history, and what the bounds count

files == <<rb, disk, lockfile, bundle, archive, tarball>>
vars == <<rb, disk, lockfile, bundle, archive, tarball, server, solver, cmd, past>>

Cookbooks == DOMAIN Of
Files == UNION {Content[i].files : i \in DOMAIN Content}
NoFile == 0
CutFile == -1
NoFiles == [f \in Files |-> NoFile]
Whole(id) == [f \in Files |-> IF id # 0 /\ f \in Content[id].files THEN id ELSE NoFile]

Policyfile(name, runlist, specs, includes, attrs) ==
    [name |-> name, runlist |-> runlist, specs |-> specs, includes |-> includes, attrs |-> attrs]
\* A declared cookbook: whether its source is a path, and the constraint it is declared with.
Spec1(path, con) == [path |-> path, con |-> con]
Item(cookbook, recipe) == [cookbook |-> cookbook, recipe |-> recipe]
Lock(name, runlist, locks, attrs) == [name |-> name, runlist |-> runlist, locks |-> locks, attrs |-> attrs]

NoPolicyfile == Policyfile("absent", <<>>, <<>>, FALSE, <<>>)
CutPolicyfile == Policyfile("cut", <<>>, <<>>, FALSE, <<>>)
NoLock == Lock("absent", <<>>, <<>>, <<>>)
CutLock == Lock("cut", <<>>, <<>>, <<>>)
Readable(lock) == lock \notin {NoLock, CutLock}
Pairs(lock) == {<<n, lock.locks[n].id>> : n \in DOMAIN lock.locks}

NoBundle == [tree |-> <<>>, policies |-> {}, lock |-> NoLock, client |-> "absent", half |-> {}]
CutBundle == [NoBundle EXCEPT !.client = "cut"]

Command(op, opts, arg, groups) == [op |-> op, opts |-> opts, arg |-> arg, groups |-> groups]
Resting == [at |-> "end", what |-> Command("none", {}, "", <<>>), rb |-> NoPolicyfile, left |-> {},
            loaded |-> <<>>, lock |-> NoLock, files |-> {}, from |-> 0, sends |-> <<>>, dirty |-> {}, calm |-> TRUE,
            sides |-> <<>>, diff |-> {}]

\* The constants: a cookbook has an identifier to begin with, and 0 is none; its metadata has
\* a version and a list of dependencies; a Policyfile declares cookbooks by their names; and
\* what others have pushed is what push makes.
IsContent(c) ==
    /\ IsVersion(c.version) /\ c.deps \in Seq(Range(c.deps))
    /\ \A d \in Range(c.deps) : /\ d = Needs(d.name, d.con) /\ d.name \in Nat
                               /\ d.con = Constraint(d.con.op, d.con.nums, d.con.pre) /\ d.con.nums \in Seq(Nat)
IsPolicyfile(r) ==
    /\ DOMAIN r.specs \subseteq Cookbooks
    /\ \A i \in DOMAIN r.runlist : /\ r.runlist[i] = Item(r.runlist[i].cookbook, r.runlist[i].recipe)
                                   /\ r.runlist[i].cookbook \in Nat
IsRevision(l) ==
    /\ l = Lock(l.name, l.runlist, l.locks, l.attrs) /\ DOMAIN l.locks \subseteq Cookbooks
    /\ \A n \in DOMAIN l.locks : /\ l.locks[n] = [version |-> l.locks[n].version, id |-> l.locks[n].id]
                                 /\ l.locks[n].id \in Of[n]
IsServer(s) ==
    /\ s = [artifacts |-> s.artifacts, revisions |-> s.revisions, active |-> s.active]
    /\ \A a \in DOMAIN s.artifacts : a[2] \in Of[a[1]] /\ s.artifacts[a] = Whole(a[2])
    /\ \A a \in DOMAIN s.active :
          s.active[a] \in s.revisions /\ s.active[a].name = a[2] /\ IsRevision(s.active[a])
ASSUME WorkspaceAssumption ==
    /\ \A n \in Cookbooks : n \in Nat /\ Of[n] # {} /\ Of[n] \subseteq DOMAIN Content \cap Nat /\ 0 \notin Of[n]
    /\ \A i \in DOMAIN Content : IsContent(Content[i])
    /\ FirstPolicyfiles \subseteq Policyfiles \cup {NoPolicyfile}
    /\ \A r \in Policyfiles \cup {Scaffold} : IsPolicyfile(r)
    /\ \A s \in Served : IsServer(s)
    /\ \A p \in Posed : IsProblem(p)

\* A session begins with cookbooks and a Policyfile; a test of the solver with a problem.
Init ==
    /\ rb \in FirstPolicyfiles
    /\ disk \in [Cookbooks -> {0} \cup UNION {Of[n] : n \in Cookbooks}]
    /\ \A n \in Cookbooks : disk[n] = Min(Of[n])
    /\ lockfile = NoLock /\ bundle = NoBundle /\ archive = NoBundle
    /\ tarball = [target |-> "absent", partial |-> "absent"]
    /\ server \in Served
    /\ cmd = Resting
    /\ past = [edited |-> {}, fresh |-> TRUE, doubt |-> {}, killed |-> FALSE, commands |-> 0, edits |-> 0, cuts |-> 0]
    /\ \/ solver = NotSolving
       \/ rb = NoPolicyfile /\ \E p \in Posed : solver = Solve(p)
-----------------------------------------------------------------------------
(* The user                                                                *)

Running == cmd.at # "end"
Start ==
    /\ ~Running /\ solver.out # "solving" /\ past.commands < MaxCommands
    /\ \E c \in Commands : cmd' = [Resting EXCEPT !.at = "begin", !.what = c]
    /\ solver' = NotSolving
    /\ past' = [past EXCEPT !.commands = @ + 1]
    /\ UNCHANGED <<files, server>>

Edits == past.edits < MaxEdits /\ solver.problem \notin Posed
EditCookbook ==
    /\ Edits
    /\ \E n \in Cookbooks, id \in UNION {Of[m] : m \in Cookbooks} \cup {0} :
          /\ id \in Of[n] \cup {0} /\ id # disk[n]
          /\ disk' = [disk EXCEPT ![n] = id]
          /\ past' = [past EXCEPT !.edits = @ + 1, !.edited = @ \cup {n}]
          /\ cmd' = IF Running THEN [cmd EXCEPT !.dirty = @ \cup {n}, !.calm = FALSE] ELSE cmd
    /\ UNCHANGED <<rb, lockfile, bundle, archive, tarball, server, solver>>
EditPolicyfile ==
    /\ Edits
    /\ \E r \in Policyfiles : r # rb /\ rb' = r
    /\ past' = [past EXCEPT !.edits = @ + 1]
    /\ UNCHANGED <<disk, lockfile, bundle, archive, tarball, server, solver, cmd>>

DeleteLock ==
    /\ Edits /\ ~Running /\ lockfile # NoLock
    /\ lockfile' = NoLock
    /\ past' = [past EXCEPT !.edits = @ + 1]
    /\ UNCHANGED <<rb, disk, bundle, archive, tarball, server, solver, cmd>>

At(op, at) == cmd.what.op = op /\ cmd.at = at
Goes(at) == cmd' = IF at = "end" THEN Resting ELSE [cmd EXCEPT !.at = at]
Ends == Goes("end")
Same == UNCHANGED <<files, server, solver, past>>
Refuse == Ends /\ Same
\* A write that does not get to its end; past.killed when nothing is cleaned up.
Cut(killed) ==
    /\ past.cuts < MaxCuts
    /\ past' = [past EXCEPT !.cuts = @ + 1, !.killed = @ \/ killed]
    /\ Ends
Kill == Running /\ Cut(TRUE) /\ UNCHANGED <<files, server, solver>>
-----------------------------------------------------------------------------
(* policy create, policy install                                           *)

Create ==
    /\ At("create", "begin")
    /\ IF rb # NoPolicyfile /\ "force" \notin cmd.what.opts THEN Refuse
       ELSE /\ \/ rb' = Scaffold /\ Ends /\ past' = past
               \/ rb' = CutPolicyfile /\ Cut(FALSE)
            /\ UNCHANGED <<disk, lockfile, bundle, archive, tarball, server, solver>>

InstallRead ==
    /\ At("install", "begin")
    /\ IF rb = NoPolicyfile THEN Refuse
       ELSE cmd' = [cmd EXCEPT !.at = "prepare", !.rb = rb] /\ Same

\* One engine for the command (RubyRuntimeCache is where it gets Ruby from).
PrepareEngine == At("install", "prepare") /\ (Goes("siblings") \/ Ends) /\ Same
\* A file that is gone by the time it is copied ends it.
CopySiblings == At("install", "siblings") /\ (Goes("evaluate") \/ Ends) /\ Same
\* What raises, runs too long or says too much is no policy; an included policy is refused.
Evaluate ==
    /\ At("install", "evaluate")
    /\ \/ /\ cmd.rb # CutPolicyfile /\ ~cmd.rb.includes
          /\ cmd' = [cmd EXCEPT !.at = "load", !.left = DOMAIN cmd.rb.specs]
          /\ Same
       \/ Refuse

Loaded(id) == [version |-> Content[id].version,
               deps |-> [i \in DOMAIN Content[id].deps |->
                            [Content[id].deps[i] EXCEPT !.con = IF @ = Malformed THEN @ ELSE Normalized(@)]]]
InstallLoad ==
    /\ At("install", "load") /\ cmd.left # {}
    /\ LET n == Min(cmd.left) IN
       IF ~cmd.rb.specs[n].path \/ disk[n] = 0 THEN Refuse
       ELSE IF Malformed \in {d.con : d \in Range(Content[disk[n]].deps)} THEN Refuse
       ELSE /\ cmd' = [cmd EXCEPT !.left = @ \ {n}, !.loaded = Put(@, n, Loaded(disk[n]))]
            /\ Same

\* A cookbook with a path is demanded in the version it has there, whatever it is declared with.
Demands(r, loaded) ==
    LET named == {r.runlist[i].cookbook : i \in DOMAIN r.runlist}
        con(n) == IF n \in DOMAIN loaded THEN Constraint("=", loaded[n].version.nums, loaded[n].version.pre)
                  ELSE IF n \in DOMAIN r.specs THEN r.specs[n].con ELSE AnyVersion
    IN  {Needs(n, con(n)) : n \in named \cup DOMAIN r.specs}
InstallSolve ==
    /\ At("install", "load") /\ cmd.left = {}
    /\ solver' = Solve(Problem([n \in DOMAIN cmd.loaded |-> {Candidate(cmd.loaded[n].version, cmd.loaded[n].deps)}],
                               Demands(cmd.rb, cmd.loaded)))
    /\ Goes("solve")
    /\ UNCHANGED <<files, server, past>>
SolverStep ==
    /\ solver.out = "solving" /\ (Running => cmd.at = "solve")
    /\ solver' = Tried(solver)
    /\ UNCHANGED <<files, server, cmd, past>>
Normal(item) == IF item.recipe = "" THEN [item EXCEPT !.recipe = "default"] ELSE item
InstallSolved ==
    /\ At("install", "solve") /\ solver.out \in {"solved", "failed"}
    /\ IF solver.out = "failed" THEN Ends
       ELSE cmd' = [cmd EXCEPT !.at = "identify", !.left = DOMAIN solver.answer,
                    !.lock = Lock(cmd.rb.name, [i \in DOMAIN cmd.rb.runlist |-> Normal(cmd.rb.runlist[i])], <<>>, cmd.rb.attrs)]
    /\ solver' = NotSolving
    /\ UNCHANGED <<files, server, past>>
\* The lock has the version as it was written.
Verbatim(v) == <<v.nums, v.pre>>
\* The files of the cookbook are read again for its identifier.
InstallIdentify ==
    /\ At("install", "identify") /\ cmd.left # {}
    /\ LET n == Min(cmd.left) IN
       IF disk[n] = 0 THEN Refuse
       ELSE /\ cmd' = [cmd EXCEPT !.left = @ \ {n}, !.dirty = @ \ {n},
                        !.lock.locks = Put(@, n, [version |-> Verbatim(cmd.loaded[n].version), id |-> disk[n]])]
            /\ Same
InstallWrite ==
    /\ At("install", "identify") /\ cmd.left = {}
    /\ \/ /\ lockfile' = cmd.lock
          /\ past' = [past EXCEPT !.edited = cmd.dirty, !.fresh = cmd.calm]
          /\ Ends
       \/ lockfile' = CutLock /\ Cut(FALSE)
    /\ UNCHANGED <<rb, disk, bundle, archive, tarball, server, solver>>
-----------------------------------------------------------------------------
(* policy export                                                           *)

Export ==
    /\ At("export", "begin")
    /\ IF ~Readable(lockfile) THEN Refuse
       ELSE /\ cmd' = [cmd EXCEPT !.at = "cookbook", !.lock = lockfile, !.left = DOMAIN lockfile.locks]
            /\ Same

Pair(n) == <<n, cmd.lock.locks[n].id>>
\* The path is read as it is now, under the identifier of the lock.
ExportCookbook ==
    /\ At("export", "cookbook") /\ cmd.left # {}
    /\ LET n == Min(cmd.left) IN
       IF disk[n] = 0 THEN Refuse
       ELSE /\ cmd' = [cmd EXCEPT !.at = "copy", !.from = n, !.files = Content[disk[n]].files]
            /\ bundle' = [bundle EXCEPT !.tree = IF Pair(n) \in DOMAIN @ THEN @ ELSE Put(@, Pair(n), NoFiles),
                                        !.half = IF Pair(n) \in DOMAIN bundle.tree THEN @ \cup {Pair(n)} ELSE @]
            /\ past' = [past EXCEPT !.doubt = IF n \in past.edited THEN @ \cup {Pair(n)} ELSE @]
            /\ UNCHANGED <<rb, disk, lockfile, archive, tarball, server, solver>>
Holds(n, f) == disk[n] # 0 /\ f \in Content[disk[n]].files
Copied(f, contents) == bundle' = [bundle EXCEPT !.tree[Pair(cmd.from)][f] = contents]
CopyFileOnce ==                                                          \* mutant
    /\ At("export", "copy")
    /\ \E f \in cmd.files :
          \/ /\ Holds(cmd.from, f)
             /\ cmd' = [cmd EXCEPT !.files = @ \ {f}]
             /\ IF bundle.tree[Pair(cmd.from)][f] = NoFile THEN Copied(f, disk[cmd.from]) ELSE bundle' = bundle
             /\ past' = [past EXCEPT !.doubt = IF cmd.from \in past.edited THEN @ \cup {Pair(cmd.from)} ELSE @]
          \/ Copied(f, CutFile) /\ Cut(FALSE)
    /\ UNCHANGED <<rb, disk, lockfile, archive, tarball, server, solver>>
\* The copy is truncated, then filled; a file that is gone by then is an error.
CopyFile ==
    /\ At("export", "copy")
    /\ \E f \in cmd.files :
          \/ /\ Holds(cmd.from, f)
             /\ cmd' = [cmd EXCEPT !.files = @ \ {f}]
             /\ Copied(f, disk[cmd.from])
             /\ past' = [past EXCEPT !.doubt = IF cmd.from \in past.edited THEN @ \cup {Pair(cmd.from)} ELSE @]
          \/ /\ ~Holds(cmd.from, f)
             /\ Ends /\ UNCHANGED <<bundle, past>>
          \/ Copied(f, CutFile) /\ Cut(FALSE)
    /\ UNCHANGED <<rb, disk, lockfile, archive, tarball, server, solver>>
Copies ==
    /\ At("export", "copy") /\ cmd.files = {}
    /\ cmd' = [cmd EXCEPT !.at = "cookbook", !.left = @ \ {cmd.from}]
    /\ bundle' = [bundle EXCEPT !.half = @ \ {Pair(cmd.from)}]
    /\ UNCHANGED <<rb, disk, lockfile, archive, tarball, server, solver, past>>

\* policies/<name>-<revision>.json, the lock, client.rb: each written over, or cut short.
ExportWrite(next, full, cut) ==
    /\ \/ bundle' = full /\ Goes(next) /\ past' = past
       \/ bundle' = cut /\ Cut(FALSE)
    /\ UNCHANGED <<rb, disk, lockfile, archive, tarball, server, solver>>
ExportPolicy ==
    /\ At("export", "cookbook") /\ cmd.left = {}
    /\ ExportWrite("lock", [bundle EXCEPT !.policies = @ \cup {cmd.lock}], [bundle EXCEPT !.policies = @ \ {cmd.lock}])
ExportLock ==
    /\ At("export", "lock")
    /\ ExportWrite("client", [bundle EXCEPT !.lock = cmd.lock], [bundle EXCEPT !.lock = CutLock])
ExportClient ==
    /\ At("export", "client")
    /\ ExportWrite(IF "archive" \in cmd.what.opts THEN "tar" ELSE "end",
                   [bundle EXCEPT !.client = cmd.lock.name], [bundle EXCEPT !.client = "cut"])
\* The archive is truncated, then filled with what is in the directory.
ExportTar ==
    /\ At("export", "tar")
    /\ \/ archive' = bundle /\ past' = past /\ Ends
       \/ archive' = CutBundle /\ Cut(FALSE)
    /\ UNCHANGED <<rb, disk, lockfile, bundle, tarball, server, solver>>
-----------------------------------------------------------------------------
(* policy push, policy push-archive                                        *)

Sending(lock, sends) == cmd' = [cmd EXCEPT !.at = "send", !.lock = lock, !.sends = sends]
Push ==
    /\ At("push", "begin")
    /\ IF ~Readable(lockfile) \/ \E n \in DOMAIN lockfile.locks : disk[n] = 0 THEN Refuse
       ELSE /\ Sending(lockfile, [n \in DOMAIN lockfile.locks |-> Whole(disk[n])])
            /\ past' = [past EXCEPT !.doubt = @ \cup {p \in Pairs(lockfile) : p[1] \in past.edited}]
            /\ UNCHANGED <<files, server, solver>>

\* Without an argument: a lock beside us makes this directory the bundle; else the only archive.
Chosen1(arg) ==
    IF arg # "" THEN arg
    ELSE IF lockfile # NoLock THEN "."
    ELSE IF archive # NoBundle /\ tarball.target = "absent" THEN "archive"
    ELSE "nothing to push"
\* The working directory has no cookbooks by identifier; a cookbook's tarball has no lock.
Opened(from) ==
    CASE from = "." -> [NoBundle EXCEPT !.lock = lockfile]
      [] from = "bundle" -> bundle
      [] from = "archive" -> archive
      [] OTHER -> NoBundle
Present(b) == Pairs(b.lock) \subseteq DOMAIN b.tree
Contents(b, p) == IF p \in DOMAIN b.tree THEN b.tree[p] ELSE NoFiles
PushArchive ==
    /\ At("push-archive", "begin")
    /\ LET b == Opened(Chosen1(cmd.what.arg)) IN
       \/ /\ b # CutBundle /\ Readable(b.lock) /\ Present(b)
          /\ Sending(b.lock, [n \in DOMAIN b.lock.locks |-> Contents(b, <<n, b.lock.locks[n].id>>)])
          /\ past' = [past EXCEPT !.doubt = @ \cup (b.half \cap Pairs(b.lock))]
          /\ UNCHANGED <<files, server, solver>>
       \* What is cut may not be read as a cookbook.
       \/ /\ b = CutBundle \/ ~Readable(b.lock) \/ ~Present(b) \/ \E p \in DOMAIN b.tree : b.tree[p] # Whole(p[2])
          /\ Refuse

\* PolicyLifecycle has this request by request: artifacts the server lacks, then the revision.
Uploaded(names) ==
    LET pairs == {p \in Pairs(cmd.lock) : p[1] \in names} IN
    [p \in DOMAIN server.artifacts \cup pairs |->
            IF p \in DOMAIN server.artifacts THEN server.artifacts[p] ELSE cmd.sends[p[1]]]
Send ==
    /\ cmd.at = "send"
    /\ \/ server' = [artifacts |-> Uploaded(DOMAIN cmd.sends), revisions |-> server.revisions \cup {cmd.lock},
                     active |-> Put(server.active, <<cmd.what.groups[1], cmd.lock.name>>, cmd.lock)] /\ past' = past
       \/ /\ \E some \in SUBSET DOMAIN cmd.sends : server' = [server EXCEPT !.artifacts = Uploaded(some)]
          /\ past.cuts < MaxCuts /\ past' = [past EXCEPT !.cuts = @ + 1]
    /\ Ends
    /\ UNCHANGED <<files, solver>>

\* The revisions of a policy active in two groups; a group without one is an error.
PolicyDiffCommand ==
    /\ At("diff", "begin")
    /\ LET a == <<cmd.what.groups[1], cmd.what.arg>>  b == <<cmd.what.groups[2], cmd.what.arg>> IN
       IF {a, b} \subseteq DOMAIN server.active
       THEN cmd' = [Resting EXCEPT !.sides = <<server.active[a], server.active[b]>>,
                               !.diff = {Diff(server.active[a], server.active[b])}] /\ Same
       ELSE Refuse
-----------------------------------------------------------------------------
(* supermarket download                                                    *)

Tarballs(t) == tarball' = t /\ UNCHANGED <<rb, disk, lockfile, bundle, archive, server, solver>>
DownloadBegin ==
    /\ At("download", "begin")
    /\ IF tarball.target # "absent" /\ "force" \notin cmd.what.opts THEN Refuse
       ELSE \/ Refuse
            \/ Tarballs([tarball EXCEPT !.partial = "cut"]) /\ Goes("stream") /\ past' = past
\* A stream that breaks leaves nothing behind.
DownloadStream ==
    /\ At("download", "stream")
    /\ \/ Tarballs([tarball EXCEPT !.partial = "whole"]) /\ Goes("rename")
       \/ Tarballs([tarball EXCEPT !.partial = "absent"]) /\ Ends
    /\ past' = past
DownloadRename ==
    /\ At("download", "rename")
    /\ \/ Tarballs([target |-> tarball.partial, partial |-> "absent"])
       \/ Tarballs([tarball EXCEPT !.partial = "absent"])
    /\ Ends /\ past' = past
-----------------------------------------------------------------------------
Step ==
    \/ Create \/ InstallRead \/ PrepareEngine \/ CopySiblings \/ Evaluate \/ InstallLoad \/ InstallSolve \/ SolverStep \/ InstallSolved
    \/ InstallIdentify \/ InstallWrite
    \/ Export \/ ExportCookbook \/ CopyFile \/ Copies \/ ExportPolicy \/ ExportLock \/ ExportClient \/ ExportTar
    \/ Push \/ PushArchive \/ Send \/ PolicyDiffCommand
    \/ DownloadBegin \/ DownloadStream \/ DownloadRename
User == Start \/ EditCookbook \/ EditPolicyfile \/ DeleteLock \/ Kill
Next == Step \/ User

\* A command goes on by itself.
Spec == Init /\ [][Next]_vars /\ WF_vars(Step)
-----------------------------------------------------------------------------
(* Properties                                                              *)

IsLock(l) == DOMAIN l.locks \subseteq Cookbooks /\ \A n \in DOMAIN l.locks : l.locks[n].id \in Of[n]
IsBundle(b) ==
    /\ IsLock(b.lock) /\ \A l \in b.policies : IsLock(l)
    /\ \A p \in DOMAIN b.tree : p[2] \in Of[p[1]] /\ b.tree[p] \in [Files -> {NoFile, CutFile} \cup Of[p[1]]]
\* What is locked, exported, packed and pushed are identifiers the cookbooks have had, and
\* files of theirs.
TypeOK ==
    /\ rb \in Policyfiles \cup {Scaffold, NoPolicyfile, CutPolicyfile}
    /\ \A n \in Cookbooks : disk[n] \in Of[n] \cup {0}
    /\ IsLock(lockfile) /\ IsBundle(bundle) /\ IsBundle(archive)
    /\ \A a \in DOMAIN server.artifacts : a[2] \in Of[a[1]]
    /\ \A a \in DOMAIN server.active : server.active[a] \in server.revisions /\ server.active[a].name = a[2]

\* solver.go: what solve answers satisfies the demands and every dependency of what it
\* chose, and it chose nothing that nothing asks for.
SolverIsSound == Sound(solver) /\ Needed(solver)

\* solver.go: when solve finds nothing, there is nothing, unless a constraint is malformed.
SolverIsComplete == Complete(solver)

\* solver.go prefers the highest version of the first name: no other solution is better where
\* it first differs.
HighestIsChosen == HighestFirst(solver)

\* The cookbooks with these identifiers, as their metadata are written.
Raw(ids) == Problem([n \in DOMAIN ids |-> {Candidate(Content[ids[n]].version, Content[ids[n]].deps)}], {})
RunListed(r) == {r.runlist[i].cookbook : i \in DOMAIN r.runlist}
Resolves(names, ids, f) == names \subseteq DOMAIN f /\ IsSolution(Raw(ids), f)
\* resolve.go: a lock that no edit interfered with has the cookbooks of its run list and meets
\* the constraints of the cookbooks it names, as they are written; and an install gives up
\* only when nothing that has the cookbooks listed and declared would.
LockIsSolved ==
    /\ Readable(lockfile) /\ past.fresh =>
           LET locks == lockfile.locks
               read(text) == Version(text[1], text[2])
           IN  Resolves(RunListed(lockfile), [n \in DOMAIN locks |-> locks[n].id],
                        [n \in DOMAIN locks |-> read(locks[n].version)])
    /\ At("install", "solve") /\ cmd.calm /\ solver.out = "failed" =>
           LET ids == [n \in DOMAIN cmd.rb.specs |-> disk[n]] IN
           \A f \in Picks(Raw(ids)) : ~Resolves(RunListed(cmd.rb) \cup DOMAIN cmd.rb.specs, ids, f)

Faithful(b, p) == p \in DOMAIN b.tree /\ b.tree[p] = Whole(p[2])
\* export.go: as soon as its lock is there a bundle has every cookbook as it was locked,
\* but for one edited since the install and one an export is writing over or was cut in; an
\* archive that can be read has, besides, the policy and a client.rb that selects it.
BundleIsWhole ==
    /\ \A b \in {bundle, archive} : Readable(b.lock) =>
           \A p \in Pairs(b.lock) : Faithful(b, p) \/ p \in past.doubt \cup b.half
    /\ archive \notin {NoBundle, CutBundle} => archive.client = archive.lock.name /\ archive.lock \in archive.policies

\* policy_deploy.go, archive.go: an artifact on the server is what its identifier says, but
\* for a cookbook edited between install and push or export, and one pushed from a bundle
\* whose export was cut in it.
PushedIsWhole ==
    \A a \in DOMAIN server.artifacts : server.artifacts[a] = Whole(a[2]) \/ a \in past.doubt

\* policylifecycle.go: from one revision and the diff to another, the other follows.
DiffTellsAll == \A d \in cmd.diff : TellsAll(d, cmd.sides[1], cmd.sides[2])

\* download.go: a tarball is there whole or not at all, and a download that ends, well or
\* not, leaves nothing else.
TarballIsWhole ==
    /\ tarball.target # "cut"
    /\ ~Running /\ ~past.killed => tarball.partial = "absent"

\* Every command comes to an end: the search ends, whatever the constraints.
CommandsEnd == Running ~> ~Running

\* The answer of the search is a solution with nothing needless in it, the best one there
\* is, and a failure means that there is none (solver_test.go states each of them).
SolverIsRight == SolverIsSound /\ SolverIsComplete /\ HighestIsChosen

\* What is on disk or on the server is what it is named for, wherever a command was cut
\* short, unless the user edited a cookbook in between.
FilesAreWhole == TypeOK /\ BundleIsWhole /\ PushedIsWhole /\ TarballIsWhole
=============================================================================
