# Verification of cinc-cli

TLA+ models of the stateful and concurrent parts of `cinc` (the command line
client of a Cinc or Chef Infra Server), the TLC configurations that check them,
and theorems about them that TLAPS checks. Line numbers refer to the files under
`src/`.

    tlc -workers 2 -config ExploreFlat.cfg MCExplore      # one run
    tlapm WorkspaceProofs.tla                             # one module of proofs

## 1. The system

`cinc` is one Go binary (`src/main.go`, `src/apps/cinc`) over a set of packages
(`src/cli`). Most subcommands are a straight line: read the credentials file, build
a client, make one or a few calls to the server, print. The state, the concurrency
and the failure handling are in the parts below.

### Components

**Terminal UI, `cinc explore`** (`cli/explore`). A bubbletea program: `Update` handles
one message at a time; each request runs in a goroutine (`tea.Cmd`) and comes back as
a message. *State*: the active screen and the one under a modal, the client of the
profile chosen, the kind listed, its rows, filter, search and cursor, the drill-down
stack, a summary cache, the open editor or prompt, and a request counter that stamps
what is asked. *Operations*: some forty keys over ten screens; messages for lists,
searches, details, edit seeds, mutations, downloads, summaries, ticks and new clients.
*Hard*: answers in any order, while the user moves on; modals that act on something
chosen earlier; one screen variable written by every handler. *Correct when*: what is
shown is what is acted on, prompts act on what they name, nothing is deleted unasked,
a private key shown once is not lost, loading ends.

**Supermarket browser, `cinc supermarket explore`** (`cli/supermarket/explore`). The same
kind of program over a paged catalogue. *State*: sort, search, list, page position,
cursor, preview pane with its cache, detail screen, one install. *Hard*: first pages,
appended pages, search ticks, preview ticks, previews and details in flight together,
each with a staleness check of its own. *Correct when*: rows are those asked for, the
cursor stays inside the list, the detail is the one in the title, one install at a
time, previews and loading end.

**Remote pool, `cinc node ssh`** (`cli/remote/remote.go`). Goroutines take hosts from a
channel and write to one slot of a result slice each. *Hard*: `--exit-on-error` raises a
flag that others read. *Correct when*: one result per host, a skip only after a failure
on record, at most `--concurrency` sessions, `RunMany` returns.

**Cookbook cache** (`cli/policyfile/fetch.go`) and **Ruby runtime cache**
(`cli/policyfile/rubyeval/loader.go`). Directories under the home directory that every
`cinc` process of the user fills: download to a staging directory, then rename. *Hard*:
processes at the same time, crashes half-way, failed downloads. *Correct when*: an entry
is complete or absent, a later run gets past what an earlier one left, parallel runs
do not harm each other.

**Policyfile resolver** (`cli/policyfile/resolver`). Evaluates a Policyfile, reads the
cookbooks from their sources, solves the constraints by backtracking, writes the lock
with content identifiers. *State*: the stack of the search. *Hard*: the order of the
search, a conflict with a decision made earlier, `~>` and pre-releases. *Correct when*:
what it answers is a solution, the best one, and it finds one whenever there is one.

**Policy commands** (`apps/cinc/cmd/policy*.go`, `policyfile/export.go`, `archive.go`).
Create, install, diff, push, export, push an archive, clean revisions, clean cookbooks.
*State*: Policyfile, lock, bundle and archive on disk; revisions, pins and artifacts on the
server. *Hard*: clean commands read references and then delete; a push uploads artifacts
first and the revision that refers to them last; every file is truncated and filled; an
export writes into a directory that may hold an earlier one; cookbooks are edited between
install and push. *Correct when*: what is referred to is not deleted, a bundle and a pushed
revision are whole and are what was locked, a diff tells all.

**Objects on the server** (clients, users, keys, groups, organizations, roles, environments,
ACLs, nodes with run list, tags, environment, policy, status, ssh and bootstrap, data bags
and their secrets, cookbooks, search, Supermarket commands). A short sequence of local checks,
files, the editor, questions and requests each. *State*: the server's objects, the key file,
the host being bootstrapped. *Hard*: requests refused, or obeyed and the answer lost, between
two others; read-modify-write beside another run; a private key that exists in one answer
only; documents that carry a name of their own. *Correct when*: a command writes to its
own object only, says what it has done, does what it says, and delivers the key.

**Credentials and first run** (`cli/config`, `cli/setup`, `apps/cinc/cmd/config*.go`,
`common.go`, `root.go`, `create.go`). One TOML file of profiles, rewritten in place; prompts and
a migration from `~/.chef`. *Hard*: the file is truncated and then encoded; two commands
read, change and write the whole file; knife reads the same file; a migration that stops
half-way. *Correct when*: an update keeps what it was not asked about, a migration is whole,
the file is private, and a profile reported valid works.

**Editors** (`cli/jsoneditor`, `cli/nodeedit`). A JSON tree with a cursor over its keys,
scalars and blocks, inline and block edits, raw text and a preview; a form over a node with
the editor inside. *State*: the tree, the units, the cursor, an open edit, the raw text; the
form's focus and fields. *Hard*: paths held while the tree changes; four copies of one
document; an editor that ends by itself inside a form. *Correct when*: the cursor is on a unit,
what is committed is what is shown, a node only looked at is unchanged.



**Extraction, output, program name, documentation** (`internal/tarball`, `printer`,
`components`, `progname`, `rubylit`, `tools/gendocs`). No lasting state.

### How they interact

The two terminal UIs talk to servers only through commands and messages. `cinc explore`
embeds the editors. `node ssh` and `node bootstrap` use the remote pool and one SSH
session. Policy push and export call the cookbook cache once per pinned cookbook; the
resolver calls the Ruby runtime cache for a `Policyfile.rb` and for `metadata.rb`. Both
caches unpack with `internal/tarball`. `policy push-archive` looks for an archive by its
suffix, which `supermarket download` uses too. Every command reads the credentials file.

## 2. Modules

| Module | Models | Proofs |
|---|---|---|
| `Explore` (`MCExplore`) | `cli/explore` | `ExploreProofs` |
| `SupermarketBrowse` (`MCSupermarketBrowse`) | `cli/supermarket/explore` | `SupermarketBrowseProofs` |
| `FanOut` | what `RunMany` promises | |
| `RemotePool` (`MCRemotePool`) | `RunMany`, implements `FanOut` | `SharingProofs` |
| `CookbookCache` (`MCCookbookCache`) | `EnsureCookbook` | `SharingProofs` |
| `RubyRuntimeCache` (`MCRubyRuntimeCache`) | `ensureRuntimeFrom` and below | `SharingProofs` |
| `PolicyLifecycle` (`MCPolicyLifecycle`) | push, clean, clean-cookbooks and deletes of policies | `PolicyLifecycleProofs` |
| `JsonTree`, `JsonEditor`, `NodeForm` (`MCNodeForm`) | `cli/jsoneditor`, `cli/nodeedit` | `EditorProofs` |
| `Profiles`, `Credentials` (`MCCredentials`) | `cli/config`, `cli/setup`, `config` commands, `client.New` | `CredentialsProofs` |
| `Commands`, `ServerObjects` (`MCServerObjects`) | every command about objects of a server, two at a time | `ServerObjectsProofs` |
| `Versions`, `Solver`, `PolicyDiff`, `Workspace` (`MCWorkspace`) | `policyfile/resolver`, `export.go`, `archive.go`, the policy commands that work on files, `supermarket download` | `WorkspaceProofs` |

### Explore

A step is a key handled by the active screen (`input.go`), the server answering one
running command, or the delivery of one message (`model.go`). The variables are the
fields of `model`. Objects are numbers in the order lists show them, so a list is a set
and the selected row the one with `cursor` smaller names. A kind is its set of
capabilities, the optional interfaces of `kinds.go`.

* `cmds` holds the running commands with what their closures captured (client, kind,
  name, document); `msgs` the messages not delivered. The request id stamps lists,
  searches, details and edit seeds, exactly as `nextReqID` does; for the other
  commands the field only tells two of them apart. `rowsFrom` is history.
* Update arms the debounced summary for every list message, the stale ones included.
* `return m, m.scheduleSummary()` relies on the call being evaluated before `m` is
  copied, which the compiler used does; the model follows it.
* A key that only moves a menu cursor or edits a text is part of the key that uses it.
  Status and error texts, server version, window size and quitting are left out.
* A saved document keeps its name (`Save` uses the name of the row).

### SupermarketBrowse

The two screens share one `Update`: the active one handles every message, which is why
the detail screen loses pages and ticks. The catalogue does not change, so an answer
is known when the request is delivered and answering and delivering are one step. In
search mode the box holds the query whenever it has the focus. The jumps by ten rows
fall together with home and end in lists this short.

### FanOut and RemotePool

`FanOut` is the promise: hosts start, end and are skipped one at a time, at most
`Limit` run, a skip needs a failure on record under `--exit-on-error`, or a cancelled
context. `RemotePool` is the code: the feeder on the unbuffered channel, the look at
`stopLaunching`, the session, the result, the flag, the exit, `wg.Wait`.
`ImplementsFanOut` is `FanOut` with `waiting`, `running` and `results` computed from the
goroutines' state. The context of `node ssh` is never cancelled; `MayCancel` explores
what `RunMany` handles all the same.

### CookbookCache

One entry of the cache. Paths name directories (inodes), because two calls go on with
the directory when the path is renamed or removed: `os.Root` in `tarball.Extract`, and
`os.RemoveAll`, which lists a directory, unlinks what it read and removes the path
last. A step is one system call or one file; a file half written counts as absent.
`git` and server sources write by path and make the directory anew if it has gone.
`os.Rename` is two steps, as in Go's library: it refuses a destination that is a directory,
and then calls `rename(2)`, which replaces nothing but an empty one. A process may die between
any two steps. `overlap` (two runs under way at a time) and `shared` (two in the staging
directory at a time) are history. `LateRunsDoNoHarm` covers the runs of the first kind that
are not of the second: several have looked and found no entry, and go on one by one.

### RubyRuntimeCache

The shared directory is absent, broken or usable; staging directories are private. A
step is one look (`usable`, `Lstat`) or one rename. `usable` takes three looks; the last,
the checksum, decides, because no step puts a broken release back. The archive has one
top-level entry, so the loop of `materializeFrom` runs once.

### PolicyLifecycle

Users run commands against one server: `revs`, `pins` and `artifacts` are what it holds,
`run` is what each command has learned from its answers so far. A step is one request and
what the command does with the answer; any request may fail, and the command then
returns. `CleanGroups`, `CleanPolicies` and `CleanDelete` are the three kinds of request of
`policy clean`; `SweepIndex`, `SweepRevision`, `SweepArtifacts` and `SweepDelete` those of
`clean-cookbooks` ("sweep" for short). Revisions and artifacts are numbers in the order
in which the commands sort and delete them. Reading revisions follows a Go map, in any
order.

The server and the library's `PushRevision` are external, modelled from how the code uses
them: a push lists the artifacts, uploads those missing and pins the revision with the
last request (`pushRevision` reports uploaded and already present ones); deleting what is
gone is an error; deleting a policy deletes its revisions and what groups pinned of them
(as the integration suite asserts of `policy delete`, and assumed of single revisions).
Everything of a push before the first request (the lock, fetching, the bundle) touches no
state of the server and is part of `Push`.

`pushed`, `met` and `unsafe` are histories: what was pinned while a command ran, the kinds
of command that overlapped it, and the revisions whose last push met a `clean-cookbooks`.
The properties need them because nothing locks the server: no clean command is safe
against a push at the same time, and they say what holds all the same.

### JsonTree, JsonEditor and NodeForm

A tree is a function from paths to nodes; `JsonTree` has the mutations of `tree.go` and
`edit.go` on it and the units a cursor can rest on. `JsonEditor` is the Go `Model`, a value,
as the record `ed`; an action is one key. Texts are pairs of what `parseTree` says of them
and what a decoder reads, because the two differ. `NodeForm` embeds the editor as the
attributes field and runs it beside the two other hosts, a command and `cinc explore`, which
differ in the seed, the check on saving and who owns Ctrl-D. Drawing and the text cursor
inside an input are left out; the form's text fields are alike and one stands for all.
`touches` is history: what the user has changed so far.

### Profiles and Credentials

`Profiles` has what is computed from one entry: `Resolve`, `Rewritten` (`WriteProfile`),
`Migrated`, `Issues` (`Config.Validate`), `FailedChecks` (`config validate`) and `Opens`
(`client.New`). In `Credentials` a step is one read of the file or one system call: open
with truncation, chmod, write. A write over what another run has written since may leave
the end of the longer text, which no longer parses (`garbled`). What the user answers is
chosen with the read it depends on. `before` and `alone` are history.

### Commands and ServerObjects

`Commands` gives each command the list of steps its `RunE` takes, in order: checks of flags,
the connection, a file or the editor, questions, requests, the key file. `ServerObjects`
has one action per kind of step and runs two commands beside each other. A request may be
refused, and its answer may be lost after the server has obeyed. An object is
`<<noun, scope, name>>` with a document: the name written in it, its contents, and how often
its values are encrypted. `wrote`, `told` and `others` record what the server obeyed, what
the command has said of it, and what the other run has written since. The server and
`cinc-api` are external, modelled from how the commands use them: the last write wins, a
group keeps the members that exist. `node ssh` ends here at the list of hosts; `RemotePool`
goes on. Lists in pages are one step that fails when a page does.

### Versions, Solver, PolicyDiff and Workspace

`Versions` compares versions and applies constraints to numbers as they were written, one
to three of them, and to pre-releases. `Solver` is the search one candidate at a time; a
frame of its stack is a call of `backtrack`. `PolicyDiff` has both what the command prints
and what a reader can reconstruct from it. `Workspace` is one user's directory: every
command reads and writes file after file, in the order of the code, the user edits cookbooks
and the Policyfile in between, and any write may be cut short. A cookbook's identifier
stands for its files. `policy install` runs the search of `Solver` as its own steps.
The cookbooks are of the Policyfile's own directory (path sources); fetching the others is
`CookbookCache`, and what a push does to the server request by request is
`PolicyLifecycle`. `past` is history: which cookbooks have been edited since they were
locked, and where an export was cut. A lock holds each version as its metadata writes it,
numbers and pre-release; the candidates left of a frame are a set, and the next one is the
highest of them. `LockIsSolved` reads the lock back and asks whether its versions resolve
its run list against the constraints as the metadata have them; of an install that fails it
asks whether anything that has the cookbooks listed and declared would have (a declared
cookbook is demanded, so a choice without it does not count).

## 3. Runs

Every property of a run has a mutant, a change of one definition of the kind a bug would
make, under which the same run finds the property violated. Definitions marked `mutant` are
those changes and are used nowhere else (`PolicyDiff`'s `VersionDelta` is one of them: a diff
that compares versions only). An invariant that several parts make up is the conjunction of
named definitions, each with its own comment.

| Run | Bounds | Shows |
|---|---|---|
| `ExploreFlat` | 1 server, nodes and clients, 2 names, 5 keys, lists, searches and summaries may fail | `RowsBelongToCur`, `SecretSurvivesReads`, `FreshListLands`, `SummaryEventually` |
| `ExploreTree` | 2 servers, bags and cookbooks with children, 2 names, 5 keys, connecting and downloading may fail | `SelectionExists`, `StackIsPath`, `HandlersFindTheirs` (types, request ids, prompts) |
| `BrowseFirstPage` | 2 cookbooks on one page, 2 sorts, 2 texts, 4 keys, pages and previews may fail | `FirstPageIsAsked`, `PreviewEventually` |
| `BrowsePages` | 3 cookbooks, pages of 2, 4 keys, installs, pages and details may fail | `ScreenIsSound` (cursor, detail, one install), `LoadingEnds` |
| `RemotePool` | 4 hosts, 2 workers | `ResultsAreRight`, `ImplementsFanOut`, `ReturnsInTheEnd` |
| `CookbookCache` | 3 runs, 2 files, 4 directories | `EarlierRunsDoNoHarm`, `LateRunsDoNoHarm` |
| `RubyRuntimeCache` | 3 processes, empty or broken cache | `ParallelRunsGetAlong`, `RunsVerified`, `ReleaseStays` |
| `PolicyLifecycle` | 2 users, 3 commands, 3 revisions of 2 policies sharing artifacts, 2 groups, any consistent server to begin with | `CleansAreSafe`, `CleansAreThorough`, `RevisionsComplete` |
| `NodeForm` | 2 seeds, 3 hosts, documents of 3 to 5 nodes, texts that parse, half parse and do not, 3 changes in one form | `EditorIsSound`, `CommittedIsShown`, `LookingIsNotEditing`, `AddSelectsNew` |
| `Credentials` | 2 runs, 4 credentials files and 4 knife files, 2 servers, 2 profile names, a crash at any step | `UpdateIsRight`, `MigrationIsWhole`, `OwnerOnly`, `ChecksAgree` |
| `ServerObjects` | some 130 commands beside one of 10 rivals, 2 names, any request refused or its answer lost | `WritesAreAccountedFor`, `KeyIsDelivered`, `SaidIsDone`, `StaysSealed` |
| `Workspace` | 2 cookbooks of 5 contents, 3 Policyfiles, 4 commands, 1 edit, 1 cut; and solver problems of 3 cookbooks in 2 versions | `SolverIsRight`, `LockIsSolved`, `FilesAreWhole`, `DiffTellsAll`, `CommandsEnd` |

Why the bounds are enough. Five keys open a list, start a mutation, start a read, move
elsewhere and come back; the races of the UI are between two requests and one change
of screen. Two names give a selected row and another one; two kinds and two servers
give a wrong target. Three cookbooks in pages of two give a first page, an appended
one and an end. Two workers and four hosts let one worker skip while the other runs
and hosts are left over. Three processes let one crash between the steps of two others,
and four directories are what three runs can have linked or open at once. Two users
and three commands let a whole command run between two requests of another and a third
meet what they leave; two revisions of one policy that share an artifact, and one of
another policy, tell a pin of the policy from a pin of the revision. Users and groups
are symmetric: no property or action tells them apart.

Documents of five nodes have a block inside a block with a sibling, so a removed node moves
paths beside and below it. The credentials files hold a shared profile, a Supermarket one, an
odd one, text that does not parse, and none. Each command of `ServerObjects` meets one that
writes to the same object, its owner or its members; two names are the one asked for and the
one a file or the editor puts in the document. Four commands of `Workspace` are install,
export, a second one and a push; the five contents differ in version, in files under one
version, and in a dependency that no cookbook satisfies. Three cookbooks in two versions,
one with a pre-release, give the solver a conflict with a decision two levels up.

`CHECK_DEADLOCK FALSE` stands where the user may stop (the bound on keys or commands is
reached then) or where processes end.

`ExploreTree` gives the prompts two servers, and `SelectionExists` lists that shrink under
drill-downs. `RowsBelongToCur` is checked on one server and kinds without children: otherwise
it fails (section 6), and section 5 says under which condition on the user it holds for every
kind. `StackIsPath` holds where nothing is searched from the menu over a drill-down; `LoadingEnds`
leaves out by name the two cases in which it fails.

## 4. Fairness

`Explore` and `SupermarketBrowse`: weak fairness of `Answer \/ Deliver`, and of
`Deliver`. Bubbletea runs every command it is handed and delivers every message; HTTP
requests end in an answer or an error. Keys are not fair: nobody has to press one.
`RemotePool`: weak fairness of the pool's own steps, because goroutines are scheduled.
Sessions are not fair: only the TCP dial has a timeout, a handshake or a command may
never end, so `ReturnsInTheEnd` says that `RunMany` returns *if* every session ends.
`Workspace`: weak fairness of `Step`, the running command's own steps. It is one process
reading and writing local files; the user's edits and interruptions are not fair.

## 5. Proofs

TLAPS proves, for every value of the constants:

| Theorem | Of | Statement |
|---|---|---|
| `TypesHold` | `Explore`, `CookbookCache`, `PolicyLifecycle` | `[]TypeOK` |
| `RuntimeTypesHold`, `PoolTypesHold` | `RubyRuntimeCache`, `RemotePool` | `[]RuntimeTypeOK`, `[]PoolTypeOK` |
| `PromptsHold`, `IdsHold`, `SecretHolds` | `Explore` | prompts act on what is displayed; request ids are distinct and fresh; no read takes a one-time key away |
| `SelectionHolds` | `Explore` | a row is under the cursor whenever a handler takes the selected one |
| `FlatRowsHold`, `RowsHold` | `Explore` | the rows on the screen are of the kind and the client displayed: with one server and no kind with children; and for all servers and kinds as long as the user is `Patient` |
| `PathHolds` | `Explore` | the stack is the way to the list displayed, as long as nobody searches from the menu over a drill-down |
| `OneWorkerHolds`, `ResultsHold`, `SkipsHold`, `PoolImplementsFanOut` | `RemotePool` | the safety invariants and the refinement |
| `CompleteHolds`, `FailsHolds`, `LateRunsHold` | `CookbookCache` | the entry is complete while runs do not overlap, earlier runs do not make later ones fail; overlapping runs do no harm as long as no two use the staging directory at one time |
| `CleanIsSafe`, `SweepIsSafe`, `PushesComplete`, `CleanIsThorough`, `SweepIsThorough` | `PolicyLifecycle` | the five safety invariants |
| `NobodyFailsHolds`, `ReleaseStaysHolds`, `RunsVerifiedHolds`, `SurvivalHolds` | `RubyRuntimeCache` | the four properties |
| `ScreenIsSoundHolds` | `SupermarketBrowse` | types, cursor, detail and install at once |
| `FirstPageHolds`, `OnePageHolds` | `SupermarketBrowse` | the list shows the first page of what was asked: as long as no further page is asked for; and always, where every answer fits a page |
| `OwnerOnlyHolds` | `Credentials` | nothing cinc writes is readable by others |
| `UpdatesAreRight`, `MigrationHolds`, `ChecksHold` | `Credentials` | an undisturbed update keeps what it was not asked about, a migration is whole, a profile reported valid opens |
| `TypeCorrect`, `Invariant` | `ServerObjects` | types; the inductive invariant |
| `WritesAccounted`, `KeyDelivered`, `SecretsStaySealed` | `ServerObjects` | a command writes to what it was asked to and says so; the private key reaches the user or the file; no encrypted item becomes readable |
| `SaidHolds` | `ServerObjects` | a command that ends well has done what it says, unless another wrote the same objects meanwhile |
| `SolverIsRightAlways` | `Solver` | what the search answers is a solution with nothing needless in it, and the best one; when it fails there is none |
| `LockIsSolvedAlways` | `Workspace` | a lock no edit interfered with resolves its run list under the constraints as they are written; an install that fails had nothing to find |
| `FilesAreWholeAlways` | `Workspace` | bundle, archive, artifacts and tarball hold what they are named for, wherever a command is cut short |
| `DiffTellsAllAlways` | `Workspace`, `PolicyDiff` | from one revision and the diff follow the other's cookbooks with their versions, the set of its recipes, and its attributes up to null and empty maps |
| `EditorIsSoundAlways`, `CommittedIsShownAlways` | `JsonEditor`, `NodeForm` | a well-formed document, the cursor on one of its units, an open edit of the unit under it; what is committed is what is shown and was checked |
| `LookingIsNotEditingAlways` | `NodeForm` | a node only looked at is saved as unchanged |
| `AddSelectsNewAlways` | `JsonTree`, `JsonEditor` | a node added is selected, and deleting it gives the document of before |
| `HandlersHold`, `ResultsAreRightHolds`, `NoHarmHolds`, `ParallelRunsHold`, `CleansAreSafeHolds`, `CleansAreThoroughHolds` | as above | the conjunctions the runs check, put together from the theorems before |

Assumptions are those named in the modules: what sets the constants are, that `None`
is none of the values it stands beside, that the number of hosts is a natural number,
that the site lists cookbooks by name. Of `Credentials`: the files to begin with are files
(`IsFile`), of finitely many profiles, that no run of the behaviour wrote (`SeedsAssumption`), and neither the unset URL nor the public one is that of a server
(`UrlsAssumption`). Of `ServerObjects`: every run runs a command `Commands` builds
(`CommandsAssumption`); the objects contain what the commands address, the names a key can be
renamed to and the default key of a client or user created, no command is given the name
of what is not there, and the server begins with documents under their names and groups of
members it knows (`ObjectsAssumption`); `NoKey` is no run (`KeysAssumption`) and no permission
is called like a step (`PermsAssumption`). Of `Workspace` (`WorkspaceAssumption`): a cookbook is
a number, in the order of names, and has an identifier of its own, which is not 0; metadata have
a version and dependencies whose constraints have numbers; a Policyfile declares cookbooks by
their names; what others pushed before is what a push leaves; a problem put to the solver has
finitely many candidates of each cookbook, no two of which compare equal. Of the editor
(`EditorAssumption`, `FormAssumption`): texts are texts (`IsText`), with a document in them
where `parseTree` takes them; the value that stands for having no key is no key; the three
bags of a node are objects, and no entry of its run list is a bare bullet. Each is about data
the program is given, none about what it does.

* `Explore`: `TypeOK` alone is not inductive: a handler uses the client, the kind and the
  name that a message carries. `Wired` says that every command and message carries
  them and that an open modal has what it acts on. `IdsOK` adds that every stamped
  command has an id no greater than the counter, and that behind the result screen the
  current id is a reload of the list; from that follows that no read is current there.
  `SelectionOK` is that every closure, frame and modal keeps the cursor among the rows its
  list shows; that the row at a position exists (`RowAtExists`) follows from the rank of a
  name being an injection into the positions. `RowsBelongToCur` fails in general (section 6)
  and is proved under `Patient`, which leaves out the two causes: going back out of a list
  that is still loading, and changing the client over one. `RowsOK` adds that a list request
  with the current id is for the kind and client displayed. `PathOK` says of every frame that
  it is the parent of the next; `NotOverFrames` excludes the one thing that leaves frames
  behind, a search from the menu over a drill-down.
* `RemotePool`: `OneWorkerPerHost` needs `Feeding` (a busy worker has a host below
  `next`), the skips need `Stopping` (the flag, or a worker about to raise it, has a
  failure on record). The refinement maps a hand-over to a stutter and a launch to a
  start; the bound on sessions comes from mapping running hosts injectively to workers.
* `CookbookCache`: `Sole` says of the run that uses the staging directory that it removes
  exactly what it has listed, that it has written all files but those left to do, and that it
  fails only with cause; `OneUser` says that it is one, unless `shared` tells otherwise. An
  entry is another directory than the staged one, so what such a run does leaves it whole.
  `OneAtATime` and `Alone` say the rest for runs that do not overlap at all: past the look
  there is no entry.
* `RubyRuntimeCache`: `BrokenIsOld` (a broken release was there from the start, and
  nobody is past a check while it is), `CleanStays` (otherwise nobody ever moves anything
  aside) and `GapIsClosing` (who makes a gap is about to close it, or has crashed).
* `PolicyLifecycle`: what a command knows must stay true while others work. `CleanKnows`:
  what is pinned was in use when the groups were read or was pushed since. `SweepKnows`: a
  revision is still to be read, has been read, or was pushed since and is then unsafe.
  `PushKnows`: without a sweep, a push has what it found and what it uploaded. `CleanFinds`
  and `SweepFinds` are the other direction: undisturbed, what is not to be deleted is
  referred to. `Overlap` and `Forgotten` tie the histories to what runs. The proof reduces
  the twenty actions to effects (`StepCases`) and shows each part preserved by each effect.

* `SupermarketBrowse`: `Known` says that a command has a page that starts at a position and,
  where it fetches by name, a name; `Listed` that every row names a result of the request it
  came from, so that `items[cursor]` has a cookbook; `OneAtATime` is `OneInstall` without the
  counting. Each part is about variables few actions touch: `Frames` settles the others.
  For the first page, `PagesAtTop` says that every page under way starts at the top, and
  `MatchIsAsked` that one with the current sort and query carries what the site answers to them;
  where every answer fits a page, a further page is never asked for.
* `Credentials`: `OwnerOnly` is not inductive, a run may truncate the file while another is
  about to write. `AboutToWrite` adds that the mode is in place whenever any run has only
  the write before it; nobody ever widens it. The other three are about what a run has read
  and is to write: `RunShape` says what a run at each point knows, `Follows` ties that to the
  file it read as long as nobody else has written since, and `Migrating` says which of the
  knife profiles are still to come. `Undisturbed` is their conjunction; `Put`, the write
  itself, is the only place where the file changes.
* `ServerObjects`: a command is a list of steps that a run works off, so the invariant speaks
  of what is left of the list. `Settled` says that every user of a fact finds it: it is so now
  and no step spoils it before then, or an earlier step makes it so; `Delivered` says the same
  of the end of the list. `IInv` states in these terms that a document carries its name when
  it is sent, that an item is sealed by then, that a key made is handed over, and that nothing
  which gives up by itself comes after a request; beside them, `wrote`, `told` and the target
  account for what was sent. `CommandsReady` proves it of the whole list of every command of
  `Commands`, whatever its arguments and flags. `SaidIsDone` needs the other half, `Truthful`:
  of each run, `Tells` says that what it is to do (`Effect`) is on the server, unless another
  run has written there, or that the step which does it is still to come, and says what that
  step relies on: the document is the changed one, the key edited has a name the server knows,
  each permission not yet changed is still on the list. A step of another run keeps it because
  whatever it writes goes into `others`. TLC checked `Truthful` on a small instance first.
* `Solver` (in `WorkspaceProofs`): `Compare` is a total preorder of versions (`VersionOrder`), so
  finitely many candidates have a highest one (`HighestIs`). `SearchOK` is the invariant of the
  search: what a call asks is what the demands and the candidates assigned ask, with everything
  assigned satisfying it and needed by it (`Made`); a frame has assigned what the frames below
  chose, each the highest candidate it has left (`Trail`); and of a candidate that a frame has
  given up no solution goes on from there (`Dead`). Soundness is `Made` of the answer,
  completeness `Dead` of the empty assignment, and preference `Dead` of every higher
  candidate of every frame, along the `Trail`.
* `Workspace`: `TypeIInv` has the shapes of the files, the server and the command's locals, that
  the problem being solved is the one the install asked, and `SearchOK`. `FilesIInv` adds
  what makes a bundle whole: everything an export has left behind it is `Kept`
  (`ExportKeeps`), of the cookbook it is in, the files copied are (`CopyFills`), a tree has files of
  its own identifier only, but for what is in doubt (`TreeIsOwn`), an edit is remembered until the install that reads it
  (`EditsAreKnown`) and what a push is about to send is whole or in doubt (`SendsWhole`).
  `LockIInv` follows one install: what it has loaded is what is on disk as long as nothing was
  edited (`LoadsAreNow`), the cookbooks of the answer are closed under dependencies
  (`ChoiceIsClosed`), and the lock on disk solves what it says (`LockSolves`). A constraint means
  the same before and after it is normalized (`NormalizedMeans`), which is what
  `Normalized` must keep. TLC checked both invariants on the bounds of the run first, and
  `FilesIInv` on a larger instance.
* `JsonTree` and `JsonEditor` (in `EditorProofs`): `IsTree` counts children, which says little of
  a tree in which one has come or gone, so the proofs use `Gapless`: every node but the root is
  a child of a block, and the sibling of the position before it is there. The two say the same
  (`TreeOrGapless`), which the least position that is missing shows. Each
  mutation keeps it: `Moved` is injective and commutes with going up and going to the
  sibling before (`MovedFront`, `MovedElder`), which settles inserting and deleting, and
  `DeleteInserted` undoes the one by the other; replacing a value keeps what is beside it and
  puts the new tree below (`BelowAsAbove`). Document order is a strict total order of the units
  (`UnitsInARow`), so `Position` numbers them without gaps (`UnitsNumbered`): that is why a cursor
  smaller than their number is on exactly one of them, and why the unit just added is the one
  found. `CursorStays` is about what the code
  does not check: an edit applies its value and keeps the cursor, which stays on a unit because
  the units before it stay.
* `NodeForm`: `CursorOnUnit` and `CommittedIsShown` are not inductive. `FormIInv` adds that an open
  edit is of the unit at the cursor's position and of the right type (`EditIsOfUnit`), that the pending document of a
  preview is the text and passed the check (`PreviewIsText`), that a text that parses has a
  document in it (`BufferIsText`), and of a form in which nothing was changed (`Looked`) that root, raw text
  and fields are those it was opened with, or a lone bullet. TLC checked it on the run's bounds first.

Only model-checked: every liveness property (`FreshListLands`, `SummaryEventually`,
`PreviewEventually`, `LoadingEnds`, `ReturnsInTheEnd`, `CommandsEnd`): fairness and ENABLED are
out of reach of the prover.

## 6. Known deviations

Met while modelling. The models do what the code does; a property that would be violated
is stated for the rest, or not at all.

Against a comment in the source:

* Explore: a search from the kind menu that fails before any list was opened leaves the list
  screen without a kind, and the view dereferences it (`model.go:749`, `views.go:365`;
  `input.go:258-261` says that search works before a list is ever opened).
* Explore: `goBack` takes no new request id, so the list of the child that is still loading
  replaces the parent's rows, under the parent's kind (`input.go:177`; `model.go:140` says
  stale responses are dropped).
* Explore: the summary cache is keyed by name across kinds; a node's late summary becomes
  the edit seed of the client of that name and can be saved as the client
  (`model.go:659`; 647-649 say that caching by name is always safe).
* CookbookCache: two overlapping runs share one staging directory; one unlinks the files of
  the directory the other has just renamed to the entry, which then counts as a hit for
  ever (`fetch.go:95`; 61-64 say that it returns the directory containing the cookbook). A file
  that one of them still writes is truncated in the entry for that time as well
  (`tarball.go:115`, `export.go:170`); in the model writing a file again changes nothing.
* Resolver: a Policyfile's constraint on a `path:` cookbook is ignored, the cookbook's own version
  is demanded instead (`resolve.go:138`; `policy_install.go:31-33` says that versions are solved
  against the constraints in the Policyfile). `LockIsSolved` is about the constraints in the
  cookbooks' metadata.
* JsonEditor: `dec.More()` does not see a trailing `}` or `]`, although its comment says that
  trailing data is rejected (`tree.go:39`); a text with other trailing data is refused by
  `parseTree` but taken by the node form's decoder, without the rest.
* Credentials: in `config create`, Enter through every prompt on a profile whose
  `cinc_server_url` does not parse deletes the URL, because the answers carry no raw URL
  (`config.go:409-411` says that rewriting a profile never quietly deletes a URL).

Others:

* Explore: replacing the client takes no new request id, so an edit seed of the first
  server can be saved to the second (`model.go:522`); opening a detail while the list
  reloads makes the reload stale and the list loads for ever (`input.go:225`); `goBack`
  restores an index into filtered rows without the filter (`input.go:208`);
  `reloadList` keeps the summary cache, so the next edit starts from the document before
  the last save (`model.go:781`); the answer to another mutation replaces the screen with
  the one-time private key (`model.go:584`, against the comment at 592); a search from the menu keeps the drill-down stack of
  the list left behind (`model.go:758`).
* Explore: with two servers, a search from the kind menu after a change of server shows the rows
  of the former server as those of the new client until it is answered, and for good if it
  fails (`input.go:296`, `model.go:749`; the client is replaced at `model.go:522`).
* SupermarketBrowse: the answer to a search under another sort than the default is
  dropped (`list.go:53`); pages that arrive on the detail screen are lost and
  `loadingMore` stays set (`detail.go:14`); appended pages are not checked for sort or
  query (`list.go:52`); the start of the next page is that of the last page plus the
  length of the whole list, so the third page skips rows (`list.go:271`); moving to a
  row already fetched does not make an older preview stale (`list.go:291`); the error of
  a failed preview stays in the pane (`list.go:519`).
* RubyRuntimeCache: of two processes that both find a broken release the slower one can
  move the faster one's good release aside for a moment, under a process that evaluates
  with it (`loader.go:344`, against the comment at 326-330). `ReleaseStays` and
  `NobodyFails` are therefore stated for caches that were not broken;
  `OneReleaseSurvives` covers the broken ones.
* PolicyLifecycle: `clean` reads the groups before the revisions (`policylifecycle.go:378`,
  `382`), so it deletes a revision that is pushed and pinned between the two, which its
  comment at 363 rules out; `clean-cookbooks` likewise deletes an artifact that a push at
  the same time found present, and the revision pinned then lacks it. Of two cleans at
  the same time the slower one stops with an error at the first revision that is
  gone, and leaves the rest of its list to the other.
* Editors: Ctrl-D in the node form saves the whole node, so text typed into an open edit is
  not part of it, and a block edit can there only be cancelled; `a` twice gives two
  members `newKey`, of which a decoder keeps one; opening an empty array adds a null.
* Credentials: of two overlapping commands the last whole-file write wins; a reader, or a
  crash, between truncating and writing sees an empty file; a migration killed half-way is
  not offered again. `UpdateIsLocal` and `MigrationIsWhole` are about undisturbed runs.
* ServerObjects: `cookbook upload a b` says nothing of `a` when `b` fails; `group edit` does not
  notice members the server drops (`group member` does); a key file that cannot be written
  loses the only copy of the key, and only the file error is reported; edits carry no
  version, so an overlapping one is lost; `node ssh` gives up when one of the matching
  nodes lacks the attribute; `supermarket install` does not check the name in the metadata;
  `search --start` past the last match reports more matches than there are.
* Solver: a malformed constraint in one candidate skips the cookbook's other candidates
  (`solver.go:115`); candidates that compare equal come in any order. Neither happens through
  `policy install` today.
* Workspace: an edit between reading a cookbook's metadata and its identifier locks the old
  version with the new files; push and export read a path cookbook as it is by then,
  under the locked identifier; an export cut short leaves truncated files under the lock of
  the one before, and a second export leaves the first one's cookbooks and policies in
  the bundle; `push-archive` without an argument takes the project directory for a bundle
  because of the lock in it; a tarball of `supermarket download` makes its search for the
  archive ambiguous; when a directory
  cannot be read in the middle of an export the archive is closed all the same
  (`export.go:194-200`), so beside the error there is an archive that can be read and lacks the
  rest: the model cuts an archive only where it can no longer be read.
* PolicyDiff: run lists are compared as sets; an attribute that becomes null shows as removed,
  one that was null as added; empty maps are not seen.

## 7. Not modelled, and what is left

Left out: rendering, layout, wording and highlighting; the text of prompts and of explained
errors; URL syntax; canonical JSON and checksums; encryption; TOML and JSON syntax beyond
whether a text parses; the Ruby guest; `cinc-api` itself (external, modelled from its use);
the limits of archive extraction (pure checks on the bytes of an archive); the documentation
generator, the build and the integration suite. The integration suite (`src/integration`) is
a quarter of the implementation lines and drives a real server; it was read as evidence of
what the server does.

Partly modelled: the columns and summaries of the explorer's kinds; seeds of the Ruby runtime
cache; named run lists of a Policyfile; git and server sources inside `policy install`, which
`CookbookCache` has on its own; an attribute bag of a node that is absent and one that is empty,
which the node form's model does not tell apart.

What would be worth adding: one composition of `Workspace` and `PolicyLifecycle`, in which the
locks pushed are those that install made; two processes on one `Workspace`.
