------------------------------ MODULE Explore ------------------------------
(***************************************************************************)
(* The terminal UI of `cinc explore` (src/cli/explore).                    *)
(*                                                                         *)
(* The program is a bubbletea model: one goroutine runs Update, handling   *)
(* one key press or one message at a time.  Every request to the Cinc      *)
(* Server runs in a goroutine of its own (a tea.Cmd) and comes back as a   *)
(* message, at any time and in any order.  A step of this module is        *)
(*   - a key press, handled by the active screen's handler (input.go);     *)
(*   - the server answering one running command;                           *)
(*   - the delivery of one message (the handlers of model.go).             *)
(*                                                                         *)
(* Names of objects are numbers because every List sorts its rows by name: *)
(* a list is then the set of its names, and the row at position i is the   *)
(* one with i smaller names in the list.                                   *)
(***************************************************************************)
EXTENDS Naturals, FiniteSets, Sequences

CONSTANTS
    Profiles,    \* the profiles of the credentials file, one server each
    Kinds,       \* the kinds of object, child kinds included
    Menu,        \* the kinds of the top-level menu (registry)
    Caps,        \* Caps[k]: the capability interfaces kind k implements
    Child,       \* Child[k][n]: the kind that row n of kind k drills into
    Names,       \* object names, numbered in the order lists show them
    Filters,     \* the sets of names the filter texts typed can match
    SearchHits,  \* the sets of names a search can return
    Stored,      \* Stored[p][k]: the objects on the server to begin with
    MayFail,     \* the operations whose failure is explored
    MaxKeys,     \* bound: key presses in a behaviour
    None         \* "no client", "no kind", "no search", ...

Capabilities == {"view", "edit", "create", "named", "delete", "download",
                 "drill", "summary", "search", "secret"}

ASSUME NamesAssumption == Names \subseteq Nat /\ IsFiniteSet(Names)
ASSUME NoneAssumption == None \notin Profiles /\ None \notin Kinds /\ None \notin Names
ASSUME KindsAssumption ==
    /\ Menu \subseteq Kinds
    /\ Caps \in [Kinds -> SUBSET Capabilities]
    /\ Child \in [{k \in Kinds : "drill" \in Caps[k]} -> [Names -> Kinds]]
ASSUME InputsAssumption ==
    /\ Filters \subseteq SUBSET Names
    /\ SearchHits \subseteq SUBSET Names /\ SearchHits # {}
    /\ Stored \in [Profiles -> [Kinds -> SUBSET Names]]
    /\ MaxKeys \in Nat

VARIABLES
    screen, returnTo,                          \* the screen, the one under a modal
    client, cur, stack,                        \* server, kind listed, drill-down parents
    rows, rowsFrom, cursor, loading,           \* the list; rowsFrom is history
    filtering, filter, search, searchKind,     \* what narrows the list
    cache, summaryErr, debounceID,             \* the summary pane
    detailName, editor, pending, nameAction,   \* the detail view and the modals
    reqID, cmds, msgs,                         \* requests, running and answered
    server,                                    \* versions of objects, 0 when absent
    keys                                       \* key presses so far

listVars == <<cur, rows, rowsFrom, cursor, loading, filtering, filter, search>>
paneVars == <<cache, summaryErr, debounceID>>
modalVars == <<returnTo, searchKind, detailName, editor, pending, nameAction>>
netVars == <<reqID, cmds, msgs>>
vars == <<screen, client, stack, listVars, paneVars, modalVars, netVars, server, keys>>

Screens == {"Profiles", "Kinds", "List", "Detail", "Editor", "Confirm", "Name",
            "Result", "Search", "SearchIndex"}
-----------------------------------------------------------------------------
(* Helpers                                                                 *)

\* The optional interfaces: a type assertion on a nil Kind is false.
Can(k, cap) == k \in Kinds /\ cap \in Caps[k]

\* filteredRows: the search result first, then the filter text.
Narrowed(rs, hits, text) == (IF hits = None THEN rs ELSE rs \cap hits) \cap text
Filtered == Narrowed(rows, search, filter)

\* selectedRow: the row under the cursor, as a set of at most one name.
RowAt(rs, i) == {n \in rs : Cardinality({m \in rs : m < n}) = i}
Selected == RowAt(Filtered, cursor)

\* The last position of a list, 0 when it is empty.
LastOf(rs) == IF rs = {} THEN 0 ELSE Cardinality(rs) - 1
ClampToLength(i, rs) == IF i > Cardinality(rs) THEN Cardinality(rs) ELSE i  \* mutant
Clamp(i, rs) == IF i >= Cardinality(rs) THEN LastOf(rs) ELSE i

\* A document is known by the object it was read from and the version read.
Docs == [client : Profiles, kind : Kinds, name : Names, ver : Nat]
NoSummaries == [n \in Names |-> None]

Target(n) == [client |-> client, kind |-> cur, name |-> n]

\* A command carries what its closure captured.  id is the request id for the
\* commands the code stamps; for the others it only tells two of them apart.
Command(op, id, k, n, d) ==
    [op |-> op, id |-> id, client |-> client, kind |-> k, name |-> n, doc |-> d]
Launch(op, k, n, d) == cmds' = cmds \cup {Command(op, keys, k, n, d)}

\* What comes back: the command, whether it succeeded, the names of a list or
\* a search, the document of a read.
Reply(c, ok, ns, d) == [cmd |-> c, ok |-> ok, names |-> ns, doc |-> d]
Tick(id, k, n) == Reply(Command("tick", id, k, n, None), TRUE, {}, None)

\* nextReqID and the stamped command that carries the new id.
Request(op, k, n) ==
    /\ reqID' = reqID + 1
    /\ cmds' = cmds \cup {Command(op, reqID + 1, k, n, None)}

\* A read of a row whose summary is cached never asks the server.
RequestDoc(op, n) ==
    IF cache[n] # None
    THEN /\ reqID' = reqID + 1
         /\ msgs' = msgs \cup {Reply(Command(op, reqID + 1, cur, n, None), TRUE, {}, cache[n])}
         /\ UNCHANGED cmds
    ELSE Request(op, cur, n) /\ UNCHANGED msgs

\* scheduleSummary, for kind k with rows sel selected, cache c and error flag
\* err in the new state; out is what the step leaves in msgs.
ScheduleSummary(k, sel, c, err, out) ==
    LET uncached == {n \in sel : c[n] = None}
        armed == uncached # {} /\ Can(k, "summary")
    IN  /\ summaryErr' = (err /\ sel \subseteq uncached)
        /\ debounceID' = IF armed THEN debounceID + 1 ELSE debounceID
        /\ msgs' = IF armed
                   THEN out \cup {Tick(debounceID + 1, k, n) : n \in uncached}
                   ELSE out

\* What openList and applySearch have in common: an empty list of kind k.
ShowEmptyList(k, hits) ==
    /\ cur' = k
    /\ rows' = {}
    /\ rowsFrom' = [client |-> client, kind |-> k]
    /\ cursor' = 0
    /\ loading' = TRUE
    /\ filtering' = FALSE
    /\ filter' = Names
    /\ search' = hits
    /\ cache' = NoSummaries
    /\ summaryErr' = FALSE
    /\ screen' = "List"
    /\ UNCHANGED debounceID
    /\ Request("list", k, None)

OpenList(k) == ShowEmptyList(k, None)
-----------------------------------------------------------------------------
(* Key presses.  A key that only moves a menu cursor or edits a text is    *)
(* part of the key that uses the choice; a key without effect is no step.  *)

Press == keys < MaxKeys /\ keys' = keys + 1

(* The profile picker *)
ProfilesEnter(p) ==
    /\ screen = "Profiles" /\ Press
    /\ cmds' = cmds \cup {[Command("connect", keys, None, None, None) EXCEPT !.client = p]}
    /\ UNCHANGED <<screen, client, stack, listVars, paneVars, modalVars, reqID, msgs, server>>

(* The kind menu *)
KindsEnterKeepsStack(k) ==                                              \* mutant
    /\ screen = "Kinds" /\ Press /\ OpenList(k)
    /\ UNCHANGED <<client, stack, modalVars, msgs, server>>
KindsEnter(k) ==
    /\ screen = "Kinds" /\ Press
    /\ stack' = <<>>
    /\ OpenList(k)
    /\ UNCHANGED <<client, modalVars, msgs, server>>

KindsEsc ==
    /\ screen = "Kinds" /\ Press
    /\ Cardinality(Profiles) > 1
    /\ screen' = "Profiles"
    /\ UNCHANGED <<client, stack, listVars, paneVars, modalVars, netVars, server>>

(* The search modal, from the menu or from a list *)
StartSearch(k) ==
    /\ Can(k, "search")
    /\ returnTo' = screen
    /\ searchKind' = k
    /\ screen' = "Search"
    /\ UNCHANGED <<client, stack, listVars, paneVars, detailName, editor, pending,
                   nameAction, netVars, server>>

KindsSearch(k) == screen = "Kinds" /\ Press /\ StartSearch(k)
ListSearch == screen = "List" /\ ~filtering /\ Press /\ StartSearch(cur)

SearchEnter ==
    /\ screen = "Search" /\ Press
    /\ screen' = "List"
    /\ loading' = TRUE
    /\ Request("search", searchKind, None)
    /\ UNCHANGED <<client, stack, cur, rows, rowsFrom, cursor, filtering, filter, search,
                   paneVars, modalVars, msgs, server>>

SearchEsc ==
    /\ screen = "Search" /\ Press
    /\ screen' = returnTo
    /\ UNCHANGED <<client, stack, listVars, paneVars, modalVars, netVars, server>>

\* Tab and then enter on a top-level index, or esc (the kind stays).
SearchTab ==
    /\ screen = "Search" /\ Press
    /\ screen' = "SearchIndex"
    /\ UNCHANGED <<client, stack, listVars, paneVars, modalVars, netVars, server>>

SearchIndexLeave(k) ==
    /\ screen = "SearchIndex" /\ Press
    /\ k = searchKind \/ (k \in Menu /\ Can(k, "search"))
    /\ searchKind' = k
    /\ screen' = "Search"
    /\ UNCHANGED <<client, stack, listVars, paneVars, returnTo, detailName, editor, pending,
                   nameAction, netVars, server>>

(* The list *)
OnList == screen = "List" /\ ~filtering /\ Press

ListKinds ==
    /\ OnList
    /\ screen' = "Kinds"
    /\ UNCHANGED <<client, stack, listVars, paneVars, modalVars, netVars, server>>

\* Up, Down, Home and End; the summary follows the cursor.
MoveCursor(i) ==
    /\ OnList
    /\ \/ i + 1 = cursor
       \/ i = cursor + 1 /\ i < Cardinality(Filtered)
       \/ i \in {0, LastOf(Filtered)}
    /\ i # cursor
    /\ cursor' = i
    /\ ScheduleSummary(cur, RowAt(Filtered, i), cache, summaryErr, msgs)
    /\ UNCHANGED <<screen, client, stack, cur, rows, rowsFrom, loading, filtering, filter,
                   search, cache, modalVars, reqID, cmds, server>>

FilterStart ==
    /\ OnList
    /\ filtering' = TRUE
    /\ UNCHANGED <<screen, client, stack, cur, rows, rowsFrom, cursor, loading, filter, search,
                   paneVars, modalVars, netVars, server>>

\* A change of the filter text: the cursor stays inside what it leaves.
FilterType(text) ==
    /\ screen = "List" /\ filtering /\ Press
    /\ filter' = text
    /\ LET shown == Narrowed(rows, search, text)
           i == Clamp(cursor, shown)
       IN  /\ cursor' = i
           /\ ScheduleSummary(cur, RowAt(shown, i), cache, summaryErr, msgs)
    /\ UNCHANGED <<screen, client, stack, cur, rows, rowsFrom, loading, filtering, search,
                   cache, modalVars, reqID, cmds, server>>

\* Enter keeps the filter, Esc drops it; both go back to the first row.
FilterEnd(keep) ==
    /\ screen = "List" /\ filtering /\ Press
    /\ filtering' = FALSE
    /\ filter' = IF keep THEN filter ELSE Names
    /\ cursor' = 0
    /\ ScheduleSummary(cur, RowAt(Narrowed(rows, search, filter'), 0), cache, summaryErr, msgs)
    /\ UNCHANGED <<screen, client, stack, cur, rows, rowsFrom, loading, search, cache,
                   modalVars, reqID, cmds, server>>

\* Esc on a list with a server search on it.
ClearSearch ==
    /\ OnList
    /\ search # None
    /\ search' = None
    /\ cursor' = 0
    /\ ScheduleSummary(cur, RowAt(Narrowed(rows, None, filter), 0), cache, summaryErr, msgs)
    /\ UNCHANGED <<screen, client, stack, cur, rows, rowsFrom, loading, filtering, filter, cache,
                   modalVars, reqID, cmds, server>>

\* Esc otherwise: up one level, or to the kind menu.
GoBack ==
    /\ OnList
    /\ search = None
    /\ IF stack = <<>>
       THEN /\ screen' = "Kinds"
            /\ UNCHANGED <<stack, listVars, paneVars, msgs>>
       ELSE LET top == stack[Len(stack)] IN
            /\ stack' = SubSeq(stack, 1, Len(stack) - 1)
            /\ cur' = top.kind
            /\ rows' = top.rows
            /\ rowsFrom' = top.from
            /\ cursor' = top.cursor
            /\ filter' = Names
            /\ cache' = NoSummaries
            /\ ScheduleSummary(top.kind, RowAt(top.rows, top.cursor), NoSummaries, FALSE, msgs)
            /\ UNCHANGED <<screen, loading, filtering, search>>
    /\ UNCHANGED <<client, modalVars, reqID, cmds, server>>

\* Enter on a row of a kind with children.
DrillDown(n) ==
    /\ OnList /\ n \in Selected
    /\ Can(cur, "drill")
    /\ stack' = Append(stack, [kind |-> cur, rows |-> rows, from |-> rowsFrom, cursor |-> cursor])
    /\ OpenList(Child[cur][n])
    /\ UNCHANGED <<client, modalVars, msgs, server>>

\* Enter on a row of any other kind that can be viewed.
OpenDetail(n) ==
    /\ OnList /\ n \in Selected
    /\ ~Can(cur, "drill") /\ Can(cur, "view")
    /\ detailName' = n
    /\ screen' = "Detail"
    /\ RequestDoc("detail", n)
    /\ UNCHANGED <<client, stack, listVars, paneVars, returnTo, searchKind, editor, pending,
                   nameAction, server>>

(* The detail view *)
DetailEsc ==
    /\ screen = "Detail" /\ Press
    /\ screen' = "List"
    /\ UNCHANGED <<client, stack, listVars, paneVars, modalVars, netVars, server>>

(* Edit, New, Delete and Download *)

\* The row an action key acts on: the selected one, or the one viewed.
ActsOn(n) == \/ screen = "List" /\ ~filtering /\ n \in Selected
             \/ screen = "Detail" /\ n = detailName

StartEdit(n) ==
    /\ ActsOn(n) /\ Press
    /\ Can(cur, "edit")
    /\ returnTo' = screen
    /\ RequestDoc("seed", n)
    /\ UNCHANGED <<screen, client, stack, listVars, paneVars, searchKind, detailName, editor,
                   pending, nameAction, server>>

StartDelete(n) ==
    /\ ActsOn(n) /\ Press
    /\ Can(cur, "delete")
    /\ returnTo' = screen
    /\ pending' = Target(n)
    /\ screen' = "Confirm"
    /\ UNCHANGED <<client, stack, listVars, paneVars, searchKind, detailName, editor, nameAction,
                   netVars, server>>

StartDownload(n) ==
    /\ ActsOn(n) /\ Press
    /\ Can(cur, "download")
    /\ returnTo' = screen
    /\ nameAction' = [op |-> "download", target |-> Target(n)]
    /\ screen' = "Name"
    /\ UNCHANGED <<client, stack, listVars, paneVars, searchKind, detailName, editor, pending,
                   netVars, server>>

StartCreate ==
    /\ OnList
    /\ returnTo' = screen
    /\ \/ /\ Can(cur, "create")
          /\ editor' = [action |-> "create", name |-> None, seed |-> None]
          /\ screen' = "Editor"
          /\ UNCHANGED nameAction
       \/ /\ ~Can(cur, "create") /\ Can(cur, "named")
          /\ nameAction' = [op |-> "create", target |-> Target(None)]
          /\ screen' = "Name"
          /\ UNCHANGED editor
       \/ /\ ~Can(cur, "create") /\ ~Can(cur, "named")
          /\ UNCHANGED <<screen, editor, nameAction>>
    /\ UNCHANGED <<client, stack, listVars, paneVars, searchKind, detailName, pending,
                   netVars, server>>

(* The modals *)
EditorAbort ==
    /\ screen = "Editor" /\ Press
    /\ screen' = returnTo
    /\ UNCHANGED <<client, stack, listVars, paneVars, modalVars, netVars, server>>

\* The editor commits a document: it is saved, or created under the name n the
\* user gave it, as the kind listed now; a kind that cannot drops it.
EditorCommit(n) ==
    /\ screen = "Editor" /\ Press
    /\ screen' = "List"
    /\ \/ /\ editor.action = "edit" /\ Can(cur, "edit")
          /\ Launch("save", cur, editor.name, editor.seed)
       \/ /\ editor.action = "create" /\ Can(cur, "create")
          /\ Launch("create", cur, n, None)
       \/ /\ ~Can(cur, editor.action)
          /\ UNCHANGED cmds
    /\ UNCHANGED <<client, stack, listVars, paneVars, modalVars, reqID, msgs, server>>

ConfirmYes ==
    /\ screen = "Confirm" /\ Press
    /\ screen' = "List"
    /\ pending' = None
    /\ IF pending = None
       THEN UNCHANGED cmds
       ELSE cmds' = cmds \cup {[Command("delete", keys, pending.kind, pending.name, None)
                                EXCEPT !.client = pending.client]}
    /\ UNCHANGED <<client, stack, listVars, paneVars, returnTo, searchKind, detailName, editor,
                   nameAction, reqID, msgs, server>>

ConfirmNo ==
    /\ screen = "Confirm" /\ Press
    /\ screen' = returnTo
    /\ pending' = None
    /\ UNCHANGED <<client, stack, listVars, paneVars, returnTo, searchKind, detailName, editor,
                   nameAction, netVars, server>>

\* The name of a new object, or the directory of a download; no name, no create.
NameEnter(n) ==
    /\ screen = "Name" /\ Press
    /\ screen' = "List"
    /\ LET t == nameAction.target IN
       IF nameAction.op = "create" /\ n = None
       THEN UNCHANGED cmds
       ELSE cmds' = cmds \cup
              {[Command(nameAction.op, keys, t.kind,
                        IF nameAction.op = "create" THEN n ELSE t.name, None)
                EXCEPT !.client = t.client]}
    /\ UNCHANGED <<client, stack, listVars, paneVars, modalVars, reqID, msgs, server>>

NameEsc ==
    /\ screen = "Name" /\ Press
    /\ screen' = returnTo
    /\ UNCHANGED <<client, stack, listVars, paneVars, modalVars, netVars, server>>

\* Any key dismisses the one-time secret.
ResultDismiss ==
    /\ screen = "Result" /\ Press
    /\ screen' = "List"
    /\ UNCHANGED <<client, stack, listVars, paneVars, modalVars, netVars, server>>
-----------------------------------------------------------------------------
(* The server and the local work of a command.  A mutation that reports an *)
(* error may have been applied.                                            *)

Outcomes(op) == IF op \in MayFail THEN BOOLEAN ELSE {TRUE}
Present(p, k) == {n \in Names : server[p][k][n] > 0}

\* Command c leaves cmds; its reply waits in msgs.
Answered(c, reply) ==
    /\ cmds' = cmds \ {c}
    /\ msgs' = msgs \cup {reply}
    /\ UNCHANGED <<screen, client, stack, listVars, paneVars, modalVars, reqID, keys>>

AnswerList(c) ==
    /\ c.op = "list"
    /\ \E ok \in Outcomes("list") :
           Answered(c, Reply(c, ok, IF ok THEN Present(c.client, c.kind) ELSE {}, None))
    /\ UNCHANGED server

AnswerRead(c) ==
    /\ c.op \in {"detail", "seed", "summary"}
    /\ LET ver == server[c.client][c.kind][c.name]
           doc == [client |-> c.client, kind |-> c.kind, name |-> c.name, ver |-> ver]
       IN  \E ok \in Outcomes(c.op) :
               LET found == ok /\ ver > 0
               IN  Answered(c, Reply(c, found, {}, IF found THEN doc ELSE None))
    /\ UNCHANGED server

AnswerSearch(c) ==
    /\ c.op = "search"
    /\ \E ok \in Outcomes("search"), hits \in SearchHits :
           Answered(c, Reply(c, ok, IF ok THEN hits ELSE {}, None))
    /\ UNCHANGED server

\* What a mutation does to the version of its object, and when it is refused.
Accepted(op, ver) == IF op = "create" THEN ver = 0 ELSE ver > 0
Mutated(op, ver) == IF op = "delete" THEN 0 ELSE ver + 1

AnswerMutation(c) ==
    /\ c.op \in {"save", "create", "delete"}
    /\ LET ver == server[c.client][c.kind][c.name] IN
       \E applied \in BOOLEAN, ok \in Outcomes(c.op) :
           /\ applied => Accepted(c.op, ver)
           /\ ok \/ c.op \notin MayFail => applied = Accepted(c.op, ver)
           /\ server' = IF applied
                        THEN [server EXCEPT ![c.client][c.kind][c.name] = Mutated(c.op, ver)]
                        ELSE server
           /\ Answered(c, Reply(c, ok /\ applied, {}, None))

\* A client is built from the profile and its key file; a download writes files.
AnswerLocal(c) ==
    /\ c.op \in {"connect", "download"}
    /\ \E ok \in Outcomes(c.op) : Answered(c, Reply(c, ok, {}, None))
    /\ UNCHANGED server

Answer == \E c \in cmds : \/ AnswerList(c) \/ AnswerRead(c) \/ AnswerSearch(c)
                          \/ AnswerMutation(c) \/ AnswerLocal(c)
-----------------------------------------------------------------------------
(* The delivery of a message                                               *)

\* Message m, the reply to a command of operation op, is taken from the queue.
Takes(m, op) == m.cmd.op = op
Rest(m) == msgs \ {m}
AnyAnswer(m) == m.cmd.id <= reqID                                         \* mutant
Latest(m) == m.cmd.id = reqID

ClientReadyInPlace(m) ==                                                  \* mutant
    /\ Takes(m, "connect") /\ msgs' = Rest(m)
    /\ client' = IF m.ok THEN m.cmd.client ELSE client
    /\ screen' = IF screen = "Profiles" /\ m.ok THEN "Kinds" ELSE screen
    /\ UNCHANGED <<stack, listVars, paneVars, modalVars, reqID, cmds, server, keys>>

ClientReady(m) ==
    /\ Takes(m, "connect")
    /\ IF m.ok
       THEN client' = m.cmd.client /\ screen' = "Kinds"
       ELSE screen' = "Profiles" /\ UNCHANGED client
    /\ msgs' = Rest(m)
    /\ UNCHANGED <<stack, listVars, paneVars, modalVars, reqID, cmds, server, keys>>

\* Update arms the summary whether or not the list was stale.
ListLoaded(m) ==
    /\ Takes(m, "list")
    /\ IF Latest(m)
       THEN /\ loading' = FALSE
            /\ rows' = m.names
            /\ rowsFrom' = [client |-> m.cmd.client, kind |-> m.cmd.kind]
            /\ cursor' = IF m.ok THEN Clamp(cursor, Narrowed(m.names, search, filter)) ELSE cursor
       ELSE UNCHANGED <<loading, rows, rowsFrom, cursor>>
    /\ ScheduleSummary(cur, RowAt(Narrowed(rows', search, filter), cursor'), cache, summaryErr,
                       Rest(m))
    /\ UNCHANGED <<screen, client, stack, cur, filtering, filter, search, cache, modalVars,
                   reqID, cmds, server, keys>>

\* The name shown is the one OpenDetail set; only the text is new.
DetailLoaded(m) ==
    /\ Takes(m, "detail")
    /\ detailName' = IF Latest(m) /\ m.ok THEN m.cmd.name ELSE detailName
    /\ msgs' = Rest(m)
    /\ UNCHANGED <<screen, client, stack, listVars, paneVars, returnTo, searchKind, editor,
                   pending, nameAction, reqID, cmds, server, keys>>

EditSeed(m) ==
    /\ Takes(m, "seed")
    /\ \/ /\ ~Latest(m)
          /\ UNCHANGED <<screen, editor>>
       \/ /\ Latest(m) /\ ~m.ok
          /\ screen' = "List"
          /\ UNCHANGED editor
       \/ /\ Latest(m) /\ m.ok
          /\ editor' = [action |-> "edit", name |-> m.cmd.name, seed |-> m.doc]
          /\ screen' = "Editor"
    /\ msgs' = Rest(m)
    /\ UNCHANGED <<client, stack, listVars, paneVars, returnTo, searchKind, detailName, pending,
                   nameAction, reqID, cmds, server, keys>>

MutationDoneStays(m) ==                                                   \* mutant
    /\ m.cmd.op \in {"save", "create", "delete"} /\ msgs' = Rest(m)
    /\ screen' = IF m.ok /\ m.cmd.op = "create" /\ Can(m.cmd.kind, "secret")
                 THEN "Result" ELSE "List"
    /\ UNCHANGED <<client, stack, listVars, paneVars, modalVars, reqID, cmds, server, keys>>

\* Success reloads the kind listed now; a one-time secret is shown meanwhile.
MutationDone(m) ==
    /\ m.cmd.op \in {"save", "create", "delete"}
    /\ IF m.ok
       THEN /\ screen' = IF m.cmd.op = "create" /\ Can(m.cmd.kind, "secret")
                         THEN "Result" ELSE "List"
            /\ loading' = TRUE
            /\ Request("list", cur, None)
       ELSE /\ screen' = "List"
            /\ UNCHANGED <<loading, reqID, cmds>>
    /\ msgs' = Rest(m)
    /\ UNCHANGED <<client, stack, cur, rows, rowsFrom, cursor, filtering, filter, search,
                   paneVars, modalVars, server, keys>>

DownloadDone(m) ==
    /\ Takes(m, "download")
    /\ msgs' = Rest(m)
    /\ UNCHANGED <<screen, client, stack, listVars, paneVars, modalVars, reqID, cmds, server, keys>>

\* Only the tick scheduled last, for the row still selected, fetches a summary.
SummaryTick(m) ==
    /\ Takes(m, "tick")
    /\ msgs' = Rest(m)
    /\ IF m.cmd.id = debounceID /\ m.cmd.name \in Selected /\ cache[m.cmd.name] = None
          /\ Can(cur, "summary")
       THEN cmds' = cmds \cup {Command("summary", m.cmd.id, cur, m.cmd.name, None)}
       ELSE UNCHANGED cmds
    /\ UNCHANGED <<screen, client, stack, listVars, paneVars, modalVars, reqID, server, keys>>

SummaryLoadedQuiet(m) ==                                                  \* mutant
    /\ Takes(m, "summary") /\ msgs' = Rest(m)
    /\ cache' = IF m.ok THEN [cache EXCEPT ![m.cmd.name] = m.doc] ELSE cache
    /\ UNCHANGED <<screen, client, stack, listVars, summaryErr, debounceID, modalVars, reqID,
                   cmds, server, keys>>

\* A summary is cached under its name, whatever list is shown by now.
SummaryLoaded(m) ==
    /\ Takes(m, "summary")
    /\ cache' = IF m.ok THEN [cache EXCEPT ![m.cmd.name] = m.doc] ELSE cache
    /\ summaryErr' = IF m.cmd.name \in Selected THEN ~m.ok ELSE summaryErr
    /\ msgs' = Rest(m)
    /\ UNCHANGED <<screen, client, stack, listVars, debounceID, modalVars, reqID, cmds,
                   server, keys>>

StillLoading == screen' = "List" /\ UNCHANGED <<listVars, paneVars, reqID, cmds>>   \* mutant
SearchFailed ==
    /\ loading' = FALSE
    /\ screen' = "List"
    /\ UNCHANGED <<cur, rows, rowsFrom, cursor, filtering, filter, search, paneVars, reqID, cmds>>

\* applySearch: the kind searched is listed, narrowed to the names that matched.
SearchLoaded(m) ==
    /\ Takes(m, "search")
    /\ \/ /\ ~Latest(m)
          /\ UNCHANGED <<screen, listVars, paneVars, reqID, cmds>>
       \/ /\ Latest(m) /\ ~m.ok
          /\ SearchFailed
       \/ /\ Latest(m) /\ m.ok
          /\ ShowEmptyList(m.cmd.kind, m.names)
    /\ msgs' = Rest(m)
    /\ UNCHANGED <<client, stack, modalVars, server, keys>>

Deliver == \E m \in msgs :
    \/ ClientReady(m) \/ ListLoaded(m) \/ DetailLoaded(m) \/ EditSeed(m) \/ MutationDone(m)
    \/ DownloadDone(m) \/ SummaryTick(m) \/ SummaryLoaded(m) \/ SearchLoaded(m)
-----------------------------------------------------------------------------
(* The specification                                                       *)

Init ==
    /\ \/ screen = "Profiles" /\ client = None /\ Cardinality(Profiles) > 1
       \/ screen = "Kinds" /\ client \in Profiles
    /\ returnTo = "Profiles"
    /\ cur = None /\ stack = <<>> /\ rows = {} /\ rowsFrom = [client |-> None, kind |-> None]
    /\ cursor = 0 /\ loading = FALSE /\ filtering = FALSE /\ filter = Names
    /\ search = None /\ searchKind = None
    /\ cache = NoSummaries /\ summaryErr = FALSE /\ debounceID = 0
    /\ detailName = None /\ editor = None /\ pending = None /\ nameAction = None
    /\ reqID = 0 /\ cmds = {} /\ msgs = {} /\ keys = 0
    /\ server = [p \in Profiles |-> [k \in Kinds |->
                    [n \in Names |-> IF n \in Stored[p][k] THEN 1 ELSE 0]]]

MenuKey ==
    \/ \E p \in Profiles : ProfilesEnter(p)
    \/ \E k \in Menu : KindsEnter(k) \/ KindsSearch(k)
    \/ KindsEsc

SearchKey ==
    \/ ListSearch \/ SearchEnter \/ SearchEsc \/ SearchTab
    \/ \E k \in Kinds : SearchIndexLeave(k)

ListKey ==
    \/ ListKinds \/ FilterStart \/ ClearSearch \/ GoBack \/ StartCreate
    \/ \E i \in 0..Cardinality(Names) : MoveCursor(i)
    \/ \E text \in Filters : FilterType(text)
    \/ \E keep \in BOOLEAN : FilterEnd(keep)

RowKey == \E n \in Names :
    DrillDown(n) \/ OpenDetail(n) \/ StartEdit(n) \/ StartDelete(n) \/ StartDownload(n)

ModalKey ==
    \/ DetailEsc \/ EditorAbort \/ ConfirmYes \/ ConfirmNo \/ NameEsc \/ ResultDismiss
    \/ \E n \in Names : EditorCommit(n)
    \/ \E n \in Names \cup {None} : NameEnter(n)

Key == MenuKey \/ SearchKey \/ ListKey \/ RowKey \/ ModalKey

Next == Key \/ Answer \/ Deliver

Spec == Init /\ [][Next]_vars

\* The runtime runs every command and delivers every message it is handed;
\* nobody has to press a key.
Fairness == WF_vars(Answer \/ Deliver)
FairSpec == Spec /\ Fairness
-----------------------------------------------------------------------------
(* Types                                                                   *)

MaybeKind == Kinds \cup {None}
MaybeClient == Profiles \cup {None}
Source == [client : MaybeClient, kind : MaybeKind]
Frames == [kind : Kinds, rows : SUBSET Names, from : Source, cursor : Nat]
Targets == [client : Profiles, kind : Kinds, name : Names \cup {None}]
MutationOps == {"save", "create", "delete"}
ReadOps == {"detail", "seed", "summary"}
StampedOps == {"list", "search", "detail", "seed"}
Ops == MutationOps \cup ReadOps \cup StampedOps \cup {"connect", "download", "tick"}
Commands == [op : Ops, id : Nat, client : MaybeClient, kind : MaybeKind,
             name : Names \cup {None}, doc : Docs \cup {None}]
Replies == [cmd : Commands, ok : BOOLEAN, names : SUBSET Names, doc : Docs \cup {None}]
Editors == [action : {"edit", "create"}, name : Names \cup {None}, seed : Docs \cup {None}]

NameActions == [op : {"create", "download"}, target : Targets]

ASSUME NoRecordAssumption == None \notin Editors /\ None \notin Targets /\ None \notin NameActions

\* Every variable of the model keeps the shape the Go struct gives it: what is
\* running or queued always carries a client, a kind and a name the handler can use.
TypeOK ==
    /\ screen \in Screens /\ returnTo \in Screens
    /\ client \in MaybeClient /\ cur \in MaybeKind /\ stack \in Seq(Frames)
    /\ rows \subseteq Names /\ rowsFrom \in Source /\ cursor \in Nat
    /\ loading \in BOOLEAN /\ filtering \in BOOLEAN
    /\ filter \subseteq Names /\ search \in {None} \cup SUBSET Names
    /\ searchKind \in MaybeKind
    /\ cache \in [Names -> Docs \cup {None}] /\ summaryErr \in BOOLEAN /\ debounceID \in Nat
    /\ detailName \in Names \cup {None}
    /\ editor \in Editors \cup {None}
    /\ pending \in Targets \cup {None}
    /\ nameAction \in NameActions \cup {None}
    /\ reqID \in Nat /\ cmds \subseteq Commands /\ msgs \subseteq Replies
    /\ server \in [Profiles -> [Kinds -> [Names -> Nat]]]
    /\ keys \in Nat

\* What the types above leave open and every handler relies on: a request has a
\* client, and the kind and the name of the object it is about; before there is a
\* client nothing but building one runs; a modal that is open has what it acts on;
\* Esc never leads into a modal.
OnObject == MutationOps \cup ReadOps \cup {"download"}
RequestOK(c) ==
    /\ c.client \in Profiles
    /\ c.op \in OnObject => c.kind \in Kinds /\ c.name \in Names
AnswerOK(m) ==
    /\ RequestOK(m.cmd)
    /\ m.cmd.op = "tick" => m.cmd.name \in Names
    /\ m.cmd.op \in {"seed", "summary"} /\ m.ok => m.doc \in Docs
Wired ==
    /\ \A c \in cmds : RequestOK(c)
    /\ \A m \in msgs : AnswerOK(m)
    /\ client = None => /\ screen = "Profiles"
                        /\ \A c \in cmds : c.op = "connect"
                        /\ \A m \in msgs : m.cmd.op = "connect"
    /\ returnTo \in {"Profiles", "Kinds", "List", "Detail"}
    /\ "Detail" \in {screen, returnTo} => detailName \in Names
    /\ screen = "Editor" => editor # None
    /\ editor # None /\ editor.action = "edit" => editor.name \in Names
    /\ pending # None => pending.name \in Names
    /\ screen = "Name" => nameAction # None
    /\ nameAction # None /\ nameAction.op = "download" => nameAction.target.name \in Names

StampedCmds == {c \in cmds : c.op \in StampedOps}
StampedMsgs == {m \in msgs : m.cmd.op \in StampedOps}
\* Every request issued is stamped with an id no greater than the current one, and
\* behind a one-time secret the current one is a reload of the list.
IdsFresh ==
    /\ \A c \in StampedCmds : c.id <= reqID
    /\ \A m \in StampedMsgs : m.cmd.id <= reqID
ResultReloads ==
    screen = "Result" =>
        /\ \A c \in StampedCmds : c.id = reqID => c.op = "list"
        /\ \A m \in StampedMsgs : m.cmd.id = reqID => m.cmd.op = "list"
-----------------------------------------------------------------------------
(* What the shell guarantees                                               *)

\* While a delete, create or download prompt is up, what it acts on belongs to
\* the server and the kind on display: no message changes either without closing
\* the prompt (startDelete, startCreate, startDownload, every handler of model.go).
PromptsTargetCurrent ==
    /\ screen = "Confirm" =>
           pending # None /\ pending.client = client /\ pending.kind = cur
    /\ screen = "Name" =>
           nameAction # None /\ nameAction.target.client = client /\ nameAction.target.kind = cur

\* A list with rows on it always has one of them selected, through filters,
\* searches, reloads that shrink it and drill-downs (the clamps of
\* handleListLoaded and updateFilterKey, the frames of openSelected).
SelectionExists == Filtered # {} => Selected # {}

\* A request id is on one running command or on one answer, never on two: at most
\* one answer is current, and it is the one the last key asked for (nextReqID).
LatestIsUnique ==
    /\ \A c, d \in StampedCmds : c.id = d.id => c = d
    /\ \A m, r \in StampedMsgs : m.cmd.id = r.cmd.id => m = r
    /\ \A c \in StampedCmds, m \in StampedMsgs : c.id # m.cmd.id

\* A read that was running when a one-time key is shown never takes the key off
\* the screen: the reload that comes with it makes every search and every edit
\* seed stale.  Only a key press, another mutation or another client does.
SecretSurvivesReads ==
    [][screen = "Result" /\ screen' # "Result" =>
           \/ keys' # keys
           \/ \E m \in msgs \ msgs' : m.cmd.op \in MutationOps \cup {"connect"}]_vars

\* The rows listed are rows of the server and the kind that edit, delete and
\* download act on: no answer to an earlier request is shown (nextReqID).
RowsBelongToCur ==
    screen = "List" /\ rows # {} => rowsFrom = [client |-> client, kind |-> cur]

\* The breadcrumb is the path to the list: the kind listed is a child of the last
\* frame, each frame a child of the one before it (openSelected, goBack, crumb).
Children(k) == {Child[k][n] : n \in Names}
StackIsPath ==
    LET path == Append([i \in DOMAIN stack |-> stack[i].kind], cur)
    IN  \A i \in DOMAIN stack : path[i + 1] \in Children(path[i])

\* A list with nothing on it does not say "Loading..." for ever: no key that is
\* accepted while it loads can make its answer stale without asking again.
FreshListLands == (loading /\ rows = {}) ~> (~loading \/ rows # {})

\* Once the keys stop, the panel shows the summary, or the error, of the row
\* that stays selected.
SummaryEventually ==
    <>[](\A n \in Selected : Can(cur, "summary") => cache[n] # None \/ summaryErr)

\* What a handler takes for granted when an answer comes: the shape of the state, an id
\* that is the request's own (nextReqID), and behind an open prompt the server and the
\* kind it was opened for.
HandlersFindTheirs == TypeOK /\ LatestIsUnique /\ PromptsTargetCurrent
=============================================================================
