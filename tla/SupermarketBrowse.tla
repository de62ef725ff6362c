-------------------------- MODULE SupermarketBrowse --------------------------
(***************************************************************************)
(* The terminal UI of `cinc supermarket explore`                           *)
(* (src/cli/supermarket/explore).                                          *)
(*                                                                         *)
(* A bubbletea model with two screens, the list with its preview pane and  *)
(* the full-screen detail view.  Pages, previews, details and installs are *)
(* commands that run in goroutines of their own; a step is a key press or  *)
(* the delivery of one command's message, in any order.  The catalogue     *)
(* does not change while it is browsed, so what a request returns is       *)
(* decided when its message is delivered.                                  *)
(***************************************************************************)
EXTENDS Naturals, FiniteSets, Sequences

CONSTANTS
    Order,        \* Order[s]: the catalogue as the site lists it under sort s
    DefaultSort,  \* sortMostDownloaded, the zero value of sortOrder
    Hits,         \* Hits[q]: the cookbooks the site finds for text q
    PageSize,     \* rows of a page
    Prefetch,     \* prefetchTrigger
    MayFail,      \* the operations whose failure is explored
    CanInstall,   \* whether Options.Install is set
    Keys,         \* the keys explored
    MaxKeys,      \* bound: key presses in a behaviour
    None          \* "no cookbook", "no text"

Sorts == DOMAIN Order
Texts == DOMAIN Hits
Names == UNION {{Order[s][i] : i \in DOMAIN Order[s]} : s \in Sorts}

ASSUME CatalogueAssumption ==
    /\ DefaultSort \in Sorts /\ None \notin Names /\ None \notin Texts
    /\ \A s \in Sorts : Order[s] \in Seq(Names)
    /\ \A q \in Texts : Hits[q] \in Seq(Names)
    /\ PageSize \in Nat \ {0} /\ Prefetch \in Nat /\ MaxKeys \in Nat /\ CanInstall \in BOOLEAN

VARIABLES
    view,                                      \* "browse" or "detail"
    mode, sort, query, searchFocused,          \* what is asked for
    items, cursor, start, hasMore,             \* the rows and the last page taken
    loading, loadingMore,
    preview, previewName, previewErr,          \* the pane; previewErr names who failed
    previewBusy, previewCache,
    debounceID, previewID, reqID,
    confirmInstall, installName, installing,   \* the install flow
    detail,                                    \* [name, cookbook, loading]
    cmds,                                      \* commands running, their messages included
    keys                                       \* key presses so far

askVars == <<mode, sort, query, searchFocused>>
listVars == <<items, cursor, start, hasMore, loading, loadingMore>>
shownVars == <<preview, previewName>>
paneVars == <<previewErr, previewBusy, previewCache>>
installVars == <<confirmInstall, installName, installing>>
vars == <<view, askVars, listVars, shownVars, paneVars, debounceID, previewID, reqID,
          installVars, detail, cmds, keys>>
-----------------------------------------------------------------------------
(* Requests                                                                *)

\* What a page is a page of.  searchCookbooks leaves the sort of its answer at
\* the zero value, loadCookbooks leaves the query empty.
ListOf(s) == [mode |-> "list", sort |-> s, query |-> None]
SearchFor(q) == [mode |-> "search", sort |-> DefaultSort, query |-> q]
Asked == IF mode = "list" THEN ListOf(sort) ELSE SearchFor(query)
Nothing == ListOf(DefaultSort)

\* The site: a page of what was asked for, and whether there are rows after it.
Results(what) == IF what.mode = "list" THEN Order[what.sort] ELSE Hits[what.query]
RowsFrom(what, first) ==
    LET count == Len(Results(what))
        left == IF first >= count THEN 0 ELSE count - first
    IN  [i \in 1..(IF left < PageSize THEN left ELSE PageSize) |->
            [of |-> what, at |-> first + i]]
HasMore(what, first) == first + Len(RowsFrom(what, first)) < Len(Results(what))
NameOf(row) == Results(row.of)[row.at]

Command(op, id, what, first, n) ==
    [op |-> op, id |-> id, what |-> what, first |-> first, name |-> n]
PageOf(op, id, what, first) == Command(op, id, what, first, None)
About(op, id, n) == Command(op, id, Nothing, 0, n)

\* The cookbook of the row at position c, as a set of at most one name.
RowAt(its, c) == {NameOf(its[i]) : i \in {c + 1} \cap DOMAIN its}
Selected == RowAt(items, cursor)
OneOf(S) == IF S = {} THEN None ELSE CHOOSE n \in S : TRUE

\* schedulePreview for row c of its: a cached cookbook is shown at once, another
\* one after a debounced tick that takes a new id.
PreviewTicks(its, c) ==
    {About("previewTick", reqID + 1, n) : n \in RowAt(its, c) \ previewCache}
SchedulePreviewOldID(its, c, shown, shownName) ==                       \* mutant
    LET ticks == PreviewTicks(its, c)
        cached == OneOf(RowAt(its, c))
    IN  /\ preview' = IF ticks = {} THEN cached ELSE shown
        /\ previewName' = IF ticks = {} THEN cached ELSE shownName
        /\ UNCHANGED previewID
SchedulePreview(its, c, shown, shownName) ==
    LET ticks == PreviewTicks(its, c)
        cached == OneOf(RowAt(its, c))
    IN  /\ preview' = IF ticks = {} THEN cached ELSE shown
        /\ previewName' = IF ticks = {} THEN cached ELSE shownName
        /\ previewID' = IF ticks = {} THEN previewID ELSE reqID + 1

ReloadKeepsCursor(what) ==                                              \* mutant
    /\ items' = <<>> /\ cursor' = cursor /\ loading' = TRUE
    /\ preview' = None /\ reqID' = reqID + 1
    /\ cmds' = cmds \cup {PageOf("page", reqID + 1, what, 0)}
    /\ UNCHANGED <<start, hasMore, loadingMore, previewName, paneVars, previewID, debounceID>>
\* A list without rows yet, and the request that fills it.
Reload(what) ==
    /\ items' = <<>> /\ cursor' = 0 /\ loading' = TRUE
    /\ preview' = None
    /\ reqID' = reqID + 1
    /\ cmds' = cmds \cup {PageOf("page", reqID + 1, what, 0)}
    /\ UNCHANGED <<start, hasMore, loadingMore, previewName, paneVars, previewID, debounceID>>
-----------------------------------------------------------------------------
(* Init: the first page is asked for with id 1, which reqID has not reached *)

Init ==
    /\ view = "browse"
    /\ mode = "list" /\ sort = DefaultSort /\ query = None /\ searchFocused = FALSE
    /\ items = <<>> /\ cursor = 0 /\ start = 0 /\ hasMore = FALSE
    /\ loading = FALSE /\ loadingMore = FALSE
    /\ preview = None /\ previewName = None /\ previewErr = None
    /\ previewBusy = FALSE /\ previewCache = {}
    /\ debounceID = 0 /\ previewID = 0 /\ reqID = 0
    /\ confirmInstall = FALSE /\ installName = None /\ installing = FALSE
    /\ detail = [name |-> None, cookbook |-> None, loading |-> FALSE]
    /\ cmds = {PageOf("page", 1, ListOf(DefaultSort), 0)}
    /\ keys = 0
-----------------------------------------------------------------------------
(* Keys                                                                    *)

Key(k) == k \in Keys /\ keys < MaxKeys /\ keys' = keys + 1
Nav(k) == Key(k) /\ view = "browse" /\ ~confirmInstall /\ ~searchFocused

\* moveCursor: up, down and the jumps, which end at the first or the last row.
MoveCursor ==
    \E c \in {cursor + 1, 0, Len(items) - 1} \cup (IF cursor = 0 THEN {} ELSE {cursor - 1}) :
        LET ticks == PreviewTicks(items, c)
            more == hasMore /\ ~loadingMore /\ c + Prefetch >= Len(items)
            fetch == IF more
                     THEN {PageOf("append", reqID + Cardinality(ticks) + 1, Asked,
                                  start + Len(items))}
                     ELSE {}
        IN  /\ Nav("move")
            /\ c \in 0..(Len(items) - 1) /\ c # cursor
            /\ cursor' = c
            /\ SchedulePreview(items, c, preview, previewName)
            /\ loadingMore' = (loadingMore \/ more)
            /\ reqID' = reqID + Cardinality(ticks) + Cardinality(fetch)
            /\ cmds' = cmds \cup ticks \cup fetch
            /\ UNCHANGED <<view, askVars, items, start, hasMore, loading, paneVars, debounceID,
                           installVars, detail>>

StartSearch ==
    /\ Nav("search")
    /\ searchFocused' = TRUE
    /\ UNCHANGED <<view, mode, sort, query, listVars, shownVars, paneVars, debounceID,
                   previewID, reqID, installVars, detail, cmds>>

\* clearSearch: back to the list under the sort last chosen.
ClearSearch ==
    /\ query' = None /\ mode' = "list"
    /\ Reload(ListOf(sort))
    /\ UNCHANGED <<view, sort, installVars, detail>>

\* Esc on the list.
Esc ==
    /\ Nav("search")
    /\ query # None \/ mode = "search"
    /\ ClearSearch
    /\ UNCHANGED searchFocused

Typing == Key("search") /\ view = "browse" /\ ~confirmInstall /\ searchFocused

\* The search box emptied by typing.
Erase ==
    /\ Typing
    /\ query # None
    /\ ClearSearch
    /\ UNCHANGED searchFocused

\* Another text in the search box: the list empties, the request waits for the tick.
Type ==
    \E q \in Texts :
        /\ Typing
        /\ q # query
        /\ query' = q /\ mode' = "search"
        /\ reqID' = reqID + 1 /\ debounceID' = reqID + 1
        /\ cmds' = cmds \cup {About("searchTick", reqID + 1, None)}
        /\ loading' = TRUE /\ items' = <<>> /\ cursor' = 0
        /\ UNCHANGED <<view, sort, searchFocused, start, hasMore, loadingMore, shownVars, paneVars,
                       previewID, installVars, detail>>

\* Enter or Esc leave the box; the query is the box's text already.
LeaveSearch ==
    /\ Typing
    /\ searchFocused' = FALSE
    /\ UNCHANGED <<view, mode, sort, query, listVars, shownVars, paneVars, debounceID,
                   previewID, reqID, installVars, detail, cmds>>

SetSort ==
    \E s \in Sorts :
        /\ Nav("sort")
        /\ mode = "list" /\ s # sort
        /\ sort' = s
        /\ Reload(ListOf(s))
        /\ UNCHANGED <<view, mode, query, searchFocused, installVars, detail>>

\* openDetail: a cookbook the previews have fetched is shown at once.
OpenDetail ==
    \E n \in Selected :
        /\ Nav("open")
        /\ view' = "detail"
        /\ IF n \in previewCache
           THEN /\ detail' = [name |-> n, cookbook |-> n, loading |-> FALSE]
                /\ UNCHANGED <<reqID, cmds>>
           ELSE /\ detail' = [name |-> n, cookbook |-> None, loading |-> TRUE]
                /\ reqID' = reqID + 1
                /\ cmds' = cmds \cup {About("detail", reqID + 1, n)}
        /\ UNCHANGED <<askVars, listVars, shownVars, paneVars, debounceID, previewID, installVars>>

CloseDetail ==
    /\ Key("open") /\ view = "detail"
    /\ view' = "browse"
    /\ UNCHANGED <<askVars, listVars, shownVars, paneVars, debounceID, previewID, reqID,
                   installVars, detail, cmds>>

StartInstall ==
    \E n \in Selected :
        /\ Nav("install")
        /\ ~installing
        /\ confirmInstall' = TRUE /\ installName' = n
        /\ UNCHANGED <<view, askVars, listVars, shownVars, paneVars, debounceID, previewID,
                       reqID, installing, detail, cmds>>

\* The answer to the prompt; yes does nothing when there is no profile to install to.
AnswerInstall ==
    \E yes \in BOOLEAN :
        /\ Key("install") /\ view = "browse" /\ confirmInstall
        /\ confirmInstall' = FALSE
        /\ installing' = (installing \/ (yes /\ CanInstall))
        /\ cmds' = IF yes /\ CanInstall
                   THEN cmds \cup {About("install", keys, installName)} ELSE cmds
        /\ UNCHANGED <<view, askVars, listVars, shownVars, paneVars, debounceID, previewID,
                       reqID, installName, detail>>
-----------------------------------------------------------------------------
(* Messages                                                                *)

\* The message of a command arrives; more are the commands it starts.
Take(c, op, more) ==
    /\ c \in cmds /\ c.op = op
    /\ cmds' = (cmds \ {c}) \cup more
    /\ UNCHANGED keys
Outcome(c) == IF c.op \in MayFail THEN BOOLEAN ELSE {TRUE}

\* The detail screen ignores what is meant for the list.
ListOps == {"page", "append", "searchTick", "previewTick"}
IgnoredInDetail(c) ==
    /\ view = "detail" /\ c.op \in ListOps
    /\ Take(c, c.op, {})
    /\ UNCHANGED <<view, askVars, listVars, shownVars, paneVars, debounceID, previewID, reqID,
                   installVars, detail>>

MatchesAny(what) == what.mode = mode                                    \* mutant
\* The check of applyCookbooksLoaded.
Matches(what) ==
    /\ what.mode = mode /\ what.sort = sort
    /\ mode = "search" => what.query = query

\* A first page nobody asks for any more.
StalePage(c) ==
    /\ view = "browse" /\ ~Matches(c.what)
    /\ Take(c, "page", {})
    /\ UNCHANGED <<view, askVars, listVars, shownVars, paneVars, debounceID, previewID, reqID,
                   installVars, detail>>

PageFailedQuietly(c) ==                                                 \* mutant
    /\ view = "browse" /\ (c.op = "append" \/ Matches(c.what))
    /\ c.op \in {"page", "append"} \cap MayFail /\ Take(c, c.op, {})
    /\ UNCHANGED <<view, askVars, listVars, shownVars, paneVars, debounceID, previewID, reqID,
                   installVars, detail>>
\* A page that failed ends both kinds of loading.
PageFailed(c) ==
    /\ view = "browse"
    /\ c.op = "append" \/ Matches(c.what)
    /\ c.op \in {"page", "append"} \cap MayFail
    /\ Take(c, c.op, {})
    /\ loading' = FALSE /\ loadingMore' = FALSE
    /\ UNCHANGED <<view, askVars, items, cursor, start, hasMore, shownVars, paneVars, debounceID,
                   previewID, reqID, installVars, detail>>

PageTaken(c) ==
    /\ start' = c.first
    /\ hasMore' = HasMore(c.what, c.first)
    /\ loading' = FALSE /\ loadingMore' = FALSE
    /\ UNCHANGED <<view, askVars, paneVars, debounceID, installVars, detail>>

\* The first page replaces the list and previews its first row.
PageLoaded(c) ==
    LET rows == RowsFrom(c.what, c.first)
        ticks == PreviewTicks(rows, 0)
    IN  /\ view = "browse" /\ Matches(c.what)
        /\ Take(c, "page", ticks)
        /\ items' = rows /\ cursor' = 0
        /\ SchedulePreview(rows, 0, None, None)
        /\ reqID' = reqID + Cardinality(ticks)
        /\ PageTaken(c)

\* A further page is added to the list, whatever list it is by now.
PageAppended(c) ==
    /\ view = "browse"
    /\ Take(c, "append", {})
    /\ items' = items \o RowsFrom(c.what, c.first)
    /\ PageTaken(c)
    /\ UNCHANGED <<cursor, shownVars, previewID, reqID>>

\* A debounce tick: only the latest one asks, for the query of now.
SearchTick(c) ==
    LET current == c.id = debounceID
        what == IF query = None THEN ListOf(sort) ELSE SearchFor(query)
    IN  /\ view = "browse"
        /\ Take(c, "searchTick", IF current THEN {PageOf("page", reqID + 1, what, 0)} ELSE {})
        /\ reqID' = IF current THEN reqID + 1 ELSE reqID
        /\ UNCHANGED <<view, askVars, listVars, shownVars, paneVars, debounceID, previewID,
                       installVars, detail>>

StalePreviewTick(c) ==
    /\ view = "browse" /\ c.id # previewID
    /\ Take(c, "previewTick", {})
    /\ UNCHANGED <<view, askVars, listVars, shownVars, paneVars, debounceID, previewID, reqID,
                   installVars, detail>>

PreviewTick(c) ==
    /\ view = "browse" /\ c.id = previewID
    /\ IF c.name \in previewCache
       THEN /\ Take(c, "previewTick", {})
            /\ preview' = c.name /\ previewName' = c.name
            /\ UNCHANGED previewBusy
       ELSE /\ Take(c, "previewTick", {About("preview", c.id, c.name)})
            /\ previewBusy' = TRUE
            /\ UNCHANGED shownVars
    /\ UNCHANGED <<view, askVars, listVars, previewErr, previewCache, debounceID, previewID,
                   reqID, installVars, detail>>

\* A preview, on either screen; an older request's is dropped.
PreviewLoaded(c) ==
    \E ok \in Outcome(c) :
        /\ Take(c, "preview", {})
        /\ IF c.id # previewID
           THEN UNCHANGED <<shownVars, paneVars>>
           ELSE /\ previewBusy' = FALSE
                /\ previewErr' = IF ok THEN None ELSE c.name
                /\ preview' = IF ok THEN c.name ELSE None
                /\ previewName' = IF ok THEN c.name ELSE previewName
                /\ previewCache' = IF ok THEN previewCache \cup {c.name} ELSE previewCache
        /\ UNCHANGED <<view, askVars, listVars, debounceID, previewID, reqID, installVars, detail>>

\* A detail, on either screen; one of another cookbook is dropped.
DetailLoaded(c) ==
    \E ok \in Outcome(c) :
        /\ Take(c, "detail", {})
        /\ IF c.name # detail.name
           THEN UNCHANGED <<detail, previewCache>>
           ELSE /\ detail' = [detail EXCEPT !.loading = FALSE,
                                            !.cookbook = IF ok THEN c.name ELSE @]
                /\ previewCache' = IF ok THEN previewCache \cup {c.name} ELSE previewCache
        /\ UNCHANGED <<view, askVars, listVars, shownVars, previewErr, previewBusy, debounceID,
                       previewID, reqID, installVars>>

\* The end of an install, on either screen.
InstallDone(c) ==
    /\ Take(c, "install", {})
    /\ installing' = FALSE
    /\ UNCHANGED <<view, askVars, listVars, shownVars, paneVars, debounceID, previewID, reqID,
                   confirmInstall, installName, detail>>
-----------------------------------------------------------------------------
KeyPress ==
    \/ MoveCursor \/ SetSort \/ OpenDetail \/ CloseDetail
    \/ StartSearch \/ Type \/ Erase \/ LeaveSearch \/ Esc
    \/ StartInstall \/ AnswerInstall

Deliver ==
    \E c \in cmds :
        \/ IgnoredInDetail(c)
        \/ StalePage(c) \/ PageFailed(c) \/ PageLoaded(c) \/ PageAppended(c)
        \/ SearchTick(c) \/ StalePreviewTick(c) \/ PreviewTick(c)
        \/ PreviewLoaded(c) \/ DetailLoaded(c) \/ InstallDone(c)

Next == KeyPress \/ Deliver

Spec == Init /\ [][Next]_vars

\* Bubbletea runs every command and delivers its message; the user may stop.
FairSpec == Spec /\ WF_vars(Deliver)
-----------------------------------------------------------------------------
(* Properties                                                              *)

Whats == {ListOf(s) : s \in Sorts} \cup {SearchFor(q) : q \in Texts}
Ops == {"page", "append", "searchTick", "previewTick", "preview", "detail", "install"}

\* The fields of model, browseState and detailState keep their types.
TypeOK ==
    /\ view \in {"browse", "detail"} /\ mode \in {"list", "search"} /\ sort \in Sorts
    /\ query \in Texts \cup {None} /\ (mode = "search" <=> query # None)
    /\ {searchFocused, loading, loadingMore, hasMore, previewBusy, confirmInstall, installing}
           \subseteq BOOLEAN
    /\ \A i \in DOMAIN items : items[i].of \in Whats /\ items[i].at \in DOMAIN Results(items[i].of)
    /\ {cursor, start, debounceID, previewID, reqID, keys} \subseteq Nat
    /\ {preview, previewName, previewErr, installName, detail.name, detail.cookbook}
           \subseteq Names \cup {None}
    /\ previewCache \subseteq Names
    /\ \A c \in cmds : c.op \in Ops /\ c.what \in Whats /\ c.name \in Names \cup {None}

\* handleBrowseKey, openDetail and startInstall index items with the cursor,
\* whatever pages, searches and sorts have done to the list meanwhile.
CursorInList == cursor < Len(items) \/ (items = <<>> /\ cursor = 0)

\* While nothing is appended, the rows on screen are what the user asks for, in
\* the site's order (the check of applyCookbooksLoaded).
FirstPageIsAsked ==
    \A i \in DOMAIN items : items[i] = [of |-> Asked, at |-> i]

\* One install at a time, and none while another one is being asked about.
Installs == {c \in cmds : c.op = "install"}
OneInstall ==
    /\ installing <=> Installs # {}
    /\ Cardinality(Installs) <= 1
    /\ confirmInstall => ~installing

\* The detail screen shows the cookbook in its title, or none, and is loading
\* exactly when its answer is still to come.
DetailIsNamed ==
    /\ detail.cookbook \in {detail.name, None}
    /\ detail.loading => \E c \in cmds : c.op = "detail" /\ c.name = detail.name

\* What the view shows fits together, whatever arrived in whatever order: a row is under
\* the cursor, the detail belongs to its title, one install runs (list.go, detail.go).
ScreenIsSound == TypeOK /\ CursorInList /\ DetailIsNamed /\ OneInstall

\* A list that loads gets its page or an error, unless it is a search under a
\* sort other than the default, or the detail screen comes in between.
LoadingEnds ==
    loading ~> (~loading \/ view = "detail" \/ (mode = "search" /\ sort # DefaultSort))

\* A row not yet fetched that stays selected is previewed, or its error shown,
\* while the list is not reached by further pages or left for the detail screen.
PreviewEventually ==
    \A n \in Names :
        (Selected = {n} /\ n \notin previewCache)
            ~> (preview = n \/ previewErr = n \/ Selected # {n})
=============================================================================
