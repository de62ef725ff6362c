----------------------- MODULE SupermarketBrowseProofs -----------------------
(***************************************************************************)
(* Proofs about SupermarketBrowse, for every catalogue, page size and      *)
(* pattern of failures: what the two screens show fits together.           *)
(***************************************************************************)
EXTENDS SupermarketBrowse, FiniteSetTheorems, TLAPS

Row == [of : Whats, at : Nat]

\* Rows that name a result of the request they came from.
Listed(its) ==
    /\ its \in Seq(Row)
    /\ \A i \in DOMAIN its : its[i].at \in DOMAIN Results(its[i].of)

\* A command as the handlers start them: what is fetched by name has one.
Known(c) ==
    /\ c.op \in Ops /\ c.what \in Whats /\ c.first \in Nat /\ c.name \in Names \cup {None}
    /\ c.op \in {"previewTick", "preview", "detail"} => c.name \in Names

AsksFit ==
    /\ view \in {"browse", "detail"} /\ mode \in {"list", "search"} /\ sort \in Sorts
    /\ query \in Texts \cup {None} /\ (mode = "search" <=> query # None)
FlagsFit ==
    /\ searchFocused \in BOOLEAN /\ loading \in BOOLEAN /\ loadingMore \in BOOLEAN
    /\ hasMore \in BOOLEAN /\ previewBusy \in BOOLEAN
    /\ confirmInstall \in BOOLEAN /\ installing \in BOOLEAN
ListFits == Listed(items) /\ cursor \in Nat /\ start \in Nat /\ CursorInList
CountersFit == debounceID \in Nat /\ previewID \in Nat /\ reqID \in Nat /\ keys \in Nat
ShownFits ==
    /\ preview \in Names \cup {None} /\ previewName \in Names \cup {None}
    /\ previewErr \in Names \cup {None} /\ installName \in Names \cup {None}
    /\ previewCache \subseteq Names
DetailFits ==
    /\ detail \in [name : Names \cup {None}, cookbook : Names \cup {None}, loading : BOOLEAN]
    /\ DetailIsNamed
CmdsKnown == \A c \in cmds : Known(c)

\* As OneInstall, without counting.
OneAtATime ==
    /\ installing <=> Installs # {}
    /\ \A c, d \in Installs : c = d
    /\ confirmInstall => ~installing

\* The inductive invariant.
IInv ==
    /\ AsksFit /\ FlagsFit /\ ListFits /\ CountersFit
    /\ ShownFits /\ DetailFits /\ CmdsKnown /\ OneAtATime
-----------------------------------------------------------------------------
(* What the site returns                                                   *)

\* Every request is about a list or a search that the site can answer, with names.
LEMMA ResultsAreNames == \A what \in Whats : Results(what) \in Seq(Names)
<1> SUFFICES ASSUME NEW what \in Whats PROVE Results(what) \in Seq(Names)
  OBVIOUS
<1>1. CASE \E s \in Sorts : what = ListOf(s)
  BY <1>1, CatalogueAssumption DEF Results, ListOf
<1>2. CASE \E q \in Texts : what = SearchFor(q)
  BY <1>2, CatalogueAssumption DEF Results, SearchFor
<1> QED
  BY <1>1, <1>2 DEF Whats

\* A page is a sequence of rows of what was asked for (api.go).
LEMMA PageIsListed ==
    ASSUME NEW what \in Whats, NEW first \in Nat
    PROVE  Listed(RowsFrom(what, first))
<1> DEFINE count == Len(Results(what))
           left == IF first >= count THEN 0 ELSE count - first
           size == IF left < PageSize THEN left ELSE PageSize
           rows == [i \in 1..size |-> [of |-> what, at |-> first + i]]
<1>1. count \in Nat /\ DOMAIN Results(what) = 1..count
  BY ResultsAreNames
<1>2. size \in Nat /\ \A i \in 1..size : first + i \in 1..count
  BY <1>1, CatalogueAssumption
<1>3. RowsFrom(what, first) = rows
  BY DEF RowsFrom
<1> HIDE DEF count, left, size
<1>4. \A i \in 1..size : [of |-> what, at |-> first + i] \in Row
  BY <1>2 DEF Row
<1>5. rows \in Seq(Row)
  BY <1>2, <1>4
<1>6. DOMAIN rows = 1..size /\ \A i \in 1..size : rows[i].of = what /\ rows[i].at = first + i
  OBVIOUS
<1>7. \A i \in DOMAIN rows : rows[i].at \in DOMAIN Results(rows[i].of)
  BY <1>1, <1>2, <1>6
<1> HIDE DEF rows
<1> QED
  BY <1>3, <1>5, <1>7 DEF Listed

\* Whether there are rows after a page is yes or no.
LEMMA MoreIsKnown ==
    ASSUME NEW what \in Whats, NEW first \in Nat
    PROVE  HasMore(what, first) \in BOOLEAN
<1>1. Len(Results(what)) \in Nat
  BY ResultsAreNames
<1>2. Len(RowsFrom(what, first)) \in Nat
  BY PageIsListed DEF Listed
<1> QED
  BY <1>1, <1>2 DEF HasMore

\* The name of a row is one of the catalogue, and a position has at most one.
LEMMA RowsAreNamed ==
    ASSUME NEW its, Listed(its), NEW c \in Nat
    PROVE  /\ RowAt(its, c) \subseteq Names
           /\ \A m, n \in RowAt(its, c) : m = n
<1>1. \A i \in DOMAIN its : its[i] \in Row
  BY DEF Listed
<1>2. \A i \in DOMAIN its : its[i].of \in Whats /\ its[i].at \in DOMAIN Results(its[i].of)
  BY <1>1 DEF Row, Listed
<1>3. \A i \in DOMAIN its : NameOf(its[i]) \in Names
  BY <1>2, ResultsAreNames DEF NameOf
<1> QED
  BY <1>3 DEF RowAt

\* What the user asks for is something the site can answer.
LEMMA AskedIsKnown ==
    /\ AsksFit => Asked \in Whats
    /\ \A s \in Sorts : ListOf(s) \in Whats
    /\ \A q \in Texts : SearchFor(q) \in Whats
    /\ Nothing \in Whats
  BY CatalogueAssumption DEF AsksFit, Asked, Whats, Nothing

\* A schedulePreview starts at most one tick, for a named cookbook.
LEMMA TicksAreKnown ==
    ASSUME NEW its, Listed(its), NEW c \in Nat
    PROVE  /\ \A t \in PreviewTicks(its, c) : Known(t) /\ t.op = "previewTick"
           /\ Cardinality(PreviewTicks(its, c)) \in Nat
           /\ OneOf(RowAt(its, c)) \in Names \cup {None}
<1>1. RowAt(its, c) \subseteq Names /\ \A m, n \in RowAt(its, c) : m = n
  BY RowsAreNamed
<1>2. \A t \in PreviewTicks(its, c) : Known(t) /\ t.op = "previewTick"
  BY <1>1, AskedIsKnown DEF PreviewTicks, About, Command, Known, Ops
<1>3. PreviewTicks(its, c) = {} => Cardinality(PreviewTicks(its, c)) = 0
  BY FS_EmptySet
<1>4. ASSUME PreviewTicks(its, c) # {} PROVE Cardinality(PreviewTicks(its, c)) = 1
  <2>1. PICK t : t \in PreviewTicks(its, c)
    BY <1>4
  <2>2. PreviewTicks(its, c) = {t}
    BY <1>1, <2>1 DEF PreviewTicks
  <2> QED
    BY <2>2, FS_Singleton
<1>5. OneOf(RowAt(its, c)) \in Names \cup {None}
  BY <1>1 DEF OneOf
<1> QED
  BY <1>2, <1>3, <1>4, <1>5

\* A page request of a list or a search is a command as it should be.
LEMMA PagesAreKnown ==
    ASSUME NEW what \in Whats, NEW first \in Nat, NEW id, NEW op \in {"page", "append"}
    PROVE  Known(PageOf(op, id, what, first)) /\ PageOf(op, id, what, first).op = op
  BY DEF Known, PageOf, Command, Ops

\* So is a command about a cookbook.
LEMMA AboutIsKnown ==
    ASSUME NEW n \in Names \cup {None}, NEW id, NEW op \in Ops,
           op \in {"previewTick", "preview", "detail"} => n \in Names
    PROVE  Known(About(op, id, n)) /\ About(op, id, n).op = op /\ About(op, id, n).name = n
  BY AskedIsKnown DEF Known, About, Command
-----------------------------------------------------------------------------
(* The first state and the steps                                           *)

LEMMA InitFits == ASSUME Init PROVE IInv
<1>1. AsksFit
  BY CatalogueAssumption DEF Init, AsksFit
<1>6. FlagsFit /\ CountersFit
  BY DEF Init, FlagsFit, CountersFit
<1>7. ListFits
  BY DEF Init, ListFits, Listed, CursorInList
<1>2. ShownFits /\ DetailFits
  BY DEF Init, ShownFits, DetailFits, DetailIsNamed
<1>3. CmdsKnown
  <2>1. ListOf(DefaultSort) \in Whats
    BY CatalogueAssumption, AskedIsKnown
  <2> QED
    BY <2>1, PagesAreKnown DEF Init, CmdsKnown
<1>4. Installs = {}
  BY DEF Init, Installs, PageOf, Command
<1>5. OneAtATime
  BY <1>4 DEF Init, OneAtATime
<1> QED
  BY <1>1, <1>2, <1>3, <1>5, <1>6, <1>7 DEF IInv

\* The commands under way after a handler has started more of them.
LEMMA MoreCommands ==
    ASSUME IInv, NEW more, cmds' = cmds \cup more,
           \A c \in more : Known(c) /\ c.op # "install"
    PROVE  CmdsKnown' /\ Installs' = Installs /\ cmds \subseteq cmds'
  BY DEF IInv, CmdsKnown, Known, Installs

\* The same when a message has arrived.
LEMMA Taken ==
    ASSUME IInv, NEW c, NEW op, NEW more, Take(c, op, more),
           \A d \in more : Known(d) /\ d.op # "install"
    PROVE  /\ CmdsKnown' /\ Installs' = Installs \ {c} /\ Known(c) /\ c \in cmds /\ c.op = op /\ keys' = keys
           /\ op # "install" => Installs' = Installs
           /\ cmds \ {c} \subseteq cmds'
  BY DEF IInv, CmdsKnown, Known, Installs, Take

\* What a step leaves alone stays as it is.
LEMMA Frames ==
    ASSUME IInv
    PROVE  /\ UNCHANGED <<view, mode, sort, query>> => AsksFit'
           /\ UNCHANGED <<items, cursor, start>> => ListFits'
           /\ UNCHANGED <<debounceID, previewID, reqID>> /\ keys' \in Nat => CountersFit'
           /\ UNCHANGED <<preview, previewName, previewErr, previewCache, installName>> => ShownFits'
           /\ UNCHANGED detail /\ {d \in cmds : d.op = "detail"} \subseteq cmds' => DetailFits'
           /\ UNCHANGED <<installing, confirmInstall>> /\ Installs' = Installs => OneAtATime'
           /\ UNCHANGED cmds => CmdsKnown' /\ Installs' = Installs
<1>1. UNCHANGED <<view, mode, sort, query>> => AsksFit'
  BY DEF IInv, AsksFit
<1>2. UNCHANGED <<items, cursor, start>> => ListFits'
  BY DEF IInv, ListFits, CursorInList
<1>3. UNCHANGED <<debounceID, previewID, reqID>> /\ keys' \in Nat => CountersFit'
  BY DEF IInv, CountersFit
<1>4. UNCHANGED <<preview, previewName, previewErr, previewCache, installName>> => ShownFits'
  BY DEF IInv, ShownFits
<1>5. UNCHANGED detail /\ {d \in cmds : d.op = "detail"} \subseteq cmds' => DetailFits'
  BY DEF IInv, DetailFits, DetailIsNamed
<1>6. UNCHANGED <<installing, confirmInstall>> /\ Installs' = Installs => OneAtATime'
  BY DEF IInv, OneAtATime
<1>7. UNCHANGED cmds => CmdsKnown' /\ Installs' = Installs
  BY DEF IInv, CmdsKnown, Installs
<1> QED
  BY <1>1, <1>2, <1>3, <1>4, <1>5, <1>6, <1>7

LEMMA KeysCount == ASSUME IInv, NEW k, Key(k) PROVE keys' \in Nat
  BY DEF Key, IInv, CountersFit
-----------------------------------------------------------------------------
(* Keys                                                                    *)

LEMMA FocusFits == ASSUME IInv, StartSearch \/ LeaveSearch \/ CloseDetail PROVE IInv'
<1>1. keys' \in Nat
  BY KeysCount DEF StartSearch, LeaveSearch, CloseDetail, Nav, Typing
<1>2. /\ UNCHANGED <<mode, sort, query, listVars, shownVars, paneVars, debounceID, previewID, reqID,
                     installVars, detail, cmds>>
      /\ UNCHANGED view \/ view' = "browse"
      /\ UNCHANGED searchFocused \/ searchFocused' \in BOOLEAN
  BY DEF StartSearch, LeaveSearch, CloseDetail, Nav, Typing, askVars
<1>3. AsksFit' /\ FlagsFit'
  BY <1>2 DEF IInv, AsksFit, FlagsFit, listVars, paneVars, installVars
<1> QED
  BY <1>1, <1>2, <1>3, Frames DEF IInv, listVars, shownVars, paneVars, installVars

LEMMA InstallKeysFit == ASSUME IInv, StartInstall \/ AnswerInstall PROVE IInv'
<1>1. keys' \in Nat
  BY KeysCount DEF StartInstall, AnswerInstall, Nav
<1>2. CASE StartInstall
  <2>1. PICK n \in Selected : confirmInstall' = TRUE /\ installName' = n
    BY <1>2 DEF StartInstall
  <2>2. n \in Names
    BY RowsAreNamed DEF Selected, IInv, ListFits
  <2>3. /\ UNCHANGED <<view, askVars, listVars, shownVars, paneVars, debounceID, previewID, reqID,
                       installing, detail, cmds>>
        /\ ~installing
    BY <1>2 DEF StartInstall
  <2>4. ShownFits' /\ FlagsFit'
    BY <2>1, <2>2, <2>3 DEF IInv, ShownFits, FlagsFit, askVars, listVars, shownVars, paneVars
  <2>5. OneAtATime'
    BY <2>3, Frames DEF IInv, OneAtATime
  <2> QED
    BY <1>1, <2>3, <2>4, <2>5, Frames DEF IInv, askVars, listVars
<1>3. CASE AnswerInstall
  <2>1. /\ UNCHANGED <<view, askVars, listVars, shownVars, paneVars, debounceID, previewID, reqID,
                       installName, detail>>
        /\ confirmInstall /\ confirmInstall' = FALSE
    BY <1>3 DEF AnswerInstall
  <2>2. ~installing /\ Installs = {}
    BY <2>1 DEF IInv, OneAtATime
  <2>3. CASE UNCHANGED <<installing, cmds>>
    <3>1. FlagsFit'
      BY <2>1, <2>3 DEF IInv, FlagsFit, askVars, listVars, paneVars
    <3>2. OneAtATime'
      BY <2>1, <2>2, <2>3, Frames DEF OneAtATime
    <3> QED
      BY <1>1, <2>1, <2>3, <3>1, <3>2, Frames DEF IInv, askVars, listVars, shownVars, paneVars
  <2>4. CASE installing' = TRUE /\ cmds' = cmds \cup {About("install", keys, installName)}
    <3> DEFINE new == About("install", keys, installName)
    <3>1. Known(new) /\ new.op = "install"
      BY AboutIsKnown DEF IInv, ShownFits, Ops
    <3> HIDE DEF new
    <3>2. CmdsKnown' /\ Installs' = {new} /\ cmds \subseteq cmds'
      BY <2>2, <2>4, <3>1 DEF IInv, CmdsKnown, Known, Installs, new
    <3>3. FlagsFit'
      BY <2>1, <2>4 DEF IInv, FlagsFit, askVars, listVars, paneVars
    <3>4. OneAtATime'
      BY <2>1, <2>4, <3>2 DEF OneAtATime
    <3> QED
      BY <1>1, <2>1, <3>2, <3>3, <3>4, Frames DEF IInv, askVars, listVars, shownVars, paneVars
  <2>5. (UNCHANGED <<installing, cmds>>)
        \/ (installing' = TRUE /\ cmds' = cmds \cup {About("install", keys, installName)})
    BY <1>3 DEF AnswerInstall, IInv, FlagsFit
  <2> QED
    BY <2>3, <2>4, <2>5
<1> QED
  BY <1>2, <1>3

\* An emptied list, and the request that fills it.
LEMMA ReloadFits ==
    ASSUME IInv, NEW what \in Whats, Reload(what)
    PROVE  /\ ListFits' /\ CmdsKnown' /\ Installs' = Installs /\ cmds \subseteq cmds'
           /\ keys' \in Nat => CountersFit'
           /\ UNCHANGED installName => ShownFits'
           /\ UNCHANGED <<searchFocused, confirmInstall, installing>> => FlagsFit'
<1>1. ListFits'
  BY DEF Reload, IInv, ListFits, Listed, CursorInList
<1>2. Known(PageOf("page", reqID + 1, what, 0)) /\ PageOf("page", reqID + 1, what, 0).op = "page"
  BY PagesAreKnown
<1>3. cmds' = cmds \cup {PageOf("page", reqID + 1, what, 0)}
  BY DEF Reload
<1>4. CmdsKnown' /\ Installs' = Installs /\ cmds \subseteq cmds'
  <2> DEFINE more == {PageOf("page", reqID + 1, what, 0)}
  <2>1. cmds' = cmds \cup more /\ \A c \in more : Known(c) /\ c.op # "install"
    BY <1>2, <1>3
  <2> HIDE DEF more
  <2> QED
    BY <2>1, MoreCommands
<1>5. keys' \in Nat => CountersFit'
  BY DEF Reload, IInv, CountersFit
<1>6. UNCHANGED installName => ShownFits'
  BY DEF Reload, IInv, ShownFits, paneVars
<1>7. UNCHANGED <<searchFocused, confirmInstall, installing>> => FlagsFit'
  BY DEF Reload, IInv, FlagsFit, paneVars
<1> QED
  BY <1>1, <1>4, <1>5, <1>6, <1>7

LEMMA ListKeysFit == ASSUME IInv, Esc \/ Erase \/ SetSort PROVE IInv'
<1>1. keys' \in Nat
  BY KeysCount DEF Esc, Erase, SetSort, Nav, Typing
<1>2. /\ UNCHANGED <<view, searchFocused, installVars, detail>>
      /\ \E s \in Sorts : Reload(ListOf(s)) /\ sort' \in Sorts
      /\ \/ query' = None /\ mode' = "list"
         \/ UNCHANGED <<query, mode>>
  <2>1. CASE Esc \/ Erase
    <3>1. sort \in Sorts
      BY DEF IInv, AsksFit
    <3> QED
      BY <2>1, <3>1 DEF Esc, Erase, ClearSearch
  <2>2. CASE SetSort
    BY <2>2 DEF SetSort
  <2> QED
    BY <2>1, <2>2
<1>3. PICK s \in Sorts : Reload(ListOf(s)) /\ sort' \in Sorts
  BY <1>2
<1>4. AsksFit'
  BY <1>2, <1>3 DEF IInv, AsksFit
<1>5. /\ ListFits' /\ CmdsKnown' /\ Installs' = Installs /\ cmds \subseteq cmds'
      /\ CountersFit' /\ ShownFits' /\ FlagsFit'
  BY <1>1, <1>2, <1>3, ReloadFits, AskedIsKnown DEF installVars
<1> QED
  BY <1>2, <1>4, <1>5, Frames DEF IInv, installVars

LEMMA TypeFits == ASSUME IInv, Type PROVE IInv'
<1>1. keys' \in Nat
  BY KeysCount DEF Type, Typing
<1>2. PICK q \in Texts :
          /\ query' = q /\ mode' = "search"
          /\ reqID' = reqID + 1 /\ debounceID' = reqID + 1
          /\ cmds' = cmds \cup {About("searchTick", reqID + 1, None)}
          /\ loading' = TRUE /\ items' = <<>> /\ cursor' = 0
          /\ UNCHANGED <<view, sort, searchFocused, start, hasMore, loadingMore, shownVars, paneVars,
                         previewID, installVars, detail>>
  BY DEF Type
<1>3. AsksFit'
  BY <1>2, CatalogueAssumption DEF IInv, AsksFit
<1>4. ListFits'
  BY <1>2 DEF IInv, ListFits, Listed, CursorInList
<1>5. CountersFit'
  BY <1>1, <1>2 DEF IInv, CountersFit
<1>6. FlagsFit'
  BY <1>2 DEF IInv, FlagsFit, paneVars, installVars
<1>7. CmdsKnown' /\ Installs' = Installs /\ cmds \subseteq cmds'
  <2> DEFINE more == {About("searchTick", reqID + 1, None)}
  <2>1. Known(About("searchTick", reqID + 1, None)) /\ About("searchTick", reqID + 1, None).op = "searchTick"
    BY AboutIsKnown DEF Ops
  <2>2. cmds' = cmds \cup more /\ \A c \in more : Known(c) /\ c.op # "install"
    BY <1>2, <2>1
  <2> HIDE DEF more
  <2> QED
    BY <2>2, MoreCommands
<1> QED
  BY <1>2, <1>3, <1>4, <1>5, <1>6, <1>7, Frames DEF IInv, shownVars, paneVars, installVars

LEMMA OpenDetailFits == ASSUME IInv, OpenDetail PROVE IInv'
<1>1. keys' \in Nat
  BY KeysCount DEF OpenDetail, Nav
<1>2. PICK n \in Selected :
          /\ view' = "detail"
          /\ \/ /\ detail' = [name |-> n, cookbook |-> n, loading |-> FALSE]
                /\ UNCHANGED <<reqID, cmds>>
             \/ /\ detail' = [name |-> n, cookbook |-> None, loading |-> TRUE]
                /\ reqID' = reqID + 1
                /\ cmds' = cmds \cup {About("detail", reqID + 1, n)}
          /\ UNCHANGED <<askVars, listVars, shownVars, paneVars, debounceID, previewID, installVars>>
  BY DEF OpenDetail
<1>3. n \in Names
  BY RowsAreNamed DEF Selected, IInv, ListFits
<1>4. AsksFit' /\ FlagsFit'
  BY <1>2 DEF IInv, AsksFit, FlagsFit, askVars, listVars, paneVars, installVars
<1>5. CountersFit'
  BY <1>1, <1>2 DEF IInv, CountersFit
<1>6. CASE UNCHANGED cmds /\ detail' = [name |-> n, cookbook |-> n, loading |-> FALSE]
  <2>1. DetailFits'
    BY <1>3, <1>6 DEF DetailFits, DetailIsNamed
  <2> QED
    BY <1>2, <1>4, <1>5, <1>6, <2>1, Frames DEF IInv, listVars, shownVars, paneVars, installVars
<1>7. CASE /\ detail' = [name |-> n, cookbook |-> None, loading |-> TRUE]
           /\ cmds' = cmds \cup {About("detail", reqID + 1, n)}
  <2> DEFINE new == About("detail", reqID + 1, n)
  <2>1. Known(new) /\ new.op = "detail" /\ new.name = n
    BY <1>3, AboutIsKnown DEF Ops
  <2> HIDE DEF new
  <2>2. cmds' = cmds \cup {new}
    BY <1>7 DEF new
  <2>3. CmdsKnown' /\ Installs' = Installs
    <3> DEFINE more == {new}
    <3>1. cmds' = cmds \cup more /\ \A c \in more : Known(c) /\ c.op # "install"
      BY <2>1, <2>2
    <3> HIDE DEF more
    <3> QED
      BY <3>1, MoreCommands
  <2>4. DetailFits'
    BY <1>3, <1>7, <2>1, <2>2 DEF DetailFits, DetailIsNamed
  <2> QED
    BY <1>2, <1>4, <1>5, <2>3, <2>4, Frames DEF IInv, listVars, shownVars, paneVars, installVars
<1> QED
  BY <1>2, <1>6, <1>7

\* Moving the cursor previews the row and may ask for the next page, of what is asked for now.
LEMMA MoveCursorFits == ASSUME IInv, MoveCursor PROVE IInv'
<1>1. keys' \in Nat
  BY KeysCount DEF MoveCursor, Nav
<1>2. PICK c \in 0..(Len(items) - 1) :
          LET ticks == PreviewTicks(items, c)
              more == hasMore /\ ~loadingMore /\ c + Prefetch >= Len(items)
              fetch == IF more
                       THEN {PageOf("append", reqID + Cardinality(ticks) + 1, Asked, start + Len(items))}
                       ELSE {}
          IN  /\ cursor' = c
              /\ SchedulePreview(items, c, preview, previewName)
              /\ loadingMore' = (loadingMore \/ more)
              /\ reqID' = reqID + Cardinality(ticks) + Cardinality(fetch)
              /\ cmds' = cmds \cup ticks \cup fetch
              /\ UNCHANGED <<view, askVars, items, start, hasMore, loading, paneVars, debounceID,
                             installVars, detail>>
  BY DEF MoveCursor
<1> DEFINE ticks == PreviewTicks(items, c)
           more == hasMore /\ ~loadingMore /\ c + Prefetch >= Len(items)
           page == PageOf("append", reqID + Cardinality(ticks) + 1, Asked, start + Len(items))
           fetch == IF more THEN {page} ELSE {}
<1>3. /\ Listed(items) /\ start \in Nat /\ Len(items) \in Nat /\ c \in Nat
      /\ c < Len(items) /\ reqID \in Nat /\ Asked \in Whats
  BY AskedIsKnown DEF IInv, ListFits, Listed, CountersFit
<1>4. /\ \A t \in ticks : Known(t) /\ t.op = "previewTick"
      /\ Cardinality(ticks) \in Nat
      /\ OneOf(RowAt(items, c)) \in Names \cup {None}
  BY <1>3, TicksAreKnown
<1>5. Known(page) /\ page.op = "append"
  BY <1>3, PagesAreKnown
<1> HIDE DEF ticks, page
<1>6. Cardinality(fetch) \in Nat
  <2>1. \A x : Cardinality({x}) = 1
    BY FS_Singleton
  <2>2. Cardinality({page}) = 1 /\ Cardinality({}) = 0
    BY <2>1, FS_EmptySet
  <2> QED
    BY <2>2
<1>7. CmdsKnown' /\ Installs' = Installs /\ cmds \subseteq cmds'
  <2>1. cmds' = cmds \cup (ticks \cup fetch) /\ \A d \in ticks \cup fetch : Known(d) /\ d.op # "install"
    BY <1>2, <1>4, <1>5 DEF ticks, page
  <2> QED
    BY <2>1, MoreCommands
<1>8. ListFits'
  BY <1>2, <1>3 DEF ListFits, CursorInList
<1>9. CountersFit'
  BY <1>1, <1>2, <1>3, <1>4, <1>6 DEF IInv, CountersFit, SchedulePreview, ticks, page
<1>10. ShownFits'
  BY <1>2, <1>4 DEF IInv, ShownFits, SchedulePreview, paneVars, installVars
<1>11. FlagsFit'
  BY <1>2 DEF IInv, FlagsFit, askVars, paneVars, installVars
<1> QED
  BY <1>2, <1>7, <1>8, <1>9, <1>10, <1>11, Frames DEF IInv, askVars, installVars
-----------------------------------------------------------------------------
(* Messages                                                                *)

\* A message that starts nothing, as Taken.
LEMMA TakenAlone ==
    ASSUME IInv, NEW c, NEW op, Take(c, op, {}), op # "install"
    PROVE  /\ CmdsKnown' /\ Installs' = Installs /\ Known(c) /\ c \in cmds /\ c.op = op
           /\ keys' \in Nat /\ cmds \ {c} \subseteq cmds'
<1>1. keys \in Nat
  BY DEF IInv, CountersFit
<1> DEFINE none == {}
<1>2. Take(c, op, none) /\ \A d \in none : Known(d) /\ d.op # "install"
  OBVIOUS
<1> HIDE DEF none
<1> QED
  BY <1>1, <1>2, Taken

LEMMA DroppedFits ==
    ASSUME IInv, NEW c, IgnoredInDetail(c) \/ StalePage(c) \/ StalePreviewTick(c)
    PROVE  IInv'
<1>1. /\ Take(c, c.op, {}) /\ c.op \in ListOps
      /\ UNCHANGED <<view, askVars, listVars, shownVars, paneVars, debounceID, previewID, reqID,
                     installVars, detail>>
  BY DEF IgnoredInDetail, StalePage, StalePreviewTick, Take, ListOps
<1>2. /\ CmdsKnown' /\ Installs' = Installs /\ keys' \in Nat
      /\ {d \in cmds : d.op = "detail"} \subseteq cmds'
  BY <1>1, TakenAlone DEF ListOps
<1>3. FlagsFit'
  BY <1>1 DEF IInv, FlagsFit, askVars, listVars, paneVars, installVars
<1> QED
  BY <1>1, <1>2, <1>3, Frames DEF IInv, askVars, listVars, shownVars, paneVars, installVars

LEMMA PageFailedFits == ASSUME IInv, NEW c, PageFailed(c) PROVE IInv'
<1>1. /\ Take(c, c.op, {}) /\ c.op \in {"page", "append"}
      /\ loading' = FALSE /\ loadingMore' = FALSE
      /\ UNCHANGED <<view, askVars, items, cursor, start, hasMore, shownVars, paneVars, debounceID,
                     previewID, reqID, installVars, detail>>
  BY DEF PageFailed
<1>2. /\ CmdsKnown' /\ Installs' = Installs /\ keys' \in Nat
      /\ {d \in cmds : d.op = "detail"} \subseteq cmds'
  BY <1>1, TakenAlone
<1>3. FlagsFit'
  BY <1>1 DEF IInv, FlagsFit, askVars, paneVars, installVars
<1> QED
  BY <1>1, <1>2, <1>3, Frames DEF IInv, askVars, shownVars, paneVars, installVars

\* A page that replaces the list: the cursor is on its first row, which is previewed.
LEMMA PageLoadedFits == ASSUME IInv, NEW c, PageLoaded(c) PROVE IInv'
<1> DEFINE rows == RowsFrom(c.what, c.first)
           ticks == PreviewTicks(rows, 0)
<1>1. /\ Take(c, "page", ticks)
      /\ items' = rows /\ cursor' = 0
      /\ SchedulePreview(rows, 0, None, None)
      /\ reqID' = reqID + Cardinality(ticks)
      /\ PageTaken(c)
  BY DEF PageLoaded
<1>2. Known(c)
  BY <1>1 DEF Take, IInv, CmdsKnown
<1>3. Listed(rows)
  BY <1>2, PageIsListed DEF Known
<1>4. /\ \A t \in ticks : Known(t) /\ t.op = "previewTick"
      /\ Cardinality(ticks) \in Nat
      /\ OneOf(RowAt(rows, 0)) \in Names \cup {None}
  BY <1>3, TicksAreKnown
<1> HIDE DEF rows
<1>5. ListFits'
  <2>1. 0 < Len(rows) \/ rows = <<>>
    BY <1>3 DEF Listed
  <2> QED
    BY <1>1, <1>2, <1>3, <2>1 DEF PageTaken, ListFits, CursorInList, Known
<1>6. ShownFits'
  BY <1>1, <1>4 DEF PageTaken, SchedulePreview, IInv, ShownFits, paneVars, installVars
<1> HIDE DEF ticks
<1>7. /\ CmdsKnown' /\ Installs' = Installs /\ keys' = keys
      /\ {d \in cmds : d.op = "detail"} \subseteq cmds'
  <2>1. \A t \in ticks : Known(t) /\ t.op # "install"
    BY <1>4
  <2> QED
    BY <1>1, <2>1, Taken
<1>8. CountersFit'
  BY <1>1, <1>4, <1>7 DEF PageTaken, SchedulePreview, IInv, CountersFit
<1>9. FlagsFit'
  <2>1. HasMore(c.what, c.first) \in BOOLEAN
    BY <1>2, MoreIsKnown DEF Known
  <2> QED
    BY <1>1, <2>1 DEF PageTaken, IInv, FlagsFit, askVars, paneVars, installVars
<1> QED
  BY <1>1, <1>5, <1>6, <1>7, <1>8, <1>9, Frames DEF PageTaken, IInv, askVars, installVars

\* A page that is added leaves the cursor where it was, in a longer list.
LEMMA PageAppendedFits == ASSUME IInv, NEW c, PageAppended(c) PROVE IInv'
<1> DEFINE rows == RowsFrom(c.what, c.first)
<1>1. /\ Take(c, "append", {})
      /\ items' = items \o rows
      /\ PageTaken(c)
      /\ UNCHANGED <<cursor, shownVars, previewID, reqID>>
  BY DEF PageAppended
<1>2. /\ CmdsKnown' /\ Installs' = Installs /\ keys' \in Nat /\ Known(c)
      /\ {d \in cmds : d.op = "detail"} \subseteq cmds'
  BY <1>1, TakenAlone
<1>3. Listed(rows)
  BY <1>2, PageIsListed DEF Known
<1> HIDE DEF rows
<1>4. ListFits'
  <2>1. /\ items \in Seq(Row) /\ rows \in Seq(Row)
        /\ Len(items \o rows) = Len(items) + Len(rows) /\ items \o rows \in Seq(Row)
    BY <1>3 DEF IInv, ListFits, Listed
  <2>2. ASSUME NEW i \in DOMAIN (items \o rows)
        PROVE  (items \o rows)[i].at \in DOMAIN Results((items \o rows)[i].of)
    <3>1. CASE i \in DOMAIN items
      BY <2>1, <3>1 DEF IInv, ListFits, Listed
    <3>2. CASE i \notin DOMAIN items
      BY <1>3, <2>1, <3>2 DEF Listed
    <3> QED
      BY <3>1, <3>2
  <2>3. Listed(items')
    BY <1>1, <2>1, <2>2 DEF Listed
  <2>4. cursor < Len(items') \/ (items' = <<>> /\ cursor = 0)
    <3>1. CASE cursor < Len(items)
      BY <1>1, <2>1, <3>1 DEF IInv, ListFits
    <3>2. CASE items = <<>> /\ cursor = 0
      BY <1>1, <2>1, <3>2
    <3> QED
      BY <3>1, <3>2 DEF IInv, ListFits, CursorInList
  <2> QED
    BY <1>1, <1>2, <2>3, <2>4 DEF PageTaken, IInv, ListFits, CursorInList, Known
<1>5. FlagsFit'
  <2>1. HasMore(c.what, c.first) \in BOOLEAN
    BY <1>2, MoreIsKnown DEF Known
  <2> QED
    BY <1>1, <2>1 DEF PageTaken, IInv, FlagsFit, askVars, paneVars, installVars
<1> QED
  BY <1>1, <1>2, <1>4, <1>5, Frames DEF PageTaken, IInv, askVars, shownVars, paneVars, installVars

LEMMA SearchTickFits == ASSUME IInv, NEW c, SearchTick(c) PROVE IInv'
<1> DEFINE what == IF query = None THEN ListOf(sort) ELSE SearchFor(query)
           more == IF c.id = debounceID THEN {PageOf("page", reqID + 1, what, 0)} ELSE {}
<1>1. /\ Take(c, "searchTick", more)
      /\ reqID' = reqID \/ reqID' = reqID + 1
      /\ UNCHANGED <<view, askVars, listVars, shownVars, paneVars, debounceID, previewID,
                     installVars, detail>>
  BY DEF SearchTick
<1>2. what \in Whats
  BY AskedIsKnown DEF IInv, AsksFit
<1> HIDE DEF what
<1>3. Known(PageOf("page", reqID + 1, what, 0)) /\ PageOf("page", reqID + 1, what, 0).op = "page"
  BY <1>2, PagesAreKnown
<1>4. \A d \in more : Known(d) /\ d.op # "install"
  BY <1>3
<1> HIDE DEF more
<1>5. /\ CmdsKnown' /\ Installs' = Installs /\ keys' = keys
      /\ {d \in cmds : d.op = "detail"} \subseteq cmds'
  BY <1>1, <1>4, Taken
<1>6. CountersFit'
  BY <1>1, <1>5 DEF IInv, CountersFit
<1>7. FlagsFit'
  BY <1>1 DEF IInv, FlagsFit, askVars, listVars, paneVars, installVars
<1> QED
  BY <1>1, <1>5, <1>6, <1>7, Frames DEF IInv, askVars, listVars, shownVars, paneVars, installVars

LEMMA PreviewTickFits == ASSUME IInv, NEW c, PreviewTick(c) PROVE IInv'
<1>1. /\ c \in cmds /\ c.op = "previewTick"
      /\ UNCHANGED <<view, askVars, listVars, previewErr, previewCache, debounceID, previewID,
                     reqID, installVars, detail>>
  BY DEF PreviewTick, Take
<1>2. c.name \in Names /\ c.name \in Names \cup {None}
  BY <1>1 DEF IInv, CmdsKnown, Known
<1>3. CASE Take(c, "previewTick", {}) /\ preview' = c.name /\ previewName' = c.name /\ UNCHANGED previewBusy
  <2>1. /\ CmdsKnown' /\ Installs' = Installs /\ keys' \in Nat
        /\ {d \in cmds : d.op = "detail"} \subseteq cmds'
    BY <1>3, TakenAlone
  <2>2. ShownFits'
    BY <1>1, <1>2, <1>3 DEF IInv, ShownFits, installVars
  <2>3. FlagsFit'
    BY <1>1, <1>3 DEF IInv, FlagsFit, askVars, listVars, installVars
  <2> QED
    BY <1>1, <2>1, <2>2, <2>3, Frames DEF IInv, askVars, listVars, installVars
<1>4. CASE /\ Take(c, "previewTick", {About("preview", c.id, c.name)})
           /\ previewBusy' = TRUE /\ UNCHANGED shownVars
  <2> DEFINE more == {About("preview", c.id, c.name)}
  <2>1. Known(About("preview", c.id, c.name)) /\ About("preview", c.id, c.name).op = "preview"
    BY <1>2, AboutIsKnown DEF Ops
  <2>2. Take(c, "previewTick", more) /\ \A d \in more : Known(d) /\ d.op # "install"
    BY <1>4, <2>1
  <2> HIDE DEF more
  <2>3. /\ CmdsKnown' /\ Installs' = Installs /\ keys' = keys
        /\ {d \in cmds : d.op = "detail"} \subseteq cmds'
    BY <2>2, Taken
  <2>4. FlagsFit'
    BY <1>1, <1>4 DEF IInv, FlagsFit, askVars, listVars, installVars
  <2>5. CountersFit'
    BY <1>1, <2>3 DEF IInv, CountersFit
  <2> QED
    BY <1>1, <1>4, <2>3, <2>4, <2>5, Frames DEF IInv, askVars, listVars, shownVars, installVars
<1> QED
  BY <1>3, <1>4 DEF PreviewTick

LEMMA PreviewLoadedFits == ASSUME IInv, NEW c, PreviewLoaded(c) PROVE IInv'
<1>1. /\ Take(c, "preview", {})
      /\ UNCHANGED <<view, askVars, listVars, debounceID, previewID, reqID, installVars, detail>>
  BY DEF PreviewLoaded
<1>2. /\ CmdsKnown' /\ Installs' = Installs /\ keys' \in Nat
      /\ {d \in cmds : d.op = "detail"} \subseteq cmds'
  BY <1>1, TakenAlone
<1>3. c.name \in Names
  BY <1>1 DEF Take, IInv, CmdsKnown, Known
<1>4. PICK ok \in Outcome(c) :
          IF c.id # previewID
          THEN UNCHANGED <<shownVars, paneVars>>
          ELSE /\ previewBusy' = FALSE
               /\ previewErr' = IF ok THEN None ELSE c.name
               /\ preview' = IF ok THEN c.name ELSE None
               /\ previewName' = IF ok THEN c.name ELSE previewName
               /\ previewCache' = IF ok THEN previewCache \cup {c.name} ELSE previewCache
  BY DEF PreviewLoaded
<1>5. ShownFits' /\ FlagsFit'
  <2>1. CASE UNCHANGED <<shownVars, paneVars>>
    BY <1>1, <2>1 DEF IInv, ShownFits, FlagsFit, askVars, listVars, shownVars, paneVars, installVars
  <2>2. CASE c.id = previewID
    BY <1>1, <1>3, <1>4, <2>2 DEF IInv, ShownFits, FlagsFit, askVars, listVars, installVars
  <2> QED
    BY <1>4, <2>1, <2>2
<1> QED
  BY <1>1, <1>2, <1>5, Frames DEF IInv, askVars, listVars, installVars

\* An answer for another cookbook than the one in the title leaves that one's under way.
LEMMA DetailLoadedFits == ASSUME IInv, NEW c, DetailLoaded(c) PROVE IInv'
<1>1. /\ Take(c, "detail", {})
      /\ UNCHANGED <<view, askVars, listVars, shownVars, previewErr, previewBusy, debounceID,
                     previewID, reqID, installVars>>
  BY DEF DetailLoaded
<1>2. /\ CmdsKnown' /\ Installs' = Installs /\ keys' \in Nat /\ cmds \ {c} \subseteq cmds'
  BY <1>1, TakenAlone
<1>3. c.name \in Names
  BY <1>1 DEF Take, IInv, CmdsKnown, Known
<1>4. FlagsFit'
  BY <1>1 DEF IInv, FlagsFit, askVars, listVars, installVars
<1>5. CASE c.name # detail.name
  <2>1. UNCHANGED <<detail, previewCache>>
    BY <1>5 DEF DetailLoaded
  <2>2. DetailFits'
    BY <1>2, <1>5, <2>1 DEF IInv, DetailFits, DetailIsNamed
  <2> QED
    BY <1>1, <1>2, <1>4, <2>1, <2>2, Frames DEF IInv, askVars, listVars, shownVars, installVars
<1>6. CASE c.name = detail.name
  <2>1. PICK ok \in Outcome(c) :
            /\ detail' = [detail EXCEPT !.loading = FALSE,
                                        !.cookbook = IF ok THEN c.name ELSE @]
            /\ previewCache' = IF ok THEN previewCache \cup {c.name} ELSE previewCache
    BY <1>6 DEF DetailLoaded
  <2>2. DetailFits'
    BY <1>3, <1>6, <2>1 DEF IInv, DetailFits, DetailIsNamed
  <2>3. ShownFits'
    BY <1>1, <1>3, <2>1 DEF IInv, ShownFits, shownVars, installVars
  <2> QED
    BY <1>1, <1>2, <1>4, <2>2, <2>3, Frames DEF IInv, askVars, listVars, installVars
<1> QED
  BY <1>5, <1>6

\* The install that ends is the only one.
LEMMA InstallDoneFits == ASSUME IInv, NEW c, InstallDone(c) PROVE IInv'
<1>1. /\ c \in cmds /\ c.op = "install" /\ cmds' = cmds \ {c} /\ keys' = keys
      /\ installing' = FALSE
      /\ UNCHANGED <<view, askVars, listVars, shownVars, paneVars, debounceID, previewID, reqID,
                     confirmInstall, installName, detail>>
  BY DEF InstallDone, Take
<1>2. CmdsKnown' /\ {d \in cmds : d.op = "detail"} \subseteq cmds'
  BY <1>1 DEF IInv, CmdsKnown
<1>3. OneAtATime'
  BY <1>1 DEF IInv, OneAtATime, Installs
<1>4. FlagsFit'
  BY <1>1 DEF IInv, FlagsFit, askVars, listVars, paneVars
<1>5. CountersFit'
  BY <1>1 DEF IInv, CountersFit
<1> QED
  BY <1>1, <1>2, <1>3, <1>4, <1>5, Frames DEF IInv, askVars, listVars, shownVars, paneVars
-----------------------------------------------------------------------------
(* The theorem                                                             *)

LEMMA StutterFits == ASSUME IInv, UNCHANGED vars PROVE IInv'
<1>1. /\ UNCHANGED <<view, mode, sort, query, searchFocused, items, cursor, start, hasMore, loading,
                     loadingMore, preview, previewName, previewErr, previewBusy, previewCache>>
      /\ UNCHANGED <<debounceID, previewID, reqID, confirmInstall, installName, installing, detail,
                     cmds, keys>>
  BY DEF vars, askVars, listVars, shownVars, paneVars, installVars
<1>2. FlagsFit' /\ CountersFit'
  BY <1>1 DEF IInv, FlagsFit, CountersFit
<1> QED
  BY <1>1, <1>2, Frames DEF IInv

LEMMA StepFits == ASSUME IInv, [Next]_vars PROVE IInv'
<1>1. CASE KeyPress
  BY <1>1, MoveCursorFits, ListKeysFit, OpenDetailFits, FocusFits, TypeFits, InstallKeysFit DEF KeyPress
<1>2. CASE Deliver
  BY <1>2, DroppedFits, PageFailedFits, PageLoadedFits, PageAppendedFits, SearchTickFits,
     PreviewTickFits, PreviewLoadedFits, DetailLoadedFits, InstallDoneFits DEF Deliver
<1>3. CASE UNCHANGED vars
  BY <1>3, StutterFits
<1> QED
  BY <1>1, <1>2, <1>3 DEF Next

\* What the invariant says is what the screen needs.
LEMMA FitsIsSound == ASSUME IInv PROVE ScreenIsSound
<1>1. Cardinality(Installs) <= 1
  <2>1. CASE Installs = {}
    BY <2>1, FS_EmptySet
  <2>2. CASE Installs # {}
    <3>1. PICK c : c \in Installs
      BY <2>2
    <3>2. Installs = {c}
      BY <3>1 DEF IInv, OneAtATime
    <3>3. Cardinality({c}) = 1
      BY FS_Singleton
    <3> QED
      BY <3>2, <3>3
  <2> QED
    BY <2>1, <2>2
<1>2. OneInstall
  BY <1>1 DEF IInv, OneAtATime, OneInstall
<1>3. CursorInList /\ DetailIsNamed
  BY DEF IInv, ListFits, DetailFits
<1>4. \A i \in DOMAIN items : items[i].of \in Whats /\ items[i].at \in DOMAIN Results(items[i].of)
  <2>1. \A i \in DOMAIN items : items[i] \in Row
    BY DEF IInv, ListFits, Listed
  <2> QED
    BY <2>1 DEF IInv, ListFits, Listed, Row
<1>5. {searchFocused, loading, loadingMore, hasMore, previewBusy, confirmInstall, installing}
          \subseteq BOOLEAN
  BY DEF IInv, FlagsFit
<1>6. {cursor, start, debounceID, previewID, reqID, keys} \subseteq Nat
  BY DEF IInv, ListFits, CountersFit
<1>7. {preview, previewName, previewErr, installName, detail.name, detail.cookbook}
          \subseteq Names \cup {None}
  BY DEF IInv, ShownFits, DetailFits
<1>8. \A c \in cmds : c.op \in Ops /\ c.what \in Whats /\ c.name \in Names \cup {None}
  BY DEF IInv, CmdsKnown, Known
<1>9. TypeOK
  BY <1>4, <1>5, <1>6, <1>7, <1>8 DEF TypeOK, IInv, AsksFit, ShownFits
<1> QED
  BY <1>2, <1>3, <1>9 DEF ScreenIsSound

\* The fields keep their types, a row is under the cursor of a list that has any, the detail
\* belongs to its title and one install runs at a time, whatever arrives in whatever order.
THEOREM ScreenIsSoundHolds == Spec => []ScreenIsSound
<1>1. Init => IInv
  BY InitFits
<1>2. IInv /\ [Next]_vars => IInv'
  BY StepFits
<1>3. IInv => ScreenIsSound
  BY FitsIsSound
<1> QED
  BY <1>1, <1>2, <1>3, PTL DEF Spec

-----------------------------------------------------------------------------
(* The first page                                                          *)

\* A first page is asked for from its first row.
PagesAtTop == \A c \in cmds : c.op = "page" => c.first = 0

\* No further page arrives on the list.
NoFurtherPage == ~ \E c \in cmds : PageAppended(c)

\* A step that starts no first page leaves the others as they are.
LEMMA PagesStay ==
    ASSUME PagesAtTop, \A c \in cmds' \ cmds : c.op = "page" => c.first = 0
    PROVE  PagesAtTop'
  BY DEF PagesAtTop

\* Reload asks from the first row, and has no rows.
LEMMA ReloadAtTop ==
    ASSUME PagesAtTop, NEW what, Reload(what)
    PROVE  PagesAtTop' /\ items' = <<>>
<1>1. PageOf("page", reqID + 1, what, 0).first = 0
  BY DEF PageOf, Command
<1>2. cmds' = cmds \cup {PageOf("page", reqID + 1, what, 0)} /\ items' = <<>>
  BY DEF Reload
<1> QED
  BY <1>1, <1>2, PagesStay

\* What passes the check of applyCookbooksLoaded is what the user asks for: a page of a
\* search carries its text and the default sort, one of the list its sort and no text.
LEMMA MatchIsAsked ==
    ASSUME AsksFit, NEW what \in Whats, Matches(what)
    PROVE  what = Asked
<1>1. CASE \E s \in Sorts : what = ListOf(s)
  BY <1>1 DEF Matches, ListOf, Asked
<1>2. CASE \E q \in Texts : what = SearchFor(q)
  BY <1>2 DEF Matches, SearchFor, Asked
<1> QED
  BY <1>1, <1>2 DEF Whats

\* A page from the first row has the rows in the site's order.
LEMMA TopRows ==
    ASSUME NEW what \in Whats
    PROVE  \A i \in DOMAIN RowsFrom(what, 0) : RowsFrom(what, 0)[i] = [of |-> what, at |-> i]
<1> DEFINE count == Len(Results(what))
           left == IF 0 >= count THEN 0 ELSE count - 0
           size == IF left < PageSize THEN left ELSE PageSize
<1>1. count \in Nat
  BY ResultsAreNames
<1>2. size \in Nat
  BY <1>1, CatalogueAssumption
<1>3. RowsFrom(what, 0) = [i \in 1..size |-> [of |-> what, at |-> 0 + i]]
  BY DEF RowsFrom
<1> HIDE DEF size
<1>4. \A i \in 1..size : 0 + i = i
  BY <1>2
<1> QED
  BY <1>3, <1>4

\* The keys leave rows of what is asked for, or none.
LEMMA KeysAtTop ==
    ASSUME IInv, PagesAtTop, FirstPageIsAsked, KeyPress
    PROVE  PagesAtTop' /\ FirstPageIsAsked'
<1>1. ASSUME items' = <<>> PROVE FirstPageIsAsked'
  BY <1>1 DEF FirstPageIsAsked
<1>2. ASSUME UNCHANGED <<items, mode, sort, query>> PROVE FirstPageIsAsked'
  BY <1>2 DEF FirstPageIsAsked, Asked
<1>3. CASE MoveCursor
  <2>1. PICK c \in {cursor + 1, 0, Len(items) - 1} \cup (IF cursor = 0 THEN {} ELSE {cursor - 1}) :
           LET ticks == PreviewTicks(items, c)
               more == hasMore /\ ~loadingMore /\ c + Prefetch >= Len(items)
               fetch == IF more
                        THEN {PageOf("append", reqID + Cardinality(ticks) + 1, Asked,
                                     start + Len(items))}
                        ELSE {}
           IN  cmds' = cmds \cup ticks \cup fetch
    BY <1>3 DEF MoveCursor
  <2> DEFINE ticks == PreviewTicks(items, c)
             page == PageOf("append", reqID + Cardinality(ticks) + 1, Asked, start + Len(items))
  <2>2. cmds' \subseteq cmds \cup ticks \cup {page}
    BY <2>1
  <2>3. page.op # "page" /\ \A t \in ticks : t.op # "page"
    BY DEF PageOf, PreviewTicks, About, Command
  <2> HIDE DEF ticks, page
  <2> QED
    BY <1>2, <1>3, <2>2, <2>3, PagesStay DEF MoveCursor, askVars
<1>4. CASE StartSearch \/ LeaveSearch \/ CloseDetail \/ StartInstall
  <2>1. UNCHANGED <<items, mode, sort, query, cmds>>
    BY <1>4 DEF StartSearch, LeaveSearch, CloseDetail, StartInstall, listVars, askVars
  <2> QED
    BY <1>2, <2>1 DEF PagesAtTop
<1>5. CASE OpenDetail \/ AnswerInstall
  <2>1. \A id, n : About("detail", id, n).op # "page" /\ About("install", id, n).op # "page"
    BY DEF About, Command
  <2>2. \A c \in cmds' \ cmds : c.op # "page"
    BY <1>5, <2>1 DEF OpenDetail, AnswerInstall
  <2>3. UNCHANGED <<items, mode, sort, query>>
    BY <1>5 DEF OpenDetail, AnswerInstall, listVars, askVars
  <2> QED
    BY <1>2, <2>2, <2>3, PagesStay
<1>6. CASE Esc \/ Erase \/ SetSort
  BY <1>1, <1>6, ReloadAtTop DEF Esc, Erase, SetSort, ClearSearch
<1>7. CASE Type
  <2>1. About("searchTick", reqID + 1, None).op # "page"
    BY DEF About, Command
  <2>2. cmds' = cmds \cup {About("searchTick", reqID + 1, None)} /\ items' = <<>>
    BY <1>7 DEF Type
  <2> QED
    BY <1>1, <2>1, <2>2, PagesStay
<1> QED
  BY <1>3, <1>4, <1>5, <1>6, <1>7 DEF KeyPress

\* So do the messages, but for a further page.
LEMMA MessagesAtTop ==
    ASSUME IInv, PagesAtTop, FirstPageIsAsked, NEW c,
           \/ IgnoredInDetail(c) \/ StalePage(c) \/ PageFailed(c) \/ PageLoaded(c)
           \/ SearchTick(c) \/ StalePreviewTick(c) \/ PreviewTick(c)
           \/ PreviewLoaded(c) \/ DetailLoaded(c) \/ InstallDone(c)
    PROVE  PagesAtTop' /\ FirstPageIsAsked'
<1>1. ASSUME UNCHANGED <<items, mode, sort, query>> PROVE FirstPageIsAsked'
  BY <1>1 DEF FirstPageIsAsked, Asked
<1>2. ASSUME cmds' \subseteq cmds PROVE PagesAtTop'
  BY <1>2 DEF PagesAtTop
<1>3. CASE IgnoredInDetail(c) \/ StalePage(c) \/ PageFailed(c) \/ StalePreviewTick(c)
           \/ PreviewLoaded(c) \/ DetailLoaded(c) \/ InstallDone(c)
  <2>1. cmds' \subseteq cmds
    BY <1>3 DEF IgnoredInDetail, StalePage, PageFailed, StalePreviewTick, PreviewLoaded, DetailLoaded,
       InstallDone, Take
  <2>2. UNCHANGED <<items, mode, sort, query>>
    BY <1>3 DEF IgnoredInDetail, StalePage, PageFailed, StalePreviewTick, PreviewLoaded, DetailLoaded,
       InstallDone, listVars, askVars
  <2> QED
    BY <1>1, <1>2, <2>1, <2>2
<1>4. CASE SearchTick(c)
  <2> DEFINE what == IF query = None THEN ListOf(sort) ELSE SearchFor(query)
             page == PageOf("page", reqID + 1, what, 0)
  <2>1. page.first = 0
    BY DEF PageOf, Command
  <2>2. cmds' \subseteq cmds \cup {page} /\ UNCHANGED <<items, mode, sort, query>>
    BY <1>4 DEF SearchTick, Take, listVars, askVars
  <2> HIDE DEF page
  <2> QED
    BY <1>1, <2>1, <2>2, PagesStay
<1>5. CASE PreviewTick(c)
  <2>1. About("preview", c.id, c.name).op # "page"
    BY DEF About, Command
  <2>2. cmds' \subseteq cmds \cup {About("preview", c.id, c.name)} /\ UNCHANGED <<items, mode, sort, query>>
    BY <1>5 DEF PreviewTick, Take, listVars, askVars
  <2> QED
    BY <1>1, <2>1, <2>2, PagesStay
<1>6. CASE PageLoaded(c)
  <2> DEFINE rows == RowsFrom(c.what, c.first)
  <2>1. /\ Matches(c.what) /\ c \in cmds /\ c.op = "page" /\ items' = rows
        /\ cmds' = (cmds \ {c}) \cup PreviewTicks(rows, 0) /\ UNCHANGED askVars
    BY <1>6 DEF PageLoaded, Take, PageTaken
  <2>2. c.what \in Whats /\ c.first = 0 /\ AsksFit
    BY <2>1 DEF PagesAtTop, IInv, CmdsKnown, Known
  <2>3. c.what = Asked
    BY <2>1, <2>2, MatchIsAsked
  <2>4. \A i \in DOMAIN rows : rows[i] = [of |-> c.what, at |-> i]
    BY <2>2, TopRows
  <2>5. \A t \in PreviewTicks(rows, 0) : t.op # "page"
    BY DEF PreviewTicks, About, Command
  <2>6. PagesAtTop'
    BY <2>1, <2>5, PagesStay
  <2>7. Asked' = Asked
    BY <2>1 DEF askVars, Asked
  <2> HIDE DEF rows
  <2> QED
    BY <2>1, <2>3, <2>4, <2>6, <2>7 DEF FirstPageIsAsked
<1> QED
  BY <1>3, <1>4, <1>5, <1>6

\* The model starts with its first page asked for, and no row.
LEMMA InitAtTop == Init => PagesAtTop /\ FirstPageIsAsked /\ \A c \in cmds : c.op # "append"
<1> SUFFICES ASSUME Init PROVE PagesAtTop /\ FirstPageIsAsked /\ \A c \in cmds : c.op # "append"
  OBVIOUS
<1> DEFINE page == PageOf("page", 1, ListOf(DefaultSort), 0)
<1>1. page.op = "page" /\ page.first = 0
  BY DEF PageOf, Command
<1>2. cmds = {page} /\ items = <<>>
  BY DEF Init
<1> HIDE DEF page
<1> QED
  BY <1>1, <1>2 DEF PagesAtTop, FirstPageIsAsked

\* Every step but the arrival of a further page leaves what the user asks for on screen.
LEMMA FirstPageInductive ==
    ASSUME IInv, PagesAtTop, FirstPageIsAsked, [Next]_vars, [NoFurtherPage]_vars
    PROVE  PagesAtTop' /\ FirstPageIsAsked'
<1>1. CASE UNCHANGED vars
  BY <1>1 DEF vars, listVars, askVars, PagesAtTop, FirstPageIsAsked, Asked
<1>2. CASE KeyPress
  BY <1>2, KeysAtTop
<1>3. CASE Deliver
  <2>1. \A c : PageAppended(c) => c \in cmds /\ cmds' # cmds
    BY DEF PageAppended, Take
  <2>2. \A c \in cmds : ~PageAppended(c)
    BY <2>1 DEF NoFurtherPage, vars
  <2> QED
    BY <1>3, <2>2, MessagesAtTop DEF Deliver
<1> QED
  BY <1>1, <1>2, <1>3 DEF Next

\* While no further page arrives, the rows on screen are what the user asks for, in the
\* site's order: no page of an earlier sort or search passes applyCookbooksLoaded.
THEOREM FirstPageHolds == Spec /\ [][NoFurtherPage]_vars => []FirstPageIsAsked
<1>1. Init => IInv /\ PagesAtTop /\ FirstPageIsAsked
  BY InitFits, InitAtTop
<1>2. IInv /\ PagesAtTop /\ FirstPageIsAsked /\ [Next]_vars /\ [NoFurtherPage]_vars
         => IInv' /\ PagesAtTop' /\ FirstPageIsAsked'
  BY StepFits, FirstPageInductive
<1> QED
  BY <1>1, <1>2, PTL DEF Spec

-----------------------------------------------------------------------------
(* Results of one page                                                     *)

\* Every result fits on a page: the site has nothing more, and nothing more is asked for.
OnePage == hasMore = FALSE /\ \A c \in cmds : c.op # "append"

\* The first page is all there is.
LEMMA TopIsAll ==
    ASSUME NEW what \in Whats, Len(Results(what)) <= PageSize
    PROVE  HasMore(what, 0) = FALSE
<1> DEFINE count == Len(Results(what))
           left == IF 0 >= count THEN 0 ELSE count - 0
           size == IF left < PageSize THEN left ELSE PageSize
<1>1. count \in Nat /\ PageSize \in Nat
  BY ResultsAreNames, CatalogueAssumption
<1>2. size = count
  BY <1>1
<1>3. RowsFrom(what, 0) = [i \in 1..size |-> [of |-> what, at |-> 0 + i]]
  BY DEF RowsFrom
<1> HIDE DEF size
<1>4. Len(RowsFrom(what, 0)) = count
  BY <1>1, <1>2, <1>3
<1> QED
  BY <1>1, <1>4 DEF HasMore

\* No step asks for a further page.
LEMMA OnePageInductive ==
    ASSUME \A what \in Whats : Len(Results(what)) <= PageSize,
           IInv, PagesAtTop, OnePage, [Next]_vars
    PROVE  OnePage'
<1> DEFINE Fresh == \A c \in cmds' \ cmds : c.op # "append"
<1>0. \A op, id, n : About(op, id, n).op = op /\ \A what, first : PageOf(op, id, what, first).op = op
  BY DEF About, PageOf, Command
<1>1. ASSUME hasMore' = hasMore, Fresh PROVE OnePage'
  BY <1>1 DEF OnePage
<1>2. CASE MoveCursor
  <2>1. hasMore' = hasMore
    BY <1>2 DEF MoveCursor
  <2>2. \E c : cmds' = cmds \cup PreviewTicks(items, c)
    BY <1>2 DEF MoveCursor, OnePage
  <2>3. Fresh
    BY <1>0, <2>2 DEF PreviewTicks
  <2> QED
    BY <1>1, <2>1, <2>3
<1>3. CASE StartSearch \/ LeaveSearch \/ CloseDetail \/ StartInstall \/ OpenDetail \/ AnswerInstall
  <2>1. hasMore' = hasMore
    BY <1>3 DEF StartSearch, LeaveSearch, CloseDetail, StartInstall, OpenDetail, AnswerInstall, listVars
  <2>2. Fresh
    BY <1>0, <1>3 DEF StartSearch, LeaveSearch, CloseDetail, StartInstall, OpenDetail, AnswerInstall
  <2> QED
    BY <1>1, <2>1, <2>2
<1>4. CASE Esc \/ Erase \/ SetSort \/ Type
  <2>1. hasMore' = hasMore
    BY <1>4 DEF Esc, Erase, SetSort, Type, ClearSearch, Reload
  <2>2. Fresh
    BY <1>0, <1>4 DEF Esc, Erase, SetSort, Type, ClearSearch, Reload
  <2> QED
    BY <1>1, <2>1, <2>2
<1>5. ASSUME NEW c, \/ IgnoredInDetail(c) \/ StalePage(c) \/ PageFailed(c) \/ StalePreviewTick(c)
                    \/ PreviewLoaded(c) \/ DetailLoaded(c) \/ InstallDone(c)
                    \/ SearchTick(c) \/ PreviewTick(c)
      PROVE  OnePage'
  <2>1. hasMore' = hasMore
    BY <1>5 DEF IgnoredInDetail, StalePage, PageFailed, StalePreviewTick, PreviewLoaded, DetailLoaded,
       InstallDone, SearchTick, PreviewTick, listVars
  <2>2. CASE IgnoredInDetail(c) \/ StalePage(c) \/ PageFailed(c) \/ StalePreviewTick(c)
             \/ PreviewLoaded(c) \/ DetailLoaded(c) \/ InstallDone(c)
    BY <1>1, <2>1, <2>2 DEF IgnoredInDetail, StalePage, PageFailed, StalePreviewTick, PreviewLoaded,
       DetailLoaded, InstallDone, Take
  <2>3. CASE SearchTick(c)
    <3> DEFINE what == IF query = None THEN ListOf(sort) ELSE SearchFor(query)
    <3>1. cmds' \subseteq cmds \cup {PageOf("page", reqID + 1, what, 0)}
      BY <2>3 DEF SearchTick, Take
    <3> HIDE DEF what
    <3> QED
      BY <1>0, <1>1, <2>1, <3>1
  <2>4. CASE PreviewTick(c)
    <3>1. cmds' \subseteq cmds \cup {About("preview", c.id, c.name)}
      BY <2>4 DEF PreviewTick, Take
    <3> QED
      BY <1>0, <1>1, <2>1, <3>1
  <2> QED
    BY <1>5, <2>2, <2>3, <2>4
<1>6. ASSUME NEW c, PageLoaded(c) PROVE OnePage'
  <2>1. c \in cmds /\ c.op = "page" /\ hasMore' = HasMore(c.what, c.first)
    BY <1>6 DEF PageLoaded, Take, PageTaken
  <2>2. c.what \in Whats /\ c.first = 0
    BY <2>1 DEF PagesAtTop, IInv, CmdsKnown, Known
  <2>3. hasMore' = FALSE
    BY <2>1, <2>2, TopIsAll
  <2>4. Fresh
    BY <1>0, <1>6 DEF PageLoaded, Take, PreviewTicks
  <2> QED
    BY <2>3, <2>4 DEF OnePage
<1>7. ASSUME NEW c, PageAppended(c) PROVE FALSE
  BY <1>7 DEF PageAppended, Take, OnePage
<1>8. CASE UNCHANGED vars
  BY <1>1, <1>8 DEF vars, listVars
<1> QED
  BY <1>2, <1>3, <1>4, <1>5, <1>6, <1>7, <1>8 DEF Next, KeyPress, Deliver

\* When every result fits on a page, the rows are always what the user asks for.
THEOREM OnePageHolds ==
    ASSUME \A what \in Whats : Len(Results(what)) <= PageSize
    PROVE  Spec => []FirstPageIsAsked
<1>1. Init => IInv /\ PagesAtTop /\ FirstPageIsAsked /\ OnePage
  <2>1. Init => hasMore = FALSE
    BY DEF Init
  <2> QED
    BY <2>1, InitFits, InitAtTop DEF OnePage
<1>2. IInv /\ PagesAtTop /\ OnePage /\ [Next]_vars => IInv' /\ OnePage'
  BY StepFits, OnePageInductive
<1>3. OnePage => [NoFurtherPage]_vars
  BY DEF OnePage, NoFurtherPage, PageAppended, Take
<1>4. IInv /\ PagesAtTop /\ FirstPageIsAsked /\ [Next]_vars /\ [NoFurtherPage]_vars
         => PagesAtTop' /\ FirstPageIsAsked'
  BY FirstPageInductive
<1> QED
  BY <1>1, <1>2, <1>3, <1>4, PTL DEF Spec
=============================================================================
