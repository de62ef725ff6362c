--------------------------- MODULE ExploreProofs ---------------------------
(***************************************************************************)
(* Theorems about Explore, for every set of profiles, kinds and names.     *)
(***************************************************************************)
EXTENDS Explore, TLAPS, FiniteSetTheorems

\* The inductive invariant for the types.
Typed == TypeOK /\ Wired

-----------------------------------------------------------------------------
(* Operators                                                               *)

\* LastOf and Clamp give a position (the clamps of handleListLoaded and updateFilterKey).
LEMMA PositionType ==
    ASSUME NEW rs \in SUBSET Names, NEW i \in Nat
    PROVE  LastOf(rs) \in Nat /\ Clamp(i, rs) \in Nat /\ Cardinality(rs) \in Nat
<1>1. IsFiniteSet(rs)
  BY NamesAssumption, FS_Subset
<1>2. Cardinality(rs) \in Nat
  BY <1>1, FS_CardinalityType
<1>3. rs # {} => Cardinality(rs) # 0
  BY <1>1, FS_EmptySet
<1> QED
  BY <1>2, <1>3 DEF LastOf, Clamp

\* A command made from well-typed parts is a command, with those parts.
LEMMA CommandType ==
    ASSUME client \in MaybeClient, NEW op \in Ops, NEW id \in Nat, NEW k \in MaybeKind,
           NEW n \in Names \cup {None}, NEW d \in Docs \cup {None}
    PROVE  LET c == Command(op, id, k, n, d)
           IN  /\ c \in Commands
               /\ c.op = op /\ c.id = id /\ c.client = client /\ c.kind = k
               /\ c.name = n /\ c.doc = d
  BY DEF Command, Commands

\* The answer to a command is a reply, with the command and what came back.
LEMMA ReplyType ==
    ASSUME NEW c \in Commands, NEW ok \in BOOLEAN, NEW ns \in SUBSET Names,
           NEW d \in Docs \cup {None}
    PROVE  LET m == Reply(c, ok, ns, d)
           IN  m \in Replies /\ m.cmd = c /\ m.ok = ok /\ m.names = ns /\ m.doc = d
  BY DEF Reply, Replies

\* The selected row is a row of the list (selectedRow).
LEMMA RowAtSubset == ASSUME NEW rs \in SUBSET Names, NEW i PROVE RowAt(rs, i) \in SUBSET Names
  BY DEF RowAt

\* Search and filter only take rows away (filteredRows).
LEMMA NarrowedSubset ==
    ASSUME NEW rs \in SUBSET Names, NEW hits, NEW text
    PROVE  Narrowed(rs, hits, text) \in SUBSET Names
  BY DEF Narrowed

-----------------------------------------------------------------------------
(* Types                                                                   *)

\* The model newModel builds is well typed, with or without a client.
LEMMA InitTyped == Init => Typed
  <1> SUFFICES ASSUME Init PROVE Typed
    OBVIOUS
  <1>1. TypeOK
    <2>1. stack \in Seq(Frames) /\ cmds \subseteq Commands /\ msgs \subseteq Replies
      BY DEF Init
    <2>2. server \in [Profiles -> [Kinds -> [Names -> Nat]]]
      BY DEF Init
    <2>3. cache \in [Names -> Docs \cup {None}]
      BY DEF Init, NoSummaries
    <2> QED
      BY <2>1, <2>2, <2>3 DEF Init, TypeOK, Screens, MaybeKind, MaybeClient, Source
  <1>2. Wired
    BY NoneAssumption DEF Init, Wired
  <1> QED
    BY <1>1, <1>2 DEF Typed

\* scheduleSummary leaves the pane typed, and adds ticks of this client at most.
LEMMA ScheduleTyped ==
    ASSUME Typed, client # None, NEW k, NEW sel \in SUBSET Names,
           NEW c \in [Names -> Docs \cup {None}], NEW err \in BOOLEAN, NEW out \in SUBSET msgs,
           k \in MaybeKind, ScheduleSummary(k, sel, c, err, out)
    PROVE  /\ summaryErr' \in BOOLEAN /\ debounceID' \in Nat
           /\ msgs' \subseteq Replies /\ \A m \in msgs' : AnswerOK(m)
<1> DEFINE new == {Tick(debounceID + 1, k, n) : n \in {x \in sel : c[x] = None}}
<1>0. debounceID + 1 \in Nat
  BY DEF Typed, TypeOK
<1>1. ASSUME NEW m \in new PROVE m \in Replies /\ AnswerOK(m)
  <2>1. PICK n \in Names : m = Tick(debounceID + 1, k, n)
    BY <1>1
  <2> DEFINE t == Command("tick", debounceID + 1, k, n, None)
  <2>2. t \in Commands /\ t.op = "tick" /\ t.client = client /\ t.name = n
    <3>1. "tick" \in Ops
      BY DEF Ops
    <3>2. client \in MaybeClient /\ n \in Names \cup {None} /\ None \in Docs \cup {None}
      BY DEF Typed, TypeOK
    <3> HIDE DEF t
    <3> QED
      BY <1>0, <3>1, <3>2, CommandType DEF t
  <2>3. m \in Replies /\ m.cmd = t
    <3>1. m = Reply(t, TRUE, {}, None)
      BY <2>1 DEF Tick
    <3> HIDE DEF t
    <3> QED
      BY <2>2, <3>1 DEF Reply, Replies
  <2> QED
    BY <2>2, <2>3 DEF AnswerOK, RequestOK, OnObject, MutationOps, ReadOps, Typed, TypeOK, MaybeClient
<1>2. msgs' \subseteq out \cup new
  BY DEF ScheduleSummary
<1>3. msgs \subseteq Replies /\ \A m \in msgs : AnswerOK(m)
  BY DEF Typed, TypeOK, Wired
<1>4. summaryErr' \in BOOLEAN
  BY DEF ScheduleSummary
<1>5. debounceID' \in Nat
  BY <1>0 DEF ScheduleSummary, Typed, TypeOK
<1> QED
  BY <1>1, <1>2, <1>3, <1>4, <1>5

\* nextReqID and the command it stamps; the read of a row that may be cached.
LEMMA RequestTyped ==
    ASSUME Typed, client # None, NEW op \in StampedOps, NEW k \in MaybeKind,
           NEW n \in Names \cup {None}, Request(op, k, n),
           op \in ReadOps => k \in Kinds /\ n \in Names
    PROVE  /\ reqID' \in Nat /\ cmds' \subseteq Commands
           /\ \A c \in cmds' : RequestOK(c)
<1> DEFINE c == Command(op, reqID + 1, k, n, None)
<1>1. reqID + 1 \in Nat /\ op \in Ops
  BY DEF Typed, TypeOK, Ops
<1>2. c \in Commands /\ c.op = op /\ c.client = client /\ c.kind = k /\ c.name = n
  BY <1>1, CommandType DEF Typed, TypeOK
<1>3. RequestOK(c)
  BY <1>2 DEF RequestOK, OnObject, StampedOps, MutationOps, ReadOps, Typed, TypeOK, MaybeClient
<1>4. cmds' = cmds \cup {c} /\ reqID' = reqID + 1
  BY DEF Request
<1> QED
  BY <1>1, <1>2, <1>3, <1>4 DEF Typed, TypeOK, Wired

\* A read of the selected row keeps the types, cached or not (detailCmd, seedEditorCmd).
LEMMA RequestDocTyped ==
    ASSUME Typed, client # None, NEW op \in {"detail", "seed"}, NEW n \in Names,
           cur \in Kinds, RequestDoc(op, n)
    PROVE  /\ reqID' \in Nat /\ cmds' \subseteq Commands /\ msgs' \subseteq Replies
           /\ \A c \in cmds' : RequestOK(c)
           /\ \A m \in msgs' : AnswerOK(m)
<1>1. CASE cache[n] = None
  <2>1. Request(op, cur, n) /\ msgs' = msgs
    BY <1>1 DEF RequestDoc
  <2>2. op \in StampedOps /\ cur \in MaybeKind
    BY DEF StampedOps, MaybeKind
  <2> QED
    BY <2>1, <2>2, RequestTyped DEF Typed, TypeOK, Wired
<1>2. CASE cache[n] # None
  <2> DEFINE c == Command(op, reqID + 1, cur, n, None)
             m == Reply(c, TRUE, {}, cache[n])
  <2>1. cmds' = cmds /\ reqID' = reqID + 1 /\ msgs' = msgs \cup {m}
    BY <1>2 DEF RequestDoc
  <2>2. reqID + 1 \in Nat /\ op \in Ops /\ cur \in MaybeKind /\ cache[n] \in Docs
    BY <1>2 DEF Typed, TypeOK, Ops, ReadOps, MaybeKind
  <2>3. c \in Commands /\ c.op = op /\ c.client = client /\ c.kind = cur /\ c.name = n
    BY <2>2, CommandType DEF Typed, TypeOK
  <2>4. m \in Replies /\ m.cmd = c /\ m.doc = cache[n]
    <3> HIDE DEF c
    <3>1. TRUE \in BOOLEAN /\ {} \in SUBSET Names /\ cache[n] \in Docs \cup {None}
      BY <2>2
    <3> QED
      BY <2>3, <3>1 DEF Reply, Replies
  <2>5. AnswerOK(m)
    BY <2>2, <2>3, <2>4 DEF AnswerOK, RequestOK, OnObject, MutationOps, ReadOps, Typed, TypeOK,
                            MaybeClient
  <2> QED
    BY <2>1, <2>2, <2>4, <2>5 DEF Typed, TypeOK, Wired
<1> QED
  BY <1>1, <1>2

\* Keys that only change the screen.
LEMMA ScreenKeysTyped ==
    ASSUME Typed,
           \/ KindsEsc \/ SearchEsc \/ SearchTab \/ ListKinds \/ FilterStart \/ DetailEsc
           \/ EditorAbort \/ NameEsc \/ ResultDismiss
    PROVE  Typed'
<1> USE DEF Typed, TypeOK, Wired, Press, OnList, Screens, vars, listVars, paneVars, modalVars, netVars
<1>1. CASE KindsEsc
  BY <1>1 DEF KindsEsc
<1>2. CASE SearchEsc
  BY <1>2 DEF SearchEsc
<1>3. CASE SearchTab
  BY <1>3 DEF SearchTab
<1>4. CASE ListKinds
  BY <1>4 DEF ListKinds
<1>5. CASE FilterStart
  BY <1>5 DEF FilterStart
<1>6. CASE DetailEsc
  BY <1>6 DEF DetailEsc
<1>7. CASE EditorAbort
  BY <1>7 DEF EditorAbort
<1>8. CASE NameEsc
  BY <1>8 DEF NameEsc
<1>9. CASE ResultDismiss
  BY <1>9 DEF ResultDismiss
<1> QED
  BY <1>1, <1>2, <1>3, <1>4, <1>5, <1>6, <1>7, <1>8, <1>9

\* openList and applySearch.
LEMMA ShowEmptyListTyped ==
    ASSUME Typed, client # None, NEW k \in MaybeKind, NEW hits \in {None} \cup SUBSET Names,
           ShowEmptyList(k, hits), stack' \in Seq(Frames), msgs' \subseteq msgs,
           UNCHANGED <<client, modalVars, server>>, keys' \in Nat
    PROVE  Typed'
<1>1. /\ reqID' \in Nat /\ cmds' \subseteq Commands
      /\ \A c \in cmds' : RequestOK(c)
  <2>1. Request("list", k, None) /\ "list" \in StampedOps /\ "list" \notin ReadOps
    BY DEF ShowEmptyList, StampedOps, ReadOps
  <2> QED
    BY <2>1, RequestTyped
<1>2. NoSummaries \in [Names -> Docs \cup {None}]
  BY DEF NoSummaries
<1>3. rowsFrom' \in Source
  BY DEF ShowEmptyList, Source, Typed, TypeOK
<1>4. TypeOK'
  BY <1>1, <1>2, <1>3 DEF ShowEmptyList, Typed, TypeOK, Screens, modalVars
<1>5. Wired'
  BY <1>1 DEF ShowEmptyList, Typed, TypeOK, Wired, modalVars
<1> QED
  BY <1>4, <1>5 DEF Typed

\* Keys of the menus and of the search modals.
LEMMA MenuKeysTyped ==
    ASSUME Typed, MenuKey \/ SearchKey
    PROVE  Typed'
<1> USE DEF Press, OnList
<1>1. CASE \E p \in Profiles : ProfilesEnter(p)
  <2>1. PICK p \in Profiles : ProfilesEnter(p)
    BY <1>1
  <2> DEFINE c == [Command("connect", keys, None, None, None) EXCEPT !.client = p]
  <2>2. c \in Commands /\ RequestOK(c) /\ c.op = "connect"
    BY DEF Command, Commands, Ops, RequestOK, OnObject, MutationOps, ReadOps, MaybeClient, MaybeKind,
           Typed, TypeOK
  <2>3. cmds' = cmds \cup {c}
    BY <2>1 DEF ProfilesEnter
  <2> HIDE DEF c
  <2>4. TypeOK'
    <3>1. cmds' \subseteq Commands /\ keys' \in Nat /\ screen = "Profiles"
      BY <2>1, <2>2, <2>3 DEF ProfilesEnter, Typed, TypeOK
    <3>2. UNCHANGED <<screen, client, stack, listVars, paneVars, modalVars, reqID, msgs, server>>
      BY <2>1 DEF ProfilesEnter
    <3> QED
      BY <3>1, <3>2 DEF Typed, TypeOK, listVars, paneVars, modalVars
  <2>5. Wired'
    BY <2>1, <2>2, <2>3 DEF ProfilesEnter, Typed, Wired, listVars, paneVars, modalVars
  <2> QED
    BY <2>4, <2>5 DEF Typed
<1>2. CASE \E k \in Menu : KindsEnter(k)
  <2>1. PICK k \in Menu : KindsEnter(k)
    BY <1>2
  <2>2. client # None /\ k \in MaybeKind /\ keys' \in Nat /\ stack' \in Seq(Frames)
    BY <2>1, KindsAssumption DEF KindsEnter, Typed, TypeOK, Wired, MaybeKind
  <2> QED
    BY <2>1, <2>2, ShowEmptyListTyped DEF KindsEnter, OpenList
<1>3. CASE \/ ListSearch
           \/ \E k \in Menu : KindsSearch(k)
  <2>1. PICK k \in MaybeKind : StartSearch(k) /\ screen \in {"Kinds", "List"} /\ keys' \in Nat
    <3>1. CASE ListSearch
      BY <3>1 DEF ListSearch, Typed, TypeOK
    <3>2. CASE \E k \in Menu : KindsSearch(k)
      <4>1. PICK k \in Menu : KindsSearch(k)
        BY <3>2
      <4>2. k \in MaybeKind /\ StartSearch(k) /\ screen = "Kinds" /\ keys' \in Nat
        BY <4>1, KindsAssumption DEF KindsSearch, MaybeKind, Typed, TypeOK
      <4> QED
        BY <4>2
    <3> QED
      BY <1>3, <3>1, <3>2
  <2> QED
    BY <2>1 DEF StartSearch, Typed, TypeOK, Wired, Screens, listVars, paneVars, netVars
<1>4. CASE SearchEnter
  <2>1. client # None /\ "search" \in StampedOps /\ "search" \notin ReadOps /\ searchKind \in MaybeKind
    BY <1>4 DEF SearchEnter, StampedOps, ReadOps, Typed, TypeOK, Wired
  <2>2. /\ reqID' \in Nat /\ cmds' \subseteq Commands
        /\ \A c \in cmds' : RequestOK(c)
    BY <1>4, <2>1, RequestTyped DEF SearchEnter
  <2> QED
    BY <1>4, <2>1, <2>2 DEF SearchEnter, Typed, TypeOK, Wired, Screens, paneVars, modalVars
<1>5. CASE \E k \in Kinds : SearchIndexLeave(k)
  BY <1>5 DEF SearchIndexLeave, MaybeKind, Typed, TypeOK, Wired, Screens, listVars, paneVars, netVars
<1> QED
  BY <1>1, <1>2, <1>3, <1>4, <1>5, ScreenKeysTyped DEF MenuKey, SearchKey

\* What the list keys that follow the cursor with a summary have in common.
LEMMA CursorKeyTyped ==
    ASSUME Typed, client # None, NEW sel \in SUBSET Names,
           ScheduleSummary(cur, sel, cache, summaryErr, msgs),
           cursor' \in Nat, filtering' \in BOOLEAN, filter' \in SUBSET Names,
           search' \in {None} \cup SUBSET Names, keys' \in Nat,
           UNCHANGED <<screen, client, stack, cur, rows, rowsFrom, loading, cache, modalVars,
                       reqID, cmds, server>>
    PROVE  Typed'
<1>1. /\ summaryErr' \in BOOLEAN /\ debounceID' \in Nat
      /\ msgs' \subseteq Replies /\ \A m \in msgs' : AnswerOK(m)
  <2>1. /\ cache \in [Names -> Docs \cup {None}] /\ summaryErr \in BOOLEAN /\ cur \in MaybeKind
        /\ msgs \in SUBSET msgs
    BY DEF Typed, TypeOK
  <2> QED
    BY <2>1, ScheduleTyped
<1>2. TypeOK'
  BY <1>1 DEF Typed, TypeOK, modalVars
<1>3. Wired'
  BY <1>1 DEF Typed, Wired, modalVars
<1> QED
  BY <1>2, <1>3 DEF Typed

\* Every key of the list that acts on no row keeps the types (updateListKey).
LEMMA ListKeysTyped ==
    ASSUME Typed, ListKey
    PROVE  Typed'
<1> USE DEF Press, OnList
<1>0. keys + 1 \in Nat /\ 0 \in Nat
  BY DEF Typed, TypeOK
<1>1. ASSUME NEW i \in 0..Cardinality(Names), MoveCursor(i) PROVE Typed'
  <2>1. client # None /\ i \in Nat
    BY <1>1 DEF MoveCursor, Typed, Wired
  <2>2. Filtered \in SUBSET Names
    BY NarrowedSubset DEF Filtered, Typed, TypeOK
  <2>3. RowAt(Filtered, i) \in SUBSET Names
    BY <2>2, RowAtSubset
  <2>4. cursor' \in Nat /\ filtering' \in BOOLEAN /\ filter' \in SUBSET Names
        /\ search' \in {None} \cup SUBSET Names /\ keys' \in Nat
    BY <1>0, <1>1, <2>1 DEF MoveCursor, Typed, TypeOK
  <2> QED
    BY <1>1, <2>1, <2>3, <2>4, CursorKeyTyped DEF MoveCursor
<1>2. ASSUME NEW text \in Filters, FilterType(text) PROVE Typed'
  <2> DEFINE shown == Narrowed(rows, search, text)
             i == Clamp(cursor, shown)
  <2>1. client # None /\ text \in SUBSET Names
    BY <1>2, InputsAssumption DEF FilterType, Typed, Wired
  <2>2. shown \in SUBSET Names
    BY NarrowedSubset DEF Typed, TypeOK
  <2>3. RowAt(shown, i) \in SUBSET Names /\ i \in Nat
    BY <2>2, RowAtSubset, PositionType DEF Typed, TypeOK
  <2>4. cursor' \in Nat /\ filtering' \in BOOLEAN /\ filter' \in SUBSET Names
        /\ search' \in {None} \cup SUBSET Names /\ keys' \in Nat
    BY <1>0, <1>2, <2>1, <2>3 DEF FilterType, Typed, TypeOK
  <2>5. ScheduleSummary(cur, RowAt(shown, i), cache, summaryErr, msgs)
    BY <1>2 DEF FilterType
  <2>6. UNCHANGED <<screen, client, stack, cur, rows, rowsFrom, loading, cache, modalVars,
                    reqID, cmds, server>>
    BY <1>2 DEF FilterType
  <2> HIDE DEF shown, i
  <2> QED
    BY <2>1, <2>3, <2>4, <2>5, <2>6, CursorKeyTyped
<1>3. ASSUME NEW keep \in BOOLEAN, FilterEnd(keep) PROVE Typed'
  <2> DEFINE sel == RowAt(Narrowed(rows, search, filter'), 0)
  <2>1. client # None /\ sel \in SUBSET Names
    BY <1>3, RowAtSubset, NarrowedSubset DEF FilterEnd, Typed, TypeOK, Wired
  <2>2. cursor' \in Nat /\ filtering' \in BOOLEAN /\ filter' \in SUBSET Names
        /\ search' \in {None} \cup SUBSET Names /\ keys' \in Nat
    BY <1>0, <1>3 DEF FilterEnd, Typed, TypeOK
  <2>3. ScheduleSummary(cur, sel, cache, summaryErr, msgs)
    BY <1>3 DEF FilterEnd
  <2>4. UNCHANGED <<screen, client, stack, cur, rows, rowsFrom, loading, cache, modalVars,
                    reqID, cmds, server>>
    BY <1>3 DEF FilterEnd
  <2> HIDE DEF sel
  <2> QED
    BY <2>1, <2>2, <2>3, <2>4, CursorKeyTyped
<1>4. CASE ClearSearch
  <2> DEFINE sel == RowAt(Narrowed(rows, None, filter), 0)
  <2>1. client # None /\ sel \in SUBSET Names
    BY <1>4, RowAtSubset, NarrowedSubset DEF ClearSearch, Typed, TypeOK, Wired
  <2>2. cursor' \in Nat /\ filtering' \in BOOLEAN /\ filter' \in SUBSET Names
        /\ search' \in {None} \cup SUBSET Names /\ keys' \in Nat
    BY <1>0, <1>4 DEF ClearSearch, Typed, TypeOK
  <2>3. ScheduleSummary(cur, sel, cache, summaryErr, msgs)
    BY <1>4 DEF ClearSearch
  <2>4. UNCHANGED <<screen, client, stack, cur, rows, rowsFrom, loading, cache, modalVars,
                    reqID, cmds, server>>
    BY <1>4 DEF ClearSearch
  <2> HIDE DEF sel
  <2> QED
    BY <2>1, <2>2, <2>3, <2>4, CursorKeyTyped
<1>5. CASE GoBack
  <2>0. client # None
    BY <1>5 DEF GoBack, Typed, Wired
  <2>1. CASE stack = <<>>
    BY <1>5, <2>1 DEF GoBack, Typed, TypeOK, Wired, Screens, listVars, paneVars, modalVars
  <2>2. CASE stack # <<>>
    <3> DEFINE top == stack[Len(stack)]
               sel == RowAt(top.rows, top.cursor)
    <3>1. top \in Frames /\ stack' \in Seq(Frames)
      BY <1>5, <2>2 DEF GoBack, Typed, TypeOK
    <3>2. top.kind \in Kinds /\ top.rows \in SUBSET Names /\ top.from \in Source /\ top.cursor \in Nat
      BY <3>1 DEF Frames
    <3>3. sel \in SUBSET Names
      BY <3>2, RowAtSubset
    <3>4. NoSummaries \in [Names -> Docs \cup {None}]
      BY DEF NoSummaries
    <3>5. /\ cur' = top.kind /\ rows' = top.rows /\ rowsFrom' = top.from /\ cursor' = top.cursor
          /\ filter' = Names /\ cache' = NoSummaries
          /\ ScheduleSummary(top.kind, sel, NoSummaries, FALSE, msgs)
          /\ UNCHANGED <<screen, client, loading, filtering, search, modalVars, reqID, cmds, server>>
          /\ keys' = keys + 1
      BY <1>5, <2>2 DEF GoBack
    <3>6. /\ summaryErr' \in BOOLEAN /\ debounceID' \in Nat
          /\ msgs' \subseteq Replies /\ \A m \in msgs' : AnswerOK(m)
      <4> HIDE DEF top, sel
      <4>1. top.kind \in MaybeKind /\ msgs \in SUBSET msgs /\ FALSE \in BOOLEAN
        BY <3>2 DEF MaybeKind
      <4> QED
        BY <2>0, <3>3, <3>4, <3>5, <4>1, ScheduleTyped
    <3> HIDE DEF top, sel
    <3>7. TypeOK'
      BY <1>0, <3>1, <3>2, <3>4, <3>5, <3>6 DEF Typed, TypeOK, MaybeKind, modalVars
    <3>8. Wired'
      BY <3>5, <3>6, <2>0 DEF Typed, Wired, modalVars
    <3> QED
      BY <3>7, <3>8 DEF Typed
  <2> QED
    BY <2>1, <2>2
<1>6. CASE StartCreate
  <2>0. client \in Profiles /\ screen = "List"
    BY <1>6 DEF StartCreate, Typed, TypeOK, Wired, MaybeClient
  <2>1. CASE editor' = [action |-> "create", name |-> None, seed |-> None] /\ screen' = "Editor"
             /\ UNCHANGED nameAction
    <3>1. editor' \in Editors /\ editor' # None /\ editor'.action # "edit"
      BY <2>1, NoRecordAssumption DEF Editors
    <3> QED
      BY <1>6, <2>0, <2>1, <3>1 DEF StartCreate, Typed, TypeOK, Wired, Screens, listVars, paneVars, netVars
  <2>2. CASE /\ Can(cur, "named") /\ screen' = "Name" /\ UNCHANGED editor
             /\ nameAction' = [op |-> "create", target |-> Target(None)]
    <3>1. Target(None) \in Targets
      BY <2>0, <2>2 DEF Target, Targets, Can
    <3>2. nameAction' \in NameActions /\ nameAction' # None /\ nameAction'.op # "download"
      BY <2>2, <3>1, NoRecordAssumption DEF NameActions
    <3> QED
      BY <1>6, <2>0, <2>2, <3>2 DEF StartCreate, Typed, TypeOK, Wired, Screens, listVars, paneVars, netVars
  <2>3. CASE UNCHANGED <<screen, editor, nameAction>>
    BY <1>6, <2>0, <2>3 DEF StartCreate, Typed, TypeOK, Wired, listVars, paneVars, netVars
  <2> QED
    BY <1>6, <2>1, <2>2, <2>3 DEF StartCreate
<1> QED
  BY <1>1, <1>2, <1>3, <1>4, <1>5, <1>6, ScreenKeysTyped DEF ListKey

\* Keys that act on one row.
LEMMA RowKeysTyped ==
    ASSUME Typed, RowKey
    PROVE  Typed'
<1> USE DEF Press, OnList
<1>0. keys + 1 \in Nat
  BY DEF Typed, TypeOK
<1>1. ASSUME NEW n \in Names, ActsOn(n) PROVE client \in Profiles /\ screen \in {"List", "Detail"}
  BY <1>1 DEF ActsOn, Typed, TypeOK, Wired, MaybeClient
<1>2. ASSUME NEW n \in Names, NEW cap, Can(cur, cap), client \in Profiles
      PROVE  cur \in Kinds /\ Target(n) \in Targets /\ Target(n).name = n
  BY <1>2 DEF Can, Target, Targets
<1>3. ASSUME NEW n \in Names, DrillDown(n) PROVE Typed'
  <2> DEFINE frame == [kind |-> cur, rows |-> rows, from |-> rowsFrom, cursor |-> cursor]
  <2>1. client # None /\ cur \in Kinds /\ keys' = keys + 1
    BY <1>3 DEF DrillDown, Can, Typed, TypeOK, Wired
  <2>2. frame \in Frames
    BY <2>1 DEF Frames, Typed, TypeOK
  <2>3. stack' \in Seq(Frames)
    BY <1>3, <2>2 DEF DrillDown, Typed, TypeOK
  <2>4. Child[cur][n] \in MaybeKind /\ None \in {None} \cup SUBSET Names
    BY <1>3, <2>1, KindsAssumption DEF DrillDown, Can, MaybeKind
  <2>5. ShowEmptyList(Child[cur][n], None) /\ msgs' = msgs /\ UNCHANGED <<client, modalVars, server>>
    BY <1>3 DEF DrillDown, OpenList
  <2> HIDE DEF frame
  <2> QED
    BY <1>0, <2>1, <2>3, <2>4, <2>5, ShowEmptyListTyped
<1>4. ASSUME NEW n \in Names, OpenDetail(n) PROVE Typed'
  <2>1. client # None /\ cur \in Kinds
    BY <1>4 DEF OpenDetail, Can, Typed, TypeOK, Wired
  <2>2. /\ reqID' \in Nat /\ cmds' \subseteq Commands /\ msgs' \subseteq Replies
        /\ \A c \in cmds' : RequestOK(c)
        /\ \A m \in msgs' : AnswerOK(m)
    BY <1>4, <2>1, RequestDocTyped DEF OpenDetail
  <2>3. TypeOK'
    BY <1>0, <1>4, <2>2 DEF OpenDetail, Typed, TypeOK, Screens, listVars, paneVars
  <2>4. Wired'
    BY <1>4, <2>1, <2>2 DEF OpenDetail, Typed, Wired, listVars, paneVars
  <2> QED
    BY <2>3, <2>4 DEF Typed
<1>5. ASSUME NEW n \in Names, StartEdit(n) PROVE Typed'
  <2>1. client \in Profiles /\ client # None /\ cur \in Kinds /\ screen \in {"List", "Detail"}
    BY <1>1, <1>5, NoneAssumption DEF StartEdit, Can
  <2>2. /\ reqID' \in Nat /\ cmds' \subseteq Commands /\ msgs' \subseteq Replies
        /\ \A c \in cmds' : RequestOK(c)
        /\ \A m \in msgs' : AnswerOK(m)
    BY <1>5, <2>1, RequestDocTyped DEF StartEdit
  <2>3. TypeOK'
    BY <1>0, <1>5, <2>1, <2>2 DEF StartEdit, Typed, TypeOK, Screens, listVars, paneVars
  <2>4. Wired'
    BY <1>5, <2>1, <2>2 DEF StartEdit, Typed, Wired, listVars, paneVars
  <2> QED
    BY <2>3, <2>4 DEF Typed
<1>6. ASSUME NEW n \in Names, StartDelete(n) PROVE Typed'
  <2>1. client \in Profiles /\ client # None /\ screen \in {"List", "Detail"}
    BY <1>1, <1>6, NoneAssumption DEF StartDelete
  <2>2. pending' \in Targets /\ pending'.name = n
    BY <1>2, <1>6, <2>1 DEF StartDelete
  <2> QED
    BY <1>0, <1>6, <2>1, <2>2 DEF StartDelete, Typed, TypeOK, Wired, Screens, listVars, paneVars, netVars
<1>7. ASSUME NEW n \in Names, StartDownload(n) PROVE Typed'
  <2>1. client \in Profiles /\ client # None /\ screen \in {"List", "Detail"}
    BY <1>1, <1>7, NoneAssumption DEF StartDownload
  <2>2. Target(n) \in Targets /\ Target(n).name = n
    BY <1>2, <1>7, <2>1 DEF StartDownload
  <2>3. nameAction' \in NameActions /\ nameAction' # None /\ nameAction'.target.name = n
    BY <1>7, <2>2, NoRecordAssumption DEF StartDownload, NameActions
  <2> QED
    BY <1>0, <1>7, <2>1, <2>3 DEF StartDownload, Typed, TypeOK, Wired, Screens, listVars, paneVars, netVars
<1> QED
  BY <1>3, <1>4, <1>5, <1>6, <1>7 DEF RowKey

\* Keys of the modals that start work on the server or on the disk.
LEMMA ModalKeysTyped ==
    ASSUME Typed, ModalKey
    PROVE  Typed'
<1> USE DEF Press
<1>0. keys + 1 \in Nat /\ keys \in Nat
  BY DEF Typed, TypeOK
<1>1. ASSUME NEW n \in Names, EditorCommit(n) PROVE Typed'
  <2>1. client \in Profiles /\ client \in MaybeClient /\ client # None /\ editor \in Editors
    BY <1>1, NoneAssumption DEF EditorCommit, Typed, TypeOK, Wired, MaybeClient
  <2>2. ASSUME NEW op \in {"save", "create"}, NEW x \in Names, NEW d \in Docs \cup {None},
               cur \in Kinds, Launch(op, cur, x, d)
        PROVE  cmds' \subseteq Commands /\ \A c \in cmds' : RequestOK(c)
    <3> DEFINE c == Command(op, keys, cur, x, d)
    <3>1. op \in Ops /\ cur \in MaybeKind /\ x \in Names \cup {None}
      BY <2>2 DEF Ops, MutationOps, MaybeKind
    <3>2. c \in Commands /\ c.client = client /\ c.kind = cur /\ c.name = x
      <4> HIDE DEF c
      <4> QED
        BY <1>0, <2>1, <3>1, CommandType DEF c
    <3>3. cmds' = cmds \cup {c}
      BY <2>2 DEF Launch
    <3>4. RequestOK(c)
      BY <2>1, <2>2, <3>2 DEF RequestOK
    <3> HIDE DEF c
    <3> QED
      BY <3>2, <3>3, <3>4 DEF Typed, TypeOK, Wired
  <2>3. cmds' \subseteq Commands /\ \A c \in cmds' : RequestOK(c)
    <3>1. CASE editor.action = "edit" /\ Can(cur, "edit") /\ Launch("save", cur, editor.name, editor.seed)
      <4>1. editor.name \in Names /\ editor.seed \in Docs \cup {None} /\ cur \in Kinds
        BY <2>1, <3>1, NoRecordAssumption DEF Editors, Can, Typed, Wired
      <4> QED
        BY <2>2, <3>1, <4>1
    <3>2. CASE Can(cur, "create") /\ Launch("create", cur, n, None)
      BY <2>2, <3>2 DEF Can
    <3>3. CASE UNCHANGED cmds
      BY <3>3 DEF Typed, TypeOK, Wired
    <3> QED
      BY <1>1, <3>1, <3>2, <3>3 DEF EditorCommit
  <2> QED
    BY <1>0, <1>1, <2>1, <2>3 DEF EditorCommit, Typed, TypeOK, Wired, Screens, listVars, paneVars, modalVars
<1>2. CASE ConfirmYes
  <2>1. client # None
    BY <1>2 DEF ConfirmYes, Typed, Wired
  <2>2. cmds' \subseteq Commands /\ \A c \in cmds' : RequestOK(c)
    <3>1. CASE pending = None
      BY <1>2, <3>1 DEF ConfirmYes, Typed, TypeOK, Wired
    <3>2. CASE pending # None
      <4> DEFINE c == [Command("delete", keys, pending.kind, pending.name, None)
                       EXCEPT !.client = pending.client]
      <4>1. pending.client \in Profiles /\ pending.kind \in Kinds /\ pending.name \in Names
        BY <3>2 DEF Targets, Typed, TypeOK, Wired
      <4>2. c \in Commands /\ RequestOK(c)
        BY <1>0, <4>1 DEF Command, Commands, Ops, MutationOps, RequestOK, MaybeClient, MaybeKind
      <4>3. cmds' = cmds \cup {c}
        BY <1>2, <3>2 DEF ConfirmYes
      <4> HIDE DEF c
      <4> QED
        BY <4>2, <4>3 DEF Typed, TypeOK, Wired
    <3> QED
      BY <3>1, <3>2
  <2> QED
    BY <1>0, <1>2, <2>1, <2>2 DEF ConfirmYes, Typed, TypeOK, Wired, Screens, listVars, paneVars
<1>3. CASE ConfirmNo
  BY <1>0, <1>3 DEF ConfirmNo, Typed, TypeOK, Wired, Screens, listVars, paneVars, netVars
<1>4. ASSUME NEW n \in Names \cup {None}, NameEnter(n) PROVE Typed'
  <2>1. client # None /\ nameAction \in NameActions
    BY <1>4 DEF NameEnter, Typed, TypeOK, Wired
  <2>2. cmds' \subseteq Commands /\ \A c \in cmds' : RequestOK(c)
    <3> DEFINE t == nameAction.target
               x == IF nameAction.op = "create" THEN n ELSE t.name
               c == [Command(nameAction.op, keys, t.kind, x, None) EXCEPT !.client = t.client]
    <3>1. CASE UNCHANGED cmds
      BY <3>1 DEF Typed, TypeOK, Wired
    <3>2. CASE cmds' = cmds \cup {c} /\ ~(nameAction.op = "create" /\ n = None)
      <4>1. /\ t.client \in Profiles /\ t.kind \in Kinds /\ x \in Names
            /\ nameAction.op \in {"create", "download"}
        BY <2>1, <3>2, NoRecordAssumption DEF NameActions, Targets, Typed, TypeOK, Wired
      <4> HIDE DEF t, x
      <4>2. c \in Commands /\ RequestOK(c)
        BY <1>0, <4>1 DEF Command, Commands, Ops, MutationOps, RequestOK, MaybeClient, MaybeKind
      <4> HIDE DEF c
      <4> QED
        BY <3>2, <4>2 DEF Typed, TypeOK, Wired
    <3> QED
      BY <1>4, <3>1, <3>2 DEF NameEnter
  <2> QED
    BY <1>0, <1>4, <2>1, <2>2 DEF NameEnter, Typed, TypeOK, Wired, Screens, listVars, paneVars, modalVars
<1> QED
  BY <1>1, <1>2, <1>3, <1>4, ScreenKeysTyped DEF ModalKey

\* A command that is answered leaves its answer behind.
LEMMA AnsweredTyped ==
    ASSUME Typed, NEW c \in cmds, NEW m \in Replies, m.cmd = c, Answered(c, m),
           m.cmd.op \in {"seed", "summary"} /\ m.ok => m.doc \in Docs, c.op # "tick",
           server' \in [Profiles -> [Kinds -> [Names -> Nat]]]
    PROVE  Typed'
<1>1. AnswerOK(m)
  BY DEF AnswerOK, Typed, Wired
<1>2. cmds' \subseteq cmds /\ msgs' = msgs \cup {m}
  BY DEF Answered
<1>3. client = None => m.cmd.op = "connect"
  BY DEF Typed, Wired
<1>4. UNCHANGED <<screen, client, stack, listVars, paneVars, modalVars, reqID, keys>>
  BY DEF Answered
<1>5. TypeOK'
  BY <1>2, <1>4 DEF Typed, TypeOK, listVars, paneVars, modalVars
<1>6. Wired'
  BY <1>1, <1>2, <1>3, <1>4 DEF Typed, Wired, listVars, paneVars, modalVars
<1> QED
  BY <1>5, <1>6 DEF Typed

\* Whatever the server and the local commands answer is well typed.
LEMMA AnswerTyped ==
    ASSUME Typed, Answer
    PROVE  Typed'
<1>0. server \in [Profiles -> [Kinds -> [Names -> Nat]]]
  BY DEF Typed, TypeOK
<1>1. PICK c \in cmds : \/ AnswerList(c) \/ AnswerRead(c) \/ AnswerSearch(c)
                        \/ AnswerMutation(c) \/ AnswerLocal(c)
  BY DEF Answer
<1>2. c \in Commands /\ RequestOK(c)
  BY DEF Typed, TypeOK, Wired
<1>3. ASSUME NEW ok \in BOOLEAN, NEW ns \in SUBSET Names, NEW d \in Docs \cup {None}
      PROVE  LET m == Reply(c, ok, ns, d)
             IN  m \in Replies /\ m.cmd = c /\ m.ok = ok /\ m.doc = d
  BY <1>2, ReplyType
<1>4. ASSUME NEW op PROVE Outcomes(op) \subseteq BOOLEAN
  BY DEF Outcomes
<1>5. CASE AnswerList(c)
  <2>1. PICK ok \in BOOLEAN :
            Answered(c, Reply(c, ok, IF ok THEN Present(c.client, c.kind) ELSE {}, None))
    BY <1>4, <1>5 DEF AnswerList
  <2> DEFINE ns == IF ok THEN Present(c.client, c.kind) ELSE {}
  <2>2. ns \in SUBSET Names /\ None \in Docs \cup {None}
    BY DEF Present
  <2>3. c.op = "list" /\ server' = server
    BY <1>5 DEF AnswerList
  <2> HIDE DEF ns
  <2> QED
    BY <1>0, <1>3, <2>1, <2>2, <2>3, AnsweredTyped DEF ns
<1>6. CASE AnswerRead(c)
  <2> DEFINE ver == server[c.client][c.kind][c.name]
             doc == [client |-> c.client, kind |-> c.kind, name |-> c.name, ver |-> ver]
  <2>1. c.op \in ReadOps /\ c.op # "tick" /\ server' = server
    BY <1>6 DEF AnswerRead, ReadOps
  <2>2. doc \in Docs
    BY <1>0, <1>2, <2>1 DEF RequestOK, OnObject, Docs
  <2>3. PICK ok \in BOOLEAN : Answered(c, Reply(c, ok /\ ver > 0, {}, IF ok /\ ver > 0 THEN doc ELSE None))
    BY <1>4, <1>6 DEF AnswerRead
  <2> HIDE DEF ver, doc
  <2> DEFINE found == ok /\ ver > 0
             d == IF found THEN doc ELSE None
  <2>4. found \in BOOLEAN /\ {} \in SUBSET Names /\ d \in Docs \cup {None} /\ (found => d \in Docs)
    BY <2>2
  <2>5. Answered(c, Reply(c, found, {}, d))
    BY <2>3
  <2> HIDE DEF found, d
  <2> QED
    BY <1>0, <1>3, <2>1, <2>4, <2>5, AnsweredTyped
<1>7. CASE AnswerSearch(c)
  <2>1. PICK ok \in BOOLEAN, hits \in SearchHits : Answered(c, Reply(c, ok, IF ok THEN hits ELSE {}, None))
    BY <1>4, <1>7 DEF AnswerSearch
  <2> DEFINE ns == IF ok THEN hits ELSE {}
  <2>2. ns \in SUBSET Names /\ None \in Docs \cup {None}
    BY InputsAssumption
  <2>3. c.op = "search" /\ server' = server
    BY <1>7 DEF AnswerSearch
  <2> HIDE DEF ns
  <2> QED
    BY <1>0, <1>3, <2>1, <2>2, <2>3, AnsweredTyped DEF ns
<1>8. CASE AnswerMutation(c)
  <2> DEFINE ver == server[c.client][c.kind][c.name]
  <2>1. c.op \in {"save", "create", "delete"}
    BY <1>8 DEF AnswerMutation
  <2>2. c.client \in Profiles /\ c.kind \in Kinds /\ c.name \in Names /\ ver \in Nat
    BY <1>0, <1>2, <2>1 DEF RequestOK, OnObject, MutationOps
  <2>3. PICK applied, ok \in BOOLEAN :
            /\ server' = IF applied
                         THEN [server EXCEPT ![c.client][c.kind][c.name] = Mutated(c.op, ver)]
                         ELSE server
            /\ Answered(c, Reply(c, ok /\ applied, {}, None))
    BY <1>4, <1>8 DEF AnswerMutation
  <2>4. Mutated(c.op, ver) \in Nat
    BY <2>2 DEF Mutated
  <2> HIDE DEF ver
  <2>5. server' \in [Profiles -> [Kinds -> [Names -> Nat]]]
    BY <1>0, <2>2, <2>3, <2>4
  <2> DEFINE done == ok /\ applied
  <2>6. done \in BOOLEAN /\ {} \in SUBSET Names /\ None \in Docs \cup {None}
    OBVIOUS
  <2>7. Answered(c, Reply(c, done, {}, None))
    BY <2>3
  <2> HIDE DEF done
  <2> QED
    BY <1>3, <2>1, <2>5, <2>6, <2>7, AnsweredTyped
<1>9. CASE AnswerLocal(c)
  <2>1. PICK ok \in BOOLEAN : Answered(c, Reply(c, ok, {}, None))
    BY <1>4, <1>9 DEF AnswerLocal
  <2>2. c.op \in {"connect", "download"} /\ server' = server
    BY <1>9 DEF AnswerLocal
  <2> QED
    BY <1>0, <1>3, <2>1, <2>2, AnsweredTyped
<1> QED
  BY <1>1, <1>5, <1>6, <1>7, <1>8, <1>9

\* A handler that takes message m and leaves the rest of the queue.
LEMMA RestTyped ==
    ASSUME Typed, NEW m \in msgs
    PROVE  /\ Rest(m) \subseteq msgs
           /\ m \in Replies /\ m.cmd \in Commands /\ AnswerOK(m) /\ RequestOK(m.cmd)
           /\ m.cmd.op # "connect" => client # None
           /\ m.ok \in BOOLEAN /\ m.names \in SUBSET Names /\ m.doc \in Docs \cup {None}
           /\ m.cmd.client \in Profiles /\ m.cmd.kind \in MaybeKind /\ m.cmd.name \in Names \cup {None}
  BY DEF Rest, Replies, Commands, AnswerOK, RequestOK, Typed, TypeOK, Wired

\* Every message handler keeps the types.
LEMMA DeliverTyped ==
    ASSUME Typed, Deliver
    PROVE  Typed'
<1> USE DEF Takes
<1>1. PICK m \in msgs :
          \/ ClientReady(m) \/ ListLoaded(m) \/ DetailLoaded(m) \/ EditSeed(m) \/ MutationDone(m)
          \/ DownloadDone(m) \/ SummaryTick(m) \/ SummaryLoaded(m) \/ SearchLoaded(m)
  BY DEF Deliver
<1>2. /\ Rest(m) \subseteq msgs
      /\ m \in Replies /\ m.cmd \in Commands /\ AnswerOK(m) /\ RequestOK(m.cmd)
      /\ m.cmd.op # "connect" => client # None
      /\ m.ok \in BOOLEAN /\ m.names \in SUBSET Names /\ m.doc \in Docs \cup {None}
      /\ m.cmd.client \in Profiles /\ m.cmd.kind \in MaybeKind /\ m.cmd.name \in Names \cup {None}
  BY RestTyped
<1>3. CASE ClientReady(m)
  BY <1>2, <1>3, NoneAssumption DEF ClientReady, Typed, TypeOK, Wired, Screens, MaybeClient, listVars,
     paneVars, modalVars
<1>4. CASE ListLoaded(m)
  <2>1. client # None
    BY <1>2, <1>4 DEF ListLoaded
  <2>2. rows' \in SUBSET Names /\ cursor' \in Nat /\ loading' \in BOOLEAN /\ rowsFrom' \in Source
    <3>1. Narrowed(m.names, search, filter) \in SUBSET Names
      BY <1>2, NarrowedSubset
    <3>2. Clamp(cursor, Narrowed(m.names, search, filter)) \in Nat
      BY <3>1, PositionType DEF Typed, TypeOK
    <3>3. CASE Latest(m)
      <4>1. rows' = m.names /\ loading' = FALSE /\ cursor' \in Nat
        BY <1>4, <3>2, <3>3 DEF ListLoaded, Typed, TypeOK
      <4>2. rowsFrom' \in Source
        BY <1>2, <1>4, <3>3 DEF ListLoaded, Source, MaybeClient
      <4> QED
        BY <1>2, <4>1, <4>2
    <3>4. CASE ~Latest(m)
      BY <1>4, <3>4 DEF ListLoaded, Typed, TypeOK
    <3> QED
      BY <3>3, <3>4
  <2> DEFINE sel == RowAt(Narrowed(rows', search, filter), cursor')
  <2>3. sel \in SUBSET Names
    BY <2>2, RowAtSubset, NarrowedSubset
  <2>4. ScheduleSummary(cur, sel, cache, summaryErr, Rest(m))
    BY <1>4 DEF ListLoaded
  <2> HIDE DEF sel
  <2>5. /\ summaryErr' \in BOOLEAN /\ debounceID' \in Nat
        /\ msgs' \subseteq Replies /\ \A r \in msgs' : AnswerOK(r)
    <3>1. /\ cache \in [Names -> Docs \cup {None}] /\ summaryErr \in BOOLEAN /\ cur \in MaybeKind
          /\ Rest(m) \in SUBSET msgs
      BY <1>2 DEF Typed, TypeOK
    <3> QED
      BY <2>1, <2>3, <2>4, <3>1, ScheduleTyped
  <2>6. UNCHANGED <<screen, client, stack, cur, filtering, filter, search, cache, modalVars,
                    reqID, cmds, server, keys>>
    BY <1>4 DEF ListLoaded
  <2>7. TypeOK'
    BY <2>2, <2>5, <2>6 DEF Typed, TypeOK, modalVars
  <2>8. Wired'
    BY <2>1, <2>5, <2>6 DEF Typed, Wired, modalVars
  <2> QED
    BY <2>7, <2>8 DEF Typed
<1>5. CASE DetailLoaded(m)
  BY <1>2, <1>5 DEF DetailLoaded, AnswerOK, RequestOK, OnObject, ReadOps, Typed, TypeOK, Wired,
     listVars, paneVars
<1>6. CASE EditSeed(m)
  <2>1. client # None /\ UNCHANGED <<client, stack, listVars, paneVars, returnTo, searchKind, detailName,
                     pending, nameAction, reqID, cmds, server, keys>> /\ msgs' = Rest(m)
    BY <1>2, <1>6 DEF EditSeed
  <2>2. CASE UNCHANGED <<screen, editor>>
    BY <1>2, <2>1, <2>2 DEF Typed, TypeOK, Wired, listVars, paneVars
  <2>3. CASE screen' = "List" /\ UNCHANGED editor
    BY <1>2, <2>1, <2>3 DEF Typed, TypeOK, Wired, Screens, listVars, paneVars
  <2>4. CASE screen' = "Editor" /\ m.ok /\ editor' = [action |-> "edit", name |-> m.cmd.name, seed |-> m.doc]
    <3>1. m.cmd.name \in Names /\ m.doc \in Docs
      BY <1>2, <1>6, <2>4 DEF EditSeed, AnswerOK, RequestOK, OnObject, ReadOps
    <3>2. editor' \in Editors /\ editor' # None /\ editor'.name \in Names
      BY <2>4, <3>1, NoRecordAssumption DEF Editors
    <3> QED
      BY <1>2, <2>1, <2>4, <3>2 DEF Typed, TypeOK, Wired, Screens, listVars, paneVars
  <2> QED
    BY <1>6, <2>2, <2>3, <2>4 DEF EditSeed
<1>7. CASE MutationDone(m)
  <2>1. client # None
    BY <1>2, <1>7 DEF MutationDone
  <2>2. /\ reqID' \in Nat /\ cmds' \subseteq Commands
        /\ \A c \in cmds' : RequestOK(c)
    <3>1. CASE m.ok
      <4>1. Request("list", cur, None) /\ "list" \in StampedOps /\ "list" \notin ReadOps /\ cur \in MaybeKind
        BY <1>7, <3>1 DEF MutationDone, StampedOps, ReadOps, Typed, TypeOK
      <4> QED
        BY <2>1, <4>1, RequestTyped
    <3>2. CASE ~m.ok
      BY <1>7, <3>2 DEF MutationDone, Typed, TypeOK, Wired
    <3> QED
      BY <3>1, <3>2
  <2>3. screen' \in {"Result", "List"} /\ loading' \in BOOLEAN /\ msgs' = Rest(m)
    BY <1>7 DEF MutationDone, Typed, TypeOK
  <2>4. UNCHANGED <<client, stack, cur, rows, rowsFrom, cursor, filtering, filter, search,
                    paneVars, modalVars, server, keys>>
    BY <1>7 DEF MutationDone
  <2>5. TypeOK'
    BY <1>2, <2>2, <2>3, <2>4 DEF Typed, TypeOK, Screens, paneVars, modalVars
  <2>6. Wired'
    BY <1>2, <2>1, <2>2, <2>3, <2>4 DEF Typed, Wired, paneVars, modalVars
  <2> QED
    BY <2>5, <2>6 DEF Typed
<1>8. CASE DownloadDone(m)
  BY <1>2, <1>8 DEF DownloadDone, Typed, TypeOK, Wired, listVars, paneVars, modalVars
<1>9. CASE SummaryTick(m)
  <2> DEFINE c == Command("summary", m.cmd.id, cur, m.cmd.name, None)
  <2>1. client # None /\ msgs' = Rest(m) /\ (cmds' = cmds \/ (cmds' = cmds \cup {c} /\ cur \in Kinds))
    BY <1>2, <1>9 DEF SummaryTick, Can
  <2>2. ASSUME cur \in Kinds PROVE c \in Commands /\ RequestOK(c)
    <3>1. m.cmd.name \in Names /\ m.cmd.id \in Nat
      BY <1>2, <1>9 DEF SummaryTick, AnswerOK, Commands
    <3>2. "summary" \in Ops /\ cur \in MaybeKind
      BY <2>2 DEF Ops, ReadOps, MaybeKind
    <3>3. c \in Commands /\ c.client = client /\ c.kind = cur /\ c.name = m.cmd.name
      <4> HIDE DEF c
      <4> QED
        BY <3>1, <3>2, CommandType DEF c, Typed, TypeOK
    <3> QED
      BY <2>1, <2>2, <3>1, <3>3 DEF RequestOK, Typed, TypeOK, MaybeClient
  <2> HIDE DEF c
  <2>3. UNCHANGED <<screen, client, stack, listVars, paneVars, modalVars, reqID, server, keys>>
    BY <1>9 DEF SummaryTick
  <2>4. cmds' \subseteq Commands /\ \A d \in cmds' : RequestOK(d)
    BY <2>1, <2>2 DEF Typed, TypeOK, Wired
  <2> QED
    BY <1>2, <2>1, <2>3, <2>4 DEF Typed, TypeOK, Wired, listVars, paneVars, modalVars
<1>10. CASE SummaryLoaded(m)
  <2>1. client # None /\ msgs' = Rest(m)
    BY <1>2, <1>10 DEF SummaryLoaded
  <2>2. cache' \in [Names -> Docs \cup {None}] /\ summaryErr' \in BOOLEAN
    BY <1>2, <1>10 DEF SummaryLoaded, Typed, TypeOK
  <2>3. UNCHANGED <<screen, client, stack, listVars, debounceID, modalVars, reqID, cmds, server, keys>>
    BY <1>10 DEF SummaryLoaded
  <2> QED
    BY <1>2, <2>1, <2>2, <2>3 DEF Typed, TypeOK, Wired, listVars, modalVars
<1>11. CASE SearchLoaded(m)
  <2>1. client # None /\ msgs' = Rest(m) /\ UNCHANGED <<client, stack, modalVars, server, keys>>
    BY <1>2, <1>11 DEF SearchLoaded
  <2>2. CASE UNCHANGED <<screen, listVars, paneVars, reqID, cmds>>
    BY <1>2, <2>1, <2>2 DEF Typed, TypeOK, Wired, listVars, paneVars, modalVars
  <2>3. CASE SearchFailed
    <3>1. /\ screen' = "List" /\ loading' = FALSE
          /\ UNCHANGED <<cur, rows, rowsFrom, cursor, filtering, filter, search, paneVars, reqID, cmds>>
      BY <2>3 DEF SearchFailed
    <3>2. TypeOK'
      BY <1>2, <2>1, <3>1 DEF Typed, TypeOK, Screens, paneVars, modalVars
    <3>3. Wired'
      BY <1>2, <2>1, <3>1 DEF Typed, Wired, paneVars, modalVars
    <3> QED
      BY <3>2, <3>3 DEF Typed
  <2>4. CASE ShowEmptyList(m.cmd.kind, m.names)
    <3>1. stack' \in Seq(Frames) /\ keys' \in Nat /\ msgs' \subseteq msgs
      BY <1>2, <2>1 DEF Typed, TypeOK
    <3> QED
      BY <1>2, <2>1, <2>4, <3>1, ShowEmptyListTyped
  <2> QED
    BY <1>11, <2>2, <2>3, <2>4 DEF SearchLoaded
<1> QED
  BY <1>1, <1>3, <1>4, <1>5, <1>6, <1>7, <1>8, <1>9, <1>10, <1>11

\* Every step keeps the types.
LEMMA NextTyped ==
    ASSUME Typed, [Next]_vars
    PROVE  Typed'
<1>1. CASE UNCHANGED vars
  BY <1>1 DEF vars, listVars, paneVars, modalVars, netVars, Typed, TypeOK, Wired
<1>2. CASE Key
  BY <1>2, MenuKeysTyped, ListKeysTyped, RowKeysTyped, ModalKeysTyped DEF Key
<1> QED
  BY <1>1, <1>2, AnswerTyped, DeliverTyped DEF Next

\* Every reachable state has the shape the Go structs give it, and every request
\* running or answered carries what its handler needs.
THEOREM TypesHold == Spec => [](TypeOK /\ Wired)
<1>1. Init => Typed
  BY InitTyped
<1>2. Typed /\ [Next]_vars => Typed'
  BY NextTyped
<1>3. Typed => TypeOK /\ Wired
  BY DEF Typed
<1> QED
  BY <1>1, <1>2, <1>3, PTL DEF Spec
-----------------------------------------------------------------------------
(* Prompts                                                                 *)

\* A step leaves the prompts alone, closes them, or opens one on what is listed.
Undisturbed == UNCHANGED <<screen, client, cur, pending, nameAction>>
NoPrompt == screen' \notin {"Confirm", "Name"}

\* openList and applySearch leave the list on screen, never a prompt.
LEMMA ShowEmptyListNoPrompt ==
    ASSUME NEW k, NEW hits, ShowEmptyList(k, hits) PROVE NoPrompt
  BY DEF ShowEmptyList, NoPrompt

\* A step leaves a prompt and what it acts on alone, opens one, or leaves none up.
LEMMA PromptSteps ==
    ASSUME Typed, [Next]_vars
    PROVE  Undisturbed \/ NoPrompt \/ StartCreate \/ \E n \in Names : StartDelete(n) \/ StartDownload(n)
<1> USE DEF Undisturbed, NoPrompt
<1>0. returnTo \notin {"Confirm", "Name"}
  BY DEF Typed, Wired
<1>1. CASE UNCHANGED vars
  BY <1>1 DEF vars, listVars, modalVars
<1>2. CASE MenuKey
  BY <1>2, ShowEmptyListNoPrompt DEF MenuKey, ProfilesEnter, KindsEnter, OpenList, KindsSearch, StartSearch,
     KindsEsc, listVars, modalVars
<1>3. CASE SearchKey
  BY <1>0, <1>3 DEF SearchKey, ListSearch, StartSearch, SearchEnter, SearchEsc, SearchTab, SearchIndexLeave
<1>4. CASE ListKey
  <2>1. ASSUME NEW i, MoveCursor(i) PROVE NoPrompt
    BY <2>1 DEF MoveCursor, OnList
  <2>2. ASSUME NEW text, FilterType(text) PROVE NoPrompt
    BY <2>2 DEF FilterType
  <2>3. ASSUME NEW keep, FilterEnd(keep) PROVE NoPrompt
    BY <2>3 DEF FilterEnd
  <2>4. ASSUME ListKinds \/ FilterStart \/ ClearSearch \/ GoBack PROVE NoPrompt
    BY <2>4 DEF ListKinds, FilterStart, ClearSearch, GoBack, OnList
  <2> QED
    BY <1>4, <2>1, <2>2, <2>3, <2>4 DEF ListKey
<1>5. CASE RowKey
  <2>1. ASSUME NEW n \in Names, DrillDown(n) \/ OpenDetail(n) \/ StartEdit(n) PROVE NoPrompt
    BY <2>1, ShowEmptyListNoPrompt DEF DrillDown, OpenList, OpenDetail, StartEdit, ActsOn
  <2> QED
    BY <1>5, <2>1 DEF RowKey
<1>6. CASE ModalKey
  BY <1>0, <1>6 DEF ModalKey, DetailEsc, EditorAbort, ConfirmYes, ConfirmNo, NameEsc, ResultDismiss,
     EditorCommit, NameEnter
<1>7. CASE Answer
  <2>1. \E c, r : Answered(c, r)
    <3>1. PICK c \in cmds : \/ AnswerList(c) \/ AnswerRead(c) \/ AnswerSearch(c)
                           \/ AnswerMutation(c) \/ AnswerLocal(c)
      BY <1>7 DEF Answer
    <3>2. CASE AnswerList(c)
      BY <3>2 DEF AnswerList
    <3>3. CASE AnswerRead(c)
      BY <3>3 DEF AnswerRead
    <3>4. CASE AnswerSearch(c)
      BY <3>4 DEF AnswerSearch
    <3>5. CASE AnswerMutation(c)
      BY <3>5 DEF AnswerMutation
    <3>6. CASE AnswerLocal(c)
      BY <3>6 DEF AnswerLocal
    <3> QED
      BY <3>1, <3>2, <3>3, <3>4, <3>5, <3>6
  <2> QED
    BY <2>1 DEF Answered, listVars, modalVars
<1>8. CASE Deliver
  <2>1. PICK m \in msgs :
            \/ ClientReady(m) \/ ListLoaded(m) \/ DetailLoaded(m) \/ EditSeed(m) \/ MutationDone(m)
            \/ DownloadDone(m) \/ SummaryTick(m) \/ SummaryLoaded(m) \/ SearchLoaded(m)
    BY <1>8 DEF Deliver
  <2>2. CASE ClientReady(m) \/ EditSeed(m) \/ MutationDone(m)
    BY <2>2 DEF ClientReady, EditSeed, MutationDone, listVars
  <2>3. CASE ListLoaded(m) \/ DetailLoaded(m) \/ DownloadDone(m) \/ SummaryTick(m) \/ SummaryLoaded(m)
    BY <2>3 DEF ListLoaded, DetailLoaded, DownloadDone, SummaryTick, SummaryLoaded, listVars, modalVars
  <2>4. CASE SearchLoaded(m)
    BY <2>4, ShowEmptyListNoPrompt DEF SearchLoaded, SearchFailed, listVars, modalVars
  <2> QED
    BY <2>1, <2>2, <2>3, <2>4
<1> QED
  BY <1>1, <1>2, <1>3, <1>4, <1>5, <1>6, <1>7, <1>8 DEF Next, Key

\* No answer from the server, no key and no other client ever changes what an open
\* delete, create or download prompt acts on (the closures of startDelete,
\* startCreate and startDownload against every handler of model.go).
THEOREM PromptsHold == Spec => []PromptsTargetCurrent
<1>1. Init => PromptsTargetCurrent
  BY DEF Init, PromptsTargetCurrent
<1>2. ASSUME Typed, PromptsTargetCurrent, [Next]_vars PROVE PromptsTargetCurrent'
  <2>1. CASE Undisturbed
    BY <1>2, <2>1 DEF Undisturbed, PromptsTargetCurrent
  <2>2. CASE NoPrompt
    BY <2>2 DEF NoPrompt, PromptsTargetCurrent
  <2>3. ASSUME NEW n \in Names, StartDelete(n) PROVE PromptsTargetCurrent'
    <3>1. client \in Profiles /\ cur \in Kinds
      BY <1>2, <2>3 DEF StartDelete, ActsOn, Can, Typed, TypeOK, Wired, MaybeClient
    <3>2. Target(n) \in Targets
      BY <3>1 DEF Target, Targets
    <3> QED
      BY <2>3, <3>2, NoRecordAssumption DEF StartDelete, Target, PromptsTargetCurrent, listVars
  <2>4. ASSUME NEW n \in Names, StartDownload(n) PROVE PromptsTargetCurrent'
    <3>1. client \in Profiles /\ cur \in Kinds
      BY <1>2, <2>4 DEF StartDownload, ActsOn, Can, Typed, TypeOK, Wired, MaybeClient
    <3>2. Target(n) \in Targets
      BY <3>1 DEF Target, Targets
    <3>3. nameAction' \in NameActions
      BY <2>4, <3>2 DEF StartDownload, NameActions
    <3> QED
      BY <2>4, <3>3, NoRecordAssumption DEF StartDownload, Target, PromptsTargetCurrent, listVars
  <2>5. CASE StartCreate
    <3>1. CASE screen' # "Name"
      BY <2>5, <3>1 DEF StartCreate, OnList, PromptsTargetCurrent
    <3>2. CASE screen' = "Name"
      <4>1. client \in Profiles /\ cur \in Kinds /\ nameAction' = [op |-> "create", target |-> Target(None)]
        BY <1>2, <2>5, <3>2 DEF StartCreate, OnList, Can, Typed, TypeOK, Wired, MaybeClient
      <4>2. Target(None) \in Targets
        BY <4>1 DEF Target, Targets
      <4>3. nameAction' \in NameActions
        BY <4>1, <4>2 DEF NameActions
      <4> QED
        BY <2>5, <3>2, <4>1, <4>3, NoRecordAssumption DEF StartCreate, Target, PromptsTargetCurrent, listVars
    <3> QED
      BY <3>1, <3>2
  <2> QED
    BY <1>2, <2>1, <2>2, <2>3, <2>4, <2>5, PromptSteps
<1>3. Typed /\ [Next]_vars => Typed'
  BY NextTyped
<1>4. Init => Typed
  BY InitTyped
<1> QED
  BY <1>1, <1>2, <1>3, <1>4, PTL DEF Spec
-----------------------------------------------------------------------------
(* Request ids                                                             *)

\* What a step does to the stamped commands and to their answers: nothing new, one
\* more command or answer with a new id, or one command turned into its answer.
NothingNew ==
    /\ StampedCmds' \subseteq StampedCmds
    /\ StampedMsgs' \subseteq StampedMsgs
    /\ reqID' = reqID
Asks(c) ==
    /\ c.id = reqID + 1 /\ reqID' = reqID + 1
    /\ StampedCmds' \subseteq StampedCmds \cup {c}
    /\ StampedMsgs' \subseteq StampedMsgs
AsksCache(m) ==
    /\ m.cmd.id = reqID + 1 /\ reqID' = reqID + 1
    /\ StampedCmds' \subseteq StampedCmds
    /\ StampedMsgs' \subseteq StampedMsgs \cup {m}
Answers(c, m) ==
    /\ m.cmd = c
    /\ cmds' = cmds \ {c} /\ msgs' = msgs \cup {m}
    /\ reqID' = reqID

\* The answers a summary schedules and the commands it runs are not stamped.
LEMMA ScheduleNotStamped ==
    ASSUME NEW k, NEW sel, NEW c, NEW err, NEW out \in SUBSET msgs,
           ScheduleSummary(k, sel, c, err, out)
    PROVE  StampedMsgs' \subseteq StampedMsgs
<1>1. ASSUME NEW id, NEW n PROVE Tick(id, k, n).cmd.op \notin StampedOps
  BY DEF Tick, Reply, Command, StampedOps
<1>2. \A m \in msgs' : m \in msgs \/ m.cmd.op \notin StampedOps
  BY <1>1 DEF ScheduleSummary
<1> QED
  BY <1>2 DEF StampedMsgs

\* nextReqID and its command put a new id on one command.
LEMMA RequestAsks ==
    ASSUME NEW op, NEW k, NEW n, Request(op, k, n), msgs' \subseteq msgs
    PROVE  Asks(Command(op, reqID + 1, k, n, None))
  BY DEF Request, Asks, StampedCmds, StampedMsgs, Command

\* A read of the selected row puts a new id on one command or, cached, on one answer.
LEMMA RequestDocAsks ==
    ASSUME NEW op, NEW n, RequestDoc(op, n)
    PROVE  \/ Asks(Command(op, reqID + 1, cur, n, None))
           \/ \E m : AsksCache(m)
<1>1. CASE cache[n] = None
  BY <1>1, RequestAsks DEF RequestDoc
<1>2. CASE cache[n] # None
  <2> DEFINE m == Reply(Command(op, reqID + 1, cur, n, None), TRUE, {}, cache[n])
  <2>1. m.cmd.id = reqID + 1
    BY DEF Reply, Command
  <2>2. cmds' = cmds /\ reqID' = reqID + 1 /\ msgs' = msgs \cup {m}
    BY <1>2 DEF RequestDoc
  <2> HIDE DEF m
  <2>3. AsksCache(m)
    BY <2>1, <2>2 DEF AsksCache, StampedCmds, StampedMsgs
  <2> QED
    BY <2>3
<1> QED
  BY <1>1, <1>2

\* Every step, and what can be behind a one-time secret after it.
LEMMA KeySteps ==
    ASSUME Typed, Key
    PROVE  /\ NothingNew \/ (\E c : Asks(c)) \/ (\E m : AsksCache(m))
           /\ screen' # "Result" /\ keys' # keys
<1>0. returnTo # "Result" /\ keys + 1 # keys
  BY DEF Typed, TypeOK, Wired
<1> USE DEF Press, OnList
<1>1. ASSUME NEW k, NEW hits, ShowEmptyList(k, hits), msgs' = msgs
      PROVE  (\E c : Asks(c)) /\ screen' # "Result"
  BY <1>1, RequestAsks DEF ShowEmptyList
<1>2. CASE MenuKey
  <2>1. ASSUME NEW p \in Profiles, ProfilesEnter(p) PROVE NothingNew /\ screen' # "Result" /\ keys' # keys
    <3> DEFINE c == [Command("connect", keys, None, None, None) EXCEPT !.client = p]
    <3>1. c.op \notin StampedOps
      BY DEF Command, StampedOps
    <3>2. cmds' = cmds \cup {c} /\ UNCHANGED <<screen, msgs, reqID>> /\ screen = "Profiles" /\ keys' = keys + 1
      BY <2>1 DEF ProfilesEnter
    <3> HIDE DEF c
    <3> QED
      BY <1>0, <3>1, <3>2 DEF NothingNew, StampedCmds, StampedMsgs
  <2>2. ASSUME NEW k \in Menu, KindsEnter(k) PROVE (\E c : Asks(c)) /\ screen' # "Result" /\ keys' # keys
    BY <1>0, <1>1, <2>2 DEF KindsEnter, OpenList
  <2>3. ASSUME NEW k \in Menu, KindsSearch(k) PROVE NothingNew /\ screen' # "Result" /\ keys' # keys
    BY <1>0, <2>3 DEF KindsSearch, StartSearch, NothingNew, StampedCmds, StampedMsgs, netVars
  <2>4. CASE KindsEsc
    BY <1>0, <2>4 DEF KindsEsc, NothingNew, StampedCmds, StampedMsgs, netVars
  <2> QED
    BY <1>2, <2>1, <2>2, <2>3, <2>4 DEF MenuKey
<1>3. CASE SearchKey
  <2>1. CASE SearchEnter
    BY <1>0, <2>1, RequestAsks DEF SearchEnter
  <2>2. CASE ListSearch \/ SearchEsc \/ SearchTab \/ \E k \in Kinds : SearchIndexLeave(k)
    BY <1>0, <2>2 DEF ListSearch, StartSearch, SearchEsc, SearchTab, SearchIndexLeave, NothingNew,
       StampedCmds, StampedMsgs, netVars
  <2> QED
    BY <1>3, <2>1, <2>2 DEF SearchKey
<1>4. CASE ListKey
  <2>0. ASSUME NEW k, NEW sel, NEW c, NEW err, ScheduleSummary(k, sel, c, err, msgs),
               cmds' = cmds, reqID' = reqID
        PROVE  NothingNew
    BY <2>0, ScheduleNotStamped DEF NothingNew, StampedCmds
  <2>1. ASSUME NEW i, MoveCursor(i) PROVE NothingNew /\ screen' # "Result" /\ keys' # keys
    BY <1>0, <2>0, <2>1 DEF MoveCursor
  <2>2. ASSUME NEW text, FilterType(text) PROVE NothingNew /\ screen' # "Result" /\ keys' # keys
    BY <1>0, <2>0, <2>2 DEF FilterType
  <2>3. ASSUME NEW keep, FilterEnd(keep) PROVE NothingNew /\ screen' # "Result" /\ keys' # keys
    BY <1>0, <2>0, <2>3 DEF FilterEnd
  <2>4. CASE ClearSearch
    BY <1>0, <2>0, <2>4 DEF ClearSearch
  <2>5. CASE GoBack
    <3>1. screen' # "Result" /\ keys' # keys /\ cmds' = cmds /\ reqID' = reqID
      BY <1>0, <2>5 DEF GoBack
    <3>2. CASE stack = <<>>
      BY <2>5, <3>1, <3>2 DEF GoBack, NothingNew, StampedCmds, StampedMsgs
    <3>3. CASE stack # <<>>
      BY <2>0, <2>5, <3>1, <3>3 DEF GoBack
    <3> QED
      BY <3>1, <3>2, <3>3
  <2>6. CASE ListKinds \/ FilterStart \/ StartCreate
    BY <1>0, <2>6 DEF ListKinds, FilterStart, StartCreate, NothingNew, StampedCmds, StampedMsgs, netVars
  <2> QED
    BY <1>4, <2>1, <2>2, <2>3, <2>4, <2>5, <2>6 DEF ListKey
<1>5. CASE RowKey
  <2>1. ASSUME NEW n \in Names, DrillDown(n) PROVE (\E c : Asks(c)) /\ screen' # "Result" /\ keys' # keys
    BY <1>0, <1>1, <2>1 DEF DrillDown, OpenList
  <2>2. ASSUME NEW n \in Names, OpenDetail(n) \/ StartEdit(n)
        PROVE  ((\E c : Asks(c)) \/ (\E m : AsksCache(m))) /\ screen' # "Result" /\ keys' # keys
    BY <1>0, <2>2, RequestDocAsks DEF OpenDetail, StartEdit, ActsOn
  <2>3. ASSUME NEW n \in Names, StartDelete(n) \/ StartDownload(n)
        PROVE  NothingNew /\ screen' # "Result" /\ keys' # keys
    BY <1>0, <2>3 DEF StartDelete, StartDownload, NothingNew, StampedCmds, StampedMsgs, netVars
  <2> QED
    BY <1>5, <2>1, <2>2, <2>3 DEF RowKey
<1>6. CASE ModalKey
  <2>1. CASE DetailEsc \/ EditorAbort \/ ConfirmNo \/ NameEsc \/ ResultDismiss
    BY <1>0, <2>1 DEF DetailEsc, EditorAbort, ConfirmNo, NameEsc, ResultDismiss, NothingNew,
       StampedCmds, StampedMsgs, netVars
  <2>2. ASSUME NEW c, c.op \notin StampedOps, cmds' \subseteq cmds \cup {c}, UNCHANGED <<reqID, msgs>>
        PROVE  NothingNew
    BY <2>2 DEF NothingNew, StampedCmds, StampedMsgs
  <2>3. ASSUME NEW n \in Names, EditorCommit(n) PROVE NothingNew /\ screen' # "Result" /\ keys' # keys
    <3>1. ASSUME NEW op \in {"save", "create"}, NEW k, NEW x, NEW d
          PROVE  Command(op, keys, k, x, d).op \notin StampedOps
      BY DEF Command, StampedOps
    <3> DEFINE c == Command("save", keys, cur, editor.name, editor.seed)
               d == Command("create", keys, cur, n, None)
    <3>2. cmds' = cmds \cup {c} \/ cmds' = cmds \cup {d} \/ cmds' = cmds
      BY <2>3 DEF EditorCommit, Launch
    <3>3. c.op \notin StampedOps /\ d.op \notin StampedOps
      BY <3>1
    <3> HIDE DEF c, d
    <3>4. \E x : x.op \notin StampedOps /\ cmds' \subseteq cmds \cup {x}
      BY <3>2, <3>3
    <3> QED
      BY <1>0, <2>2, <2>3, <3>4 DEF EditorCommit
  <2>4. CASE ConfirmYes
    <3> DEFINE c == [Command("delete", keys, pending.kind, pending.name, None) EXCEPT !.client = pending.client]
    <3>1. c.op \notin StampedOps
      BY DEF Command, StampedOps
    <3>2. cmds' \subseteq cmds \cup {c} /\ UNCHANGED <<reqID, msgs>> /\ screen' # "Result" /\ keys' # keys
      BY <1>0, <2>4 DEF ConfirmYes
    <3> HIDE DEF c
    <3> QED
      BY <2>2, <3>1, <3>2
  <2>5. ASSUME NEW n, NameEnter(n) PROVE NothingNew /\ screen' # "Result" /\ keys' # keys
    <3> DEFINE t == nameAction.target
               x == IF nameAction.op = "create" THEN n ELSE t.name
               c == [Command(nameAction.op, keys, t.kind, x, None) EXCEPT !.client = t.client]
    <3>1. nameAction.op \in {"create", "download"}
      BY <2>5 DEF NameEnter, Typed, TypeOK, Wired, NameActions
    <3>2. c.op \notin StampedOps
      BY <3>1 DEF Command, StampedOps
    <3>3. cmds' \subseteq cmds \cup {c} /\ UNCHANGED <<reqID, msgs>> /\ screen' # "Result" /\ keys' # keys
      BY <1>0, <2>5 DEF NameEnter
    <3> HIDE DEF c
    <3> QED
      BY <2>2, <3>2, <3>3
  <2> QED
    BY <1>6, <2>1, <2>3, <2>4, <2>5 DEF ModalKey
<1> QED
  BY <1>2, <1>3, <1>4, <1>5, <1>6 DEF Key

\* The answers and the deliveries; a secret appears with a reload of the list.
LEMMA AnswerSteps ==
    ASSUME Typed, Answer
    PROVE  \E c \in cmds : \E m : Answers(c, m) /\ screen' = screen
<1>1. ASSUME NEW c, NEW ok, NEW ns, NEW d PROVE Reply(c, ok, ns, d).cmd = c
  BY DEF Reply
<1>2. ASSUME NEW c \in cmds, NEW ok, NEW ns, NEW d, Answered(c, Reply(c, ok, ns, d))
      PROVE  \E m : Answers(c, m) /\ screen' = screen
  <2> DEFINE m == Reply(c, ok, ns, d)
  <2>1. m.cmd = c
    BY <1>1
  <2>2. Answered(c, m)
    BY <1>2
  <2> HIDE DEF m
  <2> QED
    BY <2>1, <2>2 DEF Answered, Answers
<1>3. PICK c \in cmds : \/ AnswerList(c) \/ AnswerRead(c) \/ AnswerSearch(c)
                        \/ AnswerMutation(c) \/ AnswerLocal(c)
  BY DEF Answer
<1>4. \E ok, ns, d : Answered(c, Reply(c, ok, ns, d))
  <2>1. CASE AnswerList(c)
    BY <2>1 DEF AnswerList
  <2>2. CASE AnswerRead(c)
    BY <2>2 DEF AnswerRead
  <2>3. CASE AnswerSearch(c)
    BY <2>3 DEF AnswerSearch
  <2>4. CASE AnswerMutation(c)
    BY <2>4 DEF AnswerMutation
  <2>5. CASE AnswerLocal(c)
    BY <2>5 DEF AnswerLocal
  <2> QED
    BY <1>3, <2>1, <2>2, <2>3, <2>4, <2>5
<1> QED
  BY <1>2, <1>4

\* A handler takes its answer, or asks once more with a new id.
LEMMA DeliverSteps ==
    ASSUME Typed, Deliver
    PROVE  \/ NothingNew /\ (screen' = "Result" => screen = "Result")
           \/ \E c : Asks(c) /\ (screen' = "Result" => c.op = "list")
<1>1. PICK m \in msgs :
          \/ ClientReady(m) \/ ListLoaded(m) \/ DetailLoaded(m) \/ EditSeed(m) \/ MutationDone(m)
          \/ DownloadDone(m) \/ SummaryTick(m) \/ SummaryLoaded(m) \/ SearchLoaded(m)
  BY DEF Deliver
<1>2. Rest(m) \in SUBSET msgs
  BY DEF Rest
<1>3. ASSUME msgs' = Rest(m), cmds' = cmds, reqID' = reqID PROVE NothingNew
  BY <1>2, <1>3 DEF NothingNew, StampedCmds, StampedMsgs
<1>4. CASE ClientReady(m) \/ DetailLoaded(m) \/ EditSeed(m) \/ DownloadDone(m) \/ SummaryLoaded(m)
  BY <1>3, <1>4 DEF ClientReady, DetailLoaded, EditSeed, DownloadDone, SummaryLoaded
<1>5. CASE ListLoaded(m)
  BY <1>2, <1>5, ScheduleNotStamped DEF ListLoaded, NothingNew, StampedCmds
<1>6. CASE MutationDone(m)
  <2>1. CASE m.ok
    <3> DEFINE c == Command("list", reqID + 1, cur, None, None)
    <3>1. Asks(c)
      BY <1>2, <1>6, <2>1, RequestAsks DEF MutationDone
    <3>2. c.op = "list"
      BY DEF Command
    <3> QED
      BY <3>1, <3>2
  <2>2. CASE ~m.ok
    BY <1>3, <1>6, <2>2 DEF MutationDone
  <2> QED
    BY <2>1, <2>2
<1>7. CASE SummaryTick(m)
  <2> DEFINE c == Command("summary", m.cmd.id, cur, m.cmd.name, None)
  <2>1. c.op \notin StampedOps
    BY DEF Command, StampedOps
  <2>2. cmds' \subseteq cmds \cup {c} /\ msgs' = Rest(m) /\ reqID' = reqID /\ screen' = screen
    BY <1>7 DEF SummaryTick
  <2> HIDE DEF c
  <2> QED
    BY <1>2, <2>1, <2>2 DEF NothingNew, StampedCmds, StampedMsgs
<1>8. CASE SearchLoaded(m)
  <2>1. CASE UNCHANGED <<screen, listVars, paneVars, reqID, cmds>>
    BY <1>3, <1>8, <2>1 DEF SearchLoaded
  <2>2. CASE SearchFailed
    BY <1>3, <1>8, <2>2 DEF SearchLoaded, SearchFailed
  <2>3. CASE ShowEmptyList(m.cmd.kind, m.names)
    BY <1>2, <1>8, <2>3, RequestAsks DEF SearchLoaded, ShowEmptyList
  <2> QED
    BY <1>8, <2>1, <2>2, <2>3 DEF SearchLoaded
<1> QED
  BY <1>1, <1>4, <1>5, <1>6, <1>7, <1>8

\* The inductive invariant of the request ids.
IdsOK == IdsFresh /\ LatestIsUnique /\ ResultReloads

\* The invariant of the request ids holds at first and every step keeps it.
LEMMA IdsInductive ==
    ASSUME Typed, IdsOK, [Next]_vars
    PROVE  IdsOK'
<1> USE DEF IdsOK, IdsFresh, LatestIsUnique, ResultReloads
<1>0. /\ reqID \in Nat
      /\ \A c \in StampedCmds : c.id \in Nat
      /\ \A m \in StampedMsgs : m.cmd.id \in Nat
  BY DEF Typed, TypeOK, StampedCmds, StampedMsgs, Commands, Replies
<1>1. CASE NothingNew /\ (screen' = "Result" => screen = "Result")
  BY <1>0, <1>1 DEF NothingNew
<1>2. ASSUME NEW c, Asks(c), screen' = "Result" => c.op = "list" PROVE IdsOK'
  BY <1>0, <1>2 DEF Asks
<1>3. ASSUME NEW m, AsksCache(m), screen' # "Result" PROVE IdsOK'
  BY <1>0, <1>3 DEF AsksCache
<1>4. ASSUME NEW c \in cmds, NEW m, Answers(c, m), screen' = screen PROVE IdsOK'
  <2>1. StampedCmds' \subseteq StampedCmds \ {c}
    BY <1>4 DEF Answers, StampedCmds
  <2>2. StampedMsgs' \subseteq StampedMsgs \cup {m} /\ (m \in StampedMsgs' /\ m \notin StampedMsgs => c \in StampedCmds)
    BY <1>4 DEF Answers, StampedCmds, StampedMsgs
  <2> QED
    BY <1>0, <1>4, <2>1, <2>2 DEF Answers
<1>5. CASE UNCHANGED vars
  BY <1>5 DEF vars, netVars, StampedCmds, StampedMsgs
<1>6. CASE Key
  BY <1>1, <1>2, <1>3, <1>6, KeySteps
<1>7. CASE Answer
  BY <1>4, <1>7, AnswerSteps
<1>8. CASE Deliver
  BY <1>1, <1>2, <1>8, DeliverSteps
<1> QED
  BY <1>5, <1>6, <1>7, <1>8 DEF Next

\* At most one answer is ever current: a request id is on one running command or one
\* answer (nextReqID and the checks of every stamped handler).
THEOREM IdsHold == Spec => [](LatestIsUnique /\ IdsFresh /\ ResultReloads)
<1>1. Init => Typed /\ IdsOK
  BY InitTyped DEF Init, IdsOK, IdsFresh, LatestIsUnique, ResultReloads, StampedCmds, StampedMsgs
<1>2. Typed /\ IdsOK /\ [Next]_vars => Typed' /\ IdsOK'
  BY NextTyped, IdsInductive
<1>3. IdsOK => LatestIsUnique /\ IdsFresh /\ ResultReloads
  BY DEF IdsOK
<1> QED
  BY <1>1, <1>2, <1>3, PTL DEF Spec

\* A search result, an edit seed or any other read that was under way when a one-time
\* key is shown never takes the key off the screen (handleMutationDone reloads the
\* list, which makes them stale).
THEOREM SecretHolds == Spec => SecretSurvivesReads
<1>1. Init => Typed /\ IdsOK
  BY InitTyped DEF Init, IdsOK, IdsFresh, LatestIsUnique, ResultReloads, StampedCmds, StampedMsgs
<1>2. Typed /\ IdsOK /\ [Next]_vars => Typed' /\ IdsOK'
  BY NextTyped, IdsInductive
<1>3. ASSUME Typed, IdsOK, [Next]_vars, screen = "Result", screen' # "Result"
      PROVE  \/ keys' # keys
             \/ \E m \in msgs \ msgs' : m.cmd.op \in MutationOps \cup {"connect"}
  <2>1. CASE UNCHANGED vars
    BY <1>3, <2>1 DEF vars
  <2>2. CASE Key
    BY <1>3, <2>2, KeySteps
  <2>3. CASE Answer
    BY <1>3, <2>3, AnswerSteps
  <2>4. CASE Deliver
    <3>1. PICK m \in msgs :
              \/ ClientReady(m) \/ ListLoaded(m) \/ DetailLoaded(m) \/ EditSeed(m) \/ MutationDone(m)
              \/ DownloadDone(m) \/ SummaryTick(m) \/ SummaryLoaded(m) \/ SearchLoaded(m)
      BY <2>4 DEF Deliver
    <3>2. m.cmd.op \in {"seed", "search"} => ~Latest(m)
      BY <1>3 DEF IdsOK, ResultReloads, Latest, StampedMsgs, StampedOps
    <3>3. CASE ClientReady(m) \/ MutationDone(m)
      <4>1. m \notin msgs' /\ m.cmd.op \in MutationOps \cup {"connect"}
        BY <3>3 DEF ClientReady, MutationDone, Takes, Rest, MutationOps
      <4> QED
        BY <4>1
    <3>4. CASE EditSeed(m) \/ SearchLoaded(m)
      BY <1>3, <3>2, <3>4 DEF EditSeed, SearchLoaded, Takes
    <3>5. CASE ListLoaded(m) \/ DetailLoaded(m) \/ DownloadDone(m) \/ SummaryTick(m) \/ SummaryLoaded(m)
      BY <1>3, <3>5 DEF ListLoaded, DetailLoaded, DownloadDone, SummaryTick, SummaryLoaded
    <3> QED
      BY <3>1, <3>3, <3>4, <3>5
  <2> QED
    BY <1>3, <2>1, <2>2, <2>3, <2>4 DEF Next
<1>4. Typed /\ IdsOK /\ [Next]_vars =>
        [screen = "Result" /\ screen' # "Result" =>
            \/ keys' # keys
            \/ \E m \in msgs \ msgs' : m.cmd.op \in MutationOps \cup {"connect"}]_vars
  BY <1>3
<1> QED
  BY <1>1, <1>2, <1>4, PTL DEF Spec, SecretSurvivesReads

\* What the handlers of answers take for granted, all of it (model.go).
THEOREM HandlersHold == Spec => []HandlersFindTheirs
  BY TypesHold, IdsHold, PromptsHold, PTL DEF HandlersFindTheirs
-----------------------------------------------------------------------------
(* The list                                                                *)

\* Every position of a list has a row: the number of smaller rows tells the rows apart,
\* so it takes every value below the length (selectedRow indexes the sorted rows).
LEMMA RowAtExists ==
    ASSUME NEW rs \in SUBSET Names, NEW i \in Nat, i < Cardinality(rs)
    PROVE  RowAt(rs, i) # {}
<1> DEFINE below(n) == {m \in rs : m < n}
           rank == [n \in rs |-> Cardinality(below(n))]
           size == Cardinality(rs)
<1>1. rs \subseteq Nat /\ IsFiniteSet(rs)
  BY NamesAssumption, FS_Subset
<1>2. size \in Nat
  BY <1>1, FS_CardinalityType
<1>3. ASSUME NEW n \in rs
      PROVE  IsFiniteSet(below(n)) /\ Cardinality(below(n)) \in 0..(size - 1)
  <2>1. below(n) \in SUBSET rs /\ below(n) # rs
    BY <1>1
  <2>2. IsFiniteSet(below(n)) /\ Cardinality(below(n)) <= size /\ Cardinality(below(n)) # size
    BY <1>1, <2>1, FS_Subset
  <2>3. Cardinality(below(n)) \in Nat
    BY <2>2, FS_CardinalityType
  <2> HIDE DEF below, size
  <2> QED
    BY <1>2, <2>2, <2>3
<1>4. ASSUME NEW m \in rs, NEW n \in rs, m < n
      PROVE  Cardinality(below(m)) # Cardinality(below(n))
  <2>1. below(m) \in SUBSET below(n) /\ below(m) # below(n)
    <3>1. m \in Nat /\ n \in Nat /\ \A x \in rs : x \in Nat
      BY <1>1
    <3>2. \A x \in rs : x < m => x < n
      BY <1>4, <3>1
    <3>3. m \in below(n) /\ m \notin below(m)
      BY <1>4, <3>1
    <3> QED
      BY <3>2, <3>3
  <2> QED
    BY <1>3, <2>1, FS_Subset
<1>5. rank \in Injection(rs, 0..(size - 1))
  <2>1. rank \in [rs -> 0..(size - 1)]
    BY <1>3
  <2>2. ASSUME NEW m \in rs, NEW n \in rs, rank[m] = rank[n] PROVE m = n
    <3>1. rank[m] = Cardinality(below(m)) /\ rank[n] = Cardinality(below(n))
      OBVIOUS
    <3>2. m < n \/ n < m \/ m = n
      BY <1>1
    <3> HIDE DEF rank, below
    <3> QED
      BY <1>4, <2>2, <3>1, <3>2
  <2> HIDE DEF rank, size
  <2> QED
    BY <2>1, <2>2 DEF Injection, IsInjective
<1>6. IsFiniteSet(0..(size - 1)) /\ Cardinality(0..(size - 1)) = size
  <2> HIDE DEF size
  <2>1. 0 \in Int /\ size - 1 \in Int /\ size > 0
    BY <1>2 DEF size
  <2>2. IsFiniteSet(0..(size - 1)) /\ Cardinality(0..(size - 1)) = IF 0 > size - 1 THEN 0 ELSE size - 1 - 0 + 1
    BY <2>1, FS_Interval
  <2> QED
    BY <1>2, <2>1, <2>2
<1>7. rank \in Surjection(rs, 0..(size - 1))
  <2> HIDE DEF rank
  <2> QED
    BY <1>5, <1>6, FS_Injection
<1>8. \E n \in rs : rank[n] = i
  <2>1. i \in 0..(size - 1)
    <3> HIDE DEF size
    <3> QED
      BY <1>2 DEF size
  <2> HIDE DEF rank, size
  <2> QED
    BY <1>7, <2>1 DEF Surjection
<1> QED
  BY <1>8 DEF RowAt

\* A clamped cursor, and a cursor on the first row, are positions of a list that has rows.
LEMMA ClampInside ==
    ASSUME NEW rs \in SUBSET Names, NEW i \in Nat, rs # {}
    PROVE  0 < Cardinality(rs) /\ Clamp(i, rs) < Cardinality(rs) /\ LastOf(rs) < Cardinality(rs)
<1>1. IsFiniteSet(rs)
  BY NamesAssumption, FS_Subset
<1>2. Cardinality(rs) \in Nat /\ Cardinality(rs) # 0
  BY <1>1, FS_CardinalityType, FS_EmptySet
<1> QED
  BY <1>2 DEF Clamp, LastOf

\* What goes on with the list: a list request that is the latest, running or answered;
\* and an error answer, which carries no rows.
Current(c) == c.op = "list" /\ c.id = reqID /\ (c \in cmds \/ \E m \in msgs : m.cmd = c)
Rowless(m) == m.cmd.op = "list" /\ ~m.ok => m.names = {}

\* A step that leaves the list and what is asked for it alone.
Quiet ==
    /\ UNCHANGED <<client, cur, stack, rows, rowsFrom, cursor, loading, filter, search>>
    /\ \A c : Current(c)' => Current(c)
    /\ \A m \in msgs' \ msgs : Rowless(m)

\* The ticks a summary schedules are the only messages it adds.
LEMMA ScheduleAdds ==
    ASSUME NEW k, NEW sel, NEW c, NEW err, NEW out, ScheduleSummary(k, sel, c, err, out)
    PROVE  \A m \in msgs' \ out : m.cmd.op = "tick"
<1>1. ASSUME NEW id, NEW n PROVE Tick(id, k, n).cmd.op = "tick"
  BY DEF Tick, Reply, Command
<1> QED
  BY <1>1 DEF ScheduleSummary

\* A command that is no list command, and a new request id, leave no list request current
\* but those that were.
LEMMA QuietRequests ==
    ASSUME Typed, IdsOK, reqID' \in {reqID, reqID + 1},
           \A c \in cmds' \ cmds : c.op # "list",
           \A m \in msgs' \ msgs : m.cmd.op # "list"
    PROVE  /\ \A c : Current(c)' => Current(c)
           /\ \A m \in msgs' \ msgs : Rowless(m)
<1>1. ASSUME NEW c, Current(c)' PROVE Current(c)
  <2>1. c \in cmds \/ \E m \in msgs : m.cmd = c
    BY <1>1 DEF Current
  <2>2. c.op = "list" /\ c.id = reqID' /\ "list" \in StampedOps
    BY <1>1 DEF Current, StampedOps
  <2>3. c.id <= reqID
    BY <2>1, <2>2 DEF IdsOK, IdsFresh, StampedCmds, StampedMsgs
  <2> QED
    BY <2>1, <2>2, <2>3 DEF Current, Typed, TypeOK
<1> QED
  BY <1>1 DEF Rowless

\* A read of one row, of any screen, leaves the list alone.
LEMMA RequestDocQuiet ==
    ASSUME Typed, IdsOK, NEW op \in {"detail", "seed"}, NEW n, RequestDoc(op, n)
    PROVE  /\ \A c : Current(c)' => Current(c)
           /\ \A m \in msgs' \ msgs : Rowless(m)
<1>1. reqID' = reqID + 1
  BY DEF RequestDoc, Request
<1>2. \A c \in cmds' \ cmds : c.op # "list"
  <2>1. Command(op, reqID + 1, cur, n, None).op # "list"
    BY DEF Command
  <2>2. cmds' \subseteq cmds \cup {Command(op, reqID + 1, cur, n, None)}
    BY DEF RequestDoc, Request
  <2> QED
    BY <2>1, <2>2
<1>3. \A m \in msgs' \ msgs : m.cmd.op # "list"
  <2> DEFINE m == Reply(Command(op, reqID + 1, cur, n, None), TRUE, {}, cache[n])
  <2>1. m.cmd.op # "list"
    BY DEF Command, Reply
  <2>2. msgs' \subseteq msgs \cup {m}
    BY DEF RequestDoc
  <2> HIDE DEF m
  <2> QED
    BY <2>1, <2>2
<1> QED
  BY <1>1, <1>2, <1>3, QuietRequests

\* The answer to a list command carries rows only if it succeeded; no answer makes a
\* request current.
LEMMA AnswerQuiet ==
    ASSUME Typed, IdsOK, Answer
    PROVE  Quiet
<1>1. PICK c \in cmds : \/ AnswerList(c) \/ AnswerRead(c) \/ AnswerSearch(c)
                        \/ AnswerMutation(c) \/ AnswerLocal(c)
  BY DEF Answer
<1>2. \E ok, ns, d : Answered(c, Reply(c, ok, ns, d)) /\ (c.op = "list" /\ ~ok => ns = {})
  <2>1. CASE AnswerList(c)
    BY <2>1 DEF AnswerList
  <2>2. CASE AnswerRead(c)
    BY <2>2 DEF AnswerRead
  <2>3. CASE AnswerSearch(c)
    BY <2>3 DEF AnswerSearch
  <2>4. CASE AnswerMutation(c)
    BY <2>4 DEF AnswerMutation
  <2>5. CASE AnswerLocal(c)
    BY <2>5 DEF AnswerLocal
  <2> QED
    BY <1>1, <2>1, <2>2, <2>3, <2>4, <2>5
<1>3. PICK ok, ns, d : Answered(c, Reply(c, ok, ns, d)) /\ (c.op = "list" /\ ~ok => ns = {})
  BY <1>2
<1> DEFINE m == Reply(c, ok, ns, d)
<1>4. m.cmd = c /\ m.ok = ok /\ m.names = ns
  BY DEF Reply
<1>5. Answered(c, m)
  BY <1>3
<1> HIDE DEF m
<1>6. ASSUME NEW x, Current(x)' PROVE Current(x)
  BY <1>1, <1>4, <1>5, <1>6 DEF Answered, Current
<1>7. Rowless(m)
  BY <1>3, <1>4 DEF Rowless
<1> QED
  BY <1>5, <1>6, <1>7 DEF Answered, Quiet, listVars

\* The keys outside the list: none but a menu choice and a search asks for rows.
LEMMA MenuQuiet ==
    ASSUME Typed, IdsOK, MenuKey \/ SearchKey \/ ModalKey
    PROVE  Quiet \/ SearchEnter \/ \E k \in Menu : KindsEnter(k)
<1> USE DEF Press, OnList
<1>1. ASSUME cmds' = cmds, msgs' = msgs, reqID' = reqID
      PROVE  /\ \A c : Current(c)' => Current(c)
             /\ \A m \in msgs' \ msgs : Rowless(m)
  BY <1>1 DEF Current
<1>2. ASSUME NEW c, c.op # "list", cmds' \subseteq cmds \cup {c}, UNCHANGED <<reqID, msgs>>
      PROVE  /\ \A x : Current(x)' => Current(x)
             /\ \A m \in msgs' \ msgs : Rowless(m)
  BY <1>2, QuietRequests
<1>3. CASE \/ KindsEsc \/ ListSearch \/ SearchEsc \/ SearchTab
           \/ \E k \in Menu : KindsSearch(k)
           \/ \E k \in Kinds : SearchIndexLeave(k)
  <2>1. cmds' = cmds /\ msgs' = msgs /\ reqID' = reqID
    BY <1>3 DEF KindsEsc, ListSearch, SearchEsc, SearchTab, KindsSearch, StartSearch, SearchIndexLeave,
       netVars
  <2>2. UNCHANGED <<client, cur, stack, rows, rowsFrom, cursor, loading, filter, search>>
    BY <1>3 DEF KindsEsc, ListSearch, SearchEsc, SearchTab, KindsSearch, StartSearch, SearchIndexLeave,
       listVars
  <2> QED
    BY <1>1, <2>1, <2>2 DEF Quiet
<1>4. CASE DetailEsc \/ EditorAbort \/ ConfirmNo \/ NameEsc \/ ResultDismiss
  <2>1. cmds' = cmds /\ msgs' = msgs /\ reqID' = reqID
    BY <1>4 DEF DetailEsc, EditorAbort, ConfirmNo, NameEsc, ResultDismiss, netVars
  <2>2. UNCHANGED <<client, cur, stack, rows, rowsFrom, cursor, loading, filter, search>>
    BY <1>4 DEF DetailEsc, EditorAbort, ConfirmNo, NameEsc, ResultDismiss, listVars
  <2> QED
    BY <1>1, <2>1, <2>2 DEF Quiet
<1>5. ASSUME NEW p \in Profiles, ProfilesEnter(p) PROVE Quiet
  <2> DEFINE c == [Command("connect", keys, None, None, None) EXCEPT !.client = p]
  <2>1. c.op # "list"
    BY DEF Command
  <2>2. cmds' = cmds \cup {c} /\ UNCHANGED <<reqID, msgs>>
    BY <1>5 DEF ProfilesEnter
  <2> HIDE DEF c
  <2> QED
    BY <1>2, <1>5, <2>1, <2>2 DEF ProfilesEnter, Quiet, listVars
<1>6. ASSUME NEW n \in Names, EditorCommit(n) PROVE Quiet
  <2> DEFINE c == Command("save", keys, cur, editor.name, editor.seed)
             d == Command("create", keys, cur, n, None)
  <2>1. c.op # "list" /\ d.op # "list"
    BY DEF Command
  <2>2. cmds' = cmds \cup {c} \/ cmds' = cmds \cup {d} \/ cmds' = cmds
    BY <1>6 DEF EditorCommit, Launch
  <2> HIDE DEF c, d
  <2>3. \E x : x.op # "list" /\ cmds' \subseteq cmds \cup {x}
    BY <2>1, <2>2
  <2> QED
    BY <1>2, <1>6, <2>3 DEF EditorCommit, Quiet, listVars
<1>7. ASSUME ConfirmYes PROVE Quiet
  <2> DEFINE c == [Command("delete", keys, pending.kind, pending.name, None) EXCEPT !.client = pending.client]
  <2>1. c.op # "list"
    BY DEF Command
  <2>2. cmds' \subseteq cmds \cup {c}
    BY <1>7 DEF ConfirmYes
  <2> HIDE DEF c
  <2> QED
    BY <1>2, <1>7, <2>1, <2>2 DEF ConfirmYes, Quiet, listVars
<1>8. ASSUME NEW n, NameEnter(n) PROVE Quiet
  <2> DEFINE t == nameAction.target
             x == IF nameAction.op = "create" THEN n ELSE t.name
             c == [Command(nameAction.op, keys, t.kind, x, None) EXCEPT !.client = t.client]
  <2>1. nameAction.op \in {"create", "download"}
    BY <1>8 DEF NameEnter, Typed, TypeOK, Wired, NameActions
  <2>2. c.op # "list"
    BY <2>1 DEF Command
  <2>3. cmds' \subseteq cmds \cup {c}
    BY <1>8 DEF NameEnter
  <2> HIDE DEF c
  <2> QED
    BY <1>2, <1>8, <2>2, <2>3 DEF NameEnter, Quiet, listVars
<1> QED
  BY <1>3, <1>4, <1>5, <1>6, <1>7, <1>8 DEF MenuKey, SearchKey, ModalKey

\* The handlers that leave the list alone (model.go).
LEMMA DeliverQuiet ==
    ASSUME Typed, IdsOK, Deliver
    PROVE  \/ Quiet
           \/ \E m \in msgs : ClientReady(m) \/ ListLoaded(m) \/ MutationDone(m) \/ SearchLoaded(m)
<1>1. ASSUME NEW m \in msgs, DetailLoaded(m) \/ EditSeed(m) \/ DownloadDone(m) \/ SummaryLoaded(m)
      PROVE  Quiet
  <2>1. cmds' = cmds /\ msgs' \subseteq msgs /\ reqID' = reqID
    BY <1>1 DEF DetailLoaded, EditSeed, DownloadDone, SummaryLoaded, Rest
  <2>2. UNCHANGED <<client, cur, stack, rows, rowsFrom, cursor, loading, filter, search>>
    BY <1>1 DEF DetailLoaded, EditSeed, DownloadDone, SummaryLoaded, listVars
  <2> QED
    BY <2>1, <2>2 DEF Quiet, Current
<1>2. ASSUME NEW m \in msgs, SummaryTick(m) PROVE Quiet
  <2> DEFINE c == Command("summary", m.cmd.id, cur, m.cmd.name, None)
  <2>1. c.op # "list"
    BY DEF Command
  <2>2. cmds' \subseteq cmds \cup {c} /\ msgs' \subseteq msgs /\ reqID' = reqID
    BY <1>2 DEF SummaryTick, Rest
  <2> HIDE DEF c
  <2> QED
    BY <1>2, <2>1, <2>2, QuietRequests DEF SummaryTick, Quiet, listVars
<1> QED
  BY <1>1, <1>2 DEF Deliver

\* What a step can do to the list.
LEMMA ListSteps ==
    ASSUME Typed, IdsOK, [Next]_vars
    PROVE  \/ Quiet
           \/ SearchEnter \/ ClearSearch \/ GoBack
           \/ \E k \in Menu : KindsEnter(k)
           \/ \E i \in 0..Cardinality(Names) : MoveCursor(i)
           \/ \E text \in Filters : FilterType(text)
           \/ \E keep \in BOOLEAN : FilterEnd(keep)
           \/ \E n \in Names : DrillDown(n)
           \/ \E m \in msgs : ClientReady(m) \/ ListLoaded(m) \/ MutationDone(m) \/ SearchLoaded(m)
<1> USE DEF Press, OnList
<1>1. CASE ListKinds \/ FilterStart \/ StartCreate
  <2>1. cmds' = cmds /\ msgs' = msgs /\ reqID' = reqID
    BY <1>1 DEF ListKinds, FilterStart, StartCreate, netVars
  <2>2. UNCHANGED <<client, cur, stack, rows, rowsFrom, cursor, loading, filter, search>>
    BY <1>1 DEF ListKinds, FilterStart, StartCreate, listVars
  <2> QED
    BY <2>1, <2>2 DEF Quiet, Current
<1>2. ASSUME NEW n \in Names, OpenDetail(n) \/ StartEdit(n) PROVE Quiet
  <2>1. RequestDoc("detail", n) \/ RequestDoc("seed", n)
    BY <1>2 DEF OpenDetail, StartEdit
  <2> QED
    BY <1>2, <2>1, RequestDocQuiet DEF OpenDetail, StartEdit, Quiet, listVars
<1>3. ASSUME NEW n \in Names, StartDelete(n) \/ StartDownload(n) PROVE Quiet
  <2>1. cmds' = cmds /\ msgs' = msgs /\ reqID' = reqID
    BY <1>3 DEF StartDelete, StartDownload, netVars
  <2>2. UNCHANGED <<client, cur, stack, rows, rowsFrom, cursor, loading, filter, search>>
    BY <1>3 DEF StartDelete, StartDownload, listVars
  <2> QED
    BY <2>1, <2>2 DEF Quiet, Current
<1>4. CASE UNCHANGED vars
  BY <1>4 DEF vars, listVars, netVars, Quiet, Current
<1> QED
  BY <1>1, <1>2, <1>3, <1>4, MenuQuiet, AnswerQuiet, DeliverQuiet DEF Next, Key, ListKey, RowKey

\* The inductive invariant of the selection: the cursor, and the cursor of every frame a
\* drill-down keeps, are positions of their rows; a failed answer has none.
SelectionOK ==
    /\ Filtered # {} => cursor < Cardinality(Filtered)
    /\ \A i \in DOMAIN stack : stack[i].rows # {} => stack[i].cursor < Cardinality(stack[i].rows)
    /\ \A m \in msgs : Rowless(m)

\* A frame kept for goBack has the cursor of the rows it keeps: the filtered rows the
\* cursor was among are among them (openSelected).
LEMMA FrameOK ==
    ASSUME Typed, SelectionOK, rows # {}, Filtered # {}
    PROVE  cursor < Cardinality(rows)
<1>1. Filtered \in SUBSET rows /\ IsFiniteSet(rows)
  BY NamesAssumption, FS_Subset DEF Filtered, Narrowed, Typed, TypeOK
<1>2. /\ Cardinality(Filtered) <= Cardinality(rows)
      /\ Cardinality(Filtered) \in Nat /\ Cardinality(rows) \in Nat
  BY <1>1, FS_Subset, FS_CardinalityType
<1> QED
  BY <1>2 DEF SelectionOK, Typed, TypeOK

\* openList and applySearch show no row yet, whatever is kept of the frames.
LEMMA EmptyListSelection ==
    ASSUME SelectionOK, NEW k, NEW hits, ShowEmptyList(k, hits), msgs' \subseteq msgs,
           \A i \in DOMAIN stack' :
              stack'[i].rows # {} => stack'[i].cursor < Cardinality(stack'[i].rows)
    PROVE  SelectionOK'
<1>1. Filtered' = {}
  BY DEF ShowEmptyList, Filtered, Narrowed
<1> QED
  BY <1>1 DEF SelectionOK

\* Every step keeps the cursor on a row.
LEMMA SelectionInductive ==
    ASSUME Typed, IdsOK, SelectionOK, [Next]_vars
    PROVE  SelectionOK'
<1> USE DEF Press, OnList
<1>0. rows \in SUBSET Names /\ Filtered \in SUBSET Names /\ cursor \in Nat
  BY NarrowedSubset DEF Typed, TypeOK, Filtered
<1>1. ASSUME NEW k, NEW sel, NEW c, NEW err, NEW out \in SUBSET msgs,
             ScheduleSummary(k, sel, c, err, out)
      PROVE  \A m \in msgs' : Rowless(m)
  BY <1>1, ScheduleAdds DEF SelectionOK, Rowless
<1>2. CASE Quiet
  BY <1>2 DEF Quiet, SelectionOK, Filtered
<1>3. CASE SearchEnter
  BY <1>3 DEF SearchEnter, SelectionOK, Filtered
<1>4. ASSUME NEW rs \in SUBSET Names, rs # {}, NEW i \in {0, LastOf(rs), Clamp(cursor, rs)}
      PROVE  i < Cardinality(rs)
  BY <1>0, <1>4, ClampInside
<1>5. ASSUME NEW i \in 0..Cardinality(Names), MoveCursor(i) PROVE SelectionOK'
  <2>1. i \in Nat /\ cursor' = i /\ Filtered' = Filtered /\ stack' = stack
    BY <1>5 DEF MoveCursor, Filtered
  <2>2. Filtered # {} => i < Cardinality(Filtered)
    <3>1. CASE i + 1 = cursor
      <4>1. Cardinality(Filtered) \in Nat
        BY <1>0, PositionType
      <4> QED
        BY <1>0, <2>1, <3>1, <4>1 DEF SelectionOK
    <3>2. CASE i < Cardinality(Filtered)
      BY <3>2
    <3>3. CASE i \in {0, LastOf(Filtered)}
      BY <1>0, <1>4, <3>3
    <3> QED
      BY <1>5, <3>1, <3>2, <3>3 DEF MoveCursor
  <2>3. \A m \in msgs' : Rowless(m)
    BY <1>1, <1>5 DEF MoveCursor
  <2> QED
    BY <2>1, <2>2, <2>3 DEF SelectionOK
<1>6. ASSUME NEW text \in Filters, FilterType(text) PROVE SelectionOK'
  <2>1. Filtered' = Narrowed(rows, search, text) /\ cursor' = Clamp(cursor, Filtered') /\ stack' = stack
    BY <1>6 DEF FilterType, Filtered
  <2>2. Filtered' \in SUBSET Names
    BY <1>0, <2>1, NarrowedSubset
  <2>3. \A m \in msgs' : Rowless(m)
    BY <1>1, <1>6 DEF FilterType
  <2> QED
    BY <1>4, <2>1, <2>2, <2>3 DEF SelectionOK
<1>7. ASSUME ClearSearch \/ \E keep \in BOOLEAN : FilterEnd(keep) PROVE SelectionOK'
  <2>1. cursor' = 0 /\ stack' = stack /\ rows' = rows
    BY <1>7 DEF ClearSearch, FilterEnd
  <2>2. Filtered' \in SUBSET Names
    BY <1>0, <2>1, NarrowedSubset DEF Filtered
  <2>3. \A m \in msgs' : Rowless(m)
    BY <1>1, <1>7 DEF ClearSearch, FilterEnd
  <2> QED
    BY <1>4, <2>1, <2>2, <2>3 DEF SelectionOK
<1>8. CASE GoBack
  <2>1. CASE stack = <<>>
    BY <1>8, <2>1 DEF GoBack, SelectionOK, Filtered, listVars
  <2>2. CASE stack # <<>>
    <3> DEFINE top == stack[Len(stack)]
    <3>1. /\ rows' = top.rows /\ cursor' = top.cursor /\ filter' = Names /\ search' = None
          /\ stack' = SubSeq(stack, 1, Len(stack) - 1)
      BY <1>8, <2>2 DEF GoBack
    <3>2. /\ Len(stack) \in DOMAIN stack /\ top \in Frames
          /\ DOMAIN stack' \subseteq DOMAIN stack /\ \A i \in DOMAIN stack' : stack'[i] = stack[i]
      BY <2>2, <3>1 DEF Typed, TypeOK
    <3>3. Filtered' = top.rows
      BY <3>1, <3>2 DEF Filtered, Narrowed, Frames
    <3>4. \A m \in msgs' : Rowless(m)
      BY <1>1, <1>8, <2>2 DEF GoBack
    <3> QED
      BY <3>1, <3>2, <3>3, <3>4 DEF SelectionOK
  <2> QED
    BY <2>1, <2>2
<1>9. ASSUME NEW k \in Menu, KindsEnter(k) PROVE SelectionOK'
  BY <1>9, EmptyListSelection DEF KindsEnter, OpenList
<1>10. ASSUME NEW n \in Names, DrillDown(n) PROVE SelectionOK'
  <2> DEFINE f == [kind |-> cur, rows |-> rows, from |-> rowsFrom, cursor |-> cursor]
  <2>1. Filtered # {} /\ rows # {}
    BY <1>10 DEF DrillDown, Selected, RowAt, Filtered, Narrowed
  <2>2. cursor < Cardinality(rows)
    BY <2>1, FrameOK
  <2>3. stack' = Append(stack, f) /\ stack \in Seq(Frames)
    BY <1>10 DEF DrillDown, Typed, TypeOK
  <2>4. \A i \in DOMAIN stack' : (i \in DOMAIN stack /\ stack'[i] = stack[i]) \/ stack'[i] = f
    BY <2>3
  <2>5. \A i \in DOMAIN stack' : stack'[i].rows # {} => stack'[i].cursor < Cardinality(stack'[i].rows)
    BY <2>2, <2>4 DEF SelectionOK
  <2> QED
    BY <1>10, <2>5, EmptyListSelection DEF DrillDown, OpenList
<1>11. ASSUME NEW m \in msgs, ClientReady(m) \/ MutationDone(m) PROVE SelectionOK'
  <2>1. UNCHANGED <<rows, search, filter, cursor, stack>> /\ msgs' \subseteq msgs
    BY <1>11 DEF ClientReady, MutationDone, Rest, listVars
  <2> QED
    BY <2>1 DEF SelectionOK, Filtered
<1>12. ASSUME NEW m \in msgs, ListLoaded(m) PROVE SelectionOK'
  <2>1. m.names \in SUBSET Names /\ Rowless(m) /\ Rest(m) \in SUBSET msgs /\ m.cmd.op = "list"
    BY <1>12, RestTyped DEF SelectionOK, ListLoaded, Takes
  <2>2. \A x \in msgs' : Rowless(x)
    BY <1>1, <1>12, <2>1 DEF ListLoaded
  <2>3. stack' = stack /\ search' = search /\ filter' = filter
    BY <1>12 DEF ListLoaded
  <2>4. Filtered' # {} => cursor' < Cardinality(Filtered')
    <3>1. CASE Latest(m)
      <4>1. rows' = m.names /\ Filtered' = Narrowed(m.names, search, filter)
        BY <1>12, <2>3, <3>1 DEF ListLoaded, Filtered
      <4>2. Filtered' \in SUBSET Names
        BY <2>1, <4>1, NarrowedSubset
      <4>3. CASE m.ok
        <5>1. cursor' = Clamp(cursor, Filtered')
          BY <1>12, <3>1, <4>1, <4>3 DEF ListLoaded
        <5> QED
          BY <1>4, <4>2, <5>1
      <4>4. CASE ~m.ok
        BY <2>1, <4>1, <4>4 DEF Rowless, Narrowed
      <4> QED
        BY <4>3, <4>4
    <3>2. CASE ~Latest(m)
      BY <1>12, <2>3, <3>2 DEF ListLoaded, SelectionOK, Filtered
    <3> QED
      BY <3>1, <3>2
  <2> QED
    BY <2>2, <2>3, <2>4 DEF SelectionOK
<1>13. ASSUME NEW m \in msgs, SearchLoaded(m) PROVE SelectionOK'
  <2>1. msgs' \subseteq msgs /\ stack' = stack
    BY <1>13 DEF SearchLoaded, Rest
  <2>2. CASE UNCHANGED <<cur, rows, rowsFrom, cursor, filtering, filter, search>>
    BY <2>1, <2>2 DEF SelectionOK, Filtered
  <2>3. CASE ShowEmptyList(m.cmd.kind, m.names)
    BY <2>1, <2>3, EmptyListSelection DEF SelectionOK
  <2> QED
    BY <1>13, <2>2, <2>3 DEF SearchLoaded, SearchFailed, listVars
<1> QED
  BY <1>2, <1>3, <1>5, <1>6, <1>7, <1>8, <1>9, <1>10, <1>11, <1>12, <1>13, ListSteps

\* A list with rows on it has one of them selected, whatever the filters, the searches,
\* the reloads and the drill-downs before.
THEOREM SelectionHolds == Spec => []SelectionExists
<1>1. Init => Typed /\ IdsOK /\ SelectionOK
  <2>1. Init => Filtered = {} /\ stack = <<>> /\ msgs = {}
    BY DEF Init, Filtered, Narrowed
  <2> QED
    BY <2>1, InitTyped DEF Init, IdsOK, IdsFresh, LatestIsUnique, ResultReloads, StampedCmds,
       StampedMsgs, SelectionOK
<1>2. Typed /\ IdsOK /\ SelectionOK /\ [Next]_vars => Typed' /\ IdsOK' /\ SelectionOK'
  BY NextTyped, IdsInductive, SelectionInductive
<1>3. Typed /\ SelectionOK => SelectionExists
  <2>1. Typed => Filtered \in SUBSET Names /\ cursor \in Nat
    BY NarrowedSubset DEF Typed, TypeOK, Filtered
  <2> QED
    BY <2>1, RowAtExists DEF SelectionOK, SelectionExists, Selected
<1> QED
  BY <1>1, <1>2, <1>3, PTL DEF Spec

\* The inductive invariant of the rows: what is listed, and what every frame keeps, is of
\* the server and the kind it is shown under, and so is the list that is asked for.
RowsOK ==
    /\ rows # {} => rowsFrom = [client |-> client, kind |-> cur]
    /\ client = None => rows = {} /\ stack = <<>>
    /\ \A i \in DOMAIN stack :
          stack[i].rows # {} => stack[i].from = [client |-> client, kind |-> stack[i].kind]
    /\ \A c : Current(c) => loading /\ c.client = client /\ c.kind = cur

\* What the user has to do for that: wait for the list of a child before Esc leaves it, and
\* keep to one server. goBack and clientReadyMsg take no new request id and clear no rows.
Patient == ~(GoBack /\ loading /\ stack # <<>>) /\ (client # None => client' = client)

\* A new list request is the only one that is current.
LEMMA ListRequestCurrent ==
    ASSUME Typed, IdsOK, NEW k, Request("list", k, None), msgs' \subseteq msgs
    PROVE  \A c : Current(c)' => c.client = client /\ c.kind = k
<1> DEFINE new == Command("list", reqID + 1, k, None, None)
<1>1. cmds' = cmds \cup {new} /\ reqID' = reqID + 1
  BY DEF Request
<1>2. new.client = client /\ new.kind = k
  BY DEF Command
<1> HIDE DEF new
<1>3. ASSUME NEW c, Current(c)', c # new PROVE FALSE
  <2>1. c \in cmds \/ \E m \in msgs : m.cmd = c
    BY <1>1, <1>3 DEF Current
  <2>2. c.op \in StampedOps /\ c.id = reqID + 1
    BY <1>1, <1>3 DEF Current, StampedOps
  <2>3. c.id <= reqID
    BY <2>1, <2>2 DEF IdsOK, IdsFresh, StampedCmds, StampedMsgs
  <2> QED
    BY <2>2, <2>3 DEF Typed, TypeOK
<1> QED
  BY <1>2, <1>3

\* When the answer with the latest id is taken, no list request is current any more.
LEMMA LatestTaken ==
    ASSUME IdsOK, NEW m \in msgs, m.cmd.op \in StampedOps, Latest(m),
           cmds' = cmds, reqID' = reqID, \A x \in msgs' \ Rest(m) : x.cmd.op = "tick"
    PROVE  \A c : ~Current(c)'
<1> SUFFICES ASSUME NEW c, Current(c)' PROVE FALSE
  OBVIOUS
<1>1. c.op = "list" /\ c.id = m.cmd.id /\ "list" \in StampedOps /\ m \in StampedMsgs
  BY DEF Current, Latest, StampedOps, StampedMsgs
<1>2. CASE c \in cmds
  BY <1>1, <1>2 DEF IdsOK, LatestIsUnique, StampedCmds
<1>3. ASSUME NEW x \in msgs', x.cmd = c PROVE FALSE
  <2>1. x \in msgs /\ x # m
    BY <1>1, <1>3 DEF Rest
  <2>2. x \in StampedMsgs
    BY <1>1, <1>3, <2>1 DEF StampedMsgs
  <2> QED
    BY <1>1, <1>3, <2>1, <2>2 DEF IdsOK, LatestIsUnique
<1> QED
  BY <1>2, <1>3 DEF Current

\* openList and applySearch show no row yet, of the kind they ask for.
LEMMA EmptyListRows ==
    ASSUME Typed, IdsOK, NEW k, NEW hits, ShowEmptyList(k, hits), msgs' \subseteq msgs,
           client # None, client' = client,
           \A i \in DOMAIN stack' :
              stack'[i].rows # {} => stack'[i].from = [client |-> client, kind |-> stack'[i].kind]
    PROVE  RowsOK'
<1>1. \A c : Current(c)' => c.client = client /\ c.kind = k
  BY ListRequestCurrent DEF ShowEmptyList
<1>2. rows' = {} /\ loading' = TRUE /\ cur' = k
  BY DEF ShowEmptyList
<1> QED
  BY <1>1, <1>2 DEF RowsOK

\* Every step of such a user keeps the rows with their server and kind.
LEMMA RowsInductive ==
    ASSUME Typed, IdsOK, RowsOK, [Next]_vars, [Patient]_vars
    PROVE  RowsOK'
<1> USE DEF Press, OnList
<1>1. ASSUME NEW k, NEW sel, NEW c, NEW err, NEW out \in SUBSET msgs,
             ScheduleSummary(k, sel, c, err, out), cmds' = cmds, reqID' = reqID
      PROVE  \A x : Current(x)' => Current(x)
  <2>1. \A m \in msgs' \ msgs : m.cmd.op # "list"
    BY <1>1, ScheduleAdds
  <2> QED
    BY <1>1, <2>1, QuietRequests
<1>2. CASE Quiet
  BY <1>2 DEF Quiet, RowsOK
<1>3. CASE SearchEnter
  <2>1. reqID' = reqID + 1 /\ msgs' = msgs /\ cmds' = cmds \cup {Command("search", reqID + 1, searchKind, None, None)}
    BY <1>3 DEF SearchEnter, Request
  <2>2. Command("search", reqID + 1, searchKind, None, None).op # "list"
    BY DEF Command
  <2>3. \A c : Current(c)' => Current(c)
    BY <2>1, <2>2, QuietRequests
  <2> QED
    BY <1>3, <2>3 DEF SearchEnter, RowsOK
<1>4. ASSUME \/ ClearSearch
             \/ \E i \in 0..Cardinality(Names) : MoveCursor(i)
             \/ \E text \in Filters : FilterType(text)
             \/ \E keep \in BOOLEAN : FilterEnd(keep)
      PROVE  RowsOK'
  <2>1. \A c : Current(c)' => Current(c)
    BY <1>1, <1>4 DEF ClearSearch, MoveCursor, FilterType, FilterEnd
  <2>2. UNCHANGED <<client, cur, stack, rows, rowsFrom, loading>>
    BY <1>4 DEF ClearSearch, MoveCursor, FilterType, FilterEnd
  <2> QED
    BY <2>1, <2>2 DEF RowsOK
<1>5. CASE GoBack
  <2>1. CASE stack = <<>>
    BY <1>5, <2>1 DEF GoBack, RowsOK, Current, listVars
  <2>2. CASE stack # <<>>
    <3> DEFINE top == stack[Len(stack)]
    <3>1. /\ rows' = top.rows /\ rowsFrom' = top.from /\ cur' = top.kind
          /\ stack' = SubSeq(stack, 1, Len(stack) - 1) /\ client' = client
      BY <1>5, <2>2 DEF GoBack
    <3>2. /\ Len(stack) \in DOMAIN stack
          /\ DOMAIN stack' \subseteq DOMAIN stack /\ \A i \in DOMAIN stack' : stack'[i] = stack[i]
      BY <2>2, <3>1 DEF Typed, TypeOK
    <3>3. stack' # stack
      BY <2>2, <3>1 DEF Typed, TypeOK
    <3>4. ~loading
      BY <1>5, <2>2, <3>3 DEF Patient, vars
    <3>5. \A c : Current(c)' => Current(c)
      BY <1>1, <1>5, <2>2 DEF GoBack
    <3> QED
      BY <2>2, <3>1, <3>2, <3>4, <3>5 DEF RowsOK
  <2> QED
    BY <2>1, <2>2
<1>6. ASSUME NEW k \in Menu, KindsEnter(k) PROVE RowsOK'
  <2>1. client # None /\ DOMAIN stack' = {}
    BY <1>6 DEF KindsEnter, Typed, Wired
  <2> QED
    BY <1>6, <2>1, EmptyListRows DEF KindsEnter, OpenList
<1>7. ASSUME NEW n \in Names, DrillDown(n) PROVE RowsOK'
  <2> DEFINE f == [kind |-> cur, rows |-> rows, from |-> rowsFrom, cursor |-> cursor]
  <2>1. client # None
    BY <1>7 DEF DrillDown, Typed, Wired
  <2>2. stack' = Append(stack, f) /\ stack \in Seq(Frames)
    BY <1>7 DEF DrillDown, Typed, TypeOK
  <2>3. \A i \in DOMAIN stack' : (i \in DOMAIN stack /\ stack'[i] = stack[i]) \/ stack'[i] = f
    BY <2>2
  <2>4. \A i \in DOMAIN stack' :
           stack'[i].rows # {} => stack'[i].from = [client |-> client, kind |-> stack'[i].kind]
    BY <2>3 DEF RowsOK
  <2> QED
    BY <1>7, <2>1, <2>4, EmptyListRows DEF DrillDown, OpenList
<1>8. ASSUME NEW m \in msgs, ClientReady(m) PROVE RowsOK'
  <2>1. \A c : Current(c)' => Current(c)
    BY <1>8 DEF ClientReady, Rest, Current
  <2>2. UNCHANGED <<cur, stack, rows, rowsFrom, loading>>
    BY <1>8 DEF ClientReady, listVars
  <2>3. CASE client # None
    <3>1. client' = client
      BY <2>3 DEF Patient, vars
    <3> QED
      BY <2>1, <2>2, <3>1 DEF RowsOK
  <2>4. CASE client = None
    <3>1. \A c : ~Current(c)
      BY <2>4 DEF Typed, Wired, Current
    <3> QED
      BY <2>1, <2>2, <2>4, <3>1 DEF RowsOK
  <2> QED
    BY <2>3, <2>4
<1>9. ASSUME NEW m \in msgs, ListLoaded(m) PROVE RowsOK'
  <2>1. client # None /\ m.cmd.op = "list" /\ Rest(m) \in SUBSET msgs
    BY <1>9, RestTyped DEF ListLoaded, Takes
  <2>2. UNCHANGED <<client, cur, stack, cmds, reqID>>
    BY <1>9 DEF ListLoaded
  <2>3. \A x \in msgs' \ Rest(m) : x.cmd.op = "tick"
    BY <1>9, ScheduleAdds DEF ListLoaded
  <2>4. CASE Latest(m)
    <3>1. Current(m.cmd)
      BY <2>1, <2>4 DEF Current, Latest
    <3>2. \A c : ~Current(c)'
      BY <2>1, <2>2, <2>3, <2>4, LatestTaken DEF StampedOps
    <3>3. rowsFrom' = [client |-> m.cmd.client, kind |-> m.cmd.kind]
      BY <1>9, <2>4 DEF ListLoaded
    <3> QED
      BY <2>1, <2>2, <3>1, <3>2, <3>3 DEF RowsOK
  <2>5. CASE ~Latest(m)
    <3>1. \A c : Current(c)' => Current(c)
      BY <1>1, <1>9, <2>1, <2>2 DEF ListLoaded
    <3>2. UNCHANGED <<rows, rowsFrom, loading>>
      BY <1>9, <2>5 DEF ListLoaded
    <3> QED
      BY <2>2, <3>1, <3>2 DEF RowsOK
  <2> QED
    BY <2>4, <2>5
<1>10. ASSUME NEW m \in msgs, MutationDone(m) PROVE RowsOK'
  <2>1. UNCHANGED <<client, cur, stack, rows, rowsFrom>> /\ msgs' \subseteq msgs
    BY <1>10 DEF MutationDone, Rest
  <2>2. CASE m.ok
    <3>1. loading' = TRUE /\ \A c : Current(c)' => c.client = client /\ c.kind = cur
      BY <1>10, <2>1, <2>2, ListRequestCurrent DEF MutationDone
    <3> QED
      BY <2>1, <3>1 DEF RowsOK
  <2>3. CASE ~m.ok
    BY <1>10, <2>1, <2>3 DEF MutationDone, RowsOK, Current
  <2> QED
    BY <2>2, <2>3
<1>11. ASSUME NEW m \in msgs, SearchLoaded(m) PROVE RowsOK'
  <2>1. client # None /\ m.cmd.op = "search"
    BY <1>11, RestTyped DEF SearchLoaded, Takes
  <2>2. UNCHANGED <<client, stack>> /\ msgs' = Rest(m) /\ Rest(m) \subseteq msgs
    BY <1>11 DEF SearchLoaded, Rest
  <2>3. CASE UNCHANGED <<screen, listVars, paneVars, reqID, cmds>>
    BY <2>2, <2>3 DEF RowsOK, Current, listVars
  <2>4. CASE Latest(m) /\ SearchFailed
    <3>1. \A c : ~Current(c)'
      BY <2>1, <2>2, <2>4, LatestTaken DEF SearchFailed, StampedOps
    <3> QED
      BY <2>1, <2>2, <2>4, <3>1 DEF RowsOK, SearchFailed
  <2>5. CASE ShowEmptyList(m.cmd.kind, m.names)
    BY <2>1, <2>2, <2>5, EmptyListRows DEF RowsOK
  <2> QED
    BY <1>11, <2>3, <2>4, <2>5 DEF SearchLoaded
<1> QED
  BY <1>2, <1>3, <1>4, <1>5, <1>6, <1>7, <1>8, <1>9, <1>10, <1>11, ListSteps

\* What is listed is of the server and the kind that edit, delete and download act on, as
\* long as Esc waits for the list of a child to load and the server stays the one chosen
\* first; both are needed, because goBack and a new client leave the request id alone.
THEOREM RowsHold == Spec /\ [][Patient]_vars => []RowsBelongToCur
<1>1. Init => Typed /\ IdsOK /\ RowsOK
  BY InitTyped DEF Init, IdsOK, IdsFresh, LatestIsUnique, ResultReloads, StampedCmds,
     StampedMsgs, RowsOK, Current
<1>2. Typed /\ IdsOK /\ RowsOK /\ [Next]_vars /\ [Patient]_vars => Typed' /\ IdsOK' /\ RowsOK'
  BY NextTyped, IdsInductive, RowsInductive
<1>3. RowsOK => RowsBelongToCur
  BY DEF RowsOK, RowsBelongToCur
<1> QED
  BY <1>1, <1>2, <1>3, PTL DEF Spec

\* Without children there is nothing to go back to.
LEMMA FlatInductive ==
    ASSUME Typed, IdsOK, \A k \in Kinds : "drill" \notin Caps[k],
           client # None, stack = <<>>, [Next]_vars
    PROVE  client' # None /\ stack' = <<>>
<1> USE DEF Press, OnList
<1>1. CASE Quiet
  BY <1>1 DEF Quiet
<1>2. CASE SearchEnter \/ ClearSearch \/ GoBack
  BY <1>2 DEF SearchEnter, ClearSearch, GoBack
<1>3. CASE \/ \E k \in Menu : KindsEnter(k)
           \/ \E i \in 0..Cardinality(Names) : MoveCursor(i)
           \/ \E text \in Filters : FilterType(text)
           \/ \E keep \in BOOLEAN : FilterEnd(keep)
  BY <1>3 DEF KindsEnter, MoveCursor, FilterType, FilterEnd
<1>4. CASE \E n \in Names : DrillDown(n)
  BY <1>4 DEF DrillDown, Can
<1>5. CASE \E m \in msgs : ListLoaded(m) \/ MutationDone(m) \/ SearchLoaded(m)
  BY <1>5 DEF ListLoaded, MutationDone, SearchLoaded
<1>6. ASSUME NEW m \in msgs, ClientReady(m) PROVE client' # None /\ stack' = <<>>
  BY <1>6, RestTyped, NoneAssumption DEF ClientReady
<1> QED
  BY <1>1, <1>2, <1>3, <1>4, <1>5, <1>6, ListSteps

\* With one server, and no kind that has children, nobody has to wait.
THEOREM FlatRowsHold ==
    ASSUME \E p : Profiles = {p}, \A k \in Kinds : "drill" \notin Caps[k]
    PROVE  Spec => []RowsBelongToCur
<1> DEFINE Flat == client # None /\ stack = <<>>
<1>1. Init => Typed /\ IdsOK /\ RowsOK /\ Flat
  <2>1. Cardinality(Profiles) = 1
    BY FS_Singleton
  <2>2. Init => client # None /\ stack = <<>>
    BY <2>1, NoneAssumption DEF Init
  <2> QED
    BY <2>2, InitTyped DEF Init, IdsOK, IdsFresh, LatestIsUnique, ResultReloads, StampedCmds,
       StampedMsgs, RowsOK, Current
<1>2. Typed /\ IdsOK /\ Flat /\ [Next]_vars => Typed' /\ IdsOK' /\ Flat'
  BY NextTyped, IdsInductive, FlatInductive
<1>3. Typed /\ Typed' /\ Flat /\ Flat' => [Patient]_vars
  BY DEF Patient, Typed, TypeOK, MaybeClient
<1>4. Typed /\ IdsOK /\ RowsOK /\ [Next]_vars /\ [Patient]_vars => RowsOK'
  BY RowsInductive
<1>5. RowsOK => RowsBelongToCur
  BY DEF RowsOK, RowsBelongToCur
<1> HIDE DEF Flat
<1> QED
  BY <1>1, <1>2, <1>3, <1>4, <1>5, PTL DEF Spec

-----------------------------------------------------------------------------
(* The breadcrumb                                                          *)

\* The path, frame by frame.
PathOK ==
    \A i \in 1..Len(stack) :
        (IF i = Len(stack) THEN cur ELSE stack[i + 1].kind) \in Children(stack[i].kind)

\* What crumb prints is the kinds of the frames and the kind listed.
LEMMA PathIsStack == ASSUME stack \in Seq(Frames) PROVE PathOK <=> StackIsPath
<1> DEFINE kinds == [i \in DOMAIN stack |-> stack[i].kind]
           path == Append(kinds, cur)
<1>1. Len(stack) \in Nat /\ DOMAIN stack = 1..Len(stack)
  OBVIOUS
<1>2. kinds \in Seq(Kinds) /\ Len(kinds) = Len(stack)
  <2>1. \A i \in 1..Len(stack) : stack[i].kind \in Kinds
    <3>1. \A i \in 1..Len(stack) : stack[i] \in Frames
      OBVIOUS
    <3> QED
      BY <3>1 DEF Frames
  <2>2. kinds \in [1..Len(stack) -> Kinds]
    BY <2>1
  <2> QED
    BY <1>1, <2>2
<1>3. \A i \in 1..Len(stack) : path[i] = stack[i].kind
  BY <1>1, <1>2
<1>4. path[Len(stack) + 1] = cur
  BY <1>1, <1>2
<1>5. \A i \in 1..Len(stack) :
         path[i + 1] = IF i = Len(stack) THEN cur ELSE stack[i + 1].kind
  <2> HIDE DEF path
  <2>1. TAKE i \in 1..Len(stack)
  <2>2. CASE i = Len(stack)
    BY <1>4, <2>2
  <2>3. CASE i # Len(stack)
    <3>1. ASSUME NEW n \in Nat, NEW j \in 1..n, j # n PROVE j + 1 \in 1..n
      BY <3>1
    <3>2. i + 1 \in 1..Len(stack)
      BY <1>1, <2>3, <3>1
    <3> QED
      BY <1>3, <2>3, <3>2
  <2> QED
    BY <2>2, <2>3
<1> HIDE DEF path
<1>6. StackIsPath <=> \A i \in DOMAIN stack : path[i + 1] \in Children(path[i])
  BY DEF StackIsPath, path
<1> QED
  BY <1>1, <1>3, <1>5, <1>6 DEF PathOK

\* No search lists another kind over the frames of a drill-down: applySearch changes the
\* kind and leaves the frames of the list the search was not started from.
NotOverFrames == (\E m \in msgs : SearchLoaded(m)) /\ stack # <<>> => cur' = cur

\* Every step of such a user leaves a path.
LEMMA PathInductive ==
    ASSUME Typed, IdsOK, PathOK, [Next]_vars, [NotOverFrames]_vars
    PROVE  PathOK'
<1> USE DEF Press, OnList
<1>0. stack \in Seq(Frames)
  BY DEF Typed, TypeOK
<1>1. CASE UNCHANGED <<stack, cur>>
  BY <1>1 DEF PathOK
<1>2. CASE Quiet \/ SearchEnter \/ ClearSearch
  BY <1>1, <1>2 DEF Quiet, SearchEnter, ClearSearch
<1>3. CASE \/ \E i \in 0..Cardinality(Names) : MoveCursor(i)
           \/ \E text \in Filters : FilterType(text)
           \/ \E keep \in BOOLEAN : FilterEnd(keep)
  BY <1>1, <1>3 DEF MoveCursor, FilterType, FilterEnd
<1>4. CASE GoBack
  <2>1. CASE stack = <<>>
    BY <1>1, <1>4, <2>1 DEF GoBack, listVars
  <2>2. CASE stack # <<>>
    <3> DEFINE n == Len(stack)
    <3>1. n \in Nat /\ n # 0 /\ cur' = stack[n].kind /\ stack' = SubSeq(stack, 1, n - 1)
      BY <1>0, <1>4, <2>2 DEF GoBack
    <3>2. Len(stack') = n - 1 /\ \A i \in 1..(n - 1) : stack'[i] = stack[i]
      <4>1. n - 1 \in 0..n
        BY <3>1
      <4>2. ASSUME NEW k \in 0..n
            PROVE  Len(SubSeq(stack, 1, k)) = k /\ \A i \in 1..k : SubSeq(stack, 1, k)[i] = stack[i]
        BY <1>0
      <4> HIDE DEF n
      <4> QED
        BY <3>1, <4>1, <4>2
    <3>3. ASSUME NEW i \in 1..(n - 1)
          PROVE  (IF i = n - 1 THEN cur' ELSE stack'[i + 1].kind) \in Children(stack'[i].kind)
      <4>1. stack[i + 1].kind \in Children(stack[i].kind) /\ stack'[i] = stack[i]
        BY <3>1, <3>2 DEF PathOK
      <4>2. i # n - 1 => stack'[i + 1] = stack[i + 1]
        BY <3>1, <3>2
      <4> QED
        BY <3>1, <4>1, <4>2
    <3> QED
      BY <3>2, <3>3 DEF PathOK, Children
  <2> QED
    BY <2>1, <2>2
<1>5. CASE \E k \in Menu : KindsEnter(k)
  <2>1. stack' = <<>>
    BY <1>5 DEF KindsEnter
  <2> QED
    BY <2>1 DEF PathOK
<1>6. ASSUME NEW x \in Names, DrillDown(x) PROVE PathOK'
  <2> DEFINE f == [kind |-> cur, rows |-> rows, from |-> rowsFrom, cursor |-> cursor]
             n == Len(stack)
  <2>1. stack' = Append(stack, f) /\ cur' = Child[cur][x] /\ f.kind = cur
    BY <1>6 DEF DrillDown, OpenList, ShowEmptyList
  <2> HIDE DEF f
  <2>2. /\ n \in Nat /\ Len(stack') = n + 1
        /\ stack'[n + 1] = f /\ \A i \in 1..n : stack'[i] = stack[i]
    BY <1>0, <2>1
  <2>3. ASSUME NEW i \in 1..(n + 1)
        PROVE  (IF i = n + 1 THEN cur' ELSE stack'[i + 1].kind) \in Children(stack'[i].kind)
    <3>1. CASE i = n + 1
      BY <2>1, <2>2, <3>1 DEF Children
    <3>2. CASE i = n
      BY <2>1, <2>2, <3>2 DEF PathOK
    <3>3. CASE i \in 1..(n - 1)
      BY <2>2, <3>3 DEF PathOK
    <3> QED
      BY <2>2, <3>1, <3>2, <3>3
  <2> QED
    BY <2>2, <2>3 DEF PathOK, Children
<1>7. CASE \E m \in msgs : ClientReady(m) \/ ListLoaded(m) \/ MutationDone(m)
  BY <1>1, <1>7 DEF ClientReady, ListLoaded, MutationDone, listVars
<1>8. ASSUME NEW m \in msgs, SearchLoaded(m) PROVE PathOK'
  <2>1. stack' = stack
    BY <1>8 DEF SearchLoaded
  <2>2. CASE stack = <<>>
    BY <2>1, <2>2 DEF PathOK
  <2>3. CASE stack # <<>>
    BY <1>1, <1>8, <2>1, <2>3 DEF NotOverFrames, vars, listVars
  <2> QED
    BY <2>2, <2>3
<1> QED
  BY <1>2, <1>3, <1>4, <1>5, <1>6, <1>7, <1>8, ListSteps

\* The breadcrumb is a path of children, as long as no search started at the menu lists
\* another kind over the frames left behind: applySearch keeps them.
THEOREM PathHolds == Spec /\ [][NotOverFrames]_vars => []StackIsPath
<1>1. Init => Typed /\ IdsOK /\ PathOK
  <2>1. Init => stack = <<>>
    BY DEF Init
  <2>2. stack = <<>> => PathOK
    BY DEF PathOK
  <2> QED
    BY <2>1, <2>2, InitTyped DEF Init, IdsOK, IdsFresh, LatestIsUnique, ResultReloads, StampedCmds,
       StampedMsgs
<1>2. Typed /\ IdsOK /\ PathOK /\ [Next]_vars /\ [NotOverFrames]_vars => Typed' /\ IdsOK' /\ PathOK'
  BY NextTyped, IdsInductive, PathInductive
<1>3. Typed /\ PathOK => StackIsPath
  BY PathIsStack DEF Typed, TypeOK
<1> QED
  BY <1>1, <1>2, <1>3, PTL DEF Spec
=============================================================================
