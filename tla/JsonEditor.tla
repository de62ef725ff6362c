----------------------------- MODULE JsonEditor -----------------------------
(***************************************************************************)
(* The JSON editor (cli/jsoneditor: model.go, jsoneditor.go): a cursor over *)
(* the keys, scalars and blocks of a document, with inline and block edits, *)
(* a raw text mode and a preview.                                          *)
(*                                                                         *)
(* `cinc ... edit` runs it as a program, `cinc explore` and the node form   *)
(* embed it.  The Go Model is a value: it is the record `ed` here, and an   *)
(* action is one key.  What the user types into a text is part of the key   *)
(* that uses it, except in the textarea, whose text others may read.        *)
(***************************************************************************)
EXTENDS JsonTree

CONSTANTS
    Seeds,      \* texts the editor is opened with
    Typed,      \* texts the user types, for each host
    TypedKeys,  \* keys the user types
    Fields,     \* the keys that strictJSON knows
    MaxNodes    \* bound on the nodes of the document, for each host

VARIABLES host,  \* who runs the editor: "command", "explorer" or "form"
          ed     \* the Model

\* A text: whether parseTree takes it, and the first value a decoder reads from it.
NoTree == [p \in {} |-> p]
Text(ok, t) == [ok |-> ok, tree |-> t]

NoText == Text(FALSE, NoTree)
IsText(x) ==
    /\ x = Text(x.ok, x.tree) /\ x.ok \in BOOLEAN
    /\ x.tree = NoTree \/ IsTree(x.tree)
    /\ x.ok => x.tree # NoTree

\* What a document is opened with and what is typed are texts, and a typed key is one.
Hosts == {"command", "explorer", "form"}
ASSUME EditorAssumption ==
    /\ \A x \in Seeds : IsText(x)
    /\ \A h \in Hosts : \A x \in Typed[h] : IsText(x)
    /\ NoKey \notin TypedKeys

NoUnit == Unit(<<>>, "key")

\* New: a text that does not parse opens in raw mode.
Opened(text) ==
    [mode |-> IF text.ok THEN "structural" ELSE "raw", state |-> "navigating",
     root |-> IF text.ok THEN text.tree ELSE NoTree,
     units |-> IF text.ok THEN CollectUnits(text.tree) ELSE {},
     cursor |-> 0, editing |-> NoUnit,
     buffer |-> IF text.ok THEN NoText ELSE text,
     pending |-> NoTree, committed |-> NoTree, outcome |-> "open"]

\* The save check: strictJSON for a command, nothing for those who embed the editor.
Known(t) ==
    \/ t[<<>>].kind = "null"
    \/ t[<<>>].kind = "object" /\ \A q \in Kids(t, <<>>) : t[q].key \in Fields
Validates(t) == host = "command" => Known(t)

Fits(t) == Cardinality(DOMAIN t) <= MaxNodes[host]
\* The edit and its text are looked at no more.
Closed(m) == [m EXCEPT !.state = "navigating", !.editing = NoUnit, !.buffer = NoText]
Clamped(c, units) == IF c < Cardinality(units) THEN c ELSE Cardinality(units) - 1
Selected ==
    IF ed.cursor < Cardinality(ed.units)
    THEN CHOOSE u \in ed.units : Position(ed.units, u) = ed.cursor
    ELSE NoUnit

RebuiltStale(t, c) == [ed EXCEPT !.root = t, !.cursor = c]                \* mutant
Rebuilt(t, c) == [ed EXCEPT !.root = t, !.units = CollectUnits(t), !.cursor = c]
-----------------------------------------------------------------------------
(* Structural mode                                                         *)

Open == ed.outcome = "open"
Structural == Open /\ ed.mode = "structural" /\ ed.state = "navigating"

Up == Structural /\ ed.cursor > 0 /\ ed' = [ed EXCEPT !.cursor = @ - 1]
Down ==
    /\ Structural /\ ed.cursor < Cardinality(ed.units) - 1
    /\ ed' = [ed EXCEPT !.cursor = @ + 1]

\* Enter: a key or a scalar is edited inline, an object as a text.
EditUnit ==
    /\ Structural
    /\ LET u == Selected
           inline == u.typ # "block"
       IN  /\ inline \/ ed.root[u.path].kind = "object"
           /\ ed' = [ed EXCEPT !.editing = u, !.state = IF inline THEN "inline" ELSE "block",
                               !.buffer = IF inline THEN @ ELSE Text(TRUE, SubtreeAt(ed.root, u.path))]

\* Enter on an array goes to its first entry; an empty one gets one.
EnterArray ==
    /\ Structural
    /\ LET u == Selected
           first == Append(u.path, 1)
           t == IF Kids(ed.root, u.path) = {} THEN InsertLeaf(ed.root, first, NullNode(NoKey)) ELSE ed.root
       IN  /\ u.typ = "block" /\ ed.root[u.path].kind = "array" /\ Fits(t)
           /\ ed' = Rebuilt(t, Position(CollectUnits(t), ValueUnit(t, first)))

\* addNode: a last child of a block, a sibling after anything else.
AddKeepsCursor ==                                                         \* mutant
    /\ Structural
    /\ LET u == Selected
           at == IF u.typ = "block" THEN EndOf(ed.root, u.path) ELSE NextSibling(u.path)
           inObject == ed.root[Front(at)].kind = "object"
           t == InsertLeaf(ed.root, at, NullNode(IF inObject THEN "newKey" ELSE NoKey))
       IN  /\ u.typ = "block" \/ u.path # <<>>
           /\ Fits(t)
           /\ ed' = Rebuilt(t, ed.cursor)
Add ==
    /\ Structural
    /\ LET u == Selected
           at == IF u.typ = "block" THEN EndOf(ed.root, u.path) ELSE NextSibling(u.path)
           inObject == ed.root[Front(at)].kind = "object"
           t == InsertLeaf(ed.root, at, NullNode(IF inObject THEN "newKey" ELSE NoKey))
       IN  /\ u.typ = "block" \/ u.path # <<>>
           /\ Fits(t)
           /\ ed' = Rebuilt(t, Position(CollectUnits(t), Unit(at, IF inObject THEN "key" ELSE "scalar")))

Delete ==
    /\ Structural /\ Selected.path # <<>>
    /\ LET t == DeleteAt(ed.root, Selected.path)
       IN  ed' = Rebuilt(t, Clamped(ed.cursor, CollectUnits(t)))

SaveStructural ==
    /\ Structural /\ Validates(ed.root)
    /\ ed' = [ed EXCEPT !.committed = ed.root, !.outcome = "committed"]
-----------------------------------------------------------------------------
(* Inline and block edits.  A text that does not parse is kept, with the    *)
(* message.                                                                *)

Inline == Open /\ ed.state = "inline"
InlineApply ==
    /\ Inline
    /\ LET p == ed.editing.path IN
       \/ /\ ed.editing.typ = "key"
          /\ \E key \in TypedKeys : ed' = Closed(Rebuilt(SetKeyAt(ed.root, p, key), ed.cursor))
       \/ /\ ed.editing.typ = "scalar"
          /\ \E text \in Typed[host] \cup {Text(TRUE, SubtreeAt(ed.root, p))} :
                LET t == ReplaceValueAt(ed.root, p, text.tree) IN
                /\ text.ok /\ Fits(t)
                /\ ed' = Closed(Rebuilt(t, ed.cursor))

Block == Open /\ ed.state = "block"
BlockApply ==
    /\ Block /\ ed.buffer.ok
    /\ LET t == ReplaceValueAt(ed.root, ed.editing.path, ed.buffer.tree)
       IN  Fits(t) /\ ed' = Closed(Rebuilt(t, ed.cursor))

Editing == ed.state \in {"inline", "block"}
EditEsc == Open /\ Editing /\ ed' = Closed(ed)
-----------------------------------------------------------------------------
(* Raw mode and preview                                                    *)

Raw == Open /\ ed.mode = "raw" /\ ed.state = "navigating"
ToRaw ==
    /\ Structural
    /\ ed' = [ed EXCEPT !.mode = "raw", !.buffer = Text(TRUE, ed.root)]

\* Typing into the textarea.
Type == (Raw \/ Block) /\ \E text \in Typed[host] : ed' = [ed EXCEPT !.buffer = text]

RawTab ==
    /\ Raw /\ ed.buffer.ok /\ Fits(ed.buffer.tree)
    /\ LET t == ed.buffer.tree
       IN  ed' = [Closed(Rebuilt(t, Clamped(ed.cursor, CollectUnits(t)))) EXCEPT !.mode = "structural"]

RawSaveUnchecked ==                                                       \* mutant
    /\ Raw /\ ed.buffer.ok
    /\ ed' = [ed EXCEPT !.pending = ed.buffer.tree, !.state = "preview"]
RawSave ==
    /\ Raw /\ ed.buffer.ok /\ Validates(ed.buffer.tree)
    /\ ed' = [ed EXCEPT !.pending = ed.buffer.tree, !.state = "preview"]

Preview == Open /\ ed.state = "preview"
PreviewYes == Preview /\ ed' = [ed EXCEPT !.committed = ed.pending, !.outcome = "committed"]
PreviewEsc == Preview /\ ed' = [ed EXCEPT !.pending = NoTree, !.state = "navigating"]

\* Ctrl-C anywhere; Esc where there is nothing to cancel.
Abort == Open /\ ed' = [ed EXCEPT !.outcome = "aborted"]
-----------------------------------------------------------------------------
\* Value: the document as it would be read now.
Value == IF ed.mode = "raw" THEN ed.buffer.tree ELSE ed.root

Steps == Up \/ Down \/ EditUnit \/ EnterArray \/ Add \/ Delete \/ InlineApply \/ EditEsc
         \/ ToRaw \/ Type \/ RawTab
CtrlD == SaveStructural \/ BlockApply \/ RawSave
EditorNext == Steps \/ CtrlD \/ PreviewYes \/ PreviewEsc \/ Abort
-----------------------------------------------------------------------------
(* Properties                                                              *)

EditorTypeOK ==
    /\ host \in Hosts
    /\ ed.mode \in {"structural", "raw"}
    /\ ed.state \in {"navigating", "inline", "block", "preview"}
    /\ ed.root = NoTree \/ IsTree(ed.root)
    /\ ed.buffer.tree = NoTree \/ IsTree(ed.buffer.tree)
    /\ ed.cursor \in Nat /\ ed.outcome \in {"open", "committed", "aborted"}

\* In structural mode there is a document, the units are those of the document as
\* it is now, the cursor is on one of them, and an open edit is of the unit under
\* the cursor: no key acts on a path that the last mutation has moved or removed
\* (rebuild, selected, editPath, blockPath).
CursorOnUnit ==
    ed.mode = "structural" =>
        /\ ed.root # NoTree /\ ed.units = CollectUnits(ed.root)
        /\ ed.cursor < Cardinality(ed.units)
        /\ Editing => ed.editing = Selected

\* What the user confirms is the document on the screen, and it passed the check
\* of whoever opened the editor (saveStructural, save, updatePreview).
CommittedIsShown ==
    ed.outcome = "committed" => ed.committed = Value /\ Validates(ed.committed)

\* A node added, by the key or by opening an empty array, is the one selected next,
\* and taking it away again gives the document there was (addNode, enterArray).
AddSelectsNew ==
    [][Cardinality(DOMAIN ed'.root) = Cardinality(DOMAIN ed.root) + 1 /\ (Add \/ EnterArray)
       => LET u == CHOOSE u \in ed'.units : Position(ed'.units, u) = ed'.cursor
          IN  u.path \in DOMAIN ed'.root \ {<<>>} /\ DeleteAt(ed'.root, u.path) = ed.root]_<<host, ed>>
=============================================================================
