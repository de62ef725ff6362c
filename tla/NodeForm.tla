------------------------------ MODULE NodeForm ------------------------------
(***************************************************************************)
(* The node form (cli/nodeedit: model.go, convert.go) with the JSON editor *)
(* it embeds for the attributes, beside the same editor run by a command    *)
(* or by the explorer.                                                     *)
(*                                                                         *)
(* The form owns Ctrl-D, Ctrl-C and, but for an open edit of the editor,    *)
(* Esc; it hands the other keys to the field in focus.  The text fields are *)
(* alike and one of them stands for all: the name, without which nothing is *)
(* saved, when creating, and the environment when editing.                 *)
(***************************************************************************)
EXTENDS JsonEditor

CONSTANTS FormSeed,    \* the attribute bags of the node to edit
          BlankSeed,   \* three empty bags
          RunLists,    \* run lists, of the node and as the user types them
          MaxTouches   \* bound on what the user changes in one form

Bags == {"normal", "default", "override"}

VARIABLES
    creating, focus, dived,  \* what the form is for, and where the keyboard is
    text,                    \* the value of the text field
    lines,                   \* the text of the run list
    formOutcome, changed,
    orig,                    \* the node opened: its run list and attribute bags
    touches                  \* history: how often the user has typed, added or deleted something

formVars == <<creating, focus, dived, text, lines, formOutcome, changed, orig, touches>>
vars == <<host, ed, formVars>>

NoName == ""
FocusText == 1
FocusRunList == 2
FocusAttrs == 3
-----------------------------------------------------------------------------
(* Conversions                                                             *)

\* A run list as text: one bulleted line per entry, nothing for an empty one.  A
\* bullet without an entry is no entry.
Bullet == "-"
RunListText(entries) == entries
ParseRunListAll(ls) == ls                                                 \* mutant
ParseRunList(ls) ==
    LET entries == {i \in DOMAIN ls : ls[i] # Bullet}
    IN  [n \in 1..Cardinality(entries) |->
            ls[CHOOSE i \in entries : Cardinality({j \in entries : j <= i}) = n]]

\* buildNode takes three bags, each an object or null, and rejects other keys.
Decodable(t) ==
    /\ t # NoTree
    /\ \/ t[<<>>].kind = "null"
       \/ /\ t[<<>>].kind = "object"
          /\ \A q \in Kids(t, <<>>) : t[q].key \in Bags /\ t[q].kind \in {"object", "null"}

\* Two members for one bag are merged; a null drops what came before it.
Attributes(t, bag) ==
    LET members == {q \in Kids(t, <<>>) : t[q].key = bag}
        counted == {q \in members : \A r \in members : t[r].kind = "null" => Last(r) < Last(q)}
        attrs == UNION {Kids(t, q) : q \in counted}
        lastOf(k) == CHOOSE q \in attrs : t[q].key = k /\ \A r \in attrs : t[r].key = k => q = r \/ Precedes(r, q)
    IN  [k \in {t[q].key : q \in attrs} |-> Meaning(t)[lastOf(k)]]

\* A node has three bags, each an object, and no entry of its run list is a bare bullet.
ASSUME FormAssumption ==
    /\ IsTree(FormSeed) /\ Decodable(FormSeed) /\ IsTree(BlankSeed)
    /\ \A entries \in RunLists : entries \in Seq({entries[i] : i \in DOMAIN entries} \ {Bullet})
    /\ MaxTouches \in Nat

NodeUnchanged(t) ==
    /\ text = "old" /\ ParseRunList(lines) = orig.runList
    /\ \A bag \in Bags : Attributes(t, bag) = Attributes(orig.bags, bag)
-----------------------------------------------------------------------------
FormInit ==
    /\ touches = 0 /\ dived = FALSE /\ text = IF creating THEN NoName ELSE "old"
    /\ formOutcome = "open" /\ changed = FALSE
    /\ focus = FocusText
    /\ lines = RunListText(orig.runList)

\* The host opens the editor: a command or the explorer on a document, the form on
\* the bags of a node; NewCreate has nothing to show.
Init ==
    /\ host \in Hosts /\ creating \in BOOLEAN
    /\ IF host = "form"
       THEN /\ orig \in [bags : {IF creating THEN BlankSeed ELSE FormSeed},
                         runList : IF creating THEN {<<>>} ELSE RunLists]
            /\ ed = Opened(Text(TRUE, orig.bags))
       ELSE /\ ~creating /\ orig = [bags |-> BlankSeed, runList |-> <<>>]
            /\ \E seed \in Seeds : ed = Opened(seed)
    /\ FormInit

Form == host = "form" /\ formOutcome = "open"
Touch == touches < MaxTouches /\ touches' = touches + 1

\* setFocus: one field up or down, out of the section.
FocusOn(f) ==
    /\ focus' = (IF f < FocusText THEN FocusText ELSE IF f > FocusAttrs THEN FocusAttrs ELSE f)
    /\ dived' = FALSE
Move(d) ==
    /\ Form /\ ~dived
    /\ FocusOn(focus + d)
    /\ UNCHANGED <<host, ed, creating, text, lines, formOutcome, changed, orig, touches>>

TypeText ==
    /\ Form /\ focus = FocusText
    /\ text' \in {IF creating THEN NoName ELSE "old", "new"}
    /\ Touch
    /\ UNCHANGED <<host, ed, creating, focus, dived, lines, formOutcome, changed, orig>>

\* Enter: an empty run list gets its first bullet.
Dive ==
    /\ Form /\ ~dived /\ focus \in {FocusRunList, FocusAttrs}
    /\ dived' = TRUE
    /\ lines' = IF focus = FocusRunList /\ lines = <<>> THEN <<Bullet>> ELSE lines
    /\ UNCHANGED <<host, ed, creating, focus, text, formOutcome, changed, orig, touches>>
TypeRunList ==
    /\ Form /\ dived /\ focus = FocusRunList
    /\ lines' \in RunLists \cup {<<Bullet>>}
    /\ Touch
    /\ UNCHANGED <<host, ed, creating, focus, dived, text, formOutcome, changed, orig>>

\* Esc: leaves the section, unless the editor has an edit to cancel.
Undive ==
    /\ Form /\ dived
    /\ ~(focus = FocusAttrs /\ Editing)
    /\ dived' = FALSE
    /\ UNCHANGED <<host, ed, creating, focus, text, lines, formOutcome, changed, orig, touches>>

\* The other keys go to the attributes editor.
Forward ==
    /\ Form /\ dived /\ focus = FocusAttrs
    /\ Steps
    /\ IF ed'.root # ed.root \/ (ed'.buffer # ed.buffer /\ Editing' = Editing /\ ed'.mode = ed.mode)
       THEN Touch ELSE UNCHANGED touches
    /\ UNCHANGED <<host, creating, focus, dived, text, lines, formOutcome, changed, orig>>

\* Ctrl-D, from anywhere in the form.
SaveNameless == creating /\ text = NoName
Save ==
    /\ Form /\ ~SaveNameless /\ Decodable(Value)
    /\ changed' = (creating \/ ~NodeUnchanged(Value))
    /\ formOutcome' = "saved"
    /\ UNCHANGED <<host, ed, creating, focus, dived, text, lines, orig, touches>>
SaveRefused ==
    /\ Form /\ (SaveNameless \/ ~Decodable(Value))
    /\ FocusOn(IF SaveNameless THEN FocusText ELSE FocusAttrs)
    /\ UNCHANGED <<host, ed, creating, text, lines, formOutcome, changed, orig, touches>>

\* Ctrl-C from anywhere, Esc on a field.
Cancel ==
    /\ Form
    /\ formOutcome' = "aborted"
    /\ UNCHANGED <<host, ed, creating, focus, dived, text, lines, changed, orig, touches>>

FormNext ==
    \/ \E d \in {-1, 1} : Move(d)
    \/ TypeText \/ Dive \/ TypeRunList \/ Undive \/ Forward
    \/ Save \/ SaveRefused \/ Cancel

\* jsoneditor.Run and the explorer hand every key to the editor.
Alone == host # "form" /\ EditorNext /\ UNCHANGED <<host, formVars>>

Next == FormNext \/ Alone
Spec == Init /\ [][Next]_vars
-----------------------------------------------------------------------------
(* Properties                                                              *)

TypeOK ==
    /\ EditorTypeOK
    /\ creating \in BOOLEAN /\ dived \in BOOLEAN /\ changed \in BOOLEAN /\ touches \in 0..MaxTouches
    /\ focus \in FocusText..FocusAttrs
    /\ formOutcome \in {"open", "saved", "aborted"}

\* Inside the form the editor neither finishes nor shows a preview, which the form
\* could not leave again: Esc there does not count as an open edit (forward, Editing).
EmbeddedNeverFinishes == host = "form" => ed.outcome = "open" /\ ed.state # "preview"

\* A node that was looked at, whatever sections were opened, edits cancelled and
\* texts applied as they were, is saved and reported unchanged (nodeUnchanged,
\* runListText, parseRunList, attributesSeed).
LookingIsNotEditing ==
    host = "form" /\ ~creating /\ touches = 0 =>
        /\ formOutcome = "saved" => ~changed
        /\ Decodable(Value)

\* Whoever runs the editor, every key finds a well-formed document, the cursor on one of
\* its units and, inside the form, an editor that is still open (jsoneditor, nodeedit).
EditorIsSound == TypeOK /\ CursorOnUnit /\ EmbeddedNeverFinishes
=============================================================================
