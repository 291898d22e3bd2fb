------------------------------ MODULE TuiText ------------------------------
(***************************************************************************)
(* The one-line text fields of the terminal client: the same functions     *)
(* are written out four times in app.rs, for the new directory, the key    *)
(* of a stored file, the rename and the mkdir dialogs.  A field is a text  *)
(* and a cursor that counts BYTES: String::insert, drain and slicing panic *)
(* when it is past the end or inside a character.  A character stands for  *)
(* a whole path segment, so that a text is also the path it spells.        *)
(***************************************************************************)
EXTENDS Naturals, Sequences, FiniteSetsExt, SequencesExt, Selection

CONSTANTS Names,   \* path segments, numbered from 1 in the order of their lowercased text
          Width    \* bytes each takes in UTF-8

ASSUME NamesAssumption == Names \subseteq Nat \ {0}
ASSUME WidthAssumption == Width \in [Names -> Nat \ {0}]

BytesTo(t, n) == MapThenSumSet(LAMBDA i : Width[t[i]], 1..n)

Bytes(t) == BytesTo(t, Len(t))

EmptyField == [text |-> << >>, cursor |-> 0]

FieldOf(path) == [text |-> path, cursor |-> Bytes(path)]

OnBoundary(f) == \E n \in 0..Len(f.text) : f.cursor = BytesTo(f.text, n)

\* Characters before the cursor: where the slices are cut.
Before(f) == CHOOSE n \in 0..Len(f.text) : f.cursor = BytesTo(f.text, n)

InsertChar_OneByte(f, c) == [text   |-> InsertAt(f.text, Before(f) + 1, c),
                             cursor |-> f.cursor + 1]

\* rename_insert_char and its three copies.
InsertChar(f, c) == [text   |-> InsertAt(f.text, Before(f) + 1, c),
                     cursor |-> f.cursor + Width[c]]

Backspace(f) ==
    IF f.cursor > 0 THEN [text   |-> RemoveAt(f.text, Before(f)),
                          cursor |-> BytesTo(f.text, Before(f) - 1)]
                    ELSE f

DeleteChar(f) ==
    IF f.cursor < Bytes(f.text) THEN [f EXCEPT !.text = RemoveAt(@, Before(f) + 1)] ELSE f

MoveLeft(f) ==
    IF f.cursor > 0 THEN [f EXCEPT !.cursor = BytesTo(f.text, Before(f) - 1)] ELSE f

MoveRight(f) ==
    IF f.cursor < Bytes(f.text) THEN [f EXCEPT !.cursor = BytesTo(f.text, Before(f) + 1)] ELSE f

\* What one keystroke makes of a field; texts are bounded by max segments.
Edited(f, max, chars) ==
    {Backspace(f), DeleteChar(f), MoveLeft(f), MoveRight(f)}
      \cup (IF Len(f.text) < max THEN {InsertChar(f, c) : c \in chars} ELSE {})

\* The rename and key fields also have Home and End.
EditedFully(f, max, chars) ==
    Edited(f, max, chars) \cup {[f EXCEPT !.cursor = 0], [f EXCEPT !.cursor = Bytes(f.text)]}
=============================================================================
