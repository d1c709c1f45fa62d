------------------------------ MODULE FlatText ------------------------------
(***************************************************************************)
(* What an input area of a HyperDoc page promises: a text of rows and a    *)
(* cursor in it.  How wide the area is does not matter.  Each key does one *)
(* thing; a key that can do nothing beeps.  `broken' says that the promise *)
(* no longer holds.                                                        *)
(***************************************************************************)
EXTENDS Naturals, Sequences, SequencesExt

CONSTANT Chars

VARIABLES text, row, col, broken
flat == <<text, row, col, broken>>

Row == text[row]

Init == ~broken /\ row \in DOMAIN text /\ col \in 0 .. Len(Row)

Cursor(r, c) == row' = r /\ col' = c
Same == UNCHANGED text

Insert ==
    \E ch \in Chars : /\ text' = [text EXCEPT ![row] = InsertAt(@, col + 1, ch)]
                      /\ Cursor(row, col + 1)

Overwrite ==
    /\ \E ch \in Chars :
         text' = [text EXCEPT ![row] = IF col < Len(@) THEN [@ EXCEPT ![col + 1] = ch]
                                       ELSE Append(@, ch)]
    /\ Cursor(row, col + 1)

Home == Same /\ Cursor(row, 0)

End == Same /\ Cursor(row, Len(Row))

Forward ==
    /\ Same
    /\ IF col < Len(Row) THEN Cursor(row, col + 1)
       ELSE row < Len(text) /\ Cursor(row + 1, 0)

Backward ==
    /\ Same
    /\ IF col > 0 THEN Cursor(row, col - 1)
       ELSE row > 1 /\ Cursor(row - 1, Len(text[row - 1]))

\* To some place of the row above or below.
UpOrDown ==
    /\ Same
    /\ row' \in {row - 1, row + 1} \intersect DOMAIN text
    /\ col' \in 0 .. Len(text[row'])

\* The row r and the one below become one.
Joined(r) ==
    SubSeq(text, 1, r - 1) \o <<text[r] \o text[r + 1]>>
      \o SubSeq(text, r + 2, Len(text))

Backspace ==
    IF col > 0
    THEN text' = [text EXCEPT ![row] = RemoveAt(@, col)] /\ Cursor(row, col - 1)
    ELSE /\ row > 1
         /\ text' = Joined(row - 1)
         /\ Cursor(row - 1, Len(text[row - 1]))

Delete ==
    /\ IF col < Len(Row) THEN text' = [text EXCEPT ![row] = RemoveAt(@, col + 1)]
       ELSE row < Len(text) /\ text' = Joined(row)
    /\ UNCHANGED <<row, col>>

Enter ==
    /\ text' = SubSeq(text, 1, row - 1)
                 \o <<SubSeq(Row, 1, col), SubSeq(Row, col + 1, Len(Row))>>
                 \o SubSeq(text, row + 1, Len(text))
    /\ Cursor(row + 1, 0)

\* The rest of the row goes, or the row if it is empty and not the last.
Kill ==
    IF Row = <<>>
    THEN row < Len(text) /\ text' = RemoveAt(text, row) /\ Cursor(row, 0)
    ELSE text' = [text EXCEPT ![row] = SubSeq(@, 1, col)] /\ UNCHANGED <<row, col>>

\* Escape: Home and then Kill.
KillRow ==
    IF Row = <<>>
    THEN row < Len(text) /\ text' = RemoveAt(text, row) /\ Cursor(row, 0)
    ELSE text' = [text EXCEPT ![row] = <<>>] /\ Cursor(row, 0)

Edit ==
    \/ Insert \/ Overwrite \/ Enter \/ Backspace \/ Delete \/ Kill \/ KillRow
    \/ Home \/ End \/ Forward \/ Backward \/ UpOrDown

Next == broken' = TRUE \/ (broken' = FALSE /\ ~broken /\ Edit)

FlatSpec == Init /\ [][Next]_flat
=============================================================================
