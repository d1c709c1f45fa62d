------------------------------ MODULE LineText ------------------------------
(***************************************************************************)
(* What clef's line editor promises: one line of characters with a cursor, *)
(* the lines it can call back, and what the program behind it is sent.  A  *)
(* control character is one character, however many columns it takes.      *)
(* `lost' says that the promise no longer holds.                           *)
(***************************************************************************)
EXTENDS Naturals, Sequences, SequencesExt

CONSTANT Chars

VARIABLES text, at, held, out, lost
line == <<text, at, held, out, lost>>

Before(i) == SubSeq(text, 1, i)
After(i) == SubSeq(text, i + 1, Len(text))

Init == text = <<>> /\ at = 0 /\ held = {} /\ out = <<>> /\ ~lost

Insert == \E c \in Chars : text' = Before(at) \o <<c>> \o After(at) /\ at' = at + 1

\* A control character may cover two others.
Overwrite ==
    \E c \in Chars, n \in 0 .. 2 : /\ (n = 0 => at = Len(text))
                                   /\ text' = Before(at) \o <<c>> \o After(at + n)
                                   /\ at' = at + 1

Move == text' = text /\ at' \in 0 .. Len(text)

EraseBehind == at > 0 /\ text' = RemoveAt(text, at) /\ at' = at - 1

EraseAhead == at < Len(text) /\ text' = RemoveAt(text, at + 1) /\ at' = at

Truncate == text' = Before(at) /\ at' = at

Kill == text' = <<>> /\ at' = 0

Recall == text' \in held /\ at' = Len(text')

\* What stands between i and the cursor gives way to something else.
Replace ==
    /\ \E i \in 0 .. at : i <= at' /\ IsPrefix(Before(i), text')
    /\ at' <= Len(text') /\ After(at) = SubSeq(text', at' + 1, Len(text'))

\* The program gets a line, which can be called back from now on.
Send(l) ==
    /\ out' = l /\ text' = <<>> /\ at' = 0
    /\ held' \subseteq held \union {l} /\ (l = <<>> \/ l \in held')

Submit == Send(text)

\* With something more at the cursor.
Shortcut ==
    /\ Len(out') > Len(text) /\ Send(out')
    /\ IsPrefix(Before(at), out') /\ IsSuffix(After(at), out')

Edit ==
    /\ \/ Insert \/ Overwrite \/ Move \/ EraseBehind \/ EraseAhead
       \/ Truncate \/ Kill \/ Recall \/ Replace
    /\ UNCHANGED <<held, out>>

Next == lost' \/ (~lost' /\ (Edit \/ Submit \/ Shortcut))

LineSpec == Init /\ [][Next]_line
=============================================================================
