-------------------------------- MODULE Clef --------------------------------
(***************************************************************************)
(* The line editor of clef (edin.c, prt.c, fnct_key.c): the terminal of    *)
(* the interpreter.  buff and flag are the C arrays: flag says what a cell *)
(* is, 1 a character, 2 and 0 the two halves of a control character, -1    *)
(* nothing.  bp is buff_pntr, the length of the line, and cp is curr_pntr, *)
(* the cursor; cells from bp on may keep what was there.  scr and at are   *)
(* the columns of the screen where the line stands and its cursor.         *)
(*                                                                         *)
(* Keys come in bursts: one read may bring several, and do_reading works   *)
(* on one after the other.  A behaviour is followed up to the first        *)
(* trouble with the text of the line.                                      *)
(***************************************************************************)
EXTENDS Completion, Functions

CONSTANTS
    Typed,       \* characters that may be typed, the control characters too
    Recalled,    \* those of them that lines of the history are made of
    Limit,       \* 1023: the last cell of the arrays
    MaxRing,     \* MAXRING: lines that the history holds
    PrevCheck,   \* prev_check: of which so many less one are compared
    PfKey,       \* what the function keys of .clef stand for
    MaxKeys      \* keys that are pressed

ASSUME ClefAssumption ==
    /\ Limit \in Nat \ {0} /\ MaxRing \in Nat \ {0} /\ PrevCheck \in Nat
    /\ MaxKeys \in Nat /\ Len(PfKey) > 0

VARIABLES ln, hist, burst, tabs, sent, keys
lineVars == <<ln, hist, burst, tabs, sent, keys>>
clefVars == <<ln, hist, burst, tabs, sent, keys, wcts, wix>>

NUL == "nul"
Blank == " "
Carrot == "^"
\* control_to_alpha: the letter that is shown for a control character.
Letter == [bell |-> "G", esc |-> "["]
ControlChars == DOMAIN Letter
Letters == {Letter[c] : c \in ControlChars}
Delimiter(c) == c \in {NUL, Blank, Carrot, "["}

Cells == 0 .. Limit + 3
Columns == 0 .. 2 * Limit + 4

TextTroubles == {"overflow", "half", "unflagged", "pf key", "inside word", "before",
                 "swallowed", "spins", "twice", "raw", "tail compared", "same letters"}
ScreenTroubles == {"ghost", "cursor at end", "empty ring"}
Troubles == TextTroubles \union ScreenTroubles

Oops(l, cond, what) == [l EXCEPT !.oops = IF cond THEN @ \union {what} ELSE @]
Beyond(l) == Oops(l, l.bp > Limit, "overflow")
Broken == ln.oops \intersect TextTroubles # {}

Line(l) == [i \in 1 .. l.bp |-> l.buff[i - 1]]
\* The C string in a buffer.
CStr(b) == LET n == CHOOSE k \in Cells : /\ b[k] = NUL \/ k = Limit + 3
                                         /\ \A j \in 0 .. k - 1 : b[j] # NUL
           IN  [i \in 1 .. n |-> b[i - 1]]
KnownFlags(l) == \A i \in 0 .. l.bp - 1 : l.flag[i] \in {0, 1, 2}

(***************************************************************************)
(* The screen: putchar at the cursor, and backspaces.                      *)
(***************************************************************************)
Put(l, s) ==
    [l EXCEPT !.scr = [c \in Columns |-> IF c \in l.at .. l.at + Len(s) - 1
                                         THEN s[c - l.at + 1] ELSE @[c]],
              !.at = @ + Len(s)]
Bs(l, n) == [l EXCEPT !.at = IF @ > n THEN @ - n ELSE 0]
Blanks(n) == [i \in 1 .. n |-> Blank]
Slice(l, i, j) == [k \in 1 .. j - i |-> l.buff[i + k - 1]]
\* printbuff does not print what is '\0'.
Printbuff(l, i, n) ==
    Put(l, SelectSeq(Slice(l, i, i + n), LAMBDA c : c # NUL))

\* del_print: the rest of the line, blanks, and back.
DelPrint(l, start, num) ==
    Bs(Put(l, Slice(l, start, l.bp) \o Blanks(num)), l.bp + num - start)

\* ins_print: the line from start on, and back to where the rest begins.
InsPrint(l, start, num) ==
    Bs(Put(l, Slice(l, start, l.bp + num)), l.bp - start)

\* Back to the start of the line, blanks over it, and back.
WipeLine(l) == Bs(Put(Bs(l, l.cp), Blanks(l.bp)), l.bp)

(***************************************************************************)
(* The arrays.                                                             *)
(***************************************************************************)
\* forwardcopy, forwardflag_cpy: num + 1 cells, to a place further on.
ForwardCopy(a, to, from, num) ==
    [i \in Cells |-> IF i \in to .. to + num THEN a[i - to + from] ELSE a[i]]
\* strcpy and flagcpy: up to and including the first cell that ends them.
CopyDown(a, to, from, ends) ==
    LET n == CHOOSE k \in from .. Limit + 3 :
                 /\ ends[k] \/ k = Limit + 3
                 /\ \A j \in from .. k - 1 : ~ends[j]
    IN  [i \in Cells |-> IF i \in to .. to + n - from THEN a[i - to + from] ELSE a[i]]
Strcpy(l, to, from) == CopyDown(l.buff, to, from, [i \in Cells |-> l.buff[i] = NUL])
Flagcpy(l, to, from) == CopyDown(l.flag, to, from, [i \in Cells |-> l.flag[i] < 0])
Open(l, n) == [l EXCEPT !.buff = ForwardCopy(@, l.cp + n, l.cp, l.bp - l.cp),
                        !.flag = ForwardCopy(@, l.cp + n, l.cp, l.bp - l.cp)]
\* init_buff, init_flag: so many cells.
InitCells(l, n) == [l EXCEPT !.buff = [i \in Cells |-> IF i < n THEN NUL ELSE @[i]],
                             !.flag = [i \in Cells |-> IF i < n THEN -1 ELSE @[i]]]
Empty(l) == [InitCells(l, l.bp) EXCEPT !.bp = 0, !.cp = 0]
Cell(l, i, c, f) == [l EXCEPT !.buff[i] = c, !.flag[i] = f]

(***************************************************************************)
(* Deleting and moving (prt.c).                                            *)
(***************************************************************************)
\* What stands at to .. from - 1 goes.
Close(l, to, from) ==
    Oops([l EXCEPT !.buff = Strcpy(l, to, from), !.flag = Flagcpy(l, to, from),
                   !.bp = @ - (from - to), !.cp = to],
         ~KnownFlags(l), "unflagged")

\* Mutant: one cell goes, whatever stands there.
DeleteCurrentChar_One(l) ==
    IF l.cp = l.bp THEN l
    ELSE LET m == Close(Bs(Put(l, Blanks(1)), 1), l.cp, l.cp + 1)
         IN  DelPrint(m, m.cp, 1)

\* delete_current_char: one cell, or both halves.
DeleteCurrentChar(l) ==
    IF l.cp = l.bp THEN l
    ELSE LET n == IF l.flag[l.cp] \in {0, 1} THEN 1 ELSE 2
             m == Close(Bs(Put(l, Blanks(n)), n), l.cp, l.cp + n)
         IN  DelPrint(m, m.cp, n)

\* back_over_current_char: the one behind the cursor.
BackOverCurrentChar(l) ==
    IF l.cp = 0 THEN l
    ELSE LET n == IF l.flag[l.cp - 1] = 0 THEN 2 ELSE 1
             m == Close(Bs(Put(Bs(l, n), Blanks(n)), n), l.cp - n, l.cp)
         IN  DelPrint(m, m.cp, n)

\* delete_to_end_of_line: the cells keep what they hold.
DeleteToEndOfLine(l) ==
    [Bs(Put(l, Blanks(l.bp - l.cp)), l.bp - l.cp) EXCEPT !.bp = l.cp]

\* delete_line and clear_buff.
DeleteLine(l) == IF l.bp = 0 THEN l ELSE Empty(WipeLine(l))

Forth(l, to) == [Put(l, Slice(l, l.cp, to)) EXCEPT !.cp = to]
Back(l, to) == [Bs(l, l.cp - to) EXCEPT !.cp = to]

MoveEnd(l) == Forth(l, l.bp)
MoveHome(l) == Back(l, 0)

\* move_fore_word: to the next blank.
MoveForeWord(l) ==
    IF l.cp = l.bp THEN l
    ELSE Forth(l, CHOOSE k \in l.cp + 1 .. l.bp :
                     /\ k = l.bp \/ l.buff[k] = Blank
                     /\ \A j \in l.cp + 1 .. k - 1 : l.buff[j] # Blank)

\* move_back_word: to the last blank.
MoveBackWord(l) ==
    IF l.cp = 0 THEN l
    ELSE Back(l, CHOOSE k \in 0 .. l.cp - 1 :
                    /\ k = 0 \/ l.buff[k - 1] = Blank
                    /\ \A j \in k + 1 .. l.cp - 1 : l.buff[j - 1] # Blank)

\* move_ahead and move_back: over both halves.
MoveAhead(l) ==
    IF l.cp = l.bp THEN l ELSE Forth(l, l.cp + (IF l.flag[l.cp] = 2 THEN 2 ELSE 1))
MoveBack(l) ==
    IF l.cp = 0 THEN l ELSE Back(l, l.cp - (IF l.flag[l.cp - 1] = 0 THEN 2 ELSE 1))

\* reprint, after the insert mode has been flipped: a cell of an old line that
\* stands at the end comes back to the screen.
FlipInsMode(l) ==
    LET c == IF l.buff[l.cp] = NUL THEN Blank ELSE l.buff[l.cp]
    IN  Oops([Bs(Put(l, <<c>>), 1) EXCEPT !.ins = ~@],
             l.cp = l.bp /\ c # Blank, "ghost")

(***************************************************************************)
(* Inserting (edin.c).                                                     *)
(***************************************************************************)
\* insert_buff_printing in the insert mode.
InsertPrinting(l, c) ==
    LET m == InsPrint(Cell(Open(l, 1), l.cp, c, 1), l.cp, 1)
    IN  [m EXCEPT !.bp = @ + 1, !.cp = @ + 1]

\* A pair is first made one cell; with what is left of an old line at the end
\* of this one the cell after it goes though it is not there.
OverwritePrinting(l, c) ==
    LET half == [Put(l, <<l.buff[l.cp]>>) EXCEPT !.cp = @ + 1]
        m == IF l.flag[l.cp] = 2 /\ l.cp < l.bp
             THEN [Bs(DeleteCurrentChar(half), 1) EXCEPT !.cp = l.cp]
             ELSE Oops(l, l.flag[l.cp] = 2, "half")
    IN  [Put(Cell(m, l.cp, c, 1), <<c>>) EXCEPT !.cp = l.cp + 1,
                                                !.bp = IF @ = l.cp THEN @ + 1 ELSE @]

\* A full line beeps.
InsertBuffPrinting(l, c) ==
    IF l.bp + 1 > Limit THEN l
    ELSE Beyond(IF l.ins THEN InsertPrinting(l, c) ELSE OverwritePrinting(l, c))

\* insert_buff_nonprinting(1), for a control character: two cells, though room
\* for one is asked for.  Overwriting may leave the second half of a pair.
InsertBuffNonprinting(l, c) ==
    LET pair(m) == Cell(Cell(m, l.cp, Carrot, 2), l.cp + 1, Letter[c], 0)
        over == Printbuff(Oops(pair(l), l.flag[l.cp] # 2 /\ l.flag[l.cp + 1] = 2, "half"),
                          l.cp, 2)
        new == IF l.ins THEN [InsPrint(pair(Open(l, 2)), l.cp, 2) EXCEPT !.bp = @ + 2]
               ELSE over
    IN  IF l.bp + 1 > Limit THEN l
        ELSE Beyond([new EXCEPT !.cp = @ + 2, !.bp = IF l.cp + 2 > @ THEN l.cp + 2 ELSE @])

\* handle_function_key, DELAYED and IMMEDIATE: its string.  In the insert mode
\* buff_pntr grows twice, otherwise even inside the line; the flag is '1'.
FunctionKeyString(l) ==
    LET n == Len(PfKey)
        new(m) == [m EXCEPT
            !.buff = [i \in Cells |-> IF i \in l.cp .. l.cp + n - 1
                                      THEN PfKey[i - l.cp + 1] ELSE @[i]],
            !.flag = [i \in Cells |-> IF i \in l.cp .. l.cp + n - 1 THEN 49 ELSE @[i]]]
        m == IF l.ins THEN InsPrint(new(Open(l, n)), l.cp, n + 1) ELSE Put(new(l), PfKey)
    IN  Oops([m EXCEPT !.cp = l.cp + n, !.bp = l.bp + n],
             l.ins \/ l.cp < l.bp, "pf key")

(***************************************************************************)
(* The history: a ring of lines.                                           *)
(***************************************************************************)
Node(n) == hist.node[n]
HistoryInit == [ring |-> 0, size |-> 0, current |-> 0,
                node |-> [n \in 1 .. MaxRing |-> [buff |-> <<>>, flags |-> <<>>,
                                                  next |-> n, prev |-> n]]]

RECURSIVE Traced(_, _, _, _)
\* The line that the search from trace finds, so many lines back; 0 for none.
Traced(h, str, trace, left) ==
    IF left = 0 THEN 0
    ELSE IF h.node[trace].buff = str THEN trace
    ELSE Traced(h, str, h.node[trace].prev, left - 1)

\* `throw this puppy at the end of the ring'.
ToFront(h, t) ==
    LET a == [h.node EXCEPT ![h.node[t].next].prev = h.node[t].prev]
        b == [a EXCEPT ![a[t].prev].next = a[t].next]
        c == [b EXCEPT ![t].prev = h.ring, ![t].next = b[h.ring].next]
        d == [c EXCEPT ![h.ring].next = t]
    IN  [h EXCEPT !.node = [d EXCEPT ![d[t].next].prev = t], !.ring = t]

\* A new node after the ring's, or the oldest one again.
NewNode(h) ==
    IF h.size = MaxRing THEN [h EXCEPT !.ring = h.node[@].next]
    ELSE LET n == h.size + 1
             after == IF h.size = 0 THEN n ELSE h.node[h.ring].next
             before == IF h.size = 0 THEN n ELSE h.ring
             a == [h.node EXCEPT ![n].next = after, ![n].prev = before]
             b == [a EXCEPT ![before].next = n]
         IN  [h EXCEPT !.size = n, !.ring = n, !.node = [b EXCEPT ![after].prev = n]]

\* insert_queue.
InsertQueue(h, l) ==
    LET t == IF h.ring = 0 THEN 0 ELSE Traced(h, CStr(l.buff), h.ring, PrevCheck - 1)
        g == NewNode(h)
    IN  IF h.ring # 0 /\ CStr(l.buff) = h.node[h.ring].buff THEN h
        ELSE IF t # 0 THEN ToFront(h, t)
        ELSE [g EXCEPT !.node[g.ring].buff = Line(l),
                       !.node[g.ring].flags = [i \in 1 .. l.bp |-> l.flag[i - 1]]]

\* prev_buff, next_buff: the flags are copied up to the first -1.
ShowEntry(l, e) ==
    LET m == DeleteLine(l)
        n == Len(e.buff)
        k == CHOOSE j \in 1 .. n + 1 : /\ j = n + 1 \/ e.flags[j] < 0
                                       /\ \A i \in 1 .. j - 1 : e.flags[i] >= 0
        new == [m EXCEPT
            !.buff = [i \in Cells |-> IF i < n THEN e.buff[i + 1]
                                      ELSE IF i = n THEN NUL ELSE @[i]],
            !.flag = [i \in Cells |-> IF i < k - 1 THEN e.flags[i + 1]
                                      ELSE IF i = k - 1 THEN -1 ELSE @[i]]]
    IN  Oops([Printbuff(new, 0, n) EXCEPT !.bp = n, !.cp = n], k <= n, "unflagged")

(***************************************************************************)
(* Completing the word before the cursor.                                  *)
(***************************************************************************)
\* Back to a delimiter, or to the start of the line.
WordStart(l) ==
    CHOOSE b \in 0 .. l.cp : /\ b = 0 \/ Delimiter(l.buff[b - 1])
                             /\ \A j \in b .. l.cp - 1 : ~Delimiter(l.buff[j])

\* find_wct, rescan_wct: the word takes the place of b .. cp - 1.  The flags of
\* the cells it comes to are not set.
Completed(l, b, word) ==
    LET diff == Len(word) - (l.cp - b)
        end == l.cp + diff
        tail == [i \in Cells |-> IF i \in end .. l.bp + diff - 1 THEN i - diff ELSE i]
        opened == IF diff > 0 /\ l.cp # l.bp THEN Open(l, diff)
                  ELSE IF diff < 0
                  THEN [l EXCEPT !.buff = [i \in Cells |-> @[tail[i]]],
                                 !.flag = [i \in Cells |-> @[tail[i]]]]
                  ELSE l
        m == [opened EXCEPT !.bp = @ + diff,
                 !.buff = [i \in Cells |-> IF i \in b .. end - 1 THEN word[i - b + 1]
                                           ELSE @[i]]]
        spare == IF diff < 0 THEN -diff ELSE 0
        shown == Put(Printbuff(Bs(m, l.cp - b), b, m.bp - b), Blanks(spare))
    IN  Beyond(Oops([Bs(shown, m.bp + spare - end) EXCEPT !.cp = end],
                    \E i \in l.cp .. end - 1 : m.flag[i] \in {0, 2}, "unflagged"))

(***************************************************************************)
(* do_reading: one action per key.  last: nothing follows in the same read *)
(***************************************************************************)
\* Mutant: what is shown is sent.
ConvertBuffer_Shown(b, f, n) == [i \in 1 .. n |-> b[i - 1]]

\* convert_buffer: what is written to the child for a line.
ConvertBuffer(b, f, n) ==
    LET taken(i) == b[i] = Carrot /\ f[i] # 1 /\ b[i + 1] \in Letters
        first == SelectSeq([i \in 1 .. n |-> i - 1], LAMBDA i : i = 0 \/ ~taken(i - 1))
        out(i) == IF taken(i) THEN CHOOSE c \in ControlChars : Letter[c] = b[i + 1]
                  ELSE IF b[i] = Carrot /\ f[i] # 1 THEN "unset"
                  ELSE b[i]
    IN  [j \in DOMAIN first |-> out(first[j])]

\* burst says how do_reading goes on: "idle" when it has returned; `done' is
\* done_completely, which stays set until then.
Key(last, done) ==
    /\ keys < MaxKeys /\ keys' = keys + 1 /\ ~Broken
    /\ burst' = IF last THEN "idle" ELSE IF done \/ burst = "done" THEN "done" ELSE "more"
Unread(last, l) == Oops(l, ~last, "swallowed")
NotTab == tabs' = FALSE /\ UNCHANGED <<wcts, wix>>
EditKey(last, l) == Key(last, FALSE) /\ ln' = l /\ NotTab /\ UNCHANGED <<hist, sent>>

TypeChar(last, chars) ==
    \E c \in chars : EditKey(last, IF c \in ControlChars THEN InsertBuffNonprinting(ln, c)
                                   ELSE InsertBuffPrinting(ln, c))
EraseKey(last) == EditKey(last, BackOverCurrentChar(ln))
\* The byte 0x7f: delete_current_char has counted the three of ESC [ P.
DelByte(last) == EditKey(last, Unread(last, DeleteCurrentChar(ln)))
DelKey(last) == EditKey(last, DeleteCurrentChar(ln))
KillKey(last) == EditKey(last, DeleteLine(ln))
CntrlEnd(last) == EditKey(last, DeleteToEndOfLine(ln))
LeftKey(last) == EditKey(last, MoveBack(ln))
RightKey(last) == EditKey(last, MoveAhead(ln))
HomeKey(last) == EditKey(last, MoveHome(ln))
EndKey(last) == EditKey(last, MoveEnd(ln))
BackWordKey(last) == EditKey(last, MoveBackWord(ln))
ForeWordKey(last) == EditKey(last, MoveForeWord(ln))
InsertToggle(last) == EditKey(last, FlipInsMode(ln))

\* The end-of-file character is shown, and counted twice.
EofKey(last) == EditKey(last, Unread(last, InsertBuffNonprinting(ln, "bell")))

\* ESC [ x: whatever else was read is dropped.
DropKey(last) == EditKey(last, Unread(last, ln))

\* ESC [ and something that is not known: shown, unless a function key came
\* before it in the same read; then num_proc stays and do_reading never ends.
UnknownKey(last) ==
    EditKey(last, IF burst = "done" THEN Oops(ln, TRUE, "spins")
                  ELSE InsertBuffNonprinting(ln, "esc"))

\* ESC [ 0 x y z: the switch falls through and `[' is shown as well.
UnknownPfKey(last) ==
    EditKey(last, Oops(InsertBuffNonprinting(ln, "esc"), burst # "done", "twice"))

PfDelayed(last) ==
    /\ Key(last, TRUE) /\ ln' = Beyond(FunctionKeyString(ln)) /\ NotTab
    /\ UNCHANGED <<hist, sent>>

\* send_line_to_child.  The cursor goes back: the terminal's echo shows the
\* line again.  A line that is full is closed beyond the arrays.  The history
\* compares characters only, up to a '\0' that may be far behind the line.
Pairs(flags) == {i \in DOMAIN flags : flags[i] = 2}
Submit(l, bytes) ==
    LET full == Oops(Bs(l, l.cp), l.bp + 1 > Limit, "overflow")
        ended == Cell(Cell(full, l.bp, "cr", 1), l.bp + 1, NUL, -1)
        h == IF l.bp > 0 THEN InsertQueue(hist, l) ELSE hist
        m == Oops([Empty([ended EXCEPT !.bp = @ + 1]) EXCEPT !.owed = TRUE],
                  l.bp > 0 /\ CStr(l.buff) # Line(l), "tail compared")
    IN  /\ ln' = Oops(m, /\ l.bp > 0 /\ h.node[h.ring].buff = Line(l)
                         /\ Pairs(h.node[h.ring].flags)
                              # Pairs([i \in 1 .. l.bp |-> l.flag[i - 1]]), "same letters")
        /\ hist' = [h EXCEPT !.current = 0]
        /\ sent' = bytes
        /\ NotTab

ReturnKey(last) ==
    Key(last, FALSE) /\ Submit(ln, ConvertBuffer(ln.buff, ln.flag, ln.bp))

\* IMMEDIATE: the string and the line go at once, as they are shown; one byte
\* too many is counted.
PfImmediate(last) ==
    LET l == Unread(last, Beyond(FunctionKeyString(ln)))
    IN  /\ Key(last, TRUE)
        /\ Submit(Oops(l, \E i \in 0 .. l.bp - 1 : l.flag[i] = 2, "raw"), Line(l))

\* Up and Down.  With no history the cursor is taken to be at the end.
Recall(last, entry) ==
    /\ Key(last, FALSE) /\ NotTab /\ UNCHANGED sent
    /\ IF hist.ring = 0
       THEN /\ ln' = Oops([ln EXCEPT !.cp = ln.bp], ln.cp # ln.bp, "empty ring")
            /\ UNCHANGED hist
       ELSE ln' = ShowEntry(ln, Node(entry)) /\ hist' = [hist EXCEPT !.current = entry]
UpKey(last) ==
    Recall(last, IF hist.ring = 0 THEN 0
                 ELSE IF hist.current = 0 THEN hist.ring ELSE Node(hist.current).prev)
DownKey(last) ==
    Recall(last, IF hist.ring = 0 THEN 0
                 ELSE Node(IF hist.current = 0 THEN hist.ring ELSE hist.current).next)

\* find_wct.  Inside a word the rest of the word is taken to be typed too.
TabKey(last) ==
    LET b == WordStart(ln)
        prefix == Slice(ln, b, ln.cp)
        tables == Reread(wcts, prefix)
        x == ScanWct(tables, prefix)
        inside == ln.cp < ln.bp /\ ~Delimiter(ln.buff[ln.cp])
    IN  /\ ~tabs /\ tabs' = TRUE /\ Key(last, FALSE) /\ UNCHANGED <<hist, sent>>
        /\ IF ln.cp = 0 THEN UNCHANGED <<ln, wcts, wix>>
           ELSE /\ wcts' = tables /\ wix' = x
                /\ ln' = IF ~x.found THEN ln
                         ELSE IF inside THEN Oops(ln, TRUE, "inside word")
                         ELSE Completed(ln, b, Word(tables[x.pwct], x.word))

\* rescan_wct; at the start of the line it looks before the buffer.
TabAgain(last) ==
    LET x == RescanWct(wcts, wix)
    IN  /\ tabs /\ tabs' = TRUE /\ Key(last, FALSE) /\ UNCHANGED <<hist, sent, wcts>>
        /\ wix' = x
        /\ ln' = IF ln.cp = 0 THEN Oops(ln, TRUE, "before")
                 ELSE IF ~x.found THEN ln
                 ELSE Completed(ln, WordStart(ln), Word(wcts[x.pwct], x.word))

(***************************************************************************)
(* main: what the child writes.  The line is wiped, as if the cursor were  *)
(* at its end, and shown again after the output, which ends a line.        *)
(***************************************************************************)
ChildOutput ==
    LET fresh == [ln EXCEPT !.scr = [c \in Columns |-> Blank], !.at = 0, !.owed = FALSE]
    IN  /\ burst = "idle" /\ ~Broken
        /\ ln' = Oops(Printbuff(fresh, 0, ln.bp), ln.cp # ln.bp, "cursor at end")
        /\ ln' # ln
        /\ UNCHANGED <<hist, burst, tabs, sent, keys, wcts, wix>>

ClefInit ==
    /\ ln = [buff |-> [i \in Cells |-> NUL], flag |-> [i \in Cells |-> -1],
             bp |-> 0, cp |-> 0, ins |-> TRUE, owed |-> FALSE, oops |-> {},
             scr |-> [c \in Columns |-> Blank], at |-> 0]
    /\ hist = HistoryInit
    /\ burst = "idle" /\ tabs = FALSE /\ sent = <<>> /\ keys = 0
    /\ CompletionInit

ClefNext ==
    \/ \E last \in BOOLEAN :
          \/ TypeChar(last, Typed) \/ EraseKey(last) \/ DelByte(last) \/ DelKey(last)
          \/ KillKey(last) \/ CntrlEnd(last) \/ LeftKey(last) \/ RightKey(last)
          \/ HomeKey(last) \/ EndKey(last) \/ BackWordKey(last) \/ ForeWordKey(last)
          \/ InsertToggle(last) \/ EofKey(last) \/ DropKey(last) \/ UnknownKey(last)
          \/ UnknownPfKey(last) \/ PfDelayed(last) \/ PfImmediate(last)
          \/ ReturnKey(last) \/ UpKey(last) \/ DownKey(last)
          \/ TabKey(last) \/ TabAgain(last)
    \/ ChildOutput
    \/ \E t \in DOMAIN wcts : ReviseFile(t) /\ ~Broken /\ UNCHANGED lineVars

\* The keys that history is made with, for longer behaviours.
HistoryNext ==
    \/ TypeChar(TRUE, Recalled) \/ LeftKey(TRUE) \/ CntrlEnd(TRUE) \/ ReturnKey(TRUE)
    \/ UpKey(TRUE) \/ DownKey(TRUE)

(***************************************************************************)
(* Properties.                                                             *)
(***************************************************************************)
\* The state stays within its types.
ClefTypeOK ==
    /\ Broken \/ (ln.bp \in 0 .. Limit /\ ln.cp \in 0 .. ln.bp)
    /\ ln.oops \subseteq Troubles /\ ln.ins \in BOOLEAN /\ ln.owed \in BOOLEAN
    /\ \A i \in Cells : ln.flag[i] \in {-1, 0, 1, 2, 49}
    /\ hist.size \in 0 .. MaxRing /\ hist.ring \in 0 .. hist.size
    /\ hist.current \in 0 .. hist.size
    /\ burst \in {"idle", "more", "done"} /\ tabs \in BOOLEAN
    /\ wix.pwct \in 0 .. Len(wcts)

\* Both halves of a control character stay together, and the cursor is never
\* between them, whatever is inserted, deleted, called back or completed
\* (edin.c insert_buff_nonprinting; prt.c).
PairsAreWhole ==
    ~Broken =>
        /\ \A i \in 0 .. ln.bp - 1 :
             /\ ln.flag[i] = 2 => i + 1 < ln.bp /\ ln.flag[i + 1] = 0 /\ ln.buff[i] = Carrot
             /\ ln.flag[i] = 0 => i > 0 /\ ln.flag[i - 1] = 2
        /\ ln.cp < ln.bp => ln.flag[ln.cp] # 0

\* The columns of the line show the line, the cursor of the screen stands where
\* the next character goes, and right of the line there is nothing but what
\* the echo of the last line will write over (prt.c: every operation prints
\* only what it thinks has changed).
ScreenShowsLine ==
    ~Broken /\ ln.oops \intersect ScreenTroubles = {} =>
        /\ \A c \in 0 .. ln.bp - 1 : ln.scr[c] = ln.buff[c]
        /\ ln.at = ln.cp
        /\ ln.owed \/ \A c \in Columns : c >= ln.bp => ln.scr[c] = Blank

RECURSIVE After(_, _)
After(n, k) == IF k = 0 THEN n ELSE Node(After(n, k - 1)).next
RECURSIVE Before(_, _)
Before(n, k) == IF k = 0 THEN n ELSE Node(Before(n, k - 1)).prev

\* The history is one ring: going on as often as it has lines passes all of
\* them and comes back, and prev undoes next (edin.c insert_queue, which takes
\* a line out of the ring and puts it in elsewhere).
HistoryIsOneRing ==
    hist.ring # 0 =>
        /\ {After(hist.ring, k) : k \in 1 .. hist.size} = 1 .. hist.size
        /\ After(hist.ring, hist.size) = hist.ring
        /\ \A n \in 1 .. hist.size : Node(Node(n).next).prev = n

\* The newest line is not among the prev_check - 1 lines that Up shows after
\* it: a line of them that is sent again moves to the front (edin.c
\* insert_queue).
RecentLinesDiffer ==
    ~Broken =>
        \A k \in 1 .. PrevCheck - 1 :
            k < hist.size => Node(Before(hist.ring, k)).buff # Node(hist.ring).buff

RECURSIVE Tabbed(_, _)
Tabbed(x, k) == IF k = 0 THEN x ELSE RescanWct(wcts, Tabbed(x, k - 1))

\* From a word that was found, as many Tabs as there are words that fit show
\* each of them once and come back to it (wct.c rescanWct, which starts in the
\* middle of the tables and counts words that a file no longer has).
TabsGoRound ==
    tabs /\ wix.found =>
        LET all == Places(wcts, wix.prefix)
            place(k) == <<Tabbed(wix, k).pwct, Tabbed(wix, k).word>>
        IN  /\ {place(k) : k \in 1 .. Cardinality(all)} = all
            /\ place(Cardinality(all)) = place(0)

\* What clef keeps is sound up to the first trouble: the cells of the line, the
\* screen that shows them, the ring of the history and the walk of Tab.
LineIsSound ==
    /\ ClefTypeOK /\ PairsAreWhole /\ ScreenShowsLine
    /\ HistoryIsOneRing /\ RecentLinesDiffer /\ TabsGoRound

\* The characters that cells stand for.
Characters(buff, flag, n) ==
    LET mine == SelectSeq([i \in 1 .. n |-> i - 1], LAMBDA i : flag[i] # 0)
    IN  [j \in DOMAIN mine |->
            IF flag[mine[j]] = 2
            THEN CHOOSE c \in ControlChars : Letter[c] = buff[mine[j] + 1]
            ELSE buff[mine[j]]]
Entry(n) ==
    LET e == Node(n) IN
    Characters([i \in 0 .. Len(e.buff) |-> IF i < Len(e.buff) THEN e.buff[i + 1] ELSE NUL],
               [i \in 0 .. Len(e.buff) |-> IF i < Len(e.buff) THEN e.flags[i + 1] ELSE -1],
               Len(e.buff))

Promise == INSTANCE LineText WITH
    Chars <- Typed \union Recalled \union ControlChars,
    text <- Characters(ln.buff, ln.flag, ln.bp),
    at   <- Len(Characters(ln.buff, ln.flag, ln.cp)),
    held <- {Entry(n) : n \in 1 .. hist.size},
    out  <- sent,
    lost <- Broken

\* The keys edit a plain line of characters: each does one thing to it, the
\* lines that are called back are lines that were sent, and the child is sent
\* what the line says (edin.c do_reading, convert_buffer, insert_queue).
KeysKeepLine == Promise!LineSpec
=============================================================================
