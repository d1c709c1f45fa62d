----------------------------- MODULE HyperInput -----------------------------
(***************************************************************************)
(* The input areas of a HyperDoc page (hyper/dialog.c): a text that is     *)
(* kept in lines of Size characters, with a cursor.                        *)
(*                                                                         *)
(* A line whose len is Size + 1 ends in '_' and goes on in the next line.  *)
(* A buffer has Size + 2 cells.  Lines are linked both ways; here they are *)
(* a sequence.  strncpy is modelled cell by cell: it stops at a null, and  *)
(* where the code copies upwards within one buffer what comes out is not   *)
(* defined, so that both results are possible.                             *)
(***************************************************************************)
EXTENDS Integers, Sequences, FiniteSets, SequencesExt

CONSTANTS
    Size,        \* width of an area
    Chars,       \* what may be typed
    Defaults,    \* texts an area may start with
    MaxLines,    \* lines an area is let grow to
    MaxKeys      \* keys that are pressed

ASSUME InputAssumption ==
    /\ Size \in Nat \ {0, 1} /\ MaxLines \in Nat \ {0} /\ MaxKeys \in Nat

Nul == "nul"
Wrap == "_"
Cells == 0 .. Size + 1
Blank == [i \in Cells |-> Nul]

\* What goes wrong in the code; a behaviour is followed up to the first of them.
Troubles == {"null", "overrun", "freed", "overlap", "third line", "truncated",
             "spurious row", "full line", "joined twice", "lost rows",
             "rest moved", "numbers"}

VARIABLES ed, keys
inputVars == <<ed, keys>>

LineStruct == [buf : [Cells -> Chars \union {Nul, Wrap}], len : 0 .. Size + 1,
               bp : 0 .. Size + 1, no : Int]

InputTypeOK ==
    /\ ed.lines \in Seq(LineStruct) /\ ed.cur \in 1 .. Len(ed.lines)
    /\ ed.insert \in BOOLEAN /\ ed.num \in Nat
    /\ ed.fault \in Troubles \union {"no"}
    /\ keys \in 0 .. MaxKeys

AllocInputline(no) == [buf |-> Blank, len |-> 0, bp |-> 0, no |-> no]

\* initialize_default: the default value is split into lines, and the cursor
\* is at its end.
InitLine(s, no, wrapped) ==
    [buf |-> [i \in Cells |-> IF i < Len(s) THEN s[i + 1]
                              ELSE IF wrapped /\ i = Size THEN Wrap ELSE Nul],
     len |-> IF wrapped THEN Size + 1 ELSE Len(s),
     bp |-> IF wrapped THEN 0 ELSE Len(s), no |-> no]

InitializeDefault(s) ==
    LET n == IF s = <<>> THEN 1 ELSE (Len(s) + Size - 1) \div Size
    IN [i \in 1 .. n |->
          InitLine(SubSeq(s, (i - 1) * Size + 1,
                          IF i = n THEN Len(s) ELSE i * Size), i, i < n)]

InitInput ==
    /\ \E s \in Defaults :
         LET lines == InitializeDefault(s)
         IN ed = [lines |-> lines, cur |-> Len(lines), insert |-> FALSE,
                  num |-> Len(lines), fault |-> "no"]
    /\ keys = 0

(***************************************************************************)
(* Lines and buffers.                                                      *)
(***************************************************************************)
Line(e) == e.lines[e.cur]
HasNext(e) == e.cur < Len(e.lines)
IsWrapped(line) == line.len > Size

Trouble(e, what) == [e EXCEPT !.fault = what]

\* strncpy(dst + d, src + s, n), where the two do not overlap upwards.
Strncpy(dst, d, src, s, n) ==
    [i \in Cells |->
       IF i < d \/ i >= d + n THEN dst[i]
       ELSE IF \E k \in s .. s + i - d : k > Size + 1 \/ src[k] = Nul THEN Nul
       ELSE src[s + i - d]]

\* strncpy(b + p + 1, b + p, n): the cells move up, or the first is repeated.
ShiftUp(b, p, n) ==
    {[buf |-> Strncpy(b, p + 1, b, p, n), bad |-> FALSE]}
    \union IF n < 2 THEN {}
           ELSE {[buf |-> [i \in Cells |-> IF i > p /\ i <= p + n THEN b[p] ELSE b[i]],
                  bad |-> TRUE]}

\* A new line after line i; the numbers of those below go up.
AddLine(e, i, line) ==
    [e EXCEPT !.num = @ + 1,
              !.lines = SubSeq(@, 1, i) \o <<line>>
                \o [j \in 1 .. Len(@) - i |-> [@[i + j] EXCEPT !.no = @ + 1]]]

\* Line i is unlinked and freed; the numbers of those below go down.
DropLine(e, i) ==
    [e EXCEPT !.num = @ - 1,
              !.lines = SubSeq(@, 1, i - 1)
                \o [j \in 1 .. Len(@) - i |-> [@[i + j] EXCEPT !.no = @ - 1]]]

Wrapped(line) == [line EXCEPT !.buf[Size] = Wrap, !.buf[Size + 1] = Nul,
                              !.len = Size + 1]

(***************************************************************************)
(* Typing.                                                                 *)
(***************************************************************************)
\* The cursor is in a full line and the next one is empty: it goes there.
GoOn(e) ==
    IF Line(e).bp >= Size /\ HasNext(e) /\ e.lines[e.cur + 1].len = 0
    THEN LET w == [e EXCEPT !.lines[e.cur] = [Wrapped(@) EXCEPT !.buf[Size + 1] =
                                                e.lines[e.cur].buf[Size + 1]],
                            !.cur = @ + 1, !.lines[e.cur + 1].bp = 0]
         IN IF IsWrapped(Line(e)) THEN w ELSE Trouble(w, "joined twice")
    ELSE e

OverwriteBuffer(e, ch) ==
    LET line == Line(e)
        next == [AllocInputline(line.no + 1) EXCEPT !.len = 1, !.bp = 1,
                                                    !.buf[0] = ch]
        typed == [line EXCEPT !.buf[line.bp] = ch, !.bp = @ + 1,
                              !.len = IF line.bp + 1 > @ THEN @ + 1 ELSE @]
    IN {GoOn(IF line.bp = Size
             THEN IF line.len <= Size
                  THEN [AddLine(e, e.cur, next) EXCEPT
                          !.lines[e.cur] = Wrapped(line), !.cur = @ + 1]
                  ELSE Trouble([e EXCEPT !.cur = @ + 1,
                                 !.lines[e.cur + 1] = [@ EXCEPT !.len = 1, !.bp = 1,
                                                                !.buf[0] = ch]],
                               "truncated")
             ELSE [e EXCEPT !.lines[e.cur] = typed])}

\* move_sym_forward(line i, 1): one cell is made free at the front of line i.
RECURSIVE MoveSymForward(_, _)
MoveSymForward(e, i) ==
    LET line == e.lines[i]
        first == [line EXCEPT !.buf = Strncpy(@, 1, @, 0, 1)]
    IN IF i > Len(e.lines) THEN {Trouble(e, "null")}
       ELSE IF IsWrapped(line)
       THEN {IF f.fault # "no" THEN f
             ELSE Trouble([f EXCEPT
                    !.lines[i] = [f.lines[i] EXCEPT
                                    !.buf = Strncpy(@, 1, @, 0, 1)],
                    !.lines[i + 1].buf = Strncpy(@, 0, f.lines[i].buf, Size - 1,
                                                 f.lines[i].len)], "third line")
               : f \in MoveSymForward(e, i + 1)}
       ELSE IF line.len + 1 > Size
       THEN LET new == [AllocInputline(line.no) EXCEPT
                          !.len = 1, !.buf[0] = line.buf[Size - 1]]
            IN {Trouble([AddLine(e, i, new) EXCEPT
                           !.lines[i] = [Wrapped(first) EXCEPT !.no = @ + 1]],
                        "third line")}
       ELSE {LET w == [e EXCEPT !.lines[i] = [line EXCEPT !.buf = s.buf, !.len = @ + 1]]
             IN IF s.bad THEN Trouble(w, "overlap") ELSE w
               : s \in ShiftUp(line.buf, 0, line.len)}

\* Mutant: the character that a full line pushes out is lost.
InsertIntoFull_Lost(e, ch) ==
    LET line == Line(e)
        next == [AllocInputline(line.no + 1) EXCEPT !.len = 1, !.buf[0] = ch]
    IN {[AddLine(e, e.cur, next) EXCEPT
           !.lines[e.cur] = Wrapped(line), !.lines[e.cur + 1].bp = 1, !.cur = @ + 1]}

\* A full line: its last character, or the new one, starts a new line.
InsertIntoFull(e, ch) ==
    LET line == Line(e)
        next == [AllocInputline(line.no + 1) EXCEPT !.len = 1]
        leads == line.bp >= Size
        lead == [AddLine(e, e.cur, [next EXCEPT !.bp = 1, !.buf[0] = ch]) EXCEPT
                   !.lines[e.cur] = Wrapped(line), !.cur = @ + 1]
        within(s) ==
          LET put == [line EXCEPT !.buf = [s.buf EXCEPT ![line.bp] = ch],
                                  !.bp = IF @ < Size - 1 THEN @ + 1 ELSE @]
              w == [AddLine(e, e.cur, [next EXCEPT !.buf[0] = line.buf[Size - 1]]) EXCEPT
                      !.lines[e.cur] = Wrapped(put),
                      !.cur = IF line.bp < Size - 1 THEN @ ELSE @ + 1]
          IN IF s.bad THEN Trouble(w, "overlap") ELSE w
    IN IF leads THEN {lead}
       ELSE {within(s) : s \in ShiftUp(line.buf, line.bp, Size - line.bp)}

\* A line that goes on: one character moves to the next one.
InsertIntoWrapped(e, ch) ==
    LET line == Line(e)
        c == e.cur
        put(f, s) ==
          LET w == [f EXCEPT !.lines[c] = [f.lines[c] EXCEPT
                                             !.buf = [s.buf EXCEPT ![line.bp] = ch],
                                             !.bp = @ + 1],
                             !.lines[c + 1].buf[0] = line.buf[Size - 1]]
              u == IF s.bad THEN Trouble(w, "overlap") ELSE w
          IN IF line.bp + 1 >= Size
             THEN [u EXCEPT !.cur = c + 1, !.lines[c + 1].bp = 0] ELSE u
    IN UNION {IF f.fault # "no" THEN {f}
              ELSE IF line.bp >= Size THEN {Trouble(f, "overrun")}
              ELSE {put(f, s) : s \in ShiftUp(line.buf, line.bp, Size - line.bp - 1)}
                : f \in MoveSymForward(e, c + 1)}

InsertBuffer(e, ch) ==
    LET line == Line(e)
    IN IF line.len < Size
       THEN {[e EXCEPT !.lines[e.cur] = [line EXCEPT
                !.buf = [i \in Cells |-> IF i > line.bp /\ i <= line.len + 2
                                         THEN line.buf[i - 1]
                                         ELSE IF i = line.bp THEN ch ELSE line.buf[i]],
                !.len = @ + 1, !.bp = @ + 1]]}
       ELSE IF IsWrapped(line) THEN InsertIntoWrapped(e, ch)
       ELSE InsertIntoFull(e, ch)

AddBufferToSym(e, ch) == IF e.insert THEN InsertBuffer(e, ch) ELSE OverwriteBuffer(e, ch)

(***************************************************************************)
(* Moving the cursor.  A key that cannot move it beeps.                    *)
(***************************************************************************)
\* The first and the last line of the row that line i is in.
FirstOf(e, i) == CHOOSE f \in 1 .. i :
                   /\ \A j \in f .. i - 1 : IsWrapped(e.lines[j])
                   /\ f = 1 \/ ~IsWrapped(e.lines[f - 1])
LastOf(e, i) == CHOOSE l \in i .. Len(e.lines) :
                   /\ \A j \in i .. l - 1 : IsWrapped(e.lines[j])
                   /\ l = Len(e.lines) \/ ~IsWrapped(e.lines[l])

At(e, i, bp) == [e EXCEPT !.cur = i, !.lines[i].bp = bp]

MoveCursorHome(e) == At(e, FirstOf(e, e.cur), 0)
MoveCursorEnd(e) == LET l == LastOf(e, e.cur) IN At(e, l, e.lines[l].len)

MoveCursorForward(e) ==
    LET line == Line(e)
        goes == line.bp = line.len \/ line.bp = Size - 1
        w == At(e, e.cur + 1, 0)
    IN IF goes /\ ~HasNext(e) THEN e
       ELSE IF goes
       THEN IF line.len = Size /\ line.bp = Size - 1 THEN Trouble(w, "full line") ELSE w
       ELSE LET u == At(e, e.cur, line.bp + 1)
            IN IF line.bp >= Size THEN Trouble(u, "full line") ELSE u

MoveCursorDown(e) ==
    LET l == LastOf(e, e.cur)
        n == e.lines[l + 1].len
    IN IF l = Len(e.lines) THEN e
       ELSE At(e, l + 1, IF Line(e).bp > n THEN n ELSE Line(e).bp)

MoveCursorUp(e) ==
    LET f == FirstOf(e, e.cur)
        n == e.lines[f - 1].len
    IN IF f = 1 THEN e
       ELSE At(e, f - 1, IF Line(e).bp > n THEN n ELSE Line(e).bp)

MoveCursorBackward(e) ==
    LET up == e.lines[e.cur - 1]
    IN IF Line(e).bp > 0 THEN At(e, e.cur, Line(e).bp - 1)
       ELSE IF e.cur = 1 THEN e
       ELSE At(e, e.cur - 1, IF IsWrapped(up) THEN Size - 1 ELSE up.len)

(***************************************************************************)
(* Deleting.                                                               *)
(***************************************************************************)
\* move_rest_back(line i): the row from line i on loses its first character,
\* which is returned.
MoveRestBack(e, i) ==
    LET m == LastOf(e, i)
        last == e.lines[m]
        n == last.len - 1
        back(j) == [Strncpy(e.lines[j].buf, 0, e.lines[j].buf, 1, Size - 1)
                      EXCEPT ![Size - 1] = e.lines[j + 1].buf[0]]
        short == [last EXCEPT !.buf = [Strncpy(@, 0, @, 1, n) EXCEPT ![n] = Nul],
                              !.len = n]
        moved == [e EXCEPT !.lines = [j \in DOMAIN @ |->
                    IF j \in i .. m - 1 THEN [@[j] EXCEPT !.buf = back(j)]
                    ELSE IF j = m THEN short ELSE @[j]]]
    IN IF i > Len(e.lines) \/ e.lines[i].len = 0 THEN [e |-> e, c |-> Nul]
       ELSE [c |-> e.lines[i].buf[0],
             e |-> IF last.len = 0
                   THEN Trouble([moved EXCEPT !.lines[m] = last], "spurious row")
                   ELSE IF last.len > 1 THEN moved
                   ELSE Trouble([moved EXCEPT !.lines[m - 1].len = Size,
                                              !.lines[m - 1].buf[Size] = Nul],
                                "spurious row")]

\* The characters of the row from line i on, up to the first null.
Collect(e, i) ==
    LET m == LastOf(e, i)
        all == [k \in 1 .. (m - i) * Size + e.lines[m].len |->
                  e.lines[i + (k - 1) \div Size].buf[(k - 1) % Size]]
        nuls == {k \in DOMAIN all : all[k] = Nul}
    IN IF nuls = {} THEN all
       ELSE SubSeq(all, 1, (CHOOSE k \in nuls : \A j \in nuls : k <= j) - 1)

\* The characters str are put into the lines from i on, a line at a time.
Pour(e, i, str) ==
    LET k == (Len(str) + Size - 1) \div Size
        chunk(j) == SubSeq(str, (j - i) * Size + 1,
                           IF j < i + k - 1 THEN (j - i + 1) * Size ELSE Len(str))
        filled(j) ==
          LET s == chunk(j)
              put == [e.lines[j] EXCEPT !.buf = [c \in Cells |->
                        IF c < Len(s) THEN s[c + 1] ELSE @[c]]]
          IN IF j < i + k - 1 THEN Wrapped(put)
             ELSE [put EXCEPT !.len = Len(s), !.buf[Len(s)] = Nul]
    IN IF i + k - 1 > Len(e.lines) THEN Trouble(e, "null")
       ELSE [e EXCEPT !.lines = [j \in DOMAIN @ |->
               IF j \in i .. i + k - 1 THEN filled(j) ELSE @[j]]]

\* back_over_eoln and delete_eoln: the row of line i + 1 is put at the end of
\* line i, and its last line goes if it is not needed.
JoinRows(e, i) ==
    LET str == Collect(e, i + 1)
        last == LastOf(e, i + 1)
        into == e.lines[i]
        room == Size - into.len
        take == IF Len(str) < room THEN Len(str) ELSE room
        put == [into EXCEPT !.buf = [c \in Cells |->
                  IF c >= into.len /\ c < into.len + take
                  THEN str[c - into.len + 1] ELSE @[c]]]
        emptied == [e EXCEPT !.lines[last].len = 0]
        poured == IF take = Len(str)
                  THEN [emptied EXCEPT !.lines[i] = [put EXCEPT !.len = @ + take]]
                  ELSE Pour([emptied EXCEPT !.lines[i] = Wrapped(put)], i + 1,
                            SubSeq(str, take + 1, Len(str)))
    IN IF poured.lines[last].len = 0 THEN DropLine(poured, last) ELSE poured

\* The character before the cursor's place bp goes, and c comes in at the end.
CloseUp(e, c) ==
    LET line == Line(e)
        bp == line.bp
        n == (IF IsWrapped(line) THEN Size ELSE line.len) - bp
        b == Strncpy(line.buf, bp - 1, line.buf, bp, n)
        closed ==
          IF ~IsWrapped(line)
          THEN IF c = Nul THEN [line EXCEPT !.len = @ - 1,
                                            !.buf = [b EXCEPT ![line.len - 1] = Nul]]
               ELSE [line EXCEPT !.buf = [b EXCEPT ![line.len - 1] = c]]
          ELSE IF c = Nul
               THEN [line EXCEPT !.len = Size - 1, !.buf = [b EXCEPT ![Size - 1] = Nul]]
               ELSE IF e.lines[e.cur + 1].len = 0
               THEN [line EXCEPT !.len = Size,
                                 !.buf = [b EXCEPT ![Size] = Nul, ![Size - 1] = c]]
               ELSE [line EXCEPT !.buf = [b EXCEPT ![Size - 1] = c]]
        w == [e EXCEPT !.lines[e.cur] = [closed EXCEPT !.bp = bp - 1]]
    IN IF IsWrapped(line) /\ ~IsWrapped(closed) THEN Trouble(w, "spurious row") ELSE w

\* The cursor is in front of a line that goes on from the one above.
BackOverWrap(e, c) ==
    LET line == Line(e)
        n == IF IsWrapped(line) THEN Size - 2 ELSE line.len - 1
        b == Strncpy(line.buf, 0, line.buf, 1, n)
        end == IF IsWrapped(line) THEN Size - 1 ELSE line.len - 1
        short == [line EXCEPT !.buf = [b EXCEPT ![end] = c],
                              !.len = IF c = Nul THEN @ - 1 ELSE @]
        w == IF line.len > 1 THEN [e EXCEPT !.lines[e.cur] = short]
             ELSE IF line.len = 1
             THEN Trouble([e EXCEPT !.lines[e.cur] = short], "spurious row")
             ELSE Trouble(DropLine(e, e.cur), "freed")
    IN CloseUp([w EXCEPT !.cur = @ - 1, !.lines[e.cur - 1].bp = Size],
               IF line.len > 0 THEN line.buf[0] ELSE Nul)

\* move_back_one_char, which moves the rest of a row first.
BackOverChar(e) ==
    LET line == Line(e)
        rest == MoveRestBack(e, e.cur + 1)
        r == IF IsWrapped(line) THEN rest ELSE [e |-> e, c |-> Nul]
        up == r.e.lines[e.cur - 1]
        rested == IF IsWrapped(line) THEN Trouble(r.e, "rest moved") ELSE r.e
    IN IF line.bp > 0 THEN CloseUp(r.e, r.c)
       ELSE IF e.cur = 1 THEN rested
       ELSE IF ~IsWrapped(up)
       THEN JoinRows(At(rested, e.cur - 1, up.len), e.cur - 1)
       ELSE BackOverWrap(r.e, r.c)

\* delete_one_char.
DeleteChar(e) ==
    LET r == IF IsWrapped(Line(e)) THEN MoveRestBack(e, e.cur + 1)
             ELSE [e |-> e, c |-> Nul]
        line == Line(r.e)
        up == [r.e EXCEPT !.lines[e.cur].bp = line.bp + 1]
    IN IF r.c = Nul /\ line.len = line.bp
       THEN IF HasNext(r.e) THEN JoinRows(r.e, e.cur) ELSE r.e
       ELSE IF line.bp >= Size THEN Trouble(r.e, "full line")
       ELSE CloseUp(up, r.c)

\* delete_rest_of_line.
DeleteRestOfLine(e) ==
    LET line == Line(e)
        m == IF IsWrapped(line) THEN LastOf(e, e.cur) ELSE e.cur
        k == m - e.cur
        cut == [line EXCEPT !.len = line.bp,
                            !.buf = [i \in Cells |-> IF i >= line.bp THEN Nul ELSE @[i]]]
    IN IF IsWrapped(line) /\ (k = 0 \/ IsWrapped(e.lines[m])) THEN Trouble(e, "null")
       ELSE IF k = 0 /\ line.bp = line.len
       THEN IF line.len = 0 /\ HasNext(e)
            THEN [DropLine(e, e.cur) EXCEPT !.lines[e.cur].bp = 0] ELSE e
       ELSE [e EXCEPT !.num = @ - k,
                      !.lines = SubSeq(@, 1, e.cur - 1) \o <<cut>>
                        \o [j \in 1 .. Len(@) - m |-> [@[m + j] EXCEPT !.no = @ - k]]]

(***************************************************************************)
(* Return.                                                                 *)
(***************************************************************************)
\* tough_enter: the rest of a row that goes on moves down.
ToughEnter(e) ==
    LET c == e.cur
        m == LastOf(e, c + 1)
        head == [k \in 1 .. Size - Line(e).bp |-> Line(e).buf[Line(e).bp + k - 1]]
        str == head \o Collect(e, c + 1)
        room == (m - c) * Size
        cut == [e EXCEPT !.lines[c] = [@ EXCEPT !.len = Line(e).bp,
                                                    !.buf[Line(e).bp] = Nul]]
        rest == SubSeq(str, room + 1, Len(str))
        new == [InitLine(rest, e.lines[m].no + 1, FALSE) EXCEPT !.bp = 0]
        grown == [cut EXCEPT !.num = @ + 1,
                             !.lines = SubSeq(@, 1, m) \o <<new>> \o SubSeq(@, m + 1, Len(@))]
        full == [Pour(grown, c + 1, SubSeq(str, 1, room)) EXCEPT
                   !.lines[m] = Wrapped(@)]
    IN [(IF Len(str) > room
         THEN IF m < Len(e.lines) THEN Trouble(full, "numbers") ELSE full
         ELSE Pour(cut, c + 1, str))
          EXCEPT !.cur = c + 1, !.lines[c + 1].bp = 0]

EnterNewLine(e) ==
    LET line == Line(e)
        bp == line.bp
        tail == [k \in 1 .. line.len - bp |-> line.buf[bp + k - 1]]
        new == AllocInputline(line.no)
        below == [AllocInputline(line.no + 1) EXCEPT
                    !.buf = Strncpy(@, 0, line.buf, bp, line.len - bp),
                    !.len = line.len - bp]
    IN IF bp = 0
       THEN IF e.cur = 1 THEN Trouble(e, "null")
            ELSE IF IsWrapped(e.lines[e.cur - 1])
            THEN [e EXCEPT !.lines[e.cur - 1] = [@ EXCEPT !.buf[Size] = Nul, !.len = Size]]
            ELSE [AddLine(e, e.cur - 1, new) EXCEPT !.cur = @ + 1]
       ELSE IF bp = Size /\ IsWrapped(line)
       THEN Trouble([e EXCEPT !.lines = SubSeq(@, 1, e.cur)
                                          \o <<AllocInputline(line.no + 1)>>,
                              !.cur = @ + 1, !.num = @ + 1], "lost rows")
       ELSE IF IsWrapped(line) THEN ToughEnter(e)
       ELSE [AddLine(e, e.cur, below) EXCEPT
               !.lines[e.cur] = [@ EXCEPT !.len = bp, !.buf[bp] = Nul], !.cur = @ + 1]

(***************************************************************************)
(* dialog: a key in the area that has the focus.                           *)
(***************************************************************************)
Key(results) ==
    /\ keys < MaxKeys /\ ed.fault = "no"
    /\ keys' = keys + 1
    /\ ed' \in {e \in results : Len(e.lines) <= MaxLines}

TypeChar == \E ch \in Chars : Key(AddBufferToSym(ed, ch))
ReturnKey == Key({EnterNewLine(ed)})
EscapeKey == Key({DeleteRestOfLine(MoveCursorHome(ed))})
UpKey == Key({MoveCursorUp(ed)})
DownKey == Key({MoveCursorDown(ed)})
DeleteKey == Key({DeleteChar(ed)})
BackSpaceKey == Key({BackOverChar(ed)})
LeftKey == Key({MoveCursorBackward(ed)})
RightKey == Key({MoveCursorForward(ed)})
InsertKey == Key({[ed EXCEPT !.insert = ~@]})
HomeKey == Key({MoveCursorHome(ed)})
EndKey == Key({MoveCursorEnd(ed)})
ControlEndKey == Key({DeleteRestOfLine(ed)})

NextInput ==
    \/ TypeChar \/ ReturnKey \/ EscapeKey \/ UpKey \/ DownKey \/ DeleteKey
    \/ BackSpaceKey \/ LeftKey \/ RightKey \/ InsertKey \/ HomeKey \/ EndKey
    \/ ControlEndKey

InputSpec == InitInput /\ [][NextInput]_inputVars
-----------------------------------------------------------------------------
\* The rows of the text: lines that go on are put together.
Starts(lines) == {i \in DOMAIN lines : i = 1 \/ ~IsWrapped(lines[i - 1])}
RowText(lines, i) == Collect([lines |-> lines], i)
TextRows ==
    LET starts == Starts(ed.lines)
        start(r) == CHOOSE i \in starts : Cardinality({j \in starts : j <= i}) = r
    IN [r \in 1 .. Cardinality(starts) |-> RowText(ed.lines, start(r))]
CursorRow == Cardinality({i \in Starts(ed.lines) : i <= ed.cur})
CursorCol == Size * (ed.cur - FirstOf(ed, ed.cur)) + Line(ed).bp

Promise == INSTANCE FlatText WITH
    text <- TextRows, row <- CursorRow, col <- CursorCol,
    broken <- ed.fault # "no"

\* Lines are numbered from 1, as the drawing of the area takes for granted.
NumbersAreRanks ==
    ed.fault = "no" =>
      ed.num = Len(ed.lines) /\ \A i \in DOMAIN ed.lines : ed.lines[i].no = i

\* As long as every row is shorter than the area is wide, only one key goes
\* wrong: Return at the very start, which looks at the line above.
ShortRowsAreSafe ==
    [][ed'.fault # "no" =>
         \/ \E line \in Range(ed.lines) \union Range(ed'.lines) : line.len >= Size
         \/ ed.cur = 1 /\ Line(ed).bp = 0 /\ EnterNewLine(ed) = ed']_inputVars

\* Every key does to the text what FlatText says, whatever the lines it is
\* kept in, up to the first trouble that the code runs into; and it runs into
\* none but one while the rows are short.
KeysKeepPromise ==
    /\ Promise!FlatSpec
    /\ ShortRowsAreSafe
    /\ [](InputTypeOK /\ NumbersAreRanks)
=============================================================================
