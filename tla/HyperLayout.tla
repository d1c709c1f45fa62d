----------------------------- MODULE HyperLayout -----------------------------
(***************************************************************************)
(* How a HyperDoc page gets on the screen (src/src/hyper/extent1.c,        *)
(* extent2.c, show-types.c, group.c, item.c, display.c): one pass over the *)
(* lists of a page gives every node its place, looking ahead to see what   *)
(* fits in a line, and another pass draws.  Each pass keeps the font in a  *)
(* stack of groups of its own.                                             *)
(*                                                                         *)
(* A line is one unit high, a space one wide, and a word as wide as its    *)
(* font says.  A node is the place of its name in the list.                *)
(***************************************************************************)
EXTENDS HyperParse

CONSTANTS RightMargin,   \* the width of the window without its margin
          IndentBy,      \* the number in \indent{...}
          Layouts        \* times a page is laid out

ASSUME LayoutAssumption == {RightMargin, IndentBy, Layouts} \subseteq Nat \ {0}

VARIABLE view

layoutVars == <<scan, p, view>>

LeftMargin == 1
ItemSpace == 2
ParagraphSpace == 3
CharWidth == [rm |-> 2, bf |-> 3, em |-> 2, tt |-> 3, act |-> 2, ax |-> 2]
IsWord(n) == n \in {"Word", "Glued", "Num"}
Spaced(n) == n # "Glued"

(***************************************************************************)
(* The lists, as they are linked.  An Ifcond goes on with one of its       *)
(* branches; each of them goes on with the Endif.                          *)
(***************************************************************************)
First(l, i, n) == CHOOSE j \in i..Len(l) : l[j] = n /\ \A k \in i..(j - 1) : l[k] # n
EndifOf(l, i) == First(l, i, "Endif")
ElseOf(l, i) ==
    IF \E j \in i..EndifOf(l, i) : l[j] = "Else" THEN First(l, i, "Else") + 1 ELSE EndifOf(l, i)

\* node->next; NULL is 0.
Succ(l, to, i) ==
    CASE l[i] = "Ifcond" -> IF to[i] THEN i + 1 ELSE ElseOf(l, i)
      [] l[i] = "Fi" -> EndifOf(l, i)
      [] OTHER -> IF i = Len(l) THEN 0 ELSE i + 1

RECURSIVE Path(_, _, _)
Path(l, to, i) == IF i = 0 THEN <<>> ELSE <<i>> \o Path(l, to, Succ(l, to, i))

\* What is walked over from i to the first node of the type, or to the end.
Before(l, path, ender) ==
    LET at == {k \in DOMAIN path : l[path[k]] = ender}
    IN IF at = {} THEN path
       ELSE SubSeq(path, 1, (CHOOSE k \in at : \A j \in at : k <= j) - 1)

(***************************************************************************)
(* Groups.                                                                 *)
(***************************************************************************)
PushGroupStack(g) == Append(g, Last(g))
PopGroupStack(g) == IF Len(g) = 1 THEN g ELSE Front(g)
InitTopGroup == <<[font |-> "rm", center |-> FALSE]>>

\* bf_top_group and its like: at the bottom a group is made for the font.
TopGroup(g, font) ==
    LET h == IF Len(g) = 1 THEN PushGroupStack(g) ELSE g
    IN [h EXCEPT ![Len(h)].font = font]

PushFont(g, font) == Append(g, [Last(g) EXCEPT !.font = font])
Font(g) == Last(g).font

\* \em goes back to roman where something else than roman is in use.
Emphasized(g) == TopGroup(g, IF Font(g) = "rm" THEN "em" ELSE "rm")

(***************************************************************************)
(* extent2.c: looking ahead.                                               *)
(***************************************************************************)
\* text_width, node by node: the width so far is in m.ahead, and the groups are
\* the ones of the pass.
WidthOf(m, n) ==
    LET wider(k) == [m EXCEPT !.ahead = @ + k] IN
    CASE IsWord(n) -> wider(CharWidth[Font(m.groups)] + IF Spaced(n) THEN 1 ELSE 0)
      [] n = "Verbatim" -> wider(CharWidth[Font(m.groups)] + 1)
      [] n \in {"Macro", "Pound"} -> wider(IF m.inLine THEN 1 ELSE 0)
      [] n = "Box" -> wider(2)
      [] n = "Table" -> [m EXCEPT !.ahead = RightMargin - LeftMargin]
      [] n \in {"Link", "Description"} -> [m EXCEPT !.groups = PushFont(@, "act")]
      [] n = "Spadcommand" -> [m EXCEPT !.groups = PushFont(@, "ax")]
      [] n \in {"Group", "Tableitem"} -> [wider(IF n = "Group" THEN 1 ELSE 0)
                                           EXCEPT !.groups = PushGroupStack(@)]
      [] n \in {"Endbutton", "Endspadcommand", "Enddescription", "Endgroup"} ->
           [m EXCEPT !.groups = PopGroupStack(@)]
      [] n = "BoldFace" -> [wider(1) EXCEPT !.groups = TopGroup(@, "bf")]
      [] n = "Emphasize" -> [wider(1) EXCEPT !.groups = Emphasized(@)]
      [] n = "It" -> [wider(1) EXCEPT !.groups = TopGroup(@, "em")]
      [] n = "Tt" -> [wider(1) EXCEPT !.groups = TopGroup(@, "rm")]
      [] OTHER -> m

TextWidth(l, m, i, ender) ==
    FoldLeft(LAMBDA a, j : WidthOf(a, l[j]), [m EXCEPT !.ahead = 0],
             Before(l, Path(l, m.to, i), ender))

\* total_width: what follows without a space.
RECURSIVE TotalWidth(_, _, _)
TotalWidth(l, m, i) ==
    CASE i = 0 -> 0
      [] i # 0 /\ l[i] = "Noop" -> TotalWidth(l, m, Succ(l, m.to, i))
      [] i # 0 /\ l[i] = "Glued" -> CharWidth[Font(m.groups)] + TotalWidth(l, m, Succ(l, m.to, i))
      [] OTHER -> 0

Placed(n) == IsWord(n) \/ n \in {"Verbatim", "Box", "Link", "Spadcommand"}

\* x_value: the first place on the way, wherever it is.
XValue(l, m, path) ==
    LET places == SelectSeq(path, LAMBDA j : Placed(l[j]))
    IN IF places = <<>> THEN 0 ELSE m.at[Head(places)].x

\* The nodes are moved to the right, the ones without a place stay.
MoveRight(m, over, by) ==
    IF by < 0 THEN m
    ELSE [m EXCEPT !.at = [j \in DOMAIN m.at |-> IF j \in over /\ m.at[j].x > 0
                                                 THEN [m.at[j] EXCEPT !.x = @ + by] ELSE m.at[j]]]

\* center_nodes, from path's first node to end: a walk that does not meet its end
\* runs off the list.
CenterNodes(l, m, path, end) ==
    IF end # 0 /\ end \notin ToSet(path) THEN [m EXCEPT !.crash = "center"]
    ELSE MoveRight(m, {path[k] : k \in {n \in DOMAIN path : \A h \in 1..n : path[h] # end}},
                   ((RightMargin + m.indent) \div 2) - ((m.x + XValue(l, m, path)) \div 2))

\* start_newline; node is the first of the new line.
StartNewline(l, m, node) ==
    [(IF m.line # 0 /\ Last(m.groups).center THEN CenterNodes(l, m, Path(l, m.to, m.line), node)
      ELSE m)
       EXCEPT !.line = IF m.line = 0 THEN 0 ELSE node, !.y = @ + 1, !.inLine = FALSE]

\* if (gInLine) start_newline.
EndLine(l, m, node) == IF m.inLine THEN StartNewline(l, m, node) ELSE m

\* if (gInLine) { start_newline; text_x = indent; }
FreshLine(l, m, node) ==
    IF m.inLine THEN [StartNewline(l, m, node) EXCEPT !.x = m.indent] ELSE m

Space(m) == IF m.inLine THEN [m EXCEPT !.x = @ + 1] ELSE m
Place(m, i) ==
    [m EXCEPT !.at[i] = [x |-> m.x, y |-> m.y, font |-> Font(m.groups), first |-> ~m.inLine]]

(***************************************************************************)
(* extent1.c: a node is given its place.  The result says where the pass   *)
(* goes on (jump) and whether the call comes back (done).                  *)
(***************************************************************************)
\* The word is put where the line is now, on the next one if it does not fit.
PutWord(l, m, i, fits) ==
    LET room(q) == IF Spaced(l[i]) THEN Space(q) ELSE q
        broken(q) == IF fits \/ ~m.inLine THEN q
                     ELSE [StartNewline(l, q, i) EXCEPT !.x = m.indent + IF m.inSpad THEN 1 ELSE 0]
    IN [Place(room(broken(m)), i) EXCEPT !.x = @ + CharWidth[Font(m.groups)], !.inLine = TRUE]

\* Mutant: the space in front of the word is forgotten.
WordExtent_Spaceless(l, m, i) ==
    PutWord(l, m, i, m.x + CharWidth[Font(m.groups)]
                       + TotalWidth(l, m, Succ(l, m.to, i)) <= RightMargin)

\* compute_word_extent.
WordExtent(l, m, i) ==
    PutWord(l, m, i, m.x + CharWidth[Font(m.groups)] + (IF m.inLine /\ Spaced(l[i]) THEN 1 ELSE 0)
                       + TotalWidth(l, m, Succ(l, m.to, i)) <= RightMargin)

\* compute_verbatim_extent: the line is broken after it.
VerbatimExtent(m, i) == [Place(m, i) EXCEPT !.inLine = TRUE]

\* compute_bf_extent, compute_em_extent, compute_it_extent, compute_rm_extent.
FontExtent(m, n) ==
    LET q == Space(m) IN
    CASE n = "BoldFace" -> [q EXCEPT !.groups = TopGroup(@, "bf")]
      [] n = "Emphasize" -> [q EXCEPT !.groups = TopGroup(@, IF Font(@) = "em" THEN "rm" ELSE "em")]
      [] n = "It" -> q
      [] n = "Tt" -> [q EXCEPT !.groups = TopGroup(@, "rm")]

\* compute_center_extent.
CenterExtent(l, m, i) ==
    [EndLine(l, m, i) EXCEPT !.groups = Append(@, [Last(@) EXCEPT !.center = TRUE]),
                             !.x = m.indent]

EndcenterExtent(l, m, i) ==
    [StartNewline(l, m, Succ(l, m.to, i)) EXCEPT !.groups = PopGroupStack(@), !.x = m.indent]

\* What is as wide as text_width says goes to a line of its own where it does not fit.
Fit(l, m, i) == IF m.x + m.ahead > RightMargin THEN FreshLine(l, m, i) ELSE m

\* compute_button_extent: the space is left twice.
ButtonExtent(l, m, i) ==
    LET label(q) == TextWidth(l, q, Succ(l, m.to, i), "Endbutton")
    IN [Place(Fit(l, Space(label([Space(m) EXCEPT !.groups = PushFont(@, "act")])), i), i)
          EXCEPT !.link = i]

\* endbutton_extent: a label of several lines ends its line.  max_x walks over
\* the label too, in the group that goes away.
EndButton(l, m, i, below) ==
    [(IF below THEN FreshLine(l, m, i) ELSE m) EXCEPT !.groups = PopGroupStack(@), !.link = 0]

EndbuttonExtent(l, m, i) ==
    LET bottom == IF m.inLine THEN m.y ELSE m.y - 1
        below == bottom > m.at[m.link].y
    IN IF m.link = 0 THEN [m EXCEPT !.crash = "link"]
       ELSE EndButton(l, [TextWidth(l, m, Succ(l, m.to, m.link), "Endbutton")
                            EXCEPT !.at[m.link].y = IF below THEN bottom ELSE m.y], i, below)

\* compute_spadcommand_extent.
SpadcommandExtent(l, m, i) ==
    LET command == [Space(m) EXCEPT !.groups = PushFont(@, "ax"), !.inSpad = TRUE]
    IN [Place(Fit(l, TextWidth(l, command, Succ(l, m.to, i), "Endspadcommand"), i), i)
          EXCEPT !.spad = i]

\* end_spadcommand_extent.
EndSpadcommandExtent(l, m, i) ==
    LET over(q) == IF m.y > m.at[m.spad].y THEN FreshLine(l, q, i) ELSE q
    IN IF m.spad = 0 THEN [m EXCEPT !.crash = "spad"]
       ELSE [over(TextWidth(l, m, Succ(l, m.to, m.spad), "Endspadcommand"))
               EXCEPT !.groups = PopGroupStack(@), !.inSpad = FALSE, !.spad = 0]

\* A box ends the line where it does not fit, whatever is in the line.
FitBox(l, m, i, edges) ==
    IF m.x + m.ahead + edges > RightMargin
    THEN [StartNewline(l, m, i) EXCEPT !.x = m.indent] ELSE m

\* compute_box_extent.
BoxExtent(l, m, i) ==
    [Place(FitBox(l, TextWidth(l, Space(m), Succ(l, m.to, i), "Endbox"), i, 2), i)
       EXCEPT !.x = @ + 1, !.inLine = TRUE]

\* compute_mbox_extent: no node has the type that it looks for the width up to.
MboxExtent(l, m, i) ==
    FitBox(l, [TextWidth(l, m, Succ(l, m.to, i), "Endmbox") EXCEPT !.x = @ + 1], i, 0)

(***************************************************************************)
(* Items.                                                                  *)
(***************************************************************************)
\* push_item_stack.
PushItemStack(m) ==
    [m EXCEPT !.items = Append(@, [indent |-> m.indent, itemIndent |-> m.itemIndent,
                                   inItem |-> m.inItem])]

\* pop_item_stack: reads what clear_item_stack has given back, if it comes to that.
PopItemStack(m) ==
    IF m.items = <<>> THEN m
    ELSE LET top == Last(m.items)
         IN [m EXCEPT !.items = Front(@), !.indent = top.indent,
                      !.itemIndent = top.itemIndent, !.inItem = top.inItem,
                      !.crash = IF m.freed >= Len(m.items) THEN "items" ELSE @]

\* clear_item_stack: the stack is given back, and still there.
ClearItemStack(m) ==
    [m EXCEPT !.freed = Len(m.items), !.crash = IF m.freed > 0 THEN "items" ELSE @]

\* compute_begin_items_extent; the optional argument is one word, and the mark
\* at its end pops a group that nothing has pushed.
BeginItemsExtent(l, m, i) ==
    LET r == [PushItemStack([EndLine(l, m, i) EXCEPT !.x = m.indent])
                EXCEPT !.inItem = @ + 1, !.itemIndent = m.indent, !.inLine = FALSE,
                       !.indent = m.indent + IF l[i] = "Beginitems" THEN ItemSpace
                                             ELSE CharWidth[Font(PopGroupStack(m.groups))] + 1]
    IN IF l[i] = "Beginitems" THEN r
       ELSE [r EXCEPT !.groups = PopGroupStack(@), !.x = m.x]

EndItemsExtent(l, m, i) ==
    LET indented(q) == [q EXCEPT !.x = q.indent]
    IN indented(EndLine(l, PopItemStack(m), i))

\* compute_item_extent.
ItemExtent(l, m, i) == [EndLine(l, m, i) EXCEPT !.x = m.itemIndent]

ParExtent(l, m, i) ==
    EndLine(l, [m EXCEPT !.x = m.indent + IF m.inItem > 0 THEN 0 ELSE ParagraphSpace], i)

IndentExtent(m) ==
    LET q == [m EXCEPT !.indent = LeftMargin + IndentBy * CharWidth[Font(m.groups)]]
    IN IF m.inLine THEN q ELSE [q EXCEPT !.x = q.indent]

(***************************************************************************)
(* Conditionals and tables lay out what they enclose with a pass of its    *)
(* own.                                                                    *)
(***************************************************************************)
RECURSIVE Compute(_, _, _)

Later(a, b) == a.y > b.y \/ (a.y = b.y /\ a.x >= b.x)

\* Mutant: where the branch ends that is shown.
IfPlace_Shown(then, else, holds) == IF holds THEN then ELSE else

\* What follows begins after the branch that takes more room, shown or not.
IfPlace(then, else, holds) == IF Later(then, else) THEN then ELSE else

\* compute_ifcond_extent: both branches are laid out, one is linked.
LinkBranch(m, i, then, else) ==
    LET place(q) == [x |-> q.x, y |-> q.y, font |-> Font(q.groups), first |-> ~m.inLine]
    IN [else EXCEPT !.x = m.x, !.y = m.y, !.line = m.line,
                    !.at[i] = IfPlace(place(then), place(else), m.holds), !.ifNode = i,
                    !.to[i] = m.holds, !.groups = PopGroupStack(@)]

IfcondExtent(l, m, i) ==
    LET again(q) == Space([q EXCEPT !.x = m.x, !.y = m.y, !.line = m.line])
        else(then) == Compute(l, ElseOf(l, i), again(then))
        ends(then) == LinkBranch(m, i, then, else(then))
    IN Space(ends(Compute(l, i + 1, Space([m EXCEPT !.groups = PushGroupStack(@)]))))

\* endif_extent.
EndifExtent(m) == [m EXCEPT !.x = m.at[m.ifNode].x, !.y = m.at[m.ifNode].y, !.ifNode = 0]

\* The entries of a table: up to the next end of an entry, until the next end
\* of a table.
RECURSIVE Cells(_, _, _)
Cells(l, to, j) ==
    IF l[j] = "Endtable" THEN <<>>
    ELSE LET ends == Before(l, Path(l, to, j), "Endtableitem")
             e == Succ(l, to, Last(ends))
         IN <<[from |-> Succ(l, to, j), last |-> e]>> \o Cells(l, to, Succ(l, to, e))

Abs(a) == IF a < 0 THEN -a ELSE a
Quotient(a, b) == LET q == Abs(a) \div Abs(b) IN IF (a < 0) # (b < 0) THEN -q ELSE q
RoundUp(a, b) == Quotient(a, b) + IF a # b * Quotient(a, b) THEN 1 ELSE 0

\* The rows of a table of n entries.
NumLines(n, cols) == RoundUp(n, cols)

\* The entries fill the columns one after the other.
FillCells(l, m, cells, lines, cols) ==
    LET width == Quotient(RightMargin - m.indent, cols)
        put(q, k) ==
          LET col == (k - 1) \div lines
              row == (k - 1) % lines
          IN IF col >= cols THEN q
             ELSE Compute(l, cells[k].from,
                          [q EXCEPT !.x = m.indent + col * width, !.inLine = FALSE,
                                    !.y = IF cols = 1 /\ row > 0 THEN @ + 1 ELSE m.y + row])
        q == FoldLeft(put, m, [k \in 1..Len(cells) |-> k])
    IN [q EXCEPT !.x = m.indent, !.inLine = FALSE, !.jump = Last(cells).last + 1,
                 !.y = IF cols = 1 THEN @ + 1 ELSE m.y + lines]

\* compute_table_extent: without room to the right of the indent the columns
\* are negative, and no entry is placed.
Rows(l, m, i, cells, lines) ==
    IF lines = 0 \/ RoundUp(Len(cells), lines) = 0 THEN [m EXCEPT !.crash = "divide"]
    ELSE IF lines < 0 THEN [m EXCEPT !.x = m.indent, !.y = @ + lines, !.inLine = FALSE,
                                     !.jump = Succ(l, m.to, i)]
    ELSE FillCells(l, m, cells, lines, RoundUp(Len(cells), lines))

\* The widest entry, by text_width; the groups go on.
Widest(l, m, cells) ==
    FoldLeft(LAMBDA a, c : LET t == TextWidth(l, a, c.from, "Endtableitem")
                           IN [t EXCEPT !.widest = IF t.ahead > @ THEN t.ahead ELSE @],
             [m EXCEPT !.widest = 0], cells)

TableExtent(l, m, i) ==
    LET columns(q) == LET fit == Quotient(RightMargin - m.indent, q.widest + 1)
                      IN IF fit = 0 THEN 1 ELSE fit
        laid(q, cells) == Rows(l, EndLine(l, q, i), i, cells, NumLines(Len(cells), columns(q)))
        measured(cells) == laid(Widest(l, m, cells), cells)
    IN measured(Cells(l, m.to, Succ(l, m.to, i)))

(***************************************************************************)
(* compute_text_extent.                                                    *)
(***************************************************************************)
Extent(l, m, i) ==
    LET n == l[i] IN
    CASE IsWord(n) -> WordExtent(l, m, i)
      [] n = "Verbatim" -> VerbatimExtent(m, i)
      [] n = "Endverbatim" -> FreshLine(l, m, i)
      [] n \in {"BoldFace", "Emphasize", "It", "Tt"} -> FontExtent(m, n)
      [] n \in {"Macro", "Pound"} -> Space(m)
      [] n = "Group" -> Space([m EXCEPT !.groups = PushGroupStack(@)])
      [] n = "Endgroup" -> [m EXCEPT !.groups = PopGroupStack(@)]
      [] n = "Tableitem" -> [m EXCEPT !.groups = PushGroupStack(@)]
      [] n = "Endtableitem" -> [m EXCEPT !.groups = PopGroupStack(@), !.done = TRUE]
      [] n = "Description" -> [m EXCEPT !.groups = TopGroup(@, "bf")]
      [] n = "Enddescription" -> [m EXCEPT !.groups = PopGroupStack(@)]
      [] n = "Center" -> CenterExtent(l, m, i)
      [] n = "Endcenter" -> EndcenterExtent(l, m, i)
      [] n = "Box" -> BoxExtent(l, m, i)
      [] n = "Mbox" -> MboxExtent(l, m, i)
      [] n = "Endbox" -> [m EXCEPT !.x = @ + 1]
      [] n = "Link" -> ButtonExtent(l, m, i)
      [] n = "Endbutton" -> EndbuttonExtent(l, m, i)
      [] n = "Spadcommand" -> SpadcommandExtent(l, m, i)
      [] n = "Endspadcommand" -> EndSpadcommandExtent(l, m, i)
      [] n \in {"Beginitems", "Beginitems["} -> BeginItemsExtent(l, m, i)
      [] n = "Item" -> ItemExtent(l, m, i)
      [] n = "Enditems" -> EndItemsExtent(l, m, i)
      [] n = "Par" -> ParExtent(l, m, i)
      [] n = "Indent" -> IndentExtent(m)
      [] n = "Ifcond" -> IfcondExtent(l, m, i)
      [] n = "Endif" -> IF m.ifNode = 0 THEN [m EXCEPT !.done = TRUE] ELSE EndifExtent(m)
      [] n = "Table" -> TableExtent(l, m, i)
      [] n = "Endscrolling" -> EndLine(l, m, i)
      [] OTHER -> m

Compute(l, i, m) ==
    IF i = 0 \/ m.crash # "" THEN m
    ELSE LET goesOn(q) ==
               IF q.done THEN [q EXCEPT !.done = FALSE]
               ELSE Compute(l, Succ(l, q.to, IF q.jump = 0 THEN i ELSE q.jump), [q EXCEPT !.jump = 0])
         IN goesOn(Extent(l, m, i))

(***************************************************************************)
(* The regions, one after the other.                                       *)
(***************************************************************************)
Unplaced == [x |-> -1, y |-> -1, font |-> "rm", first |-> FALSE]
Regions == <<"Title", "Header", "Footer", "Scrolling">>

\* init_extents: the font of the group on top, whatever is below it.
InitExtents(m) ==
    ClearItemStack([m EXCEPT !.inLine = FALSE, !.inItem = 0, !.inSpad = FALSE,
                             !.itemIndent = 0, !.indent = LeftMargin, !.x = LeftMargin,
                             !.groups[Len(m.groups)].font = "rm"])

Formatter(holds) ==
    [x |-> 0, y |-> 0, line |-> 0, inLine |-> FALSE, indent |-> 0, itemIndent |-> 0,
     inItem |-> 0, items |-> <<>>, freed |-> 0, groups |-> InitTopGroup, link |-> 0,
     spad |-> 0, inSpad |-> FALSE, ifNode |-> 0, holds |-> holds, to |-> <<>>, at |-> <<>>,
     jump |-> 0, ahead |-> 0, widest |-> 0, done |-> FALSE, crash |-> ""]

\* compute_title_extent, compute_header_extent, compute_footer_extent,
\* compute_scrolling_extent.
RegionExtent(l, to, m) ==
    Compute(l, 2, [InitExtents(m) EXCEPT !.y = 0, !.line = 2, !.to = to,
                                         !.at = [i \in DOMAIN l |-> Unplaced]])

\* The first half of show_page.
ComputeExtents(lists, to, holds) ==
    FoldLeft(LAMBDA a, r :
               IF lists[r] = <<>> \/ a.m.crash # "" THEN a
               ELSE LET with(q) == [m |-> q, at |-> [a.at EXCEPT ![r] = q.at],
                                    to |-> [a.to EXCEPT ![r] = q.to]]
                    IN with(RegionExtent(lists[r], to[r], a.m)),
             [m |-> Formatter(holds), to |-> to, at |-> [r \in Lists |-> <<>>]], Regions)

(***************************************************************************)
(* show-types.c.                                                           *)
(***************************************************************************)

\* show_text, node by node.  A link out of sight is not shown, and its end is;
\* the mark at the end of a branch is drawn as a dash without a text.
DrawNode(a, n, i, hidden) ==
    LET to(g) == [a EXCEPT !.groups = g] IN
    CASE a.crash # "" -> a
      [] IsWord(n) -> [a EXCEPT !.drawn[i] = Font(a.groups)]
      [] n = "Fi" -> IF hidden[i] THEN a ELSE [a EXCEPT !.crash = "fi"]
      [] n = "Link" -> IF hidden[i] THEN a ELSE to(PushFont(a.groups, "act"))
      [] n = "Spadcommand" -> to(PushFont(a.groups, "ax"))
      [] n \in {"Group", "Tableitem"} -> to(PushGroupStack(a.groups))
      [] n \in {"BoldFace", "Description"} -> to(TopGroup(a.groups, "bf"))
      [] n = "Emphasize" -> to(Emphasized(a.groups))
      [] n = "It" -> to(TopGroup(a.groups, "em"))
      [] n = "Tt" -> to(TopGroup(a.groups, "tt"))
      [] n \in {"Endspadcommand", "Endtableitem", "Enddescription", "Endbutton", "Endgroup"} ->
           to(PopGroupStack(a.groups))
      [] OTHER -> a

RegionEnds == {"Endheader", "Endscrolling", "Endtitle"}

\* show_text: visible and pix_visible are about the scrolling region, whose
\* first lines are out of sight.
ShowText(r, l, v, off, groups) ==
    LET path == SelectSeq(Path(l, v.to[r], 2), LAMBDA i : l[i] \notin RegionEnds)
        hidden == [i \in DOMAIN l |-> r = "Scrolling" /\ v.at[r][i].y < off]
    IN FoldLeft(LAMBDA a, i : DrawNode(a, l[i], i, hidden),
                [groups |-> groups, drawn |-> [i \in DOMAIN l |-> ""], crash |-> ""], path)

\* The second half of show_page: the groups of one region are there for the next.
Draw(lists, v) ==
    FoldLeft(LAMBDA a, r :
               IF a.crash # "" \/ lists[r] = <<>> THEN a
               ELSE LET s == ShowText(r, lists[r], v, 0, a.groups)
                    IN [groups |-> s.groups, crash |-> s.crash, drawn |-> [a.drawn EXCEPT ![r] = s.drawn]],
             [groups |-> InitTopGroup, drawn |-> [r \in Lists |-> <<>>],
              crash |-> IF lists.Scrolling # <<>> /\ lists.Footer = <<>> THEN "footer" ELSE ""],
             <<"Header", "Footer", "Scrolling">>)

(***************************************************************************)
(* Showing a page, again when the window changes, and scrolling it.        *)
(***************************************************************************)
Linked(lists) == [r \in Lists |-> [i \in DOMAIN lists[r] |-> TRUE]]
Hidden == [status |-> "none", times |-> 0, holds |-> TRUE, off |-> 0, crash |-> "", items |-> 0,
           to |-> <<>>, at |-> <<>>, drawn |-> <<>>, scrolled |-> <<>>]

HasIf == \E r \in Lists : "Ifcond" \in ToSet(p.lists[r])

\* show_page.
ShowPage ==
    /\ p.status = "parsed" /\ view.status # "crash" /\ view.times < Layouts
    /\ \E holds \in IF HasIf THEN BOOLEAN ELSE {TRUE} :
         LET view1(e, d) ==
               [status |-> IF d.crash = "" THEN "shown" ELSE "crash", times |-> view.times + 1,
                holds |-> holds, off |-> 0, crash |-> d.crash, items |-> Len(e.m.items),
                to |-> e.to, at |-> e.at, drawn |-> d.drawn, scrolled |-> <<>>]
             drawn(e) == view1(e, IF e.m.crash # "" THEN [crash |-> e.m.crash, drawn |-> <<>>]
                                  ELSE Draw(p.lists, [at |-> e.at, to |-> e.to]))
         IN view' = drawn(ComputeExtents(p.lists, IF view.times = 0 THEN Linked(p.lists) ELSE view.to,
                                         holds))
    /\ UNCHANGED <<scan, p>>

\* scroll_page.
ScrollPage ==
    /\ view.status = "shown" /\ view.off = 0 /\ p.lists.Scrolling # <<>>
    /\ \E off \in 1..2 :
         LET s == ShowText("Scrolling", p.lists.Scrolling, view, off, InitTopGroup)
         IN view' = [view EXCEPT !.off = off, !.crash = s.crash, !.scrolled = s.drawn]
    /\ UNCHANGED <<scan, p>>

LayoutInit == ParseInit /\ view = Hidden

LayoutNext ==
    \/ ParseNext /\ view' = Hidden
    \/ ShowPage
    \/ ScrollPage

LayoutSpec == LayoutInit /\ [][LayoutNext]_layoutVars

(***************************************************************************)
(* Properties.                                                             *)
(***************************************************************************)
Shown == view.status = "shown"

\* A node of the page that is drawn is inside what it is in by the marks: the
\* marks that are open there, the innermost last.
Marks(l, path, k) ==
    FoldLeft(LAMBDA st, j :
               IF l[j] \in DOMAIN Opener THEN IF st = <<>> THEN st ELSE Front(st)
               ELSE IF \E e \in DOMAIN Opener : l[j] \in Opener[e] THEN Append(st, l[j]) ELSE st,
             <<>>, SubSeq(path, 1, k - 1))

Drawn(r) == Path(p.lists[r], view.to[r], 2)
ShownRegions == {r \in {"Header", "Footer", "Scrolling"} : p.lists[r] # <<>>}
WordsOf(r) == {k \in DOMAIN Drawn(r) : IsWord(p.lists[r][Drawn(r)[k]])}

\* What of the page may bring HyperDoc down when it is shown.
Within(r, n, inside) ==
    \E i \in DOMAIN p.lists[r] :
      p.lists[r][i] = n /\ inside \in ToSet(Marks(p.lists[r], [j \in 1..i |-> j], i))

Count(l, n) == Cardinality({i \in DOMAIN l : l[i] = n})

Unsafe ==
    [footer |-> ~p.ended,
     fi |-> \E r \in {"Header", "Footer"} : "Ifcond" \in ToSet(p.lists[r]),
     link |-> \E r \in Lists : Within(r, "Link", "Link"),
     spad |-> \E r \in Lists : Within(r, "Spadcommand", "Spadcommand"),
     center |-> \E r \in Lists : Within(r, "Center", "Ifcond"),
     divide |-> \E r \in Lists : {"Indent", "Table"} \subseteq ToSet(p.lists[r]),
     items |-> Count(p.lists.Header, "Beginitems") > Count(p.lists.Header, "Enditems")]

\* A page is shown, whatever the condition of an \if becomes.
ShowsSafely == view.crash # "" => Unsafe[view.crash]

\* Fonts and what encloses them.
Fonts == {"BoldFace", "Emphasize", "It", "Tt"}
Has(r, n) == n \in ToSet(p.lists[r])
\* In one of these, without a group between.
Directly(r, n, inside) ==
    \E i \in DOMAIN p.lists[r] :
      /\ p.lists[r][i] = n
      /\ LET marks == SelectSeq(Marks(p.lists[r], [j \in 1..i |-> j], i),
                               LAMBDA o : o \notin {"Macro", "Pound"})
         IN marks # <<>> /\ Last(marks) \in inside

Enclosed(r, n) == \E o \in UNION {Opener[e] : e \in DOMAIN Opener} : Within(r, n, o)

IfOpensLine(r) ==
    \E i \in DOMAIN p.lists[r] : p.lists[r][i] = "Ifcond" /\ view.at[r][i].first

\* No two words of a region are on top of each other, unless there is an \if at
\* the beginning of a line: the branch is shown further to the right than it was
\* measured.
Apart ==
    Shown => \A r \in ShownRegions : IfOpensLine(r) \/ \A j, k \in WordsOf(r) :
      LET a == view.at[r][Drawn(r)[j]]
          b == view.at[r][Drawn(r)[k]]
      IN (j < k /\ a.x > 0 /\ b.x > 0) =>
           a.y # b.y \/ a.x + CharWidth[a.font] <= b.x \/ b.x + CharWidth[b.font] <= a.x

\* Every word that is drawn has been given a place, unless a table has no room to
\* the right of the indent, or is inside another.
AllPlaced ==
    Shown => \A r \in ShownRegions :
      \/ \A k \in WordsOf(r) : view.at[r][Drawn(r)[k]].x > 0
      \/ {"Indent", "Table"} \subseteq ToSet(p.lists[r]) \/ Within(r, "Table", "Table")

\* A word ends within the margin, unless the text is indented beyond it, or a table
\* is centred with the line after it.
MarginKept ==
    Shown => \A r \in ShownRegions : \A k \in WordsOf(r) :
      LET a == view.at[r][Drawn(r)[k]]
      IN \/ a.x + CharWidth[a.font] <= RightMargin
         \/ Has(r, "Indent") \/ Count(p.lists[r], "Beginitems") > 2
         \/ Has(r, "Table") /\ Has(r, "Center")

\* Pages whose words are measured in another font than they are drawn with.
Mismeasured(r) ==
    \/ Has(r, "It") \/ Has(r, "Tt")
    \/ Has(r, "BoldFace") /\ Has(r, "Emphasize")
    \/ Has(r, "Mbox")
    \/ Enclosed(r, "Table") \/ Enclosed(r, "Beginitems[")
    \/ \E f \in Fonts : Directly(r, f, {"Link", "Spadcommand", "Center", "Box"})
    \/ \E f \in Fonts : r # "Header" /\ Has("Header", f)

\* A word is measured in the font it is drawn with.
MeasuredAsDrawn ==
    Shown => \A r \in ShownRegions : Mismeasured(r) \/ \A k \in WordsOf(r) :
      view.at[r][Drawn(r)[k]].font = view.drawn[r][Drawn(r)[k]]

\* Scrolling changes no font, unless a link is inside a group, or follows a font
\* outside one.
ScrollKeepsFonts ==
    (/\ Shown /\ view.off > 0
     /\ ~Enclosed("Scrolling", "Link")
     /\ ~(Has("Scrolling", "Link") /\ \E f \in Fonts : Has("Scrolling", f))
     /\ \A f \in Fonts : ~Has("Header", f) /\ ~Has("Footer", f)) => \A k \in WordsOf("Scrolling") :
      LET i == Drawn("Scrolling")[k]
      IN view.at.Scrolling[i].y >= view.off => view.scrolled[i] = view.drawn.Scrolling[i]

\* A word without a space in front of it is on the line of the word it belongs to,
\* unless that one is the first of its line already.
Unbroken ==
    Shown => \A r \in ShownRegions : \A k \in WordsOf(r) :
      LET l == p.lists[r]
          path == Drawn(r)
          at(n) == view.at[r][path[n]]
          starts == {n \in 1..(k - 1) : /\ l[path[n]] = "Word"
                                        /\ \A h \in (n + 1)..k : l[path[h]] = "Glued"}
      IN \A n \in starts : at(k).y = at(n).y \/ at(n).first

\* A page is shown whole, each word in its place and its font.
ShownWhole ==
    /\ ShowsSafely /\ Apart /\ AllPlaced /\ MarginKept
    /\ MeasuredAsDrawn /\ ScrollKeepsFonts /\ Unbroken

\* What follows an \if stays where it is when the condition changes, unless a
\* branch leaves more behind than words: a font, a centred line, items.
AfterIf(r) ==
    {i \in DOMAIN p.lists[r] : /\ IsWord(p.lists[r][i])
                               /\ \E j \in 1..(i - 1) : p.lists[r][j] = "Endif"
                               /\ \A j \in i..Len(p.lists[r]) : p.lists[r][j] # "Endif"}

AfterIfStays ==
    [][(Shown /\ view'.status = "shown" /\ view'.times > view.times) =>
         \A r \in ShownRegions :
           \/ \E f \in Fonts : Directly(r, f, {"Ifcond"})
           \/ Within(r, "Center", "Ifcond") \/ Within(r, "Beginitems", "Ifcond")
           \/ \A i \in AfterIf(r) :
                view'.at[r][i].x = view.at[r][i].x /\ view'.at[r][i].y = view.at[r][i].y]_layoutVars
=============================================================================
