------------------------------ MODULE HyperForm ------------------------------
(***************************************************************************)
(* What a HyperDoc page lets its reader do besides following links: input  *)
(* areas and the focus (input.c, keyin.c), buttons that pick (input.c),    *)
(* paste areas whose text is replaced by a patch (parse-paste.c), and the  *)
(* scrolling of the page (scrollbar.c, display.c).                         *)
(*                                                                         *)
(* The text of the page is a sequence of nodes.  Only the nodes that these *)
(* operations look at are there.  A node has an identity, id, which stands *)
(* for its address; an input area has the identity of its node, and 0 is   *)
(* NULL.  A behaviour is followed up to the first trouble.                 *)
(***************************************************************************)
EXTENDS Integers, Sequences, FiniteSets, SequencesExt, FiniteSetsExt

CONSTANTS
    Pages,        \* texts a page may have when it is loaded
    PasteNames,   \* names of paste areas
    Patches,      \* the text that is pasted into each of them
    Rooms,        \* heights a window may be given for the scrolling region
    LineHeight,   \* of the font
    PixHeight,    \* of a picture: the bitmap of a button that picks
    Margin,       \* scroll_top_margin
    ArrowHeight,  \* of the two arrows of the scroll bar
    MaxPastes     \* paste buttons that are pressed

Kinds == {"input", "radio", "simple", "paste", "endpaste", "button"}
OfPastes == {"paste", "endpaste", "button"}
Texts == Pages \union {Patches[p] : p \in PasteNames}
Names == UNION {{text[i].n : i \in DOMAIN text} : text \in Texts}

\* Two ends of an area, with no other end of an area of that name between them.
Area(text, i, j) ==
    /\ text[i].k = "paste" /\ text[j].k = "endpaste" /\ text[j].n = text[i].n
    /\ \A m \in i + 1 .. j - 1 :
         text[m].n = text[i].n => text[m].k \notin {"paste", "endpaste"}

\* parse_paste reads all of an area, from one end to the other.
TextIsNested(text) ==
    \A i \in DOMAIN text :
        /\ text[i].k = "paste" => \E j \in i + 1 .. Len(text) : Area(text, i, j)
        /\ text[i].k = "endpaste" => \E j \in 1 .. i - 1 : Area(text, j, i)

\* A line is higher than a point.
ASSUME FormAssumption ==
    /\ LineHeight \in Nat \ {0, 1} /\ PixHeight \in Nat /\ Margin \in Nat
    /\ ArrowHeight \in Nat /\ MaxPastes \in Nat
    /\ Rooms \subseteq Nat /\ DOMAIN Patches = PasteNames
    /\ \A text \in Texts :
         /\ text \in Seq([k : Kinds, n : Names, on : BOOLEAN])
         /\ \A i \in DOMAIN text : text[i].k \in OfPastes => text[i].n \in PasteNames
         /\ TextIsNested(text)

VARIABLES form, scroll, pastes
formVars == <<form, scroll, pastes>>

FormTroubles == {"lost items", "out of order", "freed item", "freed node",
                 "freed paste", "not freed", "null", "goodbye"}

\* id is 0 when there is no paste node of the name.
PasteNode == [id : Nat, haspaste : BOOLEAN, hasbutton : BOOLEAN,
              item : Nat, begin : Nat, end : Nat]
AllocPasteNode(id) == [id |-> id, haspaste |-> FALSE, hasbutton |-> FALSE,
                       item |-> 0, begin |-> 0, end |-> 0]
NoPaste == AllocPasteNode(0)

HyperFormTypeOK ==
    /\ \A i \in DOMAIN form.text : form.text[i].k \in Kinds
    /\ form.list \in Seq(Nat \ {0}) /\ form.cur \in Nat
    /\ form.paste \in [PasteNames -> PasteNode]
    /\ \A i \in DOMAIN form.boxes : form.boxes[i].picked \in BOOLEAN
    /\ form.fault \in FormTroubles \union {"no"}
    /\ scroll.off \in Int /\ scroll.sh \in Nat /\ scroll.room \in Rooms
    /\ scroll.bar \in Int /\ scroll.scroller \in Int /\ scroll.top \in Int
    /\ scroll.smeared \in BOOLEAN
    /\ pastes \in 0 .. MaxPastes

FormTrouble(f, what) == [f EXCEPT !.fault = IF @ = "no" THEN what ELSE @]
Ids(text) == {text[i].id : i \in DOMAIN text}
Place(seq, x) == CHOOSE i \in DOMAIN seq : seq[i] = x
PlaceOf(text, id) == CHOOSE i \in DOMAIN text : text[i].id = id

(***************************************************************************)
(* Parsing: what a node of the text adds to the page.                      *)
(***************************************************************************)
CurrentItem(list) == IF list = <<>> THEN 0 ELSE Last(list)

\* insert_item: at the end of the list; the first one gets the focus.
InsertItem(f, id) ==
    [f EXCEPT !.list = Append(@, id), !.cur = IF @ = 0 THEN id ELSE @]

CheckOthers(boxes) == \E i \in DOMAIN boxes : boxes[i].k = "radio" /\ boxes[i].picked

\* add_box_to_rb_list: only one of a group can be picked.
AddBoxToRbList(boxes, nd) ==
    <<[k |-> "radio", n |-> nd.n, picked |-> nd.on /\ ~CheckOthers(boxes)]>> \o boxes

\* A name that is not unique ends the parse.
NameTaken(boxes, nd) == \E i \in DOMAIN boxes : boxes[i].n = nd.n

ParseSimplebox(f, nd) ==
    IF NameTaken(f.boxes, nd) THEN FormTrouble(f, "goodbye")
    ELSE [f EXCEPT !.boxes = <<[k |-> "simple", n |-> nd.n, picked |-> nd.on]>> \o @]

ParseRadiobox(f, nd) ==
    IF NameTaken(f.boxes, nd) THEN FormTrouble(f, "goodbye")
    ELSE [f EXCEPT !.boxes = AddBoxToRbList(@, nd)]

\* The paste node of a name, made if there is none.
Found(pn, id) == IF pn.id = 0 THEN AllocPasteNode(id) ELSE pn

\* parse_paste: the area remembers the last input area before it.
ParsePaste(f, nd) ==
    [f EXCEPT !.paste[nd.n] = [Found(@, nd.id) EXCEPT
                                 !.haspaste = TRUE, !.item = CurrentItem(f.list),
                                 !.begin = nd.id]]

\* Mutant: the paste node of the area is not looked for.
ParsePastebutton_NotFound(f, nd) ==
    [f EXCEPT !.paste[nd.n] = [Found(@, nd.id) EXCEPT !.hasbutton = TRUE],
              !.links = @ \union {<<nd.id, nd.id>>}]

\* parse_pastebutton: the button keeps the address of the paste node.
ParsePastebutton(f, nd) ==
    LET pn == Found(f.paste[nd.n], nd.id)
    IN [f EXCEPT !.paste[nd.n] = [pn EXCEPT !.hasbutton = TRUE],
                 !.links = @ \union {<<nd.id, pn.id>>}]

ParseHyperDoc(f, nd) ==
    IF f.fault # "no" THEN f
    ELSE CASE nd.k = "input" -> InsertItem(f, nd.id)
           [] nd.k = "radio" -> ParseRadiobox(f, nd)
           [] nd.k = "simple" -> ParseSimplebox(f, nd)
           [] nd.k = "paste" -> ParsePaste(f, nd)
           [] nd.k = "endpaste" -> [f EXCEPT !.paste[nd.n].end = nd.id]
           [] nd.k = "button" -> ParsePastebutton(f, nd)

\* New nodes for a text that is read.
Fresh(f, text) ==
    [i \in DOMAIN text |-> [k |-> text[i].k, n |-> text[i].n, on |-> text[i].on,
                            id |-> f.fresh + i]]

\* The page after the first m of the nodes.
Parsed(f, nodes) ==
    LET page[m \in 0 .. Len(nodes)] ==
            IF m = 0 THEN [f EXCEPT !.fresh = @ + Len(nodes)]
            ELSE ParseHyperDoc(page[m - 1], nodes[m])
    IN page[Len(nodes)]

\* alloc_page and parse_page.
LoadedPage(text, fresh) ==
    LET f == [text |-> <<>>, list |-> <<>>, cur |-> 0, boxes |-> <<>>,
              paste |-> [p \in PasteNames |-> NoPaste], links |-> {},
              fresh |-> fresh, fault |-> "no"]
        nodes == Fresh(f, text)
    IN [Parsed(f, nodes) EXCEPT !.text = nodes]

(***************************************************************************)
(* Scrolling.  The offset is how far the text is moved: 0 or less.  Heights *)
(* count points; divisions are those of C.                                 *)
(***************************************************************************)
CRem(a, b) == IF a >= 0 THEN a % b ELSE -((-a) % b)

\* compute_scrolling_extent, of what the text is made of here.
Height(text) ==
    LineHeight
      + LineHeight * Cardinality({i \in DOMAIN text : text[i].k \in {"input", "button"}})
      + PixHeight * Cardinality({i \in DOMAIN text : text[i].k \in {"radio", "simple"}})

ScrollerHeight(bar, sh, h) == 1 + 2 * Margin + (bar * sh) \div h

CalculateScrollBarMeasures(s, h) ==
    LET sh == s.room - (s.room % LineHeight)
        bar == s.room - 2 * ArrowHeight
        off == IF -s.off > h - sh THEN -(h - sh) ELSE s.off
    IN IF sh >= h THEN [s EXCEPT !.sh = sh, !.off = 0]
       ELSE [s EXCEPT !.sh = sh, !.off = off, !.bar = bar + 2 * Margin,
                      !.scroller = ScrollerHeight(bar, sh, h),
                      !.top = ((bar + 2 * Margin) * (-off)) \div h]

\* A window that has no room for the arrows does not show the region.
TooSmall(s) == IF 2 * ArrowHeight + 5 > s.sh THEN [s EXCEPT !.sh = 1] ELSE s

\* show_page: the window is cleared and all of the page drawn.
ShowPage(s, h) == [TooSmall(CalculateScrollBarMeasures(s, h)) EXCEPT !.smeared = FALSE]

\* paste_page: what is above the patch stays on the screen, if it can.
PastePage(s, h) ==
    LET t == CalculateScrollBarMeasures(s, h)
    IN [TooSmall(t) EXCEPT !.smeared = s.smeared /\ t.off = s.off]

\* scroll_page and moveScroller.
ScrollPage(s, h) == [s EXCEPT !.top = (s.bar * (-s.off)) \div h]

Cleared(s) == [s EXCEPT !.smeared = FALSE]

\* The region is moved by a line on the screen, whatever the offset did.
ScrollUp(s, h) ==
    LET off == IF s.off + LineHeight > 0 THEN 0 ELSE s.off + LineHeight
    IN IF s.off = 0 THEN s
       ELSE ScrollPage([s EXCEPT !.off = off,
                                 !.smeared = @ \/ off # s.off + LineHeight], h)

AtBottom(s, h) == -s.off >= h - s.sh

ScrollDown(s, h) ==
    IF AtBottom(s, h) THEN s ELSE ScrollPage([s EXCEPT !.off = @ - LineHeight], h)

\* ch: a height in whole lines.
Ch(h) == IF h % LineHeight = 0 THEN h ELSE h - (h % LineHeight) + LineHeight

ScrollUpPage(s, h) ==
    LET off == s.off + Ch(s.sh) - LineHeight
    IN IF s.off = 0 THEN s
       ELSE ScrollPage(Cleared([s EXCEPT !.off = IF off > 0 THEN 0 ELSE off]), h)

ScrollDownPage(s, h) ==
    LET off == s.off - (Ch(s.sh) - LineHeight)
    IN IF AtBottom(s, h) THEN s
       ELSE ScrollPage(Cleared([s EXCEPT !.off = IF -off > h - s.sh THEN -(h - s.sh)
                                                 ELSE off]), h)

ScrollToFirstPage(s, h) ==
    IF s.off = 0 THEN s ELSE ScrollPage(Cleared([s EXCEPT !.off = 0]), h)

\* A click in the bar at y.
ScrollScroller(s, h, y) ==
    LET high == y < 0
        low == ~high /\ y + s.scroller > s.bar
        bottom == -(h - s.sh)
        at == -((h * y) \div s.bar)
        off == IF high THEN 0
               ELSE IF low THEN bottom - CRem(bottom, LineHeight)
               ELSE at - CRem(at, LineHeight)
    IN IF \/ high /\ s.top = 0
          \/ low /\ s.bar - s.scroller = s.top
          \/ ~low /\ ~high /\ s.off = off
       THEN s
       ELSE ScrollPage(Cleared([s EXCEPT !.off = off]), h)

(***************************************************************************)
(* Pasting.                                                                *)
(***************************************************************************)
\* The list without an item, if it is there.
Without(list, id) ==
    IF id \in ToSet(list) THEN RemoveAt(list, Place(list, id)) ELSE list

\* Mutant: the focus stays where it was.
DeleteItem_KeepsFocus(f, id) == [f EXCEPT !.list = Without(@, id)]

DeleteItem(f, id) ==
    LET list == Without(f.list, id)
    IN [f EXCEPT !.list = list,
                 !.cur = IF @ = id THEN (IF list = <<>> THEN 0 ELSE list[1]) ELSE @]

FreePastearea(f, n) ==
    IF f.paste[n].id = 0 THEN f
    ELSE [f EXCEPT !.paste[n] = IF @.hasbutton THEN [@ EXCEPT !.haspaste = FALSE]
                                ELSE NoPaste]

FreePastebutton(f, n) ==
    IF f.paste[n].id = 0 THEN FormTrouble(f, "null")
    ELSE [f EXCEPT !.paste[n] = IF @.haspaste THEN [@ EXCEPT !.hasbutton = FALSE]
                                ELSE NoPaste]

\* free_node, which does not know radio boxes and stops at the first.
FreeNode(f, nd) ==
    IF f.fault # "no" THEN f
    ELSE CASE nd.k = "input" -> DeleteItem(f, nd.id)
           [] nd.k = "paste" -> FreePastearea(f, nd.n)
           [] nd.k = "button" -> FreePastebutton(f, nd.n)
           [] OTHER -> f

Freed(f, old) ==
    LET radios == {i \in DOMAIN old : old[i].k = "radio"}
        stop == IF radios = {} THEN Len(old) ELSE Min(radios) - 1
        page[m \in 0 .. Len(old)] == IF m = 0 THEN f ELSE FreeNode(page[m - 1], old[m])
    IN IF \E i \in stop + 1 .. Len(old) : old[i].k \in {"input", "paste", "button"}
       THEN FormTrouble(page[stop], "not freed") ELSE page[stop]

\* init_paste_item: the list is cut after its first item, and what comes after
\* `item' is saved.
InitPasteItem(f, item) ==
    LET i == Place(f.list, item)
        save == SubSeq(f.list, i + 1, Len(f.list))
    IN IF item = 0
       THEN [f |-> IF f.list = <<>> THEN f
                   ELSE FormTrouble([f EXCEPT !.list = <<>>, !.cur = 0], "lost items"),
             save |-> <<>>]
       ELSE IF item \notin ToSet(f.list) THEN [f |-> FormTrouble(f, "freed item"), save |-> <<>>]
       ELSE [f |-> LET cut == [f EXCEPT !.list = SubSeq(@, 1, 1)]
                   IN IF i = 1 THEN cut ELSE FormTrouble(cut, "lost items"),
             save |-> save]

RepasteItem(f, save) ==
    IF save = <<>> THEN f
    ELSE [f EXCEPT !.list = @ \o save,
                   !.cur = IF f.list = <<>> THEN save[1] ELSE @]

\* parse_patch.  The new items come after the item that the area remembers,
\* whatever is between the two on the page by now.
ParsePatch(f, p) ==
    LET pn == f.paste[p]
        b == PlaceOf(f.text, pn.begin)
        e == PlaceOf(f.text, pn.end)
        reset == [f EXCEPT !.paste[p] = [@ EXCEPT !.haspaste = FALSE, !.item = 0,
                                                  !.begin = 0, !.end = 0]]
        freed == Freed(reset, SubSeq(f.text, b + 1, e))
        cut == InitPasteItem(freed, pn.item)
        nodes == Fresh(f, Patches[p])
        parsed == RepasteItem(Parsed(cut.f, nodes), cut.save)
        before == {f.text[i].id : i \in {j \in 1 .. b - 1 : f.text[j].k = "input"}}
        misplaced == /\ pn.item # 0 /\ before # {pn.item}
                     /\ \E i \in DOMAIN nodes : nodes[i].k = "input"
        placed == IF misplaced THEN FormTrouble(parsed, "out of order") ELSE parsed
    IN IF {pn.begin, pn.end} \subseteq Ids(f.text)
       THEN [placed EXCEPT !.text = SubSeq(f.text, 1, b - 1) \o nodes
                                      \o SubSeq(f.text, e + 1, Len(f.text))]
       ELSE FormTrouble(f, "freed node")
-----------------------------------------------------------------------------
FormInit ==
    /\ \E text \in Pages, room \in Rooms :
         /\ form = LoadedPage(text, 0)
         /\ scroll = ShowPage([off |-> 0, room |-> room, sh |-> 0, bar |-> 0,
                               scroller |-> 0, top |-> 0, smeared |-> FALSE],
                              Height(form.text))
    /\ pastes = 0

Fine == form.fault = "no"
H == Height(form.text)

\* paste_button: an area that has been pasted beeps; so does one whose patch
\* is not known or whose server does not answer.
PasteButton(nd) ==
    /\ Fine /\ pastes < MaxPastes
    /\ nd.k = "button"
    /\ pastes' = pastes + 1
    /\ LET pn == form.paste[nd.n]
       IN IF <<nd.id, pn.id>> \notin form.links
          THEN form' = FormTrouble(form, "freed paste") /\ UNCHANGED scroll
          ELSE /\ pn.begin # 0 /\ pn.end # 0
               /\ form' = ParsePatch(form, nd.n)
               /\ scroll' = PastePage(scroll, Height(form'.text))

PasteFails == Fine /\ pastes < MaxPastes /\ pastes' = pastes + 1 /\ UNCHANGED <<form, scroll>>

Focus(id) == Fine /\ form' = [form EXCEPT !.cur = id] /\ UNCHANGED <<scroll, pastes>>

\* A click in an input area.
ChangeInputFocus ==
    \E i \in DOMAIN form.text : form.text[i].k = "input" /\ Focus(form.text[i].id)

NextInputFocus ==
    LET i == Place(form.list, form.cur)
    IN form.cur # 0 /\ Focus(form.list[(i % Len(form.list)) + 1])

PrevInputFocus ==
    LET i == Place(form.list, form.cur)
    IN form.cur # 0 /\ Focus(IF i = 1 THEN Last(form.list) ELSE form.list[i - 1])

\* clear_rbs clears the first that is picked.
ToggleRadioBox(boxes, i) ==
    LET on == {j \in DOMAIN boxes : boxes[j].k = "radio" /\ boxes[j].picked}
    IN IF boxes[i].picked THEN boxes
       ELSE [j \in DOMAIN boxes |->
               IF j = i THEN [boxes[j] EXCEPT !.picked = TRUE]
               ELSE IF on # {} /\ j = Min(on) THEN [boxes[j] EXCEPT !.picked = FALSE]
               ELSE boxes[j]]

Toggled(boxes, i) ==
    IF boxes[i].k = "radio" THEN ToggleRadioBox(boxes, i)
    ELSE [boxes EXCEPT ![i].picked = ~@]

ToggleBox ==
    /\ Fine
    /\ \E i \in DOMAIN form.boxes :
         form' = [form EXCEPT !.boxes = Toggled(form.boxes, i)]
    /\ UNCHANGED <<scroll, pastes>>

Scrolls(s) == Fine /\ scroll' = s /\ UNCHANGED <<form, pastes>>

\* The keys that scroll edit instead when an input area has the focus.
UpLine == Scrolls(ScrollUp(scroll, H))
DownLine == Scrolls(ScrollDown(scroll, H))
UpPage == Scrolls(ScrollUpPage(scroll, H))
DownPage == Scrolls(ScrollDownPage(scroll, H))
FirstPage == form.cur = 0 /\ Scrolls(ScrollToFirstPage(scroll, H))
ClickBar ==
    /\ H > scroll.sh /\ scroll.sh > 1
    /\ \E y \in -1 .. scroll.bar : Scrolls(ScrollScroller(scroll, H, y))

\* The window gets another size, or is uncovered.
Resize == \E room \in Rooms : Scrolls(ShowPage([scroll EXCEPT !.room = room], H))
Expose == Scrolls(TooSmall(scroll))

\* Shift F5: the page is read again from its file.
Reload ==
    /\ Fine
    /\ \E text \in Pages : form' = LoadedPage(text, 0)
    /\ scroll' = ShowPage([scroll EXCEPT !.off = 0], Height(form'.text))
    /\ UNCHANGED pastes

FormNext ==
    \/ \E nd \in ToSet(form.text) : PasteButton(nd)
    \/ PasteFails \/ ChangeInputFocus \/ NextInputFocus \/ PrevInputFocus
    \/ ToggleBox \/ UpLine \/ DownLine \/ UpPage \/ DownPage \/ FirstPage
    \/ ClickBar \/ Resize \/ Expose \/ Reload

FormSpec == FormInit /\ [][FormNext]_formVars
-----------------------------------------------------------------------------
Inputs(text) == {i \in DOMAIN text : text[i].k = "input"}

\* The items stand in the list as their input areas in the text.
InPageOrder(list, text) ==
    \A i, j \in DOMAIN list : i < j => PlaceOf(text, list[i]) < PlaceOf(text, list[j])

\* The list that the keys and the commands go through holds the input areas
\* of the page, in the order of the page, whatever has been pasted.
ListIsThePage ==
    Fine => /\ ToSet(form.list) = {form.text[i].id : i \in Inputs(form.text)}
            /\ InPageOrder(form.list, form.text)

\* There is a focus if there is an input area, and it is one of the page.
FocusIsOnThePage ==
    Fine => IF form.list = <<>> THEN form.cur = 0 ELSE form.cur \in ToSet(form.list)

\* At most one button of a group is picked, whatever pages and patches ask for.
OneOfAGroup ==
    Cardinality({i \in DOMAIN form.boxes :
                   form.boxes[i].k = "radio" /\ form.boxes[i].picked}) <= 1

\* A page is never scrolled above its start, nor more than a part of a line
\* below its end.
ScrolledWithin ==
    LET room == H - scroll.sh
    IN /\ scroll.off <= 0
       /\ Fine => -scroll.off < (IF room > 0 THEN room ELSE 0) + LineHeight

\* What is moved on the screen is what the offset moved, in a page of text.
TextIsNotSmeared == scroll.smeared => form.boxes # <<>>

\* Links, keys, scrolling and pasting agree on what is on the page.
FormAgrees ==
    /\ HyperFormTypeOK
    /\ ListIsThePage /\ FocusIsOnThePage /\ OneOfAGroup
    /\ ScrolledWithin /\ TextIsNotSmeared

\* The names of boxes do not collide.
BoxesApart(text) ==
    \A i, j \in DOMAIN text : {text[i].k, text[j].k} \subseteq {"radio", "simple"}
                                /\ text[i].n = text[j].n => i = j

\* Of the name p the page has one button and one area, the area that the paste
\* node remembers, and the node knows that there is a button.
OwnButton(p) ==
    LET at(k) == {i \in DOMAIN form.text : form.text[i].k = k /\ form.text[i].n = p}
        pn == form.paste[p]
    IN /\ \E i, j, m \in DOMAIN form.text :
            /\ at("paste") = {i} /\ at("endpaste") = {j} /\ at("button") = {m}
            /\ form.text[i].id = pn.begin /\ form.text[j].id = pn.end
       /\ pn.id # 0 /\ pn.hasbutton

\* A plain page: no boxes, areas that have their own buttons, and no input area
\* but one before all of the areas; each area remembers that one.  The boxes of
\* a patch have names of their own.
PlainPage ==
    /\ form.boxes = <<>> /\ Len(form.list) <= 1
    /\ \A i, j \in DOMAIN form.text :
         form.text[i].k = "input" /\ form.text[j].k = "paste" => i < j
    /\ \A i \in DOMAIN form.text : form.text[i].k \in OfPastes =>
         LET p == form.text[i].n
         IN /\ OwnButton(p) /\ form.paste[p].item = CurrentItem(form.list)
            /\ BoxesApart(Patches[p])

\* A paste frees and loses nothing it should keep in a plain page: it finds the
\* paste node that the button kept the address of, frees each node once and
\* only then reads the patch.
PlainPastesAreSafe ==
    [][PlainPage /\ pastes' # pastes => form'.fault = "no"]_formVars
=============================================================================
