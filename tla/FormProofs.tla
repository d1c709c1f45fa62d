----------------------------- MODULE FormProofs ------------------------------
(***************************************************************************)
(* Forms agree, for any pages and patches whose paste areas are nested,    *)
(* any sizes of windows and any number of pastes (FormsAgree); and a paste *)
(* into a plain page does no harm (PlainPagesAreSafe).                     *)
(*                                                                         *)
(* FormAgrees is not inductive: that the list of input areas is the page   *)
(* says nothing of what a paste takes out and puts back.  FormInv adds     *)
(* that every node has an id of its own, that no node still to be read     *)
(* has one of them, that the ends which a paste area remembers, where they *)
(* are on the page, are its own and in their order, and that a paste node  *)
(* which knows of a button has one that kept its address.  The proof       *)
(* follows the reader: what nodes add (Parsed), what freeing an area       *)
(* takes away (Freed), the text and the list after the one has replaced    *)
(* the other (Spliced), and then, apart from the text, the measures of     *)
(* scrolling.                                                              *)
(***************************************************************************)
EXTENDS HyperForm, ListLemmas, TLAPS

Node == [k : Kinds, n : Names, on : BOOLEAN, id : Nat \ {0}]
Box == [k : {"radio", "simple"}, n : Names, picked : BOOLEAN]
FormType == [text : Seq(Node), list : Seq(Nat \ {0}), cur : Nat, boxes : Seq(Box),
             paste : [PasteNames -> PasteNode], links : SUBSET (Nat \X Nat), fresh : Nat,
             fault : FormTroubles \union {"no"}]

\* Nodes that a text is read into.
Reading(g, nodes) ==
    /\ nodes \in Seq(Node)
    /\ \A u \in 1 .. Len(nodes) :
         nodes[u].id = g.fresh + u /\ (nodes[u].k \in OfPastes => nodes[u].n \in PasteNames)

(***************************************************************************)
(* What each kind of node adds.                                            *)
(***************************************************************************)
LEMMA TroubleFacts ==
    ASSUME NEW f \in FormType, NEW what \in FormTroubles
    PROVE  LET t == FormTrouble(f, what)
           IN  /\ t \in FormType /\ t.fault # "no"
               /\ t.text = f.text /\ t.list = f.list /\ t.cur = f.cur /\ t.boxes = f.boxes
               /\ t.paste = f.paste /\ t.links = f.links /\ t.fresh = f.fresh
<1> DEFINE fault == IF f.fault = "no" THEN what ELSE f.fault
<1>1. fault \in FormTroubles \union {"no"} /\ fault # "no"
    BY DEF FormType, FormTroubles
<1>2. FormTrouble(f, what) = [f EXCEPT !.fault = fault]
    BY DEF FormTrouble
<1> HIDE DEF fault
<1> QED BY <1>1, <1>2 DEF FormType

LEMMA InsertItemFacts ==
    ASSUME NEW f \in FormType, NEW id \in Nat \ {0}
    PROVE  LET t == InsertItem(f, id)
           IN  /\ t \in FormType /\ t.fault = f.fault
               /\ t.list = Append(f.list, id) /\ t.cur = (IF f.cur = 0 THEN id ELSE f.cur)
               /\ t.text = f.text /\ t.boxes = f.boxes /\ t.paste = f.paste
               /\ t.links = f.links /\ t.fresh = f.fresh
<1> DEFINE list == Append(f.list, id)
           cur == IF f.cur = 0 THEN id ELSE f.cur
<1>1. list \in Seq(Nat \ {0}) /\ cur \in Nat
    BY DEF FormType
<1>2. InsertItem(f, id) = [f EXCEPT !.list = list, !.cur = cur]
    BY DEF InsertItem
<1> HIDE DEF list, cur
<1>3. /\ InsertItem(f, id) \in FormType /\ InsertItem(f, id).fault = f.fault
      /\ InsertItem(f, id).list = list /\ InsertItem(f, id).cur = cur
      /\ InsertItem(f, id).text = f.text /\ InsertItem(f, id).boxes = f.boxes
      /\ InsertItem(f, id).paste = f.paste
      /\ InsertItem(f, id).links = f.links /\ InsertItem(f, id).fresh = f.fresh
    BY <1>1, <1>2 DEF FormType
<1> QED BY <1>3 DEF list, cur

\* At most one box of the group is picked.
OnePicked(boxes) ==
    \A i, j \in DOMAIN boxes :
        /\ boxes[i].k = "radio" /\ boxes[i].picked
        /\ boxes[j].k = "radio" /\ boxes[j].picked
        => i = j

LEMMA InFront ==
    ASSUME NEW boxes \in Seq(Box), NEW b \in Box
    PROVE  LET s == <<b>> \o boxes
           IN  /\ s \in Seq(Box) /\ s # <<>> /\ Len(s) = Len(boxes) + 1 /\ DOMAIN s = 1 .. Len(s)
               /\ s[1] = b /\ \A i \in 2 .. Len(s) : i - 1 \in DOMAIN boxes /\ s[i] = boxes[i - 1]
<1>1. <<b>> \in Seq(Box) /\ Len(<<b>>) = 1 /\ <<b>>[1] = b
    OBVIOUS
<1> DEFINE s == <<b>> \o boxes
           n == Len(boxes)
<1>2. /\ s \in Seq(Box) /\ Len(s) = 1 + n
      /\ \A i \in 1 .. (1 + n) : s[i] = IF i <= 1 THEN <<b>>[i] ELSE boxes[i - 1]
    BY <1>1, ConcatProperties
<1>3. n \in Nat /\ DOMAIN boxes = 1 .. n /\ DOMAIN s = 1 .. Len(s)
    BY <1>2, LenProperties
<1> HIDE DEF s, n
<1>4. s # <<>>
    BY <1>2, <1>3
<1>5. \A i \in 2 .. Len(s) : i - 1 \in DOMAIN boxes /\ s[i] = boxes[i - 1]
    BY <1>2, <1>3
<1>6. s[1] = b
    BY <1>1, <1>2, <1>3
<1> QED BY <1>2, <1>3, <1>4, <1>5, <1>6 DEF s, n

LEMMA BoxFacts ==
    ASSUME NEW f \in FormType, NEW nd \in Node, OnePicked(f.boxes)
    PROVE  \A t \in {ParseSimplebox(f, nd), ParseRadiobox(f, nd)} :
               /\ t \in FormType /\ OnePicked(t.boxes)
               /\ f.boxes # <<>> => t.boxes # <<>>
               /\ t.fault = "no" => t.boxes # <<>>
               /\ t.fault = "no" => f.fault = "no"
               /\ t.text = f.text /\ t.list = f.list /\ t.cur = f.cur
               /\ t.paste = f.paste /\ t.links = f.links /\ t.fresh = f.fresh
<1>1. /\ f.boxes \in Seq(Box) /\ nd.n \in Names /\ nd.on \in BOOLEAN
      /\ "goodbye" \in FormTroubles
    BY DEF FormType, Node, FormTroubles
<1>2. CASE NameTaken(f.boxes, nd)
    <2>1. ParseSimplebox(f, nd) = FormTrouble(f, "goodbye") /\ ParseRadiobox(f, nd) = FormTrouble(f, "goodbye")
        BY <1>2 DEF ParseSimplebox, ParseRadiobox
    <2> DEFINE t == FormTrouble(f, "goodbye")
    <2>2. /\ t \in FormType /\ t.fault # "no"
          /\ t.text = f.text /\ t.list = f.list /\ t.cur = f.cur /\ t.boxes = f.boxes
          /\ t.paste = f.paste /\ t.links = f.links /\ t.fresh = f.fresh
        BY <1>1, TroubleFacts
    <2> QED BY <2>1, <2>2
<1>3. CASE ~NameTaken(f.boxes, nd)
    <2> DEFINE simple == [k |-> "simple", n |-> nd.n, picked |-> nd.on]
               radio == [k |-> "radio", n |-> nd.n, picked |-> nd.on /\ ~CheckOthers(f.boxes)]
    <2>1. simple \in Box /\ simple.k = "simple"
        BY <1>1 DEF Box
    <2>2. radio \in Box /\ (radio.picked => ~CheckOthers(f.boxes))
        BY <1>1 DEF Box
    <2>3. /\ ParseSimplebox(f, nd) = [f EXCEPT !.boxes = <<simple>> \o f.boxes]
          /\ ParseRadiobox(f, nd) = [f EXCEPT !.boxes = <<radio>> \o f.boxes]
        BY <1>3 DEF ParseSimplebox, ParseRadiobox, AddBoxToRbList
    <2> HIDE DEF simple, radio
    <2>4. ASSUME NEW b \in {simple, radio}
          PROVE  LET t == [f EXCEPT !.boxes = <<b>> \o f.boxes]
                 IN  /\ t \in FormType /\ OnePicked(t.boxes)
                     /\ t.boxes # <<>> /\ t.fault = f.fault
                     /\ t.text = f.text /\ t.list = f.list /\ t.cur = f.cur
                     /\ t.paste = f.paste /\ t.links = f.links /\ t.fresh = f.fresh
        <3> DEFINE s == <<b>> \o f.boxes
        <3>1. b \in Box /\ (b.k = "simple" \/ (b.picked => ~CheckOthers(f.boxes)))
            BY <2>1, <2>2
        <3>2. /\ s \in Seq(Box) /\ s # <<>> /\ DOMAIN s = 1 .. Len(s) /\ Len(s) \in Nat
              /\ s[1] = b /\ \A i \in 2 .. Len(s) : i - 1 \in DOMAIN f.boxes /\ s[i] = f.boxes[i - 1]
            BY <1>1, <3>1, InFront
        <3> HIDE DEF s
        <3>3. OnePicked(s)
            <4> SUFFICES ASSUME NEW i \in DOMAIN s, NEW j \in DOMAIN s,
                                s[i].k = "radio", s[i].picked, s[j].k = "radio", s[j].picked
                         PROVE  i = j
                BY DEF OnePicked
            <4>1. (i = 1 \/ i \in 2 .. Len(s)) /\ (j = 1 \/ j \in 2 .. Len(s))
                BY <3>2
            <4>2. ASSUME NEW u \in 2 .. Len(s), s[u].k = "radio", s[u].picked, s[1].k = "radio"
                  PROVE  ~s[1].picked
                <5>1. u - 1 \in DOMAIN f.boxes /\ s[u] = f.boxes[u - 1]
                    BY <3>2
                <5>2. CheckOthers(f.boxes)
                    BY <4>2, <5>1 DEF CheckOthers
                <5> QED BY <3>1, <3>2, <4>2, <5>2
            <4>3. CASE i \in 2 .. Len(s) /\ j \in 2 .. Len(s)
                <5>1. /\ i - 1 \in DOMAIN f.boxes /\ s[i] = f.boxes[i - 1]
                      /\ j - 1 \in DOMAIN f.boxes /\ s[j] = f.boxes[j - 1]
                    BY <3>2, <4>3
                <5>2. i - 1 = j - 1
                    BY <5>1 DEF OnePicked
                <5> QED BY <4>3, <5>2
            <4> QED BY <4>1, <4>2, <4>3
        <3> DEFINE t == [f EXCEPT !.boxes = s]
        <3>4. /\ t \in FormType /\ t.boxes = s /\ t.fault = f.fault
              /\ t.text = f.text /\ t.list = f.list /\ t.cur = f.cur
              /\ t.paste = f.paste /\ t.links = f.links /\ t.fresh = f.fresh
            BY <3>2 DEF FormType
        <3> QED BY <3>2, <3>3, <3>4 DEF s
    <2>5. \A t \in {ParseSimplebox(f, nd), ParseRadiobox(f, nd)} :
               /\ t \in FormType /\ OnePicked(t.boxes)
               /\ t.boxes # <<>> /\ t.fault = f.fault
               /\ t.text = f.text /\ t.list = f.list /\ t.cur = f.cur
               /\ t.paste = f.paste /\ t.links = f.links /\ t.fresh = f.fresh
        <3>1. LET t == ParseSimplebox(f, nd)
              IN  /\ t \in FormType /\ OnePicked(t.boxes)
                  /\ t.boxes # <<>> /\ t.fault = f.fault
                  /\ t.text = f.text /\ t.list = f.list /\ t.cur = f.cur
                  /\ t.paste = f.paste /\ t.links = f.links /\ t.fresh = f.fresh
            BY <2>3, <2>4
        <3>2. LET t == ParseRadiobox(f, nd)
              IN  /\ t \in FormType /\ OnePicked(t.boxes)
                  /\ t.boxes # <<>> /\ t.fault = f.fault
                  /\ t.text = f.text /\ t.list = f.list /\ t.cur = f.cur
                  /\ t.paste = f.paste /\ t.links = f.links /\ t.fresh = f.fresh
            BY <2>3, <2>4
        <3> QED BY <3>1, <3>2
    <2> QED BY <2>5
<1> QED BY <1>2, <1>3

\* One paste node changes, and at most a link is added.
PasteChanges(f, t, p, pn) ==
    /\ t \in FormType /\ t.paste[p] = pn
    /\ \A q \in PasteNames : q # p => t.paste[q] = f.paste[q]
    /\ t.text = f.text /\ t.list = f.list /\ t.cur = f.cur /\ t.boxes = f.boxes
    /\ t.fresh = f.fresh /\ t.fault = f.fault

LEMMA FoundFacts ==
    ASSUME NEW pn \in PasteNode, NEW id \in Nat \ {0}
    PROVE  LET fn == Found(pn, id)
           IN  /\ fn \in PasteNode /\ fn.id # 0
               /\ pn.id # 0 => fn = pn
               /\ fn.begin \in {pn.begin, 0} /\ fn.end \in {pn.end, 0}
               /\ fn.hasbutton => fn = pn
<1>1. CASE pn.id = 0
    <2>1. Found(pn, id) = [id |-> id, haspaste |-> FALSE, hasbutton |-> FALSE,
                           item |-> 0, begin |-> 0, end |-> 0]
        BY <1>1 DEF Found, AllocPasteNode
    <2> QED BY <1>1, <2>1 DEF PasteNode
<1>2. CASE pn.id # 0
    <2>1. Found(pn, id) = pn
        BY <1>2 DEF Found
    <2> QED BY <1>2, <2>1
<1> QED BY <1>1, <1>2

LEMMA ItemFacts ==
    ASSUME NEW list \in Seq(Nat \ {0})
    PROVE  CurrentItem(list) \in Nat
<1>1. CASE list = <<>>
    BY <1>1 DEF CurrentItem
<1>2. CASE list # <<>>
    <2>1. Len(list) \in 1 .. Len(list)
        BY <1>2
    <2> QED BY <1>2, <2>1 DEF CurrentItem, Last
<1> QED BY <1>1, <1>2

LEMMA ParsePasteFacts ==
    ASSUME NEW f \in FormType, NEW nd \in Node, nd.n \in PasteNames
    PROVE  \E pn \in PasteNode :
               /\ PasteChanges(f, ParsePaste(f, nd), nd.n, pn)
               /\ pn.begin = nd.id /\ pn.id # 0
               /\ pn.end \in {f.paste[nd.n].end, 0}
               /\ f.paste[nd.n].id # 0 => pn.end = f.paste[nd.n].end
               /\ ParsePaste(f, nd).links = f.links
               /\ pn.hasbutton => f.paste[nd.n].id = pn.id /\ f.paste[nd.n].hasbutton
<1>1. /\ f.paste[nd.n] \in PasteNode /\ f.list \in Seq(Nat \ {0}) /\ nd.id \in Nat \ {0}
      /\ f.paste \in [PasteNames -> PasteNode]
    BY DEF FormType, Node
<1> DEFINE fn == Found(f.paste[nd.n], nd.id)
           item == CurrentItem(f.list)
           yes == TRUE
           pn == [fn EXCEPT !.haspaste = yes, !.item = item, !.begin = nd.id]
<1>2. /\ fn \in PasteNode /\ fn.id # 0 /\ (f.paste[nd.n].id # 0 => fn = f.paste[nd.n])
      /\ fn.end \in {f.paste[nd.n].end, 0} /\ (fn.hasbutton => fn = f.paste[nd.n])
    BY <1>1, FoundFacts
<1>3. item \in Nat /\ yes \in BOOLEAN
    BY <1>1, ItemFacts
<1>4. ParsePaste(f, nd) = [f EXCEPT !.paste = [f.paste EXCEPT ![nd.n] = pn]]
    BY DEF ParsePaste
<1> HIDE DEF fn, item, yes
<1>5. /\ pn \in PasteNode /\ pn.begin = nd.id /\ pn.id = fn.id /\ pn.end = fn.end
      /\ pn.hasbutton = fn.hasbutton
    BY <1>1, <1>2, <1>3 DEF PasteNode
<1> HIDE DEF pn
<1> DEFINE ps == [f.paste EXCEPT ![nd.n] = pn]
<1>6. ps \in [PasteNames -> PasteNode] /\ ps[nd.n] = pn
      /\ \A q \in PasteNames : q # nd.n => ps[q] = f.paste[q]
    BY <1>1, <1>5
<1> HIDE DEF ps
<1>7. PasteChanges(f, ParsePaste(f, nd), nd.n, pn) /\ ParsePaste(f, nd).links = f.links
    BY <1>4, <1>6 DEF PasteChanges, FormType, ps
<1> QED BY <1>2, <1>5, <1>7

LEMMA ParsePastebuttonFacts ==
    ASSUME NEW f \in FormType, NEW nd \in Node, nd.n \in PasteNames
    PROVE  \E pn \in PasteNode :
               /\ PasteChanges(f, ParsePastebutton(f, nd), nd.n, pn)
               /\ pn.id # 0
               /\ pn.begin \in {f.paste[nd.n].begin, 0} /\ pn.end \in {f.paste[nd.n].end, 0}
               /\ f.paste[nd.n].id # 0 => /\ pn.end = f.paste[nd.n].end
                                          /\ pn.begin = f.paste[nd.n].begin
               /\ ParsePastebutton(f, nd).links = f.links \union {<<nd.id, pn.id>>}
<1>1. /\ f.paste[nd.n] \in PasteNode /\ nd.id \in Nat \ {0}
      /\ f.paste \in [PasteNames -> PasteNode] /\ f.links \in SUBSET (Nat \X Nat)
    BY DEF FormType, Node
<1> DEFINE fn == Found(f.paste[nd.n], nd.id)
           yes == TRUE
           pn == [fn EXCEPT !.hasbutton = yes]
           links == f.links \union {<<nd.id, fn.id>>}
           ps == [f.paste EXCEPT ![nd.n] = pn]
<1>2. /\ fn \in PasteNode /\ fn.id # 0 /\ (f.paste[nd.n].id # 0 => fn = f.paste[nd.n])
      /\ fn.begin \in {f.paste[nd.n].begin, 0} /\ fn.end \in {f.paste[nd.n].end, 0}
    BY <1>1, FoundFacts
<1>3. yes \in BOOLEAN
    OBVIOUS
<1>4. ParsePastebutton(f, nd) = [f EXCEPT !.paste = ps, !.links = links]
    BY DEF ParsePastebutton
<1> HIDE DEF fn, yes
<1>5. pn \in PasteNode /\ pn.id = fn.id /\ pn.end = fn.end /\ pn.begin = fn.begin
    BY <1>2, <1>3 DEF PasteNode
<1>6. links \in SUBSET (Nat \X Nat)
    BY <1>1, <1>2 DEF PasteNode
<1>9. links = f.links \union {<<nd.id, pn.id>>}
    BY <1>5
<1> HIDE DEF pn, links
<1>7. ps \in [PasteNames -> PasteNode] /\ ps[nd.n] = pn
      /\ \A q \in PasteNames : q # nd.n => ps[q] = f.paste[q]
    BY <1>1, <1>5
<1> HIDE DEF ps
<1>8. PasteChanges(f, ParsePastebutton(f, nd), nd.n, pn) /\ ParsePastebutton(f, nd).links = links
    BY <1>4, <1>6, <1>7 DEF PasteChanges, FormType
<1> QED BY <1>2, <1>5, <1>8, <1>9

LEMMA EndpasteFacts ==
    ASSUME NEW f \in FormType, NEW nd \in Node, nd.n \in PasteNames
    PROVE  \E pn \in PasteNode :
               /\ PasteChanges(f, [f EXCEPT !.paste[nd.n].end = nd.id], nd.n, pn)
               /\ pn.id = f.paste[nd.n].id /\ pn.begin = f.paste[nd.n].begin /\ pn.end = nd.id
               /\ [f EXCEPT !.paste[nd.n].end = nd.id].links = f.links
               /\ pn.hasbutton = f.paste[nd.n].hasbutton
<1>1. /\ f.paste[nd.n] \in PasteNode /\ nd.id \in Nat \ {0}
      /\ f.paste \in [PasteNames -> PasteNode]
    BY DEF FormType, Node
<1> DEFINE pn == [f.paste[nd.n] EXCEPT !.end = nd.id]
           ps == [f.paste EXCEPT ![nd.n] = pn]
<1>2. [f EXCEPT !.paste[nd.n].end = nd.id] = [f EXCEPT !.paste = ps]
    OBVIOUS
<1>3. /\ pn \in PasteNode /\ pn.id = f.paste[nd.n].id /\ pn.begin = f.paste[nd.n].begin
      /\ pn.end = nd.id /\ pn.hasbutton = f.paste[nd.n].hasbutton
    BY <1>1 DEF PasteNode
<1> HIDE DEF pn
<1>4. ps \in [PasteNames -> PasteNode] /\ ps[nd.n] = pn
      /\ \A q \in PasteNames : q # nd.n => ps[q] = f.paste[q]
    BY <1>1, <1>3
<1> HIDE DEF ps
<1>5. /\ PasteChanges(f, [f EXCEPT !.paste[nd.n].end = nd.id], nd.n, pn)
      /\ [f EXCEPT !.paste[nd.n].end = nd.id].links = f.links
    BY <1>2, <1>4 DEF PasteChanges, FormType
<1> QED BY <1>3, <1>5

(***************************************************************************)
(* What the first m nodes have added: f is the page that has become of g.  *)
(***************************************************************************)
BoxesParsed(g, nodes, m, f) ==
    /\ OnePicked(f.boxes)
    /\ g.boxes # <<>> => f.boxes # <<>>
    /\ f.fault = "no" =>
         \A u \in 1 .. m : nodes[u].k \in {"radio", "simple"} => f.boxes # <<>>

\* The new items are at the end, in the order of the nodes.
ListParsed(g, nodes, m, f) ==
    /\ Len(f.list) >= Len(g.list)
    /\ \A i \in 1 .. Len(g.list) : f.list[i] = g.list[i]
    /\ \A i \in Len(g.list) + 1 .. Len(f.list) :
         \E u \in 1 .. m : nodes[u].k = "input" /\ f.list[i] = nodes[u].id
    /\ \A i, j \in Len(g.list) + 1 .. Len(f.list) : i < j => f.list[i] < f.list[j]
    /\ \A u \in 1 .. m : nodes[u].k = "input" =>
         \E i \in Len(g.list) + 1 .. Len(f.list) : f.list[i] = nodes[u].id

FocusParsed(g, f) ==
    f.cur = IF g.cur # 0 THEN g.cur
            ELSE IF Len(f.list) = Len(g.list) THEN 0 ELSE f.list[Len(g.list) + 1]

\* x is the identity of the last of the first m nodes that is an end of p, or,
\* when there is none, the old one or none.
LastEnd(nodes, m, kind, p, x, old) ==
    LET ends == {u \in 1 .. m : nodes[u].k = kind /\ nodes[u].n = p}
    IN  \/ ends = {} /\ x \in {old, 0}
        \/ \E u \in ends : x = nodes[u].id /\ \A v \in ends : v <= u

PastesParsed(g, nodes, m, f) ==
    \A p \in PasteNames :
        /\ \A u \in 1 .. m : nodes[u].k = "paste" /\ nodes[u].n = p => f.paste[p].id # 0
        /\ LastEnd(nodes, m, "paste", p, f.paste[p].begin, g.paste[p].begin)
        /\ LastEnd(nodes, m, "endpaste", p, f.paste[p].end, g.paste[p].end)

Parsing(g, nodes, m, f) ==
    /\ f \in FormType /\ f.text = g.text /\ f.fresh = g.fresh + Len(nodes)
    /\ BoxesParsed(g, nodes, m, f)
    /\ f.fault = "no" => /\ g.fault = "no" /\ ListParsed(g, nodes, m, f)
                         /\ FocusParsed(g, f) /\ PastesParsed(g, nodes, m, f)

LEMMA SameEnd ==
    ASSUME NEW nodes, NEW m \in Nat, NEW kind, NEW p, NEW x, NEW y, NEW old,
           LastEnd(nodes, m, kind, p, x, old),
           ~(nodes[m + 1].k = kind /\ nodes[m + 1].n = p),
           y = x \/ (y = 0 /\ \A u \in 1 .. m : ~(nodes[u].k = kind /\ nodes[u].n = p))
    PROVE  LastEnd(nodes, m + 1, kind, p, y, old)
<1>1. \A u \in 1 .. m + 1 : u \in 1 .. m \/ u = m + 1
    OBVIOUS
<1>2. \A u \in 1 .. m : u \in 1 .. m + 1
    OBVIOUS
<1>3. {u \in 1 .. m + 1 : nodes[u].k = kind /\ nodes[u].n = p}
        = {u \in 1 .. m : nodes[u].k = kind /\ nodes[u].n = p}
    BY <1>1, <1>2
<1> QED BY <1>3 DEF LastEnd

LEMMA NewEnd ==
    ASSUME NEW nodes, NEW m \in Nat, NEW old,
           NEW kind, NEW p, nodes[m + 1].k = kind, nodes[m + 1].n = p
    PROVE  LastEnd(nodes, m + 1, kind, p, nodes[m + 1].id, old)
<1> DEFINE ends == {u \in 1 .. m + 1 : nodes[u].k = kind /\ nodes[u].n = p}
<1>1. m + 1 \in ends /\ \A v \in ends : v <= m + 1
    OBVIOUS
<1> QED BY <1>1 DEF LastEnd

\* A node that is no input area leaves the list and the focus alone.
LEMMA ListStays ==
    ASSUME NEW g, NEW nodes, NEW m \in Nat, NEW f, NEW t, t.list = f.list, t.cur = f.cur,
           ListParsed(g, nodes, m, f), FocusParsed(g, f), nodes[m + 1].k # "input"
    PROVE  ListParsed(g, nodes, m + 1, t) /\ FocusParsed(g, t)
<1>1. \A u \in 1 .. m + 1 : u \in 1 .. m \/ u = m + 1
    OBVIOUS
<1>2. \A u \in 1 .. m : u \in 1 .. m + 1
    OBVIOUS
<1>3. FocusParsed(g, t)
    BY DEF FocusParsed
<1>4. ASSUME NEW i \in Len(g.list) + 1 .. Len(f.list)
      PROVE  \E u \in 1 .. m + 1 : nodes[u].k = "input" /\ f.list[i] = nodes[u].id
    <2>1. PICK u \in 1 .. m : nodes[u].k = "input" /\ f.list[i] = nodes[u].id
        BY DEF ListParsed
    <2> QED BY <1>2, <2>1
<1>5. ASSUME NEW u \in 1 .. m + 1, nodes[u].k = "input"
      PROVE  \E i \in Len(g.list) + 1 .. Len(f.list) : f.list[i] = nodes[u].id
    <2>1. u \in 1 .. m
        BY <1>1, <1>5
    <2> QED BY <1>5, <2>1 DEF ListParsed
<1>6. ListParsed(g, nodes, m + 1, t)
    BY <1>4, <1>5 DEF ListParsed
<1> QED BY <1>3, <1>6

LEMMA BoxesStay ==
    ASSUME NEW g, NEW nodes, NEW m \in Nat, NEW f, NEW t, t.boxes = f.boxes,
           t.fault = "no" => f.fault = "no",
           BoxesParsed(g, nodes, m, f), nodes[m + 1].k \notin {"radio", "simple"}
    PROVE  BoxesParsed(g, nodes, m + 1, t)
<1>1. \A u \in 1 .. m + 1 : u \in 1 .. m \/ u = m + 1
    OBVIOUS
<1> QED BY <1>1 DEF BoxesParsed

LEMMA PastesStay ==
    ASSUME NEW g, NEW nodes, NEW m \in Nat, NEW f, NEW t, t.paste = f.paste,
           PastesParsed(g, nodes, m, f), nodes[m + 1].k \notin {"paste", "endpaste"}
    PROVE  PastesParsed(g, nodes, m + 1, t)
<1> SUFFICES ASSUME NEW p \in PasteNames
             PROVE  /\ \A u \in 1 .. m + 1 :
                         nodes[u].k = "paste" /\ nodes[u].n = p => t.paste[p].id # 0
                    /\ LastEnd(nodes, m + 1, "paste", p, t.paste[p].begin, g.paste[p].begin)
                    /\ LastEnd(nodes, m + 1, "endpaste", p, t.paste[p].end, g.paste[p].end)
    BY DEF PastesParsed
<1>1. \A u \in 1 .. m + 1 : u \in 1 .. m \/ u = m + 1
    OBVIOUS
<1>2. /\ \A u \in 1 .. m : nodes[u].k = "paste" /\ nodes[u].n = p => f.paste[p].id # 0
      /\ LastEnd(nodes, m, "paste", p, f.paste[p].begin, g.paste[p].begin)
      /\ LastEnd(nodes, m, "endpaste", p, f.paste[p].end, g.paste[p].end)
    BY DEF PastesParsed
<1>3. LastEnd(nodes, m + 1, "paste", p, t.paste[p].begin, g.paste[p].begin)
    BY <1>2, SameEnd
<1>4. LastEnd(nodes, m + 1, "endpaste", p, t.paste[p].end, g.paste[p].end)
    BY <1>2, SameEnd
<1> QED BY <1>1, <1>2, <1>3, <1>4

LEMMA InputParsed ==
    ASSUME NEW g \in FormType, NEW nodes, Reading(g, nodes), NEW m \in Nat, m < Len(nodes),
           NEW f \in FormType, ListParsed(g, nodes, m, f), FocusParsed(g, f),
           nodes[m + 1].k = "input",
           NEW t \in FormType, t.list = Append(f.list, nodes[m + 1].id),
           t.cur = IF f.cur = 0 THEN nodes[m + 1].id ELSE f.cur
    PROVE  ListParsed(g, nodes, m + 1, t) /\ FocusParsed(g, t)
<1> DEFINE a == Len(g.list)
           b == Len(f.list)
           c == Len(t.list)
           id == nodes[m + 1].id
<1>1. /\ a \in Nat /\ b \in Nat /\ c = b + 1 /\ a <= b
      /\ \A i \in 1 .. b : t.list[i] = f.list[i] /\ f.list[i] \in Nat \ {0}
      /\ t.list[b + 1] = id
    <2>1. f.list \in Seq(Nat \ {0}) /\ g.list \in Seq(Nat \ {0}) /\ t.list \in Seq(Nat \ {0})
        BY DEF FormType
    <2>2. id \in Nat \ {0}
        <3>1. m + 1 \in 1 .. Len(nodes) /\ nodes \in Seq(Node)
            BY DEF Reading
        <3>2. nodes[m + 1] \in Node
            BY <3>1
        <3> QED BY <3>2 DEF Node
    <2>3. a <= b
        BY DEF ListParsed
    <2> QED BY <2>1, <2>2, <2>3
<1>2. /\ \A i \in 1 .. a : f.list[i] = g.list[i]
      /\ \A i \in a + 1 .. b : \E u \in 1 .. m : nodes[u].k = "input" /\ f.list[i] = nodes[u].id
      /\ \A i, j \in a + 1 .. b : i < j => f.list[i] < f.list[j]
      /\ \A u \in 1 .. m : nodes[u].k = "input" => \E i \in a + 1 .. b : f.list[i] = nodes[u].id
    BY DEF ListParsed
<1>3. /\ id \in Nat \ {0}
      /\ \A u \in 1 .. m : nodes[u].id \in Nat /\ nodes[u].id < id
    <2>1. m + 1 \in 1 .. Len(nodes) /\ \A u \in 1 .. m : u \in 1 .. Len(nodes)
        BY DEF Reading
    <2>2. g.fresh \in Nat
        BY DEF FormType
    <2> QED BY <2>1, <2>2 DEF Reading
<1>4. f.cur = IF g.cur # 0 THEN g.cur ELSE IF b = a THEN 0 ELSE f.list[a + 1]
    BY DEF FocusParsed
<1>5. t.cur = IF f.cur = 0 THEN id ELSE f.cur
    OBVIOUS
<1> HIDE DEF a, b, c, id
<1>6. \A i \in a + 1 .. c : i \in a + 1 .. b \/ i = b + 1
    BY <1>1
<1>7. \A i \in a + 1 .. b : i \in a + 1 .. c /\ i \in 1 .. b
    BY <1>1
<1>8. b + 1 \in a + 1 .. c
    BY <1>1
<1>9. \A u \in 1 .. m : u \in 1 .. m + 1
    OBVIOUS
<1>10. ASSUME NEW i \in a + 1 .. c
       PROVE  \E u \in 1 .. m + 1 : nodes[u].k = "input" /\ t.list[i] = nodes[u].id
    <2>1. CASE i \in a + 1 .. b
        <3>1. PICK u \in 1 .. m : nodes[u].k = "input" /\ f.list[i] = nodes[u].id
            BY <1>2, <2>1
        <3>2. t.list[i] = f.list[i]
            BY <1>1, <1>7, <2>1
        <3> QED BY <1>9, <3>1, <3>2
    <2>2. CASE i = b + 1
        <3>1. t.list[i] = nodes[m + 1].id
            <4>1. t.list[i] = id
                BY <1>1, <2>2
            <4> QED BY <4>1 DEF id
        <3>2. m + 1 \in 1 .. m + 1
            OBVIOUS
        <3> QED BY <3>1, <3>2
    <2> QED BY <1>6, <2>1, <2>2
<1>11. ASSUME NEW i \in a + 1 .. c, NEW j \in a + 1 .. c, i < j
       PROVE  t.list[i] < t.list[j]
    <2>1. i \in a + 1 .. b
        BY <1>1, <1>6, <1>11
    <2>2. t.list[i] = f.list[i]
        BY <1>1, <1>7, <2>1
    <2>3. CASE j \in a + 1 .. b
        BY <1>1, <1>2, <1>7, <1>11, <2>1, <2>2, <2>3
    <2>4. CASE j = b + 1
        <3>1. PICK u \in 1 .. m : f.list[i] = nodes[u].id
            BY <1>2, <2>1
        <3> QED BY <1>1, <1>3, <2>2, <2>4, <3>1
    <2> QED BY <1>6, <2>3, <2>4
<1>12. ASSUME NEW u \in 1 .. m + 1, nodes[u].k = "input"
       PROVE  \E i \in a + 1 .. c : t.list[i] = nodes[u].id
    <2>1. CASE u \in 1 .. m
        <3>1. PICK i \in a + 1 .. b : f.list[i] = nodes[u].id
            BY <1>2, <1>12, <2>1
        <3> QED BY <1>1, <1>7, <3>1
    <2>2. CASE u = m + 1
        <3>1. t.list[b + 1] = id
            BY <1>1
        <3>2. id = nodes[u].id
            BY <2>2 DEF id
        <3> QED BY <1>8, <3>1, <3>2
    <2>3. u \in 1 .. m \/ u = m + 1
        OBVIOUS
    <2> QED BY <2>1, <2>2, <2>3
<1>13. c >= a /\ \A i \in 1 .. a : t.list[i] = g.list[i]
    <2>1. c >= a /\ \A i \in 1 .. a : i \in 1 .. b
        BY <1>1
    <2>2. ASSUME NEW i \in 1 .. a
          PROVE  t.list[i] = g.list[i]
        BY <1>1, <1>2, <2>1
    <2> QED BY <2>1, <2>2
<1>14. ListParsed(g, nodes, m + 1, t)
    BY <1>10, <1>11, <1>12, <1>13 DEF ListParsed, a, c
<1>15. t.cur = IF g.cur # 0 THEN g.cur ELSE IF c = a THEN 0 ELSE t.list[a + 1]
    <2>1. c # a
        BY <1>1
    <2>2. CASE b = a
        BY <1>1, <1>4, <1>5, <2>1, <2>2
    <2>3. CASE b # a
        <3>1. a + 1 \in 1 .. b
            BY <1>1, <2>3
        <3>2. t.list[a + 1] = f.list[a + 1] /\ f.list[a + 1] # 0
            BY <1>1, <3>1
        <3> QED BY <1>4, <1>5, <2>1, <2>3, <3>2
    <2> QED BY <2>2, <2>3
<1> QED BY <1>14, <1>15 DEF FocusParsed, a, c

\* A node that is an end of an area, or a button.
LEMMA PastesParsedStep ==
    ASSUME NEW g, NEW nodes, NEW m \in Nat, NEW f \in FormType, PastesParsed(g, nodes, m, f),
           NEW t, NEW n \in PasteNames, nodes[m + 1].n = n, NEW pn \in PasteNode,
           PasteChanges(f, t, n, pn),
           nodes[m + 1].k = "endpaste" =>
              \E u \in 1 .. m : nodes[u].k = "paste" /\ nodes[u].n = n,
           \/ /\ nodes[m + 1].k = "paste" /\ pn.begin = nodes[m + 1].id /\ pn.id # 0
              /\ pn.end \in {f.paste[n].end, 0}
              /\ f.paste[n].id # 0 => pn.end = f.paste[n].end
           \/ /\ nodes[m + 1].k = "endpaste" /\ pn.end = nodes[m + 1].id
              /\ pn.id = f.paste[n].id /\ pn.begin = f.paste[n].begin
           \/ /\ nodes[m + 1].k = "button" /\ pn.id # 0
              /\ pn.end \in {f.paste[n].end, 0} /\ pn.begin \in {f.paste[n].begin, 0}
              /\ f.paste[n].id # 0 => /\ pn.end = f.paste[n].end
                                      /\ pn.begin = f.paste[n].begin,
           \A u \in 1 .. m : nodes[u].k = "endpaste" /\ nodes[u].n = n =>
              \E v \in 1 .. m : nodes[v].k = "paste" /\ nodes[v].n = n
    PROVE  PastesParsed(g, nodes, m + 1, t)
<1> SUFFICES ASSUME NEW p \in PasteNames
             PROVE  /\ \A u \in 1 .. m + 1 :
                         nodes[u].k = "paste" /\ nodes[u].n = p => t.paste[p].id # 0
                    /\ LastEnd(nodes, m + 1, "paste", p, t.paste[p].begin, g.paste[p].begin)
                    /\ LastEnd(nodes, m + 1, "endpaste", p, t.paste[p].end, g.paste[p].end)
    BY DEF PastesParsed
<1>1. \A u \in 1 .. m + 1 : u \in 1 .. m \/ u = m + 1
    OBVIOUS
<1>2. /\ \A u \in 1 .. m : nodes[u].k = "paste" /\ nodes[u].n = p => f.paste[p].id # 0
      /\ LastEnd(nodes, m, "paste", p, f.paste[p].begin, g.paste[p].begin)
      /\ LastEnd(nodes, m, "endpaste", p, f.paste[p].end, g.paste[p].end)
    BY DEF PastesParsed
<1>3. CASE p # n
    <2>1. t.paste[p] = f.paste[p]
        BY <1>3 DEF PasteChanges
    <2>2. LastEnd(nodes, m + 1, "paste", p, t.paste[p].begin, g.paste[p].begin)
        BY <1>2, <1>3, <2>1, SameEnd
    <2>3. LastEnd(nodes, m + 1, "endpaste", p, t.paste[p].end, g.paste[p].end)
        BY <1>2, <1>3, <2>1, SameEnd
    <2> QED BY <1>1, <1>2, <1>3, <2>1, <2>2, <2>3
<1>4. CASE p = n
    <2>1. t.paste[n] = pn
        BY DEF PasteChanges
    <2> DEFINE none == \A u \in 1 .. m : ~(nodes[u].k = "paste" /\ nodes[u].n = n)
               noEnd == \A u \in 1 .. m : ~(nodes[u].k = "endpaste" /\ nodes[u].n = n)
    <2>2. f.paste[n].id # 0 \/ none
        BY <1>2, <1>4
    <2>3. none => noEnd
        OBVIOUS
    <2>4. CASE nodes[m + 1].k = "paste"
        <3>1. pn.begin = nodes[m + 1].id /\ pn.id # 0
              /\ (pn.end = f.paste[n].end \/ (pn.end = 0 /\ noEnd))
            BY <2>2, <2>3, <2>4
        <3>2. LastEnd(nodes, m + 1, "paste", n, pn.begin, g.paste[n].begin)
            BY <2>4, <3>1, NewEnd
        <3> HIDE DEF noEnd
        <3>3. LastEnd(nodes, m + 1, "endpaste", n, pn.end, g.paste[n].end)
            BY <1>2, <1>4, <2>4, <3>1, SameEnd DEF noEnd
        <3> QED BY <1>4, <2>1, <3>1, <3>2, <3>3
    <2>5. CASE nodes[m + 1].k = "endpaste"
        <3>1. pn.end = nodes[m + 1].id /\ pn.id = f.paste[n].id /\ pn.begin = f.paste[n].begin
              /\ ~none
            BY <2>5
        <3>2. LastEnd(nodes, m + 1, "endpaste", n, pn.end, g.paste[n].end)
            BY <2>5, <3>1, NewEnd
        <3>3. LastEnd(nodes, m + 1, "paste", n, pn.begin, g.paste[n].begin)
            BY <1>2, <1>4, <2>5, <3>1, SameEnd
        <3> QED BY <1>4, <2>1, <2>2, <3>1, <3>2, <3>3
    <2>6. CASE nodes[m + 1].k = "button"
        <3>1. /\ pn.id # 0
              /\ pn.end = f.paste[n].end \/ (pn.end = 0 /\ noEnd)
              /\ pn.begin = f.paste[n].begin \/ (pn.begin = 0 /\ none)
            BY <2>2, <2>3, <2>6
        <3>2. LastEnd(nodes, m + 1, "paste", n, pn.begin, g.paste[n].begin)
            BY <1>2, <1>4, <2>6, <3>1, SameEnd
        <3>3. LastEnd(nodes, m + 1, "endpaste", n, pn.end, g.paste[n].end)
            BY <1>2, <1>4, <2>6, <3>1, SameEnd
        <3> QED BY <1>4, <2>1, <3>1, <3>2, <3>3
    <2> QED BY <2>4, <2>5, <2>6
<1> QED BY <1>3, <1>4

Nested(nodes) ==
    \A u \in 1 .. Len(nodes) : nodes[u].k = "endpaste" =>
        \E v \in 1 .. u - 1 : nodes[v].k = "paste" /\ nodes[v].n = nodes[u].n

LEMMA ParsingStep ==
    ASSUME NEW g \in FormType, NEW nodes, Reading(g, nodes), Nested(nodes),
           NEW m \in Nat, m < Len(nodes), NEW f, Parsing(g, nodes, m, f)
    PROVE  Parsing(g, nodes, m + 1, ParseHyperDoc(f, nodes[m + 1]))
<1> DEFINE nd == nodes[m + 1]
           t == ParseHyperDoc(f, nd)
<1>1. nd \in Node /\ nd.id \in Nat \ {0} /\ nd.k \in Kinds
      /\ (nd.k \in OfPastes => nd.n \in PasteNames)
    <2>1. m + 1 \in 1 .. Len(nodes) /\ nodes \in Seq(Node)
        BY DEF Reading
    <2>2. nd \in Node
        BY <2>1
    <2> QED BY <2>1, <2>2 DEF Reading, Node
<1>2. /\ f \in FormType /\ f.text = g.text /\ f.fresh = g.fresh + Len(nodes)
      /\ BoxesParsed(g, nodes, m, f)
      /\ f.fault = "no" => /\ g.fault = "no" /\ ListParsed(g, nodes, m, f)
                           /\ FocusParsed(g, f) /\ PastesParsed(g, nodes, m, f)
    BY DEF Parsing
<1>3. nodes[m + 1] = nd
    OBVIOUS
<1> HIDE DEF nd
<1>4. CASE f.fault # "no"
    <2>1. t = f
        BY <1>4 DEF ParseHyperDoc
    <2>2. BoxesParsed(g, nodes, m + 1, f)
        BY <1>2, <1>4 DEF BoxesParsed
    <2> QED BY <1>2, <1>3, <1>4, <2>1, <2>2 DEF Parsing
<1>5. CASE f.fault = "no"
    <2>1. /\ g.fault = "no" /\ ListParsed(g, nodes, m, f)
          /\ FocusParsed(g, f) /\ PastesParsed(g, nodes, m, f)
        BY <1>2, <1>5
    <2>2. CASE nd.k = "input"
        <3>1. t = InsertItem(f, nd.id)
            BY <1>5, <2>2 DEF ParseHyperDoc
        <3> HIDE DEF t
        <3>2. /\ t \in FormType /\ t.fault = f.fault
              /\ t.list = Append(f.list, nd.id) /\ t.cur = (IF f.cur = 0 THEN nd.id ELSE f.cur)
              /\ t.text = f.text /\ t.boxes = f.boxes /\ t.paste = f.paste
              /\ t.links = f.links /\ t.fresh = f.fresh
            BY <1>1, <1>2, <3>1, InsertItemFacts
        <3>3. ListParsed(g, nodes, m + 1, t) /\ FocusParsed(g, t)
            BY <1>2, <1>3, <2>1, <2>2, <3>2, InputParsed
        <3>4. BoxesParsed(g, nodes, m + 1, t)
            BY <1>2, <1>3, <2>2, <3>2, BoxesStay
        <3>5. PastesParsed(g, nodes, m + 1, t)
            BY <1>3, <2>1, <2>2, <3>2, PastesStay
        <3> QED BY <1>2, <1>3, <2>1, <3>2, <3>3, <3>4, <3>5 DEF Parsing, t
    <2>3. CASE nd.k \in {"radio", "simple"}
        <3>1. t \in {ParseSimplebox(f, nd), ParseRadiobox(f, nd)}
            BY <1>5, <2>3 DEF ParseHyperDoc
        <3>2. /\ t \in FormType /\ OnePicked(t.boxes)
              /\ f.boxes # <<>> => t.boxes # <<>>
              /\ t.fault = "no" => t.boxes # <<>>
              /\ t.text = f.text /\ t.list = f.list /\ t.cur = f.cur
              /\ t.paste = f.paste /\ t.links = f.links /\ t.fresh = f.fresh
            <4>1. OnePicked(f.boxes)
                BY <1>2 DEF BoxesParsed
            <4> QED BY <1>1, <1>2, <3>1, <4>1, BoxFacts
        <3> HIDE DEF t
        <3>3. ListParsed(g, nodes, m + 1, t) /\ FocusParsed(g, t)
            BY <1>3, <2>1, <2>3, <3>2, ListStays
        <3>4. BoxesParsed(g, nodes, m + 1, t)
            BY <1>2, <3>2 DEF BoxesParsed
        <3>5. PastesParsed(g, nodes, m + 1, t)
            BY <1>3, <2>1, <2>3, <3>2, PastesStay
        <3> QED BY <1>2, <1>3, <2>1, <3>2, <3>3, <3>4, <3>5 DEF Parsing, t
    <2>4. CASE nd.k \in OfPastes
        <3> DEFINE n == nd.n
        <3>1. n \in PasteNames
            BY <1>1, <2>4
        <3>2. nd.k = "endpaste" => \E u \in 1 .. m : nodes[u].k = "paste" /\ nodes[u].n = n
            <4>1. m + 1 \in 1 .. Len(nodes) /\ (m + 1) - 1 = m
                BY DEF Reading
            <4> QED BY <1>3, <4>1 DEF Nested
        <3>3. \A u \in 1 .. m : nodes[u].k = "endpaste" /\ nodes[u].n = n =>
                  \E v \in 1 .. m : nodes[v].k = "paste" /\ nodes[v].n = n
            <4> SUFFICES ASSUME NEW u \in 1 .. m, nodes[u].k = "endpaste", nodes[u].n = n
                         PROVE  \E v \in 1 .. m : nodes[v].k = "paste" /\ nodes[v].n = n
                OBVIOUS
            <4>1. u \in 1 .. Len(nodes) /\ \A v \in 1 .. u - 1 : v \in 1 .. m
                BY DEF Reading
            <4> QED BY <4>1 DEF Nested
        <3>4. \E pn \in PasteNode :
                 /\ PasteChanges(f, t, n, pn)
                 /\ \/ /\ nd.k = "paste" /\ pn.begin = nd.id /\ pn.id # 0
                       /\ pn.end \in {f.paste[n].end, 0}
                       /\ f.paste[n].id # 0 => pn.end = f.paste[n].end
                    \/ /\ nd.k = "endpaste" /\ pn.end = nd.id
                       /\ pn.id = f.paste[n].id /\ pn.begin = f.paste[n].begin
                    \/ /\ nd.k = "button" /\ pn.id # 0
                       /\ pn.end \in {f.paste[n].end, 0} /\ pn.begin \in {f.paste[n].begin, 0}
                       /\ f.paste[n].id # 0 => /\ pn.end = f.paste[n].end
                                               /\ pn.begin = f.paste[n].begin
            <4>1. CASE nd.k = "paste"
                <5>1. t = ParsePaste(f, nd)
                    BY <1>5, <4>1 DEF ParseHyperDoc
                <5> HIDE DEF t
                <5> QED BY <1>1, <1>2, <3>1, <4>1, <5>1, ParsePasteFacts
            <4>2. CASE nd.k = "endpaste"
                <5>1. t = [f EXCEPT !.paste[nd.n].end = nd.id]
                    BY <1>5, <4>2 DEF ParseHyperDoc
                <5>2. \E pn \in PasteNode :
                         /\ PasteChanges(f, t, nd.n, pn)
                         /\ pn.id = f.paste[nd.n].id /\ pn.begin = f.paste[nd.n].begin
                         /\ pn.end = nd.id
                    <6> HIDE DEF t
                    <6> QED BY <1>1, <1>2, <3>1, <5>1, EndpasteFacts
                <5> QED BY <4>2, <5>2
            <4>3. CASE nd.k = "button"
                <5>1. t = ParsePastebutton(f, nd)
                    BY <1>5, <4>3 DEF ParseHyperDoc
                <5> HIDE DEF t
                <5> QED BY <1>1, <1>2, <3>1, <4>3, <5>1, ParsePastebuttonFacts
            <4> QED BY <2>4, <4>1, <4>2, <4>3 DEF OfPastes
        <3>5. PICK pn \in PasteNode :
                 /\ PasteChanges(f, t, n, pn)
                 /\ \/ /\ nd.k = "paste" /\ pn.begin = nd.id /\ pn.id # 0
                       /\ pn.end \in {f.paste[n].end, 0}
                       /\ f.paste[n].id # 0 => pn.end = f.paste[n].end
                    \/ /\ nd.k = "endpaste" /\ pn.end = nd.id
                       /\ pn.id = f.paste[n].id /\ pn.begin = f.paste[n].begin
                    \/ /\ nd.k = "button" /\ pn.id # 0
                       /\ pn.end \in {f.paste[n].end, 0} /\ pn.begin \in {f.paste[n].begin, 0}
                       /\ f.paste[n].id # 0 => /\ pn.end = f.paste[n].end
                                               /\ pn.begin = f.paste[n].begin
            BY <3>4
        <3> HIDE DEF t
        <3>6. PastesParsed(g, nodes, m + 1, t)
            <4>1. nodes[m + 1].n = n /\ nodes[m + 1].k = nd.k /\ nodes[m + 1].id = nd.id
                BY <1>3
            <4> HIDE DEF n
            <4> QED BY <1>2, <2>1, <3>1, <3>2, <3>3, <3>5, <4>1, PastesParsedStep
        <3>7. /\ t \in FormType /\ t.text = f.text /\ t.list = f.list /\ t.cur = f.cur
              /\ t.boxes = f.boxes /\ t.fresh = f.fresh /\ t.fault = f.fault
            BY <3>5 DEF PasteChanges
        <3>8. ListParsed(g, nodes, m + 1, t) /\ FocusParsed(g, t)
            BY <1>3, <2>1, <2>4, <3>7, ListStays DEF OfPastes
        <3>9. BoxesParsed(g, nodes, m + 1, t)
            BY <1>2, <1>3, <2>4, <3>7, BoxesStay DEF OfPastes
        <3> QED BY <1>2, <1>3, <2>1, <3>6, <3>7, <3>8, <3>9 DEF Parsing, t
    <2> QED BY <1>1, <2>2, <2>3, <2>4 DEF Kinds, OfPastes
<1> QED BY <1>4, <1>5

\* A paste node that knows of a button knew of it before, or has just been
\* told by one that keeps its address.
LEMMA ButtonsStep ==
    ASSUME NEW f \in FormType, NEW nd \in Node, nd.k \in OfPastes => nd.n \in PasteNames
    PROVE  LET t == ParseHyperDoc(f, nd)
           IN  /\ f.links \subseteq t.links
               /\ \A q \in PasteNames : t.paste[q].id # 0 /\ t.paste[q].hasbutton =>
                    \/ f.paste[q].id = t.paste[q].id /\ f.paste[q].hasbutton
                    \/ nd.k = "button" /\ nd.n = q /\ <<nd.id, t.paste[q].id>> \in t.links
<1> DEFINE t == ParseHyperDoc(f, nd)
<1>1. nd.k \in Kinds /\ nd.id \in Nat \ {0}
    BY DEF Node
<1>2. CASE f.fault # "no"
    BY <1>2 DEF ParseHyperDoc
<1>3. CASE f.fault = "no" /\ nd.k \in {"input", "radio", "simple"}
    <2>1. t.links = f.links /\ t.paste = f.paste
        <3>1. CASE nd.k = "input"
            <4>1. t = InsertItem(f, nd.id)
                BY <1>3, <3>1 DEF ParseHyperDoc
            <4> QED BY <1>1, <4>1, InsertItemFacts
        <3>2. CASE nd.k \in {"radio", "simple"}
            <4>1. t \in {ParseSimplebox(f, nd), ParseRadiobox(f, nd)}
                BY <1>3, <3>2 DEF ParseHyperDoc
            <4> HIDE DEF t
            <4> QED BY <4>1 DEF ParseSimplebox, ParseRadiobox, FormTrouble, FormType
        <3> QED BY <1>3, <3>1, <3>2
    <2> QED BY <2>1
<1>4. CASE f.fault = "no" /\ nd.k = "paste"
    <2>1. t = ParsePaste(f, nd) /\ nd.n \in PasteNames
        BY <1>4 DEF ParseHyperDoc, OfPastes
    <2>2. PICK pn \in PasteNode :
             /\ PasteChanges(f, ParsePaste(f, nd), nd.n, pn)
             /\ ParsePaste(f, nd).links = f.links
             /\ pn.hasbutton => f.paste[nd.n].id = pn.id /\ f.paste[nd.n].hasbutton
        BY <2>1, ParsePasteFacts
    <2> HIDE DEF t
    <2> QED BY <2>1, <2>2 DEF PasteChanges, t
<1>5. CASE f.fault = "no" /\ nd.k = "endpaste"
    <2> DEFINE u == [f EXCEPT !.paste[nd.n].end = nd.id]
    <2>1. t = u /\ nd.n \in PasteNames
        BY <1>5 DEF ParseHyperDoc, OfPastes
    <2>2. PICK pn \in PasteNode :
             /\ PasteChanges(f, u, nd.n, pn) /\ u.links = f.links
             /\ pn.id = f.paste[nd.n].id /\ pn.hasbutton = f.paste[nd.n].hasbutton
        BY <2>1, EndpasteFacts
    <2> HIDE DEF t, u
    <2> QED BY <2>1, <2>2 DEF PasteChanges, t
<1>6. CASE f.fault = "no" /\ nd.k = "button"
    <2>1. t = ParsePastebutton(f, nd) /\ nd.n \in PasteNames
        BY <1>6 DEF ParseHyperDoc, OfPastes
    <2>2. PICK pn \in PasteNode :
             /\ PasteChanges(f, ParsePastebutton(f, nd), nd.n, pn)
             /\ ParsePastebutton(f, nd).links = f.links \union {<<nd.id, pn.id>>}
        BY <2>1, ParsePastebuttonFacts
    <2> HIDE DEF t
    <2> QED BY <1>6, <2>1, <2>2 DEF PasteChanges, t
<1> QED BY <1>1, <1>2, <1>3, <1>4, <1>5, <1>6 DEF Kinds

\* The pages that become of f, node by node.
LEMMA ParsedIs ==
    ASSUME NEW f \in FormType, OnePicked(f.boxes),
           NEW nodes, Reading(f, nodes), Nested(nodes)
    PROVE  \E pg : /\ pg[0] = [f EXCEPT !.fresh = f.fresh + Len(nodes)]
                   /\ \A m \in Nat : m < Len(nodes) =>
                        pg[m + 1] = ParseHyperDoc(pg[m], nodes[m + 1])
                   /\ \A m \in Nat : m <= Len(nodes) => Parsing(f, nodes, m, pg[m])
                   /\ Parsed(f, nodes) = pg[Len(nodes)]
<1> DEFINE N == Len(nodes)
           start == [f EXCEPT !.fresh = f.fresh + N]
           Is(page, n) == page = [m \in 0 .. n |-> IF m = 0 THEN start
                                                    ELSE ParseHyperDoc(page[m - 1], nodes[m])]
           S == {n \in Nat : \E page : Is(page, n)}
<1>1. N \in Nat
    BY DEF Reading
<1>2. 0 \in S
    <2> DEFINE page == [m \in 0 .. 0 |-> start]
    <2>1. page = [m \in 0 .. 0 |-> IF m = 0 THEN start
                                   ELSE ParseHyperDoc(page[m - 1], nodes[m])]
        <3>1. \A m \in 0 .. 0 : m = 0
            OBVIOUS
        <3> HIDE DEF start
        <3> QED BY <3>1
    <2> HIDE DEF page
    <2> QED BY <2>1
<1>3. ASSUME NEW n \in S
      PROVE  n + 1 \in S
    <2>1. n \in Nat /\ \E page : Is(page, n)
        OBVIOUS
    <2>2. PICK page : Is(page, n)
        BY <2>1
    <2> DEFINE last == ParseHyperDoc(page[n], nodes[n + 1])
               new == [m \in 0 .. n + 1 |-> IF m = n + 1 THEN last ELSE page[m]]
    <2> HIDE DEF start
    <2>3. ASSUME NEW m \in 0 .. n + 1
          PROVE  new[m] = IF m = 0 THEN start ELSE ParseHyperDoc(new[m - 1], nodes[m])
        <3>1. CASE m = n + 1
            <4>1. new[m] = last /\ m # 0 /\ m - 1 = n /\ n \in 0 .. n + 1 /\ n # n + 1
                BY <2>1, <3>1
            <4>2. new[n] = page[n]
                BY <4>1
            <4> QED BY <3>1, <4>1, <4>2
        <3>2. CASE m # n + 1
            <4>1. m \in 0 .. n /\ new[m] = page[m]
                BY <2>1, <3>2
            <4>2. page[m] = IF m = 0 THEN start ELSE ParseHyperDoc(page[m - 1], nodes[m])
                BY <2>2, <4>1
            <4>3. CASE m = 0
                BY <4>1, <4>2, <4>3
            <4>4. CASE m # 0
                <5>1. m - 1 \in 0 .. n + 1 /\ m - 1 # n + 1
                    BY <2>1, <4>1, <4>4
                <5>2. new[m - 1] = page[m - 1]
                    BY <5>1
                <5> QED BY <4>1, <4>2, <4>4, <5>2
            <4> QED BY <4>3, <4>4
        <3> QED BY <3>1, <3>2
    <2>4. Is(new, n + 1)
        <3>1. new = [m \in 0 .. n + 1 |-> new[m]]
            OBVIOUS
        <3> HIDE DEF new
        <3> QED BY <2>3, <3>1
    <2> HIDE DEF new, Is
    <2>5. n + 1 \in Nat
        BY <2>1
    <2> QED BY <2>4, <2>5
<1> HIDE DEF start
<1>4. \E page : Is(page, N)
    <2>1. S \in SUBSET Nat
        OBVIOUS
    <2> HIDE DEF S
    <2>2. N \in S
        BY <1>1, <1>2, <1>3, <2>1, Induct
    <2> QED BY <2>2 DEF S
<1> DEFINE pg == CHOOSE page : Is(page, N)
<1>5. Is(pg, N)
    <2> HIDE DEF Is
    <2> QED BY <1>4
<1>6. Parsed(f, nodes) = pg[N]
    BY DEF Parsed, start
<1> HIDE DEF pg
<1>7. /\ pg[0] = start
      /\ \A m \in Nat : m < N => pg[m + 1] = ParseHyperDoc(pg[m], nodes[m + 1])
    <2>1. 0 \in 0 .. N
        BY <1>1
    <2>2. pg[0] = start
        BY <1>5, <2>1
    <2>3. ASSUME NEW m \in Nat, m < N
          PROVE  pg[m + 1] = ParseHyperDoc(pg[m], nodes[m + 1])
        <3>1. m + 1 \in 0 .. N /\ m + 1 # 0 /\ (m + 1) - 1 = m
            BY <1>1, <2>3
        <3>2. pg[m + 1] = ParseHyperDoc(pg[(m + 1) - 1], nodes[m + 1])
            BY <1>5, <3>1
        <3> QED BY <3>1, <3>2
    <2> QED BY <2>2, <2>3
<1> HIDE DEF Is, S
<1>8. Parsing(f, nodes, 0, start)
    <2>1. /\ start \in FormType /\ start.text = f.text /\ start.fresh = f.fresh + N
          /\ start.boxes = f.boxes /\ start.list = f.list /\ start.cur = f.cur
          /\ start.paste = f.paste /\ start.fault = f.fault
        <3> DEFINE fresh == f.fresh + N
        <3>1. fresh \in Nat
            BY <1>1 DEF FormType
        <3>2. start = [f EXCEPT !.fresh = fresh]
            BY DEF start
        <3> HIDE DEF fresh
        <3>3. /\ start \in FormType /\ start.text = f.text /\ start.fresh = fresh
              /\ start.boxes = f.boxes /\ start.list = f.list /\ start.cur = f.cur
              /\ start.paste = f.paste /\ start.fault = f.fault
            BY <3>1, <3>2 DEF FormType
        <3> QED BY <3>3 DEF fresh
    <2>2. 1 .. 0 = {}
        OBVIOUS
    <2>3. BoxesParsed(f, nodes, 0, start)
        BY <2>1, <2>2 DEF BoxesParsed
    <2>4. ListParsed(f, nodes, 0, start) /\ FocusParsed(f, start)
        <3>1. Len(f.list) \in Nat
            BY DEF FormType
        <3>2. Len(f.list) + 1 .. Len(f.list) = {}
            BY <3>1
        <3>3. ListParsed(f, nodes, 0, start)
            BY <2>1, <2>2, <3>1, <3>2 DEF ListParsed
        <3>4. FocusParsed(f, start)
            BY <2>1 DEF FocusParsed
        <3> QED BY <3>3, <3>4
    <2>5. PastesParsed(f, nodes, 0, start)
        BY <2>1, <2>2 DEF PastesParsed, LastEnd
    <2> QED BY <2>1, <2>3, <2>4, <2>5 DEF Parsing, N
<1> DEFINE T == {m \in Nat : m <= N => Parsing(f, nodes, m, pg[m])}
<1>9. 0 \in T
    BY <1>7, <1>8
<1>10. ASSUME NEW m \in T
       PROVE  m + 1 \in T
    <2>1. m \in Nat /\ m + 1 \in Nat /\ (m <= N => Parsing(f, nodes, m, pg[m]))
        OBVIOUS
    <2>2. ASSUME m + 1 <= N
          PROVE  Parsing(f, nodes, m + 1, pg[m + 1])
        <3>1. m <= N /\ m < N
            BY <1>1, <2>1, <2>2
        <3>2. Parsing(f, nodes, m, pg[m])
            BY <2>1, <3>1
        <3>3. pg[m + 1] = ParseHyperDoc(pg[m], nodes[m + 1])
            BY <1>7, <2>1, <3>1
        <3>4. Parsing(f, nodes, m + 1, ParseHyperDoc(pg[m], nodes[m + 1]))
            BY <2>1, <3>1, <3>2, ParsingStep DEF N
        <3> QED BY <3>3, <3>4
    <2> QED BY <2>1, <2>2
<1>11. \A m \in Nat : m <= N => Parsing(f, nodes, m, pg[m])
    <2>1. T \in SUBSET Nat
        OBVIOUS
    <2> HIDE DEF T
    <2>2. \A m \in Nat : m \in T
        BY <1>9, <1>10, <2>1, Induct
    <2> QED BY <2>2 DEF T
<1> QED BY <1>6, <1>7, <1>11 DEF start

LEMMA ParsedFacts ==
    ASSUME NEW f \in FormType, OnePicked(f.boxes),
           NEW nodes, Reading(f, nodes), Nested(nodes)
    PROVE  Parsing(f, nodes, Len(nodes), Parsed(f, nodes))
<1>1. Len(nodes) \in Nat
    BY DEF Reading
<1>2. PICK pg : /\ \A m \in Nat : m <= Len(nodes) => Parsing(f, nodes, m, pg[m])
                /\ Parsed(f, nodes) = pg[Len(nodes)]
    BY ParsedIs
<1> QED BY <1>1, <1>2

\* What the paste nodes know of buttons after m nodes.
ButtonsParsed(f, nodes, m, t) ==
    /\ f.links \subseteq t.links
    /\ \A q \in PasteNames : t.paste[q].id # 0 /\ t.paste[q].hasbutton =>
         \/ f.paste[q].id = t.paste[q].id /\ f.paste[q].hasbutton
         \/ \E u \in 1 .. m : /\ nodes[u].k = "button" /\ nodes[u].n = q
                              /\ <<nodes[u].id, t.paste[q].id>> \in t.links

LEMMA ParsedButtons ==
    ASSUME NEW f \in FormType, OnePicked(f.boxes),
           NEW nodes, Reading(f, nodes), Nested(nodes)
    PROVE  ButtonsParsed(f, nodes, Len(nodes), Parsed(f, nodes))
<1> DEFINE N == Len(nodes)
<1>1. /\ N \in Nat
      /\ \A m \in 1 .. N : nodes[m] \in Node /\ (nodes[m].k \in OfPastes => nodes[m].n \in PasteNames)
    BY DEF Reading
<1>2. PICK pg : /\ pg[0] = [f EXCEPT !.fresh = f.fresh + Len(nodes)]
                /\ \A m \in Nat : m < Len(nodes) => pg[m + 1] = ParseHyperDoc(pg[m], nodes[m + 1])
                /\ \A m \in Nat : m <= Len(nodes) => Parsing(f, nodes, m, pg[m])
                /\ Parsed(f, nodes) = pg[Len(nodes)]
    BY ParsedIs
<1> DEFINE T == {m \in Nat : m <= N => ButtonsParsed(f, nodes, m, pg[m])}
<1>3. 0 \in T
    <2>1. pg[0].links = f.links /\ pg[0].paste = f.paste
        BY <1>2 DEF FormType
    <2> QED BY <2>1 DEF ButtonsParsed
<1>4. ASSUME NEW m \in T
      PROVE  m + 1 \in T
    <2>1. m \in Nat /\ m + 1 \in Nat /\ (m <= N => ButtonsParsed(f, nodes, m, pg[m]))
        OBVIOUS
    <2>2. ASSUME m + 1 <= N
          PROVE  ButtonsParsed(f, nodes, m + 1, pg[m + 1])
        <3>1. m <= N /\ m < N /\ m + 1 \in 1 .. N
            BY <1>1, <2>1, <2>2
        <3> DEFINE g == pg[m]
                   t == pg[m + 1]
                   nd == nodes[m + 1]
        <3>2. t = ParseHyperDoc(g, nd) /\ g \in FormType /\ ButtonsParsed(f, nodes, m, g)
            BY <1>2, <2>1, <3>1 DEF Parsing
        <3>3. nd \in Node /\ (nd.k \in OfPastes => nd.n \in PasteNames)
            BY <1>1, <3>1
        <3> HIDE DEF t, g
        <3>4. /\ g.links \subseteq t.links
              /\ \A q \in PasteNames : t.paste[q].id # 0 /\ t.paste[q].hasbutton =>
                   \/ g.paste[q].id = t.paste[q].id /\ g.paste[q].hasbutton
                   \/ nd.k = "button" /\ nd.n = q /\ <<nd.id, t.paste[q].id>> \in t.links
            BY <3>2, <3>3, ButtonsStep
        <3>5. \A u \in 1 .. m : u \in 1 .. m + 1
            BY <2>1
        <3>6. m + 1 \in 1 .. m + 1
            BY <2>1
        <3>7. ButtonsParsed(f, nodes, m + 1, t)
            BY <3>2, <3>4, <3>5, <3>6 DEF ButtonsParsed
        <3> QED BY <3>7 DEF t
    <2> QED BY <2>1, <2>2
<1>5. N \in T
    <2>1. T \in SUBSET Nat
        OBVIOUS
    <2> HIDE DEF T
    <2> QED BY <1>1, <1>3, <1>4, <2>1, Induct
<1> QED BY <1>1, <1>2, <1>5

(***************************************************************************)
(* The list of the page: it holds the input areas of the text at the       *)
(* places of S, in the order of the text.                                  *)
(***************************************************************************)
Distinct(text) == \A i, j \in DOMAIN text : text[i].id = text[j].id => i = j

InOrder(list, text) ==
    \A i, j \in DOMAIN list : \A x, y \in DOMAIN text :
        text[x].id = list[i] /\ text[y].id = list[j] /\ i < j => x < y

Listed(list, text, S) ==
    /\ \A i \in DOMAIN list : \E x \in S : text[x].k = "input" /\ text[x].id = list[i]
    /\ \A x \in S : text[x].k = "input" => \E i \in DOMAIN list : list[i] = text[x].id
    /\ InOrder(list, text)

InFocus(list, cur) ==
    IF list = <<>> THEN cur = 0 ELSE \E i \in DOMAIN list : list[i] = cur

LEMMA ListedOnce ==
    ASSUME NEW list \in Seq(Nat \ {0}), NEW text \in Seq(Node),
           NEW S \in SUBSET DOMAIN text, Listed(list, text, S)
    PROVE  \A i, j \in DOMAIN list : list[i] = list[j] => i = j
<1> SUFFICES ASSUME NEW i \in DOMAIN list, NEW j \in DOMAIN list, list[i] = list[j], i # j
             PROVE  FALSE
    OBVIOUS
<1>1. PICK x \in S : text[x].id = list[i]
    BY DEF Listed
<1>2. i < j \/ j < i
    OBVIOUS
<1>4. x \in DOMAIN text /\ x \in Nat
    OBVIOUS
<1>5. CASE i < j
    <2>1. x < x
        BY <1>1, <1>4, <1>5 DEF Listed, InOrder
    <2> QED BY <1>4, <2>1
<1>6. CASE j < i
    <2>1. x < x
        BY <1>1, <1>4, <1>6 DEF Listed, InOrder
    <2> QED BY <1>4, <2>1
<1> QED BY <1>2, <1>5, <1>6

LEMMA ListedLess ==
    ASSUME NEW list, NEW text, NEW S, Listed(list, text, S), NEW R \in SUBSET S,
           \A x \in S \ R : text[x].k # "input"
    PROVE  Listed(list, text, R)
<1>1. \A i \in DOMAIN list : \E y \in R : text[y].k = "input" /\ text[y].id = list[i]
    <2> TAKE i \in DOMAIN list
    <2>1. PICK y \in S : text[y].k = "input" /\ text[y].id = list[i]
        BY DEF Listed
    <2> QED BY <2>1
<1> QED BY <1>1 DEF Listed

\* delete_item, of the input area at one of the places.
LEMMA WithoutFacts ==
    ASSUME NEW list \in Seq(Nat \ {0}), NEW text \in Seq(Node), Distinct(text),
           NEW S \in SUBSET DOMAIN text, Listed(list, text, S), NEW x0 \in DOMAIN text
    PROVE  LET r == Without(list, text[x0].id)
           IN  /\ r \in Seq(Nat \ {0}) /\ Listed(r, text, S \ {x0})
               /\ \A i \in DOMAIN list : list[i] # text[x0].id =>
                    \E j \in DOMAIN r : r[j] = list[i]
<1> DEFINE id == text[x0].id
           r == Without(list, id)
<1>1. CASE id \notin ToSet(list)
    <2>1. r = list /\ \A i \in DOMAIN list : list[i] # id
        BY <1>1 DEF Without, ToSet
    <2>2. \A i \in DOMAIN list : \E x \in S \ {x0} : text[x].k = "input" /\ text[x].id = list[i]
        <3> TAKE i \in DOMAIN list
        <3>1. PICK x \in S : text[x].k = "input" /\ text[x].id = list[i]
            BY DEF Listed
        <3>2. x # x0
            BY <2>1, <3>1
        <3> QED BY <3>1, <3>2
    <2>3. Listed(list, text, S \ {x0})
        BY <2>2 DEF Listed
    <2> QED BY <2>1, <2>3
<1>2. CASE id \in ToSet(list)
    <2> DEFINE p == Place(list, id)
    <2>1. p \in DOMAIN list /\ list[p] = id
        BY <1>2 DEF ToSet, Place
    <2>2. r = RemoveAt(list, p)
        BY <1>2 DEF Without
    <2> HIDE DEF p, r
    <2>3. /\ r \in Seq(Nat \ {0}) /\ Len(list) \in Nat /\ p \in 1 .. Len(list)
          /\ DOMAIN list = 1 .. Len(list) /\ DOMAIN r = 1 .. (Len(list) - 1)
          /\ \A j \in 1 .. (Len(list) - 1) : r[j] = IF j < p THEN list[j] ELSE list[j + 1]
        <3> DEFINE s == RemoveAt(list, p)
                   NZ == Nat \ {0}
        <3>1. list \in Seq(NZ)
            OBVIOUS
        <3> HIDE DEF NZ
        <3>2. /\ s \in Seq(NZ) /\ Len(list) \in Nat /\ p \in 1 .. Len(list)
              /\ DOMAIN list = 1 .. Len(list) /\ DOMAIN s = 1 .. (Len(list) - 1)
              /\ \A j \in 1 .. (Len(list) - 1) : s[j] = IF j < p THEN list[j] ELSE list[j + 1]
            BY <2>1, <3>1, RemoveAtItems
        <3> HIDE DEF s
        <3>3. s = r
            BY <2>2 DEF s
        <3> QED BY <3>2, <3>3 DEF NZ
    <2> DEFINE old(j) == IF j < p THEN j ELSE j + 1
               n == Len(list)
    <2>4. \A j \in DOMAIN r : old(j) \in DOMAIN list /\ old(j) # p /\ r[j] = list[old(j)]
        <3> HIDE DEF n
        <3>1. /\ n \in Nat /\ p \in 1 .. n /\ DOMAIN list = 1 .. n /\ DOMAIN r = 1 .. (n - 1)
              /\ \A j \in 1 .. (n - 1) : r[j] = IF j < p THEN list[j] ELSE list[j + 1]
            BY <2>3 DEF n
        <3>2. ASSUME NEW j \in 1 .. (n - 1)
              PROVE  old(j) \in 1 .. n /\ old(j) # p
            BY <3>1
        <3>3. ASSUME NEW j \in 1 .. (n - 1)
              PROVE  r[j] = list[old(j)]
            BY <3>1
        <3> QED BY <3>1, <3>2, <3>3
    <2>5. \A i, j \in DOMAIN list : list[i] = list[j] => i = j
        BY ListedOnce
    <2>6. ASSUME NEW i \in DOMAIN list, list[i] # id
          PROVE  \E j \in DOMAIN r : r[j] = list[i]
        <3>1. i # p
            BY <2>1, <2>6
        <3>2. CASE i < p
            <4>1. i \in DOMAIN r /\ r[i] = list[i]
                BY <2>3, <3>2
            <4> QED BY <4>1
        <3>3. CASE i > p
            <4>1. i - 1 \in DOMAIN r /\ ~(i - 1 < p) /\ (i - 1) + 1 = i
                <5> HIDE DEF n
                <5>1. n \in Nat /\ p \in 1 .. n /\ DOMAIN list = 1 .. n /\ DOMAIN r = 1 .. (n - 1)
                    BY <2>3 DEF n
                <5> QED BY <3>3, <5>1
            <4>2. r[i - 1] = list[i]
                BY <2>3, <4>1
            <4> QED BY <4>1, <4>2
        <3> QED BY <2>3, <3>1, <3>2, <3>3
    <2>7. ASSUME NEW j \in DOMAIN r
          PROVE  \E x \in S \ {x0} : text[x].k = "input" /\ text[x].id = r[j]
        <3>1. PICK x \in S : text[x].k = "input" /\ text[x].id = list[old(j)]
            BY <2>4, <2>7 DEF Listed
        <3>2. x # x0
            BY <2>1, <2>4, <2>5, <2>7, <3>1
        <3> QED BY <2>4, <2>7, <3>1, <3>2
    <2>8. ASSUME NEW x \in S \ {x0}, text[x].k = "input"
          PROVE  \E j \in DOMAIN r : r[j] = text[x].id
        <3>1. PICK i \in DOMAIN list : list[i] = text[x].id
            BY <2>8 DEF Listed
        <3>2. list[i] # id
            BY <3>1 DEF Distinct
        <3> QED BY <2>6, <3>1, <3>2
    <2>9. InOrder(r, text)
        <3> SUFFICES ASSUME NEW i \in DOMAIN r, NEW j \in DOMAIN r,
                            NEW x \in DOMAIN text, NEW y \in DOMAIN text,
                            text[x].id = r[i], text[y].id = r[j], i < j
                     PROVE  x < y
            BY DEF InOrder
        <3>1. /\ old(i) \in DOMAIN list /\ r[i] = list[old(i)]
              /\ old(j) \in DOMAIN list /\ r[j] = list[old(j)]
            BY <2>4
        <3>2. i \in Nat /\ j \in Nat /\ p \in Nat
            <4> HIDE DEF n
            <4>1. n \in Nat /\ p \in 1 .. n /\ DOMAIN r = 1 .. (n - 1)
                BY <2>3 DEF n
            <4> QED BY <4>1
        <3>3. old(i) < old(j)
            BY <3>2
        <3> HIDE DEF old
        <3> QED BY <3>1, <3>3 DEF Listed, InOrder
    <2>10. Listed(r, text, S \ {x0})
        BY <2>7, <2>8, <2>9 DEF Listed
    <2> QED BY <2>3, <2>6, <2>10 DEF r
<1> QED BY <1>1, <1>2

LEMMA DeleteItemFacts ==
    ASSUME NEW f \in FormType, NEW text \in Seq(Node), Distinct(text),
           NEW S \in SUBSET DOMAIN text, Listed(f.list, text, S), InFocus(f.list, f.cur),
           NEW x0 \in DOMAIN text
    PROVE  LET t == DeleteItem(f, text[x0].id)
           IN  /\ t \in FormType /\ t.fault = f.fault
               /\ Listed(t.list, text, S \ {x0}) /\ InFocus(t.list, t.cur)
               /\ t.text = f.text /\ t.boxes = f.boxes /\ t.paste = f.paste /\ t.fresh = f.fresh
<1> DEFINE id == text[x0].id
           r == Without(f.list, id)
           first == IF r = <<>> THEN 0 ELSE r[1]
           cur == IF f.cur = id THEN first ELSE f.cur
<1>1. f.list \in Seq(Nat \ {0}) /\ f.cur \in Nat
    BY DEF FormType
<1>2. /\ r \in Seq(Nat \ {0}) /\ Listed(r, text, S \ {x0})
      /\ \A i \in DOMAIN f.list : f.list[i] # id => \E j \in DOMAIN r : r[j] = f.list[i]
    BY <1>1, WithoutFacts
<1>3. DeleteItem(f, id) = [f EXCEPT !.list = r, !.cur = cur]
    BY DEF DeleteItem
<1>4. id # 0
    <2>1. text[x0] \in Node
        OBVIOUS
    <2> QED BY <2>1 DEF Node
<1> HIDE DEF r, id
<1>5. r # <<>> => 1 \in DOMAIN r /\ r[1] \in Nat
    BY <1>2
<1>6. first \in Nat /\ InFocus(r, first)
    BY <1>5 DEF InFocus
<1>7. cur \in Nat /\ InFocus(r, cur)
    <2>1. CASE f.cur = id
        BY <1>6, <2>1
    <2>2. CASE f.cur # id
        <3>1. CASE f.list = <<>>
            <4>1. f.cur = 0
                BY <3>1 DEF InFocus
            <4>2. r = f.list
                BY <3>1 DEF r, Without, ToSet
            <4> QED BY <2>2, <3>1, <4>1, <4>2 DEF InFocus
        <3>2. CASE f.list # <<>>
            <4>1. PICK i \in DOMAIN f.list : f.list[i] = f.cur
                BY <3>2 DEF InFocus
            <4>2. PICK j \in DOMAIN r : r[j] = f.cur
                BY <1>2, <2>2, <4>1
            <4>3. r # <<>>
                BY <4>2
            <4> QED BY <1>1, <2>2, <4>2, <4>3 DEF InFocus
        <3> QED BY <3>1, <3>2
    <2> QED BY <2>1, <2>2
<1> HIDE DEF cur
<1> DEFINE t == [f EXCEPT !.list = r, !.cur = cur]
<1>8. /\ t \in FormType /\ t.fault = f.fault /\ t.list = r /\ t.cur = cur
      /\ t.text = f.text /\ t.boxes = f.boxes /\ t.paste = f.paste /\ t.fresh = f.fresh
    BY <1>2, <1>7 DEF FormType
<1> HIDE DEF t
<1> QED BY <1>2, <1>3, <1>7, <1>8 DEF id, t

(***************************************************************************)
(* Freeing the nodes of an area: what has become of the page f.            *)
(***************************************************************************)
\* The ends of the areas are where they were, or forgotten.
EndsKept(f, t) ==
    \A q \in PasteNames : /\ t.paste[q].begin \in {f.paste[q].begin, 0}
                          /\ t.paste[q].end \in {f.paste[q].end, 0}

\* A paste node that knows of a button: there is one at a place of S which
\* keeps its address.
ButtonsKnown(f, text, S) ==
    \A q \in PasteNames : f.paste[q].id # 0 /\ f.paste[q].hasbutton =>
        \E x \in S : /\ text[x].k = "button" /\ text[x].n = q
                     /\ <<text[x].id, f.paste[q].id>> \in f.links

Freeing(f, text, S, t) ==
    /\ t \in FormType
    /\ t.text = f.text /\ t.boxes = f.boxes /\ t.fresh = f.fresh
    /\ t.fault = "no" => /\ f.fault = "no" /\ EndsKept(f, t)
                         /\ Listed(t.list, text, S) /\ InFocus(t.list, t.cur)
                         /\ ButtonsKnown(t, text, S)

\* One paste node is changed.
LEMMA PasteSet ==
    ASSUME NEW f \in FormType, NEW q \in PasteNames, NEW pn \in PasteNode,
           pn.begin \in {f.paste[q].begin, 0}, pn.end \in {f.paste[q].end, 0}
    PROVE  LET t == [f EXCEPT !.paste[q] = pn]
           IN  /\ t \in FormType /\ EndsKept(f, t) /\ t.fault = f.fault
               /\ t.text = f.text /\ t.boxes = f.boxes /\ t.fresh = f.fresh
               /\ t.list = f.list /\ t.cur = f.cur /\ t.links = f.links
               /\ t.paste[q] = pn /\ \A x \in PasteNames : x # q => t.paste[x] = f.paste[x]
<1> DEFINE ps == [f.paste EXCEPT ![q] = pn]
<1>1. f.paste \in [PasteNames -> PasteNode]
    BY DEF FormType
<1>2. ps \in [PasteNames -> PasteNode] /\ ps[q] = pn /\ \A x \in PasteNames : x # q => ps[x] = f.paste[x]
    BY <1>1
<1>3. [f EXCEPT !.paste[q] = pn] = [f EXCEPT !.paste = ps]
    OBVIOUS
<1> HIDE DEF ps
<1> DEFINE t == [f EXCEPT !.paste = ps]
<1>4. /\ t \in FormType /\ t.fault = f.fault /\ t.paste = ps
      /\ t.text = f.text /\ t.boxes = f.boxes /\ t.fresh = f.fresh
      /\ t.list = f.list /\ t.cur = f.cur /\ t.links = f.links
    BY <1>2 DEF FormType
<1> HIDE DEF t
<1>5. EndsKept(f, t)
    BY <1>2, <1>4 DEF EndsKept
<1> QED BY <1>2, <1>3, <1>4, <1>5 DEF t

LEMMA NoPasteFacts ==
    /\ NoPaste \in PasteNode /\ NoPaste.begin = 0 /\ NoPaste.end = 0
    /\ NoPaste.id = 0 /\ NoPaste.hasbutton = FALSE
BY DEF NoPaste, AllocPasteNode, PasteNode

LEMMA FreePasteareaFacts ==
    ASSUME NEW f \in FormType, NEW q \in PasteNames
    PROVE  LET t == FreePastearea(f, q)
           IN  /\ t \in FormType /\ EndsKept(f, t) /\ t.fault = f.fault
               /\ t.text = f.text /\ t.boxes = f.boxes /\ t.fresh = f.fresh
               /\ t.list = f.list /\ t.cur = f.cur /\ t.links = f.links
               /\ \A x \in PasteNames : x # q => t.paste[x] = f.paste[x]
               /\ t.paste[q].hasbutton = f.paste[q].hasbutton
               /\ f.paste[q].hasbutton => t.paste[q].id = f.paste[q].id
<1>1. CASE f.paste[q].id = 0
    BY <1>1 DEF FreePastearea, EndsKept
<1>2. CASE f.paste[q].id # 0
    <2> DEFINE no == FALSE
               off == [f.paste[q] EXCEPT !.haspaste = no]
               pn == IF f.paste[q].hasbutton THEN off ELSE NoPaste
    <2>1. f.paste[q] \in PasteNode /\ no \in BOOLEAN
        BY DEF FormType
    <2>2. FreePastearea(f, q) = [f EXCEPT !.paste[q] = pn]
        BY <1>2 DEF FreePastearea
    <2> HIDE DEF no
    <2>3. /\ off \in PasteNode /\ off.begin = f.paste[q].begin /\ off.end = f.paste[q].end
          /\ off.id = f.paste[q].id /\ off.hasbutton = f.paste[q].hasbutton
        BY <2>1 DEF PasteNode
    <2> HIDE DEF off
    <2>4. pn \in PasteNode /\ pn.begin \in {f.paste[q].begin, 0} /\ pn.end \in {f.paste[q].end, 0}
        BY <2>3, NoPasteFacts
    <2>5. pn.hasbutton = f.paste[q].hasbutton
        <3>1. f.paste[q].hasbutton \in BOOLEAN
            BY <2>1 DEF PasteNode
        <3>2. CASE f.paste[q].hasbutton
            BY <2>3, <3>2
        <3>3. CASE ~f.paste[q].hasbutton
            BY <3>1, <3>3, NoPasteFacts
        <3> QED BY <3>2, <3>3
    <2>6. f.paste[q].hasbutton => pn.id = f.paste[q].id
        BY <2>3
    <2> HIDE DEF pn
    <2> QED BY <2>2, <2>4, <2>5, <2>6, PasteSet
<1> QED BY <1>1, <1>2

LEMMA FreePastebuttonFacts ==
    ASSUME NEW f \in FormType, NEW q \in PasteNames
    PROVE  LET t == FreePastebutton(f, q)
           IN  /\ t \in FormType /\ EndsKept(f, t) /\ (t.fault = "no" => f.fault = "no")
               /\ t.text = f.text /\ t.boxes = f.boxes /\ t.fresh = f.fresh
               /\ t.list = f.list /\ t.cur = f.cur /\ t.links = f.links
               /\ \A x \in PasteNames : x # q => t.paste[x] = f.paste[x]
               /\ t.paste[q].id # 0 => ~t.paste[q].hasbutton
               /\ f.paste[q].id # 0 => t.fault = f.fault
<1>1. CASE f.paste[q].id = 0
    <2>1. FreePastebutton(f, q) = FormTrouble(f, "null") /\ "null" \in FormTroubles
        BY <1>1 DEF FreePastebutton, FormTroubles
    <2> DEFINE t == FormTrouble(f, "null")
    <2>2. /\ t \in FormType /\ t.fault # "no"
          /\ t.text = f.text /\ t.list = f.list /\ t.cur = f.cur /\ t.boxes = f.boxes
          /\ t.paste = f.paste /\ t.links = f.links /\ t.fresh = f.fresh
        BY <2>1, TroubleFacts
    <2> HIDE DEF t
    <2>3. EndsKept(f, t)
        BY <2>2 DEF EndsKept
    <2> QED BY <1>1, <2>1, <2>2, <2>3 DEF t
<1>2. CASE f.paste[q].id # 0
    <2> DEFINE no == FALSE
               off == [f.paste[q] EXCEPT !.hasbutton = no]
               pn == IF f.paste[q].haspaste THEN off ELSE NoPaste
    <2>1. f.paste[q] \in PasteNode /\ no \in BOOLEAN
        BY DEF FormType
    <2>2. FreePastebutton(f, q) = [f EXCEPT !.paste[q] = pn]
        BY <1>2 DEF FreePastebutton
    <2>5. ~no
        OBVIOUS
    <2> HIDE DEF no
    <2>3. /\ off \in PasteNode /\ off.begin = f.paste[q].begin /\ off.end = f.paste[q].end
          /\ off.hasbutton = no
        BY <2>1 DEF PasteNode
    <2> HIDE DEF off
    <2>6. pn.id # 0 => ~pn.hasbutton
        BY <2>3, <2>5, NoPasteFacts
    <2>4. pn \in PasteNode /\ pn.begin \in {f.paste[q].begin, 0} /\ pn.end \in {f.paste[q].end, 0}
        BY <2>3, NoPasteFacts
    <2> HIDE DEF pn
    <2> QED BY <1>2, <2>2, <2>4, <2>6, PasteSet
<1> QED BY <1>1, <1>2

LEMMA FreeNodeButtons ==
    ASSUME NEW t \in FormType, t.fault = "no", NEW text, NEW S, ButtonsKnown(t, text, S),
           NEW x \in S, text[x].k \in OfPastes => text[x].n \in PasteNames
    PROVE  ButtonsKnown(FreeNode(t, text[x]), text, S \ {x})
<1> DEFINE nd == text[x]
           u == FreeNode(t, nd)
<1>1. CASE nd.k = "button"
    <2>1. nd.n \in PasteNames /\ u = FreePastebutton(t, nd.n)
        BY <1>1 DEF FreeNode, OfPastes
    <2> HIDE DEF u
    <2>2. /\ u.links = t.links /\ \A q \in PasteNames : q # nd.n => u.paste[q] = t.paste[q]
          /\ u.paste[nd.n].id # 0 => ~u.paste[nd.n].hasbutton
        BY <2>1, FreePastebuttonFacts
    <2>3. ButtonsKnown(u, text, S \ {x})
        BY <2>2 DEF ButtonsKnown
    <2> QED BY <2>3 DEF u
<1>2. CASE nd.k # "button"
    <2>1. /\ u.links = t.links
          /\ \A q \in PasteNames : u.paste[q].id # 0 /\ u.paste[q].hasbutton =>
               u.paste[q].id = t.paste[q].id /\ t.paste[q].hasbutton
        <3>1. CASE nd.k = "paste"
            <4>1. nd.n \in PasteNames /\ u = FreePastearea(t, nd.n)
                BY <3>1 DEF FreeNode, OfPastes
            <4> HIDE DEF u
            <4>2. /\ u.links = t.links /\ \A q \in PasteNames : q # nd.n => u.paste[q] = t.paste[q]
                  /\ u.paste[nd.n].hasbutton = t.paste[nd.n].hasbutton
                  /\ t.paste[nd.n].hasbutton => u.paste[nd.n].id = t.paste[nd.n].id
                BY <4>1, FreePasteareaFacts
            <4> QED BY <4>2
        <3>2. CASE nd.k = "input"
            <4>1. u = DeleteItem(t, nd.id)
                BY <3>2 DEF FreeNode
            <4> HIDE DEF u
            <4>2. u.links = t.links /\ u.paste = t.paste
                BY <4>1 DEF DeleteItem, FormType
            <4> QED BY <4>2
        <3>3. CASE nd.k \notin {"paste", "input"}
            <4>1. u = t
                BY <1>2, <3>3 DEF FreeNode
            <4> QED BY <4>1
        <3> QED BY <3>1, <3>2, <3>3
    <2> HIDE DEF u
    <2>2. ButtonsKnown(u, text, S \ {x})
        BY <1>2, <2>1 DEF ButtonsKnown
    <2> QED BY <2>2 DEF u
<1> QED BY <1>1, <1>2

LEMMA FreeNodeFacts ==
    ASSUME NEW f, NEW text \in Seq(Node), Distinct(text),
           NEW S \in SUBSET DOMAIN text, NEW t, Freeing(f, text, S, t), NEW x \in S,
           text[x].k \in OfPastes => text[x].n \in PasteNames
    PROVE  Freeing(f, text, S \ {x}, FreeNode(t, text[x]))
<1> DEFINE nd == text[x]
           u == FreeNode(t, nd)
<1>1. /\ t \in FormType
      /\ t.text = f.text /\ t.boxes = f.boxes /\ t.fresh = f.fresh
      /\ t.fault = "no" => /\ f.fault = "no" /\ EndsKept(f, t)
                           /\ Listed(t.list, text, S) /\ InFocus(t.list, t.cur)
                           /\ ButtonsKnown(t, text, S)
    BY DEF Freeing
<1>2. CASE t.fault # "no"
    <2>1. u = t
        BY <1>2 DEF FreeNode
    <2> QED BY <1>1, <1>2, <2>1 DEF Freeing
<1>3. CASE t.fault = "no"
    <2>1. /\ f.fault = "no" /\ EndsKept(f, t) /\ ButtonsKnown(t, text, S)
          /\ Listed(t.list, text, S) /\ InFocus(t.list, t.cur)
        BY <1>1, <1>3
    <2>4. ButtonsKnown(u, text, S \ {x})
        BY <1>1, <1>3, <2>1, FreeNodeButtons
    <2>2. CASE nd.k = "input"
        <3>1. u = DeleteItem(t, nd.id)
            BY <1>3, <2>2 DEF FreeNode
        <3> HIDE DEF u
        <3>2. x \in DOMAIN text
            OBVIOUS
        <3>3. /\ u \in FormType /\ u.fault = t.fault
              /\ Listed(u.list, text, S \ {x}) /\ InFocus(u.list, u.cur)
              /\ u.text = t.text /\ u.boxes = t.boxes /\ u.paste = t.paste /\ u.fresh = t.fresh
            BY <1>1, <2>1, <3>1, <3>2, DeleteItemFacts
        <3> QED BY <1>1, <2>1, <2>4, <3>3 DEF Freeing, EndsKept, u
    <2>3. CASE nd.k # "input"
        <3>1. \A v : Listed(v, text, S) => Listed(v, text, S \ {x})
            BY <2>3, ListedLess
        <3>2. /\ u \in FormType /\ EndsKept(t, u) /\ (u.fault = "no" => t.fault = "no")
              /\ u.text = t.text /\ u.boxes = t.boxes /\ u.fresh = t.fresh
              /\ u.list = t.list /\ u.cur = t.cur
            <4>1. CASE nd.k = "paste"
                <5>1. nd.n \in PasteNames /\ u = FreePastearea(t, nd.n)
                    BY <1>3, <4>1 DEF FreeNode, OfPastes
                <5> HIDE DEF u
                <5> QED BY <1>1, <5>1, FreePasteareaFacts
            <4>2. CASE nd.k = "button"
                <5>1. nd.n \in PasteNames /\ u = FreePastebutton(t, nd.n)
                    BY <1>3, <4>2 DEF FreeNode, OfPastes
                <5> HIDE DEF u
                <5> QED BY <1>1, <5>1, FreePastebuttonFacts
            <4>3. CASE nd.k \notin {"paste", "button"}
                <5>1. u = t
                    BY <1>3, <2>3, <4>3 DEF FreeNode
                <5> HIDE DEF u
                <5> QED BY <1>1, <5>1 DEF EndsKept
            <4> QED BY <4>1, <4>2, <4>3
        <3> HIDE DEF u
        <3>3. EndsKept(f, u)
            BY <2>1, <3>2 DEF EndsKept
        <3>4. Listed(u.list, text, S \ {x}) /\ InFocus(u.list, u.cur)
            BY <2>1, <3>1, <3>2
        <3> QED BY <1>1, <2>1, <2>4, <3>2, <3>3, <3>4 DEF Freeing, u
    <2> QED BY <2>2, <2>3
<1> QED BY <1>2, <1>3

\* Freed, of n nodes of the text after place b: the pages that become of f,
\* node by node, up to the first radio box.
FreeingPages(f, text, b, n, pg, stop, t) ==
    /\ pg[0] = f
    /\ \A m \in Nat : m < n => pg[m + 1] = FreeNode(pg[m], text[b + (m + 1)])
    /\ t = IF \E i \in stop + 1 .. n : text[b + i].k \in {"input", "paste", "button"}
           THEN FormTrouble(pg[stop], "not freed") ELSE pg[stop]
    /\ (\A x \in DOMAIN text : text[x].k # "radio") => stop = n

LEMMA FreedIs ==
    ASSUME NEW f, NEW text \in Seq(Node),
           NEW b \in Nat, NEW e \in Nat, b <= e, e <= Len(text)
    PROVE  \E pg : \E stop \in 0 .. e - b :
               FreeingPages(f, text, b, e - b, pg, stop, Freed(f, SubSeq(text, b + 1, e)))
<1> DEFINE old == SubSeq(text, b + 1, e)
           N == e - b
           Is(page, n) == page = [m \in 0 .. n |-> IF m = 0 THEN f
                                                    ELSE FreeNode(page[m - 1], old[m])]
           E == {n \in Nat : \E page : Is(page, n)}
<1>1. /\ N \in Nat /\ Len(old) = N /\ DOMAIN old = 1 .. N /\ old \in Seq(Node)
      /\ \A m \in 1 .. N : old[m] = text[b + m] /\ b + m \in DOMAIN text
    <2> DEFINE L == Len(text)
    <2>1. L \in Nat /\ DOMAIN text = 1 .. L /\ e <= L
        OBVIOUS
    <2> HIDE DEF L
    <2>2. b + 1 \in Nat /\ \A m \in b + 1 .. e : m \in DOMAIN text /\ text[m] \in Node
        BY <2>1
    <2>3. old = [m \in 1 .. N |-> text[b + 1 + m - 1]]
        <3>1. old = [m \in 1 .. (e - (b + 1) + 1) |-> text[b + 1 + m - 1]]
            BY DEF SubSeq
        <3>2. e - (b + 1) + 1 = N
            OBVIOUS
        <3> HIDE DEF N
        <3> QED BY <3>1, <3>2
    <2>4. N \in Nat
        OBVIOUS
    <2>5. \A m \in 1 .. N : b + 1 + m - 1 = b + m /\ b + m \in DOMAIN text
        BY <2>1
    <2> HIDE DEF N, old
    <2>6. \A m \in 1 .. N : old[m] = text[b + m] /\ b + m \in DOMAIN text
        BY <2>3, <2>5
    <2>7. old \in [1 .. N -> Node]
        BY <2>3, <2>5
    <2>8. old \in Seq(Node) /\ Len(old) = N /\ DOMAIN old = 1 .. N
        BY <2>4, <2>7
    <2> QED BY <2>4, <2>6, <2>8
<1> HIDE DEF old, N
<1>2. 0 \in E
    <2> DEFINE page == [m \in 0 .. 0 |-> f]
    <2>1. page = [m \in 0 .. 0 |-> IF m = 0 THEN f ELSE FreeNode(page[m - 1], old[m])]
        <3>1. \A m \in 0 .. 0 : m = 0
            OBVIOUS
        <3> QED BY <3>1
    <2> HIDE DEF page
    <2> QED BY <2>1
<1>3. ASSUME NEW n \in E
      PROVE  n + 1 \in E
    <2>1. n \in Nat /\ \E page : Is(page, n)
        OBVIOUS
    <2>2. PICK page : Is(page, n)
        BY <2>1
    <2> DEFINE last == FreeNode(page[n], old[n + 1])
               new == [m \in 0 .. n + 1 |-> IF m = n + 1 THEN last ELSE page[m]]
    <2>3. ASSUME NEW m \in 0 .. n + 1
          PROVE  new[m] = IF m = 0 THEN f ELSE FreeNode(new[m - 1], old[m])
        <3>1. CASE m = n + 1
            <4>1. new[m] = last /\ m # 0 /\ m - 1 = n /\ n \in 0 .. n + 1 /\ n # n + 1
                BY <2>1, <3>1
            <4>2. new[n] = page[n]
                BY <4>1
            <4> QED BY <3>1, <4>1, <4>2
        <3>2. CASE m # n + 1
            <4>1. m \in 0 .. n /\ new[m] = page[m]
                BY <2>1, <3>2
            <4>2. page[m] = IF m = 0 THEN f ELSE FreeNode(page[m - 1], old[m])
                BY <2>2, <4>1
            <4>3. CASE m = 0
                BY <4>1, <4>2, <4>3
            <4>4. CASE m # 0
                <5>1. m - 1 \in 0 .. n + 1 /\ m - 1 # n + 1
                    BY <2>1, <4>1, <4>4
                <5>2. new[m - 1] = page[m - 1]
                    BY <5>1
                <5> QED BY <4>1, <4>2, <4>4, <5>2
            <4> QED BY <4>3, <4>4
        <3> QED BY <3>1, <3>2
    <2>4. Is(new, n + 1)
        <3>1. new = [m \in 0 .. n + 1 |-> new[m]]
            OBVIOUS
        <3> HIDE DEF new
        <3> QED BY <2>3, <3>1
    <2> HIDE DEF new, Is
    <2>5. n + 1 \in Nat
        BY <2>1
    <2> QED BY <2>4, <2>5
<1>4. \E page : Is(page, N)
    <2>1. E \in SUBSET Nat
        OBVIOUS
    <2> HIDE DEF E
    <2>2. N \in E
        BY <1>1, <1>2, <1>3, <2>1, Induct
    <2> QED BY <2>2 DEF E
<1> DEFINE pg == CHOOSE page : Is(page, N)
<1>5. Is(pg, N)
    <2> HIDE DEF Is
    <2> QED BY <1>4
<1> DEFINE radios == {i \in DOMAIN old : old[i].k = "radio"}
           stop == IF radios = {} THEN N ELSE Min(radios) - 1
           fails == \E i \in stop + 1 .. N : old[i].k \in {"input", "paste", "button"}
<1>6. Freed(f, old) = IF fails THEN FormTrouble(pg[stop], "not freed") ELSE pg[stop]
    BY <1>1 DEF Freed
<1>7. stop \in 0 .. N
    <2>1. CASE radios = {}
        BY <1>1, <2>1
    <2>2. CASE radios # {}
        <3>1. radios \in SUBSET Nat /\ radios \in SUBSET (1 .. N)
            BY <1>1
        <3> HIDE DEF radios
        <3>2. \E x \in radios : \A y \in radios : x <= y
            BY <2>2, <3>1, LeastElement
        <3>3. Min(radios) \in radios
            BY <3>2 DEF Min
        <3>4. Min(radios) \in 1 .. N
            BY <3>1, <3>3
        <3> QED BY <1>1, <2>2, <3>4
    <2> QED BY <2>1, <2>2
<1>8. /\ pg[0] = f
      /\ \A m \in Nat : m < N => pg[m + 1] = FreeNode(pg[m], old[m + 1])
    <2>1. 0 \in 0 .. N
        BY <1>1
    <2>2. pg[0] = f
        BY <1>5, <2>1
    <2>3. ASSUME NEW m \in Nat, m < N
          PROVE  pg[m + 1] = FreeNode(pg[m], old[m + 1])
        <3>1. m + 1 \in 0 .. N /\ m + 1 # 0 /\ (m + 1) - 1 = m
            BY <1>1, <2>3
        <3>2. pg[m + 1] = FreeNode(pg[(m + 1) - 1], old[m + 1])
            BY <1>5, <3>1
        <3> QED BY <3>1, <3>2
    <2> QED BY <2>2, <2>3
<1>9. \A i \in 1 .. N : old[i] = text[b + i]
    BY <1>1
<1>10. fails <=> \E i \in stop + 1 .. N : text[b + i].k \in {"input", "paste", "button"}
    <2>1. \A i \in stop + 1 .. N : i \in 1 .. N
        BY <1>1, <1>7
    <2> HIDE DEF stop
    <2> QED BY <1>9, <2>1
<1>11. (\A x \in DOMAIN text : text[x].k # "radio") => stop = N
    <2>1. (\A x \in DOMAIN text : text[x].k # "radio") => radios = {}
        BY <1>1
    <2> QED BY <2>1
<1>12. \A m \in Nat : m < N => pg[m + 1] = FreeNode(pg[m], text[b + (m + 1)])
    <2>1. \A m \in Nat : m < N => m + 1 \in 1 .. N
        BY <1>1
    <2> QED BY <1>8, <1>9, <2>1
<1>13. FreeingPages(f, text, b, N, pg, stop, Freed(f, old))
    <2> HIDE DEF Is, E, pg, stop, radios
    <2>1. CASE fails
        <3>1. \E i \in stop + 1 .. N : text[b + i].k \in {"input", "paste", "button"}
            BY <1>10, <2>1
        <3> HIDE DEF fails
        <3> QED BY <1>6, <1>8, <1>11, <1>12, <2>1, <3>1 DEF FreeingPages
    <2>2. CASE ~fails
        <3>1. ~ \E i \in stop + 1 .. N : text[b + i].k \in {"input", "paste", "button"}
            BY <1>10, <2>2
        <3> HIDE DEF fails
        <3> QED BY <1>6, <1>8, <1>11, <1>12, <2>2, <3>1 DEF FreeingPages
    <2> QED BY <2>1, <2>2
<1> HIDE DEF Is, E, pg, stop, fails
<1> QED BY <1>7, <1>13 DEF N, old

LEMMA OneMore ==
    ASSUME NEW b \in Nat, NEW m \in Nat
    PROVE  \A y \in Nat : y \in b + 1 .. b + (m + 1) <=> (y \in b + 1 .. b + m \/ y = b + (m + 1))
OBVIOUS

LEMMA FreedFacts ==
    ASSUME NEW f \in FormType, f.fault = "no", NEW text \in Seq(Node), Distinct(text),
           \A x \in DOMAIN text : text[x].k \in OfPastes => text[x].n \in PasteNames,
           Listed(f.list, text, DOMAIN text), InFocus(f.list, f.cur),
           ButtonsKnown(f, text, DOMAIN text),
           NEW b \in Nat, NEW e \in Nat, b <= e, e <= Len(text)
    PROVE  Freeing(f, text, DOMAIN text \ (b + 1 .. e), Freed(f, SubSeq(text, b + 1, e)))
<1> DEFINE N == e - b
           Left(m) == DOMAIN text \ (b + 1 .. b + m)
           freed == Freed(f, SubSeq(text, b + 1, e))
<1>1. N \in Nat /\ \A m \in 1 .. N : b + m \in DOMAIN text
    <2> DEFINE L == Len(text)
    <2>1. L \in Nat /\ DOMAIN text = 1 .. L /\ e <= L
        OBVIOUS
    <2> HIDE DEF L
    <2> QED BY <2>1
<1>2. PICK pg : \E stop \in 0 .. N : FreeingPages(f, text, b, N, pg, stop, freed)
    BY FreedIs
<1>4. PICK stop \in 0 .. N : FreeingPages(f, text, b, N, pg, stop, freed)
    BY <1>2
<1>3. /\ pg[0] = f
      /\ \A m \in Nat : m < N => pg[m + 1] = FreeNode(pg[m], text[b + (m + 1)])
      /\ freed = IF \E i \in stop + 1 .. N : text[b + i].k \in {"input", "paste", "button"}
                 THEN FormTrouble(pg[stop], "not freed") ELSE pg[stop]
    BY <1>4 DEF FreeingPages
<1> DEFINE fails == \E i \in stop + 1 .. N : text[b + i].k \in {"input", "paste", "button"}
<1> HIDE DEF N, freed, fails
<1> DEFINE T == {m \in Nat : m <= N => Freeing(f, text, Left(m), pg[m])}
<1>9. 0 \in T
    <2>1. Left(0) = DOMAIN text
        <3>1. b + 1 .. b + 0 = {}
            OBVIOUS
        <3> QED BY <3>1
    <2>2. EndsKept(f, f)
        BY DEF EndsKept
    <2> QED BY <1>3, <2>1, <2>2 DEF Freeing
<1>10. ASSUME NEW m \in T
       PROVE  m + 1 \in T
    <2>1. m \in Nat /\ m + 1 \in Nat /\ (m <= N => Freeing(f, text, Left(m), pg[m]))
        OBVIOUS
    <2>2. ASSUME m + 1 <= N
          PROVE  Freeing(f, text, Left(m + 1), pg[m + 1])
        <3>1. m <= N /\ m < N /\ m + 1 \in 1 .. N
            BY <1>1, <2>1, <2>2
        <3>2. Freeing(f, text, Left(m), pg[m])
            BY <2>1, <3>1
        <3> DEFINE x == b + (m + 1)
        <3>3. pg[m + 1] = FreeNode(pg[m], text[x])
            BY <1>3, <2>1, <3>1
        <3>4. x \in DOMAIN text
            BY <1>1, <3>1
        <3>5. x \in Left(m) /\ Left(m + 1) = Left(m) \ {x}
            <4>1. \A y \in Nat : y \in b + 1 .. b + (m + 1) <=> (y \in b + 1 .. b + m \/ y = x)
                BY <2>1, OneMore
            <4>2. DOMAIN text \subseteq Nat /\ x \notin b + 1 .. b + m
                BY <2>1
            <4> QED BY <3>4, <4>1, <4>2
        <3>6. Left(m) \in SUBSET DOMAIN text
            OBVIOUS
        <3> HIDE DEF Left, x
        <3>7. Freeing(f, text, Left(m) \ {x}, FreeNode(pg[m], text[x]))
            BY <3>2, <3>4, <3>5, <3>6, FreeNodeFacts
        <3> QED BY <3>3, <3>4, <3>5, <3>7
    <2> QED BY <2>1, <2>2
<1>11. Freeing(f, text, Left(stop), pg[stop])
    <2>1. T \in SUBSET Nat
        OBVIOUS
    <2> HIDE DEF T
    <2>2. \A n \in Nat : n \in T
        BY <1>9, <1>10, <2>1, Induct
    <2>3. stop \in Nat /\ stop <= N
        BY <1>1
    <2>4. stop \in T /\ stop <= N
        BY <2>2, <2>3
    <2> QED BY <2>4 DEF T
<1> DEFINE t == pg[stop]
           R == DOMAIN text \ (b + 1 .. e)
<1>12. CASE fails
    <2>1. t \in FormType /\ t.text = f.text /\ t.boxes = f.boxes /\ t.fresh = f.fresh
        BY <1>11 DEF Freeing
    <2> DEFINE u == FormTrouble(t, "not freed")
    <2>2. "not freed" \in FormTroubles
        BY DEF FormTroubles
    <2>3. /\ u \in FormType /\ u.fault # "no"
          /\ u.text = t.text /\ u.list = t.list /\ u.cur = t.cur /\ u.boxes = t.boxes
          /\ u.paste = t.paste /\ u.links = t.links /\ u.fresh = t.fresh
        BY <2>1, <2>2, TroubleFacts
    <2>4. freed = u
        BY <1>3, <1>12 DEF fails
    <2> HIDE DEF u, t
    <2> QED BY <2>1, <2>3, <2>4 DEF Freeing, freed
<1>13. CASE ~fails
    <2>1. freed = t
        BY <1>3, <1>13 DEF fails
    <2>2. b + N = e
        BY DEF N
    <2>3. R \in SUBSET Left(stop)
        BY <1>1, <2>2
    <2>4. ASSUME NEW x \in Left(stop) \ R
          PROVE  text[x].k \notin {"input", "button"}
        <3>1. x \in Nat /\ x \in b + 1 .. e /\ x \notin b + 1 .. b + stop
            OBVIOUS
        <3> DEFINE i == x - b
        <3>2. i \in stop + 1 .. N /\ b + i = x
            BY <1>1, <2>2, <3>1
        <3> HIDE DEF i
        <3> QED BY <1>13, <3>2 DEF fails
    <2> HIDE DEF Left, R, t
    <2>5. \A v : Listed(v, text, Left(stop)) => Listed(v, text, R)
        BY <2>3, <2>4, ListedLess
    <2>7. ButtonsKnown(t, text, Left(stop)) => ButtonsKnown(t, text, R)
        BY <2>3, <2>4 DEF ButtonsKnown
    <2>6. Freeing(f, text, R, t)
        BY <1>11, <2>5, <2>7 DEF Freeing, t
    <2> QED BY <2>1, <2>6 DEF R, freed
<1> QED BY <1>12, <1>13

(***************************************************************************)
(* A patch in the place of an area: the nodes of `text' but those from b   *)
(* to e go to the places `old' of t, and `nodes' to the places `new'.      *)
(***************************************************************************)
Outside(text, b, e) == {x \in DOMAIN text : x < b \/ x > e}

Spliced(text, b, e, nodes, t, old, new) ==
    /\ t \in Seq(Node)
    /\ old \in [Outside(text, b, e) -> DOMAIN t]
    /\ new \in [1 .. Len(nodes) -> DOMAIN t]
    /\ \A x \in Outside(text, b, e) : t[old[x]] = text[x]
    /\ \A u \in 1 .. Len(nodes) : t[new[u]] = nodes[u]
    /\ \A x, y \in Outside(text, b, e) : x < y => old[x] < old[y]
    /\ \A u, v \in 1 .. Len(nodes) : u < v => new[u] < new[v]
    /\ \A x \in Outside(text, b, e), u \in 1 .. Len(nodes) :
         IF x < b THEN old[x] < new[u] ELSE new[u] < old[x]
    /\ \A i \in DOMAIN t : \/ \E x \in Outside(text, b, e) : i = old[x]
                           \/ \E u \in 1 .. Len(nodes) : i = new[u]

LEMMA SpliceIsSpliced ==
    ASSUME NEW text \in Seq(Node), NEW b \in Nat \ {0}, NEW e \in Nat, b <= e + 1, e <= Len(text),
           NEW nodes \in Seq(Node), NEW t \in Seq(Node),
           Len(t) = b - 1 + Len(nodes) + (Len(text) - e),
           \A i \in 1 .. b - 1 : t[i] = text[i],
           \A u \in 1 .. Len(nodes) : t[b - 1 + u] = nodes[u],
           \A i \in e + 1 .. Len(text) : t[i - e + (b - 1) + Len(nodes)] = text[i]
    PROVE  \E old, new : Spliced(text, b, e, nodes, t, old, new)
<1> DEFINE L == Len(text)
           M == Len(nodes)
           K == Len(t)
           Out == Outside(text, b, e)
           old == [x \in Out |-> IF x < b THEN x ELSE x - e + (b - 1) + M]
           new == [u \in 1 .. M |-> b - 1 + u]
<1>1. /\ L \in Nat /\ M \in Nat /\ K \in Nat /\ e <= L /\ K = b - 1 + M + (L - e)
      /\ DOMAIN text = 1 .. L /\ DOMAIN t = 1 .. K
    OBVIOUS
<1>2. /\ \A i \in 1 .. b - 1 : t[i] = text[i]
      /\ \A u \in 1 .. M : t[b - 1 + u] = nodes[u]
      /\ \A i \in e + 1 .. L : t[i - e + (b - 1) + M] = text[i]
    OBVIOUS
<1> HIDE DEF L, M, K
<1>3. Out = {x \in 1 .. L : x < b \/ x > e}
    BY <1>1 DEF Outside
<1> HIDE DEF Out
<1>4. \A x \in Out : x \in Nat /\ old[x] \in 1 .. K /\ t[old[x]] = text[x]
    <2> TAKE x \in Out
    <2>1. CASE x < b
        <3>1. x \in 1 .. b - 1 /\ old[x] = x /\ x \in 1 .. K
            BY <1>1, <1>3, <2>1
        <3> QED BY <1>2, <3>1
    <2>2. CASE ~(x < b)
        <3>1. x \in e + 1 .. L /\ old[x] = x - e + (b - 1) + M
            BY <1>1, <1>3, <2>2
        <3>2. x - e + (b - 1) + M \in 1 .. K
            BY <1>1, <3>1
        <3> QED BY <1>2, <3>1, <3>2
    <2> QED BY <2>1, <2>2
<1>5. \A u \in 1 .. M : new[u] = b - 1 + u /\ new[u] \in 1 .. K /\ t[new[u]] = nodes[u]
    BY <1>1, <1>2
<1>6. \A x, y \in Out : x < y => old[x] < old[y]
    BY <1>1, <1>3
<1>7. \A x \in Out, u \in 1 .. M : IF x < b THEN old[x] < new[u] ELSE new[u] < old[x]
    BY <1>1, <1>3
<1>8. ASSUME NEW i \in 1 .. K
      PROVE  (\E x \in Out : i = old[x]) \/ (\E u \in 1 .. M : i = new[u])
    <2>1. CASE i < b
        <3>1. i \in Out /\ old[i] = i
            BY <1>1, <1>3, <2>1
        <3> QED BY <3>1
    <2>2. CASE i >= b /\ i <= b - 1 + M
        <3> DEFINE u == i - (b - 1)
        <3>1. u \in 1 .. M /\ b - 1 + u = i
            BY <1>1, <2>2
        <3> QED BY <1>5, <3>1
    <2>3. CASE i > b - 1 + M
        <3> DEFINE x == i - (b - 1) - M + e
        <3>1. x \in 1 .. L /\ x > e /\ ~(x < b) /\ x - e + (b - 1) + M = i
            BY <1>1, <2>3
        <3> HIDE DEF x
        <3>2. x \in Out /\ old[x] = i
            BY <1>3, <3>1
        <3> QED BY <3>2
    <2> QED BY <1>1, <2>1, <2>2, <2>3
<1>9. \A u, v \in 1 .. M : u < v => new[u] < new[v]
    BY <1>1
<1>10. old \in [Out -> 1 .. K] /\ new \in [1 .. M -> 1 .. K]
    BY <1>4, <1>5
<1> HIDE DEF old, new
<1>11. Spliced(text, b, e, nodes, t, old, new)
    BY <1>1, <1>4, <1>5, <1>6, <1>7, <1>8, <1>9, <1>10 DEF Spliced, M, Out
<1> QED BY <1>11

\* The patch itself, and a page that is read anew.
LEMMA PatchIsSpliced ==
    ASSUME NEW text \in Seq(Node), NEW b \in 1 .. Len(text), NEW e \in b .. Len(text),
           NEW nodes \in Seq(Node)
    PROVE  LET t == SubSeq(text, 1, b - 1) \o nodes \o SubSeq(text, e + 1, Len(text))
           IN  t \in Seq(Node) /\ \E old, new : Spliced(text, b, e, nodes, t, old, new)
<1> DEFINE L == Len(text)
           M == Len(nodes)
           p == SubSeq(text, 1, b - 1)
           q == SubSeq(text, e + 1, L)
           r == p \o nodes
           t == r \o q
<1>1. L \in Nat /\ M \in Nat /\ b \in 1 .. L /\ e \in b .. L /\ DOMAIN text = 1 .. L
    OBVIOUS
<1> HIDE DEF L, M
<1>2. p \in Seq(Node) /\ Len(p) = b - 1 /\ \A i \in 1 .. b - 1 : p[i] = text[i]
    <2>1. p = [i \in 1 .. (b - 1 - 1 + 1) |-> text[1 + i - 1]]
        BY DEF SubSeq
    <2>2. b - 1 - 1 + 1 = b - 1 /\ b - 1 \in Nat /\ \A i \in 1 .. b - 1 : 1 + i - 1 = i /\ i \in DOMAIN text
        BY <1>1
    <2>3. p = [i \in 1 .. (b - 1) |-> text[i]]
        BY <2>1, <2>2
    <2>4. p \in [1 .. (b - 1) -> Node]
        <3>1. \A i \in 1 .. b - 1 : text[i] \in Node
            BY <2>2
        <3> HIDE DEF p
        <3> QED BY <2>3, <3>1
    <2> HIDE DEF p
    <2> QED BY <2>2, <2>3, <2>4
<1>3. q \in Seq(Node) /\ Len(q) = L - e /\ \A i \in 1 .. L - e : q[i] = text[e + i]
    <2>1. q = [i \in 1 .. (L - (e + 1) + 1) |-> text[e + 1 + i - 1]]
        BY <1>1 DEF SubSeq
    <2>2. /\ L - (e + 1) + 1 = L - e /\ L - e \in Nat
          /\ \A i \in 1 .. L - e : e + 1 + i - 1 = e + i /\ e + i \in DOMAIN text
        BY <1>1
    <2>3. q = [i \in 1 .. (L - e) |-> text[e + i]]
        <3> HIDE DEF q
        <3> QED BY <2>1, <2>2
    <2>4. q \in [1 .. (L - e) -> Node]
        <3>1. \A i \in 1 .. L - e : text[e + i] \in Node
            BY <2>2
        <3> HIDE DEF q
        <3> QED BY <2>3, <3>1
    <2> HIDE DEF q
    <2> DEFINE k == L - e
    <2>5. /\ k \in Nat /\ q \in [1 .. k -> Node] /\ q = [i \in 1 .. k |-> text[e + i]]
          /\ k = L - e
        BY <2>2, <2>3, <2>4
    <2> HIDE DEF k
    <2>6. \A i \in 1 .. k : q[i] = text[e + i]
        BY <2>5
    <2>7. q \in Seq(Node) /\ Len(q) = k
        <3>1. k \in Nat /\ q \in [1 .. k -> Node]
            BY <2>5
        <3> QED BY <3>1
    <2> QED BY <2>5, <2>6, <2>7
<1> HIDE DEF p, q
<1>4. /\ r \in Seq(Node) /\ Len(r) = b - 1 + M
      /\ \A i \in 1 .. (b - 1 + M) : r[i] = IF i <= b - 1 THEN p[i] ELSE nodes[i - (b - 1)]
    BY <1>2, ConcatProperties DEF M
<1> HIDE DEF r
<1>5. /\ t \in Seq(Node) /\ Len(t) = b - 1 + M + (L - e)
      /\ \A i \in 1 .. (b - 1 + M + (L - e)) :
           t[i] = IF i <= b - 1 + M THEN r[i] ELSE q[i - (b - 1 + M)]
    <2> DEFINE m == b - 1 + M
               k == L - e
    <2>1. m \in Nat /\ k \in Nat /\ Len(r) = m /\ Len(q) = k
        BY <1>1, <1>3, <1>4
    <2> HIDE DEF m, k
    <2>2. /\ t \in Seq(Node) /\ Len(t) = m + k
          /\ \A i \in 1 .. (m + k) : t[i] = IF i <= m THEN r[i] ELSE q[i - m]
        BY <1>3, <1>4, <2>1, ConcatProperties
    <2> QED BY <2>2 DEF m, k
<1> HIDE DEF t
<1>6. \A i \in 1 .. b - 1 : t[i] = text[i]
    <2> TAKE i \in 1 .. b - 1
    <2>1. /\ i \in 1 .. (b - 1 + M) /\ i \in 1 .. (b - 1 + M + (L - e))
          /\ i <= b - 1 /\ i <= b - 1 + M
        BY <1>1
    <2> QED BY <1>2, <1>4, <1>5, <2>1
<1>7. \A u \in 1 .. M : t[b - 1 + u] = nodes[u]
    <2> TAKE u \in 1 .. M
    <2>1. /\ b - 1 + u \in 1 .. (b - 1 + M) /\ b - 1 + u \in 1 .. (b - 1 + M + (L - e))
          /\ ~(b - 1 + u <= b - 1) /\ (b - 1 + u) - (b - 1) = u /\ b - 1 + u <= b - 1 + M
        BY <1>1
    <2> QED BY <1>4, <1>5, <2>1
<1>8. \A i \in e + 1 .. L : t[i - e + (b - 1) + M] = text[i]
    <2> TAKE i \in e + 1 .. L
    <2> DEFINE j == i - e + (b - 1) + M
    <2>1. /\ j \in 1 .. (b - 1 + M + (L - e)) /\ ~(j <= b - 1 + M) /\ j - (b - 1 + M) = i - e
          /\ i - e \in 1 .. L - e /\ e + (i - e) = i
        BY <1>1
    <2> HIDE DEF j
    <2>2. t[j] = q[i - e]
        BY <1>5, <2>1
    <2>3. q[i - e] = text[i]
        BY <1>3, <2>1
    <2> QED BY <2>2, <2>3 DEF j
<1>9. \E old, new : Spliced(text, b, e, nodes, t, old, new)
    <2>1. /\ b \in Nat \ {0} /\ e \in Nat /\ b <= e + 1 /\ e <= Len(text)
          /\ Len(t) = b - 1 + Len(nodes) + (Len(text) - e)
        BY <1>1, <1>5 DEF L, M
    <2>2. /\ \A u \in 1 .. Len(nodes) : t[b - 1 + u] = nodes[u]
          /\ \A i \in e + 1 .. Len(text) : t[i - e + (b - 1) + Len(nodes)] = text[i]
        BY <1>7, <1>8 DEF L, M
    <2> QED BY <1>5, <1>6, <2>1, <2>2, SpliceIsSpliced
<1>10. t = SubSeq(text, 1, b - 1) \o nodes \o SubSeq(text, e + 1, Len(text))
    BY DEF t, r, p, q, L
<1> QED BY <1>5, <1>9, <1>10

LEMMA PageIsSpliced ==
    ASSUME NEW nodes \in Seq(Node)
    PROVE  \E old, new : Spliced(<<>>, 1, 0, nodes, nodes, old, new)
<1> DEFINE text == <<>>
<1>1. text \in Seq(Node) /\ Len(text) = 0
    OBVIOUS
<1> HIDE DEF text
<1> DEFINE M == Len(nodes)
<1>2. M \in Nat /\ M = 1 - 1 + M + (0 - 0)
    OBVIOUS
<1>3. 1 .. 1 - 1 = {} /\ 0 + 1 .. 0 = {} /\ \A u \in 1 .. M : 1 - 1 + u = u
    OBVIOUS
<1>4. \E old, new : Spliced(text, 1, 0, nodes, nodes, old, new)
    <2>1. Len(nodes) = 1 - 1 + Len(nodes) + (Len(text) - 0)
        BY <1>1
    <2>2. \A i \in 1 .. 1 - 1 : nodes[i] = text[i]
        BY <1>3
    <2>3. \A u \in 1 .. Len(nodes) : nodes[1 - 1 + u] = nodes[u]
        BY <1>3
    <2>4. \A i \in 0 + 1 .. Len(text) : nodes[i - 0 + (1 - 1) + Len(nodes)] = text[i]
        BY <1>1, <1>3
    <2> DEFINE z == 0
               o == 1
    <2>5. z \in Nat /\ o \in Nat \ {0} /\ o <= z + 1 /\ z <= Len(text)
        BY <1>1
    <2> HIDE DEF z, o
    <2>6. \E old, new : Spliced(text, o, z, nodes, nodes, old, new)
        BY <1>1, <2>1, <2>2, <2>3, <2>4, <2>5, SpliceIsSpliced DEF z, o
    <2> QED BY <2>6 DEF z, o
<1> QED BY <1>4 DEF text

\* All nodes of a text have been read before `fresh'.
Known(text, fresh) ==
    /\ Distinct(text)
    /\ \A x \in DOMAIN text : /\ text[x].id <= fresh
                              /\ text[x].k \in OfPastes => text[x].n \in PasteNames

LEMMA SplicedKnown ==
    ASSUME NEW g \in FormType, NEW nodes, Reading(g, nodes),
           NEW text \in Seq(Node), Known(text, g.fresh), NEW b, NEW e,
           NEW t, NEW old, NEW new, Spliced(text, b, e, nodes, t, old, new)
    PROVE  Known(t, g.fresh + Len(nodes))
<1> DEFINE Out == Outside(text, b, e)
           M == Len(nodes)
           fr == g.fresh
<1>1. /\ M \in Nat /\ fr \in Nat
      /\ \A u \in 1 .. M : nodes[u].id = fr + u /\ (nodes[u].k \in OfPastes => nodes[u].n \in PasteNames)
    BY DEF Reading, FormType
<1>2. /\ \A x \in Out : t[old[x]] = text[x] /\ x \in DOMAIN text
      /\ \A u \in 1 .. M : t[new[u]] = nodes[u]
      /\ \A i \in DOMAIN t : (\E x \in Out : i = old[x]) \/ (\E u \in 1 .. M : i = new[u])
    BY DEF Spliced, Outside
<1>3. /\ \A x \in DOMAIN text : /\ text[x].id \in Nat /\ text[x].id <= fr
                                /\ text[x].k \in OfPastes => text[x].n \in PasteNames
      /\ \A x, y \in DOMAIN text : text[x].id = text[y].id => x = y
    <2>1. \A x \in DOMAIN text : text[x] \in Node
        OBVIOUS
    <2> QED BY <2>1 DEF Known, Distinct, Node
<1> HIDE DEF Out, M, fr
<1>4. \A i \in DOMAIN t : /\ t[i].id <= fr + M
                          /\ t[i].k \in OfPastes => t[i].n \in PasteNames
    <2> TAKE i \in DOMAIN t
    <2>1. CASE \E x \in Out : i = old[x]
        <3>1. PICK x \in Out : i = old[x]
            BY <2>1
        <3>2. t[i] = text[x] /\ x \in DOMAIN text
            BY <1>2, <3>1
        <3> QED BY <1>1, <1>3, <3>2
    <2>2. CASE \E u \in 1 .. M : i = new[u]
        <3>1. PICK u \in 1 .. M : i = new[u]
            BY <2>2
        <3>2. t[i] = nodes[u]
            BY <1>2, <3>1
        <3> QED BY <1>1, <3>2
    <2> QED BY <1>2, <2>1, <2>2
<1>5. ASSUME NEW i \in DOMAIN t, NEW j \in DOMAIN t, t[i].id = t[j].id
      PROVE  i = j
    <2>1. CASE (\E x \in Out : i = old[x]) /\ (\E y \in Out : j = old[y])
        <3>1. PICK x \in Out, y \in Out : i = old[x] /\ j = old[y]
            BY <2>1
        <3>2. text[x].id = text[y].id /\ x \in DOMAIN text /\ y \in DOMAIN text
            BY <1>2, <1>5, <3>1
        <3>3. x = y
            BY <1>3, <3>2
        <3> QED BY <3>1, <3>3
    <2>2. CASE (\E u \in 1 .. M : i = new[u]) /\ (\E v \in 1 .. M : j = new[v])
        <3>1. PICK u \in 1 .. M, v \in 1 .. M : i = new[u] /\ j = new[v]
            BY <2>2
        <3>2. nodes[u].id = nodes[v].id
            BY <1>2, <1>5, <3>1
        <3>3. u = v
            BY <1>1, <3>2
        <3> QED BY <3>1, <3>3
    <2>3. CASE (\E x \in Out : i = old[x]) /\ (\E u \in 1 .. M : j = new[u])
        <3>1. PICK x \in Out, u \in 1 .. M : i = old[x] /\ j = new[u]
            BY <2>3
        <3>2. text[x].id = nodes[u].id /\ x \in DOMAIN text
            BY <1>2, <1>5, <3>1
        <3> QED BY <1>1, <1>3, <3>2
    <2>4. CASE (\E u \in 1 .. M : i = new[u]) /\ (\E x \in Out : j = old[x])
        <3>1. PICK x \in Out, u \in 1 .. M : j = old[x] /\ i = new[u]
            BY <2>4
        <3>2. text[x].id = nodes[u].id /\ x \in DOMAIN text
            BY <1>2, <1>5, <3>1
        <3> QED BY <1>1, <1>3, <3>2
    <2> QED BY <1>2, <2>1, <2>2, <2>3, <2>4
<1> QED BY <1>4, <1>5 DEF Known, Distinct, M, fr

\* The ends of an area, as the page remembers them, are in their order.
EndsGood(f, text) ==
    \A q \in PasteNames :
        /\ f.paste[q].begin <= f.fresh /\ f.paste[q].end <= f.fresh
        /\ \A i, j \in DOMAIN text :
             text[i].id = f.paste[q].begin /\ text[j].id = f.paste[q].end =>
               text[i].k = "paste" /\ i < j

\* The patch has both ends of an area, or none.
LEMMA SplicedEnds ==
    ASSUME NEW g \in FormType, NEW nodes, Reading(g, nodes), TextIsNested(nodes),
           NEW text \in Seq(Node), Known(text, g.fresh), EndsGood(g, text), NEW b, NEW e,
           NEW t, NEW old, NEW new, Spliced(text, b, e, nodes, t, old, new),
           NEW p, Parsing(g, nodes, Len(nodes), p), p.fault = "no"
    PROVE  EndsGood(p, t)
<1> DEFINE Out == Outside(text, b, e)
           M == Len(nodes)
           fr == g.fresh
<1>1. /\ M \in Nat /\ fr \in Nat /\ \A u \in 1 .. M : nodes[u].id = fr + u
      /\ DOMAIN nodes = 1 .. M
    BY DEF Reading, FormType
<1>2. /\ \A x \in Out : t[old[x]] = text[x] /\ x \in DOMAIN text
      /\ \A u \in 1 .. M : t[new[u]] = nodes[u]
      /\ \A i \in DOMAIN t : (\E x \in Out : i = old[x]) \/ (\E u \in 1 .. M : i = new[u])
      /\ \A x, y \in Out : x < y => old[x] < old[y]
      /\ \A u, v \in 1 .. M : u < v => new[u] < new[v]
    BY DEF Spliced, Outside
<1>3. \A x \in DOMAIN text : text[x].id \in Nat \ {0} /\ text[x].id <= fr
    <2>1. \A x \in DOMAIN text : text[x] \in Node
        OBVIOUS
    <2> QED BY <2>1 DEF Known, Node
<1>4. p \in FormType /\ p.fresh = fr + M /\ PastesParsed(g, nodes, M, p)
    BY DEF Parsing
<1>5. \A q \in PasteNames : /\ p.paste[q].begin \in Nat /\ p.paste[q].end \in Nat
                            /\ g.paste[q].begin \in Nat /\ g.paste[q].end \in Nat
    <2>1. p.paste \in [PasteNames -> PasteNode] /\ g.paste \in [PasteNames -> PasteNode]
        BY <1>4 DEF FormType
    <2>2. \A q \in PasteNames : p.paste[q] \in PasteNode /\ g.paste[q] \in PasteNode
        BY <2>1
    <2> QED BY <2>2 DEF PasteNode
<1> HIDE DEF Out, M, fr
<1>6. /\ \A u \in 1 .. M : nodes[u].k = "paste" =>
           \E v \in u + 1 .. M : Area(nodes, u, v)
      /\ \A v \in 1 .. M : nodes[v].k = "endpaste" =>
           \E u \in 1 .. v - 1 : Area(nodes, u, v)
    BY <1>1 DEF TextIsNested, M
<1> SUFFICES ASSUME NEW q \in PasteNames
             PROVE  /\ p.paste[q].begin <= p.fresh /\ p.paste[q].end <= p.fresh
                    /\ \A i, j \in DOMAIN t :
                         t[i].id = p.paste[q].begin /\ t[j].id = p.paste[q].end =>
                           t[i].k = "paste" /\ i < j
    BY DEF EndsGood
<1> DEFINE begins == {u \in 1 .. M : nodes[u].k = "paste" /\ nodes[u].n = q}
           ends == {u \in 1 .. M : nodes[u].k = "endpaste" /\ nodes[u].n = q}
           bg == p.paste[q].begin
           en == p.paste[q].end
<1>7. /\ (begins = {} /\ bg \in {g.paste[q].begin, 0})
           \/ (\E u \in begins : bg = nodes[u].id /\ \A v \in begins : v <= u)
      /\ (ends = {} /\ en \in {g.paste[q].end, 0})
           \/ (\E u \in ends : en = nodes[u].id /\ \A v \in ends : v <= u)
    BY <1>4 DEF PastesParsed, LastEnd
<1>8. /\ g.paste[q].begin <= fr /\ g.paste[q].end <= fr
      /\ \A i, j \in DOMAIN text :
           text[i].id = g.paste[q].begin /\ text[j].id = g.paste[q].end =>
             text[i].k = "paste" /\ i < j
    BY DEF EndsGood, fr
<1>9. ASSUME NEW u \in begins
      PROVE  \E v \in ends : u < v
    <2>1. PICK v \in u + 1 .. M : Area(nodes, u, v)
        BY <1>6
    <2>2. v \in ends /\ u < v
        BY <1>1, <2>1 DEF Area
    <2> QED BY <2>2
<1>10. ASSUME NEW v \in ends
       PROVE  \E u \in begins : Area(nodes, u, v) /\ u < v
    <2>1. PICK u \in 1 .. v - 1 : Area(nodes, u, v)
        BY <1>6
    <2>2. u \in begins /\ u < v
        BY <1>1, <2>1 DEF Area
    <2> QED BY <2>1, <2>2
<1>11. CASE begins = {}
    <2>1. ends = {}
        BY <1>10, <1>11
    <2>2. bg \in {g.paste[q].begin, 0} /\ en \in {g.paste[q].end, 0}
        BY <1>7, <1>11, <2>1
    <2> HIDE DEF begins, ends
    <2>3. bg <= fr /\ en <= fr /\ bg \in Nat /\ en \in Nat
        <3>1. bg \in Nat /\ en \in Nat /\ fr \in Nat
            BY <1>1, <1>5
        <3>2. g.paste[q].begin <= fr /\ g.paste[q].end <= fr
            BY <1>8
        <3> HIDE DEF bg, en
        <3> QED BY <2>2, <3>1, <3>2
    <2>4. \A i \in DOMAIN t : t[i].id \in {bg, en} =>
             \E x \in Out : i = old[x] /\ text[x].id = t[i].id /\ text[x].id # 0
                            /\ x \in DOMAIN text /\ t[i] = text[x]
        <3> SUFFICES ASSUME NEW i \in DOMAIN t, t[i].id \in {bg, en}
                     PROVE  \E x \in Out : i = old[x] /\ text[x].id = t[i].id /\ text[x].id # 0
                                           /\ x \in DOMAIN text /\ t[i] = text[x]
            OBVIOUS
        <3>1. CASE \E x \in Out : i = old[x]
            <4>1. PICK x \in Out : i = old[x]
                BY <3>1
            <4> QED BY <1>2, <1>3, <4>1
        <3>2. CASE \E u \in 1 .. M : i = new[u]
            <4>1. PICK u \in 1 .. M : i = new[u]
                BY <3>2
            <4>2. t[i].id = fr + u
                BY <1>1, <1>2, <4>1
            <4> QED BY <1>1, <2>3, <4>2
        <3> QED BY <1>2, <3>1, <3>2
    <2>5. ASSUME NEW i \in DOMAIN t, NEW j \in DOMAIN t, t[i].id = bg, t[j].id = en
          PROVE  t[i].k = "paste" /\ i < j
        <3>1. PICK x \in Out : i = old[x] /\ text[x].id = t[i].id /\ text[x].id # 0
                               /\ x \in DOMAIN text /\ t[i] = text[x]
            BY <2>4, <2>5
        <3>2. PICK y \in Out : j = old[y] /\ text[y].id = t[j].id /\ text[y].id # 0
                               /\ y \in DOMAIN text /\ t[j] = text[y]
            BY <2>4, <2>5
        <3>3. text[x].k = "paste" /\ x < y
            BY <1>8, <2>2, <2>5, <3>1, <3>2
        <3> QED BY <1>2, <3>1, <3>2, <3>3
    <2>6. bg <= p.fresh /\ en <= p.fresh
        BY <1>1, <1>4, <2>3
    <2> QED BY <2>5, <2>6
<1>12. CASE begins # {}
    <2>1. PICK u \in begins : bg = nodes[u].id /\ \A v \in begins : v <= u
        BY <1>7, <1>12
    <2>2. PICK w \in ends : u < w
        BY <1>9
    <2>3. PICK v \in ends : en = nodes[v].id /\ \A x \in ends : x <= v
        BY <1>7, <2>2
    <2>4. u < v /\ u \in 1 .. M /\ v \in 1 .. M
        BY <2>2, <2>3
    <2>5. bg = fr + u /\ en = fr + v /\ nodes[u].k = "paste"
        BY <1>1, <2>1, <2>3
    <2> HIDE DEF bg, en, begins, ends
    <2>6. \A i \in DOMAIN t, z \in 1 .. M : t[i].id = fr + z => i = new[z]
        <3> SUFFICES ASSUME NEW i \in DOMAIN t, NEW z \in 1 .. M, t[i].id = fr + z
                     PROVE  i = new[z]
            OBVIOUS
        <3>1. CASE \E x \in Out : i = old[x]
            <4>1. PICK x \in Out : i = old[x]
                BY <3>1
            <4>2. t[i].id <= fr /\ t[i].id \in Nat
                BY <1>2, <1>3, <4>1
            <4> QED BY <1>1, <4>2
        <3>2. CASE \E y \in 1 .. M : i = new[y]
            <4>1. PICK y \in 1 .. M : i = new[y]
                BY <3>2
            <4>2. t[i].id = fr + y
                BY <1>1, <1>2, <4>1
            <4>3. y = z
                BY <1>1, <4>2
            <4> QED BY <4>1, <4>3
        <3> QED BY <1>2, <3>1, <3>2
    <2>7. ASSUME NEW i \in DOMAIN t, NEW j \in DOMAIN t, t[i].id = bg, t[j].id = en
          PROVE  t[i].k = "paste" /\ i < j
        <3>1. i = new[u] /\ j = new[v]
            BY <2>4, <2>5, <2>6, <2>7
        <3>2. t[i] = nodes[u]
            BY <1>2, <2>4, <3>1
        <3> QED BY <1>2, <2>4, <2>5, <3>1, <3>2
    <2>8. bg <= p.fresh /\ en <= p.fresh
        BY <1>1, <1>4, <2>4, <2>5
    <2> QED BY <2>7, <2>8 DEF bg, en
<1> QED BY <1>11, <1>12

LEMMA Shifted ==
    ASSUME NEW i \in Nat, NEW a \in Nat, NEW n \in Nat, NEW m \in Nat, i <= m + n, i > a + n
    PROVE  i - n \in a + 1 .. m /\ i - n + n = i /\ ~(i - n <= a) /\ i - n \in 1 .. m
OBVIOUS

\* Two items that are put back stay in their order.
LEMMA Earlier ==
    ASSUME NEW i \in Nat, NEW j \in Nat, i < j, NEW a \in Nat, NEW n \in Nat,
           i <= a \/ i > a + n, j <= a \/ j > a + n
    PROVE  (IF i <= a THEN i ELSE i - n) < (IF j <= a THEN j ELSE j - n)
OBVIOUS

\* The new items stand between the first a of the others and the rest, and so
\* do their input areas.
PutBack(text, b, e, nodes, l, a, n, r) ==
    /\ a \in Nat /\ n \in Nat /\ a <= Len(l) /\ Len(r) = Len(l) + n
    /\ \A i \in 1 .. a : r[i] = l[i]
    /\ \A i \in a + 1 .. Len(l) : r[i + n] = l[i]
    /\ \A i \in a + 1 .. a + n :
         \E u \in 1 .. Len(nodes) : nodes[u].k = "input" /\ r[i] = nodes[u].id
    /\ \A i, j \in a + 1 .. a + n : i < j => r[i] < r[j]
    /\ \A u \in 1 .. Len(nodes) : nodes[u].k = "input" =>
         \E i \in a + 1 .. a + n : r[i] = nodes[u].id
    /\ n # 0 => \A x \in Outside(text, b, e), i \in 1 .. Len(l) :
                  text[x].id = l[i] => IF i <= a THEN x < b ELSE ~(x < b)

LEMMA SplicedList ==
    ASSUME NEW g \in FormType, NEW nodes, Reading(g, nodes),
           NEW text \in Seq(Node), Distinct(text), NEW b, NEW e,
           NEW t \in Seq(Node), NEW old, NEW new, Spliced(text, b, e, nodes, t, old, new),
           Distinct(t),
           NEW l \in Seq(Nat \ {0}), Listed(l, text, Outside(text, b, e)),
           NEW a, NEW n, NEW r \in Seq(Nat \ {0}), PutBack(text, b, e, nodes, l, a, n, r)
    PROVE  Listed(r, t, DOMAIN t)
<1> DEFINE Out == Outside(text, b, e)
           M == Len(nodes)
           L == Len(l)
           At(i) == IF i <= a THEN i ELSE i - n
           Older(i) == i <= a \/ i > a + n
           fr == g.fresh
<1>1. /\ M \in Nat /\ L \in Nat /\ DOMAIN l = 1 .. L /\ DOMAIN r = 1 .. L + n /\ a <= L
      /\ a \in Nat /\ n \in Nat /\ fr \in Nat
    BY DEF PutBack, FormType, Reading
<1>2. /\ \A x \in Out : old[x] \in DOMAIN t /\ t[old[x]] = text[x] /\ x \in DOMAIN text /\ x \in Nat
      /\ \A u \in 1 .. M : new[u] \in DOMAIN t /\ t[new[u]] = nodes[u]
      /\ \A i \in DOMAIN t : (\E x \in Out : i = old[x]) \/ (\E u \in 1 .. M : i = new[u])
      /\ \A x, y \in Out : x < y => old[x] < old[y]
      /\ \A u, v \in 1 .. M : u < v => new[u] < new[v]
      /\ \A x \in Out, u \in 1 .. M : IF x < b THEN old[x] < new[u] ELSE new[u] < old[x]
    <2>1. DOMAIN text = 1 .. Len(text) /\ Out \subseteq DOMAIN text
        BY DEF Outside
    <2>2. \A x \in Out : x \in DOMAIN text /\ x \in Nat
        BY <2>1
    <2> QED BY <2>2 DEF Spliced
<1>3. /\ \A i \in 1 .. L : \E x \in Out : text[x].k = "input" /\ text[x].id = l[i]
      /\ \A x \in Out : text[x].k = "input" => \E i \in 1 .. L : l[i] = text[x].id
      /\ \A i, j \in 1 .. L : \A x, y \in Out : text[x].id = l[i] /\ text[y].id = l[j] /\ i < j => x < y
    BY <1>1, <1>2 DEF Listed, InOrder
<1>4. /\ \A i \in 1 .. a : r[i] = l[i]
      /\ \A i \in a + 1 .. L : r[i + n] = l[i]
      /\ \A i \in a + 1 .. a + n : \E u \in 1 .. M : nodes[u].k = "input" /\ r[i] = nodes[u].id
      /\ \A i, j \in a + 1 .. a + n : i < j => r[i] < r[j]
      /\ \A u \in 1 .. M : nodes[u].k = "input" => \E i \in a + 1 .. a + n : r[i] = nodes[u].id
      /\ n # 0 => \A x \in Out, i \in 1 .. L : text[x].id = l[i] => IF i <= a THEN x < b ELSE ~(x < b)
      /\ \A u \in 1 .. M : nodes[u].id = fr + u
    BY DEF PutBack, Reading
<1> HIDE DEF Out, M, L, fr
<1>5. ASSUME NEW i \in DOMAIN r, Older(i)
      PROVE  At(i) \in 1 .. L /\ r[i] = l[At(i)] /\ (At(i) <= a <=> i <= a)
    <2>1. CASE i <= a
        BY <1>1, <1>4, <2>1
    <2>2. CASE i > a + n
        <3> DEFINE j == i - n
        <3>0. i \in Nat /\ i <= L + n /\ ~(i <= a)
            BY <1>1, <2>2
        <3>1. j \in a + 1 .. L /\ j + n = i /\ ~(i <= a) /\ At(i) = j /\ ~(j <= a) /\ j \in 1 .. L
            <4>1. At(i) = j
                BY <3>0
            <4>2. i > a + n
                BY <2>2
            <4> HIDE DEF At
            <4>3. j \in a + 1 .. L /\ j + n = i /\ ~(j <= a) /\ j \in 1 .. L
                BY <1>1, <3>0, <4>2, Shifted
            <4> QED BY <3>0, <4>1, <4>3
        <3> HIDE DEF j, At
        <3>2. r[j + n] = l[j]
            BY <1>4, <3>1
        <3> QED BY <3>1, <3>2
    <2> QED BY <1>5, <2>1, <2>2
<1>6. ASSUME NEW i \in DOMAIN r, ~Older(i)
      PROVE  i \in a + 1 .. a + n /\ n # 0
    BY <1>1, <1>6
\* Where an item stands.
<1>7. ASSUME NEW i \in DOMAIN r, Older(i)
      PROVE  \E x \in Out : /\ text[x].k = "input" /\ text[x].id = l[At(i)] /\ t[old[x]].id = r[i]
                            /\ \A y \in DOMAIN t : t[y].id = r[i] => y = old[x]
    <2>1. At(i) \in 1 .. L /\ r[i] = l[At(i)]
        BY <1>5, <1>7
    <2> HIDE DEF At
    <2>2. PICK x \in Out : text[x].k = "input" /\ text[x].id = l[At(i)]
        BY <1>3, <2>1
    <2>3. old[x] \in DOMAIN t /\ t[old[x]].id = r[i]
        BY <1>2, <2>1, <2>2
    <2>4. \A y \in DOMAIN t : t[y].id = r[i] => y = old[x]
        BY <2>3 DEF Distinct
    <2> QED BY <2>2, <2>3, <2>4
<1>8. ASSUME NEW i \in DOMAIN r, ~Older(i)
      PROVE  \E u \in 1 .. M : /\ nodes[u].k = "input" /\ r[i] = fr + u /\ t[new[u]].id = r[i]
                               /\ \A y \in DOMAIN t : t[y].id = r[i] => y = new[u]
    <2>1. PICK u \in 1 .. M : nodes[u].k = "input" /\ r[i] = nodes[u].id
        BY <1>4, <1>6, <1>8
    <2>2. new[u] \in DOMAIN t /\ t[new[u]].id = r[i] /\ r[i] = fr + u
        BY <1>2, <1>4, <2>1
    <2> QED BY <2>1, <2>2 DEF Distinct
<1>9. ASSUME NEW i \in DOMAIN r
      PROVE  \E y \in DOMAIN t : t[y].k = "input" /\ t[y].id = r[i]
    <2>1. CASE Older(i)
        <3>1. PICK x \in Out : text[x].k = "input" /\ t[old[x]].id = r[i]
            BY <1>7, <2>1
        <3> QED BY <1>2, <3>1
    <2>2. CASE ~Older(i)
        <3>1. PICK u \in 1 .. M : nodes[u].k = "input" /\ t[new[u]].id = r[i]
            BY <1>8, <2>2
        <3> QED BY <1>2, <3>1
    <2> QED BY <2>1, <2>2
<1>10. ASSUME NEW y \in DOMAIN t, t[y].k = "input"
       PROVE  \E i \in DOMAIN r : r[i] = t[y].id
    <2>1. CASE \E x \in Out : y = old[x]
        <3>1. PICK x \in Out : y = old[x]
            BY <2>1
        <3>2. t[y] = text[x]
            BY <1>2, <3>1
        <3>3. PICK i \in 1 .. L : l[i] = t[y].id
            BY <1>3, <1>10, <3>2
        <3>4. CASE i <= a
            <4>1. i \in DOMAIN r /\ r[i] = l[i]
                BY <1>1, <1>4, <3>4
            <4> QED BY <3>3, <4>1
        <3>5. CASE ~(i <= a)
            <4>1. i \in a + 1 .. L /\ i + n \in DOMAIN r
                BY <1>1, <3>5
            <4>2. r[i + n] = l[i]
                BY <1>4, <4>1
            <4> QED BY <3>3, <4>1, <4>2
        <3> QED BY <3>4, <3>5
    <2>2. CASE \E u \in 1 .. M : y = new[u]
        <3>1. PICK u \in 1 .. M : y = new[u]
            BY <2>2
        <3>2. t[y] = nodes[u]
            BY <1>2, <3>1
        <3>5. nodes[u].k = "input" /\ nodes[u].id = t[y].id
            BY <1>10, <3>2
        <3>3. PICK i \in a + 1 .. a + n : r[i] = nodes[u].id
            BY <1>4, <3>5
        <3>4. i \in DOMAIN r
            BY <1>1
        <3> QED BY <3>3, <3>4, <3>5
    <2> QED BY <1>2, <2>1, <2>2
<1>11. ASSUME NEW i \in DOMAIN r, NEW j \in DOMAIN r, NEW x \in DOMAIN t, NEW y \in DOMAIN t,
              t[x].id = r[i], t[y].id = r[j], i < j
       PROVE  x < y
    <2>1. CASE Older(i) /\ Older(j)
        <3>1. PICK m \in Out : text[m].id = l[At(i)] /\ x = old[m]
            BY <1>7, <1>11, <2>1
        <3>2. PICK k \in Out : text[k].id = l[At(j)] /\ y = old[k]
            BY <1>7, <1>11, <2>1
        <3>3. At(i) < At(j) /\ At(i) \in 1 .. L /\ At(j) \in 1 .. L
            <4>1. At(i) \in 1 .. L /\ At(j) \in 1 .. L
                BY <1>5, <2>1
            <4>2. i \in Nat /\ j \in Nat
                BY <1>1
            <4>3. At(i) < At(j)
                BY <1>1, <1>11, <2>1, <4>2, Earlier
            <4> QED BY <4>1, <4>3
        <3> DEFINE c == At(i)
                   d == At(j)
        <3> HIDE DEF At, c, d
        <3>5. c \in 1 .. L /\ d \in 1 .. L /\ text[m].id = l[c] /\ text[k].id = l[d] /\ c < d
            BY <3>1, <3>2, <3>3 DEF c, d
        <3>4. m < k
            BY <1>3, <3>5
        <3> QED BY <1>2, <3>1, <3>2, <3>4
    <2>2. CASE ~Older(i) /\ ~Older(j)
        <3>1. PICK u \in 1 .. M : r[i] = fr + u /\ x = new[u]
            BY <1>8, <1>11, <2>2
        <3>2. PICK v \in 1 .. M : r[j] = fr + v /\ y = new[v]
            BY <1>8, <1>11, <2>2
        <3>3. r[i] < r[j]
            BY <1>4, <1>6, <1>11, <2>2
        <3>4. u < v
            BY <1>1, <3>1, <3>2, <3>3
        <3> QED BY <1>2, <3>1, <3>2, <3>4
    <2>3. CASE Older(i) /\ ~Older(j)
        <3>1. PICK m \in Out : text[m].id = l[At(i)] /\ x = old[m]
            BY <1>7, <1>11, <2>3
        <3>2. PICK v \in 1 .. M : y = new[v]
            BY <1>8, <1>11, <2>3
        <3>3. n # 0 /\ i <= a
            BY <1>1, <1>6, <1>11, <2>3
        <3>4. At(i) \in 1 .. L /\ At(i) <= a
            BY <1>5, <2>3, <3>3
        <3> HIDE DEF At
        <3>5. m < b
            BY <1>4, <3>1, <3>3, <3>4
        <3> QED BY <1>2, <3>1, <3>2, <3>5
    <2>4. CASE ~Older(i) /\ Older(j)
        <3>1. PICK m \in Out : text[m].id = l[At(j)] /\ y = old[m]
            BY <1>7, <1>11, <2>4
        <3>2. PICK v \in 1 .. M : x = new[v]
            BY <1>8, <1>11, <2>4
        <3>3. n # 0 /\ ~(j <= a)
            BY <1>1, <1>6, <1>11, <2>4
        <3>4. At(j) \in 1 .. L /\ ~(At(j) <= a)
            BY <1>5, <2>4, <3>3
        <3> HIDE DEF At
        <3>5. ~(m < b)
            BY <1>4, <3>1, <3>3, <3>4
        <3> QED BY <1>2, <3>1, <3>2, <3>5
    <2> QED BY <2>1, <2>2, <2>3, <2>4
<1> QED BY <1>9, <1>10, <1>11 DEF Listed, InOrder

(***************************************************************************)
(* A page that nothing is wrong with.                                      *)
(***************************************************************************)
BoxesGood(f, text) ==
    \A x \in DOMAIN text : text[x].k \in {"radio", "simple"} => f.boxes # <<>>

PageGood(f) ==
    /\ Known(f.text, f.fresh) /\ EndsGood(f, f.text)
    /\ Listed(f.list, f.text, DOMAIN f.text) /\ InFocus(f.list, f.cur)
    /\ BoxesGood(f, f.text) /\ ButtonsKnown(f, f.text, DOMAIN f.text)

FormGood(f) ==
    /\ f \in FormType /\ OnePicked(f.boxes)
    /\ f.fault = "no" => PageGood(f)

LEMMA FreshFacts ==
    ASSUME NEW f \in FormType, NEW text \in Texts
    PROVE  LET nodes == Fresh(f, text)
           IN  Reading(f, nodes) /\ TextIsNested(nodes) /\ Nested(nodes)
<1> DEFINE nodes == Fresh(f, text)
           N == Len(text)
<1>1. /\ text \in Seq([k : Kinds, n : Names, on : BOOLEAN])
      /\ \A i \in DOMAIN text : text[i].k \in OfPastes => text[i].n \in PasteNames
      /\ TextIsNested(text)
    BY FormAssumption
<1>2. N \in Nat /\ DOMAIN text = 1 .. N
      /\ \A i \in 1 .. N : text[i] \in [k : Kinds, n : Names, on : BOOLEAN]
    <2> DEFINE T == [k : Kinds, n : Names, on : BOOLEAN]
    <2>1. text \in Seq(T)
        BY <1>1
    <2> HIDE DEF T
    <2>2. N \in Nat /\ DOMAIN text = 1 .. N /\ \A i \in 1 .. N : text[i] \in T
        BY <2>1
    <2> QED BY <2>2 DEF T
<1> HIDE DEF N
<1>3. \A i \in 1 .. N : /\ nodes[i].k = text[i].k /\ nodes[i].n = text[i].n
                        /\ nodes[i].id = f.fresh + i /\ nodes[i] \in Node
    <2>1. f.fresh \in Nat
        BY DEF FormType
    <2> QED BY <1>2, <2>1 DEF Fresh, Node
<1>4. nodes \in Seq(Node) /\ Len(nodes) = N /\ DOMAIN nodes = 1 .. N
    <2>1. DOMAIN nodes = 1 .. N /\ nodes = [i \in 1 .. N |-> nodes[i]]
        BY <1>2 DEF Fresh
    <2> HIDE DEF nodes
    <2>2. nodes \in [1 .. N -> Node]
        BY <1>3, <2>1
    <2> QED BY <1>2, <2>1, <2>2
<1> HIDE DEF nodes
<1>5. Reading(f, nodes)
    BY <1>1, <1>2, <1>3, <1>4 DEF Reading
<1>6. \A i, j \in 1 .. N : Area(text, i, j) => Area(nodes, i, j)
    <2> SUFFICES ASSUME NEW i \in 1 .. N, NEW j \in 1 .. N, Area(text, i, j)
                 PROVE  Area(nodes, i, j)
        OBVIOUS
    <2>1. \A m \in i + 1 .. j - 1 : m \in 1 .. N
        BY <1>2
    <2> QED BY <1>3, <2>1 DEF Area
<1>7. TextIsNested(nodes)
    <2> SUFFICES ASSUME NEW i \in 1 .. N
                 PROVE  /\ nodes[i].k = "paste" => \E j \in i + 1 .. N : Area(nodes, i, j)
                        /\ nodes[i].k = "endpaste" => \E j \in 1 .. i - 1 : Area(nodes, j, i)
        BY <1>4 DEF TextIsNested
    <2>1. ASSUME nodes[i].k = "paste"
          PROVE  \E j \in i + 1 .. N : Area(nodes, i, j)
        <3>1. \E j \in i + 1 .. N : Area(text, i, j)
            BY <1>1, <1>2, <1>3, <2>1 DEF TextIsNested, N
        <3>2. PICK j \in i + 1 .. N : Area(text, i, j)
            BY <3>1
        <3>3. j \in 1 .. N
            BY <1>2
        <3> QED BY <1>6, <3>2, <3>3
    <2>2. ASSUME nodes[i].k = "endpaste"
          PROVE  \E j \in 1 .. i - 1 : Area(nodes, j, i)
        <3>1. \E j \in 1 .. i - 1 : Area(text, j, i)
            BY <1>1, <1>2, <1>3, <2>2 DEF TextIsNested
        <3>2. PICK j \in 1 .. i - 1 : Area(text, j, i)
            BY <3>1
        <3>3. j \in 1 .. N
            BY <1>2
        <3> QED BY <1>6, <3>2, <3>3
    <2> QED BY <2>1, <2>2
<1>8. Nested(nodes)
    <2> SUFFICES ASSUME NEW u \in 1 .. N, nodes[u].k = "endpaste"
                 PROVE  \E v \in 1 .. u - 1 : nodes[v].k = "paste" /\ nodes[v].n = nodes[u].n
        BY <1>4 DEF Nested
    <2>1. PICK v \in 1 .. u - 1 : Area(nodes, v, u)
        BY <1>4, <1>7 DEF TextIsNested
    <2> QED BY <2>1 DEF Area
<1> QED BY <1>5, <1>7, <1>8 DEF nodes

\* The items are those of l, the new ones after the first that g has.
ItemsPutBack(g, p, l, r) ==
    /\ Len(g.list) <= Len(l) /\ \A i \in 1 .. Len(g.list) : g.list[i] = l[i]
    /\ Len(r.list) = Len(l) + (Len(p.list) - Len(g.list))
    /\ \A i \in 1 .. Len(p.list) : r.list[i] = p.list[i]
    /\ \A i \in Len(g.list) + 1 .. Len(l) : r.list[i + (Len(p.list) - Len(g.list))] = l[i]

\* If there are new input areas, the others are on their side of them.
Apart(text, b, e, nodes, l, a) ==
    (\E u \in 1 .. Len(nodes) : nodes[u].k = "input") =>
       \A x \in Outside(text, b, e), i \in 1 .. Len(l) :
          text[x].id = l[i] => IF i <= a THEN x < b ELSE ~(x < b)

\* The page after its text has been read into the place of an area, and the
\* items after the first a put back.
LEMMA ReadFacts ==
    ASSUME NEW g \in FormType, NEW nodes, Reading(g, nodes), TextIsNested(nodes),
           NEW text \in Seq(Node), Known(text, g.fresh), EndsGood(g, text),
           BoxesGood(g, text),
           NEW b, NEW e, NEW t, NEW old, NEW new, Spliced(text, b, e, nodes, t, old, new),
           ButtonsKnown(g, text, Outside(text, b, e)),
           NEW p, Parsing(g, nodes, Len(nodes), p), p.fault = "no",
           ButtonsParsed(g, nodes, Len(nodes), p),
           NEW l \in Seq(Nat \ {0}), Listed(l, text, Outside(text, b, e)),
           NEW r \in FormType, r.text = t, r.paste = p.paste, r.fresh = p.fresh, r.boxes = p.boxes,
           r.links = p.links, ItemsPutBack(g, p, l, r), InFocus(r.list, r.cur),
           Apart(text, b, e, nodes, l, Len(g.list))
    PROVE  PageGood(r)
<1> DEFINE a == Len(g.list)
           c == Len(p.list)
           n == c - a
           M == Len(nodes)
<1>1. p \in FormType /\ p.fresh = g.fresh + M /\ ListParsed(g, nodes, M, p) /\ BoxesParsed(g, nodes, M, p)
    BY DEF Parsing
<1>2. /\ a \in Nat /\ c \in Nat /\ M \in Nat /\ n \in Nat /\ a + n = c /\ a <= c
      /\ nodes \in Seq(Node) /\ g.fresh \in Nat /\ r.list \in Seq(Nat \ {0}) /\ t \in Seq(Node)
    <2>1. g.list \in Seq(Nat \ {0}) /\ p.list \in Seq(Nat \ {0}) /\ r.list \in Seq(Nat \ {0})
          /\ g.fresh \in Nat /\ r.text \in Seq(Node)
        BY <1>1 DEF FormType
    <2>2. a <= c
        BY <1>1 DEF ListParsed
    <2>3. a \in Nat /\ c \in Nat
        BY <2>1
    <2> HIDE DEF a, c
    <2>4. n \in Nat /\ a + n = c
        BY <2>2, <2>3
    <2> QED BY <2>1, <2>2, <2>3, <2>4 DEF Reading
<1>3. /\ \A i \in 1 .. a : p.list[i] = g.list[i]
      /\ \A i \in a + 1 .. c : \E u \in 1 .. M : nodes[u].k = "input" /\ p.list[i] = nodes[u].id
      /\ \A i, j \in a + 1 .. c : i < j => p.list[i] < p.list[j]
      /\ \A u \in 1 .. M : nodes[u].k = "input" => \E i \in a + 1 .. c : p.list[i] = nodes[u].id
    BY <1>1 DEF ListParsed
<1>4. /\ a <= Len(l) /\ \A i \in 1 .. a : g.list[i] = l[i]
      /\ Len(r.list) = Len(l) + n
      /\ \A i \in 1 .. c : r.list[i] = p.list[i]
      /\ \A i \in a + 1 .. Len(l) : r.list[i + n] = l[i]
      /\ (\E u \in 1 .. M : nodes[u].k = "input") =>
              \A x \in Outside(text, b, e), i \in 1 .. Len(l) :
                 text[x].id = l[i] => IF i <= a THEN x < b ELSE ~(x < b)
    BY DEF ItemsPutBack, Apart
<1>5. Known(t, r.fresh)
    BY <1>1, SplicedKnown
<1>6. EndsGood(r, t)
    <2>1. EndsGood(p, t)
        BY SplicedEnds
    <2> QED BY <2>1 DEF EndsGood
<1> HIDE DEF a, c, n
<1>7. Listed(r.list, t, DOMAIN t)
    <2> DEFINE s == r.list
    <2>1. \A i \in 1 .. a : s[i] = l[i]
        <3>1. \A i \in 1 .. a : i \in 1 .. c
            BY <1>2
        <3> QED BY <1>3, <1>4, <3>1
    <2>2. \A i \in a + 1 .. a + n : s[i] = p.list[i] /\ i \in a + 1 .. c
        BY <1>2, <1>4
    <2>3. \A i \in a + 1 .. a + n : \E u \in 1 .. Len(nodes) : nodes[u].k = "input" /\ s[i] = nodes[u].id
        BY <1>3, <2>2
    <2>4. \A i, j \in a + 1 .. a + n : i < j => s[i] < s[j]
        BY <1>3, <2>2
    <2>5. \A u \in 1 .. Len(nodes) : nodes[u].k = "input" => \E i \in a + 1 .. a + n : s[i] = nodes[u].id
        <3> SUFFICES ASSUME NEW u \in 1 .. M, nodes[u].k = "input"
                     PROVE  \E i \in a + 1 .. a + n : s[i] = nodes[u].id
            OBVIOUS
        <3>1. PICK i \in a + 1 .. c : p.list[i] = nodes[u].id
            BY <1>3
        <3>2. i \in a + 1 .. a + n
            BY <1>2
        <3> QED BY <2>2, <3>1, <3>2
    <2>6. n # 0 => \A x \in Outside(text, b, e), i \in 1 .. Len(l) :
                       text[x].id = l[i] => IF i <= a THEN x < b ELSE ~(x < b)
        <3>1. ASSUME n # 0
              PROVE  \E u \in 1 .. M : nodes[u].k = "input"
            <4>1. c \in a + 1 .. c
                BY <1>2, <3>1
            <4> QED BY <1>3, <4>1
        <3> QED BY <1>4, <3>1
    <2>8. Distinct(text) /\ Distinct(t)
        BY <1>5 DEF Known
    <2>9. /\ s \in Seq(Nat \ {0}) /\ Len(s) = Len(l) + n /\ a <= Len(l)
          /\ \A i \in a + 1 .. Len(l) : s[i + n] = l[i]
        BY <1>2, <1>4
    <2> HIDE DEF s, M
    <2>10. PutBack(text, b, e, nodes, l, a, n, s)
        BY <1>2, <2>1, <2>3, <2>4, <2>5, <2>6, <2>9 DEF PutBack
    <2>11. Listed(s, t, DOMAIN t)
        BY <1>2, <2>8, <2>9, <2>10, SplicedList
    <2> QED BY <2>11 DEF s
<1>8. \A i \in DOMAIN t : t[i].k \in {"radio", "simple"} => r.boxes # <<>>
    <2> SUFFICES ASSUME NEW i \in DOMAIN t, t[i].k \in {"radio", "simple"}
                 PROVE  p.boxes # <<>>
        OBVIOUS
    <2>1. /\ \A x \in Outside(text, b, e) : t[old[x]] = text[x] /\ x \in DOMAIN text
          /\ \A u \in 1 .. M : t[new[u]] = nodes[u]
          /\ (\E x \in Outside(text, b, e) : i = old[x]) \/ (\E u \in 1 .. M : i = new[u])
        BY DEF Spliced, Outside
    <2>2. CASE \E x \in Outside(text, b, e) : i = old[x]
        <3>1. PICK x \in Outside(text, b, e) : i = old[x]
            BY <2>2
        <3>2. g.boxes # <<>>
            BY <2>1, <3>1 DEF BoxesGood
        <3> QED BY <1>1, <3>2 DEF BoxesParsed
    <2>3. CASE \E u \in 1 .. M : i = new[u]
        <3>1. PICK u \in 1 .. M : i = new[u]
            BY <2>3
        <3>2. nodes[u].k \in {"radio", "simple"}
            BY <2>1, <3>1
        <3> QED BY <1>1, <3>2 DEF BoxesParsed
    <2> QED BY <2>1, <2>2, <2>3
<1>9. ButtonsKnown(r, t, DOMAIN t)
    <2> SUFFICES ASSUME NEW q \in PasteNames, p.paste[q].id # 0, p.paste[q].hasbutton
                 PROVE  \E i \in DOMAIN t : /\ t[i].k = "button" /\ t[i].n = q
                                           /\ <<t[i].id, p.paste[q].id>> \in p.links
        BY DEF ButtonsKnown
    <2>1. /\ \A x \in Outside(text, b, e) : t[old[x]] = text[x] /\ old[x] \in DOMAIN t
          /\ \A u \in 1 .. Len(nodes) : t[new[u]] = nodes[u] /\ new[u] \in DOMAIN t
        BY DEF Spliced
    <2>2. /\ g.links \subseteq p.links
          /\ \/ g.paste[q].id = p.paste[q].id /\ g.paste[q].hasbutton
             \/ \E u \in 1 .. Len(nodes) : /\ nodes[u].k = "button" /\ nodes[u].n = q
                                           /\ <<nodes[u].id, p.paste[q].id>> \in p.links
        BY DEF ButtonsParsed
    <2>3. CASE g.paste[q].id = p.paste[q].id /\ g.paste[q].hasbutton
        <3>1. PICK x \in Outside(text, b, e) : /\ text[x].k = "button" /\ text[x].n = q
                                              /\ <<text[x].id, g.paste[q].id>> \in g.links
            BY <2>3 DEF ButtonsKnown
        <3>2. /\ t[old[x]].k = "button" /\ t[old[x]].n = q /\ old[x] \in DOMAIN t
              /\ t[old[x]].id = text[x].id
            BY <2>1, <3>1
        <3>3. <<t[old[x]].id, p.paste[q].id>> \in p.links
            <4>1. <<text[x].id, p.paste[q].id>> \in g.links
                BY <2>3, <3>1
            <4> QED BY <2>2, <3>2, <4>1
        <3> QED BY <3>2, <3>3
    <2>4. CASE \E u \in 1 .. Len(nodes) : /\ nodes[u].k = "button" /\ nodes[u].n = q
                                         /\ <<nodes[u].id, p.paste[q].id>> \in p.links
        <3>1. PICK u \in 1 .. Len(nodes) : /\ nodes[u].k = "button" /\ nodes[u].n = q
                                          /\ <<nodes[u].id, p.paste[q].id>> \in p.links
            BY <2>4
        <3>2. /\ t[new[u]].k = "button" /\ t[new[u]].n = q /\ new[u] \in DOMAIN t
              /\ t[new[u]].id = nodes[u].id
            BY <2>1, <3>1
        <3>3. <<t[new[u]].id, p.paste[q].id>> \in p.links
            BY <3>1, <3>2
        <3> QED BY <3>2, <3>3
    <2> QED BY <2>2, <2>3, <2>4
<1> QED BY <1>5, <1>6, <1>7, <1>8, <1>9 DEF PageGood, BoxesGood

\* A page that is read from its file.
LEMMA LoadedFacts ==
    ASSUME NEW page \in Pages, NEW fresh \in Nat
    PROVE  FormGood(LoadedPage(page, fresh))
<1> DEFINE ps == [q \in PasteNames |-> NoPaste]
           cur == 0
           f == [text |-> <<>>, list |-> <<>>, cur |-> cur, boxes |-> <<>>,
                 paste |-> ps, links |-> {}, fresh |-> fresh, fault |-> "no"]
           nodes == Fresh(f, page)
           p == Parsed(f, nodes)
           r == [p EXCEPT !.text = nodes]
<1>1. LoadedPage(page, fresh) = r
    BY DEF LoadedPage
<1>2. ps \in [PasteNames -> PasteNode] /\ cur \in Nat
      /\ \A q \in PasteNames : ps[q].begin = 0 /\ ps[q].end = 0 /\ ps[q].id = 0
    BY NoPasteFacts
<1> HIDE DEF ps
<1>3. /\ f \in FormType /\ f.text = <<>> /\ f.list = <<>> /\ f.cur = 0 /\ f.boxes = <<>>
      /\ f.paste = ps /\ f.fresh = fresh /\ f.fault = "no"
    BY <1>2 DEF FormType
<1> HIDE DEF f
<1>4. Reading(f, nodes) /\ TextIsNested(nodes) /\ Nested(nodes)
    <2>1. page \in Texts
        BY DEF Texts
    <2> QED BY <1>3, <2>1, FreshFacts
<1>5. OnePicked(f.boxes)
    BY <1>3 DEF OnePicked
<1> HIDE DEF nodes
<1>6. Parsing(f, nodes, Len(nodes), p) /\ ButtonsParsed(f, nodes, Len(nodes), p)
    BY <1>3, <1>4, <1>5, ParsedFacts, ParsedButtons
<1> HIDE DEF p
<1>7. p \in FormType /\ OnePicked(p.boxes) /\ nodes \in Seq(Node)
    BY <1>4, <1>6 DEF Parsing, BoxesParsed, Reading
<1>8. /\ r \in FormType /\ r.text = nodes /\ r.list = p.list /\ r.cur = p.cur
      /\ r.boxes = p.boxes /\ r.paste = p.paste /\ r.fresh = p.fresh /\ r.fault = p.fault
      /\ r.links = p.links
    BY <1>7 DEF FormType
<1> HIDE DEF r
<1>9. ASSUME p.fault = "no"
      PROVE  PageGood(r)
    <2> DEFINE text == <<>>
               l == <<>>
               o == 1
               z == 0
    <2>1. PICK old, new : Spliced(text, o, z, nodes, nodes, old, new)
        BY <1>7, PageIsSpliced
    <2>2. /\ text \in Seq(Node) /\ l \in Seq(Nat \ {0}) /\ DOMAIN text = {} /\ DOMAIN l = {}
          /\ Len(l) = 0 /\ 1 .. Len(l) = {}
        OBVIOUS
    <2>3. Len(f.list) = 0 /\ 1 .. Len(f.list) = {} /\ Len(f.list) + 1 .. Len(l) = {}
        BY <1>3, <2>2
    <2> HIDE DEF text, l, o, z
    <2>4. Known(text, f.fresh) /\ EndsGood(f, text)
        <3>1. \A q \in PasteNames : f.paste[q].begin <= f.fresh /\ f.paste[q].end <= f.fresh
            BY <1>2, <1>3
        <3> QED BY <2>2, <3>1 DEF Known, Distinct, EndsGood
    <2>5. Listed(l, text, Outside(text, o, z))
        BY <2>2 DEF Listed, InOrder, Outside
    <2>6. p.list \in Seq(Nat \ {0}) /\ Len(p.list) \in Nat
        BY <1>7 DEF FormType
    <2>7. Len(r.list) = Len(l) + (Len(p.list) - Len(f.list))
        BY <1>8, <2>2, <2>3, <2>6
    <2>8. InFocus(r.list, r.cur)
        <3>1. p.cur = IF Len(p.list) = 0 THEN 0 ELSE p.list[0 + 1]
            BY <1>3, <1>6, <1>9, <2>3 DEF Parsing, FocusParsed
        <3>2. CASE p.list = <<>>
            BY <1>8, <3>1, <3>2 DEF InFocus
        <3>3. CASE p.list # <<>>
            <4>1. Len(p.list) # 0 /\ 1 \in DOMAIN p.list
                BY <2>6, <3>3
            <4> QED BY <1>8, <3>1, <3>3, <4>1 DEF InFocus
        <3> QED BY <3>2, <3>3
    <2>9. /\ Len(f.list) <= Len(l)
          /\ \A i \in 1 .. Len(f.list) : f.list[i] = l[i]
          /\ \A i \in 1 .. Len(p.list) : r.list[i] = p.list[i]
          /\ \A i \in Len(f.list) + 1 .. Len(l) : r.list[i + (Len(p.list) - Len(f.list))] = l[i]
        BY <1>8, <2>2, <2>3
    <2>10. /\ ItemsPutBack(f, p, l, r) /\ BoxesGood(f, text)
           /\ Apart(text, o, z, nodes, l, Len(f.list))
        BY <2>2, <2>7, <2>9 DEF ItemsPutBack, BoxesGood, Apart
    <2>11. ButtonsKnown(f, text, Outside(text, o, z))
        BY <1>2, <1>3 DEF ButtonsKnown
    <2> QED BY <1>3, <1>4, <1>6, <1>8, <1>9, <2>1, <2>2, <2>4, <2>5, <2>8, <2>10, <2>11,
              ReadFacts
<1> QED BY <1>1, <1>7, <1>8, <1>9 DEF FormGood

(***************************************************************************)
(* Pasting.                                                                *)
(***************************************************************************)
LEMMA FirstItem ==
    ASSUME NEW S, NEW s \in Seq(S), s # <<>>
    PROVE  SubSeq(s, 1, 1) = <<s[1]>>
<1> DEFINE r == SubSeq(s, 1, 1)
<1>1. s[1] \in S /\ \A i \in 1 .. 1 : s[i] \in S
    OBVIOUS
<1>2. r \in Seq(S) /\ Len(r) = 1 /\ r[1] = s[1]
    BY <1>1, SubSeqProperties
<1> HIDE DEF r
<1>3. r = <<s[1]>>
    BY <1>2
<1> QED BY <1>3 DEF r

\* init_paste_item, when it loses nothing: the items after the first a are
\* saved.
LEMMA InitPasteItemFacts ==
    ASSUME NEW f \in FormType, NEW item \in Nat
    PROVE  LET cut == InitPasteItem(f, item)
           IN  /\ cut.f \in FormType /\ cut.save \in Seq(Nat \ {0})
               /\ cut.f.text = f.text /\ cut.f.boxes = f.boxes /\ cut.f.paste = f.paste
               /\ cut.f.fresh = f.fresh /\ cut.f.links = f.links
               /\ cut.f.fault = "no" =>
                    /\ f.fault = "no"
                    /\ \/ item = 0 /\ f.list = <<>> /\ cut.f.list = <<>> /\ cut.save = <<>>
                          /\ cut.f.cur = f.cur
                       \/ /\ item # 0 /\ f.list # <<>> /\ f.list[1] = item
                          /\ cut.f.list = <<item>> /\ cut.save = SubSeq(f.list, 2, Len(f.list))
                          /\ cut.f.cur = f.cur
<1> DEFINE cut == InitPasteItem(f, item)
           NZ == Nat \ {0}
<1>1. f.list \in Seq(NZ) /\ f.fault \in FormTroubles \union {"no"}
    BY DEF FormType
<1>2. CASE item = 0
    <2>1. cut = [f |-> IF f.list = <<>> THEN f
                       ELSE FormTrouble([f EXCEPT !.list = <<>>, !.cur = 0], "lost items"),
                 save |-> <<>>]
        BY <1>2 DEF InitPasteItem
    <2>2. CASE f.list = <<>>
        <3>1. cut.f = f /\ cut.save = <<>>
            BY <2>1, <2>2
        <3>2. cut.save \in Seq(Nat \ {0})
            BY <3>1
        <3> HIDE DEF cut
        <3>3. /\ cut.f \in FormType /\ cut.save \in Seq(Nat \ {0})
              /\ cut.f.text = f.text /\ cut.f.boxes = f.boxes /\ cut.f.paste = f.paste
              /\ cut.f.fresh = f.fresh /\ cut.f.links = f.links /\ cut.f.fault = f.fault /\ cut.f.cur = f.cur
              /\ cut.f.list = <<>> /\ cut.save = <<>>
            BY <2>2, <3>1, <3>2
        <3> QED BY <1>2, <2>2, <3>3 DEF cut
    <2>3. CASE f.list # <<>>
        <3> DEFINE zero == 0
                   none == <<>>
                   g == [f EXCEPT !.list = none, !.cur = zero]
        <3>1. zero \in Nat /\ none \in Seq(Nat \ {0}) /\ "lost items" \in FormTroubles
            BY DEF FormTroubles
        <3> HIDE DEF zero, none
        <3>2. /\ g \in FormType /\ g.text = f.text /\ g.boxes = f.boxes /\ g.paste = f.paste
              /\ g.fresh = f.fresh /\ g.links = f.links
            BY <3>1 DEF FormType
        <3> HIDE DEF g
        <3>3. cut = [f |-> FormTrouble(g, "lost items"), save |-> <<>>]
            BY <2>1, <2>3 DEF g, zero, none
        <3> DEFINE t == FormTrouble(g, "lost items")
        <3>4. /\ t \in FormType /\ t.fault # "no" /\ t.text = g.text /\ t.boxes = g.boxes
              /\ t.paste = g.paste /\ t.fresh = g.fresh /\ t.links = g.links
            BY <3>1, <3>2, TroubleFacts
        <3> HIDE DEF cut
        <3>6. cut = [f |-> t, save |-> <<>>]
            BY <3>3
        <3> HIDE DEF t
        <3>5. cut.f = t /\ cut.save = <<>>
            BY <3>6
        <3> QED BY <3>2, <3>4, <3>5 DEF cut
    <2> QED BY <2>2, <2>3
<1>3. CASE item # 0 /\ item \notin ToSet(f.list)
    <2> DEFINE t == FormTrouble(f, "freed item")
    <2>1. cut = [f |-> t, save |-> <<>>]
        BY <1>3 DEF InitPasteItem
    <2>2. "freed item" \in FormTroubles
        BY DEF FormTroubles
    <2>3. /\ t \in FormType /\ t.fault # "no" /\ t.text = f.text /\ t.boxes = f.boxes
          /\ t.paste = f.paste /\ t.fresh = f.fresh /\ t.links = f.links
        BY <2>2, TroubleFacts
    <2> HIDE DEF t, cut
    <2>4. cut.f = t /\ cut.save = <<>>
        BY <2>1
    <2> QED BY <2>3, <2>4 DEF cut
<1>4. CASE item # 0 /\ item \in ToSet(f.list)
    <2> DEFINE i == Place(f.list, item)
               first == SubSeq(f.list, 1, 1)
               save == SubSeq(f.list, i + 1, Len(f.list))
               g == [f EXCEPT !.list = first]
    <2>1. i \in DOMAIN f.list /\ f.list[i] = item
        BY <1>4 DEF Place, ToSet
    <2>2. cut = [f |-> IF i = 1 THEN g ELSE FormTrouble(g, "lost items"), save |-> save]
        BY <1>4 DEF InitPasteItem
    <2> HIDE DEF i
    <2>3. f.list # <<>> /\ 1 \in DOMAIN f.list /\ i \in Nat
        BY <1>1, <2>1
    <2>4. first \in Seq(NZ) /\ first = <<f.list[1]>> /\ save \in Seq(NZ)
        <3>1. first = <<f.list[1]>>
            BY <1>1, <2>3, FirstItem
        <3>2. f.list[1] \in NZ
            BY <1>1, <2>3
        <3> HIDE DEF NZ
        <3>3. save \in Seq(NZ)
            BY <1>1, <2>3
        <3>4. <<f.list[1]>> \in Seq(NZ)
            BY <3>2
        <3> QED BY <3>1, <3>3, <3>4
    <2>5. /\ g \in FormType /\ g.text = f.text /\ g.boxes = f.boxes /\ g.paste = f.paste
          /\ g.fresh = f.fresh /\ g.links = f.links /\ g.fault = f.fault /\ g.list = first /\ g.cur = f.cur
        <3> HIDE DEF first
        <3> QED BY <2>4 DEF FormType
    <2> HIDE DEF g, first
    <2>6. CASE i = 1
        <3>1. cut.f = g /\ cut.save = save
            BY <2>2, <2>6
        <3>2. save = SubSeq(f.list, 2, Len(f.list)) /\ first = <<item>> /\ f.list[1] = item
            BY <2>1, <2>4, <2>6
        <3> HIDE DEF cut, save
        <3> QED BY <1>4, <2>3, <2>4, <2>5, <3>1, <3>2 DEF cut
    <2>7. CASE i # 1
        <3> DEFINE t == FormTrouble(g, "lost items")
        <3>1. cut = [f |-> t, save |-> save]
            BY <2>2, <2>7
        <3>2. "lost items" \in FormTroubles
            BY DEF FormTroubles
        <3>3. /\ t \in FormType /\ t.fault # "no" /\ t.text = g.text /\ t.boxes = g.boxes
              /\ t.paste = g.paste /\ t.fresh = g.fresh /\ t.links = g.links
            BY <2>5, <3>2, TroubleFacts
        <3> HIDE DEF t, save
        <3>4. cut.f = t /\ cut.save = save
            BY <3>1
        <3> HIDE DEF cut
        <3> QED BY <2>4, <2>5, <3>3, <3>4 DEF cut
    <2> QED BY <2>6, <2>7
<1> QED BY <1>2, <1>3, <1>4

LEMMA RepasteItemFacts ==
    ASSUME NEW f \in FormType, NEW save \in Seq(Nat \ {0})
    PROVE  LET t == RepasteItem(f, save)
           IN  /\ t \in FormType /\ t.text = f.text /\ t.boxes = f.boxes /\ t.paste = f.paste
               /\ t.fresh = f.fresh /\ t.links = f.links /\ t.fault = f.fault
               /\ t.list = f.list \o save
               /\ f.list # <<>> => t.cur = f.cur
               /\ save = <<>> => t.cur = f.cur
<1> DEFINE NZ == Nat \ {0}
<1>1. f.list \in Seq(NZ) /\ f.cur \in Nat
    BY DEF FormType
<1>2. CASE save = <<>>
    <2>1. RepasteItem(f, save) = f /\ f.list \o save = f.list
        BY <1>1, <1>2 DEF RepasteItem
    <2> QED BY <2>1
<1>3. CASE save # <<>>
    <2> DEFINE list == f.list \o save
               cur == IF f.list = <<>> THEN save[1] ELSE f.cur
               t == [f EXCEPT !.list = list, !.cur = cur]
    <2>1. RepasteItem(f, save) = t
        BY <1>3 DEF RepasteItem
    <2>2. list \in Seq(Nat \ {0}) /\ cur \in Nat
        <3>1. save[1] \in Nat
            BY <1>3
        <3> QED BY <1>1, <3>1
    <2>3. f.list # <<>> => cur = f.cur
        OBVIOUS
    <2> HIDE DEF list, cur
    <2>4. /\ t \in FormType /\ t.text = f.text /\ t.boxes = f.boxes /\ t.paste = f.paste
          /\ t.fresh = f.fresh /\ t.links = f.links /\ t.fault = f.fault /\ t.list = list /\ t.cur = cur
        BY <2>2 DEF FormType
    <2> HIDE DEF t
    <2> QED BY <1>3, <2>1, <2>3, <2>4 DEF list
<1> QED BY <1>2, <1>3

\* The areas of a name are forgotten before its patch is read.
LEMMA ResetFacts ==
    ASSUME NEW f \in FormType, NEW p \in PasteNames
    PROVE  LET t == [f EXCEPT !.paste[p] = [@ EXCEPT !.haspaste = FALSE, !.item = 0,
                                                     !.begin = 0, !.end = 0]]
           IN  /\ t \in FormType /\ EndsKept(f, t) /\ t.fault = f.fault
               /\ t.text = f.text /\ t.boxes = f.boxes /\ t.fresh = f.fresh
               /\ t.list = f.list /\ t.cur = f.cur /\ t.links = f.links
               /\ \A q \in PasteNames : /\ t.paste[q].id = f.paste[q].id
                                         /\ t.paste[q].hasbutton = f.paste[q].hasbutton
<1> DEFINE no == FALSE
           zero == 0
           pn == [f.paste[p] EXCEPT !.haspaste = no, !.item = zero, !.begin = zero, !.end = zero]
<1>1. f.paste[p] \in PasteNode /\ no \in BOOLEAN /\ zero \in Nat /\ zero = 0
    BY DEF FormType
<1>2. [f EXCEPT !.paste[p] = [@ EXCEPT !.haspaste = FALSE, !.item = 0,
                                       !.begin = 0, !.end = 0]] = [f EXCEPT !.paste[p] = pn]
    OBVIOUS
<1> HIDE DEF no, zero
<1>3. /\ pn \in PasteNode /\ pn.begin = 0 /\ pn.end = 0
      /\ pn.id = f.paste[p].id /\ pn.hasbutton = f.paste[p].hasbutton
    BY <1>1 DEF PasteNode
<1> HIDE DEF pn
<1>4. LET t == [f EXCEPT !.paste[p] = pn]
      IN  /\ t \in FormType /\ EndsKept(f, t) /\ t.fault = f.fault
          /\ t.text = f.text /\ t.boxes = f.boxes /\ t.fresh = f.fresh
          /\ t.list = f.list /\ t.cur = f.cur /\ t.links = f.links
          /\ t.paste[p] = pn /\ \A q \in PasteNames : q # p => t.paste[q] = f.paste[q]
    BY <1>3, PasteSet
<1> QED BY <1>2, <1>3, <1>4

LEMMA EndsStay ==
    ASSUME NEW f \in FormType, NEW text \in Seq(Node), EndsGood(f, text),
           NEW t \in FormType, t.fresh = f.fresh,
           \A q \in PasteNames : /\ t.paste[q].begin \in {f.paste[q].begin, 0}
                                 /\ t.paste[q].end \in {f.paste[q].end, 0}
    PROVE  EndsGood(t, text)
<1>1. f.fresh \in Nat
    BY DEF FormType
<1>2. \A x \in DOMAIN text : text[x].id # 0
    <2>1. \A x \in DOMAIN text : text[x] \in Node
        OBVIOUS
    <2> QED BY <2>1 DEF Node
<1> SUFFICES ASSUME NEW q \in PasteNames
             PROVE  /\ t.paste[q].begin <= t.fresh /\ t.paste[q].end <= t.fresh
                    /\ \A i, j \in DOMAIN text :
                         text[i].id = t.paste[q].begin /\ text[j].id = t.paste[q].end =>
                           text[i].k = "paste" /\ i < j
    BY DEF EndsGood
<1>3. /\ f.paste[q].begin <= f.fresh /\ f.paste[q].end <= f.fresh
      /\ \A i, j \in DOMAIN text :
           text[i].id = f.paste[q].begin /\ text[j].id = f.paste[q].end =>
             text[i].k = "paste" /\ i < j
    BY DEF EndsGood
<1> QED BY <1>1, <1>2, <1>3

\* What an item was saved for.
LEMMA SavedFacts ==
    ASSUME NEW l \in Seq(Nat \ {0}), l # <<>>, NEW pl \in Seq(Nat \ {0}), pl # <<>>
    PROVE  LET r == pl \o SubSeq(l, 2, Len(l))
               a == Len(<<l[1]>>)
           IN  /\ r \in Seq(Nat \ {0}) /\ Len(r) = Len(l) + (Len(pl) - a) /\ a = 1 /\ a <= Len(l)
               /\ \A i \in 1 .. Len(pl) : r[i] = pl[i] /\ i \in DOMAIN r
               /\ \A i \in a + 1 .. Len(l) : r[i + (Len(pl) - a)] = l[i]
                                             /\ i + (Len(pl) - a) \in DOMAIN r
<1> DEFINE NZ == Nat \ {0}
           save == SubSeq(l, 2, Len(l))
           n == Len(l)
           c == Len(pl)
           r == pl \o save
<1>1. n \in Nat /\ n >= 1 /\ c \in Nat /\ c >= 1 /\ \A i \in 2 .. n : l[i] \in NZ
    OBVIOUS
<1>2. save \in Seq(NZ) /\ Len(save) = n - 1 /\ \A i \in 1 .. n - 1 : save[i] = l[i + 1]
    <2> DEFINE two == 2
    <2>1. two \in Int /\ n \in Int /\ \A i \in two .. n : l[i] \in NZ
        BY <1>1
    <2>2. two = 2
        OBVIOUS
    <2> HIDE DEF NZ, n, two
    <2> DEFINE s == SubSeq(l, two, n)
    <2>3. /\ s \in Seq(NZ) /\ Len(s) = IF two <= n THEN n - two + 1 ELSE 0
          /\ \A i \in 1 .. n - two + 1 : s[i] = l[two + i - 1]
        BY <2>1, SubSeqProperties
    <2>4. s = save
        BY <2>2 DEF n
    <2> HIDE DEF s, save
    <2>5. Len(save) = n - 1
        BY <1>1, <2>2, <2>3, <2>4
    <2>6. \A i \in 1 .. n - 1 : save[i] = l[i + 1]
        <3>1. \A i \in 1 .. n - 1 : i \in 1 .. n - two + 1 /\ two + i - 1 = i + 1
            BY <1>1, <2>2
        <3> QED BY <2>3, <2>4, <3>1
    <2> QED BY <2>3, <2>4, <2>5, <2>6
<1>3. pl \in Seq(NZ)
    OBVIOUS
<1> HIDE DEF save, NZ
<1>4. /\ r \in Seq(NZ) /\ Len(r) = c + (n - 1)
      /\ \A i \in 1 .. c + (n - 1) : r[i] = IF i <= c THEN pl[i] ELSE save[i - c]
    <2> DEFINE m == n - 1
    <2>1. m \in Nat /\ Len(save) = m
        BY <1>1, <1>2
    <2> HIDE DEF m, c
    <2>2. /\ r \in Seq(NZ) /\ Len(r) = c + m
          /\ \A i \in 1 .. c + m : r[i] = IF i <= c THEN pl[i] ELSE save[i - c]
        BY <1>1, <1>2, <1>3, <2>1, ConcatProperties DEF c
    <2> QED BY <2>2 DEF m
<1>5. Len(<<l[1]>>) = 1 /\ DOMAIN r = 1 .. c + (n - 1)
    BY <1>4
<1> HIDE DEF r, n, c
<1>6. \A i \in 1 .. c : r[i] = pl[i] /\ i \in DOMAIN r
    BY <1>1, <1>4, <1>5
<1>7. \A i \in 1 + 1 .. n : r[i + (c - 1)] = l[i] /\ i + (c - 1) \in DOMAIN r
    <2> TAKE i \in 1 + 1 .. n
    <2>1. /\ i + (c - 1) \in 1 .. c + (n - 1) /\ ~(i + (c - 1) <= c) /\ (i + (c - 1)) - c = i - 1
          /\ i - 1 \in 1 .. n - 1 /\ (i - 1) + 1 = i
        BY <1>1
    <2> QED BY <1>2, <1>4, <1>5, <2>1
<1>8. Len(r) = n + (c - 1) /\ 1 <= n
    BY <1>1, <1>4
<1> QED BY <1>4, <1>5, <1>6, <1>7, <1>8 DEF r, n, c, save, NZ

LEMMA ParsePatchFacts ==
    ASSUME NEW f, FormGood(f), f.fault = "no", NEW p \in PasteNames
    PROVE  LET r == ParsePatch(f, p)
           IN  FormGood(r) /\ (f.boxes # <<>> => r.boxes # <<>>)
<1> DEFINE pn == f.paste[p]
           text == f.text
           b == PlaceOf(text, pn.begin)
           e == PlaceOf(text, pn.end)
           reset == [f EXCEPT !.paste[p] = [@ EXCEPT !.haspaste = FALSE, !.item = 0,
                                                     !.begin = 0, !.end = 0]]
           freed == Freed(reset, SubSeq(text, b + 1, e))
           cut == InitPasteItem(freed, pn.item)
           nodes == Fresh(f, Patches[p])
           g == cut.f
           read == Parsed(g, nodes)
           parsed == RepasteItem(read, cut.save)
           before == {text[i].id : i \in {j \in 1 .. b - 1 : text[j].k = "input"}}
           misplaced == /\ pn.item # 0 /\ before # {pn.item}
                        /\ \E i \in DOMAIN nodes : nodes[i].k = "input"
           placed == IF misplaced THEN FormTrouble(parsed, "out of order") ELSE parsed
           t == SubSeq(text, 1, b - 1) \o nodes \o SubSeq(text, e + 1, Len(text))
           r == [placed EXCEPT !.text = t]
<1>1. f \in FormType /\ OnePicked(f.boxes) /\ PageGood(f)
    BY DEF FormGood
<1>2. text \in Seq(Node) /\ pn \in PasteNode /\ pn.item \in Nat
    BY <1>1 DEF FormType, PasteNode
<1>3. CASE ~({pn.begin, pn.end} \subseteq Ids(text))
    <2>1. ParsePatch(f, p) = FormTrouble(f, "freed node")
        BY <1>3 DEF ParsePatch
    <2>2. "freed node" \in FormTroubles
        BY DEF FormTroubles
    <2> DEFINE u == FormTrouble(f, "freed node")
    <2>3. u \in FormType /\ u.fault # "no" /\ u.boxes = f.boxes
        BY <1>1, <2>2, TroubleFacts
    <2> QED BY <1>1, <2>1, <2>3 DEF FormGood
<1>4. CASE {pn.begin, pn.end} \subseteq Ids(text)
    <2>1. ParsePatch(f, p) = r
        BY <1>4 DEF ParsePatch
    <2>2. b \in DOMAIN text /\ text[b].id = pn.begin /\ e \in DOMAIN text /\ text[e].id = pn.end
        BY <1>4 DEF Ids, PlaceOf
    <2> HIDE DEF b, e
    <2>3. text[b].k = "paste" /\ b < e
        BY <1>1, <2>2 DEF PageGood, EndsGood
    <2>4. b \in 1 .. Len(text) /\ e \in b .. Len(text) /\ b \in Nat /\ e \in Nat /\ b <= e /\ e <= Len(text)
        BY <1>2, <2>2, <2>3
    <2>5. /\ reset \in FormType /\ EndsKept(f, reset) /\ reset.fault = "no"
          /\ reset.text = text /\ reset.boxes = f.boxes /\ reset.fresh = f.fresh
          /\ reset.list = f.list /\ reset.cur = f.cur /\ reset.links = f.links
          /\ \A q \in PasteNames : /\ reset.paste[q].id = f.paste[q].id
                                    /\ reset.paste[q].hasbutton = f.paste[q].hasbutton
        BY <1>1, ResetFacts
    <2> HIDE DEF reset
    <2>6. /\ Distinct(text) /\ Known(text, f.fresh) /\ EndsGood(f, text) /\ BoxesGood(f, text)
          /\ Listed(f.list, text, DOMAIN text) /\ InFocus(f.list, f.cur)
          /\ \A x \in DOMAIN text : text[x].k \in OfPastes => text[x].n \in PasteNames
          /\ ButtonsKnown(f, text, DOMAIN text)
        BY <1>1 DEF PageGood, Known
    <2>21. ButtonsKnown(reset, text, DOMAIN text)
        BY <2>5, <2>6 DEF ButtonsKnown
    <2>7. Freeing(reset, text, DOMAIN text \ (b + 1 .. e), freed)
        BY <1>2, <2>4, <2>5, <2>6, <2>21, FreedFacts
    <2> HIDE DEF freed
    <2>8. freed \in FormType /\ freed.text = text /\ freed.boxes = f.boxes /\ freed.fresh = f.fresh
        BY <2>5, <2>7 DEF Freeing
    <2> DEFINE l == freed.list
    <2>9. ASSUME freed.fault = "no"
          PROVE  /\ Listed(l, text, Outside(text, b, e)) /\ InFocus(l, freed.cur)
                 /\ ButtonsKnown(freed, text, Outside(text, b, e))
                 /\ \A q \in PasteNames : /\ freed.paste[q].begin \in {f.paste[q].begin, 0}
                                          /\ freed.paste[q].end \in {f.paste[q].end, 0}
        <3>1. /\ EndsKept(reset, freed)
              /\ Listed(l, text, DOMAIN text \ (b + 1 .. e)) /\ InFocus(l, freed.cur)
              /\ ButtonsKnown(freed, text, DOMAIN text \ (b + 1 .. e))
            BY <2>7, <2>9 DEF Freeing
        <3>2. Outside(text, b, e) \in SUBSET (DOMAIN text \ (b + 1 .. e))
            BY <2>4 DEF Outside
        <3>3. \A x \in (DOMAIN text \ (b + 1 .. e)) \ Outside(text, b, e) : x = b
            <4>1. DOMAIN text \subseteq Nat
                BY <1>2
            <4> QED BY <2>4, <4>1 DEF Outside
        <3>4. \A x \in (DOMAIN text \ (b + 1 .. e)) \ Outside(text, b, e) : text[x].k = "paste"
            BY <2>3, <3>3
        <3> DEFINE R == Outside(text, b, e)
                   S == DOMAIN text \ (b + 1 .. e)
        <3> HIDE DEF R, S, l
        <3>5. /\ Listed(l, text, S) /\ R \in SUBSET S /\ ButtonsKnown(freed, text, S)
              /\ \A x \in S \ R : text[x].k \notin {"input", "button"}
            BY <3>1, <3>2, <3>4 DEF R, S
        <3>6. Listed(l, text, R)
            BY <3>5, ListedLess
        <3>7. ButtonsKnown(freed, text, R)
            BY <3>5 DEF ButtonsKnown
        <3> QED BY <2>5, <3>1, <3>6, <3>7 DEF R, EndsKept
    <2>10. /\ g \in FormType /\ cut.save \in Seq(Nat \ {0})
           /\ g.text = text /\ g.boxes = f.boxes /\ g.paste = freed.paste /\ g.fresh = f.fresh
           /\ g.links = freed.links
           /\ g.fault = "no" =>
                /\ freed.fault = "no"
                /\ \/ pn.item = 0 /\ l = <<>> /\ g.list = <<>> /\ cut.save = <<>>
                      /\ g.cur = freed.cur
                   \/ /\ pn.item # 0 /\ l # <<>> /\ l[1] = pn.item
                      /\ g.list = <<pn.item>> /\ cut.save = SubSeq(l, 2, Len(l))
                      /\ g.cur = freed.cur
        BY <1>2, <2>8, InitPasteItemFacts
    <2> DEFINE save == cut.save
               item == pn.item
    <2> HIDE DEF cut, pn
    <2>11. Reading(g, nodes) /\ TextIsNested(nodes) /\ Nested(nodes)
        <3>1. Patches[p] \in Texts
            BY DEF Texts
        <3>2. Reading(f, nodes) /\ TextIsNested(nodes) /\ Nested(nodes)
            BY <1>1, <3>1, FreshFacts
        <3> QED BY <2>10, <3>2 DEF Reading
    <2> HIDE DEF nodes, g, save
    <2>12. nodes \in Seq(Node) /\ t \in Seq(Node) /\ \E old, new : Spliced(text, b, e, nodes, t, old, new)
        <3>1. nodes \in Seq(Node)
            BY <2>11 DEF Reading
        <3> QED BY <1>2, <2>4, <3>1, PatchIsSpliced
    <2> HIDE DEF t
    <2>13. OnePicked(g.boxes)
        BY <1>1, <2>10 DEF g
    <2>14. Parsing(g, nodes, Len(nodes), read) /\ ButtonsParsed(g, nodes, Len(nodes), read)
        BY <2>10, <2>11, <2>13, ParsedFacts, ParsedButtons DEF g
    <2> HIDE DEF read
    <2>15. /\ read \in FormType /\ OnePicked(read.boxes) /\ (f.boxes # <<>> => read.boxes # <<>>)
           /\ read.fresh = f.fresh + Len(nodes)
        BY <2>10, <2>14 DEF Parsing, BoxesParsed, g
    <2>16. /\ parsed \in FormType /\ parsed.boxes = read.boxes /\ parsed.paste = read.paste
           /\ parsed.fresh = read.fresh /\ parsed.fault = read.fault
           /\ parsed.list = read.list \o save /\ parsed.links = read.links
           /\ read.list # <<>> => parsed.cur = read.cur
           /\ save = <<>> => parsed.cur = read.cur
        BY <2>10, <2>15, RepasteItemFacts DEF save, g
    <2> HIDE DEF parsed, misplaced
    <2>17. /\ placed \in FormType /\ placed.boxes = parsed.boxes /\ placed.paste = parsed.paste
           /\ placed.fresh = parsed.fresh /\ placed.list = parsed.list /\ placed.cur = parsed.cur
           /\ placed.links = parsed.links
           /\ placed.fault = "no" => parsed.fault = "no" /\ ~misplaced
        <3>1. CASE misplaced
            <4>1. "out of order" \in FormTroubles
                BY DEF FormTroubles
            <4> DEFINE u == FormTrouble(parsed, "out of order")
            <4>2. /\ u \in FormType /\ u.fault # "no"
                  /\ u.list = parsed.list /\ u.cur = parsed.cur /\ u.boxes = parsed.boxes
                  /\ u.paste = parsed.paste /\ u.fresh = parsed.fresh /\ u.links = parsed.links
                BY <2>16, <4>1, TroubleFacts
            <4> QED BY <3>1, <4>2
        <3>2. CASE ~misplaced
            BY <2>16, <3>2
        <3> QED BY <3>1, <3>2
    <2> HIDE DEF placed
    <2>18. /\ r \in FormType /\ r.text = t /\ r.boxes = placed.boxes /\ r.paste = placed.paste
           /\ r.fresh = placed.fresh /\ r.list = placed.list /\ r.cur = placed.cur
           /\ r.fault = placed.fault /\ r.links = placed.links
        BY <2>12, <2>17 DEF FormType
    <2> HIDE DEF r
    <2>19. ASSUME r.fault = "no"
           PROVE  PageGood(r)
        <3>1. read.fault = "no" /\ ~misplaced
            BY <2>16, <2>17, <2>18, <2>19
        <3>2. g.fault = "no" /\ ListParsed(g, nodes, Len(nodes), read) /\ FocusParsed(g, read)
            BY <2>14, <3>1 DEF Parsing
        <3>3. /\ freed.fault = "no"
              /\ \/ item = 0 /\ l = <<>> /\ g.list = <<>> /\ save = <<>>
                    /\ g.cur = freed.cur
                 \/ /\ item # 0 /\ l # <<>> /\ l[1] = item
                    /\ g.list = <<item>> /\ save = SubSeq(l, 2, Len(l))
                    /\ g.cur = freed.cur
            BY <2>10, <3>2 DEF g, save
        <3>4. l \in Seq(Nat \ {0}) /\ read.list \in Seq(Nat \ {0})
            BY <2>8, <2>15 DEF FormType
        <3>5. Listed(l, text, Outside(text, b, e)) /\ InFocus(l, freed.cur)
            BY <2>9, <3>3
        <3>13. ButtonsKnown(g, text, Outside(text, b, e))
            BY <2>9, <2>10, <3>3 DEF ButtonsKnown, g
        <3>6. EndsGood(g, text)
            BY <1>1, <1>2, <2>6, <2>9, <2>10, <3>3, EndsStay DEF g
        <3>7. Known(text, g.fresh) /\ BoxesGood(g, text)
            BY <2>6, <2>10 DEF BoxesGood, g
        <3> HIDE DEF item, text, l
        <3>8. ItemsPutBack(g, read, l, r) /\ InFocus(r.list, r.cur)
            <4>1. CASE item = 0
                <5>1. l = <<>> /\ g.list = <<>> /\ save = <<>> /\ g.cur = freed.cur
                    BY <3>3, <4>1
                <5>2. g.cur = 0
                    BY <3>5, <5>1 DEF InFocus
                <5>3. r.list = read.list /\ r.cur = read.cur
                    BY <2>16, <2>17, <2>18, <3>4, <5>1
                <5>4. Len(l) = 0 /\ Len(g.list) = 0 /\ Len(read.list) \in Nat
                    BY <3>4, <5>1
                <5>5. ItemsPutBack(g, read, l, r)
                    BY <5>3, <5>4 DEF ItemsPutBack
                <5>6. read.cur = IF Len(read.list) = 0 THEN 0 ELSE read.list[0 + 1]
                    BY <3>2, <5>2, <5>4 DEF FocusParsed
                <5>7. CASE read.list = <<>>
                    BY <5>3, <5>4, <5>5, <5>6, <5>7 DEF InFocus
                <5>8. CASE read.list # <<>>
                    <6>1. Len(read.list) # 0 /\ 1 \in DOMAIN read.list
                        BY <3>4, <5>8
                    <6> QED BY <5>3, <5>5, <5>6, <5>8, <6>1 DEF InFocus
                <5> QED BY <5>5, <5>7, <5>8
            <4>2. CASE item # 0
                <5>1. /\ l # <<>> /\ l[1] = item /\ g.list = <<item>> /\ save = SubSeq(l, 2, Len(l))
                      /\ g.cur = freed.cur
                    BY <3>3, <4>2
                <5>2. Len(g.list) = 1 /\ g.list[1] = l[1]
                    BY <5>1
                <5>3. Len(read.list) >= 1 /\ read.list[1] = l[1]
                    BY <3>2, <5>2 DEF ListParsed
                <5>4. read.list # <<>>
                    BY <5>3
                <5>5. r.list = read.list \o SubSeq(l, 2, Len(l)) /\ r.cur = read.cur
                    BY <2>16, <2>17, <2>18, <5>1, <5>4
                <5> DEFINE s == read.list \o SubSeq(l, 2, Len(l))
                           a == Len(<<l[1]>>)
                           c == Len(read.list)
                <5>6. /\ s \in Seq(Nat \ {0}) /\ Len(s) = Len(l) + (c - a) /\ a = 1 /\ a <= Len(l)
                      /\ \A i \in 1 .. c : s[i] = read.list[i] /\ i \in DOMAIN s
                      /\ \A i \in a + 1 .. Len(l) : s[i + (c - a)] = l[i] /\ i + (c - a) \in DOMAIN s
                    BY <3>4, <5>1, <5>4, SavedFacts
                <5>7. Len(g.list) = a
                    BY <5>2, <5>6
                <5> HIDE DEF s, a
                <5>8. r.list = s
                    BY <5>5 DEF s
                <5>9. ItemsPutBack(g, read, l, r)
                    <6>1. \A i \in 1 .. Len(g.list) : i = 1
                        BY <5>2
                    <6> QED BY <5>2, <5>6, <5>7, <5>8, <6>1 DEF ItemsPutBack
                <5>10. PICK k \in DOMAIN l : l[k] = freed.cur
                    BY <3>5, <5>1 DEF InFocus
                <5>11. l[k] # 0 /\ k \in 1 .. Len(l)
                    BY <3>4
                <5>12. r.cur = l[k]
                    BY <3>2, <5>1, <5>5, <5>10, <5>11 DEF FocusParsed
                <5>13. \E i \in DOMAIN s : s[i] = l[k]
                    <6>1. CASE k = 1
                        <7>1. 1 \in 1 .. c
                            BY <3>4, <5>3
                        <7> QED BY <5>3, <5>6, <6>1, <7>1
                    <6>2. CASE k # 1
                        <7>1. k \in a + 1 .. Len(l)
                            BY <5>6, <5>11, <6>2
                        <7> QED BY <5>6, <7>1
                    <6> QED BY <6>1, <6>2
                <5>14. s # <<>>
                    BY <5>13
                <5>15. InFocus(s, l[k])
                    BY <5>13, <5>14 DEF InFocus
                <5> HIDE DEF c
                <5> QED BY <5>8, <5>9, <5>12, <5>15
            <4> QED BY <4>1, <4>2
        <3>9. Apart(text, b, e, nodes, l, Len(g.list))
            <4> SUFFICES ASSUME NEW u \in 1 .. Len(nodes), nodes[u].k = "input",
                                NEW x \in Outside(text, b, e), NEW i \in 1 .. Len(l),
                                text[x].id = l[i]
                         PROVE  IF i <= Len(g.list) THEN x < b ELSE ~(x < b)
                BY DEF Apart
            <4>1. item # 0 /\ l # <<>> /\ l[1] = item /\ g.list = <<item>>
                <5>1. CASE item = 0
                    <6>1. Len(l) = 0
                        BY <3>3, <5>1
                    <6> QED BY <6>1
                <5> QED BY <3>3, <5>1
            <4>2. before = {item}
                <5>1. u \in DOMAIN nodes
                    BY <2>12
                <5> HIDE DEF before
                <5> QED BY <3>1, <4>1, <5>1 DEF misplaced, item
            <4>3. /\ \E j \in 1 .. b - 1 : text[j].k = "input" /\ text[j].id = item
                  /\ \A j \in 1 .. b - 1 : text[j].k = "input" => text[j].id = item
                <5>1. item \in before /\ \A y \in before : y = item
                    BY <4>2
                <5> QED BY <5>1 DEF text
            <4>4. Len(g.list) = 1 /\ i \in DOMAIN l /\ 1 \in DOMAIN l /\ i \in Nat
                BY <3>4, <4>1
            <4>5. x \in DOMAIN text /\ \A y \in DOMAIN text : text[y].id = text[x].id => y = x
                BY <2>6 DEF Outside, Distinct, text
            <4>6. DOMAIN text = 1 .. Len(text) /\ Len(text) \in Nat
                BY <1>2 DEF text
            <4>7. CASE i = 1
                <5>1. PICK j \in 1 .. b - 1 : text[j].id = item
                    BY <4>3
                <5>2. j \in DOMAIN text /\ j < b
                    BY <2>4, <4>6 DEF text
                <5>3. j = x
                    BY <4>1, <4>5, <4>7, <5>1, <5>2
                <5> QED BY <4>4, <4>7, <5>2, <5>3
            <4>8. CASE i # 1
                <5>1. SUFFICES ASSUME x < b PROVE FALSE
                    BY <4>4, <4>8
                <5>2. PICK y \in Outside(text, b, e) : text[y].k = "input" /\ text[y].id = l[i]
                    BY <3>5, <4>4 DEF Listed
                <5>3. y = x
                    BY <4>5, <5>2 DEF Outside
                <5>4. x \in 1 .. b - 1
                    BY <2>4, <4>5, <4>6, <5>1
                <5>5. l[i] = l[1]
                    BY <4>1, <4>3, <5>2, <5>3, <5>4
                <5>6. \A j, k \in DOMAIN l : l[j] = l[k] => j = k
                    <6>1. Outside(text, b, e) \in SUBSET DOMAIN text /\ text \in Seq(Node)
                        BY <1>2 DEF Outside, text
                    <6> QED BY <3>4, <3>5, <6>1, ListedOnce
                <5> QED BY <4>4, <4>8, <5>5, <5>6
            <4> QED BY <4>7, <4>8
        <3>10. PICK old, new : Spliced(text, b, e, nodes, t, old, new)
            BY <2>12 DEF text
        <3>11. text \in Seq(Node) /\ g \in FormType
            BY <1>2, <2>10 DEF text, g
        <3>12. r.text = t /\ r.paste = read.paste /\ r.fresh = read.fresh /\ r.boxes = read.boxes
               /\ r.links = read.links
            BY <2>16, <2>17, <2>18
        <3> QED BY <2>11, <2>14, <2>18, <3>1, <3>4, <3>5, <3>6, <3>7, <3>8, <3>9, <3>10, <3>11,
                   <3>12, <3>13, ReadFacts
    <2>20. OnePicked(r.boxes) /\ (f.boxes # <<>> => r.boxes # <<>>)
        BY <2>15, <2>16, <2>17, <2>18
    <2> QED BY <2>1, <2>18, <2>19, <2>20 DEF FormGood
<1> QED BY <1>3, <1>4

(***************************************************************************)
(* Scrolling.                                                              *)
(***************************************************************************)
\* Whole lines.
Whole == {k * LineHeight : k \in Int}

LEMMA LineFacts == LineHeight \in Nat /\ LineHeight > 1
                   /\ Margin \in Nat /\ ArrowHeight \in Nat /\ PixHeight \in Nat
                   /\ Rooms \subseteq Nat
BY FormAssumption

LEMMA WholeSums ==
    /\ 0 \in Whole /\ LineHeight \in Whole /\ Whole \subseteq Int
    /\ \A x, y \in Whole : x + y \in Whole /\ x - y \in Whole /\ -x \in Whole
    /\ \A x \in Whole : x < 0 => x <= -LineHeight
<1> DEFINE L == LineHeight
<1>1. L \in Nat /\ L > 1
    BY LineFacts
<1> HIDE DEF L
<1>2. 0 = 0 * L /\ L = 1 * L
    BY <1>1
<1>3. \A k \in Int : k * L \in Int
    BY <1>1
<1>4. ASSUME NEW i \in Int, NEW j \in Int
      PROVE  i * L + j * L = (i + j) * L /\ i * L - j * L = (i - j) * L /\ -(i * L) = (-i) * L
    BY <1>1
<1>5. ASSUME NEW i \in Int, i * L < 0
      PROVE  i * L <= -L
    BY <1>1, <1>5
<1>6. \A x : x \in Whole <=> \E k \in Int : x = k * L
    BY DEF Whole, L
<1>7. ASSUME NEW x \in Whole, NEW y \in Whole
      PROVE  x + y \in Whole /\ x - y \in Whole /\ -x \in Whole
    <2>1. PICK i \in Int : x = i * L
        BY <1>6
    <2>2. PICK j \in Int : y = j * L
        BY <1>6
    <2>3. i + j \in Int /\ i - j \in Int /\ -i \in Int
        OBVIOUS
    <2> QED BY <1>4, <1>6, <2>1, <2>2, <2>3
<1>8. 0 \in Whole /\ L \in Whole
    BY <1>2, <1>6
<1>9. Whole \subseteq Int
    BY <1>3, <1>6
<1>10. \A x \in Whole : x < 0 => x <= -L
    BY <1>5, <1>6
<1> QED BY <1>7, <1>8, <1>9, <1>10 DEF L

LEMMA Remainders ==
    ASSUME NEW x \in Nat
    PROVE  /\ x % LineHeight \in Nat /\ x % LineHeight < LineHeight
           /\ x % LineHeight <= x
           /\ x - (x % LineHeight) \in Whole
           /\ x < LineHeight => x % LineHeight = x
<1> DEFINE L == LineHeight
<1>1. L \in Nat /\ L > 1
    BY LineFacts
<1> HIDE DEF L
<1>2. x = ((x \div L) * L) + (x % L) /\ x \div L \in Int /\ x \div L >= 0 /\ x % L \in 0 .. L - 1
    BY <1>1
<1>3. (x \div L) * L >= 0
    BY <1>1, <1>2
<1>5. x < L => x % L = x
    BY <1>1
<1>4. x - (x % L) = (x \div L) * L
    BY <1>1, <1>2, <1>3
<1> QED BY <1>1, <1>2, <1>3, <1>4, <1>5 DEF Whole, L

LEMMA Quotients ==
    ASSUME NEW a \in Int, NEW b \in Nat \ {0}
    PROVE  /\ a \div b \in Int
           /\ b * (a \div b) <= a /\ a < b * (a \div b) + b
           /\ a >= 0 => a \div b >= 0
<1>1. a = (b * (a \div b)) + (a % b) /\ a \div b \in Int /\ a % b \in 0 .. b - 1
    OBVIOUS
<1>2. a >= 0 => a \div b >= 0
    OBVIOUS
<1> QED BY <1>1, <1>2

ScrollType == [off : Int, room : Rooms, sh : Nat, bar : Int, scroller : Int, top : Int,
               smeared : BOOLEAN]

\* The offset, the region and the scroll bar fit a text of height h.
Measured(s, h) ==
    /\ s.off <= 0
    /\ -s.off < (IF h - s.sh > 0 THEN h - s.sh ELSE 0) + LineHeight
    /\ s.sh >= 1
    /\ s.sh # 1 => s.sh = s.room - (s.room % LineHeight) /\ s.sh >= 2 * ArrowHeight + 5
    /\ h > s.sh /\ s.sh > 1 =>
         /\ s.bar = s.room - 2 * ArrowHeight + 2 * Margin
         /\ s.scroller = ScrollerHeight(s.room - 2 * ArrowHeight, s.sh, h)

LEMMA Measures ==
    ASSUME NEW s \in ScrollType, s.off <= 0, NEW h \in Nat \ {0}
    PROVE  LET t == TooSmall(CalculateScrollBarMeasures(s, h))
           IN  /\ t \in ScrollType /\ Measured(t, h) /\ t.smeared = s.smeared
               /\ t.room = s.room
               /\ s.off \in Whole /\ h \in Whole => t.off \in Whole
               /\ t.off = CalculateScrollBarMeasures(s, h).off
<1> DEFINE c == CalculateScrollBarMeasures(s, h)
           t == TooSmall(c)
           sh == s.room - (s.room % LineHeight)
           bar == s.room - 2 * ArrowHeight
           off == IF -s.off > h - sh THEN -(h - sh) ELSE s.off
           top == ((bar + 2 * Margin) * (-off)) \div h
<1>1. /\ s.room \in Nat /\ s.off \in Int /\ s.sh \in Nat /\ s.bar \in Int /\ s.top \in Int
      /\ s.scroller \in Int /\ s.smeared \in BOOLEAN /\ s.room \in Rooms
    BY LineFacts DEF ScrollType
<1>2. sh \in Nat /\ sh \in Whole /\ sh <= s.room
    BY <1>1, Remainders, LineFacts
<1>3. bar \in Int /\ bar + 2 * Margin \in Int /\ off \in Int
    BY <1>1, <1>2, LineFacts
<1>4. ScrollerHeight(bar, sh, h) \in Int
    <2> HIDE DEF bar, sh
    <2>1. bar * sh \in Int
        BY <1>2, <1>3
    <2>2. (bar * sh) \div h \in Int
        BY <2>1, Quotients
    <2> QED BY <2>2, LineFacts DEF ScrollerHeight
<1>5. top \in Int
    <2> HIDE DEF bar, off
    <2>1. (bar + 2 * Margin) * (-off) \in Int
        BY <1>3
    <2> QED BY <2>1, Quotients
<1>6. c = IF sh >= h THEN [s EXCEPT !.sh = sh, !.off = 0]
          ELSE [s EXCEPT !.sh = sh, !.off = off, !.bar = bar + 2 * Margin,
                         !.scroller = ScrollerHeight(bar, sh, h), !.top = top]
    BY DEF CalculateScrollBarMeasures
<1> HIDE DEF sh, bar, off, top, c
<1>7. c \in ScrollType /\ c.sh = sh /\ c.smeared = s.smeared /\ c.room = s.room
    <2>1. CASE sh >= h
        <3>1. c = [s EXCEPT !.sh = sh, !.off = 0]
            BY <1>6, <2>1
        <3>2. sh \in Nat
            BY <1>2
        <3>3. c.sh = sh /\ c.smeared = s.smeared /\ c.room = s.room /\ c.off = 0
            BY <3>1 DEF ScrollType
        <3>4. c \in ScrollType
            <4> DEFINE zero == 0
            <4>1. zero \in Int /\ c = [s EXCEPT !.sh = sh, !.off = zero]
                BY <3>1
            <4> HIDE DEF zero
            <4> QED BY <3>2, <4>1 DEF ScrollType
        <3> QED BY <3>3, <3>4
    <2>2. CASE ~(sh >= h)
        <3> DEFINE long == bar + 2 * Margin
                   scroller == ScrollerHeight(bar, sh, h)
        <3>1. long \in Int /\ scroller \in Int
            BY <1>3, <1>4
        <3>2. c = [s EXCEPT !.sh = sh, !.off = off, !.bar = long,
                            !.scroller = scroller, !.top = top]
            BY <1>6, <2>2
        <3> HIDE DEF long, scroller
        <3> QED BY <1>2, <1>3, <1>5, <3>1, <3>2 DEF ScrollType
    <2> QED BY <2>1, <2>2
<1>8. c.off = IF sh >= h THEN 0 ELSE off
    BY <1>1, <1>6 DEF ScrollType
<1>9. sh < h => c.bar = bar + 2 * Margin /\ c.scroller = ScrollerHeight(bar, sh, h)
    BY <1>1, <1>2, <1>6 DEF ScrollType
<1>10. /\ t = IF 2 * ArrowHeight + 5 > sh THEN [c EXCEPT !.sh = 1] ELSE c
       /\ t \in ScrollType /\ t.smeared = s.smeared /\ t.room = s.room /\ t.off = c.off
       /\ t.sh = IF 2 * ArrowHeight + 5 > sh THEN 1 ELSE sh
       /\ t.bar = c.bar /\ t.scroller = c.scroller
    BY <1>7 DEF TooSmall, ScrollType
<1> HIDE DEF t
<1>11. c.off <= 0 /\ -c.off <= (IF h - sh > 0 THEN h - sh ELSE 0)
    BY <1>1, <1>2, <1>8 DEF off
<1>12. Measured(t, h)
    <2>1. t.sh >= 1 /\ t.off <= 0 /\ t.off \in Int /\ t.sh \in Nat
        BY <1>2, <1>10, <1>11, LineFacts DEF ScrollType
    <2>2. -t.off < (IF h - t.sh > 0 THEN h - t.sh ELSE 0) + LineHeight
        <3>1. CASE t.sh = sh
            BY <1>2, <1>10, <1>11, <2>1, <3>1, LineFacts
        <3>2. CASE t.sh = 1
            BY <1>2, <1>10, <1>11, <2>1, <3>2, LineFacts
        <3> QED BY <1>10, <3>1, <3>2
    <2>3. t.sh # 1 => t.sh = sh /\ t.sh >= 2 * ArrowHeight + 5
        BY <1>2, <1>10, LineFacts
    <2>4. sh = s.room - (s.room % LineHeight)
        BY DEF sh
    <2>5. h > t.sh /\ t.sh > 1 => t.bar = bar + 2 * Margin
                                    /\ t.scroller = ScrollerHeight(bar, t.sh, h)
        BY <1>2, <1>9, <1>10, <2>1, <2>3
    <2> QED BY <1>10, <2>1, <2>2, <2>3, <2>4, <2>5 DEF Measured, bar
<1>13. ASSUME s.off \in Whole, h \in Whole
       PROVE  t.off \in Whole
    <2>1. h - sh \in Whole /\ -(h - sh) \in Whole /\ 0 \in Whole
        BY <1>2, <1>13, WholeSums
    <2> QED BY <1>8, <1>10, <1>13, <2>1 DEF off
<1> QED BY <1>10, <1>12, <1>13 DEF t, c

\* Two states of the scrolling that differ in where the text is.
Alike(s, t) == t.sh = s.sh /\ t.room = s.room /\ t.bar = s.bar /\ t.scroller = s.scroller

LEMMA ScrollPages ==
    ASSUME NEW s \in ScrollType, NEW h \in Nat \ {0}
    PROVE  LET t == ScrollPage(s, h)
           IN  t \in ScrollType /\ Alike(s, t) /\ t.off = s.off /\ t.smeared = s.smeared
<1> DEFINE top == (s.bar * (-s.off)) \div h
<1>1. top \in Int
    <2>1. s.bar \in Int /\ s.off \in Int
        BY DEF ScrollType
    <2>2. s.bar * (-s.off) \in Int
        BY <2>1
    <2> QED BY <2>2, Quotients
<1>2. ScrollPage(s, h) = [s EXCEPT !.top = top]
    BY DEF ScrollPage
<1> HIDE DEF top
<1> QED BY <1>1, <1>2 DEF ScrollType, Alike

LEMMA ClearedMoves ==
    ASSUME NEW s \in ScrollType, NEW h \in Nat \ {0}, NEW off \in Int
    PROVE  LET t == ScrollPage(Cleared([s EXCEPT !.off = off]), h)
           IN  t \in ScrollType /\ Alike(s, t) /\ t.off = off /\ t.smeared = FALSE
<1> DEFINE u == Cleared([s EXCEPT !.off = off])
<1>1. u \in ScrollType /\ Alike(s, u) /\ u.off = off /\ u.smeared = FALSE
    BY DEF ScrollType, Alike, Cleared
<1> HIDE DEF u
<1>2. ScrollPage(u, h) \in ScrollType /\ Alike(u, ScrollPage(u, h))
      /\ ScrollPage(u, h).off = u.off /\ ScrollPage(u, h).smeared = u.smeared
    BY <1>1, ScrollPages
<1> QED BY <1>1, <1>2 DEF u, Alike

\* A step of the scrolling is a good one.
GoodMove(s, t, h) ==
    /\ t \in ScrollType /\ Measured(t, h)
    /\ s.off \in Whole /\ h \in Whole => t.off \in Whole
    /\ t.smeared => s.smeared \/ s.off \notin Whole

LEMMA GoodIfNear ==
    ASSUME NEW s \in ScrollType, NEW h \in Nat \ {0}, Measured(s, h), NEW t \in ScrollType,
           Alike(s, t), t.off <= 0,
           -t.off < (IF h - s.sh > 0 THEN h - s.sh ELSE 0) + LineHeight
    PROVE  Measured(t, h)
BY DEF Measured, Alike

LEMMA ScrollUpIsGood ==
    ASSUME NEW s \in ScrollType, NEW h \in Nat \ {0}, Measured(s, h)
    PROVE  GoodMove(s, ScrollUp(s, h), h)
<1> DEFINE off == IF s.off + LineHeight > 0 THEN 0 ELSE s.off + LineHeight
           sm == s.smeared \/ off # s.off + LineHeight
           t == ScrollPage([s EXCEPT !.off = off, !.smeared = sm], h)
<1>1. s.off \in Int /\ s.smeared \in BOOLEAN /\ s.sh \in Nat
    BY DEF ScrollType
<1>2. CASE s.off = 0
    BY <1>2 DEF ScrollUp, GoodMove
<1>3. CASE s.off # 0
    <2>1. off \in Int /\ sm \in BOOLEAN
        BY <1>1, LineFacts
    <2>2. ScrollUp(s, h) = t
        BY <1>3 DEF ScrollUp
    <2> HIDE DEF sm
    <2>3. t \in ScrollType /\ Alike(s, t) /\ t.off = off /\ t.smeared = sm
        <3> DEFINE u == [s EXCEPT !.off = off, !.smeared = sm]
        <3> HIDE DEF off
        <3>1. u \in ScrollType /\ Alike(s, u) /\ u.off = off /\ u.smeared = sm
            BY <2>1 DEF ScrollType, Alike
        <3> HIDE DEF u
        <3>2. ScrollPage(u, h) \in ScrollType /\ Alike(u, ScrollPage(u, h))
              /\ ScrollPage(u, h).off = u.off /\ ScrollPage(u, h).smeared = u.smeared
            BY <3>1, ScrollPages
        <3> QED BY <3>1, <3>2 DEF u, Alike
    <2> HIDE DEF t
    <2>4. off <= 0 /\ off >= s.off
        BY <1>1, LineFacts DEF Measured
    <2>5. Measured(t, h)
        <3>1. -off <= -s.off
            BY <1>1, <2>1, <2>4
        <3>2. -s.off < (IF h - s.sh > 0 THEN h - s.sh ELSE 0) + LineHeight
            BY DEF Measured
        <3>3. -t.off < (IF h - s.sh > 0 THEN h - s.sh ELSE 0) + LineHeight
            <4> HIDE DEF off
            <4> QED BY <1>1, <2>1, <2>3, <3>1, <3>2, LineFacts
        <3> QED BY <2>3, <2>4, <3>3, GoodIfNear
    <2>6. ASSUME s.off \in Whole
          PROVE  off \in Whole /\ off = s.off + LineHeight
        <3>1. s.off <= 0 /\ s.off < 0
            BY <1>1, <1>3 DEF Measured
        <3>2. s.off + LineHeight <= 0
            BY <1>1, <2>6, <3>1, WholeSums, LineFacts
        <3>3. s.off + LineHeight \in Whole
            BY <2>6, WholeSums
        <3> QED BY <1>1, <3>2, <3>3, LineFacts
    <2>7. sm => s.smeared \/ s.off \notin Whole
        BY <2>6 DEF sm
    <2> QED BY <2>2, <2>3, <2>5, <2>6, <2>7 DEF GoodMove
<1> QED BY <1>2, <1>3

LEMMA ScrollDownIsGood ==
    ASSUME NEW s \in ScrollType, NEW h \in Nat \ {0}, Measured(s, h)
    PROVE  GoodMove(s, ScrollDown(s, h), h)
<1> DEFINE off == s.off - LineHeight
           t == ScrollPage([s EXCEPT !.off = off], h)
<1>1. s.off \in Int /\ s.smeared \in BOOLEAN /\ s.sh \in Nat
    BY DEF ScrollType
<1>2. CASE AtBottom(s, h)
    BY <1>2 DEF ScrollDown, GoodMove
<1>3. CASE ~AtBottom(s, h)
    <2>1. off \in Int
        BY <1>1, LineFacts
    <2>2. ScrollDown(s, h) = t
        BY <1>3 DEF ScrollDown
    <2>3. t \in ScrollType /\ Alike(s, t) /\ t.off = off /\ t.smeared = s.smeared
        <3> DEFINE u == [s EXCEPT !.off = off]
        <3> HIDE DEF off
        <3>1. u \in ScrollType /\ Alike(s, u) /\ u.off = off /\ u.smeared = s.smeared
            BY <2>1 DEF ScrollType, Alike
        <3> HIDE DEF u
        <3>2. ScrollPage(u, h) \in ScrollType /\ Alike(u, ScrollPage(u, h))
              /\ ScrollPage(u, h).off = u.off /\ ScrollPage(u, h).smeared = u.smeared
            BY <3>1, ScrollPages
        <3> QED BY <3>1, <3>2 DEF u, Alike
    <2> HIDE DEF t
    <2>4. off <= 0 /\ -off < (IF h - s.sh > 0 THEN h - s.sh ELSE 0) + LineHeight
        BY <1>1, <1>3, LineFacts DEF AtBottom, Measured
    <2>5. Measured(t, h)
        BY <2>3, <2>4, GoodIfNear
    <2>6. s.off \in Whole => off \in Whole
        BY WholeSums
    <2> QED BY <2>2, <2>3, <2>5, <2>6 DEF GoodMove
<1> QED BY <1>2, <1>3

LEMMA WholeHeight ==
    ASSUME NEW x \in Nat, x >= 1
    PROVE  Ch(x) \in Whole /\ Ch(x) \in Int /\ Ch(x) >= LineHeight /\ (x = 1 => Ch(x) = LineHeight)
<1> DEFINE r == x % LineHeight
<1>1. /\ r \in Nat /\ r < LineHeight /\ r <= x /\ x - r \in Whole
      /\ x < LineHeight => r = x
    BY Remainders
<1>2. Ch(x) = IF r = 0 THEN x ELSE x - r + LineHeight
    BY DEF Ch
<1> HIDE DEF r
<1>3. Ch(x) \in Int /\ Ch(x) >= LineHeight
    BY <1>1, <1>2, LineFacts
<1>4. Ch(x) \in Whole
    <2>1. r = 0 => x = x - r
        BY <1>1
    <2> QED BY <1>1, <1>2, <2>1, WholeSums
<1>5. x = 1 => Ch(x) = LineHeight
    BY <1>1, <1>2, LineFacts
<1> QED BY <1>3, <1>4, <1>5

LEMMA ScrollUpPageIsGood ==
    ASSUME NEW s \in ScrollType, NEW h \in Nat \ {0}, Measured(s, h)
    PROVE  GoodMove(s, ScrollUpPage(s, h), h)
<1> DEFINE far == s.off + Ch(s.sh) - LineHeight
           off == IF far > 0 THEN 0 ELSE far
           t == ScrollPage(Cleared([s EXCEPT !.off = off]), h)
<1>1. s.off \in Int /\ s.smeared \in BOOLEAN /\ s.sh \in Nat /\ s.sh >= 1 /\ s.off <= 0
      /\ -s.off < (IF h - s.sh > 0 THEN h - s.sh ELSE 0) + LineHeight
    BY DEF ScrollType, Measured
<1>2. CASE s.off = 0
    BY <1>2 DEF ScrollUpPage, GoodMove
<1>3. CASE s.off # 0
    <2>1. Ch(s.sh) \in Int /\ Ch(s.sh) >= LineHeight /\ Ch(s.sh) \in Whole
        BY <1>1, WholeHeight
    <2>2. far \in Int /\ far >= s.off
        BY <1>1, <2>1, LineFacts
    <2>3. ScrollUpPage(s, h) = t
        BY <1>3 DEF ScrollUpPage
    <2>4. s.off \in Whole => far \in Whole
        BY <2>1, WholeSums
    <2> HIDE DEF far
    <2>5. off \in Int /\ off <= 0 /\ off >= s.off
        BY <1>1, <2>2
    <2>6. s.off \in Whole => off \in Whole
        BY <2>4, WholeSums
    <2> HIDE DEF off
    <2>7. t \in ScrollType /\ Alike(s, t) /\ t.off = off /\ t.smeared = FALSE
        BY <2>5, ClearedMoves
    <2> HIDE DEF t
    <2>8. -off < (IF h - s.sh > 0 THEN h - s.sh ELSE 0) + LineHeight
        BY <1>1, <2>5, LineFacts
    <2>9. Measured(t, h)
        BY <2>5, <2>7, <2>8, GoodIfNear
    <2> QED BY <2>3, <2>6, <2>7, <2>9 DEF GoodMove
<1> QED BY <1>2, <1>3

LEMMA ScrollDownPageIsGood ==
    ASSUME NEW s \in ScrollType, NEW h \in Nat \ {0}, Measured(s, h)
    PROVE  GoodMove(s, ScrollDownPage(s, h), h)
<1> DEFINE far == s.off - (Ch(s.sh) - LineHeight)
           off == IF -far > h - s.sh THEN -(h - s.sh) ELSE far
           t == ScrollPage(Cleared([s EXCEPT !.off = off]), h)
<1>1. /\ s.off \in Int /\ s.smeared \in BOOLEAN /\ s.sh \in Nat /\ s.sh >= 1 /\ s.off <= 0
      /\ -s.off < (IF h - s.sh > 0 THEN h - s.sh ELSE 0) + LineHeight
      /\ s.room \in Nat
      /\ s.sh # 1 => s.sh = s.room - (s.room % LineHeight)
    BY LineFacts DEF ScrollType, Measured
<1>2. CASE AtBottom(s, h)
    BY <1>2 DEF ScrollDownPage, GoodMove
<1>3. CASE ~AtBottom(s, h)
    <2>1. Ch(s.sh) \in Int /\ Ch(s.sh) >= LineHeight /\ Ch(s.sh) \in Whole
          /\ (s.sh = 1 => Ch(s.sh) = LineHeight)
        BY <1>1, WholeHeight
    <2>2. far \in Int /\ far <= s.off /\ (s.sh = 1 => far = s.off)
        BY <1>1, <2>1, LineFacts
    <2>3. ScrollDownPage(s, h) = t
        BY <1>3 DEF ScrollDownPage
    <2>4. s.off \in Whole => far \in Whole
        BY <2>1, WholeSums
    <2> HIDE DEF far
    <2>5. -s.off < h - s.sh
        BY <1>1, <1>3 DEF AtBottom
    <2>6. off \in Int /\ off <= 0 /\ -off <= h - s.sh
        BY <1>1, <2>2, <2>5
    <2>7. ASSUME s.off \in Whole, h \in Whole
          PROVE  off \in Whole
        <3>1. CASE s.sh = 1
            <4>1. off = far
                BY <1>1, <2>2, <2>5, <3>1
            <4> QED BY <2>4, <2>7, <4>1
        <3>2. CASE s.sh # 1
            <4>1. s.sh \in Whole
                BY <1>1, <3>2, Remainders
            <4>2. h - s.sh \in Whole /\ -(h - s.sh) \in Whole
                BY <2>7, <4>1, WholeSums
            <4> QED BY <2>4, <2>7, <4>2
        <3> QED BY <3>1, <3>2
    <2> HIDE DEF off
    <2>8. t \in ScrollType /\ Alike(s, t) /\ t.off = off /\ t.smeared = FALSE
        BY <2>6, ClearedMoves
    <2> HIDE DEF t
    <2>9. -off < (IF h - s.sh > 0 THEN h - s.sh ELSE 0) + LineHeight
        BY <1>1, <2>5, <2>6, LineFacts
    <2>10. Measured(t, h)
        BY <2>6, <2>8, <2>9, GoodIfNear
    <2> QED BY <2>3, <2>7, <2>8, <2>10 DEF GoodMove
<1> QED BY <1>2, <1>3

LEMMA ScrollToFirstPageIsGood ==
    ASSUME NEW s \in ScrollType, NEW h \in Nat \ {0}, Measured(s, h)
    PROVE  GoodMove(s, ScrollToFirstPage(s, h), h)
<1> DEFINE zero == 0
           t == ScrollPage(Cleared([s EXCEPT !.off = zero]), h)
<1>1. s.off \in Int /\ s.smeared \in BOOLEAN /\ s.sh \in Nat
    BY DEF ScrollType
<1>2. CASE s.off = 0
    BY <1>2 DEF ScrollToFirstPage, GoodMove
<1>3. CASE s.off # 0
    <2>1. ScrollToFirstPage(s, h) = t
        BY <1>3 DEF ScrollToFirstPage
    <2>2. zero \in Int
        OBVIOUS
    <2>3. zero \in Whole
        BY WholeSums
    <2>4. zero <= 0 /\ -zero < (IF h - s.sh > 0 THEN h - s.sh ELSE 0) + LineHeight
        BY <1>1, LineFacts
    <2> HIDE DEF zero
    <2>5. t \in ScrollType /\ Alike(s, t) /\ t.off = zero /\ t.smeared = FALSE
        BY <2>2, ClearedMoves
    <2> HIDE DEF t
    <2>6. Measured(t, h)
        BY <2>4, <2>5, GoodIfNear
    <2> QED BY <2>1, <2>3, <2>5, <2>6 DEF GoodMove
<1> QED BY <1>2, <1>3

LEMMA WholePart ==
    ASSUME NEW a \in Int, a <= 0
    PROVE  LET b == a - CRem(a, LineHeight)
           IN  b \in Whole /\ b \in Int /\ b <= 0 /\ -b <= -a
<1> DEFINE x == -a
           r == x % LineHeight
<1>1. x \in Nat /\ a = -x
    OBVIOUS
<1> HIDE DEF x
<1>2. r \in Nat /\ r <= x /\ x - r \in Whole /\ (x < LineHeight => r = x)
    BY <1>1, Remainders
<1>3. CRem(a, LineHeight) = -r
    <2>1. CASE a < 0
        BY <2>1 DEF CRem, x
    <2>2. CASE a = 0
        <3>1. x = 0 /\ r = 0
            BY <1>1, <1>2, <2>2, LineFacts
        <3>2. 0 % LineHeight = 0
            BY <3>1
        <3> QED BY <2>2, <3>1, <3>2 DEF CRem
    <2> QED BY <2>1, <2>2
<1> HIDE DEF r
<1> DEFINE b == a - CRem(a, LineHeight)
<1>4. b = -(x - r)
    BY <1>1, <1>2, <1>3
<1> HIDE DEF b
<1>5. b \in Whole
    BY <1>2, <1>4, WholeSums
<1>6. b \in Int /\ b <= 0 /\ -b <= -a
    BY <1>1, <1>2, <1>4
<1> QED BY <1>5, <1>6 DEF b

LEMMA Products ==
    ASSUME NEW a \in Int, NEW b \in Int, NEW c \in Int
    PROVE  /\ a * b \in Int /\ a * b = b * a
           /\ a * (b + c) = a * b + a * c /\ a * (b - c) = a * b - a * c
           /\ (a >= 0 /\ b <= c) => a * b <= a * c
OBVIOUS

\* Where the scroller can be dragged, the text ends at its last part.
LEMMA ScrollerStaysInside ==
    ASSUME NEW h \in Nat, NEW sh \in Nat, h > sh, NEW raw \in Nat, NEW m \in Nat,
           raw + m > 0, NEW y \in Nat,
           y + (1 + m + ((raw * sh) \div h)) <= raw + m
    PROVE  (h * y) \div (raw + m) \in Nat /\ (h * y) \div (raw + m) <= h - sh
<1> DEFINE bar == raw + m
           p == (raw * sh) \div h
           q == (h * y) \div bar
           scroller == 1 + m + p
<1>1. bar \in Nat /\ bar > 0 /\ raw * sh \in Nat /\ h * y \in Nat
    BY Products
<1>2. p \in Int /\ raw * sh < h * p + h
    <2> DEFINE a == raw * sh
    <2>1. a \in Int /\ h \in Nat \ {0}
        BY <1>1
    <2> HIDE DEF a
    <2> QED BY <2>1, Quotients DEF a
<1>3. q \in Int /\ q >= 0 /\ bar * q <= h * y
    <2> DEFINE a == h * y
    <2>1. a \in Nat /\ bar \in Nat \ {0}
        BY <1>1
    <2> HIDE DEF a, bar
    <2>2. a \div bar \in Int /\ bar * (a \div bar) <= a /\ a \div bar >= 0
        BY <2>1, Quotients
    <2> QED BY <2>2 DEF a
<1>4. y <= bar - scroller /\ scroller \in Int
    BY <1>2
<1> HIDE DEF p, q
<1>5. h * scroller >= bar * sh + 1
    <2>1. h * scroller = h + h * m + h * p
        BY <1>2
    <2>2. bar * sh = raw * sh + m * sh
        BY Products
    <2>3. m * sh <= h * m
        BY Products
    <2>4. h * p \in Int /\ h * m \in Int /\ m * sh \in Int /\ raw * sh \in Int
        BY <1>2
    <2> DEFINE hp == h * p
               hm == h * m
               ms == m * sh
               rs == raw * sh
    <2>5. hp \in Int /\ hm \in Int /\ ms \in Int /\ rs \in Int /\ ms <= hm /\ rs < hp + h
        BY <1>2, <2>3, <2>4
    <2> HIDE DEF hp, hm, ms, rs
    <2>6. h + hm + hp >= rs + ms + 1
        BY <2>5
    <2> QED BY <2>1, <2>2, <2>6 DEF hp, hm, ms, rs
<1> HIDE DEF scroller, bar
<1>6. h * y <= h * bar - h * scroller
    <2>1. h * y <= h * (bar - scroller)
        BY <1>1, <1>4, Products
    <2>2. h * (bar - scroller) = h * bar - h * scroller
        BY <1>1, <1>4, Products
    <2> QED BY <2>1, <2>2
<1>7. bar * q <= h * bar - bar * sh - 1
    <2> DEFINE hy == h * y
               hb == h * bar
               hs == h * scroller
               bs == bar * sh
               bq == bar * q
    <2>1. hy \in Int /\ hb \in Int /\ hs \in Int /\ bs \in Int /\ bq \in Int
        BY <1>1, <1>3, <1>4
    <2>2. bq <= hy /\ hy <= hb - hs /\ hs >= bs + 1
        BY <1>3, <1>5, <1>6
    <2> HIDE DEF hy, hb, hs, bs, bq
    <2>3. bq <= hb - bs - 1
        BY <2>1, <2>2
    <2> QED BY <2>3 DEF hb, bs, bq
<1>8. bar * (h - sh) = h * bar - bar * sh
    BY <1>1, Products
<1>9. ~(q >= h - sh)
    <2> SUFFICES ASSUME q >= h - sh
                 PROVE  FALSE
        OBVIOUS
    <2>1. bar * (h - sh) <= bar * q
        BY <1>1, <1>3, Products
    <2> DEFINE hb == h * bar
               bs == bar * sh
               bq == bar * q
    <2>2. hb \in Int /\ bs \in Int /\ bq \in Int
        BY <1>1, <1>3
    <2>3. hb - bs <= bq /\ bq <= hb - bs - 1
        BY <1>7, <1>8, <2>1
    <2> HIDE DEF hb, bs, bq
    <2> QED BY <2>2, <2>3
<1> QED BY <1>3, <1>9 DEF q, bar

LEMMA ScrollScrollerIsGood ==
    ASSUME NEW s \in ScrollType, NEW h \in Nat \ {0}, Measured(s, h), h > s.sh, s.sh > 1,
           NEW y \in -1 .. s.bar
    PROVE  GoodMove(s, ScrollScroller(s, h, y), h)
<1> DEFINE raw == s.room - 2 * ArrowHeight
           high == y < 0
           low == ~high /\ y + s.scroller > s.bar
           bottom == -(h - s.sh)
           at == -((h * y) \div s.bar)
           off == IF high THEN 0
                  ELSE IF low THEN bottom - CRem(bottom, LineHeight)
                  ELSE at - CRem(at, LineHeight)
           t == ScrollPage(Cleared([s EXCEPT !.off = off]), h)
<1>1. /\ s.off \in Int /\ s.sh \in Nat /\ s.room \in Nat /\ s.sh <= s.room
      /\ s.sh >= 2 * ArrowHeight + 5
      /\ s.bar = raw + 2 * Margin /\ s.scroller = 1 + 2 * Margin + ((raw * s.sh) \div h)
    <2>1. s.off \in Int /\ s.sh \in Nat /\ s.room \in Nat
        BY LineFacts DEF ScrollType
    <2>2. s.sh = s.room - (s.room % LineHeight)
        BY DEF Measured
    <2> QED BY <2>1, <2>2, Remainders DEF Measured, ScrollerHeight
<1>2. raw \in Nat /\ 2 * Margin \in Nat /\ raw + 2 * Margin > 0 /\ s.bar \in Nat
    BY <1>1, LineFacts
<1> HIDE DEF raw
<1>3. bottom \in Int /\ bottom <= 0
    BY <1>1
<1>4. bottom - CRem(bottom, LineHeight) \in Whole /\ bottom - CRem(bottom, LineHeight) \in Int
      /\ bottom - CRem(bottom, LineHeight) <= 0
      /\ -(bottom - CRem(bottom, LineHeight)) <= -bottom
    <2> HIDE DEF bottom
    <2> QED BY <1>3, WholePart
<1>5. ASSUME ~high, ~low
      PROVE  /\ at - CRem(at, LineHeight) \in Whole /\ at - CRem(at, LineHeight) \in Int
             /\ at - CRem(at, LineHeight) <= 0
             /\ -(at - CRem(at, LineHeight)) <= h - s.sh
    <2>1. y \in Nat /\ y + s.scroller <= s.bar
        <3>1. s.scroller \in Int
            BY DEF ScrollType
        <3> QED BY <1>2, <1>5, <3>1
    <2>2. y + (1 + 2 * Margin + ((raw * s.sh) \div h)) <= raw + 2 * Margin
        BY <1>1, <2>1
    <2> DEFINE m == 2 * Margin
    <2>3. (h * y) \div (raw + m) \in Nat /\ (h * y) \div (raw + m) <= h - s.sh
        <3>1. m \in Nat /\ y + (1 + m + ((raw * s.sh) \div h)) <= raw + m /\ raw + m > 0
            BY <1>2, <2>2
        <3> HIDE DEF m
        <3> QED BY <1>1, <1>2, <2>1, <3>1, ScrollerStaysInside
    <2>4. (h * y) \div s.bar \in Nat /\ (h * y) \div s.bar <= h - s.sh
        BY <1>1, <2>3
    <2> DEFINE q == (h * y) \div s.bar
    <2>5. at \in Int /\ at <= 0 /\ -at <= h - s.sh
        <3> HIDE DEF q
        <3>1. q \in Nat /\ q <= h - s.sh /\ at = -q
            BY <2>4 DEF q
        <3> HIDE DEF at
        <3> QED BY <3>1
    <2> HIDE DEF at
    <2>6. LET b == at - CRem(at, LineHeight)
          IN  b \in Whole /\ b \in Int /\ b <= 0 /\ -b <= -at
        BY <2>5, WholePart
    <2> DEFINE b == at - CRem(at, LineHeight)
    <2>7. b \in Whole /\ b \in Int /\ b <= 0 /\ -b <= -at
        BY <2>6
    <2> HIDE DEF b
    <2>8. -b <= h - s.sh
        BY <1>1, <2>5, <2>7
    <2> QED BY <2>7, <2>8 DEF b
<1>6. off \in Int /\ off \in Whole /\ off <= 0 /\ -off <= h - s.sh
    <2> DEFINE low2 == bottom - CRem(bottom, LineHeight)
               mid == at - CRem(at, LineHeight)
    <2>1. low2 \in Whole /\ low2 \in Int /\ low2 <= 0 /\ -low2 <= h - s.sh
        <3> DEFINE u == bottom
        <3>1. -u = h - s.sh
            BY <1>1
        <3> QED BY <1>4, <3>1
    <2>2. ~high /\ ~low => mid \in Whole /\ mid \in Int /\ mid <= 0 /\ -mid <= h - s.sh
        BY <1>5
    <2>3. off = IF high THEN 0 ELSE IF low THEN low2 ELSE mid
        OBVIOUS
    <2> HIDE DEF off, low2, mid, low
    <2>4. CASE high
        BY <1>1, <2>3, <2>4, WholeSums
    <2>5. CASE ~high /\ low
        BY <2>1, <2>3, <2>5
    <2>6. CASE ~high /\ ~low
        BY <2>2, <2>3, <2>6
    <2> QED BY <2>4, <2>5, <2>6
<1>7. ScrollScroller(s, h, y) \in {s, t}
    BY DEF ScrollScroller
<1> HIDE DEF off
<1>8. t \in ScrollType /\ Alike(s, t) /\ t.off = off /\ t.smeared = FALSE
    BY <1>6, ClearedMoves
<1> HIDE DEF t
<1>9. -off < (IF h - s.sh > 0 THEN h - s.sh ELSE 0) + LineHeight
    BY <1>1, <1>6, LineFacts
<1>10. Measured(t, h)
    BY <1>6, <1>8, <1>9, GoodIfNear
<1> QED BY <1>6, <1>7, <1>8, <1>10 DEF GoodMove

(***************************************************************************)
(* Heights.                                                                *)
(***************************************************************************)
LEMMA HeightFacts ==
    ASSUME NEW text \in Seq(Node)
    PROVE  /\ Height(text) \in Nat \ {0}
           /\ (\A x \in DOMAIN text : text[x].k \notin {"radio", "simple"}) => Height(text) \in Whole
<1> DEFINE A == {i \in DOMAIN text : text[i].k \in {"input", "button"}}
           B == {i \in DOMAIN text : text[i].k \in {"radio", "simple"}}
           a == Cardinality(A)
           c == Cardinality(B)
<1>1. IsFiniteSet(DOMAIN text)
    <2>1. DOMAIN text = 1 .. Len(text) /\ Len(text) \in Nat
        OBVIOUS
    <2> QED BY <2>1, FS_Interval
<1>2. a \in Nat /\ c \in Nat
    <2>1. IsFiniteSet(A) /\ IsFiniteSet(B)
        BY <1>1, FS_Subset
    <2> QED BY <2>1, FS_CardinalityType
<1>3. Height(text) = LineHeight + LineHeight * a + PixHeight * c
    BY DEF Height
<1>4. (\A x \in DOMAIN text : text[x].k \notin {"radio", "simple"}) => c = 0
    <2>1. B = {} => c = 0
        BY FS_EmptySet
    <2> QED BY <2>1
<1> HIDE DEF a, c
<1>5. LineHeight \in Nat /\ LineHeight > 1 /\ PixHeight \in Nat
    BY LineFacts
<1>6. LineHeight * a \in Nat /\ PixHeight * c \in Nat
    BY <1>2, <1>5
<1>7. Height(text) \in Nat \ {0}
    BY <1>3, <1>5, <1>6
<1>8. c = 0 => Height(text) \in Whole
    <2>1. SUFFICES ASSUME c = 0 PROVE Height(text) \in Whole
        OBVIOUS
    <2>2. PixHeight * c = 0
        BY <1>5, <2>1
    <2>3. Height(text) = (a + 1) * LineHeight
        BY <1>2, <1>3, <1>5, <2>2
    <2> QED BY <1>2, <2>3 DEF Whole
<1> QED BY <1>4, <1>7, <1>8

(***************************************************************************)
(* The inductive invariant.                                                *)
(***************************************************************************)
Scrolled(s, f) ==
    /\ s \in ScrollType /\ Measured(s, Height(f.text))
    /\ s.smeared => f.boxes # <<>>
    /\ f.fault = "no" /\ f.boxes = <<>> => s.off \in Whole

FormInv == FormGood(form) /\ Scrolled(scroll, form) /\ pastes \in 0 .. MaxPastes

LEMMA GoodHeight ==
    ASSUME NEW f, FormGood(f)
    PROVE  /\ Height(f.text) \in Nat \ {0}
           /\ f.fault = "no" /\ f.boxes = <<>> => Height(f.text) \in Whole
<1>1. f.text \in Seq(Node)
    BY DEF FormGood, FormType
<1>2. f.fault = "no" /\ f.boxes = <<>> =>
        \A x \in DOMAIN f.text : f.text[x].k \notin {"radio", "simple"}
    BY DEF FormGood, PageGood, BoxesGood
<1> QED BY <1>1, <1>2, HeightFacts

LEMMA UnsmearedFacts ==
    ASSUME NEW s \in ScrollType, NEW h, Measured(s, h), NEW sm \in BOOLEAN
    PROVE  LET t == [s EXCEPT !.smeared = sm]
           IN  t \in ScrollType /\ Measured(t, h) /\ t.off = s.off /\ t.smeared = sm
BY DEF ScrollType, Measured

\* show_page, after the window, the offset or the text has changed.
LEMMA ShowPageFacts ==
    ASSUME NEW s \in ScrollType, s.off <= 0, NEW f, FormGood(f),
           f.fault = "no" /\ f.boxes = <<>> => s.off \in Whole
    PROVE  Scrolled(ShowPage(s, Height(f.text)), f)
<1> DEFINE h == Height(f.text)
           t == TooSmall(CalculateScrollBarMeasures(s, h))
           no == FALSE
<1>1. h \in Nat \ {0} /\ (f.fault = "no" /\ f.boxes = <<>> => h \in Whole)
    BY GoodHeight
<1> HIDE DEF h
<1>2. /\ t \in ScrollType /\ Measured(t, h)
      /\ s.off \in Whole /\ h \in Whole => t.off \in Whole
    BY <1>1, Measures
<1>3. ShowPage(s, h) = [t EXCEPT !.smeared = no] /\ no \in BOOLEAN
    BY DEF ShowPage
<1> HIDE DEF t
<1> DEFINE u == [t EXCEPT !.smeared = no]
<1>4. u \in ScrollType /\ Measured(u, h) /\ u.off = t.off /\ u.smeared = no
    BY <1>2, <1>3, UnsmearedFacts
<1> HIDE DEF u
<1> QED BY <1>1, <1>2, <1>3, <1>4 DEF Scrolled, h, u

LEMMA PastePageFacts ==
    ASSUME NEW s \in ScrollType, s.off <= 0, NEW f, FormGood(f),
           s.smeared => f.boxes # <<>>,
           f.fault = "no" /\ f.boxes = <<>> => s.off \in Whole
    PROVE  Scrolled(PastePage(s, Height(f.text)), f)
<1> DEFINE h == Height(f.text)
           c == CalculateScrollBarMeasures(s, h)
           t == TooSmall(c)
           sm == s.smeared /\ c.off = s.off
<1>1. h \in Nat \ {0} /\ (f.fault = "no" /\ f.boxes = <<>> => h \in Whole)
    BY GoodHeight
<1> HIDE DEF h
<1>2. /\ t \in ScrollType /\ Measured(t, h)
      /\ s.off \in Whole /\ h \in Whole => t.off \in Whole
    BY <1>1, Measures
<1>3. PastePage(s, h) = [t EXCEPT !.smeared = sm]
    BY DEF PastePage
<1>4. sm \in BOOLEAN /\ (sm => s.smeared)
    BY DEF ScrollType
<1> HIDE DEF t, c, sm
<1> DEFINE u == [t EXCEPT !.smeared = sm]
<1>5. u \in ScrollType /\ Measured(u, h) /\ u.off = t.off /\ u.smeared = sm
    BY <1>2, <1>4, UnsmearedFacts
<1> HIDE DEF u
<1> QED BY <1>1, <1>2, <1>3, <1>4, <1>5 DEF Scrolled, h, u

\* Only what a move of the region does matters.
LEMMA MovedFacts ==
    ASSUME NEW s, NEW f, FormGood(f), f.fault = "no", Scrolled(s, f),
           NEW t, GoodMove(s, t, Height(f.text))
    PROVE  Scrolled(t, f)
<1>1. f.boxes = <<>> => Height(f.text) \in Whole
    BY GoodHeight
<1> QED BY <1>1 DEF Scrolled, GoodMove

\* The focus moves to an item.
LEMMA FocusFacts ==
    ASSUME NEW f, FormGood(f), f.fault = "no", NEW i \in DOMAIN f.list
    PROVE  LET t == [f EXCEPT !.cur = f.list[i]]
           IN  FormGood(t) /\ t.text = f.text /\ t.boxes = f.boxes /\ t.fault = f.fault
<1> DEFINE cur == f.list[i]
           t == [f EXCEPT !.cur = cur]
<1>1. f \in FormType /\ OnePicked(f.boxes) /\ PageGood(f)
    BY DEF FormGood
<1>2. cur \in Nat /\ f.list # <<>> /\ InFocus(f.list, cur)
    <2>1. f.list \in Seq(Nat \ {0})
        BY <1>1 DEF FormType
    <2>2. cur \in Nat /\ f.list # <<>>
        BY <2>1
    <2> QED BY <2>2 DEF InFocus
<1> HIDE DEF cur
<1>3. /\ t \in FormType /\ t.text = f.text /\ t.list = f.list /\ t.boxes = f.boxes
      /\ t.paste = f.paste /\ t.fresh = f.fresh /\ t.fault = f.fault /\ t.cur = cur
      /\ t.links = f.links
    BY <1>1, <1>2 DEF FormType
<1> HIDE DEF t
<1>4. PageGood(t)
    BY <1>1, <1>2, <1>3 DEF PageGood, EndsGood, BoxesGood, ButtonsKnown
<1> QED BY <1>1, <1>3, <1>4 DEF FormGood, t, cur

\* A click on a button that picks.
LEMMA ToggleFacts ==
    ASSUME NEW boxes \in Seq(Box), OnePicked(boxes), NEW i \in DOMAIN boxes
    PROVE  \A s \in {ToggleRadioBox(boxes, i), [boxes EXCEPT ![i].picked = ~@]} :
               /\ s \in Seq(Box) /\ (s = <<>> <=> boxes = <<>>)
               /\ (s = ToggleRadioBox(boxes, i) \/ boxes[i].k # "radio") => OnePicked(s)
<1>1. /\ DOMAIN boxes = 1 .. Len(boxes) /\ Len(boxes) \in Nat /\ boxes # <<>>
      /\ \A j \in DOMAIN boxes : boxes[j] \in Box /\ boxes[j].picked \in BOOLEAN
    <2>1. \A j \in DOMAIN boxes : boxes[j] \in Box
        OBVIOUS
    <2> QED BY <2>1 DEF Box
<1> DEFINE on == {j \in DOMAIN boxes : boxes[j].k = "radio" /\ boxes[j].picked}
           toggled == [boxes EXCEPT ![i].picked = ~@]
           yes == TRUE
           no == FALSE
           radio == [j \in DOMAIN boxes |->
                       IF j = i THEN [boxes[j] EXCEPT !.picked = yes]
                       ELSE IF on # {} /\ j = Min(on) THEN [boxes[j] EXCEPT !.picked = no]
                       ELSE boxes[j]]
<1>2. ASSUME NEW s, DOMAIN s = DOMAIN boxes, \A j \in DOMAIN boxes : s[j] \in Box,
             s = [j \in DOMAIN boxes |-> s[j]]
      PROVE  s \in Seq(Box) /\ s # <<>>
    <2>1. s \in [1 .. Len(boxes) -> Box]
        BY <1>1, <1>2
    <2>2. s \in Seq(Box) /\ Len(s) = Len(boxes)
        BY <1>1, <2>1
    <2> QED BY <1>1, <2>2
<1>3. toggled \in Seq(Box) /\ toggled # <<>> /\ (boxes[i].k # "radio" => OnePicked(toggled))
    <2> DEFINE picked == ~boxes[i].picked
               new == [boxes[i] EXCEPT !.picked = picked]
    <2>1. toggled = [boxes EXCEPT ![i] = new] /\ picked \in BOOLEAN
        BY <1>1
    <2> HIDE DEF picked
    <2>2. new \in Box /\ new.k = boxes[i].k
        BY <1>1, <2>1 DEF Box
    <2> HIDE DEF new, toggled
    <2>3. /\ DOMAIN toggled = DOMAIN boxes /\ toggled = [j \in DOMAIN boxes |-> toggled[j]]
          /\ toggled[i] = new /\ \A j \in DOMAIN boxes : j # i => toggled[j] = boxes[j]
        BY <2>1
    <2>4. \A j \in DOMAIN boxes : toggled[j] \in Box
        BY <1>1, <2>2, <2>3
    <2>5. boxes[i].k # "radio" => OnePicked(toggled)
        BY <2>2, <2>3 DEF OnePicked
    <2> QED BY <1>2, <2>3, <2>4, <2>5
<1>4. ASSUME ~boxes[i].picked
      PROVE  radio \in Seq(Box) /\ radio # <<>> /\ OnePicked(radio)
    <2>1. on # {} => \E x \in on : on = {x} /\ Min(on) = x
        <3>1. SUFFICES ASSUME on # {} PROVE \E x \in on : on = {x} /\ Min(on) = x
            OBVIOUS
        <3>2. PICK x \in on : TRUE
            BY <3>1
        <3>3. \A y \in on : y = x
            BY DEF OnePicked
        <3>4. on = {x} /\ x <= x
            BY <1>1, <3>3
        <3>5. Min(on) = x
            BY <3>4 DEF Min
        <3> QED BY <3>4, <3>5
    <2>2. \A j \in DOMAIN boxes : boxes[j].k = "radio" /\ boxes[j].picked => on # {} /\ j = Min(on)
        <3> SUFFICES ASSUME NEW j \in DOMAIN boxes, boxes[j].k = "radio", boxes[j].picked
                     PROVE  on # {} /\ j = Min(on)
            OBVIOUS
        <3>1. j \in on
            OBVIOUS
        <3> HIDE DEF on
        <3> QED BY <2>1, <3>1
    <2>3. yes \in BOOLEAN /\ no \in BOOLEAN /\ ~no
        OBVIOUS
    <2> HIDE DEF on, yes, no
    <2>4. /\ [boxes[i] EXCEPT !.picked = yes] \in Box
          /\ \A j \in DOMAIN boxes : /\ [boxes[j] EXCEPT !.picked = no] \in Box
                                     /\ [boxes[j] EXCEPT !.picked = no].picked = no
        BY <1>1, <2>3 DEF Box
    <2>5. /\ DOMAIN radio = DOMAIN boxes /\ radio = [j \in DOMAIN boxes |-> radio[j]]
          /\ \A j \in DOMAIN boxes : radio[j] \in Box
        BY <1>1, <2>4
    <2>6. \A j \in DOMAIN boxes : j # i => ~(radio[j].k = "radio" /\ radio[j].picked)
        <3> SUFFICES ASSUME NEW j \in DOMAIN boxes, j # i
                     PROVE  ~(radio[j].k = "radio" /\ radio[j].picked)
            OBVIOUS
        <3>1. CASE on # {} /\ j = Min(on)
            <4>1. radio[j] = [boxes[j] EXCEPT !.picked = no]
                BY <3>1
            <4> QED BY <2>3, <2>4, <4>1
        <3>2. CASE ~(on # {} /\ j = Min(on))
            <4>1. radio[j] = boxes[j]
                BY <3>2
            <4> QED BY <2>2, <3>2, <4>1
        <3> QED BY <3>1, <3>2
    <2> HIDE DEF radio
    <2>7. OnePicked(radio)
        BY <2>5, <2>6 DEF OnePicked
    <2> QED BY <1>2, <2>5, <2>7
<1>5. ToggleRadioBox(boxes, i) = IF boxes[i].picked THEN boxes ELSE radio
    BY DEF ToggleRadioBox
<1> HIDE DEF radio, toggled
<1>6. LET s == ToggleRadioBox(boxes, i)
      IN  s \in Seq(Box) /\ s # <<>> /\ OnePicked(s)
    BY <1>1, <1>4, <1>5
<1> HIDE DEF on
<1>7. \A s : s = [boxes EXCEPT ![i].picked = ~@] => s = toggled
    BY DEF toggled
<1> QED BY <1>1, <1>3, <1>6, <1>7

LEMMA TroubledGood ==
    ASSUME NEW f, FormGood(f), NEW what \in FormTroubles
    PROVE  LET t == FormTrouble(f, what)
           IN  FormGood(t) /\ t.fault # "no" /\ t.text = f.text /\ t.boxes = f.boxes
<1>1. f \in FormType /\ OnePicked(f.boxes)
    BY DEF FormGood
<1> DEFINE t == FormTrouble(f, what)
<1>2. t \in FormType /\ t.fault # "no" /\ t.text = f.text /\ t.boxes = f.boxes
    BY <1>1, TroubleFacts
<1> HIDE DEF t
<1>3. FormGood(t)
    BY <1>1, <1>2 DEF FormGood
<1> QED BY <1>2, <1>3 DEF t

LEMMA FormInitInv == FormInit => FormInv
<1> SUFFICES ASSUME FormInit PROVE FormInv
    OBVIOUS
<1> DEFINE zero == 0
           no == FALSE
           S(room) == [off |-> zero, room |-> room, sh |-> zero, bar |-> zero,
                       scroller |-> zero, top |-> zero, smeared |-> no]
<1>1. PICK text \in Pages, room \in Rooms :
         form = LoadedPage(text, 0) /\ scroll = ShowPage(S(room), Height(form.text))
    BY DEF FormInit
<1>2. FormGood(form)
    BY <1>1, LoadedFacts
<1>3. zero \in Nat /\ no \in BOOLEAN /\ zero <= 0 /\ zero \in Whole
    BY WholeSums
<1> HIDE DEF zero, no
<1>4. S(room) \in ScrollType /\ S(room).off = zero
    BY <1>3 DEF ScrollType
<1> HIDE DEF S
<1>5. Scrolled(scroll, form)
    BY <1>1, <1>2, <1>3, <1>4, ShowPageFacts
<1>6. pastes \in 0 .. MaxPastes
    BY FormAssumption DEF FormInit
<1> QED BY <1>2, <1>5, <1>6 DEF FormInv

LEMMA PasteButtonInv ==
    ASSUME FormInv, NEW nd \in ToSet(form.text), PasteButton(nd)
    PROVE  FormInv'
<1>1. /\ FormGood(form) /\ Scrolled(scroll, form) /\ pastes \in 0 .. MaxPastes
      /\ form.fault = "no" /\ pastes < MaxPastes /\ nd.k = "button" /\ pastes' = pastes + 1
    BY DEF FormInv, PasteButton, Fine
<1>2. pastes' \in 0 .. MaxPastes
    BY <1>1, FormAssumption
<1>3. nd.n \in PasteNames
    <2>1. PICK x \in DOMAIN form.text : nd = form.text[x]
        BY DEF ToSet
    <2> QED BY <1>1, <2>1 DEF FormGood, PageGood, Known, OfPastes
<1>4. CASE form' = FormTrouble(form, "freed paste") /\ UNCHANGED scroll
    <2>1. "freed paste" \in FormTroubles
        BY DEF FormTroubles
    <2>2. FormGood(form') /\ form'.fault # "no" /\ form'.text = form.text /\ form'.boxes = form.boxes
        BY <1>1, <1>4, <2>1, TroubledGood
    <2>3. Scrolled(scroll', form')
        BY <1>1, <1>4, <2>2 DEF Scrolled
    <2> QED BY <1>2, <2>2, <2>3 DEF FormInv
<1>5. CASE form' = ParsePatch(form, nd.n) /\ scroll' = PastePage(scroll, Height(form'.text))
    <2>1. FormGood(form') /\ (form.boxes # <<>> => form'.boxes # <<>>)
        BY <1>1, <1>3, <1>5, ParsePatchFacts
    <2>2. /\ scroll \in ScrollType /\ scroll.off <= 0
          /\ scroll.smeared => form'.boxes # <<>>
          /\ form'.fault = "no" /\ form'.boxes = <<>> => scroll.off \in Whole
        BY <1>1, <2>1 DEF Scrolled, Measured
    <2>3. Scrolled(scroll', form')
        BY <1>5, <2>1, <2>2, PastePageFacts
    <2> QED BY <1>2, <2>1, <2>3 DEF FormInv
<1> QED BY <1>4, <1>5 DEF PasteButton

\* The actions that only move the region.
LEMMA ScrollInv ==
    ASSUME FormInv, Fine, NEW s, Scrolls(s),
           GoodMove(scroll, s, Height(form.text)) \/ Scrolled(s, form)
    PROVE  FormInv'
<1>1. FormGood(form) /\ Scrolled(scroll, form) /\ pastes \in 0 .. MaxPastes /\ form.fault = "no"
    BY DEF FormInv, Fine
<1>2. scroll' = s /\ form' = form /\ pastes' = pastes
    BY DEF Scrolls
<1>3. Scrolled(s, form)
    BY <1>1, MovedFacts
<1> QED BY <1>1, <1>2, <1>3 DEF FormInv

LEMMA FocusInv ==
    ASSUME FormInv, NEW id, Focus(id), \E i \in DOMAIN form.list : id = form.list[i]
    PROVE  FormInv'
<1>1. FormGood(form) /\ Scrolled(scroll, form) /\ pastes \in 0 .. MaxPastes /\ form.fault = "no"
    BY DEF FormInv, Focus, Fine
<1>2. PICK i \in DOMAIN form.list : id = form.list[i]
    OBVIOUS
<1>3. form' = [form EXCEPT !.cur = form.list[i]] /\ scroll' = scroll /\ pastes' = pastes
    BY <1>2 DEF Focus
<1>4. FormGood(form') /\ form'.text = form.text /\ form'.boxes = form.boxes
      /\ form'.fault = form.fault
    BY <1>1, <1>3, FocusFacts
<1>5. Scrolled(scroll', form')
    BY <1>1, <1>3, <1>4 DEF Scrolled
<1> QED BY <1>1, <1>3, <1>4, <1>5 DEF FormInv

LEMMA ToggleInv ==
    ASSUME FormInv, ToggleBox
    PROVE  FormInv'
<1>1. /\ FormGood(form) /\ Scrolled(scroll, form) /\ pastes \in 0 .. MaxPastes
      /\ form.fault = "no" /\ scroll' = scroll /\ pastes' = pastes
    BY DEF FormInv, ToggleBox, Fine
<1>2. PICK i \in DOMAIN form.boxes : form' = [form EXCEPT !.boxes = Toggled(form.boxes, i)]
    BY DEF ToggleBox
<1> DEFINE s == Toggled(form.boxes, i)
<1>3. /\ form \in FormType /\ form.boxes \in Seq(Box) /\ OnePicked(form.boxes) /\ PageGood(form)
    BY <1>1 DEF FormGood, FormType
<1>4. s \in Seq(Box) /\ (s = <<>> <=> form.boxes = <<>>) /\ OnePicked(s)
    BY <1>3, ToggleFacts DEF Toggled
<1>5. form' = [form EXCEPT !.boxes = s]
    BY <1>2
<1> HIDE DEF s
<1>6. /\ form' \in FormType /\ form'.boxes = s /\ form'.text = form.text /\ form'.list = form.list
      /\ form'.cur = form.cur /\ form'.paste = form.paste /\ form'.fresh = form.fresh
      /\ form'.fault = form.fault /\ form'.links = form.links
    BY <1>3, <1>4, <1>5 DEF FormType
<1>7. FormGood(form')
    BY <1>3, <1>4, <1>6 DEF FormGood, PageGood, EndsGood, BoxesGood, ButtonsKnown
<1>8. Scrolled(scroll', form')
    BY <1>1, <1>4, <1>6 DEF Scrolled
<1> QED BY <1>1, <1>7, <1>8 DEF FormInv

\* Place of the focus.
LEMMA InFocusPlace ==
    ASSUME FormInv, Fine, form.cur # 0
    PROVE  /\ Place(form.list, form.cur) \in DOMAIN form.list
           /\ Len(form.list) \in Nat \ {0} /\ DOMAIN form.list = 1 .. Len(form.list)
<1>1. form.list \in Seq(Nat \ {0}) /\ InFocus(form.list, form.cur)
    BY DEF FormInv, FormGood, PageGood, FormType, Fine
<1>2. form.list # <<>> /\ \E i \in DOMAIN form.list : form.list[i] = form.cur
    BY <1>1 DEF InFocus
<1>3. Place(form.list, form.cur) \in DOMAIN form.list
    BY <1>2 DEF Place
<1> QED BY <1>1, <1>2, <1>3

LEMMA FormNextInv == FormInv /\ [FormNext]_formVars => FormInv'
<1> SUFFICES ASSUME FormInv, [FormNext]_formVars PROVE FormInv'
    OBVIOUS
<1> DEFINE h == Height(form.text)
<1>1. /\ FormGood(form) /\ Scrolled(scroll, form) /\ pastes \in 0 .. MaxPastes
      /\ scroll \in ScrollType /\ Measured(scroll, h) /\ h \in Nat \ {0} /\ H = h
      /\ scroll.off <= 0
    BY GoodHeight DEF FormInv, Scrolled, Measured, H
<1>2. CASE \E nd \in ToSet(form.text) : PasteButton(nd)
    BY <1>2, PasteButtonInv
<1>3. CASE PasteFails
    BY <1>1, <1>3, FormAssumption DEF PasteFails, FormInv
<1>4. CASE ChangeInputFocus
    <2>1. PICK x \in DOMAIN form.text : form.text[x].k = "input" /\ Focus(form.text[x].id)
        BY <1>4 DEF ChangeInputFocus
    <2>2. \E i \in DOMAIN form.list : form.text[x].id = form.list[i]
        BY <1>1, <2>1 DEF FormGood, PageGood, Listed, Focus, Fine
    <2> QED BY <2>1, <2>2, FocusInv
<1>5. CASE NextInputFocus
    <2> DEFINE i == Place(form.list, form.cur)
               n == Len(form.list)
    <2>1. form.cur # 0 /\ Focus(form.list[(i % n) + 1]) /\ Fine
        BY <1>5 DEF NextInputFocus, Focus
    <2>2. i \in 1 .. n /\ n \in Nat \ {0} /\ DOMAIN form.list = 1 .. n
        BY <2>1, InFocusPlace
    <2> HIDE DEF i, n
    <2>3. (i % n) + 1 \in DOMAIN form.list
        BY <2>2
    <2> QED BY <2>1, <2>3, FocusInv
<1>6. CASE PrevInputFocus
    <2> DEFINE i == Place(form.list, form.cur)
               n == Len(form.list)
    <2>1. form.cur # 0 /\ Focus(IF i = 1 THEN Last(form.list) ELSE form.list[i - 1]) /\ Fine
        BY <1>6 DEF PrevInputFocus, Focus
    <2>2. i \in 1 .. n /\ n \in Nat \ {0} /\ DOMAIN form.list = 1 .. n
        BY <2>1, InFocusPlace
    <2>3. Last(form.list) = form.list[n]
        BY DEF Last
    <2> HIDE DEF i, n
    <2>4. n \in DOMAIN form.list /\ (i # 1 => i - 1 \in DOMAIN form.list)
        BY <2>2
    <2> QED BY <2>1, <2>3, <2>4, FocusInv
<1>7. CASE ToggleBox
    BY <1>7, ToggleInv
<1>8. CASE UpLine
    <2>1. Fine /\ Scrolls(ScrollUp(scroll, h))
        BY <1>1, <1>8 DEF UpLine, Scrolls
    <2> QED BY <1>1, <2>1, ScrollUpIsGood, ScrollInv
<1>9. CASE DownLine
    <2>1. Fine /\ Scrolls(ScrollDown(scroll, h))
        BY <1>1, <1>9 DEF DownLine, Scrolls
    <2> QED BY <1>1, <2>1, ScrollDownIsGood, ScrollInv
<1>10. CASE UpPage
    <2>1. Fine /\ Scrolls(ScrollUpPage(scroll, h))
        BY <1>1, <1>10 DEF UpPage, Scrolls
    <2> QED BY <1>1, <2>1, ScrollUpPageIsGood, ScrollInv
<1>11. CASE DownPage
    <2>1. Fine /\ Scrolls(ScrollDownPage(scroll, h))
        BY <1>1, <1>11 DEF DownPage, Scrolls
    <2> QED BY <1>1, <2>1, ScrollDownPageIsGood, ScrollInv
<1>12. CASE FirstPage
    <2>1. Fine /\ Scrolls(ScrollToFirstPage(scroll, h))
        BY <1>1, <1>12 DEF FirstPage, Scrolls
    <2> QED BY <1>1, <2>1, ScrollToFirstPageIsGood, ScrollInv
<1>13. CASE ClickBar
    <2>1. PICK y \in -1 .. scroll.bar : Scrolls(ScrollScroller(scroll, h, y))
        BY <1>1, <1>13 DEF ClickBar
    <2>2. h > scroll.sh /\ scroll.sh > 1 /\ Fine
        BY <1>1, <1>13, <2>1 DEF ClickBar, Scrolls
    <2> HIDE DEF h
    <2>3. GoodMove(scroll, ScrollScroller(scroll, h, y), h)
        BY <1>1, <2>2, ScrollScrollerIsGood
    <2> QED BY <2>1, <2>2, <2>3, ScrollInv DEF h
<1>14. CASE Resize
    <2>1. PICK room \in Rooms : Scrolls(ShowPage([scroll EXCEPT !.room = room], h))
        BY <1>1, <1>14 DEF Resize
    <2> DEFINE s == [scroll EXCEPT !.room = room]
    <2>2. s \in ScrollType /\ s.off = scroll.off
        BY <1>1 DEF ScrollType
    <2> HIDE DEF s
    <2>3. Scrolled(ShowPage(s, h), form) /\ Fine
        <3>1. Fine
            BY <2>1 DEF Scrolls
        <3>2. form.fault = "no" /\ form.boxes = <<>> => s.off \in Whole
            BY <1>1, <2>2 DEF Scrolled
        <3> QED BY <1>1, <2>2, <3>1, <3>2, ShowPageFacts
    <2> QED BY <2>1, <2>3, ScrollInv DEF s
<1>15. CASE Expose
    <2>1. Scrolls(TooSmall(scroll)) /\ Fine
        BY <1>15 DEF Expose, Scrolls
    <2>2. TooSmall(scroll) = scroll
        <3>1. CASE 2 * ArrowHeight + 5 > scroll.sh
            <4> DEFINE sh == scroll.sh
                       a == 2 * ArrowHeight + 5
            <4>1. a \in Nat /\ sh \in Nat /\ (sh # 1 => sh >= a)
                BY <1>1, LineFacts DEF Measured, ScrollType
            <4>2. a > sh
                BY <3>1
            <4> HIDE DEF sh, a
            <4>3. sh = 1
                BY <4>1, <4>2
            <4>4. scroll = [scroll EXCEPT !.sh = 1]
                <5>1. scroll = [scroll EXCEPT !.sh = scroll.sh]
                    BY <1>1 DEF ScrollType
                <5> QED BY <4>3, <5>1 DEF sh
            <4> QED BY <3>1, <4>4 DEF TooSmall
        <3>2. CASE ~(2 * ArrowHeight + 5 > scroll.sh)
            BY <3>2 DEF TooSmall
        <3> QED BY <3>1, <3>2
    <2> QED BY <1>1, <2>1, <2>2, ScrollInv
<1>16. CASE Reload
    <2>1. FormGood(form') /\ scroll' = ShowPage([scroll EXCEPT !.off = 0], Height(form'.text))
          /\ pastes' = pastes
        BY <1>16, LoadedFacts DEF Reload
    <2> DEFINE zero == 0
               s == [scroll EXCEPT !.off = zero]
    <2>2. zero \in Int /\ zero <= 0 /\ zero \in Whole
        BY WholeSums
    <2>3. scroll' = ShowPage(s, Height(form'.text))
        BY <2>1
    <2> HIDE DEF zero
    <2>4. s \in ScrollType /\ s.off = zero
        BY <1>1, <2>2 DEF ScrollType
    <2> HIDE DEF s
    <2>5. Scrolled(scroll', form')
        BY <2>1, <2>2, <2>3, <2>4, ShowPageFacts
    <2> QED BY <1>1, <2>1, <2>5 DEF FormInv
<1>17. CASE UNCHANGED formVars
    BY <1>17 DEF formVars, FormInv
<1> QED BY <1>2, <1>3, <1>4, <1>5, <1>6, <1>7, <1>8, <1>9, <1>10, <1>11, <1>12, <1>13, <1>14,
           <1>15, <1>16, <1>17 DEF FormNext

\* What the invariant says of the page.
LEMMA FormInvAgrees == FormInv => FormAgrees
<1> SUFFICES ASSUME FormInv PROVE FormAgrees
    OBVIOUS
<1>1. /\ form \in FormType /\ OnePicked(form.boxes) /\ (Fine => PageGood(form))
      /\ scroll \in ScrollType /\ Measured(scroll, H) /\ (scroll.smeared => form.boxes # <<>>)
      /\ pastes \in 0 .. MaxPastes /\ H \in Nat \ {0}
    BY GoodHeight DEF FormInv, FormGood, Scrolled, Fine, H
<1>2. form.text \in Seq(Node) /\ form.list \in Seq(Nat \ {0}) /\ form.boxes \in Seq(Box)
    BY <1>1 DEF FormType
<1>3. HyperFormTypeOK
    <2>1. \A i \in DOMAIN form.text : form.text[i].k \in Kinds
        <3>1. \A i \in DOMAIN form.text : form.text[i] \in Node
            BY <1>2
        <3> QED BY <3>1 DEF Node
    <2>2. \A i \in DOMAIN form.boxes : form.boxes[i].picked \in BOOLEAN
        <3>1. \A i \in DOMAIN form.boxes : form.boxes[i] \in Box
            BY <1>2
        <3> QED BY <3>1 DEF Box
    <2>3. /\ form.cur \in Nat /\ form.paste \in [PasteNames -> PasteNode]
          /\ form.fault \in FormTroubles \union {"no"}
        BY <1>1 DEF FormType
    <2>4. /\ scroll.off \in Int /\ scroll.sh \in Nat /\ scroll.room \in Rooms
          /\ scroll.bar \in Int /\ scroll.scroller \in Int /\ scroll.top \in Int
          /\ scroll.smeared \in BOOLEAN
        BY <1>1 DEF ScrollType
    <2> QED BY <1>1, <1>2, <2>1, <2>2, <2>3, <2>4 DEF HyperFormTypeOK
<1>4. ListIsThePage
    <2> SUFFICES ASSUME Fine
                 PROVE  /\ ToSet(form.list) = {form.text[i].id : i \in Inputs(form.text)}
                        /\ InPageOrder(form.list, form.text)
        BY DEF ListIsThePage
    <2>1. Listed(form.list, form.text, DOMAIN form.text) /\ Distinct(form.text)
        BY <1>1 DEF PageGood, Known
    <2>2. ToSet(form.list) = {form.text[i].id : i \in Inputs(form.text)}
        <3>1. ASSUME NEW id \in ToSet(form.list)
              PROVE  id \in {form.text[i].id : i \in Inputs(form.text)}
            <4>1. PICK i \in DOMAIN form.list : id = form.list[i]
                BY DEF ToSet
            <4>2. PICK x \in DOMAIN form.text : form.text[x].k = "input" /\ form.text[x].id = form.list[i]
                BY <2>1 DEF Listed
            <4> QED BY <4>1, <4>2 DEF Inputs
        <3>2. ASSUME NEW x \in Inputs(form.text)
              PROVE  form.text[x].id \in ToSet(form.list)
            <4>1. PICK i \in DOMAIN form.list : form.list[i] = form.text[x].id
                BY <2>1 DEF Listed, Inputs
            <4> QED BY <4>1 DEF ToSet
        <3> QED BY <3>1, <3>2
    <2>3. ASSUME NEW i \in DOMAIN form.list
          PROVE  /\ PlaceOf(form.text, form.list[i]) \in DOMAIN form.text
                 /\ form.text[PlaceOf(form.text, form.list[i])].id = form.list[i]
        <3>1. \E x \in DOMAIN form.text : form.text[x].id = form.list[i]
            BY <2>1 DEF Listed
        <3> QED BY <3>1 DEF PlaceOf
    <2>4. InPageOrder(form.list, form.text)
        BY <2>1, <2>3 DEF InPageOrder, Listed, InOrder
    <2> QED BY <2>2, <2>4
<1>5. FocusIsOnThePage
    <2> SUFFICES ASSUME Fine
                 PROVE  IF form.list = <<>> THEN form.cur = 0 ELSE form.cur \in ToSet(form.list)
        BY DEF FocusIsOnThePage
    <2> QED BY <1>1 DEF PageGood, InFocus, ToSet
<1>6. OneOfAGroup
    <2> DEFINE on == {i \in DOMAIN form.boxes : form.boxes[i].k = "radio" /\ form.boxes[i].picked}
    <2>1. \A i, j \in on : i = j
        BY <1>1 DEF OnePicked
    <2>2. CASE on = {}
        BY <2>2, FS_EmptySet DEF OneOfAGroup
    <2>3. CASE on # {}
        <3>1. PICK x \in on : TRUE
            BY <2>3
        <3>2. on = {x}
            BY <2>1
        <3>3. Cardinality(on) = 1
            BY <3>2, FS_Singleton
        <3> QED BY <3>3 DEF OneOfAGroup
    <2> QED BY <2>2, <2>3
<1>7. ScrolledWithin
    BY <1>1 DEF ScrolledWithin, Measured
<1>8. TextIsNotSmeared
    BY <1>1 DEF TextIsNotSmeared
<1> QED BY <1>3, <1>4, <1>5, <1>6, <1>7, <1>8 DEF FormAgrees

\* Whatever the reader of a page does, the list that the keys and the commands
\* go through is the page in its order, the focus is on it, at most one button
\* of a group is picked, and the page is shown within its ends.
THEOREM FormsAgree == FormSpec => []FormAgrees
<1> QED BY FormInitInv, FormNextInv, FormInvAgrees, PTL DEF FormSpec

(***************************************************************************)
(* Pastes in a plain page.                                                 *)
(***************************************************************************)
\* No trouble so far, and the buttons at the places of S can still be freed.
Freeable(t, text, S) ==
    /\ t.fault = "no"
    /\ \A x \in S : text[x].k = "button" =>
         t.paste[text[x].n].id # 0 /\ t.paste[text[x].n].hasbutton

OneButtonEach(text, S) ==
    /\ \A x \in S : text[x].k \in OfPastes => text[x].n \in PasteNames
    /\ \A x, y \in S : text[x].k = "button" /\ text[y].k = "button"
                         /\ text[x].n = text[y].n => x = y

LEMMA FreeNodeSafe ==
    ASSUME NEW t \in FormType, NEW text, NEW S, Freeable(t, text, S),
           NEW x \in S, text[x].k \notin {"input", "radio"},
           OneButtonEach(text, S)
    PROVE  LET u == FreeNode(t, text[x])
           IN  u \in FormType /\ Freeable(u, text, S \ {x}) /\ u.list = t.list /\ u.boxes = t.boxes
<1> DEFINE nd == text[x]
           u == FreeNode(t, nd)
<1>1. t.fault = "no"
    BY DEF Freeable
<1>2. CASE nd.k = "paste"
    <2>1. nd.n \in PasteNames /\ u = FreePastearea(t, nd.n)
        BY <1>1, <1>2 DEF FreeNode, OfPastes, OneButtonEach
    <2> HIDE DEF u
    <2>2. /\ u \in FormType /\ u.fault = t.fault /\ u.list = t.list /\ u.boxes = t.boxes
          /\ \A q \in PasteNames : q # nd.n => u.paste[q] = t.paste[q]
          /\ u.paste[nd.n].hasbutton = t.paste[nd.n].hasbutton
          /\ t.paste[nd.n].hasbutton => u.paste[nd.n].id = t.paste[nd.n].id
        BY <2>1, FreePasteareaFacts
    <2>3. \A q \in PasteNames : t.paste[q].id # 0 /\ t.paste[q].hasbutton =>
                                  u.paste[q].id # 0 /\ u.paste[q].hasbutton
        BY <2>2
    <2>4. Freeable(u, text, S \ {x})
        BY <1>1, <2>2, <2>3 DEF Freeable, OfPastes, OneButtonEach
    <2> QED BY <2>2, <2>4 DEF u
<1>3. CASE nd.k = "button"
    <2>1. nd.n \in PasteNames /\ u = FreePastebutton(t, nd.n)
        BY <1>1, <1>3 DEF FreeNode, OfPastes, OneButtonEach
    <2>2. t.paste[nd.n].id # 0
        BY <1>3 DEF Freeable
    <2> HIDE DEF u
    <2>3. /\ u \in FormType /\ u.fault = t.fault /\ u.list = t.list /\ u.boxes = t.boxes
          /\ \A q \in PasteNames : q # nd.n => u.paste[q] = t.paste[q]
        BY <2>1, <2>2, FreePastebuttonFacts
    <2>4. \A y \in S \ {x} : text[y].k = "button" => text[y].n \in PasteNames /\ text[y].n # nd.n
        BY <1>3 DEF OfPastes, OneButtonEach
    <2>5. Freeable(u, text, S \ {x})
        BY <1>1, <2>3, <2>4 DEF Freeable
    <2> QED BY <2>3, <2>5 DEF u
<1>4. CASE nd.k \notin {"paste", "button"}
    <2>1. u = t
        BY <1>1, <1>4 DEF FreeNode
    <2> QED BY <2>1 DEF Freeable
<1> QED BY <1>2, <1>3, <1>4

\* An area without input areas, none of whose buttons is freed a second time.
LEMMA FreedSafe ==
    ASSUME NEW f \in FormType, NEW text \in Seq(Node),
           NEW b \in Nat, NEW e \in Nat, b <= e, e <= Len(text),
           \A x \in DOMAIN text : text[x].k # "radio",
           \A x \in b + 1 .. e : text[x].k # "input",
           OneButtonEach(text, DOMAIN text),
           Freeable(f, text, DOMAIN text)
    PROVE  LET t == Freed(f, SubSeq(text, b + 1, e))
           IN  t \in FormType /\ t.fault = "no" /\ t.list = f.list /\ t.boxes = f.boxes
<1> DEFINE N == e - b
           Left(m) == DOMAIN text \ (b + 1 .. b + m)
           freed == Freed(f, SubSeq(text, b + 1, e))
<1>1. N \in Nat /\ \A m \in 1 .. N : b + m \in DOMAIN text /\ text[b + m].k # "input"
    <2> DEFINE L == Len(text)
    <2>1. L \in Nat /\ DOMAIN text = 1 .. L /\ e <= L
        OBVIOUS
    <2> HIDE DEF L
    <2>2. \A m \in 1 .. N : b + m \in DOMAIN text /\ b + m \in b + 1 .. e
        BY <2>1
    <2>3. \A m \in 1 .. N : text[b + m].k # "input"
        BY <2>2
    <2> QED BY <2>2, <2>3
<1>2. PICK pg : \E stop \in 0 .. N : FreeingPages(f, text, b, N, pg, stop, freed)
    BY FreedIs
<1>3. PICK stop \in 0 .. N : FreeingPages(f, text, b, N, pg, stop, freed)
    BY <1>2
<1> HIDE DEF N, freed
<1>4. /\ pg[0] = f
      /\ \A m \in Nat : m < N => pg[m + 1] = FreeNode(pg[m], text[b + (m + 1)])
      /\ freed = pg[N]
    <2>1. stop = N
        BY <1>3 DEF FreeingPages
    <2>2. stop + 1 .. N = {}
        BY <1>1, <2>1
    <2> QED BY <1>3, <2>1, <2>2 DEF FreeingPages
<1> DEFINE Good(m) == /\ pg[m] \in FormType /\ Freeable(pg[m], text, Left(m))
                      /\ pg[m].list = f.list /\ pg[m].boxes = f.boxes
           T == {m \in Nat : m <= N => Good(m)}
<1>5. 0 \in T
    <2>1. Left(0) = DOMAIN text
        <3>1. b + 1 .. b + 0 = {}
            OBVIOUS
        <3> QED BY <3>1
    <2> QED BY <1>4, <2>1
<1>6. ASSUME NEW m \in T
      PROVE  m + 1 \in T
    <2>1. m \in Nat /\ m + 1 \in Nat /\ (m <= N => Good(m))
        OBVIOUS
    <2>2. ASSUME m + 1 <= N
          PROVE  Good(m + 1)
        <3>1. m <= N /\ m < N /\ m + 1 \in 1 .. N
            BY <1>1, <2>1, <2>2
        <3> DEFINE x == b + (m + 1)
        <3>2. Good(m) /\ pg[m + 1] = FreeNode(pg[m], text[x])
            BY <1>4, <2>1, <3>1
        <3>3. x \in DOMAIN text /\ text[x].k \notin {"input", "radio"}
            BY <1>1, <3>1
        <3>4. x \in Left(m) /\ Left(m + 1) = Left(m) \ {x}
            <4>1. \A y \in Nat : y \in b + 1 .. b + (m + 1) <=> (y \in b + 1 .. b + m \/ y = x)
                BY <2>1, OneMore
            <4>2. DOMAIN text \subseteq Nat /\ x \notin b + 1 .. b + m
                BY <2>1
            <4> QED BY <3>3, <4>1, <4>2
        <3>5. Left(m) \in SUBSET DOMAIN text
            OBVIOUS
        <3> DEFINE S == Left(m)
                   g == pg[m]
                   u == FreeNode(g, text[x])
        <3>6. /\ g \in FormType /\ Freeable(g, text, S) /\ x \in S
              /\ S \in SUBSET DOMAIN text /\ g.list = f.list /\ g.boxes = f.boxes
            BY <3>2, <3>4, <3>5
        <3>8. pg[m + 1] = u
            BY <3>2
        <3> HIDE DEF S, x, T, g
        <3>7. /\ u \in FormType /\ Freeable(u, text, S \ {x})
              /\ u.list = g.list /\ u.boxes = g.boxes
            <4>1. OneButtonEach(text, S)
                BY <3>6 DEF OneButtonEach
            <4>2. text[x].k \notin {"input", "radio"}
                BY <3>3
            <4> HIDE DEF u
            <4>3. LET w == FreeNode(g, text[x])
                  IN  w \in FormType /\ Freeable(w, text, S \ {x}) /\ w.list = g.list /\ w.boxes = g.boxes
                BY <3>6, <4>1, <4>2, FreeNodeSafe
            <4> QED BY <4>3 DEF u
        <3> HIDE DEF u
        <3>9. S \ {x} = Left(m + 1)
            BY <3>4 DEF S, x
        <3> HIDE DEF Left
        <3> QED BY <3>6, <3>7, <3>8, <3>9
    <2> QED BY <2>1, <2>2
<1>7. Good(N)
    <2>1. T \in SUBSET Nat
        OBVIOUS
    <2> HIDE DEF T
    <2>2. N \in T
        BY <1>1, <1>5, <1>6, <2>1, Induct
    <2> QED BY <1>1, <2>2 DEF T
<1> QED BY <1>4, <1>7 DEF Freeable, freed

LEMMA BoxStep ==
    ASSUME NEW f \in FormType, f.fault = "no", NEW nd \in Node,
           nd.k \in OfPastes => nd.n \in PasteNames,
           nd.k \in {"radio", "simple"} => ~NameTaken(f.boxes, nd)
    PROVE  LET t == ParseHyperDoc(f, nd)
           IN  /\ t.fault = "no"
               /\ \A i \in DOMAIN t.boxes :
                    \/ \E j \in DOMAIN f.boxes : t.boxes[i].n = f.boxes[j].n
                    \/ nd.k \in {"radio", "simple"} /\ t.boxes[i].n = nd.n
<1> DEFINE t == ParseHyperDoc(f, nd)
<1>1. nd.k \in Kinds /\ nd.id \in Nat \ {0} /\ nd.n \in Names /\ nd.on \in BOOLEAN
      /\ f.boxes \in Seq(Box)
    BY DEF Node, FormType
<1>2. CASE nd.k \in {"radio", "simple"}
    <2> DEFINE simple == [k |-> "simple", n |-> nd.n, picked |-> nd.on]
               radio == [k |-> "radio", n |-> nd.n, picked |-> nd.on /\ ~CheckOthers(f.boxes)]
    <2>1. t \in {ParseSimplebox(f, nd), ParseRadiobox(f, nd)} /\ ~NameTaken(f.boxes, nd)
        BY <1>2 DEF ParseHyperDoc
    <2>2. simple \in Box /\ radio \in Box /\ simple.n = nd.n /\ radio.n = nd.n
        BY <1>1 DEF Box
    <2> HIDE DEF t
    <2>3. \E b \in {simple, radio} : t = [f EXCEPT !.boxes = <<b>> \o f.boxes]
        BY <2>1 DEF ParseSimplebox, ParseRadiobox, AddBoxToRbList
    <2> HIDE DEF simple, radio
    <2>4. PICK b \in {simple, radio} : t = [f EXCEPT !.boxes = <<b>> \o f.boxes]
        BY <2>3
    <2> DEFINE s == <<b>> \o f.boxes
    <2>5. b \in Box /\ b.n = nd.n
        BY <2>2
    <2>6. /\ DOMAIN s = 1 .. Len(s) /\ Len(s) \in Nat
          /\ s[1] = b /\ \A i \in 2 .. Len(s) : i - 1 \in DOMAIN f.boxes /\ s[i] = f.boxes[i - 1]
        BY <1>1, <2>5, InFront
    <2>7. t.boxes = s /\ t.fault = "no"
        BY <2>4 DEF FormType
    <2> HIDE DEF s
    <2>8. \A i \in DOMAIN s : i = 1 \/ i \in 2 .. Len(s)
        BY <2>6
    <2> QED BY <1>2, <2>5, <2>6, <2>7, <2>8 DEF t
<1>3. CASE nd.k \notin {"radio", "simple"}
    <2>1. t.fault = "no" /\ t.boxes = f.boxes
        <3>1. CASE nd.k = "input"
            <4>1. t = InsertItem(f, nd.id)
                BY <3>1 DEF ParseHyperDoc
            <4> QED BY <1>1, <4>1, InsertItemFacts
        <3>2. CASE nd.k = "paste"
            <4>1. t = ParsePaste(f, nd) /\ nd.n \in PasteNames
                BY <3>2 DEF ParseHyperDoc, OfPastes
            <4> QED BY <4>1, ParsePasteFacts DEF PasteChanges
        <3>3. CASE nd.k = "button"
            <4>1. t = ParsePastebutton(f, nd) /\ nd.n \in PasteNames
                BY <3>3 DEF ParseHyperDoc, OfPastes
            <4> QED BY <4>1, ParsePastebuttonFacts DEF PasteChanges
        <3>4. CASE nd.k = "endpaste"
            <4>1. t = [f EXCEPT !.paste[nd.n].end = nd.id] /\ nd.n \in PasteNames
                BY <3>4 DEF ParseHyperDoc, OfPastes
            <4> QED BY <4>1, EndpasteFacts DEF PasteChanges
        <3> QED BY <1>1, <1>3, <3>1, <3>2, <3>3, <3>4 DEF Kinds
    <2> QED BY <2>1
<1> QED BY <1>2, <1>3

\* A text whose boxes have names of their own, read into a page without boxes.
LEMMA ParsedSafe ==
    ASSUME NEW f \in FormType, f.fault = "no", f.boxes = <<>>,
           NEW nodes, Reading(f, nodes), Nested(nodes), BoxesApart(nodes)
    PROVE  Parsed(f, nodes).fault = "no"
<1> DEFINE N == Len(nodes)
<1>1. /\ N \in Nat /\ DOMAIN nodes = 1 .. N
      /\ \A m \in 1 .. N : nodes[m] \in Node /\ (nodes[m].k \in OfPastes => nodes[m].n \in PasteNames)
    BY DEF Reading
<1>2. OnePicked(f.boxes)
    BY DEF OnePicked
<1>3. PICK pg : /\ pg[0] = [f EXCEPT !.fresh = f.fresh + Len(nodes)]
                /\ \A m \in Nat : m < Len(nodes) => pg[m + 1] = ParseHyperDoc(pg[m], nodes[m + 1])
                /\ \A m \in Nat : m <= Len(nodes) => Parsing(f, nodes, m, pg[m])
                /\ Parsed(f, nodes) = pg[Len(nodes)]
    BY <1>2, ParsedIs
<1> HIDE DEF N
<1> DEFINE Good(t, m) == /\ t.fault = "no"
                         /\ \A i \in DOMAIN t.boxes : \E u \in 1 .. m :
                              nodes[u].k \in {"radio", "simple"} /\ t.boxes[i].n = nodes[u].n
           T == {m \in Nat : m <= N => Good(pg[m], m)}
<1>4. 0 \in T
    <2>1. pg[0].fault = "no" /\ pg[0].boxes = <<>>
        BY <1>3 DEF FormType
    <2> QED BY <2>1
<1>5. ASSUME NEW m \in T
      PROVE  m + 1 \in T
    <2>1. m \in Nat /\ m + 1 \in Nat /\ (m <= N => Good(pg[m], m))
        OBVIOUS
    <2>2. ASSUME m + 1 <= N
          PROVE  Good(pg[m + 1], m + 1)
        <3>1. m <= N /\ m < N /\ m + 1 \in 1 .. N
            BY <1>1, <2>1, <2>2
        <3> DEFINE g == pg[m]
                   t == pg[m + 1]
                   nd == nodes[m + 1]
        <3>2. t = ParseHyperDoc(g, nd) /\ g \in FormType /\ Good(g, m)
            BY <1>3, <2>1, <3>1 DEF Parsing, N
        <3>3. nd \in Node /\ (nd.k \in OfPastes => nd.n \in PasteNames) /\ nodes[m + 1] = nd
            BY <1>1, <3>1
        <3>4. \A u \in 1 .. m : u \in 1 .. m + 1 /\ u \in DOMAIN nodes /\ u # m + 1
            BY <1>1, <2>1, <3>1
        <3>5. m + 1 \in 1 .. m + 1 /\ m + 1 \in DOMAIN nodes
            BY <1>1, <2>1, <3>1
        <3> HIDE DEF t, g, nd
        <3>6. nd.k \in {"radio", "simple"} => ~NameTaken(g.boxes, nd)
            <4> SUFFICES ASSUME nd.k \in {"radio", "simple"}, NEW i \in DOMAIN g.boxes,
                                g.boxes[i].n = nd.n
                         PROVE  FALSE
                BY DEF NameTaken
            <4>1. PICK u \in 1 .. m : nodes[u].k \in {"radio", "simple"} /\ g.boxes[i].n = nodes[u].n
                BY <3>2
            <4>2. {nodes[u].k, nodes[m + 1].k} \subseteq {"radio", "simple"} /\ nodes[u].n = nodes[m + 1].n
                BY <3>3, <4>1
            <4> QED BY <3>4, <3>5, <4>2 DEF BoxesApart
        <3>7. /\ t.fault = "no"
              /\ \A i \in DOMAIN t.boxes :
                   \/ \E j \in DOMAIN g.boxes : t.boxes[i].n = g.boxes[j].n
                   \/ nd.k \in {"radio", "simple"} /\ t.boxes[i].n = nd.n
            BY <3>2, <3>3, <3>6, BoxStep
        <3>8. Good(t, m + 1)
            <4> SUFFICES ASSUME NEW i \in DOMAIN t.boxes
                         PROVE  \E u \in 1 .. m + 1 : /\ nodes[u].k \in {"radio", "simple"}
                                                      /\ t.boxes[i].n = nodes[u].n
                BY <3>7
            <4>1. CASE \E j \in DOMAIN g.boxes : t.boxes[i].n = g.boxes[j].n
                BY <3>2, <3>4, <4>1
            <4>2. CASE nd.k \in {"radio", "simple"} /\ t.boxes[i].n = nd.n
                BY <3>3, <3>5, <4>2
            <4> QED BY <3>7, <4>1, <4>2
        <3> QED BY <3>8 DEF t
    <2> QED BY <2>1, <2>2
<1>6. N \in T
    <2>1. T \in SUBSET Nat
        OBVIOUS
    <2> HIDE DEF T
    <2> QED BY <1>1, <1>4, <1>5, <2>1, Induct
<1> QED BY <1>1, <1>3, <1>6 DEF N

LEMMA OnlyItem ==
    ASSUME NEW S, NEW s \in Seq(S), Len(s) = 1
    PROVE  s[1] \in S /\ s = <<s[1]>>
<1> DEFINE x == s[1]
<1>1. x \in S /\ s[1] = x
    OBVIOUS
<1> HIDE DEF x
<1>2. s = <<x>>
    BY <1>1
<1> QED BY <1>1, <1>2

LEMMA PlainPasted ==
    ASSUME FormInv, PlainPage, NEW nd \in ToSet(form.text), PasteButton(nd)
    PROVE  form'.fault = "no"
<1> DEFINE text == form.text
           list == form.list
           p == nd.n
           pn == form.paste[p]
<1>1. /\ form \in FormType /\ PageGood(form) /\ form.fault = "no" /\ nd.k = "button"
      /\ form.boxes = <<>> /\ Len(list) <= 1
      /\ \A x, y \in DOMAIN text : text[x].k = "input" /\ text[y].k = "paste" => x < y
    BY DEF FormInv, FormGood, PasteButton, Fine, PlainPage
<1>2. /\ text \in Seq(Node) /\ list \in Seq(Nat \ {0}) /\ form.paste \in [PasteNames -> PasteNode]
      /\ Distinct(text) /\ Known(text, form.fresh) /\ EndsGood(form, text)
      /\ Listed(list, text, DOMAIN text) /\ ButtonsKnown(form, text, DOMAIN text)
      /\ \A x \in DOMAIN text : /\ text[x].k \in OfPastes => text[x].n \in PasteNames
                                /\ text[x].k \notin {"radio", "simple"}
    BY <1>1 DEF FormType, PageGood, Known, BoxesGood
<1>3. \A x \in DOMAIN text : text[x].k \in OfPastes =>
          /\ OwnButton(text[x].n) /\ form.paste[text[x].n].item = CurrentItem(list)
          /\ BoxesApart(Patches[text[x].n])
    BY DEF PlainPage
<1>4. PICK a \in DOMAIN text : nd = text[a]
    BY DEF ToSet
<1>5. p \in PasteNames /\ OwnButton(p) /\ pn.item = CurrentItem(list) /\ BoxesApart(Patches[p])
    BY <1>1, <1>2, <1>3, <1>4 DEF OfPastes
<1>6. PICK b, e, m \in DOMAIN text :
         /\ {x \in DOMAIN text : text[x].k = "paste" /\ text[x].n = p} = {b}
         /\ {x \in DOMAIN text : text[x].k = "endpaste" /\ text[x].n = p} = {e}
         /\ {x \in DOMAIN text : text[x].k = "button" /\ text[x].n = p} = {m}
         /\ text[b].id = pn.begin /\ text[e].id = pn.end /\ pn.id # 0 /\ pn.hasbutton
    BY <1>5 DEF OwnButton
<1>7. text[b].k = "paste" /\ b < e /\ b \in 1 .. Len(text) /\ e \in 1 .. Len(text)
    <2>1. b < e
        BY <1>2, <1>5, <1>6 DEF EndsGood
    <2>2. text[b].k = "paste"
        BY <1>6
    <2> QED BY <1>2, <1>6, <2>1, <2>2
\* The button finds its paste node.
<1>8. form' = ParsePatch(form, p)
    <2>1. PICK y \in DOMAIN text : /\ text[y].k = "button" /\ text[y].n = p
                                   /\ <<text[y].id, pn.id>> \in form.links
        BY <1>2, <1>5, <1>6 DEF ButtonsKnown
    <2>2. y = a
        <3>1. text[a].k = "button" /\ text[a].n = p
            BY <1>1, <1>4
        <3>2. \A x \in DOMAIN text : text[x].k = "button" /\ text[x].n = p => x = m
            BY <1>6
        <3> HIDE DEF text, p
        <3> QED BY <2>1, <3>1, <3>2
    <2>3. <<nd.id, pn.id>> \in form.links
        BY <1>4, <2>1, <2>2
    <2> QED BY <2>3 DEF PasteButton
<1> HIDE DEF text, list, p, pn
\* Each button of the page is known to its paste node, and is its only one.
<1>9. ASSUME NEW x \in DOMAIN text, text[x].k = "button"
      PROVE  /\ form.paste[text[x].n].id # 0 /\ form.paste[text[x].n].hasbutton
             /\ \A y \in DOMAIN text : text[y].k = "button" /\ text[y].n = text[x].n => y = x
    <2> DEFINE q == text[x].n
    <2>1. OwnButton(q)
        BY <1>3, <1>9 DEF OfPastes
    <2>2. \E z \in DOMAIN text : {y \in DOMAIN text : text[y].k = "button" /\ text[y].n = q} = {z}
        BY <2>1 DEF OwnButton, text
    <2>3. PICK z \in DOMAIN text : {y \in DOMAIN text : text[y].k = "button" /\ text[y].n = q} = {z}
        BY <2>2
    <2>4. form.paste[q].id # 0 /\ form.paste[q].hasbutton
        BY <2>1 DEF OwnButton
    <2>5. \A y \in DOMAIN text : text[y].k = "button" /\ text[y].n = q => y = z
        BY <2>3
    <2> QED BY <1>9, <2>4, <2>5
<1>10. OneButtonEach(text, DOMAIN text)
    BY <1>2, <1>9 DEF OneButtonEach
\* The input area of the page, if there is one, comes before.
<1>11. \/ list = <<>> /\ CurrentItem(list) = 0 /\ \A x \in DOMAIN text : text[x].k # "input"
       \/ \E z \in Nat \ {0} :
            /\ list = <<z>> /\ CurrentItem(list) = z
            /\ {text[x].id : x \in {y \in 1 .. b - 1 : text[y].k = "input"}} = {z}
    <2>1. CASE list = <<>>
        <3>1. \A x \in DOMAIN text : text[x].k # "input"
            BY <1>2, <2>1 DEF Listed
        <3> QED BY <2>1, <3>1 DEF CurrentItem
    <2>2. CASE list # <<>>
        <3>1. Len(list) = 1 /\ 1 \in DOMAIN list /\ DOMAIN list = 1 .. 1
            <4>1. Len(list) \in Nat /\ Len(list) # 0 /\ DOMAIN list = 1 .. Len(list)
                BY <1>2, <2>2
            <4>2. Len(list) = 1
                BY <1>1, <4>1
            <4> QED BY <4>1, <4>2
        <3> DEFINE z == list[1]
        <3>2. z \in Nat \ {0} /\ list = <<z>>
            BY <1>2, <3>1, OnlyItem
        <3>3. CurrentItem(list) = z
            BY <2>2, <3>1 DEF CurrentItem, Last
        <3>4. PICK x \in DOMAIN text : text[x].k = "input" /\ text[x].id = z
            BY <1>2, <3>1 DEF Listed
        <3>5. \A y \in DOMAIN text : text[y].k = "input" => text[y].id = z
            <4>1. \A i \in DOMAIN list : i = 1
                BY <3>1
            <4> QED BY <1>2, <4>1 DEF Listed
        <3>6. \A y \in 1 .. b - 1 : y \in DOMAIN text
            BY <1>2, <1>7
        <3>7. x \in 1 .. b - 1
            <4>1. x < b
                BY <1>1, <1>6, <1>7, <3>4 DEF text
            <4> QED BY <1>2, <1>7, <4>1
        <3> HIDE DEF z
        <3>8. {text[y].id : y \in {v \in 1 .. b - 1 : text[v].k = "input"}} = {z}
            BY <3>4, <3>5, <3>6, <3>7
        <3> QED BY <3>2, <3>3, <3>8
    <2> QED BY <2>1, <2>2
<1> DEFINE reset == [form EXCEPT !.paste[p] = [@ EXCEPT !.haspaste = FALSE, !.item = 0,
                                                        !.begin = 0, !.end = 0]]
           freed == Freed(reset, SubSeq(text, b + 1, e))
           cut == InitPasteItem(freed, pn.item)
           nodes == Fresh(form, Patches[p])
           read == Parsed(cut.f, nodes)
           parsed == RepasteItem(read, cut.save)
           before == {text[x].id : x \in {y \in 1 .. b - 1 : text[y].k = "input"}}
           misplaced == /\ pn.item # 0 /\ before # {pn.item}
                        /\ \E x \in DOMAIN nodes : nodes[x].k = "input"
           t == SubSeq(text, 1, b - 1) \o nodes \o SubSeq(text, e + 1, Len(text))
           placed == IF misplaced THEN FormTrouble(parsed, "out of order") ELSE parsed
<1>12. form' = [placed EXCEPT !.text = t]
    <2>1. {pn.begin, pn.end} \subseteq Ids(text)
        BY <1>6 DEF Ids
    <2>2. PlaceOf(text, pn.begin) = b /\ PlaceOf(text, pn.end) = e
        <3>1. \A x \in DOMAIN text : /\ text[x].id = pn.begin => x = b
                                     /\ text[x].id = pn.end => x = e
            BY <1>2, <1>6 DEF Distinct
        <3> QED BY <1>6, <3>1 DEF PlaceOf
    <2> QED BY <1>8, <2>1, <2>2 DEF ParsePatch, text, pn
<1>13. /\ reset \in FormType /\ reset.fault = "no" /\ reset.text = text
       /\ reset.boxes = <<>> /\ reset.fresh = form.fresh /\ reset.list = list
       /\ reset.cur = form.cur /\ reset.links = form.links
       /\ \A q \in PasteNames : /\ reset.paste[q].id = form.paste[q].id
                                 /\ reset.paste[q].hasbutton = form.paste[q].hasbutton
    BY <1>1, <1>5, ResetFacts DEF text, list
<1> HIDE DEF reset
<1>14. freed \in FormType /\ freed.fault = "no" /\ freed.list = list /\ freed.boxes = <<>>
       /\ freed.fresh = form.fresh
    <2>1. /\ b \in Nat /\ e \in Nat /\ b <= e /\ e <= Len(text) /\ Len(text) \in Nat
        BY <1>2, <1>7
    <2>2. \A x \in b + 1 .. e : text[x].k # "input"
        <3> SUFFICES ASSUME NEW x \in b + 1 .. e, text[x].k = "input"
                     PROVE  FALSE
            OBVIOUS
        <3>1. x \in DOMAIN text
            BY <1>2, <2>1
        <3>2. x < b
            BY <1>1, <1>7, <3>1 DEF text
        <3> QED BY <2>1, <3>2
    <2>3. OneButtonEach(text, DOMAIN text) /\ \A x \in DOMAIN text : text[x].k # "radio"
        BY <1>2, <1>10
    <2>4. Freeable(reset, text, DOMAIN text)
        <3>1. ASSUME NEW x \in DOMAIN text, text[x].k = "button"
              PROVE  reset.paste[text[x].n].id # 0 /\ reset.paste[text[x].n].hasbutton
            <4>1. text[x].n \in PasteNames
                BY <1>2, <3>1 DEF OfPastes
            <4> QED BY <1>9, <1>13, <3>1, <4>1
        <3> QED BY <1>13, <3>1 DEF Freeable
    <2>5. freed \in FormType /\ freed.fault = "no" /\ freed.list = list /\ freed.boxes = <<>>
        <3>1. reset \in FormType /\ reset.list = list /\ reset.boxes = <<>> /\ text \in Seq(Node)
            BY <1>2, <1>13
        <3>2. LET r == Freed(reset, SubSeq(text, b + 1, e))
              IN  r \in FormType /\ r.fault = "no" /\ r.list = reset.list /\ r.boxes = reset.boxes
            BY <2>1, <2>2, <2>3, <2>4, <3>1, FreedSafe
        <3> QED BY <3>1, <3>2
    <2>6. freed.fresh = form.fresh
        <3>1. InFocus(reset.list, reset.cur) /\ Listed(reset.list, text, DOMAIN text)
            BY <1>1, <1>2, <1>13 DEF PageGood, list
        <3>2. ButtonsKnown(reset, text, DOMAIN text)
            <4> SUFFICES ASSUME NEW q \in PasteNames, reset.paste[q].id # 0, reset.paste[q].hasbutton
                         PROVE  \E x \in DOMAIN text :
                                   /\ text[x].k = "button" /\ text[x].n = q
                                   /\ <<text[x].id, reset.paste[q].id>> \in reset.links
                BY DEF ButtonsKnown
            <4>1. form.paste[q].id # 0 /\ form.paste[q].hasbutton
                BY <1>13
            <4>2. PICK x \in DOMAIN text : /\ text[x].k = "button" /\ text[x].n = q
                                          /\ <<text[x].id, form.paste[q].id>> \in form.links
                BY <1>2, <4>1 DEF ButtonsKnown
            <4> QED BY <1>13, <4>2
        <3>3. Freeing(reset, text, DOMAIN text \ (b + 1 .. e), freed)
            BY <1>2, <1>13, <2>1, <3>1, <3>2, FreedFacts
        <3> QED BY <1>13, <3>3 DEF Freeing
    <2> QED BY <2>5, <2>6
<1> HIDE DEF freed
\* Nothing is lost when the list is cut.
<1>15. /\ cut.f \in FormType /\ cut.f.fault = "no" /\ cut.f.boxes = <<>>
       /\ cut.f.fresh = form.fresh /\ cut.save \in Seq(Nat \ {0})
    <2>1. pn.item \in Nat
        BY <1>2, <1>5 DEF PasteNode, pn
    <2>2. /\ cut.f \in FormType /\ cut.f.boxes = <<>> /\ cut.f.fresh = form.fresh
          /\ cut.save \in Seq(Nat \ {0})
        BY <1>14, <2>1, InitPasteItemFacts
    <2>3. cut.f.fault = "no"
        <3>1. CASE list = <<>> /\ pn.item = 0
            <4>1. cut = [f |-> freed, save |-> <<>>]
                BY <1>14, <3>1 DEF InitPasteItem
            <4> HIDE DEF cut
            <4> QED BY <1>14, <4>1
        <3>2. ASSUME NEW z \in Nat \ {0}, list = <<z>>, pn.item = z
              PROVE  cut.f.fault = "no"
            <4>1. z \in ToSet(list) /\ Place(list, z) = 1
                <5>1. DOMAIN list = {1} /\ list[1] = z
                    BY <3>2
                <5> QED BY <5>1 DEF ToSet, Place
            <4> DEFINE save == SubSeq(list, 1 + 1, Len(list))
                       g == [freed EXCEPT !.list = SubSeq(@, 1, 1)]
            <4>2. cut = [f |-> g, save |-> save]
                BY <1>14, <3>2, <4>1 DEF InitPasteItem
            <4>3. g.fault = "no"
                BY <1>14 DEF FormType
            <4> HIDE DEF cut, g, save
            <4> QED BY <4>2, <4>3
        <3> HIDE DEF cut
        <3> QED BY <1>5, <1>11, <3>1, <3>2
    <2> QED BY <2>2, <2>3
<1> HIDE DEF cut
<1>16. read \in FormType /\ read.fault = "no"
    <2>1. Patches[p] \in Texts
        BY <1>5 DEF Texts
    <2>2. Reading(form, nodes) /\ Nested(nodes)
        BY <1>1, <2>1, FreshFacts
    <2>3. Reading(cut.f, nodes)
        BY <1>15, <2>2 DEF Reading
    <2>4. BoxesApart(nodes)
        BY <1>5 DEF BoxesApart, Fresh
    <2> HIDE DEF nodes
    <2>5. OnePicked(cut.f.boxes)
        BY <1>15 DEF OnePicked
    <2>6. read \in FormType
        BY <1>15, <2>2, <2>3, <2>5, ParsedFacts DEF Parsing
    <2>7. read.fault = "no"
        BY <1>15, <2>2, <2>3, <2>4, ParsedSafe
    <2> QED BY <2>6, <2>7
<1> HIDE DEF read
<1>17. parsed \in FormType /\ parsed.fault = "no"
    BY <1>15, <1>16, RepasteItemFacts
<1> HIDE DEF parsed
\* The new items come where they belong.
<1>18. ~misplaced
    <2>1. CASE list = <<>> /\ CurrentItem(list) = 0
        BY <1>5, <2>1
    <2>2. ASSUME NEW z \in Nat \ {0}, list = <<z>>, CurrentItem(list) = z,
                 {text[x].id : x \in {y \in 1 .. b - 1 : text[y].k = "input"}} = {z}
          PROVE  ~misplaced
        <3>1. before = {pn.item}
            BY <1>5, <2>2
        <3> HIDE DEF before
        <3> QED BY <3>1
    <2> HIDE DEF misplaced
    <2> QED BY <1>11, <2>1, <2>2
<1>19. placed = parsed
    <2> HIDE DEF misplaced
    <2> QED BY <1>18
<1> HIDE DEF placed, t
<1> QED BY <1>12, <1>17, <1>19 DEF FormType

\* A paste frees and loses nothing it should keep in a plain page, whatever its
\* areas are and whatever their patches bring: the button is one that its paste
\* node knows of, the area has nothing to free twice or to lose, and the items
\* of the patch go where the area stands.
THEOREM PlainPagesAreSafe == FormSpec => PlainPastesAreSafe
<1> DEFINE Safe == PlainPage /\ pastes' # pastes => form'.fault = "no"
<1>1. FormInv /\ [FormNext]_formVars => [Safe]_formVars
    <2> SUFFICES ASSUME FormInv, FormNext, PlainPage, pastes' # pastes
                 PROVE  form'.fault = "no"
        BY DEF formVars
    <2>1. (\E nd \in ToSet(form.text) : PasteButton(nd)) \/ PasteFails
        BY DEF FormNext, ChangeInputFocus, NextInputFocus, PrevInputFocus, Focus, ToggleBox,
               UpLine, DownLine, UpPage, DownPage, FirstPage, ClickBar, Resize, Expose, Scrolls,
               Reload
    <2>2. CASE \E nd \in ToSet(form.text) : PasteButton(nd)
        BY <2>2, PlainPasted
    <2>3. CASE PasteFails
        BY <2>3 DEF PasteFails, Fine
    <2> QED BY <2>1, <2>2, <2>3
<1> QED BY <1>1, FormInitInv, FormNextInv, PTL DEF FormSpec, PlainPastesAreSafe
==============================================================================
