--------------------------- MODULE HyperDocProofs ---------------------------
(***************************************************************************)
(* HyperDoc, in three parts.                                               *)
(*                                                                         *)
(* Windows and pages, for any number of windows and pages, any depth of    *)
(* the stacks and any number of events: what a window can go back to is    *)
(* never freed, and freed pages are not freed again.  A generated page is  *)
(* held by one window, in one place of it: shown, or on one of the two     *)
(* stacks.                                                                 *)
(*                                                                         *)
(* The hash tables a window keeps its pages, macros and patches in: they   *)
(* implement dictionaries, for any keys, any size of the table and any     *)
(* number of entries.  A table is looked at as a function T from its       *)
(* chains to sequences of entries.  What makes the first match of a chain  *)
(* the newest definition is that chains are sorted by age and hold their   *)
(* own keys only; what makes num_entries right is that an entry is in one  *)
(* chain, once.                                                            *)
(*                                                                         *)
(* Pages and buffers, for any pages, commands, buffers and numbers of      *)
(* clicks, deaths and reports of other windows: the marks of a page        *)
(* belong to the buffer its next command goes to, and a command runs       *)
(* after the commands it depends on.                                       *)
(***************************************************************************)
EXTENDS HyperNav, HashTable, HyperSpad, ListLemmas, TLAPS

\* The pages on the two stacks.
Stacked(r) == {r.slots[i] : i \in 1 .. r.index} \union Range(r.memo)

\* Memo'd pages lie where the downlink stack was.
Marks(r) ==
    /\ Len(r.tops) = Len(r.memo)
    /\ \A i \in DOMAIN r.tops : r.tops[i] <= r.index
    /\ \A i, j \in DOMAIN r.tops : i <= j => r.tops[i] <= r.tops[j]

\* A generated page is in one place of the stacks, and the window's own.
StackGood(r) ==
    /\ \A i, j \in 1 .. r.index : r.slots[i] = r.slots[j] /\ r.slots[i] \in Gen => i = j
    /\ \A m, n \in DOMAIN r.memo : r.memo[m] = r.memo[n] /\ r.memo[m] \in Gen => m = n
    /\ \A i \in 1 .. r.index, m \in DOMAIN r.memo :
         r.memo[m] \in Gen => r.slots[i] # r.memo[m]
    /\ Stacked(r) \intersect Gen \subseteq r.table

\* What is shown is on none of the stacks.
PageGood(r) == r.page \in Gen => r.page \in r.table /\ r.page \notin Stacked(r)

\* The pages that the interpreter has generated.
Past == {Generated[i] : i \in 1 .. gens}

-----------------------------------------------------------------------------
\* The pages of the database are none of the generated ones.
LEMMA NavConstants ==
    /\ "Root" \in PageIds /\ "Root" \notin Gen
    /\ "ErrorPage" \in PageIds /\ "ErrorPage" \notin Gen
    /\ "UnknownPage" \in PageIds /\ "UnknownPage" \notin Gen
    /\ "ProtectedQuitPage" \in PageIds /\ "ProtectedQuitPage" \notin Gen
    /\ Special \intersect Gen = {} /\ Targets \intersect Gen = {}
    /\ Static \subseteq PageIds /\ Static \intersect Gen = {}
    /\ Gen \subseteq PageIds
    /\ Bad \in Static
    /\ Main \in Windows /\ MaxWindow \in Nat \ {0} /\ MaxGen \in Nat
    /\ MaxDown \in Nat \ {0} /\ MaxMemo \in Nat \ {0} /\ MaxEvents \in Nat
    /\ \A i \in 1 .. MaxGen : Generated[i] \in Gen
    /\ \A i, j \in 1 .. MaxGen : Generated[i] = Generated[j] => i = j
<1>1. /\ Static \subseteq PageIds /\ Gen \subseteq PageIds /\ Fixed \subseteq PageIds
      /\ "Root" \in Static /\ Bad \in Static
    BY NavAssumption DEF PageIds
<1>2. /\ Static \intersect Gen = {} /\ Special \intersect Gen = {} /\ Fixed \intersect Gen = {}
    BY NavAssumption DEF Gen, Fixed, Special
<1>3. /\ "ErrorPage" \in Fixed /\ "UnknownPage" \in Fixed /\ "ProtectedQuitPage" \in Fixed
    BY DEF Fixed
<1>4. Targets \intersect Gen = {}
    BY <1>2, <1>3 DEF Targets
<1>5. /\ MaxWindow \in Nat \ {0} /\ MaxDown \in Nat \ {0} /\ MaxMemo \in Nat \ {0}
      /\ MaxEvents \in Nat
    BY NavAssumption
<1>6. Main \in Windows
    BY <1>5 DEF Main, Windows
<1>7. /\ MaxGen \in Nat /\ DOMAIN Generated = 1 .. MaxGen
    BY NavAssumption DEF MaxGen
<1>8. \A i \in 1 .. MaxGen : Generated[i] \in Gen
    BY <1>7 DEF Gen, Range
<1>9. \A i, j \in 1 .. MaxGen : Generated[i] = Generated[j] => i = j
    BY <1>7, NavAssumption DEF IsInjective
<1> QED BY <1>1, <1>2, <1>3, <1>4, <1>5, <1>6, <1>7, <1>8, <1>9

\* The items of a sequence.
LEMMA SeqItems ==
    ASSUME NEW S, NEW s \in Seq(S)
    PROVE  /\ Len(s) \in Nat /\ DOMAIN s = 1 .. Len(s) /\ \A i \in DOMAIN s : s[i] \in S
           /\ s # <<>> => Len(s) \in DOMAIN s
OBVIOUS

\* The items of a sequence without its last one.
LEMMA FrontItemsKept ==
    ASSUME NEW S, NEW s \in Seq(S), s # <<>>
    PROVE  /\ Len(s) \in Nat \ {0} /\ DOMAIN s = 1 .. Len(s)
           /\ Front(s) \in Seq(S) /\ Len(Front(s)) = Len(s) - 1
           /\ DOMAIN Front(s) = 1 .. (Len(s) - 1)
           /\ \A i \in 1 .. (Len(s) - 1) : Front(s)[i] = s[i]
           /\ Last(s) = s[Len(s)] /\ Last(s) \in S
<1>1. Len(s) \in Nat \ {0} /\ DOMAIN s = 1 .. Len(s) /\ \A i \in 1 .. Len(s) : s[i] \in S
    OBVIOUS
<1>2. /\ SubSeq(s, 1, Len(s) - 1) \in Seq(S)
      /\ Len(SubSeq(s, 1, Len(s) - 1)) = Len(s) - 1
      /\ \A i \in 1 .. (Len(s) - 1) : SubSeq(s, 1, Len(s) - 1)[i] = s[i]
    BY <1>1, SubSeqProperties
<1>3. Front(s) = SubSeq(s, 1, Len(s) - 1) /\ Last(s) = s[Len(s)]
    BY DEF Front, Last
<1>4. DOMAIN Front(s) = 1 .. (Len(s) - 1)
    BY <1>1, <1>2, <1>3
<1> QED BY <1>1, <1>2, <1>3, <1>4

\* A window that was just made has nothing on its stacks.
LEMMA NewWindowGood ==
    ASSUME NEW p \in PageIds
    PROVE  /\ NewWindow(p) \in HDWindow /\ NewWindow(p).table = {}
           /\ NewWindow(p).page = p /\ NewWindow(p).links = p
           /\ Marks(NewWindow(p)) /\ Stacked(NewWindow(p)) = {}
<1> DEFINE r == NewWindow(p)
<1>1. /\ r.page = p /\ r.links = p /\ r.index = 0 /\ r.memo = <<>> /\ r.tops = <<>>
      /\ r.table = {}
    BY DEF NewWindow
<1>2. r \in HDWindow
    <2>1. <<>> \in Seq(PageIds) /\ <<>> \in Seq(0 .. MaxDown) /\ 0 \in 0 .. MaxDown
        BY NavConstants
    <2> QED BY <2>1 DEF HDWindow, NewWindow
<1>3. Marks(r) /\ Stacked(r) = {}
    BY <1>1 DEF Marks, Stacked, Range
<1> QED BY <1>1, <1>2, <1>3

-----------------------------------------------------------------------------
\* The two stacks.

\* Memos that are in order never point below the stack.
LEMMA NotBelow ==
    ASSUME NEW r \in HDWindow, Marks(r)
    PROVE  ~Below(r)
<1> SUFFICES ASSUME r.tops # <<>> PROVE ~(r.index < Last(r.tops))
    BY DEF Below
<1>1. r.tops \in Seq(0 .. MaxDown) /\ r.index \in 0 .. MaxDown
    BY DEF HDWindow
<1>2. /\ Len(r.tops) \in DOMAIN r.tops /\ Last(r.tops) = r.tops[Len(r.tops)]
      /\ Last(r.tops) \in 0 .. MaxDown
    BY <1>1, SeqItems, FrontItemsKept
<1>3. Last(r.tops) <= r.index
    BY <1>2 DEF Marks
<1> QED BY <1>1, <1>2, <1>3, NavConstants

\* The memo'd pages and their marks come and go together.
Paired(r) == Len(r.tops) = Len(r.memo)

\* What is said of going on from a page, which may stay on a stack.
PushGood(r, d) ==
    /\ d \in HDWindow /\ Paired(d) /\ d.page = r.page /\ d.table = r.table
    /\ Marks(r) => Marks(d) /\ ~Below(d)
    /\ StackGood(r) /\ PageGood(r) => StackGood(d)
    /\ Stacked(d) \subseteq Stacked(r) \union {r.page}

\* A downlink pushes the page and keeps the stacks paired.
LEMMA DownlinkGood ==
    ASSUME NEW r \in HDWindow, Paired(r)
    PROVE  PushGood(r, Downlink(r))
<1> DEFINE d == Downlink(r)
<1>1. /\ r.index \in 0 .. MaxDown /\ r.memo \in Seq(PageIds) /\ r.tops \in Seq(0 .. MaxDown)
      /\ r.slots \in [1 .. MaxDown -> PageIds \union {Null}] /\ r.page \in PageIds
    BY DEF HDWindow
<1>2. Marks(r) => ~Below(r)
    BY NotBelow
<1>3. CASE r.index = MaxDown
    <2>1. d = r
        BY <1>3 DEF Downlink
    <2>2. Stacked(r) \subseteq Stacked(r) \union {r.page}
        OBVIOUS
    <2> HIDE DEF d
    <2>3. /\ d \in HDWindow /\ d.page = r.page /\ d.table = r.table
          /\ Marks(r) => Marks(d) /\ ~Below(d)
          /\ StackGood(r) /\ PageGood(r) => StackGood(d)
          /\ Stacked(d) \subseteq Stacked(r) \union {r.page}
        BY <1>2, <2>1, <2>2
    <2>4. Paired(d)
        BY <2>1
    <2> QED BY <2>3, <2>4 DEF d, PushGood
<1>4. CASE r.index # MaxDown
    <2>1. d = [r EXCEPT !.slots = [r.slots EXCEPT ![r.index + 1] = r.page],
                        !.index = r.index + 1]
        BY <1>4 DEF Downlink, HDWindow
    <2>2. r.index + 1 \in 1 .. MaxDown
        BY <1>1, <1>4, NavConstants
    <2> HIDE DEF d
    <2>3. /\ d.page = r.page /\ d.table = r.table /\ d.index = r.index + 1
          /\ d.memo = r.memo /\ d.tops = r.tops
          /\ d.slots = [r.slots EXCEPT ![r.index + 1] = r.page]
        BY <2>1 DEF HDWindow
    <2>4. d \in HDWindow
        <3>1. [r.slots EXCEPT ![r.index + 1] = r.page] \in [1 .. MaxDown -> PageIds \union {Null}]
            BY <1>1
        <3>2. r.index + 1 \in 0 .. MaxDown
            BY <2>2, NavConstants
        <3> DEFINE slots == [r.slots EXCEPT ![r.index + 1] = r.page]
                   index == r.index + 1
        <3> HIDE DEF slots, index
        <3>3. d = [r EXCEPT !.slots = slots, !.index = index]
            BY <2>1 DEF slots, index
        <3>4. slots \in [1 .. MaxDown -> PageIds \union {Null}] /\ index \in 0 .. MaxDown
            BY <3>1, <3>2 DEF slots, index
        <3> QED BY <3>3, <3>4 DEF HDWindow
    <2>5. /\ \A i \in 1 .. r.index : d.slots[i] = r.slots[i]
          /\ d.slots[d.index] = r.page
        <3>1. r.index + 1 \notin 1 .. r.index /\ 1 .. r.index \subseteq 1 .. MaxDown
            BY <1>1, <2>2, NavConstants
        <3> QED BY <1>1, <2>2, <2>3, <3>1
    <2>6. \A i \in 1 .. d.index : i = d.index \/ i \in 1 .. r.index
        BY <1>1, <2>3
    <2>7. Stacked(d) = Stacked(r) \union {r.page}
        BY <1>1, <2>3, <2>5, <2>6 DEF Stacked
    <2>8. ASSUME Marks(r) PROVE Marks(d) /\ ~Below(d)
        <3>0. \A i \in DOMAIN r.tops : r.tops[i] \in 0 .. MaxDown
            BY <1>1, SeqItems
        <3>1. Marks(d)
            <4>1. \A i \in DOMAIN r.tops : r.tops[i] <= r.index => r.tops[i] <= r.index + 1
                BY <1>1, <3>0, NavConstants
            <4> QED BY <2>3, <2>8, <4>1 DEF Marks
        <3>2. ~Below(d)
            <4> SUFFICES ASSUME r.tops # <<>> PROVE ~(r.index + 1 < Last(r.tops))
                BY <2>3 DEF Below
            <4>1. ~(r.index < Last(r.tops)) /\ Last(r.tops) \in 0 .. MaxDown
                BY <1>1, <1>2, <2>8, FrontItemsKept DEF Below
            <4> QED BY <1>1, <4>1, NavConstants
        <3> QED BY <3>1, <3>2
    <2>9. ASSUME StackGood(r), PageGood(r) PROVE StackGood(d)
        <3>1. r.page \in Gen => /\ \A i \in 1 .. r.index : r.slots[i] # r.page
                                /\ \A m \in DOMAIN r.memo : r.memo[m] # r.page
            BY <2>9 DEF PageGood, Stacked, Range
        <3>2. \A i, j \in 1 .. d.index : d.slots[i] = d.slots[j] /\ d.slots[i] \in Gen => i = j
            BY <2>5, <2>6, <2>9, <3>1 DEF StackGood
        <3>3. \A i \in 1 .. d.index, m \in DOMAIN d.memo :
                 d.memo[m] \in Gen => d.slots[i] # d.memo[m]
            BY <2>3, <2>5, <2>6, <2>9, <3>1 DEF StackGood
        <3>4. Stacked(d) \intersect Gen \subseteq d.table
            BY <2>3, <2>7, <2>9 DEF StackGood, PageGood
        <3> QED BY <2>3, <2>9, <3>2, <3>3, <3>4 DEF StackGood
    <2>10. Stacked(d) \subseteq Stacked(r) \union {r.page}
        BY <2>7
    <2>11. Paired(d)
        BY <2>3 DEF Paired
    <2> QED BY <2>3, <2>4, <2>8, <2>9, <2>10, <2>11 DEF d, PushGood
<1> QED BY <1>3, <1>4

\* A memolink pushes the page and notes where.
LEMMA MemolinkGood ==
    ASSUME NEW r \in HDWindow, Paired(r)
    PROVE  PushGood(r, Memolink(r))
<1> DEFINE d == Memolink(r)
<1>1. /\ r.index \in 0 .. MaxDown /\ r.memo \in Seq(PageIds) /\ r.tops \in Seq(0 .. MaxDown)
      /\ r.slots \in [1 .. MaxDown -> PageIds \union {Null}] /\ r.page \in PageIds
    BY DEF HDWindow
<1>2. CASE Len(r.memo) = MaxMemo
    <2>1. d = r
        BY <1>2 DEF Memolink
    <2>2. Stacked(r) \subseteq Stacked(r) \union {r.page}
        OBVIOUS
    <2>3. Marks(r) => ~Below(r)
        BY NotBelow
    <2> HIDE DEF d
    <2>4. /\ d \in HDWindow /\ Paired(d) /\ d.page = r.page /\ d.table = r.table
          /\ Marks(r) => Marks(d) /\ ~Below(d)
          /\ StackGood(r) /\ PageGood(r) => StackGood(d)
          /\ Stacked(d) \subseteq Stacked(r) \union {r.page}
        BY <2>1, <2>2, <2>3
    <2> QED BY <2>4 DEF d, PushGood
<1>3. CASE Len(r.memo) # MaxMemo
    <2> DEFINE memo == Append(r.memo, r.page)
               tops == Append(r.tops, r.index)
               n == Len(r.memo)
    <2>1. d = [r EXCEPT !.memo = memo, !.tops = tops]
        BY <1>3 DEF Memolink, HDWindow
    <2>2. /\ n \in Nat /\ DOMAIN r.memo = 1 .. n
          /\ memo \in Seq(PageIds) /\ Len(memo) = n + 1 /\ DOMAIN memo = 1 .. (n + 1)
          /\ \A i \in 1 .. n : memo[i] = r.memo[i]
          /\ memo[n + 1] = r.page
        BY <1>1, AppendItems
    <2>3. /\ Len(r.tops) = n /\ DOMAIN r.tops = 1 .. n
          /\ tops \in Seq(0 .. MaxDown) /\ Len(tops) = n + 1 /\ DOMAIN tops = 1 .. (n + 1)
          /\ \A i \in 1 .. n : tops[i] = r.tops[i]
          /\ tops[n + 1] = r.index
        BY <1>1, <2>2, AppendItems DEF Paired
    <2>4. \A i \in 1 .. n : r.tops[i] \in 0 .. MaxDown
        BY <1>1, <2>3, SeqItems
    <2> HIDE DEF memo, tops, n, d
    <2>5. /\ d.page = r.page /\ d.table = r.table /\ d.index = r.index
          /\ d.memo = memo /\ d.tops = tops /\ d.slots = r.slots
        BY <2>1 DEF HDWindow
    <2>6. d \in HDWindow /\ Paired(d)
        BY <2>1, <2>2, <2>3, <2>5 DEF HDWindow, Paired
    <2>7. \A i \in 1 .. (n + 1) : i = n + 1 \/ i \in 1 .. n
        BY <2>2
    <2>8. Range(memo) = Range(r.memo) \union {r.page}
        BY <2>2, <2>7 DEF Range
    <2>9. Stacked(d) = Stacked(r) \union {r.page}
        BY <2>5, <2>8 DEF Stacked
    <2>10. ASSUME Marks(r) PROVE Marks(d) /\ ~Below(d)
        <3>1. \A i \in 1 .. (n + 1) : tops[i] <= r.index
            <4>1. \A i \in 1 .. n : tops[i] <= r.index
                BY <2>3, <2>10 DEF Marks
            <4>2. r.index <= r.index
                BY <1>1, NavConstants
            <4> QED BY <2>3, <2>7, <4>1, <4>2
        <3>2. ASSUME NEW i \in 1 .. (n + 1), NEW j \in 1 .. (n + 1), i <= j
              PROVE  tops[i] <= tops[j]
            <4>1. CASE j = n + 1
                BY <2>3, <3>1, <4>1
            <4>2. CASE j \in 1 .. n
                <5>1. i \in 1 .. n
                    BY <2>2, <3>2, <4>2
                <5> QED BY <2>3, <2>10, <3>2, <4>2, <5>1 DEF Marks
            <4> QED BY <2>7, <4>1, <4>2
        <3>3. Marks(d)
            BY <2>2, <2>3, <2>5, <3>1, <3>2 DEF Marks
        <3>4. ~Below(d)
            BY <1>1, <2>2, <2>3, <2>5, NavConstants DEF Below, Last
        <3> QED BY <3>3, <3>4
    <2>11. ASSUME StackGood(r), PageGood(r) PROVE StackGood(d)
        <3>1. r.page \in Gen => /\ \A i \in 1 .. r.index : r.slots[i] # r.page
                                /\ \A m \in 1 .. n : r.memo[m] # r.page
            BY <2>2, <2>11 DEF PageGood, Stacked, Range
        <3>2. \A k, m \in DOMAIN d.memo : d.memo[k] = d.memo[m] /\ d.memo[k] \in Gen => k = m
            BY <2>2, <2>5, <2>7, <2>11, <3>1 DEF StackGood
        <3>3. \A i \in 1 .. d.index, m \in DOMAIN d.memo :
                 d.memo[m] \in Gen => d.slots[i] # d.memo[m]
            BY <2>2, <2>5, <2>7, <2>11, <3>1 DEF StackGood
        <3>4. Stacked(d) \intersect Gen \subseteq d.table
            BY <2>5, <2>9, <2>11 DEF StackGood, PageGood
        <3> QED BY <2>5, <2>11, <3>2, <3>3, <3>4 DEF StackGood
    <2>12. Stacked(d) \subseteq Stacked(r) \union {r.page}
        BY <2>9
    <2> QED BY <2>5, <2>6, <2>10, <2>11, <2>12 DEF d, PushGood
<1> QED BY <1>2, <1>3

\* What is said of going back.  b.killed are the pages that are left for good.
BackGood(r, b) ==
    /\ b.win \in HDWindow /\ Paired(b.win) /\ b.page \in PageIds
    /\ b.win.table = r.table \ Range(b.killed)
    /\ Marks(r) /\ ~Below(b.win) => Marks(b.win)
    /\ Marks(r) /\ StackGood(r) /\ PageGood(r) =>
         /\ StackGood(b.win)
         /\ b.page \in Gen => b.page \in b.win.table /\ b.page \notin Stacked(b.win)
         /\ Stacked(b.win) \union {b.page} \subseteq Held(r)
         /\ Range(b.killed) \intersect Gen \subseteq Held(r)
         /\ Range(b.killed) \intersect Gen \intersect (Stacked(b.win) \union {b.page}) = {}
         /\ \A i, j \in DOMAIN b.killed :
              b.killed[i] \in Gen /\ b.killed[i] = b.killed[j] => i = j

\* An uplink goes back to a page that was pushed.
LEMMA UplinkGood ==
    ASSUME NEW r \in HDWindow, Paired(r), r.index # 0, Uplink(r).page # Null
    PROVE  BackGood(r, Uplink(r))
<1> DEFINE b == Uplink(r)
           w == b.win
<1>1. /\ r.index \in 0 .. MaxDown /\ r.memo \in Seq(PageIds) /\ r.tops \in Seq(0 .. MaxDown)
      /\ r.slots \in [1 .. MaxDown -> PageIds \union {Null}] /\ r.page \in PageIds
      /\ r.table \subseteq Gen
    BY DEF HDWindow
<1>2. /\ b.page = r.slots[r.index] /\ b.killed = <<r.page>>
      /\ w = [[r EXCEPT !.index = r.index - 1] EXCEPT !.table = r.table \ Range(<<r.page>>)]
    BY DEF Uplink, Back, HDWindow
<1>3. Range(<<r.page>>) = {r.page} /\ DOMAIN <<r.page>> = {1}
    BY DEF Range
<1>4. r.index \in 1 .. MaxDown /\ r.index - 1 \in 0 .. MaxDown
    BY <1>1, NavConstants
<1> HIDE DEF b
<1>5. /\ w.index = r.index - 1 /\ w.table = r.table \ {r.page} /\ w.memo = r.memo
      /\ w.tops = r.tops /\ w.slots = r.slots
    BY <1>2, <1>3 DEF HDWindow
<1>6. w \in HDWindow /\ Paired(w)
    <2>1. w = [r EXCEPT !.index = r.index - 1, !.table = r.table \ {r.page}]
        BY <1>2, <1>3 DEF HDWindow
    <2> HIDE DEF w
    <2>2. w \in HDWindow
        BY <1>1, <1>4, <2>1 DEF HDWindow
    <2> QED BY <1>5, <2>2 DEF Paired, w
<1> HIDE DEF w
<1>7. b.page \in PageIds
    BY <1>1, <1>2, <1>4 DEF b
<1>8. \A i \in 1 .. r.index : i = r.index \/ i \in 1 .. w.index
    BY <1>1, <1>5
<1>9. 1 .. w.index \subseteq 1 .. r.index /\ r.index \notin 1 .. w.index
    BY <1>1, <1>5
<1>10. Stacked(r) = Stacked(w) \union {b.page}
    BY <1>2, <1>4, <1>5, <1>8, <1>9 DEF Stacked
<1>11. ASSUME Marks(r), ~Below(w) PROVE Marks(w)
    <2>1. ASSUME NEW i \in DOMAIN r.tops PROVE r.tops[i] <= w.index
        <3>1. /\ Len(r.tops) \in DOMAIN r.tops /\ DOMAIN r.tops = 1 .. Len(r.tops)
              /\ Len(r.tops) \in Nat /\ r.tops # <<>>
              /\ \A j \in DOMAIN r.tops : r.tops[j] \in 0 .. MaxDown
            <4>1. /\ Len(r.tops) \in Nat /\ DOMAIN r.tops = 1 .. Len(r.tops)
                  /\ \A j \in DOMAIN r.tops : r.tops[j] \in 0 .. MaxDown
                BY <1>1, SeqItems
            <4>2. Len(r.tops) # 0
                BY <4>1
            <4>3. r.tops # <<>>
                BY <4>2
            <4> QED BY <4>1, <4>2, <4>3
        <3>2. Last(r.tops) = r.tops[Len(r.tops)] /\ i <= Len(r.tops)
            BY <3>1 DEF Last
        <3>3. r.tops[i] <= Last(r.tops)
            BY <1>11, <3>1, <3>2 DEF Marks
        <3>4. ~(w.index < Last(r.tops))
            BY <1>5, <1>11, <3>1 DEF Below
        <3>5. r.tops[i] \in Nat /\ Last(r.tops) \in Nat /\ w.index \in Int
            BY <1>1, <1>5, <3>1, <3>2, NavConstants
        <3> QED BY <3>3, <3>4, <3>5
    <2> QED BY <1>5, <1>11, <2>1 DEF Marks
<1>12. ASSUME StackGood(r), PageGood(r)
       PROVE  /\ StackGood(w)
              /\ b.page \in Gen => b.page \in w.table /\ b.page \notin Stacked(w)
              /\ Stacked(w) \union {b.page} \subseteq Held(r)
              /\ Range(b.killed) \intersect Gen \subseteq Held(r)
              /\ Range(b.killed) \intersect Gen \intersect (Stacked(w) \union {b.page}) = {}
              /\ \A i, j \in DOMAIN b.killed :
                   b.killed[i] \in Gen /\ b.killed[i] = b.killed[j] => i = j
    <2>1. Held(r) = Stacked(r) \union {r.page}
        BY DEF Held, Stacked
    <2>2. r.page \in Gen => r.page \notin Stacked(r)
        BY <1>12 DEF PageGood
    <2>3. Stacked(w) \intersect Gen \subseteq w.table
        BY <1>5, <1>10, <1>12, <2>2 DEF StackGood
    <2>4. StackGood(w)
        BY <1>5, <1>9, <1>12, <2>3 DEF StackGood
    <2>5. ASSUME b.page \in Gen PROVE b.page \in w.table /\ b.page \notin Stacked(w)
        <3>1. b.page \in w.table
            BY <1>5, <1>10, <1>12, <2>2, <2>5 DEF StackGood
        <3>2. \A i \in 1 .. w.index : w.slots[i] # b.page
            BY <1>2, <1>4, <1>5, <1>9, <1>12, <2>5 DEF StackGood
        <3>3. \A m \in DOMAIN w.memo : w.memo[m] # b.page
            BY <1>2, <1>4, <1>5, <1>12, <2>5 DEF StackGood
        <3> QED BY <3>1, <3>2, <3>3 DEF Stacked, Range
    <2>6. Range(b.killed) = {r.page} /\ DOMAIN b.killed = {1}
        BY <1>2, <1>3
    <2>7. Stacked(w) \union {b.page} \subseteq Held(r)
        BY <1>10, <2>1
    <2>8. Range(b.killed) \intersect Gen \subseteq Held(r)
        BY <2>1, <2>6
    <2>9. Range(b.killed) \intersect Gen \intersect (Stacked(w) \union {b.page}) = {}
        BY <1>10, <2>2, <2>6
    <2> QED BY <2>4, <2>5, <2>6, <2>7, <2>8, <2>9
<1> QED BY <1>5, <1>6, <1>7, <1>11, <1>12, <1>2, <1>3 DEF BackGood, w, b

\* The pages pushed since a memo, from the first to the last.
LEMMA AboveItems ==
    ASSUME NEW r \in HDWindow, NEW top \in 0 .. MaxDown, top <= r.index
    PROVE  LET a == Above(r, top)
           IN  /\ a \in Seq(PageIds \union {Null}) /\ Len(a) = r.index - top
               /\ DOMAIN a = 1 .. (r.index - top)
               /\ \A i \in 1 .. (r.index - top) :
                    top + i \in 1 .. r.index /\ a[i] = r.slots[top + i]
<1> DEFINE S == PageIds \union {Null}
           s == r.slots
           n == r.index
           a == SubSeq(s, top + 1, n)
<1>1. s \in [1 .. MaxDown -> S] /\ n \in 0 .. MaxDown
    BY DEF HDWindow
<1> HIDE DEF S, s, n
<1>2. s \in Seq(S) /\ Len(s) = MaxDown
    BY <1>1, NavConstants
<1>3. top + 1 \in 1 .. Len(s) + 1 /\ n \in (top + 1) - 1 .. Len(s)
    BY <1>1, <1>2, NavConstants DEF n
<1>4. /\ a \in Seq(S) /\ Len(a) = n - (top + 1) + 1
      /\ \A i \in 1 .. n - (top + 1) + 1 : a[i] = s[(top + 1) + i - 1]
    BY <1>2, <1>3, SubSeqProperties
<1>5. n \in Nat /\ top \in Nat
    BY <1>1, NavConstants
<1>6. n - (top + 1) + 1 = n - top /\ \A i \in 1 .. n - top : (top + 1) + i - 1 = top + i
    BY <1>5
<1> HIDE DEF a
<1>7. DOMAIN a = 1 .. (n - top)
    BY <1>4, <1>6
<1>8. \A i \in 1 .. (n - top) : top + i \in 1 .. n
    BY <1>5
<1> QED BY <1>4, <1>6, <1>7, <1>8 DEF Above, a, s, n, S

\* A return goes back to the page of the last memo.
LEMMA ReturnGood ==
    ASSUME NEW r \in HDWindow, Paired(r), r.memo # <<>>
    PROVE  BackGood(r, Returnlink(r))
<1> DEFINE b == Returnlink(r)
           w == b.win
           top == Last(r.tops)
           memo == Front(r.memo)
           tops == Front(r.tops)
           killed == <<r.page>> \o Above(r, top)
           mine == r.table \ Range(killed)
           n == Len(r.memo)
<1>1. /\ r.index \in 0 .. MaxDown /\ r.memo \in Seq(PageIds) /\ r.tops \in Seq(0 .. MaxDown)
      /\ r.slots \in [1 .. MaxDown -> PageIds \union {Null}] /\ r.page \in PageIds
      /\ r.table \subseteq Gen
    BY DEF HDWindow
<1>2. /\ n \in Nat \ {0} /\ DOMAIN r.memo = 1 .. n
      /\ memo \in Seq(PageIds) /\ Len(memo) = n - 1 /\ DOMAIN memo = 1 .. (n - 1)
      /\ \A i \in 1 .. (n - 1) : memo[i] = r.memo[i]
      /\ Last(r.memo) = r.memo[n] /\ Last(r.memo) \in PageIds
    BY <1>1, FrontItemsKept
<1>3. r.tops # <<>>
    BY <1>1, <1>2 DEF Paired
<1>4. /\ Len(r.tops) = n /\ DOMAIN r.tops = 1 .. n
      /\ tops \in Seq(0 .. MaxDown) /\ Len(tops) = n - 1 /\ DOMAIN tops = 1 .. (n - 1)
      /\ \A i \in 1 .. (n - 1) : tops[i] = r.tops[i]
      /\ top = r.tops[n] /\ top \in 0 .. MaxDown
    BY <1>1, <1>3, FrontItemsKept DEF Paired
<1>5. /\ b.page = Last(r.memo) /\ b.killed = killed
      /\ w = [[r EXCEPT !.memo = memo, !.tops = tops, !.index = top] EXCEPT !.table = mine]
    BY DEF Returnlink, Back, HDWindow
<1> HIDE DEF b, memo, tops, killed, top, mine, n
<1>6. /\ w.page = r.page /\ w.slots = r.slots /\ w.index = top /\ w.memo = memo
      /\ w.tops = tops /\ w.table = mine
    BY <1>5 DEF HDWindow
<1>7. w \in HDWindow /\ Paired(w)
    <2>1. w = [r EXCEPT !.memo = memo, !.tops = tops, !.index = top, !.table = mine]
        BY <1>5 DEF HDWindow
    <2>2. mine \subseteq Gen
        BY <1>1 DEF mine
    <2> HIDE DEF w
    <2>3. w \in HDWindow
        BY <1>1, <1>2, <1>4, <2>1, <2>2 DEF HDWindow
    <2>4. w.tops = tops /\ w.memo = memo
        BY <1>6 DEF w
    <2>5. Paired(w)
        BY <1>2, <1>4, <2>4 DEF Paired
    <2> QED BY <2>3, <2>5 DEF w
<1> HIDE DEF w
<1>8. w.table = r.table \ Range(b.killed) /\ b.page \in PageIds
    BY <1>2, <1>5, <1>6 DEF mine
<1>9. n - 1 \in Nat /\ n \notin 1 .. (n - 1) /\ 1 .. (n - 1) \subseteq 1 .. n /\ n \in 1 .. n
      /\ \A i \in 1 .. n : i = n \/ i \in 1 .. (n - 1)
    BY <1>2
<1>10. ASSUME Marks(r) PROVE Marks(w)
    <2>1. \A i \in 1 .. (n - 1) : tops[i] <= top
        <3>1. \A i \in 1 .. (n - 1) : i <= n
            BY <1>2
        <3> QED BY <1>4, <1>9, <1>10, <3>1 DEF Marks
    <2>2. \A i, j \in 1 .. (n - 1) : i <= j => tops[i] <= tops[j]
        BY <1>4, <1>9, <1>10 DEF Marks
    <2> QED BY <1>2, <1>4, <1>6, <2>1, <2>2 DEF Marks
<1>11. ASSUME Marks(r), StackGood(r), PageGood(r)
       PROVE  /\ StackGood(w)
              /\ b.page \in Gen => b.page \in w.table /\ b.page \notin Stacked(w)
              /\ Stacked(w) \union {b.page} \subseteq Held(r)
              /\ Range(b.killed) \intersect Gen \subseteq Held(r)
              /\ Range(b.killed) \intersect Gen \intersect (Stacked(w) \union {b.page}) = {}
              /\ \A i, j \in DOMAIN b.killed :
                   b.killed[i] \in Gen /\ b.killed[i] = b.killed[j] => i = j
    <2>1. top <= r.index
        BY <1>4, <1>9, <1>11 DEF Marks
    <2> DEFINE k == r.index - top
               above == Above(r, top)
    <2>2. k \in Nat /\ 1 .. top \subseteq 1 .. r.index
        BY <1>1, <1>4, <2>1, NavConstants
    <2>3. /\ above \in Seq(PageIds \union {Null}) /\ Len(above) = k /\ DOMAIN above = 1 .. k
          /\ \A i \in 1 .. k : top + i \in 1 .. r.index /\ above[i] = r.slots[top + i]
        BY <1>4, <2>1, AboveItems
    <2>4. /\ DOMAIN killed = 1 .. (k + 1)
          /\ \A j \in 1 .. (k + 1) : killed[j] = IF j = 1 THEN r.page ELSE above[j - 1]
        <3> HIDE DEF above, k
        <3>1. r.page \in PageIds \union {Null}
            BY <1>1
        <3> QED BY <2>3, <3>1, FrontItems DEF killed, above
    <2> HIDE DEF above
    <2>5. ASSUME NEW j \in 1 .. (k + 1), j # 1
          PROVE  /\ top + (j - 1) \in 1 .. r.index /\ top + (j - 1) \notin 1 .. top
                 /\ killed[j] = r.slots[top + (j - 1)]
        <3>1. j - 1 \in 1 .. k
            BY <2>2, <2>5
        <3>2. top + (j - 1) \notin 1 .. top
            BY <1>4, <3>1, <2>2, NavConstants
        <3> QED BY <2>3, <2>4, <2>5, <3>1, <3>2
    <2> HIDE DEF k
    <2>6. Held(r) = Stacked(r) \union {r.page}
        BY DEF Held, Stacked
    <2>7. /\ \A i \in 1 .. r.index : r.slots[i] \in Stacked(r)
          /\ \A m \in 1 .. n : r.memo[m] \in Stacked(r)
        BY <1>2 DEF Stacked, Range
    <2>8. r.page \in Gen => r.page \notin Stacked(r)
        BY <1>11 DEF PageGood
    <2>9. \A x \in Stacked(w) : \/ \E i \in 1 .. top : x = r.slots[i]
                                \/ \E m \in 1 .. (n - 1) : x = r.memo[m]
        BY <1>2, <1>6 DEF Stacked, Range
    <2>10. \A x \in Range(killed) : \/ x = r.page
                                    \/ \E i \in (1 .. r.index) \ (1 .. top) : x = r.slots[i]
        BY <2>4, <2>5 DEF Range
    <2>11. b.page = r.memo[n]
        BY <1>2, <1>5
    <2>12. Stacked(w) \union {b.page} \subseteq Stacked(r)
        BY <1>9, <2>2, <2>7, <2>9, <2>11
    <2>13. ASSUME NEW x \in Range(killed), x \in Gen
           PROVE  x \in Held(r) /\ x \notin Stacked(w) \union {b.page}
        <3>1. CASE x = r.page
            BY <2>6, <2>8, <2>12, <2>13, <3>1
        <3>2. ASSUME NEW i \in (1 .. r.index) \ (1 .. top), x = r.slots[i]
              PROVE  x \in Held(r) /\ x \notin Stacked(w) \union {b.page}
            <4>1. x \in Held(r)
                BY <2>6, <2>7, <3>2
            <4>2. \A j \in 1 .. top : x # r.slots[j]
                BY <1>11, <2>2, <2>13, <3>2 DEF StackGood
            <4>3. \A m \in 1 .. n : x # r.memo[m]
                BY <1>2, <1>11, <2>13, <3>2 DEF StackGood
            <4> QED BY <1>9, <2>9, <2>11, <4>1, <4>2, <4>3
        <3> QED BY <2>10, <3>1, <3>2
    <2>14. ASSUME NEW x \in Stacked(w) \union {b.page}, x \in Gen PROVE x \in w.table
        <3>1. x \in r.table
            BY <1>11, <2>12, <2>14 DEF StackGood
        <3>2. x \notin Range(killed)
            BY <2>13, <2>14
        <3> QED BY <1>6, <3>1, <3>2 DEF mine
    <2>15. StackGood(w)
        <3>1. \A i, j \in 1 .. w.index : w.slots[i] = w.slots[j] /\ w.slots[i] \in Gen => i = j
            BY <1>6, <1>11, <2>2 DEF StackGood
        <3>2. \A m, l \in DOMAIN w.memo : w.memo[m] = w.memo[l] /\ w.memo[m] \in Gen => m = l
            BY <1>2, <1>6, <1>9, <1>11 DEF StackGood
        <3>3. \A i \in 1 .. w.index, m \in DOMAIN w.memo :
                 w.memo[m] \in Gen => w.slots[i] # w.memo[m]
            BY <1>2, <1>6, <1>9, <1>11, <2>2 DEF StackGood
        <3> QED BY <2>14, <3>1, <3>2, <3>3 DEF StackGood
    <2>16. ASSUME b.page \in Gen PROVE b.page \notin Stacked(w)
        <3>1. \A i \in 1 .. top : r.slots[i] # r.memo[n]
            BY <1>2, <1>9, <1>11, <2>2, <2>11, <2>16 DEF StackGood
        <3>2. \A m \in 1 .. (n - 1) : r.memo[m] # r.memo[n]
            BY <1>2, <1>9, <1>11, <2>11, <2>16 DEF StackGood
        <3> QED BY <2>9, <2>11, <3>1, <3>2
    <2>17. ASSUME NEW i \in DOMAIN b.killed, NEW j \in DOMAIN b.killed,
                  b.killed[i] \in Gen, b.killed[i] = b.killed[j]
           PROVE  i = j
        <3>1. b.killed = killed /\ i \in 1 .. (k + 1) /\ j \in 1 .. (k + 1)
            BY <1>5, <2>4, <2>17
        <3>2. CASE i = 1 /\ j = 1
            BY <3>2
        <3>3. CASE i = 1 /\ j # 1
            BY <2>4, <2>5, <2>7, <2>8, <2>17, <3>1, <3>3
        <3>4. CASE i # 1 /\ j = 1
            BY <2>4, <2>5, <2>7, <2>8, <2>17, <3>1, <3>4
        <3>5. CASE i # 1 /\ j # 1
            <4>1. top + (i - 1) = top + (j - 1)
                BY <1>11, <2>5, <2>17, <3>1, <3>5 DEF StackGood
            <4> QED BY <1>4, <2>2, <3>1, <4>1, NavConstants
        <3> QED BY <3>2, <3>3, <3>4, <3>5
    <2> QED BY <1>5, <2>6, <2>12, <2>13, <2>14, <2>15, <2>16, <2>17
<1>12. Marks(r) /\ ~Below(w) => Marks(w)
    BY <1>10
<1> QED BY <1>7, <1>8, <1>11, <1>12 DEF BackGood, w, b

\* A link of any kind keeps the stacks paired.
LEMMA PushIsGood ==
    ASSUME NEW r \in HDWindow, Paired(r)
    PROVE  /\ PushGood(r, r) /\ PushGood(r, Downlink(r)) /\ PushGood(r, Memolink(r))
           /\ \A kind \in {"link", "down", "memo"} : PushGood(r, Push(r, kind))
<1>1. PushGood(r, r)
    <2>1. Stacked(r) \subseteq Stacked(r) \union {r.page} /\ (Marks(r) => ~Below(r))
        BY NotBelow
    <2> QED BY <2>1 DEF PushGood
<1>2. PushGood(r, Downlink(r)) /\ PushGood(r, Memolink(r))
    BY DownlinkGood, MemolinkGood
<1>3. ASSUME NEW kind \in {"link", "down", "memo"} PROVE PushGood(r, Push(r, kind))
    <2>1. \/ Push(r, kind) = r \/ Push(r, kind) = Downlink(r) \/ Push(r, kind) = Memolink(r)
        BY DEF Push
    <2> QED BY <1>1, <1>2, <2>1
<1> QED BY <1>1, <1>2, <1>3

\* Up, and Return, unless they are at the top.
LEMMA BackIsGood ==
    ASSUME NEW r \in HDWindow, Paired(r)
    PROVE  /\ Returnlink(r).page # Null => BackGood(r, Returnlink(r))
           /\ Uplink(r).page # Null => BackGood(r, Uplink(r))
<1>1. ASSUME Returnlink(r).page # Null PROVE BackGood(r, Returnlink(r))
    <2>1. r.memo # <<>>
        <3> SUFFICES ASSUME r.memo = <<>> PROVE FALSE
            OBVIOUS
        <3>1. Returnlink(r).page = Null
            BY DEF Returnlink, Back
        <3> QED BY <1>1, <3>1
    <2> QED BY <2>1, ReturnGood
<1>2. ASSUME Uplink(r).page # Null PROVE BackGood(r, Uplink(r))
    <2>1. CASE r.index = 0
        <3>1. Uplink(r) = Returnlink(r)
            BY <2>1 DEF Uplink
        <3> QED BY <1>1, <1>2, <3>1
    <2>2. CASE r.index # 0
        BY <1>2, <2>2, UplinkGood
    <2> QED BY <2>1, <2>2
<1> QED BY <1>1, <1>2

-----------------------------------------------------------------------------
(***************************************************************************)
(* The inductive invariant.  What is generated belongs to one window, in   *)
(* whose table it is (Tables); the windows that are gone have taken their  *)
(* pages with them (Freeing); as long as no Up went below a mark, what a   *)
(* window shows or can go back to is in its table, each page once, and     *)
(* not freed (Alive).                                                      *)
(***************************************************************************)
NoBelow == "below" \notin strays

Tables ==
    /\ win \in [Windows -> HDWindow]
    /\ \A w \in Windows : /\ Paired(win[w]) /\ win[w].links = win[w].page
                          /\ win[w].table \subseteq Past
                          /\ w > made => win[w].table = {}
    /\ \A v, w \in Windows : v # w => win[v].table \intersect win[w].table = {}

Freeing ==
    /\ Running => /\ Main \in open
                  /\ \A w \in (1 .. made) \ open : win[w].table \subseteq freed
    /\ NoBelow => freed \subseteq Past

AliveIn(w) ==
    /\ Marks(win[w])
    /\ Running => /\ StackGood(win[w]) /\ PageGood(win[w])
                  /\ Held(win[w]) \intersect freed = {}
                  /\ "bridge" \notin strays => win[w].table \intersect freed = {}

Alive == NoBelow => \A w \in open : AliveIn(w)

NavInv == PointersAreGood /\ Tables /\ Freeing /\ Alive

\* What the variables of every step are.
StepTypes ==
    /\ gens' \in 0 .. MaxGen /\ gens <= gens'
    /\ saved' \in PageIds \union {Null}
    /\ events' \in 0 .. MaxEvents

\* The types that the steps use.
LEMMA InvTypes ==
    ASSUME NavInv
    PROVE  /\ \A w \in Windows : win[w] \in HDWindow /\ Paired(win[w])
           /\ made \in Windows /\ 1 .. made \subseteq Windows
           /\ open \subseteq 1 .. made /\ open \subseteq Windows
           /\ gens \in 0 .. MaxGen /\ freed \subseteq Gen
           /\ \A w \in open : win[w] \in HDWindow /\ Paired(win[w]) /\ w \in Windows
           /\ NavTypeOK /\ gens <= gens
           /\ \A w \in Windows : w \in 0 .. MaxWindow
           /\ 0 \in 0 .. MaxWindow
<1>1. NavTypeOK /\ Tables
    BY DEF NavInv, PointersAreGood
<1>2. made \in Windows /\ open \subseteq 1 .. made /\ gens \in 0 .. MaxGen /\ freed \subseteq Gen
    BY <1>1 DEF NavTypeOK
<1>3. 1 .. made \subseteq Windows
    BY <1>2, NavConstants DEF Windows
<1>4. gens <= gens
    BY <1>2, NavConstants
<1>5. (\A w \in Windows : w \in 0 .. MaxWindow) /\ 0 \in 0 .. MaxWindow
    BY NavConstants DEF Windows
<1> QED BY <1>1, <1>2, <1>3, <1>4, <1>5 DEF Tables

\* What a window holds that was generated is in its table.
LEMMA HeldInTable ==
    ASSUME NEW r, StackGood(r), PageGood(r)
    PROVE  /\ Held(r) \intersect Gen \subseteq r.table
           /\ Held(r) = Stacked(r) \union {r.page}
BY DEF StackGood, PageGood, Held, Stacked

\* A generated page stays one of the past.
LEMMA PastGrows ==
    ASSUME gens \in 0 .. MaxGen, gens' \in 0 .. MaxGen, gens <= gens'
    PROVE  Past \subseteq Past' /\ Past' \subseteq Gen
<1>1. MaxGen \in Nat /\ \A i \in 1 .. MaxGen : Generated[i] \in Gen
    BY NavConstants
<1>2. 1 .. gens \subseteq 1 .. gens' /\ 1 .. gens' \subseteq 1 .. MaxGen
    BY <1>1
<1> QED BY <1>1, <1>2 DEF Past

\* The next page is one that was not there before.
LEMMA NextPage ==
    ASSUME gens \in 0 .. MaxGen, gens < MaxGen, gens' = gens + 1
    PROVE  /\ Generated[gens + 1] \in Gen /\ Generated[gens + 1] \notin Past
           /\ Generated[gens + 1] \in Past'
           /\ gens' \in 0 .. MaxGen /\ gens <= gens'
<1>1. /\ MaxGen \in Nat /\ \A i \in 1 .. MaxGen : Generated[i] \in Gen
      /\ \A i, j \in 1 .. MaxGen : Generated[i] = Generated[j] => i = j
    BY NavConstants
<1>2. /\ gens + 1 \in 1 .. MaxGen /\ gens + 1 \notin 1 .. gens /\ 1 .. gens \subseteq 1 .. MaxGen
      /\ gens' \in 0 .. MaxGen /\ gens <= gens' /\ gens + 1 \in 1 .. gens'
    BY <1>1
<1>3. Generated[gens + 1] \notin Past
    BY <1>1, <1>2 DEF Past
<1>4. Generated[gens + 1] \in Past'
    BY <1>2 DEF Past
<1> QED BY <1>1, <1>2, <1>3, <1>4

-----------------------------------------------------------------------------
\* Steps that move no page.
LEMMA Unmoved ==
    ASSUME NavInv, Running, StepTypes,
           UNCHANGED <<win, made, gens, freed, connected>>,
           gWindow' \in 0 .. MaxWindow,
           open' \subseteq open, open' = open \/ ~Running',
           strays \subseteq strays', strays' \subseteq {"offline", "top", "unparsable",
                                                        "bridge", "paste", "below"},
           \/ crash' \in {"no", "exit"}
           \/ /\ crash' \in {"null page", "null window", "reset", "freed write"}
              /\ strays' # {}
    PROVE  NavInv'
<1>1. NavTypeOK'
    BY DEF NavInv, PointersAreGood, NavTypeOK, StepTypes
<1>2. FreedOnce' /\ NoNullFollowed'
    BY DEF FreedOnce, NoNullFollowed
<1>3. Past' = Past
    BY DEF Past
<1>4. Tables'
    BY <1>3 DEF NavInv, Tables, Paired, Marks
<1>5. Freeing'
    BY <1>3 DEF NavInv, Freeing, NoBelow, Running
<1>6. Alive'
    <2> SUFFICES ASSUME NoBelow', NEW w \in open' PROVE AliveIn(w)'
        BY DEF Alive
    <2>1. AliveIn(w)
        BY DEF NavInv, Alive, NoBelow
    <2>2. /\ Marks(win[w])' <=> Marks(win[w])
          /\ StackGood(win[w])' <=> StackGood(win[w])
          /\ PageGood(win[w])' <=> PageGood(win[w])
          /\ Held(win[w])' = Held(win[w])
          /\ win'[w] = win[w] /\ freed' = freed
        BY DEF Marks, StackGood, PageGood, Stacked, Held
    <2>3. "bridge" \notin strays' => "bridge" \notin strays
        OBVIOUS
    <2> QED BY <2>1, <2>2, <2>3 DEF AliveIn
<1> QED BY <1>1, <1>2, <1>4, <1>5, <1>6 DEF NavInv, PointersAreGood

\* What the stacks of r and the page p must be for the window w to show p.
ShowGood(w, r, p, killed, new) ==
    /\ r \in HDWindow /\ Paired(r) /\ p \in PageIds
    /\ new \intersect Past = {} /\ new \subseteq Gen
    /\ r.table = (win[w].table \ Range(killed)) \union new
    /\ NoBelow =>
         /\ Range(killed) \intersect Gen \subseteq Held(win[w])
         /\ \A i, j \in DOMAIN killed : killed[i] \in Gen /\ killed[i] = killed[j] => i = j
         /\ ~Below(r) =>
              /\ Marks(r) /\ StackGood(r)
              /\ p \in Gen => p \in r.table /\ p \notin Stacked(r)
              /\ (Stacked(r) \union {p}) \intersect Gen \subseteq Held(win[w]) \union new
              /\ Range(killed) \intersect Gen \intersect (Stacked(r) \union {p}) = {}

\* Displaying a page changes what the window shows, and no stack.
LEMMA DisplayGood ==
    ASSUME NEW r \in HDWindow, NEW p \in PageIds
    PROVE  LET d == Display(r, p)
           IN  /\ d \in HDWindow /\ d.links = d.page /\ d.table = r.table
               /\ d.page \in PageIds /\ (d.page = p \/ d.page = "ErrorPage")
               /\ Stacked(d) = Stacked(r)
               /\ Paired(r) => Paired(d)
               /\ Marks(r) => Marks(d)
               /\ StackGood(r) => StackGood(d)
               /\ Held(d) = Stacked(r) \union {d.page}
               /\ (p \in Gen => p \in r.table /\ p \notin Stacked(r)) => PageGood(d)
<1> DEFINE d == Display(r, p)
           shown == IF p = Bad THEN "ErrorPage" ELSE p
<1>1. d = [r EXCEPT !.page = shown, !.links = shown]
    BY DEF Display
<1>2. shown \in PageIds /\ (shown = p \/ shown = "ErrorPage")
    BY NavConstants
<1> HIDE DEF shown, d
<1>3. /\ d.page = shown /\ d.links = shown /\ d.table = r.table /\ d.slots = r.slots
      /\ d.index = r.index /\ d.memo = r.memo /\ d.tops = r.tops
    BY <1>1 DEF HDWindow
<1>4. d \in HDWindow
    BY <1>1, <1>2 DEF HDWindow
<1>5. Stacked(d) = Stacked(r)
    BY <1>3 DEF Stacked
<1>6. (Paired(r) => Paired(d)) /\ (Marks(r) => Marks(d))
    BY <1>3 DEF Paired, Marks
<1>7. StackGood(r) => StackGood(d)
    BY <1>3, <1>5 DEF StackGood
<1>8. Held(d) = Stacked(r) \union {d.page}
    BY <1>5 DEF Held, Stacked
<1>9. (p \in Gen => p \in r.table /\ p \notin Stacked(r)) => PageGood(d)
    BY <1>2, <1>3, <1>5, NavConstants DEF PageGood
<1> QED BY <1>2, <1>3, <1>4, <1>5, <1>6, <1>7, <1>8, <1>9 DEF d

\* The window w shows p, after its stacks became those of r.
LEMMA ShowStep ==
    ASSUME NavInv, Running, StepTypes,
           NEW w \in open, NEW r, NEW p, NEW killed, NEW new,
           ShowGood(w, r, p, killed, new), new \subseteq Past',
           ShowIn(w, r, p, killed)
    PROVE  NavInv'
<1> DEFINE d == Display(r, p)
           dead == Range(killed) \intersect Gen
           old == win[w]
<1>1. /\ r \in HDWindow /\ Paired(r) /\ p \in PageIds
      /\ new \intersect Past = {} /\ new \subseteq Gen
      /\ r.table = (old.table \ Range(killed)) \union new
    BY DEF ShowGood
<1>2. /\ d \in HDWindow /\ d.links = d.page /\ d.table = r.table
      /\ d.page \in PageIds /\ (d.page = p \/ d.page = "ErrorPage")
      /\ Stacked(d) = Stacked(r) /\ Paired(d)
      /\ Marks(r) => Marks(d)
      /\ StackGood(r) => StackGood(d)
      /\ Held(d) = Stacked(r) \union {d.page}
      /\ (p \in Gen => p \in r.table /\ p \notin Stacked(r)) => PageGood(d)
    BY <1>1, DisplayGood
<1> HIDE DEF d
<1>3. /\ win' = [win EXCEPT ![w] = d] /\ freed' = freed \union dead
      /\ gWindow' = w /\ open' = open /\ made' = made /\ connected' = connected
      /\ crash' = IF Twice(killed) THEN "freed twice"
                  ELSE IF Resets(p) THEN "reset" ELSE crash
      /\ strays' = strays \union (IF Resets(p) THEN {"unparsable"} ELSE {})
                          \union (IF Below(r) THEN {"below"} ELSE {})
    BY DEF ShowIn, d
<1>4. /\ made \in Windows /\ 1 .. made \subseteq Windows /\ open \subseteq 1 .. made
      /\ w \in Windows /\ gens \in 0 .. MaxGen /\ freed \subseteq Gen /\ NavTypeOK
      /\ open \subseteq Windows /\ w \in 1 .. made
    BY InvTypes
<1>5. Past \subseteq Past' /\ Past' \subseteq Gen
    BY <1>4, PastGrows DEF StepTypes
<1>6. /\ win \in [Windows -> HDWindow]
      /\ \A v, x \in Windows : v # x => win[v].table \intersect win[x].table = {}
      /\ \A v \in Windows : /\ Paired(win[v]) /\ win[v].links = win[v].page
                            /\ win[v].table \subseteq Past
                            /\ v > made => win[v].table = {}
    BY DEF NavInv, Tables
<1>7. win'[w] = d /\ \A v \in Windows \ {w} : win'[v] = win[v]
    BY <1>3, <1>4, <1>6
<1>8. win' \in [Windows -> HDWindow]
    BY <1>2, <1>3, <1>6
<1>9. NoBelow' => NoBelow /\ ~Below(r)
    BY <1>3 DEF NoBelow
<1>10. dead \subseteq Gen
    OBVIOUS
\* What was held is in the table, what is killed was held.
<1>11. ASSUME NoBelow
       PROVE  /\ Held(old) \intersect Gen \subseteq old.table
              /\ Held(old) \intersect freed = {}
              /\ dead \subseteq old.table /\ dead \intersect freed = {}
              /\ freed \subseteq Past
              /\ ~Twice(killed)
    <2>1. AliveIn(w) /\ freed \subseteq Past
        BY <1>11 DEF NavInv, Alive, Freeing
    <2>2. StackGood(old) /\ PageGood(old) /\ Held(old) \intersect freed = {}
        BY <2>1 DEF AliveIn
    <2>3. Held(old) \intersect Gen \subseteq old.table
        BY <2>2, HeldInTable
    <2>4. /\ dead \subseteq Held(old)
          /\ \A i, j \in DOMAIN killed : killed[i] \in Gen /\ killed[i] = killed[j] => i = j
        BY <1>11 DEF ShowGood
    <2>5. \A i \in DOMAIN killed : killed[i] \in Gen => killed[i] \notin freed
        BY <2>2, <2>4 DEF Range
    <2>6. ~Twice(killed)
        BY <2>4, <2>5 DEF Twice
    <2> QED BY <2>1, <2>2, <2>3, <2>4, <2>6
<1> HIDE DEF dead
<1>12. NavTypeOK'
    <2>1. /\ made' \in Windows /\ open' \subseteq 1 .. made' /\ connected' \in BOOLEAN
          /\ freed' \subseteq Gen
        BY <1>3, <1>4, <1>10 DEF NavTypeOK
    <2>2. gWindow' \in 0 .. MaxWindow
        <3>1. \A x \in Windows : x \in 0 .. MaxWindow
            BY NavConstants DEF Windows
        <3> QED BY <1>3, <1>4, <3>1
    <2>3. crash' \in {"no", "exit", "null page", "null window", "freed twice",
                      "reset", "freed write"}
        BY <1>3 DEF Running
    <2>4. strays' \subseteq {"offline", "top", "unparsable", "bridge", "paste", "below"}
        BY <1>3, <1>4 DEF NavTypeOK
    <2>5. \A v \in Windows : win'[v] \in HDWindow
        BY <1>8
    <2> QED BY <2>1, <2>2, <2>3, <2>4, <2>5 DEF NavTypeOK, StepTypes
<1>13. FreedOnce'
    <2>1. Twice(killed) => "below" \in strays
        BY <1>11 DEF NoBelow
    <2>2. strays \subseteq strays'
        BY <1>3
    <2>3. crash' = "freed twice" => Twice(killed)
        BY <1>3 DEF Running
    <2> QED BY <2>1, <2>2, <2>3 DEF FreedOnce
<1>14. NoNullFollowed'
    <2>1. crash' \in {"null page", "null window", "reset", "freed write"} => Resets(p)
        BY <1>3 DEF Running
    <2>2. Resets(p) => "unparsable" \in strays'
        BY <1>3
    <2> QED BY <2>1, <2>2 DEF NoNullFollowed
<1>15. Tables'
    <2>1. d.table \subseteq Past'
        BY <1>1, <1>2, <1>4, <1>5, <1>6
    <2>2. d.table \subseteq old.table \union new
        BY <1>1, <1>2
    <2>3. ~(w > made)
        BY <1>4, NavConstants DEF Windows
    <2>4. ASSUME NEW v \in Windows
          PROVE  /\ Paired(win[v])' /\ win'[v].links = win'[v].page
                 /\ win'[v].table \subseteq Past'
                 /\ v > made' => win'[v].table = {}
        <3>0. Paired(win[v])' <=> Paired(win'[v])
            BY DEF Paired
        <3>1. CASE v = w
            BY <1>2, <1>3, <1>7, <2>1, <2>3, <3>0, <3>1
        <3>2. CASE v # w
            BY <1>3, <1>5, <1>6, <1>7, <3>0, <3>2
        <3> QED BY <3>1, <3>2
    <2>5. \A v \in Windows : v # w => win[v].table \intersect d.table = {}
        BY <1>1, <1>4, <1>6, <2>2
    <2>6. \A v, x \in Windows : v # x => win'[v].table \intersect win'[x].table = {}
        <3> SUFFICES ASSUME NEW v \in Windows, NEW x \in Windows, v # x
                     PROVE  win'[v].table \intersect win'[x].table = {}
            OBVIOUS
        <3>1. CASE v = w
            BY <1>7, <2>5, <3>1
        <3>2. CASE x = w
            BY <1>7, <2>5, <3>2
        <3>3. CASE v # w /\ x # w
            BY <1>6, <1>7, <3>3
        <3> QED BY <3>1, <3>2, <3>3
    <2> QED BY <1>8, <2>4, <2>6 DEF Tables
<1>16. Freeing'
    <2>1. Main \in open /\ \A v \in (1 .. made) \ open : win[v].table \subseteq freed
        BY DEF NavInv, Freeing
    <2>2. \A v \in (1 .. made') \ open' : win'[v].table \subseteq freed'
        <3>1. \A v \in (1 .. made) \ open : v \in Windows \ {w}
            BY <1>4
        <3> QED BY <1>3, <1>7, <2>1, <3>1
    <2>3. NoBelow' => freed' \subseteq Past'
        BY <1>3, <1>4, <1>5, <1>6, <1>9, <1>11
    <2> QED BY <1>3, <2>1, <2>2, <2>3 DEF Freeing
<1>17. ASSUME NoBelow', NEW v \in open PROVE AliveIn(v)'
    <2>1. NoBelow /\ ~Below(r)
        BY <1>9, <1>17
    <2>2. /\ Marks(r) /\ StackGood(r)
          /\ p \in Gen => p \in r.table /\ p \notin Stacked(r)
          /\ (Stacked(r) \union {p}) \intersect Gen \subseteq Held(old) \union new
          /\ dead \intersect (Stacked(r) \union {p}) = {}
        BY <2>1 DEF ShowGood, dead
    <2>3. new \intersect freed = {} /\ new \intersect dead = {}
        BY <1>1, <1>4, <1>6, <1>11, <2>1
    <2>4. strays \subseteq strays'
        BY <1>3
    <2>5. CASE v = w
        <3>1. Marks(d) /\ StackGood(d) /\ PageGood(d)
            BY <1>2, <2>2
        <3>2. ASSUME NEW x \in Held(d), x \in freed' PROVE FALSE
            <4>1. x \in Gen
                BY <1>3, <1>4, <1>10, <3>2
            <4>2. x \in Stacked(r) \union {p}
                BY <1>2, <3>2, <4>1, NavConstants
            <4>3. x \in Held(old) \union new /\ x \notin dead
                BY <2>2, <4>1, <4>2
            <4> QED BY <1>3, <1>11, <2>1, <2>3, <3>2, <4>3
        <3>3. ASSUME "bridge" \notin strays' PROVE d.table \intersect freed' = {}
            <4>1. old.table \intersect freed = {}
                BY <2>1, <2>4, <3>3 DEF NavInv, Alive, AliveIn
            <4>2. d.table \intersect dead = {}
                BY <1>1, <1>2, <2>3 DEF dead
            <4> QED BY <1>1, <1>2, <1>3, <2>3, <4>1, <4>2
        <3> HIDE DEF d
        <3>4. /\ Marks(win[v])' <=> Marks(win'[v])
              /\ StackGood(win[v])' <=> StackGood(win'[v])
              /\ PageGood(win[v])' <=> PageGood(win'[v])
              /\ Held(win[v])' = Held(win'[v])
            BY DEF Marks, StackGood, PageGood, Stacked, Held
        <3> QED BY <1>7, <2>5, <3>1, <3>2, <3>3, <3>4 DEF AliveIn
    <2>6. CASE v # w
        <3>1. AliveIn(v)
            BY <2>1 DEF NavInv, Alive
        <3>2. win'[v] = win[v] /\ v \in Windows
            BY <1>4, <1>7, <2>6
        <3>3. Held(win[v]) \intersect Gen \subseteq win[v].table
            BY <3>1, HeldInTable DEF AliveIn
        <3>4. win[v].table \intersect dead = {}
            BY <1>4, <1>6, <1>11, <2>1, <2>6, <3>2
        <3>5. Held(win[v]) \intersect freed' = {}
            BY <1>3, <1>10, <3>1, <3>3, <3>4 DEF AliveIn
        <3>6. "bridge" \notin strays' => win[v].table \intersect freed' = {}
            BY <1>3, <2>4, <3>1, <3>4 DEF AliveIn
        <3>7. /\ Marks(win[v])' <=> Marks(win'[v])
              /\ StackGood(win[v])' <=> StackGood(win'[v])
              /\ PageGood(win[v])' <=> PageGood(win'[v])
              /\ Held(win[v])' = Held(win'[v])
            BY DEF Marks, StackGood, PageGood, Stacked, Held
        <3> QED BY <3>1, <3>2, <3>5, <3>6, <3>7 DEF AliveIn
    <2> QED BY <2>5, <2>6
<1>18. Alive'
    BY <1>3, <1>17 DEF Alive
<1> QED BY <1>12, <1>13, <1>14, <1>15, <1>16, <1>18 DEF NavInv, PointersAreGood

-----------------------------------------------------------------------------
\* A page that is not generated, on what was pushed.
LEMMA PushedShows ==
    ASSUME NavInv, Running, NEW w \in open, NEW r, PushGood(win[w], r),
           NEW p \in PageIds \ Gen
    PROVE  ShowGood(w, r, p, <<>>, {})
<1> DEFINE old == win[w]
<1>1. /\ r \in HDWindow /\ Paired(r) /\ r.page = old.page /\ r.table = old.table
      /\ Marks(old) => Marks(r) /\ ~Below(r)
      /\ StackGood(old) /\ PageGood(old) => StackGood(r)
      /\ Stacked(r) \subseteq Stacked(old) \union {old.page}
    BY DEF PushGood
<1>2. Range(<<>>) = {} /\ DOMAIN <<>> = {}
    BY DEF Range
<1>3. r.table = (old.table \ Range(<<>>)) \union {}
    BY <1>1, <1>2
<1>4. ASSUME NoBelow
      PROVE  /\ Marks(r) /\ StackGood(r)
             /\ (Stacked(r) \union {p}) \intersect Gen \subseteq Held(old) \union {}
    <2>1. AliveIn(w)
        BY <1>4 DEF NavInv, Alive
    <2>2. Marks(old) /\ StackGood(old) /\ PageGood(old)
        BY <2>1 DEF AliveIn
    <2>3. Held(old) = Stacked(old) \union {old.page}
        BY <2>2, HeldInTable
    <2> QED BY <1>1, <2>2, <2>3
<1> HIDE DEF old
<1>5. old = win[w]
    BY DEF old
<1> QED BY <1>1, <1>2, <1>3, <1>4, <1>5 DEF ShowGood

\* Showing one of the pages that are not generated.
LEMMA ShowStatic ==
    ASSUME NavInv, Running, StepTypes, NEW w \in open, NEW r, PushGood(win[w], r),
           NEW p \in PageIds \ Gen, ShowIn(w, r, p, <<>>)
    PROVE  NavInv'
<1>1. ShowGood(w, r, p, <<>>, {})
    BY PushedShows
<1>2. {} \subseteq Past'
    OBVIOUS
<1> QED BY <1>1, <1>2, ShowStep

\* Up and Return.
LEMMA ShowBack ==
    ASSUME NavInv, Running, StepTypes, NEW w \in open,
           NEW back \in {Uplink(win[w]), Returnlink(win[w])}, back.page # Null,
           ShowIn(w, back.win, back.page, back.killed)
    PROVE  NavInv'
<1> DEFINE old == win[w]
           r == back.win
<1>1. old \in HDWindow /\ Paired(old)
    BY InvTypes
<1>2. BackGood(old, back)
    BY <1>1, BackIsGood
<1>3. /\ r \in HDWindow /\ Paired(r) /\ back.page \in PageIds
      /\ r.table = old.table \ Range(back.killed)
      /\ Marks(old) /\ ~Below(r) => Marks(r)
      /\ Marks(old) /\ StackGood(old) /\ PageGood(old) =>
         /\ StackGood(r)
         /\ back.page \in Gen => back.page \in r.table /\ back.page \notin Stacked(r)
         /\ Stacked(r) \union {back.page} \subseteq Held(old)
         /\ Range(back.killed) \intersect Gen \subseteq Held(old)
         /\ Range(back.killed) \intersect Gen \intersect (Stacked(r) \union {back.page}) = {}
         /\ \A i, j \in DOMAIN back.killed :
              back.killed[i] \in Gen /\ back.killed[i] = back.killed[j] => i = j
    BY <1>2 DEF BackGood
<1>4. NoBelow => Marks(old) /\ StackGood(old) /\ PageGood(old)
    BY DEF NavInv, Alive, AliveIn
<1> HIDE DEF r, old
<1>5. old = win[w]
    BY DEF old
<1>6. (Stacked(r) \union {back.page}) \subseteq Held(old)
      => (Stacked(r) \union {back.page}) \intersect Gen \subseteq Held(old) \union {}
    OBVIOUS
<1>7. r.table = (old.table \ Range(back.killed)) \union {}
    BY <1>3
<1>8. ShowGood(w, r, back.page, back.killed, {})
    BY <1>3, <1>4, <1>5, <1>6, <1>7 DEF ShowGood
<1>9. {} \subseteq Past'
    OBVIOUS
<1>10. ShowIn(w, r, back.page, back.killed)
    BY DEF r
<1> QED BY <1>8, <1>9, <1>10, ShowStep

\* A window that is opened, on a page of its own if it was generated.
LEMMA OpenStep ==
    ASSUME NavInv, Running, StepTypes, NEW p \in PageIds, NEW mine \in SUBSET Gen,
           mine \intersect Past = {}, mine \subseteq Past', p \in Gen => p \in mine,
           OpenWindow(p, mine)
    PROVE  NavInv'
<1> DEFINE n == made + 1
           d == [NewWindow(p) EXCEPT !.table = mine]
<1>1. /\ NewWindow(p) \in HDWindow /\ NewWindow(p).page = p /\ NewWindow(p).links = p
      /\ Marks(NewWindow(p)) /\ Stacked(NewWindow(p)) = {}
      /\ NewWindow(p).memo = <<>> /\ NewWindow(p).tops = <<>> /\ NewWindow(p).index = 0
    BY NewWindowGood DEF NewWindow
<1>2. /\ d \in HDWindow /\ d.page = p /\ d.links = p /\ d.table = mine
      /\ d.memo = <<>> /\ d.tops = <<>> /\ d.index = 0
    BY <1>1 DEF HDWindow
<1>3. /\ made < MaxWindow /\ made' = n /\ win' = [win EXCEPT ![n] = d]
      /\ open' = open \union {n} /\ gWindow' = n
      /\ UNCHANGED <<freed, connected, crash, strays>>
    BY DEF OpenWindow
<1> HIDE DEF d
<1>4. /\ Stacked(d) = {} /\ Marks(d) /\ Paired(d) /\ StackGood(d)
      /\ PageGood(d) /\ Held(d) = {p}
    <2>1. Stacked(d) = {} /\ DOMAIN d.memo = {} /\ 1 .. d.index = {} /\ DOMAIN d.tops = {}
        BY <1>2 DEF Stacked, Range
    <2>2. Held(d) = {p}
        BY <1>2, <2>1 DEF Held, Stacked
    <2>3. Marks(d) /\ Paired(d)
        BY <1>2, <2>1 DEF Marks, Paired
    <2>4. StackGood(d) /\ PageGood(d)
        BY <1>2, <2>1 DEF StackGood, PageGood
    <2> QED BY <2>1, <2>2, <2>3, <2>4
<1>5. /\ made \in Windows /\ 1 .. made \subseteq Windows /\ open \subseteq 1 .. made
      /\ gens \in 0 .. MaxGen /\ freed \subseteq Gen /\ NavTypeOK /\ open \subseteq Windows
    BY InvTypes
<1>6. Past \subseteq Past'
    BY <1>5, PastGrows DEF StepTypes
<1>7. /\ win \in [Windows -> HDWindow]
      /\ \A v, x \in Windows : v # x => win[v].table \intersect win[x].table = {}
      /\ \A v \in Windows : /\ Paired(win[v]) /\ win[v].links = win[v].page
                            /\ win[v].table \subseteq Past
                            /\ v > made => win[v].table = {}
    BY DEF NavInv, Tables
<1>8. /\ n \in Windows /\ n \in 0 .. MaxWindow /\ n \notin 1 .. made
      /\ n > made /\ 1 .. n = (1 .. made) \union {n}
      /\ \A v \in Windows : v > n => v > made /\ v # n
    BY <1>3, <1>5, NavConstants DEF Windows
<1> HIDE DEF n
<1>9. win'[n] = d /\ \A v \in Windows \ {n} : win'[v] = win[v]
    BY <1>3, <1>7, <1>8
<1>10. win' \in [Windows -> HDWindow]
    BY <1>2, <1>3, <1>7
<1>11. n \notin open
    BY <1>5, <1>8
<1>12. NavTypeOK'
    <2>1. \A v \in Windows : win'[v] \in HDWindow
        BY <1>10
    <2>2. open' \subseteq 1 .. made'
        BY <1>3, <1>5, <1>8
    <2> QED BY <1>3, <1>5, <1>8, <2>1, <2>2 DEF NavTypeOK, StepTypes
<1>13. FreedOnce' /\ NoNullFollowed'
    BY <1>3 DEF NavInv, PointersAreGood, FreedOnce, NoNullFollowed
<1>14. Tables'
    <2>1. ASSUME NEW v \in Windows
          PROVE  /\ Paired(win[v])' /\ win'[v].links = win'[v].page
                 /\ win'[v].table \subseteq Past'
                 /\ v > made' => win'[v].table = {}
        <3>1. Paired(win[v])' <=> Paired(win'[v])
            BY DEF Paired
        <3>2. CASE v = n
            <4>1. ~(n > n)
                BY <1>8, NavConstants DEF Windows
            <4> QED BY <1>2, <1>3, <1>4, <1>9, <3>1, <3>2, <4>1
        <3>3. CASE v # n
            BY <1>3, <1>6, <1>7, <1>8, <1>9, <3>1, <3>3
        <3> QED BY <3>2, <3>3
    <2>2. \A v \in Windows : win[v].table \intersect d.table = {}
        BY <1>2, <1>7
    <2>3. ASSUME NEW v \in Windows, NEW x \in Windows, v # x
          PROVE  win'[v].table \intersect win'[x].table = {}
        <3>1. CASE v = n
            BY <1>9, <2>2, <2>3, <3>1
        <3>2. CASE x = n
            BY <1>9, <2>2, <2>3, <3>2
        <3>3. CASE v # n /\ x # n
            BY <1>7, <1>9, <2>3, <3>3
        <3> QED BY <3>1, <3>2, <3>3
    <2> QED BY <1>10, <2>1, <2>3 DEF Tables
<1>15. Freeing'
    <2>1. Main \in open /\ \A v \in (1 .. made) \ open : win[v].table \subseteq freed
        BY DEF NavInv, Freeing
    <2>2. (1 .. made') \ open' \subseteq (1 .. made) \ open
        BY <1>3, <1>8
    <2>3. \A v \in (1 .. made) \ open : v # n => win'[v] = win[v]
        BY <1>5, <1>9
    <2>4. \A v \in (1 .. made') \ open' : win'[v].table \subseteq freed'
        BY <1>3, <1>8, <2>1, <2>2, <2>3
    <2>5. NoBelow' => freed' \subseteq Past'
        BY <1>3, <1>6 DEF NavInv, Freeing, NoBelow
    <2> QED BY <1>3, <2>1, <2>4, <2>5 DEF Freeing
<1>16. ASSUME NoBelow', NEW v \in open' PROVE AliveIn(v)'
    <2>1. NoBelow /\ freed \subseteq Past
        BY <1>3, <1>16 DEF NavInv, Freeing, NoBelow
    <2>2. /\ Marks(win[v])' <=> Marks(win'[v])
          /\ StackGood(win[v])' <=> StackGood(win'[v])
          /\ PageGood(win[v])' <=> PageGood(win'[v])
          /\ Held(win[v])' = Held(win'[v])
        BY DEF Marks, StackGood, PageGood, Stacked, Held
    <2>3. CASE v = n
        <3>1. mine \intersect freed = {} /\ p \notin freed
            BY <1>5, <2>1
        <3> QED BY <1>2, <1>3, <1>4, <1>9, <2>2, <2>3, <3>1 DEF AliveIn
    <2>4. CASE v # n
        <3>1. v \in open /\ win'[v] = win[v]
            BY <1>3, <1>5, <1>9, <1>16, <2>4
        <3>2. AliveIn(v)
            BY <2>1, <3>1 DEF NavInv, Alive
        <3> QED BY <1>3, <2>2, <3>1, <3>2 DEF AliveIn
    <2> QED BY <2>3, <2>4
<1>17. Alive'
    BY <1>16 DEF Alive
<1> QED BY <1>12, <1>13, <1>14, <1>15, <1>17 DEF NavInv, PointersAreGood

\* A window is closed, with the pages of its table.
LEMMA ExitStep ==
    ASSUME NavInv, Running, StepTypes, gens' = gens, NEW w \in open, ExitHyperDoc(w)
    PROVE  NavInv'
<1>1. /\ made \in Windows /\ 1 .. made \subseteq Windows /\ open \subseteq 1 .. made
      /\ w \in Windows /\ gens \in 0 .. MaxGen /\ freed \subseteq Gen /\ NavTypeOK
      /\ open \subseteq Windows
    BY InvTypes
<1>2. CASE w = Main \/ open = {w}
    <2>1. crash' = "exit" /\ UNCHANGED <<win, open, gWindow, made, freed, connected, strays>>
        BY <1>2 DEF ExitHyperDoc
    <2>2. gWindow' \in 0 .. MaxWindow
        BY <1>1, <2>1 DEF NavTypeOK
    <2>3. strays' \subseteq {"offline", "top", "unparsable", "bridge", "paste", "below"}
        BY <1>1, <2>1 DEF NavTypeOK
    <2> QED BY <2>1, <2>2, <2>3, Unmoved
<1>3. CASE ~(w = Main \/ open = {w})
    <2> DEFINE mine == win[w].table
    <2>1. /\ open' = open \ {w} /\ gWindow' = 0 /\ freed' = freed \union mine
          /\ crash' = IF mine \intersect freed # {} THEN "freed twice" ELSE crash
          /\ UNCHANGED <<win, made, connected, strays>>
        BY <1>3 DEF ExitHyperDoc, FreeHdWindow
    <2>2. /\ win \in [Windows -> HDWindow]
          /\ \A v, x \in Windows : v # x => win[v].table \intersect win[x].table = {}
          /\ \A v \in Windows : win[v].table \subseteq Past
        BY DEF NavInv, Tables
    <2>3. Past' = Past
        BY DEF Past
    <2>4. mine \subseteq Past /\ mine \subseteq Gen
        BY <1>1, <2>2 DEF HDWindow
    <2>5. NoBelow' <=> NoBelow
        BY <2>1 DEF NoBelow
    <2> HIDE DEF mine
    <2>6. NavTypeOK'
        <3>1. 0 \in 0 .. MaxWindow
            BY NavConstants
        <3> QED BY <1>1, <2>1, <2>4, <3>1 DEF NavTypeOK, StepTypes
    <2>7. FreedOnce'
        <3>1. mine \intersect freed # {} => strays \intersect {"bridge", "below"} # {}
            BY DEF NavInv, Alive, AliveIn, NoBelow, mine
        <3> QED BY <2>1, <3>1 DEF FreedOnce, Running
    <2>8. NoNullFollowed'
        BY <2>1 DEF NoNullFollowed, Running
    <2>9. Tables'
        <3>1. \A v \in Windows : Paired(win[v])' <=> Paired(win[v])
            BY <2>1 DEF Paired
        <3> QED BY <2>1, <2>3, <3>1 DEF NavInv, Tables
    <2>10. Freeing'
        <3>1. Main \in open /\ \A v \in (1 .. made) \ open : win[v].table \subseteq freed
            BY DEF NavInv, Freeing
        <3>2. \A v \in (1 .. made') \ open' : win'[v].table \subseteq freed'
            BY <2>1, <3>1 DEF mine
        <3>3. NoBelow' => freed' \subseteq Past'
            BY <2>1, <2>3, <2>4, <2>5 DEF NavInv, Freeing
        <3> QED BY <1>3, <2>1, <3>1, <3>2, <3>3 DEF Freeing
    <2>11. ASSUME NoBelow', NEW v \in open' PROVE AliveIn(v)'
        <3>1. v \in open /\ v # w /\ v \in Windows
            BY <1>1, <2>1, <2>11
        <3>2. AliveIn(v)
            BY <2>5, <2>11, <3>1 DEF NavInv, Alive
        <3>3. Held(win[v]) \intersect Gen \subseteq win[v].table
            BY <3>2, HeldInTable DEF AliveIn
        <3>4. win[v].table \intersect mine = {}
            BY <1>1, <2>2, <3>1 DEF mine
        <3>5. Held(win[v]) \intersect freed' = {}
            BY <2>1, <2>4, <3>2, <3>3, <3>4 DEF AliveIn
        <3>6. /\ Marks(win[v])' <=> Marks(win[v])
              /\ StackGood(win[v])' <=> StackGood(win[v])
              /\ PageGood(win[v])' <=> PageGood(win[v])
              /\ Held(win[v])' = Held(win[v]) /\ win'[v] = win[v]
            BY <2>1 DEF Marks, StackGood, PageGood, Stacked, Held
        <3> QED BY <2>1, <3>2, <3>4, <3>5, <3>6 DEF AliveIn
    <2>12. Alive'
        BY <2>11 DEF Alive
    <2> QED BY <2>6, <2>7, <2>8, <2>9, <2>10, <2>12 DEF NavInv, PointersAreGood
<1> QED BY <1>2, <1>3

\* The end of handle_button.
LEMMA SettleStep ==
    ASSUME NavInv, Running, StepTypes, gens' = gens, NEW w \in open, NEW r,
           PushGood(win[w], r), NEW p, p \in PageIds => p \notin Gen,
           p \in {"UpPage", "ReturnPage", "UnknownPage"} => r = win[w],
           Settle(w, r, p, <<>>)
    PROVE  NavInv'
<1>1. w \in Windows /\ NavTypeOK /\ win[w] \in HDWindow /\ Paired(win[w])
    BY InvTypes
<1>2. w \in 0 .. MaxWindow
    BY <1>1, NavConstants DEF Windows
<1>3. strays \subseteq {"offline", "top", "unparsable", "bridge", "paste", "below"}
    BY <1>1 DEF NavTypeOK
<1>4. CASE Leave(w)
    <2>1. /\ UNCHANGED <<win, made, gens, freed, connected, open, strays>>
          /\ gWindow' = w /\ crash' = "no"
        BY <1>4 DEF Leave, Running
    <2> QED BY <1>2, <1>3, <2>1, Unmoved
<1>5. CASE NullPage(w)
    <2>1. /\ UNCHANGED <<win, made, gens, freed, connected, open>>
          /\ gWindow' = w /\ crash' = "null page" /\ strays' = strays \union {"top"}
        BY <1>5 DEF NullPage
    <2>2. strays' \subseteq {"offline", "top", "unparsable", "bridge", "paste", "below"}
        BY <1>3, <2>1
    <2> QED BY <1>2, <2>1, <2>2, Unmoved
<1>6. CASE ExitHyperDoc(w)
    BY <1>6, ExitStep
<1>7. CASE p = "UnknownPage" /\ ShowIn(w, Downlink(r), p, <<>>)
    <2>1. PushGood(win[w], Downlink(r))
        BY <1>1, <1>7, PushIsGood
    <2>2. "UnknownPage" \in PageIds \ Gen
        BY NavConstants
    <2> QED BY <1>7, <2>1, <2>2, ShowStatic
<1>8. CASE p \in PageIds /\ ShowIn(w, r, p, <<>>)
    BY <1>8, ShowStatic
<1>9. ASSUME NEW back \in {Uplink(r), Returnlink(r)}, r = win[w], back.page # Null,
             ShowIn(w, back.win, back.page, back.killed)
      PROVE  NavInv'
    BY <1>9, ShowBack
<1> QED BY <1>4, <1>5, <1>6, <1>7, <1>8, <1>9 DEF Settle

-----------------------------------------------------------------------------
\* The pages of the interpreter.

\* A generated page that is added to the table of a window.
LEMMA WiderTable ==
    ASSUME NEW r \in HDWindow, Paired(r), NEW g \in Gen
    PROVE  LET d == [r EXCEPT !.table = @ \union {g}]
           IN  /\ d \in HDWindow /\ Paired(d) /\ d.page = r.page
               /\ d.table = r.table \union {g}
               /\ Stacked(d) = Stacked(r) /\ (Marks(r) => Marks(d))
               /\ StackGood(r) /\ PageGood(r) => StackGood(d) /\ PageGood(d)
<1> DEFINE d == [r EXCEPT !.table = @ \union {g}]
           mine == r.table \union {g}
<1>1. d = [r EXCEPT !.table = mine] /\ mine \subseteq Gen
    BY DEF HDWindow
<1> HIDE DEF mine, d
<1>2. /\ d.page = r.page /\ d.table = mine /\ d.slots = r.slots
      /\ d.index = r.index /\ d.memo = r.memo /\ d.tops = r.tops
    BY <1>1 DEF HDWindow
<1>3. d \in HDWindow
    BY <1>1 DEF HDWindow
<1>4. Stacked(d) = Stacked(r)
    BY <1>2 DEF Stacked
<1>5. Paired(d) /\ (Marks(r) => Marks(d))
    BY <1>2 DEF Paired, Marks
<1>6. StackGood(r) => StackGood(d)
    BY <1>2, <1>4 DEF StackGood, mine
<1>7. PageGood(r) => PageGood(d)
    BY <1>2, <1>4 DEF PageGood, mine
<1> QED BY <1>2, <1>3, <1>4, <1>5, <1>6, <1>7 DEF d, mine

\* What a window's stacks are when a page for it has come, and was pushed.
LEMMA PageComes ==
    ASSUME NavInv, Running, NEW w \in open, NEW g \in Gen, g \notin Past,
           NEW kind \in {"link", "down", "memo"}
    PROVE  LET r == Push([win[w] EXCEPT !.table = @ \union {g}], kind)
           IN  /\ r \in HDWindow /\ Paired(r) /\ r.table = win[w].table \union {g}
               /\ NoBelow => /\ Marks(r) /\ StackGood(r) /\ ~Below(r)
                             /\ Stacked(r) \subseteq Held(win[w])
                             /\ Held(win[w]) \intersect Gen \subseteq win[w].table
                             /\ g \notin Held(win[w])
<1> DEFINE old == win[w]
           d == [old EXCEPT !.table = @ \union {g}]
           r == Push(d, kind)
<1>1. old \in HDWindow /\ Paired(old) /\ w \in Windows
    BY InvTypes
<1>2. old.table \subseteq Past
    BY <1>1 DEF NavInv, Tables
<1> HIDE DEF old
<1>3. /\ d \in HDWindow /\ Paired(d) /\ d.page = old.page
      /\ d.table = old.table \union {g}
      /\ Stacked(d) = Stacked(old) /\ (Marks(old) => Marks(d))
      /\ StackGood(old) /\ PageGood(old) => StackGood(d) /\ PageGood(d)
    BY <1>1, WiderTable
<1> HIDE DEF d
<1>5. PushGood(d, r)
    BY <1>3, PushIsGood
<1> HIDE DEF r
<1>6. r \in HDWindow /\ Paired(r) /\ r.table = old.table \union {g}
    BY <1>3, <1>5 DEF PushGood
<1>7. ASSUME NoBelow
      PROVE  /\ Marks(r) /\ StackGood(r) /\ ~Below(r)
             /\ Stacked(r) \subseteq Held(old)
             /\ Held(old) \intersect Gen \subseteq old.table
             /\ g \notin Held(old)
    <2>1. Marks(old) /\ StackGood(old) /\ PageGood(old)
        BY <1>7 DEF NavInv, Alive, AliveIn, old
    <2>2. Held(old) \intersect Gen \subseteq old.table /\ Held(old) = Stacked(old) \union {old.page}
        BY <2>1, HeldInTable
    <2>3. Marks(r) /\ ~Below(r) /\ StackGood(r) /\ Stacked(r) \subseteq Stacked(d) \union {d.page}
        BY <1>3, <1>5, <2>1 DEF PushGood
    <2>4. g \notin Held(old)
        BY <1>2, <2>2 DEF old
    <2> QED BY <1>3, <2>2, <2>3, <2>4
<1> QED BY <1>6, <1>7 DEF r, d, old

\* A page that names another one, which is shown instead of it.
LEMMA BridgeStep ==
    ASSUME NavInv, Running, StepTypes, NEW w \in open, NEW g \in Gen, g \notin Past,
           g \in Past', NEW r \in HDWindow, Paired(r), r.table = win[w].table \union {g},
           NoBelow => /\ Marks(r) /\ StackGood(r)
                      /\ Stacked(r) \subseteq Held(win[w])
                      /\ Held(win[w]) \intersect Gen \subseteq win[w].table
                      /\ g \notin Held(win[w]),
           NEW p \in PageIds \ Gen,
           win' = [win EXCEPT ![w] = Display(r, p)], freed' = freed \union {g},
           strays' = strays \union {"bridge"}, gWindow' = w,
           UNCHANGED <<open, made, connected, crash>>
    PROVE  NavInv'
<1> DEFINE d == Display(r, p)
           old == win[w]
<1>1. /\ d \in HDWindow /\ d.links = d.page /\ d.table = r.table
      /\ d.page \in PageIds /\ (d.page = p \/ d.page = "ErrorPage")
      /\ Stacked(d) = Stacked(r) /\ Paired(d)
      /\ Marks(r) => Marks(d)
      /\ StackGood(r) => StackGood(d)
      /\ Held(d) = Stacked(r) \union {d.page}
      /\ PageGood(d)
    BY DisplayGood
<1>2. win' = [win EXCEPT ![w] = d]
    OBVIOUS
<1> HIDE DEF d
<1>3. /\ made \in Windows /\ 1 .. made \subseteq Windows /\ open \subseteq 1 .. made
      /\ w \in Windows /\ gens \in 0 .. MaxGen /\ freed \subseteq Gen /\ NavTypeOK
      /\ open \subseteq Windows /\ w \in 1 .. made
    BY InvTypes
<1>4. Past \subseteq Past' /\ Past' \subseteq Gen
    BY <1>3, PastGrows DEF StepTypes
<1>5. /\ win \in [Windows -> HDWindow]
      /\ \A v, x \in Windows : v # x => win[v].table \intersect win[x].table = {}
      /\ \A v \in Windows : /\ Paired(win[v]) /\ win[v].links = win[v].page
                            /\ win[v].table \subseteq Past
                            /\ v > made => win[v].table = {}
    BY DEF NavInv, Tables
<1>6. win'[w] = d /\ \A v \in Windows \ {w} : win'[v] = win[v]
    BY <1>2, <1>3, <1>5
<1>7. win' \in [Windows -> HDWindow]
    BY <1>1, <1>2, <1>5
<1>8. (NoBelow' <=> NoBelow) /\ d.table = old.table \union {g}
    BY <1>1 DEF NoBelow
<1>9. NavTypeOK'
    <2>1. \A x \in Windows : x \in 0 .. MaxWindow
        BY NavConstants DEF Windows
    <2>2. \A v \in Windows : win'[v] \in HDWindow
        BY <1>7
    <2> QED BY <1>3, <2>1, <2>2 DEF NavTypeOK, StepTypes
<1>10. FreedOnce' /\ NoNullFollowed'
    BY DEF FreedOnce, NoNullFollowed
<1>11. Tables'
    <2>1. ~(w > made)
        BY <1>3, NavConstants DEF Windows
    <2>2. ASSUME NEW v \in Windows
          PROVE  /\ Paired(win[v])' /\ win'[v].links = win'[v].page
                 /\ win'[v].table \subseteq Past'
                 /\ v > made' => win'[v].table = {}
        <3>1. Paired(win[v])' <=> Paired(win'[v])
            BY DEF Paired
        <3>2. CASE v = w
            BY <1>1, <1>4, <1>5, <1>6, <1>8, <2>1, <3>1, <3>2
        <3>3. CASE v # w
            BY <1>4, <1>5, <1>6, <3>1, <3>3
        <3> QED BY <3>2, <3>3
    <2>3. \A v \in Windows : v # w => win[v].table \intersect d.table = {}
        BY <1>3, <1>5, <1>8
    <2>4. ASSUME NEW v \in Windows, NEW x \in Windows, v # x
          PROVE  win'[v].table \intersect win'[x].table = {}
        <3>1. CASE v = w
            BY <1>6, <2>3, <2>4, <3>1
        <3>2. CASE x = w
            BY <1>6, <2>3, <2>4, <3>2
        <3>3. CASE v # w /\ x # w
            BY <1>5, <1>6, <2>4, <3>3
        <3> QED BY <3>1, <3>2, <3>3
    <2> QED BY <1>7, <2>2, <2>4 DEF Tables
<1>12. Freeing'
    <2>1. Main \in open /\ \A v \in (1 .. made) \ open : win[v].table \subseteq freed
        BY DEF NavInv, Freeing
    <2>2. \A v \in (1 .. made) \ open : v \in Windows \ {w}
        BY <1>3
    <2>3. \A v \in (1 .. made') \ open' : win'[v].table \subseteq freed'
        BY <1>6, <2>1, <2>2
    <2>4. NoBelow' => freed' \subseteq Past'
        BY <1>4, <1>8 DEF NavInv, Freeing
    <2> QED BY <2>1, <2>3, <2>4 DEF Freeing
<1>13. ASSUME NoBelow', NEW v \in open PROVE AliveIn(v)'
    <2>1. AliveIn(v) /\ AliveIn(w) /\ "bridge" \in strays' /\ v \in Windows
        BY <1>3, <1>8, <1>13 DEF NavInv, Alive
    <2>2. /\ Marks(win[v])' <=> Marks(win'[v])
          /\ StackGood(win[v])' <=> StackGood(win'[v])
          /\ PageGood(win[v])' <=> PageGood(win'[v])
          /\ Held(win[v])' = Held(win'[v])
        BY DEF Marks, StackGood, PageGood, Stacked, Held
    <2>3. CASE v = w
        <3>1. Marks(d) /\ StackGood(d) /\ PageGood(d)
            BY <1>1, <1>8, <1>13
        <3>2. ASSUME NEW x \in Held(d), x \in freed' PROVE FALSE
            <4>1. x \in Gen
                BY <1>3, <3>2
            <4>2. x \in Held(old)
                BY <1>1, <1>8, <1>13, <3>2, <4>1, NavConstants
            <4> QED BY <1>8, <1>13, <2>1, <3>2, <4>2 DEF AliveIn
        <3> QED BY <1>6, <2>1, <2>2, <2>3, <3>1, <3>2 DEF AliveIn
    <2>4. CASE v # w
        <3>1. Held(win[v]) \intersect Gen \subseteq win[v].table
            BY <2>1, HeldInTable DEF AliveIn
        <3>2. g \notin Held(win[v])
            BY <1>5, <2>1, <3>1
        <3>3. win'[v] = win[v]
            BY <1>6, <2>1, <2>4
        <3> QED BY <2>1, <2>2, <3>2, <3>3 DEF AliveIn
    <2> QED BY <2>3, <2>4
<1>14. Alive'
    BY <1>13 DEF Alive
<1> QED BY <1>9, <1>10, <1>11, <1>12, <1>14 DEF NavInv, PointersAreGood

\* A page that Lisp sends keeps the invariant.
LEMMA ServerStep ==
    ASSUME NavInv, Running, NEW w \in open, NEW kind \in {"link", "down", "memo"},
           ServerPage(w, kind), saved' = saved, events' \in 0 .. MaxEvents
    PROVE  NavInv'
<1> DEFINE g == Generated[gens + 1]
           d == [win[w] EXCEPT !.table = @ \union {g}]
           r == Push(d, kind)
           old == win[w]
<1>1. gens \in 0 .. MaxGen /\ NavTypeOK
    BY InvTypes
<1>2. gens < MaxGen /\ gens' = gens + 1
    BY DEF ServerPage
<1>3. /\ g \in Gen /\ g \notin Past /\ g \in Past'
      /\ gens' \in 0 .. MaxGen /\ gens <= gens'
    BY <1>1, <1>2, NextPage
<1>4. StepTypes
    BY <1>1, <1>3 DEF StepTypes, NavTypeOK
<1> DEFINE show == ShowIn(w, r, g, <<>>)
           bridge(p) == /\ win' = [win EXCEPT ![w] = Display(r, p)]
                        /\ freed' = freed \union {g}
                        /\ strays' = strays \union {"bridge"}
                        /\ gWindow' = w
                        /\ UNCHANGED <<open, made, connected, crash>>
<1>5. show \/ \E p \in Static \ {Bad} : bridge(p)
    BY DEF ServerPage
<1> HIDE DEF g
<1>6. /\ r \in HDWindow /\ Paired(r) /\ r.table = old.table \union {g}
      /\ NoBelow => /\ Marks(r) /\ StackGood(r) /\ ~Below(r)
                    /\ Stacked(r) \subseteq Held(old)
                    /\ Held(old) \intersect Gen \subseteq old.table
                    /\ g \notin Held(old)
    BY <1>3, PageComes
<1> HIDE DEF r, d
<1>7. CASE show
    <2>1. Range(<<>>) = {} /\ DOMAIN <<>> = {}
        BY DEF Range
    <2>2. /\ g \in PageIds /\ {g} \intersect Past = {} /\ {g} \subseteq Gen
          /\ r.table = (old.table \ Range(<<>>)) \union {g}
          /\ g \in r.table
        BY <1>3, <1>6, <2>1, NavConstants
    <2>3. NoBelow => /\ g \notin Stacked(r)
                     /\ (Stacked(r) \union {g}) \intersect Gen \subseteq Held(old) \union {g}
        BY <1>6
    <2> HIDE DEF old
    <2>4. old = win[w]
        BY DEF old
    <2>5. ShowGood(w, r, g, <<>>, {g})
        BY <1>6, <2>1, <2>2, <2>3, <2>4 DEF ShowGood
    <2>6. {g} \subseteq Past'
        BY <1>3
    <2> QED BY <1>4, <1>7, <2>5, <2>6, ShowStep
<1>8. ASSUME NEW p \in Static \ {Bad}, bridge(p) PROVE NavInv'
    <2>1. p \in PageIds \ Gen
        BY NavConstants
    <2> QED BY <1>3, <1>4, <1>6, <1>8, <2>1, BridgeStep
<1> QED BY <1>5, <1>7, <1>8

-----------------------------------------------------------------------------
\* The invariant holds of the first window.
LEMMA NavInitial == NavInit => NavInv
<1> SUFFICES ASSUME NavInit PROVE NavInv
    OBVIOUS
<1> DEFINE d == NewWindow("Root")
<1>1. /\ d \in HDWindow /\ d.table = {} /\ d.page = "Root" /\ d.links = "Root"
      /\ Marks(d) /\ Stacked(d) = {}
    BY NavConstants, NewWindowGood
<1>2. d.memo = <<>> /\ d.tops = <<>> /\ d.index = 0
    BY DEF NewWindow
<1> HIDE DEF d
<1>3. /\ win = [w \in Windows |-> d] /\ open = {Main} /\ gWindow = Main /\ made = 1
      /\ gens = 0 /\ saved = Null /\ freed = {} /\ connected \in BOOLEAN
      /\ crash = "no" /\ strays = {} /\ events = 0
    BY DEF NavInit, d
<1>4. \A w \in Windows : win[w] = d
    BY <1>3
<1>5. NavTypeOK
    <2>1. /\ 1 .. 1 = {1} /\ 1 \in Windows /\ 1 \in 0 .. MaxWindow
          /\ 0 \in 0 .. MaxGen /\ 0 \in 0 .. MaxEvents
        BY NavConstants DEF Windows
    <2> QED BY <1>1, <1>3, <1>4, <2>1 DEF NavTypeOK, Main
<1>6. FreedOnce /\ NoNullFollowed
    BY <1>3 DEF FreedOnce, NoNullFollowed
<1>7. Tables
    <2>1. Paired(d)
        BY <1>2 DEF Paired
    <2>2. \A w \in Windows : Paired(win[w])
        BY <1>4, <2>1
    <2> QED BY <1>1, <1>3, <1>4, <2>2 DEF Tables
<1>8. Freeing
    <2>1. (1 .. made) \ open = {}
        BY <1>3 DEF Main
    <2> QED BY <1>3, <2>1 DEF Freeing
<1>9. Alive
    <2>1. win[Main] = d
        BY <1>4, NavConstants
    <2>2. /\ DOMAIN d.memo = {} /\ 1 .. d.index = {}
        BY <1>2
    <2>3. StackGood(d)
        BY <1>1, <2>2 DEF StackGood
    <2>4. PageGood(d)
        BY <1>1, NavConstants DEF PageGood
    <2>5. AliveIn(Main)
        BY <1>1, <1>3, <2>1, <2>3, <2>4 DEF AliveIn
    <2> QED BY <1>3, <2>5 DEF Alive
<1> QED BY <1>5, <1>6, <1>7, <1>8, <1>9 DEF NavInv, PointersAreGood

\* A button of the database's pages, in a window.
LEMMA ButtonStep ==
    ASSUME NavInv, NEW w \in Windows, NEW p \in Targets, events' \in 0 .. MaxEvents,
           Link(w, p) \/ PressDownlink(w, p) \/ PressMemolink(w, p)
           \/ PressWindowlink(w, p) \/ ReplaceNamedPage(w, p)
    PROVE  NavInv'
<1>1. Running /\ w \in open /\ gens' = gens /\ saved' = saved
    BY DEF Link, PressDownlink, PressMemolink, PressWindowlink, ReplaceNamedPage
<1>2. /\ win[w] \in HDWindow /\ Paired(win[w]) /\ NavTypeOK
    BY InvTypes
<1>3. StepTypes
    BY <1>1, InvTypes DEF StepTypes, NavTypeOK
<1>4. p \notin Gen
    BY NavConstants
<1>5. /\ PushGood(win[w], win[w]) /\ PushGood(win[w], Downlink(win[w]))
      /\ PushGood(win[w], Memolink(win[w]))
    BY <1>2, PushIsGood
<1>6. CASE Link(w, p)
    BY <1>1, <1>3, <1>4, <1>5, <1>6, SettleStep DEF Link
<1>7. CASE PressDownlink(w, p)
    <2> DEFINE r == IF NotSpecial(p) THEN Downlink(win[w]) ELSE win[w]
    <2>1. /\ PushGood(win[w], r)
          /\ p \in {"UpPage", "ReturnPage", "UnknownPage"} => r = win[w]
        BY <1>5 DEF NotSpecial, Special
    <2>2. Settle(w, r, p, <<>>)
        BY <1>7 DEF PressDownlink
    <2> HIDE DEF r
    <2> QED BY <1>1, <1>3, <1>4, <2>1, <2>2, SettleStep
<1>8. CASE PressMemolink(w, p)
    <2> DEFINE r == IF NotSpecial(p) THEN Memolink(win[w]) ELSE win[w]
    <2>1. /\ PushGood(win[w], r)
          /\ p \in {"UpPage", "ReturnPage", "UnknownPage"} => r = win[w]
        BY <1>5 DEF NotSpecial, Special
    <2>2. Settle(w, r, p, <<>>)
        BY <1>8 DEF PressMemolink
    <2> HIDE DEF r
    <2> QED BY <1>1, <1>3, <1>4, <2>1, <2>2, SettleStep
<1>9. CASE PressWindowlink(w, p)
    <2>1. p \in PageIds /\ OpenWindow(p, {}) /\ {} \intersect Past = {} /\ {} \subseteq Past'
        BY <1>9, NavConstants DEF PressWindowlink, MakeWindowLink
    <2>2. {} \in SUBSET Gen
        OBVIOUS
    <2> QED BY <1>1, <1>3, <1>4, <2>1, <2>2, OpenStep
<1>10. CASE ReplaceNamedPage(w, p)
    <2>1. p \in PageIds \ Gen /\ ShowIn(w, win[w], p, <<>>)
        BY <1>4, <1>10, NavConstants DEF ReplaceNamedPage
    <2> QED BY <1>1, <1>3, <1>5, <2>1, ShowStatic
<1> QED BY <1>6, <1>7, <1>8, <1>9, <1>10

\* Going back, by an uplink or a return, keeps the invariant.
LEMMA BackStep ==
    ASSUME NavInv, NEW w \in Windows, NEW up \in BOOLEAN, events' \in 0 .. MaxEvents,
           PressBack(w, up)
    PROVE  NavInv'
<1> DEFINE back == IF up THEN Uplink(win[w]) ELSE Returnlink(win[w])
<1>1. /\ Running /\ w \in open /\ gens' = gens /\ saved' = saved
      /\ IF back.page = Null THEN Leave(w)
         ELSE ShowIn(w, back.win, back.page, back.killed)
    BY DEF PressBack
<1>2. back \in {Uplink(win[w]), Returnlink(win[w])}
    OBVIOUS
<1>3. NavTypeOK
    BY InvTypes
<1>4. StepTypes
    BY <1>1, InvTypes DEF StepTypes, NavTypeOK
<1> HIDE DEF back
<1>5. CASE back.page = Null
    <2>1. w \in 0 .. MaxWindow
        BY NavConstants DEF Windows
    <2>2. /\ UNCHANGED <<win, made, gens, freed, connected, open, strays>>
          /\ gWindow' = w /\ crash' = "no"
        BY <1>1, <1>5 DEF Leave, Running
    <2>3. strays' \subseteq {"offline", "top", "unparsable", "bridge", "paste", "below"}
        BY <1>3, <2>2 DEF NavTypeOK
    <2> QED BY <1>1, <1>4, <2>1, <2>2, <2>3, Unmoved
<1>6. CASE back.page # Null
    BY <1>1, <1>2, <1>4, <1>6, ShowBack
<1> QED BY <1>5, <1>6

\* Closing a window, and the selection that is asked for and comes.
LEMMA CloseStep ==
    ASSUME NavInv, NEW w \in Windows, events' \in 0 .. MaxEvents,
           Quit(w) \/ PressCommandQuit(w) \/ KillPage(w) \/ AskSelection(w)
           \/ SelectionNotify
    PROVE  NavInv'
<1>1. NavTypeOK /\ \A v \in open : win[v] \in HDWindow /\ Paired(win[v])
    BY InvTypes
<1>2. Running /\ gens' = gens
    BY DEF Quit, PressCommandQuit, KillPage, AskSelection, SelectionNotify
<1>3. saved' \in PageIds \union {Null}
    <2>1. AskSelection(w) => saved' \in PageIds
        BY <1>1, <1>2 DEF AskSelection, HDWindow
    <2> QED BY <1>1, <2>1 DEF NavTypeOK, Quit, PressCommandQuit, KillPage, SelectionNotify
<1>4. StepTypes
    BY <1>2, <1>3, InvTypes DEF StepTypes, NavTypeOK
<1>5. Main \in open
    BY <1>2 DEF NavInv, Freeing
<1>6. /\ w \in 0 .. MaxWindow /\ 0 \in 0 .. MaxWindow /\ gWindow \in 0 .. MaxWindow
      /\ strays \subseteq {"offline", "top", "unparsable", "bridge", "paste", "below"}
    BY InvTypes DEF NavTypeOK
<1>7. CASE Quit(w)
    <2> DEFINE v == SetWindow(w)
    <2>1. v \in open
        BY <1>5 DEF SetWindow
    <2>2. \/ ShowIn(v, Downlink(win[v]), "ProtectedQuitPage", <<>>)
          \/ ExitHyperDoc(v)
        BY <1>7 DEF Quit
    <2> HIDE DEF v
    <2>3. PushGood(win[v], Downlink(win[v]))
        BY <1>1, <2>1, PushIsGood
    <2>4. "ProtectedQuitPage" \in PageIds \ Gen
        BY NavConstants
    <2> QED BY <1>2, <1>4, <2>1, <2>2, <2>3, <2>4, ExitStep, ShowStatic
<1>8. CASE PressCommandQuit(w)
    <2>1. CASE connected \/ w = Main
        BY <1>2, <1>4, <1>8, <2>1, ExitStep DEF PressCommandQuit
    <2>2. CASE ~(connected \/ w = Main)
        <3>1. /\ open' = open \ {w} /\ gWindow' = 0 /\ crash' = "null window"
              /\ strays' = strays \union {"offline"}
              /\ UNCHANGED <<win, made, gens, freed, connected>>
            BY <1>8, <2>2 DEF PressCommandQuit
        <3>2. ~Running'
            BY <3>1 DEF Running
        <3>3. strays' \subseteq {"offline", "top", "unparsable", "bridge", "paste", "below"}
            BY <1>6, <3>1
        <3> QED BY <1>2, <1>4, <1>6, <3>1, <3>2, <3>3, Unmoved
    <2> QED BY <2>1, <2>2
<1>9. CASE KillPage(w)
    BY <1>2, <1>4, <1>9, ExitStep DEF KillPage
<1>10. CASE AskSelection(w)
    <2>1. /\ gWindow' = w /\ crash' = "no" /\ UNCHANGED <<open, strays>>
          /\ UNCHANGED <<win, made, gens, freed, connected>>
        BY <1>2, <1>10 DEF AskSelection, Running
    <2> QED BY <1>2, <1>4, <1>6, <2>1, Unmoved
<1>11. CASE SelectionNotify
    <2>1. UNCHANGED <<win, open, gWindow, made, gens, freed, connected>>
        BY <1>11 DEF SelectionNotify
    <2>2. \/ crash' = "no" /\ strays' = strays
          \/ crash' = "freed write" /\ strays' = strays \union {"paste"}
        BY <1>2, <1>11 DEF SelectionNotify, Running
    <2>3. strays \subseteq strays'
          /\ strays' \subseteq {"offline", "top", "unparsable", "bridge", "paste", "below"}
        BY <1>6, <2>2
    <2> QED BY <1>2, <1>4, <1>6, <2>1, <2>2, <2>3, Unmoved
<1> QED BY <1>7, <1>8, <1>9, <1>10, <1>11

\* Pages that the interpreter sends, and windows that it opens.
LEMMA InterpreterStep ==
    ASSUME NavInv, events' \in 0 .. MaxEvents,
           \/ \E w \in Windows : ReplacePage(w)
           \/ \E w \in Windows, kind \in {"link", "down", "memo"} : PressServerLink(w, kind)
           \/ OpenGenerated
           \/ \E p \in Static : OpenNamed(p)
    PROVE  NavInv'
<1>1. NavTypeOK /\ \A v \in open : win[v] \in HDWindow /\ Paired(win[v])
    BY InvTypes
<1>2. Running /\ saved' = saved
    BY DEF ReplacePage, PressServerLink, OpenGenerated, OpenNamed
<1>3. Main \in open
    BY <1>2 DEF NavInv, Freeing
<1>4. gens' = gens => StepTypes
    BY <1>2, InvTypes DEF StepTypes, NavTypeOK
<1>5. ASSUME NEW w \in Windows, ReplacePage(w) PROVE NavInv'
    <2>1. SetWindow(w) \in open
        BY <1>3 DEF SetWindow
    <2>2. ServerPage(SetWindow(w), "link")
        BY <1>5 DEF ReplacePage
    <2> QED BY <1>2, <2>1, <2>2, ServerStep
<1>6. ASSUME NEW w \in Windows, NEW kind \in {"link", "down", "memo"},
             PressServerLink(w, kind)
      PROVE  NavInv'
    <2>1. w \in open /\ (ServerPage(w, kind)
                         \/ (ShowIn(w, Push(win[w], kind), "Root", <<>>) /\ gens' = gens))
        BY <1>6 DEF PressServerLink
    <2>2. CASE ServerPage(w, kind)
        BY <1>2, <2>1, <2>2, ServerStep
    <2>3. CASE ShowIn(w, Push(win[w], kind), "Root", <<>>) /\ gens' = gens
        <3>1. PushGood(win[w], Push(win[w], kind))
            BY <1>1, <2>1, PushIsGood
        <3>2. "Root" \in PageIds \ Gen
            BY NavConstants
        <3> QED BY <1>2, <1>4, <2>1, <2>3, <3>1, <3>2, ShowStatic
    <2> QED BY <2>1, <2>2, <2>3
<1>7. CASE OpenGenerated
    <2> DEFINE g == Generated[gens + 1]
    <2>1. gens < MaxGen /\ gens' = gens + 1 /\ OpenWindow(g, {g})
        BY <1>7 DEF OpenGenerated
    <2>2. /\ g \in Gen /\ g \notin Past /\ g \in Past'
          /\ gens' \in 0 .. MaxGen /\ gens <= gens'
        BY <1>1, <2>1, NextPage DEF NavTypeOK
    <2>3. StepTypes
        BY <1>1, <1>2, <2>2 DEF StepTypes, NavTypeOK
    <2> HIDE DEF g
    <2>4. /\ g \in PageIds /\ {g} \in SUBSET Gen /\ {g} \intersect Past = {}
          /\ {g} \subseteq Past' /\ g \in {g}
        BY <2>2, NavConstants
    <2> QED BY <1>2, <2>1, <2>3, <2>4, OpenStep
<1>8. ASSUME NEW p \in Static, OpenNamed(p) PROVE NavInv'
    <2>1. /\ p \in PageIds /\ p \notin Gen /\ OpenWindow(p, {}) /\ gens' = gens
          /\ {} \in SUBSET Gen /\ {} \intersect Past = {} /\ {} \subseteq Past'
        BY <1>8, NavConstants DEF OpenNamed, MakeWindowLink
    <2> QED BY <1>2, <1>4, <2>1, OpenStep
<1> QED BY <1>5, <1>6, <1>7, <1>8

-----------------------------------------------------------------------------
\* The invariant holds in every state that HyperDoc reaches.
THEOREM NavInvariant == NavSpec => []NavInv
<1>1. NavInit => NavInv
    BY NavInitial
<1>2. NavInv /\ [NavNext]_navVars => NavInv'
    <2> SUFFICES ASSUME NavInv, [NavNext]_navVars PROVE NavInv'
        OBVIOUS
    <2>1. CASE NavNext
        <3>1. Event /\ events' \in 0 .. MaxEvents
            <4>1. events \in 0 .. MaxEvents
                BY InvTypes DEF NavTypeOK
            <4> QED BY <2>1, <4>1, NavConstants DEF NavNext
        <3>2. \/ \E w \in Windows, p \in Targets :
                   Link(w, p) \/ PressDownlink(w, p) \/ PressMemolink(w, p)
                   \/ PressWindowlink(w, p) \/ ReplaceNamedPage(w, p)
              \/ \E w \in Windows, up \in BOOLEAN : PressBack(w, up)
              \/ \E w \in Windows : Quit(w) \/ PressCommandQuit(w) \/ KillPage(w)
                                    \/ AskSelection(w) \/ SelectionNotify
              \/ \/ \E w \in Windows : ReplacePage(w)
                 \/ \E w \in Windows, kind \in {"link", "down", "memo"} :
                      PressServerLink(w, kind)
                 \/ OpenGenerated
                 \/ \E p \in Static : OpenNamed(p)
            BY <3>1, NavConstants DEF Event, GetNewWindow
        <3> QED BY <3>1, <3>2, ButtonStep, BackStep, CloseStep, InterpreterStep
    <2>2. CASE UNCHANGED navVars
        <3>1. PointersAreGood'
            BY <2>2 DEF navVars, NavInv, PointersAreGood, NavTypeOK, FreedOnce, NoNullFollowed
        <3>2. Past' = Past /\ (Running' <=> Running) /\ (NoBelow' <=> NoBelow)
            BY <2>2 DEF navVars, Past, Running, NoBelow
        <3>3. Tables' /\ Freeing'
            BY <2>2, <3>2 DEF navVars, NavInv, Tables, Freeing, Paired
        <3>4. ASSUME NoBelow', NEW w \in open' PROVE AliveIn(w)'
            <4>1. AliveIn(w)
                BY <2>2, <3>2, <3>4 DEF navVars, NavInv, Alive
            <4>2. /\ Marks(win[w])' <=> Marks(win[w])
                  /\ StackGood(win[w])' <=> StackGood(win[w])
                  /\ PageGood(win[w])' <=> PageGood(win[w])
                  /\ Held(win[w])' = Held(win[w])
                BY <2>2 DEF navVars, Marks, StackGood, PageGood, Stacked, Held
            <4> QED BY <2>2, <3>2, <4>1, <4>2 DEF navVars, AliveIn
        <3> QED BY <3>1, <3>3, <3>4 DEF NavInv, Alive
    <2> QED BY <2>1, <2>2
<1> QED BY <1>1, <1>2, PTL DEF NavSpec

\* No generated page is freed twice, and no null pointer is followed, outside
\* the ways there that `strays' names: handle_button, killPage and
\* exitHyperDoc, in any order of buttons, requests and windows closed.
THEOREM PointersAlwaysGood == NavSpec => []PointersAreGood
<1>1. NavInv => PointersAreGood
    BY DEF NavInv
<1> QED BY <1>1, NavInvariant, PTL

\* What a window shows and what Up and Return bring back in it was not freed,
\* clicks are looked up in the links of the page that is shown, and closed
\* windows have taken their pages with them.
THEOREM WindowsAlwaysHoldLivePages == NavSpec => []WindowsHoldLivePages
<1>1. NavInv => WindowsHoldLivePages
    <2> SUFFICES ASSUME NavInv PROVE WindowsHoldLivePages
        OBVIOUS
    <2>1. NothingFreedIsHeldAboveMark
        BY DEF NavInv, Alive, AliveIn, NoBelow, NothingFreedIsHeldAboveMark, NothingFreedIsHeld
    <2>2. MarksWithinStack
        <3> SUFFICES ASSUME NoBelow, NEW w \in open
                     PROVE  /\ Len(win[w].tops) = Len(win[w].memo)
                            /\ \A i \in DOMAIN win[w].tops :
                                 /\ win[w].tops[i] <= win[w].index
                                 /\ i > 1 => win[w].tops[i - 1] <= win[w].tops[i]
            BY DEF MarksWithinStack, NoBelow
        <3>1. Marks(win[w])
            BY DEF NavInv, Alive, AliveIn
        <3>2. win[w] \in HDWindow
            BY InvTypes
        <3>3. DOMAIN win[w].tops = 1 .. Len(win[w].tops) /\ Len(win[w].tops) \in Nat
            BY <3>2 DEF HDWindow
        <3>4. \A i \in DOMAIN win[w].tops :
                i > 1 => i - 1 \in DOMAIN win[w].tops /\ i - 1 <= i
            BY <3>3
        <3> QED BY <3>1, <3>4 DEF Marks
    <2>3. LinksOfShown
        BY InvTypes DEF NavInv, Tables, LinksOfShown
    <2>4. ClosedIsFreed
        BY DEF NavInv, Freeing, ClosedIsFreed
    <2> QED BY <2>1, <2>2, <2>3, <2>4 DEF WindowsHoldLivePages
<1> QED BY <1>1, NavInvariant, PTL

-----------------------------------------------------------------------------
(* The hash tables. *)


Chained == [Chains -> Seq(HashEntry)]
All(T) == UNION {Range(T[c]) : c \in Chains}

\* A chain in which n is greater than the number of every entry.
Sorted(chain, c, n) ==
    /\ \A i \in DOMAIN chain : Index(chain[i].key) = c /\ chain[i].at < n
    /\ \A i, j \in DOMAIN chain : i < j => chain[j].at < chain[i].at

-----------------------------------------------------------------------------
\* A plain key has a chain.
LEMMA IndexType ==
  ASSUME NEW k \in Key
  PROVE  Code[k] >= 0 => Index(k) \in Chains
<1> SUFFICES ASSUME Code[k] >= 0 PROVE Index(k) \in Chains
  OBVIOUS
<1>1. Code[k] \in Int /\ Size \in Nat \ {0}
  BY HashAssumption
<1>2. \A a \in Nat : a % Size \in 0 .. Size - 1
  BY <1>1
<1>3. hash_code(k) \in 0 .. Size - 1
  BY <1>1, <1>2 DEF hash_code, Remainder
<1> QED BY <1>1, <1>2, <1>3 DEF Index, Remainder, Chains

\* What is in a chain.
LEMMA EntryTypes ==
  ASSUME NEW chain \in Seq(HashEntry), NEW i \in DOMAIN chain
  PROVE  /\ i \in 1 .. Len(chain) /\ i \in Nat /\ chain[i] \in HashEntry
         /\ chain[i].key \in Key /\ chain[i].data \in Data /\ chain[i].at \in Nat
<1>1. Len(chain) \in Nat /\ DOMAIN chain = 1 .. Len(chain)
  OBVIOUS
<1>2. chain[i] \in HashEntry
  OBVIOUS
<1> QED BY <1>1, <1>2 DEF HashEntry

\* The entries of a sorted chain differ.
LEMMA SortedIsInjective ==
  ASSUME NEW chain \in Seq(HashEntry), NEW c, NEW n, Sorted(chain, c, n)
  PROVE  \A i, j \in DOMAIN chain : chain[i].at = chain[j].at => i = j
<1> SUFFICES ASSUME NEW i \in DOMAIN chain, NEW j \in DOMAIN chain,
                    chain[i].at = chain[j].at
             PROVE  i = j
  OBVIOUS
<1>1. i \in Nat /\ j \in Nat /\ chain[i].at \in Nat /\ chain[j].at \in Nat
  BY EntryTypes
<1>2. i < j \/ i = j \/ j < i
  BY <1>1
<1> QED BY <1>1, <1>2 DEF Sorted

\* The first match is there if there is a match.
LEMMA FirstMatches ==
  ASSUME NEW chain \in Seq(HashEntry), NEW k, Matches(chain, k) # {}
  PROVE  /\ First(chain, k) \in Matches(chain, k)
         /\ First(chain, k) \in DOMAIN chain /\ chain[First(chain, k)].key = k
         /\ \A j \in Matches(chain, k) : First(chain, k) <= j
<1>1. Matches(chain, k) \in SUBSET Nat
  BY DEF Matches
<1>2. \E i \in Matches(chain, k) : \A j \in Matches(chain, k) : i <= j
  BY <1>1, LeastElement
<1> QED BY <1>2 DEF First, Matches

\* TableEntries for a key are in the chain of the key.
LEMMA OwnChain ==
  ASSUME NEW T \in Chained, NEW n, \A c \in Chains : Sorted(T[c], c, n),
         NEW k \in Key, Index(k) \in Chains, NEW e
  PROVE  e \in All(T) /\ e.key = k <=>
           \E i \in Matches(T[Index(k)], k) : e = T[Index(k)][i]
<1>1. ASSUME e \in All(T), e.key = k
      PROVE  \E i \in Matches(T[Index(k)], k) : e = T[Index(k)][i]
  <2>1. PICK c \in Chains : \E i \in DOMAIN T[c] : e = T[c][i]
    BY <1>1 DEF All, Range
  <2>2. PICK i \in DOMAIN T[c] : e = T[c][i]
    BY <2>1
  <2>3. Index(e.key) = c
    BY <2>2 DEF Sorted
  <2> QED BY <1>1, <2>2, <2>3 DEF Matches
<1>2. ASSUME NEW i \in Matches(T[Index(k)], k), e = T[Index(k)][i]
      PROVE  e \in All(T) /\ e.key = k
  BY <1>2 DEF Matches, All, Range
<1> QED BY <1>1, <1>2

\* hash_find finds the definition that counts.
LEMMA LookupIsFirst ==
  ASSUME NEW T \in Chained, NEW n, \A c \in Chains : Sorted(T[c], c, n),
         NEW k \in Key, Index(k) \in Chains
  PROVE  Dictionaries!Lookup(All(T), k) =
           IF Matches(T[Index(k)], k) = {} THEN {}
           ELSE {T[Index(k)][First(T[Index(k)], k)]}
<1> DEFINE chain == T[Index(k)]
           S == Dictionaries!Of(All(T), k)
<1>1. chain \in Seq(HashEntry) /\ Sorted(chain, Index(k), n)
  BY DEF Chained
<1>2. \A e : e \in S <=> \E i \in Matches(chain, k) : e = chain[i]
  BY OwnChain DEF Dictionaries!Of
<1> HIDE DEF chain, S
<1>3. CASE Matches(chain, k) = {}
  <2>1. S = {}
    BY <1>2, <1>3
  <2> QED BY <1>3, <2>1 DEF Dictionaries!Lookup, S, chain
<1>4. CASE Matches(chain, k) # {}
  <2> DEFINE m == First(chain, k)
  <2>1. m \in Matches(chain, k) /\ \A j \in Matches(chain, k) : m <= j
    BY <1>1, <1>4, FirstMatches
  <2>2. \A j \in Matches(chain, k) : j \in DOMAIN chain /\ j \in Nat /\ chain[j].at \in Nat
    BY <1>1, EntryTypes DEF Matches
  <2> HIDE DEF m
  <2>3. \A j \in Matches(chain, k) : j # m => chain[j].at < chain[m].at
    BY <1>1, <2>1, <2>2 DEF Sorted
  <2>4. chain[m] \in S /\ \A f \in S : f.at <= chain[m].at
    BY <1>2, <2>1, <2>2, <2>3
  <2>5. \A e \in S : (\A f \in S : f.at <= e.at) => e = chain[m]
    <3> SUFFICES ASSUME NEW e \in S, \A f \in S : f.at <= e.at
                 PROVE  e = chain[m]
      OBVIOUS
    <3>1. PICK j \in Matches(chain, k) : e = chain[j]
      BY <1>2
    <3>2. chain[m].at <= chain[j].at
      BY <2>4, <3>1
    <3> QED BY <2>1, <2>2, <2>3, <3>1, <3>2
  <2>6. Dictionaries!Newest(All(T), k) = chain[m]
    BY <2>4, <2>5 DEF Dictionaries!Newest, S
  <2> QED BY <1>4, <2>4, <2>6 DEF Dictionaries!Lookup, S, chain, m
<1> QED BY <1>3, <1>4 DEF chain

-----------------------------------------------------------------------------
\* Tables whose chains are sorted.
SortedTable(T, n) == T \in Chained /\ n \in Nat /\ \A c \in Chains : Sorted(T[c], c, n)

\* Where an entry is.
LEMMA InAll ==
  ASSUME NEW T \in Chained, NEW e
  PROVE  e \in All(T) <=> \E b \in Chains : \E i \in DOMAIN T[b] : e = T[b][i]
BY DEF All, Range

\* An entry is in one chain only, and once.
LEMMA OnePlace ==
  ASSUME NEW T, NEW n, SortedTable(T, n),
         NEW b \in Chains, NEW c \in Chains, NEW i \in DOMAIN T[b], NEW j \in DOMAIN T[c],
         T[b][i] = T[c][j]
  PROVE  b = c /\ i = j
<1>1. b = c
  BY DEF SortedTable, Sorted
<1>2. T[b] \in Seq(HashEntry) /\ Sorted(T[b], b, n)
  BY DEF SortedTable, Chained
<1>3. \A p, q \in DOMAIN T[b] : T[b][p].at = T[b][q].at => p = q
  BY <1>2, SortedIsInjective
<1> QED BY <1>1, <1>3

\* hash_insert puts one entry more into the table.
LEMMA InsertIsSound ==
  ASSUME NEW T, NEW n, SortedTable(T, n), NEW e \in HashEntry, e.at = n,
         Index(e.key) \in Chains
  PROVE  LET U == [T EXCEPT ![Index(e.key)] = <<e>> \o @]
         IN  /\ SortedTable(U, n + 1)
             /\ All(U) = All(T) \union {e} /\ e \notin All(T)
<1> DEFINE c == Index(e.key)
           chain == T[c]
           new == <<e>> \o chain
           U == [T EXCEPT ![c] = <<e>> \o @]
<1>1. T \in Chained /\ n \in Nat /\ c \in Chains /\ chain \in Seq(HashEntry)
  BY DEF SortedTable, Chained
<1> HIDE DEF c
<1>2. /\ new \in Seq(HashEntry) /\ Len(chain) \in Nat /\ DOMAIN chain = 1..Len(chain)
      /\ DOMAIN new = 1..(Len(chain) + 1)
      /\ \A j \in 1..(Len(chain) + 1) : new[j] = IF j = 1 THEN e ELSE chain[j - 1]
  BY <1>1, FrontItems
<1> HIDE DEF new, chain
<1>3. U \in Chained /\ U[c] = new /\ \A b \in Chains \ {c} : U[b] = T[b]
  BY <1>1, <1>2 DEF Chained, new, chain
<1> HIDE DEF U
<1>4. Sorted(chain, c, n) /\ \A b \in Chains : Sorted(T[b], b, n)
  BY <1>1 DEF SortedTable, chain
<1>5. \A i \in DOMAIN chain : chain[i].at < n /\ chain[i].at \in Nat
  BY <1>1, <1>4, EntryTypes DEF Sorted
<1>6. Sorted(new, c, n + 1)
  <2>1. \A i \in DOMAIN new : Index(new[i].key) = c /\ new[i].at < n + 1
    <3> SUFFICES ASSUME NEW i \in DOMAIN new
                 PROVE  Index(new[i].key) = c /\ new[i].at < n + 1
      OBVIOUS
    <3>1. CASE i = 1
      BY <1>1, <1>2, <3>1 DEF c
    <3>2. CASE i # 1
      <4>1. i - 1 \in DOMAIN chain /\ new[i] = chain[i - 1]
        BY <1>2, <3>2
      <4> QED BY <1>1, <1>4, <1>5, <4>1 DEF Sorted
    <3> QED BY <3>1, <3>2
  <2>2. \A i, j \in DOMAIN new : i < j => new[j].at < new[i].at
    <3> SUFFICES ASSUME NEW i \in DOMAIN new, NEW j \in DOMAIN new, i < j
                 PROVE  new[j].at < new[i].at
      OBVIOUS
    <3>1. j - 1 \in DOMAIN chain /\ new[j] = chain[j - 1]
      BY <1>2
    <3>2. CASE i = 1
      BY <1>1, <1>2, <1>5, <3>1, <3>2
    <3>3. CASE i # 1
      <4>1. i - 1 \in DOMAIN chain /\ new[i] = chain[i - 1] /\ i - 1 < j - 1
        BY <1>2, <3>3
      <4> QED BY <1>4, <3>1, <4>1 DEF Sorted
    <3> QED BY <3>2, <3>3
  <2> QED BY <2>1, <2>2 DEF Sorted
<1>7. \A b \in Chains : Sorted(U[b], b, n + 1)
  <2> SUFFICES ASSUME NEW b \in Chains PROVE Sorted(U[b], b, n + 1)
    OBVIOUS
  <2>1. CASE b = c
    BY <1>3, <1>6, <2>1
  <2>2. CASE b # c
    <3>1. U[b] = T[b] /\ T[b] \in Seq(HashEntry) /\ Sorted(T[b], b, n)
      BY <1>1, <1>3, <1>4, <2>2 DEF Chained
    <3>2. \A i \in DOMAIN T[b] : T[b][i].at \in Nat
      BY <3>1, EntryTypes
    <3> QED BY <1>1, <3>1, <3>2 DEF Sorted
  <2> QED BY <2>1, <2>2
<1>8. e \notin All(T)
  <2>1. \A b \in Chains : \A i \in DOMAIN T[b] : T[b][i].at < n
    BY <1>4 DEF Sorted
  <2> QED BY <1>1, <2>1, InAll
<1>9. All(U) = All(T) \union {e}
  <2>1. Range(new) = Range(chain) \union {e}
    <3>1. \A j \in DOMAIN chain : j + 1 \in DOMAIN new /\ new[j + 1] = chain[j]
      BY <1>2
    <3>2. \A j \in DOMAIN new \ {1} : j - 1 \in DOMAIN chain /\ new[j] = chain[j - 1]
      BY <1>2
    <3>3. 1 \in DOMAIN new /\ new[1] = e
      BY <1>2
    <3> QED BY <3>1, <3>2, <3>3 DEF Range
  <2>2. \A x : x \in All(U) <=> \E b \in Chains : x \in Range(U[b])
    BY DEF All
  <2>3. \A x : x \in All(T) <=> \E b \in Chains : x \in Range(T[b])
    BY DEF All
  <2> QED BY <1>1, <1>3, <2>1, <2>2, <2>3 DEF chain
<1>10. SortedTable(U, n + 1)
  BY <1>1, <1>3, <1>7 DEF SortedTable
<1> QED BY <1>8, <1>9, <1>10 DEF U, c

\* hash_delete takes the entry out and leaves the others.
LEMMA DeleteIsSound ==
  ASSUME NEW T, NEW n, SortedTable(T, n), NEW c \in Chains, NEW i \in DOMAIN T[c]
  PROVE  LET U == [T EXCEPT ![c] = RemoveAt(@, i)]
         IN  /\ SortedTable(U, n)
             /\ All(U) = All(T) \ {T[c][i]} /\ T[c][i] \in All(T)
<1> DEFINE chain == T[c]
           new == RemoveAt(chain, i)
           U == [T EXCEPT ![c] = RemoveAt(@, i)]
<1>1. T \in Chained /\ n \in Nat /\ chain \in Seq(HashEntry) /\ i \in DOMAIN chain
  BY DEF SortedTable, Chained
<1>2. Sorted(chain, c, n) /\ \A b \in Chains : Sorted(T[b], b, n)
  BY <1>1 DEF SortedTable
<1> HIDE DEF chain
<1>3. /\ new \in Seq(HashEntry) /\ Len(chain) \in Nat /\ DOMAIN chain = 1..Len(chain)
      /\ DOMAIN new = 1..(Len(chain) - 1)
      /\ \A j \in 1..(Len(chain) - 1) : new[j] = IF j < i THEN chain[j] ELSE chain[j + 1]
  BY <1>1, RemoveAtItems
<1>4. \A j, k \in DOMAIN chain : chain[j] = chain[k] => j = k
  BY <1>1, <1>2, SortedIsInjective
<1>5. Range(new) = Range(chain) \ {chain[i]}
  BY <1>1, <1>4, RemoveAtInjective
<1> HIDE DEF new
<1>6. U \in Chained /\ U[c] = new /\ \A b \in Chains \ {c} : U[b] = T[b]
  BY <1>1, <1>3 DEF Chained, new, chain
<1> HIDE DEF U
<1>7. Sorted(new, c, n)
  <2> DEFINE old(j) == IF j < i THEN j ELSE j + 1
  <2>1. \A j \in DOMAIN new : old(j) \in DOMAIN chain /\ new[j] = chain[old(j)]
    BY <1>1, <1>3
  <2>2. \A j, k \in DOMAIN new : j < k => old(j) < old(k)
    BY <1>1, <1>3
  <2> HIDE DEF old
  <2> QED BY <1>2, <2>1, <2>2 DEF Sorted
<1>8. SortedTable(U, n)
  BY <1>1, <1>2, <1>6, <1>7 DEF SortedTable
<1>9. \A b \in Chains : chain[i] \in Range(T[b]) => b = c
  <2> SUFFICES ASSUME NEW b \in Chains, NEW j \in DOMAIN T[b], chain[i] = T[b][j]
               PROVE  b = c
    BY DEF Range
  <2> QED BY <1>1, OnePlace DEF chain
<1>10. /\ \A x : x \in All(U) <=> \E b \in Chains : x \in Range(U[b])
       /\ \A x : x \in All(T) <=> \E b \in Chains : x \in Range(T[b])
  BY DEF All
<1>11. All(U) = All(T) \ {chain[i]}
  BY <1>5, <1>6, <1>9, <1>10 DEF chain
<1>12. chain[i] \in All(T)
  BY <1>1, <1>10 DEF Range, chain
<1> QED BY <1>8, <1>11, <1>12 DEF U, chain

\* hash_replace changes the data of an entry.
LEMMA ReplaceIsSound ==
  ASSUME NEW T, NEW n, SortedTable(T, n), NEW c \in Chains, NEW i \in DOMAIN T[c],
         NEW d \in Data
  PROVE  LET U == [T EXCEPT ![c][i].data = d]
             e == [T[c][i] EXCEPT !.data = d]
         IN  /\ SortedTable(U, n)
             /\ All(U) = (All(T) \ {T[c][i]}) \union {e}
             /\ T[c][i] \in All(T) /\ e \notin All(T) \ {T[c][i]}
<1> DEFINE chain == T[c]
           e == [chain[i] EXCEPT !.data = d]
           new == [chain EXCEPT ![i] = e]
           U == [T EXCEPT ![c][i].data = d]
<1>1. T \in Chained /\ n \in Nat /\ chain \in Seq(HashEntry) /\ i \in DOMAIN chain
  BY DEF SortedTable, Chained
<1>2. Sorted(chain, c, n) /\ \A b \in Chains : Sorted(T[b], b, n)
  BY <1>1 DEF SortedTable
<1>3. U = [T EXCEPT ![c] = new]
  BY <1>1
<1> HIDE DEF chain
<1>4. e \in HashEntry /\ e.key = chain[i].key /\ e.at = chain[i].at
  BY <1>1, EntryTypes DEF HashEntry
<1> HIDE DEF e
<1>5. /\ new \in Seq(HashEntry) /\ DOMAIN new = DOMAIN chain
      /\ \A j \in DOMAIN chain : new[j] = IF j = i THEN e ELSE chain[j]
  BY <1>1, <1>4
<1> HIDE DEF new, U
<1>6. U \in Chained /\ U[c] = new /\ \A b \in Chains \ {c} : U[b] = T[b]
  BY <1>1, <1>3, <1>5 DEF Chained
<1>7. \A j \in DOMAIN chain : new[j].key = chain[j].key /\ new[j].at = chain[j].at
  BY <1>4, <1>5
<1>8. Sorted(new, c, n)
  BY <1>2, <1>5, <1>7 DEF Sorted
<1>9. SortedTable(U, n)
  BY <1>1, <1>2, <1>6, <1>8 DEF SortedTable
<1>10. /\ \A x : x \in All(U) <=> \E b \in Chains : \E j \in DOMAIN U[b] : x = U[b][j]
       /\ \A x : x \in All(T) <=> \E b \in Chains : \E j \in DOMAIN T[b] : x = T[b][j]
  BY <1>1, <1>6, InAll
<1>11. \A b \in Chains : \A j \in DOMAIN T[b] : T[b][j] = chain[i] => b = c /\ j = i
  BY <1>1, OnePlace DEF chain
<1>12. \A x : x \in All(U) <=> x \in (All(T) \ {chain[i]}) \union {e}
  <2> SUFFICES ASSUME NEW x PROVE x \in All(U) <=> x \in (All(T) \ {chain[i]}) \union {e}
    OBVIOUS
  <2>1. ASSUME x \in All(U) PROVE x \in (All(T) \ {chain[i]}) \union {e}
    <3>1. PICK b \in Chains : \E j \in DOMAIN U[b] : x = U[b][j]
      BY <1>10, <2>1
    <3>2. PICK j \in DOMAIN U[b] : x = U[b][j]
      BY <3>1
    <3>3. CASE b = c
      BY <1>5, <1>6, <1>10, <1>11, <3>2, <3>3 DEF chain
    <3>4. CASE b # c
      BY <1>6, <1>10, <1>11, <3>2, <3>4
    <3> QED BY <3>3, <3>4
  <2>2. ASSUME x = e PROVE x \in All(U)
    BY <1>1, <1>5, <1>6, <1>10, <2>2
  <2>3. ASSUME x \in All(T), x # chain[i] PROVE x \in All(U)
    <3>1. PICK b \in Chains : \E j \in DOMAIN T[b] : x = T[b][j]
      BY <1>10, <2>3
    <3>2. PICK j \in DOMAIN T[b] : x = T[b][j]
      BY <3>1
    <3>3. CASE b = c
      BY <1>5, <1>6, <1>10, <2>3, <3>2, <3>3 DEF chain
    <3>4. CASE b # c
      BY <1>6, <1>10, <3>2, <3>4
    <3> QED BY <3>3, <3>4
  <2> QED BY <2>1, <2>2, <2>3
<1>13. e \notin All(T) \ {chain[i]}
  <2> SUFFICES ASSUME NEW b \in Chains, NEW j \in DOMAIN T[b], e = T[b][j]
               PROVE  T[b][j] = chain[i]
    BY <1>10
  <2>1. b = c
    BY <1>1, <1>2, <1>4 DEF Sorted
  <2> QED BY <1>1, <1>2, <1>4, <2>1, SortedIsInjective DEF chain
<1>14. chain[i] \in All(T)
  BY <1>1, <1>10 DEF chain
<1> QED BY <1>9, <1>12, <1>13, <1>14 DEF U, e, chain

-----------------------------------------------------------------------------
\* The number that is kept is that of the entries.
Counted(T, n) == IsFiniteSet(All(T)) /\ n \in Nat /\ n = Cardinality(All(T))

\* The inductive invariant.
HashInv ==
    /\ HashTypeOK
    /\ \A t \in Table : SortedTable(table[t], inserts) /\ Counted(table[t], num_entries[t])

\* The dictionaries that the tables stand for.
Defined == [t \in Table |-> TableEntries(t)]

\* Chains stay sorted while entries are inserted elsewhere.
LEMMA SortedLater ==
  ASSUME NEW T, NEW n, SortedTable(T, n)
  PROVE  SortedTable(T, n + 1)
<1>1. T \in Chained /\ n \in Nat /\ n + 1 \in Nat
  BY DEF SortedTable
<1>2. ASSUME NEW c \in Chains PROVE Sorted(T[c], c, n + 1)
  <2>1. T[c] \in Seq(HashEntry) /\ Sorted(T[c], c, n)
    BY <1>1 DEF SortedTable, Chained
  <2>2. \A i \in DOMAIN T[c] : T[c][i].at \in Nat
    BY <2>1, EntryTypes
  <2> QED BY <1>1, <2>1, <2>2 DEF Sorted
<1> QED BY <1>1, <1>2 DEF SortedTable

\* Counting one entry more, one less, or another instead.
LEMMA CountedChanges ==
  ASSUME NEW T, NEW n, Counted(T, n), NEW U, NEW e
  PROVE  /\ All(U) = All(T) \union {e} /\ e \notin All(T) => Counted(U, n + 1)
         /\ All(U) = All(T) \ {e} /\ e \in All(T) => Counted(U, n - 1)
         /\ \A f : All(U) = (All(T) \ {e}) \union {f} /\ e \in All(T) /\ f \notin All(T) \ {e}
                  => Counted(U, n)
<1> DEFINE S == All(T)
           W == All(U)
<1>1. IsFiniteSet(S) /\ n \in Nat /\ n = Cardinality(S)
  BY DEF Counted
<1> HIDE DEF S, W
<1>2. ASSUME W = S \union {e}, e \notin S
      PROVE  IsFiniteSet(W) /\ Cardinality(W) = n + 1
  BY <1>1, <1>2, FS_AddElement
<1>3. ASSUME e \in S
      PROVE  IsFiniteSet(S \ {e}) /\ Cardinality(S \ {e}) = n - 1 /\ n - 1 \in Nat
  <2>1. IsFiniteSet(S \ {e}) /\ Cardinality(S \ {e}) = n - 1
    BY <1>1, <1>3, FS_RemoveElement
  <2>2. Cardinality(S \ {e}) \in Nat
    BY <2>1, FS_CardinalityType
  <2> QED BY <2>1, <2>2
<1>4. ASSUME NEW f, W = (S \ {e}) \union {f}, e \in S, f \notin S \ {e}
      PROVE  IsFiniteSet(W) /\ Cardinality(W) = n
  <2>1. IsFiniteSet(W) /\ Cardinality(W) = Cardinality(S \ {e}) + 1
    BY <1>3, <1>4, FS_AddElement
  <2> QED BY <1>1, <1>3, <1>4, <2>1
<1>5. W = S \union {e} /\ e \notin S => Counted(U, n + 1)
  BY <1>1, <1>2 DEF Counted, W
<1>6. W = S \ {e} /\ e \in S => Counted(U, n - 1)
  BY <1>1, <1>3 DEF Counted, W
<1>7. \A f : W = (S \ {e}) \union {f} /\ e \in S /\ f \notin S \ {e} => Counted(U, n)
  BY <1>1, <1>4 DEF Counted, W
<1> QED BY <1>5, <1>6, <1>7 DEF S, W

\* A step that changes one table.
LEMMA OneTable ==
  ASSUME HashInv, NEW t \in Table, NEW U, NEW m,
         table' = [table EXCEPT ![t] = U], num_entries' = [num_entries EXCEPT ![t] = m],
         SortedTable(U, inserts'), Counted(U, m),
         inserts' = inserts \/ inserts' = inserts + 1,
         existing' \subseteq Table, result' \subseteq HashEntry, strayed' \in BOOLEAN
  PROVE  /\ HashInv'
         /\ Defined' = [Defined EXCEPT ![t] = All(U)]
         /\ num_entries' = [s \in Table |-> Cardinality(Defined'[s])]
<1>1. /\ table \in [Table -> Chained] /\ num_entries \in [Table -> Int] /\ inserts \in Nat
      /\ U \in Chained /\ m \in Nat /\ inserts' \in Nat
  BY DEF HashInv, HashTypeOK, Chained, SortedTable, Counted
<1>2. table' \in [Table -> Chained] /\ num_entries' \in [Table -> Int]
  BY <1>1
<1>3. HashTypeOK'
  BY <1>1, <1>2 DEF HashTypeOK, Chained
<1>4. ASSUME NEW s \in Table
      PROVE  SortedTable(table'[s], inserts') /\ Counted(table'[s], num_entries'[s])
  <2>1. CASE s = t
    BY <1>1, <2>1
  <2>2. CASE s # t
    <3>1. table'[s] = table[s] /\ num_entries'[s] = num_entries[s]
      BY <1>1, <2>2
    <3>2. SortedTable(table[s], inserts) /\ Counted(table[s], num_entries[s])
      BY DEF HashInv
    <3> QED BY <3>1, <3>2, SortedLater
  <2> QED BY <2>1, <2>2
<1>5. HashInv'
  <2>1. existing' \subseteq Table /\ result' \subseteq HashEntry /\ strayed' \in BOOLEAN
    OBVIOUS
  <2>2. \A s \in Table : SortedTable(table'[s], inserts') /\ Counted(table'[s], num_entries'[s])
    BY <1>4
  <2>3. (\A s \in Table : SortedTable(table[s], inserts) /\ Counted(table[s], num_entries[s]))'
    BY <2>2 DEF SortedTable, Counted, Sorted, Chained, All
  <2> QED BY <1>3, <2>3 DEF HashInv
<1>6. \A s \in Table : TableEntries(s) = All(table[s]) /\ TableEntries(s)' = All(table'[s])
  BY DEF TableEntries, All
<1>7. Defined' = [Defined EXCEPT ![t] = All(U)]
  BY <1>1, <1>6 DEF Defined
<1>8. num_entries' = [s \in Table |-> Cardinality(Defined'[s])]
  BY <1>2, <1>4, <1>6 DEF Defined, Counted
<1> QED BY <1>5, <1>7, <1>8

\* A step that changes no table.
LEMMA NoTable ==
  ASSUME HashInv, UNCHANGED <<existing, table, num_entries, inserts>>,
         result' \subseteq HashEntry, strayed' \in BOOLEAN
  PROVE  /\ HashInv' /\ Defined' = Defined
         /\ num_entries' = [s \in Table |-> Cardinality(Defined'[s])]
<1>1. HashInv'
  BY DEF HashInv, HashTypeOK, SortedTable, Counted, Sorted, Chained, All
<1>2. Defined' = Defined
  BY DEF Defined, TableEntries
<1>3. \A s \in Table : Defined[s] = All(table[s])
  BY DEF Defined, TableEntries, All
<1>4. num_entries \in [Table -> Int] /\ \A s \in Table : num_entries[s] = Cardinality(All(table[s]))
  BY DEF HashInv, HashTypeOK, Counted
<1> QED BY <1>1, <1>2, <1>3, <1>4

\* A table without entries.
LEMMA EmptyTable ==
  ASSUME NEW n \in Nat
  PROVE  SortedTable(Empty, n) /\ All(Empty) = {} /\ Counted(Empty, 0)
<1>1. Empty \in Chained /\ \A c \in Chains : Empty[c] = <<>>
  BY DEF Empty, Chained
<1>2. SortedTable(Empty, n)
  BY <1>1 DEF SortedTable, Sorted
<1>3. All(Empty) = {}
  BY <1>1 DEF All, Range
<1> QED BY <1>2, <1>3, FS_EmptySet DEF Counted

\* What is known of a table before a step.
LEMMA TableFacts ==
  ASSUME HashInv, NEW t \in Table
  PROVE  /\ SortedTable(table[t], inserts) /\ Counted(table[t], num_entries[t])
         /\ table[t] \in Chained /\ inserts \in Nat
         /\ TableEntries(t) = All(table[t]) /\ Defined[t] = All(table[t])
         /\ All(table[t]) \subseteq HashEntry
<1>1. SortedTable(table[t], inserts) /\ Counted(table[t], num_entries[t])
  BY DEF HashInv
<1>2. table[t] \in Chained /\ inserts \in Nat
  BY <1>1 DEF SortedTable
<1>3. TableEntries(t) = All(table[t]) /\ Defined[t] = All(table[t])
  BY DEF TableEntries, All, Defined
<1>4. ASSUME NEW c \in Chains PROVE Range(table[t][c]) \subseteq HashEntry
  <2>1. table[t][c] \in Seq(HashEntry)
    BY <1>2 DEF Chained
  <2> QED BY <2>1, EntryTypes DEF Range
<1> QED BY <1>1, <1>2, <1>3, <1>4 DEF All

\* The tables are counted after a step.
CountsKept == num_entries' = [s \in Table |-> Cardinality(Defined'[s])]

\* hash_init makes an empty dictionary.
LEMMA InitIsMake ==
  ASSUME HashInv, NEW t \in Table, hash_init(t)
  PROVE  HashInv' /\ CountsKept /\ Dictionaries!Make(t) /\ UNCHANGED strayed
<1>1. /\ inserts' = inserts /\ strayed' \in BOOLEAN /\ result' \subseteq HashEntry
      /\ existing' \subseteq Table /\ inserts \in Nat
  BY DEF hash_init, HashInv, HashTypeOK
<1>2. SortedTable(Empty, inserts') /\ All(Empty) = {} /\ Counted(Empty, 0)
  BY <1>1, EmptyTable
<1>3. HashInv' /\ CountsKept /\ Defined' = [Defined EXCEPT ![t] = {}]
  BY <1>1, <1>2, OneTable DEF hash_init, CountsKept
<1> QED BY <1>3 DEF hash_init, Dictionaries!Make, Defined

\* free_hash discards the dictionary.
LEMMA FreeIsDiscard ==
  ASSUME HashInv, NEW t \in Table, free_hash(t)
  PROVE  HashInv' /\ CountsKept /\ Dictionaries!Discard(t) /\ UNCHANGED strayed
<1>1. /\ inserts' = inserts /\ strayed' \in BOOLEAN /\ existing' \subseteq Table
      /\ inserts \in Nat
  BY DEF free_hash, HashInv, HashTypeOK
<1>2. SortedTable(Empty, inserts') /\ All(Empty) = {} /\ Counted(Empty, 0)
  BY <1>1, EmptyTable
<1>3. result' = Defined[t] /\ result' \subseteq HashEntry
  BY TableFacts DEF free_hash
<1>4. HashInv' /\ CountsKept /\ Defined' = [Defined EXCEPT ![t] = {}]
  BY <1>1, <1>2, <1>3, OneTable DEF free_hash, CountsKept
<1> QED BY <1>3, <1>4 DEF free_hash, Dictionaries!Discard, Defined

\* hash_copy_table copies the dictionary.
LEMMA CopyIsCopy ==
  ASSUME HashInv, NEW s \in Table, NEW t \in Table, hash_copy_table(s, t)
  PROVE  HashInv' /\ CountsKept /\ Dictionaries!Copy(s, t) /\ UNCHANGED strayed
<1>1. /\ inserts' = inserts /\ strayed' \in BOOLEAN /\ result' \subseteq HashEntry
      /\ existing' \subseteq Table
  BY DEF hash_copy_table, HashInv, HashTypeOK
<1>2. /\ SortedTable(table[s], inserts') /\ Counted(table[s], num_entries[s])
      /\ Defined[s] = All(table[s])
  BY <1>1, TableFacts
<1>3. HashInv' /\ CountsKept /\ Defined' = [Defined EXCEPT ![t] = Defined[s]]
  BY <1>1, <1>2, OneTable DEF hash_copy_table, CountsKept
<1> QED BY <1>3 DEF hash_copy_table, Dictionaries!Copy, Defined

\* hash_map visits the items of the dictionary.
LEMMA MapIsVisit ==
  ASSUME HashInv, NEW t \in Table, hash_map(t)
  PROVE  HashInv' /\ CountsKept /\ Dictionaries!Visit(t) /\ UNCHANGED strayed
<1>1. result' = Defined[t] /\ result' \subseteq HashEntry
  BY TableFacts DEF hash_map
<1>2. UNCHANGED <<existing, table, num_entries, inserts>> /\ strayed' \in BOOLEAN
  BY DEF hash_map, HashInv, HashTypeOK
<1>3. HashInv' /\ CountsKept /\ Defined' = Defined
  BY <1>1, <1>2, NoTable DEF CountsKept
<1> QED BY <1>1, <1>3 DEF hash_map, Dictionaries!Visit, Defined

-----------------------------------------------------------------------------
\* What the walk along a chain comes to.
LEMMA WalkFinds ==
  ASSUME HashInv, NEW t \in Table, NEW k \in Key, Index(k) \in Chains
  PROVE  LET chain == table[t][Index(k)]
             i == First(chain, k)
             old == Dictionaries!Lookup(Defined[t], k)
         IN  /\ Matches(chain, k) = {} => old = {}
             /\ Matches(chain, k) # {} =>
                  i \in DOMAIN chain /\ chain[i] \in HashEntry /\ old = {chain[i]}
<1> DEFINE chain == table[t][Index(k)]
<1>1. /\ table[t] \in Chained /\ Defined[t] = All(table[t])
      /\ \A c \in Chains : Sorted(table[t][c], c, inserts)
  BY TableFacts DEF SortedTable
<1>2. Dictionaries!Lookup(Defined[t], k) =
        IF Matches(chain, k) = {} THEN {} ELSE {chain[First(chain, k)]}
  BY <1>1, LookupIsFirst
<1>3. chain \in Seq(HashEntry)
  BY <1>1 DEF Chained
<1> HIDE DEF chain
<1>4. Matches(chain, k) # {} =>
        First(chain, k) \in DOMAIN chain /\ chain[First(chain, k)] \in HashEntry
  BY <1>3, FirstMatches, EntryTypes
<1> QED BY <1>2, <1>4 DEF chain

\* hash_find answers what the dictionary holds.
LEMMA FindIsFind ==
  ASSUME HashInv, NEW t \in Table, NEW k \in Key, hash_find(t, k)
  PROVE  HashInv' /\ CountsKept /\ Dictionaries!Find(t, k) /\ UNCHANGED strayed
<1> DEFINE old == Dictionaries!Lookup(Defined[t], k)
<1>1. UNCHANGED <<existing, table, num_entries, inserts>> /\ strayed' \in BOOLEAN
  BY DEF hash_find, HashInv, HashTypeOK
<1>2. result' = old /\ result' \subseteq HashEntry
  BY WalkFinds DEF hash_find, InTable
<1> HIDE DEF old
<1>3. HashInv' /\ CountsKept /\ Defined' = Defined
  BY <1>1, <1>2, NoTable DEF CountsKept
<1> QED BY <1>2, <1>3 DEF hash_find, InTable, Dictionaries!Find, Defined, old

\* hash_insert defines the key, in front of what it was before.
LEMMA InsertIsDefine ==
  ASSUME HashInv, NEW t \in Table, NEW k \in Key, NEW d \in Data, hash_insert(t, k, d)
  PROVE  HashInv' /\ CountsKept /\ Dictionaries!Define(t, k, d) /\ UNCHANGED strayed
<1> DEFINE e == [key |-> k, data |-> d, at |-> inserts]
           U == [table[t] EXCEPT ![Index(k)] = <<e>> \o @]
<1>1. /\ SortedTable(table[t], inserts) /\ Counted(table[t], num_entries[t])
      /\ Defined[t] = All(table[t]) /\ Index(k) \in Chains
  BY TableFacts DEF hash_insert, InTable
<1>2. e \in HashEntry /\ e.at = inserts /\ e.key = k
  BY DEF HashEntry, HashInv, HashTypeOK
<1>3. /\ existing' \subseteq Table /\ result' = {e} /\ strayed' \in BOOLEAN
      /\ inserts' = inserts + 1 /\ num_entries' = [num_entries EXCEPT ![t] = num_entries[t] + 1]
  BY DEF hash_insert, HashInv, HashTypeOK
<1>4. table' = [table EXCEPT ![t] = U]
  BY DEF hash_insert
<1> HIDE DEF e
<1>5. SortedTable(U, inserts + 1) /\ All(U) = All(table[t]) \union {e} /\ e \notin All(table[t])
  BY <1>1, <1>2, InsertIsSound
<1> HIDE DEF U
<1>6. Counted(U, num_entries[t] + 1)
  BY <1>1, <1>5, CountedChanges
<1>7. HashInv' /\ CountsKept /\ Defined' = [Defined EXCEPT ![t] = All(U)]
  BY <1>2, <1>3, <1>4, <1>5, <1>6, OneTable DEF CountsKept
<1>8. Defined' = [Defined EXCEPT ![t] = @ \union {e}]
  BY <1>1, <1>5, <1>7 DEF Defined
<1> QED BY <1>3, <1>7, <1>8 DEF hash_insert, InTable, Dictionaries!Define, Defined, e

\* hash_delete removes the definition that hash_find would give.
LEMMA DeleteIsRemove ==
  ASSUME HashInv, NEW t \in Table, NEW k \in Key, hash_delete(t, k)
  PROVE  HashInv' /\ CountsKept /\ Dictionaries!Remove(t, k) /\ UNCHANGED strayed
<1> DEFINE chain == table[t][Index(k)]
           i == First(chain, k)
           old == Dictionaries!Lookup(Defined[t], k)
           U == [table[t] EXCEPT ![Index(k)] = RemoveAt(@, i)]
<1>1. /\ SortedTable(table[t], inserts) /\ Counted(table[t], num_entries[t])
      /\ Defined[t] = All(table[t]) /\ Index(k) \in Chains /\ t \in existing
  BY TableFacts DEF hash_delete, InTable
<1>2. UNCHANGED <<existing, inserts, strayed>> /\ existing' \subseteq Table /\ strayed' \in BOOLEAN
  BY DEF hash_delete, HashInv, HashTypeOK
<1>3. CASE Matches(chain, k) = {}
  <2>1. old = {}
    BY <1>1, <1>3, WalkFinds
  <2>2. UNCHANGED <<table, num_entries>> /\ result' = {}
    BY <1>3 DEF hash_delete
  <2> HIDE DEF old
  <2>3. HashInv' /\ CountsKept /\ Defined' = Defined
    BY <1>2, <2>2, NoTable DEF CountsKept
  <2>4. Defined' = [Defined EXCEPT ![t] = @ \ old]
    BY <2>1, <2>3 DEF Defined
  <2> QED BY <1>1, <1>2, <2>1, <2>2, <2>3, <2>4 DEF Dictionaries!Remove, Defined, old
<1>4. CASE Matches(chain, k) # {}
  <2>1. i \in DOMAIN chain /\ chain[i] \in HashEntry /\ old = {chain[i]}
    BY <1>1, <1>4, WalkFinds
  <2>2. /\ table' = [table EXCEPT ![t] = U] /\ result' = {chain[i]}
        /\ num_entries' = [num_entries EXCEPT ![t] = num_entries[t] - 1]
    BY <1>4 DEF hash_delete
  <2> HIDE DEF old, i
  <2>3. SortedTable(U, inserts) /\ All(U) = All(table[t]) \ {chain[i]} /\ chain[i] \in All(table[t])
    BY <1>1, <2>1, DeleteIsSound
  <2> HIDE DEF U
  <2>4. Counted(U, num_entries[t] - 1)
    BY <1>1, <2>3, CountedChanges
  <2>5. HashInv' /\ CountsKept /\ Defined' = [Defined EXCEPT ![t] = All(U)]
    BY <1>2, <2>1, <2>2, <2>3, <2>4, OneTable DEF CountsKept
  <2>6. Defined' = [Defined EXCEPT ![t] = @ \ old]
    BY <1>1, <2>1, <2>3, <2>5 DEF Defined
  <2> QED BY <1>1, <1>2, <2>1, <2>2, <2>5, <2>6 DEF Dictionaries!Remove, Defined, old
<1> QED BY <1>3, <1>4

\* hash_replace changes the definition that hash_find would give.
LEMMA ReplaceIsRedefine ==
  ASSUME HashInv, NEW t \in Table, NEW k \in Key, NEW d \in Data, hash_replace(t, k, d)
  PROVE  HashInv' /\ CountsKept /\ Dictionaries!Redefine(t, k, d) /\ UNCHANGED strayed
<1> DEFINE chain == table[t][Index(k)]
           i == First(chain, k)
           old == Dictionaries!Lookup(Defined[t], k)
           e == [chain[i] EXCEPT !.data = d]
           U == [table[t] EXCEPT ![Index(k)][i].data = d]
<1>1. /\ SortedTable(table[t], inserts) /\ Counted(table[t], num_entries[t])
      /\ Defined[t] = All(table[t]) /\ Index(k) \in Chains /\ t \in existing
  BY TableFacts DEF hash_replace, InTable
<1>2. /\ UNCHANGED <<existing, num_entries, inserts, strayed>> /\ existing' \subseteq Table
      /\ strayed' \in BOOLEAN /\ num_entries \in [Table -> Int]
  BY DEF hash_replace, HashInv, HashTypeOK
<1>3. CASE Matches(chain, k) = {}
  <2>1. old = {}
    BY <1>1, <1>3, WalkFinds
  <2>2. table' = table /\ result' = {}
    BY <1>3 DEF hash_replace
  <2> HIDE DEF old
  <2>3. HashInv' /\ CountsKept /\ Defined' = Defined
    BY <1>2, <2>2, NoTable DEF CountsKept
  <2>4. Dictionaries!Redefined(old, d) = {}
    BY <2>1 DEF Dictionaries!Redefined
  <2>5. Defined' = [Defined EXCEPT ![t] = (@ \ old) \union Dictionaries!Redefined(old, d)]
    BY <2>1, <2>3, <2>4 DEF Defined
  <2> QED BY <1>1, <1>2, <2>2, <2>3, <2>4, <2>5 DEF Dictionaries!Redefine, Defined, old
<1>4. CASE Matches(chain, k) # {}
  <2>1. i \in DOMAIN chain /\ chain[i] \in HashEntry /\ old = {chain[i]}
    BY <1>1, <1>4, WalkFinds
  <2>2. e \in HashEntry
    BY <2>1 DEF HashEntry
  <2>3. table' = [table EXCEPT ![t] = U] /\ result' = {e}
    BY <1>4 DEF hash_replace
  <2> HIDE DEF old, i
  <2>4. /\ SortedTable(U, inserts) /\ All(U) = (All(table[t]) \ {chain[i]}) \union {e}
        /\ chain[i] \in All(table[t]) /\ e \notin All(table[t]) \ {chain[i]}
    <3>1. i \in DOMAIN table[t][Index(k)]
      BY <2>1
    <3>2. LET V == [table[t] EXCEPT ![Index(k)][i].data = d]
              f == [table[t][Index(k)][i] EXCEPT !.data = d]
          IN  /\ SortedTable(V, inserts)
              /\ All(V) = (All(table[t]) \ {table[t][Index(k)][i]}) \union {f}
              /\ table[t][Index(k)][i] \in All(table[t])
              /\ f \notin All(table[t]) \ {table[t][Index(k)][i]}
      BY <1>1, <3>1, ReplaceIsSound
    <3> QED BY <3>2
  <2> HIDE DEF U, e
  <2>5. Counted(U, num_entries[t])
    BY <1>1, <2>4, CountedChanges
  <2>6. num_entries' = [num_entries EXCEPT ![t] = num_entries[t]]
    BY <1>2
  <2>7. HashInv' /\ CountsKept /\ Defined' = [Defined EXCEPT ![t] = All(U)]
    BY <1>2, <2>2, <2>3, <2>4, <2>5, <2>6, OneTable DEF CountsKept
  <2>8. Dictionaries!Redefined(old, d) = {e}
    BY <2>1 DEF Dictionaries!Redefined, e
  <2>9. Defined' = [Defined EXCEPT ![t] = (@ \ old) \union Dictionaries!Redefined(old, d)]
    BY <1>1, <2>1, <2>4, <2>7, <2>8 DEF Defined
  <2> QED BY <1>1, <1>2, <2>3, <2>7, <2>8, <2>9 DEF Dictionaries!Redefine, Defined, old
<1> QED BY <1>3, <1>4

\* Only a key that is not plain has no chain.
LEMMA OutsideIsStray ==
  ASSUME HashInv, NEW t \in Table, NEW k \in Key, Outside(t, k)
  PROVE  HashInv' /\ Dictionaries!Stray
<1>1. UNCHANGED <<existing, table, num_entries, inserts, result>> /\ strayed' = TRUE
  BY DEF Outside
<1>2. HashInv' /\ Defined' = Defined
  BY <1>1, NoTable DEF HashInv, HashTypeOK
<1>3. k \notin {j \in Key : Code[j] >= 0}
  BY IndexType DEF Outside
<1> QED BY <1>1, <1>2, <1>3 DEF Dictionaries!Stray, Defined

-----------------------------------------------------------------------------
\* Every call is an operation of the dictionaries.
LEMMA HashStep ==
  ASSUME HashInv, HashNext
  PROVE  HashInv' /\ Dictionaries!DictionaryNext
<1>1. ~strayed
  BY DEF HashNext
<1>2. ASSUME CountsKept
      PROVE  num_entries' = [t \in Table |-> Dictionaries!Cardinality([s \in Table |-> TableEntries(s)]'[t])]
  <2>1. \A S : Dictionaries!Cardinality(S) = Cardinality(S)
    BY DEF Dictionaries!Cardinality, Cardinality
  <2>2. \A s \in Table : Dictionaries!Cardinality(Defined'[s]) = Cardinality(Defined'[s])
    BY <2>1
  <2>3. num_entries' = [s \in Table |-> Dictionaries!Cardinality(Defined'[s])]
    BY <1>2, <2>2 DEF CountsKept
  <2> QED BY <2>3 DEF Defined
<1>3. strayed = FALSE
  BY <1>1 DEF HashInv, HashTypeOK
<1>4. ASSUME NEW t \in Table, hash_init(t) \/ hash_map(t) \/ free_hash(t)
      PROVE  HashInv' /\ CountsKept /\ Dictionaries!Operation /\ UNCHANGED strayed
  BY <1>4, InitIsMake, MapIsVisit, FreeIsDiscard DEF Dictionaries!Operation
<1>5. ASSUME NEW t \in Table, NEW k \in Key, hash_find(t, k) \/ hash_delete(t, k)
      PROVE  HashInv' /\ CountsKept /\ Dictionaries!Operation /\ UNCHANGED strayed
  BY <1>5, FindIsFind, DeleteIsRemove DEF Dictionaries!Operation
<1>6. ASSUME NEW t \in Table, NEW k \in Key, NEW d \in Data,
             hash_insert(t, k, d) \/ hash_replace(t, k, d)
      PROVE  HashInv' /\ CountsKept /\ Dictionaries!Operation /\ UNCHANGED strayed
  BY <1>6, InsertIsDefine, ReplaceIsRedefine DEF Dictionaries!Operation
<1>7. ASSUME NEW s \in Table, NEW t \in Table, hash_copy_table(s, t)
      PROVE  HashInv' /\ CountsKept /\ Dictionaries!Operation /\ UNCHANGED strayed
  BY <1>7, CopyIsCopy DEF Dictionaries!Operation
<1>8. ASSUME NEW t \in Table, NEW k \in Key, Outside(t, k)
      PROVE  HashInv' /\ Dictionaries!Stray
  BY <1>8, OutsideIsStray
<1>9. /\ HashInv'
      /\ \/ CountsKept /\ Dictionaries!Operation /\ strayed' = FALSE
         \/ Dictionaries!Stray
  BY <1>3, <1>4, <1>5, <1>6, <1>7, <1>8 DEF HashNext
<1>10. CASE CountsKept /\ Dictionaries!Operation /\ strayed' = FALSE
  BY <1>1, <1>2, <1>9, <1>10 DEF Dictionaries!DictionaryNext
<1>11. CASE Dictionaries!Stray
  BY <1>1, <1>9, <1>11 DEF Dictionaries!DictionaryNext
<1> QED BY <1>9, <1>10, <1>11

\* At the start there are no tables and no dictionaries.
LEMMA HashStart == HashInit => HashInv /\ Dictionaries!DictionaryInit
<1> SUFFICES ASSUME HashInit PROVE HashInv /\ Dictionaries!DictionaryInit
  OBVIOUS
<1>1. \A n \in Nat : SortedTable(Empty, n) /\ All(Empty) = {} /\ Counted(Empty, 0)
  BY EmptyTable
<1>2. Empty \in Chained
  BY <1>1 DEF SortedTable
<1>3. HashInv
  <2>1. HashTypeOK
    <3>1. table \in [Table -> Chained] /\ num_entries \in [Table -> Int]
      BY <1>2 DEF HashInit
    <3>2. existing \subseteq Table /\ inserts \in Nat /\ result \subseteq HashEntry /\ strayed \in BOOLEAN
      BY DEF HashInit
    <3> QED BY <3>1, <3>2 DEF HashTypeOK, Chained
  <2>2. \A t \in Table : table[t] = Empty /\ num_entries[t] = 0
    BY DEF HashInit
  <2>3. inserts \in Nat
    BY DEF HashInit
  <2> QED BY <1>1, <2>1, <2>2, <2>3 DEF HashInv
<1>4. \A t \in Table : TableEntries(t) = {}
  BY <1>1 DEF HashInit, TableEntries, All
<1> QED BY <1>3, <1>4 DEF HashInit, Dictionaries!DictionaryInit

\* A step that leaves the tables alone leaves the dictionaries alone.
LEMMA HashStutter == HashInv /\ UNCHANGED hashVars => HashInv' /\ UNCHANGED Dictionaries!dictionaryVars
<1> SUFFICES ASSUME HashInv, UNCHANGED hashVars
             PROVE  HashInv' /\ UNCHANGED Dictionaries!dictionaryVars
  OBVIOUS
<1>1. HashInv' /\ Defined' = Defined
  BY NoTable DEF hashVars, HashInv, HashTypeOK
<1> QED BY <1>1 DEF hashVars, Dictionaries!dictionaryVars, Defined

\* Chains are sorted by age and hold their own keys, and num_entries is the
\* number of entries, however often keys are defined, copied and deleted
\* (hash_insert, hash_delete, hash_copy_table).
THEOREM HashInvariant == HashSpec => []HashInv
BY HashStart, HashStep, HashStutter, PTL DEF HashSpec

\* The tables of lib/hash.c are dictionaries: the latest definition of a key
\* is the one that is found, replaced and deleted, deletion uncovers the one
\* before it, and num_entries counts them.
THEOREM TablesKeepDictionaries == HashSpec => TablesAreDictionaries
BY HashInvariant, HashStart, HashStep, HashStutter, PTL
   DEF HashSpec, TablesAreDictionaries, Dictionaries!DictionarySpec

(***************************************************************************)
(* Pages and buffers.                                                      *)
(***************************************************************************)
\* The inductive invariant.

Waits(f) == f.at \in {"check", "pausing", "paused"}

(* One click is served at a time: the activations are all for its page, and
   all but the innermost are inside issue_dependent_commands, waiting for the
   command they issued.                                                     *)
OneClick ==
    \A i \in DOMAIN stack :
      /\ stack[i].page = Top.page
      /\ i < Len(stack) => stack[i].at = "check"
      /\ Waits(stack[i]) => stack[i].todo # <<>>

(* The page has a socket from the test of it to the return, and none while its
   buffer is awaited: the only buffer that has not connected.               *)
SocketOfPage ==
    /\ At("accept") => sock[Top.page] = None
    /\ stack # <<>> /\ Top.at \notin {"test", "accept"} => sock[Top.page] # None
    /\ \A b \in Buffers :
         buf[b] \in {"launched", "connecting"} => At("accept") /\ title[b] = Top.page
    /\ \A b, d \in Buffers :
         {buf[b], buf[d]} \subseteq {"launched", "connecting"} => b = d

NodesLead == \A n \in Nodes : node[n] # None => buf[node[n]] \in {"open", "dead"}

NoSocketNoMarks == \A p \in Pages : sock[p] = None => executed[p] = {}

(* As long as nobody closes a buffer, every socket reaches one. *)
AllAlive ==
    deaths = 0 =>
      /\ closing = <<>>
      /\ \A b \in Buffers : buf[b] # "dead"
      /\ \A p \in Pages : sock[p] # None => node[sock[p]] # None

Leads(p, b) == sock[p] # None /\ node[sock[p]] = b /\ buf[b] = "open"

(* A freed node that is allocated again may be the one a page still points to. *)
MarksAreSent ==
    ~Reuse \/ deaths = 0 =>
      \A p \in Pages, b \in Buffers : Leads(p, b) => executed[p] \subseteq Received(b)

(* A line that reads the file was sent after the file was written. *)
FileWritten ==
    \A b \in Buffers : \A i \in DOMAIN lines[b] : lines[b][i].src => pile \in Commands

SocketInv ==
    /\ HyperSpadTypeOK
    /\ OneClick
    /\ SocketOfPage
    /\ NodesLead
    /\ NoSocketNoMarks
    /\ AllAlive
    /\ MarksAreSent
    /\ FileWritten

(* Users who wait, and whose buffers live. *)
Calm == patient /\ deaths = 0

Settled == lisp = None /\ ~signal /\ \A b \in Buffers : lines[b] = <<>>

(* There is one line at a time: typed, or being evaluated, or its end of output
   on its way to HyperDoc.                                                  *)
OneLine ==
    /\ lisp # None => ~signal
    /\ lisp # None \/ signal => \A b \in Buffers : lines[b] = <<>>
    /\ \A b \in Buffers : lines[b] # <<>> =>
         Len(lines[b]) = 1 /\ \A d \in Buffers \ {b} : lines[d] = <<>>

(* None of it is left where HyperDoc tests, looks at dependencies or sends, and
   gIsEndOfOutput tells the truth to the loop that waits for it.            *)
SettledThere ==
    stack # <<>> =>
      /\ Top.at \in {"test", "accept", "depend", "send"} => Settled
      /\ Waits(Top) /\ ended => Settled

(* What the command depends on was evaluated among the first n of a buffer's lines. *)
DependenciesIn(c, done, n) ==
    \A l \in Range(Frees[c]) \intersect Commands : \E j \in 1 .. n : done[j].got = l

LineIsRight ==
    \A b \in Buffers : lines[b] # <<>> =>
      /\ Head(lines[b]).src => pile = Head(lines[b]).cmd
      /\ DependenciesIn(Head(lines[b]).cmd, ran[b], Len(ran[b]))

RanIsRight ==
    \A b \in Buffers : \A i \in DOMAIN ran[b] :
      /\ ran[b][i].got = ran[b][i].sent
      /\ DependenciesIn(ran[b][i].sent, ran[b], i - 1)

(* What an activation has passed of its free labels is marked; what it issued
   last is the head of the rest, and marked once it has returned.           *)
Passed(f, marks) ==
    /\ Waits(f) \/ f.at \in {"depend", "send"} =>
         \A l \in Range(Frees[f.cmd]) \intersect Commands :
           l \in marks[f.page] \/ l \in Range(f.todo)
    /\ f.at = "send" => f.todo = <<>>
Returned(f, marks) ==
    /\ Waits(f) => Head(f.todo) \in marks[f.page]
    /\ f.at = "reset" => f.cmd \in marks[f.page]
FramesAreRight ==
    /\ \A i \in DOMAIN stack :
         /\ Passed(stack[i], executed)
         /\ i < Len(stack) => Head(stack[i].todo) = stack[i + 1].cmd
    /\ stack # <<>> => Returned(Top, executed)

CalmParts == OneLine /\ SettledThere /\ LineIsRight /\ RanIsRight /\ FramesAreRight

SpadInv == SocketInv /\ (Calm => CalmParts)

-----------------------------------------------------------------------------
(* The stack of activations. *)

(* The innermost activation is an activation. *)
LEMMA TopIsFrame ==
  ASSUME NEW s \in Seq(Frame), s # <<>>
  PROVE  /\ Len(s) \in Nat \ {0} /\ DOMAIN s = 1..Len(s)
         /\ Len(s) \in DOMAIN s /\ s[Len(s)] = Last(s) /\ Last(s) \in Frame
BY DEF Last

(* Goto changes the place of the innermost activation. *)
LEMMA GotoTop ==
  ASSUME NEW at \in Places, stack \in Seq(Frame), stack # <<>>, Goto(at)
  PROVE  /\ [Top EXCEPT !.at = at] \in Frame
         /\ stack' = [stack EXCEPT ![Len(stack)] = [Top EXCEPT !.at = at]]
BY TopIsFrame DEF Goto, Top, Frame, Last

(* Something happens to the innermost activation only. *)
LEMMA ReplacedStack ==
  ASSUME stack \in Seq(Frame), OneClick, stack # <<>>, NEW f \in Frame, f.page = Top.page,
         Waits(f) => f.todo # <<>>,
         stack' = [stack EXCEPT ![Len(stack)] = f]
  PROVE  /\ stack' \in Seq(Frame) /\ stack' # <<>> /\ Len(stack') = Len(stack)
         /\ Len(stack) \in Nat \ {0} /\ DOMAIN stack = 1..Len(stack)
         /\ DOMAIN stack' = 1..Len(stack) /\ Top' = f /\ OneClick'
         /\ \A i \in 1..(Len(stack) - 1) : stack'[i] = stack[i]
         /\ stack'[Len(stack)] = f /\ Top = stack[Len(stack)]
<1> DEFINE n == Len(stack)
<1>1. n \in Nat \ {0} /\ n \in 1..Len(stack) /\ DOMAIN stack = 1..n /\ Top = stack[n]
  BY TopIsFrame DEF Top
<1>2. /\ stack' \in Seq(Frame) /\ Len(stack') = n
      /\ \A j \in 1..n : stack'[j] = IF j = n THEN f ELSE stack[j]
  BY <1>1, ExceptSeq
<1>3. stack' # <<>> /\ DOMAIN stack' = 1..n /\ Top' = stack'[n]
  BY <1>1, <1>2 DEF Top, Last
<1> HIDE DEF n
<1>4. Top' = f /\ stack'[n] = f /\ \A i \in 1..(n - 1) : stack'[i] = stack[i]
  BY <1>1, <1>2, <1>3
<1>5. ASSUME NEW i \in DOMAIN stack'
      PROVE  /\ stack'[i].page = f.page /\ (i < Len(stack') => stack'[i].at = "check")
             /\ Waits(stack'[i]) => stack'[i].todo # <<>>
  <2>1. i = n \/ (i \in 1..(n - 1) /\ i \in DOMAIN stack /\ i < n)
    BY <1>1, <1>3
  <2>2. ~(n < Len(stack'))
    BY <1>1, <1>2
  <2>3. CASE i = n
    BY <1>4, <2>2, <2>3
  <2>4. CASE i \in 1..(n - 1) /\ i \in DOMAIN stack /\ i < n
    BY <1>4, <2>4 DEF OneClick, n
  <2> QED BY <2>1, <2>3, <2>4
<1>6. OneClick'
  BY <1>4, <1>5 DEF OneClick
<1>7. Len(stack) = n /\ Len(stack') = n
  BY <1>2 DEF n
<1> QED BY <1>1, <1>2, <1>3, <1>4, <1>6, <1>7

(* An activation that issues another. *)
LEMMA PushedStack ==
  ASSUME stack \in Seq(Frame), OneClick, stack # <<>>, NEW f \in Frame, f.page = Top.page,
         f.at = "check", f.todo # <<>>, NEW g \in Frame, g.page = Top.page, ~Waits(g),
         stack' = Append([stack EXCEPT ![Len(stack)] = f], g)
  PROVE  /\ stack' \in Seq(Frame) /\ stack' # <<>> /\ Len(stack') = Len(stack) + 1
         /\ Len(stack) \in Nat \ {0} /\ DOMAIN stack = 1..Len(stack)
         /\ DOMAIN stack' = 1..(Len(stack) + 1) /\ Top' = g /\ OneClick'
         /\ \A i \in 1..(Len(stack) - 1) : stack'[i] = stack[i]
         /\ stack'[Len(stack)] = f /\ stack'[Len(stack) + 1] = g /\ Top = stack[Len(stack)]
<1> DEFINE n == Len(stack)
           r == [stack EXCEPT ![n] = f]
<1>1. n \in Nat \ {0} /\ n \in 1..Len(stack) /\ DOMAIN stack = 1..n /\ Top = stack[n]
  BY TopIsFrame DEF Top
<1>2. /\ r \in Seq(Frame) /\ Len(r) = n
      /\ \A j \in 1..n : r[j] = IF j = n THEN f ELSE stack[j]
  BY <1>1, ExceptSeq
<1>3. stack' = Append(r, g)
  OBVIOUS
<1> HIDE DEF r
<1>4. /\ stack' \in Seq(Frame) /\ stack' # <<>> /\ Len(stack') = Len(r) + 1
      /\ \A i \in 1..Len(r) : stack'[i] = r[i]
      /\ stack'[Len(r) + 1] = g
  BY <1>2, <1>3, AppendProperties
<1>5. DOMAIN stack' = 1..Len(stack') /\ Top' = stack'[Len(stack')]
  BY <1>4, LenProperties DEF Top, Last
<1> HIDE DEF n
<1>6. /\ Len(stack') = n + 1 /\ Top' = g /\ stack'[n] = f /\ stack'[n + 1] = g
      /\ \A i \in 1..(n - 1) : stack'[i] = stack[i]
  BY <1>1, <1>2, <1>4, <1>5
<1>7. ASSUME NEW i \in DOMAIN stack'
      PROVE  /\ stack'[i].page = g.page /\ (i < Len(stack') => stack'[i].at = "check")
             /\ Waits(stack'[i]) => stack'[i].todo # <<>>
  <2>1. \/ i = n + 1
        \/ i = n
        \/ i \in 1..(n - 1) /\ i \in DOMAIN stack /\ i < n
    BY <1>1, <1>5, <1>6
  <2>2. ~(n + 1 < Len(stack'))
    BY <1>1, <1>6
  <2>3. CASE i = n + 1
    BY <1>6, <2>2, <2>3
  <2>4. CASE i = n
    BY <1>6, <2>4
  <2>5. CASE i \in 1..(n - 1) /\ i \in DOMAIN stack /\ i < n
    BY <1>6, <2>5 DEF OneClick, n
  <2> QED BY <2>1, <2>3, <2>4, <2>5
<1>8. OneClick'
  BY <1>6, <1>7 DEF OneClick
<1>9. Len(stack) = n
  BY DEF n
<1> QED BY <1>1, <1>4, <1>5, <1>6, <1>8, <1>9

(* An activation that returns to the one that issued it, or to the event loop. *)
LEMMA PoppedStack ==
  ASSUME stack \in Seq(Frame), OneClick, stack # <<>>, stack' = Front(stack)
  PROVE  /\ stack' \in Seq(Frame) /\ Len(stack') = Len(stack) - 1 /\ OneClick'
         /\ Len(stack) \in Nat \ {0} /\ DOMAIN stack = 1..Len(stack)
         /\ DOMAIN stack' = 1..(Len(stack) - 1) /\ Top = stack[Len(stack)]
         /\ \A i \in 1..(Len(stack) - 1) : stack'[i] = stack[i]
         /\ stack' # <<>> => /\ Len(stack) - 1 \in DOMAIN stack /\ Top' = stack[Len(stack) - 1]
                             /\ Top'.page = Top.page /\ Top'.at = "check"
<1> DEFINE n == Len(stack)
<1>1. /\ stack' \in Seq(Frame) /\ Len(stack') = n - 1
      /\ DOMAIN stack' = 1..(n - 1)
      /\ \A i \in 1..(n - 1) : stack'[i] = stack[i]
      /\ stack' # <<>> => n - 1 \in DOMAIN stack /\ Last(stack') = stack[n - 1]
  <2>1. n \in Nat \ {0} /\ DOMAIN stack = 1..n
    OBVIOUS
  <2>2. stack' \in Seq(Frame) /\ Len(stack') = n - 1 /\ \A i \in 1..(n - 1) : stack'[i] = stack[i]
    BY <2>1 DEF Front
  <2> QED BY <2>1, <2>2 DEF Last
<1>2. n \in Nat \ {0} /\ DOMAIN stack = 1..n /\ Top = stack[n]
  BY TopIsFrame DEF Top
<1>3. ASSUME stack' # <<>>
      PROVE  /\ Top' = stack[n - 1] /\ n - 1 < n
             /\ Top'.page = Top.page /\ Top'.at = "check"
  <2>1. Top' = stack[n - 1] /\ n - 1 \in DOMAIN stack /\ n - 1 < n
    BY <1>1, <1>2, <1>3 DEF Top
  <2> QED BY <2>1 DEF OneClick
<1>4. ASSUME NEW i \in DOMAIN stack'
      PROVE  /\ stack'[i].page = Top.page /\ (i < Len(stack') => stack'[i].at = "check")
             /\ Waits(stack'[i]) => stack'[i].todo # <<>>
  <2>1. i \in 1..(n - 1) /\ i \in DOMAIN stack /\ i < n
    BY <1>1, <1>2
  <2> QED BY <1>1, <2>1 DEF OneClick
<1>5. ASSUME NEW i \in DOMAIN stack'
      PROVE  stack' # <<>>
  BY <1>1, <1>2
<1>6. OneClick'
  BY <1>3, <1>4, <1>5 DEF OneClick
<1> QED BY <1>1, <1>2, <1>3, <1>6

-----------------------------------------------------------------------------
(* Sockets, buffers and marks. *)

(* What was received stays so while nothing is typed, evaluated or lost. *)
LEMMA ReceivedStays ==
  ASSUME UNCHANGED <<lines, ran>>
  PROVE  \A b : Received(b) \subseteq Received(b)'
BY DEF Received

(* A step that adds no marks and leads no page to a buffer it did not lead to
   before, but for pages without marks, and loses nothing that was sent.    *)
LEMMA NothingMarked ==
  ASSUME MarksAreSent, deaths' = 0 => deaths = 0,
         \A p \in Pages, b \in Buffers : Leads(p, b)' =>
           \/ executed'[p] = {}
           \/ Leads(p, b) /\ executed'[p] \subseteq executed[p] /\ Received(b) \subseteq Received(b)'
  PROVE  MarksAreSent'
<1> SUFFICES ASSUME ~Reuse \/ deaths' = 0, NEW p \in Pages, NEW b \in Buffers, Leads(p, b)'
             PROVE  executed'[p] \subseteq Received(b)'
  BY DEF MarksAreSent
<1>1. Leads(p, b) => executed[p] \subseteq Received(b)
  BY DEF MarksAreSent
<1>2. CASE executed'[p] = {}
  BY <1>2
<1>3. CASE Leads(p, b) /\ executed'[p] \subseteq executed[p] /\ Received(b) \subseteq Received(b)'
  BY <1>1, <1>3
<1> QED BY <1>2, <1>3

(* The innermost activation is for a page and a command. *)
LEMMA TopParts ==
  ASSUME HyperSpadTypeOK, OneClick, stack # <<>>
  PROVE  /\ stack \in Seq(Frame) /\ Top \in Frame /\ Top.page \in Pages
         /\ Top.cmd \in Commands /\ Top.at \in Places /\ Top.todo \in Seq(Label)
         /\ Frees[Top.cmd] \in Seq(Label) /\ (Waits(Top) => Top.todo # <<>>)
<1>1. stack \in Seq(Frame) /\ Top \in Frame
  BY TopIsFrame DEF HyperSpadTypeOK, Top
<1>2. Top.page \in Pages /\ Top.cmd \in Commands /\ Top.at \in Places /\ Top.todo \in Seq(Label)
  BY <1>1 DEF Frame
<1>3. Waits(Top) => Top.todo # <<>>
  BY TopIsFrame DEF HyperSpadTypeOK, OneClick, Top
<1> QED BY <1>1, <1>2, <1>3, SpadAssumption DEF Label

(* A line that is typed is received, and nothing is lost by it. *)
LEMMA SentIsReceived ==
  ASSUME HyperSpadTypeOK, NEW line \in Line, UNCHANGED ran,
         \/ UNCHANGED lines
         \/ \E t \in Buffers : lines' = [lines EXCEPT ![t] = Append(@, line)]
  PROVE  /\ \A d \in Buffers : Received(d) \subseteq Received(d)'
         /\ \A t \in Buffers : lines' = [lines EXCEPT ![t] = Append(@, line)] => line.cmd \in Received(t)'
<1>1. ASSUME NEW t \in Buffers, lines' = [lines EXCEPT ![t] = Append(@, line)]
      PROVE  /\ \A d \in Buffers : Received(d) \subseteq Received(d)'
             /\ line.cmd \in Received(t)'
  <2> DEFINE old == lines[t]
             new == lines'[t]
  <2>1. old \in Seq(Line) /\ new = Append(old, line)
    BY <1>1 DEF HyperSpadTypeOK
  <2>2. /\ DOMAIN old \subseteq DOMAIN new /\ \A i \in DOMAIN old : new[i] = old[i]
        /\ Len(old) + 1 \in DOMAIN new /\ new[Len(old) + 1] = line
    <3> HIDE DEF old, new
    <3> QED BY <2>1
  <2>3. \A d \in Buffers \ {t} : lines'[d] = lines[d]
    BY <1>1 DEF HyperSpadTypeOK
  <2>4. ASSUME NEW d \in Buffers
        PROVE  Received(d) \subseteq Received(d)'
    <3>1. CASE d = t
      BY <2>2, <3>1 DEF Received
    <3>2. CASE d # t
      BY <2>3, <3>2 DEF Received
    <3> QED BY <3>1, <3>2
  <2>5. line.cmd \in Received(t)'
    BY <2>2 DEF Received
  <2> QED BY <2>4, <2>5
<1>2. CASE UNCHANGED lines
  BY <1>1, <1>2 DEF Received
<1> QED BY <1>1, <1>2

(* A line that is evaluated has been received. *)
LEMMA TakenIsReceived ==
  ASSUME HyperSpadTypeOK, NEW b \in Buffers, lines[b] # <<>>, NEW e, e.sent = Head(lines[b]).cmd,
         lines' = [lines EXCEPT ![b] = Tail(@)], ran' = [ran EXCEPT ![b] = Append(@, e)]
  PROVE  \A d \in Buffers : Received(d) \subseteq Received(d)'
<1> DEFINE old == lines[b]
           new == lines'[b]
           was == ran[b]
           is  == ran'[b]
           Run == [sent : Commands, got : Commands]
<1>1. old \in Seq(Line) /\ old # <<>> /\ new = Tail(old) /\ was \in Seq(Run) /\ is = Append(was, e)
  BY DEF HyperSpadTypeOK
<1>2. \A d \in Buffers \ {b} : lines'[d] = lines[d] /\ ran'[d] = ran[d]
  BY DEF HyperSpadTypeOK
<1>3. e.sent = old[1].cmd
  BY <1>1
<1> HIDE DEF old, new, was, is
<1>4. \A i \in DOMAIN old : i = 1 \/ (i - 1 \in DOMAIN new /\ new[i - 1] = old[i])
  BY <1>1
<1>5. /\ \A i \in DOMAIN was : i \in DOMAIN is /\ is[i] = was[i]
      /\ Len(was) + 1 \in DOMAIN is /\ is[Len(was) + 1] = e
  BY <1>1
<1>6. {old[i].cmd : i \in DOMAIN old} \subseteq {new[i].cmd : i \in DOMAIN new} \union {is[i].sent : i \in DOMAIN is}
  <2> SUFFICES ASSUME NEW i \in DOMAIN old
               PROVE  old[i].cmd \in {new[j].cmd : j \in DOMAIN new} \union {is[j].sent : j \in DOMAIN is}
    OBVIOUS
  <2>1. CASE i = 1
    BY <1>3, <1>5, <2>1
  <2>2. CASE i # 1
    BY <1>4, <2>2
  <2> QED BY <2>1, <2>2
<1>7. {was[i].sent : i \in DOMAIN was} \subseteq {is[i].sent : i \in DOMAIN is}
  BY <1>5
<1>8. Received(b) \subseteq Received(b)'
  BY <1>6, <1>7 DEF Received, old, new, was, is
<1>9. \A d \in Buffers \ {b} : Received(d)' = Received(d)
  BY <1>2 DEF Received
<1> QED BY <1>8, <1>9

-----------------------------------------------------------------------------
(* Lines and dependencies. *)

(* Whatever was marked stays so. *)
Grows(marks, more) == \A p \in Pages : marks[p] \subseteq more[p]

(* What an activation has passed stays passed when marks are added. *)
LEMMA PassedStays ==
  ASSUME NEW f \in Frame, NEW marks, NEW more, Passed(f, marks), Grows(marks, more)
  PROVE  Passed(f, more)
<1>1. f.page \in Pages
  BY DEF Frame
<1> QED BY <1>1 DEF Passed, Grows

(* The innermost activation goes on. *)
LEMMA FramesReplaced ==
  ASSUME stack \in Seq(Frame), OneClick, stack # <<>>, NEW f \in Frame, f.page = Top.page,
         Waits(f) => f.todo # <<>>,
         stack' = [stack EXCEPT ![Len(stack)] = f], f.cmd = Top.cmd,
         FramesAreRight, Grows(executed, executed'), Passed(f, executed'), Returned(f, executed')
  PROVE  FramesAreRight'
<1> DEFINE n == Len(stack)
<1>1. /\ n \in Nat \ {0} /\ DOMAIN stack = 1..n /\ Len(stack') = n /\ DOMAIN stack' = 1..n
      /\ Top' = f /\ stack'[n] = f /\ Top = stack[n]
      /\ \A i \in 1..(n - 1) : stack'[i] = stack[i]
  BY ReplacedStack
<1>2. \A i \in 1..n : stack[i] \in Frame
  BY ElementOfSeq
<1>3. \A i \in 1..n : Passed(stack[i], executed) /\ (i < n => Head(stack[i].todo) = stack[i + 1].cmd)
  BY <1>1 DEF FramesAreRight
<1> HIDE DEF n
<1>4. ASSUME NEW i \in 1..n
      PROVE  /\ Passed(stack'[i], executed')
             /\ i < n => Head(stack'[i].todo) = stack'[i + 1].cmd
  <2>1. CASE i = n
    BY <1>1, <2>1
  <2>2. CASE i # n
    <3>1. i \in 1..(n - 1) /\ (i + 1 \in 1..(n - 1) \/ i + 1 = n) /\ i < n
      BY <1>1, <2>2
    <3>2. stack'[i] = stack[i] /\ stack'[i + 1].cmd = stack[i + 1].cmd
      BY <1>1, <3>1
    <3>3. Passed(stack[i], executed')
      BY <1>2, <1>3, PassedStays
    <3> QED BY <1>3, <3>1, <3>2, <3>3
  <2> QED BY <2>1, <2>2
<1> QED BY <1>1, <1>4 DEF FramesAreRight

(* It issues what its next free label names. *)
LEMMA FramesPushed ==
  ASSUME stack \in Seq(Frame), OneClick, stack # <<>>, NEW f \in Frame, f.page = Top.page,
         f.at = "check", f.todo # <<>>, NEW g \in Frame, g.page = Top.page, ~Waits(g),
         stack' = Append([stack EXCEPT ![Len(stack)] = f], g), f.cmd = Top.cmd,
         g.at = "test", Head(f.todo) = g.cmd,
         FramesAreRight, executed' = executed, Passed(f, executed)
  PROVE  FramesAreRight'
<1> DEFINE n == Len(stack)
<1>1. /\ n \in Nat \ {0} /\ DOMAIN stack = 1..n /\ Len(stack') = n + 1 /\ DOMAIN stack' = 1..(n + 1)
      /\ Top' = g /\ stack'[n] = f /\ stack'[n + 1] = g /\ Top = stack[n]
      /\ \A i \in 1..(n - 1) : stack'[i] = stack[i]
  BY PushedStack
<1>2. \A i \in 1..n : Passed(stack[i], executed) /\ (i < n => Head(stack[i].todo) = stack[i + 1].cmd)
  BY <1>1 DEF FramesAreRight
<1> HIDE DEF n
<1>3. Passed(g, executed) /\ Returned(g, executed)
  BY DEF Passed, Returned
<1>4. ASSUME NEW i \in 1..(n + 1)
      PROVE  /\ Passed(stack'[i], executed)
             /\ i < n + 1 => Head(stack'[i].todo) = stack'[i + 1].cmd
  <2>1. CASE i = n + 1
    BY <1>1, <1>3, <2>1
  <2>2. CASE i = n
    BY <1>1, <2>2
  <2>3. CASE i # n /\ i # n + 1
    <3>1. i \in 1..(n - 1) /\ (i + 1 \in 1..(n - 1) \/ i + 1 = n) /\ i < n /\ i \in 1..n
      BY <1>1, <2>3
    <3>2. stack'[i] = stack[i] /\ stack'[i + 1].cmd = stack[i + 1].cmd
      BY <1>1, <3>1
    <3> QED BY <1>2, <3>1, <3>2
  <2> QED BY <2>1, <2>2, <2>3
<1> QED BY <1>1, <1>3, <1>4 DEF FramesAreRight

(* It returns: what it was issued for is marked. *)
LEMMA FramesPopped ==
  ASSUME stack \in Seq(Frame), OneClick, stack # <<>>, stack' = Front(stack),
         Top.at = "reset", FramesAreRight, executed' = executed
  PROVE  FramesAreRight'
<1> DEFINE n == Len(stack)
<1>1. /\ n \in Nat \ {0} /\ DOMAIN stack = 1..n /\ Len(stack') = n - 1 /\ DOMAIN stack' = 1..(n - 1)
      /\ Top = stack[n] /\ \A i \in 1..(n - 1) : stack'[i] = stack[i]
      /\ stack' # <<>> => /\ n - 1 \in DOMAIN stack /\ Top' = stack[n - 1]
                          /\ Top'.page = Top.page /\ Top'.at = "check"
  BY PoppedStack
<1>2. \A i \in 1..n : Passed(stack[i], executed) /\ (i < n => Head(stack[i].todo) = stack[i + 1].cmd)
  BY <1>1 DEF FramesAreRight
<1>3. Top.cmd \in executed[Top.page]
  BY DEF FramesAreRight, Returned
<1> HIDE DEF n
<1>4. ASSUME stack' # <<>>
      PROVE  Returned(Top', executed)
  <2>1. n - 1 \in 1..n /\ n - 1 < n /\ (n - 1) + 1 = n
    BY <1>1, <1>4
  <2>2. Head(stack[n - 1].todo) = Top.cmd
    BY <1>1, <1>2, <2>1
  <2> QED BY <1>1, <1>3, <1>4, <2>2 DEF Returned
<1>5. ASSUME NEW i \in 1..(n - 1)
      PROVE  /\ Passed(stack'[i], executed)
             /\ i < n - 1 => Head(stack'[i].todo) = stack'[i + 1].cmd
  <2>1. i \in 1..n /\ i < n /\ (i < n - 1 => i + 1 \in 1..(n - 1))
    BY <1>1
  <2> QED BY <1>1, <1>2, <2>1
<1> QED BY <1>1, <1>4, <1>5 DEF FramesAreRight

(* What a line may find while no line is typed, taken or ended. *)
LEMMA LinesStay ==
  ASSUME UNCHANGED <<lines, ran, lisp, signal, pile>>, OneLine, LineIsRight, RanIsRight
  PROVE  OneLine' /\ LineIsRight' /\ RanIsRight' /\ (Settled => Settled')
BY DEF OneLine, LineIsRight, RanIsRight, Settled

(* The stack of activations and the marks stay. *)
LEMMA FramesStay ==
  ASSUME stack' = stack, executed' = executed, FramesAreRight
  PROVE  FramesAreRight'
BY DEF FramesAreRight, Top

(* A click puts its command on an empty stack. *)
LEMMA ClickKeeps ==
  ASSUME SpadInv, NEW p \in Pages, NEW c \in Commands, Click(p, c)
  PROVE  SpadInv'
<1> USE SpadAssumption DEF SpadInv, SocketInv
<1>1. Call(p, c) \in Frame /\ Call(p, c).at = "test" /\ Call(p, c).page = p /\ ~Waits(Call(p, c))
  BY DEF Call, Frame, Places, Waits
<1> DEFINE g == Call(p, c)
<1>2. stack = <<>> /\ stack' = <<g>>
  BY DEF Click
<1> HIDE DEF g
<1>3. stack' \in Seq(Frame) /\ stack' # <<>> /\ Top' = Call(p, c) /\ OneClick'
  <2>1. /\ stack' \in Seq(Frame) /\ stack' # <<>> /\ Len(stack') = 1 /\ stack'[1] = g
        /\ DOMAIN stack' = {1}
    BY <1>2, <1>1 DEF g
  <2>2. Top' = g /\ ~Waits(g)
    BY <1>1, <2>1 DEF Top, Last, g
  <2>3. ASSUME NEW i \in DOMAIN stack'
        PROVE  /\ stack'[i].page = Top'.page /\ (i < Len(stack') => stack'[i].at = "check")
               /\ Waits(stack'[i]) => stack'[i].todo # <<>>
    <3>1. stack'[i] = g /\ ~(i < Len(stack'))
      BY <2>1
    <3> QED BY <2>2, <3>1
  <2>4. OneClick'
    BY <2>3 DEF OneClick
  <2> QED BY <2>1, <2>2, <2>4 DEF g
<1>4. HyperSpadTypeOK'
  <2>1. clicks' \in 0..Clicks
    BY DEF HyperSpadTypeOK, Click
  <2> QED BY <1>3, <2>1 DEF HyperSpadTypeOK, Click, server
<1>5. SocketOfPage'
  BY <1>2, <1>1, <1>3 DEF SocketOfPage, Click, hyper, server, counts, At
<1>6. NodesLead'
  BY DEF NodesLead, Click, hyper, server, counts, HyperSpadTypeOK
<1>7. NoSocketNoMarks'
  BY DEF NoSocketNoMarks, Click, hyper, server, counts, HyperSpadTypeOK
<1>8. AllAlive'
  BY DEF AllAlive, Click, hyper, server, counts, HyperSpadTypeOK
<1>9. MarksAreSent'
  BY NothingMarked, ReceivedStays DEF Leads, Click, hyper, server, counts
<1>10. FileWritten'
  BY DEF FileWritten, Click, hyper, server, counts
<1>11. Calm' => CalmParts'
  <2> SUFFICES ASSUME Calm'
               PROVE  CalmParts'
    OBVIOUS
  <2>1. Calm /\ CalmParts
    BY DEF Calm, Click, counts
  <2>2. UNCHANGED <<lines, ran, lisp, signal, pile, executed>>
    BY DEF Click, server, hyper
  <2>3. OneLine' /\ LineIsRight' /\ RanIsRight' /\ (Settled => Settled')
    BY <2>1, <2>2, LinesStay DEF CalmParts
  <2>4. FramesAreRight'
    <3>1. /\ DOMAIN stack' = {1} /\ Len(stack') = 1 /\ stack'[1] = g /\ Top' = g
      BY <1>2, <1>3 DEF g
    <3>2. Passed(g, executed') /\ Returned(g, executed')
      BY <1>1 DEF Passed, Returned, g, Waits
    <3>3. ASSUME NEW i \in DOMAIN stack'
          PROVE  /\ Passed(stack'[i], executed')
                 /\ i < Len(stack') => Head(stack'[i].todo) = stack'[i + 1].cmd
      <4>1. stack'[i] = g /\ ~(i < Len(stack'))
        BY <3>1
      <4> QED BY <3>2, <4>1
    <3> QED BY <3>1, <3>2, <3>3 DEF FramesAreRight
  <2>5. SettledThere'
    <3>1. Settled
      BY <2>1 DEF Click, Quiet, Settled, Calm
    <3> QED BY <1>1, <1>3, <2>3, <3>1 DEF SettledThere
  <2> QED BY <2>3, <2>4, <2>5 DEF CalmParts
<1> QED BY <1>4, <1>3, <1>5, <1>6, <1>7, <1>8, <1>9, <1>10, <1>11

(* The buffer is started for the page that waits for it. *)
LEMMA StartUserBufferKeeps ==
  ASSUME SpadInv, StartUserBuffer
  PROVE  SpadInv'
<1> USE SpadAssumption DEF SpadInv, SocketInv
<1>1. /\ stack \in Seq(Frame) /\ stack # <<>> /\ Top \in Frame /\ Top.page \in Pages
      /\ Top.cmd \in Commands /\ Top.at \in Places /\ Top.todo \in Seq(Label)
      /\ Frees[Top.cmd] \in Seq(Label) /\ (Waits(Top) => Top.todo # <<>>)
  BY TopParts DEF StartUserBuffer, At
<1> DEFINE f == [Top EXCEPT !.at = "accept"]
<1>2. f \in Frame /\ f.page = Top.page /\ f.at = "accept" /\ f.cmd = Top.cmd /\ (Waits(f) => f.todo # <<>>)
  BY <1>1 DEF Frame, Places, Waits, StartUserBuffer, At
<1>3. stack' = [stack EXCEPT ![Len(stack)] = f]
  BY <1>1, TopIsFrame DEF StartUserBuffer, Goto, Top, Last
<1>4. stack' \in Seq(Frame) /\ stack' # <<>> /\ Top' = f /\ OneClick'
  BY <1>1, <1>2, <1>3, ReplacedStack
<1> HIDE DEF f
<1>5. HyperSpadTypeOK'
  BY <1>1, <1>4 DEF HyperSpadTypeOK, StartUserBuffer, hyper, server, counts
<1>6. SocketOfPage'
  <2>1. /\ At("test") /\ sock' = sock /\ sock[Top.page] = None
      /\ \A b \in Buffers : buf[b] \notin {"launched", "connecting"}
    BY DEF StartUserBuffer, SocketOfPage, At
  <2>2. PICK b \in Buffers : /\ buf' = [buf EXCEPT ![b] = "launched"]
                             /\ title' = [title EXCEPT ![b] = Top.page]
    BY DEF StartUserBuffer
  <2>3. \A d \in Buffers : buf'[d] \in {"launched", "connecting"} => d = b /\ title'[d] = Top.page
    BY <2>1, <2>2 DEF HyperSpadTypeOK
  <2> QED BY <1>2, <1>4, <2>1, <2>3 DEF SocketOfPage, At
<1>7. NodesLead'
  BY DEF NodesLead, StartUserBuffer, hyper, server, counts, HyperSpadTypeOK
<1>8. NoSocketNoMarks'
  BY DEF NoSocketNoMarks, StartUserBuffer, hyper, server, counts, HyperSpadTypeOK
<1>9. AllAlive'
  BY DEF AllAlive, StartUserBuffer, hyper, server, counts, HyperSpadTypeOK
<1>10. MarksAreSent'
  BY NothingMarked, ReceivedStays DEF Leads, StartUserBuffer, hyper, server, counts
<1>11. FileWritten'
  BY DEF FileWritten, StartUserBuffer, hyper, server, counts
<1>12. Calm' => CalmParts'
  <2> SUFFICES ASSUME Calm'
               PROVE  CalmParts'
    OBVIOUS
  <2>1. Calm /\ CalmParts
    BY DEF Calm, StartUserBuffer, counts
  <2>2. UNCHANGED <<lines, ran, lisp, signal, pile, executed>>
    BY DEF StartUserBuffer, server, hyper
  <2>3. OneLine' /\ LineIsRight' /\ RanIsRight' /\ (Settled => Settled')
    BY <2>1, <2>2, LinesStay DEF CalmParts
  <2>6. Passed(f, executed') /\ Returned(f, executed')
    BY <1>2 DEF Passed, Returned, Waits
  <2>4. FramesAreRight'
    BY <1>1, <1>2, <1>3, <2>1, <2>2, <2>6, FramesReplaced DEF CalmParts, Grows
  <2>5. SettledThere'
    BY <1>2, <1>4, <2>1, <2>2, <2>3 DEF SettledThere, CalmParts, Waits, At, StartUserBuffer
  <2> QED BY <2>3, <2>4, <2>5 DEF CalmParts
<1> QED BY <1>5, <1>4, <1>6, <1>7, <1>8, <1>9, <1>10, <1>11, <1>12

(* Where a buffer answers, its page has a socket. *)
LEMMA TestLineSentKeeps ==
  ASSUME SpadInv, TestLineSent
  PROVE  SpadInv'
<1> USE SpadAssumption DEF SpadInv, SocketInv
<1>1. /\ stack \in Seq(Frame) /\ stack # <<>> /\ Top \in Frame /\ Top.page \in Pages
      /\ Top.cmd \in Commands /\ Top.at \in Places /\ Top.todo \in Seq(Label)
      /\ Frees[Top.cmd] \in Seq(Label) /\ (Waits(Top) => Top.todo # <<>>)
  BY TopParts DEF TestLineSent, At
<1> DEFINE f == [Top EXCEPT !.at = "depend", !.todo = Frees[Top.cmd]]
<1>2. f \in Frame /\ f.page = Top.page /\ f.at = "depend" /\ f.cmd = Top.cmd /\ (Waits(f) => f.todo # <<>>)
  BY <1>1 DEF Frame, Places, Waits, TestLineSent, At
<1>3. stack' = [stack EXCEPT ![Len(stack)] = f]
  BY <1>1, TopIsFrame DEF TestLineSent, Goto, Top, Last
<1>4. stack' \in Seq(Frame) /\ stack' # <<>> /\ Top' = f /\ OneClick'
  BY <1>1, <1>2, <1>3, ReplacedStack
<1> HIDE DEF f
<1>5. HyperSpadTypeOK'
  BY <1>4 DEF HyperSpadTypeOK, TestLineSent, hyper, server, counts
<1>6. SocketOfPage'
  BY <1>1, <1>2, <1>4 DEF SocketOfPage, TestLineSent, hyper, server, counts, At, Reaches
<1>7. NodesLead'
  BY DEF NodesLead, TestLineSent, hyper, server, counts, HyperSpadTypeOK
<1>8. NoSocketNoMarks'
  BY DEF NoSocketNoMarks, TestLineSent, hyper, server, counts, HyperSpadTypeOK
<1>9. AllAlive'
  BY DEF AllAlive, TestLineSent, hyper, server, counts, HyperSpadTypeOK
<1>10. MarksAreSent'
  BY NothingMarked, ReceivedStays DEF Leads, TestLineSent, hyper, server, counts
<1>11. FileWritten'
  BY DEF FileWritten, TestLineSent, hyper, server, counts
<1>12. Calm' => CalmParts'
  <2> SUFFICES ASSUME Calm'
               PROVE  CalmParts'
    OBVIOUS
  <2>1. Calm /\ CalmParts
    BY DEF Calm, TestLineSent, counts
  <2>2. UNCHANGED <<lines, ran, lisp, signal, pile, executed>>
    BY DEF TestLineSent, server, hyper
  <2>3. OneLine' /\ LineIsRight' /\ RanIsRight' /\ (Settled => Settled')
    BY <2>1, <2>2, LinesStay DEF CalmParts
  <2>6. Passed(f, executed') /\ Returned(f, executed')
    BY <1>2 DEF Passed, Returned, Waits, f
  <2>4. FramesAreRight'
    BY <1>1, <1>2, <1>3, <2>1, <2>2, <2>6, FramesReplaced DEF CalmParts, Grows
  <2>5. SettledThere'
    BY <1>2, <1>4, <2>1, <2>2, <2>3 DEF SettledThere, CalmParts, Waits, At, TestLineSent
  <2> QED BY <2>3, <2>4, <2>5 DEF CalmParts
<1> QED BY <1>5, <1>4, <1>6, <1>7, <1>8, <1>9, <1>10, <1>11, <1>12

(* The marks go with the socket. *)
LEMMA TestLineFailedKeeps ==
  ASSUME SpadInv, TestLineFailed
  PROVE  SpadInv'
<1> USE SpadAssumption DEF SpadInv, SocketInv
<1>1. stack' = stack /\ Top' = Top /\ OneClick'
  BY DEF TestLineFailed, hyper, server, counts, Top, OneClick
<1>2. HyperSpadTypeOK'
  BY <1>1 DEF HyperSpadTypeOK, TestLineFailed, hyper, server, counts
<1>3. SocketOfPage'
  BY <1>1 DEF SocketOfPage, TestLineFailed, hyper, server, counts, At
<1>4. NodesLead'
  BY DEF NodesLead, TestLineFailed, hyper, server, counts, HyperSpadTypeOK
<1>5. NoSocketNoMarks'
  BY DEF NoSocketNoMarks, TestLineFailed, hyper, server, counts, HyperSpadTypeOK
<1>6. AllAlive'
  BY DEF AllAlive, TestLineFailed, hyper, server, counts, HyperSpadTypeOK
<1>7. MarksAreSent'
  BY NothingMarked, ReceivedStays DEF Leads, TestLineFailed, hyper, server, counts
<1>8. FileWritten'
  BY DEF FileWritten, TestLineFailed, hyper, server, counts
<1>9. Calm' => CalmParts'
  <2> SUFFICES ASSUME Calm'
               PROVE  FALSE
    OBVIOUS
  <2>1. Calm
    BY DEF Calm, TestLineFailed, counts
  <2>2. Top.page \in Pages /\ sock[Top.page] # None /\ ~Reaches(Top.page)
    <3>1. stack # <<>> /\ sock[Top.page] # None /\ ~Reaches(Top.page)
      BY DEF TestLineFailed, At
    <3>2. HyperSpadTypeOK /\ OneClick
      OBVIOUS
    <3> QED BY <3>1, <3>2, TopParts
  <2>3. \A p \in Pages : sock[p] # None => Reaches(p)
    <3> SUFFICES ASSUME NEW p \in Pages, sock[p] # None
                 PROVE  Reaches(p)
      OBVIOUS
    <3>1. node[sock[p]] # None /\ \A b \in Buffers : buf[b] # "dead"
      BY <2>1 DEF Calm, AllAlive
    <3>2. sock[p] \in Nodes /\ node \in [Nodes -> Buffers \union {None}]
      BY DEF HyperSpadTypeOK
    <3>3. node[sock[p]] \in Buffers
      BY <3>1, <3>2
    <3>4. buf[node[sock[p]]] \in {"open", "dead"}
      BY <3>1, <3>2 DEF NodesLead
    <3> QED BY <3>1, <3>3, <3>4 DEF Reaches
  <2> QED BY <2>2, <2>3
<1> QED BY <1>2, <1>1, <1>3, <1>4, <1>5, <1>6, <1>7, <1>8, <1>9

(* Nothing is left to wait for. *)
LEMMA DependDoneKeeps ==
  ASSUME SpadInv, DependDone
  PROVE  SpadInv'
<1> USE SpadAssumption DEF SpadInv, SocketInv
<1>1. /\ stack \in Seq(Frame) /\ stack # <<>> /\ Top \in Frame /\ Top.page \in Pages
      /\ Top.cmd \in Commands /\ Top.at \in Places /\ Top.todo \in Seq(Label)
      /\ Frees[Top.cmd] \in Seq(Label) /\ (Waits(Top) => Top.todo # <<>>)
  BY TopParts DEF DependDone, At
<1> DEFINE f == [Top EXCEPT !.at = "send"]
<1>2. f \in Frame /\ f.page = Top.page /\ f.at = "send" /\ f.cmd = Top.cmd /\ (Waits(f) => f.todo # <<>>)
  BY <1>1 DEF Frame, Places, Waits, DependDone, At
<1>3. stack' = [stack EXCEPT ![Len(stack)] = f]
  BY <1>1, TopIsFrame DEF DependDone, Goto, Top, Last
<1>4. stack' \in Seq(Frame) /\ stack' # <<>> /\ Top' = f /\ OneClick'
  BY <1>1, <1>2, <1>3, ReplacedStack
<1> HIDE DEF f
<1>5. HyperSpadTypeOK'
  BY <1>4 DEF HyperSpadTypeOK, DependDone, hyper, server, counts
<1>6. SocketOfPage'
  BY <1>1, <1>2, <1>4 DEF SocketOfPage, DependDone, hyper, server, counts, At
<1>7. NodesLead'
  BY DEF NodesLead, DependDone, hyper, server, counts, HyperSpadTypeOK
<1>8. NoSocketNoMarks'
  BY DEF NoSocketNoMarks, DependDone, hyper, server, counts, HyperSpadTypeOK
<1>9. AllAlive'
  BY DEF AllAlive, DependDone, hyper, server, counts, HyperSpadTypeOK
<1>10. MarksAreSent'
  BY NothingMarked, ReceivedStays DEF Leads, DependDone, hyper, server, counts
<1>11. FileWritten'
  BY DEF FileWritten, DependDone, hyper, server, counts
<1>12. Calm' => CalmParts'
  <2> SUFFICES ASSUME Calm'
               PROVE  CalmParts'
    OBVIOUS
  <2>1. Calm /\ CalmParts
    BY DEF Calm, DependDone, counts
  <2>2. UNCHANGED <<lines, ran, lisp, signal, pile, executed>>
    BY DEF DependDone, server, hyper
  <2>3. OneLine' /\ LineIsRight' /\ RanIsRight' /\ (Settled => Settled')
    BY <2>1, <2>2, LinesStay DEF CalmParts
  <2>6. Passed(f, executed') /\ Returned(f, executed')
    <3>1. Passed(Top, executed) /\ f.todo = <<>> /\ Top.todo = <<>> /\ Top.at = "depend"
      BY <1>1, <2>1, TopIsFrame DEF CalmParts, FramesAreRight, DependDone, At, Top, f
    <3> QED BY <1>2, <2>2, <3>1 DEF Passed, Returned, Waits
  <2>4. FramesAreRight'
    BY <1>1, <1>2, <1>3, <2>1, <2>2, <2>6, FramesReplaced DEF CalmParts, Grows
  <2>5. SettledThere'
    BY <1>2, <1>4, <2>1, <2>2, <2>3 DEF SettledThere, CalmParts, Waits, At, DependDone
  <2> QED BY <2>3, <2>4, <2>5 DEF CalmParts
<1> QED BY <1>5, <1>4, <1>6, <1>7, <1>8, <1>9, <1>10, <1>11, <1>12

(* The wait. *)
LEMMA PauseKeeps ==
  ASSUME SpadInv, Pause
  PROVE  SpadInv'
<1> USE SpadAssumption DEF SpadInv, SocketInv
<1>1. /\ stack \in Seq(Frame) /\ stack # <<>> /\ Top \in Frame /\ Top.page \in Pages
      /\ Top.cmd \in Commands /\ Top.at \in Places /\ Top.todo \in Seq(Label)
      /\ Frees[Top.cmd] \in Seq(Label) /\ (Waits(Top) => Top.todo # <<>>)
  BY TopParts DEF Pause, At
<1> DEFINE f == [Top EXCEPT !.at = "paused"]
<1>2. f \in Frame /\ f.page = Top.page /\ f.at = "paused" /\ f.cmd = Top.cmd /\ (Waits(f) => f.todo # <<>>)
  BY <1>1 DEF Frame, Places, Waits, Pause, At
<1>3. stack' = [stack EXCEPT ![Len(stack)] = f]
  BY <1>1, TopIsFrame DEF Pause, Goto, Top, Last
<1>4. stack' \in Seq(Frame) /\ stack' # <<>> /\ Top' = f /\ OneClick'
  BY <1>1, <1>2, <1>3, ReplacedStack
<1> HIDE DEF f
<1>5. HyperSpadTypeOK'
  BY <1>4 DEF HyperSpadTypeOK, Pause, hyper, server, counts
<1>6. SocketOfPage'
  BY <1>1, <1>2, <1>4 DEF SocketOfPage, Pause, hyper, server, counts, At
<1>7. NodesLead'
  BY DEF NodesLead, Pause, hyper, server, counts, HyperSpadTypeOK
<1>8. NoSocketNoMarks'
  BY DEF NoSocketNoMarks, Pause, hyper, server, counts, HyperSpadTypeOK
<1>9. AllAlive'
  BY DEF AllAlive, Pause, hyper, server, counts, HyperSpadTypeOK
<1>10. MarksAreSent'
  BY NothingMarked, ReceivedStays DEF Leads, Pause, hyper, server, counts
<1>11. FileWritten'
  BY DEF FileWritten, Pause, hyper, server, counts
<1>12. Calm' => CalmParts'
  <2> SUFFICES ASSUME Calm'
               PROVE  CalmParts'
    OBVIOUS
  <2>1. Calm /\ CalmParts
    BY DEF Calm, Pause, counts
  <2>2. UNCHANGED <<lines, ran, lisp, signal, pile, executed>>
    BY DEF Pause, server, hyper
  <2>3. OneLine' /\ LineIsRight' /\ RanIsRight' /\ (Settled => Settled')
    BY <2>1, <2>2, LinesStay DEF CalmParts
  <2>6. Passed(f, executed') /\ Returned(f, executed')
    <3>1. Passed(Top, executed) /\ Returned(Top, executed) /\ f.todo = Top.todo /\ Top.at = "pausing"
      BY <1>1, <2>1, TopIsFrame DEF CalmParts, FramesAreRight, Pause, At, Top, f
    <3> QED BY <1>2, <2>2, <3>1 DEF Passed, Returned, Waits
  <2>4. FramesAreRight'
    BY <1>1, <1>2, <1>3, <2>1, <2>2, <2>6, FramesReplaced DEF CalmParts, Grows
  <2>5. SettledThere'
    BY <1>2, <1>4, <2>1, <2>2, <2>3 DEF SettledThere, CalmParts, Waits, At, Pause
  <2> QED BY <2>3, <2>4, <2>5 DEF CalmParts
<1> QED BY <1>5, <1>4, <1>6, <1>7, <1>8, <1>9, <1>10, <1>11, <1>12

(* A freed node leads nowhere. *)
LEMMA CloseClientKeeps ==
  ASSUME SpadInv, CloseClient
  PROVE  SpadInv'
<1> USE SpadAssumption DEF SpadInv, SocketInv
<1>1. stack' = stack /\ Top' = Top /\ OneClick'
  BY DEF CloseClient, hyper, server, counts, Top, OneClick
<1>2. HyperSpadTypeOK'
  <2>1. /\ plSock' \in Seq(Nodes) /\ closing' \in Seq(Buffers)
        /\ node' \in [Nodes -> Buffers \union {None}]
    <3>1. closing' \in Seq(Buffers)
      BY DEF HyperSpadTypeOK, CloseClient
    <3>2. CASE UNCHANGED <<plSock, node>>
      BY <3>1, <3>2 DEF HyperSpadTypeOK
    <3>3. ASSUME NEW i \in DOMAIN plSock, plSock' = RemoveAt(plSock, i),
                 node' = [node EXCEPT ![plSock[i]] = None]
          PROVE  plSock' \in Seq(Nodes) /\ node' \in [Nodes -> Buffers \union {None}]
      BY <3>3, RemoveAtType DEF HyperSpadTypeOK
    <3> QED BY <3>1, <3>2, <3>3 DEF CloseClient
  <2> QED BY <1>1, <2>1 DEF HyperSpadTypeOK, CloseClient, server, counts
<1>3. SocketOfPage'
  BY <1>1 DEF SocketOfPage, CloseClient, hyper, server, counts, At
<1>4. NodesLead'
  BY DEF NodesLead, CloseClient, hyper, server, counts, HyperSpadTypeOK
<1>5. NoSocketNoMarks'
  BY DEF NoSocketNoMarks, CloseClient, hyper, server, counts, HyperSpadTypeOK
<1>6. AllAlive'
  BY DEF AllAlive, CloseClient, hyper, server, counts, HyperSpadTypeOK
<1>7. MarksAreSent'
  <2>1. sock' = sock /\ buf' = buf /\ executed' = executed /\ UNCHANGED <<lines, ran>> /\ deaths' = deaths
    BY DEF CloseClient, server, counts
  <2>2. \A n \in Nodes : node'[n] # None => node'[n] = node[n]
    BY DEF CloseClient, HyperSpadTypeOK
  <2>3. \A p \in Pages, b \in Buffers : Leads(p, b)' => Leads(p, b)
    BY <2>1, <2>2 DEF Leads, HyperSpadTypeOK
  <2> QED BY <2>1, <2>3, NothingMarked, ReceivedStays
<1>8. FileWritten'
  BY DEF FileWritten, CloseClient, hyper, server, counts
<1>9. Calm' => CalmParts'
  BY DEF Calm, CalmParts, CloseClient, AllAlive, counts
<1> QED BY <1>2, <1>1, <1>3, <1>4, <1>5, <1>6, <1>7, <1>8, <1>9

(* The awaited buffer comes nearer. *)
LEMMA SpadbufConnectsKeeps ==
  ASSUME SpadInv, NEW b \in Buffers, SpadbufConnects(b)
  PROVE  SpadInv'
<1> USE SpadAssumption DEF SpadInv, SocketInv
<1>1. stack' = stack /\ Top' = Top /\ OneClick'
  BY DEF SpadbufConnects, hyper, server, counts, Top, OneClick
<1>2. HyperSpadTypeOK'
  BY <1>1 DEF HyperSpadTypeOK, SpadbufConnects, hyper, server, counts
<1>3. SocketOfPage'
  BY <1>1 DEF SocketOfPage, SpadbufConnects, hyper, server, counts, At
<1>4. NodesLead'
  BY DEF NodesLead, SpadbufConnects, hyper, server, counts, HyperSpadTypeOK
<1>5. NoSocketNoMarks'
  BY DEF NoSocketNoMarks, SpadbufConnects, hyper, server, counts, HyperSpadTypeOK
<1>6. AllAlive'
  BY DEF AllAlive, SpadbufConnects, hyper, server, counts, HyperSpadTypeOK
<1>7. MarksAreSent'
  BY NothingMarked, ReceivedStays DEF Leads, SpadbufConnects, hyper, server, counts
<1>8. FileWritten'
  BY DEF FileWritten, SpadbufConnects, hyper, server, counts
<1>9. Calm' => CalmParts'
  <2> SUFFICES ASSUME Calm'
               PROVE  CalmParts'
    OBVIOUS
  <2>1. Calm /\ CalmParts
    BY DEF Calm, SpadbufConnects, counts
  <2>2. UNCHANGED <<lines, ran, lisp, signal, pile, executed>>
    BY DEF SpadbufConnects, server, hyper
  <2>3. OneLine' /\ LineIsRight' /\ RanIsRight' /\ (Settled => Settled')
    BY <2>1, <2>2, LinesStay DEF CalmParts
  <2>4. FramesAreRight'
    BY <1>1, <2>1, <2>2, FramesStay DEF CalmParts
  <2>5. SettledThere'
    BY <1>1, <2>1, <2>2, <2>3 DEF SettledThere, CalmParts, SpadbufConnects
  <2> QED BY <2>3, <2>4, <2>5 DEF CalmParts
<1> QED BY <1>2, <1>1, <1>3, <1>4, <1>5, <1>6, <1>7, <1>8, <1>9

(* The end of an evaluation changes no socket. *)
LEMMA LispEndsOutputKeeps ==
  ASSUME SpadInv, LispEndsOutput
  PROVE  SpadInv'
<1> USE SpadAssumption DEF SpadInv, SocketInv
<1>1. stack' = stack /\ Top' = Top /\ OneClick'
  BY DEF LispEndsOutput, hyper, server, counts, Top, OneClick
<1>2. HyperSpadTypeOK'
  BY <1>1 DEF HyperSpadTypeOK, LispEndsOutput, hyper, server, counts
<1>3. SocketOfPage'
  BY <1>1 DEF SocketOfPage, LispEndsOutput, hyper, server, counts, At
<1>4. NodesLead'
  BY DEF NodesLead, LispEndsOutput, hyper, server, counts, HyperSpadTypeOK
<1>5. NoSocketNoMarks'
  BY DEF NoSocketNoMarks, LispEndsOutput, hyper, server, counts, HyperSpadTypeOK
<1>6. AllAlive'
  BY DEF AllAlive, LispEndsOutput, hyper, server, counts, HyperSpadTypeOK
<1>7. MarksAreSent'
  BY NothingMarked, ReceivedStays DEF Leads, LispEndsOutput, hyper, server, counts
<1>8. FileWritten'
  BY DEF FileWritten, LispEndsOutput, hyper, server, counts
<1>9. Calm' => CalmParts'
  <2> SUFFICES ASSUME Calm'
               PROVE  CalmParts'
    OBVIOUS
  <2>1. Calm /\ CalmParts
    BY DEF Calm, LispEndsOutput, counts
  <2>2. /\ UNCHANGED <<lines, ran, pile, executed, ended>> /\ lisp # None /\ lisp' = None /\ signal'
    BY DEF LispEndsOutput, hyper
  <2>3. OneLine' /\ LineIsRight' /\ RanIsRight' /\ ~Settled
    BY <2>1, <2>2 DEF CalmParts, OneLine, LineIsRight, RanIsRight, Settled
  <2>4. SettledThere'
    BY <1>1, <2>1, <2>2, <2>3 DEF SettledThere, CalmParts
  <2>5. FramesAreRight'
    BY <1>1, <2>1, <2>2, FramesStay DEF CalmParts
  <2> QED BY <2>3, <2>4, <2>5 DEF CalmParts
<1> QED BY <1>2, <1>1, <1>3, <1>4, <1>5, <1>6, <1>7, <1>8, <1>9

(* Nor does that of another window's. *)
LEMMA OtherOutputKeeps ==
  ASSUME SpadInv, OtherOutput
  PROVE  SpadInv'
<1> USE SpadAssumption DEF SpadInv, SocketInv
<1>1. stack' = stack /\ Top' = Top /\ OneClick'
  BY DEF OtherOutput, hyper, server, counts, Top, OneClick
<1>2. HyperSpadTypeOK'
  <2>1. others' \in 0..Others
    BY DEF HyperSpadTypeOK, OtherOutput
  <2> QED BY <1>1, <2>1 DEF HyperSpadTypeOK, OtherOutput, hyper, server
<1>3. SocketOfPage'
  BY <1>1 DEF SocketOfPage, OtherOutput, hyper, server, counts, At
<1>4. NodesLead'
  BY DEF NodesLead, OtherOutput, hyper, server, counts, HyperSpadTypeOK
<1>5. NoSocketNoMarks'
  BY DEF NoSocketNoMarks, OtherOutput, hyper, server, counts, HyperSpadTypeOK
<1>6. AllAlive'
  BY DEF AllAlive, OtherOutput, hyper, server, counts, HyperSpadTypeOK
<1>7. MarksAreSent'
  BY NothingMarked, ReceivedStays DEF Leads, OtherOutput, hyper, server, counts
<1>8. FileWritten'
  BY DEF FileWritten, OtherOutput, hyper, server, counts
<1>9. Calm' => CalmParts'
  BY DEF Calm, CalmParts, OtherOutput, HyperSpadTypeOK
<1> QED BY <1>2, <1>1, <1>3, <1>4, <1>5, <1>6, <1>7, <1>8, <1>9

(* The buffer that connects is the awaited one, and no other page points to the node that leads to it. *)
LEMMA AcceptMenuServerConnectionKeeps ==
  ASSUME SpadInv, AcceptMenuServerConnection
  PROVE  SpadInv'
<1> USE SpadAssumption DEF SpadInv, SocketInv
<1>1. /\ stack \in Seq(Frame) /\ stack # <<>> /\ Top \in Frame /\ Top.page \in Pages
      /\ Top.at = "accept" /\ sock[Top.page] = None
  BY TopParts DEF AcceptMenuServerConnection, At, SocketOfPage
<1>2. PICK b \in Buffers, n \in Allocated :
        /\ buf[b] = "connecting"
        /\ buf' = [buf EXCEPT ![b] = "open"]
        /\ node' = [node EXCEPT ![n] = b]
        /\ plSock' = <<n>> \o plSock
        /\ sock' = [sock EXCEPT ![title[b]] = n, ![Top.page] = n]
        /\ IF title[b] = Top.page THEN Goto("test") ELSE UNCHANGED stack
  BY DEF AcceptMenuServerConnection
<1>3. title[b] = Top.page /\ Goto("test")
  BY <1>2 DEF SocketOfPage
<1> DEFINE f == [Top EXCEPT !.at = "test"]
<1>4. f \in Frame /\ f.page = Top.page /\ f.at = "test" /\ ~Waits(f) /\ f.cmd = Top.cmd
  BY <1>1 DEF Frame, Places, Waits
<1>5. stack' = [stack EXCEPT ![Len(stack)] = f]
  BY <1>1, <1>3, TopIsFrame DEF Goto, Top, Last
<1>6. stack' \in Seq(Frame) /\ stack' # <<>> /\ Top' = f /\ OneClick'
  BY <1>1, <1>4, <1>5, ReplacedStack
<1> HIDE DEF f
<1>7. n \in Nodes /\ node[n] = None /\ (~Reuse => n \notin Used)
  BY DEF Allocated, Free
<1>8. sock' = [sock EXCEPT ![Top.page] = n]
  BY <1>1, <1>2, <1>3 DEF HyperSpadTypeOK
<1>9. /\ UNCHANGED <<executed, ended, signal, title, lines, ran, lisp, pile, closing, clicks, others>>
      /\ UNCHANGED <<deaths, patient>>
  BY DEF AcceptMenuServerConnection, server, counts
<1>10. HyperSpadTypeOK'
  <2>1. plSock' \in Seq(Nodes)
    BY <1>2, <1>7 DEF HyperSpadTypeOK
  <2>2. /\ sock' \in [Pages -> Nodes \union {None}] /\ node' \in [Nodes -> Buffers \union {None}]
        /\ buf' \in [Buffers -> {"unborn", "launched", "connecting", "open", "dead"}]
    BY <1>1, <1>2, <1>7, <1>8, ZenonT(60) DEF HyperSpadTypeOK
  <2> QED BY <1>6, <1>9, <2>1, <2>2 DEF HyperSpadTypeOK
<1>11. SocketOfPage'
  <2>1. \A d \in Buffers : buf'[d] = IF d = b THEN "open" ELSE buf[d]
    BY <1>2 DEF HyperSpadTypeOK
  <2>2. sock'[Top.page] = n /\ n # None
    BY <1>1, <1>7, <1>8 DEF HyperSpadTypeOK, Nodes
  <2>3. \A d \in Buffers : buf[d] \in {"launched", "connecting"} => d = b
    BY <1>2 DEF SocketOfPage
  <2>4. \A d \in Buffers : buf'[d] \notin {"launched", "connecting"}
    BY <2>1, <2>3
  <2> QED BY <1>6, <1>4, <2>2, <2>4 DEF SocketOfPage, At
<1>12. NodesLead'
  BY <1>2, <1>7 DEF NodesLead, HyperSpadTypeOK, Nodes
<1>13. NoSocketNoMarks'
  <2>1. \A p \in Pages : sock'[p] = None => sock[p] = None
    BY <1>1, <1>7, <1>8 DEF HyperSpadTypeOK, Nodes
  <2> QED BY <1>9, <2>1 DEF NoSocketNoMarks
<1>14. AllAlive'
  <2>1. \A p \in Pages : sock'[p] = IF p = Top.page THEN n ELSE sock[p]
    BY <1>1, <1>8 DEF HyperSpadTypeOK
  <2>2. \A m \in Nodes : node'[m] = IF m = n THEN b ELSE node[m]
    BY <1>2, <1>7 DEF HyperSpadTypeOK
  <2>3. \A d \in Buffers : buf'[d] = IF d = b THEN "open" ELSE buf[d]
    BY <1>2 DEF HyperSpadTypeOK
  <2>4. sock \in [Pages -> Nodes \union {None}] /\ b # None
    BY DEF HyperSpadTypeOK
  <2> QED BY <1>7, <1>9, <2>1, <2>2, <2>3, <2>4 DEF AllAlive
<1>15. MarksAreSent'
  <2> SUFFICES ASSUME ~Reuse \/ deaths' = 0, NEW p \in Pages, NEW d \in Buffers, Leads(p, d)'
               PROVE  executed'[p] \subseteq Received(d)'
    BY DEF MarksAreSent
  <2>1. CASE p = Top.page
    BY <1>1, <1>9, <2>1 DEF NoSocketNoMarks
  <2>2. CASE p # Top.page
    <3>1. sock'[p] = sock[p] /\ sock[p] # None /\ sock[p] \in Nodes
      BY <1>8, <2>2 DEF Leads, HyperSpadTypeOK
    <3>2. sock[p] # n
      BY <1>7, <1>9, <3>1 DEF Used, AllAlive
    <3>3. node'[sock[p]] = node[sock[p]] /\ node[sock[p]] = d
      BY <1>2, <3>1, <3>2 DEF Leads, HyperSpadTypeOK
    <3>4. buf[d] = "open"
      BY <1>2, <3>1, <3>3 DEF NodesLead, Leads, HyperSpadTypeOK
    <3>5. executed[p] \subseteq Received(d)
      BY <1>9, <3>1, <3>3, <3>4 DEF MarksAreSent, Leads
    <3> QED BY <1>9, <3>5 DEF Received
  <2> QED BY <2>1, <2>2
<1>16. FileWritten'
  BY DEF FileWritten, AcceptMenuServerConnection, hyper, server, counts
<1>17. Calm' => CalmParts'
  <2> SUFFICES ASSUME Calm'
               PROVE  CalmParts'
    OBVIOUS
  <2>1. Calm /\ CalmParts
    BY DEF Calm, AcceptMenuServerConnection, counts
  <2>2. UNCHANGED <<lines, ran, lisp, signal, pile, executed>>
    BY <1>9
  <2>3. OneLine' /\ LineIsRight' /\ RanIsRight' /\ (Settled => Settled')
    BY <2>1, <2>2, LinesStay DEF CalmParts
  <2>6. Passed(f, executed') /\ Returned(f, executed')
    BY <1>4 DEF Passed, Returned, Waits
  <2>4. FramesAreRight'
    BY <1>1, <1>4, <1>5, <2>1, <2>2, <2>6, FramesReplaced DEF CalmParts, Grows
  <2>5. SettledThere'
    BY <1>1, <1>4, <1>6, <2>1, <2>2, <2>3 DEF SettledThere, CalmParts
  <2> QED BY <2>3, <2>4, <2>5 DEF CalmParts
<1> QED BY <1>10, <1>6, <1>11, <1>12, <1>13, <1>14, <1>15, <1>16, <1>17

(* A dependency is issued for the same page. *)
LEMMA DependNextKeeps ==
  ASSUME SpadInv, DependNext
  PROVE  SpadInv'
<1> USE SpadAssumption DEF SpadInv, SocketInv
<1>1. /\ stack \in Seq(Frame) /\ stack # <<>> /\ Top \in Frame /\ Top.page \in Pages
      /\ Top.cmd \in Commands /\ Top.at \in Places /\ Top.todo \in Seq(Label)
      /\ Frees[Top.cmd] \in Seq(Label) /\ (Waits(Top) => Top.todo # <<>>)
  BY TopParts DEF DependNext, At
<1>2. Top.at = "depend" /\ Top.todo # <<>> /\ Head(Top.todo) \in Label /\ Tail(Top.todo) \in Seq(Label)
  BY <1>1 DEF DependNext, At
<1>3. /\ stack' \in Seq(Frame) /\ stack' # <<>> /\ Top'.page = Top.page /\ Top'.at \in {"test", "depend"}
      /\ OneClick' /\ (FramesAreRight => FramesAreRight')
  <2> DEFINE l == Head(Top.todo)
             f == [Top EXCEPT !.at = "check"]
             g == Call(Top.page, l)
             h == [Top EXCEPT !.todo = Tail(@)]
  <2>1. h \in Frame /\ h.page = Top.page /\ h.at = "depend" /\ ~Waits(h)
    BY <1>1, <1>2 DEF Frame, Waits
  <2>2. f \in Frame /\ f.page = Top.page /\ f.at = "check" /\ f.todo # <<>>
    BY <1>1, <1>2 DEF Frame, Places
  <2>3. l \in Commands => g \in Frame /\ g.page = Top.page /\ g.at = "test" /\ ~Waits(g)
    BY <1>1 DEF Frame, Places, Call, Waits
  <2>4. CASE Skipped(l)
    <3>1. stack' = [stack EXCEPT ![Len(stack)] = h]
      BY <1>1, <2>4, TopIsFrame DEF DependNext, Top, Last
    <3>2. /\ h.cmd = Top.cmd /\ h.todo = Tail(Top.todo)
          /\ Range(Top.todo) = Range(h.todo) \union {Head(Top.todo)}
      BY <1>1, <1>2, TailRange
    <3>3. ASSUME FramesAreRight
          PROVE  Passed(h, executed) /\ Returned(h, executed)
      <4>1. Passed(Top, executed)
        BY <1>1, <3>3, TopIsFrame DEF FramesAreRight, Top
      <4> HIDE DEF f, g, h
      <4> QED BY <1>1, <1>2, <2>1, <2>4, <3>2, <4>1 DEF Passed, Returned, Waits, Skipped
    <3> HIDE DEF f, g, h
    <3>4. executed' = executed
      BY DEF DependNext
    <3> QED BY <1>1, <2>1, <3>1, <3>2, <3>3, <3>4, ReplacedStack, FramesReplaced DEF Grows
  <2>5. CASE ~Skipped(l)
    <3>1. stack' = Append([stack EXCEPT ![Len(stack)] = f], g) /\ l \in Commands
      BY <1>1, <2>5, TopIsFrame DEF DependNext, Top, Last, Skipped
    <3>2. f.cmd = Top.cmd /\ f.todo = Top.todo /\ g.cmd = l
      BY <1>1 DEF Frame, Call
    <3>3. ASSUME FramesAreRight
          PROVE  Passed(f, executed)
      <4>1. Passed(Top, executed)
        BY <1>1, <3>3, TopIsFrame DEF FramesAreRight, Top
      <4> HIDE DEF f, g, h, l
      <4> QED BY <1>1, <1>2, <2>2, <3>2, <4>1 DEF Passed, Waits
    <3>4. executed' = executed
      BY DEF DependNext
    <3> HIDE DEF f, g, h
    <3> QED BY <1>1, <2>2, <2>3, <3>1, <3>2, <3>3, <3>4, PushedStack, FramesPushed
  <2> QED BY <2>4, <2>5
<1>4. HyperSpadTypeOK'
  BY <1>3 DEF HyperSpadTypeOK, DependNext, hyper, server, counts
<1>5. SocketOfPage'
  BY <1>1, <1>2, <1>3 DEF SocketOfPage, DependNext, hyper, server, counts, At
<1>6. NodesLead'
  BY DEF NodesLead, DependNext, hyper, server, counts, HyperSpadTypeOK
<1>7. NoSocketNoMarks'
  BY DEF NoSocketNoMarks, DependNext, hyper, server, counts, HyperSpadTypeOK
<1>8. AllAlive'
  BY DEF AllAlive, DependNext, hyper, server, counts, HyperSpadTypeOK
<1>9. MarksAreSent'
  BY NothingMarked, ReceivedStays DEF Leads, DependNext, hyper, server, counts
<1>10. FileWritten'
  BY DEF FileWritten, DependNext, hyper, server, counts
<1>11. Calm' => CalmParts'
  <2> SUFFICES ASSUME Calm'
               PROVE  CalmParts'
    OBVIOUS
  <2>1. Calm /\ CalmParts
    BY DEF Calm, DependNext, counts
  <2>2. UNCHANGED <<lines, ran, lisp, signal, pile, executed>>
    BY DEF DependNext, server, hyper
  <2>3. OneLine' /\ LineIsRight' /\ RanIsRight' /\ (Settled => Settled')
    BY <2>1, <2>2, LinesStay DEF CalmParts
  <2>4. FramesAreRight'
    BY <1>3, <2>1 DEF CalmParts
  <2>5. SettledThere'
    BY <1>1, <1>2, <1>3, <2>1, <2>3 DEF SettledThere, CalmParts, Waits
  <2> QED BY <2>3, <2>4, <2>5 DEF CalmParts
<1> QED BY <1>4, <1>3, <1>5, <1>6, <1>7, <1>8, <1>9, <1>10, <1>11

(* The loop of issue_dependent_commands. *)
LEMMA CheckEndedKeeps ==
  ASSUME SpadInv, CheckEnded
  PROVE  SpadInv'
<1> USE SpadAssumption DEF SpadInv, SocketInv
<1>1. /\ stack \in Seq(Frame) /\ stack # <<>> /\ Top \in Frame /\ Top.page \in Pages
      /\ Top.cmd \in Commands /\ Top.at \in Places /\ Top.todo \in Seq(Label)
      /\ Frees[Top.cmd] \in Seq(Label) /\ (Waits(Top) => Top.todo # <<>>)
  BY TopParts DEF CheckEnded, At
<1>2. Top.at = "check"
  BY DEF CheckEnded, At
<1>3. /\ stack' \in Seq(Frame) /\ stack' # <<>> /\ Top'.page = Top.page
      /\ Top'.at = IF ended THEN "depend" ELSE "pausing"
      /\ OneClick' /\ (FramesAreRight => FramesAreRight')
  <2> DEFINE f == [Top EXCEPT !.at = "pausing"]
             h == [Top EXCEPT !.at = "depend", !.todo = Tail(Top.todo)]
  <2>1. f \in Frame /\ f.page = Top.page /\ f.at = "pausing" /\ f.todo # <<>>
    BY <1>1, <1>2 DEF Frame, Places, Waits
  <2>4. executed' = executed /\ (FramesAreRight => Passed(Top, executed) /\ Returned(Top, executed))
    BY <1>1, TopIsFrame DEF CheckEnded, FramesAreRight, Top
  <2>2. CASE ended
    <3>1. Tail(Top.todo) \in Seq(Label)
      BY <1>1, <1>2 DEF Waits
    <3>2. h \in Frame /\ h.page = Top.page /\ h.at = "depend" /\ ~Waits(h)
      BY <1>1, <3>1 DEF Frame, Places, Waits
    <3>3. stack' = [stack EXCEPT ![Len(stack)] = h]
      BY <1>1, <2>2, TopIsFrame DEF CheckEnded, Top, Last
    <3>4. /\ h.cmd = Top.cmd /\ h.todo = Tail(Top.todo)
          /\ Range(Top.todo) = Range(h.todo) \union {Head(Top.todo)}
      BY <1>1, <1>2, TailRange DEF Waits
    <3> HIDE DEF f, h
    <3>5. ASSUME FramesAreRight
          PROVE  Passed(h, executed) /\ Returned(h, executed)
      BY <1>1, <1>2, <2>4, <3>2, <3>4, <3>5 DEF Passed, Returned, Waits
    <3> QED BY <1>1, <2>2, <2>4, <3>2, <3>3, <3>4, <3>5, ReplacedStack, FramesReplaced DEF Grows
  <2>3. CASE ~ended
    <3>1. stack' = [stack EXCEPT ![Len(stack)] = f]
      BY <1>1, <2>3, TopIsFrame DEF CheckEnded, Goto, Top, Last
    <3>2. f.cmd = Top.cmd /\ f.todo = Top.todo
      BY <1>1
    <3> HIDE DEF f, h
    <3>3. ASSUME FramesAreRight
          PROVE  Passed(f, executed) /\ Returned(f, executed)
      BY <1>2, <2>1, <2>4, <3>2, <3>3 DEF Passed, Returned, Waits
    <3> QED BY <1>1, <2>1, <2>3, <2>4, <3>1, <3>2, <3>3, ReplacedStack, FramesReplaced DEF Grows
  <2> QED BY <2>2, <2>3
<1>4. HyperSpadTypeOK'
  BY <1>3 DEF HyperSpadTypeOK, CheckEnded, hyper, server, counts
<1>5. SocketOfPage'
  BY <1>1, <1>2, <1>3 DEF SocketOfPage, CheckEnded, hyper, server, counts, At
<1>6. NodesLead'
  BY DEF NodesLead, CheckEnded, hyper, server, counts, HyperSpadTypeOK
<1>7. NoSocketNoMarks'
  BY DEF NoSocketNoMarks, CheckEnded, hyper, server, counts, HyperSpadTypeOK
<1>8. AllAlive'
  BY DEF AllAlive, CheckEnded, hyper, server, counts, HyperSpadTypeOK
<1>9. MarksAreSent'
  BY NothingMarked, ReceivedStays DEF Leads, CheckEnded, hyper, server, counts
<1>10. FileWritten'
  BY DEF FileWritten, CheckEnded, hyper, server, counts
<1>11. Calm' => CalmParts'
  <2> SUFFICES ASSUME Calm'
               PROVE  CalmParts'
    OBVIOUS
  <2>1. Calm /\ CalmParts
    BY DEF Calm, CheckEnded, counts
  <2>2. UNCHANGED <<lines, ran, lisp, signal, pile, executed>>
    BY DEF CheckEnded, server, hyper
  <2>3. OneLine' /\ LineIsRight' /\ RanIsRight' /\ (Settled => Settled')
    BY <2>1, <2>2, LinesStay DEF CalmParts
  <2>4. FramesAreRight'
    BY <1>3, <2>1 DEF CalmParts
  <2>5. SettledThere'
    BY <1>1, <1>2, <1>3, <2>1, <2>2, <2>3 DEF SettledThere, CalmParts, Waits, CheckEnded
  <2> QED BY <2>3, <2>4, <2>5 DEF CalmParts
<1> QED BY <1>4, <1>3, <1>5, <1>6, <1>7, <1>8, <1>9, <1>10, <1>11

(* The signal ends a pause. *)
LEMMA Sigusr2HandlerKeeps ==
  ASSUME SpadInv, Sigusr2Handler
  PROVE  SpadInv'
<1> USE SpadAssumption DEF SpadInv, SocketInv
<1>1. /\ stack' \in Seq(Frame) /\ (stack' = <<>> <=> stack = <<>>) /\ OneClick'
      /\ FramesAreRight => FramesAreRight'
      /\ stack # <<>> => /\ Top'.page = Top.page
                         /\ Top'.at = IF Top.at = "paused" THEN "check" ELSE Top.at
  <2>1. CASE At("paused")
    <3> DEFINE f == [Top EXCEPT !.at = "check"]
    <3>1. /\ stack \in Seq(Frame) /\ stack # <<>> /\ Top \in Frame /\ Top.at = "paused"
          /\ Top.todo # <<>>
      BY <2>1, TopParts DEF At, Waits
    <3>2. f \in Frame /\ f.page = Top.page /\ f.at = "check" /\ f.todo # <<>>
      BY <3>1 DEF Frame, Places
    <3>3. stack' = [stack EXCEPT ![Len(stack)] = f]
      BY <2>1, <3>1, TopIsFrame DEF Sigusr2Handler, Goto, Top, Last
    <3>4. f.cmd = Top.cmd /\ f.todo = Top.todo
      BY <3>1
    <3> HIDE DEF f
    <3>5. ASSUME FramesAreRight
          PROVE  Passed(f, executed) /\ Returned(f, executed)
      <4>1. Passed(Top, executed) /\ Returned(Top, executed)
        BY <3>1, <3>5, TopIsFrame DEF FramesAreRight, Top
      <4> QED BY <3>1, <3>2, <3>4, <4>1 DEF Passed, Returned, Waits
    <3>6. executed' = executed
      BY DEF Sigusr2Handler
    <3> QED BY <3>1, <3>2, <3>3, <3>4, <3>5, <3>6, ReplacedStack, FramesReplaced DEF Grows
  <2>2. CASE ~At("paused")
    <3>1. stack' = stack /\ executed' = executed
      BY <2>2 DEF Sigusr2Handler
    <3> QED BY <2>2, <3>1, FramesStay DEF At, Top, OneClick, HyperSpadTypeOK
  <2> QED BY <2>1, <2>2
<1>2. HyperSpadTypeOK'
  BY <1>1 DEF HyperSpadTypeOK, Sigusr2Handler, hyper, server, counts
<1>3. SocketOfPage'
  BY <1>1 DEF SocketOfPage, Sigusr2Handler, hyper, server, counts, At
<1>4. NodesLead'
  BY DEF NodesLead, Sigusr2Handler, hyper, server, counts, HyperSpadTypeOK
<1>5. NoSocketNoMarks'
  BY DEF NoSocketNoMarks, Sigusr2Handler, hyper, server, counts, HyperSpadTypeOK
<1>6. AllAlive'
  BY DEF AllAlive, Sigusr2Handler, hyper, server, counts, HyperSpadTypeOK
<1>7. MarksAreSent'
  BY NothingMarked, ReceivedStays DEF Leads, Sigusr2Handler, hyper, server, counts
<1>8. FileWritten'
  BY DEF FileWritten, Sigusr2Handler, hyper, server, counts
<1>9. Calm' => CalmParts'
  <2> SUFFICES ASSUME Calm'
               PROVE  CalmParts'
    OBVIOUS
  <2>1. Calm /\ CalmParts
    BY DEF Calm, Sigusr2Handler, counts
  <2>2. /\ UNCHANGED <<lines, ran, lisp, pile>> /\ signal /\ ~signal' /\ ended'
    BY DEF Sigusr2Handler, server
  <2>3. OneLine' /\ LineIsRight' /\ RanIsRight' /\ Settled'
    BY <2>1, <2>2 DEF CalmParts, OneLine, LineIsRight, RanIsRight, Settled
  <2>4. SettledThere'
    BY <2>3 DEF SettledThere
  <2> QED BY <1>1, <2>1, <2>3, <2>4 DEF CalmParts
<1> QED BY <1>2, <1>1, <1>3, <1>4, <1>5, <1>6, <1>7, <1>8, <1>9

(* What is marked is sent, if there is a buffer to send it to. *)
LEMMA SendCommandKeeps ==
  ASSUME SpadInv, SendCommand
  PROVE  SpadInv'
<1> USE SpadAssumption DEF SpadInv, SocketInv
<1>1. /\ stack \in Seq(Frame) /\ stack # <<>> /\ Top \in Frame /\ Top.page \in Pages
      /\ Top.cmd \in Commands /\ Top.at \in Places /\ Top.todo \in Seq(Label)
      /\ Frees[Top.cmd] \in Seq(Label) /\ (Waits(Top) => Top.todo # <<>>)
  BY TopParts DEF SendCommand, At
<1> DEFINE f == [Top EXCEPT !.at = "reset"]
<1>2. f \in Frame /\ f.page = Top.page /\ f.at = "reset" /\ f.cmd = Top.cmd /\ (Waits(f) => f.todo # <<>>)
  BY <1>1 DEF Frame, Places, Waits, SendCommand, At
<1>3. stack' = [stack EXCEPT ![Len(stack)] = f]
  BY <1>1, TopIsFrame DEF SendCommand, Goto, Top, Last
<1>4. stack' \in Seq(Frame) /\ stack' # <<>> /\ Top' = f /\ OneClick'
  BY <1>1, <1>2, <1>3, ReplacedStack
<1> HIDE DEF f
<1> DEFINE line == [cmd |-> Top.cmd, src |-> Top.cmd \in Sources]
<1>5. line \in Line /\ line.cmd = Top.cmd
  BY <1>1 DEF Line
<1>6. Top.at = "send" /\ sock[Top.page] # None
  BY DEF SendCommand, At, SocketOfPage
<1>7. /\ IF Reaches(Top.page) THEN lines' = [lines EXCEPT ![Target(Top.page)] = Append(@, line)]
                              ELSE UNCHANGED lines
      /\ executed' = [executed EXCEPT ![Top.page] = @ \union {Top.cmd}]
      /\ pile' = IF Top.cmd \in Sources THEN Top.cmd ELSE pile
      /\ UNCHANGED <<sock, node, plSock, ended, signal, buf, title, ran, lisp, closing>>
      /\ UNCHANGED <<clicks, others, deaths, patient>>
  BY DEF SendCommand, counts
<1> HIDE DEF line
<1>8. HyperSpadTypeOK'
  <2>1. lines' \in [Buffers -> Seq(Line)]
    <3>1. Reaches(Top.page) => Target(Top.page) \in Buffers
      BY <1>1 DEF HyperSpadTypeOK, Reaches, Target
    <3>2. \A d \in Buffers : Append(lines[d], line) \in Seq(Line)
      BY <1>5 DEF HyperSpadTypeOK
    <3>3. lines \in [Buffers -> Seq(Line)]
      BY DEF HyperSpadTypeOK
    <3>4. CASE Reaches(Top.page)
      <4> DEFINE d == Target(Top.page)
                 q == Append(lines[d], line)
      <4>1. d \in Buffers /\ q \in Seq(Line) /\ lines' = [lines EXCEPT ![d] = q]
        BY <1>7, <3>1, <3>2, <3>4
      <4> HIDE DEF d, q
      <4> QED BY <3>3, <4>1
    <3>5. CASE ~Reaches(Top.page)
      BY <1>7, <3>3, <3>5
    <3> QED BY <3>4, <3>5
  <2>2. executed' \in [Pages -> SUBSET Commands] /\ pile' \in Commands \union {None}
    BY <1>1, <1>7 DEF HyperSpadTypeOK
  <2> QED BY <1>4, <1>7, <2>1, <2>2 DEF HyperSpadTypeOK
<1>9. SocketOfPage'
  BY <1>1, <1>2, <1>4, <1>6, <1>7 DEF SocketOfPage, At
<1>10. NodesLead'
  BY <1>7 DEF NodesLead
<1>11. NoSocketNoMarks'
  BY <1>1, <1>6, <1>7 DEF NoSocketNoMarks, HyperSpadTypeOK
<1>12. AllAlive'
  BY <1>7 DEF AllAlive
<1>13. MarksAreSent'
  <2>1. \A d \in Buffers : Received(d) \subseteq Received(d)'
    <3>1. Reaches(Top.page) => Target(Top.page) \in Buffers
      BY <1>1 DEF HyperSpadTypeOK, Reaches, Target
    <3> DEFINE t == Target(Top.page)
    <3> HIDE DEF t
    <3>2. UNCHANGED lines \/ (t \in Buffers /\ lines' = [lines EXCEPT ![t] = Append(@, line)])
      BY <1>7, <3>1 DEF t
    <3> QED BY <1>5, <1>7, <3>2, SentIsReceived
  <2> SUFFICES ASSUME ~Reuse \/ deaths' = 0, NEW p \in Pages, NEW d \in Buffers, Leads(p, d)'
               PROVE  executed'[p] \subseteq Received(d)'
    BY DEF MarksAreSent
  <2>2. Leads(p, d) /\ executed[p] \subseteq Received(d)
    BY <1>7 DEF MarksAreSent, Leads
  <2>3. CASE p = Top.page
    <3>1. Reaches(Top.page) /\ Target(Top.page) = d
      BY <2>2, <2>3 DEF Leads, Reaches, Target
    <3>2. Top.cmd \in Received(d)'
      BY <1>5, <1>7, <3>1, SentIsReceived
    <3> QED BY <1>7, <2>1, <2>2, <2>3, <3>2 DEF HyperSpadTypeOK
  <2>4. CASE p # Top.page
    BY <1>7, <2>1, <2>2, <2>4 DEF HyperSpadTypeOK
  <2> QED BY <2>3, <2>4
<1>14. FileWritten'
  <2>1. pile \in Commands => pile' \in Commands
    BY <1>1, <1>7
  <2>2. line.src => pile' \in Commands
    BY <1>1, <1>7 DEF line
  <2>3. CASE UNCHANGED lines
    BY <2>1, <2>3 DEF FileWritten
  <2>4. ASSUME NEW t \in Buffers, lines' = [lines EXCEPT ![t] = Append(@, line)]
        PROVE  FileWritten'
    <3> SUFFICES ASSUME NEW d \in Buffers, NEW i \in DOMAIN lines'[d], lines'[d][i].src
                 PROVE  pile' \in Commands
      BY DEF FileWritten
    <3>1. lines \in [Buffers -> Seq(Line)]
      BY DEF HyperSpadTypeOK
    <3>2. CASE d # t
      BY <2>1, <2>4, <3>1, <3>2 DEF FileWritten
    <3>3. CASE d = t
      <4> DEFINE old == lines[t]
                 new == lines'[t]
      <4>1. old \in Seq(Line) /\ new = Append(old, line)
        BY <2>4, <3>1
      <4>2. i \in DOMAIN new /\ new[i].src /\ \A j \in DOMAIN old : old[j].src => pile \in Commands
        BY <3>3 DEF FileWritten
      <4> HIDE DEF old, new, line
      <4>3. new[i] = line \/ (i \in DOMAIN old /\ new[i] = old[i])
        BY <4>1, <4>2
      <4> QED BY <2>1, <2>2, <4>2, <4>3
    <3> QED BY <3>2, <3>3
  <2>5. Reaches(Top.page) => Target(Top.page) \in Buffers
    BY <1>1 DEF HyperSpadTypeOK, Reaches, Target
  <2> QED BY <1>7, <2>3, <2>4, <2>5
<1>15. Calm' => CalmParts'
  <2> SUFFICES ASSUME Calm'
               PROVE  CalmParts'
    OBVIOUS
  <2>1. Calm /\ CalmParts
    BY DEF Calm, SendCommand, counts
  <2> DEFINE t == Target(Top.page)
  <2>2. Reaches(Top.page) /\ t \in Buffers /\ Leads(Top.page, t)
    <3>1. node[sock[Top.page]] # None /\ sock[Top.page] \in Nodes
      BY <1>1, <1>6, <2>1 DEF AllAlive, Calm, HyperSpadTypeOK
    <3>2. node[sock[Top.page]] \in Buffers
      BY <3>1 DEF HyperSpadTypeOK
    <3>3. buf[node[sock[Top.page]]] = "open"
      BY <2>1, <3>1, <3>2 DEF AllAlive, NodesLead, Calm
    <3> QED BY <1>6, <3>1, <3>2, <3>3 DEF Reaches, Target, Leads
  <2>3. lines' = [lines EXCEPT ![t] = Append(@, line)]
    BY <1>7, <2>2
  <2>4. Settled
    BY <1>1, <1>6, <2>1 DEF CalmParts, SettledThere
  <2> HIDE DEF t
  <2>5. /\ lines[t] = <<>> /\ lines'[t] = Append(<<>>, line)
        /\ \A d \in Buffers \ {t} : lines'[d] = <<>>
    BY <2>2, <2>3, <2>4 DEF Settled, HyperSpadTypeOK
  <2>6. lines'[t] # <<>> /\ Len(lines'[t]) = 1 /\ Head(lines'[t]) = line
    BY <1>5, <2>5
  <2>7. OneLine'
    BY <1>7, <2>4, <2>5, <2>6 DEF OneLine, Settled
  <2>8. ASSUME NEW l \in executed[Top.page]
        PROVE  \E j \in 1 .. Len(ran[t]) : ran[t][j].got = l
    <3>1. l \in Received(t)
      BY <1>1, <2>1, <2>2 DEF MarksAreSent, Calm
    <3>2. PICK j \in DOMAIN ran[t] : ran[t][j].sent = l
      BY <2>5, <3>1 DEF Received
    <3>3. ran[t][j].got = l
      BY <2>1, <2>2, <3>2 DEF CalmParts, RanIsRight
    <3>4. DOMAIN ran[t] = 1 .. Len(ran[t])
      BY <2>2 DEF HyperSpadTypeOK
    <3> QED BY <3>3, <3>4
  <2>9. Passed(Top, executed)
    BY <1>1, <2>1, TopIsFrame DEF CalmParts, FramesAreRight, Top
  <2>10. DependenciesIn(Top.cmd, ran[t], Len(ran[t]))
    <3>1. Range(Top.todo) = {}
      BY <1>6, <2>9 DEF Passed, Range
    <3> QED BY <1>6, <2>8, <2>9, <3>1 DEF DependenciesIn, Passed
  <2>11. LineIsRight'
    <3>1. line.src => pile' = Top.cmd
      BY <1>7 DEF line
    <3>2. DependenciesIn(line.cmd, ran'[t], Len(ran'[t]))
      BY <1>5, <1>7, <2>10
    <3> QED BY <1>5, <2>5, <2>6, <3>1, <3>2 DEF LineIsRight
  <2>12. RanIsRight'
    BY <1>7, <2>1 DEF CalmParts, RanIsRight
  <2>13. FramesAreRight'
    <3>1. Grows(executed, executed') /\ Top.cmd \in executed'[Top.page]
      BY <1>1, <1>7 DEF Grows, HyperSpadTypeOK
    <3>2. Passed(f, executed') /\ Returned(f, executed')
      BY <1>2, <3>1 DEF Passed, Returned, Waits
    <3> QED BY <1>1, <1>2, <1>3, <2>1, <3>1, <3>2, FramesReplaced DEF CalmParts
  <2>14. SettledThere'
    BY <1>2, <1>4 DEF SettledThere, Waits
  <2> QED BY <2>7, <2>11, <2>12, <2>13, <2>14 DEF CalmParts
<1> QED BY <1>8, <1>4, <1>9, <1>10, <1>11, <1>12, <1>13, <1>14, <1>15

(* The activation returns. *)
LEMMA ResetEndedKeeps ==
  ASSUME SpadInv, ResetEnded
  PROVE  SpadInv'
<1> USE SpadAssumption DEF SpadInv, SocketInv
<1>1. /\ stack \in Seq(Frame) /\ stack # <<>> /\ Top \in Frame /\ Top.page \in Pages
      /\ Top.cmd \in Commands /\ Top.at \in Places /\ Top.todo \in Seq(Label)
      /\ Frees[Top.cmd] \in Seq(Label) /\ (Waits(Top) => Top.todo # <<>>)
  BY TopParts DEF ResetEnded, At
<1>2. Top.at = "reset" /\ stack' = Front(stack)
  BY DEF ResetEnded, At
<1>3. /\ stack' \in Seq(Frame) /\ OneClick'
      /\ stack' # <<>> => Top'.page = Top.page /\ Top'.at = "check"
  BY <1>1, <1>2, PoppedStack
<1>4. HyperSpadTypeOK'
  BY <1>3 DEF HyperSpadTypeOK, ResetEnded, hyper, server, counts
<1>5. SocketOfPage'
  BY <1>1, <1>2, <1>3 DEF SocketOfPage, ResetEnded, hyper, server, counts, At
<1>6. NodesLead'
  BY DEF NodesLead, ResetEnded, hyper, server, counts, HyperSpadTypeOK
<1>7. NoSocketNoMarks'
  BY DEF NoSocketNoMarks, ResetEnded, hyper, server, counts, HyperSpadTypeOK
<1>8. AllAlive'
  BY DEF AllAlive, ResetEnded, hyper, server, counts, HyperSpadTypeOK
<1>9. MarksAreSent'
  BY NothingMarked, ReceivedStays DEF Leads, ResetEnded, hyper, server, counts
<1>10. FileWritten'
  BY DEF FileWritten, ResetEnded, hyper, server, counts
<1>11. Calm' => CalmParts'
  <2> SUFFICES ASSUME Calm'
               PROVE  CalmParts'
    OBVIOUS
  <2>1. Calm /\ CalmParts
    BY DEF Calm, ResetEnded, counts
  <2>2. UNCHANGED <<lines, ran, lisp, signal, pile, executed>>
    BY DEF ResetEnded, server, hyper
  <2>3. OneLine' /\ LineIsRight' /\ RanIsRight' /\ (Settled => Settled')
    BY <2>1, <2>2, LinesStay DEF CalmParts
  <2>4. FramesAreRight'
    BY <1>1, <1>2, <2>1, <2>2, FramesPopped DEF CalmParts
  <2>5. SettledThere'
    <3>1. ~ended'
      BY DEF ResetEnded
    <3> QED BY <1>3, <3>1 DEF SettledThere, Waits
  <2> QED BY <2>3, <2>4, <2>5 DEF CalmParts
<1> QED BY <1>4, <1>3, <1>5, <1>6, <1>7, <1>8, <1>9, <1>10, <1>11

(* A dead buffer is reached by nobody. *)
LEMMA SpadbufDiesKeeps ==
  ASSUME SpadInv, NEW b \in Buffers, SpadbufDies(b)
  PROVE  SpadInv'
<1> USE SpadAssumption DEF SpadInv, SocketInv
<1>1. stack' = stack /\ Top' = Top /\ OneClick'
  BY DEF SpadbufDies, hyper, server, counts, Top, OneClick
<1>2. /\ buf' = [buf EXCEPT ![b] = "dead"] /\ lines' = [lines EXCEPT ![b] = <<>>]
      /\ deaths < Deaths /\ deaths' = deaths + 1
      /\ UNCHANGED <<sock, node, executed, plSock, ended, signal, title, ran, pile, lisp, clicks, others, patient>>
  BY DEF SpadbufDies, hyper
<1>3. HyperSpadTypeOK'
  <2>1. deaths' \in 0..Deaths
    BY <1>2 DEF HyperSpadTypeOK
  <2>2. closing' \in Seq(Buffers)
    BY DEF SpadbufDies, HyperSpadTypeOK
  <2>3. lines' \in [Buffers -> Seq(Line)]
    BY <1>2 DEF HyperSpadTypeOK
  <2> QED BY <1>2, <1>1, <2>1, <2>2, <2>3 DEF HyperSpadTypeOK
<1>4. SocketOfPage'
  BY <1>1 DEF SocketOfPage, SpadbufDies, hyper, server, counts, At
<1>5. NodesLead'
  BY DEF NodesLead, SpadbufDies, hyper, server, counts, HyperSpadTypeOK
<1>6. NoSocketNoMarks'
  BY DEF NoSocketNoMarks, SpadbufDies, hyper, server, counts, HyperSpadTypeOK
<1>7. AllAlive'
  BY <1>2 DEF AllAlive, HyperSpadTypeOK
<1>8. MarksAreSent'
  <2>1. deaths' # 0
    BY <1>2 DEF HyperSpadTypeOK
  <2>2. ASSUME NEW p \in Pages, NEW d \in Buffers, Leads(p, d)'
        PROVE  /\ Leads(p, d) /\ executed'[p] = executed[p]
               /\ Received(d) \subseteq Received(d)'
    <3>1. d # b /\ buf[d] = "open"
      BY <1>2, <2>2 DEF Leads, HyperSpadTypeOK
    <3>2. lines'[d] = lines[d] /\ ran' = ran
      BY <1>2, <3>1 DEF HyperSpadTypeOK
    <3> QED BY <1>2, <2>2, <3>1, <3>2 DEF Leads, Received
  <2> QED BY <2>1, <2>2, NothingMarked
<1>9. FileWritten'
  BY DEF FileWritten, SpadbufDies, hyper, server, counts
<1>10. Calm' => CalmParts'
  BY DEF Calm, CalmParts, SpadbufDies, HyperSpadTypeOK
<1> QED BY <1>3, <1>1, <1>4, <1>5, <1>6, <1>7, <1>8, <1>9, <1>10

(* A line that is taken was received, and still is. *)
LEMMA LispTakesLineKeeps ==
  ASSUME SpadInv, NEW b \in Buffers, LispTakesLine(b)
  PROVE  SpadInv'
<1> USE SpadAssumption DEF SpadInv, SocketInv
<1>1. stack' = stack /\ Top' = Top /\ OneClick'
  BY DEF LispTakesLine, hyper, server, counts, Top, OneClick
<1>2. /\ UNCHANGED <<sock, node, executed, plSock, ended, signal, buf, title, pile, closing>>
      /\ UNCHANGED <<clicks, others, deaths, patient>> /\ lisp' = b
  BY DEF LispTakesLine, hyper, counts
<1> DEFINE line == Head(lines[b])
           entry == [sent |-> line.cmd, got |-> IF line.src THEN pile ELSE line.cmd]
<1>3. /\ lines[b] # <<>> /\ lines' = [lines EXCEPT ![b] = Tail(@)]
      /\ ran' = [ran EXCEPT ![b] = Append(@, entry)]
  BY DEF LispTakesLine
<1>4. lines[b] \in Seq(Line) /\ ran[b] \in Seq([sent : Commands, got : Commands])
  BY DEF HyperSpadTypeOK
<1>5. line \in Line /\ line = lines[b][1] /\ 1 \in DOMAIN lines[b] /\ Tail(lines[b]) \in Seq(Line)
  BY <1>3, <1>4
<1>6. entry \in [sent : Commands, got : Commands]
  <2>1. line.src => pile \in Commands
    BY <1>5 DEF FileWritten
  <2> QED BY <1>5, <2>1 DEF Line
<1>7. HyperSpadTypeOK'
  <2>1. lines' \in [Buffers -> Seq(Line)]
    BY <1>3, <1>5 DEF HyperSpadTypeOK
  <2>2. ran' \in [Buffers -> Seq([sent : Commands, got : Commands])]
    <3> HIDE DEF entry
    <3>1. Append(ran[b], entry) \in Seq([sent : Commands, got : Commands])
      BY <1>4, <1>6
    <3> QED BY <1>3, <3>1 DEF HyperSpadTypeOK
  <2> QED BY <1>2, <1>1, <2>1, <2>2 DEF HyperSpadTypeOK
<1>8. SocketOfPage'
  BY <1>2, <1>3, <1>1 DEF SocketOfPage, LispTakesLine, hyper, server, counts, At
<1>9. NodesLead'
  BY DEF NodesLead, LispTakesLine, hyper, server, counts, HyperSpadTypeOK
<1>10. NoSocketNoMarks'
  BY DEF NoSocketNoMarks, LispTakesLine, hyper, server, counts, HyperSpadTypeOK
<1>11. AllAlive'
  BY DEF AllAlive, LispTakesLine, hyper, server, counts, HyperSpadTypeOK
<1>12. MarksAreSent'
  <2>1. \A d \in Buffers : Received(d) \subseteq Received(d)'
    <3>1. entry.sent = Head(lines[b]).cmd
      OBVIOUS
    <3> HIDE DEF entry
    <3> QED BY <1>3, <3>1, TakenIsReceived
  <2>2. sock' = sock /\ node' = node /\ buf' = buf /\ executed' = executed /\ deaths' = deaths
    BY <1>2
  <2> QED BY <2>1, <2>2, NothingMarked DEF Leads
<1>13. FileWritten'
  <2> SUFFICES ASSUME NEW d \in Buffers, NEW i \in DOMAIN lines'[d], lines'[d][i].src
               PROVE  pile' \in Commands
    BY DEF FileWritten
  <2>1. CASE d # b
    BY <1>2, <1>3, <2>1 DEF FileWritten, HyperSpadTypeOK
  <2>2. CASE d = b
    <3> DEFINE old == lines[b]
    <3>1. i \in DOMAIN Tail(old) /\ Tail(old)[i].src
      BY <1>3, <2>2 DEF HyperSpadTypeOK
    <3>2. old \in Seq(Line) /\ old # <<>>
      BY <1>3, <1>4
    <3> HIDE DEF old
    <3>3. i + 1 \in DOMAIN old /\ Tail(old)[i] = old[i + 1]
      BY <3>1, <3>2
    <3>4. pile \in Commands
      BY <3>1, <3>3 DEF FileWritten, old
    <3> QED BY <1>2, <3>4
  <2> QED BY <2>1, <2>2
<1>14. Calm' => CalmParts'
  <2> SUFFICES ASSUME Calm'
               PROVE  CalmParts'
    OBVIOUS
  <2>1. Calm /\ CalmParts
    BY DEF Calm, LispTakesLine, counts
  <2>2. lisp = None /\ ~signal /\ Tail(lines[b]) = <<>> /\ \A d \in Buffers \ {b} : lines[d] = <<>>
    <3>1. lisp = None /\ ~signal /\ Len(lines[b]) = 1 /\ \A d \in Buffers \ {b} : lines[d] = <<>>
      BY <1>3, <2>1 DEF LispTakesLine, CalmParts, OneLine
    <3> DEFINE old == lines[b]
    <3>2. old \in Seq(Line) /\ Len(old) = 1
      BY <1>4, <3>1
    <3> HIDE DEF old
    <3>3. Tail(old) \in Seq(Line) /\ Len(Tail(old)) = 0
      <4>1. old # <<>>
        BY <1>3 DEF old
      <4> QED BY <3>2, <4>1, HeadTailProperties
    <3>4. Tail(old) = <<>>
      BY <3>3, EmptySeq
    <3> QED BY <3>1, <3>4 DEF old
  <2>3. \A d \in Buffers : lines'[d] = <<>>
    BY <1>3, <2>2 DEF HyperSpadTypeOK
  <2>4. OneLine' /\ LineIsRight'
    BY <1>2, <2>2, <2>3 DEF OneLine, LineIsRight
  <2>5. SettledThere'
    <3>1. ~Settled
      BY <1>3 DEF Settled
    <3> QED BY <1>2, <1>1, <2>1, <3>1 DEF SettledThere, CalmParts
  <2>6. FramesAreRight'
    BY <1>2, <1>1, <2>1, FramesStay DEF CalmParts
  <2>7. RanIsRight'
    <3> SUFFICES ASSUME NEW d \in Buffers, NEW i \in DOMAIN ran'[d]
                 PROVE  /\ ran'[d][i].got = ran'[d][i].sent
                        /\ DependenciesIn(ran'[d][i].sent, ran'[d], i - 1)
      BY DEF RanIsRight
    <3>1. CASE d # b
      <4>1. ran'[d] = ran[d]
        BY <1>3, <3>1 DEF HyperSpadTypeOK
      <4> QED BY <2>1, <4>1 DEF CalmParts, RanIsRight
    <3>2. CASE d = b
      <4> DEFINE was == ran[b]
                 is  == ran'[b]
                 Run == [sent : Commands, got : Commands]
      <4>1. was \in Seq(Run) /\ is = Append(was, entry)
        BY <1>3, <1>4 DEF HyperSpadTypeOK
      <4>2. entry.got = entry.sent /\ DependenciesIn(entry.sent, was, Len(was))
        BY <1>3, <2>1 DEF CalmParts, LineIsRight
      <4>3. \A j \in DOMAIN was : was[j].got = was[j].sent /\ DependenciesIn(was[j].sent, was, j - 1)
        BY <2>1 DEF CalmParts, RanIsRight
      <4>4. i \in DOMAIN is
        BY <3>2
      <4> HIDE DEF was, is, entry, Run
      <4> DEFINE n == Len(was)
      <4>5. /\ n \in Nat /\ DOMAIN was = 1..n /\ DOMAIN is = 1..(n + 1) /\ is[n + 1] = entry
            /\ \A j \in 1..n : is[j] = was[j]
        BY <1>6, <4>1 DEF Run
      <4> HIDE DEF n
      <4>6. CASE i = n + 1
        <5>1. \A j \in 1..n : j \in 1..(i - 1)
          BY <4>5, <4>6
        <5>2. \A l \in Range(Frees[entry.sent]) \intersect Commands : \E j \in 1..(i - 1) : is[j].got = l
          BY <4>2, <4>5, <5>1 DEF DependenciesIn, n
        <5>3. is[i].got = is[i].sent /\ DependenciesIn(is[i].sent, is, i - 1)
          BY <4>2, <4>5, <4>6, <5>2 DEF DependenciesIn
        <5> QED BY <3>2, <5>3 DEF is
      <4>7. CASE i # n + 1
        <5>1. i \in 1..n /\ \A j \in 1..(i - 1) : j \in 1..n
          BY <4>4, <4>5, <4>7
        <5>2. /\ is[i] = was[i] /\ was[i].got = was[i].sent
              /\ \A l \in Range(Frees[was[i].sent]) \intersect Commands :
                   \E j \in 1..(i - 1) : was[j].got = l
          BY <4>3, <4>5, <5>1 DEF DependenciesIn
        <5>3. \A j \in 1..(i - 1) : is[j] = was[j]
          BY <4>5, <5>1
        <5>4. is[i].got = is[i].sent /\ DependenciesIn(is[i].sent, is, i - 1)
          BY <5>2, <5>3 DEF DependenciesIn
        <5> QED BY <3>2, <5>4 DEF is
      <4> QED BY <4>6, <4>7
    <3> QED BY <3>1, <3>2
  <2> QED BY <2>4, <2>5, <2>6, <2>7 DEF CalmParts
<1> QED BY <1>7, <1>1, <1>8, <1>9, <1>10, <1>11, <1>12, <1>13, <1>14

-----------------------------------------------------------------------------
(* The invariant. *)

(* It holds at the start. *)
LEMMA SpadAtStart == SpadInit => SpadInv
<1> SUFFICES ASSUME SpadInit PROVE SpadInv
  OBVIOUS
<1>1. HyperSpadTypeOK
  <2>1. clicks \in 0..Clicks /\ others \in 0..Others /\ deaths \in 0..Deaths
    BY SpadAssumption DEF SpadInit
  <2>2. /\ stack \in Seq(Frame) /\ plSock \in Seq(Nodes) /\ closing \in Seq(Buffers)
        /\ lines \in [Buffers -> Seq(Line)]
        /\ ran \in [Buffers -> Seq([sent : Commands, got : Commands])]
    BY DEF SpadInit
  <2> QED BY <2>1, <2>2 DEF SpadInit, HyperSpadTypeOK
<1>2. SocketInv
  BY <1>1 DEF SpadInit, SocketInv, OneClick, SocketOfPage, NodesLead, NoSocketNoMarks, AllAlive,
     MarksAreSent, FileWritten, At, Leads
<1>3. CalmParts
  BY DEF SpadInit, CalmParts, OneLine, SettledThere, LineIsRight, RanIsRight, FramesAreRight
<1> QED BY <1>2, <1>3 DEF SpadInv

(* It stays when nothing happens. *)
LEMMA NothingKeeps ==
  ASSUME SpadInv, UNCHANGED spadVars
  PROVE  SpadInv'
<1> USE DEF spadVars, SpadInv, SocketInv
<1>1. HyperSpadTypeOK'
  BY DEF HyperSpadTypeOK
<1>2. OneClick' /\ SocketOfPage'
  BY DEF OneClick, SocketOfPage, Top, At
<1>3. NodesLead' /\ NoSocketNoMarks' /\ AllAlive'
  BY DEF NodesLead, NoSocketNoMarks, AllAlive
<1>4. MarksAreSent' /\ FileWritten'
  BY DEF MarksAreSent, Leads, Received, FileWritten
<1>5. Calm' => CalmParts'
  <2> SUFFICES ASSUME Calm'
               PROVE  CalmParts'
    OBVIOUS
  <2>1. CalmParts
    BY DEF Calm
  <2>2. OneLine' /\ LineIsRight' /\ RanIsRight' /\ (Settled => Settled')
    BY <2>1, LinesStay DEF CalmParts
  <2>3. FramesAreRight' /\ SettledThere'
    BY <2>1, <2>2, FramesStay DEF CalmParts, SettledThere, Top
  <2> QED BY <2>2, <2>3 DEF CalmParts
<1> QED BY <1>1, <1>2, <1>3, <1>4, <1>5

(* It is kept by every step. *)
LEMMA SpadStep ==
  ASSUME SpadInv, [SpadNext]_spadVars
  PROVE  SpadInv'
<1>1. ASSUME NEW p \in Pages, NEW c \in Commands, Click(p, c) PROVE SpadInv'
  BY <1>1, ClickKeeps
<1>2. CASE StartUserBuffer
  BY <1>2, StartUserBufferKeeps
<1>3. CASE TestLineSent
  BY <1>3, TestLineSentKeeps
<1>4. CASE TestLineFailed
  BY <1>4, TestLineFailedKeeps
<1>5. CASE DependDone
  BY <1>5, DependDoneKeeps
<1>6. CASE Pause
  BY <1>6, PauseKeeps
<1>7. CASE CloseClient
  BY <1>7, CloseClientKeeps
<1>8. ASSUME NEW b \in Buffers, SpadbufConnects(b) PROVE SpadInv'
  BY <1>8, SpadbufConnectsKeeps
<1>9. CASE LispEndsOutput
  BY <1>9, LispEndsOutputKeeps
<1>10. CASE OtherOutput
  BY <1>10, OtherOutputKeeps
<1>11. CASE AcceptMenuServerConnection
  BY <1>11, AcceptMenuServerConnectionKeeps
<1>12. CASE DependNext
  BY <1>12, DependNextKeeps
<1>13. CASE CheckEnded
  BY <1>13, CheckEndedKeeps
<1>14. CASE Sigusr2Handler
  BY <1>14, Sigusr2HandlerKeeps
<1>15. CASE SendCommand
  BY <1>15, SendCommandKeeps
<1>16. CASE ResetEnded
  BY <1>16, ResetEndedKeeps
<1>17. ASSUME NEW b \in Buffers, SpadbufDies(b) PROVE SpadInv'
  BY <1>17, SpadbufDiesKeeps
<1>18. ASSUME NEW b \in Buffers, LispTakesLine(b) PROVE SpadInv'
  BY <1>18, LispTakesLineKeeps
<1>19. CASE UNCHANGED spadVars
  BY <1>19, NothingKeeps
<1> QED BY <1>1, <1>2, <1>3, <1>4, <1>5, <1>6, <1>7, <1>8, <1>9, <1>10,
           <1>11, <1>12, <1>13, <1>14, <1>15, <1>16, <1>17, <1>18, <1>19
        DEF SpadNext, HyperStep, Environment

(* Whatever happens, the invariant holds. *)
LEMMA SpadInvariant == SpadSpec => []SpadInv
BY SpadAtStart, SpadStep, PTL DEF SpadSpec

(* The marks of a page belong to the buffer its next command goes to
   (clear_execution_marks, mark_as_executed), for any number of pages and
   buffers, whenever they die: unless the allocator hands out a node to which
   a page still points.                                                     *)
THEOREM MarksFollowTheBuffer ==
  ASSUME ~Reuse
  PROVE  SpadSpec => []MarksBelongToBuffer
<1>1. SpadInv => MarksBelongToBuffer
  <2> SUFFICES ASSUME SpadInv PROVE MarksBelongToBuffer
    OBVIOUS
  <2>1. ASSUME NEW p \in Pages, Reaches(p)
        PROVE  Target(p) \in Buffers /\ Leads(p, Target(p))
    BY <2>1, SpadAssumption DEF SpadInv, SocketInv, HyperSpadTypeOK, Reaches, Target, Leads
  <2>2. ASSUME NEW p \in Pages, Reaches(p)
        PROVE  executed[p] \subseteq Received(Target(p))
    BY <2>1, <2>2 DEF SpadInv, SocketInv, MarksAreSent
  <2> QED BY <2>2 DEF SpadInv, SocketInv, MarksBelongToBuffer
<1> QED BY <1>1, SpadInvariant, PTL

(* For users who wait, and buffers nobody closes, a command runs in its buffer
   after the commands it depends on, and what runs is what was meant
   (issue_dependent_commands): for any pages, any commands and any graph of
   dependencies between them, also where the allocator reuses nodes.        *)
THEOREM CommandsRunInOrder == SpadSpec => []DependenciesRunFirst
<1>1. SpadInv => DependenciesRunFirst
  <2> SUFFICES ASSUME SpadInv, patient, deaths = 0
               PROVE  /\ EndedMeansFinished
                      /\ \A b \in Buffers : \A i \in DOMAIN ran[b] :
                           LET r == ran[b][i]
                           IN /\ r.got = r.sent
                              /\ \A l \in Range(Frees[r.sent]) \intersect Commands :
                                   \E j \in 1 .. i - 1 : ran[b][j].got = l
    BY DEF DependenciesRunFirst
  <2>1. SocketInv /\ CalmParts
    BY DEF SpadInv, Calm
  <2>2. ASSUME At("check"), ended
        PROVE  /\ lisp = None
               /\ \E i \in DOMAIN ran[Target(Top.page)] :
                    ran[Target(Top.page)][i].sent = Head(Top.todo)
    <3>1. Settled /\ Head(Top.todo) \in executed[Top.page] /\ Top.page \in Pages /\ sock[Top.page] # None
      BY <2>1, <2>2, TopParts
         DEF SocketInv, CalmParts, SettledThere, FramesAreRight, Returned, Waits, At, SocketOfPage
    <3> DEFINE t == Target(Top.page)
    <3>2. node[sock[Top.page]] # None /\ sock[Top.page] \in Nodes
      BY <2>1, <3>1 DEF SocketInv, AllAlive, HyperSpadTypeOK
    <3>3. t \in Buffers
      BY <2>1, <3>2 DEF SocketInv, HyperSpadTypeOK, Target
    <3>4. Leads(Top.page, t)
      BY <2>1, <3>1, <3>2, <3>3 DEF SocketInv, AllAlive, NodesLead, Leads, Target
    <3> HIDE DEF t
    <3>5. Head(Top.todo) \in Received(t) /\ lines[t] = <<>>
      BY <2>1, <3>1, <3>3, <3>4 DEF SocketInv, MarksAreSent, Settled
    <3>6. \E i \in DOMAIN ran[t] : ran[t][i].sent = Head(Top.todo)
      BY <3>5 DEF Received
    <3> QED BY <3>1, <3>6 DEF Settled, t
  <2>3. EndedMeansFinished
    BY <2>2 DEF EndedMeansFinished
  <2> QED BY <2>1, <2>3 DEF CalmParts, RanIsRight, DependenciesIn
<1> QED BY <1>1, SpadInvariant, PTL
=============================================================================
