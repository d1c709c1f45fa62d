--------------------------- MODULE DatabaseProofs ---------------------------
(***************************************************************************)
(* Theorems about HyperDatabase, for any HTPATH, any files and texts, any  *)
(* runs of htadd and any edits: a run that met no other changes its own    *)
(* listings only (OthersAlwaysKept), and a HyperDoc started at any time,   *)
(* or hthits, finds each page where the databases say (PlacesAlwaysRight). *)
(*                                                                         *)
(* Neither property is inductive.  DatabaseInv has three parts.  FilesGood *)
(* is the types, that no two databases nor the temporary file share an     *)
(* inode, and that a run which is alone is the only one.  RunsOK says of a *)
(* run that met no other which files its next step works on (StepOK) and   *)
(* what it has done of its names so far, wherever the result is at the     *)
(* moment: in the database, held back by stdio, in ht2.db, or half copied  *)
(* back (KeptOK).  LinesOK says that every listing is true to its file, in *)
(* each database and in what a run is about to write there.                *)
(*                                                                         *)
(* The proof goes from a database and its entries to what htadd writes,    *)
(* then through the steps of a run one by one.  Then DatabaseInv is given  *)
(* and the second half follows the reader: line by line (SoFar), file by   *)
(* file, directory by directory (Tabled).                                  *)
(***************************************************************************)
EXTENDS HyperDatabase, ListLemmas, FiniteSetTheorems, TLAPS

LineNames == Files \union Names \union {"hole"}
Line == [kind : Kinds \union {"file", "hole"}, name : LineNames, at : Nat]

\* The head of a file and its definitions.
Entry ==
    {e \in Seq(Line) : e # <<>> /\ e[1].kind = "file" /\ \A i \in 2 .. Len(e) : e[i].kind # "file"}

(***************************************************************************)
(* A database and its entries.                                             *)
(***************************************************************************)
LEMMA NewEntry ==
    ASSUME NEW line \in Line, line.kind = "file"
    PROVE  <<line>> \in Entry /\ Len(<<line>>) = 1
BY DEF Entry

LEMMA LongerEntry ==
    ASSUME NEW e \in Entry, NEW line \in Line, line.kind # "file"
    PROVE  LET t == Append(e, line)
           IN  /\ t \in Entry /\ Len(t) = Len(e) + 1 /\ t[Len(e) + 1] = line
               /\ \A i \in 1 .. Len(e) : t[i] = e[i]
<1> DEFINE n == Len(e)
           t == Append(e, line)
<1>1. e \in Seq(Line) /\ n \in Nat /\ n # 0 /\ e[1].kind = "file"
      /\ \A i \in 2 .. n : e[i].kind # "file"
    BY DEF Entry
<1>2. t \in Seq(Line) /\ Len(t) = n + 1 /\ t[n + 1] = line /\ \A i \in 1 .. n : t[i] = e[i]
    BY <1>1
<1> HIDE DEF n, t
<1>3. t # <<>>
    BY <1>1, <1>2
<1>4. t[1].kind = "file"
    <2>1. 1 \in 1 .. n
        BY <1>1
    <2> QED BY <1>1, <1>2, <2>1
<1>5. ASSUME NEW i \in 2 .. n + 1
      PROVE  t[i].kind # "file"
    <2>1. i = n + 1 \/ (i \in 2 .. n /\ i \in 1 .. n)
        BY <1>1
    <2> QED BY <1>1, <1>2, <2>1
<1> QED BY <1>1, <1>2, <1>3, <1>4, <1>5 DEF Entry, n, t

LEMMA AddLineFacts ==
    ASSUME NEW es \in Seq(Entry), NEW line \in Line
    PROVE  AddLine(es, line) \in Seq(Entry)
<1>1. CASE line.kind = "file"
    BY <1>1, NewEntry DEF AddLine
<1>2. CASE line.kind # "file" /\ es = <<>>
    BY <1>2 DEF AddLine
<1>3. CASE line.kind # "file" /\ es # <<>>
    <2> DEFINE n == Len(es)
               last == Append(es[n], line)
    <2>1. n \in Nat /\ n # 0 /\ n \in 1 .. n /\ es \in [1 .. n -> Entry]
        BY <1>3
    <2>2. last \in Entry
        BY <1>3, <2>1, LongerEntry
    <2>3. AddLine(es, line) = [es EXCEPT ![n] = last]
        BY <1>3 DEF AddLine
    <2> HIDE DEF n, last
    <2>4. [es EXCEPT ![n] = last] \in [1 .. n -> Entry]
        BY <2>1, <2>2
    <2> QED BY <2>1, <2>3, <2>4
<1> QED BY <1>1, <1>2, <1>3

LEMMA EntriesAre ==
    ASSUME NEW s \in Seq(Line)
    PROVE  \E r \in [0 .. Len(s) -> Seq(Entry)] :
             /\ r[0] = <<>> /\ \A i \in 1 .. Len(s) : r[i] = AddLine(r[i - 1], s[i])
             /\ Entries(s) = r[Len(s)]
<1> DEFINE n == Len(s)
           none == <<>>
           g == [p \in Seq(Entry) \X (1 .. n) |-> AddLine(p[1], s[p[2]])]
           Is(f) == f = [i \in 0 .. n |-> IF i = 0 THEN none ELSE AddLine(f[i - 1], s[i])]
<1>1. n \in Nat /\ \A i \in 1 .. n : s[i] \in Line
    OBVIOUS
<1>2. none \in Seq(Entry)
    OBVIOUS
<1>3. Entries(s) = (CHOOSE f : Is(f))[n]
    BY DEF Entries
<1> HIDE DEF n, none
<1>4. g \in [Seq(Entry) \X (1 .. n) -> Seq(Entry)]
    BY <1>1, AddLineFacts
<1>5. \A es \in Seq(Entry), i \in 1 .. n : g[<<es, i>>] = AddLine(es, s[i])
    OBVIOUS
<1> HIDE DEF g
<1>6. PICK f \in [0 .. n -> Seq(Entry)] :
         f[0] = none /\ \A m \in 1 .. n : f[m] = g[<<f[m - 1], m>>]
    <2> DEFINE T == Seq(Entry)
    <2> HIDE DEF T
    <2>1. n \in Nat /\ none \in T /\ g \in [T \X (1 .. n) -> T]
        BY <1>1, <1>2, <1>4 DEF T
    <2>2. \E f \in [0 .. n -> T] : Iterates(f, none, n, g)
        BY <2>1, Recursion
    <2> QED BY <2>2 DEF T, Iterates
<1>7. \A i \in 1 .. n : i # 0 /\ i - 1 \in 0 .. n /\ i \in 0 .. n
    BY <1>1
<1>8. \A i \in 1 .. n : f[i] = AddLine(f[i - 1], s[i])
    BY <1>5, <1>6, <1>7
<1>9. Is(f)
    <2>1. \A i \in 0 .. n : i = 0 \/ i \in 1 .. n
        BY <1>1
    <2>2. \A i \in 0 .. n : f[i] = IF i = 0 THEN none ELSE AddLine(f[i - 1], s[i])
        BY <1>6, <1>8, <2>1, <1>7
    <2>3. f = [i \in 0 .. n |-> f[i]]
        BY <1>6
    <2> QED BY <2>2, <2>3
<1> DEFINE r == CHOOSE h : Is(h)
<1>10. Is(r)
    BY <1>9
<1> HIDE DEF r
<1>11. r[0] = none /\ \A i \in 1 .. n : r[i] = AddLine(r[i - 1], s[i])
    <2>1. 0 \in 0 .. n
        BY <1>1
    <2> QED BY <1>7, <1>10, <2>1
<1>12. \A i \in 0 .. n : r[i] \in Seq(Entry)
    <2> DEFINE S == {i \in Nat : i <= n => r[i] \in Seq(Entry)}
    <2>1. 0 \in S
        BY <1>2, <1>11
    <2>2. ASSUME NEW i \in S
          PROVE  i + 1 \in S
        <3> SUFFICES ASSUME i + 1 <= n
                     PROVE  r[i + 1] \in Seq(Entry)
            OBVIOUS
        <3>1. i <= n /\ i + 1 \in 1 .. n /\ (i + 1) - 1 = i
            BY <1>1
        <3>2. r[i] \in Seq(Entry)
            BY <3>1
        <3> QED BY <1>1, <1>11, <3>1, <3>2, AddLineFacts
    <2>3. S \in SUBSET Nat
        OBVIOUS
    <2>4. \A i \in Nat : i \in S
        <3> HIDE DEF S
        <3> QED BY <2>1, <2>2, <2>3, Induct
    <2> QED BY <1>1, <2>4
<1>13. r \in [0 .. n -> Seq(Entry)]
    <2>1. r = [i \in 0 .. n |-> r[i]]
        <3>1. DOMAIN r = 0 .. n
            BY <1>10
        <3> QED BY <1>10
    <2> QED BY <1>12, <2>1
<1>14. Entries(s) = r[n]
    BY <1>3 DEF r
<1> QED BY <1>11, <1>13, <1>14 DEF n, none

LEMMA EntriesType ==
    ASSUME NEW s \in Seq(Line)
    PROVE  Entries(s) \in Seq(Entry)
<1>1. PICK r \in [0 .. Len(s) -> Seq(Entry)] : Entries(s) = r[Len(s)]
    BY EntriesAre
<1>2. Len(s) \in 0 .. Len(s)
    OBVIOUS
<1> QED BY <1>1, <1>2

LEMMA EntriesOfNone == Entries(<<>>) = <<>>
<1> DEFINE s == <<>>
           z == 0
<1>1. s \in Seq(Line) /\ Len(s) = z
    OBVIOUS
<1> HIDE DEF s
<1>2. PICK r \in [0 .. Len(s) -> Seq(Entry)] : r[0] = <<>> /\ Entries(s) = r[Len(s)]
    BY <1>1, EntriesAre
<1> QED BY <1>1, <1>2 DEF s, z

\* One more line.
LEMMA EntriesAppend ==
    ASSUME NEW s \in Seq(Line), NEW x \in Line
    PROVE  Entries(Append(s, x)) = AddLine(Entries(s), x)
<1> DEFINE n == Len(s)
           t == Append(s, x)
<1>1. /\ n \in Nat /\ t \in Seq(Line) /\ Len(t) = n + 1 /\ t[n + 1] = x
      /\ \A i \in 1 .. n : t[i] = s[i]
    OBVIOUS
<1> HIDE DEF t
<1>2. PICK r \in [0 .. Len(s) -> Seq(Entry)] :
         /\ r[0] = <<>> /\ \A i \in 1 .. Len(s) : r[i] = AddLine(r[i - 1], s[i])
         /\ Entries(s) = r[Len(s)]
    BY EntriesAre
<1>3. PICK q \in [0 .. Len(t) -> Seq(Entry)] :
         /\ q[0] = <<>> /\ \A i \in 1 .. Len(t) : q[i] = AddLine(q[i - 1], t[i])
         /\ Entries(t) = q[Len(t)]
    BY <1>1, EntriesAre
<1> HIDE DEF n
<1> DEFINE S == {i \in Nat : i <= n => q[i] = r[i]}
<1>4. 0 \in S
    BY <1>2, <1>3
<1>5. ASSUME NEW i \in S
      PROVE  i + 1 \in S
    <2> SUFFICES ASSUME i + 1 <= n
                 PROVE  q[i + 1] = r[i + 1]
        OBVIOUS
    <2>1. i <= n /\ i + 1 \in 1 .. n /\ i + 1 \in 1 .. n + 1 /\ (i + 1) - 1 = i
        BY <1>1
    <2>2. q[i] = r[i] /\ t[i + 1] = s[i + 1]
        BY <1>1, <2>1
    <2> QED BY <1>1, <1>2, <1>3, <2>1, <2>2 DEF n
<1>6. n \in S
    <2>1. S \in SUBSET Nat
        OBVIOUS
    <2> HIDE DEF S
    <2> QED BY <1>1, <1>4, <1>5, <2>1, Induct
<1>7. q[n] = r[n] /\ n + 1 \in 1 .. n + 1 /\ (n + 1) - 1 = n
    BY <1>1, <1>6
<1> QED BY <1>1, <1>2, <1>3, <1>7 DEF n, t

\* One more entry.
LEMMA EntriesEntry ==
    ASSUME NEW s \in Seq(Line), NEW e \in Entry
    PROVE  s \o e \in Seq(Line) /\ Entries(s \o e) = Append(Entries(s), e)
<1> DEFINE k == Len(s)
           n == Len(e)
           es == Entries(s)
           d == Len(es)
           Upto(m) == SubSeq(e, 1, m)
           S == {m \in Nat : m + 1 <= n => /\ s \o Upto(m + 1) \in Seq(Line)
                                           /\ Entries(s \o Upto(m + 1)) = Append(es, Upto(m + 1))}
<1>1. /\ e \in Seq(Line) /\ n \in Nat /\ n # 0 /\ e[1].kind = "file" /\ k \in Nat
      /\ \A i \in 2 .. n : e[i].kind # "file"
      /\ \A i \in 1 .. n : e[i] \in Line
      /\ es \in Seq(Entry) /\ d \in Nat
    BY EntriesType DEF Entry
<1>2. Upto(n) = e
    BY <1>1
<1>3. Upto(1) = <<e[1]>>
    <2> DEFINE u == Upto(1)
               h == e[1]
    <2>1. 1 \in 1 .. n /\ h \in Line
        BY <1>1
    <2>2. u \in Seq(Line) /\ Len(u) = 1 /\ u[1] = h
        BY <1>1, <2>1
    <2> HIDE DEF u, h
    <2>3. u = <<h>>
        BY <2>1, <2>2
    <2> QED BY <2>3 DEF u, h
<1>4. \A m \in 1 .. n : Upto(m) \in Seq(Line) /\ Len(Upto(m)) = m
    BY <1>1
<1>5. \A m \in 1 .. n - 1 : Upto(m + 1) = Append(Upto(m), e[m + 1])
    BY <1>1
<1> HIDE DEF n, Upto, es, d
<1>6. 0 \in S
    <2> DEFINE h == e[1]
    <2>1. h \in Line /\ h.kind = "file"
        BY <1>1
    <2>2. s \o Upto(1) = Append(s, h)
        <3>1. Upto(1) = <<h>>
            BY <1>3
        <3> HIDE DEF h
        <3>2. s \o <<h>> = Append(s, h)
            BY <2>1
        <3> QED BY <3>1, <3>2
    <2>3. Entries(Append(s, h)) = Append(es, <<h>>)
        BY <2>1, EntriesAppend DEF AddLine, es
    <2>4. Upto(1) = <<h>> /\ 0 + 1 = 1 /\ 0 \in Nat
        BY <1>3
    <2> HIDE DEF h
    <2>5. Append(s, h) \in Seq(Line)
        BY <2>1
    <2> QED BY <2>2, <2>3, <2>4, <2>5
<1>7. ASSUME NEW m \in S
      PROVE  m + 1 \in S
    <2> DEFINE u == s \o Upto(m + 1)
               p == Upto(m + 1)
               x == e[m + 2]
    <2> SUFFICES ASSUME m + 2 <= n
                 PROVE  s \o Upto(m + 2) \in Seq(Line)
                        /\ Entries(s \o Upto(m + 2)) = Append(es, Upto(m + 2))
        BY <1>1
    <2>1. /\ m + 1 \in 1 .. n - 1 /\ m + 1 \in 1 .. n /\ (m + 1) + 1 = m + 2 /\ m + 2 \in 2 .. n
          /\ m + 1 <= n /\ m + 2 \in 1 .. n
        BY <1>1
    <2>2. x \in Line /\ x.kind # "file"
        BY <1>1, <2>1
    <2>3. u \in Seq(Line) /\ Entries(u) = Append(es, p)
        BY <2>1
    <2>4. Upto(m + 2) = Append(p, x) /\ p \in Seq(Line)
        BY <1>4, <1>5, <2>1
    <2> HIDE DEF x, p
    <2>5. s \o Append(p, x) = Append(s \o p, x)
        BY <2>2, <2>4
    <2>6. u = s \o p
        BY DEF p
    <2> HIDE DEF u
    <2>7. Append(u, x) \in Seq(Line) /\ Entries(Append(u, x)) = AddLine(Append(es, p), x)
        <3>1. Append(u, x) \in Seq(Line)
            BY <2>2, <2>3
        <3>2. Entries(Append(u, x)) = AddLine(Entries(u), x)
            BY <2>2, <2>3, EntriesAppend
        <3> QED BY <2>3, <3>1, <3>2
    <2>8. AddLine(Append(es, p), x) = Append(es, Append(p, x))
        <3> DEFINE t == Append(es, p)
                   v == Append(p, x)
        <3>1. t \in Seq(Entry)
            <4>1. Entries(u) \in Seq(Entry)
                BY <2>3, EntriesType
            <4> QED BY <2>3, <4>1
        <3>2. es \in Seq(Seq(Line)) /\ p \in Seq(Line) /\ v \in Seq(Line)
            BY <1>1, <2>2, <2>4 DEF Entry
        <3> DEFINE T == Seq(Line)
        <3> HIDE DEF v, T
        <3>3. es \in Seq(T) /\ p \in T /\ v \in T
            BY <3>2 DEF T
        <3>4. /\ Len(t) = d + 1 /\ t # <<>> /\ t[d + 1] = p /\ \A i \in 1 .. d : t[i] = es[i]
              /\ t = [i \in 1 .. d + 1 |-> IF i = d + 1 THEN p ELSE es[i]]
            BY <3>3, AppendItems DEF d
        <3>5. Append(es, v) = [i \in 1 .. d + 1 |-> IF i = d + 1 THEN v ELSE es[i]]
            BY <3>3, AppendItems DEF d
        <3> HIDE DEF t
        <3>6. AddLine(t, x) = [t EXCEPT ![d + 1] = v]
            BY <2>2, <3>4 DEF AddLine, v
        <3>7. [t EXCEPT ![d + 1] = v] = [i \in 1 .. d + 1 |-> IF i = d + 1 THEN v ELSE es[i]]
            <4>1. DOMAIN t = 1 .. d + 1
                BY <3>4
            <4>2. \A i \in 1 .. d + 1 : i # d + 1 => t[i] = es[i]
                BY <3>4
            <4> QED BY <4>1, <4>2
        <3> QED BY <3>5, <3>6, <3>7 DEF t, v
    <2> QED BY <2>4, <2>5, <2>6, <2>7, <2>8
<1>8. n - 1 \in S
    <2>1. S \in SUBSET Nat /\ n - 1 \in Nat
        BY <1>1
    <2> HIDE DEF S
    <2> QED BY <1>6, <1>7, <2>1, Induct
<1>9. (n - 1) + 1 = n
    BY <1>1
<1> QED BY <1>2, <1>8, <1>9 DEF es

\* An entry is a part of the database.
Within(e, s, j) ==
    /\ j \in 1 .. Len(s) /\ j + Len(e) - 1 \in 1 .. Len(s)
    /\ \A i \in 1 .. Len(e) : s[j + i - 1] = e[i]

LEMMA EntriesWithin ==
    ASSUME NEW s \in Seq(Line), NEW k \in DOMAIN Entries(s)
    PROVE  \E j \in 1 .. Len(s) : Within(Entries(s)[k], s, j)
<1> DEFINE n == Len(s)
<1>1. n \in Nat /\ \A i \in 1 .. n : s[i] \in Line
    OBVIOUS
<1>2. PICK r \in [0 .. Len(s) -> Seq(Entry)] :
         /\ r[0] = <<>> /\ \A i \in 1 .. Len(s) : r[i] = AddLine(r[i - 1], s[i])
         /\ Entries(s) = r[Len(s)]
    BY EntriesAre
<1> DEFINE At(e, i, j) == j \in 1 .. n /\ j + Len(e) - 1 <= i
                          /\ \A m \in 1 .. Len(e) : s[j + m - 1] = e[m]
           All(i) == /\ \A h \in DOMAIN r[i] : \E j \in 1 .. n : At(r[i][h], i, j)
                     /\ r[i] # <<>> => LET e == r[i][Len(r[i])]
                                       IN  i - Len(e) + 1 \in 1 .. n
                                           /\ At(e, i, i - Len(e) + 1)
           S == {i \in Nat : i <= n => All(i)}
<1> HIDE DEF n
<1>3. 0 \in S
    <2>1. DOMAIN r[0] = {} /\ r[0] = <<>>
        BY <1>2
    <2> HIDE DEF At
    <2> QED BY <2>1
<1>4. ASSUME NEW i \in S
      PROVE  i + 1 \in S
    <2> SUFFICES ASSUME i + 1 <= n
                 PROVE  All(i + 1)
        OBVIOUS
    <2> DEFINE es == r[i]
               x == s[i + 1]
               d == Len(es)
    <2>1. /\ i \in Nat /\ i <= n /\ i + 1 \in 1 .. n /\ (i + 1) - 1 = i /\ i \in 0 .. n
          /\ All(i)
        <3> HIDE DEF All
        <3> QED BY <1>1
    <2>2. es \in Seq(Entry) /\ x \in Line /\ r[i + 1] = AddLine(es, x) /\ d \in Nat
          /\ DOMAIN es = 1 .. d
        <3>1. es \in Seq(Entry)
            BY <1>2, <2>1 DEF n
        <3>2. x \in Line /\ r[i + 1] = AddLine(es, x)
            BY <1>1, <1>2, <2>1 DEF n
        <3> QED BY <3>1, <3>2
    <2>3. \A h \in 1 .. d : Len(es[h]) \in Nat \ {0}
        BY <2>2 DEF Entry
    <2>4. ASSUME NEW e, NEW j, Len(e) \in Nat, At(e, i, j)
          PROVE  At(e, i + 1, j)
        BY <1>1, <2>1, <2>4
    <2>5. CASE x.kind = "file"
        <3> DEFINE one == <<x>>
        <3>1. one \in Entry /\ Len(one) = 1 /\ one[1] = x
            BY <2>2, <2>5, NewEntry
        <3> HIDE DEF one
        <3>2. /\ r[i + 1] = Append(es, one) /\ Len(Append(es, one)) = d + 1
              /\ Append(es, one)[d + 1] = one /\ \A h \in 1 .. d : Append(es, one)[h] = es[h]
            BY <2>2, <2>5, <3>1, AppendItems DEF AddLine, one
        <3>3. At(one, i + 1, i + 1)
            <4>1. \A m \in 1 .. 1 : m = 1
                OBVIOUS
            <4>2. (i + 1) + 1 - 1 = i + 1
                BY <2>1
            <4> QED BY <2>1, <3>1, <4>1, <4>2
        <3>4. DOMAIN r[i + 1] = 1 .. d + 1 /\ Len(r[i + 1]) = d + 1
            BY <2>2, <3>1, <3>2
        <3>5. ASSUME NEW h \in 1 .. d + 1
              PROVE  \E j \in 1 .. n : At(r[i + 1][h], i + 1, j)
            <4>1. CASE h = d + 1
                BY <2>1, <3>2, <3>3, <4>1
            <4>2. CASE h # d + 1
                <5>1. h \in 1 .. d
                    BY <2>2, <4>2
                <5>2. PICK j \in 1 .. n : At(es[h], i, j)
                    BY <2>1, <2>2, <5>1
                <5>3. At(es[h], i + 1, j)
                    BY <2>3, <2>4, <5>1, <5>2
                <5>4. r[i + 1][h] = es[h]
                    BY <3>2, <5>1
                <5> HIDE DEF At, es
                <5> QED BY <5>3, <5>4
            <4> QED BY <4>1, <4>2
        <3>6. (i + 1) - Len(one) + 1 = i + 1
            BY <2>1, <3>1
        <3> HIDE DEF At, es
        <3> QED BY <2>1, <3>2, <3>3, <3>4, <3>5, <3>6
    <2>6. CASE x.kind # "file" /\ es = <<>>
        <3>1. r[i + 1] = <<>>
            BY <2>2, <2>6 DEF AddLine
        <3> QED BY <3>1
    <2>7. CASE x.kind # "file" /\ es # <<>>
        <3> DEFINE e == es[d]
                   f == Append(e, x)
        <3>1. d \in 1 .. d /\ d # 0 /\ e \in Entry
            BY <2>2, <2>7
        <3>2. /\ f \in Entry /\ Len(f) = Len(e) + 1 /\ f[Len(e) + 1] = x
              /\ \A m \in 1 .. Len(e) : f[m] = e[m]
            BY <2>2, <2>7, <3>1, LongerEntry
        <3>3. r[i + 1] = [es EXCEPT ![d] = f]
            BY <2>2, <2>7 DEF AddLine
        <3> DEFINE l == Len(e)
                   b == i - l + 1
        <3>4. l \in Nat \ {0} /\ b \in 1 .. n /\ At(e, i, b)
            BY <2>1, <2>3, <2>7, <3>1
        <3> HIDE DEF f
        <3>5. At(f, i + 1, b) /\ (i + 1) - Len(f) + 1 = b
            <4>1. Len(f) = l + 1 /\ b + (l + 1) - 1 = i + 1
                <5>1. Len(f) = l + 1
                    BY <3>2
                <5>2. l \in Nat /\ i \in Nat
                    BY <2>1, <3>4
                <5> HIDE DEF l
                <5> QED BY <5>1, <5>2
            <4>2. ASSUME NEW m \in 1 .. l + 1
                  PROVE  s[b + m - 1] = f[m]
                <5>1. CASE m = l + 1
                    BY <3>2, <4>1, <5>1
                <5>2. CASE m # l + 1
                    <6>1. m \in 1 .. l
                        BY <3>4, <5>2
                    <6> QED BY <3>2, <3>4, <6>1
                <5> QED BY <5>1, <5>2
            <4> HIDE DEF e
            <4> QED BY <2>1, <3>4, <4>1, <4>2
        <3>6. DOMAIN r[i + 1] = 1 .. d /\ Len(r[i + 1]) = d /\ r[i + 1][d] = f
              /\ \A h \in 1 .. d : h # d => r[i + 1][h] = es[h]
            <4>1. [es EXCEPT ![d] = f] \in Seq(Entry)
                BY <2>2, <3>1, <3>2
            <4> QED BY <2>2, <3>1, <3>3, <4>1
        <3>7. ASSUME NEW h \in 1 .. d
              PROVE  \E j \in 1 .. n : At(r[i + 1][h], i + 1, j)
            <4>1. CASE h = d
                <5> HIDE DEF At, b
                <5> QED BY <3>4, <3>5, <3>6, <4>1
            <4>2. CASE h # d
                <5>2. PICK j \in 1 .. n : At(es[h], i, j)
                    BY <2>1, <2>2
                <5>3. At(es[h], i + 1, j)
                    BY <2>3, <2>4, <5>2
                <5>4. r[i + 1][h] = es[h]
                    BY <3>6, <4>2
                <5> HIDE DEF At, es
                <5> QED BY <5>3, <5>4
            <4> QED BY <4>1, <4>2
        <3> HIDE DEF At, es, b, d
        <3> QED BY <3>4, <3>5, <3>6, <3>7
    <2> QED BY <2>5, <2>6, <2>7
<1>5. n \in S
    <2>1. S \in SUBSET Nat
        OBVIOUS
    <2> HIDE DEF S
    <2> QED BY <1>1, <1>3, <1>4, <2>1, Induct
<1>6. PICK j \in 1 .. n : At(Entries(s)[k], n, j)
    BY <1>1, <1>2, <1>5 DEF n
<1>7. Len(Entries(s)[k]) \in Nat \ {0}
    <2>1. Entries(s)[k] \in Entry
        BY EntriesType
    <2> QED BY <2>1 DEF Entry
<1>8. j + Len(Entries(s)[k]) - 1 \in 1 .. n
    BY <1>1, <1>6, <1>7
<1> QED BY <1>6, <1>8 DEF Within, n

\* What is written of each old entry: an entry, or nothing.
Piece == Entry \union {<<>>}

LEMMA FlattenIs ==
    ASSUME NEW ps \in Seq(Seq(Line))
    PROVE  \E f \in [0 .. Len(ps) -> Seq(Line)] :
             /\ f[0] = <<>> /\ \A i \in 1 .. Len(ps) : f[i] = f[i - 1] \o ps[i]
             /\ FlattenSeq(ps) = f[Len(ps)]
<1> DEFINE n == Len(ps)
           none == <<>>
           one == 1
           T == Seq(Line)
<1>1. n \in Nat /\ \A i \in 1 .. n : ps[i] \in T
    OBVIOUS
<1>2. none \in T /\ \A t \in T : none \o t = t
    OBVIOUS
<1>3. \A t, u \in T : t \o u \in T
    OBVIOUS
<1>4. CASE n = 0
    <2> DEFINE f == [i \in 0 .. 0 |-> none]
    <2>1. FlattenSeq(ps) = ps /\ ps = none
        BY <1>4 DEF FlattenSeq
    <2>2. f \in [0 .. 0 -> T] /\ f[0] = none /\ 1 .. 0 = {}
        BY <1>2
    <2> QED BY <1>4, <2>1, <2>2
<1>5. CASE n # 0
    <2> DEFINE Is(f) == f = [i \in 1 .. n |-> IF i = 1 THEN ps[i] ELSE f[i - 1] \o ps[i]]
               g == [p \in T \X (1 .. n - 1) |-> p[1] \o ps[p[2] + 1]]
               a == ps[1]
    <2>1. FlattenSeq(ps) = (CHOOSE f : Is(f))[n]
        BY <1>5 DEF FlattenSeq
    <2> HIDE DEF n, none, T
    <2>2. 1 \in 1 .. n /\ n - 1 \in Nat /\ a \in T
        BY <1>1, <1>5
    <2>3. g \in [T \X (1 .. n - 1) -> T]
        <3>1. \A i \in 1 .. n - 1 : i + 1 \in 1 .. n
            BY <1>1
        <3> QED BY <1>1, <1>3, <3>1
    <2>4. \A t \in T, i \in 1 .. n - 1 : g[<<t, i>>] = t \o ps[i + 1]
        OBVIOUS
    <2> HIDE DEF g, a
    <2>5. PICK h \in [0 .. n - 1 -> T] : Iterates(h, a, n - 1, g)
        BY <2>2, <2>3, Recursion
    <2>6. \A m \in 1 .. n - 1 : h[m] = h[m - 1] \o ps[m + 1]
        <3>1. \A m \in 1 .. n - 1 : m - 1 \in 0 .. n - 1
            BY <1>1
        <3> QED BY <2>4, <2>5, <3>1 DEF Iterates
    <2> DEFINE k == [i \in 1 .. n |-> h[i - 1]]
    <2>7. Is(k)
        <3>1. ASSUME NEW i \in 1 .. n
              PROVE  k[i] = IF i = 1 THEN ps[i] ELSE k[i - 1] \o ps[i]
            <4>1. CASE i = 1
                <5>1. k[i] = h[0]
                    BY <4>1
                <5> QED BY <2>5, <4>1, <5>1 DEF Iterates, a
            <4>2. CASE i # 1
                <5>1. i - 1 \in 1 .. n - 1 /\ (i - 1) + 1 = i /\ i - 1 \in 1 .. n
                    BY <1>1, <4>2
                <5>2. h[i - 1] = h[(i - 1) - 1] \o ps[i]
                    BY <2>6, <5>1
                <5> QED BY <4>2, <5>1, <5>2
            <4> QED BY <4>1, <4>2
        <3>2. k = [i \in 1 .. n |-> k[i]]
            OBVIOUS
        <3> HIDE DEF k
        <3> QED BY <3>1, <3>2
    <2> DEFINE r == CHOOSE f : Is(f)
    <2>8. Is(r)
        BY <2>7
    <2> HIDE DEF r
    <2>9. r[1] = ps[1] /\ \A i \in 1 .. n : i # 1 => r[i] = r[i - 1] \o ps[i]
        BY <2>2, <2>8
    <2> DEFINE f == [i \in 0 .. n |-> IF i = 0 THEN none ELSE r[i]]
    <2>10. f[0] = none /\ \A i \in 1 .. n : f[i] = r[i]
        BY <1>1
    <2> HIDE DEF f
    <2>11. ASSUME NEW i \in 1 .. n
           PROVE  f[i] = f[i - 1] \o ps[i]
        <3>1. CASE i = 1
            <4>1. i - 1 = 0 /\ f[i] = ps[1] /\ f[i - 1] = none
                BY <2>2, <2>9, <2>10, <3>1
            <4> QED BY <1>1, <1>2, <2>2, <3>1, <4>1
        <3>2. CASE i # 1
            <4>1. i - 1 \in 1 .. n
                BY <1>1, <3>2
            <4> QED BY <2>9, <2>10, <3>2, <4>1
        <3> QED BY <3>1, <3>2
    <2>12. \A i \in 0 .. n : f[i] \in T
        <3> DEFINE S == {i \in Nat : i <= n => f[i] \in T}
        <3>1. 0 \in S
            BY <1>2, <2>10
        <3>2. ASSUME NEW i \in S
              PROVE  i + 1 \in S
            <4> SUFFICES ASSUME i + 1 <= n
                         PROVE  f[i + 1] \in T
                OBVIOUS
            <4>1. i <= n /\ i + 1 \in 1 .. n /\ (i + 1) - 1 = i
                BY <1>1
            <4> QED BY <1>1, <1>3, <2>11, <4>1
        <3>3. S \in SUBSET Nat
            OBVIOUS
        <3>4. \A i \in Nat : i \in S
            <4> HIDE DEF S
            <4> QED BY <3>1, <3>2, <3>3, Induct
        <3> QED BY <1>1, <3>4
    <2>13. f \in [0 .. n -> T]
        <3>1. f = [i \in 0 .. n |-> f[i]]
            BY DEF f
        <3> QED BY <2>12, <3>1
    <2>14. FlattenSeq(ps) = f[n]
        <3>1. n \in 1 .. n
            BY <1>1, <1>5
        <3> QED BY <2>1, <2>10, <3>1 DEF r
    <2> QED BY <2>10, <2>11, <2>13, <2>14 DEF n, none, T
<1> QED BY <1>4, <1>5

LEMMA PieceType == Piece \subseteq Seq(Line)
<1>1. <<>> \in Seq(Line)
    OBVIOUS
<1> QED BY <1>1 DEF Piece, Entry

LEMMA FlattenEntries ==
    ASSUME NEW ps \in Seq(Piece)
    PROVE  /\ FlattenSeq(ps) \in Seq(Line)
           /\ Range(Entries(FlattenSeq(ps))) = Range(ps) \ {<<>>}
<1> DEFINE n == Len(ps)
<1>1. n \in Nat /\ DOMAIN ps = 1 .. n /\ \A i \in 1 .. n : ps[i] \in Piece
    OBVIOUS
<1>2. ps \in Seq(Seq(Line))
    BY <1>1, PieceType
<1>3. PICK f \in [0 .. Len(ps) -> Seq(Line)] :
         /\ f[0] = <<>> /\ \A i \in 1 .. Len(ps) : f[i] = f[i - 1] \o ps[i]
         /\ FlattenSeq(ps) = f[Len(ps)]
    BY <1>2, FlattenIs
<1> HIDE DEF n
<1> DEFINE In(i) == {ps[h] : h \in 1 .. i} \ {<<>>}
           S == {i \in Nat : i <= n => Range(Entries(f[i])) = In(i)}
<1>4. 0 \in S
    <2>1. Range(Entries(<<>>)) = {} /\ 1 .. 0 = {}
        BY EntriesOfNone DEF Range
    <2> QED BY <1>3, <2>1
<1>5. ASSUME NEW i \in S
      PROVE  i + 1 \in S
    <2> SUFFICES ASSUME i + 1 <= n
                 PROVE  Range(Entries(f[i + 1])) = In(i + 1)
        OBVIOUS
    <2> DEFINE e == ps[i + 1]
               s == f[i]
    <2>1. /\ i <= n /\ i + 1 \in 1 .. n /\ (i + 1) - 1 = i /\ i \in 0 .. n /\ i + 1 \in 1 .. i + 1
          /\ \A h \in 1 .. i + 1 : h \in 1 .. i \/ h = i + 1
          /\ \A h \in 1 .. i : h \in 1 .. i + 1
        BY <1>1
    <2>2. s \in Seq(Line) /\ e \in Piece /\ f[i + 1] = s \o e /\ Range(Entries(s)) = In(i)
        BY <1>1, <1>3, <2>1 DEF n
    <2>3. In(i + 1) = In(i) \union ({e} \ {<<>>})
        BY <2>1
    <2> HIDE DEF In, e, s
    <2>4. CASE e = <<>>
        <3>1. f[i + 1] = s
            BY <2>2, <2>4
        <3> QED BY <2>2, <2>3, <2>4, <3>1
    <2>5. CASE e # <<>>
        <3>1. e \in Entry
            BY <2>2, <2>5 DEF Piece
        <3>2. Entries(f[i + 1]) = Append(Entries(s), e)
            BY <2>2, <3>1, EntriesEntry
        <3> DEFINE es == Entries(s)
                   d == Len(es)
                   t == Append(es, e)
        <3>3. es \in Seq(Entry)
            BY <2>2, EntriesType
        <3>4. d \in Nat /\ DOMAIN es = 1 .. d /\ t \in Seq(Entry) /\ Len(t) = d + 1
              /\ t[d + 1] = e /\ \A h \in 1 .. d : t[h] = es[h]
            <4> HIDE DEF es
            <4> QED BY <3>1, <3>3, AppendItems
        <3>5. DOMAIN t = 1 .. d + 1
            BY <3>4
        <3> HIDE DEF t, d, es
        <3>6. \A h \in 1 .. d + 1 : h \in 1 .. d \/ h = d + 1
            BY <3>4
        <3>7. \A h \in 1 .. d : h \in 1 .. d + 1
            BY <3>4
        <3>8. d + 1 \in 1 .. d + 1
            BY <3>4
        <3>9. Range(t) = Range(es) \union {e}
            BY <3>4, <3>5, <3>6, <3>7, <3>8 DEF Range
        <3> QED BY <2>2, <2>3, <2>5, <3>2, <3>9 DEF t, es
    <2> QED BY <2>4, <2>5
<1>6. n \in S
    <2>1. S \in SUBSET Nat
        OBVIOUS
    <2> HIDE DEF S
    <2> QED BY <1>1, <1>4, <1>5, <2>1, Induct
<1>7. Range(Entries(f[n])) = In(n) /\ f[n] \in Seq(Line)
    BY <1>1, <1>6 DEF n
<1>8. In(n) = Range(ps) \ {<<>>}
    BY <1>1 DEF Range
<1> QED BY <1>3, <1>7, <1>8 DEF n

(***************************************************************************)
(* What htadd writes.                                                      *)
(***************************************************************************)
LEMMA ReadableFacts ==
    ASSUME NEW text \in AllTexts
    PROVE  LET r == Readable(text)
           IN  /\ r \in Seq([kind : Kinds, name : Names]) /\ Len(r) <= Len(text)
               /\ \A i \in 1 .. Len(r) : r[i] = text[i]
<1> DEFINE n == Len(text)
           bad == {i \in DOMAIN text : text[i].kind = "broken"}
           D == [kind : Kinds, name : Names]
           C == [kind : Kinds \union {"broken"}, name : Names]
<1>0. text \in Seq(C)
    BY DatabaseAssumption
<1>1. n \in Nat /\ DOMAIN text = 1 .. n /\ \A i \in 1 .. n : text[i] \in C
    <2> HIDE DEF C
    <2> QED BY <1>0
<1>2. \A i \in 1 .. n : text[i].kind # "broken" => text[i] \in D
    BY <1>1
<1>3. CASE bad = {}
    <2>1. \A i \in 1 .. n : text[i] \in D
        BY <1>1, <1>2, <1>3
    <2>2. text \in Seq(D)
        <3> HIDE DEF C, D
        <3> QED BY <1>0, <1>1, <2>1
    <2> QED BY <1>1, <1>3, <2>2 DEF Readable
<1>4. CASE bad # {}
    <2> DEFINE m == Min(bad)
               r == SubSeq(text, 1, m - 1)
    <2>1. m \in bad /\ \A i \in bad : m <= i
        <3>1. bad \in SUBSET Nat
            BY <1>1
        <3>2. PICK x \in bad : \A i \in bad : x <= i
            BY <1>4, <3>1, LeastElement
        <3> QED BY <3>2 DEF Min
    <2>2. Readable(text) = r
        BY <1>4 DEF Readable
    <2> HIDE DEF m
    <2>3. m \in 1 .. n /\ \A i \in 1 .. m - 1 : i \in 1 .. n /\ text[i] \in D
        BY <1>1, <1>2, <2>1
    <2>4. m - 1 \in Nat
        BY <2>3
    <2> DEFINE k == m - 1
    <2>5. r \in Seq(D) /\ Len(r) = k /\ \A i \in 1 .. k : r[i] = text[i]
        <3>1. \A i \in 1 .. k : text[i] \in D
            BY <2>3
        <3> HIDE DEF D
        <3> QED BY <1>1, <2>3, <2>4, <3>1
    <2>6. k <= n
        BY <1>1, <2>3
    <2> HIDE DEF k, n, r, D
    <2> QED BY <2>2, <2>5, <2>6 DEF n, D
<1> QED BY <1>3, <1>4

LEMMA NewPagesFacts ==
    ASSUME NEW file \in Files, NEW there \in [text : AllTexts, time : Nat]
    PROVE  LET e == AddNewPages(file, there)
           IN  /\ e \in Entry /\ e[1] = DbLine("file", file, there.time)
               /\ Len(e) = Len(Readable(there.text)) + 1
               /\ \A i \in 2 .. Len(e) :
                    /\ e[i].kind \in Kinds /\ e[i].at = i - 1 /\ i - 1 \in 1 .. Len(there.text)
                    /\ there.text[i - 1] = [kind |-> e[i].kind, name |-> e[i].name]
<1> DEFINE text == there.text
           r == Readable(text)
           n == Len(r)
           h == DbLine("file", file, there.time)
           d == [i \in DOMAIN r |-> DbLine(text[i].kind, text[i].name, i)]
           e == AddNewPages(file, there)
<1>1. text \in AllTexts
    OBVIOUS
<1> DEFINE D == [kind : Kinds, name : Names]
<1> HIDE DEF text, r, D
<1>2. r \in Seq(D) /\ n <= Len(text) /\ \A i \in 1 .. n : r[i] = text[i]
    BY <1>1, ReadableFacts DEF r, D
<1>3. Len(text) \in Nat /\ DOMAIN text = 1 .. Len(text)
    <2>1. text \in Seq([kind : Kinds \union {"broken"}, name : Names])
        BY <1>1, DatabaseAssumption
    <2> QED BY <2>1
<1>4. h \in Line /\ h.kind = "file"
    BY DEF DbLine, Line, LineNames
<1>5. e = <<h>> \o d
    BY DEF AddNewPages, r, text
<1> HIDE DEF h, e
<1>6. DOMAIN r = 1 .. n /\ n \in Nat /\ \A i \in 1 .. n : r[i] \in D
    BY <1>2
<1> HIDE DEF n
<1>7. ASSUME NEW i \in 1 .. n
      PROVE  /\ text[i] \in [kind : Kinds, name : Names]
             /\ d[i] = DbLine(text[i].kind, text[i].name, i) /\ d[i] \in Line
    <2>1. text[i] = r[i] /\ r[i] \in [kind : Kinds, name : Names]
        BY <1>2, <1>6 DEF D
    <2>2. d[i] = DbLine(text[i].kind, text[i].name, i)
        BY <1>6
    <2> QED BY <1>6, <2>1, <2>2 DEF DbLine, Line, LineNames
<1>8. d \in Seq(Line) /\ Len(d) = n
    <2>1. d = [i \in 1 .. n |-> d[i]] /\ n \in Nat
        BY <1>6
    <2> HIDE DEF d
    <2>2. d \in [1 .. n -> Line]
        BY <1>7, <2>1
    <2> QED BY <2>1, <2>2
<1> HIDE DEF d
<1>9. /\ e \in Seq(Line) /\ Len(e) = n + 1 /\ e[1] = h
      /\ \A i \in 2 .. n + 1 : e[i] = d[i - 1]
    <2>1. /\ <<h>> \o d \in Seq(Line) /\ Len(d) \in Nat
          /\ Len(<<h>> \o d) = Len(d) + 1
          /\ \A j \in 1 .. (Len(d) + 1) : (<<h>> \o d)[j] = IF j = 1 THEN h ELSE d[j - 1]
        BY <1>4, <1>8, FrontItems
    <2>2. 1 \in 1 .. n + 1 /\ \A i \in 2 .. n + 1 : i # 1 /\ i \in 1 .. n + 1
        BY <1>6
    <2> QED BY <1>5, <1>8, <2>1, <2>2
<1>10. ASSUME NEW i \in 2 .. n + 1
       PROVE  /\ e[i].kind \in Kinds /\ e[i].at = i - 1 /\ i - 1 \in 1 .. Len(text)
              /\ text[i - 1] = [kind |-> e[i].kind, name |-> e[i].name]
    <2>1. i - 1 \in 1 .. n /\ i - 1 \in 1 .. Len(text) /\ e[i] = d[i - 1]
        BY <1>2, <1>3, <1>6, <1>9
    <2>2. /\ text[i - 1] \in [kind : Kinds, name : Names]
          /\ e[i] = DbLine(text[i - 1].kind, text[i - 1].name, i - 1)
        BY <1>7, <2>1
    <2> QED BY <2>1, <2>2 DEF DbLine
<1>11. \A i \in 2 .. n + 1 : e[i].kind # "file"
    BY <1>10 DEF Kinds
<1>12. e # <<>>
    BY <1>6, <1>9
<1> QED BY <1>4, <1>9, <1>10, <1>11, <1>12 DEF Entry, n, r, text, h, e

\* The pieces written for the old entries, and the new one at the end.
LEMMA Rewritten ==
    ASSUME NEW lines \in Seq(Line), NEW put \in Seq(Piece), NEW add \in Piece
    PROVE  LET out == FlattenSeq(put) \o add
           IN  /\ out \in Seq(Line)
               /\ Range(Entries(out)) = (Range(put) \union {add}) \ {<<>>}
<1>1. /\ FlattenSeq(put) \in Seq(Line)
      /\ Range(Entries(FlattenSeq(put))) = Range(put) \ {<<>>}
    BY FlattenEntries
<1> DEFINE s == FlattenSeq(put)
           es == Entries(s)
<1> HIDE DEF s
<1>2. CASE add = <<>>
    <2>1. s \o add = s
        BY <1>1, <1>2 DEF s
    <2> QED BY <1>1, <1>2, <2>1 DEF s
<1>3. CASE add # <<>>
    <2>1. add \in Entry
        BY <1>3 DEF Piece
    <2>2. s \o add \in Seq(Line) /\ Entries(s \o add) = Append(es, add)
        BY <1>1, <2>1, EntriesEntry DEF s
    <2>3. es \in Seq(Entry)
        BY <1>1, EntriesType DEF s
    <2>4. Range(Append(es, add)) = Range(es) \union {add}
        BY <2>1, <2>3, AppendRange
    <2> QED BY <1>1, <1>3, <2>2, <2>4 DEF s
<1> QED BY <1>2, <1>3

LEMMA OldEntries ==
    ASSUME NEW lines \in Seq(Line)
    PROVE  LET old == Entries(lines)
           IN  /\ old \in Seq(Entry) /\ old \in Seq(Piece)
               /\ \A k \in DOMAIN old : old[k] \in Entry /\ old[k] \in Range(old) /\ old[k] # <<>>
<1> DEFINE old == Entries(lines)
<1>1. old \in Seq(Entry)
    BY EntriesType
<1> HIDE DEF old
<1>2. \A k \in DOMAIN old : old[k] \in Entry
    BY <1>1
<1>3. old \in Seq(Piece)
    BY <1>1 DEF Piece
<1> QED BY <1>1, <1>2, <1>3 DEF old, Entry, Range

LEMMA UpdateFacts ==
    ASSUME NEW lines \in Seq(Line), NEW file \in Files, NEW new \in Entry, new[1].name = file
    PROVE  LET out == UpdateDb(lines, file, new)
           IN  /\ out \in Seq(Line)
               /\ \A f \in Files :
                    ListingsOf(out, f) = IF f = file THEN {new} ELSE ListingsOf(lines, f)
               /\ Range(Entries(out)) \subseteq Range(Entries(lines)) \union {new}
<1> DEFINE old == Entries(lines)
           put == [k \in DOMAIN old |-> IF old[k][1].name = file THEN new ELSE old[k]]
           there == \E k \in DOMAIN old : old[k][1].name = file
           add == IF there THEN <<>> ELSE new
           out == UpdateDb(lines, file, new)
<1>1. old \in Seq(Piece) /\ \A k \in DOMAIN old : old[k] \in Range(old) /\ old[k] # <<>>
    BY OldEntries
<1>2. out = FlattenSeq(put) \o add
    BY DEF UpdateDb
<1> HIDE DEF old, out
<1>3. new \in Piece /\ new # <<>> /\ add \in Piece
    BY DEF Piece, Entry
<1>4. DOMAIN put = DOMAIN old /\ put \in Seq(Piece)
    <2>1. Len(old) \in Nat /\ DOMAIN old = 1 .. Len(old)
        BY <1>1
    <2>2. put \in [1 .. Len(old) -> Piece]
        BY <1>1, <1>3, <2>1
    <2> QED BY <2>1, <2>2
<1>5. out \in Seq(Line) /\ Range(Entries(out)) = (Range(put) \union {add}) \ {<<>>}
    BY <1>2, <1>3, <1>4, Rewritten
<1>6. Range(put) \union {add} \subseteq Range(old) \union {new, <<>>}
    BY <1>1, <1>4 DEF Range
<1>7. new \in Range(put) \union {add}
    BY <1>4 DEF Range
<1>8. \A e \in Range(old) : e[1].name # file => e \in Range(put)
    BY <1>4 DEF Range
<1>9. \A e \in Range(put) \union {add} : e # <<>> /\ e[1].name = file => e = new
    BY <1>4 DEF Range
<1> HIDE DEF put, add
<1>10. Range(old) \subseteq Piece \ {<<>>}
    BY <1>1 DEF Range
<1>11. ASSUME NEW f \in Files, f # file
       PROVE  ListingsOf(out, f) = ListingsOf(lines, f)
    BY <1>3, <1>5, <1>6, <1>8, <1>10, <1>11 DEF ListingsOf, old
<1>12. ListingsOf(out, file) = {new}
    BY <1>3, <1>5, <1>7, <1>9 DEF ListingsOf
<1>13. Range(Entries(out)) \subseteq Range(Entries(lines)) \union {new}
    BY <1>5, <1>6 DEF old
<1> QED BY <1>5, <1>11, <1>12, <1>13 DEF out

LEMMA DeleteFacts ==
    ASSUME NEW lines \in Seq(Line), NEW file \in Files
    PROVE  LET out == DeleteDb(lines, file)
           IN  /\ out \in Seq(Line)
               /\ \A f \in Files :
                    ListingsOf(out, f) = IF f = file THEN {} ELSE ListingsOf(lines, f)
               /\ Range(Entries(out)) \subseteq Range(Entries(lines))
<1> DEFINE old == Entries(lines)
           put == [k \in DOMAIN old |-> IF old[k][1].name = file THEN <<>> ELSE old[k]]
           out == DeleteDb(lines, file)
<1>1. old \in Seq(Piece) /\ \A k \in DOMAIN old : old[k] \in Range(old) /\ old[k] # <<>>
    BY OldEntries
<1>2. out = FlattenSeq(put)
    BY DEF DeleteDb
<1> HIDE DEF old, out
<1>3. <<>> \in Piece
    BY DEF Piece
<1>4. DOMAIN put = DOMAIN old /\ put \in Seq(Piece)
    <2>1. Len(old) \in Nat /\ DOMAIN old = 1 .. Len(old)
        BY <1>1
    <2>2. put \in [1 .. Len(old) -> Piece]
        BY <1>1, <1>3, <2>1
    <2> QED BY <2>1, <2>2
<1>5. out \in Seq(Line) /\ Range(Entries(out)) = Range(put) \ {<<>>}
    BY <1>2, <1>4, FlattenEntries
<1>6. Range(put) \subseteq Range(old) \union {<<>>}
    BY <1>1, <1>4 DEF Range
<1>8. \A e \in Range(old) : e[1].name # file => e \in Range(put)
    BY <1>4 DEF Range
<1>9. \A e \in Range(put) : e # <<>> => e[1].name # file
    BY <1>4 DEF Range
<1> HIDE DEF put
<1>10. Range(old) \subseteq Piece \ {<<>>}
    BY <1>1 DEF Range
<1>11. ASSUME NEW f \in Files, f # file
       PROVE  ListingsOf(out, f) = ListingsOf(lines, f)
    BY <1>5, <1>6, <1>8, <1>10, <1>11 DEF ListingsOf, old
<1>12. ListingsOf(out, file) = {}
    BY <1>5, <1>9 DEF ListingsOf
<1>13. Range(Entries(out)) \subseteq Range(Entries(lines))
    BY <1>5, <1>6 DEF old
<1> QED BY <1>5, <1>11, <1>12, <1>13 DEF out

LEMMA CopyFacts ==
    ASSUME NEW lines \in Seq(Line)
    PROVE  LET out == FlattenSeq(Entries(lines))
           IN  out \in Seq(Line) /\ Range(Entries(out)) = Range(Entries(lines))
<1> DEFINE old == Entries(lines)
<1>1. old \in Seq(Piece) /\ \A k \in DOMAIN old : old[k] # <<>>
    BY OldEntries
<1> HIDE DEF old
<1>2. FlattenSeq(old) \in Seq(Line) /\ Range(Entries(FlattenSeq(old))) = Range(old) \ {<<>>}
    BY <1>1, FlattenEntries
<1>3. Range(old) \ {<<>>} = Range(old)
    BY <1>1 DEF Range
<1> QED BY <1>2, <1>3 DEF old

LEMMA UpToFacts ==
    ASSUME NEW lines \in Seq(Line), NEW file \in Files
    PROVE  LET out == UpToFile(lines, file)
           IN  /\ out \in Seq(Line)
               /\ Range(Entries(out)) \subseteq Range(Entries(lines))
<1> DEFINE old == Entries(lines)
           at == {k \in DOMAIN old : old[k][1].name = file}
           m == Min(at)
<1>1. old \in Seq(Piece) /\ old = Entries(lines)
    BY OldEntries
<1> HIDE DEF old
<1>2. CASE at = {}
    BY <1>1, <1>2, FlattenEntries DEF UpToFile
<1>3. CASE at # {}
    <2>1. m \in at
        <3>1. at \in SUBSET Nat
            BY <1>1
        <3>2. PICK x \in at : \A i \in at : x <= i
            BY <1>3, <3>1, LeastElement
        <3> QED BY <3>2 DEF Min
    <2>2. UpToFile(lines, file) = FlattenSeq(SubSeq(old, 1, m - 1))
        BY <1>1, <1>3 DEF UpToFile
    <2> HIDE DEF m
    <2>3. m \in 1 .. Len(old) /\ Len(old) \in Nat
        BY <1>1, <2>1
    <2> DEFINE part == SubSeq(old, 1, m - 1)
    <2>4. part \in Seq(Piece) /\ Range(part) \subseteq Range(old)
        <3>1. part \in Seq(Piece)
            BY <1>1, <2>3
        <3>2. \A i \in DOMAIN part : i \in DOMAIN old /\ part[i] = old[i]
            BY <1>1, <2>3
        <3> HIDE DEF part
        <3> QED BY <3>1, <3>2 DEF Range
    <2> HIDE DEF part
    <2>5. FlattenSeq(part) \in Seq(Line) /\ Range(Entries(FlattenSeq(part))) = Range(part) \ {<<>>}
        BY <2>4, FlattenEntries
    <2> QED BY <1>1, <2>2, <2>4, <2>5 DEF part
<1> QED BY <1>2, <1>3

(***************************************************************************)
(* Types and inodes.                                                       *)
(***************************************************************************)
FileName == [dir : Dirs \union {Nowhere}, file : Files]
Steps == {"open", "flush", "copy", "blocks", "unlink"}
AnyUse == CHOOSE c \in Uses : TRUE
Run == [at : Ended \union Steps, cmd : Uses \union {AnyUse}, left : Seq(FileName),
        out : Seq(Line), ends : BOOLEAN, into : Nat, from : Nat, offset : Nat,
        before : Seq(Line), alone : BOOLEAN]

DatabaseTypeOK ==
    /\ disk \in [Dirs \X Files -> [text : AllTexts, time : Nat]]
    /\ store \in Seq(Seq(Line))
    /\ dbInode \in [Dirs -> 0 .. Len(store)]
    /\ tempInode \in 0 .. Len(store)
    /\ htadd \in [Adders -> Run]
    /\ clock \in Nat /\ \A k \in Dirs \X Files : disk[k].time <= clock
    /\ past \in [overlapped : BOOLEAN, foreign : BOOLEAN, cut : BOOLEAN, quick : BOOLEAN,
                 edits : Nat]

DirOf(h) == h.cmd.dir
Fresh(h) == h.cmd.op = "fresh"

\* What a run has opened, and what is left of its names.
Opened(h) ==
    /\ h.at \in Steps \union {"done", "exited"} => h.cmd \in Uses
    /\ h.at \in Steps \ {"open"} => h.left # <<>>
    /\ h.at \in {"flush", "blocks"} => h.into \in 1 .. Len(store)
    /\ h.at = "flush" /\ Fresh(h) => h.out \in Entry
    /\ h.at = "blocks" => h.from \in 1 .. Len(store)

\* A run that is alone is the only one there is; nobody starts meanwhile.
OnlyOne == \A a \in Adders :
    htadd[a].alone \/ (a \in Adding /\ ~past.overlapped) => Adding \subseteq {a}

\* No database is the temporary file, or that of another directory.
InodesApart ==
    /\ tempInode # 0 => \A d \in Dirs : dbInode[d] # tempInode
    /\ \A d, e \in Dirs : dbInode[d] # 0 /\ d # e => dbInode[d] # dbInode[e]

FilesGood ==
    /\ DatabaseTypeOK /\ OnlyOne /\ InodesApart
    /\ \A a \in Adders : Opened(htadd[a])

LEMMA UseFacts ==
    ASSUME NEW c \in Uses
    PROVE  /\ c.dir \in Dirs /\ c.op \in {"add", "delete", "fresh"} /\ c.names \in Seq(FileName)
           /\ c.dir # Nowhere
BY DatabaseAssumption DEF FileName

LEMMA IdleFacts ==
    /\ Idle \in Run /\ Idle.at = "off" /\ ~Idle.alone
    /\ \A at \in {"killed"} : LET t == [Idle EXCEPT !.at = at]
                              IN  t \in Run /\ t.at = "killed" /\ ~t.alone
<1>1. <<>> \in Seq(FileName) /\ <<>> \in Seq(Line)
    OBVIOUS
<1> DEFINE none == <<>>
           no == FALSE
           z == 0
<1>2. Idle = [at |-> "off", cmd |-> AnyUse, left |-> none, out |-> none, ends |-> no,
              into |-> z, from |-> z, offset |-> z, before |-> none, alone |-> no]
    BY DEF Idle, AnyUse
<1>3. none \in Seq(FileName) /\ none \in Seq(Line) /\ no \in BOOLEAN /\ z \in Nat /\ ~no
    BY <1>1
<1> HIDE DEF none, no, z
<1> QED BY <1>2, <1>3 DEF Run, Ended, Steps

LEMMA AtEndFacts ==
    ASSUME NEW h \in Run, NEW at \in {"done", "exited"}
    PROVE  LET t == AtEnd(h, at)
           IN  t \in Run /\ t.at = at /\ t.cmd = h.cmd /\ t.before = h.before /\ t.alone = h.alone
<1>1. h.cmd \in Uses \union {AnyUse} /\ h.before \in Seq(Line) /\ h.alone \in BOOLEAN
    BY DEF Run
<1>2. at \in Ended
    BY DEF Ended
<1> DEFINE c == h.cmd
           b == h.before
           l == h.alone
<1>3. AtEnd(h, at) = [Idle EXCEPT !.at = at, !.cmd = c, !.before = b, !.alone = l]
    BY DEF AtEnd
<1>4. c \in Uses \union {AnyUse} /\ b \in Seq(Line) /\ l \in BOOLEAN
    BY <1>1
<1> HIDE DEF c, b, l
<1>5. LET t == [Idle EXCEPT !.at = at, !.cmd = c, !.before = b, !.alone = l]
      IN  t \in Run /\ t.at = at /\ t.cmd = c /\ t.before = b /\ t.alone = l
    BY <1>2, <1>4, IdleFacts DEF Run
<1> QED BY <1>3, <1>5 DEF c, b, l

LEMMA OnlyHtaddFacts ==
    ASSUME DatabaseTypeOK, NEW a \in Adders, NEW r \in Run, OnlyHtadd(a, r)
    PROVE  /\ htadd' \in [Adders -> Run] /\ htadd'[a] = r
           /\ \A b \in Adders : b # a => htadd'[b] = htadd[b]
BY DEF DatabaseTypeOK, OnlyHtadd

\* One run steps and does not become alone.
LEMMA OnlyOneKept ==
    ASSUME DatabaseTypeOK, OnlyOne, NEW a \in Adders, a \in Adding, NEW r \in Run,
           OnlyHtadd(a, r), r.alone => htadd[a].alone, past'.overlapped = past.overlapped
    PROVE  OnlyOne'
<1>1. /\ htadd'[a] = r /\ \A b \in Adders : b # a => htadd'[b] = htadd[b]
    BY OnlyHtaddFacts
<1>2. Adding' \subseteq Adding
    <2> SUFFICES ASSUME NEW b \in Adders, htadd'[b].at \notin Ended
                 PROVE  b \in Adding
        BY DEF Adding
    <2>1. CASE b = a
        BY <2>1
    <2>2. CASE b # a
        BY <1>1, <2>2 DEF Adding
    <2> QED BY <2>1, <2>2
<1>3. ASSUME NEW b \in Adders, htadd'[b].alone \/ (b \in Adding' /\ ~past'.overlapped)
      PROVE  Adding' \subseteq {b}
    <2>1. htadd[b].alone \/ (b \in Adding /\ ~past.overlapped)
        BY <1>1, <1>2, <1>3
    <2> QED BY <1>2, <2>1 DEF OnlyOne
<1> QED BY <1>3 DEF OnlyOne

(***************************************************************************)
(* Writing.                                                                *)
(***************************************************************************)
LEMMA OverlayFacts ==
    ASSUME NEW old \in Seq(Line), NEW new \in Seq(Line), NEW offset \in Nat
    PROVE  /\ Overlay(old, offset, new) \in Seq(Line)
           /\ offset = Len(old) => Overlay(old, offset, new) = old \o new
<1> DEFINE n == Len(old)
           k == Len(new)
           m == Max({n, offset + k})
           t == Overlay(old, offset, new)
           Cell(i) == IF i \in offset + 1 .. offset + k THEN new[i - offset]
                      ELSE IF i <= n THEN old[i] ELSE Hole
<1>1. /\ n \in Nat /\ k \in Nat /\ (\A i \in 1 .. n : old[i] \in Line)
      /\ \A i \in 1 .. k : new[i] \in Line
    OBVIOUS
<1>2. Hole \in Line
    BY DEF Hole, DbLine, Line, LineNames
<1>3. t = [i \in 1 .. m |-> Cell(i)]
    BY DEF Overlay
<1>4. old \o new = [i \in 1 .. n + k |-> IF i <= n THEN old[i] ELSE new[i - n]]
    <2> DEFINE c == old \o new
    <2>1. /\ c \in Seq(Line) /\ Len(c) = n + k
          /\ \A i \in 1 .. n + k : c[i] = IF i <= n THEN old[i] ELSE new[i - n]
        BY ConcatProperties
    <2> HIDE DEF c, n, k
    <2>2. c = [i \in 1 .. n + k |-> c[i]]
        BY <2>1
    <2> QED BY <2>1, <2>2 DEF c
<1> HIDE DEF n, k, t
<1>5. m \in {n, offset + k} /\ m >= n /\ m >= offset + k /\ m \in Nat
    <2>1. \E x \in {n, offset + k} : \A y \in {n, offset + k} : x >= y
        BY <1>1
    <2>2. m \in {n, offset + k} /\ \A y \in {n, offset + k} : m >= y
        BY <2>1 DEF Max
    <2> HIDE DEF m
    <2> QED BY <1>1, <2>2
<1> HIDE DEF m
<1>6. ASSUME NEW i \in 1 .. m
      PROVE  Cell(i) \in Line
    <2>1. CASE i \in offset + 1 .. offset + k
        <3>1. i - offset \in 1 .. k
            BY <1>1, <2>1
        <3> QED BY <1>1, <2>1, <3>1
    <2>2. CASE i \notin offset + 1 .. offset + k /\ i <= n
        <3>1. i \in 1 .. n
            BY <1>1, <1>5, <2>2
        <3> QED BY <1>1, <2>2, <3>1
    <2>3. CASE i \notin offset + 1 .. offset + k /\ ~(i <= n)
        BY <1>2, <2>3
    <2> QED BY <2>1, <2>2, <2>3
<1>7. t \in Seq(Line)
    <2>1. t \in [1 .. m -> Line]
        BY <1>3, <1>6
    <2> QED BY <1>5, <2>1
<1>8. ASSUME offset = n
      PROVE  t = old \o new
    <2>1. m = n + k
        BY <1>1, <1>5, <1>8
    <2>2. \A i \in 1 .. n + k : Cell(i) = IF i <= n THEN old[i] ELSE new[i - n]
        <3>1. \A i \in 1 .. n + k : i \in n + 1 .. n + k <=> ~(i <= n)
            BY <1>1
        <3> QED BY <1>8, <3>1
    <2> HIDE DEF Cell
    <2> QED BY <1>3, <1>4, <2>1, <2>2
<1> QED BY <1>7, <1>8 DEF t, n

LEMMA OpenedFacts ==
    ASSUME NEW s \in Seq(Seq(Line)), s = store, NEW inode \in 0 .. Len(s)
    PROVE  LET o == OpenedW(inode)
           IN  /\ o[2] \in Seq(Seq(Line)) /\ Len(o[2]) >= Len(s) /\ o[1] \in 1 .. Len(o[2])
               /\ Len(s) \in Nat /\ Len(o[2]) \in Nat
               /\ o[2][o[1]] = <<>> /\ (inode # 0 => o[1] = inode)
               /\ inode = 0 => o[1] = Len(s) + 1
               /\ \A i \in 1 .. Len(s) : i # o[1] => o[2][i] = s[i]
<1> DEFINE n == Len(s)
           none == <<>>
           T == Seq(Line)
<1>1. n \in Nat /\ s \in Seq(T) /\ none \in T
    OBVIOUS
<1> HIDE DEF n, none, T
<1>2. CASE inode = 0
    <2> DEFINE t == Append(s, none)
    <2>1. /\ t \in Seq(T) /\ Len(t) = n + 1 /\ t[n + 1] = none
          /\ \A i \in 1 .. n : t[i] = s[i]
        BY <1>1, AppendItems DEF n
    <2>2. OpenedW(inode) = <<n + 1, t>>
        BY <1>2 DEF OpenedW, n, none
    <2> HIDE DEF t
    <2>3. OpenedW(inode)[1] = n + 1 /\ OpenedW(inode)[2] = t
        BY <2>2
    <2> DEFINE k == n + 1
    <2>4. k \in 1 .. Len(t) /\ n <= Len(t) /\ Len(t) \in Nat /\ \A i \in 1 .. n : i # k
        BY <1>1, <2>1
    <2>5. OpenedW(inode)[1] = k /\ t[k] = none
        BY <2>1, <2>3
    <2> HIDE DEF k
    <2>6. /\ OpenedW(inode)[1] \in 1 .. Len(t) /\ t[OpenedW(inode)[1]] = none
          /\ \A i \in 1 .. n : i # OpenedW(inode)[1] => t[i] = s[i]
        BY <2>1, <2>4, <2>5
    <2> QED BY <1>1, <1>2, <2>1, <2>3, <2>4, <2>5, <2>6 DEF n, none, T, k
<1>3. CASE inode # 0
    <2> DEFINE t == [s EXCEPT ![inode] = none]
    <2>0. inode \in 1 .. n
        BY <1>1, <1>3 DEF n
    <2>1. /\ t \in Seq(T) /\ Len(t) = n /\ t[inode] = none
          /\ \A i \in 1 .. n : i # inode => t[i] = s[i]
        BY <1>1, <2>0 DEF n
    <2>2. OpenedW(inode) = <<inode, t>>
        BY <1>3 DEF OpenedW, none
    <2> HIDE DEF t
    <2>3. OpenedW(inode)[1] = inode /\ OpenedW(inode)[2] = t
        BY <2>2
    <2> QED BY <1>1, <1>3, <2>0, <2>1, <2>3 DEF n, none, T
<1> QED BY <1>2, <1>3

(***************************************************************************)
(* What a part of a database says.                                         *)
(***************************************************************************)
Starts(e, f) == Len(e) <= Len(f) /\ \A i \in 1 .. Len(e) : e[i] = f[i]

LEMMA EntriesStep ==
    ASSUME NEW s \in Seq(Line), NEW k \in Nat, k < Len(s)
    PROVE  /\ SubSeq(s, 1, k) \in Seq(Line) /\ s[k + 1] \in Line
           /\ Entries(SubSeq(s, 1, k + 1)) = AddLine(Entries(SubSeq(s, 1, k)), s[k + 1])
<1> DEFINE n == Len(s)
           u == SubSeq(s, 1, k)
           x == s[k + 1]
<1>1. n \in Nat /\ \A i \in 1 .. n : s[i] \in Line
    OBVIOUS
<1>2. k \in Nat /\ k < n
    OBVIOUS
<1>3. SubSeq(s, 1, k + 1) = Append(u, x)
    <2>1. k + 1 \in 1 .. n
        <3> HIDE DEF n
        <3> QED BY <1>1, <1>2
    <2> HIDE DEF n
    <2> QED BY <1>1, <2>1 DEF n
<1>4. u \in Seq(Line) /\ x \in Line
    <2>1. k + 1 \in 1 .. n /\ \A i \in 1 .. k : s[i] \in Line
        <3> HIDE DEF n
        <3> QED BY <1>1, <1>2
    <2>2. u \in Seq(Line)
        <3> HIDE DEF n
        <3> QED BY <1>2, <2>1, SubSeqProperties
    <2> QED BY <1>1, <2>1, <2>2
<1> HIDE DEF u, x
<1>5. Entries(Append(u, x)) = AddLine(Entries(u), x)
    BY <1>4, EntriesAppend
<1> QED BY <1>3, <1>4, <1>5 DEF u, x

\* The entries grow at their end only.
Grows(es, fs) ==
    Len(es) <= Len(fs) /\ \A n \in 1 .. Len(es) : Starts(es[n], fs[n])

LEMMA AddLineGrows ==
    ASSUME NEW es \in Seq(Entry), NEW line \in Line
    PROVE  Grows(es, AddLine(es, line))
<1> DEFINE m == Len(es)
           fs == AddLine(es, line)
<1>1. m \in Nat /\ \A n \in 1 .. m : es[n] \in Entry
    OBVIOUS
<1>2. \A n \in 1 .. m : es[n] \in Seq(Line) /\ Len(es[n]) \in Nat
    BY <1>1 DEF Entry
<1>3. \A n \in 1 .. m : Starts(es[n], es[n])
    BY <1>2 DEF Starts
<1>4. CASE line.kind = "file"
    <2> DEFINE x == <<line>>
    <2>1. fs = Append(es, x)
        BY <1>4 DEF AddLine
    <2>2. x \in Entry
        BY <1>4, NewEntry
    <2> HIDE DEF x, fs
    <2>3. Len(fs) = m + 1 /\ \A n \in 1 .. m : fs[n] = es[n]
        BY <2>1, <2>2, AppendItems
    <2> HIDE DEF m
    <2> QED BY <1>1, <1>3, <2>3 DEF Grows, m, fs
<1>5. CASE line.kind # "file" /\ es = <<>>
    <2>1. fs = <<>> /\ m = 0
        BY <1>5 DEF AddLine
    <2> QED BY <2>1 DEF Grows
<1>6. CASE line.kind # "file" /\ es # <<>>
    <2> DEFINE e == Append(es[m], line)
    <2>1. fs = [es EXCEPT ![m] = e]
        BY <1>6 DEF AddLine
    <2>2. m \in 1 .. m
        BY <1>6
    <2>3. es[m] \in Entry
        BY <1>1, <2>2
    <2>4. Len(e) = Len(es[m]) + 1 /\ (\A i \in 1 .. Len(es[m]) : e[i] = es[m][i]) /\ e \in Entry
        BY <1>6, <2>3, LongerEntry
    <2>5. Starts(es[m], e)
        <3> DEFINE k == Len(es[m])
        <3>1. k \in Nat
            BY <1>2, <2>2
        <3>2. Len(e) = k + 1 /\ \A i \in 1 .. k : e[i] = es[m][i]
            BY <2>4
        <3> HIDE DEF k, e
        <3> QED BY <3>1, <3>2 DEF Starts, k
    <2> HIDE DEF e
    <2>6. Len(fs) = m /\ fs[m] = e /\ \A n \in 1 .. m : n # m => fs[n] = es[n]
        BY <2>1, <2>2, <2>4
    <2> HIDE DEF fs
    <2>7. \A n \in 1 .. m : Starts(es[n], fs[n])
        BY <1>3, <2>5, <2>6
    <2> HIDE DEF m
    <2> QED BY <1>1, <2>6, <2>7 DEF Grows, m, fs
<1> QED BY <1>4, <1>5, <1>6

LEMMA GrowsOn ==
    ASSUME NEW es \in Seq(Entry), NEW fs \in Seq(Entry), NEW gs \in Seq(Entry),
           Grows(es, fs), Grows(fs, gs)
    PROVE  Grows(es, gs)
<1> DEFINE l == Len(es)
           m == Len(fs)
           n == Len(gs)
<1>1. l \in Nat /\ m \in Nat /\ n \in Nat /\ l <= m /\ m <= n
    BY DEF Grows
<1>2. ASSUME NEW i \in 1 .. l
      PROVE  Starts(es[i], gs[i])
    <2> HIDE DEF l, m, n
    <2>1. i \in 1 .. m /\ i \in 1 .. n
        BY <1>1
    <2>2. Starts(es[i], fs[i]) /\ Starts(fs[i], gs[i])
        BY <2>1 DEF Grows, l, m
    <2>3. es[i] \in Entry /\ fs[i] \in Entry /\ gs[i] \in Entry
        BY <2>1 DEF l, m, n
    <2> DEFINE a == es[i]
               b == fs[i]
               c == gs[i]
    <2>4. Len(a) \in Nat /\ Len(b) \in Nat /\ Len(c) \in Nat
        <3>1. a \in Seq(Line) /\ b \in Seq(Line) /\ c \in Seq(Line)
            BY <2>3 DEF Entry
        <3> HIDE DEF a, b, c
        <3> QED BY <3>1
    <2> HIDE DEF a, b, c
    <2>5. Starts(a, b) /\ Starts(b, c)
        BY <2>2 DEF a, b, c
    <2>6. Starts(a, c)
        <3> DEFINE p == Len(a)
                   q == Len(b)
                   r == Len(c)
        <3>1. p \in Nat /\ q \in Nat /\ r \in Nat /\ p <= q /\ q <= r
            BY <2>4, <2>5 DEF Starts
        <3>2. (\A j \in 1 .. p : a[j] = b[j]) /\ (\A j \in 1 .. q : b[j] = c[j])
            BY <2>5 DEF Starts
        <3> HIDE DEF p, q, r
        <3>3. p <= r /\ \A j \in 1 .. p : a[j] = c[j]
            BY <3>1, <3>2
        <3> QED BY <3>3 DEF Starts, p, r
    <2> QED BY <2>6 DEF a, c
<1>3. l <= n
    <2> HIDE DEF l, m, n
    <2> QED BY <1>1
<1> QED BY <1>2, <1>3 DEF Grows

\* Every entry of a part of a database begins one of the whole.
LEMMA EntriesPrefix ==
    ASSUME NEW s \in Seq(Line), NEW k \in 0 .. Len(s)
    PROVE  /\ SubSeq(s, 1, k) \in Seq(Line)
           /\ \A e \in Range(Entries(SubSeq(s, 1, k))) :
                e \in Entry /\ \E f \in Range(Entries(s)) : f \in Entry /\ Starts(e, f)
<1> DEFINE n == Len(s)
           Upto(i) == SubSeq(s, 1, i)
           S == {j \in Nat : k + j <= n => Upto(k + j) \in Seq(Line)
                                           /\ Grows(Entries(Upto(k)), Entries(Upto(k + j)))}
<1>1. n \in Nat /\ k \in Nat /\ k <= n
    OBVIOUS
<1>2. ASSUME NEW i \in Nat, i <= n
      PROVE  Upto(i) \in Seq(Line)
    <2>1. \A j \in 1 .. n : s[j] \in Line
        OBVIOUS
    <2>2. \A j \in 1 .. i : s[j] \in Line
        <3> HIDE DEF n
        <3> QED BY <1>1, <1>2, <2>1
    <2> QED BY <2>2, SubSeqProperties
<1>3. Upto(n) = s
    BY SubSeqFull
<1>4. ASSUME NEW i \in Nat, i < n
      PROVE  Entries(Upto(i + 1)) = AddLine(Entries(Upto(i)), s[i + 1]) /\ s[i + 1] \in Line
    BY <1>4, EntriesStep
<1> HIDE DEF n, Upto
<1>5. 0 \in S
    <2>1. k + 0 = k
        BY <1>1
    <2>2. Entries(Upto(k)) \in Seq(Entry) /\ Upto(k) \in Seq(Line)
        BY <1>1, <1>2, EntriesType
    <2> DEFINE es == Entries(Upto(k))
    <2> HIDE DEF es
    <2>3. Grows(es, es)
        <3>1. es \in Seq(Entry)
            BY <2>2 DEF es
        <3>2. Len(es) \in Nat /\ \A i \in 1 .. Len(es) : es[i] \in Entry
            BY <3>1
        <3>3. \A i \in 1 .. Len(es) : Len(es[i]) \in Nat
            BY <3>2 DEF Entry
        <3> QED BY <3>2, <3>3 DEF Grows, Starts
    <2> QED BY <2>1, <2>2, <2>3 DEF es
<1>6. ASSUME NEW j \in S
      PROVE  j + 1 \in S
    <2> SUFFICES ASSUME k + (j + 1) <= n
                 PROVE  Upto(k + (j + 1)) \in Seq(Line)
                        /\ Grows(Entries(Upto(k)), Entries(Upto(k + (j + 1))))
        OBVIOUS
    <2> DEFINE i == k + j
    <2>1. i \in Nat /\ i < n /\ k + (j + 1) = i + 1 /\ i + 1 \in Nat /\ i + 1 <= n
        BY <1>1
    <2>2. Grows(Entries(Upto(k)), Entries(Upto(i))) /\ Upto(i) \in Seq(Line)
        <3>1. k + j <= n
            BY <1>1
        <3>2. Upto(k + j) \in Seq(Line) /\ Grows(Entries(Upto(k)), Entries(Upto(k + j)))
            BY <3>1
        <3> QED BY <3>2
    <2> HIDE DEF i
    <2>3. Entries(Upto(i + 1)) = AddLine(Entries(Upto(i)), s[i + 1]) /\ s[i + 1] \in Line
        BY <1>4, <2>1
    <2>4. /\ Entries(Upto(i)) \in Seq(Entry) /\ Entries(Upto(k)) \in Seq(Entry)
          /\ Upto(i + 1) \in Seq(Line) /\ Entries(Upto(i + 1)) \in Seq(Entry)
        BY <1>1, <1>2, <2>1, <2>2, EntriesType
    <2>5. Grows(Entries(Upto(i)), Entries(Upto(i + 1)))
        BY <2>3, <2>4, AddLineGrows
    <2>6. Grows(Entries(Upto(k)), Entries(Upto(i + 1)))
        BY <2>2, <2>4, <2>5, GrowsOn
    <2> QED BY <2>1, <2>4, <2>6
<1>7. n - k \in S
    <2>1. S \in SUBSET Nat /\ n - k \in Nat
        BY <1>1
    <2> HIDE DEF S
    <2> QED BY <1>5, <1>6, <2>1, Induct
<1>8. k + (n - k) = n
    BY <1>1
<1> DEFINE es == Entries(Upto(k))
           fs == Entries(s)
<1>9. es \in Seq(Entry) /\ fs \in Seq(Entry) /\ Grows(es, fs)
    <2>1. Grows(Entries(Upto(k)), Entries(Upto(n)))
        BY <1>1, <1>7, <1>8
    <2> QED BY <1>1, <1>2, <1>3, <2>1, EntriesType
<1> HIDE DEF es, fs
<1>10. ASSUME NEW e \in Range(es)
       PROVE  e \in Entry /\ \E f \in Range(fs) : f \in Entry /\ Starts(e, f)
    <2>1. PICK i \in DOMAIN es : e = es[i]
        BY DEF Range
    <2> DEFINE l == Len(es)
               m == Len(fs)
    <2>2. i \in 1 .. l /\ l \in Nat /\ m \in Nat /\ l <= m /\ DOMAIN fs = 1 .. m
        BY <1>9 DEF Grows
    <2> HIDE DEF l, m
    <2>3. i \in DOMAIN fs
        BY <2>2
    <2>4. Starts(es[i], fs[i]) /\ es[i] \in Entry
        BY <1>9, <2>2 DEF Grows, l
    <2>5. fs[i] \in Range(fs) /\ fs[i] \in Entry
        BY <1>9, <2>3 DEF Range
    <2> QED BY <2>1, <2>4, <2>5
<1> QED BY <1>1, <1>2, <1>10 DEF es, fs, Upto

(***************************************************************************)
(* The invariant of the runs of htadd.                                     *)
(***************************************************************************)
Place(h) == Len(h.cmd.names) - Len(h.left)
LeftOK(h) ==
    h.at \in Steps => /\ Place(h) \in 0 .. Len(h.cmd.names)
                      /\ \A i \in 1 .. Len(h.left) : h.left[i] = h.cmd.names[Place(h) + i]

Undisturbed(a) == htadd[a].alone \/ ~past.overlapped

\* The files of a run that met no other are those its step takes them for.
StepOK(h) ==
    LET db == dbInode[DirOf(h)]
    IN  /\ h.at = "flush" /\ Fresh(h) => h.into = db
        /\ h.at = "flush" /\ ~Fresh(h) =>
              h.into = tempInode /\ tempInode # 0 /\ db # 0 /\ store[h.into] = <<>>
        /\ h.at = "copy" => ~Fresh(h) /\ tempInode # 0 /\ db # 0
        /\ h.at = "blocks" =>
              /\ ~Fresh(h) /\ h.from = tempInode /\ h.into = db
              /\ h.offset \in 0 .. Len(store[h.from])
              /\ store[h.into] = SubSeq(store[h.from], 1, h.offset)
        /\ h.at = "unlink" => ~Fresh(h) /\ db # 0

\* After p names: the files not named are listed as before, those named as asked.
Others(h, lines, p) ==
    \A f \in Files : (\A k \in 1 .. p : h.cmd.names[k].file # f) =>
        ListingsOf(lines, f) = ListingsOf(h.before, f)
Done(h, lines, k) ==
    LET n == h.cmd.names[k]
    IN  /\ h.cmd.op = "add" => \E e : ListingsOf(lines, n.file) = {e}
        /\ h.cmd.op = "delete" /\ n.dir = Nowhere => ListingsOf(lines, n.file) = {}
Kept(h, lines, p) == Others(h, lines, p) /\ \A k \in 1 .. p : Done(h, lines, k)

\* What a run that is alone has done of its names.
KeptOK(h) ==
    LET now == Database(DirOf(h))
        names == h.cmd.names
    IN  /\ h.at \in {"open", "flush"} => Kept(h, now, Place(h))
        /\ h.at = "flush" /\ ~h.ends => Kept(h, h.out, Place(h) + 1)
        /\ h.at = "copy" => Kept(h, store[tempInode], Place(h) + 1)
        /\ h.at = "blocks" => Kept(h, store[h.from], Place(h) + 1)
        /\ h.at = "unlink" => Kept(h, now, Place(h) + 1)
        /\ h.at = "done" => Kept(h, now, Len(names))
        /\ h.at = "exited" => \E p \in 0 .. Len(names) : Others(h, now, p)

RunsOK == \A a \in Adders :
    /\ LeftOK(htadd[a])
    /\ Undisturbed(a) => StepOK(htadd[a])
    /\ htadd[a].alone /\ ~Fresh(htadd[a]) => KeptOK(htadd[a])

\* A listed place is right as long as the date is; "exact" says more, of files that
\* nobody edits.
Truth(d, e) ==
    LET there == disk[<<d, e[1].name>>]
    IN  /\ e[1].name \in Files /\ e[1].at \in 0 .. there.time
        /\ past.edits = 0 => e[1].at = there.time
        /\ e[1].at = there.time =>
              \A i \in 2 .. Len(e) :
                e[i].at \in DOMAIN there.text /\ there.text[e[i].at] = Known(e[i])
Exact(d, e) ==
    LET f == e[1].name
    IN  f \in Files /\ disk[<<d, f>>].time # 0 /\ e = AddNewPages(f, disk[<<d, f>>])

Modes == {"true", "exact"}
Fits(m, d, e) == (m = "true" => Truth(d, e)) /\ (m = "exact" => Exact(d, e))
AllFit(m, d, lines) == \A e \in Range(Entries(lines)) : Fits(m, d, e)

\* When the listings of a mode are promised.
Clean(m) ==
    /\ ~past.foreign /\ ~past.overlapped
    /\ m = "true" => ~past.quick
    /\ m = "exact" => ~past.cut /\ past.edits = 0

RunFits(m, h) ==
    /\ h.at = "flush" => AllFit(m, DirOf(h), h.out)
    /\ h.at = "copy" => AllFit(m, DirOf(h), store[tempInode])
    /\ h.at = "blocks" => AllFit(m, DirOf(h), store[h.from])

Copied(m, h, d) == m = "exact" /\ h.at = "blocks" /\ DirOf(h) = d

\* The databases and what h, the only run, is going to write.
LinesFit(m, h) ==
    /\ \A d \in Dirs : AllFit(m, d, Database(d)) \/ Copied(m, h, d)
    /\ RunFits(m, h)

LinesOK == \A m \in Modes : Clean(m) =>
    /\ \A d \in Dirs : AllFit(m, d, Database(d)) \/ \E a \in Adders : Copied(m, htadd[a], d)
    /\ \A a \in Adders : RunFits(m, htadd[a])

DatabaseInv == FilesGood /\ RunsOK /\ LinesOK

\* A step of a run that is not its start: nobody else is concerned.
LEMMA OwnStep ==
    ASSUME DatabaseInv, NEW a \in Adders, a \in Adding, NEW r \in Run, OnlyHtadd(a, r),
           r.alone => htadd[a].alone, past'.overlapped = past.overlapped,
           DatabaseTypeOK', InodesApart', Opened(r)', Len(store) <= Len(store)',
           LeftOK(r), Undisturbed(a) => StepOK(r)',
           r.alone /\ ~Fresh(r) => KeptOK(r)',
           \A m \in Modes : Clean(m)' => Clean(m) /\ LinesFit(m, r)'
    PROVE  DatabaseInv'
<1>0. /\ DatabaseTypeOK /\ OnlyOne /\ RunsOK
      /\ \A b \in Adders : Opened(htadd[b])
    BY DEF DatabaseInv, FilesGood
<1>1. /\ htadd'[a] = r /\ \A b \in Adders : b # a => htadd'[b] = htadd[b]
    BY <1>0, OnlyHtaddFacts
<1>2. OnlyOne'
    BY <1>0, OnlyOneKept
<1>3. ASSUME NEW b \in Adders
      PROVE  Opened(htadd[b])'
    <2>1. CASE b = a
        BY <1>1, <2>1 DEF Opened
    <2>2. CASE b # a
        <3>1. Opened(htadd[b]) /\ htadd'[b] = htadd[b]
            BY <1>0, <1>1, <2>2
        <3>2. Len(store) \in Nat /\ Len(store)' \in Nat
            BY <1>0 DEF DatabaseTypeOK
        <3> DEFINE n == Len(store)
                   m == Len(store)'
                   h == htadd[b]
        <3>3. 1 .. n \subseteq 1 .. m
            <4> HIDE DEF n, m
            <4> QED BY <3>2 DEF n, m
        <3>4. h.at \in {"flush", "blocks"} => h.into \in 1 .. n
            BY <3>1 DEF Opened
        <3>5. h.at = "blocks" => h.from \in 1 .. n
            BY <3>1 DEF Opened
        <3>6. /\ h.at \in {"flush", "blocks"} => h.into \in 1 .. m
              /\ h.at = "blocks" => h.from \in 1 .. m
            BY <3>3, <3>4, <3>5
        <3> QED BY <3>1, <3>6 DEF Opened
    <2> QED BY <2>1, <2>2
<1>4. ASSUME NEW b \in Adders
      PROVE  /\ LeftOK(htadd'[b])
             /\ Undisturbed(b)' => StepOK(htadd[b])'
             /\ htadd'[b].alone /\ ~Fresh(htadd'[b]) => KeptOK(htadd[b])'
    <2>1. CASE b = a
        <3>1. Undisturbed(a)' => Undisturbed(a)
            BY <1>1 DEF Undisturbed
        <3>2. StepOK(r)' => StepOK(htadd[a])'
            BY <1>1 DEF StepOK, DirOf, Fresh
        <3>3. KeptOK(r)' => KeptOK(htadd[a])'
            BY <1>1 DEF KeptOK, DirOf
        <3> QED BY <1>1, <2>1, <3>1, <3>2, <3>3
    <2>2. CASE b # a
        <3>1. LeftOK(htadd[b]) /\ htadd'[b] = htadd[b]
            BY <1>0, <1>1, <2>2 DEF RunsOK
        <3>2. ~htadd[b].alone
            BY <1>0, <2>2 DEF OnlyOne
        <3>3. ~past.overlapped => b \notin Adding
            BY <1>0, <2>2 DEF OnlyOne
        <3>4. Undisturbed(b)' => htadd'[b].at \in Ended
            BY <3>1, <3>2, <3>3 DEF Undisturbed, Adding
        <3>5. htadd'[b].at \in Ended => StepOK(htadd[b])'
            BY DEF StepOK, Ended
        <3> QED BY <3>1, <3>2, <3>4, <3>5
    <2> QED BY <2>1, <2>2
<1>5. ASSUME NEW m \in Modes, Clean(m)'
      PROVE  /\ \A d \in Dirs : AllFit(m, d, Database(d))' \/ \E b \in Adders : Copied(m, htadd[b], d)'
             /\ \A b \in Adders : RunFits(m, htadd[b])'
    <2>1. Clean(m) /\ LinesFit(m, r)'
        BY <1>5
    <2>2. \A d \in Dirs : AllFit(m, d, Database(d))' \/ \E b \in Adders : Copied(m, htadd[b], d)'
        <3> TAKE d \in Dirs
        <3>1. AllFit(m, d, Database(d))' \/ Copied(m, r, d)
            BY <2>1 DEF LinesFit, Copied, DirOf
        <3>2. Copied(m, r, d) => Copied(m, htadd[a], d)'
            BY <1>1 DEF Copied, DirOf
        <3> QED BY <3>1, <3>2
    <2>3. ASSUME NEW b \in Adders
          PROVE  RunFits(m, htadd[b])'
        <3>1. CASE b = a
            <4>1. RunFits(m, r)'
                BY <2>1 DEF LinesFit
            <4> QED BY <1>1, <3>1, <4>1 DEF RunFits, DirOf
        <3>2. CASE b # a
            <4>1. b \notin Adding
                BY <1>0, <2>1, <3>2 DEF OnlyOne, Clean
            <4>2. htadd'[b].at \in Ended
                BY <1>1, <3>2, <4>1 DEF Adding
            <4> QED BY <4>2 DEF RunFits, Ended
        <3> QED BY <3>1, <3>2
    <2> QED BY <2>2, <2>3
<1>6. LinesOK'
    BY <1>5 DEF LinesOK, Modes
<1> QED BY <1>2, <1>3, <1>4, <1>6 DEF DatabaseInv, FilesGood, RunsOK

LEMMA RunningFacts ==
    ASSUME DatabaseInv, NEW a \in Adders, a \in Adding
    PROVE  LET h == htadd[a]
           IN  /\ h \in Run /\ h.at \in Steps /\ h.cmd \in Uses
               /\ DirOf(h) \in Dirs /\ h.cmd.op \in {"add", "delete", "fresh"}
               /\ h.cmd.names \in Seq(FileName) /\ h.left \in Seq(FileName)
               /\ h.out \in Seq(Line) /\ h.before \in Seq(Line) /\ h.ends \in BOOLEAN
               /\ h.into \in Nat /\ h.from \in Nat /\ h.offset \in Nat /\ h.alone \in BOOLEAN
               /\ Opened(h) /\ LeftOK(h)
               /\ Undisturbed(a) => StepOK(h)
               /\ h.alone => Undisturbed(a)
               /\ h.alone /\ ~Fresh(h) => KeptOK(h)
<1>1. /\ htadd \in [Adders -> Run] /\ Opened(htadd[a]) /\ RunsOK
      /\ htadd[a].at \notin Ended
    BY DEF DatabaseInv, FilesGood, DatabaseTypeOK, Adding
<1> DEFINE h == htadd[a]
<1>2. h \in Run
    BY <1>1
<1> HIDE DEF h
<1>3. /\ h.at \in Ended \union Steps
      /\ h.left \in Seq(FileName) /\ h.out \in Seq(Line) /\ h.before \in Seq(Line)
      /\ h.ends \in BOOLEAN /\ h.into \in Nat /\ h.from \in Nat /\ h.offset \in Nat
      /\ h.alone \in BOOLEAN
    BY <1>2 DEF Run
<1>4. h.at \in Steps /\ h.cmd \in Uses
    BY <1>1, <1>3 DEF h, Opened
<1>5. /\ DirOf(h) \in Dirs /\ h.cmd.op \in {"add", "delete", "fresh"}
      /\ h.cmd.names \in Seq(FileName)
    BY <1>4, UseFacts DEF DirOf
<1>6. /\ LeftOK(h) /\ (Undisturbed(a) => StepOK(h)) /\ (h.alone /\ ~Fresh(h) => KeptOK(h))
    BY <1>1 DEF RunsOK, h
<1> QED BY <1>1, <1>2, <1>3, <1>4, <1>5, <1>6 DEF h, Undisturbed

LEMMA StateFacts ==
    ASSUME DatabaseInv
    PROVE  /\ DatabaseTypeOK /\ OnlyOne /\ InodesApart
           /\ Len(store) \in Nat /\ store \in Seq(Seq(Line))
           /\ \A i \in 1 .. Len(store) : store[i] \in Seq(Line)
           /\ dbInode \in [Dirs -> 0 .. Len(store)] /\ tempInode \in 0 .. Len(store)
           /\ \A d \in Dirs : Database(d) \in Seq(Line)
<1>1. /\ DatabaseTypeOK /\ OnlyOne /\ InodesApart
    BY DEF DatabaseInv, FilesGood
<1>2. /\ store \in Seq(Seq(Line)) /\ dbInode \in [Dirs -> 0 .. Len(store)]
      /\ tempInode \in 0 .. Len(store)
    BY <1>1 DEF DatabaseTypeOK
<1> DEFINE T == Seq(Line)
           n == Len(store)
<1>3. n \in Nat /\ \A i \in 1 .. n : store[i] \in T
    <2> store \in Seq(T)
        BY <1>2
    <2> HIDE DEF T
    <2> QED OBVIOUS
<1>4. ASSUME NEW d \in Dirs
      PROVE  Database(d) \in Seq(Line)
    <2>1. CASE dbInode[d] = 0
        <3>1. <<>> \in Seq(Line)
            OBVIOUS
        <3> QED BY <2>1, <3>1 DEF Database
    <2>2. CASE dbInode[d] # 0
        <3>1. dbInode[d] \in 0 .. n
            BY <1>2
        <3> HIDE DEF n
        <3>2. dbInode[d] \in 1 .. n
            BY <1>3, <2>2, <3>1
        <3> QED BY <1>3, <2>2, <3>2 DEF Database
    <2> QED BY <2>1, <2>2
<1> QED BY <1>1, <1>2, <1>3, <1>4

(* The next name of a run, and what is left after it. *)
LEMMA NextName ==
    ASSUME NEW h \in Run, h.cmd \in Uses, h.at \in Steps, LeftOK(h), h.left # <<>>
    PROVE  /\ Place(h) \in Nat /\ Place(h) + 1 \in 1 .. Len(h.cmd.names)
           /\ Len(h.cmd.names) \in Nat
           /\ Head(h.left) = h.cmd.names[Place(h) + 1] /\ Head(h.left) \in FileName
           /\ \A k \in 1 .. Len(h.cmd.names) : h.cmd.names[k] \in FileName
           /\ Tail(h.left) \in Seq(FileName)
           /\ \A r \in Run : r.cmd = h.cmd /\ r.left = Tail(h.left) =>
                Place(r) = Place(h) + 1 /\ LeftOK(r)
<1> DEFINE names == h.cmd.names
           left == h.left
           n == Len(names)
           m == Len(left)
           p == n - m
           T == FileName
<1>1. names \in Seq(T) /\ left \in Seq(T) /\ left # <<>>
    BY UseFacts DEF Run
<1>2. p \in 0 .. n /\ \A i \in 1 .. m : left[i] = names[p + i]
    BY DEF LeftOK, Place
<1> HIDE DEF T, names, left
<1>3. /\ n \in Nat /\ m \in Nat /\ m # 0 /\ Tail(left) \in Seq(T) /\ Head(left) \in T
      /\ Head(left) = left[1]
      /\ Len(Tail(left)) = m - 1 /\ \A i \in 1 .. m - 1 : Tail(left)[i] = left[i + 1]
      /\ \A k \in 1 .. n : names[k] \in T
    BY <1>1
<1> HIDE DEF n, m
<1>4. p \in Nat /\ p + 1 \in 1 .. n /\ Head(left) = names[p + 1]
    BY <1>2, <1>3
<1>5. /\ n - (m - 1) = p + 1 /\ n - (m - 1) \in 0 .. n
      /\ \A i \in 1 .. m - 1 : left[i + 1] = names[p + 1 + i]
    <2>1. \A i \in 1 .. m - 1 : i + 1 \in 1 .. m /\ p + (i + 1) = p + 1 + i
        BY <1>3
    <2> QED BY <1>2, <1>3, <2>1
<1>6. ASSUME NEW r \in Run, r.cmd = h.cmd, r.left = Tail(left)
      PROVE  Place(r) = p + 1 /\ LeftOK(r)
    <2>1. Len(r.left) = m - 1 /\ Len(r.cmd.names) = n /\ r.cmd.names = names
        BY <1>3, <1>6 DEF n, names
    <2>2. Place(r) = p + 1
        BY <1>5, <2>1 DEF Place
    <2>3. Place(r) \in 0 .. n
        BY <1>5, <2>2
    <2>4. \A i \in 1 .. m - 1 : r.left[i] = names[(p + 1) + i]
        BY <1>3, <1>5, <1>6
    <2> HIDE DEF p
    <2> QED BY <2>1, <2>2, <2>3, <2>4 DEF LeftOK
<1>7. Place(h) = p
    BY DEF Place, p, n, m, names, left
<1> HIDE DEF p
<1> QED BY <1>3, <1>4, <1>6, <1>7 DEF n, names, left, T

LEMMA SameLeft ==
    ASSUME NEW h, NEW r, LeftOK(h), h.at \in Steps, r.cmd = h.cmd, r.left = h.left
    PROVE  LeftOK(r) /\ Place(r) = Place(h)
BY DEF LeftOK, Place

LEMMA SameKept ==
    ASSUME NEW h, NEW r, NEW lines, NEW p, r.cmd = h.cmd, r.before = h.before
    PROVE  /\ Kept(h, lines, p) => Kept(r, lines, p)
           /\ Others(h, lines, p) => Others(r, lines, p)
BY DEF Kept, Others, Done

\* What a run does to the listings of one name.
Takes(h, n, lines, out) ==
    /\ n.file \in Files
    /\ h.cmd.op \in {"add", "delete"}
    /\ \A f \in Files : f # n.file => ListingsOf(out, f) = ListingsOf(lines, f)
    /\ h.cmd.op = "add" => \E e : ListingsOf(out, n.file) = {e}
    /\ h.cmd.op = "delete" => ListingsOf(out, n.file) \subseteq ListingsOf(lines, n.file)
    /\ h.cmd.op = "delete" /\ n.dir = Nowhere => ListingsOf(out, n.file) = {}

NamesFiles(h, p) == \A k \in 1 .. p : h.cmd.names[k].file \in Files

(* One name more. *)
LEMMA KeptNext ==
    ASSUME NEW h, NEW p \in Nat, NEW lines, NEW out, Kept(h, lines, p), NEW n,
           n = h.cmd.names[p + 1], NamesFiles(h, p + 1), Takes(h, n, lines, out)
    PROVE  Kept(h, out, p + 1)
<1> USE DEF Takes, NamesFiles
<1>0. /\ 1 .. p \subseteq 1 .. p + 1 /\ p + 1 \in 1 .. p + 1
      /\ \A k \in 1 .. p + 1 : k \in 1 .. p \/ k = p + 1
    OBVIOUS
<1>1. Others(h, out, p + 1)
    <2> SUFFICES ASSUME NEW f \in Files, \A k \in 1 .. p + 1 : h.cmd.names[k].file # f
                 PROVE  ListingsOf(out, f) = ListingsOf(h.before, f)
        BY DEF Others
    <2>1. f # n.file /\ \A k \in 1 .. p : h.cmd.names[k].file # f
        BY <1>0
    <2>2. Others(h, lines, p)
        BY DEF Kept
    <2> QED BY <2>1, <2>2 DEF Others
<1>2. ASSUME NEW k \in 1 .. p + 1
      PROVE  Done(h, out, k)
    <2>1. CASE h.cmd.names[k].file = n.file /\ h.cmd.op = "add"
        BY <2>1 DEF Done
    <2>2. CASE k = p + 1
        BY <2>2 DEF Done
    <2>3. CASE k \in 1 .. p /\ h.cmd.names[k].file = n.file /\ h.cmd.op = "delete"
        <3>1. Done(h, lines, k)
            BY <2>3 DEF Kept
        <3> QED BY <2>3, <3>1 DEF Done
    <2>4. CASE k \in 1 .. p /\ h.cmd.names[k].file # n.file
        <3>1. Done(h, lines, k)
            BY <2>4 DEF Kept
        <3>2. ListingsOf(out, h.cmd.names[k].file) = ListingsOf(lines, h.cmd.names[k].file)
            BY <2>4
        <3> QED BY <3>1, <3>2 DEF Done
    <2> QED BY <1>0, <2>1, <2>2, <2>3, <2>4
<1> QED BY <1>1, <1>2 DEF Kept
(***************************************************************************)
(* What the databases say.                                                 *)
(***************************************************************************)
LEMMA RunningLines ==
    ASSUME DatabaseInv, NEW a \in Adders, a \in Adding, NEW m \in Modes, Clean(m)
    PROVE  LinesFit(m, htadd[a])
<1>1. /\ \A d \in Dirs : AllFit(m, d, Database(d)) \/ \E b \in Adders : Copied(m, htadd[b], d)
      /\ RunFits(m, htadd[a])
    BY DEF DatabaseInv, LinesOK
<1>2. \A b \in Adders : b # a => b \notin Adding
    BY DEF DatabaseInv, FilesGood, OnlyOne, Clean
<1>3. \A b \in Adders : htadd[b].at = "blocks" => b = a
    BY <1>2 DEF Adding, Ended
<1> QED BY <1>1, <1>3 DEF LinesFit, Copied

LEMMA FitsSame ==
    ASSUME UNCHANGED disk, past'.edits = past.edits, NEW m \in Modes, NEW d, NEW e
    PROVE  Fits(m, d, e)' <=> Fits(m, d, e)
<1>1. Truth(d, e)' <=> Truth(d, e)
    BY DEF Truth
<1>2. Exact(d, e)' <=> Exact(d, e)
    BY DEF Exact
<1> QED BY <1>1, <1>2 DEF Fits

LEMMA AllFitSame ==
    ASSUME UNCHANGED disk, past'.edits = past.edits, NEW m \in Modes, NEW d, NEW lines
    PROVE  AllFit(m, d, lines)' <=> AllFit(m, d, lines)
BY FitsSame DEF AllFit

\* A step that leaves the databases, of a run with nothing to write.
LEMMA LinesStay ==
    ASSUME DatabaseInv, NEW a \in Adders, a \in Adding, NEW r, r.at \in Ended \union {"open"},
           UNCHANGED <<disk, store, dbInode>>, past'.edits = past.edits,
           \A m \in Modes : Clean(m)' => Clean(m) /\ (htadd[a].at = "blocks" => m = "true")
    PROVE  \A m \in Modes : Clean(m)' => Clean(m) /\ LinesFit(m, r)'
<1> SUFFICES ASSUME NEW m \in Modes, Clean(m)'
             PROVE  Clean(m) /\ LinesFit(m, r)'
    OBVIOUS
<1>1. Clean(m) /\ LinesFit(m, htadd[a])
    BY RunningLines
<1>2. \A d \in Dirs : AllFit(m, d, Database(d))
    BY <1>1 DEF LinesFit, Copied
<1>3. \A d \in Dirs : AllFit(m, d, Database(d))'
    <2> TAKE d \in Dirs
    <2> DEFINE l == Database(d)
    <2>1. PICK lines : lines = Database(d)
        OBVIOUS
    <2>2. Database(d)' = lines
        BY <2>1 DEF Database
    <2>3. AllFit(m, d, lines)
        BY <1>2, <2>1
    <2>4. AllFit(m, d, lines)'
        BY <2>3, AllFitSame
    <2> QED BY <2>2, <2>4 DEF AllFit
<1>4. RunFits(m, r)'
    BY DEF RunFits, Ended
<1> QED BY <1>1, <1>3, <1>4 DEF LinesFit

\* What a step takes from the lines it finds.
LEMMA FitParts ==
    ASSUME NEW m \in Modes, NEW d, NEW lines, AllFit(m, d, lines)
    PROVE  /\ \A out : Range(Entries(out)) \subseteq Range(Entries(lines)) => AllFit(m, d, out)
           /\ \A out, e : /\ Range(Entries(out)) \subseteq Range(Entries(lines)) \union {e}
                         /\ Fits(m, d, e)
                         => AllFit(m, d, out)
BY DEF AllFit

LEMMA FitNone ==
    ASSUME NEW m \in Modes, NEW d
    PROVE  AllFit(m, d, <<>>)
<1>1. Range(Entries(<<>>)) = {}
    <2>1. Range(<<>>) = {}
        BY DEF Range
    <2> QED BY <2>1, EntriesOfNone
<1> QED BY <1>1 DEF AllFit

\* A listing that is right stays right when its end is cut.
LEMMA TruthOfStart ==
    ASSUME NEW d, NEW e \in Entry, NEW f \in Entry, Starts(e, f), Truth(d, f)
    PROVE  Truth(d, e)
<1> DEFINE k == Len(e)
           n == Len(f)
<1>1. k \in Nat /\ n \in Nat /\ k <= n /\ k # 0 /\ \A i \in 1 .. k : e[i] = f[i]
    BY DEF Entry, Starts
<1> HIDE DEF k, n
<1>2. e[1] = f[1] /\ \A i \in 2 .. k : i \in 2 .. n /\ e[i] = f[i]
    BY <1>1
<1> DEFINE there == disk[<<d, f[1].name>>]
           now == f[1].at = there.time
<1>3. /\ f[1].name \in Files /\ f[1].at \in 0 .. there.time /\ (past.edits = 0 => now)
      /\ now => \A i \in 2 .. n :
                f[i].at \in DOMAIN there.text /\ there.text[f[i].at] = Known(f[i])
    BY DEF Truth, n
<1>4. there = disk[<<d, e[1].name>>] /\ (now <=> e[1].at = there.time)
    BY <1>2
<1> HIDE DEF there, now
<1>5. now => \A i \in 2 .. k :
                e[i].at \in DOMAIN there.text /\ there.text[e[i].at] = Known(e[i])
    BY <1>2, <1>3
<1>6. e[1].name \in Files /\ e[1].at \in 0 .. there.time /\ (past.edits = 0 => now)
    BY <1>2, <1>3
<1> QED BY <1>4, <1>5, <1>6 DEF Truth, k

LEMMA TruthOfPart ==
    ASSUME NEW d, NEW lines \in Seq(Line), NEW k \in 0 .. Len(lines), AllFit("true", d, lines)
    PROVE  AllFit("true", d, SubSeq(lines, 1, k))
<1> SUFFICES ASSUME NEW e \in Range(Entries(SubSeq(lines, 1, k)))
             PROVE  Truth(d, e)
    BY DEF AllFit, Fits
<1>1. PICK f \in Range(Entries(lines)) : f \in Entry /\ Starts(e, f)
    BY EntriesPrefix
<1>2. e \in Entry
    BY EntriesPrefix
<1>3. Truth(d, f)
    BY <1>1 DEF AllFit, Fits
<1> QED BY <1>1, <1>2, <1>3, TruthOfStart

\* A database whose inode a step does not write.
LEMMA SameDatabase ==
    ASSUME DatabaseInv, NEW d \in Dirs, NEW i, dbInode[d] # i, dbInode'[d] = dbInode[d],
           \A j \in 1 .. Len(store) : j # i => store'[j] = store[j]
    PROVE  Database(d)' = Database(d)
<1> DEFINE n == Len(store)
<1>1. n \in Nat /\ dbInode[d] \in 0 .. n
    BY StateFacts
<1>2. CASE dbInode[d] = 0
    BY <1>2 DEF Database
<1>3. CASE dbInode[d] # 0
    <2>1. dbInode[d] \in 1 .. n
        <3> HIDE DEF n
        <3> QED BY <1>1, <1>3
    <2>2. store'[dbInode[d]] = store[dbInode[d]]
        BY <2>1
    <2> QED BY <1>3, <2>2 DEF Database
<1> QED BY <1>2, <1>3

\* The database of a directory fits after a step that leaves it.
LEMMA SameFits ==
    ASSUME UNCHANGED disk, past'.edits = past.edits, NEW m \in Modes, NEW d \in Dirs,
           AllFit(m, d, Database(d)), Database(d)' = Database(d)
    PROVE  AllFit(m, d, Database(d))'
<1>1. PICK lines : lines = Database(d)
    OBVIOUS
<1>2. AllFit(m, d, lines)'
    BY <1>1, AllFitSame
<1>3. Database(d)' = lines
    BY <1>1
<1> QED BY <1>2, <1>3 DEF AllFit

LEMMA EntriesOfEntry ==
    ASSUME NEW e \in Entry
    PROVE  Range(Entries(e)) = {e}
<1> DEFINE none == <<>>
           es == Entries(none)
<1>1. none \in Seq(Line) /\ es = <<>> /\ none \o e = e
    <2>1. e \in Seq(Line)
        BY DEF Entry
    <2> QED BY <2>1, EntriesOfNone
<1>2. Entries(none \o e) = Append(es, e)
    BY <1>1, EntriesEntry
<1>3. es \in Seq(Entry)
    BY <1>1, EntriesType
<1>4. Range(Append(es, e)) = Range(es) \union {e}
    BY <1>3, AppendRange
<1>5. Range(es) = {}
    BY <1>1 DEF Range
<1> QED BY <1>1, <1>2, <1>4, <1>5

\* What htadd writes of a file is right.
LEMMA NewIsExact ==
    ASSUME DatabaseTypeOK, NEW d \in Dirs, NEW f \in Files, disk[<<d, f>>].time # 0
    PROVE  LET new == AddNewPages(f, disk[<<d, f>>])
           IN  \A m \in Modes : Fits(m, d, new)
<1> DEFINE there == disk[<<d, f>>]
           new == AddNewPages(f, there)
<1>1. there \in [text : AllTexts, time : Nat]
    <2>1. <<d, f>> \in Dirs \X Files
        OBVIOUS
    <2> QED BY <2>1 DEF DatabaseTypeOK
<1> DEFINE D == [text : AllTexts, time : Nat]
           Size == Len(Readable(there.text)) + 1
<1>2. there \in D
    BY <1>1
<1>3. there.time \in Nat
    BY <1>1
<1> HIDE DEF there, D
<1>4. /\ new \in Entry /\ new[1] = DbLine("file", f, there.time)
      /\ \A i \in 2 .. Len(new) :
            /\ new[i].at = i - 1 /\ i - 1 \in 1 .. Len(there.text)
            /\ there.text[i - 1] = [kind |-> new[i].kind, name |-> new[i].name]
    BY <1>2, NewPagesFacts DEF D
<1>5. DOMAIN there.text = 1 .. Len(there.text)
    <2>1. there.text \in AllTexts
        BY <1>2 DEF D
    <2>2. there.text \in Seq([kind : Kinds \union {"broken"}, name : Names])
        BY <2>1, DatabaseAssumption
    <2> QED BY <2>2
<1> HIDE DEF new
<1>6. new[1].name = f /\ new[1].at = there.time
    BY <1>4 DEF DbLine
<1>7. Truth(d, new)
    <2>1. new[1].name \in Files /\ new[1].at \in 0 .. there.time /\ new[1].at = there.time
        BY <1>3, <1>6
    <2>2. ASSUME NEW i \in 2 .. Len(new)
          PROVE  new[i].at \in DOMAIN there.text /\ there.text[new[i].at] = Known(new[i])
        <3>1. /\ new[i].at = i - 1 /\ i - 1 \in 1 .. Len(there.text)
              /\ there.text[i - 1] = [kind |-> new[i].kind, name |-> new[i].name]
            BY <1>4
        <3> QED BY <1>5, <3>1 DEF Known
    <2>3. there = disk[<<d, new[1].name>>]
        BY <1>6 DEF there
    <2> QED BY <2>1, <2>2, <2>3 DEF Truth
<1>8. Exact(d, new)
    BY <1>6 DEF Exact, there, new
<1> QED BY <1>7, <1>8 DEF Fits, new, there

Past == [overlapped : BOOLEAN, foreign : BOOLEAN, cut : BOOLEAN, quick : BOOLEAN, edits : Nat]

LEMMA TypeNext ==
    ASSUME DatabaseTypeOK, NEW a \in Adders, NEW r \in Run, OnlyHtadd(a, r),
           UNCHANGED <<disk, clock>>, past' \in Past, store' \in Seq(Seq(Line)),
           dbInode' \in [Dirs -> 0 .. Len(store')], tempInode' \in 0 .. Len(store')
    PROVE  DatabaseTypeOK'
BY DEF DatabaseTypeOK, OnlyHtadd, Past

LEMMA PastFacts ==
    ASSUME DatabaseTypeOK
    PROVE  /\ past \in Past
           /\ \A b \in BOOLEAN : LET t == [past EXCEPT !.cut = b]
                                 IN  t \in Past /\ t.overlapped = past.overlapped
           /\ \A b \in BOOLEAN : LET t == [past EXCEPT !.foreign = b]
                                 IN  t \in Past /\ t.overlapped = past.overlapped
BY DEF DatabaseTypeOK, Past

LEMMA RunsHere ==
    ASSUME NEW a \in Adders, htadd[a].at \in Steps
    PROVE  a \in Adding
BY DEF Adding, Steps, Ended

(***************************************************************************)
(* The steps.                                                              *)
(***************************************************************************)
LEMMA FinishKeeps ==
    ASSUME DatabaseInv, NEW a \in Adders, Finish(a)
    PROVE  DatabaseInv'
<1> DEFINE h == htadd[a]
<1>1. /\ h.at = "open" /\ h.left = <<>> /\ OnlyHtadd(a, AtEnd(h, "done"))
      /\ UNCHANGED <<disk, store, dbInode, tempInode, clock, past>>
    BY DEF Finish
<1>2. a \in Adding
    BY <1>1, RunsHere DEF Steps
<1>3. /\ h \in Run /\ h.cmd \in Uses /\ LeftOK(h) /\ (h.alone /\ ~Fresh(h) => KeptOK(h))
    BY <1>2, RunningFacts
<1>4. PICK r \in Run : /\ OnlyHtadd(a, r) /\ r.at = "done" /\ r.cmd = h.cmd
                       /\ r.before = h.before /\ r.alone = h.alone
    BY <1>1, <1>3, AtEndFacts
<1>5. DatabaseTypeOK'
    <2>1. DatabaseTypeOK
        BY DEF DatabaseInv, FilesGood
    <2> QED BY <1>1, <1>4, <2>1 DEF DatabaseTypeOK, OnlyHtadd
<1>6. InodesApart' /\ Opened(r)'
    BY <1>1, <1>3, <1>4 DEF DatabaseInv, FilesGood, InodesApart, Opened, Steps
<1>7. LeftOK(r) /\ StepOK(r)'
    BY <1>4 DEF LeftOK, StepOK, Steps
<1>8. ASSUME r.alone /\ ~Fresh(r)
      PROVE  KeptOK(r)'
    <2>1. Kept(h, Database(DirOf(h)), Place(h))
        BY <1>1, <1>3, <1>4, <1>8 DEF KeptOK, Fresh
    <2>2. Place(h) = Len(h.cmd.names)
        <3>1. Len(h.left) = 0
            BY <1>1
        <3>2. h.cmd.names \in Seq(FileName)
            BY <1>3, UseFacts
        <3>3. Len(h.cmd.names) \in Nat
            BY <3>2
        <3> QED BY <3>1, <3>3 DEF Place
    <2>3. Kept(r, Database(DirOf(r)), Len(r.cmd.names))
        BY <1>4, <2>1, <2>2, SameKept DEF DirOf
    <2>4. Database(DirOf(r))' = Database(DirOf(r))
        BY <1>1, <1>4 DEF Database, DirOf
    <2>5. Kept(r, Database(DirOf(r))', Len(r.cmd.names))
        BY <2>3, <2>4
    <2> QED BY <1>4, <2>5 DEF KeptOK
<1>9. Len(store) <= Len(store)' /\ past'.overlapped = past.overlapped
    BY <1>1, StateFacts
<1>10. \A m \in Modes : Clean(m)' => Clean(m) /\ LinesFit(m, r)'
    <2>1. \A m \in Modes : Clean(m)' => Clean(m)
        BY <1>1 DEF Clean
    <2>2. r.at \in Ended \union {"open"} /\ htadd[a].at # "blocks"
        BY <1>1, <1>4 DEF Ended
    <2> QED BY <1>1, <1>2, <2>1, <2>2, LinesStay
<1> QED BY <1>1, <1>2, <1>4, <1>5, <1>6, <1>7, <1>8, <1>9, <1>10, OwnStep

LEMMA KillKeeps ==
    ASSUME DatabaseInv, NEW a \in Adders, Kill(a)
    PROVE  DatabaseInv'
<1> DEFINE yes == TRUE
<1>0. DatabaseTypeOK
    BY DEF DatabaseInv, FilesGood
<1>1. /\ a \in Adding /\ OnlyHtadd(a, [Idle EXCEPT !.at = "killed"]) /\ past' = [past EXCEPT !.cut = yes]
      /\ UNCHANGED <<disk, store, dbInode, tempInode, clock>>
    BY DEF Kill
<1>2. PICK r \in Run : OnlyHtadd(a, r) /\ r.at = "killed" /\ ~r.alone
    BY <1>1, IdleFacts
<1>3. yes \in BOOLEAN
    OBVIOUS
<1> HIDE DEF yes
<1>4. past' \in Past /\ past'.overlapped = past.overlapped
    BY <1>0, <1>1, <1>3, PastFacts
<1>5. DatabaseTypeOK'
    BY <1>0, <1>1, <1>2, <1>4 DEF DatabaseTypeOK, OnlyHtadd, Past
<1>6. InodesApart' /\ Opened(r)'
    BY <1>1, <1>2 DEF DatabaseInv, FilesGood, InodesApart, Opened, Steps
<1>7. LeftOK(r) /\ StepOK(r)'
    BY <1>2 DEF LeftOK, StepOK, Steps
<1>9. Len(store) <= Len(store)'
    BY <1>1, StateFacts
<1>10. \A m \in Modes : Clean(m)' => Clean(m) /\ LinesFit(m, r)'
    <2>0. past \in Past /\ past'.foreign = past.foreign /\ past'.quick = past.quick
          /\ past'.edits = past.edits /\ past'.cut = yes
        BY <1>0, <1>1, <1>3, PastFacts DEF Past
    <2>1. \A m \in Modes : Clean(m)' => Clean(m) /\ m = "true"
        <3> USE DEF yes
        <3> QED BY <1>4, <2>0 DEF Clean, Modes
    <2>2. r.at \in Ended \union {"open"}
        BY <1>2 DEF Ended
    <2> QED BY <1>1, <2>0, <2>1, <2>2, LinesStay
<1> QED BY <1>1, <1>2, <1>4, <1>5, <1>6, <1>7, <1>9, <1>10, OwnStep

LEMMA UnlinkKeeps ==
    ASSUME DatabaseInv, NEW a \in Adders, Unlink(a)
    PROVE  DatabaseInv'
<1> DEFINE h == htadd[a]
           r0 == [h EXCEPT !.at = "open", !.left = Tail(h.left)]
           z == 0
<1>1. /\ h.at = "unlink" /\ OnlyHtadd(a, r0) /\ tempInode' = z
      /\ UNCHANGED <<disk, store, dbInode, clock, past>>
    BY DEF Unlink
<1>2. a \in Adding
    BY <1>1, RunsHere DEF Steps
<1>3. /\ h \in Run /\ h.cmd \in Uses /\ LeftOK(h) /\ (h.alone /\ ~Fresh(h) => KeptOK(h))
      /\ Opened(h) /\ h.at \in Steps
    BY <1>2, RunningFacts
<1>4. h.left # <<>>
    BY <1>1, <1>3 DEF Opened, Steps
<1>5. /\ Tail(h.left) \in Seq(FileName)
      /\ \A t \in Run : t.cmd = h.cmd /\ t.left = Tail(h.left) => Place(t) = Place(h) + 1 /\ LeftOK(t)
    BY <1>3, <1>4, NextName
<1>6. PICK r \in Run : /\ OnlyHtadd(a, r) /\ r.at = "open" /\ r.cmd = h.cmd
                       /\ r.before = h.before /\ r.alone = h.alone /\ r.left = Tail(h.left)
    <2>1. /\ r0 \in Run /\ r0.at = "open" /\ r0.cmd = h.cmd /\ r0.before = h.before
          /\ r0.alone = h.alone /\ r0.left = Tail(h.left)
        BY <1>3, <1>5 DEF Run, Steps
    <2> QED BY <1>1, <2>1
<1>7. Place(r) = Place(h) + 1 /\ LeftOK(r)
    BY <1>5, <1>6
<1>8. DatabaseTypeOK' /\ InodesApart'
    <2>1. DatabaseTypeOK /\ Len(store) \in Nat
        BY StateFacts
    <2>2. tempInode' \in 0 .. Len(store)
        BY <1>1, <2>1
    <2>3. past' \in Past /\ store' \in Seq(Seq(Line)) /\ dbInode' \in [Dirs -> 0 .. Len(store')]
          /\ tempInode' \in 0 .. Len(store')
        BY <1>1, <2>1, <2>2, PastFacts DEF DatabaseTypeOK
    <2>4. DatabaseTypeOK'
        BY <1>1, <1>6, <2>1, <2>3, TypeNext
    <2>5. InodesApart
        BY StateFacts
    <2>6. InodesApart'
        BY <1>1, <2>5 DEF InodesApart
    <2> QED BY <2>4, <2>6
<1>9. Opened(r)' /\ StepOK(r)'
    BY <1>3, <1>6 DEF Opened, StepOK, Steps
<1>10. ASSUME r.alone /\ ~Fresh(r)
       PROVE  KeptOK(r)'
    <2>1. Kept(h, Database(DirOf(h)), Place(h) + 1)
        BY <1>1, <1>3, <1>6, <1>10 DEF KeptOK, Fresh
    <2>2. Kept(r, Database(DirOf(r)), Place(r))
        BY <1>6, <1>7, <2>1, SameKept DEF DirOf
    <2>3. Database(DirOf(r))' = Database(DirOf(r))
        BY <1>1, <1>6 DEF Database, DirOf
    <2>4. Kept(r, Database(DirOf(r))', Place(r))
        BY <2>2, <2>3
    <2> QED BY <1>6, <2>4 DEF KeptOK
<1>11. Len(store) <= Len(store)' /\ past'.overlapped = past.overlapped
    BY <1>1, StateFacts
<1>12. \A m \in Modes : Clean(m)' => Clean(m) /\ LinesFit(m, r)'
    <2>1. \A m \in Modes : Clean(m)' => Clean(m)
        BY <1>1 DEF Clean
    <2>2. r.at \in Ended \union {"open"} /\ htadd[a].at # "blocks"
        BY <1>1, <1>6
    <2> QED BY <1>1, <1>2, <2>1, <2>2, LinesStay
<1> QED BY <1>1, <1>2, <1>6, <1>7, <1>8, <1>9, <1>10, <1>11, <1>12, OwnStep

LEMMA StartKeeps ==
    ASSUME DatabaseInv, NEW a \in Adders, Start(a)
    PROVE  DatabaseInv'
<1> DEFINE h == htadd[a]
           no == FALSE
           z == 0
           calm == Adding = {}
<1>0. /\ DatabaseTypeOK /\ OnlyOne /\ InodesApart /\ RunsOK
      /\ \A b \in Adders : Opened(htadd[b])
      /\ Len(store) \in Nat
    BY StateFacts DEF DatabaseInv, FilesGood
<1>1. PICK c \in Uses :
        /\ htadd' = [b \in Adders |->
                IF b = a
                THEN [htadd[b] EXCEPT !.at = "open", !.cmd = c, !.left = c.names,
                        !.before = Database(c.dir), !.alone = calm]
                ELSE [htadd[b] EXCEPT !.alone = no]]
        /\ dbInode' = IF c.op = "fresh" THEN [dbInode EXCEPT ![c.dir] = z] ELSE dbInode
    BY DEF Start, Database
<1>2. /\ htadd[a].at = "off"
      /\ past' = [past EXCEPT !.overlapped = past.overlapped \/ ~calm]
      /\ UNCHANGED <<disk, store, tempInode, clock>>
    BY DEF Start
<1>3. /\ c.dir \in Dirs /\ c.names \in Seq(FileName) /\ Database(c.dir) \in Seq(Line)
      /\ c.op \in {"add", "delete", "fresh"}
    BY UseFacts, StateFacts
<1>4. calm \in BOOLEAN /\ no \in BOOLEAN /\ ~no /\ z \in 0 .. Len(store)
      /\ (past.overlapped \/ ~calm) \in BOOLEAN
    BY <1>0
<1> DEFINE before == Database(c.dir)
           left == c.names
           met == past.overlapped \/ ~calm
<1>5. PICK r \in Run :
        /\ r.at = "open" /\ r.cmd = c /\ r.left = left /\ r.before = before /\ r.alone = calm
        /\ htadd' = [b \in Adders |-> IF b = a THEN r ELSE [htadd[b] EXCEPT !.alone = no]]
    <2> HIDE DEF calm, before, left, no
    <2> DEFINE r == [htadd[a] EXCEPT !.at = "open", !.cmd = c, !.left = left,
                        !.before = before, !.alone = calm]
    <2>1. htadd[a] \in Run
        BY <1>0 DEF DatabaseTypeOK
    <2>2. /\ r.at = "open" /\ r.cmd = c /\ r.left = left /\ r.before = before /\ r.alone = calm
          /\ r \in Run
        BY <1>3, <1>4, <2>1 DEF Run, Steps, before, left
    <2>3. htadd' = [b \in Adders |-> IF b = a THEN r ELSE [htadd[b] EXCEPT !.alone = no]]
        BY <1>1 DEF before, left
    <2> HIDE DEF r
    <2> QED BY <2>2, <2>3
<1>6. \A b \in Adders \ {a} :
        /\ htadd'[b] = [htadd[b] EXCEPT !.alone = no] /\ htadd'[b] \in Run
        /\ htadd'[b].alone = no /\ htadd'[b].at = htadd[b].at
        /\ htadd'[b].cmd = htadd[b].cmd /\ htadd'[b].left = htadd[b].left
        /\ htadd'[b].into = htadd[b].into /\ htadd'[b].from = htadd[b].from
        /\ htadd'[b].out = htadd[b].out
    <2> HIDE DEF no
    <2> TAKE b \in Adders \ {a}
    <2>1. htadd[b] \in Run
        BY <1>0 DEF DatabaseTypeOK
    <2>2. htadd'[b] = [htadd[b] EXCEPT !.alone = no]
        BY <1>5
    <2>3. /\ [htadd[b] EXCEPT !.alone = no] \in Run
          /\ [htadd[b] EXCEPT !.alone = no].alone = no
        BY <1>4, <2>1 DEF Run
    <2>4. LET t == [htadd[b] EXCEPT !.alone = no]
          IN  t.at = htadd[b].at /\ t.cmd = htadd[b].cmd /\ t.left = htadd[b].left
              /\ t.into = htadd[b].into /\ t.from = htadd[b].from /\ t.out = htadd[b].out
        BY <2>1 DEF Run
    <2> QED BY <2>2, <2>3, <2>4
<1>7. htadd'[a] = r /\ htadd' \in [Adders -> Run]
    <2>1. htadd'[a] = r
        BY <1>5
    <2>2. \A b \in Adders : htadd'[b] \in Run
        BY <1>6, <2>1
    <2> QED BY <1>5, <2>2
<1>8. /\ past' \in Past /\ past'.overlapped = met
    <2> HIDE DEF calm, met
    <2>1. past \in Past /\ met \in BOOLEAN
        BY <1>0, <1>4, PastFacts DEF met
    <2>2. past' = [past EXCEPT !.overlapped = met]
        BY <1>2 DEF met
    <2> QED BY <2>1, <2>2 DEF Past
<1>9. dbInode' \in [Dirs -> 0 .. Len(store)] /\ \A d \in Dirs : dbInode'[d] \in {0, dbInode[d]}
    <2>1. dbInode \in [Dirs -> 0 .. Len(store)]
        BY <1>0 DEF DatabaseTypeOK
    <2> DEFINE N == 0 .. Len(store)
    <2>2. z \in N /\ dbInode \in [Dirs -> N]
        BY <1>4, <2>1
    <2> HIDE DEF N
    <2>3. dbInode' \in [Dirs -> N] /\ \A d \in Dirs : dbInode'[d] \in {z, dbInode[d]}
        BY <1>1, <1>3, <2>2
    <2> QED BY <2>3 DEF N
<1>10. DatabaseTypeOK'
    <2> HIDE DEF calm
    <2> QED BY <1>0, <1>2, <1>7, <1>8, <1>9 DEF DatabaseTypeOK, Past
<1>11. InodesApart'
    BY <1>0, <1>2, <1>9 DEF InodesApart, DatabaseTypeOK
<1>12. Adding' = Adding \union {a} /\ (past'.overlapped \/ Adding = {})
    <2>1. \A b \in Adders : htadd'[b].at \notin Ended <=> b = a \/ htadd[b].at \notin Ended
        BY <1>5, <1>6, <1>7 DEF Ended
    <2> QED BY <1>8, <2>1 DEF Adding
<1>13. OnlyOne'
    BY <1>5, <1>6, <1>7, <1>8, <1>12 DEF OnlyOne
<1>14. ASSUME NEW b \in Adders
       PROVE  Opened(htadd[b])'
    <2>1. CASE b = a
        BY <1>5, <1>7, <2>1 DEF Opened, Steps
    <2>2. CASE b # a
        <3>1. Opened(htadd[b])
            BY <1>0
        <3> QED BY <1>2, <1>6, <2>2, <3>1 DEF Opened, Fresh
    <2> QED BY <2>1, <2>2
<1>15. ASSUME NEW b \in Adders
       PROVE  /\ LeftOK(htadd'[b])
              /\ Undisturbed(b)' => StepOK(htadd[b])'
              /\ htadd'[b].alone /\ ~Fresh(htadd'[b]) => KeptOK(htadd[b])'
    <2>1. CASE b = a
        <3>1. Place(r) = 0
            <4>1. Len(c.names) \in Nat /\ Len(c.names) - Len(c.names) = 0
                <5>1. Len(c.names) \in Nat
                    BY <1>3
                <5> QED BY <5>1
            <4> QED BY <1>5, <4>1 DEF Place
        <3>2. LeftOK(r)
            <4>1. Len(c.names) \in Nat
                BY <1>3
            <4> QED BY <1>5, <3>1, <4>1 DEF LeftOK
        <3>3. StepOK(htadd[a])'
            BY <1>5, <1>7 DEF StepOK
        <3>4. ASSUME ~Fresh(r)
              PROVE  KeptOK(htadd[a])'
            <4>1. Database(c.dir)' = before
                BY <1>1, <1>2, <1>5, <3>4 DEF Database, Fresh
            <4>2. Kept(r, Database(c.dir)', 0)
                BY <1>5, <4>1 DEF Kept, Others
            <4> QED BY <1>5, <1>7, <3>1, <4>2 DEF KeptOK, DirOf
        <3> QED BY <1>7, <2>1, <3>2, <3>3, <3>4
    <2>2. CASE b # a
        <3>0. /\ LeftOK(htadd[b]) /\ htadd'[b].at = htadd[b].at
              /\ htadd'[b].cmd = htadd[b].cmd /\ htadd'[b].left = htadd[b].left
            BY <1>0, <1>6, <2>2 DEF RunsOK
        <3>1. LeftOK(htadd'[b])
            BY <3>0 DEF LeftOK, Place
        <3>2. ~htadd'[b].alone
            BY <1>6, <2>2
        <3>3. ASSUME ~past'.overlapped
              PROVE  StepOK(htadd[b])'
            <4>1. b \notin Adding
                BY <1>12, <3>3
            <4>2. htadd'[b].at \in Ended
                BY <1>6, <2>2, <4>1 DEF Adding
            <4> QED BY <4>2 DEF StepOK, Ended
        <3> QED BY <3>1, <3>2, <3>3 DEF Undisturbed
    <2> QED BY <2>1, <2>2
<1>16. ASSUME NEW m \in Modes, Clean(m)'
       PROVE  /\ \A d \in Dirs : AllFit(m, d, Database(d))'
              /\ \A b \in Adders : RunFits(m, htadd[b])'
    <2>1. Clean(m) /\ Adding = {} /\ past'.edits = past.edits
        <3>1. past'.foreign = past.foreign /\ past'.cut = past.cut /\ past'.quick = past.quick
              /\ past'.edits = past.edits /\ ~past'.overlapped
            <4> DEFINE over == past.overlapped \/ ~calm
            <4>1. past' = [past EXCEPT !.overlapped = over] /\ past \in Past
                BY <1>0, <1>2, PastFacts
            <4> HIDE DEF over, calm, met
            <4> QED BY <1>16, <4>1 DEF Past, Clean
        <3>2. ~met
            BY <1>8, <3>1
        <3> QED BY <1>16, <3>1, <3>2 DEF Clean
    <2>2. \A b \in Adders : htadd[b].at \in Ended
        BY <2>1 DEF Adding
    <2>3. \A b \in Adders : RunFits(m, htadd[b])'
        <3> TAKE b \in Adders
        <3>1. htadd'[b].at \in Ended \union {"open"}
            BY <1>5, <1>6, <1>7, <2>2
        <3> QED BY <3>1 DEF RunFits, Ended
    <2>4. \A d \in Dirs : AllFit(m, d, Database(d))
        BY <2>1, <2>2 DEF DatabaseInv, LinesOK, Copied, Ended
    <2>5. ASSUME NEW d \in Dirs
          PROVE  AllFit(m, d, Database(d))'
        <3>1. PICK lines : lines = IF dbInode'[d] = 0 THEN <<>> ELSE Database(d)
            OBVIOUS
        <3>2. Database(d)' = lines
            BY <1>2, <1>9, <3>1 DEF Database
        <3>3. AllFit(m, d, lines)
            BY <2>4, <3>1, FitNone
        <3>4. AllFit(m, d, lines)'
            BY <1>2, <2>1, <3>3, AllFitSame
        <3> QED BY <3>2, <3>4 DEF AllFit
    <2> QED BY <2>3, <2>5
<1>17. LinesOK'
    BY <1>16 DEF LinesOK, Modes
<1> QED BY <1>10, <1>11, <1>13, <1>14, <1>15, <1>17 DEF DatabaseInv, FilesGood, RunsOK

LEMMA EditKeeps ==
    ASSUME DatabaseInv, NEW k \in Dirs \X Files, Edit(k)
    PROVE  DatabaseInv'
<1> DEFINE no == FALSE
<1>0. /\ DatabaseTypeOK /\ OnlyOne /\ InodesApart /\ RunsOK
      /\ \A b \in Adders : Opened(htadd[b])
    BY DEF DatabaseInv, FilesGood
<1>1. PICK text \in Texts :
        /\ disk' = [disk EXCEPT ![k] = [text |-> text, time |-> clock']]
        /\ past' = [past EXCEPT !.quick = past.quick \/ disk[k].time = clock',
                                !.edits = past.edits + 1]
    BY DEF Edit
<1>2. /\ clock' \in {clock, clock + 1}
      /\ htadd' = [a \in Adders |-> [htadd[a] EXCEPT !.alone = no]]
      /\ UNCHANGED <<store, dbInode, tempInode>>
    BY DEF Edit
<1>3. past' \in Past /\ past'.overlapped = past.overlapped
    <2> DEFINE q == past.quick \/ disk[k].time = clock'
               e == past.edits + 1
    <2>1. past \in Past /\ q \in BOOLEAN /\ e \in Nat
        BY <1>0, PastFacts DEF Past
    <2>2. past' = [past EXCEPT !.quick = q, !.edits = e]
        BY <1>1
    <2> HIDE DEF q, e
    <2> QED BY <2>1, <2>2 DEF Past
<1>4. clock' \in Nat
    BY <1>0, <1>2 DEF DatabaseTypeOK
<1>5. disk' \in [Dirs \X Files -> [text : AllTexts, time : Nat]]
    <2>1. text \in AllTexts
        BY DEF AllTexts
    <2> DEFINE D == [text : AllTexts, time : Nat]
               K == Dirs \X Files
               f == [text |-> text, time |-> clock']
    <2>2. f \in D /\ disk \in [K -> D] /\ disk' = [disk EXCEPT ![k] = f] /\ k \in K
        BY <1>0, <1>1, <1>4, <2>1 DEF DatabaseTypeOK
    <2> HIDE DEF D, K, f
    <2>3. disk' \in [K -> D]
        BY <2>2
    <2> QED BY <2>3 DEF D, K
<1>6. \A b \in Adders :
        /\ htadd'[b] \in Run
        /\ ~htadd'[b].alone /\ htadd'[b].at = htadd[b].at
        /\ htadd'[b].cmd = htadd[b].cmd /\ htadd'[b].left = htadd[b].left
        /\ htadd'[b].into = htadd[b].into /\ htadd'[b].from = htadd[b].from
        /\ htadd'[b].offset = htadd[b].offset /\ htadd'[b].out = htadd[b].out
    <2> TAKE b \in Adders
    <2>0. no \in BOOLEAN /\ ~no
        OBVIOUS
    <2> HIDE DEF no
    <2>1. htadd[b] \in Run
        BY <1>0 DEF DatabaseTypeOK
    <2>2. htadd'[b] = [htadd[b] EXCEPT !.alone = no]
        BY <1>2
    <2>3. LET t == [htadd[b] EXCEPT !.alone = no]
          IN  t \in Run /\ t.alone = no
        BY <2>0, <2>1 DEF Run
    <2>4. LET t == [htadd[b] EXCEPT !.alone = no]
          IN  t.at = htadd[b].at /\ t.cmd = htadd[b].cmd /\ t.left = htadd[b].left
              /\ t.into = htadd[b].into /\ t.from = htadd[b].from /\ t.offset = htadd[b].offset
              /\ t.out = htadd[b].out
        BY <2>1 DEF Run
    <2> QED BY <2>0, <2>2, <2>3, <2>4
<1>7. DatabaseTypeOK'
    <2>1. htadd' \in [Adders -> Run]
        <3>1. \A b \in Adders : htadd'[b] \in Run
            BY <1>6
        <3> QED BY <1>2, <3>1
    <2>2. \A x \in Dirs \X Files : disk'[x].time <= clock'
        <3> TAKE x \in Dirs \X Files
        <3>1. disk[x].time \in Nat /\ disk[x].time <= clock /\ clock \in Nat
            BY <1>0 DEF DatabaseTypeOK
        <3>2. disk'[x].time = IF x = k THEN clock' ELSE disk[x].time
            BY <1>0, <1>1 DEF DatabaseTypeOK
        <3>3. clock' >= clock /\ clock' \in Nat
            BY <1>2, <1>4, <3>1
        <3> QED BY <3>1, <3>2, <3>3
    <2> QED BY <1>0, <1>2, <1>3, <1>4, <1>5, <2>1, <2>2 DEF DatabaseTypeOK, Past
<1>8. InodesApart' /\ OnlyOne'
    <2>1. Adding' = Adding
        BY <1>6 DEF Adding
    <2> QED BY <1>0, <1>2, <1>3, <1>6, <2>1 DEF InodesApart, OnlyOne
<1>9. \A b \in Adders : Opened(htadd[b])'
    <2> TAKE b \in Adders
    <2>1. Opened(htadd[b])
        BY <1>0
    <2> QED BY <1>2, <1>6, <2>1 DEF Opened, Fresh
<1>10. RunsOK'
    <2> SUFFICES ASSUME NEW b \in Adders
                 PROVE  LeftOK(htadd'[b]) /\ (~past'.overlapped => StepOK(htadd[b])')
        BY <1>6 DEF RunsOK, Undisturbed
    <2>1. LeftOK(htadd'[b])
        BY <1>0, <1>6 DEF RunsOK, LeftOK, Place
    <2>2. ASSUME ~past'.overlapped
          PROVE  StepOK(htadd[b])'
        <3>1. StepOK(htadd[b])
            BY <1>0, <1>3, <2>2 DEF RunsOK, Undisturbed
        <3> QED BY <1>2, <1>6, <3>1 DEF StepOK, DirOf, Fresh
    <2> QED BY <2>1, <2>2
<1>11. past'.edits # 0 /\ past'.edits = past.edits + 1
      /\ past'.foreign = past.foreign /\ past'.cut = past.cut
      /\ (~past'.quick => ~past.quick /\ disk[k].time # clock')
    <2> DEFINE q == past.quick \/ disk[k].time = clock'
               e == past.edits + 1
    <2>1. past \in Past /\ q \in BOOLEAN /\ e \in Nat /\ e # 0
        BY <1>0, PastFacts DEF Past
    <2>2. past' = [past EXCEPT !.quick = q, !.edits = e]
        BY <1>1
    <2> HIDE DEF q, e
    <2>3. past'.edits = e /\ past'.quick = q /\ past'.foreign = past.foreign /\ past'.cut = past.cut
        BY <2>1, <2>2 DEF Past
    <2> QED BY <2>1, <2>3 DEF q, e
<1>12. ASSUME Clean("true")', NEW d, NEW e, Truth(d, e)
       PROVE  Truth(d, e)'
    <2> DEFINE x == <<d, e[1].name>>
    <2>1. /\ e[1].name \in Files /\ e[1].at \in 0 .. disk[x].time
          /\ e[1].at = disk[x].time =>
              \A i \in 2 .. Len(e) :
                e[i].at \in DOMAIN disk[x].text /\ disk[x].text[e[i].at] = Known(e[i])
        BY <1>12 DEF Truth
    <2>2. CASE x = k
        <3>1. disk[k].time \in Nat /\ disk[k].time <= clock /\ clock \in Nat
            BY <1>0 DEF DatabaseTypeOK
        <3>2. disk'[k].time = clock' /\ disk[k].time # clock'
            <4>1. disk'[k].time = clock'
                BY <1>0, <1>1 DEF DatabaseTypeOK
            <4> QED BY <1>11, <1>12, <4>1 DEF Clean
        <3>3. clock' > disk[k].time /\ clock' \in Nat
            BY <1>2, <1>4, <3>1, <3>2
        <3> DEFINE at == e[1].at
                   time == disk[k].time
                   now == disk'[k].time
        <3>4. at \in 0 .. time /\ now > time /\ now \in Nat /\ time \in Nat
            BY <2>1, <2>2, <3>1, <3>2, <3>3
        <3> HIDE DEF at, time, now
        <3>5. at \in 0 .. now /\ at # now
            BY <3>4
        <3>6. e[1].at \in 0 .. disk'[x].time /\ e[1].at # disk'[x].time
            BY <2>2, <3>5 DEF at, now
        <3> QED BY <1>11, <2>1, <3>6 DEF Truth
    <2>3. CASE x # k
        <3>1. disk'[x] = disk[x]
            BY <1>1, <2>3
        <3> HIDE DEF x
        <3>2. disk'[x] = disk[x]
            BY <3>1
        <3>3. /\ e[1].name \in Files /\ e[1].at \in 0 .. disk'[x].time
              /\ e[1].at = disk'[x].time =>
                  \A i \in 2 .. Len(e) :
                    e[i].at \in DOMAIN disk'[x].text /\ disk'[x].text[e[i].at] = Known(e[i])
            BY <2>1, <3>2
        <3> QED BY <1>11, <3>3 DEF Truth, x
    <2> QED BY <2>2, <2>3
<1>13. LinesOK'
    <2> SUFFICES ASSUME NEW m \in Modes, Clean(m)'
                 PROVE  /\ \A d \in Dirs : AllFit(m, d, Database(d))'
                        /\ \A b \in Adders : RunFits(m, htadd[b])'
        BY DEF LinesOK, Modes
    <2>1. m = "true"
        BY <1>11 DEF Clean, Modes
    <2>2. Clean(m)
        BY <1>3, <1>11, <2>1 DEF Clean
    <2>3. ASSUME NEW d, NEW lines, AllFit(m, d, lines)
          PROVE  AllFit(m, d, lines)'
        BY <1>12, <2>1, <2>3 DEF AllFit, Fits
    <2>4. \A d \in Dirs : AllFit(m, d, Database(d))'
        <3> TAKE d \in Dirs
        <3>1. PICK lines : lines = Database(d)
            OBVIOUS
        <3>2. AllFit(m, d, lines)
            BY <2>1, <2>2, <3>1 DEF DatabaseInv, LinesOK, Copied
        <3>3. AllFit(m, d, lines)'
            BY <2>3, <3>2
        <3>4. Database(d)' = lines
            BY <1>2, <3>1 DEF Database
        <3> QED BY <3>3, <3>4 DEF AllFit
    <2>5. ASSUME NEW b \in Adders
          PROVE  RunFits(m, htadd[b])'
        <3>1. RunFits(m, htadd[b])
            BY <2>2 DEF DatabaseInv, LinesOK
        <3>2. htadd'[b].out = htadd[b].out /\ htadd'[b].cmd = htadd[b].cmd
              /\ htadd'[b].at = htadd[b].at /\ htadd'[b].from = htadd[b].from
            BY <1>6
        <3>3. PICK h : h = htadd[b]
            OBVIOUS
        <3>4. PICK temp : temp = store[tempInode]
            OBVIOUS
        <3>5. PICK from : from = store[h.from]
            OBVIOUS
        <3>6. PICK dir : dir = DirOf(h)
            OBVIOUS
        <3>7. /\ h.at = "flush" => AllFit(m, dir, h.out)
              /\ h.at = "copy" => AllFit(m, dir, temp)
              /\ h.at = "blocks" => AllFit(m, dir, from)
            BY <3>1, <3>3, <3>4, <3>5, <3>6 DEF RunFits
        <3>8. /\ h.at = "flush" => AllFit(m, dir, h.out)'
              /\ h.at = "copy" => AllFit(m, dir, temp)'
              /\ h.at = "blocks" => AllFit(m, dir, from)'
            BY <2>3, <3>7
        <3>9. /\ DirOf(htadd[b])' = dir /\ htadd'[b].out = h.out
              /\ store'[tempInode'] = temp /\ store'[htadd'[b].from] = from
              /\ htadd'[b].at = h.at
            BY <1>2, <3>2, <3>3, <3>4, <3>5, <3>6 DEF DirOf
        <3> QED BY <3>8, <3>9 DEF RunFits, AllFit
    <2> QED BY <2>4, <2>5
<1> QED BY <1>7, <1>8, <1>9, <1>10, <1>13 DEF DatabaseInv, FilesGood

LEMMA WriteFacts ==
    ASSUME NEW s \in Seq(Seq(Line)), NEW i \in 1 .. Len(s), NEW x \in Seq(Line)
    PROVE  LET t == [s EXCEPT ![i] = x]
           IN  /\ t \in Seq(Seq(Line)) /\ Len(t) = Len(s) /\ t[i] = x
               /\ \A j \in 1 .. Len(s) : j # i => t[j] = s[j]
<1> DEFINE T == Seq(Line)
<1>1. s \in Seq(T) /\ x \in T
    OBVIOUS
<1> HIDE DEF T
<1>2. LET t == [s EXCEPT ![i] = x]
      IN  /\ t \in Seq(T) /\ Len(t) = Len(s) /\ t[i] = x
          /\ \A j \in 1 .. Len(s) : j # i => t[j] = s[j]
    BY <1>1
<1> QED BY <1>2 DEF T

LEMMA CloseKeeps ==
    ASSUME DatabaseInv, NEW a \in Adders, Close(a)
    PROVE  DatabaseInv'
<1> DEFINE h == htadd[a]
           none == <<>>
           left == IF Fresh(h) THEN Tail(h.left) ELSE h.left
           at == IF h.ends THEN "exited" ELSE IF Fresh(h) THEN "open" ELSE "copy"
           r0 == [h EXCEPT !.out = none, !.left = left, !.at = at]
           x == IF Fresh(h) THEN store[h.into] \o h.out ELSE Overlay(store[h.into], 0, h.out)
           n == Len(store)
<1>1. /\ h.at = "flush" /\ OnlyHtadd(a, r0)
      /\ store' = [store EXCEPT ![h.into] = x]
      /\ UNCHANGED <<disk, dbInode, tempInode, clock, past>>
    BY DEF Close, Fresh
<1>2. a \in Adding
    BY <1>1, RunsHere DEF Steps
<1>3. /\ h \in Run /\ h.cmd \in Uses /\ LeftOK(h) /\ (h.alone /\ ~Fresh(h) => KeptOK(h))
      /\ Opened(h) /\ h.at \in Steps /\ h.out \in Seq(Line) /\ h.left \in Seq(FileName)
      /\ (Undisturbed(a) => StepOK(h)) /\ (h.alone => Undisturbed(a)) /\ DirOf(h) \in Dirs
    BY <1>2, RunningFacts
<1>4. h.left # <<>> /\ h.into \in 1 .. n
    BY <1>1, <1>3 DEF Opened, Steps
<1>5. /\ Tail(h.left) \in Seq(FileName)
      /\ \A t \in Run : t.cmd = h.cmd /\ t.left = Tail(h.left) => Place(t) = Place(h) + 1 /\ LeftOK(t)
    BY <1>3, <1>4, NextName
<1>6. PICK r \in Run : /\ OnlyHtadd(a, r) /\ r.at = at /\ r.cmd = h.cmd
                       /\ r.before = h.before /\ r.alone = h.alone /\ r.left = left
    <2>1. left \in Seq(FileName) /\ at \in Ended \union Steps /\ none \in Seq(Line)
        BY <1>3, <1>5 DEF Ended, Steps
    <2> HIDE DEF left, at, none
    <2>2. /\ r0 \in Run /\ r0.at = at /\ r0.cmd = h.cmd /\ r0.before = h.before
          /\ r0.alone = h.alone /\ r0.left = left
        BY <1>3, <2>1 DEF Run
    <2> QED BY <1>1, <2>2
<1>7. /\ store \in Seq(Seq(Line)) /\ n \in Nat /\ DatabaseTypeOK /\ InodesApart
      /\ store[h.into] \in Seq(Line)
    BY <1>4, StateFacts
<1>8. x \in Seq(Line) /\ (~Fresh(h) /\ store[h.into] = <<>> => x = h.out)
    <2>1. store[h.into] \o h.out \in Seq(Line)
        BY <1>3, <1>7
    <2>2. Overlay(store[h.into], 0, h.out) \in Seq(Line)
        BY <1>3, <1>7, OverlayFacts
    <2>3. ASSUME store[h.into] = <<>>
          PROVE  Overlay(store[h.into], 0, h.out) = h.out
        <3> DEFINE old == store[h.into]
                   new == h.out
        <3>1. old \in Seq(Line) /\ new \in Seq(Line) /\ Len(old) = 0
            BY <1>3, <1>7, <2>3
        <3> HIDE DEF old, new
        <3> DEFINE z == 0
        <3>3. z \in Nat /\ z = Len(old)
            BY <3>1
        <3> HIDE DEF z
        <3>2. Overlay(old, z, new) = old \o new
            BY <3>1, <3>3, OverlayFacts
        <3> USE DEF z
        <3> USE DEF old, new
        <3>4. <<>> \o h.out = h.out
            BY <1>3
        <3> QED BY <2>3, <3>2, <3>3, <3>4
    <2> QED BY <2>1, <2>2, <2>3
<1> HIDE DEF x, r0
<1>9. /\ store' \in Seq(Seq(Line)) /\ Len(store') = n /\ store'[h.into] = x
      /\ \A j \in 1 .. n : j # h.into => store'[j] = store[j]
    BY <1>1, <1>4, <1>7, <1>8, WriteFacts
<1>10. DatabaseTypeOK' /\ InodesApart' /\ Opened(r)'
    <2>1. past' \in Past
        BY <1>1, <1>7, PastFacts
    <2>2. dbInode' \in [Dirs -> 0 .. Len(store')] /\ tempInode' \in 0 .. Len(store')
        BY <1>1, <1>7, <1>9 DEF DatabaseTypeOK
    <2>3. DatabaseTypeOK'
        BY <1>1, <1>6, <1>7, <1>9, <2>1, <2>2, TypeNext
    <2>4. InodesApart'
        BY <1>1, <1>7 DEF InodesApart
    <2>5. Opened(r)'
        <3>1. r.cmd \in Uses
            BY <1>3, <1>6
        <3>2. r.at \in {"exited", "open", "copy"} /\ (r.at = "copy" => r.left # <<>>)
            BY <1>4, <1>6
        <3> QED BY <3>1, <3>2 DEF Opened, Steps
    <2> QED BY <2>3, <2>4, <2>5
<1>11. LeftOK(r)
    <2>1. CASE Fresh(h)
        BY <1>5, <1>6, <2>1
    <2>2. CASE ~Fresh(h)
        BY <1>3, <1>6, <2>2, SameLeft
    <2> QED BY <2>1, <2>2
<1>12. ASSUME Undisturbed(a)
       PROVE  StepOK(r)'
    <2>1. StepOK(h)
        BY <1>3, <1>12
    <2>2. r.at \in {"exited", "open", "copy"} /\ (r.at = "copy" => ~Fresh(h))
        BY <1>6
    <2>3. ~Fresh(h) => tempInode # 0 /\ dbInode[DirOf(h)] # 0
        BY <1>1, <2>1 DEF StepOK
    <2> QED BY <1>1, <1>6, <2>2, <2>3 DEF StepOK, DirOf, Fresh
<1>13. ASSUME r.alone /\ ~Fresh(r)
       PROVE  KeptOK(r)'
    <2>0. h.alone /\ ~Fresh(h)
        BY <1>6, <1>13 DEF Fresh
    <2>1. KeptOK(h) /\ StepOK(h)
        BY <1>3, <2>0
    <2>2. h.into = tempInode /\ tempInode # 0 /\ dbInode[DirOf(h)] # 0 /\ store[h.into] = <<>>
        BY <1>1, <2>0, <2>1 DEF StepOK
    <2>3. store'[tempInode'] = h.out
        BY <1>1, <1>8, <1>9, <2>0, <2>2
    <2>4. Database(DirOf(r))' = Database(DirOf(h))
        <3>1. dbInode[DirOf(h)] \in 0 .. n /\ dbInode[DirOf(h)] # h.into
            BY <1>3, <1>7, <2>2 DEF DatabaseTypeOK, InodesApart
        <3> HIDE DEF n
        <3>2. dbInode[DirOf(h)] \in 1 .. n
            BY <1>7, <2>2, <3>1
        <3> QED BY <1>1, <1>6, <1>9, <2>2, <3>1, <3>2 DEF Database, DirOf
    <2>5. Kept(h, Database(DirOf(h)), Place(h)) /\ (~h.ends => Kept(h, h.out, Place(h) + 1))
        BY <1>1, <2>1 DEF KeptOK
    <2>6. CASE h.ends
        <3>1. Others(r, Database(DirOf(r))', Place(h))
            BY <1>6, <2>4, <2>5, SameKept DEF Kept
        <3>2. Place(h) \in 0 .. Len(r.cmd.names)
            BY <1>3, <1>6 DEF LeftOK
        <3>3. r.at = "exited"
            BY <1>6, <2>6
        <3> QED BY <3>1, <3>2, <3>3 DEF KeptOK
    <2>7. CASE ~h.ends
        <3>1. r.at = "copy" /\ r.left = h.left
            BY <1>6, <2>0, <2>7
        <3>2. Place(r) = Place(h)
            BY <1>6, <3>1 DEF Place
        <3>3. Kept(r, store'[tempInode'], Place(r) + 1)
            BY <1>6, <2>3, <2>5, <2>7, <3>2, SameKept
        <3> QED BY <3>1, <3>3 DEF KeptOK
    <2> QED BY <2>6, <2>7
<1>14. Len(store) <= Len(store)' /\ past'.overlapped = past.overlapped
    <2> HIDE DEF n
    <2> QED BY <1>1, <1>7, <1>9 DEF n
<1>15. ASSUME NEW m \in Modes, Clean(m)'
       PROVE  Clean(m) /\ LinesFit(m, r)'
    <2>1. Clean(m) /\ LinesFit(m, h) /\ ~past.overlapped /\ past'.edits = past.edits
        <3>1. Clean(m)
            BY <1>1, <1>15 DEF Clean
        <3> QED BY <1>1, <1>2, <3>1, RunningLines DEF Clean
    <2>2. StepOK(h)
        BY <1>3, <2>1 DEF Undisturbed
    <2>3. (\A d \in Dirs : AllFit(m, d, Database(d))) /\ AllFit(m, DirOf(h), h.out)
        BY <1>1, <2>1 DEF LinesFit, RunFits, Copied
    <2>4. PICK i : i = h.into
        OBVIOUS
    <2>5. PICK out : out = h.out
        OBVIOUS
    <2>6. PICK dir \in Dirs : dir = DirOf(h)
        BY <1>3
    <2>7. ASSUME NEW d \in Dirs, dbInode[d] # i
          PROVE  AllFit(m, d, Database(d))'
        <3>1. Database(d)' = Database(d)
            BY <1>1, <1>9, <2>4, <2>7, SameDatabase
        <3> QED BY <1>1, <2>1, <2>3, <3>1, SameFits
    <2>8. h.into # 0
        <3> HIDE DEF h, n
        <3> QED BY <1>4, <1>7
    <2>9. CASE Fresh(h)
        <3>1. h.into = dbInode[dir] /\ out \in Entry
            BY <1>1, <1>3, <2>2, <2>5, <2>6, <2>9 DEF StepOK, Opened
        <3>2. PICK old \in Seq(Line) : old = store[h.into]
            BY <1>7
        <3>3. Database(dir) = old
            BY <2>8, <3>1, <3>2 DEF Database
        <3>4. Database(dir)' = old \o out
            BY <1>1, <1>9, <2>5, <2>8, <2>9, <3>1, <3>2 DEF Database, x
        <3>5. Range(Entries(old \o out)) = Range(Entries(old)) \union {out}
            <4>1. Entries(old \o out) = Append(Entries(old), out)
                BY <3>1, <3>2, EntriesEntry
            <4>2. Entries(old) \in Seq(Entry)
                BY <3>2, EntriesType
            <4> QED BY <3>1, <4>1, <4>2, AppendRange
        <3>6. AllFit(m, dir, old) /\ Fits(m, dir, out)
            <4>1. AllFit(m, dir, old)
                BY <2>3, <3>3
            <4>2. Range(Entries(out)) = {out}
                BY <3>1, EntriesOfEntry
            <4> QED BY <2>3, <2>5, <2>6, <4>1, <4>2 DEF AllFit
        <3>7. AllFit(m, dir, old \o out)
            BY <3>5, <3>6, FitParts
        <3>8. PICK lines : lines = old \o out
            OBVIOUS
        <3>9. AllFit(m, dir, lines)'
            BY <1>1, <2>1, <3>7, <3>8, AllFitSame
        <3>10. AllFit(m, dir, Database(dir))'
            BY <3>4, <3>8, <3>9 DEF AllFit
        <3>11. \A d \in Dirs : d # dir => dbInode[d] # i
            BY <1>7, <2>4, <2>8, <3>1 DEF InodesApart
        <3>12. r.at \in {"exited", "open"}
            BY <1>6, <2>9
        <3> QED BY <2>1, <2>7, <3>10, <3>11, <3>12 DEF LinesFit, RunFits
    <2>10. CASE ~Fresh(h)
        <3>1. h.into = tempInode /\ store'[tempInode'] = out
            BY <1>1, <1>8, <1>9, <2>2, <2>5, <2>10 DEF StepOK
        <3>2. \A d \in Dirs : dbInode[d] # i
            BY <1>7, <2>4, <2>8, <3>1 DEF InodesApart
        <3>3. AllFit(m, dir, out)'
            BY <1>1, <2>1, <2>3, <2>5, <2>6, AllFitSame
        <3>4. DirOf(r) = dir /\ r.at \in {"exited", "copy"}
            BY <1>6, <2>6, <2>10 DEF DirOf
        <3>5. RunFits(m, r)'
            BY <3>1, <3>3, <3>4 DEF RunFits, AllFit
        <3> QED BY <2>1, <2>7, <3>2, <3>5 DEF LinesFit
    <2> QED BY <2>9, <2>10
<1> QED BY <1>2, <1>6, <1>10, <1>11, <1>12, <1>13, <1>14, <1>15, OwnStep

LEMMA CopyOpenKeeps ==
    ASSUME DatabaseInv, NEW a \in Adders, CopyOpen(a)
    PROVE  DatabaseInv'
<1> DEFINE h == htadd[a]
           d == DirOf(h)
           n == Len(store)
           z == 0
<1>1. /\ h.at = "copy" /\ UNCHANGED <<disk, tempInode, clock, past>>
    BY DEF CopyOpen
<1>2. a \in Adding
    BY <1>1, RunsHere DEF Steps
<1>3. /\ h \in Run /\ h.cmd \in Uses /\ LeftOK(h) /\ (h.alone /\ ~Fresh(h) => KeptOK(h))
      /\ Opened(h) /\ h.at \in Steps /\ h.left \in Seq(FileName)
      /\ (Undisturbed(a) => StepOK(h)) /\ (h.alone => Undisturbed(a)) /\ d \in Dirs
      /\ h.alone \in BOOLEAN
    BY <1>2, RunningFacts
<1>4. h.left # <<>>
    BY <1>1, <1>3 DEF Opened, Steps
<1>5. /\ Tail(h.left) \in Seq(FileName)
      /\ \A t \in Run : t.cmd = h.cmd /\ t.left = Tail(h.left) => Place(t) = Place(h) + 1 /\ LeftOK(t)
    BY <1>3, <1>4, NextName
<1>6. /\ store \in Seq(Seq(Line)) /\ n \in Nat /\ DatabaseTypeOK /\ InodesApart
      /\ past \in Past /\ dbInode \in [Dirs -> 0 .. n] /\ tempInode \in 0 .. n
    BY StateFacts, PastFacts
<1>7. CASE tempInode = 0
    <2> DEFINE left == Tail(h.left)
               at == IF h.cmd.op = "add" THEN "exited" ELSE "open"
               r0 == [h EXCEPT !.left = left, !.at = at]
    <2>1. OnlyHtadd(a, r0) /\ UNCHANGED <<store, dbInode>>
        BY <1>7 DEF CopyOpen
    <2>2. PICK r \in Run : /\ OnlyHtadd(a, r) /\ r.at = at /\ r.cmd = h.cmd
                           /\ r.alone = h.alone /\ r.left = left
        <3>1. left \in Seq(FileName) /\ at \in Ended \union Steps
            BY <1>5 DEF Ended, Steps
        <3> HIDE DEF left, at
        <3>2. r0 \in Run /\ r0.at = at /\ r0.cmd = h.cmd /\ r0.alone = h.alone /\ r0.left = left
            BY <1>3, <3>1 DEF Run
        <3> QED BY <2>1, <3>2
    <2>3. DatabaseTypeOK' /\ InodesApart'
        <3>1. DatabaseTypeOK'
            BY <1>1, <1>6, <2>1, <2>2, TypeNext
        <3> QED BY <1>1, <1>6, <2>1, <3>1 DEF InodesApart
    <2>4. Opened(r)' /\ LeftOK(r)
        <3>1. Opened(r)'
            BY <1>3, <2>2 DEF Opened, Steps
        <3> QED BY <1>5, <2>2, <3>1
    <2>5. ~Undisturbed(a) /\ ~r.alone
        <3>1. ~StepOK(h)
            BY <1>1, <1>7 DEF StepOK
        <3> QED BY <1>3, <2>2, <3>1
    <2>6. Len(store) <= Len(store)' /\ past'.overlapped = past.overlapped
        BY <1>1, <1>6, <2>1
    <2>7. \A m \in Modes : Clean(m)' => Clean(m) /\ LinesFit(m, r)'
        <3>1. past.overlapped
            BY <2>5 DEF Undisturbed
        <3> QED BY <1>1, <3>1 DEF Clean
    <2> QED BY <1>2, <2>2, <2>3, <2>4, <2>5, <2>6, <2>7, OwnStep
<1>8. CASE tempInode # 0
    <2> DEFINE o == OpenedW(dbInode[d])
               i == o[1]
               r0 == [h EXCEPT !.at = "blocks", !.from = tempInode, !.into = i, !.offset = z]
    <2>1. /\ store' = o[2] /\ dbInode' = [dbInode EXCEPT ![d] = i] /\ OnlyHtadd(a, r0)
        BY <1>8 DEF CopyOpen, DirOf
    <2>2. /\ store' \in Seq(Seq(Line)) /\ Len(store') >= n /\ i \in 1 .. Len(store')
          /\ Len(store') \in Nat /\ store'[i] = <<>>
          /\ (dbInode[d] # 0 => i = dbInode[d]) /\ (dbInode[d] = 0 => i = n + 1)
          /\ \A j \in 1 .. n : j # i => store'[j] = store[j]
        <3>1. dbInode[d] \in 0 .. Len(store)
            BY <1>3, <1>6
        <3> DEFINE e == dbInode[d]
                   s == store
        <3>2. s \in Seq(Seq(Line)) /\ s = store /\ e \in 0 .. Len(s)
            BY <1>6, <3>1
        <3>3. /\ o[2] \in Seq(Seq(Line)) /\ Len(o[2]) >= n /\ i \in 1 .. Len(o[2])
              /\ Len(o[2]) \in Nat /\ o[2][i] = <<>>
              /\ (e # 0 => i = e) /\ (e = 0 => i = n + 1)
              /\ \A j \in 1 .. n : j # i => o[2][j] = store[j]
            BY <3>2, OpenedFacts
        <3> HIDE DEF o
        <3> QED BY <2>1, <3>3
    <2> HIDE DEF o, i
    <2>3. PICK r \in Run : /\ OnlyHtadd(a, r) /\ r.at = "blocks" /\ r.cmd = h.cmd
                           /\ r.alone = h.alone /\ r.left = h.left /\ r.from = tempInode
                           /\ r.into = i /\ r.offset = 0 /\ r.before = h.before
        <3>1. z \in Nat /\ i \in Nat /\ tempInode \in Nat
            BY <1>6, <2>2
        <3> HIDE DEF z
        <3>2. /\ r0 \in Run /\ r0.at = "blocks" /\ r0.cmd = h.cmd /\ r0.alone = h.alone
              /\ r0.left = h.left /\ r0.from = tempInode /\ r0.into = i /\ r0.offset = z
              /\ r0.before = h.before
            BY <1>3, <3>1 DEF Run, Steps
        <3> USE DEF z
        <3> QED BY <2>1, <3>2
    <2>4. PICK j : j = i
        OBVIOUS
    <2> DEFINE m == Len(store')
    <2>5. tempInode \in 1 .. n /\ tempInode \in 1 .. m /\ i # tempInode
        <3>1. dbInode[d] # tempInode
            BY <1>3, <1>6, <1>8 DEF InodesApart
        <3> HIDE DEF n, m
        <3> QED BY <1>6, <1>8, <2>2, <3>1 DEF m
    <2>6. DatabaseTypeOK' /\ InodesApart'
        <3>1. dbInode' \in [Dirs -> 0 .. m] /\ tempInode' \in 0 .. m
            <4>1. 0 .. n \subseteq 0 .. m /\ i \in 0 .. m
                <5> HIDE DEF n, m
                <5> QED BY <1>6, <2>2 DEF m
            <4> DEFINE N == 0 .. m
            <4>2. i \in N /\ dbInode \in [Dirs -> N] /\ tempInode \in N
                BY <1>6, <4>1
            <4> HIDE DEF N
            <4>3. dbInode' \in [Dirs -> N] /\ tempInode' \in N
                BY <1>1, <2>1, <4>2
            <4> QED BY <4>3 DEF N
        <3>2. DatabaseTypeOK'
            BY <1>1, <1>6, <2>2, <2>3, <3>1, TypeNext
        <3>3. InodesApart'
            <4>1. \A e \in Dirs \ {d} : dbInode'[e] = dbInode[e] /\ (dbInode[e] # 0 => dbInode[e] # i)
                <5> TAKE e \in Dirs \ {d}
                <5>1. dbInode'[e] = dbInode[e] /\ dbInode[e] \in 0 .. n
                    BY <1>6, <2>1
                <5>2. CASE dbInode[d] = 0
                    <6> HIDE DEF n, d
                    <6> QED BY <1>6, <2>2, <5>1, <5>2
                <5>3. CASE dbInode[d] # 0
                    <6>1. dbInode[e] # 0 => dbInode[e] # dbInode[d]
                        BY <1>3, <1>6 DEF InodesApart
                    <6> HIDE DEF d, n
                    <6> QED BY <2>2, <5>1, <5>3, <6>1
                <5> QED BY <5>2, <5>3
            <4>2. dbInode'[d] = i
                BY <1>3, <1>6, <2>1
            <4>3. \A e \in Dirs : dbInode'[e] # tempInode'
                BY <1>1, <1>6, <1>8, <2>5, <4>1, <4>2 DEF InodesApart
            <4>4. ASSUME NEW e \in Dirs, NEW f \in Dirs, dbInode'[e] # 0, e # f
                  PROVE  dbInode'[e] # dbInode'[f]
                <5>1. i # 0
                    <6> DEFINE m1 == Len(store')
                    <6>1. m1 \in Nat /\ i \in 1 .. m1
                        BY <2>2
                    <6> HIDE DEF m1
                    <6> QED BY <6>1
                <5>2. CASE e = d
                    <6> HIDE DEF d
                    <6>1. dbInode'[f] = dbInode[f] /\ (dbInode[f] # 0 => dbInode[f] # i)
                        BY <4>1, <4>4, <5>2
                    <6> QED BY <4>2, <5>1, <5>2, <6>1
                <5>3. CASE f = d
                    <6> HIDE DEF d
                    <6> QED BY <4>1, <4>2, <4>4, <5>3
                <5>4. CASE e # d /\ f # d
                    <6> HIDE DEF d
                    <6> QED BY <1>6, <4>1, <4>4, <5>4 DEF InodesApart
                <5> QED BY <5>2, <5>3, <5>4
            <4> QED BY <4>3, <4>4 DEF InodesApart
        <3> QED BY <3>2, <3>3
    <2>7. Opened(r)' /\ LeftOK(r)
        <3>1. Opened(r)'
            BY <1>3, <1>4, <2>2, <2>3, <2>5 DEF Opened, Steps
        <3>2. LeftOK(r)
            BY <1>3, <2>3, SameLeft
        <3> QED BY <3>1, <3>2
    <2>8. /\ dbInode'[DirOf(r)] = j /\ r.into = j /\ store'[r.into] = <<>>
          /\ store'[r.from] = store[tempInode] /\ r.from = tempInode'
        BY <1>1, <1>3, <1>6, <2>1, <2>2, <2>3, <2>4, <2>5 DEF DirOf
    <2>9. ASSUME Undisturbed(a)
          PROVE  StepOK(r)'
        <3>1. ~Fresh(r)
            BY <1>1, <1>3, <2>3, <2>9 DEF StepOK, Fresh
        <3>2. store'[tempInode] \in Seq(Line)
            <4> DEFINE T == Seq(Line)
            <4>1. store' \in Seq(T) /\ tempInode \in 1 .. Len(store')
                BY <2>2, <2>5
            <4> HIDE DEF T
            <4>2. store'[tempInode] \in T
                BY <4>1
            <4> QED BY <4>2 DEF T
        <3>3. r.offset \in 0 .. Len(store'[r.from])
            <4>1. Len(store'[tempInode]) \in Nat
                BY <3>2
            <4> QED BY <2>3, <4>1
        <3>4. SubSeq(store'[r.from], 1, r.offset) = <<>>
            BY <2>3
        <3> QED BY <2>3, <2>8, <3>1, <3>3, <3>4 DEF StepOK
    <2>10. ASSUME r.alone /\ ~Fresh(r)
           PROVE  KeptOK(r)'
        <3>1. KeptOK(h)
            BY <1>3, <2>3, <2>10 DEF Fresh
        <3>2. Kept(h, store[tempInode], Place(h) + 1)
            BY <1>1, <3>1 DEF KeptOK
        <3>3. Place(r) = Place(h)
            BY <2>3 DEF Place
        <3>4. Kept(r, store'[r.from], Place(r) + 1)
            BY <2>3, <2>8, <3>2, <3>3, SameKept
        <3> QED BY <2>3, <3>4 DEF KeptOK
    <2>11. Len(store) <= Len(store)' /\ past'.overlapped = past.overlapped
        BY <1>1, <1>6, <2>2
    <2>12. ASSUME NEW k \in Modes, Clean(k)'
           PROVE  Clean(k) /\ LinesFit(k, r)'
        <3>1. Clean(k) /\ LinesFit(k, h) /\ past'.edits = past.edits
            <4>1. Clean(k)
                BY <1>1, <2>12 DEF Clean
            <4> QED BY <1>1, <1>2, <4>1, RunningLines
        <3>2. (\A e \in Dirs : AllFit(k, e, Database(e))) /\ AllFit(k, DirOf(h), store[tempInode])
            BY <1>1, <3>1 DEF LinesFit, RunFits, Copied
        <3>3. PICK dir \in Dirs : dir = DirOf(h)
            BY <1>3
        <3>4. ASSUME NEW e \in Dirs, e # dir
              PROVE  AllFit(k, e, Database(e))'
            <4>1. dbInode'[e] = dbInode[e] /\ dbInode'[e] # j
                <5>1. dbInode'[e] = dbInode[e]
                    BY <1>6, <2>1, <3>3, <3>4
                <5>2. dbInode'[dir] = j /\ dbInode'[e] # 0 => dbInode'[e] # dbInode'[dir]
                    BY <2>3, <2>6, <2>8, <3>3, <3>4 DEF InodesApart, DirOf
                <5>3. j # 0
                    <6> DEFINE m1 == Len(store')
                    <6>1. m1 \in Nat /\ j \in 1 .. m1
                        BY <2>2, <2>4
                    <6> HIDE DEF m1
                    <6> QED BY <6>1
                <5>4. dbInode'[dir] = j
                    BY <2>3, <2>8, <3>3 DEF DirOf
                <5>5. dbInode'[e] # 0 => dbInode'[e] # dbInode'[dir]
                    BY <2>6, <3>4 DEF InodesApart
                <5> QED BY <5>1, <5>3, <5>4, <5>5
            <4>2. \A q \in 1 .. Len(store) : q # j => store'[q] = store[q]
                BY <2>2, <2>4
            <4>3. Database(e)' = Database(e)
                BY <4>1, <4>2, SameDatabase
            <4> QED BY <1>1, <3>1, <3>2, <4>3, SameFits
        <3>5. AllFit(k, dir, Database(dir))'
            <4>1. Database(dir)' = <<>>
                BY <2>3, <2>8, <3>3 DEF Database, DirOf
            <4>2. PICK none : none = <<>>
                OBVIOUS
            <4>3. AllFit(k, dir, none)'
                BY <1>1, <3>1, <4>2, FitNone, AllFitSame
            <4> QED BY <4>1, <4>2, <4>3 DEF AllFit
        <3>6. RunFits(k, r)'
            <4>1. PICK temp : temp = store[tempInode]
                OBVIOUS
            <4>2. AllFit(k, dir, temp)'
                BY <1>1, <3>1, <3>2, <3>3, <4>1, AllFitSame
            <4>3. store'[r.from] = temp /\ DirOf(r) = dir
                BY <2>3, <2>8, <3>3, <4>1 DEF DirOf
            <4> QED BY <2>3, <4>2, <4>3 DEF RunFits, AllFit
        <3> QED BY <3>1, <3>4, <3>5, <3>6 DEF LinesFit
    <2> QED BY <1>2, <2>3, <2>6, <2>7, <2>9, <2>10, <2>11, <2>12, OwnStep
<1> QED BY <1>7, <1>8

(* One block more. *)
LEMMA BlockFacts ==
    ASSUME NEW s \in Seq(Line), NEW off \in 0 .. Len(s), NEW last \in off .. Len(s)
    PROVE  /\ SubSeq(s, off + 1, last) \in Seq(Line)
           /\ Overlay(SubSeq(s, 1, off), off, SubSeq(s, off + 1, last)) = SubSeq(s, 1, last)
           /\ SubSeq(s, 1, Len(s)) = s
<1> DEFINE n == Len(s)
           p == SubSeq(s, 1, off)
           q == SubSeq(s, off + 1, last)
           u == SubSeq(s, 1, last)
<1>1. n \in Nat /\ \A i \in 1 .. n : s[i] \in Line
    OBVIOUS
<1>2. off \in 0 .. n /\ last \in off .. n
    OBVIOUS
<1> HIDE DEF n
<1>3. off \in Nat /\ last \in Nat /\ off <= last /\ last <= n /\ off + 1 \in Int
    BY <1>1, <1>2
<1>4. p \in Seq(Line) /\ Len(p) = off /\ \A i \in 1 .. off : p[i] = s[i]
    <2>1. \A i \in 1 .. off : s[i] \in Line
        BY <1>1, <1>3
    <2>2. /\ p \in Seq(Line) /\ Len(p) = (IF 1 <= off THEN off - 1 + 1 ELSE 0)
          /\ \A i \in 1 .. off - 1 + 1 : p[i] = s[1 + i - 1]
        BY <1>3, <2>1, SubSeqProperties
    <2> HIDE DEF p
    <2> QED BY <1>3, <2>2
<1>5. q \in Seq(Line) /\ Len(q) = last - off /\ \A i \in 1 .. last - off : q[i] = s[off + i]
    <2>1. \A i \in off + 1 .. last : s[i] \in Line
        BY <1>1, <1>3
    <2>2. /\ q \in Seq(Line)
          /\ Len(q) = (IF off + 1 <= last THEN last - (off + 1) + 1 ELSE 0)
          /\ \A i \in 1 .. last - (off + 1) + 1 : q[i] = s[(off + 1) + i - 1]
        BY <1>3, <2>1, SubSeqProperties
    <2> HIDE DEF q
    <2> QED BY <1>3, <2>2
<1>6. u \in Seq(Line) /\ Len(u) = last /\ \A i \in 1 .. last : u[i] = s[i]
    <2>1. \A i \in 1 .. last : s[i] \in Line
        BY <1>1, <1>3
    <2>2. /\ u \in Seq(Line) /\ Len(u) = (IF 1 <= last THEN last - 1 + 1 ELSE 0)
          /\ \A i \in 1 .. last - 1 + 1 : u[i] = s[1 + i - 1]
        BY <1>3, <2>1, SubSeqProperties
    <2> HIDE DEF u
    <2> QED BY <1>3, <2>2
<1> HIDE DEF p, q, u
<1>7. Overlay(p, off, q) = p \o q
    BY <1>3, <1>4, <1>5, OverlayFacts
<1>8. p \o q = u
    <2> DEFINE c == p \o q
    <2>1. /\ c \in Seq(Line) /\ Len(c) = off + (last - off)
          /\ \A i \in 1 .. off + (last - off) : c[i] = IF i <= off THEN p[i] ELSE q[i - off]
        BY <1>4, <1>5, ConcatProperties
    <2> HIDE DEF c
    <2>2. Len(c) = last
        BY <1>3, <2>1
    <2>3. \A i \in 1 .. last : c[i] = u[i]
        <3> TAKE i \in 1 .. last
        <3>1. c[i] = IF i <= off THEN p[i] ELSE q[i - off]
            BY <1>3, <2>1
        <3>2. CASE i <= off
            BY <1>3, <1>4, <1>6, <3>1, <3>2
        <3>3. CASE ~(i <= off)
            <4>1. i - off \in 1 .. last - off /\ off + (i - off) = i
                BY <1>3, <3>3
            <4> QED BY <1>5, <1>6, <3>1, <3>3, <4>1
        <3> QED BY <3>2, <3>3
    <2>4. c = u
        <3>1. c = [i \in 1 .. last |-> c[i]] /\ u = [i \in 1 .. last |-> u[i]]
            BY <1>6, <2>1, <2>2
        <3> QED BY <2>3, <3>1
    <2> QED BY <2>4 DEF c
<1>9. SubSeq(s, 1, Len(s)) = s
    BY SubSeqFull
<1> QED BY <1>5, <1>7, <1>8, <1>9 DEF p, q, u

LEMMA CopyBlockKeeps ==
    ASSUME DatabaseInv, NEW a \in Adders, CopyBlock(a)
    PROVE  DatabaseInv'
<1> DEFINE h == htadd[a]
           d == DirOf(h)
           n == Len(store)
           from == store[h.from]
           m == Len(from)
           full == h.offset < m
<1>1. h.at = "blocks" /\ UNCHANGED <<disk, dbInode, tempInode, clock>>
    BY DEF CopyBlock
<1>2. a \in Adding
    BY <1>1, RunsHere DEF Steps
<1>3. /\ h \in Run /\ h.cmd \in Uses /\ LeftOK(h) /\ (h.alone /\ ~Fresh(h) => KeptOK(h))
      /\ Opened(h) /\ h.at \in Steps /\ h.left \in Seq(FileName)
      /\ (Undisturbed(a) => StepOK(h)) /\ (h.alone => Undisturbed(a)) /\ d \in Dirs
      /\ h.alone \in BOOLEAN /\ h.offset \in Nat
    BY <1>2, RunningFacts
<1>4. h.left # <<>> /\ h.into \in 1 .. n /\ h.from \in 1 .. n
    BY <1>1, <1>3 DEF Opened, Steps
<1>5. /\ store \in Seq(Seq(Line)) /\ n \in Nat /\ DatabaseTypeOK /\ InodesApart
      /\ past \in Past /\ dbInode \in [Dirs -> 0 .. n] /\ tempInode \in 0 .. n
      /\ from \in Seq(Line) /\ store[h.into] \in Seq(Line)
    BY <1>4, StateFacts, PastFacts
<1>6. m \in Nat
    BY <1>5
<1>7. Undisturbed(a) => /\ ~Fresh(h) /\ h.from = tempInode /\ h.into = dbInode[d]
                        /\ h.offset \in 0 .. m /\ store[h.into] = SubSeq(from, 1, h.offset)
                        /\ h.into # h.from
    <2> SUFFICES ASSUME Undisturbed(a)
                 PROVE  /\ ~Fresh(h) /\ h.from = tempInode /\ h.into = dbInode[d]
                        /\ h.offset \in 0 .. m /\ store[h.into] = SubSeq(from, 1, h.offset)
                        /\ h.into # h.from
        OBVIOUS
    <2>1. /\ ~Fresh(h) /\ h.from = tempInode /\ h.into = dbInode[d]
          /\ h.offset \in 0 .. m /\ store[h.into] = SubSeq(from, 1, h.offset)
        BY <1>1, <1>3 DEF StepOK
    <2>2. h.from # 0
        <3> HIDE DEF n, h
        <3> QED BY <1>4, <1>5
    <2>3. h.into # h.from
        BY <1>3, <1>5, <2>1, <2>2 DEF InodesApart
    <2> QED BY <2>1, <2>3
<1>8. CASE /\ full /\ UNCHANGED past
           /\ LET last == Min({h.offset + Block, m})
              IN  /\ store' = [store EXCEPT ![h.into] =
                        Overlay(store[h.into], h.offset, SubSeq(from, h.offset + 1, last))]
                  /\ OnlyHtadd(a, [h EXCEPT !.offset = last])
    <2> DEFINE last0 == Min({h.offset + Block, m})
    <2>1. PICK last \in Nat : last = last0 /\ last \in h.offset .. m
        <3> DEFINE k == h.offset + Block
        <3>1. k \in Nat /\ k > h.offset
            BY <1>3, DatabaseAssumption
        <3> HIDE DEF m, k
        <3>2. \E u \in {k, m} : \A v \in {k, m} : u <= v
            BY <1>6, <3>1
        <3>3. last0 \in {k, m} /\ \A v \in {k, m} : last0 <= v
            BY <3>2 DEF Min, k
        <3>4. last0 \in Nat /\ last0 \in h.offset .. m
            <4> HIDE DEF last0, h
            <4>1. h.offset \in Nat /\ h.offset < m
                BY <1>3, <1>8 DEF h, m
            <4> QED BY <1>6, <3>1, <3>3, <4>1
        <3> QED BY <3>4
    <2> DEFINE x == Overlay(store[h.into], h.offset, SubSeq(from, h.offset + 1, last))
    <2>2. /\ store' = [store EXCEPT ![h.into] = x] /\ OnlyHtadd(a, [h EXCEPT !.offset = last])
        BY <1>8, <2>1
    <2>3. h.offset \in 0 .. m
        <3> HIDE DEF m, h
        <3> QED BY <1>3, <1>6, <1>8
    <2>4. /\ SubSeq(from, h.offset + 1, last) \in Seq(Line)
          /\ Overlay(SubSeq(from, 1, h.offset), h.offset, SubSeq(from, h.offset + 1, last))
                = SubSeq(from, 1, last)
        BY <1>5, <2>1, <2>3, BlockFacts
    <2>5. x \in Seq(Line)
        BY <1>3, <1>5, <2>4, OverlayFacts
    <2>6. Undisturbed(a) => x = SubSeq(from, 1, last)
        BY <1>7, <2>4
    <2>7. PICK r \in Run : /\ OnlyHtadd(a, r) /\ r.at = "blocks" /\ r.cmd = h.cmd
                           /\ r.alone = h.alone /\ r.left = h.left /\ r.from = h.from
                           /\ r.into = h.into /\ r.offset = last /\ r.before = h.before
        <3> DEFINE r0 == [h EXCEPT !.offset = last]
        <3>1. /\ r0 \in Run /\ r0.at = "blocks" /\ r0.cmd = h.cmd /\ r0.alone = h.alone
              /\ r0.left = h.left /\ r0.from = h.from /\ r0.into = h.into /\ r0.offset = last
              /\ r0.before = h.before
            BY <1>1, <1>3 DEF Run
        <3> QED BY <2>2, <3>1
    <2> HIDE DEF x
    <2>8. /\ store' \in Seq(Seq(Line)) /\ Len(store') = n /\ store'[h.into] = x
          /\ \A j \in 1 .. n : j # h.into => store'[j] = store[j]
        BY <1>4, <1>5, <2>2, <2>5, WriteFacts
    <2>9. DatabaseTypeOK' /\ InodesApart' /\ Opened(r)' /\ LeftOK(r)
        <3>1. dbInode' \in [Dirs -> 0 .. Len(store')] /\ tempInode' \in 0 .. Len(store')
            BY <1>1, <1>5, <2>8
        <3>2. DatabaseTypeOK'
            BY <1>1, <1>5, <1>8, <2>7, <2>8, <3>1, TypeNext
        <3>3. InodesApart'
            BY <1>1, <1>5 DEF InodesApart
        <3>4. Opened(r)'
            BY <1>3, <1>4, <2>7, <2>8 DEF Opened
        <3>5. LeftOK(r)
            BY <1>3, <2>7, SameLeft
        <3> QED BY <3>2, <3>3, <3>4, <3>5
    <2>10. Undisturbed(a) => store'[r.from] = from
        BY <1>4, <1>7, <2>7, <2>8
    <2>11. ASSUME Undisturbed(a)
           PROVE  StepOK(r)'
        <3>1. ~Fresh(r) /\ r.from = tempInode' /\ r.into = dbInode'[DirOf(r)]
            BY <1>1, <1>7, <2>7, <2>11 DEF Fresh, DirOf
        <3>2. r.offset \in 0 .. Len(store'[r.from])
            <4>1. last \in 0 .. m
                <5> HIDE DEF h, m
                <5> QED BY <1>3, <1>6, <2>1 DEF h
            <4> QED BY <2>7, <2>10, <2>11, <4>1
        <3>3. store'[r.into] = SubSeq(store'[r.from], 1, r.offset)
            BY <2>6, <2>7, <2>8, <2>10, <2>11
        <3> QED BY <2>7, <3>1, <3>2, <3>3 DEF StepOK
    <2>12. ASSUME r.alone /\ ~Fresh(r)
           PROVE  KeptOK(r)'
        <3>1. Kept(h, from, Place(h) + 1)
            BY <1>1, <1>3, <2>7, <2>12 DEF KeptOK, Fresh
        <3>2. Place(r) = Place(h) /\ store'[r.from] = from
            BY <1>3, <2>7, <2>10, <2>12 DEF Place
        <3>3. Kept(r, store'[r.from], Place(r) + 1)
            BY <2>7, <3>1, <3>2, SameKept
        <3> QED BY <2>7, <3>3 DEF KeptOK
    <2>13. Len(store) <= Len(store)' /\ past'.overlapped = past.overlapped
        <3> HIDE DEF n
        <3> QED BY <1>5, <1>8, <2>8 DEF n
    <2>14. ASSUME NEW k \in Modes, Clean(k)'
           PROVE  Clean(k) /\ LinesFit(k, r)'
        <3>1. Clean(k) /\ LinesFit(k, h) /\ past'.edits = past.edits /\ Undisturbed(a)
            <4>1. Clean(k)
                BY <1>8, <2>14 DEF Clean
            <4> QED BY <1>2, <1>8, <4>1, RunningLines DEF Clean, Undisturbed
        <3>2. PICK dir \in Dirs : dir = DirOf(h)
            BY <1>3
        <3>3. PICK old \in Seq(Line) : old = from
            BY <1>5
        <3>4. AllFit(k, dir, old) /\ \A e \in Dirs : e # dir => AllFit(k, e, Database(e))
            BY <1>1, <3>1, <3>2, <3>3 DEF LinesFit, RunFits, Copied
        <3>5. PICK to : to = h.into
            OBVIOUS
        <3>6. dbInode[dir] = to /\ to # 0 /\ DirOf(r) = dir
            <4>1. h.into # 0
                <5> HIDE DEF h, n
                <5> QED BY <1>4, <1>5
            <4> QED BY <1>7, <2>7, <3>1, <3>2, <3>5, <4>1 DEF DirOf
        <3>7. ASSUME NEW e \in Dirs, e # dir
              PROVE  AllFit(k, e, Database(e))'
            <4>1. dbInode'[e] = dbInode[e] /\ dbInode[e] # to
                BY <1>1, <1>5, <3>6, <3>7 DEF InodesApart
            <4>2. \A q \in 1 .. Len(store) : q # to => store'[q] = store[q]
                BY <2>8, <3>5
            <4>3. Database(e)' = Database(e)
                BY <4>1, <4>2, SameDatabase
            <4> QED BY <1>1, <3>1, <3>4, <3>7, <4>3, SameFits
        <3>8. AllFit(k, dir, Database(dir))' \/ Copied(k, r, dir)
            <4>1. CASE k = "exact"
                BY <2>7, <3>6, <4>1 DEF Copied
            <4>2. CASE k = "true"
                <5>1. Database(dir)' = SubSeq(old, 1, last)
                    BY <1>1, <2>6, <2>8, <3>1, <3>3, <3>5, <3>6 DEF Database
                <5>2. last \in 0 .. Len(old)
                    <6> DEFINE m1 == Len(old)
                    <6>1. m1 \in Nat /\ last \in h.offset .. m1
                        BY <2>1, <3>3
                    <6> HIDE DEF m1, h
                    <6> QED BY <1>3, <2>1, <6>1 DEF h, m1
                <5>3. PICK some : some = SubSeq(old, 1, last)
                    OBVIOUS
                <5>4. AllFit(k, dir, some)
                    BY <3>4, <4>2, <5>2, <5>3, TruthOfPart
                <5>5. AllFit(k, dir, some)'
                    BY <1>1, <3>1, <5>4, AllFitSame
                <5> QED BY <5>1, <5>3, <5>5 DEF AllFit
            <4> QED BY <4>1, <4>2 DEF Modes
        <3>9. RunFits(k, r)'
            <4>1. AllFit(k, dir, old)'
                BY <1>1, <3>1, <3>4, AllFitSame
            <4>2. store'[r.from] = old
                BY <2>10, <3>1, <3>3
            <4> QED BY <2>7, <3>6, <4>1, <4>2 DEF RunFits, AllFit
        <3> QED BY <3>1, <3>7, <3>8, <3>9 DEF LinesFit, Copied, DirOf
    <2> QED BY <1>2, <2>7, <2>9, <2>11, <2>12, <2>13, <2>14, OwnStep
<1>9. CASE /\ OnlyHtadd(a, [h EXCEPT !.at = "unlink", !.alone = h.alone /\ ~full])
           /\ past' = [past EXCEPT !.cut = past.cut \/ full]
           /\ UNCHANGED store
    <2>1. PICK r \in Run : /\ OnlyHtadd(a, r) /\ r.at = "unlink" /\ r.cmd = h.cmd
                           /\ r.alone = (h.alone /\ ~full) /\ r.left = h.left
                           /\ r.before = h.before
        <3> DEFINE only == h.alone /\ ~full
                   r0 == [h EXCEPT !.at = "unlink", !.alone = only]
        <3>1. only \in BOOLEAN
            OBVIOUS
        <3> HIDE DEF only
        <3>2. /\ r0 \in Run /\ r0.at = "unlink" /\ r0.cmd = h.cmd /\ r0.alone = only
              /\ r0.left = h.left /\ r0.before = h.before
            BY <1>3, <3>1 DEF Run, Steps
        <3>3. OnlyHtadd(a, r0)
            BY <1>9 DEF only
        <3> HIDE DEF r0
        <3> QED BY <3>2, <3>3 DEF only
    <2>2. past' \in Past /\ past'.overlapped = past.overlapped
        <3> DEFINE c == past.cut \/ full
        <3>1. c \in BOOLEAN /\ past' = [past EXCEPT !.cut = c]
            BY <1>9
        <3> HIDE DEF c
        <3> QED BY <1>5, <3>1, PastFacts
    <2>3. DatabaseTypeOK' /\ InodesApart' /\ Opened(r)' /\ LeftOK(r)
        <3>1. dbInode' \in [Dirs -> 0 .. Len(store')] /\ tempInode' \in 0 .. Len(store')
            BY <1>1, <1>5, <1>9
        <3>2. DatabaseTypeOK'
            BY <1>1, <1>5, <1>9, <2>1, <2>2, <3>1, TypeNext
        <3>3. InodesApart'
            BY <1>1, <1>5 DEF InodesApart
        <3>4. Opened(r)'
            BY <1>3, <1>4, <2>1 DEF Opened
        <3>5. LeftOK(r)
            BY <1>3, <2>1 DEF LeftOK, Place
        <3> QED BY <3>2, <3>3, <3>4, <3>5
    <2>4. ASSUME Undisturbed(a)
          PROVE  StepOK(r)'
        <3>1. dbInode[d] # 0
            <4>1. h.into # 0
                <5> HIDE DEF h, n
                <5> QED BY <1>4, <1>5
            <4> QED BY <1>7, <2>4, <4>1
        <3> QED BY <1>1, <1>7, <2>1, <2>4, <3>1 DEF StepOK, Fresh, DirOf
    <2>5. ASSUME r.alone /\ ~Fresh(r)
          PROVE  KeptOK(r)'
        <3>1. h.alone /\ ~full /\ ~Fresh(h)
            BY <2>1, <2>5 DEF Fresh
        <3>2. Kept(h, from, Place(h) + 1)
            BY <1>1, <1>3, <3>1 DEF KeptOK
        <3>3. h.offset = m
            <4>1. h.offset \in 0 .. m /\ ~(h.offset < m)
                BY <1>3, <1>7, <3>1
            <4> HIDE DEF h, m
            <4> QED BY <1>6, <4>1
        <3>4. store[h.into] = from
            <4>1. store[h.into] = SubSeq(from, 1, Len(from))
                BY <1>3, <1>7, <3>1, <3>3
            <4> QED BY <1>5, <4>1, SubSeqFull
        <3>5. dbInode[d] = h.into /\ h.into # 0
            <4>1. h.into # 0
                <5> HIDE DEF h, n
                <5> QED BY <1>4, <1>5
            <4> QED BY <1>3, <1>7, <3>1, <4>1
        <3>6. Database(DirOf(r))' = from
            BY <1>1, <1>9, <2>1, <3>4, <3>5 DEF Database, DirOf
        <3>7. Kept(r, Database(DirOf(r))', Place(r) + 1)
            <4>1. Place(r) = Place(h)
                BY <2>1 DEF Place
            <4> QED BY <2>1, <3>2, <3>6, <4>1, SameKept
        <3> QED BY <2>1, <3>7 DEF KeptOK
    <2>6. Len(store) <= Len(store)'
        <3> HIDE DEF n
        <3> QED BY <1>5, <1>9 DEF n
    <2>7. ASSUME NEW k \in Modes, Clean(k)'
          PROVE  Clean(k) /\ LinesFit(k, r)'
        <3>1. Clean(k) /\ LinesFit(k, h) /\ past'.edits = past.edits /\ Undisturbed(a)
              /\ (k = "exact" => ~full)
            <4>1. /\ past'.foreign = past.foreign /\ past'.overlapped = past.overlapped
                  /\ past'.quick = past.quick /\ past'.edits = past.edits
                  /\ (past'.cut <=> past.cut \/ full)
                <5> DEFINE c == past.cut \/ full
                <5>1. c \in BOOLEAN /\ past' = [past EXCEPT !.cut = c]
                    BY <1>9
                <5> HIDE DEF c
                <5>2. /\ past'.foreign = past.foreign /\ past'.overlapped = past.overlapped
                      /\ past'.quick = past.quick /\ past'.edits = past.edits
                      /\ past'.cut = c
                    BY <1>5, <5>1 DEF Past
                <5> QED BY <5>2 DEF c
            <4>2. Clean(k) /\ (k = "exact" => ~full)
                BY <2>7, <4>1 DEF Clean
            <4> QED BY <1>2, <4>1, <4>2, RunningLines DEF Clean, Undisturbed
        <3>2. PICK dir \in Dirs : dir = DirOf(h)
            BY <1>3
        <3>3. PICK old \in Seq(Line) : old = from
            BY <1>5
        <3>4. /\ AllFit(k, dir, old) /\ \A e \in Dirs : e # dir => AllFit(k, e, Database(e))
              /\ k = "true" => AllFit(k, dir, Database(dir))
            BY <1>1, <3>1, <3>2, <3>3 DEF LinesFit, RunFits, Copied
        <3>5. k = "exact" => Database(dir) = old
            <4> SUFFICES ASSUME k = "exact"
                         PROVE  Database(dir) = old
                OBVIOUS
            <4>1. h.offset = m
                <5>1. h.offset \in 0 .. m /\ ~(h.offset < m)
                    BY <1>7, <3>1
                <5> HIDE DEF h, m
                <5> QED BY <1>6, <5>1
            <4>2. store[h.into] = SubSeq(from, 1, Len(from))
                BY <1>7, <3>1, <4>1
            <4>3. dbInode[dir] = h.into /\ h.into # 0
                <5>1. h.into # 0
                    <6> HIDE DEF h, n
                    <6> QED BY <1>4, <1>5
                <5> QED BY <1>7, <3>1, <3>2, <5>1
            <4>4. store[h.into] = from
                BY <1>5, <4>2, SubSeqFull
            <4> QED BY <3>3, <4>3, <4>4 DEF Database
        <3>6. \A e \in Dirs : AllFit(k, e, Database(e))
            BY <3>4, <3>5 DEF Modes
        <3>7. ASSUME NEW e \in Dirs
              PROVE  AllFit(k, e, Database(e))'
            <4>1. Database(e)' = Database(e)
                BY <1>1, <1>9 DEF Database
            <4> QED BY <1>1, <3>1, <3>6, <4>1, SameFits
        <3>8. RunFits(k, r)'
            BY <2>1 DEF RunFits
        <3> QED BY <3>1, <3>7, <3>8 DEF LinesFit
    <2> QED BY <1>2, <1>3, <2>1, <2>2, <2>3, <2>4, <2>5, <2>6, <2>7, OwnStep
<1> QED BY <1>8, <1>9 DEF CopyBlock

(* What is written to the temporary file goes over the others' listings. *)
LEMMA TempKeeps ==
    ASSUME DatabaseInv, NEW a \in Adders, htadd[a].at = "open", htadd[a].left # <<>>,
           ~Fresh(htadd[a]), dbInode[DirOf(htadd[a])] # 0, NEW out \in Seq(Line),
           NEW ends \in BOOLEAN, TempFileOpen(a, out, ends), UNCHANGED <<disk, clock>>,
           past' \in Past, past'.overlapped = past.overlapped,
           htadd[a].alone /\ ~ends => Kept(htadd[a], out, Place(htadd[a]) + 1),
           past'.edits = past.edits,
           \A m \in Modes : Clean(m)' => Clean(m) /\ AllFit(m, DirOf(htadd[a]), out)
    PROVE  DatabaseInv'
<1> DEFINE h == htadd[a]
           d == DirOf(h)
           n == Len(store)
<1>1. h.at = "open" /\ UNCHANGED dbInode
    BY DEF TempFileOpen
<1>2. a \in Adding
    BY <1>1, RunsHere DEF Steps
<1>3. /\ h \in Run /\ h.cmd \in Uses /\ LeftOK(h) /\ (h.alone /\ ~Fresh(h) => KeptOK(h))
      /\ Opened(h) /\ h.at \in Steps /\ d \in Dirs
    BY <1>2, RunningFacts
<1>4. /\ store \in Seq(Seq(Line)) /\ n \in Nat /\ DatabaseTypeOK /\ InodesApart
      /\ dbInode \in [Dirs -> 0 .. n] /\ tempInode \in 0 .. n
    BY StateFacts
<1> DEFINE o == OpenedW(tempInode)
           r0 == [h EXCEPT !.at = "flush", !.into = o[1], !.out = out, !.ends = ends]
<1>5. tempInode' = o[1] /\ store' = o[2] /\ OnlyHtadd(a, r0)
    BY DEF TempFileOpen
<1>6. /\ store' \in Seq(Seq(Line)) /\ Len(store') >= n /\ tempInode' \in 1 .. Len(store')
      /\ Len(store') \in Nat /\ store'[tempInode'] = <<>>
      /\ (tempInode # 0 => tempInode' = tempInode) /\ (tempInode = 0 => tempInode' = n + 1)
      /\ \A j \in 1 .. n : j # tempInode' => store'[j] = store[j]
    <2> DEFINE e == tempInode
               s == store
    <2>1. s \in Seq(Seq(Line)) /\ s = store /\ e \in 0 .. Len(s)
        BY <1>4
    <2>2. /\ o[2] \in Seq(Seq(Line)) /\ Len(o[2]) >= n /\ o[1] \in 1 .. Len(o[2])
          /\ Len(o[2]) \in Nat /\ o[2][o[1]] = <<>>
          /\ (e # 0 => o[1] = e) /\ (e = 0 => o[1] = n + 1)
          /\ \A j \in 1 .. n : j # o[1] => o[2][j] = store[j]
        BY <2>1, OpenedFacts
    <2> HIDE DEF o
    <2> QED BY <1>5, <2>2
<1>7. PICK r \in Run : /\ OnlyHtadd(a, r) /\ r.at = "flush" /\ r.cmd = h.cmd
                       /\ r.alone = h.alone /\ r.left = h.left /\ r.into = tempInode'
                       /\ r.out = out /\ r.ends = ends /\ r.before = h.before
    <2> DEFINE i == o[1]
    <2>1. i = tempInode' /\ i \in Nat
        BY <1>5, <1>6
    <2>2. OnlyHtadd(a, [h EXCEPT !.at = "flush", !.into = i, !.out = out, !.ends = ends])
        BY <1>5
    <2> HIDE DEF i, o
    <2> DEFINE r1 == [h EXCEPT !.at = "flush", !.into = i, !.out = out, !.ends = ends]
    <2>3. /\ r1 \in Run /\ r1.at = "flush" /\ r1.cmd = h.cmd /\ r1.alone = h.alone
          /\ r1.left = h.left /\ r1.into = i /\ r1.out = out /\ r1.before = h.before
        BY <1>3, <2>1 DEF Run, Steps
    <2>4. r1.ends = ends
        BY <1>3 DEF Run
    <2> HIDE DEF r1
    <2>5. OnlyHtadd(a, r1)
        BY <2>2 DEF r1
    <2> QED BY <2>1, <2>3, <2>4, <2>5
<1> HIDE DEF o
<1>8. \A e \in Dirs : dbInode[e] # tempInode'
    <2> TAKE e \in Dirs
    <2>1. dbInode[e] \in 0 .. n
        BY <1>4
    <2>2. CASE tempInode = 0
        <3> HIDE DEF n
        <3> QED BY <1>4, <1>6, <2>1, <2>2
    <2>3. CASE tempInode # 0
        BY <1>4, <1>6, <2>3 DEF InodesApart
    <2> QED BY <2>2, <2>3
<1>9. DatabaseTypeOK' /\ InodesApart' /\ Opened(r)' /\ LeftOK(r)
    <2> DEFINE m == Len(store')
    <2>1. dbInode' \in [Dirs -> 0 .. m] /\ tempInode' \in 0 .. m
        <3>1. 0 .. n \subseteq 0 .. m /\ tempInode' \in 0 .. m
            <4> HIDE DEF n
            <4>1. m \in Nat /\ m >= n /\ tempInode' \in 1 .. m
                BY <1>6
            <4> HIDE DEF m
            <4> QED BY <1>4, <4>1
        <3> QED BY <1>1, <1>4, <3>1
    <2>2. DatabaseTypeOK'
        BY <1>4, <1>6, <1>7, <2>1, TypeNext
    <2>3. InodesApart'
        BY <1>1, <1>4, <1>8 DEF InodesApart
    <2>4. Opened(r)'
        BY <1>3, <1>6, <1>7 DEF Opened, Fresh
    <2>5. LeftOK(r)
        BY <1>3, <1>7, SameLeft
    <2> QED BY <2>2, <2>3, <2>4, <2>5
<1>10. StepOK(r)'
    <2>1. tempInode' # 0
        <3> DEFINE m == Len(store')
        <3>1. m \in Nat /\ tempInode' \in 1 .. m
            BY <1>6
        <3> HIDE DEF m
        <3> QED BY <3>1
    <2> QED BY <1>1, <1>6, <1>7, <2>1 DEF StepOK, DirOf, Fresh
<1>11. ASSUME r.alone /\ ~Fresh(r)
       PROVE  KeptOK(r)'
    <2>1. h.alone /\ KeptOK(h) /\ Place(r) = Place(h)
        BY <1>3, <1>7, <1>11 DEF Fresh, Place
    <2>2. Database(DirOf(r))' = Database(DirOf(h))
        <3>1. dbInode[d] \in 0 .. n /\ dbInode[d] # tempInode'
            BY <1>3, <1>4, <1>8
        <3>2. dbInode[d] \in 1 .. n
            <4> HIDE DEF n, h
            <4> QED BY <1>4, <3>1 DEF h
        <3>3. store'[dbInode[d]] = store[dbInode[d]]
            BY <1>6, <3>1, <3>2
        <3> QED BY <1>1, <1>7, <3>3 DEF Database, DirOf
    <2>3. Kept(r, Database(DirOf(r))', Place(r))
        <3>1. Kept(h, Database(DirOf(h)), Place(h))
            BY <1>1, <2>1 DEF KeptOK
        <3> QED BY <1>7, <2>1, <2>2, <3>1, SameKept
    <2>4. ~ends => Kept(r, r.out, Place(r) + 1)
        BY <1>7, <2>1, SameKept
    <2> QED BY <1>7, <2>3, <2>4 DEF KeptOK
<1>12. Len(store) <= Len(store)'
    <2> DEFINE m == Len(store')
    <2>1. m \in Nat /\ m >= n
        BY <1>6
    <2> HIDE DEF n, m
    <2> QED BY <1>4, <2>1 DEF n, m
<1>13. ASSUME NEW k \in Modes, Clean(k)'
       PROVE  Clean(k) /\ LinesFit(k, r)'
    <2>1. Clean(k) /\ LinesFit(k, h) /\ AllFit(k, DirOf(h), out)
        <3>1. Clean(k) /\ AllFit(k, DirOf(h), out)
            BY <1>13
        <3> QED BY <1>2, <3>1, RunningLines
    <2>2. \A e \in Dirs : AllFit(k, e, Database(e))
        BY <1>1, <2>1 DEF LinesFit, Copied
    <2>3. PICK temp : temp = tempInode'
        OBVIOUS
    <2>4. ASSUME NEW e \in Dirs
          PROVE  AllFit(k, e, Database(e))'
        <3>1. dbInode[e] # temp /\ dbInode'[e] = dbInode[e]
            BY <1>1, <1>8, <2>3
        <3>2. \A q \in 1 .. Len(store) : q # temp => store'[q] = store[q]
            BY <1>6, <2>3
        <3>3. Database(e)' = Database(e)
            BY <3>1, <3>2, SameDatabase
        <3> QED BY <2>2, <3>3, SameFits
    <2>5. PICK dir \in Dirs : dir = DirOf(h)
        BY <1>3
    <2>6. AllFit(k, dir, out)'
        BY <2>1, <2>5, AllFitSame
    <2>7. DirOf(r) = dir
        BY <1>7, <2>5 DEF DirOf
    <2>8. RunFits(k, r)'
        BY <1>7, <2>6, <2>7 DEF RunFits, AllFit
    <2> QED BY <2>1, <2>4, <2>8 DEF LinesFit
<1> QED BY <1>2, <1>7, <1>9, <1>10, <1>11, <1>12, <1>13, OwnStep

LEMMA DeleteFileKeeps ==
    ASSUME DatabaseInv, NEW a \in Adders, NextFile(a), htadd[a].cmd.op = "delete"
    PROVE  DatabaseInv'
<1> DEFINE h == htadd[a]
           n == Head(h.left)
           d == DirOf(h)
           lines == Database(d)
           p == Place(h)
<1>1. /\ h.at = "open" /\ h.left # <<>> /\ DeleteFile(a, n) /\ UNCHANGED <<disk, clock>>
    BY DEF NextFile
<1>2. a \in Adding
    BY <1>1, RunsHere DEF Steps
<1>3. /\ h \in Run /\ h.cmd \in Uses /\ LeftOK(h) /\ (h.alone /\ ~Fresh(h) => KeptOK(h))
      /\ Opened(h) /\ h.at \in Steps /\ d \in Dirs /\ lines \in Seq(Line) /\ h.alone \in BOOLEAN
    BY <1>2, RunningFacts, StateFacts
<1>4. /\ p \in Nat /\ p + 1 \in 1 .. Len(h.cmd.names) /\ Len(h.cmd.names) \in Nat
      /\ n = h.cmd.names[p + 1] /\ n \in FileName
      /\ \A k \in 1 .. Len(h.cmd.names) : h.cmd.names[k] \in FileName
      /\ Tail(h.left) \in Seq(FileName)
      /\ \A r \in Run : r.cmd = h.cmd /\ r.left = Tail(h.left) =>
            Place(r) = Place(h) + 1 /\ LeftOK(r)
    BY <1>1, <1>3, NextName
<1>5. NamesFiles(h, p + 1)
    <2>1. 1 .. p + 1 \subseteq 1 .. Len(h.cmd.names)
        <3> DEFINE m == Len(h.cmd.names)
        <3> HIDE DEF m, p
        <3> QED BY <1>4 DEF m
    <2>2. \A k \in 1 .. Len(h.cmd.names) : h.cmd.names[k].file \in Files
        BY <1>4 DEF FileName
    <2> QED BY <2>1, <2>2 DEF NamesFiles
<1>6. n.file \in Files
    BY <1>4 DEF FileName
<1>7. ~Fresh(h) /\ UNCHANGED past /\ past' \in Past
    BY <1>1, StateFacts, PastFacts DEF Fresh, DeleteFile
<1>8. h.alone => Kept(h, lines, p)
    BY <1>1, <1>3, <1>7 DEF KeptOK
<1>9. CASE dbInode[d] = 0
    <2>1. OnlyHtadd(a, [h EXCEPT !.left = Tail(h.left)]) /\ UNCHANGED <<store, dbInode, tempInode>>
        BY <1>1, <1>9 DEF DeleteFile, DirOf
    <2>2. PICK r \in Run : /\ OnlyHtadd(a, r) /\ r.at = "open" /\ r.cmd = h.cmd
                           /\ r.alone = h.alone /\ r.left = Tail(h.left) /\ r.before = h.before
        <3> DEFINE r0 == [h EXCEPT !.left = Tail(h.left)]
        <3>1. /\ r0 \in Run /\ r0.at = "open" /\ r0.cmd = h.cmd
              /\ r0.alone = h.alone /\ r0.left = Tail(h.left) /\ r0.before = h.before
            BY <1>1, <1>3, <1>4 DEF Run
        <3> QED BY <2>1, <3>1
    <2>3. DatabaseTypeOK' /\ InodesApart' /\ Opened(r)' /\ LeftOK(r) /\ StepOK(r)'
        <3>1. DatabaseTypeOK /\ InodesApart
            BY StateFacts
        <3>2. DatabaseTypeOK'
            BY <1>1, <1>7, <2>1, <2>2, <3>1 DEF DatabaseTypeOK, OnlyHtadd
        <3>3. InodesApart'
            BY <2>1, <3>1 DEF InodesApart
        <3>4. Opened(r)' /\ StepOK(r)'
            BY <1>3, <2>2 DEF Opened, StepOK
        <3> QED BY <1>4, <2>2, <3>2, <3>3, <3>4
    <2>4. ASSUME r.alone /\ ~Fresh(r)
          PROVE  KeptOK(r)'
        <3>1. lines = <<>>
            BY <1>9 DEF Database
        <3>2. \A f \in Files : ListingsOf(lines, f) = {}
            <4>1. Entries(lines) = <<>>
                BY <3>1, EntriesOfNone
            <4>2. Range(Entries(lines)) = {}
                BY <4>1 DEF Range
            <4> QED BY <4>2 DEF ListingsOf
        <3>3. Kept(h, lines, p)
            BY <1>8, <2>2, <2>4
        <3> HIDE DEF p, n, lines
        <3>4. Kept(h, lines, p + 1)
            <4>1. ListingsOf(lines, n.file) = {}
                BY <1>6, <3>2
            <4>2. h.cmd.op # "add" /\ h.cmd.op \in {"add", "delete"}
                OBVIOUS
            <4>3. Takes(h, n, lines, lines)
                BY <1>6, <4>1, <4>2 DEF Takes
            <4> QED BY <1>4, <1>5, <3>3, <4>3, KeptNext
        <3>5. Kept(r, lines, Place(r))
            BY <1>4, <2>2, <3>4, SameKept DEF p
        <3>6. Database(DirOf(r))' = lines
            BY <2>1, <2>2 DEF Database, DirOf, lines
        <3> QED BY <2>2, <3>5, <3>6 DEF KeptOK
    <2>5. Len(store) <= Len(store)' /\ past'.overlapped = past.overlapped
        BY <1>7, <2>1, StateFacts
    <2>6. \A m \in Modes : Clean(m)' => Clean(m) /\ LinesFit(m, r)'
        <3>1. \A m \in Modes : Clean(m)' => Clean(m)
            BY <1>7 DEF Clean
        <3>2. r.at \in Ended \union {"open"} /\ htadd[a].at # "blocks"
              /\ UNCHANGED <<disk, store, dbInode>> /\ past'.edits = past.edits
            BY <1>1, <1>7, <2>1, <2>2
        <3> QED BY <1>2, <3>1, <3>2, LinesStay
    <2> QED BY <1>2, <2>2, <2>3, <2>4, <2>5, <2>6, OwnStep
<1>10. CASE dbInode[d] # 0
    <2> DEFINE gone == n.dir = Nowhere
               out0 == IF gone THEN DeleteDb(lines, n.file) ELSE FlattenSeq(Entries(lines))
    <2>1. TempFileOpen(a, out0, FALSE)
        BY <1>1, <1>10 DEF DeleteFile, DirOf, Database
    <2>2. /\ out0 \in Seq(Line)
          /\ \A f \in Files : f # n.file => ListingsOf(out0, f) = ListingsOf(lines, f)
          /\ ListingsOf(out0, n.file) \subseteq ListingsOf(lines, n.file)
          /\ (gone => ListingsOf(out0, n.file) = {})
          /\ Range(Entries(out0)) \subseteq Range(Entries(lines))
        <3>1. CASE gone
            <4> DEFINE f0 == n.file
                       out1 == DeleteDb(lines, f0)
            <4>1. /\ out1 \in Seq(Line)
                  /\ \A f \in Files :
                        ListingsOf(out1, f) = IF f = f0 THEN {} ELSE ListingsOf(lines, f)
                  /\ Range(Entries(out1)) \subseteq Range(Entries(lines))
                BY <1>3, <1>6, DeleteFacts
            <4>2. out0 = out1
                BY <3>1
            <4> HIDE DEF out0, out1
            <4> QED BY <1>6, <4>1, <4>2
        <3>2. CASE ~gone
            <4>1. /\ out0 \in Seq(Line) /\ Range(Entries(out0)) = Range(Entries(lines))
                BY <1>3, <3>2, CopyFacts
            <4> HIDE DEF out0
            <4> QED BY <3>2, <4>1 DEF ListingsOf
        <3> QED BY <3>1, <3>2
    <2> HIDE DEF out0
    <2>3. PICK out \in Seq(Line) : out = out0
        BY <2>2
    <2>4. PICK no \in BOOLEAN : no = FALSE
        OBVIOUS
    <2>5. h.alone /\ ~no => Kept(h, out, p + 1)
        <3> SUFFICES ASSUME h.alone
                     PROVE  Kept(h, out, p + 1)
            OBVIOUS
        <3>1. Kept(h, lines, p)
            BY <1>8
        <3>2. /\ h.cmd.op \in {"add", "delete"} /\ h.cmd.op # "add"
            OBVIOUS
        <3>3. /\ \A f \in Files : f # n.file => ListingsOf(out, f) = ListingsOf(lines, f)
              /\ ListingsOf(out, n.file) \subseteq ListingsOf(lines, n.file)
              /\ (n.dir = Nowhere => ListingsOf(out, n.file) = {})
            BY <2>2, <2>3
        <3>4. Takes(h, n, lines, out)
            BY <1>6, <3>2, <3>3 DEF Takes
        <3> HIDE DEF p, n, lines
        <3> QED BY <1>4, <1>5, <3>1, <3>4, KeptNext
    <2>6. TempFileOpen(a, out, no)
        <3>1. TempFileOpen(a, out, FALSE)
            BY <2>1, <2>3
        <3>2. TempFileOpen(a, out, no) <=> TempFileOpen(a, out, FALSE)
            BY <2>4 DEF TempFileOpen
        <3> QED BY <3>1, <3>2
    <2>7. past'.overlapped = past.overlapped
        BY <1>7
    <2>8. ASSUME NEW m \in Modes, Clean(m)'
          PROVE  Clean(m) /\ AllFit(m, d, out)
        <3>1. Clean(m)
            BY <1>7, <2>8 DEF Clean
        <3>2. LinesFit(m, h)
            BY <1>2, <3>1, RunningLines
        <3>3. AllFit(m, d, lines)
            BY <1>1, <1>3, <3>2 DEF LinesFit, Copied
        <3>4. Range(Entries(out)) \subseteq Range(Entries(lines))
            BY <2>2, <2>3
        <3> HIDE DEF lines
        <3> QED BY <3>1, <3>3, <3>4, FitParts
    <2>9. past'.edits = past.edits
        BY <1>7
    <2> QED BY <1>1, <1>7, <1>10, <2>5, <2>6, <2>7, <2>8, <2>9, TempKeeps
<1> QED BY <1>9, <1>10

LEMMA FoundFacts ==
    ASSUME DatabaseTypeOK, NEW n \in FileName, BuildHtFilename(n) # {}
    PROVE  LET d == SearchPath(n)[Min(BuildHtFilename(n))]
           IN  d \in Dirs /\ disk[<<d, n.file>>] \in [text : AllTexts, time : Nat]
               /\ disk[<<d, n.file>>].time # 0
<1> DEFINE found == BuildHtFilename(n)
           path == SearchPath(n)
           k == Min(found)
<1>1. path \in Seq(Dirs)
    <2>1. CASE n.dir = Nowhere
        BY <2>1, DatabaseAssumption DEF SearchPath
    <2>2. CASE n.dir # Nowhere
        <3>1. n.dir \in Dirs
            BY <2>2 DEF FileName
        <3>2. <<n.dir>> \in Seq(Dirs)
            <4> HIDE DEF Dirs
            <4> QED BY <3>1
        <3> QED BY <2>2, <3>2 DEF SearchPath
    <2> QED BY <2>1, <2>2
<1>2. found \in SUBSET Nat /\ found # {} /\ found \subseteq DOMAIN path
    <2>1. found \subseteq DOMAIN path
        BY DEF BuildHtFilename
    <2>2. DOMAIN path \subseteq Nat
        <3> HIDE DEF path
        <3> QED BY <1>1
    <2> QED BY <2>1, <2>2
<1>3. k \in found
    <2>1. \E x \in found : \A y \in found : x <= y
        <3> HIDE DEF found
        <3> QED BY <1>2, LeastElement
    <2> HIDE DEF found
    <2> QED BY <2>1 DEF Min
<1>4. path[k] \in Dirs
    <2> HIDE DEF path, k, found, Dirs
    <2>1. k \in DOMAIN path
        BY <1>2, <1>3
    <2> QED BY <1>1, <2>1
<1>5. disk[<<path[k], n.file>>].time # 0
    <2> HIDE DEF k
    <2> QED BY <1>3 DEF BuildHtFilename
<1>6. n.file \in Files
    BY DEF FileName
<1>7. disk[<<path[k], n.file>>] \in [text : AllTexts, time : Nat]
    <2>1. <<path[k], n.file>> \in Dirs \X Files
        <3> HIDE DEF path, k, Dirs
        <3> QED BY <1>4, <1>6
    <2> HIDE DEF path, k
    <2> QED BY <2>1 DEF DatabaseTypeOK
<1> QED BY <1>4, <1>5, <1>7

LEMMA AddFileKeeps ==
    ASSUME DatabaseInv, NEW a \in Adders, NextFile(a), htadd[a].cmd.op # "delete"
    PROVE  DatabaseInv'
<1> DEFINE h == htadd[a]
           n == Head(h.left)
           d == DirOf(h)
           lines == Database(d)
           p == Place(h)
           found == BuildHtFilename(n)
           from == SearchPath(n)[Min(found)]
           there == disk[<<from, n.file>>]
           new == AddNewPages(n.file, there)
           size == Len(store)
<1>1. /\ h.at = "open" /\ h.left # <<>> /\ AddFile(a, n) /\ UNCHANGED <<disk, clock>>
    BY DEF NextFile
<1>2. a \in Adding
    BY <1>1, RunsHere DEF Steps
<1>3. /\ h \in Run /\ h.cmd \in Uses /\ LeftOK(h) /\ (h.alone /\ ~Fresh(h) => KeptOK(h))
      /\ Opened(h) /\ h.at \in Steps /\ d \in Dirs /\ lines \in Seq(Line) /\ h.alone \in BOOLEAN
      /\ h.cmd.op \in {"add", "fresh"} /\ h.left \in Seq(FileName)
    BY <1>2, RunningFacts, StateFacts
<1>4. /\ p \in Nat /\ p + 1 \in 1 .. Len(h.cmd.names) /\ Len(h.cmd.names) \in Nat
      /\ n = h.cmd.names[p + 1] /\ n \in FileName
      /\ \A k \in 1 .. Len(h.cmd.names) : h.cmd.names[k] \in FileName
    BY <1>1, <1>3, NextName
<1>5. NamesFiles(h, p + 1)
    <2>1. 1 .. p + 1 \subseteq 1 .. Len(h.cmd.names)
        <3> DEFINE m == Len(h.cmd.names)
        <3> HIDE DEF m, p
        <3> QED BY <1>4 DEF m
    <2>2. \A k \in 1 .. Len(h.cmd.names) : h.cmd.names[k].file \in Files
        BY <1>4 DEF FileName
    <2> QED BY <2>1, <2>2 DEF NamesFiles
<1>6. n.file \in Files
    BY <1>4 DEF FileName
<1>7. /\ store \in Seq(Seq(Line)) /\ size \in Nat /\ DatabaseTypeOK /\ InodesApart
      /\ past \in Past /\ dbInode \in [Dirs -> 0 .. size] /\ tempInode \in 0 .. size
    BY StateFacts, PastFacts
<1>8. h.alone /\ ~Fresh(h) => Kept(h, lines, p)
    BY <1>1, <1>3 DEF KeptOK
<1>9. CASE found = {} \/ (h.cmd.op = "add" /\ dbInode[d] = 0)
    <2>1. OnlyHtadd(a, AtEnd(h, "exited")) /\ UNCHANGED <<store, dbInode, tempInode, past>>
        BY <1>1, <1>9 DEF AddFile, DirOf
    <2>2. PICK r \in Run : /\ OnlyHtadd(a, r) /\ r.at = "exited" /\ r.cmd = h.cmd
                           /\ r.before = h.before /\ r.alone = h.alone
        BY <1>3, <2>1, AtEndFacts
    <2>3. DatabaseTypeOK' /\ InodesApart' /\ Opened(r)' /\ LeftOK(r) /\ StepOK(r)'
        <3>1. DatabaseTypeOK'
            BY <1>1, <1>7, <2>1, <2>2, TypeNext
        <3>2. InodesApart'
            BY <1>7, <2>1 DEF InodesApart
        <3>3. Opened(r)' /\ StepOK(r)' /\ LeftOK(r)
            BY <1>3, <2>2 DEF Opened, StepOK, LeftOK, Steps
        <3> QED BY <3>1, <3>2, <3>3
    <2>4. ASSUME r.alone /\ ~Fresh(r)
          PROVE  KeptOK(r)'
        <3>1. Others(h, lines, p)
            BY <1>8, <2>2, <2>4 DEF Kept, Fresh
        <3>2. Database(DirOf(r))' = lines
            BY <2>1, <2>2 DEF Database, DirOf
        <3>3. Others(r, Database(DirOf(r))', p)
            BY <2>2, <3>1, <3>2, SameKept
        <3>4. p \in 0 .. Len(r.cmd.names)
            BY <1>3, <2>2 DEF LeftOK
        <3> HIDE DEF p
        <3> QED BY <2>2, <3>3, <3>4 DEF KeptOK
    <2>5. Len(store) <= Len(store)' /\ past'.overlapped = past.overlapped
        BY <1>7, <2>1
    <2>6. \A m \in Modes : Clean(m)' => Clean(m) /\ LinesFit(m, r)'
        <3>1. \A m \in Modes : Clean(m)' => Clean(m)
            BY <2>1 DEF Clean
        <3>2. r.at \in Ended \union {"open"} /\ htadd[a].at # "blocks"
              /\ UNCHANGED <<disk, store, dbInode>> /\ past'.edits = past.edits
            BY <1>1, <2>1, <2>2 DEF Ended
        <3> QED BY <1>2, <3>1, <3>2, LinesStay
    <2> QED BY <1>2, <2>2, <2>3, <2>4, <2>5, <2>6, OwnStep
<1>10. CASE ~(found = {} \/ (h.cmd.op = "add" /\ dbInode[d] = 0))
    <2>1. from \in Dirs /\ there \in [text : AllTexts, time : Nat] /\ found # {}
        BY <1>4, <1>7, <1>10, FoundFacts
    <2>2. new \in Entry /\ new[1].name = n.file /\ new \in Seq(Line)
        <3>1. new \in Entry /\ new[1] = DbLine("file", n.file, there.time)
            BY <1>6, <2>1, NewPagesFacts
        <3> HIDE DEF new
        <3> QED BY <3>1 DEF DbLine, Entry
    <2>3. past' \in Past /\ past'.overlapped = past.overlapped
        <3> DEFINE b == past.foreign \/ from # d
        <3>1. b \in BOOLEAN
            OBVIOUS
        <3>2. past' = [past EXCEPT !.foreign = b]
            BY <1>1, <1>10 DEF AddFile, DirOf
        <3> HIDE DEF b
        <3> QED BY <1>7, <3>1, <3>2, PastFacts
    <2>7. ASSUME NEW m \in Modes, Clean(m)'
          PROVE  /\ Clean(m) /\ LinesFit(m, h) /\ AllFit(m, d, lines) /\ Fits(m, d, new)
        <3> DEFINE b == past.foreign \/ from # d
        <3>1. b \in BOOLEAN
            OBVIOUS
        <3>2. past' = [past EXCEPT !.foreign = b]
            BY <1>1, <1>10 DEF AddFile, DirOf
        <3> HIDE DEF b
        <3>3. /\ past'.foreign = b /\ past'.overlapped = past.overlapped
              /\ past'.quick = past.quick /\ past'.edits = past.edits /\ past'.cut = past.cut
            BY <1>7, <3>1, <3>2 DEF Past
        <3>4. ~b /\ (~past.foreign => Clean(m))
            BY <2>7, <3>3 DEF Clean
        <3>5. ~past.foreign /\ from = d
            BY <3>4 DEF b
        <3>6. Clean(m) /\ LinesFit(m, h)
            BY <1>2, <3>4, <3>5, RunningLines
        <3>7. AllFit(m, d, lines)
            BY <1>1, <1>3, <3>6 DEF LinesFit, Copied
        <3>8. Fits(m, d, new)
            <4> DEFINE f0 == n.file
            <4>1. f0 \in Files /\ d \in Dirs /\ from = d /\ disk[<<from, f0>>].time # 0
                BY <1>3, <1>4, <1>6, <1>7, <1>10, <3>5, FoundFacts
            <4> HIDE DEF from, d, f0
            <4>2. disk[<<d, f0>>].time # 0 /\ there = disk[<<d, f0>>]
                BY <4>1 DEF f0
            <4>3. Fits(m, d, AddNewPages(f0, disk[<<d, f0>>]))
                BY <1>7, <4>1, <4>2, NewIsExact
            <4> QED BY <4>2, <4>3 DEF f0
        <3> QED BY <3>6, <3>7, <3>8
    <2>8. past'.edits = past.edits
        <3> DEFINE b == past.foreign \/ from # d
        <3>1. b \in BOOLEAN
            OBVIOUS
        <3>2. past' = [past EXCEPT !.foreign = b]
            BY <1>1, <1>10 DEF AddFile, DirOf
        <3> HIDE DEF b
        <3> QED BY <1>7, <3>1, <3>2 DEF Past
    <2>4. PICK ends \in BOOLEAN : ends = Breaks(there.text)
        BY DEF Breaks
    <2>5. CASE h.cmd.op = "add"
        <3> DEFINE out0 == IF ends THEN UpToFile(lines, n.file) \o new
                           ELSE UpdateDb(lines, n.file, new)
        <3>1. dbInode[d] # 0 /\ lines = store[dbInode[d]]
            BY <1>10, <2>5 DEF Database
        <3>2. TempFileOpen(a, out0, Breaks(there.text))
            BY <1>1, <1>10, <2>4, <2>5, <3>1 DEF AddFile, DirOf
        <3>3. TempFileOpen(a, out0, ends)
            <4> HIDE DEF out0, there
            <4>1. TempFileOpen(a, out0, ends) <=> TempFileOpen(a, out0, Breaks(there.text))
                BY <2>4 DEF TempFileOpen
            <4> QED BY <3>2, <4>1
        <3>4. /\ UpdateDb(lines, n.file, new) \in Seq(Line)
              /\ Takes(h, n, lines, UpdateDb(lines, n.file, new))
              /\ Range(Entries(UpdateDb(lines, n.file, new)))
                    \subseteq Range(Entries(lines)) \union {new}
            <4> DEFINE f0 == n.file
                       out1 == UpdateDb(lines, f0, new)
            <4>1. /\ out1 \in Seq(Line)
                  /\ \A f \in Files :
                        ListingsOf(out1, f) = IF f = f0 THEN {new} ELSE ListingsOf(lines, f)
                  /\ Range(Entries(out1)) \subseteq Range(Entries(lines)) \union {new}
                <5>1. f0 \in Files /\ new[1].name = f0 /\ new \in Entry /\ lines \in Seq(Line)
                    BY <1>3, <1>6, <2>2
                <5> HIDE DEF new, lines, f0
                <5> QED BY <5>1, UpdateFacts
            <4> HIDE DEF out1, new
            <4>2. Takes(h, n, lines, out1)
                BY <1>6, <2>5, <4>1 DEF Takes
            <4> QED BY <4>1, <4>2 DEF out1
        <3>5. /\ UpToFile(lines, n.file) \o new \in Seq(Line)
              /\ Range(Entries(UpToFile(lines, n.file) \o new))
                    \subseteq Range(Entries(lines)) \union {new}
            <4> DEFINE start == UpToFile(lines, n.file)
            <4>1. start \in Seq(Line) /\ Range(Entries(start)) \subseteq Range(Entries(lines))
                BY <1>3, <1>6, UpToFacts
            <4> HIDE DEF new, lines, start
            <4>2. start \o new \in Seq(Line) /\ Entries(start \o new) = Append(Entries(start), new)
                BY <2>2, <4>1, EntriesEntry
            <4>3. Entries(start) \in Seq(Entry)
                BY <4>1, EntriesType
            <4>4. Range(Append(Entries(start), new)) = Range(Entries(start)) \union {new}
                BY <2>2, <4>3, AppendRange
            <4> QED BY <4>1, <4>2, <4>4 DEF start
        <3>6. PICK out \in Seq(Line) : out = out0
            <4> HIDE DEF new
            <4> QED BY <3>4, <3>5
        <3>10. ASSUME NEW m \in Modes, Clean(m)'
               PROVE  Clean(m) /\ AllFit(m, d, out)
            <4>1. Clean(m) /\ AllFit(m, d, lines) /\ Fits(m, d, new)
                BY <2>7, <3>10
            <4>2. Range(Entries(out)) \subseteq Range(Entries(lines)) \union {new}
                BY <3>4, <3>5, <3>6
            <4> HIDE DEF d, lines, new, out0
            <4> QED BY <4>1, <4>2, FitParts
        <3>7. h.alone /\ ~ends => Kept(h, out, p + 1)
            <4> SUFFICES ASSUME h.alone, ~ends
                         PROVE  Kept(h, out, p + 1)
                OBVIOUS
            <4>1. Kept(h, lines, p)
                BY <1>8, <2>5 DEF Fresh
            <4>2. Takes(h, n, lines, out)
                BY <3>4, <3>6
            <4> HIDE DEF p, n, lines
            <4> QED BY <1>4, <1>5, <4>1, <4>2, KeptNext
        <3>8. ~Fresh(h)
            BY <2>5 DEF Fresh
        <3>9. TempFileOpen(a, out, ends)
            BY <3>3, <3>6
        <3> QED BY <1>1, <2>3, <2>8, <3>1, <3>7, <3>8, <3>9, <3>10, TempKeeps
    <2>6. CASE h.cmd.op = "fresh"
        <3> DEFINE inode == IF dbInode[d] = 0 THEN size + 1 ELSE dbInode[d]
                   none == <<>>
        <3>1. /\ dbInode' = [dbInode EXCEPT ![d] = inode]
              /\ store' = IF dbInode[d] = 0 THEN Append(store, none) ELSE store
              /\ OnlyHtadd(a, [h EXCEPT !.at = "flush", !.into = inode,
                                         !.out = new, !.ends = Breaks(there.text)])
              /\ UNCHANGED tempInode
            BY <1>1, <1>10, <2>6 DEF AddFile, DirOf
        <3>2. dbInode[d] \in 0 .. size
            BY <1>3, <1>7
        <3>3. /\ store' \in Seq(Seq(Line)) /\ Len(store') \in Nat /\ Len(store') >= size
              /\ inode \in 1 .. Len(store') /\ inode # tempInode
            <4>1. CASE dbInode[d] = 0
                <5> DEFINE T == Seq(Line)
                <5>1. store \in Seq(T) /\ none \in T
                    BY <1>7
                <5> HIDE DEF T, none
                <5>2. Append(store, none) \in Seq(T) /\ Len(Append(store, none)) = size + 1
                    BY <5>1, AppendItems
                <5>3. store' \in Seq(T) /\ Len(store') = size + 1
                    BY <3>1, <4>1, <5>2
                <5>4. inode = size + 1
                    BY <4>1
                <5> HIDE DEF size, inode
                <5> QED BY <1>7, <5>3, <5>4 DEF T
            <4>2. CASE dbInode[d] # 0
                <5>1. store' = store /\ inode = dbInode[d]
                    BY <3>1, <4>2
                <5>2. inode # tempInode
                    <6>1. tempInode # 0 => dbInode[d] # tempInode
                        BY <1>3, <1>7 DEF InodesApart
                    <6> QED BY <4>2, <5>1, <6>1
                <5> HIDE DEF size, inode
                <5>3. Len(store') = size
                    BY <5>1 DEF size
                <5> QED BY <1>7, <3>2, <4>2, <5>1, <5>2, <5>3
            <4> QED BY <4>1, <4>2
        <3> HIDE DEF inode, new
        <3>4. PICK j \in Nat : j = inode
            <4> DEFINE m == Len(store')
            <4>1. m \in Nat /\ inode \in 1 .. m
                BY <3>3
            <4> HIDE DEF m
            <4> QED BY <4>1
        <3>5. PICK r \in Run : /\ OnlyHtadd(a, r) /\ r.at = "flush" /\ r.cmd = h.cmd
                               /\ r.alone = h.alone /\ r.left = h.left /\ r.into = j
                               /\ r.out = new
            <4> DEFINE r1 == [h EXCEPT !.at = "flush", !.into = j, !.out = new, !.ends = ends]
            <4>1. /\ r1 \in Run /\ r1.at = "flush" /\ r1.cmd = h.cmd /\ r1.alone = h.alone
                  /\ r1.left = h.left /\ r1.into = j /\ r1.out = new
                BY <1>3, <2>2 DEF Run, Steps
            <4>2. OnlyHtadd(a, r1)
                BY <2>4, <3>1, <3>4
            <4> HIDE DEF r1
            <4> QED BY <4>1, <4>2
        <3>6. DatabaseTypeOK' /\ InodesApart' /\ Opened(r)' /\ LeftOK(r)
            <4> DEFINE m == Len(store')
            <4>1. dbInode' \in [Dirs -> 0 .. m] /\ tempInode' \in 0 .. m
                <5>1. 0 .. size \subseteq 0 .. m /\ j \in 0 .. m
                    <6>1. m \in Nat /\ m >= size /\ j \in 1 .. m
                        BY <3>3, <3>4
                    <6> HIDE DEF size, m
                    <6> QED BY <1>7, <6>1
                <5> DEFINE N == 0 .. m
                <5>2. j \in N /\ dbInode \in [Dirs -> N] /\ tempInode \in N
                    BY <1>7, <5>1
                <5> HIDE DEF N
                <5>3. dbInode' \in [Dirs -> N] /\ tempInode' \in N
                    BY <3>1, <3>4, <5>2
                <5> QED BY <5>3 DEF N
            <4>2. DatabaseTypeOK'
                BY <1>1, <1>7, <2>3, <3>3, <3>5, <4>1, TypeNext
            <4>3. InodesApart'
                <5>1. \A e \in Dirs \ {d} : dbInode'[e] = dbInode[e] /\ (dbInode[e] # 0 => dbInode[e] # j)
                    <6> TAKE e \in Dirs \ {d}
                    <6>1. dbInode'[e] = dbInode[e] /\ dbInode[e] \in 0 .. size
                        BY <1>7, <3>1
                    <6>2. CASE dbInode[d] = 0
                        <7>1. j = size + 1
                            BY <3>4, <6>2 DEF inode
                        <7> HIDE DEF size, d
                        <7> QED BY <1>7, <6>1, <7>1
                    <6>3. CASE dbInode[d] # 0
                        <7>1. j = dbInode[d]
                            BY <3>4, <6>3 DEF inode
                        <7> QED BY <1>3, <1>7, <6>1, <6>3, <7>1 DEF InodesApart
                    <6> QED BY <6>2, <6>3
                <5>2. dbInode'[d] = j /\ j # 0
                    <6>1. dbInode'[d] = j
                        BY <1>3, <1>7, <3>1, <3>4
                    <6>2. j # 0
                        <7> DEFINE m1 == Len(store')
                        <7>1. m1 \in Nat /\ j \in 1 .. m1
                            BY <3>3, <3>4
                        <7> HIDE DEF m1
                        <7> QED BY <7>1
                    <6> QED BY <6>1, <6>2
                <5>3. tempInode' # 0 => \A e \in Dirs : dbInode'[e] # tempInode'
                    <6> HIDE DEF d
                    <6> QED BY <1>7, <3>1, <3>3, <3>4, <5>1, <5>2 DEF InodesApart
                <5>4. ASSUME NEW e \in Dirs, NEW f \in Dirs, dbInode'[e] # 0, e # f
                      PROVE  dbInode'[e] # dbInode'[f]
                    <6> HIDE DEF d
                    <6>1. CASE e = d
                        <7>1. dbInode'[f] = dbInode[f] /\ (dbInode[f] # 0 => dbInode[f] # j)
                            BY <5>1, <5>4, <6>1
                        <7> QED BY <5>2, <6>1, <7>1
                    <6>2. CASE f = d
                        BY <5>1, <5>2, <5>4, <6>2
                    <6>3. CASE e # d /\ f # d
                        BY <1>7, <5>1, <5>4, <6>3 DEF InodesApart
                    <6> QED BY <6>1, <6>2, <6>3
                <5> QED BY <5>3, <5>4 DEF InodesApart
            <4>4. Opened(r)'
                BY <1>3, <1>1, <2>2, <3>3, <3>4, <3>5 DEF Opened
            <4>5. LeftOK(r)
                BY <1>3, <3>5, SameLeft
            <4> QED BY <4>2, <4>3, <4>4, <4>5
        <3>7. StepOK(r)' /\ Fresh(r)
            <4>1. Fresh(r)
                BY <2>6, <3>5 DEF Fresh
            <4>2. dbInode'[DirOf(r)] = j
                BY <1>3, <1>7, <3>1, <3>4, <3>5 DEF DirOf
            <4> QED BY <3>5, <4>1, <4>2 DEF StepOK
        <3>8. Len(store) <= Len(store)'
            <4> DEFINE m == Len(store')
            <4>1. m \in Nat /\ m >= size
                BY <3>3
            <4> HIDE DEF size, m
            <4> QED BY <1>7, <4>1 DEF size, m
        <3>9. ASSUME NEW m \in Modes, Clean(m)'
              PROVE  Clean(m) /\ LinesFit(m, r)'
            <4>1. Clean(m) /\ LinesFit(m, h) /\ Fits(m, d, new)
                BY <2>7, <3>9
            <4>2. \A e \in Dirs : AllFit(m, e, Database(e))
                BY <1>1, <4>1 DEF LinesFit, Copied
            <4>3. PICK dir \in Dirs : dir = d
                BY <1>3
            <4>4. \A i \in 1 .. Len(store) : store'[i] = store[i]
                <5>1. CASE dbInode[d] = 0
                    <6> DEFINE T == Seq(Line)
                    <6>1. store \in Seq(T) /\ none \in T
                        BY <1>7
                    <6> HIDE DEF T, none
                    <6>2. \A i \in 1 .. Len(store) : Append(store, none)[i] = store[i]
                        BY <6>1, AppendItems
                    <6>3. store' = Append(store, none)
                        BY <3>1, <5>1
                    <6> QED BY <6>2, <6>3
                <5>2. CASE dbInode[d] # 0
                    BY <3>1, <5>2
                <5> QED BY <5>1, <5>2
            <4>5. ASSUME NEW e \in Dirs
                  PROVE  Database(e)' = Database(e)
                <5>1. CASE e = dir /\ dbInode[d] = 0
                    <6>1. Database(e) = <<>>
                        BY <4>3, <5>1 DEF Database
                    <6>2. dbInode'[e] = size + 1 /\ store' = Append(store, none)
                        BY <1>7, <3>1, <4>3, <5>1 DEF inode
                    <6>3. store'[size + 1] = none
                        <7> DEFINE T == Seq(Line)
                        <7>1. store \in Seq(T) /\ none \in T
                            BY <1>7
                        <7> HIDE DEF T, none
                        <7>2. Append(store, none)[size + 1] = none
                            BY <7>1, AppendItems
                        <7> QED BY <6>2, <7>2
                    <6>4. Database(e)' = <<>>
                        BY <6>2, <6>3 DEF Database
                    <6> QED BY <6>1, <6>4
                <5>2. CASE ~(e = dir /\ dbInode[d] = 0)
                    <6>1. dbInode'[e] = dbInode[e]
                        BY <1>7, <3>1, <4>3, <5>2 DEF inode
                    <6>2. dbInode[e] \in 0 .. size
                        BY <1>7
                    <6>3. dbInode[e] # 0 => dbInode[e] \in 1 .. size
                        <7> HIDE DEF size
                        <7> QED BY <1>7, <6>2
                    <6>4. dbInode[e] # 0 => store'[dbInode[e]] = store[dbInode[e]]
                        BY <4>4, <6>3
                    <6> QED BY <6>1, <6>4 DEF Database
                <5> QED BY <5>1, <5>2
            <4>6. \A e \in Dirs : AllFit(m, e, Database(e))'
                BY <1>1, <2>8, <4>2, <4>5, SameFits
            <4>7. RunFits(m, r)'
                <5>1. PICK out \in Entry : out = new
                    BY <2>2
                <5>2. Range(Entries(out)) = {out}
                    BY EntriesOfEntry
                <5>3. AllFit(m, dir, out)
                    BY <4>1, <4>3, <5>1, <5>2 DEF AllFit
                <5>4. AllFit(m, dir, out)'
                    BY <1>1, <2>8, <5>3, AllFitSame
                <5>5. r.out = out /\ DirOf(r) = dir
                    BY <3>5, <4>3, <5>1 DEF DirOf
                <5> QED BY <3>5, <5>4, <5>5 DEF RunFits, AllFit
            <4> QED BY <4>1, <4>6, <4>7 DEF LinesFit
        <3> QED BY <1>2, <2>3, <3>5, <3>6, <3>7, <3>8, <3>9, OwnStep
    <2> QED BY <1>3, <2>5, <2>6
<1> QED BY <1>9, <1>10

LEMMA MadeFacts ==
    ASSUME disk \in [Dirs \X Files -> [text : AllTexts, time : Nat]], NEW d \in Dirs,
           NEW fs \in SUBSET Files
    PROVE  LET files == SetToSeq(fs)
               lines == Made(d, files)
           IN  /\ files \in Seq(Files) /\ lines \in Seq(Line)
               /\ \A e \in Range(Entries(lines)) : \E k \in DOMAIN files :
                    e = AddNewPages(files[k], disk[<<d, files[k]>>])
<1> DEFINE files == SetToSeq(fs)
           n == Cardinality(fs)
           m == Len(files)
           New(k) == AddNewPages(files[k], disk[<<d, files[k]>>])
           ps == [k \in DOMAIN files |-> New(k)]
<1>1. IsFiniteSet(fs)
    BY DatabaseAssumption, FS_Subset
<1>2. n \in Nat /\ ExistsBijection(1 .. n, fs)
    BY <1>1, FS_CardinalityType
<1>3. \E f \in [1 .. n -> fs] : IsInjective(f)
    BY <1>2 DEF ExistsBijection, Bijection, Injection
<1>4. files \in [1 .. n -> fs]
    BY <1>3 DEF SetToSeq
<1>5. files \in Seq(Files)
    <2>1. files \in [1 .. n -> Files]
        BY <1>4
    <2> HIDE DEF files, n
    <2> QED BY <1>2, <2>1
<1>6. DOMAIN files = 1 .. m /\ m \in Nat /\ \A k \in DOMAIN files : files[k] \in Files
    <2> HIDE DEF files
    <2> QED BY <1>5
<1>7. \A k \in DOMAIN files : New(k) \in Entry
    <2> TAKE k \in DOMAIN files
    <2>1. files[k] \in Files
        BY <1>6
    <2> HIDE DEF files
    <2> DEFINE f == files[k]
               there == disk[<<d, f>>]
    <2>2. there \in [text : AllTexts, time : Nat] /\ f \in Files
        <3>1. <<d, f>> \in Dirs \X Files
            BY <2>1
        <3> QED BY <2>1, <3>1
    <2> HIDE DEF f, there
    <2>3. AddNewPages(f, there) \in Entry
        BY <2>2, NewPagesFacts
    <2> QED BY <2>3 DEF f, there
<1>8. ps \in Seq(Piece) /\ Range(ps) = {New(k) : k \in DOMAIN files}
    <2>1. ps \in [1 .. m -> Piece]
        BY <1>6, <1>7 DEF Piece
    <2>2. Range(ps) = {New(k) : k \in DOMAIN files}
        BY DEF Range
    <2> HIDE DEF ps
    <2> QED BY <1>6, <2>1, <2>2
<1>9. Made(d, files) = FlattenSeq(ps)
    BY DEF Made
<1> HIDE DEF ps, files
<1>10. /\ FlattenSeq(ps) \in Seq(Line)
       /\ Range(Entries(FlattenSeq(ps))) = Range(ps) \ {<<>>}
    BY <1>8, FlattenEntries
<1>11. \A e \in Range(ps) : \E k \in DOMAIN files : e = New(k)
    BY <1>8
<1> QED BY <1>5, <1>9, <1>10, <1>11 DEF files

LEMMA InitKeeps ==
    ASSUME DatabaseInit
    PROVE  DatabaseInv
<1>1. PICK texts \in Disks :
        disk = [k \in Dirs \X Files |->
                   [text |-> texts[k], time |-> IF texts[k] = <<>> THEN 0 ELSE 1]]
    BY DEF DatabaseInit
<1>2. PICK d \in Dirs, fs \in SUBSET Files :
        /\ \A k \in DOMAIN SetToSeq(fs) : disk[<<d, SetToSeq(fs)[k]>>].time # 0
        /\ store = <<Made(d, SetToSeq(fs))>>
        /\ dbInode = [e \in Dirs |-> IF e = d THEN 1 ELSE 0]
    <2>1. PICK d \in Dirs, files \in {SetToSeq(fs) : fs \in SUBSET Files} :
            /\ \A k \in DOMAIN files :
                 disk[<<d, files[k]>>].time # 0 /\ ~Breaks(disk[<<d, files[k]>>].text)
            /\ store = <<Made(d, files)>>
            /\ dbInode = [e \in Dirs |-> IF e = d THEN 1 ELSE 0]
        BY DEF DatabaseInit
    <2> QED BY <2>1
<1>3. /\ tempInode = 0 /\ htadd = [a \in Adders |-> Idle] /\ clock = 1
      /\ past = [overlapped |-> FALSE, foreign |-> FALSE, cut |-> FALSE, quick |-> FALSE,
                 edits |-> 0]
    BY DEF DatabaseInit
<1>4. disk \in [Dirs \X Files -> [text : AllTexts, time : Nat]]
    <2>1. \A k \in Dirs \X Files : texts[k] \in AllTexts
        BY DEF AllTexts
    <2> DEFINE Time(k) == IF texts[k] = <<>> THEN 0 ELSE 1
    <2>2. \A k \in Dirs \X Files : Time(k) \in Nat
        OBVIOUS
    <2>3. disk = [k \in Dirs \X Files |-> [text |-> texts[k], time |-> Time(k)]]
        BY <1>1
    <2> HIDE DEF Time
    <2> QED BY <2>1, <2>2, <2>3
<1>12. \A k \in Dirs \X Files : disk[k].time <= clock
    BY <1>1, <1>3
<1> DEFINE made == Made(d, SetToSeq(fs))
<1>5. made \in Seq(Line)
    BY <1>4, MadeFacts
<1>6. store \in Seq(Seq(Line)) /\ Len(store) = 1
    <2> DEFINE T == Seq(Line)
    <2>1. made \in T /\ store = <<made>>
        BY <1>2, <1>5
    <2> HIDE DEF T, made
    <2>2. store \in Seq(T) /\ Len(store) = 1
        BY <2>1
    <2> QED BY <2>2 DEF T
<1>7. \A a \in Adders : htadd[a] \in Run /\ htadd[a].at = "off" /\ ~htadd[a].alone
    BY <1>3, IdleFacts
<1>8. DatabaseTypeOK
    <2>1. htadd \in [Adders -> Run]
        BY <1>3, IdleFacts
    <2>2. clock \in Nat
        BY <1>3
    <2>3. /\ past \in [overlapped : BOOLEAN, foreign : BOOLEAN, cut : BOOLEAN, quick : BOOLEAN,
                 edits : Nat]
        BY <1>3
    <2>4. dbInode \in [Dirs -> 0 .. Len(store)] /\ tempInode \in 0 .. Len(store)
        BY <1>2, <1>3, <1>6
    <2> QED BY <1>4, <1>6, <1>12, <2>1, <2>2, <2>3, <2>4 DEF DatabaseTypeOK
<1>9. OnlyOne /\ InodesApart
    BY <1>2, <1>3, <1>7 DEF OnlyOne, InodesApart, Adding, Ended
<1>10. \A a \in Adders : Opened(htadd[a])
    BY <1>7 DEF Opened, Steps
<1>11. RunsOK
    BY <1>7 DEF RunsOK, LeftOK, StepOK, Steps
<1>13. ASSUME NEW m \in Modes, NEW e \in Dirs
       PROVE  AllFit(m, e, Database(e))
    <2>1. CASE e = d
        <3> DEFINE files == SetToSeq(fs)
        <3>1. Database(e) = made
            <4> HIDE DEF made
            <4> QED BY <1>2, <2>1 DEF Database, made
        <3>2. /\ files \in Seq(Files)
              /\ \A x \in Range(Entries(made)) : \E k \in DOMAIN files :
                    x = AddNewPages(files[k], disk[<<d, files[k]>>])
            BY <1>4, MadeFacts
        <3>3. \A k \in DOMAIN files : files[k] \in Files /\ disk[<<d, files[k]>>].time # 0
            <4>1. \A k \in DOMAIN files : disk[<<d, files[k]>>].time # 0
                BY <1>2
            <4> HIDE DEF files
            <4> QED BY <3>2, <4>1
        <3> HIDE DEF made, files
        <3>4. \A x \in Range(Entries(made)) : Fits(m, d, x)
            <4> TAKE x \in Range(Entries(made))
            <4>1. PICK k \in DOMAIN files : x = AddNewPages(files[k], disk[<<d, files[k]>>])
                BY <3>2
            <4>2. PICK f \in Files : f = files[k]
                BY <3>3
            <4>3. x = AddNewPages(f, disk[<<d, f>>]) /\ disk[<<d, f>>].time # 0
                BY <3>3, <4>1, <4>2
            <4> QED BY <1>8, <4>3, NewIsExact
        <3> QED BY <2>1, <3>1, <3>4 DEF AllFit
    <2>2. CASE e # d
        <3>1. Database(e) = <<>>
            BY <1>2, <2>2 DEF Database
        <3>2. AllFit(m, e, <<>>)
            BY FitNone
        <3> QED BY <3>1, <3>2
    <2> QED BY <2>1, <2>2
<1>14. LinesOK
    BY <1>7, <1>13 DEF LinesOK, RunFits
<1> QED BY <1>8, <1>9, <1>10, <1>11, <1>14 DEF DatabaseInv, FilesGood

LEMMA NextKeeps ==
    ASSUME DatabaseInv, [DatabaseNext]_databaseVars
    PROVE  DatabaseInv'
<1>1. ASSUME NEW a \in Adders, Start(a)
      PROVE  DatabaseInv'
    BY <1>1, StartKeeps
<1>2. ASSUME NEW a \in Adders, NextFile(a)
      PROVE  DatabaseInv'
    BY <1>2, DeleteFileKeeps, AddFileKeeps
<1>3. ASSUME NEW a \in Adders, Finish(a)
      PROVE  DatabaseInv'
    BY <1>3, FinishKeeps
<1>4. ASSUME NEW a \in Adders, Close(a)
      PROVE  DatabaseInv'
    BY <1>4, CloseKeeps
<1>5. ASSUME NEW a \in Adders, CopyOpen(a)
      PROVE  DatabaseInv'
    BY <1>5, CopyOpenKeeps
<1>6. ASSUME NEW a \in Adders, CopyBlock(a)
      PROVE  DatabaseInv'
    BY <1>6, CopyBlockKeeps
<1>7. ASSUME NEW a \in Adders, Unlink(a)
      PROVE  DatabaseInv'
    BY <1>7, UnlinkKeeps
<1>8. ASSUME NEW a \in Adders, Kill(a)
      PROVE  DatabaseInv'
    BY <1>8, KillKeeps
<1>9. ASSUME NEW k \in Edited, Edit(k)
      PROVE  DatabaseInv'
    BY <1>9, EditKeeps, DatabaseAssumption
<1>10. CASE UNCHANGED databaseVars
    <2>1. UNCHANGED <<disk, store, dbInode, tempInode, htadd, clock, past>>
        BY <1>10 DEF databaseVars
    <2>2. DatabaseTypeOK' /\ OnlyOne' /\ InodesApart'
        BY <2>1 DEF DatabaseInv, FilesGood, DatabaseTypeOK, OnlyOne, InodesApart, Adding
    <2>3. ASSUME NEW a \in Adders
          PROVE  /\ Opened(htadd[a])' /\ LeftOK(htadd'[a])
                 /\ Undisturbed(a)' => StepOK(htadd[a])'
                 /\ htadd'[a].alone /\ ~Fresh(htadd'[a]) => KeptOK(htadd[a])'
        <3>1. /\ Opened(htadd[a]) /\ LeftOK(htadd[a])
              /\ Undisturbed(a) => StepOK(htadd[a])
              /\ htadd[a].alone /\ ~Fresh(htadd[a]) => KeptOK(htadd[a])
            BY DEF DatabaseInv, FilesGood, RunsOK
        <3>2. Opened(htadd[a])' /\ LeftOK(htadd'[a])
            BY <2>1, <3>1 DEF Opened
        <3>3. Undisturbed(a)' => StepOK(htadd[a])'
            BY <2>1, <3>1 DEF Undisturbed, StepOK, DirOf, Fresh
        <3>4. KeptOK(htadd[a]) => KeptOK(htadd[a])'
            BY <2>1 DEF KeptOK, Database, DirOf
        <3> QED BY <2>1, <3>1, <3>2, <3>3, <3>4
    <2>4. LinesOK'
        <3>1. LinesOK
            BY DEF DatabaseInv
        <3>2. \A m \in Modes : Clean(m)' => Clean(m)
            BY <2>1 DEF Clean
        <3>3. ASSUME NEW m \in Modes, Clean(m)'
              PROVE  /\ \A d \in Dirs : AllFit(m, d, Database(d))' \/ \E a \in Adders : Copied(m, htadd[a], d)'
                     /\ \A a \in Adders : RunFits(m, htadd[a])'
            <4>1. /\ \A d \in Dirs : AllFit(m, d, Database(d)) \/ \E a \in Adders : Copied(m, htadd[a], d)
                  /\ \A a \in Adders : RunFits(m, htadd[a])
                BY <3>1, <3>2, <3>3 DEF LinesOK
            <4>2. \A d \in Dirs : Database(d)' = Database(d)
                BY <2>1 DEF Database
            <4>3. past'.edits = past.edits /\ UNCHANGED disk
                BY <2>1
            <4>4. \A d \in Dirs : AllFit(m, d, Database(d)) => AllFit(m, d, Database(d))'
                BY <4>2, <4>3, SameFits
            <4>5. \A d \in Dirs, a \in Adders : Copied(m, htadd[a], d) => Copied(m, htadd[a], d)'
                BY <2>1 DEF Copied, DirOf
            <4>6. ASSUME NEW a \in Adders
                  PROVE  RunFits(m, htadd[a])'
                <5>1. PICK dir : dir = DirOf(htadd[a])
                    OBVIOUS
                <5>2. PICK out, temp, from :
                        out = htadd[a].out /\ temp = store[tempInode] /\ from = store[htadd[a].from]
                    OBVIOUS
                <5>3. /\ AllFit(m, dir, out) => AllFit(m, dir, out)'
                      /\ AllFit(m, dir, temp) => AllFit(m, dir, temp)'
                      /\ AllFit(m, dir, from) => AllFit(m, dir, from)'
                    BY <4>3, AllFitSame
                <5>4. /\ htadd'[a].at = "flush" => AllFit(m, dir, out)'
                      /\ htadd'[a].at = "copy" => AllFit(m, dir, temp)'
                      /\ htadd'[a].at = "blocks" => AllFit(m, dir, from)'
                    BY <2>1, <4>1, <5>1, <5>2, <5>3 DEF RunFits
                <5>5. htadd'[a].out = out /\ store'[tempInode'] = temp
                      /\ store'[htadd'[a].from] = from /\ DirOf(htadd'[a]) = dir
                    BY <2>1, <5>1, <5>2 DEF DirOf
                <5> QED BY <5>4, <5>5 DEF RunFits, AllFit
            <4> QED BY <4>1, <4>4, <4>5, <4>6
        <3> QED BY <3>3 DEF LinesOK, Modes
    <2> QED BY <2>2, <2>3, <2>4 DEF DatabaseInv, FilesGood, RunsOK
<1> QED BY <1>1, <1>2, <1>3, <1>4, <1>5, <1>6, <1>7, <1>8, <1>9, <1>10 DEF DatabaseNext

(***************************************************************************)
(* The first theorem.                                                      *)
(***************************************************************************)
LEMMA KeptIsEnough ==
    ASSUME DatabaseInv
    PROVE  OthersKept
<1> SUFFICES ASSUME NEW a \in Adders, htadd[a].alone, htadd[a].at \in {"done", "exited"},
                    htadd[a].cmd.op # "fresh"
             PROVE  LET h == htadd[a]
                        now == Database(h.cmd.dir)
                    IN  /\ \A f \in Files \ NamesOf(h.cmd) :
                            ListingsOf(now, f) = ListingsOf(h.before, f)
                        /\ h.at = "done" => \A k \in DOMAIN h.cmd.names :
                            LET n == h.cmd.names[k]
                            IN  IF h.cmd.op = "add" THEN Cardinality(ListingsOf(now, n.file)) = 1
                                ELSE n.dir = Nowhere => ListingsOf(now, n.file) = {}
    BY DEF OthersKept
<1> DEFINE h == htadd[a]
           names == h.cmd.names
           m == Len(names)
           now == Database(DirOf(h))
<1>1. KeptOK(h) /\ Opened(h)
    BY DEF DatabaseInv, FilesGood, RunsOK, Fresh
<1>2. h.cmd \in Uses
    BY <1>1 DEF Opened
<1>3. h.cmd.op \in {"add", "delete"} /\ DOMAIN names = 1 .. m /\ m \in Nat
    <2>1. names \in Seq(FileName) /\ h.cmd.op \in {"add", "delete", "fresh"}
        BY <1>2, UseFacts
    <2> QED BY <2>1
<1>4. \E p \in 0 .. m : Others(h, now, p)
    <2>1. CASE h.at = "done"
        <3>1. Others(h, now, m)
            BY <1>1, <2>1 DEF KeptOK, Kept
        <3>2. m \in 0 .. m
            BY <1>3
        <3> QED BY <3>1, <3>2
    <2>2. CASE h.at = "exited"
        BY <1>1, <2>2 DEF KeptOK
    <2> QED BY <2>1, <2>2
<1>5. PICK p \in 0 .. m : Others(h, now, p)
    BY <1>4
<1>6. ASSUME NEW f \in Files \ NamesOf(h.cmd)
      PROVE  ListingsOf(now, f) = ListingsOf(h.before, f)
    <2>1. 1 .. p \subseteq 1 .. m
        <3> HIDE DEF m
        <3> QED BY <1>3
    <2>2. \A k \in 1 .. p : names[k].file # f
        BY <1>3, <1>6, <2>1 DEF NamesOf
    <2> QED BY <1>5, <2>2 DEF Others
<1>7. ASSUME h.at = "done", NEW k \in DOMAIN names
      PROVE  IF h.cmd.op = "add" THEN Cardinality(ListingsOf(now, names[k].file)) = 1
             ELSE names[k].dir = Nowhere => ListingsOf(now, names[k].file) = {}
    <2>1. Done(h, now, k)
        BY <1>1, <1>3, <1>7 DEF KeptOK, Kept
    <2>2. CASE h.cmd.op = "add"
        <3>1. PICK e : ListingsOf(now, names[k].file) = {e}
            BY <2>1, <2>2 DEF Done
        <3>2. Cardinality({e}) = 1
            BY FS_Singleton
        <3> QED BY <2>2, <3>1, <3>2
    <2>3. CASE h.cmd.op = "delete"
        BY <2>1, <2>3 DEF Done
    <2> QED BY <1>3, <2>2, <2>3
<1> QED BY <1>6, <1>7 DEF DirOf

(***************************************************************************)
(* A run of htadd that met no other changes the listings of its files and  *)
(* of no other: one listing of each file it added, none of one it deleted. *)
(***************************************************************************)
THEOREM OthersAlwaysKept == DatabaseSpec => []OthersKept
<1>1. DatabaseInit => DatabaseInv
    BY InitKeeps
<1>2. DatabaseInv /\ [DatabaseNext]_databaseVars => DatabaseInv'
    BY NextKeeps
<1>3. DatabaseInv => OthersKept
    BY KeptIsEnough
<1> QED BY <1>1, <1>2, <1>3, PTL DEF DatabaseSpec

(***************************************************************************)
(* What hthits takes for a page.                                           *)
(***************************************************************************)
LEMMA OneItem ==
    ASSUME NEW S, NEW s \in Seq(S), Len(s) >= 1
    PROVE  SubSeq(s, 1, 1) = <<s[1]>> /\ (Len(s) = 1 => s = <<s[1]>>)
<1> DEFINE t == SubSeq(s, 1, 1)
           x == s[1]
           n == Len(s)
<1>1. x \in S /\ n \in Nat /\ n >= 1 /\ DOMAIN s = 1 .. n /\ s = [i \in 1 .. n |-> s[i]]
    OBVIOUS
<1>2. t \in Seq(S) /\ Len(t) = 1 /\ t[1] = x
    <2>1. \A i \in 1 .. 1 : s[i] \in S
        BY <1>1
    <2>2. /\ t \in Seq(S) /\ Len(t) = (IF 1 <= 1 THEN 1 - 1 + 1 ELSE 0)
          /\ \A i \in 1 .. 1 - 1 + 1 : t[i] = s[1 + i - 1]
        BY <2>1, SubSeqProperties
    <2> HIDE DEF t
    <2> QED BY <2>2
<1> HIDE DEF t, x
<1>3. t = <<x>>
    BY <1>2
<1>4. n = 1 => s = <<x>>
    BY <1>1 DEF x
<1> QED BY <1>3, <1>4 DEF t, x, n

LEMMA SliceFacts ==
    ASSUME DatabaseTypeOK, NEW d \in Dirs, NEW f \in Files, disk[<<d, f>>].time # 0,
           NEW e, e = AddNewPages(f, disk[<<d, f>>])
    PROVE  LET text == disk[<<d, e[1].name>>].text
           IN  /\ disk[<<d, e[1].name>>].time # 0
               /\ \A p \in HandleFile(e, Len(text)) :
                    LET page == <<[kind |-> "page", name |-> p.name]>>
                    IN  IF Breaks(text) THEN IsPrefix(page, HandlePage(text, p))
                        ELSE HandlePage(text, p) = page
<1> DEFINE there == disk[<<d, f>>]
           text == there.text
           n == Len(text)
           m == Len(e)
           D == [kind : Kinds \union {"broken"}, name : Names]
<1>1. there \in [text : AllTexts, time : Nat]
    <2>1. <<d, f>> \in Dirs \X Files
        OBVIOUS
    <2> QED BY <2>1 DEF DatabaseTypeOK
<1>2. text \in AllTexts
    <2> HIDE DEF there
    <2> QED BY <1>1
<1>3. text \in Seq(D)
    BY <1>2, DatabaseAssumption
<1>4. /\ e \in Entry /\ e[1] = DbLine("file", f, there.time)
      /\ m = Len(Readable(text)) + 1
      /\ \A i \in 2 .. m :
            /\ e[i].kind \in Kinds /\ e[i].at = i - 1 /\ i - 1 \in 1 .. n
            /\ text[i - 1] = [kind |-> e[i].kind, name |-> e[i].name]
    <2> HIDE DEF there
    <2> QED BY <1>1, NewPagesFacts DEF there
<1>5. e[1].name = f /\ e[1].kind = "file"
    BY <1>4 DEF DbLine
<1>6. n \in Nat /\ m \in Nat /\ DOMAIN e = 1 .. m
    <2>1. n \in Nat
        <3> HIDE DEF text
        <3> QED BY <1>3
    <2> QED BY <1>4, <2>1 DEF Entry
<1>7. ~Breaks(text) => m = n + 1
    BY <1>4 DEF Breaks
<1> HIDE DEF D
<1>8. ASSUME NEW p \in HandleFile(e, n)
      PROVE  LET page == <<[kind |-> "page", name |-> p.name]>>
             IN  IF Breaks(text) THEN IsPrefix(page, HandlePage(text, p))
                 ELSE HandlePage(text, p) = page
    <2> DEFINE End(i) == IF i < m THEN e[i + 1].at ELSE n + 1
               line == [kind |-> "page", name |-> p.name]
    <2>1. PICK i \in DOMAIN e : /\ e[i].kind = "page" /\ p.name = e[i].name
                                /\ p.start = e[i].at /\ p.size = End(i) - e[i].at
        BY DEF HandleFile
    <2>2. i \in 2 .. m
        <3>1. i # 1
            BY <1>5, <2>1
        <3> HIDE DEF m
        <3> QED BY <1>6, <2>1, <3>1
    <2>3. i - 1 \in 1 .. n /\ e[i].at = i - 1 /\ text[i - 1] = line
        BY <1>4, <2>1, <2>2
    <2>4. End(i) = i \/ (End(i) = n + 1 /\ i = m)
        <3>1. CASE i < m
            <4>1. i + 1 \in 2 .. m /\ (i + 1) - 1 = i
                <5> HIDE DEF m
                <5> QED BY <1>6, <2>2, <3>1
            <4>2. e[i + 1].at = (i + 1) - 1
                BY <1>4, <4>1
            <4> QED BY <3>1, <4>1, <4>2
        <3>2. CASE ~(i < m)
            <4>1. i = m
                <5> HIDE DEF m
                <5> QED BY <1>6, <2>2, <3>2
            <4> QED BY <3>2, <4>1
        <3> QED BY <3>1, <3>2
    <2>5. PICK s \in Nat : s = i - 1
        <3> HIDE DEF n, m
        <3> QED BY <1>6, <2>3
    <2>6. s \in 1 .. n /\ p.start = s /\ text[s] = line
        BY <2>1, <2>3, <2>5
    <2>7. p.start + p.size - 1 = End(i) - 1
        <3>1. End(i) \in Nat
            <4> HIDE DEF End, m, n
            <4> QED BY <1>6, <2>2, <2>4
        <3> HIDE DEF End
        <3> QED BY <2>1, <2>5, <2>3, <3>1
    <2>8. HandlePage(text, p) = SubSeq(text, s, End(i) - 1)
        BY <2>6, <2>7 DEF HandlePage
    <2>9. End(i) - 1 \in s .. n /\ (~Breaks(text) => End(i) - 1 = s)
        <3> HIDE DEF End, n, m
        <3> QED BY <1>6, <1>7, <2>2, <2>3, <2>4, <2>5
    <2> DEFINE last == End(i) - 1
               page == <<line>>
               slice == SubSeq(text, s, last)
    <2> HIDE DEF End, line
    <2>10. /\ slice \in Seq(D) /\ Len(slice) = (IF s <= last THEN last - s + 1 ELSE 0)
           /\ \A j \in 1 .. last - s + 1 : slice[j] = text[s + j - 1]
        <3>1. \A j \in s .. last : text[j] \in D
            <4>1. \A j \in 1 .. n : text[j] \in D
                <5> HIDE DEF text
                <5> QED BY <1>3
            <4> HIDE DEF text, n
            <4> QED BY <1>6, <2>6, <2>9, <4>1
        <3> HIDE DEF text
        <3> QED BY <2>5, <2>9, <3>1, SubSeqProperties
    <2> HIDE DEF slice, last
    <2>11. slice[1] = line /\ Len(slice) \in Nat /\ Len(slice) >= 1
           /\ (~Breaks(text) => Len(slice) = 1)
        <3>1. last \in Nat /\ s <= last /\ (~Breaks(text) => last = s)
            <4> HIDE DEF n, text
            <4> QED BY <1>6, <2>5, <2>9 DEF last
        <3>2. Len(slice) = last - s + 1
            BY <2>10, <3>1
        <3>3. 1 \in 1 .. last - s + 1 /\ s + 1 - 1 = s
            BY <2>5, <3>1
        <3>4. slice[1] = text[s]
            BY <2>10, <3>3
        <3> HIDE DEF text
        <3> QED BY <2>5, <2>6, <3>1, <3>2, <3>4
    <2>12. CASE ~Breaks(text)
        <3>1. slice = page
            <4> HIDE DEF text
            <4> QED BY <2>10, <2>11, <2>12, OneItem
        <3> QED BY <2>8, <2>12, <3>1 DEF slice, last, line
    <2>13. CASE Breaks(text)
        <3>1. line \in D
            BY <2>6, <1>3
        <3>2. IsPrefix(page, slice)
            <4> HIDE DEF text
            <4>1. SubSeq(slice, 1, 1) = page
                BY <2>10, <2>11, OneItem
            <4>2. SubSeq(page, 1, 1) = page /\ Len(page) = 1
                <5>1. page \in Seq(D) /\ Len(page) = 1 /\ page[1] = line
                    BY <3>1
                <5>2. PICK q \in Seq(D) : q = page
                    BY <5>1
                <5>3. Len(q) = 1 /\ q[1] = line
                    BY <5>1, <5>2
                <5>4. SubSeq(q, 1, 1) = <<q[1]>>
                    BY <5>3, OneItem
                <5> QED BY <5>1, <5>2, <5>3, <5>4
            <4> QED BY <2>11, <4>1, <4>2 DEF IsPrefix
        <3> QED BY <2>8, <2>13, <3>2 DEF slice, last, line
    <2> QED BY <2>12, <2>13
<1> QED BY <1>5, <1>8

LEMMA HitsAreRight ==
    ASSUME DatabaseInv
    PROVE  HitsArePages
<1> SUFFICES ASSUME NEW d \in Dirs, dbInode[d] # 0, ~past.overlapped, ~past.foreign,
                    ~past.cut, past.edits = 0, Adding = {}
             PROVE  LET hits == Hthits(d)
                        listed == Entries(Database(d))
                    IN  /\ ~hits.exits
                        /\ \A k \in DOMAIN listed : \A p \in hits.slices[k] :
                            LET text == disk[<<d, listed[k][1].name>>].text
                                page == <<[kind |-> "page", name |-> p.name]>>
                            IN  IF Breaks(text) THEN IsPrefix(page, HandlePage(text, p))
                                ELSE HandlePage(text, p) = page
    BY DEF HitsArePages
<1>1. Clean("exact") /\ "exact" \in Modes
    BY DEF Clean, Modes
<1>2. AllFit("exact", d, Database(d))
    <2>1. \A a \in Adders : htadd[a].at # "blocks"
        BY DEF Adding, Ended
    <2> QED BY <1>1, <2>1 DEF DatabaseInv, LinesOK, Copied
<1>3. DatabaseTypeOK
    BY StateFacts
<1>4. PICK listed : listed = Entries(Database(d))
    OBVIOUS
<1>5. listed = Entries(store[dbInode[d]])
    BY <1>4 DEF Database
<1> DEFINE There(k) == disk[<<d, listed[k][1].name>>]
<1>6. ASSUME NEW k \in DOMAIN listed
      PROVE  /\ There(k).time # 0
             /\ \A p \in HandleFile(listed[k], Len(There(k).text)) :
                    LET page == <<[kind |-> "page", name |-> p.name]>>
                    IN  IF Breaks(There(k).text) THEN IsPrefix(page, HandlePage(There(k).text, p))
                        ELSE HandlePage(There(k).text, p) = page
    <2>1. PICK e : e = listed[k]
        OBVIOUS
    <2>2. e \in Range(listed)
        BY <2>1 DEF Range
    <2>3. Exact(d, e)
        BY <1>2, <1>4, <2>2 DEF AllFit, Fits
    <2>4. PICK f \in Files : disk[<<d, f>>].time # 0 /\ e = AddNewPages(f, disk[<<d, f>>])
        BY <2>3 DEF Exact
    <2> QED BY <1>3, <2>1, <2>4, SliceFacts
<1>7. /\ Hthits(d).exits <=> \E k \in DOMAIN listed : There(k).time = 0
      /\ Hthits(d).slices = [k \in DOMAIN listed |-> HandleFile(listed[k], Len(There(k).text))]
    BY <1>5 DEF Hthits
<1> HIDE DEF There
<1>8. PICK hits : hits = Hthits(d)
    OBVIOUS
<1>9. \A k \in DOMAIN listed : hits.slices[k] = HandleFile(listed[k], Len(There(k).text))
    BY <1>7, <1>8
<1>10. ~hits.exits
    BY <1>6, <1>7, <1>8
<1>11. \A k \in DOMAIN listed : \A p \in hits.slices[k] :
        LET page == <<[kind |-> "page", name |-> p.name]>>
        IN  IF Breaks(There(k).text) THEN IsPrefix(page, HandlePage(There(k).text, p))
            ELSE HandlePage(There(k).text, p) = page
    BY <1>6, <1>9
<1> QED BY <1>4, <1>8, <1>10, <1>11 DEF There

(***************************************************************************)
(* What read_ht_file has come to after some lines: it takes the first      *)
(* listing of each file.                                                   *)
(***************************************************************************)
LastHead(es) == es[Len(es)][1]
HeadNames(es) == {es[n][1].name : n \in DOMAIN es}
Reading(es) == es # <<>> /\ Len(es) \in FirstListings(es)
Current(es) == IF es = <<>> THEN "none" ELSE IF Reading(es) THEN LastHead(es).name ELSE "skipped"

\* The line x stands in the first listing of the file with the head h.
Told(es, h, x) ==
    \E n \in FirstListings(es) : \E i \in 2 .. Len(es[n]) : h = es[n][1] /\ x = es[n][i]

LEMMA NothingRead ==
    /\ ~Reading(<<>>) /\ HeadNames(<<>>) = {} /\ Current(<<>>) = "none"
    /\ \A h, x \in Line : ~Told(<<>>, h, x)
<1> DEFINE none == <<>>
<1>1. DOMAIN none = {}
    OBVIOUS
<1>2. FirstListings(none) = {} /\ HeadNames(none) = {}
    BY <1>1 DEF FirstListings, HeadNames
<1> QED BY <1>2 DEF Reading, Current, Told

\* A file line begins a listing.
LEMMA NewListing ==
    ASSUME NEW es \in Seq(Entry), NEW line \in Line, line.kind = "file"
    PROVE  LET fs == AddLine(es, line)
               seen == line.name \in HeadNames(es)
           IN  /\ fs # <<>> /\ HeadNames(fs) = HeadNames(es) \union {line.name}
               /\ LastHead(fs) = line /\ Reading(fs) = ~seen
               /\ \A h, x \in Line : Told(fs, h, x) <=> Told(es, h, x)
<1> DEFINE fs == AddLine(es, line)
           e == <<line>>
           m == Len(es)
<1>1. e \in Entry /\ Len(e) = 1 /\ e[1] = line
    BY NewEntry
<1>2. fs = Append(es, e)
    BY DEF AddLine
<1> HIDE DEF fs, e
<1>3. /\ m \in Nat /\ fs \in Seq(Entry) /\ Len(fs) = m + 1 /\ fs # <<>> /\ fs[m + 1] = e
      /\ DOMAIN es = 1 .. m /\ DOMAIN fs = 1 .. m + 1
      /\ \A i \in 1 .. m : fs[i] = es[i]
    <2>1. /\ fs \in Seq(Entry) /\ Len(fs) = m + 1 /\ fs # <<>> /\ fs[m + 1] = e
          /\ \A i \in 1 .. m : fs[i] = es[i]
        BY <1>1, <1>2, AppendItems
    <2> QED BY <2>1
<1> HIDE DEF m
<1>4. 1 .. m + 1 = (1 .. m) \union {m + 1} /\ m + 1 \notin 1 .. m /\ 1 .. (m + 1) - 1 = 1 .. m
    BY <1>3
<1>5. HeadNames(fs) = HeadNames(es) \union {line.name}
    BY <1>1, <1>3, <1>4 DEF HeadNames
<1>6. LastHead(fs) = line
    BY <1>1, <1>3 DEF LastHead
<1>7. m + 1 \in FirstListings(fs) <=> line.name \notin HeadNames(es)
    <2>1. fs[m + 1][1].name = line.name
        BY <1>1, <1>3
    <2> QED BY <1>3, <1>4, <2>1 DEF FirstListings, HeadNames
<1>8. ASSUME NEW n \in 1 .. m
      PROVE  n \in FirstListings(fs) <=> n \in FirstListings(es)
    <2>1. n \in 1 .. m + 1 /\ \A k \in 1 .. n - 1 : k \in 1 .. m
        BY <1>3
    <2> QED BY <1>3, <2>1 DEF FirstListings
<1>9. ASSUME NEW h \in Line, NEW x \in Line
      PROVE  Told(fs, h, x) <=> Told(es, h, x)
    <2>1. ASSUME Told(fs, h, x)
          PROVE  Told(es, h, x)
        <3>0. PICK n \in FirstListings(fs) : \E i \in 2 .. Len(fs[n]) : h = fs[n][1] /\ x = fs[n][i]
            BY <2>1 DEF Told
        <3>1. PICK i \in 2 .. Len(fs[n]) : h = fs[n][1] /\ x = fs[n][i]
            BY <3>0
        <3>2. n \in 1 .. m \/ n = m + 1
            BY <1>3, <1>4 DEF FirstListings
        <3>3. ASSUME n = m + 1
              PROVE  FALSE
            <4>1. Len(fs[n]) = 1
                BY <1>1, <1>3, <3>3
            <4>2. i \in 2 .. 1
                BY <3>1, <4>1
            <4> QED BY <4>2
        <3> QED BY <1>3, <1>8, <3>1, <3>2, <3>3 DEF Told
    <2>2. ASSUME Told(es, h, x)
          PROVE  Told(fs, h, x)
        <3>0. PICK n \in FirstListings(es) : \E i \in 2 .. Len(es[n]) : h = es[n][1] /\ x = es[n][i]
            BY <2>2 DEF Told
        <3>1. PICK i \in 2 .. Len(es[n]) : h = es[n][1] /\ x = es[n][i]
            BY <3>0
        <3>2. n \in 1 .. m
            BY <1>3 DEF FirstListings
        <3> QED BY <1>3, <1>8, <3>1, <3>2 DEF Told
    <2> QED BY <2>1, <2>2
<1>10. Reading(fs) <=> m + 1 \in FirstListings(fs)
    BY <1>3 DEF Reading
<1> QED BY <1>3, <1>5, <1>6, <1>7, <1>9, <1>10 DEF fs, Reading

\* Another line belongs to the last listing.
LEMMA NextLine ==
    ASSUME NEW es \in Seq(Entry), es # <<>>, NEW line \in Line, line.kind # "file"
    PROVE  LET fs == AddLine(es, line)
           IN  /\ fs # <<>> /\ HeadNames(fs) = HeadNames(es)
               /\ LastHead(fs) = LastHead(es) /\ LastHead(es) \in Line
               /\ (Reading(fs) <=> Reading(es))
               /\ \A h, x \in Line :
                    Told(fs, h, x) <=> \/ Told(es, h, x)
                                       \/ Reading(es) /\ h = LastHead(es) /\ x = line
<1> DEFINE fs == AddLine(es, line)
           m == Len(es)
           e == es[m]
           t == Append(e, line)
           k == Len(e)
<1>1. m \in Nat /\ m # 0 /\ m \in 1 .. m /\ DOMAIN es = 1 .. m /\ e \in Entry
    <2>1. m \in Nat /\ m # 0 /\ DOMAIN es = 1 .. m /\ \A i \in 1 .. m : es[i] \in Entry
        BY EmptySeq
    <2> HIDE DEF m
    <2> QED BY <2>1
<1>2. fs = [es EXCEPT ![m] = t]
    BY DEF AddLine
<1> HIDE DEF m, fs
<1>3. /\ t \in Entry /\ Len(t) = k + 1 /\ t[k + 1] = line /\ \A i \in 1 .. k : t[i] = e[i]
    BY <1>1, LongerEntry
<1>4. k \in Nat /\ k # 0 /\ e[1] \in Line
    <2>1. e \in Seq(Line) /\ e # <<>>
        BY <1>1 DEF Entry
    <2> HIDE DEF e
    <2> QED BY <2>1
<1> HIDE DEF t, k
<1>5. DOMAIN fs = 1 .. m /\ Len(fs) = m /\ fs # <<>> /\ fs[m] = t
      /\ \A i \in 1 .. m : i # m => fs[i] = es[i]
    <2>1. DOMAIN fs = 1 .. m /\ fs[m] = t /\ \A i \in 1 .. m : i # m => fs[i] = es[i]
        BY <1>1, <1>2
    <2>2. fs \in Seq(Entry)
        BY AddLineFacts DEF fs
    <2>3. Len(fs) = m
        BY <1>1, <2>1, <2>2
    <2> QED BY <1>1, <2>1, <2>2, <2>3
<1>6. t[1] = e[1] /\ \A i \in 1 .. m : fs[i][1] = es[i][1]
    <2>1. t[1] = e[1]
        BY <1>3, <1>4
    <2> QED BY <1>5, <2>1
<1>7. FirstListings(fs) = FirstListings(es)
    <2>1. \A n \in 1 .. m : \A j \in 1 .. n - 1 : j \in 1 .. m
        BY <1>1
    <2> QED BY <1>1, <1>5, <1>6, <2>1 DEF FirstListings
<1>8. HeadNames(fs) = HeadNames(es) /\ LastHead(fs) = LastHead(es) /\ LastHead(es) \in Line
    <2>1. HeadNames(fs) = {fs[i][1].name : i \in 1 .. m}
        BY <1>5 DEF HeadNames
    <2>2. HeadNames(es) = {es[i][1].name : i \in 1 .. m}
        BY <1>1 DEF HeadNames
    <2>3. LastHead(fs) = t[1] /\ LastHead(es) = e[1]
        BY <1>5 DEF LastHead, m
    <2> QED BY <1>4, <1>6, <2>1, <2>2, <2>3
<1>9. Reading(fs) <=> Reading(es)
    BY <1>1, <1>5, <1>7 DEF Reading, m
<1>10. Reading(es) <=> m \in FirstListings(es)
    BY DEF Reading, m
<1>11. LastHead(es) = e[1]
    BY DEF LastHead, m
<1>12. ASSUME NEW h \in Line, NEW x \in Line
       PROVE  Told(fs, h, x) <=> \/ Told(es, h, x)
                                 \/ Reading(es) /\ h = LastHead(es) /\ x = line
    <2>1. ASSUME Told(fs, h, x)
          PROVE  \/ Told(es, h, x)
                 \/ Reading(es) /\ h = LastHead(es) /\ x = line
        <3>0. PICK n \in FirstListings(fs) : \E i \in 2 .. Len(fs[n]) : h = fs[n][1] /\ x = fs[n][i]
            BY <2>1 DEF Told
        <3>1. PICK i \in 2 .. Len(fs[n]) : h = fs[n][1] /\ x = fs[n][i]
            BY <3>0
        <3>2. n \in FirstListings(es) /\ n \in 1 .. m /\ h = es[n][1]
            BY <1>5, <1>6, <1>7, <3>1 DEF FirstListings
        <3>3. CASE n # m
            BY <1>5, <3>1, <3>2, <3>3 DEF Told
        <3>4. CASE n = m
            <4>1. i \in 2 .. k + 1 /\ x = t[i]
                BY <1>3, <1>5, <3>1, <3>4
            <4>2. i \in 2 .. k \/ i = k + 1
                BY <1>4, <4>1
            <4>3. CASE i \in 2 .. k
                <5>1. x = e[i]
                    BY <1>3, <1>4, <4>1, <4>3
                <5> QED BY <3>2, <3>4, <4>3, <5>1 DEF Told, k
            <4>4. CASE i = k + 1
                BY <1>3, <1>10, <1>11, <3>2, <3>4, <4>1, <4>4
            <4> QED BY <4>2, <4>3, <4>4
        <3> QED BY <3>3, <3>4
    <2>2. ASSUME Told(es, h, x)
          PROVE  Told(fs, h, x)
        <3>0. PICK n \in FirstListings(es) : \E i \in 2 .. Len(es[n]) : h = es[n][1] /\ x = es[n][i]
            BY <2>2 DEF Told
        <3>1. PICK i \in 2 .. Len(es[n]) : h = es[n][1] /\ x = es[n][i]
            BY <3>0
        <3>2. n \in FirstListings(fs) /\ n \in 1 .. m /\ h = fs[n][1]
            BY <1>1, <1>6, <1>7, <3>1 DEF FirstListings
        <3>3. CASE n # m
            BY <1>5, <3>1, <3>2, <3>3 DEF Told
        <3>4. CASE n = m
            <4>1. i \in 2 .. k /\ x = e[i]
                BY <3>1, <3>4 DEF k
            <4>2. i \in 2 .. k + 1 /\ t[i] = x
                BY <1>3, <1>4, <4>1
            <4>3. i \in 2 .. Len(fs[n]) /\ x = fs[n][i]
                BY <1>3, <1>5, <3>4, <4>2
            <4> QED BY <3>2, <4>3 DEF Told
        <3> QED BY <3>3, <3>4
    <2>3. ASSUME Reading(es), h = LastHead(es), x = line
          PROVE  Told(fs, h, x)
        <3>1. m \in FirstListings(fs) /\ h = fs[m][1]
            BY <1>1, <1>6, <1>7, <1>10, <1>11, <2>3
        <3>2. k + 1 \in 2 .. k + 1
            BY <1>4
        <3>3. k + 1 \in 2 .. Len(fs[m]) /\ x = fs[m][k + 1]
            BY <1>3, <1>5, <2>3, <3>2
        <3> QED BY <3>1, <3>3 DEF Told
    <2> QED BY <2>1, <2>2, <2>3
<1> QED BY <1>5, <1>8, <1>9, <1>12 DEF fs

(***************************************************************************)
(* What HyperDoc knows while it reads the databases.                       *)
(***************************************************************************)
Key == [kind : Kinds, name : LineNames]
Spot == [dir : Dirs, file : LineNames, at : Nat]
Tables == UNION {[K -> Spot] : K \in SUBSET Key}
Marks == {"none", "skipped"}
Reader == [at : {"up", "exited"}, verify : BOOLEAN, seen : SUBSET (Dirs \X LineNames),
           file : LineNames \union Marks, table : Tables]

LEMMA NoNames == Marks \cap LineNames = {}
BY DatabaseAssumption DEF Marks, LineNames

LEMMA TableFacts ==
    ASSUME NEW t \in Tables
    PROVE  DOMAIN t \subseteq Key /\ \A k \in DOMAIN t : t[k] \in Spot
BY DEF Tables

LEMMA LongerTable ==
    ASSUME NEW t \in Tables, NEW key \in Key, key \notin DOMAIN t, NEW v \in Spot
    PROVE  LET u == [k \in DOMAIN t \union {key} |-> IF k = key THEN v ELSE t[k]]
           IN  /\ u \in Tables /\ DOMAIN u = DOMAIN t \union {key} /\ u[key] = v
               /\ \A k \in DOMAIN t : u[k] = t[k]
<1> DEFINE u == [k \in DOMAIN t \union {key} |-> IF k = key THEN v ELSE t[k]]
           K == DOMAIN t \union {key}
<1>1. K \in SUBSET Key /\ \A k \in DOMAIN t : t[k] \in Spot
    BY TableFacts
<1>2. u \in [K -> Spot]
    BY <1>1
<1>3. u \in Tables
    <2> HIDE DEF u, K
    <2> QED BY <1>1, <1>2 DEF Tables
<1> QED BY <1>3

\* The date of a listing that HyperDoc did not refuse.
Passes(verify, d, h) ==
    LET time == disk[<<d, h.name>>].time
    IN  ~(time = 0 \/ (verify /\ time > h.at))

\* What a line does to the reader.
LEMMA HeadRead ==
    ASSUME NEW r \in Reader, NEW d \in Dirs, NEW line \in Line, line.kind = "file"
    PROVE  LET q == ReadLine(r, d, line)
               full == <<d, line.name>>
           IN  /\ q \in Reader /\ q.verify = r.verify
               /\ q.at = "up" =>
                    /\ r.at = "up" /\ q.table = r.table
                    /\ q.seen = r.seen \union {full}
                    /\ q.file = IF full \in r.seen THEN "skipped" ELSE line.name
                    /\ full \notin r.seen => Passes(r.verify, d, line)
<1> DEFINE q == ReadLine(r, d, line)
           full == <<d, line.name>>
           skip == "skipped"
           out == "exited"
<1>1. /\ r.at \in {"up", "exited"} /\ r.verify \in BOOLEAN /\ r.table \in Tables
      /\ r.seen \in SUBSET (Dirs \X LineNames) /\ r.file \in LineNames \union Marks
    BY DEF Reader
<1>2. line.name \in LineNames /\ full \in Dirs \X LineNames
    BY DEF Line
<1> HIDE DEF full
<1>3. CASE r.at = "exited"
    BY <1>1, <1>3 DEF ReadLine
<1>4. CASE r.at # "exited" /\ full \in r.seen
    <2>1. q = [r EXCEPT !.file = skip]
        BY <1>4 DEF ReadLine, ReadHead, full
    <2>2. skip \in LineNames \union Marks /\ skip = "skipped"
        BY DEF Marks
    <2> HIDE DEF skip
    <2>3. /\ q \in Reader /\ q.verify = r.verify /\ q.table = r.table /\ q.seen = r.seen
          /\ q.file = skip
        BY <1>1, <2>1, <2>2 DEF Reader
    <2> HIDE DEF q
    <2> QED BY <1>1, <1>4, <2>2, <2>3 DEF q, full
<1>5. CASE r.at # "exited" /\ full \notin r.seen /\ ~Passes(r.verify, d, line)
    <2>1. q = [r EXCEPT !.at = out]
        BY <1>5 DEF ReadLine, ReadHead, full, Passes
    <2>2. out \in {"up", "exited"} /\ out = "exited"
        OBVIOUS
    <2> HIDE DEF out
    <2>3. q \in Reader /\ q.verify = r.verify /\ q.at = out
        BY <1>1, <2>1, <2>2 DEF Reader
    <2> HIDE DEF q
    <2> QED BY <2>2, <2>3 DEF q
<1>6. CASE r.at # "exited" /\ full \notin r.seen /\ Passes(r.verify, d, line)
    <2> DEFINE s == r.seen \union {full}
               name == line.name
    <2>1. q = [r EXCEPT !.seen = s, !.file = name]
        BY <1>6 DEF ReadLine, ReadHead, full, Passes
    <2>2. s \in SUBSET (Dirs \X LineNames) /\ name \in LineNames \union Marks
        BY <1>1, <1>2
    <2> HIDE DEF s, name
    <2>3. /\ q \in Reader /\ q.verify = r.verify /\ q.table = r.table /\ q.seen = s
          /\ q.file = name
        BY <1>1, <2>1, <2>2 DEF Reader
    <2> HIDE DEF q
    <2> QED BY <1>1, <1>6, <2>3 DEF q, s, name, full
<1> QED BY <1>3, <1>4, <1>5, <1>6 DEF full

LEMMA BodyRead ==
    ASSUME NEW r \in Reader, NEW d \in Dirs, NEW line \in Line, line.kind # "file"
    PROVE  LET q == ReadLine(r, d, line)
               key == Known(line)
           IN  /\ q \in Reader /\ q.verify = r.verify
               /\ q.at = "up" =>
                    /\ r.at = "up" /\ q.seen = r.seen /\ q.file = r.file
                    /\ r.file \in Marks => q.table = r.table
                    /\ r.file \notin Marks =>
                        /\ DOMAIN q.table = DOMAIN r.table \union {key}
                        /\ \A k \in DOMAIN r.table : q.table[k] = r.table[k]
                        /\ key \notin DOMAIN r.table =>
                            q.table[key] = [dir |-> d, file |-> r.file, at |-> line.at]
<1> DEFINE q == ReadLine(r, d, line)
           key == Known(line)
           out == "exited"
<1>1. /\ r.at \in {"up", "exited"} /\ r.verify \in BOOLEAN /\ r.table \in Tables
      /\ r.seen \in SUBSET (Dirs \X LineNames) /\ r.file \in LineNames \union Marks
    BY DEF Reader
<1>2. line.name \in LineNames /\ line.at \in Nat
    BY DEF Line
<1>3. CASE r.at = "exited"
    BY <1>1, <1>3 DEF ReadLine
<1>4. CASE r.at # "exited" /\ r.file \in Marks
    <2>1. q = r
        BY <1>4 DEF ReadLine, Marks
    <2> HIDE DEF q
    <2> QED BY <1>1, <1>4, <2>1 DEF q
<1>5. CASE r.at # "exited" /\ r.file \notin Marks /\ line.kind \notin Kinds
    <2>1. q = [r EXCEPT !.at = out]
        BY <1>5 DEF ReadLine, Marks
    <2>2. out \in {"up", "exited"} /\ out = "exited"
        OBVIOUS
    <2> HIDE DEF out
    <2>3. q \in Reader /\ q.verify = r.verify /\ q.at = out
        BY <1>1, <2>1, <2>2 DEF Reader
    <2> HIDE DEF q
    <2> QED BY <2>2, <2>3 DEF q
<1>6. CASE r.at # "exited" /\ r.file \notin Marks /\ line.kind \in Kinds /\ key \in DOMAIN r.table
    <2>1. q = r
        BY <1>6 DEF ReadLine, ReadEntry, Marks
    <2> HIDE DEF q, key
    <2>2. DOMAIN r.table \union {key} = DOMAIN r.table
        BY <1>6
    <2> QED BY <1>1, <1>6, <2>1, <2>2 DEF q, key
<1>7. CASE r.at # "exited" /\ r.file \notin Marks /\ line.kind \in Kinds /\ key \notin DOMAIN r.table
    <2> DEFINE v == [dir |-> d, file |-> r.file, at |-> line.at]
               u == [k \in DOMAIN r.table \union {key} |-> IF k = key THEN v ELSE r.table[k]]
    <2>1. q = [r EXCEPT !.table = u]
        BY <1>1, <1>7 DEF ReadLine, ReadEntry, Marks, Reader
    <2>2. v \in Spot /\ key \in Key
        BY <1>1, <1>2, <1>7 DEF Spot, Key, Known
    <2> HIDE DEF v, key
    <2>3. /\ u \in Tables /\ DOMAIN u = DOMAIN r.table \union {key} /\ u[key] = v
          /\ \A k \in DOMAIN r.table : u[k] = r.table[k]
        BY <1>1, <1>7, <2>2, LongerTable
    <2> HIDE DEF u
    <2>4. /\ q \in Reader /\ q.verify = r.verify /\ q.table = u /\ q.seen = r.seen
          /\ q.file = r.file
        BY <1>1, <2>1, <2>3 DEF Reader
    <2> HIDE DEF q
    <2> QED BY <1>1, <1>7, <2>3, <2>4 DEF q, v, key
<1> QED BY <1>3, <1>4, <1>5, <1>6, <1>7

LEMMA LineRead ==
    ASSUME NEW r \in Reader, NEW d \in Dirs, NEW line \in Line
    PROVE  ReadLine(r, d, line) \in Reader
BY HeadRead, BodyRead

\* A file is read line by line.
ReadsLines(f, r, d, lines) ==
    /\ f[0] = [r EXCEPT !.file = "none"]
    /\ \A i \in 1 .. Len(lines) : f[i] = ReadLine(f[i - 1], d, lines[i])
    /\ ReadHtFile(r, d) = f[Len(lines)]

LEMMA FileIsRead ==
    ASSUME NEW r \in Reader, NEW d \in Dirs, NEW lines \in Seq(Line), lines = store[dbInode[d]]
    PROVE  \E f \in [0 .. Len(lines) -> Reader] : ReadsLines(f, r, d, lines)
<1> DEFINE n == Len(lines)
           start == [r EXCEPT !.file = "none"]
           g == [p \in Reader \X (1 .. n) |-> ReadLine(p[1], d, lines[p[2]])]
           Is(f) == f = [i \in 0 .. n |-> IF i = 0 THEN start ELSE ReadLine(f[i - 1], d, lines[i])]
<1>1. n \in Nat /\ \A i \in 1 .. n : lines[i] \in Line
    OBVIOUS
<1>2. start \in Reader
    <2> DEFINE mark == "none"
    <2>1. mark \in LineNames \union Marks
        BY DEF Marks
    <2> HIDE DEF mark
    <2>2. [r EXCEPT !.file = mark] \in Reader
        BY <2>1 DEF Reader
    <2> QED BY <2>2 DEF mark
<1>3. ReadHtFile(r, d) = (CHOOSE f : Is(f))[n]
    BY DEF ReadHtFile
<1> HIDE DEF n, start
<1>4. g \in [Reader \X (1 .. n) -> Reader]
    BY <1>1, LineRead
<1>5. \A q \in Reader, i \in 1 .. n : g[<<q, i>>] = ReadLine(q, d, lines[i])
    OBVIOUS
<1> HIDE DEF g
<1>6. PICK f \in [0 .. n -> Reader] :
         f[0] = start /\ \A m \in 1 .. n : f[m] = g[<<f[m - 1], m>>]
    <2> DEFINE T == Reader
    <2> HIDE DEF T
    <2>1. n \in Nat /\ start \in T /\ g \in [T \X (1 .. n) -> T]
        BY <1>1, <1>2, <1>4 DEF T
    <2>2. \E f \in [0 .. n -> T] : Iterates(f, start, n, g)
        BY <2>1, Recursion
    <2> QED BY <2>2 DEF T, Iterates
<1>7. \A i \in 1 .. n : i # 0 /\ i - 1 \in 0 .. n /\ i \in 0 .. n
    BY <1>1
<1>8. \A i \in 1 .. n : f[i] = ReadLine(f[i - 1], d, lines[i])
    BY <1>5, <1>6, <1>7
<1>9. Is(f)
    <2>1. \A i \in 0 .. n : i = 0 \/ i \in 1 .. n
        BY <1>1
    <2>2. \A i \in 0 .. n : f[i] = IF i = 0 THEN start ELSE ReadLine(f[i - 1], d, lines[i])
        BY <1>6, <1>8, <2>1, <1>7
    <2>3. f = [i \in 0 .. n |-> f[i]]
        BY <1>6
    <2> QED BY <2>2, <2>3
<1> DEFINE q == CHOOSE h : Is(h)
<1>10. Is(q)
    BY <1>9
<1> HIDE DEF q
<1>11. q[0] = start /\ \A i \in 1 .. n : q[i] = ReadLine(q[i - 1], d, lines[i])
    <2>1. 0 \in 0 .. n
        BY <1>1
    <2> QED BY <1>7, <1>10, <2>1
<1>12. \A i \in 0 .. n : q[i] \in Reader
    <2> DEFINE S == {i \in Nat : i <= n => q[i] \in Reader}
    <2>1. 0 \in S
        BY <1>2, <1>11
    <2>2. ASSUME NEW i \in S
          PROVE  i + 1 \in S
        <3> SUFFICES ASSUME i + 1 <= n
                     PROVE  q[i + 1] \in Reader
            OBVIOUS
        <3>1. i <= n /\ i + 1 \in 1 .. n /\ (i + 1) - 1 = i
            BY <1>1
        <3>2. q[i] \in Reader
            BY <3>1
        <3> QED BY <1>1, <1>11, <3>1, <3>2, LineRead
    <2>3. S \in SUBSET Nat
        OBVIOUS
    <2>4. \A i \in Nat : i \in S
        <3> HIDE DEF S
        <3> QED BY <2>1, <2>2, <2>3, Induct
    <2> QED BY <1>1, <2>4
<1>13. q \in [0 .. n -> Reader]
    <2>1. q = [i \in 0 .. n |-> q[i]]
        <3>1. DOMAIN q = 0 .. n
            BY <1>10
        <3> QED BY <1>10
    <2> QED BY <1>12, <2>1
<1>14. ReadHtFile(r, d) = q[n]
    BY <1>3 DEF q
<1> QED BY <1>11, <1>13, <1>14 DEF n, start, ReadsLines

(***************************************************************************)
(* What reading the lines with the entries es makes of the reader.         *)
(***************************************************************************)
EnteredAs(table, key, d, h, x) ==
    key = Known(x) /\ table[key] = [dir |-> d, file |-> h.name, at |-> x.at]

Grown(r, d, es, t) ==
    /\ DOMAIN r.table \subseteq DOMAIN t
    /\ \A key \in DOMAIN r.table : t[key] = r.table[key]
    /\ \A key \in DOMAIN t : key \in DOMAIN r.table
                             \/ \E h, x \in Line : Told(es, h, x) /\ EnteredAs(t, key, d, h, x)
    /\ \A h, x \in Line : Told(es, h, x) => Passes(r.verify, d, h) /\ Known(x) \in DOMAIN t

SeenOf(r, d, es) == r.seen \union {<<d, name>> : name \in HeadNames(es)}

SoFar(r, d, es, q) ==
    /\ q.verify = r.verify
    /\ q.at = "up" =>
        /\ q.seen = SeenOf(r, d, es) /\ q.file = Current(es)
        /\ Reading(es) => Passes(r.verify, d, LastHead(es))
        /\ Grown(r, d, es, q.table)

LEMMA HeadSoFar ==
    ASSUME NEW r \in Reader, NEW d \in Dirs, NEW es \in Seq(Entry), NEW q \in Reader,
           SoFar(r, d, es, q), NEW line \in Line, line.kind = "file",
           \A name \in LineNames : <<d, name>> \notin r.seen
    PROVE  SoFar(r, d, AddLine(es, line), ReadLine(q, d, line))
<1> DEFINE p == ReadLine(q, d, line)
           fs == AddLine(es, line)
           full == <<d, line.name>>
           seen == line.name \in HeadNames(es)
<1>1. /\ p \in Reader /\ p.verify = q.verify
      /\ p.at = "up" =>
            /\ q.at = "up" /\ p.table = q.table
            /\ p.seen = q.seen \union {full}
            /\ p.file = IF full \in q.seen THEN "skipped" ELSE line.name
            /\ full \notin q.seen => Passes(q.verify, d, line)
    BY HeadRead
<1>2. /\ fs # <<>> /\ HeadNames(fs) = HeadNames(es) \union {line.name}
      /\ LastHead(fs) = line /\ Reading(fs) = ~seen
      /\ \A h, x \in Line : Told(fs, h, x) <=> Told(es, h, x)
    BY NewListing
<1> HIDE DEF p, fs
<1>3. p.verify = r.verify
    BY <1>1 DEF SoFar
<1> SUFFICES ASSUME p.at = "up"
             PROVE  /\ p.seen = SeenOf(r, d, fs) /\ p.file = Current(fs)
                    /\ Reading(fs) => Passes(r.verify, d, LastHead(fs))
                    /\ Grown(r, d, fs, p.table)
    BY <1>3 DEF SoFar, p, fs
<1>4. q.verify = r.verify /\ q.seen = SeenOf(r, d, es) /\ Grown(r, d, es, q.table)
    BY <1>1 DEF SoFar
<1>5. full \in q.seen <=> seen
    <2>1. line.name \in LineNames
        BY DEF Line
    <2> QED BY <1>4, <2>1 DEF SeenOf
<1>6. p.seen = SeenOf(r, d, fs)
    BY <1>1, <1>2, <1>4 DEF SeenOf
<1>7. p.file = Current(fs)
    BY <1>1, <1>2, <1>5 DEF Current
<1>8. Reading(fs) => Passes(r.verify, d, LastHead(fs))
    BY <1>1, <1>2, <1>4, <1>5
<1>9. Grown(r, d, fs, p.table)
    BY <1>1, <1>2, <1>4 DEF Grown
<1> QED BY <1>6, <1>7, <1>8, <1>9

LEMMA BodySoFar ==
    ASSUME NEW r \in Reader, NEW d \in Dirs, NEW es \in Seq(Entry), NEW q \in Reader,
           SoFar(r, d, es, q), NEW line \in Line, line.kind # "file"
    PROVE  SoFar(r, d, AddLine(es, line), ReadLine(q, d, line))
<1> DEFINE p == ReadLine(q, d, line)
           fs == AddLine(es, line)
           key == Known(line)
<1>1. /\ p \in Reader /\ p.verify = q.verify
      /\ p.at = "up" =>
            /\ q.at = "up" /\ p.seen = q.seen /\ p.file = q.file
            /\ q.file \in Marks => p.table = q.table
            /\ q.file \notin Marks =>
                /\ DOMAIN p.table = DOMAIN q.table \union {key}
                /\ \A k \in DOMAIN q.table : p.table[k] = q.table[k]
                /\ key \notin DOMAIN q.table =>
                    p.table[key] = [dir |-> d, file |-> q.file, at |-> line.at]
    BY BodyRead
<1> HIDE DEF p
<1>2. p.verify = r.verify
    BY <1>1 DEF SoFar
<1> SUFFICES ASSUME p.at = "up"
             PROVE  /\ p.seen = SeenOf(r, d, fs) /\ p.file = Current(fs)
                    /\ Reading(fs) => Passes(r.verify, d, LastHead(fs))
                    /\ Grown(r, d, fs, p.table)
    BY <1>2 DEF SoFar, p
<1>3. /\ q.seen = SeenOf(r, d, es) /\ q.file = Current(es) /\ Grown(r, d, es, q.table)
      /\ Reading(es) => Passes(r.verify, d, LastHead(es))
    BY <1>1 DEF SoFar
<1>4. CASE es = <<>>
    <2>1. fs = es
        BY <1>4 DEF AddLine
    <2>2. p.table = q.table
        BY <1>1, <1>3, <1>4 DEF Current, Marks
    <2> QED BY <1>1, <1>3, <2>1, <2>2
<1>5. CASE es # <<>>
    <2>1. /\ fs # <<>> /\ HeadNames(fs) = HeadNames(es)
          /\ LastHead(fs) = LastHead(es) /\ LastHead(es) \in Line
          /\ (Reading(fs) <=> Reading(es))
          /\ \A h, x \in Line :
               Told(fs, h, x) <=> \/ Told(es, h, x)
                                  \/ Reading(es) /\ h = LastHead(es) /\ x = line
        BY <1>5, NextLine
    <2> HIDE DEF fs
    <2>2. p.seen = SeenOf(r, d, fs) /\ p.file = Current(fs)
        BY <1>1, <1>3, <1>5, <2>1 DEF SeenOf, Current
    <2>3. Reading(fs) => Passes(r.verify, d, LastHead(fs))
        BY <1>3, <2>1
    <2>4. CASE ~Reading(es)
        <3>1. p.table = q.table
            BY <1>1, <1>3, <1>5, <2>4 DEF Current, Marks
        <3>2. Grown(r, d, fs, p.table)
            BY <1>3, <2>1, <2>4, <3>1 DEF Grown
        <3> QED BY <2>2, <2>3, <3>2
    <2>5. CASE Reading(es)
        <3> DEFINE head == LastHead(es)
                   t == q.table
                   u == p.table
        <3>1. q.file = head.name /\ q.file \notin Marks
            <4>1. head.name \in LineNames
                BY <2>1 DEF Line
            <4> QED BY <1>3, <1>5, <2>5, <4>1, NoNames DEF Current
        <3>2. /\ DOMAIN u = DOMAIN t \union {key}
              /\ \A k \in DOMAIN t : u[k] = t[k]
              /\ key \notin DOMAIN t => u[key] = [dir |-> d, file |-> head.name, at |-> line.at]
            BY <1>1, <3>1
        <3>3. Told(fs, head, line)
            BY <2>1, <2>5
        <3>4. Passes(r.verify, d, head)
            BY <1>3, <2>5
        <3> HIDE DEF head, t, u
        <3>5. /\ DOMAIN r.table \subseteq DOMAIN u
              /\ \A k \in DOMAIN r.table : u[k] = r.table[k]
            BY <1>3, <3>2 DEF Grown, t
        <3>6. ASSUME NEW k \in DOMAIN u, k \notin DOMAIN r.table
              PROVE  \E h, x \in Line : Told(fs, h, x) /\ EnteredAs(u, k, d, h, x)
            <4>1. CASE k \in DOMAIN t
                <5>1. PICK h \in Line, x \in Line : Told(es, h, x) /\ EnteredAs(t, k, d, h, x)
                    BY <1>3, <3>6, <4>1 DEF Grown, t
                <5>2. Told(fs, h, x)
                    BY <2>1, <5>1
                <5>3. EnteredAs(u, k, d, h, x)
                    BY <3>2, <4>1, <5>1 DEF EnteredAs
                <5> QED BY <5>2, <5>3
            <4>2. CASE k \notin DOMAIN t
                <5>1. k = key
                    BY <3>2, <3>6, <4>2
                <5>2. EnteredAs(u, k, d, head, line)
                    BY <3>2, <4>2, <5>1 DEF EnteredAs
                <5> QED BY <2>1, <3>3, <5>2 DEF head
            <4> QED BY <4>1, <4>2
        <3>7. ASSUME NEW h \in Line, NEW x \in Line, Told(fs, h, x)
              PROVE  Passes(r.verify, d, h) /\ Known(x) \in DOMAIN u
            <4>1. CASE Told(es, h, x)
                BY <1>3, <3>2, <4>1 DEF Grown, t
            <4>2. CASE h = head /\ x = line
                BY <3>2, <3>4, <4>2
            <4> QED BY <2>1, <3>7, <4>1, <4>2 DEF head
        <3>8. Grown(r, d, fs, p.table)
            BY <3>5, <3>6, <3>7 DEF Grown, u
        <3> QED BY <2>2, <2>3, <3>8
    <2> QED BY <2>4, <2>5
<1> QED BY <1>4, <1>5

\* What a directory's database adds to the table.
LEMMA DirectoryRead ==
    ASSUME DatabaseInv, NEW r \in Reader, NEW d \in Dirs,
           \A name \in LineNames : <<d, name>> \notin r.seen
    PROVE  LET q == DbFileOpen(r, d)
               es == Entries(Database(d))
           IN  /\ q \in Reader /\ q.verify = r.verify
               /\ q.at = "up" => r.at = "up" /\ q.seen = SeenOf(r, d, es) /\ Grown(r, d, es, q.table)
<1> DEFINE es == Entries(Database(d))
<1>1. CASE r.at = "exited"
    BY <1>1 DEF DbFileOpen
<1>2. CASE r.at # "exited" /\ dbInode[d] = 0
    <2>1. Database(d) = <<>>
        BY <1>2 DEF Database
    <2>2. es = <<>>
        BY <2>1, EntriesOfNone
    <2>3. DbFileOpen(r, d) = r
        BY <1>2 DEF DbFileOpen
    <2>4. SeenOf(r, d, es) = r.seen
        BY <2>2, NothingRead DEF SeenOf
    <2>5. Grown(r, d, es, r.table)
        BY <2>2, NothingRead DEF Grown
    <2>6. r.at = "up"
        BY <1>2 DEF Reader
    <2> QED BY <2>3, <2>4, <2>5, <2>6
<1>3. CASE r.at # "exited" /\ dbInode[d] # 0
    <2>1. PICK lines \in Seq(Line) : lines = store[dbInode[d]] /\ lines = Database(d)
        BY <1>3, StateFacts DEF Database
    <2> DEFINE n == Len(lines)
               Upto(i) == Entries(SubSeq(lines, 1, i))
               none == "none"
    <2>0. PICK f \in [0 .. Len(lines) -> Reader] : ReadsLines(f, r, d, lines)
        BY <2>1, FileIsRead
    <2>2. /\ f \in [0 .. n -> Reader] /\ f[0] = [r EXCEPT !.file = none]
          /\ \A i \in 1 .. n : f[i] = ReadLine(f[i - 1], d, lines[i])
          /\ ReadHtFile(r, d) = f[n]
        BY <2>0 DEF ReadsLines
    <2>3. n \in Nat
        OBVIOUS
    <2>4. SubSeq(lines, 1, n) = lines
        BY SubSeqFull
    <2> DEFINE S == {i \in Nat : i <= n => SoFar(r, d, Upto(i), f[i])}
    <2>5. 0 \in S
        <3>1. Upto(0) = <<>>
            <4>1. SubSeq(lines, 1, 0) = <<>>
                OBVIOUS
            <4> QED BY <4>1, EntriesOfNone
        <3>2. none \in LineNames \union Marks /\ none = "none"
            BY DEF Marks
        <3> HIDE DEF none, Upto
        <3>3. PICK q \in Reader : q = f[0]
            BY <2>3
        <3>4. q.verify = r.verify /\ q.seen = r.seen /\ q.table = r.table /\ q.file = none
            BY <2>2, <3>2, <3>3 DEF Reader
        <3>5. q.seen = SeenOf(r, d, <<>>)
            BY <3>4, NothingRead DEF SeenOf
        <3>6. Grown(r, d, <<>>, q.table)
            BY <3>4, NothingRead DEF Grown
        <3>7. SoFar(r, d, <<>>, q)
            BY <3>2, <3>4, <3>5, <3>6, NothingRead DEF SoFar
        <3> QED BY <3>1, <3>3, <3>7
    <2>6. ASSUME NEW i \in S
          PROVE  i + 1 \in S
        <3> SUFFICES ASSUME i + 1 <= n
                     PROVE  SoFar(r, d, Upto(i + 1), f[i + 1])
            OBVIOUS
        <3>1. i \in Nat /\ i < n /\ i <= n /\ i \in 0 .. n /\ i + 1 \in 1 .. n /\ (i + 1) - 1 = i
            BY <2>3
        <3>2. SoFar(r, d, Upto(i), f[i]) /\ f[i] \in Reader
            BY <3>1
        <3>3. /\ SubSeq(lines, 1, i) \in Seq(Line) /\ lines[i + 1] \in Line
              /\ Upto(i + 1) = AddLine(Upto(i), lines[i + 1])
            BY <3>1, EntriesStep
        <3>4. Upto(i) \in Seq(Entry)
            BY <3>3, EntriesType
        <3>5. f[i + 1] = ReadLine(f[i], d, lines[i + 1])
            BY <2>2, <3>1
        <3> HIDE DEF Upto
        <3> QED BY <3>2, <3>3, <3>4, <3>5, HeadSoFar, BodySoFar
    <2>7. S \in SUBSET Nat
        OBVIOUS
    <2>8. n \in S
        <3> HIDE DEF S, n
        <3> QED BY <2>3, <2>5, <2>6, <2>7, Induct
    <2>9. SoFar(r, d, es, f[n]) /\ f[n] \in Reader
        <3>1. SoFar(r, d, Upto(n), f[n])
            BY <2>3, <2>8
        <3>2. Upto(n) = es
            BY <2>1, <2>4
        <3> HIDE DEF Upto, es
        <3> QED BY <2>3, <3>1, <3>2
    <2>10. DbFileOpen(r, d) = f[n]
        BY <1>3, <2>2 DEF DbFileOpen
    <2>11. r.at = "up"
        BY <1>3 DEF Reader
    <2> HIDE DEF es, n
    <2>12. PICK q \in Reader : q = f[n] /\ SoFar(r, d, es, q)
        BY <2>9
    <2> QED BY <2>10, <2>11, <2>12 DEF SoFar, es
<1> QED BY <1>1, <1>2, <1>3

(***************************************************************************)
(* The directories, one after the other.                                   *)
(***************************************************************************)
LEMMA PathFacts ==
    /\ Len(Path) \in Nat /\ DOMAIN Path = 1 .. Len(Path)
    /\ \A k \in 1 .. Len(Path) : Path[k] \in Dirs
    /\ \A j, k \in 1 .. Len(Path) : Path[j] = Path[k] => j = k
<1>1. Path \in Seq(Dirs) /\ IsInjective(Path)
    BY DatabaseAssumption
<1>2. /\ Len(Path) \in Nat /\ DOMAIN Path = 1 .. Len(Path)
      /\ \A k \in 1 .. Len(Path) : Path[k] \in Dirs
    <2> HIDE DEF Dirs
    <2> QED BY <1>1
<1> QED BY <1>1, <1>2 DEF IsInjective

FirstReader(verify) ==
    [at |-> IF \A d \in Dirs : dbInode[d] = 0 THEN "exited" ELSE "up",
     verify |-> verify, seen |-> {}, file |-> "none", table |-> <<>>]

LEMMA FirstReaderFacts ==
    ASSUME NEW verify \in BOOLEAN
    PROVE  LET r == FirstReader(verify)
           IN  r \in Reader /\ r.verify = verify /\ r.seen = {} /\ DOMAIN r.table = {}
<1> DEFINE at == IF \A d \in Dirs : dbInode[d] = 0 THEN "exited" ELSE "up"
           none == <<>>
           nil == {}
           mark == "none"
           r == [at |-> at, verify |-> verify, seen |-> nil, file |-> mark, table |-> none]
<1>1. none \in Tables /\ DOMAIN none = {}
    <2>1. none = [k \in {} |-> k] /\ DOMAIN none = {}
        OBVIOUS
    <2>2. none \in [{} -> Spot]
        BY <2>1
    <2>3. {} \in SUBSET Key
        OBVIOUS
    <2> HIDE DEF none
    <2> QED BY <2>1, <2>2, <2>3 DEF Tables
<1>2. at \in {"up", "exited"} /\ mark \in LineNames \union Marks
      /\ nil \in SUBSET (Dirs \X LineNames) /\ nil = {}
    BY DEF Marks
<1>3. FirstReader(verify) = r
    BY DEF FirstReader
<1> HIDE DEF at, none, nil, mark
<1>4. r \in Reader /\ r.verify = verify /\ r.seen = nil /\ r.table = none
    BY <1>1, <1>2 DEF Reader
<1> QED BY <1>1, <1>2, <1>3, <1>4

LEMMA DirectoryType ==
    ASSUME DatabaseInv, NEW r \in Reader, NEW d \in Dirs
    PROVE  DbFileOpen(r, d) \in Reader
<1>1. CASE r.at = "exited" \/ dbInode[d] = 0
    BY <1>1 DEF DbFileOpen
<1>2. CASE ~(r.at = "exited" \/ dbInode[d] = 0)
    <2>1. PICK lines \in Seq(Line) : lines = store[dbInode[d]]
        BY <1>2, StateFacts DEF Database
    <2> DEFINE n == Len(lines)
    <2>2. n \in Nat
        OBVIOUS
    <2>0. PICK f \in [0 .. Len(lines) -> Reader] : ReadsLines(f, r, d, lines)
        BY <2>1, FileIsRead
    <2>3. f \in [0 .. n -> Reader] /\ ReadHtFile(r, d) = f[n]
        BY <2>0 DEF ReadsLines
    <2> HIDE DEF n
    <2>4. f[n] \in Reader
        BY <2>2, <2>3
    <2> QED BY <1>2, <2>3, <2>4 DEF DbFileOpen
<1> QED BY <1>1, <1>2

ReadsPath(f, verify) ==
    /\ f[0] = FirstReader(verify)
    /\ \A k \in 1 .. Len(Path) : f[k] = DbFileOpen(f[k - 1], Path[k])
    /\ ReadHtDb(verify) = f[Len(Path)]

LEMMA PathIsRead ==
    ASSUME DatabaseInv, NEW verify \in BOOLEAN
    PROVE  \E f \in [0 .. Len(Path) -> Reader] : ReadsPath(f, verify)
<1> DEFINE n == Len(Path)
           start == FirstReader(verify)
           g == [p \in Reader \X (1 .. n) |-> DbFileOpen(p[1], Path[p[2]])]
           Is(f) == f = [k \in 0 .. n |-> IF k = 0 THEN start ELSE DbFileOpen(f[k - 1], Path[k])]
<1>1. n \in Nat /\ \A k \in 1 .. n : Path[k] \in Dirs
    BY PathFacts
<1>2. start \in Reader
    BY FirstReaderFacts
<1>3. ReadHtDb(verify) = (CHOOSE f : Is(f))[n]
    BY DEF ReadHtDb, FirstReader
<1> HIDE DEF n, start
<1>4. g \in [Reader \X (1 .. n) -> Reader]
    BY <1>1, DirectoryType
<1>5. \A q \in Reader, k \in 1 .. n : g[<<q, k>>] = DbFileOpen(q, Path[k])
    OBVIOUS
<1> HIDE DEF g
<1>6. PICK f \in [0 .. n -> Reader] :
         f[0] = start /\ \A m \in 1 .. n : f[m] = g[<<f[m - 1], m>>]
    <2> DEFINE T == Reader
    <2> HIDE DEF T
    <2>1. n \in Nat /\ start \in T /\ g \in [T \X (1 .. n) -> T]
        BY <1>1, <1>2, <1>4 DEF T
    <2>2. \E f \in [0 .. n -> T] : Iterates(f, start, n, g)
        BY <2>1, Recursion
    <2> QED BY <2>2 DEF T, Iterates
<1>7. \A k \in 1 .. n : k # 0 /\ k - 1 \in 0 .. n /\ k \in 0 .. n
    BY <1>1
<1>8. \A k \in 1 .. n : f[k] = DbFileOpen(f[k - 1], Path[k])
    BY <1>5, <1>6, <1>7
<1>9. Is(f)
    <2>1. \A k \in 0 .. n : k = 0 \/ k \in 1 .. n
        BY <1>1
    <2>2. \A k \in 0 .. n : f[k] = IF k = 0 THEN start ELSE DbFileOpen(f[k - 1], Path[k])
        BY <1>6, <1>8, <2>1, <1>7
    <2>3. f = [k \in 0 .. n |-> f[k]]
        BY <1>6
    <2> QED BY <2>2, <2>3
<1> DEFINE q == CHOOSE h : Is(h)
<1>10. Is(q)
    BY <1>9
<1> HIDE DEF q
<1>11. q[0] = start /\ \A k \in 1 .. n : q[k] = DbFileOpen(q[k - 1], Path[k])
    <2>1. 0 \in 0 .. n
        BY <1>1
    <2> QED BY <1>7, <1>10, <2>1
<1>12. \A k \in 0 .. n : q[k] \in Reader
    <2> DEFINE S == {k \in Nat : k <= n => q[k] \in Reader}
    <2>1. 0 \in S
        BY <1>2, <1>11
    <2>2. ASSUME NEW k \in S
          PROVE  k + 1 \in S
        <3> SUFFICES ASSUME k + 1 <= n
                     PROVE  q[k + 1] \in Reader
            OBVIOUS
        <3>1. k <= n /\ k + 1 \in 1 .. n /\ (k + 1) - 1 = k
            BY <1>1
        <3>2. q[k] \in Reader
            BY <3>1
        <3> QED BY <1>1, <1>11, <3>1, <3>2, DirectoryType
    <2>3. S \in SUBSET Nat
        OBVIOUS
    <2>4. \A k \in Nat : k \in S
        <3> HIDE DEF S
        <3> QED BY <2>1, <2>2, <2>3, Induct
    <2> QED BY <1>1, <2>4
<1>13. q \in [0 .. n -> Reader]
    <2>1. q = [k \in 0 .. n |-> q[k]]
        <3>1. DOMAIN q = 0 .. n
            BY <1>10
        <3> QED BY <1>10
    <2> QED BY <1>12, <2>1
<1>14. ReadHtDb(verify) = q[n]
    BY <1>3 DEF q
<1> QED BY <1>11, <1>13, <1>14 DEF n, start, ReadsPath

Listed(k) == Entries(Database(Path[k]))

\* Where an entry of the table comes from: the first directory that tells of it.
Origin(verify, k, t, key) == \E j \in 1 .. k :
    /\ \E h, x \in Line : /\ Told(Listed(j), h, x) /\ EnteredAs(t, key, Path[j], h, x)
                          /\ Passes(verify, Path[j], h)
    /\ \A i \in 1 .. j - 1 : \A h, x \in Line : Told(Listed(i), h, x) => Known(x) # key

Tabled(verify, k, r) ==
    /\ r.verify = verify
    /\ r.at = "up" =>
        /\ \A j \in 1 .. Len(Path) : j > k =>
                \A name \in LineNames : <<Path[j], name>> \notin r.seen
        /\ \A key \in DOMAIN r.table : Origin(verify, k, r.table, key)
        /\ \A j \in 1 .. k : \A h, x \in Line : Told(Listed(j), h, x) => Known(x) \in DOMAIN r.table

LEMMA OneDirectory ==
    ASSUME DatabaseInv, NEW verify \in BOOLEAN, NEW k \in Nat, k + 1 <= Len(Path),
           NEW r \in Reader, Tabled(verify, k, r)
    PROVE  Tabled(verify, k + 1, DbFileOpen(r, Path[k + 1]))
<1> DEFINE n == Len(Path)
           q == DbFileOpen(r, Path[k + 1])
           es == Listed(k + 1)
<1>1. /\ n \in Nat /\ \A j \in 1 .. n : Path[j] \in Dirs
      /\ \A i, j \in 1 .. n : Path[i] = Path[j] => i = j
    BY PathFacts
<1>2. PICK d \in Dirs : d = Path[k + 1]
    <2>1. k + 1 \in 1 .. n
        <3> HIDE DEF n
        <3> QED BY <1>1 DEF n
    <2> QED BY <1>1, <2>1
<1>3. CASE r.at = "exited"
    <2>1. q = r
        BY <1>3 DEF DbFileOpen
    <2> QED BY <1>3, <2>1 DEF Tabled
<1>4. CASE r.at # "exited"
    <2>1. r.at = "up" /\ r.verify = verify
        BY <1>4 DEF Reader, Tabled
    <2>2. k + 1 \in 1 .. n /\ k + 1 > k
        <3> HIDE DEF n
        <3> QED BY <1>1 DEF n
    <2>3. \A name \in LineNames : <<d, name>> \notin r.seen
        BY <1>2, <2>1, <2>2 DEF Tabled
    <2>4. /\ q \in Reader /\ q.verify = verify
          /\ q.at = "up" => q.seen = SeenOf(r, d, es) /\ Grown(r, d, es, q.table)
        BY <1>2, <2>1, <2>3, DirectoryRead DEF Listed
    <2> HIDE DEF q, es
    <2> SUFFICES ASSUME q.at = "up"
                 PROVE  /\ \A j \in 1 .. n : j > k + 1 =>
                                \A name \in LineNames : <<Path[j], name>> \notin q.seen
                        /\ \A key \in DOMAIN q.table : Origin(verify, k + 1, q.table, key)
                        /\ \A j \in 1 .. k + 1 : \A h, x \in Line :
                                Told(Listed(j), h, x) => Known(x) \in DOMAIN q.table
        BY <2>4 DEF Tabled, q
    <2> DEFINE t == r.table
               u == q.table
    <2>5. /\ q.seen = SeenOf(r, d, es) /\ DOMAIN t \subseteq DOMAIN u
          /\ \A key \in DOMAIN t : u[key] = t[key]
          /\ \A key \in DOMAIN u : key \in DOMAIN t
                    \/ \E h, x \in Line : Told(es, h, x) /\ EnteredAs(u, key, d, h, x)
          /\ \A h, x \in Line : Told(es, h, x) => Passes(verify, d, h) /\ Known(x) \in DOMAIN u
        BY <2>1, <2>4 DEF Grown
    <2>6. /\ \A j \in 1 .. n : j > k =>
                \A name \in LineNames : <<Path[j], name>> \notin r.seen
          /\ \A key \in DOMAIN t : Origin(verify, k, t, key)
          /\ \A j \in 1 .. k : \A h, x \in Line : Told(Listed(j), h, x) => Known(x) \in DOMAIN t
        BY <2>1 DEF Tabled
    <2> HIDE DEF t, u
    <2>7. ASSUME NEW j \in 1 .. n, j > k + 1, NEW name \in LineNames
          PROVE  <<Path[j], name>> \notin q.seen
        <3>1. j > k
            BY <2>7
        <3>2. Path[j] # d
            BY <1>1, <1>2, <2>2, <2>7
        <3> QED BY <2>5, <2>6, <3>1, <3>2 DEF SeenOf
    <2>8. ASSUME NEW key \in DOMAIN u
          PROVE  Origin(verify, k + 1, u, key)
        <3>1. CASE key \in DOMAIN t
            <4>1. Origin(verify, k, t, key)
                BY <2>6, <3>1
            <4>2. PICK j \in 1 .. k :
                    /\ \E h, x \in Line : /\ Told(Listed(j), h, x) /\ EnteredAs(t, key, Path[j], h, x)
                                          /\ Passes(verify, Path[j], h)
                    /\ \A i \in 1 .. j - 1 : \A h, x \in Line :
                            Told(Listed(i), h, x) => Known(x) # key
                BY <4>1 DEF Origin
            <4>3. PICK h \in Line, x \in Line :
                    /\ Told(Listed(j), h, x) /\ EnteredAs(t, key, Path[j], h, x)
                    /\ Passes(verify, Path[j], h)
                BY <4>2
            <4>4. EnteredAs(u, key, Path[j], h, x)
                BY <2>5, <3>1, <4>3 DEF EnteredAs
            <4>5. j \in 1 .. k + 1
                OBVIOUS
            <4> QED BY <4>2, <4>3, <4>4, <4>5 DEF Origin
        <3>2. CASE key \notin DOMAIN t
            <4>1. PICK h \in Line, x \in Line : Told(es, h, x) /\ EnteredAs(u, key, d, h, x)
                BY <2>5, <3>2
            <4>2. Passes(verify, d, h)
                BY <2>5, <4>1
            <4>3. ASSUME NEW i \in 1 .. (k + 1) - 1, NEW g \in Line, NEW y \in Line,
                         Told(Listed(i), g, y)
                  PROVE  Known(y) # key
                <5>1. i \in 1 .. k
                    BY <4>3
                <5>2. Known(y) \in DOMAIN t
                    BY <2>6, <4>3, <5>1
                <5> QED BY <3>2, <5>2
            <4>4. k + 1 \in 1 .. k + 1
                OBVIOUS
            <4>5. Told(Listed(k + 1), h, x) /\ EnteredAs(u, key, Path[k + 1], h, x)
                  /\ Passes(verify, Path[k + 1], h)
                BY <1>2, <4>1, <4>2 DEF es
            <4> QED BY <4>3, <4>4, <4>5 DEF Origin
        <3> QED BY <3>1, <3>2
    <2>9. ASSUME NEW j \in 1 .. k + 1, NEW h \in Line, NEW x \in Line, Told(Listed(j), h, x)
          PROVE  Known(x) \in DOMAIN u
        <3>1. j \in 1 .. k \/ j = k + 1
            OBVIOUS
        <3>2. CASE j \in 1 .. k
            BY <2>5, <2>6, <2>9, <3>2
        <3>3. CASE j = k + 1
            BY <2>5, <2>9, <3>3 DEF es
        <3> QED BY <3>1, <3>2, <3>3
    <2> QED BY <2>7, <2>8, <2>9 DEF u
<1> QED BY <1>3, <1>4

\* The table HyperDoc starts with.
LEMMA TableIs ==
    ASSUME DatabaseInv, NEW verify \in BOOLEAN
    PROVE  ReadHtDb(verify) \in Reader /\ Tabled(verify, Len(Path), ReadHtDb(verify))
<1> DEFINE n == Len(Path)
<1>0. PICK f \in [0 .. Len(Path) -> Reader] : ReadsPath(f, verify)
    BY PathIsRead
<1>1. n \in Nat /\ f \in [0 .. n -> Reader] /\ f[0] = FirstReader(verify)
      /\ \A k \in 1 .. n : f[k] = DbFileOpen(f[k - 1], Path[k])
      /\ ReadHtDb(verify) = f[n]
    BY <1>0, PathFacts DEF ReadsPath
<1> DEFINE S == {k \in Nat : k <= n => Tabled(verify, k, f[k])}
<1>2. 0 \in S
    <2>1. PICK r \in Reader : /\ r = f[0] /\ r.verify = verify /\ r.seen = {} /\ DOMAIN r.table = {}
        BY <1>1, FirstReaderFacts
    <2>2. 1 .. 0 = {}
        OBVIOUS
    <2>3. Tabled(verify, 0, r)
        BY <2>1, <2>2 DEF Tabled
    <2> QED BY <2>1, <2>3
<1>3. ASSUME NEW k \in S
      PROVE  k + 1 \in S
    <2> SUFFICES ASSUME k + 1 <= n
                 PROVE  Tabled(verify, k + 1, f[k + 1])
        OBVIOUS
    <2>1. k \in Nat /\ k <= n /\ k \in 0 .. n /\ k + 1 \in 1 .. n /\ (k + 1) - 1 = k
        BY <1>1
    <2>2. f[k + 1] = DbFileOpen(f[k], Path[k + 1]) /\ Tabled(verify, k, f[k]) /\ f[k] \in Reader
        BY <1>1, <2>1
    <2>3. Tabled(verify, k + 1, DbFileOpen(f[k], Path[k + 1]))
        BY <2>1, <2>2, OneDirectory
    <2> QED BY <2>2, <2>3
<1>4. S \in SUBSET Nat
    OBVIOUS
<1>5. n \in S
    <2> HIDE DEF S, n
    <2> QED BY <1>1, <1>2, <1>3, <1>4, Induct
<1>6. PICK m \in Nat : m = n
    BY <1>1
<1>7. Tabled(verify, m, f[m]) /\ f[m] \in Reader /\ ReadHtDb(verify) = f[m]
    <2>1. m \in S /\ m <= m /\ m \in 0 .. n
        BY <1>1, <1>5, <1>6
    <2>2. Tabled(verify, m, f[m]) /\ f[m] \in Reader
        BY <1>1, <1>6, <2>1
    <2> QED BY <1>1, <1>6, <2>2
<1>8. PICK q \in Reader : q = f[m]
    BY <1>7
<1>9. Tabled(verify, m, q) /\ ReadHtDb(verify) = q
    BY <1>7, <1>8
<1>10. Tabled(verify, m, ReadHtDb(verify)) /\ ReadHtDb(verify) \in Reader
    BY <1>9
<1> QED BY <1>6, <1>10

(* Told of by an entry. *)
LEMMA ToldBy ==
    ASSUME NEW lines \in Seq(Line), NEW h \in Line, NEW x \in Line, Told(Entries(lines), h, x)
    PROVE  \E e \in Range(Entries(lines)) : \E i \in 2 .. Len(e) : h = e[1] /\ x = e[i]
BY DEF Told, FirstListings, Range

LEMMA FoundIsRight ==
    ASSUME DatabaseInv
    PROVE  FoundWhereListed
<1> SUFFICES ASSUME ~past.foreign, ~past.overlapped, ~past.quick,
                    NEW verify \in {TRUE, past.edits # 0}, ReadHtDb(verify).at = "up",
                    NEW key \in DOMAIN ReadHtDb(verify).table
             PROVE  FindFp(ReadHtDb(verify).table, key) = key
    BY DEF FoundWhereListed
<1>1. PICK check \in BOOLEAN : check = verify
    OBVIOUS
<1>2. check \/ past.edits = 0
    BY <1>1
<1>3. PICK r \in Reader : r = ReadHtDb(check) /\ Tabled(check, Len(Path), r)
    BY TableIs
<1>4. r = ReadHtDb(verify) /\ r.at = "up" /\ key \in DOMAIN r.table
    BY <1>1, <1>3
<1>5. Origin(check, Len(Path), r.table, key)
    BY <1>3, <1>4 DEF Tabled
<1>6. PICK j \in 1 .. Len(Path) : \E h, x \in Line :
            /\ Told(Listed(j), h, x) /\ EnteredAs(r.table, key, Path[j], h, x)
            /\ Passes(check, Path[j], h)
    BY <1>5 DEF Origin
<1>7. PICK h \in Line, x \in Line :
            /\ Told(Listed(j), h, x) /\ EnteredAs(r.table, key, Path[j], h, x)
            /\ Passes(check, Path[j], h)
    BY <1>6
<1>8. PICK d \in Dirs : d = Path[j]
    BY PathFacts
<1>9. PICK lines \in Seq(Line) : lines = Database(d)
    BY StateFacts
<1>10. PICK e \in Range(Entries(lines)) : \E i \in 2 .. Len(e) : h = e[1] /\ x = e[i]
    BY <1>7, <1>8, <1>9, ToldBy DEF Listed
<1>11. PICK i \in 2 .. Len(e) : h = e[1] /\ x = e[i]
    BY <1>10
<1>12. AllFit("true", d, lines)
    <2>1. Clean("true") /\ "true" \in Modes
        BY DEF Clean, Modes
    <2> QED BY <1>9, <2>1 DEF DatabaseInv, LinesOK, Copied
<1>13. Truth(d, e)
    BY <1>12 DEF AllFit, Fits
<1> DEFINE there == disk[<<d, e[1].name>>]
<1>14. there.time \in Nat /\ e[1].name \in Files
    <2>1. e[1].name \in Files
        BY <1>13 DEF Truth
    <2>2. <<d, e[1].name>> \in Dirs \X Files
        BY <2>1
    <2>3. there \in [text : AllTexts, time : Nat]
        BY <2>2, StateFacts DEF DatabaseTypeOK
    <2> HIDE DEF there
    <2> QED BY <2>1, <2>3
<1>15. e[1].at = there.time
    <2>1. e[1].at \in 0 .. there.time /\ (past.edits = 0 => e[1].at = there.time)
        BY <1>13 DEF Truth
    <2>2. check => ~(there.time > e[1].at)
        BY <1>7, <1>8, <1>11 DEF Passes
    <2> HIDE DEF there
    <2> QED BY <1>2, <1>14, <2>1, <2>2
<1>16. e[i].at \in DOMAIN there.text /\ there.text[e[i].at] = Known(e[i])
    BY <1>13, <1>15 DEF Truth
<1>17. r.table[key] = [dir |-> d, file |-> e[1].name, at |-> e[i].at] /\ key = Known(e[i])
    BY <1>7, <1>8, <1>11 DEF EnteredAs
<1> QED BY <1>4, <1>16, <1>17 DEF FindFp

LEMMA FirstIsRight ==
    ASSUME DatabaseInv
    PROVE  FirstOnThePath
<1> SUFFICES ASSUME ReadHtDb(FALSE).at = "up", NEW key \in DOMAIN ReadHtDb(FALSE).table,
                    NEW k \in DOMAIN Path, NEW j \in DOMAIN Path,
                    Path[k] = ReadHtDb(FALSE).table[key].dir, j < k,
                    NEW m \in FirstListings(Listed(j)), NEW i \in DOMAIN Listed(j)[m]
             PROVE  Known(Listed(j)[m][i]) # key
    BY DEF FirstOnThePath, Listed
<1>1. PICK no \in BOOLEAN : no = FALSE
    OBVIOUS
<1>2. PICK r \in Reader : r = ReadHtDb(no) /\ Tabled(no, Len(Path), r)
    BY TableIs
<1>3. r = ReadHtDb(FALSE) /\ r.at = "up" /\ key \in DOMAIN r.table /\ Path[k] = r.table[key].dir
    BY <1>1, <1>2
<1>4. Origin(no, Len(Path), r.table, key)
    BY <1>2, <1>3 DEF Tabled
<1>5. PICK o \in 1 .. Len(Path) :
        /\ \E h, x \in Line : /\ Told(Listed(o), h, x) /\ EnteredAs(r.table, key, Path[o], h, x)
                              /\ Passes(no, Path[o], h)
        /\ \A p \in 1 .. o - 1 : \A h, x \in Line : Told(Listed(p), h, x) => Known(x) # key
    BY <1>4 DEF Origin
<1>6. Path[k] = Path[o]
    <2>1. PICK h \in Line, x \in Line : EnteredAs(r.table, key, Path[o], h, x)
        BY <1>5
    <2>2. r.table[key].dir = Path[o]
        BY <2>1 DEF EnteredAs
    <2> QED BY <1>3, <2>2
<1>7. k = o /\ k \in 1 .. Len(Path) /\ j \in 1 .. Len(Path) /\ Path[j] \in Dirs
    BY <1>6, PathFacts
<1>8. j \in 1 .. o - 1
    BY <1>7, PathFacts
<1>9. PICK lines \in Seq(Line) : lines = Database(Path[j])
    BY <1>7, StateFacts
<1> DEFINE es == Listed(j)
           e == es[m]
<1>10. es = Entries(lines) /\ es \in Seq(Entry)
    BY <1>9, EntriesType DEF Listed
<1>11. e \in Entry
    <2>1. m \in DOMAIN es
        BY DEF FirstListings
    <2> HIDE DEF es
    <2> QED BY <1>10, <2>1
<1>12. i \in 1 .. Len(e) /\ Len(e) \in Nat /\ e[1].kind = "file" /\ e[1] \in Line /\ e[i] \in Line
    <2>1. e \in Seq(Line) /\ e # <<>> /\ e[1].kind = "file"
        BY <1>11 DEF Entry
    <2>2. i \in DOMAIN e
        OBVIOUS
    <2> HIDE DEF e
    <2> QED BY <2>1, <2>2
<1>13. CASE i = 1
    <2>1. key \in Key
        BY <1>3, TableFacts DEF Reader
    <2>2. key.kind # "file"
        BY <2>1 DEF Key, Kinds
    <2>3. Known(e[i]).kind = "file"
        BY <1>12, <1>13 DEF Known
    <2> QED BY <2>2, <2>3
<1>14. CASE i # 1
    <2>1. i \in 2 .. Len(e)
        <3> HIDE DEF e
        <3> QED BY <1>12, <1>14
    <2>2. Told(es, e[1], e[i])
        BY <2>1 DEF Told
    <2> HIDE DEF e
    <2> QED BY <1>5, <1>8, <1>12, <2>2 DEF e
<1> QED BY <1>13, <1>14

(***************************************************************************)
(* A HyperDoc started at any time finds each page where its table says it  *)
(* is, and in the directory that comes first in HTPATH; hthits takes the   *)
(* pages, and nothing else, from the files as they were listed.            *)
(***************************************************************************)
THEOREM PlacesAlwaysRight == DatabaseSpec => []PlacesAreRight
<1>1. DatabaseInit => DatabaseInv
    BY InitKeeps
<1>2. DatabaseInv /\ [DatabaseNext]_databaseVars => DatabaseInv'
    BY NextKeeps
<1>3. DatabaseInv => PlacesAreRight
    BY FoundIsRight, FirstIsRight, HitsAreRight DEF PlacesAreRight, PagesAreFound
<1> QED BY <1>1, <1>2, <1>3, PTL DEF DatabaseSpec

=============================================================================
