----------------------------- MODULE ListLemmas -----------------------------
(***************************************************************************)
(* What happens to the linked lists of the session manager, the viewport   *)
(* manager and the hash tables: an entry is put in front, or taken out     *)
(* wherever it is.                                                         *)
(***************************************************************************)
EXTENDS SequencesExt, FiniteSetTheorems, SequenceTheorems, WellFoundedInduction, TLAPS

(* A set of numbers has a smallest one. *)
LEMMA LeastElement ==
  ASSUME NEW T \in SUBSET Nat, T # {}
  PROVE  \E x \in T : \A y \in T : x <= y
<1> DEFINE R == OpToRel(<, Nat)
<1>1. IsWellFoundedOn(R, Nat)
  BY NatLessThanWellFounded
<1>2. \A x, y \in Nat : y < x => <<y, x>> \in R
  BY DEF OpToRel
<1> HIDE DEF R
<1>3. \E x \in T : \A y \in T : ~ (<<y, x>> \in R)
  BY <1>1, WFMin
<1>4. \A x, y \in T : ~ (<<y, x>> \in R) => x <= y
  BY <1>2
<1> QED BY <1>3, <1>4

(* What holds of 0, and of n + 1 when it holds of n, holds of all numbers. *)
LEMMA Induct ==
  ASSUME NEW S \in SUBSET Nat, 0 \in S, \A n \in S : n + 1 \in S
  PROVE  \A n \in Nat : n \in S
<1> SUFFICES ASSUME NEW b \in Nat, b \notin S
             PROVE  FALSE
  OBVIOUS
<1>1. PICK x \in Nat \ S : \A y \in Nat \ S : x <= y
  <2>1. Nat \ S \in SUBSET Nat /\ Nat \ S # {}
    OBVIOUS
  <2> QED BY <2>1, LeastElement
<1>2. x # 0 /\ x - 1 \in Nat /\ ~(x <= x - 1)
  BY <1>1
<1>3. x - 1 \in S
  BY <1>1, <1>2
<1>4. (x - 1) + 1 = x
  BY <1>2
<1> QED BY <1>1, <1>3, <1>4

(* f starts with a and takes n steps of g. *)
Iterates(f, a, n, g) == f[0] = a /\ \A m \in 1 .. n : f[m] = g[<<f[m - 1], m>>]

LEMMA Recursion ==
  ASSUME NEW S, NEW a \in S, NEW n \in Nat, NEW g \in [S \X (1 .. n) -> S]
  PROVE  \E f \in [0 .. n -> S] : Iterates(f, a, n, g)
<1> DEFINE Good(k, f) == f[0] = a /\ \A m \in 1 .. k : f[m] = g[<<f[m - 1], m>>]
           K == {k \in Nat : k <= n => \E f \in [0 .. k -> S] : Good(k, f)}
<1>1. 0 \in K
  <2> DEFINE f == [m \in 0 .. 0 |-> a]
  <2>1. f \in [0 .. 0 -> S] /\ f[0] = a /\ 1 .. 0 = {}
    OBVIOUS
  <2> QED BY <2>1
<1>2. ASSUME NEW k \in K
      PROVE  k + 1 \in K
  <2> SUFFICES ASSUME k + 1 <= n
               PROVE  \E f \in [0 .. k + 1 -> S] : Good(k + 1, f)
    OBVIOUS
  <2>1. k \in Nat /\ k <= n /\ k + 1 \in 1 .. n
    OBVIOUS
  <2>2. PICK f \in [0 .. k -> S] : Good(k, f)
    BY <2>1
  <2> DEFINE last == g[<<f[k], k + 1>>]
             h == [m \in 0 .. k + 1 |-> IF m = k + 1 THEN last ELSE f[m]]
  <2>3. last \in S
    BY <2>1, <2>2
  <2> HIDE DEF last
  <2>4. h \in [0 .. k + 1 -> S]
    BY <2>1, <2>2, <2>3
  <2>5. \A m \in 0 .. k : h[m] = f[m]
    BY <2>1
  <2>6. h[k + 1] = last /\ h[k] = f[k] /\ h[0] = a
    BY <2>1, <2>2, <2>5
  <2> HIDE DEF h
  <2>7. ASSUME NEW m \in 1 .. k + 1
        PROVE  h[m] = g[<<h[m - 1], m>>]
    <3>1. CASE m = k + 1
      <4>1. m - 1 = k
        BY <2>1, <3>1
      <4> QED BY <2>6, <3>1, <4>1 DEF last
    <3>2. CASE m # k + 1
      <4>1. m \in 1 .. k /\ m \in 0 .. k /\ m - 1 \in 0 .. k
        BY <2>1, <3>2
      <4> QED BY <2>2, <2>5, <4>1
    <3> QED BY <3>1, <3>2
  <2> QED BY <2>4, <2>6, <2>7
<1>3. n \in K
  <2> HIDE DEF Good
  <2>1. K \in SUBSET Nat
    OBVIOUS
  <2> HIDE DEF K
  <2> QED BY <1>1, <1>2, <2>1, Induct
<1> QED BY <1>3 DEF Iterates

LEMMA AppendItems ==
  ASSUME NEW S, NEW s \in Seq(S), NEW x \in S
  PROVE  LET t == Append(s, x)
         IN  /\ t \in Seq(S) /\ Len(t) = Len(s) + 1 /\ t # <<>> /\ t[Len(s) + 1] = x
             /\ \A i \in 1 .. Len(s) : t[i] = s[i]
             /\ t = [i \in 1 .. Len(s) + 1 |-> IF i = Len(s) + 1 THEN x ELSE s[i]]
<1> DEFINE n == Len(s)
           t == Append(s, x)
<1>1. /\ n \in Nat /\ t \in Seq(S) /\ Len(t) = n + 1 /\ t[n + 1] = x /\ DOMAIN t = 1 .. n + 1
      /\ \A i \in 1 .. n : t[i] = s[i]
  OBVIOUS
<1> HIDE DEF n, t
<1>2. t = [i \in 1 .. n + 1 |-> t[i]]
  <2>1. t \in [1 .. n + 1 -> S]
    BY <1>1
  <2> QED BY <2>1
<1>3. t # <<>>
  BY <1>1
<1>4. \A i \in 1 .. n + 1 : t[i] = IF i = n + 1 THEN x ELSE s[i]
  <2>1. \A i \in 1 .. n + 1 : i = n + 1 \/ i \in 1 .. n
    BY <1>1
  <2> QED BY <1>1, <2>1
<1>5. t = [i \in 1 .. n + 1 |-> IF i = n + 1 THEN x ELSE s[i]]
  BY <1>2, <1>4
<1> QED BY <1>1, <1>3, <1>5 DEF n, t

LEMMA AppendRange ==
  ASSUME NEW S, NEW s \in Seq(S), NEW x \in S
  PROVE  Range(Append(s, x)) = Range(s) \union {x}
<1> DEFINE n == Len(s)
           t == Append(s, x)
<1>1. /\ n \in Nat /\ t \in Seq(S) /\ Len(t) = n + 1 /\ t[n + 1] = x
      /\ \A i \in 1 .. n : t[i] = s[i]
  BY AppendItems
<1>2. DOMAIN t = 1 .. n + 1 /\ DOMAIN s = 1 .. n
  BY <1>1
<1> HIDE DEF n, t
<1>3. \A i \in 1 .. n + 1 : i = n + 1 \/ i \in 1 .. n
  BY <1>1
<1>4. n + 1 \in 1 .. n + 1 /\ \A i \in 1 .. n : i \in 1 .. n + 1
  BY <1>1
<1> QED BY <1>1, <1>2, <1>3, <1>4 DEF Range, t

(* Removing an element moves those behind it one place on. *)
LEMMA RemoveAtItems ==
  ASSUME NEW S, NEW s \in Seq(S), NEW i \in DOMAIN s
  PROVE  LET r == RemoveAt(s, i)
         IN  /\ r \in Seq(S) /\ Len(s) \in Nat /\ i \in 1..Len(s) /\ DOMAIN s = 1..Len(s)
             /\ DOMAIN r = 1..(Len(s) - 1)
             /\ \A j \in 1..(Len(s) - 1) : r[j] = IF j < i THEN s[j] ELSE s[j + 1]
<1> DEFINE r == RemoveAt(s, i)
           p == SubSeq(s, 1, i - 1)
           q == SubSeq(s, i + 1, Len(s))
<1>1. Len(s) \in Nat /\ DOMAIN s = 1..Len(s) /\ i \in 1..Len(s)
  OBVIOUS
<1>2. /\ p \in Seq(S) /\ Len(p) = i - 1
      /\ \A j \in 1..(i - 1) : p[j] = s[j]
  BY <1>1
<1>3. /\ q \in Seq(S) /\ Len(q) = Len(s) - i
      /\ \A j \in 1..(Len(s) - i) : q[j] = s[i + j]
  <2>1. i + 1 \in Int /\ Len(s) \in Int /\ \A j \in (i + 1)..Len(s) : s[j] \in S
    BY <1>1
  <2>2. /\ q \in Seq(S)
        /\ Len(q) = IF i + 1 <= Len(s) THEN Len(s) - (i + 1) + 1 ELSE 0
        /\ \A j \in 1..(Len(s) - (i + 1) + 1) : q[j] = s[(i + 1) + j - 1]
    BY <2>1, SubSeqProperties
  <2> HIDE DEF q
  <2>3. Len(q) = Len(s) - i
    BY <1>1, <2>2
  <2>4. ASSUME NEW j \in 1..(Len(s) - i)
        PROVE  q[j] = s[i + j]
    <3>1. j \in 1..(Len(s) - (i + 1) + 1) /\ (i + 1) + j - 1 = i + j
      BY <1>1
    <3> QED BY <2>2, <3>1
  <2> QED BY <2>2, <2>3, <2>4
<1> HIDE DEF p, q
<1>4. /\ p \o q \in Seq(S) /\ DOMAIN (p \o q) = 1..(Len(s) - 1)
      /\ \A j \in 1..(Len(s) - 1) :
           (p \o q)[j] = IF j < i THEN s[j] ELSE s[j + 1]
  <2>1. /\ p \o q \in Seq(S) /\ Len(p \o q) = Len(p) + Len(q)
        /\ \A j \in 1..(Len(p) + Len(q)) :
             (p \o q)[j] = IF j <= Len(p) THEN p[j] ELSE q[j - Len(p)]
    BY <1>2, <1>3, ConcatProperties
  <2>2. DOMAIN (p \o q) = 1..Len(p \o q)
    BY <2>1, LenProperties
  <2> DEFINE c == p \o q
  <2> HIDE DEF c
  <2>3. /\ c \in Seq(S) /\ DOMAIN c = 1..(Len(s) - 1)
        /\ \A j \in 1..(Len(s) - 1) :
             c[j] = IF j <= i - 1 THEN p[j] ELSE q[j - (i - 1)]
    BY <1>1, <1>2, <1>3, <2>1, <2>2 DEF c
  <2>4. ASSUME NEW j \in 1..(Len(s) - 1)
        PROVE  c[j] = IF j < i THEN s[j] ELSE s[j + 1]
    <3>1. CASE j < i
      BY <1>1, <1>2, <2>3, <3>1
    <3>2. CASE ~(j < i)
      <4>1. ~(j <= i - 1) /\ j - (i - 1) \in 1..(Len(s) - i)
        BY <1>1, <3>2
      <4>2. i + (j - (i - 1)) = j + 1
        BY <1>1
      <4>3. c[j] = q[j - (i - 1)]
        BY <2>3, <4>1
      <4> QED BY <1>3, <3>2, <4>1, <4>2, <4>3
    <3> QED BY <3>1, <3>2
  <2> QED BY <2>3, <2>4 DEF c
<1>5. r = p \o q
  BY DEF RemoveAt, p, q
<1> QED BY <1>1, <1>4, <1>5

(* Removing an element of a list without repetitions makes it one shorter,
   removes it from the set of the list's elements and leaves no repetition. *)
LEMMA RemoveAtInjective ==
  ASSUME NEW S, NEW s \in Seq(S), NEW i \in DOMAIN s,
         \A j, k \in DOMAIN s : s[j] = s[k] => j = k
  PROVE  LET r == RemoveAt(s, i)
         IN  /\ r \in Seq(S) /\ Len(r) = Len(s) - 1
             /\ Range(r) = Range(s) \ {s[i]}
             /\ \A j, k \in DOMAIN r : r[j] = r[k] => j = k
<1> DEFINE r == RemoveAt(s, i)
           old(j) == IF j < i THEN j ELSE j + 1
<1>1. /\ r \in Seq(S) /\ Len(s) \in Nat /\ i \in 1..Len(s) /\ DOMAIN s = 1..Len(s)
      /\ DOMAIN r = 1..(Len(s) - 1)
      /\ \A j \in 1..(Len(s) - 1) : r[j] = s[old(j)]
  BY RemoveAtItems
<1>2. \A j \in DOMAIN r : old(j) \in DOMAIN s \ {i} /\ r[j] = s[old(j)]
  BY <1>1
<1>3. \A m \in DOMAIN s \ {i} : \E j \in DOMAIN r : old(j) = m
  <2> SUFFICES ASSUME NEW m \in DOMAIN s \ {i}
               PROVE  \E j \in DOMAIN r : old(j) = m
    OBVIOUS
  <2>1. CASE m < i
    <3>1. m \in DOMAIN r /\ old(m) = m
      BY <1>1, <2>1
    <3> QED BY <3>1
  <2>2. CASE m > i
    <3>1. m - 1 \in DOMAIN r /\ old(m - 1) = m
      BY <1>1, <2>2
    <3> QED BY <3>1
  <2> QED BY <1>1, <2>1, <2>2
<1>4. \A j, k \in DOMAIN r : old(j) = old(k) => j = k
  BY <1>1
<1> HIDE DEF r, old
<1>5. Range(r) = Range(s) \ {s[i]}
  BY <1>2, <1>3 DEF Range
<1>6. \A j, k \in DOMAIN r : r[j] = r[k] => j = k
  BY <1>2, <1>4
<1>7. Len(r) = Len(s) - 1
  <2>1. Len(r) \in Nat /\ DOMAIN r = 1..Len(r)
    BY <1>1, LenProperties
  <2> DEFINE m == Len(s) - 1
             n == Len(r)
  <2>2. m \in Nat
    BY <1>1
  <2>3. 1..n = 1..m
    BY <1>1, <2>1
  <2> HIDE DEF m, n
  <2>4. n \in Nat
    BY <2>1 DEF n
  <2>5. (n \in 1..n => n \in 1..m) /\ (m \in 1..m => m \in 1..n)
    BY <2>3, Zenon
  <2>6. n = m
    BY <2>2, <2>4, <2>5
  <2> QED BY <2>6 DEF m, n
<1> QED BY <1>1, <1>5, <1>6, <1>7 DEF r

(* Taking an entry out leaves a list of the same things. *)
LEMMA RemoveAtType ==
  ASSUME NEW S, NEW s \in Seq(S), NEW i \in DOMAIN s
  PROVE  RemoveAt(s, i) \in Seq(S)
BY DEF RemoveAt

(* An element put in front moves the others one place back. *)
LEMMA FrontItems ==
  ASSUME NEW S, NEW s \in Seq(S), NEW x \in S
  PROVE  LET r == <<x>> \o s
         IN  /\ r \in Seq(S) /\ Len(s) \in Nat /\ DOMAIN s = 1..Len(s)
             /\ DOMAIN r = 1..(Len(s) + 1) /\ Len(r) = Len(s) + 1
             /\ \A j \in 1..(Len(s) + 1) : r[j] = IF j = 1 THEN x ELSE s[j - 1]
OBVIOUS

(* A new element put in front is the only one that is new. *)
LEMMA FrontInjective ==
  ASSUME NEW S, NEW s \in Seq(S), NEW x \in S, x \notin Range(s),
         \A j, k \in DOMAIN s : s[j] = s[k] => j = k
  PROVE  LET r == <<x>> \o s
         IN  /\ r \in Seq(S) /\ Len(r) = Len(s) + 1
             /\ Range(r) = Range(s) \cup {x}
             /\ \A j, k \in DOMAIN r : r[j] = r[k] => j = k
<1> DEFINE r == <<x>> \o s
<1>1. /\ r \in Seq(S) /\ Len(s) \in Nat /\ DOMAIN s = 1..Len(s)
      /\ DOMAIN r = 1..(Len(s) + 1) /\ Len(r) = Len(s) + 1
      /\ \A j \in 1..(Len(s) + 1) : r[j] = IF j = 1 THEN x ELSE s[j - 1]
  OBVIOUS
<1> HIDE DEF r
<1>2. \A j \in DOMAIN s : j + 1 \in DOMAIN r /\ r[j + 1] = s[j]
  BY <1>1
<1>3. \A j \in DOMAIN r \ {1} : j - 1 \in DOMAIN s /\ r[j] = s[j - 1]
  BY <1>1
<1>4. 1 \in DOMAIN r /\ r[1] = x
  BY <1>1
<1>5. Range(r) = Range(s) \cup {x}
  BY <1>2, <1>3, <1>4 DEF Range
<1>6. \A j \in DOMAIN s : s[j] # x
  BY DEF Range
<1>7. \A j, k \in DOMAIN r : r[j] = r[k] => j = k
  BY <1>1, <1>3, <1>4, <1>6
<1> QED BY <1>1, <1>5, <1>7 DEF r

(* The tail of a list holds what the list does, but for its head. *)
LEMMA TailRange ==
  ASSUME NEW S, NEW s \in Seq(S), s # <<>>
  PROVE  /\ Tail(s) \in Seq(S) /\ Len(Tail(s)) = Len(s) - 1
         /\ Head(s) \in S /\ Head(s) \in Range(s)
         /\ Range(s) = Range(Tail(s)) \cup {Head(s)}
<1>1. /\ Len(s) \in Nat \ {0} /\ DOMAIN s = 1..Len(s) /\ Head(s) = s[1]
      /\ Tail(s) \in Seq(S) /\ Len(Tail(s)) = Len(s) - 1 /\ Head(s) \in S
  OBVIOUS
<1>2. /\ DOMAIN Tail(s) = 1..(Len(s) - 1)
      /\ \A i \in 1..(Len(s) - 1) : Tail(s)[i] = s[i + 1]
  BY <1>1
<1> DEFINE t == Tail(s)
<1> HIDE DEF t
<1>3. \A i \in DOMAIN t : i + 1 \in DOMAIN s /\ t[i] = s[i + 1]
  BY <1>1, <1>2 DEF t
<1>4. \A i \in DOMAIN s \ {1} : i - 1 \in DOMAIN t /\ s[i] = t[i - 1]
  BY <1>1, <1>2 DEF t
<1>5. 1 \in DOMAIN s
  BY <1>1
<1>6. Range(s) = Range(t) \cup {Head(s)}
  BY <1>1, <1>3, <1>4, <1>5 DEF Range
<1> QED BY <1>1, <1>5, <1>6 DEF Range, t

(* There are as many things in a list without repetitions as it is long. *)
LEMMA ListCardinality ==
  ASSUME NEW S, NEW s \in Seq(S),
         \A j, k \in DOMAIN s : s[j] = s[k] => j = k
  PROVE  IsFiniteSet(Range(s)) /\ Cardinality(Range(s)) = Len(s)
<1>1. Len(s) \in Nat /\ DOMAIN s = 1..Len(s) /\ s \in [1..Len(s) -> S]
  OBVIOUS
<1>2. s \in [1..Len(s) -> Range(s)]
  BY <1>1 DEF Range
<1>3. s \in Surjection(1..Len(s), Range(s))
  BY <1>1, <1>2 DEF Surjection, Range
<1>4. s \in Injection(1..Len(s), Range(s))
  BY <1>1, <1>2 DEF Injection, IsInjective
<1>5. IsFiniteSet(1..Len(s)) /\ Cardinality(1..Len(s)) = Len(s)
  BY <1>1, FS_Interval
<1> QED BY <1>3, <1>4, <1>5, FS_Surjection
=============================================================================
