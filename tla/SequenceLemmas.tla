--------------------------- MODULE SequenceLemmas ---------------------------
(***************************************************************************)
(* What the sequence operators that the models are built from return.      *)
(*                                                                         *)
(* Induction is over sets: a set of numbers that holds 1, and with each    *)
(* number the next, holds all of them.                                     *)
(***************************************************************************)
EXTENDS Integers, SequencesExt, FiniteSetTheorems, WellFoundedInduction, TLAPS

\* Every set of natural numbers that is not empty has a least element.
LEMMA LeastNumber ==
  ASSUME NEW T \in SUBSET Nat, T # {}
  PROVE  \E n \in T : \A m \in T : n <= m
<1>1. PICK R : R = {p \in Nat \X Nat : p[1] < p[2]}
  OBVIOUS
<1>2. IsWellFoundedOn(R, Nat)
  BY <1>1, NatLessThanWellFounded, Zenon DEF OpToRel
<1>3. PICK n \in T : \A m \in T : <<m, n>> \notin R
  BY <1>2, WFMin
<1>4. \A m \in T : ~(m < n)
  BY <1>1, <1>3
<1>5. QED
  BY <1>3, <1>4

\* Induction from a to b, with the set T of the numbers at which a claim holds.
LEMMA Induction ==
  ASSUME NEW a \in Nat, NEW b \in Nat, NEW T,
         a \in T, \A n \in a..(b - 1) : n \in T => n + 1 \in T
  PROVE  \A n \in a..b : n \in T
<1>1. PICK Failures : Failures = {n \in a..b : n \notin T}
  OBVIOUS
<1>2. SUFFICES ASSUME NEW m \in Failures, \A k \in Failures : m <= k
               PROVE  FALSE
  <2>1. Failures \in SUBSET Nat
    BY <1>1
  <2>2. Failures = {}
    BY <1>2, <2>1, LeastNumber
  <2>3. QED
    BY <1>1, <2>2
<1>3. m \in a..b /\ m \notin T /\ m # a
  BY <1>1, <1>2
<1>4. m - 1 \in a..(b - 1) /\ m - 1 \notin Failures /\ m = (m - 1) + 1
  BY <1>2, <1>3
<1>5. m - 1 \in T
  BY <1>1, <1>3, <1>4
<1>6. QED
  BY <1>3, <1>4, <1>5

\* Max of a set of numbers up to n is its greatest.
LEMMA GreatestNumber ==
  ASSUME NEW n \in Nat, NEW T \in SUBSET (0..n), T # {}
  PROVE  Max(T) \in T /\ \A m \in T : m <= Max(T)
<1>1. PICK Rest : Rest = {n - m : m \in T}
  OBVIOUS
<1>2. Rest \in SUBSET Nat /\ Rest # {}
  <2>1. \A m \in T : m \in 0..n
    OBVIOUS
  <2>2. \A m \in 0..n : n - m \in Nat
    OBVIOUS
  <2>3. QED
    BY <1>1, <2>1, <2>2
<1>3. PICK k \in Rest : \A m \in Rest : k <= m
  BY <1>2, LeastNumber
<1>4. PICK x \in T : k = n - x
  BY <1>1
<1>5. \A m \in T : n - x <= n - m
  BY <1>1, <1>3, <1>4
<1>6. \A m \in T : x >= m
  BY <1>5
<1>7. \E y \in T : \A m \in T : y >= m
  BY <1>6
<1>8. Max(T) \in T /\ \A m \in T : Max(T) >= m
  BY <1>7, Zenon DEF Max
<1>9. QED
  BY <1>8

\* Max of a finite set of numbers is its greatest.
LEMMA GreatestOfFinite ==
  ASSUME NEW T \in SUBSET Nat, IsFiniteSet(T), T # {}
  PROVE  Max(T) \in T /\ \A m \in T : m <= Max(T)
<1>1. PICK c \in Nat : ExistsSurjection(1..c, T)
  BY FS_NatSurjection
<1>2. PICK f : f \in [1..c -> T] /\ \A m \in T : \E i \in 1..c : f[i] = m
  BY <1>1 DEF ExistsSurjection, Surjection
<1>3. PICK B : B = {i \in 0..c : \E n \in Nat : \A k \in 1..i : f[k] <= n}
  OBVIOUS
<1>4. 0 \in B
  BY <1>3
<1>5. ASSUME NEW i \in 0..(c - 1), i \in B
      PROVE  i + 1 \in B
  <2>1. PICK n \in Nat : \A k \in 1..i : f[k] <= n
    BY <1>3, <1>5
  <2>6. /\ i + 1 \in 1..c /\ i + 1 \in 0..c
        /\ \A k \in 1..i : k \in 1..c
    OBVIOUS
  <2>7. \A k \in 1..c : f[k] \in T
    BY <1>2
  <2>2. i + 1 \in 0..c /\ f[i + 1] \in Nat
    BY <2>6, <2>7
  <2>3. \A k \in 1..i : f[k] \in Nat
    BY <2>6, <2>7
  <2>4. n + f[i + 1] \in Nat /\ \A k \in 1..(i + 1) : f[k] <= n + f[i + 1]
    BY <2>1, <2>2, <2>3
  <2>5. QED
    BY <1>3, <2>2, <2>4
<1>6. c \in B
  <2>1. c \in 0..c
    OBVIOUS
  <2>2. QED
    BY <1>4, <1>5, <2>1, Induction
<1>7. PICK n \in Nat : \A k \in 1..c : f[k] <= n
  BY <1>3, <1>6
<1>8. T \in SUBSET (0..n)
  BY <1>2, <1>7
<1>9. QED
  BY <1>8, GreatestNumber

-----------------------------------------------------------------------------
(* Elements                                                                *)

\* An element of a sequence over S is in S.
LEMMA ElementIn ==
  ASSUME NEW S, NEW s \in Seq(S), NEW i \in DOMAIN s
  PROVE  s[i] \in S /\ i \in Nat \ {0}
OBVIOUS

\* A sequence is one of its own elements.
LEMMA OwnElements ==
  ASSUME NEW S, NEW s \in Seq(S)
  PROVE  s \in Seq(ToSet(s)) /\ ToSet(s) \subseteq S
<1>1. DOMAIN s = 1..Len(s) /\ Len(s) \in Nat /\ \A i \in DOMAIN s : s[i] \in S
  OBVIOUS
<1>2. PICK T : T = ToSet(s)
  OBVIOUS
<1>3. \A i \in DOMAIN s : s[i] \in T
  BY <1>2 DEF ToSet
<1>4. s \in Seq(T)
  BY <1>1, <1>3
<1>5. ToSet(s) \subseteq S
  BY <1>1 DEF ToSet
<1>6. QED
  BY <1>2, <1>4, <1>5

\* Append adds one element at the end and changes no other.
LEMMA Appended ==
  ASSUME NEW S, NEW s \in Seq(S), NEW x
  PROVE  /\ Append(s, x) \in Seq(S \cup {x}) /\ Len(Append(s, x)) = Len(s) + 1
         /\ DOMAIN Append(s, x) = DOMAIN s \cup {Len(s) + 1}
         /\ Len(s) + 1 \notin DOMAIN s
         /\ Append(s, x)[Len(s) + 1] = x
         /\ \A i \in DOMAIN s : Append(s, x)[i] = s[i]
<1>1. x \in S \cup {x} /\ s \in Seq(S \cup {x})
  OBVIOUS
<1>2. Append(s, x) \in Seq(S \cup {x}) /\ Len(Append(s, x)) = Len(s) + 1
  BY <1>1
<1>3. /\ Append(s, x)[Len(s) + 1] = x
      /\ \A i \in 1..Len(s) : Append(s, x)[i] = s[i]
  BY <1>1
<1>4. Len(s) \in Nat /\ DOMAIN s = 1..Len(s)
  OBVIOUS
<1>5. DOMAIN Append(s, x) = 1..(Len(s) + 1)
  BY <1>2
<1>6. QED
  BY <1>2, <1>3, <1>4, <1>5

\* The head and the tail have the elements of the sequence.
LEMMA HeadAndTail ==
  ASSUME NEW S, NEW s \in Seq(S), s # <<>>
  PROVE  /\ Head(s) \in ToSet(s) /\ Head(s) \in S
         /\ Tail(s) \in Seq(S)
         /\ ToSet(s) = {Head(s)} \cup ToSet(Tail(s))
<1>1. Head(s) = s[1] /\ 1 \in DOMAIN s /\ s[1] \in S
  OBVIOUS
<1>2. PICK t : t = Tail(s)
  OBVIOUS
<1>8. t \in Seq(S)
  BY <1>2
<1>3. /\ \A i \in DOMAIN t : i + 1 \in DOMAIN s /\ t[i] = s[i + 1]
      /\ \A i \in DOMAIN s : i # 1 => i - 1 \in DOMAIN t /\ t[i - 1] = s[i]
  BY <1>2
<1>4. ToSet(t) \subseteq ToSet(s)
  BY <1>3 DEF ToSet
<1>5. \A x \in ToSet(s) : x = s[1] \/ x \in ToSet(t)
  BY <1>3 DEF ToSet
<1>6. s[1] \in ToSet(s)
  BY <1>1 DEF ToSet
<1>7. QED
  BY <1>1, <1>2, <1>4, <1>5, <1>6, <1>8

\* The sequence of one element.
LEMMA Single ==
  ASSUME NEW S, NEW x \in S
  PROVE  <<x>> \in Seq(S) /\ ToSet(<<x>>) = {x}
<1>1. DOMAIN <<x>> = {1} /\ <<x>>[1] = x
  OBVIOUS
<1>2. QED
  BY <1>1 DEF ToSet

\* The sequence of two elements.
LEMMA Pair ==
  ASSUME NEW S, NEW x \in S, NEW y \in S
  PROVE  <<x, y>> \in Seq(S) /\ ToSet(<<x, y>>) = {x, y}
<1>1. PICK s : s = <<x, y>>
  OBVIOUS
<1>2. s \in Seq(S) /\ DOMAIN s = {1, 2} /\ s[1] = x /\ s[2] = y
  BY <1>1
<1>3. QED
  BY <1>1, <1>2 DEF ToSet

\* What two sequences hold together.
LEMMA ConcatElements ==
  ASSUME NEW S, NEW s \in Seq(S), NEW t \in Seq(S)
  PROVE  /\ s \o t \in Seq(S)
         /\ ToSet(s \o t) = ToSet(s) \cup ToSet(t)
<1>1. /\ s \o t \in Seq(S)
      /\ DOMAIN (s \o t) = 1..(Len(s) + Len(t))
      /\ \A i \in 1..(Len(s) + Len(t)) :
           (s \o t)[i] = IF i <= Len(s) THEN s[i] ELSE t[i - Len(s)]
      /\ DOMAIN s = 1..Len(s) /\ DOMAIN t = 1..Len(t) /\ Len(s) \in Nat /\ Len(t) \in Nat
  OBVIOUS
<1>2. ASSUME NEW x \in ToSet(s \o t)
      PROVE  x \in ToSet(s) \cup ToSet(t)
  <2>1. PICK i \in 1..(Len(s) + Len(t)) : x = (s \o t)[i]
    BY <1>1, <1>2 DEF ToSet
  <2>2. CASE i <= Len(s)
    BY <1>1, <2>1, <2>2 DEF ToSet
  <2>3. CASE ~(i <= Len(s))
    <3>1. x = t[i - Len(s)] /\ i - Len(s) \in DOMAIN t
      BY <1>1, <2>1, <2>3
    <3>2. QED
      BY <3>1 DEF ToSet
  <2>4. QED
    BY <2>2, <2>3
<1>3. ToSet(s) \subseteq ToSet(s \o t)
  BY <1>1 DEF ToSet
<1>4. ASSUME NEW x \in ToSet(t)
      PROVE  x \in ToSet(s \o t)
  <2>1. PICK i \in DOMAIN t : x = t[i]
    BY <1>4 DEF ToSet
  <2>2. i + Len(s) \in DOMAIN (s \o t) /\ (s \o t)[i + Len(s)] = t[i]
    BY <1>1, <2>1
  <2>3. QED
    BY <2>1, <2>2 DEF ToSet
<1>5. QED
  BY <1>1, <1>2, <1>3, <1>4

-----------------------------------------------------------------------------
(* FlattenSeq                                                              *)

\* f is FlattenSeq's own function, of the first n sequences.
Flattens(f, ss, n) ==
  f = [i \in 1..n |-> IF i = 1 THEN ss[i] ELSE f[i - 1] \o ss[i]]

\* Such a function goes on for one sequence more.
LEMMA FlattensOneMore ==
  ASSUME NEW ss, NEW m \in Nat \ {0}, NEW g, Flattens(g, ss, m)
  PROVE  \E f : Flattens(f, ss, m + 1)
<1>1. PICK f : f = [i \in 1..(m + 1) |-> IF i = m + 1 THEN g[m] \o ss[m + 1] ELSE g[i]]
  OBVIOUS
<1>2. m + 1 \in 1..(m + 1) /\ m \in 1..m /\ m + 1 # 1 /\ (m + 1) - 1 = m
  OBVIOUS
<1>3. \A i \in 1..m : i \in 1..(m + 1) /\ i # m + 1 /\ (i # 1 => i - 1 \in 1..m)
  OBVIOUS
<1>4. \A i \in 1..m : f[i] = g[i]
  BY <1>1, <1>3, Zenon
<1>5. \A i \in 1..m : g[i] = IF i = 1 THEN ss[i] ELSE g[i - 1] \o ss[i]
  BY Zenon DEF Flattens
<1>6. \A i \in 1..m : f[i] = IF i = 1 THEN ss[i] ELSE f[i - 1] \o ss[i]
  BY <1>3, <1>4, <1>5, Zenon
<1>7. f[m + 1] = f[(m + 1) - 1] \o ss[m + 1]
  BY <1>1, <1>2, <1>4, Zenon
<1>8. \A i \in 1..(m + 1) : i = m + 1 \/ i \in 1..m
  OBVIOUS
<1>9. \A i \in 1..(m + 1) : f[i] = IF i = 1 THEN ss[i] ELSE f[i - 1] \o ss[i]
  BY <1>2, <1>6, <1>7, <1>8, Zenon
<1>10. f = [i \in 1..(m + 1) |-> IF i = 1 THEN ss[i] ELSE f[i - 1] \o ss[i]]
  BY <1>1, <1>9
<1>11. QED
  BY <1>10, Zenon DEF Flattens

\* A sequence of sequences can be flattened, from its first element on.
LEMMA FlattensExists ==
  ASSUME NEW ss, NEW n \in Nat \ {0}
  PROVE  \E f : Flattens(f, ss, n)
<1>1. PICK T : T = {m \in Nat \ {0} : \E f : Flattens(f, ss, m)}
  OBVIOUS
<1>2. 1 \in T
  <2>1. Flattens([i \in 1..1 |-> ss[i]], ss, 1)
    BY DEF Flattens
  <2>2. QED
    BY <1>1, <2>1
<1>3. ASSUME NEW m \in 1..(n - 1), m \in T
      PROVE  m + 1 \in T
  <2>1. m + 1 \in Nat \ {0}
    BY <1>3
  <2>2. QED
    BY <1>1, <1>3, <2>1, FlattensOneMore
<1>4. n \in 1..n
  OBVIOUS
<1>5. n \in T
  BY <1>2, <1>3, <1>4, Induction
<1>6. QED
  BY <1>1, <1>5

\* FlattenSeq is the last value of such a function.
LEMMA FlattenSeqIs ==
  ASSUME NEW S, NEW ss \in Seq(Seq(S)), ss # <<>>
  PROVE  \E f : Flattens(f, ss, Len(ss)) /\ FlattenSeq(ss) = f[Len(ss)]
<1>1. Len(ss) \in Nat \ {0}
  OBVIOUS
<1>2. \E f : Flattens(f, ss, Len(ss))
  BY <1>1, FlattensExists
<1>3. PICK f : f = CHOOSE g : g = [i \in 1..Len(ss) |-> IF i = 1 THEN ss[i] ELSE g[i - 1] \o ss[i]]
  OBVIOUS
<1>4. Flattens(f, ss, Len(ss))
  BY <1>2, <1>3, Zenon DEF Flattens
<1>5. FlattenSeq(ss) = f[Len(ss)]
  BY <1>1, <1>3, Zenon DEF FlattenSeq
<1>6. QED
  BY <1>4, <1>5

\* FlattenSeq runs sequences together: what is in one of them, and nothing else,
\* is in the result.
LEMMA Flattened ==
  ASSUME NEW S, NEW ss \in Seq(Seq(S))
  PROVE  /\ FlattenSeq(ss) \in Seq(S)
         /\ ToSet(FlattenSeq(ss)) = UNION {ToSet(ss[i]) : i \in DOMAIN ss}
<1>1. CASE ss = <<>>
  BY <1>1 DEF FlattenSeq, ToSet
<1>2. CASE ss # <<>>
  <2>1. Len(ss) \in Nat \ {0} /\ DOMAIN ss = 1..Len(ss)
    BY <1>2
  <2>2. PICK f : Flattens(f, ss, Len(ss)) /\ FlattenSeq(ss) = f[Len(ss)]
    BY <1>2, FlattenSeqIs
  <2>3. \A i \in 1..Len(ss) : f[i] = IF i = 1 THEN ss[i] ELSE f[i - 1] \o ss[i]
    BY <2>2, Zenon DEF Flattens
  <2>4. PICK T : T = {i \in 1..Len(ss) :
                        /\ f[i] \in Seq(S)
                        /\ \A x : x \in ToSet(f[i]) <=> \E k \in 1..i : x \in ToSet(ss[k])}
    OBVIOUS
  <2>5. 1 \in T
    <3>1. f[1] = ss[1] /\ ss[1] \in Seq(S)
      BY <2>1, <2>3
    <3>2. \A k \in 1..1 : k = 1
      OBVIOUS
    <3>3. QED
      BY <2>1, <2>4, <3>1, <3>2
  <2>6. ASSUME NEW m \in 1..(Len(ss) - 1), m \in T
        PROVE  m + 1 \in T
    <3>1. /\ m + 1 \in 1..Len(ss) /\ m + 1 # 1 /\ (m + 1) - 1 = m
          /\ \A k : k \in 1..(m + 1) <=> k \in 1..m \/ k = m + 1
      BY <2>1
    <3>2. f[m + 1] = f[m] \o ss[m + 1]
      BY <2>3, <3>1, Zenon
    <3>3. /\ f[m] \in Seq(S)
          /\ \A x : x \in ToSet(f[m]) <=> \E k \in 1..m : x \in ToSet(ss[k])
      BY <2>4, <2>6
    <3>4. ss[m + 1] \in Seq(S)
      BY <3>1
    <3>5. /\ f[m + 1] \in Seq(S)
          /\ ToSet(f[m + 1]) = ToSet(f[m]) \cup ToSet(ss[m + 1])
      BY <3>2, <3>3, <3>4, ConcatElements
    <3>6. \A x : x \in ToSet(f[m + 1]) <=> \E k \in 1..(m + 1) : x \in ToSet(ss[k])
      BY <3>1, <3>3, <3>5, Zenon
    <3>7. QED
      BY <2>4, <3>1, <3>5, <3>6
  <2>7. Len(ss) \in T
    <3>1. Len(ss) \in 1..Len(ss) /\ Len(ss) \in Nat
      BY <2>1
    <3>2. QED
      BY <2>5, <2>6, <3>1, Induction
  <2>8. QED
    BY <2>1, <2>2, <2>4, <2>7
<1>3. QED
  BY <1>1, <1>2

\* A function on 1..n is a sequence of that length.
LEMMA Listed ==
  ASSUME NEW n \in Nat, NEW t, t = [i \in 1..n |-> t[i]]
  PROVE  t \in Seq(ToSet(t)) /\ Len(t) = n /\ DOMAIN t = 1..n
<1>1. PICK T : T = ToSet(t)
  OBVIOUS
<1>2. DOMAIN t = 1..n
  OBVIOUS
<1>3. \A i \in 1..n : t[i] \in T
  BY <1>1, <1>2 DEF ToSet
<1>4. t \in [1..n -> T]
  BY <1>3
<1>5. t \in Seq(T) /\ Len(t) = n
  BY <1>4
<1>6. QED
  BY <1>1, <1>2, <1>5

-----------------------------------------------------------------------------
(* Elements that are kept                                                  *)

\* Of each element of s, ss has the element if it is in T, or nothing.
Keeps(ss, s, T) ==
  /\ DOMAIN ss = DOMAIN s
  /\ \A i \in DOMAIN s : \/ s[i] \in T /\ ss[i] = <<s[i]>>
                         \/ s[i] \notin T /\ ss[i] = <<>>

\* What is in g comes from the first m elements of s, in their order.
InOrder(g, s, m) ==
  /\ \A i \in DOMAIN g : \E a \in 1..m : g[i] = s[a]
  /\ \A i, j \in DOMAIN g : i < j => \E a, b \in 1..m : a < b /\ g[i] = s[a] /\ g[j] = s[b]

\* What is in the order of a prefix is in the order of a longer one.
LEMMA InOrderLonger ==
  ASSUME NEW m \in Nat, NEW s, NEW g, InOrder(g, s, m)
  PROVE  InOrder(g, s, m + 1)
<1>1. \A a \in 1..m : a \in 1..(m + 1)
  OBVIOUS
<1>2. QED
  BY <1>1 DEF InOrder

\* The next element is appended in its order.
LEMMA InOrderAppends ==
  ASSUME NEW m \in Nat, NEW s, NEW S, NEW g \in Seq(S), InOrder(g, s, m), s[m + 1] \in S
  PROVE  InOrder(g \o <<s[m + 1]>>, s, m + 1)
<1>1. PICK x \in S : x = s[m + 1]
  OBVIOUS
<1>2. PICK h : h = g \o <<x>>
  OBVIOUS
<1>3. /\ h \in Seq(S) /\ DOMAIN g = 1..Len(g) /\ Len(g) \in Nat
      /\ DOMAIN h = 1..(Len(g) + 1)
      /\ h[Len(g) + 1] = x
      /\ \A i \in 1..Len(g) : h[i] = g[i]
  BY <1>2
<1>4. /\ \A i \in DOMAIN g : \E a \in 1..m : g[i] = s[a]
      /\ \A i, j \in DOMAIN g : i < j => \E a, b \in 1..m : a < b /\ g[i] = s[a] /\ g[j] = s[b]
  BY DEF InOrder
<1>5. \A i \in DOMAIN h : i \in DOMAIN g \/ i = Len(g) + 1
  BY <1>3
<1>6. m + 1 \in 1..(m + 1) /\ \A a \in 1..m : a \in 1..(m + 1) /\ a < m + 1
  OBVIOUS
<1>7. \A i \in DOMAIN h : \E a \in 1..(m + 1) : h[i] = s[a]
  BY <1>1, <1>3, <1>4, <1>5, <1>6
<1>8. ASSUME NEW i \in DOMAIN h, NEW j \in DOMAIN h, i < j
      PROVE  \E a, b \in 1..(m + 1) : a < b /\ h[i] = s[a] /\ h[j] = s[b]
  <2>1. i \in DOMAIN g
    BY <1>3, <1>8
  <2>2. CASE j \in DOMAIN g
    BY <1>3, <1>4, <1>6, <1>8, <2>1, <2>2
  <2>3. CASE j = Len(g) + 1
    <3>1. PICK a \in 1..m : g[i] = s[a]
      BY <1>4, <2>1
    <3>2. h[i] = s[a] /\ h[j] = s[m + 1]
      BY <1>1, <1>3, <2>1, <2>3, <3>1
    <3>3. QED
      BY <1>6, <3>2
  <2>4. QED
    BY <1>5, <2>2, <2>3
<1>9. InOrder(h, s, m + 1)
  BY <1>7, <1>8 DEF InOrder
<1>10. QED
  BY <1>1, <1>2, <1>9

\* FlattenSeq keeps what is in T, in its order.
LEMMA KeptElements ==
  ASSUME NEW S, NEW s \in Seq(S), NEW T, NEW ss \in Seq(Seq(S)), Len(ss) = Len(s), Keeps(ss, s, T)
  PROVE  /\ FlattenSeq(ss) \in Seq(S)
         /\ ToSet(FlattenSeq(ss)) = ToSet(s) \cap T
         /\ InOrder(FlattenSeq(ss), s, Len(s))
<1>1. PICK n \in Nat : n = Len(s) /\ n = Len(ss) /\ DOMAIN s = 1..n /\ DOMAIN ss = 1..n
  OBVIOUS
<1>2. \A i \in 1..n : s[i] \in S /\ ss[i] \in Seq(S)
  BY <1>1
<1>3. /\ FlattenSeq(ss) \in Seq(S)
      /\ ToSet(FlattenSeq(ss)) = UNION {ToSet(ss[i]) : i \in DOMAIN ss}
  BY Flattened
<1>4. \A i \in 1..n : \/ s[i] \in T /\ ss[i] = <<s[i]>>
                      \/ s[i] \notin T /\ ss[i] = <<>>
  BY <1>1 DEF Keeps
<1>5. \A i \in 1..n : \A x : x \in ToSet(ss[i]) <=> x = s[i] /\ x \in T
  <2>1. SUFFICES ASSUME NEW i \in 1..n
                 PROVE  \A x : x \in ToSet(ss[i]) <=> x = s[i] /\ x \in T
    OBVIOUS
  <2>2. CASE s[i] \in T /\ ss[i] = <<s[i]>>
    <3>1. ToSet(ss[i]) = {s[i]}
      BY <1>2, <2>2, Single
    <3>2. QED
      BY <2>2, <3>1
  <2>3. CASE s[i] \notin T /\ ss[i] = <<>>
    BY <2>3 DEF ToSet
  <2>4. QED
    BY <1>4, <2>2, <2>3
<1>6. ToSet(FlattenSeq(ss)) = ToSet(s) \cap T
  <2>1. \A x : x \in ToSet(FlattenSeq(ss)) <=> \E i \in 1..n : x \in ToSet(ss[i])
    BY <1>1, <1>3
  <2>2. \A x : x \in ToSet(s) <=> \E i \in 1..n : x = s[i]
    BY <1>1 DEF ToSet
  <2>3. \A x : x \in ToSet(FlattenSeq(ss)) <=> x \in ToSet(s) /\ x \in T
    BY <1>5, <2>1, <2>2, Zenon
  <2>4. QED
    BY <2>3
<1>7. ASSUME n # 0
      PROVE  InOrder(FlattenSeq(ss), s, n)
  <2>1. ss # <<>>
    BY <1>1, <1>7
  <2>2. PICK f : Flattens(f, ss, n) /\ FlattenSeq(ss) = f[n]
    BY <1>1, <2>1, FlattenSeqIs
  <2>3. \A i \in 1..n : f[i] = IF i = 1 THEN ss[i] ELSE f[i - 1] \o ss[i]
    BY <2>2, Zenon DEF Flattens
  <2>4. PICK M : M = {m \in 1..n : f[m] \in Seq(S) /\ InOrder(f[m], s, m)}
    OBVIOUS
  <2>5. 1 \in M
    <3>1. 1 \in 1..n /\ 1 \in 1..1 /\ f[1] = ss[1]
      BY <1>1, <1>7, <2>3
    <3>2. s[1] \in S /\ f[1] \in Seq(S)
      BY <1>2, <3>1
    <3>3. f[1] = <<s[1]>> \/ f[1] = <<>>
      BY <1>4, <3>1
    <3>4. InOrder(<<>>, s, 1)
      BY DEF InOrder
    <3>5. InOrder(<<s[1]>>, s, 1)
      <4>1. DOMAIN <<s[1]>> = {1} /\ <<s[1]>>[1] = s[1]
        OBVIOUS
      <4>2. QED
        BY <3>1, <4>1 DEF InOrder
    <3>6. QED
      BY <2>4, <3>1, <3>2, <3>3, <3>4, <3>5
  <2>6. ASSUME NEW m \in 1..(n - 1), m \in M
        PROVE  m + 1 \in M
    <3>1. m + 1 \in 1..n /\ m + 1 # 1 /\ (m + 1) - 1 = m /\ m \in Nat
      BY <1>1
    <3>2. f[m + 1] = f[m] \o ss[m + 1]
      BY <2>3, <3>1, Zenon
    <3>3. PICK g \in Seq(S) : g = f[m] /\ InOrder(g, s, m)
      BY <2>4, <2>6
    <3>4. CASE ss[m + 1] = <<s[m + 1]>>
      <4>1. f[m + 1] = g \o <<s[m + 1]>>
        BY <3>2, <3>3, <3>4
      <4>2. InOrder(f[m + 1], s, m + 1)
        BY <1>2, <3>1, <3>3, <4>1, InOrderAppends
      <4>3. f[m + 1] \in Seq(S)
        BY <1>2, <3>1, <3>3, <4>1
      <4>4. QED
        BY <2>4, <3>1, <4>2, <4>3
    <3>5. CASE ss[m + 1] = <<>>
      <4>1. f[m + 1] = g
        BY <3>2, <3>3, <3>5
      <4>2. InOrder(f[m + 1], s, m + 1)
        BY <3>1, <3>3, <4>1, InOrderLonger
      <4>3. QED
        BY <2>4, <3>1, <3>3, <4>1, <4>2
    <3>6. QED
      BY <1>4, <3>1, <3>4, <3>5
  <2>7. n \in M
    <3>1. n \in 1..n /\ n \in Nat
      BY <1>1, <1>7
    <3>2. QED
      BY <2>5, <2>6, <3>1, Induction
  <2>8. QED
    BY <2>2, <2>4, <2>7
<1>8. CASE n = 0
  <2>1. ss = <<>>
    BY <1>1, <1>8
  <2>2. FlattenSeq(ss) = <<>>
    BY <2>1 DEF FlattenSeq
  <2>3. InOrder(<<>>, s, n)
    BY DEF InOrder
  <2>4. QED
    BY <1>1, <1>3, <1>6, <2>2, <2>3
<1>9. QED
  BY <1>1, <1>3, <1>6, <1>7, <1>8

\* The elements of s in T, in their order.
Only(s, T) == FlattenSeq([i \in DOMAIN s |-> IF s[i] \in T THEN <<s[i]>> ELSE <<>>])

\* Only keeps the elements of s in T, in their order.
LEMMA Kept ==
  ASSUME NEW S, NEW s \in Seq(S), NEW T
  PROVE  /\ Only(s, T) \in Seq(S)
         /\ ToSet(Only(s, T)) = ToSet(s) \cap T
         /\ InOrder(Only(s, T), s, Len(s))
<1>1. PICK ss : ss = [i \in DOMAIN s |-> IF s[i] \in T THEN <<s[i]>> ELSE <<>>]
  OBVIOUS
<1>2. PICK n \in Nat : n = Len(s) /\ DOMAIN s = 1..n /\ \A i \in 1..n : s[i] \in S
  OBVIOUS
<1>3. DOMAIN ss = 1..n /\ \A i \in 1..n : ss[i] = IF s[i] \in T THEN <<s[i]>> ELSE <<>>
  BY <1>1, <1>2
<1>4. ASSUME NEW i \in 1..n
      PROVE  ss[i] \in Seq(S)
  <2>1. PICK x \in S : x = s[i]
    BY <1>2
  <2>2. ss[i] = <<x>> \/ ss[i] = <<>>
    BY <1>3, <2>1
  <2>3. <<x>> \in Seq(S) /\ <<>> \in Seq(S)
    OBVIOUS
  <2>4. QED
    BY <2>2, <2>3
<1>5. ss \in Seq(Seq(S)) /\ Len(ss) = n
  <2>1. ss = [i \in 1..n |-> ss[i]]
    BY <1>1, <1>2
  <2>2. QED
    BY <1>4, <2>1
<1>6. Keeps(ss, s, T)
  BY <1>2, <1>3 DEF Keeps
<1>7. Only(s, T) = FlattenSeq(ss)
  BY <1>1 DEF Only
<1>8. Len(ss) = Len(s)
  BY <1>2, <1>5
<1>9. QED
  BY <1>5, <1>6, <1>7, <1>8, KeptElements

-----------------------------------------------------------------------------
(* Permutations                                                            *)

\* Sequences that list the same elements once each are permutations of each
\* other.
LEMMA SameElements ==
  ASSUME NEW S, NEW s \in Seq(S), NEW t \in Seq(S),
         IsInjective(s), IsInjective(t), ToSet(s) = ToSet(t)
  PROVE  /\ Len(s) = Len(t)
         /\ \E p \in Bijection(DOMAIN s, DOMAIN t) : \A i \in DOMAIN s : s[i] = t[p[i]]
<1>1. PICK D : D = DOMAIN s
  OBVIOUS
<1>2. PICK E : E = DOMAIN t
  OBVIOUS
<1>3. PICK p : p = [i \in D |-> CHOOSE k \in E : t[k] = s[i]]
  OBVIOUS
<1>4. \A i \in D : \E k \in E : t[k] = s[i]
  BY <1>1, <1>2 DEF ToSet
<1>5. \A i \in D : p[i] \in E /\ t[p[i]] = s[i]
  BY <1>3, <1>4
<1>6. \A k \in E : \E i \in D : s[i] = t[k]
  BY <1>1, <1>2 DEF ToSet
<1>7. (\A i, j \in D : s[i] = s[j] => i = j) /\ (\A i, j \in E : t[i] = t[j] => i = j)
  BY <1>1, <1>2 DEF IsInjective
<1>8. p \in [D -> E]
  BY <1>3, <1>5
<1>9. \A k \in E : \E i \in D : p[i] = k
  BY <1>5, <1>6, <1>7
<1>10. \A i, j \in D : p[i] = p[j] => i = j
  BY <1>5, <1>7
<1>11. p \in Bijection(D, E)
  BY <1>8, <1>9, <1>10 DEF Bijection, Injection, Surjection, IsInjective
<1>12. PICK n \in Nat, m \in Nat : n = Len(s) /\ m = Len(t) /\ D = 1..n /\ E = 1..m
  BY <1>1, <1>2
<1>13. /\ IsFiniteSet(1..n) /\ Cardinality(1..n) = n
       /\ IsFiniteSet(1..m) /\ Cardinality(1..m) = m
  BY FS_Interval
<1>14. ExistsBijection(D, E)
  BY <1>11 DEF ExistsBijection
<1>15. Cardinality(E) = Cardinality(D)
  BY <1>12, <1>13, <1>14, FS_Bijection
<1>16. QED
  BY <1>1, <1>2, <1>5, <1>11, <1>12, <1>13, <1>15

\* SetToSeq lists a finite set.
LEMMA ListedSet ==
  ASSUME NEW S, IsFiniteSet(S)
  PROVE  SetToSeq(S) \in Seq(S) /\ ToSet(SetToSeq(S)) = S
<1>1. PICK n \in Nat : n = Cardinality(S) /\ ExistsBijection(1..n, S)
  BY FS_CardinalityType
<1>2. PICK g : g \in Bijection(1..n, S)
  BY <1>1 DEF ExistsBijection
<1>3. g \in [1..n -> S] /\ IsInjective(g)
  BY <1>2 DEF Bijection, Injection, Surjection, IsInjective
<1>4. PICK f : f = SetToSeq(S)
  OBVIOUS
<1>5. f \in [1..n -> S] /\ IsInjective(f)
  BY <1>1, <1>3, <1>4 DEF SetToSeq
<1>6. f \in Injection(1..n, S)
  BY <1>5 DEF Injection, IsInjective
<1>7. IsFiniteSet(1..n) /\ Cardinality(1..n) = n
  BY FS_Interval
<1>8. f \in Surjection(1..n, S)
  BY <1>1, <1>6, <1>7, FS_Injection
<1>9. \A x \in S : \E i \in 1..n : f[i] = x
  BY <1>8 DEF Surjection
<1>10. f \in Seq(S) /\ DOMAIN f = 1..n
  BY <1>5
<1>11. ToSet(f) = S
  BY <1>5, <1>9, <1>10 DEF ToSet
<1>12. QED
  BY <1>4, <1>10, <1>11

\* A finite set can be listed by falling rank.
Falls(s, n, rank) == \A i, j \in 1..n : i < j => rank[s[i]] >= rank[s[j]]

\* A finite set can be listed by falling rank.
LEMMA Sortable ==
  ASSUME NEW n \in Nat, NEW R, NEW rank, \A r \in R : rank[r] \in Nat, ExistsBijection(1..n, R)
  PROVE  \E s \in Bijection(1..n, R) : Falls(s, n, rank)
<1>1. PICK T : T = {k \in 0..n : \A Q \in SUBSET R : ExistsBijection(1..k, Q) =>
                      \E s \in Bijection(1..k, Q) : Falls(s, k, rank)}
  OBVIOUS
<1>2. 0 \in T
  <2>1. 1..0 = {} /\ 0 \in 0..n
    OBVIOUS
  <2>2. \A s : Falls(s, 0, rank)
    BY <2>1 DEF Falls
  <2>3. QED
    BY <1>1, <2>1, <2>2 DEF ExistsBijection
<1>3. ASSUME NEW k \in 0..(n - 1), k \in T
      PROVE  k + 1 \in T
  <2>1. k \in Nat /\ k + 1 \in Nat /\ k + 1 \in 0..n
    OBVIOUS
  <2>2. SUFFICES ASSUME NEW Q \in SUBSET R, ExistsBijection(1..(k + 1), Q)
                 PROVE  \E s \in Bijection(1..(k + 1), Q) : Falls(s, k + 1, rank)
    BY <1>1, <2>1
  <2>3. IsFiniteSet(1..(k + 1)) /\ Cardinality(1..(k + 1)) = k + 1
    BY <2>1, FS_Interval
  <2>4. IsFiniteSet(Q) /\ Cardinality(Q) = k + 1
    BY <2>2, <2>3, FS_Bijection
  <2>5. Q # {}
    BY <2>1, <2>4, FS_EmptySet
  <2>6. PICK h : h = [q \in Q |-> rank[q]]
    OBVIOUS
  <2>7. PICK V : V = {h[q] : q \in Q}
    OBVIOUS
  <2>8. h \in Surjection(Q, V)
    BY <2>6, <2>7 DEF Surjection
  <2>9. IsFiniteSet(V)
    BY <2>4, <2>8, FS_Surjection
  <2>10. V \in SUBSET Nat /\ V # {}
    BY <2>5, <2>6, <2>7
  <2>11. PICK m \in Q : \A q \in Q : rank[q] <= rank[m]
    <3>1. Max(V) \in V /\ \A v \in V : v <= Max(V)
      BY <2>9, <2>10, GreatestOfFinite
    <3>2. PICK m \in Q : h[m] = Max(V)
      BY <2>7, <3>1
    <3>3. \A q \in Q : h[q] <= h[m]
      BY <2>7, <3>1, <3>2
    <3>4. QED
      BY <2>6, <3>3
  <2>12. PICK P : P = Q \ {m}
    OBVIOUS
  <2>13. IsFiniteSet(P) /\ Cardinality(P) = k
    BY <2>1, <2>4, <2>11, <2>12, FS_RemoveElement
  <2>14. ExistsBijection(1..k, P)
    <3>1. IsFiniteSet(1..k) /\ Cardinality(1..k) = k
      BY <2>1, FS_Interval
    <3>2. QED
      BY <2>13, <3>1, FS_SameCardinalityBij
  <2>15. PICK g \in Bijection(1..k, P) : Falls(g, k, rank)
    BY <1>1, <1>3, <2>12, <2>14
  <2>16. /\ g \in [1..k -> P]
         /\ \A i, j \in 1..k : g[i] = g[j] => i = j
         /\ \A q \in P : \E i \in 1..k : g[i] = q
    BY <2>15 DEF Bijection, Injection, Surjection, IsInjective
  <2>17. PICK s : s = [i \in 1..(k + 1) |-> IF i = 1 THEN m ELSE g[i - 1]]
    OBVIOUS
  <2>18. /\ 1 \in 1..(k + 1)
         /\ \A i \in 1..(k + 1) : i = 1 \/ i - 1 \in 1..k
         /\ \A i \in 1..k : i + 1 \in 1..(k + 1) /\ i + 1 # 1 /\ (i + 1) - 1 = i
    BY <2>1
  <2>19. s[1] = m /\ \A i \in 1..(k + 1) : i # 1 => s[i] = g[i - 1] /\ g[i - 1] \in P
    BY <2>16, <2>17, <2>18
  <2>20. s \in [1..(k + 1) -> Q]
    BY <2>12, <2>17, <2>18, <2>19
  <2>21. \A q \in Q : \E i \in 1..(k + 1) : s[i] = q
    <3>1. SUFFICES ASSUME NEW q \in Q
                   PROVE  \E i \in 1..(k + 1) : s[i] = q
      OBVIOUS
    <3>2. CASE q = m
      BY <2>18, <2>19, <3>2
    <3>3. CASE q # m
      <4>1. PICK i \in 1..k : g[i] = q
        BY <2>12, <2>16, <3>3
      <4>2. s[i + 1] = g[i]
        BY <2>18, <2>19
      <4>3. QED
        BY <2>18, <4>1, <4>2
    <3>4. QED
      BY <3>2, <3>3
  <2>22. ASSUME NEW i \in 1..(k + 1), NEW j \in 1..(k + 1), s[i] = s[j]
         PROVE  i = j
    <3>1. \A x \in P : x # m
      BY <2>12
    <3>2. i = 1 <=> j = 1
      BY <2>19, <2>22, <3>1
    <3>3. CASE i # 1 /\ j # 1
      <4>1. g[i - 1] = g[j - 1] /\ i - 1 \in 1..k /\ j - 1 \in 1..k
        BY <2>18, <2>19, <2>22, <3>3
      <4>2. i - 1 = j - 1
        BY <2>16, <4>1
      <4>3. QED
        BY <4>2
    <3>4. QED
      BY <3>2, <3>3
  <2>23. s \in Bijection(1..(k + 1), Q)
    BY <2>20, <2>21, <2>22 DEF Bijection, Injection, Surjection, IsInjective
  <2>24. ASSUME NEW i \in 1..(k + 1), NEW j \in 1..(k + 1), i < j
         PROVE  rank[s[i]] >= rank[s[j]]
    <3>1. j # 1 /\ j - 1 \in 1..k /\ s[j] = g[j - 1] /\ s[j] \in Q
      BY <2>18, <2>19, <2>20, <2>24
    <3>2. rank[s[j]] \in Nat /\ rank[m] \in Nat
      BY <3>1
    <3>3. CASE i = 1
      BY <2>11, <2>19, <3>1, <3>2, <3>3
    <3>4. CASE i # 1
      <4>1. s[i] = g[i - 1] /\ i - 1 \in 1..k /\ i - 1 < j - 1
        BY <2>18, <2>19, <2>24, <3>4
      <4>2. rank[g[i - 1]] >= rank[g[j - 1]]
        BY <2>15, <3>1, <4>1 DEF Falls
      <4>3. QED
        BY <3>1, <4>1, <4>2
    <3>5. QED
      BY <3>3, <3>4
  <2>25. Falls(s, k + 1, rank)
    BY <2>24 DEF Falls
  <2>26. QED
    BY <2>23, <2>25
<1>4. n \in 0..n /\ 0 \in Nat
  OBVIOUS
<1>5. n \in T
  BY <1>2, <1>3, <1>4, Induction
<1>6. QED
  BY <1>1, <1>5

-----------------------------------------------------------------------------
(* The length of what is run together                                      *)

\* The places of the elements of the first m sequences of ss.
Places(ss, m) == {x \in (1..m) \X Nat : x[2] \in DOMAIN ss[x[1]]}

Row(i, s) == {i} \X (1..Len(s))

\* A sequence has as many places as elements.
LEMMA RowSize ==
  ASSUME NEW S, NEW s \in Seq(S), NEW i
  PROVE  IsFiniteSet(Row(i, s)) /\ Cardinality(Row(i, s)) = Len(s)
<1>1. PICK n \in Nat : n = Len(s)
  OBVIOUS
<1>2. IsFiniteSet(1..n) /\ Cardinality(1..n) = n
  BY FS_Interval
<1>3. IsFiniteSet({i}) /\ Cardinality({i}) = 1
  BY FS_Singleton
<1>4. IsFiniteSet({i} \X (1..n)) /\ Cardinality({i} \X (1..n)) = 1 * n
  BY <1>2, <1>3, FS_Product
<1>5. QED
  BY <1>1, <1>4 DEF Row

\* The places of one more sequence are added.
LEMMA MorePlaces ==
  ASSUME NEW m \in Nat, NEW S, NEW ss, ss[m + 1] \in Seq(S), IsFiniteSet(Places(ss, m))
  PROVE  /\ IsFiniteSet(Places(ss, m + 1))
         /\ Cardinality(Places(ss, m + 1)) = Cardinality(Places(ss, m)) + Len(ss[m + 1])
<1>1. PICK s \in Seq(S) : s = ss[m + 1]
  OBVIOUS
<1>2. PICK A : A = Places(ss, m)
  OBVIOUS
<1>3. PICK B : B = Row(m + 1, s)
  OBVIOUS
<1>4. DOMAIN s = 1..Len(s) /\ Len(s) \in Nat
  OBVIOUS
<1>5. \A x \in B : x[1] = m + 1 /\ x[2] \in 1..Len(s) /\ x = <<x[1], x[2]>>
  BY <1>3 DEF Row
<1>6. A \cap B = {}
  BY <1>2, <1>5 DEF Places
<1>7. Places(ss, m + 1) = A \cup B
  <2>1. \A i : i \in 1..(m + 1) <=> i \in 1..m \/ i = m + 1
    OBVIOUS
  <2>2. \A x \in Places(ss, m + 1) : x \in A \cup B
    BY <1>1, <1>2, <1>3, <1>4, <2>1 DEF Places, Row
  <2>3. \A x \in A : x \in Places(ss, m + 1)
    BY <1>2, <2>1 DEF Places
  <2>4. \A x \in B : x \in Places(ss, m + 1)
    <3>1. m + 1 \in 1..(m + 1) /\ \A k \in 1..Len(s) : k \in Nat
      BY <1>4
    <3>2. \A x \in B : x \in (1..(m + 1)) \X Nat
      BY <1>3, <3>1 DEF Row
    <3>3. QED
      BY <1>1, <1>4, <1>5, <3>2 DEF Places
  <2>5. QED
    BY <2>2, <2>3, <2>4
<1>8. IsFiniteSet(A) /\ IsFiniteSet(B) /\ Cardinality(B) = Len(s)
  BY <1>2, <1>3, RowSize
<1>9. /\ IsFiniteSet(A \cup B)
      /\ Cardinality(A \cup B) = Cardinality(A) + Cardinality(B) - Cardinality(A \cap B)
  BY <1>8, FS_Union
<1>10. Cardinality(A \cap B) = 0 /\ Cardinality(A) \in Nat /\ Cardinality(B) \in Nat
  BY <1>6, <1>8, FS_EmptySet, FS_CardinalityType
<1>11. Cardinality(A \cup B) = Cardinality(A) + Len(s)
  BY <1>4, <1>8, <1>9, <1>10
<1>12. QED
  BY <1>1, <1>2, <1>7, <1>9, <1>11

\* Flattening loses no element and repeats none.
LEMMA FlattenedLength ==
  ASSUME NEW S, NEW ss \in Seq(Seq(S))
  PROVE  /\ IsFiniteSet(Places(ss, Len(ss)))
         /\ Len(FlattenSeq(ss)) = Cardinality(Places(ss, Len(ss)))
<1>1. PICK n \in Nat : n = Len(ss) /\ DOMAIN ss = 1..n
  OBVIOUS
<1>2. \A i \in 1..n : ss[i] \in Seq(S) /\ Len(ss[i]) \in Nat
  BY <1>1
<1>3. IsFiniteSet(Places(ss, 0)) /\ Cardinality(Places(ss, 0)) = 0
  <2>1. 1..0 = {}
    OBVIOUS
  <2>2. Places(ss, 0) = {}
    BY <2>1 DEF Places
  <2>3. QED
    BY <2>2, FS_EmptySet
<1>4. CASE n = 0
  <2>1. ss = <<>>
    BY <1>1, <1>4
  <2>2. FlattenSeq(ss) = <<>>
    BY <2>1 DEF FlattenSeq
  <2>3. QED
    BY <1>1, <1>3, <1>4, <2>2
<1>5. CASE n # 0
  <2>1. ss # <<>>
    BY <1>1, <1>5
  <2>2. PICK f : Flattens(f, ss, n) /\ FlattenSeq(ss) = f[n]
    BY <1>1, <2>1, FlattenSeqIs
  <2>3. \A i \in 1..n : f[i] = IF i = 1 THEN ss[i] ELSE f[i - 1] \o ss[i]
    BY <2>2, Zenon DEF Flattens
  <2>4. PICK T : T = {m \in 1..n : /\ f[m] \in Seq(S)
                                   /\ IsFiniteSet(Places(ss, m))
                                   /\ Cardinality(Places(ss, m)) = Len(f[m])}
    OBVIOUS
  <2>5. 1 \in T
    <3>1. 1 \in 1..n /\ 1 = 0 + 1 /\ f[1] = ss[1]
      BY <1>1, <1>5, <2>3
    <3>2. ss[0 + 1] \in Seq(S) /\ f[1] \in Seq(S) /\ Len(ss[1]) \in Nat
      BY <1>2, <3>1
    <3>3. /\ IsFiniteSet(Places(ss, 1))
          /\ Cardinality(Places(ss, 1)) = 0 + Len(ss[1])
      BY <1>3, <3>1, <3>2, MorePlaces
    <3>4. QED
      BY <2>4, <3>1, <3>2, <3>3
  <2>6. ASSUME NEW m \in 1..(n - 1), m \in T
        PROVE  m + 1 \in T
    <3>1. m + 1 \in 1..n /\ m + 1 # 1 /\ (m + 1) - 1 = m /\ m \in Nat
      BY <1>1
    <3>2. f[m + 1] = f[m] \o ss[m + 1]
      BY <2>3, <3>1, Zenon
    <3>3. PICK g \in Seq(S) : /\ g = f[m]
                              /\ IsFiniteSet(Places(ss, m))
                              /\ Cardinality(Places(ss, m)) = Len(g)
      BY <2>4, <2>6
    <3>4. PICK s \in Seq(S) : s = ss[m + 1]
      BY <1>2, <3>1
    <3>5. f[m + 1] \in Seq(S) /\ Len(f[m + 1]) = Len(g) + Len(s)
      BY <3>2, <3>3, <3>4
    <3>6. /\ IsFiniteSet(Places(ss, m + 1))
          /\ Cardinality(Places(ss, m + 1)) = Len(g) + Len(s)
      BY <3>1, <3>3, <3>4, MorePlaces
    <3>7. QED
      BY <2>4, <3>1, <3>5, <3>6
  <2>7. n \in T
    <3>1. n \in 1..n
      BY <1>1, <1>5
    <3>2. QED
      BY <2>5, <2>6, <3>1, Induction
  <2>8. QED
    BY <1>1, <2>2, <2>4, <2>7
<1>6. QED
  BY <1>4, <1>5

\* The places of rows with the domains d.
Within(D, d) == {x \in D \X Nat : x[2] \in d[x[1]]}

\* A bijection between rows is one between places.
LEMMA ShuffledPlaces ==
  ASSUME NEW D, NEW E, NEW d, NEW e,
         NEW p \in Bijection(D, E), \A i \in D : d[i] = e[p[i]]
  PROVE  ExistsBijection(Within(D, d), Within(E, e))
<1>1. PICK A : A = Within(D, d)
  OBVIOUS
<1>2. PICK B : B = Within(E, e)
  OBVIOUS
<1>3. /\ \A x : x \in A <=> x \in D \X Nat /\ x[2] \in d[x[1]]
      /\ \A x : x \in B <=> x \in E \X Nat /\ x[2] \in e[x[1]]
  BY <1>1, <1>2 DEF Within
<1>4. /\ p \in [D -> E]
      /\ \A i, j \in D : p[i] = p[j] => i = j
      /\ \A k \in E : \E i \in D : p[i] = k
  BY DEF Bijection, Injection, Surjection, IsInjective
<1>5. PICK q : q = [x \in A |-> <<p[x[1]], x[2]>>]
  OBVIOUS
<1>6. \A x \in A : q[x] = <<p[x[1]], x[2]>>
  BY <1>5
<1>7. \A x \in A : x[1] \in D /\ x[2] \in Nat /\ x = <<x[1], x[2]>> /\ p[x[1]] \in E
  BY <1>4, <1>3
<1>8. ASSUME NEW x \in A
      PROVE  q[x] \in B
  <2>1. x[2] \in e[p[x[1]]]
    BY <1>3, <1>7
  <2>2. <<p[x[1]], x[2]>> \in E \X Nat
    BY <1>7
  <2>3. QED
    BY <1>6, <1>3, <2>1, <2>2
<1>9. q \in [A -> B]
  BY <1>5, <1>8
<1>10. ASSUME NEW x \in A, NEW y \in A, q[x] = q[y]
      PROVE  x = y
  <2>1. p[x[1]] = p[y[1]] /\ x[2] = y[2]
    BY <1>6, <1>10
  <2>2. x[1] = y[1]
    BY <1>4, <1>7, <2>1
  <2>3. QED
    BY <1>7, <2>1, <2>2
<1>11. ASSUME NEW y \in B
      PROVE  \E x \in A : q[x] = y
  <2>1. y[1] \in E /\ y[2] \in Nat /\ y = <<y[1], y[2]>> /\ y[2] \in e[y[1]]
    BY <1>3
  <2>2. PICK i \in D : p[i] = y[1]
    BY <1>4, <2>1
  <2>3. <<i, y[2]>> \in A
    BY <1>3, <2>1, <2>2
  <2>4. q[<<i, y[2]>>] = y
    BY <1>6, <2>1, <2>2, <2>3
  <2>5. QED
    BY <2>3, <2>4
<1>12. q \in Bijection(A, B)
  BY <1>9, <1>10, <1>11 DEF Bijection, Injection, Surjection, IsInjective
<1>13. QED
  BY <1>1, <1>2, <1>12 DEF ExistsBijection

\* As long as there are places, in whatever order.
LEMMA ShuffledLength ==
  ASSUME NEW S, NEW ss \in Seq(Seq(S)), NEW tt \in Seq(Seq(S)),
         NEW p \in Bijection(DOMAIN ss, DOMAIN tt), \A i \in DOMAIN ss : ss[i] = tt[p[i]]
  PROVE  Len(FlattenSeq(ss)) = Len(FlattenSeq(tt))
<1>1. PICK D : D = DOMAIN ss /\ D = 1..Len(ss)
  OBVIOUS
<1>2. PICK E : E = DOMAIN tt /\ E = 1..Len(tt)
  OBVIOUS
<1>3. PICK d : d = [i \in D |-> DOMAIN ss[i]]
  OBVIOUS
<1>4. PICK e : e = [i \in E |-> DOMAIN tt[i]]
  OBVIOUS
<1>5. PICK A : A = Places(ss, Len(ss))
  OBVIOUS
<1>6. PICK B : B = Places(tt, Len(tt))
  OBVIOUS
<1>7. A = Within(D, d)
  <2>1. \A x \in D \X Nat : x[1] \in D
    OBVIOUS
  <2>2. QED
    BY <1>1, <1>3, <1>5, <2>1, Zenon DEF Places, Within
<1>8. B = Within(E, e)
  <2>1. \A x \in E \X Nat : x[1] \in E
    OBVIOUS
  <2>2. QED
    BY <1>2, <1>4, <1>6, <2>1, Zenon DEF Places, Within
<1>9. p \in Bijection(D, E) /\ \A i \in D : ss[i] = tt[p[i]]
  BY <1>1, <1>2, Zenon
<1>10. \A i \in D : p[i] \in E
  BY <1>9 DEF Bijection, Injection
<1>11. \A i \in D : d[i] = e[p[i]]
  BY <1>3, <1>4, <1>9, <1>10, Zenon
<1>12. ExistsBijection(A, B)
  BY <1>7, <1>8, <1>9, <1>11, ShuffledPlaces, Zenon
<1>13. Cardinality(B) = Cardinality(A)
  <2>1. IsFiniteSet(A)
    BY <1>5, FlattenedLength
  <2>2. QED
    BY <1>12, <2>1, FS_Bijection
<1>14. QED
  BY <1>5, <1>6, <1>13, FlattenedLength

\* One element each.
LEMMA OneEach ==
  ASSUME NEW S, NEW ss \in Seq(Seq(S)), \A i \in DOMAIN ss : Len(ss[i]) = 1
  PROVE  Len(FlattenSeq(ss)) = Len(ss)
<1>1. PICK n \in Nat : n = Len(ss) /\ DOMAIN ss = 1..n
  OBVIOUS
<1>2. PICK d : d = [i \in 1..n |-> DOMAIN ss[i]]
  OBVIOUS
<1>3. ASSUME NEW i \in 1..n
      PROVE  d[i] = {1}
  <2>1. PICK s \in Seq(S) : s = ss[i] /\ Len(s) = 1
    BY <1>1
  <2>2. DOMAIN s = {1}
    BY <2>1
  <2>3. QED
    BY <1>2, <2>1, <2>2
<1>4. PICK A : A = Places(ss, n)
  OBVIOUS
<1>5. \A x : x \in A <=> x \in (1..n) \X Nat /\ x[2] \in d[x[1]]
  <2>1. \A x \in (1..n) \X Nat : x[1] \in 1..n
    OBVIOUS
  <2>2. QED
    BY <1>2, <1>4, <2>1, Zenon DEF Places
<1>6. PICK q : q = [i \in 1..n |-> <<i, 1>>]
  OBVIOUS
<1>7. \A i \in 1..n : q[i] = <<i, 1>> /\ <<i, 1>> \in (1..n) \X Nat /\ 1 \in d[i]
  BY <1>3, <1>6
<1>8. q \in [1..n -> A]
  <2>1. \A i \in 1..n : q[i] \in A
    BY <1>5, <1>7
  <2>2. QED
    BY <1>6, <2>1
<1>9. ASSUME NEW i \in 1..n, NEW j \in 1..n, q[i] = q[j]
      PROVE  i = j
  <2>1. <<i, 1>> = <<j, 1>>
    BY <1>7, <1>9, Zenon
  <2>2. QED
    BY <2>1
<1>10. ASSUME NEW x \in A
       PROVE  \E i \in 1..n : q[i] = x
  <2>1. x \in (1..n) \X Nat /\ x[2] \in d[x[1]]
    BY <1>5
  <2>2. x[1] \in 1..n /\ x = <<x[1], x[2]>>
    BY <2>1
  <2>3. x[2] = 1
    BY <1>3, <2>1, <2>2
  <2>4. QED
    BY <1>7, <2>2, <2>3
<1>11. q \in Bijection(1..n, A)
  BY <1>8, <1>9, <1>10 DEF Bijection, Injection, Surjection, IsInjective
<1>12. IsFiniteSet(1..n) /\ Cardinality(1..n) = n
  BY FS_Interval
<1>13. ExistsBijection(1..n, A)
  BY <1>11 DEF ExistsBijection
<1>14. Cardinality(A) = n
  BY <1>12, <1>13, FS_Bijection
<1>15. QED
  BY <1>1, <1>4, <1>14, FlattenedLength
=============================================================================
