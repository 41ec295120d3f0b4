---------------------------- MODULE UploadProofs ----------------------------
(***************************************************************************)
(* Proofs about Upload, for any projects, trees of node_modules, contents  *)
(* of the storage and number of runs: jobs get what they name, and the     *)
(* node_modules of a job are complete.                                     *)
(***************************************************************************)
EXTENDS Upload, SequenceLemmas

-----------------------------------------------------------------------------
(* Requests                                                                *)

\* The requests of a native project, one by one.
FromSuite(p, i, r) ==
  LET s == p.suites[i]
  IN  \/ r = Request(<<i, "app">>, s.app, ArchiveType(s), TRUE, NoTag)
      \/ r = Request(<<i, "testApp">>, s.testApp,
                     IF p.kind = "xctest" THEN "xctest" ELSE ArchiveType(s), TRUE, NoTag)
      \/ \E k \in DOMAIN s.otherApps :
           r = Request(<<i, "otherApps", k>>, s.otherApps[k], ArchiveType(s), TRUE, NoTag)

FromEspresso(p, r) ==
  \/ r = Request(<<0, "app">>, p.app, "asis", FALSE, NoTag)
  \/ \E k \in DOMAIN p.otherApps :
       r = Request(<<0, "otherApps", k>>, p.otherApps[k], "asis", FALSE, NoTag)
  \/ \E i \in DOMAIN p.suites :
       r = Request(<<i, "testApp">>, p.suites[i].testApp, "asis", TRUE, NoTag)

Slots ==
  {<<i, "app">> : i \in Nat} \cup {<<i, "testApp">> : i \in Nat}
    \cup {<<i, "otherApps", k>> : i \in Nat, k \in Nat}

Asked == [slot : Slots, name : Files, type : {"zip", "ipa", "xctest", "asis"},
          cached : BOOLEAN, tag : {NoTag}]

LEMMA AppleSuitesAre ==
  ASSUME NEW p \in Projects, IsApple(p)
  PROVE  p.suites \in Seq(AppleSuites)
BY ProjectsAssumption, Zenon DEF IsApple

LEMMA SuiteRequestForms ==
  ASSUME NEW p \in Projects, IsApple(p), NEW i \in DOMAIN p.suites
  PROVE  /\ SuiteRequests(p, i) \in Seq(Asked)
         /\ \A r \in ToSet(SuiteRequests(p, i)) : FromSuite(p, i, r)
<1>1. PICK s : s = p.suites[i]
  OBVIOUS
<1>2. PICK type : type = IF p.kind = "xctest" THEN "xctest" ELSE ArchiveType(s)
  OBVIOUS
<1>3. i \in Nat /\ s \in AppleSuites
  BY <1>1, AppleSuitesAre, ElementIn
<1>4. /\ s.app \in Files /\ s.testApp \in Files /\ s.otherApps \in Seq(Files)
      /\ ArchiveType(s) \in {"zip", "ipa"} /\ type \in {"zip", "ipa", "xctest"}
  BY <1>2, <1>3 DEF ArchiveType, AppleSuites
<1>5. PICK first : first = << Request(<<i, "app">>, s.app, ArchiveType(s), TRUE, NoTag),
                              Request(<<i, "testApp">>, s.testApp, type, TRUE, NoTag) >>
  OBVIOUS
<1>6. PICK others : others = [k \in DOMAIN s.otherApps |->
                                Request(<<i, "otherApps", k>>, s.otherApps[k], ArchiveType(s), TRUE, NoTag)]
  OBVIOUS
<1>7. SuiteRequests(p, i) = first \o others
  BY <1>1, <1>2, <1>5, <1>6 DEF SuiteRequests
<1>8. /\ first \in Seq(Asked)
      /\ \A r \in ToSet(first) : FromSuite(p, i, r)
  <2>1. <<i, "app">> \in Slots /\ <<i, "testApp">> \in Slots
    BY <1>3 DEF Slots
  <2>2. first[1] \in Asked /\ first[2] \in Asked
    BY <1>4, <1>5, <2>1 DEF Asked, Request
  <2>3. FromSuite(p, i, first[1]) /\ FromSuite(p, i, first[2])
    BY <1>1, <1>2, <1>5 DEF FromSuite
  <2>4. PICK x \in Asked, y \in Asked : first = <<x, y>> /\ FromSuite(p, i, x) /\ FromSuite(p, i, y)
    BY <1>5, <2>2, <2>3
  <2>5. first \in Seq(Asked) /\ ToSet(first) = {x, y}
    BY <2>4, Pair
  <2>6. QED
    BY <2>4, <2>5
<1>9. /\ others \in Seq(Asked)
      /\ \A r \in ToSet(others) : FromSuite(p, i, r)
  <2>1. DOMAIN s.otherApps = 1..Len(s.otherApps) /\ Len(s.otherApps) \in Nat
    BY <1>4
  <2>2. ASSUME NEW k \in DOMAIN s.otherApps
        PROVE  others[k] \in Asked /\ FromSuite(p, i, others[k])
    <3>1. <<i, "otherApps", k>> \in Slots
      BY <1>3, <2>1 DEF Slots
    <3>2. s.otherApps[k] \in Files
      BY <1>4
    <3>3. others[k] = Request(<<i, "otherApps", k>>, s.otherApps[k], ArchiveType(s), TRUE, NoTag)
      BY <1>6
    <3>4. others[k] \in Asked
      BY <1>4, <3>1, <3>2, <3>3 DEF Asked, Request
    <3>5. QED
      BY <1>1, <3>3, <3>4 DEF FromSuite
  <2>3. others \in [1..Len(s.otherApps) -> Asked]
    BY <1>6, <2>1, <2>2
  <2>4. QED
    BY <2>1, <2>2, <2>3 DEF ToSet
<1>10. QED
  BY <1>7, <1>8, <1>9, ConcatElements

LEMMA AppleRequestForms ==
  ASSUME NEW p \in Projects, IsApple(p)
  PROVE  /\ Requests(p) \in Seq(Asked)
         /\ \A r \in ToSet(Requests(p)) : \E i \in DOMAIN p.suites : FromSuite(p, i, r)
<1>1. PICK ss : ss = [i \in DOMAIN p.suites |-> SuiteRequests(p, i)]
  OBVIOUS
<1>2. ss \in Seq(Seq(Asked))
  <2>1. DOMAIN p.suites = 1..Len(p.suites) /\ Len(p.suites) \in Nat
    BY AppleSuitesAre
  <2>2. ss \in [1..Len(p.suites) -> Seq(Asked)]
    BY <1>1, <2>1, SuiteRequestForms
  <2>3. QED
    BY <2>1, <2>2
<1>3. Requests(p) = FlattenSeq(ss)
  BY <1>1 DEF Requests, AppleRequests
<1>4. ASSUME NEW r \in ToSet(FlattenSeq(ss))
      PROVE  \E i \in DOMAIN p.suites : FromSuite(p, i, r)
  <2>1. PICK i \in DOMAIN ss : r \in ToSet(ss[i])
    BY <1>2, <1>4, Flattened
  <2>2. i \in DOMAIN p.suites /\ r \in ToSet(SuiteRequests(p, i))
    BY <1>1, <2>1
  <2>3. QED
    BY <2>2, SuiteRequestForms
<1>5. QED
  BY <1>2, <1>3, <1>4, Flattened

LEMMA EspressoRequestForms ==
  ASSUME NEW p \in Projects, p.kind = "espresso"
  PROVE  /\ Requests(p) \in Seq(Asked)
         /\ \A r \in ToSet(Requests(p)) : FromEspresso(p, r)
<1>1. PICK first : first = <<Request(<<0, "app">>, p.app, "asis", FALSE, NoTag)>>
  OBVIOUS
<1>2. PICK others : others = [k \in DOMAIN p.otherApps |->
                                Request(<<0, "otherApps", k>>, p.otherApps[k], "asis", FALSE, NoTag)]
  OBVIOUS
<1>3. PICK tests : tests = [i \in DOMAIN p.suites |->
                              Request(<<i, "testApp">>, p.suites[i].testApp, "asis", TRUE, NoTag)]
  OBVIOUS
<1>4. Requests(p) = (first \o others) \o tests
  BY <1>1, <1>2, <1>3 DEF Requests, EspressoRequests, IsApple
<1>5. /\ p.app \in Files /\ p.otherApps \in Seq(Files)
      /\ p.suites \in Seq(EspressoSuites)
  BY ProjectsAssumption, Zenon
<1>6. first \in Seq(Asked) /\ \A r \in ToSet(first) : FromEspresso(p, r)
  <2>1. <<0, "app">> \in Slots
    BY DEF Slots
  <2>2. first[1] \in Asked
    BY <1>1, <1>5, <2>1 DEF Asked, Request
  <2>3. FromEspresso(p, first[1])
    BY <1>1 DEF FromEspresso
  <2>4. first = <<first[1]>>
    BY <1>1
  <2>5. first \in Seq(Asked) /\ ToSet(first) = {first[1]}
    BY <2>2, <2>4, Single
  <2>6. QED
    BY <2>3, <2>5
<1>7. others \in Seq(Asked) /\ \A r \in ToSet(others) : FromEspresso(p, r)
  <2>1. DOMAIN p.otherApps = 1..Len(p.otherApps) /\ Len(p.otherApps) \in Nat
    BY <1>5
  <2>2. ASSUME NEW k \in DOMAIN p.otherApps
        PROVE  others[k] \in Asked /\ FromEspresso(p, others[k])
    <3>1. <<0, "otherApps", k>> \in Slots
      BY <2>1 DEF Slots
    <3>2. p.otherApps[k] \in Files
      BY <1>5
    <3>3. others[k] = Request(<<0, "otherApps", k>>, p.otherApps[k], "asis", FALSE, NoTag)
      BY <1>2
    <3>4. others[k] \in Asked
      BY <3>1, <3>2, <3>3 DEF Asked, Request
    <3>5. QED
      BY <3>3, <3>4 DEF FromEspresso
  <2>3. others \in [1..Len(p.otherApps) -> Asked]
    BY <1>2, <2>1, <2>2
  <2>4. QED
    BY <2>1, <2>2, <2>3 DEF ToSet
<1>8. tests \in Seq(Asked) /\ \A r \in ToSet(tests) : FromEspresso(p, r)
  <2>1. DOMAIN p.suites = 1..Len(p.suites) /\ Len(p.suites) \in Nat
    BY <1>5
  <2>2. ASSUME NEW i \in DOMAIN p.suites
        PROVE  tests[i] \in Asked /\ FromEspresso(p, tests[i])
    <3>1. <<i, "testApp">> \in Slots
      BY <2>1 DEF Slots
    <3>2. p.suites[i].testApp \in Files
      <4>1. p.suites[i] \in EspressoSuites
        BY <1>5, ElementIn
      <4>2. QED
        BY <4>1 DEF EspressoSuites
    <3>3. tests[i] = Request(<<i, "testApp">>, p.suites[i].testApp, "asis", TRUE, NoTag)
      BY <1>3
    <3>4. tests[i] \in Asked
      BY <3>1, <3>2, <3>3 DEF Asked, Request
    <3>5. QED
      BY <3>3, <3>4 DEF FromEspresso
  <2>3. tests \in [1..Len(p.suites) -> Asked]
    BY <1>3, <2>1, <2>2
  <2>4. QED
    BY <2>1, <2>2, <2>3 DEF ToSet
<1>9. PICK front : front = first \o others
  OBVIOUS
<1>10. front \in Seq(Asked) /\ ToSet(front) = ToSet(first) \cup ToSet(others)
  BY <1>6, <1>7, <1>9, ConcatElements
<1>11. front \o tests \in Seq(Asked) /\ ToSet(front \o tests) = ToSet(front) \cup ToSet(tests)
  BY <1>8, <1>10, ConcatElements
<1>12. Requests(p) = front \o tests
  BY <1>4, <1>9
<1>13. QED
  BY <1>6, <1>7, <1>8, <1>10, <1>11, <1>12

LEMMA AskedIn ==
  ASSUME NEW rs \in Seq(Asked), NEW r \in ToSet(rs)
  PROVE  r \in Asked /\ r.slot # <<0, "nodeModules">>
<1>1. PICK i \in DOMAIN rs : r = rs[i]
  BY DEF ToSet
<1>2. r \in Asked
  BY <1>1, ElementIn
<1>3. r.slot \in Slots
  BY <1>2 DEF Asked
<1>4. QED
  BY <1>2, <1>3 DEF Slots

LEMMA SlotsApart ==
  /\ \A i, j, k : /\ <<i, "app">> # <<j, "testApp">>
                 /\ <<i, "app">> # <<j, "otherApps", k>>
                 /\ <<i, "testApp">> # <<j, "otherApps", k>>
  /\ \A i, j : <<i, "app">> = <<j, "app">> => i = j
  /\ \A i, j : <<i, "testApp">> = <<j, "testApp">> => i = j
  /\ \A i, j, k, l : <<i, "otherApps", k>> = <<j, "otherApps", l>> => i = j /\ k = l
OBVIOUS

\* No two requests of a native project share a slot, and none has that of
\* node_modules.
LEMMA NativeSlots ==
  ASSUME NEW p \in Projects, IsNative(p)
  PROVE  /\ Requests(p) \in Seq(Asked)
         /\ \A r \in ToSet(Requests(p)) :
              r \in Asked /\ r.slot # <<0, "nodeModules">>
         /\ \A r, q \in ToSet(Requests(p)) : r.slot = q.slot => r = q
<1>1. CASE IsApple(p)
  <2>1. /\ Requests(p) \in Seq(Asked)
        /\ \A r \in ToSet(Requests(p)) : \E i \in DOMAIN p.suites : FromSuite(p, i, r)
    BY <1>1, AppleRequestForms
  <2>2. ASSUME NEW r \in ToSet(Requests(p)), NEW q \in ToSet(Requests(p)), r.slot = q.slot
        PROVE  r = q
    <3>1. PICK i \in DOMAIN p.suites, j \in DOMAIN p.suites : FromSuite(p, i, r) /\ FromSuite(p, j, q)
      BY <2>1
    <3>2. i = j
      BY <2>2, <3>1 DEF FromSuite, Request
    <3>3. FromSuite(p, i, r) /\ FromSuite(p, i, q)
      BY <3>1, <3>2
    <3> DEFINE s == p.suites[i]
               A == Request(<<i, "app">>, s.app, ArchiveType(s), TRUE, NoTag)
               T == Request(<<i, "testApp">>, s.testApp,
                            IF p.kind = "xctest" THEN "xctest" ELSE ArchiveType(s), TRUE, NoTag)
               O(k) == Request(<<i, "otherApps", k>>, s.otherApps[k], ArchiveType(s), TRUE, NoTag)
    <3>4. /\ r = A \/ r = T \/ \E k \in DOMAIN s.otherApps : r = O(k)
          /\ q = A \/ q = T \/ \E k \in DOMAIN s.otherApps : q = O(k)
      BY <3>3, Zenon DEF FromSuite
    <3>5. /\ A.slot = <<i, "app">> /\ T.slot = <<i, "testApp">>
          /\ \A k : O(k).slot = <<i, "otherApps", k>>
      BY DEF Request
    <3> HIDE DEF A, T, O, s
    <3>6. /\ A.slot # T.slot
          /\ \A k : A.slot # O(k).slot /\ T.slot # O(k).slot
          /\ \A k, l : O(k).slot = O(l).slot => k = l
      BY <3>5, SlotsApart
    <3>7. QED
      BY <2>2, <3>4, <3>6
  <2>3. QED
    BY <2>1, <2>2, AskedIn
<1>2. CASE ~IsApple(p)
  <2>1. p.kind = "espresso"
    BY <1>2 DEF IsNative
  <2>2. Requests(p) \in Seq(Asked) /\ \A r \in ToSet(Requests(p)) : FromEspresso(p, r)
    BY <2>1, EspressoRequestForms
  <2>3. \A i \in DOMAIN p.suites : i # 0
    BY <2>1, ProjectsAssumption, ElementIn
  <2>4. ASSUME NEW r \in ToSet(Requests(p)), NEW q \in ToSet(Requests(p)), r.slot = q.slot
        PROVE  r = q
    <3>1. FromEspresso(p, r) /\ FromEspresso(p, q)
      BY <2>2
    <3> DEFINE A == Request(<<0, "app">>, p.app, "asis", FALSE, NoTag)
               O(k) == Request(<<0, "otherApps", k>>, p.otherApps[k], "asis", FALSE, NoTag)
               T(i) == Request(<<i, "testApp">>, p.suites[i].testApp, "asis", TRUE, NoTag)
    <3>2. /\ \/ r = A
             \/ \E k \in DOMAIN p.otherApps : r = O(k)
             \/ \E i \in DOMAIN p.suites : r = T(i)
          /\ \/ q = A
             \/ \E k \in DOMAIN p.otherApps : q = O(k)
             \/ \E i \in DOMAIN p.suites : q = T(i)
      BY <3>1, Zenon DEF FromEspresso
    <3>3. /\ A.slot = <<0, "app">>
          /\ \A k : O(k).slot = <<0, "otherApps", k>>
          /\ \A i : T(i).slot = <<i, "testApp">>
      BY DEF Request
    <3> HIDE DEF A, O, T
    <3>4. /\ \A i : A.slot # T(i).slot
          /\ \A k : A.slot # O(k).slot
          /\ \A i, k : T(i).slot # O(k).slot
          /\ \A k, l : O(k).slot = O(l).slot => k = l
          /\ \A i, j : T(i).slot = T(j).slot => i = j
      BY <3>3, SlotsApart
    <3>5. QED
      BY <2>4, <3>2, <3>4
  <2>5. QED
    BY <2>2, <2>4, AskedIn
<1>3. QED
  BY <1>1, <1>2


-----------------------------------------------------------------------------
(* What is reached from a package                                          *)

\* f is Closure's own function, up to n steps.
Reaches(f, start, requires, n) ==
  f = [i \in 0..n |-> IF i = 0 THEN start ELSE f[i - 1] \cup UNION {requires[q] : q \in f[i - 1]}]

LEMMA ReachesOneMore ==
  ASSUME NEW start, NEW requires, NEW m \in Nat, NEW g, Reaches(g, start, requires, m)
  PROVE  \E f : Reaches(f, start, requires, m + 1)
<1> DEFINE OneMore(S) == S \cup UNION {requires[q] : q \in S}
<1>1. PICK f : f = [i \in 0..(m + 1) |-> IF i = m + 1 THEN OneMore(g[m]) ELSE g[i]]
  OBVIOUS
<1>2. \A i \in 0..m : g[i] = IF i = 0 THEN start ELSE OneMore(g[i - 1])
  BY Zenon DEF Reaches
<1> HIDE DEF OneMore
<1>3. /\ m + 1 \in 0..(m + 1) /\ m \in 0..m /\ m + 1 # 0 /\ (m + 1) - 1 = m
      /\ \A i \in 0..m : i \in 0..(m + 1) /\ i # m + 1 /\ (i # 0 => i - 1 \in 0..m)
      /\ \A i \in 0..(m + 1) : i = m + 1 \/ i \in 0..m
  OBVIOUS
<1>4. \A i \in 0..m : f[i] = g[i]
  BY <1>1, <1>3, Zenon
<1>5. f[m + 1] = OneMore(f[(m + 1) - 1])
  BY <1>1, <1>3, <1>4, Zenon
<1>6. \A i \in 0..m : f[i] = IF i = 0 THEN start ELSE OneMore(f[i - 1])
  BY <1>2, <1>3, <1>4, Zenon
<1>7. \A i \in 0..(m + 1) : f[i] = IF i = 0 THEN start ELSE OneMore(f[i - 1])
  BY <1>3, <1>5, <1>6, Zenon
<1>8. f = [i \in 0..(m + 1) |-> IF i = 0 THEN start ELSE OneMore(f[i - 1])]
  BY <1>1, <1>7
<1>9. QED
  BY <1>8, Zenon DEF Reaches, OneMore

LEMMA ReachesExists ==
  ASSUME NEW start, NEW requires, NEW n \in Nat
  PROVE  \E f : Reaches(f, start, requires, n)
<1>1. PICK T : T = {m \in Nat : \E f : Reaches(f, start, requires, m)}
  OBVIOUS
<1>2. 0 \in T
  <2>1. \A i \in 0..0 : i = 0
    OBVIOUS
  <2>2. Reaches([i \in 0..0 |-> start], start, requires, 0)
    BY <2>1 DEF Reaches
  <2>3. QED
    BY <1>1, <2>2
<1>3. ASSUME NEW m \in 0..(n - 1), m \in T
      PROVE  m + 1 \in T
  BY <1>1, <1>3, ReachesOneMore
<1>4. n \in 0..n
  OBVIOUS
<1>5. n \in T
  BY <1>2, <1>3, <1>4, Induction
<1>6. QED
  BY <1>1, <1>5

Roots(p, names) == {q \in {<<name>> : name \in names} : IsIncluded(p, q)}

\* Closure is the last value of such a function.
LEMMA ClosureIs ==
  ASSUME NEW p, IsFiniteSet(DOMAIN Tree[p.lock]), NEW requires, NEW names
  PROVE  \E n \in Nat : \E f :
           Reaches(f, Roots(p, names), requires, n) /\ Closure(p, requires, names) = f[n]
<1>1. PICK n \in Nat : n = Cardinality(DOMAIN Tree[p.lock])
  BY FS_CardinalityType
<1>2. \E f : Reaches(f, Roots(p, names), requires, n)
  BY ReachesExists
<1>3. PICK f : f = CHOOSE g : g = [i \in 0..n |->
        IF i = 0 THEN Roots(p, names) ELSE g[i - 1] \cup UNION {requires[q] : q \in g[i - 1]}]
  OBVIOUS
<1>4. Reaches(f, Roots(p, names), requires, n)
  BY <1>2, <1>3, Zenon DEF Reaches
<1>5. Closure(p, requires, names) = f[n]
  BY <1>1, <1>3, Zenon DEF Closure, Roots
<1>6. QED
  BY <1>4, <1>5

\* What is reached is installed; and of a nested package, the package it is in
\* was reached before.
LEMMA RootsAreReached ==
  ASSUME NEW p, p.lock \in DOMAIN Tree, NEW names, NEW requires,
         requires = [q \in DOMAIN Tree[p.lock] |-> RequiredBy(p, q)]
  PROVE  \A q \in Closure(p, requires, names) :
           q \in DOMAIN Tree[p.lock] /\ <<q[1]>> \in Closure(p, requires, names)
<1>1. PICK tree : tree = Tree[p.lock]
  OBVIOUS
<1>2. IsFiniteSet(DOMAIN tree) /\ \A q \in DOMAIN tree : q \in Seq(Seq(STRING)) /\ q # <<>>
  BY <1>1, TreeAssumption
<1>10. PICK n \in Nat : \E f :
         Reaches(f, Roots(p, names), requires, n) /\ Closure(p, requires, names) = f[n]
  BY <1>1, <1>2, ClosureIs
<1>3. PICK f :
        Reaches(f, Roots(p, names), requires, n) /\ Closure(p, requires, names) = f[n]
  BY <1>10
<1>4. \A i \in 0..n : f[i] = IF i = 0 THEN Roots(p, names)
                             ELSE f[i - 1] \cup UNION {requires[q] : q \in f[i - 1]}
  BY <1>3, Zenon DEF Reaches
<1>5. PICK T : T = {i \in 0..n : \A q \in f[i] : q \in DOMAIN tree /\ <<q[1]>> \in f[i]}
  OBVIOUS
<1>6. 0 \in T
  <2>0. 0 \in 0..n
    OBVIOUS
  <2>1. f[0] = Roots(p, names)
    BY <1>4, <2>0, Zenon
  <2>2. \A q \in Roots(p, names) : q \in DOMAIN tree /\ <<q[1]>> = q
    BY <1>1 DEF Roots, IsIncluded
  <2>3. QED
    BY <1>5, <2>0, <2>1, <2>2
<1>7. ASSUME NEW m \in 0..(n - 1), m \in T
      PROVE  m + 1 \in T
  <2>1. m + 1 \in 0..n /\ m + 1 # 0 /\ (m + 1) - 1 = m
    OBVIOUS
  <2>2. f[m + 1] = f[m] \cup UNION {requires[q] : q \in f[m]}
    BY <1>4, <2>1, Zenon
  <2>3. \A q \in f[m] : q \in DOMAIN tree /\ <<q[1]>> \in f[m]
    BY <1>5, <1>7
  <2>4. ASSUME NEW q \in f[m + 1]
        PROVE  q \in DOMAIN tree /\ <<q[1]>> \in f[m + 1]
    <3>1. CASE q \in f[m]
      BY <2>2, <2>3, <3>1
    <3>2. ASSUME NEW x \in f[m], q \in requires[x]
          PROVE  q \in DOMAIN tree /\ <<q[1]>> \in f[m + 1]
      <4>1. x \in DOMAIN tree /\ <<x[1]>> \in f[m + 1]
        BY <2>2, <2>3
      <4>2. requires[x] = RequiredBy(p, x)
        BY <1>1, <4>1
      <4>3. PICK name : q = Resolved(tree, x, name) /\ q \in DOMAIN tree
        BY <1>1, <3>2, <4>2 DEF RequiredBy, IsIncluded
      <4>4. CASE q = Append(x, name)
        <5>1. q[1] = x[1]
          BY <1>2, <4>1, <4>4
        <5>2. QED
          BY <4>1, <4>3, <5>1
      <4>5. CASE q = <<name>>
        <5>1. <<q[1]>> = q
          BY <4>5
        <5>2. QED
          BY <4>3, <5>1
      <4>6. QED
        BY <4>3, <4>4, <4>5 DEF Resolved
    <3>3. QED
      BY <2>2, <2>4, <3>1, <3>2
  <2>5. QED
    BY <1>5, <2>1, <2>4
<1>8. n \in T
  <2>1. n \in 0..n
    OBVIOUS
  <2>2. QED
    BY <1>6, <1>7, <2>1, Induction
<1>9. QED
  BY <1>1, <1>3, <1>5, <1>8

\* Every package that is needed is among those that are packed, where Node finds
\* packages as requirements does.
LEMMA NeededIsPacked ==
  ASSUME NEW p \in Projects, NEW q \in Projects, p.kind = "web",
         p.lock = q.lock, p.deps = q.deps, p.manifest = q.manifest, p.ignored = q.ignored,
         p.unreadable = q.unreadable, p.hidden = q.hidden, ~BesideNested(Tree[p.lock])
  PROVE  Needed(p) \ {<<name>> : name \in p.ignored} \subseteq Packed(q)
<1>1. PICK tree : tree = Tree[p.lock]
  OBVIOUS
<1>2. PICK names : names = ExpandDependencies(p)
  OBVIOUS
<1>3. PICK requires : requires = [x \in DOMAIN tree |-> RequiredBy(p, x)]
  OBVIOUS
<1>4. \A x \in DOMAIN tree : NodeRequired(p, x) = RequiredBy(p, x)
  <2>1. \A x \in DOMAIN tree : \A name \in tree[x] : NodeResolved(tree, x, name) = Resolved(tree, x, name)
    BY <1>1 DEF BesideNested
  <2>2. ASSUME NEW x \in DOMAIN tree
        PROVE  NodeRequired(p, x) = RequiredBy(p, x)
    <3>1. {NodeResolved(tree, x, name) : name \in NamedBy(p, x)} =
           {Resolved(tree, x, name) : name \in NamedBy(p, x)}
      BY <1>1, <2>1 DEF NamedBy
    <3>2. QED
      BY <1>1, <3>1 DEF NodeRequired, RequiredBy
  <2>3. QED
    BY <2>2
<1>5. requires = [x \in DOMAIN tree |-> NodeRequired(p, x)]
  BY <1>3, <1>4
<1>6. Needed(p) = {<<x[1]>> : x \in Closure(p, requires, names)}
  BY <1>1, <1>2, <1>5 DEF Needed
<1>7. ExpandDependencies(q) = names
  BY <1>2 DEF ExpandDependencies
<1>8. Requirements(q, names) = {x \in Closure(p, requires, names) : Len(x) = 1}
  <2>1. \A x : IsIncluded(q, x) <=> IsIncluded(p, x)
    BY DEF IsIncluded
  <2>2. \A x : NamedBy(q, x) = NamedBy(p, x)
    BY DEF NamedBy
  <2>3. \A x : RequiredBy(q, x) = RequiredBy(p, x)
    BY <2>1, <2>2 DEF RequiredBy
  <2>4. requires = [x \in DOMAIN Tree[q.lock] |-> RequiredBy(q, x)]
    BY <1>1, <1>3, <2>3
  <2>5. {x \in {<<name>> : name \in names} : IsIncluded(q, x)} =
          {x \in {<<name>> : name \in names} : IsIncluded(p, x)}
    BY <2>1
  <2>6. Closure(q, requires, names) = Closure(p, requires, names)
    BY <2>5, Zenon DEF Closure
  <2>7. QED
    BY <2>4, <2>6 DEF Requirements
<1>9. \A x \in Closure(p, requires, names) :
        x \in DOMAIN tree /\ <<x[1]>> \in Closure(p, requires, names)
  BY <1>1, <1>3, RootsAreReached, ProjectsAssumption
<1>10. ASSUME NEW y \in Needed(p), y \notin {<<name>> : name \in p.ignored}
       PROVE  y \in Packed(q)
  <2>1. y \in Closure(p, requires, names) /\ y \in DOMAIN tree /\ Len(y) = 1
    <3>1. PICK x \in Closure(p, requires, names) : y = <<x[1]>>
      BY <1>6, <1>10
    <3>2. QED
      BY <1>9, <3>1
  <2>2. y \in Requirements(q, names)
    BY <1>8, <2>1
  <2>3. QED
    BY <1>1, <1>7, <1>10, <2>1, <2>2 DEF Packed
<1>11. QED
  BY <1>10

-----------------------------------------------------------------------------
(* The invariant                                                           *)

\* The requests a run must serve, and those it may serve.
Due(p) == IF IsNative(p) THEN ToSet(Requests(p)) ELSE ToSet(Bundle)
Wanted(p) ==
  Due(p) \cup (IF p.kind = "web" THEN {ModulesRequest(p)} ELSE {})

\* node_modules as they were packed for p.
Modules(p) == Content(Named("node_modules"), "zip", Packed(p), p.version)

\* What this run may have put at a path of the temporary directory, and what a
\* path elsewhere holds.
MayHold(path, content) ==
  IF path.at # "temp" THEN content = AppContent(path, path.ext, project.build)
  ELSE IF IsNative(project)
  THEN \E r \in Wanted(project) :
         ~TakenAsIs(r) /\ ArchivePath(r) = path /\ content = AppContent(r.name, r.type, project.build)
  ELSE IF path.base = "node_modules" THEN content = Modules(project)
  ELSE content = Content(Named(path.base), "zip", {}, project.version)

\* A URI that stands for a path; the empty one may stand for a local file.
Names(uri, path) ==
  IF uri = NoURI /\ path.at = "local" THEN TRUE
  ELSE IF path.at = "storage" THEN uri \in DOMAIN Stored /\ Stored[uri] = path
  ELSE uri \in DOMAIN storage /\ MayHold(path, storage[uri].content)

Answered(r) == r.slot \in DOMAIN got /\ Names(got[r.slot], ArchivePath(r))

Serving == {"archive", "upload", "check", "send", "packModules", "submitted"}

\* The requests are those of the project; what was packed is there.
TodoInv ==
  /\ project \in Projects
  /\ todo \in Seq(Wanted(project)) /\ storage \in Seq(ToSet(storage))
  /\ \A r \in ToSet(todo) : r.name.at = "temp" => r.name \in DOMAIN temp
  /\ pc \in {"packModules", "submitted"} => todo = <<>>
  /\ pc = "packModules" => project.kind = "web"

\* uploadArchive works on the archive of the request it serves; a project is
\* packed before anything else.
FileInv ==
  /\ pc \in {"upload", "check", "send"} =>
       /\ todo # <<>> /\ file = ArchivePath(Head(todo))
       /\ file.at = "temp" => file \in DOMAIN temp
  /\ pc \in {"check", "send"} => file.at # "storage" /\ ~dryRun
  /\ pc = "pack" => ~IsNative(project) /\ DOMAIN archives = {}

ArchivesInv ==
  /\ \A r \in Wanted(project) :
       ArchiveKey(r) \in DOMAIN archives => archives[ArchiveKey(r)] = ArchivePath(r)
  /\ \A k \in DOMAIN archives : archives[k].at = "temp" => archives[k] \in DOMAIN temp

TempInv == \A f \in DOMAIN temp : f.at = "temp" /\ MayHold(f, temp[f])

UploadsInv == ~dryRun => \A f \in DOMAIN uploads : Names(uploads[f], f)

\* Every request of the run is waiting or was answered with what it names.
GotInv ==
  ~dryRun /\ pc \in Serving => \A r \in Due(project) : r \in ToSet(todo) \/ Answered(r)

\* A tag in the storage is that of the project the archive was packed for.
TagsInv ==
  \A id \in DOMAIN storage :
    storage[id].tag # NoTag =>
      \E p \in Projects :
        p.kind = "web" /\ storage[id].tag = Tag(p) /\ storage[id].content = Modules(p)

\* The node_modules of a job are those of this run, or of a project of its tag.
ModulesInv ==
  ~dryRun /\ HasModulesAnswer =>
    \E p \in Projects :
      /\ project.kind = "web" /\ p.kind = "web"
      /\ p = project \/ Tag(p) = Tag(project)
      /\ got[<<0, "nodeModules">>] \in DOMAIN storage
      /\ storage[got[<<0, "nodeModules">>]].content = Modules(p)

UploadInv ==
  /\ TodoInv /\ FileInv /\ ArchivesInv /\ TempInv
  /\ UploadsInv /\ GotInv /\ TagsInv /\ ModulesInv

\* Requests of a project that is archived whole.
LEMMA BundleElements ==
  /\ ToSet(Bundle) = {Bundle[1], Bundle[2]}
  /\ ToSet(Reverse(Bundle)) = ToSet(Bundle)
  /\ \A S : Bundle[1] \in S /\ Bundle[2] \in S => Bundle \in Seq(S) /\ Reverse(Bundle) \in Seq(S)
<1>1. PICK a, b : a = Request(<<0, "project">>, InTemp("app", "zip"), "asis", FALSE, NoTag)
               /\ b = Request(<<0, "config">>, InTemp("config", "zip"), "asis", FALSE, NoTag)
  OBVIOUS
<1>2. Bundle = <<a, b>>
  BY <1>1 DEF Bundle
<1>3. Reverse(Bundle) = <<b, a>>
  BY <1>2 DEF Reverse
<1>4. a = Bundle[1] /\ b = Bundle[2]
  BY <1>2
<1>5. ToSet(Bundle) = {a, b} /\ ToSet(Reverse(Bundle)) = {b, a}
  <2>1. a \in {a, b} /\ b \in {a, b}
    OBVIOUS
  <2>2. ToSet(<<a, b>>) = {a, b} /\ ToSet(<<b, a>>) = {b, a}
    BY <2>1, Pair
  <2>3. QED
    BY <1>2, <1>3, <2>2
<1>6. \A S : a \in S /\ b \in S => <<a, b>> \in Seq(S) /\ <<b, a>> \in Seq(S)
  BY Pair
<1>7. QED
  BY <1>2, <1>3, <1>4, <1>5, <1>6

LEMMA InTempFields ==
  \A base, ext : InTemp(base, ext).at = "temp" /\ InTemp(base, ext).base = base
BY DEF InTemp

\* What a project that is not native asks for is packed, and taken as it is.
LEMMA PackedRequests ==
  ASSUME NEW p, ~IsNative(p), NEW r \in Wanted(p)
  PROVE  /\ r.name.at = "temp" /\ ~r.cached /\ TakenAsIs(r) /\ ArchivePath(r) = r.name
         /\ \/ /\ r \in Due(p)
               /\ r.tag = NoTag /\ r.slot # <<0, "nodeModules">>
               /\ r.name \in {InTemp("app", "zip"), InTemp("config", "zip")}
            \/ /\ p.kind = "web" /\ r = ModulesRequest(p)
               /\ r.slot = <<0, "nodeModules">> /\ r.name = InTemp("node_modules", "zip")
<1>1. r = Bundle[1] \/ r = Bundle[2] \/ (p.kind = "web" /\ r = ModulesRequest(p))
  BY BundleElements DEF Wanted, Due
<1>2. CASE r = Bundle[1]
  BY <1>2, BundleElements DEF Bundle, Request, InTemp, TakenAsIs, ArchivePath, Due, NoTag
<1>3. CASE r = Bundle[2]
  BY <1>3, BundleElements DEF Bundle, Request, InTemp, TakenAsIs, ArchivePath, Due, NoTag
<1>4. CASE p.kind = "web" /\ r = ModulesRequest(p)
  BY <1>4 DEF ModulesRequest, Request, InTemp, TakenAsIs, ArchivePath
<1>5. QED
  BY <1>1, <1>2, <1>3, <1>4

\* No two requests of a run share a slot.
LEMMA SlotsDiffer ==
  ASSUME NEW p \in Projects, NEW r \in Wanted(p), NEW q \in Wanted(p), r.slot = q.slot
  PROVE  r = q
<1>1. CASE IsNative(p)
  BY <1>1, NativeSlots DEF Wanted, Due, IsNative, IsApple
<1>2. CASE ~IsNative(p)
  <2>1. \/ r \in Due(p) /\ q \in Due(p)
        \/ r = ModulesRequest(p) /\ q = ModulesRequest(p)
    BY <1>2, PackedRequests
  <2>2. ASSUME r \in Due(p), q \in Due(p)
        PROVE  r = q
    <3>1. r \in {Bundle[1], Bundle[2]} /\ q \in {Bundle[1], Bundle[2]}
      BY <1>2, <2>2, BundleElements DEF Due
    <3>2. Bundle[1].slot = <<0, "project">> /\ Bundle[2].slot = <<0, "config">>
      BY DEF Bundle, Request
    <3>3. Bundle[1].slot # Bundle[2].slot
      BY <3>2
    <3>4. QED
      BY <3>1, <3>3
  <2>3. QED
    BY <2>1, <2>2
<1>3. QED
  BY <1>1, <1>2

\* Of a native project nothing but a request's own archive is packed.
LEMMA NativeRequests ==
  ASSUME NEW p \in Projects, IsNative(p), NEW r \in Wanted(p)
  PROVE  /\ r \in Due(p)
         /\ r.name.at \in {"local", "url", "storage"}
         /\ r.type \in {"zip", "ipa", "xctest", "asis"}
         /\ r.tag = NoTag /\ r.slot # <<0, "nodeModules">>
         /\ ArchivePath(r).at = "temp" <=> ~TakenAsIs(r)
<1>1. r \in Due(p) /\ r \in Asked /\ r.slot # <<0, "nodeModules">>
  BY NativeSlots DEF Wanted, Due, IsNative, IsApple
<1>2. r.name.at \in {"local", "url", "storage"} /\ r.type \in {"zip", "ipa", "xctest", "asis"} /\ r.tag = NoTag
  BY <1>1 DEF Asked, Files
<1>3. QED
  BY <1>1, <1>2 DEF ArchivePath, InTemp

-----------------------------------------------------------------------------
(* Steps                                                                   *)

\* The storage keeps what it has, and what it is given is tagged as it should.
StorageGrows ==
  /\ \A id \in DOMAIN storage : id \in DOMAIN storage' /\ storage'[id] = storage[id]
  /\ storage' \in Seq(ToSet(storage')) /\ TagsInv'

LEMMA NamesStay ==
  ASSUME UNCHANGED project, StorageGrows
  PROVE  /\ \A f, c : MayHold(f, c)' <=> MayHold(f, c)
         /\ \A uri, f : Names(uri, f) => Names(uri, f)'
BY DEF MayHold, Names, StorageGrows

LEMMA StorageSame ==
  ASSUME UploadInv, UNCHANGED storage
  PROVE  StorageGrows
BY DEF StorageGrows, UploadInv, TodoInv, TagsInv

\* uploadArchive uploads what the path may hold.
LEMMA UploadedContent ==
  ASSUME UploadInv, pc \in {"upload", "check", "send"}
  PROVE  MayHold(file, ContentOf(file))
<1>1. CASE file.at = "temp"
  BY <1>1 DEF UploadInv, FileInv, TempInv, ContentOf
<1>2. CASE file.at # "temp"
  BY <1>2 DEF ContentOf, MayHold
<1>3. QED
  BY <1>1, <1>2

\* The request that is served.
LEMMA HeadOfTodo ==
  ASSUME UploadInv, todo # <<>>
  PROVE  /\ Head(todo) \in Wanted(project) /\ Head(todo) \in ToSet(todo)
         /\ Tail(todo) \in Seq(Wanted(project))
         /\ \A r \in ToSet(todo) : r = Head(todo) \/ r \in ToSet(Tail(todo))
         /\ ToSet(Tail(todo)) \subseteq ToSet(todo)
BY HeadAndTail DEF UploadInv, TodoInv

\* UploadStream.
LEMMA StorageAppends ==
  ASSUME UploadInv, pc = "send", UNCHANGED project, storage' = Append(storage, NewItem)
  PROVE  /\ StorageGrows
         /\ Len(storage) + 1 \in DOMAIN storage' /\ storage'[Len(storage) + 1] = NewItem
<1>1. storage \in Seq(ToSet(storage))
  BY DEF UploadInv, TodoInv
<1>2. PICK n : n = Len(storage) + 1
  OBVIOUS
<1>3. /\ DOMAIN storage' = DOMAIN storage \cup {n} /\ n \notin DOMAIN storage
      /\ storage'[n] = NewItem
      /\ \A id \in DOMAIN storage : storage'[id] = storage[id]
      /\ storage' \in Seq(ToSet(storage) \cup {NewItem})
  BY <1>1, <1>2, Appended
<1>4. storage' \in Seq(ToSet(storage'))
  BY <1>3, OwnElements
<1>5. ASSUME NewItem.tag # NoTag
      PROVE  \E p \in Projects :
               p.kind = "web" /\ NewItem.tag = Tag(p) /\ NewItem.content = Modules(p)
  <2>1. PICK r \in Wanted(project) : r = Head(todo) /\ file = ArchivePath(r) /\ r.tag # NoTag
    BY <1>5, HeadOfTodo DEF UploadInv, FileInv, NewItem
  <2>2. project \in Projects
    BY DEF UploadInv, TodoInv
  <2>3. ~IsNative(project)
    BY <2>1, <2>2, NativeRequests
  <2>4. /\ project.kind = "web" /\ r = ModulesRequest(project)
        /\ file = InTemp("node_modules", "zip")
    BY <2>1, <2>3, PackedRequests
  <2>5. NewItem.tag = Tag(project)
    BY <2>1, <2>4 DEF NewItem, ModulesRequest, Request
  <2>6. NewItem.content = Modules(project)
    BY <2>3, <2>4, UploadedContent DEF NewItem, MayHold, InTemp
  <2>7. QED
    BY <2>2, <2>4, <2>5, <2>6
<1>6. TagsInv'
  <2>1. TagsInv
    BY DEF UploadInv
  <2>2. QED
    BY <1>3, <1>5, <2>1 DEF TagsInv
<1>7. QED
  BY <1>2, <1>3, <1>4, <1>6 DEF StorageGrows

\* A step that leaves the requests, the caches and the answers alone.
LEMMA QuietStep ==
  ASSUME UploadInv, StorageGrows,
         UNCHANGED <<project, dryRun, todo, archives, uploads, temp, got>>,
         FileInv', pc' \in Serving => pc \in Serving,
         pc' \in {"packModules", "submitted"} => todo = <<>>,
         pc' = "packModules" => project.kind = "web"
  PROVE  UploadInv'
<1>1. /\ \A f, c : MayHold(f, c)' <=> MayHold(f, c)
      /\ \A uri, f : Names(uri, f) => Names(uri, f)'
  BY NamesStay
<1>2. TodoInv'
  BY DEF UploadInv, TodoInv, StorageGrows
<1>3. ArchivesInv'
  BY DEF UploadInv, ArchivesInv
<1>4. TempInv'
  BY <1>1 DEF UploadInv, TempInv
<1>5. UploadsInv'
  BY <1>1 DEF UploadInv, UploadsInv
<1>6. GotInv'
  BY <1>1 DEF UploadInv, GotInv, Answered
<1>7. ModulesInv'
  BY DEF UploadInv, ModulesInv, HasModulesAnswer, StorageGrows
<1>8. QED
  BY <1>2, <1>3, <1>4, <1>5, <1>6, <1>7 DEF UploadInv, StorageGrows

\* A request is answered with a URI that stands for its archive.
LEMMA AnswerStep ==
  ASSUME UploadInv, StorageGrows, NEW uri, Answer(uri), pc \in {"upload", "check", "send"},
         NEW path, path = file, ~dryRun => Names(uri, path)'
  PROVE  UploadInv'
<1>1. /\ \A f, c : MayHold(f, c)' <=> MayHold(f, c)
      /\ \A u, f : Names(u, f) => Names(u, f)'
  BY NamesStay DEF Answer
<1>2. PICK r \in Wanted(project) : r = Head(todo) /\ path = ArchivePath(r)
  BY HeadOfTodo DEF UploadInv, FileInv
<1>3. todo # <<>> /\ project \in Projects
  BY DEF UploadInv, FileInv, TodoInv
<1>4. /\ UNCHANGED <<project, dryRun, archives, temp>>
      /\ todo' = Tail(todo) /\ pc' = "archive"
      /\ DOMAIN got' = DOMAIN got \cup {r.slot} /\ got'[r.slot] = uri
      /\ \A s \in DOMAIN got : s # r.slot => got'[s] = got[s]
  BY <1>2 DEF Answer
<1>13. \A f \in DOMAIN uploads' :
         \/ f = path /\ uploads'[f] = uri
         \/ f \in DOMAIN uploads /\ uploads'[f] = uploads[f]
  <2>1. \/ uploads' = uploads
        \/ uploads' = [f \in DOMAIN uploads \cup {path} |-> IF f = path THEN uri ELSE uploads[f]]
    BY DEF Answer
  <2>2. QED
    BY <2>1
<1>5. TodoInv'
  BY <1>3, <1>4, HeadOfTodo DEF UploadInv, TodoInv, StorageGrows
<1>6. FileInv'
  BY <1>4 DEF FileInv
<1>7. ArchivesInv'
  BY <1>4 DEF UploadInv, ArchivesInv
<1>8. TempInv'
  BY <1>1, <1>4 DEF UploadInv, TempInv
<1>9. UploadsInv'
  <2>1. SUFFICES ASSUME ~dryRun, NEW f \in DOMAIN uploads'
                 PROVE  Names(uploads[f], f)'
    BY <1>4 DEF UploadsInv
  <2>2. CASE f = path /\ uploads'[f] = uri
    BY <2>1, <2>2
  <2>3. CASE f \in DOMAIN uploads /\ uploads'[f] = uploads[f]
    BY <1>1, <2>1, <2>3 DEF UploadInv, UploadsInv
  <2>4. QED
    BY <1>13, <2>1, <2>2, <2>3
<1>10. GotInv'
  <2>1. SUFFICES ASSUME ~dryRun, NEW q \in Due(project)
                 PROVE  q \in ToSet(todo') \/ Answered(q)'
    BY <1>4 DEF GotInv
  <2>2. q \in Wanted(project)
    BY DEF Wanted
  <2>3. CASE q.slot = r.slot
    <3>1. q = r
      BY <1>2, <1>3, <2>2, <2>3, SlotsDiffer
    <3>2. Names(uri, path)'
      BY <2>1
    <3>3. q.slot \in DOMAIN got' /\ got'[q.slot] = uri /\ path = ArchivePath(q)
      BY <1>2, <1>4, <3>1
    <3>4. QED
      BY <3>2, <3>3 DEF Answered
  <2>4. CASE q.slot # r.slot
    <3>1. q \in ToSet(todo) \/ Answered(q)
      BY <2>1 DEF UploadInv, GotInv, Serving
    <3>2. CASE q \in ToSet(todo)
      BY <1>2, <1>3, <1>4, <2>4, <3>2, HeadOfTodo
    <3>3. CASE Answered(q)
      BY <1>1, <1>4, <2>4, <3>3 DEF Answered
    <3>4. QED
      BY <3>1, <3>2, <3>3
  <2>5. QED
    BY <2>3, <2>4
<1>11. ModulesInv'
  <2>1. SUFFICES ASSUME ~dryRun, HasModulesAnswer'
                 PROVE  \E p \in Projects :
                          /\ project.kind = "web" /\ p.kind = "web"
                          /\ p = project \/ Tag(p) = Tag(project)
                          /\ got'[<<0, "nodeModules">>] \in DOMAIN storage'
                          /\ storage'[got'[<<0, "nodeModules">>]].content = Modules(p)
    BY <1>4 DEF ModulesInv
  <2>2. CASE r.slot = <<0, "nodeModules">>
    <3>1. ~IsNative(project)
      BY <1>3, <2>2, NativeRequests
    <3>2. project.kind = "web" /\ path = InTemp("node_modules", "zip")
      BY <1>2, <2>2, <3>1, PackedRequests
    <3>3. path.at = "temp" /\ path.base = "node_modules"
      BY <3>2, InTempFields
    <3>4. uri \in DOMAIN storage' /\ MayHold(path, storage[uri].content)'
      BY <2>1, <3>3 DEF Names
    <3>6. storage'[uri].content = Modules(project)
      BY <1>1, <3>1, <3>3, <3>4 DEF MayHold
    <3>5. QED
      BY <1>3, <1>4, <2>2, <3>2, <3>4, <3>6
  <2>3. CASE r.slot # <<0, "nodeModules">>
    <3>1. HasModulesAnswer /\ got'[<<0, "nodeModules">>] = got[<<0, "nodeModules">>]
      BY <1>4, <2>1, <2>3 DEF HasModulesAnswer
    <3>2. QED
      BY <2>1, <3>1 DEF UploadInv, ModulesInv, StorageGrows
  <2>4. QED
    BY <2>2, <2>3
<1>12. QED
  BY <1>5, <1>6, <1>7, <1>8, <1>9, <1>10, <1>11 DEF UploadInv, StorageGrows

\* A new run.
LEMMA StartStep ==
  ASSUME UploadInv, NEW p \in Projects, NEW dry \in BOOLEAN, Start(p, dry)
  PROVE  UploadInv'
<1>1. /\ project' = p /\ UNCHANGED storage
      /\ todo' = IF IsNative(p) THEN Requests(p) ELSE <<>>
      /\ pc' = IF IsNative(p) THEN "archive" ELSE "pack"
      /\ DOMAIN archives' = {} /\ DOMAIN uploads' = {} /\ DOMAIN temp' = {} /\ DOMAIN got' = {}
  BY DEF Start, Empty
<1>2. todo' \in Seq(Wanted(p)) /\ (IsNative(p) => ToSet(todo') = Due(p))
  <2>1. CASE IsNative(p)
    <3>1. Requests(p) \in Seq(ToSet(Requests(p))) /\ ToSet(Requests(p)) \subseteq Wanted(p)
      BY <2>1, NativeSlots, OwnElements DEF Wanted, Due
    <3>2. QED
      BY <1>1, <2>1, <3>1 DEF Due
  <2>2. CASE ~IsNative(p)
    BY <1>1, <2>2
  <2>3. QED
    BY <2>1, <2>2
<1>3. \A r \in ToSet(todo') : r.name.at # "temp"
  <2>1. CASE IsNative(p)
    BY <1>1, <2>1, NativeRequests DEF Wanted, Due
  <2>2. CASE ~IsNative(p)
    BY <1>1, <2>2 DEF ToSet
  <2>3. QED
    BY <2>1, <2>2
<1>4. TodoInv'
  BY <1>1, <1>2, <1>3 DEF UploadInv, TodoInv
<1>5. FileInv' /\ ArchivesInv' /\ TempInv' /\ UploadsInv'
  BY <1>1 DEF FileInv, ArchivesInv, TempInv, UploadsInv
<1>6. GotInv'
  BY <1>1, <1>2 DEF GotInv, Serving
<1>7. TagsInv'
  BY <1>1, StorageSame DEF StorageGrows
<1>8. ModulesInv'
  BY <1>1 DEF ModulesInv, HasModulesAnswer
<1>9. QED
  BY <1>4, <1>5, <1>6, <1>7, <1>8 DEF UploadInv

\* The project and its configuration are packed.
LEMMA PackStep ==
  ASSUME UploadInv, Pack
  PROVE  UploadInv'
<1>1. /\ UNCHANGED <<project, dryRun, file, archives, uploads, got, storage>>
      /\ todo' \in {Bundle, Reverse(Bundle)} /\ pc' = "archive"
      /\ DOMAIN temp' = {InTemp("app", "zip"), InTemp("config", "zip")}
      /\ \A f \in DOMAIN temp' : temp'[f] = Content(Named(f.base), "zip", {}, project.version)
  BY DEF Pack
<1>2. ~IsNative(project) /\ project \in Projects
  BY DEF Pack, UploadInv, FileInv, TodoInv
<1>3. StorageGrows
  BY <1>1, StorageSame
<1>4. /\ \A f, c : MayHold(f, c)' <=> MayHold(f, c)
      /\ \A u, f : Names(u, f) => Names(u, f)'
  BY <1>1, <1>3, NamesStay
<1>5. todo' \in Seq(Wanted(project)) /\ ToSet(todo') = Due(project)
  <2>1. Bundle[1] \in Wanted(project) /\ Bundle[2] \in Wanted(project)
    BY <1>2, BundleElements DEF Wanted, Due
  <2>2. QED
    BY <1>1, <1>2, <2>1, BundleElements DEF Due
<1>6. \A r \in ToSet(todo') : r.name \in DOMAIN temp'
  <2>1. \A r \in ToSet(todo') : r \in Due(project) /\ r \in Wanted(project)
    BY <1>5 DEF Wanted
  <2>2. \A r \in ToSet(Bundle) : r.name \in {InTemp("app", "zip"), InTemp("config", "zip")}
    <3>1. Bundle[1].name = InTemp("app", "zip") /\ Bundle[2].name = InTemp("config", "zip")
      BY DEF Bundle, Request
    <3>2. QED
      BY <3>1, BundleElements
  <2>3. QED
    BY <1>1, <1>2, <2>1, <2>2 DEF Due
<1>7. TodoInv'
  BY <1>1, <1>2, <1>3, <1>5, <1>6 DEF TodoInv, StorageGrows
<1>8. FileInv'
  BY <1>1 DEF FileInv
<1>9. ArchivesInv'
  <2>1. DOMAIN archives = {}
    BY DEF Pack, UploadInv, FileInv
  <2>2. QED
    BY <1>1, <2>1 DEF ArchivesInv
<1>10. TempInv'
  <2>1. \A f \in DOMAIN temp' : f.at = "temp" /\ MayHold(f, temp'[f])
    <3>1. \A f \in DOMAIN temp' : f.at = "temp" /\ f.base # "node_modules"
      BY <1>1, InTempFields
    <3>2. QED
      BY <1>1, <1>2, <3>1 DEF MayHold
  <2>2. QED
    BY <1>4, <2>1 DEF TempInv
<1>11. UploadsInv'
  BY <1>1, <1>4 DEF UploadInv, UploadsInv
<1>12. GotInv'
  BY <1>1, <1>5 DEF GotInv
<1>13. ModulesInv'
  BY <1>1 DEF UploadInv, ModulesInv, HasModulesAnswer
<1>14. QED
  BY <1>3, <1>7, <1>8, <1>9, <1>10, <1>11, <1>12, <1>13 DEF UploadInv, StorageGrows

\* cachedArchive, archive: a new archive.
LEMMA ArchiveStep ==
  ASSUME UploadInv, Archive
  PROVE  UploadInv'
<1>1. PICK r, path : r = Head(todo) /\ path = ArchivePath(r)
  OBVIOUS
<1>2. /\ UNCHANGED <<project, dryRun, todo, uploads, got, storage>>
      /\ pc = "archive" /\ todo # <<>> /\ pc' = "upload" /\ file' = path
      /\ TakenAsIs(r) \/ r.name.at = "local"
  BY <1>1 DEF Archive
<1>3. \/ archives' = archives
      \/ archives' = [k \in DOMAIN archives \cup {ArchiveKey(r)} |->
                        IF k = ArchiveKey(r) THEN path ELSE archives[k]]
  BY <1>1 DEF Archive
<1>4. \/ TakenAsIs(r) /\ temp' = temp
      \/ /\ ~TakenAsIs(r)
         /\ temp' = [f \in DOMAIN temp \cup {path} |->
                       IF f = path THEN AppContent(r.name, r.type, project.build) ELSE temp[f]]
  BY <1>1 DEF Archive
<1>5. r \in Wanted(project) /\ r \in ToSet(todo) /\ project \in Projects
  BY <1>1, <1>2, HeadOfTodo DEF UploadInv, TodoInv
<1>6. StorageGrows
  BY <1>2, StorageSame
<1>7. /\ \A f, c : MayHold(f, c)' <=> MayHold(f, c)
      /\ \A u, f : Names(u, f) => Names(u, f)'
  BY <1>2, <1>6, NamesStay
<1>8. DOMAIN temp \subseteq DOMAIN temp'
  BY <1>4
<1>9. path.at = "temp" => path \in DOMAIN temp'
  <2>1. CASE TakenAsIs(r)
    <3>1. path = r.name
      BY <1>1, <2>1 DEF ArchivePath
    <3>2. QED
      BY <1>5, <1>8, <3>1 DEF UploadInv, TodoInv
  <2>2. CASE ~TakenAsIs(r)
    BY <1>4, <2>2
  <2>3. QED
    BY <2>1, <2>2
<1>10. TodoInv'
  BY <1>2, <1>6, <1>8 DEF UploadInv, TodoInv, StorageGrows
<1>11. FileInv'
  BY <1>1, <1>2, <1>9 DEF FileInv
<1>12. ArchivesInv'
  <2>1. \A q \in Wanted(project) : ArchiveKey(q) = ArchiveKey(r) => ArchivePath(q) = path
    BY <1>1 DEF ArchiveKey, ArchivePath, TakenAsIs
  <2>2. \A k \in DOMAIN archives' :
          \/ k = ArchiveKey(r) /\ archives'[k] = path
          \/ k \in DOMAIN archives /\ archives'[k] = archives[k]
    BY <1>3
  <2>3. ArchivesInv
    BY DEF UploadInv
  <2>4. \A q \in Wanted(project) :
          ArchiveKey(q) \in DOMAIN archives' => archives'[ArchiveKey(q)] = ArchivePath(q)
    BY <2>1, <2>2, <2>3 DEF ArchivesInv
  <2>5. \A k \in DOMAIN archives' : archives'[k].at = "temp" => archives'[k] \in DOMAIN temp'
    BY <1>8, <1>9, <2>2, <2>3 DEF ArchivesInv
  <2>6. QED
    BY <1>2, <2>4, <2>5 DEF ArchivesInv
<1>13. TempInv'
  <2>1. TempInv
    BY DEF UploadInv
  <2>2. CASE TakenAsIs(r)
    BY <1>4, <1>7, <2>1, <2>2 DEF TempInv
  <2>3. CASE ~TakenAsIs(r)
    <3>1. IsNative(project)
      BY <1>5, <2>3, PackedRequests
    <3>2. path.at = "temp"
      BY <1>1, <2>3, InTempFields DEF ArchivePath
    <3>3. MayHold(path, AppContent(r.name, r.type, project.build))
      BY <1>1, <1>5, <2>3, <3>1, <3>2 DEF MayHold
    <3>4. \A f \in DOMAIN temp' :
            \/ f = path /\ temp'[f] = AppContent(r.name, r.type, project.build)
            \/ f \in DOMAIN temp /\ temp'[f] = temp[f]
      BY <1>4, <2>3
    <3>5. \A f \in DOMAIN temp' : f.at = "temp" /\ MayHold(f, temp'[f])
      BY <2>1, <3>2, <3>3, <3>4 DEF TempInv
    <3>6. QED
      BY <1>7, <3>5 DEF TempInv
  <2>4. QED
    BY <2>2, <2>3
<1>14. UploadsInv'
  BY <1>2, <1>7 DEF UploadInv, UploadsInv
<1>15. GotInv'
  BY <1>2, <1>7 DEF UploadInv, GotInv, Answered, Serving
<1>16. ModulesInv'
  BY <1>2 DEF UploadInv, ModulesInv, HasModulesAnswer
<1>17. QED
  BY <1>6, <1>10, <1>11, <1>12, <1>13, <1>14, <1>15, <1>16 DEF UploadInv, StorageGrows

\* ArchiveNodeModules.
LEMMA PackModulesStep ==
  ASSUME UploadInv, PackModules
  PROVE  UploadInv'
<1>1. PICK path : path = InTemp("node_modules", "zip")
  OBVIOUS
<1>2. PICK r : r = ModulesRequest(project)
  OBVIOUS
<1>3. /\ UNCHANGED <<project, dryRun, file, archives, uploads, got, storage>>
      /\ pc = "packModules" /\ pc' = "archive" /\ todo' = <<r>>
      /\ temp' = [g \in DOMAIN temp \cup {path} |-> IF g = path THEN Modules(project) ELSE temp[g]]
  BY <1>1, <1>2 DEF PackModules, Modules
<1>4. project \in Projects /\ project.kind = "web" /\ todo = <<>> /\ ~IsNative(project)
  BY <1>3 DEF UploadInv, TodoInv, IsNative, IsApple
<1>5. r \in Wanted(project) /\ r.name = path /\ path.at = "temp" /\ path.base = "node_modules"
  BY <1>1, <1>2, <1>4, InTempFields DEF Wanted, ModulesRequest, Request
<1>6. todo' \in Seq(Wanted(project)) /\ ToSet(todo') = {r}
  BY <1>3, <1>5, Single
<1>7. StorageGrows
  BY <1>3, StorageSame
<1>8. /\ \A f, c : MayHold(f, c)' <=> MayHold(f, c)
      /\ \A u, f : Names(u, f) => Names(u, f)'
  BY <1>3, <1>7, NamesStay
<1>9. DOMAIN temp' = DOMAIN temp \cup {path}
  BY <1>3
<1>10. TodoInv'
  BY <1>3, <1>4, <1>5, <1>6, <1>7, <1>9 DEF TodoInv, StorageGrows
<1>11. FileInv'
  BY <1>3 DEF FileInv
<1>12. ArchivesInv'
  BY <1>3, <1>9 DEF UploadInv, ArchivesInv
<1>13. TempInv'
  <2>1. TempInv
    BY DEF UploadInv
  <2>2. MayHold(path, Modules(project))
    BY <1>4, <1>5 DEF MayHold
  <2>3. \A f \in DOMAIN temp' : f.at = "temp" /\ MayHold(f, temp'[f])
    BY <1>3, <1>5, <2>1, <2>2 DEF TempInv
  <2>4. QED
    BY <1>8, <2>3 DEF TempInv
<1>14. UploadsInv'
  BY <1>3, <1>8 DEF UploadInv, UploadsInv
<1>15. GotInv'
  <2>1. ToSet(todo) = {}
    BY <1>4 DEF ToSet
  <2>2. QED
    BY <1>3, <1>8, <2>1 DEF UploadInv, GotInv, Answered, Serving
<1>16. ModulesInv'
  BY <1>3 DEF UploadInv, ModulesInv, HasModulesAnswer
<1>17. QED
  BY <1>7, <1>10, <1>11, <1>12, <1>13, <1>14, <1>15, <1>16 DEF UploadInv, StorageGrows

\* findTaggedArchives: an archive of the tag.
LEMMA FoundTaggedStep ==
  ASSUME UploadInv, NEW id \in DOMAIN storage, FoundTagged(id)
  PROVE  UploadInv'
<1>1. /\ UNCHANGED <<project, dryRun, pc, todo, file, archives, uploads, temp, storage>>
      /\ storage[id].tag = Tag(project)
      /\ project.kind = "web" /\ todo = <<>>
      /\ DOMAIN got' = DOMAIN got \cup {<<0, "nodeModules">>}
      /\ got'[<<0, "nodeModules">>] = id
      /\ \A s \in DOMAIN got : s # <<0, "nodeModules">> => got'[s] = got[s]
  BY DEF FoundTagged, WantsModules, Served, caches
<1>2. ~IsNative(project) /\ project \in Projects
  BY <1>1 DEF UploadInv, TodoInv, IsNative, IsApple
<1>3. StorageGrows
  BY <1>1, StorageSame
<1>4. /\ \A f, c : MayHold(f, c)' <=> MayHold(f, c)
      /\ \A u, f : Names(u, f) => Names(u, f)'
  BY <1>1, <1>3, NamesStay
<1>5. TodoInv' /\ FileInv' /\ ArchivesInv'
  BY <1>1 DEF UploadInv, TodoInv, FileInv, ArchivesInv
<1>6. TempInv' /\ UploadsInv'
  BY <1>1, <1>4 DEF UploadInv, TempInv, UploadsInv
<1>7. GotInv'
  <2>1. \A r \in Due(project) : r.slot # <<0, "nodeModules">>
    <3>1. Bundle[1].slot = <<0, "project">> /\ Bundle[2].slot = <<0, "config">>
      BY DEF Bundle, Request
    <3>2. Bundle[1].slot # <<0, "nodeModules">> /\ Bundle[2].slot # <<0, "nodeModules">>
      BY <3>1
    <3>3. QED
      BY <1>2, <3>2, BundleElements DEF Due
  <2>2. QED
    BY <1>1, <1>4, <2>1 DEF UploadInv, GotInv, Answered
<1>8. ModulesInv'
  <2>1. Tag(project) # NoTag
    BY DEF Tag, NoTag
  <2>2. PICK p \in Projects :
          p.kind = "web" /\ storage[id].tag = Tag(p) /\ storage[id].content = Modules(p)
    BY <1>1, <2>1 DEF UploadInv, TagsInv
  <2>3. QED
    BY <1>1, <2>2 DEF ModulesInv
<1>9. QED
  BY <1>3, <1>5, <1>6, <1>7, <1>8 DEF UploadInv, StorageGrows

\* Every step keeps the invariant.
LEMMA UploadNext ==
  ASSUME UploadInv, [Next]_vars
  PROVE  UploadInv'
<1>1. ASSUME NEW p \in Projects, NEW dry \in BOOLEAN, Start(p, dry)
      PROVE  UploadInv'
  BY <1>1, StartStep
<1>2. CASE Pack
  BY <1>2, PackStep
<1>3. CASE \/ PackFails \/ ArchiveHit \/ ArchiveFails \/ Download \/ NotFoundStored
           \/ SendFails \/ NodeModulesMissing \/ NotFoundTagged \/ Submit \/ Exit
           \/ UNCHANGED vars
  <2>1. UNCHANGED <<project, dryRun, todo, archives, uploads, temp, got, storage>>
    BY <1>3 DEF PackFails, ArchiveHit, ArchiveFails, Download, NotFoundStored, SendFails,
                NodeModulesMissing, NotFoundTagged, Submit, Exit, Fails, vars, caches
  <2>2. FileInv'
    <3>1. CASE ArchiveHit
      <4>1. /\ todo # <<>> /\ ArchiveKey(Head(todo)) \in DOMAIN archives
            /\ file' = archives[ArchiveKey(Head(todo))] /\ pc' = "upload"
        BY <3>1 DEF ArchiveHit
      <4>2. Head(todo) \in Wanted(project)
        BY <4>1, HeadOfTodo
      <4>3. ArchivesInv
        BY DEF UploadInv
      <4>4. file' = ArchivePath(Head(todo)) /\ (file'.at = "temp" => file' \in DOMAIN temp)
        BY <4>1, <4>2, <4>3 DEF ArchivesInv
      <4>5. QED
        BY <2>1, <4>1, <4>4 DEF FileInv
    <3>2. CASE Download \/ NotFoundStored
      BY <2>1, <3>2 DEF Download, NotFoundStored, ToUpload, Fails, UploadInv, FileInv
    <3>3. CASE \/ PackFails \/ ArchiveFails \/ SendFails \/ NodeModulesMissing \/ NotFoundTagged
               \/ Submit
      BY <2>1, <3>3 DEF PackFails, ArchiveFails, SendFails, NodeModulesMissing, NotFoundTagged,
                        Submit, Fails, FileInv
    <3>4. CASE Exit \/ UNCHANGED vars
      BY <2>1, <3>4 DEF Exit, vars, UploadInv, FileInv
    <3>5. QED
      BY <1>3, <3>1, <3>2, <3>3, <3>4
  <2>3. /\ pc' \in Serving => pc \in Serving
        /\ pc' \in {"packModules", "submitted"} => todo = <<>>
        /\ pc' = "packModules" => project.kind = "web"
    BY <1>3 DEF PackFails, ArchiveHit, ArchiveFails, Download, NotFoundStored, SendFails,
                NodeModulesMissing, NotFoundTagged, Submit, Exit, Fails, vars, Serving,
                ToUpload, WantsModules, Served, UploadInv, TodoInv
  <2>4. QED
    BY <2>1, <2>2, <2>3, StorageSame, QuietStep
<1>4. CASE Archive
  BY <1>4, ArchiveStep
<1>5. ASSUME NEW uri, Answer(uri), UNCHANGED storage, pc \in {"upload", "check", "send"},
             ~dryRun => Names(uri, file)
      PROVE  UploadInv'
  <2>1. PICK path : path = file
    OBVIOUS
  <2>2. UNCHANGED project /\ StorageGrows
    BY <1>5, StorageSame DEF Answer
  <2>3. ~dryRun => Names(uri, path)'
    BY <1>5, <2>1, <2>2, NamesStay
  <2>4. QED
    BY <1>5, <2>1, <2>2, <2>3, AnswerStep
<1>6. CASE UploadHit
  <2>1. /\ pc = "upload" /\ file \in DOMAIN uploads
        /\ Answer(uploads[file]) /\ UNCHANGED storage
    BY <1>6 DEF UploadHit
  <2>2. ~dryRun => Names(uploads[file], file)
    BY <2>1 DEF UploadInv, UploadsInv
  <2>3. PICK uri : uri = uploads[file]
    OBVIOUS
  <2>4. QED
    BY <1>5, <2>1, <2>2, <2>3
<1>7. CASE SkipInDryRun
  BY <1>5, <1>7 DEF SkipInDryRun, ToUpload
<1>8. CASE UseReference
  <2>1. PICK id \in DOMAIN Stored : Stored[id] = file /\ Answer(id)
    BY <1>8 DEF UseReference
  <2>2. pc = "upload" /\ file.at = "storage" /\ UNCHANGED storage
    BY <1>8 DEF UseReference, ToUpload
  <2>3. Names(id, file)
    BY <2>1, <2>2 DEF Names
  <2>4. QED
    BY <1>5, <2>1, <2>2, <2>3
<1>9. ASSUME NEW id \in DOMAIN storage, FoundStored(id)
      PROVE  UploadInv'
  <2>1. /\ pc \in {"upload", "check"} /\ Answer(id) /\ UNCHANGED storage
        /\ file.at # "storage" /\ storage[id].content = ContentOf(file)
    BY <1>9 DEF FoundStored, ToUpload, UploadInv, FileInv
  <2>2. Names(id, file)
    BY <2>1, UploadedContent DEF Names
  <2>3. QED
    BY <1>5, <2>1, <2>2
<1>15. CASE AbsFails
  <2>1. /\ pc = "send" /\ file.at = "local"
        /\ Answer(NoURI) /\ UNCHANGED storage
    BY <1>15 DEF AbsFails
  <2>2. Names(NoURI, file)
    BY <2>1 DEF Names
  <2>3. QED
    BY <1>5, <2>1, <2>2
<1>10. CASE Send
  <2>1. /\ pc = "send" /\ storage' = Append(storage, NewItem) /\ Answer(Len(storage) + 1)
        /\ UNCHANGED project
    BY <1>10 DEF Send, Answer
  <2>2. PICK id, path : id = Len(storage) + 1 /\ path = file
    OBVIOUS
  <2>3. StorageGrows /\ id \in DOMAIN storage' /\ storage'[id] = NewItem
    BY <2>1, <2>2, StorageAppends
  <2>4. MayHold(path, NewItem.content) /\ path.at # "storage"
    BY <2>1, <2>2, UploadedContent DEF NewItem, UploadInv, FileInv
  <2>5. MayHold(path, storage[id].content)'
    BY <2>1, <2>3, <2>4, NamesStay
  <2>6. Names(id, path)'
    BY <2>3, <2>4, <2>5 DEF Names
  <2>7. QED
    BY <2>1, <2>2, <2>3, <2>6, AnswerStep
<1>11. CASE SendAgain
  <2>1. /\ pc = "send" /\ storage' = Append(storage, NewItem)
        /\ UNCHANGED <<project, dryRun, pc, todo, file, archives, uploads, temp, got>>
    BY <1>11 DEF SendAgain, caches
  <2>2. FileInv' /\ StorageGrows
    BY <2>1, StorageAppends DEF UploadInv, FileInv
  <2>3. QED
    BY <2>1, <2>2, QuietStep DEF Serving
<1>12. ASSUME NEW id \in DOMAIN storage, FoundTagged(id)
       PROVE  UploadInv'
  BY <1>12, FoundTaggedStep
<1>13. CASE PackModules
  BY <1>13, PackModulesStep
<1>14. QED
  BY <1>1, <1>2, <1>3, <1>4, <1>6, <1>7, <1>8, <1>9, <1>10, <1>11, <1>12, <1>13, <1>15 DEF Next

LEMMA UploadInit == Init => UploadInv
<1>1. SUFFICES ASSUME Init
               PROVE  UploadInv
  OBVIOUS
<1>2. /\ project \in Projects /\ pc = "idle" /\ todo = <<>>
      /\ DOMAIN archives = {} /\ DOMAIN uploads = {} /\ DOMAIN temp = {} /\ DOMAIN got = {}
  BY <1>1 DEF Init, Empty
<1>6. PICK item : item = [i \in DOMAIN Stored |->
                            [content |-> AppContent(Stored[i], Stored[i].ext, ""), tag |-> NoTag]]
  OBVIOUS
<1>8. storage = item
  BY <1>1, <1>6 DEF Init
<1>7. storage = item /\ DOMAIN item = DOMAIN Stored /\ \A i \in DOMAIN item : item[i].tag = NoTag
  BY <1>6, <1>8
<1>3. storage \in Seq(ToSet(storage))
  <2>1. DOMAIN Stored = 1..Len(Stored) /\ Len(Stored) \in Nat
    BY UploadAssumption
  <2>2. item = [i \in 1..Len(Stored) |-> item[i]]
    BY <1>6, <2>1
  <2>3. item \in [1..Len(Stored) -> ToSet(item)]
    BY <2>1, <2>2 DEF ToSet
  <2>4. QED
    BY <1>7, <2>1, <2>3
<1>4. TodoInv
  BY <1>2, <1>3 DEF TodoInv, ToSet
<1>5. QED
  BY <1>2, <1>4, <1>7 DEF UploadInv, FileInv, ArchivesInv, TempInv, UploadsInv, GotInv, TagsInv,
                    ModulesInv, HasModulesAnswer, Serving

-----------------------------------------------------------------------------
(* Theorems                                                                *)

\* The invariant of RunProject: what is archived, uploaded, cached and answered
\* belongs to the requests of this run, and what is tagged in the storage to the
\* project it was packed for.
THEOREM UploadInvariant == Spec => []UploadInv
<1>1. Init => UploadInv
  BY UploadInit
<1>2. UploadInv /\ [Next]_vars => UploadInv'
  BY UploadNext
<1>3. QED
  BY <1>1, <1>2, PTL DEF Spec

\* A URI that stands for the archive of a request holds what the request names,
\* or what another app of its project that shares the archive does, unless it is
\* the empty one.
LEMMA NamesHolds ==
  ASSUME project \in Projects, IsNative(project), NEW r \in Due(project), NEW uri,
         Names(uri, ArchivePath(r))
  PROVE  \/ uri = NoURI /\ TakenAsIs(r) /\ r.name.at = "local"
         \/ Holds(uri, r)
         \/ \E q \in Due(project) : ShareAnArchive(r, q) /\ Holds(uri, q)
<1>1. PICK path : path = ArchivePath(r)
  OBVIOUS
<1>2. r \in Wanted(project)
  BY DEF Wanted
<1>3. r.name.at \in {"local", "url", "storage"} /\ r.type \in {"zip", "ipa", "xctest", "asis"}
  BY <1>2, NativeRequests
<1>4. CASE TakenAsIs(r)
  <2>1. path = r.name
    BY <1>1, <1>4 DEF ArchivePath
  <2>2. CASE r.name.at = "storage"
    BY <1>1, <2>1, <2>2 DEF Names, Holds
  <2>3. CASE r.name.at # "storage"
    <3>0. SUFFICES ASSUME ~(uri = NoURI /\ path.at = "local")
                   PROVE  Holds(uri, r)
      BY <1>4, <2>1
    <3>1. MayHold(path, storage[uri].content)
      BY <1>1, <2>1, <2>3, <3>0 DEF Names
    <3>2. storage[uri].content = AppContent(r.name, r.name.ext, project.build)
      BY <1>3, <2>1, <3>1 DEF MayHold
    <3>3. Format(r) = r.name.ext
      BY <1>4, <2>3 DEF TakenAsIs, Format
    <3>4. QED
      BY <2>3, <3>2, <3>3 DEF Holds
  <2>4. QED
    BY <2>2, <2>3
<1>5. CASE ~TakenAsIs(r)
  <2>1. path = InTemp(Stem(r.name), r.type) /\ path.at = "temp"
    BY <1>1, <1>5, InTempFields DEF ArchivePath
  <2>2. MayHold(path, storage[uri].content)
    BY <1>1, <2>1 DEF Names
  <2>3. PICK q \in Wanted(project) :
          /\ ~TakenAsIs(q) /\ ArchivePath(q) = path
          /\ storage[uri].content = AppContent(q.name, q.type, project.build)
    BY <2>1, <2>2 DEF MayHold
  <2>4. q \in Due(project)
    BY <2>3, NativeRequests
  <2>5. CASE q.name # r.name
    <3>1. ShareAnArchive(r, q)
      BY <1>1, <1>5, <2>3, <2>4, <2>5 DEF ShareAnArchive
    <3>2. q.type \in {"zip", "ipa", "xctest", "asis"}
      BY <2>3, NativeRequests
    <3>3. Format(q) = q.type /\ q.name.at # "storage"
      BY <2>3, <3>2 DEF TakenAsIs, Format
    <3>4. Holds(uri, q)
      BY <2>3, <3>3 DEF Holds
    <3>5. QED
      BY <2>4, <3>1, <3>4
  <2>6. CASE q.name = r.name
    <3>1. InTemp(Stem(q.name), q.type) = InTemp(Stem(r.name), r.type)
      BY <2>1, <2>3 DEF ArchivePath
    <3>2. q.type = r.type
      BY <3>1 DEF InTemp
    <3>3. Format(r) = r.type /\ r.name.at # "storage"
      BY <1>3, <1>5 DEF TakenAsIs, Format
    <3>4. QED
      BY <2>3, <2>6, <3>2, <3>3 DEF Holds
  <2>7. QED
    BY <2>5, <2>6
<1>6. QED
  BY <1>4, <1>5

\* Every job is started with the apps its suite names, or with the project and
\* the configuration of this run: in the right format, as they are now, whatever
\* was cached, found in the storage, sent twice or left by an earlier run.  A
\* local file may be missing, and of two apps that share an archive one may be
\* given for the other.
THEOREM JobsGetTheirFiles == Spec => []JobsGetWhatTheyName
<1>1. ASSUME UploadInv, Submitted
      PROVE  JobsGetWhatTheyName
  <2>1. todo = <<>> /\ project \in Projects /\ ~dryRun /\ pc = "submitted"
    BY <1>1 DEF UploadInv, TodoInv, Submitted
  <2>2. \A r \in Due(project) : Answered(r)
    <3>1. ToSet(todo) = {}
      BY <2>1 DEF ToSet
    <3>2. QED
      BY <1>1, <2>1, <3>1 DEF UploadInv, GotInv, Serving
  <2>3. CASE IsNative(project)
    <3>1. \A r \in Due(project) :
            \/ WithoutItsFile(r)
            \/ Holds(got[r.slot], r)
            \/ \E q \in Due(project) : ShareAnArchive(r, q) /\ Holds(got[r.slot], q)
      BY <2>1, <2>2, <2>3, NamesHolds DEF Answered, WithoutItsFile
    <3>2. QED
      BY <2>3, <3>1 DEF JobsGetWhatTheyName, Due
  <2>4. CASE ~IsNative(project)
    <3>1. ASSUME NEW r \in Due(project)
          PROVE  storage[got[r.slot]].content = Content(Named(r.name.base), "zip", {}, project.version)
      <4>1. PICK uri, path : uri = got[r.slot] /\ path = r.name
        OBVIOUS
      <4>2. ArchivePath(r) = path /\ path.at = "temp"
        BY <2>4, <4>1, PackedRequests DEF Wanted
      <4>3. MayHold(path, storage[uri].content)
        BY <2>2, <4>1, <4>2 DEF Answered, Names
      <4>4. path.base # "node_modules"
        <5>1. r = Bundle[1] \/ r = Bundle[2]
          BY <2>4, BundleElements DEF Due
        <5>2. Bundle[1].name = InTemp("app", "zip") /\ Bundle[2].name = InTemp("config", "zip")
          BY DEF Bundle, Request
        <5>3. QED
          BY <4>1, <5>1, <5>2, InTempFields
      <4>5. QED
        BY <2>4, <4>1, <4>2, <4>3, <4>4 DEF MayHold
    <3>2. QED
      BY <2>4, <3>1 DEF JobsGetWhatTheyName, Due
  <2>5. QED
    BY <2>3, <2>4
<1>2. UploadInv => JobsGetWhatTheyName
  BY <1>1 DEF JobsGetWhatTheyName
<1>3. QED
  BY <1>2, UploadInvariant, PTL

\* The node_modules a web job is started with, packed for this run or found by
\* their tag, hold every package the configured dependencies need, but for what
\* ModulesAreComplete names.
THEOREM JobsGetTheirModules == Spec => []ModulesAreComplete
<1>1. ASSUME UploadInv, Submitted, HasModulesAnswer
      PROVE  ModulesAreComplete
  <2>1. PICK id : id = got[<<0, "nodeModules">>]
    OBVIOUS
  <2>2. PICK p \in Projects :
          /\ project.kind = "web" /\ p.kind = "web"
          /\ p = project \/ Tag(p) = Tag(project)
          /\ storage[id].content = Modules(p)
    BY <1>1, <2>1 DEF UploadInv, ModulesInv, Submitted
  <2>3. storage[id].content.mods = Packed(p) /\ storage[id].content.version = p.version
    BY <2>2 DEF Modules, Content
  <2>4. VersionOf(id) = p
    BY <2>2, <2>3, VersionAssumption DEF VersionOf
  <2>5. p.lock = project.lock /\ FlattenSeq(p.deps) = FlattenSeq(project.deps)
    BY <2>2 DEF Tag
  <2>6. SUFFICES ASSUME p.ignored = project.ignored, p.manifest = project.manifest,
                        p.unreadable = project.unreadable, p.hidden = project.hidden,
                        ~SpelledAlike(p, project), ~BesideNested(Tree[project.lock])
                 PROVE  Needed(project) \ {<<name>> : name \in project.ignored} \subseteq
                          storage[id].content.mods
    BY <2>1, <2>4, Zenon DEF ModulesAreComplete
  <2>7. p.deps = project.deps
    BY <2>5, <2>6 DEF SpelledAlike
  <2>8. project \in Projects
    BY <1>1 DEF UploadInv, TodoInv
  <2>9. QED
    BY <2>2, <2>3, <2>5, <2>6, <2>7, <2>8, NeededIsPacked
<1>2. UploadInv => ModulesAreComplete
  BY <1>1 DEF ModulesAreComplete
<1>3. QED
  BY <1>2, UploadInvariant, PTL
=============================================================================
