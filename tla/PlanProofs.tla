----------------------------- MODULE PlanProofs -----------------------------
(***************************************************************************)
(* Proofs about Plan, for any projects, files, tests, releases and         *)
(* histories: as many results are expected as jobs are submitted, what is  *)
(* submitted can pass, the command line's variables win, and every test    *)
(* runs.                                                                   *)
(***************************************************************************)
EXTENDS Plan, SequenceLemmas

-----------------------------------------------------------------------------
(* Files                                                                   *)

\* Exclusion takes away the files excluded.
LEMMA Excluding ==
  ASSUME NEW S, NEW files \in Seq(S), NEW excluded
  PROVE  /\ ExcludeFiles(files, excluded) \in Seq(S)
         /\ ToSet(ExcludeFiles(files, excluded)) = ToSet(files) \ ToSet(excluded)
<1>1. PICK X : X = ToSet(excluded)
  OBVIOUS
<1>2. PICK T : T = S \ X
  OBVIOUS
<1>3. PICK ss : ss = [i \in DOMAIN files |-> IF files[i] \notin X THEN <<files[i]>> ELSE <<>>]
  OBVIOUS
<1>4. ss = [i \in DOMAIN files |-> IF files[i] \in T THEN <<files[i]>> ELSE <<>>]
  BY <1>2, <1>3
<1>5. ExcludeFiles(files, excluded) = Only(files, T)
  BY <1>1, <1>3, <1>4 DEF ExcludeFiles, Where, Only
<1>6. ToSet(files) \subseteq S
  BY OwnElements
<1>7. QED
  BY <1>1, <1>2, <1>5, <1>6, Kept

\* And those that .sauceignore names.
LEMMA ExcludingIgnored ==
  ASSUME NEW S, NEW files \in Seq(S)
  PROVE  /\ ExcludeSauceIgnorePatterns(files) \in Seq(S)
         /\ ToSet(ExcludeSauceIgnorePatterns(files)) = ToSet(files) \ Ignored
<1>1. PICK T : T = S \ Ignored
  OBVIOUS
<1>2. PICK ss :
        ss = [i \in DOMAIN files |-> IF files[i] \notin Ignored THEN <<files[i]>> ELSE <<>>]
  OBVIOUS
<1>3. ss = [i \in DOMAIN files |-> IF files[i] \in T THEN <<files[i]>> ELSE <<>>]
  BY <1>1, <1>2
<1>4. ExcludeSauceIgnorePatterns(files) = Only(files, T)
  BY <1>2, <1>3 DEF ExcludeSauceIgnorePatterns, Where, Only
<1>5. ToSet(files) \subseteq S
  BY OwnElements
<1>6. QED
  BY <1>1, <1>4, <1>5, Kept

\* Only files with a test that the expression selects match it.
LEMMA Matching ==
  ASSUME NEW S, NEW files \in Seq(S), NEW grep
  PROVE  /\ MatchFiles(files, grep) \in Seq(S)
         /\ ToSet(MatchFiles(files, grep)) = {f \in ToSet(files) : TestsIn[f] \cap grep # {}}
<1>1. PICK T : T = {f \in S : TestsIn[f] \cap grep # {}}
  OBVIOUS
<1>2. PICK ss :
        ss = [i \in DOMAIN files |-> IF TestsIn[files[i]] \cap grep # {} THEN <<files[i]>> ELSE <<>>]
  OBVIOUS
<1>3. ss = [i \in DOMAIN files |-> IF files[i] \in T THEN <<files[i]>> ELSE <<>>]
  BY <1>1, <1>2
<1>4. MatchFiles(files, grep) = Only(files, T)
  BY <1>2, <1>3 DEF MatchFiles, Where, Only
<1>5. ToSet(files) \subseteq S
  BY OwnElements
<1>6. QED
  BY <1>1, <1>4, <1>5, Kept

\* FindFiles finds the files that a pattern matches.
LEMMA Finding ==
  ASSUME NEW patterns, IsSeq(patterns)
  PROVE  /\ FindFiles(patterns) \in Seq(Files)
         /\ ToSet(FindFiles(patterns)) = {f \in Files : \E p \in ToSet(patterns) : f \in p}
<1>1. PICK P : P = ToSet(patterns)
  OBVIOUS
<1>2. PICK w : w = Walk
  OBVIOUS
<1>3. w \in Seq(Files) /\ ToSet(w) = Files
  BY <1>2, PlanAssumption DEF Files, IsSeq
<1>4. PICK n \in Nat : n = Len(w) /\ DOMAIN w = 1..n /\ \A i \in 1..n : w[i] \in Files
  BY <1>3
<1>5. PICK hits : hits = [f \in Files |-> Where(patterns, LAMBDA p : f \in p)]
  OBVIOUS
<1>6. ASSUME NEW f \in Files
      PROVE  hits[f] \in Seq(P) /\ ToSet(hits[f]) = {p \in P : f \in p}
  <2>1. PICK T : T = {p \in P : f \in p}
    OBVIOUS
  <2>2. patterns \in Seq(P)
    BY <1>1 DEF IsSeq
  <2>3. PICK ss :
          ss = [i \in DOMAIN patterns |-> IF f \in patterns[i] THEN <<patterns[i]>> ELSE <<>>]
    OBVIOUS
  <2>4. ss = [i \in DOMAIN patterns |-> IF patterns[i] \in T THEN <<patterns[i]>> ELSE <<>>]
    BY <2>1, <2>2, <2>3
  <2>5. hits[f] = Only(patterns, T)
    BY <1>5, <2>3, <2>4 DEF Where, Only
  <2>6. ToSet(patterns) \cap T = T
    BY <1>1, <2>1
  <2>7. QED
    BY <1>1, <2>1, <2>2, <2>5, <2>6, Kept
<1>7. PICK ss : ss = [i \in 1..n |-> [h \in DOMAIN hits[w[i]] |-> w[i]]]
  OBVIOUS
<1>8. FindFiles(patterns) = FlattenSeq(ss)
  <2>1. \A i \in 1..n : hits[w[i]] = Where(patterns, LAMBDA p : w[i] \in p)
    BY <1>4, <1>5
  <2>2. ss = [i \in DOMAIN w |-> [h \in DOMAIN Where(patterns, LAMBDA p : w[i] \in p) |-> w[i]]]
    BY <1>4, <1>7, <2>1
  <2>3. QED
    BY <1>2, <2>2 DEF FindFiles
<1>9. ASSUME NEW i \in 1..n
      PROVE  /\ ss[i] \in Seq(Files)
             /\ \A f : f \in ToSet(ss[i]) <=> f = w[i] /\ \E p \in P : f \in p
  <2>1. PICK f \in Files : f = w[i]
    BY <1>4
  <2>2. PICK h \in Seq(P) : h = hits[f] /\ ToSet(h) = {p \in P : f \in p}
    BY <1>6
  <2>3. ss[i] = [k \in 1..Len(h) |-> f] /\ Len(h) \in Nat /\ DOMAIN h = 1..Len(h)
    BY <1>7, <2>1, <2>2
  <2>4. ss[i] \in Seq(Files) /\ DOMAIN ss[i] = 1..Len(h)
    BY <2>3
  <2>5. \A g : g \in ToSet(ss[i]) <=> g = f /\ 1..Len(h) # {}
    BY <2>3, <2>4 DEF ToSet
  <2>6. 1..Len(h) # {} <=> ToSet(h) # {}
    BY <2>3 DEF ToSet
  <2>7. QED
    BY <2>1, <2>2, <2>4, <2>5, <2>6
<1>10. ss \in Seq(Seq(Files)) /\ DOMAIN ss = 1..n
  BY <1>7, <1>9
<1>11. /\ FlattenSeq(ss) \in Seq(Files)
       /\ ToSet(FlattenSeq(ss)) = UNION {ToSet(ss[i]) : i \in DOMAIN ss}
  BY <1>10, Flattened
<1>12. \A f : f \in ToSet(FlattenSeq(ss)) <=> f \in Files /\ \E p \in P : f \in p
  <2>1. \A f : f \in ToSet(FlattenSeq(ss)) <=> \E i \in 1..n : f \in ToSet(ss[i])
    BY <1>10, <1>11
  <2>2. \A f : f \in Files <=> \E i \in 1..n : f = w[i]
    BY <1>3, <1>4 DEF ToSet
  <2>3. QED
    BY <1>9, <2>1, <2>2, Zenon
<1>13. QED
  BY <1>1, <1>8, <1>11, <1>12

-----------------------------------------------------------------------------
(* Sequences of a model                                                    *)

\* A sequence has as many places as elements are counted, each with its own.
LEMMA Numbered ==
  ASSUME NEW s, IsSeq(s)
  PROVE  /\ Len(s) \in Nat /\ DOMAIN s = 1..Len(s)
         /\ \A x : x \in ToSet(s) <=> \E i \in DOMAIN s : s[i] = x
<1>1. PICK S : S = ToSet(s)
  OBVIOUS
<1>2. s \in Seq(S)
  BY <1>1 DEF IsSeq
<1>3. QED
  BY <1>2 DEF ToSet

\* One element for each of another sequence makes a sequence.
LEMMA Mapped ==
  ASSUME NEW s, IsSeq(s), NEW t, t = [i \in DOMAIN s |-> t[i]]
  PROVE  IsSeq(t) /\ DOMAIN t = DOMAIN s /\ Len(t) = Len(s)
<1>1. PICK n \in Nat : n = Len(s) /\ DOMAIN s = 1..n
  BY Numbered
<1>2. t = [i \in 1..n |-> t[i]]
  BY <1>1
<1>3. QED
  BY <1>1, <1>2, Listed DEF IsSeq

\* Sequences of whatever elements are sequences of all their elements.
LEMMA AllElements ==
  ASSUME NEW ss, IsSeq(ss), \A i \in DOMAIN ss : IsSeq(ss[i]),
         NEW S, S = UNION {ToSet(ss[i]) : i \in DOMAIN ss}
  PROVE  ss \in Seq(Seq(S))
<1>1. PICK n \in Nat : n = Len(ss) /\ DOMAIN ss = 1..n
  BY Numbered
<1>2. ASSUME NEW i \in 1..n
      PROVE  ss[i] \in Seq(S)
  <2>1. PICK T : T = ToSet(ss[i])
    OBVIOUS
  <2>2. ss[i] \in Seq(T) /\ T \subseteq S
    BY <1>1, <2>1 DEF IsSeq
  <2>3. QED
    BY <2>2
<1>3. PICK Q : Q = ToSet(ss)
  OBVIOUS
<1>4. ss \in Seq(Q)
  BY <1>3 DEF IsSeq
<1>5. ss = [i \in 1..n |-> ss[i]]
  BY <1>1, <1>4
<1>6. QED
  BY <1>2, <1>5

\* Sequences one after the other.
LEMMA Joined ==
  ASSUME NEW ss, IsSeq(ss), \A i \in DOMAIN ss : IsSeq(ss[i])
  PROVE  /\ IsSeq(FlattenSeq(ss))
         /\ \A x : x \in ToSet(FlattenSeq(ss)) <=> \E i \in DOMAIN ss : x \in ToSet(ss[i])
<1>1. PICK S : S = UNION {ToSet(ss[i]) : i \in DOMAIN ss}
  OBVIOUS
<1>2. ss \in Seq(Seq(S))
  BY <1>1, AllElements
<1>3. FlattenSeq(ss) \in Seq(S) /\ ToSet(FlattenSeq(ss)) = S
  BY <1>1, <1>2, Flattened
<1>4. QED
  BY <1>1, <1>3 DEF IsSeq

-----------------------------------------------------------------------------
(* Suites                                                                  *)

\* What a suite stays from its configuration to its jobs.
IsTyped(s) ==
  /\ DOMAIN s = SuiteFields
  /\ IsSeq(s.patterns) /\ IsSeq(s.excluded) /\ IsSeq(s.tests)
  /\ IsSeq(s.devices) /\ IsSeq(s.virtuals) /\ \A v \in ToSet(s.virtuals) : v.versions \in Nat
  /\ s.numShards \in Int /\ s.threshold \in Int

\* What a suite keeps of the configured suite it comes from.
ComesFrom(s, c) ==
  /\ s.origin = c.origin /\ s.excluded = c.excluded /\ s.shard = c.shard
  /\ s.numShards = c.numShards /\ s.byGrep = c.byGrep /\ s.grep = c.grep
  /\ s.tests = c.tests /\ s.virtuals = c.virtuals /\ DOMAIN s.devices = DOMAIN c.devices

\* What only the defaults of a framework change.
SameTargets(s, c) ==
  /\ s.threshold = c.threshold /\ s.env = c.env /\ s.platform = c.platform
  /\ s.browser = c.browser /\ s.app = c.app /\ s.testApp = c.testApp

\* Selection leaves suites of the configuration, numbered.
LEMMA ConfiguredSuites ==
  ASSUME NEW p \in Projects, p.select # <<>> => Named(p, p.select) # <<>>
  PROVE  /\ IsSeq(Configured(p))
         /\ \A i \in DOMAIN Configured(p) : IsSuite(Configured(p)[i]) /\ Configured(p)[i].origin = i
<1>1. /\ IsSeq(p.suites) /\ IsSeq(p.adhoc)
      /\ \A s \in ToSet(p.suites) \cup ToSet(p.adhoc) : IsSuite(s)
  BY ProjectsAssumption
<1>2. PICK named : named = Named(p, p.select)
  OBVIOUS
<1>3. IsSeq(named) /\ ToSet(named) \subseteq ToSet(p.suites)
  <2>1. PICK S : S = ToSet(p.suites)
    OBVIOUS
  <2>2. PICK T : T = {s \in S : s.name = p.select}
    OBVIOUS
  <2>3. PICK q : q = p.suites
    OBVIOUS
  <2>4. q \in Seq(S) /\ ToSet(q) = S
    BY <1>1, <2>1, <2>3 DEF IsSeq
  <2>5. \A i \in DOMAIN q : q[i] \in S
    BY <2>4
  <2>6. named = Only(q, T)
    BY <1>2, <2>2, <2>3, <2>5 DEF Named, Where, Only
  <2>7. Only(q, T) \in Seq(S) /\ ToSet(Only(q, T)) = S \cap T
    BY <2>4, Kept
  <2>8. named \in Seq(S)
    BY <2>6, <2>7
  <2>9. QED
    BY <2>1, <2>8, OwnElements DEF IsSeq
<1>4. PICK chosen : chosen = IF p.select = <<>> THEN p.suites ELSE FilterSuites(p, p.select)
  OBVIOUS
<1>5. IsSeq(chosen) /\ ToSet(chosen) \subseteq ToSet(p.suites)
  <2>1. CASE p.select = <<>>
    BY <1>1, <1>4, <2>1
  <2>2. CASE p.select # <<>>
    <3>1. chosen = <<Head(named)>>
      BY <1>2, <1>4, <2>2 DEF FilterSuites
    <3>2. PICK S : S = ToSet(p.suites)
      OBVIOUS
    <3>3. named # <<>> /\ named \in Seq(S)
      <4>1. PICK N : N = ToSet(named)
        OBVIOUS
      <4>2. named \in Seq(N) /\ N \subseteq S
        BY <1>3, <3>2, <4>1 DEF IsSeq
      <4>3. QED
        BY <1>2, <2>2, <4>2
    <3>4. Head(named) \in S
      BY <3>3
    <3>5. chosen \in Seq(S) /\ ToSet(chosen) = {Head(named)}
      BY <3>1, <3>4, Single
    <3>6. QED
      BY <3>2, <3>4, <3>5, OwnElements DEF IsSeq
  <2>3. QED
    BY <2>1, <2>2
<1>6. PICK suites : suites = IF p.adhoc # <<>> THEN p.adhoc ELSE chosen
  OBVIOUS
<1>7. IsSeq(suites) /\ \A i \in DOMAIN suites : IsSuite(suites[i])
  <2>1. IsSeq(suites) /\ \A s \in ToSet(suites) : IsSuite(s)
    BY <1>1, <1>5, <1>6
  <2>2. QED
    BY <2>1, Numbered
<1>8. PICK c : c = [i \in DOMAIN suites |-> [suites[i] EXCEPT !.origin = i]]
  OBVIOUS
<1>9. Configured(p) = c
  BY <1>4, <1>6, <1>8 DEF Configured
<1>10. IsSeq(c) /\ DOMAIN c = DOMAIN suites
  BY <1>7, <1>8, Mapped
<1>11. ASSUME NEW i \in DOMAIN suites
       PROVE  IsSuite(c[i]) /\ c[i].origin = i
  <2>1. PICK s : s = suites[i]
    OBVIOUS
  <2>2. IsSuite(s) /\ c[i] = [s EXCEPT !.origin = i]
    BY <1>7, <1>8, <2>1
  <2>3. PICK r : r = [s EXCEPT !.origin = i]
    OBVIOUS
  <2>4. DOMAIN s = SuiteFields
    BY <2>2 DEF IsSuite
  <2>5. /\ DOMAIN r = SuiteFields /\ r.origin = i
        /\ r.patterns = s.patterns /\ r.excluded = s.excluded /\ r.tests = s.tests
        /\ r.devices = s.devices /\ r.virtuals = s.virtuals
        /\ r.numShards = s.numShards /\ r.threshold = s.threshold
        /\ r.only = s.only /\ r.part = s.part
    BY <2>3, <2>4 DEF SuiteFields
  <2>6. IsSuite(r)
    BY <2>2, <2>5, Zenon DEF IsSuite
  <2>7. QED
    BY <2>2, <2>3, <2>5, <2>6
<1>12. QED
  BY <1>9, <1>10, <1>11

-----------------------------------------------------------------------------
(* Defaults                                                                *)

\* What no defaults change.
Untouched(r, s) ==
  /\ DOMAIN r = SuiteFields
  /\ r.origin = s.origin /\ r.patterns = s.patterns /\ r.excluded = s.excluded
  /\ r.shard = s.shard /\ r.numShards = s.numShards /\ r.byGrep = s.byGrep /\ r.grep = s.grep
  /\ r.tests = s.tests /\ r.virtuals = s.virtuals
  /\ r.only = s.only /\ r.part = s.part /\ r.class = s.class

\* What a run can count on after the defaults: a platform and a browser, or what
\* the project names.
HasTargets(p, s) ==
  /\ fw \in Web /\ (fw = "testcafe" => s.virtuals = <<>>) => s.platform # ""
  /\ fw \in {"cucumber", "replay"} => s.browser # ""
  /\ fw = "espresso" => s.testApp # "" \/ p.testApp = ""

\* The environment after the defaults, of the frameworks that let flags win.
DefaultEnv(p, s) ==
  IF fw = "cypress" THEN Unprefix(FlagsOverRoot(p, s)) ELSE FlagsOverRoot(p, s)

\* Defaults touch neither the tests of a suite nor how it is sharded, and set its
\* targets and environment.
LEMMA Defaulting ==
  ASSUME NEW p, NEW s, IsTyped(s), fw \in Web \cup Mobile
  PROVE  /\ Untouched(SuiteDefaults(p, s), s)
         /\ SuiteDefaults(p, s).devices \in {s.devices, DevicesDefaults(s)}
         /\ SuiteDefaults(p, s).threshold \in Int
         /\ HasTargets(p, SuiteDefaults(p, s))
         /\ fw \notin {"playwright", "espresso", "replay"} =>
              SuiteDefaults(p, s).env = DefaultEnv(p, s)
<1>1. DOMAIN s = SuiteFields /\ s.threshold \in Int
  BY DEF IsTyped
<1>2. PICK r : r = SuiteDefaults(p, s)
  OBVIOUS
<1>3. AtLeastOne(s.threshold) \in Int
  BY <1>1 DEF AtLeastOne
<1>4. \A v, d : d # "" => OrElse(v, d) # ""
  BY DEF OrElse
<1>5. CASE fw = "cypress"
  <2>1. r = CypressDefaults(p, s)
    BY <1>2, <1>5 DEF SuiteDefaults
  <2>2. /\ Untouched(r, s) /\ r.devices = s.devices /\ r.threshold = AtLeastOne(s.threshold)
        /\ r.platform = OrElse(s.platform, "Windows 10")
        /\ r.env = Unprefix(FlagsOverRoot(p, s))
    BY <1>1, <2>1 DEF CypressDefaults, Untouched, SuiteFields
  <2>3. QED
    BY <1>2, <1>3, <1>4, <1>5, <2>2 DEF HasTargets, DefaultEnv
<1>6. CASE fw = "playwright"
  <2>1. r = PlaywrightDefaults(p, s)
    BY <1>2, <1>6 DEF SuiteDefaults
  <2>2. /\ Untouched(r, s) /\ r.devices = s.devices /\ r.threshold = AtLeastOne(s.threshold)
        /\ r.platform = OrElse(s.platform, "Windows 10")
    BY <1>1, <2>1 DEF PlaywrightDefaults, Untouched, SuiteFields
  <2>3. QED
    BY <1>2, <1>3, <1>4, <1>6, <2>2 DEF HasTargets
<1>7. CASE fw = "testcafe"
  <2>1. r = TestcafeDefaults(p, s)
    BY <1>2, <1>7 DEF SuiteDefaults
  <2>2. PICK platform : platform = IF s.browser = "safari" THEN "macOS 11.00" ELSE "Windows 10"
    OBVIOUS
  <2>3. /\ Untouched(r, s) /\ r.devices = s.devices /\ r.threshold = AtLeastOne(s.threshold)
        /\ r.platform = IF s.virtuals = <<>> THEN OrElse(s.platform, platform) ELSE s.platform
        /\ r.env = FlagsOverRoot(p, s)
    BY <1>1, <2>1, <2>2 DEF TestcafeDefaults, Untouched, SuiteFields
  <2>4. platform # "" /\ r.virtuals = s.virtuals
    BY <2>2, <2>3 DEF Untouched
  <2>5. r.virtuals = <<>> => r.platform # ""
    BY <1>4, <2>3, <2>4
  <2>6. QED
    BY <1>2, <1>3, <1>7, <2>3, <2>5 DEF HasTargets, DefaultEnv
<1>8. CASE fw = "cucumber"
  <2>1. r = CucumberDefaults(p, s)
    BY <1>2, <1>8 DEF SuiteDefaults
  <2>2. PICK platform : platform = IF s.browser = "safari" THEN "macOS 12" ELSE "Windows 11"
    OBVIOUS
  <2>3. /\ Untouched(r, s) /\ r.devices = s.devices /\ r.threshold = AtLeastOne(s.threshold)
        /\ r.platform = OrElse(s.platform, platform) /\ r.browser = OrElse(s.browser, "chromium")
        /\ r.env = FlagsOverRoot(p, s)
    BY <1>1, <2>1, <2>2 DEF CucumberDefaults, Untouched, SuiteFields
  <2>4. platform # ""
    BY <2>2
  <2>5. r.platform # "" /\ r.browser # ""
    BY <1>4, <2>3, <2>4
  <2>6. QED
    BY <1>2, <1>3, <1>8, <2>3, <2>5 DEF HasTargets, DefaultEnv
<1>9. CASE fw = "replay"
  <2>1. r = ReplayDefaults(p, s)
    BY <1>2, <1>9 DEF SuiteDefaults
  <2>2. /\ Untouched(r, s) /\ r.devices = s.devices /\ r.threshold = s.threshold
        /\ r.platform = OrElse(s.platform, "Windows 10")
        /\ r.browser = IF s.browser \in {"", "chrome"} THEN "googlechrome" ELSE s.browser
    BY <1>1, <2>1 DEF ReplayDefaults, Untouched, SuiteFields
  <2>3. r.platform # "" /\ r.browser # ""
    BY <1>4, <2>2
  <2>4. QED
    BY <1>1, <1>2, <1>9, <2>2, <2>3 DEF HasTargets
<1>10. CASE fw = "espresso"
  <2>1. r = EspressoDefaults(p, s)
    BY <1>2, <1>10 DEF SuiteDefaults
  <2>2. /\ Untouched(r, s) /\ r.devices = DevicesDefaults(s)
        /\ r.threshold = AtLeastOne(s.threshold) /\ r.testApp = OrElse(s.testApp, p.testApp)
    BY <1>1, <2>1 DEF EspressoDefaults, Untouched, SuiteFields
  <2>3. QED
    BY <1>2, <1>3, <1>4, <1>10, <2>2 DEF HasTargets, Web
<1>11. CASE fw = "xcuitest"
  <2>1. r = XcuitestDefaults(p, s)
    BY <1>2, <1>11 DEF SuiteDefaults
  <2>2. /\ Untouched(r, s) /\ r.devices = DevicesDefaults(s)
        /\ r.threshold = AtLeastOne(s.threshold) /\ r.env = FlagsOverRoot(p, s)
    BY <1>1, <2>1 DEF XcuitestDefaults, Untouched, SuiteFields
  <2>3. QED
    BY <1>2, <1>3, <1>11, <2>2 DEF HasTargets, DefaultEnv, Web
<1>12. CASE fw = "xctest"
  <2>1. r = XctestDefaults(p, s)
    BY <1>2, <1>12 DEF SuiteDefaults
  <2>2. /\ Untouched(r, s) /\ r.devices = DevicesDefaults(s)
        /\ r.threshold = AtLeastOne(s.threshold) /\ r.env = FlagsOverRoot(p, s)
    BY <1>1, <2>1 DEF XctestDefaults, Untouched, SuiteFields
  <2>3. QED
    BY <1>2, <1>3, <1>12, <2>2 DEF HasTargets, DefaultEnv, Web
<1>13. QED
  BY <1>5, <1>6, <1>7, <1>8, <1>9, <1>10, <1>11, <1>12 DEF Web, Mobile

\* So a suite stays typed and keeps its tests.
LEMMA DefaultedSuite ==
  ASSUME NEW p, NEW s, IsTyped(s), fw \in Web \cup Mobile
  PROVE  /\ IsTyped(SuiteDefaults(p, s)) /\ ComesFrom(SuiteDefaults(p, s), s)
         /\ SuiteDefaults(p, s).only = s.only /\ SuiteDefaults(p, s).part = s.part
<1>1. PICK r : r = SuiteDefaults(p, s)
  OBVIOUS
<1>2. /\ Untouched(r, s) /\ r.devices \in {s.devices, DevicesDefaults(s)}
      /\ r.threshold \in Int
  BY <1>1, Defaulting
<1>3. IsSeq(DevicesDefaults(s)) /\ DOMAIN DevicesDefaults(s) = DOMAIN s.devices
  <2>1. PICK ds : ds = s.devices
    OBVIOUS
  <2>2. PICK t : t = [i \in DOMAIN ds |-> [ds[i] EXCEPT !.type = Upper(@)]]
    OBVIOUS
  <2>3. IsSeq(t) /\ DOMAIN t = DOMAIN ds
    BY <2>1, <2>2, Mapped DEF IsTyped
  <2>4. QED
    BY <2>1, <2>2, <2>3 DEF DevicesDefaults
<1>4. IsSeq(r.devices) /\ DOMAIN r.devices = DOMAIN s.devices
  BY <1>2, <1>3 DEF IsTyped
<1>5. IsTyped(r) /\ ComesFrom(r, s)
  BY <1>2, <1>4 DEF Untouched, IsTyped, ComesFrom
<1>6. r.only = s.only /\ r.part = s.part
  BY <1>2 DEF Untouched
<1>7. QED
  BY <1>1, <1>5, <1>6

-----------------------------------------------------------------------------
(* Parts of a suite                                                        *)

\* What is made of a suite keeps its tests and its targets.
IsPart(r, s) == IsTyped(r) /\ ComesFrom(r, s) /\ SameTargets(r, s)

\* It may select the tests in yet another way.
SameSelection(r, s) == r.only = s.only /\ r.part = s.part /\ r.class = s.class

\* So is a suite that differs in its name, its patterns and its selection.
LEMMA PartOf ==
  ASSUME NEW s, IsTyped(s), NEW r, DOMAIN r = SuiteFields, IsSeq(r.patterns),
         \A f \in SuiteFields \ {"name", "patterns", "only", "part", "class", "browserVersion"} :
           r[f] = s[f]
  PROVE  IsPart(r, s)
<1>1. ComesFrom(r, s) /\ SameTargets(r, s) /\ r.devices = s.devices
  BY DEF SuiteFields, ComesFrom, SameTargets
<1>2. IsTyped(r)
  BY <1>1 DEF IsTyped, ComesFrom, SameTargets
<1>3. QED
  BY <1>1, <1>2 DEF IsPart

\* A suite is a part of itself, and parts of parts are parts.
LEMMA PartOfPart ==
  ASSUME NEW s, IsTyped(s), NEW r, IsPart(r, s), NEW q, IsPart(q, r)
  PROVE  IsPart(s, s) /\ IsPart(q, s)
BY DEF IsPart, ComesFrom, SameTargets

\* One part for each file runs its file.
LEMMA SpecShards ==
  ASSUME NEW s, IsTyped(s), NEW files, IsSeq(files)
  PROVE  /\ IsSeq(BySpec(s, files)) /\ DOMAIN BySpec(s, files) = DOMAIN files
         /\ \A i \in DOMAIN files :
              /\ IsPart(BySpec(s, files)[i], s)
              /\ SameSelection(BySpec(s, files)[i], s)
              /\ ToSet(BySpec(s, files)[i].patterns) = {AsPattern(files[i])}
<1>1. PICK rs : rs = BySpec(s, files)
  OBVIOUS
<1>2. rs = [i \in DOMAIN files |->
              [s EXCEPT !.name = Append(@, files[i]), !.patterns = <<AsPattern(files[i])>>]]
  BY <1>1 DEF BySpec
<1>3. IsSeq(rs) /\ DOMAIN rs = DOMAIN files
  BY <1>2, Mapped
<1>4. ASSUME NEW i \in DOMAIN files
      PROVE  /\ IsPart(rs[i], s) /\ SameSelection(rs[i], s)
             /\ ToSet(rs[i].patterns) = {AsPattern(files[i])}
  <2>1. PICK name : name = Append(s.name, files[i])
    OBVIOUS
  <2>2. PICK p : p = AsPattern(files[i])
    OBVIOUS
  <2>3. PICK patterns : patterns = <<p>>
    OBVIOUS
  <2>4. PICK r : r = rs[i]
    OBVIOUS
  <2>5. /\ DOMAIN r = SuiteFields /\ r.patterns = patterns
        /\ \A f \in SuiteFields \ {"name", "patterns"} : r[f] = s[f]
    BY <1>2, <2>1, <2>2, <2>3, <2>4 DEF IsTyped, SuiteFields
  <2>6. IsSeq(patterns) /\ ToSet(patterns) = {p}
    <3>1. p \in {p}
      OBVIOUS
    <3>2. QED
      BY <2>3, <3>1, Single, OwnElements DEF IsSeq
  <2>7. IsPart(r, s)
    BY <2>5, <2>6, PartOf
  <2>8. SameSelection(r, s)
    BY <2>5 DEF SameSelection, SuiteFields
  <2>9. QED
    BY <2>2, <2>4, <2>5, <2>6, <2>7, <2>8
<1>5. QED
  BY <1>1, <1>3, <1>4

\* One part for each group runs the files of its group.
LEMMA GroupShards ==
  ASSUME NEW s, IsTyped(s), NEW groups, IsSeq(groups), \A i \in DOMAIN groups : IsSeq(groups[i])
  PROVE  /\ IsSeq(ByConcurrency(s, groups)) /\ DOMAIN ByConcurrency(s, groups) = DOMAIN groups
         /\ \A i \in DOMAIN groups :
              /\ IsPart(ByConcurrency(s, groups)[i], s)
              /\ SameSelection(ByConcurrency(s, groups)[i], s)
              /\ \A f \in ToSet(groups[i]) :
                   AsPattern(f) \in ToSet(ByConcurrency(s, groups)[i].patterns)
<1>1. PICK rs : rs = ByConcurrency(s, groups)
  OBVIOUS
<1>2. rs = [i \in DOMAIN groups |->
              [s EXCEPT !.name = @ \o <<i, Len(groups)>>, !.patterns = AsPatterns(groups[i])]]
  BY <1>1 DEF ByConcurrency
<1>3. IsSeq(rs) /\ DOMAIN rs = DOMAIN groups
  BY <1>2, Mapped
<1>4. ASSUME NEW i \in DOMAIN groups
      PROVE  /\ IsPart(rs[i], s) /\ SameSelection(rs[i], s)
             /\ \A f \in ToSet(groups[i]) : AsPattern(f) \in ToSet(rs[i].patterns)
  <2>1. PICK name : name = s.name \o <<i, Len(groups)>>
    OBVIOUS
  <2>2. PICK g : g = groups[i]
    OBVIOUS
  <2>3. PICK patterns : patterns = [k \in DOMAIN g |-> AsPattern(g[k])]
    OBVIOUS
  <2>4. PICK r : r = rs[i]
    OBVIOUS
  <2>5. patterns = AsPatterns(groups[i])
    BY <2>2, <2>3 DEF AsPatterns
  <2>6. /\ DOMAIN r = SuiteFields /\ r.patterns = patterns
        /\ \A f \in SuiteFields \ {"name", "patterns"} : r[f] = s[f]
    BY <1>2, <2>1, <2>4, <2>5 DEF IsTyped, SuiteFields
  <2>7. IsSeq(g)
    BY <2>2
  <2>8. IsSeq(patterns) /\ DOMAIN patterns = DOMAIN g
    BY <2>3, <2>7, Mapped
  <2>9. \A f \in ToSet(g) : AsPattern(f) \in ToSet(patterns)
    <3>1. ASSUME NEW f \in ToSet(g)
          PROVE  AsPattern(f) \in ToSet(patterns)
      <4>1. PICK k \in DOMAIN g : g[k] = f
        BY <2>7, Numbered
      <4>2. patterns[k] = AsPattern(f)
        BY <2>3, <4>1
      <4>3. QED
        BY <2>8, <4>1, <4>2 DEF ToSet
    <3>2. QED
      BY <3>1
  <2>10. IsPart(r, s)
    BY <2>6, <2>8, PartOf
  <2>11. SameSelection(r, s)
    BY <2>6 DEF SameSelection, SuiteFields
  <2>12. QED
    BY <2>2, <2>4, <2>6, <2>9, <2>10, <2>11
<1>5. QED
  BY <1>1, <1>3, <1>4

\* The parts of a suite by scenario.
Scenarios(s, files, rs) ==
  /\ IsSeq(rs)
  /\ \A r \in ToSet(rs) : /\ IsPart(r, s) /\ r.patterns = s.patterns
                          /\ r.part = s.part /\ r.class = s.class
  /\ \A f \in ToSet(files) : \A x \in TestsIn[f] : \E r \in ToSet(rs) : r.only = NameRegex[x]

\* One part for each scenario runs its scenario.
LEMMA ScenarioShards ==
  ASSUME NEW s, IsTyped(s), NEW files \in Seq(Files)
  PROVE  Scenarios(s, files, ByScenario(s, files))
<1>1. PICK T : T = {TestsIn[f] : f \in ToSet(files)}
  OBVIOUS
<1>2. PICK n \in Nat : n = Len(files) /\ DOMAIN files = 1..n /\ \A k \in 1..n : files[k] \in Files
  OBVIOUS
<1>3. ToSet(files) \subseteq Files /\ \A f : f \in ToSet(files) <=> \E k \in 1..n : files[k] = f
  BY <1>2 DEF ToSet
<1>4. IsFiniteSet(T)
  <2>1. PICK g : g = [k \in 1..n |-> TestsIn[files[k]]]
    OBVIOUS
  <2>2. \A x : x \in T <=> \E k \in 1..n : g[k] = x
    <3>1. \A x : x \in T <=> \E f \in ToSet(files) : x = TestsIn[f]
      BY <1>1
    <3>2. \A k \in 1..n : g[k] = TestsIn[files[k]]
      BY <2>1
    <3>3. \A x : x \in T <=> \E k \in 1..n : x = TestsIn[files[k]]
      BY <1>3, <3>1
    <3>4. QED
      BY <3>2, <3>3
  <2>3. g \in Surjection(1..n, T)
    <3>1. g = [k \in 1..n |-> g[k]]
      BY <2>1
    <3>2. g \in [1..n -> T]
      BY <2>2, <3>1
    <3>3. QED
      BY <2>2, <3>2 DEF Surjection
  <2>4. IsFiniteSet(1..n)
    BY FS_Interval
  <2>5. QED
    BY <2>3, <2>4, FS_Surjection
<1>5. \A x \in T : IsFiniteSet(x)
  BY <1>1, <1>3, PlanAssumption
<1>6. PICK U : U = UNION T
  OBVIOUS
<1>7. IsFiniteSet(U)
  BY <1>4, <1>5, <1>6, FS_UNION
<1>8. PICK names : names = SetToSeq(U)
  OBVIOUS
<1>9. names \in Seq(U) /\ ToSet(names) = U
  BY <1>7, <1>8, ListedSet
<1>10. IsSeq(names)
  BY <1>9 DEF IsSeq
<1>11. PICK rs : rs = ByScenario(s, files)
  OBVIOUS
<1>12. rs = [i \in DOMAIN names |->
               [s EXCEPT !.name = Append(@, names[i]), !.only = NameRegex[names[i]]]]
  BY <1>1, <1>6, <1>8, <1>11 DEF ByScenario
<1>13. IsSeq(rs) /\ DOMAIN rs = DOMAIN names
  BY <1>10, <1>12, Mapped
<1>14. ASSUME NEW i \in DOMAIN names
       PROVE  /\ IsPart(rs[i], s) /\ rs[i].patterns = s.patterns /\ rs[i].part = s.part
              /\ rs[i].class = s.class /\ rs[i].only = NameRegex[names[i]]
  <2>1. PICK name : name = Append(s.name, names[i])
    OBVIOUS
  <2>2. PICK only : only = NameRegex[names[i]]
    OBVIOUS
  <2>3. PICK r : r = rs[i]
    OBVIOUS
  <2>4. /\ DOMAIN r = SuiteFields /\ r.only = only
        /\ \A f \in SuiteFields \ {"name", "only"} : r[f] = s[f]
    BY <1>12, <2>1, <2>2, <2>3 DEF IsTyped, SuiteFields
  <2>5. r.patterns = s.patterns /\ r.part = s.part /\ r.class = s.class
    BY <2>4 DEF SuiteFields
  <2>6. IsPart(r, s)
    BY <2>4, <2>5, PartOf DEF IsTyped
  <2>7. QED
    BY <2>2, <2>3, <2>4, <2>5, <2>6
<1>15. ASSUME NEW f \in ToSet(files), NEW x \in TestsIn[f]
       PROVE  \E r \in ToSet(rs) : r.only = NameRegex[x]
  <2>1. x \in U
    BY <1>1, <1>6
  <2>2. PICK i \in DOMAIN names : names[i] = x
    BY <1>9, <2>1 DEF ToSet
  <2>3. rs[i] \in ToSet(rs) /\ rs[i].only = NameRegex[x]
    BY <1>13, <1>14, <2>2 DEF ToSet
  <2>4. QED
    BY <2>3
<1>16. QED
  <2>1. ASSUME NEW r \in ToSet(rs)
        PROVE  /\ IsPart(r, s)
               /\ r.patterns = s.patterns /\ r.part = s.part /\ r.class = s.class
    BY <1>13, <1>14, Numbered
  <2>2. QED
    BY <1>11, <1>13, <1>15, <2>1 DEF Scenarios

\* The parts of a suite by number.
Numbering(s, rs) ==
  /\ IsSeq(rs)
  /\ \A r \in ToSet(rs) :
       IsPart(r, s) /\ r.patterns = s.patterns /\ r.only = s.only /\ r.class = s.class
  /\ \A k \in Nat : \E r \in ToSet(rs) :
       r.part = s.part \/ (r.part # <<>> /\ k % r.part[2] = r.part[1])

\* A suite alone leaves no number out.
LEMMA Alone ==
  ASSUME NEW s, IsTyped(s)
  PROVE  Numbering(s, <<s>>)
<1>1. s \in {s}
  OBVIOUS
<1>2. <<s>> \in Seq({s}) /\ ToSet(<<s>>) = {s}
  BY <1>1, Single
<1>3. IsSeq(<<s>>)
  BY <1>2 DEF IsSeq
<1>4. IsPart(s, s)
  BY DEF IsPart, ComesFrom, SameTargets
<1>5. QED
  BY <1>2, <1>3, <1>4 DEF Numbering

\* Nor do numbered parts, with whatever names.
LEMMA NumberedParts ==
  ASSUME NEW s, IsTyped(s), NEW n \in Nat \ {0}, NEW rs, rs = [i \in 1..n |-> rs[i]],
         \A i \in 1..n : /\ DOMAIN rs[i] = SuiteFields /\ rs[i].part = <<i - 1, n>>
                         /\ \A f \in SuiteFields \ {"name", "part"} : rs[i][f] = s[f]
  PROVE  Numbering(s, rs)
<1>1. IsSeq(rs) /\ DOMAIN rs = 1..n
  BY Listed DEF IsSeq
<1>2. ASSUME NEW i \in 1..n
      PROVE  /\ IsPart(rs[i], s) /\ rs[i].patterns = s.patterns /\ rs[i].only = s.only
             /\ rs[i].class = s.class
  <2>1. PICK r : r = rs[i]
    OBVIOUS
  <2>2. DOMAIN r = SuiteFields /\ \A f \in SuiteFields \ {"name", "part"} : r[f] = s[f]
    BY <2>1
  <2>3. r.patterns = s.patterns /\ r.only = s.only /\ r.class = s.class
    BY <2>2 DEF SuiteFields
  <2>4. IsPart(r, s)
    BY <2>2, <2>3, PartOf DEF IsTyped
  <2>5. QED
    BY <2>1, <2>3, <2>4
<1>3. ASSUME NEW k \in Nat
      PROVE  \E r \in ToSet(rs) : r.part # <<>> /\ k % r.part[2] = r.part[1]
  <2>1. PICK i \in 1..n : i = (k % n) + 1
    OBVIOUS
  <2>2. rs[i].part = <<k % n, n>>
    BY <2>1
  <2>3. rs[i].part # <<>> /\ k % rs[i].part[2] = rs[i].part[1]
    BY <2>2
  <2>4. rs[i] \in ToSet(rs)
    BY <1>1 DEF ToSet
  <2>5. QED
    BY <2>3, <2>4
<1>4. \A r \in ToSet(rs) :
        IsPart(r, s) /\ r.patterns = s.patterns /\ r.only = s.only /\ r.class = s.class
  BY <1>1, <1>2, Numbered
<1>5. QED
  BY <1>1, <1>3, <1>4 DEF Numbering

\* Playwright's parts, and espresso's.
LEMMA NumShards ==
  ASSUME NEW s, IsTyped(s)
  PROVE  Numbering(s, ByNumShards(s)) /\ Numbering(s, EspressoParts(s))
<1>1. PICK n \in Int : n = s.numShards
  BY DEF IsTyped
<1>2. Numbering(s, ByNumShards(s))
  <2>1. CASE n <= 1
    BY <1>1, <2>1, Alone DEF ByNumShards
  <2>2. CASE ~(n <= 1)
    <3>1. PICK names : names = [i \in 1..n |-> s.name \o <<"shard", i, n>>]
      OBVIOUS
    <3>2. PICK rs : rs = [i \in 1..n |-> [s EXCEPT !.name = names[i], !.part = <<i - 1, n>>]]
      OBVIOUS
    <3>3. ByNumShards(s) = rs
      BY <1>1, <2>2, <3>1, <3>2 DEF ByNumShards
    <3>4. \A i \in 1..n : /\ DOMAIN rs[i] = SuiteFields /\ rs[i].part = <<i - 1, n>>
                          /\ \A f \in SuiteFields \ {"name", "part"} : rs[i][f] = s[f]
      BY <3>2 DEF IsTyped, SuiteFields
    <3>5. rs = [i \in 1..n |-> rs[i]]
      BY <3>2, Zenon
    <3>6. n \in Nat \ {0}
      BY <2>2
    <3>7. Numbering(s, rs)
      BY <3>4, <3>5, <3>6, NumberedParts
    <3>8. QED
      BY <3>3, <3>7
  <2>3. QED
    BY <2>1, <2>2
<1>3. Numbering(s, EspressoParts(s))
  <2>1. CASE ~(n > 0)
    BY <1>1, <2>1, Alone DEF EspressoParts
  <2>2. CASE n > 0
    <3>1. PICK rs : rs = [i \in 1..n |-> [s EXCEPT !.part = <<i - 1, n>>]]
      OBVIOUS
    <3>2. EspressoParts(s) = rs
      BY <1>1, <2>2, <3>1 DEF EspressoParts
    <3>3. \A i \in 1..n : /\ DOMAIN rs[i] = SuiteFields /\ rs[i].part = <<i - 1, n>>
                          /\ \A f \in SuiteFields \ {"name", "part"} : rs[i][f] = s[f]
      BY <3>1 DEF IsTyped, SuiteFields
    <3>4. rs = [i \in 1..n |-> rs[i]] /\ n \in Nat \ {0}
      BY <2>2, <3>1
    <3>5. Numbering(s, rs)
      BY <3>3, <3>4, NumberedParts
    <3>6. QED
      BY <3>2, <3>5
  <2>3. QED
    BY <2>1, <2>2
<1>4. QED
  BY <1>2, <1>3

\* The parts of a suite by tests of an app.
TestLists(s, groups, rs) ==
  /\ IsSeq(rs)
  /\ \A r \in ToSet(rs) : IsPart(r, s) /\ r.only = s.only /\ r.part = s.part
  /\ \A i \in DOMAIN groups : \E r \in ToSet(rs) : r.class = ToSet(groups[i])

\* One part for each group of tests of an app names its tests.
LEMMA TestListShards ==
  ASSUME NEW s, IsTyped(s), NEW groups, IsSeq(groups)
  PROVE  TestLists(s, groups, ByTestList(s, groups))
<1>1. PICK rs : rs = ByTestList(s, groups)
  OBVIOUS
<1>2. PICK names : names = [i \in DOMAIN groups |->
        IF s.shard = "testList" THEN s.name \o groups[i] ELSE s.name \o <<i, Len(groups)>>]
  OBVIOUS
<1>3. rs = [i \in DOMAIN groups |->
              [s EXCEPT !.name = names[i], !.class = ToSet(groups[i])]]
  BY <1>1, <1>2 DEF ByTestList
<1>4. IsSeq(rs) /\ DOMAIN rs = DOMAIN groups
  BY <1>3, Mapped
<1>5. ASSUME NEW i \in DOMAIN groups
      PROVE  /\ IsPart(rs[i], s) /\ rs[i].only = s.only /\ rs[i].part = s.part
             /\ rs[i].class = ToSet(groups[i])
  <2>1. PICK r : r = rs[i]
    OBVIOUS
  <2>2. PICK class : class = ToSet(groups[i])
    OBVIOUS
  <2>3. /\ DOMAIN r = SuiteFields /\ r.class = class
        /\ \A f \in SuiteFields \ {"name", "class"} : r[f] = s[f]
    BY <1>3, <2>1, <2>2 DEF IsTyped, SuiteFields
  <2>4. r.patterns = s.patterns /\ r.only = s.only /\ r.part = s.part
    BY <2>3 DEF SuiteFields
  <2>5. IsPart(r, s)
    BY <2>3, <2>4, PartOf DEF IsTyped
  <2>6. QED
    BY <2>1, <2>2, <2>3, <2>4, <2>5
<1>6. \A r \in ToSet(rs) : IsPart(r, s) /\ r.only = s.only /\ r.part = s.part
  BY <1>4, <1>5, Numbered
<1>7. \A i \in DOMAIN groups : \E r \in ToSet(rs) : r.class = ToSet(groups[i])
  BY <1>4, <1>5 DEF ToSet
<1>8. QED
  BY <1>1, <1>4, <1>6, <1>7 DEF TestLists

-----------------------------------------------------------------------------
(* Buckets                                                                 *)

\* The quotient is the greatest number of times that n goes into a.
LEMMA Quotient ==
  ASSUME NEW n \in Nat \ {0}, NEW a \in Nat, NEW q \in Nat, n * q <= a
  PROVE  a \div n \in Nat /\ q <= a \div n
<1>1. PICK d \in Int : d = a \div n
  OBVIOUS
<1>2. PICK r \in Int : r = a % n
  OBVIOUS
<1>3. a = n * d + r /\ 0 <= r /\ r < n
  BY <1>1, <1>2
<1>4. q <= d
  <2>1. SUFFICES ASSUME d + 1 <= q PROVE FALSE
    OBVIOUS
  <2>2. n * (d + 1) <= n * q
    BY <2>1
  <2>3. n * (d + 1) = n * d + n
    OBVIOUS
  <2>4. QED
    BY <1>3, <2>2, <2>3
<1>5. d \in Nat
  BY <1>4
<1>6. QED
  BY <1>1, <1>4, <1>5

\* BinPack puts every item into a bucket.
LEMMA Packing ==
  ASSUME NEW S, NEW items \in Seq(S), NEW c \in Nat \ {0}
  PROVE  /\ IsSeq(BinPack(items, c))
         /\ \A b \in DOMAIN BinPack(items, c) : IsSeq(BinPack(items, c)[b])
         /\ \A x \in ToSet(items) : \E b \in DOMAIN BinPack(items, c) :
              x \in ToSet(BinPack(items, c)[b])
<1>1. PICK l \in Nat : l = Len(items) /\ DOMAIN items = 1..l
  OBVIOUS
<1>2. IsSeq(items)
  BY OwnElements DEF IsSeq
<1>3. PICK groups : groups = BinPack(items, c)
  OBVIOUS
<1>4. CASE c = 1
  <2>1. groups = <<items>>
    BY <1>3, <1>4 DEF BinPack
  <2>2. items \in {items}
    OBVIOUS
  <2>3. <<items>> \in Seq({items}) /\ ToSet(<<items>>) = {items}
    BY <2>2, Single
  <2>4. IsSeq(groups)
    BY <2>1, <2>3 DEF IsSeq
  <2>5. DOMAIN groups = {1} /\ groups[1] = items
    BY <2>1
  <2>6. QED
    BY <1>2, <1>3, <2>4, <2>5
<1>5. CASE c # 1
  <2>1. PICK n \in Nat : n = IF c > l THEN l ELSE c
    OBVIOUS
  <2>2. n <= l /\ (l # 0 => n # 0)
    BY <2>1
  <2>3. groups = [b \in 1..n |-> [k \in 1..((l - b) \div n + 1) |-> items[(k - 1) * n + b]]]
    BY <1>1, <1>3, <1>5, <2>1 DEF BinPack
  <2>4. groups = [b \in 1..n |-> groups[b]]
    BY <2>3
  <2>5. IsSeq(groups) /\ DOMAIN groups = 1..n
    BY <2>4, Listed DEF IsSeq
  <2>6. ASSUME NEW b \in 1..n
        PROVE  IsSeq(groups[b])
    <3>1. l - b \in Nat /\ n \in Nat \ {0} /\ n * 0 <= l - b
      BY <2>2
    <3>2. PICK m \in Nat : m = (l - b) \div n + 1
      BY <3>1, Quotient
    <3>3. PICK g : g = groups[b]
      OBVIOUS
    <3>4. g = [k \in 1..m |-> items[(k - 1) * n + b]]
      BY <2>3, <3>2, <3>3
    <3>5. g = [k \in 1..m |-> g[k]]
      BY <3>4
    <3>6. IsSeq(g)
      BY <3>5, Listed DEF IsSeq
    <3>7. QED
      BY <3>3, <3>6
  <2>7. ASSUME NEW x \in ToSet(items)
        PROVE  \E b \in 1..n : x \in ToSet(groups[b])
    <3>1. PICK i \in 1..l : items[i] = x
      BY <1>1 DEF ToSet
    <3>2. n \in Nat \ {0} /\ i - 1 \in Nat
      BY <2>2, <3>1
    <3>3. PICK q \in Nat : q = (i - 1) \div n
      <4>1. n * 0 <= i - 1
        BY <3>2
      <4>2. QED
        BY <3>2, <4>1, Quotient
    <3>4. PICK r \in 0..(n - 1) : r = (i - 1) % n
      BY <3>2
    <3>5. i - 1 = n * q + r
      BY <3>2, <3>3, <3>4
    <3>6. PICK b \in 1..n : b = r + 1
      BY <3>4
    <3>7. PICK nq \in Nat : nq = n * q
      OBVIOUS
    <3>8. l - b \in Nat /\ nq <= l - b
      BY <3>1, <3>5, <3>6, <3>7
    <3>9. (l - b) \div n \in Nat /\ q <= (l - b) \div n
      BY <3>2, <3>7, <3>8, Quotient
    <3>10. PICK m \in Nat : m = (l - b) \div n + 1
      BY <3>9
    <3>11. q + 1 \in 1..m
      BY <3>9, <3>10
    <3>12. PICK g : g = groups[b]
      OBVIOUS
    <3>13. g = [k \in 1..m |-> items[(k - 1) * n + b]]
      BY <2>3, <3>10, <3>12
    <3>14. g[q + 1] = items[q * n + b]
      BY <3>11, <3>13
    <3>15. q * n + b = i
      BY <3>5, <3>6
    <3>16. x \in ToSet(g)
      BY <3>1, <3>11, <3>13, <3>14, <3>15 DEF ToSet
    <3>17. QED
      BY <3>12, <3>16
  <2>8. QED
    BY <1>3, <2>5, <2>6, <2>7
<1>6. QED
  BY <1>4, <1>5

-----------------------------------------------------------------------------
(* The files that a suite runs                                             *)

\* A test that the files and the filter of a suite let run.
Eligible(s) == {t \in Tests : InFiles(s, t) /\ Passes(t[2], s.grep)}

\* A list with the files of all eligible tests.
Lists(files, s) == files \in Seq(Files) /\ \A t \in Eligible(s) : t[1] \in ToSet(files)

\* A test is in a file.
LEMMA TestFile ==
  ASSUME NEW t \in Tests
  PROVE  t[1] \in Files /\ t[2] \in TestsIn[t[1]]
BY DEF Tests

\* What is found for the patterns of a suite.
LEMMA FoundFiles ==
  ASSUME NEW s, IsTyped(s)
  PROVE  /\ Lists(FindFiles(s.patterns), s)
         /\ \A t \in Eligible(s) : fw # "replay" => t[1] \notin ToSet(FindFiles(s.excluded))
<1>1. /\ FindFiles(s.patterns) \in Seq(Files)
      /\ ToSet(FindFiles(s.patterns)) = {f \in Files : \E p \in ToSet(s.patterns) : f \in p}
  BY Finding DEF IsTyped
<1>2. ToSet(FindFiles(s.excluded)) = {f \in Files : \E p \in ToSet(s.excluded) : f \in p}
  BY Finding DEF IsTyped
<1>3. ASSUME NEW t \in Eligible(s)
      PROVE  /\ t[1] \in ToSet(FindFiles(s.patterns))
             /\ fw # "replay" => t[1] \notin ToSet(FindFiles(s.excluded))
  <2>1. t \in Tests /\ InFiles(s, t)
    BY DEF Eligible
  <2>2. t[1] \in Files
    BY <2>1, TestFile
  <2>3. QED
    BY <1>1, <1>2, <2>1, <2>2 DEF InFiles
<1>4. QED
  BY <1>1, <1>3 DEF Lists

\* Exclusion spares the eligible tests.
LEMMA ExcludedFiles ==
  ASSUME NEW s, IsTyped(s), NEW files, Lists(files, s), fw # "replay"
  PROVE  Lists(ExcludeFiles(files, FindFiles(s.excluded)), s)
<1>1. PICK excluded : excluded = FindFiles(s.excluded)
  OBVIOUS
<1>2. /\ ExcludeFiles(files, excluded) \in Seq(Files)
      /\ ToSet(ExcludeFiles(files, excluded)) = ToSet(files) \ ToSet(excluded)
  BY Excluding DEF Lists
<1>3. \A t \in Eligible(s) : t[1] \notin ToSet(excluded)
  BY <1>1, FoundFiles
<1>4. QED
  BY <1>1, <1>2, <1>3 DEF Lists

\* So does .sauceignore.
LEMMA UnignoredFiles ==
  ASSUME NEW s, NEW files, Lists(files, s), fw # "replay"
  PROVE  Lists(ExcludeSauceIgnorePatterns(files), s)
<1>1. /\ ExcludeSauceIgnorePatterns(files) \in Seq(Files)
      /\ ToSet(ExcludeSauceIgnorePatterns(files)) = ToSet(files) \ Ignored
  BY ExcludingIgnored DEF Lists
<1>2. \A t \in Eligible(s) : t[1] \notin Ignored
  BY DEF Eligible, InFiles
<1>3. QED
  BY <1>1, <1>2 DEF Lists

\* And a filter spares the tests that pass it.
LEMMA FilteredFiles ==
  ASSUME NEW s, NEW files, Lists(files, s)
  PROVE  Lists(IF s.byGrep /\ s.grep # NoFilter THEN MatchFiles(files, s.grep) ELSE files, s)
<1>1. CASE ~(s.byGrep /\ s.grep # NoFilter)
  BY <1>1
<1>2. CASE s.byGrep /\ s.grep # NoFilter
  <2>1. PICK grep : grep = s.grep
    OBVIOUS
  <2>2. PICK matching : matching = MatchFiles(files, grep)
    OBVIOUS
  <2>3. /\ matching \in Seq(Files)
        /\ ToSet(matching) = {f \in ToSet(files) : TestsIn[f] \cap grep # {}}
    BY <2>2, Matching DEF Lists
  <2>4. ASSUME NEW t \in Eligible(s)
        PROVE  t[1] \in ToSet(matching)
    <3>1. t[2] \in grep
      BY <1>2, <2>1 DEF Eligible, Passes
    <3>2. t[2] \in TestsIn[t[1]]
      BY TestFile DEF Eligible
    <3>3. t[1] \in ToSet(files)
      BY DEF Lists
    <3>4. QED
      BY <2>3, <3>1, <3>2, <3>3
  <2>5. Lists(matching, s)
    BY <2>3, <2>4 DEF Lists
  <2>6. QED
    BY <1>2, <2>1, <2>2, <2>5
<1>3. QED
  BY <1>1, <1>2

\* The files a framework shards hold all eligible tests.
LEMMA ShardedFiles ==
  ASSUME NEW s, IsTyped(s)
  PROVE  /\ fw # "replay" =>
              /\ Lists(ExcludeFiles(CypressFiles(s), FindFiles(s.excluded)), s)
              /\ Lists(PlaywrightFiles(s), s)
              /\ Lists(TestcafeFiles(s), s)
              /\ Lists(ExcludeFiles(CucumberFiles(s), FindFiles(s.excluded)), s)
              /\ Lists(ExcludeFiles(FindFiles(s.patterns), FindFiles(s.excluded)), s)
         /\ fw = "replay" =>
              Lists(Where(FindFiles(s.patterns), LAMBDA f : f \in Recordings), s)
<1>1. PICK found : found = FindFiles(s.patterns)
  OBVIOUS
<1>2. Lists(found, s)
  BY <1>1, FoundFiles
<1>3. CASE fw # "replay"
  <2>1. PICK unignored : unignored = ExcludeSauceIgnorePatterns(found)
    OBVIOUS
  <2>2. Lists(unignored, s)
    BY <1>2, <1>3, <2>1, UnignoredFiles
  <2>3. PICK spared : spared = ExcludeFiles(unignored, FindFiles(s.excluded))
    OBVIOUS
  <2>4. Lists(spared, s)
    BY <1>3, <2>2, <2>3, ExcludedFiles
  <2>5. Lists(CypressFiles(s), s)
    BY <1>1, <2>1, <2>2, FilteredFiles DEF CypressFiles
  <2>6. Lists(PlaywrightFiles(s), s)
    BY <1>1, <2>1, <2>3, <2>4, FilteredFiles DEF PlaywrightFiles
  <2>7. Lists(TestcafeFiles(s), s)
    BY <1>1, <2>1, <2>3, <2>4 DEF TestcafeFiles
  <2>8. Lists(CucumberFiles(s), s)
    BY <1>1, <1>2, FilteredFiles DEF CucumberFiles
  <2>9. Lists(ExcludeFiles(found, FindFiles(s.excluded)), s)
    BY <1>2, <1>3, ExcludedFiles
  <2>10. QED
    BY <1>1, <1>3, <2>5, <2>6, <2>7, <2>8, <2>9, ExcludedFiles
<1>4. CASE fw = "replay"
  <2>1. PICK recordings : recordings = Where(found, LAMBDA f : f \in Recordings)
    OBVIOUS
  <2>2. recordings = Only(found, Recordings)
    BY <2>1 DEF Where, Only
  <2>3. recordings \in Seq(Files) /\ ToSet(recordings) = ToSet(found) \cap Recordings
    BY <1>2, <2>2, Kept DEF Lists
  <2>4. \A t \in Eligible(s) : t[1] \in Recordings
    BY <1>4 DEF Eligible, InFiles
  <2>5. Lists(recordings, s)
    BY <1>2, <2>3, <2>4 DEF Lists
  <2>6. QED
    BY <1>1, <1>4, <2>1, <2>5
<1>5. QED
  BY <1>3, <1>4

-----------------------------------------------------------------------------
(* Shards                                                                  *)

\* The parts rs of s run all that s runs and that matches itself.
Share(rs, s) ==
  /\ IsSeq(rs)
  /\ \A r \in ToSet(rs) : IsPart(r, s)
  /\ \A t \in Runs(s) : MatchesItself(s, t) => \E r \in ToSet(rs) : t \in Runs(r)

\* A test still runs when a part has its file and selects it.
LEMMA StillRuns ==
  ASSUME NEW s, NEW r, ComesFrom(r, s), NEW t \in Runs(s),
         fw \notin Mobile => \E p \in ToSet(r.patterns) : t[1] \in p,
         Passes(t[2], r.only), Passes(t[2], r.class), InPart(r, t)
  PROVE  t \in Runs(r)
<1>1. t \in Tests /\ (fw \notin Mobile => InFiles(s, t) /\ Passes(t[2], s.grep))
  BY DEF Runs
<1>2. fw \notin Mobile => InFiles(r, t) /\ Passes(t[2], r.grep)
  BY <1>1 DEF InFiles, ComesFrom
<1>3. QED
  BY <1>1, <1>2 DEF Runs

\* What runs is eligible, but for apps.
LEMMA EligibleTests ==
  ASSUME NEW s, NEW t \in Runs(s)
  PROVE  /\ t \in Tests /\ Passes(t[2], s.only) /\ Passes(t[2], s.class) /\ InPart(s, t)
         /\ fw \notin Mobile => t \in Eligible(s) /\ \E p \in ToSet(s.patterns) : t[1] \in p
BY DEF Runs, Eligible, InFiles

\* A file is among those of its pattern, where it has to be.
LEMMA OwnPattern ==
  ASSUME NEW s, NEW t, MatchesItself(s, t), PathsArePatterns(s) \/ fw = "replay"
  PROVE  t[1] \in AsPattern(t[1])
<1>1. CASE PathsArePatterns(s)
  BY <1>1 DEF MatchesItself
<1>2. CASE fw = "replay"
  BY <1>2 DEF AsPattern
<1>3. QED
  BY <1>1, <1>2

\* Every test the suite would run is in the shard of its spec file.
LEMMA SpecShares ==
  ASSUME NEW s, IsTyped(s), NEW files, Lists(files, s), fw \notin Mobile,
         PathsArePatterns(s) \/ fw = "replay"
  PROVE  Share(BySpec(s, files), s)
<1>1. PICK rs : rs = BySpec(s, files)
  OBVIOUS
<1>2. files \in Seq(Files) /\ IsSeq(files)
  BY OwnElements DEF Lists, IsSeq
<1>3. /\ IsSeq(rs) /\ DOMAIN rs = DOMAIN files
      /\ \A i \in DOMAIN files : /\ IsPart(rs[i], s) /\ SameSelection(rs[i], s)
                                 /\ ToSet(rs[i].patterns) = {AsPattern(files[i])}
  BY <1>1, <1>2, SpecShards
<1>4. ASSUME NEW t \in Runs(s), MatchesItself(s, t)
      PROVE  \E r \in ToSet(rs) : t \in Runs(r)
  <2>1. /\ t \in Tests /\ Passes(t[2], s.only) /\ Passes(t[2], s.class) /\ InPart(s, t)
        /\ t \in Eligible(s)
    BY EligibleTests
  <2>2. t[1] \in ToSet(files) /\ t[1] \in Files
    BY <2>1, TestFile DEF Lists
  <2>3. PICK i \in DOMAIN files : files[i] = t[1]
    BY <2>2 DEF ToSet
  <2>4. PICK r : r = rs[i]
    OBVIOUS
  <2>5. /\ ComesFrom(r, s) /\ r \in ToSet(rs)
        /\ r.only = s.only /\ r.part = s.part /\ r.class = s.class
        /\ ToSet(r.patterns) = {AsPattern(t[1])}
    BY <1>3, <2>3, <2>4 DEF IsPart, SameSelection, ToSet
  <2>6. t[1] \in AsPattern(t[1])
    BY <1>4, OwnPattern
  <2>7. \E p \in ToSet(r.patterns) : t[1] \in p
    BY <2>5, <2>6
  <2>8. Passes(t[2], r.only) /\ Passes(t[2], r.class) /\ InPart(r, t)
    BY <2>1, <2>5 DEF InPart
  <2>9. t \in Runs(r)
    BY <2>5, <2>7, <2>8, StillRuns
  <2>10. QED
    BY <2>5, <2>9
<1>5. \A r \in ToSet(rs) : IsPart(r, s)
  BY <1>3, Numbered
<1>6. QED
  BY <1>1, <1>3, <1>4, <1>5 DEF Share

\* ...in the group its spec file was packed into.
LEMMA GroupShares ==
  ASSUME NEW s, IsTyped(s), NEW files, Lists(files, s), fw \notin Mobile, NEW c \in Nat \ {0},
         PathsArePatterns(s)
  PROVE  Share(ByConcurrency(s, BinPack(files, c)), s)
<1>1. PICK groups : groups = BinPack(files, c)
  OBVIOUS
<1>2. /\ IsSeq(groups) /\ \A b \in DOMAIN groups : IsSeq(groups[b])
      /\ \A f \in ToSet(files) : \E b \in DOMAIN groups : f \in ToSet(groups[b])
  BY <1>1, Packing DEF Lists
<1>3. PICK rs : rs = ByConcurrency(s, groups)
  OBVIOUS
<1>4. /\ IsSeq(rs) /\ DOMAIN rs = DOMAIN groups
      /\ \A i \in DOMAIN groups :
           /\ IsPart(rs[i], s) /\ SameSelection(rs[i], s)
           /\ \A f \in ToSet(groups[i]) : AsPattern(f) \in ToSet(rs[i].patterns)
  BY <1>2, <1>3, GroupShards
<1>5. ASSUME NEW t \in Runs(s), MatchesItself(s, t)
      PROVE  \E r \in ToSet(rs) : t \in Runs(r)
  <2>1. /\ t \in Tests /\ Passes(t[2], s.only) /\ Passes(t[2], s.class) /\ InPart(s, t)
        /\ t \in Eligible(s)
    BY EligibleTests
  <2>2. t[1] \in ToSet(files) /\ t[1] \in Files
    BY <2>1, TestFile DEF Lists
  <2>3. PICK b \in DOMAIN groups : t[1] \in ToSet(groups[b])
    BY <1>2, <2>2
  <2>4. PICK r : r = rs[b]
    OBVIOUS
  <2>5. /\ ComesFrom(r, s) /\ r \in ToSet(rs)
        /\ r.only = s.only /\ r.part = s.part /\ r.class = s.class
        /\ AsPattern(t[1]) \in ToSet(r.patterns)
    BY <1>4, <2>3, <2>4 DEF IsPart, SameSelection, ToSet
  <2>6. t[1] \in AsPattern(t[1])
    BY <1>5, OwnPattern
  <2>7. \E p \in ToSet(r.patterns) : t[1] \in p
    BY <2>5, <2>6
  <2>8. Passes(t[2], r.only) /\ Passes(t[2], r.class) /\ InPart(r, t)
    BY <2>1, <2>5 DEF InPart
  <2>9. t \in Runs(r)
    BY <2>5, <2>7, <2>8, StillRuns
  <2>10. QED
    BY <2>5, <2>9
<1>6. \A r \in ToSet(rs) : IsPart(r, s)
  BY <1>4, Numbered
<1>7. QED
  BY <1>1, <1>3, <1>4, <1>5, <1>6 DEF Share

\* ...in the shard of its scenario.
LEMMA ScenarioShares ==
  ASSUME NEW s, IsTyped(s), NEW files, Lists(files, s), fw = "cucumber", s.shard = "scenario"
  PROVE  Share(ByScenario(s, files), s)
<1>1. PICK rs : rs = ByScenario(s, files)
  OBVIOUS
<1>2. files \in Seq(Files)
  BY DEF Lists
<1>3. Scenarios(s, files, rs)
  BY <1>1, <1>2, ScenarioShards
<1>4. ASSUME NEW t \in Runs(s), MatchesItself(s, t)
      PROVE  \E r \in ToSet(rs) : t \in Runs(r)
  <2>1. /\ t \in Tests /\ Passes(t[2], s.class) /\ InPart(s, t)
        /\ t \in Eligible(s) /\ \E p \in ToSet(s.patterns) : t[1] \in p
    BY EligibleTests DEF Mobile
  <2>2. t[1] \in ToSet(files) /\ t[2] \in TestsIn[t[1]]
    BY <2>1, TestFile DEF Lists
  <2>3. PICK r \in ToSet(rs) : r.only = NameRegex[t[2]]
    BY <1>3, <2>2 DEF Scenarios
  <2>4. /\ ComesFrom(r, s) /\ r.patterns = s.patterns
        /\ r.part = s.part /\ r.class = s.class
    BY <1>3 DEF IsPart, Scenarios
  <2>5. Passes(t[2], r.only) /\ Passes(t[2], r.class) /\ InPart(r, t)
    BY <1>4, <2>1, <2>3, <2>4 DEF Passes, InPart, MatchesItself
  <2>6. t \in Runs(r)
    BY <2>1, <2>4, <2>5, StillRuns
  <2>7. QED
    BY <2>6
<1>5. QED
  BY <1>1, <1>3, <1>4 DEF Share, Scenarios

\* ...in the shard its slot number falls into.
LEMMA NumberShares ==
  ASSUME NEW s, NEW rs, Numbering(s, rs)
  PROVE  Share(rs, s) /\ \A t \in Runs(s) : \E r \in ToSet(rs) : t \in Runs(r)
<1>1. ASSUME NEW t \in Runs(s)
      PROVE  \E r \in ToSet(rs) : t \in Runs(r)
  <2>1. /\ t \in Tests /\ Passes(t[2], s.only) /\ Passes(t[2], s.class) /\ InPart(s, t)
        /\ fw \notin Mobile => \E p \in ToSet(s.patterns) : t[1] \in p
    BY EligibleTests
  <2>2. PICK k \in Nat : k = Slot[t]
    BY <2>1, PlanAssumption
  <2>3. PICK r \in ToSet(rs) : \/ r.part = s.part
                                   \/ (r.part # <<>> /\ k % r.part[2] = r.part[1])
    BY DEF Numbering
  <2>4. ComesFrom(r, s) /\ r.patterns = s.patterns /\ r.only = s.only /\ r.class = s.class
    BY DEF Numbering, IsPart
  <2>5. InPart(r, t)
    BY <2>1, <2>2, <2>3 DEF InPart
  <2>6. Passes(t[2], r.only) /\ Passes(t[2], r.class)
    BY <2>1, <2>4
  <2>7. t \in Runs(r)
    BY <2>1, <2>4, <2>5, <2>6, StillRuns
  <2>8. QED
    BY <2>7
<1>2. QED
  BY <1>1 DEF Share, Numbering

\* The parts rs of s run all that is wanted of s, sharded in a way its framework
\* knows.
Fulfil(rs, s) ==
  /\ IsSeq(rs)
  /\ \A r \in ToSet(rs) : IsPart(r, s)
  /\ s.shard \in Shardings => \A t \in Wanted(s) : \E r \in ToSet(rs) : t \in Runs(r)

\* Of most suites, what they run is wanted.
LEMMA WantedIsRun ==
  ASSUME NEW s, NEW rs, Share(rs, s), fw \notin {"xcuitest", "xctest"} \/ s.shard = ""
  PROVE  Fulfil(rs, s)
<1>1. Wanted(s) = {t \in Runs(s) : MatchesItself(s, t)}
  BY DEF Wanted, Asked
<1>2. QED
  BY <1>1 DEF Fulfil, Share

\* Sharding by a list of tests runs every test the list names.
LEMMA TestListFulfils ==
  ASSUME NEW s, IsTyped(s), fw \in {"xcuitest", "xctest"}, NEW c \in Nat \ {0},
         s.only = NoFilter, s.part = <<>>, s.shard # ""
  PROVE  Fulfil(ByTestList(s, BinPack(s.tests, c)), s)
<1>1. PICK tests : tests = s.tests
  OBVIOUS
<1>2. PICK T : T = ToSet(tests)
  OBVIOUS
<1>3. tests \in Seq(T)
  BY <1>1, <1>2 DEF IsTyped, IsSeq
<1>4. PICK groups : groups = BinPack(tests, c)
  OBVIOUS
<1>5. /\ IsSeq(groups)
      /\ \A x \in T : \E b \in DOMAIN groups : x \in ToSet(groups[b])
  BY <1>2, <1>3, <1>4, Packing
<1>6. PICK rs : rs = ByTestList(s, groups)
  OBVIOUS
<1>7. TestLists(s, groups, rs)
  BY <1>5, <1>6, TestListShards
<1>8. ASSUME NEW t \in Wanted(s)
      PROVE  \E r \in ToSet(rs) : t \in Runs(r)
  <2>1. t \in Tests /\ t[2] \in T
    BY <1>1, <1>2 DEF Wanted, Asked
  <2>2. PICK b \in DOMAIN groups : t[2] \in ToSet(groups[b])
    BY <1>5, <2>1
  <2>3. PICK r \in ToSet(rs) : r.class = ToSet(groups[b])
    BY <1>7 DEF TestLists
  <2>4. r.only = NoFilter /\ r.part = <<>>
    BY <1>7 DEF TestLists
  <2>5. Passes(t[2], r.only) /\ Passes(t[2], r.class) /\ InPart(r, t)
    BY <2>2, <2>3, <2>4 DEF Passes, InPart
  <2>6. fw \in Mobile
    BY DEF Mobile
  <2>7. t \in Runs(r)
    BY <2>1, <2>5, <2>6 DEF Runs
  <2>8. QED
    BY <2>7
<1>9. Fulfil(rs, s)
  BY <1>7, <1>8 DEF Fulfil, TestLists
<1>10. QED
  BY <1>1, <1>4, <1>6, <1>9

\* Sharding loses no test of a suite, whatever its framework.
LEMMA Sharding ==
  ASSUME NEW s, IsTyped(s), fw \in Web \cup Mobile, project.concurrency \in Nat \ {0},
         ~ShardFails(s), s.only = NoFilter, s.part = <<>>
  PROVE  Fulfil(Shards(s), s)
<1>1. PICK c \in Nat \ {0} : c = project.concurrency
  OBVIOUS
<1>2. Share(<<s>>, s)
  BY Alone, NumberShares
<1>3. CASE fw = "cypress"
  <2>1. PICK files : files = ExcludeFiles(CypressFiles(s), FindFiles(s.excluded))
    OBVIOUS
  <2>2. Lists(files, s) /\ fw \notin Mobile
    BY <1>3, <2>1, ShardedFiles DEF Mobile
  <2>3. s.shard \in {"spec", "concurrency"} =>
          Share(BySpec(s, files), s) /\ Share(ByConcurrency(s, BinPack(files, c)), s)
    BY <1>3, <2>2, SpecShares, GroupShares DEF PathsArePatterns, Web
  <2>4. \/ /\ s.shard \in {"spec", "concurrency"}
           /\ Shards(s) \in {BySpec(s, files), ByConcurrency(s, BinPack(files, c))}
        \/ Shards(s) = <<s>>
    BY <1>1, <1>3, <2>1 DEF Shards, CypressShards
  <2>5. Share(Shards(s), s)
    BY <1>2, <2>3, <2>4
  <2>6. QED
    BY <1>3, <2>5, WantedIsRun
<1>4. CASE fw = "playwright"
  <2>1. PICK files : files = PlaywrightFiles(s)
    OBVIOUS
  <2>2. Lists(files, s) /\ fw \notin Mobile
    BY <1>4, <2>1, ShardedFiles DEF Mobile
  <2>3. s.shard \in {"spec", "concurrency"} =>
          Share(BySpec(s, files), s) /\ Share(ByConcurrency(s, BinPack(files, c)), s)
    BY <1>4, <2>2, SpecShares, GroupShares DEF PathsArePatterns, Web
  <2>4. Share(ByNumShards(s), s)
    BY NumShards, NumberShares
  <2>5. \/ /\ s.shard \in {"spec", "concurrency"}
           /\ Shards(s) \in {BySpec(s, files), ByConcurrency(s, BinPack(files, c))}
        \/ Shards(s) = ByNumShards(s)
    BY <1>1, <1>4, <2>1 DEF Shards, PlaywrightShards
  <2>6. Share(Shards(s), s)
    BY <2>3, <2>4, <2>5
  <2>7. QED
    BY <1>4, <2>6, WantedIsRun
<1>5. CASE fw = "testcafe"
  <2>1. PICK files : files = TestcafeFiles(s)
    OBVIOUS
  <2>2. Lists(files, s) /\ fw \notin Mobile
    BY <1>5, <2>1, ShardedFiles DEF Mobile
  <2>3. s.shard \in {"spec", "concurrency"} =>
          Share(BySpec(s, files), s) /\ Share(ByConcurrency(s, BinPack(files, c)), s)
    BY <1>5, <2>2, SpecShares, GroupShares DEF PathsArePatterns, Web
  <2>4. \/ /\ s.shard \in {"spec", "concurrency"}
           /\ Shards(s) \in {BySpec(s, files), ByConcurrency(s, BinPack(files, c))}
        \/ Shards(s) = <<s>>
    BY <1>1, <1>5, <2>1 DEF Shards, TestcafeShards
  <2>5. Share(Shards(s), s)
    BY <1>2, <2>3, <2>4
  <2>6. QED
    BY <1>5, <2>5, WantedIsRun
<1>6. CASE fw = "cucumber"
  <2>1. PICK files : files = ExcludeFiles(CucumberFiles(s), FindFiles(s.excluded))
    OBVIOUS
  <2>2. Lists(files, s) /\ fw \notin Mobile
    BY <1>6, <2>1, ShardedFiles DEF Mobile
  <2>3. s.shard \in {"spec", "concurrency"} =>
          Share(BySpec(s, files), s) /\ Share(ByConcurrency(s, BinPack(files, c)), s)
    BY <1>6, <2>2, SpecShares, GroupShares DEF PathsArePatterns, Web
  <2>4. s.shard = "scenario" => Share(ByScenario(s, files), s)
    BY <1>6, <2>2, ScenarioShares
  <2>5. CASE s.shard \in Shardings
    <3>1. s.shard \in {"", "spec", "concurrency", "scenario"}
      BY <1>6, <2>5 DEF Shardings
    <3>2. Shards(s) = CucumberShards(s)
      BY <1>6 DEF Shards
    <3>3. \/ /\ s.shard \in {"spec", "concurrency"}
             /\ CucumberShards(s) \in {BySpec(s, files), ByConcurrency(s, BinPack(files, c))}
          \/ s.shard = "scenario" /\ CucumberShards(s) = ByScenario(s, files)
          \/ CucumberShards(s) = <<s>>
      BY <1>1, <2>1, <3>1 DEF CucumberShards
    <3>4. Share(Shards(s), s)
      BY <1>2, <2>3, <2>4, <3>2, <3>3
    <3>5. QED
      BY <1>6, <3>4, WantedIsRun
  <2>6. CASE s.shard \notin Shardings
    <3>1. s.shard \notin {"", "spec", "concurrency", "scenario"}
      BY <1>6, <2>6 DEF Shardings
    <3>2. Shards(s) = <<>>
      BY <1>6, <3>1 DEF Shards, CucumberShards
    <3>3. ToSet(<<>>) = {} /\ IsSeq(<<>>)
      BY DEF ToSet, IsSeq
    <3>4. QED
      BY <2>6, <3>2, <3>3 DEF Fulfil
  <2>7. QED
    BY <2>5, <2>6
<1>7. CASE fw = "replay"
  <2>1. PICK files : files = Where(FindFiles(s.patterns), LAMBDA f : f \in Recordings)
    OBVIOUS
  <2>2. Lists(files, s) /\ fw \notin Mobile
    BY <1>7, <2>1, ShardedFiles DEF Mobile
  <2>3. Share(BySpec(s, files), s)
    BY <1>7, <2>2, SpecShares
  <2>4. Shards(s) = BySpec(s, files)
    BY <1>7, <2>1 DEF Shards, ReplayShards
  <2>5. QED
    BY <1>7, <2>3, <2>4, WantedIsRun
<1>8. CASE fw = "espresso"
  <2>1. Shards(s) = <<s>>
    BY <1>8 DEF Shards
  <2>2. QED
    BY <1>2, <1>8, <2>1, WantedIsRun
<1>9. CASE fw \in {"xcuitest", "xctest"}
  <2>1. Shards(s) = XcuitestShards(s)
    BY <1>9 DEF Shards
  <2>2. CASE s.shard \in {"concurrency", "testList"}
    <3>1. s.tests # <<>>
      BY <1>9, <2>2 DEF ShardFails
    <3>2. PICK l \in Nat \ {0} : l = Len(s.tests)
      <4>1. PICK T : T = ToSet(s.tests)
        OBVIOUS
      <4>2. s.tests \in Seq(T)
        BY <4>1 DEF IsTyped, IsSeq
      <4>3. QED
        BY <3>1, <4>2
    <3>3. /\ Fulfil(ByTestList(s, BinPack(s.tests, c)), s)
          /\ Fulfil(ByTestList(s, BinPack(s.tests, l)), s)
      BY <1>9, <2>2, TestListFulfils
    <3>4. Shards(s) \in {ByTestList(s, BinPack(s.tests, c)), ByTestList(s, BinPack(s.tests, l))}
      BY <1>1, <2>1, <2>2, <3>2 DEF XcuitestShards
    <3>5. QED
      BY <3>3, <3>4
  <2>3. CASE s.shard \notin {"concurrency", "testList"}
    <3>1. Shards(s) = <<s>>
      BY <2>1, <2>3 DEF XcuitestShards
    <3>2. s.shard \in Shardings => s.shard = ""
      BY <1>9, <2>3 DEF Shardings
    <3>3. CASE s.shard = ""
      BY <1>2, <3>1, <3>3, WantedIsRun
    <3>4. CASE s.shard # ""
      BY <1>2, <3>1, <3>2, <3>4 DEF Share, Fulfil
    <3>5. QED
      BY <3>3, <3>4
  <2>4. QED
    BY <2>2, <2>3
<1>10. QED
  BY <1>3, <1>4, <1>5, <1>6, <1>7, <1>8, <1>9 DEF Web, Mobile

\* Validation leaves a suite what it runs.
LEMMA Resolving ==
  ASSUME NEW s, IsTyped(s)
  PROVE  /\ IsPart(Resolved(s), s) /\ SameSelection(Resolved(s), s)
         /\ \A t \in Runs(s) : MatchesItself(s, t) => t \in Runs(Resolved(s))
<1>1. CASE ~(fw = "cucumber" \/ (fw = "testcafe" /\ s.excluded # <<>>))
  <2>1. Resolved(s) = s
    BY <1>1 DEF Resolved
  <2>2. QED
    BY <2>1 DEF IsPart, ComesFrom, SameTargets, SameSelection
<1>2. CASE fw = "cucumber" \/ (fw = "testcafe" /\ s.excluded # <<>>)
  <2>1. PICK files : files = ExcludeFiles(FindFiles(s.patterns), FindFiles(s.excluded))
    OBVIOUS
  <2>2. Lists(files, s) /\ fw \notin Mobile
    BY <1>2, <2>1, ShardedFiles DEF Mobile
  <2>3. files \in Seq(Files)
    BY <2>2 DEF Lists
  <2>4. IsSeq(files)
    BY <2>3, OwnElements DEF IsSeq
  <2>5. PICK patterns : patterns = [k \in DOMAIN files |-> AsPattern(files[k])]
    OBVIOUS
  <2>6. IsSeq(patterns) /\ DOMAIN patterns = DOMAIN files
    BY <2>4, <2>5, Mapped
  <2>7. PICK r : r = Resolved(s)
    OBVIOUS
  <2>8. r = [s EXCEPT !.patterns = patterns]
    BY <1>2, <2>1, <2>5, <2>7 DEF Resolved, AsPatterns
  <2>9. /\ DOMAIN r = SuiteFields /\ r.patterns = patterns
        /\ \A f \in SuiteFields \ {"patterns"} : r[f] = s[f]
    BY <2>8 DEF IsTyped, SuiteFields
  <2>10. IsPart(r, s)
    BY <2>6, <2>9, PartOf
  <2>11. r.only = s.only /\ r.part = s.part /\ r.class = s.class
    BY <2>9 DEF SuiteFields
  <2>12. ASSUME NEW t \in Runs(s), MatchesItself(s, t)
         PROVE  t \in Runs(r)
    <3>1. /\ t \in Tests /\ Passes(t[2], s.only) /\ Passes(t[2], s.class) /\ InPart(s, t)
          /\ t \in Eligible(s)
      BY <2>2, EligibleTests
    <3>2. t[1] \in ToSet(files) /\ t[1] \in Files
      BY <2>2, <3>1, TestFile DEF Lists
    <3>3. PICK k \in DOMAIN files : files[k] = t[1]
      BY <3>2 DEF ToSet
    <3>4. patterns[k] = AsPattern(t[1]) /\ patterns[k] \in ToSet(patterns)
      BY <2>5, <2>6, <3>3 DEF ToSet
    <3>5. t[1] \in AsPattern(t[1])
      BY <1>2, <2>12, OwnPattern DEF PathsArePatterns
    <3>6. \E p \in ToSet(r.patterns) : t[1] \in p
      BY <2>9, <3>4, <3>5
    <3>7. Passes(t[2], r.only) /\ Passes(t[2], r.class) /\ InPart(r, t)
      BY <2>11, <3>1 DEF InPart
    <3>8. ComesFrom(r, s)
      BY <2>10 DEF IsPart
    <3>9. QED
      BY <3>6, <3>7, <3>8, StillRuns
  <2>13. QED
    BY <2>7, <2>10, <2>11, <2>12 DEF SameSelection
<1>3. QED
  BY <1>1, <1>2

\* So does the version of its browser.
LEMMA Browsing ==
  ASSUME NEW s, IsTyped(s), NEW m
  PROVE  /\ IsPart(WithBrowser(m, s), s)
         /\ \A t \in Runs(s) : t \in Runs(WithBrowser(m, s))
<1>1. PICK r : r = WithBrowser(m, s)
  OBVIOUS
<1>2. PICK v : v = IF s.browser \in DOMAIN m.browsers THEN m.browsers[s.browser] ELSE ""
  OBVIOUS
<1>3. /\ DOMAIN r = SuiteFields
      /\ \A f \in SuiteFields \ {"browserVersion"} : r[f] = s[f]
  BY <1>1, <1>2 DEF WithBrowser, IsTyped, SuiteFields
<1>4. r.patterns = s.patterns /\ r.only = s.only /\ r.part = s.part /\ r.class = s.class
  BY <1>3 DEF SuiteFields
<1>5. IsPart(r, s)
  BY <1>3, <1>4, PartOf DEF IsTyped
<1>6. ASSUME NEW t \in Runs(s)
      PROVE  t \in Runs(r)
  <2>1. /\ t \in Tests /\ Passes(t[2], s.only) /\ Passes(t[2], s.class) /\ InPart(s, t)
        /\ fw \notin Mobile => \E p \in ToSet(s.patterns) : t[1] \in p
    BY EligibleTests
  <2>2. Passes(t[2], r.only) /\ Passes(t[2], r.class) /\ InPart(r, t)
    BY <1>4, <2>1 DEF InPart
  <2>3. ComesFrom(r, s)
    BY <1>5 DEF IsPart
  <2>4. QED
    BY <1>4, <2>1, <2>2, <2>3, StillRuns
<1>7. QED
  BY <1>1, <1>5, <1>6

-----------------------------------------------------------------------------
(* Launch order                                                            *)

\* What the order of launch is to be: a choice among the suites that leaves no
\* name out, and if names are distinct, no suite.
OrderOf(o, suites) ==
  /\ IsSeq(o) /\ ToSet(o) \subseteq ToSet(suites)
  /\ \A s \in ToSet(suites) : \E r \in ToSet(o) : r.name = s.name
  /\ NamesAreDistinct(suites) =>
       \E p \in Bijection(DOMAIN o, DOMAIN suites) : \A i \in DOMAIN o : o[i] = suites[p[i]]

\* Suites of distinct names are distinct.
LEMMA DistinctSuites ==
  ASSUME NEW suites, NamesAreDistinct(suites)
  PROVE  IsInjective(suites)
BY DEF NamesAreDistinct, IsInjective

\* The order of the configuration is one.
LEMMA ConfiguredOrder ==
  ASSUME NEW suites, IsSeq(suites)
  PROVE  OrderOf(suites, suites)
<1>1. SUFFICES ASSUME NamesAreDistinct(suites)
               PROVE  \E p \in Bijection(DOMAIN suites, DOMAIN suites) :
                        \A i \in DOMAIN suites : suites[i] = suites[p[i]]
  BY DEF OrderOf
<1>2. PICK D : D = DOMAIN suites
  OBVIOUS
<1>3. PICK p : p = [i \in D |-> i]
  OBVIOUS
<1>4. p \in Bijection(D, D)
  BY <1>3 DEF Bijection, Injection, Surjection, IsInjective
<1>5. \A i \in D : suites[i] = suites[p[i]]
  BY <1>3
<1>6. QED
  BY <1>2, <1>4, <1>5

\* A subsequence of a sequence without repetition has none.
LEMMA OrderedOnce ==
  ASSUME NEW s, IsInjective(s), IsSeq(s), NEW g, IsSeq(g), InOrder(g, s, Len(s))
  PROVE  IsInjective(g)
<1>1. PICK n \in Nat : n = Len(s) /\ DOMAIN s = 1..n
  BY Numbered
<1>2. PICK m \in Nat : m = Len(g) /\ DOMAIN g = 1..m
  BY Numbered
<1>3. ASSUME NEW i \in 1..m, NEW j \in 1..m, i < j
      PROVE  g[i] # g[j]
  <2>1. PICK a \in 1..n, b \in 1..n : a < b /\ g[i] = s[a] /\ g[j] = s[b]
    BY <1>1, <1>2, <1>3 DEF InOrder
  <2>2. QED
    BY <1>1, <2>1 DEF IsInjective
<1>4. QED
  BY <1>2, <1>3 DEF IsInjective

\* The history puts suites in order.
LEMMA HistoricalOrder ==
  ASSUME NEW suites, IsSeq(suites), NEW history, IsSeq(history), IsInjective(history)
  PROVE  OrderOf(SortByHistory(suites, history), suites)
<1>1. PICK S : S = ToSet(suites)
  OBVIOUS
<1>2. PICK H : H = ToSet(history)
  OBVIOUS
<1>3. suites \in Seq(S) /\ history \in Seq(H)
  BY <1>1, <1>2 DEF IsSeq
<1>4. PICK n \in Nat : n = Len(suites) /\ DOMAIN suites = 1..n /\ \A i \in 1..n : suites[i] \in S
  BY <1>3
<1>5. PICK N : N = {h \in H : \E s \in S : s.name = h}
  OBVIOUS
<1>6. PICK known : known = Where(history, LAMBDA h : \E s \in S : s.name = h)
  OBVIOUS
<1>7. known = Only(history, N)
  <2>1. \A i \in DOMAIN history : history[i] \in H
    BY <1>3
  <2>2. QED
    BY <1>5, <1>6, <2>1 DEF Where, Only
<1>8. known \in Seq(H) /\ ToSet(known) = H \cap N /\ InOrder(known, history, Len(history))
  BY <1>2, <1>3, <1>7, Kept
<1>9. ToSet(known) = N /\ IsSeq(known)
  <2>1. H \cap N = N
    BY <1>5
  <2>2. QED
    BY <1>8, <2>1, OwnElements DEF IsSeq
<1>10. PICK k \in Nat : k = Len(known) /\ DOMAIN known = 1..k /\ \A i \in 1..k : known[i] \in N
  BY <1>8, <1>9 DEF ToSet
<1>11. PICK last : last = [h \in N |-> CHOOSE i \in DOMAIN suites :
         suites[i].name = h /\ \A j \in DOMAIN suites : j > i => suites[j].name # h]
  OBVIOUS
<1>12. ASSUME NEW h \in N
       PROVE  last[h] \in 1..n /\ suites[last[h]].name = h
  <2>1. PICK T : T = {i \in 1..n : suites[i].name = h}
    OBVIOUS
  <2>2. PICK s \in S : s.name = h
    BY <1>5
  <2>3. PICK i \in 1..n : suites[i] = s
    BY <1>1, <1>4 DEF ToSet
  <2>4. T \in SUBSET (0..n) /\ T # {}
    BY <2>1, <2>2, <2>3
  <2>5. PICK m \in T : \A j \in T : j <= m
    BY <2>4, GreatestNumber
  <2>6. /\ m \in DOMAIN suites /\ suites[m].name = h
        /\ \A j \in DOMAIN suites : j > m => suites[j].name # h
    BY <1>4, <2>1, <2>5
  <2>7. QED
    BY <1>4, <1>11, <2>6
<1>13. PICK first : first = [i \in 1..k |-> suites[last[known[i]]]]
  OBVIOUS
<1>14. PICK R : R = {s \in S : s.name \notin N}
  OBVIOUS
<1>15. PICK rest : rest = Where(suites, LAMBDA s : s.name \notin ToSet(known))
  OBVIOUS
<1>16. rest = Only(suites, R)
  BY <1>4, <1>9, <1>14, <1>15 DEF Where, Only
<1>17. PICK o : o = SortByHistory(suites, history)
  OBVIOUS
<1>18. o = first \o rest
  <2>1. \A i \in 1..k : last[known[i]] = CHOOSE a \in DOMAIN suites :
          suites[a].name = known[i] /\ \A j \in DOMAIN suites : j > a => suites[j].name # known[i]
    BY <1>10, <1>11
  <2>2. first = [i \in DOMAIN known |-> suites[CHOOSE a \in DOMAIN suites :
          suites[a].name = known[i] /\ \A j \in DOMAIN suites : j > a => suites[j].name # known[i]]]
    BY <1>10, <1>13, <2>1
  <2>3. QED
    BY <1>1, <1>6, <1>15, <1>17, <2>2 DEF SortByHistory
<1>19. first \in Seq(S) /\ DOMAIN first = 1..k /\ \A i \in 1..k : first[i].name = known[i]
  BY <1>4, <1>10, <1>12, <1>13
<1>20. rest \in Seq(S) /\ ToSet(rest) = S \cap R /\ InOrder(rest, suites, n)
  BY <1>1, <1>3, <1>4, <1>16, Kept
<1>21. o \in Seq(S) /\ ToSet(o) = ToSet(first) \cup ToSet(rest)
  BY <1>18, <1>19, <1>20, ConcatElements
<1>22. ASSUME NEW s \in S
       PROVE  \E r \in ToSet(o) : r.name = s.name
  <2>1. CASE s.name \in N
    <3>1. PICK i \in 1..k : known[i] = s.name
      BY <1>9, <1>10, <2>1 DEF ToSet
    <3>2. first[i] \in ToSet(first) /\ first[i].name = s.name
      BY <1>19, <3>1 DEF ToSet
    <3>3. QED
      BY <1>21, <3>2
  <2>2. CASE s.name \notin N
    <3>1. s \in ToSet(rest)
      BY <1>14, <1>20, <2>2
    <3>2. QED
      BY <1>21, <3>1
  <2>3. QED
    BY <2>1, <2>2
<1>23. ASSUME NamesAreDistinct(suites)
       PROVE  \E p \in Bijection(DOMAIN o, DOMAIN suites) : \A i \in DOMAIN o : o[i] = suites[p[i]]
  <2>1. IsInjective(suites)
    BY <1>23, DistinctSuites
  <2>2. IsInjective(known)
    BY <1>8, <1>9, OrderedOnce
  <2>3. IsInjective(rest)
    <3>1. IsSeq(rest)
      BY <1>20, OwnElements DEF IsSeq
    <3>2. QED
      BY <1>4, <1>20, <2>1, <3>1, OrderedOnce
  <2>4. PICK q \in Nat : q = Len(rest) /\ DOMAIN rest = 1..q /\ \A i \in 1..q : rest[i] \in R
    BY <1>20 DEF ToSet
  <2>5. Len(first) = k
    BY <1>19
  <2>6. /\ DOMAIN o = 1..(k + q)
        /\ \A i \in 1..(k + q) : o[i] = IF i <= k THEN first[i] ELSE rest[i - k]
    <3>1. PICK g \in Seq(S) : g = first
      BY <1>19
    <3>2. PICK r \in Seq(S) : r = rest
      BY <1>20
    <3>3. Len(g) = k /\ Len(r) = q /\ o = g \o r
      BY <1>18, <2>4, <2>5, <3>1, <3>2
    <3>4. Len(o) = k + q /\ o \in Seq(S)
      BY <3>3
    <3>5. \A i \in 1..(k + q) : o[i] = IF i <= k THEN g[i] ELSE r[i - k]
      BY <3>3
    <3>6. DOMAIN o = 1..(k + q)
      BY <3>4
    <3>7. QED
      BY <3>1, <3>2, <3>5, <3>6
  <2>7. \A i \in 1..(k + q) : /\ i <= k => o[i] = first[i] /\ o[i].name = known[i] /\ i \in 1..k
                              /\ ~(i <= k) => o[i] = rest[i - k] /\ i - k \in 1..q
    BY <1>19, <2>6
  <2>8. ASSUME NEW i \in 1..(k + q), NEW j \in 1..(k + q), o[i] = o[j]
        PROVE  i = j
    <3>1. CASE i <= k /\ j <= k
      <4>1. known[i] = known[j] /\ i \in DOMAIN known /\ j \in DOMAIN known
        BY <1>10, <2>7, <2>8, <3>1
      <4>2. QED
        BY <2>2, <4>1 DEF IsInjective
    <3>2. CASE ~(i <= k) /\ ~(j <= k)
      <4>1. rest[i - k] = rest[j - k] /\ i - k \in DOMAIN rest /\ j - k \in DOMAIN rest
        BY <2>4, <2>7, <2>8, <3>2
      <4>2. i - k = j - k
        BY <2>3, <4>1 DEF IsInjective
      <4>3. QED
        BY <4>2
    <3>3. \A a, b \in 1..(k + q) : a <= k /\ ~(b <= k) => o[a] # o[b]
      <4>1. \A a \in 1..(k + q) : a <= k => o[a].name \in N
        BY <1>10, <2>7
      <4>2. \A b \in 1..(k + q) : ~(b <= k) => o[b].name \notin N
        BY <1>14, <2>4, <2>7
      <4>3. QED
        BY <4>1, <4>2
    <3>4. QED
      BY <2>8, <3>1, <3>2, <3>3
  <2>9. IsInjective(o)
    BY <2>6, <2>8 DEF IsInjective
  <2>10. ToSet(o) = S
    <3>1. ToSet(o) \subseteq S
      BY <1>21, OwnElements
    <3>2. ASSUME NEW s \in S
          PROVE  s \in ToSet(o)
      <4>1. PICK r \in ToSet(o) : r.name = s.name
        BY <1>22
      <4>2. PICK a \in DOMAIN suites, b \in DOMAIN suites : suites[a] = s /\ suites[b] = r
        BY <1>1, <3>1, <4>1 DEF ToSet
      <4>3. a = b
        BY <1>23, <4>1, <4>2 DEF NamesAreDistinct
      <4>4. QED
        BY <4>2, <4>3
    <3>3. QED
      BY <3>1, <3>2
  <2>11. QED
    BY <1>1, <1>3, <1>21, <2>1, <2>9, <2>10, SameElements
<1>24. IsSeq(o) /\ ToSet(o) \subseteq S
  BY <1>21, OwnElements DEF IsSeq
<1>25. QED
  BY <1>1, <1>17, <1>22, <1>23, <1>24 DEF OrderOf

-----------------------------------------------------------------------------
(* Jobs                                                                    *)

\* The jobs js of s run all that s runs, on each of its devices.
JobsFor(js, s) ==
  /\ IsSeq(js)
  /\ \A j \in ToSet(js) :
       /\ IsPart(j.suite, s) /\ (fw \notin Mobile => j.suite = s)
       /\ fw = "testcafe" /\ j.device = Browser => s.virtuals = <<>>
  /\ \A d \in Devices(s) : \A t \in Runs(s) :
       \E j \in ToSet(js) : j.device = d /\ t \in Runs(j.suite)

\* Devices are listed, and no browser is among them.
LEMMA ListedDevices ==
  ASSUME NEW s, IsTyped(s)
  PROVE  /\ IsSeq(VirtualDevices(s)) /\ \A d \in ToSet(VirtualDevices(s)) : d # Browser
         /\ IsSeq(EnumerateDevices(s))
<1>1. PICK vs : vs = s.virtuals
  OBVIOUS
<1>2. IsSeq(vs) /\ \A v \in ToSet(vs) : v.versions \in Nat
  BY <1>1 DEF IsTyped
<1>3. PICK ss : ss = [i \in DOMAIN vs |-> [v \in 1..vs[i].versions |-> <<"virtual", i, v>>]]
  OBVIOUS
<1>4. IsSeq(ss) /\ DOMAIN ss = DOMAIN vs
  BY <1>2, <1>3, Mapped
<1>5. ASSUME NEW i \in DOMAIN vs
      PROVE  IsSeq(ss[i]) /\ \A d \in ToSet(ss[i]) : d # Browser
  <2>1. PICK n \in Nat : n = vs[i].versions
    BY <1>2 DEF ToSet
  <2>2. PICK t : t = ss[i]
    OBVIOUS
  <2>3. t = [v \in 1..n |-> <<"virtual", i, v>>]
    BY <1>3, <2>1, <2>2
  <2>4. t = [v \in 1..n |-> t[v]]
    BY <2>3
  <2>5. IsSeq(t) /\ DOMAIN t = 1..n
    BY <2>4, Listed DEF IsSeq
  <2>6. \A d \in ToSet(t) : d # Browser
    BY <2>3, <2>5 DEF ToSet, Browser
  <2>7. QED
    BY <2>2, <2>5, <2>6
<1>6. PICK virtual : virtual = FlattenSeq(ss)
  OBVIOUS
<1>7. IsSeq(virtual) /\ \A d \in ToSet(virtual) : d # Browser
  BY <1>4, <1>5, <1>6, Joined
<1>8. virtual = VirtualDevices(s)
  BY <1>1, <1>3, <1>6 DEF VirtualDevices
<1>9. PICK ds : ds = s.devices
  OBVIOUS
<1>10. PICK real : real = [i \in DOMAIN ds |-> <<"real", i, 0>>]
  OBVIOUS
<1>11. IsSeq(real)
  BY <1>9, <1>10, Mapped DEF IsTyped
<1>12. IsSeq(virtual \o real)
  <2>1. PICK V : V = ToSet(virtual)
    OBVIOUS
  <2>2. PICK R : R = ToSet(real)
    OBVIOUS
  <2>3. PICK S : S = V \cup R
    OBVIOUS
  <2>4. virtual \in Seq(S) /\ real \in Seq(S)
    BY <1>7, <1>11, <2>1, <2>2, <2>3 DEF IsSeq
  <2>5. virtual \o real \in Seq(S)
    BY <2>4
  <2>6. QED
    BY <2>5, OwnElements DEF IsSeq
<1>13. EnumerateDevices(s) = virtual \o real
  BY <1>8, <1>9, <1>10 DEF EnumerateDevices
<1>14. QED
  BY <1>7, <1>8, <1>12, <1>13

\* Parts of a suite want the same devices.
LEMMA SameDevices ==
  ASSUME NEW s, NEW c, ComesFrom(s, c)
  PROVE  EnumerateDevices(s) = EnumerateDevices(c) /\ Devices(s) = Devices(c)
<1>1. s.virtuals = c.virtuals /\ DOMAIN s.devices = DOMAIN c.devices
  BY DEF ComesFrom
<1>2. EnumerateDevices(s) = EnumerateDevices(c)
  BY <1>1 DEF EnumerateDevices, VirtualDevices
<1>3. VirtualDevices(s) = VirtualDevices(c)
  BY <1>1 DEF VirtualDevices
<1>4. QED
  BY <1>1, <1>2, <1>3 DEF Devices

\* The jobs js run s on each of the devices ds.
OnEach(js, s, ds) ==
  /\ IsSeq(js)
  /\ \A j \in ToSet(js) : j.suite = s /\ j.device \in ToSet(ds)
  /\ \A d \in ToSet(ds) : \E j \in ToSet(js) : j.suite = s /\ j.device = d

\* One job for each of a list of devices.
LEMMA JobOnEach ==
  ASSUME NEW s, NEW ds, IsSeq(ds), NEW js, js = [i \in DOMAIN ds |-> Job(s, ds[i])]
  PROVE  OnEach(js, s, ds)
<1>1. IsSeq(js) /\ DOMAIN js = DOMAIN ds
  BY Mapped
<1>2. \A i \in DOMAIN ds : js[i].suite = s /\ js[i].device = ds[i]
  BY DEF Job
<1>3. ASSUME NEW j \in ToSet(js)
      PROVE  j.suite = s /\ j.device \in ToSet(ds)
  BY <1>1, <1>2 DEF ToSet
<1>4. ASSUME NEW d \in ToSet(ds)
      PROVE  \E j \in ToSet(js) : j.suite = s /\ j.device = d
  BY <1>1, <1>2 DEF ToSet
<1>5. QED
  BY <1>1, <1>3, <1>4 DEF OnEach

\* A web suite is one job.
LEMMA OneJob ==
  ASSUME NEW s
  PROVE  /\ IsSeq(<<Job(s, Browser)>>) /\ ToSet(<<Job(s, Browser)>>) = {Job(s, Browser)}
         /\ Len(<<Job(s, Browser)>>) = 1
         /\ Job(s, Browser).suite = s /\ Job(s, Browser).device = Browser
<1>1. PICK j : j = Job(s, Browser)
  OBVIOUS
<1>2. j \in {j}
  OBVIOUS
<1>3. <<j>> \in Seq({j}) /\ ToSet(<<j>>) = {j}
  BY <1>2, Single
<1>4. j.suite = s /\ j.device = Browser
  BY <1>1 DEF Job
<1>5. QED
  BY <1>1, <1>3, <1>4 DEF IsSeq

\* The jobs of a suite run all of it, whatever its framework.
LEMMA SuiteJobs ==
  ASSUME NEW s, IsTyped(s), fw \in Web \cup Mobile
  PROVE  JobsFor(JobsOf(s), s)
<1>1. IsPart(s, s)
  BY DEF IsPart, ComesFrom, SameTargets
<1>2. CASE fw \in {"cypress", "playwright", "cucumber", "replay"}
  <2>1. JobsOf(s) = <<Job(s, Browser)>>
    BY <1>2 DEF JobsOf
  <2>2. fw \notin Mobile /\ Devices(s) = {Browser}
    BY <1>2 DEF Mobile, Devices
  <2>3. QED
    BY <1>1, <1>2, <2>1, <2>2, OneJob DEF JobsFor
<1>3. CASE fw = "testcafe" /\ s.virtuals = <<>>
  <2>1. JobsOf(s) = <<Job(s, Browser)>>
    BY <1>3 DEF JobsOf, TestcafeJobs
  <2>2. fw \notin Mobile /\ Devices(s) = {Browser}
    BY <1>3 DEF Mobile, Devices
  <2>3. QED
    BY <1>1, <1>3, <2>1, <2>2, OneJob DEF JobsFor
<1>4. CASE fw = "testcafe" /\ s.virtuals # <<>>
  <2>1. PICK ds : ds = VirtualDevices(s)
    OBVIOUS
  <2>2. PICK js : js = [i \in DOMAIN ds |-> Job(s, ds[i])]
    OBVIOUS
  <2>3. JobsOf(s) = js
    BY <1>4, <2>1, <2>2 DEF JobsOf, TestcafeJobs
  <2>4. IsSeq(ds) /\ \A d \in ToSet(ds) : d # Browser
    BY <2>1, ListedDevices
  <2>5. OnEach(js, s, ds)
    BY <2>2, <2>4, JobOnEach
  <2>6. fw \notin Mobile /\ Devices(s) = ToSet(ds)
    BY <1>4, <2>1 DEF Mobile, Devices
  <2>7. JobsFor(js, s)
    BY <1>1, <1>4, <2>4, <2>5, <2>6 DEF JobsFor, OnEach
  <2>8. QED
    BY <2>3, <2>7
<1>5. ASSUME NEW r, IsTyped(r), fw \in Mobile
      PROVE  JobsFor(OnDevices(r), r)
  <2>1. PICK ds : ds = EnumerateDevices(r)
    OBVIOUS
  <2>2. PICK js : js = [i \in DOMAIN ds |-> Job(r, ds[i])]
    OBVIOUS
  <2>3. OnDevices(r) = js
    BY <2>1, <2>2 DEF OnDevices
  <2>4. IsSeq(ds)
    BY <1>5, <2>1, ListedDevices
  <2>5. OnEach(js, r, ds)
    BY <2>2, <2>4, JobOnEach
  <2>6. Devices(r) = ToSet(ds) /\ fw # "testcafe"
    BY <1>5, <2>1 DEF Devices, Mobile
  <2>7. IsPart(r, r)
    BY <1>5 DEF IsPart, ComesFrom, SameTargets
  <2>8. JobsFor(js, r)
    BY <1>5, <2>5, <2>6, <2>7 DEF JobsFor, OnEach
  <2>9. QED
    BY <2>3, <2>8
<1>6. CASE fw \in {"xcuitest", "xctest"}
  <2>1. JobsOf(s) = OnDevices(s)
    BY <1>6 DEF JobsOf
  <2>2. fw \in Mobile
    BY <1>6 DEF Mobile
  <2>3. QED
    BY <1>5, <2>1, <2>2
<1>7. CASE fw = "espresso"
  <2>1. fw \in Mobile /\ fw # "testcafe"
    BY <1>7 DEF Mobile
  <2>2. PICK parts : parts = EspressoParts(s)
    OBVIOUS
  <2>3. Numbering(s, parts)
    BY <2>2, NumShards
  <2>4. IsSeq(parts) /\ \A r \in ToSet(parts) : IsPart(r, s) /\ IsTyped(r)
    BY <2>3 DEF Numbering, IsPart
  <2>5. PICK ss : ss = [i \in DOMAIN parts |-> OnDevices(parts[i])]
    OBVIOUS
  <2>6. IsSeq(ss) /\ DOMAIN ss = DOMAIN parts
    BY <2>4, <2>5, Mapped
  <2>7. \A i \in DOMAIN parts : parts[i] \in ToSet(parts)
    BY DEF ToSet
  <2>8. \A i \in DOMAIN parts : JobsFor(ss[i], parts[i])
    BY <1>5, <2>1, <2>4, <2>5, <2>7
  <2>9. PICK js : js = FlattenSeq(ss)
    OBVIOUS
  <2>10. /\ IsSeq(js)
         /\ \A j : j \in ToSet(js) <=> \E i \in DOMAIN parts : j \in ToSet(ss[i])
    BY <2>6, <2>8, <2>9, Joined DEF JobsFor
  <2>11. JobsOf(s) = js
    BY <1>7, <2>2, <2>5, <2>9 DEF JobsOf, EspressoJobs
  <2>12. ASSUME NEW j \in ToSet(js)
         PROVE  IsPart(j.suite, s)
    <3>1. PICK i \in DOMAIN parts : j \in ToSet(ss[i])
      BY <2>10
    <3>2. IsPart(j.suite, parts[i])
      BY <2>8, <3>1 DEF JobsFor
    <3>3. IsPart(parts[i], s)
      BY <2>4, <2>7
    <3>4. QED
      BY <3>2, <3>3, PartOfPart
  <2>13. ASSUME NEW d \in Devices(s), NEW t \in Runs(s)
         PROVE  \E j \in ToSet(js) : j.device = d /\ t \in Runs(j.suite)
    <3>1. PICK r \in ToSet(parts) : t \in Runs(r)
      BY <2>3, NumberShares
    <3>2. PICK i \in DOMAIN parts : parts[i] = r
      BY <2>4, Numbered
    <3>3. d \in Devices(r)
      BY <2>4, SameDevices DEF IsPart
    <3>4. PICK j \in ToSet(ss[i]) : j.device = d /\ t \in Runs(j.suite)
      BY <2>8, <3>1, <3>2, <3>3 DEF JobsFor
    <3>5. QED
      BY <2>10, <3>4
  <2>14. JobsFor(js, s)
    BY <2>1, <2>10, <2>12, <2>13 DEF JobsFor
  <2>15. QED
    BY <2>11, <2>14
<1>8. QED
  BY <1>2, <1>3, <1>4, <1>6, <1>7 DEF Web, Mobile

\* The jobs of all suites are those of each.
LEMMA AllJobs ==
  ASSUME NEW suites, IsSeq(suites), \A s \in ToSet(suites) : IsTyped(s), fw \in Web \cup Mobile
  PROVE  /\ IsSeq(JobsOfAll(suites))
         /\ \A j : j \in ToSet(JobsOfAll(suites)) <=> \E s \in ToSet(suites) : j \in ToSet(JobsOf(s))
<1>1. PICK ss : ss = [i \in DOMAIN suites |-> JobsOf(suites[i])]
  OBVIOUS
<1>2. IsSeq(ss) /\ DOMAIN ss = DOMAIN suites
  BY <1>1, Mapped
<1>3. \A s \in ToSet(suites) : IsSeq(JobsOf(s))
  BY SuiteJobs DEF JobsFor
<1>4. \A i \in DOMAIN ss : IsSeq(ss[i]) /\ ss[i] = JobsOf(suites[i]) /\ suites[i] \in ToSet(suites)
  BY <1>1, <1>2, <1>3 DEF ToSet
<1>5. /\ IsSeq(FlattenSeq(ss))
      /\ \A j : j \in ToSet(FlattenSeq(ss)) <=> \E i \in DOMAIN ss : j \in ToSet(ss[i])
  BY <1>2, <1>4, Joined
<1>6. \A s \in ToSet(suites) : \E i \in DOMAIN ss : suites[i] = s
  BY <1>2, Numbered
<1>7. JobsOfAll(suites) = FlattenSeq(ss)
  BY <1>1 DEF JobsOfAll
<1>8. ASSUME NEW j
      PROVE  j \in ToSet(FlattenSeq(ss)) <=> \E s \in ToSet(suites) : j \in ToSet(JobsOf(s))
  BY <1>4, <1>5, <1>6
<1>9. QED
  BY <1>5, <1>7, <1>8

\* Four frameworks run one job for each suite.
LEMMA CountedJobs ==
  ASSUME NEW suites, IsSeq(suites), fw \in {"cypress", "playwright", "cucumber", "replay"}
  PROVE  Len(JobsOfAll(suites)) = Len(suites)
<1>1. PICK ss : ss = [i \in DOMAIN suites |-> JobsOf(suites[i])]
  OBVIOUS
<1>2. IsSeq(ss) /\ DOMAIN ss = DOMAIN suites /\ Len(ss) = Len(suites)
  BY <1>1, Mapped
<1>3. \A s : JobsOf(s) = <<Job(s, Browser)>>
  BY DEF JobsOf
<1>4. \A i \in DOMAIN ss : IsSeq(ss[i]) /\ Len(ss[i]) = 1
  BY <1>1, <1>2, <1>3, OneJob
<1>5. PICK S : S = UNION {ToSet(ss[i]) : i \in DOMAIN ss}
  OBVIOUS
<1>6. ss \in Seq(Seq(S))
  BY <1>2, <1>4, <1>5, AllElements
<1>7. Len(FlattenSeq(ss)) = Len(ss)
  BY <1>4, <1>6, OneEach
<1>8. QED
  BY <1>1, <1>2, <1>7 DEF JobsOfAll

\* In another order, suites have as many jobs.
LEMMA ShuffledJobs ==
  ASSUME NEW suites, IsSeq(suites), \A s \in ToSet(suites) : IsTyped(s), fw \in Web \cup Mobile,
         NEW o, IsSeq(o), ToSet(o) \subseteq ToSet(suites),
         NEW p \in Bijection(DOMAIN o, DOMAIN suites), \A i \in DOMAIN o : o[i] = suites[p[i]]
  PROVE  /\ Len(JobsOfAll(o)) = Len(JobsOfAll(suites))
         /\ fw \in {"cypress", "playwright", "cucumber", "replay"} => Len(o) = Len(suites)
<1>1. PICK S : S = UNION {ToSet(JobsOf(s)) : s \in ToSet(suites)}
  OBVIOUS
<1>2. \A s \in ToSet(suites) : JobsOf(s) \in Seq(S)
  <2>1. ASSUME NEW s \in ToSet(suites)
        PROVE  JobsOf(s) \in Seq(S)
    <3>1. PICK js : js = JobsOf(s)
      OBVIOUS
    <3>2. PICK T : T = ToSet(js)
      OBVIOUS
    <3>3. js \in Seq(T) /\ T \subseteq S
      BY <1>1, <3>1, <3>2, SuiteJobs DEF JobsFor, IsSeq
    <3>4. js \in Seq(S)
      BY <3>3
    <3>5. QED
      BY <3>1, <3>4
  <2>2. QED
    BY <2>1
<1>3. ASSUME NEW q, IsSeq(q), ToSet(q) \subseteq ToSet(suites),
             NEW ss, ss = [i \in DOMAIN q |-> JobsOf(q[i])]
      PROVE  ss \in Seq(Seq(S)) /\ DOMAIN ss = DOMAIN q
  <2>1. PICK n \in Nat : n = Len(q) /\ DOMAIN q = 1..n
    BY <1>3, Numbered
  <2>2. \A i \in 1..n : ss[i] \in Seq(S)
    BY <1>2, <1>3, <2>1 DEF ToSet
  <2>3. ss = [i \in 1..n |-> ss[i]]
    BY <1>3, <2>1
  <2>4. QED
    BY <2>1, <2>2, <2>3
<1>4. PICK ss : ss = [i \in DOMAIN o |-> JobsOf(o[i])]
  OBVIOUS
<1>5. PICK tt : tt = [i \in DOMAIN suites |-> JobsOf(suites[i])]
  OBVIOUS
<1>6. ss \in Seq(Seq(S)) /\ DOMAIN ss = DOMAIN o
  BY <1>3, <1>4
<1>7. tt \in Seq(Seq(S)) /\ DOMAIN tt = DOMAIN suites
  BY <1>3, <1>5
<1>8. p \in Bijection(DOMAIN ss, DOMAIN tt)
  BY <1>6, <1>7
<1>9. \A i \in DOMAIN ss : ss[i] = tt[p[i]]
  <2>1. \A i \in DOMAIN o : p[i] \in DOMAIN suites
    BY DEF Bijection, Injection
  <2>2. QED
    BY <1>4, <1>5, <1>6, <2>1
<1>10. Len(FlattenSeq(ss)) = Len(FlattenSeq(tt))
  BY <1>6, <1>7, <1>8, <1>9, ShuffledLength
<1>11. Len(JobsOfAll(o)) = Len(JobsOfAll(suites))
  BY <1>4, <1>5, <1>10 DEF JobsOfAll
<1>12. QED
  BY <1>11, CountedJobs

-----------------------------------------------------------------------------
(* The stages                                                              *)

Stages == {"read", "flags", "defaults", "validated", "sharded", "versioned", "runnable",
           "ordered", "submitted", "rejected"}

\* The stages that a project is in after one, unless it is rejected.
AfterFlags == Stages \ {"read", "rejected"}

AfterDefaults == AfterFlags \ {"flags"}

AfterValidation == AfterDefaults \ {"defaults"}

AfterSharding == AfterValidation \ {"validated"}

AfterOrder == {"ordered", "submitted"}

\* A suite comes from one of the configuration.
OfConfiguration(s) ==
  /\ IsTyped(s)
  /\ s.origin \in DOMAIN Configured(given) /\ ComesFrom(s, Configured(given)[s.origin])

OfOne(suites) == IsSeq(suites) /\ \A s \in ToSet(suites) : OfConfiguration(s)

\* Before they are sharded, suites are whole.
AreWhole(suites) == \A s \in ToSet(suites) : s.only = NoFilter /\ s.part = <<>>

\* What no stage changes of a project.
FieldsAreKept ==
  /\ given \in Projects /\ DOMAIN project = ProjectFields
  /\ project.env = given.env /\ project.envFlag = given.envFlag
  /\ project.retries = given.retries /\ project.history = given.history
  /\ project.app = given.app /\ project.testApp = given.testApp
  /\ project.concurrency \in Int

\* The configured suites are suites, by their numbers.
ConfigurationIsNumbered ==
  /\ IsSeq(Configured(given))
  /\ \A i \in DOMAIN Configured(given) :
       IsSuite(Configured(given)[i]) /\ Configured(given)[i].origin = i

\* The inductive invariant of the stages: a project that is not rejected has
\* suites of its configuration, in whose order its jobs are submitted.
PlanInv ==
  /\ stage \in Stages /\ FieldsAreKept
  /\ stage = "read" => project = given
  /\ stage \in AfterFlags => ConfigurationIsNumbered /\ OfOne(project.suites)
  /\ stage \in AfterFlags \ AfterSharding => AreWhole(project.suites)
  /\ stage \in AfterDefaults => project.concurrency \in Nat \ {0}
  /\ stage \in AfterOrder => OrderOf(order, project.suites)
  /\ stage = "submitted" => jobs = JobsOfAll(order) /\ expected = JobsCount

\* A typed suite comes from itself.
LEMMA FromItself ==
  ASSUME NEW s, IsSuite(s)
  PROVE  IsTyped(s) /\ ComesFrom(s, s)
BY DEF IsSuite, IsTyped, ComesFrom

\* And from what it is made of.
LEMMA StillOfConfiguration ==
  ASSUME NEW s, OfConfiguration(s), NEW r, IsTyped(r), ComesFrom(r, s)
  PROVE  OfConfiguration(r)
BY DEF OfConfiguration, ComesFrom

\* The framework is one of the eight.
LEMMA KnownFramework ==
  ASSUME given \in Projects
  PROVE  fw \in Web \cup Mobile
BY ProjectsAssumption DEF fw

\* A project as it was read has the invariant.
LEMMA PlanInit ==
  ASSUME Init
  PROVE  PlanInv
<1>1. PICK g \in Projects : g = given /\ g = project
  BY DEF Init
<1>2. DOMAIN g = ProjectFields /\ g.concurrency \in Int
  BY ProjectsAssumption
<1>3. FieldsAreKept
  BY <1>1, <1>2 DEF FieldsAreKept
<1>4. QED
  BY <1>1, <1>3 DEF Init, PlanInv, Stages, AfterFlags, AfterDefaults, AfterValidation,
                             AfterSharding, AfterOrder

\* A rejected project keeps what it was given.
LEMMA PlanRejected ==
  ASSUME PlanInv, UNCHANGED <<given, project>>, stage' = "rejected"
  PROVE  PlanInv'
<1>1. FieldsAreKept'
  BY DEF PlanInv, FieldsAreKept
<1>2. QED
  BY <1>1 DEF PlanInv, Stages, AfterFlags, AfterDefaults, AfterValidation,
                             AfterSharding, AfterOrder

\* The flags are applied to the project as it was read.
LEMMA PlanFlags ==
  ASSUME PlanInv, ApplyFlags
  PROVE  PlanInv'
<1>1. CASE ~FlagsAreValid
  BY <1>1, PlanRejected DEF ApplyFlags, Advance
<1>2. CASE FlagsAreValid
  <2>1. /\ project = given /\ given \in Projects /\ given' = given /\ stage' = "flags"
        /\ project' = [project EXCEPT !.suites = Configured(project)]
    BY <1>2 DEF ApplyFlags, Advance, PlanInv, FieldsAreKept, WithFlags
  <2>2. PICK g \in Projects : g = given
    BY <2>1
  <2>3. g.select # <<>> => Named(g, g.select) # <<>>
    BY <1>2, <2>1, <2>2 DEF FlagsAreValid
  <2>4. PICK c : c = Configured(g)
    OBVIOUS
  <2>5. IsSeq(c) /\ \A i \in DOMAIN c : IsSuite(c[i]) /\ c[i].origin = i
    BY <2>3, <2>4, ConfiguredSuites
  <2>6. PICK p : p = project'
    OBVIOUS
  <2>7. p = [g EXCEPT !.suites = c] /\ DOMAIN g = ProjectFields
    BY <2>1, <2>2, <2>4, <2>6, ProjectsAssumption
  <2>8. /\ DOMAIN p = ProjectFields /\ p.suites = c
        /\ p.env = g.env /\ p.envFlag = g.envFlag /\ p.retries = g.retries
        /\ p.history = g.history /\ p.app = g.app /\ p.testApp = g.testApp
        /\ p.concurrency = g.concurrency
    BY <2>7 DEF ProjectFields
  <2>9. FieldsAreKept'
    BY <2>1, <2>2, <2>6, <2>8, ProjectsAssumption DEF FieldsAreKept
  <2>10. ConfigurationIsNumbered'
    BY <2>1, <2>2, <2>4, <2>5 DEF ConfigurationIsNumbered
  <2>11. ASSUME NEW s \in ToSet(c)
         PROVE  OfConfiguration(s)'
    <3>1. PICK i \in DOMAIN c : c[i] = s
      BY <2>5, Numbered
    <3>2. IsSuite(s) /\ s.origin = i
      BY <2>5, <3>1
    <3>3. IsTyped(s) /\ ComesFrom(s, c[s.origin])
      BY <3>1, <3>2, FromItself
    <3>4. QED
      BY <2>1, <2>2, <2>4, <3>1, <3>2, <3>3 DEF OfConfiguration
  <2>12. OfOne(project.suites)'
    BY <2>5, <2>6, <2>8, <2>11 DEF OfOne
  <2>13. AreWhole(c)
    BY <2>5, Numbered DEF AreWhole, IsSuite
  <2>14. AreWhole(project.suites)'
    BY <2>6, <2>8, <2>13
  <2>15. QED
    BY <2>1, <2>9, <2>10, <2>12, <2>14 DEF PlanInv, Stages, AfterFlags, AfterDefaults, AfterValidation,
                             AfterSharding, AfterOrder
<1>3. QED
  BY <1>1, <1>2

\* When each suite is replaced by one that comes from it, the suites still come
\* from the configuration.
LEMMA EachReplaced ==
  ASSUME NEW suites, OfOne(suites), NEW t, t = [i \in DOMAIN suites |-> t[i]],
         \A i \in DOMAIN suites : IsTyped(t[i]) /\ ComesFrom(t[i], suites[i])
  PROVE  /\ OfOne(t) /\ DOMAIN t = DOMAIN suites
         /\ /\ AreWhole(suites)
            /\ \A i \in DOMAIN suites : t[i].only = suites[i].only /\ t[i].part = suites[i].part
            => AreWhole(t)
<1>1. IsSeq(suites)
  BY DEF OfOne
<1>2. IsSeq(t) /\ DOMAIN t = DOMAIN suites
  BY <1>1, Mapped
<1>3. \A i \in DOMAIN suites : OfConfiguration(suites[i])
  BY <1>1, Numbered DEF OfOne
<1>4. \A i \in DOMAIN suites : OfConfiguration(t[i])
  BY <1>3, StillOfConfiguration
<1>5. \A s \in ToSet(t) : OfConfiguration(s)
  BY <1>2, <1>4 DEF ToSet
<1>6. ASSUME AreWhole(suites),
             \A i \in DOMAIN suites : t[i].only = suites[i].only /\ t[i].part = suites[i].part
      PROVE  AreWhole(t)
  <2>1. \A i \in DOMAIN suites : suites[i] \in ToSet(suites)
    BY DEF ToSet
  <2>2. \A i \in DOMAIN suites : t[i].only = NoFilter /\ t[i].part = <<>>
    BY <1>6, <2>1 DEF AreWhole
  <2>3. QED
    BY <1>2, <2>2, Numbered DEF AreWhole
<1>7. QED
  BY <1>2, <1>5, <1>6 DEF OfOne

\* The configuration is what it was.
LEMMA SameConfiguration ==
  ASSUME given' = given
  PROVE  /\ \A s : OfConfiguration(s)' = OfConfiguration(s)
         /\ \A suites : OfOne(suites)' = OfOne(suites)
         /\ ConfigurationIsNumbered' = ConfigurationIsNumbered
BY DEF OfConfiguration, OfOne, ConfigurationIsNumbered

\* The defaults are set, one configuration after the other.
LEMMA PlanDefaults ==
  ASSUME PlanInv, SetDefaults
  PROVE  PlanInv'
<1>1. /\ stage = "flags" /\ stage' = "defaults" /\ given' = given
      /\ project' = WithDefaults
  BY DEF SetDefaults, Advance
<1>2. /\ FieldsAreKept /\ ConfigurationIsNumbered /\ OfOne(project.suites)
      /\ fw \in Web \cup Mobile
  BY <1>1, KnownFramework DEF PlanInv, AfterFlags, Stages, FieldsAreKept
<1>3. PICK p : p = project
  OBVIOUS
<1>4. PICK q : q = project'
  OBVIOUS
<1>5. PICK suites : suites = [i \in DOMAIN p.suites |-> SuiteDefaults(p, p.suites[i])]
  OBVIOUS
<1>6. PICK npm : npm = IF fw \in Web \ {"replay"} THEN NpmDefaults(p) ELSE p.npm
  OBVIOUS
<1>7. q = [p EXCEPT !.concurrency = IF @ < 1 THEN 2 ELSE @, !.npm = npm, !.suites = suites]
  BY <1>1, <1>3, <1>4, <1>5, <1>6 DEF WithDefaults
<1>8. /\ DOMAIN q = ProjectFields /\ q.suites = suites
      /\ q.env = p.env /\ q.envFlag = p.envFlag /\ q.retries = p.retries
      /\ q.history = p.history /\ q.app = p.app /\ q.testApp = p.testApp
      /\ q.concurrency = IF p.concurrency < 1 THEN 2 ELSE p.concurrency
  BY <1>2, <1>3, <1>7 DEF FieldsAreKept, ProjectFields
<1>9. FieldsAreKept'
  <2>1. p.concurrency \in Int
    BY <1>2, <1>3 DEF FieldsAreKept
  <2>2. q.concurrency \in Int
    BY <1>8, <2>1
  <2>3. QED
    BY <1>1, <1>2, <1>3, <1>4, <1>8, <2>2 DEF FieldsAreKept
<1>10. ASSUME NEW i \in DOMAIN p.suites
       PROVE  /\ IsTyped(suites[i]) /\ ComesFrom(suites[i], p.suites[i])
              /\ suites[i].only = p.suites[i].only /\ suites[i].part = p.suites[i].part
  <2>1. IsTyped(p.suites[i])
    BY <1>2, <1>3, Numbered DEF OfOne, OfConfiguration
  <2>2. QED
    BY <1>2, <1>5, <2>1, DefaultedSuite
<1>11. suites = [i \in DOMAIN p.suites |-> suites[i]]
  BY <1>5, Zenon
<1>12. OfOne(suites) /\ AreWhole(suites)
  <2>1. AreWhole(p.suites)
    BY <1>1, <1>3 DEF PlanInv, Stages, AfterFlags, AfterDefaults, AfterValidation, AfterSharding
  <2>2. QED
    BY <1>2, <1>3, <1>10, <1>11, <2>1, EachReplaced
<1>13. OfOne(project.suites)' /\ ConfigurationIsNumbered' /\ AreWhole(project.suites)'
  BY <1>1, <1>2, <1>4, <1>8, <1>12, SameConfiguration
<1>14. q.concurrency \in Nat \ {0}
  BY <1>2, <1>3, <1>8 DEF FieldsAreKept
<1>15. QED
  BY <1>1, <1>4, <1>9, <1>13, <1>14
     DEF PlanInv, Stages, AfterFlags, AfterDefaults, AfterValidation, AfterSharding, AfterOrder

\* Validation changes the concurrency, and of the suites nothing.
LEMMA PlanValidate ==
  ASSUME PlanInv, Validate
  PROVE  PlanInv'
<1>1. CASE ~IsValid(project)
  BY <1>1, PlanRejected DEF Validate, Advance
<1>2. CASE IsValid(project)
  <2>1. /\ stage = "defaults" /\ stage' = "validated" /\ given' = given
        /\ project' = Validated
    BY <1>2 DEF Validate, Advance
  <2>2. /\ FieldsAreKept /\ ConfigurationIsNumbered /\ OfOne(project.suites)
        /\ AreWhole(project.suites) /\ project.concurrency \in Nat \ {0}
    BY <2>1 DEF PlanInv, Stages, AfterFlags, AfterDefaults, AfterValidation, AfterSharding
  <2>3. PICK p : p = project
    OBVIOUS
  <2>4. PICK q : q = project'
    OBVIOUS
  <2>5. PICK suites : suites = [i \in DOMAIN p.suites |-> Resolved(p.suites[i])]
    OBVIOUS
  <2>6. q = [p EXCEPT !.version = Standardize(@), !.suites = suites]
    BY <2>1, <2>3, <2>4, <2>5 DEF Validated
  <2>7. /\ DOMAIN q = ProjectFields /\ q.suites = suites
        /\ q.env = p.env /\ q.envFlag = p.envFlag /\ q.retries = p.retries
        /\ q.history = p.history /\ q.app = p.app /\ q.testApp = p.testApp
        /\ q.concurrency = p.concurrency
    BY <2>2, <2>3, <2>6 DEF FieldsAreKept, ProjectFields
  <2>8. FieldsAreKept'
    BY <2>1, <2>2, <2>3, <2>4, <2>7 DEF FieldsAreKept
  <2>9. ASSUME NEW i \in DOMAIN p.suites
        PROVE  /\ IsTyped(suites[i]) /\ ComesFrom(suites[i], p.suites[i])
               /\ suites[i].only = p.suites[i].only /\ suites[i].part = p.suites[i].part
    <3>1. PICK s : s = p.suites[i]
      OBVIOUS
    <3>2. IsTyped(s)
      BY <2>2, <2>3, <3>1, Numbered DEF OfOne, OfConfiguration
    <3>3. IsPart(Resolved(s), s) /\ SameSelection(Resolved(s), s)
      BY <3>2, Resolving
    <3>4. QED
      BY <2>5, <3>1, <3>3 DEF IsPart, SameSelection
  <2>10. suites = [i \in DOMAIN p.suites |-> suites[i]]
    BY <2>5, Zenon
  <2>11. OfOne(suites) /\ AreWhole(suites)
    BY <2>2, <2>3, <2>9, <2>10, EachReplaced
  <2>12. OfOne(project.suites)' /\ ConfigurationIsNumbered' /\ AreWhole(project.suites)'
    BY <2>1, <2>2, <2>4, <2>7, <2>11, SameConfiguration
  <2>13. project'.concurrency \in Nat \ {0}
    BY <2>2, <2>3, <2>4, <2>7
  <2>14. QED
    BY <2>1, <2>8, <2>12, <2>13
       DEF PlanInv, Stages, AfterFlags, AfterDefaults, AfterValidation, AfterSharding, AfterOrder
<1>3. QED
  BY <1>1, <1>2

\* When each suite is replaced by parts of it, the suites still come from the
\* configuration.
LEMMA EachSharded ==
  ASSUME NEW suites, OfOne(suites), NEW ss, ss = [i \in DOMAIN suites |-> ss[i]],
         \A i \in DOMAIN suites : IsSeq(ss[i]) /\ \A r \in ToSet(ss[i]) : IsPart(r, suites[i])
  PROVE  /\ OfOne(FlattenSeq(ss))
         /\ \A r : r \in ToSet(FlattenSeq(ss)) <=> \E i \in DOMAIN suites : r \in ToSet(ss[i])
<1>1. IsSeq(suites)
  BY DEF OfOne
<1>2. IsSeq(ss) /\ DOMAIN ss = DOMAIN suites
  BY <1>1, Mapped
<1>3. /\ IsSeq(FlattenSeq(ss))
      /\ \A r : r \in ToSet(FlattenSeq(ss)) <=> \E i \in DOMAIN suites : r \in ToSet(ss[i])
  BY <1>2, Joined
<1>4. ASSUME NEW r \in ToSet(FlattenSeq(ss))
      PROVE  OfConfiguration(r)
  <2>1. PICK i \in DOMAIN suites : r \in ToSet(ss[i])
    BY <1>3
  <2>2. IsPart(r, suites[i])
    BY <2>1
  <2>3. OfConfiguration(suites[i])
    BY <1>1, Numbered DEF OfOne
  <2>4. QED
    BY <2>2, <2>3, StillOfConfiguration DEF IsPart
<1>5. QED
  BY <1>3, <1>4 DEF OfOne

\* Sharding replaces the suites by parts of them.
LEMMA PlanShards ==
  ASSUME PlanInv, ShardSuites
  PROVE  PlanInv'
<1>1. CASE ~ShardingSucceeds
  BY <1>1, PlanRejected DEF ShardSuites, Advance
<1>2. CASE ShardingSucceeds
  <2>1. /\ stage = "validated" /\ stage' = "sharded" /\ given' = given
        /\ project' = Sharded
    BY <1>2 DEF ShardSuites, Advance
  <2>2. /\ FieldsAreKept /\ ConfigurationIsNumbered /\ OfOne(project.suites)
        /\ AreWhole(project.suites) /\ project.concurrency \in Nat \ {0}
        /\ fw \in Web \cup Mobile
    BY <2>1, KnownFramework
       DEF PlanInv, Stages, AfterFlags, AfterDefaults, AfterValidation, AfterSharding, FieldsAreKept
  <2>3. PICK p : p = project
    OBVIOUS
  <2>4. PICK q : q = project'
    OBVIOUS
  <2>5. PICK ss : ss = [i \in DOMAIN p.suites |-> Shards(p.suites[i])]
    OBVIOUS
  <2>6. q = [p EXCEPT !.suites = FlattenSeq(ss)]
    BY <2>1, <2>3, <2>4, <2>5 DEF Sharded
  <2>7. /\ DOMAIN q = ProjectFields /\ q.suites = FlattenSeq(ss)
        /\ q.env = p.env /\ q.envFlag = p.envFlag /\ q.retries = p.retries
        /\ q.history = p.history /\ q.app = p.app /\ q.testApp = p.testApp
        /\ q.concurrency = p.concurrency
    BY <2>2, <2>3, <2>6 DEF FieldsAreKept, ProjectFields
  <2>8. FieldsAreKept'
    BY <2>1, <2>2, <2>3, <2>4, <2>7 DEF FieldsAreKept
  <2>9. ASSUME NEW i \in DOMAIN p.suites
        PROVE  IsSeq(ss[i]) /\ \A r \in ToSet(ss[i]) : IsPart(r, p.suites[i])
    <3>1. PICK s : s = p.suites[i]
      OBVIOUS
    <3>2. s \in ToSet(p.suites)
      BY <3>1 DEF ToSet
    <3>3. IsTyped(s) /\ s.only = NoFilter /\ s.part = <<>> /\ ~ShardFails(s)
      BY <1>2, <2>2, <2>3, <3>2 DEF OfOne, OfConfiguration, AreWhole, ShardingSucceeds
    <3>4. Fulfil(Shards(s), s)
      BY <2>2, <3>3, Sharding
    <3>5. QED
      BY <2>5, <3>1, <3>4 DEF Fulfil
  <2>10. ss = [i \in DOMAIN p.suites |-> ss[i]]
    BY <2>5, Zenon
  <2>11. OfOne(FlattenSeq(ss))
    BY <2>2, <2>3, <2>9, <2>10, EachSharded
  <2>12. OfOne(project.suites)' /\ ConfigurationIsNumbered'
    BY <2>1, <2>2, <2>4, <2>7, <2>11, SameConfiguration
  <2>13. project'.concurrency \in Nat \ {0}
    BY <2>2, <2>3, <2>4, <2>7
  <2>14. QED
    BY <2>1, <2>8, <2>12, <2>13
       DEF PlanInv, Stages, AfterFlags, AfterDefaults, AfterValidation, AfterSharding, AfterOrder
<1>3. QED
  BY <1>1, <1>2

\* The search for the release changes the version, and of the suites the platform.
LEMMA PlanFramework ==
  ASSUME PlanInv, FindFramework
  PROVE  PlanInv'
<1>1. CASE ~(Found # {} /\ PlatformsAreOffered(Release, project.suites))
  BY <1>1, PlanRejected DEF FindFramework, Advance
<1>2. CASE Found # {} /\ PlatformsAreOffered(Release, project.suites)
  <2>1. /\ stage = "sharded" /\ stage' \in {"runnable", "versioned"} /\ given' = given
        /\ project' = WithVersions
    BY <1>2 DEF FindFramework, Advance
  <2>2. /\ FieldsAreKept /\ ConfigurationIsNumbered /\ OfOne(project.suites)
        /\ project.concurrency \in Nat \ {0}
    BY <2>1
       DEF PlanInv, Stages, AfterFlags, AfterDefaults, AfterValidation, AfterSharding
  <2>3. PICK p : p = project
    OBVIOUS
  <2>4. PICK q : q = project'
    OBVIOUS
  <2>5. PICK m : m = Release
    OBVIOUS
  <2>6. PICK suites : suites = [i \in DOMAIN p.suites |->
          IF fw = "playwright" THEN WithBrowser(m, p.suites[i]) ELSE p.suites[i]]
    OBVIOUS
  <2>7. q = [p EXCEPT !.version = IF fw = "replay" THEN @ ELSE m.version,
                      !.runnerVersion = OrElse(@, m.runner), !.suites = suites]
    BY <2>1, <2>3, <2>4, <2>5, <2>6 DEF WithVersions
  <2>8. /\ DOMAIN q = ProjectFields /\ q.suites = suites
        /\ q.env = p.env /\ q.envFlag = p.envFlag /\ q.retries = p.retries
        /\ q.history = p.history /\ q.app = p.app /\ q.testApp = p.testApp
        /\ q.concurrency = p.concurrency
    BY <2>2, <2>3, <2>7 DEF FieldsAreKept, ProjectFields
  <2>9. FieldsAreKept'
    BY <2>1, <2>2, <2>3, <2>4, <2>8 DEF FieldsAreKept
  <2>10. ASSUME NEW i \in DOMAIN p.suites
         PROVE  IsTyped(suites[i]) /\ ComesFrom(suites[i], p.suites[i])
    <3>1. PICK s : s = p.suites[i]
      OBVIOUS
    <3>2. IsTyped(s)
      BY <2>2, <2>3, <3>1, Numbered DEF OfOne, OfConfiguration
    <3>3. IsPart(WithBrowser(m, s), s) /\ ComesFrom(s, s)
      BY <3>2, Browsing DEF ComesFrom
    <3>4. QED
      BY <2>6, <3>1, <3>2, <3>3 DEF IsPart
  <2>11. suites = [i \in DOMAIN p.suites |-> suites[i]]
    BY <2>6, Zenon
  <2>12. OfOne(suites)
    BY <2>2, <2>3, <2>10, <2>11, EachReplaced
  <2>13. OfOne(project.suites)' /\ ConfigurationIsNumbered'
    BY <2>1, <2>2, <2>4, <2>8, <2>12, SameConfiguration
  <2>14. project'.concurrency \in Nat \ {0}
    BY <2>2, <2>3, <2>4, <2>8
  <2>15. QED
    BY <2>1, <2>9, <2>13, <2>14
       DEF PlanInv, Stages, AfterFlags, AfterDefaults, AfterValidation, AfterSharding, AfterOrder
<1>3. QED
  BY <1>1, <1>2

\* Steps that leave the suites alone.
LEMMA PlanKept ==
  ASSUME PlanInv, stage \in AfterSharding \ AfterOrder, stage' \in AfterSharding \ AfterOrder,
         given' = given, DOMAIN project' = ProjectFields,
         \A f \in ProjectFields \ {"nodeVersion"} : project'[f] = project[f]
  PROVE  PlanInv'
<1>1. /\ FieldsAreKept /\ ConfigurationIsNumbered /\ OfOne(project.suites)
      /\ project.concurrency \in Nat \ {0}
  BY DEF PlanInv, Stages, AfterFlags, AfterDefaults, AfterValidation, AfterSharding
<1>2. PICK p : p = project
  OBVIOUS
<1>3. PICK q : q = project'
  OBVIOUS
<1>4. /\ DOMAIN q = ProjectFields /\ q.suites = p.suites
      /\ q.env = p.env /\ q.envFlag = p.envFlag /\ q.retries = p.retries
      /\ q.history = p.history /\ q.app = p.app /\ q.testApp = p.testApp
      /\ q.concurrency = p.concurrency
  BY <1>2, <1>3 DEF ProjectFields
<1>5. FieldsAreKept'
  BY <1>1, <1>2, <1>3, <1>4 DEF FieldsAreKept
<1>6. OfOne(project.suites)' /\ ConfigurationIsNumbered'
  BY <1>1, <1>2, <1>3, <1>4, SameConfiguration
<1>7. QED
  BY <1>1, <1>2, <1>3, <1>4, <1>5, <1>6
     DEF PlanInv, Stages, AfterFlags, AfterDefaults, AfterValidation, AfterSharding, AfterOrder

\* The runtime changes the Node version only.
LEMMA PlanNode ==
  ASSUME PlanInv, SetNodeRuntime
  PROVE  PlanInv'
<1>1. PICK found : found = NodeRuntime(project.nodeVersion)
  OBVIOUS
<1>2. CASE ~(~Release.node \/ found # {})
  BY <1>1, <1>2, PlanRejected DEF SetNodeRuntime, Advance
<1>3. CASE ~Release.node \/ found # {}
  <2>1. PICK node : node = CASE ~Release.node -> NoVersion
          [] Release.node  -> [alias |-> "", numbers |-> (CHOOSE r \in found : TRUE).version]
    OBVIOUS
  <2>2. /\ stage = "versioned" /\ stage' = "runnable" /\ given' = given
        /\ project' = [project EXCEPT !.nodeVersion = node]
    BY <1>1, <1>3, <2>1 DEF SetNodeRuntime, Advance
  <2>3. DOMAIN project = ProjectFields
    BY DEF PlanInv, FieldsAreKept
  <2>4. /\ DOMAIN project' = ProjectFields
        /\ \A f \in ProjectFields \ {"nodeVersion"} : project'[f] = project[f]
    BY <2>2, <2>3
  <2>5. /\ stage \in AfterSharding \ AfterOrder /\ stage' \in AfterSharding \ AfterOrder
    BY <2>2 DEF Stages, AfterFlags, AfterDefaults, AfterValidation, AfterSharding, AfterOrder
  <2>6. QED
    BY <2>2, <2>4, <2>5, PlanKept
<1>4. QED
  BY <1>2, <1>3

\* The launch order is an order of the suites.
LEMMA PlanOrder ==
  ASSUME PlanInv, Order
  PROVE  PlanInv'
<1>1. /\ stage \in {"runnable", "sharded"} /\ stage' = "ordered"
      /\ given' = given /\ project' = project
      /\ order' \in {project.suites, SortByHistory(project.suites, project.history)}
  BY DEF Order
<1>2. /\ FieldsAreKept /\ ConfigurationIsNumbered /\ OfOne(project.suites)
      /\ project.concurrency \in Nat \ {0}
  BY <1>1 DEF PlanInv, Stages, AfterFlags, AfterDefaults, AfterValidation, AfterSharding
<1>3. PICK suites : suites = project.suites
  OBVIOUS
<1>4. PICK history : history = project.history
  OBVIOUS
<1>5. IsSeq(suites) /\ IsSeq(history) /\ IsInjective(history)
  BY <1>2, <1>3, <1>4, ProjectsAssumption DEF OfOne, FieldsAreKept
<1>6. OrderOf(suites, suites) /\ OrderOf(SortByHistory(suites, history), suites)
  BY <1>5, ConfiguredOrder, HistoricalOrder
<1>7. OrderOf(order', project'.suites)
  BY <1>1, <1>3, <1>4, <1>6
<1>8. FieldsAreKept'
  BY <1>1, <1>2 DEF FieldsAreKept
<1>9. OfOne(project.suites)' /\ ConfigurationIsNumbered'
  BY <1>1, <1>2, <1>3, SameConfiguration
<1>10. QED
  BY <1>1, <1>2, <1>7, <1>8, <1>9
     DEF PlanInv, Stages, AfterFlags, AfterDefaults, AfterValidation, AfterSharding, AfterOrder

\* The jobs of the same suites are the same.
LEMMA SameJobs ==
  ASSUME given' = given, project' = project, order' = order
  PROVE  /\ \A s : JobsOf(s)' = JobsOf(s)
         /\ JobsOfAll(order)' = JobsOfAll(order)
         /\ JobsCount' = JobsCount
<1>1. \A s : JobsOf(s)' = JobsOf(s)
  BY DEF JobsOf, fw
<1>2. JobsOfAll(order)' = JobsOfAll(order)
  BY DEF JobsOfAll, JobsOf, fw
<1>3. JobsCount' = JobsCount
  BY DEF JobsCount, JobsOfAll, JobsOf, fw
<1>4. QED
  BY <1>1, <1>2, <1>3

\* Steps that leave the project and the order as they are.
LEMMA PlanUnchanged ==
  ASSUME PlanInv, UNCHANGED <<given, project, order>>,
         \/ stage' = stage /\ UNCHANGED <<jobs, expected>>
         \/ /\ stage = "ordered" /\ stage' = "submitted"
            /\ jobs' = JobsOfAll(order) /\ expected' = JobsCount
  PROVE  PlanInv'
<1>1. FieldsAreKept'
  BY DEF PlanInv, FieldsAreKept
<1>2. ConfigurationIsNumbered' = ConfigurationIsNumbered
  BY SameConfiguration
<1>3. OfOne(project.suites)' = OfOne(project.suites)
  <2>1. PICK suites : suites = project.suites /\ suites = project'.suites
    OBVIOUS
  <2>2. OfOne(suites)' = OfOne(suites)
    BY SameConfiguration
  <2>3. QED
    BY <2>1, <2>2
<1>4. JobsOfAll(order)' = JobsOfAll(order) /\ JobsCount' = JobsCount
  BY SameJobs
<1>5. CASE stage' = stage /\ UNCHANGED <<jobs, expected>>
  <2>1. stage' \in Stages /\ (stage' = "read" => project' = given')
    BY <1>5 DEF PlanInv
  <2>2. stage' \in AfterFlags => ConfigurationIsNumbered' /\ OfOne(project.suites)'
    BY <1>2, <1>3, <1>5 DEF PlanInv
  <2>3. stage' = "submitted" => jobs' = JobsOfAll(order)' /\ expected' = JobsCount'
    BY <1>4, <1>5 DEF PlanInv
  <2>4. QED
    BY <1>1, <1>5, <2>1, <2>2, <2>3 DEF PlanInv
<1>6. CASE /\ stage = "ordered" /\ stage' = "submitted"
           /\ jobs' = JobsOfAll(order) /\ expected' = JobsCount
  <2>1. jobs' = JobsOfAll(order)' /\ expected' = JobsCount'
    BY <1>4, <1>6
  <2>2. /\ ConfigurationIsNumbered /\ OfOne(project.suites)
        /\ project.concurrency \in Nat \ {0} /\ OrderOf(order, project.suites)
    BY <1>6
       DEF PlanInv, Stages, AfterFlags, AfterDefaults, AfterValidation, AfterSharding, AfterOrder
  <2>3. ConfigurationIsNumbered' /\ OfOne(project.suites)'
    BY <1>2, <1>3, <2>2
  <2>4. QED
    BY <1>1, <1>6, <2>1, <2>2, <2>3
       DEF PlanInv, Stages, AfterFlags, AfterDefaults, AfterValidation, AfterSharding, AfterOrder
<1>7. QED
  BY <1>5, <1>6

\* Every step keeps the invariant.
LEMMA PlanNext ==
  ASSUME PlanInv, [Next]_vars
  PROVE  PlanInv'
<1>1. CASE ApplyFlags
  BY <1>1, PlanFlags
<1>2. CASE SetDefaults
  BY <1>2, PlanDefaults
<1>3. CASE Validate
  BY <1>3, PlanValidate
<1>4. CASE ShardSuites
  BY <1>4, PlanShards
<1>5. CASE FindFramework
  BY <1>5, PlanFramework
<1>6. CASE SetNodeRuntime
  BY <1>6, PlanNode
<1>7. CASE TestComposerFails
  BY <1>7, PlanRejected DEF TestComposerFails
<1>8. CASE Order
  BY <1>8, PlanOrder
<1>9. CASE Submit
  BY <1>9, PlanUnchanged DEF Submit
<1>10. CASE UNCHANGED vars
  BY <1>10, PlanUnchanged DEF vars
<1>11. QED
  BY <1>1, <1>2, <1>3, <1>4, <1>5, <1>6, <1>7, <1>8, <1>9, <1>10 DEF Next

\* From its configuration to its jobs a project keeps what is common to all its
\* stages (runX of internal/cmd/run, runSuites).
THEOREM PlanInvariant == Spec => []PlanInv
<1>1. Init => PlanInv
  BY PlanInit
<1>2. PlanInv /\ [Next]_vars => PlanInv'
  BY PlanNext
<1>3. QED
  BY <1>1, <1>2, PTL DEF Spec

-----------------------------------------------------------------------------
(* As many results as jobs                                                 *)

\* A submitted project's jobs are as many as its suites ask for.
LEMMA Counting ==
  ASSUME PlanInv
  PROVE  ExpectedIsSubmitted
<1>1. SUFFICES ASSUME stage = "submitted",
                      \/ fw \in Mobile
                      \/ NamesAreDistinct(project.suites)
                      \/ order = project.suites
               PROVE  expected = Len(jobs)
  BY DEF ExpectedIsSubmitted, Submitted
<1>2. /\ FieldsAreKept /\ OfOne(project.suites) /\ OrderOf(order, project.suites)
      /\ jobs = JobsOfAll(order) /\ expected = JobsCount
  BY <1>1 DEF PlanInv, Stages, AfterFlags, AfterOrder
<1>3. PICK suites : suites = project.suites
  OBVIOUS
<1>4. /\ IsSeq(suites) /\ \A s \in ToSet(suites) : IsTyped(s)
      /\ OrderOf(order, suites) /\ fw \in Web \cup Mobile
  BY <1>2, <1>3, KnownFramework DEF OfOne, OfConfiguration, FieldsAreKept
<1>5. CASE fw \in Mobile
  BY <1>2, <1>5 DEF JobsCount, Mobile
<1>6. CASE fw \notin Mobile
  <2>1. PICK o : o = order
    OBVIOUS
  <2>2. IsSeq(o) /\ ToSet(o) \subseteq ToSet(suites)
    BY <1>4, <2>1 DEF OrderOf
  <2>3. /\ Len(JobsOfAll(o)) = Len(JobsOfAll(suites))
        /\ fw \in {"cypress", "playwright", "cucumber", "replay"} => Len(o) = Len(suites)
    <3>1. CASE o = suites
      BY <3>1
    <3>2. CASE NamesAreDistinct(suites)
      <4>1. PICK p \in Bijection(DOMAIN o, DOMAIN suites) : \A i \in DOMAIN o : o[i] = suites[p[i]]
        BY <1>4, <2>1, <3>2 DEF OrderOf
      <4>2. /\ IsSeq(suites) /\ (\A s \in ToSet(suites) : IsTyped(s)) /\ fw \in Web \cup Mobile
            /\ IsSeq(o) /\ ToSet(o) \subseteq ToSet(suites)
        BY <1>4, <2>2
      <4>3. QED
        BY <4>1, <4>2, ShuffledJobs
    <3>3. o = suites \/ NamesAreDistinct(suites)
      BY <1>1, <1>3, <1>6, <2>1
    <3>4. QED
      BY <3>1, <3>2, <3>3
  <2>4. CASE fw = "testcafe"
    BY <1>2, <1>3, <2>1, <2>3, <2>4 DEF JobsCount
  <2>5. CASE fw \in {"cypress", "playwright", "cucumber", "replay"}
    <3>1. Len(JobsOfAll(o)) = Len(o)
      BY <2>2, <2>5, CountedJobs
    <3>2. expected = Len(suites)
      BY <1>2, <1>3, <2>5 DEF JobsCount, Mobile
    <3>3. Len(jobs) = Len(o)
      BY <1>2, <2>1, <3>1
    <3>4. Len(o) = Len(suites)
      BY <2>3, <2>5
    <3>5. QED
      BY <3>2, <3>3, <3>4
  <2>6. QED
    BY <1>4, <1>6, <2>4, <2>5 DEF Web
<1>7. QED
  BY <1>5, <1>6

\* The collector is told to wait for as many results as jobs are submitted,
\* unless suites share a name and the history orders them (JobsCount of the
\* runners, against SortByHistory).
THEOREM AsManyResultsAsJobs == Spec => []ExpectedIsSubmitted
<1>1. PlanInv => ExpectedIsSubmitted
  BY Counting
<1>2. QED
  BY <1>1, PlanInvariant, PTL

-----------------------------------------------------------------------------
(* From stage to stage                                                     *)

\* Every suite of rs is part of one of suites.
Descends(rs, suites) == \A r \in ToSet(rs) : \E s \in ToSet(suites) : IsPart(r, s)

\* Every suite of suites is whole in rs, but for tests that do not match themselves.
Preserves(rs, suites) ==
  \A s \in ToSet(suites) : \E r \in ToSet(rs) :
    IsPart(r, s) /\ \A t \in Runs(s) : MatchesItself(s, t) => t \in Runs(r)

\* Every suite of suites is in parts in rs.
Divides(rs, suites) ==
  \A s \in ToSet(suites) : s.shard \in Shardings =>
    \A t \in Wanted(s) : \E r \in ToSet(rs) : IsPart(r, s) /\ t \in Runs(r)

\* Suites that are what they were are parts of themselves.
LEMMA Remaining ==
  ASSUME NEW suites, OfOne(suites)
  PROVE  Descends(suites, suites) /\ Preserves(suites, suites)
<1>1. \A s \in ToSet(suites) : IsPart(s, s)
  BY DEF OfOne, OfConfiguration, IsPart, ComesFrom, SameTargets
<1>2. QED
  BY <1>1 DEF Descends, Preserves

\* A change of each suite.
LEMMA EachChanged ==
  ASSUME NEW suites, IsSeq(suites), NEW t, t = [i \in DOMAIN suites |-> t[i]],
         \A i \in DOMAIN suites :
           /\ IsPart(t[i], suites[i])
           /\ \A x \in Runs(suites[i]) : MatchesItself(suites[i], x) => x \in Runs(t[i])
  PROVE  Descends(t, suites) /\ Preserves(t, suites)
<1>1. IsSeq(t) /\ DOMAIN t = DOMAIN suites
  BY Mapped
<1>2. /\ \A i \in DOMAIN suites : t[i] \in ToSet(t) /\ suites[i] \in ToSet(suites)
      /\ \A r \in ToSet(t) : \E i \in DOMAIN suites : t[i] = r
      /\ \A s \in ToSet(suites) : \E i \in DOMAIN suites : suites[i] = s
  BY <1>1, Numbered
<1>3. Descends(t, suites)
  BY <1>2 DEF Descends
<1>4. ASSUME NEW s \in ToSet(suites)
      PROVE  \E r \in ToSet(t) :
               IsPart(r, s) /\ \A x \in Runs(s) : MatchesItself(s, x) => x \in Runs(r)
  <2>1. PICK i \in DOMAIN suites : suites[i] = s
    BY <1>2
  <2>2. /\ IsPart(t[i], s) /\ t[i] \in ToSet(t)
        /\ \A x \in Runs(s) : MatchesItself(s, x) => x \in Runs(t[i])
    BY <1>2, <2>1
  <2>3. QED
    BY <2>2
<1>5. QED
  BY <1>3, <1>4 DEF Preserves

\* What a project that is past the defaults may become: a suite is never lost, and
\* none is made up.
LEMMA Stepping ==
  ASSUME PlanInv, [Next]_vars, stage \in AfterDefaults, stage' # "rejected"
  PROVE  /\ given' = given /\ stage' \in AfterDefaults
         /\ Descends(project'.suites, project.suites)
         /\ (stage \in AfterSharding <=> stage' \in AfterSharding)
              => Preserves(project'.suites, project.suites)
         /\ stage \notin AfterSharding /\ stage' \in AfterSharding
              => Divides(project'.suites, project.suites)
<1>1. /\ FieldsAreKept /\ OfOne(project.suites) /\ project.concurrency \in Nat \ {0}
      /\ fw \in Web \cup Mobile
  BY KnownFramework DEF PlanInv, AfterDefaults, FieldsAreKept
<1>2. PICK suites : suites = project.suites
  OBVIOUS
<1>3. OfOne(suites) /\ IsSeq(suites)
  BY <1>1, <1>2 DEF OfOne
<1>4. \A i \in DOMAIN suites : suites[i] \in ToSet(suites) /\ IsTyped(suites[i])
  BY <1>3, Numbered DEF OfOne, OfConfiguration
<1>5. CASE ApplyFlags
  BY <1>5 DEF ApplyFlags, Advance, Stages, AfterFlags, AfterDefaults
<1>6. CASE SetDefaults
  BY <1>6 DEF SetDefaults, Advance, Stages, AfterFlags, AfterDefaults
<1>7. CASE Validate
  <2>1. /\ stage = "defaults" /\ stage' = "validated" /\ given' = given /\ project' = Validated
    BY <1>7 DEF Validate, Advance
  <2>2. PICK t : t = [i \in DOMAIN suites |-> Resolved(suites[i])]
    OBVIOUS
  <2>3. project'.suites = t
    BY <1>1, <1>2, <2>1, <2>2 DEF Validated, FieldsAreKept, ProjectFields
  <2>4. t = [i \in DOMAIN suites |-> t[i]]
    BY <2>2, Zenon
  <2>5. \A i \in DOMAIN suites :
          /\ IsPart(t[i], suites[i])
          /\ \A x \in Runs(suites[i]) : MatchesItself(suites[i], x) => x \in Runs(t[i])
    BY <1>4, <2>2, Resolving
  <2>6. Descends(t, suites) /\ Preserves(t, suites)
    BY <1>3, <2>4, <2>5, EachChanged
  <2>7. QED
    BY <1>2, <2>1, <2>3, <2>6
       DEF Stages, AfterFlags, AfterDefaults, AfterValidation, AfterSharding
<1>8. CASE ShardSuites
  <2>1. /\ stage = "validated" /\ stage' = "sharded" /\ given' = given /\ project' = Sharded
        /\ ShardingSucceeds
    BY <1>8 DEF ShardSuites, Advance
  <2>2. AreWhole(suites)
    BY <1>2, <2>1
       DEF PlanInv, Stages, AfterFlags, AfterDefaults, AfterValidation, AfterSharding
  <2>3. PICK ss : ss = [i \in DOMAIN suites |-> Shards(suites[i])]
    OBVIOUS
  <2>4. PICK rs : rs = FlattenSeq(ss)
    OBVIOUS
  <2>5. project'.suites = rs
    BY <1>1, <1>2, <2>1, <2>3, <2>4 DEF Sharded, FieldsAreKept, ProjectFields
  <2>6. ASSUME NEW i \in DOMAIN suites
        PROVE  Fulfil(ss[i], suites[i])
    <3>1. PICK s : s = suites[i]
      OBVIOUS
    <3>2. s \in ToSet(suites) /\ IsTyped(s)
      BY <1>4, <3>1
    <3>3. s.only = NoFilter /\ s.part = <<>> /\ ~ShardFails(s)
      BY <1>2, <2>1, <2>2, <3>2 DEF AreWhole, ShardingSucceeds
    <3>4. Fulfil(Shards(s), s)
      BY <1>1, <3>2, <3>3, Sharding
    <3>5. QED
      BY <2>3, <3>1, <3>4
  <2>7. ss = [i \in DOMAIN suites |-> ss[i]]
    BY <2>3, Zenon
  <2>8. \A r : r \in ToSet(rs) <=> \E i \in DOMAIN suites : r \in ToSet(ss[i])
    BY <1>3, <2>4, <2>6, <2>7, EachSharded DEF Fulfil
  <2>9. Descends(rs, suites)
    BY <1>4, <2>6, <2>8 DEF Descends, Fulfil
  <2>10. ASSUME NEW s \in ToSet(suites), s.shard \in Shardings, NEW t \in Wanted(s)
         PROVE  \E r \in ToSet(rs) : IsPart(r, s) /\ t \in Runs(r)
    <3>1. PICK i \in DOMAIN suites : suites[i] = s
      BY <1>3, Numbered
    <3>2. PICK r \in ToSet(ss[i]) : IsPart(r, s) /\ t \in Runs(r)
      BY <2>6, <2>10, <3>1 DEF Fulfil
    <3>3. QED
      BY <2>8, <3>2
  <2>11. Divides(rs, suites)
    BY <2>10 DEF Divides
  <2>12. QED
    BY <1>2, <2>1, <2>5, <2>9, <2>11
       DEF Stages, AfterFlags, AfterDefaults, AfterValidation, AfterSharding
<1>9. CASE FindFramework
  <2>1. /\ stage = "sharded" /\ stage' \in {"runnable", "versioned"} /\ given' = given
        /\ project' = WithVersions
    BY <1>9 DEF FindFramework, Advance
  <2>2. PICK m : m = Release
    OBVIOUS
  <2>3. PICK t : t = [i \in DOMAIN suites |->
                        IF fw = "playwright" THEN WithBrowser(m, suites[i]) ELSE suites[i]]
    OBVIOUS
  <2>4. project'.suites = t
    BY <1>1, <1>2, <2>1, <2>2, <2>3 DEF WithVersions, FieldsAreKept, ProjectFields
  <2>5. t = [i \in DOMAIN suites |-> t[i]]
    BY <2>3, Zenon
  <2>6. \A i \in DOMAIN suites :
          IsPart(t[i], suites[i]) /\ \A x \in Runs(suites[i]) : x \in Runs(t[i])
    <3>1. ASSUME NEW i \in DOMAIN suites
          PROVE  IsPart(t[i], suites[i]) /\ \A x \in Runs(suites[i]) : x \in Runs(t[i])
      <4>1. PICK s : s = suites[i]
        OBVIOUS
      <4>2. IsTyped(s)
        BY <1>4, <4>1
      <4>3. IsPart(WithBrowser(m, s), s) /\ \A x \in Runs(s) : x \in Runs(WithBrowser(m, s))
        BY <4>2, Browsing
      <4>4. IsPart(s, s)
        BY <4>2 DEF IsPart, ComesFrom, SameTargets
      <4>5. t[i] = IF fw = "playwright" THEN WithBrowser(m, s) ELSE s
        BY <2>3, <4>1
      <4>6. QED
        BY <4>1, <4>3, <4>4, <4>5
    <3>2. QED
      BY <3>1
  <2>7. Descends(t, suites) /\ Preserves(t, suites)
    BY <1>3, <2>5, <2>6, EachChanged
  <2>8. QED
    BY <1>2, <2>1, <2>4, <2>7
       DEF Stages, AfterFlags, AfterDefaults, AfterValidation, AfterSharding
<1>10. ASSUME given' = given, project'.suites = project.suites, stage' \in AfterDefaults,
              (stage \in AfterSharding <=> stage' \in AfterSharding)
       PROVE  /\ given' = given /\ stage' \in AfterDefaults
              /\ Descends(project'.suites, project.suites)
              /\ (stage \in AfterSharding <=> stage' \in AfterSharding)
                   => Preserves(project'.suites, project.suites)
              /\ stage \notin AfterSharding /\ stage' \in AfterSharding
                   => Divides(project'.suites, project.suites)
  BY <1>2, <1>3, <1>10, Remaining
<1>11. CASE SetNodeRuntime
  <2>1. /\ stage = "versioned" /\ stage' = "runnable" /\ given' = given
        /\ \E node : project' = [project EXCEPT !.nodeVersion = node]
    BY <1>11 DEF SetNodeRuntime, Advance
  <2>2. project'.suites = project.suites
    BY <1>1, <2>1 DEF FieldsAreKept, ProjectFields
  <2>3. QED
    BY <1>10, <2>1, <2>2 DEF Stages, AfterFlags, AfterDefaults, AfterValidation, AfterSharding
<1>12. CASE TestComposerFails
  BY <1>12 DEF TestComposerFails
<1>13. CASE Order
  <2>1. /\ stage \in {"runnable", "sharded"} /\ stage' = "ordered" /\ given' = given
        /\ project' = project
    BY <1>13 DEF Order
  <2>2. QED
    BY <1>10, <2>1 DEF Stages, AfterFlags, AfterDefaults, AfterValidation, AfterSharding
<1>14. CASE Submit
  <2>1. stage = "ordered" /\ stage' = "submitted" /\ given' = given /\ project' = project
    BY <1>14 DEF Submit
  <2>2. QED
    BY <1>10, <2>1 DEF Stages, AfterFlags, AfterDefaults, AfterValidation, AfterSharding
<1>15. CASE UNCHANGED vars
  BY <1>10, <1>15 DEF vars
<1>16. QED
  BY <1>5, <1>6, <1>7, <1>8, <1>9, <1>11, <1>12, <1>13, <1>14, <1>15 DEF Next

-----------------------------------------------------------------------------
(* What a suite inherits                                                   *)

\* The project after the flags, and a suite of it after the defaults.
Prepared == [given EXCEPT !.suites = Configured(given)]

Defaulted(i) == SuiteDefaults(Prepared, Configured(given)[i])

\* From the defaults to the end a suite is part of a configured suite with its
\* defaults.
Inherits(s) == s.origin \in DOMAIN Configured(given) /\ IsPart(s, Defaulted(s.origin))

HeritageInv ==
  /\ stage = "flags" => project = Prepared
  /\ stage \in AfterDefaults => \A s \in ToSet(project.suites) : Inherits(s)

\* What a suite inherits depends on the project as it was read only.
LEMMA SameHeritage ==
  ASSUME given' = given
  PROVE  Prepared' = Prepared /\ \A s : Inherits(s)' = Inherits(s)
<1>1. Prepared' = Prepared
  BY DEF Prepared
<1>2. \A p, s : SuiteDefaults(p, s)' = SuiteDefaults(p, s)
  BY DEF SuiteDefaults, fw
<1>3. \A i : Defaulted(i)' = Defaulted(i)
  BY DEF Defaulted, SuiteDefaults, Prepared, fw
<1>4. QED
  BY <1>1, <1>3 DEF Inherits

\* Parts of heirs are heirs.
LEMMA PartInherits ==
  ASSUME NEW s, Inherits(s), NEW r, IsPart(r, s)
  PROVE  Inherits(r)
<1>1. r.origin = s.origin
  BY DEF IsPart, ComesFrom
<1>2. PICK d : d = Defaulted(s.origin)
  OBVIOUS
<1>3. IsPart(s, d) /\ IsPart(r, d)
  BY <1>2 DEF Inherits, IsPart, ComesFrom, SameTargets
<1>4. QED
  BY <1>1, <1>2, <1>3 DEF Inherits

\* Setting the defaults makes every suite inherit; no later step takes it away.
LEMMA HeritageNext ==
  ASSUME PlanInv, HeritageInv, [Next]_vars
  PROVE  HeritageInv'
<1>1. CASE stage \in AfterDefaults /\ stage' # "rejected"
  <2>1. /\ given' = given /\ stage' \in AfterDefaults
        /\ Descends(project'.suites, project.suites)
    BY <1>1, Stepping
  <2>2. PICK suites : suites = project.suites
    OBVIOUS
  <2>3. PICK rs : rs = project'.suites
    OBVIOUS
  <2>4. \A r \in ToSet(rs) : Inherits(r)
    BY <1>1, <2>1, <2>2, <2>3, PartInherits DEF HeritageInv, Descends
  <2>5. \A r \in ToSet(rs) : Inherits(r)'
    BY <2>1, <2>4, SameHeritage
  <2>6. stage' # "flags"
    BY <2>1 DEF Stages, AfterFlags, AfterDefaults
  <2>7. QED
    BY <2>3, <2>5, <2>6 DEF HeritageInv
<1>2. CASE stage \notin AfterDefaults \/ stage' = "rejected"
  <2>1. CASE stage' \in {"rejected", "read"}
    BY <2>1 DEF HeritageInv, Stages, AfterFlags, AfterDefaults
  <2>2. CASE stage' \notin {"rejected", "read"}
    <3>1. stage \in {"read", "flags", "rejected"}
      BY <1>2, <2>2 DEF PlanInv, Stages, AfterFlags, AfterDefaults
    <3>2. ApplyFlags \/ SetDefaults \/ (stage = "flags" /\ UNCHANGED vars)
      BY <2>2, <3>1 DEF Next, Validate, ShardSuites, FindFramework, SetNodeRuntime,
                        TestComposerFails, Order, Submit, Advance, vars
    <3>3. CASE ApplyFlags
      <4>1. /\ stage = "read" /\ stage' = "flags" /\ given' = given
            /\ project' = [project EXCEPT !.suites = Configured(project)]
        BY <2>2, <3>3 DEF ApplyFlags, Advance, WithFlags
      <4>2. project = given
        BY <4>1 DEF PlanInv
      <4>3. project' = Prepared'
        BY <4>1, <4>2 DEF Prepared
      <4>4. QED
        BY <4>1, <4>3 DEF HeritageInv, Stages, AfterFlags, AfterDefaults
    <3>4. CASE SetDefaults
      <4>1. /\ stage = "flags" /\ stage' = "defaults" /\ given' = given
            /\ project' = WithDefaults /\ project = Prepared
        BY <3>4 DEF SetDefaults, Advance, HeritageInv
      <4>2. FieldsAreKept /\ ConfigurationIsNumbered /\ fw \in Web \cup Mobile
        BY <4>1, KnownFramework DEF PlanInv, Stages, AfterFlags, FieldsAreKept
      <4>3. PICK p : p = project
        OBVIOUS
      <4>4. PICK c : c = Configured(given)
        OBVIOUS
      <4>5. /\ p.suites = c /\ DOMAIN p = ProjectFields /\ p = Prepared
            /\ IsSeq(c) /\ \A i \in DOMAIN c : IsSuite(c[i]) /\ c[i].origin = i
        <5>1. DOMAIN given = ProjectFields
          BY <4>2, ProjectsAssumption DEF FieldsAreKept
        <5>2. p.suites = c
          BY <4>1, <4>3, <4>4, <5>1 DEF Prepared, ProjectFields
        <5>3. QED
          BY <4>1, <4>2, <4>3, <4>4, <5>2 DEF FieldsAreKept, ConfigurationIsNumbered
      <4>6. PICK t : t = [i \in DOMAIN c |-> SuiteDefaults(p, c[i])]
        OBVIOUS
      <4>7. project'.suites = t
        BY <4>1, <4>3, <4>5, <4>6 DEF WithDefaults, ProjectFields
      <4>8. t = [i \in DOMAIN c |-> t[i]]
        BY <4>6, Zenon
      <4>9. IsSeq(t) /\ DOMAIN t = DOMAIN c
        BY <4>5, <4>8, Mapped
      <4>10. ASSUME NEW r \in ToSet(t)
             PROVE  Inherits(r)
        <5>1. PICK i \in DOMAIN c : t[i] = r
          BY <4>9, Numbered
        <5>2. PICK s : s = c[i]
          OBVIOUS
        <5>3. IsTyped(s) /\ s.origin = i
          BY <4>5, <5>2, FromItself
        <5>4. r = SuiteDefaults(p, s)
          BY <4>6, <5>1, <5>2
        <5>5. IsTyped(r) /\ ComesFrom(r, s)
          BY <4>2, <5>3, <5>4, DefaultedSuite
        <5>6. r.origin = i /\ IsPart(r, r)
          BY <5>3, <5>5 DEF ComesFrom, IsPart, SameTargets
        <5>7. r = Defaulted(i)
          BY <4>4, <4>5, <5>2, <5>4 DEF Defaulted
        <5>8. QED
          BY <4>4, <5>6, <5>7 DEF Inherits
      <4>11. \A r \in ToSet(t) : Inherits(r)'
        BY <4>1, <4>10, SameHeritage
      <4>12. QED
        BY <4>1, <4>7, <4>11 DEF HeritageInv
    <3>5. CASE stage = "flags" /\ UNCHANGED vars
      <4>1. Prepared' = Prepared
        BY <3>5, SameHeritage DEF vars
      <4>2. QED
        BY <3>5, <4>1 DEF HeritageInv, vars, Stages, AfterFlags, AfterDefaults
    <3>6. QED
      BY <3>2, <3>3, <3>4, <3>5
  <2>3. QED
    BY <2>1, <2>2
<1>3. QED
  BY <1>1, <1>2

\* Whatever a suite goes through, it keeps the environment, the targets and the
\* threshold it has from its configuration and the defaults of its framework.
THEOREM SuitesInherit == Spec => []HeritageInv
<1>1. Init => HeritageInv
  BY DEF Init, HeritageInv, Stages, AfterFlags, AfterDefaults
<1>2. PlanInv /\ HeritageInv /\ [Next]_vars => HeritageInv'
  BY HeritageNext
<1>3. QED
  BY <1>1, <1>2, PlanInvariant, PTL DEF Spec

-----------------------------------------------------------------------------
(* The environment                                                         *)

\* Whose a job is.
JobOf(j, s) ==
  /\ IsPart(j.suite, s) /\ (fw \notin Mobile => j.suite = s)
  /\ fw = "testcafe" /\ j.device = Browser => s.virtuals = <<>>

\* Every job that is submitted is one of a suite of the project.
LEMMA SubmittedJobs ==
  ASSUME PlanInv, stage = "submitted"
  PROVE  \A j \in ToSet(jobs) : \E s \in ToSet(project.suites) : JobOf(j, s)
<1>1. /\ FieldsAreKept /\ OfOne(project.suites) /\ OrderOf(order, project.suites)
      /\ jobs = JobsOfAll(order) /\ fw \in Web \cup Mobile
  BY KnownFramework DEF PlanInv, Stages, AfterFlags, AfterOrder, FieldsAreKept
<1>2. PICK suites : suites = project.suites
  OBVIOUS
<1>3. PICK o : o = order
  OBVIOUS
<1>4. IsSeq(o) /\ ToSet(o) \subseteq ToSet(suites) /\ \A s \in ToSet(suites) : IsTyped(s)
  BY <1>1, <1>2, <1>3 DEF OrderOf, OfOne, OfConfiguration
<1>5. \A j : j \in ToSet(JobsOfAll(o)) <=> \E s \in ToSet(o) : j \in ToSet(JobsOf(s))
  BY <1>1, <1>4, AllJobs
<1>6. ASSUME NEW j \in ToSet(jobs)
      PROVE  \E s \in ToSet(suites) : JobOf(j, s)
  <2>1. PICK s \in ToSet(o) : j \in ToSet(JobsOf(s))
    BY <1>1, <1>3, <1>5
  <2>2. s \in ToSet(suites) /\ IsTyped(s)
    BY <1>4
  <2>3. JobsFor(JobsOf(s), s)
    BY <1>1, <2>2, SuiteJobs
  <2>4. JobOf(j, s)
    BY <2>1, <2>3 DEF JobsFor, JobOf
  <2>5. QED
    BY <2>2, <2>4
<1>7. QED
  BY <1>2, <1>6

\* What a suite inherits, its jobs do.
LEMMA JobsInherit ==
  ASSUME PlanInv, HeritageInv, stage = "submitted"
  PROVE  \A j \in ToSet(jobs) : Inherits(j.suite)
<1>1. stage \in AfterDefaults
  BY DEF Stages, AfterFlags, AfterDefaults
<1>2. ASSUME NEW j \in ToSet(jobs)
      PROVE  Inherits(j.suite)
  <2>1. PICK s \in ToSet(project.suites) : JobOf(j, s)
    BY SubmittedJobs
  <2>2. Inherits(s)
    BY <1>1 DEF HeritageInv
  <2>3. QED
    BY <2>1, <2>2, PartInherits DEF JobOf
<1>3. QED
  BY <1>2

\* A flag wins over the root of the file, and that over the suite.
LEMMA FlagsWin ==
  ASSUME NEW p, NEW s, NEW k \in DOMAIN FlagsOverRoot(p, s)
  PROVE  FlagsOverRoot(p, s)[k] = CASE k \in DOMAIN p.envFlag -> p.envFlag[k]
                                    [] k \in DOMAIN p.env \ DOMAIN p.envFlag -> p.env[k]
                                    [] OTHER -> s.env[k]
BY DEF FlagsOverRoot, Override

\* Cypress only renames a variable to what its prefixed one says.
LEMMA Unprefixed ==
  ASSUME NEW e, NEW k \in DOMAIN Unprefix(e),
         ~(k \in DOMAIN Prefixed /\ Prefixed[k] \in DOMAIN Unprefix(e))
  PROVE  k \in DOMAIN e /\ Unprefix(e)[k] = e[k]
<1>1. DOMAIN Prefixed = {"x"} /\ Prefixed["x"] = "CYPRESS_x"
  BY DEF Prefixed
<1>2. PICK by : by = [i \in {i \in {"x"} : Prefixed[i] \in DOMAIN e} |-> e[Prefixed[i]]]
  OBVIOUS
<1>3. Unprefix(e) = Override(e, by)
  BY <1>1, <1>2 DEF Unprefix
<1>4. PICK u : u = Override(e, by)
  OBVIOUS
<1>5. /\ DOMAIN u = DOMAIN e \cup DOMAIN by
      /\ \A i \in DOMAIN u : u[i] = IF i \in DOMAIN by THEN by[i] ELSE e[i]
  BY <1>4 DEF Override
<1>6. k \notin DOMAIN by
  <2>1. SUFFICES ASSUME k \in DOMAIN by
                 PROVE  FALSE
    OBVIOUS
  <2>2. k = "x" /\ Prefixed[k] \in DOMAIN e
    BY <1>2, <2>1
  <2>3. QED
    BY <1>1, <1>3, <1>4, <1>5, <2>2
<1>7. QED
  BY <1>3, <1>4, <1>5, <1>6

\* The environment of a job is its suite's, which inherits the flags'.
LEMMA Environments ==
  ASSUME PlanInv, HeritageInv
  PROVE  EnvPrecedence
<1>1. SUFFICES ASSUME stage = "submitted", fw \notin {"playwright", "espresso", "replay"},
                      NEW j \in ToSet(jobs), NEW k \in DOMAIN j.suite.env \ {"CYPRESS_x"},
                      ~(fw = "cypress" /\ k \in DOMAIN Prefixed
                          /\ Prefixed[k] \in DOMAIN j.suite.env)
               PROVE  j.suite.env[k] =
                        CASE k \in DOMAIN given.envFlag -> given.envFlag[k]
                          [] k \in DOMAIN given.env \ DOMAIN given.envFlag -> given.env[k]
                          [] OTHER -> Configured(given)[j.suite.origin].env[k]
  BY DEF EnvPrecedence, Submitted
<1>2. /\ FieldsAreKept /\ ConfigurationIsNumbered /\ fw \in Web \cup Mobile
  BY <1>1, KnownFramework DEF PlanInv, Stages, AfterFlags, FieldsAreKept
<1>3. PICK s : s = j.suite
  OBVIOUS
<1>4. PICK i : i = s.origin
  OBVIOUS
<1>5. PICK c : c = Configured(given)[i]
  OBVIOUS
<1>6. PICK p : p = Prepared
  OBVIOUS
<1>7. i \in DOMAIN Configured(given) /\ IsPart(s, SuiteDefaults(p, c))
  BY <1>1, <1>3, <1>4, <1>5, <1>6, JobsInherit DEF Inherits, Defaulted
<1>8. p.env = given.env /\ p.envFlag = given.envFlag
  <2>1. DOMAIN given = ProjectFields
    BY <1>2, ProjectsAssumption DEF FieldsAreKept
  <2>2. QED
    BY <1>6, <2>1 DEF Prepared, ProjectFields
<1>9. IsTyped(c)
  BY <1>2, <1>5, <1>7, FromItself DEF ConfigurationIsNumbered
<1>10. s.env = DefaultEnv(p, c)
  BY <1>1, <1>2, <1>7, <1>9, Defaulting DEF IsPart, SameTargets
<1>11. PICK e : e = FlagsOverRoot(p, c)
  OBVIOUS
<1>12. k \in DOMAIN e /\ s.env[k] = e[k]
  <2>1. CASE fw = "cypress"
    BY <1>1, <1>3, <1>10, <1>11, <2>1, Unprefixed DEF DefaultEnv
  <2>2. CASE fw # "cypress"
    BY <1>1, <1>3, <1>10, <1>11, <2>2 DEF DefaultEnv
  <2>3. QED
    BY <2>1, <2>2
<1>13. e[k] = CASE k \in DOMAIN p.envFlag -> p.envFlag[k]
                [] k \in DOMAIN p.env \ DOMAIN p.envFlag -> p.env[k]
                [] OTHER -> c.env[k]
  BY <1>11, <1>12, FlagsWin
<1>14. QED
  BY <1>3, <1>4, <1>5, <1>8, <1>12, <1>13

\* Flags win over the root of the file and that over the suite, in every job
\* (SetDefaults of the frameworks).
THEOREM FlagsWinInEveryJob == Spec => []EnvPrecedence
<1>1. PlanInv /\ HeritageInv => EnvPrecedence
  BY Environments
<1>2. QED
  BY <1>1, PlanInvariant, SuitesInherit, PTL

-----------------------------------------------------------------------------
(* Every test runs                                                         *)

\* Before suites are sharded there is one for each that is configured, which wants
\* all its tests.
StillWanted ==
  \A i \in DOMAIN Configured(given) : \E s \in ToSet(project.suites) :
    s.origin = i /\ \A t \in Wanted(Configured(given)[i]) : t \in Wanted(s)

\* Then there is one for each of its tests.
StillRun ==
  \A i \in DOMAIN Configured(given) : Configured(given)[i].shard \in Shardings =>
    \A t \in Wanted(Configured(given)[i]) : \E s \in ToSet(project.suites) :
      s.origin = i /\ t \in Runs(s)

CoverInv ==
  /\ stage \in AfterDefaults \ AfterSharding => StillWanted
  /\ stage \in AfterSharding => StillRun

\* Tests depend on nothing but the configuration and the suite.
LEMMA SameTests ==
  ASSUME given' = given
  PROVE  /\ Shardings' = Shardings
         /\ \A s : Runs(s)' = Runs(s) /\ Wanted(s)' = Wanted(s)
<1>1. Shardings' = Shardings
  BY DEF Shardings, fw
<1>2. \A s, t : InFiles(s, t)' = InFiles(s, t)
  BY DEF InFiles, fw
<1>3. \A s : Runs(s)' = Runs(s)
  BY <1>2 DEF Runs, InFiles, fw
<1>4. \A s : Wanted(s)' = Wanted(s)
  BY <1>3 DEF Wanted, Asked, MatchesItself, PathsArePatterns, AsPattern, fw
<1>5. QED
  BY <1>1, <1>3, <1>4

\* What matches itself for a suite does so for its parts.
LEMMA SameMatch ==
  ASSUME NEW s, NEW r, r.shard = s.shard, r.excluded = s.excluded
  PROVE  \A t : MatchesItself(r, t) <=> MatchesItself(s, t)
BY DEF MatchesItself, PathsArePatterns

\* Suites that want the same files and names want the same tests.
LEMMA SameWanted ==
  ASSUME NEW s, NEW r, r.shard = s.shard, r.tests = s.tests, r.excluded = s.excluded,
         \A t \in Runs(s) : MatchesItself(s, t) => t \in Runs(r)
  PROVE  \A t \in Wanted(s) : t \in Wanted(r)
BY SameMatch DEF Wanted, Asked

\* Defaults do not say which tests run.
LEMMA DefaultsKeepTests ==
  ASSUME NEW p, NEW s, IsTyped(s), fw \in Web \cup Mobile
  PROVE  \A t \in Wanted(s) : t \in Wanted(SuiteDefaults(p, s))
<1>1. PICK r : r = SuiteDefaults(p, s)
  OBVIOUS
<1>2. Untouched(r, s)
  BY <1>1, Defaulting
<1>3. \A t \in Runs(s) : t \in Runs(r)
  BY <1>2 DEF Untouched, Runs, InFiles, InPart
<1>4. QED
  BY <1>1, <1>2, <1>3, SameWanted DEF Untouched

\* Only sharding can lose a test, and what it makes of a suite runs them all.
LEMMA CoverNext ==
  ASSUME PlanInv, HeritageInv, CoverInv, [Next]_vars
  PROVE  CoverInv'
<1>1. CASE stage \in AfterDefaults /\ stage' # "rejected"
  <2>1. /\ given' = given /\ stage' \in AfterDefaults
        /\ (stage \in AfterSharding <=> stage' \in AfterSharding)
             => Preserves(project'.suites, project.suites)
        /\ stage \notin AfterSharding /\ stage' \in AfterSharding
             => Divides(project'.suites, project.suites)
    BY <1>1, Stepping
  <2>2. PICK suites : suites = project.suites
    OBVIOUS
  <2>3. PICK rs : rs = project'.suites
    OBVIOUS
  <2>4. PICK c : c = Configured(given)
    OBVIOUS
  <2>5. Configured(given)' = c
    BY <2>1, <2>4
  <2>6. OfOne(suites)
    BY <1>1, <2>2 DEF PlanInv, AfterDefaults
  <2>7. /\ Shardings' = Shardings
        /\ \A s : Runs(s)' = Runs(s) /\ Wanted(s)' = Wanted(s)
    BY <2>1, SameTests
  <2>8. \A s : s.shard \in Shardings' <=> s.shard \in Shardings
    BY <2>7
  <2>9. CASE stage \notin AfterSharding /\ stage' \notin AfterSharding
    <3>1. Preserves(rs, suites) /\ StillWanted
      BY <1>1, <2>1, <2>2, <2>3, <2>9 DEF CoverInv
    <3>2. ASSUME NEW i \in DOMAIN c
          PROVE  \E r \in ToSet(rs) : r.origin = i /\ \A t \in Wanted(c[i]) : t \in Wanted(r)
      <4>1. PICK s \in ToSet(suites) : s.origin = i /\ \A t \in Wanted(c[i]) : t \in Wanted(s)
        BY <2>2, <2>4, <3>1 DEF StillWanted
      <4>2. PICK r \in ToSet(rs) :
              IsPart(r, s) /\ \A t \in Runs(s) : MatchesItself(s, t) => t \in Runs(r)
        BY <3>1 DEF Preserves
      <4>3. /\ r.origin = i /\ r.shard = s.shard /\ r.tests = s.tests
            /\ r.excluded = s.excluded
        BY <4>1, <4>2 DEF IsPart, ComesFrom
      <4>4. \A t \in Wanted(s) : t \in Wanted(r)
        BY <4>2, <4>3, SameWanted
      <4>5. QED
        BY <4>1, <4>3, <4>4
    <3>3. \A i \in DOMAIN c : \E r \in ToSet(rs) :
            r.origin = i /\ \A t \in Wanted(c[i])' : t \in Wanted(r)'
      BY <2>7, <3>2
    <3>4. StillWanted'
      BY <2>3, <2>5, <3>3 DEF StillWanted
    <3>5. QED
      BY <2>9, <3>4 DEF CoverInv
  <2>10. ASSUME stage' \in AfterSharding,
                \A i \in DOMAIN c : c[i].shard \in Shardings =>
                  \A t \in Wanted(c[i]) : \E r \in ToSet(rs) : r.origin = i /\ t \in Runs(r)
         PROVE  CoverInv'
    <3>1. \A i \in DOMAIN c : c[i].shard \in Shardings' =>
            \A t \in Wanted(c[i])' : \E r \in ToSet(rs) : r.origin = i /\ t \in Runs(r)'
      BY <2>7, <2>8, <2>10
    <3>2. StillRun'
      BY <2>3, <2>5, <3>1 DEF StillRun
    <3>3. QED
      BY <2>10, <3>2 DEF CoverInv
  <2>11. CASE stage \notin AfterSharding /\ stage' \in AfterSharding
    <3>1. Divides(rs, suites) /\ StillWanted
      BY <1>1, <2>1, <2>2, <2>3, <2>11 DEF CoverInv
    <3>2. ASSUME NEW i \in DOMAIN c, c[i].shard \in Shardings, NEW t \in Wanted(c[i])
          PROVE  \E r \in ToSet(rs) : r.origin = i /\ t \in Runs(r)
      <4>1. PICK s \in ToSet(suites) : s.origin = i /\ t \in Wanted(s)
        BY <2>2, <2>4, <3>1 DEF StillWanted
      <4>2. s.shard \in Shardings
        BY <2>4, <2>6, <3>2, <4>1 DEF OfOne, OfConfiguration, ComesFrom
      <4>3. PICK r \in ToSet(rs) : IsPart(r, s) /\ t \in Runs(r)
        BY <3>1, <4>1, <4>2 DEF Divides
      <4>4. QED
        BY <4>1, <4>3 DEF IsPart, ComesFrom
    <3>3. QED
      BY <2>10, <2>11, <3>2
  <2>12. CASE stage \in AfterSharding /\ stage' \in AfterSharding
    <3>1. Preserves(rs, suites) /\ StillRun
      BY <2>1, <2>2, <2>3, <2>12 DEF CoverInv
    <3>2. ASSUME NEW i \in DOMAIN c, c[i].shard \in Shardings, NEW t \in Wanted(c[i])
          PROVE  \E r \in ToSet(rs) : r.origin = i /\ t \in Runs(r)
      <4>1. PICK s \in ToSet(suites) : s.origin = i /\ t \in Runs(s)
        BY <2>2, <2>4, <3>1, <3>2 DEF StillRun
      <4>2. s.shard = c[i].shard /\ s.excluded = c[i].excluded
        BY <2>4, <2>6, <4>1 DEF OfOne, OfConfiguration, ComesFrom
      <4>3. MatchesItself(c[i], t)
        BY <3>2 DEF Wanted
      <4>4. MatchesItself(s, t)
        BY <4>2, <4>3, SameMatch
      <4>5. PICK r \in ToSet(rs) : IsPart(r, s) /\ t \in Runs(r)
        BY <3>1, <4>1, <4>4 DEF Preserves
      <4>6. QED
        BY <4>1, <4>5 DEF IsPart, ComesFrom
    <3>3. QED
      BY <2>10, <2>12, <3>2
  <2>13. CASE stage \in AfterSharding /\ stage' \notin AfterSharding
    BY <2>13, <1>1, <2>1 DEF Next, ApplyFlags, SetDefaults, Validate, ShardSuites,
         FindFramework, SetNodeRuntime, TestComposerFails, Order, Submit, Advance, vars,
         Stages, AfterFlags, AfterDefaults, AfterValidation, AfterSharding
  <2>14. QED
    BY <2>9, <2>11, <2>12, <2>13
<1>2. CASE stage' \notin AfterDefaults
  BY <1>2 DEF CoverInv, AfterSharding, AfterValidation
<1>3. CASE stage \notin AfterDefaults /\ stage' \in AfterDefaults
  <2>1. SetDefaults
    BY <1>3 DEF Next, ApplyFlags, SetDefaults, Validate, ShardSuites,
         FindFramework, SetNodeRuntime, TestComposerFails, Order, Submit, Advance, vars,
         Stages, AfterFlags, AfterDefaults
  <2>2. /\ stage = "flags" /\ stage' = "defaults" /\ given' = given
        /\ project' = WithDefaults /\ project = Prepared
    BY <2>1 DEF SetDefaults, Advance, HeritageInv
  <2>3. FieldsAreKept /\ ConfigurationIsNumbered /\ fw \in Web \cup Mobile
    BY <2>2, KnownFramework DEF PlanInv, Stages, AfterFlags, FieldsAreKept
  <2>4. PICK p : p = project
    OBVIOUS
  <2>5. PICK c : c = Configured(given)
    OBVIOUS
  <2>6. /\ p.suites = c /\ DOMAIN p = ProjectFields
        /\ IsSeq(c) /\ \A i \in DOMAIN c : IsSuite(c[i]) /\ c[i].origin = i
    <3>1. DOMAIN given = ProjectFields
      BY <2>3, ProjectsAssumption DEF FieldsAreKept
    <3>2. p.suites = c
      BY <2>2, <2>4, <2>5, <3>1 DEF Prepared, ProjectFields
    <3>3. QED
      BY <2>3, <2>4, <2>5, <3>2 DEF FieldsAreKept, ConfigurationIsNumbered
  <2>7. PICK t : t = [i \in DOMAIN c |-> SuiteDefaults(p, c[i])]
    OBVIOUS
  <2>8. project'.suites = t
    BY <2>2, <2>4, <2>6, <2>7 DEF WithDefaults, ProjectFields
  <2>9. t = [i \in DOMAIN c |-> t[i]]
    BY <2>7, Zenon
  <2>10. IsSeq(t) /\ DOMAIN t = DOMAIN c
    BY <2>6, <2>9, Mapped
  <2>11. ASSUME NEW i \in DOMAIN c
         PROVE  \E r \in ToSet(t) : r.origin = i /\ \A x \in Wanted(c[i]) : x \in Wanted(r)
    <3>1. PICK s : s = c[i]
      OBVIOUS
    <3>2. IsTyped(s) /\ s.origin = i
      BY <2>6, <3>1, FromItself
    <3>3. PICK r : r = SuiteDefaults(p, s)
      OBVIOUS
    <3>4. r \in ToSet(t)
      BY <2>7, <2>10, <3>1, <3>3 DEF ToSet
    <3>5. r.origin = i /\ \A x \in Wanted(s) : x \in Wanted(r)
      BY <2>3, <3>2, <3>3, DefaultedSuite, DefaultsKeepTests DEF ComesFrom
    <3>6. QED
      BY <3>1, <3>4, <3>5
  <2>12. \A i \in DOMAIN c : \E r \in ToSet(t) :
           r.origin = i /\ \A x \in Wanted(c[i])' : x \in Wanted(r)'
    BY <2>2, <2>11, SameTests
  <2>13. Configured(given)' = c
    BY <2>2, <2>5
  <2>14. StillWanted'
    BY <2>8, <2>12, <2>13 DEF StillWanted
  <2>15. QED
    BY <2>2, <2>14 DEF CoverInv, Stages, AfterFlags, AfterDefaults, AfterValidation, AfterSharding
<1>4. CASE stage' = "rejected"
  BY <1>4 DEF CoverInv, Stages, AfterFlags, AfterDefaults, AfterValidation, AfterSharding
<1>5. QED
  BY <1>1, <1>2, <1>3, <1>4

\* A web job finds the suite it is for, where suites of one name are the same.
LEMMA FoundByName ==
  ASSUME NEW suites, IsSeq(suites), NEW s \in ToSet(suites),
         \A r \in ToSet(suites) : r.name = s.name => r = s
  PROVE  Where(suites, LAMBDA r : r.name = s.name)[1] = s
<1>1. PICK S : S = ToSet(suites)
  OBVIOUS
<1>2. PICK T : T = {r \in S : r.name = s.name}
  OBVIOUS
<1>3. suites \in Seq(S) /\ \A i \in DOMAIN suites : suites[i] \in S
  BY <1>1 DEF IsSeq, ToSet
<1>4. Where(suites, LAMBDA r : r.name = s.name) = Only(suites, T)
  BY <1>2, <1>3 DEF Where, Only
<1>5. PICK g : g = Only(suites, T)
  OBVIOUS
<1>6. g \in Seq(S) /\ ToSet(g) = S \cap T
  BY <1>1, <1>3, <1>5, Kept
<1>7. s \in ToSet(g)
  BY <1>1, <1>2, <1>6
<1>8. g # <<>> /\ g[1] \in ToSet(g)
  BY <1>6, <1>7 DEF ToSet
<1>9. g[1] \in S /\ g[1].name = s.name
  BY <1>2, <1>6, <1>8
<1>10. g[1] = s
  BY <1>1, <1>9
<1>11. QED
  BY <1>4, <1>5, <1>10

\* A test some suite runs is run by a job, on every device of its configuration.
LEMMA Covering ==
  ASSUME PlanInv, CoverInv
  PROVE  EveryTestRuns
<1>1. SUFFICES ASSUME stage = "submitted",
                      \A s, r \in ToSet(project.suites) : s.name = r.name => s = r,
                      NEW c \in ToSet(Configured(given)), c.shard \in Shardings,
                      NEW d \in Devices(c), NEW t \in Wanted(c)
               PROVE  \E j \in ToSet(jobs) :
                        j.suite.origin = c.origin /\ j.device = d /\ t \in Runs(Executed(j))
  BY DEF EveryTestRuns, Submitted
<1>2. /\ FieldsAreKept /\ ConfigurationIsNumbered /\ OfOne(project.suites)
      /\ OrderOf(order, project.suites) /\ jobs = JobsOfAll(order) /\ fw \in Web \cup Mobile
      /\ StillRun
  BY <1>1, KnownFramework
     DEF PlanInv, FieldsAreKept, CoverInv,
         Stages, AfterFlags, AfterDefaults, AfterValidation, AfterSharding, AfterOrder
<1>3. PICK suites : suites = project.suites
  OBVIOUS
<1>4. PICK o : o = order
  OBVIOUS
<1>5. /\ IsSeq(o) /\ ToSet(o) \subseteq ToSet(suites) /\ IsSeq(suites)
      /\ \A s \in ToSet(suites) : OfConfiguration(s) /\ IsTyped(s)
  BY <1>2, <1>3, <1>4 DEF OrderOf, OfOne, OfConfiguration
<1>6. PICK i \in DOMAIN Configured(given) : Configured(given)[i] = c
  BY <1>2, Numbered DEF ConfigurationIsNumbered
<1>7. c.origin = i
  BY <1>2, <1>6 DEF ConfigurationIsNumbered
<1>8. PICK s \in ToSet(suites) : s.origin = i /\ t \in Runs(s)
  BY <1>1, <1>2, <1>3, <1>6 DEF StillRun
<1>9. s \in ToSet(o)
  <2>1. PICK r \in ToSet(o) : r.name = s.name
    BY <1>2, <1>3, <1>4 DEF OrderOf
  <2>2. r = s
    BY <1>1, <1>3, <1>5, <2>1
  <2>3. QED
    BY <2>1, <2>2
<1>10. d \in Devices(s)
  <2>1. ComesFrom(s, c)
    BY <1>5, <1>6, <1>8 DEF OfConfiguration
  <2>2. Devices(s) = Devices(c)
    BY <2>1, SameDevices
  <2>3. QED
    BY <2>2
<1>11. JobsFor(JobsOf(s), s)
  BY <1>2, <1>5, SuiteJobs
<1>12. PICK j \in ToSet(JobsOf(s)) : j.device = d /\ t \in Runs(j.suite)
  BY <1>8, <1>10, <1>11 DEF JobsFor
<1>13. IsPart(j.suite, s) /\ (fw \notin Mobile => j.suite = s)
  BY <1>11 DEF JobsFor
<1>14. j \in ToSet(jobs)
  <2>1. \A s1 \in ToSet(o) : IsTyped(s1)
    BY <1>5
  <2>2. j \in ToSet(JobsOfAll(o))
    BY <1>2, <1>5, <1>9, <2>1, AllJobs
  <2>3. QED
    BY <1>2, <1>4, <2>2
<1>15. j.suite.origin = c.origin
  BY <1>7, <1>8, <1>13 DEF IsPart, ComesFrom
<1>16. Executed(j) = j.suite
  <2>1. CASE fw \in Mobile
    BY <2>1 DEF Executed
  <2>2. CASE fw \notin Mobile
    <3>1. j.suite = s
      BY <1>13, <2>2
    <3>2. Executed(j) = Where(suites, LAMBDA r : r.name = j.suite.name)[1]
      BY <1>3, <2>2 DEF Executed
    <3>3. \A r \in ToSet(suites) : r.name = s.name => r = s
      BY <1>1, <1>3
    <3>4. Where(suites, LAMBDA r : r.name = s.name)[1] = s
      BY <1>5, <3>3, FoundByName
    <3>5. QED
      BY <3>1, <3>2, <3>4
  <2>3. QED
    BY <2>1, <2>2
<1>17. QED
  BY <1>12, <1>14, <1>15, <1>16

\* Every configured suite is there, whole or in parts, with all its tests, until
\* its jobs are submitted.
THEOREM SuitesAreCovered == Spec => []CoverInv
<1>1. Init => CoverInv
  BY DEF Init, CoverInv, Stages, AfterFlags, AfterDefaults, AfterValidation, AfterSharding
<1>2. PlanInv /\ HeritageInv /\ CoverInv /\ [Next]_vars => CoverInv'
  BY CoverNext
<1>3. QED
  BY <1>1, <1>2, PlanInvariant, SuitesInherit, PTL DEF Spec

\* No test is lost between the configuration and the jobs (shardSuites,
\* ShardSuites, BinPack, SortByHistory, runSuites): every test a configured suite
\* wants runs in one of its jobs, on each of its devices.
THEOREM NoTestIsLost == Spec => []EveryTestRuns
<1>1. PlanInv /\ CoverInv => EveryTestRuns
  BY Covering
<1>2. QED
  BY <1>1, PlanInvariant, SuitesAreCovered, PTL

-----------------------------------------------------------------------------
(* Versions                                                                *)

\* The first of what is kept: an element of both, before all others.
LEMMA FirstKept ==
  ASSUME NEW s, IsSeq(s), NEW T, NEW x \in First(Only(s, T))
  PROVE  /\ First(Only(s, T)) = {x} /\ x \in ToSet(s) \cap T
         /\ \A y \in ToSet(s) \cap T :
              x = y \/ \E a, b \in DOMAIN s : a < b /\ s[a] = x /\ s[b] = y
<1>1. PICK S : S = ToSet(s)
  OBVIOUS
<1>2. s \in Seq(S)
  BY <1>1 DEF IsSeq
<1>3. PICK g : g = Only(s, T)
  OBVIOUS
<1>4. g \in Seq(S) /\ ToSet(g) = S \cap T /\ InOrder(g, s, Len(s))
  BY <1>1, <1>2, <1>3, Kept
<1>5. g # <<>> /\ First(g) = {g[1]} /\ x = g[1]
  <2>1. g # <<>>
    BY <1>3 DEF First, None
  <2>2. Head(g) = g[1]
    BY <1>4, <2>1
  <2>3. QED
    BY <1>3, <2>1, <2>2 DEF First
<1>6. 1 \in DOMAIN g /\ x \in S \cap T
  BY <1>4, <1>5 DEF ToSet
<1>7. PICK n \in Nat : n = Len(s) /\ DOMAIN s = 1..n
  BY Numbered
<1>8. ASSUME NEW y \in S \cap T
      PROVE  x = y \/ \E a, b \in DOMAIN s : a < b /\ s[a] = x /\ s[b] = y
  <2>1. PICK k \in DOMAIN g : g[k] = y
    BY <1>4, <1>8 DEF ToSet
  <2>2. k \in Nat /\ k >= 1
    BY <1>4, <2>1
  <2>3. CASE k = 1
    BY <1>5, <2>1, <2>3
  <2>4. CASE 1 < k
    <3>1. \E a, b \in 1..n : a < b /\ g[1] = s[a] /\ g[k] = s[b]
      BY <1>4, <1>6, <1>7, <2>1, <2>4 DEF InOrder
    <3>2. QED
      BY <1>5, <1>7, <2>1, <3>1
  <2>5. QED
    BY <2>2, <2>3, <2>4
<1>9. QED
  BY <1>1, <1>3, <1>5, <1>6, <1>8

\* What a strategy looks for is what is kept.
LEMMA WhereVersion ==
  ASSUME NEW releases, IsSeq(releases), NEW V
  PROVE  Where(releases, LAMBDA m : m.version \in V)
           = Only(releases, {m \in ToSet(releases) : m.version \in V})
<1>1. PICK T : T = {m \in ToSet(releases) : m.version \in V}
  OBVIOUS
<1>2. \A i \in DOMAIN releases : releases[i] \in ToSet(releases)
  BY DEF ToSet
<1>3. \A i \in DOMAIN releases : releases[i].version \in V <=> releases[i] \in T
  BY <1>1, <1>2
<1>4. Where(releases, LAMBDA m : m.version \in V) = Only(releases, T)
  BY <1>3 DEF Where, Only
<1>5. QED
  BY <1>1, <1>4

\* The releases of a framework.
IsCatalogue(releases) ==
  /\ IsSeq(releases)
  /\ \A i, j \in DOMAIN releases : releases[i].version = releases[j].version => i = j
  /\ \A m \in ToSet(releases) : /\ Rank[m.version] \in Nat /\ m.node \in BOOLEAN
                                /\ m.version \notin {"latest", "package.json"}

\* The releases of a framework on the web are a catalogue.
LEMMA Catalogues ==
  ASSUME fw \in Web
  PROVE  IsCatalogue(Releases(fw))
<1>1. Kind(fw) \in DOMAIN Offered
  BY PlanAssumption
<1>2. QED
  BY <1>1, VersionsAssumption DEF Releases, IsCatalogue, IsSeq

\* Releases can be sorted, and no two have one version.
LEMMA NewestFirst ==
  ASSUME NEW releases, IsCatalogue(releases)
  PROVE  /\ IsSeq(Sorted(releases)) /\ ToSet(Sorted(releases)) = ToSet(releases)
         /\ \A i, j \in DOMAIN Sorted(releases) :
              i < j => Rank[Sorted(releases)[i].version] >= Rank[Sorted(releases)[j].version]
<1>1. PICK R : R = ToSet(releases)
  OBVIOUS
<1>2. PICK n \in Nat : n = Len(releases) /\ DOMAIN releases = 1..n
  BY Numbered DEF IsCatalogue
<1>3. releases \in [1..n -> R]
  BY <1>1, <1>2 DEF IsCatalogue, IsSeq
<1>4. releases \in Bijection(1..n, R)
  <2>1. \A i, j \in 1..n : releases[i] = releases[j] => i = j
    BY <1>2 DEF IsCatalogue
  <2>2. \A r \in R : \E i \in 1..n : releases[i] = r
    BY <1>1, <1>2 DEF ToSet
  <2>3. QED
    BY <1>2, <1>3, <2>1, <2>2 DEF Bijection, Injection, Surjection, IsInjective
<1>5. PICK rank : rank = [r \in R |-> Rank[r.version]]
  OBVIOUS
<1>6. \A r \in R : rank[r] \in Nat /\ rank[r] = Rank[r.version]
  BY <1>1, <1>5 DEF IsCatalogue
<1>7. ExistsBijection(1..n, R)
  BY <1>4 DEF ExistsBijection
<1>8. PICK s \in Bijection(1..n, R) : Falls(s, n, rank)
  BY <1>6, <1>7, Sortable
<1>9. /\ s \in [1..n -> R] /\ DOMAIN s = 1..n
      /\ ToSet(s) = R
  <2>1. s \in [1..n -> R] /\ \A r \in R : \E i \in 1..n : s[i] = r
    BY <1>8 DEF Bijection, Injection, Surjection
  <2>2. QED
    BY <2>1 DEF ToSet
<1>10. \A i, j \in DOMAIN s : i < j => Rank[s[i].version] >= Rank[s[j].version]
  <2>1. ASSUME NEW i \in 1..n, NEW j \in 1..n, i < j
        PROVE  Rank[s[i].version] >= Rank[s[j].version]
    <3>1. s[i] \in R /\ s[j] \in R
      BY <1>9
    <3>2. rank[s[i]] >= rank[s[j]]
      BY <1>8, <2>1 DEF Falls
    <3>3. QED
      BY <1>6, <3>1, <3>2
  <2>2. QED
    BY <1>9, <2>1
<1>11. PICK q : q = Sorted(releases)
  OBVIOUS
<1>12. /\ q \in [1..n -> R] /\ ToSet(q) = R
       /\ \A i, j \in DOMAIN q : i < j => Rank[q[i].version] >= Rank[q[j].version]
  BY <1>1, <1>2, <1>9, <1>10, <1>11 DEF Sorted
<1>13. IsSeq(q)
  <2>1. q \in Seq(R)
    BY <1>2, <1>12
  <2>2. QED
    BY <1>12, <2>1 DEF IsSeq
<1>14. QED
  BY <1>1, <1>11, <1>12, <1>13

\* A release that package.json chooses is the newest it admits.
LEMMA PackageChooses ==
  ASSUME NEW releases, IsCatalogue(releases), NEW range, NEW m \in Package(releases, range)
  PROVE  /\ Package(releases, range) = {m}
         /\ m \in ToSet(releases) /\ m.version \in Satisfies[range]
         /\ \A n \in ToSet(releases) :
              n.version \in Satisfies[range] => Rank[n.version] <= Rank[m.version]
<1>1. PICK s : s = Sorted(releases)
  OBVIOUS
<1>2. PICK R : R = ToSet(releases)
  OBVIOUS
<1>3. /\ IsSeq(s) /\ ToSet(s) = R
      /\ \A i, j \in DOMAIN s : i < j => Rank[s[i].version] >= Rank[s[j].version]
  BY <1>1, <1>2, NewestFirst
<1>4. PICK V : V = Satisfies[range]
  OBVIOUS
<1>5. PICK T : T = {n \in R : n.version \in V}
  OBVIOUS
<1>6. Where(s, LAMBDA n : n.version \in V) = Only(s, T)
  BY <1>3, <1>5, WhereVersion
<1>7. Package(releases, range) = First(Only(s, T))
  BY <1>1, <1>4, <1>6 DEF Package, None
<1>8. /\ First(Only(s, T)) = {m} /\ m \in R /\ m \in T
      /\ \A y \in R \cap T : m = y \/ \E a, b \in DOMAIN s : a < b /\ s[a] = m /\ s[b] = y
  BY <1>3, <1>7, FirstKept
<1>9. ASSUME NEW n \in R, n.version \in V
      PROVE  Rank[n.version] <= Rank[m.version]
  <2>1. Rank[n.version] \in Nat /\ Rank[m.version] \in Nat
    BY <1>2, <1>8 DEF IsCatalogue
  <2>2. m = n \/ \E a, b \in DOMAIN s : a < b /\ s[a] = m /\ s[b] = n
    BY <1>5, <1>8, <1>9
  <2>3. CASE m = n
    BY <2>1, <2>3
  <2>4. CASE \E a, b \in DOMAIN s : a < b /\ s[a] = m /\ s[b] = n
    BY <1>3, <2>1, <2>4
  <2>5. QED
    BY <2>2, <2>3, <2>4
<1>10. m.version \in V
  BY <1>5, <1>8
<1>11. QED
  BY <1>2, <1>4, <1>7, <1>8, <1>9, <1>10

\* A release that is named is the one of that name.
LEMMA ExactChooses ==
  ASSUME NEW releases, IsCatalogue(releases), NEW version, NEW m \in Exact(releases, version)
  PROVE  /\ Exact(releases, version) = {m} /\ m \in ToSet(releases)
         /\ version # "latest" => m.version = version
<1>1. CASE version = "latest"
  <2>1. First(releases) = {Head(releases)} /\ releases # <<>> /\ m = Head(releases)
    BY <1>1 DEF Exact, First, None
  <2>2. PICK R : R = ToSet(releases)
    OBVIOUS
  <2>3. releases \in Seq(R)
    BY <2>2 DEF IsCatalogue, IsSeq
  <2>4. m \in R
    BY <2>1, <2>2, <2>3, HeadAndTail
  <2>5. QED
    BY <1>1, <2>1, <2>2, <2>4 DEF Exact
<1>2. CASE version # "latest"
  <2>1. PICK T : T = {n \in ToSet(releases) : n.version \in {version}}
    OBVIOUS
  <2>2. Where(releases, LAMBDA n : n.version \in {version}) = Only(releases, T)
    BY <2>1, WhereVersion DEF IsCatalogue
  <2>3. Where(releases, LAMBDA n : n.version = version)
          = Where(releases, LAMBDA n : n.version \in {version})
    BY DEF Where
  <2>4. Exact(releases, version) = First(Only(releases, T))
    BY <1>2, <2>2, <2>3 DEF Exact
  <2>5. First(Only(releases, T)) = {m} /\ m \in ToSet(releases) /\ m \in T
    BY <2>4, FirstKept DEF IsCatalogue
  <2>6. QED
    BY <2>1, <2>4, <2>5
<1>3. QED
  BY <1>1, <1>2

\* A release is found by its own version.
LEMMA FoundAgain ==
  ASSUME NEW releases, IsCatalogue(releases), NEW m \in ToSet(releases)
  PROVE  Exact(releases, m.version) = {m}
<1>1. PICK v : v = m.version
  OBVIOUS
<1>2. v # "latest" /\ IsSeq(releases)
  BY <1>1 DEF IsCatalogue
<1>3. PICK T : T = {n \in ToSet(releases) : n.version \in {v}}
  OBVIOUS
<1>4. Where(releases, LAMBDA n : n.version \in {v}) = Only(releases, T)
  BY <1>2, <1>3, WhereVersion
<1>5. Where(releases, LAMBDA n : n.version = v) = Where(releases, LAMBDA n : n.version \in {v})
  BY DEF Where
<1>6. Exact(releases, v) = First(Only(releases, T))
  BY <1>2, <1>4, <1>5 DEF Exact
<1>7. PICK R : R = ToSet(releases)
  OBVIOUS
<1>8. PICK g : g = Only(releases, T)
  OBVIOUS
<1>9. g \in Seq(R) /\ ToSet(g) = R \cap T
  BY <1>2, <1>7, <1>8, Kept DEF IsSeq
<1>10. m \in ToSet(g)
  BY <1>1, <1>3, <1>7, <1>9
<1>11. g # <<>> /\ Head(g) \in ToSet(g)
  BY <1>9, <1>10 DEF ToSet
<1>12. Head(g) \in R /\ Head(g).version = v
  BY <1>3, <1>7, <1>9, <1>11
<1>13. \A n \in R : n.version = v => n = m
  BY <1>1, <1>7 DEF IsCatalogue, ToSet
<1>14. Head(g) = m
  BY <1>12, <1>13
<1>15. QED
  BY <1>1, <1>6, <1>8, <1>11, <1>14 DEF First

-----------------------------------------------------------------------------
(* Targets                                                                 *)

\* What a suite needs to run: attempts enough, a platform and a browser, or apps.
CanRun(s) ==
  /\ s.threshold <= given.retries + 1
  /\ fw \in Web /\ (fw = "testcafe" => s.virtuals = <<>>) => s.platform # "" /\ s.browser # ""
  /\ fw \in Mobile => (given.app # "" \/ s.app # "") /\ s.testApp # ""

TargetInv == stage \in AfterValidation => \A s \in ToSet(project.suites) : CanRun(s)

\* An app that is valid is given.
LEMMA ValidApps ==
  ASSUME NEW app, NEW extensions, AppIsValid(app, extensions), "" \notin extensions
  PROVE  app # ""
BY DEF AppIsValid

\* What makes a suite runnable, its parts take over.
LEMMA PartCanRun ==
  ASSUME NEW s, CanRun(s), NEW r, IsPart(r, s)
  PROVE  CanRun(r)
BY DEF CanRun, IsPart, ComesFrom, SameTargets

\* A valid project has suites that can run.
LEMMA ValidSuites ==
  ASSUME PlanInv, HeritageInv, stage = "defaults", IsValid(project)
  PROVE  \A s \in ToSet(project.suites) : CanRun(s)
<1>1. /\ FieldsAreKept /\ ConfigurationIsNumbered /\ fw \in Web \cup Mobile
      /\ \A s \in ToSet(project.suites) : Inherits(s) /\ IsTyped(s)
  BY KnownFramework DEF PlanInv, HeritageInv, FieldsAreKept, OfOne, OfConfiguration,
                        Stages, AfterFlags, AfterDefaults
<1>2. PICK p : p = project
  OBVIOUS
<1>3. PICK s0 : s0 = Prepared
  OBVIOUS
<1>4. /\ p.retries = given.retries /\ p.retries \in Int
      /\ p.app = given.app /\ p.testApp = given.testApp /\ s0.testApp = given.testApp
  <2>1. DOMAIN given = ProjectFields /\ given.retries \in Int
    BY <1>1, ProjectsAssumption DEF FieldsAreKept
  <2>2. QED
    BY <1>1, <1>2, <1>3, <2>1 DEF FieldsAreKept, Prepared, ProjectFields
<1>5. ASSUME NEW s \in ToSet(p.suites)
      PROVE  CanRun(s)
  <2>1. s.threshold \in Int
    BY <1>1, <1>2 DEF IsTyped
  <2>2. PICK c : c = Configured(given)[s.origin]
    OBVIOUS
  <2>3. IsPart(s, SuiteDefaults(s0, c)) /\ IsTyped(c)
    BY <1>1, <1>2, <1>3, <2>2, FromItself DEF Inherits, Defaulted, ConfigurationIsNumbered
  <2>4. PICK d : d = SuiteDefaults(s0, c)
    OBVIOUS
  <2>5. HasTargets(s0, d) /\ IsPart(s, d)
    BY <1>1, <2>3, <2>4, Defaulting
  <2>6. HasTargets(s0, s)
    BY <2>5 DEF HasTargets, IsPart, ComesFrom, SameTargets
  <2>7. ASSUME ThresholdIsValid(p, s)
        PROVE  s.threshold <= given.retries + 1
    BY <1>4, <2>1, <2>7 DEF ThresholdIsValid
  <2>8. CASE fw = "cypress"
    <3>1. CypressIsValid(p)
      BY <1>2, <2>8 DEF IsValid
    <3>2. s.browser # "" /\ s.platform # "" /\ ThresholdIsValid(p, s)
      BY <3>1 DEF CypressIsValid
    <3>3. QED
      BY <2>7, <2>8, <3>2 DEF CanRun, Mobile
  <2>9. CASE fw = "playwright"
    <3>1. PlaywrightIsValid(p)
      BY <1>2, <2>9 DEF IsValid
    <3>2. s.browser \in SupportedBrowsers /\ ThresholdIsValid(p, s)
      BY <3>1 DEF PlaywrightIsValid
    <3>3. s.platform # "" /\ s.browser # ""
      BY <2>6, <2>9, <3>2 DEF HasTargets, SupportedBrowsers, Web
    <3>4. QED
      BY <2>7, <2>9, <3>2, <3>3 DEF CanRun, Mobile
  <2>10. CASE fw = "testcafe"
    <3>1. TestcafeIsValid(p)
      BY <1>2, <2>10 DEF IsValid
    <3>2. (s.virtuals = <<>> => s.browser # "") /\ ThresholdIsValid(p, s)
      BY <3>1 DEF TestcafeIsValid
    <3>3. s.virtuals = <<>> => s.platform # "" /\ s.browser # ""
      BY <2>6, <2>10, <3>2 DEF HasTargets, Web
    <3>4. QED
      BY <2>7, <2>10, <3>2, <3>3 DEF CanRun, Mobile
  <2>11. CASE fw = "cucumber"
    <3>1. CucumberIsValid(p)
      BY <1>2, <2>11 DEF IsValid
    <3>2. ThresholdIsValid(p, s)
      BY <3>1 DEF CucumberIsValid
    <3>3. s.platform # "" /\ s.browser # ""
      BY <2>6, <2>11 DEF HasTargets, Web
    <3>4. QED
      BY <2>7, <2>11, <3>2, <3>3 DEF CanRun, Mobile
  <2>12. CASE fw = "replay"
    <3>1. ReplayIsValid(p)
      BY <1>2, <2>12 DEF IsValid
    <3>2. ThresholdIsValid(p, s)
      BY <3>1 DEF ReplayIsValid
    <3>3. s.platform # "" /\ s.browser # ""
      BY <2>6, <2>12 DEF HasTargets, Web
    <3>4. QED
      BY <2>7, <2>12, <3>2, <3>3 DEF CanRun, Mobile
  <2>13. CASE fw = "espresso"
    <3>1. EspressoIsValid(p)
      BY <1>2, <2>13 DEF IsValid
    <3>2. /\ AppIsValid(p.app, {"apk"}) /\ AppIsValid(p.testApp, {"apk"})
          /\ ThresholdIsValid(p, s)
      BY <3>1 DEF EspressoIsValid
    <3>3. p.app # "" /\ p.testApp # ""
      BY <3>2, ValidApps
    <3>4. s.testApp # ""
      BY <1>4, <2>6, <2>13, <3>3 DEF HasTargets
    <3>5. QED
      BY <1>4, <2>7, <2>13, <3>2, <3>3, <3>4 DEF CanRun, Web
  <2>14. ASSUME NEW asTestRun, AppleIsValid(p, asTestRun)
         PROVE  s.app # "" /\ s.testApp # "" /\ ThresholdIsValid(p, s)
    <3>1. PICK extensions :
            extensions = {"app"} \cup (IF s.devices # <<>> THEN {"ipa"} ELSE {"zip"})
      OBVIOUS
    <3>2. /\ AppIsValid(s.app, extensions)
          /\ AppIsValid(s.testApp, IF asTestRun THEN {"xctestrun"} ELSE extensions)
          /\ ThresholdIsValid(p, s)
      BY <2>14, <3>1 DEF AppleIsValid
    <3>3. "" \notin extensions
      BY <3>1
    <3>4. "" \notin IF asTestRun THEN {"xctestrun"} ELSE extensions
      BY <3>3
    <3>5. QED
      BY <3>2, <3>3, <3>4, ValidApps
  <2>15. CASE fw \in {"xcuitest", "xctest"}
    <3>1. \E asTestRun : AppleIsValid(p, asTestRun)
      BY <1>2, <2>15 DEF IsValid, XcuitestIsValid, XctestIsValid
    <3>2. s.app # "" /\ s.testApp # "" /\ ThresholdIsValid(p, s)
      BY <2>14, <3>1
    <3>3. QED
      BY <2>7, <2>15, <3>2 DEF CanRun, Web
  <2>16. QED
    BY <1>1, <2>8, <2>9, <2>10, <2>11, <2>12, <2>13, <2>15 DEF Web, Mobile
<1>6. QED
  BY <1>2, <1>5

\* Validation makes the suites runnable; no later step changes their targets.
LEMMA TargetNext ==
  ASSUME PlanInv, HeritageInv, TargetInv, [Next]_vars
  PROVE  TargetInv'
<1>1. SUFFICES ASSUME stage' \in AfterValidation
               PROVE  \A s \in ToSet(project'.suites) : CanRun(s)'
  BY DEF TargetInv, AfterValidation
<1>2. /\ stage \in AfterDefaults /\ stage' # "rejected"
      /\ stage \notin AfterValidation => stage = "defaults" /\ Validate
  BY <1>1 DEF Next, ApplyFlags, SetDefaults, Validate, ShardSuites,
       FindFramework, SetNodeRuntime, TestComposerFails, Order, Submit, Advance, vars,
       Stages, AfterFlags, AfterDefaults, AfterValidation
<1>3. given' = given /\ Descends(project'.suites, project.suites)
  BY <1>2, Stepping
<1>4. \A s \in ToSet(project.suites) : CanRun(s)
  <2>1. CASE stage \in AfterValidation
    BY <2>1 DEF TargetInv
  <2>2. CASE stage \notin AfterValidation
    <3>1. stage = "defaults" /\ IsValid(project)
      BY <1>1, <1>2, <2>2
         DEF Validate, Advance, Stages, AfterFlags, AfterDefaults, AfterValidation
    <3>2. QED
      BY <3>1, ValidSuites
  <2>3. QED
    BY <2>1, <2>2
<1>5. PICK rs : rs = project'.suites
  OBVIOUS
<1>6. \A r \in ToSet(rs) : CanRun(r)
  BY <1>3, <1>4, <1>5, PartCanRun DEF Descends
<1>7. \A r : CanRun(r)' = CanRun(r)
  BY <1>3 DEF CanRun, fw
<1>8. QED
  BY <1>5, <1>6, <1>7

-----------------------------------------------------------------------------
(* What a project is sent with                                             *)

\* The Node.js of a release, once it is chosen.
NodeSettled(m) ==
  IF ~m.node THEN project.nodeVersion = NoVersion
  ELSE \E r \in ToSet(Runtimes) : project.nodeVersion.numbers = r.version /\ NodeFits(r)

\* The release that has been chosen.
Chosen(m) ==
  /\ \A s \in ToSet(project.suites) : s.platform \in m.platforms \cup {""}
  /\ fw # "replay" => project.version = m.version /\ Fits(m)
  /\ fw # "replay" /\ stage # "versioned" => NodeSettled(m)

\* The stages of a web project with a release.
WithRelease == {"versioned", "runnable", "ordered", "submitted"}

VersionInv ==
  /\ stage \in AfterFlags => project.npm.package = given.npm.package
  /\ stage \in AfterFlags \ {"runnable", "ordered", "submitted"} =>
       project.nodeVersion = given.nodeVersion
  /\ stage \in {"flags", "defaults"} => project.version = given.version
  /\ stage \in {"validated", "sharded"} => project.version = Standardize(given.version)
  /\ stage = "versioned" => fw # "replay"
  /\ stage \in WithRelease /\ fw \in Web => \E m \in ToSet(Releases(fw)) : Chosen(m)

\* A release that is found is one that was asked for.
LEMMA FoundFits ==
  ASSUME fw \in Web, NEW version, version = Standardize(given.version),
         NEW m \in Search(fw, version, given.npm.package)
  PROVE  m \in ToSet(Releases(fw)) /\ (fw # "replay" => Fits(m))
<1>1. PICK releases : releases = Releases(fw)
  OBVIOUS
<1>2. IsCatalogue(releases)
  BY <1>1, Catalogues
<1>3. CASE fw = "replay"
  <2>1. m \in Exact(releases, "latest")
    BY <1>1, <1>3 DEF Search
  <2>2. QED
    BY <1>1, <1>2, <1>3, <2>1, ExactChooses
<1>4. CASE fw # "replay" /\ version = "package.json"
  <2>1. PICK range : range = given.npm.package
    OBVIOUS
  <2>2. m \in Package(releases, range)
    BY <1>1, <1>4, <2>1 DEF Search
  <2>3. /\ m \in ToSet(releases) /\ m.version \in Satisfies[range]
        /\ \A n \in ToSet(releases) :
             n.version \in Satisfies[range] => Rank[n.version] <= Rank[m.version]
    BY <1>2, <2>2, PackageChooses
  <2>4. given.version = "package.json"
    BY <1>4 DEF Standardize
  <2>5. PICK admitted : admitted = {n \in ToSet(releases) : n.version \in Satisfies[range]}
    OBVIOUS
  <2>6. m \in admitted /\ \A n \in admitted : Rank[n.version] <= Rank[m.version]
    BY <2>3, <2>5
  <2>7. Fits(m)
    BY <1>1, <2>1, <2>4, <2>5, <2>6 DEF Fits
  <2>8. QED
    BY <1>1, <2>3, <2>7
<1>5. CASE fw # "replay" /\ version # "package.json"
  <2>1. m \in Exact(releases, version)
    BY <1>1, <1>5 DEF Search
  <2>2. m \in ToSet(releases) /\ (version # "latest" => m.version = version)
    BY <1>2, <2>1, ExactChooses
  <2>3. given.version # "package.json" /\ (given.version = "latest" <=> version = "latest")
    BY <1>5 DEF Standardize
  <2>4. Fits(m)
    BY <2>2, <2>3 DEF Fits
  <2>5. QED
    BY <1>1, <2>2, <2>4
<1>6. QED
  BY <1>3, <1>4, <1>5

\* A Node.js that is kept is one of those listed.
LEMMA KeptRuntime ==
  ASSUME NEW T, NEW r \in First(Only(Runtimes, T))
  PROVE  r \in ToSet(Runtimes) \cap T
<1>1. IsSeq(Runtimes)
  BY VersionsAssumption DEF IsSeq
<1>2. QED
  BY <1>1, FirstKept

\* A Node.js that is found is one that was asked for.
LEMMA RuntimeFits ==
  ASSUME NEW r \in NodeRuntime(given.nodeVersion)
  PROVE  r \in ToSet(Runtimes) /\ NodeFits(r)
<1>1. \A i \in DOMAIN Runtimes : Runtimes[i] \in ToSet(Runtimes)
  BY DEF ToSet
<1>2. PICK asked : asked = given.nodeVersion
  OBVIOUS
<1>3. CASE asked = NoVersion
  <2>1. PICK T : T = {q \in ToSet(Runtimes) : q.default}
    OBVIOUS
  <2>2. \A i \in DOMAIN Runtimes : Runtimes[i].default <=> Runtimes[i] \in T
    BY <1>1, <2>1
  <2>3. DefaultRuntime = First(Only(Runtimes, T))
    BY <2>2 DEF DefaultRuntime, Where, Only
  <2>4. r \in ToSet(Runtimes) \cap T
    BY <1>2, <1>3, <2>3, KeptRuntime DEF NodeRuntime
  <2>5. QED
    BY <1>2, <1>3, <2>1, <2>4 DEF NodeFits
<1>4. CASE asked # NoVersion /\ asked.numbers = <<>>
  <2>1. PICK T : T = {q \in ToSet(Runtimes) : asked.alias \in q.aliases}
    OBVIOUS
  <2>2. \A i \in DOMAIN Runtimes : asked.alias \in Runtimes[i].aliases <=> Runtimes[i] \in T
    BY <1>1, <2>1
  <2>3. FindRuntime(asked) = First(Only(Runtimes, T))
    BY <1>4, <2>2 DEF FindRuntime, Where, Only
  <2>4. r \in FindRuntime(asked) /\ ~r.removed
    BY <1>2, <1>4 DEF NodeRuntime
  <2>5. r \in ToSet(Runtimes) \cap T
    BY <2>3, <2>4, KeptRuntime
  <2>6. QED
    BY <1>2, <1>4, <2>1, <2>4, <2>5 DEF NodeFits
<1>5. CASE asked # NoVersion /\ asked.numbers # <<>>
  <2>1. PICK T : T = {q \in ToSet(Runtimes) : IsPrefix(asked.numbers, q.version)}
    OBVIOUS
  <2>2. \A i \in DOMAIN Runtimes :
          IsPrefix(asked.numbers, Runtimes[i].version) <=> Runtimes[i] \in T
    BY <1>1, <2>1
  <2>3. FindRuntime(asked) = First(Only(Runtimes, T))
    BY <1>5, <2>2 DEF FindRuntime, Where, Only
  <2>4. r \in FindRuntime(asked) /\ ~r.removed
    BY <1>2, <1>5 DEF NodeRuntime
  <2>5. r \in ToSet(Runtimes) \cap T
    BY <2>3, <2>4, KeptRuntime
  <2>6. QED
    BY <1>2, <1>5, <2>1, <2>4, <2>5 DEF NodeFits
<1>6. QED
  BY <1>3, <1>4, <1>5

\* What was asked for stays what it was.
LEMMA SameVersions ==
  ASSUME given' = given
  PROVE  /\ \A m : Fits(m)' = Fits(m)
         /\ \A r : NodeFits(r)' = NodeFits(r)
         /\ Releases(fw)' = Releases(fw)
<1>1. \A m : Fits(m)' = Fits(m)
  BY DEF Fits, fw
<1>2. \A r : NodeFits(r)' = NodeFits(r)
  BY DEF NodeFits
<1>3. Releases(fw)' = Releases(fw)
  BY DEF fw
<1>4. QED
  BY <1>1, <1>2, <1>3

\* Parts of suites run on the platforms of the suites.
LEMMA SamePlatforms ==
  ASSUME NEW rs, NEW suites, Descends(rs, suites), NEW platforms,
         \A s \in ToSet(suites) : s.platform \in platforms
  PROVE  \A r \in ToSet(rs) : r.platform \in platforms
BY DEF Descends, IsPart, SameTargets

\* The flags set no version.
LEMMA VersionFlags ==
  ASSUME PlanInv, VersionInv, ApplyFlags, stage' # "rejected"
  PROVE  VersionInv'
<1>1. /\ stage = "read" /\ stage' = "flags" /\ given' = given
      /\ project' = [project EXCEPT !.suites = Configured(project)]
  BY DEF ApplyFlags, Advance, WithFlags
<1>2. project = given /\ DOMAIN project = ProjectFields
  BY <1>1 DEF PlanInv, FieldsAreKept
<1>3. /\ project'.npm = project.npm /\ project'.nodeVersion = project.nodeVersion
      /\ project'.version = project.version
  BY <1>1, <1>2 DEF ProjectFields
<1>4. QED
  BY <1>1, <1>2, <1>3 DEF VersionInv, WithRelease

\* The defaults standardize the version.
LEMMA VersionDefaults ==
  ASSUME PlanInv, VersionInv, HeritageInv, SetDefaults
  PROVE  VersionInv'
<1>1. /\ stage = "flags" /\ stage' = "defaults" /\ given' = given
      /\ project' = WithDefaults /\ project = Prepared
  BY DEF SetDefaults, Advance, HeritageInv
<1>2. given \in Projects /\ DOMAIN project = ProjectFields
  BY DEF PlanInv, FieldsAreKept
<1>3. /\ DOMAIN given = ProjectFields
      /\ DOMAIN given.npm = {"registry", "registries", "usePackageLock", "lockFile", "package"}
  BY <1>2, ProjectsAssumption
<1>4. project.npm = given.npm
  BY <1>1, <1>3 DEF Prepared, ProjectFields
<1>5. PICK p : p = project
  OBVIOUS
<1>6. PICK npm : npm = IF fw \in Web \ {"replay"} THEN NpmDefaults(p) ELSE p.npm
  OBVIOUS
<1>7. npm.package = p.npm.package
  <2>1. PICK n : n = p.npm
    OBVIOUS
  <2>2. DOMAIN n = {"registry", "registries", "usePackageLock", "lockFile", "package"}
    BY <1>3, <1>4, <1>5, <2>1
  <2>3. PICK rs : rs = Append(n.registries, [url |-> n.registry, scope |-> ""])
    OBVIOUS
  <2>4. npm \in {n, [n EXCEPT !.registries = rs]}
    BY <1>6, <2>1, <2>3 DEF NpmDefaults
  <2>5. [n EXCEPT !.registries = rs].package = n.package
    BY <2>2
  <2>6. QED
    BY <2>1, <2>4, <2>5
<1>8. PICK suites : suites = [i \in DOMAIN p.suites |-> SuiteDefaults(p, p.suites[i])]
  OBVIOUS
<1>9. project' = [p EXCEPT !.concurrency = IF @ < 1 THEN 2 ELSE @, !.npm = npm,
                           !.suites = suites]
  BY <1>1, <1>5, <1>6, <1>8 DEF WithDefaults
<1>10. /\ project'.npm = npm /\ project'.nodeVersion = p.nodeVersion
       /\ project'.version = p.version
  BY <1>2, <1>5, <1>9 DEF ProjectFields
<1>11. /\ p.npm.package = given.npm.package /\ p.nodeVersion = given.nodeVersion
       /\ p.version = given.version
  BY <1>1, <1>5 DEF VersionInv, Stages, AfterFlags
<1>12. QED
  BY <1>1, <1>7, <1>10, <1>11 DEF VersionInv, WithRelease

\* Validation keeps the versions.
LEMMA VersionValidate ==
  ASSUME PlanInv, VersionInv, Validate, stage' # "rejected"
  PROVE  VersionInv'
<1>1. /\ stage = "defaults" /\ stage' = "validated" /\ given' = given
      /\ project' = Validated
  BY DEF Validate, Advance
<1>2. /\ DOMAIN project = ProjectFields /\ project.npm.package = given.npm.package
      /\ project.nodeVersion = given.nodeVersion /\ project.version = given.version
  BY <1>1 DEF PlanInv, FieldsAreKept, VersionInv, Stages, AfterFlags
<1>3. /\ project'.npm = project.npm /\ project'.nodeVersion = project.nodeVersion
      /\ project'.version = Standardize(project.version)
  BY <1>1, <1>2 DEF Validated, ProjectFields
<1>4. QED
  BY <1>1, <1>2, <1>3 DEF VersionInv, WithRelease

\* Sharding keeps the versions.
LEMMA VersionShards ==
  ASSUME PlanInv, VersionInv, ShardSuites, stage' # "rejected"
  PROVE  VersionInv'
<1>1. /\ stage = "validated" /\ stage' = "sharded" /\ given' = given
      /\ project' = Sharded
  BY DEF ShardSuites, Advance
<1>2. /\ DOMAIN project = ProjectFields /\ project.npm.package = given.npm.package
      /\ project.nodeVersion = given.nodeVersion
      /\ project.version = Standardize(given.version)
  BY <1>1 DEF PlanInv, FieldsAreKept, VersionInv, Stages, AfterFlags
<1>3. /\ project'.npm = project.npm /\ project'.nodeVersion = project.nodeVersion
      /\ project'.version = project.version
  BY <1>1, <1>2 DEF Sharded, ProjectFields
<1>4. QED
  BY <1>1, <1>2, <1>3 DEF VersionInv, WithRelease

\* The release that is found is one of the catalogue's, and offers the platforms.
LEMMA VersionFramework ==
  ASSUME PlanInv, VersionInv, FindFramework, stage' # "rejected", [Next]_vars
  PROVE  VersionInv'
<1>1. /\ fw \in Web /\ stage = "sharded" /\ given' = given /\ project' = WithVersions
      /\ stage' = IF fw = "replay" THEN "runnable" ELSE "versioned"
      /\ Found # {} /\ PlatformsAreOffered(Release, project.suites)
  BY DEF FindFramework, Advance
<1>2. /\ DOMAIN project = ProjectFields /\ project.npm.package = given.npm.package
      /\ project.nodeVersion = given.nodeVersion
      /\ project.version = Standardize(given.version)
  BY <1>1 DEF PlanInv, FieldsAreKept, VersionInv, Stages, AfterFlags
<1>3. PICK m : m = Release
  OBVIOUS
<1>4. m \in Search(fw, project.version, given.npm.package)
  BY <1>1, <1>2, <1>3 DEF Release, Found
<1>5. m \in ToSet(Releases(fw)) /\ (fw # "replay" => Fits(m))
  BY <1>1, <1>2, <1>4, FoundFits
<1>6. /\ project'.npm = project.npm /\ project'.nodeVersion = project.nodeVersion
      /\ project'.version = IF fw = "replay" THEN project.version ELSE m.version
  BY <1>1, <1>2, <1>3 DEF WithVersions, ProjectFields
<1>7. Descends(project'.suites, project.suites)
  <2>1. stage \in AfterDefaults
    BY <1>1 DEF Stages, AfterFlags, AfterDefaults
  <2>2. QED
    BY <2>1, Stepping
<1>8. PICK platforms : platforms = m.platforms \cup {""}
  OBVIOUS
<1>9. PICK suites : suites = project.suites
  OBVIOUS
<1>10. PICK rs : rs = project'.suites
  OBVIOUS
<1>11. \A r \in ToSet(rs) : r.platform \in platforms
  <2>1. \A s \in ToSet(suites) : s.platform \in platforms
    BY <1>1, <1>3, <1>8, <1>9 DEF PlatformsAreOffered
  <2>2. QED
    BY <1>7, <1>9, <1>10, <2>1, SamePlatforms
<1>12. fw' = fw /\ Fits(m)' = Fits(m) /\ Releases(fw)' = Releases(fw)
  BY <1>1, SameVersions DEF fw
<1>13. Chosen(m)'
  BY <1>1, <1>5, <1>6, <1>8, <1>10, <1>11, <1>12 DEF Chosen
<1>14. \E n \in ToSet(Releases(fw)') : Chosen(n)'
  BY <1>5, <1>12, <1>13
<1>15. QED
  BY <1>1, <1>2, <1>6, <1>12, <1>14 DEF VersionInv, WithRelease

\* The runtime that is found is one of the release's.
LEMMA VersionNode ==
  ASSUME PlanInv, VersionInv, SetNodeRuntime, stage' # "rejected"
  PROVE  VersionInv'
<1>1. PICK found : found = NodeRuntime(project.nodeVersion)
  OBVIOUS
<1>2. PICK node : node = CASE ~Release.node -> NoVersion
        [] Release.node  -> [alias |-> "", numbers |-> (CHOOSE r \in found : TRUE).version]
  OBVIOUS
<1>3. /\ stage = "versioned" /\ stage' = "runnable" /\ given' = given
      /\ project' = [project EXCEPT !.nodeVersion = node]
      /\ ~Release.node \/ found # {}
  BY <1>1, <1>2 DEF SetNodeRuntime, Advance
<1>4. /\ DOMAIN project = ProjectFields /\ project.npm.package = given.npm.package
      /\ project.nodeVersion = given.nodeVersion /\ fw # "replay"
  BY <1>3 DEF PlanInv, FieldsAreKept, VersionInv, Stages, AfterFlags
<1>5. /\ project'.npm = project.npm /\ project'.nodeVersion = node
      /\ project'.version = project.version /\ project'.suites = project.suites
  BY <1>3, <1>4 DEF ProjectFields
<1>6. fw' = fw /\ Releases(fw)' = Releases(fw)
  BY <1>3, SameVersions DEF fw
<1>7. CASE fw \in Web
  <2>1. PICK m \in ToSet(Releases(fw)) : Chosen(m)
    BY <1>3, <1>7 DEF VersionInv, WithRelease
  <2>2. IsCatalogue(Releases(fw))
    BY <1>7, Catalogues
  <2>3. m.node \in BOOLEAN /\ m.version # "package.json"
    BY <2>1, <2>2 DEF IsCatalogue
  <2>4. Found = {m}
    <3>1. project.version = m.version
      BY <1>4, <2>1 DEF Chosen
    <3>2. Found = Exact(Releases(fw), m.version)
      BY <1>4, <2>3, <3>1 DEF Found, Search
    <3>3. QED
      BY <2>1, <2>2, <3>2, FoundAgain
  <2>5. Release = m
    BY <2>4 DEF Release
  <2>6. CASE ~m.node
    <3>1. project'.nodeVersion = NoVersion
      BY <1>2, <1>5, <2>5, <2>6
    <3>2. QED
      <4>1. NodeSettled(m)'
        BY <2>6, <3>1 DEF NodeSettled
      <4>2. Fits(m)' /\ \A s \in ToSet(project'.suites) : s.platform \in m.platforms \cup {""}
        BY <1>3, <1>4, <1>5, <2>1, SameVersions DEF Chosen
      <4>3. project'.version = m.version
        BY <1>4, <1>5, <2>1 DEF Chosen
      <4>4. Chosen(m)'
        BY <4>1, <4>2, <4>3 DEF Chosen
      <4>5. \E n \in ToSet(Releases(fw)') : Chosen(n)'
        BY <1>6, <2>1, <4>4
      <4>6. QED
        BY <1>3, <1>4, <1>5, <1>6, <4>5 DEF VersionInv, WithRelease
  <2>7. CASE m.node
    <3>1. PICK r : r = CHOOSE x \in found : TRUE
      OBVIOUS
    <3>2. r \in found
      BY <1>3, <2>5, <2>7, <3>1
    <3>3. r \in ToSet(Runtimes) /\ NodeFits(r)
      BY <1>1, <1>4, <3>2, RuntimeFits
    <3>4. project'.nodeVersion.numbers = r.version
      <4>1. node = [alias |-> "", numbers |-> r.version]
        BY <1>2, <2>5, <2>7, <3>1
      <4>2. node.numbers = r.version
        BY <4>1
      <4>3. QED
        BY <1>5, <4>2
    <3>5. NodeFits(r)'
      BY <1>3, <3>3, SameVersions
    <3>6. NodeSettled(m)'
      BY <2>7, <3>3, <3>4, <3>5 DEF NodeSettled
    <3>7. Fits(m)' /\ \A s \in ToSet(project'.suites) : s.platform \in m.platforms \cup {""}
      BY <1>3, <1>4, <1>5, <2>1, SameVersions DEF Chosen
    <3>8. project'.version = m.version
      BY <1>4, <1>5, <2>1 DEF Chosen
    <3>9. Chosen(m)'
      BY <3>6, <3>7, <3>8 DEF Chosen
    <3>10. \E n \in ToSet(Releases(fw)') : Chosen(n)'
      BY <1>6, <2>1, <3>9
    <3>11. QED
      BY <1>3, <1>4, <1>5, <1>6, <3>10 DEF VersionInv, WithRelease
  <2>8. QED
    BY <2>3, <2>6, <2>7
<1>8. CASE fw \notin Web
  BY <1>3, <1>4, <1>5, <1>6, <1>8 DEF VersionInv, WithRelease
<1>9. QED
  BY <1>7, <1>8

\* Steps that leave the project as it is.
LEMMA VersionKept ==
  ASSUME VersionInv, given' = given, project' = project,
         \/ stage' = stage
         \/ /\ stage = IF fw \in Web THEN "runnable" ELSE "sharded"
            /\ stage' = "ordered"
         \/ stage = "ordered" /\ stage' = "submitted"
  PROVE  VersionInv'
<1>1. fw' = fw /\ Releases(fw)' = Releases(fw)
  BY SameVersions DEF fw
<1>2. stage \in WithRelease /\ fw \in Web => (stage = "versioned" <=> stage' = "versioned")
  BY DEF WithRelease
<1>3. ASSUME NEW m
      PROVE  stage \in WithRelease /\ fw \in Web /\ Chosen(m) => Chosen(m)'
  <2>1. Fits(m)' = Fits(m)
    BY SameVersions
  <2>2. NodeSettled(m)' = NodeSettled(m)
    BY SameVersions DEF NodeSettled
  <2>3. QED
    BY <1>1, <1>2, <2>1, <2>2 DEF Chosen
<1>4. stage' \in WithRelease /\ fw \in Web => stage \in WithRelease
  BY DEF WithRelease
<1>5. stage' \in WithRelease /\ fw' \in Web => \E m \in ToSet(Releases(fw)') : Chosen(m)'
  BY <1>1, <1>3, <1>4 DEF VersionInv
<1>6. /\ stage' \in AfterFlags => project'.npm.package = given'.npm.package
      /\ stage' \in AfterFlags \ {"runnable", "ordered", "submitted"} =>
           project'.nodeVersion = given'.nodeVersion
      /\ stage' \in {"flags", "defaults"} => project'.version = given'.version
      /\ stage' \in {"validated", "sharded"} => project'.version = Standardize(given'.version)
      /\ stage' = "versioned" => fw' # "replay"
  BY <1>1 DEF VersionInv, Stages, AfterFlags
<1>7. QED
  BY <1>5, <1>6 DEF VersionInv

\* Every step keeps the versions in their order: read, standardized, found.
LEMMA VersionNext ==
  ASSUME PlanInv, HeritageInv, VersionInv, [Next]_vars
  PROVE  VersionInv'
<1>1. CASE stage' = "rejected"
  BY <1>1 DEF VersionInv, Stages, AfterFlags, WithRelease
<1>2. CASE stage' # "rejected"
  <2>1. CASE ApplyFlags
    BY <1>2, <2>1, VersionFlags
  <2>2. CASE SetDefaults
    BY <2>2, VersionDefaults
  <2>3. CASE Validate
    BY <1>2, <2>3, VersionValidate
  <2>4. CASE ShardSuites
    BY <1>2, <2>4, VersionShards
  <2>5. CASE FindFramework
    BY <1>2, <2>5, VersionFramework
  <2>6. CASE SetNodeRuntime
    BY <1>2, <2>6, VersionNode
  <2>7. CASE TestComposerFails
    BY <1>2, <2>7 DEF TestComposerFails
  <2>8. CASE Order
    BY <2>8, VersionKept DEF Order
  <2>9. CASE Submit
    BY <2>9, VersionKept DEF Submit
  <2>10. CASE UNCHANGED vars
    BY <2>10, VersionKept DEF vars
  <2>11. QED
    BY <2>1, <2>2, <2>3, <2>4, <2>5, <2>6, <2>7, <2>8, <2>9, <2>10 DEF Next
<1>3. QED
  BY <1>1, <1>2

\* A submitted project's jobs can pass: runnable suites, versions that fit.
LEMMA Passing ==
  ASSUME PlanInv, TargetInv, VersionInv
  PROVE  SubmittedJobsCanPass
<1>1. SUFFICES ASSUME stage = "submitted"
               PROVE  /\ fw \in Web => VersionsFit
                      /\ \A j \in ToSet(jobs) :
                           /\ j.suite.threshold
                                <= (IF given.retries < 0 THEN 0 ELSE given.retries) + 1
                           /\ fw \in Web /\ j.device = Browser =>
                                j.suite.platform # "" /\ j.suite.browser # ""
                           /\ fw \in Mobile => /\ project.app # "" \/ j.suite.app # ""
                                               /\ j.suite.testApp # ""
  BY DEF SubmittedJobsCanPass, Submitted
<1>2. /\ FieldsAreKept /\ OfOne(project.suites)
      /\ \A s \in ToSet(project.suites) : CanRun(s)
      /\ fw \in Web => \E m \in ToSet(Releases(fw)) : Chosen(m)
  BY <1>1 DEF PlanInv, TargetInv, VersionInv, WithRelease,
              Stages, AfterFlags, AfterDefaults, AfterValidation
<1>3. given.retries \in Int /\ project.app = given.app
  BY <1>2, ProjectsAssumption DEF FieldsAreKept
<1>4. ASSUME NEW j \in ToSet(jobs)
      PROVE  /\ j.suite.threshold <= (IF given.retries < 0 THEN 0 ELSE given.retries) + 1
             /\ fw \in Web /\ j.device = Browser =>
                  j.suite.platform # "" /\ j.suite.browser # ""
             /\ fw \in Mobile => /\ project.app # "" \/ j.suite.app # ""
                                 /\ j.suite.testApp # ""
  <2>1. PICK s \in ToSet(project.suites) : JobOf(j, s)
    BY <1>1, SubmittedJobs
  <2>2. PICK r : r = j.suite
    OBVIOUS
  <2>3. /\ IsPart(r, s) /\ CanRun(s)
        /\ fw = "testcafe" /\ j.device = Browser => s.virtuals = <<>>
    BY <1>2, <2>1, <2>2 DEF JobOf
  <2>4. CanRun(r) /\ r.virtuals = s.virtuals /\ r.threshold \in Int
    <3>1. CanRun(r)
      BY <2>3, PartCanRun
    <3>2. QED
      BY <2>3, <3>1 DEF IsPart, IsTyped, ComesFrom
  <2>5. r.threshold <= (IF given.retries < 0 THEN 0 ELSE given.retries) + 1
    <3>1. r.threshold <= given.retries + 1
      BY <2>4 DEF CanRun
    <3>2. PICK n \in Int : n = given.retries
      BY <1>3
    <3>3. PICK k \in Int : k = r.threshold
      BY <2>4
    <3>4. k <= (IF n < 0 THEN 0 ELSE n) + 1
      BY <3>1, <3>2, <3>3
    <3>5. QED
      BY <3>2, <3>3, <3>4
  <2>6. QED
    BY <1>3, <2>2, <2>3, <2>4, <2>5 DEF CanRun
<1>5. ASSUME fw \in Web
      PROVE  VersionsFit
  <2>1. PICK m \in ToSet(Releases(fw)) : Chosen(m)
    BY <1>2, <1>5
  <2>2. PICK platforms : platforms = m.platforms \cup {""}
    OBVIOUS
  <2>3. \A s \in ToSet(project.suites) : s.platform \in platforms
    BY <2>1, <2>2 DEF Chosen
  <2>4. ASSUME NEW j \in ToSet(jobs)
        PROVE  j.suite.platform \in platforms
    <3>1. PICK s \in ToSet(project.suites) : JobOf(j, s)
      BY <1>1, SubmittedJobs
    <3>2. j.suite.platform = s.platform
      BY <3>1 DEF JobOf, IsPart, SameTargets
    <3>3. QED
      BY <2>3, <3>2
  <2>5. \A s \in {j.suite : j \in ToSet(jobs)} : s.platform \in m.platforms \cup {""}
    BY <2>2, <2>4
  <2>6. fw # "replay" => project.version = m.version /\ Fits(m) /\ NodeSettled(m)
    BY <1>1, <2>1 DEF Chosen
  <2>7. QED
    BY <2>1, <2>5, <2>6 DEF VersionsFit, NodeSettled
<1>6. QED
  BY <1>4, <1>5

\* Suites that are valid have what they need to run, and so have their parts
\* (Validate, and what runSuites sends).
THEOREM SuitesCanRun == Spec => []TargetInv
<1>1. Init => TargetInv
  BY DEF Init, TargetInv, Stages, AfterFlags, AfterDefaults, AfterValidation
<1>2. PlanInv /\ HeritageInv /\ TargetInv /\ [Next]_vars => TargetInv'
  BY TargetNext
<1>3. QED
  BY <1>1, <1>2, PlanInvariant, SuitesInherit, PTL DEF Spec

\* A web project keeps the release and the Node.js that were chosen for it, and
\* they are what it asked for (setVersions, setNodeRuntime).
THEOREM VersionsAreKept == Spec => []VersionInv
<1>1. Init => VersionInv
  BY DEF Init, VersionInv, Stages, AfterFlags, WithRelease
<1>2. PlanInv /\ HeritageInv /\ VersionInv /\ [Next]_vars => VersionInv'
  BY VersionNext
<1>3. QED
  BY <1>1, <1>2, PlanInvariant, SuitesInherit, PTL DEF Spec

\* A job that is sent has what it needs to pass: attempts enough, its targets and
\* versions that belong together (Validate, setVersions, setNodeRuntime, runSuites).
THEOREM JobsCanPass == Spec => []SubmittedJobsCanPass
<1>1. PlanInv /\ TargetInv /\ VersionInv => SubmittedJobsCanPass
  BY Passing
<1>2. QED
  BY <1>1, PlanInvariant, SuitesCanRun, VersionsAreKept, PTL

=============================================================================
