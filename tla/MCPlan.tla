------------------------------- MODULE MCPlan -------------------------------
(***************************************************************************)
(* Four files, of which f2 is listed twice by overlapping patterns, f1's   *)
(* path is a regexp that f2 matches too, f3 may be ignored, and f0's path  *)
(* matches other files than f0; test names that two files share, of which  *)
(* t0 does not match itself and t1 also matches t2; and small families of  *)
(* projects around one base project per framework.                         *)
(***************************************************************************)
EXTENDS Plan

McWalk == <<"f0", "f1", "f2", "f3">>

McTestsIn == [f0 |-> {"t1"}, f1 |-> {"t1", "t2"}, f2 |-> {"t0", "t2"}, f3 |-> {"t3"}]

McAsRegex == [f0 |-> {"f1"}, f1 |-> {"f1", "f2"}, f2 |-> {"f2"}, f3 |-> {"f3"}]

McAsGlob == [f0 |-> {"f3"}, f1 |-> {"f1"}, f2 |-> {"f2"}, f3 |-> {"f3"}]

McNameRegex == [t0 |-> {}, t1 |-> {"t1", "t2"}, t2 |-> {"t2"}, t3 |-> {"t3"}]

McSlot == [t \in Tests |-> CASE t[1] = "f1" /\ t[2] = "t1" -> 0
                             [] t[1] = "f1" /\ t[2] = "t2" -> 1
                             [] t[1] = "f2" /\ t[2] = "t2" -> 2
                             [] t[1] = "f2" /\ t[2] = "t0" -> 4
                             [] t[1] = "f0" -> 5
                             [] OTHER -> 3]

NoEnv == [k \in {} |-> ""]

Phone == [named |-> TRUE, type |-> "phone"]

Emulator(versions) == [named |-> TRUE, emulator |-> TRUE, versions |-> versions]

AnyFile == {"f0", "f1", "f2", "f3"}

BaseSuite ==
  [name |-> <<"a">>, patterns |-> <<AnyFile>>, excluded |-> <<>>, shard |-> "", numShards |-> 0,
   byGrep |-> FALSE, grep |-> NoFilter, tests |-> <<"t1", "t2", "t3">>, class |-> NoFilter,
   only |-> NoFilter, part |-> <<>>, devices |-> <<>>, virtuals |-> <<>>, browser |-> "chrome",
   platform |-> "", testingType |-> "", threshold |-> 0, timeout |-> 0, env |-> NoEnv,
   app |-> "", testApp |-> "", origin |-> 0, browserVersion |-> "", numShardsParses |-> TRUE]

BaseNpm == [registry |-> "", registries |-> <<>>, usePackageLock |-> FALSE, lockFile |-> TRUE,
            package |-> "1"]

Base(framework, suites) ==
  [framework |-> framework, suites |-> suites, select |-> <<>>, adhoc |-> <<>>,
   strayFlags |-> FALSE, nodeVersion |-> NoVersion, runnerVersion |-> "", concurrency |-> 2, timeout |-> 0, env |-> NoEnv, envFlag |-> NoEnv,
   app |-> "ref", testApp |-> "ref", otherApps |-> {}, npm |-> BaseNpm, version |-> "1", rootExists |-> TRUE,
   region |-> "us", visibility |-> "", launchOrder |-> "", retain |-> {}, retries |-> 0,
   history |-> <<>>]

\* On one real device for apps.
Suite(framework) ==
  IF framework \in Mobile THEN [BaseSuite EXCEPT !.devices = <<Phone>>] ELSE BaseSuite

\* Web suites sharded in every way, with every kind of filter.
Filters == {[byGrep |-> FALSE, grep |-> NoFilter], [byGrep |-> FALSE, grep |-> {"t2"}],
            [byGrep |-> TRUE, grep |-> {"t2"}], [byGrep |-> TRUE, grep |-> {"none"}]}

ShardedSuites(shards, counts) ==
  {[BaseSuite EXCEPT !.patterns = patterns, !.excluded = excluded, !.shard = shard,
                     !.numShards = n, !.byGrep = f.byGrep, !.grep = f.grep] :
     patterns \in {<<AnyFile>>, <<{"f2"}, {"f2", "f3"}>>, <<{"f1"}>>, <<{}>>},
     excluded \in {<<>>, <<{"f2"}>>, <<AnyFile>>},
     shard \in shards, n \in counts, f \in Filters}

Sharding(framework, shards, counts) ==
  {[Base(framework, <<s>>) EXCEPT !.concurrency = c] :
     s \in ShardedSuites(shards, counts), c \in {0, 1, 3, 4}}

WebSharding ==
  Sharding("cypress", {"", "spec", "concurrency"}, {0})
    \cup Sharding("playwright", {"", "spec", "concurrency"}, {0, 2, 3})
    \cup Sharding("testcafe", {"", "spec", "concurrency"}, {0})
    \cup Sharding("cucumber", {"", "spec", "concurrency", "scenario", "other"}, {0})
    \cup Sharding("replay", {""}, {0})

\* Apps on virtual and real devices, by test list or by number of shards.
AppSuites ==
  {[BaseSuite EXCEPT !.devices = ds, !.virtuals = vs, !.shard = shard, !.numShards = n,
                     !.tests = ts, !.class = class] :
     ds \in {<<>>, <<Phone>>, <<Phone, Phone>>},
     vs \in {<<>>, <<Emulator(0)>>, <<Emulator(2), Emulator(1)>>},
     shard \in {"", "concurrency", "testList"}, n \in {0, 1, 3},
     ts \in {<<>>, <<"t1", "t2", "t3">>}, class \in {NoFilter, {"t2"}}}

AppSharding ==
  {[Base(framework, <<s>>) EXCEPT !.concurrency = c,
                                  !.testApp = IF framework = "xctest" THEN "xctestrun" ELSE @] :
     framework \in Mobile, s \in AppSuites, c \in {1, 2, 4}}

\* Two suites, chosen by flags and ordered by history; the second may have the
\* name of a shard of the first, or its very name.
Second(framework, name) ==
  [Suite(framework) EXCEPT !.name = name, !.patterns = <<{"f3"}>>, !.class = {"t3"}]

TwoSuites ==
  {[Base(framework, <<[Suite(framework) EXCEPT !.shard = shard, !.patterns = patterns],
                      Second(framework, name)>>)
      EXCEPT !.select = select, !.launchOrder = launch, !.history = history] :
     framework \in Web \cup Mobile, shard \in {"", "spec"},
     patterns \in {<<AnyFile>>, <<{"f2"}, {"f2", "f3"}>>},
     name \in {<<"b">>, <<"a">>, <<"a", "f1">>}, select \in {<<>>, <<"b">>},
     launch \in {"", "fail rate", "other"},
     history \in {<<>>, <<<<"b">>, <<"a">>>>, <<<<"z">>, <<"a", "f2">>, <<"a">>>>}}

AdHoc ==
  {[Base(framework, <<Suite(framework)>>) EXCEPT !.adhoc = adhoc, !.strayFlags = stray] :
     framework \in Web \cup Mobile, stray \in BOOLEAN,
     adhoc \in {<<>>, <<Second("espresso", <<"b">>)>>}}

\* Passes asked for and attempts granted.
Thresholds ==
  {[Base(framework, <<[Suite(framework) EXCEPT !.threshold = t]>>) EXCEPT !.retries = r] :
     framework \in Web \cup Mobile, t \in -1..3, r \in -1..2}

\* One thing wrong at a time, or nearly so.
Oddities ==
  UNION {LET p == Base(fwk, <<Suite(fwk)>>)
             s == Suite(fwk)
         IN  {[p EXCEPT !.region = "nowhere"], [p EXCEPT !.region = "us-east-4"],
              [p EXCEPT !.visibility = "team"], [p EXCEPT !.visibility = "none"],
              [p EXCEPT !.version = ""], [p EXCEPT !.version = "v1"],
              [p EXCEPT !.rootExists = FALSE], [p EXCEPT !.retain = {"not a zip"}],
              [p EXCEPT !.retain = {"relative to zip"}], [p EXCEPT !.timeout = -1],
              [p EXCEPT !.suites = <<>>],
              [p EXCEPT !.app = ""], [p EXCEPT !.testApp = ""], [p EXCEPT !.app = "zip"],
              [p EXCEPT !.otherApps = {"apk"}], [p EXCEPT !.otherApps = {"apk", "zip"}],
              [p EXCEPT !.suites = <<[s EXCEPT !.numShardsParses = FALSE]>>],
              [p EXCEPT !.suites = <<[s EXCEPT !.app = "ipa", !.testApp = "ipa"]>>],
              [p EXCEPT !.suites = <<[s EXCEPT !.browser = ""]>>],
              [p EXCEPT !.suites = <<[s EXCEPT !.browser = "safari"]>>],
              [p EXCEPT !.suites = <<[s EXCEPT !.testingType = "component"]>>],
              [p EXCEPT !.suites = <<[s EXCEPT !.name = <<>>]>>],
              [p EXCEPT !.suites = <<[s EXCEPT !.name = <<"$">>]>>],
              [p EXCEPT !.suites = <<[s EXCEPT !.patterns = <<>>]>>],
              [p EXCEPT !.suites = <<[s EXCEPT !.timeout = 5]>>],
              [p EXCEPT !.suites = <<[s EXCEPT !.virtuals = <<Emulator(2)>>, !.browser = ""]>>],
              [p EXCEPT !.suites = <<[s EXCEPT !.devices =
                                        <<[named |-> FALSE, type |-> "watch"]>>]>>]} :
           fwk \in Web \cup Mobile}
    \cup {[Base(fwk, <<Suite(fwk)>>) EXCEPT !.npm = npm, !.version = version] :
            fwk \in Web, version \in {"1", "v1", "2", "package.json"},
            npm \in {[BaseNpm EXCEPT !.usePackageLock = TRUE, !.package = package,
                                     !.lockFile = lock] :
                       package \in {"1", "range", "absent"}, lock \in BOOLEAN}
                    \cup {[BaseNpm EXCEPT !.registry = r, !.registries = rs] :
                            r \in {"", "url"},
                            rs \in {<<>>, <<[url |-> "url", scope |-> ""]>>,
                                    <<[url |-> "", scope |-> "@s"]>>}}}

\* A variable set at each level, or not at all.
EnvProjects ==
  {[Base(framework, <<[Suite(framework) EXCEPT !.env = own, !.shard = shard]>>)
      EXCEPT !.env = root, !.envFlag = flag] :
     framework \in {"cypress", "playwright", "testcafe", "cucumber", "xcuitest"},
     shard \in {"", "concurrency"},
     own \in {NoEnv, [x |-> "suite"], [CYPRESS_x |-> "prefixed"]},
     root \in {NoEnv, [x |-> "root"]},
     flag \in {NoEnv, [x |-> "flag"]}}

\* Releases in no order of age, of which only the first brings its own Node.js;
\* the third knows no Windows 10.
Offer(version, platforms, node) ==
  [version |-> version, platforms |-> platforms, node |-> node, runner |-> version,
   browsers |-> [chrome |-> version]]

McReleases ==
  <<Offer("2", {"Windows 10", "Windows 11"}, FALSE),
    Offer("1", {"Windows 10", "Windows 11", "macOS 12", "macOS 11.00"}, TRUE),
    Offer("3", {"Windows 11"}, TRUE)>>

McOffered == [cypress |-> McReleases, playwright |-> McReleases, testcafe |-> McReleases,
              replay |-> McReleases]

McRank == [v \in {"1", "2", "3"} |-> CASE v = "1" -> 1 [] v = "2" -> 2 [] OTHER -> 3]

McSatisfies == [x \in {"1", "range", "4"} |-> CASE x = "1" -> {"1"}
                                                [] x = "range" -> {"2", "3"}
                                                [] OTHER -> {"4"}]

Node(version, aliases, default, removed) ==
  [version |-> version, aliases |-> aliases, default |-> default, removed |-> removed]

McRuntimes == <<Node(<<22, 1, 0>>, {"lts"}, FALSE, FALSE), Node(<<20, 2, 0>>, {"iron"}, TRUE, FALSE),
                Node(<<20, 1, 0>>, {}, FALSE, FALSE), Node(<<18, 1, 0>>, {"old"}, FALSE, TRUE)>>

\* Asked for by a name, by package.json or by neither; and any Node.js, with a
\* release that brings one and with one that does not.
VersionProjects ==
  {[Base(framework, <<[Suite(framework) EXCEPT !.platform = platform]>>)
      EXCEPT !.version = version, !.npm.package = package] :
     framework \in Web, platform \in {"", "Windows 11", "Linux"},
     version \in {"1", "latest", "3", "4", "package.json"},
     package \in {"1", "range", "4", "absent"}}
  \cup
  {[Base(framework, <<Suite(framework)>>)
      EXCEPT !.version = version, !.nodeVersion = node, !.runnerVersion = "mine"] :
     framework \in Web, version \in {"1", "2"},
     node \in {[alias |-> a, numbers |-> <<>>] : a \in {"", "lts", "old", "none"}}
             \cup {[alias |-> "", numbers |-> n] :
                     n \in {<<20>>, <<20, 1>>, <<18, 1, 0>>, <<20, 1, 1>>}}}

McProjects ==
  VersionProjects \cup WebSharding \cup AppSharding \cup TwoSuites \cup AdHoc \cup Thresholds \cup Oddities
    \cup EnvProjects
=============================================================================
