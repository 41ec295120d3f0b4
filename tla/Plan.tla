-------------------------------- MODULE Plan --------------------------------
(***************************************************************************)
(* From a configuration to jobs: what runX of internal/cmd/run does with a *)
(* project before the runner starts (flags, SetDefaults, Validate, shards) *)
(* and what runSuites submits to the pool (launch order, devices, shards), *)
(* for every framework that uses the pool; for the web frameworks also the *)
(* versions their runner settles on in between (module Versions).          *)
(*                                                                         *)
(* A pattern is the set of files it matches and a name the sequence of the *)
(* parts it is put together from, so <<"a", f>> is both the shard "a - f"  *)
(* and a suite a user gave that name.  A test is a pair of a file and a    *)
(* name.  Suites of all frameworks have one record; a field that a         *)
(* framework does not have is not looked at.                               *)
(*                                                                         *)
(* What the tool in the cloud makes of a job is external: it runs the      *)
(* tests of the job's files that pass the job's filters.                   *)
(***************************************************************************)
EXTENDS Integers, SequencesExt, Versions

CONSTANTS
  Projects,   \* the configurations, each with the framework it is for
  Walk,       \* the files in the order FindFiles walks them
  Ignored,    \* files .sauceignore names
  Recordings, \* files whose name ends in .json
  TestsIn,    \* file -> the names of its tests
  AsRegex,    \* file -> the files its path matches when read as a regexp
  AsGlob,     \* file -> the files its path matches when read as a glob
  NameRegex,  \* test name -> the names its name matches, read as a regexp
  Slot        \* test -> its number, by which a tool divides tests into shards

Files == ToSet(Walk)

Tests == {t \in Files \X UNION {TestsIn[f] : f \in Files} : t[2] \in TestsIn[t[1]]}

Web == {"cypress", "playwright", "testcafe", "cucumber", "replay"}
Mobile == {"espresso", "xcuitest", "xctest"}

IsSeq(s) == s \in Seq(ToSet(s))

ASSUME PlanAssumption ==
  /\ IsSeq(Walk) /\ IsInjective(Walk)
  /\ Ignored \subseteq Files /\ Recordings \subseteq Files
  /\ \A f \in Files : IsFiniteSet(TestsIn[f])
  /\ \A t \in Tests : Slot[t] \in Nat
  /\ \A f \in Web : Kind(f) \in DOMAIN Offered

NoFilter == {"*"}

\* A suite as it is read: neither one scenario nor one part of a suite.
SuiteFields ==
  {"name", "patterns", "excluded", "shard", "numShards", "byGrep", "grep", "tests", "class",
   "only", "part", "devices", "virtuals", "browser", "platform", "testingType", "threshold",
   "timeout", "env", "app", "testApp", "origin", "browserVersion", "numShardsParses"}

IsSuite(s) ==
  /\ DOMAIN s = SuiteFields
  /\ IsSeq(s.patterns) /\ IsSeq(s.excluded) /\ IsSeq(s.tests)
  /\ IsSeq(s.devices) /\ IsSeq(s.virtuals) /\ \A v \in ToSet(s.virtuals) : v.versions \in Nat
  /\ s.numShards \in Int /\ s.threshold \in Int
  /\ s.only = NoFilter /\ s.part = <<>>

ProjectFields ==
  {"framework", "suites", "select", "adhoc", "strayFlags", "nodeVersion", "runnerVersion",
   "concurrency", "timeout", "env", "envFlag", "app", "testApp", "otherApps", "npm", "version",
   "rootExists", "region", "visibility", "launchOrder", "retain", "retries", "history"}

ASSUME ProjectsAssumption ==
  \A p \in Projects :
    /\ DOMAIN p = ProjectFields /\ p.framework \in Web \cup Mobile
    /\ DOMAIN p.npm = {"registry", "registries", "usePackageLock", "lockFile", "package"}
    /\ p.retries \in Int /\ p.concurrency \in Int
    /\ IsSeq(p.history) /\ IsInjective(p.history)
    /\ IsSeq(p.suites) /\ IsSeq(p.adhoc)
    /\ \A s \in ToSet(p.suites) \cup ToSet(p.adhoc) : IsSuite(s)

VARIABLES
  given,     \* the project as it was read
  project,   \* the project as it is now
  stage,     \* how far it has come
  order,     \* the suites in the order they are submitted
  jobs,      \* the job.StartOptions sent to the pool
  expected   \* what collectResults is told to wait for

vars == <<given, project, stage, order, jobs, expected>>

fw == given.framework

-----------------------------------------------------------------------------
(* Files                                                                   *)

\* A file is listed once for each pattern that matches it.
FindFiles(patterns) ==
  LET Hits(f) == Where(patterns, LAMBDA p : f \in p)
  IN  FlattenSeq([i \in DOMAIN Walk |-> [h \in DOMAIN Hits(Walk[i]) |-> Walk[i]]])

ExcludeFiles(files, excluded) == Where(files, LAMBDA f : f \notin ToSet(excluded))

ExcludeSauceIgnorePatterns(files) == Where(files, LAMBDA f : f \notin Ignored)

\* The files with a test that the grep, or tag, expression of a suite selects.
MatchFiles(files, grep) == Where(files, LAMBDA f : TestsIn[f] \cap grep # {})

\* Mutation: what does not fill the buckets evenly is forgotten.
BinPack_Even(items, concurrency) ==
  LET n == IF concurrency > Len(items) THEN Len(items) ELSE concurrency
  IN  [b \in 1..n |-> [i \in 1..(Len(items) \div n) |-> items[(i - 1) * n + b]]]

BinPack(items, concurrency) ==
  LET n == IF concurrency > Len(items) THEN Len(items) ELSE concurrency
  IN  IF concurrency = 1
      THEN <<items>>
      ELSE [b \in 1..n |-> [k \in 1..((Len(items) - b) \div n + 1) |-> items[(k - 1) * n + b]]]

-----------------------------------------------------------------------------
(* Flags                                                                   *)

Named(p, name) == Where(p.suites, LAMBDA s : s.name = name)

\* The first suite of that name.
FilterSuites(p, name) == <<Head(Named(p, name))>>

\* The ad hoc suite of the flags replaces what the file has; for apps its
\* filters and devices make no sense without a name.
FlagsAreValid ==
  /\ project.select # <<>> => Named(project, project.select) # <<>>
  /\ fw \in Mobile /\ project.adhoc = <<>> => ~project.strayFlags

\* What the run is asked for, the suites numbered.
Configured(p) ==
  LET chosen == IF p.select = <<>> THEN p.suites ELSE FilterSuites(p, p.select)
      suites == IF p.adhoc # <<>> THEN p.adhoc ELSE chosen
  IN  [i \in DOMAIN suites |-> [suites[i] EXCEPT !.origin = i]]

WithFlags == [project EXCEPT !.suites = Configured(project)]

-----------------------------------------------------------------------------
(* Defaults                                                                *)

AtLeastOne(n) == IF n < 1 THEN 1 ELSE n

Override(env, by) ==
  [k \in DOMAIN env \cup DOMAIN by |-> IF k \in DOMAIN by THEN by[k] ELSE env[k]]

\* Cypress is told CYPRESS_x as x.
Prefixed == [x |-> "CYPRESS_x"]

Unprefix(env) ==
  Override(env, [k \in {k \in DOMAIN Prefixed : Prefixed[k] \in DOMAIN env} |->
                   env[Prefixed[k]]])

\* So it is for playwright, against the comment above it.
RootOverFlags(p, s) == Override(Override(s.env, p.envFlag), p.env)

FlagsOverRoot(p, s) == Override(Override(s.env, p.env), p.envFlag)

OrElse(value, default) == IF value = "" THEN default ELSE value

DefaultTimeout(p, s) ==
  IF s.timeout > 0 THEN s.timeout ELSE IF p.timeout < 0 THEN 0 ELSE p.timeout

CypressDefaults(p, s) ==
  [s EXCEPT !.platform = OrElse(@, "Windows 10"), !.timeout = DefaultTimeout(p, s),
            !.env = Unprefix(FlagsOverRoot(p, s)), !.testingType = OrElse(@, "e2e"),
            !.threshold = AtLeastOne(@)]

PlaywrightDefaults(p, s) ==
  [s EXCEPT !.platform = OrElse(@, "Windows 10"), !.timeout = DefaultTimeout(p, s),
            !.env = RootOverFlags(p, s), !.threshold = AtLeastOne(@)]

TestcafeDefaults(p, s) ==
  LET platform == IF s.browser = "safari" THEN "macOS 11.00" ELSE "Windows 10"
  IN  [s EXCEPT !.platform = IF s.virtuals = <<>> THEN OrElse(@, platform) ELSE @,
                !.timeout = DefaultTimeout(p, s),
                !.env = FlagsOverRoot(p, s), !.threshold = AtLeastOne(@)]

\* No timeout of the defaults section here.
CucumberDefaults(p, s) ==
  LET platform == IF s.browser = "safari" THEN "macOS 12" ELSE "Windows 11"
  IN  [s EXCEPT !.platform = OrElse(@, platform), !.browser = OrElse(@, "chromium"),
                !.env = FlagsOverRoot(p, s), !.threshold = AtLeastOne(@)]

\* No threshold and no environment here.
ReplayDefaults(p, s) ==
  [s EXCEPT !.platform = OrElse(@, "Windows 10"), !.timeout = DefaultTimeout(p, s),
            !.browser = IF @ \in {"", "chrome"} THEN "googlechrome" ELSE @]

Upper(deviceType) == IF deviceType = "phone" THEN "PHONE" ELSE deviceType

DevicesDefaults(s) ==
  [i \in DOMAIN s.devices |-> [s.devices[i] EXCEPT !.type = Upper(@)]]

EspressoDefaults(p, s) ==
  [s EXCEPT !.devices = DevicesDefaults(s), !.timeout = DefaultTimeout(p, s),
            !.testApp = OrElse(@, p.testApp), !.threshold = AtLeastOne(@)]

XcuitestDefaults(p, s) ==
  [s EXCEPT !.devices = DevicesDefaults(s), !.timeout = DefaultTimeout(p, s),
            !.app = OrElse(@, p.app), !.testApp = OrElse(@, p.testApp),
            !.env = FlagsOverRoot(p, s), !.threshold = AtLeastOne(@)]

\* The same, with a test run file for the test app.
XctestDefaults(p, s) ==
  [s EXCEPT !.devices = DevicesDefaults(s), !.timeout = DefaultTimeout(p, s),
            !.app = OrElse(@, p.app), !.testApp = OrElse(@, p.testApp),
            !.env = FlagsOverRoot(p, s), !.threshold = AtLeastOne(@)]

SuiteDefaults(p, s) ==
  CASE fw = "cypress"    -> CypressDefaults(p, s)
    [] fw = "playwright" -> PlaywrightDefaults(p, s)
    [] fw = "testcafe"   -> TestcafeDefaults(p, s)
    [] fw = "cucumber"   -> CucumberDefaults(p, s)
    [] fw = "replay"     -> ReplayDefaults(p, s)
    [] fw = "espresso"   -> EspressoDefaults(p, s)
    [] fw = "xcuitest"   -> XcuitestDefaults(p, s)
    [] fw = "xctest"     -> XctestDefaults(p, s)

\* The deprecated npm.registry becomes one more registry without a scope.
NpmDefaults(p) ==
  IF p.npm.registry = "" THEN p.npm
  ELSE [p.npm EXCEPT !.registries = Append(@, [url |-> p.npm.registry, scope |-> ""])]

WithDefaults ==
  [project EXCEPT !.concurrency = IF @ < 1 THEN 2 ELSE @,
                  !.npm = IF fw \in Web \ {"replay"} THEN NpmDefaults(project) ELSE @,
                  !.suites = [i \in DOMAIN @ |-> SuiteDefaults(project, @[i])]]

-----------------------------------------------------------------------------
(* Validation                                                              *)

\* The version without its leading v.
Standardize(version) == IF version = "v1" THEN "1" ELSE version

RegionIsKnown(p) == p.region # "nowhere"

VisibilityIsValid(p) == p.visibility \in {"", "team"}

LaunchOrderIsValid(p) == p.launchOrder \in {"", "fail rate"}

RegistriesAreValid(p) ==
  LET registries == ToSet(p.npm.registries)
      unscoped == Where(p.npm.registries, LAMBDA r : r.scope = "")
  IN  (\A r \in registries : r.url # "") /\ Len(unscoped) <= 1

ArtifactsAreValid(p) == p.retain \subseteq {"relative to zip"}

\* What package.json says of the framework is "absent", "range" or a version.
PackageIsValid(npm, version) ==
  npm.usePackageLock =>
    /\ npm.lockFile
    /\ npm.package \notin {"absent", "range"}
    /\ version \in {"package.json", npm.package}

\* Mutation: the bound is off by one.
ThresholdIsValid_OffByOne(p, s) == p.retries >= s.threshold - 2

ThresholdIsValid(p, s) == p.retries >= s.threshold - 1

NamesAreDistinct(suites) == \A i, j \in DOMAIN suites : suites[i].name = suites[j].name => i = j

NamesAreValid(suites) ==
  \A s \in ToSet(suites) : s.name # <<>> /\ "$" \notin ToSet(s.name)

CypressIsValid(p) ==
  /\ Standardize(p.version) # "" /\ p.rootExists
  /\ RegionIsKnown(p) /\ VisibilityIsValid(p) /\ RegistriesAreValid(p)
  /\ ArtifactsAreValid(p) /\ LaunchOrderIsValid(p)
  /\ PackageIsValid(p.npm, Standardize(p.version))
  /\ p.suites # <<>> /\ NamesAreDistinct(p.suites) /\ NamesAreValid(p.suites)
  /\ \A s \in ToSet(p.suites) :
       /\ s.browser # "" /\ s.platform # "" /\ s.patterns # <<>>
       /\ s.testingType \in {"e2e", "component"}
       /\ ThresholdIsValid(p, s)

SupportedBrowsers == {"chromium", "firefox", "webkit", "chrome"}

PlaywrightIsValid(p) ==
  /\ Standardize(p.version) # "" /\ p.rootExists
  /\ \A s \in ToSet(p.suites) : s.browser \in SupportedBrowsers
  /\ RegionIsKnown(p) /\ VisibilityIsValid(p) /\ RegistriesAreValid(p)
  /\ ArtifactsAreValid(p) /\ LaunchOrderIsValid(p)
  /\ PackageIsValid(p.npm, Standardize(p.version))
  /\ NamesAreDistinct(p.suites) /\ NamesAreValid(p.suites)
  /\ \A s \in ToSet(p.suites) : ThresholdIsValid(p, s)

\* The version is compared with package.json before its v is cut off.
TestcafeIsValid(p) ==
  /\ RegionIsKnown(p) /\ VisibilityIsValid(p) /\ RegistriesAreValid(p)
  /\ ArtifactsAreValid(p) /\ LaunchOrderIsValid(p)
  /\ PackageIsValid(p.npm, p.version) /\ Standardize(p.version) # ""
  /\ p.suites # <<>> /\ NamesAreDistinct(p.suites) /\ NamesAreValid(p.suites)
  /\ \A s \in ToSet(p.suites) :
       /\ s.devices = <<>>
       /\ s.excluded # <<>> => FindFiles(s.patterns) # <<>>
       /\ s.virtuals = <<>> => s.browser # ""
       /\ ThresholdIsValid(p, s)

\* Neither names nor the number of suites are looked at.
CucumberIsValid(p) ==
  /\ RegionIsKnown(p) /\ VisibilityIsValid(p) /\ RegistriesAreValid(p)
  /\ ArtifactsAreValid(p) /\ LaunchOrderIsValid(p)
  /\ PackageIsValid(p.npm, p.version) /\ Standardize(p.version) # ""
  /\ \A s \in ToSet(p.suites) :
       FindFiles(s.patterns) # <<>> /\ ThresholdIsValid(p, s)

ReplayIsValid(p) ==
  /\ RegionIsKnown(p) /\ VisibilityIsValid(p) /\ LaunchOrderIsValid(p)
  /\ p.suites # <<>> /\ NamesAreDistinct(p.suites)
  /\ \A s \in ToSet(p.suites) :
       s.name # <<>> /\ s.browser = "googlechrome" /\ ThresholdIsValid(p, s)

\* A reference to the storage or a URL is taken as it is.
AppIsValid(app, extensions) == app \in extensions \cup {"ref"}

DeviceIsValid(d) == d.named /\ d.type \in {"", "ANY", "PHONE", "TABLET"}

EspressoIsValid(p) ==
  /\ RegionIsKnown(p) /\ VisibilityIsValid(p) /\ LaunchOrderIsValid(p)
  /\ \A app \in {p.app, p.testApp} \cup p.otherApps : AppIsValid(app, {"apk"})
  /\ p.suites # <<>>
  /\ \A s \in ToSet(p.suites) :
       /\ s.devices # <<>> \/ s.virtuals # <<>>
       /\ \A d \in ToSet(s.devices) : DeviceIsValid(d)
       /\ \A v \in ToSet(s.virtuals) : v.named /\ v.emulator /\ v.versions > 0
       /\ p.region = "us-east-4" => s.virtuals = <<>>
       /\ ThresholdIsValid(p, s) /\ s.numShardsParses

\* Of xcuitest, whose tests come in the format of the app, and xctest, whose
\* tests come as a test run.
AppleIsValid(p, asTestRun) ==
  /\ RegionIsKnown(p) /\ LaunchOrderIsValid(p)
  /\ p.suites # <<>>
  /\ \A s \in ToSet(p.suites) :
       LET extensions == {"app"} \cup (IF s.devices # <<>> THEN {"ipa"} ELSE {"zip"})
       IN  /\ (s.devices = <<>>) # (s.virtuals = <<>>)
           /\ AppIsValid(s.app, extensions)
           /\ AppIsValid(s.testApp, IF asTestRun THEN {"xctestrun"} ELSE extensions)
           /\ \A d \in ToSet(s.devices) : DeviceIsValid(d)
           /\ ThresholdIsValid(p, s)

XcuitestIsValid(p) == AppleIsValid(p, FALSE)

XctestIsValid(p) == AppleIsValid(p, TRUE)

\* Four frameworks and emulators are not offered in us-east-4.
IsValid(p) ==
  CASE fw = "cypress"    -> CypressIsValid(p) /\ p.region # "us-east-4"
    [] fw = "playwright" -> PlaywrightIsValid(p) /\ p.region # "us-east-4"
    [] fw = "testcafe"   -> TestcafeIsValid(p) /\ p.region # "us-east-4"
    [] fw = "cucumber"   -> CucumberIsValid(p)
    [] fw = "replay"     -> ReplayIsValid(p) /\ p.region # "us-east-4"
    [] fw = "espresso"   -> EspressoIsValid(p)
    [] fw = "xcuitest"   -> XcuitestIsValid(p)
    [] fw = "xctest"     -> XctestIsValid(p)

\* A path is handed over as it is, for a pattern: "[id].spec.ts" matches other
\* files than its own.  A recording is taken by its path.
AsPattern(f) ==
  CASE fw = "playwright" -> AsRegex[f]
    [] fw = "replay"     -> {f}
    [] OTHER             -> AsGlob[f]

AsPatterns(files) == [i \in DOMAIN files |-> AsPattern(files[i])]

\* Validation of testcafe and cucumber also replaces the patterns of a suite by
\* the files it found.
Resolved(s) ==
  IF fw = "cucumber" \/ (fw = "testcafe" /\ s.excluded # <<>>)
  THEN [s EXCEPT !.patterns =
          AsPatterns(ExcludeFiles(FindFiles(@), FindFiles(s.excluded)))]
  ELSE s

Validated ==
  [project EXCEPT !.version = Standardize(@),
                  !.suites = [i \in DOMAIN @ |-> Resolved(@[i])]]

-----------------------------------------------------------------------------
(* Sharding                                                                *)

CypressFiles(s) ==
  LET files == ExcludeSauceIgnorePatterns(FindFiles(s.patterns))
  IN  IF s.byGrep /\ s.grep # NoFilter THEN MatchFiles(files, s.grep) ELSE files

PlaywrightFiles(s) ==
  LET files == ExcludeFiles(ExcludeSauceIgnorePatterns(FindFiles(s.patterns)),
                            FindFiles(s.excluded))
  IN  IF s.byGrep /\ s.grep # NoFilter THEN MatchFiles(files, s.grep) ELSE files

CucumberFiles(s) ==
  LET files == FindFiles(s.patterns)
  IN  IF s.byGrep /\ s.grep # NoFilter THEN MatchFiles(files, s.grep) ELSE files

TestcafeFiles(s) ==
  ExcludeFiles(ExcludeSauceIgnorePatterns(FindFiles(s.patterns)), FindFiles(s.excluded))

\* One suite per file.
BySpec(s, files) ==
  [i \in DOMAIN files |->
     [s EXCEPT !.name = Append(@, files[i]), !.patterns = <<AsPattern(files[i])>>]]

\* One suite per worker.
ByConcurrency(s, groups) ==
  [i \in DOMAIN groups |->
     [s EXCEPT !.name = @ \o <<i, Len(groups)>>, !.patterns = AsPatterns(groups[i])]]

\* One suite per scenario, whatever files it is in; the order is any.  The name
\* is put into ^name$ as it is: "Add (two)" is the scenario "Add two" there.
ByScenario(s, files) ==
  LET names == SetToSeq(UNION {TestsIn[f] : f \in ToSet(files)})
  IN  [i \in DOMAIN names |-> [s EXCEPT !.name = Append(@, names[i]), !.only = NameRegex[names[i]]]]

\* Replicas that tell the tool which part of the tests to run.
ByNumShards(s) ==
  IF s.numShards <= 1 THEN <<s>>
  ELSE [i \in 1..s.numShards |->
          [s EXCEPT !.name = @ \o <<"shard", i, s.numShards>>,
                    !.part = <<i - 1, s.numShards>>]]

\* By the lines of the test list file, for apps.
ByTestList(s, groups) ==
  [i \in DOMAIN groups |->
     [s EXCEPT !.name = IF s.shard = "testList" THEN @ \o groups[i] ELSE @ \o <<i, Len(groups)>>,
               !.class = ToSet(groups[i])]]

CypressShards(s) ==
  LET files == ExcludeFiles(CypressFiles(s), FindFiles(s.excluded))
  IN  CASE s.shard = "spec" -> BySpec(s, files)
        [] s.shard = "concurrency" -> ByConcurrency(s, BinPack(files, project.concurrency))
        [] OTHER -> <<s>>

PlaywrightShards(s) ==
  CASE s.shard = "spec" -> BySpec(s, PlaywrightFiles(s))
    [] s.shard = "concurrency" ->
         ByConcurrency(s, BinPack(PlaywrightFiles(s), project.concurrency))
    [] OTHER -> ByNumShards(s)

TestcafeShards(s) ==
  CASE s.shard = "spec" -> BySpec(s, TestcafeFiles(s))
    [] s.shard = "concurrency" ->
         ByConcurrency(s, BinPack(TestcafeFiles(s), project.concurrency))
    [] OTHER -> <<s>>

\* A suite with any other kind of shard is lost.
CucumberShards(s) ==
  LET files == ExcludeFiles(CucumberFiles(s), FindFiles(s.excluded))
  IN  CASE s.shard = "" -> <<s>>
        [] s.shard = "spec" -> BySpec(s, files)
        [] s.shard = "concurrency" -> ByConcurrency(s, BinPack(files, project.concurrency))
        [] s.shard = "scenario" -> ByScenario(s, files)
        [] OTHER -> <<>>

\* Always one suite per recording.
ReplayShards(s) == BySpec(s, Where(FindFiles(s.patterns), LAMBDA f : f \in Recordings))

XcuitestShards(s) ==
  CASE s.shard = "concurrency" -> ByTestList(s, BinPack(s.tests, project.concurrency))
    [] s.shard = "testList" -> ByTestList(s, BinPack(s.tests, Len(s.tests)))
    [] OTHER -> <<s>>

\* Espresso's shards are made when its jobs are.
Shards(s) ==
  CASE fw = "cypress"    -> CypressShards(s)
    [] fw = "playwright" -> PlaywrightShards(s)
    [] fw = "testcafe"   -> TestcafeShards(s)
    [] fw = "cucumber"   -> CucumberShards(s)
    [] fw = "replay"     -> ReplayShards(s)
    [] fw = "espresso"   -> <<s>>
    [] fw \in {"xcuitest", "xctest"} -> XcuitestShards(s)

\* The suite names no file, or its expression no test.
ShardFails(s) ==
  LET sharded == s.shard \in {"spec", "concurrency"}
      filtered == s.byGrep /\ s.grep # NoFilter
  IN  CASE fw = "cypress"    -> sharded /\ CypressFiles(s) = <<>>
        [] fw = "playwright" ->
             \/ s.numShards >= 2 /\ s.shard # ""
             \/ sharded /\ FindFiles(s.patterns) = <<>>
             \/ sharded /\ filtered /\ PlaywrightFiles(s) = <<>>
        [] fw = "testcafe"   -> sharded /\ FindFiles(s.patterns) = <<>>
        [] fw = "cucumber"   -> s.shard # "" /\ FindFiles(s.patterns) = <<>>
        [] fw = "replay"     -> FindFiles(s.patterns) = <<>>
        [] fw = "espresso"   -> FALSE
        [] fw \in {"xcuitest", "xctest"} ->
             s.shard \in {"concurrency", "testList"} /\ s.tests = <<>>

Sharded ==
  [project EXCEPT !.suites = FlattenSeq([i \in DOMAIN @ |-> Shards(@[i])])]

ShardingSucceeds ==
  /\ \A s \in ToSet(project.suites) : ~ShardFails(s)
  /\ fw \in {"cypress", "playwright", "replay"} => Sharded.suites # <<>>

-----------------------------------------------------------------------------
(* Launch order, and what runSuites submits                                *)

\* Suites the history knows come first, in its order, the last of each name;
\* then all others.
SortByHistory(suites, history) ==
  LET known == Where(history, LAMBDA n : \E s \in ToSet(suites) : s.name = n)
      LastNamed(n) == suites[CHOOSE i \in DOMAIN suites :
                               /\ suites[i].name = n
                               /\ \A j \in DOMAIN suites : j > i => suites[j].name # n]
  IN  [i \in DOMAIN known |-> LastNamed(known[i])]
        \o Where(suites, LAMBDA s : s.name \notin ToSet(known))

\* A virtual device runs the suite once for each of its platform versions.
VirtualDevices(s) ==
  FlattenSeq([i \in DOMAIN s.virtuals |->
                [v \in 1..s.virtuals[i].versions |-> <<"virtual", i, v>>]])

EnumerateDevices(s) ==
  VirtualDevices(s) \o [i \in DOMAIN s.devices |-> <<"real", i, 0>>]

Job(s, device) == [suite |-> s, device |-> device]

Browser == <<"browser", 0, 0>>

EspressoParts(s) ==
  IF s.numShards > 0 THEN [i \in 1..s.numShards |-> [s EXCEPT !.part = <<i - 1, s.numShards>>]]
                     ELSE <<s>>

OnDevices(s) == LET ds == EnumerateDevices(s) IN [i \in DOMAIN ds |-> Job(s, ds[i])]

TestcafeJobs(s) ==
  LET ds == VirtualDevices(s)
  IN  IF s.virtuals # <<>> THEN [i \in DOMAIN ds |-> Job(s, ds[i])] ELSE <<Job(s, Browser)>>

EspressoJobs(s) ==
  LET parts == EspressoParts(s) IN FlattenSeq([i \in DOMAIN parts |-> OnDevices(parts[i])])

JobsOf(s) ==
  CASE fw \in {"cypress", "playwright", "cucumber", "replay"} -> <<Job(s, Browser)>>
    [] fw = "testcafe" -> TestcafeJobs(s)
    [] fw = "espresso" -> EspressoJobs(s)
    [] fw \in {"xcuitest", "xctest"} -> OnDevices(s)

JobsOfAll(suites) == FlattenSeq([i \in DOMAIN suites |-> JobsOf(suites[i])])

\* Mutation: suites are counted where jobs are awaited.
JobsCount_Suites == Len(project.suites)

\* Suites are counted, or the jobs of the suites as configured; only apps count
\* what they submit.
JobsCount ==
  CASE fw \in {"cypress", "playwright", "cucumber", "replay"} -> Len(project.suites)
    [] fw = "testcafe" -> Len(JobsOfAll(project.suites))
    [] fw \in Mobile   -> Len(JobsOfAll(order))

-----------------------------------------------------------------------------
(* The stages                                                              *)

Init ==
  /\ given \in Projects
  /\ project = given
  /\ stage = "read"
  /\ order = <<>>
  /\ jobs = <<>>
  /\ expected = 0

Advance(from, to, accepted, result) ==
  /\ stage = from
  /\ stage' = IF accepted THEN to ELSE "rejected"
  /\ project' = IF accepted THEN result ELSE project
  /\ UNCHANGED <<given, order, jobs, expected>>

ApplyFlags == Advance("read", "flags", FlagsAreValid, WithFlags)

SetDefaults == Advance("flags", "defaults", TRUE, WithDefaults)

Validate == Advance("defaults", "validated", IsValid(project), Validated)

ShardSuites == Advance("validated", "sharded", ShardingSucceeds, Sharded)

Found == Search(fw, project.version, project.npm.package)

\* The release in use.
Release == CHOOSE m \in Found : TRUE

\* Replay stays on what is the latest when its jobs start.
WithVersions ==
  [project EXCEPT !.version = IF fw = "replay" THEN @ ELSE Release.version,
                  !.runnerVersion = OrElse(@, Release.runner),
                  !.suites = [i \in DOMAIN @ |->
                                IF fw = "playwright" THEN WithBrowser(Release, @[i]) ELSE @[i]]]

FindFramework ==
  /\ fw \in Web
  /\ Advance("sharded", IF fw = "replay" THEN "runnable" ELSE "versioned",
             Found # {} /\ PlatformsAreOffered(Release, project.suites), WithVersions)

\* A release that brings its own Node.js is sent no version of it.
SetNodeRuntime ==
  LET found == NodeRuntime(project.nodeVersion)
      node == CASE ~Release.node -> NoVersion
                [] Release.node  -> [alias |-> "", numbers |-> (CHOOSE r \in found : TRUE).version]
  IN  Advance("versioned", "runnable", ~Release.node \/ found # {},
              [project EXCEPT !.nodeVersion = node])

\* A request to the test composer fails; none is made for the Node.js of a
\* release that brings its own.
TestComposerFails ==
  /\ \/ stage = "sharded" /\ fw \in Web
     \/ stage = "versioned" /\ Release.node
  /\ stage' = "rejected"
  /\ UNCHANGED <<given, project, order, jobs, expected>>

\* The history may not be had; the run goes on without.
Order ==
  /\ stage = IF fw \in Web THEN "runnable" ELSE "sharded"
  /\ \/ order' = project.suites
     \/ /\ project.launchOrder # ""
        /\ order' = SortByHistory(project.suites, project.history)
  /\ stage' = "ordered"
  /\ UNCHANGED <<given, project, jobs, expected>>

Submit ==
  /\ stage = "ordered"
  /\ jobs' = JobsOfAll(order)
  /\ expected' = JobsCount
  /\ stage' = "submitted"
  /\ UNCHANGED <<given, project, order>>

Next ==
  \/ ApplyFlags \/ SetDefaults \/ Validate \/ ShardSuites
  \/ FindFramework \/ SetNodeRuntime \/ TestComposerFails
  \/ Order \/ Submit

Spec == Init /\ [][Next]_vars

-----------------------------------------------------------------------------
(* What the jobs run                                                       *)

\* A web job is sent the project and the name of its suite, and looks it up.
Executed(job) ==
  IF fw \in Mobile THEN job.suite
  ELSE Where(project.suites, LAMBDA s : s.name = job.suite.name)[1]

Passes(name, filter) == filter = NoFilter \/ name \in filter

\* Files outside the upload are not there to run; a recording is always there.
InFiles(s, t) ==
  /\ \E p \in ToSet(s.patterns) : t[1] \in p
  /\ fw = "replay" => t[1] \in Recordings
  /\ fw # "replay" => /\ t[1] \notin Ignored
                      /\ \A p \in ToSet(s.excluded) : t[1] \notin p

InPart(s, t) == s.part # <<>> => Slot[t] % s.part[2] = s.part[1]

\* The tests of an app are the names in its test list file.
Runs(s) ==
  {t \in Tests : /\ fw \notin Mobile => InFiles(s, t) /\ Passes(t[2], s.grep)
                 /\ Passes(t[2], s.only) /\ Passes(t[2], s.class) /\ InPart(s, t)}

Asked(s) ==
  IF fw \in {"xcuitest", "xctest"} /\ s.shard # ""
  THEN {t \in Tests : t[2] \in ToSet(s.tests)}
  ELSE Runs(s)

\* Where saucectl puts the paths of files in the place of a suite's patterns.
PathsArePatterns(s) ==
  \/ fw \in Web /\ s.shard \in {"spec", "concurrency"}
  \/ fw = "cucumber" \/ (fw = "testcafe" /\ s.excluded # <<>>)

\* Where a path or a name is read as a pattern, it matches itself.
MatchesItself(s, t) ==
  /\ PathsArePatterns(s) => t[1] \in AsPattern(t[1])
  /\ fw = "cucumber" /\ s.shard = "scenario" => t[2] \in NameRegex[t[2]]

Wanted(s) == {t \in Asked(s) : MatchesItself(s, t)}

Devices(s) ==
  CASE fw \in Mobile -> ToSet(EnumerateDevices(s))
    [] fw = "testcafe" /\ s.virtuals # <<>> -> ToSet(VirtualDevices(s))
    [] OTHER -> {Browser}

\* The kinds of shards a framework names.
Shardings ==
  CASE fw = "cucumber" -> {"", "spec", "concurrency", "scenario"}
    [] fw \in {"xcuitest", "xctest"} -> {"", "concurrency", "testList"}
    [] OTHER -> {"", "spec", "concurrency"}

-----------------------------------------------------------------------------
(* Properties                                                              *)

Submitted == stage = "submitted"

(* Sharding loses no test (shardSuites, ShardSuites, BinPack): whatever the *)
(* patterns, exclusions, filters, shards and launch order, the jobs sent    *)
(* for a suite run, on each device it asks for, every test the suite would  *)
(* have run unsharded.  The kind of shard has to be one the framework       *)
(* knows, and suites of one name have to be the same suite: a web job finds *)
(* its suite by name.  Not so the tests the code loses: those of a file     *)
(* whose path, or a scenario whose name, does not match itself where the    *)
(* shard makes a pattern of it (MatchesItself).                             *)
EveryTestRuns ==
  Submitted /\ (\A s, r \in ToSet(project.suites) : s.name = r.name => s = r) =>
    \A c \in {c \in ToSet(Configured(given)) : c.shard \in Shardings} : \A d \in Devices(c) :
      Wanted(c) \subseteq
        UNION {Runs(Executed(j)) : j \in {j \in ToSet(jobs) :
                                            j.suite.origin = c.origin /\ j.device = d}}

(* collectResults is told to wait for as many results as there are jobs,   *)
(* for otherwise the run waits for ever or ends early: except that suites  *)
(* of one name, of which SortByHistory keeps one, are all counted for the   *)
(* web frameworks.                                                          *)
ExpectedIsSubmitted ==
  Submitted /\ (fw \in Mobile \/ NamesAreDistinct(project.suites) \/ order = project.suites) =>
    expected = Len(jobs)

\* A release is what the project asked for: the one it names, or the newest of
\* those package.json admits.
Fits(m) ==
  CASE given.version = "latest"       -> TRUE
    [] given.version = "package.json" ->
         LET admitted == {n \in ToSet(Releases(fw)) : n.version \in Satisfies[given.npm.package]}
         IN  m \in admitted /\ \A n \in admitted : Rank[n.version] <= Rank[m.version]
    [] OTHER                          -> m.version = Standardize(given.version)

\* And so is a Node.js, which must still be there unless it is the default.
NodeFits(r) ==
  LET asked == given.nodeVersion
  IN  IF asked = NoVersion THEN r.default
      ELSE /\ ~r.removed
           /\ IF asked.numbers = <<>> THEN asked.alias \in r.aliases
              ELSE IsPrefix(asked.numbers, r.version)

\* What the project is sent with belongs together: the platforms of all suites
\* and the Node.js are of the release, and each is one that was asked for.
VersionsFit ==
  \E m \in ToSet(Releases(fw)) :
    /\ \A s \in {j.suite : j \in ToSet(jobs)} : s.platform \in m.platforms \cup {""}
    /\ fw # "replay" =>
         /\ project.version = m.version /\ Fits(m)
         /\ IF ~m.node THEN project.nodeVersion = NoVersion
            ELSE \E r \in ToSet(Runtimes) :
                   /\ project.nodeVersion.numbers = r.version
                   /\ NodeFits(r)

(* A job that is sent can pass: its suite has a platform and a browser, or  *)
(* a device with apps, asks for no more passes than there are attempts, and *)
(* is sent with versions that are on offer, belong together and were asked  *)
(* for.  Shards and devices of a suite all inherit that from what Validate  *)
(* and RunProject saw.                                                      *)
SubmittedJobsCanPass ==
  Submitted =>
    /\ fw \in Web => VersionsFit
    /\ \A j \in ToSet(jobs) :
         /\ j.suite.threshold <= (IF given.retries < 0 THEN 0 ELSE given.retries) + 1
         /\ fw \in Web /\ j.device = Browser => j.suite.platform # "" /\ j.suite.browser # ""
         /\ fw \in Mobile => /\ project.app # "" \/ j.suite.app # ""
                             /\ j.suite.testApp # ""

(* "Precedence: --env flag > root-level env vars > suite-level env vars." *)
(* (SetDefaults of cypress, testcafe, cucumber, xcuitest and xctest), also  *)
(* in every shard.  Playwright says so and does otherwise; espresso and     *)
(* replay have no environment; and cypress lets a CYPRESS_x of any level    *)
(* override an x.                                                           *)
EnvPrecedence ==
  Submitted /\ fw \notin {"playwright", "espresso", "replay"} =>
    \A s \in {j.suite : j \in ToSet(jobs)} :
    \A k \in {k \in DOMAIN s.env \ {"CYPRESS_x"} :
               ~(fw = "cypress" /\ k \in DOMAIN Prefixed /\ Prefixed[k] \in DOMAIN s.env)} :
      s.env[k] = CASE k \in DOMAIN given.envFlag -> given.envFlag[k]
                   [] k \in DOMAIN given.env \ DOMAIN given.envFlag -> given.env[k]
                   [] OTHER -> Configured(given)[s.origin].env[k]
=============================================================================
