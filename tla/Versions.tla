------------------------------ MODULE Versions ------------------------------
(***************************************************************************)
(* Which release of a web framework, and which Node.js, a run gets: the    *)
(* search strategies of internal/framework, the runtimes of                *)
(* internal/runtime, and setVersions, validateFramework and setNodeRuntime *)
(* of the web runners.                                                     *)
(*                                                                         *)
(* A version of a framework is a name; Rank says which is newer and        *)
(* Satisfies what a range of package.json admits.  A version of Node.js is *)
(* the sequence of its numbers, asked for by as many of them as the user   *)
(* likes (with a leading v), or by an alias.  Names of platforms are       *)
(* compared without regard to case, so a name stands for all its spellings.*)
(***************************************************************************)
EXTENDS Integers, SequencesExt

CONSTANTS
  Offered,    \* framework -> the releases the test composer lists, in its order
  Rank,       \* version -> its place among all versions
  Satisfies,  \* what package.json may say -> the versions that satisfy it
  Runtimes    \* the releases of Node.js the test composer lists, in its order

ASSUME VersionsAssumption ==
  /\ \A kind \in DOMAIN Offered :
       /\ \A i, j \in DOMAIN Offered[kind] :
            Offered[kind][i].version = Offered[kind][j].version => i = j
       /\ Offered[kind] \in Seq(ToSet(Offered[kind]))
       /\ \A m \in ToSet(Offered[kind]) :
            /\ Rank[m.version] \in Nat /\ m.node \in BOOLEAN
            /\ m.version \notin {"latest", "package.json"}
  /\ Runtimes \in Seq(ToSet(Runtimes))
  /\ \A r \in ToSet(Runtimes) : r.version # <<>> /\ r.default \in BOOLEAN /\ r.removed \in BOOLEAN

\* The elements of s that pass a test, in order.
Where(s, Test(_)) == FlattenSeq([i \in DOMAIN s |-> IF Test(s[i]) THEN <<s[i]>> ELSE <<>>])

NoVersion == [alias |-> "", numbers |-> <<>>]

\* Cucumber runs in the runner of playwright.
Kind(framework) == IF framework = "cucumber" THEN "playwright" ELSE framework

Releases(framework) == Offered[Kind(framework)]

None == {}

\* The first one, as a set with at most one member.
First(found) == IF found = <<>> THEN None ELSE {Head(found)}

\* Strategy for a version by its name; the first release counts as the latest.
Exact(releases, version) ==
  IF version = "latest" THEN First(releases)
  ELSE First(Where(releases, LAMBDA m : m.version = version))

\* Mutation: the releases are not sorted.
Package_Unsorted(releases, range) ==
  IF range \notin DOMAIN Satisfies THEN None
  ELSE First(Where(releases, LAMBDA m : m.version \in Satisfies[range]))

\* The newest first.
Sorted(releases) ==
  CHOOSE s \in [DOMAIN releases -> ToSet(releases)] :
    /\ ToSet(s) = ToSet(releases)
    /\ \A i, j \in DOMAIN s : i < j => Rank[s[i].version] >= Rank[s[j].version]

\* Strategy for a version that package.json names, or not.
Package(releases, range) ==
  IF range \notin DOMAIN Satisfies THEN None
  ELSE First(Where(Sorted(releases), LAMBDA m : m.version \in Satisfies[range]))

Search(framework, version, range) ==
  CASE framework = "replay"     -> Exact(Releases(framework), "latest")
    [] framework # "replay" /\ version = "package.json" -> Package(Releases(framework), range)
    [] OTHER                    -> Exact(Releases(framework), version)

\* Only suites that name a platform are looked at.
PlatformsAreOffered(m, suites) == \A s \in ToSet(suites) : s.platform \in m.platforms \cup {""}

\* Playwright is told the version of its browser; a browser the release has no
\* version for gets none.
WithBrowser(m, s) ==
  [s EXCEPT !.browserVersion =
     IF s.browser \in DOMAIN m.browsers THEN m.browsers[s.browser] ELSE ""]

-----------------------------------------------------------------------------
(* Node.js                                                                 *)

\* An alias, or else as many numbers as were given.
FindRuntime(asked) ==
  IF asked.numbers = <<>>
  THEN First(Where(Runtimes, LAMBDA r : asked.alias \in r.aliases))
  ELSE First(Where(Runtimes, LAMBDA r : IsPrefix(asked.numbers, r.version)))

DefaultRuntime == First(Where(Runtimes, LAMBDA r : r.default))

\* What is past its removal is refused to who asks for it.
NodeRuntime(asked) ==
  IF asked = NoVersion THEN DefaultRuntime ELSE {r \in FindRuntime(asked) : ~r.removed}
=============================================================================
