----------------------------- MODULE MCUpload ------------------------------
(* Twenty-two versions of projects, three trees of node_modules and one storage. *)
EXTENDS Upload

Local(dir, base, ext) == [at |-> "local", dir |-> dir, base |-> base, ext |-> ext]
Url(base, ext) == [at |-> "url", dir |-> "example.com", base |-> base, ext |-> ext]
Kept == [at |-> "storage", dir |-> "", base |-> "kept", ext |-> "ipa"]

MCStored == <<Kept>>

Suite(real, app, testApp, otherApps) ==
  [real |-> real, app |-> app, testApp |-> testApp, otherApps |-> otherApps]

Native(kind, version, build, suites) ==
  [kind |-> kind, version |-> version, build |-> build, suites |-> suites]

App == Local("a", "App", "app")
Tests == Local("a", "Tests", "app")

\* A simulator and a device run the same app.
Both(version, build) ==
  Native("xcuitest", version, build,
    <<Suite(FALSE, App, Tests, <<>>), Suite(TRUE, App, Tests, <<Kept>>)>>)

\* Two apps of one name and one whose extension keeps it apart; below, a URL that
\* is taken as it is and one that is not.
Clashing ==
  Native("xcuitest", "clash", "1",
    <<Suite(TRUE, App, Tests, <<>>),
      Suite(TRUE, Local("b", "App", "app"), Tests, <<Local("a", "App", "zip")>>)>>)

Remote ==
  Native("xctest", "remote", "1",
    <<Suite(TRUE, Url("App", "ipa"), Local("a", "Run", "xctestrun"), <<App>>),
      Suite(FALSE, Url("App", "zip"), Local("a", "Run", "xctestrun"), <<Url("Old", "")>>)>>)

Espresso ==
  [kind |-> "espresso", version |-> "espresso", build |-> "1",
   app |-> Url("App", "apk"), otherApps |-> <<Local("a", "Other", "apk")>>,
   suites |-> <<[testApp |-> Local("a", "Test", "apk")], [testApp |-> Local("a", "Test", "apk")]>>]

Replay == [kind |-> "replay", version |-> "replay", build |-> "1"]

Web(version, lock, deps, manifest, ignored) ==
  [kind |-> "web", version |-> version, build |-> "1", lock |-> lock, deps |-> deps,
   manifest |-> manifest, ignored |-> ignored, unreadable |-> {}, hidden |-> {},
   hasLock |-> TRUE, hasModules |-> TRUE, ignoresModules |-> FALSE]

a == <<"a">>
b == <<"b">>
c == <<"c">>
d == <<"d">>
bc == <<"b", "c">>
cy == <<"c", "y">>

\* l1: a needs b and a c of its own, which needs d.  l2: a needs d, which is
\* not installed, and what Sauce Labs provides.  l3: the b inside a needs the c
\* beside it, which needs d.
MCTree ==
  [lock \in {"l1", "l2", "l3"} |->
    CASE lock = "l1" ->
           [path \in {<<a>>, <<b>>, <<c>>, <<d>>, <<bc>>, <<a, c>>} |->
             CASE path = <<a>> -> {b, c} [] path = <<a, c>> -> {d} [] OTHER -> {}]
      [] lock = "l2" ->
           [path \in {<<a>>, <<b>>, <<cy>>} |->
             CASE path = <<a>> -> {d, cy} [] path = <<b>> -> {a} [] OTHER -> {}]
      [] OTHER ->
           [path \in {<<a>>, <<b>>, <<c>>, <<d>>, <<a, b>>, <<a, c>>} |->
             CASE path = <<a>> -> {b} [] path = <<a, b>> -> {c} [] path = <<a, c>> -> {d} [] OTHER -> {}]]

MCExcluded == {cy}

WebProjects ==
  { Web("w1", "l1", <<a>>, {}, {}),
    Web("w2", "l1", <<b>>, {}, {}),
    Web("w3", "l2", <<b>>, {}, {}),
    Web("w4", "l1", <<Manifest>>, {a, d}, {}),
    Web("w5", "l1", <<Manifest>>, {b}, {}),
    Web("w6", "l1", <<a>>, {}, {d}),
    Web("w7", "l3", <<a>>, {}, {}),
    Web("w8", "l2", <<>>, {}, {}),
    Web("w10", "l1", <<b, c>>, {}, {}),
    Web("w11", "l1", <<bc>>, {}, {}),
    Web("w9", "l2", <<cy>>, {}, {}),
    [Web("w12", "l1", <<a>>, {}, {}) EXCEPT !.unreadable = {<<a, c>>}],
    [Web("w13", "l1", <<a>>, {}, {}) EXCEPT !.hidden = {<<a, b>>}],
    [Web("u1", "l1", <<b, c>>, {}, {}) EXCEPT !.hasLock = FALSE],
    [Web("u2", "l1", <<a>>, {}, {}) EXCEPT !.hasModules = FALSE],
    [Web("u3", "l1", <<>>, {}, {}) EXCEPT !.ignoresModules = TRUE] }

MCProjects ==
  WebProjects \cup {Both("both1", "1"), Both("both2", "2"), Clashing, Remote, Espresso, Replay}
=============================================================================
