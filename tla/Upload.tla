------------------------------- MODULE Upload -------------------------------
(***************************************************************************)
(* What happens between the plan of a run and its first job: every file    *)
(* the jobs need is archived and uploaded to the application storage, and  *)
(* the URIs that come back are what the jobs are started with.             *)
(*                                                                         *)
(*   internal/saucecloud/xcuitest.go, xctest.go, espresso.go: RunProject,  *)
(*     one request per app of a suite, with a cache of archives and one of *)
(*     uploads;                                                            *)
(*   internal/saucecloud/cloud.go: remoteArchiveProject (web projects),    *)
(*     remoteArchiveFiles (replay), uploadArchive, findTaggedArchives;     *)
(*   internal/saucecloud/zip, internal/archive/zip, internal/node: what    *)
(*     goes into an archive;                                               *)
(*   internal/http/appstore.go: the storage, which outlives the run.       *)
(*                                                                         *)
(* saucectl runs several times against one storage, on a project that is   *)
(* edited in between.  A file is its name, with the last extension apart;  *)
(* what a file holds is "content".  Data left out: zip headers, checksums  *)
(* (equality of contents), wording.                                        *)
(***************************************************************************)
EXTENDS Integers, Sequences, FiniteSets, SequencesExt

CONSTANTS
  Projects,   \* the projects (or versions of one) saucectl is run on
  Tree,       \* package-lock.json -> the packages installed under node_modules
  Excluded,   \* permExcludes: packages Sauce Labs provides
  Stored,     \* sequence of the files users keep in the storage
  Runs,       \* bound: saucectl runs
  MaxItems    \* bound: items in the storage

\* What a configuration names: a path, a URL or a reference to the storage.
Files == [at : {"local", "url", "storage"}, dir : STRING, base : STRING, ext : STRING]

ASSUME UploadAssumption ==
  /\ Runs \in Nat /\ MaxItems \in Nat
  /\ Stored \in Seq(Files)

\* A tree is finite, and its packages have paths.
ASSUME TreeAssumption ==
  \A lock \in DOMAIN Tree :
    /\ IsFiniteSet(DOMAIN Tree[lock])
    /\ DOMAIN Tree[lock] \subseteq Seq(Seq(STRING)) \ {<<>>}

\* A project is known by its version.
ASSUME VersionAssumption ==
  \A p, q \in Projects : p.version = q.version => p = q

\* Native projects name files where their framework takes them, web projects
\* have the packages of a package-lock.json.
AppleSuites == [real : BOOLEAN, app : Files, testApp : Files, otherApps : Seq(Files)]
EspressoSuites == [testApp : Files]

ASSUME ProjectsAssumption ==
  \A p \in Projects :
    /\ p.kind = "web" => p.lock \in DOMAIN Tree
    /\ p.kind \in {"xcuitest", "xctest"} => p.suites \in Seq(AppleSuites)
    /\ p.kind = "espresso" =>
         p.app \in Files /\ p.otherApps \in Seq(Files) /\ p.suites \in Seq(EspressoSuites)

VARIABLES
  project,   \* the project of this run
  dryRun,    \* --dry-run
  runs,      \* runs so far
  pc,        \* where RunProject stands
  todo,      \* requests still to serve, in order
  file,      \* the path uploadArchive works on
  archives,  \* archiveCache: <<file, type>> -> path
  uploads,   \* uploadCache: path -> URI
  temp,      \* the run's temporary directory: path -> content
  got,       \* slot of a StartOptions -> URI
  storage    \* the application storage: ID -> [content, tag]

caches == <<archives, uploads, temp>>
vars == <<project, dryRun, runs, pc, todo, file, caches, got, storage>>

NoURI == 0        \* the empty URI
NoTag == <<>>
NoFile == [at |-> "", dir |-> "", base |-> "", ext |-> ""]
Empty == [x \in {} |-> NoURI]

\* A storage item or an archive: what it was made of, in which format, which
\* packages of node_modules it holds and of which version of the sources.
Content(of, as, mods, version) == [of |-> of, as |-> as, mods |-> mods, version |-> version]
AppContent(f, as, build) == Content(f, as, {}, build)

InTemp(base, ext) == [at |-> "temp", dir |-> "", base |-> base, ext |-> ext]
Named(base) == [at |-> "project", dir |-> "", base |-> base, ext |-> ""]

-----------------------------------------------------------------------------
(* The requests of a run                                                   *)

Request(slot, name, type, cached, tag) ==
  [slot |-> slot, name |-> name, type |-> type, cached |-> cached, tag |-> tag]

\* A native suite names its app, its test app and its other apps; archiveType
\* depends on where it runs.
ArchiveType(s) == IF s.real THEN "ipa" ELSE "zip"

SuiteRequests(p, i) ==
  LET s == p.suites[i]
      type == ArchiveType(s)
  IN  << Request(<<i, "app">>, s.app, type, TRUE, NoTag),
         Request(<<i, "testApp">>, s.testApp, IF p.kind = "xctest" THEN "xctest" ELSE type, TRUE, NoTag) >>
      \o [k \in DOMAIN s.otherApps |->
            Request(<<i, "otherApps", k>>, s.otherApps[k], type, TRUE, NoTag)]

AppleRequests(p) == FlattenSeq([i \in DOMAIN p.suites |-> SuiteRequests(p, i)])

EspressoRequests(p) ==
  <<Request(<<0, "app">>, p.app, "asis", FALSE, NoTag)>>
  \o [k \in DOMAIN p.otherApps |->
        Request(<<0, "otherApps", k>>, p.otherApps[k], "asis", FALSE, NoTag)]
  \o [i \in DOMAIN p.suites |->
        Request(<<i, "testApp">>, p.suites[i].testApp, "asis", TRUE, NoTag)]

Bundle == << Request(<<0, "project">>, InTemp("app", "zip"), "asis", FALSE, NoTag),
             Request(<<0, "config">>, InTemp("config", "zip"), "asis", FALSE, NoTag) >>

IsApple(p) == p.kind \in {"xcuitest", "xctest"}
IsNative(p) == IsApple(p) \/ p.kind = "espresso"
Requests(p) == IF IsApple(p) THEN AppleRequests(p) ELSE EspressoRequests(p)

-----------------------------------------------------------------------------
(* Archives                                                                *)

\* Mutation: the key of archiveCache has no archive type.
ArchiveKey_NameOnly(r) == <<r.name, "any">>

ArchiveKey(r) == <<r.name, r.type>>

\* archive: a file that already has the format is taken as it is.
TakenAsIs(r) ==
  \/ r.name.at = "storage"
  \/ r.type \in {"asis", "xctest"}
  \/ r.name.ext = r.type

\* What is left of a name in that of its archive: of App.app it is App, of
\* App.ipa it is App.ipa, and the directory of both is gone.
Stem(f) == IF f.ext \in {"", "app"} THEN f.base ELSE f.base \o "." \o f.ext

ArchivePath(r) == IF TakenAsIs(r) THEN r.name ELSE InTemp(Stem(r.name), r.type)

\* What a file holds; a download holds what the URL serves.
ContentOf(f) ==
  IF f.at = "temp" THEN temp[f] ELSE AppContent(f, f.ext, project.build)

\* A root package is <<name>>, one installed inside another <<..., name>>; a
\* name is a sequence of letters.  Where requirements looks for a package
\* that the one at path requires.
Resolved(tree, path, name) ==
  IF Append(path, name) \in DOMAIN tree THEN Append(path, name) ELSE <<name>>

\* A package is left out, and the run goes on, if its package.json is not there,
\* cannot be read or decoded.
IsIncluded(p, path) ==
  /\ path \in DOMAIN Tree[p.lock] \ p.unreadable
  /\ ~(Len(path) = 1 /\ path[1] \in Excluded)

\* The packages the one at path names.  One of them is passed over, and the run
\* goes on, if os.Stat cannot tell whether it is installed inside path.
NamedBy(p, path) == {name \in Tree[p.lock][path] : Append(path, name) \notin p.hidden}

\* Mutation: nested modules are not looked into.
RequiredBy_RootOnly(p, path) ==
  {q \in {Resolved(Tree[p.lock], path, name) : name \in NamedBy(p, path)} :
     IsIncluded(p, q) /\ Len(q) = 1}

RequiredBy(p, path) ==
  {q \in {Resolved(Tree[p.lock], path, name) : name \in NamedBy(p, path)} : IsIncluded(p, q)}

\* What is reached from the given packages, step by step.
Closure(p, requires, names) ==
  LET steps == Cardinality(DOMAIN Tree[p.lock])
      reach[n \in 0..steps] ==
        IF n = 0 THEN {q \in {<<name>> : name \in names} : IsIncluded(p, q)}
        ELSE reach[n - 1] \cup UNION {requires[q] : q \in reach[n - 1]}
  IN  reach[steps]

Requirements(p, names) ==
  {q \in Closure(p, [q \in DOMAIN Tree[p.lock] |-> RequiredBy(p, q)], names) : Len(q) = 1}

Manifest == <<"package.json">>

ExpandDependencies(p) ==
  UNION {IF d = Manifest THEN p.manifest ELSE {d} : d \in ToSet(p.deps)}

\* The packages ArchiveNodeModules packs: all of them when none is asked for.
\* sauceignore may leave out some.
Packed(p) ==
  LET all == {q \in DOMAIN Tree[p.lock] : Len(q) = 1}
  IN  (IF ExpandDependencies(p) = {} THEN all ELSE Requirements(p, ExpandDependencies(p)))
        \ {<<name>> : name \in p.ignored}

NothingFound(p) ==
  ExpandDependencies(p) # {} /\ Requirements(p, ExpandDependencies(p)) = {}

\* HashContent: package-lock.json and the names, one after the other.
Tag(p) == <<p.lock, FlattenSeq(p.deps)>>

Taggable(p) == p.deps # <<>> /\ p.hasLock

WantMods(p) == p.deps # <<>>
NeedsModules(p) == p.hasModules /\ ~p.ignoresModules
ModulesMissing(p) == WantMods(p) /\ (~p.hasModules \/ p.ignoresModules)

-----------------------------------------------------------------------------
(* RunProject                                                              *)

Init ==
  /\ project \in Projects /\ dryRun = FALSE
  /\ runs = 0
  /\ pc = "idle"
  /\ todo = <<>>
  /\ file = NoFile
  /\ archives = [x \in {} |-> NoFile] /\ uploads = Empty
  /\ temp = [x \in {} |-> AppContent(NoFile, "", "")]
  /\ got = Empty
  /\ storage = [i \in DOMAIN Stored |->
                  [content |-> AppContent(Stored[i], Stored[i].ext, ""), tag |-> NoTag]]

\* saucectl run, on the next version of the project: caches and the temporary
\* directory are new, the storage is not.
Start(p, dry) ==
  /\ pc \in {"idle", "submitted", "failed"}
  /\ runs < Runs
  /\ runs' = runs + 1
  /\ project' = p /\ dryRun' = dry
  /\ todo' = IF IsNative(p) THEN Requests(p) ELSE <<>>
  /\ pc' = IF IsNative(p) THEN "archive" ELSE "pack"
  /\ file' = NoFile
  /\ archives' = [x \in {} |-> NoFile] /\ uploads' = Empty
  /\ temp' = [x \in {} |-> AppContent(NoFile, "", "")]
  /\ got' = Empty
  /\ UNCHANGED storage

\* createArchives, remoteArchiveFiles: the project and its configuration are
\* packed, and uploaded in the order of a Go map.
Pack ==
  /\ pc = "pack"
  /\ temp' = [f \in {InTemp("app", "zip"), InTemp("config", "zip")} |->
                Content(Named(f.base), "zip", {}, project.version)]
  /\ todo' \in {Bundle, Reverse(Bundle)}
  /\ pc' = "archive"
  /\ UNCHANGED <<project, dryRun, runs, file, archives, uploads, got, storage>>

\* A project file, sauceignore or package.json cannot be read.
PackFails ==
  /\ pc \in {"pack", "packModules"}
  /\ pc' = "failed"
  /\ UNCHANGED <<project, dryRun, runs, todo, file, caches, got, storage>>

\* cachedArchive: an app that was archived before is not archived again.
ArchiveHit ==
  /\ pc = "archive"
  /\ todo # <<>>
  /\ ArchiveKey(Head(todo)) \in DOMAIN archives
  /\ file' = archives[ArchiveKey(Head(todo))]
  /\ pc' = "upload"
  /\ UNCHANGED <<project, dryRun, runs, todo, caches, got, storage>>

\* cachedArchive, archive: what is not taken as it is must be there to be
\* read, and overwrites an archive of its name.
Archive ==
  LET r == Head(todo)
      path == ArchivePath(r)
  IN  /\ pc = "archive"
      /\ todo # <<>>
      /\ ArchiveKey(r) \notin DOMAIN archives
      /\ TakenAsIs(r) \/ r.name.at = "local"
      /\ archives' = IF r.cached
                     THEN [k \in DOMAIN archives \cup {ArchiveKey(r)} |->
                             IF k = ArchiveKey(r) THEN path ELSE archives[k]]
                     ELSE archives
      /\ temp' = IF TakenAsIs(r) THEN temp
                 ELSE [f \in DOMAIN temp \cup {path} |->
                         IF f = path THEN AppContent(r.name, r.type, project.build) ELSE temp[f]]
      /\ file' = path
      /\ pc' = "upload"
      /\ UNCHANGED <<project, dryRun, runs, todo, uploads, got, storage>>

\* The app cannot be read.  A URL that does not end in the format is not a
\* file, although it is valid in a configuration.
ArchiveFails ==
  /\ pc = "archive"
  /\ todo # <<>>
  /\ ArchiveKey(Head(todo)) \notin DOMAIN archives
  /\ ~TakenAsIs(Head(todo))
  /\ pc' = "failed"
  /\ UNCHANGED <<project, dryRun, runs, todo, file, caches, got, storage>>

-----------------------------------------------------------------------------
(* uploadArchive                                                           *)

\* The request at the head of todo is answered with uri.
Answer(uri) ==
  LET r == Head(todo)
  IN  /\ got' = [s \in DOMAIN got \cup {r.slot} |-> IF s = r.slot THEN uri ELSE got[s]]
      /\ uploads' = IF r.cached
                    THEN [f \in DOMAIN uploads \cup {file} |->
                            IF f = file THEN uri ELSE uploads[f]]
                    ELSE uploads
      /\ todo' = Tail(todo)
      /\ pc' = "archive"
      /\ file' = NoFile
      /\ UNCHANGED <<project, dryRun, runs, archives, temp>>

\* cachedUpload: the path was uploaded before.
UploadHit ==
  /\ pc = "upload"
  /\ Head(todo).cached /\ file \in DOMAIN uploads
  /\ Answer(uploads[file])
  /\ UNCHANGED storage

ToUpload == pc = "upload" /\ ~(Head(todo).cached /\ file \in DOMAIN uploads)

SkipInDryRun ==
  /\ ToUpload /\ dryRun
  /\ Answer(NoURI)
  /\ UNCHANGED storage

\* A reference to the storage needs no upload, only its normal form.
UseReference ==
  /\ ToUpload /\ ~dryRun
  /\ file.at = "storage"
  /\ \E id \in DOMAIN Stored : Stored[id] = file /\ Answer(id)
  /\ UNCHANGED storage

Fails ==
  /\ pc' = "failed"
  /\ UNCHANGED <<project, dryRun, runs, todo, file, caches, got, storage>>

\* download: the copy keeps the base name of the URL, in a directory of its own.
Download ==
  /\ ToUpload /\ ~dryRun
  /\ file.at = "url"
  /\ \/ /\ pc' = "check"
        /\ UNCHANGED <<project, dryRun, runs, todo, file, caches, got, storage>>
     \/ Fails

\* isFileStored: a file of the same checksum is in the storage.
FoundStored(id) ==
  /\ (ToUpload /\ ~dryRun /\ file.at \in {"local", "temp"}) \/ pc = "check"
  /\ storage[id].content = ContentOf(file)
  /\ Answer(id)
  /\ UNCHANGED storage

\* There is none, or the storage did not answer: the error is ignored.
NotFoundStored ==
  /\ (ToUpload /\ ~dryRun /\ file.at \in {"local", "temp"}) \/ pc = "check"
  /\ pc' = "send"
  /\ UNCHANGED <<project, dryRun, runs, todo, file, caches, got, storage>>

\* filepath.Abs fails when the working directory is gone, which matters to a
\* relative path: the answer is no URI and no error, and the run goes on.
AbsFails ==
  /\ pc = "send"
  /\ file.at = "local"
  /\ Answer(NoURI)
  /\ UNCHANGED storage

NewItem == [content |-> ContentOf(file), tag |-> Head(todo).tag]

\* UploadStream: the answer names the new item.
Send ==
  /\ pc = "send"
  /\ Len(storage) < MaxItems
  /\ storage' = Append(storage, NewItem)
  /\ Answer(Len(storage) + 1)

\* The storage took the file but the answer was lost or was an error that the
\* HTTP client answers by sending the file again.
SendAgain ==
  /\ pc = "send"
  /\ Len(storage) < MaxItems
  /\ storage' = Append(storage, NewItem)
  /\ UNCHANGED <<project, dryRun, runs, pc, todo, file, caches, got>>

\* The storage refused the file, or every try of the HTTP client failed.
SendFails ==
  /\ pc = "send"
  /\ Fails

-----------------------------------------------------------------------------
(* node_modules                                                            *)

Served == pc = "archive" /\ todo = <<>>

HasModulesAnswer == <<0, "nodeModules">> \in DOMAIN got

ModulesRequest(p) ==
  Request(<<0, "nodeModules">>, InTemp("node_modules", "zip"), "asis", FALSE,
          IF Taggable(p) THEN Tag(p) ELSE NoTag)

\* needsNodeModules: an error when modules are asked for and not there.
NodeModulesMissing ==
  /\ Served /\ project.kind = "web" /\ ~HasModulesAnswer
  /\ ModulesMissing(project)
  /\ Fails

WantsModules ==
  Served /\ project.kind = "web" /\ ~HasModulesAnswer
    /\ ~ModulesMissing(project) /\ NeedsModules(project)

\* findTaggedArchives, in a dry run too.
FoundTagged(id) ==
  /\ WantsModules /\ Taggable(project)
  /\ storage[id].tag = Tag(project)
  /\ got' = [s \in DOMAIN got \cup {<<0, "nodeModules">>} |->
               IF s = <<0, "nodeModules">> THEN id ELSE got[s]]
  /\ UNCHANGED <<project, dryRun, runs, pc, todo, file, caches, storage>>

\* There is none, or the storage did not answer.
NotFoundTagged ==
  /\ WantsModules
  /\ pc' = "packModules"
  /\ UNCHANGED <<project, dryRun, runs, todo, file, caches, got, storage>>

\* ArchiveNodeModules
PackModules ==
  /\ pc = "packModules"
  /\ ~NothingFound(project)
  /\ LET f == InTemp("node_modules", "zip")
     IN  temp' = [g \in DOMAIN temp \cup {f} |->
                    IF g = f THEN Content(Named("node_modules"), "zip", Packed(project), project.version)
                    ELSE temp[g]]
  /\ todo' = <<ModulesRequest(project)>>
  /\ pc' = "archive"
  /\ UNCHANGED <<project, dryRun, runs, file, archives, uploads, got, storage>>

\* Every URI is there: the jobs are started.
Submit ==
  /\ Served
  /\ project.kind = "web" =>
       HasModulesAnswer \/ (~ModulesMissing(project) /\ ~NeedsModules(project))
  /\ pc' = "submitted"
  /\ UNCHANGED <<project, dryRun, runs, todo, file, caches, got, storage>>

\* saucectl is not run again.
Exit ==
  /\ pc \in {"submitted", "failed"} /\ runs = Runs
  /\ UNCHANGED vars

Next ==
  \/ \E p \in Projects, dry \in BOOLEAN : Start(p, dry)
  \/ Pack \/ PackFails
  \/ ArchiveHit \/ Archive \/ ArchiveFails
  \/ UploadHit \/ SkipInDryRun \/ UseReference \/ Download
  \/ \E id \in DOMAIN storage : FoundStored(id)
  \/ NotFoundStored \/ AbsFails \/ Send \/ SendAgain \/ SendFails
  \/ NodeModulesMissing
  \/ \E id \in DOMAIN storage : FoundTagged(id)
  \/ NotFoundTagged \/ PackModules
  \/ Submit
  \/ Exit

Spec == Init /\ [][Next]_vars

-----------------------------------------------------------------------------
(* Properties                                                              *)

Submitted == pc = "submitted" /\ ~dryRun

\* Two apps of a project that archive to one path of the temporary directory:
\* the second overwrites the archive of the first and is answered, by the
\* cache of uploads, with the URI of the first.
ShareAnArchive(r, q) ==
  r.name # q.name /\ ~TakenAsIs(r) /\ ~TakenAsIs(q) /\ ArchivePath(r) = ArchivePath(q)

Format(r) == IF r.type \in {"zip", "ipa"} THEN r.type ELSE r.name.ext

Holds(id, r) ==
  IF r.name.at = "storage" THEN Stored[id] = r.name
  ELSE storage[id].content = AppContent(r.name, Format(r), project.build)

WithoutItsFile(r) == got[r.slot] = NoURI /\ TakenAsIs(r) /\ r.name.at = "local"

\* Every job is started with the app, the test app and the other apps its
\* suite names, as they are now and in the format its device takes, and a web
\* or replay job with the project and the configuration of this run, whatever
\* was cached, found in the storage, sent twice or kept from an earlier run.
\* Left out, because the code does not give it: a local file that is uploaded
\* as it is may be missing, without an error (cloud.go:756); and a suite may be
\* given another app of its project whose archive has the same path
\* (archive.go:57).
JobsGetWhatTheyName ==
  Submitted =>
    IF IsNative(project)
    THEN \A r \in ToSet(Requests(project)) :
           \/ WithoutItsFile(r)
           \/ Holds(got[r.slot], r)
           \/ \E q \in ToSet(Requests(project)) : ShareAnArchive(r, q) /\ Holds(got[r.slot], q)
    ELSE \A r \in ToSet(Bundle) :
           storage[got[r.slot]].content =
             Content(Named(r.name.base), "zip", {}, project.version)

\* Node's lookup: the package nearest to path, from the inside out.
NodeResolved(tree, path, name) ==
  LET found == {n \in 0..Len(path) : Append(SubSeq(path, 1, n), name) \in DOMAIN tree}
  IN  Append(SubSeq(path, 1, IF found = {} THEN 0 ELSE Max(found)), name)

NodeRequired(p, path) ==
  {q \in {NodeResolved(Tree[p.lock], path, name) : name \in NamedBy(p, path)} : IsIncluded(p, q)}

\* requirements does not look for a package beside the nested one that
\* requires it (package.go:104).
BesideNested(tree) ==
  \E path \in DOMAIN tree : \E name \in tree[path] :
    NodeResolved(tree, path, name) # Resolved(tree, path, name)

Needed(p) ==
  LET requires == [q \in DOMAIN Tree[p.lock] |-> NodeRequired(p, q)]
  IN  {<<q[1]>> : q \in Closure(p, requires, ExpandDependencies(p))}

\* HashContent runs the names of the dependencies together (hashio/files.go:40).
SpelledAlike(p, q) == p.deps # q.deps /\ FlattenSeq(p.deps) = FlattenSeq(q.deps)

VersionOf(id) == CHOOSE p \in Projects : p.version = storage[id].content.version

\* The node_modules a web job is started with, packed for this run or found
\* by its tag, hold every package that the configured dependencies need,
\* themselves included, to be found by Node in the cloud.  Left out, because
\* the code does not give it: a package whose package.json cannot be read or
\* that os.Stat fails on, with what no other package needs (package.go:84, 110),
\* now or when a tagged archive was made; a tagged archive of a time when
\* sauceignore or a package.json named as dependency was another; dependencies
\* that are spelled alike; and packages beside a nested one.
ModulesAreComplete ==
  Submitted /\ HasModulesAnswer =>
    LET id == got[<<0, "nodeModules">>]
        then == VersionOf(id)
    IN  (/\ then.ignored = project.ignored /\ then.manifest = project.manifest
         /\ then.unreadable = project.unreadable /\ then.hidden = project.hidden
         /\ ~SpelledAlike(then, project) /\ ~BesideNested(Tree[project.lock])) =>
          Needed(project) \ {<<name>> : name \in project.ignored} \subseteq storage[id].content.mods
=============================================================================
