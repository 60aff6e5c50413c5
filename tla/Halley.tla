-------------------------------- MODULE Halley --------------------------------
(***************************************************************************)
(* The JIT engine of libserene (src/libserene/lib/jit/halley.cpp): the     *)
(* loader that finds a namespace on the load paths, the JITDylibs it files *)
(* each version under, the lookups that hand out code, and the cache of    *)
(* compiled objects.                                                       *)
(*                                                                         *)
(* One thread drives the engine.  A call that searches the load paths is   *)
(* several steps here, because the file system, which other programs edit, *)
(* is consulted twice: once to ask whether a file exists, once to read it. *)
(*                                                                         *)
(* Code is abstracted to images: an image is what a file's definitions     *)
(* compile to.  Every image of a namespace defines the symbol looked up,   *)
(* so two images cannot share a JITDylib (ORC rejects the duplicate).      *)
(***************************************************************************)
EXTENDS Naturals, Sequences, FiniteSets

CONSTANTS
    NS,                 \* namespace (and library) names
    Dirs,               \* directories that may be load paths
    CLPaths,            \* the -l options of the command line, in order
    Images,             \* what a good file holds
    NeedProcess,        \* the images that use a symbol of the host process
    Absent, Corrupt,    \* contents of a file that is not there, or not code
    NoImage,            \* a JITDylib without definitions; no cached object
    Pending, Failed,    \* definitions not materialised yet, or not linkable
    Strings,            \* the C strings a name can be read as
    Reads,              \* what the copy of a name reads as (see Keys)
    Disks,              \* the file systems the engine may start on
    Volatile,           \* the files other programs edit meanwhile
    Assertions,         \* whether the build keeps assert()
    SessionMayFail,     \* whether createJITDylib can fail
    EnableObjectCache,  \* Options::JITenableObjectCache
    MaxDylibs,          \* bound: JITDylibs created in a behaviour
    MaxEdits            \* bound: edits to the file system in a behaviour

Exts == {"o", "a", "so", "ll"}
Files == Dirs \X NS \X Exts
Contents == Images \cup {Absent, Corrupt}

\* jitDylibs is keyed by the C string in ns.name->data, which
\* getInternalString does not terminate: each copy of name n is read as one
\* of Reads[n], the name and whatever bytes happen to follow it.  That may be
\* the name of another namespace.  Names end where they should when
\* Terminated holds.
Keys == Strings
Terminated(n) == Reads[n] = {n}

ASSUME HalleyAssumption ==
    /\ NS \subseteq Strings /\ Reads \in [NS -> SUBSET Strings]
    /\ CLPaths \in Seq(Dirs)
    /\ NeedProcess \subseteq Images
    /\ {Absent, Corrupt, NoImage, Pending, Failed} \cap Images = {}
    /\ Absent # Corrupt /\ Pending # Failed
    /\ Disks \subseteq [Files -> Contents] /\ Volatile \subseteq Files
    /\ Assertions \in BOOLEAN /\ SessionMayFail \in BOOLEAN
    /\ EnableObjectCache \in BOOLEAN
    /\ MaxDylibs \in Nat /\ MaxEdits \in Nat

VARIABLES
    files,      \* the file system
    edits,      \* how often it was edited
    edited,     \* history: the files edited since the last load call began
    dylibs,     \* the JITDylibs of the session, in order of creation
    jitDylibs,  \* Halley::jitDylibs: the dylibs (as indices) filed under a key
    loadPaths,  \* SereneContext::loadPaths
    clPaths,    \* SereneOptions::loadPaths, what is left of CLPaths
    cache,      \* ObjectCache::cachedObjects, by module identifier
    pc,         \* where the engine is
    call,       \* the load call in progress, or the call that crashed
    res         \* what the last load or lookup answered

world == <<files, edits, edited>>
paths == <<loadPaths, clPaths>>
registry == <<dylibs, jitDylibs>>
vars == <<world, paths, registry, cache, pc, call, res>>

-----------------------------------------------------------------------------
(* A JITDylib: the key and number that make up its name "key#num", the     *)
(* image defined in it and the file that came from, whether the host       *)
(* process is in its link order, and what a lookup in it runs.             *)
NoFile == <<>>
Dylib == [stem : Keys, num : Nat, img : Images \cup {NoImage},
          from : Files \cup {NoFile}, linked : BOOLEAN,
          run : Images \cup {Pending, Failed}]

Empty(k, n) == [stem |-> k, num |-> n, img |-> NoImage, from |-> NoFile,
                linked |-> FALSE, run |-> Pending]

LoadOps == [namespace |-> "o", static |-> "a", shared |-> "so"]
Ops == DOMAIN LoadOps \cup {"none", "create", "lookup", "module", "dump"}
Outcomes == {"none", "ok", "error", "notfound", "nopaths"}
NoCall == [op |-> "none", ns |-> "none", i |-> 0, jd |-> 0]
NoAnswer == [op |-> "none", ns |-> "none", out |-> "none", jd |-> 0]

TypeOK ==
    /\ files \in [Files -> Contents] /\ edits \in Nat
    /\ edited \subseteq Files
    /\ dylibs \in Seq(Dylib)
    /\ jitDylibs \in [Keys -> Seq(1 .. Len(dylibs))]
    /\ loadPaths \in Seq(Dirs) /\ clPaths \in Seq(Dirs)
    /\ cache \in [Files -> Images \cup {NoImage}]
    /\ pc \in {"idle", "search", "opened", "crashed", "exited"}
    /\ call \in [op : Ops, ns : NS \cup {"none"},
                 i : Nat, jd : 0 .. Len(dylibs)]
    /\ res \in [op : Ops, ns : NS \cup {"none"},
                out : Outcomes, jd : 0 .. Len(dylibs)]

\* Halley::make, and main before its first call: the process JITDylib exists
\* and is never removed, so loadNamespace always finds it.
Init ==
    /\ files \in Disks /\ edits = 0 /\ edited = {}
    /\ dylibs = <<>> /\ jitDylibs = [k \in Keys |-> <<>>]
    /\ loadPaths = <<>> /\ clPaths = CLPaths
    /\ cache = [f \in Files |-> NoImage]
    /\ pc = "idle" /\ call = NoCall /\ res = NoAnswer
-----------------------------------------------------------------------------
(* The registry of JITDylibs                                               *)

\* getLatestJITDylib; 0 stands for nullptr.  A key without dylibs is absent
\* from the StringMap, or present with an empty vector: the code treats the
\* two alike.
LatestIn(reg, k) == IF reg[k] = <<>> THEN 0 ELSE reg[k][Len(reg[k])]
Latest(k) == LatestIn(jitDylibs, k)

\* Faults: numbering the loaded versions only, or all but the libraries.
NextNumberOfLoaded(k) ==
    Cardinality({i \in DOMAIN jitDylibs[k] :
                    dylibs[jitDylibs[k][i]].img # NoImage}) + 1
NextNumberWithoutLibraries(k) ==
    Cardinality({i \in DOMAIN jitDylibs[k] :
                    dylibs[jitDylibs[k][i]].num # 0}) + 1

\* createEmptyNS: getNumberOfJITDylibs(ns) + 1
NextNumber(k) == Len(jitDylibs[k]) + 1

\* Faults: a dylib filed by a wrong index, alone, or before the older ones.
CreateMisfiled(k, d) ==
    /\ dylibs' = Append(dylibs, d)
    /\ jitDylibs' = [jitDylibs EXCEPT ![k] = Append(@, Len(dylibs) + 2)]
CreateReplacing(k, d) ==
    /\ dylibs' = Append(dylibs, d)
    /\ jitDylibs' = [jitDylibs EXCEPT ![k] = <<Len(dylibs) + 1>>]
CreateFirst(k, d) ==
    /\ dylibs' = Append(dylibs, d)
    /\ jitDylibs' = [jitDylibs EXCEPT ![k] = <<Len(dylibs) + 1>> \o @]

\* createJITDylib followed by pushJITDylib
Create(k, d) ==
    /\ dylibs' = Append(dylibs, d)
    /\ jitDylibs' = [jitDylibs EXCEPT ![k] = Append(@, Len(dylibs) + 1)]

\* createEmptyNS once makeNamespace has copied the name: the namespace is
\* filed, and its dylib named, by whatever string the copy reads back as.
CreateNamespaceDylib(n) ==
    \E k \in Reads[n] : Create(k, Empty(k, NextNumber(k)))

\* Adding strong definitions to a dylib that already has them is an error.
\* Those of a library are only materialised by the first lookup.
Defined(d) == /\ d.img # NoImage
              /\ d.from[3] \in {"o", "ll"} \/ d.run # Pending

Idle == pc = "idle"
CanCreate == Len(dylibs) < MaxDylibs

Start(op, n) == call' = [op |-> op, ns |-> n, i |-> 1, jd |-> 0]
Answer(op, n, out, jd) ==
    res' = [op |-> op, ns |-> n, out |-> out, jd |-> jd]

\* A call that is a single step takes the process down.
CrashIn(op, n) ==
    /\ pc' = "crashed" /\ Start(op, n)
    /\ UNCHANGED <<world, paths, registry, cache, res>>

\* The load call in progress returns.
Finish(out, jd) ==
    /\ pc' = "idle" /\ call' = NoCall
    /\ Answer(call.op, call.ns, out, jd)
    /\ UNCHANGED <<world, paths, cache>>

-----------------------------------------------------------------------------
(* The file system, and the command line                                   *)

\* Another program replaces, damages or removes a file.
WriteFile(f, c) ==
    /\ edits < MaxEdits /\ files[f] # c
    /\ files' = [files EXCEPT ![f] = c] /\ edits' = edits + 1
    /\ edited' = edited \cup {f}
    /\ UNCHANGED <<registry, paths, cache, pc, call, res>>

\* setLoadPaths swaps its argument, the list of the command line's options,
\* with the context's list.
ApplySereneCLOptions ==
    /\ Idle
    /\ loadPaths' = clPaths /\ clPaths' = loadPaths
    /\ UNCHANGED <<world, registry, cache, pc, call, res>>

-----------------------------------------------------------------------------
(* Creating and loading namespaces                                         *)

CreateEmptyNS(n) ==
    /\ Idle /\ CanCreate
    /\ CreateNamespaceDylib(n)
    /\ UNCHANGED <<world, paths, cache, pc, call, res>>

\* createJITDylib fails: terminate(1)
CreateFails(n) ==
    /\ \/ Idle /\ CanCreate
       \/ /\ pc = "search" /\ call.op = "namespace" /\ call.ns = n
          /\ call.i \in DOMAIN loadPaths
          /\ files[<<loadPaths[call.i], n, "o">>] # Absent
    /\ SessionMayFail /\ pc' = "exited"
    /\ UNCHANGED <<world, paths, registry, cache, call, res>>

\* loadNamespace, loadStaticLibrary and loadSharedLibrary begin alike.
BeginLoad(op, n) ==
    /\ Idle /\ CanCreate
    /\ IF loadPaths = <<>>
       THEN Answer(op, n, "nopaths", 0) /\ UNCHANGED <<pc, call>>
       ELSE pc' = "search" /\ Start(op, n) /\ UNCHANGED res
    /\ edited' = {} /\ UNCHANGED <<files, edits, paths, registry, cache>>

\* The file the search looks at: the loader of source files finds nothing, so
\* a namespace is only ever found as an object file.
Candidate == <<loadPaths[call.i], call.ns, LoadOps[call.op]>>
Searching == pc = "search" /\ call.i \in DOMAIN loadPaths
FoundReadable == files[Candidate] \in Images      \* fault: skip damaged files
Found == files[Candidate] # Absent

\* Fault: the search starts over.
NextPathAround ==
    /\ Searching /\ ~Found
    /\ call' = [call EXCEPT !.i = (@ % Len(loadPaths)) + 1]
    /\ UNCHANGED <<world, paths, registry, cache, pc, res>>

\* fs::exists says no: on to the next load path.
NextPath ==
    /\ Searching /\ ~Found
    /\ call' = [call EXCEPT !.i = @ + 1]
    /\ UNCHANGED <<world, paths, registry, cache, pc, res>>

NotFound ==
    /\ pc = "search" /\ call.i \notin DOMAIN loadPaths
    /\ Finish("notfound", 0) /\ UNCHANGED registry

\* loadNamespaceFrom<ObjectFile>, up to the assertion: the dylib is created
\* and filed, then looked up under the name it was asked for, where an older
\* dylib, or none, may be what is found.
OpenNamespace ==
    /\ Searching /\ Found /\ call.op = "namespace"
    /\ CreateNamespaceDylib(call.ns)
    /\ LET jd == LatestIn(jitDylibs', call.ns)
       IN  /\ call' = [call EXCEPT !.jd = jd]
           /\ pc' = IF jd = 0 /\ Assertions THEN "crashed" ELSE "opened"
    /\ UNCHANGED <<world, paths, cache, res>>

Readable == files[Candidate] \in Images
Adding == /\ Readable /\ call.jd # 0
          /\ ~Defined(dylibs[call.jd])

\* Without assertions, a file that was read is added to no dylib at all.
AddingToNothing == files[Candidate] # Absent /\ call.jd = 0

\* Fault: the dylib is not linked to the host process.
ReadObjectUnlinked ==
    /\ pc = "opened" /\ call.op = "namespace"
    /\ \/ /\ Adding
          /\ dylibs' = [dylibs EXCEPT ![call.jd].img = files[Candidate],
                                      ![call.jd].from = Candidate]
          /\ UNCHANGED jitDylibs /\ Finish("ok", call.jd)
       \/ /\ ~Adding /\ ~AddingToNothing
          /\ Finish("error", 0) /\ UNCHANGED registry

\* The rest of it, and of loadNamespace: read the file, add it to the dylib,
\* link the dylib to the host process.  An error leaves the dylib in place.
ReadObject ==
    /\ pc = "opened" /\ call.op = "namespace"
    /\ \/ /\ Adding
          /\ dylibs' = [dylibs EXCEPT ![call.jd].img = files[Candidate],
                                      ![call.jd].from = Candidate,
                                      ![call.jd].linked = TRUE]
          /\ UNCHANGED jitDylibs /\ Finish("ok", call.jd)
       \/ /\ ~Adding /\ ~AddingToNothing
          /\ Finish("error", 0) /\ UNCHANGED registry
       \/ /\ AddingToNothing /\ pc' = "crashed"
          /\ UNCHANGED <<world, paths, registry, cache, call, res>>

OpenLibrary ==
    /\ Searching /\ Found /\ call.op \in {"static", "shared"}
    /\ pc' = "opened"
    /\ UNCHANGED <<world, paths, registry, cache, call, res>>

\* The name of a library's dylib is the library's name and #0.
NameTaken(stem, num) ==
    \E d \in DOMAIN dylibs : dylibs[d].stem = stem /\ dylibs[d].num = num

\* isStaticLib or isSharedLib, then the generator's Load, both of which read
\* the file and fail alike; the dylib; and its registration under a name
\* that for a shared library is a dangling pointer.
ReadLibrary ==
    /\ pc = "opened" /\ call.op \in {"static", "shared"}
    /\ \/ /\ ~Readable \/ SessionMayFail
          /\ Finish("error", 0) /\ UNCHANGED registry
       \/ /\ Readable /\ Assertions /\ NameTaken(call.ns, 0)
          /\ pc' = "crashed"
          /\ UNCHANGED <<world, paths, registry, cache, call, res>>
       \/ /\ Readable /\ ~(Assertions /\ NameTaken(call.ns, 0))
          /\ \E k \in Reads[call.ns] :
                Create(k, [Empty(call.ns, 0) EXCEPT
                             !.img = files[Candidate], !.from = Candidate])
          /\ Finish("ok", Len(dylibs) + 1)
-----------------------------------------------------------------------------
(* Code: lookups, modules of LLVM IR, and the object cache                 *)

\* What compiling a dylib's definitions yields.  A module is compiled, and
\* the object cached under the module's identifier, which is the path of
\* the file it was parsed from; the cache is asked first.
UsesCache(d) == EnableObjectCache /\ d.from[3] = "ll"
ObjectOfAny(d) ==                 \* fault: every module has the same identifier
    IF UsesCache(d) /\ \E f \in Files : cache[f] # NoImage
    THEN cache[CHOOSE f \in Files : cache[f] # NoImage] ELSE d.img
ObjectOf(d) ==
    IF UsesCache(d) /\ cache[d.from] # NoImage THEN cache[d.from] ELSE d.img

\* Linking a materialised object: what it takes from the host process must
\* be in the dylib's link order.  A shared library has been linked already.
Links(d, obj) == obj \notin NeedProcess \/ d.linked \/ d.from[3] = "so"

Materialise(i) ==
    LET d == dylibs[i]
        obj == ObjectOf(d)
        run == IF Links(d, obj) THEN obj ELSE Failed
    IN  /\ dylibs' = [dylibs EXCEPT ![i].run = run]
        /\ cache' = IF UsesCache(d) THEN [cache EXCEPT ![d.from] = obj]
                                    ELSE cache

\* lookup, and invokePacked, which calls what lookup returns.
Lookup(n) ==
    LET i == Latest(n)
        outcome(d) == IF d.img # NoImage /\ d.run # Failed THEN "ok"
                                                           ELSE "error"
    IN  /\ Idle
        /\ \/ i = 0 /\ CrashIn("lookup", n)
           \/ /\ i # 0
              /\ IF dylibs[i].img # NoImage /\ dylibs[i].run = Pending
                 THEN Materialise(i)
                 ELSE UNCHANGED <<dylibs, cache>>
              /\ Answer("lookup", n, outcome(dylibs'[i]), i)
              /\ UNCHANGED <<world, paths, jitDylibs, pc, call>>

\* Fault: definitions already in the dylib are replaced.
LoadModuleOver(n, f) ==
    LET i == Latest(n)
    IN  /\ Idle /\ f[3] = "ll" /\ i # 0 /\ files[f] \in Images
        /\ dylibs' = [dylibs EXCEPT ![i].img = files[f], ![i].from = f,
                                    ![i].run = Pending]
        /\ Answer("module", n, "ok", i)
        /\ UNCHANGED <<world, paths, jitDylibs, cache, pc, call>>

\* loadModule: parse a file of LLVM IR and add it to the newest dylib.
LoadModule(n, f) ==
    LET i == Latest(n)
    IN  /\ Idle /\ f[3] = "ll"
        /\ \/ i = 0 /\ CrashIn("module", n)
           \/ /\ i # 0
              /\ IF files[f] \in Images /\ ~Defined(dylibs[i])
                 THEN /\ dylibs' = [dylibs EXCEPT ![i].img = files[f],
                                                  ![i].from = f]
                      /\ Answer("module", n, "ok", i)
                 ELSE Answer("module", n, "error", i) /\ UNCHANGED dylibs
              /\ UNCHANGED <<world, paths, jitDylibs, cache, pc, call>>

\* dumpToObjectFile: writes the object of the one module it expects, which
\* changes nothing here.  Without assertions it writes some cached object;
\* without a cache, or with an empty one, it dereferences what is not there.
DumpToObjectFile ==
    LET objects == {f \in Files : cache[f] # NoImage}
    IN  /\ Idle
        /\ \/ ~EnableObjectCache \/ objects = {}
           \/ Assertions /\ Cardinality(objects) # 1
        /\ CrashIn("dump", "none")

-----------------------------------------------------------------------------
LoadStep == \/ NextPath \/ NotFound
            \/ OpenNamespace \/ ReadObject
            \/ OpenLibrary \/ ReadLibrary

Next ==
    \/ LoadStep \/ DumpToObjectFile
    \/ ApplySereneCLOptions
    \/ \E f \in Volatile, c \in Contents : WriteFile(f, c)
    \/ \E n \in NS :
          \/ CreateEmptyNS(n) \/ CreateFails(n)
          \/ \E op \in DOMAIN LoadOps : BeginLoad(op, n)
          \/ Lookup(n)
          \/ \E f \in Files : LoadModule(n, f)

\* The thread that runs a load call is not suspended for ever.
Spec == Init /\ [][Next]_vars /\ WF_vars(LoadStep)

-----------------------------------------------------------------------------
(* Properties                                                              *)

\* halley.cpp:388-407, 697: no two dylibs that were created for a namespace
\* have the same name, whatever loads, reloads, libraries and failures came
\* before; the session would refuse, or confuse, the second one.
VersionNamesUnique ==
    \A d, e \in DOMAIN dylibs :
        /\ dylibs[d].stem = dylibs[e].stem
        /\ dylibs[d].num = dylibs[e].num /\ dylibs[d].num > 0
        => d = e

\* halley.cpp:143-152: every dylib ever created is filed, once, under one
\* key: no error path loses one, and none is shared by two namespaces.
RegisteredOnce ==
    \A d \in DOMAIN dylibs :
        \E k \in Keys : \E i \in DOMAIN jitDylibs[k] :
            /\ jitDylibs[k][i] = d
            /\ \A l \in Keys : \A j \in DOMAIN jitDylibs[l] :
                  jitDylibs[l][j] = d => l = k /\ j = i

\* halley.cpp:649-661: code from an object file that loadNamespace added is
\* linked to the host process before anyone can look it up, so that no
\* lookup in such a version, old or new, fails to link.
LoadedVersionsRun ==
    \A d \in DOMAIN dylibs :
        dylibs[d].img # NoImage /\ dylibs[d].from[3] = "o"
            => dylibs[d].linked /\ dylibs[d].run # Failed

\* halley.cpp:85-104, 115 of halley.h: what a module runs was read from the
\* module's own path.  Without the cache it is what the module itself holds;
\* with it, every module of a path runs what the first of them to be compiled
\* held, and after an edit of the file that is not what a later one holds.
ModulesRunTheirPathsCode ==
    \A d \in DOMAIN dylibs : dylibs[d].run \in Images =>
        IF UsesCache(dylibs[d])
        THEN /\ \E e \in DOMAIN dylibs :
                   /\ dylibs[e].from = dylibs[d].from
                   /\ dylibs[e].img = dylibs[d].run
             /\ \A e \in DOMAIN dylibs :
                   dylibs[e].from = dylibs[d].from /\ dylibs[e].run \in Images
                       => dylibs[e].run = dylibs[d].run
        ELSE dylibs[d].run = dylibs[d].img

\* halley.cpp:413-450: lookup hands out addresses, so the code a dylib runs
\* is never replaced once it has been looked up, by no load, module, library
\* or lookup that follows.
AddressesStable ==
    [][\A d \in DOMAIN dylibs :
          dylibs[d].run \in Images => dylibs'[d].run = dylibs[d].run]_vars

\* halley.cpp:633-661, 668-725: a load that succeeds leaves its dylib as the
\* one lookups in the namespace use; a library does so if its name ends where
\* it should.
LoadSucceeds == /\ pc = "opened" /\ pc' = "idle" /\ res'.out = "ok"
                /\ call.op = "namespace" \/ Terminated(call.ns)
LoadedIsLatest ==
    [][LoadSucceeds => LatestIn(jitDylibs', res'.ns) = res'.jd]_vars

\* halley.cpp:638-663: a search ends the way the load paths say it must, as
\* far as the files that nobody edits during the call decide it: with the
\* first path that has the file, whose content, as it is when the search
\* ends, decides between success and error, or with "can't find" if no path
\* has it.  So it is for a name that ends where it should, whatever other
\* names are read as; and the session may refuse a library's dylib.
FileAt(i) == <<loadPaths[i], call.ns, LoadOps[call.op]>>
Settled(i) == FileAt(i) \notin edited
IsMissing(i) == Settled(i) => files[FileAt(i)] = Absent
EndsAt(i) ==
    /\ Settled(i) => files[FileAt(i)] # Absent
    /\ \A j \in DOMAIN loadPaths : j < i => IsMissing(j)
    /\ IF files[FileAt(i)] \in Images
       THEN \/ /\ res'.out = "ok"
               /\ dylibs'[res'.jd].img = files[FileAt(i)]
               /\ dylibs'[res'.jd].from = FileAt(i)
            \/ SessionMayFail /\ call.op # "namespace" /\ res'.out = "error"
       ELSE res'.out = "error"
EndsAsExpected ==
    IF res'.out = "notfound" THEN \A i \in DOMAIN loadPaths : IsMissing(i)
                             ELSE \E i \in DOMAIN loadPaths : EndsAt(i)
SearchEnds ==
    pc \in {"search", "opened"} /\ pc' = "idle" /\ Terminated(call.ns)
SearchFollowsLoadPaths == [][SearchEnds => EndsAsExpected]_vars

\* halley.cpp:633-666: a load call returns, or takes the process down; it
\* never searches for ever, whatever happens to the files meanwhile.
LoadReturns == pc \in {"search", "opened"} ~> pc \notin {"search", "opened"}

\* The registry implements DylibRegistry: numbering and append-only lists.
Registry == INSTANCE DylibRegistry WITH
    registered <- [k \in Keys |->
                      [i \in DOMAIN jitDylibs[k] |-> dylibs[jitDylibs[k][i]].num]]
ImplementsRegistry == Registry!Spec

\* halley.cpp:524 ("'jd' must not be null since we just created it."): a
\* namespace load that found its file does not die at that assertion.
DylibJustCreatedIsFound == ~(pc = "crashed" /\ call.op = "namespace")
=============================================================================
