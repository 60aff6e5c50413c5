------------------------------ MODULE HalleyProofs ------------------------------
(* Theorems about Halley, for every set of namespaces, load paths, files   *)
(* and images, every build and every bound.                                *)
EXTENDS Halley, TLAPS

\* What the program counter says of the call in progress.
CallInv ==
    /\ pc \in {"search", "opened"} =>
          call.op \in DOMAIN LoadOps /\ call.ns \in NS /\ call.i \in Nat \ {0}
    /\ pc = "opened" => call.i \in DOMAIN loadPaths
    /\ pc = "opened" /\ call.op = "namespace" =>
          call.jd \in 0 .. Len(dylibs) /\ call.jd = Latest(call.ns)

\* What the registry's entries say of the dylibs, and the other way round.
DylibInv ==
    /\ \A d \in DOMAIN dylibs : dylibs[d].img = NoImage => dylibs[d].run = Pending
    /\ \A d \in DOMAIN dylibs : dylibs[d].img # NoImage => dylibs[d].from \in Files

NumberedInv ==
    \A k \in Keys : \A i \in DOMAIN jitDylibs[k] :
        LET d == dylibs[jitDylibs[k][i]]
        IN  d.num = 0 \/ (d.num = i /\ d.stem = k)

FiledInv ==
    \A d \in DOMAIN dylibs :
        \E k \in Keys : \E i \in DOMAIN jitDylibs[k] : jitDylibs[k][i] = d

OnceInv ==
    \A k, l \in Keys : \A i \in DOMAIN jitDylibs[k], j \in DOMAIN jitDylibs[l] :
        jitDylibs[k][i] = jitDylibs[l][j] => k = l /\ i = j

IInv == TypeOK /\ CallInv /\ DylibInv /\ NumberedInv /\ FiledInv /\ OnceInv
             /\ LoadedVersionsRun

-----------------------------------------------------------------------------
(* A step does one of three things to the registry.                        *)

\* It files a new dylib under k, either numbered and empty or a library ...
Adds(k, d) ==
    /\ d \in Dylib /\ d.run = Pending
    /\ \/ d.stem = k /\ d.num = NextNumber(k) /\ d.img = NoImage
       \/ /\ d.num = 0 /\ d.img # NoImage
          /\ d.from \in Files /\ d.from[3] \in {"a", "so"}
    /\ Create(k, d)

\* ... or it changes the code of dylib i, to e, which keeps what has been run ...
Changes(i, e) ==
    /\ e \in Dylib
    /\ e.stem = dylibs[i].stem /\ e.num = dylibs[i].num
    /\ e.img # NoImage /\ e.from \in Files
    /\ dylibs[i].run # Pending => e.run = dylibs[i].run
    /\ e.from[3] = "o" => e.linked /\ e.run # Failed
    /\ dylibs' = [dylibs EXCEPT ![i] = e]
    /\ UNCHANGED jitDylibs

\* ... or it leaves both alone.
RegistryStep ==
    \/ \E k \in Keys : \E d \in Dylib : Adds(k, d)
    \/ \E i \in DOMAIN dylibs : \E e \in Dylib : Changes(i, e)
    \/ UNCHANGED registry

-----------------------------------------------------------------------------
(* Types of what the actions are built from                                *)

LEMMA Extensions ==
    /\ DOMAIN LoadOps = {"namespace", "static", "shared"}
    /\ LoadOps["namespace"] = "o" /\ LoadOps["static"] = "a"
    /\ LoadOps["shared"] = "so"
    /\ DOMAIN LoadOps \subseteq Ops
BY DEF LoadOps, Ops

LEMMA NamesAreKeys ==
    /\ \A n \in NS : n \in Keys
    /\ \A n \in NS : \A k \in Reads[n] : k \in Keys
BY HalleyAssumption DEF Keys

LEMMA EmptyDylib ==
    ASSUME NEW k \in Keys, NEW n \in Nat
    PROVE  /\ Empty(k, n) \in Dylib
           /\ Empty(k, n).stem = k /\ Empty(k, n).num = n
           /\ Empty(k, n).img = NoImage /\ Empty(k, n).run = Pending
BY DEF Empty, Dylib

LEMMA LatestIsDylib ==
    ASSUME TypeOK, NEW k \in Keys
    PROVE  Latest(k) \in 0 .. Len(dylibs)
<1>1. jitDylibs[k] \in Seq(1 .. Len(dylibs)) /\ Len(dylibs) \in Nat
    BY DEF TypeOK
<1> QED
    BY <1>1 DEF Latest, LatestIn

LEMMA CandidateIsFile ==
    ASSUME TypeOK, CallInv, pc \in {"search", "opened"},
           call.i \in DOMAIN loadPaths
    PROVE  /\ Candidate \in Files
           /\ Candidate[2] = call.ns /\ Candidate[3] = LoadOps[call.op]
           /\ files[Candidate] \in Contents
<1>1. loadPaths[call.i] \in Dirs /\ call.ns \in NS
    BY DEF TypeOK, CallInv
<1>2. LoadOps[call.op] \in Exts
    BY Extensions DEF CallInv, Exts
<1> QED
    BY <1>1, <1>2 DEF Candidate, Files, TypeOK

LEMMA CreateTypes ==
    ASSUME TypeOK, NEW k \in Keys, NEW d \in Dylib, Create(k, d)
    PROVE  /\ dylibs' \in Seq(Dylib)
           /\ Len(dylibs') = Len(dylibs) + 1
           /\ jitDylibs' \in [Keys -> Seq(1 .. Len(dylibs'))]
           /\ LatestIn(jitDylibs', k) = Len(dylibs')
<1>1. /\ dylibs \in Seq(Dylib) /\ Len(dylibs) \in Nat
      /\ jitDylibs \in [Keys -> Seq(1 .. Len(dylibs))]
    BY DEF TypeOK
<1>2. dylibs' = Append(dylibs, d)
    BY DEF Create
<1>3. dylibs' \in Seq(Dylib) /\ Len(dylibs') = Len(dylibs) + 1
    BY <1>1, <1>2
<1>4. \A l \in Keys : jitDylibs[l] \in Seq(1 .. Len(dylibs'))
    BY <1>1, <1>3
<1>5. jitDylibs' = [jitDylibs EXCEPT ![k] = Append(@, Len(dylibs) + 1)]
    BY DEF Create
<1>6. Append(jitDylibs[k], Len(dylibs) + 1) \in Seq(1 .. Len(dylibs'))
    BY <1>1, <1>3, <1>4
<1>7. jitDylibs' \in [Keys -> Seq(1 .. Len(dylibs'))]
    BY <1>1, <1>4, <1>5, <1>6
<1>8. jitDylibs'[k] = Append(jitDylibs[k], Len(dylibs) + 1)
    BY <1>1, <1>5
<1>9. LatestIn(jitDylibs', k) = Len(dylibs) + 1
    <2>1. /\ jitDylibs'[k] # <<>>
          /\ jitDylibs'[k][Len(jitDylibs'[k])] = Len(dylibs) + 1
        <3>1. jitDylibs[k] \in Seq(Nat) /\ Len(dylibs) + 1 \in Nat
            BY <1>1
        <3> QED
            BY <1>8, <3>1
    <2> QED
        BY <2>1 DEF LatestIn
<1> QED
    BY <1>3, <1>7, <1>9

-----------------------------------------------------------------------------
(* Each action keeps the types, and takes a step of the registry           *)

LEMMA QuietSteps ==
    ASSUME IInv,
           \/ NextPath \/ NotFound \/ OpenLibrary \/ DumpToObjectFile
           \/ ApplySereneCLOptions
           \/ \E f \in Volatile, c \in Contents : WriteFile(f, c)
           \/ \E n \in NS : CreateFails(n)
           \/ \E n \in NS : \E op \in DOMAIN LoadOps : BeginLoad(op, n)
    PROVE  TypeOK' /\ CallInv' /\ UNCHANGED registry
<1> USE DEF IInv, TypeOK, CallInv, registry, Latest
<1>1. CASE NextPath
    <2>1. /\ call' = [call EXCEPT !.i = call.i + 1]
          /\ pc = "search" /\ UNCHANGED <<world, paths, registry, cache, pc, res>>
        BY <1>1 DEF NextPath, Searching
    <2>2. /\ call \in [op : Ops, ns : NS \cup {"none"},
                       i : Nat, jd : 0 .. Len(dylibs)]
          /\ call.i \in Nat \ {0} /\ call.i + 1 \in Nat \ {0}
        BY <2>1
    <2>3. /\ call' \in [op : Ops, ns : NS \cup {"none"},
                        i : Nat, jd : 0 .. Len(dylibs)]
          /\ call'.op = call.op /\ call'.ns = call.ns
          /\ call'.i = call.i + 1 /\ call'.jd = call.jd
        BY <2>1, <2>2
    <2> QED
        BY <2>1, <2>2, <2>3 DEF world, paths
<1>2. CASE NotFound
    BY <1>2, Extensions
       DEF NotFound, Finish, Answer, NoCall, Outcomes, Ops, world, paths
<1>3. CASE OpenLibrary
    BY <1>3 DEF OpenLibrary, Searching, world, paths
<1>4. CASE DumpToObjectFile
    BY <1>4 DEF DumpToObjectFile, CrashIn, Start, Ops, world, paths
<1>5. CASE ApplySereneCLOptions
    BY <1>5 DEF ApplySereneCLOptions, Idle, world
<1>6. CASE \E f \in Volatile, c \in Contents : WriteFile(f, c)
    <2>1. PICK f \in Volatile, c \in Contents : WriteFile(f, c)
        BY <1>6
    <2>2. /\ files' \in [Files -> Contents] /\ edits' \in Nat
          /\ edited' \subseteq Files
        BY <2>1, HalleyAssumption DEF WriteFile
    <2> QED
        BY <2>1, <2>2 DEF WriteFile, paths
<1>7. CASE \E n \in NS : CreateFails(n)
    BY <1>7 DEF CreateFails, world, paths
<1>8. CASE \E n \in NS : \E op \in DOMAIN LoadOps : BeginLoad(op, n)
    <2>1. PICK n \in NS, op \in DOMAIN LoadOps : BeginLoad(op, n)
        BY <1>8
    <2>2. CASE loadPaths = <<>>
        BY <2>1, <2>2, Extensions
           DEF BeginLoad, Idle, Answer, Outcomes, world, paths
    <2>3. CASE loadPaths # <<>>
        BY <2>1, <2>3, Extensions DEF BeginLoad, Idle, Start, world, paths
    <2> QED
        BY <2>2, <2>3
<1> QED
    BY <1>1, <1>2, <1>3, <1>4, <1>5, <1>6, <1>7, <1>8

\* createEmptyNS adds an empty dylib, numbered after those of its key.
LEMMA CreateNamespaceDylibAdds ==
    ASSUME TypeOK, NEW n \in NS, CreateNamespaceDylib(n)
    PROVE  \E k \in Keys : \E d \in Dylib : Adds(k, d)
<1>1. PICK k \in Reads[n] : Create(k, Empty(k, NextNumber(k)))
    BY DEF CreateNamespaceDylib
<1> DEFINE d == Empty(k, NextNumber(k))
<1>2. k \in Keys
    BY NamesAreKeys
<1>3. NextNumber(k) \in Nat
    BY <1>2 DEF NextNumber, TypeOK
<1>4. d \in Dylib /\ d.stem = k /\ d.num = NextNumber(k)
      /\ d.img = NoImage /\ d.run = Pending
    BY <1>2, <1>3, EmptyDylib
<1>5. Create(k, d)
    BY <1>1
<1>6. Adds(k, d)
    BY <1>4, <1>5 DEF Adds
<1> QED
    BY <1>2, <1>4, <1>6

\* What an addition leaves well-typed.
LEMMA AddsTypes ==
    ASSUME TypeOK, NEW k \in Keys, NEW d \in Dylib, Adds(k, d)
    PROVE  /\ dylibs' \in Seq(Dylib)
           /\ Len(dylibs') = Len(dylibs) + 1
           /\ 0 .. Len(dylibs) \subseteq 0 .. Len(dylibs')
           /\ jitDylibs' \in [Keys -> Seq(1 .. Len(dylibs'))]
<1>1. Create(k, d)
    BY DEF Adds
<1>2. Len(dylibs) \in Nat
    BY DEF TypeOK
<1> QED
    BY <1>1, <1>2, CreateTypes

LEMMA CreateEmptyNSStep ==
    ASSUME IInv, NEW n \in NS, CreateEmptyNS(n)
    PROVE  TypeOK' /\ CallInv' /\ RegistryStep
<1>1. PICK k \in Keys, d \in Dylib : Adds(k, d)
    BY CreateNamespaceDylibAdds DEF CreateEmptyNS, IInv
<1>2. RegistryStep
    BY <1>1 DEF RegistryStep
<1> QED
    BY <1>1, <1>2, AddsTypes
       DEF CreateEmptyNS, Idle, IInv, TypeOK, CallInv, world, paths

LEMMA OpenNamespaceStep ==
    ASSUME IInv, OpenNamespace
    PROVE  TypeOK' /\ CallInv' /\ RegistryStep
<1> DEFINE jd == LatestIn(jitDylibs', call.ns)
<1>0. TypeOK /\ CallInv /\ call.ns \in NS /\ call.i \in DOMAIN loadPaths
    BY DEF OpenNamespace, Searching, IInv, CallInv
<1>1. PICK k \in Keys, d \in Dylib : Adds(k, d)
    BY <1>0, CreateNamespaceDylibAdds DEF OpenNamespace
<1>2. RegistryStep
    BY <1>1 DEF RegistryStep
<1>3. jd \in 0 .. Len(dylibs')
    <2>1. jitDylibs'[call.ns] \in Seq(1 .. Len(dylibs'))
        BY <1>0, <1>1, AddsTypes, NamesAreKeys
    <2>2. Len(dylibs') \in Nat
        BY <1>0, <1>1, AddsTypes
    <2> QED
        BY <2>1, <2>2 DEF LatestIn
<1> HIDE DEF jd
<1>4. /\ call' = [call EXCEPT !.jd = jd]
      /\ pc' \in {"crashed", "opened"}
      /\ UNCHANGED <<world, paths, cache, res>>
    BY DEF OpenNamespace, jd
<1>5. call' \in [op : Ops, ns : NS \cup {"none"},
                 i : Nat, jd : 0 .. Len(dylibs')]
    BY <1>0, <1>3, <1>4 DEF TypeOK
<1>6. res' \in [op : Ops, ns : NS \cup {"none"},
                out : Outcomes, jd : 0 .. Len(dylibs')]
    BY <1>0, <1>1, <1>4, AddsTypes DEF TypeOK
<1>7. TypeOK'
    BY <1>0, <1>1, <1>4, <1>5, <1>6, AddsTypes DEF TypeOK, world, paths
<1>8. CallInv'
    <2>1. call'.op = call.op /\ call'.ns = call.ns /\ call'.i = call.i
          /\ call'.jd = jd
        BY <1>0, <1>4 DEF TypeOK
    <2>2. jd = Latest(call.ns)'
        BY <2>1 DEF jd, Latest
    <2> QED
        BY <1>0, <1>3, <1>4, <2>1, <2>2
           DEF CallInv, OpenNamespace, Searching, paths
<1> QED
    BY <1>2, <1>7, <1>8

\* What a change leaves well-typed.
LEMMA ChangesTypes ==
    ASSUME TypeOK, NEW i \in DOMAIN dylibs, NEW e \in Dylib, Changes(i, e)
    PROVE  /\ dylibs' \in Seq(Dylib)
           /\ Len(dylibs') = Len(dylibs) /\ DOMAIN dylibs' = DOMAIN dylibs
           /\ jitDylibs' = jitDylibs
           /\ dylibs'[i] = e
           /\ \A j \in DOMAIN dylibs : j # i => dylibs'[j] = dylibs[j]
BY DEF TypeOK, Changes

\* What ReadObject has to do with the registry, when it adds the file.
LEMMA AddingObject ==
    ASSUME IInv, ReadObject, Adding
    PROVE  \E e \in Dylib :
              /\ Changes(call.jd, e) /\ call.jd \in DOMAIN dylibs
              /\ e.img = files[Candidate] /\ e.from = Candidate
              /\ e.run = Pending /\ dylibs[call.jd].run = Pending
<1> DEFINE i == call.jd
           e == [dylibs[i] EXCEPT !.img = files[Candidate],
                                  !.from = Candidate, !.linked = TRUE]
<1>1. /\ TypeOK /\ CallInv /\ DylibInv
      /\ pc = "opened" /\ call.op = "namespace"
      /\ call.i \in DOMAIN loadPaths
    BY DEF ReadObject, IInv, CallInv
<1>2. /\ i \in DOMAIN dylibs /\ dylibs \in Seq(Dylib)
      /\ dylibs[i] \in Dylib /\ Readable /\ ~Defined(dylibs[i])
    BY <1>1 DEF Adding, CallInv, TypeOK
<1>3. Candidate \in Files /\ Candidate[3] = "o"
    BY <1>1, CandidateIsFile, Extensions
<1>4. dylibs' = [dylibs EXCEPT ![i] = e] /\ UNCHANGED jitDylibs
    <2>1. /\ dylibs' = [dylibs EXCEPT ![i].img = files[Candidate],
                                      ![i].from = Candidate,
                                      ![i].linked = TRUE]
          /\ UNCHANGED jitDylibs
        BY DEF ReadObject, Adding, AddingToNothing
    <2> QED
        BY <1>2, <2>1
<1>5. /\ e \in Dylib /\ e.stem = dylibs[i].stem /\ e.num = dylibs[i].num
      /\ e.img = files[Candidate] /\ e.from = Candidate /\ e.linked
      /\ e.run = dylibs[i].run
    BY <1>2, <1>3 DEF Dylib, Readable
<1>6. dylibs[i].run = Pending
    BY <1>1, <1>2 DEF Defined, DylibInv
<1>7. e.run # Failed /\ e.img # NoImage
    BY <1>2, <1>5, <1>6, HalleyAssumption DEF Readable
<1> HIDE DEF e
<1>8. Changes(i, e)
    BY <1>3, <1>4, <1>5, <1>7 DEF Changes
<1> QED
    BY <1>2, <1>5, <1>6, <1>8

LEMMA ReadObjectStep ==
    ASSUME IInv, ReadObject
    PROVE  TypeOK' /\ CallInv' /\ RegistryStep
<1>0. /\ TypeOK /\ CallInv /\ call.ns \in NS /\ "namespace" \in Ops
      /\ pc = "opened" /\ call.op = "namespace"
    BY Extensions DEF ReadObject, IInv, CallInv
<1>1. CASE Adding
    <2>1. PICK e \in Dylib : Changes(call.jd, e) /\ call.jd \in DOMAIN dylibs
        BY <1>1, AddingObject
    <2>2. RegistryStep
        BY <2>1 DEF RegistryStep
    <2>3. /\ dylibs' \in Seq(Dylib) /\ Len(dylibs') = Len(dylibs)
          /\ jitDylibs' = jitDylibs
        BY <1>0, <2>1, ChangesTypes
    <2>4. Finish("ok", call.jd) /\ call.jd \in 0 .. Len(dylibs)
        BY <1>0, <1>1 DEF ReadObject, Adding, AddingToNothing, CallInv
    <2>5. TypeOK'
        BY <1>0, <2>3, <2>4
           DEF TypeOK, Finish, Answer, NoCall, Outcomes, Ops, world, paths
    <2> QED
        BY <2>2, <2>4, <2>5 DEF Finish, CallInv
<1>2. CASE Finish("error", 0) /\ UNCHANGED registry
    <2>1. TypeOK'
        BY <1>0, <1>2
           DEF TypeOK, Finish, Answer, NoCall, Outcomes, Ops, world, paths,
               registry
    <2> QED
        BY <1>2, <2>1 DEF Finish, CallInv, RegistryStep
<1>3. CASE /\ pc' = "crashed"
           /\ UNCHANGED <<world, paths, registry, cache, call, res>>
    BY <1>0, <1>3 DEF TypeOK, CallInv, RegistryStep, world, paths, registry
<1> QED
    BY <1>1, <1>2, <1>3 DEF ReadObject

LEMMA ReadLibraryStep ==
    ASSUME IInv, ReadLibrary
    PROVE  TypeOK' /\ CallInv' /\ RegistryStep
<1>0. /\ TypeOK /\ CallInv /\ pc = "opened" /\ call.op \in {"static", "shared"}
      /\ call.ns \in NS /\ call.i \in DOMAIN loadPaths
    BY DEF ReadLibrary, IInv, CallInv
<1>1. /\ Candidate \in Files /\ Candidate[3] \in {"a", "so"}
      /\ Candidate[2] = call.ns
      /\ call.op \in Ops
    BY <1>0, CandidateIsFile, Extensions
<1>2. CASE Finish("error", 0) /\ UNCHANGED registry
    <2>1. TypeOK'
        BY <1>0, <1>1, <1>2
           DEF TypeOK, Finish, Answer, NoCall, Outcomes, Ops, world, paths,
               registry
    <2> QED
        BY <1>2, <2>1 DEF Finish, CallInv, RegistryStep
<1>3. CASE /\ pc' = "crashed"
           /\ UNCHANGED <<world, paths, registry, cache, call, res>>
    BY <1>0, <1>3 DEF TypeOK, CallInv, RegistryStep, world, paths, registry
<1>4. ASSUME NEW k \in Reads[call.ns], Readable,
             Create(k, [Empty(call.ns, 0) EXCEPT
                          !.img = files[Candidate], !.from = Candidate]),
             Finish("ok", Len(dylibs) + 1)
      PROVE  TypeOK' /\ CallInv' /\ RegistryStep
    <2> DEFINE d == [Empty(call.ns, 0) EXCEPT
                       !.img = files[Candidate], !.from = Candidate]
    <2>1. k \in Keys
        BY <1>0, NamesAreKeys
    <2>2. Empty(call.ns, 0) \in Dylib
          /\ Empty(call.ns, 0).num = 0
          /\ Empty(call.ns, 0).run = Pending
        BY <1>0, NamesAreKeys, EmptyDylib
    <2>3. d \in Dylib /\ d.num = 0 /\ d.run = Pending
          /\ d.img = files[Candidate] /\ d.from = Candidate
        BY <1>1, <1>4, <2>2 DEF Dylib, Readable
    <2>4. d.img # NoImage
        BY <1>4, <2>3, HalleyAssumption DEF Readable
    <2>5. Create(k, d)
        BY <1>4
    <2> HIDE DEF d
    <2>6. Adds(k, d)
        BY <1>1, <2>3, <2>4, <2>5 DEF Adds
    <2>7. RegistryStep
        BY <2>1, <2>3, <2>6 DEF RegistryStep
    <2>8. Len(dylibs) + 1 \in 0 .. Len(dylibs')
          /\ 0 \in 0 .. Len(dylibs')
        <3>1. Len(dylibs) \in Nat
            BY <1>0 DEF TypeOK
        <3> QED
            BY <1>0, <2>1, <2>3, <2>6, <3>1, AddsTypes
    <2>9. TypeOK'
        BY <1>0, <1>1, <1>4, <2>1, <2>3, <2>6, <2>8, AddsTypes
           DEF TypeOK, Finish, Answer, NoCall, Outcomes, Ops, world, paths
    <2> QED
        BY <1>4, <2>7, <2>9 DEF Finish, CallInv
<1> QED
    BY <1>2, <1>3, <1>4 DEF ReadLibrary

\* Materialising a dylib that waits for it.
LEMMA MaterialiseChanges ==
    ASSUME IInv, NEW i \in DOMAIN dylibs, Materialise(i), UNCHANGED jitDylibs,
           dylibs[i].img # NoImage, dylibs[i].run = Pending
    PROVE  /\ \E e \in Dylib : Changes(i, e)
           /\ cache' \in [Files -> Images \cup {NoImage}]
<1> DEFINE d == dylibs[i]
           obj == ObjectOf(d)
           run == IF Links(d, obj) THEN obj ELSE Failed
           e == [d EXCEPT !.run = run]
<1>0. /\ d \in Dylib /\ d.from \in Files /\ d.img \in Images
      /\ cache \in [Files -> Images \cup {NoImage}] /\ dylibs \in Seq(Dylib)
    <2>1. /\ cache \in [Files -> Images \cup {NoImage}]
          /\ dylibs \in Seq(Dylib)
        BY DEF IInv, TypeOK
    <2>2. d \in Dylib
        BY <2>1
    <2>3. d.img \in Images
        BY <2>2 DEF Dylib
    <2>4. d.from \in Files
        BY DEF IInv, DylibInv
    <2> QED
        BY <2>1, <2>2, <2>3, <2>4
<1>1. obj \in Images
    BY <1>0 DEF ObjectOf, UsesCache
<1>2. dylibs' = [dylibs EXCEPT ![i] = e]
    BY <1>0 DEF Materialise
<1>3. cache' = IF UsesCache(d) THEN [cache EXCEPT ![d.from] = obj] ELSE cache
    BY DEF Materialise
<1> HIDE DEF obj
<1>4. run \in Images \cup {Failed}
    BY <1>1
<1>5. d.from[3] = "o" => d.linked /\ run # Failed
    BY <1>0, <1>1, HalleyAssumption DEF IInv, LoadedVersionsRun, Links
<1> HIDE DEF run
<1>6. /\ e \in Dylib /\ e.stem = d.stem /\ e.num = d.num /\ e.img = d.img
      /\ e.from = d.from /\ e.linked = d.linked /\ e.run = run
    BY <1>0, <1>4 DEF Dylib
<1> HIDE DEF e
<1>7. Changes(i, e)
    BY <1>0, <1>2, <1>5, <1>6 DEF Changes
<1>8. cache' \in [Files -> Images \cup {NoImage}]
    BY <1>0, <1>1, <1>3
<1> QED
    BY <1>6, <1>7, <1>8

LEMMA LookupStep ==
    ASSUME IInv, NEW n \in NS, Lookup(n)
    PROVE  TypeOK' /\ CallInv' /\ RegistryStep
<1> DEFINE i == Latest(n)
<1>0. TypeOK /\ CallInv /\ DylibInv /\ Idle
      /\ i \in 0 .. Len(dylibs) /\ Len(dylibs) \in Nat
    BY LatestIsDylib, NamesAreKeys DEF Lookup, IInv, TypeOK
<1>1. CASE i = 0
    <2>1. CrashIn("lookup", n)
        BY <1>1 DEF Lookup
    <2> QED
        BY <1>0, <2>1 DEF CrashIn, Start, TypeOK, CallInv, Ops, RegistryStep,
                          world, paths, registry
<1>2. CASE i # 0
    <2> DEFINE waits == dylibs[i].img # NoImage /\ dylibs[i].run = Pending
    <2>1. /\ IF waits THEN Materialise(i) ELSE UNCHANGED <<dylibs, cache>>
          /\ UNCHANGED <<world, paths, jitDylibs, pc, call>>
          /\ \E out \in {"ok", "error"} : Answer("lookup", n, out, i)
        BY <1>2 DEF Lookup
    <2>2. i \in DOMAIN dylibs
        BY <1>0, <1>2 DEF TypeOK
    <2> HIDE DEF i
    <2>3. CASE waits
        <3>1. PICK e \in Dylib : Changes(i, e)
            BY <2>1, <2>2, <2>3, MaterialiseChanges
        <3>2. cache' \in [Files -> Images \cup {NoImage}]
            BY <2>1, <2>2, <2>3, MaterialiseChanges
        <3>3. dylibs' \in Seq(Dylib) /\ Len(dylibs') = Len(dylibs)
              /\ DOMAIN dylibs' = DOMAIN dylibs
            BY <1>0, <2>2, <3>1, ChangesTypes
        <3>4. res' \in [op : Ops, ns : NS \cup {"none"},
                        out : Outcomes, jd : 0 .. Len(dylibs)]
            BY <1>0, <2>1 DEF Answer, Ops, Outcomes
        <3> QED
            BY <1>0, <2>1, <2>2, <3>1, <3>2, <3>3, <3>4
               DEF TypeOK, CallInv, RegistryStep, world, paths, Idle
    <2>4. CASE ~waits
        <3>1. res' \in [op : Ops, ns : NS \cup {"none"},
                        out : Outcomes, jd : 0 .. Len(dylibs)]
            BY <1>0, <2>1 DEF Answer, Ops, Outcomes
        <3> QED
            BY <1>0, <2>1, <2>4, <3>1
               DEF TypeOK, CallInv, RegistryStep, world, paths, registry, Idle
    <2> QED
        BY <2>3, <2>4
<1> QED
    BY <1>1, <1>2

LEMMA LoadModuleStep ==
    ASSUME IInv, NEW n \in NS, NEW f \in Files, LoadModule(n, f)
    PROVE  TypeOK' /\ CallInv' /\ RegistryStep
<1> DEFINE i == Latest(n)
           e == [dylibs[i] EXCEPT !.img = files[f], !.from = f]
<1>0. TypeOK /\ CallInv /\ DylibInv /\ Idle /\ f[3] = "ll"
      /\ i \in 0 .. Len(dylibs) /\ Len(dylibs) \in Nat
    BY LatestIsDylib, NamesAreKeys DEF LoadModule, IInv, TypeOK
<1>1. CASE i = 0
    <2>1. CrashIn("module", n)
        BY <1>1 DEF LoadModule
    <2> QED
        BY <1>0, <2>1 DEF CrashIn, Start, TypeOK, CallInv, Ops, RegistryStep,
                          world, paths, registry
<1>2. CASE i # 0
    <2> DEFINE adds == files[f] \in Images /\ ~Defined(dylibs[i])
    <2>1. /\ adds => dylibs' = [dylibs EXCEPT ![i].img = files[f],
                                              ![i].from = f]
          /\ ~adds => UNCHANGED dylibs
          /\ UNCHANGED <<world, paths, jitDylibs, cache, pc, call>>
          /\ \E out \in {"ok", "error"} : Answer("module", n, out, i)
        BY <1>2 DEF LoadModule
    <2>2. i \in DOMAIN dylibs /\ dylibs[i] \in Dylib
        BY <1>0, <1>2 DEF TypeOK
    <2>3. res' \in [op : Ops, ns : NS \cup {"none"},
                    out : Outcomes, jd : 0 .. Len(dylibs)]
        BY <1>0, <2>1 DEF Answer, Ops, Outcomes
    <2> HIDE DEF i
    <2>4. CASE adds
        <3>1. dylibs' = [dylibs EXCEPT ![i] = e]
            BY <1>0, <2>1, <2>2, <2>4 DEF TypeOK
        <3>2. /\ e \in Dylib /\ e.stem = dylibs[i].stem /\ e.num = dylibs[i].num
              /\ e.img = files[f] /\ e.from = f /\ e.run = dylibs[i].run
            BY <2>2, <2>4 DEF Dylib
        <3> HIDE DEF e
        <3>3. Changes(i, e)
            BY <1>0, <2>1, <2>4, <3>1, <3>2, HalleyAssumption DEF Changes
        <3>4. dylibs' \in Seq(Dylib) /\ Len(dylibs') = Len(dylibs)
            BY <1>0, <2>2, <3>2, <3>3, ChangesTypes
        <3> QED
            BY <1>0, <2>1, <2>2, <2>3, <3>2, <3>3, <3>4
               DEF TypeOK, CallInv, RegistryStep, world, paths, Idle
    <2>5. CASE ~adds
        BY <1>0, <2>1, <2>3, <2>5
           DEF TypeOK, CallInv, RegistryStep, world, paths, registry, Idle
    <2> QED
        BY <2>4, <2>5
<1> QED
    BY <1>1, <1>2

LEMMA NextSteps ==
    ASSUME IInv, [Next]_vars
    PROVE  TypeOK' /\ CallInv' /\ RegistryStep
<1>1. CASE UNCHANGED vars
    BY <1>1 DEF IInv, TypeOK, CallInv, RegistryStep, Latest,
                vars, world, paths, registry
<1>2. CASE Next
    BY <1>2, QuietSteps, CreateEmptyNSStep, OpenNamespaceStep, ReadObjectStep,
       ReadLibraryStep, LookupStep, LoadModuleStep
       DEF Next, LoadStep, RegistryStep
<1> QED
    BY <1>1, <1>2

-----------------------------------------------------------------------------
(* What steps of the registry preserve                                     *)

\* The view of an addition that the invariants need.
LEMMA AddsView ==
    ASSUME TypeOK, NEW k \in Keys, NEW d \in Dylib, Adds(k, d)
    PROVE  LET new == Len(dylibs) + 1
               pos == Len(jitDylibs[k]) + 1
           IN  /\ new \notin DOMAIN dylibs /\ DOMAIN dylibs' = DOMAIN dylibs \cup {new}
               /\ dylibs'[new] = d
               /\ \A e \in DOMAIN dylibs : dylibs'[e] = dylibs[e]
               /\ pos \notin DOMAIN jitDylibs[k]
               /\ DOMAIN jitDylibs'[k] = DOMAIN jitDylibs[k] \cup {pos}
               /\ jitDylibs'[k][pos] = new
               /\ \A i \in DOMAIN jitDylibs[k] :
                     jitDylibs'[k][i] = jitDylibs[k][i]
               /\ \A l \in Keys \ {k} : jitDylibs'[l] = jitDylibs[l]
               /\ \A l \in Keys : \A i \in DOMAIN jitDylibs[l] :
                     jitDylibs[l][i] \in DOMAIN dylibs
<1> DEFINE new == Len(dylibs) + 1
           pos == Len(jitDylibs[k]) + 1
<1>1. /\ dylibs' = Append(dylibs, d)
      /\ jitDylibs' = [jitDylibs EXCEPT ![k] = Append(@, new)]
    BY DEF Adds, Create
<1>2. /\ dylibs \in Seq(Dylib) /\ jitDylibs \in [Keys -> Seq(1 .. Len(dylibs))]
      /\ jitDylibs[k] \in Seq(Nat) /\ Len(dylibs) \in Nat
    BY DEF TypeOK
<1>3. /\ new \notin DOMAIN dylibs /\ DOMAIN dylibs' = DOMAIN dylibs \cup {new}
      /\ dylibs'[new] = d
      /\ \A e \in DOMAIN dylibs : dylibs'[e] = dylibs[e]
    BY <1>1, <1>2
<1>4. jitDylibs'[k] = Append(jitDylibs[k], new)
    BY <1>1, <1>2
<1>5. /\ pos \notin DOMAIN jitDylibs[k]
      /\ DOMAIN jitDylibs'[k] = DOMAIN jitDylibs[k] \cup {pos}
      /\ jitDylibs'[k][pos] = new
      /\ \A i \in DOMAIN jitDylibs[k] : jitDylibs'[k][i] = jitDylibs[k][i]
    BY <1>2, <1>4
<1>6. \A l \in Keys \ {k} : jitDylibs'[l] = jitDylibs[l]
    BY <1>1, <1>2
<1>7. \A l \in Keys : \A i \in DOMAIN jitDylibs[l] :
         jitDylibs[l][i] \in DOMAIN dylibs
    BY <1>2
<1> QED
    BY <1>3, <1>5, <1>6, <1>7

LEMMA AddsKeeps ==
    ASSUME IInv, NEW k \in Keys, NEW d \in Dylib, Adds(k, d)
    PROVE  DylibInv' /\ NumberedInv' /\ FiledInv' /\ OnceInv'
              /\ LoadedVersionsRun'
<1> DEFINE new == Len(dylibs) + 1
           pos == Len(jitDylibs[k]) + 1
<1>0. TypeOK
    BY DEF IInv
<1>1. /\ new \notin DOMAIN dylibs /\ DOMAIN dylibs' = DOMAIN dylibs \cup {new}
      /\ dylibs'[new] = d
      /\ \A e \in DOMAIN dylibs : dylibs'[e] = dylibs[e]
    BY <1>0, AddsView
<1>2. /\ pos \notin DOMAIN jitDylibs[k]
      /\ DOMAIN jitDylibs'[k] = DOMAIN jitDylibs[k] \cup {pos}
      /\ jitDylibs'[k][pos] = new
      /\ \A i \in DOMAIN jitDylibs[k] : jitDylibs'[k][i] = jitDylibs[k][i]
      /\ \A l \in Keys \ {k} : jitDylibs'[l] = jitDylibs[l]
    BY <1>0, AddsView
<1>3. \A l \in Keys : \A i \in DOMAIN jitDylibs[l] :
         jitDylibs[l][i] \in DOMAIN dylibs
    BY <1>0, AddsView
<1>4. /\ d.run = Pending
      /\ \/ d.stem = k /\ d.num = pos /\ d.img = NoImage
         \/ /\ d.num = 0 /\ d.img # NoImage
            /\ d.from \in Files /\ d.from[3] # "o"
    BY DEF Adds, NextNumber
<1> HIDE DEF new, pos
<1>5. DylibInv'
    BY <1>1, <1>4 DEF IInv, DylibInv
<1>6. LoadedVersionsRun'
    BY <1>1, <1>4 DEF IInv, LoadedVersionsRun
<1>7. NumberedInv'
    <2> SUFFICES ASSUME NEW l \in Keys, NEW i \in DOMAIN jitDylibs'[l]
                 PROVE  LET e == dylibs'[jitDylibs'[l][i]]
                        IN  e.num = 0 \/ (e.num = i /\ e.stem = l)
        BY DEF NumberedInv
    <2>1. CASE l = k /\ i = pos
        BY <1>1, <1>2, <1>4, <2>1
    <2>2. CASE ~(l = k /\ i = pos)
        <3>1. i \in DOMAIN jitDylibs[l] /\ jitDylibs'[l][i] = jitDylibs[l][i]
            BY <1>2, <2>2
        <3> QED
            BY <1>1, <1>3, <3>1 DEF IInv, NumberedInv
    <2> QED
        BY <2>1, <2>2
<1>8. FiledInv'
    <2> SUFFICES ASSUME NEW e \in DOMAIN dylibs'
                 PROVE  \E l \in Keys : \E i \in DOMAIN jitDylibs'[l] :
                           jitDylibs'[l][i] = e
        BY DEF FiledInv
    <2>1. CASE e = new
        BY <1>2, <2>1
    <2>2. CASE e \in DOMAIN dylibs
        <3>1. PICK l \in Keys : \E i \in DOMAIN jitDylibs[l] : jitDylibs[l][i] = e
            BY <2>2 DEF IInv, FiledInv
        <3>2. PICK i \in DOMAIN jitDylibs[l] : jitDylibs[l][i] = e
            BY <3>1
        <3>3. i \in DOMAIN jitDylibs'[l] /\ jitDylibs'[l][i] = e
            BY <1>2, <3>2
        <3> QED
            BY <3>3
    <2> QED
        BY <1>1, <2>1, <2>2
<1>9. OnceInv'
    <2> SUFFICES ASSUME NEW l \in Keys, NEW m \in Keys,
                        NEW i \in DOMAIN jitDylibs'[l],
                        NEW j \in DOMAIN jitDylibs'[m],
                        jitDylibs'[l][i] = jitDylibs'[m][j]
                 PROVE  l = m /\ i = j
        BY DEF OnceInv
    <2>1. \/ l = k /\ i = pos /\ jitDylibs'[l][i] = new
          \/ /\ i \in DOMAIN jitDylibs[l] /\ jitDylibs'[l][i] = jitDylibs[l][i]
             /\ jitDylibs[l][i] \in DOMAIN dylibs
        BY <1>2, <1>3
    <2>2. \/ m = k /\ j = pos /\ jitDylibs'[m][j] = new
          \/ /\ j \in DOMAIN jitDylibs[m] /\ jitDylibs'[m][j] = jitDylibs[m][j]
             /\ jitDylibs[m][j] \in DOMAIN dylibs
        BY <1>2, <1>3
    <2> QED
        BY <1>1, <2>1, <2>2 DEF IInv, OnceInv
<1> QED
    BY <1>5, <1>6, <1>7, <1>8, <1>9

LEMMA ChangesKeeps ==
    ASSUME IInv, NEW i \in DOMAIN dylibs, NEW e \in Dylib, Changes(i, e)
    PROVE  DylibInv' /\ NumberedInv' /\ FiledInv' /\ OnceInv'
              /\ LoadedVersionsRun'
<1>0. TypeOK
    BY DEF IInv
<1>1. /\ DOMAIN dylibs' = DOMAIN dylibs /\ jitDylibs' = jitDylibs
      /\ dylibs'[i] = e
      /\ \A j \in DOMAIN dylibs : j # i => dylibs'[j] = dylibs[j]
    BY <1>0, ChangesTypes
<1>2. /\ e.stem = dylibs[i].stem /\ e.num = dylibs[i].num
      /\ e.img # NoImage /\ e.from \in Files
      /\ e.from[3] = "o" => e.linked /\ e.run # Failed
    BY DEF Changes
<1>3. DylibInv' /\ LoadedVersionsRun'
    BY <1>1, <1>2 DEF IInv, DylibInv, LoadedVersionsRun
<1>4. FiledInv' /\ OnceInv'
    BY <1>1 DEF IInv, FiledInv, OnceInv
<1>5. NumberedInv'
    <2>1. \A k \in Keys : \A p \in DOMAIN jitDylibs[k] :
             jitDylibs[k][p] \in DOMAIN dylibs
        BY <1>0 DEF TypeOK
    <2>2. \A j \in DOMAIN dylibs : /\ dylibs'[j].num = dylibs[j].num
                                   /\ dylibs'[j].stem = dylibs[j].stem
        BY <1>1, <1>2
    <2> QED
        BY <1>1, <2>1, <2>2 DEF IInv, NumberedInv
<1> QED
    BY <1>3, <1>4, <1>5

-----------------------------------------------------------------------------
(* Theorems                                                                *)

LEMMA InitInvariant == Init => IInv
<1> SUFFICES ASSUME Init PROVE IInv
    OBVIOUS
<1>1. DOMAIN dylibs = {} /\ dylibs \in Seq(Dylib)
      /\ \A k \in Keys : DOMAIN jitDylibs[k] = {}
    BY DEF Init
<1>2. TypeOK
    BY HalleyAssumption
       DEF Init, TypeOK, NoCall, NoAnswer, Ops, Outcomes
<1>3. CallInv
    BY DEF Init, CallInv
<1>4. DylibInv /\ NumberedInv /\ FiledInv /\ OnceInv /\ LoadedVersionsRun
    BY <1>1 DEF DylibInv, NumberedInv, FiledInv, OnceInv, LoadedVersionsRun
<1> QED
    BY <1>2, <1>3, <1>4 DEF IInv

LEMMA NextInvariant == IInv /\ [Next]_vars => IInv'
<1> SUFFICES ASSUME IInv, [Next]_vars PROVE IInv'
    OBVIOUS
<1>1. TypeOK' /\ CallInv' /\ RegistryStep
    BY NextSteps
<1>2. CASE \E k \in Keys : \E d \in Dylib : Adds(k, d)
    BY <1>1, <1>2, AddsKeeps DEF IInv
<1>3. CASE \E i \in DOMAIN dylibs : \E e \in Dylib : Changes(i, e)
    BY <1>1, <1>3, ChangesKeeps DEF IInv
<1>4. CASE UNCHANGED registry
    BY <1>1, <1>4 DEF IInv, registry, DylibInv, NumberedInv, FiledInv, OnceInv,
                      LoadedVersionsRun
<1> QED
    BY <1>1, <1>2, <1>3, <1>4 DEF RegistryStep

LEMMA InvariantHolds == Spec => []IInv
BY InitInvariant, NextInvariant, PTL DEF Spec

\* Every state the engine reaches is well-typed; in particular every entry of
\* the registry is a dylib of the session.
THEOREM TypeCorrect == Spec => []TypeOK
<1>1. IInv => TypeOK
    BY DEF IInv
<1> QED
    BY <1>1, InvariantHolds, PTL

\* No two dylibs created for namespaces have the same name, in any build and
\* with whatever bytes after the names.
THEOREM NamesUnique == Spec => []VersionNamesUnique
<1>1. IInv => VersionNamesUnique
    <2> SUFFICES ASSUME IInv, NEW d \in DOMAIN dylibs, NEW e \in DOMAIN dylibs,
                        dylibs[d].stem = dylibs[e].stem,
                        dylibs[d].num = dylibs[e].num, dylibs[d].num > 0
                 PROVE  d = e
        BY DEF VersionNamesUnique
    <2>1. \E k \in Keys : \E i \in DOMAIN jitDylibs[k] :
             /\ jitDylibs[k][i] = d
             /\ dylibs[d].num = i /\ dylibs[d].stem = k
        BY DEF IInv, FiledInv, NumberedInv
    <2>2. \E k \in Keys : \E i \in DOMAIN jitDylibs[k] :
             /\ jitDylibs[k][i] = e
             /\ dylibs[e].num = i /\ dylibs[e].stem = k
        BY DEF IInv, FiledInv, NumberedInv
    <2> QED
        BY <2>1, <2>2
<1> QED
    BY <1>1, InvariantHolds, PTL

\* Every dylib is filed exactly once.
THEOREM FiledOnce == Spec => []RegisteredOnce
<1>1. IInv => RegisteredOnce
    BY DEF IInv, FiledInv, OnceInv, RegisteredOnce
<1> QED
    BY <1>1, InvariantHolds, PTL

\* No lookup in a version loaded from an object file fails to link.
THEOREM LoadedVersionsLink == Spec => []LoadedVersionsRun
<1>1. IInv => LoadedVersionsRun
    BY DEF IInv
<1> QED
    BY <1>1, InvariantHolds, PTL

\* An address handed out by a lookup stays what it was.
THEOREM AddressesNeverChange == Spec => AddressesStable
<1> DEFINE Stable == \A d \in DOMAIN dylibs :
                        dylibs[d].run \in Images => dylibs'[d].run = dylibs[d].run
<1>1. IInv /\ [Next]_vars => [Stable]_vars
    <2> SUFFICES ASSUME IInv, [Next]_vars PROVE Stable
        OBVIOUS
    <2>0. TypeOK
        BY DEF IInv
    <2>1. ASSUME NEW k \in Keys, NEW d \in Dylib, Adds(k, d) PROVE Stable
        BY <2>0, <2>1, AddsView
    <2>2. ASSUME NEW i \in DOMAIN dylibs, NEW e \in Dylib, Changes(i, e)
          PROVE  Stable
        <3>1. dylibs[i].run \in Images => e.run = dylibs[i].run
            BY <2>2, HalleyAssumption DEF Changes
        <3> QED
            BY <2>0, <2>2, <3>1, ChangesTypes
    <2>3. CASE UNCHANGED registry
        BY <2>3 DEF registry
    <2> QED
        BY <2>1, <2>2, <2>3, NextSteps DEF RegistryStep
<1> QED
    BY <1>1, InvariantHolds, PTL DEF Spec, AddressesStable

LEMMA ReadObjectLatest ==
    ASSUME IInv, ReadObject, res'.out = "ok", pc' = "idle"
    PROVE  LatestIn(jitDylibs', res'.ns) = res'.jd
<1>1. /\ res' = [op |-> call.op, ns |-> call.ns, out |-> "ok", jd |-> call.jd]
      /\ UNCHANGED jitDylibs
    BY DEF ReadObject, Finish, Answer, registry
<1>2. call.jd = Latest(call.ns)
    BY DEF ReadObject, IInv, CallInv
<1> QED
    BY <1>1, <1>2 DEF Latest

LEMMA ReadLibraryLatest ==
    ASSUME IInv, Terminated(call.ns), ReadLibrary, pc' = "idle", res'.out = "ok"
    PROVE  LatestIn(jitDylibs', res'.ns) = res'.jd
<1>1. TypeOK /\ call.ns \in NS
    BY DEF ReadLibrary, IInv, CallInv
<1> DEFINE k == call.ns
           d == [Empty(k, 0) EXCEPT !.img = files[Candidate], !.from = Candidate]
<1>2. /\ Create(k, d) /\ Readable
      /\ res' = [op |-> call.op, ns |-> call.ns, out |-> "ok", jd |-> Len(dylibs) + 1]
    <2>1. PICK l \in Reads[call.ns] : Create(l, d)
        BY DEF ReadLibrary, Finish, Answer
    <2>2. l = call.ns
        BY DEF Terminated
    <2> QED
        BY <2>1, <2>2 DEF ReadLibrary, Finish, Answer
<1>3. Candidate \in Files
    BY <1>1, CandidateIsFile DEF ReadLibrary, IInv, CallInv
<1>4. k \in Keys /\ Empty(k, 0) \in Dylib
    BY <1>1, NamesAreKeys, EmptyDylib
<1>5. d \in Dylib
    BY <1>2, <1>3, <1>4 DEF Dylib, Readable
<1> HIDE DEF d, k
<1>6. LatestIn(jitDylibs', k) = Len(dylibs) + 1
    BY <1>1, <1>2, <1>4, <1>5, CreateTypes
<1> QED
    BY <1>2, <1>6 DEF k

\* The load call in progress ends only in these steps.
LEMMA LoadEndsBy ==
    ASSUME [Next]_vars, pc \in {"search", "opened"}, pc' = "idle"
    PROVE  /\ NotFound \/ ReadObject \/ ReadLibrary
           /\ pc = "opened" => ReadObject \/ ReadLibrary
BY DEF Next, LoadStep, NextPath, NotFound, OpenNamespace, OpenLibrary, Searching,
       DumpToObjectFile, CrashIn, ApplySereneCLOptions, WriteFile, CreateEmptyNS,
       CreateFails, BeginLoad, Lookup, LoadModule, Idle, vars

\* A load that succeeds leaves its dylib as the newest of its namespace: always
\* so for an object file, whatever the names are read as, and for a library
\* whose name ends where it should.
THEOREM LoadsBecomeLatest == Spec => LoadedIsLatest
<1>1. IInv /\ [Next]_vars =>
        [LoadSucceeds => LatestIn(jitDylibs', res'.ns) = res'.jd]_vars
    <2> SUFFICES ASSUME IInv, [Next]_vars, LoadSucceeds
                 PROVE  LatestIn(jitDylibs', res'.ns) = res'.jd
        OBVIOUS
    <2>1. ReadObject \/ ReadLibrary
        BY LoadEndsBy DEF LoadSucceeds
    <2>2. ReadLibrary => Terminated(call.ns)
        BY DEF LoadSucceeds, ReadLibrary
    <2> QED
        BY <2>1, <2>2, ReadObjectLatest, ReadLibraryLatest DEF LoadSucceeds
<1> QED
    BY <1>1, InvariantHolds, PTL DEF Spec, LoadedIsLatest

-----------------------------------------------------------------------------
(* Searches for names that end where they should                           *)

\* The paths before the one a search looks at did not have the file when it
\* looked, the one it has stopped at did, and the dylib made for an object
\* file is empty.
SearchInv ==
    /\ pc \in {"search", "opened"} =>
          \A j \in DOMAIN loadPaths : j < call.i => IsMissing(j)
    /\ pc = "opened" => (Settled(call.i) => Found)
    /\ pc = "opened" /\ call.op = "namespace" /\ Terminated(call.ns) =>
          call.jd \in DOMAIN dylibs /\ dylibs[call.jd].img = NoImage

\* A search starts, goes on, stops at a file, or is not touched.
LEMMA SearchGoesBy ==
    ASSUME [Next]_vars, pc' \in {"search", "opened"}
    PROVE  \/ NextPath \/ OpenNamespace \/ OpenLibrary
           \/ \E n \in NS : \E op \in DOMAIN LoadOps : BeginLoad(op, n)
           \/ \E f \in Volatile, c \in Contents : WriteFile(f, c)
           \/ UNCHANGED vars
           \/ pc \notin {"search", "opened"} /\ UNCHANGED <<pc>>
BY DEF Next, LoadStep, NotFound, ReadObject, ReadLibrary, Finish,
       DumpToObjectFile, CrashIn, ApplySereneCLOptions, CreateEmptyNS,
       CreateFails, Lookup, LoadModule, Idle

LEMMA OpenedDylibIsEmpty ==
    ASSUME IInv, Terminated(call.ns), OpenNamespace
    PROVE  call'.jd \in DOMAIN dylibs' /\ dylibs'[call'.jd].img = NoImage
<1>1. TypeOK /\ call.ns \in NS
    BY DEF OpenNamespace, Searching, IInv, CallInv
<1> DEFINE k == call.ns
           d == Empty(k, NextNumber(k))
<1>2. Create(k, d)
    <2>1. PICK l \in Reads[call.ns] : Create(l, Empty(l, NextNumber(l)))
        BY DEF OpenNamespace, CreateNamespaceDylib
    <2>2. l = call.ns
        BY DEF Terminated
    <2> QED
        BY <2>1, <2>2
<1>3. k \in Keys /\ NextNumber(k) \in Nat
    BY <1>1, NamesAreKeys DEF NextNumber, TypeOK
<1>4. d \in Dylib /\ d.img = NoImage
    BY <1>3, EmptyDylib
<1>5. call'.jd = LatestIn(jitDylibs', k)
    BY <1>1 DEF OpenNamespace, TypeOK
<1> HIDE DEF d, k
<1>6. LatestIn(jitDylibs', k) = Len(dylibs) + 1
    BY <1>1, <1>2, <1>3, <1>4, CreateTypes
<1>7. /\ dylibs'[Len(dylibs) + 1] = d
      /\ Len(dylibs) + 1 \in DOMAIN dylibs'
    BY <1>1, <1>2, <1>4 DEF Create, TypeOK
<1> QED
    BY <1>4, <1>5, <1>6, <1>7

LEMMA SearchStep ==
    ASSUME IInv, SearchInv, [Next]_vars
    PROVE  SearchInv'
<1> SUFFICES ASSUME pc' \in {"search", "opened"} PROVE SearchInv'
    BY DEF SearchInv
<1> USE DEF FileAt, Settled, IsMissing, Found, Candidate
<1>0. TypeOK /\ CallInv
    BY DEF IInv
<1>1. CASE NextPath
    <2>1. /\ pc = "search" /\ pc' = "search" /\ UNCHANGED <<files, edited, loadPaths>>
          /\ files[FileAt(call.i)] = Absent
        BY <1>1 DEF NextPath, Searching, world, paths
    <2>2. /\ call'.i = call.i + 1 /\ call'.ns = call.ns /\ call'.op = call.op
          /\ call.i \in Nat
        BY <1>0, <1>1 DEF NextPath, TypeOK
    <2>3. \A j \in DOMAIN loadPaths : j < call'.i => j < call.i \/ j = call.i
        BY <1>0, <2>2 DEF TypeOK
    <2> QED
        BY <2>1, <2>2, <2>3 DEF SearchInv
<1>2. CASE OpenNamespace
    <2>1. /\ pc = "search" /\ Found /\ UNCHANGED <<files, edited, loadPaths>>
          /\ call'.i = call.i /\ call'.ns = call.ns /\ call'.op = call.op
        BY <1>0, <1>2 DEF OpenNamespace, Searching, TypeOK, world, paths
    <2>2. Terminated(call.ns) =>
             call'.jd \in DOMAIN dylibs' /\ dylibs'[call'.jd].img = NoImage
        BY <1>2, OpenedDylibIsEmpty
    <2> QED
        BY <2>1, <2>2 DEF SearchInv
<1>3. CASE OpenLibrary
    BY <1>3 DEF OpenLibrary, Searching, SearchInv, world, paths
<1>4. CASE \E n \in NS : \E op \in DOMAIN LoadOps : BeginLoad(op, n)
    <2>1. PICK n \in NS, op \in DOMAIN LoadOps : BeginLoad(op, n)
        BY <1>4
    <2>2. pc' = "search" /\ call'.i = 1 /\ UNCHANGED loadPaths
        BY <2>1 DEF BeginLoad, Idle, Start, paths
    <2>3. \A j \in DOMAIN loadPaths : ~(j < 1)
        BY <1>0 DEF TypeOK
    <2> QED
        BY <2>2, <2>3 DEF SearchInv
<1>5. CASE \E f \in Volatile, c \in Contents : WriteFile(f, c)
    <2>1. PICK f \in Volatile, c \in Contents : WriteFile(f, c)
        BY <1>5
    <2>2. /\ edited' = edited \cup {f}
          /\ \A g \in Files : g # f => files'[g] = files[g]
          /\ UNCHANGED <<dylibs, loadPaths, pc, call>>
        BY <1>0, <2>1 DEF WriteFile, registry, paths, TypeOK
    <2>3. ASSUME NEW j \in DOMAIN loadPaths, call.ns \in NS,
                 call.op \in DOMAIN LoadOps
          PROVE  FileAt(j) \in Files
        BY <1>0, <2>3, Extensions DEF TypeOK, Files, Exts
    <2>4. pc \in {"search", "opened"} =>
             \A j \in DOMAIN loadPaths : FileAt(j) \notin edited' =>
                /\ FileAt(j) \notin edited
                /\ files'[FileAt(j)] = files[FileAt(j)]
        BY <1>0, <2>2, <2>3 DEF CallInv
    <2>5. pc = "opened" => call.i \in DOMAIN loadPaths
        BY <1>0 DEF CallInv
    <2> QED
        BY <2>2, <2>4, <2>5 DEF SearchInv
<1>6. CASE UNCHANGED vars
    BY <1>6 DEF SearchInv, vars, world, paths, registry
<1> QED
    BY <1>1, <1>2, <1>3, <1>4, <1>5, <1>6, SearchGoesBy DEF SearchInv

\* A search ends the way the load paths say, for any number of load paths,
\* while other programs edit the files: what nobody edited since the call began
\* decides it, and a success is with what the file holds when it is read.
THEOREM SearchesFollowLoadPaths == Spec => SearchFollowsLoadPaths
<1>1. Init => SearchInv
    BY DEF Init, SearchInv
<1>2. IInv /\ SearchInv /\ [Next]_vars => SearchInv'
    BY SearchStep
<1>3. IInv /\ SearchInv /\ [Next]_vars => [SearchEnds => EndsAsExpected]_vars
    <2> SUFFICES ASSUME IInv, SearchInv, [Next]_vars, SearchEnds
                 PROVE  EndsAsExpected
        OBVIOUS
    <2>0. TypeOK /\ CallInv /\ Terminated(call.ns)
        BY DEF IInv, SearchEnds
    <2>1. CASE NotFound
        <3>1. call.i \in Nat \ {0} /\ call.i \notin DOMAIN loadPaths /\ pc = "search"
            BY <2>0, <2>1 DEF NotFound, CallInv
        <3>2. \A j \in DOMAIN loadPaths : j < call.i
            BY <2>0, <3>1 DEF TypeOK
        <3>3. res'.out = "notfound"
            BY <2>1 DEF NotFound, Finish, Answer
        <3> QED
            BY <3>1, <3>2, <3>3 DEF SearchInv, EndsAsExpected
    <2>2. ASSUME pc = "opened",
                 res'.out # "notfound",
                 IF Readable
                 THEN \/ /\ res'.out = "ok"
                         /\ dylibs'[res'.jd].img = files[Candidate]
                         /\ dylibs'[res'.jd].from = Candidate
                      \/ SessionMayFail /\ call.op # "namespace" /\ res'.out = "error"
                 ELSE res'.out = "error"
          PROVE  EndsAsExpected
        <3>1. call.i \in DOMAIN loadPaths /\ Candidate = FileAt(call.i)
            BY <2>0, <2>2 DEF CallInv, Candidate, FileAt
        <3>2. /\ Settled(call.i) => files[FileAt(call.i)] # Absent
              /\ \A j \in DOMAIN loadPaths : j < call.i => IsMissing(j)
            BY <2>2, <3>1 DEF SearchInv, Found
        <3>3. EndsAt(call.i)
            BY <2>2, <3>1, <3>2 DEF EndsAt, Readable
        <3> QED
            BY <2>2, <3>1, <3>3 DEF EndsAsExpected
    <2>3. CASE ReadObject
        <3>1. /\ pc = "opened" /\ call.jd \in DOMAIN dylibs
              /\ dylibs[call.jd].img = NoImage
            BY <2>0, <2>3 DEF ReadObject, SearchInv
        <3>2. ~Defined(dylibs[call.jd]) /\ call.jd # 0
            BY <2>0, <3>1 DEF Defined, TypeOK
        <3>3. CASE Readable
            <4>1. Adding
                BY <3>2, <3>3 DEF Adding
            <4>2. PICK e \in Dylib :
                     /\ Changes(call.jd, e)
                     /\ e.img = files[Candidate] /\ e.from = Candidate
                BY <2>3, <4>1, AddingObject
            <4>3. dylibs'[call.jd] = e
                BY <2>0, <3>1, <4>2, ChangesTypes
            <4>4. res'.out = "ok" /\ res'.jd = call.jd
                BY <2>3, <4>1 DEF ReadObject, Finish, Answer, Adding, AddingToNothing
            <4> QED
                BY <2>2, <3>1, <3>3, <4>2, <4>3, <4>4
        <3>4. CASE ~Readable
            <4>1. res'.out = "error"
                BY <2>3, <3>4, <3>2
                   DEF ReadObject, Finish, Answer, Adding, AddingToNothing
            <4> QED
                BY <2>2, <3>1, <3>4, <4>1
        <3> QED
            BY <3>3, <3>4
    <2>4. CASE ReadLibrary
        <3>1. pc = "opened" /\ pc' # "crashed" /\ call.op # "namespace"
            BY <2>4 DEF ReadLibrary, SearchEnds
        <3>2. CASE Readable /\ res'.out # "error"
            <4> DEFINE d == [Empty(call.ns, 0) EXCEPT
                               !.img = files[Candidate], !.from = Candidate]
            <4>1. dylibs' = Append(dylibs, d) /\ res'.out = "ok"
                  /\ res'.jd = Len(dylibs) + 1
                BY <2>4, <3>1, <3>2 DEF ReadLibrary, Finish, Answer, Create
            <4>2. d.img = files[Candidate] /\ d.from = Candidate
                BY DEF Empty
            <4> HIDE DEF d
            <4>3. dylibs'[Len(dylibs) + 1] = d
                BY <2>0, <4>1 DEF TypeOK
            <4> QED
                BY <2>2, <3>1, <3>2, <4>1, <4>2, <4>3
        <3>3. CASE ~(Readable /\ res'.out # "error")
            <4>1. res'.out = "error" /\ (Readable => SessionMayFail)
                BY <2>4, <3>1, <3>3 DEF ReadLibrary, Finish, Answer
            <4> QED
                BY <2>2, <3>1, <4>1
        <3> QED
            BY <3>2, <3>3
    <2> QED
        BY <2>1, <2>3, <2>4, LoadEndsBy DEF SearchEnds
<1> QED
    BY <1>1, <1>2, <1>3, InvariantHolds, PTL DEF Spec, SearchFollowsLoadPaths

-----------------------------------------------------------------------------
(* The object cache, whatever is edited                                    *)

\* What the cache holds for a path was held by a module from that path that
\* has been compiled; and a dylib that was looked up runs what its code is
\* compiled to.
CacheInv ==
    /\ \A f \in Files : cache[f] # NoImage =>
          \E e \in DOMAIN dylibs : /\ dylibs[e].from = f /\ dylibs[e].img = cache[f]
                                  /\ dylibs[e].run # Pending
    /\ \A d \in DOMAIN dylibs : dylibs[d].run \in Images =>
          dylibs[d].run = IF UsesCache(dylibs[d]) THEN cache[dylibs[d].from]
                                                  ELSE dylibs[d].img

\* New code in dylib i, which has not been looked up and is not now.
Defines(i, e) ==
    /\ e \in Dylib /\ e.run = Pending /\ dylibs[i].run = Pending
    /\ dylibs' = [dylibs EXCEPT ![i] = e]
    /\ UNCHANGED cache

CodeStep ==
    \/ \E k \in Keys : \E d \in Dylib : Adds(k, d) /\ UNCHANGED cache
    \/ \E i \in DOMAIN dylibs : \E e \in Dylib : Defines(i, e)
    \/ \E i \in DOMAIN dylibs : /\ dylibs[i].img # NoImage /\ dylibs[i].run = Pending
                               /\ Materialise(i)
    \/ UNCHANGED <<dylibs, cache>>

LEMMA ReadObjectDefines ==
    ASSUME IInv, ReadObject
    PROVE  CodeStep
<1>1. CASE Adding
    <2>1. PICK e \in Dylib : /\ Changes(call.jd, e) /\ call.jd \in DOMAIN dylibs
                            /\ e.run = Pending /\ dylibs[call.jd].run = Pending
        BY <1>1, AddingObject
    <2>2. UNCHANGED cache
        BY DEF ReadObject, Finish
    <2>3. Defines(call.jd, e)
        BY <2>1, <2>2 DEF Changes, Defines
    <2> QED
        BY <2>1, <2>3 DEF CodeStep
<1>2. CASE ~Adding
    BY <1>2 DEF ReadObject, Finish, CodeStep, registry
<1> QED
    BY <1>1, <1>2

LEMMA LoadModuleDefines ==
    ASSUME IInv, NEW n \in NS, NEW f \in Files, LoadModule(n, f)
    PROVE  CodeStep
<1> DEFINE i == Latest(n)
           e == [dylibs[i] EXCEPT !.img = files[f], !.from = f]
           adds == files[f] \in Images /\ ~Defined(dylibs[i])
<1>0. TypeOK /\ DylibInv /\ i \in 0 .. Len(dylibs) /\ Len(dylibs) \in Nat
    BY LatestIsDylib, NamesAreKeys DEF IInv, TypeOK
<1>1. CASE i = 0 \/ ~adds
    BY <1>1 DEF LoadModule, CrashIn, CodeStep, registry
<1>2. CASE i # 0 /\ adds
    <2>1. i \in DOMAIN dylibs /\ dylibs[i] \in Dylib
        BY <1>0, <1>2 DEF TypeOK
    <2>2. /\ dylibs' = [dylibs EXCEPT ![i] = e] /\ UNCHANGED cache
        BY <1>0, <1>2, <2>1 DEF LoadModule, TypeOK
    <2>3. /\ e \in Dylib /\ e.run = dylibs[i].run
        BY <1>2, <2>1 DEF Dylib
    <2>4. dylibs[i].run = Pending
        BY <1>0, <1>2, <2>1 DEF Defined, DylibInv, LoadModule
    <2> HIDE DEF e, i
    <2>5. Defines(i, e)
        BY <2>2, <2>3, <2>4 DEF Defines
    <2> QED
        BY <2>1, <2>3, <2>5 DEF CodeStep
<1> QED
    BY <1>1, <1>2

LEMMA CodeSteps ==
    ASSUME IInv, [Next]_vars
    PROVE  CodeStep
<1>0. TypeOK /\ CallInv
    BY DEF IInv
<1>1. ASSUME NEW n \in NS, Lookup(n) PROVE CodeStep
    <2> DEFINE i == Latest(n)
    <2>1. i \in 0 .. Len(dylibs) /\ Len(dylibs) \in Nat
        BY <1>0, LatestIsDylib, NamesAreKeys DEF TypeOK
    <2>2. CASE i # 0 /\ dylibs[i].img # NoImage /\ dylibs[i].run = Pending
        <3>1. Materialise(i)
            BY <1>1, <2>2 DEF Lookup
        <3>2. i \in DOMAIN dylibs
            BY <1>0, <2>1, <2>2 DEF TypeOK
        <3> HIDE DEF i
        <3> QED
            BY <2>2, <3>1, <3>2 DEF CodeStep
    <2>3. CASE ~(i # 0 /\ dylibs[i].img # NoImage /\ dylibs[i].run = Pending)
        BY <1>1, <2>3 DEF Lookup, CrashIn, CodeStep, registry
    <2> QED
        BY <2>2, <2>3
<1>2. ASSUME NEW n \in NS, CreateEmptyNS(n) PROVE CodeStep
    <2>1. CreateNamespaceDylib(n) /\ UNCHANGED cache
        BY <1>2 DEF CreateEmptyNS
    <2> QED
        BY <1>0, <2>1, CreateNamespaceDylibAdds DEF CodeStep
<1>3. CASE OpenNamespace
    <2>1. CreateNamespaceDylib(call.ns) /\ call.ns \in NS /\ UNCHANGED cache
        BY <1>0, <1>3 DEF OpenNamespace, Searching, CallInv
    <2> QED
        BY <1>0, <2>1, CreateNamespaceDylibAdds DEF CodeStep
<1>4. CASE ReadLibrary
    <2>1. UNCHANGED cache
        BY <1>4 DEF ReadLibrary, Finish
    <2>2. CASE UNCHANGED dylibs
        BY <2>1, <2>2 DEF CodeStep
    <2>3. CASE dylibs' # dylibs
        <3>1. RegistryStep
            BY <1>4, ReadLibraryStep
        <3>2. \A i \in DOMAIN dylibs : \A e \in Dylib : ~Changes(i, e)
            <4>1. \A k, d : Create(k, d) => Len(dylibs') # Len(dylibs)
                BY <1>0 DEF Create, TypeOK
            <4>2. Len(dylibs') # Len(dylibs)
                BY <1>4, <2>3, <4>1 DEF ReadLibrary, registry
            <4> QED
                BY <1>0, <4>2, ChangesTypes
        <3> QED
            BY <2>1, <2>3, <3>1, <3>2 DEF RegistryStep, CodeStep, registry
    <2> QED
        BY <2>2, <2>3
<1>5. CASE \/ NextPath \/ NotFound \/ OpenLibrary \/ DumpToObjectFile
           \/ ApplySereneCLOptions \/ UNCHANGED vars
           \/ \E n \in NS : CreateFails(n)
           \/ \E n \in NS : \E op \in DOMAIN LoadOps : BeginLoad(op, n)
           \/ \E f \in Volatile, c \in Contents : WriteFile(f, c)
    BY <1>5 DEF NextPath, NotFound, Finish, OpenLibrary, DumpToObjectFile, CrashIn,
                ApplySereneCLOptions, CreateFails, BeginLoad, WriteFile, CodeStep,
                vars, registry
<1> QED
    BY <1>1, <1>2, <1>3, <1>4, <1>5, ReadObjectDefines, LoadModuleDefines
       DEF Next, LoadStep

\* Materialising a module that is not in the cache puts there what it holds,
\* and one that is there runs what is there.
LEMMA MaterialiseKeepsCode ==
    ASSUME IInv, CacheInv, NEW i \in DOMAIN dylibs, dylibs[i].img # NoImage,
           dylibs[i].run = Pending, Materialise(i)
    PROVE  CacheInv'
<1> DEFINE d == dylibs[i]
           obj == ObjectOf(d)
           run == IF Links(d, obj) THEN obj ELSE Failed
           e == [d EXCEPT !.run = run]
<1>1. /\ dylibs \in Seq(Dylib) /\ d \in Dylib /\ d.from \in Files
      /\ d.img \in Images /\ cache \in [Files -> Images \cup {NoImage}]
      /\ \A j \in DOMAIN dylibs : dylibs[j].img # NoImage => dylibs[j].from \in Files
    <2>1. dylibs \in Seq(Dylib) /\ cache \in [Files -> Images \cup {NoImage}]
        BY DEF IInv, TypeOK
    <2>2. d \in Dylib
        BY <2>1
    <2>3. d.img \in Images
        BY <2>2 DEF Dylib
    <2>4. \A j \in DOMAIN dylibs : dylibs[j].img # NoImage => dylibs[j].from \in Files
        BY DEF IInv, DylibInv
    <2> QED
        BY <2>1, <2>2, <2>3, <2>4
<1>2. obj = IF UsesCache(d) /\ cache[d.from] # NoImage THEN cache[d.from] ELSE d.img
    BY DEF ObjectOf
<1>3. /\ dylibs' = [dylibs EXCEPT ![i] = e]
      /\ cache' = IF UsesCache(d) THEN [cache EXCEPT ![d.from] = obj] ELSE cache
    BY <1>1 DEF Materialise
<1>4. obj \in Images /\ Pending \notin Images /\ Failed # Pending
    BY <1>1, <1>2, HalleyAssumption
<1> HIDE DEF obj
<1>5. run \in {obj, Failed}
    OBVIOUS
<1> HIDE DEF run
<1>6. e.img = d.img /\ e.from = d.from /\ e.run = run
    BY <1>1 DEF Dylib
<1> HIDE DEF e
<1>7. /\ DOMAIN dylibs' = DOMAIN dylibs /\ dylibs'[i] = e
      /\ \A j \in DOMAIN dylibs : j # i => dylibs'[j] = dylibs[j]
    BY <1>1, <1>3
<1>8. \A f \in Files : cache[f] # NoImage => cache'[f] = cache[f]
    BY <1>1, <1>2, <1>3
<1>9. \A f \in Files : cache'[f] # NoImage =>
         \E j \in DOMAIN dylibs' : /\ dylibs'[j].from = f /\ dylibs'[j].img = cache'[f]
                                  /\ dylibs'[j].run # Pending
    <2> SUFFICES ASSUME NEW f \in Files, cache'[f] # NoImage
                 PROVE  \E j \in DOMAIN dylibs' :
                           /\ dylibs'[j].from = f /\ dylibs'[j].img = cache'[f]
                           /\ dylibs'[j].run # Pending
        OBVIOUS
    <2>1. CASE cache[f] # NoImage
        <3>1. PICK j \in DOMAIN dylibs : /\ dylibs[j].from = f /\ dylibs[j].img = cache[f]
                                        /\ dylibs[j].run # Pending
            BY <2>1 DEF CacheInv
        <3>2. j # i
            BY <3>1
        <3> QED
            BY <1>7, <1>8, <2>1, <3>1, <3>2
    <2>2. CASE cache[f] = NoImage
        <3>1. f = d.from /\ cache'[f] = obj /\ obj = d.img
            BY <1>1, <1>2, <1>3, <2>2
        <3>2. e.run # Pending
            BY <1>4, <1>5, <1>6
        <3> QED
            BY <1>6, <1>7, <3>1, <3>2
    <2> QED
        BY <2>1, <2>2
<1>10. UsesCache(e) <=> UsesCache(d)
    BY <1>6 DEF UsesCache
<1>11. ASSUME NEW j \in DOMAIN dylibs', dylibs'[j].run \in Images
       PROVE  dylibs'[j].run = IF UsesCache(dylibs'[j]) THEN cache'[dylibs'[j].from]
                                                        ELSE dylibs'[j].img
    <2>1. CASE j = i
        <3>1. e.run = obj
            BY <1>5, <1>6, <1>7, <1>11, <2>1, HalleyAssumption
        <3>2. UsesCache(d) => cache'[d.from] = obj
            BY <1>1, <1>3
        <3>3. ~UsesCache(d) => obj = d.img
            BY <1>2
        <3> QED
            BY <1>6, <1>7, <1>10, <2>1, <3>1, <3>2, <3>3
    <2>2. CASE j # i
        <3>1. dylibs'[j] = dylibs[j] /\ j \in DOMAIN dylibs
            BY <1>7, <2>2
        <3>2. dylibs[j].run = IF UsesCache(dylibs[j]) THEN cache[dylibs[j].from]
                                                      ELSE dylibs[j].img
            BY <1>11, <3>1 DEF CacheInv
        <3>3. dylibs[j].img # NoImage
            BY <1>11, <3>1, HalleyAssumption DEF IInv, DylibInv
        <3>4. UsesCache(dylibs[j]) => cache'[dylibs[j].from] = cache[dylibs[j].from]
            BY <1>1, <1>8, <1>11, <3>1, <3>2, <3>3, HalleyAssumption
        <3> QED
            BY <3>1, <3>2, <3>4
    <2> QED
        BY <2>1, <2>2
<1> QED
    BY <1>9, <1>11 DEF CacheInv, UsesCache

LEMMA CacheStep ==
    ASSUME IInv, CacheInv, [Next]_vars
    PROVE  CacheInv'
<1>0. TypeOK /\ Pending \notin Images
    BY HalleyAssumption DEF IInv
<1> DEFINE Ran(e, f, c) == e.from = f /\ e.img = c /\ e.run # Pending
           Runs(e, c) == e.run \in Images =>
                            e.run = IF UsesCache(e) THEN c[e.from] ELSE e.img
\* Dylibs that have been looked up keep what they are; the others run nothing.
<1>1. ASSUME UNCHANGED cache,
             \A j \in DOMAIN dylibs : dylibs[j].run # Pending =>
                j \in DOMAIN dylibs' /\ dylibs'[j] = dylibs[j],
             \A j \in DOMAIN dylibs' : dylibs'[j].run # Pending =>
                j \in DOMAIN dylibs /\ dylibs'[j] = dylibs[j]
      PROVE  CacheInv'
    <2>1. \A f \in Files : cache[f] # NoImage =>
             \E j \in DOMAIN dylibs : Ran(dylibs[j], f, cache[f])
        BY DEF CacheInv
    <2>2. \A f \in Files : cache'[f] # NoImage =>
             \E j \in DOMAIN dylibs' : Ran(dylibs'[j], f, cache'[f])
        BY <1>1, <2>1
    <2>3. \A j \in DOMAIN dylibs : Runs(dylibs[j], cache)
        BY DEF CacheInv
    <2>4. \A j \in DOMAIN dylibs' : Runs(dylibs'[j], cache')
        BY <1>0, <1>1, <2>3
    <2> QED
        BY <2>2, <2>4 DEF CacheInv, UsesCache
<1>2. ASSUME NEW k \in Keys, NEW d \in Dylib, Adds(k, d), UNCHANGED cache
      PROVE  CacheInv'
    <2> DEFINE new == Len(dylibs) + 1
    <2>1. /\ DOMAIN dylibs' = DOMAIN dylibs \cup {new} /\ dylibs'[new] = d
          /\ \A e \in DOMAIN dylibs : dylibs'[e] = dylibs[e]
        BY <1>0, <1>2, AddsView
    <2>2. d.run = Pending
        BY <1>2 DEF Adds
    <2> HIDE DEF new
    <2> QED
        BY <1>1, <1>2, <2>1, <2>2
<1>3. ASSUME NEW i \in DOMAIN dylibs, NEW e \in Dylib, Defines(i, e)
      PROVE  CacheInv'
    <2>1. /\ DOMAIN dylibs' = DOMAIN dylibs /\ dylibs'[i] = e
          /\ \A j \in DOMAIN dylibs : j # i => dylibs'[j] = dylibs[j]
        BY <1>0, <1>3 DEF Defines, TypeOK
    <2> QED
        BY <1>1, <1>3, <2>1 DEF Defines
<1>4. CASE UNCHANGED <<dylibs, cache>>
    BY <1>1, <1>4
<1> QED
    BY <1>2, <1>3, <1>4, CodeSteps, MaterialiseKeepsCode DEF CodeStep

\* A module runs code that was read from its own path, its own without the
\* cache, and with it the same as every other module of that path: whatever is
\* edited, loaded again and looked up, in whatever order.
THEOREM ModulesRunAsTheirPath == Spec => []ModulesRunTheirPathsCode
<1>1. Init => CacheInv
    BY DEF Init, CacheInv
<1>2. IInv /\ CacheInv /\ [Next]_vars => CacheInv'
    BY CacheStep
<1>3. IInv /\ CacheInv => ModulesRunTheirPathsCode
    <2> SUFFICES ASSUME IInv, CacheInv, NEW d \in DOMAIN dylibs,
                        dylibs[d].run \in Images, UsesCache(dylibs[d])
                 PROVE  /\ \E e \in DOMAIN dylibs :
                              /\ dylibs[e].from = dylibs[d].from
                              /\ dylibs[e].img = dylibs[d].run
                        /\ \A e \in DOMAIN dylibs :
                              dylibs[e].from = dylibs[d].from /\ dylibs[e].run \in Images
                                  => dylibs[e].run = dylibs[d].run
        BY DEF CacheInv, ModulesRunTheirPathsCode
    <2>1. dylibs[d].from \in Files
        BY HalleyAssumption DEF IInv, DylibInv
    <2>2. dylibs[d].run = cache[dylibs[d].from] /\ dylibs[d].run # NoImage
        BY HalleyAssumption DEF CacheInv
    <2>3. \A e \in DOMAIN dylibs :
             dylibs[e].from = dylibs[d].from => UsesCache(dylibs[e])
        BY DEF UsesCache
    <2> QED
        BY <2>1, <2>2, <2>3 DEF CacheInv
<1> QED
    BY <1>1, <1>2, <1>3, InvariantHolds, PTL DEF Spec

-----------------------------------------------------------------------------
\* The numbers of the dylibs filed under k, oldest first: what the refinement
\* mapping makes of the registry.
Numbers == [k \in Keys |->
               [i \in DOMAIN jitDylibs[k] |-> dylibs[jitDylibs[k][i]].num]]

\* Halley implements DylibRegistry: no step files a dylib anywhere but at the
\* end of one list, under the number of that position or a library's.
THEOREM RegistryRefined == Spec => ImplementsRegistry
<1>1. Init => Registry!Init
    BY DEF Init, Registry!Init
<1>2. IInv /\ [Next]_vars => [Registry!Next]_Numbers
    <2> SUFFICES ASSUME IInv, [Next]_vars
                 PROVE  Registry!Next \/ UNCHANGED Numbers
        OBVIOUS
    <2>0. TypeOK
        BY DEF IInv
    <2>1. ASSUME NEW k \in Keys, NEW d \in Dylib, Adds(k, d)
          PROVE  Registry!Next
        <3> DEFINE new == Len(dylibs) + 1
                   pos == Len(jitDylibs[k]) + 1
        <3>1. /\ dylibs'[new] = d
              /\ \A e \in DOMAIN dylibs : dylibs'[e] = dylibs[e]
              /\ DOMAIN jitDylibs'[k] = DOMAIN jitDylibs[k] \cup {pos}
              /\ jitDylibs'[k][pos] = new /\ pos \notin DOMAIN jitDylibs[k]
              /\ \A i \in DOMAIN jitDylibs[k] :
                    jitDylibs'[k][i] = jitDylibs[k][i]
              /\ \A l \in Keys \ {k} : jitDylibs'[l] = jitDylibs[l]
              /\ \A l \in Keys : \A i \in DOMAIN jitDylibs[l] :
                    jitDylibs[l][i] \in DOMAIN dylibs
            BY <2>0, <2>1, AddsView
        <3>0. pos \in Nat \ {0}
            BY <2>0 DEF TypeOK
        <3>2. /\ jitDylibs[k] \in Seq(Nat) /\ pos \in Nat
              /\ DOMAIN jitDylibs[k] = 1 .. (pos - 1)
            BY <2>0 DEF TypeOK
        <3>3. d.num \in {0, pos} /\ d.num \in Nat
            BY <2>1, <3>2 DEF Adds, NextNumber
        <3> HIDE DEF new, pos
        <3>4. \A l \in Keys \ {k} : Numbers'[l] = Numbers[l]
            BY <3>1 DEF Numbers
        <3>5. Numbers[k] \in Seq(Nat) /\ Len(Numbers[k]) = pos - 1
            <4>0. \A e \in DOMAIN dylibs : dylibs[e].num \in Nat
                <5>1. \A e \in DOMAIN dylibs : dylibs[e] \in Dylib
                    BY <2>0 DEF TypeOK
                <5> QED
                    BY <5>1 DEF Dylib
            <4>1. \A i \in DOMAIN jitDylibs[k] :
                     dylibs[jitDylibs[k][i]].num \in Nat
                BY <3>1, <4>0
            <4>2. Numbers[k] = [i \in 1 .. (pos - 1) |->
                                   dylibs[jitDylibs[k][i]].num]
                BY <3>2 DEF Numbers
            <4>3. \A i \in 1 .. (pos - 1) :
                     dylibs[jitDylibs[k][i]].num \in Nat
                BY <3>2, <4>1
            <4>4. Numbers[k] \in [1 .. (pos - 1) -> Nat]
                BY <4>2, <4>3
            <4>5. pos - 1 \in Nat
                BY <3>0
            <4> QED
                BY <4>4, <4>5
        <3>6. Numbers'[k] = Append(Numbers[k], d.num)
            <4>0. DOMAIN jitDylibs'[k] = 1 .. pos
                <5>1. 1 .. pos = (1 .. (pos - 1)) \cup {pos}
                    BY <3>0
                <5> QED
                    BY <3>1, <3>2, <5>1
            <4>1. Numbers'[k] = [i \in 1 .. pos |->
                                    dylibs'[jitDylibs'[k][i]].num]
                BY <4>0 DEF Numbers, Keys
            <4>2. ASSUME NEW i \in 1 .. pos
                  PROVE  dylibs'[jitDylibs'[k][i]].num
                            = Append(Numbers[k], d.num)[i]
                <5>1. CASE i = pos
                    BY <3>1, <3>2, <3>3, <3>5, <5>1
                <5>2. CASE i \in 1 .. (pos - 1)
                    <6>1. dylibs'[jitDylibs'[k][i]].num = Numbers[k][i]
                        BY <3>1, <3>2, <5>2 DEF Numbers
                    <6> QED
                        BY <3>2, <3>3, <3>5, <5>2, <6>1
                <5>3. i = pos \/ i \in 1 .. (pos - 1)
                    BY <3>0, <4>2
                <5> QED
                    BY <5>1, <5>2, <5>3
            <4>3. Append(Numbers[k], d.num) =
                     [i \in 1 .. pos |-> Append(Numbers[k], d.num)[i]]
                BY <3>2, <3>3, <3>5
            <4> QED
                BY <4>1, <4>2, <4>3
        <3>7. Numbers' = [Numbers EXCEPT ![k] = Append(@, d.num)]
            BY <3>4, <3>6 DEF Numbers
        <3>8. Len(Numbers[k]) + 1 = pos
            BY <3>2, <3>5
        <3> QED
            BY <3>3, <3>7, <3>8
               DEF Registry!Next, Registry!RegisterNamespace,
                   Registry!RegisterLibrary, Registry!Library, Numbers
    <2>2. ASSUME NEW i \in DOMAIN dylibs, NEW e \in Dylib, Changes(i, e)
          PROVE  UNCHANGED Numbers
        <3>1. \A j \in DOMAIN dylibs : dylibs'[j].num = dylibs[j].num
            BY <2>0, <2>2, ChangesTypes DEF Changes
        <3>2. \A k \in Keys : \A j \in DOMAIN jitDylibs[k] :
                 jitDylibs[k][j] \in DOMAIN dylibs
            BY <2>0 DEF TypeOK
        <3> QED
            BY <2>0, <2>2, <3>1, <3>2, ChangesTypes DEF Numbers
    <2>3. CASE UNCHANGED registry
        BY <2>3 DEF registry, Numbers
    <2> QED
        BY <2>1, <2>2, <2>3, NextSteps DEF RegistryStep
<1> QED
    BY <1>1, <1>2, InvariantHolds, PTL
       DEF Spec, ImplementsRegistry, Registry!Spec, Numbers
=============================================================================
