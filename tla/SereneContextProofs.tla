--------------------------- MODULE SereneContextProofs ---------------------------
(* Theorems about SereneContext, for every set of namespaces, programs and *)
(* files, every order of calls and every bound.                            *)
EXTENDS SereneContext, TLAPS

\* What the analysis in progress works on: the object made for it, which has
\* no code yet, or the engine's active one; its namespace is registered.
TaskInv ==
    /\ task.op = "eval" => task.ns = Default /\ task.obj = Active
    /\ task.op \in {"read", "import"} =>
          /\ task.obj # 0 /\ task.obj # Active
          /\ objs[task.obj].tree = <<>>
          /\ objs[task.obj].buf <= nsTable[task.ns]
    /\ task.op # "none" => namespaces[task.ns] # 0

RegisteredInv == objs # <<>> /\ namespaces[Default] # 0

\* No module is in a dylib that is not there yet.
ModuleInv == \A m \in DOMAIN modules : modules[m].dylib <= Len(dylibs)

IInv == TypeOK /\ TaskInv /\ RegisteredInv /\ ModuleInv
             /\ NeverPanics /\ BufferAtLeastAsNew

-----------------------------------------------------------------------------
(* Types of what the actions are built from                                *)

TaskType == [op : {"none", "eval", "read", "import"}, ns : NS,
             obj : 0 .. Len(objs), forms : Seq(Form), i : Nat,
             nodes : Seq(Node), failed : BOOLEAN]
AnswerType == [op : {"none", "eval", "read", "import", "lookup"}, ns : NS,
               out : {"none", "ok", "error"}]

\* The part of TypeOK that is about the engine.
EngineOK ==
    /\ dylibs \in Seq([ns : NS, num : Nat])
    /\ jitDylibs \in [NS -> Seq(1 .. Len(dylibs))]
    /\ modules \in Seq(Module) /\ cache \in 0 .. Len(modules)

LEMMA FormsOfPrograms ==
    /\ Programs \subseteq Seq(Form)
    /\ Default \in NS
    /\ NoSource \notin Programs /\ Unparsable \notin Programs
BY ContextAssumption

LEMMA NoTaskType ==
    /\ NoTask.op = "none" /\ NoTask.ns = Default /\ NoTask.obj = 0
    /\ NoTask \in [op : {"none"}, ns : NS, obj : {0}, forms : Seq(Form),
                   i : Nat, nodes : Seq(Node), failed : BOOLEAN]
BY FormsOfPrograms DEF NoTask

LEMMA NewObjectType ==
    ASSUME NEW n \in NS, NEW b \in Nat
    PROVE  /\ NewObject(n, b) \in Object
           /\ NewObject(n, b).name = n /\ NewObject(n, b).tree = <<>>
           /\ NewObject(n, b).fns = 0 /\ NewObject(n, b).buf = b
BY DEF NewObject, Object

LEMMA LatestType ==
    ASSUME EngineOK, NEW n \in NS
    PROVE  Latest(n) \in 0 .. Len(dylibs)
<1>1. jitDylibs[n] \in Seq(1 .. Len(dylibs)) /\ Len(dylibs) \in Nat
    BY DEF EngineOK
<1> QED
    BY <1>1 DEF Latest

LEMMA ExportsType ==
    ASSUME NEW nodes \in Seq(Node), NEW d \in Nat
    PROVE  /\ Exports(nodes) \subseteq Names \cup {RandomName}
           /\ NewModule(d, nodes) \in Module
           /\ NewModule(d, nodes).dylib = d
           /\ NewModule(d, nodes).defs = Exports(nodes)
<1>1. \A i \in DOMAIN nodes : nodes[i] \in Node
    OBVIOUS
<1>2. Exports(nodes) \subseteq Names \cup {RandomName}
    BY <1>1 DEF Exports, Emitted, Node
<1> QED
    BY <1>2 DEF NewModule, Module

-----------------------------------------------------------------------------
(* Steps of the engine                                                     *)

LEMMA CreateDylibTypes ==
    ASSUME EngineOK, NEW n \in NS, CreateDylib(n)
    PROVE  /\ dylibs' \in Seq([ns : NS, num : Nat])
           /\ Len(dylibs') = Len(dylibs) + 1
           /\ \A d \in DOMAIN dylibs : dylibs'[d] = dylibs[d]
           /\ dylibs'[Len(dylibs) + 1].num = Len(jitDylibs[n]) + 1
           /\ jitDylibs' \in [NS -> Seq(1 .. Len(dylibs'))]
           /\ \A m \in NS : m # n => jitDylibs'[m] = jitDylibs[m]
           /\ jitDylibs'[n] = Append(jitDylibs[n], Len(dylibs) + 1)
<1> DEFINE d == [ns |-> n, num |-> NextNumber(n)]
<1>1. /\ dylibs \in Seq([ns : NS, num : Nat]) /\ Len(dylibs) \in Nat
      /\ jitDylibs \in [NS -> Seq(1 .. Len(dylibs))]
    BY DEF EngineOK
<1>2. d \in [ns : NS, num : Nat] /\ d.num = Len(jitDylibs[n]) + 1
    BY <1>1 DEF NextNumber
<1>3. dylibs' = Append(dylibs, d)
    BY DEF CreateDylib
<1> HIDE DEF d
<1>4. /\ dylibs' \in Seq([ns : NS, num : Nat])
      /\ Len(dylibs') = Len(dylibs) + 1
      /\ \A e \in DOMAIN dylibs : dylibs'[e] = dylibs[e]
      /\ dylibs'[Len(dylibs) + 1] = d
    BY <1>1, <1>2, <1>3
<1>5. jitDylibs' = [jitDylibs EXCEPT ![n] = Append(@, Len(dylibs) + 1)]
    BY DEF CreateDylib
<1>6. \A m \in NS : jitDylibs[m] \in Seq(1 .. Len(dylibs'))
    BY <1>1, <1>4
<1>7. Append(jitDylibs[n], Len(dylibs) + 1) \in Seq(1 .. Len(dylibs'))
    BY <1>1, <1>4, <1>6
<1> QED
    BY <1>1, <1>2, <1>4, <1>5, <1>6, <1>7

\* addNS creates a dylib or does nothing; only if it succeeds there is a module,
\* the first one in that dylib.
LEMMA AddNSTypes ==
    ASSUME EngineOK, ModuleInv, NEW n \in NS, NEW tree \in Seq(Node), NEW out,
           AddNS(n, tree, out)
    PROVE  /\ EngineOK' /\ ModuleInv'
           /\ out \in {"ok", "error", "uncaught"}
           /\ CreateDylib(n) \/ UNCHANGED <<dylibs, jitDylibs>>
           /\ out = "ok" =>
                /\ CreateDylib(n) /\ Compiles(tree)
                /\ modules' = Append(modules, NewModule(Len(dylibs) + 1, tree))
           /\ out # "ok" => modules' = modules
<1>1. /\ dylibs \in Seq([ns : NS, num : Nat]) /\ Len(dylibs) \in Nat
      /\ jitDylibs \in [NS -> Seq(1 .. Len(dylibs))]
      /\ modules \in Seq(Module) /\ Len(modules) \in Nat
      /\ cache \in 0 .. Len(modules) /\ cache' = cache
    BY DEF EngineOK, AddNS
<1>2. \A m \in DOMAIN modules :
         modules[m].dylib \in Nat /\ modules[m].dylib <= Len(dylibs)
    <2>1. \A m \in DOMAIN modules : modules[m] \in Module
        BY <1>1
    <2> QED
        BY <2>1 DEF Module, ModuleInv
<1>3. CASE out = "error" /\ UNCHANGED <<dylibs, jitDylibs, modules>>
    BY <1>1, <1>3 DEF EngineOK, ModuleInv
<1>4. CASE out \in {"error", "uncaught"} /\ CreateDylib(n) /\ UNCHANGED modules
    <2>1. ModuleInv'
        <3>1. Len(dylibs') = Len(dylibs) + 1
            BY <1>4, CreateDylibTypes
        <3> QED
            BY <1>1, <1>4, <1>2, <3>1 DEF ModuleInv
    <2> QED
        BY <1>1, <1>4, <2>1, CreateDylibTypes DEF EngineOK
<1>5. CASE /\ Compiles(tree) /\ out = "ok" /\ CreateDylib(n)
           /\ modules' = Append(modules, NewModule(Len(dylibs) + 1, tree))
    <2> DEFINE new == NewModule(Len(dylibs) + 1, tree)
    <2>1. new \in Module /\ new.dylib = Len(dylibs) + 1
        BY <1>1, ExportsType
    <2> HIDE DEF new
    <2>2. /\ modules' = Append(modules, new)
          /\ modules' \in Seq(Module) /\ Len(modules') = Len(modules) + 1
          /\ \A m \in DOMAIN modules' :
                modules'[m] = IF m \in DOMAIN modules THEN modules[m] ELSE new
        BY <1>1, <1>5, <2>1 DEF new
    <2>3. Len(dylibs') = Len(dylibs) + 1
        BY <1>5, CreateDylibTypes
    <2>4. ModuleInv'
        <3>1. \A m \in DOMAIN modules : modules[m].dylib <= Len(dylibs) + 1
            BY <1>1, <1>2
        <3>2. \A m \in DOMAIN modules' : modules'[m].dylib <= Len(dylibs) + 1
            BY <1>1, <2>1, <2>2, <3>1
        <3> QED
            BY <2>3, <3>2 DEF ModuleInv
    <2>5. cache' \in 0 .. Len(modules')
        BY <1>1, <2>2
    <2> QED
        BY <1>1, <1>5, <2>2, <2>4, <2>5, CreateDylibTypes DEF EngineOK
<1> QED
    BY <1>3, <1>4, <1>5 DEF AddNS

-----------------------------------------------------------------------------
(* The invariant holds when the context is made, and every action keeps it *)

LEMMA InitInv == Init => IInv
<1> SUFFICES ASSUME Init PROVE IInv
    OBVIOUS
<1> USE FormsOfPrograms DEF Init
<1>1. NewObject(Default, 0) \in Object /\ NewObject(Default, 0).buf = 0
    BY NewObjectType
<1>2. objs \in Seq(Object) /\ Len(objs) = 1
    BY <1>1
<1>3. /\ namespaces \in [NS -> 0 .. Len(objs)]
      /\ namespaces[Default] = 1
    BY <1>2
<1>4. EngineOK
    BY DEF EngineOK
<1>5. /\ task.op = "none" /\ task \in TaskType
    BY <1>2, NoTaskType DEF TaskType
<1>6. res \in AnswerType
    BY DEF NoAnswer, AnswerType
<1>7. TypeOK
    BY <1>2, <1>3, <1>4, <1>5, <1>6, ContextAssumption
       DEF TypeOK, EngineOK, TaskType, AnswerType, NoOptimization
<1>8. BufferAtLeastAsNew
    BY <1>1, <1>3 DEF BufferAtLeastAsNew
<1> QED
    BY <1>3, <1>5, <1>7, <1>8
       DEF IInv, TaskInv, RegisteredInv, ModuleInv, NeverPanics

LEMMA TypeParts ==
    TypeOK <=>
        /\ EngineOK /\ task \in TaskType /\ res \in AnswerType
        /\ objs \in Seq(Object) /\ namespaces \in [NS -> 0 .. Len(objs)]
        /\ phase \in 0 .. NoOptimization /\ passes \subseteq {"ToMLIR", "ToLLVM"}
        /\ buffers \in Nat /\ nsTable \in [NS -> 0 .. buffers]
        /\ files \in [NS -> Programs \cup {NoSource, Unparsable}]
        /\ status \in {"making", "running", "exited", "panicked",
                       "nomodule", "duplicate", "uncaught"}
        /\ calls \in Nat
BY DEF TypeOK, EngineOK, TaskType, AnswerType

\* A position of a sequence is a positive number.
LEMMA Positions ==
    ASSUME NEW S, NEW s \in Seq(S), NEW i \in DOMAIN s
    PROVE  i \in Nat \ {0}
OBVIOUS

LEMMA Lengths ==
    ASSUME TypeOK
    PROVE  Len(objs) \in Nat /\ Len(dylibs) \in Nat /\ Len(modules) \in Nat
<1>1. objs \in Seq(Object)
    BY TypeParts
<1>2. dylibs \in Seq([ns : NS, num : Nat]) /\ modules \in Seq(Module)
    BY TypeParts DEF EngineOK
<1> QED
    BY <1>1, <1>2

LEMMA MakeContextStep == IInv /\ MakeContext => IInv'
<1> SUFFICES ASSUME IInv, MakeContext PROVE IInv'
    OBVIOUS
<1>1. \E out : AddNS(Default, <<>>, out)
    BY DEF MakeContext
<1>2. EngineOK' /\ ModuleInv'
    <2>1. <<>> \in Seq(Node)
        OBVIOUS
    <2> QED
        BY <1>1, <2>1, AddNSTypes, FormsOfPrograms, TypeParts DEF IInv
<1>3. status' \in {"running", "exited"}
    BY DEF MakeContext
<1>4. UNCHANGED <<objs, namespaces, pipeline, sources, files, task, res, calls>>
    BY DEF MakeContext
<1>5. TypeOK'
    <2>1. TypeOK /\ (task \in TaskType)' /\ (res \in AnswerType)'
        BY <1>4, TypeParts DEF IInv, TaskType, AnswerType
    <2> QED
        BY <1>2, <1>3, <1>4, <2>1
           DEF TypeOK, EngineOK, TaskType, AnswerType, pipeline, sources
<1>6. TaskInv'
    <2>1. TaskInv
        BY DEF IInv
    <2> QED
        BY <1>4, <2>1 DEF TaskInv, sources
<1> QED
    BY <1>2, <1>3, <1>4, <1>5, <1>6
       DEF IInv, RegisteredInv, NeverPanics, BufferAtLeastAsNew, sources

\* The steps that change neither the objects nor the analysis.
LEMMA QuietInvariant ==
    ASSUME IInv,
           phase' \in 0 .. NoOptimization, passes' \subseteq {"ToMLIR", "ToLLVM"},
           files' \in [NS -> Programs \cup {NoSource, Unparsable}], calls' \in Nat,
           objs' = objs, namespaces' = namespaces, task' = task, status' = status,
           res' = res, dylibs' = dylibs, jitDylibs' = jitDylibs, modules' = modules,
           cache' = cache, buffers' = buffers, nsTable' = nsTable
    PROVE  IInv'
<1>1. TypeOK'
    <2>1. TypeOK
        BY DEF IInv
    <2>2. /\ objs' \in Seq(Object) /\ namespaces' \in [NS -> 0 .. Len(objs')]
          /\ buffers' \in Nat /\ nsTable' \in [NS -> 0 .. buffers']
        BY <2>1, TypeParts
    <2>3. EngineOK' /\ (task \in TaskType)' /\ (res \in AnswerType)'
        <3>1. EngineOK /\ task \in TaskType /\ res \in AnswerType
            BY <2>1, TypeParts
        <3> QED
            BY <3>1 DEF EngineOK, TaskType, AnswerType
    <2>4. status' \in {"making", "running", "exited", "panicked",
                       "nomodule", "duplicate", "uncaught"}
        BY <2>1, TypeParts
    <2> QED
        BY <2>2, <2>3, <2>4 DEF TypeOK, EngineOK, TaskType, AnswerType
<1>2. TaskInv'
    <2>1. TaskInv
        BY DEF IInv
    <2> QED
        BY <2>1 DEF TaskInv
<1>3. RegisteredInv' /\ ModuleInv' /\ NeverPanics'
    BY DEF IInv, RegisteredInv, ModuleInv, NeverPanics
<1>4. BufferAtLeastAsNew'
    <2>1. BufferAtLeastAsNew
        BY DEF IInv
    <2> QED
        BY <2>1 DEF BufferAtLeastAsNew
<1> QED
    BY <1>1, <1>2, <1>3, <1>4 DEF IInv

LEMMA QuietSteps ==
    ASSUME IInv,
           \/ \E p \in Phases : SetOperationPhase(p)
           \/ \E n \in Editable, c \in Programs \cup {NoSource, Unparsable} :
                 EditFile(n, c)
    PROVE  IInv'
<1>0. /\ phase \in 0 .. NoOptimization /\ passes \subseteq {"ToMLIR", "ToLLVM"}
      /\ files \in [NS -> Programs \cup {NoSource, Unparsable}] /\ calls \in Nat
    BY DEF IInv, TypeOK
<1>1. CASE \E p \in Phases : SetOperationPhase(p)
    <2>1. PICK p \in Phases : SetOperationPhase(p)
        BY <1>1
    <2>2. /\ phase' \in 0 .. NoOptimization /\ calls' \in Nat
          /\ passes' \subseteq {"ToMLIR", "ToLLVM"}
        BY <1>0, <2>1, ContextAssumption DEF SetOperationPhase, Call
    <2>3. UNCHANGED <<objs, namespaces, engine, sources, files, task, status, res>>
        BY <2>1 DEF SetOperationPhase
    <2>4. /\ objs' = objs /\ namespaces' = namespaces /\ files' = files /\ task' = task
          /\ status' = status /\ res' = res /\ dylibs' = dylibs
          /\ jitDylibs' = jitDylibs /\ modules' = modules /\ cache' = cache
          /\ buffers' = buffers /\ nsTable' = nsTable
        BY <2>3, Zenon DEF engine, sources
    <2> QED
        BY <1>0, <2>2, <2>4, QuietInvariant
<1>2. CASE \E n \in Editable, c \in Programs \cup {NoSource, Unparsable} :
              EditFile(n, c)
    <2>1. PICK n \in Editable, c \in Programs \cup {NoSource, Unparsable} :
             EditFile(n, c)
        BY <1>2
    <2>2. /\ files' \in [NS -> Programs \cup {NoSource, Unparsable}]
          /\ calls' \in Nat
        BY <1>0, <2>1, ContextAssumption DEF EditFile, Call
    <2>3. UNCHANGED <<objs, namespaces, pipeline, engine, sources, task, status, res>>
        BY <2>1 DEF EditFile
    <2>4. /\ objs' = objs /\ namespaces' = namespaces /\ task' = task
          /\ status' = status /\ res' = res /\ dylibs' = dylibs
          /\ jitDylibs' = jitDylibs /\ modules' = modules /\ cache' = cache
          /\ buffers' = buffers /\ nsTable' = nsTable /\ phase' = phase /\ passes' = passes
        BY <2>3, Zenon DEF engine, sources, pipeline
    <2> QED
        BY <1>0, <2>2, <2>4, QuietInvariant
<1> QED
    BY <1>1, <1>2

LEMMA RegisterTypes ==
    ASSUME TypeOK, NEW n \in NS, NEW b \in Nat, Register(n, b)
    PROVE  /\ objs' \in Seq(Object) /\ Len(objs') = Len(objs) + 1
           /\ \A o \in DOMAIN objs : objs'[o] = objs[o]
           /\ objs'[Len(objs) + 1] = NewObject(n, b)
           /\ namespaces' \in [NS -> 0 .. Len(objs')]
           /\ namespaces'[n] = Len(objs) + 1
           /\ \A m \in NS : m # n => namespaces'[m] = namespaces[m]
<1>1. /\ objs \in Seq(Object) /\ Len(objs) \in Nat
      /\ namespaces \in [NS -> 0 .. Len(objs)]
    BY TypeParts, Lengths
<1>2. NewObject(n, b) \in Object
    BY NewObjectType
<1>3. /\ objs' = Append(objs, NewObject(n, b))
      /\ namespaces' = [namespaces EXCEPT ![n] = Len(objs) + 1]
    BY DEF Register
<1>4. /\ objs' \in Seq(Object) /\ Len(objs') = Len(objs) + 1
      /\ \A o \in DOMAIN objs : objs'[o] = objs[o]
      /\ objs'[Len(objs) + 1] = NewObject(n, b)
    BY <1>1, <1>2, <1>3
<1> QED
    BY <1>1, <1>3, <1>4

\* A namespace is registered with a buffer not newer than that in the table.
LEMMA RegisterKeeps ==
    ASSUME IInv, NEW n \in NS, NEW b \in Nat, Register(n, b),
           nsTable' \in [NS -> Nat], b <= nsTable'[n],
           \A m \in NS : nsTable'[m] >= nsTable[m]
    PROVE  RegisteredInv' /\ BufferAtLeastAsNew'
<1>1. /\ objs \in Seq(Object) /\ Len(objs) \in Nat /\ objs # <<>>
      /\ namespaces \in [NS -> 0 .. Len(objs)] /\ namespaces[Default] # 0
      /\ nsTable \in [NS -> 0 .. buffers] /\ buffers \in Nat
    BY TypeParts, Lengths DEF IInv, RegisteredInv
<1>2. /\ objs' \in Seq(Object) /\ Len(objs') = Len(objs) + 1
      /\ \A o \in DOMAIN objs : objs'[o] = objs[o]
      /\ objs'[Len(objs) + 1] = NewObject(n, b)
      /\ namespaces'[n] = Len(objs) + 1
      /\ \A m \in NS : m # n => namespaces'[m] = namespaces[m]
    BY RegisterTypes DEF IInv
<1>3. RegisteredInv'
    BY <1>1, <1>2, FormsOfPrograms DEF RegisteredInv
<1>4. ASSUME NEW m \in NS, namespaces'[m] # 0
      PROVE  nsTable'[m] >= objs'[namespaces'[m]].buf
    <2>1. CASE m = n
        <3>1. objs'[namespaces'[m]].buf = b
            BY <1>2, <2>1, NewObjectType
        <3> QED
            BY <2>1, <3>1
    <2>2. CASE m # n
        <3>1. namespaces'[m] = namespaces[m] /\ namespaces[m] \in DOMAIN objs
            BY <1>1, <1>2, <1>4, <2>2
        <3>2. objs'[namespaces'[m]] = objs[namespaces[m]]
            BY <1>2, <3>1
        <3>3. nsTable[m] >= objs[namespaces[m]].buf
            BY <1>4, <3>1 DEF IInv, BufferAtLeastAsNew
        <3>4. objs[namespaces[m]].buf \in Nat
            <4>1. objs[namespaces[m]] \in Object
                BY <1>1, <3>1
            <4> QED
                BY <4>1 DEF Object
        <3>5. nsTable[m] \in Nat /\ nsTable'[m] \in Nat /\ nsTable'[m] >= nsTable[m]
            BY <1>1
        <3> QED
            BY <3>2, <3>3, <3>4, <3>5
    <2> QED
        BY <2>1, <2>2
<1> QED
    BY <1>3, <1>4 DEF BufferAtLeastAsNew

LEMMA MakeNamespaceStep ==
    ASSUME IInv, NEW n \in NS, MakeNamespace(n)
    PROVE  IInv'
<1>1. /\ Register(n, 0) /\ calls' = calls + 1 /\ task.op = "none"
      /\ UNCHANGED <<pipeline, engine, sources, files, task, status, res>>
    BY DEF MakeNamespace, Call, Idle
<1>2. /\ TypeOK /\ nsTable \in [NS -> Nat] /\ 0 <= nsTable[n]
      /\ \A m \in NS : nsTable[m] >= nsTable[m]
    <2>1. TypeOK /\ nsTable \in [NS -> 0 .. buffers] /\ buffers \in Nat
        BY TypeParts DEF IInv
    <2> QED
        BY <2>1
<1>3. RegisteredInv' /\ BufferAtLeastAsNew'
    BY <1>1, <1>2, RegisterKeeps DEF sources
<1>4. /\ objs' \in Seq(Object) /\ Len(objs') = Len(objs) + 1
      /\ namespaces' \in [NS -> 0 .. Len(objs')]
    BY <1>1, <1>2, RegisterTypes
<1>5. task' \in TaskType'
    <2>1. task \in TaskType /\ Len(objs) \in Nat
        BY <1>2, TypeParts, Lengths
    <2>2. 0 .. Len(objs) \subseteq 0 .. Len(objs')
        BY <1>4, <2>1
    <2> QED
        BY <1>1, <2>1, <2>2 DEF TaskType
<1>6. TypeOK'
    <2>1. calls' \in Nat
        BY <1>1, <1>2 DEF TypeOK
    <2> QED
        BY <1>1, <1>2, <1>4, <1>5, <2>1
           DEF TypeOK, TaskType, engine, pipeline, sources
<1> QED
    BY <1>1, <1>3, <1>6
       DEF IInv, TaskInv, ModuleInv, NeverPanics, engine

\* Only the state and the code of a module change when it is materialised.
LEMMA MaterialiseTypes ==
    ASSUME TypeOK, NEW m \in DOMAIN modules, Materialise(m)
    PROVE  /\ modules' \in Seq(Module) /\ Len(modules') = Len(modules)
           /\ \A k \in DOMAIN modules :
                 /\ modules'[k].dylib = modules[k].dylib
                 /\ modules'[k].defs = modules[k].defs
           /\ cache' \in 0 .. Len(modules')
<1> DEFINE code == IF EnableObjectCache /\ cache # 0 THEN cache ELSE m
           st == IF modules[code].defs = modules[m].defs THEN "linked" ELSE "failed"
           e == [modules[m] EXCEPT !.state = st, !.code = code]
<1>1. /\ modules \in Seq(Module) /\ Len(modules) \in Nat /\ cache \in 0 .. Len(modules)
    BY TypeParts, Lengths DEF EngineOK
<1>2. code \in 1 .. Len(modules) /\ code \in Nat
    BY <1>1
<1>3. st \in {"linked", "failed"}
    OBVIOUS
<1>4. /\ modules' = [modules EXCEPT ![m] = e]
      /\ cache' = IF EnableObjectCache THEN code ELSE 0
    BY <1>1 DEF Materialise
<1> HIDE DEF code, st
<1>5. /\ e \in Module /\ e.dylib = modules[m].dylib /\ e.defs = modules[m].defs
    <2>1. modules[m] \in Module
        BY <1>1
    <2> QED
        BY <1>2, <1>3, <2>1 DEF Module
<1> HIDE DEF e
<1> QED
    BY <1>1, <1>2, <1>4, <1>5

LEMMA LookupStep ==
    ASSUME IInv, NEW n \in NS, NEW s \in Syms, Lookup(n, s)
    PROVE  IInv'
<1>0. TypeOK
    BY DEF IInv
<1>1. UNCHANGED <<objs, namespaces, pipeline, dylibs, jitDylibs, sources,
                  files, task, status, calls>>
    BY DEF Lookup
<1>2. res' \in AnswerType
    BY DEF Lookup, Answer, AnswerType
<1>3. \/ UNCHANGED <<modules, cache>>
      \/ \E m \in DOMAIN modules : Materialise(m)
    BY DEF Lookup, ModulesIn
<1>4. /\ modules' \in Seq(Module) /\ cache' \in 0 .. Len(modules')
      /\ DOMAIN modules' = DOMAIN modules
      /\ \A k \in DOMAIN modules : modules'[k].dylib = modules[k].dylib
    <2>1. modules \in Seq(Module) /\ cache \in 0 .. Len(modules)
        BY <1>0, TypeParts DEF EngineOK
    <2>2. CASE UNCHANGED <<modules, cache>>
        BY <2>1, <2>2
    <2>3. CASE \E m \in DOMAIN modules : Materialise(m)
        <3>1. PICK m \in DOMAIN modules : Materialise(m)
            BY <2>3
        <3> QED
            BY <1>0, <2>1, <3>1, MaterialiseTypes
    <2> QED
        BY <1>3, <2>2, <2>3
<1>5. EngineOK'
    <2>1. EngineOK
        BY <1>0, TypeParts
    <2> QED
        BY <1>1, <1>4, <2>1 DEF EngineOK
<1>6. ModuleInv'
    BY <1>1, <1>4 DEF ModuleInv, IInv
<1>7. TypeOK'
    BY <1>0, <1>1, <1>2, <1>5
       DEF TypeOK, EngineOK, AnswerType, pipeline, sources
<1> QED
    BY <1>1, <1>6, <1>7
       DEF IInv, TaskInv, RegisteredInv, NeverPanics, BufferAtLeastAsNew, sources

LEMMA StartType ==
    ASSUME NEW op \in {"eval", "read", "import"}, NEW n \in NS, NEW o \in Nat,
           NEW p \in Programs, Start(op, n, o, p)
    PROVE  /\ task'.op = op /\ task'.ns = n /\ task'.obj = o
           /\ task'.forms = p /\ task'.nodes = <<>> /\ task'.failed = FALSE
           /\ task' \in [op : {"none", "eval", "read", "import"}, ns : NS,
                         obj : {o}, forms : Seq(Form), i : Nat,
                         nodes : Seq(Node), failed : BOOLEAN]
<1>1. p \in Seq(Form)
    BY FormsOfPrograms
<1>2. <<>> \in Seq(Node)
    OBVIOUS
<1>3. task' = [op |-> op, ns |-> n, obj |-> o, forms |-> p, i |-> 1,
               nodes |-> <<>>, failed |-> FALSE]
    BY DEF Start, NoTask
<1> QED
    BY <1>1, <1>2, <1>3

LEMMA BeginEvalStep ==
    ASSUME IInv, NEW p \in Programs, BeginEval(p)
    PROVE  IInv'
<1>1. TypeOK /\ RegisteredInv /\ Len(objs) \in Nat /\ objs \in Seq(Object)
    BY Lengths, TypeParts DEF IInv
<1>2. /\ Start("eval", Default, Active, p) /\ calls' = calls + 1
      /\ UNCHANGED <<objs, namespaces, pipeline, engine, sources, files, status, res>>
    BY DEF BeginEval, Call
<1>3. /\ task'.op = "eval" /\ task'.ns = Default /\ task'.obj = Active
      /\ task' \in [op : {"none", "eval", "read", "import"}, ns : NS,
                    obj : {Active}, forms : Seq(Form), i : Nat,
                    nodes : Seq(Node), failed : BOOLEAN]
    BY <1>2, StartType, FormsOfPrograms DEF Active
<1>4. Active \in 0 .. Len(objs)
    BY <1>1 DEF RegisteredInv, Active
<1>5. task' \in TaskType'
    BY <1>2, <1>3, <1>4 DEF TaskType
<1>6. TypeOK'
    <2>1. calls' \in Nat
        BY <1>1, <1>2 DEF TypeOK
    <2> QED
        BY <1>1, <1>2, <1>5, <2>1 DEF TypeOK, TaskType, engine, pipeline, sources
<1> QED
    BY <1>1, <1>2, <1>3, <1>6
       DEF IInv, TaskInv, RegisteredInv, ModuleInv, NeverPanics,
           BufferAtLeastAsNew, engine, sources

LEMMA BeginReadStep ==
    ASSUME IInv, NEW op \in {"read", "import"}, NEW n \in NS, BeginRead(op, n)
    PROVE  IInv'
<1>0. /\ TypeOK /\ Len(objs) \in Nat /\ objs \in Seq(Object) /\ objs # <<>>
      /\ namespaces \in [NS -> 0 .. Len(objs)]
      /\ nsTable \in [NS -> 0 .. buffers] /\ buffers \in Nat
      /\ task \in TaskType /\ res \in AnswerType /\ calls \in Nat
      /\ task.op = "none"
    BY Lengths, TypeParts DEF IInv, RegisteredInv, BeginRead, Call, Idle
<1>1. /\ calls' = calls + 1
      /\ UNCHANGED <<pipeline, engine, files, status>>
    BY DEF BeginRead, Call
<1>2. CASE Answer(op, n, "error") /\ UNCHANGED <<objs, namespaces, sources, task>>
    <2>1. res' \in AnswerType /\ calls' \in Nat
        BY <1>0, <1>1, <1>2 DEF Answer, AnswerType
    <2>2. TypeOK'
        BY <1>0, <1>1, <1>2, <2>1
           DEF TypeOK, AnswerType, engine, pipeline, sources
    <2> QED
        BY <1>1, <1>2, <2>2
           DEF IInv, TaskInv, RegisteredInv, ModuleInv, NeverPanics,
               BufferAtLeastAsNew, engine, sources
<1>3. ASSUME buffers' = buffers + 1, BufferOf(n)
      PROVE  /\ buffers' \in Nat /\ nsTable' \in [NS -> 0 .. buffers']
             /\ nsTable' \in [NS -> Nat]
             /\ nsTable'[n] = buffers + 1
             /\ \A m \in NS : nsTable'[m] >= nsTable[m]
    BY <1>0, <1>3 DEF BufferOf
<1>4. CASE /\ buffers' = buffers + 1 /\ BufferOf(n)
           /\ Answer(op, n, "error") /\ UNCHANGED <<objs, namespaces, task>>
    <2>1. res' \in AnswerType /\ calls' \in Nat
        BY <1>0, <1>1, <1>4 DEF Answer, AnswerType
    <2>2. TypeOK'
        BY <1>0, <1>1, <1>3, <1>4, <2>1
           DEF TypeOK, AnswerType, engine, pipeline
    <2>3. BufferAtLeastAsNew'
        <3>1. \A m \in NS : namespaces[m] # 0 =>
                 /\ nsTable[m] >= objs[namespaces[m]].buf
                 /\ objs[namespaces[m]].buf \in Nat
            <4>1. \A m \in NS : namespaces[m] # 0 => objs[namespaces[m]] \in Object
                BY <1>0
            <4>2. \A m \in NS : namespaces[m] # 0 =>
                     objs[namespaces[m]].buf \in Nat
                BY <4>1 DEF Object
            <4> QED
                BY <4>2 DEF IInv, BufferAtLeastAsNew
        <3>2. \A m \in NS : nsTable[m] \in Nat /\ nsTable'[m] \in Nat
            BY <1>0, <1>3, <1>4
        <3> QED
            BY <1>3, <1>4, <3>1, <3>2 DEF BufferAtLeastAsNew
    <2> QED
        BY <1>0, <1>1, <1>4, <2>2, <2>3
           DEF IInv, TaskInv, RegisteredInv, ModuleInv, NeverPanics, engine
<1>5. CASE /\ buffers' = buffers + 1 /\ BufferOf(n) /\ files[n] \in Programs
           /\ Register(n, buffers + 1)
           /\ Start(op, n, Len(objs) + 1, files[n]) /\ UNCHANGED res
    <2>1. /\ objs' \in Seq(Object) /\ Len(objs') = Len(objs) + 1
          /\ objs'[Len(objs) + 1] = NewObject(n, buffers + 1)
          /\ namespaces' \in [NS -> 0 .. Len(objs')]
          /\ namespaces'[n] = Len(objs) + 1
        BY <1>0, <1>5, RegisterTypes
    <2>2. RegisteredInv' /\ BufferAtLeastAsNew'
        BY <1>0, <1>3, <1>5, RegisterKeeps
    <2>3. /\ task'.op = op /\ task'.ns = n /\ task'.obj = Len(objs) + 1
          /\ task' \in [op : {"none", "eval", "read", "import"}, ns : NS,
                        obj : {Len(objs) + 1}, forms : Seq(Form), i : Nat,
                        nodes : Seq(Node), failed : BOOLEAN]
        <3>1. op \in {"eval", "read", "import"} /\ Len(objs) + 1 \in Nat
            BY <1>0
        <3> QED
            BY <1>5, <3>1, StartType
    <2>4. task' \in TaskType'
        <3>1. Len(objs) + 1 \in 0 .. Len(objs')
            BY <1>0, <2>1
        <3> QED
            BY <2>3, <3>1 DEF TaskType
    <2>5. TaskInv'
        <3>1. /\ objs'[Len(objs) + 1].tree = <<>>
              /\ objs'[Len(objs) + 1].buf = buffers + 1
            BY <1>0, <2>1, NewObjectType
        <3>2. Len(objs) + 1 # 0 /\ Len(objs) + 1 # Active
            BY <1>0 DEF Active
        <3> QED
            BY <1>0, <1>3, <1>5, <2>1, <2>3, <3>1, <3>2 DEF TaskInv
    <2>6. TypeOK'
        <3>1. calls' \in Nat
            BY <1>0, <1>1
        <3> QED
            BY <1>0, <1>1, <1>3, <1>5, <2>1, <2>4, <3>1
               DEF TypeOK, TaskType, engine, pipeline
    <2> QED
        BY <1>1, <2>2, <2>5, <2>6 DEF IInv, ModuleInv, NeverPanics, engine
<1> QED
    BY <1>2, <1>4, <1>5 DEF BeginRead

-----------------------------------------------------------------------------
(* Analysis                                                                *)

LEMMA TaskObject ==
    ASSUME TypeOK, TaskInv, RegisteredInv, task.op # "none"
    PROVE  /\ task.obj \in DOMAIN objs
           /\ namespaces[task.ns] \in DOMAIN objs /\ task.ns \in NS
<1>1. /\ objs \in Seq(Object) /\ Len(objs) \in Nat /\ objs # <<>>
      /\ namespaces \in [NS -> 0 .. Len(objs)] /\ task \in TaskType
    BY TypeParts, Lengths DEF RegisteredInv
<1>2. /\ task.op \in {"eval", "read", "import"} /\ task.ns \in NS
      /\ task.obj \in 0 .. Len(objs)
    BY <1>1 DEF TaskType
<1>3. task.obj # 0
    BY <1>2 DEF TaskInv, Active
<1>4. namespaces[task.ns] # 0
    BY DEF TaskInv
<1> QED
    BY <1>1, <1>2, <1>3, <1>4

\* A sequence made element by element.
LEMMA SeqByElement ==
    ASSUME NEW S, NEW T, NEW s \in Seq(S), NEW t, t \in [DOMAIN s -> T]
    PROVE  t \in Seq(T) /\ Len(t) = Len(s) /\ DOMAIN t = DOMAIN s
<1>1. Len(s) \in Nat /\ DOMAIN s = 1 .. Len(s)
    OBVIOUS
<1> QED
    BY <1>1

LEMMA NodeOfType ==
    ASSUME NEW f \in Form, NEW cur, FnNumber(cur) \in Nat
    PROVE  NodeOf(f, cur) \in Node
<1>1. /\ f.def \in Syms \cup {NoSym} /\ f.kind \in Kinds
      /\ f.lambdas \in Nat
    BY DEF Form
<1>2. FnNumber(cur) + f.lambdas \in Nat
    BY <1>1
<1>3. NameOf(f, FnNumber(cur) + f.lambdas) \in Names
    BY <1>1, <1>2 DEF NameOf, Names, Anonymous
<1>4. KindOf(f) \in Kinds
    BY <1>1 DEF KindOf, Kinds
<1> QED
    BY <1>3, <1>4 DEF NodeOf, Node

\* What analysing a form leaves as it was, and the types of what it changes.
LEMMA AnalyzeFormTypes ==
    ASSUME TypeOK, TaskInv, RegisteredInv, NeverPanics, AnalyzeForm
    PROVE  /\ objs' \in Seq(Object) /\ Len(objs') = Len(objs)
           /\ DOMAIN objs' = DOMAIN objs
           /\ \A o \in DOMAIN objs :
                 /\ objs'[o].tree = objs[o].tree /\ objs'[o].buf = objs[o].buf
                 /\ objs'[o].name = objs[o].name
           /\ task' \in TaskType /\ status' = status
           /\ task'.op = task.op /\ task'.ns = task.ns /\ task'.obj = task.obj
           /\ task'.forms = task.forms
<1> DEFINE f == task.forms[task.i]
           o == task.obj
           cur == namespaces[task.ns]
           ok == f.sound /\ f.needs \subseteq objs[o].env
           made == f.lambdas + (IF ok /\ f.kind = "fn" THEN 1 ELSE 0)
           bound == f.binds \cup (IF ok THEN {f.def} \ {NoSym} ELSE {})
           new == [k \in DOMAIN objs |->
                     [objs[k] EXCEPT
                        !.env = @ \cup (IF k = o THEN bound ELSE {}),
                        !.fns = @ + (IF k = cur THEN made ELSE 0)]]
           node == NodeOf(f, cur)
<1>1. /\ objs' = new
      /\ task' = [task EXCEPT
            !.i = @ + 1, !.failed = @ \/ ~ok,
            !.nodes = IF ok THEN Append(@, node) ELSE @]
      /\ status' = IF made > 0 /\ cur = 0 THEN "panicked" ELSE status
      /\ Analysing
    BY DEF AnalyzeForm
<1>2. /\ objs \in Seq(Object) /\ task \in TaskType
      /\ cur \in DOMAIN objs /\ cur \in Nat \ {0}
    <2>1. cur \in DOMAIN objs /\ objs \in Seq(Object) /\ task \in TaskType
        BY <1>1, TaskObject, TypeParts DEF Analysing
    <2>2. cur \in Nat \ {0}
        BY <2>1, Positions
    <2> QED
        BY <2>1, <2>2, Zenon
<1>3. f \in Form
    <2>1. task.forms \in Seq(Form) /\ task.i \in DOMAIN task.forms
        BY <1>1, <1>2 DEF Analysing, TaskType
    <2> QED
        BY <2>1
<1>4. ok \in BOOLEAN /\ bound \subseteq Syms /\ made \in Nat
    <2>1. /\ f.sound \in BOOLEAN /\ f.binds \subseteq Syms /\ f.lambdas \in Nat
          /\ f.def \in Syms \cup {NoSym}
        BY <1>3 DEF Form
    <2> QED
        BY <2>1
<1>5. node \in Node
    <2>1. objs[cur] \in Object
        BY <1>2
    <2>2. FnNumber(cur) \in Nat
        BY <1>2, <2>1 DEF FnNumber, Object
    <2> QED
        BY <1>3, <2>2, NodeOfType
<1> HIDE DEF ok, bound, made, node, f, cur
<1>6. \A k \in DOMAIN objs :
         /\ new[k] \in Object
         /\ new[k].tree = objs[k].tree /\ new[k].buf = objs[k].buf
         /\ new[k].name = objs[k].name
    <2> SUFFICES ASSUME NEW k \in DOMAIN objs
                 PROVE  /\ new[k] \in Object
                        /\ new[k].tree = objs[k].tree /\ new[k].buf = objs[k].buf
                        /\ new[k].name = objs[k].name
        OBVIOUS
    <2>1. objs[k] \in Object
        BY <1>2
    <2>2. /\ objs[k].env \cup (IF k = o THEN bound ELSE {}) \in SUBSET Syms
          /\ objs[k].fns + (IF k = cur THEN made ELSE 0) \in Nat
        BY <1>4, <2>1 DEF Object
    <2> QED
        BY <2>1, <2>2 DEF Object
<1>7. new \in [DOMAIN objs -> Object]
    BY <1>6
<1>8. /\ objs' \in Seq(Object) /\ Len(objs') = Len(objs)
      /\ DOMAIN objs' = DOMAIN objs
    <2> HIDE DEF new
    <2> QED
        BY <1>1, <1>2, <1>7, SeqByElement
<1>9. /\ task' \in TaskType /\ task'.op = task.op /\ task'.ns = task.ns
      /\ task'.obj = task.obj /\ task'.forms = task.forms
    <2>1. /\ task.nodes \in Seq(Node) /\ task.i + 1 \in Nat
          /\ (task.failed \/ ~ok) \in BOOLEAN
        BY <1>2 DEF TaskType
    <2>2. (IF ok THEN Append(task.nodes, node) ELSE task.nodes) \in Seq(Node)
        BY <1>5, <2>1
    <2> QED
        BY <1>1, <1>2, <2>1, <2>2 DEF TaskType
<1>10. status' = status
    BY <1>1, <1>2
<1> QED
    BY <1>1, <1>6, <1>8, <1>9, <1>10

LEMMA AnalyzeFormStep == IInv /\ AnalyzeForm => IInv'
<1> SUFFICES ASSUME IInv, AnalyzeForm PROVE IInv'
    OBVIOUS
<1>0. /\ TypeOK /\ TaskInv /\ RegisteredInv /\ NeverPanics
      /\ objs \in Seq(Object) /\ Len(objs) \in Nat
      /\ namespaces \in [NS -> 0 .. Len(objs)]
    BY TypeParts, Lengths DEF IInv
<1>1. UNCHANGED <<namespaces, pipeline, engine, sources, files, res, calls>>
    BY DEF AnalyzeForm
<1>2. /\ objs' \in Seq(Object) /\ Len(objs') = Len(objs)
      /\ \A o \in DOMAIN objs :
            objs'[o].tree = objs[o].tree /\ objs'[o].buf = objs[o].buf
      /\ task' \in TaskType /\ status' = status
      /\ task'.op = task.op /\ task'.ns = task.ns /\ task'.obj = task.obj
    BY <1>0, AnalyzeFormTypes
<1>3. task' \in TaskType'
    BY <1>2 DEF TaskType
<1>4. TypeOK'
    BY <1>0, <1>1, <1>2, <1>3 DEF TypeOK, TaskType, engine, pipeline, sources
<1>5. TaskInv'
    <2>1. task.op # "none" => task.obj \in DOMAIN objs
        BY <1>0, TaskObject
    <2> QED
        BY <1>0, <1>1, <1>2, <2>1 DEF TaskInv, sources
<1>6. RegisteredInv'
    <2>1. objs # <<>> /\ namespaces[Default] # 0
        BY <1>0 DEF RegisteredInv
    <2> QED
        BY <1>0, <1>1, <1>2, <2>1 DEF RegisteredInv
<1>7. BufferAtLeastAsNew'
    BY <1>0, <1>1, <1>2 DEF IInv, BufferAtLeastAsNew, sources
<1> QED
    BY <1>1, <1>2, <1>4, <1>5, <1>6, <1>7
       DEF IInv, ModuleInv, NeverPanics, engine

LEMMA AnalysedType ==
    ASSUME TypeOK
    PROVE  Analysed \in Seq(Node)
<1>1. task.forms \in Seq(Form) /\ task.nodes \in Seq(Node)
    BY TypeParts DEF TaskType
<1>2. \A i \in DOMAIN task.forms : Raw(task.forms[i]) \in Node
    <2>1. \A f \in Form : Raw(f) \in Node
        BY DEF Raw, Form, Node, Names, Kinds
    <2> QED
        BY <1>1, <2>1
<1> DEFINE raw == [i \in DOMAIN task.forms |-> Raw(task.forms[i])]
<1>3. raw \in [DOMAIN task.forms -> Node]
    BY <1>2
<1>4. raw \in Seq(Node)
    <2> HIDE DEF raw
    <2> QED
        BY <1>1, <1>3, SeqByElement
<1> QED
    BY <1>1, <1>4 DEF Analysed

\* The nodes go to the object the program was analysed for, or nowhere.
LEMMA AddTreeTypes ==
    ASSUME TypeOK, task.obj \in DOMAIN objs, AddTree
    PROVE  /\ objs' \in Seq(Object) /\ Len(objs') = Len(objs)
           /\ DOMAIN objs' = DOMAIN objs
           /\ \A o \in DOMAIN objs :
                 /\ objs'[o].name = objs[o].name /\ objs'[o].env = objs[o].env
                 /\ objs'[o].fns = objs[o].fns /\ objs'[o].buf = objs[o].buf
                 /\ o # task.obj => objs'[o].tree = objs[o].tree
           /\ IF task.failed THEN objs' = objs
              ELSE objs'[task.obj].tree = objs[task.obj].tree \o Analysed
<1> DEFINE o == task.obj
           e == [objs[o] EXCEPT !.tree = @ \o Analysed]
<1>1. objs \in Seq(Object) /\ objs[o] \in Object /\ Analysed \in Seq(Node)
    BY TypeParts, AnalysedType
<1>2. CASE task.failed
    BY <1>1, <1>2 DEF AddTree
<1>3. CASE ~task.failed
    <2>1. objs' = [objs EXCEPT ![o] = e]
        BY <1>1, <1>3 DEF AddTree
    <2>2. objs[o].tree \o Analysed \in Seq(Node)
        <3>1. objs[o].tree \in Seq(Node)
            BY <1>1 DEF Object
        <3> QED
            BY <1>1, <3>1
    <2>3. /\ e \in Object /\ e.tree = objs[o].tree \o Analysed
          /\ e.name = objs[o].name /\ e.env = objs[o].env
          /\ e.fns = objs[o].fns /\ e.buf = objs[o].buf
        BY <1>1, <2>2 DEF Object
    <2> HIDE DEF e
    <2> QED
        BY <1>1, <1>3, <2>1, <2>3
<1> QED
    BY <1>2, <1>3

\* The end of an analysis: the task is over, and the objects, which keep their
\* buffers, are as many as before.
LEMMA FinishedTypes ==
    ASSUME IInv, NEW op \in {"eval", "read", "import"}, Finished(op), AddTree
    PROVE  /\ task' = NoTask /\ task' \in TaskType' /\ TaskInv'
           /\ objs' \in Seq(Object) /\ Len(objs') = Len(objs)
           /\ DOMAIN objs' = DOMAIN objs
           /\ objs' # <<>>
           /\ \A o \in DOMAIN objs : objs'[o].buf = objs[o].buf
           /\ task.op = op /\ task.obj \in DOMAIN objs /\ task.ns \in NS
<1>1. /\ TypeOK /\ TaskInv /\ RegisteredInv /\ task.op = op
      /\ Len(objs) \in Nat /\ objs # <<>> /\ objs \in Seq(Object)
    BY Lengths, TypeParts DEF IInv, Finished, RegisteredInv
<1>2. task.obj \in DOMAIN objs /\ task.ns \in NS
    BY <1>1, TaskObject
<1>3. /\ objs' \in Seq(Object) /\ Len(objs') = Len(objs)
      /\ DOMAIN objs' = DOMAIN objs
      /\ \A o \in DOMAIN objs : objs'[o].buf = objs[o].buf
    BY <1>1, <1>2, AddTreeTypes
<1>4. task' = NoTask
    BY DEF Finished
<1>5. task' \in TaskType'
    BY <1>1, <1>3, <1>4, NoTaskType DEF TaskType
<1>6. TaskInv'
    BY <1>4, NoTaskType DEF TaskInv
<1> QED
    BY <1>1, <1>2, <1>3, <1>4, <1>5, <1>6

\* The invariant about buffers, when the objects keep theirs.
LEMMA BuffersKept ==
    ASSUME IInv, UNCHANGED <<namespaces, nsTable>>,
           \A o \in DOMAIN objs : objs'[o].buf = objs[o].buf
    PROVE  BufferAtLeastAsNew'
<1>1. \A n \in NS : namespaces[n] # 0 => namespaces[n] \in DOMAIN objs
    <2>1. objs \in Seq(Object) /\ namespaces \in [NS -> 0 .. Len(objs)]
        BY TypeParts DEF IInv
    <2> QED
        BY <2>1
<1> QED
    BY <1>1 DEF IInv, BufferAtLeastAsNew

LEMMA ReturnsType ==
    ASSUME TypeOK, NEW out \in {"ok", "error"}, Returns(out)
    PROVE  res' \in AnswerType
<1>1. task.op \in {"none", "eval", "read", "import"} /\ task.ns \in NS
    BY TypeParts DEF TaskType
<1> QED
    BY <1>1 DEF Returns, Answer, AnswerType

\* An evaluation compiles what has just been analysed, from the size the tree
\* had before.
LEMMA AddedIsAnalysed ==
    ASSUME TypeOK, TaskInv, RegisteredInv, Finished("eval"), AddTree
    PROVE  Added \in Seq(Node) /\ (~task.failed => Added = Analysed)
<1>1. task.obj = Active /\ Active \in DOMAIN objs
    BY TaskObject DEF Finished, TaskInv
<1>2. /\ objs \in Seq(Object) /\ objs' \in Seq(Object)
      /\ Active \in DOMAIN objs' /\ Analysed \in Seq(Node)
    BY <1>1, AddTreeTypes, AnalysedType, TypeParts
<1>3. objs[Active].tree \in Seq(Node) /\ objs'[Active].tree \in Seq(Node)
    <2>1. objs[Active] \in Object /\ objs'[Active] \in Object
        BY <1>1, <1>2
    <2> QED
        BY <2>1 DEF Object
<1>4. Added \in Seq(Node)
    BY <1>3 DEF Added
<1>5. ASSUME ~task.failed PROVE Added = Analysed
    <2> DEFINE old == objs[Active].tree
               new == objs'[Active].tree
    <2>1. new = old \o Analysed
        BY <1>1, <1>5, AddTreeTypes
    <2>2. old \in Seq(Node)
        BY <1>3
    <2> HIDE DEF old, new
    <2>3. SubSeq(new, Len(old) + 1, Len(new)) = Analysed
        BY <1>2, <2>1, <2>2
    <2> QED
        BY <2>3 DEF Added, old, new
<1> QED
    BY <1>4, <1>5

LEMMA FinishReadStep == IInv /\ FinishRead => IInv'
<1> SUFFICES ASSUME IInv, FinishRead PROVE IInv'
    OBVIOUS
<1>1. /\ Finished("read") /\ AddTree
      /\ UNCHANGED <<namespaces, pipeline, engine, sources, files, status, calls>>
    BY DEF FinishRead
<1>2. /\ task' \in TaskType' /\ TaskInv'
      /\ objs' \in Seq(Object) /\ Len(objs') = Len(objs) /\ objs' # <<>>
      /\ \A o \in DOMAIN objs : objs'[o].buf = objs[o].buf
    BY <1>1, FinishedTypes
<1>3. res' \in AnswerType
    BY ReturnsType DEF FinishRead, IInv
<1>4. TypeOK'
    BY <1>1, <1>2, <1>3
       DEF IInv, TypeOK, TaskType, AnswerType, engine, pipeline, sources
<1>5. BufferAtLeastAsNew'
    BY <1>1, <1>2, BuffersKept DEF sources
<1> QED
    BY <1>1, <1>2, <1>4, <1>5
       DEF IInv, RegisteredInv, ModuleInv, NeverPanics, engine

LEMMA FinishImportStep == IInv /\ FinishImport => IInv'
<1> SUFFICES ASSUME IInv, FinishImport PROVE IInv'
    OBVIOUS
<1> DEFINE n == task.ns
<1>1. /\ Finished("import") /\ AddTree
      /\ UNCHANGED <<pipeline, sources, files, calls>>
      /\ status' \in {status, "uncaught"}
    BY DEF FinishImport
<1>2. /\ task' \in TaskType' /\ TaskInv'
      /\ objs' \in Seq(Object) /\ Len(objs') = Len(objs) /\ objs' # <<>>
      /\ DOMAIN objs' = DOMAIN objs
      /\ \A o \in DOMAIN objs : objs'[o].buf = objs[o].buf
      /\ task.op = "import" /\ task.obj \in DOMAIN objs /\ n \in NS
    BY <1>1, FinishedTypes
<1>3. /\ TypeOK /\ EngineOK /\ ModuleInv /\ Analysed \in Seq(Node)
      /\ Len(objs) \in Nat /\ objs \in Seq(Object)
      /\ namespaces \in [NS -> 0 .. Len(objs)] /\ namespaces[Default] # 0
    BY TypeParts, AnalysedType, Lengths DEF IInv, RegisteredInv
<1>4. /\ EngineOK' /\ ModuleInv' /\ res' \in AnswerType
      /\ \/ UNCHANGED namespaces
         \/ namespaces' = [namespaces EXCEPT ![n] = task.obj]
    <2>1. CASE task.failed /\ Returns("error") /\ UNCHANGED <<engine, namespaces>>
        BY <1>3, <2>1, ReturnsType DEF engine, EngineOK, ModuleInv
    <2>2. ASSUME NEW out \in {"ok", "error"},
                 AddNS(n, Analysed, out), Returns(out),
                 namespaces' = IF out = "ok"
                               THEN [namespaces EXCEPT ![n] = task.obj]
                               ELSE namespaces
          PROVE  /\ EngineOK' /\ ModuleInv' /\ res' \in AnswerType
                 /\ \/ UNCHANGED namespaces
                    \/ namespaces' = [namespaces EXCEPT ![n] = task.obj]
        BY <1>2, <1>3, <2>2, AddNSTypes, ReturnsType
    <2>3. CASE AddNS(n, Analysed, "uncaught") /\ UNCHANGED <<namespaces, res>>
        BY <1>2, <1>3, <2>3, AddNSTypes, TypeParts
    <2> QED
        BY <2>1, <2>2, <2>3 DEF FinishImport
<1>5. /\ namespaces' \in [NS -> 0 .. Len(objs')]
      /\ namespaces'[Default] # 0
    <2>1. task.obj \in 0 .. Len(objs) /\ task.obj # 0
        BY <1>2, <1>3
    <2> QED
        BY <1>2, <1>3, <1>4, <2>1, FormsOfPrograms
<1>6. TypeOK'
    BY <1>1, <1>2, <1>3, <1>4, <1>5
       DEF TypeOK, EngineOK, TaskType, AnswerType, pipeline, sources
<1>7. BufferAtLeastAsNew'
    <2>1. CASE UNCHANGED namespaces
        BY <1>1, <1>2, <2>1, BuffersKept DEF sources
    <2>2. CASE namespaces' = [namespaces EXCEPT ![n] = task.obj]
        <3> SUFFICES ASSUME NEW m \in NS, namespaces'[m] # 0
                     PROVE  nsTable'[m] >= objs'[namespaces'[m]].buf
            BY DEF BufferAtLeastAsNew
        <3>1. CASE m = n
            <4>1. objs[task.obj].buf <= nsTable[n]
                BY <1>2 DEF IInv, TaskInv
            <4>2. namespaces'[m] = task.obj /\ nsTable' = nsTable
                BY <1>1, <1>3, <2>2, <3>1 DEF sources
            <4>3. objs[task.obj].buf \in Nat /\ nsTable[n] \in Nat
                <5>1. objs[task.obj] \in Object
                    BY <1>2, <1>3
                <5>2. nsTable \in [NS -> 0 .. buffers] /\ buffers \in Nat
                    BY <1>3, TypeParts
                <5>3. objs[task.obj].buf \in Nat
                    BY <5>1 DEF Object
                <5>4. nsTable[n] \in 0 .. buffers
                    BY <1>2, <5>2, Zenon
                <5> QED
                    BY <5>2, <5>3, <5>4
            <4> QED
                BY <1>2, <3>1, <4>1, <4>2, <4>3
        <3>2. CASE m # n
            <4>1. namespaces'[m] = namespaces[m] /\ namespaces[m] \in DOMAIN objs
                BY <1>2, <1>3, <2>2, <3>2
            <4> QED
                BY <1>1, <1>2, <4>1 DEF IInv, BufferAtLeastAsNew, sources
        <3> QED
            BY <3>1, <3>2
    <2> QED
        BY <1>4, <2>1, <2>2
<1> QED
    BY <1>1, <1>2, <1>4, <1>5, <1>6, <1>7 DEF IInv, RegisteredInv, NeverPanics

LEMMA FinishEvalStep == IInv /\ FinishEval => IInv'
<1> SUFFICES ASSUME IInv, FinishEval PROVE IInv'
    OBVIOUS
<1> DEFINE d == Latest(Default)
           new == NewModule(d, Added)
<1>1. /\ Finished("eval") /\ AddTree
      /\ UNCHANGED <<namespaces, pipeline, dylibs, jitDylibs, cache, sources,
                     files, calls>>
    BY DEF FinishEval
<1>2. /\ task' \in TaskType' /\ TaskInv'
      /\ objs' \in Seq(Object) /\ Len(objs') = Len(objs) /\ objs' # <<>>
      /\ \A o \in DOMAIN objs : objs'[o].buf = objs[o].buf
    BY <1>1, FinishedTypes
<1>3. /\ TypeOK /\ EngineOK /\ ModuleInv
      /\ Len(modules) \in Nat /\ modules \in Seq(Module) /\ Len(dylibs) \in Nat
    BY TypeParts, Lengths DEF IInv, EngineOK
<1>4. new \in Module /\ new.dylib = d /\ d <= Len(dylibs)
    <2>1. d \in 0 .. Len(dylibs) /\ d \in Nat
        BY <1>3, LatestType, FormsOfPrograms
    <2> QED
        BY <1>1, <1>3, <2>1, ExportsType, AddedIsAnalysed DEF IInv
<1>5. modules' = modules \/ modules' = Append(modules, new)
    BY DEF FinishEval
<1> HIDE DEF new
<1>6. EngineOK' /\ ModuleInv'
    <2>1. CASE modules' = modules
        BY <1>1, <1>3, <2>1 DEF EngineOK, ModuleInv
    <2>2. CASE modules' = Append(modules, new)
        <3>1. /\ modules' \in Seq(Module) /\ Len(modules') = Len(modules) + 1
              /\ \A m \in DOMAIN modules' :
                    modules'[m] = IF m \in DOMAIN modules THEN modules[m] ELSE new
            BY <1>3, <1>4, <2>2
        <3>2. ModuleInv'
            BY <1>1, <1>3, <1>4, <3>1 DEF ModuleInv
        <3>3. cache' \in 0 .. Len(modules')
            BY <1>1, <1>3, <3>1 DEF EngineOK
        <3> QED
            BY <1>1, <1>3, <3>1, <3>2, <3>3 DEF EngineOK
    <2> QED
        BY <1>5, <2>1, <2>2
<1>7. /\ res' \in AnswerType
      /\ status' \in {status, "nomodule", "duplicate", "uncaught"}
    <2>1. res \in AnswerType
        BY <1>3, TypeParts
    <2>2. Returns("error") \/ Returns("ok") \/ res' = res
        BY DEF FinishEval
    <2> QED
        BY <1>3, <2>1, <2>2, ReturnsType DEF FinishEval
<1>8. TypeOK'
    BY <1>1, <1>2, <1>3, <1>6, <1>7
       DEF TypeOK, EngineOK, TaskType, AnswerType, pipeline, sources
<1>9. BufferAtLeastAsNew'
    BY <1>1, <1>2, BuffersKept DEF sources
<1> QED
    BY <1>1, <1>2, <1>6, <1>7, <1>8, <1>9 DEF IInv, RegisteredInv, NeverPanics

LEMMA StepInv == IInv /\ [Next]_vars => IInv'
<1> SUFFICES ASSUME IInv, [Next]_vars PROVE IInv'
    OBVIOUS
<1>1. CASE Next
    <2>1. ASSUME NEW n \in Reloadable,
                 \/ MakeNamespace(n)
                 \/ \E op \in {"read", "import"} : BeginRead(op, n)
          PROVE  IInv'
        <3>1. n \in NS
            BY ContextAssumption
        <3> QED
            BY <2>1, <3>1, MakeNamespaceStep, BeginReadStep
    <2> QED
        BY <1>1, <2>1, MakeContextStep, AnalyzeFormStep, FinishReadStep,
           FinishImportStep, FinishEvalStep, QuietSteps, BeginEvalStep, LookupStep
           DEF Next
<1>2. CASE UNCHANGED vars
    <2>1. /\ objs' = objs /\ namespaces' = namespaces /\ phase' = phase
          /\ passes' = passes /\ dylibs' = dylibs /\ jitDylibs' = jitDylibs
          /\ modules' = modules /\ cache' = cache /\ buffers' = buffers
          /\ nsTable' = nsTable /\ files' = files /\ task' = task
          /\ status' = status /\ res' = res /\ calls' = calls
        BY <1>2, Zenon DEF vars, pipeline, engine, sources
    <2>2. /\ phase \in 0 .. NoOptimization /\ passes \subseteq {"ToMLIR", "ToLLVM"}
          /\ files \in [NS -> Programs \cup {NoSource, Unparsable}] /\ calls \in Nat
        BY TypeParts DEF IInv
    <2> QED
        BY <2>1, <2>2, QuietInvariant
<1> QED
    BY <1>1, <1>2

LEMMA Inductive == Spec => []IInv
BY InitInv, StepInv, PTL DEF Spec

(* The state keeps its types: what is registered is an object that was     *)
(* made, what a namespace lists is a dylib of the session (context.h,      *)
(* source_mgr.h).                                                          *)
THEOREM TypeCorrect == Spec => []TypeOK
<1>1. IInv => TypeOK
    BY DEF IInv
<1> QED
    BY Inductive, <1>1, PTL

(* No order of calls brings the analysis of a function to a namespace that *)
(* is not registered (context.cpp:45-53).                                  *)
THEOREM AnalysisFindsItsNamespace == Spec => []NeverPanics
<1>1. IInv => NeverPanics
    BY DEF IInv
<1> QED
    BY Inductive, <1>1, PTL

(* A registered namespace's name never leads to an older buffer than its   *)
(* own, however often files are read again, or cannot be                   *)
(* (source_mgr.cpp:90-104).                                                *)
THEOREM BuffersNotOlder == Spec => []BufferAtLeastAsNew
<1>1. IInv => BufferAtLeastAsNew
    BY DEF IInv
<1> QED
    BY Inductive, <1>1, PTL

-----------------------------------------------------------------------------
(* What a step may do                                                      *)

\* Only these steps end an analysis.
LEMMA AnalysisEnds ==
    ASSUME IInv, [Next]_vars, task.op # "none", task'.op = "none"
    PROVE  FinishRead \/ FinishImport \/ FinishEval
<1>1. ~AnalyzeForm
    BY AnalyzeFormTypes DEF IInv
<1>2. \A n, op : ~BeginRead(op, n) /\ ~MakeNamespace(n)
    BY DEF BeginRead, MakeNamespace, Call, Idle
<1>3. \A p : ~BeginEval(p)
    BY DEF BeginEval, Call, Idle
<1>4. \A n, x : ~Lookup(n, x) /\ ~EditFile(n, x) /\ ~SetOperationPhase(x)
    BY DEF Lookup, EditFile, SetOperationPhase, Call, Idle
<1>5. ~MakeContext /\ ~UNCHANGED vars
    BY DEF MakeContext, vars
<1> QED
    BY <1>1, <1>2, <1>3, <1>4, <1>5 DEF Next

\* Only addNS creates dylibs.
LEMMA DylibSteps ==
    ASSUME IInv, [Next]_vars
    PROVE  (\E n \in NS : CreateDylib(n)) \/ UNCHANGED <<dylibs, jitDylibs>>
<1>0. /\ TypeOK /\ EngineOK /\ ModuleInv /\ Default \in NS
      /\ task.ns \in NS /\ Analysed \in Seq(Node) /\ <<>> \in Seq(Node)
    BY TypeParts, AnalysedType, FormsOfPrograms DEF IInv, TaskType
<1>1. ASSUME NEW n \in NS, NEW tree \in Seq(Node), NEW out, AddNS(n, tree, out)
      PROVE  (\E m \in NS : CreateDylib(m)) \/ UNCHANGED <<dylibs, jitDylibs>>
    BY <1>0, <1>1, AddNSTypes
<1>2. CASE MakeContext
    BY <1>0, <1>1, <1>2 DEF MakeContext
<1>3. CASE FinishImport
    <2>1. CASE UNCHANGED <<engine, namespaces>>
        BY <2>1 DEF engine
    <2>2. CASE \E out : AddNS(task.ns, Analysed, out)
        BY <1>0, <1>1, <2>2
    <2> QED
        BY <1>3, <2>1, <2>2 DEF FinishImport
<1>4. CASE UNCHANGED engine
    BY <1>4 DEF engine
<1>5. CASE FinishEval \/ \E n \in NS, x \in Syms : Lookup(n, x)
    BY <1>5 DEF FinishEval, Lookup
<1>6. MakeContext \/ FinishImport \/ FinishEval \/ UNCHANGED engine
      \/ \E n \in NS, x \in Syms : Lookup(n, x)
    BY DEF Next, vars, AnalyzeForm, FinishRead, SetOperationPhase, EditFile,
           MakeNamespace, BeginRead, BeginEval
<1> QED
    BY <1>2, <1>3, <1>4, <1>5, <1>6

-----------------------------------------------------------------------------
(* An import adds what it read                                             *)

(* After an import the namespace is the object just read, and its newest   *)
(* dylib defines what the tree does and nothing else (context.cpp:125-139).*)
THEOREM ImportsPublish == Spec => ImportedIsPublished
<1> DEFINE Published == Imports => ImportPublishes
<1>1. IInv /\ [Next]_vars => [Published]_vars
    <2> SUFFICES ASSUME IInv, [Next]_vars, Imports PROVE ImportPublishes
        OBVIOUS
    <2> DEFINE n == task.ns
               new == NewModule(Len(dylibs) + 1, Analysed)
    <2>1. /\ FinishImport /\ task.op = "import" /\ res'.out = "ok"
          /\ status' # "uncaught"
        <3>1. /\ task.op = "import" /\ task'.op = "none" /\ res'.out = "ok"
              /\ status' # "uncaught"
            BY DEF Imports
        <3> QED
            BY <3>1, AnalysisEnds DEF FinishRead, FinishEval, Finished
    <2>2. /\ ~task.failed /\ AddNS(n, Analysed, "ok")
          /\ namespaces' = [namespaces EXCEPT ![n] = task.obj]
        BY <2>1 DEF FinishImport, Returns, Answer
    <2>3. /\ TypeOK /\ EngineOK /\ ModuleInv /\ Analysed \in Seq(Node)
          /\ n \in NS /\ task.obj \in DOMAIN objs
          /\ Len(dylibs) \in Nat /\ Len(modules) \in Nat
          /\ modules \in Seq(Module)
          /\ namespaces \in [NS -> 0 .. Len(objs)]
        BY <2>1, TypeParts, AnalysedType, TaskObject, Lengths DEF IInv, EngineOK
    <2>4. /\ CreateDylib(n) /\ modules' = Append(modules, new)
        BY <2>2, <2>3, AddNSTypes
    <2>5. namespaces'[n] = task.obj
        BY <2>2, <2>3
    <2>6. jitDylibs'[n][Len(jitDylibs'[n])] = Len(dylibs) + 1
        <3>1. jitDylibs'[n] = Append(jitDylibs[n], Len(dylibs) + 1)
            BY <2>3, <2>4, CreateDylibTypes
        <3>2. jitDylibs[n] \in Seq(Nat)
            BY <2>3 DEF EngineOK
        <3> QED
            BY <2>3, <3>1, <3>2
    <2>7. objs'[task.obj].tree = Analysed
        <3>1. objs'[task.obj].tree = objs[task.obj].tree \o Analysed
            BY <2>1, <2>2, <2>3, AddTreeTypes DEF FinishImport
        <3>2. objs[task.obj].tree = <<>>
            BY <2>1 DEF IInv, TaskInv
        <3> QED
            BY <2>3, <3>1, <3>2
    <2>8. /\ new.dylib = Len(dylibs) + 1 /\ new.defs = Exports(Analysed)
          /\ new \in Module
        BY <2>3, ExportsType
    <2> HIDE DEF new
    <2>9. {k \in DOMAIN modules' : modules'[k].dylib = Len(dylibs) + 1}
             = {Len(modules) + 1}
        <3>1. \A m \in DOMAIN modules : modules[m].dylib # Len(dylibs) + 1
            <4>1. \A m \in DOMAIN modules : modules[m] \in Module
                BY <2>3
            <4>2. \A m \in DOMAIN modules :
                     modules[m].dylib \in Nat /\ modules[m].dylib <= Len(dylibs)
                BY <2>3, <4>1 DEF ModuleInv, Module
            <4> QED
                BY <2>3, <4>2
        <3>2. /\ DOMAIN modules' = 1 .. (Len(modules) + 1)
              /\ DOMAIN modules = 1 .. Len(modules)
              /\ \A m \in DOMAIN modules : modules'[m] = modules[m]
              /\ modules'[Len(modules) + 1] = new
            BY <2>3, <2>4, <2>8
        <3>3. \A m \in DOMAIN modules' :
                 m \in DOMAIN modules \/ m = Len(modules) + 1
            BY <2>3, <3>2
        <3>4. Len(modules) + 1 \in DOMAIN modules'
            BY <2>3, <3>2
        <3> QED
            BY <2>8, <3>1, <3>2, <3>3, <3>4
    <2>10. modules'[Len(modules) + 1].defs = Exports(Analysed)
        BY <2>3, <2>4, <2>8
    <2> QED
        BY <2>5, <2>6, <2>7, <2>9, <2>10 DEF ImportPublishes
<1> QED
    BY <1>1, Inductive, PTL DEF Spec, ImportedIsPublished

-----------------------------------------------------------------------------
(* The registry                                                            *)

\* The numbers of the dylibs of each namespace, oldest first: what the
\* refinement mapping makes of the registry.
Numbers == [n \in NS |->
               [i \in DOMAIN jitDylibs[n] |-> dylibs[jitDylibs[n][i]].num]]

(* The context implements DylibRegistry: whatever is imported, and fails,  *)
(* a dylib gets the next number of its namespace and goes to the end of    *)
(* that namespace's list (halley.cpp:186-211).                             *)
THEOREM RegistryRefined == Spec => ImplementsRegistry
<1>1. Init => Registry!Init
    BY DEF Init, Registry!Init
<1>2. IInv /\ [Next]_vars => [Registry!Next]_Numbers
    <2> SUFFICES ASSUME IInv, [Next]_vars
                 PROVE  Registry!Next \/ UNCHANGED Numbers
        OBVIOUS
    <2>0. /\ EngineOK /\ Len(dylibs) \in Nat
          /\ dylibs \in Seq([ns : NS, num : Nat])
          /\ jitDylibs \in [NS -> Seq(1 .. Len(dylibs))]
        BY TypeParts, Lengths DEF IInv, EngineOK
    <2>1. ASSUME NEW n \in NS, CreateDylib(n)
          PROVE  Registry!Next
        <3> DEFINE pos == Len(jitDylibs[n]) + 1
        <3>1. /\ \A d \in DOMAIN dylibs : dylibs'[d] = dylibs[d]
              /\ dylibs'[Len(dylibs) + 1].num = pos
              /\ jitDylibs' \in [NS -> Seq(1 .. Len(dylibs'))]
              /\ \A m \in NS : m # n => jitDylibs'[m] = jitDylibs[m]
              /\ jitDylibs'[n] = Append(jitDylibs[n], Len(dylibs) + 1)
            BY <2>0, <2>1, CreateDylibTypes
        <3>2. \A m \in NS : /\ jitDylibs[m] \in Seq(1 .. Len(dylibs))
                             /\ \A i \in DOMAIN jitDylibs[m] :
                                    jitDylibs[m][i] \in DOMAIN dylibs
            <4>1. \A m \in NS : jitDylibs[m] \in Seq(1 .. Len(dylibs))
                BY <2>0
            <4>2. DOMAIN dylibs = 1 .. Len(dylibs)
                BY <2>0
            <4> QED
                BY <4>1, <4>2
        <3>3. /\ pos \in Nat \ {0} /\ DOMAIN jitDylibs[n] = 1 .. (pos - 1)
              /\ DOMAIN jitDylibs'[n] = 1 .. pos
              /\ jitDylibs'[n][pos] = Len(dylibs) + 1
              /\ \A i \in 1 .. (pos - 1) : jitDylibs'[n][i] = jitDylibs[n][i]
            <4>1. jitDylibs[n] \in Seq(Nat)
                BY <2>0
            <4> QED
                BY <2>0, <3>1, <4>1
        <3> HIDE DEF pos
        <3>4. \A m \in NS \ {n} : Numbers'[m] = Numbers[m]
            <4> SUFFICES ASSUME NEW m \in NS, m # n PROVE Numbers'[m] = Numbers[m]
                OBVIOUS
            <4>1. jitDylibs'[m] = jitDylibs[m]
                BY <3>1
            <4>2. \A i \in DOMAIN jitDylibs[m] :
                      dylibs'[jitDylibs[m][i]] = dylibs[jitDylibs[m][i]]
                BY <3>1, <3>2
            <4>3. Numbers'[m] = [i \in DOMAIN jitDylibs[m] |-> dylibs'[jitDylibs[m][i]].num]
                BY <4>1 DEF Numbers
            <4>4. Numbers[m] = [i \in DOMAIN jitDylibs[m] |-> dylibs[jitDylibs[m][i]].num]
                BY DEF Numbers
            <4> QED
                BY <4>2, <4>3, <4>4
        <3>5. Numbers[n] \in Seq(Nat) /\ Len(Numbers[n]) = pos - 1
            <4>1. \A d \in DOMAIN dylibs : dylibs[d].num \in Nat
                <5> DEFINE D == [ns : NS, num : Nat]
                <5>1. dylibs \in Seq(D) /\ \A e \in D : e.num \in Nat
                    BY <2>0
                <5> HIDE DEF D
                <5> QED
                    BY <5>1
            <4>2. Numbers[n] \in [1 .. (pos - 1) -> Nat]
                BY <3>2, <3>3, <4>1 DEF Numbers
            <4>3. pos - 1 \in Nat
                BY <3>3
            <4> QED
                BY <4>2, <4>3
        <3>6. Numbers'[n] = Append(Numbers[n], pos)
            <4>1. Numbers'[n] = [i \in 1 .. pos |-> dylibs'[jitDylibs'[n][i]].num]
                BY <3>3 DEF Numbers
            <4>2. ASSUME NEW i \in 1 .. pos
                  PROVE  dylibs'[jitDylibs'[n][i]].num = Append(Numbers[n], pos)[i]
                <5>1. CASE i = pos
                    BY <3>1, <3>3, <3>5, <5>1
                <5>2. CASE i \in 1 .. (pos - 1)
                    <6>1. dylibs'[jitDylibs'[n][i]].num = Numbers[n][i]
                        BY <3>1, <3>2, <3>3, <5>2 DEF Numbers
                    <6> QED
                        BY <3>3, <3>5, <5>2, <6>1
                <5>3. i = pos \/ i \in 1 .. (pos - 1)
                    BY <3>3, <4>2
                <5> QED
                    BY <5>1, <5>2, <5>3
            <4>3. Append(Numbers[n], pos) =
                     [i \in 1 .. pos |-> Append(Numbers[n], pos)[i]]
                BY <3>3, <3>5
            <4> QED
                BY <4>1, <4>2, <4>3
        <3>7. Numbers' = [Numbers EXCEPT ![n] = Append(@, pos)]
            BY <3>4, <3>6 DEF Numbers
        <3>8. Len(Numbers[n]) + 1 = pos
            BY <3>3, <3>5
        <3> QED
            BY <3>7, <3>8
               DEF Registry!Next, Registry!RegisterNamespace, Numbers
    <2>2. CASE UNCHANGED <<dylibs, jitDylibs>>
        BY <2>2 DEF Numbers
    <2> QED
        BY <2>1, <2>2, DylibSteps
<1> QED
    BY <1>1, <1>2, Inductive, PTL
       DEF Spec, ImplementsRegistry, Registry!Spec, Numbers

-----------------------------------------------------------------------------
(* The active namespace, when nothing registers another serene.user        *)

\* The namespace an analysis is for is the object it fills.
SettledInv ==
    /\ namespaces[Default] = Active
    /\ task.op # "none" => namespaces[task.ns] = task.obj

LEMMA SettledInit == Init => SettledInv
BY NoTaskType, FormsOfPrograms DEF Init, SettledInv, Active

LEMMA SettledStep ==
    ASSUME IInv, SettledInv, [Next]_vars, Default \notin Reloadable
    PROVE  SettledInv'
<1>0. /\ TypeOK /\ objs \in Seq(Object) /\ Len(objs) \in Nat
      /\ namespaces \in [NS -> 0 .. Len(objs)] /\ task \in TaskType
      /\ Default \in NS /\ Reloadable \subseteq NS
    BY TypeParts, Lengths, ContextAssumption DEF IInv
<1> USE DEF SettledInv
<1>1. ASSUME UNCHANGED <<namespaces, task>> PROVE SettledInv'
    BY <1>1
<1>2. ASSUME NEW n \in Reloadable, MakeNamespace(n) PROVE SettledInv'
    BY <1>0, <1>2, RegisterTypes DEF MakeNamespace, Call, Idle
<1>3. ASSUME NEW n \in Reloadable, NEW op \in {"read", "import"}, BeginRead(op, n)
      PROVE  SettledInv'
    <2>1. CASE UNCHANGED <<namespaces, task>>
        BY <1>1, <2>1
    <2>2. CASE /\ files[n] \in Programs /\ Register(n, buffers + 1)
               /\ Start(op, n, Len(objs) + 1, files[n])
        <3>1. task'.ns = n /\ task'.obj = Len(objs) + 1
            BY <2>2 DEF Start, NoTask
        <3>2. buffers + 1 \in Nat
            BY <1>0, TypeParts
        <3>3. namespaces'[n] = Len(objs) + 1 /\ namespaces'[Default] = namespaces[Default]
            BY <1>0, <2>2, <3>2, RegisterTypes
        <3> QED
            BY <3>1, <3>3
    <2> QED
        BY <1>3, <2>1, <2>2 DEF BeginRead
<1>4. ASSUME NEW p \in Programs, BeginEval(p) PROVE SettledInv'
    BY <1>4 DEF BeginEval, Start, NoTask
<1>5. CASE AnalyzeForm
    BY <1>5, AnalyzeFormTypes DEF IInv, AnalyzeForm
<1>6. CASE FinishRead \/ FinishEval
    BY <1>6, NoTaskType DEF FinishRead, FinishEval, Finished
<1>7. CASE FinishImport
    <2>1. task' = NoTask /\ task.op = "import"
        BY <1>7 DEF FinishImport, Finished
    <2>2. \/ namespaces' = namespaces
          \/ namespaces' = [namespaces EXCEPT ![task.ns] = task.obj]
        BY <1>7 DEF FinishImport
    <2>3. namespaces' = namespaces
        BY <1>0, <2>1, <2>2
    <2> QED
        BY <2>1, <2>3, NoTaskType
<1>8. CASE UNCHANGED vars
    BY <1>1, <1>8 DEF vars
<1> QED
    BY <1>1, <1>2, <1>3, <1>4, <1>5, <1>6, <1>7, <1>8
       DEF Next, MakeContext, SetOperationPhase, EditFile, Lookup

\* The tree of the active namespace changes at the end of an evaluation only.
LEMMA ActiveTreeKept ==
    ASSUME IInv, [Next]_vars, ~FinishEval
    PROVE  objs'[Active].tree = objs[Active].tree
<1>0. /\ TypeOK /\ objs \in Seq(Object) /\ Len(objs) \in Nat
      /\ Active \in DOMAIN objs /\ Reloadable \subseteq NS
    BY TypeParts, Lengths, ContextAssumption DEF IInv, RegisteredInv, Active
<1>1. ASSUME NEW n \in Reloadable, NEW b \in Nat, Register(n, b)
      PROVE  objs'[Active].tree = objs[Active].tree
    BY <1>0, <1>1, RegisterTypes
<1>2. CASE \E n \in Reloadable : MakeNamespace(n)
    BY <1>1, <1>2 DEF MakeNamespace
<1>3. CASE \E n \in Reloadable : \E op \in {"read", "import"} : BeginRead(op, n)
    <2>1. buffers + 1 \in Nat
        BY <1>0, TypeParts
    <2> QED
        BY <1>1, <1>3, <2>1 DEF BeginRead
<1>4. CASE AnalyzeForm
    BY <1>0, <1>4, AnalyzeFormTypes DEF IInv
<1>5. CASE FinishRead \/ FinishImport
    <2>1. AddTree /\ task.op \in {"read", "import"}
        BY <1>5 DEF FinishRead, FinishImport, Finished
    <2>2. task.obj # Active /\ task.obj \in DOMAIN objs
        BY <1>0, <2>1, TaskObject DEF IInv, TaskInv
    <2> QED
        BY <1>0, <2>1, <2>2, AddTreeTypes
<1>6. CASE UNCHANGED objs
    BY <1>6
<1> QED
    BY <1>2, <1>3, <1>4, <1>5, <1>6
       DEF Next, vars, MakeContext, SetOperationPhase, EditFile, BeginEval, Lookup

-----------------------------------------------------------------------------
(* What dylibs and trees define                                            *)

DefsIn(ms, d) == UNION {ms[m].defs : m \in {k \in DOMAIN ms : ms[k].dylib = d}}

LEMMA DefsAreThose == \A d : DefsOf(d) = DefsIn(modules, d)
BY DEF DefsOf, DefsIn, ModulesIn

LEMMA DefsAppend ==
    ASSUME NEW ms \in Seq(Module), NEW m \in Module, NEW d
    PROVE  /\ m.dylib = d => DefsIn(Append(ms, m), d) = DefsIn(ms, d) \cup m.defs
           /\ m.dylib # d => DefsIn(Append(ms, m), d) = DefsIn(ms, d)
<1> DEFINE mt == Append(ms, m)
           last == Len(ms) + 1
<1>1. /\ DOMAIN mt = DOMAIN ms \cup {last} /\ last \notin DOMAIN ms
      /\ mt[last] = m /\ \A k \in DOMAIN ms : mt[k] = ms[k]
    OBVIOUS
<1> HIDE DEF mt, last
<1>2. \A x : x \in DefsIn(mt, d) <=>
            x \in DefsIn(ms, d) \/ (m.dylib = d /\ x \in m.defs)
    <2>1. \A x : x \in DefsIn(mt, d) <=>
                \E k \in DOMAIN mt : mt[k].dylib = d /\ x \in mt[k].defs
        BY DEF DefsIn
    <2>2. \A x : x \in DefsIn(ms, d) <=>
                \E k \in DOMAIN ms : ms[k].dylib = d /\ x \in ms[k].defs
        BY DEF DefsIn
    <2> QED
        BY <1>1, <2>1, <2>2
<1> QED
    BY <1>2 DEF mt

LEMMA DefsSame ==
    ASSUME NEW ms, NEW mt, NEW d, DOMAIN ms = DOMAIN mt,
           \A m \in DOMAIN ms : mt[m].dylib = ms[m].dylib /\ mt[m].defs = ms[m].defs
    PROVE  DefsIn(mt, d) = DefsIn(ms, d)
<1>1. {k \in DOMAIN mt : mt[k].dylib = d} = {k \in DOMAIN ms : ms[k].dylib = d}
    OBVIOUS
<1> QED
    BY <1>1 DEF DefsIn

\* A dylib that is not there has no definitions.
LEMMA DefsNowhere ==
    ASSUME EngineOK, ModuleInv, NEW d \in Nat, d > Len(dylibs)
    PROVE  DefsIn(modules, d) = {}
<1>1. modules \in Seq(Module) /\ Len(dylibs) \in Nat
    BY DEF EngineOK
<1>2. \A m \in DOMAIN modules : modules[m] \in Module
    BY <1>1
<1>3. \A m \in DOMAIN modules : modules[m].dylib # d
    <2>1. \A m \in DOMAIN modules :
             modules[m].dylib \in Nat /\ modules[m].dylib <= Len(dylibs)
        BY <1>2 DEF Module, ModuleInv
    <2> QED
        BY <1>1, <2>1
<1> QED
    BY <1>3 DEF DefsIn

LEMMA Concatenated ==
    ASSUME NEW S, NEW s \in Seq(S), NEW t \in Seq(S)
    PROVE  /\ s \o t \in Seq(S)
           /\ \A i \in DOMAIN s : i \in DOMAIN (s \o t) /\ (s \o t)[i] = s[i]
           /\ \A i \in DOMAIN t : /\ Len(s) + i \in DOMAIN (s \o t)
                                 /\ (s \o t)[Len(s) + i] = t[i]
           /\ \A i \in DOMAIN (s \o t) :
                 i \in DOMAIN s \/ (i \notin DOMAIN s
                                     /\ \E j \in DOMAIN t : i = Len(s) + j)
<1>1. /\ Len(s) \in Nat /\ Len(t) \in Nat
      /\ DOMAIN s = 1 .. Len(s) /\ DOMAIN t = 1 .. Len(t)
      /\ s \o t \in Seq(S) /\ DOMAIN (s \o t) = 1 .. (Len(s) + Len(t))
      /\ \A i \in 1 .. (Len(s) + Len(t)) :
            (s \o t)[i] = IF i <= Len(s) THEN s[i] ELSE t[i - Len(s)]
    OBVIOUS
<1>2. ASSUME NEW i \in DOMAIN t
      PROVE  Len(s) + i \in DOMAIN (s \o t) /\ (s \o t)[Len(s) + i] = t[i]
    <2>1. Len(s) + i \in 1 .. (Len(s) + Len(t)) /\ ~(Len(s) + i <= Len(s))
          /\ Len(s) + i - Len(s) = i
        BY <1>1
    <2> QED
        BY <1>1, <2>1
<1>3. ASSUME NEW i \in DOMAIN (s \o t), i \notin DOMAIN s
      PROVE  \E j \in DOMAIN t : i = Len(s) + j
    <2>1. i - Len(s) \in DOMAIN t /\ i = Len(s) + (i - Len(s))
        BY <1>1, <1>3
    <2> QED
        BY <2>1
<1>4. \A i \in DOMAIN s : i \in DOMAIN (s \o t) /\ (s \o t)[i] = s[i]
    BY <1>1
<1> QED
    BY <1>1, <1>2, <1>3, <1>4

LEMMA ExportsConcat ==
    ASSUME NEW s \in Seq(Node), NEW t \in Seq(Node)
    PROVE  Exports(s \o t) = Exports(s) \cup Exports(t)
<1> DEFINE Gives(z, x) ==
               \E i \in DOMAIN z :
                  \/ z[i].kind = "fn" /\ x = z[i].name
                  \/ z[i].kind = "number" /\ x = RandomName
<1>1. \A z, x : x \in Exports(z) <=> Gives(z, x)
    BY DEF Exports, Emitted
<1>2. \A x : Gives(s \o t, x) <=> Gives(s, x) \/ Gives(t, x)
    <2> SUFFICES ASSUME NEW x
                 PROVE  Gives(s \o t, x) <=> Gives(s, x) \/ Gives(t, x)
        OBVIOUS
    <2>1. /\ \A i \in DOMAIN s : i \in DOMAIN (s \o t) /\ (s \o t)[i] = s[i]
          /\ \A i \in DOMAIN t : /\ Len(s) + i \in DOMAIN (s \o t)
                                /\ (s \o t)[Len(s) + i] = t[i]
          /\ \A i \in DOMAIN (s \o t) :
                i \in DOMAIN s \/ \E j \in DOMAIN t : i = Len(s) + j
        BY Concatenated
    <2>2. Gives(s \o t, x) => Gives(s, x) \/ Gives(t, x)
        <3> SUFFICES ASSUME NEW i \in DOMAIN (s \o t),
                            \/ (s \o t)[i].kind = "fn" /\ x = (s \o t)[i].name
                            \/ (s \o t)[i].kind = "number" /\ x = RandomName
                     PROVE  Gives(s, x) \/ Gives(t, x)
            OBVIOUS
        <3>1. CASE i \in DOMAIN s
            BY <2>1, <3>1
        <3>2. CASE \E j \in DOMAIN t : i = Len(s) + j
            BY <2>1, <3>2
        <3> QED
            BY <2>1, <3>1, <3>2
    <2>3. Gives(s, x) => Gives(s \o t, x)
        BY <2>1
    <2>4. Gives(t, x) => Gives(s \o t, x)
        <3> SUFFICES ASSUME NEW i \in DOMAIN t,
                            \/ t[i].kind = "fn" /\ x = t[i].name
                            \/ t[i].kind = "number" /\ x = RandomName
                     PROVE  Gives(s \o t, x)
            OBVIOUS
        <3>1. Len(s) + i \in DOMAIN (s \o t) /\ (s \o t)[Len(s) + i] = t[i]
            BY <2>1
        <3> QED
            BY <3>1
    <2> QED
        BY <2>2, <2>3, <2>4
<1> HIDE DEF Gives
<1> QED
    BY <1>1, <1>2

-----------------------------------------------------------------------------
(* What is evaluated is published                                          *)

\* While the process runs, in the middle of an analysis too.
PublishedInv ==
    /\ status = "making" => objs[Active].tree = <<>>
    /\ status = "running" =>
          Exports(objs[Active].tree) = DefsOf(Latest(Default))

\* Only an evaluation changes what the newest dylib of serene.user defines.
LEMMA NewestKept ==
    ASSUME IInv, SettledInv, [Next]_vars, ~FinishEval, ~MakeContext
    PROVE  DefsIn(modules', Latest(Default)') = DefsIn(modules, Latest(Default))
<1>0. /\ TypeOK /\ EngineOK /\ ModuleInv /\ Default \in NS
      /\ modules \in Seq(Module) /\ Len(dylibs) \in Nat
      /\ jitDylibs \in [NS -> Seq(1 .. Len(dylibs))]
    BY TypeParts, Lengths, FormsOfPrograms DEF IInv, EngineOK
<1>1. CASE UNCHANGED engine
    BY <1>1 DEF engine, Latest
<1>2. CASE \E n \in NS, x \in Syms : Lookup(n, x)
    <2>1. UNCHANGED jitDylibs
        BY <1>2 DEF Lookup
    <2>2. UNCHANGED modules \/ \E m \in DOMAIN modules : Materialise(m)
        BY <1>2 DEF Lookup, ModulesIn
    <2>3. CASE UNCHANGED modules
        BY <2>1, <2>3 DEF Latest
    <2>4. CASE \E m \in DOMAIN modules : Materialise(m)
        <3>1. PICK m \in DOMAIN modules : Materialise(m)
            BY <2>4
        <3>2. /\ DOMAIN modules' = DOMAIN modules
              /\ \A k \in DOMAIN modules :
                    /\ modules'[k].dylib = modules[k].dylib
                    /\ modules'[k].defs = modules[k].defs
            BY <1>0, <3>1, MaterialiseTypes
        <3>3. Latest(Default)' = Latest(Default)
            BY <2>1 DEF Latest
        <3> QED
            BY <3>2, <3>3, DefsSame
    <2> QED
        BY <2>2, <2>3, <2>4
<1>3. CASE FinishImport
    <2> DEFINE n == task.ns
               new == NewModule(Len(dylibs) + 1, Analysed)
    <2>1. \/ UNCHANGED engine
          \/ \E out : AddNS(n, Analysed, out)
        BY <1>3 DEF FinishImport
    <2>2. CASE \E out : AddNS(n, Analysed, out)
        <3>1. PICK out : AddNS(n, Analysed, out)
            BY <2>2
        <3>2. n \in NS /\ n # Default /\ Analysed \in Seq(Node)
            <4>1. task.op = "import"
                BY <1>3 DEF FinishImport, Finished
            <4> QED
                BY <1>0, <4>1, AnalysedType, TypeParts
                   DEF IInv, TaskInv, SettledInv, TaskType
        <3>3. /\ CreateDylib(n) \/ UNCHANGED <<dylibs, jitDylibs>>
              /\ modules' = modules \/ modules' = Append(modules, new)
            BY <1>0, <3>1, <3>2, AddNSTypes
        <3>4. jitDylibs'[Default] = jitDylibs[Default]
            BY <1>0, <3>2, <3>3, CreateDylibTypes
        <3>5. Latest(Default)' = Latest(Default)
            BY <3>4 DEF Latest
        <3>6. new \in Module /\ new.dylib = Len(dylibs) + 1
            BY <1>0, <3>2, ExportsType
        <3>7. Latest(Default) # Len(dylibs) + 1
            BY <1>0, LatestType
        <3> HIDE DEF new
        <3>8. DefsIn(Append(modules, new), Latest(Default))
                 = DefsIn(modules, Latest(Default))
            BY <1>0, <3>6, <3>7, DefsAppend
        <3> QED
            BY <3>3, <3>5, <3>8
    <2> QED
        BY <1>1, <2>1, <2>2
<1> QED
    BY <1>1, <1>2, <1>3
       DEF Next, vars, AnalyzeForm, FinishRead, SetOperationPhase, EditFile,
           MakeNamespace, BeginRead, BeginEval

LEMMA PublishedInit == Init => PublishedInv
BY DEF Init, PublishedInv, Active, NewObject

LEMMA PublishedStep ==
    ASSUME IInv, SettledInv, PublishedInv, [Next]_vars
    PROVE  PublishedInv'
<1>0. /\ TypeOK /\ EngineOK /\ ModuleInv /\ TaskInv /\ RegisteredInv
      /\ Default \in NS
      /\ modules \in Seq(Module) /\ Len(dylibs) \in Nat /\ Len(objs) \in Nat
      /\ jitDylibs \in [NS -> Seq(1 .. Len(dylibs))]
      /\ objs \in Seq(Object) /\ Analysed \in Seq(Node)
    BY TypeParts, Lengths, FormsOfPrograms, AnalysedType DEF IInv, EngineOK
<1>1. CASE FinishEval
    <2> DEFINE d == Latest(Default)
               new == NewModule(d, Analysed)
    <2>1. /\ status = "running" /\ task.op = "eval" /\ AddTree
          /\ UNCHANGED <<jitDylibs>>
        BY <1>1 DEF FinishEval, Finished
    <2>2. task.obj = Active /\ Active \in DOMAIN objs
        BY <1>0, <2>1, TaskObject DEF TaskInv
    <2>3. Exports(objs[Active].tree) = DefsIn(modules, d)
        BY <2>1, DefsAreThose DEF PublishedInv
    <2>4. Latest(Default)' = d
        BY <2>1 DEF Latest
    <2>5. CASE task.failed
        <3>1. objs' = objs /\ modules' = modules /\ status' = status
            BY <1>1, <2>5 DEF FinishEval, AddTree
        <3> QED
            BY <2>1, <2>3, <2>4, <3>1, DefsAreThose
               DEF PublishedInv, DefsOf, DefsIn, ModulesIn
    <2>6. CASE ~task.failed /\ status' = status
        <3>1. modules' = Append(modules, new)
            <4>1. Added = Analysed
                BY <1>0, <1>1, <2>1, <2>6, AddedIsAnalysed DEF FinishEval
            <4> QED
                BY <1>1, <2>1, <2>6, <4>1 DEF FinishEval
        <3>2. objs'[Active].tree = objs[Active].tree \o Analysed
            BY <1>0, <2>1, <2>2, <2>6, AddTreeTypes
        <3>3. objs[Active].tree \in Seq(Node)
            <4>1. objs[Active] \in Object
                BY <1>0, <2>2
            <4> QED
                BY <4>1 DEF Object
        <3>4. Exports(objs'[Active].tree)
                 = Exports(objs[Active].tree) \cup Exports(Analysed)
            BY <1>0, <3>2, <3>3, ExportsConcat
        <3>5. new \in Module /\ new.dylib = d /\ new.defs = Exports(Analysed)
            <4>1. d \in Nat
                BY <1>0, LatestType
            <4> QED
                BY <1>0, <4>1, ExportsType
        <3> HIDE DEF new
        <3>6. DefsIn(modules', d) = DefsIn(modules, d) \cup Exports(Analysed)
            <4>1. DefsIn(Append(modules, new), d) = DefsIn(modules, d) \cup new.defs
                BY <1>0, <3>5, DefsAppend
            <4> QED
                BY <3>1, <3>5, <4>1
        <3>7. Exports(objs'[Active].tree) = DefsIn(modules', Latest(Default)')
            BY <2>3, <2>4, <3>4, <3>6
        <3> QED
            BY <2>1, <2>6, <3>7 DEF PublishedInv, DefsOf, DefsIn, ModulesIn
    <2>7. task.failed \/ status' \in {status, "nomodule", "duplicate", "uncaught"}
        BY <1>1 DEF FinishEval
    <2> QED
        BY <2>5, <2>6, <2>7 DEF PublishedInv
<1>2. CASE MakeContext
    <2> DEFINE new == NewModule(Len(dylibs) + 1, <<>>)
    <2>1. status = "making" /\ objs' = objs
        BY <1>2 DEF MakeContext
    <2>2. CASE AddNS(Default, <<>>, "ok") /\ status' = "running"
        <3>1. <<>> \in Seq(Node)
            OBVIOUS
        <3>2. CreateDylib(Default) /\ modules' = Append(modules, new)
            BY <1>0, <2>2, <3>1, AddNSTypes
        <3>3. Exports(<<>>) = {}
            BY DEF Exports, Emitted
        <3>4. /\ new \in Module /\ new.dylib = Len(dylibs) + 1
              /\ new.defs = Exports(<<>>)
            <4>1. Len(dylibs) + 1 \in Nat
                BY <1>0
            <4> QED
                BY <3>1, <4>1, ExportsType
        <3> HIDE DEF new
        <3>5. DefsIn(modules', Len(dylibs) + 1) = {}
            <4>1. DefsIn(modules, Len(dylibs) + 1) = {}
                <5>1. Len(dylibs) + 1 \in Nat /\ Len(dylibs) + 1 > Len(dylibs)
                    BY <1>0
                <5> QED
                    BY <1>0, <5>1, DefsNowhere
            <4>2. DefsIn(Append(modules, new), Len(dylibs) + 1)
                     = DefsIn(modules, Len(dylibs) + 1) \cup new.defs
                BY <1>0, <3>4, DefsAppend
            <4> QED
                BY <3>2, <3>3, <3>4, <4>1, <4>2
        <3>6. Latest(Default)' = Len(dylibs) + 1
            <4>1. jitDylibs'[Default] = Append(jitDylibs[Default], Len(dylibs) + 1)
                BY <1>0, <3>2, CreateDylibTypes
            <4>2. jitDylibs[Default] \in Seq(Nat) /\ Len(dylibs) + 1 \in Nat
                BY <1>0
            <4>3. /\ jitDylibs'[Default] # <<>>
                  /\ jitDylibs'[Default][Len(jitDylibs'[Default])] = Len(dylibs) + 1
                BY <4>1, <4>2
            <4> QED
                BY <4>3 DEF Latest
        <3>7. Exports(objs'[Active].tree) = {}
            BY <2>1, <3>3 DEF PublishedInv
        <3> QED
            BY <2>2, <3>5, <3>6, <3>7 DEF PublishedInv, DefsOf, DefsIn, ModulesIn
    <2>3. CASE status' = "exited"
        BY <2>3 DEF PublishedInv
    <2> QED
        BY <1>2, <2>2, <2>3 DEF MakeContext
<1>3. CASE ~FinishEval /\ ~MakeContext
    <2>1. /\ objs'[Active].tree = objs[Active].tree
          /\ DefsIn(modules', Latest(Default)') = DefsIn(modules, Latest(Default))
        BY <1>3, ActiveTreeKept, NewestKept
    <2>2. status' \in {status, "uncaught"}
        <3>1. AnalyzeForm => status' = status
            BY AnalyzeFormTypes DEF IInv
        <3> QED
            BY <1>3, <3>1
               DEF Next, vars, FinishRead, FinishImport, SetOperationPhase, EditFile,
                   MakeNamespace, BeginRead, BeginEval, Lookup
    <2> QED
        BY <2>1, <2>2 DEF PublishedInv, DefsOf, DefsIn, ModulesIn
<1> QED
    BY <1>1, <1>2, <1>3

(* Between two calls, what the tree of serene.user defines is what its     *)
(* newest dylib defines, if nothing registers serene.user again            *)
(* (halley.cpp:425-442).                                                   *)
THEOREM EvaluationsPublish ==
    ASSUME Default \notin Reloadable
    PROVE  Spec => []EvaluatedIsPublished
<1> DEFINE P == IInv /\ SettledInv /\ PublishedInv
<1>1. Init => P
    BY InitInv, SettledInit, PublishedInit
<1>2. P /\ [Next]_vars => P'
    BY StepInv, SettledStep, PublishedStep
<1>3. P => EvaluatedIsPublished
    BY DEF PublishedInv, EvaluatedIsPublished, Idle
<1> QED
    BY <1>1, <1>2, <1>3, PTL DEF Spec

-----------------------------------------------------------------------------
(* Generated names                                                         *)

\* The generated names of these nodes have numbers below k, each its own ...
Numbered(nodes, k) ==
    \A i \in DOMAIN nodes : nodes[i].name \in Anonymous =>
        /\ nodes[i].name[2] < k
        /\ \A j \in DOMAIN nodes : nodes[i].name = nodes[j].name => i = j

\* ... and none of them is among these others.
Apart(s, t) ==
    \A i \in DOMAIN s, j \in DOMAIN t :
        s[i].name = t[j].name => s[i].name \notin Anonymous

\* A namespace's functions, in its tree or about to be, are numbered below
\* its counter.
NamesInv ==
    /\ \A o \in DOMAIN objs : Numbered(objs[o].tree, objs[o].fns)
    /\ task.op # "none" =>
          /\ Numbered(task.nodes, objs[task.obj].fns)
          /\ Apart(objs[task.obj].tree, task.nodes)

LEMMA AnonymousNames ==
    /\ \A c \in Nat : <<"fn", c>> \in Anonymous /\ <<"fn", c>>[2] = c
    /\ \A x \in Anonymous : x[2] \in Nat
    /\ NoSym \notin Anonymous /\ \A x \in Syms : x \notin Anonymous
BY ContextAssumption DEF Anonymous

LEMMA NumberedFurther ==
    ASSUME NEW s \in Seq(Node), NEW k \in Nat, NEW l \in Nat, k <= l, Numbered(s, k)
    PROVE  Numbered(s, l)
BY AnonymousNames DEF Numbered

LEMMA NothingNumbered == \A k, s : Numbered(<<>>, k) /\ Apart(s, <<>>)
BY DEF Numbered, Apart

LEMMA NumberedConcat ==
    ASSUME NEW s \in Seq(Node), NEW t \in Seq(Node), NEW k,
           Numbered(s, k), Numbered(t, k), Apart(s, t)
    PROVE  Numbered(s \o t, k)
<1> DEFINE u == s \o t
           n == Len(s)
<1>1. /\ \A i \in DOMAIN s : u[i] = s[i]
      /\ \A i \in DOMAIN t : u[n + i] = t[i]
      /\ \A i \in DOMAIN u : i \in DOMAIN s \/ \E j \in DOMAIN t : i = n + j
    BY Concatenated
<1> HIDE DEF u, n
<1>2. ASSUME NEW i \in DOMAIN u, u[i].name \in Anonymous
      PROVE  /\ u[i].name[2] < k
             /\ \A j \in DOMAIN u : u[i].name = u[j].name => i = j
    <2>1. CASE i \in DOMAIN s
        <3>1. u[i] = s[i] /\ s[i].name \in Anonymous
            BY <1>1, <1>2, <2>1
        <3>2. s[i].name[2] < k
            BY <2>1, <3>1 DEF Numbered
        <3>3. ASSUME NEW j \in DOMAIN u, u[i].name = u[j].name PROVE i = j
            <4>1. CASE j \in DOMAIN s
                BY <1>1, <2>1, <3>1, <3>3, <4>1 DEF Numbered
            <4>2. CASE \E l \in DOMAIN t : j = n + l
                BY <1>1, <2>1, <3>1, <3>3, <4>2 DEF Apart
            <4> QED
                BY <1>1, <4>1, <4>2
        <3> QED
            BY <3>1, <3>2, <3>3
    <2>2. ASSUME NEW l \in DOMAIN t, i = n + l
          PROVE  /\ u[i].name[2] < k
                 /\ \A j \in DOMAIN u : u[i].name = u[j].name => i = j
        <3>1. u[i] = t[l] /\ t[l].name \in Anonymous
            BY <1>1, <1>2, <2>2
        <3>2. t[l].name[2] < k
            BY <3>1 DEF Numbered
        <3>3. ASSUME NEW j \in DOMAIN u, u[i].name = u[j].name PROVE i = j
            <4>1. CASE j \in DOMAIN s
                BY <1>1, <3>1, <3>3, <4>1 DEF Apart
            <4>2. CASE \E m \in DOMAIN t : j = n + m
                BY <1>1, <2>2, <3>1, <3>3, <4>2 DEF Numbered
            <4> QED
                BY <1>1, <4>1, <4>2
        <3> QED
            BY <3>1, <3>2, <3>3
    <2> QED
        BY <1>1, <2>1, <2>2
<1> QED
    BY <1>2 DEF Numbered, u

\* A node is added: it has no generated name, or one with a number not below k.
LEMMA NumberedAppend ==
    ASSUME NEW s \in Seq(Node), NEW t \in Seq(Node), NEW node \in Node,
           NEW k \in Nat, NEW l \in Nat, k <= l,
           node.name \in Anonymous => node.name[2] >= k /\ node.name[2] < l,
           Numbered(s, k), Numbered(t, k), Apart(s, t)
    PROVE  /\ Numbered(Append(t, node), l)
           /\ Apart(s, Append(t, node))
<1> DEFINE u == Append(t, node)
           last == Len(t) + 1
<1>1. /\ DOMAIN u = DOMAIN t \cup {last} /\ last \notin DOMAIN t
      /\ u[last] = node /\ \A i \in DOMAIN t : u[i] = t[i]
    OBVIOUS
<1> HIDE DEF u, last
<1>2. ASSUME NEW z \in Seq(Node), Numbered(z, k), NEW i \in DOMAIN z,
             z[i].name \in Anonymous
      PROVE  z[i].name # node.name
    <2>1. z[i].name[2] < k /\ z[i].name[2] \in Nat
        BY <1>2, AnonymousNames DEF Numbered
    <2>2. ~(z[i].name[2] >= k)
        BY <2>1
    <2> QED
        BY <1>2, <2>2
<1>3. ASSUME NEW i \in DOMAIN u, u[i].name \in Anonymous
      PROVE  /\ u[i].name[2] < l
             /\ \A j \in DOMAIN u : u[i].name = u[j].name => i = j
    <2>1. CASE i = last
        <3>1. node.name \in Anonymous /\ node.name[2] < l /\ u[i] = node
            BY <1>1, <1>3, <2>1
        <3>2. \A j \in DOMAIN t : t[j].name # node.name
            BY <1>2, <3>1
        <3> QED
            BY <1>1, <2>1, <3>1, <3>2
    <2>2. CASE i \in DOMAIN t
        <3>1. u[i] = t[i] /\ t[i].name \in Anonymous
            BY <1>1, <1>3, <2>2
        <3>2. t[i].name[2] < k /\ t[i].name[2] \in Nat
            BY <2>2, <3>1, AnonymousNames DEF Numbered
        <3>3. t[i].name[2] < l
            BY <3>2
        <3>4. t[i].name # node.name
            BY <1>2, <2>2, <3>1
        <3>5. \A j \in DOMAIN t : t[i].name = t[j].name => i = j
            BY <2>2, <3>1 DEF Numbered
        <3> QED
            BY <1>1, <3>1, <3>3, <3>4, <3>5
    <2> QED
        BY <1>1, <2>1, <2>2
<1>4. Apart(s, u)
    <2> SUFFICES ASSUME NEW i \in DOMAIN s, NEW j \in DOMAIN u, s[i].name = u[j].name
                 PROVE  s[i].name \notin Anonymous
        BY DEF Apart
    <2>1. CASE j = last
        BY <1>1, <1>2, <2>1
    <2>2. CASE j \in DOMAIN t
        BY <1>1, <2>2 DEF Apart
    <2> QED
        BY <1>1, <2>1, <2>2
<1> QED
    BY <1>3, <1>4 DEF Numbered, u

\* What is parsed only has no generated names.
LEMMA RawNames ==
    ASSUME NEW s, NEW k, NEW forms \in Seq(Form)
    PROVE  LET raw == [i \in DOMAIN forms |-> Raw(forms[i])]
           IN  Numbered(raw, k) /\ Apart(s, raw)
<1> DEFINE raw == [i \in DOMAIN forms |-> Raw(forms[i])]
<1>1. \A i \in DOMAIN raw : raw[i].name \notin Anonymous
    BY AnonymousNames DEF Raw
<1> HIDE DEF raw
<1>2. Numbered(raw, k)
    BY <1>1 DEF Numbered
<1>3. Apart(s, raw)
    BY <1>1 DEF Apart
<1> QED
    BY <1>2, <1>3 DEF raw

\* Analysing a form moves the counter of its namespace past the functions it
\* makes; the node, if there is one and it has a generated name, got one between.
LEMMA AnalyzeFormNames ==
    ASSUME IInv, SettledInv, AnalyzeForm
    PROVE  /\ \A k \in DOMAIN objs :
                 /\ objs'[k].fns \in Nat /\ objs'[k].fns >= objs[k].fns
                 /\ objs[k].fns \in Nat
           /\ \/ task'.nodes = task.nodes
              \/ \E node \in Node :
                    /\ task'.nodes = Append(task.nodes, node)
                    /\ node.name \in Anonymous =>
                          /\ node.name[2] >= objs[task.obj].fns
                          /\ node.name[2] < objs'[task.obj].fns
<1> DEFINE f == task.forms[task.i]
           o == task.obj
           ok == f.sound /\ f.needs \subseteq objs[o].env
           made == f.lambdas + (IF ok /\ f.kind = "fn" THEN 1 ELSE 0)
           bound == f.binds \cup (IF ok THEN {f.def} \ {NoSym} ELSE {})
           node == NodeOf(f, o)
<1>1. /\ objs \in Seq(Object) /\ task \in TaskType /\ Analysing
      /\ o \in DOMAIN objs /\ o # 0 /\ namespaces[task.ns] = o
    <2>1. TypeOK /\ TaskInv /\ RegisteredInv /\ Analysing /\ task.op # "none"
        BY DEF IInv, AnalyzeForm, Analysing
    <2>2. o \in DOMAIN objs /\ objs \in Seq(Object) /\ task \in TaskType
        BY <2>1, TaskObject, TypeParts
    <2> QED
        <3>1. o # 0
            BY <2>2, Positions
        <3>2. namespaces[task.ns] = o
            BY <2>1, Zenon DEF SettledInv
        <3> QED
            BY <2>1, <2>2, <3>1, <3>2, Zenon
<1>2. /\ objs' = [k \in DOMAIN objs |->
                     [objs[k] EXCEPT
                        !.env = @ \cup (IF k = o THEN bound ELSE {}),
                        !.fns = @ + (IF k = o THEN made ELSE 0)]]
      /\ task' = [task EXCEPT
            !.i = @ + 1, !.failed = @ \/ ~ok,
            !.nodes = IF ok THEN Append(@, node) ELSE @]
    BY <1>1 DEF AnalyzeForm
<1>3. f \in Form
    <2>1. task.forms \in Seq(Form) /\ task.i \in DOMAIN task.forms
        BY <1>1 DEF Analysing, TaskType
    <2> QED
        BY <2>1
<1>4. /\ f.lambdas \in Nat /\ f.def \in Syms \cup {NoSym}
      /\ f.kind \in Kinds
    BY <1>3 DEF Form
<1>5. made \in Nat
    BY <1>4
<1>6. \A k \in DOMAIN objs : objs[k].fns \in Nat
    <2>1. \A k \in DOMAIN objs : objs[k] \in Object
        BY <1>1
    <2> QED
        BY <2>1 DEF Object
<1> HIDE DEF bound
<1>7. /\ \A k \in DOMAIN objs : k # o => objs'[k].fns = objs[k].fns + 0
      /\ objs'[o].fns = objs[o].fns + made
    <2> HIDE DEF made
    <2>1. \A k \in DOMAIN objs : objs[k] \in Object
        BY <1>1
    <2>2. \A k \in DOMAIN objs :
             objs'[k].fns = objs[k].fns + (IF k = o THEN made ELSE 0)
        BY <1>2, <2>1 DEF Object
    <2> QED
        BY <1>1, <2>2
<1>8. \A k \in DOMAIN objs :
         objs'[k].fns \in Nat /\ objs'[k].fns >= objs[k].fns
    BY <1>5, <1>6, <1>7
<1>9. task'.nodes = IF ok THEN Append(task.nodes, node) ELSE task.nodes
    <2> HIDE DEF ok, node
    <2> QED
        BY <1>1, <1>2 DEF TaskType
<1>10. node \in Node
    BY <1>1, <1>3, <1>6, NodeOfType DEF FnNumber
<1>11. ASSUME ok, node.name \in Anonymous
       PROVE  /\ node.name[2] >= objs[o].fns
              /\ node.name[2] < objs'[o].fns
    <2>1. node.name = NameOf(f, objs[o].fns + f.lambdas)
        BY <1>1 DEF NodeOf, FnNumber
    <2>2. f.def = NoSym /\ f.kind = "fn"
        BY <1>4, <1>11, <2>1, AnonymousNames DEF NameOf
    <2>3. /\ node.name = <<"fn", objs[o].fns + f.lambdas>>
          /\ made = f.lambdas + 1
        BY <1>11, <2>1, <2>2 DEF NameOf
    <2>4. node.name[2] = objs[o].fns + f.lambdas
        BY <2>3
    <2> HIDE DEF made, node
    <2>5. objs[o].fns \in Nat /\ objs'[o].fns = objs[o].fns + (f.lambdas + 1)
        BY <1>1, <1>6, <1>7, <2>3
    <2> QED
        BY <1>4, <2>4, <2>5
<1> QED
    BY <1>6, <1>8, <1>9, <1>10, <1>11

LEMMA NamesInit == Init => NamesInv
<1> SUFFICES ASSUME Init PROVE NamesInv
    OBVIOUS
<1>1. /\ DOMAIN objs = {1} /\ objs[1].tree = <<>>
      /\ task.op = "none"
    BY NoTaskType DEF Init, NewObject
<1> QED
    BY <1>1, NothingNumbered DEF NamesInv

LEMMA NamesStep ==
    ASSUME IInv, SettledInv, NamesInv, [Next]_vars
    PROVE  NamesInv'
<1>0. /\ TypeOK /\ TaskInv /\ RegisteredInv
      /\ objs \in Seq(Object) /\ Len(objs) \in Nat /\ task \in TaskType
      /\ Reloadable \subseteq NS
      /\ Active \in DOMAIN objs /\ buffers \in Nat
    BY TypeParts, Lengths, ContextAssumption DEF IInv, RegisteredInv, Active
<1>1. ASSUME NEW n \in NS, NEW b \in Nat, Register(n, b)
      PROVE  /\ DOMAIN objs' = DOMAIN objs \cup {Len(objs) + 1}
             /\ Len(objs) + 1 \notin DOMAIN objs
             /\ \A o \in DOMAIN objs : objs'[o] = objs[o]
             /\ objs'[Len(objs) + 1].tree = <<>>
             /\ \A o \in DOMAIN objs' : Numbered(objs'[o].tree, objs'[o].fns)
    <2>1. /\ objs' \in Seq(Object) /\ Len(objs') = Len(objs) + 1
          /\ \A o \in DOMAIN objs : objs'[o] = objs[o]
          /\ objs'[Len(objs) + 1].tree = <<>>
        BY <1>0, <1>1, RegisterTypes, NewObjectType
    <2>2. /\ DOMAIN objs' = DOMAIN objs \cup {Len(objs) + 1}
          /\ Len(objs) + 1 \notin DOMAIN objs
        BY <1>0, <2>1
    <2> QED
        BY <2>1, <2>2, NothingNumbered DEF NamesInv
<1>2. ASSUME NEW n \in Reloadable, MakeNamespace(n) PROVE NamesInv'
    <2>1. Register(n, 0) /\ n \in NS /\ task' = task /\ task.op = "none"
        BY <1>0, <1>2 DEF MakeNamespace, Call, Idle
    <2> QED
        BY <1>1, <2>1 DEF NamesInv
<1>3. ASSUME NEW n \in Reloadable, NEW op \in {"read", "import"}, BeginRead(op, n)
      PROVE  NamesInv'
    <2>1. CASE UNCHANGED <<objs, task>>
        BY <2>1 DEF NamesInv
    <2>2. CASE Register(n, buffers + 1) /\ Start(op, n, Len(objs) + 1, files[n])
        <3>1. task'.obj = Len(objs) + 1 /\ task'.nodes = <<>>
            BY <2>2 DEF Start, NoTask
        <3>2. n \in NS /\ buffers + 1 \in Nat
            BY <1>0
        <3> QED
            BY <1>1, <2>2, <3>1, <3>2, NothingNumbered DEF NamesInv
    <2> QED
        BY <1>3, <2>1, <2>2 DEF BeginRead
<1>4. ASSUME NEW p \in Programs, BeginEval(p) PROVE NamesInv'
    <2>1. objs' = objs /\ task'.obj = Active /\ task'.nodes = <<>>
        BY <1>4 DEF BeginEval, Start, NoTask
    <2> QED
        BY <1>0, <2>1, NothingNumbered DEF NamesInv
<1>5. CASE AnalyzeForm
    <2> DEFINE o == task.obj
    <2>1. /\ task.op # "none" /\ o \in DOMAIN objs
          /\ task'.op = task.op /\ task'.obj = o
          /\ DOMAIN objs' = DOMAIN objs
          /\ \A k \in DOMAIN objs : objs'[k].tree = objs[k].tree
        BY <1>0, <1>5, TaskObject, AnalyzeFormTypes
           DEF IInv, AnalyzeForm, Analysing
    <2>2. /\ \A k \in DOMAIN objs :
                /\ objs'[k].fns \in Nat /\ objs'[k].fns >= objs[k].fns
                /\ objs[k].fns \in Nat
          /\ \/ task'.nodes = task.nodes
             \/ \E node \in Node :
                   /\ task'.nodes = Append(task.nodes, node)
                   /\ node.name \in Anonymous =>
                         /\ node.name[2] >= objs[o].fns
                         /\ node.name[2] < objs'[o].fns
        BY <1>5, AnalyzeFormNames
    <2>3. \A k \in DOMAIN objs : objs[k].tree \in Seq(Node)
        <3>1. \A k \in DOMAIN objs : objs[k] \in Object
            BY <1>0
        <3> QED
            BY <3>1 DEF Object
    <2>4. task.nodes \in Seq(Node)
        BY <1>0 DEF TaskType
    <2>5. \A k \in DOMAIN objs' : Numbered(objs'[k].tree, objs'[k].fns)
        BY <2>1, <2>2, <2>3, NumberedFurther DEF NamesInv
    <2>6. /\ Numbered(task.nodes, objs[o].fns)
          /\ Apart(objs[o].tree, task.nodes)
          /\ Numbered(objs[o].tree, objs[o].fns)
        BY <2>1 DEF NamesInv
    <2>7. CASE task'.nodes = task.nodes
        <3>1. Numbered(task'.nodes, objs'[o].fns)
            BY <2>1, <2>2, <2>4, <2>6, <2>7, NumberedFurther
        <3> QED
            BY <2>1, <2>5, <2>6, <2>7, <3>1 DEF NamesInv
    <2>8. ASSUME NEW node \in Node,
                 task'.nodes = Append(task.nodes, node),
                 node.name \in Anonymous =>
                    node.name[2] >= objs[o].fns /\ node.name[2] < objs'[o].fns
          PROVE  NamesInv'
        <3>1. /\ Numbered(task'.nodes, objs'[o].fns)
              /\ Apart(objs[o].tree, task'.nodes)
            <4>1. /\ objs[o].fns \in Nat /\ objs'[o].fns \in Nat
                  /\ objs[o].fns <= objs'[o].fns
                BY <2>1, <2>2
            <4>2. objs[o].tree \in Seq(Node)
                BY <2>1, <2>3
            <4> QED
                BY <2>4, <2>6, <2>8, <4>1, <4>2, NumberedAppend
        <3>2. task'.obj = o /\ objs'[o].tree = objs[o].tree
            BY <2>1
        <3>3. /\ Numbered(task'.nodes, objs'[task'.obj].fns)
              /\ Apart(objs'[task'.obj].tree, task'.nodes)
            BY <3>1, <3>2, Zenon
        <3> QED
            BY <2>5, <3>3, Zenon DEF NamesInv
    <2> QED
        BY <2>2, <2>7, <2>8
<1>6. CASE FinishRead \/ FinishImport \/ FinishEval
    <2> DEFINE o == task.obj
    <2>1. /\ AddTree /\ task' = NoTask /\ task.op # "none"
        BY <1>6 DEF FinishRead, FinishImport, FinishEval, Finished
    <2>2. /\ o \in DOMAIN objs /\ DOMAIN objs' = DOMAIN objs
          /\ \A k \in DOMAIN objs :
                /\ objs'[k].fns = objs[k].fns
                /\ k # o => objs'[k].tree = objs[k].tree
          /\ IF task.failed THEN objs' = objs
             ELSE objs'[o].tree = objs[o].tree \o Analysed
        BY <1>0, <2>1, TaskObject, AddTreeTypes
    <2>3. Numbered(objs[o].tree, objs[o].fns)
        BY <2>2 DEF NamesInv
    <2>4. Numbered(objs'[o].tree, objs'[o].fns)
        <3>1. CASE task.failed
            BY <2>2, <2>3, <3>1
        <3>2. CASE ~task.failed
            <4>1. Numbered(Analysed, objs[o].fns) /\ Apart(objs[o].tree, Analysed)
                <5>1. task.forms \in Seq(Form)
                    BY <1>0 DEF TaskType
                <5>2. CASE phase = Parse
                    BY <5>1, <5>2, RawNames DEF Analysed
                <5>3. CASE phase # Parse
                    BY <2>1, <5>3 DEF NamesInv, Analysed
                <5> QED
                    BY <5>2, <5>3
            <4>2. objs[o].tree \in Seq(Node) /\ Analysed \in Seq(Node)
                <5>1. objs[o] \in Object
                    BY <1>0, <2>2
                <5> QED
                    BY <1>0, <5>1, AnalysedType DEF Object
            <4>3. Numbered(objs[o].tree \o Analysed, objs[o].fns)
                BY <2>3, <4>1, <4>2, NumberedConcat
            <4> QED
                BY <2>2, <3>2, <4>3
        <3> QED
            BY <3>1, <3>2
    <2>5. \A k \in DOMAIN objs' : Numbered(objs'[k].tree, objs'[k].fns)
        BY <2>2, <2>4 DEF NamesInv
    <2> QED
        BY <2>1, <2>5, NoTaskType DEF NamesInv
<1>7. CASE UNCHANGED <<objs, task>>
    BY <1>7 DEF NamesInv
<1> QED
    BY <1>2, <1>3, <1>4, <1>5, <1>6, <1>7
       DEF Next, vars, MakeContext, SetOperationPhase, EditFile, Lookup

(* No two functions of a namespace get the same generated name, over all   *)
(* that is read into it and evaluated in it, failed programs included, if  *)
(* nothing registers serene.user again (namespace.h:99-101).               *)
THEOREM NamesUnique ==
    ASSUME Default \notin Reloadable
    PROVE  Spec => []FnNamesUnique
<1> DEFINE P == IInv /\ SettledInv /\ NamesInv
<1>1. Init => P
    BY InitInv, SettledInit, NamesInit
<1>2. P /\ [Next]_vars => P'
    BY StepInv, SettledStep, NamesStep
<1>3. P => FnNamesUnique
    BY DEF NamesInv, Numbered, FnNamesUnique
<1> QED
    BY <1>1, <1>2, <1>3, PTL DEF Spec
=============================================================================
