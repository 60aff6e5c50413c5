----------------------------- MODULE SereneContext -----------------------------
(***************************************************************************)
(* The compiler context of libserene.v0 (src/libserene.v0): namespaces and *)
(* their environments, the analysis of programs read from files or typed   *)
(* at the REPL, their compilation, and the JITDylibs they are published in.*)
(*                                                                         *)
(* One thread makes the calls.  Reading, importing and evaluating analyse  *)
(* a program one form at a time, each form a step: an error in one form    *)
(* does not stop the next, and what a form has bound stays bound.          *)
(*                                                                         *)
(* A top-level form is summarised by what its analysis does:               *)
(*   def      the symbol it binds ("(def f ...)"), or NoSym                *)
(*   kind     what it, or its value, is: a number, a "big" number, one no  *)
(*            int holds, a function, or another expression, for which no   *)
(*            code is emitted                                              *)
(*   needs    the symbols it calls that must be bound before it            *)
(*   sound    whether it is free of errors of any other kind               *)
(*   binds    the symbols bound, and                                       *)
(*   lambdas  the number of functions created, inside a function's body,   *)
(*            where no error precludes them                                *)
(***************************************************************************)
EXTENDS Naturals, Sequences, FiniteSets

CONSTANTS
    NS, Default,            \* namespace names; "serene.user"
    Syms, NoSym,            \* symbols
    RandomName,             \* "randomname", the name given to a number's code
    Programs,               \* what files hold and what is typed
    NoSource, Unparsable,   \* a file that is not there; one the reader rejects
    InitialFiles,           \* the source file of each namespace
    Editable,               \* namespaces whose file is edited meanwhile
    Reloadable,             \* namespaces that are made, read or imported
    Phases,                 \* the phases setOperationPhase is called with
    EnableObjectCache,      \* Options::JITenableObjectCache
    SessionMayFail,         \* whether createJITDylib can fail
    MaxCalls                \* bound: calls that change the context, and edits

\* CompilationPhase; the optimisation levels above do not change what is built.
Parse == 0
MLIR == 3
LIR == 4
IR == 5
NoOptimization == 6

Kinds == {"number", "big", "fn", "other"}
Form == [def : Syms \cup {NoSym}, kind : Kinds,
         needs : SUBSET Syms, sound : BOOLEAN,
         binds : SUBSET Syms, lambdas : Nat]

\* The names given to functions, ___fn___<counter>.  Programs are assumed not to
\* use them themselves.
Anonymous == {"fn"} \X Nat

ASSUME ContextAssumption ==
    /\ Default \in NS
    /\ NoSym \notin Syms /\ RandomName \notin Syms
    /\ (Syms \cup {NoSym}) \cap Anonymous = {}
    /\ Programs \subseteq Seq(Form)
    /\ {NoSource, Unparsable} \cap Programs = {} /\ NoSource # Unparsable
    /\ InitialFiles \in [NS -> Programs \cup {NoSource, Unparsable}]
    /\ Editable \subseteq NS /\ Reloadable \subseteq NS
    /\ Phases \subseteq 0 .. NoOptimization
    /\ EnableObjectCache \in BOOLEAN /\ SessionMayFail \in BOOLEAN
    /\ MaxCalls \in Nat

VARIABLES
    objs,       \* every Namespace object made, in order of creation
    namespaces, \* SereneContext::namespaces: the registered object, or 0
    phase,      \* targetPhase
    passes,     \* pm, the pass manager
    dylibs,     \* the JITDylibs, in order of creation
    jitDylibs,  \* SereneContext::jitDylibs
    modules,    \* the LLVM modules added to the engine
    cache,      \* ObjectCache: the module whose object it holds, or 0
    buffers,    \* number of SourceMgr::buffers
    nsTable,    \* SourceMgr::nsTable: the buffer of a namespace, or 0
    files,      \* the source files
    task,       \* the analysis in progress
    status,     \* running, or how the process ended
    res,        \* what the last call answered
    calls       \* how many calls and edits there were

sources == <<buffers, nsTable>>
pipeline == <<phase, passes>>
engine == <<dylibs, jitDylibs, modules, cache>>
vars == <<objs, namespaces, pipeline, engine, sources, files, task, status,
          res, calls>>

Names == Syms \cup {NoSym} \cup Anonymous
Node == [kind : Kinds, name : Names]
Object == [name : NS, tree : Seq(Node), env : SUBSET Syms, fns : Nat, buf : Nat]
Module == [dylib : Nat, defs : SUBSET (Names \cup {RandomName}),
           state : {"pending", "linked", "failed"}, code : Nat]

NoTask == [op |-> "none", ns |-> Default, obj |-> 0, forms |-> <<>>, i |-> 1,
           nodes |-> <<>>, failed |-> FALSE]
NoAnswer == [op |-> "none", ns |-> Default, out |-> "none"]
NewObject(n, b) == [name |-> n, tree |-> <<>>, env |-> {}, fns |-> 0, buf |-> b]

TypeOK ==
    /\ objs \in Seq(Object) /\ namespaces \in [NS -> 0 .. Len(objs)]
    /\ phase \in 0 .. NoOptimization /\ passes \subseteq {"ToMLIR", "ToLLVM"}
    /\ dylibs \in Seq([ns : NS, num : Nat])
    /\ jitDylibs \in [NS -> Seq(1 .. Len(dylibs))]
    /\ modules \in Seq(Module) /\ cache \in 0 .. Len(modules)
    /\ buffers \in Nat /\ nsTable \in [NS -> 0 .. buffers]
    /\ files \in [NS -> Programs \cup {NoSource, Unparsable}]
    /\ task \in [op : {"none", "eval", "read", "import"}, ns : NS,
                 obj : 0 .. Len(objs), forms : Seq(Form), i : Nat,
                 nodes : Seq(Node), failed : BOOLEAN]
    /\ status \in {"making", "running", "exited", "panicked",
                   "nomodule", "duplicate", "uncaught"}
    /\ res \in [op : {"none", "eval", "read", "import", "lookup"}, ns : NS,
                out : {"none", "ok", "error"}]
    /\ calls \in Nat

-----------------------------------------------------------------------------
(* The context is made: its constructor registers an empty serene.user,    *)
(* which the engine takes as the active namespace, for good.               *)
Active == 1
Init ==
    /\ objs = <<NewObject(Default, 0)>>
    /\ namespaces = [n \in NS |-> IF n = Default THEN 1 ELSE 0]
    /\ phase = NoOptimization /\ passes = {}
    /\ dylibs = <<>> /\ jitDylibs = [n \in NS |-> <<>>]
    /\ modules = <<>> /\ cache = 0
    /\ buffers = 0 /\ nsTable = [n \in NS |-> 0]
    /\ files = InitialFiles
    /\ task = NoTask /\ status = "making" /\ res = NoAnswer /\ calls = 0

Idle == status = "running" /\ task.op = "none"
Call == Idle /\ calls < MaxCalls /\ calls' = calls + 1
Answer(op, n, out) == res' = [op |-> op, ns |-> n, out |-> out]

Latest(n) == IF jitDylibs[n] = <<>> THEN 0 ELSE jitDylibs[n][Len(jitDylibs[n])]
ModulesIn(d) == {m \in DOMAIN modules : modules[m].dylib = d}
DefsOf(d) == UNION {modules[m].defs : m \in ModulesIn(d)}

-----------------------------------------------------------------------------
(* Code generation                                                         *)

Emitted(nodes, kind) == {i \in DOMAIN nodes : nodes[i].kind = kind}

\* What a list of nodes defines once compiled.
Exports(nodes) ==
    {nodes[i].name : i \in Emitted(nodes, "fn")}
        \cup {RandomName : i \in Emitted(nodes, "number")}

\* Number::toI64 throws for a number that does not fit, and nothing catches it.
Throws(nodes) == Emitted(nodes, "big") # {}

\* generate and compileToLLVM (CodeGen has them step by step): the operation
\* of a function has a result of the wrong type and never verifies; nor do
\* several numbers after the passes, when all have one name; what the passes
\* have not lowered cannot be translated.
Compiles(nodes) ==
    /\ Emitted(nodes, "fn") = {}
    /\ "ToMLIR" \in passes => Cardinality(Emitted(nodes, "number")) <= 1
    /\ phase >= IR
    /\ Exports(nodes) = {} \/ "ToLLVM" \in passes

NewModule(d, nodes) ==
    [dylib |-> d, defs |-> Exports(nodes), state |-> "pending", code |-> 0]

\* Fault: the dylib is numbered by all dylibs, not by the namespace's.
NumberAmongAll(n) == Len(dylibs) + 1
\* getNumberOfJITDylibs + 1
NextNumber(n) == Len(jitDylibs[n]) + 1

\* Faults: the dylib is filed by a wrong index, or before the older ones.
CreateDylibMisfiled(n) ==
    /\ dylibs' = Append(dylibs, [ns |-> n, num |-> NextNumber(n)])
    /\ jitDylibs' = [jitDylibs EXCEPT ![n] = Append(@, Len(dylibs) + 2)]
CreateDylibFirst(n) ==
    /\ dylibs' = Append(dylibs, [ns |-> n, num |-> NextNumber(n)])
    /\ jitDylibs' = [jitDylibs EXCEPT ![n] = <<Len(dylibs) + 1>> \o @]

\* createJITDylib followed by pushJITDylib
CreateDylib(n) ==
    /\ dylibs' = Append(dylibs, [ns |-> n, num |-> NextNumber(n)])
    /\ jitDylibs' = [jitDylibs EXCEPT ![n] = Append(@, Len(dylibs) + 1)]

\* addNS, given the tree of the namespace: the outcome, and what it leaves
\* behind.  A namespace that does not compile leaves an empty dylib, and so
\* does one whose code generation ends the process.
AddNS(n, tree, out) ==
    /\ UNCHANGED cache
    /\ \/ /\ SessionMayFail /\ out = "error"
          /\ UNCHANGED <<dylibs, jitDylibs, modules>>
       \/ /\ Throws(tree) /\ out = "uncaught"
          /\ CreateDylib(n) /\ UNCHANGED modules
       \/ /\ ~Throws(tree) /\ ~Compiles(tree) /\ out = "error"
          /\ CreateDylib(n) /\ UNCHANGED modules
       \/ /\ ~Throws(tree) /\ Compiles(tree) /\ out = "ok"
          /\ CreateDylib(n)
          /\ modules' = Append(modules, NewModule(Len(dylibs) + 1, tree))

\* The rest of SereneContext::make.
MakeContext ==
    /\ status = "making"
    /\ \/ AddNS(Default, <<>>, "ok") /\ status' = "running"
       \/ AddNS(Default, <<>>, "error") /\ status' = "exited"
    /\ UNCHANGED <<objs, namespaces, pipeline, sources, files, task, res, calls>>

-----------------------------------------------------------------------------
(* Configuration, the outside world, and lookups                           *)

\* Passes are added to those of earlier calls.
SetOperationPhase(p) ==
    /\ Call /\ phase' = p
    /\ passes' = passes \cup (IF p >= MLIR THEN {"ToMLIR"} ELSE {})
                        \cup (IF p >= LIR THEN {"ToLLVM"} ELSE {})
    /\ UNCHANGED <<objs, namespaces, engine, sources, files, task, status, res>>

EditFile(n, c) ==
    /\ Call /\ files[n] # c
    /\ files' = [files EXCEPT ![n] = c]
    /\ UNCHANGED <<objs, namespaces, pipeline, engine, sources, task, status, res>>

\* Fault: the namespace is registered once it has been read.
RegisterLate(n, b) ==
    objs' = Append(objs, NewObject(n, b)) /\ UNCHANGED namespaces

Register(n, b) ==
    /\ objs' = Append(objs, NewObject(n, b))
    /\ namespaces' = [namespaces EXCEPT ![n] = Len(objs) + 1]

MakeNamespace(n) ==
    /\ Call /\ Register(n, 0)
    /\ UNCHANGED <<pipeline, engine, sources, files, task, status, res>>

\* The module with the symbol is compiled, unless the cache has an object:
\* all modules have the same identifier.  An object with other definitions
\* than the module promised is refused.
Materialise(m) ==
    LET code == IF EnableObjectCache /\ cache # 0 THEN cache ELSE m
        ok == modules[code].defs = modules[m].defs
    IN  /\ modules' = [modules EXCEPT ![m].state = IF ok THEN "linked" ELSE "failed",
                                      ![m].code = code]
        /\ cache' = IF EnableObjectCache THEN code ELSE 0

Lookup(n, s) ==
    LET found == {m \in ModulesIn(Latest(n)) : s \in modules[m].defs}
    IN  /\ Idle
        /\ \/ /\ namespaces[n] = 0 \/ Latest(n) = 0 \/ found = {}
              /\ Answer("lookup", n, "error") /\ UNCHANGED <<modules, cache>>
           \/ /\ namespaces[n] # 0 /\ Latest(n) # 0
              /\ \E m \in found :
                    /\ IF modules[m].state = "pending" THEN Materialise(m)
                       ELSE UNCHANGED <<modules, cache>>
                    /\ Answer("lookup", n, IF modules'[m].state = "linked"
                                           THEN "ok" ELSE "error")
        /\ UNCHANGED <<objs, namespaces, pipeline, dylibs, jitDylibs, sources,
                       files, task, status, calls>>

-----------------------------------------------------------------------------
(* Reading: the source becomes a program, the program a namespace          *)

Start(op, n, o, p) ==
    task' = [NoTask EXCEPT !.op = op, !.ns = n, !.obj = o, !.forms = p]

\* Fault: a namespace that is read again keeps the buffer it had.
BufferKept(n) ==
    nsTable' = [nsTable EXCEPT ![n] = IF @ = 0 THEN buffers + 1 ELSE @]
\* nsTable.insert_or_assign
BufferOf(n) == nsTable' = [nsTable EXCEPT ![n] = buffers + 1]

\* SourceMgr::readNamespace up to addTree: the buffer is kept even if it
\* cannot be parsed; the namespace is registered before it is analysed.
BeginRead(op, n) ==
    /\ Call
    /\ \/ /\ files[n] = NoSource
          /\ Answer(op, n, "error")
          /\ UNCHANGED <<objs, namespaces, sources, task>>
       \/ /\ files[n] # NoSource
          /\ buffers' = buffers + 1 /\ BufferOf(n)
          /\ \/ /\ files[n] = Unparsable
                /\ Answer(op, n, "error") /\ UNCHANGED <<objs, namespaces, task>>
             \/ /\ files[n] \in Programs
                /\ Register(n, buffers + 1)
                /\ Start(op, n, Len(objs) + 1, files[n]) /\ UNCHANGED res
    /\ UNCHANGED <<pipeline, engine, files, status>>

\* eval: the program typed at the REPL goes to the engine's active namespace.
BeginEval(p) ==
    /\ Call /\ Start("eval", Default, Active, p)
    /\ UNCHANGED <<objs, namespaces, pipeline, engine, sources, files, status, res>>

-----------------------------------------------------------------------------
(* Analysis                                                                *)

\* Fault: functions are numbered by the forms in the tree.
FnNumberByTree(cur) == IF cur = 0 THEN 0 ELSE Len(objs[cur].tree)
\* nextFnCounter, of the namespace getCurrentNS() returns
FnNumber(cur) == IF cur = 0 THEN 0 ELSE objs[cur].fns

NameOf(f, number) ==
    IF f.def # NoSym THEN f.def
    ELSE IF f.kind = "fn" THEN <<"fn", number>> ELSE NoSym

\* A binding emits no code of its own, only its function does.
KindOf(f) == IF f.def # NoSym /\ f.kind # "fn" THEN "other" ELSE f.kind

NodeOf(f, cur) ==
    [kind |-> KindOf(f), name |-> NameOf(f, FnNumber(cur) + f.lambdas)]

Analysing == task.op # "none" /\ task.i \in DOMAIN task.forms /\ phase # Parse

\* One form: its value is analysed, then the function node made, then the
\* symbol bound.  Nothing is undone by an error.
AnalyzeForm ==
    LET f == task.forms[task.i]
        o == task.obj
        cur == namespaces[task.ns]
        ok == f.sound /\ f.needs \subseteq objs[o].env
        made == f.lambdas + (IF ok /\ f.kind = "fn" THEN 1 ELSE 0)
        bound == f.binds \cup (IF ok THEN {f.def} \ {NoSym} ELSE {})
    IN  /\ status = "running" /\ Analysing
        /\ objs' = [k \in DOMAIN objs |->
                      [objs[k] EXCEPT
                         !.env = @ \cup (IF k = o THEN bound ELSE {}),
                         !.fns = @ + (IF k = cur THEN made ELSE 0)]]
        /\ task' = [task EXCEPT
             !.i = @ + 1, !.failed = @ \/ ~ok,
             !.nodes = IF ok THEN Append(@, NodeOf(f, cur)) ELSE @]
        /\ status' = IF made > 0 /\ cur = 0 THEN "panicked" ELSE status
        /\ UNCHANGED <<namespaces, pipeline, engine, sources, files, res, calls>>

\* While only parsing, the forms are the tree: lists and symbols emit nothing.
Raw(f) == [kind |-> IF f.def = NoSym /\ f.kind # "fn" THEN f.kind ELSE "other",
           name |-> NoSym]
Analysed == IF phase = Parse THEN [i \in DOMAIN task.forms |-> Raw(task.forms[i])]
                             ELSE task.nodes

Finished(op) ==
    /\ status = "running" /\ task.op = op /\ ~Analysing
    /\ task' = NoTask

Returns(out) == Answer(task.op, task.ns, out)

\* Fault: a failed program leaves what could be analysed of it in the tree.
AddTreeAnyway ==
    objs' = [objs EXCEPT ![task.obj].tree = @ \o Analysed]
\* The end of addTree.
AddTree ==
    IF task.failed THEN UNCHANGED objs
    ELSE objs' = [objs EXCEPT ![task.obj].tree = @ \o Analysed]

FinishRead ==
    /\ Finished("read") /\ AddTree
    /\ Returns(IF task.failed THEN "error" ELSE "ok")
    /\ UNCHANGED <<namespaces, pipeline, engine, sources, files, status, calls>>

\* importNamespace: read, then addNS and insertNS.
FinishImport ==
    /\ Finished("import") /\ AddTree
    /\ \/ /\ task.failed /\ Returns("error") /\ UNCHANGED <<engine, namespaces>>
          /\ UNCHANGED status
       \/ /\ ~task.failed
          /\ \E out \in {"ok", "error"} :
                /\ AddNS(task.ns, Analysed, out) /\ Returns(out)
                /\ namespaces' = IF out = "ok"
                                 THEN [namespaces EXCEPT ![task.ns] = task.obj]
                                 ELSE namespaces
          /\ UNCHANGED status
       \/ /\ ~task.failed /\ AddNS(task.ns, Analysed, "uncaught")
          /\ status' = "uncaught" /\ UNCHANGED <<namespaces, res>>
    /\ UNCHANGED <<pipeline, sources, files, calls>>

\* What compileToLLVMFromOffset generates code for: the offset is the size the
\* tree had before addTree.
Added == SubSeq(objs'[Active].tree, Len(objs[Active].tree) + 1,
                Len(objs'[Active].tree))

\* addAST: the forms just added are compiled, what they define is added to
\* the newest dylib of the active namespace.  Neither the exception nor the
\* missing module nor the symbol defined twice is an error the caller sees.
FinishEval ==
    LET d == Latest(Default)
    IN  /\ Finished("eval") /\ AddTree
        /\ \/ /\ task.failed
              /\ Returns("error") /\ UNCHANGED <<modules, status>>
           \/ /\ ~task.failed /\ Throws(Added)
              /\ status' = "uncaught" /\ UNCHANGED <<modules, res>>
           \/ /\ ~task.failed /\ ~Throws(Added) /\ ~Compiles(Added)
              /\ status' = "nomodule" /\ UNCHANGED <<modules, res>>
           \/ /\ ~task.failed /\ ~Throws(Added) /\ Compiles(Added)
              /\ Exports(Added) \cap DefsOf(d) # {}
              /\ status' = "duplicate" /\ UNCHANGED <<modules, res>>
           \/ /\ ~task.failed /\ ~Throws(Added) /\ Compiles(Added)
              /\ Exports(Added) \cap DefsOf(d) = {}
              /\ modules' = Append(modules, NewModule(d, Added))
              /\ Returns("ok") /\ UNCHANGED status
        /\ UNCHANGED <<namespaces, pipeline, dylibs, jitDylibs, cache, sources,
                       files, calls>>

-----------------------------------------------------------------------------
Next ==
    \/ MakeContext \/ AnalyzeForm
    \/ FinishRead \/ FinishImport \/ FinishEval
    \/ \E p \in Phases : SetOperationPhase(p)
    \/ \E n \in Editable, c \in Programs \cup {NoSource, Unparsable} : EditFile(n, c)
    \/ \E n \in Reloadable :
          \/ MakeNamespace(n)
          \/ \E op \in {"read", "import"} : BeginRead(op, n)
    \/ \E p \in Programs : BeginEval(p)
    \/ \E n \in NS, s \in Syms : Lookup(n, s)

Spec == Init /\ [][Next]_vars

-----------------------------------------------------------------------------
(* Properties                                                              *)

\* context.cpp:45-53 panics when the current namespace is not registered,
\* and fn.cpp:39-43 asks for it in the middle of an analysis: readNamespace
\* must have registered the namespace it makes current before that.
NeverPanics == status # "panicked"

\* namespace.h:99-101 ("We need to assing a unique name to each anonymous
\* function"): no two functions of a namespace get the same generated name,
\* over all that is read into it and evaluated in it, failed programs
\* included.
FnNamesUnique ==
    \A o \in DOMAIN objs : \A i, j \in DOMAIN objs[o].tree :
        objs[o].tree[i].name = objs[o].tree[j].name
            => i = j \/ objs[o].tree[i].name \notin Anonymous

\* halley.cpp:425-442: between two calls, what the active namespace's tree
\* defines is what the newest dylib of that name defines: the offset addAST
\* compiles from neither skips forms nor compiles them twice, and no failed
\* program, whatever could be analysed of it, leaves the two apart.
EvaluatedIsPublished ==
    Idle => Exports(objs[Active].tree) = DefsOf(Latest(Default))

\* context.cpp:125-139: an import that succeeds leaves the object it read
\* registered, and the newest dylib defines what that object's tree does.
Imports == /\ task.op = "import" /\ task'.op = "none"
           /\ status' = "running" /\ res'.out = "ok"
ImportPublishes ==
    LET n == task.ns
        d == jitDylibs'[n][Len(jitDylibs'[n])]
    IN  /\ namespaces'[n] = task.obj
        /\ UNION {modules'[m].defs : m \in {k \in DOMAIN modules' :
                                              modules'[k].dylib = d}}
             = Exports(objs'[task.obj].tree)
ImportedIsPublished == [][Imports => ImportPublishes]_vars

\* source_mgr.cpp:90-104, source_mgr.h:149-160: the buffer found under a
\* registered namespace's name is never older than the one it was read from.
BufferAtLeastAsNew ==
    \A n \in NS : namespaces[n] # 0 => nsTable[n] >= objs[namespaces[n]].buf

\* The dylibs of namespaces implement DylibRegistry: numbering, and lists
\* that only grow.
Registry == INSTANCE DylibRegistry WITH
    Keys <- NS,
    registered <- [n \in NS |->
                      [i \in DOMAIN jitDylibs[n] |-> dylibs[jitDylibs[n][i]].num]]
ImplementsRegistry == Registry!Spec

\* serene.h:61-66 ("Evaluates the given AST form [...] and retuns a new
\* expression as the result or a possible error"): once the compiler has been
\* told to compile, evaluating a program does not end the process.
EvalAnswers ==
    phase >= IR /\ "ToLLVM" \in passes
        => status \notin {"nomodule", "duplicate", "uncaught"}
=============================================================================
