# Serene, in TLA+

Serene is a Lisp with an LLVM back end.  The repository holds two generations of
it: `src/libserene`, a JIT engine and namespace loader with the `serenec` driver,
and `src/libserene.v0`, an earlier and more complete compiler (reader, semantic
analysis, MLIR dialect, JIT) with a REPL.  This directory holds specifications of
both: modules in TLA+, configurations for TLC, and theorems checked by TLAPS.
Every definition was written from the source; `PROJECT.json` says, per definition,
from which lines.

    tlc -config MCHalley_loads.cfg MCHalley      # check a run
    tlapm HalleyProofs.tla                       # check the proofs of a module

## 1. The system

### libserene: `src/libserene`, `src/serenec`

| part | state | operations |
|---|---|---|
| `jit::Halley` (`lib/jit/halley.cpp`) | `jitDylibs`, a string map from names to vectors of dylibs; the ORC session; the arena of interned strings | `createEmptyNS`, `loadNamespace`, `loadStaticLibrary`, `loadSharedLibFile`, `loadModule`, `lookup`, `dumpToObjectFile` |
| `jit::ObjectCache` | objects by module identifier | `notifyObjectCompiled`, `getObject`, `dumpToObjectFile` |
| `SereneContext`, options | load paths, target, optimisation level | `setLoadPaths` (a swap), `applySereneCLOptions`, `terminate` |
| `fs` | none | `exists`, `namespaceToPath`, `isStaticLib`, `isSharedLib` |
| packer (`jit/packer.cpp`) | none: adds interfaces to the functions of a module | `packFunctionArguments` |
| `serenec` | none | options, then engine, then loads, then look-up of main |

A name goes from the driver to the engine, which asks `fs` for a file on each load
path, reads it, creates a dylib, files it under the name and adds the code.  Lookups
go to the newest dylib of a name, and hand out addresses that are called later.

### libserene.v0: `src/libserene.v0`, `src/serene-repl`

| part | state | operations |
|---|---|---|
| `SereneContext` | `namespaces`, target phase, pass manager, dylibs by namespace | `insertNS`, `setOperationPhase`, `makeNamespace`, `readNamespace`, `importNamespace` |
| `Namespace` | tree, root environment, `fn_counter` | `define`, `addTree`, `generate`, `compileToLLVM` |
| `SourceMgr` | buffers, `nsTable`, line offsets per buffer | `readNamespace`, `getBufferInfo`, line and column look-up |
| `Reader` | pointer, location, end-of-line flag | `read`, `readExpr`, `readList`, `readSymbol`, `readNumber` |
| `semantics`, `exprs` | the environment and counter of the namespace | `analyze`, `Def::make`, `Fn::make`, `Call::make` |
| SLIR and its passes | an MLIR module | `generate`, `LowerSLIR`, `SLIRToMLIR`, `SLIRToLLVMDialect`, translation |
| `jit::Halley` (v0) | the active namespace, an object cache | `addNS`, `addAST`, `lookup` |
| `serene-repl` | the history and its file | a line at a time: read, `eval`, print |
| its line editor (`linenoise.h`) | `linenoiseState`: the buffer in bytes, the cursor, rows and columns last written, the place in the history | a handler for each key, `refreshMultiLine` |

Text goes through the reader to a list of forms, through `semantics::analyze` to
definitions, functions and calls (binding symbols and numbering functions on the
way), into the tree of a namespace, and through `generate` into a module that
the engine adds to a dylib.  The line editor of the REPL is a header in its directory;
it edits UTF-8 in place, keeps the line being edited as the latest entry of the history, and
writes the whole line to the terminal after each key.

### What is hard in it

There is one thread in either program, so the interleavings are those with other
programs that edit the files (between `exists` and `getFile`), and the order of
calls: callbacks of ORC that compile at the first look-up, long sequences of loads,
failures in the middle of a call that undo nothing, and pointers and keys that were
taken earlier.  `PROJECT.json`, "hazards", lists each at its line with the
properties that cover it, or the reason why none does.

What makes each part correct:

- registry: names of dylibs never clash, nothing created is lost or overtaken,
  addresses stay valid, the newest version is the one a successful load made;
- loader: the first load path with the file decides, and the search ends;
- context: what the tree of a namespace says is what its dylib defines; a failed
  program publishes nothing; generated names are unique; no order of calls panics;
- reader: what it reads ends where the buffer does, it drops nothing, accepts what is balanced,
  and locations agree with the text;
- source manager: line look-up agrees with the text of the buffer, whatever was looked up and
  read before;
- analysis: it accepts the programs whose uses are bound before them, has the effects
  their text says, and looks at every form whatever the others do;
- code generation: there is a module exactly when every form can be translated, with the code of
  each; lowering leaves nothing that uses what it erased; every function is packed once;
- line editor and REPL: keys act on characters though the buffer is bytes, the terminal shows
  the line, and the history is the latest lines that were evaluated.

## 2. The modules

    specifications                                     for TLC          theorems
    DylibRegistry                                                       DylibRegistryProofs
    Halley, implements DylibRegistry                   MCHalley         HalleyProofs
    SereneContext, implements DylibRegistry            MCSereneContext  SereneContextProofs
    Reader
    SourceMgr, extends Reader                          MCSourceMgr      ReaderProofs
    Semantics <-- SemanticsMeaning                     MCSemantics      SemanticsProofs
    CodeGen                                            MCCodeGen        CodeGenProofs
    Utf8 <-- Terminal <-- LineEditor <-- Repl          MCRepl           LineEditorProofs <-- ReplProofs
    EditedLine, implemented by Repl

**DylibRegistry** is the abstract specification: what both engines promise about the
dylibs of a namespace.  The list of a namespace only grows; a dylib created for it is
numbered by its position, a library's by 0.

**Halley** is the engine of libserene.  A call that searches the load paths is
several steps (`BeginLoad`, `NextPath`, `OpenNamespace` or `OpenLibrary`, `ReadObject`
or `ReadLibrary`, `NotFound`) because `WriteFile`, another program, may come in between;
every other call is one step.  `OpenNamespace` files the dylib before the file is read,
as the code does, so an error leaves an empty dylib.  Code is an *image*; adding an
image to a dylib that has one fails, as a duplicate symbol does.  Of linking there is
one fact: some images need a symbol of the host process, and link if the dylib has it in
its link order.  `getInternalString` copies names without their terminator, so what a copy
of name n is read as is any of `Reads[n]`, C strings that may be the name of another namespace;
`Reads[n] = {n}` is the lucky memory in which the name ends where it should (`Terminated`).
A dangling C string (shared libraries, halley.cpp:789) is the same choice.  `edited` is a
history variable: the files that other programs changed since the last load call began, by which
`SearchFollowsLoadPaths` tells what the loader may have seen.

**SereneContext** is the context, the namespaces, the source manager and the engine of
v0.  A program is analysed one form a step; a form is summarised by a record of what its
analysis needs and does (`needs`, `binds`, `lambdas`, ...), which `Semantics` looks into.
`FinishRead`, `FinishImport` and `FinishEval` are the ends of the three callers of
`addTree`.  Whether a tree has code (`Compiles`) is one step here, which `CodeGen` looks into:
a tree that emits a function has none.  A number that does not fit an `int` ("big") throws through
code generation (`Throws`), which no caller catches: "uncaught".  Uses of `cantFail`, `getValue()` of an empty `Optional`, and `PANIC` set `status`:
the process has ended.

**Reader** has a program counter for the function it is in, and a depth for the
recursion of `readList`.  Bytes are ten classes, the byte 0 among them, which ends a buffer wherever
it is.  Looking ahead over spaces
(`nextChar(true)`), the end of a symbol and the end of a number are operators that
choose the position; the location is a function of it, stepped as `advanceByOne` does.  An item
read has the two locations of its `LocationRange`, `Unset` where the code gives none.
`mem` is the buffer and what lies behind it, a terminator or something else.

**Semantics** is the analysis with an explicit stack: the frames are the calls in
progress of `semantics::analyze`, `Def::make`, `Fn::make` and `Call::make`, and `ctl`
says whether a form is entered, a loop goes on, or a result is returned.  Symbols are
the part after the slash, which is all the code looks at.  **SemanticsMeaning** defines,
on the text, the trace of uses, bindings, functions and faults in a form, as a function on the
forms that is recursive in how deep they are nested (`Depth`), says when a trace is right, and
compares the two.

**SourceMgr** extends `Reader`: `BeginRead` looks a file up in the load paths, appends its
text to the vector of buffers and starts the reader over; `ReaderStep` is a step of `Reader`;
`FinishRead` is what `readNamespace` does with the outcome.  The first text of a session is
read without a buffer, as the code given to `read` is.  A buffer's cache of line
ends is made by the first question for a line (`AskForLine`), in the narrowest type its size
fits in, and goes with the buffer when the vector has to move it (`Moved`, `Relocated`).

**CodeGen** compiles one module.  `GenerateNext` is a node of the tree; `ConvertNext` is an
operation met by a pass, which is replaced, erased, left or refused (`ToMLIR`, `ToLLVM`,
`LowerDefine`, `LowerSLIR`); `FinishPass` is the verification after it; `PackNext` is a
function met by the packer in a list that grows.  A job is a tree with the phase and pipeline
of its context, a module of SLIR as one gives it to `slir-opt`, the only caller of
`LowerSLIR`, or an LLVM module.

**Utf8**, **LineEditor** and **Repl** are the REPL.  A buffer is a sequence of bytes and a
position counts bytes, so that the arithmetic of `linenoise.h` (lengths of characters and of
graphemes, columns, rows) is what it is in the source; the table of combining marks is cut to
the blocks that belong to no script.  An action of `LineEditor` is a key with everything its
handler calls.  `Refreshed` is the sequence of commands `refreshMultiLine` writes, and
**Terminal**, which is external, obeys them: it is a grid of cells whose rows are added as the
cursor gets to them.  `Repl` is the loop around it: the history is loaded by `Start` and saved
by `Quit`, an entry as the lines it is written as (`LinesOf`); evaluation succeeds (`Evaluated`,
which keeps the line as a C string), is refused, or ends the process (`Dies`).  `said` is a history
variable: the lines evaluated with success, and whether nothing else was left in the history (`alone`).
Counting the columns of bytes that are no character does not end: `mode` is then "hung".

**EditedLine** is the abstract specification of the editor: a line of characters with a
cursor, to which each key does something simple.  `Repl` maps the bytes before and after the
cursor to characters.

Operators marked "Fault" are bugs somebody could have written; nothing uses
them.  Put in the place of the operator they resemble, each makes the property
`PROJECT.json` names ("mutants") fail.

## 3. The runs

| run | shows | bounds |
|---|---|---|
| `MCHalley_loads` | `RegisteredOnce`, `LoadedVersionsRun`, `AddressesStable`, `LoadedIsLatest`, `ModulesRunTheirPathsCode`, `SearchFollowsLoadPaths`, `LoadReturns` under every order of calls, an edit of an object file or of LLVM IR at any moment, a failing session, a cache | 2 namespaces, 2 paths, 2 dylibs, 1 edit |
| `MCHalley_names` | `VersionNamesUnique`, refinement of `DylibRegistry`, whatever bytes follow a name, another name being made of them too | 2 namespaces, 3 strings, 3 dylibs |
| `MCSereneContext_calls` | `FnNamesUnique`, `EvaluatedIsPublished`, `NeverPanics`, `BufferAtLeastAsNew`, `ImportedIsPublished`, refinement of `DylibRegistry`: programs evaluated, read and imported while files are edited and damaged and the session may fail | 5 calls, 15 programs, 2 namespaces, 3 phases |
| `MCSourceMgr_read` | `NothingDropped`, `VerdictIsRight`, `LocationsAreRight`, `OverrunsAreKnown`, `ReaderReturns` on every text; `PointersAreRight` while namespaces are read from files that change | every text up to 4 characters before each of 3 tails, or 3 reads from 2 load paths with 2 edits; offset types of 4 and 8 values, line and column modulo 4 |
| `MCSemantics_analyze` | `AcceptanceIsRight`, `EffectsAreRight`, `EveryFormIsAnalysed`, `FunctionsKnowTheirNames` | forms of two levels of lists of up to 3; up to 3 simpler forms |
| `MCRepl_session` | `CursorOnCharacter`, `ScreenShowsLine`, `HistoryIsRecent`, refinement of `EditedLine` | 5 users; lines of 4 characters of 4 kinds on terminals of 3 and 4 columns; 4 lines in 2 processes, a history of 3 |
| `MCCodeGen_jobs` | `OutcomeIsRight`, `PackedOnce`, `LoweredIsClosed` | trees of 3 forms by 7 pipelines, SLIR modules of 2 values and 2 definitions, LLVM modules of 3 functions; the largest int is 4 |

`TypeOK` (`SrcTypeOK` in `SourceMgr`) is checked in one run of the modules that have one.
Five more runs show a disagreement between the code and what the
repository says of it (section 6).

Why the bounds are enough.  An overtaken or lost dylib needs a second one, a clash of names
a library or a failed load between two versions; two namespaces are needed to mix them up, and one name
that can be read as the other.  A search
needs a path without the file before one with it, and a damaged file before a good
one: two paths.  A module with a stale object needs a look-up, an edit of its file and a second
load: two dylibs and one edit.  One edit falls between any two of a call's steps; a second one is
only seen by a second call.  In the context, the smallest sequence that separates tree and
dylib is a failed program between two good ones, after a change of phase: four
calls.  Four characters hold a sign, a digit, a point and another point, a list in a list,
or two empty lines between tokens; a digit and a parenthesis behind the buffer are what the reader
may take for a part of it.  Line and column wrap around at 4 there, at 2^16 in the
code.  A definition in a definition's value, a function that calls the symbol it is
being bound to, and an operand that binds what the operator uses fit in two levels.
Three reads grow the vector of buffers twice, with a cache made before and after.  A terminal of
three columns and a prompt of one has every row edge in a line of four characters: a wide
character that fits exactly, one that leaves a column, a mark after the last column.  Four
lines fill a history of three, the entry of the line being edited included, and a second
process loads what the first one saved.  Two numbers in a tree already share a name, a pass
that is there twice meets its own output, and a value with two definitions and another use
is erased too early if it ever is.

`CHECK_DEADLOCK FALSE` is there because the systems stop: a session reaches the bound on
calls or dylibs or its process ends, a reader or an analysis returns.

`AddressesStable`, `LoadedIsLatest`, `SearchFollowsLoadPaths` and
`ImportedIsPublished` are action properties.  `FnNamesUnique` and `EvaluatedIsPublished` are
checked where nobody registers `serene.user` a second time, which no program of the repository
does; the engine would go on with the old object, and two functions of one namespace could
get one name.

### Fairness

`Halley` assumes weak fairness of `LoadStep` and nothing else: the thread in the middle of a
load is not suspended for ever; nobody has to make a call or edit a file.  `Semantics` is a
loop of one thread, and assumes weak fairness of `Next`; `SourceMgr` assumes it of
`ReaderStep` only, so a call of the reader goes on and nobody has to read or edit.
`SereneContext`, `CodeGen` and `Repl` state safety only and have no fairness: a user may stop
typing.  `LoadReturns` needs no bound on the
edits: a search moves to the next path or ends at each step.

## 4. The proofs

| theorem | says | for every |
|---|---|---|
| `DylibRegistryProofs`: `NumberingIsPositional`, `NumbersNeverClash`, `ListsOnlyGrow` | `Spec => []NumberedByPosition`, ... | set of keys |
| `HalleyProofs`: `TypeCorrect`, `NamesUnique`, `FiledOnce`, `LoadedVersionsLink`, `AddressesNeverChange` | the invariants and the action property of the runs | set of namespaces, directories, load paths, files, edits, misread names and failures |
| `LoadsBecomeLatest`, `SearchesFollowLoadPaths`, `ModulesRunAsTheirPath` | `LoadedIsLatest`, `SearchFollowsLoadPaths`, `ModulesRunTheirPathsCode` | the same |
| `RegistryRefined` | `Spec` implements `DylibRegistry!Spec` | the same |
| `SereneContextProofs`: `TypeCorrect`, `AnalysisFindsItsNamespace`, `BuffersNotOlder`, `ImportsPublish`, `RegistryRefined` | `TypeOK`, `NeverPanics`, `BufferAtLeastAsNew`, `ImportedIsPublished`, `ImplementsRegistry` | set of programs of any length, number of calls, files, edits, phases |
| `EvaluationsPublish`, `NamesUnique` | `EvaluatedIsPublished`, `FnNamesUnique` | the same, if `serene.user` is not registered again |
| `ReaderProofs`: `NoOtherOverrun`, `ReaderTypeCorrect` | `OverrunsAreKnown`, `TypeOK` | text of any length and depth, any bytes behind it |
| `ReadsEverything`, `VerdictsAreRight`, `LocationsFollowText` | `NothingDropped`, `VerdictIsRight`, `LocationsAreRight` | text of any length and depth that ends in a terminator, width of the location fields |
| `SourceMgrTypeCorrect`, `NamespacesReadRight`, `LinesFound` | `SrcTypeOK`, those of the reader, `PointersAreRight` | files, load paths, edits, reads, questions, widths of offsets |
| `SemanticsProofs`: `TypeCorrect`, `NamedAsBound` | `TypeOK`, `FunctionsKnowTheirNames` | set of forms nested to any depth, program, environment |
| `Acceptance`, `WhatIsBound`, `NoFormIsSkipped` | `AcceptanceIsRight`, `EffectsAreRight`, `EveryFormIsAnalysed` | the same |
| `CodeGenProofs`: `LoweringCloses`, `PackingIsRight`, `OutcomesAreRight` | `LoweredIsClosed`, `PackedOnce`, `OutcomeIsRight` | tree, pipeline, SLIR module and LLVM module of any length |
| `ReplProofs`: `HistoryKeepsLatest`, `CursorStaysOnCharacter`, `NeverHangs` | `HistoryIsRecent`, `CursorOnCharacter`; the loops over a line end | user who `Fits` the buffer, prompt, terminal, number and length of lines, length of the history |
| `EditsCharacters` | `ImplementsEditedLine` | the same, if in addition what is typed is `Proper` |
| `ScreenIsRight` | `ScreenShowsLine` | the same, if in addition the terminal is `Wide`, and the prompt is whole characters and takes a column |

The theorems assume what the modules name: `HalleyAssumption` (distinct sentinels, load paths that
are sequences of directories), `ContextAssumption` (the same, and that programs do not spell generated
names, see section 5), `ReaderAssumption` (some byte 0 follows a buffer, however far behind it; a location
counts more than one), `SourceMgrAssumption` (each file fits the widest offset), `SemanticsAssumption` (what a form
is), `DepthAssumption` (the reader makes trees: what is in a list is less deep than the list), `CodeGenAssumption` (a pipeline goes to LLVM only after MLIR, as `setOperationPhase` builds it;
a value used in a SLIR module is defined there; functions of an LLVM module have names of their own),
`PromptAssumption` and `HistoryAssumption` (the prompt fits a row, the history holds a line).  TLC
evaluates them in the runs.  The further hypotheses of a theorem are in its statement; each holds in the
run that checks the property, and is needed: a namespace registered again starts with an empty tree, and
the REPL keeps its promises to some users only.  A user `Fits` who types whole characters of UTF-8 other than byte
10, into a buffer with room for four bytes of each character of the line unless all are single
bytes, and who presses Ctrl-t on single bytes only; typing is `Proper` if each character has its shortest
encoding and is not byte 0, which ends a line.  Without the first the editor writes past its buffer or
hangs (section 6), without the second a step of the bytes changes no character.  A terminal is `Wide` if
it has three columns or more, on which nothing is typed that it obeys (control characters): on two columns
the editor miscounts a wide character.  The users of the run satisfy all three, which TLC
evaluates (`CarefulFit`, `PromptFits`).

Some properties have a premise of their own, which says to whom the code keeps them.  `LoadedIsLatest` of a library and
`SearchFollowsLoadPaths` are about names that end where they should, though all others may be
misread; and of a search only the files count which nobody edited during the call.  The reader's are about buffers with a
terminator and no other byte 0; `OverrunsAreKnown` is about all buffers.  `HistoryIsRecent` is about
users who left nothing else in the history (`said.alone`), which starts afresh when the history does.

No property is inductive; most of the work is what has to be added.

**Halley.**  `IInv` adds to `TypeOK`: `CallInv`,
a load that has found its file is still at that load path and, if it loads a namespace, knows
its dylib; `DylibInv`, a dylib with an image has a file it came from, and one without has run
nothing; `NumberedInv`, the number in a dylib's name is its position in the list of
its stem, or 0; `FiledInv` and `OnceInv`, what is filed is every dylib, once; and the invariants of the
runs themselves.  Steps come in three sorts: those that leave the registry alone, those that *add* a
dylib and those that *change* one; the lemmas `AddsTypes`, `AddsKeeps`, `ChangesTypes` and
`ChangesKeeps` are proved once for each sort and every action is shown to be of one
sort.  Uniqueness of names follows from numbering by position.
`AddressesStable` needs `DylibInv`: `Materialise` only touches pending code and `ReadObject`
only a dylib without an image.  A search has its own invariant (`SearchInv`): a load has passed only paths that did not have the
file, or had it edited since.  The cache has `CacheInv`: what is kept for a path was held by a module from
that path which has been compiled, and every module looked up runs it, so later edits change nothing.
Refinement: the lists of numbers change
only in steps that add, which are `RegisterNamespace` or `RegisterLibrary`.

**SereneContext.**  `IInv` is `TypeOK`, that the namespace of a task is registered before it starts
and its object is not yet in use (`TaskInv`), that `serene.user` is always registered
(`RegisteredInv`), that no module is in a dylib which is not there (`ModuleInv`), `NeverPanics` and
`BufferAtLeastAsNew`.  If `serene.user` is not registered again, its object stays the
engine's (`SettledInv`), between two programs what its tree exports is what its newest dylib defines
(`PublishedInv`), and the numbers in generated names are below the counter, each once in the tree
and the nodes of the task together (`NamesInv`): a failed program gives no number back.

**Reader.**  `IInv` says where the pointer may be in each function (`PosInv`), that what was
read covers all characters up to it which are not spaces, in order (`OutInv`, up to
`ReadUpTo`, which is behind the pointer when a minus has been swallowed but its number not
read), and that only spaces are left when the reader is done (`DoneInv`).  For the verdicts, what has been
read is balanced but for the open lists (`BalanceInv`), and where a number or symbol ends is decided by
the text ahead (`AheadInv`, `ErrorInv`).  For locations, the location is that of the text up to the
pointer (`PlacedInv`, `SignInv`).  The operators
that choose a position need one to exist: `Least` proves that a set of
positions which is not empty has a least element, and `NextNonSpaceFound`,
`SymbolEndFound` and `NumberEndFound` apply it to the terminator.  All this is for buffers that end in one.
For the others `AnyPosInv` says where the pointer may have got to, which bounds what is read next.

**SourceMgr** (in `ReaderProofs`).  `SInv` joins an invariant for each of the disk, the buffers, the table,
the nodes and the namespace being read with `ReadInv`, the invariants of the reader for the text of the
current buffer.  A cache that was made is the one of its buffer, however often the vector moved it
(`BuffersInv`), which is what makes the pointers right.

**Semantics.**  `ControlInv` is the discipline of the stack: a frame of `analyze` stands above exactly
the frames that wait for a list of trees, every other one above those that wait for one, and what is
returned is what is waited for.  `DataInv` types environments and says that a function is bound under its
own name.  For the three properties of meaning, `Follows(stack, ctl, t, d)` says that d events of the form's
trace t have taken place: the frames of the stack, each with what it still has to do, read off the
others in order (`Under`, `Reads`).  By `StepMoves`, one lemma per action under it, a step inside a form is
silent, performs event d + 1, or fails at an event that is wrong there.
`MeaningInv` adds up: `FormInv` for the form being analysed, `RunInv` for the m forms behind it (what
they bound, and an error for each that can never be right), `EndInv` for an analysis that has
returned.  Once there is an error, a later form cannot make the program right.

**CodeGen.**  `LoweringInv`: every value still used has its operation on one side of the pass, and every
`set_value` its global.  `TreeInv`: what a tree has become bears one name.  `PackInv`: names are
unique, and the interfaces are those of the functions the walk has passed.  `OutcomeInv` follows a
tree: no operation; one number, which is a value, then a function, then one of LLVM, by the passes behind
it (`Reached`); or several numbers, of which none gets through the verification after the first pass.

**Repl.**  `RecentInv` says what history and file hold in each mode while nothing else was left in them
(`said.alone`): the entry of the line being edited is the last one, whatever draft it holds, all
others are the lines said, and a file that repeats nothing is loaded as it was saved (`LoadedAsSaved`).
`LineInv` is about the bytes: every line there is, edited, in the history, in the file or handed
over, is a text, that is a sequence of whole characters, and the cursor splits its line into two.  Texts can
be joined, and taken apart where a character starts; a lead byte says how long its
character is and no other byte looks like one, so the walks forwards and backwards of the
editor stop at the same places.  The loops of `Utf8`, recursive functions over positions, are unfolded once
(`LoopIs`) and are followed over a character at a time.  Decoding a text that is joined is joining what is
decoded (`DecodedJoin`), so each key, shown to keep `LineInv`, is then shown to do to the characters what
`EditedLine` says; that different characters stay different needs `Proper`.

`ScreenInv` is about the terminal: the rows the editor has counted end where the cursor is (`Ready`), and the
screen shows the line with the cursor at its place (`Shows`).  `LineEditorProofs` has what it needs: a text
written to a terminal leaves the rows above alone, puts the cursor where the columns counted by
`ColumnPosForMultiLine` say, row edges and wide characters included, and shows the same whatever was on the
rows below if these were blank; and `Refreshed` goes down to the last row it wrote, clears up to the first, writes,
and goes back to the cursor.  A mark in the first column would have no character to stand on: `CalmInv`
says that no line begins with one.

The induction theorems of the library cannot be instantiated by the provers at hand.  Inductions over
positions are done with least elements of sets (`Least`, `LeastNat`), and a recursive function is
shown to exist by a well-founded definition (`Recursion`) or to equal a closed form that
satisfies its equation.

Only model-checked: the liveness properties `LoadReturns` and `ReaderReturns`, which TLAPS cannot
prove.  The disagreements of section 6 are traces of TLC.

## 5. Behaviours without a property

The models do these as the code does.  No document says what was meant, so none is stated as
a property or a finding.

- A reload that fails leaves an empty dylib that is the newest of its namespace: lookups
  fail from then on although an older version works (halley.cpp:518-536).
- With the object cache on, a module loaded again from a file that has changed runs the
  object of the old one: the key is the path (halley.cpp:94).  In v0 every module has one
  identifier, so the first object answers for all (v0 halley.cpp:133, slir.cpp:32).
- `dumpToObjectFile` expects one cached object and asserts it; a second module breaks that
  (halley.cpp:121).
- A static library's dylib is not linked to the host process (halley.cpp:721).
- A namespace's list of symbols keeps names owned by nodes that may be freed (v0 namespace.cpp:75);
  nothing reads the list.  Locations keep the file name of `readNamespace` after it is gone
  (source_mgr.cpp:104).
- Calling `applySereneCLOptions` twice empties the load paths (context.h:89, a swap).
- Passes are added to the pass manager and never removed: going back to an earlier phase keeps
  the later one's passes (v0 context.cpp:70).  A tree of one number then still compiles,
  because each pass leaves alone what it would make.
- Two numbers in one module, or in two evaluations, are both called `randomname`: the
  first does not verify, the second ends the process.  A number's fraction is dropped, and
  one that does not fit an `int` ends the process (number.cpp:45).
- The lowering of a definition in a module without a name reads a null name
  (slir_lowering.cpp:439).  The value of a constant is never erased with its definition, which still
  counts as a use (slir_lowering.cpp:412).
- Bodies of functions do not matter to the code: a function becomes one that returns 3, and
  before that none verifies, because `Fn::generateIR` gives the operation an integer for its result.
- `nsTable` keeps pointing to the new buffer when its text cannot be read, so the locations of
  the namespace registered earlier are then looked up in the wrong text; `BufferAtLeastAsNew`
  says no more than that it is never an older one.  The look-up of lines
  has no caller at the moment: the lines of diagnostics.cpp that use it (110-116) are comments.
- A symbol's location has its end set only, its start says line 0 (reader.cpp:268, 316); so has that of
  a list until it is closed.
- What follows a number is only asked not to be a letter (reader.cpp:254): `1-` is a number and a symbol, `1(`
  a number and a list, and `1.` is a number.  `VerdictIsRight` says what an error means and that lists are
  closed, not that every number is well formed.
- A byte 0xFF is taken for the end of the buffer as well (reader.cpp:183), which no text in UTF-8 contains.
- A function cannot call itself, nor an argument: neither is bound while the body is
  analysed, and the call is refused.  Errors in the operands of a call that does not
  resolve are not reported.  What stands before the slash of a symbol is not looked at.
- A program that itself spells a name the compiler generates (`___fn___0`) can clash with it
  (v0 fn.cpp:42): the lexer allows it.  `ContextAssumption` keeps the two apart.
- The REPL prints the error of an evaluation and goes on (serene-repl.cpp:90).  The end of the
  input is an empty line, again and again: only Ctrl-c and Ctrl-d quit.
- A line given up with Ctrl-c after walking away from it, and one cut off by an input error, leaves what was typed
  in the history that is saved.  An old entry that is changed and then left with Up or Down stays changed.
- An entry is written to the history's file as it is, and read by lines: one that holds a byte 10, which
  Ctrl-j inserts, comes back as several (linenoise.h:2573-2590).  `AddHistory` drops an entry equal to the
  one before it, when the file is loaded too.
- The history keeps a line up to its first byte 0 (serene-repl.cpp:107).
- A recalled entry is copied into the editor's buffer whatever its length (strcpy, linenoise.h:2222).  In the
  model the history is what was typed into that buffer, or read from a file written by it; longer
  lines in the file are not modelled.
- A mark at the start of a line, and a prompt as wide as the terminal, put the rows out
  of step: `PromptAssumption` and the bound `TypedNow` exclude them, and the code does not.  On a terminal of two
  columns so does a wide character.  Tabs and control characters count one column; `Terminal` has none.
- The default path of the history, `~/.serene-repl.history`, is not expanded: it is opened in a
  directory called `~`.

## 6. Disagreements

| run | the code | what it is held against |
|---|---|---|
| `MCHalley_unterminated` | a name read back with trailing bytes is filed under another key, and the dylib just created is not found | the assertion at halley.cpp:524 |
| `MCSereneContext_answers` | evaluating a definition of a function ends the process | serene.h:61-62, "retuns a new expression as the result or a possible error" |
| `MCRepl_swap` | Ctrl-t beside a character of several bytes exchanges bytes, and the editor hangs | linenoise.h:2356, "swaps current character with previous" |
| `MCRepl_full` | a character of several bytes is written past the end of the buffer if one byte of it is left (linenoise.h:2141) | linenoise.h:2295, "Make sure there is always space for the nulterm" |
| `MCSourceMgr_overrun` | a number at the end of a buffer that is not terminated goes on with the digits behind it (reader.cpp:238), and a list is closed by a parenthesis there (335); every buffer the programs make is terminated | reader.h:79-80, "since the buffer might not be null terminated" |

Six more were met while modelling and need no run to be seen:

- a lookup in a namespace that was never loaded takes `back()` of an empty vector
  (halley.cpp:423; halley.h:222, "Propagates errors in case of failure");
- a number bound to a symbol becomes the target of a call (call.cpp:105; call.cpp:85-87, "make
  sure that the return value is callable");
- definitions of functions and of computed values are erased by the lowering
  (slir_lowering.cpp:424, 499; ops.td:166, "defines a global binding in the current namespace");
- a byte 0 ends a buffer wherever it is, and what follows it is dropped without an error
  (reader.cpp:183; 390, "Reads all the expressions in the reader's buffer as an AST");
- columns of the first line start with 2 (reader.cpp:119, 129; source_mgr.cpp:164, "We start counting
  line and column numbers from 1");
- `SetHistoryMaxLen` keeps the oldest lines (linenoise.h:2562; 2553-2556, "retain just the latest
  'len' elements").

## 7. Not modelled

The spelling of paths; LLVM, MLIR and ORC beyond what is said above; target selection; the
clang driver and the linker; the printing of diagnostics, much of which is commented out, as is
most of `serenec.cpp` and the first half of `slir_lowering.cpp`; `serene-tblgen` and the
language server, which keep no state; `jit/engine.cpp` and `jit/layers.cpp` of v0, which
nothing constructs.  Of the line editor: the single-line mode and completion, which the REPL
does not turn on, and the emulation of a terminal on Windows.  Of lowering: operations in the
bodies of functions, and canonicalisation.  Memory is modelled where the code reads what
it does not own (names without terminators, buffers without one, caches of buffers that move);
the lifetimes of nodes, and the size of the C stack under recursion, are not.

## 8. Plan

1. That the record of a form in `SereneContext` is what the machine of `Semantics` does with it.
2. The hazards without a property: look-ups before any load, reloads that fail, entries longer than the buffer.
