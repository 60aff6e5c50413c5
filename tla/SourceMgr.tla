------------------------------- MODULE SourceMgr -------------------------------
(***************************************************************************)
(* The source manager of libserene.v0 (src/libserene.v0/lib/source_mgr.cpp)*)
(* and the reader it drives: readNamespace looks a file up in the load     *)
(* paths, keeps its contents in a vector of buffers, and runs Reader over  *)
(* the new buffer.  A buffer has a cache of its line endings, filled by    *)
(* the first question where a line starts, which has to survive the moves  *)
(* the buffers make when the vector grows.                                 *)
(*                                                                         *)
(* A session is an input read as it is (the code given to serenec or the   *)
(* REPL), and then namespaces read while somebody edits their files.       *)
(***************************************************************************)
EXTENDS Reader

CONSTANTS
    Names,          \* names of namespaces
    LoadPaths,      \* how many load paths there are
    Contents,       \* what may be in a file
    Sessions,       \* what is read: [input, tail, reads, edits]
    Widths,         \* how many values the types of the offsets have, ascending
    NoFile          \* there is no such file

ASSUME SourceMgrAssumption ==
    /\ LoadPaths \in Nat /\ NoFile \notin Contents
    /\ Names \cap {"", "none"} = {}
    /\ Contents \subseteq Texts
    /\ Sessions \subseteq [input : Texts, tail : Tails, reads : Nat, edits : Nat]
    /\ Widths \in Seq(Nat) /\ Widths # <<>>
    /\ \A c \in Contents : Len(c) < Widths[Len(Widths)]

VARIABLES
    disk,       \* the files: by load path and name
    loading,    \* the namespace being read, "" for the input, "none"
    buffers,    \* the buffers, with their caches
    capacity,   \* for how many buffers the vector has room
    nsTable,    \* from names to positions in the vector, 0 for no entry
    nodes,      \* the nodes of the namespaces made
    left        \* bounds: how many reads and edits are left

srcVars == <<disk, loading, buffers, capacity, nsTable, nodes, left>>

Null == [is |-> "null", offsets |-> <<>>]
Freed == [is |-> "freed", offsets |-> <<>>]

Paths == 1 .. LoadPaths

SrcTypeOK ==
    /\ TypeOK
    /\ disk \in [Paths \X Names -> Contents \cup {NoFile}]
    /\ loading \in Names \cup {"", "none"}
    /\ capacity \in Nat /\ Len(buffers) <= capacity
    /\ \A b \in DOMAIN buffers : buffers[b].text \in Contents
    /\ nsTable \in [Names -> 0 .. Len(buffers)]
    /\ nodes \in [Names -> Seq(Item)]
    /\ left \in [reads : Nat, edits : Nat]

SrcInit ==
    \E s \in Sessions :
        /\ text = s.input /\ mem = s.input \o s.tail
        /\ pos = 0 /\ pc = "read" /\ depth = 0 /\ out = <<>> /\ err = "none"
        /\ disk = [f \in Paths \X Names |-> NoFile]
        /\ loading = "" /\ buffers = <<>> /\ capacity = 0
        /\ nsTable = [n \in Names |-> 0] /\ nodes = [n \in Names |-> <<>>]
        /\ left = [reads |-> s.reads, edits |-> s.edits]

-----------------------------------------------------------------------------
(* The buffers                                                             *)

\* The cache of a buffer with this text: the places of the new lines,
\* counted from 0, in the narrowest type that has room for the size.
Width(t) == CHOOSE w \in {Widths[k] : k \in DOMAIN Widths} :
               /\ Len(t) < w
               /\ \A k \in DOMAIN Widths : Len(t) < Widths[k] => w <= Widths[k]
NewLines(t) ==
    LET upTo[n \in Nat] ==
            IF n = 0 THEN <<>>
            ELSE upTo[n - 1] \o
                    IF t[n] = "\n" THEN <<(n - 1) % Width(t)>> ELSE <<>>
    IN  upTo[Len(t)]
GetOrCreateOffsetCache(b) ==
    IF b.cache # Null THEN b.cache
    ELSE [is |-> "filled", offsets |-> NewLines(b.text)]

\* getPointerForLineNumber: the index of the first character of a line,
\* which may be the one after the last; 0 stands for a null pointer.
Pointer(b, lineNo) ==
    LET cache == GetOrCreateOffsetCache(b)
        n == IF lineNo = 0 THEN 0 ELSE lineNo - 1
    IN  CASE n = 0 -> 1
          [] n > Len(cache.offsets) -> 0
          [] OTHER -> cache.offsets[n] + 2

\* Fault: the buffer moved from keeps its cache, and destroys it.
MovedKeeping(b) == [to |-> b, from |-> b]
\* The move constructor of SrcBuffer.
Moved(b) == [to |-> b, from |-> [b EXCEPT !.cache = Null]]
\* A buffer in its new place, after the old one is destroyed.
Relocated(b) ==
    IF Moved(b).from.cache = Null THEN Moved(b).to
    ELSE [Moved(b).to EXCEPT !.cache = Freed]

\* AddNewSourceBuffer: a full vector is moved to one of twice the size.
AddNewSourceBuffer(t) ==
    LET full == Len(buffers) = capacity
        old == IF full THEN [b \in DOMAIN buffers |-> Relocated(buffers[b])]
                       ELSE buffers
    IN  /\ buffers' = Append(old, [text |-> t, cache |-> Null])
        /\ capacity' = IF ~full THEN capacity
                       ELSE IF capacity = 0 THEN 1 ELSE 2 * capacity

-----------------------------------------------------------------------------
(* Reading a namespace                                                     *)

\* findFileInLoadPath: the first load path that has the file, if any.
Having(n) == {p \in Paths : disk[<<p, n>>] # NoFile}
FindFileInLoadPath(n) ==
    IF Having(n) = {} THEN NoFile
    ELSE disk[<<CHOOSE p \in Having(n) : \A q \in Having(n) : p <= q, n>>]

\* nsTable.insert_or_assign
Indexed(n, id) == [nsTable EXCEPT ![n] = id]

\* readNamespace, up to the call of the reader, which starts over.
BeginRead(n) ==
    LET file == FindFileInLoadPath(n)
    IN  /\ loading = "none" /\ left.reads > 0
        /\ left' = [left EXCEPT !.reads = @ - 1]
        /\ \/ /\ file = NoFile                          \* NSLoadError
              /\ UNCHANGED <<vars, loading, buffers, capacity, nsTable>>
           \/ /\ file # NoFile
              /\ AddNewSourceBuffer(file)
              /\ nsTable' = Indexed(n, Len(buffers'))
              /\ loading' = n
              /\ text' = file /\ mem' = file \o <<"nul">>
              /\ pos' = 0 /\ pc' = "read" /\ depth' = 0
              /\ out' = <<>> /\ err' = "none"
        /\ UNCHANGED <<disk, nodes>>

\* The rest of readNamespace: the tree is the namespace's, unless there was
\* an error.  The input has no buffer.
FinishRead ==
    /\ loading # "none" /\ pc \in {"done", "error"}
    /\ nodes' = IF loading \in Names /\ pc = "done"
                THEN [nodes EXCEPT ![loading] = out] ELSE nodes
    /\ loading' = "none"
    /\ UNCHANGED <<vars, disk, buffers, capacity, nsTable, left>>

ReaderStep == loading # "none" /\ Next /\ UNCHANGED srcVars

\* Somebody asks for a line of a buffer: its cache is there from then on.
AskForLine ==
    \E b \in DOMAIN buffers :
        /\ loading = "none"
        /\ buffers' =
              [buffers EXCEPT ![b].cache = GetOrCreateOffsetCache(buffers[b])]
        /\ UNCHANGED <<vars, disk, loading, capacity, nsTable, nodes, left>>

\* Somebody writes, changes or removes a file between two reads.
EditFile ==
    \E f \in Paths \X Names, c \in Contents \cup {NoFile} :
        /\ loading = "none" /\ left.edits > 0
        /\ left' = [left EXCEPT !.edits = @ - 1]
        /\ c # disk[f] /\ disk' = [disk EXCEPT ![f] = c]
        /\ UNCHANGED <<vars, loading, buffers, capacity, nsTable, nodes>>

ReadNamespace == \E n \in Names : BeginRead(n)
SrcNext == ReaderStep \/ ReadNamespace \/ FinishRead \/ AskForLine \/ EditFile

\* A call of the reader runs to its end; nothing else has to happen.
SrcSpec ==
    SrcInit /\ [][SrcNext]_<<vars, srcVars>> /\ WF_<<vars, srcVars>>(ReaderStep)

-----------------------------------------------------------------------------
(* Properties                                                              *)

\* source_mgr.cpp:133-210: whatever was asked and read before, a line of any
\* buffer starts behind as many new lines as there are lines before it, and
\* a line that is not there has no pointer.
PointersAreRight ==
    \A b \in DOMAIN buffers : \A lineNo \in 1 .. Len(buffers[b].text) + 2 :
        LET t == buffers[b].text
            before(i) == Cardinality({k \in 1 .. i - 1 : t[k] = "\n"})
            starts == {i \in 1 .. Len(t) + 1 :
                          /\ before(i) = lineNo - 1
                          /\ i > 1 => t[i - 1] = "\n"}
        IN  /\ buffers[b].cache # Freed
            /\ Pointer(buffers[b], lineNo) =
                  IF starts = {} THEN 0 ELSE CHOOSE i \in starts : TRUE
=============================================================================
