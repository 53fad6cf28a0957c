------------------------- MODULE DistributedFsProofs -------------------------
(***************************************************************************)
(* Proofs about DistributedFs, for any set of threads and of paths and any *)
(* bound on allocations.  Only three operators change the table of files: *)
(* NewFile, EraseFile and the table part of Rename.  A lemma for each says *)
(* what it preserves; the proof of a step adds what becomes of the calls. *)
(* After them, what comes before any file: the provider that constructs   *)
(* the file system and keeps it, and the data nodes that its name node    *)
(* gives to a write, for any hosts and ports, nodes and number of calls.  *)
(***************************************************************************)
EXTENDS DistributedFs, FileSystemProvider, FiniteSetTheorems, SequenceTheorems, TLAPS

(* ------------------------- the inductive invariant ---------------------- *)

\* No two entries share a node of the map.
NodesDistinct ==
    /\ \A p \in Live : metadata[p].node \in 1 .. allocs
    /\ \A p, q \in Live : metadata[p].node = metadata[q].node => p = q

\* A pointer points to a node allocated before, which still holds the file
\* that the call is about or holds none.
PointerKnown(t) ==
    call[t].pc = "deref" =>
        /\ call[t].node \in 1 .. allocs
        /\ \A p \in Live : metadata[p].node = call[t].node => metadata[p].file = call[t].file

MovedWasCreated(t) == call[t].pc = "unlink" => call[t].file \in 1 .. created

CallOK(t) == PointerKnown(t) /\ MovedWasCreated(t)

TableOK ==
    /\ metadata \in Tables
    /\ allocs \in 0 .. MaxAllocs
    /\ created \in 0 .. allocs
    /\ removed \subseteq 1 .. created

TableInv == TableOK /\ KeyMatchesPath /\ FilesConserved /\ NodesDistinct

\* A call has the arguments that its operation goes on to use.
Downloads == {"copy_to_local", "move_to_local"}
ProperCalls ==
    {c \in Calls :
        /\ c.pc = "deref" => c.path \in Paths
        /\ c.pc = "deref" /\ c.op = "copy" => c.dst \in Paths
        /\ c.pc = "deref" /\ c.op \in Downloads => c.disk \in LocalPaths
        /\ c.pc = "create" => c.dst \in Paths
        /\ c.pc = "write" => c.path \in Paths /\ c.disk \in LocalPaths
        /\ c.pc = "delete" => c.path \in Paths
        /\ c.pc = "upload" => c.dst \in Paths}

CallsInv == call \in [Threads -> ProperCalls] /\ \A t \in Threads : CallOK(t)

IInv == TableInv /\ CallsInv /\ local \subseteq LocalPaths

(* ------------------------------- the table ------------------------------ *)

\* What the bounds of the counters say.
LEMMA Bounds ==
    ASSUME TableOK
    PROVE  allocs \in Nat /\ created \in Nat /\ MaxAllocs \in Nat /\ created <= allocs /\ allocs <= MaxAllocs
BY FsAssumption DEF TableOK

\* An entry has the fields of an entry.
LEMMA LiveEntry ==
    ASSUME TableOK, NEW p \in Live
    PROVE  /\ p \in Paths /\ metadata[p] \in Entries /\ metadata[p] # Absent
           /\ metadata[p].path \in Paths /\ metadata[p].isDirectory \in BOOLEAN
           /\ metadata[p].node \in Nat /\ metadata[p].file \in Nat
<1>1. p \in Paths /\ metadata[p] # Absent
  BY DEF Live, Has
<1>2. metadata[p] \in Entries
  BY <1>1 DEF TableOK, Tables
<1> QED
  BY <1>1, <1>2 DEF Entries

\* A file's number is that of a file created and not removed.
LEMMA LiveFile ==
    ASSUME TableOK, FilesConserved, NEW p \in Live
    PROVE  metadata[p].file \in (1 .. created) \ removed
BY DEF FilesConserved

\* Creating a file: the new entry, and the others as they were.
LEMMA NewFileShape ==
    ASSUME TableOK, NEW p \in Paths, NEW d \in BOOLEAN, NewFile(p, d)
    PROVE  /\ TableOK'
           /\ Live' = Live \cup {p} /\ p \notin Live
           /\ \A q \in Live : metadata'[q] = metadata[q]
           /\ metadata'[p].path = p
           /\ metadata'[p].node = allocs + 1 /\ metadata'[p].file = created + 1
           /\ allocs' = allocs + 1 /\ created' = created + 1 /\ removed' = removed
<1> DEFINE e == [path |-> p, isDirectory |-> d, node |-> allocs + 1, file |-> created + 1]
<1>1. e \in Entries /\ e.path = p /\ e.node = allocs + 1 /\ e.file = created + 1
  BY Bounds DEF Entries
<1>2. e # Absent
  BY <1>1, AbsentAssumption
<1>3. metadata' = [metadata EXCEPT ![p] = e]
  BY DEF NewFile, CreateFile
<1> HIDE DEF e
<1>4. metadata' \in Tables /\ metadata'[p] = e /\ \A q \in Paths \ {p} : metadata'[q] = metadata[q]
  BY <1>1, <1>3 DEF TableOK, Tables
<1>5. /\ ~Has(metadata, p) /\ allocs < MaxAllocs
      /\ allocs' = allocs + 1 /\ created' = created + 1 /\ removed' = removed
  BY DEF NewFile
<1>6. allocs' \in 0 .. MaxAllocs /\ created' \in 0 .. allocs'
  BY <1>5, Bounds
<1>7. removed' \subseteq 1 .. created'
  BY <1>5, Bounds DEF TableOK
<1>8. TableOK'
  BY <1>4, <1>6, <1>7 DEF TableOK
<1>9. Live' = Live \cup {p} /\ p \notin Live
  BY <1>2, <1>4, <1>5 DEF Live, Has
<1> QED
  BY <1>1, <1>4, <1>5, <1>8, <1>9 DEF Live

LEMMA NewFileKeeps ==
    ASSUME TableInv, NEW p \in Paths, NEW d \in BOOLEAN, NewFile(p, d)
    PROVE  TableInv'
<1>1. /\ TableOK' /\ Live' = Live \cup {p} /\ p \notin Live
      /\ \A q \in Live : metadata'[q] = metadata[q]
      /\ metadata'[p].path = p
      /\ metadata'[p].node = allocs + 1 /\ metadata'[p].file = created + 1
      /\ allocs' = allocs + 1 /\ created' = created + 1 /\ removed' = removed
  BY NewFileShape DEF TableInv
<1>2. KeyMatchesPath'
  BY <1>1 DEF KeyMatchesPath, TableInv
<1>3. allocs \in Nat /\ created \in Nat /\ removed \subseteq 1 .. created
  BY Bounds DEF TableInv, TableOK
<1>4. \A q \in Live : metadata[q].file \in (1 .. created) \ removed
  BY LiveFile DEF TableInv
<1>5. FilesConserved'
  <2>1. ASSUME NEW q \in Live', NEW r \in Live', metadata'[q].file = metadata'[r].file
        PROVE  q = r
    BY <1>1, <1>3, <1>4, <2>1 DEF FilesConserved, TableInv
  <2>2. {metadata'[q].file : q \in Live'} = {metadata[q].file : q \in Live} \cup {created + 1}
    BY <1>1
  <2>3. (1 .. created') \ removed' = ((1 .. created) \ removed) \cup {created + 1}
    BY <1>1, <1>3
  <2> QED
    BY <2>1, <2>2, <2>3 DEF FilesConserved, TableInv
<1>6. NodesDistinct'
  BY <1>1, <1>3 DEF NodesDistinct, TableInv
<1> QED
  BY <1>1, <1>2, <1>5, <1>6 DEF TableInv

\* Removing a file: its entry goes, the others stay as they were.
LEMMA EraseFileShape ==
    ASSUME TableInv, NEW p \in Paths, EraseFile(p)
    PROVE  /\ TableOK'
           /\ Live' = Live \ {p} /\ p \in Live
           /\ \A q \in Live' : metadata'[q] = metadata[q]
           /\ allocs' = allocs /\ created' = created
           /\ removed' = removed \cup {metadata[p].file}
<1>1. /\ Has(metadata, p) /\ metadata' = [metadata EXCEPT ![p] = Absent]
      /\ allocs' = allocs /\ created' = created /\ removed' = removed \cup {metadata[p].file}
  BY DEF EraseFile, DeleteFile
<1>2. metadata' \in Tables /\ metadata'[p] = Absent /\ \A q \in Paths \ {p} : metadata'[q] = metadata[q]
  BY <1>1 DEF TableInv, TableOK, Tables
<1>3. Live' = Live \ {p} /\ p \in Live
  BY <1>1, <1>2 DEF Live, Has
<1>4. metadata[p].file \in 1 .. created
  BY <1>3, LiveFile DEF TableInv
<1> QED
  BY <1>1, <1>2, <1>3, <1>4 DEF TableInv, TableOK, Live

LEMMA EraseFileKeeps ==
    ASSUME TableInv, NEW p \in Paths, EraseFile(p)
    PROVE  TableInv'
<1>1. /\ TableOK' /\ Live' = Live \ {p} /\ p \in Live
      /\ \A q \in Live' : metadata'[q] = metadata[q]
      /\ allocs' = allocs /\ created' = created
      /\ removed' = removed \cup {metadata[p].file}
  BY EraseFileShape
<1>2. KeyMatchesPath' /\ NodesDistinct'
  BY <1>1 DEF KeyMatchesPath, NodesDistinct, TableInv
<1>3. FilesConserved'
  <2>1. \A q, r \in Live : metadata[q].file = metadata[r].file => q = r
    BY DEF FilesConserved, TableInv
  <2>2. {metadata'[q].file : q \in Live'} = {metadata[q].file : q \in Live} \ {metadata[p].file}
    BY <1>1, <2>1
  <2> QED
    BY <1>1, <2>1, <2>2 DEF FilesConserved, TableInv
<1> QED
  BY <1>1, <1>2, <1>3 DEF TableInv

\* The part of Rename that is about one pair of paths.
Renamed(p, q) ==
    /\ Has(metadata, p) /\ ~Has(metadata, q) /\ allocs < MaxAllocs
    /\ metadata' = RenameFile(metadata, p, q, allocs + 1)
    /\ allocs' = allocs + 1 /\ created' = created /\ removed' = removed

\* Renaming a file: the entry goes from p to q, into a node of its own.
LEMMA RenameShape ==
    ASSUME TableOK, NEW p \in Paths, NEW q \in Paths, Renamed(p, q)
    PROVE  /\ TableOK'
           /\ p \in Live /\ q \notin Live /\ p # q
           /\ Live' = (Live \ {p}) \cup {q}
           /\ \A r \in Live \ {p} : metadata'[r] = metadata[r]
           /\ metadata'[q].path = q /\ metadata'[q].file = metadata[p].file
           /\ metadata'[q].node = allocs + 1
           /\ metadata'[p] = Absent
           /\ allocs' = allocs + 1 /\ created' = created /\ removed' = removed
<1> DEFINE a == metadata[p]
           n == allocs + 1
           e == [a EXCEPT !.path = q, !.node = n]
<1>1. p \in Live /\ q \notin Live /\ p # q
  BY DEF Renamed, Live, Has
<1>2. /\ e \in Entries /\ e.path = q /\ e.node = allocs + 1
      /\ e.file = metadata[p].file
  <2>1. metadata[p] \in Entries
    BY <1>1, LiveEntry
  <2>2. allocs + 1 \in Nat
    BY Bounds
  <2> QED
    <3> HIDE DEF a, n
    <3>1. a \in Entries /\ n \in Nat => e \in Entries /\ e.path = q /\ e.node = n /\ e.file = a.file
      BY DEF Entries
    <3> HIDE DEF e
    <3> QED
      BY <2>1, <2>2, <3>1 DEF a, n
<1>3. e # Absent
  BY <1>2, AbsentAssumption
<1>4. metadata' = [metadata EXCEPT ![p] = Absent, ![q] = e]
  BY DEF Renamed, RenameFile
<1> HIDE DEF e
<1>5. /\ metadata' \in Tables /\ metadata'[p] = Absent /\ metadata'[q] = e
      /\ \A r \in Paths \ {p, q} : metadata'[r] = metadata[r]
  BY <1>1, <1>2, <1>4 DEF TableOK, Tables
<1>6. TableOK'
  BY <1>5, Bounds DEF TableOK, Renamed
<1>7. Live' = (Live \ {p}) \cup {q}
  BY <1>1, <1>3, <1>5 DEF Live, Has
<1> QED
  BY <1>1, <1>2, <1>5, <1>6, <1>7 DEF Live, Renamed

LEMMA RenameKeeps ==
    ASSUME TableInv, NEW p \in Paths, NEW q \in Paths, Renamed(p, q)
    PROVE  TableInv'
<1>1. /\ TableOK' /\ p \in Live /\ q \notin Live /\ p # q
      /\ Live' = (Live \ {p}) \cup {q}
      /\ \A r \in Live \ {p} : metadata'[r] = metadata[r]
      /\ metadata'[q].path = q /\ metadata'[q].file = metadata[p].file
      /\ metadata'[q].node = allocs + 1
      /\ allocs' = allocs + 1 /\ created' = created /\ removed' = removed
  BY RenameShape DEF TableInv
<1>2. KeyMatchesPath'
  BY <1>1 DEF KeyMatchesPath, TableInv
<1>3. NodesDistinct'
  BY <1>1, Bounds DEF NodesDistinct, TableInv
<1>4. FilesConserved'
  <2>1. \A r, s \in Live : metadata[r].file = metadata[s].file => r = s
    BY DEF FilesConserved, TableInv
  <2>2. ASSUME NEW r \in Live', NEW s \in Live', metadata'[r].file = metadata'[s].file
        PROVE  r = s
    BY <1>1, <2>1, <2>2
  <2>3. {metadata'[r].file : r \in Live'} = {metadata[r].file : r \in Live}
    BY <1>1
  <2> QED
    BY <1>1, <2>2, <2>3 DEF FilesConserved, TableInv
<1> QED
  BY <1>1, <1>2, <1>3, <1>4 DEF TableInv
(* ------------------------------- the calls ------------------------------ *)

\* What a step that leaves a call alone does to what is known of it.
LEMMA CallUntouched ==
    ASSUME NEW t \in Threads, CallOK(t), call'[t] = call[t],
           UNCHANGED <<metadata, allocs, created>>
    PROVE  CallOK(t)'
BY DEF CallOK, PointerKnown, MovedWasCreated, Live, Has

LEMMA NewFileCall ==
    ASSUME TableInv, NEW p \in Paths, NEW d \in BOOLEAN, NewFile(p, d),
           NEW t \in Threads, CallOK(t), call'[t] = call[t]
    PROVE  CallOK(t)'
<1>1. /\ Live' = Live \cup {p} /\ \A q \in Live : metadata'[q] = metadata[q]
      /\ metadata'[p].node = allocs + 1
      /\ allocs' = allocs + 1 /\ created' = created + 1
  BY NewFileShape DEF TableInv
<1>2. allocs \in Nat /\ created \in Nat
  BY Bounds DEF TableInv
<1>3. PointerKnown(t)'
  BY <1>1, <1>2 DEF CallOK, PointerKnown
<1>4. MovedWasCreated(t)'
  BY <1>1, <1>2 DEF CallOK, MovedWasCreated
<1> QED
  BY <1>3, <1>4 DEF CallOK

LEMMA EraseFileCall ==
    ASSUME TableInv, NEW p \in Paths, EraseFile(p),
           NEW t \in Threads, CallOK(t), call'[t] = call[t]
    PROVE  CallOK(t)'
<1>1. /\ Live' = Live \ {p} /\ \A q \in Live' : metadata'[q] = metadata[q]
      /\ allocs' = allocs /\ created' = created
  BY EraseFileShape
<1> QED
  BY <1>1 DEF CallOK, PointerKnown, MovedWasCreated

LEMMA RenameCall ==
    ASSUME TableInv, NEW p \in Paths, NEW q \in Paths, Renamed(p, q),
           NEW t \in Threads, CallOK(t), call'[t] = call[t]
    PROVE  CallOK(t)'
<1>1. /\ Live' = (Live \ {p}) \cup {q} /\ \A r \in Live \ {p} : metadata'[r] = metadata[r]
      /\ metadata'[q].node = allocs + 1
      /\ allocs' = allocs + 1 /\ created' = created
  BY RenameShape DEF TableInv
<1>2. allocs \in Nat /\ created \in Nat
  BY Bounds DEF TableInv
<1>3. PointerKnown(t)'
  BY <1>1, <1>2 DEF CallOK, PointerKnown
<1> QED
  BY <1>1, <1>3 DEF CallOK, MovedWasCreated

\* A call that goes on to anything but the use of a pointer or the removal
\* of the local file has nothing to know.
LEMMA CallElsewhere ==
    ASSUME NEW t \in Threads, call'[t].pc \notin {"deref", "unlink"}
    PROVE  CallOK(t)'
BY DEF CallOK, PointerKnown, MovedWasCreated

LEMMA GotoEffect ==
    ASSUME call \in [Threads -> ProperCalls], NEW t \in Threads, NEW c \in ProperCalls, Goto(t, c)
    PROVE  /\ call' \in [Threads -> ProperCalls] /\ call'[t] = c
           /\ \A u \in Threads \ {t} : call'[u] = call[u]
BY DEF Goto

LEMMA IdleOK == Idle \in ProperCalls /\ Idle.pc = "idle"
BY DEF Idle, Calls, ProperCalls

LEMMA ReturnEffect ==
    ASSUME call \in [Threads -> ProperCalls], NEW t \in Threads, Return(t)
    PROVE  /\ call' \in [Threads -> ProperCalls] /\ CallOK(t)'
           /\ \A u \in Threads \ {t} : call'[u] = call[u]
<1>1. /\ call' \in [Threads -> ProperCalls] /\ call'[t] = Idle
      /\ \A u \in Threads \ {t} : call'[u] = call[u]
  BY GotoEffect, IdleOK DEF Return
<1>2. CallOK(t)'
  BY <1>1, IdleOK, CallElsewhere
<1> QED
  BY <1>1, <1>2

\* A step of one call that keeps the table.
LEMMA OneCall ==
    ASSUME IInv, NEW t \in Threads, UNCHANGED <<metadata, allocs, created, removed>>,
           call' \in [Threads -> ProperCalls], CallOK(t)',
           \A u \in Threads \ {t} : call'[u] = call[u], local' \subseteq LocalPaths
    PROVE  IInv'
<1>1. TableInv'
  BY DEF IInv, TableInv, TableOK, KeyMatchesPath, FilesConserved, NodesDistinct, Live, Has
<1>2. ASSUME NEW u \in Threads
      PROVE  CallOK(u)'
  BY CallUntouched DEF IInv, CallsInv
<1> QED
  BY <1>1, <1>2 DEF IInv, CallsInv

(* --------------------------- the proof of a step ------------------------ *)

LEMMA InitInv == Init => IInv
<1> SUFFICES ASSUME Init PROVE IInv
  OBVIOUS
<1>1. Live = {}
  BY DEF Init, EmptyTable, Live, Has
<1>2. metadata \in Tables
  BY DEF Init, EmptyTable, Tables
<1>3. TableOK
  BY <1>2, FsAssumption DEF Init, TableOK
<1>4. KeyMatchesPath /\ FilesConserved /\ NodesDistinct
  BY <1>1 DEF KeyMatchesPath, FilesConserved, NodesDistinct, Init
<1>5. call \in [Threads -> ProperCalls] /\ \A t \in Threads : call[t].pc = "idle"
  BY IdleOK DEF Init
<1>6. \A t \in Threads : CallOK(t)
  BY <1>5 DEF CallOK, PointerKnown, MovedWasCreated
<1> QED
  BY <1>3, <1>4, <1>5, <1>6 DEF IInv, TableInv, CallsInv, Init

\* The steps that create a file, whatever they do to their own call.
LEMMA CreatingStep ==
    ASSUME IInv, NEW t \in Threads, NEW p \in Paths, NEW d \in BOOLEAN, NewFile(p, d),
           call' \in [Threads -> ProperCalls], CallOK(t)',
           \A u \in Threads \ {t} : call'[u] = call[u], local' \subseteq LocalPaths
    PROVE  IInv'
<1>1. TableInv'
  BY NewFileKeeps DEF IInv
<1>2. ASSUME NEW u \in Threads
      PROVE  CallOK(u)'
  BY NewFileCall DEF IInv, CallsInv
<1> QED
  BY <1>1, <1>2 DEF IInv, CallsInv

LEMMA ErasingStep ==
    ASSUME IInv, NEW t \in Threads, NEW p \in Paths, EraseFile(p),
           call' \in [Threads -> ProperCalls], CallOK(t)',
           \A u \in Threads \ {t} : call'[u] = call[u], local' \subseteq LocalPaths
    PROVE  IInv'
<1>1. TableInv'
  BY EraseFileKeeps DEF IInv
<1>2. ASSUME NEW u \in Threads
      PROVE  CallOK(u)'
  BY EraseFileCall DEF IInv, CallsInv
<1> QED
  BY <1>1, <1>2 DEF IInv, CallsInv

\* The fields of a call.
LEMMA CallFields ==
    ASSUME call \in [Threads -> ProperCalls], NEW t \in Threads
    PROVE  /\ call[t] \in ProperCalls /\ call[t] \in Calls
           /\ call[t].isDirectory \in BOOLEAN
           /\ call[t].pc = "create" => call[t].dst \in Paths
           /\ call[t].pc = "write" => call[t].disk \in LocalPaths
           /\ call[t].pc = "delete" => call[t].path \in Paths
           /\ call[t].pc = "upload" => call[t].dst \in Paths
BY DEF Calls, ProperCalls

\* How a call goes on.
LEMMA StartUpload ==
    ASSUME NEW op \in Writers, NEW p \in Paths, NEW l \in LocalPaths
    PROVE  LET c == [Idle EXCEPT !.op = op, !.pc = "upload", !.disk = l, !.dst = p]
           IN  c \in ProperCalls /\ c.pc = "upload"
BY DEF Idle, Calls, ProperCalls

LEMMA HasRead ==
    ASSUME NEW c \in ProperCalls, c.pc = "deref", NEW d \in BOOLEAN
    PROVE  LET e == [c EXCEPT !.pc = "idle", !.isDirectory = d] IN e \in ProperCalls /\ e.pc = "idle"
BY DEF Calls, ProperCalls

LEMMA HasReadForCopy ==
    ASSUME NEW c \in ProperCalls, c.pc = "deref", c.op = "copy", NEW d \in BOOLEAN
    PROVE  LET e == [c EXCEPT !.pc = "create", !.isDirectory = d] IN e \in ProperCalls /\ e.pc = "create"
BY DEF Calls, ProperCalls

LEMMA HasReadForDownload ==
    ASSUME NEW c \in ProperCalls, c.pc = "deref", c.op \in Downloads
    PROVE  LET e == [c EXCEPT !.pc = "write"] IN e \in ProperCalls /\ e.pc = "write"
BY DEF Calls, ProperCalls

LEMMA HasWritten ==
    ASSUME NEW c \in ProperCalls, c.pc = "write"
    PROVE  LET e == [c EXCEPT !.pc = "delete"] IN e \in ProperCalls /\ e.pc = "delete"
BY DEF Calls, ProperCalls

LEMMA ReadsBoolean ==
    ASSUME TableOK, NEW n, NEW d \in ReadIsDirectory(metadata, n)
    PROVE  d \in BOOLEAN
BY LiveEntry DEF ReadIsDirectory, Live

\* One step per action of Next.
LEMMA StepInv == IInv /\ [Next]_vars => IInv'
<1> SUFFICES ASSUME IInv, [Next]_vars PROVE IInv'
  OBVIOUS
<1>0. /\ call \in [Threads -> ProperCalls] /\ TableInv /\ TableOK /\ local \subseteq LocalPaths
  BY DEF IInv, CallsInv, TableInv
<1>1. CASE UNCHANGED vars
  BY <1>1 DEF vars, IInv, TableInv, CallsInv, TableOK, KeyMatchesPath, FilesConserved,
     NodesDistinct, CallOK, PointerKnown, MovedWasCreated, Live, Has
<1>2. ASSUME NEW t \in Threads, call' = call
      PROVE  /\ call' \in [Threads -> ProperCalls] /\ \A u \in Threads \ {t} : call'[u] = call[u]
             /\ call'[t] = call[t]
  BY <1>0, <1>2
<1>3. ASSUME NEW t \in Threads, Create(t)
      PROVE  IInv'
  <2>1. PICK p \in Paths, d \in BOOLEAN : NewFile(p, d)
    BY <1>3 DEF Create
  <2>2. call' = call /\ local' = local
    BY <1>3 DEF Create
  <2>3. CallOK(t)'
    BY <1>2, <2>1, <2>2, NewFileCall DEF IInv, CallsInv
  <2> QED
    BY <1>0, <1>2, <2>1, <2>2, <2>3, CreatingStep
<1>4. ASSUME NEW t \in Threads, Remove(t)
      PROVE  IInv'
  <2>1. PICK p \in Paths : EraseFile(p)
    BY <1>4 DEF Remove
  <2>2. call' = call /\ local' = local
    BY <1>4 DEF Remove
  <2>3. CallOK(t)'
    BY <1>2, <2>1, <2>2, EraseFileCall DEF IInv, CallsInv
  <2> QED
    BY <1>0, <1>2, <2>1, <2>2, <2>3, ErasingStep
<1>5. ASSUME NEW t \in Threads, Rename(t)
      PROVE  IInv'
  <2>1. PICK p \in Paths, q \in Paths : Renamed(p, q)
    BY <1>5 DEF Rename, Renamed
  <2>2. call' = call /\ local' = local
    BY <1>5 DEF Rename
  <2>3. TableInv'
    BY <1>0, <2>1, RenameKeeps
  <2>4. ASSUME NEW u \in Threads
        PROVE  CallOK(u)'
    BY <1>0, <2>1, <2>2, RenameCall DEF IInv, CallsInv
  <2> QED
    BY <1>0, <2>2, <2>3, <2>4 DEF IInv, CallsInv
<1>6. ASSUME NEW t \in Threads, GetMetadata(t)
      PROVE  IInv'
  <2>1. PICK op \in Readers, p \in Paths :
           /\ Has(metadata, p)
           /\ \E dst \in IF op = "copy" THEN Paths ELSE {NoPath},
                 disk \in IF op \in {"copy_to_local", "move_to_local"} THEN LocalPaths ELSE {NoPath} :
                Goto(t, [Idle EXCEPT !.op = op, !.pc = "deref", !.path = p, !.dst = dst,
                                     !.disk = disk, !.node = metadata[p].node,
                                     !.file = metadata[p].file,
                                     !.truth = metadata[p].isDirectory])
    BY <1>6 DEF GetMetadata
  <2>2. PICK q \in Paths \cup {NoPath}, l \in LocalPaths \cup {NoPath} :
           /\ op = "copy" => q \in Paths
           /\ op \in Downloads => l \in LocalPaths
           /\ Goto(t, [Idle EXCEPT !.op = op, !.pc = "deref", !.path = p, !.dst = q,
                                   !.disk = l, !.node = metadata[p].node,
                                   !.file = metadata[p].file,
                                   !.truth = metadata[p].isDirectory])
    BY <2>1 DEF Downloads
  <2> DEFINE n == metadata[p].node
             f == metadata[p].file
             d == metadata[p].isDirectory
             c == [Idle EXCEPT !.op = op, !.pc = "deref", !.path = p, !.dst = q,
                               !.disk = l, !.node = n, !.file = f, !.truth = d]
  <2>3. p \in Live /\ n \in Nat /\ f \in Nat /\ d \in BOOLEAN
    BY <1>0, <2>1, LiveEntry DEF Live
  <2>4. c \in ProperCalls /\ c.pc = "deref" /\ c.node = n /\ c.file = f
    <3> HIDE DEF n, f, d
    <3> QED
      BY <2>2, <2>3 DEF Idle, Calls, ProperCalls
  <2>5. UNCHANGED <<metadata, allocs, created, removed, local>>
    BY <1>6 DEF GetMetadata
  <2>6. Goto(t, c)
    BY <2>2
  <2>7. n \in 1 .. allocs /\ \A r \in Live : metadata[r].node = n => metadata[r].file = f
    BY <1>0, <2>3 DEF TableInv, NodesDistinct
  <2> HIDE DEF c, n, f
  <2>8. /\ call' \in [Threads -> ProperCalls] /\ call'[t] = c
        /\ \A u \in Threads \ {t} : call'[u] = call[u]
    BY <1>0, <2>4, <2>6, GotoEffect
  <2>9. Live' = Live
    BY <2>5 DEF Live, Has
  <2>10. CallOK(t)'
    BY <2>4, <2>5, <2>7, <2>8, <2>9 DEF CallOK, PointerKnown, MovedWasCreated
  <2> QED
    BY <1>0, <2>5, <2>8, <2>10, OneCall
<1>7. ASSUME NEW t \in Threads, ReadAndReturn(t)
      PROVE  IInv'
  BY <1>0, <1>7, ReturnEffect, OneCall DEF ReadAndReturn
<1>8. ASSUME NEW t \in Threads, ReadKind(t)
      PROVE  IInv'
  <2>1. PICK d \in ReadIsDirectory(metadata, call[t].node) : Goto(t, [call[t] EXCEPT !.pc = "idle", !.isDirectory = d])
    BY <1>8 DEF ReadKind
  <2>2. /\ call[t].pc = "deref" /\ call[t].op \in {"is_directory"}
        /\ UNCHANGED <<metadata, allocs, created, removed, local>>
    BY <1>8 DEF ReadKind, At, Downloads
  <2>3. call[t] \in ProperCalls /\ d \in BOOLEAN
    BY <1>0, <2>1, CallFields, ReadsBoolean
  <2> DEFINE a == call[t]
             c == [a EXCEPT !.pc = "idle", !.isDirectory = d]
  <2>4. c \in ProperCalls /\ c.pc = "idle"
    <3> HIDE DEF a
    <3>1. a \in ProperCalls /\ a.pc = "deref" /\ a.op \in {"is_directory"} => c \in ProperCalls /\ c.pc = "idle"
      BY <2>3, HasRead
    <3> HIDE DEF c
    <3> QED
      BY <2>2, <2>3, <3>1 DEF a
  <2>5. Goto(t, c)
    BY <2>1
  <2> HIDE DEF c
  <2>6. /\ call' \in [Threads -> ProperCalls] /\ call'[t] = c
        /\ \A u \in Threads \ {t} : call'[u] = call[u]
    BY <1>0, <2>4, <2>5, GotoEffect
  <2>7. CallOK(t)'
    BY <2>4, <2>6, CallElsewhere
  <2> QED
    BY <1>0, <2>2, <2>6, <2>7, OneCall
<1>9. ASSUME NEW t \in Threads, ReadForCopy(t)
      PROVE  IInv'
  <2>1. PICK d \in ReadIsDirectory(metadata, call[t].node) : Goto(t, [call[t] EXCEPT !.pc = "create", !.isDirectory = d])
    BY <1>9 DEF ReadForCopy
  <2>2. /\ call[t].pc = "deref" /\ call[t].op \in {"copy"}
        /\ UNCHANGED <<metadata, allocs, created, removed, local>>
    BY <1>9 DEF ReadForCopy, At, Downloads
  <2>3. call[t] \in ProperCalls /\ d \in BOOLEAN
    BY <1>0, <2>1, CallFields, ReadsBoolean
  <2> DEFINE a == call[t]
             c == [a EXCEPT !.pc = "create", !.isDirectory = d]
  <2>4. c \in ProperCalls /\ c.pc = "create"
    <3> HIDE DEF a
    <3>1. a \in ProperCalls /\ a.pc = "deref" /\ a.op \in {"copy"} => c \in ProperCalls /\ c.pc = "create"
      BY <2>3, HasReadForCopy
    <3> HIDE DEF c
    <3> QED
      BY <2>2, <2>3, <3>1 DEF a
  <2>5. Goto(t, c)
    BY <2>1
  <2> HIDE DEF c
  <2>6. /\ call' \in [Threads -> ProperCalls] /\ call'[t] = c
        /\ \A u \in Threads \ {t} : call'[u] = call[u]
    BY <1>0, <2>4, <2>5, GotoEffect
  <2>7. CallOK(t)'
    BY <2>4, <2>6, CallElsewhere
  <2> QED
    BY <1>0, <2>2, <2>6, <2>7, OneCall
<1>10. ASSUME NEW t \in Threads, CopyCreates(t)
       PROVE  IInv'
  <2>1. call[t].dst \in Paths /\ call[t].isDirectory \in BOOLEAN
    BY <1>0, <1>10, CallFields DEF CopyCreates, At
  <2>2. NewFile(call[t].dst, call[t].isDirectory) /\ Return(t) /\ local' = local
    BY <1>10 DEF CopyCreates
  <2> QED
    BY <1>0, <2>1, <2>2, ReturnEffect, CreatingStep
<1>11. ASSUME NEW t \in Threads, CopyFails(t)
      PROVE  IInv'
  BY <1>0, <1>11, ReturnEffect, OneCall DEF CopyFails
<1>12. ASSUME NEW t \in Threads, ReadForDownload(t)
       PROVE  IInv'
  <2>1. PICK d \in ReadIsDirectory(metadata, call[t].node) :
           Goto(t, IF d THEN Idle ELSE [call[t] EXCEPT !.pc = "write"])
    BY <1>12 DEF ReadForDownload
  <2>2. /\ call[t].pc = "deref" /\ call[t].op \in Downloads
        /\ UNCHANGED <<metadata, allocs, created, removed, local>>
    BY <1>12 DEF ReadForDownload, At, Downloads
  <2> DEFINE a == call[t]
             e == [a EXCEPT !.pc = "write"]
             c == IF d THEN Idle ELSE e
  <2>3. a \in ProperCalls
    BY <1>0, CallFields
  <2>4. e \in ProperCalls /\ e.pc = "write"
    <3> HIDE DEF a
    <3>1. a \in ProperCalls /\ a.pc = "deref" /\ a.op \in Downloads => e \in ProperCalls /\ e.pc = "write"
      BY HasReadForDownload
    <3> HIDE DEF e
    <3> QED
      BY <2>2, <2>3, <3>1 DEF a
  <2>5. Goto(t, c)
    BY <2>1
  <2> HIDE DEF e
  <2>6. c \in ProperCalls /\ c.pc \in {"idle", "write"}
    BY <2>4, IdleOK
  <2> HIDE DEF c
  <2>7. /\ call' \in [Threads -> ProperCalls] /\ call'[t] = c
        /\ \A u \in Threads \ {t} : call'[u] = call[u]
    BY <1>0, <2>5, <2>6, GotoEffect
  <2>8. CallOK(t)'
    BY <2>6, <2>7, CallElsewhere
  <2> QED
    BY <1>0, <2>2, <2>7, <2>8, OneCall
<1>13. ASSUME NEW t \in Threads, WriteLocal(t)
       PROVE  IInv'
  <2> DEFINE a == call[t]
             e == [a EXCEPT !.pc = "delete"]
             c == IF a.op = "move_to_local" THEN e ELSE Idle
  <2>1. /\ a.pc = "write" /\ Goto(t, c) /\ local' = local \cup {a.disk}
        /\ UNCHANGED <<metadata, allocs, created, removed>>
    BY <1>13 DEF WriteLocal, At
  <2>2. a \in ProperCalls /\ a.disk \in LocalPaths
    BY <1>0, <2>1, CallFields
  <2>3. e \in ProperCalls /\ e.pc = "delete"
    <3> HIDE DEF a
    <3> QED
      BY <2>1, <2>2, HasWritten
  <2> HIDE DEF e
  <2>4. c \in ProperCalls /\ c.pc \in {"idle", "delete"}
    BY <2>3, IdleOK
  <2> HIDE DEF c
  <2>5. /\ call' \in [Threads -> ProperCalls] /\ call'[t] = c
        /\ \A u \in Threads \ {t} : call'[u] = call[u]
    BY <1>0, <2>1, <2>4, GotoEffect
  <2>6. CallOK(t)'
    BY <2>4, <2>5, CallElsewhere
  <2>7. local' \subseteq LocalPaths
    BY <1>0, <2>1, <2>2
  <2> QED
    BY <1>0, <2>1, <2>5, <2>6, <2>7, OneCall
<1>14. ASSUME NEW t \in Threads, WriteLocalFails(t)
      PROVE  IInv'
  BY <1>0, <1>14, ReturnEffect, OneCall DEF WriteLocalFails
<1>15. ASSUME NEW t \in Threads, MoveDeletes(t)
       PROVE  IInv'
  <2>1. call[t].path \in Paths
    BY <1>0, <1>15, CallFields DEF MoveDeletes, At
  <2>2. EraseFile(call[t].path) /\ Return(t) /\ local' = local
    BY <1>15 DEF MoveDeletes
  <2> QED
    BY <1>0, <2>1, <2>2, ReturnEffect, ErasingStep
<1>16. ASSUME NEW t \in Threads, MoveDeletesNothing(t)
      PROVE  IInv'
  BY <1>0, <1>16, ReturnEffect, OneCall DEF MoveDeletesNothing
<1>17. ASSUME NEW t \in Threads, FindLocal(t)
       PROVE  IInv'
  <2>1. PICK op \in Writers, l \in local, p \in Paths :
           Goto(t, [Idle EXCEPT !.op = op, !.pc = "upload", !.disk = l, !.dst = p])
    BY <1>17 DEF FindLocal
  <2> DEFINE c == [Idle EXCEPT !.op = op, !.pc = "upload", !.disk = l, !.dst = p]
  <2>2. c \in ProperCalls /\ c.pc = "upload"
    BY <1>0, StartUpload
  <2>3. Goto(t, c)
    BY <2>1
  <2> HIDE DEF c
  <2>4. /\ call' \in [Threads -> ProperCalls] /\ call'[t] = c
        /\ \A u \in Threads \ {t} : call'[u] = call[u]
    BY <1>0, <2>2, <2>3, GotoEffect
  <2>5. CallOK(t)'
    BY <2>2, <2>4, CallElsewhere
  <2>6. UNCHANGED <<metadata, allocs, created, removed, local>>
    BY <1>17 DEF FindLocal
  <2> QED
    BY <1>0, <2>4, <2>5, <2>6, OneCall
<1>18. ASSUME NEW t \in Threads, Upload(t)
       PROVE  IInv'
  <2> DEFINE a == call[t]
             f == created + 1
             e == [a EXCEPT !.pc = "unlink", !.file = f]
             c == IF a.op = "move_from_local" THEN e ELSE Idle
  <2>1. a.pc = "upload" /\ NewFile(a.dst, FALSE) /\ Goto(t, c) /\ local' = local
    BY <1>18 DEF Upload, At
  <2>2. a \in ProperCalls /\ a.dst \in Paths
    BY <1>0, <2>1, CallFields
  <2>3. f \in Nat /\ f \in 1 .. created'
    BY <1>0, <2>1, Bounds DEF NewFile
  <2>4. e \in ProperCalls /\ e.pc = "unlink" /\ e.file = f
    <3> HIDE DEF a, f
    <3> QED
      BY <2>1, <2>2, <2>3 DEF Calls, ProperCalls
  <2> HIDE DEF e, f
  <2>5. c \in ProperCalls /\ (c.pc = "idle" \/ (c.pc = "unlink" /\ c.file = f))
    BY <2>4, IdleOK
  <2> HIDE DEF c
  <2>6. /\ call' \in [Threads -> ProperCalls] /\ call'[t] = c
        /\ \A u \in Threads \ {t} : call'[u] = call[u]
    BY <1>0, <2>1, <2>5, GotoEffect
  <2>7. CallOK(t)'
    BY <2>3, <2>5, <2>6 DEF CallOK, PointerKnown, MovedWasCreated
  <2> QED
    BY <1>0, <2>1, <2>2, <2>6, <2>7, CreatingStep
<1>19. ASSUME NEW t \in Threads, UploadFails(t)
      PROVE  IInv'
  BY <1>0, <1>19, ReturnEffect, OneCall DEF UploadFails
<1>20. ASSUME NEW t \in Threads, Unlink(t)
       PROVE  IInv'
  BY <1>0, <1>20, ReturnEffect, OneCall DEF Unlink
<1>21. ASSUME NEW t \in Threads, UnlinkFails(t)
      PROVE  IInv'
  BY <1>0, <1>21, ReturnEffect, OneCall DEF UnlinkFails
<1> QED
  BY <1>1, <1>3, <1>4, <1>5, <1>6, <1>7, <1>8, <1>9, <1>10, <1>11, <1>12, <1>13, <1>14, <1>15,
     <1>16, <1>17, <1>18, <1>19, <1>20, <1>21 DEF Next

(* ------------------------------- theorems ------------------------------- *)

LEMMA Invariance == Spec => []IInv
BY InitInv, StepInv, PTL DEF Spec

\* The variables keep their types.
THEOREM TypeCorrect == Spec => []TypeOK
<1>1. IInv => TypeOK
  BY DEF IInv, TableInv, TableOK, CallsInv, ProperCalls, TypeOK
<1> QED
  BY <1>1, Invariance, PTL

\* The name node never files an entry under a path that is not the entry's.
THEOREM KeyMatchesPathHolds == Spec => []KeyMatchesPath
<1>1. IInv => KeyMatchesPath
  BY DEF IInv, TableInv
<1> QED
  BY <1>1, Invariance, PTL

\* Whatever the threads interleave, no file is lost and none is under two
\* paths.
THEOREM FilesConservedHolds == Spec => []FilesConserved
<1>1. IInv => FilesConserved
  BY DEF IInv, TableInv
<1> QED
  BY <1>1, Invariance, PTL

\* move_from_local deletes a local file only after the DFS has an entry for it.
THEOREM MovedIsStoredHolds == Spec => []MovedIsStored
<1>1. IInv => MovedIsStored
  <2> SUFFICES ASSUME IInv, NEW t \in Threads, call[t].pc = "unlink"
               PROVE  call[t].file \in removed \cup {metadata[p].file : p \in Live}
    BY DEF MovedIsStored
  <2>1. call[t].file \in 1 .. created
    BY DEF IInv, CallsInv, CallOK, MovedWasCreated
  <2> QED
    BY <2>1 DEF IInv, TableInv, FilesConserved
<1> QED
  BY <1>1, Invariance, PTL

(* ------------------------------ refinement ------------------------------ *)

\* What is known to the refinement about a path and the file under it.
LEMMA FileIsOne ==
    ASSUME TableInv, NEW p \in Live
    PROVE  metadata[p].file \in Nat /\ metadata[p].file # 0
<1>1. metadata[p].file \in 1 .. created
  BY LiveFile DEF TableInv
<1> QED
  BY <1>1, Bounds DEF TableInv

LEMMA CreatesAName ==
    ASSUME TableInv, NEW p \in Paths, NEW d \in BOOLEAN, NewFile(p, d)
    PROVE  Names!Create(p)
<1>1. /\ Live' = Live \cup {p} /\ p \notin Live
      /\ \A q \in Live : metadata'[q] = metadata[q]
      /\ metadata'[p].file = created + 1 /\ created' = created + 1
  BY NewFileShape DEF TableInv
<1> QED
  BY <1>1 DEF Names!Create, Live

LEMMA RemovesAName ==
    ASSUME TableInv, NEW p \in Paths, EraseFile(p)
    PROVE  Names!Remove(p)
<1>1. /\ Live' = Live \ {p} /\ p \in Live /\ created' = created
      /\ \A q \in Live' : metadata'[q] = metadata[q]
  BY EraseFileShape
<1> QED
  BY <1>1, FileIsOne DEF Names!Remove, Live

LEMMA MovesAName ==
    ASSUME TableInv, NEW p \in Paths, NEW q \in Paths, Renamed(p, q)
    PROVE  Names!Move(p, q)
<1>1. /\ p \in Live /\ q \notin Live /\ p # q /\ Live' = (Live \ {p}) \cup {q}
      /\ \A r \in Live \ {p} : metadata'[r] = metadata[r]
      /\ metadata'[q].file = metadata[p].file /\ created' = created
  BY RenameShape DEF TableInv
<1> QED
  BY <1>1, FileIsOne DEF Names!Move, Live

\* A step that touches the table is one of these three.
LEMMA TableSteps ==
    ASSUME IInv, [Next]_vars, ~ UNCHANGED <<metadata, created>>
    PROVE  \/ \E p \in Paths, d \in BOOLEAN : NewFile(p, d)
           \/ \E p \in Paths : EraseFile(p)
           \/ \E p, q \in Paths : Renamed(p, q)
<1>1. PICK t \in Threads :
         \/ Create(t) \/ Remove(t) \/ Rename(t)
         \/ CopyCreates(t) \/ MoveDeletes(t) \/ Upload(t)
  BY DEF Next, vars, GetMetadata, ReadAndReturn, ReadKind, ReadForCopy, CopyFails,
     ReadForDownload, WriteLocal, WriteLocalFails, MoveDeletesNothing, FindLocal, UploadFails,
     Unlink, UnlinkFails
<1>2. /\ call[t].isDirectory \in BOOLEAN
      /\ call[t].pc = "create" => call[t].dst \in Paths
      /\ call[t].pc = "delete" => call[t].path \in Paths
      /\ call[t].pc = "upload" => call[t].dst \in Paths
  BY CallFields DEF IInv, CallsInv
<1>3. CASE Create(t)
  BY <1>3 DEF Create
<1>4. CASE Remove(t)
  BY <1>4 DEF Remove
<1>5. CASE Rename(t)
  BY <1>5 DEF Rename, Renamed
<1>6. CASE CopyCreates(t)
  BY <1>2, <1>6 DEF CopyCreates, At
<1>7. CASE MoveDeletes(t)
  BY <1>2, <1>7 DEF MoveDeletes, At
<1>8. CASE Upload(t)
  BY <1>2, <1>8 DEF Upload, At
<1> QED
  BY <1>1, <1>3, <1>4, <1>5, <1>6, <1>7, <1>8

\* The steps that touch no entry are none of the name space's.
LEMMA Stutters ==
    ASSUME UNCHANGED <<metadata, created>>
    PROVE  UNCHANGED <<[p \in Paths |-> IF Has(metadata, p) THEN metadata[p].file ELSE 0], created>>
BY DEF Has

\* The operations of the file system implement an atomic name space.
THEOREM Refinement == Spec => ImplementsNamespace
<1>1. Init => Names!Init
  BY DEF Init, EmptyTable, Has, Names!Init
<1>2. IInv /\ [Next]_vars => [Names!Next]_<<[p \in Paths |-> IF Has(metadata, p) THEN metadata[p].file ELSE 0], created>>
  <2> SUFFICES ASSUME IInv, [Next]_vars,
                      ~ UNCHANGED <<[p \in Paths |-> IF Has(metadata, p) THEN metadata[p].file ELSE 0], created>>
               PROVE  Names!Next
    OBVIOUS
  <2>1. ~ UNCHANGED <<metadata, created>>
    BY Stutters
  <2> QED
    BY <2>1, TableSteps, CreatesAName, RemovesAName, MovesAName DEF IInv, Names!Next
<1> QED
  BY <1>1, <1>2, Invariance, PTL DEF Spec, ImplementsNamespace, Names!Spec

(* ----------------------------- dangling pointers ------------------------ *)

\* An entry never changes: it stays as it is or goes.
LEMMA EntriesStay ==
    ASSUME IInv, [Next]_vars, NEW p \in Live
    PROVE  metadata'[p] = metadata[p] \/ metadata'[p] = Absent
<1>1. CASE UNCHANGED <<metadata, created>>
  BY <1>1
<1>2. ASSUME NEW q \in Paths, NEW d \in BOOLEAN, NewFile(q, d)
      PROVE  metadata'[p] = metadata[p]
  BY <1>2, NewFileShape DEF IInv, TableInv
<1>3. ASSUME NEW q \in Paths, EraseFile(q)
      PROVE  metadata'[p] = metadata[p] \/ metadata'[p] = Absent
  BY <1>3 DEF EraseFile, DeleteFile, IInv, TableInv, TableOK, Tables
<1>4. ASSUME NEW q \in Paths, NEW r \in Paths, Renamed(q, r)
      PROVE  metadata'[p] = metadata[p] \/ metadata'[p] = Absent
  BY <1>4, RenameShape DEF IInv, TableInv
<1> QED
  BY <1>1, <1>2, <1>3, <1>4, TableSteps

\* A pointer of get_metadata dangles only once its file was removed or renamed.
THEOREM DanglesOnlyByRemovalHolds == Spec => DanglesOnlyByRemoval
<1> DEFINE Dangles ==
      \A t \in Threads :
         /\ call[t].pc = "deref" /\ call'[t] = call[t]
         /\ \E p \in Live : metadata[p].node = call[t].node
         /\ \A p \in Paths : Has(metadata', p) => metadata'[p].node # call[t].node
         => \E p \in Live : /\ metadata[p].file = call[t].file
                            /\ metadata'[p] = Absent
<1>1. IInv /\ [Next]_vars => [Dangles]_vars
  <2> SUFFICES ASSUME IInv, [Next]_vars, NEW t \in Threads, call[t].pc = "deref",
                      NEW p \in Live, metadata[p].node = call[t].node,
                      \A q \in Paths : Has(metadata', q) => metadata'[q].node # call[t].node
               PROVE  metadata[p].file = call[t].file /\ metadata'[p] = Absent
    OBVIOUS
  <2>1. metadata[p].file = call[t].file
    BY DEF IInv, CallsInv, CallOK, PointerKnown
  <2>2. metadata'[p] = metadata[p] \/ metadata'[p] = Absent
    BY EntriesStay
  <2> QED
    BY <2>1, <2>2 DEF Live, Has
<1> QED
  BY <1>1, Invariance, PTL DEF Spec, DanglesOnlyByRemoval

(* ------------------------------- a program ------------------------------ *)

HostPorts == STRING \X Nat

NameNodes == [dataNodes : Seq(STRING), replication : Nat]

\* A program asks for the file system of its name node and for local ones, in
\* any order and again after a failure, and calls the name node.  (The state
\* of DataNodes is that of one name node.)
ProgramNext ==
    \/ \E key \in HostPorts : GetKept(key) \/ GetLocal(key)
    \/ \E key \in HostPorts, nameNode \in NameNodes :
          /\ \A k \in DOMAIN filesystems : k[1] = "localhost"
          /\ GetDistributed(key, nameNode)
    \/ DistributedThrows \/ DistributedRegisters \/ DistributedMade
    \/ NameNodeCall /\ UNCHANGED providerVars

programVars == <<providerVars, dataNodesVars>>

ProgramSpec == ProviderInit /\ DataNodesInit /\ [][ProgramNext]_programVars

(* ------------------------------ the provider ---------------------------- *)

\* While a distributed file system is constructed no other one is kept, and
\* the numbers of those that are kept were given before.
Kept ==
    /\ made \in Nat
    /\ pending # NoKey =>
          /\ state = "new" /\ pending \notin DOMAIN filesystems
          /\ \A key \in DOMAIN filesystems : key[1] = "localhost"
    /\ KeptAreConstructed

LEMMA KeptInit == ProviderInit => Kept
BY DEF ProviderInit, Kept, KeptAreConstructed

\* What is kept from now on has a number of its own.
LEMMA KeepOk ==
    ASSUME Kept, NEW key, key \notin DOMAIN filesystems, made' = made + 1, Keep(key, made'),
           Give(key, made'), pending' = NoKey,
           \A k \in DOMAIN filesystems \cup {key} : k[1] # "localhost" => state' = "ready"
    PROVE  Kept'
<1>1. /\ made \in Nat /\ made' \in Nat /\ made' \in 1 .. made'
      /\ \A n \in 1 .. made : n \in 1 .. made' /\ n # made'
  BY DEF Kept
<1>2. /\ DOMAIN filesystems' = DOMAIN filesystems \cup {key}
      /\ filesystems'[key] = made'
      /\ \A k \in DOMAIN filesystems : filesystems'[k] = filesystems[k]
  BY DEF Keep
<1>3. \A k \in DOMAIN filesystems : filesystems[k] \in 1 .. made
  BY DEF Kept, KeptAreConstructed
<1>4. \A j, k \in DOMAIN filesystems : filesystems[j] = filesystems[k] => j = k
  BY DEF Kept, KeptAreConstructed
<1>5. \A j, k \in DOMAIN filesystems' : filesystems'[j] = filesystems'[k] => j = k
  BY <1>1, <1>2, <1>3, <1>4
<1>6. \A k \in DOMAIN filesystems' : filesystems'[k] \in 1 .. made'
  BY <1>1, <1>2, <1>3
<1>7. given'.key \in DOMAIN filesystems' /\ given'.object = filesystems'[given'.key]
  BY <1>2 DEF Give
<1> QED BY <1>1, <1>2, <1>5, <1>6, <1>7 DEF Kept, KeptAreConstructed

LEMMA KeptNext == Kept /\ [ProgramNext]_programVars => Kept'
<1> SUFFICES ASSUME Kept, [ProgramNext]_programVars PROVE Kept'
  OBVIOUS
<1>1. CASE UNCHANGED programVars
  BY <1>1 DEF programVars, providerVars, dataNodesVars, Kept, KeptAreConstructed
<1>2. ASSUME NEW key \in HostPorts, GetKept(key) PROVE Kept'
  BY <1>2 DEF GetKept, Give, dataNodesVars, Kept, KeptAreConstructed
<1>3. ASSUME NEW key \in HostPorts, GetLocal(key) PROVE Kept'
  <2>1. /\ key \notin DOMAIN filesystems /\ key[1] = "localhost" /\ made' = made + 1
        /\ Keep(key, made') /\ Give(key, made') /\ pending' = NoKey /\ state' = state
    BY <1>3 DEF GetLocal, dataNodesVars
  <2>2. \A k \in DOMAIN filesystems \cup {key} : k[1] # "localhost" => state' = "ready"
    BY <2>1 DEF Kept, KeptAreConstructed
  <2> QED BY <2>1, <2>2, KeepOk
<1>4. ASSUME NEW key \in HostPorts, NEW nameNode \in NameNodes, GetDistributed(key, nameNode),
             \A k \in DOMAIN filesystems : k[1] = "localhost"
      PROVE  Kept'
  BY <1>4 DEF GetDistributed, Construct, Kept, KeptAreConstructed
<1>5. CASE DistributedThrows
  BY <1>5 DEF DistributedThrows, Throw, Kept, KeptAreConstructed
<1>6. CASE DistributedRegisters
  BY <1>6 DEF DistributedRegisters, RegisterConfigured, providerVars, Kept, KeptAreConstructed
<1>7. CASE DistributedMade
  <2>1. /\ pending # NoKey /\ state' = "ready" /\ made' = made + 1
        /\ Keep(pending, made') /\ Give(pending, made') /\ pending' = NoKey
    BY <1>7 DEF DistributedMade, Constructed
  <2>2. pending \notin DOMAIN filesystems
    BY <2>1 DEF Kept
  <2> QED BY <2>1, <2>2, KeepOk
<1>8. CASE NameNodeCall /\ UNCHANGED providerVars
  <2>1. state' = state
    BY <1>8 DEF NameNodeCall, RegisterDataNode, UpdateHeartbeat, Select
  <2> QED BY <1>8, <2>1 DEF providerVars, Kept, KeptAreConstructed
<1> QED BY <1>1, <1>2, <1>3, <1>4, <1>5, <1>6, <1>7, <1>8 DEF ProgramNext

\* get returns the file system that is kept for a host and port, the same to
\* all who ask, constructed to the end; no two hosts and ports share one.
THEOREM KeptAreConstructedHolds == ProgramSpec => []KeptAreConstructed
<1>1. Kept => KeptAreConstructed
  BY DEF Kept
<1> QED BY <1>1, KeptInit, KeptNext, PTL DEF ProgramSpec

(* ----------------------------- the data nodes --------------------------- *)

NodeRecords ==
    [node_name : Ids \cup {NoName}, host : Hosts \cup STRING, capacity : Capacities,
     used_space : Capacities \cup {0}, is_alive : BOOLEAN]

\* No two nodes have the same name.
Named(S) == \A m, n \in S : m.node_name = n.node_name => m = n

NodesOk ==
    /\ config \in NameNodes
    /\ next \in Nat \ {0}
    /\ nodes \subseteq NodeRecords
    /\ IsFiniteSet(nodes)
    /\ Named(nodes)

LEMMA NodesInit == DataNodesInit => NodesOk
<1> SUFFICES ASSUME DataNodesInit PROVE NodesOk
  OBVIOUS
<1>1. IsFiniteSet(nodes) /\ nodes \subseteq NodeRecords /\ Named(nodes)
  BY FS_EmptySet DEF DataNodesInit, Named
<1>2. config \in NameNodes
  <2>1. <<>> \in Seq(STRING) /\ 0 \in Nat
    OBVIOUS
  <2> QED BY <2>1 DEF DataNodesInit, NoConfig, NameNodes
<1> QED BY <1>1, <1>2 DEF NodesOk, DataNodesInit

\* The node that registers replaces the one of its name.
LEMMA RegisterOk ==
    ASSUME NodesOk, NEW node \in NodeRecords, Register(node)
    PROVE  nodes' \subseteq NodeRecords /\ IsFiniteSet(nodes') /\ Named(nodes')
<1> DEFINE others == {n \in nodes : n.node_name # node.node_name}
<1>1. nodes' = others \cup {node}
  BY DEF Register
<1>2. IsFiniteSet(others \cup {node})
  <2>1. others \subseteq nodes /\ IsFiniteSet(nodes)
    BY DEF NodesOk
  <2>2. IsFiniteSet(others)
    BY <2>1, FS_Subset
  <2> QED BY <2>2, FS_AddElement
<1>3. Named(others \cup {node})
  BY DEF NodesOk, Named
<1>4. others \cup {node} \subseteq NodeRecords
  BY DEF NodesOk
<1> QED BY <1>1, <1>2, <1>3, <1>4

\* A heartbeat changes no name.
LEMMA HeartbeatOk ==
    ASSUME NodesOk, NEW id,
           nodes' = {IF n.node_name = id THEN [n EXCEPT !.is_alive = TRUE] ELSE n : n \in nodes}
    PROVE  nodes' \subseteq NodeRecords /\ IsFiniteSet(nodes') /\ Named(nodes')
<1> DEFINE after(n) == IF n.node_name = id THEN [n EXCEPT !.is_alive = TRUE] ELSE n
           f == [n \in nodes |-> after(n)]
<1>1. \A n \in nodes : n \in NodeRecords
  BY DEF NodesOk
<1>2. \A n \in nodes : after(n) \in NodeRecords /\ after(n).node_name = n.node_name
  BY <1>1 DEF NodeRecords
<1>3. nodes' = {after(n) : n \in nodes}
  OBVIOUS
<1> HIDE DEF after
<1>4. f \in Surjection(nodes, nodes')
  BY <1>3 DEF Surjection
<1>5. IsFiniteSet(nodes')
  <2>1. IsFiniteSet(nodes)
    BY DEF NodesOk
  <2> QED BY <1>4, <2>1, FS_Surjection
<1>6. Named(nodes')
  <2> SUFFICES ASSUME NEW m \in nodes, NEW n \in nodes, after(m).node_name = after(n).node_name
               PROVE  after(m) = after(n)
    BY <1>3 DEF Named
  <2> QED BY <1>2 DEF NodesOk, Named
<1>7. nodes' \subseteq NodeRecords
  BY <1>2, <1>3
<1> QED BY <1>5, <1>6, <1>7

LEMMA NodesNext == NodesOk /\ [ProgramNext]_programVars => NodesOk'
<1> SUFFICES ASSUME NodesOk, [ProgramNext]_programVars PROVE NodesOk'
  OBVIOUS
<1>1. CASE UNCHANGED <<config, next, nodes>>
  BY <1>1 DEF NodesOk
<1>2. ASSUME NEW key, NEW nameNode \in NameNodes, GetDistributed(key, nameNode) PROVE NodesOk'
  BY <1>2, FS_EmptySet DEF GetDistributed, Construct, NodesOk, Named
<1>3. CASE RegisterConfigured
  <2>0. PICK capacity \in Capacities :
           Register([node_name |-> NoName, host |-> config.dataNodes[next],
                     capacity |-> capacity, used_space |-> 0, is_alive |-> TRUE])
    BY <1>3 DEF RegisterConfigured
  <2>1. PICK node :
           /\ node = [node_name |-> NoName, host |-> config.dataNodes[next],
                      capacity |-> capacity, used_space |-> 0, is_alive |-> TRUE]
           /\ Register(node)
    BY <2>0
  <2>2. config.dataNodes[next] \in STRING
    <3>1. PICK q \in Seq(STRING) : q = config.dataNodes
      BY DEF NodesOk, NameNodes
    <3>2. next \in 1 .. Len(q)
      BY <1>3, <3>1 DEF RegisterConfigured, NodesOk
    <3> QED BY <3>1, <3>2, ElementOfSeq
  <2>3. node \in NodeRecords
    BY <2>1, <2>2 DEF NodeRecords
  <2>4. nodes' \subseteq NodeRecords /\ IsFiniteSet(nodes') /\ Named(nodes')
    BY <2>1, <2>3, RegisterOk
  <2> QED BY <1>3, <2>4 DEF RegisterConfigured, NodesOk
<1>4. CASE RegisterDataNode
  <2>1. PICK node \in NodeRecords : Register(node)
    <3>1. PICK id \in Ids, host \in Hosts, capacity \in Capacities, used \in Capacities,
               alive \in BOOLEAN :
             Register([node_name |-> id, host |-> host, capacity |-> capacity,
                       used_space |-> used, is_alive |-> alive])
      BY <1>4 DEF RegisterDataNode
    <3>2. [node_name |-> id, host |-> host, capacity |-> capacity,
           used_space |-> used, is_alive |-> alive] \in NodeRecords
      BY DEF NodeRecords
    <3> QED BY <3>1, <3>2
  <2>2. nodes' \subseteq NodeRecords /\ IsFiniteSet(nodes') /\ Named(nodes')
    BY <2>1, RegisterOk
  <2> QED BY <1>4, <2>2 DEF RegisterDataNode, NodesOk
<1>5. CASE UpdateHeartbeat
  <2>1. PICK id :
           nodes' = {IF n.node_name = id THEN [n EXCEPT !.is_alive = TRUE] ELSE n : n \in nodes}
    BY <1>5 DEF UpdateHeartbeat
  <2>2. nodes' \subseteq NodeRecords /\ IsFiniteSet(nodes') /\ Named(nodes')
    BY <2>1, HeartbeatOk
  <2> QED BY <1>5, <2>2 DEF UpdateHeartbeat, NodesOk
<1>6. CASE UNCHANGED programVars
  BY <1>1, <1>6 DEF programVars, dataNodesVars
<1>7. ASSUME NEW key, GetKept(key) \/ GetLocal(key) PROVE NodesOk'
  BY <1>1, <1>7 DEF GetKept, GetLocal, dataNodesVars
<1>8. CASE DistributedThrows \/ DistributedMade \/ Select
  BY <1>1, <1>8 DEF DistributedThrows, Throw, DistributedMade, Constructed, Select
<1>9. CASE DistributedRegisters
  BY <1>3, <1>9 DEF DistributedRegisters
<1> QED BY <1>2, <1>4, <1>5, <1>6, <1>7, <1>8, <1>9 DEF ProgramNext, NameNodeCall

\* An order of all nodes of a set has each of them once.
LEMMA SortedFacts ==
    ASSUME NEW S, IsFiniteSet(S), NEW q \in Sorted(S)
    PROVE  /\ q \in Seq(S) /\ Len(q) = Cardinality(S) /\ Cardinality(S) \in Nat
           /\ S = {q[i] : i \in 1 .. Len(q)}
           /\ \A i, j \in 1 .. Len(q) : q[i] = q[j] => i = j
           /\ \A i, j \in 1 .. Len(q) : i < j => Free(q[i]) >= Free(q[j])
<1>1. PICK n \in Nat : n = Cardinality(S)
  BY FS_CardinalityType
<1>2. /\ q \in [1 .. n -> S] /\ S = {q[i] : i \in DOMAIN q}
      /\ \A i, j \in DOMAIN q : i < j => Free(q[i]) >= Free(q[j])
  BY <1>1 DEF Sorted
<1>3. q \in Seq(S) /\ Len(q) = n /\ DOMAIN q = 1 .. n
  BY <1>2
<1>4. q \in Surjection(1 .. n, S)
  BY <1>2, <1>3 DEF Surjection
<1>5. IsFiniteSet(1 .. n) /\ Cardinality(1 .. n) = n
  BY FS_Interval
<1>6. q \in Injection(1 .. n, S)
  BY <1>1, <1>4, <1>5, FS_SurjSameCardinalityImpliesInj
<1>7. \A i, j \in 1 .. n : q[i] = q[j] => i = j
  BY <1>3, <1>6 DEF Injection, IsInjective
<1> QED BY <1>1, <1>2, <1>3, <1>7

\* r are the best nodes of S when so many are wanted.
BestOf(S, wanted, r) ==
    LET picked == {r[i] : i \in DOMAIN r}
    IN  /\ picked \subseteq S
        /\ \A i, j \in DOMAIN r : r[i].node_name = r[j].node_name => i = j
        /\ Len(r) = IF Cardinality(S) < wanted THEN Cardinality(S) ELSE wanted
        /\ \A m \in picked, n \in S \ picked : Free(m) >= Free(n)

LEMMA FirstAreBest ==
    ASSUME NEW S, IsFiniteSet(S), Named(S), NEW q \in Sorted(S), NEW wanted \in Nat,
           Len(q) > wanted,
           NEW r, DOMAIN r = 1 .. wanted, Len(r) = wanted, \A i \in 1 .. wanted : r[i] = q[i]
    PROVE  BestOf(S, wanted, r)
<1>1. PICK n \in Nat : n = Len(q) /\ n = Cardinality(S)
  BY SortedFacts
<1>2. /\ S = {q[i] : i \in 1 .. n}
      /\ \A i, j \in 1 .. n : q[i] = q[j] => i = j
      /\ \A i, j \in 1 .. n : i < j => Free(q[i]) >= Free(q[j])
  BY <1>1, SortedFacts
<1>3. \A i, j \in 1 .. n : q[i].node_name = q[j].node_name => i = j
  BY <1>2 DEF Named
<1>4. n > wanted /\ \A i \in 1 .. wanted : i \in 1 .. n
  BY <1>1
<1>5. {r[i] : i \in DOMAIN r} = {q[i] : i \in 1 .. wanted}
  OBVIOUS
<1>6. ASSUME NEW m \in {q[i] : i \in 1 .. wanted}, NEW x \in S \ {q[i] : i \in 1 .. wanted}
      PROVE  Free(m) >= Free(x)
  <2>1. PICK i \in 1 .. wanted : m = q[i]
    OBVIOUS
  <2>2. PICK j \in 1 .. n : x = q[j] /\ j \notin 1 .. wanted
    BY <1>2
  <2>3. i \in 1 .. n /\ i < j
    BY <1>4, <2>2
  <2> QED BY <1>2, <2>1, <2>2, <2>3
<1>7. \A i, j \in DOMAIN r : r[i].node_name = r[j].node_name => i = j
  BY <1>3, <1>4
<1>8. {q[i] : i \in 1 .. wanted} \subseteq S
  BY <1>2, <1>4
<1>9. Len(r) = IF Cardinality(S) < wanted THEN Cardinality(S) ELSE wanted
  BY <1>1, <1>4
<1> QED BY <1>5, <1>6, <1>7, <1>8, <1>9 DEF BestOf

LEMMA AllAreBest ==
    ASSUME NEW S, IsFiniteSet(S), Named(S), NEW q \in Sorted(S), NEW wanted \in Nat,
           ~(Len(q) > wanted)
    PROVE  BestOf(S, wanted, q)
<1>1. PICK n \in Nat : n = Len(q) /\ n = Cardinality(S)
  BY SortedFacts
<1>2. /\ S = {q[i] : i \in 1 .. n} /\ DOMAIN q = 1 .. n
      /\ \A i, j \in 1 .. n : q[i] = q[j] => i = j
  BY <1>1, SortedFacts
<1>3. \A i, j \in 1 .. n : q[i].node_name = q[j].node_name => i = j
  BY <1>2 DEF Named
<1>4. Len(q) = IF Cardinality(S) < wanted THEN Cardinality(S) ELSE wanted
  BY <1>1
<1> QED BY <1>2, <1>3, <1>4 DEF BestOf

LEMMA SelectionsAreBest ==
    ASSUME NodesOk, NEW count \in Nat, NEW wanted \in Nat,
           wanted = IF count = 0 THEN config.replication ELSE count,
           NEW r \in Selections(count)
    PROVE  BestOf(Alive, wanted, r)
<1>1. IsFiniteSet(Alive) /\ Named(Alive)
  <2>1. Alive \subseteq nodes
    BY DEF Alive
  <2> QED BY <2>1, FS_Subset DEF NodesOk, Named
<1>2. PICK q \in Sorted(Alive) : r = IF Len(q) > wanted THEN SubSeq(q, 1, wanted) ELSE q
  BY DEF Selections
<1>3. q \in Seq(Alive) /\ Len(q) \in Nat
  BY <1>1, SortedFacts
<1>4. CASE Len(q) > wanted
  <2> DEFINE s == SubSeq(q, 1, wanted)
  <2>1. Len(s) = wanted /\ DOMAIN s = 1 .. wanted /\ \A i \in 1 .. wanted : s[i] = q[i]
    BY <1>3, <1>4
  <2> HIDE DEF s
  <2>2. BestOf(Alive, wanted, s)
    BY <1>1, <1>4, <2>1, FirstAreBest
  <2>3. r = s
    BY <1>2, <1>4 DEF s
  <2> QED BY <2>2, <2>3
<1>5. CASE ~(Len(q) > wanted)
  <2>1. r = q
    BY <1>2, <1>5
  <2> QED BY <1>1, <1>5, <2>1, AllAreBest
<1> QED BY <1>4, <1>5

\* A write goes to as many nodes as it asked for (or all that are alive), alive
\* and of different names, however many data nodes registered; and of those
\* that use no more than they have none that was left out has more free space
\* than one that was chosen.  A node that uses more than it has is exempt: its
\* free space wraps, and the code puts it first.
THEOREM SelectIsBestHolds == ProgramSpec => SelectIsBest
<1> DEFINE wanted == IF asked' = 0 THEN config.replication ELSE asked'
<1>1. ASSUME NodesOk, Select PROVE BestOf(Alive, wanted, chosen')
  <2>1. PICK count \in 0 .. Cardinality(Ids) + 1 : asked' = count /\ chosen' \in Selections(count)
    BY <1>1 DEF Select
  <2>2. PICK r : r = chosen'
    OBVIOUS
  <2>3. count \in Nat /\ config.replication \in Nat
    BY <1>1 DEF NodesOk, NameNodes
  <2>4. PICK w \in Nat : w = IF count = 0 THEN config.replication ELSE count
    BY <2>3
  <2>5. BestOf(Alive, w, r)
    BY <1>1, <2>1, <2>2, <2>3, <2>4, SelectionsAreBest
  <2> QED BY <2>1, <2>2, <2>4, <2>5
<1>2. NodesOk =>
        [Select =>
           LET wanted_ == IF asked' = 0 THEN config.replication ELSE asked'
               picked == {chosen'[i] : i \in DOMAIN chosen'}
           IN  /\ picked \subseteq Alive
               /\ \A i, j \in DOMAIN chosen' :
                     chosen'[i].node_name = chosen'[j].node_name => i = j
               /\ Len(chosen') = IF Cardinality(Alive) < wanted_ THEN Cardinality(Alive) ELSE wanted_
               /\ \A m \in picked, n \in Alive \ picked :
                     WithinCapacity(m) /\ WithinCapacity(n) => Free(m) >= Free(n)]_dataNodesVars
  BY <1>1 DEF BestOf
<1> QED BY <1>2, NodesInit, NodesNext, PTL DEF ProgramSpec, SelectIsBest
=============================================================================
