--------------------------- MODULE DistributedFs ---------------------------
(***************************************************************************)
(* The file operations of fs::distributed_file_system                     *)
(* (fs/distributed_file_system.cpp), called by several threads.  An       *)
(* operation is one step where it calls the name node once and looks at   *)
(* nothing else, and several where it goes on after the name node gave    *)
(* its mutex back: those read through the pointer of get_metadata, or     *)
(* touch the local disk.  No operation takes the path locks of DfsLocks.  *)
(***************************************************************************)
EXTENDS NameNode

CONSTANTS Threads,
          LocalPaths,  \* paths of the local disk
          MaxAllocs    \* bound: nodes the table allocates

ASSUME FsAssumption == MaxAllocs \in Nat

VARIABLES metadata,  \* m_metadata of the name node
          allocs,    \* nodes allocated so far
          created,   \* files created so far
          removed,   \* files removed
          local,     \* files of the local disk
          call       \* what each thread is doing

vars == <<metadata, allocs, created, removed, local, call>>

(***************************************************************************)
(* A call: the operation, where it is (`pc'), its paths, and what it has  *)
(* learnt: the pointer, what it read through it, and, only to state       *)
(* properties, the file it was about when it started and what that file    *)
(* was.  What is_directory returned stays in `isDirectory'.                *)
(***************************************************************************)
Readers == {"open", "is_directory", "size", "copy", "copy_to_local", "move_to_local"}
Writers == {"copy_from_local", "move_from_local"}

Calls == [op : Readers \cup Writers \cup {"none"},
          pc : {"idle", "deref", "create", "write", "delete", "upload", "unlink"},
          path : Paths \cup {NoPath}, dst : Paths \cup {NoPath}, disk : LocalPaths \cup {NoPath},
          node : Nat, isDirectory : BOOLEAN, file : Nat, truth : BOOLEAN]

Idle == [op |-> "none", pc |-> "idle", path |-> NoPath, dst |-> NoPath, disk |-> NoPath,
         node |-> 0, isDirectory |-> FALSE, file |-> 0, truth |-> FALSE]

Init ==
    /\ metadata = EmptyTable
    /\ allocs = 0
    /\ created = 0
    /\ removed = {}
    /\ local \in SUBSET LocalPaths
    /\ call = [t \in Threads |-> Idle]

At(t, pc) == call[t].pc = pc

Goto(t, c) == call' = [call EXCEPT ![t] = c]

Return(t) == Goto(t, Idle)

(* --------------------------- calls of the name node --------------------- *)

\* (Wrong on purpose: a table whose entries move when one is added.)
NewFileRehashes(p, isDirectory) ==
    /\ ~Has(metadata, p)
    /\ allocs < MaxAllocs
    /\ allocs' = allocs + 1
    /\ created' = created + 1
    /\ metadata' = [q \in Paths |->
                      IF q = p
                        THEN [path |-> p, isDirectory |-> isDirectory,
                              node |-> allocs + 1, file |-> created + 1]
                        ELSE IF Has(metadata, q) THEN [metadata[q] EXCEPT !.node = @ + MaxAllocs]
                        ELSE Absent]
    /\ UNCHANGED removed

\* (Wrong on purpose: a file that exists is replaced.)
NewFileOverwrites(p, isDirectory) ==
    /\ allocs < MaxAllocs
    /\ allocs' = allocs + 1
    /\ created' = created + 1
    /\ metadata' = CreateFile(metadata, p, isDirectory, allocs + 1, created + 1)
    /\ UNCHANGED removed

NewFile(p, isDirectory) ==
    /\ ~Has(metadata, p)
    /\ allocs < MaxAllocs
    /\ allocs' = allocs + 1
    /\ created' = created + 1
    /\ metadata' = CreateFile(metadata, p, isDirectory, allocs + 1, created + 1)
    /\ UNCHANGED removed

EraseFile(p) ==
    /\ Has(metadata, p)
    /\ metadata' = DeleteFile(metadata, p)
    /\ removed' = removed \cup {metadata[p].file}
    /\ UNCHANGED <<allocs, created>>

(* -------------------------- operations of one step ---------------------- *)

\* create(path) and mkdir(path)
Create(t) ==
    /\ At(t, "idle")
    /\ \E p \in Paths, isDirectory \in BOOLEAN : NewFile(p, isDirectory)
    /\ UNCHANGED <<local, call>>

\* remove(path)
Remove(t) ==
    /\ At(t, "idle")
    /\ \E p \in Paths : EraseFile(p)
    /\ UNCHANGED <<local, call>>

\* rename(old_path, new_path) and move(src, dst)
Rename(t) ==
    /\ At(t, "idle")
    /\ allocs < MaxAllocs
    /\ \E p, q \in Paths :
         /\ Has(metadata, p)
         /\ ~Has(metadata, q)
         /\ metadata' = RenameFile(metadata, p, q, allocs + 1)
    /\ allocs' = allocs + 1
    /\ UNCHANGED <<created, removed, local, call>>

(* ---------------- operations that use get_metadata's pointer ------------ *)

\* get_metadata found an entry; without one the operation returns at once.
GetMetadata(t) ==
    /\ At(t, "idle")
    /\ \E op \in Readers, p \in Paths :
         /\ Has(metadata, p)
         /\ \E dst \in IF op = "copy" THEN Paths ELSE {NoPath},
               disk \in IF op \in {"copy_to_local", "move_to_local"} THEN LocalPaths ELSE {NoPath} :
              Goto(t, [Idle EXCEPT !.op = op, !.pc = "deref", !.path = p, !.dst = dst,
                                   !.disk = disk, !.node = metadata[p].node,
                                   !.file = metadata[p].file,
                                   !.truth = metadata[p].isDirectory])
    /\ UNCHANGED <<metadata, allocs, created, removed, local>>

\* open and size read through the pointer and return.
ReadAndReturn(t) ==
    /\ At(t, "deref")
    /\ call[t].op \in {"open", "size"}
    /\ Return(t)
    /\ UNCHANGED <<metadata, allocs, created, removed, local>>

\* is_directory returns what it reads.
ReadKind(t) ==
    /\ At(t, "deref")
    /\ call[t].op = "is_directory"
    /\ \E d \in ReadIsDirectory(metadata, call[t].node) :
         Goto(t, [call[t] EXCEPT !.pc = "idle", !.isDirectory = d])
    /\ UNCHANGED <<metadata, allocs, created, removed, local>>

\* copy goes on to create the destination, of the kind it read.
ReadForCopy(t) ==
    /\ At(t, "deref")
    /\ call[t].op = "copy"
    /\ \E d \in ReadIsDirectory(metadata, call[t].node) :
         Goto(t, [call[t] EXCEPT !.pc = "create", !.isDirectory = d])
    /\ UNCHANGED <<metadata, allocs, created, removed, local>>

CopyCreates(t) ==
    /\ At(t, "create")
    /\ NewFile(call[t].dst, call[t].isDirectory)
    /\ Return(t)
    /\ UNCHANGED local

CopyFails(t) ==
    /\ At(t, "create")
    /\ Has(metadata, call[t].dst)
    /\ Return(t)
    /\ UNCHANGED <<metadata, allocs, created, removed, local>>

\* copy_to_local, and move_to_local up to the local copy: not of a directory.
ReadForDownload(t) ==
    /\ At(t, "deref")
    /\ call[t].op \in {"copy_to_local", "move_to_local"}
    /\ \E d \in ReadIsDirectory(metadata, call[t].node) :
         Goto(t, IF d THEN Idle ELSE [call[t] EXCEPT !.pc = "write"])
    /\ UNCHANGED <<metadata, allocs, created, removed, local>>

WriteLocal(t) ==
    /\ At(t, "write")
    /\ local' = local \cup {call[t].disk}
    /\ Goto(t, IF call[t].op = "move_to_local" THEN [call[t] EXCEPT !.pc = "delete"] ELSE Idle)
    /\ UNCHANGED <<metadata, allocs, created, removed>>

WriteLocalFails(t) ==
    /\ At(t, "write")
    /\ Return(t)
    /\ UNCHANGED <<metadata, allocs, created, removed, local>>

\* move_to_local deletes what the path names now.
MoveDeletes(t) ==
    /\ At(t, "delete")
    /\ EraseFile(call[t].path)
    /\ Return(t)
    /\ UNCHANGED local

MoveDeletesNothing(t) ==
    /\ At(t, "delete")
    /\ ~Has(metadata, call[t].path)
    /\ Return(t)
    /\ UNCHANGED <<metadata, allocs, created, removed, local>>

(* ------------------------ copy_from_local and move_from_local ----------- *)

\* std::filesystem::exists(src)
FindLocal(t) ==
    /\ At(t, "idle")
    /\ \E op \in Writers, l \in local, p \in Paths :
         Goto(t, [Idle EXCEPT !.op = op, !.pc = "upload", !.disk = l, !.dst = p])
    /\ UNCHANGED <<metadata, allocs, created, removed, local>>

\* (Wrong on purpose: the local file goes though the entry could not be made.)
UploadBeforeEntry(t) ==
    /\ At(t, "upload")
    /\ Goto(t, IF call[t].op = "move_from_local"
                 THEN [call[t] EXCEPT !.pc = "unlink", !.file = created + 1]
                 ELSE Idle)
    /\ UNCHANGED <<metadata, allocs, created, removed, local>>

Upload(t) ==
    /\ At(t, "upload")
    /\ NewFile(call[t].dst, FALSE)
    /\ Goto(t, IF call[t].op = "move_from_local"
                 THEN [call[t] EXCEPT !.pc = "unlink", !.file = created + 1]
                 ELSE Idle)
    /\ UNCHANGED local

UploadFails(t) ==
    /\ At(t, "upload")
    /\ Has(metadata, call[t].dst)
    /\ Return(t)
    /\ UNCHANGED <<metadata, allocs, created, removed, local>>

\* std::filesystem::remove(src)
Unlink(t) ==
    /\ At(t, "unlink")
    /\ local' = local \ {call[t].disk}
    /\ Return(t)
    /\ UNCHANGED <<metadata, allocs, created, removed>>

\* It throws, and the entry made by copy_from_local stays.
UnlinkFails(t) ==
    /\ At(t, "unlink")
    /\ Return(t)
    /\ UNCHANGED <<metadata, allocs, created, removed, local>>

Next ==
    \E t \in Threads :
        \/ Create(t) \/ Remove(t) \/ Rename(t)
        \/ GetMetadata(t) \/ ReadAndReturn(t) \/ ReadKind(t)
        \/ ReadForCopy(t) \/ CopyCreates(t) \/ CopyFails(t)
        \/ ReadForDownload(t) \/ WriteLocal(t) \/ WriteLocalFails(t)
        \/ MoveDeletes(t) \/ MoveDeletesNothing(t)
        \/ FindLocal(t) \/ Upload(t) \/ UploadFails(t)
        \/ Unlink(t) \/ UnlinkFails(t)

Spec == Init /\ [][Next]_vars

(* ------------------------------ properties ------------------------------ *)

\* The variables have their types.
TypeOK ==
    /\ metadata \in Tables
    /\ allocs \in 0 .. MaxAllocs
    /\ created \in 0 .. allocs
    /\ removed \subseteq 1 .. created
    /\ local \subseteq LocalPaths
    /\ call \in [Threads -> Calls]

Live == {p \in Paths : Has(metadata, p)}

\* An entry's path member is the key it is found under, through every rename.
KeyMatchesPath == \A p \in Live : metadata[p].path = p

\* No operation loses a file or shows it twice: a file that was created and
\* not removed is found under one path, one that was removed under none.
FilesConserved ==
    /\ \A p, q \in Live : metadata[p].file = metadata[q].file => p = q
    /\ {metadata[p].file : p \in Live} = (1 .. created) \ removed

\* The only way for a pointer of get_metadata to be left dangling is that the
\* file it was about is removed or renamed before the pointer is used: no
\* other operation moves an entry.
DanglesOnlyByRemoval ==
    [][\A t \in Threads :
         /\ call[t].pc = "deref" /\ call'[t] = call[t]
         /\ \E p \in Live : metadata[p].node = call[t].node
         /\ \A p \in Paths : Has(metadata', p) => metadata'[p].node # call[t].node
         => \E p \in Live : /\ metadata[p].file = call[t].file
                            /\ metadata'[p] = Absent]_vars

\* A local file that move_from_local takes from the disk has been given an
\* entry of its own before, which lasts until something removes it.
MovedIsStored ==
    \A t \in Threads : call[t].pc = "unlink" =>
        call[t].file \in removed \cup {metadata[p].file : p \in Live}

\* The name node implements an atomic name space, and the operations built
\* on it create, remove and move files only in its steps.
Names == INSTANCE Namespace WITH
            at <- [p \in Paths |-> IF Has(metadata, p) THEN metadata[p].file ELSE 0]
ImplementsNamespace == Names!Spec

\* file_system.hpp, is_directory: "true if directory, false otherwise".
IsDirectoryIsRight ==
    \A t \in Threads :
        call[t].op = "is_directory" /\ call[t].pc = "idle" => call[t].isDirectory = call[t].truth
=============================================================================
