------------------------------- MODULE LocalFs -------------------------------
(***************************************************************************)
(* fs::local_file_system (fs/local_file_system.cpp) as several processes  *)
(* use it on one disk.  Each call of boost::filesystem is one step, as    *)
(* one system call is; open, list_files, copy and release make several,   *)
(* and what they saw may be out of date at the next.  Any of them may fail *)
(* for reasons that are not modelled (no permission, no space, no file     *)
(* descriptor), and a process may die at any time.  A lock is a file that *)
(* lock creates and release removes.                                       *)
(*                                                                         *)
(* A path is the sequence of its names.  The programs neither lock a path *)
(* they hold nor release one they do not hold, and leave the directory of *)
(* the lock files alone.                                                   *)
(***************************************************************************)
EXTENDS Naturals, Sequences

CONSTANTS Processes,
          Paths,      \* the paths the programs use, and all there can be
          Dcs,        \* the directory dcs of temp_directory_path, here a root
          LockFile,   \* the lock files, named after a hash, of the paths that
                      \* the programs lock
          Disks,      \* what may be on the disk at the start
          Calls,      \* the member functions each process calls
          MaxCalls    \* bound: how many calls each process makes

ASSUME LocalFsAssumption ==
    /\ Dcs \in Seq(STRING) /\ Len(Dcs) = 1
    /\ Paths \subseteq Seq(STRING)
    /\ \A p \in Paths : p # <<>> /\ p[1] # Dcs[1]
    /\ DOMAIN LockFile \subseteq Paths
    /\ \A p \in DOMAIN LockFile :
         /\ LockFile[p] \in Seq(STRING)
         /\ Len(LockFile[p]) = 2 /\ LockFile[p][1] = Dcs[1]
    /\ DOMAIN Calls = Processes
    /\ MaxCalls \in [Processes -> Nat]

LockFiles == {LockFile[p] : p \in DOMAIN LockFile}

VARIABLES disk,     \* the kind, file or directory, of every path there is
          call,     \* the call each process is in
          touched,  \* history: the paths that changed during a list_files, and
                    \* all that is below them
          held,     \* the paths each process locked and has not released
          sole,     \* history: <<process, path>>, locked when nobody held a
                    \* path with the same lock file, nor since, and the file
                    \* was there then
          left,     \* history: the lock files of earlier runs and of processes
                    \* that died
          calls     \* how many calls each process made

vars == <<disk, call, touched, held, sole, left, calls>>
lockVars == <<held, sole, left>>

(***************************************************************************)
(* `at' is where the process is, `arg' the path its step is about, `dst'  *)
(* where a copy goes; `frames' are the directories that list_files is in, *)
(* each with the entries it has seen, and `listed' the paths it found.    *)
(***************************************************************************)
At(place, p) == [at |-> place, arg |-> p, dst |-> <<>>, frames |-> <<>>, listed |-> <<>>]

Idle == At("idle", <<>>)

Listing == {"opendir", "walk", "stat", "listed"}

Init ==
    /\ disk \in Disks
    /\ call = [c \in Processes |-> Idle]
    /\ touched = [c \in Processes |-> {}]
    /\ held = [c \in Processes |-> {}]
    /\ sole = {}
    /\ left = LockFiles \cap DOMAIN disk
    /\ calls = [c \in Processes |-> 0]

\* Process c calls the function, and is at next after the first step of it.
Call(c, function, next) ==
    /\ function \in Calls[c]
    /\ call[c].at \in {"idle", "listed"}
    /\ calls[c] < MaxCalls[c]
    /\ calls' = [calls EXCEPT ![c] = @ + 1]
    /\ call' = [call EXCEPT ![c] = next]

Goes(c, next) ==
    /\ call' = [call EXCEPT ![c] = next]
    /\ UNCHANGED calls

(* -------------------------------- the disk ------------------------------ *)

Kind(d, p) == IF p \in DOMAIN d THEN d[p] ELSE "none"

\* The directory that p would be in is there.
HasPlace(d, p) == Len(p) = 1 \/ Kind(d, SubSeq(p, 1, Len(p) - 1)) = "dir"

\* At the start every directory on the way to a path is there.
ASSUME DisksAssumption ==
    \A d \in Disks :
        /\ DOMAIN d \subseteq Paths \cup {Dcs} \cup LockFiles
        /\ \A p \in LockFiles : Kind(d, p) # "dir"
        /\ \A p \in DOMAIN d :
             /\ d[p] \in {"file", "dir"}
             /\ \A k \in 1 .. Len(p) - 1 : Kind(d, SubSeq(p, 1, k)) = "dir"

Under(p, q) == Len(q) > Len(p) /\ SubSeq(q, 1, Len(p)) = p

Children(p) == {q \in Paths : Len(q) = Len(p) + 1 /\ Under(p, q)}

IsEmpty(d, p) == \A q \in Children(p) : Kind(d, q) = "none"

With(d, p, kind) == [q \in DOMAIN d \cup {p} |-> IF q = p THEN kind ELSE d[q]]

Without(d, p) == [q \in DOMAIN d \ {p} |-> d[q]]

\* The paths that are in S or below what is in S.
Below(S) == {q \in Paths : \E p \in S : q = p \/ Under(p, q)}

\* A system call that makes d of the disk, or fails and changes nothing.  A path
\* that is replaced changes though its kind may not.
Change(d, replaced) ==
    /\ disk' \in {disk, d}
    /\ LET changed == {p \in DOMAIN disk \cup DOMAIN disk' : Kind(disk, p) # Kind(disk', p)}
                          \cup {p \in replaced : disk' # disk}
       IN  touched' = [c \in Processes |->
               IF call[c].at \notin Listing THEN {} ELSE touched[c] \cup Below(changed)]

\* file_sink truncates the file or makes it; where it can not, nothing happens
\* and nothing is reported.
Created(d, p) == IF HasPlace(d, p) /\ Kind(d, p) # "dir" THEN With(d, p, "file") ELSE d

\* rename(2): a file replaces a file, a directory an empty directory.
CanMove(d, p, q) ==
    /\ Kind(d, p) # "none" /\ HasPlace(d, q) /\ ~Under(p, q)
    /\ \/ p = q
       \/ Kind(d, p) = "file" /\ Kind(d, q) # "dir"
       \/ Kind(d, p) = "dir" /\ Kind(d, q) # "file" /\ IsEmpty(d, q)

\* Where r is when p has become q.
Renamed(p, q, r) == q \o SubSeq(r, Len(p) + 1, Len(r))

Moved(d, p, q) ==
    LET moving == {r \in DOMAIN d : r = p \/ Under(p, r)}
        there  == {Renamed(p, q, r) : r \in moving}
    IN  [r \in (DOMAIN d \ moving) \cup there |->
            IF r \in there THEN d[Renamed(q, p, r)] ELSE d[r]]

\* A file, or an empty directory.
Removed(d, p) == IF Kind(d, p) = "none" \/ ~IsEmpty(d, p) THEN d ELSE Without(d, p)

MadeDirectory(d, p) == IF HasPlace(d, p) /\ Kind(d, p) = "none" THEN With(d, p, "dir") ELSE d

\* boost::filesystem::copy of a file: into a directory, or as a new file; it
\* never replaces one.
CopiedFile(d, p, q) ==
    LET t == IF Kind(d, q) = "dir" THEN q \o <<p[Len(p)]>> ELSE q
    IN  IF t \in Paths /\ HasPlace(d, t) /\ Kind(d, t) = "none" THEN With(d, t, "file") ELSE d

(* ------------------- operations of one system call ---------------------- *)

Create(c) ==
    /\ Call(c, "create", Idle)
    /\ \E p \in Paths : Change(Created(disk, p), {})
    /\ UNCHANGED lockVars

\* rename and move, and move_from_local and move_to_local, which call move
Rename(c) ==
    /\ Call(c, "rename", Idle)
    /\ \E p, q \in Paths :
         LET new == IF CanMove(disk, p, q) THEN Moved(disk, p, q) ELSE disk
         IN  DOMAIN new \subseteq Paths \cup DOMAIN disk /\ Change(new, {q})
    /\ UNCHANGED lockVars

Remove(c) ==
    /\ Call(c, "remove", Idle)
    /\ \E p \in Paths : Change(Removed(disk, p), {})
    /\ UNCHANGED lockVars

Mkdir(c) ==
    /\ Call(c, "mkdir", Idle)
    /\ \E p \in Paths : Change(MadeDirectory(disk, p), {})
    /\ UNCHANGED lockVars

(* ----------------------------- open and copy ---------------------------- *)

\* is_exists, which throws file_not_found
Open(c) ==
    /\ \E p \in Paths : Call(c, "open", IF Kind(disk, p) = "none" THEN Idle ELSE At("map", p))
    /\ UNCHANGED <<disk, touched, lockVars>>

\* The size and the mapping, of a file that may have gone: nothing changes.
OpenEnds(c) ==
    /\ call[c].at = "map"
    /\ Goes(c, Idle)
    /\ UNCHANGED <<disk, touched, lockVars>>

\* copy, copy_from_local and copy_to_local.  Of a directory, the directory and
\* then the files in it are made, one by one.
Copy(c) ==
    /\ \E p, q \in Paths :
         IF Kind(disk, p) = "dir"
           THEN /\ Change(MadeDirectory(disk, q), {})
                /\ Call(c, "copy", IF Kind(disk', q) = "dir" THEN [At("copy", p) EXCEPT !.dst = q]
                                   ELSE Idle)
           ELSE /\ Change(IF Kind(disk, p) = "file" THEN CopiedFile(disk, p, q) ELSE disk, {})
                /\ Call(c, "copy", Idle)
    /\ UNCHANGED lockVars

CopyEntry(c) ==
    /\ call[c].at = "copy"
    /\ \E p \in Children(call[c].arg) :
         LET copied == CopiedFile(disk, p, call[c].dst \o <<p[Len(p)]>>)
         IN  /\ Kind(disk, p) = "file"
             /\ copied # disk
             /\ Change(copied, {})
    /\ UNCHANGED <<call, lockVars, calls>>

\* All are copied, or one is there already and the copy fails.
CopyEnds(c) ==
    /\ call[c].at = "copy"
    /\ Goes(c, Idle)
    /\ UNCHANGED <<disk, touched, lockVars>>

(* ------------------------------ list_files ------------------------------ *)

\* What is no directory is returned as the only file, there or not.
ListFiles(c) ==
    /\ \E p \in Paths :
         Call(c, "list_files",
              IF Kind(disk, p) = "dir" THEN At("opendir", p)
              ELSE [At("listed", p) EXCEPT !.listed = <<p>>])
    /\ touched' = [touched EXCEPT ![c] = {}]
    /\ UNCHANGED <<disk, lockVars>>

\* The constructor of directory_iterator throws when the directory is gone.
OpenDirectory(c) ==
    LET w == call[c]
    IN  /\ w.at = "opendir"
        /\ Goes(c, IF Kind(disk, w.arg) # "dir" THEN Idle
                   ELSE [w EXCEPT !.at = "walk",
                                  !.frames = Append(@, [dir |-> w.arg, seen |-> {}])])
        /\ UNCHANGED <<disk, touched, lockVars>>

Unseen(w) ==
    LET top == w.frames[Len(w.frames)] IN Children(top.dir) \ top.seen

\* readdir returns each entry of the open directory once, and may or may not
\* return one that was made or removed since it was opened (nor is one that was
\* removed and made again returned twice here).  While neither the directory nor
\* one above it changes, it is the one that its path names.  When one did, it
\* may be anywhere, or gone, and its entries are whatever they are there: all of
\* them are in `touched' then.
NextEntry(c) ==
    LET w == call[c]
    IN  /\ w.at = "walk"
        /\ \E p \in Unseen(w) :
             /\ Kind(disk, p) # "none" \/ p \in touched[c]
             /\ Goes(c, [w EXCEPT !.at = "stat", !.arg = p,
                                  !.frames[Len(w.frames)].seen = @ \cup {p}])
        /\ UNCHANGED <<disk, touched, lockVars>>

\* (Wrong on purpose: the name of the file is returned, not its path.)
StatTakesName(c) ==
    LET p == call[c].arg
    IN  /\ call[c].at = "stat"
        /\ Goes(c, IF Kind(disk, p) = "dir" THEN [call[c] EXCEPT !.at = "opendir"]
                   ELSE [call[c] EXCEPT !.at = "walk", !.listed = Append(@, <<p[Len(p)]>>)])
        /\ UNCHANGED <<disk, touched, lockVars>>

\* (Wrong on purpose: a directory is an entry like others.)
StatTakesAll(c) ==
    /\ call[c].at = "stat"
    /\ Goes(c, [call[c] EXCEPT !.at = "walk", !.listed = Append(@, call[c].arg)])
    /\ UNCHANGED <<disk, touched, lockVars>>

\* is_directory: what is gone by now is taken for a file.
Stat(c) ==
    /\ call[c].at = "stat"
    /\ Goes(c, IF Kind(disk, call[c].arg) = "dir" THEN [call[c] EXCEPT !.at = "opendir"]
               ELSE [call[c] EXCEPT !.at = "walk", !.listed = Append(@, call[c].arg)])
    /\ UNCHANGED <<disk, touched, lockVars>>

EndOfDirectory(c) ==
    LET w == call[c]
        n == Len(w.frames)
    IN  /\ w.at = "walk"
        /\ \A p \in Unseen(w) : Kind(disk, p) = "none" \/ p \in touched[c]
        /\ Goes(c, [w EXCEPT !.at = IF n = 1 THEN "listed" ELSE "walk",
                             !.arg = w.frames[n].dir,
                             !.frames = SubSeq(@, 1, n - 1)])
        /\ UNCHANGED <<disk, touched, lockVars>>

\* The constructor of directory_iterator, its increment and is_directory throw.
ListFails(c) ==
    /\ call[c].at \in {"opendir", "walk", "stat"}
    /\ Goes(c, Idle)
    /\ touched' = [touched EXCEPT ![c] = {}]
    /\ UNCHANGED <<disk, lockVars>>

(* --------------------------- lock and release --------------------------- *)

Holders(file) ==
    {h \in Processes \X DOMAIN LockFile : h[2] \in held[h[1]] /\ LockFile[h[2]] = file}

\* Process c has locked p; recorded, if the file that it was to open is there.
Takes(c, p, recorded) ==
    /\ held' = [held EXCEPT ![c] = @ \cup {p}]
    /\ sole' = {h \in sole : LockFile[h[2]] # LockFile[p]}
                   \cup {h \in {<<c, p>>} : recorded /\ Holders(LockFile[p]) = {}}
    /\ left' = left \ {LockFile[p]}

GivesUp(c, p) ==
    /\ held' = [held EXCEPT ![c] = @ \ {p}]
    /\ sole' = sole \ {<<c, p>>}
    /\ left' = left \ {LockFile[p]}

\* (Wrong on purpose: it is the path that is created.)
LockPath(c) ==
    \E p \in DOMAIN LockFile \ held[c] :
        /\ Call(c, "lock", Idle)
        /\ Change(Created(disk, p), {})
        /\ Takes(c, p, Kind(disk', p) = "file")

\* lock does not look whether the file is there, nothing makes dcs, and where
\* create could not open the file lock returns as if it had.
Lock(c) ==
    \E p \in DOMAIN LockFile \ held[c] :
        /\ Call(c, "lock", Idle)
        /\ Change(Created(disk, LockFile[p]), {})
        /\ Takes(c, p, Kind(disk', LockFile[p]) = "file")

\* is_exists, and the exception "Given target not held as lock"
Release(c) ==
    /\ \E p \in held[c] :
         IF Kind(disk, LockFile[p]) = "none"
           THEN Call(c, "release", Idle) /\ GivesUp(c, p)
           ELSE Call(c, "release", At("unlink", p)) /\ UNCHANGED lockVars
    /\ UNCHANGED <<disk, touched>>

\* (Wrong on purpose: it is the path that is removed.)
UnlinkPath(c) ==
    LET p == call[c].arg
    IN  /\ call[c].at = "unlink"
        /\ Goes(c, Idle)
        /\ Change(Removed(disk, p), {})
        /\ IF Kind(disk', p) = "none" THEN GivesUp(c, p) ELSE UNCHANGED lockVars

\* remove.  Where it finds the file gone release throws, and where it fails and
\* the file stays: the path is locked then as it was.
Unlink(c) ==
    LET p == call[c].arg
    IN  /\ call[c].at = "unlink"
        /\ Goes(c, Idle)
        /\ Change(Removed(disk, LockFile[p]), {})
        /\ IF Kind(disk', LockFile[p]) = "none" THEN GivesUp(c, p) ELSE UNCHANGED lockVars

\* The process dies and another takes its place, which holds nothing.  It may be
\* killed; lock, create and open go on with a stream whose buffer is destroyed,
\* and is_exists and is_directory let no exception out.
Dies(c) ==
    /\ Goes(c, Idle)
    /\ held' = [held EXCEPT ![c] = {}]
    /\ sole' = {h \in sole : h[1] # c}
    /\ left' = left \cup ({LockFile[p] : p \in held[c]} \cap DOMAIN disk)
    /\ touched' = [touched EXCEPT ![c] = {}]
    /\ UNCHANGED disk

(* ------------------------------------------------------------------------ *)

Next ==
    \E c \in Processes :
        \/ Create(c) \/ Rename(c) \/ Remove(c) \/ Mkdir(c)
        \/ Open(c) \/ OpenEnds(c)
        \/ Copy(c) \/ CopyEntry(c) \/ CopyEnds(c)
        \/ ListFiles(c) \/ OpenDirectory(c) \/ NextEntry(c) \/ Stat(c) \/ EndOfDirectory(c)
        \/ ListFails(c)
        \/ Lock(c) \/ Release(c) \/ Unlink(c)
        \/ Dies(c)

Spec == Init /\ [][Next]_vars

(* ------------------------------ properties ------------------------------ *)

\* The variables have their types.
TypeOK ==
    /\ \A p \in DOMAIN disk : disk[p] \in {"file", "dir"}
    /\ DOMAIN disk \subseteq Paths \cup {Dcs} \cup LockFiles
    /\ call \in [Processes -> [at : Listing \cup {"idle", "map", "copy", "unlink"},
                               arg : Paths \cup {<<>>}, dst : Paths \cup {<<>>},
                               frames : Seq([dir : Paths, seen : SUBSET Paths]),
                               listed : Seq(Paths)]]
    /\ touched \in [Processes -> SUBSET Paths]
    /\ held \in [Processes -> SUBSET DOMAIN LockFile]
    /\ \A h \in sole : h[2] \in held[h[1]]
    /\ left \subseteq LockFiles
    /\ \A c \in Processes : calls[c] \in 0 .. MaxCalls[c]

\* No lock file outlives its locks: while it is on the disk, some process holds
\* a path that it stands for, however many locked it and whoever released it
\* first, or it was left there by a process that died.
LockFileHasHolder ==
    \A p \in DOMAIN LockFile :
        LockFile[p] \in DOMAIN disk => Holders(LockFile[p]) # {} \/ LockFile[p] \in left

\* A process that alone locked a path, and whose lock could open the file, has
\* the file on the disk until it releases the path: only another process that
\* locks the same path, or one with the same hash, can take it away.
SoleHolderIsRecorded == \A h \in sole : Kind(disk, LockFile[h[2]]) = "file"

\* list_files of a directory looks at it again and again while other processes
\* change it.  What they did not touch, nor a directory above it, is in the
\* result as it should be: each file below the directory once, and nothing that
\* is no file.  (file_system.hpp:68 says file and directory names, but no
\* directory is returned: what is in it is.  Of what is no directory it says that
\* the result is empty, but it is the path itself, there or not: this is not about
\* that.)
ListingIsRight ==
    \A c \in Processes :
        call[c].at = "listed" =>
            LET found(p) == {i \in DOMAIN call[c].listed : call[c].listed[i] = p}
            IN  \A p \in Paths \ touched[c] :
                    Under(call[c].arg, p) =>
                        IF Kind(disk, p) = "file" THEN \E i \in DOMAIN call[c].listed : found(p) = {i}
                        ELSE found(p) = {}
=============================================================================
