------------------------------ MODULE NameNode ------------------------------
(***************************************************************************)
(* The table of files of dfs::name_node (dfs/name_node.cpp).  Each public *)
(* member function runs under m_metadata_mutex, so it is one step; what   *)
(* it computes is an operator on the table m, from which DistributedFs    *)
(* builds the operations of the file system.                              *)
(***************************************************************************)
EXTENDS Naturals

CONSTANTS Paths,
          NoPath,  \* no path
          Absent   \* no entry

ASSUME PathsAssumption == NoPath \notin Paths

\* An entry of m_metadata.  `node' is the map's node that holds it, which is
\* what a file_metadata pointer points to: nodes are numbered as they are
\* allocated.  `file' tells files apart.
Entries == [path : Paths, isDirectory : BOOLEAN, node : Nat, file : Nat]

ASSUME AbsentAssumption == Absent \notin Entries

Tables == [Paths -> Entries \cup {Absent}]

EmptyTable == [p \in Paths |-> Absent]

Has(m, p) == m[p] # Absent

\* (Wrong on purpose: metadata.path is left empty.)
CreateLeavesPath(m, p, isDirectory, node, file) ==
    [m EXCEPT ![p] = [path |-> NoPath, isDirectory |-> isDirectory, node |-> node, file |-> file]]

CreateFile(m, p, isDirectory, node, file) ==
    [m EXCEPT ![p] = [path |-> p, isDirectory |-> isDirectory, node |-> node, file |-> file]]

DeleteFile(m, p) == [m EXCEPT ![p] = Absent]

\* (Wrong on purpose: metadata.path is not set.)
RenameKeepsPath(m, p, q, node) ==
    [m EXCEPT ![p] = Absent,
              ![q] = [m[p] EXCEPT !.node = node]]

\* (Wrong on purpose: the old entry is not erased.)
RenameCopies(m, p, q, node) ==
    [m EXCEPT ![q] = [m[p] EXCEPT !.path = q, !.node = node]]

\* The entry is moved out of its node and into a new one.
RenameFile(m, p, q, node) ==
    [m EXCEPT ![p] = Absent,
              ![q] = [m[p] EXCEPT !.path = q, !.node = node]]

\* What `metadata->is_directory' may read through a pointer to a node: the
\* map may have freed the node since get_metadata returned.
ReadIsDirectory(m, node) ==
    LET live == {p \in Paths : Has(m, p) /\ m[p].node = node}
    IN  IF live = {} THEN BOOLEAN ELSE {m[p].isDirectory : p \in live}
=============================================================================
