----------------------------- MODULE MCLocalFs -----------------------------
(***************************************************************************)
(* Instance of LocalFs for TLC: two directories that can hold a           *)
(* subdirectory with a file, so that list_files recurses while a          *)
(* directory is moved away under it, and three paths to lock, of which    *)
(* two have the same hash.  One disk has no dcs, the other has it with a  *)
(* lock file that a process left there when it died.                      *)
(***************************************************************************)
EXTENDS LocalFs, TLC

MCPaths == {<<"a">>, <<"b">>, <<"a", "x">>, <<"b", "x">>, <<"a", "x", "y">>, <<"b", "x", "y">>}

MCDcs == <<"dcs">>

MCLockFile == (<<"a">> :> <<"dcs", "1">>) @@ (<<"b">> :> <<"dcs", "1">>) @@ (<<"a", "x">> :> <<"dcs", "2">>)

Tree == (<<"a">> :> "dir") @@ (<<"a", "x">> :> "dir") @@ (<<"a", "x", "y">> :> "file")

LeftOver == (<<"dcs">> :> "dir") @@ (<<"dcs", "2">> :> "file") @@ Tree

MCDisks == {Tree, LeftOver}

CONSTANTS reader, writer

Locking == {"lock", "release"}

MCCalls == (reader :> Locking \cup {"open", "list_files", "copy"})
        @@ (writer :> Locking \cup {"create", "rename", "remove", "mkdir"})

MCMaxCalls == (reader :> 2) @@ (writer :> 3)
=============================================================================
