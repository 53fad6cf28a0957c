-------------------------- MODULE MCHttpConnection --------------------------
(***************************************************************************)
(* Instance of HttpConnection for TLC: two requests, so that the second    *)
(* can meet what is left of the first, with messages of two units.         *)
(***************************************************************************)
EXTENDS HttpConnection
=============================================================================
