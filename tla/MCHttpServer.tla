---------------------------- MODULE MCHttpServer ----------------------------
(***************************************************************************)
(* Instance of HttpServer for TLC: more connections than sockets, and as   *)
(* many, so that two sessions run at once.                                 *)
(***************************************************************************)
EXTENDS HttpServer

MCLimits == {[sockets |-> 1, conns |-> 3], [sockets |-> 2, conns |-> 2]}
=============================================================================
