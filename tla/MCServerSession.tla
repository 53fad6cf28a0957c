-------------------------- MODULE MCServerSession --------------------------
(***************************************************************************)
(* Instance of ServerSession for TLC.  With MaxHeaderSize = MaxBodySize = *)
(* 2 the requests cover every branch of on_headers_read: no body, a body  *)
(* read in one or two parts, headers that parse rejects, headers beyond   *)
(* the limit and beyond the buffer, and a body beyond the limit.          *)
(***************************************************************************)
EXTENDS ServerSession

Get     == [size |-> 1, valid |-> TRUE,  len |-> 0, close |-> FALSE]
Post    == [size |-> 1, valid |-> TRUE,  len |-> 2, close |-> FALSE]
Last    == [size |-> 2, valid |-> TRUE,  len |-> 1, close |-> TRUE]
Garbled == [size |-> 1, valid |-> FALSE, len |-> 0, close |-> FALSE]
Long    == [size |-> 3, valid |-> TRUE,  len |-> 0, close |-> FALSE]
Endless == [size |-> 5, valid |-> TRUE,  len |-> 0, close |-> FALSE]
Large   == [size |-> 1, valid |-> TRUE,  len |-> 3, close |-> FALSE]

MCRequests  == {Get, Post, Last, Garbled, Long, Endless, Large}
GoodRequests == {Get, Post, Last}
=============================================================================
