-------------------------- MODULE MCClientSession --------------------------
(***************************************************************************)
(* Instance of ClientSession for TLC: responses for every branch of       *)
(* on_headers_read.                                                        *)
(***************************************************************************)
EXTENDS ClientSession

Empty   == [size |-> 1, valid |-> TRUE,  len |-> 0, close |-> TRUE]
Page    == [size |-> 1, valid |-> TRUE,  len |-> 2, close |-> FALSE]
Garbled == [size |-> 1, valid |-> FALSE, len |-> 0, close |-> FALSE]
Endless == [size |-> 5, valid |-> TRUE,  len |-> 0, close |-> FALSE]
Large   == [size |-> 1, valid |-> TRUE,  len |-> 3, close |-> FALSE]

MCResponses  == {Empty, Page, Garbled, Endless, Large}
=============================================================================
