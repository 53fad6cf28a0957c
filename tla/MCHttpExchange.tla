--------------------------- MODULE MCHttpExchange ---------------------------
(***************************************************************************)
(* Instance of HttpExchange for TLC, with the routes of src/server.cpp.   *)
(* Headers have any one name in any spelling with any value that counts   *)
(* for it, or two spellings of one name that say different things.         *)
(***************************************************************************)
EXTENDS HttpExchange

MCRoutes == {<<"GET", "/health">>, <<"POST", "/data">>}

ValuesFor(n) ==
    CASE Normalize[n] = "connection"     -> {Word("close"), Word("keep-alive")}
      [] Normalize[n] = "content-length" -> {Word("other")} \cup {Digits(b) : b \in Bodies}
      [] OTHER                           -> {Word("other")}

One(n, v) == [k \in {n} |-> v]

Two(n, v, m, w) == [k \in {n, m} |-> IF k = n THEN v ELSE w]

Singles == {NoHeaders} \cup UNION {{One(n, v) : v \in ValuesFor(n)} : n \in Names}

MCRequestHeaders ==
    Singles \cup {Two("Connection", Word("close"), "connection", Word("keep-alive")),
                  Two("Content-Length", Digits(1), "content-length", Digits(2)),
                  Two("content-length", Digits(1), "connection", Word("close"))}

MCHandlerHeaders ==
    Singles \cup {Two("Content-Length", Digits(1), "content-length", Digits(2)),
                  Two("Content-Length", Digits(1), "CONTENT-LENGTH", Digits(1)),
                  Two("Connection", Word("close"), "CONNECTION", Word("keep-alive"))}
=============================================================================
