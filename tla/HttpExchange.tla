---------------------------- MODULE HttpExchange ----------------------------
(***************************************************************************)
(* One request and its answer, as messages: client_session::async_request *)
(* and on_message_parsed at one end, server_session::on_message_parsed    *)
(* and server::dispatch at the other, with what serialize writes and      *)
(* parse reads in between.  How the bytes travel is left to ServerSession *)
(* and ClientSession.                                                     *)
(***************************************************************************)
EXTENDS HttpMessage

CONSTANTS Routes,       \* the methods and paths given to server::route
          Default       \* stands for the default handler

ASSUME RoutesAssumption ==
    /\ Routes \subseteq Methods \X Paths
    /\ Default \notin Routes

VARIABLES phase,       \* what has happened so far
          req,         \* the request the program made
          wire,        \* the bytes on their way
          seen,        \* the request the server parsed
          handler,     \* who answered it: a route or Default
          resp,        \* the response the server wrote
          serverKeeps, \* m_keep_alive of the server's session
          got          \* the response the client parsed

vars == <<phase, req, wire, seen, handler, resp, serverKeeps, got>>

Nothing == [none |-> TRUE]

\* get, post, put and delete_; the program passes headers of its own.
Init ==
    /\ phase = "made"
    /\ req \in {r \in Requests : /\ r.method \in {"GET", "POST", "PUT", "DELETE_"}
                                 /\ r.method \in {"GET", "DELETE_"} => r.body = 0}
    /\ wire = Nothing /\ seen = Nothing /\ handler = Default /\ resp = Nothing
    /\ serverKeeps = FALSE /\ got = Nothing

\* async_request adds the headers that are missing in the two spellings it asks for.
Completed(r) ==
    LET host == IF {"host", "Host"} \cap DOMAIN r.headers # {} THEN r.headers
                ELSE SetHeader(r.headers, "Host", Word("other"))
    IN  [r EXCEPT !.headers =
           IF {"connection", "Connection"} \cap DOMAIN host # {} THEN host
           ELSE SetHeader(host, "Connection", Word("keep-alive"))]

ClientWrites ==
    /\ phase = "made"
    /\ LET r == Completed(req)
       IN  \E order \in Orders(DOMAIN r.headers) : wire' = SerializeRequest(r, order)
    /\ phase' = "requested"
    /\ UNCHANGED <<req, seen, handler, resp, serverKeeps, got>>

\* on_error, or a timeout when more is announced than was sent
ServerRejects ==
    /\ phase = "requested"
    /\ \E part \in 0 .. wire.body : ~Taken(wire, part)
    /\ phase' = "rejected"
    /\ UNCHANGED <<req, wire, seen, handler, resp, serverKeeps, got>>

\* server::dispatch
Dispatch(r) == IF <<r.method, r.path>> \in Routes THEN <<r.method, r.path>> ELSE Default

\* What a handler returns: a response of the factories, or one with headers and a
\* body of its own.  set_default_handler may have replaced the default handler.
HandlerResponses ==
    {Simple(200), Text(200, MaxLength)}
      \cup {[code |-> 200, headers |-> h, body |-> b] : h \in HandlerHeaders, b \in Bodies}

ServerAnswers ==
    /\ phase = "requested"
    /\ \E part \in 0 .. wire.body : Taken(wire, part)
    /\ seen' = ParseRequest(wire, ContentLength(ParseHeaders(wire.lines)))
    /\ handler' = Dispatch(seen')
    /\ \E throws \in BOOLEAN :
         /\ serverKeeps' = (KeepAlive(seen'.headers) /\ ~throws)
         /\ \E r \in IF throws THEN {Text(500, 1)}
                     ELSE IF handler' = Default THEN HandlerResponses \cup {Text(404, 1)}
                     ELSE HandlerResponses :
              resp' = [r EXCEPT !.headers =
                         SetHeader(@, "Connection",
                                   Word(IF serverKeeps' THEN "keep-alive" ELSE "close"))]
    /\ \E order \in Orders(DOMAIN resp'.headers) : wire' = SerializeResponse(resp', order)
    /\ phase' = "answered"
    /\ UNCHANGED <<req, got>>

\* The client reads as the server does.
ClientFails ==
    /\ phase = "answered"
    /\ \E part \in 0 .. wire.body : ~Taken(wire, part)
    /\ phase' = "failed"
    /\ UNCHANGED <<req, wire, seen, handler, resp, serverKeeps, got>>

ClientReads ==
    /\ phase = "answered"
    /\ \E part \in 0 .. wire.body : Taken(wire, part)
    /\ got' = ParseResponse(wire, ContentLength(ParseHeaders(wire.lines)))
    /\ phase' = "done"
    /\ UNCHANGED <<req, wire, seen, handler, resp, serverKeeps>>

Next == ClientWrites \/ ServerRejects \/ ServerAnswers \/ ClientFails \/ ClientReads

Spec == Init /\ [][Next]_vars

(* ------------------------------ properties ------------------------------ *)

Done == phase = "done"

\* The values that the headers have for a name, in whatever spellings.
ValuesOf(h, n) == {h[k] : k \in {j \in DOMAIN h : Normalize[j] = n}}

\* The server's handler is given the request that the client completed, in
\* whatever order the headers were written and however the bytes were cut: the
\* method, the path, and every header with its value (or one of its values, if it
\* was set in several spellings), with nothing added but the length of the body.
\* The body is whole, unless the program set a Content-Length of its own: then it
\* is as long as that says, and cut rather than made longer.
RequestArrives ==
    phase \in {"answered", "failed", "done"} =>
        LET r == Completed(req)
        IN  /\ seen.method = r.method /\ seen.path = r.path
            /\ \A k \in DOMAIN r.headers :
                  seen.headers[Normalize[k]] \in ValuesOf(r.headers, Normalize[k])
            /\ DOMAIN seen.headers \subseteq
                  {Normalize[k] : k \in DOMAIN r.headers} \cup {"content-length"}
            /\ seen.body <= r.body
            /\ seen.body = IF Spelt(r.headers, "content-length")
                           THEN ContentLength(seen.headers) ELSE r.body

\* serialize leaves a header to the handler if its headers have the very spelling
\* that serialize writes.  Then the handler is right if all spellings say v.
LeftRight(h, n, v) == n \in DOMAIN h => ValuesOf(h, Normalize[n]) = {v}

\* The two ends agree on where the response ends: the client takes the whole body
\* and nothing after it, and never refuses the response or waits for more,
\* whatever Content-Length the handler set with operator[].  Only one that it
\* put in as "Content-Length", with insert or emplace, must be right.
ResponseFramed ==
    /\ phase \in {"failed", "done"}
    /\ LeftRight(resp.headers, "Content-Length", Digits(resp.body)) /\ resp.body <= MaxBody
    => Done /\ got.body = resp.body

\* When the server closes the connection after the response, the client has been
\* told so, whatever Connection the handler set with operator[] and in whatever
\* order the headers were written.  Only one that it put in as "Connection", with
\* insert or emplace, must say so itself.
CloseIsAnnounced ==
    /\ Done /\ ~serverKeeps
    /\ LeftRight(resp.headers, "Connection", Word("close"))
    => ~KeepAlive(got.headers)

\* response.hpp: serialize "serializes the full HTTP response", so parse gives
\* back the headers that were set with operator[].
ResponseHeadersArrive ==
    Done /\ (\A k \in DOMAIN resp.headers : Normalize[k] = k)
    => \A k \in DOMAIN resp.headers \ {"content-length"} : got.headers[k] = resp.headers[k]
=============================================================================
