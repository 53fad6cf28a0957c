--------------------------- MODULE ClientSession ---------------------------
(***************************************************************************)
(* One connection of the HTTP client: client::client_session of           *)
(* http/client.cpp on top of the shared state machine, with the program   *)
(* that calls it and the server at the other end of the socket.  The      *)
(* program runs on the thread of the io_context, or before it: it makes   *)
(* requests, also from inside the callback of an earlier one, and its     *)
(* callbacks may throw.  The server answers the requests in order, with   *)
(* well framed responses, valid or not, or stops.                         *)
(***************************************************************************)
EXTENDS HttpSession

CONSTANTS Responses,    \* the responses a server may send
          MaxRequests,  \* bound: how many requests the program makes
          ReqSize       \* units of a serialized request

ASSUME ClientAssumption ==
    /\ Responses \subseteq [size : Nat,        \* bytes up to the blank line
                            valid : BOOLEAN,   \* response::parse accepts it
                            len : Nat,         \* Content-Length
                            close : BOOLEAN]   \* it says Connection: close
    /\ MaxRequests \in Nat
    /\ ReqSize \in Nat \ {0}

VARIABLES c,        \* the session and the calls of the program's callbacks
          conn,     \* the connection: "off" until on_connected
          outbox,   \* the stream to the server: each unit names its request
          replies,  \* the responses sent so far; `to' is the request answered
          todo,     \* body units of the last one not yet sent
          inbox,    \* the stream from the server: r > 0 stands for the headers
                    \* of replies[r], 0 for a unit of a body
          escaped   \* an exception left io_context::run

vars == <<c, conn, outbox, replies, todo, inbox, escaped>>

(***************************************************************************)
(* Requests are numbered as they are made.  `callback' is the request     *)
(* whose handler m_callback holds, or 0; `answers' are the calls of       *)
(* handlers so far, `reply' being the response passed with code ok.       *)
(***************************************************************************)
Failure(q, result) == [req |-> q, result |-> result, reply |-> 0]

\* A client that connects in its constructor exists only once it is connected.
Init ==
    /\ \E sync \in BOOLEAN :
         /\ c = [s |-> NewSession(sync), callback |-> 0, issued |-> 0, answers |-> <<>>]
         /\ conn = IF sync THEN "up" ELSE "off"
    /\ outbox = <<>>
    /\ replies = <<>>
    /\ todo = 0
    /\ inbox = <<>>
    /\ escaped = FALSE

(* ------------------- client_session, d being the client ----------------- *)

\* (Wrong on purpose: the read does not wait for the write.)
RequestReadsAtOnce(d) ==
    LET q == d.issued + 1
    IN  IF d.s.open
          THEN [d EXCEPT !.issued = q, !.callback = q, !.s = DoRead(DoWrite(d.s, q, ReqSize))]
          ELSE [d EXCEPT !.issued = q, !.answers = Append(@, Failure(q, "not_connected"))]

\* async_request of the next request
AsyncRequest(d) ==
    LET q == d.issued + 1
    IN  IF d.s.open
          THEN [d EXCEPT !.issued = q, !.callback = q, !.s = DoWrite(d.s, q, ReqSize)]
          ELSE [d EXCEPT !.issued = q, !.answers = Append(@, Failure(q, "not_connected"))]

\* m_callback is taken and called.  The program returns, or makes the next
\* request in the callback.  (On a closed session that request is answered at
\* once, and what its callback requests is as if requested afterwards.)
Call(d, a) ==
    LET e == [d EXCEPT !.callback = 0, !.answers = Append(@, a)]
    IN  {e} \cup IF e.issued < MaxRequests THEN {AsyncRequest(e)} ELSE {}

\* (Wrong on purpose: a read is started for a response nobody asked for.)
ParsedReadsOn(d, r) ==
    LET e == [d EXCEPT !.s = DoRead([@ EXCEPT !.keepAlive = ~replies[r].close])]
    IN  IF d.callback = 0 THEN {e}
        ELSE Call(e, [req |-> d.callback, result |-> "ok", reply |-> r])

OnMessageParsed(d, r) ==
    LET e == [d EXCEPT !.s.keepAlive = ~replies[r].close]
    IN  IF d.callback = 0 THEN {e}
        ELSE Call(e, [req |-> d.callback, result |-> "ok", reply |-> r])

\* (Wrong on purpose: m_callback is called but not cleared.)
ErrorKeepsCallback(d, result) ==
    LET e == [d EXCEPT !.s = Shutdown(@)]
    IN  IF d.callback = 0 THEN {e}
        ELSE {[e EXCEPT !.answers = Append(@, Failure(d.callback, result))]}

\* (Wrong on purpose: without shutdown.)
ErrorLeavesOpen(d, result) ==
    IF d.callback = 0 THEN {d} ELSE Call(d, Failure(d.callback, result))

OnError(d, result) ==
    LET e == [d EXCEPT !.s = Shutdown(@)]
    IN  IF d.callback = 0 THEN {e} ELSE Call(e, Failure(d.callback, result))

\* (Wrong on purpose: the response is not read.)
WrittenAndDone(d) == d

OnWriteComplete(d) == [d EXCEPT !.s = DoRead(@)]

(* ------------------------------ the program ----------------------------- *)

Request ==
    /\ c.issued < MaxRequests
    /\ c.callback = 0
    /\ ~escaped
    /\ c' = AsyncRequest(c)
    /\ UNCHANGED <<conn, outbox, replies, todo, inbox, escaped>>

\* on_connected, of a client that connects asynchronously: async_resolve
OnConnected ==
    /\ conn = "off"
    /\ conn' = "resolving"
    /\ UNCHANGED <<c, outbox, replies, todo, inbox, escaped>>

\* asio::async_connect opens the socket, and then connects it.
Resolved ==
    /\ conn = "resolving" /\ ~escaped
    /\ conn' = "connecting"
    /\ c' = [c EXCEPT !.s.open = TRUE]
    /\ UNCHANGED <<outbox, replies, todo, inbox, escaped>>

Connected ==
    /\ conn = "connecting" /\ c.s.open /\ ~escaped
    /\ conn' = "up"
    /\ UNCHANGED <<c, outbox, replies, todo, inbox, escaped>>

\* The resolver fails, no endpoint answers, or the socket was closed: the
\* handler of on_connected is called with an error and nothing else is done.
ConnectFails ==
    /\ conn \in {"resolving", "connecting"} /\ ~escaped
    /\ conn' = "failed"
    /\ UNCHANGED <<c, outbox, replies, todo, inbox, escaped>>

(* ------------------------------ the server ------------------------------ *)

Asked == {outbox[i] : i \in DOMAIN outbox}

\* It answers the first request it has seen a part of and not answered.
ServerReplies ==
    /\ todo = 0
    /\ \E q \in Asked, r \in Responses :
         /\ \A i \in DOMAIN replies : replies[i].to < q
         /\ \A p \in Asked : p < q => \E i \in DOMAIN replies : replies[i].to >= p
         /\ replies' = Append(replies, [to |-> q, size |-> r.size, valid |-> r.valid,
                                        len |-> r.len, close |-> r.close])
         /\ todo' = r.len
    /\ inbox' = Append(inbox, Len(replies) + 1)
    /\ UNCHANGED <<c, conn, outbox, escaped>>

ServerSendsBody ==
    /\ todo > 0
    /\ todo' = todo - 1
    /\ inbox' = Append(inbox, 0)
    /\ UNCHANGED <<c, conn, outbox, replies, escaped>>

(* -------------------------- the operating system ------------------------ *)

HeadersArrive(i) ==
    /\ c.s.pending[i].kind = "headers"
    /\ inbox # <<>> /\ Head(inbox) > 0
    /\ \E k \in 0 .. Len(inbox) - 1 :
         /\ FitsBuffer(replies[Head(inbox)], k)
         /\ c' = [c EXCEPT !.s = Complete([@ EXCEPT !.pending[i].msg = Head(inbox)], i, "ok", k)]
         /\ inbox' = SubSeq(inbox, k + 2, Len(inbox))
    /\ UNCHANGED <<conn, outbox, replies, todo, escaped>>

HeadersOverflow(i) ==
    /\ c.s.pending[i].kind = "headers"
    /\ inbox # <<>> /\ Head(inbox) > 0
    /\ ~FitsBuffer(replies[Head(inbox)], 0)
    /\ c' = [c EXCEPT !.s = Complete(@, i, "not_found", 0)]
    /\ UNCHANGED <<conn, outbox, replies, todo, inbox, escaped>>

BodyArrives(i) ==
    LET n == c.s.pending[i].n
    IN  /\ c.s.pending[i].kind = "body"
        /\ Len(inbox) >= n
        /\ c' = [c EXCEPT !.s = Complete(@, i, "ok", n)]
        /\ inbox' = SubSeq(inbox, n + 1, Len(inbox))
        /\ UNCHANGED <<conn, outbox, replies, todo, escaped>>

WriteSome(i) ==
    LET op == c.s.pending[i]
    IN  /\ op.kind = "write"
        /\ conn = "up"
        /\ \E j \in 1 .. op.n :
             /\ outbox' = outbox \o [x \in 1 .. j |-> op.msg]
             /\ c' = [c EXCEPT !.s = IF j = op.n THEN Complete(@, i, "ok", 0)
                                     ELSE [@ EXCEPT !.pending[i].n = op.n - j]]
        /\ UNCHANGED <<conn, replies, todo, inbox, escaped>>

IoFails(i) ==
    /\ c' = [c EXCEPT !.s = Complete(@, i, "error", c.s.pending[i].n)]
    /\ UNCHANGED <<conn, outbox, replies, todo, inbox, escaped>>

TimerExpires ==
    /\ CanExpire(c.s)
    /\ c' = [c EXCEPT !.s = Expire(@)]
    /\ UNCHANGED <<conn, outbox, replies, todo, inbox, escaped>>

(* --------------------- handlers the io_context runs --------------------- *)

\* The handler at the head of `ready' runs unless an exception ended run().
Runs(kinds) == Running(c.s, kinds) /\ ~escaped

Op == Head(c.s.ready)

\* What the handlers of do_read and do_write do first.
Started == [c EXCEPT !.s = CancelTimer(Pop(@))]

\* A hook called on d has one of the outcomes, or throws because a callback that
\* it called did.
Finish(d, outcomes) ==
    /\ \E e \in outcomes :
         /\ c' = e
         /\ escaped' \in IF e.answers # d.answers THEN BOOLEAN ELSE {FALSE}
    /\ UNCHANGED <<conn, outbox, replies, todo, inbox>>

\* on_headers_read
HeadersAborted ==
    /\ Runs({"headers"})
    /\ Op.ec = "cancelled"
    /\ Finish(c, {Started})

HeadersRejected ==
    /\ Runs({"headers"})
    /\ Op.ec # "cancelled"
    /\ Op.ec = "ok" => ~HeadersUsable(Op, replies[Op.msg])
    /\ Finish(c, OnError(Started, "error"))

\* (Wrong on purpose: what came with the headers is taken for the whole.)
HeadersSuffice ==
    /\ Runs({"headers"})
    /\ Op.ec = "ok"
    /\ HeadersUsable(Op, replies[Op.msg])
    /\ Op.n < replies[Op.msg].len
    /\ Finish(c, OnMessageParsed(Started, Op.msg))

HeadersNeedBody ==
    /\ Runs({"headers"})
    /\ Op.ec = "ok"
    /\ HeadersUsable(Op, replies[Op.msg])
    /\ Op.n < replies[Op.msg].len
    /\ Finish(c, {[Started EXCEPT !.s = DoRemainingRead(@, replies[Op.msg].len - Op.n, Op.msg)]})

\* on_message_parsed runs in the try block of on_headers_read, which makes an
\* error of what a callback throws.
HeadersComplete ==
    /\ Runs({"headers"})
    /\ Op.ec = "ok"
    /\ HeadersUsable(Op, replies[Op.msg])
    /\ Op.n = replies[Op.msg].len
    /\ LET parsed == OnMessageParsed(Started, Op.msg)
       IN  \/ c' \in parsed /\ UNCHANGED <<conn, outbox, replies, todo, inbox, escaped>>
           \/ c.callback # 0 /\ \E d \in parsed : Finish(d, OnError(d, "error"))

\* on_body_read
BodyFailed ==
    /\ Runs({"body"})
    /\ Op.ec # "ok"
    /\ Finish(c, OnError(Started, "error"))

BodyComplete ==
    /\ Runs({"body"})
    /\ Op.ec = "ok"
    /\ Finish(c, OnMessageParsed(Started, Op.msg))

\* the handler of do_write
WriteFailed ==
    /\ Runs({"write"})
    /\ Op.ec # "ok"
    /\ Finish(c, OnError(Started, "error"))

WriteDone ==
    /\ Runs({"write"})
    /\ Op.ec = "ok"
    /\ Finish(c, {OnWriteComplete(Started)})

\* the handler of start_timer
TimerFired ==
    /\ Runs({"timer"})
    /\ Finish(c, OnError([c EXCEPT !.s = Shutdown(Pop(@))], "timed_out"))

(* ------------------------------------------------------------------------ *)

Program == Request \/ OnConnected

Network ==
    \/ Resolved \/ Connected \/ ConnectFails
    \/ ServerReplies \/ ServerSendsBody
    \/ \E i \in DOMAIN c.s.pending :
         HeadersArrive(i) \/ HeadersOverflow(i) \/ BodyArrives(i) \/ WriteSome(i) \/ IoFails(i)

Handler ==
    \/ HeadersAborted \/ HeadersRejected \/ HeadersNeedBody \/ HeadersComplete
    \/ BodyFailed \/ BodyComplete
    \/ WriteFailed \/ WriteDone
    \/ TimerFired

Next == Program \/ Network \/ TimerExpires \/ Handler

Spec == Init /\ [][Next]_vars

\* The program runs the io_context until it has nothing left to do.  Nothing
\* is assumed of the server or of the network.
Fairness == WF_vars(Handler) /\ WF_vars(TimerExpires)

FairSpec == Spec /\ Fairness

(* ------------------------------ properties ------------------------------ *)

\* The handler of every request is called once or waits in m_callback, whatever
\* timeout, failure, chained request or exception comes in between: none is
\* called twice and none is forgotten.
EachAnsweredOnce ==
    /\ {c.answers[i].req : i \in DOMAIN c.answers}
         = (1 .. c.issued) \ (IF c.callback = 0 THEN {} ELSE {c.callback})
    /\ \A i, j \in DOMAIN c.answers : c.answers[i].req = c.answers[j].req => i = j

\* A handler that waits is waited for: an operation of the session is under
\* way with its timer, or a handler that will end it is queued.
WaitingIsWatched == c.callback # 0 => Watched(c.s)

\* Between requests the client has nothing under way on an open connection, so
\* that the next request starts the only operation.
IdleIsQuiet ==
    c.s.open /\ c.callback = 0 =>
        c.s.pending = <<>> /\ ~Queued(c.s, IoKinds) /\ c.s.timer = 0

\* At most one read or write is under way.
OneIoAtATime == OneIo(c.s)

\* Every request is answered, unless an exception ended the program's run().
EveryRequestEnds ==
    \A q \in 1 .. MaxRequests :
        c.callback = q ~> (c.callback # q \/ escaped)
=============================================================================
