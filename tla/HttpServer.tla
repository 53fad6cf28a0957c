----------------------------- MODULE HttpServer -----------------------------
(***************************************************************************)
(* http::server of http/server.cpp: the acceptor, and the sessions of all *)
(* its connections, on one io_context that one thread runs and in one     *)
(* process, which can have so many sockets open and no more.  A session   *)
(* is the record of HttpSession; ServerSession follows one session in     *)
(* every detail, here its requests have no body, are valid, and arrive    *)
(* and are answered in one piece.                                         *)
(***************************************************************************)
EXTENDS HttpSession, FiniteSets

CONSTANTS Limits,      \* how many sockets the process may have open, each with
                       \* a bound on the connections that clients open
          MaxRequests  \* bound on the requests of each connection

ASSUME HttpServerAssumption ==
    /\ Limits \subseteq [sockets : Nat \ {0}, conns : Nat]
    /\ IsFiniteSet(Limits)
    /\ MaxRequests \in Nat

VARIABLES limit,    \* of the process
          s,        \* the session of a connection
          inbox,    \* how many requests are to reach it
          backlog,  \* connections that wait to be accepted
          accept,   \* async_accept: under way, or its completion
          queue     \* the handlers in the io_context, in their order: the
                    \* acceptor's, and the next in `ready' of a connection

vars == <<limit, s, inbox, backlog, accept, queue>>

\* Connections are numbered as they are opened; 0 has the acceptor's handlers.
Conns    == UNION {1 .. l.conns : l \in Limits}
Acceptor == 0
UnderWay == [code |-> "none", conn |-> Acceptor]
Over     == [code |-> "over", conn |-> Acceptor]

\* The constructor.
Init ==
    /\ limit \in Limits
    /\ s = [c \in Conns |-> NewSession(FALSE)]
    /\ inbox = [c \in Conns |-> 0]
    /\ backlog = <<>>
    /\ accept = UnderWay
    /\ queue = <<>>

\* A socket is open from the accept on, before its session is.
Sockets == {c \in Conns : s[c].open \/ accept.conn = c}

\* It has had an operation.
Destroyed == [NewSession(FALSE) EXCEPT !.ops = 1]

Waits(c)   == \E i \in DOMAIN backlog : backlog[i] = c
Arrived(c) == Waits(c) \/ accept.conn = c \/ s[c].ops > 0

(* ------------------------------ the clients ----------------------------- *)

\* A client connects, to send so many requests, or none, when it likes.
ClientConnects(c) ==
    /\ accept # Over
    /\ c <= limit.conns
    /\ \A d \in Conns : Arrived(d) <=> d < c
    /\ backlog' = Append(backlog, c)
    /\ \E n \in 0 .. MaxRequests : inbox' = [inbox EXCEPT ![c] = n]
    /\ UNCHANGED <<limit, s, accept, queue>>

(* -------------------------- the operating system ------------------------ *)

\* Session c goes from r to t, and the handlers that this queues go to the end
\* of the io_context's queue.  Its handlers hold the session: without one it is
\* destroyed.
Becomes(c, r, t, q) ==
    /\ s' = [s EXCEPT ![c] = IF t.open \/ t.ready # <<>> THEN t ELSE Destroyed]
    /\ queue' = q \o [i \in 1 .. Len(t.ready) - Len(r.ready) |-> c]

RequestArrives(c, i) ==
    /\ s[c].pending[i].kind = "headers"
    /\ inbox[c] > 0
    /\ Becomes(c, s[c], Complete(s[c], i, "ok", 0), queue)
    /\ inbox' = [inbox EXCEPT ![c] = @ - 1]
    /\ UNCHANGED <<limit, backlog, accept>>

ResponseLeaves(c, i) ==
    /\ s[c].pending[i].kind = "write"
    /\ Becomes(c, s[c], Complete(s[c], i, "ok", 0), queue)
    /\ UNCHANGED <<limit, inbox, backlog, accept>>

IoFails(c, i) ==
    /\ Becomes(c, s[c], Complete(s[c], i, "error", s[c].pending[i].n), queue)
    /\ UNCHANGED <<limit, inbox, backlog, accept>>

TimerExpires(c) ==
    /\ CanExpire(s[c])
    /\ Becomes(c, s[c], Expire(s[c]), queue)
    /\ UNCHANGED <<limit, inbox, backlog, accept>>

\* The accept itself: with no descriptor left it fails, whether a connection
\* waits or not.
AcceptEnds ==
    /\ accept = UnderWay
    /\ \/ /\ Cardinality(Sockets) < limit.sockets /\ backlog # <<>>
          /\ accept' = [code |-> "ok", conn |-> Head(backlog)]
          /\ backlog' = Tail(backlog)
       \/ /\ Cardinality(Sockets) >= limit.sockets
          /\ accept' = [code |-> "error", conn |-> Acceptor]
          /\ UNCHANGED backlog
    /\ queue' = Append(queue, Acceptor)
    /\ UNCHANGED <<limit, s, inbox>>

\* A program that closes the server has let its sessions end: they hold a
\* pointer to it.
ServerIsClosed ==
    /\ accept = UnderWay
    /\ \A c \in Conns : ~s[c].open /\ s[c].ready = <<>>
    /\ accept' = [code |-> "aborted", conn |-> Acceptor]
    /\ queue' = Append(queue, Acceptor)
    /\ UNCHANGED <<limit, s, inbox, backlog>>

(* ------------------------------ the acceptor ---------------------------- *)

\* (Wrong on purpose: do_accept is called only after a connection.)
AcceptedOrStopped ==
    /\ queue # <<>> /\ Head(queue) = Acceptor
    /\ IF accept.code = "ok"
         THEN /\ Becomes(accept.conn, NewSession(TRUE), DoRead(NewSession(TRUE)), Tail(queue))
              /\ accept' = UnderWay
         ELSE queue' = Tail(queue) /\ UNCHANGED <<s, accept>>
    /\ UNCHANGED <<limit, inbox, backlog>>

\* The handler of do_accept: a session is made and started for a connection,
\* and do_accept is called again, unless the acceptor was closed.
Accepted ==
    /\ queue # <<>> /\ Head(queue) = Acceptor
    /\ IF accept.code = "ok"
         THEN Becomes(accept.conn, NewSession(TRUE), DoRead(NewSession(TRUE)), Tail(queue))
         ELSE queue' = Tail(queue) /\ UNCHANGED s
    /\ accept' = IF accept.code = "aborted" THEN Over ELSE UnderWay
    /\ UNCHANGED <<limit, inbox, backlog>>

(* ------------------------------ the sessions ---------------------------- *)

\* The request is dispatched and answered, and the connection kept or not: the
\* request may say close, and the handler may throw.
OnMessageParsed(t, keep) == DoWrite([t EXCEPT !.keepAlive = keep], 1, 1)

OnWriteComplete(t) == IF t.keepAlive THEN DoRead(t) ELSE Shutdown(t)

\* What the handler of completion d makes of session t.
Handled(t, d) ==
    CASE d.kind = "timer"     -> {Shutdown(t)}
      [] d.ec = "cancelled" /\ d.kind = "headers" -> {CancelTimer(t)}
      [] d.ec # "ok"          -> {Shutdown(CancelTimer(t))}
      [] d.kind = "headers"   -> {OnMessageParsed(CancelTimer(t), keep) : keep \in BOOLEAN}
      [] OTHER                -> {OnWriteComplete(CancelTimer(t))}

SessionHandler(c) ==
    /\ queue # <<>> /\ Head(queue) = c
    /\ \E t \in Handled(Pop(s[c]), Head(s[c].ready)) :
         /\ Becomes(c, Pop(s[c]), t, Tail(queue))
         /\ inbox' = [inbox EXCEPT ![c] = IF t.open THEN @ ELSE 0]
    /\ UNCHANGED <<limit, backlog, accept>>

(* ------------------------------------------------------------------------ *)

Handler == Accepted \/ \E c \in Conns : SessionHandler(c)

Next ==
    \/ \E c \in Conns : ClientConnects(c) \/ TimerExpires(c)
    \/ \E c \in Conns : \E i \in DOMAIN s[c].pending :
         RequestArrives(c, i) \/ ResponseLeaves(c, i) \/ IoFails(c, i)
    \/ AcceptEnds \/ ServerIsClosed
    \/ Handler

\* The thread runs the io_context, an armed timer expires, and the operating
\* system accepts who waits.  Nothing is assumed of clients and network.
Fairness ==
    /\ WF_vars(Handler)
    /\ WF_vars(AcceptEnds)
    /\ \A c \in Conns : WF_vars(TimerExpires(c))

Spec == Init /\ [][Next]_vars /\ Fairness

(* ------------------------------ properties ------------------------------ *)

\* Whoever waits to be accepted is accepted at last, unless the server is
\* closed: an accept that failed is tried again, the tries (do_accept calls
\* itself at once after any error) leave the io_context to the other sessions
\* and their timers, and a silent client loses its socket to the timeout.  It
\* takes that no client sends requests for ever.
EveryoneIsAccepted ==
    \A c \in Conns : Waits(c) ~> (s[c].ops > 0 \/ accept.code \in {"aborted", "over"})

\* Every connection comes to its end, and gives its socket back, however many
\* others there are, and while the acceptor tries in vain.
EveryConnectionEnds ==
    \A c \in Conns : s[c].open ~> (~s[c].open /\ s[c].ready = <<>>)
=============================================================================
