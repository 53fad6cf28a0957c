--------------------------- MODULE ServerSession ---------------------------
(***************************************************************************)
(* One connection of the HTTP server: http::server_session of             *)
(* http/server.cpp on top of the shared state machine, with the peer at   *)
(* the other end of the socket.  The peer sends well framed requests,     *)
(* valid or not, as early as it likes (pipelining) and in pieces, or      *)
(* stops; the connection may fail at any time.                            *)
(***************************************************************************)
EXTENDS HttpSession

CONSTANTS Requests,     \* the requests a peer may send
          MaxRequests,  \* bound: how many it sends
          RespSize      \* units of a serialized response

ASSUME ServerAssumption ==
    /\ Requests \subseteq [size : Nat,        \* bytes up to the blank line
                           valid : BOOLEAN,   \* request::parse accepts it
                           len : Nat,         \* Content-Length
                           close : BOOLEAN]   \* it says Connection: close
    /\ MaxRequests \in Nat
    /\ RespSize \in Nat \ {0}

VARIABLES s,           \* the session
          sent,        \* the requests sent so far; request q is sent[q]
          todo,        \* body units of the last one not yet sent
          inbox,       \* the stream to the server: q > 0 stands for the
                       \* headers of request q, 0 for a unit of a body
          outbox,      \* the stream to the peer: each unit names the request
                       \* it answers
          dispatched   \* calls of m_handler: the request, and m_keep_alive
                       \* after the call

vars == <<s, sent, todo, inbox, outbox, dispatched>>

\* start()
Init ==
    /\ s = DoRead(NewSession(TRUE))
    /\ sent = <<>>
    /\ todo = 0
    /\ inbox = <<>>
    /\ outbox = <<>>
    /\ dispatched = <<>>

(* ------------------------------- the peer ------------------------------- *)

PeerSendsHeaders ==
    /\ todo = 0
    /\ Len(sent) < MaxRequests
    /\ \E r \in Requests :
         /\ sent' = Append(sent, r)
         /\ todo' = r.len
    /\ inbox' = Append(inbox, Len(sent) + 1)
    /\ UNCHANGED <<s, outbox, dispatched>>

PeerSendsBody ==
    /\ todo > 0
    /\ todo' = todo - 1
    /\ inbox' = Append(inbox, 0)
    /\ UNCHANGED <<s, sent, outbox, dispatched>>

(* -------------------------- the operating system ------------------------ *)

\* async_read_until takes the headers and whatever k units came with them.
HeadersArrive(i) ==
    /\ s.pending[i].kind = "headers"
    /\ inbox # <<>>
    /\ Head(inbox) > 0
    /\ \E k \in 0 .. Len(inbox) - 1 :
         /\ FitsBuffer(sent[Head(inbox)], k)
         /\ s' = Complete([s EXCEPT !.pending[i].msg = Head(inbox)], i, "ok", k)
         /\ inbox' = SubSeq(inbox, k + 2, Len(inbox))
    /\ UNCHANGED <<sent, todo, outbox, dispatched>>

\* The stream buffer is full and holds no blank line.
HeadersOverflow(i) ==
    /\ s.pending[i].kind = "headers"
    /\ inbox # <<>>
    /\ Head(inbox) > 0
    /\ ~FitsBuffer(sent[Head(inbox)], 0)
    /\ s' = Complete(s, i, "not_found", 0)
    /\ UNCHANGED <<sent, todo, inbox, outbox, dispatched>>

\* transfer_exactly: the read ends with the last unit asked for.
BodyArrives(i) ==
    /\ s.pending[i].kind = "body"
    /\ Len(inbox) >= s.pending[i].n
    /\ s' = Complete(s, i, "ok", s.pending[i].n)
    /\ inbox' = SubSeq(inbox, s.pending[i].n + 1, Len(inbox))
    /\ UNCHANGED <<sent, todo, outbox, dispatched>>

\* async_write hands the payload over in pieces.
WriteSome(i) ==
    /\ s.pending[i].kind = "write"
    /\ \E j \in 1 .. s.pending[i].n :
         /\ outbox' = outbox \o [x \in 1 .. j |-> s.pending[i].msg]
         /\ s' = IF j = s.pending[i].n
                   THEN Complete(s, i, "ok", 0)
                   ELSE [s EXCEPT !.pending[i].n = @ - j]
    /\ UNCHANGED <<sent, todo, inbox, dispatched>>

\* End of stream or a reset.
IoFails(i) ==
    /\ s' = Complete(s, i, "error", s.pending[i].n)
    /\ UNCHANGED <<sent, todo, inbox, outbox, dispatched>>

TimerExpires ==
    /\ CanExpire(s)
    /\ s' = Expire(s)
    /\ UNCHANGED <<sent, todo, inbox, outbox, dispatched>>

(* ------------------------- hooks of server_session ---------------------- *)

OnError(t) == Shutdown(t)

\* (Wrong on purpose: m_keep_alive is not looked at.)
AlwaysReadsOn(t) == DoRead(t)

OnWriteComplete(t) == IF t.keepAlive THEN DoRead(t) ELSE Shutdown(t)

\* (Wrong on purpose: the next read starts before the response is written.)
ParsedReadsOn(t, q, throws) ==
    LET keep == ~sent[q].close /\ ~throws
    IN  /\ s' = DoRead(DoWrite([t EXCEPT !.keepAlive = keep], q, RespSize))
        /\ dispatched' = Append(dispatched, [msg |-> q, keep |-> keep])

\* m_handler may throw: the answer is then a 500 that closes.
OnMessageParsed(t, q, throws) ==
    LET keep == ~sent[q].close /\ ~throws
    IN  /\ s' = DoWrite([t EXCEPT !.keepAlive = keep], q, RespSize)
        /\ dispatched' = Append(dispatched, [msg |-> q, keep |-> keep])

(* --------------------- handlers the io_context runs --------------------- *)

\* on_headers_read
HeadersAborted ==
    /\ Running(s, {"headers"})
    /\ Head(s.ready).ec = "cancelled"
    /\ s' = CancelTimer(Pop(s))
    /\ UNCHANGED <<sent, todo, inbox, outbox, dispatched>>

HeadersRejected ==
    /\ Running(s, {"headers"})
    /\ LET c == Head(s.ready)
       IN  /\ c.ec # "cancelled"
           /\ c.ec = "ok" => ~HeadersUsable(c, sent[c.msg])
    /\ s' = OnError(CancelTimer(Pop(s)))
    /\ UNCHANGED <<sent, todo, inbox, outbox, dispatched>>

\* (Wrong on purpose: the difference the other way round.)
NeedsBodyBackwards ==
    /\ Running(s, {"headers"})
    /\ LET c == Head(s.ready)
       IN  /\ c.ec = "ok"
           /\ HeadersUsable(c, sent[c.msg])
           /\ c.n < sent[c.msg].len
           /\ s' = DoRemainingRead(CancelTimer(Pop(s)), c.n - sent[c.msg].len, c.msg)
    /\ UNCHANGED <<sent, todo, inbox, outbox, dispatched>>

\* (Wrong on purpose: what came with the headers is not subtracted.)
NeedsWholeBody ==
    /\ Running(s, {"headers"})
    /\ LET c == Head(s.ready)
       IN  /\ c.ec = "ok"
           /\ HeadersUsable(c, sent[c.msg])
           /\ c.n < sent[c.msg].len
           /\ s' = DoRemainingRead(CancelTimer(Pop(s)), sent[c.msg].len, c.msg)
    /\ UNCHANGED <<sent, todo, inbox, outbox, dispatched>>

HeadersNeedBody ==
    /\ Running(s, {"headers"})
    /\ LET c == Head(s.ready)
       IN  /\ c.ec = "ok"
           /\ HeadersUsable(c, sent[c.msg])
           /\ c.n < sent[c.msg].len
           /\ s' = DoRemainingRead(CancelTimer(Pop(s)), sent[c.msg].len - c.n, c.msg)
    /\ UNCHANGED <<sent, todo, inbox, outbox, dispatched>>

\* (Wrong on purpose: what follows the message in the buffer is ignored.)
CompleteWithMore ==
    /\ Running(s, {"headers"})
    /\ LET c == Head(s.ready)
       IN  /\ c.ec = "ok"
           /\ HeadersUsable([c EXCEPT !.n = 0], sent[c.msg])
           /\ c.n >= sent[c.msg].len
           /\ \E throws \in BOOLEAN :
                OnMessageParsed(CancelTimer(Pop(s)), c.msg, throws)
    /\ UNCHANGED <<sent, todo, inbox, outbox>>

HeadersComplete ==
    /\ Running(s, {"headers"})
    /\ LET c == Head(s.ready)
       IN  /\ c.ec = "ok"
           /\ HeadersUsable(c, sent[c.msg])
           /\ c.n = sent[c.msg].len
           /\ \E throws \in BOOLEAN :
                OnMessageParsed(CancelTimer(Pop(s)), c.msg, throws)
    /\ UNCHANGED <<sent, todo, inbox, outbox>>

\* on_body_read
BodyFailed ==
    /\ Running(s, {"body"})
    /\ Head(s.ready).ec # "ok"
    /\ s' = OnError(CancelTimer(Pop(s)))
    /\ UNCHANGED <<sent, todo, inbox, outbox, dispatched>>

BodyComplete ==
    /\ Running(s, {"body"})
    /\ Head(s.ready).ec = "ok"
    /\ \E throws \in BOOLEAN :
         OnMessageParsed(CancelTimer(Pop(s)), Head(s.ready).msg, throws)
    /\ UNCHANGED <<sent, todo, inbox, outbox>>

\* (Wrong on purpose: the error code of the write is not looked at.)
WriteErrorIgnored ==
    /\ Running(s, {"write"})
    /\ Head(s.ready).ec # "ok"
    /\ s' = OnWriteComplete(CancelTimer(Pop(s)))
    /\ UNCHANGED <<sent, todo, inbox, outbox, dispatched>>

\* the handler of do_write
WriteFailed ==
    /\ Running(s, {"write"})
    /\ Head(s.ready).ec # "ok"
    /\ s' = OnError(CancelTimer(Pop(s)))
    /\ UNCHANGED <<sent, todo, inbox, outbox, dispatched>>

WriteDone ==
    /\ Running(s, {"write"})
    /\ Head(s.ready).ec = "ok"
    /\ s' = OnWriteComplete(CancelTimer(Pop(s)))
    /\ UNCHANGED <<sent, todo, inbox, outbox, dispatched>>

\* the handler of start_timer
TimerFired ==
    /\ Running(s, {"timer"})
    /\ s' = OnError(Shutdown(Pop(s)))
    /\ UNCHANGED <<sent, todo, inbox, outbox, dispatched>>

(* ------------------------------------------------------------------------ *)

Peer == PeerSendsHeaders \/ PeerSendsBody

System ==
    \/ \E i \in DOMAIN s.pending :
         HeadersArrive(i) \/ HeadersOverflow(i) \/ BodyArrives(i) \/ WriteSome(i) \/ IoFails(i)
    \/ TimerExpires

Handler ==
    \/ HeadersAborted \/ HeadersRejected \/ HeadersNeedBody \/ HeadersComplete
    \/ BodyFailed \/ BodyComplete
    \/ WriteFailed \/ WriteDone
    \/ TimerFired

Next == Peer \/ System \/ Handler

Spec == Init /\ [][Next]_vars

(* ------------------------------ properties ------------------------------ *)

\* The variables have their types.
TypeOK ==
    /\ s \in Sessions
    /\ sent \in Seq(Requests)
    /\ todo \in Nat
    /\ inbox \in Seq(Nat)
    /\ outbox \in Seq(Nat)
    /\ dispatched \in Seq([msg : Nat, keep : BOOLEAN])

\* At most one read or write of a session is under way, from its start to the
\* run of its handler: m_buffer, and the order of what is written to the
\* socket, rest on it, and no member of the class says that one is under way.
OneIoAtATime == OneIo(s)

\* An open connection is always attended to: its handler is queued, or it has
\* an operation under way and either the timer is armed for that operation or
\* a timeout that will close it is queued.  (shared_from_this keeps a session
\* alive only through its handlers.)
OpenIsWatched == s.open => Watched(s)

\* A header read starts where a message starts, whatever the segmentation of
\* the stream: no body unit is left over and none of the next message is
\* swallowed (do_remaining_read asks for what is missing and no more).
ReadsAtMessageStart ==
    \A i \in DOMAIN s.pending :
        s.pending[i].kind = "headers" /\ inbox # <<>> => Head(inbox) > 0

\* The handler sees the requests of the connection in the order they were
\* sent, each once, and skips none.
EachRequestOnce ==
    \A i \in DOMAIN dispatched : dispatched[i].msg = i

\* What the peer receives are the whole responses to its requests, in order,
\* and perhaps a truncated last one: nothing follows a response that was cut.
ResponsesInOrder ==
    \A i \in DOMAIN outbox :
        /\ outbox[i] = ((i - 1) \div RespSize) + 1
        /\ outbox[i] <= Len(dispatched)

\* Once a request said Connection: close, or the handler threw, no later
\* request of the connection is handled.
NothingAfterClose ==
    \A i \in DOMAIN dispatched : ~dispatched[i].keep => i = Len(dispatched)

\* http_configuration calls io_timeout a "Per-operation timeout": a timeout
\* that closes a connection ends the operation it was started for, which is
\* not over yet.
PerOperationTimeout ==
    [][TimerFired /\ s.open =>
                     \/ \E i \in DOMAIN s.pending : s.pending[i].id = Head(s.ready).id
                     \/ \E i \in 2 .. Len(s.ready) : s.ready[i].id = Head(s.ready).id]_vars
=============================================================================
