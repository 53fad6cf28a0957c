---------------------------- MODULE HttpSession ----------------------------
(***************************************************************************)
(* The state machine that http::server_session and http::client_session   *)
(* share: template class session of http/session.hpp.  Its members are a  *)
(* record, and each member function is an operator from the record before *)
(* the call to the record after it; ServerSession and ClientSession build *)
(* their actions from these operators.                                    *)
(*                                                                         *)
(* Boost.Asio is modelled as the code uses it.  Starting an asynchronous  *)
(* operation adds it to `pending'; when the operating system finishes it, *)
(* fails it, or the session cancels it, its completion handler joins      *)
(* `ready', the queue of the io_context, whose one thread runs the        *)
(* handlers in order.  A steady_timer that has expired has its handler in *)
(* `ready' too: cancelling the timer no longer reaches it.                *)
(***************************************************************************)
EXTENDS Naturals, Sequences

CONSTANTS MaxHeaderSize,  \* m_cfg.max_header_size, in units of the stream
          MaxBodySize     \* m_cfg.max_body_size, in units of the stream

ASSUME SizesAssumption == MaxHeaderSize \in Nat /\ MaxBodySize \in Nat

(***************************************************************************)
(* An operation and, once it is over, the call of its handler.  `msg' is  *)
(* the number of the message that the handler carries (0 for none), and   *)
(* `n' counts stream units: what a header read took beyond the headers,   *)
(* what a body read or a write has left to transfer.                      *)
(***************************************************************************)
IoKinds == {"headers", "body", "write"}

Codes == {"ok", "error", "not_found", "cancelled"}

IoOps  == [id: Nat, kind: IoKinds, msg: Nat, n: Nat, ec: Codes]
Timers == [id: Nat, kind: {"timer"}, msg: Nat, n: Nat, ec: Codes]

Sessions == [open      : BOOLEAN,   \* m_socket.is_open()
             timer     : Nat,       \* the operation m_timer is armed for, or 0
             pending   : Seq(IoOps),  \* operations the system has not finished
             ready     : Seq(IoOps \cup Timers),  \* handlers queued in the io_context
             ops       : Nat,       \* operations started so far
             keepAlive : BOOLEAN]   \* m_keep_alive

\* The constructor.
NewSession(isOpen) ==
    [open |-> isOpen, timer |-> 0, pending |-> <<>>, ready |-> <<>>,
     ops |-> 0, keepAlive |-> FALSE]

(* --------------------------- member functions --------------------------- *)

CancelTimer(s) == [s EXCEPT !.timer = 0]

\* expires_after cancels the wait of an earlier operation, and only a wait
\* that has not expired.
StartTimer(s, id) == [s EXCEPT !.timer = id]

\* (Wrong on purpose: a handler that runs after shutdown goes on.)
StartIoAnyway(s, kind, msg, n) ==
    LET id == s.ops + 1
        op == [id |-> id, kind |-> kind, msg |-> msg, n |-> n, ec |-> "ok"]
    IN  [s EXCEPT !.ops = id, !.timer = id, !.pending = Append(@, op)]

\* (Wrong on purpose: without start_timer.)
UntimedIo(s, kind, msg, n) ==
    LET id == s.ops + 1
        op == [id |-> id, kind |-> kind, msg |-> msg, n |-> n, ec |-> "ok"]
    IN  [s EXCEPT !.ops = id, !.pending = Append(@, op)]

\* An operation on a closed socket fails at once.
StartIo(s, kind, msg, n) ==
    LET id == s.ops + 1
        op == [id |-> id, kind |-> kind, msg |-> msg, n |-> n, ec |-> "ok"]
        t  == [StartTimer(s, id) EXCEPT !.ops = id]
    IN  IF s.open THEN [t EXCEPT !.pending = Append(@, op)]
                  ELSE [t EXCEPT !.ready = Append(@, [op EXCEPT !.ec = "error"])]

DoRead(s) == StartIo(s, "headers", 0, 0)

\* (Wrong on purpose: without start_timer.)
UntimedBodyRead(s, remaining, msg) == CancelTimer(StartIo(s, "body", msg, remaining))

DoRemainingRead(s, remaining, msg) == StartIo(s, "body", msg, remaining)

DoWrite(s, msg, size) == StartIo(s, "write", msg, size)

\* Closing the socket completes every pending operation with an error; what
\* is in `ready' stays there.
Shutdown(s) ==
    IF ~s.open THEN CancelTimer(s)
    ELSE [CancelTimer(s) EXCEPT
            !.open    = FALSE,
            !.pending = <<>>,
            !.ready   = @ \o [i \in DOMAIN s.pending |->
                                 [s.pending[i] EXCEPT !.ec = "cancelled"]]]

(* ---------------------- what the io_context does ------------------------ *)

\* Operation i is over: its handler, with code ec and the units n, is queued.
Complete(s, i, ec, n) ==
    [s EXCEPT !.pending = SubSeq(@, 1, i - 1) \o SubSeq(@, i + 1, Len(@)),
              !.ready   = Append(@, [s.pending[i] EXCEPT !.ec = ec, !.n = n])]

Queued(s, kinds) == \E i \in DOMAIN s.ready : s.ready[i].kind \in kinds

\* The timer queue is looked at again only when the handlers it queued before
\* have run, so at most one expired wait is in `ready'.
CanExpire(s) == s.timer # 0 /\ ~Queued(s, {"timer"})

Expire(s) ==
    [s EXCEPT !.timer = 0,
              !.ready = Append(@, [id |-> s.timer, kind |-> "timer", msg |-> 0,
                                   n |-> 0, ec |-> "ok"])]

\* The handler at the head of `ready' is about to run.
Running(s, kinds) == s.ready # <<>> /\ Head(s.ready).kind \in kinds

Pop(s) == [s EXCEPT !.ready = Tail(@)]

(***************************************************************************)
(* on_headers_read looks at the completion c of a header read and at the  *)
(* message m whose headers arrived.                                       *)
(***************************************************************************)
HeadersUsable(c, m) ==
    /\ c.ec = "ok"
    /\ m.size <= MaxHeaderSize
    /\ m.valid                     \* parse and content_length do not throw
    /\ m.len <= MaxBodySize
    /\ c.n <= m.len                \* no more body than Content-Length

\* Units a header read can take beyond the headers: m_buffer has room for
\* max_header_size + max_body_size.
FitsBuffer(m, k) == m.size + k <= MaxHeaderSize + MaxBodySize

(* ---------------------- what every session maintains -------------------- *)

\* At most one read or write is under way, from its start to the run of its
\* handler.
OneIo(s) ==
    /\ Len(s.pending) <= 1
    /\ s.pending # <<>> => ~Queued(s, IoKinds)
    /\ \A i, j \in DOMAIN s.ready :
         s.ready[i].kind \in IoKinds /\ s.ready[j].kind \in IoKinds => i = j

\* The handler of an operation is queued, or an operation is under way and its
\* timer is armed or a timeout is queued.
Watched(s) ==
    \/ Queued(s, IoKinds)
    \/ /\ s.pending # <<>>
       /\ s.timer = s.pending[1].id \/ Queued(s, {"timer"})
=============================================================================
