------------------------ MODULE ClientSessionProofs ------------------------
(***************************************************************************)
(* Safety of the client, for every set of responses, every limit on       *)
(* headers and bodies and every number of requests.                        *)
(***************************************************************************)
EXTENDS ClientSession, HttpSessionProofs

(***************************************************************************)
(* The inductive invariant.  Once(d) counts the calls of the handlers;    *)
(* Known(t, n) says that the handlers of the session carry responses that *)
(* were sent; Good(d, n) ties the two: a handler that waits is that of an *)
(* open session which is watched, and an open session for which nobody    *)
(* waits has nothing under way.                                            *)
(***************************************************************************)
Results == {"ok", "error", "timed_out", "not_connected"}

Answers == [req : Nat, result : Results, reply : Nat]

Clients == [s : Sessions, callback : Nat, issued : Nat, answers : Seq(Answers)]

Waiting(d) == IF d.callback = 0 THEN {} ELSE {d.callback}

Once(d) ==
    /\ d.callback <= d.issued
    /\ {d.answers[i].req : i \in DOMAIN d.answers} = (1 .. d.issued) \ Waiting(d)
    /\ \A i, j \in DOMAIN d.answers : d.answers[i].req = d.answers[j].req => i = j

Known(t, n) ==
    /\ \A i \in DOMAIN t.pending : t.pending[i].kind = "body" => t.pending[i].msg \in 1 .. n
    /\ \A i \in DOMAIN t.ready :
         t.ready[i].kind \in {"headers", "body"} /\ t.ready[i].ec = "ok" => t.ready[i].msg \in 1 .. n

\* A session that a hook may be called with: between two handlers, or in one.
Stable(d, n) ==
    /\ d \in Clients
    /\ Once(d)
    /\ OneIo(d.s) /\ ClosedIsQuiet(d.s)
    /\ Known(d.s, n)

Quiet(t) == t.pending = <<>> /\ ~Queued(t, IoKinds) /\ t.timer = 0

Good(d, n) ==
    /\ Stable(d, n)
    /\ d.callback # 0 => d.s.open /\ Watched(d.s)
    /\ d.s.open /\ d.callback = 0 => Quiet(d.s)

Replies == [to : Nat, size : Nat, valid : BOOLEAN, len : Nat, close : BOOLEAN]

\* What goes over the connection.
StreamsOK ==
    /\ replies \in Seq(Replies)
    /\ todo \in Nat
    /\ outbox \in Seq(Nat)
    /\ inbox \in Seq(Nat)
    /\ \A i \in DOMAIN inbox : inbox[i] \in 0 .. Len(replies)

\* Before it connects, the session has done nothing.
Unconnected ==
    conn \in {"off", "resolving"} =>
        /\ ~c.s.open /\ c.s.timer = 0 /\ c.s.pending = <<>> /\ c.s.ready = <<>>
        /\ c.callback = 0

IInv ==
    /\ Good(c, Len(replies))
    /\ StreamsOK
    /\ Unconnected

(* ------------------------- what a session carries ----------------------- *)

\* An operation that an idle session starts carries nothing, or what is known.
LEMMA StartKnown ==
    ASSUME NEW t, Idle(t), NEW n \in Nat, NEW kind \in IoKinds, NEW msg \in Nat,
           NEW size \in Nat, kind = "body" => msg \in 1 .. n
    PROVE  Known(StartIo(t, kind, msg, size), n)
<1> DEFINE r == StartIo(t, kind, msg, size)
<1>1. /\ \A i \in DOMAIN r.pending : r.pending[i].kind = kind /\ r.pending[i].msg = msg
      /\ \A i \in DOMAIN r.ready :
           r.ready[i].kind \in IoKinds => r.ready[i].kind = kind /\ r.ready[i].ec = "error"
  BY StartIoOps
<1> HIDE DEF r
<1>2. Known(r, n)
  BY <1>1 DEF Known, IoKinds
<1> QED BY <1>2 DEF r

LEMMA IdleKnown ==
    ASSUME NEW t, Idle(t), NEW n \in Nat
    PROVE  Known(t, n)
<1>1. t.ready \in Seq(IoOps \cup Timers) /\ t.pending = <<>>
  BY DEF Idle, Sessions
<1>2. \A i \in DOMAIN t.ready : t.ready[i].kind \notin IoKinds
  BY <1>1 DEF Idle, Queued
<1> QED BY <1>1, <1>2 DEF Known, IoKinds

\* A session for which somebody waits is sound.
LEMMA WaitingSound ==
    ASSUME NEW d, NEW n \in Nat, Good(d, n), d.callback # 0
    PROVE  Sound(d.s)
BY DEF Good, Stable, Clients, Sound

(* ------------------------ the calls of the handlers --------------------- *)

\* Updating the members of a client keeps its type.
LEMMA SessionUpdate ==
    ASSUME NEW d \in Clients, NEW t \in Sessions
    PROVE  [d EXCEPT !.s = t] \in Clients
BY DEF Clients

LEMMA AnswerUpdate ==
    ASSUME NEW d \in Clients, NEW a \in Seq(Answers)
    PROVE  [d EXCEPT !.callback = 0, !.answers = a] \in Clients
BY DEF Clients

LEMMA IssueUpdate ==
    ASSUME NEW d \in Clients, NEW k \in Nat, NEW t \in Sessions
    PROVE  [d EXCEPT !.issued = k, !.callback = k, !.s = t] \in Clients
BY DEF Clients

LEMMA RefuseUpdate ==
    ASSUME NEW d \in Clients, NEW k \in Nat, NEW a \in Seq(Answers)
    PROVE  [d EXCEPT !.issued = k, !.answers = a] \in Clients
BY DEF Clients

\* Calling the handler that waits counts its request as answered.
LEMMA AnswerOnce ==
    ASSUME NEW d \in Clients, Once(d), NEW a \in Answers, a.req = d.callback,
           d.callback # 0,
           NEW e, e = [d EXCEPT !.callback = 0, !.answers = Append(@, a)]
    PROVE  e \in Clients /\ Once(e) /\ e.s = d.s /\ e.callback = 0 /\ e.issued = d.issued
<1> DEFINE old == d.answers
           new == Append(old, a)
<1>1. old \in Seq(Answers) /\ d.callback \in Nat /\ d.issued \in Nat
  BY DEF Clients
<1>2. /\ new \in Seq(Answers)
      /\ Len(old) + 1 \in DOMAIN new /\ new[Len(old) + 1] = a
      /\ \A i \in DOMAIN old : i \in DOMAIN new /\ new[i] = old[i]
      /\ \A i \in DOMAIN new : i = Len(old) + 1 \/ (i \in DOMAIN old /\ new[i] = old[i])
  BY <1>1
<1> HIDE DEF new
<1>3. /\ e = [d EXCEPT !.callback = 0, !.answers = new]
      /\ e.s = d.s /\ e.callback = 0 /\ e.issued = d.issued /\ e.answers = new
  BY DEF Clients, new
<1>4. e \in Clients
  <2>1. new \in Seq(Answers)
    BY <1>2
  <2>2. [d EXCEPT !.callback = 0, !.answers = new] \in Clients
    BY <2>1, AnswerUpdate
  <2> QED BY <1>3, <2>2
<1> HIDE DEF old
<1>5. \A i \in DOMAIN old : old[i].req # d.callback
  BY DEF Once, Waiting, old
<1>6. {new[i].req : i \in DOMAIN new} = {old[i].req : i \in DOMAIN old} \cup {d.callback}
  BY <1>2
<1>7. {new[i].req : i \in DOMAIN new} = 1 .. d.issued
  <2> DEFINE asked == {old[i].req : i \in DOMAIN old}
             k == d.callback
             n == d.issued
  <2>1. asked = (1 .. n) \ {k} /\ k \in 1 .. n
    BY <1>1 DEF Once, Waiting, old
  <2>2. {new[i].req : i \in DOMAIN new} = asked \cup {k}
    BY <1>6
  <2> HIDE DEF asked, k, n
  <2>3. {new[i].req : i \in DOMAIN new} = 1 .. n
    BY <2>1, <2>2
  <2> QED BY <2>3 DEF n
<1>8. \A i, j \in DOMAIN new : new[i].req = new[j].req => i = j
  BY <1>2, <1>5 DEF Once, old
<1>9. Once(e)
  <2>1. {e.answers[i].req : i \in DOMAIN e.answers} = 1 .. e.issued
    BY <1>3, <1>7
  <2>2. Waiting(e) = {} /\ e.callback <= e.issued
    BY <1>1, <1>3 DEF Waiting
  <2> QED BY <1>3, <1>8, <2>1, <2>2 DEF Once
<1> QED BY <1>3, <1>4, <1>9

\* A request of a closed client is answered at once.
LEMMA RefuseOnce ==
    ASSUME NEW d \in Clients, Once(d), d.callback = 0,
           NEW q, q = d.issued + 1,
           NEW e, e = [d EXCEPT !.issued = q, !.answers = Append(@, Failure(q, "not_connected"))]
    PROVE  e \in Clients /\ Once(e) /\ e.s = d.s /\ e.callback = 0
<1> DEFINE old == d.answers
           a   == Failure(q, "not_connected")
           new == Append(old, a)
<1>1. old \in Seq(Answers) /\ d.issued \in Nat /\ q \in Nat
  BY DEF Clients
<1>2. a \in Answers /\ a.req = q
  BY <1>1 DEF Failure, Answers, Results
<1> HIDE DEF a
<1>3. /\ new \in Seq(Answers)
      /\ Len(old) + 1 \in DOMAIN new /\ new[Len(old) + 1] = a
      /\ \A i \in DOMAIN old : i \in DOMAIN new /\ new[i] = old[i]
      /\ \A i \in DOMAIN new : i = Len(old) + 1 \/ (i \in DOMAIN old /\ new[i] = old[i])
  BY <1>1, <1>2
<1> HIDE DEF new
<1>4. /\ e = [d EXCEPT !.issued = q, !.answers = new]
      /\ e.s = d.s /\ e.callback = 0 /\ e.issued = q /\ e.answers = new
  BY DEF Clients, new, a
<1>5. e \in Clients
  <2>1. new \in Seq(Answers)
    BY <1>3
  <2>2. [d EXCEPT !.issued = q, !.answers = new] \in Clients
    BY <1>1, <2>1, RefuseUpdate
  <2> QED BY <1>4, <2>2
<1> HIDE DEF old
<1>6. Waiting(d) = {} /\ Waiting(e) = {}
  BY <1>4 DEF Waiting
<1> DEFINE asked == {old[i].req : i \in DOMAIN old}
           n == d.issued
<1>7. asked = 1 .. n
  BY <1>6 DEF Once, old
<1>8. \A i \in DOMAIN old : old[i].req \in 1 .. n
  BY <1>7
<1>9. \A i \in DOMAIN old : old[i].req # q
  BY <1>1, <1>8
<1>10. {new[i].req : i \in DOMAIN new} = asked \cup {q}
  BY <1>2, <1>3
<1>11. {new[i].req : i \in DOMAIN new} = 1 .. q
  <2> HIDE DEF asked
  <2>1. 1 .. q = (1 .. n) \cup {q}
    BY <1>1
  <2> QED BY <1>7, <1>10, <2>1
<1>12. \A i, j \in DOMAIN new : new[i].req = new[j].req => i = j
  BY <1>2, <1>3, <1>9 DEF Once, old
<1>13. Once(e)
  <2>1. {e.answers[i].req : i \in DOMAIN e.answers} = (1 .. e.issued) \ Waiting(e)
    BY <1>4, <1>6, <1>11
  <2>2. e.callback <= e.issued
    BY <1>1, <1>4
  <2> QED BY <1>4, <1>12, <2>1, <2>2 DEF Once
<1> QED BY <1>4, <1>5, <1>13

\* A request of a connected client waits for its answer.
LEMMA IssueOnce ==
    ASSUME NEW d \in Clients, Once(d), d.callback = 0,
           NEW q, q = d.issued + 1,
           NEW e, e.callback = q, e.issued = q, e.answers = d.answers
    PROVE  Once(e) /\ e.callback # 0
<1>1. d.issued \in Nat /\ q \in Nat /\ q # 0
  BY DEF Clients
<1>3. e.callback = q /\ e.issued = q /\ e.answers = d.answers
  OBVIOUS
<1>4. Waiting(d) = {} /\ Waiting(e) = {q}
  BY <1>1, <1>3 DEF Waiting
<1>5. (1 .. d.issued) \ Waiting(d) = (1 .. e.issued) \ Waiting(e)
  <2>1. 1 .. d.issued = (1 .. q) \ {q}
    BY <1>1
  <2> QED BY <1>3, <1>4, <2>1
<1>6. Once(e)
  <2>1. {e.answers[i].req : i \in DOMAIN e.answers} = (1 .. e.issued) \ Waiting(e)
    BY <1>3, <1>5 DEF Once
  <2>2. e.callback <= e.issued
    BY <1>1, <1>3
  <2> QED BY <1>3, <2>1, <2>2 DEF Once
<1> QED BY <1>1, <1>3, <1>6

(* ------------------------- the hooks of the client ---------------------- *)

LEMMA RequestGood ==
    ASSUME NEW d, NEW n \in Nat, Good(d, n), d.callback = 0
    PROVE  Good(AsyncRequest(d), n)
<1> DEFINE q == d.issued + 1
           e == AsyncRequest(d)
           t == DoWrite(d.s, q, ReqSize)
<1>1. d \in Clients /\ d.s \in Sessions /\ Once(d) /\ d.issued \in Nat /\ q \in Nat
  BY DEF Good, Stable, Clients
<1>2. CASE d.s.open
  <2>1. e = [d EXCEPT !.issued = q, !.callback = q, !.s = t]
    BY <1>2 DEF AsyncRequest
  <2>2. Idle(d.s)
    BY <1>1, <1>2 DEF Good, Stable, Quiet, Idle
  <2>3. ReqSize \in Nat /\ "write" \in IoKinds
    BY ClientAssumption DEF IoKinds
  <2>4. Sound(t)
    BY <1>1, <2>2, <2>3, DoWriteSound
  <2>5. Known(t, n)
    BY <1>1, <2>2, <2>3, StartKnown DEF DoWrite
  <2>6. t.open
    BY <1>2, <2>2, StartIoOps DEF DoWrite
  <2>9. q = d.issued + 1
    OBVIOUS
  <2> HIDE DEF q, t, e
  <2>7. t \in Sessions
    BY <2>4 DEF Sound
  <2>11. e \in Clients
    BY <1>1, <2>1, <2>7, IssueUpdate
  <2>12. e.s = t /\ e.callback = q /\ e.issued = q /\ e.answers = d.answers
    BY <1>1, <2>1 DEF Clients
  <2>8. e \in Clients /\ Once(e) /\ e.s = t /\ e.callback # 0
    BY <1>1, <2>9, <2>11, <2>12, IssueOnce
  <2>10. Good(e, n)
    BY <2>4, <2>5, <2>6, <2>8 DEF Good, Stable, Sound
  <2> QED BY <2>10 DEF e
<1>3. CASE ~d.s.open
  <2>1. e = [d EXCEPT !.issued = q, !.answers = Append(@, Failure(q, "not_connected"))]
    BY <1>3 DEF AsyncRequest
  <2> HIDE DEF q, e
  <2>2. e \in Clients /\ Once(e) /\ e.s = d.s /\ e.callback = 0
    BY <1>1, <2>1, RefuseOnce DEF q
  <2>3. Good(e, n)
    BY <1>3, <2>2 DEF Good, Stable
  <2> QED BY <2>3 DEF e
<1> QED BY <1>2, <1>3

\* Calling the handler, and the request it may make, of a session that has
\* nothing under way unless it is closed.
LEMMA CallGood ==
    ASSUME NEW d, NEW n \in Nat, Stable(d, n), d.s.open => Quiet(d.s),
           d.callback # 0, NEW a \in Answers, a.req = d.callback,
           NEW e \in Call(d, a)
    PROVE  Good(e, n)
<1> DEFINE f == [d EXCEPT !.callback = 0, !.answers = Append(@, a)]
<1>1. e = f \/ e = AsyncRequest(f)
  BY DEF Call
<1>2. d \in Clients /\ Once(d)
  BY DEF Stable
<1> HIDE DEF f
<1>3. f \in Clients /\ Once(f) /\ f.s = d.s /\ f.callback = 0
  <2>1. f = [d EXCEPT !.callback = 0, !.answers = Append(@, a)]
    BY DEF f
  <2> QED BY <1>2, <2>1, AnswerOnce
<1>4. Good(f, n)
  BY <1>3 DEF Good, Stable
<1>5. Good(AsyncRequest(f), n)
  BY <1>3, <1>4, RequestGood
<1> QED BY <1>1, <1>4, <1>5

\* on_message_parsed, in the handler of a read.
LEMMA ParsedGood ==
    ASSUME NEW d, NEW n \in Nat, Stable(d, n), d.s.open => Quiet(d.s),
           NEW r \in Nat, replies[r].close \in BOOLEAN,
           NEW e \in OnMessageParsed(d, r)
    PROVE  Good(e, n)
<1> DEFINE keep == ~replies[r].close
           t == [d.s EXCEPT !.keepAlive = keep]
           f == [d EXCEPT !.s = t]
<1>1. d \in Clients /\ d.s \in Sessions
  BY DEF Stable, Clients
<1>2. /\ t \in Sessions /\ t.open = d.s.open /\ t.timer = d.s.timer
      /\ t.pending = d.s.pending /\ t.ready = d.s.ready
  BY <1>1 DEF Sessions
<1>3. f = [d EXCEPT !.s.keepAlive = keep]
  BY <1>1 DEF Clients, Sessions
<1>4. IF d.callback = 0 THEN e = f
      ELSE e \in Call(f, [req |-> d.callback, result |-> "ok", reply |-> r])
  BY <1>3 DEF OnMessageParsed
<1> HIDE DEF t
<1>5. /\ f \in Clients /\ f.s = t /\ f.callback = d.callback
      /\ f.issued = d.issued /\ f.answers = d.answers
  BY <1>1, <1>2, SessionUpdate DEF Clients
<1> HIDE DEF f
<1>6. Stable(f, n) /\ (f.s.open => Quiet(f.s))
  BY <1>2, <1>5 DEF Stable, Once, Waiting, OneIo, ClosedIsQuiet, Known, Quiet, Queued
<1>7. CASE d.callback = 0
  BY <1>4, <1>5, <1>6, <1>7 DEF Good
<1>8. CASE d.callback # 0
  <2> DEFINE a == [req |-> d.callback, result |-> "ok", reply |-> r]
  <2>1. a \in Answers /\ a.req = f.callback
    BY <1>1, <1>5 DEF Answers, Results, Clients
  <2>2. e \in Call(f, a)
    BY <1>4, <1>8
  <2> HIDE DEF a
  <2> QED BY <1>5, <1>6, <1>8, <2>1, <2>2, CallGood
<1> QED BY <1>7, <1>8

LEMMA ShutdownStable ==
    ASSUME NEW d, NEW n \in Nat, Stable(d, n),
           NEW e, e = [d EXCEPT !.s = Shutdown(@)]
    PROVE  /\ Stable(e, n) /\ ~e.s.open
           /\ e.callback = d.callback /\ e.issued = d.issued /\ e.answers = d.answers
<1> DEFINE t == Shutdown(d.s)
<1>1. d \in Clients /\ d.s \in Sessions
  BY DEF Stable, Clients
<1>2. Sound(t) /\ ~t.open
  BY <1>1, ShutdownSound DEF Stable
<1>3. /\ t.pending = <<>>
      /\ \A k \in DOMAIN t.ready :
           \/ k \in DOMAIN d.s.ready /\ t.ready[k] = d.s.ready[k]
           \/ t.ready[k].ec = "cancelled"
  BY <1>1, ShutdownOps DEF Stable
<1> HIDE DEF t
<1>4. Known(t, n)
  BY <1>3 DEF Stable, Known
<1>5. e = [d EXCEPT !.s = t] /\ t \in Sessions
  BY <1>2 DEF t, Sound
<1>6. /\ e \in Clients /\ e.s = t /\ e.callback = d.callback
      /\ e.issued = d.issued /\ e.answers = d.answers
  BY <1>1, <1>5, SessionUpdate DEF Clients
<1> QED BY <1>2, <1>4, <1>6 DEF Stable, Sound, Once, Waiting

\* on_error closes the session and calls the handler that waits, if any.
LEMMA ErrorGood ==
    ASSUME NEW d, NEW n \in Nat, Stable(d, n), NEW result \in Results,
           NEW e \in OnError(d, result)
    PROVE  Good(e, n)
<1> DEFINE f == [d EXCEPT !.s = Shutdown(@)]
           a == Failure(d.callback, result)
<1>1. IF d.callback = 0 THEN e = f ELSE e \in Call(f, a)
  BY DEF OnError
<1> HIDE DEF f
<1>2. Stable(f, n) /\ ~f.s.open /\ f.callback = d.callback
  BY ShutdownStable DEF f
<1>3. CASE d.callback = 0
  BY <1>1, <1>2, <1>3 DEF Good
<1>4. CASE d.callback # 0
  <2>1. a \in Answers /\ a.req = f.callback
    BY <1>2 DEF Stable, Clients, Answers, Failure
  <2>2. e \in Call(f, a)
    BY <1>1, <1>4
  <2> HIDE DEF a
  <2> QED BY <1>2, <1>4, <2>1, <2>2, CallGood
<1> QED BY <1>3, <1>4

(* -------------------- steps of the operating system --------------------- *)

LEMMA CompleteKnown ==
    ASSUME NEW t, NEW n \in Nat, Sound(t), Known(t, n),
           NEW i \in DOMAIN t.pending, NEW ec \in Codes, NEW k \in Nat,
           ec = "ok" => t.pending[i].kind = "write" \/ t.pending[i].msg \in 1 .. n
    PROVE  Known(Complete(t, i, ec, k), n) /\ Complete(t, i, ec, k).open = t.open
<1> DEFINE r == Complete(t, i, ec, k)
<1>1. i = 1
  BY PendingFacts
<1>2. /\ r.pending = <<>>
      /\ \A j \in DOMAIN r.ready :
           \/ j \in DOMAIN t.ready /\ r.ready[j] = t.ready[j]
           \/ /\ r.ready[j].kind = t.pending[1].kind
              /\ r.ready[j].msg = t.pending[1].msg
              /\ r.ready[j].ec = ec
      /\ r.open = t.open
  BY CompleteOps
<1> HIDE DEF r
<1>3. Known(r, n)
  BY <1>1, <1>2 DEF Known
<1> QED BY <1>2, <1>3 DEF r

LEMMA ExpireKnown ==
    ASSUME NEW t \in Sessions, NEW n \in Nat, Known(t, n)
    PROVE  Known(Expire(t), n) /\ Expire(t).open = t.open
<1> DEFINE r == Expire(t)
<1>1. /\ r.pending = t.pending
      /\ \A k \in DOMAIN r.ready :
           \/ k \in DOMAIN t.ready /\ r.ready[k] = t.ready[k]
           \/ r.ready[k].kind = "timer"
      /\ r.open = t.open
  BY ExpireOps
<1> HIDE DEF r
<1>2. Known(r, n)
  BY <1>1 DEF Known
<1> QED BY <1>1, <1>2 DEF r

LEMMA ProgressKnown ==
    ASSUME NEW t \in Sessions, NEW n \in Nat, Known(t, n), t.pending # <<>>,
           NEW op \in IoOps, op.kind = t.pending[1].kind,
           op.kind = "body" => op.msg = t.pending[1].msg
    PROVE  /\ Known([t EXCEPT !.pending = <<op>>], n)
           /\ [t EXCEPT !.pending = <<op>>].open = t.open
<1> DEFINE p == <<op>>
           r == [t EXCEPT !.pending = p]
<1>1. \A i \in DOMAIN p : p[i] = op
  OBVIOUS
<1>2. 1 \in DOMAIN t.pending
  <2>1. t.pending \in Seq(IoOps)
    BY DEF Sessions
  <2> QED BY <2>1
<1> HIDE DEF p
<1>3. r.pending = p /\ r.ready = t.ready /\ r.open = t.open
  BY DEF Sessions
<1> HIDE DEF r
<1>4. Known(r, n)
  BY <1>1, <1>2, <1>3 DEF Known
<1> QED BY <1>3, <1>4 DEF r, p

\* An operation that goes on leaves the client waiting for it.
LEMMA AdvanceGood ==
    ASSUME NEW d, NEW n \in Nat, Stable(d, n), d.s.open <=> d.callback # 0,
           NEW t, Sound(t), Known(t, n), t.open = d.s.open,
           NEW e, e = [d EXCEPT !.s = t]
    PROVE  Good(e, n)
<1>1. d \in Clients /\ t \in Sessions
  BY DEF Stable, Sound
<1>2. e \in Clients
  BY <1>1, SessionUpdate
<1>3. e.s = t /\ e.callback = d.callback /\ e.issued = d.issued /\ e.answers = d.answers
  BY <1>1 DEF Clients
<1>4. Once(e)
  BY <1>3 DEF Stable, Once, Waiting
<1>5. Stable(e, n)
  BY <1>2, <1>3, <1>4 DEF Stable, Sound
<1> QED BY <1>3, <1>5 DEF Good, Sound

\* A response that arrives leaves what is known of the earlier ones.
LEMMA GoodMonotonic ==
    ASSUME NEW d, NEW n \in Nat, NEW m \in Nat, n <= m, Good(d, n)
    PROVE  Good(d, m)
<1>1. \A k \in 1 .. n : k \in 1 .. m
  OBVIOUS
<1> QED BY <1>1 DEF Good, Stable, Known

(* -------------------------- the invariance proof ------------------------ *)

LEMMA InitInv == Init => IInv
<1> SUFFICES ASSUME Init PROVE IInv
  OBVIOUS
<1>1. PICK sync \in BOOLEAN :
        /\ c = [s |-> NewSession(sync), callback |-> 0, issued |-> 0, answers |-> <<>>]
        /\ conn = IF sync THEN "up" ELSE "off"
  BY DEF Init
<1> DEFINE t == NewSession(sync)
<1>2. Idle(t)
  BY NewSessionIdle
<1>3. t.open = sync /\ t.timer = 0 /\ t.pending = <<>> /\ t.ready = <<>>
  BY DEF NewSession
<1> HIDE DEF t
<1>4. c.s = t /\ c.callback = 0 /\ c.issued = 0 /\ c.answers = <<>>
  BY <1>1 DEF t
<1>5. c \in Clients
  BY <1>1, <1>2 DEF Clients, Idle, t
<1>6. Once(c)
  BY <1>4 DEF Once, Waiting
<1>7. /\ replies = <<>> /\ todo = 0 /\ inbox = <<>> /\ outbox = <<>>
      /\ Len(replies) = 0
  BY DEF Init
<1>8. Good(c, 0)
  <2>1. Known(t, 0) /\ OneIo(t) /\ ClosedIsQuiet(t)
    BY <1>2, IdleKnown, IdleFacts
  <2> QED BY <1>2, <1>3, <1>4, <1>5, <1>6, <2>1 DEF Good, Stable, Quiet, Idle
<1>9. Unconnected
  BY <1>1, <1>3, <1>4 DEF Unconnected
<1> QED BY <1>7, <1>8, <1>9 DEF IInv, StreamsOK

\* What the state says of the numbers in it.
LEMMA StateFacts ==
    ASSUME IInv
    PROVE  /\ Good(c, Len(replies)) /\ Stable(c, Len(replies))
           /\ c \in Clients /\ c.s \in Sessions
           /\ Len(replies) \in Nat
           /\ \A r \in 1 .. Len(replies) :
                replies[r].len \in Nat /\ replies[r].close \in BOOLEAN
<1>1. Good(c, Len(replies)) /\ Stable(c, Len(replies)) /\ c \in Clients /\ c.s \in Sessions
  BY DEF IInv, Good, Stable, Clients
<1>2. replies \in Seq(Replies)
  BY DEF IInv, StreamsOK
<1>3. Len(replies) \in Nat /\ \A r \in 1 .. Len(replies) : replies[r] \in Replies
  BY <1>2
<1> QED BY <1>1, <1>3 DEF Replies

\* A session that does something is connected.
LEMMA BusyIsConnected ==
    ASSUME IInv, c.s.pending # <<>> \/ c.s.ready # <<>> \/ c.s.timer # 0
    PROVE  conn \notin {"off", "resolving"}
BY DEF IInv, Unconnected

\* A step that only moves the session on.
LEMMA SessionStep ==
    ASSUME IInv, Good(c', Len(replies)), conn \notin {"off", "resolving"},
           UNCHANGED <<conn, replies, todo>>,
           outbox' \in Seq(Nat), inbox' \in Seq(Nat),
           \A i \in DOMAIN inbox' : inbox'[i] \in 0 .. Len(replies)
    PROVE  IInv'
<1>1. Good(c, Len(replies))'
  OBVIOUS
<1>2. StreamsOK'
  BY DEF IInv, StreamsOK
<1>3. Unconnected'
  BY DEF Unconnected
<1> QED BY <1>1, <1>2, <1>3 DEF IInv

LEMMA StreamsUnchanged ==
    ASSUME IInv, UNCHANGED <<outbox, inbox>>
    PROVE  /\ outbox' \in Seq(Nat) /\ inbox' \in Seq(Nat)
           /\ \A i \in DOMAIN inbox' : inbox'[i] \in 0 .. Len(replies)
BY DEF IInv, StreamsOK

LEMMA ProgramInv == ASSUME IInv, Program PROVE IInv'
<1>1. Good(c, Len(replies)) /\ Len(replies) \in Nat
  BY StateFacts
<1>2. CASE Request
  <2>1. /\ c' = AsyncRequest(c) /\ c.callback = 0
        /\ UNCHANGED <<conn, outbox, replies, todo, inbox, escaped>>
    BY <1>2 DEF Request
  <2>2. Good(c', Len(replies))
    BY <1>1, <2>1, RequestGood
  <2>3. Unconnected'
    <3>1. ASSUME conn \in {"off", "resolving"}
          PROVE  c'.s = c.s /\ c'.callback = 0
      <4> DEFINE q == c.issued + 1
      <4>1. ~c.s.open /\ c \in Clients
        BY <3>1, StateFacts DEF IInv, Unconnected
      <4>2. c' = [c EXCEPT !.issued = q, !.answers = Append(@, Failure(q, "not_connected"))]
        BY <2>1, <4>1 DEF AsyncRequest
      <4>3. q = c.issued + 1 /\ Once(c)
        BY <1>1 DEF Good, Stable
      <4> DEFINE e == c'
      <4>4. e = [c EXCEPT !.issued = q, !.answers = Append(@, Failure(q, "not_connected"))]
        BY <4>2
      <4> HIDE DEF q, e
      <4>5. e.s = c.s /\ e.callback = 0
        BY <2>1, <4>1, <4>3, <4>4, RefuseOnce
      <4> QED BY <4>5 DEF e
    <3> QED BY <2>1, <3>1 DEF IInv, Unconnected
  <2> QED BY <2>1, <2>2, <2>3 DEF IInv, StreamsOK
<1>3. CASE OnConnected
  BY <1>3 DEF OnConnected, IInv, StreamsOK, Unconnected
<1> QED BY <1>2, <1>3 DEF Program

LEMMA ServerInv == ASSUME IInv, ServerReplies \/ ServerSendsBody PROVE IInv'
<1>1. Good(c, Len(replies)) /\ Len(replies) \in Nat /\ inbox \in Seq(Nat)
  BY StateFacts DEF IInv, StreamsOK
<1>2. CASE ServerReplies
  <2>1. PICK q \in Asked, r \in Responses :
          /\ replies' = Append(replies, [to |-> q, size |-> r.size, valid |-> r.valid,
                                         len |-> r.len, close |-> r.close])
          /\ todo' = r.len
    BY <1>2 DEF ServerReplies
  <2>2. inbox' = Append(inbox, Len(replies) + 1) /\ UNCHANGED <<c, conn, outbox, escaped>>
    BY <1>2 DEF ServerReplies
  <2> DEFINE reply == [to |-> q, size |-> r.size, valid |-> r.valid,
                       len |-> r.len, close |-> r.close]
  <2>3. q \in Nat /\ r.len \in Nat /\ reply \in Replies
    <3>1. q \in Nat
      BY <2>1 DEF Asked, IInv, StreamsOK
    <3> QED BY <2>1, <3>1, ClientAssumption DEF Replies
  <2>4. replies \in Seq(Replies)
    BY DEF IInv, StreamsOK
  <2> HIDE DEF reply
  <2>5. replies' \in Seq(Replies) /\ Len(replies') = Len(replies) + 1
    BY <2>1, <2>3, <2>4 DEF reply
  <2>6. inbox' \in Seq(Nat) /\ \A i \in DOMAIN inbox' : inbox'[i] \in 0 .. Len(replies')
    <3>1. \A i \in DOMAIN inbox' :
            inbox'[i] = Len(replies) + 1 \/ (i \in DOMAIN inbox /\ inbox'[i] = inbox[i])
      BY <1>1, <2>2
    <3>2. \A k \in 0 .. Len(replies) : k \in 0 .. Len(replies')
      BY <1>1, <2>5
    <3>3. Len(replies) + 1 \in 0 .. Len(replies') /\ inbox' \in Seq(Nat)
      BY <1>1, <2>2, <2>5
    <3> QED BY <3>1, <3>2, <3>3 DEF IInv, StreamsOK
  <2>7. StreamsOK'
    BY <2>1, <2>2, <2>3, <2>5, <2>6 DEF IInv, StreamsOK
  <2>8. Good(c, Len(replies'))
    <3> DEFINE m == Len(replies')
    <3>1. m \in Nat /\ Len(replies) <= m
      BY <1>1, <2>5
    <3> HIDE DEF m
    <3>2. Good(c, m)
      BY <1>1, <3>1, GoodMonotonic
    <3> QED BY <3>2 DEF m
  <2>9. Good(c, Len(replies))' /\ Unconnected'
    BY <2>2, <2>8 DEF IInv, Unconnected
  <2> QED BY <2>7, <2>9 DEF IInv
<1>3. CASE ServerSendsBody
  <2>1. /\ todo' = todo - 1 /\ todo > 0
        /\ inbox' = Append(inbox, 0)
        /\ UNCHANGED <<c, conn, outbox, replies, escaped>>
    BY <1>3 DEF ServerSendsBody
  <2>2. inbox' \in Seq(Nat) /\ \A i \in DOMAIN inbox' : inbox'[i] \in 0 .. Len(replies)
    <3>1. \A i \in DOMAIN inbox' :
            inbox'[i] = 0 \/ (i \in DOMAIN inbox /\ inbox'[i] = inbox[i])
      BY <1>1, <2>1
    <3>2. 0 \in 0 .. Len(replies) /\ inbox' \in Seq(Nat)
      BY <1>1, <2>1
    <3> QED BY <3>1, <3>2 DEF IInv, StreamsOK
  <2>3. StreamsOK'
    BY <2>1, <2>2 DEF IInv, StreamsOK
  <2> QED BY <2>1, <2>3 DEF IInv, Unconnected
<1> QED BY <1>2, <1>3

LEMMA ConnectInv == ASSUME IInv, Resolved \/ Connected \/ ConnectFails PROVE IInv'
<1>1. CASE Resolved
  <2> DEFINE t == [c.s EXCEPT !.open = TRUE]
  <2>1. /\ conn = "resolving" /\ conn' = "connecting"
        /\ c' = [c EXCEPT !.s.open = TRUE]
        /\ UNCHANGED <<outbox, replies, todo, inbox>>
    BY <1>1 DEF Resolved
  <2>2. /\ c \in Clients /\ c.s \in Sessions /\ Stable(c, Len(replies))
        /\ c.s.timer = 0 /\ c.s.pending = <<>> /\ c.s.ready = <<>> /\ c.callback = 0
    BY <2>1, StateFacts DEF IInv, Unconnected
  <2>3. c' = [c EXCEPT !.s = t]
    BY <2>1, <2>2 DEF Clients, Sessions
  <2>4. t \in Sessions /\ t.timer = 0 /\ t.pending = <<>> /\ t.ready = <<>>
    BY <2>2 DEF Sessions
  <2> HIDE DEF t
  <2>5. c' \in Clients
    BY <2>2, <2>3, <2>4, SessionUpdate
  <2>6. c'.s = t /\ c'.callback = 0 /\ c'.issued = c.issued /\ c'.answers = c.answers
    BY <2>2, <2>3 DEF Clients
  <2>7. Once(c')
    BY <2>2, <2>6 DEF Stable, Once, Waiting
  <2>8. OneIo(t) /\ ClosedIsQuiet(t) /\ Known(t, Len(replies)) /\ Quiet(t)
    <3>1. Len(t.pending) <= 1
      BY <2>4
    <3>2. DOMAIN t.ready = {} /\ DOMAIN t.pending = {}
      BY <2>4
    <3> QED BY <2>4, <3>1, <3>2 DEF OneIo, ClosedIsQuiet, Known, Quiet, Queued
  <2>9. Good(c', Len(replies))
    BY <2>5, <2>6, <2>7, <2>8 DEF Good, Stable
  <2> QED BY <2>1, <2>9 DEF IInv, StreamsOK, Unconnected
<1>2. CASE Connected
  BY <1>2 DEF Connected, IInv, StreamsOK, Unconnected
<1>3. CASE ConnectFails
  BY <1>3 DEF ConnectFails, IInv, StreamsOK, Unconnected
<1> QED BY <1>1, <1>2, <1>3

\* Taking a prefix of the stream leaves known units.
LEMMA InboxSuffix ==
    ASSUME IInv, NEW k \in Nat \ {0}
    PROVE  /\ SubSeq(inbox, k, Len(inbox)) \in Seq(Nat)
           /\ \A i \in DOMAIN SubSeq(inbox, k, Len(inbox)) :
                SubSeq(inbox, k, Len(inbox))[i] \in 0 .. Len(replies)
<1>1. inbox \in Seq(Nat)
  BY DEF IInv, StreamsOK
<1> DEFINE q == SubSeq(inbox, k, Len(inbox))
<1>2. q \in Seq(Nat) /\ \A i \in DOMAIN q : \E j \in DOMAIN inbox : q[i] = inbox[j]
  BY <1>1
<1> QED BY <1>2 DEF IInv, StreamsOK

\* An operation that is under way on a client.
LEMMA UnderWay ==
    ASSUME IInv, NEW i \in DOMAIN c.s.pending
    PROVE  /\ i = 1 /\ c.s.pending # <<>> /\ c.s.pending = <<c.s.pending[1]>>
           /\ c.s.pending[1] \in IoOps
           /\ c.s.pending[1].kind = "body" => c.s.pending[1].msg \in 1 .. Len(replies)
           /\ c.callback # 0 /\ Sound(c.s) /\ Known(c.s, Len(replies))
           /\ conn \notin {"off", "resolving"}
<1>1. Good(c, Len(replies)) /\ Len(replies) \in Nat
  BY StateFacts
<1>2. c.s.pending # <<>>
  OBVIOUS
<1>3. c.callback # 0
  BY <1>1, <1>2 DEF Good, Stable, ClosedIsQuiet, Quiet
<1>4. Sound(c.s) /\ Known(c.s, Len(replies))
  BY <1>1, <1>3, WaitingSound DEF Good, Stable
<1>5. conn \notin {"off", "resolving"}
  BY <1>2, BusyIsConnected
<1> QED BY <1>2, <1>3, <1>4, <1>5, PendingFacts DEF Known

\* A step of the operation under way.
LEMMA IoStep ==
    ASSUME IInv, NEW i \in DOMAIN c.s.pending,
           NEW t, Sound(t), Known(t, Len(replies)), t.open = c.s.open,
           c' = [c EXCEPT !.s = t],
           UNCHANGED <<conn, replies, todo>>,
           outbox' \in Seq(Nat), inbox' \in Seq(Nat),
           \A j \in DOMAIN inbox' : inbox'[j] \in 0 .. Len(replies)
    PROVE  IInv'
<1> DEFINE e == c'
           n == Len(replies)
<1>1. /\ Stable(c, n) /\ n \in Nat /\ (c.s.open <=> c.callback # 0)
      /\ conn \notin {"off", "resolving"}
  BY StateFacts, UnderWay DEF Good
<1>2. e = [c EXCEPT !.s = t] /\ Known(t, n)
  OBVIOUS
<1> HIDE DEF e, n
<1>3. Good(e, n)
  BY <1>1, <1>2, AdvanceGood
<1> QED BY <1>1, <1>3, SessionStep DEF e, n

LEMMA IoInv ==
    ASSUME IInv, NEW i \in DOMAIN c.s.pending,
           HeadersArrive(i) \/ HeadersOverflow(i) \/ BodyArrives(i) \/ WriteSome(i) \/ IoFails(i)
    PROVE  IInv'
<1> DEFINE n == Len(replies)
           op0 == c.s.pending[1]
<1>1. n \in Nat /\ c \in Clients /\ c.s \in Sessions
  BY StateFacts
<1>2. /\ i = 1 /\ c.s.pending # <<>> /\ c.s.pending = <<op0>>
      /\ op0 \in IoOps
      /\ op0.kind = "body" => op0.msg \in 1 .. n
      /\ c.callback # 0 /\ Sound(c.s) /\ Known(c.s, n)
  BY UnderWay
<1>3. op0.n \in Nat /\ op0.msg \in Nat
  BY <1>2 DEF IoOps
<1>4. CASE HeadersArrive(i)
  <2> DEFINE q == Head(inbox)
             op == [op0 EXCEPT !.msg = q]
             s1 == [c.s EXCEPT !.pending = <<op>>]
  <2>1. /\ op0.kind = "headers" /\ q > 0 /\ inbox # <<>>
        /\ UNCHANGED <<conn, outbox, replies, todo, escaped>>
    BY <1>2, <1>4 DEF HeadersArrive
  <2>2. PICK k \in 0 .. Len(inbox) - 1 :
          /\ c' = [c EXCEPT !.s = Complete([@ EXCEPT !.pending[i].msg = q], i, "ok", k)]
          /\ inbox' = SubSeq(inbox, k + 2, Len(inbox))
    BY <1>4 DEF HeadersArrive
  <2>3. inbox \in Seq(Nat) /\ q = inbox[1] /\ 1 \in DOMAIN inbox
    BY <2>1 DEF IInv, StreamsOK
  <2>4. q \in 1 .. n /\ q \in Nat
    <3>1. q \in 0 .. n
      BY <2>3 DEF IInv, StreamsOK
    <3> QED BY <1>1, <2>1, <3>1
  <2>5. op \in IoOps /\ op.id = op0.id /\ op.kind = "headers" /\ op.msg = q
    BY <1>2, <2>1, <2>4, OpUpdates DEF IoOps
  <2>6. s1 = [c.s EXCEPT !.pending[i].msg = q]
    <3>1. [<<op0>> EXCEPT ![1].msg = q] = <<op>>
      BY <1>2
    <3> HIDE DEF op, q
    <3>2. [c.s.pending EXCEPT ![1].msg = q] = <<op>>
      BY <1>2, <3>1
    <3>3. [c.s EXCEPT !.pending[1].msg = q]
            = [c.s EXCEPT !.pending = [c.s.pending EXCEPT ![1].msg = q]]
      BY <1>1 DEF Sessions
    <3> QED BY <1>2, <3>2, <3>3
  <2>7. s1.pending = <<op>>
    BY <1>1 DEF Sessions
  <2> HIDE DEF op
  <2>8. Sound(s1) /\ Known(s1, n) /\ s1.open = c.s.open
    BY <1>1, <1>2, <2>1, <2>5, ProgressSound, ProgressKnown
  <2>9. s1.pending[i] = op /\ i \in DOMAIN s1.pending
    BY <1>2, <2>7
  <2>10. k \in Nat
    BY <2>3
  <2> DEFINE s2 == Complete(s1, i, "ok", k)
  <2>11. c' = [c EXCEPT !.s = s2]
    BY <2>2, <2>6
  <2> HIDE DEF s1, q, n
  <2>12. Sound(s2) /\ Known(s2, n) /\ s2.open = c.s.open
    BY <1>1, <2>4, <2>5, <2>8, <2>9, <2>10, CompleteSound, CompleteKnown DEF Codes
  <2> HIDE DEF s2
  <2>13. /\ inbox' \in Seq(Nat)
         /\ \A j \in DOMAIN inbox' : inbox'[j] \in 0 .. Len(replies)
    <3> DEFINE m == k + 2
    <3>1. m \in Nat \ {0} /\ inbox' = SubSeq(inbox, m, Len(inbox))
      BY <2>2, <2>10
    <3> HIDE DEF m
    <3> QED BY <3>1, InboxSuffix
  <2>14. outbox' \in Seq(Nat)
    BY <2>1 DEF IInv, StreamsOK
  <2> QED BY <2>1, <2>11, <2>12, <2>13, <2>14, IoStep DEF n
<1>5. ASSUME NEW ec \in Codes \ {"cancelled"}, NEW k \in Nat,
             ec = "ok" => op0.kind = "write" \/ op0.msg \in 1 .. n,
             c' = [c EXCEPT !.s = Complete(@, i, ec, k)],
             UNCHANGED <<conn, replies, todo>>,
             outbox' \in Seq(Nat), inbox' \in Seq(Nat),
             \A j \in DOMAIN inbox' : inbox'[j] \in 0 .. Len(replies)
      PROVE  IInv'
  <2> DEFINE s2 == Complete(c.s, i, ec, k)
  <2>1. Sound(s2) /\ Known(s2, n) /\ s2.open = c.s.open
    BY <1>1, <1>2, <1>5, CompleteSound, CompleteKnown
  <2>2. c' = [c EXCEPT !.s = s2]
    BY <1>5
  <2> HIDE DEF s2
  <2> QED BY <1>5, <2>1, <2>2, IoStep
<1>6. CASE HeadersOverflow(i)
  <2>1. /\ c' = [c EXCEPT !.s = Complete(@, i, "not_found", 0)]
        /\ UNCHANGED <<conn, outbox, replies, todo, inbox, escaped>>
    BY <1>6 DEF HeadersOverflow
  <2> QED BY <1>5, <2>1, StreamsUnchanged DEF Codes
<1>7. CASE BodyArrives(i)
  <2>1. /\ op0.kind = "body"
        /\ c' = [c EXCEPT !.s = Complete(@, i, "ok", op0.n)]
        /\ inbox' = SubSeq(inbox, op0.n + 1, Len(inbox))
        /\ UNCHANGED <<conn, outbox, replies, todo, escaped>>
    BY <1>2, <1>7 DEF BodyArrives
  <2>2. /\ inbox' \in Seq(Nat)
        /\ \A j \in DOMAIN inbox' : inbox'[j] \in 0 .. Len(replies)
    <3> DEFINE m == op0.n + 1
    <3>1. m \in Nat \ {0} /\ inbox' = SubSeq(inbox, m, Len(inbox))
      BY <1>3, <2>1
    <3> HIDE DEF m
    <3> QED BY <3>1, InboxSuffix
  <2>3. outbox' \in Seq(Nat)
    BY <2>1 DEF IInv, StreamsOK
  <2> QED BY <1>2, <1>3, <1>5, <2>1, <2>2, <2>3 DEF Codes
<1>8. CASE WriteSome(i)
  <2>1. PICK j \in 1 .. op0.n :
          /\ outbox' = outbox \o [x \in 1 .. j |-> op0.msg]
          /\ c' = [c EXCEPT !.s = IF j = op0.n THEN Complete(@, i, "ok", 0)
                                  ELSE [@ EXCEPT !.pending[i].n = op0.n - j]]
    <3>1. WriteSome(1)
      BY <1>2, <1>8
    <3> HIDE DEF op0
    <3> QED BY <1>2, <3>1 DEF WriteSome, op0
  <2>2. op0.kind = "write" /\ UNCHANGED <<conn, replies, todo, inbox, escaped>>
    BY <1>2, <1>8 DEF WriteSome
  <2>3. outbox' \in Seq(Nat)
    <3> DEFINE m == op0.msg
               w == [x \in 1 .. j |-> m]
    <3>1. j \in Nat /\ m \in Nat
      BY <1>3, <2>1
    <3> HIDE DEF m, op0
    <3>2. w \in Seq(Nat)
      BY <3>1
    <3>3. outbox \in Seq(Nat)
      BY DEF IInv, StreamsOK
    <3> HIDE DEF w
    <3>4. outbox \o w \in Seq(Nat)
      BY <3>2, <3>3
    <3> QED BY <2>1, <3>4 DEF w, m, op0
  <2>4. /\ inbox' \in Seq(Nat)
        /\ \A k \in DOMAIN inbox' : inbox'[k] \in 0 .. Len(replies)
    BY <2>2 DEF IInv, StreamsOK
  <2>5. CASE j = op0.n
    <3>1. c' = [c EXCEPT !.s = Complete(@, i, "ok", 0)]
      BY <2>1, <2>5
    <3> QED BY <1>5, <2>2, <2>3, <2>4, <3>1 DEF Codes
  <2>6. CASE j # op0.n
    <3> DEFINE op == [op0 EXCEPT !.n = op0.n - j]
               s1 == [c.s EXCEPT !.pending = <<op>>]
    <3>1. op0.n - j \in Nat
      BY <1>3, <2>1
    <3>2. /\ op \in IoOps /\ op.id = op0.id /\ op.kind = op0.kind
          /\ op.msg = op0.msg
      BY <1>2, <3>1, OpUpdates DEF IoOps
    <3>3. c' = [c EXCEPT !.s = s1]
      <4> DEFINE left == op0.n - j
      <4>1. [<<op0>> EXCEPT ![1].n = left] = <<op>>
        BY <1>2
      <4>2. c' = [c EXCEPT !.s = [c.s EXCEPT !.pending[1].n = left]]
        BY <1>2, <2>1, <2>6
      <4> HIDE DEF op, left
      <4>3. [c.s.pending EXCEPT ![1].n = left] = <<op>>
        BY <1>2, <4>1
      <4>4. [c.s EXCEPT !.pending[1].n = left]
              = [c.s EXCEPT !.pending = [c.s.pending EXCEPT ![1].n = left]]
        BY <1>1 DEF Sessions
      <4>5. [c.s EXCEPT !.pending[1].n = left] = s1
        BY <4>3, <4>4
      <4> QED BY <4>2, <4>5
    <3> HIDE DEF op
    <3>4. Sound(s1) /\ Known(s1, n) /\ s1.open = c.s.open
      BY <1>1, <1>2, <2>2, <3>2, ProgressSound, ProgressKnown
    <3> HIDE DEF s1
    <3> QED BY <2>2, <2>3, <2>4, <3>3, <3>4, IoStep
  <2> QED BY <2>5, <2>6
<1>9. CASE IoFails(i)
  <2>1. /\ c' = [c EXCEPT !.s = Complete(@, i, "error", op0.n)]
        /\ UNCHANGED <<conn, outbox, replies, todo, inbox, escaped>>
    <3>1. c' = [c EXCEPT !.s = Complete(@, i, "error", c.s.pending[i].n)]
      BY <1>9 DEF IoFails
    <3> QED BY <1>2, <1>9, <3>1 DEF IoFails
  <2> QED BY <1>3, <1>5, <2>1, StreamsUnchanged DEF Codes
<1> QED BY <1>4, <1>6, <1>7, <1>8, <1>9

LEMMA TimerInv == ASSUME IInv, TimerExpires PROVE IInv'
<1> DEFINE n == Len(replies)
           t == Expire(c.s)
           e == c'
<1>1. /\ Good(c, n) /\ n \in Nat /\ c.s \in Sessions
      /\ CanExpire(c.s) /\ c.s.timer # 0
      /\ UNCHANGED <<conn, outbox, replies, todo, inbox, escaped>>
  BY StateFacts DEF TimerExpires, CanExpire
<1>2. e = [c EXCEPT !.s = t]
  BY DEF TimerExpires
<1>3. Stable(c, n) /\ (c.s.open <=> c.callback # 0)
  BY <1>1 DEF Good, Quiet
<1>4. Sound(c.s)
  BY <1>1, <1>3 DEF Good, Stable, Sound
<1>5. Sound(t) /\ Known(t, n) /\ t.open = c.s.open
  BY <1>1, <1>3, <1>4, ExpireSound, ExpireKnown DEF Stable
<1> HIDE DEF e, t, n
<1>6. Good(e, n)
  BY <1>1, <1>2, <1>3, <1>5, AdvanceGood
<1> QED BY <1>1, <1>6, BusyIsConnected, StreamsUnchanged, SessionStep DEF e, n

\* A handler of a read or a write runs: what it finds when it has stopped the
\* timer.
LEMMA RunFacts ==
    ASSUME IInv, Running(c.s, IoKinds)
    PROVE  LET n == Len(replies)
           IN  /\ Stable(Started, n) /\ Idle(Started.s) /\ Quiet(Started.s)
               /\ Started.s.open = c.s.open /\ Started.callback = c.callback
               /\ c.s.open <=> c.callback # 0
               /\ Op \in IoOps
               /\ Op.ec = "cancelled" => ~c.s.open
               /\ Op.ec = "ok" /\ Op.kind # "write" => Op.msg \in 1 .. n
               /\ conn \notin {"off", "resolving"}
<1> DEFINE n == Len(replies)
           t == CancelTimer(Pop(c.s))
           e == Started
<1>1. Good(c, n) /\ Stable(c, n) /\ n \in Nat /\ c \in Clients /\ c.s \in Sessions
  BY StateFacts
<1>2. c.s.ready \in Seq(IoOps \cup Timers) /\ c.s.ready # <<>>
  BY <1>1 DEF Sessions, Running
<1>3. Queued(c.s, IoKinds)
  BY <1>2, TailFacts DEF Running, Queued
<1>4. Sound(c.s)
  BY <1>1, <1>3 DEF Stable, Sound, Watched
<1>5. /\ Idle(t) /\ t.open = c.s.open
      /\ Op = c.s.ready[1] /\ 1 \in DOMAIN c.s.ready /\ Op \in IoOps
      /\ Op.ec = "cancelled" => ~c.s.open
  BY <1>4, RunIoIdle DEF Op
<1>6. t.timer = 0
  <2>1. Pop(c.s) \in Sessions
    BY <1>1, <1>2, PopQuiet DEF Stable
  <2> QED BY <2>1 DEF CancelTimer, Sessions
<1>7. Known(t, n)
  BY <1>1, <1>5, IdleKnown
<1>8. e = [c EXCEPT !.s = t]
  BY DEF Started
<1>9. Op.ec = "ok" /\ Op.kind # "write" => Op.msg \in 1 .. n
  BY <1>1, <1>5 DEF Stable, Known, IoOps, IoKinds
<1>10. conn \notin {"off", "resolving"}
  BY <1>2, BusyIsConnected
<1>11. c.s.open <=> c.callback # 0
  BY <1>1, <1>3 DEF Good, Quiet
<1> HIDE DEF e, t, n
<1>12. t \in Sessions /\ OneIo(t) /\ ClosedIsQuiet(t) /\ Quiet(t)
  BY <1>5, <1>6, IdleFacts DEF Idle, Quiet
<1>13. e \in Clients
  BY <1>1, <1>8, <1>12, SessionUpdate
<1>14. e.s = t /\ e.callback = c.callback /\ e.issued = c.issued /\ e.answers = c.answers
  BY <1>1, <1>8 DEF Clients
<1>15. Stable(e, n)
  BY <1>1, <1>7, <1>12, <1>13, <1>14 DEF Stable, Once, Waiting
<1> QED
  BY <1>5, <1>9, <1>10, <1>11, <1>12, <1>14, <1>15 DEF e, n

\* The handler of a timeout runs.
LEMMA TimeoutFacts ==
    ASSUME IInv, Running(c.s, {"timer"})
    PROVE  /\ Stable([c EXCEPT !.s = Shutdown(Pop(@))], Len(replies))
           /\ conn \notin {"off", "resolving"}
<1> DEFINE n == Len(replies)
           t == Pop(c.s)
           d == [c EXCEPT !.s = t]
           e == [d EXCEPT !.s = Shutdown(@)]
<1>1. Stable(c, n) /\ n \in Nat /\ c \in Clients /\ c.s \in Sessions
  BY StateFacts
<1>2. c.s.ready \in Seq(IoOps \cup Timers) /\ c.s.ready # <<>>
  BY <1>1 DEF Sessions, Running
<1>3. /\ t \in Sessions /\ OneIo(t) /\ ClosedIsQuiet(t)
      /\ t.pending = c.s.pending /\ t.ready = Tail(c.s.ready)
  BY <1>1, <1>2, PopQuiet DEF Stable
<1>4. \A i \in DOMAIN t.ready : i + 1 \in DOMAIN c.s.ready /\ t.ready[i] = c.s.ready[i + 1]
  BY <1>2, <1>3, TailFacts
<1>5. Known(t, n)
  <2> HIDE DEF t
  <2> QED BY <1>1, <1>3, <1>4 DEF Stable, Known
<1>6. [c EXCEPT !.s = Shutdown(Pop(@))] = e
  BY <1>1 DEF Clients
<1> HIDE DEF t, n
<1>7. /\ d \in Clients /\ d.s = t /\ d.callback = c.callback
      /\ d.issued = c.issued /\ d.answers = c.answers
  BY <1>1, <1>3, SessionUpdate DEF Clients
<1> HIDE DEF d
<1>8. Stable(d, n)
  BY <1>1, <1>3, <1>5, <1>7 DEF Stable, Once, Waiting
<1>9. Stable(e, n)
  BY <1>1, <1>8, ShutdownStable
<1> QED BY <1>2, <1>6, <1>9, BusyIsConnected DEF n

\* A handler that ends in a good state of the client.
LEMMA FinishInv ==
    ASSUME IInv, conn \notin {"off", "resolving"},
           NEW d, NEW outcomes, Finish(d, outcomes),
           \A e \in outcomes : Good(e, Len(replies))
    PROVE  IInv'
<1>1. c' \in outcomes /\ UNCHANGED <<conn, outbox, replies, todo, inbox>>
  BY DEF Finish
<1>2. Good(c', Len(replies))
  BY <1>1
<1> QED BY <1>1, <1>2, StreamsUnchanged, SessionStep

LEMMA HandlerInv == ASSUME IInv, Handler PROVE IInv'
<1> DEFINE n == Len(replies)
<1>1. n \in Nat /\ \A r \in 1 .. n : replies[r].len \in Nat /\ replies[r].close \in BOOLEAN
  BY StateFacts
<1>2. \A k \in IoKinds : Runs({k}) => Running(c.s, IoKinds) /\ Op.kind = k
  BY DEF Runs, Running, Op
<1>3. ASSUME Running(c.s, IoKinds)
      PROVE  /\ Stable(Started, n) /\ Idle(Started.s) /\ Quiet(Started.s)
             /\ Started.s.open = c.s.open /\ Started.callback = c.callback
             /\ c.s.open <=> c.callback # 0
             /\ Op \in IoOps /\ Op.n \in Nat /\ Op.msg \in Nat
             /\ Op.ec = "cancelled" => ~c.s.open
             /\ Op.ec = "ok" /\ Op.kind # "write" => Op.msg \in 1 .. n
             /\ conn \notin {"off", "resolving"}
  BY <1>3, RunFacts DEF IoOps
<1>4. ASSUME Running(c.s, IoKinds), Finish(c, OnError(Started, "error"))
      PROVE  IInv'
  <2>1. \A e \in OnError(Started, "error") : Good(e, n)
    BY <1>1, <1>3, <1>4, ErrorGood DEF Results
  <2> QED BY <1>3, <1>4, <2>1, FinishInv
<1>5. ASSUME Running(c.s, IoKinds), Op.ec = "ok", Op.kind # "write"
      PROVE  \A e \in OnMessageParsed(Started, Op.msg) : Good(e, n)
  BY <1>1, <1>3, <1>5, ParsedGood
<1>6. ASSUME Running(c.s, IoKinds),
             NEW kind \in IoKinds, NEW msg \in Nat, NEW size \in Nat,
             kind = "body" => msg \in 1 .. n,
             Finish(c, {[Started EXCEPT !.s = StartIo(@, kind, msg, size)]})
      PROVE  IInv'
  <2> DEFINE d == Started
             t == StartIo(d.s, kind, msg, size)
             e == [d EXCEPT !.s = t]
  <2>1. Sound(t)
    BY <1>3, <1>6, StartIoSound
  <2>2. Known(t, n)
    BY <1>1, <1>3, <1>6, StartKnown
  <2>3. t.open = d.s.open
    BY <1>3, <1>6, StartIoOps
  <2>4. Stable(d, n) /\ (d.s.open <=> d.callback # 0)
    BY <1>3, <1>6
  <2>5. Finish(c, {e})
    BY <1>6
  <2> HIDE DEF d, t
  <2>6. Good(e, n)
    BY <1>1, <2>1, <2>2, <2>3, <2>4, AdvanceGood
  <2> HIDE DEF e
  <2>7. \A f \in {e} : Good(f, n)
    BY <2>6
  <2> QED BY <1>3, <1>6, <2>5, <2>7, FinishInv
<1>7. CASE HeadersAborted
  <2>1. Running(c.s, IoKinds) /\ Op.ec = "cancelled" /\ Finish(c, {Started})
    BY <1>2, <1>7 DEF HeadersAborted, IoKinds
  <2>2. Good(Started, n)
    BY <1>3, <2>1 DEF Good
  <2>3. \A e \in {Started} : Good(e, n)
    BY <2>2
  <2> QED BY <1>3, <2>1, <2>3, FinishInv
<1>8. CASE HeadersRejected
  BY <1>2, <1>4, <1>8 DEF HeadersRejected, IoKinds
<1>9. CASE HeadersNeedBody
  <2> DEFINE k == replies[Op.msg].len - Op.n
  <2>1. /\ Running(c.s, IoKinds) /\ Op.kind = "headers" /\ Op.ec = "ok"
        /\ Op.n < replies[Op.msg].len
        /\ Finish(c, {[Started EXCEPT !.s = DoRemainingRead(@, k, Op.msg)]})
    BY <1>2, <1>9 DEF HeadersNeedBody, IoKinds
  <2>2. Op.msg \in 1 .. n /\ Op.msg \in Nat /\ k \in Nat
    BY <1>1, <1>3, <2>1
  <2> HIDE DEF k
  <2>3. Finish(c, {[Started EXCEPT !.s = StartIo(@, "body", Op.msg, k)]})
    BY <2>1 DEF DoRemainingRead
  <2> QED BY <1>6, <2>1, <2>2, <2>3 DEF IoKinds
<1>10. CASE HeadersComplete
  <2> DEFINE parsed == OnMessageParsed(Started, Op.msg)
  <2>1. /\ Running(c.s, IoKinds) /\ Op.kind = "headers" /\ Op.ec = "ok"
        /\ \/ c' \in parsed /\ UNCHANGED <<conn, outbox, replies, todo, inbox, escaped>>
           \/ \E d \in parsed : Finish(d, OnError(d, "error"))
    BY <1>2, <1>10 DEF HeadersComplete, IoKinds
  <2>2. \A d \in parsed : Good(d, n)
    BY <1>5, <2>1
  <2> HIDE DEF parsed
  <2>3. CASE c' \in parsed /\ UNCHANGED <<conn, outbox, replies, todo, inbox, escaped>>
    BY <1>3, <2>1, <2>2, <2>3, StreamsUnchanged, SessionStep
  <2>4. CASE \E d \in parsed : Finish(d, OnError(d, "error"))
    <3>1. PICK d \in parsed : Finish(d, OnError(d, "error"))
      BY <2>4
    <3>2. \A e \in OnError(d, "error") : Good(e, n)
      BY <1>1, <2>2, ErrorGood DEF Good, Results
    <3> QED BY <1>3, <2>1, <3>1, <3>2, FinishInv
  <2> QED BY <2>1, <2>3, <2>4
<1>11. CASE BodyFailed
  BY <1>2, <1>4, <1>11 DEF BodyFailed, IoKinds
<1>12. CASE BodyComplete
  <2>1. /\ Running(c.s, IoKinds) /\ Op.kind = "body" /\ Op.ec = "ok"
        /\ Finish(c, OnMessageParsed(Started, Op.msg))
    BY <1>2, <1>12 DEF BodyComplete, IoKinds
  <2>2. \A e \in OnMessageParsed(Started, Op.msg) : Good(e, n)
    BY <1>5, <2>1
  <2> QED BY <1>3, <2>1, <2>2, FinishInv
<1>13. CASE WriteFailed
  BY <1>2, <1>4, <1>13 DEF WriteFailed, IoKinds
<1>14. CASE WriteDone
  <2>1. Running(c.s, IoKinds) /\ Finish(c, {OnWriteComplete(Started)})
    BY <1>2, <1>14 DEF WriteDone, IoKinds
  <2>2. Finish(c, {[Started EXCEPT !.s = StartIo(@, "headers", 0, 0)]})
    BY <2>1 DEF OnWriteComplete, DoRead
  <2> QED BY <1>6, <2>1, <2>2 DEF IoKinds
<1>15. CASE TimerFired
  <2> DEFINE d == [c EXCEPT !.s = Shutdown(Pop(@))]
  <2>1. Running(c.s, {"timer"}) /\ Finish(c, OnError(d, "timed_out"))
    BY <1>15 DEF TimerFired, Runs
  <2>2. Stable(d, n) /\ conn \notin {"off", "resolving"}
    BY <2>1, TimeoutFacts
  <2> HIDE DEF d
  <2>3. \A e \in OnError(d, "timed_out") : Good(e, n)
    BY <1>1, <2>2, ErrorGood DEF Results
  <2> QED BY <2>1, <2>2, <2>3, FinishInv
<1> QED
  BY <1>7, <1>8, <1>9, <1>10, <1>11, <1>12, <1>13, <1>14, <1>15 DEF Handler

LEMMA NextInv == IInv /\ [Next]_vars => IInv'
<1> SUFFICES ASSUME IInv, [Next]_vars PROVE IInv'
  OBVIOUS
<1>1. CASE UNCHANGED vars
  BY <1>1 DEF vars, IInv, StreamsOK, Unconnected
<1>2. CASE Network
  BY <1>2, ConnectInv, ServerInv, IoInv DEF Network
<1> QED BY <1>1, <1>2, ProgramInv, TimerInv, HandlerInv DEF Next

LEMMA Invariance == Spec => []IInv
BY InitInv, NextInv, PTL DEF Spec

(* ---------------------- what a step does for the program ---------------- *)

\* What a proof about both ends of a connection needs to know of a step of the
\* client: the callbacks it calls, and the operation it leaves under way.

\* From d to e callbacks were called, with code ok only as `oks' says.
Adds(d, e, oks) ==
    /\ d.issued <= e.issued
    /\ d.issued <= MaxRequests => e.issued <= MaxRequests
    /\ \A i \in DOMAIN d.answers : i \in DOMAIN e.answers /\ e.answers[i] = d.answers[i]
    /\ \A i \in DOMAIN e.answers :
         i \in DOMAIN d.answers \/ e.answers[i].result # "ok" \/ e.answers[i] \in oks

\* Only operations with the kind, message and size are under way, and none
\* that succeeded waits for its handler.
Doing(t, kind, msg, n) ==
    /\ \A i \in DOMAIN t.pending :
         t.pending[i].kind = kind /\ t.pending[i].msg = msg /\ t.pending[i].n = n
    /\ \A i \in DOMAIN t.ready : t.ready[i].kind \in IoKinds => t.ready[i].ec # "ok"

\* Request q has just been made.
Fresh(e, q) == e.callback = q /\ e.issued = q /\ Doing(e.s, "write", q, ReqSize)

LEMMA AddsNothing ==
    ASSUME NEW d \in Clients, NEW e, e.issued = d.issued, e.answers = d.answers, NEW oks
    PROVE  Adds(d, e, oks)
BY DEF Adds, Clients

LEMMA AddsMore ==
    ASSUME NEW d \in Clients, NEW e \in Clients, NEW f \in Clients, NEW oks, NEW more,
           Adds(d, e, oks), Adds(e, f, more)
    PROVE  Adds(d, f, oks \cup more)
<1>1. d.issued \in Nat /\ e.issued \in Nat /\ f.issued \in Nat /\ MaxRequests \in Nat
  BY ClientAssumption DEF Clients
<1>2. d.issued <= f.issued /\ (d.issued <= MaxRequests => f.issued <= MaxRequests)
  BY <1>1 DEF Adds
<1>3. \A i \in DOMAIN d.answers : i \in DOMAIN f.answers /\ f.answers[i] = d.answers[i]
  BY DEF Adds
<1>4. ASSUME NEW i \in DOMAIN f.answers
      PROVE  \/ i \in DOMAIN d.answers \/ f.answers[i].result # "ok"
             \/ f.answers[i] \in oks \cup more
  BY DEF Adds
<1> QED BY <1>2, <1>3, <1>4 DEF Adds

\* One answer more.
LEMMA AddsOne ==
    ASSUME NEW d \in Clients, NEW a \in Answers, NEW q \in Nat, d.issued <= q,
           d.issued <= MaxRequests => q <= MaxRequests,
           NEW e, e.issued = q, e.answers = Append(d.answers, a),
           NEW oks, a.result # "ok" \/ a \in oks
    PROVE  Adds(d, e, oks)
<1> DEFINE old == d.answers
           new == Append(old, a)
<1>1. old \in Seq(Answers)
  BY DEF Clients
<1>2. /\ \A i \in DOMAIN old : i \in DOMAIN new /\ new[i] = old[i]
      /\ \A i \in DOMAIN new : i \in DOMAIN old \/ new[i] = a
  BY <1>1
<1>3. e.answers = new
  OBVIOUS
<1> HIDE DEF new
<1> QED BY <1>2, <1>3 DEF Adds

\* An operation started in an idle session is the only one under way.
LEMMA StartDoing ==
    ASSUME NEW t, Idle(t), NEW kind \in IoKinds, NEW msg \in Nat, NEW n \in Nat,
           NEW r, r = StartIo(t, kind, msg, n)
    PROVE  Doing(r, kind, msg, n) /\ r.open = t.open
<1>1. /\ \A i \in DOMAIN r.pending :
           r.pending[i].kind = kind /\ r.pending[i].msg = msg /\ r.pending[i].n = n
      /\ \A i \in DOMAIN r.ready :
           r.ready[i].kind \in IoKinds => r.ready[i].kind = kind /\ r.ready[i].ec = "error"
      /\ r.open = t.open
  BY StartIoOps
<1> QED BY <1>1 DEF Doing

LEMMA QuietIdle ==
    ASSUME NEW d, NEW n, Stable(d, n), Quiet(d.s)
    PROVE  Idle(d.s)
BY DEF Stable, Clients, Quiet, Idle

\* async_request: a request that waits for the response, or an answer.
LEMMA RequestAdds ==
    ASSUME NEW d, NEW n \in Nat, Good(d, n), d.callback = 0, d.issued < MaxRequests,
           NEW e, e = AsyncRequest(d)
    PROVE  /\ Adds(d, e, {})
           /\ e.s.open => Fresh(e, d.issued + 1)
           /\ e.s.open = d.s.open
<1> DEFINE q == d.issued + 1
           t == DoWrite(d.s, q, ReqSize)
           a == Failure(q, "not_connected")
<1>1. /\ d \in Clients /\ d.s \in Sessions /\ d.issued \in Nat /\ q \in Nat
      /\ d.issued <= q /\ q <= MaxRequests /\ MaxRequests \in Nat
      /\ ReqSize \in Nat /\ "write" \in IoKinds
  BY ClientAssumption DEF Good, Stable, Clients, IoKinds
<1>2. CASE d.s.open
  <2>1. e = [d EXCEPT !.issued = q, !.callback = q, !.s = t]
    BY <1>2 DEF AsyncRequest
  <2>2. Idle(d.s)
    BY <1>2, QuietIdle DEF Good
  <2>3. Doing(t, "write", q, ReqSize) /\ t.open
    BY <1>1, <1>2, <2>2, StartDoing DEF DoWrite
  <2> HIDE DEF q, t
  <2>4. e.s = t /\ e.callback = q /\ e.issued = q /\ e.answers = d.answers
    BY <1>1, <2>1 DEF Clients
  <2>5. Adds(d, e, {})
    BY <1>1, <2>4 DEF Adds
  <2>6. Fresh(e, q)
    BY <2>3, <2>4 DEF Fresh
  <2> QED BY <1>2, <2>3, <2>4, <2>5, <2>6 DEF q
<1>3. CASE ~d.s.open
  <2>1. e = [d EXCEPT !.issued = q, !.answers = Append(@, a)]
    BY <1>3 DEF AsyncRequest
  <2>2. a \in Answers /\ a.result # "ok"
    BY <1>1 DEF Failure, Answers, Results
  <2> HIDE DEF q, a
  <2>3. e.s = d.s /\ e.issued = q /\ e.answers = Append(d.answers, a)
    BY <1>1, <2>1 DEF Clients
  <2>4. Adds(d, e, {})
    BY <1>1, <2>2, <2>3, AddsOne
  <2> QED BY <1>3, <2>3, <2>4
<1> QED BY <1>2, <1>3

\* A callback is called, and perhaps makes the next request.
LEMMA CallAdds ==
    ASSUME NEW d, NEW n \in Nat, Stable(d, n), d.s.open => Quiet(d.s),
           d.callback # 0, NEW a \in Answers, a.req = d.callback,
           NEW e \in Call(d, a)
    PROVE  /\ Adds(d, e, {a})
           /\ a.result # "ok" => Adds(d, e, {})
           /\ e.s.open = d.s.open
           /\ e.s.open => \/ e.callback = 0 /\ e.issued = d.issued
                          \/ Fresh(e, d.issued + 1)
<1> DEFINE f == [d EXCEPT !.callback = 0, !.answers = Append(@, a)]
           g == AsyncRequest(f)
<1>1. e = f \/ (f.issued < MaxRequests /\ e = g)
  BY DEF Call
<1>2. d \in Clients /\ Once(d)
  BY DEF Stable
<1>3. f.answers = Append(d.answers, a)
  BY <1>2 DEF Clients
<1>4. f \in Clients /\ Once(f) /\ f.s = d.s /\ f.callback = 0 /\ f.issued = d.issued
  <2> HIDE DEF f
  <2>1. f = [d EXCEPT !.callback = 0, !.answers = Append(@, a)]
    BY DEF f
  <2>2. f \in Clients /\ Once(f) /\ f.s = d.s /\ f.callback = 0
    BY <1>2, <2>1, AnswerOnce
  <2>3. f.issued = d.issued
    BY <1>2, <2>1 DEF Clients
  <2> QED BY <2>2, <2>3
<1> HIDE DEF f
<1>5. Adds(d, f, {a}) /\ (a.result # "ok" => Adds(d, f, {}))
  <2>1. ASSUME NEW oks, a.result # "ok" \/ a \in oks PROVE Adds(d, f, oks)
    <3>1. d.issued \in Nat
      BY <1>2 DEF Clients
    <3> QED BY <1>2, <1>3, <1>4, <2>1, <3>1, AddsOne
  <2> QED BY <2>1
<1>6. Good(f, n)
  BY <1>4 DEF Good, Stable
<1>7. CASE e = f
  BY <1>4, <1>5, <1>7
<1>8. CASE f.issued < MaxRequests /\ e = g
  <2>1. Good(g, n) /\ g \in Clients
    BY <1>4, <1>6, RequestGood DEF Good, Stable
  <2>2. Adds(f, g, {}) /\ (g.s.open => Fresh(g, f.issued + 1)) /\ g.s.open = f.s.open
    BY <1>4, <1>6, <1>8, RequestAdds
  <2> HIDE DEF g
  <2>3. ASSUME NEW oks, Adds(d, f, oks) PROVE Adds(d, g, oks)
    <3>1. Adds(d, g, oks \cup {})
      BY <1>2, <1>4, <2>1, <2>2, <2>3, AddsMore
    <3>2. oks \cup {} = oks
      OBVIOUS
    <3> QED BY <3>1, <3>2
  <2> QED BY <1>4, <1>5, <1>8, <2>2, <2>3
<1> QED BY <1>1, <1>7, <1>8

LEMMA ParsedAdds ==
    ASSUME NEW d, NEW n \in Nat, Stable(d, n), d.s.open => Quiet(d.s),
           NEW r \in Nat, replies[r].close \in BOOLEAN,
           NEW e \in OnMessageParsed(d, r)
    PROVE  /\ Adds(d, e, {[req |-> d.callback, result |-> "ok", reply |-> r]})
           /\ d.callback = 0 => Adds(d, e, {})
           /\ e.s.open = d.s.open
           /\ e.s.open => \/ e.callback = 0 /\ e.issued = d.issued
                          \/ Fresh(e, d.issued + 1)
<1> DEFINE keep == ~replies[r].close
           t == [d.s EXCEPT !.keepAlive = keep]
           f == [d EXCEPT !.s = t]
           a == [req |-> d.callback, result |-> "ok", reply |-> r]
<1>1. d \in Clients /\ d.s \in Sessions
  BY DEF Stable, Clients
<1>2. /\ t \in Sessions /\ t.open = d.s.open /\ t.timer = d.s.timer
      /\ t.pending = d.s.pending /\ t.ready = d.s.ready
  BY <1>1 DEF Sessions
<1>3. f = [d EXCEPT !.s.keepAlive = keep]
  BY <1>1 DEF Clients, Sessions
<1>4. IF d.callback = 0 THEN e = f ELSE e \in Call(f, a)
  BY <1>3 DEF OnMessageParsed
<1> HIDE DEF t
<1>5. /\ f \in Clients /\ f.s = t /\ f.callback = d.callback
      /\ f.issued = d.issued /\ f.answers = d.answers
  BY <1>1, <1>2, SessionUpdate DEF Clients
<1> HIDE DEF f
<1>6. Stable(f, n) /\ (f.s.open => Quiet(f.s))
  BY <1>2, <1>5 DEF Stable, Once, Waiting, OneIo, ClosedIsQuiet, Known, Quiet, Queued
<1>7. CASE d.callback = 0
  <2>1. \A oks : Adds(d, e, oks)
    BY <1>1, <1>4, <1>5, <1>7, AddsNothing
  <2> QED BY <1>2, <1>4, <1>5, <1>7, <2>1
<1>8. CASE d.callback # 0
  <2>1. a \in Answers /\ a.req = f.callback
    BY <1>1, <1>5 DEF Answers, Results, Clients
  <2>2. e \in Call(f, a)
    BY <1>4, <1>8
  <2> HIDE DEF a
  <2>3. /\ Adds(f, e, {a}) /\ e.s.open = f.s.open
        /\ e.s.open => (e.callback = 0 /\ e.issued = f.issued) \/ Fresh(e, f.issued + 1)
    BY <1>5, <1>6, <1>8, <2>1, <2>2, CallAdds
  <2>4. Adds(d, e, {a})
    BY <1>5, <2>3 DEF Adds
  <2> QED BY <1>2, <1>5, <1>8, <2>3, <2>4 DEF a
<1> QED BY <1>7, <1>8

\* on_error leaves the session closed.
LEMMA ErrorAdds ==
    ASSUME NEW d, NEW n \in Nat, Stable(d, n), NEW result \in Results, result # "ok",
           NEW e \in OnError(d, result)
    PROVE  Adds(d, e, {}) /\ ~e.s.open
<1> DEFINE f == [d EXCEPT !.s = Shutdown(@)]
           a == Failure(d.callback, result)
<1>1. IF d.callback = 0 THEN e = f ELSE e \in Call(f, a)
  BY DEF OnError
<1> HIDE DEF f
<1>2. /\ Stable(f, n) /\ ~f.s.open /\ f.callback = d.callback
      /\ f.issued = d.issued /\ f.answers = d.answers
  BY ShutdownStable DEF f
<1>3. CASE d.callback = 0
  BY <1>1, <1>2, <1>3, AddsNothing DEF Stable
<1>4. CASE d.callback # 0
  <2>1. a \in Answers /\ a.req = f.callback /\ a.result # "ok"
    BY <1>2 DEF Stable, Clients, Answers, Failure
  <2>2. e \in Call(f, a)
    BY <1>1, <1>4
  <2> HIDE DEF a
  <2>3. Adds(f, e, {}) /\ e.s.open = f.s.open
    BY <1>2, <1>4, <2>1, <2>2, CallAdds
  <2>4. Adds(d, e, {})
    BY <1>2, <2>3 DEF Adds
  <2> QED BY <1>2, <2>3, <2>4
<1> QED BY <1>3, <1>4

\* The handler about to run finds the whole of a response.
Ended ==
    /\ Op.ec = "ok"
    /\ \/ Op.kind = "headers" /\ Op.n = replies[Op.msg].len
       \/ Op.kind = "body"

Success == [req |-> c.callback, result |-> "ok", reply |-> Op.msg]

\* What a handler does, for one that leaves the session open and for any.
GoesOn ==
    /\ c.s.open /\ Running(c.s, IoKinds) /\ Op.ec = "ok"
    /\ \/ /\ Ended
          /\ \/ c'.callback = 0 /\ c'.issued = c.issued
             \/ Fresh(c', c.issued + 1)
       \/ /\ c'.callback = c.callback /\ c'.issued = c.issued
          /\ \/ /\ Op.kind = "headers" /\ Op.n < replies[Op.msg].len
                /\ Doing(c'.s, "body", Op.msg, replies[Op.msg].len - Op.n)
             \/ Op.kind = "write" /\ Doing(c'.s, "headers", 0, 0)

Effect ==
    /\ UNCHANGED <<conn, outbox, replies, todo, inbox>>
    /\ Adds(c, c', {Success})
    /\ ~(Ended /\ c.s.open) => Adds(c, c', {})
    /\ c'.s.open => GoesOn

\* A step after which there is nothing to say of the session.
LEMMA ClosedEffect ==
    ASSUME UNCHANGED <<conn, outbox, replies, todo, inbox>>,
           Adds(c, c', {}), c'.s.open => GoesOn
    PROVE  Effect
<1>1. Adds(c, c', {Success})
  BY DEF Adds
<1> QED BY <1>1 DEF Effect

\* A handler of a response that is whole.
LEMMA EndedEffect ==
    ASSUME IInv, Running(c.s, IoKinds), Ended,
           UNCHANGED <<conn, outbox, replies, todo, inbox>>,
           NEW e \in OnMessageParsed(Started, Op.msg), c' = e
    PROVE  Effect
<1> DEFINE n == Len(replies)
<1>1. /\ Stable(Started, n) /\ Quiet(Started.s) /\ n \in Nat
      /\ Started.s.open = c.s.open /\ Started.callback = c.callback
      /\ c.s.open <=> c.callback # 0
      /\ Op \in IoOps /\ Op.msg \in Nat
      /\ Op.ec = "ok" /\ Op.kind # "write" => Op.msg \in 1 .. n
  BY RunFacts, StateFacts DEF IoOps
<1>2. Started.issued = c.issued /\ Started.answers = c.answers
  BY StateFacts DEF Started, Clients
<1>3. Op.msg \in 1 .. n /\ replies[Op.msg].close \in BOOLEAN /\ Op.ec = "ok"
  BY <1>1, StateFacts DEF Ended
<1>4. /\ Adds(Started, e, {[req |-> Started.callback, result |-> "ok", reply |-> Op.msg]})
      /\ Started.callback = 0 => Adds(Started, e, {})
      /\ e.s.open = Started.s.open
      /\ e.s.open => \/ e.callback = 0 /\ e.issued = Started.issued
                     \/ Fresh(e, Started.issued + 1)
  BY <1>1, <1>3, ParsedAdds
<1>5. [req |-> Started.callback, result |-> "ok", reply |-> Op.msg] = Success
  BY <1>1 DEF Success
<1>6. Adds(c, c', {Success}) /\ (Started.callback = 0 => Adds(c, c', {}))
  BY <1>2, <1>4, <1>5 DEF Adds
<1>7. c'.s.open => GoesOn
  BY <1>1, <1>2, <1>3, <1>4 DEF GoesOn
<1> QED BY <1>1, <1>6, <1>7 DEF Effect

\* A handler of an operation that failed.
LEMMA FailedEffect ==
    ASSUME IInv, Running(c.s, IoKinds), Finish(c, OnError(Started, "error"))
    PROVE  Effect
<1>1. Stable(Started, Len(replies)) /\ Len(replies) \in Nat
  BY RunFacts, StateFacts
<1>2. Started.issued = c.issued /\ Started.answers = c.answers
  BY StateFacts DEF Started, Clients
<1>3. /\ c' \in OnError(Started, "error")
      /\ UNCHANGED <<conn, outbox, replies, todo, inbox>>
  BY DEF Finish
<1> DEFINE e == c'
<1>4. e \in OnError(Started, "error")
  BY <1>3
<1> HIDE DEF e
<1>5. Adds(Started, e, {}) /\ ~e.s.open
  BY <1>1, <1>4, ErrorAdds DEF Results
<1>6. Adds(c, e, {})
  BY <1>2, <1>5 DEF Adds
<1> QED BY <1>3, <1>5, <1>6, ClosedEffect DEF e

\* A handler that starts the next operation of the same request.
LEMMA NextOpEffect ==
    ASSUME IInv, Running(c.s, IoKinds),
           NEW kind \in IoKinds, NEW msg \in Nat, NEW n \in Nat,
           Finish(c, {[Started EXCEPT !.s = StartIo(@, kind, msg, n)]})
    PROVE  /\ UNCHANGED <<conn, outbox, replies, todo, inbox>>
           /\ c'.callback = c.callback /\ c'.issued = c.issued /\ c'.s.open = c.s.open
           /\ Adds(c, c', {})
           /\ Doing(c'.s, kind, msg, n)
<1> DEFINE d == Started
           t == StartIo(d.s, kind, msg, n)
<1>1. /\ d \in Clients /\ Idle(d.s) /\ d.s.open = c.s.open /\ d.callback = c.callback
      /\ c \in Clients
  BY RunFacts, StateFacts DEF Stable
<1>2. d.issued = c.issued /\ d.answers = c.answers
  BY StateFacts DEF Started, Clients
<1>3. /\ c' = [d EXCEPT !.s = t]
      /\ UNCHANGED <<conn, outbox, replies, todo, inbox>>
  BY DEF Finish
<1> HIDE DEF d
<1>4. Doing(t, kind, msg, n) /\ t.open = d.s.open
  BY <1>1, StartDoing
<1> HIDE DEF t
<1>5. /\ c'.s = t /\ c'.callback = d.callback /\ c'.issued = d.issued
      /\ c'.answers = d.answers
  BY <1>1, <1>3 DEF Clients
<1>6. Adds(c, c', {})
  BY <1>1, <1>2, <1>5, AddsNothing
<1> QED BY <1>1, <1>2, <1>3, <1>4, <1>5, <1>6

LEMMA HandlerEffect == ASSUME IInv, Handler PROVE Effect
<1> DEFINE n == Len(replies)
<1>1. n \in Nat /\ c \in Clients /\ \A r \in 1 .. n : replies[r].len \in Nat
  BY StateFacts
<1>2. \A k \in IoKinds : Runs({k}) => Running(c.s, IoKinds) /\ Op.kind = k
  BY DEF Runs, Running, Op
<1>3. ASSUME Running(c.s, IoKinds)
      PROVE  /\ Stable(Started, n)
             /\ Started.s.open = c.s.open
             /\ Op \in IoOps /\ Op.n \in Nat /\ Op.msg \in Nat
             /\ Op.ec = "cancelled" => ~c.s.open
             /\ Op.ec = "ok" /\ Op.kind # "write" => Op.msg \in 1 .. n
             /\ Started.issued = c.issued /\ Started.answers = c.answers
  <2>1. Started.issued = c.issued /\ Started.answers = c.answers
    BY <1>1 DEF Started, Clients
  <2> QED BY <1>3, <2>1, RunFacts DEF IoOps
<1>4. CASE HeadersAborted
  <2>1. Running(c.s, IoKinds) /\ Op.ec = "cancelled" /\ Finish(c, {Started})
    BY <1>2, <1>4 DEF HeadersAborted, IoKinds
  <2>2. c' = Started /\ UNCHANGED <<conn, outbox, replies, todo, inbox>>
    BY <2>1 DEF Finish
  <2>3. c'.issued = c.issued /\ c'.answers = c.answers /\ ~c'.s.open
    BY <1>3, <2>1, <2>2
  <2>4. Adds(c, c', {})
    BY <1>1, <2>3, AddsNothing
  <2> QED BY <2>2, <2>3, <2>4, ClosedEffect
<1>5. CASE HeadersRejected
  BY <1>2, <1>5, FailedEffect DEF HeadersRejected, IoKinds
<1>6. CASE HeadersNeedBody
  <2> DEFINE k == replies[Op.msg].len - Op.n
  <2>1. /\ Running(c.s, IoKinds) /\ Op.kind = "headers" /\ Op.ec = "ok"
        /\ Op.n < replies[Op.msg].len
        /\ Finish(c, {[Started EXCEPT !.s = DoRemainingRead(@, k, Op.msg)]})
    BY <1>2, <1>6 DEF HeadersNeedBody, IoKinds
  <2>2. Op.msg \in Nat /\ k \in Nat
    BY <1>1, <1>3, <2>1
  <2> HIDE DEF k
  <2>3. Finish(c, {[Started EXCEPT !.s = StartIo(@, "body", Op.msg, k)]})
    BY <2>1 DEF DoRemainingRead
  <2>4. /\ UNCHANGED <<conn, outbox, replies, todo, inbox>>
        /\ c'.callback = c.callback /\ c'.issued = c.issued /\ c'.s.open = c.s.open
        /\ Adds(c, c', {})
        /\ Doing(c'.s, "body", Op.msg, k)
    BY <2>1, <2>2, <2>3, NextOpEffect DEF IoKinds
  <2>5. c'.s.open => GoesOn
    BY <2>1, <2>4 DEF GoesOn, k
  <2> QED BY <2>4, <2>5, ClosedEffect
<1>7. CASE HeadersComplete
  <2> DEFINE parsed == OnMessageParsed(Started, Op.msg)
  <2>1. /\ Running(c.s, IoKinds) /\ Op.kind = "headers" /\ Op.ec = "ok"
        /\ Op.n = replies[Op.msg].len
        /\ \/ c' \in parsed /\ UNCHANGED <<conn, outbox, replies, todo, inbox, escaped>>
           \/ c.callback # 0 /\ \E d \in parsed : Finish(d, OnError(d, "error"))
    BY <1>2, <1>7 DEF HeadersComplete, IoKinds
  <2>2. Ended
    BY <2>1 DEF Ended
  <2>3. CASE c' \in parsed /\ UNCHANGED <<conn, outbox, replies, todo, inbox, escaped>>
    BY <2>1, <2>2, <2>3, EndedEffect
  <2>4. CASE c.callback # 0 /\ \E d \in parsed : Finish(d, OnError(d, "error"))
    <3>1. PICK d \in parsed : Finish(d, OnError(d, "error"))
      BY <2>4
    <3> DEFINE e == c'
    <3>2. e \in OnError(d, "error") /\ UNCHANGED <<conn, outbox, replies, todo, inbox>>
      BY <3>1 DEF Finish
    <3>3. c.s.open /\ Started.callback = c.callback /\ Quiet(Started.s)
      BY <2>1, <2>4, RunFacts
    <3>4. Op.msg \in 1 .. n /\ replies[Op.msg].close \in BOOLEAN
      BY <1>3, <2>1, StateFacts
    <3>5. /\ Adds(Started, d, {[req |-> Started.callback, result |-> "ok", reply |-> Op.msg]})
          /\ Good(d, n)
      BY <1>1, <1>3, <2>1, <3>1, <3>3, <3>4, ParsedAdds, ParsedGood
    <3> HIDE DEF e
    <3>6. Adds(d, e, {}) /\ ~e.s.open /\ Good(e, n)
      BY <1>1, <3>2, <3>5, ErrorAdds, ErrorGood DEF Good, Results
    <3>7. [req |-> Started.callback, result |-> "ok", reply |-> Op.msg] = Success
      BY <3>3 DEF Success
    <3>8. Adds(Started, e, {Success} \cup {})
      BY <1>3, <2>1, <3>5, <3>6, <3>7, AddsMore DEF Good, Stable
    <3>9. Adds(c, e, {Success})
      <4>1. {Success} \cup {} = {Success}
        OBVIOUS
      <4>2. Adds(Started, e, {Success})
        BY <3>8, <4>1
      <4> QED BY <1>3, <2>1, <4>2 DEF Adds
    <3> QED BY <2>2, <3>2, <3>3, <3>6, <3>9 DEF Effect, e
  <2> QED BY <2>1, <2>3, <2>4
<1>8. CASE BodyFailed
  BY <1>2, <1>8, FailedEffect DEF BodyFailed, IoKinds
<1>9. CASE BodyComplete
  <2>1. /\ Running(c.s, IoKinds) /\ Op.kind = "body" /\ Op.ec = "ok"
        /\ Finish(c, OnMessageParsed(Started, Op.msg))
    BY <1>2, <1>9 DEF BodyComplete, IoKinds
  <2>2. /\ c' \in OnMessageParsed(Started, Op.msg) /\ Ended
        /\ UNCHANGED <<conn, outbox, replies, todo, inbox>>
    BY <2>1 DEF Finish, Ended
  <2> QED BY <2>1, <2>2, EndedEffect
<1>10. CASE WriteFailed
  BY <1>2, <1>10, FailedEffect DEF WriteFailed, IoKinds
<1>11. CASE WriteDone
  <2>1. /\ Running(c.s, IoKinds) /\ Op.kind = "write" /\ Op.ec = "ok"
        /\ Finish(c, {OnWriteComplete(Started)})
    BY <1>2, <1>11 DEF WriteDone, IoKinds
  <2>2. Finish(c, {[Started EXCEPT !.s = StartIo(@, "headers", 0, 0)]})
    BY <2>1 DEF OnWriteComplete, DoRead
  <2>3. /\ UNCHANGED <<conn, outbox, replies, todo, inbox>>
        /\ c'.callback = c.callback /\ c'.issued = c.issued /\ c'.s.open = c.s.open
        /\ Adds(c, c', {})
        /\ Doing(c'.s, "headers", 0, 0)
    BY <2>1, <2>2, NextOpEffect DEF IoKinds
  <2>4. c'.s.open => GoesOn
    BY <2>1, <2>3 DEF GoesOn
  <2> QED BY <2>3, <2>4, ClosedEffect
<1>12. CASE TimerFired
  <2> DEFINE d == [c EXCEPT !.s = Shutdown(Pop(@))]
             e == c'
  <2>1. Running(c.s, {"timer"}) /\ Finish(c, OnError(d, "timed_out"))
    BY <1>12 DEF TimerFired, Runs
  <2>2. Stable(d, n)
    BY <2>1, TimeoutFacts
  <2>3. d.issued = c.issued /\ d.answers = c.answers
    BY <1>1 DEF Clients
  <2>4. e \in OnError(d, "timed_out") /\ UNCHANGED <<conn, outbox, replies, todo, inbox>>
    BY <2>1 DEF Finish
  <2> HIDE DEF d, e
  <2>5. Adds(d, e, {}) /\ ~e.s.open
    BY <1>1, <2>2, <2>4, ErrorAdds DEF Results
  <2>6. Adds(c, e, {})
    BY <2>3, <2>5 DEF Adds
  <2> QED BY <2>4, <2>5, <2>6, ClosedEffect DEF e
<1> QED
  BY <1>4, <1>5, <1>6, <1>7, <1>8, <1>9, <1>10, <1>11, <1>12 DEF Handler

\* The operation under way is over, and its handler is queued with the message
\* and the units, or with an error.
Done(t, kind, msg, n) ==
    /\ t.pending = <<>>
    /\ \A j \in DOMAIN t.ready :
         t.ready[j].kind \in IoKinds =>
             t.ready[j].kind = kind /\ t.ready[j].msg = msg /\ t.ready[j].n = n

Lost(t) ==
    /\ t.pending = <<>>
    /\ \A j \in DOMAIN t.ready : t.ready[j].kind \in IoKinds => t.ready[j].ec # "ok"

\* The program notices nothing.
Unnoticed ==
    /\ UNCHANGED <<conn, replies>>
    /\ c'.callback = c.callback /\ c'.issued = c.issued /\ c'.answers = c.answers
    /\ c'.s.open = c.s.open

LEMMA CompleteDone ==
    ASSUME NEW t, Sound(t), NEW i \in DOMAIN t.pending,
           NEW ec \in Codes, NEW k \in Nat, NEW r, r = Complete(t, i, ec, k)
    PROVE  /\ r.open = t.open
           /\ Done(r, t.pending[1].kind, t.pending[1].msg, k)
           /\ ec # "ok" => Lost(r)
<1>1. /\ r.pending = <<>> /\ r.open = t.open
      /\ \A j \in DOMAIN r.ready :
           \/ j \in DOMAIN t.ready /\ r.ready[j] = t.ready[j]
           \/ /\ r.ready[j].kind = t.pending[1].kind
              /\ r.ready[j].msg = t.pending[1].msg
              /\ r.ready[j].ec = ec /\ r.ready[j].n = k
  BY CompleteOps
<1>2. \A j \in DOMAIN t.ready : t.ready[j].kind \notin IoKinds
  BY PendingFacts DEF Queued
<1> QED BY <1>1, <1>2 DEF Done, Lost

LEMMA UnnoticedStep ==
    ASSUME IInv, NEW t, t.open = c.s.open, c' = [c EXCEPT !.s = t], UNCHANGED <<conn, replies>>
    PROVE  Unnoticed /\ c'.s = t
BY StateFacts DEF Unnoticed, Clients

LEMMA HeadersEffect ==
    ASSUME IInv, NEW i \in DOMAIN c.s.pending, HeadersArrive(i)
    PROVE  /\ Unnoticed /\ UNCHANGED outbox
           /\ c.s.pending[1].kind = "headers" /\ inbox # <<>> /\ Head(inbox) > 0
           /\ \E k \in 0 .. Len(inbox) - 1 :
                /\ inbox' = SubSeq(inbox, k + 2, Len(inbox))
                /\ Done(c'.s, "headers", Head(inbox), k)
<1> DEFINE n == Len(replies)
           op0 == c.s.pending[1]
           q == Head(inbox)
           op == [op0 EXCEPT !.msg = q]
           s1 == [c.s EXCEPT !.pending = <<op>>]
<1>1. c \in Clients /\ c.s \in Sessions
  BY StateFacts
<1>2. /\ i = 1 /\ c.s.pending # <<>> /\ c.s.pending = <<op0>>
      /\ op0 \in IoOps /\ Sound(c.s)
  BY UnderWay
<1>3. /\ op0.kind = "headers" /\ q > 0 /\ inbox # <<>>
      /\ UNCHANGED <<conn, outbox, replies, todo, escaped>>
  BY <1>2 DEF HeadersArrive
<1>4. PICK k \in 0 .. Len(inbox) - 1 :
        /\ c' = [c EXCEPT !.s = Complete([@ EXCEPT !.pending[i].msg = q], i, "ok", k)]
        /\ inbox' = SubSeq(inbox, k + 2, Len(inbox))
  BY DEF HeadersArrive
<1>5. inbox \in Seq(Nat) /\ q \in Nat /\ k \in Nat
  BY <1>3, <1>4 DEF IInv, StreamsOK
<1>6. op \in IoOps /\ op.id = op0.id /\ op.kind = "headers" /\ op.msg = q
  BY <1>2, <1>3, <1>5, OpUpdates DEF IoOps
<1>7. s1 = [c.s EXCEPT !.pending[i].msg = q]
  <2>1. [<<op0>> EXCEPT ![1].msg = q] = <<op>>
    BY <1>2
  <2> HIDE DEF op, q
  <2>2. [c.s.pending EXCEPT ![1].msg = q] = <<op>>
    BY <1>2, <2>1
  <2>3. [c.s EXCEPT !.pending[1].msg = q]
          = [c.s EXCEPT !.pending = [c.s.pending EXCEPT ![1].msg = q]]
    BY <1>1 DEF Sessions
  <2> QED BY <1>2, <2>2, <2>3
<1>8. s1.pending = <<op>> /\ s1.open = c.s.open
  BY <1>1 DEF Sessions
<1> HIDE DEF op
<1>9. Sound(s1)
  BY <1>2, <1>3, <1>6, ProgressSound
<1>10. s1.pending[1] = op /\ i \in DOMAIN s1.pending
  BY <1>2, <1>8
<1> DEFINE s2 == Complete(s1, i, "ok", k)
<1>11. c' = [c EXCEPT !.s = s2]
  BY <1>4, <1>7
<1> HIDE DEF s1, q
<1> HIDE DEF s2
<1>12. s2.open = c.s.open /\ Done(s2, "headers", q, k)
  <2>1. s2 = Complete(s1, i, "ok", k) /\ "ok" \in Codes
    BY DEF s2, Codes
  <2>2. s2.open = s1.open /\ Done(s2, s1.pending[1].kind, s1.pending[1].msg, k)
    BY <1>5, <1>9, <1>10, <2>1, CompleteDone
  <2> QED BY <1>6, <1>8, <1>10, <2>2
<1>13. Unnoticed /\ c'.s = s2
  BY <1>3, <1>11, <1>12, UnnoticedStep
<1> QED BY <1>3, <1>4, <1>12, <1>13 DEF q

LEMMA BodyEffect ==
    ASSUME IInv, NEW i \in DOMAIN c.s.pending, BodyArrives(i)
    PROVE  /\ Unnoticed /\ UNCHANGED outbox
           /\ c.s.pending[1].kind = "body" /\ Len(inbox) >= c.s.pending[1].n
           /\ inbox' = SubSeq(inbox, c.s.pending[1].n + 1, Len(inbox))
           /\ Done(c'.s, "body", c.s.pending[1].msg, c.s.pending[1].n)
<1> DEFINE op0 == c.s.pending[1]
           t == Complete(c.s, i, "ok", op0.n)
<1>1. i = 1 /\ op0 \in IoOps /\ Sound(c.s)
  BY UnderWay
<1>2. /\ op0.kind = "body" /\ Len(inbox) >= op0.n
      /\ c' = [c EXCEPT !.s = t]
      /\ inbox' = SubSeq(inbox, op0.n + 1, Len(inbox))
      /\ UNCHANGED <<conn, outbox, replies>>
  BY <1>1 DEF BodyArrives
<1>3. op0.n \in Nat
  BY <1>1 DEF IoOps
<1>4. t.open = c.s.open /\ Done(t, op0.kind, op0.msg, op0.n)
  BY <1>1, <1>3, CompleteDone DEF Codes
<1> HIDE DEF t
<1>5. Unnoticed /\ c'.s = t
  BY <1>2, <1>4, UnnoticedStep
<1> QED BY <1>2, <1>4, <1>5

LEMMA FailEffect ==
    ASSUME IInv, NEW i \in DOMAIN c.s.pending, IoFails(i)
    PROVE  Unnoticed /\ UNCHANGED <<outbox, inbox>> /\ Lost(c'.s)
<1> DEFINE op0 == c.s.pending[1]
           t == Complete(c.s, i, "error", op0.n)
<1>1. i = 1 /\ op0 \in IoOps /\ Sound(c.s)
  BY UnderWay
<1>2. c' = [c EXCEPT !.s = t] /\ UNCHANGED <<conn, outbox, replies, inbox>>
  BY <1>1 DEF IoFails
<1>3. op0.n \in Nat
  BY <1>1 DEF IoOps
<1>4. t.open = c.s.open /\ Lost(t)
  BY <1>1, <1>3, CompleteDone DEF Codes
<1> HIDE DEF t
<1>5. Unnoticed /\ c'.s = t
  BY <1>2, <1>4, UnnoticedStep
<1> QED BY <1>2, <1>4, <1>5

LEMMA WriteEffect ==
    ASSUME IInv, NEW i \in DOMAIN c.s.pending, WriteSome(i)
    PROVE  /\ Unnoticed /\ UNCHANGED inbox
           /\ c.s.pending[1].kind = "write" /\ conn = "up"
           /\ \E j \in 1 .. c.s.pending[1].n :
                /\ outbox' = outbox \o [x \in 1 .. j |-> c.s.pending[1].msg]
                /\ IF j = c.s.pending[1].n
                     THEN Done(c'.s, "write", c.s.pending[1].msg, 0)
                     ELSE Doing(c'.s, "write", c.s.pending[1].msg, c.s.pending[1].n - j)
<1> DEFINE op0 == c.s.pending[1]
<1>1. c \in Clients /\ c.s \in Sessions
  BY StateFacts
<1>2. /\ i = 1 /\ c.s.pending # <<>> /\ c.s.pending = <<op0>>
      /\ op0 \in IoOps /\ Sound(c.s)
  BY UnderWay
<1>3. op0.n \in Nat /\ op0.msg \in Nat
  BY <1>2 DEF IoOps
<1>4. PICK j \in 1 .. op0.n :
        /\ outbox' = outbox \o [x \in 1 .. j |-> op0.msg]
        /\ c' = [c EXCEPT !.s = IF j = op0.n THEN Complete(@, i, "ok", 0)
                                ELSE [@ EXCEPT !.pending[i].n = op0.n - j]]
  <2>1. WriteSome(1)
    BY <1>2
  <2> HIDE DEF op0
  <2> QED BY <1>2, <2>1 DEF WriteSome, op0
<1>5. op0.kind = "write" /\ conn = "up" /\ UNCHANGED <<conn, replies, inbox>>
  BY <1>2 DEF WriteSome
<1>6. CASE j = op0.n
  <2> DEFINE t == Complete(c.s, i, "ok", 0)
  <2>1. c' = [c EXCEPT !.s = t]
    BY <1>4, <1>6
  <2>2. t.open = c.s.open /\ Done(t, "write", op0.msg, 0)
    BY <1>2, <1>5, CompleteDone DEF Codes
  <2> HIDE DEF t
  <2>3. Unnoticed /\ c'.s = t
    BY <1>5, <2>1, <2>2, UnnoticedStep
  <2> QED BY <1>4, <1>5, <1>6, <2>2, <2>3
<1>7. CASE j # op0.n
  <2> DEFINE left == op0.n - j
             op == [op0 EXCEPT !.n = left]
             p  == <<op>>
             s1 == [c.s EXCEPT !.pending = p]
  <2>1. c' = [c EXCEPT !.s = s1]
    <3>1. [<<op0>> EXCEPT ![1].n = left] = <<op>>
      BY <1>2
    <3>2. c' = [c EXCEPT !.s = [c.s EXCEPT !.pending[1].n = left]]
      BY <1>2, <1>4, <1>7
    <3> HIDE DEF op, left
    <3>3. [c.s.pending EXCEPT ![1].n = left] = <<op>>
      BY <1>2, <3>1
    <3>4. [c.s EXCEPT !.pending[1].n = left]
            = [c.s EXCEPT !.pending = [c.s.pending EXCEPT ![1].n = left]]
      BY <1>1 DEF Sessions
    <3>5. [c.s EXCEPT !.pending[1].n = left] = s1
      BY <3>3, <3>4
    <3> QED BY <3>2, <3>5
  <2>2. op.kind = "write" /\ op.msg = op0.msg /\ op.n = left
    BY <1>2, <1>5 DEF IoOps
  <2>3. \A k \in DOMAIN p : p[k] = op
    OBVIOUS
  <2> HIDE DEF op, p
  <2>4. s1.pending = p /\ s1.ready = c.s.ready /\ s1.open = c.s.open
    BY <1>1 DEF Sessions
  <2> HIDE DEF s1
  <2>5. \A k \in DOMAIN c.s.ready : c.s.ready[k].kind \notin IoKinds
    BY <1>2, PendingFacts DEF Queued
  <2>6. Doing(s1, "write", op0.msg, left)
    BY <2>2, <2>3, <2>4, <2>5 DEF Doing
  <2>7. Unnoticed /\ c'.s = s1
    BY <1>5, <2>1, <2>4, UnnoticedStep
  <2> QED BY <1>4, <1>5, <1>7, <2>6, <2>7
<1> QED BY <1>6, <1>7

LEMMA TimerEffect ==
    ASSUME IInv, TimerExpires
    PROVE  /\ Unnoticed /\ UNCHANGED <<outbox, inbox>>
           /\ c'.s.pending = c.s.pending
           /\ \A k \in DOMAIN c'.s.ready :
                \/ k \in DOMAIN c.s.ready /\ c'.s.ready[k] = c.s.ready[k]
                \/ c'.s.ready[k].kind = "timer"
<1> DEFINE t == Expire(c.s)
<1>1. c.s \in Sessions
  BY StateFacts
<1>2. c' = [c EXCEPT !.s = t] /\ UNCHANGED <<conn, outbox, replies, inbox>>
  BY DEF TimerExpires
<1>3. /\ t.pending = c.s.pending /\ t.open = c.s.open
      /\ \A k \in DOMAIN t.ready :
           \/ k \in DOMAIN c.s.ready /\ t.ready[k] = c.s.ready[k]
           \/ t.ready[k].kind = "timer"
  BY <1>1, ExpireOps
<1> HIDE DEF t
<1>4. Unnoticed /\ c'.s = t
  BY <1>2, <1>3, UnnoticedStep
<1> QED BY <1>2, <1>3, <1>4

(* ------------------------------- theorems ------------------------------- *)

\* The handler of every request is called once or waits, whatever comes in
\* between: none is called twice and none is forgotten.
THEOREM EachAnsweredOnceHolds == Spec => []EachAnsweredOnce
<1>1. IInv => EachAnsweredOnce
  BY DEF IInv, Good, Stable, Once, Waiting, EachAnsweredOnce
<1> QED BY <1>1, Invariance, PTL

\* A handler that waits has an operation with its timer, or a queued handler
\* that will end it.
THEOREM WaitingIsWatchedHolds == Spec => []WaitingIsWatched
<1>1. IInv => WaitingIsWatched
  BY DEF IInv, Good, WaitingIsWatched
<1> QED BY <1>1, Invariance, PTL

\* Between requests an open client has nothing under way.
THEOREM IdleIsQuietHolds == Spec => []IdleIsQuiet
<1>1. IInv => IdleIsQuiet
  BY DEF IInv, Good, Quiet, IdleIsQuiet
<1> QED BY <1>1, Invariance, PTL

\* A client never has two reads or writes under way.
THEOREM OneIoAtATimeHolds == Spec => []OneIoAtATime
<1>1. IInv => OneIoAtATime
  BY DEF IInv, Good, Stable, OneIoAtATime
<1> QED BY <1>1, Invariance, PTL
=============================================================================
