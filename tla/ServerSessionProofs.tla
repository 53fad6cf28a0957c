------------------------ MODULE ServerSessionProofs ------------------------
(***************************************************************************)
(* Safety of the server's session, for every set of requests, every limit *)
(* on headers and bodies and every number of requests.                    *)
(***************************************************************************)
EXTENDS ServerSession, HttpSessionProofs

(***************************************************************************)
(* The inductive invariant.  Sound(s) says that the session is attended   *)
(* to by one operation; Known that what the handlers carry are requests   *)
(* that were sent; Closing that after a request that closes, all that can *)
(* still happen is the end of its response.                               *)
(***************************************************************************)
Known(t, n) ==
    /\ \A i \in DOMAIN t.pending :
         t.pending[i].kind # "headers" => t.pending[i].msg \in 1 .. n
    /\ \A i \in DOMAIN t.ready :
         t.ready[i].kind \in IoKinds /\ t.ready[i].ec = "ok" => t.ready[i].msg \in 1 .. n

WriteOnly(t) ==
    /\ \A i \in DOMAIN t.pending : t.pending[i].kind = "write"
    /\ \A i \in DOMAIN t.ready : t.ready[i].kind \in {"write", "timer"}

\* A session of which `closing' says whether the last request closes it.
Good(t, n, closing) ==
    /\ Sound(t)
    /\ Known(t, n)
    /\ closing => ~t.keepAlive /\ WriteOnly(t)

LastCloses(d) == d # <<>> /\ ~d[Len(d)].keep

InboxKnown == \A i \in DOMAIN inbox : inbox[i] \in 0 .. Len(sent)

IInv ==
    /\ TypeOK
    /\ InboxKnown
    /\ Good(s, Len(sent), LastCloses(dispatched))
    /\ NothingAfterClose

(* --------------------------- the session's steps ------------------------ *)

LEMMA StartGood ==
    ASSUME NEW t, Idle(t), NEW n \in Nat, NEW closing \in BOOLEAN,
           NEW kind \in IoKinds, NEW msg \in Nat, NEW size \in Nat,
           kind # "headers" => msg \in 1 .. n,
           closing => ~t.keepAlive /\ kind = "write"
    PROVE  Good(StartIo(t, kind, msg, size), n, closing)
<1> DEFINE r == StartIo(t, kind, msg, size)
<1>1. Sound(r)
  BY StartIoSound
<1>2. /\ \A i \in DOMAIN r.pending : r.pending[i].kind = kind /\ r.pending[i].msg = msg
      /\ \A i \in DOMAIN r.ready :
           r.ready[i].kind \in IoKinds => r.ready[i].kind = kind /\ r.ready[i].ec = "error"
      /\ \A i \in DOMAIN r.ready : r.ready[i].kind \in IoKinds \cup {"timer", kind}
      /\ r.keepAlive = t.keepAlive
  BY StartIoOps
<1> HIDE DEF r
<1>3. Known(r, n)
  BY <1>2 DEF Known
<1>4. closing => ~r.keepAlive /\ WriteOnly(r)
  BY <1>2 DEF WriteOnly, IoKinds
<1> QED BY <1>1, <1>3, <1>4 DEF Good, r

LEMMA IdleGood ==
    ASSUME NEW t, Idle(t), NEW n \in Nat
    PROVE  Known(t, n) /\ WriteOnly(t)
<1>1. t.ready \in Seq(IoOps \cup Timers) /\ t.pending = <<>>
  BY DEF Idle, Sessions
<1>2. \A i \in DOMAIN t.ready : t.ready[i].kind = "timer" /\ t.ready[i].kind \notin IoKinds
  BY <1>1 DEF Idle, Queued, IoOps, Timers
<1> QED BY <1>1, <1>2 DEF Known, WriteOnly

LEMMA ShutdownGood ==
    ASSUME NEW t \in Sessions, OneIo(t), ClosedIsQuiet(t),
           NEW n \in Nat, Known(t, n), NEW closing \in BOOLEAN,
           closing => ~t.keepAlive /\ WriteOnly(t)
    PROVE  Good(Shutdown(t), n, closing) /\ ~Shutdown(t).open
<1> DEFINE r == Shutdown(t)
<1>1. Sound(r) /\ ~r.open
  BY ShutdownSound
<1>2. /\ r.pending = <<>>
      /\ \A k \in DOMAIN r.ready :
           \/ k \in DOMAIN t.ready /\ r.ready[k] = t.ready[k]
           \/ /\ r.ready[k].ec = "cancelled"
              /\ \E i \in DOMAIN t.pending : r.ready[k].kind = t.pending[i].kind
      /\ r.keepAlive = t.keepAlive
  BY ShutdownOps
<1> HIDE DEF r
<1>3. Known(r, n)
  BY <1>2 DEF Known
<1>4. closing => ~r.keepAlive /\ WriteOnly(r)
  BY <1>2 DEF WriteOnly
<1> QED BY <1>1, <1>3, <1>4 DEF Good, r

LEMMA IdleShutdownGood ==
    ASSUME NEW t, Idle(t), NEW n \in Nat, NEW closing \in BOOLEAN, closing => ~t.keepAlive
    PROVE  Good(Shutdown(t), n, closing)
BY IdleFacts, IdleGood, ShutdownGood

LEMMA CompleteGood ==
    ASSUME NEW t, NEW n \in Nat, NEW closing \in BOOLEAN, Good(t, n, closing),
           NEW i \in DOMAIN t.pending, NEW ec \in Codes \ {"cancelled"}, NEW k \in Nat,
           ec = "ok" => t.pending[i].msg \in 1 .. n
    PROVE  Good(Complete(t, i, ec, k), n, closing)
<1> DEFINE r == Complete(t, i, ec, k)
<1>1. Sound(r) /\ i = 1
  BY CompleteSound, PendingFacts DEF Good
<1>2. /\ r.pending = <<>>
      /\ \A j \in DOMAIN r.ready :
           \/ j \in DOMAIN t.ready /\ r.ready[j] = t.ready[j]
           \/ /\ r.ready[j].kind = t.pending[1].kind
              /\ r.ready[j].msg = t.pending[1].msg
              /\ r.ready[j].ec = ec
      /\ r.keepAlive = t.keepAlive
  BY CompleteOps DEF Good
<1> HIDE DEF r
<1>3. Known(r, n)
  BY <1>1, <1>2 DEF Good, Known
<1>4. closing => ~r.keepAlive /\ WriteOnly(r)
  BY <1>1, <1>2 DEF Good, WriteOnly
<1> QED BY <1>1, <1>3, <1>4 DEF Good, r

LEMMA ExpireGood ==
    ASSUME NEW t, NEW n \in Nat, NEW closing \in BOOLEAN, Good(t, n, closing), CanExpire(t)
    PROVE  Good(Expire(t), n, closing)
<1> DEFINE r == Expire(t)
<1>1. Sound(r) /\ t \in Sessions
  BY ExpireSound DEF Good, Sound
<1>2. /\ r.pending = t.pending
      /\ \A k \in DOMAIN r.ready :
           \/ k \in DOMAIN t.ready /\ r.ready[k] = t.ready[k]
           \/ r.ready[k].kind = "timer"
      /\ r.keepAlive = t.keepAlive
  BY <1>1, ExpireOps
<1> HIDE DEF r
<1>3. Known(r, n)
  BY <1>2, KindsDiffer DEF Good, Known
<1>4. closing => ~r.keepAlive /\ WriteOnly(r)
  BY <1>2 DEF Good, WriteOnly
<1> QED BY <1>1, <1>3, <1>4 DEF Good, r

\* Progress of a pending read or write.
LEMMA ProgressGood ==
    ASSUME NEW t, NEW n \in Nat, NEW closing \in BOOLEAN, Good(t, n, closing),
           t.pending # <<>>, NEW op \in IoOps, op.id = t.pending[1].id,
           op.kind = t.pending[1].kind, op.kind # "headers" => op.msg = t.pending[1].msg
    PROVE  Good([t EXCEPT !.pending = <<op>>], n, closing)
<1> DEFINE p == <<op>>
           r == [t EXCEPT !.pending = p]
<1>1. Sound(r)
  BY ProgressSound DEF Good
<1>2. \A i \in DOMAIN p : p[i] = op
  OBVIOUS
<1> HIDE DEF p
<1>3. r.pending = p /\ r.ready = t.ready /\ r.keepAlive = t.keepAlive
  BY DEF Good, Sound, Sessions
<1> HIDE DEF r
<1>4. 1 \in DOMAIN t.pending
  <2>1. t.pending \in Seq(IoOps)
    BY DEF Good, Sound, Sessions
  <2> QED BY <2>1
<1>5. Known(r, n)
  BY <1>2, <1>3, <1>4 DEF Good, Known
<1>6. closing => ~r.keepAlive /\ WriteOnly(r)
  BY <1>2, <1>3, <1>4 DEF Good, WriteOnly
<1> QED BY <1>1, <1>5, <1>6 DEF Good, r, p

(* -------------------------- the invariance proof ------------------------ *)

LEMMA InitInv == Init => IInv
<1> SUFFICES ASSUME Init PROVE IInv
  OBVIOUS
<1> DEFINE z == NewSession(TRUE)
<1>1. Idle(z)
  BY NewSessionIdle
<1>2. /\ s = StartIo(z, "headers", 0, 0)
      /\ sent = <<>> /\ todo = 0 /\ inbox = <<>> /\ outbox = <<>> /\ dispatched = <<>>
  BY DEF Init, DoRead
<1> HIDE DEF z
<1>3. Good(s, 0, FALSE)
  BY <1>1, <1>2, StartGood DEF IoKinds
<1>4. Len(sent) = 0 /\ LastCloses(dispatched) = FALSE
  BY <1>2 DEF LastCloses
<1>5. Good(s, Len(sent), LastCloses(dispatched))
  BY <1>3, <1>4
<1>6. TypeOK
  BY <1>2, <1>3 DEF TypeOK, Good, Sound
<1> QED BY <1>2, <1>5, <1>6 DEF IInv, InboxKnown, NothingAfterClose

\* What the state says of the numbers in it.
LEMMA StateFacts ==
    ASSUME IInv
    PROVE  /\ Sound(s) /\ s \in Sessions
           /\ Len(sent) \in Nat
           /\ LastCloses(dispatched) \in BOOLEAN
           /\ Good(s, Len(sent), LastCloses(dispatched))
           /\ \A q \in 1 .. Len(sent) : sent[q] \in Requests
BY DEF IInv, Good, Sound, TypeOK, LastCloses

\* A request that arrives leaves what is known of the earlier ones.
LEMMA GoodMonotonic ==
    ASSUME NEW t, NEW n \in Nat, NEW m \in Nat, n <= m,
           NEW closing \in BOOLEAN, Good(t, n, closing)
    PROVE  Good(t, m, closing)
<1>1. \A k \in 1 .. n : k \in 1 .. m
  OBVIOUS
<1> QED BY <1>1 DEF Good, Known

\* A step that only moves the session on.
LEMMA SessionStep ==
    ASSUME IInv, Good(s', Len(sent), LastCloses(dispatched)),
           UNCHANGED <<sent, todo, outbox, dispatched>>,
           inbox' \in Seq(Nat),
           \A i \in DOMAIN inbox' : inbox'[i] \in 0 .. Len(sent)
    PROVE  IInv'
<1>1. TypeOK'
  BY DEF IInv, TypeOK, Good, Sound
<1>2. InboxKnown' /\ NothingAfterClose'
  BY DEF IInv, InboxKnown, NothingAfterClose
<1>3. Good(s, Len(sent), LastCloses(dispatched))'
  BY DEF LastCloses
<1> QED BY <1>1, <1>2, <1>3 DEF IInv

LEMMA PeerInv == ASSUME IInv, Peer PROVE IInv'
<1>1. CASE PeerSendsHeaders
  <2>1. PICK r \in Requests : sent' = Append(sent, r) /\ todo' = r.len
    BY <1>1 DEF PeerSendsHeaders
  <2>2. sent \in Seq(Requests) /\ inbox \in Seq(Nat) /\ Len(sent) \in Nat
    BY DEF IInv, TypeOK
  <2>3. /\ sent' \in Seq(Requests) /\ Len(sent') = Len(sent) + 1
        /\ r.len \in Nat
    BY <2>1, <2>2, ServerAssumption
  <2>4. inbox' = Append(inbox, Len(sent) + 1) /\ UNCHANGED <<s, outbox, dispatched>>
    BY <1>1 DEF PeerSendsHeaders
  <2>5. TypeOK'
    BY <2>1, <2>2, <2>3, <2>4 DEF IInv, TypeOK
  <2>6. InboxKnown'
    <3>1. \A i \in DOMAIN inbox' :
            inbox'[i] = Len(sent) + 1 \/ (i \in DOMAIN inbox /\ inbox'[i] = inbox[i])
      BY <2>2, <2>4
    <3>2. \A k \in 0 .. Len(sent) : k \in 0 .. Len(sent')
      BY <2>2, <2>3
    <3>3. Len(sent) + 1 \in 0 .. Len(sent')
      BY <2>2, <2>3
    <3> QED BY <3>1, <3>2, <3>3 DEF IInv, InboxKnown
  <2>7. Good(s, Len(sent'), LastCloses(dispatched))
    <3> DEFINE m == Len(sent')
    <3>1. m \in Nat /\ Len(sent) <= m
      BY <2>2, <2>3
    <3> HIDE DEF m
    <3>2. Good(s, m, LastCloses(dispatched))
      BY <2>2, <3>1, GoodMonotonic, StateFacts
    <3> QED BY <3>2 DEF m
  <2>8. Good(s, Len(sent), LastCloses(dispatched))'
    BY <2>4, <2>7
  <2> QED BY <2>4, <2>5, <2>6, <2>8 DEF IInv, NothingAfterClose
<1>2. CASE PeerSendsBody
  <2>1. /\ todo' = todo - 1 /\ todo > 0
        /\ inbox' = Append(inbox, 0)
        /\ UNCHANGED <<s, sent, outbox, dispatched>>
    BY <1>2 DEF PeerSendsBody
  <2>2. TypeOK'
    BY <2>1 DEF IInv, TypeOK
  <2>3. InboxKnown'
    <3>1. inbox \in Seq(Nat) /\ 0 \in 0 .. Len(sent)
      BY DEF IInv, TypeOK
    <3>2. \A i \in DOMAIN inbox' :
            inbox'[i] = 0 \/ (i \in DOMAIN inbox /\ inbox'[i] = inbox[i])
      BY <2>1, <3>1
    <3> QED BY <2>1, <3>1, <3>2 DEF IInv, InboxKnown
  <2>4. Good(s, Len(sent), LastCloses(dispatched))'
    BY <2>1 DEF IInv
  <2> QED BY <2>1, <2>2, <2>3, <2>4 DEF IInv, NothingAfterClose
<1> QED BY <1>1, <1>2 DEF Peer

\* Taking a prefix of the stream leaves known units.
LEMMA InboxSuffix ==
    ASSUME IInv, NEW k \in Nat \ {0}
    PROVE  /\ SubSeq(inbox, k, Len(inbox)) \in Seq(Nat)
           /\ \A i \in DOMAIN SubSeq(inbox, k, Len(inbox)) :
                SubSeq(inbox, k, Len(inbox))[i] \in 0 .. Len(sent)
<1> DEFINE q == SubSeq(inbox, k, Len(inbox))
<1>1. inbox \in Seq(Nat)
  BY DEF IInv, TypeOK
<1>2. q \in Seq(Nat) /\ \A i \in DOMAIN q : \E j \in DOMAIN inbox : q[i] = inbox[j]
  BY <1>1
<1> QED BY <1>2 DEF IInv, InboxKnown

LEMMA InboxUnchanged ==
    ASSUME IInv, inbox' = inbox
    PROVE  inbox' \in Seq(Nat) /\ \A i \in DOMAIN inbox' : inbox'[i] \in 0 .. Len(sent)
BY DEF IInv, TypeOK, InboxKnown

LEMMA SystemInv == ASSUME IInv, System PROVE IInv'
<1> DEFINE n == Len(sent)
           closing == LastCloses(dispatched)
<1>1. /\ Sound(s) /\ s \in Sessions /\ n \in Nat /\ closing \in BOOLEAN
      /\ Good(s, n, closing)
  BY StateFacts
<1> HIDE DEF closing
<1>2. ASSUME NEW i \in DOMAIN s.pending
      PROVE  /\ i = 1 /\ s.pending[i] \in IoOps /\ s.pending # <<>>
             /\ s.pending = <<s.pending[1]>>
             /\ s.pending[i].kind # "headers" => s.pending[i].msg \in 1 .. n
  <2>1. s.pending # <<>>
    BY <1>2
  <2> QED BY <1>1, <1>2, <2>1, PendingFacts DEF Good, Known
<1>3. CASE \E i \in DOMAIN s.pending : HeadersArrive(i)
  <2>1. PICK i \in DOMAIN s.pending : HeadersArrive(i)
    BY <1>3
  <2>2. PICK k \in 0 .. Len(inbox) - 1 :
          /\ s' = Complete([s EXCEPT !.pending[i].msg = Head(inbox)], i, "ok", k)
          /\ inbox' = SubSeq(inbox, k + 2, Len(inbox))
    BY <2>1 DEF HeadersArrive
  <2>3. /\ s.pending[i].kind = "headers" /\ Head(inbox) > 0 /\ inbox # <<>>
        /\ UNCHANGED <<sent, todo, outbox, dispatched>>
    BY <2>1 DEF HeadersArrive
  <2>4. inbox \in Seq(Nat) /\ Head(inbox) = inbox[1] /\ 1 \in DOMAIN inbox
    BY <2>3 DEF IInv, TypeOK
  <2> DEFINE q == Head(inbox)
             op == [s.pending[1] EXCEPT !.msg = q]
             t == [s EXCEPT !.pending = <<op>>]
  <2>5. q \in 1 .. n /\ q \in Nat
    <3>1. q \in 0 .. n
      BY <2>4 DEF IInv, InboxKnown
    <3> QED BY <1>1, <2>3, <3>1
  <2>6. op \in IoOps /\ op.id = s.pending[1].id /\ op.kind = "headers" /\ op.msg = q
    <3> DEFINE op0 == s.pending[1]
    <3>1. op0 \in IoOps /\ op0.kind = "headers"
      BY <1>2, <2>3
    <3> HIDE DEF op0, q
    <3>2. [op0 EXCEPT !.msg = q] \in IoOps
      BY <2>5, <3>1 DEF IoOps
    <3>3. /\ [op0 EXCEPT !.msg = q].id = op0.id
          /\ [op0 EXCEPT !.msg = q].kind = op0.kind
          /\ [op0 EXCEPT !.msg = q].msg = q
      BY <3>1 DEF IoOps
    <3> QED BY <3>1, <3>2, <3>3 DEF op0
  <2>7. t = [s EXCEPT !.pending[i].msg = q]
    <3>1. [<<s.pending[1]>> EXCEPT ![1].msg = q] = <<op>>
      BY <1>2
    <3> HIDE DEF op, q
    <3>2. [s.pending EXCEPT ![1].msg = q] = <<op>>
      BY <1>2, <3>1
    <3>3. [s EXCEPT !.pending[1].msg = q] = [s EXCEPT !.pending = [s.pending EXCEPT ![1].msg = q]]
      BY <1>1 DEF Sessions
    <3> QED BY <1>2, <3>2, <3>3
  <2>8. t.pending = <<op>>
    BY <1>1 DEF Sessions
  <2> HIDE DEF op
  <2>9. Good(t, n, closing)
    BY <1>1, <1>2, <2>3, <2>6, ProgressGood
  <2>10. t.pending[i] = op /\ i \in DOMAIN t.pending
    BY <1>2, <2>8
  <2>11. k \in Nat
    BY <2>4
  <2> HIDE DEF t, q
  <2>12. Good(Complete(t, i, "ok", k), n, closing)
    BY <1>1, <2>5, <2>6, <2>9, <2>10, <2>11, CompleteGood DEF Codes
  <2>13. Good(s', Len(sent), LastCloses(dispatched))
    BY <2>2, <2>7, <2>12 DEF q, closing
  <2>14. /\ inbox' \in Seq(Nat)
         /\ \A j \in DOMAIN inbox' : inbox'[j] \in 0 .. Len(sent)
    <3> DEFINE m == k + 2
    <3>1. m \in Nat \ {0} /\ inbox' = SubSeq(inbox, m, Len(inbox))
      BY <2>2, <2>11
    <3> HIDE DEF m
    <3> QED BY <3>1, InboxSuffix
  <2> QED BY <2>3, <2>13, <2>14, SessionStep
<1>4. CASE \E i \in DOMAIN s.pending : HeadersOverflow(i)
  <2>1. PICK i \in DOMAIN s.pending : HeadersOverflow(i)
    BY <1>4
  <2>2. s' = Complete(s, i, "not_found", 0) /\ UNCHANGED <<sent, todo, inbox, outbox, dispatched>>
    BY <2>1 DEF HeadersOverflow
  <2>3. Good(s', n, closing)
    BY <1>1, <2>2, CompleteGood DEF Codes
  <2> QED BY <2>2, <2>3, InboxUnchanged, SessionStep DEF closing
<1>5. CASE \E i \in DOMAIN s.pending : BodyArrives(i)
  <2>1. PICK i \in DOMAIN s.pending : BodyArrives(i)
    BY <1>5
  <2>2. /\ s.pending[i].kind = "body"
        /\ s' = Complete(s, i, "ok", s.pending[i].n)
        /\ inbox' = SubSeq(inbox, s.pending[i].n + 1, Len(inbox))
        /\ UNCHANGED <<sent, todo, outbox, dispatched>>
    BY <2>1 DEF BodyArrives
  <2>3. s.pending[i].n \in Nat
    BY <1>2 DEF IoOps
  <2>4. Good(s', n, closing)
    BY <1>1, <1>2, <2>2, <2>3, CompleteGood DEF Codes
  <2>5. /\ inbox' \in Seq(Nat)
        /\ \A j \in DOMAIN inbox' : inbox'[j] \in 0 .. Len(sent)
    <3> DEFINE m == s.pending[i].n + 1
    <3>1. m \in Nat \ {0} /\ inbox' = SubSeq(inbox, m, Len(inbox))
      BY <2>2, <2>3
    <3> HIDE DEF m
    <3> QED BY <3>1, InboxSuffix
  <2> QED BY <2>2, <2>4, <2>5, SessionStep DEF closing
<1>6. CASE \E i \in DOMAIN s.pending : WriteSome(i)
  <2>1. PICK i \in DOMAIN s.pending : WriteSome(i)
    BY <1>6
  <2> DEFINE op0 == s.pending[1]
  <2>2. i = 1 /\ op0 \in IoOps /\ s.pending = <<op0>> /\ op0.msg \in Nat /\ op0.n \in Nat
    BY <1>2 DEF IoOps
  <2>3. PICK j \in 1 .. op0.n :
          /\ outbox' = outbox \o [x \in 1 .. j |-> op0.msg]
          /\ s' = IF j = op0.n THEN Complete(s, 1, "ok", 0)
                               ELSE [s EXCEPT !.pending[1].n = @ - j]
    <3>1. WriteSome(1)
      BY <2>1, <2>2
    <3> QED BY <3>1 DEF WriteSome
  <2>4. op0.kind = "write" /\ UNCHANGED <<sent, todo, inbox, dispatched>>
    BY <2>1, <2>2 DEF WriteSome
  <2>5. Good(s', n, closing)
    <3>1. CASE j = op0.n
      BY <1>1, <1>2, <2>2, <2>3, <2>4, <3>1, CompleteGood DEF Codes
    <3>2. CASE j # op0.n
      <4> DEFINE op == [op0 EXCEPT !.n = op0.n - j]
      <4>1. op0.n - j \in Nat
        BY <2>2, <2>3
      <4>2. /\ op \in IoOps /\ op.id = op0.id /\ op.kind = op0.kind
            /\ op.msg = op0.msg
        BY <2>2, <4>1, OpUpdates DEF IoOps
      <4>3. s' = [s EXCEPT !.pending = <<op>>]
        <5>1. [<<op0>> EXCEPT ![1].n = @ - j] = <<op>>
          BY <2>2
        <5> HIDE DEF op
        <5>2. [s.pending EXCEPT ![1].n = @ - j] = <<op>>
          BY <2>2, <5>1
        <5>3. s' = [s EXCEPT !.pending = [s.pending EXCEPT ![1].n = @ - j]]
          BY <1>1, <2>3, <3>2 DEF Sessions
        <5> QED BY <5>2, <5>3
      <4> HIDE DEF op
      <4>4. Good([s EXCEPT !.pending = <<op>>], n, closing)
        BY <1>1, <1>2, <2>2, <4>2, ProgressGood
      <4> QED BY <4>3, <4>4
    <3> QED BY <3>1, <3>2
  <2>6. outbox' \in Seq(Nat)
    <3> DEFINE w == [x \in 1 .. j |-> op0.msg]
    <3>1. w \in Seq(Nat)
      <4>1. j \in Nat /\ op0.msg \in Nat
        BY <2>2, <2>3
      <4> DEFINE m == op0.msg
      <4> HIDE DEF op0, m
      <4>2. w = [x \in 1 .. j |-> m] /\ m \in Nat
        BY <4>1 DEF m
      <4> HIDE DEF w
      <4> QED BY <4>1, <4>2
    <3>2. outbox \in Seq(Nat)
      BY DEF IInv, TypeOK
    <3> HIDE DEF w
    <3>3. outbox \o w \in Seq(Nat)
      BY <3>1, <3>2
    <3> QED BY <2>3, <3>3 DEF w
  <2>7. TypeOK'
    BY <2>4, <2>5, <2>6 DEF IInv, TypeOK, Good, Sound
  <2>8. InboxKnown' /\ NothingAfterClose'
    BY <2>4 DEF IInv, InboxKnown, NothingAfterClose
  <2>9. Good(s, Len(sent), LastCloses(dispatched))'
    BY <2>4, <2>5 DEF closing
  <2> QED BY <2>7, <2>8, <2>9 DEF IInv
<1>7. CASE \E i \in DOMAIN s.pending : IoFails(i)
  <2>1. PICK i \in DOMAIN s.pending : IoFails(i)
    BY <1>7
  <2>2. /\ s' = Complete(s, i, "error", s.pending[i].n)
        /\ UNCHANGED <<sent, todo, inbox, outbox, dispatched>>
    BY <2>1 DEF IoFails
  <2>3. s.pending[i].n \in Nat
    BY <1>2 DEF IoOps
  <2>4. Good(s', n, closing)
    BY <1>1, <2>2, <2>3, CompleteGood DEF Codes
  <2> QED BY <2>2, <2>4, InboxUnchanged, SessionStep DEF closing
<1>8. CASE TimerExpires
  <2>1. s' = Expire(s) /\ CanExpire(s) /\ UNCHANGED <<sent, todo, inbox, outbox, dispatched>>
    BY <1>8 DEF TimerExpires
  <2>2. Good(s', n, closing)
    BY <1>1, <2>1, ExpireGood
  <2> QED BY <2>1, <2>2, InboxUnchanged, SessionStep DEF closing
<1> QED BY <1>3, <1>4, <1>5, <1>6, <1>7, <1>8 DEF System

\* A request is handled only on a session that no earlier request closes, and
\* starts the write of its response.
LEMMA DispatchInv ==
    ASSUME IInv, ~LastCloses(dispatched),
           NEW t, Idle(t), NEW q \in 1 .. Len(sent), NEW throws \in BOOLEAN,
           OnMessageParsed(t, q, throws),
           UNCHANGED <<sent, todo, inbox, outbox>>
    PROVE  IInv'
<1> DEFINE keep == ~sent[q].close /\ ~throws
           u == [t EXCEPT !.keepAlive = keep]
<1>1. s' = StartIo(u, "write", q, RespSize) /\ dispatched' = Append(dispatched, [msg |-> q, keep |-> keep])
  BY DEF OnMessageParsed, DoWrite
<1>2. keep \in BOOLEAN
  BY StateFacts, ServerAssumption
<1>3. /\ u \in Sessions /\ u.open = t.open /\ u.pending = t.pending /\ u.ready = t.ready
      /\ u.keepAlive = keep
  BY <1>2 DEF Idle, Sessions
<1>4. dispatched \in Seq([msg : Nat, keep : BOOLEAN]) /\ q \in Nat
  BY DEF IInv, TypeOK
<1> DEFINE d == [msg |-> q, keep |-> keep]
<1>5. d \in [msg : Nat, keep : BOOLEAN] /\ d.keep = keep
  BY <1>2, <1>4
<1> HIDE DEF keep, u, d
<1>6. Idle(u)
  BY <1>3 DEF Idle, Queued, ClosedIsQuiet
<1>7. Good(s', Len(sent), ~keep)
  <2>1. Len(sent) \in Nat /\ RespSize \in Nat /\ "write" \in IoKinds
    BY StateFacts, ServerAssumption DEF IoKinds
  <2> QED BY <1>1, <1>2, <1>3, <1>4, <1>6, <2>1, StartGood
<1>8. /\ dispatched' \in Seq([msg : Nat, keep : BOOLEAN])
      /\ Len(dispatched') = Len(dispatched) + 1 /\ dispatched' # <<>>
      /\ dispatched'[Len(dispatched) + 1] = d
      /\ DOMAIN dispatched' = 1 .. Len(dispatched) + 1
      /\ \A i \in 1 .. Len(dispatched) : dispatched'[i] = dispatched[i]
      /\ DOMAIN dispatched = 1 .. Len(dispatched) /\ Len(dispatched) \in Nat
  BY <1>1, <1>4, <1>5, AppendProperties DEF d
<1>9. LastCloses(dispatched') = ~keep
  BY <1>2, <1>5, <1>8 DEF LastCloses
<1>10. NothingAfterClose'
  <2>1. \A i \in 1 .. Len(dispatched) : dispatched[i].keep
    <3>1. \A i \in 1 .. Len(dispatched) : dispatched # <<>>
      BY <1>4
    <3> QED BY <1>8, <3>1 DEF IInv, NothingAfterClose, LastCloses
  <2> QED BY <1>8, <2>1 DEF NothingAfterClose
<1>11. TypeOK'
  BY <1>7, <1>8 DEF IInv, TypeOK, Good, Sound
<1>12. InboxKnown'
  BY DEF IInv, InboxKnown
<1>13. Good(s, Len(sent), LastCloses(dispatched))'
  BY <1>7, <1>9
<1> QED BY <1>10, <1>11, <1>12, <1>13 DEF IInv

LEMMA HandlerInv == ASSUME IInv, Handler PROVE IInv'
<1> DEFINE n == Len(sent)
           closing == LastCloses(dispatched)
           c == Head(s.ready)
           t == CancelTimer(Pop(s))
<1>1. /\ Sound(s) /\ s \in Sessions /\ n \in Nat /\ closing \in BOOLEAN
      /\ Good(s, n, closing)
      /\ \A q \in 1 .. n : sent[q] \in Requests
  BY StateFacts
<1> HIDE DEF closing
<1>2. ASSUME Running(s, IoKinds)
      PROVE  /\ Idle(t) /\ t.open = s.open
             /\ closing => ~t.keepAlive /\ c.kind = "write"
             /\ c \in IoOps
             /\ c.ec = "ok" => c.msg \in 1 .. n
             /\ c.ec = "cancelled" => ~s.open
  <2>1. /\ Idle(t) /\ t.open = s.open /\ t.keepAlive = s.keepAlive
        /\ c = s.ready[1] /\ 1 \in DOMAIN s.ready /\ c \in IoOps
        /\ c.ec = "cancelled" => ~s.open
    BY <1>1, <1>2, RunIoIdle
  <2>2. c.kind \in IoKinds /\ c.kind # "timer"
    BY <2>1, KindsDiffer DEF IoOps
  <2> HIDE DEF c, t
  <2> QED BY <1>1, <2>1, <2>2 DEF Good, Known, WriteOnly
<1>3. \A k \in IoKinds : Running(s, {k}) => Running(s, IoKinds) /\ c.kind = k
  BY DEF Running
<1> HIDE DEF t, c
<1>4. ASSUME Running(s, IoKinds), s' = Shutdown(t),
             UNCHANGED <<sent, todo, inbox, outbox, dispatched>>
      PROVE  IInv'
  <2>1. Good(s', n, closing)
    BY <1>1, <1>2, <1>4, IdleShutdownGood
  <2> QED BY <1>4, <2>1, InboxUnchanged, SessionStep DEF closing
<1>5. CASE HeadersAborted
  <2>1. /\ Running(s, IoKinds) /\ c.ec = "cancelled" /\ s' = t
        /\ UNCHANGED <<sent, todo, inbox, outbox, dispatched>>
    BY <1>3, <1>5 DEF HeadersAborted, c, t, IoKinds
  <2>2. Good(s', n, closing)
    BY <1>1, <1>2, <2>1, IdleFacts, IdleGood DEF Good
  <2> QED BY <2>1, <2>2, InboxUnchanged, SessionStep DEF closing
<1>6. CASE HeadersRejected
  BY <1>3, <1>4, <1>6 DEF HeadersRejected, OnError, t, IoKinds
<1>7. CASE HeadersNeedBody
  <2>1. /\ Running(s, IoKinds) /\ c.kind = "headers" /\ c.ec = "ok"
        /\ HeadersUsable(c, sent[c.msg]) /\ c.n < sent[c.msg].len
        /\ s' = DoRemainingRead(t, sent[c.msg].len - c.n, c.msg)
        /\ UNCHANGED <<sent, todo, inbox, outbox, dispatched>>
    BY <1>3, <1>7 DEF HeadersNeedBody, c, t, IoKinds
  <2>2. sent[c.msg].len \in Nat /\ c.n \in Nat /\ c.msg \in Nat /\ c.msg \in 1 .. n
    BY <1>1, <1>2, <2>1, ServerAssumption DEF IoOps
  <2> DEFINE k == sent[c.msg].len - c.n
  <2>3. k \in Nat
    BY <2>1, <2>2
  <2>4. Idle(t) /\ ~closing
    BY <1>1, <1>2, <2>1
  <2> HIDE DEF k
  <2>5. Good(StartIo(t, "body", c.msg, k), n, closing)
    BY <1>1, <2>2, <2>3, <2>4, StartGood DEF IoKinds
  <2>6. Good(s', n, closing)
    BY <2>1, <2>5 DEF DoRemainingRead, k
  <2> QED BY <2>1, <2>6, InboxUnchanged, SessionStep DEF closing
<1>8. CASE HeadersComplete
  <2>1. /\ Running(s, IoKinds) /\ c.kind = "headers" /\ c.ec = "ok"
        /\ UNCHANGED <<sent, todo, inbox, outbox>>
    BY <1>3, <1>8 DEF HeadersComplete, c, t, IoKinds
  <2>2. PICK throws \in BOOLEAN : OnMessageParsed(t, c.msg, throws)
    BY <1>8 DEF HeadersComplete, c, t
  <2>3. Idle(t) /\ ~closing /\ c.msg \in 1 .. n
    BY <1>1, <1>2, <2>1
  <2> QED BY <2>1, <2>2, <2>3, DispatchInv DEF closing
<1>9. CASE BodyFailed
  BY <1>3, <1>4, <1>9 DEF BodyFailed, OnError, t, IoKinds
<1>10. CASE BodyComplete
  <2>1. /\ Running(s, IoKinds) /\ c.kind = "body" /\ c.ec = "ok"
        /\ UNCHANGED <<sent, todo, inbox, outbox>>
    BY <1>3, <1>10 DEF BodyComplete, c, t, IoKinds
  <2>2. PICK throws \in BOOLEAN : OnMessageParsed(t, c.msg, throws)
    BY <1>10 DEF BodyComplete, c, t
  <2>3. Idle(t) /\ ~closing /\ c.msg \in 1 .. n
    BY <1>1, <1>2, <2>1
  <2> QED BY <2>1, <2>2, <2>3, DispatchInv DEF closing
<1>11. CASE WriteFailed
  BY <1>3, <1>4, <1>11 DEF WriteFailed, OnError, t, IoKinds
<1>12. CASE WriteDone
  <2>1. /\ Running(s, IoKinds) /\ s' = OnWriteComplete(t)
        /\ UNCHANGED <<sent, todo, inbox, outbox, dispatched>>
    BY <1>3, <1>12 DEF WriteDone, t, IoKinds
  <2>2. CASE t.keepAlive
    <3>1. s' = StartIo(t, "headers", 0, 0) /\ Idle(t) /\ ~closing
      BY <1>1, <1>2, <2>1, <2>2 DEF OnWriteComplete, DoRead
    <3>2. Good(s', n, closing)
      BY <1>1, <3>1, StartGood DEF IoKinds
    <3> QED BY <2>1, <3>2, InboxUnchanged, SessionStep DEF closing
  <2>3. CASE ~t.keepAlive
    BY <1>4, <2>1, <2>3 DEF OnWriteComplete
  <2> QED BY <2>2, <2>3
<1>13. CASE TimerFired
  <2> DEFINE u == Pop(s)
             v == Shutdown(u)
  <2>1. /\ s.ready # <<>> /\ s' = Shutdown(v)
        /\ UNCHANGED <<sent, todo, inbox, outbox, dispatched>>
    BY <1>13 DEF TimerFired, OnError, Running
  <2>2. /\ u \in Sessions /\ OneIo(u) /\ ClosedIsQuiet(u)
        /\ u.pending = s.pending /\ u.ready = Tail(s.ready)
    BY <1>1, <2>1, PopQuiet DEF Sound
  <2>3. u.keepAlive = s.keepAlive
    BY <1>1 DEF Pop, Sessions
  <2>4. \A i \in DOMAIN u.ready : i + 1 \in DOMAIN s.ready /\ u.ready[i] = s.ready[i + 1]
    <3>1. s.ready \in Seq(IoOps \cup Timers)
      BY <1>1 DEF Sessions
    <3> QED BY <2>1, <2>2, <3>1, TailFacts
  <2> HIDE DEF u
  <2>5. Known(u, n) /\ (closing => ~u.keepAlive /\ WriteOnly(u))
    BY <1>1, <2>2, <2>3, <2>4 DEF Good, Known, WriteOnly
  <2>6. Good(v, n, closing)
    BY <1>1, <2>2, <2>5, ShutdownGood
  <2> HIDE DEF v
  <2>7. Good(Shutdown(v), n, closing)
    BY <1>1, <2>6, ShutdownGood DEF Good, Sound
  <2> QED BY <2>1, <2>7, InboxUnchanged, SessionStep DEF closing
<1> QED
  BY <1>5, <1>6, <1>7, <1>8, <1>9, <1>10, <1>11, <1>12, <1>13 DEF Handler

LEMMA NextInv == IInv /\ [Next]_vars => IInv'
<1> SUFFICES ASSUME IInv, [Next]_vars PROVE IInv'
  OBVIOUS
<1>1. CASE UNCHANGED vars
  BY <1>1 DEF vars, IInv, TypeOK, InboxKnown, NothingAfterClose, LastCloses
<1> QED BY <1>1, PeerInv, SystemInv, HandlerInv DEF Next

LEMMA Invariance == Spec => []IInv
BY InitInv, NextInv, PTL DEF Spec

(* ------------------------------- theorems ------------------------------- *)

\* The variables of the server's session keep their types: no length or
\* remaining count goes below zero, and no operation is of an unknown kind.
THEOREM TypeCorrect == Spec => []TypeOK
<1>1. IInv => TypeOK
  BY DEF IInv
<1> QED BY <1>1, Invariance, PTL

\* A session never has two reads or writes under way.
THEOREM OneIoAtATimeHolds == Spec => []OneIoAtATime
<1>1. IInv => OneIoAtATime
  BY DEF IInv, Good, Sound, OneIoAtATime
<1> QED BY <1>1, Invariance, PTL

\* An open connection never goes unattended: it has a handler queued, or an
\* operation with its timer.
THEOREM OpenIsWatchedHolds == Spec => []OpenIsWatched
<1>1. IInv => OpenIsWatched
  BY DEF IInv, Good, Sound, OpenIsWatched
<1> QED BY <1>1, Invariance, PTL

\* No request is handled after one that closes the connection.
THEOREM NothingAfterCloseHolds == Spec => []NothingAfterClose
<1>1. IInv => NothingAfterClose
  BY DEF IInv
<1> QED BY <1>1, Invariance, PTL

(* ------------------- the order of requests and responses ---------------- *)

\* The invariant so far says nothing of what is in the streams: Framed, InPlace
\* and Written strengthen it.

(***************************************************************************)
(* The stream to the server.  StartsAt(p, q): request q starts, or will   *)
(* start when the peer sends it, p - 1 units after what the session has   *)
(* taken.  Framed: each request is followed by the next one after the     *)
(* body that its headers announce.                                         *)
(***************************************************************************)
StartsAt(p, q) ==
    IF q = Len(sent) + 1 THEN p = Len(inbox) + todo + 1
    ELSE p \in DOMAIN inbox /\ inbox[p] = q

Framed ==
    \A i \in DOMAIN inbox :
        inbox[i] > 0 => StartsAt(i + sent[inbox[i]].len + 1, inbox[i] + 1)

(***************************************************************************)
(* Where an operation that is under way, or that succeeded and whose      *)
(* handler has yet to run, stands in the streams: a read of the headers   *)
(* at the start of the next request, that of a body as far from the one   *)
(* after as it asks for; and all earlier responses are written.           *)
(***************************************************************************)
Handled == Len(dispatched)

Answered == Len(outbox) = RespSize * Handled

Placed(op) ==
    /\ op.kind = "headers" => StartsAt(1, Handled + 1) /\ Answered
    /\ op.kind = "body" =>
         op.msg = Handled + 1 /\ StartsAt(op.n + 1, Handled + 2) /\ Answered
    /\ op.kind = "write" =>
         /\ op.msg = Handled /\ StartsAt(1, Handled + 1)
         /\ op.n <= RespSize /\ Len(outbox) + op.n = RespSize * Handled

Finished(op) ==
    /\ op.kind = "headers" =>
         /\ op.msg = Handled + 1 /\ Answered
         /\ op.n <= sent[op.msg].len =>
              StartsAt(sent[op.msg].len - op.n + 1, Handled + 2)
    /\ op.kind = "body" => op.msg = Handled + 1 /\ StartsAt(1, Handled + 2) /\ Answered
    /\ op.kind = "write" => StartsAt(1, Handled + 1) /\ Answered

InPlace ==
    /\ \A i \in DOMAIN s.pending : Placed(s.pending[i])
    /\ \A i \in DOMAIN s.ready : s.ready[i].ec = "ok" => Finished(s.ready[i])

Written ==
    /\ Len(outbox) <= RespSize * Handled
    /\ \A i \in DOMAIN outbox : outbox[i] = ((i - 1) \div RespSize) + 1

Ordered ==
    /\ Framed
    /\ InPlace
    /\ Written
    /\ EachRequestOnce

(* ------------------------------- numbers -------------------------------- *)

LEMMA Multiples ==
    ASSUME NEW r \in Nat, NEW d \in Nat
    PROVE  r * d \in Nat /\ r * (d + 1) = r * d + r
OBVIOUS

LEMMA Quotient ==
    ASSUME NEW r \in Nat \ {0}, NEW m \in Nat, NEW k \in Nat, r * k <= m, m < r * k + r
    PROVE  m \div r = k
OBVIOUS

LEMMA QuotientBound ==
    ASSUME NEW r \in Nat \ {0}, NEW m \in Nat, NEW k \in Nat, m < r * k
    PROVE  m \div r \in Nat /\ m \div r < k
<1>1. m \div r \in Nat /\ r * (m \div r) <= m
  OBVIOUS
<1> DEFINE a == m \div r
<1>2. a \in Nat /\ r * a < r * k /\ r * a \in Nat /\ r * k \in Nat
  BY <1>1
<1> HIDE DEF a
<1>3. a < k
  BY <1>2
<1> QED BY <1>2, <1>3 DEF a

(* ------------------------------ the streams ----------------------------- *)

\* The types on which the reasoning about the streams rests.
LEMMA StreamFacts ==
    ASSUME IInv
    PROVE  /\ inbox \in Seq(Nat) /\ Len(inbox) \in Nat /\ todo \in Nat
           /\ outbox \in Seq(Nat) /\ Len(outbox) \in Nat
           /\ dispatched \in Seq([msg : Nat, keep : BOOLEAN]) /\ Handled \in Nat
           /\ sent \in Seq(Requests) /\ Len(sent) \in Nat
           /\ \A q \in 1 .. Len(sent) : sent[q].len \in Nat
           /\ \A i \in DOMAIN inbox : inbox[i] \in 0 .. Len(sent)
           /\ RespSize \in Nat \ {0}
<1>1. sent \in Seq(Requests) /\ Len(sent) \in Nat
  BY DEF IInv, TypeOK
<1>2. \A q \in 1 .. Len(sent) : sent[q] \in Requests
  BY <1>1
<1> QED BY <1>1, <1>2, ServerAssumption DEF IInv, TypeOK, InboxKnown, Handled

\* What is left of the stream when k units are taken.
Taken(k) ==
    /\ k <= Len(inbox)
    /\ inbox' \in Seq(Nat)
    /\ Len(inbox') = Len(inbox) - k /\ DOMAIN inbox' = 1 .. Len(inbox) - k
    /\ \A i \in 1 .. Len(inbox) - k : inbox'[i] = inbox[i + k]
    /\ UNCHANGED <<sent, todo>>

LEMMA TakenInbox ==
    ASSUME IInv, NEW k \in Nat, k <= Len(inbox),
           inbox' = SubSeq(inbox, k + 1, Len(inbox)), UNCHANGED <<sent, todo>>
    PROVE  Taken(k)
<1> DEFINE new == SubSeq(inbox, k + 1, Len(inbox))
<1>1. inbox \in Seq(Nat) /\ Len(inbox) \in Nat
  BY StreamFacts
<1>2. /\ new \in Seq(Nat)
      /\ Len(new) = Len(inbox) - k /\ DOMAIN new = 1 .. Len(inbox) - k
      /\ \A i \in 1 .. Len(inbox) - k : new[i] = inbox[i + k]
  BY <1>1
<1>3. inbox' = new
  OBVIOUS
<1> HIDE DEF new
<1> QED BY <1>2, <1>3 DEF Taken

\* Taking k units off the stream moves every request k units closer.
LEMMA TakenStartsAt ==
    ASSUME IInv, NEW k \in Nat, Taken(k),
           NEW p \in Nat \ {0}, NEW q \in Nat, StartsAt(p + k, q)
    PROVE  StartsAt(p, q)'
<1>1. Len(inbox) \in Nat /\ todo \in Nat /\ DOMAIN inbox = 1 .. Len(inbox)
  BY StreamFacts
<1> QED BY <1>1 DEF StartsAt, Taken

LEMMA TakenFramed ==
    ASSUME IInv, Framed, NEW k \in Nat, Taken(k)
    PROVE  Framed'
<1> SUFFICES ASSUME NEW i \in DOMAIN inbox', inbox'[i] > 0
             PROVE  StartsAt(i + sent[inbox[i]].len + 1, inbox[i] + 1)'
  BY DEF Framed
<1> DEFINE q == inbox[i + k]
           p == i + sent[q].len + 1
<1>1. i \in Nat /\ i + k \in DOMAIN inbox /\ inbox'[i] = q
  <2>1. Len(inbox) \in Nat /\ DOMAIN inbox = 1 .. Len(inbox)
    BY StreamFacts
  <2> QED BY <2>1 DEF Taken
<1>2. q \in 1 .. Len(sent) /\ sent[q].len \in Nat /\ q + 1 \in Nat
  <2>1. q \in 0 .. Len(sent) /\ Len(sent) \in Nat
    BY <1>1, StreamFacts
  <2>2. q > 0
    BY <1>1
  <2>3. q \in 1 .. Len(sent) /\ q + 1 \in Nat
    BY <2>1, <2>2
  <2> QED BY <2>3, StreamFacts
<1>3. p \in Nat \ {0} /\ p + k = (i + k) + sent[q].len + 1
  <2> DEFINE len == sent[q].len
  <2> HIDE DEF q
  <2>1. i \in Nat /\ k \in Nat /\ len \in Nat
    BY <1>1, <1>2
  <2> HIDE DEF len
  <2> QED BY <2>1 DEF len
<1>4. StartsAt(p + k, q + 1)
  BY <1>1, <1>2, <1>3 DEF Framed
<1>5. ASSUME NEW x \in Nat \ {0}, NEW y \in Nat, x = p, y = q + 1
      PROVE  StartsAt(x, y)'
  BY <1>4, <1>5, TakenStartsAt
<1>6. (i + sent[inbox[i]].len + 1)' = p /\ (inbox[i] + 1)' = q + 1
  BY <1>1 DEF Taken
<1> HIDE DEF p, q
<1> QED BY <1>2, <1>3, <1>5, <1>6 DEF StartsAt

(* -------------------------------- the peer ------------------------------ *)

\* What the peer adds at the end of the stream moves no request.
LEMMA SentStartsAt ==
    ASSUME IInv, Peer, NEW p \in Nat, NEW q \in Nat, StartsAt(p, q)
    PROVE  StartsAt(p, q)'
<1>1. /\ inbox \in Seq(Nat) /\ Len(inbox) \in Nat /\ DOMAIN inbox = 1 .. Len(inbox)
      /\ todo \in Nat /\ sent \in Seq(Requests) /\ Len(sent) \in Nat
      /\ \A i \in DOMAIN inbox : inbox[i] \in 0 .. Len(sent)
  BY StreamFacts
<1>2. CASE PeerSendsHeaders
  <2>1. PICK r \in Requests : sent' = Append(sent, r)
    BY <1>2 DEF PeerSendsHeaders
  <2>2. inbox' = Append(inbox, Len(sent) + 1) /\ todo = 0
    BY <1>2 DEF PeerSendsHeaders
  <2>3. /\ Len(sent') = Len(sent) + 1 /\ Len(inbox') = Len(inbox) + 1
        /\ DOMAIN inbox' = 1 .. Len(inbox) + 1
        /\ inbox'[Len(inbox) + 1] = Len(sent) + 1
        /\ \A i \in 1 .. Len(inbox) : inbox'[i] = inbox[i]
    BY <1>1, <2>1, <2>2
  <2>4. CASE q = Len(sent) + 1
    BY <1>1, <2>2, <2>3, <2>4 DEF StartsAt
  <2>5. CASE q # Len(sent) + 1
    <3>1. p \in 1 .. Len(inbox) /\ inbox[p] = q /\ q \in 0 .. Len(sent)
      BY <1>1, <2>5 DEF StartsAt
    <3>2. p \in DOMAIN inbox' /\ inbox'[p] = q /\ q # Len(sent') + 1
      BY <1>1, <2>3, <3>1
    <3> QED BY <3>2 DEF StartsAt
  <2> QED BY <2>4, <2>5
<1>3. CASE PeerSendsBody
  <2>1. inbox' = Append(inbox, 0) /\ todo > 0 /\ todo' = todo - 1 /\ sent' = sent
    BY <1>3 DEF PeerSendsBody
  <2>2. /\ Len(inbox') = Len(inbox) + 1
        /\ DOMAIN inbox' = 1 .. Len(inbox) + 1
        /\ \A i \in 1 .. Len(inbox) : inbox'[i] = inbox[i]
    BY <1>1, <2>1
  <2> QED BY <1>1, <2>1, <2>2 DEF StartsAt
<1> QED BY <1>2, <1>3 DEF Peer

LEMMA PeerFramed == ASSUME IInv, Framed, Peer PROVE Framed'
<1>1. /\ inbox \in Seq(Nat) /\ Len(inbox) \in Nat /\ DOMAIN inbox = 1 .. Len(inbox)
      /\ todo \in Nat /\ sent \in Seq(Requests) /\ Len(sent) \in Nat
      /\ \A i \in DOMAIN inbox : inbox[i] \in 0 .. Len(sent)
      /\ \A q \in 1 .. Len(sent) : sent[q].len \in Nat
  BY StreamFacts
<1>2. ASSUME NEW i \in DOMAIN inbox, inbox[i] > 0, inbox'[i] = inbox[i],
             sent'[inbox[i]] = sent[inbox[i]]
      PROVE  StartsAt(i + sent[inbox[i]].len + 1, inbox[i] + 1)'
  <2> DEFINE q == inbox[i]
             p == i + sent[q].len + 1
  <2>1. q \in 1 .. Len(sent) /\ q + 1 \in Nat
    BY <1>1, <1>2
  <2>2. p \in Nat
    <3> HIDE DEF q
    <3>1. sent[q].len \in Nat
      BY <1>1, <2>1
    <3> QED BY <1>1, <3>1
  <2>3. StartsAt(p, q + 1)
    BY <1>2 DEF Framed
  <2>4. ASSUME NEW x \in Nat, NEW y \in Nat, x = p, y = q + 1
        PROVE  StartsAt(x, y)'
    BY <2>3, <2>4, SentStartsAt
  <2>5. (i + sent[inbox[i]].len + 1)' = p /\ (inbox[i] + 1)' = q + 1
    BY <1>2
  <2> HIDE DEF p, q
  <2> QED BY <2>1, <2>2, <2>4, <2>5 DEF StartsAt
<1>3. CASE PeerSendsHeaders
  <2>1. PICK r \in Requests : sent' = Append(sent, r) /\ todo' = r.len
    BY <1>3 DEF PeerSendsHeaders
  <2>2. inbox' = Append(inbox, Len(sent) + 1)
    BY <1>3 DEF PeerSendsHeaders
  <2>3. /\ Len(sent') = Len(sent) + 1 /\ Len(inbox') = Len(inbox) + 1
        /\ DOMAIN inbox' = 1 .. Len(inbox) + 1
        /\ inbox'[Len(inbox) + 1] = Len(sent) + 1
        /\ \A i \in 1 .. Len(inbox) : inbox'[i] = inbox[i]
        /\ sent'[Len(sent) + 1] = r
        /\ \A q \in 1 .. Len(sent) : sent'[q] = sent[q]
    BY <1>1, <2>1, <2>2
  <2>4. r.len \in Nat
    BY ServerAssumption
  <2> SUFFICES ASSUME NEW i \in DOMAIN inbox', inbox'[i] > 0
               PROVE  StartsAt(i + sent[inbox[i]].len + 1, inbox[i] + 1)'
    BY DEF Framed
  <2>5. CASE i = Len(inbox) + 1
    <3>1. inbox'[i] = Len(sent) + 1 /\ sent'[inbox'[i]] = r
      BY <2>3, <2>5
    <3>2. i + r.len + 1 = Len(inbox') + todo' + 1 /\ inbox'[i] + 1 = Len(sent') + 1
      BY <1>1, <2>1, <2>3, <2>4, <2>5, <3>1
    <3> QED BY <3>1, <3>2 DEF StartsAt
  <2>6. CASE i # Len(inbox) + 1
    <3>1. i \in 1 .. Len(inbox) /\ inbox'[i] = inbox[i]
      BY <1>1, <2>3, <2>6
    <3>2. inbox[i] \in 1 .. Len(sent)
      BY <1>1, <3>1
    <3>3. sent'[inbox[i]] = sent[inbox[i]]
      BY <2>3, <3>2
    <3> QED BY <1>1, <1>2, <3>1, <3>3
  <2> QED BY <2>5, <2>6
<1>4. CASE PeerSendsBody
  <2>1. inbox' = Append(inbox, 0) /\ todo > 0 /\ todo' = todo - 1 /\ sent' = sent
    BY <1>4 DEF PeerSendsBody
  <2>2. /\ DOMAIN inbox' = 1 .. Len(inbox) + 1 /\ inbox'[Len(inbox) + 1] = 0
        /\ \A i \in 1 .. Len(inbox) : inbox'[i] = inbox[i]
    BY <1>1, <2>1
  <2> SUFFICES ASSUME NEW i \in DOMAIN inbox', inbox'[i] > 0
               PROVE  StartsAt(i + sent[inbox[i]].len + 1, inbox[i] + 1)'
    BY DEF Framed
  <2>3. i \in 1 .. Len(inbox) /\ inbox'[i] = inbox[i]
    BY <1>1, <2>2
  <2> QED BY <1>1, <1>2, <2>1, <2>3
<1> QED BY <1>3, <1>4 DEF Peer

\* The operations of the session, with the numbers that they carry.
LEMMA OpFacts ==
    ASSUME IInv
    PROVE  /\ \A i \in DOMAIN s.pending : s.pending[i] \in IoOps
           /\ \A i \in DOMAIN s.ready :
                /\ s.ready[i] \in IoOps \cup Timers
                /\ s.ready[i].n \in Nat
                /\ s.ready[i].kind \in IoKinds /\ s.ready[i].ec = "ok" =>
                     s.ready[i].msg \in 1 .. Len(sent)
<1>1. s.pending \in Seq(IoOps) /\ s.ready \in Seq(IoOps \cup Timers)
  BY StateFacts DEF Sessions
<1>2. \A i \in DOMAIN s.ready : s.ready[i] \in IoOps \cup Timers
  BY <1>1
<1>3. \A op \in IoOps \cup Timers : op.n \in Nat
  BY DEF IoOps, Timers
<1> QED BY <1>1, <1>2, <1>3, StateFacts DEF Good, Known

\* A step of the other end, which leaves what is known of the requests already
\* sent and moves no request in the stream.
LEMMA GrownOrdered ==
    ASSUME IInv, Ordered, UNCHANGED <<s, outbox, dispatched>>,
           \A q \in 1 .. Len(sent) : sent'[q] = sent[q],
           \A p \in Nat, q \in Nat : StartsAt(p, q) => StartsAt(p, q)',
           Framed'
    PROVE  Ordered'
<1>1. UNCHANGED <<s, outbox, dispatched>>
  OBVIOUS
<1>2. \A q \in 1 .. Len(sent) : sent'[q] = sent[q]
  OBVIOUS
<1>3. \A p \in Nat, q \in Nat : StartsAt(p, q) => StartsAt(p, q)'
  OBVIOUS
<1>4. Handled \in Nat /\ Handled + 1 \in Nat /\ Handled + 2 \in Nat
  BY StreamFacts
<1>5. Handled' = Handled /\ Answered' = Answered /\ s' = s
  BY <1>1 DEF Handled, Answered
<1>6. ASSUME NEW i \in DOMAIN s.pending
      PROVE  Placed(s.pending[i])'
  <2>1. Placed(s.pending[i]) /\ s.pending[i].n + 1 \in Nat
    BY OpFacts DEF Ordered, InPlace, IoOps
  <2> QED BY <1>1, <1>3, <1>4, <1>5, <2>1 DEF Placed, StartsAt
<1>7. ASSUME NEW i \in DOMAIN s.ready, s.ready[i].ec = "ok"
      PROVE  Finished(s.ready[i])'
  <2> DEFINE op == s.ready[i]
             k == sent[op.msg].len - op.n + 1
  <2>1. Finished(op) /\ op.n \in Nat /\ (op.kind \in IoKinds => op.msg \in 1 .. Len(sent))
    BY <1>7, OpFacts DEF Ordered, InPlace
  <2>2. op.kind = "headers" => sent'[op.msg] = sent[op.msg] /\ sent[op.msg].len \in Nat
    BY <1>2, <2>1, StreamFacts DEF IoKinds
  <2>3. op.kind = "headers" /\ op.n <= sent[op.msg].len => k \in Nat
    <3> DEFINE len == sent[op.msg].len
    <3>1. op.kind = "headers" => len \in Nat
      BY <2>2
    <3> HIDE DEF op, len
    <3> QED BY <2>1, <3>1 DEF len
  <2>4. ASSUME op.kind = "headers", op.n <= sent'[op.msg].len
        PROVE  StartsAt(sent[op.msg].len - op.n + 1, Handled + 2)'
    <3>1. k \in Nat /\ StartsAt(k, Handled + 2)
      BY <2>1, <2>2, <2>3, <2>4 DEF Finished
    <3>2. ASSUME NEW x \in Nat, NEW y \in Nat, x = k, y = Handled + 2
          PROVE  StartsAt(x, y)'
      BY <1>3, <3>1, <3>2
    <3>3. (sent[op.msg].len - op.n + 1)' = k /\ (Handled + 2)' = Handled + 2
      BY <1>5, <2>2, <2>4
    <3> HIDE DEF k
    <3> QED BY <1>4, <3>1, <3>2, <3>3 DEF StartsAt
  <2>5. 1 \in Nat
    OBVIOUS
  <2>6. op' = op
    BY <1>5
  <2> HIDE DEF op, k
  <2>7. Finished(op)'
    BY <1>3, <1>4, <1>5, <2>1, <2>4, <2>5, <2>6 DEF Finished, StartsAt
  <2> QED BY <2>7 DEF op
<1>8. InPlace'
  BY <1>5, <1>6, <1>7 DEF InPlace
<1>9. Written' /\ EachRequestOnce'
  BY <1>1, <1>5 DEF Ordered, Written, EachRequestOnce
<1> QED BY <1>8, <1>9 DEF Ordered

LEMMA PeerOrdered == ASSUME IInv, Ordered, Peer PROVE Ordered'
<1>1. UNCHANGED <<s, outbox, dispatched>>
  BY DEF Peer, PeerSendsHeaders, PeerSendsBody
<1>2. \A q \in 1 .. Len(sent) : sent'[q] = sent[q]
  <2>1. sent \in Seq(Requests) /\ Len(sent) \in Nat
    BY StreamFacts
  <2>2. sent' = sent \/ \E r \in Requests : sent' = Append(sent, r)
    BY DEF Peer, PeerSendsHeaders, PeerSendsBody
  <2>3. ASSUME NEW r \in Requests, sent' = Append(sent, r), NEW q \in 1 .. Len(sent)
        PROVE  sent'[q] = sent[q]
    BY <2>1, <2>3
  <2> QED BY <2>2, <2>3
<1>3. \A p \in Nat, q \in Nat : StartsAt(p, q) => StartsAt(p, q)'
  BY SentStartsAt
<1>4. Framed'
  BY PeerFramed DEF Ordered
<1> QED BY <1>1, <1>2, <1>3, <1>4, GrownOrdered

(* --------------------- steps of the session by itself ------------------- *)

\* A step that moves nothing in the streams, and after which every operation
\* stands where it should.
LEMMA StillOrdered ==
    ASSUME Ordered, UNCHANGED <<sent, todo, inbox, outbox, dispatched>>,
           \A i \in DOMAIN s'.pending : Placed(s'.pending[i]),
           \A i \in DOMAIN s'.ready : s'.ready[i].ec = "ok" => Finished(s'.ready[i])
    PROVE  Ordered'
<1>1. Framed'
  BY DEF Ordered, Framed, StartsAt
<1>2. Written' /\ EachRequestOnce'
  BY DEF Ordered, Written, EachRequestOnce, Handled
<1>3. InPlace'
  BY DEF InPlace, Placed, Finished, StartsAt, Handled, Answered
<1> QED BY <1>1, <1>2, <1>3 DEF Ordered

\* A step that starts and finishes no operation.
LEMMA NothingNew ==
    ASSUME Ordered, UNCHANGED <<sent, todo, inbox, outbox, dispatched>>,
           \A i \in DOMAIN s'.pending :
             \E j \in DOMAIN s.pending : s'.pending[i] = s.pending[j],
           \A i \in DOMAIN s'.ready :
             \/ \E j \in DOMAIN s.ready : s'.ready[i] = s.ready[j]
             \/ s'.ready[i].ec # "ok"
             \/ s'.ready[i].kind = "timer"
    PROVE  Ordered'
<1>1. \A i \in DOMAIN s'.pending : Placed(s'.pending[i])
  BY DEF Ordered, InPlace
<1>2. ASSUME NEW i \in DOMAIN s'.ready, s'.ready[i].ec = "ok"
      PROVE  Finished(s'.ready[i])
  <2>1. CASE s'.ready[i].kind = "timer"
    BY <2>1 DEF Finished
  <2>2. CASE \E j \in DOMAIN s.ready : s'.ready[i] = s.ready[j]
    BY <1>2, <2>2 DEF Ordered, InPlace
  <2> QED BY <1>2, <2>1, <2>2
<1> QED BY <1>1, <1>2, StillOrdered

\* The handler of a read or write that starts nothing in its place.
LEMMA NothingLeft ==
    ASSUME Ordered, UNCHANGED <<sent, todo, inbox, outbox, dispatched>>,
           NEW t, Idle(t), s' = t \/ s' = Shutdown(t)
    PROVE  Ordered'
<1>1. /\ t \in Sessions /\ t.pending = <<>> /\ ClosedIsQuiet(t)
      /\ \A i \in DOMAIN t.ready : t.ready[i].kind \notin IoKinds
  BY DEF Idle, Queued
<1>2. /\ s'.pending = <<>>
      /\ \A i \in DOMAIN s'.ready : s'.ready[i].kind \notin IoKinds \/ s'.ready[i].ec # "ok"
  <2>1. CASE s' = t
    BY <1>1, <2>1
  <2>2. CASE s' = Shutdown(t)
    BY <1>1, <2>2, ShutdownOps
  <2> QED BY <2>1, <2>2
<1>3. \A i \in DOMAIN s'.pending : Placed(s'.pending[i])
  BY <1>2
<1>4. \A i \in DOMAIN s'.ready : s'.ready[i].ec = "ok" => Finished(s'.ready[i])
  BY <1>2 DEF Finished, IoKinds
<1> QED BY <1>3, <1>4, StillOrdered

\* An operation that a handler starts.
LEMMA OneStarted ==
    ASSUME NEW t, Idle(t), NEW kind \in IoKinds, NEW msg \in Nat, NEW n \in Nat,
           NEW r, r = StartIo(t, kind, msg, n)
    PROVE  /\ \A i \in DOMAIN r.pending :
                r.pending[i].kind = kind /\ r.pending[i].msg = msg /\ r.pending[i].n = n
           /\ \A i \in DOMAIN r.ready : r.ready[i].kind \notin IoKinds \/ r.ready[i].ec # "ok"
BY StartIoOps

\* An operation that fails.
LEMMA FailedOrdered ==
    ASSUME IInv, Ordered, UNCHANGED <<sent, todo, inbox, outbox, dispatched>>,
           NEW i \in DOMAIN s.pending, NEW ec \in Codes \ {"ok", "cancelled"}, NEW k \in Nat,
           s' = Complete(s, i, ec, k)
    PROVE  Ordered'
<1>1. Sound(s)
  BY StateFacts
<1>2. /\ s'.pending = <<>>
      /\ \A j \in DOMAIN s'.ready :
           (j \in DOMAIN s.ready /\ s'.ready[j] = s.ready[j]) \/ s'.ready[j].ec = ec
  BY <1>1, CompleteOps
<1> QED BY <1>2, NothingNew

LEMMA TimerOrdered == ASSUME IInv, Ordered, TimerExpires \/ TimerFired PROVE Ordered'
<1>1. s \in Sessions /\ Sound(s) /\ UNCHANGED <<sent, todo, inbox, outbox, dispatched>>
  BY StateFacts DEF TimerExpires, TimerFired
<1>2. CASE TimerExpires
  <2>1. /\ s'.pending = s.pending
        /\ \A k \in DOMAIN s'.ready :
             \/ k \in DOMAIN s.ready /\ s'.ready[k] = s.ready[k]
             \/ s'.ready[k].kind = "timer"
    BY <1>1, <1>2, ExpireOps DEF TimerExpires
  <2> QED BY <1>1, <2>1, NothingNew
<1>3. CASE TimerFired
  <2> DEFINE u == Pop(s)
             v == Shutdown(u)
  <2>1. s.ready # <<>> /\ s' = Shutdown(v)
    BY <1>3 DEF TimerFired, OnError, Running
  <2>2. /\ u \in Sessions /\ OneIo(u) /\ ClosedIsQuiet(u) /\ u.ready = Tail(s.ready)
    BY <1>1, <2>1, PopQuiet DEF Sound
  <2>3. \A i \in DOMAIN u.ready : i + 1 \in DOMAIN s.ready /\ u.ready[i] = s.ready[i + 1]
    <3>1. s.ready \in Seq(IoOps \cup Timers)
      BY <1>1 DEF Sessions
    <3> QED BY <2>1, <2>2, <3>1, TailFacts
  <2> HIDE DEF u
  <2>4. \A k \in DOMAIN v.ready :
          (k \in DOMAIN u.ready /\ v.ready[k] = u.ready[k]) \/ v.ready[k].ec = "cancelled"
    BY <2>2, ShutdownOps
  <2>5. v \in Sessions /\ ClosedIsQuiet(v) /\ ~v.open
    BY <2>2, ShutdownSound DEF Sound
  <2> HIDE DEF v
  <2>6. /\ s'.pending = <<>>
        /\ \A k \in DOMAIN s'.ready :
             (k \in DOMAIN v.ready /\ s'.ready[k] = v.ready[k]) \/ s'.ready[k].ec = "cancelled"
    BY <2>1, <2>5, ShutdownOps
  <2>7. \A k \in DOMAIN s'.ready :
          (\E j \in DOMAIN s.ready : s'.ready[k] = s.ready[j]) \/ s'.ready[k].ec = "cancelled"
    BY <2>3, <2>4, <2>6
  <2> QED BY <1>1, <2>6, <2>7, NothingNew
<1> QED BY <1>2, <1>3

(* ----------------- steps of the session and the streams ----------------- *)

\* The only operation of a session succeeds.
LEMMA OneFinished ==
    ASSUME NEW t, Sound(t), NEW i \in DOMAIN t.pending, NEW k \in Nat,
           NEW r, r = Complete(t, i, "ok", k)
    PROVE  /\ r.pending = <<>>
           /\ \A j \in DOMAIN r.ready :
                r.ready[j].kind \in IoKinds =>
                  /\ r.ready[j].kind = t.pending[1].kind
                  /\ r.ready[j].msg = t.pending[1].msg
                  /\ r.ready[j].n = k
<1>1. \A j \in DOMAIN t.ready : t.ready[j].kind \notin IoKinds
  BY PendingFacts DEF Queued
<1>2. "ok" \in Codes
  BY DEF Codes
<1> QED BY <1>1, <1>2, CompleteOps

\* Complete and progress of the pending operation: what it was.
LEMMA PendingOp ==
    ASSUME IInv, Ordered, NEW i \in DOMAIN s.pending
    PROVE  /\ i = 1 /\ Sound(s) /\ s.pending # <<>> /\ s.pending = <<s.pending[1]>>
           /\ s.pending[1] \in IoOps
           /\ s.pending[1].n \in Nat /\ s.pending[1].msg \in Nat
           /\ s.pending[1].kind # "headers" => s.pending[1].msg \in 1 .. Len(sent)
           /\ Placed(s.pending[1])
           /\ \A j \in DOMAIN s.ready : s.ready[j].kind \notin IoKinds
<1>1. s.pending # <<>>
  OBVIOUS
<1>2. /\ i = 1 /\ Sound(s) /\ s.pending = <<s.pending[1]>> /\ s.pending[1] \in IoOps
      /\ ~Queued(s, IoKinds)
  BY StateFacts, PendingFacts
<1>3. s.pending[1].kind # "headers" => s.pending[1].msg \in 1 .. Len(sent)
  BY <1>2, StateFacts DEF Good, Known
<1>4. Placed(s.pending[1])
  BY <1>2 DEF Ordered, InPlace
<1> QED BY <1>1, <1>2, <1>3, <1>4 DEF IoOps, Queued

LEMMA HeadersArriveOrdered ==
    ASSUME IInv, Ordered, NEW i \in DOMAIN s.pending, HeadersArrive(i)
    PROVE  Ordered'
<1> DEFINE op0 == s.pending[1]
<1>1. /\ i = 1 /\ Sound(s) /\ s.pending # <<>> /\ s.pending = <<op0>>
      /\ op0 \in IoOps /\ Placed(op0)
  BY PendingOp
<1>2. /\ op0.kind = "headers" /\ Head(inbox) > 0 /\ inbox # <<>>
      /\ UNCHANGED <<sent, todo, outbox, dispatched>>
  BY <1>1 DEF HeadersArrive
<1>3. /\ inbox \in Seq(Nat) /\ Len(inbox) \in Nat /\ Len(inbox) >= 1
      /\ Head(inbox) = inbox[1] /\ 1 \in DOMAIN inbox
  <2>1. inbox \in Seq(Nat) /\ inbox # <<>>
    BY <1>2, StreamFacts
  <2> QED BY <2>1
<1>4. PICK q \in Nat : q = inbox[1] /\ q > 0
  BY <1>2, <1>3
<1>5. Answered /\ q = Handled + 1
  <2>1. StartsAt(1, Handled + 1) /\ Answered
    BY <1>1, <1>2 DEF Placed
  <2>2. Handled \in Nat /\ todo \in Nat /\ Len(sent) \in Nat
    BY StreamFacts
  <2> QED BY <1>3, <1>4, <2>1, <2>2 DEF StartsAt
<1>6. q \in 1 .. Len(sent)
  <2>1. q \in 0 .. Len(sent) /\ Len(sent) \in Nat
    BY <1>3, <1>4, StreamFacts
  <2> QED BY <1>4, <2>1
<1>7. PICK len \in Nat : len = sent[q].len
  BY <1>6, StreamFacts
<1> DEFINE op == [op0 EXCEPT !.msg = q]
           t == [s EXCEPT !.pending = <<op>>]
<1>8. PICK k \in Nat :
        /\ k + 1 <= Len(inbox)
        /\ s' = Complete([s EXCEPT !.pending[i].msg = q], i, "ok", k)
        /\ inbox' = SubSeq(inbox, k + 2, Len(inbox))
  <2>1. PICK k \in 0 .. Len(inbox) - 1 :
          /\ s' = Complete([s EXCEPT !.pending[i].msg = Head(inbox)], i, "ok", k)
          /\ inbox' = SubSeq(inbox, k + 2, Len(inbox))
    BY DEF HeadersArrive
  <2>2. k \in Nat /\ k + 1 <= Len(inbox)
    BY <1>3
  <2> QED BY <1>3, <1>4, <2>1, <2>2
<1>9. op \in IoOps /\ op.id = op0.id /\ op.kind = "headers" /\ op.msg = q
  BY <1>1, <1>2, OpUpdates DEF IoOps
<1>10. t = [s EXCEPT !.pending[i].msg = q]
  <2>1. [<<op0>> EXCEPT ![1].msg = q] = <<op>>
    BY <1>1
  <2>2. s \in Sessions
    BY <1>1 DEF Sound
  <2> HIDE DEF op
  <2>3. [s.pending EXCEPT ![1].msg = q] = <<op>>
    BY <1>1, <2>1
  <2>4. [s EXCEPT !.pending[1].msg = q] = [s EXCEPT !.pending = [s.pending EXCEPT ![1].msg = q]]
    BY <2>2 DEF Sessions
  <2> QED BY <1>1, <2>3, <2>4
<1>11. t.pending[1] = op /\ 1 \in DOMAIN t.pending
  <2>1. s \in Sessions
    BY <1>1 DEF Sound
  <2> HIDE DEF op
  <2>2. t.pending = <<op>>
    BY <2>1 DEF Sessions
  <2> HIDE DEF t
  <2> QED BY <2>2
<1>12. Taken(k + 1)
  <2> DEFINE m == k + 1
  <2>1. inbox' = SubSeq(inbox, k + 2, Len(inbox)) /\ k + 2 = m + 1
    BY <1>8
  <2>2. m \in Nat /\ m <= Len(inbox)
    BY <1>8
  <2> HIDE DEF m
  <2>3. Taken(m)
    BY <1>2, <2>1, <2>2, TakenInbox
  <2> QED BY <2>3 DEF m
<1>13. StartsAt(len + 2, q + 1)
  <2>1. StartsAt(1 + sent[inbox[1]].len + 1, inbox[1] + 1)
    BY <1>3, <1>4 DEF Ordered, Framed
  <2>2. 1 + len + 1 = len + 2
    OBVIOUS
  <2> QED BY <1>4, <1>7, <2>1, <2>2
<1>14. s' = Complete(t, 1, "ok", k)
  BY <1>1, <1>8, <1>10
<1> HIDE DEF op
<1>15. Sound(t)
  BY <1>1, <1>9, ProgressSound
<1> HIDE DEF t, op0
<1>16. /\ s'.pending = <<>>
       /\ \A j \in DOMAIN s'.ready :
            s'.ready[j].kind \in IoKinds =>
              s'.ready[j].kind = "headers" /\ s'.ready[j].msg = q /\ s'.ready[j].n = k
  <2>1. /\ s'.pending = <<>>
        /\ \A j \in DOMAIN s'.ready :
             s'.ready[j].kind \in IoKinds =>
               /\ s'.ready[j].kind = t.pending[1].kind
               /\ s'.ready[j].msg = t.pending[1].msg
               /\ s'.ready[j].n = k
    BY <1>11, <1>14, <1>15, OneFinished
  <2> QED BY <1>9, <1>11, <2>1
<1>17. Handled' = Handled /\ Answered' /\ Handled \in Nat
  BY <1>2, <1>5, StreamFacts DEF Handled, Answered
<1>18. ASSUME k <= len PROVE StartsAt(len - k + 1, q + 1)'
  <2>1. PICK p \in Nat \ {0} : p = len - k + 1
    BY <1>18
  <2>2. p + (k + 1) = len + 2
    BY <2>1
  <2>3. StartsAt(p + (k + 1), q + 1)
    BY <1>13, <2>2
  <2>4. k + 1 \in Nat /\ q + 1 \in Nat
    OBVIOUS
  <2>5. StartsAt(p, q + 1)'
    BY <1>12, <2>3, <2>4, TakenStartsAt
  <2> QED BY <2>1, <2>5
<1>19. Framed'
  BY <1>12, TakenFramed DEF Ordered
<1>20. Written' /\ EachRequestOnce'
  BY <1>2, <1>17 DEF Ordered, Written, EachRequestOnce
<1>21. ASSUME NEW e, e \in {s'.ready[j] : j \in DOMAIN s'.ready}, e.ec = "ok"
       PROVE  Finished(e)'
  <2>1. CASE e.kind \notin IoKinds
    BY <2>1 DEF Finished, IoKinds
  <2>2. CASE e.kind \in IoKinds
    <3>1. e.kind = "headers" /\ e.msg = q /\ e.n = k
      BY <1>16, <1>21, <2>2
    <3>2. Handled' + 1 = q /\ Handled' + 2 = q + 1
      BY <1>5, <1>17
    <3>3. sent'[q].len = len
      BY <1>2, <1>7
    <3> QED BY <1>17, <1>18, <3>1, <3>2, <3>3 DEF Finished, StartsAt
  <2> QED BY <2>1, <2>2
<1>22. InPlace'
  BY <1>16, <1>21 DEF InPlace
<1> QED BY <1>19, <1>20, <1>22 DEF Ordered

LEMMA BodyArrivesOrdered ==
    ASSUME IInv, Ordered, NEW i \in DOMAIN s.pending, BodyArrives(i)
    PROVE  Ordered'
<1> DEFINE op == s.pending[1]
<1>1. i = 1 /\ Sound(s) /\ op \in IoOps /\ Placed(op)
  BY PendingOp
<1>2. PICK n \in Nat : n = op.n
  BY <1>1 DEF IoOps
<1>3. /\ op.kind = "body" /\ Len(inbox) >= n
      /\ s' = Complete(s, 1, "ok", n)
      /\ inbox' = SubSeq(inbox, n + 1, Len(inbox))
      /\ UNCHANGED <<sent, todo, outbox, dispatched>>
  BY <1>1, <1>2 DEF BodyArrives
<1>4. op.msg = Handled + 1 /\ StartsAt(n + 1, Handled + 2) /\ Answered
  BY <1>1, <1>2, <1>3 DEF Placed
<1>5. Taken(n)
  <2>1. n <= Len(inbox)
    BY <1>3, StreamFacts
  <2> QED BY <1>3, <2>1, TakenInbox
<1>6. Handled' = Handled /\ Answered' /\ Handled \in Nat
  BY <1>3, <1>4, StreamFacts DEF Handled, Answered
<1>7. StartsAt(1, Handled + 2)'
  <2>1. PICK q \in Nat : q = Handled + 2
    BY <1>6
  <2>2. StartsAt(1 + n, q) /\ 1 \in Nat \ {0}
    BY <1>4, <2>1
  <2>3. StartsAt(1, q)'
    BY <1>5, <2>2, TakenStartsAt
  <2> QED BY <1>6, <2>1, <2>3 DEF StartsAt
<1>8. /\ s'.pending = <<>>
      /\ \A j \in DOMAIN s'.ready :
           s'.ready[j].kind \in IoKinds =>
             s'.ready[j].kind = "body" /\ s'.ready[j].msg = op.msg
  BY <1>1, <1>3, OneFinished
<1>9. Framed'
  BY <1>5, TakenFramed DEF Ordered
<1>10. Written' /\ EachRequestOnce'
  BY <1>3, <1>6 DEF Ordered, Written, EachRequestOnce
<1>11. ASSUME NEW e, e \in {s'.ready[j] : j \in DOMAIN s'.ready}
       PROVE  Finished(e)'
  <2>1. CASE e.kind \notin IoKinds
    BY <2>1 DEF Finished, IoKinds
  <2>2. CASE e.kind \in IoKinds
    <3>1. e.kind = "body" /\ e.msg = Handled' + 1
      BY <1>4, <1>6, <1>8, <1>11, <2>2
    <3> QED BY <1>6, <1>7, <3>1 DEF Finished
  <2> QED BY <2>1, <2>2
<1>12. InPlace'
  BY <1>8, <1>11 DEF InPlace
<1> QED BY <1>9, <1>10, <1>12 DEF Ordered

\* A sequence, and the same value j times.
LEMMA ConcatFacts ==
    ASSUME NEW a \in Seq(Nat), NEW w \in Seq(Nat), NEW d \in Nat, NEW j \in Nat,
           Len(w) = j, \A x \in 1 .. j : w[x] = d
    PROVE  /\ Len(a \o w) = Len(a) + j
           /\ DOMAIN (a \o w) = 1 .. Len(a) + j
           /\ \A x \in 1 .. Len(a) : (a \o w)[x] = a[x]
           /\ \A x \in Len(a) + 1 .. Len(a) + j : (a \o w)[x] = d
OBVIOUS

\* What the write has handed over belongs to the last request handled.
LEMMA WrittenMore ==
    ASSUME IInv, Written, NEW n \in Nat, n <= RespSize, Handled \in Nat \ {0},
           Len(outbox) + n = RespSize * Handled, NEW j \in 1 .. n,
           outbox' = outbox \o [x \in 1 .. j |-> Handled],
           dispatched' = dispatched
    PROVE  Written' /\ Len(outbox') = Len(outbox) + j
<1> DEFINE w == [x \in 1 .. j |-> Handled]
<1>1. /\ outbox \in Seq(Nat) /\ Len(outbox) \in Nat /\ RespSize \in Nat \ {0}
      /\ Handled' = Handled /\ j \in Nat /\ j <= n
  BY StreamFacts DEF Handled
<1>2. w \in Seq(Nat) /\ Len(w) = j /\ \A x \in 1 .. j : w[x] = Handled
  <2>1. PICK d \in Nat : d = Handled
    OBVIOUS
  <2>2. w = [x \in 1 .. j |-> d]
    BY <2>1
  <2> HIDE DEF w
  <2> QED BY <1>1, <2>1, <2>2
<1> HIDE DEF w
<1>3. /\ Len(outbox \o w) = Len(outbox) + j
      /\ DOMAIN (outbox \o w) = 1 .. Len(outbox) + j
      /\ \A x \in 1 .. Len(outbox) : (outbox \o w)[x] = outbox[x]
      /\ \A x \in Len(outbox) + 1 .. Len(outbox) + j : (outbox \o w)[x] = Handled
  BY <1>1, <1>2, ConcatFacts
<1>4. outbox' = outbox \o w
  BY DEF w
<1>5. Len(outbox') = Len(outbox) + j /\ Len(outbox') <= RespSize * Handled
  <2>1. PICK m \in Nat : m = RespSize * Handled
    BY <1>1, Multiples
  <2> QED BY <1>1, <1>3, <1>4, <2>1
<1>6. ASSUME NEW x \in Len(outbox) + 1 .. Len(outbox) + j
      PROVE  Handled = ((x - 1) \div RespSize) + 1
  <2>1. PICK k \in Nat : k + 1 = Handled
    <3>1. Handled - 1 \in Nat /\ (Handled - 1) + 1 = Handled
      BY StreamFacts
    <3> QED BY <3>1
  <2>2. PICK b \in Nat : b = RespSize * k /\ RespSize * Handled = b + RespSize
    BY <1>1, <2>1, Multiples
  <2>3. x - 1 \in Nat /\ b <= x - 1 /\ x - 1 < b + RespSize
    <3>1. Len(outbox) + n = b + RespSize
      BY <2>2
    <3> QED BY <1>1, <3>1
  <2>4. (x - 1) \div RespSize = k
    BY <1>1, <2>2, <2>3, Quotient
  <2> QED BY <2>1, <2>4
<1>7. ASSUME NEW x \in DOMAIN outbox'
      PROVE  outbox'[x] = ((x - 1) \div RespSize) + 1
  <2>1. CASE x \in 1 .. Len(outbox)
    BY <1>1, <1>3, <1>4, <2>1 DEF Written
  <2>2. CASE x \notin 1 .. Len(outbox)
    <3>1. x \in Len(outbox) + 1 .. Len(outbox) + j
      BY <1>1, <1>3, <1>4, <2>2
    <3> QED BY <1>3, <1>4, <1>6, <3>1
  <2> QED BY <2>1, <2>2
<1> QED BY <1>1, <1>5, <1>7 DEF Written

LEMMA PlacedWrite ==
    ASSUME NEW op, Placed(op), op.kind = "write"
    PROVE  /\ op.msg = Handled /\ StartsAt(1, Handled + 1)
           /\ op.n <= RespSize /\ Len(outbox) + op.n = RespSize * Handled
BY DEF Placed

LEMMA WriteSomeOrdered ==
    ASSUME IInv, Ordered, NEW i \in DOMAIN s.pending, WriteSome(i)
    PROVE  Ordered'
<1> DEFINE op0 == s.pending[1]
<1>1. /\ i = 1 /\ Sound(s) /\ s \in Sessions /\ s.pending = <<op0>> /\ op0 \in IoOps
      /\ Placed(op0)
      /\ op0.kind # "headers" => op0.msg \in 1 .. Len(sent)
      /\ \A x \in DOMAIN s.ready : s.ready[x].kind \notin IoKinds
  BY PendingOp DEF Sound
<1>2. op0.kind = "write" /\ UNCHANGED <<sent, todo, inbox, dispatched>>
  BY <1>1 DEF WriteSome
<1>3. PICK n \in Nat : n = op0.n
  BY <1>1 DEF IoOps
<1>4. /\ n <= RespSize /\ Len(outbox) + n = RespSize * Handled
      /\ StartsAt(1, Handled + 1)
  BY <1>1, <1>2, <1>3, PlacedWrite
<1>5. Handled \in Nat \ {0} /\ Len(outbox) \in Nat /\ RespSize \in Nat
  <2>1. op0.msg \in 1 .. Len(sent) /\ op0.msg = Handled
    BY <1>1, <1>2, PlacedWrite
  <2> QED BY <2>1, StreamFacts
<1>6. PICK j \in 1 .. n :
        /\ outbox' = outbox \o [x \in 1 .. j |-> Handled]
        /\ s' = IF j = n THEN Complete(s, 1, "ok", 0)
                         ELSE [s EXCEPT !.pending[1].n = n - j]
  <2>1. op0.msg = Handled /\ i = 1 /\ n = s.pending[i].n /\ op0 = s.pending[i]
    BY <1>1, <1>2, <1>3, PlacedWrite
  <2>2. PICK j \in 1 .. n :
          /\ outbox' = outbox \o [x \in 1 .. j |-> s.pending[i].msg]
          /\ s' = IF j = n THEN Complete(s, i, "ok", 0)
                           ELSE [s EXCEPT !.pending[i].n = @ - j]
    BY <2>1 DEF WriteSome
  <2>3. [s EXCEPT !.pending[i].n = @ - j] = [s EXCEPT !.pending[1].n = n - j]
    BY <2>1
  <2>4. [x \in 1 .. j |-> s.pending[i].msg] = [x \in 1 .. j |-> Handled]
    BY <2>1
  <2> QED BY <2>1, <2>2, <2>3, <2>4
<1>7. Written' /\ Len(outbox') = Len(outbox) + j
  BY <1>2, <1>4, <1>5, <1>6, WrittenMore DEF Ordered
<1>8. Handled' = Handled
  BY <1>2 DEF Handled
<1>9. StartsAt(1, Handled + 1)'
  BY <1>2, <1>4, <1>8 DEF StartsAt
<1>10. Framed' /\ EachRequestOnce'
  BY <1>2 DEF Ordered, Framed, EachRequestOnce, StartsAt
<1>11. CASE j = n
  <2>1. Answered'
    BY <1>4, <1>7, <1>8, <1>11 DEF Answered
  <2>2. /\ s'.pending = <<>>
        /\ \A x \in DOMAIN s'.ready :
             s'.ready[x].kind \in IoKinds => s'.ready[x].kind = "write"
    <3>1. s' = Complete(s, 1, "ok", 0)
      BY <1>6, <1>11
    <3> QED BY <1>1, <1>2, <3>1, OneFinished
  <2>3. ASSUME NEW e, e \in {s'.ready[x] : x \in DOMAIN s'.ready}
        PROVE  Finished(e)'
    <3>1. e.kind \notin IoKinds \/ e.kind = "write"
      BY <2>2, <2>3
    <3> QED BY <1>9, <2>1, <3>1 DEF Finished, IoKinds
  <2>4. InPlace'
    BY <2>2, <2>3 DEF InPlace
  <2> QED BY <1>7, <1>10, <2>4 DEF Ordered
<1>12. CASE j # n
  <2>1. PICK k \in Nat : k = n - j
    BY <1>6, <1>12
  <2> DEFINE op == [op0 EXCEPT !.n = k]
  <2>2. s' = [s EXCEPT !.pending[1].n = k]
    BY <1>6, <1>12, <2>1
  <2>3. [<<op0>> EXCEPT ![1].n = k] = <<op>>
    OBVIOUS
  <2>4. op.kind = "write" /\ op.msg = Handled /\ op.n = k
    <3>1. op0.msg = Handled
      BY <1>1, <1>2, PlacedWrite
    <3> QED BY <1>1, <1>2, <3>1 DEF IoOps
  <2> HIDE DEF op
  <2>5. [s.pending EXCEPT ![1].n = k] = <<op>>
    BY <1>1, <2>3
  <2>6. [s EXCEPT !.pending[1].n = k] = [s EXCEPT !.pending = [s.pending EXCEPT ![1].n = k]]
    BY <1>1 DEF Sessions
  <2>7. s' = [s EXCEPT !.pending = <<op>>]
    BY <2>2, <2>5, <2>6
  <2>8. s'.pending = <<op>> /\ s'.ready = s.ready
    BY <1>1, <2>7 DEF Sessions
  <2>9. Len(outbox') + k = RespSize * Handled /\ k <= RespSize
    <3>1. PICK m \in Nat : m = RespSize * Handled
      BY <1>5, Multiples
    <3> QED BY <1>4, <1>5, <1>7, <2>1, <3>1
  <2>10. ASSUME NEW e, e = op PROVE Placed(e)'
    BY <1>8, <1>9, <2>4, <2>9, <2>10 DEF Placed
  <2>11. InPlace'
    <3>1. \A x \in DOMAIN s'.pending : s'.pending[x] = op
      BY <2>8
    <3>2. \A x \in DOMAIN s'.ready : s'.ready[x].kind \notin IoKinds
      BY <1>1, <2>8
    <3> QED BY <2>10, <3>1, <3>2 DEF InPlace, Finished, IoKinds
  <2> QED BY <1>7, <1>10, <2>11 DEF Ordered
<1> QED BY <1>11, <1>12

(* ------------------------------ the handlers ---------------------------- *)

\* The handler of a read or a write: what it is told, and the idle session in
\* which it runs.
LEMMA RunningOp ==
    ASSUME IInv, Ordered, NEW kind \in IoKinds, Running(s, {kind})
    PROVE  /\ Idle(CancelTimer(Pop(s)))
           /\ Head(s.ready) \in IoOps /\ Head(s.ready).kind = kind
           /\ Head(s.ready).ec = "ok" =>
                Finished(Head(s.ready)) /\ Head(s.ready).msg \in 1 .. Len(sent)
<1>1. Sound(s) /\ Running(s, IoKinds) /\ Head(s.ready).kind = kind
  BY StateFacts DEF Running
<1>2. /\ Idle(CancelTimer(Pop(s)))
      /\ Head(s.ready) = s.ready[1] /\ 1 \in DOMAIN s.ready /\ Head(s.ready) \in IoOps
  BY <1>1, RunIoIdle
<1> QED BY <1>1, <1>2, OpFacts DEF Ordered, InPlace

\* A handler that starts an operation and moves nothing in the streams.
LEMMA StartedOrdered ==
    ASSUME Ordered, UNCHANGED <<sent, todo, inbox, outbox, dispatched>>,
           NEW t, Idle(t), NEW kind \in IoKinds, NEW msg \in Nat, NEW n \in Nat,
           s' = StartIo(t, kind, msg, n),
           \A op : op.kind = kind /\ op.msg = msg /\ op.n = n => Placed(op)
    PROVE  Ordered'
<1>1. /\ \A i \in DOMAIN s'.pending :
           s'.pending[i].kind = kind /\ s'.pending[i].msg = msg /\ s'.pending[i].n = n
      /\ \A i \in DOMAIN s'.ready : s'.ready[i].kind \notin IoKinds \/ s'.ready[i].ec # "ok"
  BY OneStarted
<1>2. \A i \in DOMAIN s'.pending : Placed(s'.pending[i])
  BY <1>1
<1>3. \A i \in DOMAIN s'.ready : s'.ready[i].ec = "ok" => Finished(s'.ready[i])
  BY <1>1 DEF Finished, IoKinds
<1> QED BY <1>2, <1>3, StillOrdered

LEMMA HeadersNeedBodyOrdered == ASSUME IInv, Ordered, HeadersNeedBody PROVE Ordered'
<1> DEFINE c == Head(s.ready)
           t == CancelTimer(Pop(s))
<1>1. /\ Running(s, {"headers"}) /\ c.ec = "ok" /\ c.n < sent[c.msg].len
      /\ s' = DoRemainingRead(t, sent[c.msg].len - c.n, c.msg)
      /\ UNCHANGED <<sent, todo, inbox, outbox, dispatched>>
  BY DEF HeadersNeedBody
<1>2. /\ Idle(t) /\ c \in IoOps /\ c.kind = "headers"
      /\ Finished(c) /\ c.msg \in 1 .. Len(sent)
  BY <1>1, RunningOp DEF IoKinds
<1> HIDE DEF c, t
<1>3. PICK len \in Nat : len = sent[c.msg].len
  BY <1>2, StreamFacts
<1>4. PICK k \in Nat : k = c.n
  BY <1>2 DEF IoOps
<1>5. PICK n \in Nat : n = len - k
  BY <1>1, <1>3, <1>4
<1>6. s' = StartIo(t, "body", c.msg, n)
  BY <1>1, <1>3, <1>4, <1>5 DEF DoRemainingRead
<1>7. c.msg = Handled + 1 /\ Answered /\ StartsAt(n + 1, Handled + 2)
  BY <1>1, <1>2, <1>3, <1>4, <1>5 DEF Finished
<1>8. \A op : op.kind = "body" /\ op.msg = c.msg /\ op.n = n => Placed(op)
  BY <1>7 DEF Placed
<1>9. "body" \in IoKinds /\ c.msg \in Nat
  BY <1>2 DEF IoKinds
<1> QED BY <1>1, <1>2, <1>6, <1>8, <1>9, StartedOrdered

LEMMA WriteDoneOrdered == ASSUME IInv, Ordered, WriteDone PROVE Ordered'
<1> DEFINE c == Head(s.ready)
           t == CancelTimer(Pop(s))
<1>1. /\ Running(s, {"write"}) /\ c.ec = "ok"
      /\ s' = IF t.keepAlive THEN DoRead(t) ELSE Shutdown(t)
      /\ UNCHANGED <<sent, todo, inbox, outbox, dispatched>>
  BY DEF WriteDone, OnWriteComplete
<1>2. Idle(t) /\ Finished(c) /\ c.kind = "write"
  BY <1>1, RunningOp DEF IoKinds
<1> HIDE DEF c, t
<1>3. CASE t.keepAlive
  <2>1. s' = StartIo(t, "headers", 0, 0)
    BY <1>1, <1>3 DEF DoRead
  <2>2. \A op : op.kind = "headers" /\ op.msg = 0 /\ op.n = 0 => Placed(op)
    BY <1>2 DEF Finished, Placed
  <2>3. "headers" \in IoKinds /\ 0 \in Nat
    BY DEF IoKinds
  <2> QED BY <1>1, <1>2, <2>1, <2>2, <2>3, StartedOrdered
<1>4. CASE ~t.keepAlive
  BY <1>1, <1>2, <1>4, NothingLeft
<1> QED BY <1>3, <1>4

\* The handlers that end the connection, or leave it to a shutdown that is
\* already done.
LEMMA EndOrdered ==
    ASSUME IInv, Ordered,
           HeadersAborted \/ HeadersRejected \/ BodyFailed \/ WriteFailed
    PROVE  Ordered'
<1> DEFINE t == CancelTimer(Pop(s))
<1>1. PICK kind \in IoKinds : Running(s, {kind})
  BY DEF HeadersAborted, HeadersRejected, BodyFailed, WriteFailed, IoKinds
<1>2. Idle(t)
  BY <1>1, RunningOp
<1>3. s' = t \/ s' = Shutdown(t)
  BY DEF HeadersAborted, HeadersRejected, BodyFailed, WriteFailed, OnError
<1>4. UNCHANGED <<sent, todo, inbox, outbox, dispatched>>
  BY DEF HeadersAborted, HeadersRejected, BodyFailed, WriteFailed
<1> HIDE DEF t
<1> QED BY <1>2, <1>3, <1>4, NothingLeft

\* The request that is handled is the next one, and its response is the next
\* to be written.
LEMMA DispatchOrdered ==
    ASSUME IInv, Ordered, NEW t, Idle(t), NEW q \in 1 .. Len(sent), q = Handled + 1,
           StartsAt(1, Handled + 2), Answered,
           NEW throws \in BOOLEAN, OnMessageParsed(t, q, throws),
           UNCHANGED <<sent, todo, inbox, outbox>>
    PROVE  Ordered'
<1> DEFINE keep == ~sent[q].close /\ ~throws
           u == [t EXCEPT !.keepAlive = keep]
           d == [msg |-> q, keep |-> keep]
<1>1. s' = StartIo(u, "write", q, RespSize) /\ dispatched' = Append(dispatched, d)
  BY DEF OnMessageParsed, DoWrite
<1>2. keep \in BOOLEAN
  BY StateFacts, ServerAssumption
<1>3. u \in Sessions /\ u.open = t.open /\ u.pending = t.pending /\ u.ready = t.ready
  BY <1>2 DEF Idle, Sessions
<1>4. q \in Nat /\ d.msg = q /\ d \in [msg : Nat, keep : BOOLEAN]
  BY <1>2
<1> HIDE DEF u, d, keep
<1>5. Idle(u)
  BY <1>3 DEF Idle, Queued, ClosedIsQuiet
<1>6. RespSize \in Nat \ {0} /\ Handled \in Nat /\ dispatched \in Seq([msg : Nat, keep : BOOLEAN])
  BY StreamFacts
<1>7. /\ Len(dispatched') = Handled + 1 /\ Handled' = Handled + 1
      /\ DOMAIN dispatched' = 1 .. Handled + 1
      /\ dispatched'[Handled + 1] = d
      /\ \A i \in 1 .. Handled : dispatched'[i] = dispatched[i]
      /\ DOMAIN dispatched = 1 .. Handled
  BY <1>1, <1>4, <1>6, AppendProperties DEF Handled
<1>8. EachRequestOnce'
  <2>1. ASSUME NEW i \in 1 .. Handled + 1 PROVE dispatched'[i].msg = i
    <3>1. CASE i = Handled + 1
      BY <1>4, <1>7, <3>1
    <3>2. CASE i # Handled + 1
      <4>1. i \in 1 .. Handled
        BY <1>6, <3>2
      <4> QED BY <1>7, <4>1 DEF Ordered, EachRequestOnce
    <3> QED BY <3>1, <3>2
  <2> QED BY <1>7, <2>1 DEF EachRequestOnce
<1>9. Framed'
  BY DEF Ordered, Framed, StartsAt
<1>10. Len(outbox') + RespSize = RespSize * Handled' /\ Len(outbox') <= RespSize * Handled'
  <2>1. PICK m \in Nat : m = RespSize * Handled /\ RespSize * (Handled + 1) = m + RespSize
    BY <1>6, Multiples
  <2>2. Len(outbox') = m
    BY <2>1 DEF Answered
  <2>3. RespSize * Handled' = m + RespSize
    BY <1>7, <2>1
  <2> QED BY <1>6, <2>1, <2>2, <2>3
<1>11. Written'
  BY <1>10 DEF Ordered, Written
<1>12. StartsAt(1, Handled + 1)'
  <2>1. Handled' + 1 = Handled + 2
    BY <1>6, <1>7
  <2> QED BY <2>1 DEF StartsAt
<1>13. /\ \A i \in DOMAIN s'.pending :
            /\ s'.pending[i].kind = "write" /\ s'.pending[i].msg = q
            /\ s'.pending[i].n = RespSize
       /\ \A i \in DOMAIN s'.ready : s'.ready[i].kind \notin IoKinds \/ s'.ready[i].ec # "ok"
  <2>1. "write" \in IoKinds /\ RespSize \in Nat
    BY <1>6 DEF IoKinds
  <2> QED BY <1>1, <1>4, <1>5, <2>1, OneStarted
<1>14. ASSUME NEW e, e.kind = "write", e.msg = q, e.n = RespSize
       PROVE  Placed(e)'
  BY <1>6, <1>7, <1>10, <1>12, <1>14 DEF Placed
<1>15. ASSUME NEW e, e.kind \notin IoKinds
       PROVE  Finished(e)'
  BY <1>15 DEF Finished, IoKinds
<1>16. InPlace'
  BY <1>13, <1>14, <1>15 DEF InPlace
<1> QED BY <1>8, <1>9, <1>11, <1>16 DEF Ordered

LEMMA HeadersCompleteOrdered == ASSUME IInv, Ordered, HeadersComplete PROVE Ordered'
<1> DEFINE c == Head(s.ready)
           t == CancelTimer(Pop(s))
<1>1. /\ Running(s, {"headers"}) /\ c.ec = "ok" /\ c.n = sent[c.msg].len
      /\ UNCHANGED <<sent, todo, inbox, outbox>>
  BY DEF HeadersComplete
<1>2. PICK throws \in BOOLEAN : OnMessageParsed(t, c.msg, throws)
  BY DEF HeadersComplete
<1>3. /\ Idle(t) /\ c \in IoOps /\ c.kind = "headers"
      /\ Finished(c) /\ c.msg \in 1 .. Len(sent)
  BY <1>1, RunningOp DEF IoKinds
<1> HIDE DEF c, t
<1>4. PICK len \in Nat : len = sent[c.msg].len
  BY <1>3, StreamFacts
<1>5. c.msg = Handled + 1 /\ Answered /\ StartsAt(len - len + 1, Handled + 2)
  BY <1>1, <1>3, <1>4 DEF Finished
<1>6. StartsAt(1, Handled + 2)
  <2>1. len - len + 1 = 1
    OBVIOUS
  <2> QED BY <1>5, <2>1
<1> QED BY <1>1, <1>2, <1>3, <1>5, <1>6, DispatchOrdered

LEMMA BodyCompleteOrdered == ASSUME IInv, Ordered, BodyComplete PROVE Ordered'
<1> DEFINE c == Head(s.ready)
           t == CancelTimer(Pop(s))
<1>1. /\ Running(s, {"body"}) /\ c.ec = "ok"
      /\ UNCHANGED <<sent, todo, inbox, outbox>>
  BY DEF BodyComplete
<1>2. PICK throws \in BOOLEAN : OnMessageParsed(t, c.msg, throws)
  BY DEF BodyComplete
<1>3. Idle(t) /\ c.kind = "body" /\ Finished(c) /\ c.msg \in 1 .. Len(sent)
  BY <1>1, RunningOp DEF IoKinds
<1> HIDE DEF c, t
<1>4. c.msg = Handled + 1 /\ Answered /\ StartsAt(1, Handled + 2)
  BY <1>3 DEF Finished
<1> QED BY <1>1, <1>2, <1>3, <1>4, DispatchOrdered

(* ------------------------------ the invariant --------------------------- *)

LEMMA InitOrdered == Init => Ordered
<1> SUFFICES ASSUME Init PROVE Ordered
  OBVIOUS
<1>1. /\ sent = <<>> /\ todo = 0 /\ inbox = <<>> /\ outbox = <<>> /\ dispatched = <<>>
      /\ s = StartIo(NewSession(TRUE), "headers", 0, 0)
  BY DEF Init, DoRead
<1>2. Handled = 0 /\ RespSize * Handled = 0 /\ Len(outbox) = 0
  BY <1>1, ServerAssumption DEF Handled
<1>3. StartsAt(1, 1)
  BY <1>1 DEF StartsAt
<1>4. \A op : op.kind = "headers" => Placed(op)
  BY <1>2, <1>3 DEF Placed, Answered
<1>5. Idle(NewSession(TRUE)) /\ "headers" \in IoKinds /\ 0 \in Nat
  BY NewSessionIdle DEF IoKinds
<1>6. /\ \A i \in DOMAIN s.pending : s.pending[i].kind = "headers"
      /\ \A i \in DOMAIN s.ready : s.ready[i].kind \notin IoKinds \/ s.ready[i].ec # "ok"
  <2>1. PICK t : t = NewSession(TRUE)
    OBVIOUS
  <2>2. s = StartIo(t, "headers", 0, 0) /\ Idle(t)
    BY <1>1, <1>5, <2>1
  <2> QED BY <1>5, <2>2, OneStarted
<1>7. InPlace
  BY <1>4, <1>6 DEF InPlace, Finished, IoKinds
<1> QED BY <1>1, <1>2, <1>7 DEF Ordered, Framed, Written, EachRequestOnce

LEMMA SystemOrdered == ASSUME IInv, Ordered, System PROVE Ordered'
<1>1. CASE \E i \in DOMAIN s.pending : HeadersArrive(i)
  BY <1>1, HeadersArriveOrdered
<1>2. CASE \E i \in DOMAIN s.pending : HeadersOverflow(i)
  <2>1. PICK i \in DOMAIN s.pending : HeadersOverflow(i)
    BY <1>2
  <2>2. s' = Complete(s, i, "not_found", 0) /\ UNCHANGED <<sent, todo, inbox, outbox, dispatched>>
    BY <2>1 DEF HeadersOverflow
  <2> QED BY <2>2, FailedOrdered DEF Codes
<1>3. CASE \E i \in DOMAIN s.pending : BodyArrives(i)
  BY <1>3, BodyArrivesOrdered
<1>4. CASE \E i \in DOMAIN s.pending : WriteSome(i)
  BY <1>4, WriteSomeOrdered
<1>5. CASE \E i \in DOMAIN s.pending : IoFails(i)
  <2>1. PICK i \in DOMAIN s.pending : IoFails(i)
    BY <1>5
  <2>2. /\ s' = Complete(s, i, "error", s.pending[i].n)
        /\ UNCHANGED <<sent, todo, inbox, outbox, dispatched>>
    BY <2>1 DEF IoFails
  <2>3. s.pending[i].n \in Nat
    BY OpFacts DEF IoOps
  <2> QED BY <2>2, <2>3, FailedOrdered DEF Codes
<1>6. CASE TimerExpires
  BY <1>6, TimerOrdered
<1> QED BY <1>1, <1>2, <1>3, <1>4, <1>5, <1>6 DEF System

LEMMA HandlerOrdered == ASSUME IInv, Ordered, Handler PROVE Ordered'
BY HeadersNeedBodyOrdered, WriteDoneOrdered, EndOrdered, HeadersCompleteOrdered,
   BodyCompleteOrdered, TimerOrdered DEF Handler

LEMMA NextOrdered == IInv /\ Ordered /\ [Next]_vars => Ordered'
<1> SUFFICES ASSUME IInv, Ordered, [Next]_vars PROVE Ordered'
  OBVIOUS
<1>1. CASE Next
  BY <1>1, PeerOrdered, SystemOrdered, HandlerOrdered DEF Next
<1>2. CASE UNCHANGED vars
  <2>1. s' = s /\ UNCHANGED <<sent, todo, inbox, outbox, dispatched>>
    BY <1>2 DEF vars
  <2> QED BY <2>1, StillOrdered DEF Ordered, InPlace
<1> QED BY <1>1, <1>2

LEMMA OrderInvariance == Spec => [](IInv /\ Ordered)
<1>1. Init => IInv /\ Ordered
  BY InitInv, InitOrdered
<1>2. IInv /\ Ordered /\ [Next]_vars => (IInv /\ Ordered)'
  BY NextInv, NextOrdered
<1> QED BY <1>1, <1>2, PTL DEF Spec

(* ---------------------- what a step does for the client ----------------- *)

\* What a proof about both ends of a connection needs to know of a step of the
\* server: the request it dispatches, the units it sends, and that it opens no
\* session that was closed.

\* The next request is dispatched, and was taken off the stream to its end.
Dispatches ==
    /\ StartsAt(1, Handled + 2)
    /\ \E keep \in BOOLEAN :
         dispatched' = Append(dispatched, [msg |-> Handled + 1, keep |-> keep])

LEMMA SystemEffect ==
    ASSUME IInv, NEW i \in DOMAIN s.pending,
           HeadersArrive(i) \/ BodyArrives(i) \/ IoFails(i) \/ WriteSome(i)
    PROVE  s.open /\ s'.open
<1>1. Sound(s) /\ s \in Sessions /\ s.open
  BY StateFacts, PendingFacts
<1>2. ASSUME NEW t, t \in Sessions, NEW p, NEW r, s' = [t EXCEPT !.pending = p, !.ready = r]
      PROVE  s'.open = t.open
  BY <1>2 DEF Sessions
<1>3. CASE HeadersArrive(i)
  <2>1. PICK k : s' = Complete([s EXCEPT !.pending[i].msg = Head(inbox)], i, "ok", k)
    BY <1>3 DEF HeadersArrive
  <2>2. PICK t : t = [s EXCEPT !.pending[i].msg = Head(inbox)]
    OBVIOUS
  <2>3. t.open = s.open
    BY <1>1, <2>2 DEF Sessions
  <2>4. s'.open = t.open
    <3>1. s' = Complete(t, i, "ok", k)
      BY <2>1, <2>2
    <3>2. t = [s EXCEPT !.pending = [@ EXCEPT ![i].msg = Head(inbox)]]
      BY <2>2
    <3>3. DOMAIN t = DOMAIN s /\ "open" \in DOMAIN s
      BY <1>1, <2>2 DEF Sessions
    <3> QED BY <3>1, <3>3 DEF Complete
  <2> QED BY <1>1, <2>3, <2>4
<1>4. CASE BodyArrives(i) \/ IoFails(i)
  <2>1. PICK ec, k : s' = Complete(s, i, ec, k)
    BY <1>4 DEF BodyArrives, IoFails
  <2> QED BY <1>1, <1>2, <2>1 DEF Complete
<1>5. CASE WriteSome(i)
  <2>1. PICK j : s' = IF j = s.pending[i].n THEN Complete(s, i, "ok", 0)
                      ELSE [s EXCEPT !.pending[i].n = @ - j]
    BY <1>5 DEF WriteSome
  <2>2. CASE j = s.pending[i].n
    BY <1>1, <1>2, <2>1, <2>2 DEF Complete
  <2>3. CASE j # s.pending[i].n
    <3>1. s' = [s EXCEPT !.pending[i].n = @ - j]
      BY <2>1, <2>3
    <3> QED BY <1>1, <3>1 DEF Sessions
  <2> QED BY <2>2, <2>3
<1> QED BY <1>3, <1>4, <1>5

LEMMA WriteEffect ==
    ASSUME IInv, Ordered, NEW i \in DOMAIN s.pending, WriteSome(i)
    PROVE  /\ UNCHANGED <<sent, todo, inbox, dispatched>>
           /\ Handled \in Nat \ {0}
           /\ \E n \in Nat : \E j \in 1 .. n :
                /\ n <= RespSize /\ Len(outbox) + n = RespSize * Handled
                /\ outbox' = outbox \o [x \in 1 .. j |-> Handled]
<1> DEFINE op0 == s.pending[1]
<1>1. i = 1 /\ op0 \in IoOps /\ Placed(op0) /\ (op0.kind # "headers" => op0.msg \in 1 .. Len(sent))
  BY PendingOp
<1>2. op0.kind = "write" /\ UNCHANGED <<sent, todo, inbox, dispatched>>
  BY <1>1 DEF WriteSome
<1>3. PICK n \in Nat : n = op0.n
  BY <1>1 DEF IoOps
<1>4. n <= RespSize /\ Len(outbox) + n = RespSize * Handled /\ op0.msg = Handled
  BY <1>1, <1>2, <1>3, PlacedWrite
<1>5. Handled \in Nat \ {0}
  BY <1>1, <1>2, <1>4, StreamFacts
<1>6. PICK j \in 1 .. n : outbox' = outbox \o [x \in 1 .. j |-> s.pending[i].msg]
  BY <1>1, <1>3 DEF WriteSome
<1>7. outbox' = outbox \o [x \in 1 .. j |-> Handled]
  BY <1>1, <1>4, <1>6
<1> QED BY <1>2, <1>4, <1>5, <1>7

\* A handler of the session that is idle when it has stopped the timer.
LEMMA IdleEffect ==
    ASSUME NEW t, Idle(t), t.open = s.open
    PROVE  /\ ~Shutdown(t).open
           /\ \A kind, msg, n : StartIo(t, kind, msg, n).open = s.open
<1>1. t \in Sessions /\ OneIo(t) /\ ClosedIsQuiet(t)
  BY IdleFacts
<1> QED BY <1>1, ShutdownSound, StartIoOps

LEMMA DispatchEffect ==
    ASSUME NEW t, Idle(t), t.open = s.open, NEW q, NEW throws \in BOOLEAN,
           OnMessageParsed(t, q, throws), StartsAt(1, Handled + 2), q = Handled + 1
    PROVE  Dispatches /\ s'.open = s.open
<1> DEFINE keep == ~sent[q].close /\ ~throws
<1>1. keep \in BOOLEAN
  OBVIOUS
<1>2. /\ s' = StartIo([t EXCEPT !.keepAlive = keep], "write", q, RespSize)
      /\ dispatched' = Append(dispatched, [msg |-> q, keep |-> keep])
  BY DEF OnMessageParsed, DoWrite
<1> HIDE DEF keep
<1>3. PICK u : u = [t EXCEPT !.keepAlive = keep]
  OBVIOUS
<1>4. Idle(u) /\ u.open = s.open
  BY <1>1, <1>3 DEF Idle, Sessions, Queued, ClosedIsQuiet
<1>5. s' = StartIo(u, "write", q, RespSize)
  BY <1>2, <1>3
<1>6. s'.open = s.open
  BY <1>4, <1>5, IdleEffect
<1> QED BY <1>1, <1>2, <1>6 DEF Dispatches

LEMMA HandlerEffect ==
    ASSUME IInv, Ordered, Handler
    PROVE  /\ UNCHANGED <<sent, todo, inbox, outbox>>
           /\ s'.open => s.open
           /\ \/ UNCHANGED dispatched
              \/ Dispatches /\ s'.open = s.open
<1> DEFINE t == CancelTimer(Pop(s))
<1>1. Sound(s) /\ s \in Sessions
  BY StateFacts
<1>2. Running(s, IoKinds) => Idle(t) /\ t.open = s.open
  BY <1>1, RunIoIdle
<1>3. \A kind \in IoKinds : Running(s, {kind}) => Running(s, IoKinds)
  BY DEF Running
<1> HIDE DEF t
<1>4. CASE HeadersAborted \/ HeadersRejected \/ BodyFailed \/ WriteFailed
  <2>1. /\ Running(s, IoKinds)
        /\ s' = t \/ s' = Shutdown(t)
        /\ UNCHANGED <<sent, todo, inbox, outbox, dispatched>>
    BY <1>3, <1>4 DEF HeadersAborted, HeadersRejected, BodyFailed, WriteFailed, OnError, IoKinds, t
  <2> QED BY <1>2, <2>1, IdleEffect
<1>5. CASE HeadersNeedBody \/ WriteDone
  <2>1. /\ Running(s, IoKinds)
        /\ \/ \E kind, msg, n : s' = StartIo(t, kind, msg, n)
           \/ s' = Shutdown(t)
        /\ UNCHANGED <<sent, todo, inbox, outbox, dispatched>>
    BY <1>3, <1>5 DEF HeadersNeedBody, WriteDone, OnWriteComplete, DoRead, DoRemainingRead, IoKinds, t
  <2> QED BY <1>2, <2>1, IdleEffect
<1>6. CASE HeadersComplete
  <2> DEFINE c == Head(s.ready)
  <2>1. /\ Running(s, {"headers"}) /\ Running(s, IoKinds) /\ c.ec = "ok" /\ c.n = sent[c.msg].len
        /\ UNCHANGED <<sent, todo, inbox, outbox>>
    BY <1>3, <1>6 DEF HeadersComplete, IoKinds
  <2>2. PICK throws \in BOOLEAN : OnMessageParsed(t, c.msg, throws)
    BY <1>6 DEF HeadersComplete, t
  <2>3. Idle(t) /\ t.open = s.open /\ c.kind = "headers" /\ Finished(c) /\ c.msg \in 1 .. Len(sent)
    BY <1>2, <2>1, RunningOp DEF IoKinds, t
  <2> HIDE DEF c
  <2>4. PICK len \in Nat : len = sent[c.msg].len
    BY <2>3, StreamFacts
  <2>5. c.msg = Handled + 1 /\ StartsAt(len - len + 1, Handled + 2)
    BY <2>1, <2>3, <2>4 DEF Finished
  <2>6. StartsAt(1, Handled + 2)
    <3>1. len - len + 1 = 1
      OBVIOUS
    <3> QED BY <2>5, <3>1
  <2> QED BY <2>1, <2>2, <2>3, <2>5, <2>6, DispatchEffect
<1>7. CASE BodyComplete
  <2> DEFINE c == Head(s.ready)
  <2>1. /\ Running(s, {"body"}) /\ Running(s, IoKinds) /\ c.ec = "ok"
        /\ UNCHANGED <<sent, todo, inbox, outbox>>
    BY <1>3, <1>7 DEF BodyComplete, IoKinds
  <2>2. PICK throws \in BOOLEAN : OnMessageParsed(t, c.msg, throws)
    BY <1>7 DEF BodyComplete, t
  <2>3. Idle(t) /\ t.open = s.open /\ c.kind = "body" /\ Finished(c)
    BY <1>2, <2>1, RunningOp DEF IoKinds, t
  <2> HIDE DEF c
  <2>4. c.msg = Handled + 1 /\ StartsAt(1, Handled + 2)
    BY <2>3 DEF Finished
  <2> QED BY <2>1, <2>2, <2>3, <2>4, DispatchEffect
<1>8. CASE TimerFired
  <2>1. /\ s' = Shutdown(Shutdown(Pop(s))) /\ s.ready # <<>>
        /\ UNCHANGED <<sent, todo, inbox, outbox, dispatched>>
    BY <1>8 DEF TimerFired, OnError, Running
  <2>2. Pop(s) \in Sessions /\ OneIo(Pop(s)) /\ ClosedIsQuiet(Pop(s))
    BY <1>1, <2>1, PopQuiet DEF Sound
  <2>3. Sound(Shutdown(Pop(s)))
    BY <2>2, ShutdownSound
  <2>4. ~s'.open
    BY <2>1, <2>3, ShutdownSound DEF Sound
  <2> QED BY <2>1, <2>4
<1> QED BY <1>4, <1>5, <1>6, <1>7, <1>8 DEF Handler

(* ------------------------------- theorems ------------------------------- *)

\* The requests of a connection are handled in the order in which they were
\* sent, each once, and none is skipped.
THEOREM EachRequestOnceHolds == Spec => []EachRequestOnce
<1>1. IInv /\ Ordered => EachRequestOnce
  BY DEF Ordered
<1> QED BY <1>1, OrderInvariance, PTL

\* A read of headers always stands where a message starts: the body before it
\* is taken to its last unit, and nothing of the next message with it.
THEOREM ReadsAtMessageStartHolds == Spec => []ReadsAtMessageStart
<1>1. IInv /\ Ordered => ReadsAtMessageStart
  <2> SUFFICES ASSUME IInv, Ordered, NEW i \in DOMAIN s.pending,
                      s.pending[i].kind = "headers", inbox # <<>>
               PROVE  Head(inbox) > 0
    BY DEF ReadsAtMessageStart
  <2>1. StartsAt(1, Handled + 1)
    BY DEF Ordered, InPlace, Placed
  <2>2. inbox \in Seq(Nat) /\ inbox # <<>> /\ Len(inbox) \in Nat /\ Handled \in Nat /\ todo \in Nat
    BY StreamFacts
  <2>3. Len(inbox) > 0 /\ Head(inbox) = inbox[1]
    BY <2>2
  <2>4. inbox[1] = Handled + 1
    BY <2>1, <2>2, <2>3 DEF StartsAt
  <2> QED BY <2>2, <2>3, <2>4
<1> QED BY <1>1, OrderInvariance, PTL

\* The stream to the peer is made of whole responses to its requests, in
\* order, with perhaps a truncated last one.
THEOREM ResponsesInOrderHolds == Spec => []ResponsesInOrder
<1>1. IInv /\ Ordered => ResponsesInOrder
  <2> SUFFICES ASSUME IInv, Ordered, NEW i \in DOMAIN outbox
               PROVE  /\ outbox[i] = ((i - 1) \div RespSize) + 1
                      /\ outbox[i] <= Handled
    BY DEF ResponsesInOrder, Handled
  <2>1. outbox[i] = ((i - 1) \div RespSize) + 1
    BY DEF Ordered, Written
  <2>2. /\ outbox \in Seq(Nat) /\ Len(outbox) \in Nat /\ Handled \in Nat
        /\ RespSize \in Nat \ {0}
    BY StreamFacts
  <2>3. PICK b \in Nat : b = RespSize * Handled
    BY <2>2, Multiples
  <2>4. i - 1 \in Nat /\ i - 1 < RespSize * Handled
    BY <2>2, <2>3 DEF Ordered, Written
  <2>5. (i - 1) \div RespSize \in Nat /\ (i - 1) \div RespSize < Handled
    BY <2>2, <2>4, QuotientBound
  <2>6. PICK a \in Nat : a = (i - 1) \div RespSize
    BY <2>5
  <2> QED BY <2>1, <2>2, <2>5, <2>6
<1> QED BY <1>1, OrderInvariance, PTL
=============================================================================
