------------------------- MODULE HttpSessionProofs -------------------------
(***************************************************************************)
(* What the operators of HttpSession preserve, for any session: the facts *)
(* on which the proofs about the server's and the client's session rest.  *)
(***************************************************************************)
EXTENDS HttpSession, SequenceTheorems, TLAPS

\* What cancels an operation is shutdown(), so an open session has no
\* cancelled one, and a closed session has none pending.
ClosedIsQuiet(s) ==
    /\ ~s.open => s.pending = <<>>
    /\ s.open => \A i \in DOMAIN s.ready : s.ready[i].ec # "cancelled"

\* The invariant of a session between two steps of the io_context.
Sound(s) ==
    /\ s \in Sessions
    /\ OneIo(s)
    /\ s.open => Watched(s)
    /\ ClosedIsQuiet(s)

\* No read or write is under way: the state in which a handler starts one.
Idle(s) ==
    /\ s \in Sessions
    /\ s.pending = <<>>
    /\ ~Queued(s, IoKinds)
    /\ ClosedIsQuiet(s)

\* A length of at most one.
LEMMA AtMostOne ==
    ASSUME NEW n \in Nat, n <= 1
    PROVE  (n = 0 \/ n = 1) /\ \A i \in 1 .. n : i = 1 /\ n = 1
OBVIOUS

\* A timeout is not an operation of the socket.
LEMMA KindsDiffer == "timer" \notin IoKinds
BY DEF IoKinds

\* A new session is idle.
LEMMA NewSessionIdle ==
    ASSUME NEW b \in BOOLEAN PROVE Idle(NewSession(b))
BY DEF Idle, NewSession, Sessions, Queued, ClosedIsQuiet

\* Giving an operation another code or another message keeps its type.
LEMMA OpUpdates ==
    ASSUME NEW op \in IoOps, NEW ec \in Codes, NEW msg \in Nat, NEW n \in Nat
    PROVE  /\ [op EXCEPT !.ec = ec] \in IoOps
           /\ [op EXCEPT !.ec = ec, !.n = n] \in IoOps
           /\ [op EXCEPT !.msg = msg] \in IoOps
           /\ [op EXCEPT !.n = n] \in IoOps
BY DEF IoOps

\* Updating the members of a session keeps its type.
LEMMA TimerUpdate ==
    ASSUME NEW s \in Sessions, NEW t \in Nat
    PROVE  [s EXCEPT !.timer = t] \in Sessions
BY DEF Sessions

LEMMA PendingUpdate ==
    ASSUME NEW s \in Sessions, NEW p \in Seq(IoOps)
    PROVE  [s EXCEPT !.pending = p] \in Sessions
BY DEF Sessions

LEMMA ReadyUpdate ==
    ASSUME NEW s \in Sessions, NEW r \in Seq(IoOps \cup Timers)
    PROVE  [s EXCEPT !.ready = r] \in Sessions
BY DEF Sessions

LEMMA StartUpdate ==
    ASSUME NEW s \in Sessions, NEW t \in Nat, NEW p \in Seq(IoOps)
    PROVE  [s EXCEPT !.timer = t, !.ops = t, !.pending = p] \in Sessions
BY DEF Sessions

LEMMA FailedStartUpdate ==
    ASSUME NEW s \in Sessions, NEW t \in Nat, NEW r \in Seq(IoOps \cup Timers)
    PROVE  [s EXCEPT !.timer = t, !.ops = t, !.ready = r] \in Sessions
BY DEF Sessions

LEMMA ExpireUpdate ==
    ASSUME NEW s \in Sessions, NEW r \in Seq(IoOps \cup Timers)
    PROVE  [s EXCEPT !.timer = 0, !.ready = r] \in Sessions
BY DEF Sessions

LEMMA CompleteUpdate ==
    ASSUME NEW s \in Sessions, NEW p \in Seq(IoOps), NEW r \in Seq(IoOps \cup Timers)
    PROVE  [s EXCEPT !.pending = p, !.ready = r] \in Sessions
BY DEF Sessions

LEMMA CloseUpdate ==
    ASSUME NEW s \in Sessions, NEW r \in Seq(IoOps \cup Timers)
    PROVE  [s EXCEPT !.timer = 0, !.open = FALSE, !.pending = <<>>, !.ready = r] \in Sessions
<1>1. <<>> \in Seq(IoOps)
  OBVIOUS
<1> DEFINE empty == <<>>
<1> HIDE DEF empty
<1>2. empty \in Seq(IoOps)
  BY <1>1 DEF empty
<1>3. [s EXCEPT !.timer = 0, !.open = FALSE, !.pending = empty, !.ready = r] \in Sessions
  BY <1>2 DEF Sessions
<1> QED BY <1>3 DEF empty

\* An operation started in an idle session leaves it sound: the operation is
\* the only one, and the timer is armed for it.
LEMMA StartIoSound ==
    ASSUME NEW s, Idle(s), NEW kind \in IoKinds, NEW msg \in Nat, NEW n \in Nat
    PROVE  Sound(StartIo(s, kind, msg, n))
<1> DEFINE op == [id |-> s.ops + 1, kind |-> kind, msg |-> msg, n |-> n, ec |-> "ok"]
           r  == StartIo(s, kind, msg, n)
<1>1. s \in Sessions /\ s.ops + 1 \in Nat
  BY DEF Idle, Sessions
<1>2. op \in IoOps
  BY <1>1 DEF IoOps, Codes
<1>3. CASE s.open
  <2>1. r = [s EXCEPT !.timer = s.ops + 1, !.ops = s.ops + 1,
                      !.pending = Append(s.pending, op)]
    BY <1>1, <1>3 DEF StartIo, StartTimer, Sessions
  <2>2. Append(s.pending, op) = <<op>>
    BY DEF Idle
  <2>3. <<op>> \in Seq(IoOps)
    BY <1>2
  <2>4. r \in Sessions
    <3> DEFINE id == s.ops + 1
               p  == <<op>>
    <3>1. r = [s EXCEPT !.timer = id, !.ops = id, !.pending = p]
      BY <2>1, <2>2
    <3>2. id \in Nat /\ p \in Seq(IoOps)
      BY <1>1, <2>3
    <3> HIDE DEF id, p, r
    <3> QED BY <1>1, <3>1, <3>2, StartUpdate
  <2>5. r.pending = <<op>> /\ r.ready = s.ready /\ r.timer = op.id /\ r.open
    BY <1>1, <1>3, <2>1, <2>2 DEF Sessions
  <2>6. r.pending[1] = op /\ Len(r.pending) = 1 /\ r.pending # <<>>
    BY <2>5
  <2> HIDE DEF r, op
  <2>7. OneIo(r)
    BY <2>5, <2>6 DEF Idle, OneIo, Queued
  <2>8. Watched(r)
    BY <2>5, <2>6 DEF Watched
  <2>9. ClosedIsQuiet(r)
    BY <2>5, <1>3 DEF Idle, ClosedIsQuiet
  <2> QED
    BY <2>4, <2>7, <2>8, <2>9 DEF Sound, r
<1>4. CASE ~s.open
  <2> DEFINE bad == [op EXCEPT !.ec = "error"]
             q   == Append(s.ready, bad)
  <2>1. r = [s EXCEPT !.timer = s.ops + 1, !.ops = s.ops + 1, !.ready = q]
    BY <1>1, <1>4 DEF StartIo, StartTimer, Sessions
  <2>2. bad \in IoOps
    BY <1>2, OpUpdates DEF Codes
  <2> HIDE DEF bad
  <2>3. q \in Seq(IoOps \cup Timers)
    BY <1>1, <2>2 DEF Sessions
  <2>4. r \in Sessions
    <3> DEFINE id == s.ops + 1
    <3>1. r = [s EXCEPT !.timer = id, !.ops = id, !.ready = q] /\ id \in Nat
      BY <1>1, <2>1
    <3> HIDE DEF id, q, r
    <3> QED BY <1>1, <2>3, <3>1, FailedStartUpdate
  <2>5. r.pending = <<>> /\ r.ready = q /\ ~r.open
    BY <1>1, <1>4, <2>1 DEF Idle, Sessions
  <2>6. \A i \in DOMAIN q : q[i].kind \in IoKinds => i = Len(s.ready) + 1
    BY <1>1, <2>2 DEF Idle, Sessions, Queued
  <2> HIDE DEF r, q
  <2>7. OneIo(r)
    BY <2>5, <2>6 DEF OneIo
  <2> QED
    BY <2>4, <2>5, <2>7 DEF Sound, ClosedIsQuiet, r
<1> QED BY <1>3, <1>4

\* The three operations of a session.
LEMMA DoReadSound ==
    ASSUME NEW s, Idle(s) PROVE Sound(DoRead(s))
BY StartIoSound DEF DoRead, IoKinds

LEMMA DoRemainingReadSound ==
    ASSUME NEW s, Idle(s), NEW n \in Nat, NEW msg \in Nat
    PROVE  Sound(DoRemainingRead(s, n, msg))
BY StartIoSound DEF DoRemainingRead, IoKinds

LEMMA DoWriteSound ==
    ASSUME NEW s, Idle(s), NEW msg \in Nat, NEW n \in Nat
    PROVE  Sound(DoWrite(s, msg, n))
BY StartIoSound DEF DoWrite, IoKinds

\* Shutting a session down closes it and leaves it sound: what was pending is
\* queued in its place.
LEMMA ShutdownSound ==
    ASSUME NEW s \in Sessions, OneIo(s), ClosedIsQuiet(s)
    PROVE  Sound(Shutdown(s)) /\ ~Shutdown(s).open
<1> DEFINE r == Shutdown(s)
           moved == [i \in DOMAIN s.pending |-> [s.pending[i] EXCEPT !.ec = "cancelled"]]
           q == s.ready \o moved
<1>1. CASE ~s.open
  <2>1. r = [s EXCEPT !.timer = 0]
    BY <1>1 DEF Shutdown, CancelTimer
  <2>2. r \in Sessions
    BY <2>1, TimerUpdate
  <2>3. r.pending = s.pending /\ r.ready = s.ready /\ ~r.open
    BY <1>1, <2>1 DEF Sessions
  <2> HIDE DEF r
  <2> QED
    BY <1>1, <2>2, <2>3 DEF Sound, OneIo, ClosedIsQuiet, Queued, r
<1>2. CASE s.open
  <2>1. r = [s EXCEPT !.timer = 0, !.open = FALSE, !.pending = <<>>, !.ready = q]
    BY <1>2 DEF Shutdown, CancelTimer, Sessions
  <2>2. s.pending \in Seq(IoOps) /\ s.ready \in Seq(IoOps \cup Timers)
    BY DEF Sessions
  <2>3. /\ DOMAIN s.pending = 1 .. Len(s.pending)
        /\ Len(s.pending) \in Nat
        /\ \A i \in 1 .. Len(s.pending) : s.pending[i] \in IoOps
    BY <2>2
  <2>4. \A i \in 1 .. Len(s.pending) : [s.pending[i] EXCEPT !.ec = "cancelled"] \in IoOps
    BY <2>3, OpUpdates DEF Codes
  <2>5. moved = [i \in 1 .. Len(s.pending) |-> [s.pending[i] EXCEPT !.ec = "cancelled"]]
    BY <2>3
  <2> HIDE DEF moved
  <2>6. moved \in Seq(IoOps)
    BY <2>3, <2>4, <2>5
  <2>7. Len(moved) = Len(s.pending)
    BY <2>3, <2>5, <2>6
  <2>8. q \in Seq(IoOps \cup Timers)
    BY <2>2, <2>6
  <2>9. r \in Sessions
    BY <2>1, <2>8, CloseUpdate
  <2>10. r.pending = <<>> /\ r.ready = q /\ ~r.open
    BY <2>1 DEF Sessions
  <2>11. Len(s.pending) = 0 \/ (Len(s.pending) = 1 /\ ~Queued(s, IoKinds))
    <3>1. Len(s.pending) <= 1
      BY DEF OneIo
    <3>2. Len(s.pending) \in Nat
      BY <2>3
    <3>3. Len(s.pending) = 0 \/ Len(s.pending) = 1
      BY <3>1, <3>2, AtMostOne
    <3>4. Len(s.pending) = 1 => s.pending # <<>>
      BY Len(<<>>) = 0
    <3>5. s.pending # <<>> => ~Queued(s, IoKinds)
      BY DEF OneIo
    <3> QED BY <3>3, <3>4, <3>5
  <2>12. /\ Len(q) = Len(s.ready) + Len(s.pending)
         /\ \A k \in 1 .. Len(q) : k <= Len(s.ready) => q[k] = s.ready[k]
    <3> DEFINE S == IoOps \cup Timers
    <3>1. s.ready \in Seq(S) /\ moved \in Seq(S)
      BY <2>2, <2>6
    <3> HIDE DEF S
    <3>2. /\ Len(q) = Len(s.ready) + Len(moved)
          /\ \A k \in 1 .. Len(s.ready) + Len(moved) :
               q[k] = IF k <= Len(s.ready) THEN s.ready[k] ELSE moved[k - Len(s.ready)]
      BY <3>1, ConcatProperties
    <3> QED BY <2>7, <3>2
  <2> HIDE DEF q, r
  <2>13. ASSUME NEW i \in DOMAIN q, NEW j \in DOMAIN q,
                q[i].kind \in IoKinds, q[j].kind \in IoKinds
         PROVE  i = j
    <3>1. i \in 1 .. Len(q) /\ j \in 1 .. Len(q) /\ Len(s.ready) \in Nat
      BY <2>2, <2>8
    <3>2. CASE Len(s.pending) = 0
      <4>1. i \in DOMAIN s.ready /\ j \in DOMAIN s.ready
        BY <2>2, <2>12, <3>1, <3>2
      <4> QED BY <2>12, <2>13, <3>1, <3>2, <4>1 DEF OneIo
    <3>3. CASE Len(s.pending) = 1 /\ ~Queued(s, IoKinds)
      <4>1. \A k \in 1 .. Len(q) : q[k].kind \in IoKinds => k = Len(s.ready) + 1
        BY <2>2, <2>12, <3>1, <3>3 DEF Queued
      <4> QED BY <2>13, <3>1, <4>1
    <3> QED BY <2>11, <3>2, <3>3
  <2>14. OneIo(r)
    BY <2>10, <2>13 DEF OneIo
  <2> QED
    BY <2>9, <2>10, <2>14 DEF Sound, ClosedIsQuiet, r
<1> QED BY <1>1, <1>2

\* What is left of the queue when its head is taken.
LEMMA TailFacts ==
    ASSUME NEW S, NEW q \in Seq(S), q # <<>>
    PROVE  /\ Head(q) = q[1] /\ 1 \in DOMAIN q
           /\ Tail(q) \in Seq(S)
           /\ \A i \in DOMAIN Tail(q) : i + 1 \in DOMAIN q /\ Tail(q)[i] = q[i + 1]
OBVIOUS

\* Taking the next handler from the queue leaves at most one operation, and a
\* closed session without any.
LEMMA PopQuiet ==
    ASSUME NEW s \in Sessions, OneIo(s), ClosedIsQuiet(s), s.ready # <<>>
    PROVE  /\ Pop(s) \in Sessions
           /\ Pop(s).open = s.open /\ Pop(s).pending = s.pending /\ Pop(s).ready = Tail(s.ready)
           /\ OneIo(Pop(s)) /\ ClosedIsQuiet(Pop(s))
<1> DEFINE r == Pop(s)
           q == Tail(s.ready)
<1>1. s \in Sessions /\ s.ready \in Seq(IoOps \cup Timers)
  BY DEF Sessions
<1>2. /\ q \in Seq(IoOps \cup Timers)
      /\ \A i \in DOMAIN q : i + 1 \in DOMAIN s.ready /\ q[i] = s.ready[i + 1]
  BY <1>1, TailFacts
<1>3. \A i \in DOMAIN q : i \in Nat
  BY <1>2
<1> HIDE DEF q
<1>4. r = [s EXCEPT !.ready = q]
  BY DEF Pop, q
<1>5. r \in Sessions
  BY <1>1, <1>2, <1>4, ReadyUpdate
<1>6. r.open = s.open /\ r.pending = s.pending /\ r.ready = q
  BY <1>1, <1>4 DEF Sessions
<1> HIDE DEF r
<1>7. OneIo(r)
  <2>1. s.pending # <<>> => ~Queued(r, IoKinds)
    BY <1>2, <1>6 DEF OneIo, Queued
  <2>2. Len(r.pending) <= 1
    BY <1>6 DEF OneIo
  <2>3. ASSUME NEW i \in DOMAIN q, NEW j \in DOMAIN q,
               q[i].kind \in IoKinds, q[j].kind \in IoKinds
        PROVE  i = j
    <3>1. i + 1 = j + 1
      BY <1>2, <2>3 DEF OneIo
    <3> QED BY <1>3, <3>1
  <2> QED BY <1>6, <2>1, <2>2, <2>3 DEF OneIo
<1>8. ClosedIsQuiet(r)
  BY <1>2, <1>6 DEF ClosedIsQuiet
<1> QED BY <1>5, <1>6, <1>7, <1>8 DEF r, q

\* The handler of a read or a write runs in an idle session; if its operation
\* was cancelled, the session is closed.
LEMMA RunIoIdle ==
    ASSUME NEW s, Sound(s), Running(s, IoKinds)
    PROVE  /\ Idle(CancelTimer(Pop(s)))
           /\ CancelTimer(Pop(s)).open = s.open
           /\ CancelTimer(Pop(s)).keepAlive = s.keepAlive
           /\ Head(s.ready) = s.ready[1] /\ 1 \in DOMAIN s.ready
           /\ Head(s.ready) \in IoOps
           /\ Head(s.ready).ec = "cancelled" => ~s.open
<1> DEFINE q == Tail(s.ready)
           r == CancelTimer(Pop(s))
<1>1. s.ready # <<>> /\ s.ready \in Seq(IoOps \cup Timers)
  BY DEF Running, Sound, Sessions
<1>2. /\ Head(s.ready) = s.ready[1] /\ 1 \in DOMAIN s.ready
      /\ q \in Seq(IoOps \cup Timers)
      /\ \A i \in DOMAIN q : i + 1 \in DOMAIN s.ready /\ q[i] = s.ready[i + 1]
  BY <1>1, TailFacts
<1>3. \A i \in DOMAIN q : i \in Nat /\ i >= 1
  BY <1>2
<1>4. s.ready[1].kind \in IoKinds
  BY <1>2 DEF Running
<1>5. ~Queued(Pop(s), IoKinds)
  <2>1. SUFFICES ASSUME NEW i \in DOMAIN q, q[i].kind \in IoKinds PROVE FALSE
    BY <1>1, PopQuiet DEF Queued, Sound
  <2>2. i + 1 = 1
    BY <1>2, <1>4, <2>1 DEF Sound, OneIo
  <2> QED BY <1>3, <2>2
<1>6. s.pending = <<>>
  BY <1>2, <1>4 DEF Sound, OneIo, Queued
<1>7. Pop(s) \in Sessions /\ Pop(s).open = s.open /\ Pop(s).pending = <<>> /\ ClosedIsQuiet(Pop(s))
  BY <1>1, <1>6, PopQuiet DEF Sound
<1>8. r = [Pop(s) EXCEPT !.timer = 0]
  BY DEF CancelTimer
<1>9. r \in Sessions
  BY <1>7, <1>8, TimerUpdate
<1>10. r.open = s.open /\ r.pending = <<>> /\ r.ready = Pop(s).ready
  BY <1>7, <1>8 DEF Sessions
<1>13. r.keepAlive = s.keepAlive
  BY <1>8 DEF Pop, Sound, Sessions
<1>14. Head(s.ready) \in IoOps
  <2>1. Head(s.ready) \in IoOps \cup Timers /\ Head(s.ready).kind # "timer"
    BY <1>1, <1>2, <1>4, KindsDiffer
  <2> QED BY <2>1 DEF Timers
<1> HIDE DEF r, q
<1>11. Idle(r)
  BY <1>5, <1>7, <1>9, <1>10 DEF Idle, Queued, ClosedIsQuiet
<1>12. Head(s.ready).ec = "cancelled" => ~s.open
  BY <1>2 DEF Sound, ClosedIsQuiet
<1> QED BY <1>2, <1>10, <1>11, <1>12, <1>13, <1>14 DEF r

\* An idle session may be shut down, and a closed one is sound as it is.
LEMMA IdleFacts ==
    ASSUME NEW s, Idle(s)
    PROVE  /\ s \in Sessions /\ OneIo(s) /\ ClosedIsQuiet(s)
           /\ ~s.open => Sound(s)
<1>1. OneIo(s)
  <2>1. Len(s.pending) <= 1
    BY DEF Idle
  <2> QED BY <2>1 DEF Idle, OneIo, Queued
<1> QED BY <1>1 DEF Idle, Sound

\* The one pending operation of a sound session.
LEMMA PendingFacts ==
    ASSUME NEW s, Sound(s), NEW i \in DOMAIN s.pending
    PROVE  /\ i = 1 /\ Len(s.pending) = 1
           /\ s.pending[1] \in IoOps
           /\ s.pending = <<s.pending[1]>>
           /\ s.open
           /\ ~Queued(s, IoKinds)
<1>1. s.pending \in Seq(IoOps)
  BY DEF Sound, Sessions
<1>2. Len(s.pending) \in Nat /\ Len(s.pending) <= 1
  BY <1>1 DEF Sound, OneIo
<1>3. i \in 1 .. Len(s.pending)
  BY <1>1
<1>4. i = 1 /\ Len(s.pending) = 1
  BY <1>2, <1>3, AtMostOne
<1>5. s.pending[1] \in IoOps /\ s.pending = <<s.pending[1]>>
  BY <1>1, <1>4
<1>6. s.pending # <<>>
  BY <1>4, Len(<<>>) = 0
<1> QED BY <1>4, <1>5, <1>6 DEF Sound, OneIo, ClosedIsQuiet

\* A completion that is queued for the pending operation leaves the session
\* sound: the operation is in one place only.
LEMMA CompleteSound ==
    ASSUME NEW s, Sound(s), NEW i \in DOMAIN s.pending,
           NEW ec \in Codes \ {"cancelled"}, NEW n \in Nat
    PROVE  Sound(Complete(s, i, ec, n))
<1> DEFINE r == Complete(s, i, ec, n)
           c == [s.pending[1] EXCEPT !.ec = ec, !.n = n]
           q == Append(s.ready, c)
           p == SubSeq(s.pending, 1, i - 1) \o SubSeq(s.pending, i + 1, Len(s.pending))
<1>1. s \in Sessions /\ s.ready \in Seq(IoOps \cup Timers)
  BY DEF Sound, Sessions
<1>2. i = 1 /\ Len(s.pending) = 1 /\ s.pending[1] \in IoOps /\ s.open /\ ~Queued(s, IoKinds)
  BY PendingFacts
<1>3. p = <<>>
  BY <1>2
<1>4. c \in IoOps
  BY <1>2, OpUpdates
<1>5. c.ec # "cancelled" /\ c.kind \in IoKinds
  BY <1>2 DEF IoOps
<1>6. r = [s EXCEPT !.pending = p, !.ready = q]
  BY <1>1, <1>2 DEF Complete, Sessions
<1> HIDE DEF c, p
<1>7. q \in Seq(IoOps \cup Timers) /\ p \in Seq(IoOps)
  BY <1>1, <1>3, <1>4
<1>8. r \in Sessions
  <2> HIDE DEF q, r
  <2> QED BY <1>1, <1>6, <1>7, CompleteUpdate
<1>9. r.open /\ r.pending = <<>> /\ r.ready = q
  <2> HIDE DEF q, r
  <2>1. DOMAIN s = {"open", "timer", "pending", "ready", "ops", "keepAlive"}
    BY <1>1 DEF Sessions
  <2>2. r.open = s.open /\ r.pending = p /\ r.ready = q
    BY <1>6, <2>1
  <2> QED BY <1>2, <1>3, <2>2
<1>10. /\ Len(s.ready) + 1 \in DOMAIN q /\ q[Len(s.ready) + 1] = c
       /\ \A k \in DOMAIN q : \/ k = Len(s.ready) + 1
                              \/ k \in DOMAIN s.ready /\ q[k] = s.ready[k]
  BY <1>1, <1>4
<1> HIDE DEF q, r
<1>11. \A k \in DOMAIN q : q[k].kind \in IoKinds => k = Len(s.ready) + 1
  BY <1>2, <1>10 DEF Queued
<1>12. OneIo(r)
  <2>1. Len(r.pending) <= 1
    BY <1>9, Len(<<>>) = 0
  <2> QED BY <1>9, <1>11, <2>1 DEF OneIo
<1>13. Watched(r)
  BY <1>5, <1>9, <1>10 DEF Watched, Queued
<1>14. ClosedIsQuiet(r)
  BY <1>2, <1>5, <1>9, <1>10 DEF Sound, ClosedIsQuiet
<1> QED BY <1>8, <1>12, <1>13, <1>14 DEF Sound, r

\* An expired timer leaves the session sound: the timeout is queued in place
\* of the armed timer.
LEMMA ExpireSound ==
    ASSUME NEW s, Sound(s), CanExpire(s)
    PROVE  Sound(Expire(s))
<1> DEFINE r == Expire(s)
           c == [id |-> s.timer, kind |-> "timer", msg |-> 0, n |-> 0, ec |-> "ok"]
           q == Append(s.ready, c)
<1>1. s \in Sessions /\ s.ready \in Seq(IoOps \cup Timers) /\ s.timer \in Nat
  BY DEF Sound, Sessions
<1>2. c \in Timers
  BY <1>1 DEF Timers, Codes
<1>3. c.ec # "cancelled" /\ c.kind = "timer" /\ c.kind \notin IoKinds
  BY KindsDiffer
<1>4. r = [s EXCEPT !.timer = 0, !.ready = q]
  BY <1>1 DEF Expire, Sessions
<1> HIDE DEF c
<1>5. q \in Seq(IoOps \cup Timers)
  BY <1>1, <1>2
<1>6. r \in Sessions
  BY <1>1, <1>4, <1>5, ExpireUpdate
<1>7. r.open = s.open /\ r.pending = s.pending /\ r.ready = q
  BY <1>1, <1>4 DEF Sessions
<1>8. /\ Len(s.ready) + 1 \in DOMAIN q /\ q[Len(s.ready) + 1] = c
      /\ \A k \in DOMAIN s.ready : k \in DOMAIN q /\ q[k] = s.ready[k]
      /\ \A k \in DOMAIN q : \/ k = Len(s.ready) + 1
                             \/ k \in DOMAIN s.ready /\ q[k] = s.ready[k]
  BY <1>1, <1>2
<1> HIDE DEF q, r
<1>9. OneIo(r)
  <2>1. Len(r.pending) <= 1
    BY <1>7 DEF Sound, OneIo
  <2>2. Queued(r, IoKinds) => Queued(s, IoKinds)
    BY <1>3, <1>7, <1>8 DEF Queued
  <2>3. \A k, l \in DOMAIN q : q[k].kind \in IoKinds /\ q[l].kind \in IoKinds => k = l
    BY <1>3, <1>8 DEF Sound, OneIo
  <2> QED BY <1>7, <2>1, <2>2, <2>3 DEF Sound, OneIo
<1>10. r.open => Watched(r)
  <2>1. Queued(r, {"timer"})
    BY <1>3, <1>7, <1>8 DEF Queued
  <2>2. Queued(s, IoKinds) => Queued(r, IoKinds)
    BY <1>7, <1>8 DEF Queued
  <2> QED BY <1>7, <2>1, <2>2 DEF Sound, Watched
<1>11. ClosedIsQuiet(r)
  BY <1>3, <1>7, <1>8 DEF Sound, ClosedIsQuiet
<1> QED BY <1>6, <1>9, <1>10, <1>11 DEF Sound, r

\* Progress of the pending operation, which keeps its number and its kind.
LEMMA ProgressSound ==
    ASSUME NEW s, Sound(s), NEW op \in IoOps,
           s.pending # <<>>, op.id = s.pending[1].id
    PROVE  Sound([s EXCEPT !.pending = <<op>>])
<1> DEFINE p == <<op>>
           r == [s EXCEPT !.pending = p]
<1>1. s \in Sessions
  BY DEF Sound
<1>2. p \in Seq(IoOps) /\ Len(p) <= 1 /\ p # <<>> /\ p[1] = op
  OBVIOUS
<1> HIDE DEF p
<1>3. r \in Sessions
  BY <1>1, <1>2, PendingUpdate
<1>4. r.open = s.open /\ r.pending = p /\ r.ready = s.ready /\ r.timer = s.timer
  BY <1>1 DEF Sessions
<1> HIDE DEF r
<1>5. OneIo(r)
  <2>1. Len(r.pending) <= 1
    BY <1>2, <1>4
  <2> QED BY <1>2, <1>4, <2>1 DEF Sound, OneIo, Queued
<1>6. r.open => Watched(r)
  BY <1>2, <1>4 DEF Sound, OneIo, Watched, Queued
<1>7. ClosedIsQuiet(r)
  BY <1>2, <1>4 DEF Sound, ClosedIsQuiet
<1> QED BY <1>3, <1>5, <1>6, <1>7 DEF Sound, r, p

(* ------------------- which operations there are, and of what ------------ *)

\* What an operation started in an idle session adds: itself, pending, or
\* queued with an error if the socket is closed.
LEMMA StartIoOps ==
    ASSUME NEW s, Idle(s), NEW kind, NEW msg, NEW n,
           NEW r, r = StartIo(s, kind, msg, n)
    PROVE  /\ \A i \in DOMAIN r.pending :
                r.pending[i].kind = kind /\ r.pending[i].msg = msg /\ r.pending[i].n = n
           /\ \A i \in DOMAIN r.ready :
                r.ready[i].kind \in IoKinds => r.ready[i].kind = kind /\ r.ready[i].ec = "error"
           /\ \A i \in DOMAIN r.ready : r.ready[i].kind \in IoKinds \cup {"timer", kind}
           /\ r.keepAlive = s.keepAlive /\ r.open = s.open
<1> DEFINE op  == [id |-> s.ops + 1, kind |-> kind, msg |-> msg, n |-> n, ec |-> "ok"]
           bad == [op EXCEPT !.ec = "error"]
           p   == Append(s.pending, op)
           q   == Append(s.ready, bad)
<1>1. s \in Sessions /\ s.ready \in Seq(IoOps \cup Timers) /\ s.pending = <<>>
  BY DEF Idle, Sessions
<1>2. \A i \in DOMAIN s.ready : s.ready[i].kind = "timer" /\ s.ready[i].kind \notin IoKinds
  BY <1>1 DEF Idle, Queued, IoOps, Timers
<1>3. CASE s.open
  <2>1. r = [s EXCEPT !.timer = s.ops + 1, !.ops = s.ops + 1, !.pending = p]
    BY <1>1, <1>3 DEF StartIo, StartTimer, Sessions
  <2>2. p = <<op>>
    BY <1>1
  <2>3. \A i \in DOMAIN p : p[i] = op
    BY <2>2
  <2> HIDE DEF p
  <2>4. r.pending = p /\ r.ready = s.ready /\ r.keepAlive = s.keepAlive /\ r.open = s.open
    BY <1>1, <2>1 DEF Sessions
  <2>5. op.kind = kind /\ op.msg = msg /\ op.n = n
    OBVIOUS
  <2> HIDE DEF op
  <2> QED BY <1>2, <2>3, <2>4, <2>5
<1>4. CASE ~s.open
  <2>1. r = [s EXCEPT !.timer = s.ops + 1, !.ops = s.ops + 1, !.ready = q]
    BY <1>1, <1>4 DEF StartIo, StartTimer, Sessions
  <2>2. bad.kind = kind /\ bad.ec = "error"
    OBVIOUS
  <2> HIDE DEF bad
  <2>3. \A i \in DOMAIN q : q[i] = bad \/ (i \in DOMAIN s.ready /\ q[i] = s.ready[i])
    BY <1>1
  <2> HIDE DEF q
  <2>4. r.pending = <<>> /\ r.ready = q /\ r.keepAlive = s.keepAlive /\ r.open = s.open
    BY <1>1, <2>1 DEF Sessions
  <2> QED BY <1>2, <2>2, <2>3, <2>4
<1> QED BY <1>3, <1>4

\* What shutting down leaves: what was queued, and what was pending, cancelled.
LEMMA ShutdownOps ==
    ASSUME NEW s \in Sessions, ClosedIsQuiet(s), NEW r, r = Shutdown(s)
    PROVE  /\ r.pending = <<>>
           /\ \A k \in DOMAIN r.ready :
                \/ k \in DOMAIN s.ready /\ r.ready[k] = s.ready[k]
                \/ /\ r.ready[k].ec = "cancelled"
                   /\ \E i \in DOMAIN s.pending : r.ready[k].kind = s.pending[i].kind
           /\ r.keepAlive = s.keepAlive
<1> DEFINE moved == [i \in DOMAIN s.pending |-> [s.pending[i] EXCEPT !.ec = "cancelled"]]
           q == s.ready \o moved
<1>1. CASE ~s.open
  <2>1. r = [s EXCEPT !.timer = 0]
    BY <1>1 DEF Shutdown, CancelTimer
  <2> QED BY <1>1, <2>1 DEF ClosedIsQuiet, Sessions
<1>2. CASE s.open
  <2>1. r = [s EXCEPT !.timer = 0, !.open = FALSE, !.pending = <<>>, !.ready = q]
    BY <1>2 DEF Shutdown, CancelTimer, Sessions
  <2>2. s.pending \in Seq(IoOps) /\ s.ready \in Seq(IoOps \cup Timers)
    BY DEF Sessions
  <2>3. /\ DOMAIN s.pending = 1 .. Len(s.pending) /\ Len(s.pending) \in Nat
        /\ \A i \in 1 .. Len(s.pending) : s.pending[i] \in IoOps
    BY <2>2
  <2>4. \A i \in 1 .. Len(s.pending) : [s.pending[i] EXCEPT !.ec = "cancelled"] \in IoOps
    BY <2>3, OpUpdates DEF Codes
  <2>5. moved = [i \in 1 .. Len(s.pending) |-> [s.pending[i] EXCEPT !.ec = "cancelled"]]
    BY <2>3
  <2>6. \A i \in 1 .. Len(s.pending) :
          moved[i].ec = "cancelled" /\ moved[i].kind = s.pending[i].kind
    BY <2>3, <2>5 DEF IoOps
  <2> HIDE DEF moved
  <2>7. moved \in Seq(IoOps) /\ DOMAIN moved = 1 .. Len(s.pending)
    BY <2>3, <2>4, <2>5
  <2>8. ASSUME NEW k \in DOMAIN q
        PROVE  \/ k \in DOMAIN s.ready /\ q[k] = s.ready[k]
               \/ \E i \in DOMAIN moved : q[k] = moved[i]
    BY <2>2, <2>7, <2>8
  <2> HIDE DEF q
  <2>9. r.pending = <<>> /\ r.ready = q /\ r.keepAlive = s.keepAlive
    BY <2>1 DEF Sessions
  <2> QED BY <2>3, <2>6, <2>7, <2>8, <2>9
<1> QED BY <1>1, <1>2

\* What a completion changes: the pending operation is queued instead.
LEMMA CompleteOps ==
    ASSUME NEW s, Sound(s), NEW i \in DOMAIN s.pending,
           NEW ec \in Codes, NEW n \in Nat, NEW r, r = Complete(s, i, ec, n)
    PROVE  /\ r.pending = <<>>
           /\ \A k \in DOMAIN r.ready :
                \/ k \in DOMAIN s.ready /\ r.ready[k] = s.ready[k]
                \/ /\ r.ready[k].kind = s.pending[1].kind
                   /\ r.ready[k].msg = s.pending[1].msg
                   /\ r.ready[k].ec = ec /\ r.ready[k].n = n
           /\ r.keepAlive = s.keepAlive /\ r.open = s.open
<1> DEFINE c == [s.pending[1] EXCEPT !.ec = ec, !.n = n]
           q == Append(s.ready, c)
           p == SubSeq(s.pending, 1, i - 1) \o SubSeq(s.pending, i + 1, Len(s.pending))
<1>1. s \in Sessions /\ s.ready \in Seq(IoOps \cup Timers)
  BY DEF Sound, Sessions
<1>2. i = 1 /\ Len(s.pending) = 1 /\ s.pending[1] \in IoOps
  BY PendingFacts
<1>3. p = <<>>
  BY <1>2
<1>4. c \in IoOps /\ c.kind = s.pending[1].kind /\ c.msg = s.pending[1].msg /\ c.ec = ec /\ c.n = n
  BY <1>2, OpUpdates DEF IoOps
<1>5. r = [s EXCEPT !.pending = p, !.ready = q]
  BY <1>1, <1>2 DEF Complete, Sessions
<1> HIDE DEF c, p
<1>6. \A k \in DOMAIN q : q[k] = c \/ (k \in DOMAIN s.ready /\ q[k] = s.ready[k])
  BY <1>1, <1>4
<1> HIDE DEF q
<1>7. r.pending = <<>> /\ r.ready = q /\ r.keepAlive = s.keepAlive /\ r.open = s.open
  BY <1>1, <1>3, <1>5 DEF Sessions
<1> QED BY <1>4, <1>6, <1>7

\* What an expired timer adds: its handler.
LEMMA ExpireOps ==
    ASSUME NEW s \in Sessions, NEW r, r = Expire(s)
    PROVE  /\ r.pending = s.pending
           /\ \A k \in DOMAIN r.ready :
                \/ k \in DOMAIN s.ready /\ r.ready[k] = s.ready[k]
                \/ r.ready[k].kind = "timer"
           /\ r.keepAlive = s.keepAlive /\ r.open = s.open
<1> DEFINE c == [id |-> s.timer, kind |-> "timer", msg |-> 0, n |-> 0, ec |-> "ok"]
           q == Append(s.ready, c)
<1>1. s.ready \in Seq(IoOps \cup Timers) /\ c.kind = "timer"
  BY DEF Sessions
<1>2. r = [s EXCEPT !.timer = 0, !.ready = q]
  BY DEF Expire, Sessions
<1> HIDE DEF c
<1>3. \A k \in DOMAIN q : q[k] = c \/ (k \in DOMAIN s.ready /\ q[k] = s.ready[k])
  BY <1>1
<1> HIDE DEF q
<1>4. r.pending = s.pending /\ r.ready = q /\ r.keepAlive = s.keepAlive /\ r.open = s.open
  BY <1>2 DEF Sessions
<1> QED BY <1>1, <1>3, <1>4
=============================================================================
