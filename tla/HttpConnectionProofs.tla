------------------------ MODULE HttpConnectionProofs ------------------------
(***************************************************************************)
(* Safety of a connection from end to end, for messages of every length   *)
(* that the limits allow and every number of requests.  The two ends are  *)
(* instances of the modules in which each is proved by itself; what is    *)
(* added here is what they have in common, the two streams.                *)
(***************************************************************************)
EXTENDS HttpConnection, FiniteSetTheorems, SequenceTheorems, TLAPS

CP == INSTANCE ClientSessionProofs
      WITH Responses <- {}, outbox <- toServer,
           replies <- Replies, todo <- 0, inbox <- cIn

\* The requests as the server finds them, and what the client, which is well
\* framed, has still to send of the last one.
Received == Messages(toServer, Len(toServer))

Missing == ReqSize * Received - Len(toServer)

SP == INSTANCE ServerSessionProofs
      WITH Requests <- [size : Nat, valid : BOOLEAN, len : Nat, close : BOOLEAN],
           sent <- Sent, inbox <- sIn, outbox <- toClient,
           todo <- Missing

LEMMA ClientParameters == CP!SizesAssumption /\ CP!ClientAssumption
BY ConnectionAssumption DEF CP!SizesAssumption, CP!ClientAssumption

LEMMA ServerParameters == SP!SizesAssumption /\ SP!ServerAssumption
BY ConnectionAssumption DEF SP!SizesAssumption, SP!ServerAssumption

LEMMA Sizes ==
    /\ ReqSize \in Nat \ {0} /\ RespSize \in Nat \ {0} /\ MaxRequests \in Nat
    /\ MaxHeaderSize \in Nat /\ MaxBodySize \in Nat
BY ConnectionAssumption

(* ------------------------------- streams -------------------------------- *)

\* Unit p of a stream of messages of r units is of message k.
Within(p, r, k) == k \in Nat \ {0} /\ r * (k - 1) < p /\ p <= r * k

\* A log of messages of r units that are named b + 1, b + 2, ...
Shape(log, r, b) ==
    /\ log \in Seq(Nat)
    /\ \A p \in DOMAIN log : log[p] > b /\ Within(p, r, log[p] - b)

\* What stands for unit p: the number of the message that it begins, or 0.
Mark(v, p, r) == v \in Nat /\ \A k \in Nat \ {0} : p = r * (k - 1) + 1 <=> v = k

\* What is to be read is the end of what was written.
Marked(stream, log, r) ==
    /\ stream \in Seq(Nat)
    /\ Len(stream) <= Len(log)
    /\ \A i \in DOMAIN stream : Mark(stream[i], Len(log) - Len(stream) + i, r)

LEMMA WithinUnique ==
    ASSUME NEW r \in Nat \ {0}, NEW p \in Nat, NEW j, NEW k, Within(p, r, j), Within(p, r, k)
    PROVE  j = k
<1>1. j \in Nat \ {0} /\ k \in Nat \ {0}
  BY DEF Within
<1>2. ASSUME NEW x \in Nat \ {0}, NEW y \in Nat \ {0}, x < y,
             p <= r * x, r * (y - 1) < p
      PROVE  FALSE
  <2>1. PICK d \in Nat : y - 1 = x + d
    BY <1>2
  <2>2. r * (y - 1) = r * x + r * d /\ r * d \in Nat /\ r * x \in Nat
    BY <2>1
  <2> QED BY <1>2, <2>2
<1> QED BY <1>1, <1>2 DEF Within

\* The unit before one that is no beginning is of the same message, and the
\* one before a beginning is not.
LEMMA WithinBefore ==
    ASSUME NEW r \in Nat \ {0}, NEW p \in Nat \ {0}, NEW k, Within(p, r, k)
    PROVE  /\ p = 1 => p = r * (k - 1) + 1
           /\ p # r * (k - 1) + 1 => p - 1 \in Nat \ {0} /\ Within(p - 1, r, k)
           /\ p = r * (k - 1) + 1 => ~Within(p - 1, r, k)
<1>1. k \in Nat \ {0} /\ r * (k - 1) \in Nat /\ r * k \in Nat
  BY DEF Within
<1> DEFINE a == r * (k - 1)
           z == r * k
<1>2. a \in Nat /\ z \in Nat /\ a < p /\ p <= z
  BY <1>1 DEF Within
<1>3. \A x : Within(x, r, k) <=> a < x /\ x <= z
  BY <1>1 DEF Within
<1> HIDE DEF a, z
<1>4. /\ p = 1 => p = a + 1
      /\ p # a + 1 => p - 1 \in Nat \ {0} /\ a < p - 1 /\ p - 1 <= z
      /\ p = a + 1 => ~(a < p - 1)
  BY <1>2
<1> QED BY <1>3, <1>4 DEF a

\* A message begins at the first of its units.
LEMMA BeginsAt ==
    ASSUME NEW r \in Nat \ {0}, NEW b \in Nat, NEW log, Shape(log, r, b),
           NEW p \in DOMAIN log
    PROVE  /\ p \in Nat \ {0} /\ log[p] - b \in Nat \ {0} /\ Within(p, r, log[p] - b)
           /\ Begins(log, p) <=> p = r * (log[p] - b - 1) + 1
<1> DEFINE k == log[p] - b
<1>1. log \in Seq(Nat) /\ p \in 1 .. Len(log) /\ Len(log) \in Nat /\ log[p] \in Nat
  BY DEF Shape
<1>2. Within(p, r, k) /\ k \in Nat \ {0} /\ p \in Nat \ {0}
  BY <1>1 DEF Shape, Within
<1>3. /\ p = 1 => p = r * (k - 1) + 1
      /\ p # r * (k - 1) + 1 => p - 1 \in Nat \ {0} /\ Within(p - 1, r, k)
      /\ p = r * (k - 1) + 1 => ~Within(p - 1, r, k)
  BY <1>2, WithinBefore
<1>4. CASE p = 1
  BY <1>2, <1>3, <1>4 DEF Begins
<1>5. CASE p # 1
  <2> DEFINE j == log[p - 1] - b
  <2>1. p - 1 \in DOMAIN log /\ p - 1 \in Nat
    BY <1>1, <1>5
  <2>2. log[p - 1] \in Nat
    BY <1>1, <2>1
  <2>3. Within(p - 1, r, j)
    BY <2>1 DEF Shape
  <2>4. log[p] = log[p - 1] <=> k = j
    BY <1>1, <2>2
  <2> HIDE DEF k, j
  <2>5. k = j <=> Within(p - 1, r, k)
    BY <2>1, <2>3, WithinUnique
  <2>6. Begins(log, p) <=> k # j
    BY <1>5, <2>4 DEF Begins
  <2>7. Begins(log, p) <=> p = r * (k - 1) + 1
    BY <1>3, <2>5, <2>6
  <2> QED BY <1>2, <2>7 DEF k
<1> QED BY <1>4, <1>5

LEMMA Multiples ==
    ASSUME NEW r \in Nat, NEW x \in Nat, NEW y \in Nat, x < y
    PROVE  r * x \in Nat /\ r * y \in Nat /\ r * x + r <= r * y
<1>1. PICK d \in Nat : y = (x + 1) + d
  <2>1. y - (x + 1) \in Nat /\ y = (x + 1) + (y - (x + 1))
    OBVIOUS
  <2> QED BY <2>1
<1>2. r * y = (r * x + r) + r * d /\ r * d \in Nat /\ r * x \in Nat
  BY <1>1
<1> QED BY <1>2

\* The first unit of message k is within it, and it is the only one that is one
\* unit past a multiple of r.
LEMMA FirstUnit ==
    ASSUME NEW r \in Nat \ {0}, NEW k \in Nat \ {0}
    PROVE  r * (k - 1) + 1 \in Nat \ {0} /\ Within(r * (k - 1) + 1, r, k)
<1> DEFINE a == r * (k - 1)
<1>1. a \in Nat /\ r * k = a + r
  <2>1. k - 1 \in Nat /\ k = (k - 1) + 1
    OBVIOUS
  <2> QED BY <2>1
<1> HIDE DEF a
<1>2. a + 1 \in Nat \ {0} /\ a < a + 1 /\ a + 1 <= r * k
  BY <1>1
<1> QED BY <1>2 DEF a, Within

\* The messages up to a unit are counted by the name of the unit.
LEMMA MessagesAre ==
    ASSUME NEW r \in Nat \ {0}, NEW b \in Nat, NEW log, Shape(log, r, b),
           NEW p \in DOMAIN log
    PROVE  Messages(log, p) = log[p] - b
<1> DEFINE n == log[p] - b
           T == {x \in 1 .. p : Begins(log, x)}
           f == [k \in 1 .. n |-> r * (k - 1) + 1]
<1>1. log \in Seq(Nat) /\ Len(log) \in Nat /\ DOMAIN log = 1 .. Len(log)
  BY DEF Shape
<1>2. p \in Nat \ {0} /\ n \in Nat \ {0} /\ Within(p, r, n)
  BY BeginsAt
<1>3. \A x \in 1 .. p : x \in DOMAIN log
  BY <1>1, <1>2
<1> HIDE DEF n
<1>4. ASSUME NEW k \in 1 .. n
      PROVE  r * (k - 1) + 1 \in T
  <2> DEFINE x == r * (k - 1) + 1
  <2>1. k \in Nat \ {0} /\ x \in Nat \ {0} /\ Within(x, r, k)
    <3>1. k \in Nat \ {0}
      BY <1>2
    <3> QED BY <3>1, FirstUnit
  <2>2. r * (k - 1) < p
    <3>1. CASE k = n
      BY <1>2, <3>1 DEF Within
    <3>2. CASE k # n
      <4>1. k - 1 \in Nat /\ n - 1 \in Nat /\ k - 1 < n - 1
        BY <1>2, <3>2
      <4>2. r * (k - 1) \in Nat /\ r * (n - 1) \in Nat /\ r * (k - 1) + r <= r * (n - 1)
        BY <4>1, Multiples
      <4> QED BY <1>2, <4>2 DEF Within
    <3> QED BY <3>1, <3>2
  <2>3. r * (k - 1) \in Nat
    BY <2>1
  <2>4. x \in 1 .. p
    BY <1>2, <2>2, <2>3
  <2> HIDE DEF x
  <2>5. x \in DOMAIN log
    BY <1>3, <2>4
  <2>6. Within(x, r, log[x] - b) /\ (Begins(log, x) <=> x = r * (log[x] - b - 1) + 1)
    BY <2>5, BeginsAt
  <2>7. log[x] - b = k
    BY <2>1, <2>6, WithinUnique
  <2>8. Begins(log, x)
    BY <2>6, <2>7 DEF x
  <2> QED BY <2>4, <2>8 DEF x
<1>5. f \in [1 .. n -> T]
  BY <1>4
<1>6. ASSUME NEW j \in 1 .. n, NEW k \in 1 .. n, f[j] = f[k]
      PROVE  j = k
  <2>1. j \in Nat \ {0} /\ k \in Nat \ {0} /\ r * (j - 1) + 1 = r * (k - 1) + 1
    BY <1>2, <1>6
  <2> DEFINE x == r * (j - 1) + 1
             y == r * (k - 1) + 1
  <2>2. x \in Nat \ {0} /\ Within(x, r, j) /\ Within(y, r, k) /\ x = y
    BY <2>1, FirstUnit
  <2> HIDE DEF x, y
  <2> QED BY <2>2, WithinUnique
<1>7. ASSUME NEW x \in T
      PROVE  \E k \in 1 .. n : f[k] = x
  <2> DEFINE j == log[x] - b
  <2>1. x \in 1 .. p /\ x \in DOMAIN log /\ Begins(log, x)
    BY <1>3
  <2>2. j \in Nat \ {0} /\ Within(x, r, j) /\ x = r * (j - 1) + 1
    BY <2>1, BeginsAt
  <2> HIDE DEF j
  <2>3. j <= n
    <3> SUFFICES ASSUME n < j PROVE FALSE
      BY <1>2, <2>2
    <3>1. CASE n = j - 1
      BY <1>2, <2>1, <2>2, <3>1 DEF Within
    <3>2. CASE n # j - 1
      <4>1. j - 1 \in Nat /\ n < j - 1
        BY <1>2, <2>2, <3>2
      <4>2. r * n \in Nat /\ r * (j - 1) \in Nat /\ r * n + r <= r * (j - 1)
        BY <1>2, <4>1, Multiples
      <4> QED BY <1>2, <2>1, <2>2, <4>2 DEF Within
    <3> QED BY <3>1, <3>2
  <2>4. j \in 1 .. n
    BY <1>2, <2>2, <2>3
  <2> QED BY <2>2, <2>4
<1>8. f \in Bijection(1 .. n, T)
  <2> HIDE DEF f, T
  <2>1. f \in Injection(1 .. n, T)
    BY <1>5, <1>6 DEF Injection, IsInjective
  <2>2. f \in Surjection(1 .. n, T)
    BY <1>5, <1>7 DEF Surjection
  <2> QED BY <2>1, <2>2 DEF Bijection
<1>9. ExistsBijection(1 .. n, T)
  BY <1>8 DEF ExistsBijection
<1>10. Cardinality(T) = n
  <2> HIDE DEF T
  <2> QED BY <1>2, <1>9, FS_CountingElements
<1> QED BY <1>10 DEF Messages, n

LEMMA NoMessages == ASSUME NEW log PROVE Messages(log, 0) = 0
<1>1. {x \in 1 .. 0 : Begins(log, x)} = {}
  OBVIOUS
<1> QED BY <1>1, FS_EmptySet DEF Messages

LEMMA Grows ==
    ASSUME NEW r \in Nat, NEW x \in Nat, NEW y \in Nat, x <= y
    PROVE  r * x \in Nat /\ r * y \in Nat /\ r * x <= r * y
<1>1. CASE x = y
  BY <1>1
<1>2. CASE x # y
  <2>1. x < y
    BY <1>2
  <2>2. r * x \in Nat /\ r * y \in Nat /\ r * x + r <= r * y
    BY <2>1, Multiples
  <2> QED BY <2>2
<1> QED BY <1>1, <1>2

LEMMA Cancel ==
    ASSUME NEW r \in Nat \ {0}, NEW x \in Nat, NEW y \in Nat, r * x <= r * y
    PROVE  x <= y
<1> SUFFICES ASSUME y < x PROVE FALSE
  OBVIOUS
<1>1. r * y \in Nat /\ r * x \in Nat /\ r * y + r <= r * x
  BY Multiples
<1> QED BY <1>1

LEMMA Equals ==
    ASSUME NEW r \in Nat \ {0}, NEW x \in Nat, NEW y \in Nat, r * x = r * y
    PROVE  x = y
<1>1. r * x \in Nat /\ r * y \in Nat
  OBVIOUS
<1>2. x <= y /\ y <= x
  BY <1>1, Cancel
<1> QED BY <1>2

\* How many messages a log has, and where they are.
LEMMA LogFacts ==
    ASSUME NEW r \in Nat \ {0}, NEW b \in Nat, NEW log, Shape(log, r, b),
           NEW n, n = Messages(log, Len(log))
    PROVE  /\ n \in Nat /\ Len(log) \in Nat /\ log \in Seq(Nat)
           /\ r * n \in Nat /\ Len(log) <= r * n
           /\ n = 0 <=> Len(log) = 0
           /\ n # 0 => Within(Len(log), r, n) /\ log[Len(log)] = b + n
           /\ r * n - Len(log) < r
<1>1. log \in Seq(Nat) /\ Len(log) \in Nat /\ DOMAIN log = 1 .. Len(log)
  BY DEF Shape
<1>2. CASE Len(log) = 0
  <2>1. n = 0
    BY <1>2, NoMessages
  <2> QED BY <1>1, <1>2, <2>1
<1>3. CASE Len(log) # 0
  <2> DEFINE m == Len(log)
  <2>1. m \in DOMAIN log
    BY <1>1, <1>3
  <2>2. n = log[m] - b
    BY <2>1, MessagesAre
  <2>3. n \in Nat \ {0} /\ Within(m, r, n)
    BY <2>1, <2>2, BeginsAt
  <2>4. log[m] \in Nat
    BY <1>1, <2>1
  <2> HIDE DEF m
  <2>5. log[m] = b + n
    BY <2>2, <2>3, <2>4
  <2>6. r * n \in Nat /\ r * (n - 1) \in Nat /\ r * n = r * (n - 1) + r
    <3>1. n - 1 \in Nat /\ n = (n - 1) + 1
      BY <2>3
    <3> QED BY <2>3, <3>1
  <2>7. m <= r * n /\ r * (n - 1) < m
    BY <2>3 DEF Within
  <2>8. m \in Nat /\ m # 0
    BY <1>1, <1>3 DEF m
  <2>9. r * n - m < r
    BY <2>6, <2>7, <2>8
  <2> QED BY <1>1, <1>3, <2>3, <2>5, <2>6, <2>7, <2>9 DEF m
<1> QED BY <1>2, <1>3

\* A unit has the name of the message that it is within.
LEMMA UnitName ==
    ASSUME NEW r \in Nat \ {0}, NEW b \in Nat, NEW log, Shape(log, r, b),
           NEW p \in DOMAIN log, NEW k, Within(p, r, k)
    PROVE  log[p] = b + k
<1>1. p \in Nat \ {0} /\ log[p] - b \in Nat \ {0} /\ Within(p, r, log[p] - b)
  BY BeginsAt
<1>2. log[p] - b = k
  BY <1>1, WithinUnique
<1>3. log[p] \in Nat /\ k \in Nat
  BY DEF Shape, Within
<1> QED BY <1>2, <1>3

\* What the server calls request k is the k-th the client could send.
LEMMA ArrivedAre ==
    ASSUME NEW b \in Nat, Shape(toServer, ReqSize, b)
    PROVE  LET n == Messages(toServer, Len(toServer))
           IN  /\ n \in Nat /\ DOMAIN Arrived = 1 .. n
               /\ \A k \in 1 .. n : Arrived[k] = b + k
<1> DEFINE n == Messages(toServer, Len(toServer))
           Is(q, k) == \E p \in DOMAIN toServer : toServer[p] = q /\ Messages(toServer, p) = k
<1>1. /\ n \in Nat /\ Len(toServer) \in Nat /\ toServer \in Seq(Nat)
      /\ n = 0 <=> Len(toServer) = 0
      /\ n # 0 => Within(Len(toServer), ReqSize, n)
  BY Sizes, LogFacts
<1>2. DOMAIN Arrived = 1 .. n
  BY DEF Arrived
<1>3. ASSUME NEW k \in 1 .. n
      PROVE  Arrived[k] = b + k
  <2> HIDE DEF n
  <2> DEFINE p == ReqSize * (k - 1) + 1
  <2>1. k \in Nat \ {0} /\ n \in Nat \ {0} /\ k <= n
    BY <1>1
  <2>2. p \in Nat \ {0} /\ Within(p, ReqSize, k)
    BY <2>1, Sizes, FirstUnit
  <2>3. ReqSize * (k - 1) < Len(toServer)
    <3>1. CASE k = n
      BY <1>1, <2>1, <3>1 DEF Within
    <3>2. CASE k # n
      <4>1. k - 1 \in Nat /\ n - 1 \in Nat /\ k - 1 < n - 1
        BY <2>1, <3>2
      <4>2. /\ ReqSize * (k - 1) \in Nat /\ ReqSize * (n - 1) \in Nat
            /\ ReqSize * (k - 1) + ReqSize <= ReqSize * (n - 1)
        BY <4>1, Multiples, Sizes
      <4>3. ReqSize * (n - 1) < Len(toServer)
        BY <1>1, <2>1 DEF Within
      <4> QED BY <1>1, <4>2, <4>3, Sizes
    <3> QED BY <3>1, <3>2
  <2>4. ReqSize * (k - 1) \in Nat
    BY <2>1, Sizes
  <2>5. p \in DOMAIN toServer
    BY <1>1, <2>3, <2>4
  <2> HIDE DEF p
  <2>6. toServer[p] = b + k
    BY <2>2, <2>5, Sizes, UnitName
  <2>7. Messages(toServer, p) = k
    <3>1. Messages(toServer, p) = toServer[p] - b
      BY <2>5, Sizes, MessagesAre
    <3> QED BY <2>1, <2>6, <3>1
  <2>8. b + k \in Range(toServer) /\ Is(b + k, k)
    BY <2>5, <2>6, <2>7 DEF Range
  <2>9. ASSUME NEW q, Is(q, k) PROVE q = b + k
    <3>1. PICK x \in DOMAIN toServer : toServer[x] = q /\ Messages(toServer, x) = k
      BY <2>9
    <3>2. q - b = k
      BY <3>1, Sizes, MessagesAre
    <3>3. q \in Nat
      BY <1>1, <3>1
    <3> QED BY <2>1, <3>2, <3>3
  <2>10. Arrived[k] = CHOOSE q \in Range(toServer) : Is(q, k)
    BY DEF Arrived, n
  <2> HIDE DEF Is
  <2> QED BY <2>8, <2>9, <2>10
<1> QED BY <1>1, <1>2, <1>3

\* The requests as the server finds them.
LEMMA SentAre ==
    ASSUME NEW b \in Nat, Shape(toServer, ReqSize, b)
    PROVE  /\ Received \in Nat /\ Missing \in Nat /\ Len(toServer) \in Nat
           /\ Sent \in Seq([size : Nat, valid : BOOLEAN, len : Nat, close : BOOLEAN])
           /\ Len(Sent) = Received
           /\ \A k \in 1 .. Received : Sent[k].len = ReqSize - 1
<1>1. Received \in Nat /\ DOMAIN Arrived = 1 .. Received
  BY ArrivedAre DEF Received
<1>2. Missing \in Nat /\ Len(toServer) \in Nat
  <2> DEFINE z == ReqSize * Received
  <2>1. z \in Nat /\ Len(toServer) \in Nat /\ Len(toServer) <= z
    BY Sizes, LogFacts DEF Received
  <2> HIDE DEF z
  <2>2. z - Len(toServer) \in Nat
    BY <2>1
  <2> QED BY <2>1, <2>2 DEF Missing, z
<1> DEFINE R == [size : Nat, valid : BOOLEAN, len : Nat, close : BOOLEAN]
           f(k) == [size |-> 1, valid |-> TRUE, len |-> ReqSize - 1, close |-> Arrived[k] \in closing]
<1>3. ReqSize - 1 \in Nat
  BY Sizes
<1>4. \A k : f(k) \in R /\ f(k).len = ReqSize - 1
  BY <1>3
<1>5. Sent = [k \in 1 .. Received |-> f(k)]
  BY <1>1 DEF Sent
<1> HIDE DEF R, f
<1>6. Sent \in Seq(R) /\ Len(Sent) = Received
  BY <1>1, <1>4, <1>5
<1>7. \A k \in 1 .. Received : Sent[k].len = ReqSize - 1
  BY <1>4, <1>5
<1> QED BY <1>1, <1>2, <1>6, <1>7 DEF R

\* The responses as the client finds them.
LEMMA RepliesAre ==
    ASSUME NEW b \in Nat, Shape(toServer, ReqSize, b),
           dispatched \in Seq([msg : Nat, keep : BOOLEAN]),
           \A i \in DOMAIN dispatched : dispatched[i].msg = i,
           Len(dispatched) <= Received
    PROVE  /\ Replies \in Seq([to : Nat, size : Nat, valid : BOOLEAN, len : Nat, close : BOOLEAN])
           /\ Len(Replies) = Len(dispatched)
           /\ \A i \in DOMAIN dispatched :
                /\ Arrived[dispatched[i].msg] = b + i
                /\ Replies[i].to = b + i /\ Replies[i].len = RespSize - 1
<1>1. Received \in Nat /\ \A k \in 1 .. Received : Arrived[k] = b + k
  BY ArrivedAre DEF Received
<1>2. Len(dispatched) \in Nat /\ DOMAIN dispatched = 1 .. Len(dispatched)
  OBVIOUS
<1> DEFINE R == [to : Nat, size : Nat, valid : BOOLEAN, len : Nat, close : BOOLEAN]
           f(i) == [to |-> Arrived[dispatched[i].msg], size |-> 1, valid |-> TRUE,
                    len |-> RespSize - 1, close |-> ~dispatched[i].keep]
<1>3. RespSize - 1 \in Nat
  BY Sizes
<1>4. \A i \in DOMAIN dispatched : Arrived[dispatched[i].msg] = b + i /\ b + i \in Nat
  BY <1>1, <1>2
<1>5. \A i \in DOMAIN dispatched : f(i) \in R /\ f(i).len = RespSize - 1 /\ f(i).to = b + i
  BY <1>3, <1>4
<1>6. Replies = [i \in 1 .. Len(dispatched) |-> f(i)]
  BY <1>2 DEF Replies
<1> HIDE DEF R, f
<1>7. Replies \in Seq(R) /\ Len(Replies) = Len(dispatched)
  BY <1>2, <1>5, <1>6
<1>8. \A i \in DOMAIN dispatched : Replies[i].to = b + i /\ Replies[i].len = RespSize - 1
  BY <1>2, <1>5, <1>6
<1> QED BY <1>4, <1>7, <1>8 DEF R

\* What a stream carries are numbers of messages that the log has begun.
LEMMA MarkedKnown ==
    ASSUME NEW r \in Nat \ {0}, NEW log, Len(log) \in Nat, NEW stream, Marked(stream, log, r),
           NEW m \in Nat, Len(log) <= r * m
    PROVE  \A i \in DOMAIN stream : stream[i] \in 0 .. m
<1> SUFFICES ASSUME NEW i \in DOMAIN stream, stream[i] # 0
             PROVE  stream[i] \in 0 .. m
  BY DEF Marked
<1> DEFINE v == stream[i]
           p == Len(log) - Len(stream) + i
<1>1. stream \in Seq(Nat) /\ i \in 1 .. Len(stream) /\ Len(stream) \in Nat /\ Len(stream) <= Len(log)
  BY DEF Marked
<1>2. v \in Nat \ {0} /\ p = r * (v - 1) + 1
  BY <1>1 DEF Marked, Mark
<1>3. p <= r * m /\ r * (v - 1) \in Nat /\ r * m \in Nat
  BY <1>1, <1>2
<1> HIDE DEF v, p
<1>4. ~(m < v)
  <2> SUFFICES ASSUME m < v PROVE FALSE
    OBVIOUS
  <2>1. CASE m = v - 1
    BY <1>2, <1>3, <2>1
  <2>2. CASE m # v - 1
    <3>1. v - 1 \in Nat /\ m < v - 1
      BY <1>2, <2>2
    <3>2. r * m + r <= r * (v - 1)
      BY <3>1, Multiples
    <3> QED BY <1>2, <1>3, <3>2
  <2> QED BY <2>1, <2>2
<1> QED BY <1>2, <1>4 DEF v

\* Taking what arrived first leaves the rest where it was.
LEMMA MarkedRest ==
    ASSUME NEW r, NEW log, Len(log) \in Nat, NEW stream, Marked(stream, log, r),
           NEW k \in Nat, k <= Len(stream),
           NEW rest, rest = SubSeq(stream, k + 1, Len(stream))
    PROVE  Marked(rest, log, r) /\ Len(rest) = Len(stream) - k
<1>1. stream \in Seq(Nat) /\ Len(stream) \in Nat /\ Len(stream) <= Len(log)
  BY DEF Marked
<1>2. /\ rest \in Seq(Nat) /\ Len(rest) = Len(stream) - k
      /\ \A i \in 1 .. Len(rest) : rest[i] = stream[i + k]
  <2>1. PICK m \in Nat : m = k + 1
    OBVIOUS
  <2>2. PICK n \in Nat : n = Len(stream)
    BY <1>1
  <2>3. \A i \in m .. n : stream[i] \in Nat
    BY <1>1, <2>1, <2>2
  <2>4. /\ SubSeq(stream, m, n) \in Seq(Nat)
        /\ Len(SubSeq(stream, m, n)) = IF m <= n THEN n - m + 1 ELSE 0
        /\ \A i \in 1 .. n - m + 1 : SubSeq(stream, m, n)[i] = stream[m + i - 1]
    BY <2>3, SubSeqProperties
  <2>5. rest = SubSeq(stream, m, n)
    BY <2>1, <2>2
  <2>6. /\ rest \in Seq(Nat) /\ Len(rest) = IF m <= n THEN n - m + 1 ELSE 0
        /\ \A i \in 1 .. n - m + 1 : rest[i] = stream[m + i - 1]
    BY <2>4, <2>5, Zenon
  <2>7. Len(rest) = Len(stream) - k /\ n - m + 1 = Len(rest)
    BY <1>1, <2>1, <2>2, <2>6
  <2>8. \A i \in 1 .. Len(rest) : m + i - 1 = i + k
    BY <2>1
  <2> QED BY <2>6, <2>7, <2>8, Zenon
<1>3. ASSUME NEW i \in DOMAIN rest
      PROVE  Mark(rest[i], Len(log) - Len(rest) + i, r)
  <2>1. i \in 1 .. Len(rest) /\ i + k \in DOMAIN stream
    BY <1>1, <1>2
  <2>2. Mark(stream[i + k], Len(log) - Len(stream) + (i + k), r)
    BY <2>1 DEF Marked
  <2>3. Len(log) - Len(stream) + (i + k) = Len(log) - Len(rest) + i
    BY <1>1, <1>2, <2>1
  <2> QED BY <1>2, <2>1, <2>2, <2>3
<1> QED BY <1>1, <1>2, <1>3 DEF Marked

LEMMA Joined ==
    ASSUME NEW u \in Seq(Nat), NEW w \in Seq(Nat)
    PROVE  /\ u \o w \in Seq(Nat) /\ Len(u) \in Nat /\ Len(w) \in Nat
           /\ Len(u \o w) = Len(u) + Len(w)
           /\ DOMAIN u = 1 .. Len(u) /\ DOMAIN (u \o w) = 1 .. Len(u) + Len(w)
           /\ \A i \in 1 .. Len(u) : (u \o w)[i] = u[i]
           /\ \A i \in 1 .. Len(w) : (u \o w)[Len(u) + i] = w[i]
OBVIOUS

\* The next units of message k, of which n are to come.
LEMMA NextUnits ==
    ASSUME NEW r \in Nat \ {0}, NEW k \in Nat \ {0}, NEW m \in Nat, NEW n \in Nat, n <= r,
           m + n = r * k, NEW j \in 1 .. n
    PROVE  /\ \A p \in m + 1 .. m + j : Within(p, r, k)
           /\ m + j <= r * k
<1> DEFINE a == r * (k - 1)
           z == r * k
<1>1. a \in Nat /\ z = a + r /\ m + n = z
  <2>1. k - 1 \in Nat /\ k = (k - 1) + 1
    OBVIOUS
  <2> QED BY <2>1
<1>2. \A p : Within(p, r, k) <=> a < p /\ p <= z
  BY DEF Within
<1> HIDE DEF a, z
<1>3. \A p \in m + 1 .. m + j : a < p /\ p <= z
  BY <1>1
<1>4. m + j <= z
  BY <1>1
<1> QED BY <1>2, <1>3, <1>4 DEF z

\* The d units after the first m are of message k; more is log with d units added.
UnitsOf(m, d, r, k) == \A p \in m + 1 .. m + d : Within(p, r, k)

Repeats(w, d, v) == Len(w) = d /\ \A x \in 1 .. d : w[x] = v

Longer(more, log, d) ==
    /\ Len(more) = Len(log) + d
    /\ \A p \in 1 .. Len(log) : more[p] = log[p]

\* What is added to the log of a message keeps it one of whole messages and
\* perhaps a truncated last one.
LEMMA LogGrows ==
    ASSUME NEW r \in Nat \ {0}, NEW b \in Nat, NEW log, Shape(log, r, b),
           NEW k \in Nat \ {0}, NEW w \in Seq(Nat), NEW d, Repeats(w, d, b + k),
           UnitsOf(Len(log), d, r, k)
    PROVE  Shape(log \o w, r, b) /\ Longer(log \o w, log, d)
<1> DEFINE more == log \o w
<1>1. log \in Seq(Nat) /\ Len(log) \in Nat /\ Len(w) \in Nat /\ Len(w) = d
  BY DEF Shape, Repeats
<1>2. /\ more \in Seq(Nat) /\ Len(more) = Len(log) + d
      /\ \A p \in 1 .. Len(log) : more[p] = log[p]
      /\ \A x \in 1 .. d : more[Len(log) + x] = b + k
      /\ DOMAIN log = 1 .. Len(log) /\ DOMAIN more = 1 .. Len(log) + d
  <2>1. \A x \in 1 .. d : w[x] = b + k
    BY DEF Repeats
  <2> QED BY <1>1, <2>1, Joined
<1> HIDE DEF more
<1>3. ASSUME NEW p \in DOMAIN more
      PROVE  more[p] > b /\ Within(p, r, more[p] - b)
  <2>1. p \in 1 .. Len(log) + d
    BY <1>2
  <2>2. CASE p <= Len(log)
    <3>1. p \in DOMAIN log /\ more[p] = log[p]
      BY <1>1, <1>2, <2>1, <2>2
    <3> QED BY <3>1 DEF Shape
  <2>3. CASE p > Len(log)
    <3>1. p - Len(log) \in 1 .. d /\ Len(log) + (p - Len(log)) = p
      BY <1>1, <2>1, <2>3
    <3>2. more[p] = b + k
      BY <1>2, <3>1
    <3>3. more[p] > b /\ more[p] - b = k
      BY <3>2
    <3>4. p \in Len(log) + 1 .. Len(log) + d
      BY <1>1, <2>1, <2>3
    <3> QED BY <3>3, <3>4 DEF UnitsOf
  <2> QED BY <1>1, <2>1, <2>2, <2>3
<1> QED BY <1>2, <1>3 DEF Shape, Longer, more

\* What a write adds to the log: units of the message of which n are missing.
LEMMA UnitsAdded ==
    ASSUME NEW r \in Nat \ {0}, NEW b \in Nat, NEW log, Shape(log, r, b),
           NEW k \in Nat \ {0}, NEW n \in Nat, n <= r, NEW m, m = Len(log), m + n = r * k,
           NEW j \in 1 .. n, NEW w \in Seq(Nat), Repeats(w, j, b + k)
    PROVE  Shape(log \o w, r, b) /\ Longer(log \o w, log, j) /\ m + j <= r * k
<1>1. m \in Nat
  BY DEF Shape
<1>2. UnitsOf(m, j, r, k) /\ m + j <= r * k
  BY <1>1, NextUnits DEF UnitsOf
<1>3. Shape(log \o w, r, b) /\ Longer(log \o w, log, j)
  BY <1>2, LogGrows
<1> QED BY <1>2, <1>3

LEMMA Copies ==
    ASSUME NEW v \in Nat, NEW j \in Nat, NEW w, w = [x \in 1 .. j |-> v]
    PROVE  w \in Seq(Nat) /\ Repeats(w, j, v)
BY DEF Repeats

\* Nothing that waits in a stream is lost or moved.
Kept(next, stream) == \A i \in DOMAIN stream : i \in DOMAIN next /\ next[i] = stream[i]

\* What is delivered of a log that has grown.
LEMMA Delivered ==
    ASSUME NEW r \in Nat \ {0}, NEW b \in Nat, NEW log, Shape(log, r, b),
           NEW more, Shape(more, r, b), Len(log) <= Len(more),
           NEW stream, Marked(stream, log, r),
           NEW next, next = Deliver(stream, more, Len(log))
    PROVE  /\ Marked(next, more, r)
           /\ Len(more) - Len(next) = Len(log) - Len(stream)
           /\ Kept(next, stream)
<1> DEFINE n == Len(log)
           d == Len(more) - n
           f(i) == IF Begins(more, n + i) THEN Messages(more, n + i) ELSE 0
           w == [i \in 1 .. d |-> f(i)]
<1>1. /\ log \in Seq(Nat) /\ n \in Nat /\ more \in Seq(Nat) /\ Len(more) \in Nat /\ d \in Nat
      /\ stream \in Seq(Nat) /\ Len(stream) \in Nat /\ Len(stream) <= n
      /\ DOMAIN more = 1 .. Len(more) /\ Len(more) = n + d
  BY DEF Shape, Marked
<1>2. next = stream \o w
  BY DEF Deliver
<1>3. ASSUME NEW i \in 1 .. d
      PROVE  f(i) \in Nat /\ Mark(f(i), n + i, r)
  <2> DEFINE p == n + i
             k == more[p] - b
  <2>1. p \in DOMAIN more
    BY <1>1
  <2>2. /\ p \in Nat \ {0} /\ k \in Nat \ {0} /\ Within(p, r, k)
        /\ Begins(more, p) <=> p = r * (k - 1) + 1
    BY <2>1, BeginsAt
  <2>3. Messages(more, p) = k
    BY <2>1, MessagesAre
  <2>4. f(i) = IF p = r * (k - 1) + 1 THEN k ELSE 0
    BY <2>2, <2>3
  <2> HIDE DEF f, p, k
  <2>5. ASSUME NEW x \in Nat \ {0}, p = r * (x - 1) + 1
        PROVE  x = k
    BY <2>2, <2>5, FirstUnit, WithinUnique
  <2>6. f(i) \in Nat
    BY <2>2, <2>4
  <2>7. ASSUME NEW x \in Nat \ {0}
        PROVE  p = r * (x - 1) + 1 <=> f(i) = x
    BY <2>2, <2>4, <2>5
  <2> QED BY <2>6, <2>7 DEF Mark, p
<1> HIDE DEF f, n, d
<1>4. w \in Seq(Nat) /\ Len(w) = d /\ \A i \in 1 .. d : w[i] = f(i)
  BY <1>1, <1>3
<1> HIDE DEF w
<1>5. /\ next \in Seq(Nat) /\ Len(next) = Len(stream) + d
      /\ \A i \in 1 .. Len(stream) : next[i] = stream[i]
      /\ \A i \in 1 .. d : next[Len(stream) + i] = w[i]
      /\ DOMAIN stream = 1 .. Len(stream) /\ DOMAIN next = 1 .. Len(stream) + d
  <2>1. stream \in Seq(Nat) /\ w \in Seq(Nat)
    BY <1>1, <1>4
  <2>2. /\ next \in Seq(Nat) /\ Len(next) = Len(stream) + Len(w)
        /\ DOMAIN stream = 1 .. Len(stream) /\ DOMAIN next = 1 .. Len(next)
        /\ \A i \in 1 .. Len(stream) : next[i] = stream[i]
        /\ \A i \in 1 .. Len(w) : next[Len(stream) + i] = w[i]
    BY <1>2, <2>1, Joined
  <2>3. Len(w) = d
    BY <1>4
  <2> QED BY <2>2, <2>3, Zenon
<1>6. Len(more) - Len(next) = n - Len(stream) /\ Len(next) <= Len(more) /\ Len(next) \in Nat
  BY <1>1, <1>5
<1>7. ASSUME NEW i \in DOMAIN next
      PROVE  Mark(next[i], Len(more) - Len(next) + i, r)
  <2>1. i \in 1 .. Len(stream) + d
    BY <1>5
  <2>2. CASE i <= Len(stream)
    <3>1. i \in DOMAIN stream /\ next[i] = stream[i]
      BY <1>1, <1>5, <2>1, <2>2
    <3>2. Mark(stream[i], n - Len(stream) + i, r)
      BY <3>1 DEF Marked, n
    <3> QED BY <1>6, <3>1, <3>2
  <2>3. CASE i > Len(stream)
    <3> DEFINE x == i - Len(stream)
    <3>1. x \in 1 .. d /\ Len(stream) + x = i
      BY <1>1, <2>1, <2>3
    <3>2. n - Len(stream) + i = n + x
      BY <1>1, <2>1
    <3> HIDE DEF x
    <3>3. next[i] = w[x]
      BY <1>5, <3>1
    <3> QED BY <1>3, <1>4, <1>6, <3>1, <3>2, <3>3
  <2> QED BY <1>1, <2>1, <2>2, <2>3
<1>8. Kept(next, stream)
  BY <1>1, <1>5 DEF Kept
<1> QED BY <1>5, <1>6, <1>7, <1>8 DEF Marked, n

(* --------------------- what the ends know of the streams ---------------- *)

\* b requests were refused before the connection was opened, and are in none
\* of the streams.
Streams(b) ==
    /\ Shape(toServer, ReqSize, b)
    /\ Shape(toClient, RespSize, 0)
    /\ Marked(sIn, toServer, ReqSize)
    /\ Marked(cIn, toClient, RespSize)

\* What was taken of the streams.
Taken == Len(toServer) - Len(sIn)

Got == Len(toClient) - Len(cIn)

\* Where requests start: by their length, and by what the server is told.
Starts ==
    \A p \in Nat \ {0}, q \in Nat \ {0} :
        SP!StartsAt(p, q) <=> q <= Received + 1 /\ Taken + p = ReqSize * (q - 1) + 1

LEMMA StartsWhere ==
    ASSUME NEW b \in Nat, Shape(toServer, ReqSize, b), Marked(sIn, toServer, ReqSize)
    PROVE  Starts
<1>1. /\ Received \in Nat /\ Missing \in Nat /\ Len(toServer) \in Nat
      /\ Sent \in Seq([size : Nat, valid : BOOLEAN, len : Nat, close : BOOLEAN])
      /\ Len(Sent) = Received
  BY SentAre
<1>2. /\ sIn \in Seq(Nat) /\ Len(sIn) \in Nat /\ DOMAIN sIn = 1 .. Len(sIn)
      /\ Len(sIn) <= Len(toServer)
  BY DEF Marked
<1>3. Received # 0 => Within(Len(toServer), ReqSize, Received)
  BY Sizes, LogFacts DEF Received
<1>4. Received = 0 => Len(toServer) = 0
  BY Sizes, LogFacts DEF Received
<1> SUFFICES ASSUME NEW p \in Nat \ {0}, NEW q \in Nat \ {0}
             PROVE  SP!StartsAt(p, q) <=>
                       q <= Received + 1 /\ Taken + p = ReqSize * (q - 1) + 1
  BY DEF Starts
<1> DEFINE a == ReqSize * (q - 1)
           z == ReqSize * Received
<1>5. a \in Nat /\ z \in Nat /\ Missing = z - Len(toServer) /\ Len(toServer) <= z
  <2>1. q - 1 \in Nat
    OBVIOUS
  <2> QED BY <1>1, <2>1, Sizes, LogFacts DEF Missing, Received
<1>6. CASE q = Received + 1
  <2>1. a = z
    BY <1>1, <1>6
  <2>2. SP!StartsAt(p, q) <=> p = Len(sIn) + Missing + 1
    BY <1>1, <1>6 DEF SP!StartsAt
  <2> HIDE DEF a, z
  <2>3. p = Len(sIn) + Missing + 1 <=> Len(toServer) - Len(sIn) + p = a + 1
    BY <1>1, <1>2, <1>5, <2>1
  <2>4. q <= Received + 1
    BY <1>1, <1>6
  <2> QED BY <2>2, <2>3, <2>4 DEF a, Taken
<1>7. CASE q # Received + 1
  <2>1. SP!StartsAt(p, q) <=> p \in DOMAIN sIn /\ sIn[p] = q
    BY <1>1, <1>7 DEF SP!StartsAt
  <2>2. p \in DOMAIN sIn => (sIn[p] = q <=> Taken + p = a + 1)
    BY DEF Marked, Mark, Taken
  <2>3. ASSUME Received + 1 < q
        PROVE  Len(toServer) <= a
    <3>1. q - 1 \in Nat /\ Received < q - 1
      BY <1>1, <2>3
    <3>2. z + ReqSize <= a
      BY <1>1, <3>1, Sizes, Multiples
    <3> HIDE DEF a, z
    <3> QED BY <1>1, <1>5, <3>2, Sizes
  <2>4. ASSUME q <= Received
        PROVE  a < Len(toServer)
    <3>1. Received # 0 /\ Received - 1 \in Nat /\ q - 1 \in Nat
      BY <1>1, <2>4
    <3>2. ReqSize * (Received - 1) < Len(toServer) /\ ReqSize * (Received - 1) \in Nat
      BY <1>3, <3>1, Sizes DEF Within
    <3>3. CASE q = Received
      BY <3>2, <3>3
    <3>4. CASE q # Received
      <4>1. q - 1 < Received - 1
        BY <1>1, <2>4, <3>4
      <4>2. a + ReqSize <= ReqSize * (Received - 1)
        BY <3>1, <4>1, Sizes, Multiples
      <4> HIDE DEF a
      <4> QED BY <1>1, <1>5, <3>2, <4>2, Sizes
    <3> QED BY <3>3, <3>4
  <2> HIDE DEF a, z
  <2>5. Taken \in Nat /\ Taken = Len(toServer) - Len(sIn)
    BY <1>1, <1>2 DEF Taken
  <2>6. ASSUME p \in DOMAIN sIn, Taken + p = a + 1
        PROVE  q <= Received + 1
    <3>1. a < Len(toServer)
      BY <1>1, <1>2, <1>5, <2>5, <2>6
    <3> QED BY <1>1, <1>5, <2>3, <3>1
  <2>7. ASSUME q <= Received + 1, Taken + p = a + 1
        PROVE  p \in DOMAIN sIn
    <3>1. a < Len(toServer)
      BY <1>1, <1>7, <2>4, <2>7
    <3> QED BY <1>1, <1>2, <1>5, <2>5, <2>7, <3>1
  <2> QED BY <2>1, <2>2, <2>6, <2>7 DEF a
<1> QED BY <1>6, <1>7

\* Each request is followed by the next after the body that its headers announce.
LEMMA FramedStreams ==
    ASSUME NEW b \in Nat, Shape(toServer, ReqSize, b), Marked(sIn, toServer, ReqSize)
    PROVE  SP!Framed /\ SP!InboxKnown
<1>1. /\ Received \in Nat /\ Missing \in Nat /\ Len(toServer) \in Nat
      /\ Len(Sent) = Received
      /\ \A k \in 1 .. Received : Sent[k].len = ReqSize - 1
  BY SentAre
<1>2. /\ sIn \in Seq(Nat) /\ Len(sIn) \in Nat /\ DOMAIN sIn = 1 .. Len(sIn)
      /\ Len(sIn) <= Len(toServer)
  BY DEF Marked
<1>3. \A i \in DOMAIN sIn : sIn[i] \in 0 .. Received
  <2>1. Len(toServer) <= ReqSize * Received
    BY Sizes, LogFacts DEF Received
  <2> QED BY <1>1, <2>1, Sizes, MarkedKnown
<1>4. ASSUME NEW i \in DOMAIN sIn, sIn[i] > 0
      PROVE  SP!StartsAt(i + Sent[sIn[i]].len + 1, sIn[i] + 1)
  <2> DEFINE q == sIn[i]
             a == ReqSize * (q - 1)
  <2>1. q \in Nat \ {0} /\ q \in 1 .. Received
    BY <1>1, <1>3, <1>4
  <2>2. Sent[q].len = ReqSize - 1
    BY <1>1, <2>1
  <2>3. Taken + i = a + 1
    BY <2>1 DEF Marked, Mark, Taken
  <2>4. a \in Nat /\ ReqSize * ((q + 1) - 1) = a + ReqSize
    <3>1. q - 1 \in Nat /\ q = (q - 1) + 1 /\ (q + 1) - 1 = q
      BY <2>1
    <3>2. ReqSize * ((q - 1) + 1) = ReqSize * (q - 1) + ReqSize /\ a \in Nat
      BY <3>1, Sizes
    <3> QED BY <3>1, <3>2
  <2>5. Taken \in Nat
    BY <1>1, <1>2 DEF Taken
  <2>6. q + 1 <= Received + 1 /\ q + 1 \in Nat \ {0}
    BY <1>1, <2>1
  <2> HIDE DEF q, a
  <2>7. i + Sent[q].len + 1 \in Nat \ {0} /\ Taken + (i + Sent[q].len + 1) = a + ReqSize + 1
    <3> DEFINE l == Sent[q].len
    <3>1. l = ReqSize - 1 /\ i \in Nat \ {0}
      BY <1>2, <2>2
    <3> HIDE DEF l
    <3>2. i + l + 1 \in Nat \ {0} /\ Taken + (i + l + 1) = a + ReqSize + 1
      BY <2>3, <2>4, <2>5, <3>1, Sizes
    <3> QED BY <3>2 DEF l
  <2>8. Starts
    BY StartsWhere
  <2>9. SP!StartsAt(i + Sent[q].len + 1, q + 1)
    BY <2>4, <2>6, <2>7, <2>8 DEF Starts
  <2> QED BY <2>9 DEF q
<1>5. SP!Framed
  BY <1>4 DEF SP!Framed
<1> QED BY <1>1, <1>3, <1>5 DEF SP!InboxKnown

\* All that the server's end has to know of the streams.
Seen(b) ==
    /\ Received \in Nat /\ Missing \in Nat /\ Len(toServer) \in Nat /\ Len(sIn) \in Nat
    /\ toServer \in Seq(Nat) /\ sIn \in Seq(Nat) /\ Taken \in Nat
    /\ Sent \in Seq([size : Nat, valid : BOOLEAN, len : Nat, close : BOOLEAN])
    /\ Len(Sent) = Received
    /\ \A k \in 1 .. Received : Sent[k].len = ReqSize - 1
    /\ DOMAIN Arrived = 1 .. Received /\ \A k \in 1 .. Received : Arrived[k] = b + k
    /\ Len(toServer) <= ReqSize * Received
    /\ Starts /\ SP!Framed /\ SP!InboxKnown

LEMMA ServerSees == \A b \in Nat : Streams(b) => Seen(b)
<1> SUFFICES ASSUME NEW b \in Nat, Streams(b)
             PROVE  Seen(b)
  OBVIOUS
<1>1. Shape(toServer, ReqSize, b) /\ Marked(sIn, toServer, ReqSize)
  BY DEF Streams
<1>2. Starts /\ SP!Framed /\ SP!InboxKnown
  BY <1>1, StartsWhere, FramedStreams
<1>3. sIn \in Seq(Nat) /\ Len(sIn) \in Nat /\ Len(sIn) <= Len(toServer)
  BY <1>1 DEF Marked
<1>4. /\ Received \in Nat /\ Missing \in Nat /\ Len(toServer) \in Nat
      /\ Sent \in Seq([size : Nat, valid : BOOLEAN, len : Nat, close : BOOLEAN])
      /\ Len(Sent) = Received
      /\ \A k \in 1 .. Received : Sent[k].len = ReqSize - 1
  BY <1>1, SentAre
<1>5. DOMAIN Arrived = 1 .. Received /\ \A k \in 1 .. Received : Arrived[k] = b + k
  BY <1>1, ArrivedAre DEF Received
<1>6. toServer \in Seq(Nat) /\ Len(toServer) <= ReqSize * Received
  BY <1>1, Sizes, LogFacts DEF Received
<1>7. Taken \in Nat
  BY <1>3, <1>4 DEF Taken
<1> QED BY <1>2, <1>3, <1>4, <1>5, <1>6, <1>7 DEF Seen

LEMMA ServerSeesNext == \A b \in Nat : Streams(b)' => Seen(b)'
<1>1. (\A b \in Nat : Streams(b) => Seen(b))'
  BY ServerSees, PTL
<1> QED BY <1>1

(* ----------------------- the steps of the two ends ---------------------- *)

\* What HttpConnection takes from the modules of the two ends is what their
\* proofs are about.
LEMMA ClientActsAre ==
    /\ Client!Program => CP!Program
    /\ Client!Resolved => CP!Resolved
    /\ Client!Connected => CP!Connected
    /\ Client!ConnectFails => CP!ConnectFails
    /\ Client!TimerExpires => CP!TimerExpires
<1> USE DEF Client!Request, CP!Request, Client!OnConnected, CP!OnConnected,
            Client!AsyncRequest, CP!AsyncRequest, Client!DoWrite, CP!DoWrite,
            Client!Failure, CP!Failure, Client!StartIo, CP!StartIo, Client!StartTimer,
            CP!StartTimer, Client!CanExpire, CP!CanExpire, Client!Expire, CP!Expire,
            Client!Queued, CP!Queued
<1>1. Client!Program => CP!Program
  BY Zenon DEF Client!Program, CP!Program
<1>2. Client!Resolved => CP!Resolved
  BY Zenon DEF Client!Resolved, CP!Resolved
<1>3. Client!Connected => CP!Connected
  BY Zenon DEF Client!Connected, CP!Connected
<1>4. Client!ConnectFails => CP!ConnectFails
  BY Zenon DEF Client!ConnectFails, CP!ConnectFails
<1>5. Client!TimerExpires => CP!TimerExpires
  BY Zenon DEF Client!TimerExpires, CP!TimerExpires
<1> QED BY <1>1, <1>2, <1>3, <1>4, <1>5

LEMMA ClientIoIs ==
    ASSUME NEW i
    PROVE  /\ Client!HeadersArrive(i) => CP!HeadersArrive(i)
           /\ Client!BodyArrives(i) => CP!BodyArrives(i)
           /\ Client!WriteSome(i) => CP!WriteSome(i)
           /\ Client!IoFails(i) => CP!IoFails(i)
<1> USE DEF Client!FitsBuffer, CP!FitsBuffer, Client!Complete, CP!Complete
<1>1. Client!HeadersArrive(i) => CP!HeadersArrive(i)
  BY Zenon DEF Client!HeadersArrive, CP!HeadersArrive
<1>2. Client!BodyArrives(i) => CP!BodyArrives(i)
  BY Zenon DEF Client!BodyArrives, CP!BodyArrives
<1>3. Client!WriteSome(i) => CP!WriteSome(i)
  BY Zenon DEF Client!WriteSome, CP!WriteSome
<1>4. Client!IoFails(i) => CP!IoFails(i)
  BY Zenon DEF Client!IoFails, CP!IoFails
<1> QED BY <1>1, <1>2, <1>3, <1>4

LEMMA ClientHandlerIs == Client!Handler => CP!Handler
<1> USE DEF Client!Runs, CP!Runs, Client!Op, CP!Op, Client!Finish, CP!Finish,
            Client!Started, CP!Started, Client!Running, CP!Running, Client!CancelTimer,
            CP!CancelTimer, Client!Pop, CP!Pop, Client!HeadersUsable, CP!HeadersUsable,
            Client!OnError, CP!OnError, Client!Shutdown, CP!Shutdown, Client!Call,
            CP!Call, Client!Failure, CP!Failure, Client!AsyncRequest, CP!AsyncRequest,
            Client!DoWrite, CP!DoWrite, Client!StartIo, CP!StartIo, Client!StartTimer,
            CP!StartTimer, Client!DoRemainingRead, CP!DoRemainingRead,
            Client!OnMessageParsed, CP!OnMessageParsed, Client!OnWriteComplete,
            CP!OnWriteComplete, Client!DoRead, CP!DoRead
<1>1. Client!HeadersAborted => CP!HeadersAborted
  BY Zenon DEF Client!HeadersAborted, CP!HeadersAborted
<1>2. Client!HeadersRejected => CP!HeadersRejected
  BY Zenon DEF Client!HeadersRejected, CP!HeadersRejected
<1>3. Client!HeadersNeedBody => CP!HeadersNeedBody
  BY Zenon DEF Client!HeadersNeedBody, CP!HeadersNeedBody
<1>4. Client!HeadersComplete => CP!HeadersComplete
  BY Zenon DEF Client!HeadersComplete, CP!HeadersComplete
<1>5. Client!BodyFailed => CP!BodyFailed
  BY Zenon DEF Client!BodyFailed, CP!BodyFailed
<1>6. Client!BodyComplete => CP!BodyComplete
  BY Zenon DEF Client!BodyComplete, CP!BodyComplete
<1>7. Client!WriteFailed => CP!WriteFailed
  BY Zenon DEF Client!WriteFailed, CP!WriteFailed
<1>8. Client!WriteDone => CP!WriteDone
  BY Zenon DEF Client!WriteDone, CP!WriteDone
<1>9. Client!TimerFired => CP!TimerFired
  BY Zenon DEF Client!TimerFired, CP!TimerFired
<1> QED BY <1>1, <1>2, <1>3, <1>4, <1>5, <1>6, <1>7, <1>8, <1>9 DEF Client!Handler, CP!Handler

LEMMA ServerIoIs ==
    ASSUME NEW i, UNCHANGED Missing
    PROVE  /\ Server!HeadersArrive(i) => SP!HeadersArrive(i)
           /\ Server!BodyArrives(i) => SP!BodyArrives(i)
           /\ Server!WriteSome(i) => SP!WriteSome(i)
           /\ Server!IoFails(i) => SP!IoFails(i)
<1> USE DEF Server!FitsBuffer, SP!FitsBuffer, Server!Complete, SP!Complete
<1>1. Server!HeadersArrive(i) => SP!HeadersArrive(i)
  BY Zenon DEF Server!HeadersArrive, SP!HeadersArrive
<1>2. Server!BodyArrives(i) => SP!BodyArrives(i)
  BY Zenon DEF Server!BodyArrives, SP!BodyArrives
<1>3. Server!WriteSome(i) => SP!WriteSome(i)
  BY Zenon DEF Server!WriteSome, SP!WriteSome
<1>4. Server!IoFails(i) => SP!IoFails(i)
  BY Zenon DEF Server!IoFails, SP!IoFails
<1> QED BY <1>1, <1>2, <1>3, <1>4

LEMMA ServerTimerIs ==
    ASSUME UNCHANGED Missing
    PROVE  /\ Server!TimerExpires => SP!TimerExpires
<1> USE DEF Server!CanExpire, SP!CanExpire, Server!Expire, SP!Expire, Server!Queued,
            SP!Queued
<1>1. Server!TimerExpires => SP!TimerExpires
  BY Zenon DEF Server!TimerExpires, SP!TimerExpires
<1> QED BY <1>1

LEMMA ServerHandlerIs == ASSUME UNCHANGED Missing, Server!Handler PROVE SP!Handler
<1> USE DEF Server!Running, SP!Running, Server!CancelTimer, SP!CancelTimer, Server!Pop,
            SP!Pop, Server!HeadersUsable, SP!HeadersUsable, Server!OnError, SP!OnError,
            Server!Shutdown, SP!Shutdown, Server!DoRemainingRead, SP!DoRemainingRead,
            Server!StartIo, SP!StartIo, Server!StartTimer, SP!StartTimer,
            Server!OnMessageParsed, SP!OnMessageParsed, Server!DoWrite, SP!DoWrite,
            Server!OnWriteComplete, SP!OnWriteComplete, Server!DoRead, SP!DoRead
<1>1. Server!HeadersAborted => SP!HeadersAborted
  BY Zenon DEF Server!HeadersAborted, SP!HeadersAborted
<1>2. Server!HeadersRejected => SP!HeadersRejected
  BY Zenon DEF Server!HeadersRejected, SP!HeadersRejected
<1>3. Server!HeadersNeedBody => SP!HeadersNeedBody
  BY Zenon DEF Server!HeadersNeedBody, SP!HeadersNeedBody
<1>4. Server!HeadersComplete => SP!HeadersComplete
  BY Zenon DEF Server!HeadersComplete, SP!HeadersComplete
<1>5. Server!BodyFailed => SP!BodyFailed
  BY Zenon DEF Server!BodyFailed, SP!BodyFailed
<1>6. Server!BodyComplete => SP!BodyComplete
  BY Zenon DEF Server!BodyComplete, SP!BodyComplete
<1>7. Server!WriteFailed => SP!WriteFailed
  BY Zenon DEF Server!WriteFailed, SP!WriteFailed
<1>8. Server!WriteDone => SP!WriteDone
  BY Zenon DEF Server!WriteDone, SP!WriteDone
<1>9. Server!TimerFired => SP!TimerFired
  BY Zenon DEF Server!TimerFired, SP!TimerFired
<1> QED BY <1>1, <1>2, <1>3, <1>4, <1>5, <1>6, <1>7, <1>8, <1>9 DEF Server!Handler, SP!Handler

(* ----------------------------- the invariant ---------------------------- *)

Handled == Len(dispatched)

\* The requests for which the connection was open when they were made.
Asked(b) == c.issued - b

Counts(b) ==
    /\ b <= c.issued /\ c.issued <= MaxRequests
    /\ c.callback # 0 => c.callback = c.issued /\ b < c.issued
    /\ Len(toServer) <= ReqSize * Asked(b)
    /\ ReqSize * Handled <= Len(toServer)
    /\ Len(toClient) <= RespSize * Handled
    /\ closedAt \in b .. MaxRequests
    /\ s.open => closedAt = MaxRequests
    /\ Len(toClient) <= RespSize * (closedAt - b)

\* Where an operation that is under way stands in the streams, for request k of
\* the connection, and where one that succeeded does.
Placed(op, k) ==
    /\ op.kind = "write" =>
         /\ op.msg = c.callback /\ op.n <= ReqSize
         /\ Len(toServer) + op.n = ReqSize * k /\ Got = RespSize * (k - 1)
    /\ op.kind = "headers" => Len(toServer) = ReqSize * k /\ Got = RespSize * (k - 1)
    /\ op.kind = "body" =>
         op.msg = k /\ Len(toServer) = ReqSize * k /\ Got + op.n = RespSize * k

Finished(op, k) ==
    /\ op.kind = "write" => Len(toServer) = ReqSize * k /\ Got = RespSize * (k - 1)
    /\ op.kind = "headers" =>
         op.msg = k /\ Len(toServer) = ReqSize * k /\ Got = RespSize * (k - 1) + 1 + op.n
    /\ op.kind = "body" => op.msg = k /\ Len(toServer) = ReqSize * k /\ Got = RespSize * k

\* While the client's session is open, its only operation is for its last
\* request, and when there is none all that it asked for was answered.
InPlace(b) ==
    c.s.open =>
        /\ \A i \in DOMAIN c.s.pending : Placed(c.s.pending[i], Asked(b))
        /\ \A i \in DOMAIN c.s.ready :
             c.s.ready[i].ec = "ok" => Finished(c.s.ready[i], Asked(b))
        /\ c.callback = 0 => Len(toServer) = ReqSize * Asked(b) /\ Got = RespSize * Asked(b)

\* A request that succeeded was answered by the response of its own number, to
\* its last unit.
Answered(b) ==
    \A i \in DOMAIN c.answers :
        c.answers[i].result = "ok" =>
            /\ c.answers[i].req = b + c.answers[i].reply
            /\ c.answers[i].reply > 0
            /\ RespSize * c.answers[i].reply <= Len(toClient)

Joint(b) == Streams(b) /\ Counts(b) /\ InPlace(b) /\ Answered(b)

\* Before the server accepts, it has neither read nor written; before the client
\* connects, nothing happens at all.
Before ==
    /\ ~accepted =>
         /\ s = SP!NewSession(FALSE) /\ dispatched = <<>> /\ toClient = <<>>
         /\ cIn = <<>> /\ Len(sIn) = Len(toServer) /\ closedAt = MaxRequests
    /\ conn \in {"off", "resolving"} => ~accepted /\ toServer = <<>> /\ sIn = <<>>

Ends == CP!IInv /\ SP!IInv /\ SP!Ordered

IInv == Ends /\ Before /\ \E b \in Nat : Joint(b)

\* What the client knows of the responses.
Replied(b) ==
    /\ Replies \in Seq([to : Nat, size : Nat, valid : BOOLEAN, len : Nat, close : BOOLEAN])
    /\ Len(Replies) = Handled /\ Handled \in Nat
    /\ \A i \in 1 .. Handled :
         /\ Arrived[dispatched[i].msg] = b + i
         /\ Replies[i].to = b + i /\ Replies[i].len = RespSize - 1
    /\ CP!StreamsOK

Orderly ==
    /\ dispatched \in Seq([msg : Nat, keep : BOOLEAN])
    /\ SP!EachRequestOnce
    /\ Handled <= Received
    /\ Len(toClient) <= RespSize * Handled

LEMMA ClientSees == \A b \in Nat : Streams(b) /\ Orderly => Replied(b)
<1> SUFFICES ASSUME NEW b \in Nat, Streams(b), Orderly
             PROVE  Replied(b)
  OBVIOUS
<1>1. /\ Shape(toServer, ReqSize, b) /\ Shape(toClient, RespSize, 0)
      /\ Marked(cIn, toClient, RespSize)
  BY DEF Streams
<1>2. \A i \in DOMAIN dispatched : dispatched[i].msg = i
  BY DEF Orderly, SP!EachRequestOnce
<1>3. Handled \in Nat /\ DOMAIN dispatched = 1 .. Handled
  BY DEF Orderly, Handled
<1>4. /\ Replies \in Seq([to : Nat, size : Nat, valid : BOOLEAN, len : Nat, close : BOOLEAN])
      /\ Len(Replies) = Handled
      /\ \A i \in 1 .. Handled :
           /\ Arrived[dispatched[i].msg] = b + i
           /\ Replies[i].to = b + i /\ Replies[i].len = RespSize - 1
  BY <1>1, <1>2, <1>3, RepliesAre DEF Orderly, Handled
<1>5. \A i \in DOMAIN cIn : cIn[i] \in 0 .. Handled
  <2>1. Len(toClient) \in Nat
    BY <1>1 DEF Shape
  <2> QED BY <1>1, <1>3, <2>1, Sizes, MarkedKnown DEF Orderly
<1>6. CP!StreamsOK
  <2>1. toServer \in Seq(Nat) /\ cIn \in Seq(Nat)
    BY <1>1 DEF Shape, Marked
  <2> QED BY <1>4, <1>5, <2>1 DEF CP!StreamsOK, CP!Replies
<1> QED BY <1>3, <1>4, <1>6 DEF Replied

LEMMA ClientSeesNext == \A b \in Nat : Streams(b)' /\ Orderly' => Replied(b)'
<1>1. (\A b \in Nat : Streams(b) /\ Orderly => Replied(b))'
  BY ClientSees, PTL
<1> QED BY <1>1

\* The numbers of a state, and how far the server can be.
LEMMA Facts ==
    ASSUME NEW b \in Nat, Ends, Joint(b)
    PROVE  /\ Seen(b) /\ Orderly /\ Replied(b)
           /\ c \in CP!Clients /\ c.issued \in Nat /\ c.callback \in Nat /\ Asked(b) \in Nat
           /\ Len(toClient) \in Nat /\ Len(cIn) \in Nat /\ Len(cIn) <= Len(toClient) /\ Got \in Nat
           /\ toClient \in Seq(Nat) /\ closedAt \in Nat
           /\ Handled <= Asked(b)
<1>1. Seen(b)
  BY ServerSees DEF Joint
<1>2. c \in CP!Clients /\ c.issued \in Nat /\ c.callback \in Nat
  BY DEF Ends, CP!IInv, CP!Good, CP!Stable, CP!Clients
<1>3. Asked(b) \in Nat
  BY <1>2 DEF Asked, Joint, Counts
<1>4. /\ Len(toClient) \in Nat /\ Len(cIn) \in Nat /\ Len(cIn) <= Len(toClient)
      /\ toClient \in Seq(Nat) /\ Got \in Nat
  <2>1. toClient \in Seq(Nat) /\ cIn \in Seq(Nat) /\ Len(cIn) <= Len(toClient)
    BY DEF Joint, Streams, Shape, Marked
  <2> QED BY <2>1 DEF Got
<1>5. /\ dispatched \in Seq([msg : Nat, keep : BOOLEAN]) /\ Handled \in Nat
      /\ SP!EachRequestOnce
  BY DEF Ends, SP!IInv, SP!TypeOK, SP!Ordered, Handled
<1>6. ReqSize * Handled <= Len(toServer) /\ Len(toServer) <= ReqSize * Asked(b)
  BY DEF Joint, Counts
<1>7. Len(toServer) \in Nat /\ Received \in Nat /\ Len(toServer) <= ReqSize * Received
  BY <1>1 DEF Seen
<1>8. Handled <= Received /\ Handled <= Asked(b)
  <2> DEFINE x == ReqSize * Handled
             y == ReqSize * Received
             z == ReqSize * Asked(b)
  <2>1. x \in Nat /\ y \in Nat /\ z \in Nat
    BY <1>3, <1>5, <1>7, Sizes
  <2>2. x <= Len(toServer) /\ Len(toServer) <= y /\ Len(toServer) <= z
    BY <1>6, <1>7
  <2> HIDE DEF x, y, z
  <2>3. x <= y /\ x <= z
    BY <1>7, <2>1, <2>2
  <2> QED BY <1>3, <1>5, <1>7, <2>3, Sizes, Cancel DEF x, y, z
<1>9. Orderly
  BY <1>5, <1>8 DEF Orderly, Joint, Counts
<1>10. Replied(b)
  BY <1>9, ClientSees DEF Joint
<1>11. closedAt \in Nat
  BY DEF Joint, Counts
<1> QED BY <1>1, <1>2, <1>3, <1>4, <1>8, <1>9, <1>10, <1>11

(* --------------------------- what a step leaves ------------------------- *)

LEMMA LogStays ==
    ASSUME UNCHANGED toServer
    PROVE  /\ UNCHANGED <<Arrived, Received, Missing>>
           /\ UNCHANGED closing => UNCHANGED Sent
           /\ UNCHANGED dispatched => UNCHANGED Replies
<1>1. UNCHANGED <<Arrived, Received, Missing>>
  BY DEF Arrived, Received, Missing, Messages, Begins
<1> QED BY <1>1 DEF Sent, Replies

LEMMA ServerStays ==
    ASSUME SP!IInv, SP!Ordered,
           UNCHANGED <<s, dispatched, toClient, sIn, toServer, closing>>
    PROVE  SP!IInv' /\ SP!Ordered'
<1>1. UNCHANGED SP!vars
  BY LogStays DEF SP!vars
<1> QED BY <1>1, ServerParameters, SP!NextInv, SP!NextOrdered

LEMMA ClientStays ==
    ASSUME CP!IInv, UNCHANGED <<c, conn, escaped, toServer, cIn, dispatched>>
    PROVE  CP!IInv'
<1>1. UNCHANGED CP!vars
  BY LogStays DEF CP!vars
<1> QED BY <1>1, ClientParameters, CP!NextInv

\* A step that the client does not notice leaves its operation where it is.
LEMMA PlacesStay ==
    ASSUME NEW b \in Nat, InPlace(b), UNCHANGED c,
           Len(toServer') = Len(toServer), Got' = Got
    PROVE  InPlace(b)'
BY DEF InPlace, Placed, Finished, Asked

LEMMA AnswersStay ==
    ASSUME NEW b \in Nat, Ends, Answered(b), UNCHANGED c,
           Len(toClient) \in Nat, Len(toClient') \in Nat, Len(toClient) <= Len(toClient')
    PROVE  Answered(b)'
<1> SUFFICES ASSUME NEW i \in DOMAIN c.answers, c.answers[i].result = "ok"
             PROVE  /\ c.answers[i].req = b + c.answers[i].reply
                    /\ c.answers[i].reply > 0
                    /\ RespSize * c.answers[i].reply <= Len(toClient')
  BY DEF Answered
<1> DEFINE x == RespSize * c.answers[i].reply
<1>1. c.answers[i].reply \in Nat
  <2>1. c \in CP!Clients
    BY DEF Ends, CP!IInv, CP!Good, CP!Stable
  <2>2. c.answers \in Seq(CP!Answers)
    BY <2>1 DEF CP!Clients
  <2>3. c.answers[i] \in CP!Answers
    BY <2>2
  <2> QED BY <2>3 DEF CP!Answers
<1>2. x \in Nat
  BY <1>1, Sizes
<1>3. c.answers[i].req = b + c.answers[i].reply /\ c.answers[i].reply > 0 /\ x <= Len(toClient)
  BY DEF Answered
<1> HIDE DEF x
<1>4. x <= Len(toClient')
  BY <1>2, <1>3
<1> QED BY <1>3, <1>4 DEF x

(* ---------------------------- the initial state ------------------------- *)

LEMMA NothingYet ==
    ASSUME NEW r \in Nat \ {0}, NEW b \in Nat
    PROVE  Shape(<<>>, r, b) /\ Marked(<<>>, <<>>, r)
<1>1. <<>> \in Seq(Nat) /\ Len(<<>>) = 0 /\ DOMAIN <<>> = {}
  OBVIOUS
<1> QED BY <1>1 DEF Shape, Marked

LEMMA InitInv == Init => IInv
<1> SUFFICES ASSUME Init PROVE IInv
  OBVIOUS
<1>1. /\ toServer = <<>> /\ toClient = <<>> /\ sIn = <<>> /\ cIn = <<>>
      /\ dispatched = <<>> /\ accepted = FALSE /\ closedAt = MaxRequests
      /\ Client!Init
  BY DEF Init, Client!Init
<1>2. CP!IInv
  <2>1. CP!Init
    BY <1>1, Zenon DEF Client!Init, CP!Init, Client!NewSession, CP!NewSession
  <2> QED BY <2>1, ClientParameters, CP!InitInv
<1>3. s = SP!NewSession(FALSE)
  BY DEF Init, Server!NewSession, SP!NewSession
<1>4. Len(toServer) = 0 /\ Len(toClient) = 0 /\ Len(sIn) = 0 /\ Len(cIn) = 0 /\ Handled = 0
  BY <1>1 DEF Handled
<1>5. Streams(0)
  BY <1>1, Sizes, NothingYet DEF Streams
<1>6. Seen(0)
  BY <1>5, ServerSees
<1>7. c.issued = 0 /\ c.callback = 0 /\ c.answers = <<>> /\ c.s.pending = <<>> /\ c.s.ready = <<>>
  BY <1>1 DEF Client!Init, Client!NewSession
<1>8. Joint(0)
  <2>1. ReqSize * 0 = 0 /\ RespSize * 0 = 0 /\ Asked(0) = 0 /\ Got = 0
    BY <1>4, <1>7, Sizes DEF Asked, Got
  <2>2. Counts(0)
    <3>1. RespSize * (closedAt - 0) \in Nat
      BY <1>1, Sizes
    <3> QED BY <1>1, <1>4, <1>7, <2>1, <3>1, Sizes DEF Counts
  <2>3. InPlace(0) /\ Answered(0)
    BY <1>4, <1>7, <2>1 DEF InPlace, Answered
  <2> QED BY <1>5, <2>2, <2>3 DEF Joint
<1>9. SP!IInv
  <2>1. SP!Idle(s) /\ ~s.open /\ s \in SP!Sessions
    BY <1>3, ServerParameters, SP!NewSessionIdle DEF SP!NewSession, SP!Idle
  <2>2. SP!Sound(s)
    BY <2>1, ServerParameters, SP!IdleFacts
  <2>3. SP!Known(s, Len(Sent))
    <3>1. Len(Sent) \in Nat
      BY <1>6 DEF Seen
    <3> QED BY <2>1, <3>1, ServerParameters, SP!IdleGood
  <2>4. SP!LastCloses(dispatched) = FALSE
    BY <1>1 DEF SP!LastCloses
  <2>5. SP!Good(s, Len(Sent), SP!LastCloses(dispatched))
    BY <2>2, <2>3, <2>4 DEF SP!Good
  <2>6. SP!TypeOK
    BY <1>1, <1>6, <2>1 DEF SP!TypeOK, Seen
  <2>7. SP!NothingAfterClose /\ SP!InboxKnown
    BY <1>1 DEF SP!NothingAfterClose, SP!InboxKnown
  <2> QED BY <2>5, <2>6, <2>7 DEF SP!IInv
<1>10. SP!Ordered
  <2>1. s.pending = <<>> /\ s.ready = <<>>
    BY <1>3 DEF SP!NewSession
  <2>2. SP!InPlace
    BY <2>1 DEF SP!InPlace
  <2>3. SP!Written
    <3>1. SP!Handled = 0 /\ RespSize * 0 = 0
      BY <1>1, Sizes DEF SP!Handled
    <3> QED BY <1>1, <1>4, <3>1 DEF SP!Written
  <2>4. SP!EachRequestOnce
    BY <1>1 DEF SP!EachRequestOnce
  <2>5. SP!Framed
    BY <1>6 DEF Seen
  <2> QED BY <2>2, <2>3, <2>4, <2>5 DEF SP!Ordered
<1>11. Before
  BY <1>1, <1>3, <1>4 DEF Before
<1> QED BY <1>2, <1>8, <1>9, <1>10, <1>11 DEF IInv, Ends

(* ------------------------- the steps of the server ---------------------- *)

\* A session that does something was accepted.
LEMMA BusyIsAccepted ==
    ASSUME Before, s.open \/ s.pending # <<>> \/ s.ready # <<>> \/ s.timer # 0
    PROVE  accepted /\ conn \notin {"off", "resolving"}
BY DEF Before, SP!NewSession

\* A step of the server by itself: it takes of its stream, or runs a handler
\* that dispatches nothing.
LEMMA ServerStep ==
    ASSUME IInv, UNCHANGED <<client, accepted, closing, toClient, dispatched>>,
           accepted, conn \notin {"off", "resolving"},
           SP!IInv' /\ SP!Ordered', Marked(sIn', toServer, ReqSize),
           s'.open => s.open /\ closedAt' = closedAt,
           closedAt' = closedAt \/ (s.open /\ closedAt' = c.issued)
    PROVE  IInv'
<1> USE DEF client
<1>1. PICK b \in Nat : Joint(b)
  BY DEF IInv
<1>2. CP!IInv'
  BY ClientStays DEF IInv, Ends
<1>3. Streams(b)'
  BY <1>1 DEF Joint, Streams
<1>4. Got' = Got /\ Handled' = Handled /\ Len(toServer') = Len(toServer) /\ Asked(b)' = Asked(b)
  BY DEF Got, Handled, Asked
<1>5. InPlace(b)' /\ Answered(b)'
  <2>1. Len(toClient) \in Nat
    BY <1>1, Facts DEF IInv
  <2> QED BY <1>1, <1>4, <2>1, PlacesStay, AnswersStay DEF IInv, Joint
<1>6. Counts(b)'
  <2>1. CASE closedAt' = closedAt
    BY <1>1, <1>4, <2>1 DEF Joint, Counts
  <2>2. CASE closedAt' = c.issued /\ ~s'.open
    <3>1. Handled \in Nat /\ Asked(b) \in Nat /\ Handled <= Asked(b) /\ Len(toClient) \in Nat
      BY <1>1, Facts DEF IInv, Replied
    <3>2. Len(toClient) <= RespSize * Asked(b)
      <4> DEFINE x == RespSize * Handled
                 y == RespSize * Asked(b)
      <4>1. x \in Nat /\ y \in Nat /\ x <= y
        BY <3>1, Sizes, Grows
      <4>2. Len(toClient) <= x
        BY <1>1 DEF Joint, Counts
      <4> HIDE DEF x, y
      <4>3. Len(toClient) <= y
        BY <3>1, <4>1, <4>2
      <4> QED BY <4>3 DEF y
    <3>3. closedAt' - b = Asked(b) /\ closedAt' \in b .. MaxRequests
      <4>1. c.issued \in Nat /\ b <= c.issued /\ c.issued <= MaxRequests
        BY <1>1, Facts DEF IInv, Joint, Counts
      <4> QED BY <2>2, <4>1, Sizes DEF Asked
    <3>4. /\ b <= c.issued /\ c.issued <= MaxRequests
          /\ c.callback # 0 => c.callback = c.issued /\ b < c.issued
          /\ Len(toServer) <= ReqSize * Asked(b)
          /\ ReqSize * Handled <= Len(toServer)
          /\ Len(toClient) <= RespSize * Handled
      BY <1>1 DEF Joint, Counts
    <3> QED BY <1>4, <2>2, <3>2, <3>3, <3>4 DEF Counts
  <2> QED BY <2>1, <2>2
<1>7. Before'
  BY DEF Before
<1> QED BY <1>2, <1>3, <1>5, <1>6, <1>7 DEF IInv, Ends, Joint

LEMMA ServerReceivesInv == ASSUME IInv, ServerReceives PROVE IInv'
<1>1. UNCHANGED <<client, accepted, closing, closedAt>>
  BY DEF ServerReceives
<1>2. PICK i \in DOMAIN s.pending :
        Server!HeadersArrive(i) \/ Server!BodyArrives(i) \/ Server!IoFails(i)
  BY DEF ServerReceives
<1>3. UNCHANGED <<Missing, Sent>>
  BY <1>1, LogStays DEF client
<1>4. SP!HeadersArrive(i) \/ SP!BodyArrives(i) \/ SP!IoFails(i)
  BY <1>2, <1>3, ServerIoIs
<1>5. SP!System
  BY <1>4 DEF SP!System
<1>6. SP!IInv' /\ SP!Ordered'
  BY <1>5, ServerParameters, SP!SystemInv, SP!SystemOrdered DEF IInv, Ends
<1>7. s.open /\ s'.open
  BY <1>4, ServerParameters, SP!SystemEffect DEF IInv, Ends
<1>8. UNCHANGED <<toClient, dispatched>>
  BY <1>4 DEF SP!HeadersArrive, SP!BodyArrives, SP!IoFails
<1>9. Marked(sIn', toServer, ReqSize)
  <2>1. PICK b \in Nat : Joint(b)
    BY DEF IInv
  <2>2. Marked(sIn, toServer, ReqSize) /\ Len(toServer) \in Nat /\ Len(sIn) \in Nat
    BY <2>1, Facts DEF IInv, Joint, Streams, Seen
  <2>3. sIn' = sIn \/ \E k \in Nat : k <= Len(sIn) /\ sIn' = SubSeq(sIn, k + 1, Len(sIn))
    <3>1. CASE SP!HeadersArrive(i)
      <4>1. PICK k \in 0 .. Len(sIn) - 1 : sIn' = SubSeq(sIn, k + 2, Len(sIn))
        BY <3>1 DEF SP!HeadersArrive
      <4>2. k + 1 \in Nat /\ k + 1 <= Len(sIn) /\ k + 2 = (k + 1) + 1
        BY <2>2, <4>1
      <4>3. sIn' = SubSeq(sIn, (k + 1) + 1, Len(sIn))
        BY <4>1, <4>2
      <4> QED BY <4>2, <4>3
    <3>2. CASE SP!BodyArrives(i)
      <4>1. s.pending[i].n \in Nat
        BY <1>7, ServerParameters, SP!OpFacts DEF IInv, Ends, SP!IoOps
      <4> QED BY <3>2, <4>1 DEF SP!BodyArrives
    <3>3. CASE SP!IoFails(i)
      BY <3>3 DEF SP!IoFails
    <3> QED BY <1>4, <3>1, <3>2, <3>3
  <2>4. ASSUME NEW rest, NEW k \in Nat, k <= Len(sIn), rest = SubSeq(sIn, k + 1, Len(sIn))
        PROVE  Marked(rest, toServer, ReqSize)
    BY <2>2, <2>4, MarkedRest
  <2> QED BY <2>2, <2>3, <2>4
<1>10. accepted /\ conn \notin {"off", "resolving"}
  BY <1>7, BusyIsAccepted DEF IInv
<1> QED BY <1>1, <1>6, <1>7, <1>8, <1>9, <1>10, ServerStep

LEMMA ServerTimerInv == ASSUME IInv, ServerTimerExpires PROVE IInv'
<1>1. UNCHANGED <<client, accepted, closing, closedAt>> /\ Server!TimerExpires
  BY DEF ServerTimerExpires
<1>2. UNCHANGED <<Missing, Sent>>
  BY <1>1, LogStays DEF client
<1>3. SP!TimerExpires
  BY <1>1, <1>2, ServerTimerIs
<1>4. SP!IInv' /\ SP!Ordered'
  <2>1. SP!System
    BY <1>3 DEF SP!System
  <2> QED BY <2>1, ServerParameters, SP!SystemInv, SP!SystemOrdered DEF IInv, Ends
<1>5. s.timer # 0 /\ s' = SP!Expire(s) /\ UNCHANGED <<sIn, toClient, dispatched>>
  BY <1>3 DEF SP!TimerExpires, SP!CanExpire
<1>6. s'.open = s.open
  <2>1. s \in SP!Sessions
    BY DEF IInv, Ends, SP!IInv, SP!TypeOK
  <2> QED BY <1>5, <2>1, ServerParameters, SP!ExpireOps
<1>7. Marked(sIn', toServer, ReqSize)
  BY <1>5 DEF IInv, Joint, Streams
<1>8. accepted /\ conn \notin {"off", "resolving"}
  BY <1>5, BusyIsAccepted DEF IInv
<1> QED BY <1>1, <1>4, <1>5, <1>6, <1>7, <1>8, ServerStep

\* A request is dispatched when the whole of it was taken.
LEMMA DispatchInv ==
    ASSUME IInv, UNCHANGED <<client, accepted, closing, closedAt, toClient, sIn>>,
           accepted, conn \notin {"off", "resolving"},
           SP!IInv' /\ SP!Ordered', SP!Dispatches, s'.open = s.open
    PROVE  IInv'
<1> USE DEF client
<1>1. PICK b \in Nat : Joint(b)
  BY DEF IInv
<1>2. /\ Seen(b) /\ Handled \in Nat /\ Len(toServer) \in Nat /\ Len(toClient) \in Nat
      /\ Received \in Nat /\ Taken \in Nat /\ Len(sIn) \in Nat
      /\ dispatched \in Seq([msg : Nat, keep : BOOLEAN])
      /\ Len(Replies) = Handled
  BY <1>1, Facts DEF IInv, Replied, Seen, Orderly
<1>3. Handled' = Handled + 1
  BY <1>2 DEF SP!Dispatches, Handled
<1>4. Handled + 1 <= Received /\ Taken = ReqSize * (Handled + 1)
  <2>1. SP!StartsAt(1, Handled + 2)
    BY DEF SP!Dispatches, Handled, SP!Handled
  <2>2. 1 \in Nat \ {0} /\ Handled + 2 \in Nat \ {0} /\ (Handled + 2) - 1 = Handled + 1
    BY <1>2
  <2>3. Handled + 2 <= Received + 1 /\ Taken + 1 = ReqSize * ((Handled + 2) - 1) + 1
    BY <1>2, <2>1, <2>2 DEF Seen, Starts
  <2> DEFINE x == ReqSize * (Handled + 1)
  <2>4. Taken + 1 = x + 1 /\ x \in Nat
    BY <1>2, <2>2, <2>3, Sizes
  <2> HIDE DEF x
  <2>5. Taken = x
    BY <1>2, <2>4
  <2> QED BY <1>2, <2>3, <2>5 DEF x
<1>5. Streams(b)'
  BY <1>1 DEF Joint, Streams
<1>6. Counts(b)'
  <2>1. ReqSize * (Handled + 1) <= Len(toServer)
    <3>1. Taken <= Len(toServer)
      BY <1>2 DEF Taken
    <3> QED BY <1>4, <3>1
  <2>2. Len(toClient) <= RespSize * (Handled + 1)
    <3> DEFINE x == RespSize * Handled
    <3>1. x \in Nat /\ RespSize * (Handled + 1) = x + RespSize
      BY <1>2, Sizes
    <3>2. Len(toClient) <= x
      BY <1>1 DEF Joint, Counts
    <3> HIDE DEF x
    <3> QED BY <1>2, <3>1, <3>2, Sizes
  <2> QED BY <1>1, <1>3, <2>1, <2>2 DEF Joint, Counts, Asked
<1>7. Got' = Got /\ Len(toServer') = Len(toServer)
  BY DEF Got
<1>8. InPlace(b)' /\ Answered(b)'
  BY <1>1, <1>2, <1>7, PlacesStay, AnswersStay DEF IInv, Joint
<1>9. CP!IInv'
  <2>1. Orderly'
    <3>1. Received' = Received
      BY LogStays
    <3> QED BY <1>3, <1>4, <1>6, <3>1 DEF Orderly, Ends, SP!IInv, SP!TypeOK, SP!Ordered, Counts
  <2>2. Replied(b)'
    BY <1>5, <2>1, ClientSeesNext
  <2>3. Len(Replies') = Handled + 1 /\ CP!StreamsOK'
    BY <1>3, <2>2 DEF Replied
  <2>4. CP!Good(c, Handled + 1)
    <3>1. CP!Good(c, Handled) /\ Handled + 1 \in Nat /\ Handled <= Handled + 1
      BY <1>2 DEF IInv, Ends, CP!IInv
    <3> QED BY <1>2, <3>1, ClientParameters, CP!GoodMonotonic
  <2>5. CP!Good(c, Len(Replies))'
    <3>1. ASSUME NEW n, n = Len(Replies') PROVE CP!Good(c', n)
      BY <2>3, <2>4, <3>1
    <3> QED BY <3>1
  <2>6. CP!Unconnected'
    BY DEF IInv, Ends, CP!IInv, CP!Unconnected
  <2> QED BY <2>3, <2>5, <2>6 DEF CP!IInv
<1>10. Before'
  BY DEF Before
<1> QED BY <1>5, <1>6, <1>8, <1>9, <1>10 DEF IInv, Ends, Joint

LEMMA ServerHandlesInv == ASSUME IInv, ServerHandles PROVE IInv'
<1>1. /\ UNCHANGED <<client, accepted, closing>> /\ UNCHANGED toServer /\ Server!Handler
      /\ closedAt' = IF s.open /\ ~s'.open THEN c.issued ELSE closedAt
  BY DEF ServerHandles
<1>2. UNCHANGED Missing
  BY <1>1, LogStays
<1>3. SP!Handler
  BY <1>1, <1>2, ServerHandlerIs
<1>4. SP!IInv' /\ SP!Ordered'
  BY <1>3, ServerParameters, SP!HandlerInv, SP!HandlerOrdered DEF IInv, Ends
<1>5. /\ UNCHANGED <<sIn, toClient>>
      /\ s'.open => s.open
      /\ \/ UNCHANGED dispatched
         \/ SP!Dispatches /\ s'.open = s.open
  BY <1>3, ServerParameters, SP!HandlerEffect DEF IInv, Ends
<1>6. accepted /\ conn \notin {"off", "resolving"}
  <2>1. s.ready # <<>>
    BY <1>3 DEF SP!Handler, SP!HeadersAborted, SP!HeadersRejected, SP!HeadersNeedBody,
                SP!HeadersComplete, SP!BodyFailed, SP!BodyComplete, SP!WriteFailed,
                SP!WriteDone, SP!TimerFired, SP!Running
  <2> QED BY <2>1, BusyIsAccepted DEF IInv
<1>7. CASE UNCHANGED dispatched
  <2>1. Marked(sIn', toServer, ReqSize)
    BY <1>5 DEF IInv, Joint, Streams
  <2> QED BY <1>1, <1>4, <1>5, <1>6, <1>7, <2>1, ServerStep
<1>8. CASE SP!Dispatches /\ s'.open = s.open
  <2>1. closedAt' = closedAt
    BY <1>1, <1>8
  <2> QED BY <1>1, <1>4, <1>5, <1>6, <1>8, <2>1, DispatchInv
<1> QED BY <1>5, <1>7, <1>8

\* The units that the server writes are of the response to the last request it
\* dispatched.
LEMMA ServerSendsInv == ASSUME IInv, ServerSends PROVE IInv'
<1>1. /\ UNCHANGED <<c, conn, escaped, toServer, accepted, sIn, closing, closedAt>>
      /\ cIn' = Deliver(cIn, toClient', Len(toClient))
  BY DEF ServerSends
<1>2. PICK i \in DOMAIN s.pending : SP!WriteSome(i)
  <2>1. UNCHANGED Missing
    BY <1>1, LogStays
  <2> QED BY <2>1, ServerIoIs DEF ServerSends
<1>3. SP!IInv' /\ SP!Ordered'
  <2>1. SP!System
    BY <1>2 DEF SP!System
  <2> QED BY <2>1, ServerParameters, SP!SystemInv, SP!SystemOrdered DEF IInv, Ends
<1>4. s.open /\ s'.open
  BY <1>2, ServerParameters, SP!SystemEffect DEF IInv, Ends
<1>5. /\ UNCHANGED dispatched /\ SP!Handled \in Nat \ {0}
      /\ \E n \in Nat : \E j \in 1 .. n :
           /\ n <= RespSize /\ Len(toClient) + n = RespSize * SP!Handled
           /\ toClient' = toClient \o [x \in 1 .. j |-> SP!Handled]
  BY <1>2, ServerParameters, SP!WriteEffect DEF IInv, Ends
<1>6. accepted /\ conn \notin {"off", "resolving"}
  BY <1>4, BusyIsAccepted DEF IInv
<1>7. PICK b \in Nat : Joint(b)
  BY DEF IInv
<1>8. /\ Len(toClient) \in Nat /\ Len(cIn) \in Nat /\ Handled \in Nat /\ Asked(b) \in Nat
      /\ Orderly /\ Handled <= Asked(b) /\ c.issued \in Nat
      /\ Shape(toClient, RespSize, 0) /\ Marked(cIn, toClient, RespSize)
  BY <1>7, Facts DEF IInv, Replied, Joint, Streams
<1>9. PICK k \in Nat \ {0} : k = SP!Handled /\ k = Handled
  BY <1>5 DEF Handled, SP!Handled
<1>10. PICK n \in Nat :
         /\ n <= RespSize /\ Len(toClient) + n = RespSize * k
         /\ \E j \in 1 .. n : toClient' = toClient \o [x \in 1 .. j |-> k]
  BY <1>5, <1>9
<1> PICK j \in 1 .. n : toClient' = toClient \o [x \in 1 .. j |-> k]
  BY <1>10
<1>11. /\ Shape(toClient', RespSize, 0)
       /\ Len(toClient') = Len(toClient) + j /\ Len(toClient) + j <= RespSize * k
  <2>1. PICK w : w = [x \in 1 .. j |-> k] /\ toClient' = toClient \o w
    OBVIOUS
  <2>2. w \in Seq(Nat) /\ Repeats(w, j, 0 + k)
    <3>1. k \in Nat /\ j \in Nat /\ 0 + k = k
      OBVIOUS
    <3>2. w \in Seq(Nat) /\ Repeats(w, j, k)
      BY <2>1, <3>1, Copies
    <3> QED BY <3>1, <3>2
  <2>3. PICK m : m = Len(toClient) /\ m + n = RespSize * k
    BY <1>10
  <2>4. ASSUME NEW log, NEW r \in Nat \ {0}, Shape(log, r, 0), n <= r, m = Len(log), m + n = r * k
        PROVE  Shape(log \o w, r, 0) /\ Longer(log \o w, log, j) /\ m + j <= r * k
    BY <2>2, <2>4, UnitsAdded
  <2>5. /\ Shape(toClient \o w, RespSize, 0) /\ Longer(toClient \o w, toClient, j)
        /\ m + j <= RespSize * k
    BY <1>8, <1>10, <2>3, <2>4, Sizes, Zenon
  <2> QED BY <2>1, <2>3, <2>5 DEF Longer
<1>12. /\ Len(toClient') \in Nat /\ Len(toClient) <= Len(toClient')
       /\ Len(toClient') <= RespSize * k
  BY <1>8, <1>11
<1>13. Marked(cIn', toClient', RespSize) /\ Got' = Got
  <2>1. ASSUME NEW more, NEW next, Shape(more, RespSize, 0), Len(toClient) <= Len(more),
               next = Deliver(cIn, more, Len(toClient))
        PROVE  /\ Marked(next, more, RespSize)
               /\ Len(more) - Len(next) = Len(toClient) - Len(cIn)
    BY <1>8, <2>1, Sizes, Delivered
  <2>2. /\ Marked(cIn', toClient', RespSize)
        /\ Len(toClient') - Len(cIn') = Len(toClient) - Len(cIn)
    BY <1>1, <1>11, <1>12, <2>1
  <2> QED BY <2>2 DEF Got
<1>14. Streams(b)'
  BY <1>1, <1>7, <1>11, <1>13 DEF Joint, Streams
<1>15. Handled' = Handled /\ Asked(b)' = Asked(b)
  BY <1>1, <1>5 DEF Handled, Asked
<1>16. Counts(b)'
  <2>1. closedAt = MaxRequests
    BY <1>4, <1>7 DEF Joint, Counts
  <2>2. PICK m \in Nat : m = MaxRequests - b /\ Handled <= m
    <3>1. b <= c.issued /\ c.issued <= MaxRequests
      BY <1>7 DEF Joint, Counts
    <3>2. MaxRequests - b \in Nat /\ Handled <= MaxRequests - b
      BY <1>8, <3>1, Sizes DEF Asked
    <3> QED BY <3>2
  <2>3. Len(toClient') <= RespSize * m
    <3>1. RespSize * k \in Nat /\ RespSize * m \in Nat /\ RespSize * k <= RespSize * m
      BY <1>9, <2>2, Sizes, Grows
    <3> DEFINE x == RespSize * k
               y == RespSize * m
    <3>2. Len(toClient') <= x /\ x \in Nat /\ y \in Nat /\ x <= y
      BY <1>12, <3>1
    <3> HIDE DEF x, y
    <3>3. Len(toClient') <= y
      BY <1>12, <3>2
    <3> QED BY <3>3 DEF y
  <2> QED BY <1>1, <1>7, <1>9, <1>12, <1>15, <2>1, <2>2, <2>3 DEF Joint, Counts
<1>17. InPlace(b)' /\ Answered(b)'
  BY <1>1, <1>7, <1>8, <1>12, <1>13, PlacesStay, AnswersStay DEF IInv, Joint
<1>18. CP!IInv'
  <2>1. Orderly'
    <3>1. Received' = Received
      BY <1>1, LogStays
    <3> QED BY <1>5, <1>8, <1>16, <3>1 DEF Orderly, SP!EachRequestOnce, Counts, Handled
  <2>2. CP!StreamsOK'
    BY <1>14, <2>1, ClientSeesNext DEF Replied
  <2>3. UNCHANGED Replies
    BY <1>1, <1>5, LogStays
  <2> QED BY <1>1, <2>2, <2>3 DEF IInv, Ends, CP!IInv, CP!Unconnected
<1>19. Before'
  BY <1>1, <1>6 DEF Before
<1> QED BY <1>3, <1>14, <1>16, <1>17, <1>18, <1>19 DEF IInv, Ends, Joint


\* The session that do_accept makes starts where the client's requests start.
LEMMA AcceptInv == ASSUME IInv, Accept PROVE IInv'
<1>1. /\ ~accepted /\ accepted' = TRUE /\ conn \in {"connecting", "up"}
      /\ s' = Server!DoRead(Server!NewSession(TRUE))
      /\ UNCHANGED <<c, conn, escaped, toServer, cIn>>
      /\ UNCHANGED <<dispatched, toClient, sIn, closing, closedAt>>
  BY DEF Accept, client
<1>2. PICK b \in Nat : Joint(b)
  BY DEF IInv
<1>3. /\ dispatched = <<>> /\ toClient = <<>> /\ Len(sIn) = Len(toServer)
      /\ closedAt = MaxRequests
  BY <1>1 DEF IInv, Before
<1>4. Seen(b) /\ Len(toClient) \in Nat /\ Len(toServer) \in Nat /\ Received \in Nat
  BY <1>2, Facts DEF IInv, Seen
<1>5. UNCHANGED <<Arrived, Received, Missing, Sent>>
  BY <1>1, LogStays
<1>6. PICK z : z = SP!NewSession(TRUE)
  OBVIOUS
<1>7. s' = SP!StartIo(z, "headers", 0, 0)
  <2>1. s' = SP!StartIo(SP!NewSession(TRUE), "headers", 0, 0)
    BY <1>1, Zenon DEF Server!DoRead, Server!StartIo, SP!StartIo, Server!StartTimer,
                       SP!StartTimer, Server!NewSession, SP!NewSession
  <2> QED BY <1>6, <2>1
<1>8. SP!Idle(z) /\ "headers" \in SP!IoKinds /\ 0 \in Nat
  <2>1. TRUE \in BOOLEAN
    OBVIOUS
  <2> QED BY <1>6, <2>1, ServerParameters, SP!NewSessionIdle DEF SP!IoKinds
<1>9. SP!LastCloses(dispatched) = FALSE /\ Len(Sent) \in Nat
  BY <1>3, <1>4 DEF SP!LastCloses, Seen
<1>10. SP!Good(s', Len(Sent), SP!LastCloses(dispatched))
  <2>1. FALSE \in BOOLEAN
    OBVIOUS
  <2>2. SP!Good(SP!StartIo(z, "headers", 0, 0), Len(Sent), FALSE)
    BY <1>8, <1>9, <2>1, ServerParameters, SP!StartGood
  <2> QED BY <1>7, <1>9, <2>2
<1>11. SP!IInv'
  <2>1. sIn' \in Seq(Nat) /\ \A i \in DOMAIN sIn' : sIn'[i] \in 0 .. Len(Sent)
    BY <1>1 DEF IInv, Ends, SP!IInv, SP!TypeOK, SP!InboxKnown
  <2> QED BY <1>1, <1>5, <1>10, <2>1, ServerParameters, SP!SessionStep DEF IInv, Ends
<1>12. SP!Ordered'
  <2>1. SP!Handled = 0 /\ RespSize * 0 = 0 /\ Len(toClient) = 0
    BY <1>3, Sizes DEF SP!Handled
  <2>2. SP!StartsAt(1, 1)
    <3>1. 1 \in Nat \ {0} /\ 1 <= Received + 1
      BY <1>4
    <3>2. Taken = 0 /\ ReqSize * (1 - 1) = 0
      BY <1>3, <1>4, Sizes DEF Taken
    <3>3. Taken + 1 = ReqSize * (1 - 1) + 1
      BY <3>2
    <3> QED BY <1>4, <3>1, <3>3 DEF Seen, Starts
  <2>3. SP!StartsAt(1, SP!Handled + 1) /\ SP!Answered
    BY <2>1, <2>2 DEF SP!Answered
  <2>4. /\ \A i \in DOMAIN s'.pending : s'.pending[i].kind = "headers"
        /\ \A i \in DOMAIN s'.ready :
             s'.ready[i].kind \notin SP!IoKinds \/ s'.ready[i].ec # "ok"
    BY <1>7, <1>8, ServerParameters, SP!OneStarted
  <2>5. \A i \in DOMAIN s'.pending : SP!Placed(s'.pending[i])
    BY <2>3, <2>4 DEF SP!Placed
  <2>6. \A i \in DOMAIN s'.ready : s'.ready[i].ec = "ok" => SP!Finished(s'.ready[i])
    BY <2>4 DEF SP!Finished, SP!IoKinds
  <2> QED BY <1>1, <1>5, <2>5, <2>6, ServerParameters, SP!StillOrdered DEF IInv, Ends
<1>13. CP!IInv'
  BY <1>1, ClientStays DEF IInv, Ends
<1>14. Streams(b)'
  BY <1>1, <1>2 DEF Joint, Streams
<1>15. Counts(b)'
  BY <1>1, <1>2, <1>3 DEF Joint, Counts, Asked, Handled
<1>16. InPlace(b)' /\ Answered(b)'
  <2>1. Got' = Got
    BY <1>1 DEF Got
  <2> QED BY <1>1, <1>2, <1>4, <2>1, PlacesStay, AnswersStay DEF IInv, Joint
<1>17. Before'
  BY <1>1 DEF Before
<1> QED BY <1>11, <1>12, <1>13, <1>14, <1>15, <1>16, <1>17 DEF IInv, Ends, Joint

(* ------------------------- the steps of the client ---------------------- *)

\* The operation that the client has under way, or that is over, is in its place
\* if what is known of it says so.
LEMMA NowDoing ==
    \A b \in Nat : \A kind, msg, n :
        /\ c.callback # 0 /\ CP!Doing(c.s, kind, msg, n)
        /\ Placed([kind |-> kind, msg |-> msg, n |-> n], Asked(b))
        => InPlace(b)
<1> SUFFICES ASSUME NEW b \in Nat, NEW kind, NEW msg, NEW n,
                    c.callback # 0, CP!Doing(c.s, kind, msg, n),
                    Placed([kind |-> kind, msg |-> msg, n |-> n], Asked(b))
             PROVE  InPlace(b)
  BY Zenon
<1>1. ASSUME NEW i \in DOMAIN c.s.pending
      PROVE  Placed(c.s.pending[i], Asked(b))
  <2>1. c.s.pending[i].kind = kind /\ c.s.pending[i].msg = msg /\ c.s.pending[i].n = n
    BY DEF CP!Doing
  <2> QED BY <2>1 DEF Placed
<1>2. ASSUME NEW i \in DOMAIN c.s.ready, c.s.ready[i].ec = "ok"
      PROVE  Finished(c.s.ready[i], Asked(b))
  <2>1. c.s.ready[i].kind \notin CP!IoKinds
    BY <1>2 DEF CP!Doing
  <2> QED BY <2>1 DEF Finished, CP!IoKinds
<1> QED BY <1>1, <1>2 DEF InPlace

LEMMA NowDone ==
    \A b \in Nat : \A kind, msg, n :
        /\ c.callback # 0 /\ CP!Done(c.s, kind, msg, n)
        /\ Finished([kind |-> kind, msg |-> msg, n |-> n], Asked(b))
        => InPlace(b)
<1> SUFFICES ASSUME NEW b \in Nat, NEW kind, NEW msg, NEW n,
                    c.callback # 0, CP!Done(c.s, kind, msg, n),
                    Finished([kind |-> kind, msg |-> msg, n |-> n], Asked(b))
             PROVE  InPlace(b)
  BY Zenon
<1>1. c.s.pending = <<>>
  BY DEF CP!Done
<1>2. ASSUME NEW i \in DOMAIN c.s.ready, c.s.ready[i].ec = "ok"
      PROVE  Finished(c.s.ready[i], Asked(b))
  <2>1. c.s.ready[i].kind \in CP!IoKinds =>
          c.s.ready[i].kind = kind /\ c.s.ready[i].msg = msg /\ c.s.ready[i].n = n
    BY DEF CP!Done
  <2>2. c.s.ready[i].kind \notin CP!IoKinds => Finished(c.s.ready[i], Asked(b))
    BY DEF Finished, CP!IoKinds
  <2> QED BY <2>1, <2>2 DEF Finished
<1> QED BY <1>1, <1>2 DEF InPlace

LEMMA NowLost == \A b \in Nat : c.callback # 0 /\ CP!Lost(c.s) => InPlace(b)
<1> SUFFICES ASSUME NEW b \in Nat, c.callback # 0, CP!Lost(c.s)
             PROVE  InPlace(b)
  OBVIOUS
<1>1. c.s.pending = <<>>
  BY DEF CP!Lost
<1>2. ASSUME NEW i \in DOMAIN c.s.ready, c.s.ready[i].ec = "ok"
      PROVE  Finished(c.s.ready[i], Asked(b))
  <2>1. c.s.ready[i].kind \notin CP!IoKinds
    BY <1>2 DEF CP!Lost
  <2> QED BY <2>1 DEF Finished, CP!IoKinds
<1> QED BY <1>1, <1>2 DEF InPlace

LEMMA InPlaceNext ==
    \A b \in Nat :
        /\ \A kind, msg, n :
             /\ c'.callback # 0 /\ CP!Doing(c'.s, kind, msg, n)
             /\ Placed([kind |-> kind, msg |-> msg, n |-> n], Asked(b))'
             => InPlace(b)'
        /\ \A kind, msg, n :
             /\ c'.callback # 0 /\ CP!Done(c'.s, kind, msg, n)
             /\ Finished([kind |-> kind, msg |-> msg, n |-> n], Asked(b))'
             => InPlace(b)'
        /\ c'.callback # 0 /\ CP!Lost(c'.s) => InPlace(b)'
<1>1. (\A b \in Nat : \A kind, msg, n :
         /\ c.callback # 0 /\ CP!Doing(c.s, kind, msg, n)
         /\ Placed([kind |-> kind, msg |-> msg, n |-> n], Asked(b))
         => InPlace(b))'
  BY NowDoing, PTL
<1>2. (\A b \in Nat : \A kind, msg, n :
         /\ c.callback # 0 /\ CP!Done(c.s, kind, msg, n)
         /\ Finished([kind |-> kind, msg |-> msg, n |-> n], Asked(b))
         => InPlace(b))'
  BY NowDone, PTL
<1>3. (\A b \in Nat : c.callback # 0 /\ CP!Lost(c.s) => InPlace(b))'
  BY NowLost, PTL
<1> QED BY <1>1, <1>2, <1>3, Zenon

\* A log that grows has no fewer messages.
LEMMA MoreMessages ==
    ASSUME NEW r \in Nat \ {0}, NEW b \in Nat, NEW log, Shape(log, r, b),
           NEW more, Shape(more, r, b), Len(log) <= Len(more)
    PROVE  Messages(log, Len(log)) <= Messages(more, Len(more))
<1>1. PICK m : m = Messages(log, Len(log))
  OBVIOUS
<1>2. PICK n : n = Messages(more, Len(more))
  OBVIOUS
<1>3. /\ m \in Nat /\ Len(log) \in Nat
      /\ m # 0 => Within(Len(log), r, m)
  BY <1>1, LogFacts
<1>4. n \in Nat /\ Len(more) \in Nat /\ r * n \in Nat /\ Len(more) <= r * n
  BY <1>2, LogFacts
<1>5. ~(n < m)
  <2> SUFFICES ASSUME n < m PROVE FALSE
    OBVIOUS
  <2>1. m # 0 /\ m - 1 \in Nat /\ n <= m - 1
    BY <1>3, <1>4
  <2>2. r * (m - 1) \in Nat /\ r * n <= r * (m - 1)
    BY <1>4, <2>1, Grows
  <2>3. r * (m - 1) < Len(log)
    BY <1>3, <2>1 DEF Within
  <2> QED BY <1>3, <1>4, <2>2, <2>3
<1> QED BY <1>1, <1>2, <1>3, <1>4, <1>5

\* Request q, as the server finds it.
LEMMA SentAt ==
    \A b \in Nat : Seen(b) =>
        \A q \in 1 .. Received :
            Sent[q] = [size |-> 1, valid |-> TRUE, len |-> ReqSize - 1,
                       close |-> b + q \in closing]
BY DEF Seen, Sent

LEMMA SentAtNext ==
    \A b \in Nat : Seen(b)' =>
        \A q \in 1 .. Received' :
            Sent'[q] = [size |-> 1, valid |-> TRUE, len |-> ReqSize - 1,
                        close |-> b + q \in closing']
<1>1. (\A b \in Nat : Seen(b) =>
         \A q \in 1 .. Received :
            Sent[q] = [size |-> 1, valid |-> TRUE, len |-> ReqSize - 1,
                       close |-> b + q \in closing])'
  BY SentAt, PTL
<1> QED BY <1>1

\* What the server knows when its stream has grown.
LEMMA ServerGrows ==
    ASSUME NEW b \in Nat, SP!IInv, SP!Ordered, Seen(b), Seen(b)',
           UNCHANGED <<s, dispatched, toClient, closing>>,
           Received <= Received', Taken' = Taken,
           \A i \in DOMAIN sIn : i \in DOMAIN sIn' /\ sIn'[i] = sIn[i]
    PROVE  SP!IInv' /\ SP!Ordered'
<1>1. /\ Received \in Nat /\ Received' \in Nat /\ Len(Sent) = Received
      /\ Len(Sent') = Received' /\ Starts /\ Starts' /\ SP!Framed' /\ SP!InboxKnown'
      /\ Missing \in Nat /\ Missing' \in Nat /\ sIn \in Seq(Nat) /\ sIn' \in Seq(Nat)
      /\ Len(sIn) \in Nat
      /\ Sent' \in Seq([size : Nat, valid : BOOLEAN, len : Nat, close : BOOLEAN])
  BY DEF Seen
<1>9. (\A q \in Nat : q <= Received + 1 => q <= Received' + 1) /\ 0 # Received' + 1
  <2>1. ASSUME NEW x \in Nat, NEW y \in Nat, x <= y
        PROVE  (\A q \in Nat : q <= x + 1 => q <= y + 1) /\ 0 # y + 1
    BY <2>1
  <2> QED BY <1>1, <2>1, Zenon
<1>2. ASSUME NEW q \in 1 .. Len(Sent)
      PROVE  Sent'[q] = Sent[q]
  <2>1. q \in 1 .. Received /\ q \in 1 .. Received'
    BY <1>1
  <2> QED BY <2>1, SentAt, SentAtNext
<1>3. ASSUME NEW p \in Nat, NEW q \in Nat, SP!StartsAt(p, q)
      PROVE  SP!StartsAt(p, q)'
  <2>1. CASE p # 0 /\ q # 0
    <3>1. p \in Nat \ {0} /\ q \in Nat \ {0}
      BY <2>1
    <3>2. q <= Received + 1 /\ Taken + p = ReqSize * (q - 1) + 1
      BY <1>1, <1>3, <3>1 DEF Starts
    <3>3. q <= Received + 1 => q <= Received' + 1
      BY <1>9, Zenon
    <3>4. q <= Received' + 1 /\ Taken' + p = ReqSize * (q - 1) + 1
      BY <3>2, <3>3
    <3> QED BY <1>1, <3>1, <3>4 DEF Starts
  <2>2. CASE q = 0
    <3>1. p \in DOMAIN sIn /\ sIn[p] = q
      BY <1>1, <1>3, <2>2 DEF SP!StartsAt
    <3>2. p \in DOMAIN sIn' /\ sIn'[p] = q
      BY <3>1
    <3>3. q # Received' + 1
      BY <1>9, <2>2, Zenon
    <3> QED BY <1>1, <3>2, <3>3 DEF SP!StartsAt
  <2>3. CASE p = 0
    <3>1. p \notin DOMAIN sIn /\ p # Len(sIn) + Missing + 1
      BY <1>1, <2>3
    <3> QED BY <1>3, <3>1 DEF SP!StartsAt
  <2> QED BY <2>1, <2>2, <2>3
<1>4. SP!Ordered'
  BY <1>1, <1>2, <1>3, ServerParameters, SP!GrownOrdered
<1>5. SP!IInv'
  <2>1. SP!Good(s, Len(Sent'), SP!LastCloses(dispatched))
    <3>1. SP!LastCloses(dispatched) \in BOOLEAN
      BY DEF SP!LastCloses
    <3>2. SP!Good(s, Len(Sent), SP!LastCloses(dispatched))
      BY DEF SP!IInv
    <3> QED BY <1>1, <3>1, <3>2, ServerParameters, SP!GoodMonotonic
  <2>2. SP!TypeOK'
    BY <1>1 DEF SP!IInv, SP!TypeOK
  <2>3. SP!NothingAfterClose'
    BY DEF SP!IInv, SP!NothingAfterClose
  <2>4. SP!Good(s, Len(Sent), SP!LastCloses(dispatched))'
    BY <2>1 DEF SP!LastCloses
  <2> QED BY <1>1, <2>2, <2>3, <2>4 DEF SP!IInv
<1> QED BY <1>4, <1>5

\* While a read or write of the client is under way, its session is open and
\* waits for its last request.
LEMMA OpFacts ==
    ASSUME Ends, NEW b \in Nat, Joint(b), NEW i \in DOMAIN c.s.pending
    PROVE  /\ i = 1 /\ c.s.pending[1] \in CP!IoOps /\ Placed(c.s.pending[1], Asked(b))
           /\ c.callback # 0 /\ c.callback = c.issued /\ c.s.open
           /\ Asked(b) \in Nat \ {0} /\ c.callback = b + Asked(b)
           /\ conn \notin {"off", "resolving"}
<1>1. /\ i = 1 /\ c.s.pending[1] \in CP!IoOps /\ c.callback # 0
      /\ conn \notin {"off", "resolving"}
  BY ClientParameters, CP!UnderWay DEF Ends
<1>2. c.s.open
  BY <1>1 DEF Ends, CP!IInv, CP!Good
<1>3. Placed(c.s.pending[1], Asked(b))
  BY <1>1, <1>2 DEF Joint, InPlace
<1>4. c.callback = c.issued /\ b < c.issued /\ c.issued \in Nat
  BY <1>1, Facts DEF Joint, Counts
<1>5. Asked(b) \in Nat \ {0} /\ c.callback = b + Asked(b)
  BY <1>4 DEF Asked
<1> QED BY <1>1, <1>2, <1>3, <1>4, <1>5

LEMMA ClientSendsInv == ASSUME IInv, ClientSends PROVE IInv'
<1>1. /\ UNCHANGED <<s, dispatched, accepted, toClient, closing, closedAt>>
      /\ sIn' = Deliver(sIn, toServer', Len(toServer))
  BY DEF ClientSends
<1>2. PICK i \in DOMAIN c.s.pending : CP!WriteSome(i)
  BY ClientIoIs DEF ClientSends
<1>3. CP!IInv'
  BY <1>2, ClientParameters, CP!IoInv DEF IInv, Ends
<1>4. PICK b \in Nat : Joint(b)
  BY DEF IInv
<1>5. /\ i = 1 /\ c.s.pending[1] \in CP!IoOps /\ Placed(c.s.pending[1], Asked(b))
      /\ c.callback # 0 /\ c.s.open
      /\ Asked(b) \in Nat \ {0} /\ c.callback = b + Asked(b)
      /\ conn \notin {"off", "resolving"}
  BY <1>2, <1>4, OpFacts DEF IInv
<1>6. /\ UNCHANGED <<conn, cIn>>
      /\ c'.callback = c.callback /\ c'.issued = c.issued /\ c'.answers = c.answers
      /\ c.s.pending[1].kind = "write" /\ conn = "up"
      /\ \E j \in 1 .. c.s.pending[1].n :
           /\ toServer' = toServer \o [x \in 1 .. j |-> c.s.pending[1].msg]
           /\ IF j = c.s.pending[1].n
                THEN CP!Done(c'.s, "write", c.s.pending[1].msg, 0)
                ELSE CP!Doing(c'.s, "write", c.s.pending[1].msg, c.s.pending[1].n - j)
  BY <1>2, ClientParameters, CP!WriteEffect DEF IInv, Ends, CP!Unnoticed
<1>7. PICK k \in Nat \ {0} : k = Asked(b)
  BY <1>5
<1>8. PICK n \in Nat : n = c.s.pending[1].n
  BY <1>5 DEF CP!IoOps
<1>9. PICK v : v = c.s.pending[1].msg
  OBVIOUS
<1>10. v = b + k /\ v = c.callback /\ n <= ReqSize /\ Len(toServer) + n = ReqSize * k
       /\ Got = RespSize * (k - 1)
  BY <1>5, <1>6, <1>7, <1>8, <1>9 DEF Placed
<1>11. PICK j \in 1 .. n :
         /\ toServer' = toServer \o [x \in 1 .. j |-> v]
         /\ IF j = n THEN CP!Done(c'.s, "write", v, 0) ELSE CP!Doing(c'.s, "write", v, n - j)
  BY <1>6, <1>8, <1>9
<1>12. /\ Seen(b) /\ Len(toServer) \in Nat /\ Len(sIn) \in Nat /\ Handled \in Nat
       /\ Len(toClient) \in Nat
       /\ Shape(toServer, ReqSize, b) /\ Marked(sIn, toServer, ReqSize)
  BY <1>4, Facts DEF IInv, Replied, Joint, Streams, Seen
<1>13. /\ Shape(toServer', ReqSize, b)
       /\ Len(toServer') = Len(toServer) + j /\ Len(toServer) + j <= ReqSize * k
  <2>1. PICK w : w = [x \in 1 .. j |-> v] /\ toServer' = toServer \o w
    BY <1>11
  <2>2. w \in Seq(Nat) /\ Repeats(w, j, b + k)
    <3>1. v \in Nat /\ j \in Nat /\ v = b + k
      BY <1>10
    <3>2. w \in Seq(Nat) /\ Repeats(w, j, v)
      BY <2>1, <3>1, Copies
    <3> QED BY <3>1, <3>2
  <2>3. PICK m : m = Len(toServer) /\ m + n = ReqSize * k
    BY <1>10
  <2>4. ASSUME NEW log, NEW r \in Nat \ {0}, Shape(log, r, b), n <= r, m = Len(log), m + n = r * k
        PROVE  Shape(log \o w, r, b) /\ Longer(log \o w, log, j) /\ m + j <= r * k
    BY <2>2, <2>4, UnitsAdded
  <2>5. /\ Shape(toServer \o w, ReqSize, b) /\ Longer(toServer \o w, toServer, j)
        /\ m + j <= ReqSize * k
    BY <1>10, <1>12, <2>3, <2>4, Sizes, Zenon
  <2> QED BY <2>1, <2>3, <2>5 DEF Longer
<1>14. /\ Len(toServer') \in Nat /\ Len(toServer) <= Len(toServer')
       /\ Len(toServer') <= ReqSize * k
  BY <1>12, <1>13
<1>15. /\ Marked(sIn', toServer', ReqSize) /\ Taken' = Taken
       /\ \A p \in DOMAIN sIn : p \in DOMAIN sIn' /\ sIn'[p] = sIn[p]
  <2>1. ASSUME NEW more, NEW next, Shape(more, ReqSize, b), Len(toServer) <= Len(more),
               next = Deliver(sIn, more, Len(toServer))
        PROVE  /\ Marked(next, more, ReqSize)
               /\ Len(more) - Len(next) = Len(toServer) - Len(sIn)
               /\ Kept(next, sIn)
    BY <1>12, <2>1, Sizes, Delivered
  <2>2. /\ Marked(sIn', toServer', ReqSize)
        /\ Len(toServer') - Len(sIn') = Len(toServer) - Len(sIn)
        /\ Kept(sIn', sIn)
    BY <1>1, <1>13, <1>14, <2>1
  <2> QED BY <2>2 DEF Taken, Kept
<1>16. Streams(b)'
  BY <1>1, <1>4, <1>6, <1>13, <1>15 DEF Joint, Streams
<1>17. Seen(b)'
  BY <1>16, ServerSeesNext
<1>18. SP!IInv' /\ SP!Ordered'
  <2>1. ASSUME NEW more, Shape(more, ReqSize, b), Len(toServer) <= Len(more)
        PROVE  Messages(toServer, Len(toServer)) <= Messages(more, Len(more))
    BY <1>12, <2>1, Sizes, MoreMessages
  <2>2. Received <= Received'
    <3>1. Messages(toServer, Len(toServer)) <= Messages(toServer', Len(toServer'))
      BY <1>13, <1>14, <2>1
    <3> QED BY <3>1 DEF Received
  <2> QED BY <1>1, <1>12, <1>15, <1>17, <2>2, ServerGrows DEF IInv, Ends
<1>19. Asked(b)' = k /\ Handled' = Handled /\ Got' = Got /\ c'.callback = v /\ v # 0
  BY <1>1, <1>5, <1>6, <1>7, <1>10 DEF Asked, Handled, Got
<1>20. Counts(b)'
  <2>1. ReqSize * Handled <= Len(toServer')
    <3> DEFINE x == ReqSize * Handled
    <3>1. x \in Nat /\ x <= Len(toServer)
      BY <1>4, <1>12, Sizes DEF Joint, Counts
    <3> HIDE DEF x
    <3>2. x <= Len(toServer')
      BY <1>12, <1>14, <3>1
    <3> QED BY <3>2 DEF x
  <2>2. /\ b <= c.issued /\ c.issued <= MaxRequests
        /\ c.callback # 0 => c.callback = c.issued /\ b < c.issued
        /\ Len(toClient) <= RespSize * Handled
        /\ closedAt \in b .. MaxRequests
        /\ s.open => closedAt = MaxRequests
        /\ Len(toClient) <= RespSize * (closedAt - b)
    BY <1>4 DEF Joint, Counts
  <2> QED BY <1>1, <1>6, <1>14, <1>19, <2>1, <2>2 DEF Counts
<1>21. InPlace(b)'
  <2>1. CASE j = n
    <3>1. CP!Done(c'.s, "write", v, 0)
      BY <1>11, <2>1
    <3>2. Len(toServer') = ReqSize * k
      BY <1>10, <1>13, <2>1
    <3>3. Finished([kind |-> "write", msg |-> v, n |-> 0], k)'
      BY <1>10, <1>19, <3>2 DEF Finished
    <3> QED BY <1>19, <3>1, <3>3, InPlaceNext
  <2>2. CASE j # n
    <3>1. CP!Doing(c'.s, "write", v, n - j)
      BY <1>11, <2>2
    <3>2. Len(toServer') + (n - j) = Len(toServer) + n /\ n - j <= ReqSize
      BY <1>10, <1>12, <1>13, Sizes
    <3>3. Placed([kind |-> "write", msg |-> v, n |-> n - j], k)'
      BY <1>10, <1>19, <3>2 DEF Placed
    <3> QED BY <1>19, <3>1, <3>3, InPlaceNext
  <2> QED BY <2>1, <2>2
<1>22. Answered(b)'
  BY <1>1, <1>4, <1>6 DEF Joint, Answered
<1>23. Before'
  <2>1. ~accepted => Len(sIn') = Len(toServer')
    <3>1. ASSUME ~accepted PROVE Len(sIn') = Len(toServer')
      <4>1. Taken = 0
        BY <1>12, <3>1 DEF IInv, Before, Taken
      <4>2. Len(toServer') - Len(sIn') = 0 /\ Len(sIn') \in Nat
        BY <1>15, <1>17, <4>1 DEF Taken, Seen
      <4> QED BY <1>14, <4>2
    <3> QED BY <3>1
  <2> QED BY <1>1, <1>5, <1>6, <2>1 DEF IInv, Before
<1> QED BY <1>3, <1>16, <1>18, <1>20, <1>21, <1>22, <1>23 DEF IInv, Ends, Joint

\* A step of the client that sends nothing: it takes of its stream, calls
\* callbacks, and leaves its operation in its place.
LEMMA ClientStep ==
    ASSUME IInv, NEW b \in Nat, Joint(b),
           UNCHANGED <<s, dispatched, accepted, toClient, sIn, closing, closedAt, toServer>>,
           CP!IInv', Marked(cIn', toClient, RespSize), InPlace(b)',
           NEW oks, CP!Adds(c, c', oks),
           \A a \in oks :
             a.req = b + a.reply /\ a.reply > 0 /\ RespSize * a.reply <= Len(toClient),
           c'.callback # 0 => c'.callback = c'.issued /\ b < c'.issued,
           conn' \in {"off", "resolving"} => conn \in {"off", "resolving"}
    PROVE  IInv'
<1>1. SP!IInv' /\ SP!Ordered'
  BY ServerStays DEF IInv, Ends
<1>2. Streams(b)'
  BY DEF Joint, Streams
<1>3. /\ c.issued \in Nat /\ Asked(b) \in Nat /\ c'.issued \in Nat
      /\ Len(toServer) \in Nat /\ Len(toClient) \in Nat
      /\ c.issued <= c'.issued /\ c.issued <= MaxRequests /\ c'.issued <= MaxRequests
      /\ b <= c.issued
  <2>1. c' \in CP!Clients
    BY DEF CP!IInv, CP!Good, CP!Stable
  <2>2. c'.issued \in Nat
    BY <2>1 DEF CP!Clients
  <2>3. c.issued <= c'.issued /\ (c.issued <= MaxRequests => c'.issued <= MaxRequests)
    BY DEF CP!Adds
  <2> QED BY <2>2, <2>3, Facts DEF IInv, Seen, Joint, Counts
<1>4. Counts(b)'
  <2>1. Asked(b)' \in Nat /\ Asked(b) <= Asked(b)' /\ b <= c'.issued
    BY <1>3 DEF Asked
  <2>2. Len(toServer) <= ReqSize * Asked(b)'
    <3>1. PICK x : x = Asked(b)
      OBVIOUS
    <3>2. PICK y : y = Asked(b)'
      OBVIOUS
    <3>3. Len(toServer) <= ReqSize * x
      BY <3>1 DEF Joint, Counts
    <3>4. x \in Nat /\ y \in Nat /\ x <= y
      BY <1>3, <2>1, <3>1, <3>2
    <3>5. ReqSize * x \in Nat /\ ReqSize * y \in Nat /\ ReqSize * x <= ReqSize * y
      BY <3>4, Sizes, Grows
    <3>6. ASSUME NEW u \in Nat, NEW v \in Nat, NEW w \in Nat, u <= v, v <= w
          PROVE  u <= w
      BY <3>6
    <3>7. Len(toServer) <= ReqSize * y
      BY <1>3, <3>3, <3>5, <3>6, Zenon
    <3> QED BY <3>2, <3>7
  <2>3. Handled' = Handled
    BY DEF Handled
  <2>4. /\ ReqSize * Handled <= Len(toServer) /\ Len(toClient) <= RespSize * Handled
        /\ closedAt \in b .. MaxRequests
        /\ s.open => closedAt = MaxRequests
        /\ Len(toClient) <= RespSize * (closedAt - b)
    BY DEF Joint, Counts
  <2> QED BY <1>3, <2>1, <2>2, <2>3, <2>4 DEF Counts
<1>5. Answered(b)'
  <2> SUFFICES ASSUME NEW i \in DOMAIN c'.answers, c'.answers[i].result = "ok"
               PROVE  /\ c'.answers[i].req = b + c'.answers[i].reply
                      /\ c'.answers[i].reply > 0
                      /\ RespSize * c'.answers[i].reply <= Len(toClient)
    BY DEF Answered
  <2>1. CASE i \in DOMAIN c.answers
    <3>1. c'.answers[i] = c.answers[i]
      BY <2>1 DEF CP!Adds
    <3> QED BY <2>1, <3>1 DEF Joint, Answered
  <2>2. CASE i \notin DOMAIN c.answers
    <3>1. c'.answers[i] \in oks
      BY <2>2 DEF CP!Adds
    <3> QED BY <3>1
  <2> QED BY <2>1, <2>2
<1>6. Before'
  <2>1. ASSUME ~accepted PROVE cIn' = <<>>
    <3>1. toClient = <<>>
      BY <2>1 DEF IInv, Before
    <3>2. cIn' \in Seq(Nat) /\ Len(cIn') <= Len(toClient)
      BY DEF Marked
    <3> QED BY <3>1, <3>2
  <2> QED BY <2>1 DEF IInv, Before
<1> QED BY <1>1, <1>2, <1>4, <1>5, <1>6 DEF IInv, Ends, Joint

\* One that the program does not notice.
LEMMA UnnoticedStep ==
    ASSUME IInv, NEW b \in Nat, Joint(b),
           UNCHANGED <<s, dispatched, accepted, toClient, sIn, closing, closedAt, toServer, conn>>,
           CP!IInv', Marked(cIn', toClient, RespSize), InPlace(b)',
           c'.callback = c.callback, c'.issued = c.issued, c'.answers = c.answers
    PROVE  IInv'
<1>1. CP!Adds(c, c', {})
  <2>1. c \in CP!Clients
    BY Facts DEF IInv
  <2> QED BY <2>1, ClientParameters, CP!AddsNothing
<1>2. c'.callback # 0 => c'.callback = c'.issued /\ b < c'.issued
  BY DEF Joint, Counts
<1> QED BY <1>1, <1>2, ClientStep

\* The next request, made when all earlier ones were answered.
LEMMA FreshInPlace ==
    ASSUME Ends, NEW b \in Nat, Joint(b), CP!Fresh(c', c.issued + 1),
           UNCHANGED <<toServer, toClient, cIn>>,
           Len(toServer) = ReqSize * Asked(b), Got = RespSize * Asked(b)
    PROVE  /\ InPlace(b)'
           /\ c'.callback # 0 /\ c'.callback = c'.issued /\ b < c'.issued
<1>1. PICK k \in Nat : k = Asked(b)
  BY Facts
<1>2. c.issued \in Nat /\ b <= c.issued
  BY Facts DEF Joint, Counts
<1>3. /\ c'.callback = c.issued + 1 /\ c'.issued = c.issued + 1
      /\ CP!Doing(c'.s, "write", c.issued + 1, ReqSize)
  BY DEF CP!Fresh
<1>4. c'.callback # 0 /\ c'.callback = c'.issued /\ b < c'.issued
  BY <1>2, <1>3
<1>5. Asked(b)' = k + 1 /\ (k + 1) - 1 = k
  BY <1>1, <1>2, <1>3 DEF Asked
<1>6. Len(toServer') = Len(toServer) /\ Got' = Got
  BY DEF Got
<1>7. PICK v : v = c.issued + 1
  OBVIOUS
<1>8. ReqSize * k + ReqSize = ReqSize * (k + 1) /\ ReqSize <= ReqSize
  BY <1>1, Sizes
<1>9. Placed([kind |-> "write", msg |-> v, n |-> ReqSize], k + 1)'
  <2>1. Len(toServer') + ReqSize = ReqSize * (k + 1)
    BY <1>1, <1>6, <1>8
  <2>2. Got' = RespSize * ((k + 1) - 1)
    BY <1>1, <1>5, <1>6
  <2> QED BY <1>3, <1>7, <1>8, <2>1, <2>2 DEF Placed
<1>10. InPlace(b)'
  BY <1>3, <1>4, <1>5, <1>7, <1>9, InPlaceNext
<1> QED BY <1>4, <1>10

\* A client that waits for nothing.
LEMMA QuietInPlace ==
    \A b \in Nat :
        /\ CP!IInv /\ c.callback = 0
        /\ c.s.open => Len(toServer) = ReqSize * Asked(b) /\ Got = RespSize * Asked(b)
        => InPlace(b)
<1> SUFFICES ASSUME NEW b \in Nat, CP!IInv, c.callback = 0, c.s.open,
                    Len(toServer) = ReqSize * Asked(b), Got = RespSize * Asked(b)
             PROVE  InPlace(b)
  BY DEF InPlace
<1>1. c.s.pending = <<>> /\ ~CP!Queued(c.s, CP!IoKinds)
  BY DEF CP!IInv, CP!Good, CP!Quiet
<1>2. \A i \in DOMAIN c.s.ready : Finished(c.s.ready[i], Asked(b))
  BY <1>1 DEF CP!Queued, Finished, CP!IoKinds
<1> QED BY <1>1, <1>2 DEF InPlace

LEMMA QuietInPlaceNext ==
    \A b \in Nat :
        /\ CP!IInv' /\ c'.callback = 0
        /\ c'.s.open => Len(toServer') = ReqSize * Asked(b)' /\ Got' = RespSize * Asked(b)'
        => InPlace(b)'
<1>1. (\A b \in Nat :
         /\ CP!IInv /\ c.callback = 0
         /\ c.s.open => Len(toServer) = ReqSize * Asked(b) /\ Got = RespSize * Asked(b)
         => InPlace(b))'
  BY QuietInPlace, PTL
<1> QED BY <1>1, Zenon

LEMMA RequestInv ==
    ASSUME IInv, UNCHANGED <<server, closing, closedAt>>, CP!Request
    PROVE  IInv'
<1> USE DEF server
<1>1. /\ c.issued < MaxRequests /\ c.callback = 0 /\ c' = CP!AsyncRequest(c)
      /\ UNCHANGED <<conn, toServer, cIn>>
  BY DEF CP!Request
<1>2. CP!IInv'
  BY ClientParameters, CP!ProgramInv DEF IInv, Ends, CP!Program
<1>3. PICK b \in Nat : Joint(b)
  BY DEF IInv
<1>4. PICK n \in Nat : CP!Good(c, n)
  BY <1>3, Facts DEF IInv, Ends, CP!IInv, Replied
<1>5. /\ CP!Adds(c, c', {})
      /\ c'.s.open => CP!Fresh(c', c.issued + 1)
      /\ c'.s.open = c.s.open
  <2>1. ASSUME NEW e, e = CP!AsyncRequest(c)
        PROVE  /\ CP!Adds(c, e, {})
               /\ e.s.open => CP!Fresh(e, c.issued + 1)
               /\ e.s.open = c.s.open
    BY <1>1, <1>4, <2>1, ClientParameters, CP!RequestAdds
  <2> QED BY <1>1, <2>1
<1>6. c'.callback # 0 => c'.s.open
  BY <1>2 DEF CP!IInv, CP!Good
<1>7. InPlace(b)' /\ (c'.callback # 0 => c'.callback = c'.issued /\ b < c'.issued)
  <2>1. CASE c'.s.open
    <3>1. Len(toServer) = ReqSize * Asked(b) /\ Got = RespSize * Asked(b)
      BY <1>1, <1>3, <1>5, <2>1 DEF Joint, InPlace
    <3> QED BY <1>1, <1>3, <1>5, <2>1, <3>1, FreshInPlace DEF IInv
  <2>2. CASE ~c'.s.open
    BY <1>6, <2>2 DEF InPlace
  <2> QED BY <2>1, <2>2
<1>8. Marked(cIn', toClient, RespSize)
  BY <1>1, <1>3 DEF Joint, Streams
<1> QED BY <1>1, <1>2, <1>3, <1>5, <1>7, <1>8, ClientStep

\* A step that tells nothing but how far the client is with connecting.
LEMMA ConnStep ==
    ASSUME IInv, UNCHANGED <<server, closing, closedAt, c, toServer, cIn>>, CP!IInv',
           conn' \in {"off", "resolving"} => conn \in {"off", "resolving"}
    PROVE  IInv'
<1> USE DEF server
<1>1. PICK b \in Nat : Joint(b)
  BY DEF IInv
<1>2. CP!Adds(c, c', {})
  <2>1. c \in CP!Clients /\ c' = c
    BY <1>1, Facts DEF IInv
  <2> QED BY <2>1, ClientParameters, CP!AddsNothing
<1>3. InPlace(b)' /\ Marked(cIn', toClient, RespSize)
  <2>1. Got' = Got /\ Len(toServer') = Len(toServer)
    BY DEF Got
  <2> QED BY <1>1, <2>1, PlacesStay DEF Joint, Streams
<1>4. c'.callback # 0 => c'.callback = c'.issued /\ b < c'.issued
  BY <1>1 DEF Joint, Counts
<1> QED BY <1>1, <1>2, <1>3, <1>4, ClientStep

\* The requests made before the connection was opened are not sent: those that
\* the server will know are counted from the next one on.
LEMMA ResolvedInv ==
    ASSUME IInv, UNCHANGED <<server, closing, closedAt>>, CP!Resolved
    PROVE  IInv'
<1> USE DEF server
<1>1. /\ conn = "resolving" /\ conn' = "connecting"
      /\ c' = [c EXCEPT !.s.open = TRUE]
      /\ UNCHANGED <<toServer, cIn>>
  BY DEF CP!Resolved
<1>2. CP!IInv'
  BY ClientParameters, CP!ConnectInv DEF IInv, Ends
<1>3. PICK a \in Nat : Joint(a)
  BY DEF IInv
<1>4. /\ ~accepted /\ toServer = <<>> /\ sIn = <<>> /\ toClient = <<>> /\ cIn = <<>>
      /\ dispatched = <<>> /\ closedAt = MaxRequests
      /\ s = SP!NewSession(FALSE)
  BY <1>1 DEF IInv, Before
<1>5. /\ c.callback = 0 /\ c.s.pending = <<>> /\ c.s.ready = <<>>
  BY <1>1 DEF IInv, Ends, CP!IInv, CP!Unconnected
<1>6. PICK b \in Nat : b = c.issued
  BY <1>3, Facts DEF IInv
<1>7. /\ c'.issued = b /\ c'.callback = 0 /\ c'.answers = c.answers
      /\ c'.s.pending = <<>> /\ c'.s.ready = <<>>
  <2>1. c \in CP!Clients /\ c.s \in CP!Sessions
    BY <1>3, Facts DEF IInv, CP!Clients
  <2>2. PICK t : t = [c.s EXCEPT !.open = TRUE]
    OBVIOUS
  <2>3. t.pending = <<>> /\ t.ready = <<>>
    BY <1>5, <2>1, <2>2 DEF CP!Sessions
  <2>4. c' = [c EXCEPT !.s = t]
    BY <1>1, <2>1, <2>2 DEF CP!Clients
  <2> QED BY <1>5, <1>6, <2>1, <2>3, <2>4 DEF CP!Clients
<1>8. Streams(b)'
  BY <1>1, <1>4, Sizes, NothingYet DEF Streams
<1>9. Len(toServer) = 0 /\ Len(toClient) = 0 /\ Len(cIn) = 0 /\ Handled = 0 /\ Handled' = 0
  BY <1>4 DEF Handled
<1>10. b <= MaxRequests /\ Asked(b)' = 0 /\ Got' = 0
  BY <1>1, <1>3, <1>6, <1>7, <1>9 DEF Joint, Counts, Asked, Got
<1>11. ReqSize * 0 = 0 /\ RespSize * 0 = 0
  BY Sizes
<1>12. Counts(b)'
  <2>1. closedAt' \in b .. MaxRequests /\ RespSize * (closedAt' - b) \in Nat
    <3>1. MaxRequests - b \in Nat /\ MaxRequests \in b .. MaxRequests
      BY <1>10, Sizes
    <3> QED BY <1>4, <3>1, Sizes
  <2>2. ~s.open
    BY <1>4 DEF SP!NewSession
  <2> QED BY <1>1, <1>7, <1>9, <1>10, <1>11, <2>1, <2>2 DEF Counts
<1>13. InPlace(b)'
  <2>1. Len(toServer') = ReqSize * Asked(b)' /\ Got' = RespSize * Asked(b)'
    BY <1>1, <1>9, <1>10, <1>11
  <2> QED BY <1>2, <1>7, <2>1, QuietInPlaceNext
<1>14. Answered(b)'
  <2> SUFFICES ASSUME NEW i \in DOMAIN c.answers, c.answers[i].result = "ok" PROVE FALSE
    BY <1>7 DEF Answered
  <2>1. c.answers[i].reply > 0 /\ RespSize * c.answers[i].reply <= 0
    BY <1>3, <1>9 DEF Joint, Answered
  <2>2. c.answers[i].reply \in Nat
    <3>1. c.answers \in Seq(CP!Answers)
      BY <1>3, Facts DEF IInv, CP!Clients
    <3>2. c.answers[i] \in CP!Answers
      BY <3>1
    <3> QED BY <3>2 DEF CP!Answers
  <2>3. c.answers[i].reply <= 0
    BY <1>11, <2>1, <2>2, Sizes, Cancel
  <2> QED BY <2>1, <2>2, <2>3
<1>15. SP!IInv' /\ SP!Ordered'
  BY <1>1, ServerStays DEF IInv, Ends
<1>16. Before'
  BY <1>1, <1>4 DEF Before
<1> QED BY <1>2, <1>8, <1>12, <1>13, <1>14, <1>15, <1>16 DEF IInv, Ends, Joint

LEMMA RestMarked ==
    ASSUME Len(toClient) \in Nat, Marked(cIn, toClient, RespSize), UNCHANGED toClient,
           NEW m \in Nat, m <= Len(cIn), cIn' = SubSeq(cIn, m + 1, Len(cIn))
    PROVE  Marked(cIn', toClient, RespSize) /\ Len(cIn') = Len(cIn) - m
<1>1. PICK r : r = RespSize
  OBVIOUS
<1>2. PICK log : log = toClient
  OBVIOUS
<1>3. PICK stream : stream = cIn
  OBVIOUS
<1>4. PICK rest : rest = cIn'
  OBVIOUS
<1>5. /\ Len(log) \in Nat /\ Marked(stream, log, r) /\ m <= Len(stream)
      /\ rest = SubSeq(stream, m + 1, Len(stream))
  BY <1>1, <1>2, <1>3, <1>4
<1>6. Marked(rest, log, r)
  BY <1>5, MarkedRest
<1>7. Len(rest) = Len(stream) - m
  <2>1. stream \in Seq(Nat)
    BY <1>5 DEF Marked
  <2> QED BY <1>5, <2>1
<1> QED BY <1>1, <1>2, <1>3, <1>4, <1>6, <1>7

\* The headers that arrive are those of the response that the client waits for.
LEMMA HeadersInv ==
    ASSUME IInv, UNCHANGED <<server, closing, closedAt>>,
           NEW i \in DOMAIN c.s.pending, CP!HeadersArrive(i)
    PROVE  IInv'
<1> USE DEF server
<1>1. CP!IInv'
  BY ClientParameters, CP!IoInv DEF IInv, Ends
<1>2. PICK b \in Nat : Joint(b)
  BY DEF IInv
<1>3. /\ Placed(c.s.pending[1], Asked(b)) /\ c.callback # 0
      /\ Asked(b) \in Nat \ {0} /\ Len(cIn) \in Nat /\ Len(toClient) \in Nat
  BY <1>2, OpFacts, Facts DEF IInv
<1>4. /\ UNCHANGED <<conn, toServer>>
      /\ c'.callback = c.callback /\ c'.issued = c.issued /\ c'.answers = c.answers
      /\ c.s.pending[1].kind = "headers" /\ cIn # <<>> /\ Head(cIn) > 0
      /\ \E n \in 0 .. Len(cIn) - 1 :
           /\ cIn' = SubSeq(cIn, n + 2, Len(cIn))
           /\ CP!Done(c'.s, "headers", Head(cIn), n)
  BY ClientParameters, CP!HeadersEffect DEF IInv, Ends, CP!Unnoticed
<1>5. PICK k \in Nat \ {0} : k = Asked(b)
  BY <1>3
<1>6. Len(toServer) = ReqSize * k /\ Got = RespSize * (k - 1)
  BY <1>3, <1>4, <1>5 DEF Placed
<1>7. PICK n \in 0 .. Len(cIn) - 1 :
        /\ cIn' = SubSeq(cIn, n + 2, Len(cIn))
        /\ CP!Done(c'.s, "headers", Head(cIn), n)
  BY <1>4
<1>8. Marked(cIn, toClient, RespSize)
  BY <1>2 DEF Joint, Streams
<1>9. Head(cIn) = k
  <2>1. cIn \in Seq(Nat) /\ 1 \in DOMAIN cIn /\ Head(cIn) = cIn[1]
    BY <1>4, <1>8 DEF Marked
  <2>2. Mark(cIn[1], Got + 1, RespSize)
    BY <1>8, <2>1 DEF Marked, Got
  <2> QED BY <1>5, <1>6, <2>1, <2>2 DEF Mark
<1>10. Marked(cIn', toClient, RespSize) /\ Got' = Got + 1 + n
  <2>1. PICK m \in Nat : m = n + 1
    OBVIOUS
  <2>2. m <= Len(cIn) /\ n + 2 = m + 1
    BY <1>3, <1>7, <2>1
  <2>3. Marked(cIn', toClient, RespSize) /\ Len(cIn') = Len(cIn) - m
    <3>1. cIn' = SubSeq(cIn, m + 1, Len(cIn))
      BY <1>7, <2>2
    <3> QED BY <1>3, <1>8, <2>2, <3>1, RestMarked
  <2>4. Len(toClient) - (Len(cIn) - m) = (Len(toClient) - Len(cIn)) + 1 + n
    BY <1>3, <2>1
  <2> QED BY <2>3, <2>4 DEF Got
<1>11. InPlace(b)'
  <2>1. Asked(b)' = k /\ c'.callback # 0
    BY <1>3, <1>4, <1>5 DEF Asked
  <2>2. Len(toServer') = ReqSize * k /\ Got' = RespSize * (k - 1) + 1 + n
    BY <1>4, <1>6, <1>10
  <2>3. Finished([kind |-> "headers", msg |-> k, n |-> n], k)'
    BY <2>2 DEF Finished
  <2> QED BY <1>7, <1>9, <2>1, <2>3, InPlaceNext
<1> QED BY <1>1, <1>2, <1>4, <1>10, <1>11, UnnoticedStep

LEMMA BodyInv ==
    ASSUME IInv, UNCHANGED <<server, closing, closedAt>>,
           NEW i \in DOMAIN c.s.pending, CP!BodyArrives(i)
    PROVE  IInv'
<1> USE DEF server
<1>1. CP!IInv'
  BY ClientParameters, CP!IoInv DEF IInv, Ends
<1>2. PICK b \in Nat : Joint(b)
  BY DEF IInv
<1>3. /\ Placed(c.s.pending[1], Asked(b)) /\ c.callback # 0 /\ c.s.pending[1] \in CP!IoOps
      /\ Asked(b) \in Nat \ {0} /\ Len(cIn) \in Nat /\ Len(toClient) \in Nat
  BY <1>2, OpFacts, Facts DEF IInv
<1>4. /\ UNCHANGED <<conn, toServer>>
      /\ c'.callback = c.callback /\ c'.issued = c.issued /\ c'.answers = c.answers
      /\ c.s.pending[1].kind = "body" /\ Len(cIn) >= c.s.pending[1].n
      /\ cIn' = SubSeq(cIn, c.s.pending[1].n + 1, Len(cIn))
      /\ CP!Done(c'.s, "body", c.s.pending[1].msg, c.s.pending[1].n)
  BY ClientParameters, CP!BodyEffect DEF IInv, Ends, CP!Unnoticed
<1>5. PICK k \in Nat \ {0} : k = Asked(b)
  BY <1>3
<1>6. PICK n \in Nat : n = c.s.pending[1].n
  BY <1>3 DEF CP!IoOps
<1>7. c.s.pending[1].msg = k /\ Len(toServer) = ReqSize * k /\ Got + n = RespSize * k
  BY <1>3, <1>4, <1>5, <1>6 DEF Placed
<1>8. CP!Done(c'.s, "body", k, n) /\ n <= Len(cIn) /\ cIn' = SubSeq(cIn, n + 1, Len(cIn))
  <2>1. n <= Len(cIn)
    BY <1>3, <1>4, <1>6
  <2> QED BY <1>4, <1>6, <1>7, <2>1
<1>9. Marked(cIn, toClient, RespSize)
  BY <1>2 DEF Joint, Streams
<1>10. Marked(cIn', toClient, RespSize) /\ Got' = Got + n
  <2>2. Marked(cIn', toClient, RespSize) /\ Len(cIn') = Len(cIn) - n
    BY <1>3, <1>8, <1>9, RestMarked
  <2>3. Len(toClient) - (Len(cIn) - n) = (Len(toClient) - Len(cIn)) + n
    BY <1>3, <1>8
  <2> QED BY <1>4, <2>2, <2>3 DEF Got
<1>11. InPlace(b)'
  <2>1. Asked(b)' = k /\ c'.callback # 0
    BY <1>3, <1>4, <1>5 DEF Asked
  <2>2. Len(toServer') = ReqSize * k /\ Got' = RespSize * k
    BY <1>4, <1>7, <1>10
  <2>3. Finished([kind |-> "body", msg |-> k, n |-> n], k)'
    BY <2>2 DEF Finished
  <2> QED BY <1>8, <2>1, <2>3, InPlaceNext
<1> QED BY <1>1, <1>2, <1>4, <1>10, <1>11, UnnoticedStep

LEMMA FailsInv ==
    ASSUME IInv, UNCHANGED <<server, closing, closedAt>>,
           NEW i \in DOMAIN c.s.pending, CP!IoFails(i)
    PROVE  IInv'
<1> USE DEF server
<1>1. CP!IInv'
  BY ClientParameters, CP!IoInv DEF IInv, Ends
<1>2. PICK b \in Nat : Joint(b)
  BY DEF IInv
<1>3. c.callback # 0
  BY <1>2, OpFacts DEF IInv
<1>4. /\ UNCHANGED <<conn, toServer, cIn>>
      /\ c'.callback = c.callback /\ c'.issued = c.issued /\ c'.answers = c.answers
      /\ CP!Lost(c'.s)
  BY ClientParameters, CP!FailEffect DEF IInv, Ends, CP!Unnoticed
<1>5. InPlace(b)'
  BY <1>3, <1>4, InPlaceNext
<1>6. Marked(cIn', toClient, RespSize)
  BY <1>2, <1>4 DEF Joint, Streams
<1> QED BY <1>1, <1>2, <1>4, <1>5, <1>6, UnnoticedStep

\* InPlace as a fact of the client and of how far the two streams are.
PlacedAt(op, k, d, n, g) ==
    /\ op.kind = "write" =>
         op.msg = d.callback /\ op.n <= ReqSize /\ n + op.n = ReqSize * k /\ g = RespSize * (k - 1)
    /\ op.kind = "headers" => n = ReqSize * k /\ g = RespSize * (k - 1)
    /\ op.kind = "body" => op.msg = k /\ n = ReqSize * k /\ g + op.n = RespSize * k

FinishedAt(op, k, n, g) ==
    /\ op.kind = "write" => n = ReqSize * k /\ g = RespSize * (k - 1)
    /\ op.kind = "headers" => op.msg = k /\ n = ReqSize * k /\ g = RespSize * (k - 1) + 1 + op.n
    /\ op.kind = "body" => op.msg = k /\ n = ReqSize * k /\ g = RespSize * k

InPlaceAt(d, k, n, g) ==
    d.s.open =>
        /\ \A i \in DOMAIN d.s.pending : PlacedAt(d.s.pending[i], k, d, n, g)
        /\ \A i \in DOMAIN d.s.ready :
             d.s.ready[i].ec = "ok" => FinishedAt(d.s.ready[i], k, n, g)
        /\ d.callback = 0 => n = ReqSize * k /\ g = RespSize * k

LEMMA InPlaceIs ==
    \A b \in Nat : InPlace(b) <=> InPlaceAt(c, Asked(b), Len(toServer), Got)
BY DEF InPlace, InPlaceAt, Placed, PlacedAt, Finished, FinishedAt

LEMMA InPlaceIsNext ==
    \A b \in Nat : InPlace(b)' <=> InPlaceAt(c', Asked(b)', Len(toServer'), Got')
<1>1. (\A b \in Nat : InPlace(b) <=> InPlaceAt(c, Asked(b), Len(toServer), Got))'
  BY InPlaceIs, PTL
<1> QED BY <1>1, Zenon

\* The expiry of its timer leaves an operation where it is.
LEMMA ExpiryInPlace ==
    ASSUME NEW d, NEW e, NEW k, NEW n, NEW g, InPlaceAt(d, k, n, g),
           e.callback = d.callback, e.s.open = d.s.open, e.s.pending = d.s.pending,
           \A i \in DOMAIN e.s.ready :
             \/ i \in DOMAIN d.s.ready /\ e.s.ready[i] = d.s.ready[i]
             \/ e.s.ready[i].kind = "timer"
    PROVE  InPlaceAt(e, k, n, g)
<1> SUFFICES ASSUME d.s.open PROVE InPlaceAt(e, k, n, g)
  BY DEF InPlaceAt
<1>1. ASSUME NEW i \in DOMAIN e.s.ready, e.s.ready[i].ec = "ok"
      PROVE  FinishedAt(e.s.ready[i], k, n, g)
  <2>1. CASE e.s.ready[i].kind = "timer"
    BY <2>1 DEF FinishedAt
  <2>2. CASE i \in DOMAIN d.s.ready /\ e.s.ready[i] = d.s.ready[i]
    <3>1. FinishedAt(d.s.ready[i], k, n, g)
      BY <1>1, <2>2 DEF InPlaceAt
    <3> QED BY <2>2, <3>1
  <2> QED BY <2>1, <2>2
<1>2. ASSUME NEW i \in DOMAIN e.s.pending
      PROVE  PlacedAt(e.s.pending[i], k, e, n, g)
  <2>1. PlacedAt(d.s.pending[i], k, d, n, g)
    BY DEF InPlaceAt
  <2> QED BY <2>1 DEF PlacedAt
<1>3. d.callback = 0 => n = ReqSize * k /\ g = RespSize * k
  BY DEF InPlaceAt
<1> QED BY <1>1, <1>2, <1>3 DEF InPlaceAt

LEMMA ClientTimerInv == ASSUME IInv, ClientTimerExpires PROVE IInv'
<1>1. UNCHANGED <<server, closing, closedAt>> /\ CP!TimerExpires
  BY ClientActsAre DEF ClientTimerExpires
<1> USE DEF server
<1>2. CP!IInv'
  BY <1>1, ClientParameters, CP!TimerInv DEF IInv, Ends
<1>3. PICK b \in Nat : Joint(b)
  BY DEF IInv
<1>4. /\ UNCHANGED <<conn, toServer, cIn>>
      /\ c'.callback = c.callback /\ c'.issued = c.issued /\ c'.answers = c.answers
      /\ c'.s.open = c.s.open /\ c'.s.pending = c.s.pending
      /\ \A k \in DOMAIN c'.s.ready :
           \/ k \in DOMAIN c.s.ready /\ c'.s.ready[k] = c.s.ready[k]
           \/ c'.s.ready[k].kind = "timer"
  BY <1>1, ClientParameters, CP!TimerEffect DEF IInv, Ends, CP!Unnoticed
<1>5. InPlace(b)'
  <2>1. PICK k : k = Asked(b)
    OBVIOUS
  <2>2. InPlaceAt(c, k, Len(toServer), Got)
    BY <1>3, <2>1, InPlaceIs DEF Joint
  <2>3. Got' = Got /\ Len(toServer') = Len(toServer) /\ Asked(b)' = k
    BY <1>1, <1>4, <2>1 DEF Got, Asked
  <2>4. InPlaceAt(c', k, Len(toServer), Got)
    BY <1>4, <2>2, ExpiryInPlace
  <2> QED BY <2>3, <2>4, InPlaceIsNext
<1>6. Marked(cIn', toClient, RespSize)
  BY <1>3, <1>4 DEF Joint, Streams
<1> QED BY <1>1, <1>2, <1>3, <1>4, <1>5, <1>6, UnnoticedStep
LEMMA ClientActsInv == ASSUME IInv, ClientActs PROVE IInv'
<1>1. UNCHANGED <<server, closing, closedAt>>
  BY DEF ClientActs
<1>2. /\ CP!IInv
      /\ \/ CP!Program
         \/ CP!Resolved \/ CP!Connected \/ CP!ConnectFails
         \/ \E i \in DOMAIN c.s.pending :
              CP!HeadersArrive(i) \/ CP!BodyArrives(i) \/ CP!IoFails(i)
  BY ClientActsAre, ClientIoIs DEF ClientActs, IInv, Ends
<1>3. CASE CP!Program
  <2>1. CASE CP!Request
    BY <1>1, <2>1, RequestInv
  <2>2. CASE CP!OnConnected
    <3>1. CP!IInv'
      BY <1>2, <1>3, ClientParameters, CP!ProgramInv
    <3>2. UNCHANGED <<c, toServer, cIn>> /\ conn = "off"
      BY <2>2 DEF CP!OnConnected
    <3> QED BY <1>1, <3>1, <3>2, ConnStep
  <2> QED BY <1>3, <2>1, <2>2 DEF CP!Program
<1>4. CASE CP!Resolved
  BY <1>1, <1>4, ResolvedInv
<1>5. CASE CP!Connected \/ CP!ConnectFails
  <2>1. CP!IInv'
    BY <1>2, <1>5, ClientParameters, CP!ConnectInv
  <2>2. UNCHANGED <<c, toServer, cIn>> /\ conn' \in {"up", "failed"}
    BY <1>5 DEF CP!Connected, CP!ConnectFails
  <2> QED BY <1>1, <2>1, <2>2, ConnStep
<1>6. ASSUME NEW i \in DOMAIN c.s.pending,
             CP!HeadersArrive(i) \/ CP!BodyArrives(i) \/ CP!IoFails(i)
      PROVE  IInv'
  BY <1>1, <1>6, HeadersInv, BodyInv, FailsInv
<1> QED BY <1>2, <1>3, <1>4, <1>5, <1>6

\* What the handler about to run says of the streams.
LEMMA OverFacts ==
    ASSUME IInv, NEW b \in Nat, Joint(b), c.s.open, CP!Running(c.s, CP!IoKinds),
           CP!Op.ec = "ok"
    PROVE  /\ Finished(CP!Op, Asked(b))
           /\ CP!Op \in CP!IoOps
           /\ c.callback # 0
           /\ Asked(b) \in Nat \ {0} /\ Len(toServer) \in Nat /\ Got \in Nat
           /\ Got <= Len(toClient) /\ Len(toClient) \in Nat
           /\ CP!Op.kind # "write" =>
                Asked(b) \in 1 .. Handled /\ Replies[Asked(b)].len = RespSize - 1
<1>1. CP!Op \in CP!IoOps /\ c.callback # 0
      /\ (CP!Op.kind # "write" => CP!Op.msg \in 1 .. Len(Replies))
  BY ClientParameters, CP!RunFacts DEF IInv, Ends
<1>2. Finished(CP!Op, Asked(b))
  <2>1. CP!Op = c.s.ready[1] /\ 1 \in DOMAIN c.s.ready
    <3>1. c.s.ready # <<>> /\ c.s.ready \in Seq(CP!IoOps \cup CP!Timers)
      <4>1. c \in CP!Clients
        BY Facts DEF IInv
      <4>2. c.s \in CP!Sessions
        BY <4>1 DEF CP!Clients
      <4> QED BY <4>2 DEF CP!Sessions, CP!Running
    <3> QED BY <3>1 DEF CP!Op
  <2> QED BY <2>1 DEF Joint, InPlace
<1>3. /\ Len(toServer) \in Nat /\ Got \in Nat /\ Len(toClient) \in Nat /\ Len(cIn) \in Nat
      /\ Replied(b) /\ c.issued \in Nat
  BY Facts DEF IInv, Seen
<1>4. Got <= Len(toClient)
  BY <1>3 DEF Got
<1>5. Asked(b) \in Nat \ {0}
  BY <1>1, <1>3 DEF Joint, Counts, Asked
<1>6. CP!Op.kind # "write" => Asked(b) \in 1 .. Handled /\ Replies[Asked(b)].len = RespSize - 1
  <2>1. CP!Op.kind # "write" => CP!Op.msg = Asked(b)
    BY <1>1, <1>2 DEF Finished, CP!IoOps, CP!IoKinds
  <2> QED BY <1>1, <1>3, <2>1 DEF Replied
<1> QED BY <1>1, <1>2, <1>3, <1>4, <1>5, <1>6

LEMMA LastUnit ==
    ASSUME NEW r \in Nat \ {0}, NEW k \in Nat \ {0}
    PROVE  r * (k - 1) + 1 + (r - 1) = r * k
<1>1. k - 1 \in Nat /\ k = (k - 1) + 1
  OBVIOUS
<1>2. r * ((k - 1) + 1) = r * (k - 1) + r /\ r * (k - 1) \in Nat
  BY <1>1
<1> QED BY <1>1, <1>2

\* A handler that finds a response whole, finds it the one asked for.
LEMMA EndedFacts ==
    ASSUME IInv, NEW b \in Nat, Joint(b), c.s.open, CP!Running(c.s, CP!IoKinds), CP!Ended
    PROVE  /\ Len(toServer) = ReqSize * Asked(b) /\ Got = RespSize * Asked(b)
           /\ CP!Op.msg = Asked(b)
           /\ CP!Success.req = b + CP!Success.reply /\ CP!Success.reply > 0
           /\ RespSize * CP!Success.reply <= Len(toClient)
<1>1. /\ Finished(CP!Op, Asked(b))
      /\ CP!Op \in CP!IoOps
      /\ c.callback # 0
      /\ Asked(b) \in Nat \ {0} /\ Len(toServer) \in Nat /\ Got \in Nat
      /\ Got <= Len(toClient) /\ Len(toClient) \in Nat
      /\ CP!Op.kind # "write" =>
           Asked(b) \in 1 .. Handled /\ Replies[Asked(b)].len = RespSize - 1
  BY OverFacts DEF CP!Ended
<1>2. PICK k \in Nat \ {0} : k = Asked(b)
  BY <1>1
<1>3. CP!Op.kind \in {"headers", "body"}
  BY DEF CP!Ended
<1>4. CP!Op.msg = k /\ Len(toServer) = ReqSize * k
  BY <1>1, <1>2, <1>3 DEF Finished
<1>5. Got = RespSize * k
  <2>1. CASE CP!Op.kind = "body"
    BY <1>1, <1>2, <2>1 DEF Finished
  <2>2. CASE CP!Op.kind = "headers"
    <3>1. Got = RespSize * (k - 1) + 1 + CP!Op.n
      BY <1>1, <1>2, <2>2 DEF Finished
    <3>2. CP!Op.n = RespSize - 1
      BY <1>1, <1>2, <1>4, <2>2 DEF CP!Ended
    <3>3. PICK n : n = CP!Op.n
      OBVIOUS
    <3>4. RespSize * (k - 1) + 1 + (RespSize - 1) = RespSize * k
      BY Sizes, LastUnit
    <3> QED BY <3>1, <3>2, <3>4
  <2> QED BY <1>3, <2>1, <2>2
<1>6. CP!Success.reply = k /\ CP!Success.req = b + k
  <2>1. c.issued \in Nat /\ c.callback = c.issued
    BY <1>1, Facts DEF IInv, Joint, Counts
  <2>2. c.callback = b + k
    BY <1>2, <2>1 DEF Asked
  <2> QED BY <1>4, <2>2 DEF CP!Success
<1>7. RespSize * k <= Len(toClient)
  BY <1>1, <1>5
<1> QED BY <1>2, <1>4, <1>5, <1>6, <1>7

\* The rest of a response after what came with its headers.
LEMMA RestOf ==
    ASSUME NEW r \in Nat \ {0}, NEW k \in Nat \ {0}, NEW n \in Nat, n <= r - 1,
           NEW g, g = r * (k - 1) + 1 + n
    PROVE  g + (r - 1 - n) = r * k
<1>1. PICK a \in Nat : a = r * (k - 1)
  <2>1. k - 1 \in Nat
    OBVIOUS
  <2> QED BY <2>1
<1>2. a + 1 + (r - 1) = r * k
  BY <1>1, LastUnit
<1>3. a + 1 + n + (r - 1 - n) = a + 1 + (r - 1)
  OBVIOUS
<1> QED BY <1>1, <1>2, <1>3

LEMMA RunsIo == CP!Handler /\ CP!Ended => CP!Running(c.s, CP!IoKinds)
BY DEF CP!Handler, CP!HeadersAborted, CP!HeadersRejected, CP!HeadersNeedBody, CP!HeadersComplete,
       CP!BodyFailed, CP!BodyComplete, CP!WriteFailed, CP!WriteDone, CP!TimerFired, CP!Runs,
       CP!Running, CP!Ended, CP!Op, CP!IoKinds

LEMMA ClientHandlesInv == ASSUME IInv, ClientHandles PROVE IInv'
<1>1. UNCHANGED <<s, dispatched, accepted, toClient, sIn, closing, closedAt, toServer>> /\ CP!Handler
  BY ClientHandlerIs DEF ClientHandles, server
<1>2. CP!IInv' /\ CP!Effect
  BY <1>1, ClientParameters, CP!HandlerInv, CP!HandlerEffect DEF IInv, Ends
<1>3. PICK b \in Nat : Joint(b)
  BY DEF IInv
<1>4. /\ UNCHANGED <<conn, toServer, cIn>>
      /\ CP!Adds(c, c', {CP!Success})
      /\ ~(CP!Ended /\ c.s.open) => CP!Adds(c, c', {})
      /\ c'.s.open => CP!GoesOn
  BY <1>2 DEF CP!Effect
<1>5. Marked(cIn', toClient, RespSize) /\ Got' = Got /\ Len(toServer') = Len(toServer)
  BY <1>1, <1>3, <1>4 DEF Joint, Streams, Got
<1>6. InPlace(b)' /\ (c'.callback # 0 => c'.callback = c'.issued /\ b < c'.issued)
  <2>1. CASE ~c'.s.open
    <3>1. c'.callback = 0
      BY <1>2, <2>1 DEF CP!IInv, CP!Good
    <3> QED BY <2>1, <3>1 DEF InPlace
  <2>2. CASE c'.s.open
    <3>1. CP!GoesOn
      BY <1>4, <2>2
    <3>2. /\ c.s.open /\ CP!Running(c.s, CP!IoKinds) /\ CP!Op.ec = "ok"
          /\ \/ /\ CP!Ended
                /\ \/ c'.callback = 0 /\ c'.issued = c.issued
                   \/ CP!Fresh(c', c.issued + 1)
             \/ /\ c'.callback = c.callback /\ c'.issued = c.issued
                /\ \/ /\ CP!Op.kind = "headers" /\ CP!Op.n < Replies[CP!Op.msg].len
                      /\ CP!Doing(c'.s, "body", CP!Op.msg, Replies[CP!Op.msg].len - CP!Op.n)
                   \/ CP!Op.kind = "write" /\ CP!Doing(c'.s, "headers", 0, 0)
      BY <3>1 DEF CP!GoesOn
    <3>3. CASE CP!Ended /\ ((c'.callback = 0 /\ c'.issued = c.issued) \/ CP!Fresh(c', c.issued + 1))
      <4>1. Len(toServer) = ReqSize * Asked(b) /\ Got = RespSize * Asked(b)
        BY <1>3, <3>2, <3>3, EndedFacts
      <4>2. CASE c'.callback = 0 /\ c'.issued = c.issued
        <5>1. Asked(b)' = Asked(b)
          BY <4>2 DEF Asked
        <5>2. Len(toServer') = ReqSize * Asked(b)' /\ Got' = RespSize * Asked(b)'
          BY <1>5, <4>1, <5>1
        <5> QED BY <1>2, <4>2, <5>2, QuietInPlaceNext
      <4>3. CASE CP!Fresh(c', c.issued + 1)
        BY <1>1, <1>3, <1>4, <4>1, <4>3, FreshInPlace DEF IInv
      <4> QED BY <3>3, <4>2, <4>3
    <3>4. CASE /\ c'.callback = c.callback /\ c'.issued = c.issued
               /\ \/ /\ CP!Op.kind = "headers" /\ CP!Op.n < Replies[CP!Op.msg].len
                     /\ CP!Doing(c'.s, "body", CP!Op.msg, Replies[CP!Op.msg].len - CP!Op.n)
                  \/ CP!Op.kind = "write" /\ CP!Doing(c'.s, "headers", 0, 0)
      <4>1. /\ Finished(CP!Op, Asked(b)) /\ CP!Op \in CP!IoOps /\ c.callback # 0
            /\ Asked(b) \in Nat \ {0}
            /\ CP!Op.kind # "write" =>
                 Asked(b) \in 1 .. Handled /\ Replies[Asked(b)].len = RespSize - 1
        BY <1>3, <3>2, OverFacts
      <4>2. PICK k \in Nat \ {0} : k = Asked(b)
        BY <4>1
      <4>3. Asked(b)' = k /\ c'.callback # 0
        BY <3>4, <4>1, <4>2 DEF Asked
      <4>4. c'.callback # 0 => c'.callback = c'.issued /\ b < c'.issued
        BY <1>3, <3>4 DEF Joint, Counts
      <4>5. CASE /\ CP!Op.kind = "headers" /\ CP!Op.n < Replies[CP!Op.msg].len
                 /\ CP!Doing(c'.s, "body", CP!Op.msg, Replies[CP!Op.msg].len - CP!Op.n)
        <5>1. PICK n \in Nat : n = CP!Op.n
          BY <4>1 DEF CP!IoOps
        <5>2. /\ CP!Op.msg = k /\ Len(toServer) = ReqSize * k
              /\ Got = RespSize * (k - 1) + 1 + n
          BY <4>1, <4>2, <4>5, <5>1 DEF Finished
        <5>3. Replies[CP!Op.msg].len = RespSize - 1
          BY <4>1, <4>2, <4>5, <5>2
        <5>4. CP!Doing(c'.s, "body", k, RespSize - 1 - n) /\ n <= RespSize - 1
          BY <4>5, <5>1, <5>2, <5>3, Sizes
        <5>5. PICK g : g = Got
          OBVIOUS
        <5>6. g + (RespSize - 1 - n) = RespSize * k
          BY <5>2, <5>4, <5>5, Sizes, RestOf
        <5>7. PICK m : m = RespSize - 1 - n
          OBVIOUS
        <5>8. Placed([kind |-> "body", msg |-> k, n |-> m], k)'
          BY <1>5, <5>2, <5>5, <5>6, <5>7 DEF Placed
        <5>9. CP!Doing(c'.s, "body", k, m)
          BY <5>4, <5>7
        <5> QED BY <4>3, <4>4, <5>8, <5>9, InPlaceNext
      <4>6. CASE CP!Op.kind = "write" /\ CP!Doing(c'.s, "headers", 0, 0)
        <5>1. Len(toServer) = ReqSize * k /\ Got = RespSize * (k - 1)
          BY <4>1, <4>2, <4>6 DEF Finished
        <5>2. Placed([kind |-> "headers", msg |-> 0, n |-> 0], k)'
          BY <1>5, <5>1 DEF Placed
        <5> QED BY <4>3, <4>4, <4>6, <5>2, InPlaceNext
      <4> QED BY <3>4, <4>5, <4>6
    <3> QED BY <3>2, <3>3, <3>4, Zenon
  <2> QED BY <2>1, <2>2
<1>7. PICK oks : /\ CP!Adds(c, c', oks)
                 /\ \A a \in oks :
                      a.req = b + a.reply /\ a.reply > 0 /\ RespSize * a.reply <= Len(toClient)
  <2>1. CASE CP!Ended /\ c.s.open
    <3>1. CP!Running(c.s, CP!IoKinds)
      BY <1>1, <2>1, RunsIo
    <3>2. PICK a : a = CP!Success
      OBVIOUS
    <3>3. a.req = b + a.reply /\ a.reply > 0 /\ RespSize * a.reply <= Len(toClient)
      BY <1>3, <2>1, <3>1, <3>2, EndedFacts
    <3> QED BY <1>4, <3>2, <3>3
  <2>2. CASE ~(CP!Ended /\ c.s.open)
    BY <1>4, <2>2
  <2> QED BY <2>1, <2>2
<1> QED BY <1>1, <1>2, <1>3, <1>4, <1>5, <1>6, <1>7, ClientStep

(* ------------------------------- the theorems --------------------------- *)

LEMMA StutterInv == ASSUME IInv, UNCHANGED vars PROVE IInv'
<1> USE DEF vars, client, server
<1>1. PICK b \in Nat : Joint(b)
  BY DEF IInv
<1>2. CP!IInv' /\ SP!IInv' /\ SP!Ordered'
  BY ClientStays, ServerStays DEF IInv, Ends
<1>3. Before'
  BY DEF IInv, Before
<1>4. Streams(b)' /\ Counts(b)'
  BY <1>1 DEF Joint, Streams, Counts, Handled, Asked
<1>5. InPlace(b)'
  <2>1. Got' = Got
    BY DEF Got
  <2> QED BY <1>1, <2>1, PlacesStay DEF Joint
<1>6. Answered(b)'
  BY <1>1 DEF Joint, Answered
<1> QED BY <1>2, <1>3, <1>4, <1>5, <1>6 DEF IInv, Ends, Joint

LEMMA NextInv == IInv /\ [Next]_vars => IInv'
<1> SUFFICES ASSUME IInv, [Next]_vars PROVE IInv'
  OBVIOUS
<1>1. CASE ClientActs \/ ClientSends \/ ClientHandles \/ ClientTimerExpires
  BY <1>1, ClientActsInv, ClientSendsInv, ClientHandlesInv, ClientTimerInv
<1>2. CASE Accept
  BY <1>2, AcceptInv
<1>3. CASE ServerReceives \/ ServerSends \/ ServerHandles \/ ServerTimerExpires
  BY <1>3, ServerReceivesInv, ServerSendsInv, ServerHandlesInv, ServerTimerInv
<1>4. CASE UNCHANGED vars
  BY <1>4, StutterInv
<1> QED BY <1>1, <1>2, <1>3, <1>4 DEF Next

LEMMA Invariance == Spec => []IInv
BY InitInv, NextInv, PTL DEF Spec

\* A message that is whole in the log is there with all its units.
LEMMA WholeMessage ==
    ASSUME NEW r \in Nat \ {0}, NEW log, Shape(log, r, 0), NEW k \in Nat \ {0},
           r * k <= Len(log)
    PROVE  Cardinality({x \in DOMAIN log : log[x] = k}) = r
<1> DEFINE a == r * (k - 1)
           z == r * k
           S == {x \in DOMAIN log : log[x] = k}
<1>1. log \in Seq(Nat) /\ Len(log) \in Nat /\ DOMAIN log = 1 .. Len(log)
  BY DEF Shape
<1>2. a \in Nat /\ z \in Nat /\ z = a + r
  <2>1. k - 1 \in Nat /\ k = (k - 1) + 1
    OBVIOUS
  <2> QED BY <2>1
<1>3. \A x : Within(x, r, k) <=> a < x /\ x <= z
  BY DEF Within
<1>4. z <= Len(log)
  OBVIOUS
<1>5. ASSUME NEW x \in DOMAIN log
      PROVE  log[x] = k <=> Within(x, r, k)
  <2>1. ASSUME log[x] = k PROVE Within(x, r, k)
    <3>1. Within(x, r, log[x] - 0)
      BY DEF Shape
    <3>2. log[x] - 0 = k
      BY <2>1
    <3> QED BY <3>1, <3>2
  <2>2. ASSUME Within(x, r, k) PROVE log[x] = k
    <3>1. log[x] = 0 + k
      BY <2>2, UnitName
    <3> QED BY <3>1
  <2> QED BY <2>1, <2>2
<1> HIDE DEF a, z
<1>6. S = a + 1 .. z
  BY <1>1, <1>2, <1>3, <1>4, <1>5
<1>7. Cardinality(a + 1 .. z) = r
  <2>1. a + 1 \in Int /\ z \in Int /\ ~(a + 1 > z) /\ z - (a + 1) + 1 = r
    BY <1>2
  <2> QED BY <2>1, FS_Interval
<1> QED BY <1>6, <1>7

\* An answer with code ok, and what it stands for.
LEMMA OkAnswer ==
    ASSUME Ends, NEW b \in Nat, Joint(b), NEW i \in DOMAIN c.answers,
           c.answers[i].result = "ok"
    PROVE  /\ c.answers[i].reply \in Nat \ {0}
           /\ c.answers[i].req = b + c.answers[i].reply
           /\ RespSize * c.answers[i].reply <= Len(toClient)
           /\ c.answers[i].reply <= Handled
           /\ c.answers[i].reply <= closedAt - b
<1>1. PICK k : k = c.answers[i].reply
  OBVIOUS
<1>2. k \in Nat
  <2>1. c.answers \in Seq(CP!Answers)
    BY Facts DEF CP!Clients
  <2>2. c.answers[i] \in CP!Answers
    BY <2>1
  <2> QED BY <1>1, <2>2 DEF CP!Answers
<1>3. c.answers[i].req = b + k /\ k > 0 /\ RespSize * k <= Len(toClient)
  BY <1>1 DEF Joint, Answered
<1>4. PICK h \in Nat : h = Handled
  BY Facts DEF Replied
<1>5. PICK l \in Nat : l = closedAt - b
  BY Facts DEF Joint, Counts
<1>6. Len(toClient) \in Nat /\ Len(toClient) <= RespSize * h /\ Len(toClient) <= RespSize * l
  BY <1>4, <1>5, Facts DEF Joint, Counts
<1>7. k <= h /\ k <= l
  <2>1. RespSize * k \in Nat /\ RespSize * h \in Nat /\ RespSize * l \in Nat
    BY <1>2, Sizes
  <2>2. ASSUME NEW u \in Nat, NEW v \in Nat, NEW w \in Nat, u <= v, v <= w
        PROVE  u <= w
    BY <2>2
  <2>3. RespSize * k <= RespSize * h /\ RespSize * k <= RespSize * l
    BY <1>3, <1>6, <2>1, <2>2, Zenon
  <2> QED BY <1>2, <2>3, Sizes, Cancel
<1> QED BY <1>1, <1>2, <1>3, <1>4, <1>5, <1>7

\* A callback is called with code ok only with the response that the server made
\* for its request, whole: the two ends find the same beginnings and ends in the
\* stream, in whatever pieces it is written and read, and whatever fails or times
\* out in between.
THEOREM AnswerIsTheServersHolds == Spec => []AnswerIsTheServers
<1>1. IInv => AnswerIsTheServers
  <2> SUFFICES ASSUME IInv, NEW i \in DOMAIN c.answers, c.answers[i].result = "ok"
               PROVE  /\ Arrived[dispatched[c.answers[i].reply].msg] = c.answers[i].req
                      /\ Cardinality({x \in DOMAIN toClient :
                             toClient[x] = dispatched[c.answers[i].reply].msg}) = RespSize
    BY DEF AnswerIsTheServers
  <2>1. PICK b \in Nat : Joint(b)
    BY DEF IInv
  <2>2. PICK k : k = c.answers[i].reply
    OBVIOUS
  <2>3. /\ k \in Nat \ {0} /\ c.answers[i].req = b + k
        /\ RespSize * k <= Len(toClient) /\ k <= Handled
    BY <2>1, <2>2, OkAnswer DEF IInv
  <2>4. Replied(b) /\ Orderly
    BY <2>1, Facts DEF IInv
  <2>5. k \in 1 .. Handled /\ k \in DOMAIN dispatched
    BY <2>3, <2>4 DEF Replied, Orderly, Handled
  <2>6. dispatched[k].msg = k /\ Arrived[dispatched[k].msg] = b + k
    BY <2>4, <2>5 DEF Replied, Orderly, SP!EachRequestOnce
  <2>7. Cardinality({x \in DOMAIN toClient : toClient[x] = k}) = RespSize
    BY <2>1, <2>3, Sizes, WholeMessage DEF Joint, Streams
  <2> QED BY <2>2, <2>3, <2>6, <2>7
<1> QED BY <1>1, Invariance, PTL

\* A request made after the server closed the connection never succeeds, although
\* the client, whose socket is still open, accepts and perhaps sends it.
THEOREM LateRequestFailsHolds == Spec => []LateRequestFails
<1>1. IInv => LateRequestFails
  <2> SUFFICES ASSUME IInv, NEW i \in DOMAIN c.answers, c.answers[i].result = "ok"
               PROVE  c.answers[i].req <= closedAt
    BY DEF LateRequestFails, Ok
  <2>1. PICK b \in Nat : Joint(b)
    BY DEF IInv
  <2>2. PICK k : k = c.answers[i].reply
    OBVIOUS
  <2>3. k \in Nat /\ c.answers[i].req = b + k /\ k <= closedAt - b
    BY <2>1, <2>2, OkAnswer DEF IInv
  <2>4. closedAt \in Nat
    BY <2>1, Facts DEF IInv
  <2> QED BY <2>3, <2>4
<1> QED BY <1>1, Invariance, PTL

(* --------------------------- what is promised --------------------------- *)

\* The two histories of RequestResponse: the requests handled, in order, and what
\* the callbacks were called with.
Hand == [i \in DOMAIN dispatched |-> Arrived[dispatched[i].msg]]

Res == [q \in Over |-> Ok(q)]

\* The requests handled are b + 1, b + 2, ..., all of them made, and those that
\* succeeded are among them.
Promised(b) ==
    /\ c \in CP!Clients /\ CP!Once(c)
    /\ Shape(toServer, ReqSize, b)
    /\ Handled \in Nat
    /\ Handled # 0 => Len(toServer) > 0
    /\ Hand = [i \in 1 .. Handled |-> b + i]
    /\ \A i \in 1 .. Handled : b + i \in 1 .. c.issued
    /\ \A i \in DOMAIN c.answers :
         c.answers[i].result = "ok" => \E j \in 1 .. Handled : c.answers[i].req = b + j

LEMMA PromisedIs == IInv => \E b \in Nat : Promised(b)
<1> SUFFICES ASSUME IInv PROVE \E b \in Nat : Promised(b)
  OBVIOUS
<1>1. PICK b \in Nat : Joint(b)
  BY DEF IInv
<1>2. /\ c \in CP!Clients /\ c.issued \in Nat /\ Handled \in Nat /\ Handled <= Asked(b)
      /\ Replied(b) /\ Orderly /\ Len(toServer) \in Nat
  BY <1>1, Facts DEF IInv, Replied, Seen
<1>3. CP!Once(c) /\ Shape(toServer, ReqSize, b)
  BY <1>1 DEF IInv, Ends, CP!IInv, CP!Good, CP!Stable, Joint, Streams
<1>4. Handled # 0 => Len(toServer) > 0
  <2>1. PICK h \in Nat : h = Handled
    BY <1>2
  <2>2. ReqSize * h <= Len(toServer)
    BY <1>1, <2>1 DEF Joint, Counts
  <2>3. ASSUME h # 0 PROVE Len(toServer) > 0
    <3>1. ReqSize * 1 <= ReqSize * h /\ ReqSize * h \in Nat
      BY <2>3, Sizes, Grows
    <3> QED BY <1>2, <2>2, <3>1, Sizes
  <2> QED BY <2>1, <2>3
<1>5. Hand = [i \in 1 .. Handled |-> b + i]
  <2>1. DOMAIN dispatched = 1 .. Handled
    BY <1>2 DEF Orderly, Handled
  <2>2. \A i \in 1 .. Handled : Arrived[dispatched[i].msg] = b + i
    BY <1>2 DEF Replied
  <2> QED BY <2>1, <2>2 DEF Hand
<1>6. \A i \in 1 .. Handled : b + i \in 1 .. c.issued
  BY <1>2 DEF Asked
<1>7. ASSUME NEW i \in DOMAIN c.answers, c.answers[i].result = "ok"
      PROVE  \E j \in 1 .. Handled : c.answers[i].req = b + j
  <2>1. /\ c.answers[i].reply \in Nat \ {0} /\ c.answers[i].reply <= Handled
        /\ c.answers[i].req = b + c.answers[i].reply
    BY <1>1, <1>7, OkAnswer DEF IInv
  <2>2. PICK k : k = c.answers[i].reply
    OBVIOUS
  <2>3. k \in 1 .. Handled
    BY <1>2, <2>1, <2>2
  <2> QED BY <2>1, <2>2, <2>3
<1> QED BY <1>2, <1>3, <1>4, <1>5, <1>6, <1>7 DEF Promised

LEMMA PromisedIsNext == IInv' => \E b \in Nat : Promised(b)'
<1>1. (IInv => \E b \in Nat : Promised(b))'
  BY PromisedIs, PTL
<1> QED BY <1>1

LEMMA SameBase ==
    ASSUME NEW r \in Nat \ {0}, NEW b \in Nat, NEW d \in Nat,
           NEW log, Shape(log, r, b), Len(log) > 0,
           NEW more, Shape(more, r, d), Len(more) > 0, more[1] = log[1]
    PROVE  b = d
<1>1. 1 \in DOMAIN log /\ 1 \in DOMAIN more /\ log[1] \in Nat
  BY DEF Shape
<1>2. Within(1, r, 1)
  <2>1. Within(r * (1 - 1) + 1, r, 1)
    BY FirstUnit
  <2>2. r * (1 - 1) + 1 = 1
    OBVIOUS
  <2> QED BY <2>1, <2>2
<1>3. Within(1, r, log[1] - b) /\ Within(1, r, log[1] - d)
  BY <1>1 DEF Shape
<1>4. log[1] - b = 1 /\ log[1] - d = 1
  BY <1>2, <1>3, WithinUnique
<1> QED BY <1>1, <1>4

\* The callbacks called in a step, of a client in which each is called once.
OverOf(d) == {d.answers[i].req : i \in DOMAIN d.answers}

OkOf(d, q) == \E i \in DOMAIN d.answers : d.answers[i].req = q /\ d.answers[i].result = "ok"

LEMMA OverGrows ==
    ASSUME NEW d, NEW e, CP!Once(e), NEW oks, CP!Adds(d, e, oks)
    PROVE  /\ OverOf(d) \subseteq OverOf(e)
           /\ OverOf(e) \subseteq 1 .. e.issued
           /\ \A q \in OverOf(d) : OkOf(e, q) = OkOf(d, q)
<1>1. \A i \in DOMAIN d.answers : i \in DOMAIN e.answers /\ e.answers[i] = d.answers[i]
  BY DEF CP!Adds
<1>2. OverOf(d) \subseteq OverOf(e)
  BY <1>1 DEF OverOf
<1>3. OverOf(e) \subseteq 1 .. e.issued
  BY DEF OverOf, CP!Once
<1>4. ASSUME NEW q \in OverOf(d)
      PROVE  OkOf(e, q) <=> OkOf(d, q)
  <2>1. PICK i \in DOMAIN d.answers : d.answers[i].req = q
    BY DEF OverOf
  <2>2. \A j \in DOMAIN e.answers : e.answers[j].req = q => j = i
    BY <1>1, <2>1 DEF CP!Once
  <2> QED BY <1>1, <2>2 DEF OkOf
<1>5. \A q : OkOf(e, q) \in BOOLEAN /\ OkOf(d, q) \in BOOLEAN
  BY DEF OkOf
<1> QED BY <1>2, <1>3, <1>4, <1>5

\* A step in which callbacks may be called and nothing is handled.
LEMMA CallStep ==
    ASSUME IInv, IInv', NEW oks, CP!Adds(c, c', oks), Hand' = Hand
    PROVE  Promise!CallAndCallBack
<1>1. PICK b \in Nat : Promised(b)'
  BY PromisedIsNext
<1>2. PICK a \in Nat : Promised(a)
  BY PromisedIs
<1>3. /\ c'.issued \in Nat /\ c.issued \in Nat /\ c.issued <= c'.issued /\ CP!Once(c')
  <2>1. c \in CP!Clients /\ c' \in CP!Clients /\ CP!Once(c')
    BY <1>1, <1>2 DEF Promised
  <2> QED BY <2>1 DEF CP!Clients, CP!Adds
<1>4. /\ Over = OverOf(c) /\ Over' = OverOf(c')
      /\ \A q : Ok(q) = OkOf(c, q)
      /\ \A q : Ok(q)' = OkOf(c', q)
  BY DEF Over, OverOf, Ok, OkOf
<1>5. PICK R : R = Res
  OBVIOUS
<1>6. PICK S : S = Res'
  OBVIOUS
<1>7. R = [q \in OverOf(c) |-> OkOf(c, q)] /\ S = [q \in OverOf(c') |-> OkOf(c', q)]
  BY <1>4, <1>5, <1>6, Zenon DEF Res
<1>8. /\ DOMAIN R \subseteq DOMAIN S /\ DOMAIN S \subseteq 1 .. c'.issued
      /\ \A q \in DOMAIN R : S[q] = R[q]
  BY <1>3, <1>7, OverGrows
<1>9. ASSUME NEW q \in DOMAIN S \ DOMAIN R, S[q]
      PROVE  \E i \in DOMAIN Hand : Hand[i] = q
  <2>1. OkOf(c', q)
    BY <1>7, <1>9
  <2>2. PICK i \in DOMAIN c'.answers : c'.answers[i].req = q /\ c'.answers[i].result = "ok"
    BY <2>1 DEF OkOf
  <2>3. PICK j \in 1 .. Handled' : q = b + j
    BY <1>1, <2>2 DEF Promised
  <2>4. Hand' = [x \in 1 .. Handled' |-> b + x]
    BY <1>1 DEF Promised
  <2> QED BY <2>3, <2>4
<1>10. Promise!CallAndCallBack <=>
         /\ c'.issued \in Nat /\ c'.issued >= c.issued
         /\ DOMAIN Res \subseteq DOMAIN Res'
         /\ DOMAIN Res' \subseteq 1 .. c'.issued
         /\ \A q \in DOMAIN Res : Res'[q] = Res[q]
         /\ \A q \in DOMAIN Res' \ DOMAIN Res : Res'[q] => \E i \in DOMAIN Hand : Hand[i] = q
         /\ UNCHANGED Hand
  BY Zenon DEF Promise!CallAndCallBack, Res, Hand
<1> QED BY <1>3, <1>5, <1>6, <1>8, <1>9, <1>10

\* What each step does of the two histories: it calls callbacks, or it handles the
\* next request.
Calls ==
    /\ \E oks : CP!Adds(c, c', oks)
    /\ UNCHANGED dispatched
    /\ toServer' = toServer \/ (\E w \in Seq(Nat) : toServer' = toServer \o w)

LEMMA QuietCalls ==
    ASSUME IInv, c'.issued = c.issued, c'.answers = c.answers, UNCHANGED dispatched,
           toServer' = toServer \/ (\E w \in Seq(Nat) : toServer' = toServer \o w)
    PROVE  Calls
<1>1. c \in CP!Clients
  BY PromisedIs DEF Promised
<1>2. CP!Adds(c, c', {})
  BY <1>1, ClientParameters, CP!AddsNothing
<1> QED BY <1>2 DEF Calls

LEMMA ClientActsCalls == ASSUME IInv, ClientActs PROVE Calls
<1>1. UNCHANGED dispatched
  BY DEF ClientActs, server
<1>2. /\ CP!IInv
      /\ \/ CP!Program
         \/ CP!Resolved \/ CP!Connected \/ CP!ConnectFails
         \/ \E i \in DOMAIN c.s.pending :
              CP!HeadersArrive(i) \/ CP!BodyArrives(i) \/ CP!IoFails(i)
  BY ClientActsAre, ClientIoIs DEF ClientActs, IInv, Ends
<1>3. c \in CP!Clients
  BY PromisedIs DEF Promised
<1>4. CASE CP!Request
  <2>1. /\ c.issued < MaxRequests /\ c.callback = 0 /\ c' = CP!AsyncRequest(c)
        /\ UNCHANGED toServer
    BY <1>4 DEF CP!Request
  <2>2. PICK n \in Nat : CP!Good(c, n)
    <3>1. PICK b \in Nat : Joint(b)
      BY DEF IInv
    <3> QED BY <3>1, Facts DEF IInv, Ends, CP!IInv, Replied
  <2>3. ASSUME NEW e, e = CP!AsyncRequest(c)
        PROVE  CP!Adds(c, e, {})
    BY <2>1, <2>2, <2>3, ClientParameters, CP!RequestAdds
  <2> QED BY <1>1, <2>1, <2>3 DEF Calls
<1>5. CASE CP!Resolved
  <2>1. c' = [c EXCEPT !.s.open = TRUE] /\ UNCHANGED toServer
    BY <1>5 DEF CP!Resolved
  <2>2. c'.issued = c.issued /\ c'.answers = c.answers
    BY <1>3, <2>1 DEF CP!Clients
  <2> QED BY <1>1, <2>1, <2>2, QuietCalls
<1>6. CASE CP!OnConnected \/ CP!Connected \/ CP!ConnectFails
  <2>1. UNCHANGED <<c, toServer>>
    BY <1>6 DEF CP!OnConnected, CP!Connected, CP!ConnectFails
  <2> QED BY <1>1, <2>1, QuietCalls
<1>7. ASSUME NEW i \in DOMAIN c.s.pending,
             CP!HeadersArrive(i) \/ CP!BodyArrives(i) \/ CP!IoFails(i)
      PROVE  Calls
  <2>1. UNCHANGED toServer /\ c'.issued = c.issued /\ c'.answers = c.answers
    BY <1>2, <1>7, ClientParameters, CP!HeadersEffect, CP!BodyEffect, CP!FailEffect
       DEF CP!Unnoticed
  <2> QED BY <1>1, <2>1, QuietCalls
<1> QED BY <1>2, <1>4, <1>5, <1>6, <1>7 DEF CP!Program

LEMMA ClientSendsCalls == ASSUME IInv, ClientSends PROVE Calls
<1>1. UNCHANGED dispatched
  BY DEF ClientSends
<1>2. PICK i \in DOMAIN c.s.pending : CP!WriteSome(i)
  BY ClientIoIs DEF ClientSends
<1>3. PICK b \in Nat : Joint(b)
  BY DEF IInv
<1>4. c.s.pending[1] \in CP!IoOps
  BY <1>2, <1>3, OpFacts DEF IInv
<1>5. /\ c'.issued = c.issued /\ c'.answers = c.answers
      /\ \E j \in 1 .. c.s.pending[1].n :
           toServer' = toServer \o [x \in 1 .. j |-> c.s.pending[1].msg]
  BY <1>2, ClientParameters, CP!WriteEffect DEF IInv, Ends, CP!Unnoticed
<1>6. PICK v \in Nat, n \in Nat : v = c.s.pending[1].msg /\ n = c.s.pending[1].n
  BY <1>4 DEF CP!IoOps
<1>7. PICK j \in 1 .. n : toServer' = toServer \o [x \in 1 .. j |-> v]
  BY <1>5, <1>6
<1>8. [x \in 1 .. j |-> v] \in Seq(Nat)
  OBVIOUS
<1> QED BY <1>1, <1>5, <1>7, <1>8, QuietCalls

LEMMA ClientHandlesCalls == ASSUME IInv, ClientHandles PROVE Calls
<1>1. UNCHANGED <<dispatched, toServer>> /\ CP!Handler
  BY ClientHandlerIs DEF ClientHandles, server
<1>2. CP!Adds(c, c', {CP!Success})
  BY <1>1, ClientParameters, CP!HandlerEffect DEF IInv, Ends, CP!Effect
<1> QED BY <1>1, <1>2 DEF Calls

LEMMA ClientTimerCalls == ASSUME IInv, ClientTimerExpires PROVE Calls
<1>1. UNCHANGED <<dispatched, toServer>> /\ CP!TimerExpires
  BY ClientActsAre DEF ClientTimerExpires, server
<1>2. c'.issued = c.issued /\ c'.answers = c.answers
  BY <1>1, ClientParameters, CP!TimerEffect DEF IInv, Ends, CP!Unnoticed
<1> QED BY <1>1, <1>2, QuietCalls

LEMMA ServerCalls ==
    ASSUME IInv, Accept \/ ServerReceives \/ ServerSends \/ ServerTimerExpires
    PROVE  Calls
<1>1. UNCHANGED <<c, toServer>>
  BY DEF Accept, ServerReceives, ServerSends, ServerTimerExpires, client
<1>2. UNCHANGED dispatched
  <2>1. CASE Accept
    BY <2>1 DEF Accept
  <2>2. CASE ServerReceives
    BY <2>2 DEF ServerReceives, Server!HeadersArrive, Server!BodyArrives, Server!IoFails
  <2>3. CASE ServerSends
    BY <2>3 DEF ServerSends, Server!WriteSome
  <2>4. CASE ServerTimerExpires
    BY <2>4 DEF ServerTimerExpires, Server!TimerExpires
  <2> QED BY <2>1, <2>2, <2>3, <2>4
<1> QED BY <1>1, <1>2, QuietCalls

\* A step that handles nothing leaves what was handled: nothing is put before the
\* requests that the server has seen.
LEMMA HandStays == ASSUME IInv, IInv', Calls PROVE Hand' = Hand
<1>1. PICK b \in Nat : Promised(b)
  BY PromisedIs
<1>2. PICK d \in Nat : Promised(d)'
  BY PromisedIsNext
<1>3. Handled' = Handled /\ Handled \in Nat
  BY <1>1 DEF Calls, Handled, Promised
<1>4. /\ Hand = [i \in 1 .. Handled |-> b + i] /\ Hand' = [i \in 1 .. Handled |-> d + i]
      /\ Shape(toServer, ReqSize, b) /\ Shape(toServer', ReqSize, d)
      /\ Handled # 0 => Len(toServer) > 0 /\ Len(toServer') > 0
  BY <1>1, <1>2, <1>3 DEF Promised
<1>5. CASE Handled = 0
  BY <1>4, <1>5
<1>6. CASE Handled # 0
  <2>1. toServer \in Seq(Nat) /\ Len(toServer) > 0
    BY <1>4, <1>6 DEF Shape
  <2>2. toServer'[1] = toServer[1]
    <3>1. ASSUME NEW w \in Seq(Nat) PROVE (toServer \o w)[1] = toServer[1]
      BY <2>1, Joined
    <3>2. toServer' = toServer \/ (\E w \in Seq(Nat) : toServer' = toServer \o w)
      BY DEF Calls
    <3>3. CASE toServer' = toServer
      BY <3>3
    <3>4. ASSUME NEW w \in Seq(Nat), toServer' = toServer \o w
          PROVE  toServer'[1] = toServer[1]
      BY <3>1, <3>4, Zenon
    <3> QED BY <3>2, <3>3, <3>4, Zenon
  <2>3. ASSUME NEW more, Shape(more, ReqSize, d), Len(more) > 0, more[1] = toServer[1]
        PROVE  b = d
    BY <1>4, <2>1, <2>3, Sizes, SameBase
  <2>4. b = d
    BY <1>4, <1>6, <2>2, <2>3
  <2> QED BY <1>4, <2>4
<1> QED BY <1>5, <1>6

\* A request is handled after all that were handled before, once it was made.
LEMMA DispatchIsHandle ==
    ASSUME IInv, IInv', UNCHANGED <<c, toServer>>, SP!Dispatches
    PROVE  Promise!Handle
<1>1. PICK b \in Nat : Promised(b)
  BY PromisedIs
<1>2. PICK d \in Nat : Promised(d)'
  BY PromisedIsNext
<1>3. dispatched \in Seq([msg : Nat, keep : BOOLEAN])
  BY DEF IInv, Ends, SP!IInv, SP!TypeOK
<1>4. Handled' = Handled + 1 /\ Handled \in Nat
  BY <1>1, <1>3 DEF SP!Dispatches, Handled, Promised
<1>5. PICK n \in Nat : n = Handled
  BY <1>4
<1>6. PICK g : g = Hand
  OBVIOUS
<1>7. PICK h : h = Hand'
  OBVIOUS
<1>8. /\ g = [i \in 1 .. n |-> b + i] /\ h = [i \in 1 .. n + 1 |-> d + i]
      /\ d + (n + 1) \in 1 .. c.issued
  <2>1. n + 1 \in 1 .. n + 1
    OBVIOUS
  <2> QED BY <1>1, <1>2, <1>4, <1>5, <1>6, <1>7, <2>1 DEF Promised
<1>9. n # 0 => b = d
  <2> SUFFICES ASSUME n # 0 PROVE b = d
    OBVIOUS
  <2>1. Shape(toServer, ReqSize, b) /\ Shape(toServer, ReqSize, d) /\ Len(toServer) > 0
    BY <1>1, <1>2, <1>5 DEF Promised
  <2> QED BY <2>1, Sizes, SameBase
<1>10. g = [i \in 1 .. n |-> d + i]
  BY <1>8, <1>9
<1>11. h = Append(g, d + (n + 1))
  BY <1>8, <1>10
<1>12. \A i \in DOMAIN g : g[i] < d + (n + 1)
  BY <1>10
<1>13. c'.issued = c.issued /\ Res' = Res
  BY DEF Res, Over, Ok
<1>14. Promise!Handle <=>
         /\ \E q \in 1 .. c.issued :
              /\ \A i \in DOMAIN Hand : Hand[i] < q
              /\ Hand' = Append(Hand, q)
         /\ UNCHANGED <<c.issued, Res>>
  BY Zenon DEF Promise!Handle, Res, Hand
<1> QED BY <1>6, <1>7, <1>8, <1>11, <1>12, <1>13, <1>14

LEMMA StepIsPromised ==
    ASSUME IInv, IInv', [Next]_vars
    PROVE  [Promise!Next]_(Promise!vars)
<1>1. ASSUME Calls PROVE Promise!CallAndCallBack
  BY <1>1, HandStays, CallStep DEF Calls
<1>2. CASE ClientActs \/ ClientSends \/ ClientHandles \/ ClientTimerExpires
  BY <1>1, <1>2, ClientActsCalls, ClientSendsCalls, ClientHandlesCalls, ClientTimerCalls
     DEF Promise!Next
<1>3. CASE Accept \/ ServerReceives \/ ServerSends \/ ServerTimerExpires
  BY <1>1, <1>3, ServerCalls DEF Promise!Next
<1>4. CASE ServerHandles
  <2>1. UNCHANGED <<c, toServer>> /\ SP!Handler
    <3>1. UNCHANGED Missing
      BY <1>4, LogStays DEF ServerHandles
    <3> QED BY <1>4, <3>1, ServerHandlerIs DEF ServerHandles, client
  <2>2. UNCHANGED dispatched \/ SP!Dispatches
    BY <2>1, ServerParameters, SP!HandlerEffect DEF IInv, Ends
  <2>3. CASE UNCHANGED dispatched
    <3>1. Calls
      BY <2>1, <2>3, QuietCalls
    <3> QED BY <1>1, <3>1 DEF Promise!Next
  <2>4. CASE SP!Dispatches
    BY <2>1, <2>4, DispatchIsHandle DEF Promise!Next
  <2> QED BY <2>2, <2>3, <2>4
<1>5. CASE UNCHANGED vars
  <2>1. Calls
    BY <1>5, QuietCalls DEF vars, client, server
  <2> QED BY <1>1, <2>1 DEF Promise!Next
<1> QED BY <1>2, <1>3, <1>4, <1>5 DEF Next

LEMMA InitIsPromised == Init => Promise!Init
<1> SUFFICES ASSUME Init PROVE Promise!Init
  OBVIOUS
<1>1. dispatched = <<>> /\ c.issued = 0 /\ c.answers = <<>>
  BY DEF Init, Client!Init
<1>2. Hand = <<>>
  BY <1>1 DEF Hand
<1>3. Over = {}
  BY <1>1 DEF Over
<1>4. Res = <<>>
  BY <1>3 DEF Res
<1> QED BY <1>1, <1>2, <1>4 DEF Promise!Init, Hand, Res

\* The two state machines, their timers and the streams between them implement
\* what a connection promises the two programs: a request is handled at most once
\* and in order, a callback is called at most once, and with code ok only after the
\* server's handler ran for that very request.
THEOREM Refinement == Spec => ImplementsRequestResponse
<1>1. IInv /\ IInv' /\ [Next]_vars => [Promise!Next]_(Promise!vars)
  BY StepIsPromised
<1> QED BY <1>1, InitIsPromised, Invariance, PTL DEF Spec, ImplementsRequestResponse, Promise!Spec
=============================================================================
