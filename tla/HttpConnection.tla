--------------------------- MODULE HttpConnection ---------------------------
(***************************************************************************)
(* One connection from end to end: a client_session (http/client.cpp) and *)
(* the server_session (http/server.cpp) that do_accept makes for it, each *)
(* with its own timer, joined by the two streams of a socket.  The        *)
(* environment of ServerSession is here the client, and that of           *)
(* ClientSession the server; the network may still fail either end at any *)
(* time, and the two ends learn of each other's end only through it.      *)
(***************************************************************************)
EXTENDS Naturals, Sequences, FiniteSets, Functions

CONSTANTS MaxHeaderSize, MaxBodySize,  \* of both ends' http_configuration
          MaxRequests,  \* bound: how many requests the program makes
          ReqSize,      \* units of a serialized request, the first its headers
          RespSize      \* units of a serialized response, the first its headers

ASSUME ConnectionAssumption ==
    /\ MaxHeaderSize \in Nat /\ MaxBodySize \in Nat
    /\ MaxRequests \in Nat
    /\ ReqSize \in 1 .. MaxBodySize + 1
    /\ RespSize \in 1 .. MaxBodySize + 1

VARIABLES c, conn, escaped,  \* the client, as in ClientSession
          s, dispatched,     \* the server, as in ServerSession
          accepted,          \* do_accept made the server's session
          toServer,          \* every unit the client sent: the request it is of
          toClient,          \* every unit the server sent: the request it answers
          sIn, cIn,          \* what arrived and was not read, as in the modules
          closing,           \* the requests that say Connection: close
          closedAt           \* history: the requests made when the server closed

client == <<c, conn, escaped, toServer, cIn>>
server == <<s, dispatched, accepted, toClient, sIn>>
vars   == <<client, server, closing, closedAt>>

(***************************************************************************)
(* A log names for every unit the message it is of; a message begins      *)
(* where the name changes.  The server numbers the requests as they       *)
(* arrive: one that the client could not send has no number there.        *)
(***************************************************************************)
Begins(log, p) == p = 1 \/ log[p] # log[p - 1]

Messages(log, p) == Cardinality({x \in 1 .. p : Begins(log, x)})

Arrived == [k \in 1 .. Messages(toServer, Len(toServer)) |->
               CHOOSE q \in Range(toServer) :
                   \E p \in DOMAIN toServer :
                       toServer[p] = q /\ Messages(toServer, p) = k]

Sent == [k \in DOMAIN Arrived |->
            [size |-> 1, valid |-> TRUE, len |-> ReqSize - 1, close |-> Arrived[k] \in closing]]

Replies == [i \in DOMAIN dispatched |->
               [to |-> Arrived[dispatched[i].msg], size |-> 1, valid |-> TRUE,
                len |-> RespSize - 1, close |-> ~dispatched[i].keep]]

Client == INSTANCE ClientSession
          WITH Responses <- {}, outbox <- toServer,
               replies <- Replies, todo <- 0, inbox <- cIn

Server == INSTANCE ServerSession
          WITH Requests <- {}, sent <- Sent, todo <- 0, inbox <- sIn, outbox <- toClient

Init ==
    /\ s = Server!NewSession(FALSE)
    /\ dispatched = <<>>
    /\ toClient = <<>>
    /\ sIn = <<>>
    /\ accepted = FALSE
    /\ Client!Init
    /\ closing \in SUBSET (1 .. MaxRequests)
    /\ closedAt = MaxRequests

\* What is to be read, and then the units of log beyond the first n: the unit
\* a message begins with stands for its headers and carries its number.
Deliver(stream, log, n) ==
    stream \o [i \in 1 .. Len(log) - n |->
                  IF Begins(log, n + i) THEN Messages(log, n + i) ELSE 0]

(* ------------------------------- the client ----------------------------- *)

ClientHandles ==
    /\ UNCHANGED toServer
    /\ UNCHANGED <<server, closing, closedAt>>
    /\ Client!Handler

ClientActs ==
    /\ UNCHANGED <<server, closing, closedAt>>
    /\ \/ Client!Program
       \/ Client!Resolved \/ Client!Connected \/ Client!ConnectFails
       \/ \E i \in DOMAIN c.s.pending :
            Client!HeadersArrive(i) \/ Client!BodyArrives(i) \/ Client!IoFails(i)

ClientTimerExpires ==
    /\ UNCHANGED toServer
    /\ UNCHANGED <<server, closing, closedAt>>
    /\ Client!TimerExpires

ClientSends ==
    /\ UNCHANGED <<s, dispatched, accepted, toClient, closing, closedAt>>
    /\ \E i \in DOMAIN c.s.pending : Client!WriteSome(i)
    /\ sIn' = Deliver(sIn, toServer', Len(toServer))

(* ------------------------------- the server ----------------------------- *)

\* The connection of a client that connects waits in the backlog until the
\* handler of do_accept makes a session and calls start().
Accept ==
    /\ ~accepted
    /\ conn \in {"connecting", "up"}
    /\ accepted' = TRUE
    /\ s' = Server!DoRead(Server!NewSession(TRUE))
    /\ UNCHANGED <<client, dispatched, toClient, sIn, closing, closedAt>>

ServerHandles ==
    /\ UNCHANGED toServer
    /\ UNCHANGED <<client, accepted, closing>>
    /\ Server!Handler
    /\ closedAt' = IF s.open /\ ~s'.open THEN c.issued ELSE closedAt

ServerReceives ==
    /\ UNCHANGED <<client, accepted, closing, closedAt>>
    /\ \E i \in DOMAIN s.pending :
         Server!HeadersArrive(i) \/ Server!BodyArrives(i) \/ Server!IoFails(i)

ServerTimerExpires ==
    /\ UNCHANGED toServer
    /\ UNCHANGED <<client, accepted, closing, closedAt>>
    /\ Server!TimerExpires

ServerSends ==
    /\ UNCHANGED <<c, conn, escaped, toServer, accepted, sIn, closing, closedAt>>
    /\ \E i \in DOMAIN s.pending : Server!WriteSome(i)
    /\ cIn' = Deliver(cIn, toClient', Len(toClient))

(* ------------------------------------------------------------------------ *)

Next ==
    \/ ClientActs \/ ClientSends \/ ClientHandles \/ ClientTimerExpires
    \/ Accept
    \/ ServerReceives \/ ServerSends \/ ServerHandles \/ ServerTimerExpires

Spec == Init /\ [][Next]_vars

\* Each program runs its io_context; time passes at both ends; a server that
\* runs accepts.  Nothing is assumed of the network.
Fairness ==
    /\ WF_vars(ClientHandles)
    /\ WF_vars(ClientTimerExpires)
    /\ WF_vars(ServerHandles)
    /\ WF_vars(ServerTimerExpires)

FairSpec == Spec /\ Fairness

(* ------------------------------ properties ------------------------------ *)

Over == {c.answers[i].req : i \in DOMAIN c.answers}

Ok(q) == \E i \in DOMAIN c.answers : c.answers[i].req = q /\ c.answers[i].result = "ok"

Promise == INSTANCE RequestResponse
           WITH issued <- c.issued,
                handled <- [i \in DOMAIN dispatched |-> Arrived[dispatched[i].msg]],
                results <- [q \in Over |-> Ok(q)]

\* The two state machines and the streams between them keep what a connection
\* promises: a request is handled at most once, in order, and reported to have
\* succeeded only if it was handled, whatever fails or times out at either end.
ImplementsRequestResponse == Promise!Spec

\* What a client program is told to be the response to its request is the one
\* that the server made for it, complete: both ends agree where it begins and
\* ends although each reads the stream in pieces of its own.
AnswerIsTheServers ==
    \A i \in DOMAIN c.answers :
        LET a == c.answers[i]
        IN  a.result = "ok" =>
               /\ Arrived[dispatched[a.reply].msg] = a.req
               /\ Cardinality({x \in DOMAIN toClient : toClient[x] = dispatched[a.reply].msg})
                    = RespSize

\* A client looks at is_open of its own socket, which says nothing of the
\* server: a request made after the server closed the connection is accepted,
\* and never succeeds.
LateRequestFails == \A q \in Over : Ok(q) => q <= closedAt

\* A server does not keep the connection of a client that is gone or silent:
\* it closes it, by the end of the stream or by its own timeout.
ServerLetsGo == accepted ~> ~s.open
=============================================================================
