---------------------------- MODULE HttpMessage ----------------------------
(***************************************************************************)
(* Messages of http/common.cpp, http/request.cpp and http/response.cpp:   *)
(* what serialize writes and what parse makes of it.  A body is its       *)
(* length, a path is one word, and of the headers only those that the     *)
(* code itself reads or writes have names of their own.                   *)
(***************************************************************************)
EXTENDS Naturals, Sequences, FiniteSets

CONSTANTS Paths,          \* of requests
          RequestHeaders, \* what a program may pass as the headers of a request
          HandlerHeaders, \* and a handler as those of its response
          MaxLength,      \* bound: lengths of bodies
          MaxBody         \* max_body_size of http_configuration

ASSUME LengthAssumption == MaxLength \in Nat /\ MaxBody \in Nat

Bodies == 0 .. MaxLength

(* -------------------------------- headers ------------------------------- *)

\* utils::normalize: case does not count.  Of each name there are the spelling
\* of serialize, the normal form, and one that stands for all others.
Normalize ==
    [n \in {"Connection", "connection", "CONNECTION",
            "Content-Length", "content-length", "CONTENT-LENGTH",
            "Content-Type", "content-type", "Host", "host", "HOST"} |->
       CASE n \in {"Connection", "connection", "CONNECTION"}             -> "connection"
         [] n \in {"Content-Length", "content-length", "CONTENT-LENGTH"} -> "content-length"
         [] n \in {"Content-Type", "content-type"}                       -> "content-type"
         [] n \in {"Host", "host", "HOST"}                               -> "host"]

Names == DOMAIN Normalize

\* Values: a word, or the decimal digits of a length.
Values == [word : {"", "close", "keep-alive", "other"}, digits : Nat]

Word(w)   == [word |-> w, digits |-> 0]
Digits(n) == [word |-> "", digits |-> n]

\* A headers_t is an unordered_map with an operator[] and a find of its own,
\* which normalise the name.  Its insert and emplace do not, so that a name may
\* be there as it is spelt, and in several spellings.
IsHeaders(h) ==
    /\ DOMAIN h \subseteq Names /\ IsFiniteSet(DOMAIN h)
    /\ h \in [DOMAIN h -> Values]

ASSUME HeadersAssumption == \A h \in RequestHeaders \cup HandlerHeaders : IsHeaders(h)

NoHeaders == [k \in {} |-> Word("")]

\* operator[], assigned to
SetHeader(h, n, v) ==
    [k \in DOMAIN h \cup {Normalize[n]} |-> IF k = Normalize[n] THEN v ELSE h[k]]

\* headers_t::parse: of lines with the same name the last one counts.
ParseHeaders(lines) ==
    LET last(k) == CHOOSE i \in DOMAIN lines :
                      /\ Normalize[lines[i].name] = k
                      /\ \A j \in i + 1 .. Len(lines) : Normalize[lines[j].name] # k
    IN  [k \in {Normalize[lines[i].name] : i \in DOMAIN lines} |-> lines[last(k)].value]

\* content_length() throws unless the value is a number.
LengthValid(h) == "content-length" \in DOMAIN h => h["content-length"].word = ""

ContentLength(h) == IF "content-length" \in DOMAIN h THEN h["content-length"].digits ELSE 0

\* The test of the hooks: anything but "close" keeps the connection.
KeepAlive(h) == ~("connection" \in DOMAIN h /\ h["connection"] = Word("close"))

\* on_headers_read: all of a message's headers and `part' of its body are read.
\* It compares this part with the Content-Length, and not the whole body.
Refused(h, part) == ~LengthValid(h) \/ ContentLength(h) > MaxBody \/ part > ContentLength(h)

\* It is done with the message: do_remaining_read takes what the Content-Length
\* says, which must come for that, and leaves what may follow.
Taken(w, part) ==
    LET h == ParseHeaders(w.lines) IN ~Refused(h, part) /\ ContentLength(h) <= w.body

(* -------------------------------- requests ------------------------------ *)

Methods == {"GET", "POST", "PUT", "DELETE_", "PATCH", "HEAD", "OPTIONS", "UNKNOWN"}

MethodToString(m) == IF m = "DELETE_" THEN "DELETE" ELSE m

StringToMethod(w) ==
    IF w = "DELETE" THEN "DELETE_"
    ELSE IF w \in Methods \ {"DELETE_"} THEN w ELSE "UNKNOWN"

Requests == [method : Methods, path : Paths, headers : RequestHeaders, body : Bodies]

\* The order in which an unordered_map yields its keys is not specified.
Orders(K) == {p \in [1 .. Cardinality(K) -> K] : K = {p[i] : i \in DOMAIN p}}

Lines(h, order) == [i \in DOMAIN order |-> [name |-> order[i], value |-> h[order[i]]]]

Line(n, v) == <<[name |-> n, value |-> v]>>

Spelt(h, n) == \E k \in DOMAIN h : Normalize[k] = n

\* (Wrong on purpose: names compared as the response compares them.)
RequestCaseSensitive(r, order) ==
    [word  |-> MethodToString(r.method),
     path  |-> r.path,
     lines |-> Lines(r.headers, order)
               \o (IF "Connection" \in DOMAIN r.headers THEN <<>>
                   ELSE Line("Connection", Word("close")))
               \o (IF "Content-Length" \in DOMAIN r.headers \/ r.body = 0 THEN <<>>
                   ELSE Line("Content-Length", Digits(r.body))),
     body  |-> r.body]

SerializeRequest(r, order) ==
    [word  |-> MethodToString(r.method),
     path  |-> r.path,
     lines |-> Lines(r.headers, order)
               \o (IF Spelt(r.headers, "connection") THEN <<>>
                   ELSE Line("Connection", Word("close")))
               \o (IF Spelt(r.headers, "content-length") \/ r.body = 0 THEN <<>>
                   ELSE Line("Content-Length", Digits(r.body))),
     body  |-> r.body]

\* request::parse of the headers, with as much of the body as is read in the end
ParseRequest(w, body) ==
    [method |-> StringToMethod(w.word), path |-> w.path,
     headers |-> ParseHeaders(w.lines), body |-> body]

(* ------------------------------- responses ------------------------------ *)

\* (Wrong on purpose: the Content-Length of the handler goes out as it is.)
ResponseTrustsLength(r, order) ==
    [code  |-> r.code,
     lines |-> Lines(r.headers, order)
               \o (IF "content-length" \in DOMAIN r.headers THEN <<>>
                   ELSE Line("Content-Length", Digits(r.body)))
               \o (IF "connection" \in DOMAIN r.headers THEN <<>>
                   ELSE Line("Connection", Word("close"))),
     body  |-> r.body]

\* (Wrong on purpose: the default of HTTP/1.1.)
ResponseKeepsAlive(r, order) ==
    [code  |-> r.code,
     lines |-> Lines(r.headers, order)
               \o Line("Content-Length", Digits(r.body))
               \o Line("Connection", Word("keep-alive")),
     body  |-> r.body]

\* Names are compared as they are spelt: one that operator[] put in is in lower
\* case and not found.
SerializeResponse(r, order) ==
    [code  |-> r.code,
     lines |-> Lines(r.headers, order)
               \o (IF "Content-Length" \in DOMAIN r.headers THEN <<>>
                   ELSE Line("Content-Length", Digits(r.body)))
               \o (IF "Connection" \in DOMAIN r.headers THEN <<>>
                   ELSE Line("Connection", Word("close"))),
     body  |-> r.body]

ParseResponse(w, body) == [code |-> w.code, headers |-> ParseHeaders(w.lines), body |-> body]

\* simple, and text and json, which differ in the Content-Type
Simple(code) == [code |-> code, headers |-> NoHeaders, body |-> 0]

Text(code, body) ==
    [code    |-> code,
     headers |-> SetHeader(SetHeader(NoHeaders, "Content-Type", Word("other")),
                           "Content-Length", Digits(body)),
     body    |-> body]
=============================================================================
