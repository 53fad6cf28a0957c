------------------------- MODULE HttpExchangeProofs -------------------------
(***************************************************************************)
(* What the two ends of an exchange agree on: for every request of the    *)
(* client and every answer of the server's handlers, with any headers in  *)
(* any spelling and any order, bodies of any length and cut anywhere.      *)
(***************************************************************************)
EXTENDS HttpExchange, SequenceTheorems, FiniteSetTheorems, WellFoundedInduction, TLAPS

(* -------------------------- headers on the wire -------------------------- *)

HeaderLines == [name : Names, value : Values]

LEMMA NormalizeFacts ==
    /\ Names = {"Connection", "connection", "CONNECTION",
                "Content-Length", "content-length", "CONTENT-LENGTH",
                "Content-Type", "content-type", "Host", "host", "HOST"}
    /\ Normalize["Connection"] = "connection" /\ Normalize["connection"] = "connection"
    /\ Normalize["Content-Length"] = "content-length"
    /\ Normalize["content-length"] = "content-length"
    /\ Normalize["Content-Type"] = "content-type"
    /\ Normalize["Host"] = "host"
BY DEF Normalize, Names

\* A normal form is a name, and its own normal form.
LEMMA NormalFormFacts ==
    \A n \in Names : Normalize[n] \in Names /\ Normalize[Normalize[n]] = Normalize[n]
BY DEF Normalize, Names

\* The line that counts for its name is the only one with that name after
\* which there is no other.
IsLast(lines, i) ==
    \A j \in i + 1 .. Len(lines) : Normalize[lines[j].name] # Normalize[lines[i].name]

LEMMA LastCounts ==
    ASSUME NEW lines \in Seq(HeaderLines), NEW i \in DOMAIN lines, IsLast(lines, i)
    PROVE  ParseHeaders(lines)[Normalize[lines[i].name]] = lines[i].value
<1> DEFINE k == Normalize[lines[i].name]
           Last(m) == /\ Normalize[lines[m].name] = k
                      /\ \A j \in m + 1 .. Len(lines) : Normalize[lines[j].name] # k
<1>1. DOMAIN lines = 1 .. Len(lines) /\ Len(lines) \in Nat
  OBVIOUS
<1>2. Last(i)
  BY DEF IsLast
<1>3. \A m \in DOMAIN lines : Last(m) => m = i
  <2> SUFFICES ASSUME NEW m \in DOMAIN lines, Last(m), m # i PROVE FALSE
    OBVIOUS
  <2>1. m \in 1 .. Len(lines) /\ i \in 1 .. Len(lines)
    BY <1>1
  <2>2. m < i => i \in m + 1 .. Len(lines)
    BY <1>1, <2>1
  <2>3. i < m => m \in i + 1 .. Len(lines)
    BY <1>1, <2>1
  <2>4. m < i \/ i < m
    BY <2>1
  <2> HIDE DEF k
  <2> QED BY <2>2, <2>3, <2>4, <1>2 DEF k
<1>4. (CHOOSE m \in DOMAIN lines : Last(m)) = i
  BY <1>2, <1>3
<1>5. k \in {Normalize[lines[m].name] : m \in DOMAIN lines}
  OBVIOUS
<1> QED BY <1>4, <1>5 DEF ParseHeaders

\* Of indices there is a greatest, since the numbers are well founded.
LEMMA Greatest ==
    ASSUME NEW n \in Nat, NEW T \in SUBSET (1 .. n), T # {}
    PROVE  \E m \in T : \A k \in T : k <= m
<1> DEFINE R == OpToRel(<, Nat)
           U == {n - k : k \in T}
<1>1. IsWellFoundedOn(R, Nat)
  BY NatLessThanWellFounded
<1>2. \A a, b \in Nat : a < b => <<a, b>> \in R
  BY DEF OpToRel
<1> HIDE DEF R
<1>3. U \subseteq Nat /\ U # {}
  <2>1. \A k \in T : n - k \in Nat
    OBVIOUS
  <2>2. U \subseteq Nat
    BY <2>1
  <2>3. PICK k : k \in T
    OBVIOUS
  <2>4. n - k \in U
    BY <2>3
  <2> QED BY <2>2, <2>4
<1>4. PICK x \in U : \A y \in U : <<y, x>> \notin R
  <2> HIDE DEF U
  <2> QED BY <1>1, <1>3, WFMin
<1>5. PICK m \in T : x = n - m
  OBVIOUS
<1>6. ASSUME NEW k \in T PROVE k <= m
  <2>1. <<n - k, n - m>> \notin R
    BY <1>4, <1>5
  <2>2. ~(n - k < n - m)
    BY <2>1, <1>2
  <2> QED BY <2>2
<1> QED BY <1>6

\* serialize writes the headers in some order and lines of its own after them.
LEMMA LinesType ==
    ASSUME NEW h, IsHeaders(h), NEW order \in Orders(DOMAIN h)
    PROVE  /\ Lines(h, order) \in Seq(HeaderLines)
           /\ Len(Lines(h, order)) = Len(order) /\ Len(order) \in Nat
           /\ DOMAIN order = 1 .. Len(order)
           /\ \A i \in DOMAIN order :
                 /\ order[i] \in DOMAIN h
                 /\ Lines(h, order)[i] = [name |-> order[i], value |-> h[order[i]]]
           /\ \A k \in DOMAIN h : \E i \in DOMAIN order : order[i] = k
<1> DEFINE n == Cardinality(DOMAIN h)
<1>1. n \in Nat
  BY FS_CardinalityType DEF IsHeaders
<1>2. order \in [1 .. n -> DOMAIN h] /\ DOMAIN h = {order[i] : i \in DOMAIN order}
  BY DEF Orders
<1> HIDE DEF n
<1>3. /\ DOMAIN order = 1 .. n /\ order \in Seq(DOMAIN h)
      /\ Len(order) = n
  BY <1>1, <1>2
<1>4. \A i \in DOMAIN order :
         order[i] \in DOMAIN h /\ order[i] \in Names /\ h[order[i]] \in Values
  BY <1>2 DEF IsHeaders
<1>5. \A i \in DOMAIN order : [name |-> order[i], value |-> h[order[i]]] \in HeaderLines
  BY <1>4 DEF HeaderLines
<1>6. Lines(h, order) \in [1 .. n -> HeaderLines]
  BY <1>3, <1>5 DEF Lines
<1>7. Lines(h, order) \in Seq(HeaderLines) /\ Len(Lines(h, order)) = n
  BY <1>1, <1>6
<1>8. \A i \in DOMAIN order : Lines(h, order)[i] = [name |-> order[i], value |-> h[order[i]]]
  BY DEF Lines
<1>9. \A k \in DOMAIN h : \E i \in DOMAIN order : order[i] = k
  BY <1>2
<1> QED BY <1>1, <1>3, <1>4, <1>7, <1>8, <1>9

\* What parse makes of them: of each name one of the values that the headers have
\* for it, but of the names of serialize's own lines what it wrote last.
Merges(h, extra, parsed) ==
    /\ DOMAIN parsed = {Normalize[k] : k \in DOMAIN h}
                          \cup {Normalize[extra[j].name] : j \in DOMAIN extra}
    /\ \A k \in DOMAIN h :
          (\A j \in DOMAIN extra : Normalize[extra[j].name] # Normalize[k])
            => parsed[Normalize[k]] \in ValuesOf(h, Normalize[k])
    /\ \A j \in DOMAIN extra :
          IsLast(extra, j) => parsed[Normalize[extra[j].name]] = extra[j].value

LEMMA Parsed ==
    ASSUME NEW h, IsHeaders(h), NEW order \in Orders(DOMAIN h), NEW extra \in Seq(HeaderLines)
    PROVE  Merges(h, extra, ParseHeaders(Lines(h, order) \o extra))
<1> DEFINE first == Lines(h, order)
           lines == first \o extra
           n     == Len(order)
<1>1. /\ first \in Seq(HeaderLines) /\ Len(first) = n /\ n \in Nat
      /\ DOMAIN order = 1 .. n
  BY LinesType
<1>2. /\ \A i \in 1 .. n :
           /\ order[i] \in DOMAIN h
           /\ first[i].name = order[i] /\ first[i].value = h[order[i]]
      /\ \A k \in DOMAIN h : \E i \in 1 .. n : order[i] = k
  <2>1. ASSUME NEW i \in 1 .. n
        PROVE  /\ order[i] \in DOMAIN h
               /\ first[i] = [name |-> order[i], value |-> h[order[i]]]
    BY <1>1, LinesType
  <2>2. \A k \in DOMAIN h : \E i \in DOMAIN order : order[i] = k
    BY LinesType
  <2> HIDE DEF first, n
  <2> QED BY <1>1, <2>1, <2>2
<1> HIDE DEF first, n
<1>3. /\ lines \in Seq(HeaderLines) /\ Len(lines) = n + Len(extra)
      /\ Len(extra) \in Nat /\ DOMAIN extra = 1 .. Len(extra)
      /\ \A i \in 1 .. n : lines[i] = first[i]
      /\ \A j \in 1 .. Len(extra) : lines[n + j] = extra[j]
      /\ DOMAIN lines = 1 .. n + Len(extra)
  <2>1. Len(extra) \in Nat /\ DOMAIN extra = 1 .. Len(extra)
    OBVIOUS
  <2>2. /\ lines \in Seq(HeaderLines) /\ Len(lines) = n + Len(extra)
        /\ \A i \in 1 .. n + Len(extra) :
              lines[i] = IF i <= n THEN first[i] ELSE extra[i - n]
    BY <1>1, ConcatProperties
  <2> HIDE DEF lines
  <2>3. DOMAIN lines = 1 .. n + Len(extra)
    BY <2>2
  <2>4. ASSUME NEW i \in 1 .. n PROVE lines[i] = first[i]
    <3>1. i \in 1 .. n + Len(extra) /\ i <= n
      BY <1>1, <2>1
    <3> QED BY <3>1, <2>2
  <2>5. ASSUME NEW j \in 1 .. Len(extra) PROVE lines[n + j] = extra[j]
    <3>1. PICK i \in 1 .. n + Len(extra) : i = n + j /\ ~(i <= n) /\ i - n = j
      BY <1>1, <2>1
    <3>2. lines[i] = extra[i - n]
      BY <3>1, <2>2
    <3> QED BY <3>1, <3>2
  <2>6. \A i \in 1 .. n : lines[i] = first[i]
    BY <2>4
  <2>7. \A j \in 1 .. Len(extra) : lines[n + j] = extra[j]
    BY <2>5
  <2> QED BY <2>1, <2>2, <2>3, <2>6, <2>7
<1> HIDE DEF lines
<1>4. ASSUME NEW i \in 1 .. n + Len(extra), i \notin 1 .. n
      PROVE  i - n \in DOMAIN extra /\ lines[i] = extra[i - n]
  <2>1. i - n \in 1 .. Len(extra) /\ n + (i - n) = i
    BY <1>1, <1>3, <1>4
  <2>2. lines[n + (i - n)] = extra[i - n]
    BY <2>1, <1>3
  <2> QED BY <2>1, <2>2, <1>3
<1>5. DOMAIN ParseHeaders(lines) = {Normalize[lines[i].name] : i \in 1 .. n + Len(extra)}
  BY <1>3 DEF ParseHeaders
<1> DEFINE own == {Normalize[k] : k \in DOMAIN h}
           extras == {Normalize[extra[j].name] : j \in DOMAIN extra}
<1>6. DOMAIN ParseHeaders(lines) = own \cup extras
  <2>1. ASSUME NEW i \in 1 .. n + Len(extra)
        PROVE  Normalize[lines[i].name] \in own \cup extras
    <3>1. CASE i \in 1 .. n
      BY <3>1, <1>2, <1>3
    <3>2. CASE i \notin 1 .. n
      BY <3>2, <1>4
    <3> QED BY <3>1, <3>2
  <2>2. ASSUME NEW k \in DOMAIN h
        PROVE  \E i \in 1 .. n + Len(extra) : Normalize[lines[i].name] = Normalize[k]
    <3>1. PICK i \in 1 .. n : order[i] = k
      BY <1>2
    <3>2. i \in 1 .. n + Len(extra)
      BY <1>1, <1>3
    <3> QED BY <3>1, <3>2, <1>2, <1>3
  <2>3. ASSUME NEW j \in DOMAIN extra
        PROVE  \E i \in 1 .. n + Len(extra) : Normalize[lines[i].name] = Normalize[extra[j].name]
    <3>1. n + j \in 1 .. n + Len(extra)
      BY <1>1, <1>3
    <3> QED BY <3>1, <1>3
  <2> DEFINE all == {Normalize[lines[i].name] : i \in 1 .. n + Len(extra)}
  <2>4. all \subseteq own \cup extras
    BY <2>1
  <2>5. own \subseteq all
    BY <2>2
  <2>6. extras \subseteq all
    BY <2>3
  <2>7. DOMAIN ParseHeaders(lines) = all
    BY <1>5
  <2> HIDE DEF own, extras, all
  <2> QED BY <2>4, <2>5, <2>6, <2>7
<1>7. ASSUME NEW k \in DOMAIN h, \A j \in DOMAIN extra : Normalize[extra[j].name] # Normalize[k]
      PROVE  ParseHeaders(lines)[Normalize[k]] \in ValuesOf(h, Normalize[k])
  <2> DEFINE T == {i \in 1 .. n : Normalize[order[i]] = Normalize[k]}
  <2>1. T \in SUBSET (1 .. n) /\ T # {}
    BY <1>2
  <2>2. PICK i \in T : \A m \in T : m <= i
    <3> HIDE DEF T
    <3> QED BY <1>1, <2>1, Greatest
  <2>3. /\ Normalize[lines[i].name] = Normalize[k] /\ lines[i].value = h[order[i]]
        /\ i \in 1 .. n /\ order[i] \in DOMAIN h /\ Normalize[order[i]] = Normalize[k]
    BY <1>2, <1>3
  <2>4. ASSUME NEW m \in i + 1 .. Len(lines) PROVE Normalize[lines[m].name] # Normalize[k]
    <3>1. m \in 1 .. n + Len(extra) /\ ~(m <= i)
      BY <1>1, <1>3, <2>3
    <3>2. CASE m \in 1 .. n
      <4>1. Normalize[order[m]] # Normalize[k] /\ lines[m] = first[m]
        BY <3>1, <3>2, <2>2, <1>3
      <4>2. first[m].name = order[m]
        BY <3>2, <1>2
      <4> QED BY <4>1, <4>2
    <3>3. CASE m \notin 1 .. n
      BY <3>1, <3>3, <1>4, <1>7
    <3> QED BY <3>2, <3>3
  <2>5. IsLast(lines, i)
    BY <2>3, <2>4 DEF IsLast
  <2>6. i \in DOMAIN lines
    BY <2>3, <1>1, <1>3
  <2>7. ParseHeaders(lines)[Normalize[k]] = h[order[i]]
    BY <2>3, <2>5, <2>6, <1>3, LastCounts
  <2> QED BY <2>3, <2>7 DEF ValuesOf
<1>8. ASSUME NEW j \in DOMAIN extra, IsLast(extra, j)
      PROVE  ParseHeaders(lines)[Normalize[extra[j].name]] = extra[j].value
  <2>1. n + j \in 1 .. n + Len(extra) /\ lines[n + j] = extra[j]
    BY <1>1, <1>3
  <2>2. ASSUME NEW m \in n + j + 1 .. Len(lines)
        PROVE  Normalize[lines[m].name] # Normalize[extra[j].name]
    <3>1. m \in 1 .. n + Len(extra) /\ m \notin 1 .. n /\ m - n \in j + 1 .. Len(extra)
      BY <1>1, <1>3
    <3>2. lines[m] = extra[m - n]
      BY <3>1, <1>4
    <3> QED BY <3>1, <3>2, <1>8 DEF IsLast
  <2>3. IsLast(lines, n + j)
    BY <2>1, <2>2 DEF IsLast
  <2> QED BY <2>1, <2>3, <1>3, LastCounts
<1> QED BY <1>6, <1>7, <1>8 DEF Merges, lines, first

(* -------------------------------- requests ------------------------------ *)

LEMMA ValuesFacts ==
    /\ \A w \in {"", "close", "keep-alive", "other"} : Word(w) \in Values /\ Word(w).word = w
    /\ \A n \in Nat : Digits(n) \in Values /\ Digits(n).word = "" /\ Digits(n).digits = n
    /\ Bodies \subseteq Nat
<1>1. \A w \in {"", "close", "keep-alive", "other"} : Word(w) \in Values /\ Word(w).word = w
  BY DEF Word, Values
<1>2. \A n \in Nat : Digits(n) \in Values /\ Digits(n).word = "" /\ Digits(n).digits = n
  BY DEF Digits, Values
<1>3. Bodies \subseteq Nat
  BY LengthAssumption DEF Bodies
<1> QED BY <1>1, <1>2, <1>3

LEMMA SetHeaderIsHeaders ==
    ASSUME NEW h, IsHeaders(h), NEW n \in Names, NEW v \in Values
    PROVE  /\ IsHeaders(SetHeader(h, n, v))
           /\ DOMAIN SetHeader(h, n, v) = DOMAIN h \cup {Normalize[n]}
           /\ SetHeader(h, n, v)[Normalize[n]] = v
<1>1. Normalize[n] \in Names
  BY NormalFormFacts
<1>2. IsFiniteSet(DOMAIN h \cup {Normalize[n]})
  BY FS_AddElement DEF IsHeaders
<1> QED BY <1>1, <1>2 DEF IsHeaders, SetHeader

LEMMA LineFacts ==
    ASSUME NEW n \in Names, NEW v \in Values
    PROVE  /\ Line(n, v) \in Seq(HeaderLines) /\ Len(Line(n, v)) = 1
           /\ DOMAIN Line(n, v) = {1}
           /\ Line(n, v)[1].name = n /\ Line(n, v)[1].value = v
<1>1. [name |-> n, value |-> v] \in HeaderLines
  BY DEF HeaderLines
<1> QED BY <1>1 DEF Line

LEMMA NoHeadersFacts == IsHeaders(NoHeaders)
BY FS_EmptySet DEF IsHeaders, NoHeaders

\* What the client completes is a request with headers of its own and a
\* Connection.
IsRequest(r) ==
    /\ r.method \in Methods /\ r.body \in Nat /\ IsHeaders(r.headers)
    /\ Spelt(r.headers, "connection")

LEMMA CompletedIsRequest ==
    ASSUME NEW r \in Requests
    PROVE  IsRequest(Completed(r))
<1> DEFINE host == IF {"host", "Host"} \cap DOMAIN r.headers # {} THEN r.headers
                   ELSE SetHeader(r.headers, "Host", Word("other"))
           headers == IF {"connection", "Connection"} \cap DOMAIN host # {} THEN host
                      ELSE SetHeader(host, "Connection", Word("keep-alive"))
<1>1. IsHeaders(host)
  <2>1. IsHeaders(r.headers)
    BY HeadersAssumption DEF Requests
  <2>2. "Host" \in Names /\ Word("other") \in Values
    BY NormalizeFacts, ValuesFacts
  <2>3. IsHeaders(SetHeader(r.headers, "Host", Word("other")))
    BY <2>1, <2>2, SetHeaderIsHeaders
  <2> QED BY <2>1, <2>3
<1> HIDE DEF host
<1>2. IsHeaders(headers) /\ Spelt(headers, "connection")
  <2>1. /\ "Connection" \in Names /\ Word("keep-alive") \in Values
        /\ Normalize["Connection"] = "connection" /\ Normalize["connection"] = "connection"
    BY NormalizeFacts, ValuesFacts
  <2>2. CASE {"connection", "Connection"} \cap DOMAIN host # {}
    <3>1. headers = host
      BY <2>2
    <3>2. \E k \in DOMAIN host : Normalize[k] = "connection"
      BY <2>1, <2>2
    <3> QED BY <1>1, <3>1, <3>2 DEF Spelt
  <2>3. CASE {"connection", "Connection"} \cap DOMAIN host = {}
    <3>1. headers = SetHeader(host, "Connection", Word("keep-alive"))
      BY <2>3
    <3>2. /\ IsHeaders(SetHeader(host, "Connection", Word("keep-alive")))
          /\ DOMAIN SetHeader(host, "Connection", Word("keep-alive"))
               = DOMAIN host \cup {Normalize["Connection"]}
      BY <1>1, <2>1, SetHeaderIsHeaders
    <3>3. "connection" \in DOMAIN headers
      BY <2>1, <3>1, <3>2
    <3> HIDE DEF headers
    <3> QED BY <2>1, <3>1, <3>2, <3>3 DEF Spelt
  <2> QED BY <2>2, <2>3
<1> HIDE DEF headers
<1>3. Completed(r) = [r EXCEPT !.headers = headers]
  BY DEF Completed, host, headers
<1>4. /\ Completed(r).headers = headers /\ Completed(r).method = r.method
      /\ Completed(r).body = r.body
  BY <1>3 DEF Requests
<1>5. r.method \in Methods /\ r.body \in Nat
  BY ValuesFacts DEF Requests
<1> QED BY <1>2, <1>4, <1>5 DEF IsRequest

\* What parse makes of the headers of a request: the names are there, each with a
\* value that was set for it, and perhaps the length of the body.
Heard(r, h) ==
    /\ \A k \in DOMAIN r.headers : h[Normalize[k]] \in ValuesOf(r.headers, Normalize[k])
    /\ DOMAIN h \subseteq {Normalize[k] : k \in DOMAIN r.headers} \cup {"content-length"}
    /\ ~Spelt(r.headers, "content-length") => ContentLength(h) = r.body

LEMMA RequestParsed ==
    ASSUME NEW r, IsRequest(r), NEW order \in Orders(DOMAIN r.headers),
           NEW w, w = SerializeRequest(r, order)
    PROVE  /\ StringToMethod(w.word) = r.method /\ w.path = r.path /\ w.body = r.body
           /\ Heard(r, ParseHeaders(w.lines))
<1> DEFINE first == Lines(r.headers, order)
           length == Line("Content-Length", Digits(r.body))
           given == Spelt(r.headers, "content-length")
           extra == IF given \/ r.body = 0 THEN <<>> ELSE length
           own == {Normalize[k] : k \in DOMAIN r.headers}
<1>1. /\ length \in Seq(HeaderLines) /\ DOMAIN length = {1} /\ Len(length) = 1
      /\ length[1].name = "Content-Length" /\ length[1].value = Digits(r.body)
  <2>1. Digits(r.body) \in Values /\ "Content-Length" \in Names
    BY ValuesFacts, NormalizeFacts DEF IsRequest
  <2> QED BY <2>1, LineFacts
<1>2. w.lines = first \o extra
  <2>1. w.lines = (first \o <<>>) \o extra
    BY DEF SerializeRequest, IsRequest
  <2>2. first \o <<>> = first
    BY LinesType, ConcatEmptySeq DEF IsRequest
  <2> QED BY <2>1, <2>2
<1>3. w.word = MethodToString(r.method) /\ w.path = r.path /\ w.body = r.body
  BY DEF SerializeRequest
<1>4. StringToMethod(MethodToString(r.method)) = r.method
  BY DEF IsRequest, Methods, StringToMethod, MethodToString
<1> DEFINE parsed == ParseHeaders(w.lines)
<1>5. extra \in Seq(HeaderLines)
  BY <1>1
<1>6. Merges(r.headers, extra, parsed)
  <2> HIDE DEF first, extra
  <2>1. Merges(r.headers, extra, ParseHeaders(first \o extra))
    BY <1>5, Parsed DEF IsRequest, first
  <2> QED BY <2>1, <1>2
<1> HIDE DEF length, first, parsed, own, given
<1>7. Normalize["Content-Length"] = "content-length"
  BY NormalizeFacts
<1>8. Heard(r, parsed)
  <2>1. CASE given \/ r.body = 0
    <3>1. extra = <<>>
      BY <2>1
    <3>2. DOMAIN extra = {}
      BY <3>1
    <3> HIDE DEF extra
    <3>3. DOMAIN parsed = own
      BY <1>6, <3>2 DEF Merges, own
    <3>4. \A k \in DOMAIN r.headers : parsed[Normalize[k]] \in ValuesOf(r.headers, Normalize[k])
      BY <1>6, <3>2 DEF Merges
    <3>5. ASSUME ~given PROVE ContentLength(parsed) = r.body
      <4>1. "content-length" \notin DOMAIN parsed
        BY <3>3, <3>5 DEF own, given, Spelt
      <4> QED BY <4>1, <2>1, <3>5 DEF ContentLength
    <3> QED BY <3>3, <3>4, <3>5 DEF Heard, own, given
  <2>2. CASE ~(given \/ r.body = 0)
    <3>1. extra = length
      BY <2>2
    <3> HIDE DEF extra
    <3>2. /\ DOMAIN extra = {1} /\ Len(extra) = 1 /\ extra[1].name = "Content-Length"
          /\ extra[1].value = Digits(r.body)
      BY <3>1, <1>1
    <3>3. IsLast(extra, 1)
      BY <3>2 DEF IsLast
    <3>4. {Normalize[extra[j].name] : j \in DOMAIN extra} = {"content-length"}
      BY <3>2, <1>7
    <3>5. DOMAIN parsed = own \cup {"content-length"}
      BY <1>6, <3>4 DEF Merges, own
    <3>6. parsed["content-length"] = Digits(r.body)
      BY <1>6, <1>7, <3>2, <3>3 DEF Merges
    <3>7. \A k \in DOMAIN r.headers : Normalize[k] # "content-length"
      BY <2>2 DEF given, Spelt
    <3>8. \A k \in DOMAIN r.headers : parsed[Normalize[k]] \in ValuesOf(r.headers, Normalize[k])
      BY <1>6, <1>7, <3>2, <3>7 DEF Merges
    <3>9. ContentLength(parsed) = r.body
      BY <3>5, <3>6, ValuesFacts DEF ContentLength, IsRequest
    <3> QED BY <3>5, <3>8, <3>9 DEF Heard, own
  <2> QED BY <2>1, <2>2
<1> QED BY <1>3, <1>4, <1>8 DEF parsed

(* ------------------------------- responses ------------------------------ *)

IsResponse(r) == r.body \in Nat /\ IsHeaders(r.headers)

\* What parse makes of the headers of a response: the length of the body and the
\* end of the connection, unless they were left to the handler and not right.
Told(r, h) ==
    /\ LeftRight(r.headers, "Content-Length", Digits(r.body)) =>
          "content-length" \in DOMAIN h /\ h["content-length"] = Digits(r.body)
    /\ LeftRight(r.headers, "Connection", Word("close")) => ~KeepAlive(h)

\* A header that serialize writes itself, unless the handler's spelling is there.
Own(h, n, v) == IF n \in DOMAIN h THEN <<>> ELSE Line(n, v)

LEMMA OwnFacts ==
    ASSUME NEW h, NEW n \in Names, NEW v \in Values
    PROVE  /\ Own(h, n, v) \in Seq(HeaderLines)
           /\ n \in DOMAIN h => Len(Own(h, n, v)) = 0
           /\ n \notin DOMAIN h => /\ Len(Own(h, n, v)) = 1
                                   /\ Own(h, n, v)[1].name = n /\ Own(h, n, v)[1].value = v
BY LineFacts DEF Own

\* Of two lines with different names each is the last of its name.
LEMMA TwoLines ==
    ASSUME NEW a \in Seq(HeaderLines), NEW b \in Seq(HeaderLines),
           Len(a) \in {0, 1}, Len(b) \in {0, 1},
           Len(a) = 1 => a[1].name = "Content-Length",
           Len(b) = 1 => b[1].name = "Connection"
    PROVE  /\ a \o b \in Seq(HeaderLines)
           /\ Len(a) = 1 => \E j \in DOMAIN (a \o b) : (a \o b)[j] = a[1] /\ IsLast(a \o b, j)
           /\ Len(b) = 1 => \E j \in DOMAIN (a \o b) : (a \o b)[j] = b[1] /\ IsLast(a \o b, j)
           /\ Len(a) = 0 => \A j \in DOMAIN (a \o b) : (a \o b)[j].name = "Connection"
           /\ Len(b) = 0 => \A j \in DOMAIN (a \o b) : (a \o b)[j].name = "Content-Length"
<1> DEFINE c == a \o b
<1>1. /\ c \in Seq(HeaderLines) /\ Len(c) = Len(a) + Len(b)
      /\ \A i \in 1 .. Len(a) + Len(b) : c[i] = IF i <= Len(a) THEN a[i] ELSE b[i - Len(a)]
  BY ConcatProperties
<1> HIDE DEF c
<1>2. DOMAIN c = 1 .. Len(c)
  BY <1>1
<1>3. Normalize["Content-Length"] # Normalize["Connection"]
  BY NormalizeFacts
<1>4. CASE Len(a) = 0 /\ Len(b) = 0
  <2>1. DOMAIN c = {}
    BY <1>1, <1>2, <1>4
  <2> QED BY <1>1, <1>4, <2>1 DEF c
<1>5. CASE Len(a) = 1 /\ Len(b) = 0
  <2>1. DOMAIN c = {1} /\ Len(c) = 1 /\ c[1] = a[1]
    BY <1>1, <1>2, <1>5
  <2>2. IsLast(c, 1)
    BY <2>1 DEF IsLast
  <2> QED BY <1>1, <1>5, <2>1, <2>2 DEF c
<1>6. CASE Len(a) = 0 /\ Len(b) = 1
  <2>1. DOMAIN c = {1} /\ Len(c) = 1 /\ c[1] = b[1]
    BY <1>1, <1>2, <1>6
  <2>2. IsLast(c, 1)
    BY <2>1 DEF IsLast
  <2> QED BY <1>1, <1>6, <2>1, <2>2 DEF c
<1>7. CASE Len(a) = 1 /\ Len(b) = 1
  <2>1. DOMAIN c = {1, 2} /\ Len(c) = 2 /\ c[1] = a[1] /\ c[2] = b[1]
    BY <1>1, <1>2, <1>7
  <2>2. 1 + 1 .. 2 = {2} /\ 2 + 1 .. 2 = {}
    OBVIOUS
  <2>3. IsLast(c, 1) /\ IsLast(c, 2)
    BY <2>1, <2>2, <1>3, <1>7 DEF IsLast
  <2>4. 1 \in DOMAIN c /\ 2 \in DOMAIN c
    BY <2>1
  <2> QED BY <1>1, <1>7, <2>1, <2>3, <2>4 DEF c
<1> QED BY <1>4, <1>5, <1>6, <1>7

LEMMA ResponseParsed ==
    ASSUME NEW r, IsResponse(r), NEW order \in Orders(DOMAIN r.headers),
           NEW w, w = SerializeResponse(r, order)
    PROVE  w.body = r.body /\ Told(r, ParseHeaders(w.lines))
<1> DEFINE first == Lines(r.headers, order)
           length == Own(r.headers, "Content-Length", Digits(r.body))
           close  == Own(r.headers, "Connection", Word("close"))
           extra == length \o close
           parsed == ParseHeaders(w.lines)
<1>1. w.lines = (first \o length) \o close /\ w.body = r.body
  BY DEF SerializeResponse, Own
<1>2. /\ "Content-Length" \in Names /\ "Connection" \in Names
      /\ Normalize["Content-Length"] = "content-length"
      /\ Normalize["Connection"] = "connection"
  BY NormalizeFacts
<1>3. Digits(r.body) \in Values /\ Word("close") \in Values
  BY ValuesFacts DEF IsResponse
<1>4. /\ length \in Seq(HeaderLines)
      /\ "Content-Length" \in DOMAIN r.headers => Len(length) = 0
      /\ "Content-Length" \notin DOMAIN r.headers =>
            /\ Len(length) = 1
            /\ length[1].name = "Content-Length" /\ length[1].value = Digits(r.body)
  BY <1>2, <1>3, OwnFacts
<1>5. /\ close \in Seq(HeaderLines)
      /\ "Connection" \in DOMAIN r.headers => Len(close) = 0
      /\ "Connection" \notin DOMAIN r.headers =>
            /\ Len(close) = 1
            /\ close[1].name = "Connection" /\ close[1].value = Word("close")
  BY <1>2, <1>3, OwnFacts
<1> HIDE DEF length, close, first
<1>6. w.lines = first \o extra
  <2>1. first \in Seq(HeaderLines)
    BY LinesType DEF IsResponse, first
  <2> QED BY <2>1, <1>1, <1>4, <1>5, ConcatAssociative
<1>7. /\ extra \in Seq(HeaderLines)
      /\ Len(length) = 1 => \E j \in DOMAIN extra : extra[j] = length[1] /\ IsLast(extra, j)
      /\ Len(close) = 1 => \E j \in DOMAIN extra : extra[j] = close[1] /\ IsLast(extra, j)
      /\ Len(length) = 0 => \A j \in DOMAIN extra : extra[j].name = "Connection"
      /\ Len(close) = 0 => \A j \in DOMAIN extra : extra[j].name = "Content-Length"
  BY <1>4, <1>5, TwoLines
<1> HIDE DEF extra
<1>8. Merges(r.headers, extra, parsed)
  <2>1. Merges(r.headers, extra, ParseHeaders(first \o extra))
    BY <1>7, Parsed DEF IsResponse, first
  <2> QED BY <2>1, <1>6
<1> HIDE DEF parsed
<1>9. ASSUME LeftRight(r.headers, "Content-Length", Digits(r.body))
      PROVE  "content-length" \in DOMAIN parsed /\ parsed["content-length"] = Digits(r.body)
  <2>1. CASE "Content-Length" \notin DOMAIN r.headers
    <3>1. PICK j \in DOMAIN extra :
             /\ extra[j].name = "Content-Length" /\ extra[j].value = Digits(r.body)
             /\ IsLast(extra, j)
      BY <2>1, <1>4, <1>7
    <3> QED BY <3>1, <1>2, <1>8 DEF Merges
  <2>2. CASE "Content-Length" \in DOMAIN r.headers
    <3>1. \A j \in DOMAIN extra : Normalize[extra[j].name] = "connection"
      BY <2>2, <1>2, <1>4, <1>7
    <3>2. parsed["content-length"] \in ValuesOf(r.headers, "content-length")
      BY <2>2, <3>1, <1>2, <1>8 DEF Merges
    <3>3. ValuesOf(r.headers, "content-length") = {Digits(r.body)}
      BY <2>2, <1>2, <1>9 DEF LeftRight
    <3>4. "content-length" \in DOMAIN parsed
      BY <2>2, <1>2, <1>8 DEF Merges
    <3> QED BY <3>2, <3>3, <3>4
  <2> QED BY <2>1, <2>2
<1>10. ASSUME LeftRight(r.headers, "Connection", Word("close"))
       PROVE  ~KeepAlive(parsed)
  <2>1. CASE "Connection" \notin DOMAIN r.headers
    <3>1. PICK j \in DOMAIN extra :
             /\ extra[j].name = "Connection" /\ extra[j].value = Word("close")
             /\ IsLast(extra, j)
      BY <2>1, <1>5, <1>7
    <3>2. "connection" \in DOMAIN parsed /\ parsed["connection"] = Word("close")
      BY <3>1, <1>2, <1>8 DEF Merges
    <3> QED BY <3>2 DEF KeepAlive
  <2>2. CASE "Connection" \in DOMAIN r.headers
    <3>1. \A j \in DOMAIN extra : Normalize[extra[j].name] = "content-length"
      BY <2>2, <1>2, <1>5, <1>7
    <3>2. parsed["connection"] \in ValuesOf(r.headers, "connection")
      BY <2>2, <3>1, <1>2, <1>8 DEF Merges
    <3>3. ValuesOf(r.headers, "connection") = {Word("close")}
      BY <2>2, <1>2, <1>10 DEF LeftRight
    <3>4. "connection" \in DOMAIN parsed
      BY <2>2, <1>2, <1>8 DEF Merges
    <3> QED BY <3>2, <3>3, <3>4 DEF KeepAlive
  <2> QED BY <2>1, <2>2
<1> QED BY <1>1, <1>9, <1>10 DEF Told, parsed

(* ------------------------------ the exchange ---------------------------- *)

(***************************************************************************)
(* The inductive invariant: what is on the wire is what one end wrote, in *)
(* some order of its headers, and what was parsed of it is right.          *)
(***************************************************************************)
OnTheWire ==
    /\ phase = "requested" =>
         \E order \in Orders(DOMAIN Completed(req).headers) :
            wire = SerializeRequest(Completed(req), order)
    /\ phase = "answered" =>
         IsResponse(resp) /\ \E order \in Orders(DOMAIN resp.headers) :
                               wire = SerializeResponse(resp, order)

Arrives(r, s) ==
    /\ s.method = r.method /\ s.path = r.path /\ s.body <= r.body
    /\ \A k \in DOMAIN r.headers : s.headers[Normalize[k]] \in ValuesOf(r.headers, Normalize[k])
    /\ DOMAIN s.headers \subseteq {Normalize[k] : k \in DOMAIN r.headers} \cup {"content-length"}
    /\ s.body = IF Spelt(r.headers, "content-length") THEN ContentLength(s.headers) ELSE r.body

IInv ==
    /\ req \in Requests
    /\ phase \in {"made", "requested", "rejected", "answered", "failed", "done"}
    /\ OnTheWire
    /\ phase \in {"answered", "failed", "done"} => Arrives(Completed(req), seen)
    /\ ResponseFramed
    /\ CloseIsAnnounced

LEMMA InitInv == Init => IInv
BY DEF Init, IInv, OnTheWire, ResponseFramed, CloseIsAnnounced, Done

IsAnswer(r) ==
    /\ r = [code |-> r.code, headers |-> r.headers, body |-> r.body]
    /\ r.body \in Nat /\ IsHeaders(r.headers)

\* Whatever a handler returns, serialize is given a response.
LEMMA AnswersFacts ==
    /\ \A a \in HandlerResponses : IsAnswer(a)
    /\ \A code, body \in Nat : IsAnswer(Text(code, body))
<1>1. ASSUME NEW code \in Nat, NEW body \in Nat
      PROVE  IsAnswer(Text(code, body))
  <2>1. /\ "Content-Type" \in Names /\ "Content-Length" \in Names
        /\ Word("other") \in Values /\ Digits(body) \in Values
    BY NormalizeFacts, ValuesFacts
  <2>2. IsHeaders(SetHeader(NoHeaders, "Content-Type", Word("other")))
    BY <2>1, NoHeadersFacts, SetHeaderIsHeaders
  <2>3. IsHeaders(SetHeader(SetHeader(NoHeaders, "Content-Type", Word("other")),
                            "Content-Length", Digits(body)))
    BY <2>1, <2>2, SetHeaderIsHeaders
  <2> QED BY <2>3 DEF Text, IsAnswer
<1>2. ASSUME NEW a \in HandlerResponses PROVE IsAnswer(a)
  <2>1. CASE a = Simple(200)
    BY <2>1, NoHeadersFacts DEF Simple, IsAnswer
  <2>2. CASE a = Text(200, MaxLength)
    BY <2>2, <1>1, LengthAssumption
  <2>3. ASSUME NEW h \in HandlerHeaders, NEW b \in Bodies,
               a = [code |-> 200, headers |-> h, body |-> b]
        PROVE  IsAnswer(a)
    <3>1. IsHeaders(h) /\ b \in Nat
      BY HeadersAssumption, ValuesFacts
    <3> QED BY <2>3, <3>1 DEF IsAnswer
  <2> QED BY <2>1, <2>2, <2>3 DEF HandlerResponses
<1> QED BY <1>1, <1>2

LEMMA AnswerIsResponse ==
    ASSUME NEW r, IsAnswer(r), NEW w \in {"keep-alive", "close"},
           NEW a, a = [r EXCEPT !.headers = SetHeader(@, "Connection", Word(w))]
    PROVE  IsResponse(a)
<1>1. Word(w) \in Values /\ "Connection" \in Names
  BY NormalizeFacts, ValuesFacts
<1>2. IsHeaders(SetHeader(r.headers, "Connection", Word(w)))
  BY <1>1, SetHeaderIsHeaders DEF IsAnswer
<1>3. a.headers = SetHeader(r.headers, "Connection", Word(w)) /\ a.body = r.body
  BY DEF IsAnswer
<1> QED BY <1>2, <1>3 DEF IsAnswer, IsResponse

\* A response that says the right length is taken as it is, however it is cut.
LEMMA RightIsTaken ==
    ASSUME NEW r, IsResponse(r), NEW w, w.body = r.body, Told(r, ParseHeaders(w.lines)),
           LeftRight(r.headers, "Content-Length", Digits(r.body)), r.body <= MaxBody,
           NEW part \in 0 .. w.body
    PROVE  Taken(w, part) /\ ContentLength(ParseHeaders(w.lines)) = r.body
<1> DEFINE h == ParseHeaders(w.lines)
<1>1. "content-length" \in DOMAIN h /\ h["content-length"] = Digits(r.body)
  BY DEF Told
<1> HIDE DEF h
<1>2. r.body \in Nat /\ Digits(r.body).word = "" /\ Digits(r.body).digits = r.body
  BY ValuesFacts DEF IsResponse
<1>3. LengthValid(h) /\ ContentLength(h) = r.body
  BY <1>1, <1>2 DEF LengthValid, ContentLength
<1>4. PICK b \in Nat : b = r.body /\ b = w.body
  BY <1>2
<1>5. part \in 0 .. b /\ b <= MaxBody /\ ContentLength(h) = b
  BY <1>3, <1>4
<1>6. ~(b > MaxBody) /\ ~(part > b) /\ b <= b
  BY <1>5, LengthAssumption
<1>7. ~Refused(h, part)
  BY <1>3, <1>5, <1>6 DEF Refused
<1>8. ContentLength(h) <= w.body
  BY <1>4, <1>5, <1>6
<1> QED BY <1>3, <1>7, <1>8 DEF Taken, h

LEMMA NextInv == IInv /\ [Next]_vars => IInv'
<1> SUFFICES ASSUME IInv, [Next]_vars PROVE IInv'
  OBVIOUS
<1> USE DEF ResponseFramed, CloseIsAnnounced, Done
<1>1. CASE UNCHANGED vars
  BY <1>1 DEF vars, IInv, OnTheWire, ValuesOf, LeftRight
<1>2. CASE ClientWrites
  BY <1>2 DEF ClientWrites, IInv, OnTheWire
<1>3. CASE ServerRejects
  BY <1>3 DEF ServerRejects, IInv, OnTheWire
<1>4. CASE ServerAnswers
  <2>1. /\ req' = req /\ phase = "requested" /\ phase' = "answered"
        /\ seen' = ParseRequest(wire, ContentLength(ParseHeaders(wire.lines)))
    BY <1>4 DEF ServerAnswers
  <2>2. PICK order \in Orders(DOMAIN Completed(req).headers) :
           wire = SerializeRequest(Completed(req), order)
    BY <2>1 DEF IInv, OnTheWire
  <2>3. IsRequest(Completed(req))
    BY CompletedIsRequest DEF IInv
  <2>4. Arrives(Completed(req), seen')
    <3> DEFINE h == ParseHeaders(wire.lines)
               r == Completed(req)
    <3>1. /\ StringToMethod(wire.word) = r.method /\ wire.path = r.path /\ wire.body = r.body
          /\ Heard(r, h)
      BY <2>2, <2>3, RequestParsed
    <3>2. PICK part \in 0 .. wire.body : Taken(wire, part)
      BY <1>4 DEF ServerAnswers
    <3>3. ContentLength(h) <= wire.body
      BY <3>2 DEF Taken
    <3> HIDE DEF h, r
    <3>4. /\ seen'.method = StringToMethod(wire.word) /\ seen'.path = wire.path
          /\ seen'.headers = h /\ seen'.body = ContentLength(h)
      BY <2>1 DEF ParseRequest, h
    <3>5. Arrives(r, seen')
      BY <3>1, <3>3, <3>4 DEF Arrives, Heard
    <3> QED BY <3>5 DEF r
  <2>5. IsResponse(resp')
    <3>1. PICK throws \in BOOLEAN :
             \E r \in IF throws THEN {Text(500, 1)}
                      ELSE IF handler' = Default THEN HandlerResponses \cup {Text(404, 1)}
                      ELSE HandlerResponses :
                resp' = [r EXCEPT !.headers =
                           SetHeader(@, "Connection",
                                     Word(IF serverKeeps' THEN "keep-alive" ELSE "close"))]
      BY <1>4 DEF ServerAnswers
    <3>2. PICK w \in {"keep-alive", "close"} : w = IF serverKeeps' THEN "keep-alive" ELSE "close"
      OBVIOUS
    <3>3. PICK r \in IF throws THEN {Text(500, 1)}
                     ELSE IF handler' = Default THEN HandlerResponses \cup {Text(404, 1)}
                     ELSE HandlerResponses :
             resp' = [r EXCEPT !.headers = SetHeader(@, "Connection", Word(w))]
      BY <3>1, <3>2
    <3>4. r \in HandlerResponses \/ r = Text(500, 1) \/ r = Text(404, 1)
      BY <3>3
    <3>5. IsAnswer(r)
      BY <3>4, AnswersFacts
    <3>6. PICK a : a = resp' /\ a = [r EXCEPT !.headers = SetHeader(@, "Connection", Word(w))]
      BY <3>3
    <3> QED BY <3>5, <3>6, AnswerIsResponse
  <2>6. \E written \in Orders(DOMAIN resp'.headers) : wire' = SerializeResponse(resp', written)
    BY <1>4 DEF ServerAnswers
  <2>7. req' \in Requests
    BY <2>1 DEF IInv
  <2> QED BY <2>1, <2>4, <2>5, <2>6, <2>7 DEF IInv, OnTheWire
<1>5. CASE ClientFails
  <2>1. /\ req' = req /\ seen' = seen /\ resp' = resp /\ phase = "answered" /\ phase' = "failed"
    BY <1>5 DEF ClientFails
  <2>2. PICK part \in 0 .. wire.body : ~Taken(wire, part)
    BY <1>5 DEF ClientFails
  <2>3. PICK order \in Orders(DOMAIN resp.headers) : wire = SerializeResponse(resp, order)
    BY <2>1 DEF IInv, OnTheWire
  <2>4. IsResponse(resp)
    BY <2>1 DEF IInv, OnTheWire
  <2>5. wire.body = resp.body /\ Told(resp, ParseHeaders(wire.lines))
    BY <2>3, <2>4, ResponseParsed
  <2>6. ~(LeftRight(resp.headers, "Content-Length", Digits(resp.body)) /\ resp.body <= MaxBody)
    BY <2>2, <2>4, <2>5, RightIsTaken
  <2> QED BY <2>1, <2>6 DEF IInv, OnTheWire
<1>6. CASE ClientReads
  <2>1. /\ req' = req /\ seen' = seen /\ resp' = resp /\ serverKeeps' = serverKeeps
        /\ phase = "answered" /\ phase' = "done"
        /\ got' = ParseResponse(wire, ContentLength(ParseHeaders(wire.lines)))
    BY <1>6 DEF ClientReads
  <2>2. PICK part \in 0 .. wire.body : Taken(wire, part)
    BY <1>6 DEF ClientReads
  <2>3. PICK order \in Orders(DOMAIN resp.headers) : wire = SerializeResponse(resp, order)
    BY <2>1 DEF IInv, OnTheWire
  <2>4. IsResponse(resp)
    BY <2>1 DEF IInv, OnTheWire
  <2>5. wire.body = resp.body /\ Told(resp, ParseHeaders(wire.lines))
    BY <2>3, <2>4, ResponseParsed
  <2>6. /\ got'.headers = ParseHeaders(wire.lines)
        /\ got'.body = ContentLength(ParseHeaders(wire.lines))
    BY <2>1 DEF ParseResponse
  <2>7. LeftRight(resp.headers, "Content-Length", Digits(resp.body)) /\ resp.body <= MaxBody
          => got'.body = resp.body
    BY <2>2, <2>4, <2>5, <2>6, RightIsTaken
  <2>8. LeftRight(resp.headers, "Connection", Word("close")) => ~KeepAlive(got'.headers)
    BY <2>5, <2>6 DEF Told
  <2> QED BY <2>1, <2>7, <2>8 DEF IInv, OnTheWire
<1> QED BY <1>1, <1>2, <1>3, <1>4, <1>5, <1>6 DEF Next

LEMMA Invariance == Spec => []IInv
BY InitInv, NextInv, PTL DEF Spec

(* ------------------------------- theorems ------------------------------- *)

\* The server's handler is given the method, the path and every header of the
\* request that the client completed, in any spelling and order, and of its body
\* as much as a Content-Length of the program says, or all of it.
THEOREM RequestArrivesHolds == Spec => []RequestArrives
<1>1. IInv => RequestArrives
  BY DEF IInv, RequestArrives, Arrives
<1> QED BY <1>1, Invariance, PTL

\* The client takes the body of the response, whole and nothing after it, however
\* it is cut, unless a handler went round operator[] with a wrong "Content-Length".
THEOREM ResponseFramedHolds == Spec => []ResponseFramed
<1>1. IInv => ResponseFramed
  BY DEF IInv
<1> QED BY <1>1, Invariance, PTL

\* A client whose connection the server closes after the response was told so,
\* unless a handler went round operator[] with a "Connection" that does not say so.
THEOREM CloseIsAnnouncedHolds == Spec => []CloseIsAnnounced
<1>1. IInv => CloseIsAnnounced
  BY DEF IInv
<1> QED BY <1>1, Invariance, PTL
=============================================================================
