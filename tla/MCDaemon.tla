------------------------------ MODULE MCDaemon ------------------------------
(***************************************************************************)
(* Instance of Daemon for TLC: a document in which everything is right,    *)
(* for a local and for a distributed file system, and every document that *)
(* differs from the first in one place, or in two of its sections or of    *)
(* those of its logger, or from the second in one place of its dfs section. *)
(***************************************************************************)
EXTENDS Daemon

MCModulus == [type \in {"uint16", "uint32", "uint64"} |->
                 IF type = "uint16" THEN 4 ELSE IF type = "uint32" THEN 8 ELSE 16]

RECURSIVE Sample(_), Variants(_)

\* A document of which every value fits.
Sample(type) ==
    IF type \in DOMAIN Structs
      THEN Object([key \in {field.key : field \in Range(Structs[type])} |->
                     LET field == CHOOSE f \in Range(Structs[type]) : f.key = key
                     IN  IF field.presence = "list"
                           THEN Array(<<Sample(field.type), Sample(field.type)>>)
                           ELSE Sample(field.type)])
      ELSE CASE type = "string" -> String("s")
             [] type = "bool"   -> Bool(FALSE)
             [] OTHER           -> Number(1)

Put(j, key, v) == Object([k \in DOMAIN j.members |-> IF k = key THEN v ELSE j.members[k]])
Without(j, key) == Object([k \in DOMAIN j.members \ {key} |-> j.members[k]])

Values == {Null, Bool(TRUE), String("t"), Array(<<>>), Array(<<Null>>), Object([k \in {} |-> Null])}
              \cup {Number(n) : n \in {0, 2, 4, 8, 15}}

\* The documents that differ from the sample in one place.
Variants(type) ==
    IF type \in DOMAIN Structs
      THEN Values \cup UNION
             {{Without(Sample(type), field.key)} \cup
              {Put(Sample(type), field.key, v) : v \in
                  IF field.presence = "list"
                    THEN Values \cup {Array(<<Sample(field.type), v>>) : v \in Variants(field.type)}
                    ELSE Variants(field.type)} : field \in Range(Structs[type])}
      ELSE Values

OnHost(j, host) == Put(j, "fs", Put(j.members["fs"], "host", String(host)))

\* Those that differ in two members, each left out or changed for one that does
\* not fit.
Faulty(j, key) == {Without(j, key)} \cup {Put(j, key, v) : v \in {Null, Array(<<>>)}}
TwoFaults(j) ==
    UNION {UNION {UNION {Faulty(k, second) : k \in Faulty(j, first)} : second \in DOMAIN j.members \ {first}} :
              first \in DOMAIN j.members}

MCDocuments ==
    {IF j.kind = "object" /\ Contains(j, "fs") /\ Contains(j.members["fs"], "host")
          /\ j.members["fs"].members["host"] = String("s")
       THEN OnHost(j, "localhost") ELSE j : j \in Variants("configuration")}
    \cup {OnHost(Put(Sample("configuration"), "dfs", dfs), "h1") :
              dfs \in {v \in Variants("dfs") : ~Contains(v, "data-node")} \cup
                     {Without(Put(Sample("dfs"), "name-node", v), "data-node") : v \in Variants("nameNode")}}
    \cup TwoFaults(Sample("configuration"))
    \cup {Put(Sample("configuration"), "logger", v) : v \in TwoFaults(Sample("logger"))}
    \cup {Sample("configuration"), Throws}
=============================================================================
