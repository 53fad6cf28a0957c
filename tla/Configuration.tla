---------------------------- MODULE Configuration ----------------------------
(***************************************************************************)
(* The structures of config/configuration.hpp and what their constructors *)
(* (config/configuration.cpp) make of a JSON document.  A structure that  *)
(* was loaded is an object whose members are those that have a value: an  *)
(* empty std::optional has none.                                          *)
(***************************************************************************)
EXTENDS Json

Required(key, type) == [key |-> key, type |-> type, presence |-> "required"]
Optional(key, type) == [key |-> key, type |-> type, presence |-> "optional"]
List(key, type)     == [key |-> key, type |-> type, presence |-> "list"]

\* The members of a structure in the order in which its constructor loads them.
DaemonStructs ==
    [logger      |-> <<Required("name", "string"), Required("filepath", "string"),
                       Optional("pattern", "string"), Optional("log-level", "string"),
                       Optional("console-output", "bool"),
                       Optional("rotate", "rotate"), Optional("async", "async")>>,
     rotate      |-> <<Required("max-size", "uint64"), Required("max-files", "uint64")>>,
     async       |-> <<Required("thread-pool-size", "uint64"), Required("queue-size", "uint64")>>,
     fs          |-> <<Required("host", "string"), Required("port", "uint16")>>,
     file        |-> <<Required("limit", "uint64"), Required("ignored", "bool")>>,
     dfs         |-> <<Optional("data-node", "dataNode"), Optional("name-node", "nameNode")>>,
     dataNode    |-> <<Required("node-name", "string"), Required("data-dir", "string"),
                       Required("node-port", "uint16"), Required("replication", "uint32")>>,
     nameNode    |-> <<Required("node-name", "string"), Required("data-dir", "string"),
                       Required("name-dir", "string"), Required("node-port", "uint16"),
                       Required("replication", "uint32"), List("data-nodes", "address")>>,
     address     |-> <<Required("host", "string"), Required("port", "uint16")>>]

JobStructs ==
    [io          |-> <<Required("sort", "sort"), Required("file-buffer-size", "uint64"),
                       Required("bytes-per-checksum", "uint64"),
                       Required("map-index-skip", "uint64"),
                       Required("skip-checksum-errors", "bool")>>,
     sort        |-> <<Required("factor", "uint32"), Required("buffer", "uint32")>>,
     ipc         |-> <<Required("timeout", "uint64")>>,
     mapred      |-> <<Required("job-tracker", "jobTracker"), Required("task-tracker", "taskTracker"),
                       Required("directories", "directories"), Required("map-tasks", "uint64"),
                       Required("reduce-tasks", "uint64"),
                       Required("combine-buffer-size", "uint64")>>,
     jobTracker  |-> <<Required("location", "string"), Required("info-port", "uint64")>>,
     taskTracker |-> <<Required("output-port", "uint64"), Required("report-port", "uint64"),
                       Required("tasks-limit", "uint64"), Required("child-heap-size", "uint64"),
                       Required("task-timeout", "uint64")>>,
     directories |-> <<Required("local", "string"), Required("system", "string"),
                       Required("temp", "string")>>]

Root ==
    <<Required("logger", "logger"), Required("fs", "fs"), Required("file", "file"),
      Required("dfs", "dfs"), Required("io", "io"), Required("ipc", "ipc"),
      Required("map-reduce", "mapred")>>

Structs ==
    [type \in DOMAIN DaemonStructs \cup DOMAIN JobStructs \cup {"configuration"} |->
        IF type \in DOMAIN DaemonStructs THEN DaemonStructs[type]
        ELSE IF type \in DOMAIN JobStructs THEN JobStructs[type] ELSE Root]

Nothing == [kind |-> "nothing"]

\* The members that have a value, if none of them failed.
Loaded(fields, values) ==
    AllOf(values, Object([key \in {fields[i].key : i \in {k \in DOMAIN fields : values[k] # Nothing}} |->
                             values[CHOOSE i \in DOMAIN fields : fields[i].key = key]]))

RECURSIVE Load(_, _)

LoadList(j, type) ==
    LET values == [i \in DOMAIN Elements(j) |-> Load(Elements(j)[i], type)]
    IN  AllOf(values, Array(values))

\* A vector that the document says nothing about is empty.
LoadField(j, field) ==
    LET v == Member(j, field.key)
    IN  IF field.presence = "required"
          THEN IF Failed(v) THEN v ELSE Load(v, field.type)
        ELSE IF ~Contains(j, field.key)
          THEN IF field.presence = "list" THEN Array(<<>>) ELSE Nothing
        ELSE IF field.presence = "list" THEN LoadList(v, field.type)
        ELSE Load(v, field.type)

\* The constructor of a structure, or a conversion.
Load(j, type) ==
    IF type \in DOMAIN Structs
      THEN Loaded(Structs[type], [i \in DOMAIN Structs[type] |-> LoadField(j, Structs[type][i])])
      ELSE Convert(j, type)
=============================================================================
