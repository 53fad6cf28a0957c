------------------------------- MODULE Daemon -------------------------------
(***************************************************************************)
(* The daemon (main.cpp): it reads its arguments (core/cmd_line_args.cpp) *)
(* and its configuration, starts the logger (core/logger.cpp), asks the   *)
(* provider for the file system that the configuration names, closes it,  *)
(* and tells by its exit code how far it came.  Between the two a program *)
(* may ask the provider again and use the name node: main.cpp does        *)
(* neither, MaxGets = 1 is what it does.                                  *)
(***************************************************************************)
EXTENDS JsonFields, FileSystemProvider

CONSTANTS Documents,   \* what a configuration file may hold
          MiB,         \* the factor of logger.cpp
          MaxThreads,  \* of spdlog's thread pool
          MaxQueue,    \* how many slots of its queue there is memory for
          MaxGets      \* bound on the calls of file_system_provider::get

ASSUME DaemonAssumption == {MiB, MaxThreads, MaxQueue, MaxGets} \subseteq Nat \ {0}

VARIABLES stage,      \* what main does next
          document,   \* what the configuration file holds: Throws, if it cannot be parsed
          arguments,  \* an unknown option, --help, and how many other words
          loaded,     \* *cfg_ptr
          logger,     \* the registered logger: its sinks
          gets,       \* calls of get
          exit        \* the exit code

daemonVars == <<stage, document, arguments, loaded, logger, gets, exit>>
vars == <<daemonVars, providerVars, dataNodesVars>>

NoArguments == [unknown |-> FALSE, help |-> FALSE, others |-> 0]
Running == 100  \* no exit code yet, or the process never ends

Init ==
    /\ stage = "arguments"
    /\ document \in Documents
    /\ arguments = NoArguments
    /\ loaded = Nothing
    /\ logger = {}
    /\ gets = 0
    /\ exit = Running
    /\ ProviderInit
    /\ DataNodesInit

GoTo(where) == stage' = where /\ UNCHANGED exit
Exit(code)  == stage' = "end" /\ exit' = code

(* ------------------------ the command line, main ------------------------ *)

\* One word that is no option is let through, two are answered by the help.
HelpIsNeeded(args) == args.help \/ args.others > 1

ReadArguments ==
    /\ stage = "arguments"
    /\ arguments' \in [unknown : BOOLEAN, help : BOOLEAN, others : 0 .. 2]
    /\ IF arguments'.unknown THEN Exit(1)
       ELSE IF HelpIsNeeded(arguments') THEN Exit(2)
       ELSE GoTo("configuration")
    /\ UNCHANGED <<document, loaded, logger, gets, providerVars, dataNodesVars>>

\* parse_configuration.  What follows undefined behaviour is not modelled.
ParseConfiguration ==
    /\ stage = "configuration"
    /\ LET result == IF Failed(document) THEN document ELSE Load(document, "configuration")
       IN  IF result = Throws THEN Exit(1) /\ UNCHANGED loaded
           ELSE IF result = Undefined THEN GoTo("undefined") /\ UNCHANGED loaded
           ELSE GoTo("logger") /\ loaded' = result
    /\ UNCHANGED <<document, arguments, logger, gets, providerVars, dataNodesVars>>

(* ------------------------------ the logger ------------------------------ *)

Has(cfg, key)   == key \in DOMAIN cfg.members
Value(cfg, key) == cfg.members[key]

LoggerConfig == Value(loaded, "logger")
IsAsync      == Has(LoggerConfig, "async")
Async(key)   == Value(Value(LoggerConfig, "async"), key).n

\* spdlog's queue of queue_size has one slot more, of the same type.
Slots == (Async("queue-size") + 1) % Modulus["uint64"]

\* The queue is made first: there may be no memory for it, which is no spdlog_ex.
QueueIsTooLarge == IsAsync /\ Slots > MaxQueue

\* Then its number of threads is looked at.
ThreadsAreRefused == IsAsync /\ Async("thread-pool-size") \notin 1 .. MaxThreads

\* A rotation at size 0 is refused, to which a large one wraps in MiB.
RotationIsRefused ==
    /\ Has(LoggerConfig, "rotate")
    /\ (Value(Value(LoggerConfig, "rotate"), "max-size").n * MiB) % Modulus["uint64"] = 0

\* With one slot the queue is full when it is empty, and a message waits until
\* it is not; with none it takes messages and keeps none.
QueueIsFull  == IsAsync /\ Slots = 1
QueueIsStuck == IsAsync /\ Slots \in {0, 1}

\* main returns.  Once the pool is made its threads are told to end by a
\* message through the queue, and waited for.
Quit(code) == IF QueueIsStuck THEN GoTo("stuck") ELSE Exit(code)

\* A console sink is made for any value of console-output, false too.
Sinks(cfg) ==
    {IF Has(cfg, "rotate") THEN "rotating" ELSE "file"} \cup
    {sink \in {"console"} : Has(cfg, "console-output")}

\* The file may fail to open, and the name may be taken.
SinksFail == Quit(2) /\ UNCHANGED logger

\* init_logger, and the first message.
LoggerStarts ==
    /\ ~RotationIsRefused
    /\ logger' = Sinks(LoggerConfig)
    /\ GoTo(IF QueueIsFull THEN "stuck" ELSE "get")

\* (Wrong on purpose: the handler of std::exception comes before that of
\* spdlog::spdlog_ex, which is one.)
InitLoggerCaughtFirst ==
    /\ stage = "logger"
    /\ IF QueueIsTooLarge \/ ThreadsAreRefused THEN Exit(1) /\ UNCHANGED logger
       ELSE (Quit(1) /\ UNCHANGED logger) \/ LoggerStarts
    /\ UNCHANGED <<document, arguments, loaded, gets, providerVars, dataNodesVars>>

InitLogger ==
    /\ stage = "logger"
    /\ IF QueueIsTooLarge THEN Exit(1) /\ UNCHANGED logger
       ELSE IF ThreadsAreRefused THEN Exit(2) /\ UNCHANGED logger
       ELSE SinksFail \/ LoggerStarts
    /\ UNCHANGED <<document, arguments, loaded, gets, providerVars, dataNodesVars>>

(* ---------------------------- the file systems -------------------------- *)

DefaultKey ==
    LET cfg == Value(loaded, "fs") IN <<Value(cfg, "host").s, Value(cfg, "port").n>>

NameNodeIsConfigured == Has(Value(loaded, "dfs"), "name-node")

NameNodeConfig ==
    LET cfg == Value(Value(loaded, "dfs"), "name-node")
    IN  [dataNodes   |-> [i \in DOMAIN Value(cfg, "data-nodes").items |->
                             Value(Value(cfg, "data-nodes").items[i], "host").s],
         replication |-> Value(cfg, "replication").n]

\* main asks for the file system that the configuration names, a program that
\* goes on may also ask for it again, or for the local one of that port.
Keys == IF stage = "get" THEN {DefaultKey} ELSE {DefaultKey, <<"localhost", DefaultKey[2]>>}

GetReturns ==
    /\ stage \in {"get", "running"} /\ gets < MaxGets
    /\ \E key \in Keys : GetKept(key) \/ GetLocal(key)
    /\ gets' = gets + 1
    /\ GoTo("running")
    /\ UNCHANGED <<document, arguments, loaded, logger>>

\* name_node.value()
GetHasNoNameNode ==
    /\ stage \in {"get", "running"} /\ gets < MaxGets
    /\ pending = NoKey
    /\ \E key \in Keys \ DOMAIN filesystems : key[1] # "localhost"
    /\ ~NameNodeIsConfigured
    /\ gets' = gets + 1
    /\ Quit(1)
    /\ UNCHANGED <<document, arguments, loaded, logger, providerVars, dataNodesVars>>

GetConstructs ==
    /\ stage \in {"get", "running"} /\ gets < MaxGets
    /\ NameNodeIsConfigured
    /\ \E key \in Keys : GetDistributed(key, NameNodeConfig)
    /\ gets' = gets + 1
    /\ GoTo("construct")
    /\ UNCHANGED <<document, arguments, loaded, logger>>

ConstructorThrows ==
    /\ stage = "construct"
    /\ DistributedThrows
    /\ Quit(1)
    /\ UNCHANGED <<document, arguments, loaded, logger, gets>>

ConstructorRegisters ==
    /\ stage = "construct"
    /\ DistributedRegisters
    /\ UNCHANGED daemonVars

ConstructorReturns ==
    /\ stage = "construct"
    /\ DistributedMade
    /\ GoTo("running")
    /\ UNCHANGED <<document, arguments, loaded, logger, gets>>

UseNameNode ==
    /\ stage = "running"
    /\ given.key[1] # "localhost"
    /\ NameNodeCall
    /\ UNCHANGED <<daemonVars, providerVars>>

\* fs->close() does nothing.
Close ==
    /\ stage = "running"
    /\ Quit(0)
    /\ UNCHANGED <<document, arguments, loaded, logger, gets, providerVars, dataNodesVars>>

Next ==
    \/ ReadArguments \/ ParseConfiguration \/ InitLogger
    \/ GetReturns \/ GetHasNoNameNode \/ GetConstructs
    \/ ConstructorThrows \/ ConstructorRegisters \/ ConstructorReturns
    \/ UseNameNode \/ Close

Spec == Init /\ [][Next]_vars

(* ------------------------------ properties ------------------------------ *)

RECURSIVE Fits(_, _)

\* What a document must be for a structure or a value of a type: every member
\* that is required is there, and every member that is there fits.
Fits(j, type) ==
    IF type \in DOMAIN Structs
      THEN \A field \in Range(Structs[type]) :
             IF ~Contains(j, field.key) THEN field.presence # "required"
             ELSE LET v == j.members[field.key]
                  IN  IF field.presence = "list"
                        THEN \A element \in Range(Elements(v)) : Fits(element, field.type)
                        ELSE Fits(v, field.type)
      ELSE \/ j.kind = type
           \/ j.kind = "number" /\ type \in DOMAIN Modulus
           \/ j.kind = "bool" /\ type \in {"uint16", "uint32"}

FileSystemIsConfigured ==
    \/ DefaultKey[1] = "localhost"
    \/ /\ NameNodeIsConfigured
       /\ Len(NameNodeConfig.dataNodes) >= 1
       /\ Len(NameNodeConfig.dataNodes) >= NameNodeConfig.replication

\* The exit code says what was wrong: 2, that help was asked for or that spdlog
\* refused to start the logger; 1, that the arguments or the document were not
\* right, that there was no memory for the queue of the logger, or that the file
\* system could not be made; 0, that all was well.  There is none when a document
\* that is right makes the queue one that holds nothing, and what happens is
\* undefined only for a document without a required member.
ExitCodeTellsWhy ==
    LET documentIsRight == ~Failed(document) /\ Fits(document, "configuration")
    IN  /\ exit \in {Running, 0, 1, 2}
        /\ exit = 2 => HelpIsNeeded(arguments) \/ (documentIsRight /\ logger = {})
        /\ exit = 1 => \/ arguments.unknown
                       \/ ~documentIsRight
                       \/ QueueIsTooLarge /\ logger = {}
                       \/ logger # {} /\ ~FileSystemIsConfigured
        /\ exit = 0 => documentIsRight /\ logger # {} /\ FileSystemIsConfigured
        /\ stage = "stuck" => documentIsRight /\ QueueIsStuck
        /\ stage = "undefined" => ~documentIsRight

RECURSIVE Same(_, _, _)

\* What the constructors of a structure and its fields make of it is the same,
\* but for a list that the document says nothing about.
Same(v, w, type) ==
    IF type \notin DOMAIN Structs THEN v = w
    ELSE \A field \in Range(Structs[type]) :
           IF field.presence = "list"
             THEN v.members[field.key] =
                    IF field.key \in DOMAIN w.members THEN w.members[field.key] ELSE Array(<<>>)
           ELSE /\ field.key \in DOMAIN v.members <=> field.key \in DOMAIN w.members
                /\ field.key \in DOMAIN v.members =>
                      Same(v.members[field.key], w.members[field.key], field.type)

RECURSIVE Sections(_, _)

\* The parts of a document that a structure is loaded from, with its type.
Sections(j, type) ==
    {[json |-> j, type |-> type]} \cup
    UNION {Sections(j.members[field.key], field.type) :
              field \in {f \in Range(Structs[type]) : /\ f.type \in DOMAIN Structs
                                                     /\ f.presence # "list"
                                                     /\ Contains(j, f.key)}}

\* json_struct can take the place of the constructors that configuration.cpp
\* writes out, in whatever order it loads the fields and although it changes
\* the document on the way when it may: of a document of which the constructors
\* make anything it makes the same, and of one that they refuse it makes nothing.
\* (Where a member is missing they are undefined, and it may put a null for it.)
TemplatesAgree ==
    stage = "configuration" /\ ~Failed(document) =>
        \A part \in Sections(document, "configuration"), backwards, moving \in BOOLEAN :
            LET written == Load(part.json, part.type)
                stored  == LoadFields(part.json, part.type, moving, backwards).value
            IN  IF Failed(written)
                  THEN (moving /\ written = Undefined) \/ Failed(stored)
                  ELSE ~Failed(stored) /\ Same(written, stored, part.type)
=============================================================================
