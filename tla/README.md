# Formal model of distributed-scalable-system

TLA+ modules, TLC configurations and TLAPS proofs for the C++ program in
`src/`: an HTTP/1.1 client and server on Boost.Asio, and a file system with a
name node that is to become a distributed one.  Paths below are relative to
`src/src/` of the repository.

## 1. The system

| Component | State | Operations | Interacts with |
|---|---|---|---|
| `http::session` (`http/session.hpp`) | socket, one timer, one buffer, `m_keep_alive` | `do_read`, `do_remaining_read`, `do_write`, `shutdown`, their completion handlers | Boost.Asio (`io_context`, one thread), the derived class through three hooks |
| `http::server_session`, `http::server` (`http/server.cpp`) | the routes, the acceptor; one session per connection | `route`, `set_default_handler`, `do_accept`, `dispatch`; hooks `on_message_parsed`, `on_write_complete`, `on_error` | request handlers of the program, which may throw |
| `http::client_session`, `http::client` (`http/client.cpp`) | `m_callback`, the resolver; one session | `on_connected`, `get`, `post`, `put`, `delete_`; the same hooks | callbacks of the program, which may make the next request, or throw |
| HTTP messages (`http/common.cpp`, `request.cpp`, `response.cpp`, `utils/strings.cpp`) | none | `serialize`, `parse`, `content_length`, header look-up | both sessions |
| `dfs::name_node` (`dfs/name_node.cpp`) | `m_metadata` and `m_data_nodes`, each with a mutex | create, delete, rename, look up, list; register, heartbeat, select | `distributed_file_system` |
| `fs::distributed_file_system` (`fs/distributed_file_system.cpp`) | the name node, `m_path_locks` and its mutex | the interface of `fs/file_system.hpp` | name node, local disk, its callers' threads |
| `fs::local_file_system` | the disk; lock files on it | the same interface | `boost::filesystem`, other processes |
| `fs::file_system_provider` | a cache of file systems | `get`, `append` | both file systems, configuration |
| configuration (`config/configuration.*`), JSON templates (`config/json/`) | set once, from a JSON document | `parse_configuration`, a constructor for each structure | nlohmann::json, `main.cpp` |
| logger, command line (`core/`) | one logger and its sinks | `init_logger`, `is_help_need` | spdlog, boost::program_options, `main.cpp` |
| daemon (`main.cpp`) | how far it came | start, close, exit code | all of the last four rows |

What is hard here, and hard to test:

* **Timers against completions.**  One `steady_timer` serves each read and
  write of a session in turn.  A wait that has expired can not be cancelled,
  so its handler and that of the operation can both be queued, in either
  order.
* **Hooks and callbacks.**  `on_message_parsed` and `on_error` call the
  program, which calls back into the session or throws; the same exception is
  caught on one path (`on_headers_read`) and leaves `io_context::run` on
  another (`on_body_read`, the timer).
* **Framing.**  The stream is cut anywhere; a peer may pipeline; the header
  read takes part of the body, or of the next request.
* **Pointers that outlive a mutex.**  `get_metadata` returns a pointer into the
  table after it gave the mutex back.
* **Check, then act.**  Copies and moves between local disk and name node are
  several steps that other threads get in between.
* **Two levels of mutexes** in `lock` and `release`.
* **Two ends of one connection** that learn of each other only through the
  stream: either may give up, time out or close while the other goes on.
* **Sockets that run out**: the acceptor tries again without pause on the thread
  that must also run the timeouts that would free a socket.
* **A disk that others change** between two system calls of one operation.
* **Start-up that may fail at every step**, with exceptions derived from one
  another and a JSON library that throws, wraps or is undefined by turns.

`PROJECT.json` lists each hazard at its line with the properties that are aimed
at it.

What makes each component correct:

* session: one operation at a time; an open connection is watched by a timer
  or has something to do; operations end.
* server connection: each request handled once, in order; responses in order
  and never after a cut one; nothing after `close`.
* client: each callback called once, with its own response.
* connection: what the client is told agrees with what the server did.
* server: whoever connects is served in the end, and sockets come back.
* messages: the two ends agree on what was said, where it ends and whether the
  connection stays.
* name node and file system: no file is lost or doubled; the multi-step
  operations act on the name space only through atomic steps.
* path locks: exclusion; whoever asks gets the lock (does not hold, section 5).
* local file system: lock files come and go with their holders (they do not
  exclude, section 5); a listing is right about what nobody touched.
* daemon: the exit code names the cause; the provider keeps what was constructed.

## 2. Modules

| Module | Models | Builds on |
|---|---|---|
| `HttpSession` | `session`: a record for the members, one operator per member function, and Boost.Asio as the code uses it | - |
| `ServerSession` | one server connection and its peer | `HttpSession` |
| `ClientSession` | one client connection, the program that uses it, its server | `HttpSession` |
| `HttpConnection` | client and server at the two ends of one connection | instances of `ClientSession` and `ServerSession` |
| `RequestResponse` | abstract: what a connection promises the programs at its ends | implemented by `HttpConnection` |
| `HttpServer` | the acceptor and all sessions of one `io_context`, in a process with a limit of sockets | `HttpSession` |
| `HttpMessage` | headers, methods, `serialize` and `parse` as operators | - |
| `HttpExchange` | one request and its answer, through both ends' hooks and `dispatch` | `HttpMessage` |
| `NameNode` | the table of files as operators | - |
| `DistributedFs` | the file operations, by several threads | `NameNode` |
| `Namespace` | abstract: an atomic name space | implemented by `DistributedFs` |
| `DfsLocks` | `lock`, `release`, `close` | - |
| `PathLock` | abstract: one exclusive lock per path | implemented by `DfsLocks` |
| `LocalFs` | `local_file_system`, by several processes on one disk | - |
| `Json` | JSON values, as nlohmann::json accesses and converts them | - |
| `Configuration` | the structures of `configuration.hpp` and their constructors | `Json` |
| `JsonFields` | `json_field_base`, `json_struct` | `Configuration` |
| `DataNodes` | the data nodes of the name node and the constructor that registers them | - |
| `FileSystemProvider` | `get`, the cache, and construction that fails | `DataNodes` |
| `Daemon` | `main.cpp`, the command line, the logger | `JsonFields`, `FileSystemProvider` |
| `MC*` | instances for TLC | the module they are named after |
| `*Proofs` | theorems (section 4) | the module they are named after; those of both sessions on `HttpSessionProofs`, those of a connection on instances of the proofs of its ends |

In each module some definitions are marked "Wrong on purpose": each is a
plausible bug of the definition that follows it.  No specification uses them;
put in the place of that definition each one makes TLC report the property that
`PROJECT.json` ("mutants") names with it, which shows that the property depends
on that piece of code.

### HttpSession, ServerSession, ClientSession

The members of a session are the fields `open`, `timer`, `keepAlive`; the
fields `pending` and `ready` are its operations in the hands of the system and
its handlers in the queue of the `io_context`.  An action is one run of one
handler, from its first statement to its return, with every hook it calls
(`HeadersComplete` is `on_headers_read`, `on_message_parsed`, `m_handler` and
`do_write`), or one step of the system: data arrives in pieces of any size, an
operation fails, a timer expires.

What is taken from Boost.Asio:

* Handlers run one at a time, on the one thread that calls `run`, in the order
  in which they were queued.
* Cancelling a timer, or setting it anew, does not reach a wait that has
  expired.  A timer that expires while an operation completes can be queued
  before or after its handler; at most one expired wait is queued at a time.
* Closing a socket completes what is pending with `operation_aborted`; what has
  completed keeps its code.  An operation on a closed socket fails.
* A session is kept alive by its handlers alone: one with none is destroyed
  (`OpenIsWatched` shows that this never happens to an open connection).

Messages are records: the size of the headers, whether `parse` accepts them,
`Content-Length`, `Connection: close`.  A stream is a sequence of units, one for
the headers of a message and one for each unit of body.

The client's program follows `client.cpp`: it makes a request when the one before
is over, in its callback or later.  That is a precondition of the models: the code
does not check it (section 5).  Any callback may throw.  `escaped` says that an
exception left `run`, after which nothing runs.  Not in the model: calling
`on_connected` twice (the second handler replaces the first), and the recursion of a
callback that retries on a closed session.  `m_keep_alive` of the client is
set by the code and never read.

### HttpConnection, RequestResponse

`HttpConnection` has no second copy of the sessions: it instantiates `ClientSession`
and `ServerSession` and puts each in the place of the other's environment.  What
one `async_write` sends is appended to the log of its direction (`toServer`,
`toClient`: of every unit, which message it is of) and arrives in the stream the
other reads, cut as that end's reads cut it.  A request whose write failed half way
leaves a piece of a message in the stream.  Either end may fail, time out or close
at any step.  A client whose callback throws may stop for good, and the server goes on.

`RequestResponse` has no connection, no bytes and no timer: requests are issued,
handled at most once and in order, and reported once, as succeeded only when
handled.  `ImplementsRequestResponse` is the refinement.

### HttpServer

All sessions share one queue of handlers, in the order in which they were queued,
which is what a thread in `io_context::run` takes them from: a fair scheduler of
sessions is *not* assumed but follows from that order.  A process may have
`limit.sockets` sockets open; an accept completes with an error while none is left,
and its handler calls `do_accept` at once.  That is the hazard: an endless loop
of failing accepts on the only thread.  It leaves the others their turn because each
try goes to the end of the queue.  Requests have no body and arrive in one piece,
since `ServerSession` has the rest.  Connections are numbered in the order of opening,
which loses nothing as they do not differ.

### HttpMessage, HttpExchange

A value of a header is a word or a number; a body is its length.  Of the names of
headers there are, for each that the code reads or writes, the spelling of
`serialize`, the normal form, and one for all other spellings.  `headers_t` is an
`unordered_map` whose `operator[]` and `find` normalise a name and whose `insert` and
`emplace` do not: a program or a handler may pass headers of either kind, two
spellings of a name among them.  They are written in any order, and `parse` keeps
the last line of a name.  A request's path is one word: one with a blank would be cut
by `request_line::parse`.

How the bytes travel is in `ServerSession` and `ClientSession`; here only one thing of
it counts, how much of the body is read together with the headers (`part`), since that
is what `on_headers_read` compares with `Content-Length`.  The rest of a body that is
longer than the program's own `Content-Length` stays in the stream and is read as
the next request, which is outside the model of one exchange; so is a limit on the
size of the headers.

### NameNode, DistributedFs, Namespace

`m_metadata` is a function from paths to entries or `Absent`.  An entry has its
`path` member, its kind, the identity of the file (a ghost that tells files
apart) and the node of the map that holds it, which is what a pointer of
`get_metadata` points to.  An operation that makes one call of the name node
is one step; one that goes on after the name node gave its mutex back has a
step for each stretch (`pc`).  Reading through a pointer whose node was freed is
undefined behaviour: the model lets it give either value, the build may
also crash.  `size`, times, blocks and attributes of an entry are left out: no
code changes them.  A transfer of data is a stub in the code, so
`move_from_local` removes a local file whose contents were stored nowhere; the
model knows only whether it has an entry.

`Namespace` is what the name node promises: files are created under free paths,
removed, and moved to free paths, each at once.

### DfsLocks, PathLock

A step is what a thread does between two points where it may have to wait.
Callers keep the preconditions of `std::mutex` (they do not lock a path they
hold, nor release one they do not hold): the code has no check and the
behaviour would be undefined.  `is_shared` is ignored by the code.

### LocalFs

Each system call is a step.  `rename`, `remove`, `create` and `mkdir` are one;
`open`, `copy` of a directory, `list_files` and `release` are several, with other
processes in between.  Each may also fail for a reason that is not modelled (no
permission, no space, no file descriptor): it changes nothing then, and the opening
of a file fails without a word (`create` looks at no error).  A path is the sequence
of its names; renaming a directory moves what is in it.

A `directory_iterator` holds the open directory and not its path.  `readdir` may or
may not return what was made or removed since, as POSIX has it; and when the directory,
or one above it, was moved or replaced, what it returns are the entries of a directory
that is elsewhere, under the path by which it was opened.  `touched` is the history of
what changed during a walk, with all that is below it: an entry that is not in it is
what its path names, one that is in it may be anything.

A lock is the file `<tmp>/dcs/<hash>.lock`: `LockFile` gives each path its file, two
paths share one (equal hashes), and the directory `dcs`, which no code makes, may be
missing.  Where the file can not be opened `lock` returns as if it had been; where the
`remove` of `release` fails, it throws and the path stays locked.  Any process may die
at any time and is replaced by one that holds nothing; the files of what it had locked
stay on the disk (`left`), where those of earlier runs may also be at the start.  A
process may be killed, and it may also not survive `lock`: `create` returns a stream
over a buffer that is destroyed when it returns, and `lock` writes to it, which is
undefined.  Programs lock no path they hold and release none they do not hold, and
leave `dcs` alone.

### Json, Configuration, JsonFields

A document is a JSON value.  What nlohmann::json does with it is modelled as far as
the configuration uses it: a conversion of a wrong kind throws; a number is cut to
the width of the member (`Modulus`); `operator[]` of a *constant* object is
undefined for a member that is not there, of a document that may be changed it adds
the member, and of anything that is not an object it throws; `contains` of what is
not an object is false.  A structure is its members in the order of loading, since
the first that fails decides how the constructor ends.  `Load` is the constructors
as `configuration.cpp` writes them, `LoadFields` the same structures by the templates
of `config/json/`, which no program of the repository uses yet.  `json_struct` passes
its fields as arguments of one call, which the compiler evaluates in any order: they
are loaded forwards and backwards, so that of any two fields each comes first once.
From a document that may be changed, each field is loaded from what the one before
left of it: with members that `operator[]` added, and with an object in the place of a
null.  (What is moved out of a document are numbers, truth values and strings, which
`get` copies, and structures and lists, which leave to the document what their own
fields leave.)  `TemplatesAgree` compares the templates with the constructors: where
those make a structure the templates make the same, in either order, and where those
refuse the document the templates do too, though perhaps by another error; only where
a required member is missing may they put a null for it, in a document that they change.

### DataNodes, FileSystemProvider, Daemon

`DataNodes` registers the nodes of the configuration one at a time, as the
constructor of `distributed_file_system` does after it checked their number.
Nodes may register and send heartbeats later, though no code of the repository
does yet.  The capacity of a configured node is never set, so it may be anything;
`is_alive` never becomes false in the code, and a node may register as not alive,
or with more space used than it has: free space is computed modulo `Wrap`.

`Daemon` is `main.cpp`: arguments, configuration, logger, file system, close, exit
code.  `main.cpp` asks the provider once and uses no name node; with `MaxGets = 2`
a program that goes on is modelled too.  After undefined behaviour (a required
member is missing) the model stops: anything may follow.  The logger is refused by
spdlog for a thread pool of no or too many threads, for a rotation at size 0, to
which `max_size * MiB` may wrap, or because the file can not be opened.  Before any
of these comes the queue of an asynchronous logger: one of more than `MaxQueue` slots
finds no memory, which is not an error of spdlog and ends with exit code 1; a
`queue-size` of 0 is a queue of one slot that is full when it is empty, and the first
message waits for ever; the largest number wraps to a queue of no slot, and when
`main` returns it waits for ever for its threads.  Then the process is `stuck` and
has no exit code.  Memory and threads that run out elsewhere are not modelled.

## 3. Runs

| Run | Checks | Bounds, and why they are enough |
|---|---|---|
| `ServerSession` | types, `OneIoAtATime`, `OpenIsWatched`, `ReadsAtMessageStart`, `EachRequestOnce`, `ResponsesInOrder`, `NothingAfterClose` | 3 requests of 7 kinds, one for each branch of `on_headers_read`; a response of 2 units, so that it can be cut. A session keeps nothing of a request but its keep-alive flag, so two suffice to mix them up, and the third follows a closing one |
| `ClientSession` | `EachAnsweredOnce`, `WaitingIsWatched`, `IdleIsQuiet`, `OneIoAtATime`, and that every request ends (`EveryRequestEnds`) | 3 requests, 5 kinds of response, both ways to connect |
| `HttpConnection` | `AnswerIsTheServers`, `LateRequestFails`, refinement of `RequestResponse`, and that the server closes in the end (`ServerLetsGo`) | 2 requests, so that the second meets what is left of the first, keep-alive and closing; messages of 2 units, so that each is read and written in pieces |
| `HttpServer` | `EveryoneIsAccepted`, `EveryConnectionEnds` | 1 socket with 3 connections (one served, two waiting) and 2 sockets with 2 connections (two served at once); each sends one request or none |
| `HttpExchange` | `RequestArrives`, `ResponseFramed`, `CloseIsAnnounced` | every method of the client; no header, each of the names in every spelling with every value that counts for it, and two spellings of one name that differ; in every order of writing; bodies up to 3 with a limit of 2, and every part of them read with the headers: shorter, equal and longer than `Content-Length`, the limit and beyond. Two headers suffice, since names do not affect one another but through the two that `serialize` adds |
| `DistributedFs` | types, `KeyMatchesPath`, `FilesConserved`, `MovedIsStored`, `DanglesOnlyByRemoval`, refinement of `Namespace` | 2 threads, 2 paths, 1 local file, 4 allocations: create, remove or rename, and create again under a pointer, with one to spare. Threads and paths are symmetric: no operation tells them apart |
| `DfsLocks` | types, `MutualExclusion`, `ContentionJams`, `GrantedUnlessJammed`, refinement of `PathLock` | 3 threads, 2 paths, 2 calls of `lock` each: contention on one path while another is free |
| `LocalFs` | types, `LockFileHasHolder`, `SoleHolderIsRecorded`, `ListingIsRight` | 2 processes, 6 paths 3 deep, a tree to list; one reads with 2 calls while the other changes the disk with 3 (move a directory away, make one in its place, put a file there), and both lock 3 paths of which 2 share a hash. Every call may fail and either process may die at any step. Two disks: one without `dcs`, where no lock is ever recorded, and one with it and with a lock file that an earlier run left |
| `Daemon` | `ExitCodeTellsWhy`, `KeptAreConstructed`, `TemplatesAgree`, `SelectIsBest` | every document that differs from a good one in one place: a member gone, or with each of 11 values of every kind, 15 among them, which wraps to no slots of a queue; and those with two faults in different members of the document or of its `logger` section, of which the one that is loaded first decides, and which that is may depend on the order of the fields. `Modulus` 4, 8 and 16 stand for 2^16, 2^32, 2^64, `MiB` 4 for 2^20, 3 threads for spdlog's 1000, a queue of 6 slots for what there is memory for: small enough that numbers of the documents wrap. 2 calls of `get`; 2 names of nodes and the empty one, capacities 0 and 1, so that nodes tie, differ and wrap |
| `StaleTimeout`, `StaleKind`, `KeepAliveLost` | one statement of a comment each, which does not hold | section 5 |

What is written to bound a model and not to describe the code: `MaxRequests`,
`MaxCalls`, `MaxAllocs`, `MaxGets`, the `conns` of `Limits`.  The proofs hold for every
value of them.

**Fairness.**

* `ClientSession`, `HttpConnection`, `HttpServer`: weak fairness of the handlers (the
  programs call `ctx.run()` and do nothing else) and of the expiry of an armed timer
  (time passes).  None for the peer, the network, or data in flight: the timeout alone
  must end an operation.
* `HttpServer`: one weak fairness for the head of the queue, whosesoever handler it
  is, and one for the operating system's end of an accept, which accepts who waits or fails
  for want of a socket.  `EveryoneIsAccepted` also takes that no client sends requests for
  ever (`MaxRequests`): with a limit of sockets, one that does keeps its socket.
* `HttpConnection`: nothing is assumed of the client's end for the server's, or the
  other way round, beyond that each program runs.
* `DfsLocks`: weak fairness of every step of a thread that is in a call, and of giving
  back a lock; a thread makes a bounded number of calls, so those ahead of a waiting
  one end and weak fairness of a mutex is enough.

`ServerSession`, `LocalFs`, `DistributedFs` and `Daemon` are checked for safety only: that
a server's connection ends is `ServerLetsGo` and `EveryConnectionEnds`.

**Deadlock** is not checked where the system may stop: a closed session or server,
an exchange that is over, threads and processes that have made their calls, a jam of
locks, a daemon that has ended.

## 4. Proofs

TLAPS checks each theorem below for every value of the constants, under the
named assumptions next to their declaration.  Bounds are natural numbers; a response
has at least one unit; a path is not its own marker for "none".  In `HttpConnection`
the bodies of both ends' messages fit the limit on bodies.  Of `LocalFs` it is
assumed that the directory of the lock files is outside the paths of the programs
(`<tmp>/dcs`, which they leave alone), that a lock file is an entry of it
(`<hash>.lock`), and that a disk at the start is a tree (what is on it has its
directories there) on which no directory has the name of a lock file; lock files of
an earlier run may be there.

No property below but the simplest is inductive as it stands.  What each proof adds:

* **`HttpSessionProofs`** holds the lemmas on the operators of `HttpSession`.
  `Sound(s)` says that a session is attended to by one operation, and that it has
  nothing pending when closed and nothing cancelled when open; `Idle(s)` is the state
  in which a handler starts the next operation.  Running a handler leads from `Sound`
  to `Idle`, starting an operation back to `Sound`, and `shutdown` keeps both.  The
  proofs of both ends cite these lemmas.
* **`ServerSessionProofs`**: `TypeCorrect`, `OneIoAtATimeHolds`, `OpenIsWatchedHolds`,
  `NothingAfterCloseHolds`.  The invariant (`IInv`) adds `Sound(s)`; that what a
  handler carries is a request that was sent (`Known`), without which the number of
  bytes still to be read could go below zero; and that after a request that closes all
  that can still happen is the end of its response (`WriteOnly`): nothing but a write is
  pending or queued.

  The order of requests and responses, `EachRequestOnceHolds`, `ReadsAtMessageStartHolds`
  and `ResponsesInOrderHolds`, needs to know what is in the streams.  `Framed`: after
  each request in the stream the next one comes as far on as the length of the first
  says, or will when the peer sends it.  `InPlace`: an operation under way, or whose
  handler is queued, stands where it should, a read of headers at the start of the
  request after those handled, a read of a body as far from its end as it still asks
  for, a write at the end of the responses before.  `Written`: what is in the stream to
  the peer are the responses of the requests handled, to the last unit but for
  the one that is being written.  The three properties follow at once; the work is in
  a piece of data that arrives or is taken, which moves every position.
* **`ClientSessionProofs`**: `EachAnsweredOnceHolds`, `WaitingIsWatchedHolds`,
  `IdleIsQuietHolds`, `OneIoAtATimeHolds`.  The invariant adds to one operation at a time
  that the callbacks called so far are those of all requests but the one that waits, each
  once (`Once`); that a callback waits only on an open session that is watched; that an
  open session for which nobody waits has nothing under way (`Quiet`); and that before
  it is connected it has done nothing (`Unconnected`).  The hard step is a callback that
  makes the next request from within the handler of the last, or throws out of it.
* **`HttpConnectionProofs`**: `AnswerIsTheServersHolds`, `LateRequestFailsHolds`,
  `Refinement`, for messages of any length within the limits and any number of requests.
  The invariants of the two ends are used as they are proved above, through instances of
  `ClientSessionProofs` and `ServerSessionProofs` with the other end in the place of the
  environment; both modules therefore also say what a step does that the other end can
  notice.  What joins them (`Joint`) is arithmetic on the two streams, with a number `b`
  that all of it is relative to: the requests refused before the socket was open, which
  are in no stream.  `Streams`: each log consists of whole messages `b + 1`, `b + 2`, ...
  of their length and perhaps a part of one, and what is still to be read is the end of
  the log, its marks where the messages begin.  `Counts`: the server has handled no more
  than was sent whole, and has written no more than it handled, and nothing for a request
  made after it closed.  `InPlace`: the operation of the client is at the place in both
  streams that belongs to its last request, in its write, before the headers, or as far
  from the end of the response as the body is long.  `Answered`: what succeeded was
  answered by the response of its number, whole.  From `Joint` follow the assumptions that
  each end makes of its environment (`Seen`, `Replied`: well framed messages with known
  numbers), so that neither proof is repeated.  The hard steps are a write, which moves
  the log while what arrived stays where it was (`Delivered`), and the handler that finds
  a response whole and whose callback makes the next request in the same step.
* **`HttpExchangeProofs`**: `RequestArrivesHolds`, `ResponseFramedHolds`,
  `CloseIsAnnouncedHolds`, for any bodies, paths and routes, any headers in any spelling,
  and any part of a body read with its headers.  The invariant says what is on the wire;
  the lemma `Parsed` says what `parse` makes of headers written in any order with lines
  of `serialize` after them: a name has one of the values of its spellings unless one of
  those lines has it, and of those lines the last counts.
* **`DfsLocksProofs`**: `TypeCorrect`, `MutualExclusionHolds`, `ContentionJamsHolds`,
  `Refinement`.  The invariant ties `held` to `owner`, and says that the thread
  between the two mutexes, and no other, owns `m_locks_mutex`.  That gives both
  the exclusion and the jam: a thread that waits for a taken path has the mutex
  that everyone else needs, so the deadlock is certain and not a matter of timing.
* **`DistributedFsProofs`**: `TypeCorrect`, `KeyMatchesPathHolds`, `FilesConservedHolds`,
  `MovedIsStoredHolds`, `DanglesOnlyByRemovalHolds`, `Refinement`.  The invariant adds
  that no two entries share a node of the map (`NodesDistinct`), that a pointer's node was
  allocated and holds the file of the call or none (`PointerKnown`), and that a call
  has the arguments its operation goes on to use (`ProperCalls`).  Each operation is
  shown to change the table by at most one of three shapes (create, erase, rename), which
  are the steps of `Namespace`.
  The module ends with the proofs of `FileSystemProvider`: `KeptAreConstructedHolds`,
  `SelectIsBestHolds`.  The specification of `Daemon` reaches recursive operators, so
  these are proved of one of their own (`ProgramSpec`): a program that asks the provider,
  in any order and again after a failure, for local file systems and for that of one name
  node, and calls that name node; `Daemon` does nothing else with them, with keys and
  configurations from its document.  `Kept` adds that no other distributed file system is
  kept while one is constructed; `NodesOk`, that the data nodes are finitely many and have
  different names, so that an enumeration of them, and any first part of one, has no name
  twice.  `Sorted` compares any two nodes and not neighbours only: the two are the same, but
  to get one from the other takes an induction.
* **`LocalFsProofs`**: `TypeCorrect`, `LockFileHasHolderHolds`,
  `SoleHolderIsRecordedHolds`, `ListingIsRightHolds`, for trees of any depth and any number
  of processes, with calls that fail and processes that die at any step.  `DiskOk`:
  whatever is on the disk has all its directories there, and a lock file is no directory;
  moving a directory keeps this because it moves all that is in it.  `LocksOk`: the two
  properties of the lock files, and that who is alone in holding one (`sole`) is the only
  holder of any path it stands for.  For `list_files` (`ListOk`), which is a walk that
  others disturb: its frames lie on one way down (`StackOk`), what no one touched has
  no directory above it that was touched (`WaysUntouched`), and what has been passed
  by (`CoveredBy`: it is below an entry that was seen, and not below the one the walk is
  in) is listed if it is a file and not if it is none.  The walk ends with everything
  covered.  TLC checked this invariant on the instance of the `LocalFs` run before it was
  proved.

Only model-checked:

* liveness (`EveryRequestEnds`, `ServerLetsGo`, `EveryoneIsAccepted`,
  `EveryConnectionEnds`, `GrantedUnlessJammed`), which is beyond the prover;
* of `Daemon`, `ExitCodeTellsWhy` and `TemplatesAgree`: its documents are trees and need
  recursive operators, which the prover does not take.

## 5. Where code and documentation differ

Each has a run that ends in a counterexample (`PROJECT.json`, "findings", quotes
the line).

| Run | What the code does |
|---|---|
| `StaleTimeout` | a timeout of an operation that is over closes the connection in the middle of the next |
| `StaleKind` | `is_directory` reads an entry that is gone |
| `KeepAliveLost` | `response::serialize` adds `Connection: close` to every response whose headers were set with `operator[]` |

Others follow from the modules, or from what they take as preconditions, and have no
run of their own:

* `get` "Performs an asynchronous HTTP GET request" (`http/client.hpp:52`), but while
  another is under way it replaces that one's callback (`client.cpp:99`), which is then
  never called; `http/README.md:3` has a queue of requests as to do.
* "For now, just acquire the mutex" (`distributed_file_system.cpp:203`): the first
  contended `lock` waits with `m_locks_mutex` in its hands, which `release` needs, and
  blocks every `lock` and `release` for good (`ContentionJams`, proved).
* `shutdown` "cancels pending operations" (`http/session.hpp:76`), but a read that has
  completed is handled all the same: the request handler runs after a timeout
  closed the connection, and its response goes nowhere.
* `close` "will release any held locks" (`fs/file_system.hpp:100`) and does nothing.
* `move_to_local` is "Copy + Delete from DFS" (`distributed_file_system.cpp:296`), but
  deletes by path what another thread may have put there after the copy.
* `list_files` is "empty if path doesn't exist or is not a directory"
  (`fs/file_system.hpp:68`); `list_directory` compares prefixes and never looks the
  path up, and `local_file_system` returns the path itself (`ListFiles`).
  `ListingIsRight` is therefore about directories only.
* A header that a program puts in with `insert` or `emplace` in another spelling than
  the normal form is one that `find` and `operator[]` do not see.  Spelt as `serialize`
  spells it, a handler's `Content-Length` or `Connection` goes out as it is, right or
  wrong: `ResponseFramed` and `CloseIsAnnounced` then take that it is right.
* A request whose own `Content-Length` is smaller than its body is cut to it, and the
  rest read as the next request, if the rest comes after the headers were read
  (`http/session.hpp:178` looks at what was read so far); if it comes with them, the
  request is refused (`RequestArrives`).
* With a `queue-size` of 0 the daemon hangs at its first message (`main.cpp:20`), and
  with one that there is no memory for it ends with "Runtime error" and not with "Log
  init failed".
* `local_file_system::lock` excludes nobody: it makes the lock file whether it is there
  or not, and makes none without saying so when `<tmp>/dcs` is missing.  What the lock
  files do promise is `LockFileHasHolder` and `SoleHolderIsRecorded`.
* `create` and `open` of `local_file_system` return streams over buffers that no longer
  exist.
* `replication` is "How many copies we try to have at all times"
  (`config/configuration.hpp:91`), but the configured data nodes are registered under one
  empty name and replace one another: a write finds one.  It "is at max the number of
  datanodes"; a larger number makes the constructor throw, and one that wraps to 0 in
  32 bits asks for none.
* A data node that reports more used space than it has wraps to the most free space and
  is chosen first (`SelectIsBest` leaves such nodes out of its comparison).
* Each host and port has a distributed file system with a name node of its own.
* `"console-output": false` makes a console sink like `true` (`logger.cpp:48`).
* Numbers of the configuration wrap to the width of the member without an error, and
  a `dfs` section that is no object is taken for an empty one.

## 6. Not modelled

* `route` and `set_default_handler` while connections are served: the programs set
  their routes before they call `run`, on the same thread.
* `fixed_string` (computed by the compiler), and the accessors, comparisons and
  assignments of a field, which hand on the stored value.
* `core/errors.hpp`, `conversion.hpp`, `sys_api.hpp`: exception classes, conversions
  of enumerations, and the character type of the platform.  The models say which exception leaves which call.
* Comments and syntax of a configuration file (a document is parsed or is not),
  patterns and levels of the logger's sinks.
* `list_directory`, `is_exists`: they read the table and change nothing.
* `tests/`: they exercise the headers and strings on examples.
* Reason phrases, `Content-Type`, percent-encoding: no property looks at them.
* Memory and threads that run out, but for the memory of the logger's queue.

## 7. Plan

Done: the modules above, in the order locks, sessions, file system, messages, data
nodes; then both ends of a connection, the server, the local file system, and the
daemon with its configuration; the proofs of section 4.

Open: `ExitCodeTellsWhy` and `TemplatesAgree` for documents of any depth would need
`Json` and `Configuration` on a representation of trees without recursive operators.
