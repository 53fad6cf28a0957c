------------------------- MODULE FileSystemProvider -------------------------
(***************************************************************************)
(* fs::file_system_provider (fs/file_system_provider.cpp): it makes the   *)
(* file system of a host and port when it is asked for it, keeps it, and  *)
(* gives the same one to whoever asks again.  A distributed file system   *)
(* is constructed step by step (DataNodes) before it is kept.             *)
(***************************************************************************)
EXTENDS DataNodes

VARIABLES filesystems,  \* m_filesystems: the file system of a host and port
          pending,      \* the host and port whose file system is constructed
          made,         \* how many file systems were made: the next one's name
          given         \* what get returned last, and for which host and port

providerVars == <<filesystems, pending, made, given>>

NoKey == <<>>
NoFileSystem == [key |-> NoKey, object |-> 0]

ProviderInit ==
    /\ filesystems = [key \in {} |-> 0]
    /\ pending = NoKey
    /\ made = 0
    /\ given = NoFileSystem

Keep(key, object) ==
    filesystems' = [k \in DOMAIN filesystems \cup {key} |->
                       IF k = key THEN object ELSE filesystems[k]]

Give(key, object) == given' = [key |-> key, object |-> object]

GetKept(key) ==
    /\ pending = NoKey /\ key \in DOMAIN filesystems
    /\ Give(key, filesystems[key])
    /\ UNCHANGED <<filesystems, pending, made>>
    /\ UNCHANGED dataNodesVars

GetLocal(key) ==
    /\ pending = NoKey /\ key \notin DOMAIN filesystems /\ key[1] = "localhost"
    /\ made' = made + 1
    /\ Keep(key, made')
    /\ Give(key, made')
    /\ UNCHANGED pending
    /\ UNCHANGED dataNodesVars

\* (Wrong on purpose: the file system is kept before it is constructed.)
GetDistributedEarly(key, nameNode) ==
    /\ pending = NoKey /\ key \notin DOMAIN filesystems /\ key[1] # "localhost"
    /\ Construct(nameNode)
    /\ pending' = key
    /\ made' = made + 1
    /\ Keep(key, made')
    /\ UNCHANGED given

GetDistributed(key, nameNode) ==
    /\ pending = NoKey /\ key \notin DOMAIN filesystems /\ key[1] # "localhost"
    /\ Construct(nameNode)
    /\ pending' = key
    /\ UNCHANGED <<filesystems, made, given>>

\* The constructor throws, and get with it: nothing is kept.
DistributedThrows ==
    /\ pending # NoKey
    /\ Throw
    /\ pending' = NoKey
    /\ UNCHANGED <<filesystems, made, given>>

DistributedRegisters ==
    /\ pending # NoKey
    /\ RegisterConfigured
    /\ UNCHANGED providerVars

DistributedMade ==
    /\ pending # NoKey
    /\ Constructed
    /\ made' = made + 1
    /\ Keep(pending, made')
    /\ Give(pending, made')
    /\ pending' = NoKey

(* ------------------------------ properties ------------------------------ *)

\* A file system that is kept was constructed to the end, no two hosts and
\* ports share one, and what get returns is the one that is kept.
KeptAreConstructed ==
    /\ \A key \in DOMAIN filesystems :
          /\ filesystems[key] \in 1 .. made
          /\ key[1] # "localhost" => pending = NoKey /\ state = "ready"
          /\ \A other \in DOMAIN filesystems :
                filesystems[other] = filesystems[key] => other = key
    /\ given # NoFileSystem => /\ given.key \in DOMAIN filesystems
                               /\ given.object = filesystems[given.key]
=============================================================================
