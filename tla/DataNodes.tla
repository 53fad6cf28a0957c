----------------------------- MODULE DataNodes -----------------------------
(***************************************************************************)
(* The data nodes that dfs::name_node knows (dfs/name_node.cpp), and the  *)
(* constructor of fs::distributed_file_system that registers them from    *)
(* the configuration (fs/distributed_file_system.cpp).  The constructor   *)
(* sets neither the name nor the capacity of a node: the name is empty,   *)
(* the capacity whatever the memory held.  Each member function of the    *)
(* name node runs under m_nodes_mutex and is one step.                    *)
(***************************************************************************)
EXTENDS Naturals, Sequences, FiniteSets

CONSTANTS Hosts,       \* addresses of data nodes that register themselves
          Ids,         \* their names
          NoName,      \* the empty node_name
          Capacities,  \* what a capacity may be
          Wrap         \* the number of values of std::uint64_t

ASSUME DataNodesAssumption ==
    /\ NoName \notin Ids
    /\ Wrap \in Nat \ {0}
    /\ Capacities \subseteq 0 .. Wrap - 1

VARIABLES config,  \* m_name_node_config: its dataNodes and its replication
          state,   \* of the file system: none, being constructed, constructed, or not
          next,    \* the configured node to register next
          nodes,   \* m_data_nodes
          asked,   \* the count of select_data_nodes_for_write, if the last
          chosen   \* call was one, and what it returned

dataNodesVars == <<config, state, next, nodes, asked, chosen>>

NoConfig == [dataNodes |-> <<>>, replication |-> 0]

DataNodesInit ==
    /\ config = NoConfig
    /\ state = "none"
    /\ next = 1
    /\ nodes = {}
    /\ asked = 0
    /\ chosen = <<>>

\* register_data_node: the node replaces the one of the same name.
Register(node) == nodes' = {n \in nodes : n.node_name # node.node_name} \cup {node}

(* ------------- the constructor of distributed_file_system --------------- *)

Construct(c) ==
    /\ config' = c
    /\ state' = "new"
    /\ next' = 1
    /\ nodes' = {}
    /\ asked' = 0 /\ chosen' = <<>>

ConfigValid == config.dataNodes # <<>> /\ config.replication <= Len(config.dataNodes)

Throw ==
    /\ state = "new"
    /\ ~ConfigValid
    /\ state' = "failed"
    /\ UNCHANGED <<config, next, nodes, asked, chosen>>

RegisterConfigured ==
    /\ state = "new" /\ ConfigValid
    /\ next <= Len(config.dataNodes)
    /\ \E capacity \in Capacities :
         Register([node_name |-> NoName, host |-> config.dataNodes[next],
                   capacity |-> capacity, used_space |-> 0, is_alive |-> TRUE])
    /\ next' = next + 1
    /\ UNCHANGED <<config, state, asked, chosen>>

Constructed ==
    /\ state = "new" /\ ConfigValid
    /\ next > Len(config.dataNodes)
    /\ state' = "ready"
    /\ UNCHANGED <<config, next, nodes, asked, chosen>>

(* ------------------------- calls of the name node ----------------------- *)

\* A data node announces itself, or what it has become.  Nothing keeps it from
\* saying that it uses more than it has.
RegisterDataNode ==
    /\ state = "ready"
    /\ \E id \in Ids, host \in Hosts, capacity \in Capacities, used \in Capacities, alive \in BOOLEAN :
         /\ Register([node_name |-> id, host |-> host, capacity |-> capacity,
                      used_space |-> used, is_alive |-> alive])
    /\ asked' = 0 /\ chosen' = <<>>
    /\ UNCHANGED <<config, state, next>>

UpdateHeartbeat ==
    /\ state = "ready"
    /\ \E id \in Ids \cup {NoName} :
         nodes' = {IF n.node_name = id THEN [n EXCEPT !.is_alive = TRUE] ELSE n : n \in nodes}
    /\ asked' = 0 /\ chosen' = <<>>
    /\ UNCHANGED <<config, state, next>>

WithinCapacity(n) == n.used_space <= n.capacity

Free(n) == (n.capacity - n.used_space) % Wrap

Alive == {n \in nodes : n.is_alive}

\* (Wrong on purpose: the fullest nodes first.)
SortedAscending(S) ==
    {q \in [1 .. Cardinality(S) -> S] :
        /\ S = {q[i] : i \in DOMAIN q}
        /\ \A i, j \in DOMAIN q : i < j => Free(q[i]) <= Free(q[j])}

\* std::sort leaves nodes with the same free space in any order.
Sorted(S) ==
    {q \in [1 .. Cardinality(S) -> S] :
        /\ S = {q[i] : i \in DOMAIN q}
        /\ \A i, j \in DOMAIN q : i < j => Free(q[i]) >= Free(q[j])}

\* What select_data_nodes_for_write(count) may return.
Selections(count) ==
    LET wanted == IF count = 0 THEN config.replication ELSE count
    IN  {IF Len(q) > wanted THEN SubSeq(q, 1, wanted) ELSE q : q \in Sorted(Alive)}

Select ==
    /\ state = "ready"
    /\ \E count \in 0 .. Cardinality(Ids) + 1 :
         /\ asked' = count
         /\ chosen' \in Selections(count)
    /\ UNCHANGED <<config, state, next, nodes>>

NameNodeCall == RegisterDataNode \/ UpdateHeartbeat \/ Select

(* ------------------------------ properties ------------------------------ *)

\* A write goes to nodes of different names, all alive, as many as were asked for
\* (or all that are alive), and of those that use no more than they have none
\* that is left out has more free space than one that is chosen.  Nothing is
\* said of a node that uses more than it has: the subtraction of name_node.cpp
\* wraps, and such a node comes before any other.
SelectIsBest ==
    [][Select =>
         LET wanted == IF asked' = 0 THEN config.replication ELSE asked'
             picked == {chosen'[i] : i \in DOMAIN chosen'}
         IN  /\ picked \subseteq Alive
             /\ \A i, j \in DOMAIN chosen' :
                   chosen'[i].node_name = chosen'[j].node_name => i = j
             /\ Len(chosen') = IF Cardinality(Alive) < wanted THEN Cardinality(Alive) ELSE wanted
             /\ \A m \in picked, n \in Alive \ picked :
                   WithinCapacity(m) /\ WithinCapacity(n) => Free(m) >= Free(n)]_dataNodesVars
=============================================================================
