--------------------------- MODULE StoreAndForward ---------------------------
(***************************************************************************)
(* One node, used in every way its interface allows: any bundle may be     *)
(* ingested at any instant, whether or not instants go forward, and any ID *)
(* may be dequeued at any time.                                            *)
(***************************************************************************)
EXTENDS Node

CONSTANTS
    Self,      \* the node's identifier
    Bundles,   \* the bundles that reach it
    Instants   \* the instants it is called at

ASSUME StoreAssumption ==
    Bundles \subseteq BundleType /\ Instants \subseteq Int

VARIABLE node   \* the node

NodeInit == node = NewNode

Ingest(b, now) == node' = AfterIngest(Self, node, b, now)

Dequeue(id) == node' = AfterDequeue(node, id)

IDs == {ID(b) : b \in Bundles}

NodeNext ==
    \/ \E b \in Bundles, now \in Instants : Ingest(b, now)
    \/ \E id \in IDs : Dequeue(id)

NodeSpec == NodeInit /\ [][NodeNext]_node

-----------------------------------------------------------------------------
NodeTypeOK ==
    /\ node = [store |-> node.store, order |-> node.order, delivered |-> node.delivered,
               seen |-> node.seen]
    /\ node.seen \subseteq IDs
    /\ DOMAIN node.store \subseteq IDs
    /\ node.store \in [DOMAIN node.store -> Bundles]
    /\ node.order \in Seq(IDs)
    /\ node.delivered \in Seq(Bundles)

Listed == {node.order[i] : i \in DOMAIN node.order}

DeliveredIDs == {ID(node.delivered[i]) : i \in DOMAIN node.delivered}

\* The map and the list of stored bundles describe the same queue: each ID is
\* listed once, and exactly those in the map are.  Stored() indexes the map
\* with the list, and Dequeue removes one entry of each.
OrderMatchesStore ==
    /\ Listed = DOMAIN node.store
    /\ \A i, j \in DOMAIN node.order : node.order[i] = node.order[j] => i = j
    /\ \A id \in DOMAIN node.store : ID(node.store[id]) = id

\* The application is given an ID at most once, and never one that is still
\* queued for somebody else.
DeliveredOnce ==
    /\ \A i, j \in DOMAIN node.delivered :
         ID(node.delivered[i]) = ID(node.delivered[j]) => i = j
    /\ DeliveredIDs \cap DOMAIN node.store = {}
    /\ \A i \in DOMAIN node.delivered : NodeID(node.delivered[i].dest) = Self

\* Everything that was kept is known to the duplicate filter.
KeptIsSeen == DOMAIN node.store \cup DeliveredIDs \subseteq node.seen

StoreInv == OrderMatchesStore /\ DeliveredOnce /\ KeptIsSeen

\* A bundle that has left the queue, or that never got in, is not taken in
\* again, however often it comes back and whatever the clock says.
NoReturn ==
    [][\A id \in node.seen \ DOMAIN node.store : id \notin DOMAIN node'.store]_node

\* Bundles leave the queue, but those that stay keep their order.
Ahead(m, x, y) ==
    \E i, j \in DOMAIN m.order : i < j /\ m.order[i] = x /\ m.order[j] = y

KeepsOrder ==
    [][\A x, y \in DOMAIN node.store \cap DOMAIN node'.store :
          Ahead(node, x, y) => Ahead(node', x, y)]_node
=============================================================================
