------------------------------ MODULE FindRoute ------------------------------
(***************************************************************************)
(* ContactPlan.FindRoute: Dijkstra's search over the contact graph, as the *)
(* code runs it, one heap operation or one relaxed contact per step.       *)
(*                                                                         *)
(* container/heap promises only that Pop returns an entry no other entry   *)
(* is Less than, so an entry that ties for the earliest arrival is chosen  *)
(* freely.  Entries are never removed when a better one is pushed; stale   *)
(* entries are skipped when they are popped (PopStale).                    *)
(***************************************************************************)
EXTENDS ContactGraph

CONSTANTS
    Queries   \* the calls: [plan, source, dest, size, ready]

ASSUME QueriesAssumption ==
    Queries \subseteq [plan : ContactPlan, source : Node, dest : Node,
                       size : Nat, ready : Time]

VARIABLES
    query,     \* the receiver and the arguments of the call
    pc,        \* where the call is
    cur,       \* the entry popped last
    todo,      \* indices of byFrom[cur.node] not yet relaxed
    best,      \* earliest known arrival, per reached node
    pred,      \* the contact that achieved it
    visited,   \* nodes popped
    pq,        \* the heap
    at,        \* reconstruct's cursor
    hops,      \* reconstruct's route so far
    result     \* the returned pair

vars == <<query, pc, cur, todo, best, pred, visited, pq, at, hops, result>>

Item == [node : Node, arrival : Time]

ZeroRoute == [ok |-> FALSE, hops |-> <<>>, arrival |-> 0]

Init ==
    /\ query \in Queries
    /\ pc = "call"
    /\ cur = [node |-> query.source, arrival |-> query.ready]
    /\ todo = {}
    /\ best = [v \in {query.source} |-> query.ready]
    /\ pred = EmptyMap
    /\ visited = {}
    /\ pq = {[node |-> query.source, arrival |-> query.ready]}
    /\ at = query.dest
    /\ hops = <<>>
    /\ result = ZeroRoute

CallHere ==    \* source == dest
    /\ pc = "call"
    /\ query.source = query.dest
    /\ result' = [ok |-> TRUE, hops |-> <<>>, arrival |-> query.ready]
    /\ pc' = "done"
    /\ UNCHANGED <<query, cur, todo, best, pred, visited, pq, at, hops>>

CallAway ==
    /\ pc = "call"
    /\ query.source # query.dest
    /\ pc' = "pop"
    /\ UNCHANGED <<query, cur, todo, best, pred, visited, pq, at, hops, result>>

-----------------------------------------------------------------------------
(***************************************************************************)
(* The main loop                                                           *)
(***************************************************************************)
\* Mutant: the heap does not put the earliest arrival first.
AnyItem(item) == item \in pq

Foremost(item) == item \in pq /\ \A e \in pq : item.arrival <= e.arrival

Pop(item) ==
    /\ pc = "pop"
    /\ Foremost(item)
    /\ pq' = pq \ {item}
    /\ cur' = item

\* Mutant: a stale entry is looked at but stays in the heap.
PeekStale(item) ==
    /\ pc = "pop" /\ Foremost(item) /\ item.node \in visited
    /\ cur' = item
    /\ UNCHANGED <<query, pc, todo, best, pred, visited, pq, at, hops, result>>

PopStale(item) ==
    /\ Pop(item)
    /\ item.node \in visited
    /\ UNCHANGED <<query, pc, todo, best, pred, visited, at, hops, result>>

PopNode(item) ==
    /\ Pop(item)
    /\ item.node \notin visited
    /\ item.node # query.dest
    /\ visited' = visited \cup {item.node}
    /\ todo' = ByFrom(query.plan, item.node)
    /\ pc' = "relax"
    /\ UNCHANGED <<query, best, pred, at, hops, result>>

PopDest(item) ==
    /\ Pop(item)
    /\ item.node \notin visited
    /\ item.node = query.dest
    /\ visited' = visited \cup {item.node}
    /\ pc' = "rebuild"
    /\ UNCHANGED <<query, todo, best, pred, at, hops, result>>

Exhausted ==
    /\ pc = "pop"
    /\ pq = {}
    /\ result' = ZeroRoute
    /\ pc' = "done"
    /\ UNCHANGED <<query, cur, todo, best, pred, visited, pq, at, hops>>

-----------------------------------------------------------------------------
(***************************************************************************)
(* The inner loop, over byFrom[cur.node] in plan order                     *)
(***************************************************************************)
NextContact(i) == pc = "relax" /\ i \in todo /\ \A j \in todo : i <= j

\* Mutant: a contact that ties replaces the predecessor.
ImprovesOrTies(i) ==
    LET c == query.plan[i] IN
    /\ Carries(c, cur.arrival, query.size)
    /\ c.to \in DOMAIN best =>
         ArrivalTime(c, cur.arrival, query.size) <= best[c.to]

\* Mutant: the last contact wins, not the earliest.
AlwaysImproves(i) == Carries(query.plan[i], cur.arrival, query.size)

Improves(i) ==
    LET c == query.plan[i] IN
    /\ Carries(c, cur.arrival, query.size)
    /\ c.to \in DOMAIN best =>
         ArrivalTime(c, cur.arrival, query.size) < best[c.to]

Relax(i) ==
    LET c == query.plan[i]
        arrival == ArrivalTime(c, cur.arrival, query.size)
    IN
    /\ NextContact(i)
    /\ Improves(i)
    /\ best' = Put(best, c.to, arrival)
    /\ pred' = Put(pred, c.to, c)
    /\ pq' = pq \cup {[node |-> c.to, arrival |-> arrival]}
    /\ todo' = todo \ {i}
    /\ UNCHANGED <<query, pc, cur, visited, at, hops, result>>

Skip(i) ==
    /\ NextContact(i)
    /\ ~Improves(i)
    /\ todo' = todo \ {i}
    /\ UNCHANGED <<query, pc, cur, best, pred, visited, pq, at, hops, result>>

Expanded ==
    /\ pc = "relax"
    /\ todo = {}
    /\ pc' = "pop"
    /\ UNCHANGED <<query, cur, todo, best, pred, visited, pq, at, hops, result>>

-----------------------------------------------------------------------------
(***************************************************************************)
(* reconstruct walks pred from the destination back to the source.  The    *)
(* code appends the contacts and reverses the list at the end.             *)
(***************************************************************************)
WalkOn == at # query.source /\ at \in DOMAIN pred

\* Mutant: the route is not reversed.
RebuildBackwards ==
    /\ pc = "rebuild"
    /\ WalkOn
    /\ hops' = Append(hops, pred[at])
    /\ at' = pred[at].from
    /\ UNCHANGED <<query, pc, cur, todo, best, pred, visited, pq, result>>

Rebuild ==
    /\ pc = "rebuild"
    /\ WalkOn
    /\ hops' = <<pred[at]>> \o hops
    /\ at' = pred[at].from
    /\ UNCHANGED <<query, pc, cur, todo, best, pred, visited, pq, result>>

Return ==
    /\ pc = "rebuild"
    /\ ~WalkOn
    /\ result' = [ok |-> TRUE, hops |-> hops, arrival |-> cur.arrival]
    /\ pc' = "done"
    /\ UNCHANGED <<query, cur, todo, best, pred, visited, pq, at, hops>>

Returned == pc = "done" /\ UNCHANGED vars

Search ==
    \/ CallHere \/ CallAway
    \/ \E item \in pq : PopStale(item) \/ PopNode(item) \/ PopDest(item)
    \/ Exhausted
    \/ \E i \in todo : Relax(i) \/ Skip(i)
    \/ Expanded
    \/ Rebuild \/ Return

Next == Search \/ Returned

Spec == Init /\ [][Next]_vars

FairSpec == Spec /\ WF_vars(Search)

-----------------------------------------------------------------------------
(***************************************************************************)
(* Type correctness, with the domains the maps must keep: a node has a     *)
(* predecessor only when it has a label, and heap entries are of labelled  *)
(* nodes.                                                                  *)
(***************************************************************************)
TypeOK ==
    /\ query \in Queries
    /\ pc \in {"call", "pop", "relax", "rebuild", "done"}
    /\ cur \in Item
    /\ todo \subseteq DOMAIN query.plan
    /\ DOMAIN best \subseteq Node
    /\ best \in [DOMAIN best -> Time]
    /\ DOMAIN pred \subseteq DOMAIN best
    /\ pred \in [DOMAIN pred -> ContactsOf(query.plan)]
    /\ visited \subseteq DOMAIN best
    /\ pq \subseteq [node : DOMAIN best, arrival : Time]
    /\ at \in Node
    /\ hops \in Seq(ContactsOf(query.plan))
    /\ result \in [ok : BOOLEAN, hops : Seq(ContactsOf(query.plan)),
                   arrival : Time]

(***************************************************************************)
(* The invariant that makes the search correct.                            *)
(***************************************************************************)
\* A label is never better than the entries of its node, and a node not yet
\* visited has an entry for its label.
QueueCoversFrontier ==
    /\ \A e \in pq : best[e.node] <= e.arrival
    /\ \A v \in DOMAIN best \ visited :
         [node |-> v, arrival |-> best[v]] \in pq

\* Nodes are settled in order of arrival: nothing waiting in the heap, and
\* nothing found later, is earlier than a visited node.
SettledInOrder ==
    /\ \A u \in visited, e \in pq : best[u] <= e.arrival
    /\ pc \in {"relax", "rebuild"} =>
         /\ cur.node \in visited
         /\ best[cur.node] = cur.arrival
         /\ \A u \in visited : best[u] <= cur.arrival
         /\ \A e \in pq : cur.arrival <= e.arrival

\* Every contact out of a settled node has been used: it leads nowhere later
\* than the label of its far node.
Pending(i) == pc = "relax" /\ i \in todo

SettledIsRelaxed ==
    \A u \in visited \ {query.dest} : \A i \in ByFrom(query.plan, u) :
        LET c == query.plan[i] IN
        ~Pending(i) /\ Carries(c, best[u], query.size) =>
            /\ c.to \in DOMAIN best
            /\ best[c.to] <= ArrivalTime(c, best[u], query.size)

\* The label of a reached node is what its predecessor contact delivers when
\* it is taken at the label of the predecessor node, which is settled.
LabelsFollowPred ==
    /\ best[query.source] = query.ready
    /\ \A v \in DOMAIN best \ {query.source} :
         /\ v \in DOMAIN pred
         /\ LET c == pred[v] IN
            /\ c.to = v
            /\ c.from \in visited \ {query.dest}
            /\ Carries(c, best[c.from], query.size)
            /\ best[v] = ArrivalTime(c, best[c.from], query.size)

\* What each phase of the call may rely on.
PhaseOK ==
    /\ query.source \in DOMAIN best
    /\ IF visited = {} THEN DOMAIN best = {query.source} ELSE query.source \in visited
    /\ pc = "call" => visited = {}
    /\ pc = "relax" => todo \subseteq ByFrom(query.plan, cur.node)
    /\ pc \in {"pop", "relax", "rebuild"} => query.source # query.dest
    /\ query.dest \in visited <=>
         pc = "rebuild" \/ (pc = "done" /\ result.ok /\ query.source # query.dest)
    /\ pc = "rebuild" => cur.node = query.dest

\* The contacts collected by reconstruct lead from the cursor to the
\* destination, and each one can be taken at the label of its near node.
RouteFollowsLabels ==
    /\ \A i \in DOMAIN hops :
         LET c == hops[i] IN
         /\ c.from \in visited
         /\ Carries(c, best[c.from], query.size)
         /\ c.to \in DOMAIN best
         /\ best[c.to] = ArrivalTime(c, best[c.from], query.size)
    /\ \A i \in DOMAIN hops : i + 1 \in DOMAIN hops => hops[i].to = hops[i + 1].from
    /\ hops = <<>> => at = query.dest
    /\ hops # <<>> => hops[1].from = at /\ hops[Len(hops)].to = query.dest

\* What the caller is given.
ResultOK ==
    /\ pc \in {"call", "pop", "relax"} => hops = <<>>
    /\ pc = "done" /\ ~result.ok => pq = {} /\ result.hops = <<>>
    /\ pc = "done" /\ result.ok =>
         IF query.source = query.dest
         THEN result.hops = <<>> /\ result.arrival = query.ready
         ELSE /\ result.hops = hops
              /\ at = query.source
              /\ result.arrival = best[query.dest]
              /\ \A e \in pq : result.arrival <= e.arrival

SearchInv ==
    /\ QueueCoversFrontier
    /\ SettledInOrder
    /\ SettledIsRelaxed
    /\ LabelsFollowPred
    /\ PhaseOK
    /\ RouteFollowsLabels
    /\ ResultOK

-----------------------------------------------------------------------------
(***************************************************************************)
(* Why the answer is the one that the reference definition asks for        *)
(***************************************************************************)
\* The contact has been used and arrives at v as early as any other so far.
ArrivesFirst(j, v) ==
    LET c == query.plan[j] IN
    /\ c.to = v /\ c.from \in visited \ {query.dest} /\ ~Pending(j)
    /\ Carries(c, best[c.from], query.size)
    /\ ArrivalTime(c, best[c.from], query.size) = best[v]

\* Of the contacts that arrive equally early the predecessor was used first.
PredIsFirst ==
    \A v \in DOMAIN best \ {query.source} : \E i \in DOMAIN query.plan :
        /\ query.plan[i] = pred[v] /\ ~Pending(i)
        /\ \A j \in DOMAIN query.plan : ArrivesFirst(j, v) =>
             /\ best[query.plan[i].from] <= best[query.plan[j].from]
             /\ query.plan[j].from = query.source => query.plan[i].from = query.source
             /\ query.plan[j].from = query.plan[i].from => i <= j

\* Contacts are used in the order of the plan, those of the source before any.
InPlanOrder ==
    pc = "relax" =>
        /\ \A i \in ByFrom(query.plan, cur.node) \ todo : \A j \in todo : i < j
        /\ cur.node = query.source => visited = {query.source}

\* No label is better than the reference.
LabelsAreSound ==
    \A table \in {Table(query.plan, query.source, query.size, query.ready)} :
        \A v \in DOMAIN best : Reaches(table, v) /\ Label(table, v) <= best[v]

\* reconstruct walks back along a shortest-path tree.
WalksUpstream ==
    pc = "rebuild" =>
        \A tree \in {TreeContacts(query.plan, query.source, query.size, table) : table \in
                        {Table(query.plan, query.source, query.size, query.ready)}} :
        \A near \in Upstream(query.plan, tree, query.dest) :
            /\ at \in near
            /\ hops # <<>> => \E i \in tree : hops[1] = query.plan[i] /\ hops[1].to \in near

AnswerInv == PredIsFirst /\ InPlanOrder /\ LabelsAreSound /\ WalksUpstream

-----------------------------------------------------------------------------
(***************************************************************************)
(* Properties                                                              *)
(***************************************************************************)
\* FindRoute computes what it promises in one step: the earliest arrival by
\* the reference definition, and a route that achieves it.
Oracle == INSTANCE RouteOracle WITH answered <- pc = "done", answer <- result

ImplementsOracle == Oracle!Spec

\* The call returns, whatever the plan: neither the search nor the walk
\* along pred runs for ever.
Returns == <>(pc = "done")

\* A settled label is final, and so is the predecessor of a settled node:
\* "if prev, seen := best[c.to]; !seen || arrival.Before(prev)" does not ask
\* whether c.to was visited, so nothing but the order of the heap keeps it.
SettledIsFinal ==
    [][\A v \in visited : /\ best'[v] = best[v]
                          /\ v \in DOMAIN pred => pred'[v] = pred[v]]_vars
=============================================================================
