---------------------------- MODULE Routing_proofs ----------------------------
(***************************************************************************)
(* The router.  Type correctness of FindRoute and the invariant that makes *)
(* Dijkstra's search correct, for every plan, every query and every number *)
(* of nodes; and from it that the route is optimal: no way of using the    *)
(* contacts of any plan beats it, or reaches a destination that it calls   *)
(* unreachable.  And step by step it implements the oracle, which answers  *)
(* in one step from the reference definition, however the heap breaks ties.*)
(*                                                                         *)
(* Then the store-and-forward node: its queue stays well formed, and       *)
(* delivers at most once, for any bundles, any instants and any order of   *)
(* calls.                                                                  *)
(***************************************************************************)
EXTENDS Carrier, StoreAndForward, ContactGraph_proofs, SequenceTheorems

LEMMA QueryTypes ==
    ASSUME query \in Queries
    PROVE /\ query.plan \in ContactPlan
          /\ query.source \in Node /\ query.dest \in Node
          /\ query.size \in Nat /\ query.ready \in Time
BY QueriesAssumption

LEMMA ContactTypes ==
    ASSUME query \in Queries, NEW c \in ContactsOf(query.plan)
    PROVE /\ c \in Contact /\ c.from \in Node /\ c.to \in Node
<1>1. PICK i \in DOMAIN query.plan : c = query.plan[i]
  BY DEF ContactsOf
<1>2. c \in Contact
  BY <1>1, QueryTypes DEF ContactPlan
<1> QED BY <1>2 DEF Contact

LEMMA PlanTypes ==
    ASSUME query \in Queries, NEW i \in DOMAIN query.plan
    PROVE query.plan[i] \in ContactsOf(query.plan)
BY DEF ContactsOf

\* The arithmetic of one relaxation, for the contacts of the plan.
LEMMA RelaxTypes ==
    ASSUME query \in Queries, NEW c \in ContactsOf(query.plan), NEW t \in Time
    PROVE /\ ArrivalTime(c, t, query.size) \in Time
          /\ t <= ArrivalTime(c, t, query.size)
BY ContactTypes, QueryTypes, ArrivalNotEarly

-----------------------------------------------------------------------------
LEMMA InitTypeOK == Init => TypeOK
<1> SUFFICES ASSUME Init PROVE TypeOK
  OBVIOUS
<1>1. query \in Queries
  BY DEF Init
<1>2. pred \in [DOMAIN pred -> ContactsOf(query.plan)] /\ DOMAIN pred = {}
  BY DEF Init, EmptyMap
<1>3. best \in [DOMAIN best -> Time] /\ DOMAIN best = {query.source}
  BY <1>1, QueryTypes DEF Init
<1> QED BY <1>1, <1>2, <1>3, QueryTypes DEF Init, EmptyMap, TypeOK, Item, ZeroRoute, Time

LEMMA NextTypeOK == TypeOK /\ [Next]_vars => TypeOK'
<1> SUFFICES ASSUME TypeOK, [Next]_vars PROVE TypeOK'
  OBVIOUS
<1>q. query' = query /\ query \in Queries
  BY DEF TypeOK, Next, Search, vars, CallHere, CallAway, PopStale, PopNode, PopDest,
         Exhausted, Relax, Skip, Expanded, Rebuild, Return, Returned
<1>1. CASE CallHere
  BY <1>1, <1>q, QueryTypes DEF TypeOK, CallHere
<1>2. CASE CallAway
  BY <1>2, <1>q DEF TypeOK, CallAway
<1>3. ASSUME NEW item \in pq, PopStale(item) PROVE TypeOK'
  <2>1. item \in Item
    BY DEF TypeOK, Item
  <2> QED BY <1>3, <1>q, <2>1 DEF TypeOK, PopStale, Pop
<1>4. ASSUME NEW item \in pq, PopNode(item) PROVE TypeOK'
  <2>1. item \in Item /\ item.node \in DOMAIN best
    BY DEF TypeOK, Item
  <2> QED BY <1>4, <1>q, <2>1 DEF TypeOK, PopNode, Pop, ByFrom
<1>5. ASSUME NEW item \in pq, PopDest(item) PROVE TypeOK'
  <2>1. item \in Item /\ item.node \in DOMAIN best
    BY DEF TypeOK, Item
  <2> QED BY <1>5, <1>q, <2>1 DEF TypeOK, PopDest, Pop
<1>6. CASE Exhausted
  BY <1>6, <1>q DEF TypeOK, Exhausted, ZeroRoute, Time
<1>7. ASSUME NEW i \in todo, Relax(i) PROVE TypeOK'
  <2> DEFINE c == query.plan[i]
             t == ArrivalTime(c, cur.arrival, query.size)
  <2>1. i \in DOMAIN query.plan /\ cur.arrival \in Time
    BY DEF TypeOK, Item
  <2>2. c \in ContactsOf(query.plan) /\ c.to \in Node /\ t \in Time
    BY <2>1, <1>q, PlanTypes, ContactTypes, RelaxTypes
  <2>3. DOMAIN best' = DOMAIN best \cup {c.to} /\ best' \in [DOMAIN best' -> Time]
    BY <1>7, <2>2 DEF TypeOK, Relax, Put
  <2>4. /\ DOMAIN pred' = DOMAIN pred \cup {c.to}
        /\ pred' \in [DOMAIN pred' -> ContactsOf(query.plan)]
    BY <1>7, <2>2 DEF TypeOK, Relax, Put
  <2>5. pq' = pq \cup {[node |-> c.to, arrival |-> t]}
    BY <1>7 DEF Relax
  <2>6. pq' \subseteq [node : DOMAIN best', arrival : Time]
    BY <2>2, <2>3, <2>5 DEF TypeOK
  <2> HIDE DEF c, t
  <2> QED BY <1>7, <1>q, <2>2, <2>3, <2>4, <2>6 DEF TypeOK, Relax
<1>8. ASSUME NEW i \in todo, Skip(i) PROVE TypeOK'
  BY <1>8, <1>q DEF TypeOK, Skip
<1>9. CASE Expanded
  BY <1>9, <1>q DEF TypeOK, Expanded
<1>10. CASE Rebuild
  <2>1. pred[at] \in ContactsOf(query.plan)
    BY <1>10 DEF TypeOK, Rebuild, WalkOn
  <2>2. hops' \in Seq(ContactsOf(query.plan))
    BY <1>10, <2>1 DEF TypeOK, Rebuild
  <2>3. at' \in Node
    BY <1>10, <2>1, <1>q, ContactTypes DEF Rebuild
  <2> QED BY <1>10, <1>q, <2>2, <2>3 DEF TypeOK, Rebuild
<1>11. CASE Return
  BY <1>11, <1>q DEF TypeOK, Return, Item
<1>12. CASE UNCHANGED vars
  BY <1>12 DEF TypeOK, vars
<1> QED BY <1>1, <1>2, <1>3, <1>4, <1>5, <1>6, <1>7, <1>8, <1>9, <1>10, <1>11, <1>12
        DEF Next, Search, Returned

-----------------------------------------------------------------------------
LEMMA InitSearchInv == Init => SearchInv
<1> SUFFICES ASSUME Init PROVE SearchInv
  OBVIOUS
<1> USE DEF Init, EmptyMap
<1>1. QueueCoversFrontier
  <2>1. query.ready <= query.ready
    BY QueryTypes DEF Time
  <2>2. \A v \in DOMAIN best : v = query.source /\ best[v] = query.ready
    OBVIOUS
  <2> QED BY <2>1, <2>2 DEF QueueCoversFrontier
<1>2. SettledInOrder
  BY DEF SettledInOrder
<1>3. SettledIsRelaxed
  BY DEF SettledIsRelaxed
<1>4. LabelsFollowPred
  BY DEF LabelsFollowPred
<1>5. PhaseOK
  BY DEF PhaseOK
<1>6. RouteFollowsLabels
  BY DEF RouteFollowsLabels
<1>7. ResultOK
  BY DEF ResultOK
<1> QED BY <1>1, <1>2, <1>3, <1>4, <1>5, <1>6, <1>7 DEF SearchInv

\* What relaxing a contact of the node just settled does: the new label is no
\* earlier than that node's, so no settled node is touched.
LEMMA RelaxFacts ==
    ASSUME TypeOK, SearchInv, NEW i \in todo, Relax(i), NEW c, c = query.plan[i],
           NEW t, t = ArrivalTime(c, cur.arrival, query.size)
    PROVE /\ query \in Queries /\ c \in ContactsOf(query.plan) /\ cur.arrival \in Time
          /\ c.from = cur.node
          /\ Carries(c, cur.arrival, query.size)
          /\ c.to \in DOMAIN best => t < best[c.to]
          /\ t \in Time /\ cur.arrival <= t /\ c.to \in Node
          /\ DOMAIN best' = DOMAIN best \cup {c.to}
          /\ best'[c.to] = t
          /\ \A v \in DOMAIN best \ {c.to} : best'[v] = best[v]
          /\ DOMAIN pred' = DOMAIN pred \cup {c.to}
          /\ pred'[c.to] = c
          /\ \A v \in DOMAIN pred \ {c.to} : pred'[v] = pred[v]
          /\ \A v \in DOMAIN best : best[v] \in Time
          /\ cur.node \in visited /\ best[cur.node] = cur.arrival
          /\ \A u \in visited : best[u] <= cur.arrival
          /\ visited \subseteq DOMAIN best
          /\ c.to \notin visited
          /\ \A u \in visited : best'[u] = best[u]
          /\ \A v \in DOMAIN best : best'[v] <= best[v]
          /\ query.source \in visited /\ query.dest \notin visited
<1>a. pc = "relax"
  BY DEF Relax, NextContact
<1>b. /\ query \in Queries /\ c \in ContactsOf(query.plan) /\ cur.arrival \in Time
      /\ c.from = cur.node
  BY PlanTypes DEF TypeOK, Item, SearchInv, PhaseOK, ByFrom, Relax, NextContact
<1>c. /\ Carries(c, cur.arrival, query.size)
      /\ c.to \in DOMAIN best => t < best[c.to]
  BY DEF Relax, Improves
<1>d. t \in Time /\ cur.arrival <= t /\ c.to \in Node
  BY <1>b, RelaxTypes, ContactTypes
<1>e. /\ DOMAIN best' = DOMAIN best \cup {c.to}
      /\ best'[c.to] = t
      /\ \A v \in DOMAIN best \ {c.to} : best'[v] = best[v]
      /\ DOMAIN pred' = DOMAIN pred \cup {c.to}
      /\ pred'[c.to] = c
      /\ \A v \in DOMAIN pred \ {c.to} : pred'[v] = pred[v]
  BY DEF Relax, Put
<1>f. \A v \in DOMAIN best : best[v] \in Time
  BY DEF TypeOK
<1>g. /\ cur.node \in visited /\ best[cur.node] = cur.arrival
      /\ \A u \in visited : best[u] <= cur.arrival
      /\ visited \subseteq DOMAIN best
  BY <1>a DEF SearchInv, SettledInOrder, TypeOK
<1>h. c.to \notin visited
  BY <1>c, <1>d, <1>f, <1>g, <1>b DEF Time
<1>i. /\ \A u \in visited : best'[u] = best[u]
      /\ \A v \in DOMAIN best : best'[v] <= best[v]
  BY <1>c, <1>d, <1>e, <1>f, <1>g, <1>h DEF Time
<1>j. query.source \in visited /\ query.dest \notin visited
  BY <1>a, <1>g DEF SearchInv, PhaseOK
<1> QED BY <1>b, <1>c, <1>d, <1>e, <1>f, <1>g, <1>h, <1>i, <1>j

LEMMA RelaxSearchInv ==
    ASSUME TypeOK, SearchInv, NEW i \in todo, Relax(i)
    PROVE SearchInv'
<1> DEFINE c == query.plan[i]
           t == ArrivalTime(c, cur.arrival, query.size)
<1>0. c = query.plan[i] /\ t = ArrivalTime(c, cur.arrival, query.size)
  OBVIOUS
<1>a. /\ pc = "relax" /\ pc' = "relax" /\ query' = query /\ cur' = cur
      /\ visited' = visited /\ todo' = todo \ {i} /\ at' = at /\ hops' = hops
      /\ result' = result /\ pq' = pq \cup {[node |-> c.to, arrival |-> t]}
  BY DEF Relax, NextContact
<1> HIDE DEF c, t
<1>b. /\ query \in Queries /\ c \in ContactsOf(query.plan) /\ cur.arrival \in Time
      /\ c.from = cur.node
  BY <1>0, PlanTypes DEF TypeOK, Item, SearchInv, PhaseOK, ByFrom, Relax, NextContact
<1>c. /\ Carries(c, cur.arrival, query.size)
      /\ c.to \in DOMAIN best => t < best[c.to]
  BY <1>0, RelaxFacts, Zenon
<1>d. t \in Time /\ cur.arrival <= t /\ c.to \in Node
  BY <1>0, RelaxFacts, Zenon
<1>e. /\ DOMAIN best' = DOMAIN best \cup {c.to}
      /\ best'[c.to] = t
      /\ \A v \in DOMAIN best \ {c.to} : best'[v] = best[v]
      /\ DOMAIN pred' = DOMAIN pred \cup {c.to}
      /\ pred'[c.to] = c
      /\ \A v \in DOMAIN pred \ {c.to} : pred'[v] = pred[v]
  BY <1>0 DEF Relax, Put
<1>f. \A v \in DOMAIN best : best[v] \in Time
  BY DEF TypeOK
<1>g. /\ cur.node \in visited /\ best[cur.node] = cur.arrival
      /\ \A u \in visited : best[u] <= cur.arrival
      /\ visited \subseteq DOMAIN best
  BY <1>0, RelaxFacts, Zenon
<1>i. /\ \A u \in visited : best'[u] = best[u]
      /\ \A v \in DOMAIN best : best'[v] <= best[v]
  BY <1>0, RelaxFacts, Zenon
<1>j. query.source \in visited /\ query.dest \notin visited
  BY <1>0, RelaxFacts, Zenon
<1>1. QueueCoversFrontier'
  <2>1. \A e \in pq : e.node \in DOMAIN best /\ e.arrival \in Time
    BY DEF TypeOK
  <2>2. ASSUME NEW e \in pq PROVE best'[e.node] <= e.arrival
    BY <2>1, <1>i, <1>f, <1>d, <1>e DEF SearchInv, QueueCoversFrontier, Time
  <2>3. best'[c.to] <= t
    BY <1>e, <1>d DEF Time
  <2> QED BY <2>2, <2>3, <1>a, <1>e DEF SearchInv, QueueCoversFrontier
<1>2. SettledInOrder'
  <2>1. ASSUME NEW u \in visited PROVE best'[u] <= t
    BY <1>i, <1>g, <1>d, <1>b, <1>f DEF Time
  <2>2. ASSUME NEW u \in visited, NEW e \in pq PROVE best'[u] <= e.arrival
    BY <1>i DEF SearchInv, SettledInOrder
  <2>3. \A e \in pq' : cur.arrival <= e.arrival
    BY <1>a, <1>d DEF SearchInv, SettledInOrder
  <2>4. /\ cur.node \in visited /\ best'[cur.node] = cur.arrival
        /\ \A u \in visited : best'[u] <= cur.arrival
    BY <1>g, <1>i
  <2> QED BY <2>1, <2>2, <2>3, <2>4, <1>a DEF SettledInOrder
<1>3. SettledIsRelaxed'
  <2> SUFFICES ASSUME NEW u \in visited \ {query.dest}, NEW j \in ByFrom(query.plan, u),
                      ~Pending(j)', Carries(query.plan[j], best'[u], query.size)
               PROVE /\ query.plan[j].to \in DOMAIN best'
                     /\ best'[query.plan[j].to] <=
                          ArrivalTime(query.plan[j], best'[u], query.size)
    BY <1>a DEF SettledIsRelaxed, ByFrom
  <2>1. CASE j = i
    <3>1. u = cur.node /\ query.plan[j] = c
      BY <2>1, <1>b DEF ByFrom, c
    <3>2. ArrivalTime(query.plan[j], best'[u], query.size) = t
      BY <3>1, <1>i, <1>g DEF t
    <3> QED BY <3>1, <3>2, <1>e, <1>d DEF Time
  <2>2. CASE j # i
    <3>1. ~Pending(j)
      BY <2>2, <1>a DEF Pending
    <3>2. Carries(query.plan[j], best[u], query.size) /\ best'[u] = best[u]
      BY <1>i
    <3>3. /\ query.plan[j].to \in DOMAIN best
          /\ best[query.plan[j].to] <= ArrivalTime(query.plan[j], best[u], query.size)
      BY <3>1, <3>2 DEF SearchInv, SettledIsRelaxed
    <3>4. ArrivalTime(query.plan[j], best[u], query.size) \in Time
      BY <1>b, <1>f, <1>g, PlanTypes, RelaxTypes DEF ByFrom
    <3>5. best'[query.plan[j].to] \in Time
      BY <3>3, <1>e, <1>d, <1>f
    <3>6. best'[query.plan[j].to] <= best[query.plan[j].to]
      BY <3>3, <1>i
    <3> QED BY <3>2, <3>3, <3>4, <3>5, <3>6, <1>e, <1>f DEF Time
  <2> QED BY <2>1, <2>2
<1>4. LabelsFollowPred'
  <2>1. best'[query.source] = query.ready
    BY <1>i, <1>j DEF SearchInv, LabelsFollowPred
  <2>2. ASSUME NEW v \in DOMAIN best' \ {query.source}
        PROVE /\ v \in DOMAIN pred'
              /\ pred'[v].to = v
              /\ pred'[v].from \in visited \ {query.dest}
              /\ Carries(pred'[v], best'[pred'[v].from], query.size)
              /\ best'[v] = ArrivalTime(pred'[v], best'[pred'[v].from], query.size)
    <3>1. CASE v = c.to
      BY <3>1, <1>b, <1>c, <1>e, <1>g, <1>i, <1>j DEF t
    <3>2. CASE v # c.to
      <4>1. /\ v \in DOMAIN best /\ v \in DOMAIN pred
            /\ best'[v] = best[v] /\ pred'[v] = pred[v]
        BY <3>2, <1>e DEF SearchInv, LabelsFollowPred
      <4> QED BY <4>1, <1>e, <1>i DEF SearchInv, LabelsFollowPred
    <3> QED BY <3>1, <3>2
  <2> QED BY <2>1, <2>2, <1>a DEF LabelsFollowPred
<1>5. PhaseOK'
  BY <1>a, <1>e, <1>j DEF SearchInv, PhaseOK
<1>6. RouteFollowsLabels'
  BY <1>a DEF SearchInv, RouteFollowsLabels, ResultOK
<1>7. ResultOK'
  BY <1>a DEF SearchInv, ResultOK
<1> QED BY <1>1, <1>2, <1>3, <1>4, <1>5, <1>6, <1>7 DEF SearchInv

\* The entry popped for a node not yet visited carries the node's label.
LEMMA PopsLabel ==
    ASSUME TypeOK, SearchInv, NEW item \in pq, Foremost(item), item.node \notin visited
    PROVE /\ item.node \in DOMAIN best /\ item.arrival \in Time
          /\ best[item.node] = item.arrival
          /\ \A u \in visited : best[u] <= item.arrival
<1>1. item.node \in DOMAIN best /\ item.arrival \in Time /\ best[item.node] \in Time
  BY DEF TypeOK
<1>2. best[item.node] <= item.arrival
  BY DEF SearchInv, QueueCoversFrontier
<1>3. item.arrival <= best[item.node]
  <2>1. [node |-> item.node, arrival |-> best[item.node]] \in pq
    BY <1>1 DEF SearchInv, QueueCoversFrontier
  <2> QED BY <2>1 DEF Foremost
<1> QED BY <1>1, <1>2, <1>3 DEF SearchInv, SettledInOrder, Time

LEMMA PopNodeSearchInv ==
    ASSUME TypeOK, SearchInv, NEW item \in pq, PopNode(item)
    PROVE SearchInv'
<1>a. /\ pc = "pop" /\ pc' = "relax" /\ pq' = pq \ {item} /\ cur' = item
      /\ visited' = visited \cup {item.node} /\ item.node \notin visited
      /\ item.node # query.dest /\ Foremost(item)
      /\ todo' = ByFrom(query.plan, item.node)
      /\ query' = query /\ best' = best /\ pred' = pred /\ at' = at /\ hops' = hops
      /\ result' = result
  BY DEF PopNode, Pop
<1>b. /\ item.node \in DOMAIN best /\ item.arrival \in Time
      /\ best[item.node] = item.arrival
      /\ \A u \in visited : best[u] <= item.arrival
  BY <1>a, PopsLabel
<1>c. \A e \in pq : item.arrival <= e.arrival
  BY <1>a DEF Foremost
<1>1. QueueCoversFrontier'
  BY <1>a DEF SearchInv, QueueCoversFrontier
<1>2. SettledInOrder'
  BY <1>a, <1>b, <1>c DEF SearchInv, SettledInOrder, Time
<1>3. SettledIsRelaxed'
  <2> SUFFICES ASSUME NEW u \in (visited \cup {item.node}) \ {query.dest},
                      NEW j \in ByFrom(query.plan, u),
                      j \notin ByFrom(query.plan, item.node),
                      Carries(query.plan[j], best[u], query.size)
               PROVE /\ query.plan[j].to \in DOMAIN best
                     /\ best[query.plan[j].to] <=
                          ArrivalTime(query.plan[j], best[u], query.size)
    BY <1>a DEF SettledIsRelaxed, Pending
  <2>1. u \in visited \ {query.dest}
    OBVIOUS
  <2> QED BY <2>1, <1>a DEF SearchInv, SettledIsRelaxed, Pending
<1>4. LabelsFollowPred'
  BY <1>a DEF SearchInv, LabelsFollowPred
<1>5. PhaseOK'
  BY <1>a, <1>b DEF SearchInv, PhaseOK
<1>6. RouteFollowsLabels'
  BY <1>a DEF SearchInv, RouteFollowsLabels
<1>7. ResultOK'
  BY <1>a DEF SearchInv, ResultOK
<1> QED BY <1>1, <1>2, <1>3, <1>4, <1>5, <1>6, <1>7 DEF SearchInv

LEMMA PopDestSearchInv ==
    ASSUME TypeOK, SearchInv, NEW item \in pq, PopDest(item)
    PROVE SearchInv'
<1>a. /\ pc = "pop" /\ pc' = "rebuild" /\ pq' = pq \ {item} /\ cur' = item
      /\ visited' = visited \cup {item.node} /\ item.node \notin visited
      /\ item.node = query.dest /\ Foremost(item)
      /\ query' = query /\ best' = best /\ pred' = pred /\ at' = at /\ hops' = hops
      /\ result' = result
  BY DEF PopDest, Pop
<1>b. /\ item.node \in DOMAIN best /\ item.arrival \in Time
      /\ best[item.node] = item.arrival
      /\ \A u \in visited : best[u] <= item.arrival
  BY <1>a, PopsLabel
<1>c. \A e \in pq : item.arrival <= e.arrival
  BY <1>a DEF Foremost
<1>1. QueueCoversFrontier'
  BY <1>a DEF SearchInv, QueueCoversFrontier
<1>2. SettledInOrder'
  BY <1>a, <1>b, <1>c DEF SearchInv, SettledInOrder, Time
<1>3. SettledIsRelaxed'
  BY <1>a DEF SearchInv, SettledIsRelaxed, Pending
<1>4. LabelsFollowPred'
  BY <1>a DEF SearchInv, LabelsFollowPred
<1>5. PhaseOK'
  BY <1>a, <1>b DEF SearchInv, PhaseOK
<1>6. RouteFollowsLabels'
  BY <1>a DEF SearchInv, RouteFollowsLabels, ResultOK
<1>7. ResultOK'
  BY <1>a DEF SearchInv, ResultOK
<1> QED BY <1>1, <1>2, <1>3, <1>4, <1>5, <1>6, <1>7 DEF SearchInv

LEMMA PopStaleSearchInv ==
    ASSUME TypeOK, SearchInv, NEW item \in pq, PopStale(item)
    PROVE SearchInv'
<1>a. /\ pc = "pop" /\ pc' = "pop" /\ pq' = pq \ {item} /\ item.node \in visited
      /\ visited' = visited /\ todo' = todo /\ query' = query /\ best' = best
      /\ pred' = pred /\ at' = at /\ hops' = hops /\ result' = result
  BY DEF PopStale, Pop
<1>1. QueueCoversFrontier'
  BY <1>a DEF SearchInv, QueueCoversFrontier
<1>2. SettledInOrder'
  BY <1>a DEF SearchInv, SettledInOrder
<1>3. SettledIsRelaxed'
  BY <1>a DEF SearchInv, SettledIsRelaxed, Pending
<1>4. LabelsFollowPred'
  BY <1>a DEF SearchInv, LabelsFollowPred
<1>5. PhaseOK'
  BY <1>a DEF SearchInv, PhaseOK
<1>6. RouteFollowsLabels'
  BY <1>a DEF SearchInv, RouteFollowsLabels
<1>7. ResultOK'
  BY <1>a DEF SearchInv, ResultOK
<1> QED BY <1>1, <1>2, <1>3, <1>4, <1>5, <1>6, <1>7 DEF SearchInv

LEMMA PrependFacts ==
    ASSUME NEW S, NEW e \in S, NEW s \in Seq(S)
    PROVE /\ <<e>> \o s # <<>>
          /\ Len(<<e>> \o s) = Len(s) + 1
          /\ DOMAIN (<<e>> \o s) = 1..(Len(s) + 1)
          /\ (<<e>> \o s)[1] = e
          /\ \A i \in DOMAIN s : (<<e>> \o s)[i + 1] = s[i]
OBVIOUS

\* One step of reconstruct: the contact put in front leads to where the
\* route began before, and can be taken at the label of its near node.
LEMMA RebuildSearchInv ==
    ASSUME TypeOK, SearchInv, Rebuild
    PROVE SearchInv'
<1> DEFINE c == pred[at]
<1>a. /\ pc = "rebuild" /\ pc' = "rebuild" /\ pq' = pq /\ cur' = cur /\ todo' = todo
      /\ visited' = visited /\ query' = query /\ best' = best /\ pred' = pred
      /\ at' = c.from /\ hops' = <<c>> \o hops /\ result' = result
      /\ at # query.source /\ at \in DOMAIN pred
  BY DEF Rebuild, WalkOn
<1>b. at \in DOMAIN best \ {query.source} /\ c \in ContactsOf(query.plan)
  BY <1>a DEF TypeOK
<1>c. /\ c.to = at
      /\ c.from \in visited
      /\ Carries(c, best[c.from], query.size)
      /\ best[at] = ArrivalTime(c, best[c.from], query.size)
  BY <1>b DEF SearchInv, LabelsFollowPred
<1> HIDE DEF c
<1>d. hops \in Seq(ContactsOf(query.plan))
  BY DEF TypeOK
<1>e. /\ hops' # <<>> /\ Len(hops') = Len(hops) + 1
      /\ DOMAIN hops' = 1..(Len(hops) + 1)
      /\ hops'[1] = c
      /\ \A i \in DOMAIN hops : hops'[i + 1] = hops[i]
  BY <1>a, <1>b, <1>d, PrependFacts
<1>f. \A i \in DOMAIN hops' : i = 1 \/ (i - 1 \in DOMAIN hops /\ hops'[i] = hops[i - 1])
  <2> SUFFICES ASSUME NEW i \in DOMAIN hops', i # 1
               PROVE i - 1 \in DOMAIN hops /\ hops'[i] = hops[i - 1]
    OBVIOUS
  <2>1. i \in 2..(Len(hops) + 1) /\ Len(hops) \in Nat
    BY <1>d, <1>e
  <2>2. i - 1 \in 1..Len(hops) /\ (i - 1) + 1 = i
    BY <2>1
  <2>3. i - 1 \in DOMAIN hops
    BY <2>2, <1>d
  <2> QED BY <1>e, <2>2, <2>3
<1>1. QueueCoversFrontier'
  BY <1>a DEF SearchInv, QueueCoversFrontier
<1>2. SettledInOrder'
  BY <1>a DEF SearchInv, SettledInOrder
<1>3. SettledIsRelaxed'
  BY <1>a DEF SearchInv, SettledIsRelaxed, Pending
<1>4. LabelsFollowPred'
  BY <1>a DEF SearchInv, LabelsFollowPred
<1>5. PhaseOK'
  BY <1>a DEF SearchInv, PhaseOK
<1>6. RouteFollowsLabels'
  <2>1. ASSUME NEW i \in DOMAIN hops'
        PROVE /\ hops'[i].from \in visited
              /\ Carries(hops'[i], best[hops'[i].from], query.size)
              /\ hops'[i].to \in DOMAIN best
              /\ best[hops'[i].to] =
                   ArrivalTime(hops'[i], best[hops'[i].from], query.size)
    <3>1. CASE i = 1
      BY <3>1, <1>b, <1>c, <1>e
    <3>2. CASE i # 1
      BY <3>2, <1>f DEF SearchInv, RouteFollowsLabels
    <3> QED BY <3>1, <3>2
  <2>2. ASSUME NEW i \in DOMAIN hops', i + 1 \in DOMAIN hops'
        PROVE hops'[i].to = hops'[i + 1].from
    <3>1. i + 1 # 1 /\ (i + 1) - 1 = i /\ i \in Nat
      BY <1>e, <1>d
    <3>2. i \in DOMAIN hops /\ hops'[i + 1] = hops[i]
      BY <3>1, <2>2, <1>f
    <3>3. CASE i = 1
      <4>1. hops # <<>>
        BY <3>2
      <4>2. hops[1].from = at
        BY <4>1 DEF SearchInv, RouteFollowsLabels
      <4> QED BY <4>2, <3>2, <3>3, <1>c, <1>e
    <3>4. CASE i # 1
      <4>1. i - 1 \in DOMAIN hops /\ hops'[i] = hops[i - 1] /\ (i - 1) + 1 = i
        BY <3>4, <3>1, <1>f
      <4> QED BY <4>1, <3>2 DEF SearchInv, RouteFollowsLabels
    <3> QED BY <3>3, <3>4
  <2>3. hops'[Len(hops')].to = query.dest
    <3>1. CASE hops = <<>>
      <4>1. Len(hops') = 1 /\ at = query.dest
        BY <3>1, <1>e DEF SearchInv, RouteFollowsLabels
      <4> QED BY <4>1, <1>c, <1>e
    <3>2. CASE hops # <<>>
      <4>1. Len(hops) \in DOMAIN hops
        BY <3>2, <1>d
      <4>2. hops'[Len(hops')] = hops[Len(hops)]
        BY <4>1, <1>e
      <4> QED BY <3>2, <4>2 DEF SearchInv, RouteFollowsLabels
    <3> QED BY <3>1, <3>2
  <2> QED BY <2>1, <2>2, <2>3, <1>a, <1>e DEF RouteFollowsLabels
<1>7. ResultOK'
  BY <1>a DEF SearchInv, ResultOK
<1> QED BY <1>1, <1>2, <1>3, <1>4, <1>5, <1>6, <1>7 DEF SearchInv

\* reconstruct stops at the source: the "no predecessor" exit of its loop is
\* never taken.
LEMMA ReturnSearchInv ==
    ASSUME TypeOK, SearchInv, Return
    PROVE SearchInv'
<1>a. /\ pc = "rebuild" /\ pc' = "done" /\ pq' = pq /\ cur' = cur /\ todo' = todo
      /\ visited' = visited /\ query' = query /\ best' = best /\ pred' = pred
      /\ at' = at /\ hops' = hops
      /\ result' = [ok |-> TRUE, hops |-> hops, arrival |-> cur.arrival]
      /\ ~WalkOn
  BY DEF Return
<1>b. at \in DOMAIN best
  <2>1. CASE hops = <<>>
    BY <2>1, <1>a DEF SearchInv, RouteFollowsLabels, SettledInOrder, PhaseOK, TypeOK
  <2>2. CASE hops # <<>>
    <3>1. 1 \in DOMAIN hops /\ hops[1].from = at
      BY <2>2 DEF SearchInv, RouteFollowsLabels, TypeOK
    <3> QED BY <3>1 DEF SearchInv, RouteFollowsLabels, TypeOK
  <2> QED BY <2>1, <2>2
<1>c. at = query.source
  BY <1>a, <1>b DEF WalkOn, SearchInv, LabelsFollowPred
<1>1. QueueCoversFrontier'
  BY <1>a DEF SearchInv, QueueCoversFrontier
<1>2. SettledInOrder'
  BY <1>a DEF SearchInv, SettledInOrder
<1>3. SettledIsRelaxed'
  BY <1>a DEF SearchInv, SettledIsRelaxed, Pending
<1>4. LabelsFollowPred'
  BY <1>a DEF SearchInv, LabelsFollowPred
<1>5. PhaseOK'
  BY <1>a DEF SearchInv, PhaseOK
<1>6. RouteFollowsLabels'
  BY <1>a DEF SearchInv, RouteFollowsLabels
<1>7. ResultOK'
  BY <1>a, <1>c DEF SearchInv, ResultOK, PhaseOK, SettledInOrder
<1> QED BY <1>1, <1>2, <1>3, <1>4, <1>5, <1>6, <1>7 DEF SearchInv

\* The steps that leave the labels alone.
LEMMA OtherSearchInv ==
    ASSUME TypeOK, SearchInv,
           \/ CallHere \/ CallAway \/ Exhausted \/ Expanded
           \/ \E i \in todo : Skip(i)
           \/ UNCHANGED vars
    PROVE SearchInv'
<1>1. CASE CallHere
  BY <1>1, QueryTypes DEF CallHere, TypeOK, SearchInv, QueueCoversFrontier, SettledInOrder,
        SettledIsRelaxed, Pending, LabelsFollowPred, PhaseOK, RouteFollowsLabels, ResultOK
<1>2. CASE CallAway
  BY <1>2 DEF CallAway, SearchInv, QueueCoversFrontier, SettledInOrder,
        SettledIsRelaxed, Pending, LabelsFollowPred, PhaseOK, RouteFollowsLabels, ResultOK
<1>3. CASE Exhausted
  BY <1>3 DEF Exhausted, ZeroRoute, SearchInv, QueueCoversFrontier, SettledInOrder,
        SettledIsRelaxed, Pending, LabelsFollowPred, PhaseOK, RouteFollowsLabels, ResultOK
<1>4. CASE Expanded
  BY <1>4 DEF Expanded, SearchInv, QueueCoversFrontier, SettledInOrder,
        SettledIsRelaxed, Pending, LabelsFollowPred, PhaseOK, RouteFollowsLabels, ResultOK
<1>5. ASSUME NEW i \in todo, Skip(i) PROVE SearchInv'
  <2> DEFINE c == query.plan[i]
  <2>a. /\ pc = "relax" /\ pc' = "relax" /\ pq' = pq /\ cur' = cur
        /\ todo' = todo \ {i} /\ visited' = visited /\ query' = query
        /\ best' = best /\ pred' = pred /\ at' = at /\ hops' = hops /\ result' = result
    BY <1>5 DEF Skip, NextContact
  <2>b. /\ query \in Queries /\ c \in ContactsOf(query.plan) /\ cur.arrival \in Time
        /\ c.from = cur.node /\ best[cur.node] = cur.arrival
    BY <2>a, PlanTypes DEF TypeOK, Item, SearchInv, PhaseOK, ByFrom, SettledInOrder
  <2>c. Carries(c, cur.arrival, query.size) =>
          /\ c.to \in DOMAIN best
          /\ best[c.to] <= ArrivalTime(c, cur.arrival, query.size)
    BY <1>5, <2>b, RelaxTypes DEF Skip, Improves, TypeOK, Time
  <2>1. SettledIsRelaxed'
    <3> SUFFICES ASSUME NEW u \in visited \ {query.dest}, NEW j \in ByFrom(query.plan, u),
                        ~Pending(j)', Carries(query.plan[j], best[u], query.size)
                 PROVE /\ query.plan[j].to \in DOMAIN best
                       /\ best[query.plan[j].to] <=
                            ArrivalTime(query.plan[j], best[u], query.size)
      BY <2>a DEF SettledIsRelaxed, ByFrom
    <3>1. CASE j = i
      BY <3>1, <2>b, <2>c DEF ByFrom
    <3>2. CASE j # i
      BY <3>2, <2>a DEF SearchInv, SettledIsRelaxed, Pending
    <3> QED BY <3>1, <3>2
  <2> HIDE DEF c
  <2> QED BY <2>a, <2>1 DEF SearchInv, QueueCoversFrontier, SettledInOrder,
        LabelsFollowPred, PhaseOK, RouteFollowsLabels, ResultOK
<1>6. CASE UNCHANGED vars
  BY <1>6 DEF vars, SearchInv, QueueCoversFrontier, SettledInOrder,
        SettledIsRelaxed, Pending, LabelsFollowPred, PhaseOK, RouteFollowsLabels, ResultOK
<1> QED BY <1>1, <1>2, <1>3, <1>4, <1>5, <1>6

LEMMA NextSearchInv == TypeOK /\ SearchInv /\ [Next]_vars => SearchInv'
BY RelaxSearchInv, PopNodeSearchInv, PopDestSearchInv, PopStaleSearchInv,
   RebuildSearchInv, ReturnSearchInv, OtherSearchInv
   DEF Next, Search, Returned

-----------------------------------------------------------------------------
\* The maps of FindRoute keep their types and their domains nested.
THEOREM TypeCorrect == Spec => []TypeOK
BY InitTypeOK, NextTypeOK, PTL DEF Spec

\* The labels, the heap and the visited set stay consistent in every search.
THEOREM SearchCorrect == Spec => []SearchInv
BY InitSearchInv, NextSearchInv, TypeCorrect, InitTypeOK, NextTypeOK, PTL DEF Spec

\* No step changes the label or the predecessor of a settled node, although
\* the code never asks whether the node it relaxes was visited.
THEOREM SettledForEver == Spec => SettledIsFinal
<1>1. TypeOK /\ SearchInv /\ [Next]_vars =>
        [\A v \in visited : /\ best'[v] = best[v]
                            /\ v \in DOMAIN pred => pred'[v] = pred[v]]_vars
  <2> SUFFICES ASSUME TypeOK, SearchInv, Next, NEW v \in visited
               PROVE best'[v] = best[v] /\ (v \in DOMAIN pred => pred'[v] = pred[v])
    OBVIOUS
  <2>1. ASSUME NEW i \in todo, Relax(i)
        PROVE best'[v] = best[v] /\ (v \in DOMAIN pred => pred'[v] = pred[v])
    <3> DEFINE c == query.plan[i]
               t == ArrivalTime(c, cur.arrival, query.size)
    <3>1. /\ query \in Queries /\ c \in ContactsOf(query.plan) /\ cur.arrival \in Time
          /\ pc = "relax"
      BY <2>1, PlanTypes DEF TypeOK, Item, Relax, NextContact
    <3>2. cur.arrival <= t /\ t \in Time
      BY <3>1, RelaxTypes
    <3>3. v \in DOMAIN best /\ best[v] \in Time /\ best[v] <= cur.arrival
      BY <3>1 DEF SearchInv, SettledInOrder, TypeOK
    <3>4. c.to \in DOMAIN best => t < best[c.to]
      BY <2>1 DEF Relax, Improves
    <3> HIDE DEF t
    <3>5. v # c.to
      BY <3>1, <3>2, <3>3, <3>4 DEF Time
    <3> QED BY <2>1, <3>3, <3>5 DEF Relax, Put
  <2> QED BY <2>1 DEF Next, Search, CallHere, CallAway, PopStale, PopNode, PopDest, Exhausted,
                      Skip, Expanded, Rebuild, Return, Returned, vars
<1> QED BY <1>1, TypeCorrect, SearchCorrect, PTL DEF Spec, SettledIsFinal

-----------------------------------------------------------------------------
LEMMA RaceInitInv == RaceInit => RaceInv
BY InitTypeOK, InitSearchInv, QueryTypes DEF RaceInit, RaceInv, CarrierOK, Init

\* When the search ends, the source is settled or the answer is "here".
LEMMA SearchKeepsCarrier ==
    ASSUME RaceInv, RaceSearch PROVE RaceInv'
<1>a. TypeOK' /\ SearchInv'
  BY NextTypeOK, NextSearchInv DEF RaceInv, RaceSearch, Next
<1>b. holder' = holder /\ clock' = clock /\ pc # "done"
  BY DEF RaceSearch, Search, CallHere, CallAway, PopStale, PopNode, PopDest, Pop, Exhausted,
         Relax, Skip, NextContact, Expanded, Rebuild, Return
<1>c. query' = query /\ query \in Queries
  BY DEF RaceInv, TypeOK, RaceSearch, Search, CallHere, CallAway, PopStale, PopNode, PopDest,
         Exhausted, Relax, Skip, Expanded, Rebuild, Return
<1>d. holder = query.source /\ clock = query.ready
  BY <1>b DEF RaceInv, CarrierOK
<1>e. query.source \in Node /\ query.ready \in Time
  BY <1>c, QueryTypes
<1>1. ASSUME pc' = "done"
      PROVE \/ /\ holder \in visited' \ {query.dest}
               /\ best'[holder] <= clock
            \/ result'.ok /\ result'.arrival <= clock
  <2>0. best'[query.source] = query.ready
    BY <1>a, <1>c DEF SearchInv, LabelsFollowPred
  <2>1. CASE CallHere
    BY <2>1, <1>d, <1>e DEF CallHere, Time
  <2>2. CASE Exhausted
    <3>1. pq = {} /\ visited' = visited /\ query.source \in DOMAIN best
          /\ query.dest \notin visited /\ query.source # query.dest
      BY <2>2 DEF Exhausted, RaceInv, SearchInv, PhaseOK
    <3>2. query.source \in visited
      BY <3>1 DEF RaceInv, SearchInv, QueueCoversFrontier
    <3> QED BY <3>1, <3>2, <2>0, <1>d, <1>e DEF Time
  <2>3. CASE Return
    <3>1. /\ query.source \in visited /\ query.source # query.dest
          /\ visited' = visited
      BY <2>3 DEF Return, RaceInv, SearchInv, PhaseOK, SettledInOrder
    <3> QED BY <3>1, <2>0, <1>d, <1>e DEF Time
  <2> QED BY <1>1, <1>b, <2>1, <2>2, <2>3 DEF RaceSearch, Search, CallAway, PopStale, PopNode,
          PopDest, Pop, Relax, Skip, NextContact, Expanded, Rebuild
<1>2. CarrierOK'
  BY <1>1, <1>b, <1>c, <1>d, <1>e DEF CarrierOK
<1> QED BY <1>a, <1>2 DEF RaceInv

\* A carrier that is no earlier than the labels stays so: the contact it takes
\* would have served the search at least as well (FirstInFirstOut), and a node
\* the search did not settle is no earlier than the destination.
LEMMA TakeKeepsCarrier ==
    ASSUME RaceInv, NEW i \in DOMAIN query.plan, Take(i) PROVE RaceInv'
<1> DEFINE c == query.plan[i]
           t == ArrivalTime(c, clock, query.size)
<1>a. UNCHANGED vars /\ TypeOK /\ SearchInv
  BY DEF Take, RaceInv
<1>b. TypeOK' /\ SearchInv'
  BY <1>a, NextTypeOK, NextSearchInv
<1>c. /\ pc = "done" /\ pc' = "done" /\ query' = query /\ best' = best
      /\ visited' = visited /\ result' = result
      /\ c.from = holder /\ holder' = c.to /\ clock' = t
      /\ Carries(c, clock, query.size)
  BY DEF Take, vars
<1>d. /\ query \in Queries /\ c \in ContactsOf(query.plan) /\ c \in Contact
      /\ clock \in Time /\ query.size \in Nat
  BY PlanTypes, ContactTypes, QueryTypes DEF RaceInv, TypeOK, CarrierOK
<1>e. t \in Time /\ clock <= t /\ c.to \in Node
  BY <1>d, RelaxTypes, ContactTypes
<1>f. i \in ByFrom(query.plan, holder)
  BY <1>c DEF ByFrom
<1> HIDE DEF t, c
<1>1. CASE result.ok /\ result.arrival <= clock
  <2>1. result.arrival \in Time
    BY <1>a DEF TypeOK
  <2>2. result'.ok /\ result'.arrival <= clock'
    BY <1>1, <1>c, <1>d, <1>e, <2>1 DEF Time
  <2> QED BY <2>2, <1>b, <1>c, <1>e DEF RaceInv, CarrierOK
<1>2. CASE holder \in visited \ {query.dest} /\ best[holder] <= clock
  <2>1. best[holder] \in Time
    BY <1>2, <1>a DEF TypeOK
  <2>2. /\ Carries(c, best[holder], query.size)
        /\ ArrivalTime(c, best[holder], query.size) <= t
    BY <1>2, <1>c, <1>d, <2>1, FirstInFirstOut DEF t
  <2>3. /\ c.to \in DOMAIN best
        /\ best[c.to] <= ArrivalTime(c, best[holder], query.size)
    <3>1. ~Pending(i)
      BY <1>c DEF Pending
    <3> QED BY <3>1, <1>2, <1>a, <1>f, <2>2 DEF SearchInv, SettledIsRelaxed, c
  <2>4. best[c.to] \in Time /\ ArrivalTime(c, best[holder], query.size) \in Time
    BY <2>1, <2>3, <1>a, <1>d, RelaxTypes DEF TypeOK
  <2>5. best[c.to] <= t
    BY <2>2, <2>3, <2>4, <1>e DEF Time
  <2>6. CASE c.to \in visited \ {query.dest}
    BY <2>5, <2>6, <1>b, <1>c, <1>e DEF RaceInv, CarrierOK
  <2>7. CASE c.to \notin visited \ {query.dest}
    <3>1. result.ok
      <4>1. SUFFICES ASSUME ~result.ok PROVE FALSE
        OBVIOUS
      <4>2. pq = {} /\ query.dest \notin visited
        BY <4>1, <1>a, <1>c DEF SearchInv, ResultOK, PhaseOK
      <4>3. c.to \in DOMAIN best \ visited
        BY <4>2, <2>3, <2>7
      <4> QED BY <4>2, <4>3, <1>a DEF SearchInv, QueueCoversFrontier
    <3>2. CASE query.source = query.dest
      <4>1. visited # {} => query.dest \in visited
        BY <3>2, <1>a DEF SearchInv, PhaseOK
      <4>2. query.dest \notin visited
        BY <3>2, <1>a, <1>c DEF SearchInv, PhaseOK
      <4> QED BY <4>1, <4>2, <1>2
    <3>3. CASE query.source # query.dest
      <4>1. /\ result.arrival = best[query.dest] /\ query.dest \in visited
            /\ \A e \in pq : result.arrival <= e.arrival
        BY <3>1, <3>3, <1>a, <1>c DEF SearchInv, ResultOK, PhaseOK
      <4>2. result.arrival <= best[c.to]
        <5>1. CASE c.to = query.dest
          BY <5>1, <4>1, <2>4 DEF Time
        <5>2. CASE c.to # query.dest
          <6>1. [node |-> c.to, arrival |-> best[c.to]] \in pq
            BY <5>2, <2>3, <2>7, <1>a DEF SearchInv, QueueCoversFrontier
          <6> QED BY <6>1, <4>1
        <5> QED BY <5>1, <5>2
      <4>3. result.arrival \in Time
        BY <1>a DEF TypeOK
      <4>4. result.arrival <= t
        BY <4>2, <4>3, <2>4, <2>5, <1>e DEF Time
      <4> QED BY <3>1, <4>4, <1>b, <1>c, <1>e DEF RaceInv, CarrierOK
    <3> QED BY <3>2, <3>3
  <2> QED BY <2>6, <2>7
<1> QED BY <1>1, <1>2, <1>c DEF RaceInv, CarrierOK

LEMMA RaceNextInv == RaceInv /\ [RaceNext]_raceVars => RaceInv'
<1> SUFFICES ASSUME RaceInv, [RaceNext]_raceVars PROVE RaceInv'
  OBVIOUS
<1>1. CASE UNCHANGED raceVars
  <2>1. UNCHANGED vars /\ holder' = holder /\ clock' = clock
    BY <1>1 DEF raceVars, vars
  <2>2. TypeOK' /\ SearchInv'
    BY <2>1, NextTypeOK, NextSearchInv DEF RaceInv
  <2> QED BY <2>1, <2>2 DEF RaceInv, CarrierOK, vars
<1>2. CASE RaceNext
  <2>1. CASE RaceReturned
    BY <2>1, <1>1 DEF RaceReturned, Returned, vars, raceVars
  <2> QED BY <1>2, <2>1, SearchKeepsCarrier, TakeKeepsCarrier DEF RaceNext
<1> QED BY <1>1, <1>2

\* The earliest-arrival promise of FindRoute, for every plan with any number
\* of nodes and contacts, any bundle size and any ready time.
THEOREM RouteIsOptimal == RaceSpec => []NeverBeaten
<1>1. RaceInv => NeverBeaten
  BY DEF RaceInv, CarrierOK, NeverBeaten
<1> QED BY RaceInitInv, RaceNextInv, <1>1, PTL DEF RaceSpec

-----------------------------------------------------------------------------
(***************************************************************************)
(* The answer is the one that the reference definition asks for.  AnswerInv *)
(* is kept step by step, on top of SearchInv.                              *)
(***************************************************************************)
LEMMA InitAnswerInv == Init => AnswerInv
<1> SUFFICES ASSUME Init PROVE AnswerInv
  OBVIOUS
<1>1. query \in Queries
  BY DEF Init
<1>2. PredIsFirst /\ InPlanOrder /\ WalksUpstream
  BY DEF Init, PredIsFirst, InPlanOrder, WalksUpstream
<1>3. LabelsAreSound
  <2> SUFFICES ASSUME NEW table, table = Table(query.plan, query.source, query.size, query.ready)
               PROVE Reaches(table, query.source) /\ Label(table, query.source) <= query.ready
    BY DEF Init, LabelsAreSound
  <2> DEFINE p == [node |-> query.source, arrival |-> query.ready]
  <2>1. Labelled(table, query.ready) /\ p \in table
    BY <1>1, QueryTypes, TableIsClosed
  <2>2. Reaches(table, p.node) /\ Label(table, p.node) = p.arrival
    <3> HIDE DEF p
    <3> QED BY <2>1, LabelOfEntry
  <2>3. query.ready \in Int
    BY <1>1, QueryTypes DEF Time
  <2> QED BY <2>2, <2>3
<1> QED BY <1>2, <1>3 DEF AnswerInv

\* A step that keeps the labels, and what has been used of the contacts.
LEMMA SamePredIsFirst ==
    ASSUME PredIsFirst, query' = query, best' = best, pred' = pred,
           visited' \ {query.dest} = visited \ {query.dest},
           \A i \in DOMAIN query.plan : Pending(i)' <=> Pending(i)
    PROVE PredIsFirst'
<1>1. ASSUME NEW j \in DOMAIN query.plan, NEW v
      PROVE ArrivesFirst(j, v)' <=> ArrivesFirst(j, v)
  BY DEF ArrivesFirst
<1> SUFFICES ASSUME NEW v \in DOMAIN best \ {query.source}
             PROVE \E i \in DOMAIN query.plan :
                     /\ query.plan[i] = pred[v] /\ ~Pending(i)'
                     /\ \A j \in DOMAIN query.plan : ArrivesFirst(j, v)' =>
                          /\ best[query.plan[i].from] <= best[query.plan[j].from]
                          /\ query.plan[j].from = query.source =>
                               query.plan[i].from = query.source
                          /\ query.plan[j].from = query.plan[i].from => i <= j
  BY DEF PredIsFirst
<1>2. PICK i \in DOMAIN query.plan :
         /\ query.plan[i] = pred[v] /\ ~Pending(i)
         /\ \A j \in DOMAIN query.plan : ArrivesFirst(j, v) =>
              /\ best[query.plan[i].from] <= best[query.plan[j].from]
              /\ query.plan[j].from = query.source => query.plan[i].from = query.source
              /\ query.plan[j].from = query.plan[i].from => i <= j
  BY DEF PredIsFirst
<1> QED BY <1>1, <1>2

\* The contact that gives a node its label was used before any that ties with
\* it: an earlier one would have kept it from improving the label.
LEMMA RelaxPredIsFirst ==
    ASSUME TypeOK, SearchInv, PredIsFirst, NEW i \in todo, Relax(i)
    PROVE PredIsFirst'
<1> DEFINE c == query.plan[i]
           t == ArrivalTime(c, cur.arrival, query.size)
<1>0. c = query.plan[i] /\ t = ArrivalTime(c, cur.arrival, query.size)
  OBVIOUS
<1>a. /\ pc = "relax" /\ pc' = "relax" /\ query' = query
      /\ visited' = visited /\ todo' = todo \ {i} /\ i \in DOMAIN query.plan
  BY DEF Relax, NextContact, TypeOK
<1> HIDE DEF c, t
<1>b. /\ cur.node \in visited
      /\ t \in Time /\ (c.to \in DOMAIN best => t < best[c.to])
      /\ c.to \notin visited
      /\ \A v \in DOMAIN best : best[v] \in Time
      /\ visited \subseteq DOMAIN best
  BY <1>0, RelaxFacts, Zenon
<1>c. /\ DOMAIN best' = DOMAIN best \cup {c.to} /\ best'[c.to] = t
      /\ \A v \in DOMAIN best \ {c.to} : best'[v] = best[v]
      /\ \A u \in visited : best'[u] = best[u]
  <2>1. \A u \in visited : best'[u] = best[u]
    BY <1>0, RelaxFacts, Zenon
  <2> QED BY <1>0, <2>1 DEF Relax, Put
<1>d. pred'[c.to] = c /\ \A v \in DOMAIN pred \ {c.to} : pred'[v] = pred[v]
  BY <1>0 DEF Relax, Put
<1>e. query.plan[i] = c /\ ~Pending(i)'
  BY <1>0, <1>a DEF Pending
<1>f. \A j \in DOMAIN query.plan : j # i => (Pending(j)' <=> Pending(j))
  BY <1>a DEF Pending
<1> SUFFICES ASSUME NEW v \in DOMAIN best' \ {query.source}
             PROVE \E k \in DOMAIN query.plan :
                     /\ query.plan[k] = pred'[v] /\ ~Pending(k)'
                     /\ \A j \in DOMAIN query.plan : ArrivesFirst(j, v)' =>
                          /\ best'[query.plan[k].from] <= best'[query.plan[j].from]
                          /\ query.plan[j].from = query.source =>
                               query.plan[k].from = query.source
                          /\ query.plan[j].from = query.plan[k].from => k <= j
  BY <1>a DEF PredIsFirst
<1>1. CASE v = c.to
  <2>1. ASSUME NEW j \in DOMAIN query.plan, ArrivesFirst(j, v)' PROVE j = i
    <3> SUFFICES ASSUME j # i PROVE FALSE
      OBVIOUS
    <3> DEFINE u == query.plan[j].from
    <3>1. /\ query.plan[j].to = c.to /\ u \in visited \ {query.dest} /\ ~Pending(j)
          /\ Carries(query.plan[j], best[u], query.size)
          /\ ArrivalTime(query.plan[j], best[u], query.size) = t
      BY <2>1, <1>1, <1>a, <1>c, <1>f DEF ArrivesFirst
    <3>2. c.to \in DOMAIN best /\ best[c.to] <= t
      BY <3>1 DEF SearchInv, SettledIsRelaxed, ByFrom
    <3> QED BY <3>2, <1>b DEF Time
  <2>2. best'[query.plan[i].from] <= best'[query.plan[i].from] /\ i <= i
    <3>1. query.plan[i].from = cur.node /\ i \in Int
      BY <1>a, QueryTypes DEF SearchInv, PhaseOK, ByFrom, TypeOK, ContactPlan
    <3>2. best'[cur.node] \in Int
      BY <1>b, <1>c DEF Time
    <3> QED BY <3>1, <3>2
  <2> QED BY <1>1, <1>a, <1>d, <1>e, <2>1, <2>2
<1>2. CASE v # c.to
  <2>1. v \in DOMAIN best \ {query.source} /\ best'[v] = best[v]
    BY <1>2, <1>c
  <2>2. PICK k \in DOMAIN query.plan :
           /\ query.plan[k] = pred[v] /\ ~Pending(k)
           /\ \A j \in DOMAIN query.plan : ArrivesFirst(j, v) =>
                /\ best[query.plan[k].from] <= best[query.plan[j].from]
                /\ query.plan[j].from = query.source => query.plan[k].from = query.source
                /\ query.plan[j].from = query.plan[k].from => k <= j
    BY <2>1 DEF PredIsFirst
  <2>3. v \in DOMAIN pred /\ pred[v].from \in visited
    BY <2>1 DEF SearchInv, LabelsFollowPred
  <2>4. pred'[v] = pred[v] /\ ~Pending(k)'
    BY <1>2, <1>d, <1>e, <1>f, <2>2, <2>3
  <2>5. ASSUME NEW j \in DOMAIN query.plan, ArrivesFirst(j, v)'
        PROVE ArrivesFirst(j, v) /\ query.plan[j].from \in visited
    <3>1. query.plan[j].to = v /\ query.plan[j].from \in visited \ {query.dest} /\ j # i
      BY <2>5, <1>2, <1>a, <1>e DEF ArrivesFirst
    <3> QED BY <2>5, <3>1, <1>a, <1>c, <1>f, <2>1 DEF ArrivesFirst
  <2> QED BY <2>2, <2>3, <2>4, <2>5, <1>c
<1> QED BY <1>1, <1>2

\* No label becomes better than the reference: the one of the node just
\* settled is not, and a contact taken no earlier arrives no earlier.
LEMMA RelaxLabelsAreSound ==
    ASSUME TypeOK, SearchInv, LabelsAreSound, NEW i \in todo, Relax(i)
    PROVE LabelsAreSound'
<1> DEFINE c == query.plan[i]
           t == ArrivalTime(c, cur.arrival, query.size)
<1>0. c = query.plan[i] /\ t = ArrivalTime(c, cur.arrival, query.size)
  OBVIOUS
<1> HIDE DEF c, t
<1>a. /\ c.from = cur.node /\ cur.node \in DOMAIN best /\ best[cur.node] = cur.arrival
      /\ cur.arrival \in Time /\ Carries(c, cur.arrival, query.size)
      /\ query \in Queries /\ c \in ContactsOf(query.plan)
  <2>1. /\ c.from = cur.node /\ query \in Queries /\ c \in ContactsOf(query.plan)
    BY <1>0, PlanTypes DEF TypeOK, SearchInv, PhaseOK, ByFrom, Relax, NextContact
  <2>2. /\ cur.node \in visited /\ visited \subseteq DOMAIN best
        /\ best[cur.node] = cur.arrival
        /\ cur.arrival \in Time /\ Carries(c, cur.arrival, query.size)
    BY <1>0, RelaxFacts, Zenon
  <2> QED BY <2>1, <2>2
<1>b. /\ DOMAIN best' = DOMAIN best \cup {c.to} /\ best'[c.to] = t
      /\ \A v \in DOMAIN best \ {c.to} : best'[v] = best[v]
  BY <1>0 DEF Relax, Put
<1>c. query' = query /\ t = ArrivalTime(c, cur.arrival, query.size)
  BY <1>0 DEF Relax
<1> SUFFICES ASSUME NEW table,
                    table = Table(query.plan, query.source, query.size, query.ready)
             PROVE \A v \in DOMAIN best' : Reaches(table, v) /\ Label(table, v) <= best'[v]
  BY <1>c DEF LabelsAreSound
<1>1. \A v \in DOMAIN best : Reaches(table, v) /\ Label(table, v) <= best[v]
  BY DEF LabelsAreSound
<1>2. Reaches(table, c.to) /\ Label(table, c.to) <= t
  BY <1>1, <1>a, <1>c, QueryTypes, LabelsBound
<1> QED BY <1>1, <1>2, <1>b

LEMMA RelaxAnswerInv ==
    ASSUME TypeOK, SearchInv, AnswerInv, NEW i \in todo, Relax(i)
    PROVE AnswerInv'
<1>a. /\ pc = "relax" /\ pc' = "relax" /\ query' = query /\ cur' = cur /\ visited' = visited
      /\ todo' = todo \ {i} /\ \A j \in todo : i <= j
  BY DEF Relax, NextContact
<1>b. todo \subseteq DOMAIN query.plan /\ query \in Queries
  BY DEF TypeOK
<1>c. DOMAIN query.plan \subseteq Int
  BY <1>b, QueryTypes DEF ContactPlan
<1>1. InPlanOrder'
  BY <1>a, <1>b, <1>c DEF AnswerInv, InPlanOrder, ByFrom
<1>2. WalksUpstream'
  BY <1>a DEF WalksUpstream
<1> QED BY <1>1, <1>2, RelaxPredIsFirst, RelaxLabelsAreSound DEF AnswerInv

\* A contact that is passed over comes after the one that gave the label, in
\* the plan or because its node was settled later.
LEMMA SkipAnswerInv ==
    ASSUME TypeOK, SearchInv, AnswerInv, NEW i \in todo, Skip(i)
    PROVE AnswerInv'
<1>a. /\ pc = "relax" /\ pc' = "relax" /\ query' = query /\ cur' = cur /\ best' = best
      /\ pred' = pred /\ visited' = visited /\ todo' = todo \ {i}
      /\ \A j \in todo : i <= j
  BY DEF Skip, NextContact
<1>b. todo \subseteq DOMAIN query.plan /\ query \in Queries
  BY DEF TypeOK
<1>c. DOMAIN query.plan \subseteq Int
  BY <1>b, QueryTypes DEF ContactPlan
<1>d. /\ query.plan[i].from = cur.node /\ best[cur.node] = cur.arrival
      /\ \A u \in visited : best[u] <= cur.arrival
  BY <1>a DEF SearchInv, PhaseOK, ByFrom, SettledInOrder
<1>1. InPlanOrder'
  BY <1>a, <1>b, <1>c DEF AnswerInv, InPlanOrder, ByFrom
<1>2. PredIsFirst'
  <2> SUFFICES ASSUME NEW v \in DOMAIN best \ {query.source}
               PROVE \E k \in DOMAIN query.plan :
                       /\ query.plan[k] = pred[v] /\ ~Pending(k)'
                       /\ \A j \in DOMAIN query.plan : ArrivesFirst(j, v)' =>
                            /\ best[query.plan[k].from] <= best[query.plan[j].from]
                            /\ query.plan[j].from = query.source =>
                                 query.plan[k].from = query.source
                            /\ query.plan[j].from = query.plan[k].from => k <= j
    BY <1>a DEF PredIsFirst
  <2>1. PICK k \in DOMAIN query.plan :
           /\ query.plan[k] = pred[v] /\ ~Pending(k)
           /\ \A j \in DOMAIN query.plan : ArrivesFirst(j, v) =>
                /\ best[query.plan[k].from] <= best[query.plan[j].from]
                /\ query.plan[j].from = query.source => query.plan[k].from = query.source
                /\ query.plan[j].from = query.plan[k].from => k <= j
    BY DEF AnswerInv, PredIsFirst
  <2>2. query.plan[k].from \in visited /\ k \notin todo /\ ~Pending(k)'
    BY <2>1, <1>a DEF SearchInv, LabelsFollowPred, Pending
  <2>3. ASSUME NEW j \in DOMAIN query.plan, ArrivesFirst(j, v)', j # i
        PROVE ArrivesFirst(j, v)
    BY <2>3, <1>a DEF ArrivesFirst, Pending
  <2>4. /\ best[query.plan[k].from] <= best[query.plan[i].from]
        /\ query.plan[i].from = query.source => query.plan[k].from = query.source
    BY <2>2, <1>a, <1>d DEF AnswerInv, InPlanOrder
  <2>5. query.plan[i].from = query.plan[k].from => k <= i
    BY <2>2, <1>a, <1>b, <1>c, <1>d DEF AnswerInv, InPlanOrder, ByFrom
  <2> QED BY <2>1, <2>2, <2>3, <2>4, <2>5
<1>3. LabelsAreSound' /\ WalksUpstream'
  BY <1>a DEF AnswerInv, LabelsAreSound, WalksUpstream
<1> QED BY <1>1, <1>2, <1>3 DEF AnswerInv

\* None of the contacts of the node just popped has been used.
LEMMA PopNodeAnswerInv ==
    ASSUME TypeOK, SearchInv, AnswerInv, NEW item \in pq, PopNode(item)
    PROVE AnswerInv'
<1>a. /\ pc = "pop" /\ pc' = "relax" /\ cur' = item
      /\ visited' = visited \cup {item.node} /\ item.node \notin visited
      /\ todo' = ByFrom(query.plan, item.node)
      /\ query' = query /\ best' = best /\ pred' = pred
  BY DEF PopNode, Pop
<1>1. InPlanOrder'
  BY <1>a DEF InPlanOrder, SearchInv, PhaseOK
<1>2. PredIsFirst'
  <2> SUFFICES ASSUME NEW v \in DOMAIN best \ {query.source}
               PROVE \E k \in DOMAIN query.plan :
                       /\ query.plan[k] = pred[v] /\ ~Pending(k)'
                       /\ \A j \in DOMAIN query.plan : ArrivesFirst(j, v)' =>
                            /\ best[query.plan[k].from] <= best[query.plan[j].from]
                            /\ query.plan[j].from = query.source =>
                                 query.plan[k].from = query.source
                            /\ query.plan[j].from = query.plan[k].from => k <= j
    BY <1>a DEF PredIsFirst
  <2>1. PICK k \in DOMAIN query.plan :
           /\ query.plan[k] = pred[v]
           /\ \A j \in DOMAIN query.plan : ArrivesFirst(j, v) =>
                /\ best[query.plan[k].from] <= best[query.plan[j].from]
                /\ query.plan[j].from = query.source => query.plan[k].from = query.source
                /\ query.plan[j].from = query.plan[k].from => k <= j
    BY DEF AnswerInv, PredIsFirst
  <2>2. ~Pending(k)'
    BY <2>1, <1>a DEF SearchInv, LabelsFollowPred, Pending, ByFrom
  <2>3. ASSUME NEW j \in DOMAIN query.plan, ArrivesFirst(j, v)'
        PROVE ArrivesFirst(j, v)
    BY <2>3, <1>a DEF ArrivesFirst, Pending, ByFrom
  <2> QED BY <2>1, <2>2, <2>3
<1>3. LabelsAreSound' /\ WalksUpstream'
  BY <1>a DEF AnswerInv, LabelsAreSound, WalksUpstream
<1> QED BY <1>1, <1>2, <1>3 DEF AnswerInv

\* reconstruct begins at the destination.
LEMMA PopDestAnswerInv ==
    ASSUME TypeOK, SearchInv, AnswerInv, NEW item \in pq, PopDest(item)
    PROVE AnswerInv'
<1>a. /\ pc = "pop" /\ pc' = "rebuild"
      /\ visited' \ {query.dest} = visited \ {query.dest}
      /\ query' = query /\ best' = best /\ pred' = pred /\ at' = at /\ hops' = hops
  BY DEF PopDest, Pop
<1>b. hops = <<>> /\ at = query.dest
  BY <1>a DEF SearchInv, ResultOK, RouteFollowsLabels
<1>1. PredIsFirst'
  BY <1>a, SamePredIsFirst DEF AnswerInv, Pending
<1>2. InPlanOrder' /\ LabelsAreSound'
  BY <1>a DEF AnswerInv, InPlanOrder, LabelsAreSound
<1>3. WalksUpstream'
  <2> SUFFICES ASSUME NEW tree, tree = TreeContacts(query.plan, query.source, query.size,
                        Table(query.plan, query.source, query.size, query.ready)),
                      NEW near \in Upstream(query.plan, tree, query.dest)
               PROVE query.dest \in near
    BY <1>a, <1>b DEF WalksUpstream
  <2>1. query \in Queries /\ tree \in SUBSET DOMAIN query.plan
    BY DEF TypeOK, TreeContacts
  <2> QED BY <2>1, QueryTypes, UpstreamIsLeast
<1> QED BY <1>1, <1>2, <1>3 DEF AnswerInv

LEMMA OtherAnswerInv ==
    ASSUME TypeOK, SearchInv, AnswerInv,
           \/ CallHere \/ CallAway \/ Exhausted \/ Expanded \/ Return
           \/ \E item \in pq : PopStale(item)
           \/ UNCHANGED vars
    PROVE AnswerInv'
<1>1. CASE UNCHANGED vars
  <2>1. PredIsFirst'
    BY <1>1, SamePredIsFirst DEF vars, AnswerInv, Pending
  <2> QED BY <1>1, <2>1 DEF vars, AnswerInv, InPlanOrder, LabelsAreSound, WalksUpstream
<1>2. CASE \/ CallHere \/ CallAway \/ Exhausted \/ Expanded \/ Return
           \/ \E item \in pq : PopStale(item)
  <2>1. /\ query' = query /\ best' = best /\ pred' = pred /\ visited' = visited
        /\ pc' \notin {"relax", "rebuild"} /\ (pc = "relax" => todo = {})
    BY <1>2 DEF CallHere, CallAway, Exhausted, Expanded, Return, PopStale, Pop
  <2>2. PredIsFirst'
    BY <2>1, SamePredIsFirst DEF AnswerInv, Pending
  <2> QED BY <2>1, <2>2 DEF AnswerInv, InPlanOrder, LabelsAreSound, WalksUpstream
<1> QED BY <1>1, <1>2

\* When the destination is settled the labels of the settled nodes are exact,
\* and a node not settled is reached no earlier than the destination.
LEMMA LabelsAreExact ==
    ASSUME TypeOK, SearchInv, LabelsAreSound, pc = "rebuild",
           NEW table, table = Table(query.plan, query.source, query.size, query.ready)
    PROVE /\ \A v \in visited : Reaches(table, v) /\ Label(table, v) = best[v]
          /\ \A v : Reaches(table, v) /\ v \notin visited \ {query.dest} =>
                best[query.dest] <= Label(table, v)
<1> DEFINE late == best[query.dest]
           B == {e \in TableEntry : \/ e.node \in visited /\ e.arrival = best[e.node]
                                    \/ late <= e.arrival}
<1>a. query \in Queries /\ late \in Time /\ late = cur.arrival
      /\ query.dest \in visited /\ query.source \in visited
      /\ \A v \in visited : v \in DOMAIN best /\ best[v] \in Time /\ best[v] <= late /\ v \in Node
  BY DEF TypeOK, SearchInv, PhaseOK, SettledInOrder
<1>b. best[query.source] = query.ready
  BY DEF SearchInv, LabelsFollowPred
<1>c. Labelled(table, query.ready)
  BY <1>a, QueryTypes, TableIsClosed
<1> HIDE DEF late
<1>1. Closed(query.plan, query.size, B)
  <2> SUFFICES ASSUME NEW p \in B, NEW c \in Departing(query.plan, query.size, p)
               PROVE \E q \in B : /\ q.node = c.to
                                  /\ q.arrival <= ArrivalTime(c, p.arrival, query.size)
    BY DEF Closed
  <2> DEFINE a == ArrivalTime(c, p.arrival, query.size)
  <2>1. p.arrival \in Time /\ p.node \in Node
    BY DEF TableEntry
  <2>2. c \in ContactsOf(query.plan) /\ c.from = p.node /\ Carries(c, p.arrival, query.size)
    BY DEF Departing
  <2>3. a \in Time /\ p.arrival <= a /\ c.to \in Node
    BY <1>a, <2>1, <2>2, RelaxTypes, ContactTypes
  <2> HIDE DEF a
  <2>4. CASE late <= p.arrival
    <3>1. [node |-> c.to, arrival |-> a] \in B
      BY <1>a, <2>1, <2>3, <2>4 DEF TableEntry, Time
    <3>2. a <= a
      BY <2>3 DEF Time
    <3> QED BY <3>1, <3>2 DEF a
  <2>5. CASE ~(late <= p.arrival)
    <3>1. p.node \in visited \ {query.dest} /\ p.arrival = best[p.node]
      BY <1>a, <2>1, <2>5 DEF late, Time
    <3>2. PICK j \in DOMAIN query.plan : c = query.plan[j]
      BY <2>2 DEF ContactsOf
    <3>3. c.to \in DOMAIN best /\ best[c.to] <= a
      BY <2>2, <3>1, <3>2 DEF SearchInv, SettledIsRelaxed, Pending, ByFrom, a
    <3>4. best[c.to] \in Time
      BY <3>3 DEF TypeOK
    <3>5. c.to \notin visited => late <= best[c.to]
      <4> SUFFICES ASSUME c.to \notin visited PROVE late <= best[c.to]
        OBVIOUS
      <4>1. [node |-> c.to, arrival |-> best[c.to]] \in pq
        BY <3>3 DEF SearchInv, QueueCoversFrontier
      <4> QED BY <1>a, <4>1 DEF SearchInv, SettledInOrder
    <3>6. [node |-> c.to, arrival |-> best[c.to]] \in B
      BY <2>3, <3>4, <3>5 DEF TableEntry
    <3> QED BY <3>3, <3>6 DEF a
  <2> QED BY <2>4, <2>5
<1>2. \E q \in B : q.node = query.source /\ q.arrival <= query.ready
  <2>1. [node |-> query.source, arrival |-> query.ready] \in B
    BY <1>a, <1>b DEF TableEntry
  <2>2. query.ready <= query.ready
    BY <1>a, QueryTypes DEF Time
  <2> QED BY <2>1, <2>2
<1>3. \A p \in table : \E q \in B : q.node = p.node /\ q.arrival <= p.arrival
  <2>1. B \in SUBSET TableEntry
    OBVIOUS
  <2> HIDE DEF B
  <2> QED BY <1>1, <1>2, <1>a, <2>1, QueryTypes, TableIsLeast
<1>4. ASSUME NEW v, Reaches(table, v)
      PROVE /\ v \in visited => best[v] <= Label(table, v)
            /\ v \notin visited => late <= Label(table, v)
            /\ Label(table, v) \in Time
  <2>1. PICK p \in table : p.node = v /\ p.arrival = Label(table, v)
    BY <1>4, EntryOfLabel
  <2>2. PICK q \in B : q.node = v /\ q.arrival <= p.arrival
    BY <1>3, <2>1
  <2>3. p.arrival \in Time /\ q.arrival \in Time
    BY <1>c DEF Labelled, TableEntry
  <2> QED BY <1>a, <2>1, <2>2, <2>3 DEF Time
<1>5. ASSUME NEW v \in visited PROVE Reaches(table, v) /\ Label(table, v) = best[v]
  <2>1. Reaches(table, v) /\ Label(table, v) <= best[v]
    BY <1>a DEF LabelsAreSound
  <2> QED BY <2>1, <1>4, <1>a DEF Time
<1> HIDE DEF B
<1> QED BY <1>4, <1>5, <1>a DEF late, Time

\* Then the predecessors are contacts of a shortest-path tree.
LEMMA PredsAreTree ==
    ASSUME TypeOK, SearchInv, AnswerInv, pc = "rebuild",
           NEW table, table = Table(query.plan, query.source, query.size, query.ready),
           NEW v \in visited \ {query.source}
    PROVE \E k \in TreeContacts(query.plan, query.source, query.size, table) :
             query.plan[k] = pred[v] /\ query.plan[k].to = v
<1>1. v \in DOMAIN best \ {query.source} /\ query.source \in visited
      /\ query.dest \in visited /\ query.source # query.dest
  BY DEF TypeOK, SearchInv, PhaseOK
<1>2. PICK k \in DOMAIN query.plan :
         /\ query.plan[k] = pred[v]
         /\ \A j \in DOMAIN query.plan : ArrivesFirst(j, v) =>
              /\ best[query.plan[k].from] <= best[query.plan[j].from]
              /\ query.plan[j].from = query.source => query.plan[k].from = query.source
              /\ query.plan[j].from = query.plan[k].from => k <= j
  BY <1>1 DEF AnswerInv, PredIsFirst
<1> DEFINE c == query.plan[k]
<1>3. /\ c.to = v /\ c.from \in visited \ {query.dest}
      /\ Carries(c, best[c.from], query.size)
      /\ best[v] = ArrivalTime(c, best[c.from], query.size)
  BY <1>1, <1>2 DEF SearchInv, LabelsFollowPred
<1> HIDE DEF c
<1>4. /\ \A u \in visited : Reaches(table, u) /\ Label(table, u) = best[u]
      /\ \A u : Reaches(table, u) /\ u \notin visited \ {query.dest} =>
            best[query.dest] <= Label(table, u)
  BY LabelsAreExact DEF AnswerInv
<1>5. Tight(query.plan, query.source, query.size, table, k)
  <2>1. Reaches(table, c.from) /\ Label(table, c.from) = best[c.from]
        /\ Label(table, c.to) = best[c.to]
    BY <1>3, <1>4
  <2> QED BY <1>3, <2>1 DEF Tight, c
<1>6. ASSUME NEW j \in DOMAIN query.plan, query.plan[j].to = v,
             Tight(query.plan, query.source, query.size, table, j)
      PROVE /\ Label(table, c.from) <= Label(table, query.plan[j].from)
            /\ query.plan[j].from = query.source => c.from = query.source
            /\ query.plan[j].from = c.from => k <= j
  <2> DEFINE d == query.plan[j]
  <2>1. /\ Reaches(table, d.from) /\ Carries(d, Label(table, d.from), query.size)
        /\ ArrivalTime(d, Label(table, d.from), query.size) = best[v]
    BY <1>4, <1>6 DEF Tight
  <2>2. CASE d.from \in visited \ {query.dest}
    <3>1. ArrivesFirst(j, v)
      BY <1>4, <1>6, <2>1, <2>2 DEF ArrivesFirst, Pending
    <3> QED BY <1>2, <1>3, <1>4, <2>2, <3>1 DEF c
  <2>3. CASE d.from \notin visited \ {query.dest}
    <3>1. best[query.dest] <= Label(table, d.from)
      BY <1>4, <2>1, <2>3
    <3>2. Label(table, c.from) <= best[query.dest]
      <4>1. best[c.from] <= best[query.dest]
        BY <1>3 DEF SearchInv, SettledInOrder, PhaseOK
      <4> QED BY <1>3, <1>4, <4>1
    <3>3. /\ best[query.dest] \in Int /\ Label(table, c.from) \in Int
          /\ Label(table, d.from) \in Int
      <4>1. \A u \in visited : best[u] \in Int
        BY DEF TypeOK, Time
      <4>2. Labelled(table, query.ready)
        BY QueryTypes, TableIsClosed DEF TypeOK
      <4>3. PICK p \in table : p.arrival = Label(table, d.from)
        BY <2>1, EntryOfLabel
      <4>4. p.arrival \in Int
        BY <4>2 DEF Labelled, TableEntry, Time
      <4> QED BY <1>1, <1>3, <1>4, <4>1, <4>3, <4>4
    <3> HIDE DEF d
    <3>4. Label(table, c.from) <= Label(table, d.from)
      BY <3>1, <3>2, <3>3
    <3> QED BY <3>4, <1>1, <1>3, <2>3 DEF d
  <2> QED BY <2>2, <2>3
<1> QED BY <1>2, <1>3, <1>5, <1>6 DEF TreeContacts, c

\* The walk along pred stays upstream of the destination.
LEMMA RebuildAnswerInv ==
    ASSUME TypeOK, SearchInv, AnswerInv, Rebuild
    PROVE AnswerInv'
<1> DEFINE c == pred[at]
<1>a. /\ pc = "rebuild" /\ pc' = "rebuild" /\ query' = query /\ best' = best /\ pred' = pred
      /\ visited' = visited /\ at # query.source /\ at \in DOMAIN pred
      /\ at' = c.from /\ hops' = <<c>> \o hops
  BY DEF Rebuild, WalkOn
<1>b. at \in visited
  <2>1. CASE hops = <<>>
    BY <2>1, <1>a DEF SearchInv, RouteFollowsLabels, PhaseOK
  <2>2. CASE hops # <<>>
    <3>1. 1 \in DOMAIN hops
      BY <2>2 DEF TypeOK
    <3> QED BY <2>2, <3>1 DEF SearchInv, RouteFollowsLabels
  <2> QED BY <2>1, <2>2
<1>c. hops'[1] = c
  <2>1. c \in ContactsOf(query.plan) /\ hops \in Seq(ContactsOf(query.plan))
    BY <1>a DEF TypeOK
  <2> QED BY <1>a, <2>1, PrependFacts
<1> HIDE DEF c
<1>1. WalksUpstream'
  <2> SUFFICES ASSUME NEW table,
                      table = Table(query.plan, query.source, query.size, query.ready),
                      NEW tree,
                      tree = TreeContacts(query.plan, query.source, query.size, table),
                      NEW near \in Upstream(query.plan, tree, query.dest)
               PROVE c.from \in near /\ \E i \in tree : c = query.plan[i] /\ c.to \in near
    BY <1>a, <1>c DEF WalksUpstream
  <2>1. at \in near
    BY <1>a DEF AnswerInv, WalksUpstream
  <2>2. PICK k \in tree : query.plan[k] = c /\ query.plan[k].to = at
    BY <1>a, <1>b, PredsAreTree DEF c
  <2>3. query \in Queries /\ tree \in SUBSET DOMAIN query.plan
    BY DEF TypeOK, TreeContacts
  <2>4. \A i \in tree : query.plan[i].to \in near => query.plan[i].from \in near
    BY <2>3, QueryTypes, UpstreamIsLeast
  <2> QED BY <2>1, <2>2, <2>4
<1>2. PredIsFirst'
  BY <1>a, SamePredIsFirst DEF AnswerInv, Pending
<1> QED BY <1>a, <1>1, <1>2 DEF AnswerInv, InPlanOrder, LabelsAreSound

LEMMA NextAnswerInv == TypeOK /\ SearchInv /\ AnswerInv /\ [Next]_vars => AnswerInv'
BY RelaxAnswerInv, SkipAnswerInv, PopNodeAnswerInv, PopDestAnswerInv, RebuildAnswerInv,
   OtherAnswerInv
   DEF Next, Search, Returned

-----------------------------------------------------------------------------
(***************************************************************************)
(* FindRoute implements its oracle.  Oracle has its own copies of the      *)
(* operators of ContactGraph; they are the same operators.                 *)
(***************************************************************************)
LEMMA OracleContacts ==
    /\ \A c, ready, size : Oracle!Carries(c, ready, size) <=> Carries(c, ready, size)
    /\ \A c, ready, size : Oracle!ArrivalTime(c, ready, size) = ArrivalTime(c, ready, size)
    /\ \A plan : Oracle!ContactsOf(plan) = ContactsOf(plan)
BY DEF Oracle!Carries, Carries, Oracle!TxStart, TxStart, Oracle!TxFinish, TxFinish,
       Oracle!TxDuration, TxDuration, Oracle!ArrivalTime, ArrivalTime,
       Oracle!ContactsOf, ContactsOf

LEMMA OracleTable ==
    ASSUME NEW plan, NEW source, NEW size, NEW ready
    PROVE Oracle!Table(plan, source, size, ready) = Table(plan, source, size, ready)
BY DEF Oracle!Table, Table, Oracle!Cardinality, Cardinality, Oracle!Rounds, Rounds,
       Oracle!Round, Round, Oracle!Earliest, Earliest, Oracle!Onward, Onward,
       Oracle!Departing, Departing, Oracle!ContactsOf, ContactsOf, Oracle!Carries, Carries,
       Oracle!ArrivalTime, ArrivalTime, Oracle!TxStart, TxStart, Oracle!TxFinish, TxFinish,
       Oracle!TxDuration, TxDuration

LEMMA OracleFirstHops ==
    ASSUME NEW plan, NEW source, NEW dest, NEW size, NEW ready
    PROVE Oracle!FirstHops(plan, source, dest, size, ready) =
            FirstHops(plan, source, dest, size, ready)
BY DEF Oracle!FirstHops, FirstHops, Oracle!FirstOnRoute, FirstOnRoute, Oracle!Upstream,
       Upstream, Oracle!Before, Before, Oracle!TreeContacts, TreeContacts, Oracle!Tight, Tight,
       Oracle!Label, Label, Oracle!Reaches, Reaches,
       Oracle!Table, Table, Oracle!Cardinality, Cardinality, Oracle!Rounds, Rounds,
       Oracle!Round, Round, Oracle!Earliest, Earliest, Oracle!Onward, Onward,
       Oracle!Departing, Departing, Oracle!ContactsOf, ContactsOf, Oracle!Carries, Carries,
       Oracle!ArrivalTime, ArrivalTime, Oracle!TxStart, TxStart, Oracle!TxFinish, TxFinish,
       Oracle!TxDuration, TxDuration

\* A bundle that is at hop i of the route at time[i] travels it.
LEMMA TravelsByClock ==
    ASSUME NEW q, NEW route, NEW n \in Nat, Len(route) = n,
           NEW time, time = [i \in 0 .. n |-> time[i]], time[0] = q.ready,
           \A i \in 1 .. n :
              /\ route[i] \in ContactsOf(q.plan)
              /\ route[i].from = IF i = 1 THEN q.source ELSE route[i - 1].to
              /\ Carries(route[i], time[i - 1], q.size)
              /\ time[i] = ArrivalTime(route[i], time[i - 1], q.size),
           q.dest = IF n = 0 THEN q.source ELSE route[n].to
    PROVE Oracle!Travels(q, route, time[n])
<1> DEFINE F(f) == f = [i \in 0 .. n |-> IF i = 0 THEN q.ready
                                        ELSE ArrivalTime(route[i], f[i - 1], q.size)]
           when == CHOOSE f : F(f)
<1>1. F(time)
  <2>1. ASSUME NEW i \in 0 .. n
        PROVE time[i] = IF i = 0 THEN q.ready ELSE ArrivalTime(route[i], time[i - 1], q.size)
    <3>1. i # 0 => i \in 1 .. n
      OBVIOUS
    <3> QED BY <3>1
  <2> DEFINE g == [i \in 0 .. n |-> IF i = 0 THEN q.ready
                                    ELSE ArrivalTime(route[i], time[i - 1], q.size)]
  <2>2. \A i \in 0 .. n : time[i] = g[i]
    BY <2>1
  <2>3. [i \in 0 .. n |-> time[i]] = g
    <3>1. [i \in 0 .. n |-> time[i]] = [i \in 0 .. n |-> g[i]]
      BY <2>2
    <3> QED BY <3>1
  <2> QED BY <2>3
<1>2. F(when)
  <2> HIDE DEF F
  <2> QED BY <1>1
<1>3. \A i \in 0 .. n : when[i] = IF i = 0 THEN q.ready
                                   ELSE ArrivalTime(route[i], when[i - 1], q.size)
  <2> HIDE DEF when
  <2> QED BY <1>2
<1>4. \A i \in 0 .. n : when[i] = time[i]
  <2> DEFINE S == {i \in Nat : i <= n => when[i] = time[i]}
  <2> HIDE DEF when
  <2>1. 0 \in S
    BY <1>3
  <2>2. ASSUME NEW i \in Nat, i \in S PROVE i + 1 \in S
    <3> SUFFICES ASSUME i + 1 <= n PROVE when[i + 1] = time[i + 1]
      OBVIOUS
    <3>1. i + 1 \in 0 .. n /\ i + 1 # 0 /\ (i + 1) - 1 = i /\ i + 1 \in 1 .. n
      OBVIOUS
    <3>2. when[i] = time[i]
      BY <2>2
    <3>3. when[i + 1] = ArrivalTime(route[i + 1], when[i], q.size)
      BY <1>3, <3>1
    <3>4. time[i + 1] = ArrivalTime(route[i + 1], time[i], q.size)
      BY <3>1
    <3> QED BY <3>2, <3>3, <3>4
  <2> HIDE DEF S
  <2>3. \A i \in Nat : i \in S
    BY <2>1, <2>2, Induction
  <2>4. \A i \in 0 .. n : i \in S /\ i <= n
    BY <2>3
  <2> QED BY <2>4 DEF S
<1>5. /\ \A i \in 1 .. n :
           /\ route[i] \in ContactsOf(q.plan)
           /\ route[i].from = IF i - 1 = 0 THEN q.source ELSE route[i - 1].to
           /\ Carries(route[i], when[i - 1], q.size)
      /\ when[n] = time[n]
  <2> HIDE DEF when
  <2>1. ASSUME NEW i \in 1 .. n
        PROVE /\ route[i] \in ContactsOf(q.plan)
              /\ route[i].from = IF i - 1 = 0 THEN q.source ELSE route[i - 1].to
              /\ Carries(route[i], when[i - 1], q.size)
    <3>1. i - 1 \in 0 .. n /\ (i = 1 <=> i - 1 = 0)
      OBVIOUS
    <3>2. when[i - 1] = time[i - 1]
      BY <1>4, <3>1
    <3> QED BY <3>1, <3>2
  <2>2. when[n] = time[n]
    BY <1>4
  <2> QED BY <2>1, <2>2
<1>6. Oracle!Travels(q, route, time[n]) <=>
        /\ \A i \in 1 .. n :
             /\ route[i] \in ContactsOf(q.plan)
             /\ route[i].from = IF i - 1 = 0 THEN q.source ELSE route[i - 1].to
             /\ Carries(route[i], when[i - 1], q.size)
        /\ (IF n = 0 THEN q.source ELSE route[n].to) = q.dest
        /\ when[n] = time[n]
  <2> DEFINE G(f) == f = [i \in 0 .. n |-> IF i = 0 THEN q.ready
                                  ELSE Oracle!ArrivalTime(route[i], f[i - 1], q.size)]
  <2>1. when = CHOOSE f : G(f)
    BY OracleContacts
  <2> QED BY <2>1, OracleContacts DEF Oracle!Travels
<1> HIDE DEF when
<1> QED BY <1>5, <1>6

\* What makes an answer right, in the words of ContactGraph.
LEMMA RightAnswers ==
    ASSUME NEW q, NEW r, NEW table, table = Table(q.plan, q.source, q.size, q.ready)
    PROVE /\ /\ Reaches(table, q.dest)
             /\ r.ok /\ r.arrival = Label(table, q.dest)
             /\ Oracle!Travels(q, r.hops, r.arrival)
             /\ IF q.source = q.dest
                THEN r.hops = <<>>
                ELSE Head(r.hops) \in FirstHops(q.plan, q.source, q.dest, q.size, q.ready)
             => Oracle!IsAnswer(q, r)
          /\ ~Reaches(table, q.dest) /\ r = ZeroRoute => Oracle!IsAnswer(q, r)
<1>1. Oracle!Table(q.plan, q.source, q.size, q.ready) = table
  BY OracleTable
<1>2. \A v : /\ Oracle!Reaches(table, v) <=> Reaches(table, v)
             /\ Oracle!Label(table, v) = Label(table, v)
  BY DEF Oracle!Reaches, Reaches, Oracle!Label, Label
<1>3. Oracle!FirstHops(q.plan, q.source, q.dest, q.size, q.ready) =
        FirstHops(q.plan, q.source, q.dest, q.size, q.ready)
  BY OracleFirstHops
<1> QED BY <1>1, <1>2, <1>3 DEF Oracle!IsAnswer, Oracle!NoAnswer, ZeroRoute

\* "if source == dest": the bundle is there already.
LEMMA CallHereAnswers ==
    ASSUME TypeOK, CallHere PROVE Oracle!IsAnswer(query, result')
<1> DEFINE table == Table(query.plan, query.source, query.size, query.ready)
           start == [node |-> query.source, arrival |-> query.ready]
<1>a. query \in Queries
  BY DEF TypeOK
<1>b. /\ query.source = query.dest
      /\ result'.ok /\ result'.hops = <<>> /\ result'.arrival = query.ready
  BY DEF CallHere
<1>1. Labelled(table, query.ready) /\ start \in table
  BY <1>a, QueryTypes, TableIsClosed
<1>2. Reaches(table, query.dest) /\ Label(table, query.dest) = query.ready
  <2>1. Reaches(table, start.node) /\ Label(table, start.node) = start.arrival
    <3> HIDE DEF start, table
    <3> QED BY <1>1, LabelOfEntry
  <2> QED BY <1>b, <2>1
<1>3. Oracle!Travels(query, <<>>, query.ready)
  <2> DEFINE time == [i \in 0 .. 0 |-> query.ready]
  <2>1. /\ Len(<<>>) = 0 /\ time = [i \in 0 .. 0 |-> time[i]] /\ time[0] = query.ready
        /\ 0 \in Nat /\ \A i \in 1 .. 0 : FALSE
    OBVIOUS
  <2>2. Oracle!Travels(query, <<>>, time[0])
    <3> HIDE DEF time
    <3> QED BY <2>1, <1>b, TravelsByClock
  <2> QED BY <2>1, <2>2
<1> QED BY <1>b, <1>2, <1>3, RightAnswers

\* The heap ran dry: every label is settled and the destination has none.
LEMMA ExhaustedAnswers ==
    ASSUME TypeOK, SearchInv, Exhausted PROVE Oracle!IsAnswer(query, result')
<1> DEFINE table == Table(query.plan, query.source, query.size, query.ready)
           B == {e \in TableEntry : e.node \in visited /\ e.arrival = best[e.node]}
<1>a. query \in Queries /\ pc = "pop" /\ pq = {} /\ result' = ZeroRoute
  BY DEF TypeOK, Exhausted
<1>b. /\ visited = DOMAIN best /\ query.dest \notin visited /\ query.source \in visited
      /\ best[query.source] = query.ready
  BY <1>a DEF TypeOK, SearchInv, QueueCoversFrontier, PhaseOK, LabelsFollowPred
<1>1. Closed(query.plan, query.size, B)
  <2> SUFFICES ASSUME NEW p \in B, NEW c \in Departing(query.plan, query.size, p)
               PROVE \E q \in B : /\ q.node = c.to
                                  /\ q.arrival <= ArrivalTime(c, p.arrival, query.size)
    BY DEF Closed
  <2>1. c \in ContactsOf(query.plan) /\ c.from = p.node /\ Carries(c, p.arrival, query.size)
    BY DEF Departing
  <2>2. PICK j \in DOMAIN query.plan : c = query.plan[j]
    BY <2>1 DEF ContactsOf
  <2>3. /\ c.to \in DOMAIN best
        /\ best[c.to] <= ArrivalTime(c, p.arrival, query.size)
    BY <1>a, <1>b, <2>1, <2>2 DEF SearchInv, SettledIsRelaxed, Pending, ByFrom
  <2>4. [node |-> c.to, arrival |-> best[c.to]] \in B
    BY <1>b, <2>3 DEF TypeOK, TableEntry
  <2> QED BY <2>3, <2>4
<1>2. \E q \in B : q.node = query.source /\ q.arrival <= query.ready
  <2>1. [node |-> query.source, arrival |-> query.ready] \in B
    BY <1>a, <1>b, QueryTypes DEF TableEntry
  <2>2. query.ready <= query.ready
    BY <1>a, QueryTypes DEF Time
  <2> QED BY <2>1, <2>2
<1>3. \A p \in table : \E q \in B : q.node = p.node /\ q.arrival <= p.arrival
  <2>1. B \in SUBSET TableEntry
    OBVIOUS
  <2> HIDE DEF B
  <2> QED BY <1>1, <1>2, <1>a, <2>1, QueryTypes, TableIsLeast
<1>4. ~Reaches(table, query.dest)
  BY <1>b, <1>3 DEF Reaches
<1> HIDE DEF table
<1> QED BY <1>a, <1>4, RightAnswers DEF table

\* The route returned travels at the labels, and begins as a shortest-path
\* tree does.
LEMMA ReturnAnswers ==
    ASSUME TypeOK, SearchInv, AnswerInv, Return PROVE Oracle!IsAnswer(query, result')
<1> DEFINE table == Table(query.plan, query.source, query.size, query.ready)
           n == Len(hops)
           time == [i \in 0 .. n |-> IF i = 0 THEN query.ready ELSE best[hops[i].to]]
<1>a. /\ query \in Queries /\ hops \in Seq(ContactsOf(query.plan)) /\ pc = "rebuild"
      /\ pc' = "done" /\ query' = query /\ best' = best
      /\ result'.ok /\ result'.hops = hops /\ at' = at
  BY DEF TypeOK, Return
<1>b. /\ query.source # query.dest /\ query.dest \in visited
      /\ best[query.source] = query.ready
  BY <1>a DEF SearchInv, PhaseOK, LabelsFollowPred
<1>c. at = query.source /\ result'.arrival = best[query.dest]
  BY <1>a, <1>b, ReturnSearchInv DEF SearchInv, ResultOK
<1>d. /\ hops # <<>> /\ hops[1].from = query.source /\ hops[n].to = query.dest
      /\ n \in Nat \ {0} /\ DOMAIN hops = 1 .. n
  BY <1>a, <1>b, <1>c DEF SearchInv, RouteFollowsLabels
<1>1. Oracle!Travels(query, hops, best[query.dest])
  <2>1. ASSUME NEW i \in 1 .. n
        PROVE /\ hops[i] \in ContactsOf(query.plan)
              /\ hops[i].from = IF i = 1 THEN query.source ELSE hops[i - 1].to
              /\ Carries(hops[i], time[i - 1], query.size)
              /\ time[i] = ArrivalTime(hops[i], time[i - 1], query.size)
    <3>1. /\ Carries(hops[i], best[hops[i].from], query.size)
          /\ best[hops[i].to] = ArrivalTime(hops[i], best[hops[i].from], query.size)
      BY <1>d DEF SearchInv, RouteFollowsLabels
    <3>2. hops[i].from = IF i = 1 THEN query.source ELSE hops[i - 1].to
      <4>1. CASE i = 1
        BY <4>1, <1>d
      <4>2. CASE i # 1
        <5>1. i - 1 \in DOMAIN hops /\ (i - 1) + 1 = i
          BY <4>2, <1>d
        <5> QED BY <4>2, <5>1, <1>d DEF SearchInv, RouteFollowsLabels
      <4> QED BY <4>1, <4>2
    <3>3. time[i - 1] = best[hops[i].from] /\ time[i] = best[hops[i].to]
      <4>1. i - 1 \in 0 .. n /\ i \in 0 .. n /\ i # 0 /\ (i = 1 <=> i - 1 = 0)
        BY <1>d
      <4> QED BY <4>1, <3>2, <1>b
    <3>4. hops[i] \in ContactsOf(query.plan)
      BY <1>a, <1>d
    <3> HIDE DEF time
    <3> QED BY <3>1, <3>2, <3>3, <3>4
  <2>2. /\ time = [i \in 0 .. n |-> time[i]] /\ time[0] = query.ready
        /\ time[n] = best[query.dest] /\ n \in Nat /\ n # 0 /\ Len(hops) = n
    BY <1>d
  <2> HIDE DEF n, time
  <2>3. Oracle!Travels(query, hops, time[n])
    BY <2>1, <2>2, <1>d, TravelsByClock
  <2> QED BY <2>2, <2>3
<1>2. Reaches(table, query.dest) /\ Label(table, query.dest) = best[query.dest]
  BY <1>a, <1>b, LabelsAreExact DEF AnswerInv
<1>3. Head(hops) \in FirstHops(query.plan, query.source, query.dest, query.size, query.ready)
  <2> DEFINE tree == TreeContacts(query.plan, query.source, query.size, table)
  <2>1. tree \in SUBSET DOMAIN query.plan
    BY DEF TreeContacts
  <2>2. PICK R : Upstream(query.plan, tree, query.dest) = {R}
    <3> HIDE DEF tree
    <3> QED BY <1>a, <2>1, QueryTypes, UpstreamIsLeast
  <2>3. \E i \in tree : hops[1] = query.plan[i] /\ hops[1].to \in R
    <3>1. R \in Upstream(query.plan, tree, query.dest)
      BY <2>2
    <3> QED BY <3>1, <1>a, <1>d DEF AnswerInv, WalksUpstream
  <2>4. PICK i \in tree : hops[1] = query.plan[i] /\ query.plan[i].to \in R
    BY <2>3
  <2>5. Head(hops) = query.plan[i] /\ query.plan[i].from = query.source
    BY <1>a, <1>d, <2>4
  <2>6. tree = TreeContacts(query.plan, query.source, query.size,
                 Table(query.plan, query.source, query.size, query.ready))
    OBVIOUS
  <2> HIDE DEF tree
  <2>7. query.plan[i] \in FirstHops(query.plan, query.source, query.dest, query.size, query.ready)
    <3>1. /\ query.plan \in ContactPlan /\ query.source \in Node /\ query.dest \in Node
          /\ query.size \in Nat /\ query.ready \in Time
      BY <1>a, QueryTypes
    <3> QED BY <2>2, <2>4, <2>5, <2>6, <3>1, TreeContactIsFirstHop, Zenon
  <2> QED BY <2>5, <2>7
<1> HIDE DEF table
<1> QED BY <1>a, <1>b, <1>c, <1>1, <1>2, <1>3, RightAnswers DEF table

\* The step from the call to the answer: one step returns, and what it
\* returns is right; the others are not seen.
LEMMA NextAnswers ==
    TypeOK /\ SearchInv /\ AnswerInv /\ [Next]_vars => [Oracle!Answer]_Oracle!vars
<1> SUFFICES ASSUME TypeOK, SearchInv, AnswerInv, [Next]_vars
             PROVE Oracle!Answer \/ UNCHANGED Oracle!vars
  OBVIOUS
<1>1. CASE CallHere \/ Exhausted \/ Return
  <2>1. Oracle!IsAnswer(query, result')
    BY <1>1, CallHereAnswers, ExhaustedAnswers, ReturnAnswers
  <2>2. pc # "done" /\ pc' = "done" /\ query' = query
    BY <1>1 DEF CallHere, Exhausted, Return
  <2> QED BY <2>1, <2>2 DEF Oracle!Answer
<1>2. CASE \/ CallAway \/ Expanded \/ Rebuild \/ Returned \/ UNCHANGED vars
           \/ \E item \in pq : PopStale(item) \/ PopNode(item) \/ PopDest(item)
           \/ \E i \in todo : Relax(i) \/ Skip(i)
  <2>1. query' = query /\ result' = result /\ (pc = "done" <=> pc' = "done")
    BY <1>2 DEF CallAway, Expanded, Rebuild, Returned, vars, PopStale, PopNode, PopDest, Pop,
                Relax, Skip, NextContact
  <2>2. (pc = "done") = (pc' = "done")
    BY <2>1
  <2> QED BY <2>1, <2>2 DEF Oracle!vars
<1> QED BY <1>1, <1>2 DEF Next, Search

\* Init, too, is what the oracle begins with.
LEMMA InitAnswers == Init => Oracle!Init
BY DEF Init, ZeroRoute, Oracle!Init, Oracle!NoAnswer

\* FindRoute does in many steps what its oracle does in one: whatever the plan
\* and the query, it returns the label that the reference definition gives the
\* destination, with a route that achieves it and begins with one of FirstHops,
\* or the zero Route when the destination cannot be reached.
THEOREM SearchImplementsOracle == Spec => ImplementsOracle
<1>1. Spec => [](TypeOK /\ SearchInv /\ AnswerInv)
  BY InitTypeOK, NextTypeOK, InitSearchInv, NextSearchInv, InitAnswerInv, NextAnswerInv, PTL
     DEF Spec
<1>2. Spec => Oracle!Init /\ [][Oracle!Answer]_Oracle!vars
  BY <1>1, InitAnswers, NextAnswers, PTL DEF Spec
<1> QED BY <1>2, PTL DEF ImplementsOracle, Oracle!Spec

-----------------------------------------------------------------------------
(* The store-and-forward node                                              *)

LEMMA AppendFacts ==
    ASSUME NEW S, NEW s \in Seq(S), NEW e \in S
    PROVE /\ Append(s, e) \in Seq(S)
          /\ DOMAIN Append(s, e) = DOMAIN s \cup {Len(s) + 1}
          /\ Len(s) + 1 \notin DOMAIN s
          /\ Append(s, e)[Len(s) + 1] = e
          /\ \A i \in DOMAIN s : Append(s, e)[i] = s[i]
OBVIOUS

LEMMA RemoveAtFacts ==
    ASSUME NEW S, NEW s \in Seq(S), NEW k \in DOMAIN s
    PROVE /\ RemoveAt(s, k) \in Seq(S)
          /\ DOMAIN RemoveAt(s, k) = 1..(Len(s) - 1)
          /\ \A i \in 1..(Len(s) - 1) :
               RemoveAt(s, k)[i] = IF i < k THEN s[i] ELSE s[i + 1]
<1> DEFINE front == SubSeq(s, 1, k - 1)
           back == SubSeq(s, k + 1, Len(s))
<1>1. k \in 1..Len(s) /\ Len(s) \in Nat
  OBVIOUS
<1>2. /\ front \in Seq(S) /\ Len(front) = k - 1
      /\ \A i \in 1..(k - 1) : front[i] = s[i]
  BY <1>1
<1>3. /\ back \in Seq(S) /\ Len(back) = Len(s) - k
      /\ \A i \in 1..(Len(s) - k) : back[i] = s[k + i]
  BY <1>1
<1> HIDE DEF front, back
<1>4. /\ front \o back \in Seq(S) /\ Len(front \o back) = Len(s) - 1
      /\ \A i \in 1..(Len(s) - 1) :
           (front \o back)[i] = IF i <= k - 1 THEN front[i] ELSE back[i - (k - 1)]
  <2>1. /\ front \o back \in Seq(S) /\ Len(front \o back) = Len(front) + Len(back)
        /\ \A i \in 1..(Len(front) + Len(back)) :
             (front \o back)[i] = IF i <= Len(front) THEN front[i] ELSE back[i - Len(front)]
    BY <1>2, <1>3, ConcatProperties
  <2>2. Len(front) + Len(back) = Len(s) - 1
    BY <1>1, <1>2, <1>3
  <2> QED BY <1>2, <2>1, <2>2
<1>5. ASSUME NEW i \in 1..(Len(s) - 1)
      PROVE (front \o back)[i] = IF i < k THEN s[i] ELSE s[i + 1]
  <2>1. CASE i < k
    BY <2>1, <1>1, <1>2, <1>4
  <2>2. CASE ~(i < k)
    <3> DEFINE m == i - (k - 1)
    <3>1. m \in 1..(Len(s) - k) /\ k + m = i + 1 /\ ~(i <= k - 1)
      BY <2>2, <1>1
    <3>2. (front \o back)[i] = back[m]
      BY <3>1, <1>4
    <3> HIDE DEF m
    <3>3. back[m] = s[i + 1]
      BY <3>1, <1>3
    <3> QED BY <2>2, <3>2, <3>3
  <2> QED BY <2>1, <2>2
<1>6. DOMAIN (front \o back) = 1..(Len(s) - 1)
  BY <1>4
<1>7. RemoveAt(s, k) = front \o back
  BY DEF RemoveAt, front, back
<1> QED BY <1>4, <1>5, <1>6, <1>7

-----------------------------------------------------------------------------
\* Removing one place of a list without repetitions removes one element.
LEMMA RemoveAtDistinct ==
    ASSUME NEW S, NEW s \in Seq(S), NEW k \in DOMAIN s,
           \A i, j \in DOMAIN s : s[i] = s[j] => i = j
    PROVE /\ \A i, j \in DOMAIN RemoveAt(s, k) :
               RemoveAt(s, k)[i] = RemoveAt(s, k)[j] => i = j
          /\ {RemoveAt(s, k)[i] : i \in DOMAIN RemoveAt(s, k)} =
               {s[i] : i \in DOMAIN s} \ {s[k]}
<1> DEFINE r == RemoveAt(s, k)
           from(i) == IF i < k THEN i ELSE i + 1
<1>1. k \in 1..Len(s) /\ Len(s) \in Nat /\ DOMAIN s = 1..Len(s)
  OBVIOUS
<1>2. DOMAIN r = 1..(Len(s) - 1) /\ \A i \in DOMAIN r : r[i] = s[from(i)]
  BY RemoveAtFacts
<1> HIDE DEF r
<1>3. \A i \in DOMAIN r : from(i) \in DOMAIN s \ {k}
  BY <1>1, <1>2
<1>4. \A i, j \in DOMAIN r : from(i) = from(j) => i = j
  BY <1>1, <1>2
<1>5. \A m \in DOMAIN s \ {k} : \E i \in DOMAIN r : from(i) = m
  <2> SUFFICES ASSUME NEW m \in DOMAIN s \ {k} PROVE \E i \in DOMAIN r : from(i) = m
    OBVIOUS
  <2>1. CASE m < k
    BY <2>1, <1>1, <1>2
  <2>2. CASE m > k
    <3>1. m - 1 \in DOMAIN r /\ from(m - 1) = m
      BY <2>2, <1>1, <1>2
    <3> QED BY <3>1
  <2> QED BY <2>1, <2>2, <1>1
<1> HIDE DEF from
<1>6. \A i, j \in DOMAIN r : r[i] = r[j] => i = j
  BY <1>2, <1>3, <1>4
<1>7. {r[i] : i \in DOMAIN r} = {s[i] : i \in DOMAIN s} \ {s[k]}
  <2>1. ASSUME NEW i \in DOMAIN r PROVE r[i] \in {s[j] : j \in DOMAIN s} \ {s[k]}
    BY <1>2, <1>3
  <2>2. ASSUME NEW j \in DOMAIN s, s[j] # s[k] PROVE s[j] \in {r[i] : i \in DOMAIN r}
    <3>1. PICK i \in DOMAIN r : from(i) = j
      BY <2>2, <1>5
    <3> QED BY <3>1, <1>2
  <2> QED BY <2>1, <2>2
<1> QED BY <1>6, <1>7 DEF r

LEMMA AppendDistinct ==
    ASSUME NEW S, NEW s \in Seq(S), NEW e \in S,
           \A i, j \in DOMAIN s : s[i] = s[j] => i = j,
           \A i \in DOMAIN s : s[i] # e
    PROVE /\ \A i, j \in DOMAIN Append(s, e) :
               Append(s, e)[i] = Append(s, e)[j] => i = j
          /\ {Append(s, e)[i] : i \in DOMAIN Append(s, e)} =
               {s[i] : i \in DOMAIN s} \cup {e}
<1> DEFINE r == Append(s, e)
<1>2. /\ DOMAIN r = DOMAIN s \cup {Len(s) + 1} /\ Len(s) + 1 \notin DOMAIN s
      /\ r[Len(s) + 1] = e /\ \A i \in DOMAIN s : r[i] = s[i]
  BY AppendFacts
<1> HIDE DEF r
<1>3. \A i, j \in DOMAIN r : r[i] = r[j] => i = j
  BY <1>2
<1>4. {r[i] : i \in DOMAIN r} = {s[i] : i \in DOMAIN s} \cup {e}
  BY <1>2
<1>5. r = Append(s, e)
  BY DEF r
<1> QED BY <1>3, <1>4, <1>5

-----------------------------------------------------------------------------
LEMMA IngestFields ==
    ASSUME NEW b, NEW now, Ingest(b, now)
    PROVE /\ node'.store = IF IsStored(Self, node, b, now) THEN Put(node.store, ID(b), b) ELSE node.store
          /\ node'.order = IF IsStored(Self, node, b, now) THEN Append(node.order, ID(b)) ELSE node.order
          /\ node'.delivered = IF IsDelivered(Self, node, b, now) THEN Append(node.delivered, b)
                            ELSE node.delivered
          /\ node'.seen = node.seen \cup {ID(b)}
          /\ node' = [store |-> node'.store, order |-> node'.order, delivered |-> node'.delivered,
                   seen |-> node'.seen]
BY DEF Ingest, AfterIngest

\* A stored ID is listed exactly once, so Dequeue takes out its only place.
LEMMA DequeueFields ==
    ASSUME NodeTypeOK, StoreInv, NEW id \in DOMAIN node.store, Dequeue(id)
    PROVE /\ node'.store = [i \in DOMAIN node.store \ {id} |-> node.store[i]]
          /\ \E k \in DOMAIN node.order : node.order[k] = id /\ node'.order = RemoveAt(node.order, k)
          /\ node'.delivered = node.delivered /\ node'.seen = node.seen
          /\ node' = [store |-> node'.store, order |-> node'.order, delivered |-> node'.delivered,
                   seen |-> node'.seen]
<1>1. PICK k \in DOMAIN node.order : node.order[k] = id
  BY DEF StoreInv, OrderMatchesStore, Listed
<1>2. \A j \in DOMAIN node.order : node.order[j] = id => k <= j
  BY <1>1 DEF StoreInv, OrderMatchesStore, NodeTypeOK
<1>3. FirstPlace(node.order, id) \in DOMAIN node.order /\ node.order[FirstPlace(node.order, id)] = id
  BY <1>1, <1>2 DEF FirstPlace
<1>4. node' = [node EXCEPT !.store = [i \in DOMAIN node.store \ {id} |-> node.store[i]],
                     !.order = RemoveAt(node.order, FirstPlace(node.order, id))]
  BY <1>1 DEF Dequeue, AfterDequeue, Delete
<1>5. node = [store |-> node.store, order |-> node.order, delivered |-> node.delivered,
           seen |-> node.seen]
  BY DEF NodeTypeOK
<1>6. node' = [store |-> [i \in DOMAIN node.store \ {id} |-> node.store[i]],
            order |-> RemoveAt(node.order, FirstPlace(node.order, id)),
            delivered |-> node.delivered, seen |-> node.seen]
  BY <1>4, <1>5
<1> QED BY <1>3, <1>6

LEMMA NodeInitInv == NodeInit => NodeTypeOK /\ StoreInv
BY DEF NodeInit, NewNode, EmptyMap, NodeTypeOK, StoreInv, OrderMatchesStore, DeliveredOnce, KeptIsSeen,
       Listed, DeliveredIDs

-----------------------------------------------------------------------------
LEMMA IngestInv ==
    ASSUME NodeTypeOK, StoreInv, NEW b \in Bundles, NEW now \in Instants, Ingest(b, now)
    PROVE NodeTypeOK' /\ StoreInv'
<1> DEFINE id == ID(b)
<1>a. /\ node'.seen = node.seen \cup {id} /\ id \in IDs
      /\ node' = [store |-> node'.store, order |-> node'.order, delivered |-> node'.delivered,
               seen |-> node'.seen]
  BY IngestFields DEF IDs
<1>b. /\ node.order \in Seq(IDs) /\ node.delivered \in Seq(Bundles)
      /\ node.store \in [DOMAIN node.store -> Bundles]
      /\ node.seen \subseteq IDs /\ DOMAIN node.store \subseteq IDs
  BY DEF NodeTypeOK
<1>1. CASE IsStored(Self, node, b, now)
  <2>1. /\ node'.store = Put(node.store, id, b) /\ node'.order = Append(node.order, id)
        /\ node'.delivered = node.delivered /\ id \notin node.seen
    BY <1>1, IngestFields DEF IsStored, IsDelivered, IsDuplicate
  <2>2. /\ DOMAIN node'.store = DOMAIN node.store \cup {id} /\ node'.store[id] = b
        /\ \A i \in DOMAIN node.store \ {id} : node'.store[i] = node.store[i]
        /\ node'.store \in [DOMAIN node'.store -> Bundles]
    BY <2>1, <1>b DEF Put
  <2>3. id \notin DOMAIN node.store /\ \A i \in DOMAIN node.order : node.order[i] # id
    BY <2>1 DEF StoreInv, KeptIsSeen, OrderMatchesStore, Listed
  <2>4. /\ \A i, j \in DOMAIN node'.order : node'.order[i] = node'.order[j] => i = j
        /\ {node'.order[i] : i \in DOMAIN node'.order} = {node.order[i] : i \in DOMAIN node.order} \cup {id}
        /\ node'.order \in Seq(IDs)
    BY <2>1, <2>3, <1>a, <1>b, AppendDistinct, AppendFacts DEF StoreInv, OrderMatchesStore
  <2> HIDE DEF id
  <2>5. NodeTypeOK'
    BY <1>a, <1>b, <2>1, <2>2, <2>4 DEF NodeTypeOK
  <2>6. OrderMatchesStore'
    BY <2>2, <2>3, <2>4 DEF StoreInv, OrderMatchesStore, Listed, id
  <2>7. DeliveredIDs' = DeliveredIDs
    BY <2>1 DEF DeliveredIDs
  <2>8. DeliveredOnce'
    BY <2>1, <2>2, <2>7 DEF StoreInv, DeliveredOnce, KeptIsSeen
  <2>9. KeptIsSeen'
    BY <1>a, <2>2, <2>7 DEF StoreInv, KeptIsSeen
  <2> QED BY <2>5, <2>6, <2>8, <2>9 DEF StoreInv
<1>2. CASE IsDelivered(Self, node, b, now)
  <2>1. /\ node'.store = node.store /\ node'.order = node.order
        /\ node'.delivered = Append(node.delivered, b) /\ id \notin node.seen
        /\ NodeID(b.dest) = Self
    BY <1>2, IngestFields DEF IsStored, IsDelivered, IsDuplicate
  <2>2. /\ DOMAIN node'.delivered = DOMAIN node.delivered \cup {Len(node.delivered) + 1}
        /\ Len(node.delivered) + 1 \notin DOMAIN node.delivered
        /\ node'.delivered[Len(node.delivered) + 1] = b
        /\ \A i \in DOMAIN node.delivered : node'.delivered[i] = node.delivered[i]
        /\ node'.delivered \in Seq(Bundles)
    BY <2>1, <1>b, AppendFacts
  <2>3. \A i \in DOMAIN node.delivered : ID(node.delivered[i]) # id
    BY <2>1 DEF StoreInv, KeptIsSeen, DeliveredIDs
  <2> HIDE DEF id
  <2>4. DeliveredIDs' = DeliveredIDs \cup {id}
    BY <2>2 DEF DeliveredIDs, id
  <2>5. NodeTypeOK'
    BY <1>a, <1>b, <2>1, <2>2 DEF NodeTypeOK
  <2>6. OrderMatchesStore'
    BY <2>1 DEF StoreInv, OrderMatchesStore, Listed
  <2>7. id \notin DOMAIN node.store
    BY <2>1 DEF StoreInv, KeptIsSeen
  <2>8. DeliveredOnce'
    <3>1. \A i, j \in DOMAIN node'.delivered :
            ID(node'.delivered[i]) = ID(node'.delivered[j]) => i = j
      BY <2>2, <2>3 DEF StoreInv, DeliveredOnce, id
    <3>2. DeliveredIDs' \cap DOMAIN node'.store = {}
      BY <2>1, <2>4, <2>7 DEF StoreInv, DeliveredOnce
    <3>3. \A i \in DOMAIN node'.delivered : NodeID(node'.delivered[i].dest) = Self
      BY <2>1, <2>2 DEF StoreInv, DeliveredOnce
    <3> QED BY <3>1, <3>2, <3>3 DEF DeliveredOnce
  <2>9. KeptIsSeen'
    BY <1>a, <2>1, <2>4 DEF StoreInv, KeptIsSeen
  <2> QED BY <2>5, <2>6, <2>8, <2>9 DEF StoreInv
<1>3. CASE ~IsStored(Self, node, b, now) /\ ~IsDelivered(Self, node, b, now)
  <2>1. node'.store = node.store /\ node'.order = node.order /\ node'.delivered = node.delivered
    BY <1>3, IngestFields
  <2> HIDE DEF id
  <2> QED BY <1>a, <1>b, <2>1 DEF NodeTypeOK, StoreInv, OrderMatchesStore, DeliveredOnce, KeptIsSeen,
                          Listed, DeliveredIDs
<1> QED BY <1>1, <1>2, <1>3

LEMMA DequeueInv ==
    ASSUME NodeTypeOK, StoreInv, NEW id \in IDs, Dequeue(id)
    PROVE NodeTypeOK' /\ StoreInv'
<1>1. CASE id \notin DOMAIN node.store
  <2>1. node' = node
    BY <1>1 DEF Dequeue, AfterDequeue, Delete
  <2> QED BY <2>1 DEF NodeTypeOK, StoreInv, OrderMatchesStore, DeliveredOnce, KeptIsSeen,
                   Listed, DeliveredIDs
<1>2. CASE id \in DOMAIN node.store
  <2>1. /\ node'.store = [i \in DOMAIN node.store \ {id} |-> node.store[i]]
        /\ node'.delivered = node.delivered /\ node'.seen = node.seen
        /\ node' = [store |-> node'.store, order |-> node'.order, delivered |-> node'.delivered,
                 seen |-> node'.seen]
    BY <1>2, DequeueFields
  <2>2. PICK k \in DOMAIN node.order : node.order[k] = id /\ node'.order = RemoveAt(node.order, k)
    BY <1>2, DequeueFields
  <2>3. node.order \in Seq(IDs)
    BY DEF NodeTypeOK
  <2>4. /\ \A i, j \in DOMAIN node'.order : node'.order[i] = node'.order[j] => i = j
        /\ {node'.order[i] : i \in DOMAIN node'.order} = {node.order[i] : i \in DOMAIN node.order} \ {id}
        /\ node'.order \in Seq(IDs)
    <3>1. \A i, j \in DOMAIN node.order : node.order[i] = node.order[j] => i = j
      BY DEF StoreInv, OrderMatchesStore
    <3>2. node'.order \in Seq(IDs)
      BY <2>2, <2>3, RemoveAtFacts
    <3>3. /\ \A i, j \in DOMAIN RemoveAt(node.order, k) :
               RemoveAt(node.order, k)[i] = RemoveAt(node.order, k)[j] => i = j
          /\ {RemoveAt(node.order, k)[i] : i \in DOMAIN RemoveAt(node.order, k)} =
               {node.order[i] : i \in DOMAIN node.order} \ {node.order[k]}
      BY <2>3, <3>1, RemoveAtDistinct
    <3> QED BY <2>2, <3>2, <3>3
  <2>5. NodeTypeOK'
    BY <2>1, <2>4 DEF NodeTypeOK
  <2>6. OrderMatchesStore'
    BY <2>1, <2>4 DEF StoreInv, OrderMatchesStore, Listed
  <2>7. DeliveredOnce' /\ KeptIsSeen'
    BY <2>1 DEF StoreInv, DeliveredOnce, KeptIsSeen, DeliveredIDs
  <2> QED BY <2>5, <2>6, <2>7 DEF StoreInv
<1> QED BY <1>1, <1>2

LEMMA NodeNextInv == NodeTypeOK /\ StoreInv /\ [NodeNext]_node => NodeTypeOK' /\ StoreInv'
<1>1. ASSUME NodeTypeOK, StoreInv, UNCHANGED node PROVE NodeTypeOK' /\ StoreInv'
  BY <1>1 DEF NodeTypeOK, StoreInv, OrderMatchesStore, DeliveredOnce, KeptIsSeen,
              Listed, DeliveredIDs
<1> QED BY <1>1, IngestInv, DequeueInv DEF NodeNext

-----------------------------------------------------------------------------
\* The node's fields keep their types.
THEOREM NodeTypeCorrect == NodeSpec => []NodeTypeOK
BY NodeInitInv, NodeNextInv, PTL DEF NodeSpec

\* The queue is well formed and nothing is delivered twice, whoever calls the
\* node with whatever bundles.
THEOREM QueueWellFormed == NodeSpec => []StoreInv
BY NodeInitInv, NodeNextInv, PTL DEF NodeSpec

\* A bundle that left the queue never returns to it.
THEOREM NothingReturns == NodeSpec => NoReturn
<1>1. NodeTypeOK /\ StoreInv /\ [NodeNext]_node =>
        [\A id \in node.seen \ DOMAIN node.store : id \notin DOMAIN node'.store]_node
  <2> SUFFICES ASSUME NodeTypeOK, StoreInv, NodeNext, NEW id \in node.seen \ DOMAIN node.store
               PROVE id \notin DOMAIN node'.store
    OBVIOUS
  <2>1. ASSUME NEW b \in Bundles, NEW now \in Instants, Ingest(b, now)
        PROVE id \notin DOMAIN node'.store
    <3>1. CASE IsStored(Self, node, b, now)
      <4>1. node'.store = Put(node.store, ID(b), b) /\ ID(b) \notin node.seen
        BY <2>1, <3>1, IngestFields DEF IsStored, IsDuplicate
      <4>2. DOMAIN node'.store = DOMAIN node.store \cup {ID(b)}
        BY <4>1 DEF Put
      <4> QED BY <4>1, <4>2
    <3>2. CASE ~IsStored(Self, node, b, now)
      BY <2>1, <3>2, IngestFields
    <3> QED BY <3>1, <3>2
  <2>2. ASSUME NEW other \in IDs, Dequeue(other) PROVE id \notin DOMAIN node'.store
    <3>1. CASE other \in DOMAIN node.store
      <4>1. node'.store = [i \in DOMAIN node.store \ {other} |-> node.store[i]]
        BY <2>2, <3>1, DequeueFields
      <4>2. DOMAIN node'.store = DOMAIN node.store \ {other}
        BY <4>1
      <4> QED BY <4>2
    <3>2. CASE other \notin DOMAIN node.store
      BY <2>2, <3>2 DEF Dequeue, AfterDequeue, Delete
    <3> QED BY <3>1, <3>2
  <2> QED BY <2>1, <2>2 DEF NodeNext
<1> QED BY <1>1, NodeInitInv, NodeNextInv, PTL DEF NodeSpec, NoReturn

\* Taking one place out of a list leaves the others in their order.
LEMMA RemoveAtKeepsOrder ==
    ASSUME NEW S, NEW s \in Seq(S), NEW k \in DOMAIN s,
           NEW i \in DOMAIN s \ {k}, NEW j \in DOMAIN s \ {k}, i < j
    PROVE \E p, q \in DOMAIN RemoveAt(s, k) :
            p < q /\ RemoveAt(s, k)[p] = s[i] /\ RemoveAt(s, k)[q] = s[j]
<1> DEFINE to(m) == IF m < k THEN m ELSE m - 1
           r == RemoveAt(s, k)
<1>1. DOMAIN s = 1..Len(s) /\ Len(s) \in Nat
  OBVIOUS
<1>2. /\ DOMAIN r = 1..(Len(s) - 1)
      /\ \A m \in 1..(Len(s) - 1) : r[m] = IF m < k THEN s[m] ELSE s[m + 1]
  BY RemoveAtFacts
<1> HIDE DEF r
<1>3. \A m \in DOMAIN s \ {k} : to(m) \in 1..(Len(s) - 1) /\ r[to(m)] = s[m]
  <2> TAKE m \in DOMAIN s \ {k}
  <2>1. CASE m < k
    BY <2>1, <1>1, <1>2
  <2>2. CASE m > k
    <3>1. m - 1 \in 1..(Len(s) - 1) /\ ~(m - 1 < k) /\ (m - 1) + 1 = m
      BY <2>2, <1>1
    <3>2. r[m - 1] = s[(m - 1) + 1]
      BY <3>1, <1>2
    <3> QED BY <2>2, <3>1, <3>2, <1>1
  <2> QED BY <2>1, <2>2, <1>1
<1>4. to(i) < to(j)
  BY <1>1
<1> HIDE DEF to
<1> QED BY <1>2, <1>3, <1>4 DEF r

\* Node.Ingest appends to the order and Node.Dequeue takes one place out of it:
\* what stays in the queue stays in its order, whatever leaves and enters.
THEOREM OrderIsKept == NodeSpec => KeepsOrder
<1>1. ASSUME NodeTypeOK, StoreInv, NodeNext,
             NEW x \in DOMAIN node.store \cap DOMAIN node'.store,
             NEW y \in DOMAIN node.store \cap DOMAIN node'.store, Ahead(node, x, y)
      PROVE Ahead(node', x, y)
  <2>1. PICK i \in DOMAIN node.order, j \in DOMAIN node.order :
            i < j /\ node.order[i] = x /\ node.order[j] = y
    BY <1>1 DEF Ahead
  <2>2. node.order \in Seq(IDs)
    BY <1>1 DEF NodeTypeOK
  <2>3. ASSUME NEW b \in Bundles, NEW now \in Instants, Ingest(b, now)
        PROVE Ahead(node', x, y)
    <3>1. DOMAIN node.order \subseteq DOMAIN node'.order
          /\ \A m \in DOMAIN node.order : node'.order[m] = node.order[m]
      <4>1. ID(b) \in IDs
        BY DEF IDs
      <4>2. node'.order = node.order \/ node'.order = Append(node.order, ID(b))
        BY <2>3, IngestFields
      <4> QED BY <2>2, <4>1, <4>2, AppendFacts
    <3> QED BY <2>1, <3>1 DEF Ahead
  <2>4. ASSUME NEW id \in IDs, Dequeue(id) PROVE Ahead(node', x, y)
    <3>1. CASE id \notin DOMAIN node.store
      <4>1. node' = node
        BY <2>4, <3>1 DEF Dequeue, AfterDequeue
      <4> QED BY <1>1, <4>1
    <3>2. CASE id \in DOMAIN node.store
      <4>1. PICK k \in DOMAIN node.order : node.order[k] = id /\ node'.order = RemoveAt(node.order, k)
        BY <1>1, <2>4, <3>2, DequeueFields
      <4>2. x # id /\ y # id
        <5>1. node'.store = [m \in DOMAIN node.store \ {id} |-> node.store[m]]
          BY <1>1, <2>4, <3>2, DequeueFields
        <5>2. DOMAIN node'.store = DOMAIN node.store \ {id}
          BY <5>1
        <5> QED BY <5>2
      <4>3. i # k /\ j # k
        BY <2>1, <4>1, <4>2
      <4>4. \E p, q \in DOMAIN RemoveAt(node.order, k) :
              p < q /\ RemoveAt(node.order, k)[p] = x /\ RemoveAt(node.order, k)[q] = y
        BY <2>1, <2>2, <4>3, RemoveAtKeepsOrder
      <4> QED BY <4>1, <4>4 DEF Ahead
    <3> QED BY <3>1, <3>2
  <2> QED BY <1>1, <2>3, <2>4 DEF NodeNext
<1>2. NodeTypeOK /\ StoreInv /\ [NodeNext]_node =>
        [\A x, y \in DOMAIN node.store \cap DOMAIN node'.store :
            Ahead(node, x, y) => Ahead(node', x, y)]_node
  BY <1>1
<1> QED BY <1>2, NodeTypeCorrect, QueueWellFormed, PTL DEF NodeSpec, KeepsOrder
=============================================================================
