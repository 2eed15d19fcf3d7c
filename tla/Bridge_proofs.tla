---------------------------- MODULE Bridge_proofs ----------------------------
(***************************************************************************)
(* The mesh, and the bridge that runs on it.                               *)
(*                                                                         *)
(* The mesh loses no bundle and multiplies none, keeps its trace in order  *)
(* and implements the abstract specification of custody: for any plan, any *)
(* handlers, any injections and any number of runs, nodes and events.  Its *)
(* copies arrive as routed unless a node gets back what it passed on.      *)
(*                                                                         *)
(* The bridge gives every bundle an ID of its own and answers every        *)
(* request that reaches a compute node once: for any clients, compute      *)
(* nodes, plans and tasks, any number of runs, and whatever is lost,       *)
(* delayed or overtaken on the way.  In a single run its answers are       *)
(* current.                                                                *)
(***************************************************************************)
EXTENDS Bridge, ContactGraph_proofs, SequenceTheorems

LEMMA HopTypes ==
    ASSUME NEW ev \in Event, NEW c \in Hops(ev)
    PROVE /\ c \in Contact /\ c.to \in Node
          /\ ArrivalTime(c, ev.time, ev.b.size) \in Time
          /\ ev.time <= ArrivalTime(c, ev.time, ev.b.size)
<1>1. c \in ContactsOf(Plan)
  <2> DEFINE tree(table) == TreeContacts(Plan, ev.node, ev.b.size, table)
  <2>1. ASSUME NEW table, c \in FirstOnRoute(Plan, tree(table), ev.node, NodeID(ev.b.dest))
        PROVE c \in ContactsOf(Plan)
    <3>1. \A j \in tree(table) : j \in DOMAIN Plan
      BY DEF TreeContacts
    <3> HIDE DEF tree
    <3>2. \E i \in tree(table) : c = Plan[i]
      BY <2>1 DEF FirstOnRoute
    <3> QED BY <3>1, <3>2 DEF ContactsOf
  <2>2. \E table : c \in FirstOnRoute(Plan, tree(table), ev.node, NodeID(ev.b.dest))
    BY DEF Hops, FirstHops
  <2> QED BY <2>1, <2>2
<1>2. c \in Contact /\ c.to \in Node
  <2>1. PICK i \in DOMAIN Plan : c = Plan[i]
    BY <1>1 DEF ContactsOf
  <2>2. c \in Contact
    BY <2>1, MeshAssumption DEF ContactPlan
  <2> QED BY <2>2 DEF Contact
<1>3. ev.time \in Time /\ ev.b.size \in Nat
  BY DEF Event, BundleType
<1> QED BY <1>2, <1>3, ArrivalNotEarly

LEMMA AddNodeFacts ==
    ASSUME NEW ns, NEW id
    PROVE /\ DOMAIN AddNode(ns, id) = DOMAIN ns \cup {id}
          /\ AddNode(ns, id) = [x \in DOMAIN AddNode(ns, id) |-> AddNode(ns, id)[x]]
          /\ \A x \in DOMAIN ns : AddNode(ns, id)[x] = ns[x]
          /\ id \notin DOMAIN ns => AddNode(ns, id)[id] = NewNode
BY DEF AddNode

\* The introductions that join the mesh are numbered on from those before, and
\* each is in the air once.
LEMMA JoinFacts ==
    ASSUME NEW old \in Seq(Introduction), NEW new \in Seq(Introduction)
    PROVE /\ old \o new \in Seq(Introduction)
          /\ DOMAIN old \subseteq DOMAIN (old \o new)
          /\ \A k \in DOMAIN old : (old \o new)[k] = old[k]
          /\ Arrivals(new, Len(old)) \subseteq Event
          /\ \A a \in Arrivals(new, Len(old)) :
               /\ a.copy \in DOMAIN (old \o new) \ DOMAIN old
               /\ a.b = (old \o new)[a.copy].b
          /\ \A k \in DOMAIN (old \o new) \ DOMAIN old :
               \E a \in Arrivals(new, Len(old)) :
                  {e \in Arrivals(new, Len(old)) : e.copy = k} = {a}
<1> DEFINE all == old \o new
           air == Arrivals(new, Len(old))
           lift(i) == Arrival(new[i].at, new[i].node, new[i].b, TRUE, Len(old) + i)
<1>1. /\ all \in Seq(Introduction) /\ Len(all) = Len(old) + Len(new)
      /\ \A i \in 1..(Len(old) + Len(new)) :
           all[i] = IF i <= Len(old) THEN old[i] ELSE new[i - Len(old)]
  BY ConcatProperties
<1>2. /\ DOMAIN all = 1..(Len(old) + Len(new)) /\ DOMAIN old = 1..Len(old)
      /\ DOMAIN new = 1..Len(new) /\ Len(old) \in Nat /\ Len(new) \in Nat
  BY <1>1
<1> HIDE DEF all
<1>3. \A i \in DOMAIN new : Len(old) + i \in DOMAIN all \ DOMAIN old /\ all[Len(old) + i] = new[i]
  BY <1>1, <1>2
<1>4. \A k \in DOMAIN all \ DOMAIN old : \E i \in DOMAIN new : k = Len(old) + i
  <2> TAKE k \in DOMAIN all \ DOMAIN old
  <2>1. k - Len(old) \in DOMAIN new /\ k = Len(old) + (k - Len(old))
    BY <1>2
  <2> QED BY <2>1
<1>5. \A i \in DOMAIN new : lift(i) \in Event
  <2> TAKE i \in DOMAIN new
  <2>1. new[i] \in Introduction /\ Len(old) + i \in Nat
    BY <1>2
  <2> QED BY <2>1 DEF Event, Arrival, Introduction
<1>6. \A i \in DOMAIN new : lift(i).copy = Len(old) + i /\ lift(i).b = new[i].b
  BY DEF Arrival
<1>7. air = {lift(i) : i \in DOMAIN new}
  BY DEF Arrivals
<1>8. \A i, j \in DOMAIN new : lift(i).copy = lift(j).copy => lift(i) = lift(j)
  <2>1. \A i, j \in DOMAIN new : Len(old) + i = Len(old) + j => i = j
    BY <1>2
  <2> QED BY <2>1, <1>6
<1> HIDE DEF lift, air
<1>9. \A k \in DOMAIN all \ DOMAIN old : \E a \in air : {e \in air : e.copy = k} = {a}
  <2> TAKE k \in DOMAIN all \ DOMAIN old
  <2>1. PICK i \in DOMAIN new : k = Len(old) + i
    BY <1>4
  <2>2. lift(i) \in air /\ {e \in air : e.copy = k} = {lift(i)}
    BY <2>1, <1>6, <1>7, <1>8
  <2> QED BY <2>2
<1>10. DOMAIN old \subseteq DOMAIN all /\ \A k \in DOMAIN old : all[k] = old[k]
  BY <1>1, <1>2
<1>11. air \subseteq Event /\ \A a \in air : /\ a.copy \in DOMAIN all \ DOMAIN old
                                             /\ a.b = all[a.copy].b
  BY <1>3, <1>5, <1>6, <1>7
<1> QED BY <1>1, <1>9, <1>10, <1>11 DEF all, air

-----------------------------------------------------------------------------
(***************************************************************************)
(* One turn of the loop: what every outcome of Ingest has in common        *)
(***************************************************************************)
\* A bundle that is taken off the queue was nowhere else.
LEMMA Alone ==
    ASSUME MeshInv, NEW ev \in eq
    PROVE /\ ev \in Event /\ ev.copy \in DOMAIN sent /\ ev.b = sent[ev.copy].b
          /\ FlightsOf(ev.copy) = {ev} /\ EndsOf(ev.copy) = {} /\ LostOf(ev.copy) = {}
<1>1. ev.copy \in DOMAIN sent /\ ev \in FlightsOf(ev.copy)
  BY DEF MeshInv, Custodians, FlightsOf
<1>2. AtOnePlace(FlightsOf(ev.copy), EndsOf(ev.copy), LostOf(ev.copy))
  BY <1>1 DEF MeshInv, Custodians
<1>3. FlightsOf(ev.copy) = {ev} /\ EndsOf(ev.copy) = {} /\ LostOf(ev.copy) = {}
  BY <1>1, <1>2 DEF AtOnePlace
<1> QED BY <1>1, <1>3 DEF MeshInv, Custodians, TypeOK

\* Copies that are not touched stay where they are; those that join are in the
\* air.  Run and Deliver are of this form.
LEMMA JoinKeepsCustody ==
    ASSUME TypeOK, Custodians, NEW rest \in SUBSET eq, NEW new \in Seq(Introduction),
           eq' = rest \cup Arrivals(new, Len(sent)), sent' = sent \o new,
           abandoned' = abandoned
    PROVE /\ sent' \in Seq(Introduction) /\ eq' \subseteq Event
          /\ DOMAIN sent \subseteq DOMAIN sent'
          /\ \A k \in DOMAIN sent : sent'[k] = sent[k]
          /\ \A ev \in eq' \cup abandoned' : ev.copy \in DOMAIN sent'
          /\ \A ev \in eq' : ev.b = sent'[ev.copy].b
          /\ \A k \in DOMAIN sent : /\ FlightsOf(k)' = FlightsOf(k) \cap rest
                                    /\ LostOf(k)' = LostOf(k)
          /\ \A k \in DOMAIN sent' \ DOMAIN sent :
               /\ \E a \in FlightsOf(k)' : FlightsOf(k)' = {a}
               /\ LostOf(k)' = {} /\ EndsOf(k) = {}
<1> DEFINE air == Arrivals(new, Len(sent))
<1>1. sent \in Seq(Introduction) /\ eq \subseteq Event
  BY DEF TypeOK
<1>2. /\ sent' \in Seq(Introduction) /\ DOMAIN sent \subseteq DOMAIN sent'
      /\ \A k \in DOMAIN sent : sent'[k] = sent[k]
      /\ air \subseteq Event
      /\ \A a \in air : a.copy \in DOMAIN sent' \ DOMAIN sent /\ a.b = sent'[a.copy].b
      /\ \A k \in DOMAIN sent' \ DOMAIN sent : \E a \in air : {e \in air : e.copy = k} = {a}
  <2> DEFINE all == sent \o new
  <2>1. /\ all \in Seq(Introduction) /\ DOMAIN sent \subseteq DOMAIN all
        /\ \A k \in DOMAIN sent : all[k] = sent[k]
        /\ air \subseteq Event
        /\ \A a \in air : a.copy \in DOMAIN all \ DOMAIN sent /\ a.b = all[a.copy].b
        /\ \A k \in DOMAIN all \ DOMAIN sent :
             \E a \in air : {e \in air : e.copy = k} = {a}
    BY <1>1, JoinFacts, Zenon
  <2>2. sent' = all
    OBVIOUS
  <2> HIDE DEF all, air
  <2> QED BY <2>1, <2>2
<1>3. eq' = rest \cup air
  OBVIOUS
<1> HIDE DEF air
<1>4. \A ev \in eq \cup abandoned : ev.copy \in DOMAIN sent
  BY DEF Custodians
<1>5. \A ev \in eq : ev.b = sent[ev.copy].b
  BY DEF Custodians
<1>6. \A k \in DOMAIN sent : /\ FlightsOf(k)' = FlightsOf(k) \cap rest
                             /\ LostOf(k)' = LostOf(k)
  <2> TAKE k \in DOMAIN sent
  <2>1. LostOf(k)' = LostOf(k)
    BY DEF LostOf
  <2>2. \A e \in air : e.copy # k
    BY <1>2
  <2>3. rest \subseteq eq
    OBVIOUS
  <2>4. {e \in rest \cup air : e.copy = k} = {e \in eq : e.copy = k} \cap rest
    BY <2>2, <2>3
  <2> QED BY <1>3, <2>1, <2>4 DEF FlightsOf
<1>7. ASSUME NEW k \in DOMAIN sent' \ DOMAIN sent
      PROVE /\ \E a \in FlightsOf(k)' : FlightsOf(k)' = {a}
            /\ LostOf(k)' = {} /\ EndsOf(k) = {}
  <2>1. FlightsOf(k)' = {e \in air : e.copy = k}
    BY <1>3, <1>4 DEF FlightsOf
  <2>2. \E a \in air : {e \in air : e.copy = k} = {a}
    BY <1>2
  <2>3. LostOf(k)' = {} /\ EndsOf(k) = {}
    BY <1>4 DEF LostOf, EndsOf, TypeOK
  <2> QED BY <2>1, <2>2, <2>3
<1>8. \A ev \in eq' \cup abandoned' : ev.copy \in DOMAIN sent'
  BY <1>2, <1>3, <1>4
<1>9. \A ev \in eq' : ev.b = sent'[ev.copy].b
  BY <1>2, <1>3, <1>4, <1>5
<1> QED BY <1>1, <1>2, <1>3, <1>6, <1>7, <1>8, <1>9

\* The replies of a handler are introductions, dated no earlier than the delivery.
LEMMA ReplyTypes ==
    ASSUME NEW ev \in Event, NEW r \in Reactions(ev)
    PROVE /\ Scheduled(r.out, ev.time) \in Seq(Introduction)
          /\ \A a \in Arrivals(Scheduled(r.out, ev.time), Len(sent)) : ev.time <= a.time
<1> DEFINE out == r.out
           replies == Scheduled(out, ev.time)
<1>1. out \in Seq(Introduction) /\ ev.time \in Int
  <2>1. CASE ev.node \in HandlerNodes
    <3>1. r \in {q \in Handle(app, ev.node, ev.b, ev.time) : q.out \in Seq(Introduction)}
      BY <2>1 DEF Reactions
    <3> QED BY <3>1 DEF Event, Time
  <2>2. CASE ev.node \notin HandlerNodes
    <3>1. r = [app |-> app, out |-> <<>>]
      BY <2>2 DEF Reactions
    <3> QED BY <3>1 DEF Event, Time
  <2> QED BY <2>1, <2>2
<1> HIDE DEF out
<1>2. DOMAIN out = 1..Len(out) /\ Len(out) \in Nat /\ DOMAIN replies = DOMAIN out
  BY <1>1 DEF Scheduled
<1>3. \A i \in DOMAIN out : replies[i] \in Introduction /\ ev.time <= replies[i].at
  <2> TAKE i \in DOMAIN out
  <2>1. out[i] \in Introduction
    BY <1>1
  <2>2. replies[i] = [out[i] EXCEPT !.at = IF out[i].at < ev.time THEN ev.time ELSE out[i].at]
    BY DEF Scheduled
  <2> HIDE DEF replies
  <2> QED BY <1>1, <2>1, <2>2 DEF Introduction, Time
<1>4. replies = [i \in 1..Len(out) |-> replies[i]]
  BY <1>2 DEF Scheduled
<1> HIDE DEF replies
<1>5. replies \in Seq(Introduction)
  BY <1>2, <1>3, <1>4
<1>6. \A a \in Arrivals(replies, Len(sent)) : ev.time <= a.time
  BY <1>2, <1>3 DEF Arrivals, Arrival
<1> QED BY <1>5, <1>6 DEF out, replies

\* What a turn that logs an entry of this kind does to the nodes and the log.
Outcome(ev, kind) ==
    /\ running /\ running' = running /\ pending' = pending /\ abandoned' = abandoned
    /\ \A other \in eq : ev.time <= other.time
    /\ nodes' = [x \in DOMAIN nodes' |-> nodes'[x]]
    /\ DOMAIN nodes' = DOMAIN nodes \cup {ev.node}
    /\ \A x \in DOMAIN nodes \ {ev.node} : nodes'[x] = nodes[x]
    /\ nodes'[ev.node].seen = Host(ev).seen \cup {ID(ev.b)}
    /\ DOMAIN nodes'[ev.node].store =
         DOMAIN Host(ev).store \cup (IF kind = "undeliverable" THEN {ID(ev.b)} ELSE {})
    /\ \E new :
         /\ log' = log \cup new
         /\ \A l \in new : /\ l.copy = ev.copy /\ l.node = ev.node
                           /\ l.kind \in {"injected", kind}
         /\ {l \in new : l.kind = kind} = {Entry(ev, kind)} \/ kind = "forwarded"
         /\ \E l \in new : l.kind = kind

\* Host is the node as it was, or a new one that has nothing.
LEMMA HostFacts ==
    ASSUME NEW ev
    PROVE /\ ev.node \in DOMAIN nodes => Host(ev) = nodes[ev.node]
          /\ ev.node \notin DOMAIN nodes => DOMAIN Host(ev).store = {}
<1>1. ev.node \in DOMAIN nodes => Host(ev) = nodes[ev.node]
  BY DEF Host, AddNode
<1>2. ev.node \notin DOMAIN nodes => Host(ev) = NewNode
  BY DEF Host, AddNode
<1>3. DOMAIN NewNode.store = {}
  BY DEF NewNode, EmptyMap
<1> QED BY <1>1, <1>2, <1>3

LEMMA IngestFacts ==
    ASSUME NEW ev
    PROVE /\ Ingested(ev) = [x \in DOMAIN Ingested(ev) |-> Ingested(ev)[x]]
          /\ DOMAIN Ingested(ev) = DOMAIN nodes \cup {ev.node}
          /\ \A x \in DOMAIN nodes \ {ev.node} : Ingested(ev)[x] = nodes[x]
          /\ Ingested(ev)[ev.node] = AfterIngest(ev.node, Host(ev), ev.b, ev.time)
          /\ Ingested(ev)[ev.node].seen = Host(ev).seen \cup {ID(ev.b)}
          /\ DOMAIN Ingested(ev)[ev.node].store =
               DOMAIN Host(ev).store \cup
                  (IF IsStored(ev.node, Host(ev), ev.b, ev.time) THEN {ID(ev.b)} ELSE {})
<1> DEFINE ns == AddNode(nodes, ev.node)
           n == AfterIngest(ev.node, Host(ev), ev.b, ev.time)
<1>1. /\ DOMAIN ns = DOMAIN nodes \cup {ev.node}
      /\ \A x \in DOMAIN nodes : ns[x] = nodes[x]
      /\ ns = [x \in DOMAIN ns |-> ns[x]]
  BY DEF AddNode
<1>2. Ingested(ev) = [ns EXCEPT ![ev.node] = n]
  BY DEF Ingested
<1>3. /\ n.seen = Host(ev).seen \cup {ID(ev.b)}
      /\ DOMAIN n.store = DOMAIN Host(ev).store \cup
                  (IF IsStored(ev.node, Host(ev), ev.b, ev.time) THEN {ID(ev.b)} ELSE {})
  BY DEF AfterIngest, Put
<1> HIDE DEF ns, n
<1> QED BY <1>1, <1>2, <1>3 DEF n

LEMMA EntryFacts ==
    ASSUME NEW ev, NEW kind \in Ends
    PROVE /\ \A l \in Entries(ev, kind) : /\ l.copy = ev.copy /\ l.node = ev.node
                                          /\ l.kind \in {"injected", kind}
          /\ {l \in Entries(ev, kind) : l.kind = kind} = {Entry(ev, kind)}
          /\ \E l \in Entries(ev, kind) : l.kind = kind
<1>1. kind # "injected"
  BY DEF Ends
<1>2. Entries(ev, kind) \subseteq {Entry(ev, "injected"), Entry(ev, kind)}
      /\ Entry(ev, kind) \in Entries(ev, kind)
  BY DEF Entries, Injected
<1>3. \A k : Entry(ev, k).kind = k /\ Entry(ev, k).copy = ev.copy /\ Entry(ev, k).node = ev.node
  BY DEF Entry
<1> HIDE DEF Ends
<1> QED BY <1>1, <1>2, <1>3

LEMMA DeliverOutcome ==
    ASSUME NEW ev \in Event, Deliver(ev)
    PROVE /\ Outcome(ev, "delivered")
          /\ ev.node = NodeID(ev.b.dest) /\ ID(ev.b) \notin Host(ev).seen
          /\ \E new \in Seq(Introduction) :
               /\ eq' = (eq \ {ev}) \cup Arrivals(new, Len(sent))
               /\ sent' = sent \o new
               /\ \A a \in Arrivals(new, Len(sent)) : ev.time <= a.time
<1>1. /\ nodes' = Ingested(ev) /\ log' = log \cup Entries(ev, "delivered")
      /\ IsDelivered(ev.node, Host(ev), ev.b, ev.time) /\ Pop(ev)
  BY DEF Deliver
<1>2. ~IsStored(ev.node, Host(ev), ev.b, ev.time)
  BY <1>1 DEF IsDelivered, IsStored
<1>3. Outcome(ev, "delivered")
  <2>1. "delivered" \in Ends
    BY DEF Ends
  <2>2. \E new :
           /\ log' = log \cup new
           /\ \A l \in new : /\ l.copy = ev.copy /\ l.node = ev.node
                             /\ l.kind \in {"injected", "delivered"}
           /\ {l \in new : l.kind = "delivered"} = {Entry(ev, "delivered")}
           /\ \E l \in new : l.kind = "delivered"
    BY <1>1, <2>1, EntryFacts, Zenon
  <2> QED BY <2>2, <1>1, <1>2, IngestFacts DEF Outcome, Pop
<1>4. PICK r \in Reactions(ev) :
          /\ eq' = (eq \ {ev}) \cup Arrivals(Scheduled(r.out, ev.time), Len(sent))
          /\ sent' = sent \o Scheduled(r.out, ev.time)
  BY DEF Deliver
<1>5. /\ Scheduled(r.out, ev.time) \in Seq(Introduction)
      /\ \A a \in Arrivals(Scheduled(r.out, ev.time), Len(sent)) : ev.time <= a.time
  BY ReplyTypes
<1>6. ev.node = NodeID(ev.b.dest) /\ ID(ev.b) \notin Host(ev).seen
  BY <1>1 DEF IsDelivered, IsDuplicate
<1> QED BY <1>3, <1>4, <1>5, <1>6

LEMMA DropOutcome ==
    ASSUME NEW ev \in Event, DropDuplicate(ev) \/ DropExpired(ev) \/ Strand(ev)
    PROVE \E kind \in Ends \ {"delivered"} :
            Outcome(ev, kind) /\ eq' = eq \ {ev} /\ sent' = sent
<1>1. PICK kind \in Ends \ {"delivered"} :
          /\ Drop(ev, kind)
          /\ IsStored(ev.node, Host(ev), ev.b, ev.time) <=> kind = "undeliverable"
  <2>1. CASE DropDuplicate(ev)
    <3>1. ~IsStored(ev.node, Host(ev), ev.b, ev.time) /\ Drop(ev, "duplicate")
      BY <2>1 DEF DropDuplicate, IsStored
    <3> QED BY <3>1 DEF Ends
  <2>2. CASE DropExpired(ev)
    <3>1. ~IsStored(ev.node, Host(ev), ev.b, ev.time) /\ Drop(ev, "expired")
      BY <2>2 DEF DropExpired, IsStored, IsExpired
    <3> QED BY <3>1 DEF Ends
  <2>3. CASE Strand(ev)
    BY <2>3 DEF Strand, Ends
  <2> QED BY <2>1, <2>2, <2>3
<1>2. /\ nodes' = Ingested(ev) /\ log' = log \cup Entries(ev, kind)
      /\ Pop(ev) /\ eq' = eq \ {ev} /\ sent' = sent
  BY <1>1 DEF Drop
<1>3. Outcome(ev, kind)
  BY <1>1, <1>2, IngestFacts, EntryFacts DEF Outcome, Pop
<1> QED BY <1>2, <1>3

\* A node that takes a bundle in has not stored it before, so that Dequeue
\* leaves its store as it was.
LEMMA ForwardOutcome ==
    ASSUME KeptIsSeen, NEW ev \in Event, Forward(ev)
    PROVE /\ Outcome(ev, "forwarded") /\ sent' = sent
          /\ \E at \in Time, to \in Node :
               /\ ev.time <= at
               /\ eq' = (eq \ {ev}) \cup {Arrival(at, to, ev.b, FALSE, ev.copy)}
<1> DEFINE id == ID(ev.b)
           taken == AfterIngest(ev.node, Host(ev), ev.b, ev.time)
<1>1. PICK c \in Hops(ev) :
         /\ nodes' = [Ingested(ev) EXCEPT ![ev.node] = AfterDequeue(@, id)]
         /\ eq' = (eq \ {ev}) \cup
                  {Arrival(ArrivalTime(c, ev.time, ev.b.size), c.to, ev.b, FALSE, ev.copy)}
         /\ log' = log \cup Injected(ev)
                       \cup {[kind |-> "forwarded", copy |-> ev.copy,
                              node |-> ev.node, time |-> ev.time, via |-> c]}
  BY DEF Forward
<1>2. IsStored(ev.node, Host(ev), ev.b, ev.time) /\ Pop(ev) /\ sent' = sent
  BY DEF Forward
<1>3. id \notin DOMAIN Host(ev).store
  <2>1. id \notin Host(ev).seen
    BY <1>2 DEF IsStored, IsDuplicate
  <2> QED BY <2>1, HostFacts DEF KeptIsSeen
<1>4. /\ AfterDequeue(taken, id).seen = taken.seen
      /\ DOMAIN AfterDequeue(taken, id).store = DOMAIN taken.store \ {id}
  BY DEF AfterDequeue, AfterIngest, Delete
<1> HIDE DEF taken, id
<1>5. /\ nodes'[ev.node].seen = Host(ev).seen \cup {id}
      /\ DOMAIN nodes'[ev.node].store = DOMAIN Host(ev).store
      /\ DOMAIN nodes' = DOMAIN nodes \cup {ev.node}
      /\ \A x \in DOMAIN nodes \ {ev.node} : nodes'[x] = nodes[x]
      /\ nodes' = [x \in DOMAIN nodes' |-> nodes'[x]]
  <2> DEFINE ns == Ingested(ev)
  <2>1. /\ ns = [x \in DOMAIN ns |-> ns[x]] /\ DOMAIN ns = DOMAIN nodes \cup {ev.node}
        /\ \A x \in DOMAIN nodes \ {ev.node} : ns[x] = nodes[x]
        /\ ns[ev.node] = taken /\ taken.seen = Host(ev).seen \cup {id}
        /\ DOMAIN taken.store = DOMAIN Host(ev).store \cup {id}
    BY <1>2, IngestFacts DEF taken, id
  <2>2. nodes' = [ns EXCEPT ![ev.node] = AfterDequeue(ns[ev.node], id)]
    BY <1>1
  <2> HIDE DEF ns
  <2>3. /\ nodes'[ev.node] = AfterDequeue(taken, id) /\ DOMAIN nodes' = DOMAIN ns
        /\ \A x \in DOMAIN nodes \ {ev.node} : nodes'[x] = nodes[x]
        /\ nodes' = [x \in DOMAIN nodes' |-> nodes'[x]]
    BY <2>1, <2>2
  <2> QED BY <1>3, <1>4, <2>1, <2>3
<1>6. \E new :
         /\ log' = log \cup new
         /\ \A l \in new : /\ l.copy = ev.copy /\ l.node = ev.node
                           /\ l.kind \in {"injected", "forwarded"}
         /\ \E l \in new : l.kind = "forwarded"
  <2> DEFINE hop == [kind |-> "forwarded", copy |-> ev.copy,
                     node |-> ev.node, time |-> ev.time, via |-> c]
  <2>1. hop.copy = ev.copy /\ hop.node = ev.node /\ hop.kind = "forwarded"
    OBVIOUS
  <2>2. \A l \in Injected(ev) : l.copy = ev.copy /\ l.node = ev.node /\ l.kind = "injected"
    BY DEF Injected, Entry
  <2>3. log' = log \cup (Injected(ev) \cup {hop})
    BY <1>1
  <2> DEFINE new == Injected(ev) \cup {hop}
  <2> HIDE DEF hop
  <2>4. /\ \A l \in new : /\ l.copy = ev.copy /\ l.node = ev.node
                           /\ l.kind \in {"injected", "forwarded"}
        /\ \E l \in new : l.kind = "forwarded"
    BY <2>1, <2>2
  <2> QED BY <2>3, <2>4
<1>7. Outcome(ev, "forwarded")
  BY <1>2, <1>5, <1>6 DEF Outcome, Pop, id
<1> QED BY <1>1, <1>2, <1>7, HopTypes

-----------------------------------------------------------------------------
\* What the stores hold and what the nodes have seen, after any turn.
LEMMA TurnKeepsStores ==
    ASSUME MeshInv, NEW ev \in eq, NEW kind, Outcome(ev, kind), kind # "injected",
           kind = "delivered" => ev.node = NodeID(ev.b.dest),
           DOMAIN sent \subseteq DOMAIN sent', \A k \in DOMAIN sent : sent'[k] = sent[k]
    PROVE /\ StoresHoldStranded' /\ KeptIsSeen'
          /\ nodes' = [x \in DOMAIN nodes' |-> nodes'[x]] /\ DOMAIN nodes' \subseteq Node
          /\ \A l \in log' : l.copy \in DOMAIN sent' /\ l.node \in DOMAIN nodes'
<1> DEFINE id == ID(ev.b)
           host == Host(ev)
           stored == IF kind = "undeliverable" THEN {id} ELSE {}
           Stranded(x, L, S) ==
              {ID(S[l.copy].b) : l \in {m \in L : m.kind = "undeliverable" /\ m.node = x}}
<1>1. PICK new :
         /\ log' = log \cup new
         /\ \A l \in new : /\ l.copy = ev.copy /\ l.node = ev.node
                           /\ l.kind \in {"injected", kind}
         /\ \E l \in new : l.kind = kind
  BY DEF Outcome
<1>2. /\ ev \in Event /\ ev.copy \in DOMAIN sent /\ ev.b = sent[ev.copy].b
      /\ ev.node \in Node
  BY Alone DEF Event
<1>3. /\ \A l \in log : l.copy \in DOMAIN sent /\ l.node \in DOMAIN nodes
      /\ DOMAIN nodes \subseteq Node
  BY DEF MeshInv, TypeOK
<1>4. /\ nodes' = [x \in DOMAIN nodes' |-> nodes'[x]]
      /\ DOMAIN nodes' = DOMAIN nodes \cup {ev.node}
      /\ \A x \in DOMAIN nodes \ {ev.node} : nodes'[x] = nodes[x]
      /\ nodes'[ev.node].seen = host.seen \cup {id}
      /\ DOMAIN nodes'[ev.node].store = DOMAIN host.store \cup stored
  BY DEF Outcome
<1>5. \A l \in log' : l.copy \in DOMAIN sent' /\ l.node \in DOMAIN nodes'
  BY <1>1, <1>2, <1>3, <1>4
<1>6. \A x \in DOMAIN nodes : DOMAIN nodes[x].store = Stranded(x, log, sent)
  BY DEF MeshInv, StoresHoldStranded
<1>7. Stranded(ev.node, new, sent') = stored
  BY <1>1, <1>2
<1>8. \A x : x # ev.node => Stranded(x, new, sent') = {}
  BY <1>1
<1>9. \A x : Stranded(x, log', sent') = Stranded(x, log, sent) \cup Stranded(x, new, sent')
  <2>1. \A x : Stranded(x, log, sent') = Stranded(x, log, sent)
    BY <1>3
  <2>2. \A x : Stranded(x, log', sent') = Stranded(x, log, sent') \cup Stranded(x, new, sent')
    BY <1>1
  <2> QED BY <2>1, <2>2
<1>10. DOMAIN host.store = Stranded(ev.node, log, sent)
  <2>1. CASE ev.node \in DOMAIN nodes
    BY <2>1, <1>6, HostFacts
  <2>2. CASE ev.node \notin DOMAIN nodes
    <3>1. Stranded(ev.node, log, sent) = {}
      BY <2>2, <1>3
    <3> QED BY <2>2, <3>1, HostFacts
  <2> QED BY <2>1, <2>2
<1> HIDE DEF Stranded, host, stored, id
<1>11. \A x \in DOMAIN nodes' : DOMAIN nodes'[x].store = Stranded(x, log', sent')
  <2> TAKE x \in DOMAIN nodes'
  <2>0. Stranded(x, log', sent') = Stranded(x, log, sent) \cup Stranded(x, new, sent')
    BY <1>9
  <2>1. CASE x = ev.node
    BY <2>0, <2>1, <1>4, <1>7, <1>10
  <2>2. CASE x # ev.node
    <3>1. x \in DOMAIN nodes /\ nodes'[x] = nodes[x]
      BY <2>2, <1>4
    <3>2. Stranded(x, new, sent') = {}
      BY <2>2, <1>8
    <3> QED BY <2>0, <3>1, <3>2, <1>6
  <2> QED BY <2>1, <2>2
<1>12. StoresHoldStranded'
  BY <1>11 DEF StoresHoldStranded, Stranded
<1>13. KeptIsSeen'
  <2>1. /\ \A x \in DOMAIN nodes : DOMAIN nodes[x].store \subseteq nodes[x].seen
        /\ \A l \in log : l.kind = "delivered" => /\ l.node = NodeID(sent[l.copy].b.dest)
                                                 /\ ID(sent[l.copy].b) \in nodes[l.node].seen
    BY DEF MeshInv, KeptIsSeen
  <2>2. /\ DOMAIN host.store \subseteq host.seen
        /\ ev.node \in DOMAIN nodes => nodes[ev.node].seen = host.seen
    BY <2>1, HostFacts DEF host
  <2>3. stored \subseteq {id}
    BY DEF stored
  <2>4. \A x \in DOMAIN nodes' : DOMAIN nodes'[x].store \subseteq nodes'[x].seen
    BY <1>4, <2>1, <2>2, <2>3
  <2>5. \A x \in DOMAIN nodes : nodes[x].seen \subseteq nodes'[x].seen
    BY <1>4, <2>2
  <2>6. ASSUME NEW l \in log', l.kind = "delivered"
        PROVE /\ l.node = NodeID(sent'[l.copy].b.dest)
              /\ ID(sent'[l.copy].b) \in nodes'[l.node].seen
    <3>1. CASE l \in log
      BY <3>1, <2>1, <2>5, <2>6, <1>3
    <3>2. CASE l \in new
      <4>1. l.copy = ev.copy /\ l.node = ev.node /\ kind = "delivered"
        BY <3>2, <2>6, <1>1
      <4> QED BY <4>1, <1>2, <1>4 DEF id
    <3> QED BY <3>1, <3>2, <1>1
  <2> QED BY <2>4, <2>6 DEF KeptIsSeen
<1> QED BY <1>2, <1>3, <1>4, <1>5, <1>12, <1>13

-----------------------------------------------------------------------------
\* A turn gives the copy that it takes off the queue an end, or none if the
\* bundle is forwarded, and leaves the ends of other copies alone.
LEMMA TurnEnds ==
    ASSUME MeshInv, NEW ev \in eq, NEW kind \in Ends \cup {"forwarded"}, Outcome(ev, kind),
           NEW k
    PROVE EndsOf(k)' = IF k = ev.copy /\ kind \in Ends THEN {Entry(ev, kind)} ELSE EndsOf(k)
<1>1. PICK new :
         /\ log' = log \cup new
         /\ \A l \in new : l.copy = ev.copy /\ l.kind \in {"injected", kind}
         /\ {l \in new : l.kind = kind} = {Entry(ev, kind)} \/ kind = "forwarded"
  BY DEF Outcome
<1> DEFINE added == {l \in new : l.copy = k /\ l.kind \in Ends}
<1>2. EndsOf(k)' = EndsOf(k) \cup added
  BY <1>1 DEF EndsOf
<1>3. "injected" \notin Ends /\ "forwarded" \notin Ends
  BY DEF Ends
<1>4. added = IF k = ev.copy /\ kind \in Ends THEN {Entry(ev, kind)} ELSE {}
  <2>1. CASE k = ev.copy /\ kind \in Ends
    <3>1. added = {l \in new : l.kind = kind}
      BY <2>1, <1>1, <1>3
    <3> QED BY <2>1, <3>1, <1>1, <1>3
  <2>2. CASE ~(k = ev.copy /\ kind \in Ends)
    BY <2>2, <1>1, <1>3
  <2> QED BY <2>1, <2>2
<1>5. k = ev.copy => EndsOf(k) = {}
  BY Alone
<1> HIDE DEF added
<1> QED BY <1>2, <1>4, <1>5

LEMMA InitInv == Init => MeshInv
<1> SUFFICES ASSUME Init PROVE MeshInv
  OBVIOUS
<1>1. TypeOK
  <2>1. nodes = [x \in DOMAIN nodes |-> nodes[x]] /\ DOMAIN nodes \subseteq Node
    BY MeshAssumption DEF Init
  <2>2. pending \in Seq(Introduction) /\ sent \in Seq(Introduction)
    BY DEF Init
  <2> QED BY <2>1, <2>2 DEF Init, TypeOK
<1>2. Custodians
  BY DEF Init, Custodians
<1>3. StoresHoldStranded
  BY DEF Init, StoresHoldStranded, NewNode, EmptyMap
<1>4. KeptIsSeen
  BY DEF Init, KeptIsSeen, NewNode, EmptyMap
<1> QED BY <1>1, <1>2, <1>3, <1>4 DEF MeshInv, IdleIsEmpty, Init

LEMMA InjectInv ==
    ASSUME MeshInv, NEW in \in Introduction, Inject(in)
    PROVE MeshInv'
<1>1. /\ nodes' = AddNode(nodes, in.node) /\ pending' = Append(pending, in)
      /\ sent' = sent /\ eq' = eq /\ log' = log /\ abandoned' = abandoned /\ running' = running
  BY DEF Inject
<1>2. in \in Introduction /\ in.node \in Node
  BY DEF Introduction
<1>3. /\ DOMAIN nodes' = DOMAIN nodes \cup {in.node}
      /\ nodes' = [x \in DOMAIN nodes' |-> nodes'[x]]
      /\ \A x \in DOMAIN nodes : nodes'[x] = nodes[x]
      /\ \A x \in DOMAIN nodes' \ DOMAIN nodes : DOMAIN nodes'[x].store = {}
  BY <1>1 DEF AddNode, NewNode, EmptyMap
<1>4. TypeOK'
  BY <1>1, <1>2, <1>3 DEF MeshInv, TypeOK
<1>5. Custodians'
  BY <1>1 DEF MeshInv, Custodians, FlightsOf, EndsOf, LostOf
<1>6. \A l \in log : l.node \in DOMAIN nodes
  BY DEF MeshInv, TypeOK
<1>7. StoresHoldStranded'
  <2>1. \A x \in DOMAIN nodes' \ DOMAIN nodes :
           {ID(sent[l.copy].b) : l \in {m \in log : m.kind = "undeliverable" /\ m.node = x}} = {}
    BY <1>6
  <2> QED BY <1>1, <1>3, <2>1 DEF MeshInv, StoresHoldStranded
<1>8. KeptIsSeen'
  BY <1>1, <1>3, <1>6 DEF MeshInv, KeptIsSeen
<1>9. IdleIsEmpty'
  BY <1>1 DEF MeshInv, IdleIsEmpty
<1> QED BY <1>4, <1>5, <1>7, <1>8, <1>9 DEF MeshInv

LEMMA RunInv ==
    ASSUME MeshInv, Run PROVE MeshInv'
<1>1. /\ nodes' = nodes /\ pending' = pending /\ running' = TRUE
      /\ log' = log /\ abandoned' = abandoned
      /\ sent' = sent \o pending /\ eq' = {} \cup Arrivals(pending, Len(sent))
      /\ eq = {} /\ pending \in Seq(Introduction)
  BY DEF Run, MeshInv, IdleIsEmpty, TypeOK
<1>2. /\ sent' \in Seq(Introduction) /\ eq' \subseteq Event
      /\ DOMAIN sent \subseteq DOMAIN sent' /\ \A k \in DOMAIN sent : sent'[k] = sent[k]
      /\ \A ev \in eq' \cup abandoned' : ev.copy \in DOMAIN sent'
      /\ \A ev \in eq' : ev.b = sent'[ev.copy].b
      /\ \A k \in DOMAIN sent : /\ FlightsOf(k)' = FlightsOf(k) \cap {}
                                /\ LostOf(k)' = LostOf(k)
      /\ \A k \in DOMAIN sent' \ DOMAIN sent :
           /\ \E a \in FlightsOf(k)' : FlightsOf(k)' = {a}
           /\ LostOf(k)' = {} /\ EndsOf(k) = {}
  BY <1>1, JoinKeepsCustody DEF MeshInv
<1>3. \A k : EndsOf(k)' = EndsOf(k)
  BY <1>1 DEF EndsOf
<1>4. TypeOK'
  BY <1>1, <1>2 DEF MeshInv, TypeOK
<1>5. Custodians'
  <2>1. \A k \in DOMAIN sent : FlightsOf(k) = {}
    BY <1>1 DEF FlightsOf
  <2>2. ASSUME NEW k \in DOMAIN sent' PROVE AtOnePlace(FlightsOf(k), EndsOf(k), LostOf(k))'
    <3>1. CASE k \in DOMAIN sent
      BY <3>1, <1>2, <1>3, <2>1 DEF MeshInv, Custodians, AtOnePlace
    <3>2. CASE k \notin DOMAIN sent
      BY <3>2, <1>2, <1>3 DEF AtOnePlace
    <3> QED BY <3>1, <3>2
  <2> QED BY <1>2, <2>2 DEF Custodians
<1>6. \A l \in log : l.copy \in DOMAIN sent
  BY DEF MeshInv, TypeOK
<1>7. StoresHoldStranded'
  <2>1. \A x : {ID(sent'[l.copy].b) : l \in {m \in log : m.kind = "undeliverable" /\ m.node = x}}
                = {ID(sent[l.copy].b) : l \in {m \in log : m.kind = "undeliverable" /\ m.node = x}}
    BY <1>2, <1>6
  <2> QED BY <1>1, <2>1 DEF MeshInv, StoresHoldStranded
<1>8. KeptIsSeen'
  BY <1>1, <1>2, <1>6 DEF MeshInv, KeptIsSeen
<1>9. IdleIsEmpty'
  BY <1>1 DEF IdleIsEmpty
<1> QED BY <1>4, <1>5, <1>7, <1>8, <1>9 DEF MeshInv

LEMMA DeliverInv ==
    ASSUME MeshInv, NEW ev \in eq, Deliver(ev) PROVE MeshInv'
<1>1. /\ Outcome(ev, "delivered") /\ ev.node = NodeID(ev.b.dest)
      /\ \E new \in Seq(Introduction) :
               /\ eq' = (eq \ {ev}) \cup Arrivals(new, Len(sent))
               /\ sent' = sent \o new
  BY Alone, DeliverOutcome
<1>2. PICK new \in Seq(Introduction) : /\ eq' = (eq \ {ev}) \cup Arrivals(new, Len(sent))
                                       /\ sent' = sent \o new
  BY <1>1
<1>3. running' = running /\ running /\ pending' = pending /\ abandoned' = abandoned
  BY <1>1 DEF Outcome
<1>4. /\ sent' \in Seq(Introduction) /\ eq' \subseteq Event
      /\ DOMAIN sent \subseteq DOMAIN sent' /\ \A k \in DOMAIN sent : sent'[k] = sent[k]
      /\ \A e \in eq' \cup abandoned' : e.copy \in DOMAIN sent'
      /\ \A e \in eq' : e.b = sent'[e.copy].b
      /\ \A k \in DOMAIN sent : /\ FlightsOf(k)' = FlightsOf(k) \cap (eq \ {ev})
                                /\ LostOf(k)' = LostOf(k)
      /\ \A k \in DOMAIN sent' \ DOMAIN sent :
           /\ \E a \in FlightsOf(k)' : FlightsOf(k)' = {a}
           /\ LostOf(k)' = {} /\ EndsOf(k) = {}
  BY <1>2, <1>3, JoinKeepsCustody DEF MeshInv
<1>5. /\ StoresHoldStranded' /\ KeptIsSeen'
      /\ nodes' = [x \in DOMAIN nodes' |-> nodes'[x]] /\ DOMAIN nodes' \subseteq Node
      /\ \A l \in log' : l.copy \in DOMAIN sent' /\ l.node \in DOMAIN nodes'
  BY <1>1, <1>4, TurnKeepsStores
<1>6. TypeOK'
  BY <1>3, <1>4, <1>5 DEF MeshInv, TypeOK
<1>7. "delivered" \in Ends
  BY DEF Ends
<1>8. \A k : EndsOf(k)' = IF k = ev.copy THEN {Entry(ev, "delivered")} ELSE EndsOf(k)
  BY <1>1, <1>7, TurnEnds
<1>9. ASSUME NEW k \in DOMAIN sent' PROVE AtOnePlace(FlightsOf(k), EndsOf(k), LostOf(k))'
  <2>1. CASE k = ev.copy
    <3>1. FlightsOf(k)' = {} /\ LostOf(k)' = {}
      BY <2>1, <1>4, Alone
    <3> QED BY <2>1, <3>1, <1>8 DEF AtOnePlace
  <2>2. CASE k \in DOMAIN sent /\ k # ev.copy
    <3>1. FlightsOf(k) \subseteq eq \ {ev}
      BY <2>2 DEF FlightsOf
    <3>2. FlightsOf(k)' = FlightsOf(k) /\ LostOf(k)' = LostOf(k) /\ EndsOf(k)' = EndsOf(k)
      BY <2>2, <3>1, <1>4, <1>8
    <3> QED BY <2>2, <3>2 DEF MeshInv, Custodians, AtOnePlace
  <2>3. CASE k \notin DOMAIN sent
    BY <2>3, <1>4, <1>8, Alone DEF AtOnePlace
  <2> QED BY <2>1, <2>2, <2>3
<1>10. Custodians'
  BY <1>4, <1>9 DEF Custodians
<1> QED BY <1>3, <1>5, <1>6, <1>10 DEF MeshInv, IdleIsEmpty

LEMMA DropInv ==
    ASSUME MeshInv, NEW ev \in eq, DropDuplicate(ev) \/ DropExpired(ev) \/ Strand(ev)
    PROVE MeshInv'
<1>1. PICK kind \in Ends \ {"delivered"} : Outcome(ev, kind) /\ eq' = eq \ {ev} /\ sent' = sent
  BY Alone, DropOutcome
<1>2. running' = running /\ running /\ pending' = pending /\ abandoned' = abandoned
  BY <1>1 DEF Outcome
<1>3. kind # "injected" /\ kind # "delivered"
  BY DEF Ends
<1>4. /\ StoresHoldStranded' /\ KeptIsSeen'
      /\ nodes' = [x \in DOMAIN nodes' |-> nodes'[x]] /\ DOMAIN nodes' \subseteq Node
      /\ \A l \in log' : l.copy \in DOMAIN sent' /\ l.node \in DOMAIN nodes'
  BY <1>1, <1>3, TurnKeepsStores
<1>5. TypeOK'
  BY <1>1, <1>2, <1>4 DEF MeshInv, TypeOK
<1>6. \A k : EndsOf(k)' = IF k = ev.copy THEN {Entry(ev, kind)} ELSE EndsOf(k)
  BY <1>1, TurnEnds
<1>7. \A k : LostOf(k)' = LostOf(k) /\ FlightsOf(k)' = FlightsOf(k) \ {ev}
  BY <1>1, <1>2 DEF LostOf, FlightsOf
<1>8. ASSUME NEW k \in DOMAIN sent PROVE AtOnePlace(FlightsOf(k), EndsOf(k), LostOf(k))'
  <2>1. CASE k = ev.copy
    BY <2>1, <1>6, <1>7, Alone DEF AtOnePlace
  <2>2. CASE k # ev.copy
    <3>1. FlightsOf(k)' = FlightsOf(k)
      BY <2>2, <1>7 DEF FlightsOf
    <3> QED BY <2>2, <3>1, <1>6, <1>7 DEF MeshInv, Custodians, AtOnePlace
  <2> QED BY <2>1, <2>2
<1>9. Custodians'
  BY <1>1, <1>2, <1>8 DEF MeshInv, Custodians
<1> QED BY <1>2, <1>4, <1>5, <1>9 DEF MeshInv, IdleIsEmpty

LEMMA ForwardInv ==
    ASSUME MeshInv, NEW ev \in eq, Forward(ev) PROVE MeshInv'
<1>1. /\ Outcome(ev, "forwarded") /\ sent' = sent
      /\ \E at \in Time, to \in Node :
               eq' = (eq \ {ev}) \cup {Arrival(at, to, ev.b, FALSE, ev.copy)}
  BY Alone, ForwardOutcome DEF MeshInv
<1>2. PICK at \in Time, to \in Node :
               eq' = (eq \ {ev}) \cup {Arrival(at, to, ev.b, FALSE, ev.copy)}
  BY <1>1
<1>3. running' = running /\ running /\ pending' = pending /\ abandoned' = abandoned
  BY <1>1 DEF Outcome
<1>4. /\ StoresHoldStranded' /\ KeptIsSeen'
      /\ nodes' = [x \in DOMAIN nodes' |-> nodes'[x]] /\ DOMAIN nodes' \subseteq Node
      /\ \A l \in log' : l.copy \in DOMAIN sent' /\ l.node \in DOMAIN nodes'
  BY <1>1, TurnKeepsStores
<1> DEFINE next == Arrival(at, to, ev.b, FALSE, ev.copy)
<1>5. next \in Event /\ next.copy = ev.copy /\ next.b = ev.b
  BY Alone DEF Arrival, Event
<1>6. eq' = (eq \ {ev}) \cup {next}
  BY <1>2
<1> HIDE DEF next
<1>7. TypeOK'
  BY <1>1, <1>3, <1>4, <1>5, <1>6 DEF MeshInv, TypeOK
<1>8. "forwarded" \notin Ends
  BY DEF Ends
<1>9. \A k : EndsOf(k)' = EndsOf(k)
  BY <1>1, <1>8, TurnEnds
<1>10. \A k : LostOf(k)' = LostOf(k)
  BY <1>3 DEF LostOf
<1>11. \A k : FlightsOf(k)' = IF k = ev.copy THEN {next} ELSE FlightsOf(k)
  <2> TAKE k
  <2>1. FlightsOf(k)' = (FlightsOf(k) \ {ev}) \cup (IF k = ev.copy THEN {next} ELSE {})
    BY <1>5, <1>6 DEF FlightsOf
  <2>2. k # ev.copy => ev \notin FlightsOf(k)
    BY DEF FlightsOf
  <2> QED BY <2>1, <2>2, Alone
<1>12. ASSUME NEW k \in DOMAIN sent PROVE AtOnePlace(FlightsOf(k), EndsOf(k), LostOf(k))'
  <2>1. CASE k = ev.copy
    BY <2>1, <1>9, <1>10, <1>11, Alone DEF AtOnePlace
  <2>2. CASE k # ev.copy
    BY <2>2, <1>9, <1>10, <1>11 DEF MeshInv, Custodians, AtOnePlace
  <2> QED BY <2>1, <2>2
<1>13. Custodians'
  BY <1>1, <1>3, <1>5, <1>6, <1>12, Alone DEF MeshInv, Custodians
<1> QED BY <1>3, <1>4, <1>7, <1>13 DEF MeshInv, IdleIsEmpty

LEMMA BreakOffInv ==
    ASSUME MeshInv, BreakOff PROVE MeshInv'
<1>1. /\ eq' = {} /\ abandoned' = abandoned \cup eq /\ running' = FALSE
      /\ UNCHANGED <<nodes, pending, sent, log>>
  BY DEF BreakOff
<1>2. TypeOK'
  BY <1>1 DEF MeshInv, TypeOK
<1>3. \A k : FlightsOf(k)' = {} /\ EndsOf(k)' = EndsOf(k) /\ LostOf(k)' = LostOf(k) \cup FlightsOf(k)
  BY <1>1 DEF FlightsOf, EndsOf, LostOf
<1>4. \A k \in DOMAIN sent : AtOnePlace(FlightsOf(k), EndsOf(k), LostOf(k))'
  <2> TAKE k \in DOMAIN sent
  <2>1. AtOnePlace(FlightsOf(k), EndsOf(k), LostOf(k))
    BY DEF MeshInv, Custodians
  <2> QED BY <2>1, <1>3 DEF AtOnePlace
<1>5. Custodians'
  BY <1>1, <1>4 DEF MeshInv, Custodians
<1>6. StoresHoldStranded' /\ KeptIsSeen' /\ IdleIsEmpty'
  BY <1>1 DEF MeshInv, StoresHoldStranded, KeptIsSeen, IdleIsEmpty
<1> QED BY <1>2, <1>5, <1>6 DEF MeshInv

LEMMA IdleInv ==
    ASSUME MeshInv, Finish \/ UNCHANGED vars PROVE MeshInv'
<1>1. /\ UNCHANGED <<nodes, pending, sent, log, eq, abandoned>>
      /\ (~running' => eq = {}) /\ running' \in BOOLEAN
  BY DEF Finish, vars, MeshInv, IdleIsEmpty, TypeOK
<1>2. TypeOK'
  BY <1>1 DEF MeshInv, TypeOK
<1>3. Custodians'
  BY <1>1 DEF MeshInv, Custodians, FlightsOf, EndsOf, LostOf
<1>4. StoresHoldStranded' /\ KeptIsSeen' /\ IdleIsEmpty'
  BY <1>1 DEF MeshInv, StoresHoldStranded, KeptIsSeen, IdleIsEmpty
<1> QED BY <1>2, <1>3, <1>4 DEF MeshInv

LEMMA NextInv == MeshInv /\ [Next]_vars => MeshInv'
BY MeshAssumption, InjectInv, RunInv, DeliverInv, DropInv, ForwardInv, BreakOffInv, IdleInv
   DEF Next, Loop, Turn

\* The inductive invariant of the mesh.
THEOREM MeshCorrect == Spec => []MeshInv
BY InitInv, NextInv, PTL DEF Spec

\* sim.Run: whatever the plan, the handlers and the injections, and however
\* often runs are broken off and repeated, every copy of a bundle is in the
\* event queue once, or has one end in the trace, or went with the queue of a
\* run that was broken off.
THEOREM OneCustodianAlways == Spec => []OneCustodian
<1>1. MeshInv => OneCustodian
  <2> SUFFICES ASSUME MeshInv, NEW k \in DOMAIN sent
               PROVE Cardinality(FlightsOf(k)) + Cardinality(EndsOf(k)) + Cardinality(LostOf(k)) = 1
    BY DEF MeshInv, Custodians, OneCustodian
  <2>1. AtOnePlace(FlightsOf(k), EndsOf(k), LostOf(k))
    BY DEF MeshInv, Custodians
  <2>2. ASSUME NEW S, \E e \in S : S = {e} PROVE Cardinality(S) = 1
    BY <2>2, FS_Singleton
  <2>3. ASSUME NEW S, S = {} PROVE Cardinality(S) = 0
    BY <2>3, FS_EmptySet
  <2> QED BY <2>1, <2>2, <2>3 DEF AtOnePlace
<1> QED BY <1>1, MeshCorrect, PTL

\* Node.Dequeue and the undeliverable entries of Run: what a node stores is
\* exactly what the trace says was stranded there.
THEOREM StoresAlwaysHoldStranded == Spec => []StoresHoldStranded
BY MeshCorrect, PTL DEF MeshInv

\* The event queue of Run: arrivals are scheduled no earlier than the one that
\* is being handled, by a forwarding node or by a handler with a clock of its
\* own, so that the trace is in order of time.
THEOREM TraceStaysInOrder == Spec => TraceInOrder
<1>1. ASSUME MeshInv, Next, running, running', NEW ev \in eq \ eq', NEW later \in eq'
      PROVE ev.time <= later.time
  <2>1. \A e \in eq : e \in Event /\ e.time \in Int
    BY <1>1 DEF MeshInv, TypeOK, Event, Time
  <2>2. PICK e \in eq : Turn(e)
    BY <1>1 DEF Next, Inject, Run, Loop, Finish, BreakOff
  <2>3. \A other \in eq : e.time <= other.time
    BY <2>2 DEF Turn, Deliver, DropDuplicate, DropExpired, Strand, Drop, Forward, Pop
  <2>4. /\ eq \ {e} \subseteq eq'
        /\ \A a \in eq' : a \in eq \/ e.time <= a.time
    <3>1. CASE Deliver(e)
      <4>1. \E new \in Seq(Introduction) :
               /\ eq' = (eq \ {e}) \cup Arrivals(new, Len(sent))
               /\ \A a \in Arrivals(new, Len(sent)) : e.time <= a.time
        BY <2>1, <3>1, DeliverOutcome
      <4> QED BY <4>1
    <3>2. CASE DropDuplicate(e) \/ DropExpired(e) \/ Strand(e)
      BY <2>1, <3>2, DropOutcome
    <3>3. CASE Forward(e)
      <4>1. PICK at \in Time, to \in Node :
               /\ e.time <= at
               /\ eq' = (eq \ {e}) \cup {Arrival(at, to, e.b, FALSE, e.copy)}
        BY <1>1, <2>1, <3>3, ForwardOutcome DEF MeshInv
      <4> QED BY <4>1 DEF Arrival
    <3> QED BY <2>2, <3>1, <3>2, <3>3 DEF Turn
  <2>5. ev = e
    BY <1>1, <2>4
  <2> QED BY <1>1, <2>3, <2>4, <2>5
<1>2. MeshInv /\ [Next]_vars =>
        [running /\ running' => \A ev \in eq \ eq', later \in eq' : ev.time <= later.time]_vars
  BY <1>1
<1> QED BY <1>2, MeshCorrect, PTL DEF Spec, TraceInOrder

-----------------------------------------------------------------------------
(***************************************************************************)
(* Routes are consistent from hop to hop                                   *)
(***************************************************************************)
\* Introductions join the queue as they were sent.
LEMMA JoinAsSent ==
    ASSUME NEW old \in Seq(Introduction), NEW new \in Seq(Introduction)
    PROVE \A a \in Arrivals(new, Len(old)) : a.injected /\ (old \o new)[a.copy] = AsIfSent(a)
<1> SUFFICES ASSUME NEW i \in DOMAIN new, NEW a,
                    a = Arrival(new[i].at, new[i].node, new[i].b, TRUE, Len(old) + i)
             PROVE a.injected /\ (old \o new)[a.copy] = AsIfSent(a)
  BY DEF Arrivals
<1>1. a.injected /\ a.copy = Len(old) + i
      /\ AsIfSent(a) = [node |-> new[i].node, b |-> new[i].b, at |-> new[i].at]
  BY DEF Arrival, AsIfSent
<1>2. Len(old) \in Nat /\ i \in 1..Len(new) /\ Len(new) \in Nat /\ new[i] \in Introduction
  OBVIOUS
<1>3. (old \o new)[Len(old) + i] = new[i]
  <2>1. Len(old) + i \in 1..(Len(old) + Len(new)) /\ ~(Len(old) + i <= Len(old))
        /\ Len(old) + i - Len(old) = i
    BY <1>2
  <2> QED BY <2>1, ConcatProperties
<1>4. new[i] = [node |-> new[i].node, b |-> new[i].b, at |-> new[i].at]
  BY <1>2 DEF Introduction
<1> QED BY <1>1, <1>3, <1>4

LEMMA RouteOf ==
    ASSUME NEW node, NEW b, NEW at
    PROVE /\ Reachable([node |-> node, b |-> b, at |-> at])
               <=> Reaches(Table(Plan, node, b.size, at), NodeID(b.dest))
          /\ Eta([node |-> node, b |-> b, at |-> at])
               = Label(Table(Plan, node, b.size, at), NodeID(b.dest))
<1> DEFINE i == [node |-> node, b |-> b, at |-> at]
<1>1. i.node = node /\ i.b = b /\ i.at = at
  OBVIOUS
<1> HIDE DEF i
<1>2. Reachable(i) <=> Reaches(Table(Plan, node, b.size, at), NodeID(b.dest))
  BY <1>1 DEF Reachable
<1>3. Eta(i) = Label(Table(Plan, node, b.size, at), NodeID(b.dest))
  BY <1>1 DEF Eta
<1> QED BY <1>2, <1>3 DEF i

\* At the destination there is nothing left to travel.
LEMMA NothingLeft ==
    ASSUME NEW ev \in Event, ev.node = NodeID(ev.b.dest)
    PROVE Reachable(AsIfSent(ev)) /\ Eta(AsIfSent(ev)) = ev.time
<1> DEFINE table == Table(Plan, ev.node, ev.b.size, ev.time)
           start == [node |-> ev.node, arrival |-> ev.time]
<1>1. ev.node \in Node /\ ev.b.size \in Nat /\ ev.time \in Time /\ Plan \in ContactPlan
  BY MeshAssumption DEF Event, BundleType
<1>2. Labelled(table, ev.time) /\ start \in table
  BY <1>1, TableIsClosed
<1>3. Reaches(table, start.node) /\ Label(table, start.node) = start.arrival
  BY <1>2, LabelOfEntry
<1>4. Reaches(table, NodeID(ev.b.dest)) /\ Label(table, NodeID(ev.b.dest)) = ev.time
  BY <1>3
<1> QED BY <1>4, RouteOf DEF AsIfSent

\* The next hop carries the bundle, and leads as early to the destination.
LEMMA HopKeepsRoute ==
    ASSUME NEW ev \in Event, NEW c \in Hops(ev), NEW next,
           next = Arrival(ArrivalTime(c, ev.time, ev.b.size), c.to, ev.b, FALSE, ev.copy)
    PROVE /\ Carries(c, ev.time, ev.b.size)
          /\ Reachable(AsIfSent(ev)) /\ Reachable(AsIfSent(next))
          /\ Eta(AsIfSent(next)) = Eta(AsIfSent(ev))
<1> DEFINE dest == NodeID(ev.b.dest)
           table == Table(Plan, ev.node, ev.b.size, ev.time)
           onward == Table(Plan, c.to, ev.b.size, ArrivalTime(c, ev.time, ev.b.size))
<1>1. /\ ev.node \in Node /\ ev.b.size \in Nat /\ ev.time \in Time /\ Plan \in ContactPlan
      /\ dest \in Node
  BY MeshAssumption DEF Event, BundleType, EndpointID, NodeID
<1>2. c \in FirstHops(Plan, ev.node, dest, ev.b.size, ev.time)
  BY DEF Hops
<1>3. /\ Carries(c, ev.time, ev.b.size) /\ Reaches(table, dest) /\ Reaches(onward, dest)
      /\ Label(onward, dest) = Label(table, dest)
  BY <1>1, <1>2, RoutesConsistent
<1>4. /\ AsIfSent(ev) = [node |-> ev.node, b |-> ev.b, at |-> ev.time]
      /\ AsIfSent(next) = [node |-> c.to, b |-> ev.b, at |-> ArrivalTime(c, ev.time, ev.b.size)]
  BY DEF AsIfSent, Arrival
<1>5. /\ Reachable(AsIfSent(ev)) <=> Reaches(table, dest)
      /\ Reachable(AsIfSent(next)) <=> Reaches(onward, dest)
      /\ Eta(AsIfSent(ev)) = Label(table, dest) /\ Eta(AsIfSent(next)) = Label(onward, dest)
  BY <1>4, RouteOf
<1> HIDE DEF table, onward, dest
<1> QED BY <1>3, <1>5

\* Where a bundle is stranded no route exists.
LEMMA StrandedHasNoRoute ==
    ASSUME NEW ev \in Event, Strand(ev) PROVE ~Reachable(AsIfSent(ev))
<1>1. /\ ev.node \in Node /\ ev.b.size \in Nat /\ ev.time \in Time /\ Plan \in ContactPlan
      /\ NodeID(ev.b.dest) \in Node
  BY MeshAssumption DEF Event, BundleType, EndpointID, NodeID
<1>2. Hops(ev) = {}
  <2>1. \A c \in Hops(ev) : Carries(c, ev.time, ev.b.size)
    BY HopKeepsRoute
  <2> QED BY <2>1 DEF Strand
<1>3. NodeID(ev.b.dest) # ev.node
  BY DEF Strand, IsStored
<1>4. ~Reaches(Table(Plan, ev.node, ev.b.size, ev.time), NodeID(ev.b.dest))
  BY <1>1, <1>2, <1>3, RouteExists DEF Hops
<1> QED BY <1>4, RouteOf DEF AsIfSent

RouteOK == EntersAsSent /\ NoHopLosesTime /\ StrandedOnlyAtEntry /\ DeliveredOnTime

\* A bundle on its way gets to its destination when it always would.
LEMMA OnItsWay ==
    ASSUME RouteInv, NEW ev \in eq
    PROVE /\ Reachable(AsIfSent(ev)) <=> Reachable(sent[ev.copy])
          /\ Eta(AsIfSent(ev)) = Eta(sent[ev.copy])
          /\ ~Reachable(sent[ev.copy]) => sent[ev.copy] = AsIfSent(ev)
BY DEF RouteInv, EntersAsSent, NoHopLosesTime

\* What the queue and the trace say of a copy stays true as long as it does.
LEMMA RouteStays ==
    ASSUME RouteInv, DOMAIN sent \subseteq DOMAIN sent',
           \A k \in DOMAIN sent : sent'[k] = sent[k],
           \A ev \in eq' : ev \in eq \/ (ev.injected /\ sent'[ev.copy] = AsIfSent(ev))
                          \/ /\ Reachable(sent'[ev.copy]) /\ Reachable(AsIfSent(ev))
                             /\ Eta(AsIfSent(ev)) = Eta(sent'[ev.copy])
                             /\ ~ev.injected,
           \A l \in log' : \/ l \in log \/ l.kind \notin {"delivered", "undeliverable"}
                          \/ /\ l.kind = "delivered"
                             /\ Reachable(sent'[l.copy]) /\ l.time = Eta(sent'[l.copy])
                          \/ /\ l.kind = "undeliverable"
                             /\ l.node = sent'[l.copy].node /\ ~Reachable(sent'[l.copy])
    PROVE RouteOK'
<1>1. /\ \A ev \in eq : ev.copy \in DOMAIN sent
      /\ \A l \in log : l.copy \in DOMAIN sent
  BY DEF RouteInv, MeshInv, TypeOK, Custodians
<1>2. EntersAsSent'
  BY <1>1 DEF RouteInv, EntersAsSent
<1>3. NoHopLosesTime'
  <2>1. \A ev \in eq : ~ev.injected =>
           /\ Reachable(sent[ev.copy]) /\ Reachable(AsIfSent(ev))
           /\ Eta(AsIfSent(ev)) = Eta(sent[ev.copy])
    BY DEF RouteInv, NoHopLosesTime
  <2> SUFFICES ASSUME NEW ev \in eq', ~ev.injected
               PROVE /\ Reachable(sent'[ev.copy]) /\ Reachable(AsIfSent(ev))
                     /\ Eta(AsIfSent(ev)) = Eta(sent'[ev.copy])
    BY DEF NoHopLosesTime
  <2> QED BY <1>1, <2>1
<1>4. StrandedOnlyAtEntry'
  BY <1>1 DEF RouteInv, StrandedOnlyAtEntry
<1>5. DeliveredOnTime'
  BY <1>1 DEF RouteInv, DeliveredOnTime
<1> QED BY <1>2, <1>3, <1>4, <1>5 DEF RouteOK

LEMMA RunOnRoute == ASSUME RouteInv, Run PROVE RouteOK'
<1>1. /\ sent' = sent \o pending /\ eq' = Arrivals(pending, Len(sent)) /\ log' = log
      /\ sent \in Seq(Introduction) /\ pending \in Seq(Introduction)
  BY DEF Run, RouteInv, MeshInv, TypeOK
<1>2. \A a \in eq' : a.injected /\ sent'[a.copy] = AsIfSent(a)
  BY <1>1, JoinAsSent
<1>3. DOMAIN sent \subseteq DOMAIN sent' /\ \A k \in DOMAIN sent : sent'[k] = sent[k]
  <2>1. /\ DOMAIN sent \subseteq DOMAIN (sent \o pending)
        /\ \A k \in DOMAIN sent : (sent \o pending)[k] = sent[k]
    BY <1>1, JoinFacts, Zenon
  <2> QED BY <1>1, <2>1
<1> QED BY <1>1, <1>2, <1>3, RouteStays

LEMMA DeliverOnRoute == ASSUME RouteInv, NEW ev \in eq, Deliver(ev) PROVE RouteOK'
<1>0. ev \in Event /\ ev.copy \in DOMAIN sent /\ sent \in Seq(Introduction)
  BY Alone DEF RouteInv, MeshInv, TypeOK
<1>1. /\ ev.node = NodeID(ev.b.dest)
      /\ \E new \in Seq(Introduction) : /\ eq' = (eq \ {ev}) \cup Arrivals(new, Len(sent))
                                       /\ sent' = sent \o new
  BY <1>0, DeliverOutcome
<1>2. PICK new \in Seq(Introduction) : /\ eq' = (eq \ {ev}) \cup Arrivals(new, Len(sent))
                                       /\ sent' = sent \o new
  BY <1>1
<1>3. \A a \in Arrivals(new, Len(sent)) : a.injected /\ sent'[a.copy] = AsIfSent(a)
  BY <1>0, <1>2, JoinAsSent
<1>4. DOMAIN sent \subseteq DOMAIN sent' /\ \A k \in DOMAIN sent : sent'[k] = sent[k]
  <2>1. /\ DOMAIN sent \subseteq DOMAIN (sent \o new)
        /\ \A k \in DOMAIN sent : (sent \o new)[k] = sent[k]
    BY <1>0, JoinFacts, Zenon
  <2> QED BY <1>2, <2>1
<1>5. Reachable(sent[ev.copy]) /\ Eta(sent[ev.copy]) = ev.time
  BY <1>0, <1>1, NothingLeft, OnItsWay
<1>6. log' = log \cup Entries(ev, "delivered")
  BY DEF Deliver
<1>7. \A l \in Entries(ev, "delivered") :
         \/ l.kind = "injected"
         \/ l.kind = "delivered" /\ l.copy = ev.copy /\ l.time = ev.time
  BY DEF Entries, Injected, Entry
<1> QED BY <1>0, <1>2, <1>3, <1>4, <1>5, <1>6, <1>7, RouteStays

LEMMA DropOnRoute ==
    ASSUME RouteInv, NEW ev \in eq, DropDuplicate(ev) \/ DropExpired(ev) \/ Strand(ev)
    PROVE RouteOK'
<1>0. ev \in Event /\ ev.copy \in DOMAIN sent
  BY Alone DEF RouteInv
<1>1. PICK kind \in {"duplicate", "expired", "undeliverable"} :
         /\ Drop(ev, kind) /\ (kind = "undeliverable" => Strand(ev))
  BY DEF DropDuplicate, DropExpired, Strand
<1>2. /\ eq' = eq \ {ev} /\ sent' = sent /\ log' = log \cup Entries(ev, kind)
  BY <1>1 DEF Drop
<1>3. kind = "undeliverable" => ev.node = sent[ev.copy].node /\ ~Reachable(sent[ev.copy])
  <2> SUFFICES ASSUME Strand(ev)
               PROVE ev.node = sent[ev.copy].node /\ ~Reachable(sent[ev.copy])
    BY <1>1
  <2>1. ~Reachable(sent[ev.copy]) /\ sent[ev.copy] = AsIfSent(ev)
    BY <1>0, StrandedHasNoRoute, OnItsWay
  <2> QED BY <2>1 DEF AsIfSent
<1>4. \A l \in Entries(ev, kind) :
         l.kind = "injected" \/ (l.kind = kind /\ l.copy = ev.copy /\ l.node = ev.node)
  BY DEF Entries, Injected, Entry
<1> QED BY <1>0, <1>2, <1>3, <1>4, RouteStays

LEMMA ForwardOnRoute == ASSUME RouteInv, NEW ev \in eq, Forward(ev) PROVE RouteOK'
<1>0. ev \in Event /\ ev.copy \in DOMAIN sent
  BY Alone DEF RouteInv
<1>1. PICK c \in Hops(ev) :
         /\ eq' = (eq \ {ev}) \cup
                  {Arrival(ArrivalTime(c, ev.time, ev.b.size), c.to, ev.b, FALSE, ev.copy)}
         /\ log' = log \cup Injected(ev)
                       \cup {[kind |-> "forwarded", copy |-> ev.copy,
                              node |-> ev.node, time |-> ev.time, via |-> c]}
         /\ sent' = sent
  BY DEF Forward
<1> DEFINE next == Arrival(ArrivalTime(c, ev.time, ev.b.size), c.to, ev.b, FALSE, ev.copy)
           hop == [kind |-> "forwarded", copy |-> ev.copy,
                   node |-> ev.node, time |-> ev.time, via |-> c]
<1>2. next.copy = ev.copy /\ ~next.injected /\ hop.kind = "forwarded"
  BY DEF Arrival
<1>3. \A l \in Injected(ev) : l.kind = "injected"
  BY DEF Injected, Entry
<1>4. /\ Reachable(AsIfSent(ev)) /\ Reachable(AsIfSent(next))
      /\ Eta(AsIfSent(next)) = Eta(AsIfSent(ev))
  BY <1>0, HopKeepsRoute
<1>5. Reachable(sent[ev.copy]) /\ Eta(AsIfSent(next)) = Eta(sent[ev.copy])
  BY <1>4, OnItsWay
<1>6. eq' = (eq \ {ev}) \cup {next} /\ log' = log \cup Injected(ev) \cup {hop} /\ sent' = sent
  BY <1>1
<1> HIDE DEF next, hop
<1> QED BY <1>0, <1>2, <1>3, <1>4, <1>5, <1>6, RouteStays

LEMMA OthersOnRoute ==
    ASSUME RouteInv, (\E in \in Injections : Inject(in)) \/ Finish \/ BreakOff \/ UNCHANGED vars
    PROVE RouteOK'
<1>1. sent' = sent /\ log' = log /\ eq' \subseteq eq
  BY DEF Inject, Finish, BreakOff, vars
<1> QED BY <1>1, RouteStays

LEMMA RouteInvInductive ==
    /\ Init => RouteInv
    /\ RouteInv /\ [Next]_vars => RouteInv'
<1>1. Init => RouteOK
  BY DEF Init, RouteOK, EntersAsSent, NoHopLosesTime, StrandedOnlyAtEntry, DeliveredOnTime
<1>2. RouteInv /\ [Next]_vars => RouteOK'
  BY RunOnRoute, DeliverOnRoute, DropOnRoute, ForwardOnRoute, OthersOnRoute DEF Next, Loop, Turn
<1>3. RouteInv <=> MeshInv /\ RouteOK
  BY DEF RouteInv, RouteOK
<1>4. RouteInv' <=> MeshInv' /\ RouteOK'
  BY DEF RouteInv, RouteOK
<1> QED BY <1>1, <1>2, <1>3, <1>4, InitInv, NextInv

\* The forwarding node computes a route afresh at every hop, with FindRoute:
\* for any contact plan these routes fit together.
THEOREM RoutesFitTogether == Spec => []RouteInv
BY RouteInvInductive, PTL DEF Spec

\* Wherever a copy is on its way, its destination can still be reached, exactly
\* as early as when the bundle entered the mesh.
THEOREM NoHopEverLosesTime == Spec => []NoHopLosesTime
BY RoutesFitTogether, PTL DEF RouteInv

\* A bundle that the trace calls undeliverable is where it was injected, and
\* had no route from the beginning.
THEOREM NeverStrandedHalfway == Spec => []StrandedOnlyAtEntry
BY RoutesFitTogether, PTL DEF RouteInv

\* What is delivered is delivered at the instant its first route said.
THEOREM AlwaysOnTime == Spec => []DeliveredOnTime
BY RoutesFitTogether, PTL DEF RouteInv

-----------------------------------------------------------------------------
(***************************************************************************)
(* What a caller is promised, and how many events a run has                *)
(***************************************************************************)
\* The copies that a node passed on, with that node, and those that have ended.
PassedOn == {<<l.copy, l.node>> : l \in {m \in log : m.kind = "forwarded"}}

Over == {l.copy : l \in {m \in log : m.kind \in Ends}}

\* A run has no more events than there are both.
EventsAreUsed == processed \in Nat /\ processed <= Cardinality(PassedOn) + Cardinality(Over)

\* What a node has seen came to it and was no duplicate then.
First(l, x, id) ==
    l.node = x /\ ID(sent[l.copy].b) = id
    /\ l.kind \in {"forwarded", "delivered", "expired", "undeliverable"}

SeenIsLogged ==
    /\ \A l \in log : l.kind = "forwarded" => ID(sent[l.copy].b) \in nodes[l.node].seen
    /\ \A x \in DOMAIN nodes : \A id \in nodes[x].seen : \E l \in log : First(l, x, id)
    /\ \A d \in log : d.kind = "duplicate" =>
         \E l \in log : First(l, d.node, ID(sent[d.copy].b))

\* Bundles are delivered in time, and expire no later than they would arrive.
EndsInTime ==
    \A l \in log :
        /\ l.kind = "delivered" => ~Expired(sent[l.copy].b, l.time)
        /\ l.kind = "expired" =>
             /\ l.time \in Int /\ Expired(sent[l.copy].b, l.time)
             /\ Reachable(sent[l.copy]) =>
                  Eta(sent[l.copy]) \in Int /\ l.time <= Eta(sent[l.copy])

\* A node that had passed the copy on got it back.
LedBack(k) ==
    \E l, d \in log : /\ l.copy = k /\ d.copy = k /\ l.node = d.node
                      /\ l.kind = "forwarded" /\ d.kind = "duplicate"

NobodyLedBack == \A k \in DOMAIN sent : Unique(k) => ~LedBack(k)

PromiseInv == EventsAreUsed /\ SeenIsLogged /\ EndsInTime

\* A turn adds to the log an entry of its kind, and perhaps that the bundle
\* was injected.
LEMMA TurnLogs ==
    ASSUME NEW ev, NEW kind \in Ends \cup {"forwarded"}, Outcome(ev, kind)
    PROVE /\ log \subseteq log'
          /\ \A l \in log' \ log : /\ l.copy = ev.copy /\ l.node = ev.node
                                   /\ l.kind \in {"injected", kind}
          /\ \E l \in log' : l.copy = ev.copy /\ l.node = ev.node /\ l.kind = kind
<1>1. PICK new :
         /\ log' = log \cup new
         /\ \A l \in new : /\ l.copy = ev.copy /\ l.node = ev.node
                           /\ l.kind \in {"injected", kind}
         /\ \E l \in new : l.kind = kind
  BY DEF Outcome
<1> QED BY <1>1

\* Pairs of elements of finite sets are finitely many.
LEMMA PairsAreFew ==
    ASSUME NEW S, NEW T, IsFiniteSet(S), IsFiniteSet(T),
           NEW P, \A p \in P : \E s \in S, t \in T : p = <<s, t>>
    PROVE /\ IsFiniteSet(P) /\ Cardinality(P) \in Nat
          /\ Cardinality(P) <= Cardinality(S) * Cardinality(T)
<1>1. IsFiniteSet(S \X T) /\ Cardinality(S \X T) = Cardinality(S) * Cardinality(T)
  BY FS_Product
<1>2. P \in SUBSET (S \X T)
  OBVIOUS
<1> QED BY <1>1, <1>2, FS_Subset, FS_CardinalityType

\* A turn uses up one pair of a copy and a node that passes it on, or the copy.
LEMMA TurnIsUsed ==
    ASSUME MeshInv, EventsAreUsed, SeenIsLogged, IsFiniteSet(Node),
           NEW ev \in eq, NEW kind \in Ends \cup {"forwarded"}, Outcome(ev, kind),
           kind # "duplicate" => ID(ev.b) \notin Host(ev).seen,
           processed' = processed + 1
    PROVE EventsAreUsed'
<1>1. /\ ev.copy \in DOMAIN sent /\ ev.b = sent[ev.copy].b /\ EndsOf(ev.copy) = {}
  BY Alone
<1>2. /\ \A l \in log : l.copy \in DOMAIN sent /\ l.node \in DOMAIN nodes
      /\ DOMAIN nodes \subseteq Node /\ sent \in Seq(Introduction)
  BY DEF MeshInv, TypeOK
<1>3. IsFiniteSet(DOMAIN sent) /\ IsFiniteSet(PassedOn) /\ IsFiniteSet(Over)
  <2>1. IsFiniteSet(DOMAIN sent)
    BY <1>2, FS_Interval
  <2>2. \A l \in log : l.copy \in DOMAIN sent /\ l.node \in Node
    BY <1>2
  <2>3. IsFiniteSet(PassedOn)
    <3>1. \A p \in PassedOn : \E k \in DOMAIN sent, x \in Node : p = <<k, x>>
      BY <2>2 DEF PassedOn
    <3> QED BY <2>1, <3>1, PairsAreFew
  <2>4. Over \in SUBSET DOMAIN sent
    BY <2>2 DEF Over
  <2> QED BY <2>1, <2>3, <2>4, FS_Subset
<1>4. Cardinality(PassedOn) \in Nat /\ Cardinality(Over) \in Nat
  BY <1>3, FS_CardinalityType
<1>5. "forwarded" \notin Ends /\ "injected" \notin Ends
  BY DEF Ends
<1>6. /\ log \subseteq log'
      /\ \A l \in log' \ log : l.copy = ev.copy /\ l.node = ev.node /\ l.kind \in {"injected", kind}
      /\ \E l \in log' : l.copy = ev.copy /\ l.node = ev.node /\ l.kind = kind
  BY TurnLogs
<1>7. CASE kind = "forwarded"
  <2> DEFINE pair == <<ev.copy, ev.node>>
  <2>1. PassedOn' = PassedOn \cup {pair}
    <3>1. PassedOn \cup {pair} \subseteq PassedOn'
      BY <1>6, <1>7 DEF PassedOn
    <3>2. PassedOn' \subseteq PassedOn \cup {pair}
      BY <1>6 DEF PassedOn
    <3> QED BY <3>1, <3>2
  <2>2. Over' = Over
    BY <1>5, <1>6, <1>7 DEF Over
  <2>3. pair \notin PassedOn
    <3> SUFFICES ASSUME NEW l \in log, l.kind = "forwarded", l.copy = ev.copy, l.node = ev.node
                 PROVE FALSE
      BY DEF PassedOn
    <3>1. ID(ev.b) \in nodes[ev.node].seen
      BY <1>1 DEF SeenIsLogged
    <3>2. Host(ev) = nodes[ev.node]
      BY <1>2, HostFacts
    <3> QED BY <1>7, <3>1, <3>2
  <2>4. Cardinality(PassedOn') = Cardinality(PassedOn) + 1
    BY <1>3, <2>1, <2>3, FS_AddElement
  <2> QED BY <1>4, <2>2, <2>4 DEF EventsAreUsed
<1>8. CASE kind \in Ends
  <2>1. Over' = Over \cup {ev.copy}
    <3>1. Over \cup {ev.copy} \subseteq Over'
      BY <1>6, <1>8 DEF Over
    <3>2. Over' \subseteq Over \cup {ev.copy}
      BY <1>6 DEF Over
    <3> QED BY <3>1, <3>2
  <2>2. PassedOn' = PassedOn
    BY <1>5, <1>6, <1>8 DEF PassedOn
  <2>3. ev.copy \notin Over
    BY <1>1 DEF Over, EndsOf
  <2>4. Cardinality(Over') = Cardinality(Over) + 1
    BY <1>3, <2>1, <2>3, FS_AddElement
  <2> QED BY <1>4, <2>2, <2>4 DEF EventsAreUsed
<1> QED BY <1>7, <1>8

\* A node that has not been used has seen nothing.
LEMMA HostSeen ==
    ASSUME NEW ev
    PROVE Host(ev).seen = IF ev.node \in DOMAIN nodes THEN nodes[ev.node].seen ELSE {}
<1>1. ev.node \notin DOMAIN nodes => Host(ev) = NewNode
  BY DEF Host, AddNode
<1>2. NewNode.seen = {}
  BY DEF NewNode
<1> QED BY <1>1, <1>2, HostFacts

\* The log of a turn tells where the bundle was seen.
LEMMA TurnIsLogged ==
    ASSUME MeshInv, SeenIsLogged,
           NEW ev \in eq, NEW kind \in Ends \cup {"forwarded"}, Outcome(ev, kind),
           kind = "duplicate" <=> ID(ev.b) \in Host(ev).seen,
           DOMAIN sent \subseteq DOMAIN sent', \A k \in DOMAIN sent : sent'[k] = sent[k]
    PROVE SeenIsLogged'
<1>1. ev.copy \in DOMAIN sent /\ ev.b = sent[ev.copy].b
  BY Alone
<1>2. \A l \in log : l.copy \in DOMAIN sent /\ l.node \in DOMAIN nodes
  BY DEF MeshInv, TypeOK
<1>3. /\ log \subseteq log'
      /\ \A l \in log' \ log : l.copy = ev.copy /\ l.node = ev.node /\ l.kind \in {"injected", kind}
  BY TurnLogs
<1>4. PICK e \in log' : e.copy = ev.copy /\ e.node = ev.node /\ e.kind = kind
  BY TurnLogs
<1>5. /\ DOMAIN nodes' = DOMAIN nodes \cup {ev.node}
      /\ \A x \in DOMAIN nodes \ {ev.node} : nodes'[x] = nodes[x]
      /\ nodes'[ev.node].seen = Host(ev).seen \cup {ID(ev.b)}
  BY DEF Outcome
<1>6. \A x \in DOMAIN nodes : nodes[x].seen \subseteq nodes'[x].seen
  BY <1>5, HostSeen
<1>7. \A l \in log' : l.copy \in DOMAIN sent /\ sent'[l.copy] = sent[l.copy]
  BY <1>1, <1>2, <1>3
<1>8. ASSUME NEW l \in log, NEW x, NEW id, First(l, x, id)
      PROVE l \in log' /\ First(l, x, id)'
  BY <1>3, <1>7, <1>8 DEF First
<1>9. kind # "duplicate" => First(e, ev.node, ID(ev.b))'
  BY <1>1, <1>4, <1>7 DEF First, Ends
<1>10. ASSUME NEW l \in log', l.kind = "forwarded"
       PROVE ID(sent'[l.copy].b) \in nodes'[l.node].seen
  <2>1. CASE l \in log
    BY <2>1, <1>2, <1>6, <1>7, <1>10 DEF SeenIsLogged
  <2>2. CASE l \notin log
    BY <2>2, <1>1, <1>3, <1>5, <1>7
  <2> QED BY <2>1, <2>2
<1>11. ASSUME NEW x \in DOMAIN nodes', NEW id \in nodes'[x].seen
       PROVE \E l \in log' : First(l, x, id)'
  <2>1. CASE x \in DOMAIN nodes /\ id \in nodes[x].seen
    BY <2>1, <1>8 DEF SeenIsLogged
  <2>2. CASE ~(x \in DOMAIN nodes /\ id \in nodes[x].seen)
    <3>1. x = ev.node /\ id = ID(ev.b) /\ id \notin Host(ev).seen
      BY <2>2, <1>5, <1>11, HostSeen
    <3> QED BY <3>1, <1>9
  <2> QED BY <2>1, <2>2
<1>12. ASSUME NEW d \in log', d.kind = "duplicate"
       PROVE \E l \in log' : First(l, d.node, ID(sent[d.copy].b))'
  <2>1. CASE d \in log
    BY <2>1, <1>7, <1>8, <1>12 DEF SeenIsLogged
  <2>2. CASE d \notin log
    <3>1. d.node = ev.node /\ d.copy = ev.copy /\ kind = "duplicate"
      BY <2>2, <1>3, <1>12
    <3>2. ev.node \in DOMAIN nodes' /\ ID(ev.b) \in nodes'[ev.node].seen
      BY <1>5
    <3> QED BY <3>1, <3>2, <1>1, <1>11
  <2> QED BY <2>1, <2>2
<1> QED BY <1>10, <1>11, <1>12 DEF SeenIsLogged

\* No label is earlier than the start.
LEMMA EtaNotEarly ==
    ASSUME NEW ev \in Event, Reachable(AsIfSent(ev))
    PROVE Eta(AsIfSent(ev)) \in Int /\ ev.time <= Eta(AsIfSent(ev))
<1> DEFINE table == Table(Plan, ev.node, ev.b.size, ev.time)
<1>1. ev.node \in Node /\ ev.b.size \in Nat /\ ev.time \in Time /\ Plan \in ContactPlan
  BY MeshAssumption DEF Event, BundleType
<1>2. Labelled(table, ev.time)
  BY <1>1, TableIsClosed
<1>3. Reaches(table, NodeID(ev.b.dest)) /\ Eta(AsIfSent(ev)) = Label(table, NodeID(ev.b.dest))
  BY RouteOf DEF AsIfSent
<1> HIDE DEF table
<1>4. PICK p \in table : p.arrival = Label(table, NodeID(ev.b.dest))
  BY <1>3, EntryOfLabel
<1> QED BY <1>2, <1>3, <1>4 DEF Labelled, TableEntry, Time

\* What the log says of deliveries and expiry stays true.
LEMMA EndsStayInTime ==
    ASSUME MeshInv, EndsInTime,
           DOMAIN sent \subseteq DOMAIN sent', \A k \in DOMAIN sent : sent'[k] = sent[k],
           \A l \in log' \ log :
              /\ l.kind = "delivered" => ~Expired(sent'[l.copy].b, l.time)
              /\ l.kind = "expired" =>
                   /\ l.time \in Int /\ Expired(sent'[l.copy].b, l.time)
                   /\ Reachable(sent'[l.copy]) =>
                        Eta(sent'[l.copy]) \in Int /\ l.time <= Eta(sent'[l.copy])
    PROVE EndsInTime'
<1>1. \A l \in log : l.copy \in DOMAIN sent /\ sent'[l.copy] = sent[l.copy]
  BY DEF MeshInv, TypeOK
<1> SUFFICES ASSUME NEW l \in log'
             PROVE /\ l.kind = "delivered" => ~Expired(sent'[l.copy].b, l.time)
                   /\ l.kind = "expired" =>
                        /\ l.time \in Int /\ Expired(sent'[l.copy].b, l.time)
                        /\ Reachable(sent'[l.copy]) =>
                             Eta(sent'[l.copy]) \in Int /\ l.time <= Eta(sent'[l.copy])
  BY DEF EndsInTime
<1>2. CASE l \in log
  BY <1>1, <1>2 DEF EndsInTime
<1> QED BY <1>2

LEMMA DeliverKeepsPromise ==
    ASSUME RouteInv, PromiseInv, NEW ev \in eq, Deliver(ev) PROVE PromiseInv'
<1>1. MeshInv /\ ev \in Event /\ ev.copy \in DOMAIN sent /\ ev.b = sent[ev.copy].b
  BY Alone DEF RouteInv
<1>2. Outcome(ev, "delivered") /\ ID(ev.b) \notin Host(ev).seen
  BY <1>1, DeliverOutcome
<1>3. PICK new \in Seq(Introduction) : sent' = sent \o new
  BY <1>1, DeliverOutcome
<1>4. DOMAIN sent \subseteq DOMAIN sent' /\ \A k \in DOMAIN sent : sent'[k] = sent[k]
  <2>1. sent \in Seq(Introduction)
    BY <1>1 DEF MeshInv, TypeOK
  <2>2. /\ DOMAIN sent \subseteq DOMAIN (sent \o new)
        /\ \A k \in DOMAIN sent : (sent \o new)[k] = sent[k]
    BY <2>1, JoinFacts, Zenon
  <2> QED BY <1>3, <2>2
<1>5. processed' = processed + 1 /\ ~Expired(ev.b, ev.time)
      /\ log' = log \cup Entries(ev, "delivered")
  BY DEF Deliver, Pop, IsDelivered
<1>6. \A l \in Entries(ev, "delivered") :
         l.kind = "injected" \/ (l.kind = "delivered" /\ l.copy = ev.copy /\ l.time = ev.time)
  BY DEF Entries, Injected, Entry
<1>7. "delivered" \in Ends
  BY DEF Ends
<1>8. EventsAreUsed' /\ SeenIsLogged'
  BY <1>1, <1>2, <1>4, <1>5, <1>7, TurnIsUsed, TurnIsLogged, NodesAssumption DEF PromiseInv
<1>9. EndsInTime'
  <2>1. \A l \in log' \ log : /\ l.kind = "delivered" => ~Expired(sent'[l.copy].b, l.time)
                              /\ l.kind # "expired"
    BY <1>1, <1>4, <1>5, <1>6
  <2> QED BY <1>1, <1>4, <2>1, EndsStayInTime DEF PromiseInv
<1> QED BY <1>8, <1>9 DEF PromiseInv

LEMMA DropKeepsPromise ==
    ASSUME RouteInv, PromiseInv, NEW ev \in eq,
           DropDuplicate(ev) \/ DropExpired(ev) \/ Strand(ev)
    PROVE PromiseInv'
<1>1. MeshInv /\ ev \in Event /\ ev.copy \in DOMAIN sent /\ ev.b = sent[ev.copy].b
  BY Alone DEF RouteInv
<1>2. PICK kind \in {"duplicate", "expired", "undeliverable"} :
         /\ Drop(ev, kind)
         /\ kind = "duplicate" <=> ID(ev.b) \in Host(ev).seen
         /\ kind = "expired" => Expired(ev.b, ev.time)
         /\ IsStored(ev.node, Host(ev), ev.b, ev.time) <=> kind = "undeliverable"
  BY DEF DropDuplicate, DropExpired, Strand, IsDuplicate, IsExpired, IsStored
<1>3. sent' = sent /\ processed' = processed + 1 /\ log' = log \cup Entries(ev, kind)
      /\ nodes' = Ingested(ev) /\ Pop(ev)
  BY <1>2 DEF Drop, Pop
<1>4. kind \in Ends
  BY <1>2 DEF Ends
<1>5. Outcome(ev, kind)
  <2>1. \E new :
           /\ log' = log \cup new
           /\ \A l \in new : /\ l.copy = ev.copy /\ l.node = ev.node
                             /\ l.kind \in {"injected", kind}
           /\ {l \in new : l.kind = kind} = {Entry(ev, kind)}
           /\ \E l \in new : l.kind = kind
    <3>1. log' = log \cup Entries(ev, kind)
      BY <1>3
    <3>2. /\ \A l \in Entries(ev, kind) : /\ l.copy = ev.copy /\ l.node = ev.node
                                          /\ l.kind \in {"injected", kind}
          /\ {l \in Entries(ev, kind) : l.kind = kind} = {Entry(ev, kind)}
          /\ \E l \in Entries(ev, kind) : l.kind = kind
      BY <1>4, EntryFacts, Zenon
    <3> QED BY <3>1, <3>2
  <2> QED BY <2>1, <1>2, <1>3, IngestFacts DEF Outcome, Pop
<1>6. EventsAreUsed' /\ SeenIsLogged'
  BY <1>1, <1>2, <1>3, <1>4, <1>5, TurnIsUsed, TurnIsLogged, NodesAssumption DEF PromiseInv
<1>7. \A l \in Entries(ev, kind) :
         l.kind = "injected" \/ (l.kind = kind /\ l.copy = ev.copy /\ l.time = ev.time)
  BY DEF Entries, Injected, Entry
<1>8. Reachable(sent[ev.copy]) =>
        Eta(sent[ev.copy]) \in Int /\ ev.time <= Eta(sent[ev.copy])
  BY <1>1, OnItsWay, EtaNotEarly
<1>9. ev.time \in Int
  BY <1>1 DEF Event, Time
<1>10. EndsInTime'
  <2>1. \A l \in log' \ log : l \in Entries(ev, kind)
    BY <1>3
  <2>2. \A l \in log' \ log :
          /\ l.kind # "delivered"
          /\ l.kind = "expired" => l.copy = ev.copy /\ l.time = ev.time /\ Expired(ev.b, ev.time)
    BY <2>1, <1>2, <1>7
  <2> QED BY <1>1, <1>3, <1>8, <1>9, <2>2, EndsStayInTime DEF PromiseInv
<1> QED BY <1>6, <1>10 DEF PromiseInv

LEMMA ForwardKeepsPromise ==
    ASSUME RouteInv, PromiseInv, NEW ev \in eq, Forward(ev) PROVE PromiseInv'
<1>1. MeshInv /\ ev \in Event
  BY Alone DEF RouteInv
<1>2. Outcome(ev, "forwarded") /\ sent' = sent
  BY <1>1, ForwardOutcome DEF MeshInv
<1>3. processed' = processed + 1 /\ ID(ev.b) \notin Host(ev).seen
  BY DEF Forward, Pop, IsStored, IsDuplicate
<1>4. EventsAreUsed' /\ SeenIsLogged'
  BY <1>1, <1>2, <1>3, TurnIsUsed, TurnIsLogged, NodesAssumption DEF PromiseInv
<1>5. \A l \in log' \ log : l.kind \in {"injected", "forwarded"}
  BY <1>2, TurnLogs
<1>6. EndsInTime'
  BY <1>1, <1>2, <1>5, EndsStayInTime DEF PromiseInv
<1> QED BY <1>4, <1>6 DEF PromiseInv

\* Between the turns nothing is logged.
LEMMA OthersKeepPromise ==
    ASSUME RouteInv, PromiseInv,
           (\E in \in Injections : Inject(in)) \/ Run \/ Finish \/ BreakOff \/ UNCHANGED vars
    PROVE PromiseInv'
<1>1. MeshInv /\ log' = log /\ (processed' = processed \/ processed' = 0)
  BY DEF RouteInv, Inject, Run, Finish, BreakOff, vars
<1>2. DOMAIN sent \subseteq DOMAIN sent' /\ \A k \in DOMAIN sent : sent'[k] = sent[k]
  <2>1. CASE Run
    <3>1. sent' = sent \o pending /\ sent \in Seq(Introduction) /\ pending \in Seq(Introduction)
      BY <1>1, <2>1 DEF Run, MeshInv, TypeOK
    <3>2. /\ DOMAIN sent \subseteq DOMAIN (sent \o pending)
          /\ \A k \in DOMAIN sent : (sent \o pending)[k] = sent[k]
      BY <3>1, JoinFacts, Zenon
    <3> QED BY <3>1, <3>2
  <2>2. CASE ~Run
    BY <2>2 DEF Inject, Finish, BreakOff, vars
  <2> QED BY <2>1, <2>2
<1>3. /\ DOMAIN nodes \subseteq DOMAIN nodes'
      /\ \A x \in DOMAIN nodes : nodes'[x] = nodes[x]
      /\ \A x \in DOMAIN nodes' \ DOMAIN nodes : nodes'[x].seen = {}
  <2>1. ASSUME NEW in \in Injections, Inject(in)
        PROVE /\ DOMAIN nodes \subseteq DOMAIN nodes'
              /\ \A x \in DOMAIN nodes : nodes'[x] = nodes[x]
              /\ \A x \in DOMAIN nodes' \ DOMAIN nodes : nodes'[x].seen = {}
    BY <2>1 DEF Inject, AddNode, NewNode
  <2>2. CASE ~ \E in \in Injections : Inject(in)
    BY <2>2 DEF Run, Finish, BreakOff, vars
  <2> QED BY <2>1, <2>2
<1>4. /\ \A l \in log : l.copy \in DOMAIN sent /\ l.node \in DOMAIN nodes
      /\ sent \in Seq(Introduction) /\ DOMAIN nodes \subseteq Node
  BY <1>1 DEF MeshInv, TypeOK
<1>5. EventsAreUsed'
  <2>1. Cardinality(PassedOn) \in Nat /\ Cardinality(Over) \in Nat
    <3>1. IsFiniteSet(DOMAIN sent)
      BY <1>4, FS_Interval
    <3>2. \A p \in PassedOn : \E k \in DOMAIN sent, x \in Node : p = <<k, x>>
      BY <1>4 DEF PassedOn
    <3>3. Over \in SUBSET DOMAIN sent
      BY <1>4 DEF Over
    <3> QED BY <3>1, <3>2, <3>3, PairsAreFew, FS_Subset, FS_CardinalityType, NodesAssumption
  <2>2. PassedOn' = PassedOn /\ Over' = Over
    BY <1>1 DEF PassedOn, Over
  <2> QED BY <1>1, <2>1, <2>2 DEF PromiseInv, EventsAreUsed
<1>6. SeenIsLogged'
  <2>1. \A l \in log : \A x, id : First(l, x, id) => First(l, x, id)'
    BY <1>2, <1>4 DEF First
  <2>2. \A l \in log : l.kind = "forwarded" => ID(sent'[l.copy].b) \in nodes'[l.node].seen
    BY <1>2, <1>3, <1>4 DEF PromiseInv, SeenIsLogged
  <2>3. \A x \in DOMAIN nodes' : \A id \in nodes'[x].seen : \E l \in log' : First(l, x, id)'
    BY <1>1, <1>3, <2>1 DEF PromiseInv, SeenIsLogged
  <2>4. ASSUME NEW d \in log', d.kind = "duplicate"
        PROVE \E l \in log' : First(l, d.node, ID(sent[d.copy].b))'
    BY <1>1, <1>2, <1>4, <2>1, <2>4 DEF PromiseInv, SeenIsLogged
  <2> QED BY <1>1, <2>2, <2>3, <2>4 DEF SeenIsLogged
<1>7. EndsInTime'
  BY <1>1, <1>2, EndsStayInTime DEF PromiseInv
<1> QED BY <1>5, <1>6, <1>7 DEF PromiseInv

LEMMA InitPromise == Init => PromiseInv
<1> SUFFICES ASSUME Init PROVE PromiseInv
  OBVIOUS
<1>1. log = {} /\ processed = 0 /\ nodes = [x \in HandlerNodes |-> NewNode]
  BY DEF Init
<1>2. PassedOn = {} /\ Over = {}
  BY <1>1 DEF PassedOn, Over
<1>3. EventsAreUsed
  BY <1>1, <1>2, FS_EmptySet DEF EventsAreUsed
<1>4. SeenIsLogged
  BY <1>1 DEF SeenIsLogged, NewNode
<1>5. EndsInTime
  BY <1>1 DEF EndsInTime
<1> QED BY <1>3, <1>4, <1>5 DEF PromiseInv

LEMMA PromiseInductive == RouteInv /\ PromiseInv /\ [Next]_vars => PromiseInv'
BY DeliverKeepsPromise, DropKeepsPromise, ForwardKeepsPromise, OthersKeepPromise
   DEF Next, Loop, Turn

\* The events of a run are at most one for each copy and each node that passes
\* it on, and one for its end.
LEMMA EventsAreFew ==
    ASSUME MeshInv, EventsAreUsed PROVE EventsBounded
<1>1. /\ \A l \in log : l.copy \in DOMAIN sent /\ l.node \in Node
      /\ sent \in Seq(Introduction)
  BY DEF MeshInv, TypeOK
<1>2. IsFiniteSet(DOMAIN sent) /\ Cardinality(DOMAIN sent) = Len(sent) /\ Len(sent) \in Nat
  <2>1. DOMAIN sent = 1 .. Len(sent) /\ Len(sent) \in Nat
    BY <1>1
  <2>2. /\ IsFiniteSet(1 .. Len(sent))
        /\ Cardinality(1 .. Len(sent)) = IF 1 > Len(sent) THEN 0 ELSE Len(sent) - 1 + 1
    BY <2>1, FS_Interval
  <2> QED BY <2>1, <2>2
<1>3. Cardinality(PassedOn) \in Nat /\ Cardinality(PassedOn) <= Len(sent) * Cardinality(Node)
  <2>1. \A p \in PassedOn : \E k \in DOMAIN sent, x \in Node : p = <<k, x>>
    BY <1>1 DEF PassedOn
  <2> QED BY <1>2, <2>1, PairsAreFew, NodesAssumption
<1>4. Cardinality(Over) \in Nat /\ Cardinality(Over) <= Len(sent)
  <2>1. Over \in SUBSET DOMAIN sent
    BY <1>1 DEF Over
  <2> QED BY <1>2, <2>1, FS_Subset, FS_CardinalityType
<1>5. Cardinality(Node) \in Nat
  BY NodesAssumption, FS_CardinalityType
<1>6. processed <= Len(sent) * Cardinality(Node) + Len(sent)
  <2>1. Len(sent) * Cardinality(Node) \in Nat
    BY <1>2, <1>5
  <2> HIDE DEF EventsBounded
  <2> QED BY <1>2, <1>3, <1>4, <2>1 DEF EventsAreUsed
<1>7. Len(sent) * Cardinality(Node) + Len(sent) = Len(sent) * (Cardinality(Node) + 1)
  BY <1>2, <1>5
<1> QED BY <1>6, <1>7 DEF EventsBounded

LEMMA DeadlineIsInstant == ASSUME NEW b \in BundleType PROVE Deadline(b) \in Int
<1>1. b.created * TicksPerMs \in Int /\ b.lifetime * TicksPerMs \in Int
  BY BundleAssumption DEF BundleType
<1>2. \A x \in Int : Duration(x) \in Int
  BY BundleAssumption DEF Duration
<1> QED BY <1>1, <1>2 DEF Deadline, FromDTNTime

\* A copy at the end of its way, without another of the same ID, is a
\* duplicate only where it has been itself.
LEMMA CopyArrives ==
    ASSUME RouteInv, PromiseInv, NEW k \in DOMAIN sent,
           FlightsOf(k) = {}, LostOf(k) = {}, Unique(k), ~LedBack(k)
    PROVE IF Reachable(sent[k]) /\ ~Expired(sent[k].b, Eta(sent[k]))
          THEN \E l \in EndsOf(k) : l.kind = "delivered" /\ l.time = Eta(sent[k])
          ELSE \A l \in EndsOf(k) : l.kind # "delivered"
<1>1. PICK l : EndsOf(k) = {l}
  BY DEF RouteInv, MeshInv, Custodians, AtOnePlace
<1>2. l \in log /\ l.copy = k /\ l.kind \in Ends
  BY <1>1 DEF EndsOf
<1>3. \A m \in log : m.copy \in DOMAIN sent
  BY DEF RouteInv, MeshInv, TypeOK
<1>4. l.kind # "duplicate"
  <2> SUFFICES ASSUME l.kind = "duplicate" PROVE FALSE
    OBVIOUS
  <2>1. PICK m \in log : First(m, l.node, ID(sent[l.copy].b))
    BY <1>2 DEF PromiseInv, SeenIsLogged
  <2>2. m.node = l.node /\ m.copy = k
        /\ m.kind \in {"forwarded", "delivered", "expired", "undeliverable"}
    BY <1>2, <1>3, <2>1 DEF First, Unique
  <2>3. m.kind = "forwarded"
    <3>1. m.kind \in Ends => m = l
      BY <1>1, <2>2 DEF EndsOf
    <3> QED BY <2>2, <3>1 DEF Ends
  <2> QED BY <1>2, <2>2, <2>3 DEF LedBack
<1>5. l.kind = "delivered" =>
        Reachable(sent[k]) /\ l.time = Eta(sent[k]) /\ ~Expired(sent[k].b, l.time)
  BY <1>2 DEF RouteInv, DeliveredOnTime, PromiseInv, EndsInTime
<1>6. l.kind = "undeliverable" => ~Reachable(sent[k])
  BY <1>2 DEF RouteInv, StrandedOnlyAtEntry
<1>7. l.kind = "expired" /\ Reachable(sent[k]) => Expired(sent[k].b, Eta(sent[k]))
  <2> SUFFICES ASSUME l.kind = "expired", Reachable(sent[k])
               PROVE Expired(sent[k].b, Eta(sent[k]))
    OBVIOUS
  <2>1. /\ l.time \in Int /\ Expired(sent[k].b, l.time)
        /\ Eta(sent[k]) \in Int /\ l.time <= Eta(sent[k])
    BY <1>2 DEF PromiseInv, EndsInTime
  <2>2. sent[k].b \in BundleType
    <3>1. sent[k] \in Introduction
      BY DEF RouteInv, MeshInv, TypeOK
    <3> QED BY <3>1 DEF Introduction
  <2>3. Deadline(sent[k].b) \in Int
    BY <2>2, DeadlineIsInstant
  <2> QED BY <2>1, <2>3 DEF Expired
<1> QED BY <1>1, <1>2, <1>4, <1>5, <1>6, <1>7 DEF Ends

LEMMA PromiseHolds == RouteInv /\ PromiseInv /\ NobodyLedBack => PromiseKept
<1> SUFFICES ASSUME RouteInv, PromiseInv, NobodyLedBack PROVE PromiseKept
  OBVIOUS
<1>1. EventsBounded
  BY EventsAreFew DEF RouteInv, PromiseInv
<1>2. ArrivesAsRouted
  BY CopyArrives DEF ArrivesAsRouted, NobodyLedBack
<1> QED BY <1>1, <1>2 DEF PromiseKept

\* sim.Run: the cap on events never ends a run before the copies have used up
\* the nodes, whatever the plan, the handlers and the replies.
THEOREM EventsStayBounded == Spec => []EventsBounded
<1>1. Spec => [](RouteInv /\ PromiseInv)
  BY RouteInvInductive, InitPromise, PromiseInductive, PTL DEF Spec
<1>2. RouteInv /\ PromiseInv => EventsBounded
  BY EventsAreFew DEF RouteInv, PromiseInv
<1> QED BY <1>1, <1>2, PTL

\* What a caller of Inject and Run is promised: as long as no node gets back
\* what it had passed on itself, a bundle whose ID is sent once, that has a
\* route and outlives the trip, is delivered at the instant the first route
\* said, and one that cannot be there in time is not.
THEOREM PromiseKeptUnlessLedBack == Spec => [](NobodyLedBack => PromiseKept)
<1>1. Spec => [](RouteInv /\ PromiseInv)
  BY RouteInvInductive, InitPromise, PromiseInductive, PTL DEF Spec
<1> QED BY <1>1, PromiseHolds, PTL

-----------------------------------------------------------------------------
(***************************************************************************)
(* The refinement of Custody                                               *)
(***************************************************************************)
LEMMA WhereaboutsFacts ==
    ASSUME NEW b, NEW e, NEW flights, NEW ends, NEW lost
    PROVE /\ flights = {e} /\ ends = {} /\ lost = {} =>
               Whereabouts(b, flights, ends, lost) = [b |-> b, node |-> e.node, state |-> "moving"]
          /\ flights = {} /\ ends = {e} /\ lost = {} =>
               Whereabouts(b, flights, ends, lost) = [b |-> b, node |-> e.node, state |-> e.kind]
          /\ flights = {} /\ ends = {} /\ lost = {e} =>
               Whereabouts(b, flights, ends, lost) = [b |-> b, node |-> e.node, state |-> "abandoned"]
<1>1. (CHOOSE x \in {e} : TRUE) = e
  OBVIOUS
<1>2. {e} \cup {} \cup {} = {e} /\ {} \cup {e} \cup {} = {e} /\ {} \cup {} \cup {e} = {e}
  OBVIOUS
<1> QED BY <1>1, <1>2 DEF Whereabouts

LEMMA LengthOf ==
    ASSUME NEW s, NEW n \in Nat, s = [k \in 1..n |-> s[k]]
    PROVE Len(s) = n
<1>1. s \in Seq({s[k] : k \in 1..n})
  OBVIOUS
<1>2. Len(s) \in Nat /\ DOMAIN s = 1..Len(s) /\ DOMAIN s = 1..n
  BY <1>1
<1> QED BY <1>2

LEMMA PlaceIsList ==
    ASSUME TypeOK
    PROVE /\ Place = [k \in 1..Len(sent) |-> Place[k]] /\ DOMAIN Place = DOMAIN sent
          /\ Len(sent) \in Nat /\ Len(Place) = Len(sent)
<1>1. sent \in Seq(Introduction)
  BY DEF TypeOK
<1>2. DOMAIN sent = 1..Len(sent) /\ Len(sent) \in Nat
  BY <1>1
<1>3. Place = [k \in DOMAIN sent |-> Place[k]] /\ DOMAIN Place = DOMAIN sent
  BY Zenon DEF Place
<1> QED BY <1>2, <1>3, LengthOf

LEMMA PlaceIsListNext ==
    ASSUME TypeOK'
    PROVE /\ Place' = [k \in 1..Len(sent') |-> Place'[k]] /\ DOMAIN Place' = DOMAIN sent'
          /\ Len(sent') \in Nat /\ Len(Place') = Len(sent')
<1>1. sent' \in Seq(Introduction)
  BY DEF TypeOK
<1>2. DOMAIN sent' = 1..Len(sent') /\ Len(sent') \in Nat
  BY <1>1
<1>3. Place' = [k \in DOMAIN sent' |-> Place'[k]] /\ DOMAIN Place' = DOMAIN sent'
  BY Zenon DEF Place
<1> QED BY <1>2, <1>3, LengthOf

\* Both sides of Joins, as lists.
LEMMA JoinsIf ==
    ASSUME MeshInv, MeshInv', DOMAIN sent \subseteq DOMAIN sent',
           NEW old, old = [k \in 1..Len(sent) |-> old[k]],
           \A k \in DOMAIN sent : Place'[k] = old[k],
           \A k \in DOMAIN sent' \ DOMAIN sent : Place'[k].state = "moving"
    PROVE Promised!Joins(old, Place')
<1>1. /\ DOMAIN Place' = DOMAIN sent' /\ Len(Place') = Len(sent') /\ Len(sent') \in Nat
      /\ sent' \in Seq(Introduction)
  BY PlaceIsListNext DEF MeshInv, TypeOK
<1>2. sent \in Seq(Introduction) /\ Len(sent) \in Nat /\ DOMAIN sent = 1..Len(sent)
  BY DEF MeshInv, TypeOK
<1>3. DOMAIN old = DOMAIN sent /\ Len(old) = Len(sent)
  BY <1>2, LengthOf
<1>4. Len(sent') >= Len(sent)
  BY <1>1, <1>2
<1> QED BY <1>1, <1>3, <1>4 DEF Promised!Joins

\* A copy is moving exactly when it is in the queue.
LEMMA PlaceOf ==
    ASSUME MeshInv, NEW k \in DOMAIN sent
    PROVE /\ Place[k].b = sent[k].b
          /\ Place[k].state = "moving" <=> FlightsOf(k) # {}
          /\ \A e \in FlightsOf(k) : Place[k].node = e.node
          /\ Place[k].state = "delivered" =>
               \E l \in log : l.copy = k /\ l.kind = "delivered" /\ l.node = Place[k].node
<1>1. Place[k] = Whereabouts(sent[k].b, FlightsOf(k), EndsOf(k), LostOf(k))
  BY DEF Place
<1>2. AtOnePlace(FlightsOf(k), EndsOf(k), LostOf(k))
  BY DEF MeshInv, Custodians
<1>3. CASE (\E e \in FlightsOf(k) : FlightsOf(k) = {e}) /\ EndsOf(k) = {} /\ LostOf(k) = {}
  <2>1. PICK e \in FlightsOf(k) : FlightsOf(k) = {e}
    BY <1>3
  <2>2. Place[k] = [b |-> sent[k].b, node |-> e.node, state |-> "moving"]
    BY <1>1, <1>3, <2>1, WhereaboutsFacts
  <2> QED BY <2>1, <2>2
<1>4. CASE FlightsOf(k) = {} /\ (\E l \in EndsOf(k) : EndsOf(k) = {l}) /\ LostOf(k) = {}
  <2>1. PICK l \in EndsOf(k) : EndsOf(k) = {l}
    BY <1>4
  <2>2. l \in log /\ l.copy = k /\ l.kind # "moving"
    BY <2>1 DEF EndsOf, Ends
  <2>3. Place[k] = [b |-> sent[k].b, node |-> l.node, state |-> l.kind]
    BY <1>1, <1>4, <2>1, WhereaboutsFacts
  <2> QED BY <1>4, <2>2, <2>3
<1>5. CASE FlightsOf(k) = {} /\ EndsOf(k) = {} /\ (\E e \in LostOf(k) : LostOf(k) = {e})
  <2>1. PICK e \in LostOf(k) : LostOf(k) = {e}
    BY <1>5
  <2>2. Place[k] = [b |-> sent[k].b, node |-> e.node, state |-> "abandoned"]
    BY <1>1, <1>5, <2>1, WhereaboutsFacts
  <2> QED BY <1>5, <2>2
<1>6. Place[k].b = sent[k].b
  BY <1>1 DEF Whereabouts
<1> QED BY <1>2, <1>3, <1>4, <1>5, <1>6 DEF AtOnePlace

\* A turn that ends a copy ends it where it is, and moves no other.
LEMMA EndInPlace ==
    ASSUME MeshInv, NEW ev \in eq, NEW kind \in Ends, Outcome(ev, kind),
           DOMAIN sent \subseteq DOMAIN sent', \A k \in DOMAIN sent : sent'[k] = sent[k],
           \A k \in DOMAIN sent : FlightsOf(k)' = FlightsOf(k) \ {ev}
    PROVE \A k \in DOMAIN sent :
            Place'[k] = IF k = ev.copy THEN [Place[k] EXCEPT !.state = kind] ELSE Place[k]
<1> TAKE k \in DOMAIN sent
<1>1. Place[k] = Whereabouts(sent[k].b, FlightsOf(k), EndsOf(k), LostOf(k))
  BY DEF Place
<1>2. Place'[k] = Whereabouts(sent[k].b, FlightsOf(k)', EndsOf(k)', LostOf(k)')
  BY DEF Place
<1>3. LostOf(k)' = LostOf(k)
  BY DEF Outcome, LostOf
<1>4. EndsOf(k)' = IF k = ev.copy THEN {Entry(ev, kind)} ELSE EndsOf(k)
  BY TurnEnds
<1>5. CASE k = ev.copy
  <2>1. Place[k] = [b |-> sent[k].b, node |-> ev.node, state |-> "moving"]
    BY <1>1, <1>5, Alone, WhereaboutsFacts
  <2>2. FlightsOf(k)' = {} /\ EndsOf(k)' = {Entry(ev, kind)} /\ LostOf(k)' = {}
    BY <1>3, <1>4, <1>5, Alone
  <2>3. Place'[k] = [b |-> sent[k].b, node |-> Entry(ev, kind).node, state |-> Entry(ev, kind).kind]
    BY <1>2, <2>2, WhereaboutsFacts
  <2> QED BY <1>5, <2>1, <2>3 DEF Entry
<1>6. CASE k # ev.copy
  <2>1. FlightsOf(k)' = FlightsOf(k)
    BY <1>6 DEF FlightsOf
  <2> QED BY <1>1, <1>2, <1>3, <1>4, <1>6, <2>1
<1> QED BY <1>5, <1>6

LEMMA RunAccepts ==
    ASSUME MeshInv, MeshInv', Run PROVE Promised!Accept
<1>1. /\ log' = log /\ abandoned' = abandoned
      /\ sent' = sent \o pending /\ eq' = {} \cup Arrivals(pending, Len(sent))
      /\ eq = {} /\ pending \in Seq(Introduction)
  BY DEF Run, MeshInv, IdleIsEmpty, TypeOK
<1>2. /\ DOMAIN sent \subseteq DOMAIN sent' /\ \A k \in DOMAIN sent : sent'[k] = sent[k]
      /\ \A k \in DOMAIN sent : /\ FlightsOf(k)' = FlightsOf(k) \cap {}
                                /\ LostOf(k)' = LostOf(k)
      /\ \A k \in DOMAIN sent' \ DOMAIN sent : FlightsOf(k)' # {}
  BY <1>1, JoinKeepsCustody DEF MeshInv
<1>3. ASSUME NEW k \in DOMAIN sent PROVE Place'[k] = Place[k]
  <2>1. FlightsOf(k)' = FlightsOf(k) /\ EndsOf(k)' = EndsOf(k) /\ LostOf(k)' = LostOf(k)
    BY <1>1, <1>2 DEF FlightsOf, EndsOf
  <2> QED BY <1>2, <2>1 DEF Place
<1>4. \A k \in DOMAIN sent' \ DOMAIN sent : Place'[k].state = "moving"
  BY <1>2 DEF Place, Whereabouts
<1>5. Place = [k \in 1..Len(sent) |-> Place[k]]
  BY PlaceIsList DEF MeshInv
<1> QED BY <1>2, <1>3, <1>4, <1>5, JoinsIf DEF Promised!Accept

LEMMA DeliverDelivers ==
    ASSUME MeshInv, MeshInv', NEW ev \in eq, Deliver(ev)
    PROVE Promised!Deliver(ev.copy)
<1> DEFINE k == ev.copy
           done == [Place EXCEPT ![k].state = "delivered"]
<1>1. /\ Outcome(ev, "delivered") /\ ev.node = NodeID(ev.b.dest) /\ ID(ev.b) \notin Host(ev).seen
      /\ \E new \in Seq(Introduction) :
               /\ eq' = (eq \ {ev}) \cup Arrivals(new, Len(sent))
               /\ sent' = sent \o new
  BY Alone, DeliverOutcome
<1>2. PICK new \in Seq(Introduction) : /\ eq' = (eq \ {ev}) \cup Arrivals(new, Len(sent))
                                       /\ sent' = sent \o new
  BY <1>1
<1>3. /\ DOMAIN sent \subseteq DOMAIN sent' /\ \A j \in DOMAIN sent : sent'[j] = sent[j]
      /\ \A j \in DOMAIN sent : FlightsOf(j)' = FlightsOf(j) \cap (eq \ {ev})
      /\ \A j \in DOMAIN sent' \ DOMAIN sent : \E a \in FlightsOf(j)' : FlightsOf(j)' = {a}
  BY <1>1, <1>2, JoinKeepsCustody DEF MeshInv, Outcome
<1>4. \A j \in DOMAIN sent : FlightsOf(j)' = FlightsOf(j) \ {ev}
  BY <1>3 DEF FlightsOf
<1>5. "delivered" \in Ends
  BY DEF Ends
<1>6. \A j \in DOMAIN sent :
         Place'[j] = IF j = k THEN [Place[j] EXCEPT !.state = "delivered"] ELSE Place[j]
  BY <1>1, <1>3, <1>4, <1>5, EndInPlace
<1>7. \A j \in DOMAIN sent' \ DOMAIN sent : Place'[j].state = "moving"
  BY <1>3 DEF Place, Whereabouts
<1>8. /\ k \in DOMAIN sent /\ ev.b = sent[k].b /\ FlightsOf(k) = {ev}
      /\ Place = [j \in 1..Len(sent) |-> Place[j]] /\ DOMAIN Place = DOMAIN sent
  BY Alone, PlaceIsList DEF MeshInv
<1>9. /\ Place[k].state = "moving" /\ Place[k].node = ev.node
      /\ Place[k].b = ev.b
  <2>1. k \in DOMAIN sent /\ ev.b = sent[k].b /\ FlightsOf(k) = {ev}
    BY <1>8
  <2> HIDE DEF k
  <2> QED BY <2>1, PlaceOf
<1>10. ASSUME NEW j \in DOMAIN Place, Place[j].state = "delivered", Place[j].node = ev.node
       PROVE ID(Place[j].b) # ID(ev.b)
  <2>0. j \in DOMAIN sent
    BY <1>8
  <2>1. PICK l \in log : l.copy = j /\ l.kind = "delivered" /\ l.node = ev.node
    BY <2>0, <1>10, PlaceOf
  <2>2. ID(sent[j].b) \in nodes[ev.node].seen /\ ev.node \in DOMAIN nodes
    BY <2>1 DEF MeshInv, KeptIsSeen, TypeOK
  <2>3. Place[j].b = sent[j].b
    BY <1>8 DEF Place, Whereabouts
  <2> QED BY <1>1, <2>2, <2>3, HostFacts
<1>11. /\ done = [j \in 1..Len(sent) |-> done[j]]
       /\ \A j \in DOMAIN sent : done[j] = IF j = k THEN [Place[j] EXCEPT !.state = "delivered"]
                                           ELSE Place[j]
  BY <1>8
<1> HIDE DEF done, k
<1>12. Promised!Joins(done, Place')
  BY <1>3, <1>6, <1>7, <1>11, JoinsIf
<1> QED BY <1>1, <1>8, <1>9, <1>10, <1>12
        DEF Promised!Deliver, Promised!Moving, Promised!ID, Promised!NodeID, ID, NodeID, done, k

LEMMA DropDiscards ==
    ASSUME MeshInv, MeshInv', NEW ev \in eq, DropDuplicate(ev) \/ DropExpired(ev) \/ Strand(ev)
    PROVE Promised!Discard(ev.copy)
<1>1. PICK kind \in Ends \ {"delivered"} : Outcome(ev, kind) /\ eq' = eq \ {ev} /\ sent' = sent
  BY Alone, DropOutcome
<1>2. \A k \in DOMAIN sent : FlightsOf(k)' = FlightsOf(k) \ {ev}
  BY <1>1 DEF FlightsOf
<1>3. \A k \in DOMAIN sent :
         Place'[k] = IF k = ev.copy THEN [Place[k] EXCEPT !.state = kind] ELSE Place[k]
  BY <1>1, <1>2, EndInPlace
<1>4. /\ Place = [k \in DOMAIN sent |-> Place[k]] /\ Place' = [k \in DOMAIN sent |-> Place'[k]]
  BY <1>1, Zenon DEF Place
<1>5. ev.copy \in DOMAIN sent /\ Place[ev.copy].state = "moving"
  BY Alone, PlaceOf
<1>6. Place' = [Place EXCEPT ![ev.copy].state = kind]
  BY <1>3, <1>4, <1>5
<1> QED BY <1>1, <1>5, <1>6 DEF Promised!Discard, Promised!Moving, Promised!Ends, Ends

LEMMA ForwardMoves ==
    ASSUME MeshInv, MeshInv', NEW ev \in eq, Forward(ev)
    PROVE Promised!Move(ev.copy)
<1>1. /\ Outcome(ev, "forwarded") /\ sent' = sent
      /\ \E at \in Time, to \in Node :
               eq' = (eq \ {ev}) \cup {Arrival(at, to, ev.b, FALSE, ev.copy)}
  BY Alone, ForwardOutcome DEF MeshInv
<1>2. PICK at \in Time, to \in Node :
               eq' = (eq \ {ev}) \cup {Arrival(at, to, ev.b, FALSE, ev.copy)}
  BY <1>1
<1> DEFINE next == Arrival(at, to, ev.b, FALSE, ev.copy)
<1>3. next.copy = ev.copy /\ next.node = to
  BY DEF Arrival
<1>4. eq' = (eq \ {ev}) \cup {next}
  BY <1>2
<1> HIDE DEF next
<1>5. "forwarded" \notin Ends
  BY DEF Ends
<1>6. \A k : EndsOf(k)' = EndsOf(k) /\ LostOf(k)' = LostOf(k)
  BY <1>1, <1>5, TurnEnds DEF Outcome, LostOf
<1>7. /\ ev.copy \in DOMAIN sent /\ FlightsOf(ev.copy) = {ev}
      /\ EndsOf(ev.copy) = {} /\ LostOf(ev.copy) = {}
  BY Alone
<1>8. \A k \in DOMAIN sent :
         Place'[k] = IF k = ev.copy THEN [Place[k] EXCEPT !.node = to] ELSE Place[k]
  <2> TAKE k \in DOMAIN sent
  <2>1. /\ Place[k] = Whereabouts(sent[k].b, FlightsOf(k), EndsOf(k), LostOf(k))
        /\ Place'[k] = Whereabouts(sent[k].b, FlightsOf(k)', EndsOf(k), LostOf(k))
    BY <1>1, <1>6 DEF Place
  <2>2. CASE k = ev.copy
    <3>1. FlightsOf(k)' = {next}
      BY <2>2, <1>3, <1>4, <1>7 DEF FlightsOf
    <3>2. Place'[k] = [b |-> sent[k].b, node |-> to, state |-> "moving"]
      BY <2>1, <2>2, <3>1, <1>3, <1>7, WhereaboutsFacts
    <3>3. Place[k] = [b |-> sent[k].b, node |-> ev.node, state |-> "moving"]
      BY <2>1, <2>2, <1>7, WhereaboutsFacts
    <3> QED BY <2>2, <3>2, <3>3
  <2>3. CASE k # ev.copy
    <3>1. FlightsOf(k)' = FlightsOf(k)
      BY <2>3, <1>3, <1>4 DEF FlightsOf
    <3> QED BY <2>1, <2>3, <3>1
  <2> QED BY <2>2, <2>3
<1>9. /\ Place = [k \in DOMAIN sent |-> Place[k]] /\ Place' = [k \in DOMAIN sent |-> Place'[k]]
  BY <1>1, Zenon DEF Place
<1>10. Place[ev.copy].state = "moving"
  BY <1>7, PlaceOf
<1>11. Place' = [Place EXCEPT ![ev.copy].node = to]
  BY <1>7, <1>8, <1>9
<1> QED BY <1>10, <1>11 DEF Promised!Move, Promised!Moving

LEMMA BreakOffAbandons ==
    ASSUME MeshInv, BreakOff PROVE Promised!Abandon
<1>1. /\ eq' = {} /\ abandoned' = abandoned \cup eq /\ log' = log /\ sent' = sent
  BY DEF BreakOff
<1>2. ASSUME NEW k \in DOMAIN sent
      PROVE Place'[k] = IF Place[k].state = "moving" THEN [Place[k] EXCEPT !.state = "abandoned"]
                        ELSE Place[k]
  <2>1. /\ FlightsOf(k)' = {} /\ EndsOf(k)' = EndsOf(k)
        /\ LostOf(k)' = LostOf(k) \cup FlightsOf(k)
    BY <1>1 DEF FlightsOf, EndsOf, LostOf
  <2>2. /\ Place[k] = Whereabouts(sent[k].b, FlightsOf(k), EndsOf(k), LostOf(k))
        /\ Place'[k] = Whereabouts(sent[k].b, {}, EndsOf(k), LostOf(k) \cup FlightsOf(k))
    BY <1>1, <2>1 DEF Place
  <2>3. AtOnePlace(FlightsOf(k), EndsOf(k), LostOf(k))
    BY DEF MeshInv, Custodians
  <2>4. CASE FlightsOf(k) = {}
    <3>1. Place[k].state # "moving"
      BY <2>4, PlaceOf
    <3> QED BY <3>1, <2>2, <2>4
  <2>5. CASE FlightsOf(k) # {}
    <3>1. PICK e \in FlightsOf(k) : FlightsOf(k) = {e} /\ EndsOf(k) = {} /\ LostOf(k) = {}
      BY <2>3, <2>5 DEF AtOnePlace
    <3>2. LostOf(k) \cup FlightsOf(k) = {e}
      BY <3>1
    <3>3. Place[k] = [b |-> sent[k].b, node |-> e.node, state |-> "moving"]
      BY <2>2, <3>1, WhereaboutsFacts
    <3>4. Place'[k] = [b |-> sent[k].b, node |-> e.node, state |-> "abandoned"]
      BY <2>2, <3>1, <3>2, WhereaboutsFacts
    <3> QED BY <3>3, <3>4
  <2> QED BY <2>4, <2>5
<1>3. DOMAIN Place = DOMAIN sent /\ Place' = [k \in DOMAIN sent |-> Place'[k]]
  BY <1>1, Zenon DEF Place
<1> QED BY <1>2, <1>3 DEF Promised!Abandon, Promised!Moving

LEMMA OthersStutter ==
    ASSUME (\E in \in Injections : Inject(in)) \/ Finish \/ UNCHANGED vars
    PROVE Place' = Place
<1>1. UNCHANGED <<sent, log, eq, abandoned>>
  BY DEF Inject, Finish, vars
<1>2. \A k : UNCHANGED <<FlightsOf(k), EndsOf(k), LostOf(k)>>
  BY <1>1 DEF FlightsOf, EndsOf, LostOf
<1> QED BY <1>1, <1>2 DEF Place

\* sim.Run implements the custody it promises: a copy is at one place, moves
\* only while it has no end, ends once and for good, is delivered only at its
\* destination and only if that node has not delivered its ID before.
THEOREM CustodyIsKept == Spec => ImplementsCustody
<1>1. Init => Promised!Init
  BY DEF Init, Promised!Init, Place
<1>2. ASSUME MeshInv, MeshInv', [Next]_vars PROVE [Promised!Next]_Place
  <2>1. ASSUME NEW ev \in eq, Turn(ev) PROVE Promised!Next
    <3>1. ev.copy \in DOMAIN Place
      BY <1>2, Alone, PlaceIsList DEF MeshInv
    <3>2. Promised!Deliver(ev.copy) \/ Promised!Discard(ev.copy) \/ Promised!Move(ev.copy)
      BY <1>2, <2>1, DeliverDelivers, DropDiscards, ForwardMoves DEF Turn
    <3> QED BY <3>1, <3>2 DEF Promised!Next
  <2>2. CASE Run
    BY <1>2, <2>2, RunAccepts DEF Promised!Next
  <2>3. CASE BreakOff
    BY <1>2, <2>3, BreakOffAbandons DEF Promised!Next
  <2>4. CASE (\E in \in Injections : Inject(in)) \/ Finish \/ UNCHANGED vars
    BY <2>4, OthersStutter
  <2> QED BY <1>2, <2>1, <2>2, <2>3, <2>4 DEF Next, Loop
<1>3. MeshInv /\ MeshInv' /\ [Next]_vars => [Promised!Next]_Place
  BY <1>2
<1> QED BY <1>1, <1>3, MeshCorrect, PTL DEF Spec, ImplementsCustody, Promised!Spec

\* The handlers of the mesh are the responders of the bridge.
Hosted ==
    \A memory, deliveredTo, b, now :
        Handle(memory, deliveredTo, b, now) = Respond(memory, deliveredTo, b, now)

-----------------------------------------------------------------------------
(***************************************************************************)
(* What the clients send and the compute nodes answer                      *)
(***************************************************************************)
LEMMA NewBundleFacts ==
    ASSUME NEW source, NEW dest, NEW msg, NEW lifetime, NEW created, NEW seq
    PROVE LET b == NewBundle(source, dest, msg, lifetime, created, seq) IN
          /\ b.source = source /\ b.dest = dest /\ b.payload = msg
          /\ b.seq = seq /\ b.created = Stamp(created)
BY DEF NewBundle

\* What Send injects.
Introduced(task) ==
    LET c == task.client IN
    [node |-> NodeID(c.source),
     b |-> NewBundle(c.source, c.satellite, task.msg, OrDefault(c.lifetime),
                     DTNTime(task.createdAt), seqs[c] + 1),
     at |-> task.at]

LEMMA SendIntroduces ==
    ASSUME seqs \in [Clients -> Nat], NEW task \in Tasks
    PROVE /\ Introduced(task) \in Introduction
          /\ Send(task) => Inject(Introduced(task))
<1>1. /\ task.client \in Clients /\ task.at \in Time /\ task.createdAt \in Time
      /\ task.msg \in Message
  BY BridgeAssumption DEF Message
<1>2. /\ task.client.source \in EndpointID /\ task.client.satellite \in EndpointID
      /\ task.client.lifetime \in Int /\ seqs[task.client] + 1 \in Nat
  BY <1>1, BridgeAssumption
<1>3. Stamp(DTNTime(task.createdAt)) \in Nat
  <2>1. DTNTime(task.createdAt) \in Nat
    BY <1>1, QuotientNat, BundleAssumption DEF DTNTime, Time
  <2> QED BY <2>1, BridgeAssumption DEF Stamp
<1>4. /\ OrDefault(task.client.lifetime) \in Nat /\ SizeOf(task.msg) \in Nat
      /\ task.msg \in Payload
  BY <1>1, <1>2, BridgeAssumption DEF OrDefault
<1>5. ASSUME NEW life \in Nat PROVE (IF life = 0 THEN Hour ELSE life) \div TicksPerMs \in Nat
  BY QuotientNat, BundleAssumption, BridgeAssumption
<1>6. Introduced(task).b \in BundleType
  BY <1>2, <1>3, <1>4, <1>5 DEF Introduced, NewBundle, BundleType, Fragment
<1>7. Introduced(task).node \in Node
  BY <1>2 DEF Introduced, NodeID, EndpointID
<1> QED BY <1>1, <1>6, <1>7 DEF Introduced, Introduction, Send

\* The only answer there is to a request.
LEMMA AnswerFacts ==
    ASSUME NEW req, NEW models, NEW scenes
    PROVE /\ Answer(req, models, scenes).type = "response"
          /\ Answer(req, models, scenes).request = req.request
          /\ Answer(req, models, scenes).model = req.model
          /\ Answer(req, models, scenes) \in Replies(req, models, scenes)
<1>1. \E r : r \in Replies(req, models, scenes)
  <2>1. CASE models = {} \/ scenes = {} \/ scenes \subseteq Unusable
    BY <2>1 DEF Replies
  <2>2. CASE ~(models = {} \/ scenes = {} \/ scenes \subseteq Unusable)
    <3>1. PICK m \in models, s \in scenes : TRUE
      BY <2>2
    <3>2. ReplyTo(req, TRUE, <<m, s>>, "done") \in Replies(req, models, scenes)
      BY <2>2, <3>1 DEF Replies
    <3> QED BY <3>2
  <2> QED BY <2>1, <2>2
<1>2. Answer(req, models, scenes) \in Replies(req, models, scenes)
  BY <1>1 DEF Answer
<1>3. \A r \in Replies(req, models, scenes) :
         \E ok, result, summary : r = ReplyTo(req, ok, result, summary)
  BY DEF Replies
<1>4. \A ok, result, summary :
         LET r == ReplyTo(req, ok, result, summary) IN
         r.type = "response" /\ r.request = req.request /\ r.model = req.model
  BY DEF ReplyTo
<1> QED BY <1>2, <1>3, <1>4

\* What a delivery to a compute node leaves in the memory of the responders, and
\* what it sends back.
LEMMA HandlerReacts ==
    ASSUME Hosted, MeshInv, NEW ev \in eq, Deliver(ev), ev.node \in HandlerNodes,
           DOMAIN app = HandlerNodes
    PROVE LET mine == app[ev.node]
              asked == ev.b.payload.type = "request"
              reply == [node |-> ev.node, at |-> ev.time,
                        b |-> NewBundle(ev.b.dest, ev.b.source,
                                        RunInference(mine.node, ev.b.payload),
                                        OrDefault(ReplyLifetime), DTNTime(ev.time),
                                        mine.replySeq + 1)]
          IN /\ app' = [app EXCEPT ![ev.node] =
                          [node |-> HandleMessage(mine.node, ev.b.payload).node,
                           replySeq |-> IF asked THEN mine.replySeq + 1 ELSE mine.replySeq]]
             /\ sent' = IF asked THEN Append(sent, reply) ELSE sent
             /\ eq' = (eq \ {ev}) \cup
                        (IF asked THEN {Arrival(ev.time, ev.node, reply.b, TRUE, Len(sent) + 1)}
                         ELSE {})
<1> DEFINE mine == app[ev.node]
           asked == ev.b.payload.type = "request"
           msg == RunInference(mine.node, ev.b.payload)
           handled == HandleMessage(mine.node, ev.b.payload)
           back == NewBundle(ev.b.dest, ev.b.source, msg, OrDefault(ReplyLifetime),
                             DTNTime(ev.time), mine.replySeq + 1)
           reply == [node |-> ev.node, b |-> back, at |-> ev.time]
           After(n) == [app EXCEPT ![ev.node] = [node |-> handled.node, replySeq |-> n]]
<1>0. ev.time \in Int /\ sent \in Seq(Introduction)
  BY Alone DEF Event, Time, MeshInv, TypeOK
<1>1. PICK r \in Reactions(ev) :
          /\ app' = r.app
          /\ eq' = (eq \ {ev}) \cup Arrivals(Scheduled(r.out, ev.time), Len(sent))
          /\ sent' = sent \o Scheduled(r.out, ev.time)
  BY DEF Deliver
<1>2. r \in Respond(app, ev.node, ev.b, ev.time)
  BY DEF Reactions, Hosted
<1>3. CASE asked
  <2>1. handled.reply = {msg}
    BY <1>3 DEF HandleMessage
  <2>2. r = [app |-> After(mine.replySeq + 1), out |-> <<reply>>]
    BY <1>2, <2>1 DEF Respond
  <2>3. Scheduled(<<reply>>, ev.time) = <<reply>>
    <3>1. reply.at = ev.time /\ ~(ev.time < ev.time)
      BY <1>0
    <3>2. reply = [reply EXCEPT !.at = ev.time]
      OBVIOUS
    <3> HIDE DEF reply
    <3> QED BY <3>1, <3>2 DEF Scheduled
  <2>4. /\ r.out = <<reply>> /\ r.app = After(mine.replySeq + 1)
        /\ reply.at = ev.time /\ reply.node = ev.node /\ reply.b = back
    BY <2>2
  <2> HIDE DEF reply, After, back
  <2>5. sent' = Append(sent, reply)
    <3>1. sent' = sent \o <<reply>>
      BY <1>1, <2>3, <2>4
    <3> QED BY <1>0, <3>1
  <2>6. Arrivals(<<reply>>, Len(sent)) = {Arrival(ev.time, ev.node, back, TRUE, Len(sent) + 1)}
    <3>1. DOMAIN <<reply>> = {1} /\ <<reply>>[1] = reply
      OBVIOUS
    <3> QED BY <2>4, <3>1 DEF Arrivals
  <2> QED BY <1>1, <1>3, <2>3, <2>4, <2>5, <2>6 DEF reply, After, back, handled
<1>4. CASE ~asked
  <2>1. handled.reply = {}
    BY <1>4 DEF HandleMessage
  <2>2. r = [app |-> After(mine.replySeq), out |-> <<>>]
    BY <1>2, <2>1 DEF Respond
  <2>3. Scheduled(<<>>, ev.time) = <<>> /\ Arrivals(<<>>, Len(sent)) = {}
    BY DEF Scheduled, Arrivals
  <2> QED BY <1>0, <1>1, <1>4, <2>2, <2>3
<1> QED BY <1>3, <1>4

-----------------------------------------------------------------------------
(***************************************************************************)
(* Identity                                                                *)
(***************************************************************************)
\* A bundle whose sequence number its source has not used: another application
\* sends it, or a client, or a compute node.
Fresh(b) ==
    \/ FromElsewhere(b)
    \/ \E task \in Tasks : /\ b.source = task.client.source
                           /\ b.created = Stamp(DTNTime(task.createdAt))
                           /\ b.seq = seqs[task.client] + 1
                           /\ b.seq = seqs'[task.client]
    \/ /\ NodeID(b.source) \in HandlerNodes
       /\ b.seq = app[NodeID(b.source)].replySeq + 1
       /\ b.seq = app'[NodeID(b.source)].replySeq

\* Sequence numbers only grow.
Advance ==
    /\ seqs' \in [Clients -> Nat] /\ \A c \in Clients : seqs[c] <= seqs'[c]
    /\ DOMAIN app' = HandlerNodes
    /\ \A x \in HandlerNodes :
         /\ DOMAIN app'[x] = {"node", "replySeq"} /\ app'[x].replySeq \in Nat
         /\ app[x].replySeq <= app'[x].replySeq

\* It is a bundle that has been, or of another client on the same endpoint.
LEMMA FreshIsOther ==
    ASSUME Identified, Advance, NEW b, Fresh(b), NEW d \in Bundles, ID(b) = ID(d)
    PROVE b = d \/ SharedByTwo(b)'
<1>1. b.source = d.source /\ b.created = d.created /\ b.seq = d.seq
  BY DEF ID
<1>2. FromElsewhere(d) \/ FromClient(d) \/ FromHandler(d)
  BY DEF Identified
<1>3. /\ seqs \in [Clients -> Nat] /\ seqs' \in [Clients -> Nat]
      /\ \A c \in Clients : seqs[c] <= seqs'[c]
      /\ \A x \in HandlerNodes : app[x].replySeq \in Nat
      /\ \A task \in Tasks : task.client \in Clients
  BY BridgeAssumption DEF Identified, Advance
<1>4. CASE FromElsewhere(b)
  <2>1. PICK in \in Injections : b = in.b
    BY <1>4 DEF FromElsewhere
  <2> QED BY <1>1, <1>2, <2>1, EndpointsAssumption DEF FromElsewhere, FromClient, FromHandler
<1>5. ASSUME NEW task \in Tasks, b.source = task.client.source,
             b.created = Stamp(DTNTime(task.createdAt)), b.seq = seqs[task.client] + 1,
             b.seq = seqs'[task.client]
      PROVE SharedByTwo(b)'
  <2>1. CASE FromClient(d)
    <3>1. PICK other \in Tasks :
             /\ d.source = other.client.source /\ d.created = Stamp(DTNTime(other.createdAt))
             /\ d.seq \in 1 .. seqs[other.client]
      BY <2>1 DEF FromClient
    <3>2. other.client # task.client
      BY <1>1, <1>3, <1>5, <3>1
    <3>3. b.seq \in 1 .. seqs'[task.client] /\ b.seq \in 1 .. seqs'[other.client]
      BY <1>1, <1>3, <1>5, <3>1
    <3> QED BY <1>1, <1>5, <3>1, <3>2, <3>3 DEF SharedByTwo
  <2>2. CASE FromElsewhere(d) \/ FromHandler(d)
    BY <2>2, <1>1, <1>3, <1>5, EndpointsAssumption DEF FromElsewhere, FromHandler
  <2> QED BY <1>2, <2>1, <2>2
<1>6. ASSUME NodeID(b.source) \in HandlerNodes, b.seq = app[NodeID(b.source)].replySeq + 1
      PROVE FALSE
  <2>1. CASE FromHandler(d)
    BY <2>1, <1>1, <1>3, <1>6 DEF FromHandler
  <2>2. CASE FromElsewhere(d) \/ FromClient(d)
    BY <2>2, <1>1, <1>3, <1>6, EndpointsAssumption DEF FromElsewhere, FromClient
  <2> QED BY <1>2, <2>1, <2>2
<1> QED BY <1>4, <1>5, <1>6 DEF Fresh

\* The counts only grow: what two clients shared they still do, and it is the
\* ID that they share.
LEMMA StaysShared ==
    ASSUME Identified, Advance, NEW b, SharedByTwo(b)
    PROVE SharedByTwo(b)'
<1>1. PICK s, t \in Tasks :
         /\ s.client # t.client
         /\ \A task \in {s, t} : /\ task.client.source = b.source
                                 /\ Stamp(DTNTime(task.createdAt)) = b.created
                                 /\ b.seq \in 1 .. seqs[task.client]
  BY DEF SharedByTwo
<1>2. ASSUME NEW task \in {s, t} PROVE b.seq \in 1 .. seqs'[task.client]
  <2>1. task.client \in Clients
    BY BridgeAssumption
  <2>2. seqs[task.client] \in Nat /\ seqs'[task.client] \in Nat
        /\ seqs[task.client] <= seqs'[task.client]
    BY <2>1 DEF Identified, Advance
  <2> QED BY <1>1, <2>2
<1> QED BY <1>1, <1>2 DEF SharedByTwo

LEMMA StaysIdentified ==
    ASSUME Identified, Advance, NEW news, \A b \in news : Fresh(b),
           \A b, d \in news : b = d, Bundles' \subseteq Bundles \cup news
    PROVE Identified'
<1>1. /\ seqs \in [Clients -> Nat] /\ seqs' \in [Clients -> Nat]
      /\ \A x \in HandlerNodes : app[x].replySeq \in Nat /\ app'[x].replySeq \in Nat
      /\ \A task \in Tasks : task.client \in Clients
  BY BridgeAssumption DEF Identified, Advance
<1>2. ASSUME NEW b \in Bundles PROVE FromElsewhere(b) \/ FromClient(b)' \/ FromHandler(b)'
  <2>1. FromClient(b) => FromClient(b)'
    BY <1>1 DEF FromClient, Advance
  <2>2. FromHandler(b) => FromHandler(b)'
    BY <1>1 DEF FromHandler, Advance
  <2> QED BY <2>1, <2>2 DEF Identified
<1>3. ASSUME NEW b, Fresh(b) PROVE FromElsewhere(b) \/ FromClient(b)' \/ FromHandler(b)'
  <2>1. ASSUME NEW task \in Tasks, b.source = task.client.source,
               b.created = Stamp(DTNTime(task.createdAt)),
               b.seq = seqs[task.client] + 1, b.seq = seqs'[task.client]
        PROVE FromClient(b)'
    <3>1. b.seq \in 1 .. seqs'[task.client]
      BY <1>1, <2>1
    <3> QED BY <2>1, <3>1 DEF FromClient
  <2>2. ASSUME NodeID(b.source) \in HandlerNodes, b.seq = app[NodeID(b.source)].replySeq + 1,
               b.seq = app'[NodeID(b.source)].replySeq
        PROVE FromHandler(b)'
    <3>1. b.seq \in 1 .. app'[NodeID(b.source)].replySeq
      BY <1>1, <2>2
    <3> QED BY <2>2, <3>1 DEF FromHandler
  <2> QED BY <1>3, <2>1, <2>2 DEF Fresh
<1>4. \A b \in Bundles' : FromElsewhere(b) \/ FromClient(b)' \/ FromHandler(b)'
  BY <1>2, <1>3
<1>5. \A b, d \in Bundles' : ID(b) = ID(d) => b = d \/ SharedByTwo(b)'
  <2>1. \A b, d \in Bundles : ID(b) = ID(d) => b = d \/ SharedByTwo(b)'
    BY StaysShared DEF Identified
  <2>2. \A b \in news, d \in Bundles : ID(b) = ID(d) => b = d \/ SharedByTwo(b)'
    BY FreshIsOther
  <2>3. \A b \in Bundles, d \in news : ID(b) = ID(d) => b = d \/ SharedByTwo(b)'
    <3>1. ASSUME NEW b \in Bundles, NEW d \in news, ID(b) = ID(d) PROVE SharedByTwo(d)' => SharedByTwo(b)'
      <4>1. b.source = d.source /\ b.created = d.created /\ b.seq = d.seq
        BY <3>1 DEF ID
      <4> QED BY <4>1 DEF SharedByTwo
    <3> QED BY <2>2, <3>1
  <2> QED BY <2>1, <2>2, <2>3
<1> QED BY <1>4, <1>5 DEF Identified, Advance, FromElsewhere

LEMMA InitIdentified ==
    ASSUME BridgeInit PROVE Identified /\ OnlyHandlersAnswer
<1>1. pending = <<>> /\ sent = <<>> /\ seqs = [c \in Clients |-> 0] /\ app = Aboard
  BY EndpointsAssumption DEF BridgeInit, Init
<1>2. Bundles = {}
  BY <1>1 DEF Bundles
<1> QED BY <1>1, <1>2 DEF Identified, OnlyHandlersAnswer, Aboard

\* An introduction of something new: by a client or by another application.
LEMMA InjectIdentified ==
    ASSUME MeshInv, Identified, OnlyHandlersAnswer, NEW in \in Introduction, Inject(in),
           Fresh(in.b), seqs' \in [Clients -> Nat], \A c \in Clients : seqs[c] <= seqs'[c],
           in.node \notin HandlerNodes \/ in.b.payload.type # "response"
    PROVE Identified' /\ OnlyHandlersAnswer'
<1>1. /\ pending' = Append(pending, in) /\ sent' = sent /\ app' = app
      /\ pending \in Seq(Introduction)
  BY DEF Inject, MeshInv, TypeOK
<1>2. /\ DOMAIN pending' = DOMAIN pending \cup {Len(pending) + 1}
      /\ \A i \in DOMAIN pending : pending'[i] = pending[i]
      /\ pending'[Len(pending) + 1] = in
  BY <1>1
<1>3. Bundles' \subseteq Bundles \cup {in.b}
  BY <1>1, <1>2 DEF Bundles
<1>4. Advance
  BY <1>1 DEF Advance, Identified
<1>5. Identified'
  <2>1. (\A b \in {in.b} : Fresh(b)) /\ (\A b, d \in {in.b} : b = d)
    OBVIOUS
  <2> QED BY <1>3, <1>4, <2>1, StaysIdentified, Zenon
<1> QED BY <1>2, <1>5 DEF OnlyHandlersAnswer

LEMMA SendIdentified ==
    ASSUME MeshInv, Identified, OnlyHandlersAnswer, NEW task \in Tasks, Send(task)
    PROVE Identified' /\ OnlyHandlersAnswer'
<1> DEFINE in == Introduced(task)
           c == task.client
<1>1. c \in Clients /\ seqs \in [Clients -> Nat] /\ task.msg.type # "response"
  BY BridgeAssumption DEF Identified, ModelUpload, InferenceRequest
<1>2. in \in Introduction /\ Inject(in)
  BY <1>1, SendIntroduces
<1>3. seqs' = [seqs EXCEPT ![c] = @ + 1]
  BY DEF Send
<1>4. /\ seqs' \in [Clients -> Nat] /\ \A d \in Clients : seqs[d] <= seqs'[d]
      /\ seqs'[c] = seqs[c] + 1
  BY <1>1, <1>3
<1>5. /\ in.node = NodeID(c.source) /\ in.b.source = c.source /\ in.b.payload = task.msg
      /\ in.b.seq = seqs[c] + 1 /\ in.b.created = Stamp(DTNTime(task.createdAt))
  BY NewBundleFacts DEF Introduced
<1> HIDE DEF in
<1>6. Fresh(in.b)
  BY <1>4, <1>5 DEF Fresh
<1>7. in.node \notin HandlerNodes
  BY <1>1, <1>5, EndpointsAssumption
<1> QED BY <1>2, <1>4, <1>6, <1>7, InjectIdentified

LEMMA RunIdentified ==
    ASSUME MeshInv, Identified, OnlyHandlersAnswer, Run, UNCHANGED seqs
    PROVE Identified' /\ OnlyHandlersAnswer'
<1>1. /\ pending' = pending /\ sent' = sent \o pending /\ app' = app
      /\ pending \in Seq(Introduction) /\ sent \in Seq(Introduction)
  BY DEF Run, MeshInv, TypeOK
<1>2. \A k \in DOMAIN sent' : \/ k \in DOMAIN sent /\ sent'[k] = sent[k]
                              \/ \E i \in DOMAIN pending : sent'[k] = pending[i]
  BY <1>1
<1>3. Bundles' \subseteq Bundles
  BY <1>1, <1>2 DEF Bundles
<1>4. Advance
  BY <1>1 DEF Advance, Identified
<1>5. Identified'
  <2> DEFINE news == {}
  <2>1. /\ Bundles' \subseteq Bundles \cup news
        /\ \A b \in news : Fresh(b) /\ \A d \in news : b = d
    BY <1>3
  <2> HIDE DEF news
  <2> QED BY <1>4, <2>1, StaysIdentified
<1> QED BY <1>1, <1>5 DEF OnlyHandlersAnswer

\* The steps of the mesh that are not a delivery to a compute node.
Quiet(ev) ==
    \/ DropDuplicate(ev) \/ DropExpired(ev) \/ Strand(ev) \/ Forward(ev)
    \/ Deliver(ev) /\ ev.node \notin HandlerNodes

LEMMA QuietFacts ==
    ASSUME MeshInv, NEW ev \in eq, Quiet(ev)
    PROVE /\ app' = app /\ sent' = sent /\ pending' = pending /\ runs' = runs
          /\ \A e \in eq' \ eq : ev.time <= e.time
          /\ log \subseteq log'
          /\ \A l \in log' \ log : /\ l.time = ev.time
                                   /\ l.kind = "delivered" => l.node \notin HandlerNodes
<1>0. ev \in Event
  BY Alone
<1>1. /\ Entry(ev, "injected").time = ev.time /\ Entry(ev, "injected").kind = "injected"
      /\ \A kind : Entry(ev, kind).time = ev.time /\ Entry(ev, kind).kind = kind
      /\ \A kind : Entry(ev, kind).node = ev.node
  BY DEF Entry
<1>2. CASE DropDuplicate(ev) \/ DropExpired(ev) \/ Strand(ev)
  <2>1. PICK kind \in Ends \ {"delivered"} : Drop(ev, kind)
    BY <1>2 DEF DropDuplicate, DropExpired, Strand, Ends
  <2> QED BY <1>1, <2>1 DEF Drop, Pop, Entries, Injected
<1>3. CASE Forward(ev)
  <2>1. PICK c \in Hops(ev) :
         log' = log \cup Injected(ev) \cup {[kind |-> "forwarded", copy |-> ev.copy,
                                            node |-> ev.node, time |-> ev.time, via |-> c]}
    BY <1>3 DEF Forward
  <2>2. \A l \in log' \ log : l.time = ev.time /\ l.kind # "delivered"
    BY <1>1, <2>1 DEF Injected
  <2>3. PICK at \in Time, to \in Node :
          /\ ev.time <= at
          /\ eq' = (eq \ {ev}) \cup {Arrival(at, to, ev.b, FALSE, ev.copy)}
    BY <1>0, <1>3, ForwardOutcome DEF MeshInv
  <2>4. \A e \in eq' \ eq : ev.time <= e.time
    BY <2>3 DEF Arrival
  <2> QED BY <1>3, <2>1, <2>2, <2>4 DEF Forward, Pop
<1>4. CASE Deliver(ev) /\ ev.node \notin HandlerNodes
  <2>1. sent \in Seq(Introduction)
    BY DEF MeshInv, TypeOK
  <2>2. Reactions(ev) = {[app |-> app, out |-> <<>>]}
    BY <1>4 DEF Reactions
  <2>3. Scheduled(<<>>, ev.time) = <<>> /\ Arrivals(<<>>, Len(sent)) = {}
    BY DEF Scheduled, Arrivals
  <2>4. app' = app /\ sent' = sent /\ eq' = eq \ {ev}
    BY <1>4, <2>1, <2>2, <2>3 DEF Deliver
  <2> QED BY <1>1, <1>4, <2>4 DEF Deliver, Pop, Entries, Injected
<1> QED BY <1>2, <1>3, <1>4 DEF Quiet

LEMMA QuietIdentified ==
    ASSUME Identified, OnlyHandlersAnswer, app' = app, pending' = pending, sent' = sent,
           seqs' = seqs
    PROVE Identified' /\ OnlyHandlersAnswer'
<1>1. Bundles' = Bundles
  BY DEF Bundles
<1> QED BY <1>1 DEF Identified, OnlyHandlersAnswer, FromElsewhere, FromClient, FromHandler,
                SharedByTwo

LEMMA HandlerIdentified ==
    ASSUME Hosted, MeshInv, Identified, OnlyHandlersAnswer, NEW ev \in eq, Deliver(ev),
           ev.node \in HandlerNodes, UNCHANGED seqs
    PROVE Identified' /\ OnlyHandlersAnswer'
<1> DEFINE x == ev.node
           used == app[x].replySeq
           asked == ev.b.payload.type = "request"
           back == NewBundle(ev.b.dest, ev.b.source, RunInference(app[x].node, ev.b.payload),
                             OrDefault(ReplyLifetime), DTNTime(ev.time), used + 1)
           news == IF asked THEN {back} ELSE {}
           after == [node |-> HandleMessage(app[x].node, ev.b.payload).node,
                     replySeq |-> IF asked THEN used + 1 ELSE used]
<1>1. DOMAIN app = HandlerNodes /\ used \in Nat /\ seqs \in [Clients -> Nat]
  BY DEF Identified
<1>2. /\ app' = [app EXCEPT ![x] = after]
      /\ sent' = IF asked THEN Append(sent, [node |-> x, at |-> ev.time, b |-> back]) ELSE sent
  BY <1>1, HandlerReacts
<1>3. pending' = pending /\ NodeID(ev.b.dest) = x /\ sent \in Seq(Introduction)
  BY Alone, DeliverOutcome DEF Outcome, MeshInv, TypeOK
<1>4. back.source = ev.b.dest /\ back.seq = used + 1
  BY NewBundleFacts
<1>5. /\ after.replySeq = IF asked THEN used + 1 ELSE used
      /\ DOMAIN after = {"node", "replySeq"}
  OBVIOUS
<1> HIDE DEF back, after
<1>6. Bundles' \subseteq Bundles \cup news
  <2>1. CASE asked
    <3>1. \A k \in DOMAIN sent' : (k \in DOMAIN sent /\ sent'[k] = sent[k]) \/ sent'[k].b = back
      BY <1>2, <1>3, <2>1
    <3> QED BY <1>3, <2>1, <3>1 DEF Bundles
  <2>2. CASE ~asked
    BY <1>2, <1>3, <2>2 DEF Bundles
  <2> QED BY <2>1, <2>2
<1>7. \A b \in news : Fresh(b) /\ \A d \in news : b = d
  <2>1. asked => Fresh(back)
    BY <1>1, <1>2, <1>3, <1>4, <1>5 DEF Fresh
  <2> QED BY <2>1
<1>8. Advance
  BY <1>1, <1>2, <1>5 DEF Advance, Identified
<1> HIDE DEF news
<1>9. Identified'
  BY <1>6, <1>7, <1>8, StaysIdentified
<1> QED BY <1>3, <1>9 DEF OnlyHandlersAnswer

LEMMA BridgeNextIdentified ==
    ASSUME Hosted, MeshInv, Identified, OnlyHandlersAnswer, [BridgeNext]_bridgeVars
    PROVE Identified' /\ OnlyHandlersAnswer'
<1>1. ASSUME NEW in \in Injections, Inject(in), UNCHANGED seqs
      PROVE Identified' /\ OnlyHandlersAnswer'
  <2>1. /\ in \in Introduction /\ Fresh(in.b)
        /\ in.node \notin HandlerNodes \/ in.b.payload.type # "response"
    BY MeshAssumption, EndpointsAssumption DEF Fresh, FromElsewhere
  <2>2. seqs' \in [Clients -> Nat] /\ \A c \in Clients : seqs[c] <= seqs'[c]
    BY <1>1 DEF Identified
  <2> QED BY <1>1, <2>1, <2>2, InjectIdentified
<1>2. ASSUME NEW ev \in eq, Turn(ev), UNCHANGED seqs
      PROVE Identified' /\ OnlyHandlersAnswer'
  <2>1. CASE Deliver(ev) /\ ev.node \in HandlerNodes
    BY <1>2, <2>1, HandlerIdentified
  <2>2. CASE Quiet(ev)
    BY <1>2, <2>2, QuietFacts, QuietIdentified
  <2> QED BY <1>2, <2>1, <2>2 DEF Turn, Quiet
<1>3. CASE (Finish \/ BreakOff) /\ UNCHANGED seqs
  BY <1>3, QuietIdentified DEF Finish, BreakOff
<1>4. CASE UNCHANGED bridgeVars
  BY <1>4, QuietIdentified DEF bridgeVars
<1> QED BY <1>1, <1>2, <1>3, <1>4, SendIdentified, RunIdentified DEF BridgeNext, Next, Loop

LEMMA BridgeNextMesh ==
    ASSUME MeshInv, Identified, [BridgeNext]_bridgeVars PROVE MeshInv'
<1>1. ASSUME NEW task \in Tasks, Send(task) PROVE MeshInv'
  BY <1>1, SendIntroduces, InjectInv DEF Identified
<1>2. CASE Next \/ UNCHANGED bridgeVars
  BY <1>2, NextInv DEF bridgeVars, vars
<1> QED BY <1>1, <1>2 DEF BridgeNext

\* The inductive invariant of the bridge, but for what concerns a single run.
THEOREM BridgeCorrect ==
    ASSUME Hosted
    PROVE BridgeSpec => [](MeshInv /\ Identified /\ OnlyHandlersAnswer)
<1>1. BridgeInit => MeshInv /\ Identified /\ OnlyHandlersAnswer
  BY InitInv, InitIdentified DEF BridgeInit
<1>2. /\ MeshInv /\ Identified /\ OnlyHandlersAnswer
      /\ [BridgeNext]_bridgeVars
      => (MeshInv /\ Identified /\ OnlyHandlersAnswer)'
  BY BridgeNextMesh, BridgeNextIdentified
<1> QED BY <1>1, <1>2, PTL DEF BridgeSpec

\* bundle.BundleID: "The sequence number disambiguates bundles created by the
\* same source within a single millisecond".  However often clients upload and
\* ask and compute nodes reply, whatever endpoints the clients have, a bundle
\* can be dropped as a duplicate of another only if two clients with counters
\* of their own share an endpoint and have both sent in the same millisecond.
THEOREM IDsAlwaysIdentify ==
    ASSUME Hosted PROVE BridgeSpec => []IDsIdentify
<1>1. Identified => IDsIdentify
  BY DEF Identified, IDsIdentify, Bundles
<1> QED BY <1>1, BridgeCorrect, PTL

-----------------------------------------------------------------------------
(***************************************************************************)
(* Requests and answers                                                    *)
(***************************************************************************)
Balanced ==
    \A key : /\ IsFiniteSet(AskedAs(key)) /\ IsFiniteSet(ToldAs(key))
             /\ Cardinality(AskedAs(key)) = Cardinality(ToldAs(key))

\* Bundles that join the mesh leave what was handed over as it was.
LEMMA HandedStays ==
    ASSUME MeshInv, DOMAIN sent \subseteq DOMAIN sent',
           \A k \in DOMAIN sent : sent'[k] = sent[k],
           log \subseteq log',
           \A l \in log' \ log : l.kind = "delivered" => l.node \notin HandlerNodes
    PROVE /\ \A type : Handed(type)' = Handed(type)
          /\ \A type : \A l \in Handed(type) : l.copy \in DOMAIN sent /\ Asked(l)' = Asked(l)
<1>1. \A l \in log : l.copy \in DOMAIN sent
  BY DEF MeshInv, TypeOK
<1> QED BY <1>1 DEF Handed, Is, Asked

\* Nothing is handed to a compute node and nothing is answered.
LEMMA OthersBalanced ==
    ASSUME MeshInv, Balanced, DOMAIN sent \subseteq DOMAIN sent',
           \A k \in DOMAIN sent : sent'[k] = sent[k],
           \A k \in DOMAIN sent' \ DOMAIN sent :
              sent'[k].node \notin HandlerNodes \/ sent'[k].b.payload.type # "response",
           log \subseteq log',
           \A l \in log' \ log : l.kind = "delivered" => l.node \notin HandlerNodes
    PROVE Balanced'
<1>1. Answers' = Answers /\ \A k \in Answers : Told(k)' = Told(k)
  BY DEF Answers, Is, Told
<1>2. Handed("request")' = Handed("request") /\ \A l \in Handed("request") : Asked(l)' = Asked(l)
  BY HandedStays
<1>3. \A key : AskedAs(key)' = AskedAs(key) /\ ToldAs(key)' = ToldAs(key)
  BY <1>1, <1>2 DEF AskedAs, ToldAs
<1> QED BY <1>3 DEF Balanced

\* A delivery at a compute node, in terms of what is handed over and answered.
LEMMA HandlerHands ==
    ASSUME Hosted, MeshInv, Identified, NEW ev \in eq, Deliver(ev), ev.node \in HandlerNodes
    PROVE LET e == Entry(ev, "delivered")
              n == Len(sent) + 1
              type == ev.b.payload.type
          IN /\ e \notin log
             /\ DOMAIN sent \subseteq DOMAIN sent' /\ \A k \in DOMAIN sent : sent'[k] = sent[k]
             /\ \A t : Handed(t)' = Handed(t) \cup (IF t = type THEN {e} ELSE {})
             /\ \A t : \A l \in Handed(t) : l.copy \in DOMAIN sent
             /\ e.copy \in DOMAIN sent /\ sent[e.copy].b = ev.b
             /\ e.node = ev.node /\ e.time = ev.time
             /\ n \notin DOMAIN sent
             /\ Answers' = Answers \cup (IF type = "request" THEN {n} ELSE {})
             /\ type = "request" =>
                  /\ sent'[n].node = ev.node /\ sent'[n].at = ev.time
                  /\ sent'[n].b.source = ev.b.dest /\ sent'[n].b.dest = ev.b.source
                  /\ sent'[n].b.payload = RunInference(app[ev.node].node, ev.b.payload)
<1> DEFINE e == Entry(ev, "delivered")
           n == Len(sent) + 1
           msg == RunInference(app[ev.node].node, ev.b.payload)
           asked == ev.b.payload.type = "request"
           back == NewBundle(ev.b.dest, ev.b.source, msg,
                             OrDefault(ReplyLifetime), DTNTime(ev.time),
                             app[ev.node].replySeq + 1)
           reply == [node |-> ev.node, at |-> ev.time, b |-> back]
<1>1. sent' = IF asked THEN Append(sent, reply) ELSE sent
  BY HandlerReacts DEF Identified
<1>2. /\ sent \in Seq(Introduction) /\ \A l \in log : l.copy \in DOMAIN sent
      /\ ev.copy \in DOMAIN sent /\ sent[ev.copy].b = ev.b /\ EndsOf(ev.copy) = {}
  BY Alone DEF MeshInv, TypeOK
<1>3. /\ e.kind = "delivered" /\ e.copy = ev.copy /\ e.node = ev.node /\ e.time = ev.time
      /\ Entry(ev, "injected").kind = "injected"
  BY DEF Entry
<1>4. e \notin log
  BY <1>2, <1>3 DEF EndsOf, Ends
<1>5. /\ back.source = ev.b.dest /\ back.dest = ev.b.source /\ back.payload = msg
      /\ reply.node = ev.node /\ reply.at = ev.time /\ reply.b = back
  BY NewBundleFacts
<1>6. msg.type = "response"
  BY AnswerFacts DEF RunInference
<1> HIDE DEF e, back, msg, reply
<1>7. /\ DOMAIN sent = 1 .. Len(sent) /\ Len(sent) \in Nat
      /\ n \notin DOMAIN sent /\ DOMAIN sent' = DOMAIN sent \cup (IF asked THEN {n} ELSE {})
      /\ \A k \in DOMAIN sent : sent'[k] = sent[k]
      /\ asked => sent'[n] = reply
  BY <1>1, <1>2
<1>8. log' = log \cup Injected(ev) \cup {e}
  BY DEF Deliver, Entries, e
<1>9. ASSUME NEW t PROVE Handed(t)' = Handed(t) \cup (IF t = ev.b.payload.type THEN {e} ELSE {})
  <2>1. \A l \in Injected(ev) : l.kind # "delivered"
    BY <1>3 DEF Injected
  <2>2. \A l \in log : Is(l.copy, t)' <=> Is(l.copy, t)
    BY <1>2, <1>7 DEF Is
  <2>3. Is(e.copy, t)' <=> t = ev.b.payload.type
    BY <1>2, <1>3, <1>7 DEF Is
  <2> QED BY <1>3, <1>8, <2>1, <2>2, <2>3 DEF Handed
<1>10. Answers' = Answers \cup (IF asked THEN {n} ELSE {})
  <2>1. \A k \in DOMAIN sent : Is(k, "response")' <=> Is(k, "response")
    BY <1>7 DEF Is
  <2>2. asked => sent'[n].b.payload.type = "response" /\ sent'[n].node \in HandlerNodes
    BY <1>5, <1>6, <1>7
  <2> QED BY <1>7, <2>1, <2>2 DEF Answers, Is
<1>11. \A t : \A l \in Handed(t) : l.copy \in DOMAIN sent
  BY <1>2 DEF Handed
<1>12. DOMAIN sent \subseteq DOMAIN sent'
  BY <1>7
<1>13. asked => /\ sent'[n].node = ev.node /\ sent'[n].at = ev.time
                /\ sent'[n].b.source = ev.b.dest /\ sent'[n].b.dest = ev.b.source
                /\ sent'[n].b.payload = msg
  BY <1>5, <1>7
<1> QED BY <1>2, <1>3, <1>4, <1>7, <1>9, <1>10, <1>11, <1>12, <1>13, Zenon DEF e, msg

LEMMA OneMore ==
    ASSUME NEW S, IsFiniteSet(S), NEW x, x \notin S
    PROVE IsFiniteSet(S \cup {x}) /\ Cardinality(S \cup {x}) = Cardinality(S) + 1
BY FS_AddElement

LEMMA HandlerBalanced ==
    ASSUME Hosted, MeshInv, Identified, Balanced, NEW ev \in eq, Deliver(ev),
           ev.node \in HandlerNodes
    PROVE Balanced'
<1> DEFINE e == Entry(ev, "delivered")
           n == Len(sent) + 1
           asked == ev.b.payload.type = "request"
           what == <<ev.node, ev.time, ev.b.dest, ev.b.source, ev.b.payload.request>>
<1>1. /\ e \notin log /\ \A k \in DOMAIN sent : sent'[k] = sent[k]
      /\ Handed("request")' = Handed("request") \cup (IF asked THEN {e} ELSE {})
      /\ \A l \in Handed("request") : l.copy \in DOMAIN sent
      /\ e.copy \in DOMAIN sent /\ sent[e.copy].b = ev.b /\ e.node = ev.node /\ e.time = ev.time
      /\ n \notin DOMAIN sent
      /\ Answers' = Answers \cup (IF asked THEN {n} ELSE {})
      /\ asked => /\ sent'[n].node = ev.node /\ sent'[n].at = ev.time
                  /\ sent'[n].b.source = ev.b.dest /\ sent'[n].b.dest = ev.b.source
                  /\ sent'[n].b.payload = RunInference(app[ev.node].node, ev.b.payload)
  BY HandlerHands, Zenon
<1> DEFINE reply == sent'[n]
<1>2. asked => sent'[n].b.payload.request = ev.b.payload.request
  BY <1>1, AnswerFacts DEF RunInference
<1> HIDE DEF e, n
<1>3. \A l \in Handed("request") : Asked(l)' = Asked(l)
  BY <1>1 DEF Asked
<1>4. Asked(e)' = what
  BY <1>1 DEF Asked
<1>5. \A k \in Answers : Told(k)' = Told(k)
  BY <1>1 DEF Answers, Told
<1>6. ASSUME NEW k, k = n, asked
      PROVE Told(k)' = what
  BY <1>1, <1>2, <1>6 DEF Told
<1> HIDE DEF what
<1>7. ASSUME NEW key
      PROVE /\ AskedAs(key)' = AskedAs(key) \cup (IF asked /\ key = what THEN {e} ELSE {})
            /\ ToldAs(key)' = ToldAs(key) \cup (IF asked /\ key = what THEN {n} ELSE {})
  <2>1. AskedAs(key)' = AskedAs(key) \cup (IF asked /\ key = what THEN {e} ELSE {})
    BY <1>1, <1>3, <1>4 DEF AskedAs
  <2>2. ToldAs(key)' = ToldAs(key) \cup (IF asked /\ key = what THEN {n} ELSE {})
    BY <1>1, <1>5, <1>6 DEF ToldAs
  <2> QED BY <2>1, <2>2
<1>8. \A key : e \notin AskedAs(key) /\ n \notin ToldAs(key)
  BY <1>1 DEF AskedAs, Handed, ToldAs, Answers
<1>9. ASSUME NEW key
      PROVE /\ IsFiniteSet(AskedAs(key))' /\ IsFiniteSet(ToldAs(key))'
            /\ Cardinality(AskedAs(key))' = Cardinality(ToldAs(key))'
  <2>1. /\ IsFiniteSet(AskedAs(key)) /\ IsFiniteSet(ToldAs(key))
        /\ Cardinality(AskedAs(key)) = Cardinality(ToldAs(key))
    BY DEF Balanced
  <2>2. CASE asked /\ key = what
    BY <2>1, <2>2, <1>7, <1>8, OneMore
  <2>3. CASE ~(asked /\ key = what)
    BY <2>1, <2>3, <1>7
  <2> QED BY <2>2, <2>3
<1> QED BY <1>9 DEF Balanced

LEMMA BridgeNextBalanced ==
    ASSUME Hosted, MeshInv, Identified, OnlyHandlersAnswer, Balanced,
           [BridgeNext]_bridgeVars
    PROVE Balanced'
<1>1. sent \in Seq(Introduction) /\ pending \in Seq(Introduction)
  BY DEF MeshInv, TypeOK
<1>2. ASSUME sent' = sent, log \subseteq log',
             \A l \in log' \ log : l.kind = "delivered" => l.node \notin HandlerNodes
      PROVE Balanced'
  BY <1>2, OthersBalanced
<1>3. CASE Run
  <2>1. sent' = sent \o pending /\ log' = log
    BY <1>3 DEF Run
  <2>2. /\ DOMAIN sent \subseteq DOMAIN sent' /\ \A k \in DOMAIN sent : sent'[k] = sent[k]
        /\ \A k \in DOMAIN sent' \ DOMAIN sent : \E i \in DOMAIN pending : sent'[k] = pending[i]
    <3>1. \A k \in DOMAIN sent' : \/ k \in DOMAIN sent /\ sent'[k] = sent[k]
                                 \/ \E i \in DOMAIN pending : sent'[k] = pending[i]
      BY <1>1, <2>1
    <3>2. DOMAIN sent \subseteq DOMAIN sent' /\ \A k \in DOMAIN sent : sent'[k] = sent[k]
      BY <1>1, <2>1
    <3> QED BY <3>1, <3>2
  <2> QED BY <2>1, <2>2, OthersBalanced DEF OnlyHandlersAnswer
<1>4. ASSUME NEW ev \in eq, Turn(ev) PROVE Balanced'
  <2>1. CASE Deliver(ev) /\ ev.node \in HandlerNodes
    BY <2>1, HandlerBalanced
  <2>2. CASE Quiet(ev)
    <3>1. /\ sent' = sent /\ log \subseteq log'
          /\ \A l \in log' \ log : l.kind = "delivered" => l.node \notin HandlerNodes
      BY <2>2, QuietFacts
    <3> QED BY <3>1, <1>2
  <2> QED BY <1>4, <2>1, <2>2 DEF Turn, Quiet
<1>5. ASSUME NEW task \in Tasks, Send(task) PROVE Balanced'
  BY <1>2, <1>5 DEF Send, Inject
<1>6. CASE (\E in \in Injections : Inject(in)) \/ Finish \/ BreakOff \/ UNCHANGED bridgeVars
  BY <1>2, <1>6 DEF Inject, Finish, BreakOff, bridgeVars
<1> QED BY <1>3, <1>4, <1>5, <1>6 DEF BridgeNext, Next, Loop

\* responder.go: whatever is uploaded, asked, lost, delayed, repeated or broken
\* off, a compute node has answered each request that reached it, at that
\* instant, once, to the endpoint that asked, and it has answered nothing else.
THEOREM RequestsAnsweredOnce ==
    ASSUME Hosted PROVE BridgeSpec => []AnsweredOnce
<1>1. BridgeInit => Balanced
  <2>1. ASSUME BridgeInit PROVE Balanced
    <3>1. log = {} /\ sent = <<>>
      BY <2>1 DEF BridgeInit, Init
    <3>2. Handed("request") = {} /\ Answers = {}
      BY <3>1 DEF Handed, Answers
    <3>3. \A key : AskedAs(key) = {} /\ ToldAs(key) = {}
      BY <3>2 DEF AskedAs, ToldAs
    <3> QED BY <3>3, FS_EmptySet DEF Balanced
  <2> QED BY <2>1
<1>2. /\ Balanced /\ MeshInv /\ Identified /\ OnlyHandlersAnswer
      /\ [BridgeNext]_bridgeVars
      => Balanced'
  BY BridgeNextBalanced
<1>3. Balanced => AnsweredOnce
  BY DEF Balanced, AnsweredOnce
<1> QED BY <1>1, <1>2, <1>3, BridgeCorrect, PTL DEF BridgeSpec

-----------------------------------------------------------------------------
(***************************************************************************)
(* What the answers tell, in a single run                                  *)
(***************************************************************************)
LEMMA UploadFacts ==
    ASSUME MeshInv, NEW model, NEW x, NEW l \in UploadsOf(model, x)
    PROVE l \in log /\ l.copy \in DOMAIN sent /\ l.node = x
BY DEF MeshInv, TypeOK, UploadsOf, Handed

\* AnswersAreCurrent, of one answer.
Current(k) ==
    LET answer == sent[k].b.payload
        ups == UploadsOf(answer.model, sent[k].node)
    IN IF answer.summary = "not deployed"
       THEN \A l \in ups : l.time >= sent[k].at
       ELSE \E l \in ups :
              /\ l.time <= sent[k].at
              /\ \A m \in ups : ~(l.time < m.time /\ m.time < sent[k].at)
              /\ answer.ok => answer.result[1] = Made(Launch, sent[l.copy].b.payload)

\* Steps that hand nothing to a compute node and answer nothing.
LEMMA OthersCurrent ==
    ASSUME MeshInv, UpToDate, app' = app, DOMAIN sent \subseteq DOMAIN sent',
           \A k \in DOMAIN sent : sent'[k] = sent[k], Answers' = Answers,
           log \subseteq log',
           \A l \in log' \ log : l.kind = "delivered" => l.node \notin HandlerNodes,
           InOrder'
    PROVE UpToDate'
<1>1. ASSUME NEW model, NEW x
      PROVE /\ UploadsOf(model, x)' = UploadsOf(model, x)
            /\ \A l \in UploadsOf(model, x) : sent'[l.copy] = sent[l.copy]
  <2>1. /\ Handed("upload")' = Handed("upload")
        /\ \A l \in Handed("upload") : l.copy \in DOMAIN sent
    BY HandedStays
  <2> QED BY <2>1 DEF UploadsOf
<1>2. ASSUME NEW x \in HandlerNodes, NEW model \in ModelID PROVE Remembers(x, model)'
  <2>1. Remembers(x, model)
    BY DEF UpToDate
  <2> QED BY <1>1, <2>1 DEF Remembers
<1>3. AnswersAreCurrent'
  <2>1. ASSUME NEW k \in Answers PROVE Current(k)'
    <3>1. Current(k) /\ sent'[k] = sent[k]
      BY DEF UpToDate, AnswersAreCurrent, Answers, Current
    <3>2. ASSUME NEW model, NEW x, model = sent[k].b.payload.model, x = sent[k].node
          PROVE Current(k)'
      <4>1. /\ UploadsOf(model, x)' = UploadsOf(model, x)
            /\ \A l \in UploadsOf(model, x) : sent'[l.copy] = sent[l.copy]
        BY <1>1
      <4> QED BY <3>1, <3>2, <4>1 DEF Current
    <3> QED BY <3>2
  <2> QED BY <2>1 DEF AnswersAreCurrent, Current
<1>4. \A x \in HandlerNodes : /\ DOMAIN app'[x].node = {"factories", "models", "scenes"}
                              /\ app'[x].node.factories = Launch.factories
  BY DEF UpToDate
<1> QED BY <1>2, <1>3, <1>4 DEF UpToDate

LEMMA StaysInOrder ==
    ASSUME MeshInv, InOrder, NEW ev \in eq, \A other \in eq : ev.time <= other.time,
           runs' = runs, \A e \in eq' \ eq : ev.time <= e.time, eq' \subseteq Event,
           \A l \in log' \ log : l.time = ev.time,
           \A k \in DOMAIN sent : sent'[k] = sent[k],
           \A k \in Answers' \ Answers : sent'[k].at = ev.time
    PROVE InOrder'
<1>1. /\ ev.time \in Int /\ \A e \in eq' : e.time \in Int /\ ev.time <= e.time
      /\ sent # <<>> /\ sent \in Seq(Introduction)
  <2>1. ev \in Event /\ ev.copy \in DOMAIN sent
    BY Alone
  <2> QED BY <2>1 DEF Event, Time, MeshInv, TypeOK
<1>2. runs' = 1 /\ runs = 1
  BY <1>1 DEF InOrder
<1>3. \A l \in log' : l.time \in Int /\ l.time <= ev.time
  BY <1>1 DEF InOrder
<1>4. \A k \in Answers' : sent'[k].at \in Int /\ sent'[k].at <= ev.time
  <2>1. \A k \in Answers : k \in DOMAIN sent /\ sent[k] \in Introduction
    BY <1>1 DEF Answers
  <2>2. \A k \in Answers : sent[k].at \in Int /\ sent[k].at <= ev.time
    BY <2>1 DEF InOrder, Introduction, Time
  <2> QED BY <1>1, <2>1, <2>2
<1> QED BY <1>1, <1>2, <1>3, <1>4 DEF InOrder

LEMMA RepliesTell ==
    ASSUME NEW req, NEW models, NEW scenes, NEW a \in Replies(req, models, scenes), NEW model
    PROVE /\ models = {} => a.summary = "not deployed"
          /\ models = {model} => /\ a.summary # "not deployed"
                                 /\ a.ok => a.result[1] = model
<1>1. ASSUME NEW why, a = ReplyTo(req, FALSE, <<>>, why) PROVE a.summary = why /\ ~a.ok
  <2>1. a.summary = why /\ a.ok = FALSE
    BY <1>1 DEF ReplyTo
  <2> QED BY <2>1
<1>2. CASE models = {}
  <2>1. Replies(req, models, scenes) = {ReplyTo(req, FALSE, <<>>, "not deployed")}
    BY <1>2 DEF Replies
  <2>2. a = ReplyTo(req, FALSE, <<>>, "not deployed")
    BY <2>1
  <2> QED BY <1>1, <1>2, <2>2
<1>3. CASE models = {model}
  <2>0. models # {}
    BY <1>3
  <2>1. CASE scenes = {}
    <3>1. Replies(req, models, scenes) = {ReplyTo(req, FALSE, <<>>, "not available")}
      BY <2>0, <2>1 DEF Replies
    <3>2. a = ReplyTo(req, FALSE, <<>>, "not available")
      BY <3>1
    <3>3. a.summary = "not available" /\ ~a.ok
      BY <1>1, <3>2
    <3>4. a.summary # "not deployed"
      BY <3>3
    <3> QED BY <2>0, <3>3, <3>4
  <2>2. CASE scenes # {} /\ scenes \subseteq Unusable
    <3>1. Replies(req, models, scenes) = {ReplyTo(req, FALSE, <<>>, "failed")}
      BY <2>0, <2>2 DEF Replies
    <3>2. a = ReplyTo(req, FALSE, <<>>, "failed")
      BY <3>1
    <3>3. a.summary = "failed" /\ ~a.ok
      BY <1>1, <3>2
    <3>4. a.summary # "not deployed"
      BY <3>3
    <3> QED BY <2>0, <3>3, <3>4
  <2>3. CASE ~(scenes = {} \/ scenes \subseteq Unusable)
    <3>1. PICK found \in models \X scenes : a = ReplyTo(req, TRUE, found, "done")
      BY <2>0, <2>3 DEF Replies
    <3>2. a.summary = "done" /\ a.result = found
      BY <3>1 DEF ReplyTo
    <3> QED BY <1>3, <2>0, <3>1, <3>2
  <2> QED BY <2>1, <2>2, <2>3
<1> QED BY <1>2, <1>3

LEMMA AnswerTells ==
    ASSUME NEW node, NEW req
    PROVE LET a == RunInference(node, req) IN
          /\ a.model = req.model
          /\ req.model \notin DOMAIN node.models => a.summary = "not deployed"
          /\ req.model \in DOMAIN node.models =>
               /\ a.summary # "not deployed"
               /\ a.ok => a.result[1] = node.models[req.model]
<1> DEFINE models == Find(node.models, req.model)
           scenes == Find(node.scenes, req.input)
           a == Answer(req, models, scenes)
<1>1. RunInference(node, req) = a
  BY DEF RunInference
<1>2. a.model = req.model /\ a \in Replies(req, models, scenes)
  BY AnswerFacts
<1>3. /\ req.model \in DOMAIN node.models => models = {node.models[req.model]}
      /\ req.model \notin DOMAIN node.models => models = {}
  BY DEF Find
<1> HIDE DEF models, scenes, a
<1>4. \A model : /\ models = {} => a.summary = "not deployed"
                 /\ models = {model} => /\ a.summary # "not deployed"
                                        /\ a.ok => a.result[1] = model
  BY <1>2, RepliesTell
<1> QED BY <1>1, <1>2, <1>3, <1>4

\* What the delivery of an upload or a request at a compute node does to its maps.
LEMMA HandlerDeploys ==
    ASSUME Hosted, MeshInv, Identified, UpToDate, NEW ev \in eq, Deliver(ev),
           ev.node \in HandlerNodes
    PROVE LET x == ev.node
              msg == ev.b.payload
              new == msg.type = "upload" /\ Deployable(Launch, msg)
          IN /\ \A y \in HandlerNodes :
                  /\ DOMAIN app'[y].node = {"factories", "models", "scenes"}
                  /\ app'[y].node.factories = Launch.factories
                  /\ ~(y = x /\ new) => app'[y].node.models = app[y].node.models
             /\ new => app'[x].node.models = Put(app[x].node.models, msg.model, Made(Launch, msg))
<1> DEFINE x == ev.node
           msg == ev.b.payload
           new == msg.type = "upload" /\ Deployable(Launch, msg)
           node == app[x].node
           after == HandleMessage(node, msg).node
           used == IF msg.type = "request" THEN app[x].replySeq + 1 ELSE app[x].replySeq
<1>1. app' = [app EXCEPT ![x] = [node |-> after, replySeq |-> used]]
  BY HandlerReacts DEF Identified
<1>2. DOMAIN app = HandlerNodes
  BY DEF Identified
<1>3. \A y \in HandlerNodes : /\ DOMAIN app[y].node = {"factories", "models", "scenes"}
                              /\ app[y].node.factories = Launch.factories
  BY DEF UpToDate
<1>4. new <=> msg.type = "upload" /\ Deployable(node, msg)
  BY <1>3 DEF Deployable
<1>5. after = IF new THEN [node EXCEPT !.models = Put(node.models, msg.model, Made(node, msg))]
              ELSE node
  BY <1>4 DEF HandleMessage, Deployed
<1>6. Made(node, msg) = Made(Launch, msg)
  BY <1>3 DEF Made
<1> HIDE DEF new, msg, used, after
<1>7. /\ app'[x].node = after
      /\ \A y \in HandlerNodes \ {x} : app'[y].node = app[y].node
  BY <1>1, <1>2
<1>8. /\ DOMAIN after = {"factories", "models", "scenes"} /\ after.factories = Launch.factories
      /\ after.models = IF new THEN Put(node.models, msg.model, Made(Launch, msg)) ELSE node.models
  <2>1. DOMAIN node = {"factories", "models", "scenes"} /\ node.factories = Launch.factories
    BY <1>3
  <2> HIDE DEF node
  <2> QED BY <1>5, <1>6, <2>1
<1>9. \A y \in HandlerNodes :
         /\ DOMAIN app'[y].node = {"factories", "models", "scenes"}
         /\ app'[y].node.factories = Launch.factories
         /\ ~(y = x /\ new) => app'[y].node.models = app[y].node.models
  BY <1>3, <1>7, <1>8
<1>10. new => app'[x].node.models = Put(app[x].node.models, msg.model, Made(Launch, msg))
  BY <1>7, <1>8
<1> QED BY <1>9, <1>10 DEF new, msg

LEMMA HandlerUploads ==
    ASSUME Hosted, MeshInv, Identified, NEW ev \in eq, Deliver(ev), ev.node \in HandlerNodes,
           NEW model, NEW x
    PROVE LET msg == ev.b.payload
              new == msg.type = "upload" /\ Deployable(Launch, msg)
              e == Entry(ev, "delivered")
          IN /\ UploadsOf(model, x)' =
                  UploadsOf(model, x) \cup
                     (IF new /\ x = ev.node /\ model = msg.model THEN {e} ELSE {})
             /\ \A l \in UploadsOf(model, x) : sent'[l.copy] = sent[l.copy]
             /\ e.time = ev.time /\ sent'[e.copy].b.payload = msg
<1> DEFINE msg == ev.b.payload
           new == msg.type = "upload" /\ Deployable(Launch, msg)
           e == Entry(ev, "delivered")
<1>1. /\ \A k \in DOMAIN sent : sent'[k] = sent[k]
      /\ Handed("upload")' = Handed("upload") \cup (IF "upload" = msg.type THEN {e} ELSE {})
      /\ \A l \in Handed("upload") : l.copy \in DOMAIN sent
      /\ e.copy \in DOMAIN sent /\ sent[e.copy].b = ev.b
      /\ e.node = ev.node /\ e.time = ev.time
  BY HandlerHands, Zenon
<1> HIDE DEF e
<1>2. \A l \in UploadsOf(model, x) : sent'[l.copy] = sent[l.copy]
  BY <1>1 DEF UploadsOf
<1>3. e.time = ev.time /\ sent'[e.copy].b.payload = msg
  BY <1>1
<1> HIDE DEF msg
<1>4. UploadsOf(model, x)' =
        UploadsOf(model, x) \cup (IF new /\ x = ev.node /\ model = msg.model THEN {e} ELSE {})
  BY <1>1, <1>3 DEF UploadsOf
<1> QED BY <1>2, <1>3, <1>4 DEF e, msg

LEMMA HandlerUpToDate ==
    ASSUME Hosted, MeshInv, MeshInv', Identified, UpToDate, NEW ev \in eq, Deliver(ev),
           ev.node \in HandlerNodes
    PROVE UpToDate'
<1> DEFINE n == Len(sent) + 1
           e == Entry(ev, "delivered")
           msg == ev.b.payload
           new == msg.type = "upload" /\ Deployable(Launch, msg)
           asked == msg.type = "request"
<1>1. /\ \A k \in DOMAIN sent : sent'[k] = sent[k]
      /\ n \notin DOMAIN sent /\ Answers' = Answers \cup (IF asked THEN {n} ELSE {})
      /\ asked => /\ sent'[n].node = ev.node /\ sent'[n].at = ev.time
                  /\ sent'[n].b.payload = RunInference(app[ev.node].node, ev.b.payload)
  BY HandlerHands, Zenon
<1>2. /\ ev.time \in Int /\ \A other \in eq : ev.time <= other.time
      /\ runs' = runs /\ \A a \in eq' \ eq : ev.time <= a.time
      /\ \A l \in log' \ log : l.time = ev.time
      /\ eq' \subseteq Event
  <2>1. ev \in Event
    BY Alone
  <2>2. \A a \in eq' \ eq : ev.time <= a.time
    <3>1. \E more \in Seq(Introduction) :
               /\ eq' = (eq \ {ev}) \cup Arrivals(more, Len(sent))
               /\ \A a \in Arrivals(more, Len(sent)) : ev.time <= a.time
      BY <2>1, DeliverOutcome
    <3> QED BY <3>1
  <2>3. \A l \in log' \ log : l.time = ev.time
    BY DEF Deliver, Entries, Injected, Entry
  <2> QED BY <2>1, <2>2, <2>3 DEF Deliver, Pop, Event, Time, MeshInv, TypeOK
<1>3. InOrder /\ AnswersAreCurrent /\ \A x \in HandlerNodes, model \in ModelID : Remembers(x, model)
  BY DEF UpToDate
<1>4. InOrder'
  <2>1. \A k \in Answers' \ Answers : sent'[k].at = ev.time
    BY <1>1
  <2> QED BY <1>1, <1>2, <1>3, <2>1, StaysInOrder
<1>5. /\ \A l \in log : l.time \in Int /\ l.time <= ev.time
      /\ \A k \in Answers : sent[k].at \in Int /\ sent[k].at <= ev.time
  <2>1. \A k \in Answers : sent[k] \in Introduction
    BY DEF Answers, MeshInv, TypeOK
  <2> QED BY <1>3, <2>1 DEF InOrder, Introduction, Time
<1>6. ASSUME NEW model, NEW x
      PROVE /\ UploadsOf(model, x)' =
                 UploadsOf(model, x) \cup
                    (IF new /\ x = ev.node /\ model = msg.model THEN {e} ELSE {})
            /\ \A l \in UploadsOf(model, x) : sent'[l.copy] = sent[l.copy] /\ l \in log
            /\ e.time = ev.time /\ sent'[e.copy].b.payload = msg
  <2>1. \A l \in UploadsOf(model, x) : l \in log
    BY UploadFacts
  <2>2. /\ UploadsOf(model, x)' =
             UploadsOf(model, x) \cup
                (IF new /\ x = ev.node /\ model = msg.model THEN {e} ELSE {})
        /\ \A l \in UploadsOf(model, x) : sent'[l.copy] = sent[l.copy]
        /\ e.time = ev.time /\ sent'[e.copy].b.payload = msg
    BY HandlerUploads
  <2> QED BY <2>1, <2>2, Zenon
<1>7. /\ \A y \in HandlerNodes :
           /\ DOMAIN app'[y].node = {"factories", "models", "scenes"}
           /\ app'[y].node.factories = Launch.factories
           /\ ~(y = ev.node /\ new) => app'[y].node.models = app[y].node.models
      /\ new => app'[ev.node].node.models =
                  Put(app[ev.node].node.models, msg.model, Made(Launch, msg))
  BY HandlerDeploys, Zenon
<1> HIDE DEF n, e, msg, new, asked
<1>8. ASSUME NEW x \in HandlerNodes, NEW model \in ModelID PROVE Remembers(x, model)'
  <2>1. Remembers(x, model)
    BY <1>3
  <2>2. CASE new /\ x = ev.node /\ model = msg.model
    <3>1. /\ model \in DOMAIN app'[x].node.models
          /\ app'[x].node.models[model] = Made(Launch, sent'[e.copy].b.payload)
      BY <2>2, <1>6, <1>7 DEF Put
    <3>2. e \in UploadsOf(model, x)' /\ \A l \in UploadsOf(model, x)' : l.time <= e.time
      BY <2>2, <1>2, <1>5, <1>6
    <3> QED BY <3>1, <3>2 DEF Remembers
  <2>3. CASE ~(new /\ x = ev.node /\ model = msg.model)
    <3>1. /\ UploadsOf(model, x)' = UploadsOf(model, x)
          /\ \A l \in UploadsOf(model, x) : sent'[l.copy] = sent[l.copy]
      <4>1. /\ UploadsOf(model, x)' =
                 UploadsOf(model, x) \cup
                    (IF new /\ x = ev.node /\ model = msg.model THEN {e} ELSE {})
            /\ \A l \in UploadsOf(model, x) : sent'[l.copy] = sent[l.copy]
        BY <1>6
      <4> QED BY <2>3, <4>1
    <3>2. /\ model \in DOMAIN app'[x].node.models <=> model \in DOMAIN app[x].node.models
          /\ model \in DOMAIN app[x].node.models =>
               app'[x].node.models[model] = app[x].node.models[model]
      BY <2>3, <1>7 DEF Put
    <3> QED BY <2>1, <3>1, <3>2 DEF Remembers
  <2> QED BY <2>2, <2>3
<1>9. ASSUME NEW k \in Answers PROVE Current(k)'
  <2>1. Current(k) /\ sent'[k] = sent[k]
    BY <1>1, <1>3 DEF AnswersAreCurrent, Answers, Current
  <2>2. ASSUME NEW model, NEW x, model = sent[k].b.payload.model, x = sent[k].node
        PROVE Current(k)'
    <3>1. /\ UploadsOf(model, x) \subseteq UploadsOf(model, x)'
          /\ \A l \in UploadsOf(model, x)' \ UploadsOf(model, x) : l.time = ev.time
          /\ \A l \in UploadsOf(model, x) : sent'[l.copy] = sent[l.copy]
      BY <1>6
    <3>2. /\ ev.time >= sent[k].at
          /\ \A m \in UploadsOf(model, x)' \ UploadsOf(model, x) : ~(m.time < sent[k].at)
      BY <1>2, <1>5, <3>1
    <3> QED BY <2>1, <2>2, <3>1, <3>2 DEF Current
  <2> QED BY <2>2
<1>10. ASSUME asked, NEW k, k = n PROVE Current(k)'
  <2>1. ASSUME NEW model, model = msg.model, NEW x, x = ev.node PROVE Current(k)'
    <3>1. model \in ModelID
      <4>1. msg \in Message
        BY Alone, BridgeAssumption DEF Event, BundleType, msg
      <4>2. msg \in InferenceRequest
        BY <4>1, <1>10 DEF Message, ModelUpload, InferenceResponse, Undecodable,
                           InferenceRequest, asked
      <4> QED BY <2>1, <4>2 DEF InferenceRequest
    <3>2. Remembers(x, model)
      BY <1>3, <2>1, <3>1
    <3>3. UploadsOf(model, x)' = UploadsOf(model, x)
      BY <1>6, <1>10 DEF new, asked
    <3>4. \A l \in UploadsOf(model, x) :
             l.time \in Int /\ l.time <= ev.time /\ sent'[l.copy] = sent[l.copy]
      BY <1>5, <1>6
    <3>5. /\ sent'[k].node = x /\ sent'[k].at = ev.time
          /\ sent'[k].b.payload.model = model
          /\ model \notin DOMAIN app[x].node.models =>
               sent'[k].b.payload.summary = "not deployed"
          /\ model \in DOMAIN app[x].node.models =>
               /\ sent'[k].b.payload.summary # "not deployed"
               /\ sent'[k].b.payload.ok =>
                    sent'[k].b.payload.result[1] = app[x].node.models[model]
      <4> DEFINE a == RunInference(app[ev.node].node, msg)
      <4>1. /\ a.model = msg.model
            /\ msg.model \notin DOMAIN app[ev.node].node.models => a.summary = "not deployed"
            /\ msg.model \in DOMAIN app[ev.node].node.models =>
                 /\ a.summary # "not deployed"
                 /\ a.ok => a.result[1] = app[ev.node].node.models[msg.model]
        BY AnswerTells, Zenon
      <4>2. sent'[n].node = ev.node /\ sent'[n].at = ev.time /\ sent'[n].b.payload = a
        BY <1>1, <1>10 DEF msg
      <4> HIDE DEF a
      <4> QED BY <4>1, <4>2, <1>10, <2>1
    <3>6. CASE model \notin DOMAIN app[x].node.models
      <4>1. UploadsOf(model, x) = {}
        BY <3>2, <3>6 DEF Remembers
      <4> QED BY <3>3, <3>5, <3>6, <4>1 DEF Current
    <3>7. CASE model \in DOMAIN app[x].node.models
      <4>1. PICK l \in UploadsOf(model, x) :
              /\ \A m \in UploadsOf(model, x) : m.time <= l.time
              /\ app[x].node.models[model] = Made(Launch, sent[l.copy].b.payload)
        BY <3>2, <3>7 DEF Remembers
      <4>2. /\ l.time <= ev.time
            /\ \A m \in UploadsOf(model, x) : ~(l.time < m.time /\ m.time < ev.time)
        BY <3>4, <4>1
      <4> QED BY <3>3, <3>4, <3>5, <3>7, <4>1, <4>2 DEF Current
    <3> QED BY <3>6, <3>7
  <2> QED BY <2>1
<1>11. AnswersAreCurrent'
  <2>1. \A k \in Answers' : Current(k)'
    BY <1>1, <1>9, <1>10
  <2> QED BY <2>1 DEF AnswersAreCurrent, Current
<1> QED BY <1>4, <1>7, <1>8, <1>11 DEF UpToDate

LEMMA RunUpToDate ==
    ASSUME MeshInv, MeshInv', OnlyHandlersAnswer, UpToDate, MaxRuns = 1, Run
    PROVE UpToDate'
<1>1. runs = 0 /\ runs' = 1 /\ sent = <<>> /\ log = {}
  BY DEF Run, UpToDate, InOrder
<1>2. sent' = sent \o pending /\ log' = log /\ app' = app /\ pending \in Seq(Introduction)
  BY DEF Run, MeshInv, TypeOK
<1>3. sent' = pending
  BY <1>1, <1>2
<1>4. Answers = {} /\ Answers' = {}
  BY <1>1, <1>3 DEF Answers, Is, OnlyHandlersAnswer
<1>5. InOrder'
  BY <1>1, <1>2, <1>4 DEF InOrder
<1>6. DOMAIN sent \subseteq DOMAIN sent' /\ \A k \in DOMAIN sent : sent'[k] = sent[k]
  BY <1>1
<1>7. log \subseteq log' /\ \A l \in log' \ log : l.kind = "delivered" => l.node \notin HandlerNodes
  BY <1>1, <1>2
<1> QED BY <1>2, <1>4, <1>5, <1>6, <1>7, OthersCurrent

LEMMA BridgeNextUpToDate ==
    ASSUME Hosted, MeshInv, MeshInv', Identified, OnlyHandlersAnswer, UpToDate, MaxRuns = 1,
           [BridgeNext]_bridgeVars
    PROVE UpToDate'
<1>1. ASSUME app' = app, sent' = sent, log' = log, runs' = runs, eq' \subseteq eq
      PROVE UpToDate'
  <2>1. Answers' = Answers
    BY <1>1 DEF Answers, Is
  <2>2. InOrder'
    BY <1>1, <2>1 DEF InOrder, UpToDate
  <2> QED BY <1>1, <2>1, <2>2, OthersCurrent
<1>2. ASSUME NEW ev \in eq, Turn(ev) PROVE UpToDate'
  <2>1. CASE Deliver(ev) /\ ev.node \in HandlerNodes
    BY <2>1, HandlerUpToDate
  <2>2. CASE Quiet(ev)
    <3>1. /\ app' = app /\ sent' = sent /\ runs' = runs /\ log \subseteq log'
          /\ \A e \in eq' \ eq : ev.time <= e.time
          /\ \A l \in log' \ log : /\ l.time = ev.time
                                   /\ l.kind = "delivered" => l.node \notin HandlerNodes
      BY <2>2, QuietFacts
    <3>2. Answers' = Answers
      BY <3>1 DEF Answers, Is
    <3>3. (\A other \in eq : ev.time <= other.time) /\ eq' \subseteq Event
      BY <2>2 DEF Quiet, DropDuplicate, DropExpired, Strand, Drop, Forward, Deliver, Pop,
                  MeshInv, TypeOK
    <3>4. InOrder'
      BY <3>1, <3>2, <3>3, StaysInOrder DEF UpToDate
    <3> QED BY <3>1, <3>2, <3>4, OthersCurrent
  <2> QED BY <1>2, <2>1, <2>2 DEF Turn, Quiet
<1>3. ASSUME NEW task \in Tasks, Send(task) PROVE UpToDate'
  BY <1>1, <1>3 DEF Send, Inject
<1>4. CASE (\E in \in Injections : Inject(in)) \/ Finish \/ BreakOff \/ UNCHANGED bridgeVars
  BY <1>1, <1>4 DEF Inject, Finish, BreakOff, bridgeVars
<1> QED BY <1>2, <1>3, <1>4, RunUpToDate DEF BridgeNext, Next, Loop

\* responder.go, node.go: in a single call of Run, an answer tells of the model
\* that arrived last at the compute node before the request did, and only of
\* that; "not deployed" only if none had arrived.  Without the bound on the
\* calls it is not so: a second Run starts again at the earliest arrival, with
\* the compute nodes as the first one left them.
THEOREM AnswersStayCurrent ==
    ASSUME Hosted, MaxRuns = 1 PROVE BridgeSpec => []AnswersAreCurrent
<1>1. BridgeInit => UpToDate
  <2>1. ASSUME BridgeInit PROVE UpToDate
    <3>1. /\ app = Aboard /\ runs = 0 /\ sent = <<>> /\ log = {} /\ eq = {}
      BY <2>1, EndpointsAssumption DEF BridgeInit, Init
    <3>2. \A x \in HandlerNodes : app[x].node = Launch
      BY <3>1 DEF Aboard
    <3>3. DOMAIN Launch = {"factories", "models", "scenes"} /\ Launch.models = EmptyMap
      BY EndpointsAssumption
    <3>4. Answers = {} /\ \A model, x : UploadsOf(model, x) = {}
      BY <3>1 DEF Answers, UploadsOf, Handed
    <3>5. \A x \in HandlerNodes, model \in ModelID : Remembers(x, model)
      BY <3>2, <3>3, <3>4 DEF Remembers, EmptyMap
    <3>6. InOrder /\ AnswersAreCurrent
      BY <3>1, <3>4 DEF InOrder, AnswersAreCurrent
    <3> QED BY <3>2, <3>3, <3>5, <3>6 DEF UpToDate
  <2> QED BY <2>1
<1>2. /\ UpToDate /\ MeshInv /\ MeshInv' /\ Identified /\ OnlyHandlersAnswer
      /\ [BridgeNext]_bridgeVars
      => UpToDate'
  BY BridgeNextUpToDate
<1>3. UpToDate => AnswersAreCurrent
  BY DEF UpToDate
<1> QED BY <1>1, <1>2, <1>3, BridgeCorrect, PTL DEF BridgeSpec
=============================================================================
