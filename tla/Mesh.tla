-------------------------------- MODULE Mesh --------------------------------
(***************************************************************************)
(* The mesh simulation of package sim: nodes that share one contact plan,  *)
(* the queue of scheduled arrivals, and the application handlers.          *)
(*                                                                         *)
(* A caller injects bundles and calls Run; Run takes the earliest arrival  *)
(* off the queue until none is left.  Arrivals at the same instant come    *)
(* off the heap in any order, and where several routes arrive equally      *)
(* early FindRoute may return any of them (FirstHops).                     *)
(***************************************************************************)
EXTENDS Node, ContactGraph

CONSTANTS
    Plan,             \* the contact plan
    Injections,       \* what may be injected: [node, b, at]
    MaxInjections,    \* bound on the calls of Inject
    MaxRuns,          \* bound on the calls of Run
    MaxEvents,        \* maxEvents, the bound on the loop of Run
    HandlerNodes,     \* nodes with an application handler
    AppInit,          \* what the handlers remember, at first
    Handle(_, _, _, _)  \* (memory, node, bundle, time) -> set of possible
                        \* [app |-> memory, out |-> sequence of introductions]

\* What Inject is called with, and what a handler returns (OutboundBundle).
Introduction == [node : Node, b : BundleType, at : Time]

ASSUME MeshAssumption ==
    /\ Plan \in ContactPlan
    /\ Injections \subseteq Introduction
    /\ MaxInjections \in Nat /\ MaxRuns \in Nat /\ MaxEvents \in Nat
    /\ HandlerNodes \subseteq Node

VARIABLES
    nodes,      \* the nodes registered so far
    app,        \* what the handlers remember
    pending,    \* injections, in the order of the calls
    runs,       \* calls of Run so far
    running,    \* a call of Run is under way
    eq,         \* its event queue
    processed,  \* its events so far
    sent,       \* all introductions of a bundle, by injection or by a handler
    log,        \* the trace entries of all reports
    abandoned   \* events that were in the queue when a run was broken off

vars == <<nodes, app, pending, runs, running, eq, processed, sent, log, abandoned>>

(***************************************************************************)
(* Every introduction of a bundle is a copy, numbered by its place in      *)
(* sent.  The number follows the bundle from queue to queue, so no two     *)
(* events are equal and the heap is a set.                                 *)
(***************************************************************************)
Arrival(time, node, b, injected, copy) ==
    [time |-> time, node |-> node, b |-> b, injected |-> injected, copy |-> copy]

Arrivals(introductions, first) ==
    {Arrival(introductions[i].at, introductions[i].node, introductions[i].b,
             TRUE, first + i) : i \in DOMAIN introductions}

AddNode(ns, id) ==
    [x \in DOMAIN ns \cup {id} |-> IF x \in DOMAIN ns THEN ns[x] ELSE NewNode]

Init ==
    /\ nodes = [x \in HandlerNodes |-> NewNode]
    /\ app = AppInit
    /\ pending = <<>>
    /\ runs = 0
    /\ running = FALSE
    /\ eq = {}
    /\ processed = 0
    /\ sent = <<>>
    /\ log = {}
    /\ abandoned = {}

Inject(in) ==
    /\ ~running
    /\ runs < MaxRuns
    /\ Len(pending) < MaxInjections
    /\ nodes' = AddNode(nodes, in.node)
    /\ pending' = Append(pending, in)
    /\ UNCHANGED <<app, runs, running, eq, processed, sent, log, abandoned>>

\* Run begins: everything ever injected is scheduled (again).
Run ==
    /\ ~running
    /\ runs < MaxRuns
    /\ running' = TRUE
    /\ runs' = runs + 1
    /\ processed' = 0
    /\ eq' = Arrivals(pending, Len(sent))
    /\ sent' = sent \o pending
    /\ UNCHANGED <<nodes, app, pending, log, abandoned>>

-----------------------------------------------------------------------------
(***************************************************************************)
(* One turn of the loop, by what Ingest makes of the bundle                *)
(***************************************************************************)
Pop(ev) ==
    /\ running
    /\ processed < MaxEvents
    /\ \A other \in eq : ev.time <= other.time
    /\ processed' = processed + 1
    /\ UNCHANGED <<pending, runs, running, abandoned>>

Host(ev) == AddNode(nodes, ev.node)[ev.node]

Ingested(ev) ==
    [AddNode(nodes, ev.node) EXCEPT
        ![ev.node] = AfterIngest(ev.node, Host(ev), ev.b, ev.time)]

Entry(ev, kind) == [kind |-> kind, copy |-> ev.copy, node |-> ev.node, time |-> ev.time]

Injected(ev) == IF ev.injected THEN {Entry(ev, "injected")} ELSE {}

Entries(ev, kind) == Injected(ev) \cup {Entry(ev, kind)}

\* Mutant: replies may be dated before the delivery.
ScheduledAsAsked(out, now) == out

\* Replies enter the mesh no earlier than the delivery that caused them.
Scheduled(out, now) ==
    [i \in DOMAIN out |->
        [out[i] EXCEPT !.at = IF out[i].at < now THEN now ELSE out[i].at]]

\* The replies have the type that the code declares for them.
Reactions(ev) ==
    IF ev.node \in HandlerNodes
    THEN {r \in Handle(app, ev.node, ev.b, ev.time) : r.out \in Seq(Introduction)}
    ELSE {[app |-> app, out |-> <<>>]}

\* Mutant: a delivered bundle stays in the queue.
DeliverAndKeep(ev) ==
    /\ Pop(ev)
    /\ IsDelivered(ev.node, Host(ev), ev.b, ev.time)
    /\ nodes' = Ingested(ev)
    /\ log' = log \cup Entries(ev, "delivered")
    /\ \E r \in Reactions(ev) :
         LET replies == Scheduled(r.out, ev.time) IN
         /\ app' = r.app
         /\ eq' = eq \cup Arrivals(replies, Len(sent))
         /\ sent' = sent \o replies

Deliver(ev) ==
    /\ Pop(ev)
    /\ IsDelivered(ev.node, Host(ev), ev.b, ev.time)
    /\ nodes' = Ingested(ev)
    /\ log' = log \cup Entries(ev, "delivered")
    /\ \E r \in Reactions(ev) :
         LET replies == Scheduled(r.out, ev.time) IN
         /\ app' = r.app
         /\ eq' = (eq \ {ev}) \cup Arrivals(replies, Len(sent))
         /\ sent' = sent \o replies

\* Mutant: a dropped bundle stays in the queue and is not even counted.
DropForEver(ev, kind) ==
    /\ running
    /\ \A other \in eq : ev.time <= other.time
    /\ nodes' = Ingested(ev)
    /\ log' = log \cup Entries(ev, kind)
    /\ UNCHANGED <<app, pending, runs, running, eq, processed, sent, abandoned>>

Drop(ev, kind) ==
    /\ Pop(ev)
    /\ nodes' = Ingested(ev)
    /\ log' = log \cup Entries(ev, kind)
    /\ eq' = eq \ {ev}
    /\ UNCHANGED <<app, sent>>

DropDuplicate(ev) == IsDuplicate(Host(ev), ev.b) /\ Drop(ev, "duplicate")

DropExpired(ev) == IsExpired(Host(ev), ev.b, ev.time) /\ Drop(ev, "expired")

\* Mutants: the next contact that is over first, wherever it leads; the route
\* from the beginning of the plan.
GreedyHops(ev) ==
    LET open == {c \in ContactsOf(Plan) :
                   c.from = ev.node /\ Carries(c, ev.time, ev.b.size)}
    IN {c \in open : \A d \in open : ArrivalTime(c, ev.time, ev.b.size)
                                       <= ArrivalTime(d, ev.time, ev.b.size)}

HopsAtStart(ev) == FirstHops(Plan, ev.node, NodeID(ev.b.dest), ev.b.size, 0)

\* The first contact of a route FindRoute may return at this node, now.
Hops(ev) == FirstHops(Plan, ev.node, NodeID(ev.b.dest), ev.b.size, ev.time)

\* No route, or a route whose first contact cannot be taken after all: the
\* bundle stays in the store, where nothing will look at it again.
Strand(ev) ==
    /\ IsStored(ev.node, Host(ev), ev.b, ev.time)
    /\ Hops(ev) # {} => \E c \in Hops(ev) : ~Carries(c, ev.time, ev.b.size)
    /\ Drop(ev, "undeliverable")

\* Mutant: a forwarded bundle stays in the store.
ForwardUndequeued(ev) ==
    /\ Pop(ev)
    /\ IsStored(ev.node, Host(ev), ev.b, ev.time)
    /\ \E c \in Hops(ev) :
         /\ Carries(c, ev.time, ev.b.size)
         /\ nodes' = Ingested(ev)
         /\ eq' = (eq \ {ev}) \cup
                  {Arrival(ArrivalTime(c, ev.time, ev.b.size), c.to, ev.b, FALSE, ev.copy)}
         /\ log' = log \cup Injected(ev)
                       \cup {[kind |-> "forwarded", copy |-> ev.copy,
                              node |-> ev.node, time |-> ev.time, via |-> c]}
    /\ UNCHANGED <<app, sent>>

\* Mutant: the light time is left out.
ForwardInNoTime(ev) ==
    /\ Pop(ev)
    /\ IsStored(ev.node, Host(ev), ev.b, ev.time)
    /\ \E c \in Hops(ev) :
         /\ Carries(c, ev.time, ev.b.size)
         /\ nodes' = [Ingested(ev) EXCEPT ![ev.node] = AfterDequeue(@, ID(ev.b))]
         /\ eq' = (eq \ {ev}) \cup
                  {Arrival(TxFinish(c, ev.time, ev.b.size), c.to, ev.b, FALSE, ev.copy)}
         /\ log' = log \cup Injected(ev)
                       \cup {[kind |-> "forwarded", copy |-> ev.copy,
                              node |-> ev.node, time |-> ev.time, via |-> c]}
    /\ UNCHANGED <<app, sent>>

Forward(ev) ==
    /\ Pop(ev)
    /\ IsStored(ev.node, Host(ev), ev.b, ev.time)
    /\ \E c \in Hops(ev) :
         /\ Carries(c, ev.time, ev.b.size)
         /\ nodes' = [Ingested(ev) EXCEPT ![ev.node] = AfterDequeue(@, ID(ev.b))]
         /\ eq' = (eq \ {ev}) \cup
                  {Arrival(ArrivalTime(c, ev.time, ev.b.size), c.to, ev.b, FALSE, ev.copy)}
         /\ log' = log \cup Injected(ev)
                       \cup {[kind |-> "forwarded", copy |-> ev.copy,
                              node |-> ev.node, time |-> ev.time, via |-> c]}
    /\ UNCHANGED <<app, sent>>

Finish ==
    /\ running
    /\ eq = {}
    /\ running' = FALSE
    /\ UNCHANGED <<nodes, app, pending, runs, eq, processed, sent, log, abandoned>>

\* processed > maxEvents: the queue is a local variable and goes with the call.
BreakOff ==
    /\ running
    /\ eq # {}
    /\ processed = MaxEvents
    /\ running' = FALSE
    /\ eq' = {}
    /\ abandoned' = abandoned \cup eq
    /\ UNCHANGED <<nodes, app, pending, runs, processed, sent, log>>

Turn(ev) ==
    \/ Deliver(ev) \/ DropDuplicate(ev) \/ DropExpired(ev) \/ Strand(ev) \/ Forward(ev)

Loop == (\E ev \in eq : Turn(ev)) \/ Finish \/ BreakOff

Next == (\E in \in Injections : Inject(in)) \/ Run \/ Loop

Spec == Init /\ [][Next]_vars

\* Run is a loop in one goroutine: once called it keeps going.
FairSpec == Spec /\ WF_vars(Loop)

-----------------------------------------------------------------------------
(***************************************************************************)
(* Properties                                                              *)
(***************************************************************************)
Ends == {"delivered", "duplicate", "expired", "undeliverable"}

EndsOf(k) == {l \in log : l.copy = k /\ l.kind \in Ends}

FlightsOf(k) == {ev \in eq : ev.copy = k}

LostOf(k) == {ev \in abandoned : ev.copy = k}

\* Every copy that entered the mesh is either on its way, in one place, or has
\* come to one end: no turn of the loop, error exit or second Run loses or
\* multiplies a bundle.
OneCustodian ==
    /\ \A ev \in eq : ev.b = sent[ev.copy].b
    /\ \A k \in DOMAIN sent :
         Cardinality(FlightsOf(k)) + Cardinality(EndsOf(k)) + Cardinality(LostOf(k)) = 1

\* What the nodes store is what the trace calls undeliverable: a forwarded
\* bundle leaves its node's queue, an undeliverable one stays, and the rest
\* never enter.
StoresHoldStranded ==
    \A x \in DOMAIN nodes :
        DOMAIN nodes[x].store =
            {ID(sent[l.copy].b) : l \in {m \in log : m.kind = "undeliverable" /\ m.node = x}}

-----------------------------------------------------------------------------
(***************************************************************************)
(* Why OneCustodian and StoresHoldStranded hold                            *)
(***************************************************************************)
Event == [time : Time, node : Node, b : BundleType, injected : BOOLEAN, copy : Nat]

TypeOK ==
    /\ nodes = [x \in DOMAIN nodes |-> nodes[x]] /\ DOMAIN nodes \subseteq Node
    /\ pending \in Seq(Introduction) /\ sent \in Seq(Introduction)
    /\ running \in BOOLEAN
    /\ eq \subseteq Event /\ abandoned \subseteq Event
    /\ \A l \in log : l.copy \in DOMAIN sent /\ l.node \in DOMAIN nodes

AtOnePlace(flights, ends, lost) ==
    \/ (\E e \in flights : flights = {e}) /\ ends = {} /\ lost = {}
    \/ flights = {} /\ (\E l \in ends : ends = {l}) /\ lost = {}
    \/ flights = {} /\ ends = {} /\ (\E e \in lost : lost = {e})

Custodians ==
    /\ \A ev \in eq \cup abandoned : ev.copy \in DOMAIN sent
    /\ \A ev \in eq : ev.b = sent[ev.copy].b
    /\ \A k \in DOMAIN sent : AtOnePlace(FlightsOf(k), EndsOf(k), LostOf(k))

\* The queue is local to a call of Run.
IdleIsEmpty == ~running => eq = {}

\* What a node stores or delivered has gone through its duplicate filter, so
\* that it is not taken in again; delivery is at the destination.
KeptIsSeen ==
    /\ \A x \in DOMAIN nodes : DOMAIN nodes[x].store \subseteq nodes[x].seen
    /\ \A l \in log : l.kind = "delivered" =>
         /\ l.node = NodeID(sent[l.copy].b.dest)
         /\ ID(sent[l.copy].b) \in nodes[l.node].seen

MeshInv == TypeOK /\ Custodians /\ IdleIsEmpty /\ StoresHoldStranded /\ KeptIsSeen

-----------------------------------------------------------------------------
\* The earliest arrival that the contact plan allows for an introduction.
Reachable(i) == Reaches(Table(Plan, i.node, i.b.size, i.at), NodeID(i.b.dest))

Eta(i) == Label(Table(Plan, i.node, i.b.size, i.at), NodeID(i.b.dest))

\* A bundle on its way, as if it entered the mesh where it arrives next.
AsIfSent(ev) == [node |-> ev.node, b |-> ev.b, at |-> ev.time]

\* Each hop chooses its route afresh, and yet no hop loses time: wherever a
\* copy is on its way, the destination can still be reached, and exactly as
\* early as it could be when the bundle entered the mesh.
NoHopLosesTime ==
    \A ev \in eq : ~ev.injected =>
        /\ Reachable(sent[ev.copy])
        /\ Reachable(AsIfSent(ev))
        /\ Eta(AsIfSent(ev)) = Eta(sent[ev.copy])

\* So a bundle is undeliverable only where it entered, only when no route
\* existed then: it is never stranded halfway.
StrandedOnlyAtEntry ==
    \A l \in log : l.kind = "undeliverable" =>
        l.node = sent[l.copy].node /\ ~Reachable(sent[l.copy])

\* An injection that waits in the queue waits as it was sent.
EntersAsSent == \A ev \in eq : ev.injected => sent[ev.copy] = AsIfSent(ev)

\* A copy is delivered at the instant its first route said.
DeliveredOnTime ==
    \A l \in log : l.kind = "delivered" =>
        Reachable(sent[l.copy]) /\ l.time = Eta(sent[l.copy])

RouteInv == MeshInv /\ EntersAsSent /\ NoHopLosesTime /\ StrandedOnlyAtEntry /\ DeliveredOnTime

Unique(k) == \A j \in DOMAIN sent : ID(sent[j].b) = ID(sent[k].b) => j = k

\* What the caller is promised: a bundle whose ID is sent once, that has a
\* route when it enters and outlives the trip, is delivered, at the instant the
\* first route said; a bundle that cannot be there in time is not delivered.
ArrivesAsRouted ==
    \A k \in DOMAIN sent : FlightsOf(k) = {} /\ LostOf(k) = {} /\ Unique(k) =>
        IF Reachable(sent[k]) /\ ~Expired(sent[k].b, Eta(sent[k]))
        THEN \E l \in EndsOf(k) : l.kind = "delivered" /\ l.time = Eta(sent[k])
        ELSE \A l \in EndsOf(k) : l.kind # "delivered"

\* And without handlers a copy is taken in at most once by each node, so the
\* cap on events is never what ends a run ("delivery always terminates well
\* under this bound for a finite contact plan").
EventsBounded == processed <= Len(sent) * (Cardinality(Node) + 1)

PromiseKept == ArrivesAsRouted /\ EventsBounded

\* The trace is in order of time: no turn schedules an arrival before the one
\* it takes off the queue.
TraceInOrder ==
    [][running /\ running' => \A ev \in eq \ eq', later \in eq' : ev.time <= later.time]_vars

\* Where each copy is, for the abstract specification of custody.
Whereabouts(b, flights, ends, lost) ==
    [b |-> b,
     node |-> (CHOOSE e \in flights \cup ends \cup lost : TRUE).node,
     state |-> IF flights # {} THEN "moving"
               ELSE IF ends # {} THEN (CHOOSE l \in ends : TRUE).kind
               ELSE "abandoned"]

Place ==
    [k \in DOMAIN sent |-> Whereabouts(sent[k].b, FlightsOf(k), EndsOf(k), LostOf(k))]

Promised == INSTANCE Custody WITH place <- Place

ImplementsCustody == Promised!Spec

\* A call of Run returns.
RunReturns == running ~> ~running

\* contact.go: "Volume is the maximum number of bytes that can traverse the
\* contact over its whole interval".
Load(c) ==
    LET through == {l \in log : l.kind = "forwarded" /\ l.via = c}
    IN MapThenSumSet(LAMBDA l : sent[l.copy].b.size, through)

VolumeRespected ==
    \A c \in ContactsOf(Plan) : Bounded(c) => Load(c) <= Volume(c)
=============================================================================
