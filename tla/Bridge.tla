------------------------------- MODULE Bridge -------------------------------
(***************************************************************************)
(* The Space-AI Bridge over the mesh: clients on the ground build bundles  *)
(* that deploy models and ask for inference, compute nodes serve them as   *)
(* handlers of their mesh nodes, and the answers travel back.              *)
(*                                                                         *)
(* In a configuration the constant Handle of Mesh is the operator Respond, *)
(* Payload is Message, and AppInit is Aboard.                              *)
(***************************************************************************)
EXTENDS Mesh, Inference

CONSTANTS
    Clients,        \* [name, source, satellite, lifetime]
    Tasks,          \* what they may send: [client, msg, createdAt, at]
    ReplyLifetime,  \* the lifetime given to Responder, in ticks
    DefaultLifetime,
    Hour,           \* in ticks
    WallClock,      \* the DTN time of the computer the simulation runs on
    SizeOf(_),      \* the length of the encoded bundle, by its payload
    Launch          \* the maps of a compute node before the first bundle

ASSUME BridgeAssumption ==
    /\ Clients \subseteq [name : STRING, source : EndpointID, satellite : EndpointID,
                          lifetime : Int]
    /\ Tasks \subseteq [client : Clients, msg : ModelUpload \cup InferenceRequest,
                        createdAt : Time, at : Time]
    /\ ReplyLifetime \in Int /\ DefaultLifetime \in Nat /\ Hour \in Nat
    /\ WallClock \in Nat
    /\ Payload = Message
    /\ \A msg \in Message : SizeOf(msg) \in Nat

VARIABLE seqs   \* the sequence number that each client used last

bridgeVars == <<nodes, app, pending, runs, running, eq, processed, sent, log, abandoned, seqs>>

\* A bundle that was given no time of creation takes that of the computer.
Stamp(created) == IF created = 0 THEN WallClock ELSE created

OrDefault(lifetime) == IF lifetime > 0 THEN lifetime ELSE DefaultLifetime

NewBundle(source, dest, payload, lifetime, created, seq) ==
    [source |-> source, dest |-> dest,
     created |-> Stamp(created),
     seq |-> seq, fragment |-> <<>>,
     lifetime |-> (IF lifetime = 0 THEN Hour ELSE lifetime) \div TicksPerMs,
     size |-> SizeOf(payload), payload |-> payload]

\* Mutant: the sequence number is not used up.
SendUncounted(task) ==
    LET c == task.client IN
    /\ Inject([node |-> NodeID(c.source),
               b |-> NewBundle(c.source, c.satellite, task.msg, OrDefault(c.lifetime),
                               DTNTime(task.createdAt), seqs[c] + 1),
               at |-> task.at])
    /\ UNCHANGED seqs

\* UploadBundle or RequestBundle, and Inject at the client's own node.
Send(task) ==
    LET c == task.client IN
    /\ Inject([node |-> NodeID(c.source),
               b |-> NewBundle(c.source, c.satellite, task.msg, OrDefault(c.lifetime),
                               DTNTime(task.createdAt), seqs[c] + 1),
               at |-> task.at])
    /\ seqs' = [seqs EXCEPT ![c] = @ + 1]

-----------------------------------------------------------------------------
(***************************************************************************)
(* Responder, one per compute node: the handler that Run calls when a      *)
(* bundle is delivered there.  memory holds the maps of each compute node  *)
(* and the sequence number its replies used last.                          *)
(***************************************************************************)
Aboard == [x \in HandlerNodes |-> [node |-> Launch, replySeq |-> 0]]

\* Mutant: the reply goes the way the request went.
RespondOnward(memory, deliveredTo, b, now) ==
    LET handled == HandleMessage(memory[deliveredTo].node, b.payload)
        used == memory[deliveredTo].replySeq
        Reply(msg) == NewBundle(b.source, b.dest, msg, OrDefault(ReplyLifetime),
                                DTNTime(now), used + 1)
        After(n) == [memory EXCEPT ![deliveredTo] = [node |-> handled.node, replySeq |-> n]]
    IN IF handled.reply = {} THEN {[app |-> After(used), out |-> <<>>]}
       ELSE {[app |-> After(used + 1),
              out |-> <<[node |-> deliveredTo, b |-> Reply(msg), at |-> now]>>] :
                msg \in handled.reply}

Respond(memory, deliveredTo, b, now) ==
    LET handled == HandleMessage(memory[deliveredTo].node, b.payload)
        used == memory[deliveredTo].replySeq
        Reply(msg) == NewBundle(b.dest, b.source, msg, OrDefault(ReplyLifetime),
                                DTNTime(now), used + 1)
        After(n) == [memory EXCEPT ![deliveredTo] = [node |-> handled.node, replySeq |-> n]]
    IN IF handled.reply = {} THEN {[app |-> After(used), out |-> <<>>]}
       ELSE {[app |-> After(used + 1),
              out |-> <<[node |-> deliveredTo, b |-> Reply(msg), at |-> now]>>] :
                msg \in handled.reply}

BridgeInit == Init /\ seqs = [c \in Clients |-> 0]

BridgeNext ==
    \/ \E task \in Tasks : Send(task)
    \/ Next /\ UNCHANGED seqs

BridgeSpec == BridgeInit /\ [][BridgeNext]_bridgeVars

-----------------------------------------------------------------------------
(***************************************************************************)
(* Properties                                                              *)
(***************************************************************************)
Is(k, type) == sent[k].b.payload.type = type

\* The entries of the trace that stand for a message given to a compute node.
Handed(type) ==
    {l \in log : l.kind = "delivered" /\ l.node \in HandlerNodes /\ Is(l.copy, type)}

\* The answers that compute nodes have sent.
Answers == {k \in DOMAIN sent : Is(k, "response") /\ sent[k].node \in HandlerNodes}

Asked(l) == LET b == sent[l.copy].b IN
    <<l.node, l.time, b.dest, b.source, b.payload.request>>

Told(k) == LET b == sent[k].b IN
    <<sent[k].node, sent[k].at, b.source, b.dest, b.payload.request>>

AskedAs(key) == {l \in Handed("request") : Asked(l) = key}

ToldAs(key) == {k \in Answers : Told(k) = key}

\* Every request that reaches a compute node is answered, at that instant,
\* once, to the endpoint that asked; nothing else that reaches it -- uploads,
\* payloads that do not decode, the answers of other nodes -- is.
AnsweredOnce ==
    \A key \in {Asked(l) : l \in Handed("request")} \cup {Told(k) : k \in Answers} :
        Cardinality(AskedAs(key)) = Cardinality(ToldAs(key))

\* The uploads of a model that the node could deploy.
UploadsOf(model, x) ==
    {l \in Handed("upload") : /\ l.node = x
                              /\ sent[l.copy].b.payload.model = model
                              /\ Deployable(Launch, sent[l.copy].b.payload)}

\* An answer tells what was deployed when the request arrived: the model of the
\* upload that arrived last before it, and "not deployed" only if none had, no
\* matter in which order the bundles were sent, or what failed to deploy.
AnswersAreCurrent ==
    \A k \in Answers :
        LET answer == sent[k].b.payload
            ups == UploadsOf(answer.model, sent[k].node)
        IN IF answer.summary = "not deployed"
           THEN \A l \in ups : l.time >= sent[k].at
           ELSE \E l \in ups :
                  /\ l.time <= sent[k].at
                  /\ \A m \in ups : ~(l.time < m.time /\ m.time < sent[k].at)
                  /\ answer.ok =>
                       answer.result[1] = Made(Launch, sent[l.copy].b.payload)

\* Two Clients on one endpoint, each with a counter of its own, have both sent
\* something in this millisecond, and both counted as far as this bundle.
SharedByTwo(b) ==
    \E s, t \in Tasks :
        /\ s.client # t.client
        /\ \A task \in {s, t} : /\ task.client.source = b.source
                                /\ Stamp(DTNTime(task.createdAt)) = b.created
                                /\ b.seq \in 1 .. seqs[task.client]

\* "The sequence number disambiguates bundles created by the same source within
\* a single millisecond": so that none is dropped as a duplicate of another.  It
\* does for everything that one Client or one Responder sends, with whatever
\* times of creation, and two different bundles of different senders have one
\* ID only if two Clients share the endpoint, the millisecond and the count.
IDsIdentify ==
    \A i, j \in DOMAIN sent :
        ID(sent[i].b) = ID(sent[j].b) => sent[i].b = sent[j].b \/ SharedByTwo(sent[i].b)

-----------------------------------------------------------------------------
(***************************************************************************)
(* Why they hold                                                           *)
(***************************************************************************)
\* Who uses the endpoints: those of a compute node are for its replies, other
\* applications number their own bundles apart and leave the endpoints of
\* clients and compute nodes alone.  Clients may share theirs.
ASSUME EndpointsAssumption ==
    /\ \A c \in Clients : NodeID(c.source) \notin HandlerNodes
    /\ \A in \in Injections :
         /\ NodeID(in.b.source) \notin HandlerNodes
         /\ in.node \notin HandlerNodes \/ in.b.payload.type # "response"
         /\ \A other \in Injections : ID(in.b) = ID(other.b) => in.b = other.b
         /\ \A task \in Tasks : ~ /\ in.b.source = task.client.source
                                  /\ in.b.created = Stamp(DTNTime(task.createdAt))
    /\ AppInit = Aboard
    /\ Launch = [factories |-> Launch.factories, models |-> EmptyMap,
                 scenes |-> Launch.scenes]

Bundles == {pending[i].b : i \in DOMAIN pending} \cup {sent[k].b : k \in DOMAIN sent}

FromElsewhere(b) == \E in \in Injections : b = in.b

FromClient(b) ==
    \E task \in Tasks : /\ b.source = task.client.source
                        /\ b.created = Stamp(DTNTime(task.createdAt))
                        /\ b.seq \in 1 .. seqs[task.client]

FromHandler(b) ==
    NodeID(b.source) \in HandlerNodes /\ b.seq \in 1 .. app[NodeID(b.source)].replySeq

\* Sequence numbers only grow, at a client and at a compute node, and nobody
\* else sends from there.
Identified ==
    /\ seqs \in [Clients -> Nat]
    /\ DOMAIN app = HandlerNodes
    /\ \A x \in HandlerNodes : DOMAIN app[x] = {"node", "replySeq"} /\ app[x].replySeq \in Nat
    /\ \A b \in Bundles : FromElsewhere(b) \/ FromClient(b) \/ FromHandler(b)
    /\ \A b, d \in Bundles : ID(b) = ID(d) => b = d \/ SharedByTwo(b)

\* Nobody but the compute nodes enters an answer there.
OnlyHandlersAnswer ==
    \A i \in DOMAIN pending :
        pending[i].node \notin HandlerNodes \/ pending[i].b.payload.type # "response"

\* The maps of a compute node hold, of each model, what the upload that came
\* last has made.
Remembers(x, model) ==
    LET models == app[x].node.models
        ups == UploadsOf(model, x)
    IN IF model \in DOMAIN models
       THEN \E l \in ups : /\ \A m \in ups : m.time <= l.time
                           /\ models[model] = Made(Launch, sent[l.copy].b.payload)
       ELSE ups = {}

\* In a single run what is handled is not earlier than what has been.
InOrder ==
    /\ runs \in {0, 1} /\ (runs = 0 => sent = <<>> /\ log = {})
    /\ \A l \in log : l.time \in Int /\ \A ev \in eq : l.time <= ev.time
    /\ \A k \in Answers, ev \in eq : sent[k].at <= ev.time

UpToDate ==
    /\ \A x \in HandlerNodes :
         /\ DOMAIN app[x].node = {"factories", "models", "scenes"}
         /\ app[x].node.factories = Launch.factories
         /\ \A model \in ModelID : Remembers(x, model)
    /\ InOrder
    /\ AnswersAreCurrent

BridgeInv == MeshInv /\ Identified /\ OnlyHandlersAnswer /\ (MaxRuns = 1 => UpToDate)
=============================================================================
