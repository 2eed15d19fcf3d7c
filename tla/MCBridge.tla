------------------------------ MODULE MCBridge ------------------------------
(***************************************************************************)
(* Two ground stations and a satellite with a compute node.  The first     *)
(* pass over g is too short for a large upload, so a request that is sent  *)
(* after an upload can overtake it.  Two clients share the endpoint at g.  *)
(***************************************************************************)
EXTENDS Bridge

CONSTANTS g, h, s, svc, m1, s1, r1, r2, stats, mask, builtin, low, high, bright

MCNode == {g, h, s}

Link(from, to, start, end, rate, owlt) ==
    [from |-> from, to |-> to, start |-> start, end |-> end,
     rate |-> rate, owlt |-> owlt, confidence |-> 1]

MCPlan == <<
    Link(g, s, 2, 4, 1, 0),
    Link(g, s, 5, 9, 1, 1),
    Link(h, s, 3, 9, 1, 0),
    Link(s, g, 4, 9, 1, 0),
    Link(s, h, 8, 14, 1, 1)>>

Eid(id) == [node |-> id, service |-> svc]

ClientAt(name, id) ==
    [name |-> name, source |-> Eid(id), satellite |-> Eid(s), lifetime |-> 0]

alice == ClientAt("alice", g)
bob == ClientAt("bob", h)

carol == ClientAt("carol", g)

Together == {alice, bob, carol}

Upload(kind, params) ==
    [type |-> "upload", model |-> m1, kind |-> kind, params |-> params]

Request(id) == [type |-> "request", request |-> id, model |-> m1, input |-> s1]

Task(c, msg, at) == [client |-> c, msg |-> msg, createdAt |-> at, at |-> at]

\* The large upload, the small one, a kind that nobody registered, requests.
TasksOf(c, id) ==
    {Task(c, Upload(stats, high), 1), Task(c, Upload(stats, low), 1),
     Task(c, Upload(mask, low), 1), Task(c, Request(id), 1)}

MCTasks == TasksOf(alice, r1) \cup {Task(bob, Upload(stats, high), 2),
                                    Task(bob, Request(r2), 6),
                                    Task(carol, Upload(stats, low), 1),
                                    Task(carol, Request(r2), 1)}

MCSizeOf(msg) == IF msg.type = "upload" /\ msg.params = high THEN 3 ELSE 1

MCLaunch == [factories |-> Put(EmptyMap, stats, builtin), models |-> EmptyMap,
             scenes |-> Put(EmptyMap, s1, bright)]

\* Bundles of other applications that reach the compute node.
Stray(payload, seq) ==
    [node |-> h, at |-> 3,
     b |-> [source |-> Eid(h), dest |-> Eid(s), created |-> 9, seq |-> seq,
            fragment |-> <<>>, lifetime |-> 9, size |-> 1, payload |-> payload]]

MCInjections == {
    Stray([type |-> "undecodable"], 1),
    Stray([type |-> "response", request |-> r1, model |-> m1, ok |-> FALSE,
           result |-> <<>>, summary |-> "failed"], 2)}
=============================================================================
