------------------------------- MODULE MCMesh -------------------------------
(***************************************************************************)
(* A ground station g and a second one h, two satellites s and t between   *)
(* them.  The contacts give g two ways to h that tie for the earliest      *)
(* arrival of a small bundle, one that closes first and only carries small *)
(* bundles, and a late direct contact.  Nothing leads to or from x.        *)
(***************************************************************************)
EXTENDS Mesh

CONSTANTS g, h, s, t, x, svc, data

MCNode == {g, h, s, t, x}

Link(from, to, start, end, rate, owlt) ==
    [from |-> from, to |-> to, start |-> start, end |-> end,
     rate |-> rate, owlt |-> owlt, confidence |-> 1]

MCPlan == <<
    Link(g, s, 0, 4, 1, 1),
    Link(g, t, 0, 3, 1, 1),
    Link(s, t, 2, 6, 0, 0),
    Link(t, s, 2, 9, 0, 0),
    Link(s, h, 4, 6, 1, 1),
    Link(t, h, 4, 6, 1, 1),
    Link(t, h, 7, 12, 1, 1),
    Link(g, h, 9, 14, 1, 0),
    Link(h, s, 6, 12, 0, 1),
    Link(s, g, 8, 10, 2, 0)>>

Eid(id) == [node |-> id, service |-> svc]

Datagram(source, dest, seq, size, lifetime) ==
    [source |-> Eid(source), dest |-> Eid(dest), created |-> 1, seq |-> seq,
     fragment |-> <<>>, lifetime |-> lifetime, size |-> size,
     payload |-> data]

In(b, at) == [node |-> b.source.node, b |-> b, at |-> at]

MCInjections == {
    In(Datagram(g, h, 1, 1, 20), 1),    \* ties
    In(Datagram(g, h, 1, 1, 20), 2),    \* the same bundle again
    In(Datagram(g, h, 2, 2, 8), 1),     \* a larger one, in time
    In(Datagram(g, h, 3, 3, 5), 1),     \* too large for the early contacts, too old on the way
    In(Datagram(g, x, 4, 1, 20), 1),    \* no route
    In(Datagram(h, g, 5, 1, 20), 3),    \* the other way
    In(Datagram(s, s, 6, 1, 20), 4)}    \* at home

NoReply(memory, id, b, now) == {[app |-> memory, out |-> <<>>]}

\* Handlers that count their replies and send each bundle back where it came
\* from, dated before it arrived, or keep it.  A bundle that a node sends to
\* itself is echoed at the same instant for ever.
Echo(memory, id, b, now) ==
    LET reply == Datagram(id, b.source.node, 10 + memory, b.size, 20)
    IN NoReply(memory, id, b, now)
       \cup {[app |-> memory + 1, out |-> <<In(reply, now - 1)>>]}

EchoInjections == {
    In(Datagram(g, h, 1, 1, 20), 1),
    In(Datagram(h, g, 5, 1, 20), 3),
    In(Datagram(g, g, 7, 1, 20), 4),
    In(Datagram(g, h, 1, 1, 20), 2)}     \* the first once more
=============================================================================
