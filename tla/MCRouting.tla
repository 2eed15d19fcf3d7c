------------------------------ MODULE MCRouting ------------------------------
(***************************************************************************)
(* FindRoute, and after it the carrier, on every plan that can be made of  *)
(* at most MaxContacts of the contacts below, in the order of the list or  *)
(* in the opposite order; and a node with bundles that share sources: two  *)
(* that differ only in their fragment, one whose ID collides with the      *)
(* first, one without a creation time, two for the node itself.            *)
(***************************************************************************)
EXTENDS Carrier, StoreAndForward

CONSTANTS n1, n2, n3, n4, svc, data

MCNode == {n1, n2, n3, n4}

Link(from, to, start, end, rate, owlt) ==
    [from |-> from, to |-> to, start |-> start, end |-> end,
     rate |-> rate, owlt |-> owlt, confidence |-> 1]

Pool == <<
    Link(n1, n2, 0, 4, 0, 1),
    Link(n1, n3, 0, 3, 1, 0),
    Link(n2, n3, 0, 9, 0, 0),
    Link(n3, n2, 0, 9, 0, 0),
    Link(n2, n4, 1, 5, 1, 1),
    Link(n3, n4, 3, 4, 0, 1),
    Link(n1, n4, 4, 7, 1, 0),
    Link(n1, n2, 0, 2, 0, 0),
    Link(n4, n2, 0, 9, 0, 0),
    [Link(n1, n4, 0, 9, 0, 0) EXCEPT !.confidence = -1] >>

CONSTANT MaxContacts

PlanOf(S) ==
    LET forward == SetToSortSeq(S, <)
    IN  {[i \in 1..Len(s) |-> Pool[s[i]]] : s \in {forward, Reverse(forward)}}

MCPlans == UNION {PlanOf(S) : S \in {T \in SUBSET (1..Len(Pool)) :
                                        Cardinality(T) <= MaxContacts}}

Here == [plan |-> <<>>, source |-> n1, dest |-> n1, size |-> 1, ready |-> 3]

MCQueries ==
    [plan : MCPlans, source : {n1}, dest : {n4}, size : {0, 2}, ready : {0, 2}]
    \cup {Here}

Eid(nodeId) == [node |-> nodeId, service |-> svc]

Datagram(source, dest, seq, fragment, lifetime) ==
    [source |-> Eid(source), dest |-> Eid(dest), created |-> 1, seq |-> seq,
     fragment |-> fragment, lifetime |-> lifetime, size |-> 1,
     payload |-> data]

MCBundles == {
    Datagram(n4, n4, 1, <<>>, 1),
    Datagram(n4, n1, 1, <<>>, 2),
    Datagram(n4, n4, 1, <<0, 2>>, 2),
    Datagram(n1, n4, 1, <<>>, 9),
    [Datagram(n1, n4, 2, <<>>, 1) EXCEPT !.created = 0],
    Datagram(n1, n1, 2, <<>>, 1)}

\* A search and a node share nothing: where the node is called, the search is
\* the shortest there is.
RoutingInit == RaceInit /\ NodeInit

RoutingNext ==
    \/ RaceNext /\ UNCHANGED node
    \/ query = Here /\ NodeNext /\ UNCHANGED raceVars

RoutingSpec ==
    RoutingInit /\ [][RoutingNext]_<<raceVars, node>> /\ WF_raceVars(RaceSearch)
=============================================================================
