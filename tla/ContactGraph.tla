---------------------------- MODULE ContactGraph ----------------------------
(***************************************************************************)
(* The contact graph of package cgr: contacts, the contact plan and the    *)
(* arithmetic of one transmission.                                         *)
(*                                                                         *)
(* A contact is a directed, scheduled link.  Instants and durations are    *)
(* integers counted in ticks (time.Time and time.Duration count            *)
(* nanoseconds); sizes are bytes; a data rate is bytes per second.         *)
(***************************************************************************)
EXTENDS NodesAndTime, Sequences, FiniteSets

CONSTANTS
    TicksPerSecond   \* ticks in the second that a data rate is measured by

ASSUME TicksAssumption == TicksPerSecond \in Nat \ {0}

\* A plan names its nodes, one by one.
ASSUME NodesAssumption == IsFiniteSet(Node)

Contact == [from : Node, to : Node, start : Time, end : Time,
            rate : Int, owlt : Nat, confidence : Int]

(***************************************************************************)
(* A plan is the list of contacts in the order they were added.  The index *)
(* byFrom that Add maintains beside the list is a function of the list.    *)
(***************************************************************************)
ContactPlan == Seq(Contact)

ByFrom(plan, n) == {i \in DOMAIN plan : plan[i].from = n}

ContactsOf(plan) == {plan[i] : i \in DOMAIN plan}

-----------------------------------------------------------------------------
(***************************************************************************)
(* One transmission: a bundle of the given size that is present at c.from  *)
(* from the instant ready on.                                              *)
(***************************************************************************)
TxStart(c, ready) == IF c.start > ready THEN c.start ELSE ready

TxDuration(c, size) ==
    IF c.rate > 0 THEN (size * TicksPerSecond) \div c.rate ELSE 0

TxFinish(c, ready, size) == TxStart(c, ready) + TxDuration(c, size)

\* The contact accepts the bundle: it is not ruled out by its confidence, it
\* is still open when the transmission begins and open until it ends.
Carries(c, ready, size) ==
    /\ c.confidence >= 0
    /\ TxStart(c, ready) < c.end
    /\ TxFinish(c, ready, size) <= c.end

ArrivalTime(c, ready, size) == TxFinish(c, ready, size) + c.owlt

\* What the contact can move in its whole interval.  The code returns 1e300
\* for a rate that is not positive; here such a contact has no volume at all
\* and Bounded tells the two apart.
Bounded(c) == c.rate > 0

Volume(c) == (c.rate * (c.end - c.start)) \div TicksPerSecond

-----------------------------------------------------------------------------
(***************************************************************************)
(* Reference definition of earliest arrival, which uses none of the search *)
(* in FindRoute: label every node with the earliest arrival over at most k *)
(* contacts, for k = 0, 1, 2... (Bellman-Ford).  A table of labels is a    *)
(* set of [node, arrival] with one element per node reached.               *)
(***************************************************************************)
Departing(plan, size, p) ==
    {c \in ContactsOf(plan) : c.from = p.node /\ Carries(c, p.arrival, size)}

Onward(plan, size, p) ==
    {[node |-> c.to, arrival |-> ArrivalTime(c, p.arrival, size)] :
        c \in Departing(plan, size, p)}

Earliest(S) == {p \in S : \A q \in S : q.node = p.node => p.arrival <= q.arrival}

\* One round, for each table of a set.
Round(plan, size, tables) ==
    {Earliest(S) : S \in {old \cup UNION {Onward(plan, size, p) : p \in old} : old \in tables}}

\* The one table after each number of rounds.
Rounds(plan, source, size, ready) ==
    LET tables[k \in Nat] ==
            IF k = 0 THEN {{[node |-> source, arrival |-> ready]}}
            ELSE Round(plan, size, tables[k - 1])
    IN tables

Table(plan, source, size, ready) ==
    CHOOSE table \in Rounds(plan, source, size, ready)[Cardinality(Node)] : TRUE

Reaches(table, v) == \E p \in table : p.node = v

Label(table, v) == (CHOOSE p \in table : p.node = v).arrival

\* A contact that arrives at its far node as early as any route does.
Tight(plan, source, size, table, i) ==
    /\ Reaches(table, plan[i].from)
    /\ Carries(plan[i], Label(table, plan[i].from), size)
    /\ ArrivalTime(plan[i], Label(table, plan[i].from), size) = Label(table, plan[i].to)
    /\ plan[i].to # source

\* The contacts a shortest-path tree may use: of those that arrive as early,
\* they leave from a node that is reached no later than the others', from the
\* source (which is settled before any other node) if one of them does, and
\* come first in the plan among those of the same node.
TreeContacts(plan, source, size, table) ==
    {i \in DOMAIN plan :
        /\ Tight(plan, source, size, table, i)
        /\ \A j \in DOMAIN plan :
             Tight(plan, source, size, table, j) /\ plan[j].to = plan[i].to =>
                /\ Label(table, plan[i].from) <= Label(table, plan[j].from)
                /\ plan[j].from = source => plan[i].from = source
                /\ plan[j].from = plan[i].from => i <= j}

\* The nodes at most so many tree contacts before dest, as a singleton.
Before(plan, tree, dest) ==
    LET reach[k \in Nat] ==
            IF k = 0 THEN {{dest}}
            ELSE {near \cup {plan[i].from : i \in {j \in tree : plan[j].to \in near}} :
                    near \in reach[k - 1]}
    IN reach

\* The nodes from which a shortest-path tree leads to dest, as a singleton.
Upstream(plan, tree, dest) == Before(plan, tree, dest)[Cardinality(Node)]

\* The first contacts of the routes from source to dest in a shortest-path tree.
FirstOnRoute(plan, tree, source, dest) ==
    UNION {{plan[i] : i \in {j \in tree : plan[j].from = source /\ plan[j].to \in near}} :
             near \in Upstream(plan, tree, dest)}

\* The contacts that FindRoute may put first in the route it returns.
FirstHops(plan, source, dest, size, ready) ==
    UNION {FirstOnRoute(plan, tree, source, dest) :
             tree \in {TreeContacts(plan, source, size, table) :
                         table \in {Table(plan, source, size, ready)}}}
=============================================================================
