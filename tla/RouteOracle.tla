----------------------------- MODULE RouteOracle -----------------------------
(***************************************************************************)
(* What FindRoute promises: one step from the call to an answer that is    *)
(* right by the reference definition of earliest arrival.                  *)
(***************************************************************************)
EXTENDS ContactGraph

CONSTANTS
    Queries   \* the calls: [plan, source, dest, size, ready]

VARIABLES query, answered, answer

vars == <<query, answered, answer>>

NoAnswer == [ok |-> FALSE, hops |-> <<>>, arrival |-> 0]

\* A bundle that is ready at q.source and takes the contacts of hops in order
\* is at q.dest at the given arrival.
Travels(q, hops, arrival) ==
    LET clock[i \in 0..Len(hops)] ==
            IF i = 0 THEN q.ready
            ELSE ArrivalTime(hops[i], clock[i - 1], q.size)
        place(i) == IF i = 0 THEN q.source ELSE hops[i].to
    IN /\ \A i \in 1..Len(hops) : /\ hops[i] \in ContactsOf(q.plan)
                                  /\ hops[i].from = place(i - 1)
                                  /\ Carries(hops[i], clock[i - 1], q.size)
       /\ place(Len(hops)) = q.dest
       /\ clock[Len(hops)] = arrival

IsAnswer(q, r) ==
    LET table == Table(q.plan, q.source, q.size, q.ready) IN
    IF Reaches(table, q.dest)
    THEN /\ r.ok
         /\ r.arrival = Label(table, q.dest)
         /\ Travels(q, r.hops, r.arrival)
         /\ IF q.source = q.dest
            THEN r.hops = <<>>
            ELSE Head(r.hops) \in
                   FirstHops(q.plan, q.source, q.dest, q.size, q.ready)
    ELSE r = NoAnswer

Init == query \in Queries /\ ~answered /\ answer = NoAnswer

Answer ==
    /\ ~answered
    /\ answered'
    /\ UNCHANGED query
    /\ IsAnswer(query, answer')

Spec == Init /\ [][Answer]_vars
=============================================================================
