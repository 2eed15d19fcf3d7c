------------------------------- MODULE Carrier -------------------------------
(***************************************************************************)
(* The optimality of a route, stated without any notion of path: once      *)
(* FindRoute has returned, a carrier that starts at the source at the      *)
(* ready time and takes contacts of the plan as it likes -- any contact    *)
(* that leaves from where it is and accepts the bundle -- is never at the  *)
(* destination before the returned arrival time, and never at all when     *)
(* there was no route.                                                     *)
(***************************************************************************)
EXTENDS FindRoute

VARIABLES holder, clock   \* where the carrier is, and since when

raceVars == <<query, pc, cur, todo, best, pred, visited, pq, at, hops, result,
              holder, clock>>

RaceInit == Init /\ holder = query.source /\ clock = query.ready

RaceSearch == Search /\ UNCHANGED <<holder, clock>>

Take(i) ==
    LET c == query.plan[i] IN
    /\ pc = "done"
    /\ c.from = holder
    /\ Carries(c, clock, query.size)
    /\ holder' = c.to
    /\ clock' = ArrivalTime(c, clock, query.size)
    /\ UNCHANGED vars

RaceReturned == Returned /\ UNCHANGED <<holder, clock>>

RaceNext == RaceSearch \/ (\E i \in DOMAIN query.plan : Take(i)) \/ RaceReturned

RaceSpec == RaceInit /\ [][RaceNext]_raceVars

\* The search is one call and runs on; nothing obliges the carrier to move.
RaceFairSpec == RaceSpec /\ WF_raceVars(RaceSearch)

-----------------------------------------------------------------------------
\* "FindRoute computes the earliest-arrival route": nobody who carries the
\* bundle over contacts of the plan beats the route, and when FindRoute
\* reports that the destination is unreachable nobody gets there.
NeverBeaten ==
    pc = "done" /\ holder = query.dest => result.ok /\ result.arrival <= clock

\* Why: the carrier is at a settled node no earlier than its label, or the
\* destination was settled before the carrier got where it is.
CarrierOK ==
    /\ holder \in Node
    /\ clock \in Time
    /\ pc # "done" => holder = query.source /\ clock = query.ready
    /\ pc = "done" =>
         \/ holder \in visited \ {query.dest} /\ best[holder] <= clock
         \/ result.ok /\ result.arrival <= clock

RaceInv == TypeOK /\ SearchInv /\ CarrierOK
=============================================================================
