------------------------------- MODULE Handoff ------------------------------
(* plan_handoffs of orbital-mechanics/src/handoff.rs: scan every satellite,  *)
(* then for each loss of signal choose the satellite to hand over to, then   *)
(* sort.                                                                     *)
EXTENDS Visibility

VARIABLES next,      \* the window of the satellite at seat looked at next
          handoffs   \* the plan

planning == <<next, handoffs>>

HandoffRecord == [from : Nat, to : Nat, at : Int, elevation : Int]

Sats == DOMAIN sky

PlanInit == next = 1 /\ handoffs = <<>>

(* unwrap_or_default: a scan that failed leaves no windows. *)
TakeWindows ==
  /\ tool = "handoff" /\ Scanned
  /\ GoOnWith(IF scan.ended = "ok" THEN scan.windows ELSE <<>>)
  /\ UNCHANGED <<search, phase, planning>>

StartPlanning ==
  /\ tool = "handoff" /\ AllScanned
  /\ phase' = "plan" /\ seat' = 1
  /\ UNCHANGED <<search, scan, found, planning>>

(* A window of the satellite covers the instant, both ends included: a       *)
(* satellite still up when the search ends has no window for that.           *)
InWindow(s, t) == \E i \in DOMAIN found[s] : found[s][i].aos <= t /\ t <= found[s][i].los

Candidates(from, t) ==
  {s \in Sats \ {from} : InWindow(s, t) /\ sky[s][t] # Fault}

(* Mutant: the first candidate. *)
First(S, t) == CHOOSE s \in S : \A u \in S : s <= u

(* The highest, the first of equals: the loop replaces its best only by a    *)
(* strictly higher one.                                                      *)
Best(S, t) ==
  CHOOSE s \in S : /\ \A u \in S : sky[u][t] <= sky[s][t]
                   /\ \A u \in S : u < s => sky[u][t] < sky[s][t]

Handover(s, t) ==
  LET to == Best(Candidates(s, t), t)
  IN  [from |-> s, to |-> to, at |-> t, elevation |-> sky[to][t]]

ConsiderLos ==
  /\ phase = "plan" /\ seat \in Sats /\ next \in DOMAIN found[seat]
  /\ LET los == found[seat][next].los
     IN  handoffs' = IF Candidates(seat, los) = {} THEN handoffs
                     ELSE Append(handoffs, Handover(seat, los))
  /\ next' = next + 1
  /\ UNCHANGED <<search, scanning, phase>>

NextSat ==
  /\ phase = "plan" /\ seat \in Sats /\ next \notin DOMAIN found[seat]
  /\ seat' = seat + 1 /\ next' = 1
  /\ UNCHANGED <<search, scan, found, handoffs, phase>>

(* The stable sort by time: earlier first, insertion order among equals. *)
StableByTime(s) ==
  LET before(i, j) == s[i].at < s[j].at \/ (s[i].at = s[j].at /\ i < j)
      rank(i) == Cardinality({j \in DOMAIN s : before(j, i)}) + 1
  IN  [k \in DOMAIN s |-> s[CHOOSE i \in DOMAIN s : rank(i) = k]]

Sort ==
  /\ phase = "plan" /\ seat \notin Sats
  /\ handoffs' = StableByTime(handoffs) /\ phase' = "planned"
  /\ UNCHANGED <<search, scanning, next>>

PlanHandoffs == TakeWindows \/ StartPlanning \/ ConsiderLos \/ NextSat \/ Sort

-----------------------------------------------------------------------------
(* The promise is about the sampled tracks, not about the windows the code   *)
(* works with.  A pass counts when no failure of the propagator spoils it;   *)
(* its satellite is then up from its first sample to its last, and may be    *)
(* thought up as far as the samples either side.                             *)
Undisturbed(track, p) == \A t \in p[1] - Step .. p[2] + Step : t >= Start => track[t] # Fault
IsUp(u, t) ==
  /\ Clear(sky[u]) /\ sky[u][t] # Fault
  /\ \E q \in Passes(sky[u]) : Undisturbed(sky[u], q) /\ q[1] <= t /\ t <= q[2]
MayBeUp(u, t) ==
  /\ Clear(sky[u]) /\ sky[u][t] # Fault
  /\ \E q \in Passes(sky[u]) : q[1] - Step <= t /\ t <= q[2] + Step

(* When the signal of a pass is lost: between its last sample and the next.  *)
SetsAt(p, t) == p[2] <= t /\ t <= p[2] + Step

(* A handoff is from a satellite whose pass ends to one that is up, or       *)
(* nearly; and no other satellite that is up is above the one chosen.        *)
HandsToTheHighest ==
  \A i \in DOMAIN handoffs :
    LET h == handoffs[i]
    IN  /\ Clear(sky[h.from]) /\ \E p \in Passes(sky[h.from]) : SetsAt(p, h.at)
        /\ h.to # h.from /\ MayBeUp(h.to, h.at) /\ h.elevation = sky[h.to][h.at]
        /\ \A u \in Sats \ {h.from} : IsUp(u, h.at) => sky[u][h.at] <= h.elevation

(* The end of an undisturbed pass gets its handoff when another satellite is *)
(* up all the while the signal may be lost.                                  *)
NoLossUnanswered ==
  \A s \in Sats : \A p \in Passes(sky[s]) :
    (/\ Clear(sky[s]) /\ Undisturbed(sky[s], p)
     /\ \E u \in Sats \ {s} : \A t \in p[2] .. p[2] + Step : IsUp(u, t))
    => \E i \in DOMAIN handoffs : handoffs[i].from = s /\ SetsAt(p, handoffs[i].at)

(* In order of time, and no satellite hands over twice at one instant.       *)
OnceInOrder ==
  \A i, j \in DOMAIN handoffs : i < j =>
    /\ handoffs[i].at <= handoffs[j].at
    /\ handoffs[i].from = handoffs[j].from => handoffs[i].at < handoffs[j].at

(* The finished plan, whatever the passes and however many satellites fail.  *)
PlanIsRight == phase = "planned" => HandsToTheHighest /\ NoLossUnanswered /\ OnceInOrder

(* handoff.rs:26 says more: "the algorithm selects the highest-elevation     *)
(* visible alternative (excluding the one setting) at that instant", which   *)
(* line 48 explains as "any other satellite visible (above mask) at `los`".  *)
(* So a satellite that is above the mask when the signal is lost, and at the *)
(* samples either side of that, is no higher than the one handed over to.    *)
AboveMaskAround(u, at) ==
  \A t \in Samples \cup {at} : (t - at <= Step /\ at - t <= Step) => Seen(sky[u], t)
HandsToTheHighestVisible ==
  phase = "planned" =>
    \A i \in DOMAIN handoffs : \A u \in Sats \ {handoffs[i].from} :
      AboveMaskAround(u, handoffs[i].at) => sky[u][handoffs[i].at] <= handoffs[i].elevation

-----------------------------------------------------------------------------
(* Why: at every moment the plan has one entry for each loss of signal that  *)
(* was dealt with and had somebody to take over, and no other.               *)
Dealt(s, i) == phase = "planned" \/ s < seat \/ (s = seat /\ i < next)
Los(s, i) == found[s][i].los

EntriesAreHandovers ==
  \A k \in DOMAIN handoffs : \E s \in Sats : \E i \in DOMAIN found[s] :
    /\ Dealt(s, i) /\ Candidates(s, Los(s, i)) # {}
    /\ handoffs[k] = Handover(s, Los(s, i))
HandoversAreEntries ==
  \A s \in Sats : \A i \in DOMAIN found[s] :
    (Dealt(s, i) /\ Candidates(s, Los(s, i)) # {}) =>
      \E k \in DOMAIN handoffs : handoffs[k] = Handover(s, Los(s, i))
EntriesDiffer ==
  \A j, k \in DOMAIN handoffs : j # k =>
    handoffs[j].from # handoffs[k].from \/ handoffs[j].at # handoffs[k].at

PlanInv ==
  /\ handoffs \in Seq(HandoffRecord) /\ next \in Nat \ {0}
  /\ phase \notin {"plan", "planned"} => handoffs = <<>> /\ next = 1
  /\ phase \in {"plan", "planned"} =>
       /\ Len(found) = Len(sky) /\ seat \in 1 .. Len(sky) + 1
       /\ EntriesAreHandovers /\ HandoversAreEntries /\ EntriesDiffer
  /\ phase = "planned" =>
       \A j, k \in DOMAIN handoffs : j < k => handoffs[j].at <= handoffs[k].at
=============================================================================
