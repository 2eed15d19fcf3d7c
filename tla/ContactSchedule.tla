--------------------------- MODULE ContactSchedule --------------------------
(* From passes to routes: export_contacts of orbital-mechanics writes every  *)
(* visibility window of a satellite as two contacts, and package contactplan *)
(* loads the document into the contact graph of package cgr.                 *)
EXTENDS Visibility, ContactGraph

CONSTANTS Stations,      \* as many as there are tracks at least
          Satellite,
          Rate,          \* DATA_RATE_BYTES_PER_SEC
          Light(_),      \* one-way light time when the peak is this high
          Unit,          \* instants in the last printed digit of a time
          Epoch,         \* the instant of the schedule's epoch
          Handwritten,   \* documents from elsewhere that Load is given
          NoName         \* an empty node name

(* A line of a document. *)
Line == [from : Node \cup {NoName}, to : Node \cup {NoName}, start : Int, end : Int,
         rate : Int, owlt : Int, confidence : Int]

ASSUME ScheduleAssumption ==
  /\ Unit \in Nat \ {0}  /\ Epoch \in Int /\ Rate \in Nat \ {0}
  /\ Satellite \in Node /\ NoName \notin Node
  /\ \A i \in DOMAIN Stations : Stations[i] \in Node \ {Satellite}
  /\ \A i, j \in DOMAIN Stations : Stations[i] = Stations[j] => i = j
  /\ \A tracks \in Skies : DOMAIN tracks \subseteq DOMAIN Stations
  /\ \A document \in Handwritten : document \in Seq(Line)

VARIABLES contacts,  \* the document
          plan       \* what is loaded of it

schedule == <<contacts, plan>>

(* {:.4}: the nearest multiple of the unit (the units used have no ties). *)
Printed(x) == ((x + (Unit \div 2)) \div Unit) * Unit

(* contact_json. *)
ContactJson(from, to, w) ==
  [from |-> from, to |-> to, start |-> Printed(w.aos), end |-> Printed(w.los),
   rate |-> Rate, owlt |-> Light(w.maxElevation), confidence |-> 1]

(* Mutant: the uplink twice. *)
Uplinks(w, s) == <<ContactJson(s, Satellite, w), ContactJson(s, Satellite, w)>>

(* Both directions of every window, window by window. *)
Pair(w, s) == <<ContactJson(s, Satellite, w), ContactJson(Satellite, s, w)>>
Pairs(windows, s) ==
  [k \in 1 .. 2 * Len(windows) |->
     Pair(windows[(k + 1) \div 2], s)[2 - (k % 2)]]

(* Load's checks and conversions of one contact; a confidence that is not    *)
(* there decodes to 0 and means certain, and so does one written as 0.       *)
Loadable(c) == NoName \notin {c.from, c.to} /\ c.start <= c.end
Loaded(c) ==
  [c EXCEPT !.start = Epoch + @, !.end = Epoch + @,
            !.confidence = IF @ = 0 THEN 1 ELSE @]

-----------------------------------------------------------------------------
DocumentInit ==
  /\ plan = <<>>
  /\ contacts \in IF tool = "none" THEN Handwritten ELSE {<<>>}

(* The windows of one station; expect("compute visibility windows") ends the *)
(* tool before it has printed anything if there are none for it.             *)
Export ==
  /\ tool = "export" /\ Scanned
  /\ IF scan.ended = "err"
     THEN phase' = "panicked" /\ UNCHANGED <<contacts, scanning>>
     ELSE /\ contacts' = contacts \o Pairs(scan.windows, Stations[seat])
          /\ GoOnWith(scan.windows) /\ UNCHANGED phase
  /\ UNCHANGED <<search, plan>>

Write ==
  /\ tool = "export" /\ AllScanned
  /\ phase' = "load"
  /\ UNCHANGED <<search, scanning, schedule>>

(* Mutant: a bad contact is left out. *)
LoadSome ==
  /\ phase = "load" /\ phase' = "loaded"
  /\ LET good == SelectSeq(contacts, Loadable)
     IN  plan' = [i \in DOMAIN good |-> Loaded(good[i])]
  /\ UNCHANGED <<search, scanning, contacts>>

(* Load: one bad contact refuses the document. *)
Load ==
  /\ phase = "load"
  /\ IF \A i \in DOMAIN contacts : Loadable(contacts[i])
     THEN /\ plan' = [i \in DOMAIN contacts |-> Loaded(contacts[i])]
          /\ phase' = "loaded"
     ELSE phase' = "refused" /\ UNCHANGED plan
  /\ UNCHANGED <<search, scanning, contacts>>

MakeSchedule == Export \/ Write \/ Load

-----------------------------------------------------------------------------
Exported == tool = "export"      \* the document came from the tool
SameLink(i, j) == plan[i].from = plan[j].from /\ plan[i].to = plan[j].to

(* The samples at which a station sees the satellite. *)
Up(s) == {t \in Samples : sky[s][t] # Fault /\ sky[s][t] >= Mask}

(* What the tool writes, package contactplan takes: no rounding of the two   *)
(* ends of a window turns them round.                                        *)
ExportLoads == phase # "refused"

(* A link is one thing at a time: however the windows were refined and then  *)
(* rounded, the contacts of one direction of one link follow one another.    *)
LinksTakeTurns ==
  \A i, j \in DOMAIN plan :
    (i < j /\ SameLink(i, j)) => plan[i].end <= plan[j].start

(* Every contact has its return, over the same interval. *)
BothWays ==
  \A i \in DOMAIN plan : \E j \in DOMAIN plan :
    /\ plan[j].from = plan[i].to /\ plan[j].to = plan[i].from
    /\ plan[j].start = plan[i].start /\ plan[j].end = plan[i].end

(* At each sample where a station sees the satellite, in a pass that sets    *)
(* before the search ends, the loaded graph has a contact open from it, to   *)
(* half of the last digit printed.                                           *)
Sets(s, t) == \E u \in Samples : u > t /\ u \notin Up(s)
GraphSeesThePass ==
  phase = "loaded" =>
    \A s \in DOMAIN sky : \A t \in Up(s) :
      (Sets(s, t) /\ \A u \in Start .. end : sky[s][u] # Fault) =>
        \E i \in DOMAIN plan :
          /\ plan[i].from = Stations[s]
          /\ 2 * (plan[i].start - Epoch - t) <= Unit
          /\ 2 * (t - plan[i].end + Epoch) <= Unit

(* End to end, from what the stations see to what the router is given.       *)
RouterSeesThePasses ==
  Exported => ExportLoads /\ LinksTakeTurns /\ BothWays /\ GraphSeesThePass

(* What the router can use of a loaded plan: every contact that lasts and    *)
(* whose confidence was not written below zero, from its first instant on.   *)
(* A window that rounds to nothing is dead, a confidence of 0 is not.        *)
DeadContacts ==
  \A i \in DOMAIN plan :
    Carries(plan[i], plan[i].start, 0)
      <=> plan[i].start < plan[i].end /\ contacts[i].confidence >= 0

(* A document loads whole or not at all, and every contact of a loaded one   *)
(* can be named and ends no sooner than it starts.                           *)
AllOrNothing ==
  /\ phase = "loaded" =>
       /\ Len(plan) = Len(contacts)
       /\ \A i \in DOMAIN plan :
            plan[i].from # NoName /\ plan[i].to # NoName /\ plan[i].start <= plan[i].end
              /\ plan[i].end - plan[i].start = contacts[i].end - contacts[i].start
  /\ phase = "refused" => plan = <<>>

(* Any document, the tool's or another's.                                    *)
LoadsWhatItSays == DeadContacts /\ AllOrNothing

-----------------------------------------------------------------------------
(* Why: the document has both directions of every window found so far, and   *)
(* nothing else; and what is loaded is the document, line by line.           *)
Way(s, w, up) == IF up THEN ContactJson(s, Satellite, w) ELSE ContactJson(Satellite, s, w)
LineOf(s, i, up) == Way(Stations[s], found[s][i], up)

LinesAreWindows ==
  \A k \in DOMAIN contacts : \E s \in DOMAIN found :
    \E i \in DOMAIN found[s], up \in BOOLEAN : contacts[k] = LineOf(s, i, up)
WindowsAreLines ==
  \A s \in DOMAIN found : \A i \in DOMAIN found[s], up \in BOOLEAN :
    \E k \in DOMAIN contacts : contacts[k] = LineOf(s, i, up)
LinesInTurn ==
  \A j, k \in DOMAIN contacts :
    (j < k /\ contacts[j].from = contacts[k].from /\ contacts[j].to = contacts[k].to)
      => contacts[j].end <= contacts[k].start

ExportInv ==
  /\ phase # "refused" /\ \A s \in DOMAIN found : Clear(sky[s])
  /\ phase \in {"load", "loaded"} => Len(found) = Len(sky)
  /\ LinesAreWindows /\ WindowsAreLines /\ LinesInTurn

IsLine(c) ==
  /\ c = [from |-> c.from, to |-> c.to, start |-> c.start, end |-> c.end,
          rate |-> c.rate, owlt |-> c.owlt, confidence |-> c.confidence]
  /\ c.start \in Int /\ c.end \in Int /\ c.rate \in Int /\ c.confidence \in Int

LoadInv ==
  /\ contacts \in Seq({contacts[k] : k \in DOMAIN contacts})
  /\ \A k \in DOMAIN contacts : IsLine(contacts[k])
  /\ IF phase = "loaded"
     THEN /\ plan = [k \in DOMAIN contacts |-> Loaded(contacts[k])]
          /\ \A k \in DOMAIN contacts : Loadable(contacts[k])
     ELSE plan = <<>>
=============================================================================
