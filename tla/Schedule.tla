------------------------------ MODULE Schedule ------------------------------
(* The tools built on visibility windows: plan_handoffs for the satellites   *)
(* over one station, and export_contacts for the stations under one          *)
(* satellite with the loading of what it prints.  A document may also come   *)
(* from elsewhere.                                                           *)
EXTENDS Handoff, ContactSchedule

vars == <<search, phase, scanning, planning, schedule>>

Init ==
  /\ SearchInit
  /\ \/ tool \in {"handoff", "export"} /\ phase = "scan"
     \/ tool = "none" /\ phase = "load"
  /\ PlanInit /\ DocumentInit

Next ==
  \/ ScanTurn /\ UNCHANGED <<planning, schedule>>
  \/ PlanHandoffs /\ UNCHANGED schedule
  \/ MakeSchedule /\ UNCHANGED planning

Spec == Init /\ [][Next]_vars

-----------------------------------------------------------------------------
(* What every state of the tools has, tool by tool.                          *)
Phases == [handoff |-> {"scan", "plan", "planned"},
           export |-> {"scan", "load", "loaded", "panicked", "refused"},
           none |-> {"load", "loaded", "refused"}]

ScheduleInv ==
  /\ tool \in {"handoff", "export", "none"} /\ phase \in Phases[tool]
  /\ ScanInv /\ PlanInv /\ LoadInv
  /\ tool = "export" => ExportInv
  /\ tool = "handoff" => contacts = <<>>
=============================================================================
