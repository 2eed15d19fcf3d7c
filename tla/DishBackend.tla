---------------------------- MODULE DishBackend -----------------------------
(* What a dish promises the tracking loop: the interface contract of         *)
(* antenna-control/src/hal.rs, whatever the hardware.  The reported pointing *)
(* nears the setpoint along the smaller arc, no faster than the advertised   *)
(* rates, and arrives; a command changes the setpoint or changes nothing.    *)
EXTENDS Integers

CONSTANTS Turn,              \* units in a full turn of azimuth
          MaxAzimuthRate,    \* units of azimuth in a unit of time
          MaxElevationRate,
          MinElevation, MaxElevation,
          Ticks              \* the periods the controller may tick with

VARIABLES azimuth, elevation, targetAzimuth, targetElevation

vars == <<azimuth, elevation, targetAzimuth, targetElevation>>

Headings == 0 .. Turn - 1
Elevations == MinElevation .. MaxElevation

(* The smaller of the two arcs between two headings. *)
Apart(a, b) ==
  LET d == IF a < b THEN b - a ELSE a - b
  IN  IF d < Turn - d THEN d ELSE Turn - d

Climb(a, b) == IF a < b THEN b - a ELSE a - b

(* One axis of a tick: no faster than the rate, nearer by all it moved, and  *)
(* as far as the rate allows.                                                *)
Nears(moved, before, after, reach) ==
  /\ moved <= reach
  /\ after = before - moved
  /\ after = 0 \/ moved = reach

Init ==
  /\ azimuth \in Headings /\ elevation \in Elevations
  /\ targetAzimuth = azimuth /\ targetElevation = elevation

Command ==
  /\ targetAzimuth' \in Headings /\ targetElevation' \in Elevations
  /\ UNCHANGED <<azimuth, elevation>>

Tick(dt) ==
  /\ azimuth' \in Headings /\ elevation' \in Elevations
  /\ Nears(Apart(azimuth, azimuth'), Apart(azimuth, targetAzimuth),
           Apart(azimuth', targetAzimuth), MaxAzimuthRate * dt)
  /\ Nears(Climb(elevation, elevation'), Climb(elevation, targetElevation),
           Climb(elevation', targetElevation), MaxElevationRate * dt)
  /\ UNCHANGED <<targetAzimuth, targetElevation>>

Next == Command \/ \E dt \in Ticks : Tick(dt)

(* A tick brings the dish nearer by all it can, so a setpoint that is left   *)
(* alone is reached in finitely many ticks (hal.rs guarantee 2).             *)
Spec == Init /\ [][Next]_vars
=============================================================================
