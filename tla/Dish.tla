-------------------------------- MODULE Dish --------------------------------
(* The simulated dish of antenna-control/src/hal.rs: a setpoint, a pointing, *)
(* command, tick and state.  Angles and times are integers on a grid, and    *)
(* their arithmetic is exact.                                                *)
EXTENDS Integers

CONSTANTS Turn,                               \* units in a full turn of azimuth
          MaxAzimuthRate, MaxElevationRate,   \* units in a unit of time
          MinElevation, MaxElevation,         \* the limits a command must meet
          Ticks,                              \* periods a caller ticks with
          AzimuthInputs, ElevationInputs,     \* finite angles a caller sends
          Parkings,                           \* pairs of them it parks the dish at
          NaN                                 \* an angle that is not a number

ASSUME DishAssumption ==
  /\ Turn \in Nat \ {0}
  /\ MaxAzimuthRate \in Nat \ {0} /\ MaxElevationRate \in Nat \ {0}
  /\ MinElevation \in Int /\ MaxElevation \in Int
  /\ MinElevation <= MaxElevation
  /\ Ticks \subseteq Nat \ {0} /\ Ticks # {}
  /\ AzimuthInputs \subseteq Int /\ ElevationInputs \subseteq Int
  /\ Parkings \subseteq AzimuthInputs \X ElevationInputs

VARIABLES azimuth, elevation, targetAzimuth, targetElevation

dish == <<azimuth, elevation, targetAzimuth, targetElevation>>

Angles360 == AzimuthInputs \cup {NaN}
Elevation90 == ElevationInputs \cup {NaN}

(* wrap_360, deg.rem_euclid(360). *)
Wrap360(deg) == deg % Turn

(* Mutant: always clockwise. *)
ClockwiseArc(from, to) == Wrap360(to - from)

(* shortest_arc: signed, in (-Turn/2, Turn/2]. *)
ShortestArc(from, to) ==
  LET d == Wrap360(to - from)
  IN  IF 2 * d > Turn THEN d - Turn ELSE d

Clamp(x, lo, hi) == IF x < lo THEN lo ELSE IF x > hi THEN hi ELSE x

(* SimulatedDish::new: parked at azimuth 0 on the mechanical horizon. *)
New ==
  /\ azimuth = 0 /\ targetAzimuth = 0
  /\ elevation = MinElevation /\ targetElevation = MinElevation

(* SimulatedDish::parked_at: wrapped and clamped, already at its setpoint. *)
ParkedAt(az, el) ==
  /\ azimuth = Wrap360(az) /\ targetAzimuth = Wrap360(az)
  /\ elevation = Clamp(el, MinElevation, MaxElevation)
  /\ targetElevation = Clamp(el, MinElevation, MaxElevation)

(* command's three refusals, in the order it tries them. *)
Verdict(az, el) ==
  IF NaN \in {az, el} THEN "NotFinite"
  ELSE IF el < MinElevation THEN "BelowHorizon"
  ELSE IF el > MaxElevation THEN "AboveCeiling"
  ELSE "Ok"

(* Mutant: the azimuth is taken before the elevation is refused. *)
CommandHalf(az, el) ==
  /\ targetAzimuth' = IF NaN = az THEN targetAzimuth ELSE Wrap360(az)
  /\ targetElevation' = IF Verdict(az, el) = "Ok" THEN el ELSE targetElevation
  /\ UNCHANGED <<azimuth, elevation>>

(* command: a refused target leaves the setpoint as it was. *)
Command(az, el) ==
  /\ IF Verdict(az, el) = "Ok"
     THEN targetAzimuth' = Wrap360(az) /\ targetElevation' = el
     ELSE UNCHANGED <<targetAzimuth, targetElevation>>
  /\ UNCHANGED <<azimuth, elevation>>

(* tick: each axis moves by its difference, clamped to what it can turn. *)
Tick(dt) ==
  LET azReach == MaxAzimuthRate * dt
      elReach == MaxElevationRate * dt
  IN  /\ azimuth' = Wrap360(azimuth +
           Clamp(ShortestArc(azimuth, targetAzimuth), -azReach, azReach))
      /\ elevation' = elevation +
           Clamp(targetElevation - elevation, -elReach, elReach)
      /\ UNCHANGED <<targetAzimuth, targetElevation>>

(* state: the slewing flag. *)
Slewing ==
  \/ ShortestArc(azimuth, targetAzimuth) # 0
  \/ targetElevation # elevation

Init == New \/ \E p \in Parkings : ParkedAt(p[1], p[2])

SendCommand == \E az \in Angles360, el \in Elevation90 : Command(az, el)
SomeTick == \E dt \in Ticks : Tick(dt)

Next == SendCommand \/ SomeTick

Spec == Init /\ [][Next]_dish

-----------------------------------------------------------------------------
(* The pointing is made of angles the contract allows (hal.rs guarantee 4).  *)
TypeOK ==
  /\ azimuth \in 0 .. Turn - 1 /\ targetAzimuth \in 0 .. Turn - 1
  /\ elevation \in MinElevation .. MaxElevation
  /\ targetElevation \in MinElevation .. MaxElevation

Backend == INSTANCE DishBackend

(* The simulated dish keeps the whole contract: what each command and each   *)
(* tick does to the reported pointing is a step the contract allows.  A tick *)
(* that turned the long way round, overshot, forgot the seam at north or     *)
(* moved during a command would not be; and the slewing flag goes out when,  *)
(* and only when, the dish has arrived.                                      *)
MeetsContract ==
  /\ Backend!Spec
  /\ [](Slewing <=> <<azimuth, elevation>> # <<targetAzimuth, targetElevation>>)
=============================================================================
