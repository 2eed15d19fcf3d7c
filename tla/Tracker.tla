------------------------------ MODULE Tracker -------------------------------
(* The tracking loop of antenna-control/src/tracking.rs over the simulated   *)
(* dish: acquisition, then one command, one tick and one sample a period.    *)
(* The same dish follows pass after pass, so a run starts from whatever the  *)
(* one before left, an early return included.  Or nobody tracks, and the     *)
(* dish is commanded and ticked by hand.                                     *)
EXTENDS Dish, Sequences

CONSTANTS Passes,         \* what desired_pointing answers at each instant
          NoLook,         \* desired_pointing fails: the propagator erred
          Aos, Ends,      \* windows a caller asks for: from Aos to one of Ends
          Dt,             \* the control period
          Leads,          \* feedforward leads a tracker is built with
          AcquireTicks,   \* ceil(acquire_timeout / tick)
          Tolerance,      \* largest versine that counts as acquired
          Cosine          \* cosine of each heading, in thousandths

ASSUME TrackerAssumption ==
  /\ Dt \in Ticks /\ Aos \in Nat /\ Ends \subseteq {e \in Nat : Aos <= e}
  /\ Leads \subseteq Nat /\ AcquireTicks \in Nat
  /\ Tolerance \in Int /\ Cosine \in [0 .. Turn - 1 -> Int]
  /\ \A p \in Passes, e \in Ends : \A i \in Aos .. e :
       p[i] = NoLook \/ {p[i].az, p[i].el} \subseteq Int \cup {NaN}

VARIABLES phase,      \* where the loop is; "idle" between two runs, "hand" if
                      \* there are none
          pass, lead, los, \* what the run was called with
          t,          \* the loop's clock
          acquired, ticks,
          samples,    \* the report's samples
          result,     \* how the last run returned
          from        \* where the dish pointed when the run began (history)

run == <<pass, lead, los, from>>
loop == <<phase, pass, lead, los, t, acquired, ticks, samples, result, from>>
vars == <<azimuth, elevation, targetAzimuth, targetElevation, loop>>

Min2(a, b) == IF a < b THEN a ELSE b

(* unit_vector and angular_separation_deg: the dot product of the pointing   *)
(* vectors.  The angle falls as it grows, so comparing versines (one less    *)
(* the cosine, in parts per 10^9) compares angles; cos(x - y) stands for the *)
(* products of the horizontal components.                                    *)
Sine(x) == Cosine[(x - Turn \div 4) % Turn]
Dot(az1, el1, az2, el2) ==
  Cosine[el1 % Turn] * Cosine[el2 % Turn] * Cosine[(az1 - az2) % Turn]
    + Sine(el1) * Sine(el2) * 1000
Versine(az1, el1, az2, el2) == 1000000000 - Dot(az1, el1, az2, el2)

(* What is not a number is no error of any size, and within no tolerance.    *)
OffBy(az, el, look) ==
  IF NaN \in {look.az, look.el} THEN NaN ELSE Versine(az, el, look.az, look.el)

Near(az, el, look) ==
  NaN \notin {look.az, look.el} /\ Versine(az, el, look.az, look.el) <= Tolerance

(* The table is rounded, but not so that a dish on target seems off it.      *)
ASSUME ToleranceAssumption ==
  \A el \in MinElevation .. MaxElevation : Versine(0, el, 0, el) <= Tolerance

-----------------------------------------------------------------------------
InitRun ==
  /\ phase \in {"idle", "hand"} /\ result = "none"
  /\ pass = (CHOOSE p \in Passes : TRUE) /\ lead = 0 /\ los = Aos /\ t = Aos
  /\ acquired = FALSE /\ ticks = 0 /\ samples = <<>>
  /\ from = <<azimuth, elevation>>

(* Tracker::new, with_lead and a call of track. *)
Begin ==
  /\ phase = "idle"
  /\ pass' \in Passes /\ lead' \in Leads /\ los' \in Ends
  /\ phase' = "acquire" /\ t' = Aos
  /\ acquired' = FALSE /\ ticks' = 0 /\ samples' = <<>> /\ result' = "none"
  /\ from' = <<azimuth, elevation>>
  /\ UNCHANGED dish

(* An early return: the report is lost, the dish keeps what it was told. *)
Fail == phase' = "idle" /\ result' = "err" /\ samples' = <<>>

(* The look angle at AOS is commanded; a refusal is ignored. *)
Acquire ==
  /\ phase = "acquire"
  /\ IF pass[Aos] = NoLook
     THEN Fail /\ UNCHANGED dish
     ELSE /\ Command(pass[Aos].az, pass[Aos].el)
          /\ phase' = "slew" /\ UNCHANGED <<samples, result>>
  /\ UNCHANGED <<t, acquired, ticks, run>>

(* Mutant: the ticks of the acquisition are not counted. *)
SlewUncounted ==
  /\ phase = "slew" /\ ticks < AcquireTicks
  /\ Tick(Dt)
  /\ LET near == Near(azimuth', elevation', pass[Aos])
     IN  acquired' = near /\ phase' = IF near THEN "steer" ELSE "slew"
  /\ UNCHANGED <<t, ticks, samples, result, run>>

(* The acquisition loop: a tick, then a look at how far the dish is. *)
Slew ==
  /\ phase = "slew" /\ ticks < AcquireTicks
  /\ Tick(Dt) /\ ticks' = ticks + 1
  /\ LET near == Near(azimuth', elevation', pass[Aos])
     IN  /\ acquired' = near
         /\ phase' = IF near THEN "steer" ELSE "slew"
  /\ UNCHANGED <<t, samples, result, run>>

GiveUp ==
  /\ phase = "slew" /\ ticks = AcquireTicks
  /\ phase' = "steer"
  /\ UNCHANGED <<dish, t, acquired, ticks, samples, result, run>>

(* Mutant: the lead is forgotten. *)
AimNow(instant) == instant

(* The instant a command aims at: lead ahead, never past the end. *)
AimAt(instant) == Min2(instant + lead, los)

(* The first half of the loop's body: the command. *)
Steer ==
  /\ phase = "steer" /\ t <= los
  /\ IF pass[AimAt(t)] = NoLook
     THEN Fail /\ UNCHANGED dish
     ELSE /\ Command(pass[AimAt(t)].az, pass[AimAt(t)].el)
          /\ phase' = "sample" /\ UNCHANGED <<samples, result>>
  /\ UNCHANGED <<t, acquired, ticks, run>>

(* The second half: the tick, the truth at the new time, the sample. *)
Sample ==
  /\ phase = "sample"
  /\ Tick(Dt) /\ t' = t + Dt
  /\ LET truth == pass[Min2(t', los)]
     IN  IF truth = NoLook
         THEN Fail
         ELSE /\ samples' = Append(samples,
                   [at |-> Min2(t', los), az |-> azimuth', el |-> elevation',
                    error |-> OffBy(azimuth', elevation', truth)])
              /\ phase' = "steer" /\ UNCHANGED result
  /\ UNCHANGED <<acquired, ticks, run>>

(* Mutant: the loop ends as soon as LOS is reached. *)
FinishAtLos ==
  /\ phase = "steer" /\ t >= los
  /\ phase' = "idle" /\ result' = "ok"
  /\ UNCHANGED <<dish, t, acquired, ticks, samples, run>>

Finish ==
  /\ phase = "steer" /\ t > los
  /\ phase' = "idle" /\ result' = "ok"
  /\ UNCHANGED <<dish, t, acquired, ticks, samples, run>>

TrackStep == Acquire \/ Slew \/ GiveUp \/ Steer \/ Sample \/ Finish

ByHand == phase = "hand" /\ (SendCommand \/ SomeTick) /\ UNCHANGED loop

TrackInit == Init /\ InitRun
TrackNext == Begin \/ TrackStep \/ ByHand

(* track is one call: nothing suspends it, so its steps go on happening.  No *)
(* caller need start another run.                                            *)
TrackSpec == TrackInit /\ [][TrackNext]_vars /\ WF_vars(TrackStep)

-----------------------------------------------------------------------------
Reach == [az |-> MaxAzimuthRate * Dt, el |-> MaxElevationRate * Dt]

Looks(k) == pass[Min2(Aos + (k - 1) * Dt + lead, los)]    \* what command k aims at
Accepted(look) == Verdict(look.az, look.el) = "Ok"
CommandsSent == Len(samples) + (IF phase = "sample" THEN 1 ELSE 0)
Good == {k \in 1 .. CommandsSent : Accepted(Looks(k))}
LastGood(k) == \A j \in Good : j <= k
Tracking == phase \in {"steer", "sample"}

(* One direction is within a period's slew of another, on both axes. *)
Within(az1, el1, az2, el2, periods) ==
  /\ Backend!Apart(az1 % Turn, az2 % Turn) <= Reach.az * periods
  /\ Backend!Climb(el1, el2) <= Reach.el * periods

(* The tolerance is finer than the grid: only a dish that points at the AOS  *)
(* angle passes for acquired.                                                *)
Resolved ==
  \A az \in 0 .. Turn - 1, el \in MinElevation .. MaxElevation :
    Near(az, el, pass[Aos]) => az = pass[Aos].az % Turn /\ el = pass[Aos].el

(* A report is about the whole window: one sample a period from the first    *)
(* tick after AOS to LOS, none before, none beyond it, the last one at LOS.  *)
(* The loop counts in periods and clips; when the window is a whole number   *)
(* of periods LOS is sampled twice, and AOS itself never.                    *)
ReportCoversPass ==
  result = "ok" =>
    /\ Len(samples) = (los - Aos) \div Dt + 1
    /\ \A k \in DOMAIN samples : samples[k].at = Min2(Aos + k * Dt, los)
    /\ samples[Len(samples)].at = los

(* And "acquired" says what the dish did, whatever became of the command: when   *)
(* it is not set, the command was refused or the dish was out of reach of    *)
(* the AOS angle in the time allowed, if any was.                            *)
AcquisitionFailsForAReason ==
  (Tracking /\ samples = <<>> /\ ~acquired) =>
    \/ AcquireTicks = 0
    \/ ~Accepted(pass[Aos])
    \/ ~Within(from[1], from[2], pass[Aos].az, pass[Aos].el, AcquireTicks)

(* What a caller reads in the report is what happened, over all of the pass. *)
ReportIsHonest == ReportCoversPass /\ AcquisitionFailsForAReason

(* In step: a pass the dish can follow, acquired on the spot, every command  *)
(* within limits.  Then each sample finds the dish exactly where it was last *)
(* told to be, so the error is the satellite's own motion over (Dt - lead):  *)
(* a lead of one period takes it away, none leaves one period of lag.        *)
InStep(n) ==
  /\ Accepted(pass[Aos]) /\ \A k \in 1 .. n : Accepted(Looks(k))
  /\ \A k \in 2 .. n : Within(Looks(k-1).az, Looks(k-1).el,
                              Looks(k).az, Looks(k).el, 1)
  /\ Within(from[1], from[2], pass[Aos].az, pass[Aos].el, AcquireTicks)
  /\ AcquireTicks > 0 /\ Resolved
  /\ Within(pass[Aos].az, pass[Aos].el, Looks(1).az, Looks(1).el, 1)

LagIsOneMotion ==
  \A n \in DOMAIN samples : InStep(n) =>
    samples[n].az = Looks(n).az % Turn /\ samples[n].el = Looks(n).el

(* Whatever has gone wrong before, a stretch the dish can follow never loses *)
(* ground: if the aim moves no further than a period's slew, the dish ends   *)
(* the period no further from its aim than it was from the aim before.  The  *)
(* keyhole near zenith costs only what it lasts.                             *)
LagNeverGrowsOnSlowPart ==
  \A n \in DOMAIN samples \ {1} :
    LET aim == Looks(n)
        old == Looks(n - 1)
    IN  (Accepted(aim) /\ Accepted(old) /\ Within(old.az, old.el, aim.az, aim.el, 1))
          => /\ Backend!Apart(samples[n].az, aim.az % Turn)
                  <= Backend!Apart(samples[n-1].az, old.az % Turn)
             /\ Backend!Climb(samples[n].el, aim.el) <= Backend!Climb(samples[n-1].el, old.el)

(* The tracking error is one motion of the satellite at most, wherever the   *)
(* dish is quick enough, and never grows there.                              *)
FollowsThePass == LagIsOneMotion /\ LagNeverGrowsOnSlowPart

(* The setpoint is the latest angle of this run that the limits allow: a     *)
(* refused command, ignored by the loop, leaves the dish steering to an old  *)
(* one.                                                                      *)
SteersToLastAccepted ==
  LET last == Looks(CHOOSE k \in Good : LastGood(k))
  IN  (Tracking /\ Good # {}) =>
        targetAzimuth = last.az % Turn /\ targetElevation = last.el

(* An error in mid-pass ends the run without a report, and never strands the *)
(* loop: every run returns.                                                  *)
Running == phase \in {"acquire", "slew", "steer", "sample"}
RunsEnd == Running ~> (phase = "idle" /\ result # "none")

-----------------------------------------------------------------------------
(* Why they hold.                                                            *)
Reading == [at : Int, az : Int, el : Int, error : Int \cup {NaN}]

LoopTypeOK ==
  /\ TypeOK
  /\ phase \in {"idle", "hand", "acquire", "slew", "steer", "sample"}
  /\ t \in Int /\ ticks \in Nat /\ samples \in Seq(Reading)
  /\ from \in (0 .. Turn - 1) \X (MinElevation .. MaxElevation)
  /\ Running => pass \in Passes /\ lead \in Leads /\ los \in Ends /\ result = "none"

(* The clock tells the samples, and the loop is within a period of the end.  *)
OnTime ==
  Tracking =>
    /\ t = Aos + Len(samples) * Dt
    /\ t <= los + (IF phase = "steer" THEN Dt ELSE 0)
    /\ \A k \in DOMAIN samples : samples[k].at = Min2(Aos + k * Dt, los)

(* Every tick of the acquisition either brings the dish to the AOS angle or  *)
(* as much nearer as the rates allow, and is not the last while it is off.   *)
Gains(az, el) ==
  /\ \/ azimuth = az
     \/ Backend!Apart(azimuth, az) + Reach.az * ticks <= Backend!Apart(from[1], az)
  /\ \/ elevation = el
     \/ Backend!Climb(elevation, el) + Reach.el * ticks <= Backend!Climb(from[2], el)

Acquiring ==
  /\ phase = "acquire" =>
       ticks = 0 /\ ~acquired /\ samples = <<>> /\ from = <<azimuth, elevation>> /\ t = Aos
  /\ phase = "slew" =>
       /\ pass[Aos] # NoLook /\ ticks <= AcquireTicks /\ ~acquired /\ samples = <<>> /\ t = Aos
       /\ ticks > 0 => ~Near(azimuth, elevation, pass[Aos])
       /\ Accepted(pass[Aos]) =>
            /\ targetAzimuth = pass[Aos].az % Turn /\ targetElevation = pass[Aos].el
            /\ Gains(targetAzimuth, targetElevation)
  /\ Tracking /\ samples = <<>> =>
       pass[Aos] # NoLook /\ (acquired => Near(azimuth, elevation, pass[Aos]))

Steering ==
  Tracking =>
    /\ \A k \in 1 .. CommandsSent : Looks(k) # NoLook
    /\ Good # {} => \E k \in Good :
         LastGood(k) /\ targetAzimuth = Looks(k).az % Turn /\ targetElevation = Looks(k).el
    /\ samples # <<>> => LET last == samples[Len(samples)] IN
         azimuth = last.az /\ elevation = last.el

TrackInv ==
  LoopTypeOK /\ OnTime /\ Acquiring /\ Steering /\ ReportIsHonest /\ FollowsThePass
=============================================================================
