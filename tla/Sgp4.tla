-------------------------------- MODULE Sgp4 --------------------------------
(* The propagator as its callers see it: from_tle (init.rs) and propagate    *)
(* (propagate.rs), with the deep-space routines they call.  Formulas without *)
(* a decision in them are linear in time here, and sines are triangles; the  *)
(* tests, clamps, early returns and loops of propagate, dspace, dpper and    *)
(* dsinit are kept, in their order.  The tests of from_tle that only choose  *)
(* the constants of drag (a perigee below 156 and 98 km, an orbit that is    *)
(* nearly round) are not: the constants are the given bstar.                 *)
EXTENDS Integers, FiniteSets

CONSTANTS Orbits,   \* element sets as parsed
          Waves,    \* what the lunar and solar sums are at each time
          Times,    \* the times asked for
          MaxCalls

ASSUME OrbitsAssumption ==
  /\ \A e \in Orbits :
       /\ {e.period, e.nodeo, e.argpo, e.mo, e.no, e.bstar} \subseteq Int
       /\ {e.dedt, e.didt, e.dnodt, e.domdt, e.dmdt} \subseteq Int
       /\ {e.ecco, e.inclo} \subseteq Nat /\ e.low \in BOOLEAN
  /\ Times \subseteq Int /\ MaxCalls \in Nat
  /\ \A sums \in Waves : \A tc \in Times \cup {0} :
       sums[tc] \in [pe : Int, pinc : Int, ph : Int, pgh : Int, pl : Int]

VARIABLES tle, wave, prop, call, answers

propVars == <<tle, wave, prop, call, answers>>

NoPropagator == [built |-> "no"]
Refused == [built |-> "refused"]
Idle == [at |-> "idle"]

-----------------------------------------------------------------------------
(* The deep-space corrections of deep_space.rs: the classes of resonance,    *)
(* the integrator of dspace, and the periodic terms of dpper.  Numbers are   *)
(* integers: times in ticks, angles in sixty-fourths of a turn, and the sums *)
(* of sines that drive the integrator are a toy pull of the same arguments.  *)
Step == 2              \* stepp, 720 minutes, and so
Step2 == 2             \* step2, half its square
Turn == 64
Half == 32
Quarter == 16
One == 1024            \* eccentricity 1, and the sine of a quarter turn
Tiny == 1              \* what an eccentricity is kept away from 0 and from 1
Lyddane == 2           \* 0.2 rad

Sine(angle) ==
  LET b == angle % Turn
  IN  64 * (IF b < Quarter THEN b ELSE IF b < Half + Quarter THEN Half - b ELSE b - Turn)
Cosine(angle) == Sine(angle + Quarter)
Part(sine, n) == (sine * n) \div One

Abs(n) == IF n < 0 THEN -n ELSE n
Between(low, n, high) == low <= n /\ n <= high

(* The bounds on the mean motion in dsinit, as periods in minutes. *)
Resonance(period, ecc) ==
  IF Between(680, period, 760) /\ 2 * ecc >= One THEN 2
  ELSE IF 1200 < period /\ period <= 1800 THEN 1
  ELSE 0

(* One evaluation of the resonance terms: the half-day class also looks at   *)
(* the perigee, which moves with atime.                                      *)
Pull(angle) == IF angle % Turn < Half THEN 1 ELSE -1
Slope(angle) == IF (angle + Half \div 2) % Turn < Half THEN 1 ELSE -1
Rates(p, w) ==
  LET angle == IF p.irez = 2 THEN w.xli + p.argpo + w.atime ELSE w.xli
      xldot == w.xni + p.xfact
  IN  [xldot |-> xldot, xndt |-> p.force * Pull(angle),
       xnddt |-> p.force * Slope(angle) * xldot]

(* dspace begins again at the epoch unless it can go on from where it was.   *)
Seed(p) == [atime |-> 0, xli |-> p.xlamo, xni |-> p.no]
Resumed(p, w, tc) ==
  IF w.atime = 0 \/ tc * w.atime <= 0 \/ Abs(tc) < Abs(w.atime) THEN Seed(p) ELSE w

Delt(tc) == IF tc > 0 THEN Step ELSE -Step
MoreSteps(w, tc) == Abs(tc - w.atime) >= Step

\* Mutant: the longitude always steps forward.
AdvanceForward(p, w, delt) ==
  LET r == Rates(p, w)
  IN  [atime |-> w.atime + delt,
       xli |-> (w.xli + r.xldot * Step + r.xndt * Step2) % Turn,
       xni |-> w.xni + r.xndt * delt + r.xnddt * Step2]

Advance(p, w, delt) ==
  LET r == Rates(p, w)
  IN  [atime |-> w.atime + delt,
       xli |-> (w.xli + r.xldot * delt + r.xndt * Step2) % Turn,
       xni |-> w.xni + r.xndt * delt + r.xnddt * Step2]

(* The rest of the way, twice over to keep the halves of squares whole. *)
Extrapolate(p, w, tc) ==
  LET r == Rates(p, w)
      ft == tc - w.atime
  IN  [nm2 |-> 2 * w.xni + 2 * r.xndt * ft + r.xnddt * ft * ft,
       xl2 |-> 2 * w.xli + 2 * r.xldot * ft + r.xndt * ft * ft]

(* dpper.  What the lunar and solar sums amount to is given, the node's over  *)
(* the sine of the inclination.  Below the limit the node is found again     *)
(* from its direction (atan2) and then moved by a turn one way or the other, *)
(* and the perigee gives way by its share of what the node moved, that turn  *)
(* included: propagate reduces the node again, and not the perigee.          *)
Direction(angle) == IF angle % Turn > Half THEN (angle % Turn) - Turn ELSE angle % Turn
MovedNode(node, ph) ==
  LET xnoh == node % Turn
      nodep == Direction(xnoh + ph)
  IN  IF nodep < xnoh THEN nodep + Turn ELSE nodep - Turn
Dpper(m, sums) ==
  LET inclp == m.incl + sums.pinc
      high == inclp >= Lyddane
      nodep == IF high THEN m.node + sums.ph ELSE MovedNode(m.node, sums.ph)
  IN  [m EXCEPT !.em = @ + sums.pe, !.incl = inclp, !.node = nodep,
                !.argp = IF high THEN @ + sums.pgh - Part(Cosine(inclp), sums.ph)
                         ELSE @ + Part(Cosine(inclp), (m.node % Turn) - nodep),
                !.mm = @ + sums.pl]

-----------------------------------------------------------------------------
(* dsinit: the class of resonance, how strong the pull is, where the         *)
(* integrator starts, and the rates of the long-period drift, beside which   *)
(* each secular rate and that of the earth is 1.  Near the equator, from     *)
(* either side, the node does not drift and takes nothing from the perigee;  *)
(* nothing is divided by a sine of 0.                                        *)
Flat(incl) == ~Between(1, incl, Half - 1)
NodeDrift(e) == IF Flat(e.inclo) THEN 0 ELSE e.dnodt
PerigeeDrift(e) == e.domdt - Part(Cosine(e.inclo), NodeDrift(e))

(* The half-day class takes its coefficients from tables that change at an   *)
(* eccentricity of 0.65, 0.7 and 0.715.                                      *)
Strength(irez, ecc) ==
  CASE irez = 0 -> 0
    [] irez = 1 -> 1
    [] irez = 2 -> (IF 100 * ecc <= 65 * One THEN 1 ELSE IF 1000 * ecc > 715 * One THEN 3 ELSE 2)
                   + (IF 10 * ecc < 7 * One THEN 0 ELSE 2)

Dsinit(e) ==
  LET irez == Resonance(e.period, e.ecco)
  IN  [irez |-> irez, force |-> Strength(irez, e.ecco),
       xlamo |-> IF irez = 0 THEN 0
                 ELSE (e.mo + e.nodeo + (IF irez = 2 THEN e.nodeo ELSE e.argpo)) % Turn,
       xfact |-> IF irez = 0 THEN 0
                 ELSE e.dmdt + NodeDrift(e) - e.no
                      + (IF irez = 2 THEN 1 + NodeDrift(e) ELSE 2 + PerigeeDrift(e)),
       dedt |-> e.dedt, didt |-> e.didt, dnodt |-> NodeDrift(e), domdt |-> PerigeeDrift(e),
       dmdt |-> e.dmdt, xni |-> IF irez = 0 THEN 0 ELSE e.no]
NoDeep == [irez |-> 0, force |-> 0, xlamo |-> 0, xfact |-> 0, dedt |-> 0, didt |-> 0,
           dnodt |-> 0, domdt |-> 0, dmdt |-> 0, xni |-> 0]

(* from_tle: low perigees and deep space use the simple drag terms. *)
Deep(e) == e.period >= 225
FromElements(e) ==
  LET deep == IF Deep(e) THEN Dsinit(e) ELSE NoDeep
  IN  [built |-> "yes", method |-> IF Deep(e) THEN "d" ELSE "n", isimp |-> e.low \/ Deep(e),
       ecco |-> e.ecco, inclo |-> e.inclo, nodeo |-> e.nodeo, argpo |-> e.argpo, mo |-> e.mo,
       no |-> e.no, bstar |-> e.bstar,
       irez |-> deep.irez, force |-> deep.force, xlamo |-> deep.xlamo, xfact |-> deep.xfact,
       dedt |-> deep.dedt, didt |-> deep.didt, dnodt |-> deep.dnodt, domdt |-> deep.domdt,
       dmdt |-> deep.dmdt, w |-> [atime |-> 0, xli |-> deep.xlamo, xni |-> deep.xni]]

(* propagate up to dspace, on a clone: the secular terms of gravity and, if  *)
(* not simplified, the oscillation of the drag terms.  The axes and the      *)
(* anomaly of Kepler's equation come later.                                  *)
Wobble(p, tc) == IF p.isimp THEN 0 ELSE p.bstar * (tc % 2)
Tempe(p, tc) == p.bstar * tc + Wobble(p, tc)
Templ(p, tc) == p.bstar * tc * tc + Wobble(p, tc)
NoAxes == [axnl |-> 0, aynl |-> 0, u |-> 0]
NoAnomaly == [eo1 |-> 0, tem5 |-> 0, ktr |-> 0]
Secular(p, tc) ==
  [at |-> IF p.method = "d" THEN "dspace" ELSE "mean", tc |-> tc,
   em |-> p.ecco, incl |-> p.inclo, node |-> p.nodeo + tc,
   argp |-> p.argpo + tc - Wobble(p, tc), mm |-> p.mo + tc + Wobble(p, tc),
   nm2 |-> 2 * p.no, xl2 |-> 0, w |-> p.w, axes |-> NoAxes, kep |-> NoAnomaly]

(* dspace: the long-period rates, and for a resonant orbit the integrator. *)
Drifted(p, c) ==
  [c EXCEPT !.em = @ + p.dedt * c.tc, !.incl = @ + p.didt * c.tc,
            !.node = @ + p.dnodt * c.tc, !.argp = @ + p.domdt * c.tc,
            !.mm = @ + p.dmdt * c.tc, !.w = Resumed(p, @, c.tc),
            !.at = IF p.irez = 0 THEN "mean" ELSE "loop"]

(* The mean anomaly from the longitude that was integrated, for an earth     *)
(* that turns by one in a tick.                                              *)
Anomaly(p, c, xl2) ==
  IF p.irez = 2 THEN (xl2 \div 2) - 2 * c.node + 2 * c.tc
  ELSE (xl2 \div 2) - c.node - c.argp + c.tc

(* The axes of Kepler's equation, which the oblateness of the earth lifts    *)
(* the more the closer the orbit is to a parabola, and where Newton starts.  *)
Lift(c) == Part(Sine(c.incl), (One * One) \div (One * One - c.em * c.em))
Axes(c) ==
  LET axnl == Part(Cosine(c.argp), c.em)
  IN  [axnl |-> axnl, aynl |-> Part(Sine(c.argp), c.em) + Lift(c),
       u |-> (c.mm + c.argp + Part(Lift(c), axnl)) % Turn]
OpenOrbit(a) == a.axnl * a.axnl + a.aynl * a.aynl > One * One

(* One round of Newton: a correction of at most 0.95 rad, towards 0 when     *)
(* rounded; where nothing is divided by nothing the loop ends.               *)
Largest == 10
Radian == 10
MaxRounds == 10
Clamp(n) == IF n > Largest THEN Largest ELSE IF n < -Largest THEN -Largest ELSE n
Correction(numer, denom) ==
  IF denom = 0 THEN Clamp(numer * One)
  ELSE LET size == Clamp(Abs(numer) \div Abs(denom))
       IN  IF numer * denom < 0 THEN -size ELSE size
Newton(a, k) ==
  LET sineo1 == Sine(k.eo1)
      coseo1 == Cosine(k.eo1)
      tem5 == Correction((a.u - k.eo1) * One
                           + Radian * (Part(sineo1, a.axnl) - Part(coseo1, a.aynl)),
                         One - Part(coseo1, a.axnl) - Part(sineo1, a.aynl))
  IN  [eo1 |-> k.eo1 + tem5, tem5 |-> tem5, ktr |-> k.ktr + 1]
Unsolved(k) == k.tem5 # 0 /\ k.ktr <= MaxRounds

Building == prop.built = "no"
Ok(c) == [kind |-> "ok", nm2 |-> c.nm2, xl2 |-> c.xl2, ep |-> c.em, incl |-> c.incl,
          node |-> c.node, argp |-> c.argp, mm |-> c.mm, axes |-> c.axes, eo1 |-> c.kep.eo1]
Failure(why) == [kind |-> why]

-----------------------------------------------------------------------------
PropInit ==
  /\ tle \in Orbits /\ wave \in Waves
  /\ prop = NoPropagator /\ call = Idle /\ answers = {}

(* The propagator that is being built, or was. *)
Current == IF Building THEN FromElements(tle) ELSE prop

(* from_tle ends with a propagation to the epoch. *)
FromTle ==
  /\ call = Idle /\ Building
  /\ call' = Secular(FromElements(tle), 0)
  /\ UNCHANGED <<tle, wave, prop, answers>>

Propagate(tc) ==
  /\ call = Idle /\ prop.built = "yes" /\ Cardinality(answers) < MaxCalls
  /\ call' = Secular(prop, tc)
  /\ UNCHANGED <<tle, wave, prop, answers>>

Dspace ==
  /\ call.at = "dspace"
  /\ call' = Drifted(Current, call)
  /\ UNCHANGED <<tle, wave, prop, answers>>

\* Mutant: the step stays in the locals.
IntegrateLocally ==
  /\ call.at = "loop" /\ MoreSteps(call.w, call.tc)
  /\ UNCHANGED propVars

Integrate ==
  /\ call.at = "loop" /\ MoreSteps(call.w, call.tc)
  /\ call' = [call EXCEPT !.w = Advance(Current, @, Delt(call.tc))]
  /\ UNCHANGED <<tle, wave, prop, answers>>

Arrive ==
  /\ call.at = "loop" /\ ~MoreSteps(call.w, call.tc)
  /\ LET e == Extrapolate(Current, call.w, call.tc)
     IN  call' = [call EXCEPT !.nm2 = e.nm2, !.xl2 = e.xl2,
                              !.mm = Anomaly(Current, call, e.xl2), !.at = "mean"]
  /\ UNCHANGED <<tle, wave, prop, answers>>

(* A call ends: it is an answer, or decides whether there is a propagator.   *)
Reply(r) ==
  /\ call' = Idle
  /\ IF Building
     THEN /\ prop' = IF r.kind = "ok" THEN Current ELSE Refused
          /\ UNCHANGED answers
     ELSE /\ answers' = answers \cup {<<call.tc, r>>}
          /\ UNCHANGED prop
  /\ UNCHANGED <<tle, wave>>

MeanFails ==
  /\ call.at = "mean"
  /\ LET em == call.em - Tempe(Current, call.tc)
     IN  \/ call.nm2 <= 0 /\ Reply(Failure("mean motion"))
         \/ call.nm2 > 0 /\ ~(-1 <= em /\ em < One) /\ Reply(Failure("eccentricity"))

AtLeast(low, n) == IF n < low THEN low ELSE n
Mean ==
  /\ call.at = "mean" /\ call.nm2 > 0
  /\ LET em == call.em - Tempe(Current, call.tc)
     IN  /\ -1 <= em /\ em < One
         /\ call' = [call EXCEPT !.em = AtLeast(Tiny, em), !.node = @ % Turn,
                                 !.argp = @ % Turn, !.mm = (@ + Templ(Current, call.tc)) % Turn,
                                 !.at = IF Current.method = "d" THEN "periodic" ELSE "axes"]
  /\ UNCHANGED <<tle, wave, prop, answers>>

(* dpper, an inclination that went below zero turned over, and the           *)
(* eccentricity clamped at both ends.                                        *)
TurnedOver(c) ==
  IF c.incl < 0 THEN [c EXCEPT !.incl = -@, !.node = @ + Half, !.argp = @ - Half] ELSE c
Clamped(e) == IF e < Tiny THEN Tiny ELSE IF e >= One THEN One - Tiny ELSE e
Periodic ==
  /\ call.at = "periodic"
  /\ LET c == TurnedOver(Dpper(call, wave[call.tc]))
     IN  call' = [c EXCEPT !.em = Clamped(@), !.at = "axes"]
  /\ UNCHANGED <<tle, wave, prop, answers>>

(* Kepler's equation: at most ten rounds, in a loop that is entered.  The    *)
(* refusal of an open orbit comes after it.                                  *)
SetUp ==
  /\ call.at = "axes"
  /\ LET a == Axes(call)
     IN  call' = [call EXCEPT !.axes = a, !.kep = [eo1 |-> a.u, tem5 |-> Turn, ktr |-> 1],
                              !.at = "kepler"]
  /\ UNCHANGED <<tle, wave, prop, answers>>

Iterate ==
  /\ call.at = "kepler" /\ Unsolved(call.kep)
  /\ call' = [call EXCEPT !.kep = Newton(call.axes, @)]
  /\ UNCHANGED <<tle, wave, prop, answers>>

Solve ==
  /\ call.at = "kepler" /\ ~Unsolved(call.kep)
  /\ Reply(IF OpenOrbit(call.axes) THEN Failure("semi-latus rectum") ELSE Ok(call))

Work == Dspace \/ Integrate \/ Arrive \/ MeanFails \/ Mean \/ Periodic
        \/ SetUp \/ Iterate \/ Solve
PropNext == FromTle \/ (\E tc \in Times : Propagate(tc)) \/ Work

PropSpec == PropInit /\ [][PropNext]_propVars
PropFairSpec == PropSpec /\ WF_propVars(Work)

-----------------------------------------------------------------------------
(* A call answers from the elements alone: the mean motion and the longitude *)
(* of a resonant orbit are what quadratic steps from the epoch towards the   *)
(* time give, the last one shorter - for times before the epoch too, on      *)
(* either side of a whole number of steps, whatever was asked before; so one *)
(* time has one answer, and a propagator that was built has one at its epoch.*)
Towards(p, q, h) ==
  LET r == Rates(p, q)
  IN  [nm2 |-> 2 * q.xni + 2 * r.xndt * h + r.xnddt * h * h,
       xl2 |-> 2 * q.xli + 2 * r.xldot * h + r.xndt * h * h]
Stride(tc) == IF tc < 0 THEN -Step ELSE Step
Points(p, tc) ==
  LET point[k \in Nat] ==
        IF k = 0 THEN [atime |-> 0, xli |-> p.xlamo, xni |-> p.no]
        ELSE LET q == Towards(p, point[k - 1], Stride(tc))
             IN  [atime |-> k * Stride(tc), xli |-> (q.xl2 \div 2) % Turn,
                  xni |-> q.nm2 \div 2]
  IN  point
Strides(tc) == Abs(tc) \div Step
Course(p, tc) == Towards(p, Points(p, tc)[Strides(tc)], tc - Strides(tc) * Stride(tc))

AnswersFromEpoch ==
  /\ \A a \in answers : (a[2].kind = "ok" /\ prop.irez # 0) =>
       [nm2 |-> a[2].nm2, xl2 |-> a[2].xl2] = Course(prop, a[1])
  /\ \A a, b \in answers : a[1] = b[1] => a = b
  /\ \A a \in answers : a[1] = 0 => a[2].kind = "ok"

(* The integrator and Newton's loop, and with them every call, come to an    *)
(* end.                                                                      *)
CallsReturn == (call # Idle) ~> (call = Idle)
=============================================================================
