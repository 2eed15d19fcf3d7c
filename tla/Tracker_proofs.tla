--------------------------- MODULE Tracker_proofs ---------------------------
(* The simulated dish keeps the contract of the interface, for every circle, *)
(* rate, limit and period; and the tracking loop follows its pass and        *)
(* reports it honestly, whatever the passes, periods, leads and tolerance.   *)
EXTENDS Tracker, SequenceTheorems, TLAPS

(* What the contract's modules say, by the names of this one. *)
Apart(a, b) ==
  LET d == IF a < b THEN b - a ELSE a - b
  IN  IF d < Turn - d THEN d ELSE Turn - d
Magnitude(n) == IF n < 0 THEN -n ELSE n

(* A heading a turn away is the same heading. *)
LEMMA WrapHeading ==
  ASSUME NEW x \in 0 .. Turn - 1
  PROVE  Wrap360(x) = x /\ Wrap360(x + Turn) = x /\ Wrap360(x - Turn) = x
<1>1. Turn \in Nat \ {0}
  BY DishAssumption
<1>2. x % Turn = x
  BY <1>1
<1>3. (x + Turn) % Turn = x
  BY <1>1
<1>4. (x - Turn) % Turn = x
  BY <1>1
<1> QED BY <1>2, <1>3, <1>4 DEF Wrap360

LEMMA WrapIsHeading ==
  ASSUME NEW x \in Int
  PROVE  Wrap360(x) \in 0 .. Turn - 1
<1>1. Turn \in Nat \ {0}
  BY DishAssumption
<1>2. x % Turn \in 0 .. Turn - 1
  BY <1>1
<1> QED BY <1>2 DEF Wrap360

(* Less than a turn off either end of the circle, wrapping adds or takes     *)
(* one turn.                                                                 *)
LEMMA WrapOnce ==
  ASSUME NEW x \in Int, -Turn <= x, x < 2 * Turn
  PROVE  Wrap360(x) = IF x < 0 THEN x + Turn ELSE IF x < Turn THEN x ELSE x - Turn
<1>0. Turn \in Nat \ {0}
  BY DishAssumption
<1>1. CASE x < 0
  <2>1. x + Turn \in 0 .. Turn - 1
    BY <1>0, <1>1
  <2>2. (x + Turn) - Turn = x
    BY <1>0
  <2> QED BY <1>1, <2>1, <2>2, WrapHeading
<1>2. CASE 0 <= x /\ x < Turn
  BY <1>0, <1>2, WrapHeading
<1>3. CASE Turn <= x
  <2>1. x - Turn \in 0 .. Turn - 1
    BY <1>0, <1>3
  <2>2. (x - Turn) + Turn = x
    BY <1>0
  <2> QED BY <1>0, <1>3, <2>1, <2>2, WrapHeading
<1> QED BY <1>0, <1>1, <1>2, <1>3

(* The arc that tick follows is the smaller one, and leads to the setpoint.  *)
LEMMA ArcIsSmallest ==
  ASSUME NEW a \in 0 .. Turn - 1, NEW g \in 0 .. Turn - 1
  PROVE  /\ ShortestArc(a, g) \in Int
         /\ 2 * ShortestArc(a, g) <= Turn /\ -Turn < 2 * ShortestArc(a, g)
         /\ g - a - ShortestArc(a, g) \in {-Turn, 0, Turn}
         /\ Magnitude(ShortestArc(a, g)) = Apart(a, g)
<1>0. Turn \in Nat \ {0}
  BY DishAssumption
<1>1. g - a \in Int /\ -Turn <= g - a /\ g - a < 2 * Turn
  BY <1>0
<1>2. Wrap360(g - a) = IF g - a < 0 THEN g - a + Turn ELSE g - a
  BY <1>0, <1>1, WrapOnce
<1> QED BY <1>0, <1>2 DEF ShortestArc, Magnitude, Apart

(* Part of the way along that arc, the dish is as far from where it was as   *)
(* it moved, and as far from the setpoint as there is left to move.          *)
LEMMA PartOfTheWay ==
  ASSUME NEW a \in 0 .. Turn - 1, NEW g \in 0 .. Turn - 1, NEW m \in Int,
         Magnitude(m) <= Magnitude(ShortestArc(a, g)),
         m = 0 \/ (m < 0 <=> ShortestArc(a, g) < 0)
  PROVE  /\ Wrap360(a + m) \in 0 .. Turn - 1
         /\ Apart(a, Wrap360(a + m)) = Magnitude(m)
         /\ Apart(Wrap360(a + m), g) = Apart(a, g) - Magnitude(m)
<1> DEFINE s == ShortestArc(a, g)
           x == a + m
           b == Wrap360(x)
<1>0. Turn \in Nat \ {0}
  BY DishAssumption
<1>1. /\ s \in Int /\ 2 * s <= Turn /\ -Turn < 2 * s
      /\ g - a - s \in {-Turn, 0, Turn} /\ Magnitude(s) = Apart(a, g)
  BY ArcIsSmallest
<1>2. Magnitude(m) <= Magnitude(s) /\ (m = 0 \/ (m < 0 <=> s < 0))
  OBVIOUS
<1> HIDE DEF s
<1>3. IF s < 0 THEN s <= m /\ m <= 0 ELSE 0 <= m /\ m <= s
  BY <1>1, <1>2 DEF Magnitude
<1>4. x \in Int /\ -Turn <= x /\ x < 2 * Turn
  BY <1>0, <1>1, <1>3
<1>5. x = a + m
  OBVIOUS
<1> HIDE DEF x
<1>6. b = IF x < 0 THEN x + Turn ELSE IF x < Turn THEN x ELSE x - Turn
  BY <1>4, WrapOnce
<1>7. b \in 0 .. Turn - 1
  BY <1>4, WrapIsHeading
<1> HIDE DEF b
<1>8. Apart(a, b) = Magnitude(m)
  BY <1>0, <1>1, <1>3, <1>5, <1>6 DEF Magnitude, Apart
<1>9. Apart(b, g) = Magnitude(s - m)
  <2>1. b - a - m \in {-Turn, 0, Turn}
    BY <1>0, <1>5, <1>6
  <2>2. (g - b) - (s - m) \in {-2 * Turn, -Turn, 0, Turn, 2 * Turn}
    BY <1>0, <1>1, <1>7, <2>1
  <2>3. g - b \in Int /\ -Turn < g - b /\ g - b < Turn
    BY <1>0, <1>7
  <2>4. 2 * (s - m) <= Turn /\ -Turn < 2 * (s - m)
    BY <1>0, <1>1, <1>3
  <2>5. (g - b) - (s - m) \in {-Turn, 0, Turn}
    BY <1>0, <1>1, <2>2, <2>3, <2>4
  <2> QED BY <1>0, <1>1, <1>7, <2>3, <2>4, <2>5 DEF Magnitude, Apart
<1>10. Magnitude(s - m) = Magnitude(s) - Magnitude(m)
  BY <1>1, <1>3 DEF Magnitude
<1>11. Apart(b, g) = Apart(a, g) - Magnitude(m)
  BY <1>1, <1>9, <1>10
<1> QED BY <1>7, <1>8, <1>11 DEF b, x

-----------------------------------------------------------------------------
LEMMA InitialDish == Init => TypeOK /\ Backend!Init
<1> SUFFICES ASSUME Init PROVE TypeOK /\ Backend!Init
  OBVIOUS
<1>0. Turn \in Nat \ {0} /\ MinElevation \in Int /\ MaxElevation \in Int
      /\ MinElevation <= MaxElevation
  BY DishAssumption
<1>1. TypeOK /\ targetAzimuth = azimuth /\ targetElevation = elevation
  <2>1. CASE New
    BY <1>0, <2>1 DEF New, TypeOK
  <2>2. ASSUME NEW p \in Parkings, ParkedAt(p[1], p[2])
        PROVE  TypeOK /\ targetAzimuth = azimuth /\ targetElevation = elevation
    <3>1. p[1] \in Int /\ p[2] \in Int
      BY DishAssumption
    <3>2. Wrap360(p[1]) \in 0 .. Turn - 1
      BY <3>1, WrapIsHeading
    <3> QED BY <1>0, <2>2, <3>1, <3>2 DEF ParkedAt, TypeOK, Clamp
  <2> QED BY <2>1, <2>2 DEF Init
<1> QED BY <1>1 DEF TypeOK, Backend!Init, Backend!Headings, Backend!Elevations

(* A command the limits allow is a command of the contract; a refused one is *)
(* no step at all.                                                           *)
LEMMA CommandStep ==
  ASSUME TypeOK, NEW az \in Int \cup {NaN}, NEW el \in Int \cup {NaN}, Command(az, el)
  PROVE  TypeOK' /\ [Backend!Next]_dish
<1>1. CASE Verdict(az, el) = "Ok"
  <2>1. az \in Int /\ el \in Int /\ MinElevation <= el /\ el <= MaxElevation
    BY <1>1, DishAssumption DEF Verdict
  <2>2. targetAzimuth' \in 0 .. Turn - 1 /\ targetElevation' \in MinElevation .. MaxElevation
    BY <1>1, <2>1, WrapIsHeading, DishAssumption DEF Command
  <2>3. UNCHANGED <<azimuth, elevation>>
    BY DEF Command
  <2>4. Backend!Command
    BY <2>2, <2>3 DEF Backend!Command, Backend!Headings, Backend!Elevations
  <2>5. TypeOK'
    BY <2>2, <2>3 DEF TypeOK
  <2> QED BY <2>4, <2>5 DEF Backend!Next
<1>2. CASE Verdict(az, el) # "Ok"
  BY <1>2 DEF Command, TypeOK, dish
<1> QED BY <1>1, <1>2

(* A tick is a tick of the contract, axis by axis. *)
LEMMA TickStep ==
  ASSUME TypeOK, NEW dt \in Ticks, Tick(dt)
  PROVE  TypeOK' /\ Backend!Tick(dt)
<1> DEFINE R == MaxAzimuthRate * dt
           E == MaxElevationRate * dt
           s == ShortestArc(azimuth, targetAzimuth)
           m == Clamp(s, -R, R)
<1>1. R \in Nat /\ E \in Nat
  <2>1. /\ MaxAzimuthRate \in Nat /\ MaxElevationRate \in Nat /\ dt \in Nat
    BY DishAssumption
  <2> QED BY <2>1
<1>2. azimuth \in 0 .. Turn - 1 /\ targetAzimuth \in 0 .. Turn - 1
  BY DEF TypeOK
<1>3. s \in Int
  BY <1>2, ArcIsSmallest
<1>4. azimuth' = Wrap360(azimuth + m)
  BY DEF Tick
<1> HIDE DEF R, E
<1>5. /\ m \in Int /\ Magnitude(m) <= Magnitude(s) /\ (m = 0 \/ (m < 0 <=> s < 0))
      /\ Magnitude(m) <= R /\ (m = s \/ Magnitude(m) = R)
  <2> HIDE DEF s
  <2> QED BY <1>1, <1>3 DEF Clamp, Magnitude
<1>6. Magnitude(s) = Apart(azimuth, targetAzimuth)
  BY <1>2, ArcIsSmallest
<1>7. /\ azimuth' \in 0 .. Turn - 1
      /\ Apart(azimuth, azimuth') = Magnitude(m)
      /\ Apart(azimuth', targetAzimuth) = Apart(azimuth, targetAzimuth) - Magnitude(m)
  <2> HIDE DEF m
  <2> QED BY <1>2, <1>4, <1>5, PartOfTheWay DEF s
<1>8. Magnitude(m) = Apart(azimuth, targetAzimuth) \/ Magnitude(m) = R
  <2> HIDE DEF m, s
  <2> QED BY <1>5, <1>6
<1>9. Apart(azimuth, targetAzimuth) \in Int
  BY <1>3, <1>6 DEF Magnitude
<1>10. Backend!Nears(Backend!Apart(azimuth, azimuth'), Backend!Apart(azimuth, targetAzimuth),
                     Backend!Apart(azimuth', targetAzimuth), MaxAzimuthRate * dt)
  <2> HIDE DEF m, s
  <2> QED BY <1>5, <1>7, <1>8, <1>9 DEF Apart, Backend!Apart, Backend!Nears, R
<1>11. /\ elevation \in Int /\ targetElevation \in Int
       /\ elevation \in MinElevation .. MaxElevation
       /\ targetElevation \in MinElevation .. MaxElevation
       /\ MinElevation \in Int /\ MaxElevation \in Int
  BY DishAssumption DEF TypeOK
<1>12. elevation' = elevation + Clamp(targetElevation - elevation, -E, E)
  BY DEF Tick, E
<1>13. /\ elevation' \in MinElevation .. MaxElevation
       /\ Backend!Nears(Backend!Climb(elevation, elevation'),
                        Backend!Climb(elevation, targetElevation),
                        Backend!Climb(elevation', targetElevation), E)
  BY <1>1, <1>11, <1>12 DEF Clamp, Backend!Nears, Backend!Climb
<1>14. UNCHANGED <<targetAzimuth, targetElevation>>
  BY DEF Tick
<1>15. Backend!Tick(dt)
  BY <1>7, <1>10, <1>13, <1>14
     DEF Backend!Tick, Backend!Headings, Backend!Elevations, E
<1>16. TypeOK'
  BY <1>7, <1>13, <1>14 DEF TypeOK
<1> QED BY <1>15, <1>16

(* The slewing flag is out exactly when the dish is where it was sent. *)
LEMMA SlewingMeansElsewhere ==
  ASSUME TypeOK
  PROVE  Slewing <=> <<azimuth, elevation>> # <<targetAzimuth, targetElevation>>
<1>0. Turn \in Nat \ {0}
  BY DishAssumption
<1>1. azimuth \in 0 .. Turn - 1 /\ targetAzimuth \in 0 .. Turn - 1
  BY DEF TypeOK
<1>2. /\ ShortestArc(azimuth, targetAzimuth) \in Int
      /\ Magnitude(ShortestArc(azimuth, targetAzimuth)) = Apart(azimuth, targetAzimuth)
  BY <1>1, ArcIsSmallest
<1>3. ShortestArc(azimuth, targetAzimuth) = 0 <=> Apart(azimuth, targetAzimuth) = 0
  BY <1>2 DEF Magnitude
<1>4. Apart(azimuth, targetAzimuth) = 0 <=> azimuth = targetAzimuth
  BY <1>0, <1>1 DEF Apart
<1> QED BY <1>3, <1>4 DEF Slewing

(* hal.rs, the contract of the interface: whatever is commanded, with        *)
(* whatever periods, every step of the simulated dish is a step the contract *)
(* allows, so it never overshoots, never goes the long way round and never   *)
(* moves on a refused command.                                               *)
THEOREM DishKeepsContract == Spec => MeetsContract
<1>1. Init => TypeOK /\ Backend!Init
  BY InitialDish
<1>2. TypeOK /\ [Next]_dish => TypeOK' /\ [Backend!Next]_dish
  <2> SUFFICES ASSUME TypeOK, [Next]_dish PROVE TypeOK' /\ [Backend!Next]_dish
    OBVIOUS
  <2>1. CASE SendCommand
    <3>1. PICK az \in Angles360, el \in Elevation90 : Command(az, el)
      BY <2>1 DEF SendCommand
    <3>2. az \in Int \cup {NaN} /\ el \in Int \cup {NaN}
      BY DishAssumption DEF Angles360, Elevation90
    <3> QED BY <3>1, <3>2, CommandStep
  <2>2. CASE SomeTick
    <3>1. PICK dt \in Ticks : Tick(dt)
      BY <2>2 DEF SomeTick
    <3>2. TypeOK' /\ Backend!Tick(dt)
      BY <3>1, TickStep
    <3> QED BY <3>2 DEF Backend!Next
  <2>3. CASE UNCHANGED dish
    BY <2>3 DEF dish, TypeOK
  <2> QED BY <2>1, <2>2, <2>3 DEF Next
<1>3. TypeOK => (Slewing <=> <<azimuth, elevation>> # <<targetAzimuth, targetElevation>>)
  BY SlewingMeansElsewhere
<1>4. TypeOK /\ [Next]_dish => [Backend!Next]_(Backend!vars)
  BY <1>2 DEF dish, Backend!vars
<1>5. Spec => []TypeOK
  BY <1>1, <1>2, PTL DEF Spec
<1>6. Spec => [](Slewing <=> <<azimuth, elevation>> # <<targetAzimuth, targetElevation>>)
  BY <1>3, <1>5, PTL
<1>7. Spec => Backend!Spec
  BY <1>1, <1>4, <1>5, PTL DEF Spec, Backend!Spec
<1> QED BY <1>6, <1>7 DEF MeetsContract

-----------------------------------------------------------------------------
(* Arithmetic of the loop                                                    *)

(* A heading and the number it was made from are no angle apart. *)
LEMMA SameHeading ==
  ASSUME NEW x \in Int
  PROVE  ((x % Turn) - x) % Turn = 0
<1>0. Turn \in Nat \ {0}
  BY DishAssumption
<1> DEFINE q == x \div Turn
           r == x % Turn
           k == (r - x) \div Turn
           z == (r - x) % Turn
<1>1. q \in Int /\ r \in Int /\ x = Turn * q + r
  BY <1>0
<1>2. k \in Int /\ z \in 0 .. Turn - 1 /\ r - x = Turn * k + z
  BY <1>0, <1>1
<1> HIDE DEF q, r, k, z
<1>3. Turn * (q + k) = Turn * q + Turn * k
  BY <1>0, <1>1, <1>2
<1>4. z = - (Turn * (q + k))
  BY <1>0, <1>1, <1>2, <1>3
<1>5. ~(q + k > 0)
  <2> SUFFICES ASSUME q + k > 0 PROVE FALSE
    OBVIOUS
  <2>1. Turn * (q + k) >= Turn
    BY <1>0, <1>1, <1>2
  <2> QED BY <1>0, <1>1, <1>2, <1>4, <2>1
<1>6. ~(q + k < 0)
  <2> SUFFICES ASSUME q + k < 0 PROVE FALSE
    OBVIOUS
  <2>1. Turn * (- (q + k)) >= Turn
    BY <1>0, <1>1, <1>2
  <2>2. Turn * (- (q + k)) = - (Turn * (q + k))
    BY <1>0, <1>1, <1>2
  <2> QED BY <1>0, <1>1, <1>2, <1>4, <2>1, <2>2
<1>7. q + k = 0
  BY <1>1, <1>2, <1>5, <1>6
<1>8. z = 0
  BY <1>0, <1>4, <1>7
<1> QED BY <1>8 DEF z, r

(* The number of whole periods in a time. *)
LEMMA WholePeriods ==
  ASSUME NEW n \in Nat, NEW x \in Nat, n * Dt <= x, x < n * Dt + Dt
  PROVE  x \div Dt = n
<1>0. Dt \in Nat \ {0}
  BY DishAssumption, TrackerAssumption
<1> DEFINE q == x \div Dt
           r == x % Dt
<1>1. q \in Int /\ r \in 0 .. Dt - 1 /\ x = Dt * q + r
  BY <1>0
<1> HIDE DEF q, r
<1>2. Dt * (q - n) = Dt * q - n * Dt
  BY <1>0, <1>1
<1>3. Dt * (q - n) < Dt /\ - Dt < Dt * (q - n)
  BY <1>0, <1>1, <1>2
<1>4. ~(q - n > 0)
  <2> SUFFICES ASSUME q - n > 0 PROVE FALSE
    OBVIOUS
  <2>1. Dt * (q - n) >= Dt
    BY <1>0, <1>1
  <2> QED BY <1>0, <1>1, <1>3, <2>1
<1>5. ~(q - n < 0)
  <2> SUFFICES ASSUME q - n < 0 PROVE FALSE
    OBVIOUS
  <2>1. Dt * (n - q) >= Dt
    BY <1>0, <1>1
  <2>2. Dt * (n - q) = - (Dt * (q - n))
    BY <1>0, <1>1
  <2> QED BY <1>0, <1>1, <1>3, <2>1, <2>2
<1>6. q = n
  BY <1>1, <1>4, <1>5
<1> QED BY <1>6 DEF q

(* Distance on the circle. *)
LEMMA ApartIsDistance ==
  ASSUME NEW a \in 0 .. Turn - 1, NEW b \in 0 .. Turn - 1, NEW c \in 0 .. Turn - 1
  PROVE  /\ Backend!Apart(a, b) \in Nat
         /\ Backend!Apart(a, b) = Backend!Apart(b, a)
         /\ Backend!Apart(a, b) = 0 <=> a = b
         /\ Backend!Apart(a, c) <= Backend!Apart(a, b) + Backend!Apart(b, c)
<1>0. Turn \in Nat \ {0}
  BY DishAssumption
<1> QED BY <1>0 DEF Backend!Apart

LEMMA ClimbIsDistance ==
  ASSUME NEW a \in Int, NEW b \in Int, NEW c \in Int
  PROVE  /\ Backend!Climb(a, b) \in Nat
         /\ Backend!Climb(a, b) = Backend!Climb(b, a)
         /\ Backend!Climb(a, b) = 0 <=> a = b
         /\ Backend!Climb(a, c) <= Backend!Climb(a, b) + Backend!Climb(b, c)
BY DEF Backend!Climb

-----------------------------------------------------------------------------
(* What the loop tells the dish                                              *)

LEMMA PeriodIsTick == Dt \in Ticks /\ Dt \in Nat \ {0} /\ Aos \in Nat
BY DishAssumption, TrackerAssumption

LEMMA ReachIsDistance == Reach.az \in Nat /\ Reach.el \in Nat
<1>1. MaxAzimuthRate \in Nat /\ MaxElevationRate \in Nat /\ Dt \in Nat
  BY DishAssumption, PeriodIsTick
<1>2. MaxAzimuthRate * Dt \in Nat /\ MaxElevationRate * Dt \in Nat
  BY <1>1
<1> QED BY <1>2 DEF Reach

LEMMA WindowIsOpen ==
  ASSUME LoopTypeOK, Running
  PROVE  los \in Nat /\ Aos <= los /\ Aos \in Aos .. los
<1>1. los \in Ends
  BY DEF LoopTypeOK
<1>2. los \in Nat /\ Aos <= los
  BY <1>1, TrackerAssumption
<1> QED BY <1>2, PeriodIsTick

(* What desired_pointing answers within the window is an angle, or not a     *)
(* number.                                                                   *)
LEMMA LookIsAngle ==
  ASSUME LoopTypeOK, Running, NEW i \in Aos .. los, pass[i] # NoLook
  PROVE  pass[i].az \in Int \cup {NaN} /\ pass[i].el \in Int \cup {NaN}
<1>1. pass \in Passes /\ los \in Ends
  BY DEF LoopTypeOK
<1>2. {pass[i].az, pass[i].el} \subseteq Int \cup {NaN}
  BY <1>1, TrackerAssumption
<1> QED BY <1>2

(* Every command aims at an instant of the window. *)
LEMMA AimInWindow ==
  ASSUME LoopTypeOK, Running, NEW k \in Nat \ {0}
  PROVE  Min2(Aos + (k - 1) * Dt + lead, los) \in Aos .. los
<1>1. lead \in Nat /\ los \in Nat /\ Aos <= los
  BY TrackerAssumption DEF LoopTypeOK
<1>2. Dt \in Nat /\ Aos \in Nat
  BY PeriodIsTick
<1>3. (k - 1) * Dt \in Nat
  BY <1>2
<1> QED BY <1>1, <1>2, <1>3 DEF Min2

LEMMA AcceptedIsWithinLimits ==
  ASSUME NEW look, look.az \in Int \cup {NaN}, look.el \in Int \cup {NaN}, Accepted(look)
  PROVE  /\ NaN \notin {look.az, look.el}
         /\ look.az \in Int /\ look.el \in MinElevation .. MaxElevation
         /\ look.az % Turn \in 0 .. Turn - 1
<1>1. NaN \notin {look.az, look.el} /\ look.az \in Int /\ look.el \in MinElevation .. MaxElevation
  BY DishAssumption DEF Accepted, Verdict
<1> QED BY <1>1, WrapIsHeading DEF Wrap360

(* A command the limits allow sets the dish's target, any other keeps it. *)
LEMMA CommandSets ==
  ASSUME TypeOK, NEW look, look.az \in Int \cup {NaN}, look.el \in Int \cup {NaN},
         Command(look.az, look.el)
  PROVE  /\ TypeOK' /\ UNCHANGED <<azimuth, elevation>>
         /\ IF Accepted(look)
            THEN targetAzimuth' = look.az % Turn /\ targetElevation' = look.el
            ELSE UNCHANGED <<targetAzimuth, targetElevation>>
<1>1. TypeOK'
  BY CommandStep
<1> QED BY <1>1 DEF Command, Accepted, Wrap360

(* A period brings each axis to its target, or nearer by all it can. *)
LEMMA PeriodNears ==
  ASSUME TypeOK, Tick(Dt)
  PROVE  /\ TypeOK' /\ UNCHANGED <<targetAzimuth, targetElevation>>
         /\ \/ azimuth' = targetAzimuth
            \/ Backend!Apart(azimuth', targetAzimuth) + Reach.az
                 = Backend!Apart(azimuth, targetAzimuth)
         /\ Backend!Apart(azimuth', targetAzimuth) <= Backend!Apart(azimuth, targetAzimuth)
         /\ \/ elevation' = targetElevation
            \/ Backend!Climb(elevation', targetElevation) + Reach.el
                 = Backend!Climb(elevation, targetElevation)
         /\ Backend!Climb(elevation', targetElevation) <= Backend!Climb(elevation, targetElevation)
<1>1. TypeOK' /\ Backend!Tick(Dt)
  BY PeriodIsTick, TickStep
<1>2. /\ azimuth \in 0 .. Turn - 1 /\ azimuth' \in 0 .. Turn - 1
      /\ targetAzimuth \in 0 .. Turn - 1
      /\ elevation \in Int /\ elevation' \in Int /\ targetElevation \in Int
  BY <1>1, DishAssumption DEF TypeOK, Tick
<1>3. UNCHANGED <<targetAzimuth, targetElevation>>
  BY DEF Tick
<1>4. Reach.az = MaxAzimuthRate * Dt /\ Reach.el = MaxElevationRate * Dt
  BY DEF Reach
<1> DEFINE before == Backend!Apart(azimuth, targetAzimuth)
           after == Backend!Apart(azimuth', targetAzimuth)
           moved == Backend!Apart(azimuth, azimuth')
           low == Backend!Climb(elevation, targetElevation)
           high == Backend!Climb(elevation', targetElevation)
           risen == Backend!Climb(elevation, elevation')
<1>5. before \in Nat /\ after \in Nat /\ moved \in Nat /\ (after = 0 => azimuth' = targetAzimuth)
  BY <1>2, ApartIsDistance
<1>6. low \in Nat /\ high \in Nat /\ risen \in Nat /\ (high = 0 => elevation' = targetElevation)
  BY <1>2, ClimbIsDistance
<1>7. /\ after = before - moved /\ (after = 0 \/ moved = Reach.az)
      /\ high = low - risen /\ (high = 0 \/ risen = Reach.el)
  BY <1>1, <1>4 DEF Backend!Tick, Backend!Nears
<1> HIDE DEF before, after, moved, low, high, risen
<1>8. /\ azimuth' = targetAzimuth \/ after + Reach.az = before
      /\ after <= before
      /\ elevation' = targetElevation \/ high + Reach.el = low
      /\ high <= low
  BY <1>5, <1>6, <1>7, ReachIsDistance
<1> QED BY <1>1, <1>3, <1>8 DEF before, after, low, high

(* A dish on target is within tolerance. *)
LEMMA OnTargetIsNear ==
  ASSUME NEW look, look.az \in Int \cup {NaN}, look.el \in Int \cup {NaN}, Accepted(look)
  PROVE  Near(look.az % Turn, look.el, look)
<1>1. /\ NaN \notin {look.az, look.el}
      /\ look.az \in Int /\ look.el \in MinElevation .. MaxElevation
  BY AcceptedIsWithinLimits
<1>2. ((look.az % Turn) - look.az) % Turn = 0
  BY <1>1, SameHeading
<1>3. (0 - 0) % Turn = 0
  BY SameHeading, DishAssumption
<1>4. Versine(look.az % Turn, look.el, look.az, look.el) = Versine(0, look.el, 0, look.el)
  BY <1>2, <1>3 DEF Versine, Dot
<1>5. Versine(0, look.el, 0, look.el) <= Tolerance
  BY <1>1, ToleranceAssumption
<1> QED BY <1>1, <1>4, <1>5 DEF Near

-----------------------------------------------------------------------------
(* The error of a sample is a number or none. *)
LEMMA OffByIsError ==
  ASSUME NEW az \in Int, NEW el \in Int, NEW look,
         look.az \in Int \cup {NaN}, look.el \in Int \cup {NaN}
  PROVE  OffBy(az, el, look) \in Int \cup {NaN}
<1>0. Turn \in Nat \ {0} /\ Turn \div 4 \in Int
  BY DishAssumption
<1>1. \A x \in Int : Cosine[x % Turn] \in Int
  <2> SUFFICES ASSUME NEW x \in Int PROVE Cosine[x % Turn] \in Int
    OBVIOUS
  <2>1. x % Turn \in 0 .. Turn - 1
    BY WrapIsHeading DEF Wrap360
  <2> QED BY <2>1, TrackerAssumption
<1>2. \A x \in Int : Sine(x) \in Int
  <2> SUFFICES ASSUME NEW x \in Int PROVE Cosine[(x - Turn \div 4) % Turn] \in Int
    BY DEF Sine
  <2>1. x - Turn \div 4 \in Int
    BY <1>0
  <2> QED BY <1>1, <2>1
<1>3. CASE NaN \notin {look.az, look.el}
  <2>1. look.az \in Int /\ look.el \in Int /\ az - look.az \in Int
    BY <1>3
  <2>2. /\ Cosine[el % Turn] \in Int /\ Cosine[look.el % Turn] \in Int
        /\ Cosine[(az - look.az) % Turn] \in Int
        /\ Sine(el) \in Int /\ Sine(look.el) \in Int
    BY <1>1, <1>2, <2>1
  <2>3. \A a \in Int, b \in Int, c \in Int, d \in Int, e \in Int :
          1000000000 - (a * b * c + d * e * 1000) \in Int
    OBVIOUS
  <2>4. Versine(az, el, look.az, look.el) \in Int
    BY <2>2, <2>3 DEF Versine, Dot
  <2> QED BY <1>3, <2>4 DEF OffBy
<1>4. CASE NaN \in {look.az, look.el}
  BY <1>4 DEF OffBy
<1> QED BY <1>3, <1>4

(* Without samples there is nothing to follow, without a loop nothing to     *)
(* steer.                                                                    *)
LEMMA FollowsWithoutSamples ==
  ASSUME samples' = <<>>
  PROVE  FollowsThePass'
BY DEF FollowsThePass, LagIsOneMotion, LagNeverGrowsOnSlowPart

LEMMA AtRest ==
  ASSUME LoopTypeOK, TypeOK', phase' \in {"idle", "hand"}, t' \in Int, ticks' \in Nat,
         samples' = <<>>, result' # "ok", from' = from
  PROVE  TrackInv'
<1>1. ~Running' /\ ~Tracking'
  BY DEF Running, Tracking
<1>2. samples' \in Seq(Reading)
  BY DEF LoopTypeOK
<1>3. LoopTypeOK'
  BY <1>1, <1>2 DEF LoopTypeOK
<1>4. OnTime' /\ Acquiring' /\ Steering' /\ AcquisitionFailsForAReason' /\ ReportCoversPass'
  BY <1>1 DEF OnTime, Acquiring, Steering, AcquisitionFailsForAReason, ReportCoversPass,
              Tracking
<1>5. FollowsThePass'
  BY FollowsWithoutSamples
<1> QED BY <1>3, <1>4, <1>5 DEF TrackInv, ReportIsHonest

LEMMA InitialLoop == TrackInit => TrackInv
<1> SUFFICES ASSUME TrackInit PROVE TrackInv
  OBVIOUS
<1>1. TypeOK
  BY InitialDish DEF TrackInit
<1>2. /\ phase \in {"idle", "hand"} /\ result = "none" /\ t = Aos /\ ticks = 0
      /\ samples = <<>> /\ from = <<azimuth, elevation>>
  BY DEF TrackInit, InitRun
<1>3. ~Running /\ ~Tracking /\ phase \notin {"acquire", "slew"}
  BY <1>2 DEF Running, Tracking
<1>4. LoopTypeOK
  <2>1. samples \in Seq(Reading) /\ t \in Int /\ ticks \in Nat
    BY <1>2, PeriodIsTick
  <2>2. from \in (0 .. Turn - 1) \X (MinElevation .. MaxElevation)
    BY <1>1, <1>2 DEF TypeOK
  <2> QED BY <1>1, <1>2, <1>3, <2>1, <2>2 DEF LoopTypeOK
<1>5. OnTime /\ Acquiring /\ Steering /\ AcquisitionFailsForAReason /\ ReportCoversPass
  BY <1>2, <1>3 DEF OnTime, Acquiring, Steering, AcquisitionFailsForAReason, ReportCoversPass
<1>6. FollowsThePass
  BY <1>2 DEF FollowsThePass, LagIsOneMotion, LagNeverGrowsOnSlowPart
<1> QED BY <1>4, <1>5, <1>6 DEF TrackInv, ReportIsHonest

LEMMA BeginStep ==
  ASSUME TrackInv, Begin
  PROVE  TrackInv'
<1>1. /\ phase' = "acquire" /\ t' = Aos /\ ~acquired' /\ ticks' = 0 /\ samples' = <<>>
      /\ result' = "none" /\ from' = <<azimuth, elevation>> /\ UNCHANGED dish
      /\ pass' \in Passes /\ lead' \in Leads /\ los' \in Ends
  BY DEF Begin
<1>2. TypeOK' /\ from' = <<azimuth', elevation'>>
  BY <1>1 DEF TrackInv, LoopTypeOK, TypeOK, dish
<1>3. ~Tracking'
  BY <1>1 DEF Tracking
<1>4. LoopTypeOK'
  <2>1. samples' \in Seq(Reading) /\ t' \in Int /\ ticks' \in Nat
    BY <1>1, PeriodIsTick
  <2>2. from' \in (0 .. Turn - 1) \X (MinElevation .. MaxElevation)
    BY <1>2 DEF TypeOK
  <2> QED BY <1>1, <1>2, <2>1, <2>2 DEF LoopTypeOK
<1>5. OnTime' /\ Steering' /\ AcquisitionFailsForAReason' /\ ReportCoversPass'
  BY <1>1, <1>3 DEF OnTime, Steering, AcquisitionFailsForAReason, ReportCoversPass
<1>6. Acquiring'
  BY <1>1, <1>2, <1>3 DEF Acquiring
<1>7. FollowsThePass'
  BY <1>1, FollowsWithoutSamples
<1> QED BY <1>4, <1>5, <1>6, <1>7 DEF TrackInv, ReportIsHonest

(* Nothing that the loop remembers or reports depends on the dish alone. *)
LEMMA FollowsAsBefore ==
  ASSUME FollowsThePass, UNCHANGED <<samples, run>>
  PROVE  FollowsThePass'
<1>1. \A k : Looks(k)' = Looks(k)
  BY DEF Looks, run
<1>2. pass' = pass /\ from' = from /\ samples' = samples
  BY DEF run
<1>3. Resolved' = Resolved
  BY <1>2 DEF Resolved
<1>4. \A n : InStep(n)' = InStep(n)
  BY <1>1, <1>2, <1>3 DEF InStep
<1>5. LagIsOneMotion'
  BY <1>1, <1>2, <1>4 DEF FollowsThePass, LagIsOneMotion
<1>6. LagNeverGrowsOnSlowPart'
  BY <1>1, <1>2 DEF FollowsThePass, LagNeverGrowsOnSlowPart
<1> QED BY <1>5, <1>6 DEF FollowsThePass

-----------------------------------------------------------------------------
(* The steps of the acquisition                                              *)

LEMMA AcquireStep ==
  ASSUME TrackInv, Acquire
  PROVE  TrackInv'
<1> DEFINE look == pass[Aos]
<1>0. LoopTypeOK /\ TypeOK /\ Running /\ Aos \in Aos .. los
  <2>1. LoopTypeOK /\ TypeOK /\ Running
    BY DEF TrackInv, LoopTypeOK, Acquire, Running
  <2> QED BY <2>1, WindowIsOpen
<1>1. /\ phase = "acquire" /\ t = Aos /\ ticks = 0 /\ ~acquired /\ samples = <<>>
      /\ from = <<azimuth, elevation>> /\ result = "none"
  BY <1>0 DEF TrackInv, Acquiring, Acquire, LoopTypeOK
<1>2. UNCHANGED <<t, acquired, ticks>> /\ pass' = pass /\ lead' = lead /\ los' = los /\ from' = from
  BY DEF Acquire, run
<1>3. CASE look = NoLook
  <2>1. Fail /\ UNCHANGED dish
    BY <1>3 DEF Acquire
  <2>2. TypeOK'
    BY <1>0, <2>1 DEF TypeOK, dish
  <2>3. phase' = "idle" /\ result' = "err" /\ samples' = <<>>
    BY <2>1 DEF Fail
  <2>4. t' \in Int /\ ticks' \in Nat
    BY <1>0, <1>2 DEF LoopTypeOK
  <2> QED BY <1>0, <1>2, <2>2, <2>3, <2>4, AtRest
<1>4. CASE look # NoLook
  <2>1. Command(look.az, look.el) /\ phase' = "slew" /\ UNCHANGED <<samples, result>>
    BY <1>4 DEF Acquire
  <2>2. look.az \in Int \cup {NaN} /\ look.el \in Int \cup {NaN}
    BY <1>0, <1>4, LookIsAngle
  <2>3. /\ TypeOK' /\ UNCHANGED <<azimuth, elevation>>
        /\ Accepted(look) => targetAzimuth' = look.az % Turn /\ targetElevation' = look.el
    BY <1>0, <2>1, <2>2, CommandSets
  <2>4. ~Tracking' /\ Running'
    BY <2>1 DEF Tracking, Running
  <2>5. LoopTypeOK'
    BY <1>0, <1>2, <2>1, <2>3, <2>4 DEF LoopTypeOK
  <2>6. OnTime' /\ Steering' /\ AcquisitionFailsForAReason' /\ ReportCoversPass'
    BY <1>1, <2>1, <2>4 DEF OnTime, Steering, AcquisitionFailsForAReason, ReportCoversPass
  <2>7. FollowsThePass'
    BY <1>1, <2>1, FollowsWithoutSamples
  <2>8. Accepted(look) => Gains(targetAzimuth, targetElevation)'
    <3>1. ticks' = 0 /\ from'[1] = azimuth' /\ from'[2] = elevation'
      BY <1>1, <1>2, <2>3
    <3>2. Reach.az * ticks' = 0 /\ Reach.el * ticks' = 0
      BY <3>1, ReachIsDistance
    <3>3. Reach' = Reach
      BY DEF Reach
    <3>4. Backend!Apart(azimuth', targetAzimuth') \in Nat
      BY <2>3, ApartIsDistance DEF TypeOK
    <3>5. elevation' \in Int /\ targetElevation' \in Int
      BY <2>3, DishAssumption DEF TypeOK
    <3>6. Backend!Climb(elevation', targetElevation') \in Nat
      BY <3>5, ClimbIsDistance
    <3> QED BY <3>1, <3>2, <3>4, <3>6 DEF Gains
  <2>9. AcquireTicks \in Nat
    BY TrackerAssumption
  <2>10. /\ phase' = "slew" /\ pass' = pass /\ ticks' = 0 /\ ~acquired' /\ samples' = <<>>
         /\ t' = Aos
    BY <1>1, <1>2, <2>1
  <2>11. Accepted(pass[Aos])' = Accepted(pass[Aos])
    BY <1>2 DEF Accepted, Verdict
  <2>12. Acquiring'
    BY <1>4, <2>3, <2>4, <2>8, <2>9, <2>10, <2>11 DEF Acquiring
  <2> QED BY <2>5, <2>6, <2>7, <2>12 DEF TrackInv, ReportIsHonest
<1> QED BY <1>3, <1>4

(* One more period of nearing. *)
LEMMA GainsGoOn ==
  ASSUME LoopTypeOK, Tick(Dt), ticks' = ticks + 1, from' = from,
         Gains(targetAzimuth, targetElevation)
  PROVE  Gains(targetAzimuth, targetElevation)'
<1>1. /\ TypeOK /\ ticks \in Nat /\ from \in (0 .. Turn - 1) \X (MinElevation .. MaxElevation)
  BY DEF LoopTypeOK
<1>2. /\ TypeOK' /\ UNCHANGED <<targetAzimuth, targetElevation>>
      /\ \/ azimuth' = targetAzimuth
         \/ Backend!Apart(azimuth', targetAzimuth) + Reach.az
              = Backend!Apart(azimuth, targetAzimuth)
      /\ Backend!Apart(azimuth', targetAzimuth) <= Backend!Apart(azimuth, targetAzimuth)
      /\ \/ elevation' = targetElevation
         \/ Backend!Climb(elevation', targetElevation) + Reach.el
              = Backend!Climb(elevation, targetElevation)
      /\ Backend!Climb(elevation', targetElevation) <= Backend!Climb(elevation, targetElevation)
  BY <1>1, PeriodNears
<1>3. /\ azimuth \in 0 .. Turn - 1 /\ azimuth' \in 0 .. Turn - 1
      /\ targetAzimuth \in 0 .. Turn - 1 /\ from[1] \in 0 .. Turn - 1
      /\ elevation \in Int /\ elevation' \in Int /\ targetElevation \in Int /\ from[2] \in Int
  BY <1>1, <1>2, DishAssumption DEF TypeOK
<1> DEFINE before == Backend!Apart(azimuth, targetAzimuth)
           after == Backend!Apart(azimuth', targetAzimuth)
           start == Backend!Apart(from[1], targetAzimuth)
           low == Backend!Climb(elevation, targetElevation)
           high == Backend!Climb(elevation', targetElevation)
           floor == Backend!Climb(from[2], targetElevation)
<1>4. before \in Nat /\ after \in Nat /\ start \in Nat /\ (before = 0 <=> azimuth = targetAzimuth)
      /\ (after = 0 <=> azimuth' = targetAzimuth)
  BY <1>3, ApartIsDistance
<1>5. low \in Nat /\ high \in Nat /\ floor \in Nat /\ (low = 0 <=> elevation = targetElevation)
      /\ (high = 0 <=> elevation' = targetElevation)
  BY <1>3, ClimbIsDistance
<1>6. /\ azimuth = targetAzimuth \/ before + Reach.az * ticks <= start
      /\ elevation = targetElevation \/ low + Reach.el * ticks <= floor
  BY DEF Gains
<1>7. /\ Reach.az * (ticks + 1) = Reach.az * ticks + Reach.az /\ Reach.az * ticks \in Nat
      /\ Reach.el * (ticks + 1) = Reach.el * ticks + Reach.el /\ Reach.el * ticks \in Nat
  <2>1. \A a \in Nat, b \in Nat : a * (b + 1) = a * b + a /\ a * b \in Nat
    OBVIOUS
  <2> QED BY <1>1, <2>1, ReachIsDistance
<1> HIDE DEF before, after, start, low, high, floor
<1>8. azimuth' = targetAzimuth \/ after + Reach.az * (ticks + 1) <= start
  <2>1. azimuth' = targetAzimuth \/ after + Reach.az = before
    BY <1>2 DEF before, after
  <2>2. after <= before
    BY <1>2 DEF before, after
  <2> QED BY <1>4, <1>6, <1>7, <2>1, <2>2, ReachIsDistance
<1>9. elevation' = targetElevation \/ high + Reach.el * (ticks + 1) <= floor
  <2>1. elevation' = targetElevation \/ high + Reach.el = low
    BY <1>2 DEF low, high
  <2>2. high <= low
    BY <1>2 DEF low, high
  <2> QED BY <1>5, <1>6, <1>7, <2>1, <2>2, ReachIsDistance
<1> QED BY <1>2, <1>8, <1>9 DEF Gains, after, start, high, floor

LEMMA SlewStep ==
  ASSUME TrackInv, Slew
  PROVE  TrackInv'
<1> DEFINE look == pass[Aos]
<1>0. LoopTypeOK /\ TypeOK /\ Running /\ los \in Nat /\ Aos <= los /\ AcquireTicks \in Nat
  <2>1. LoopTypeOK /\ TypeOK /\ Running
    BY DEF TrackInv, LoopTypeOK, Slew, Running
  <2> QED BY <2>1, WindowIsOpen, TrackerAssumption
<1>1. /\ phase = "slew" /\ look # NoLook /\ ticks < AcquireTicks /\ samples = <<>> /\ t = Aos
      /\ result = "none"
  BY <1>0 DEF TrackInv, Acquiring, Slew, LoopTypeOK
<1>2. /\ Tick(Dt) /\ ticks' = ticks + 1
      /\ t' = t /\ samples' = samples /\ result' = result
      /\ pass' = pass /\ lead' = lead /\ los' = los /\ from' = from
      /\ phase' \in {"steer", "slew"}
      /\ acquired' = Near(azimuth', elevation', look)
      /\ phase' = "slew" <=> ~acquired'
  BY DEF Slew, run
<1>3. TypeOK' /\ UNCHANGED <<targetAzimuth, targetElevation>>
  BY <1>0, <1>2, PeriodNears
<1>4. Running' /\ ticks' \in Nat /\ ticks' > 0 /\ ticks' <= AcquireTicks
  BY <1>0, <1>1, <1>2 DEF Running, LoopTypeOK
<1>5. LoopTypeOK'
  BY <1>0, <1>2, <1>3, <1>4 DEF LoopTypeOK
<1>6. Near(azimuth, elevation, pass[Aos])' = Near(azimuth', elevation', look)
  BY <1>2 DEF Near, Versine, Dot
<1>7. Accepted(pass[Aos])' = Accepted(look)
  BY <1>2 DEF Accepted, Verdict
<1>8. phase' = "slew" /\ Accepted(look) =>
        /\ targetAzimuth' = look.az % Turn /\ targetElevation' = look.el
        /\ Gains(targetAzimuth, targetElevation)'
  <2> SUFFICES ASSUME Accepted(look)
               PROVE  /\ targetAzimuth' = look.az % Turn /\ targetElevation' = look.el
                      /\ Gains(targetAzimuth, targetElevation)'
    OBVIOUS
  <2>1. /\ targetAzimuth = look.az % Turn /\ targetElevation = look.el
        /\ Gains(targetAzimuth, targetElevation)
    BY <1>1 DEF TrackInv, Acquiring
  <2> QED BY <1>0, <1>2, <1>3, <2>1, GainsGoOn
<1>9. Acquiring'
  BY <1>1, <1>2, <1>4, <1>6, <1>7, <1>8 DEF Acquiring, Tracking
<1>10. samples' = <<>> /\ Len(samples') = 0
  BY <1>1, <1>2
<1>11. OnTime'
  <2>1. t' = Aos /\ Aos <= los' /\ los' \in Int /\ Dt \in Nat /\ Aos \in Nat
    BY <1>0, <1>1, <1>2, PeriodIsTick
  <2>2. phase' # "sample"
    BY <1>2
  <2>3. t' = Aos + Len(samples') * Dt
    BY <1>10, <2>1
  <2>4. DOMAIN samples' = {}
    BY <1>10
  <2>5. Tracking' => phase' = "steer"
    BY <2>2 DEF Tracking
  <2>6. Aos <= los + Dt
    BY <1>0, PeriodIsTick
  <2>7. t' <= los' + Dt
    BY <1>1, <1>2, <2>6
  <2> QED BY <2>3, <2>4, <2>5, <2>7 DEF OnTime
<1>12. Steering'
  <2>1. phase' # "sample"
    BY <1>2
  <2>2. CommandsSent' = 0
    BY <1>10, <2>1 DEF CommandsSent
  <2>3. 1 .. CommandsSent' = {}
    BY <2>2
  <2>4. Good' = {}
    BY <2>3 DEF Good
  <2> QED BY <1>10, <2>3, <2>4 DEF Steering
<1>13. AcquisitionFailsForAReason' /\ ReportCoversPass'
  BY <1>1, <1>2 DEF AcquisitionFailsForAReason, ReportCoversPass, Tracking
<1>14. FollowsThePass'
  BY <1>10, FollowsWithoutSamples
<1> QED BY <1>5, <1>9, <1>11, <1>12, <1>13, <1>14 DEF TrackInv, ReportIsHonest

(* A dish in reach of the AOS angle that was given the time is there. *)
LEMMA GiveUpStep ==
  ASSUME TrackInv, GiveUp
  PROVE  TrackInv'
<1> DEFINE look == pass[Aos]
<1>0. LoopTypeOK /\ TypeOK /\ Running /\ los \in Nat /\ Aos <= los /\ AcquireTicks \in Nat
      /\ Aos \in Aos .. los
  <2>1. LoopTypeOK /\ TypeOK /\ Running
    BY DEF TrackInv, LoopTypeOK, GiveUp, Running
  <2> QED BY <2>1, WindowIsOpen, TrackerAssumption
<1>1. /\ phase = "slew" /\ look # NoLook /\ ticks = AcquireTicks /\ samples = <<>> /\ t = Aos
      /\ result = "none" /\ ~acquired
      /\ ticks > 0 => ~Near(azimuth, elevation, look)
      /\ Accepted(look) =>
           /\ targetAzimuth = look.az % Turn /\ targetElevation = look.el
           /\ Gains(targetAzimuth, targetElevation)
  BY <1>0 DEF TrackInv, Acquiring, GiveUp, LoopTypeOK
<1>2. /\ phase' = "steer" /\ UNCHANGED <<t, acquired, ticks, samples, result>>
      /\ azimuth' = azimuth /\ elevation' = elevation
      /\ targetAzimuth' = targetAzimuth /\ targetElevation' = targetElevation
      /\ pass' = pass /\ lead' = lead /\ los' = los /\ from' = from
  BY DEF GiveUp, run, dish
<1>3. LoopTypeOK'
  BY <1>0, <1>2 DEF LoopTypeOK, TypeOK, Running
<1>4. samples' = <<>> /\ Len(samples') = 0
  BY <1>1, <1>2
<1>5. OnTime'
  <2>1. t' = Aos + Len(samples') * Dt
    BY <1>1, <1>2, <1>4, PeriodIsTick
  <2>2. DOMAIN samples' = {}
    BY <1>4
  <2>3. Aos <= los + Dt
    BY <1>0, PeriodIsTick
  <2>4. t' <= los' + Dt
    BY <1>1, <1>2, <2>3
  <2> QED BY <1>2, <2>1, <2>2, <2>4 DEF OnTime
<1>6. Steering'
  <2>1. CommandsSent' = 0
    BY <1>2, <1>4 DEF CommandsSent
  <2>2. 1 .. CommandsSent' = {}
    BY <2>1
  <2>3. Good' = {}
    BY <2>2 DEF Good
  <2> QED BY <1>4, <2>2, <2>3 DEF Steering
<1>7. Acquiring'
  BY <1>1, <1>2 DEF Acquiring, Tracking
<1>8. FollowsThePass'
  BY <1>4, FollowsWithoutSamples
<1>9. ReportCoversPass'
  BY <1>1, <1>2 DEF ReportCoversPass
<1>10. ~(AcquireTicks > 0 /\ Accepted(look)
           /\ Within(from[1], from[2], look.az, look.el, AcquireTicks))
  <2> SUFFICES ASSUME AcquireTicks > 0, Accepted(look),
                      Within(from[1], from[2], look.az, look.el, AcquireTicks)
               PROVE  FALSE
    OBVIOUS
  <2>1. look.az \in Int \cup {NaN} /\ look.el \in Int \cup {NaN}
    BY <1>0, <1>1, LookIsAngle
  <2>2. look.az % Turn \in 0 .. Turn - 1 /\ look.el \in Int
    BY <2>1, AcceptedIsWithinLimits, DishAssumption
  <2>3. /\ from[1] \in 0 .. Turn - 1 /\ from[2] \in Int
        /\ azimuth \in 0 .. Turn - 1 /\ elevation \in Int
    BY <1>0, DishAssumption DEF LoopTypeOK, TypeOK
  <2>4. from[1] % Turn = from[1]
    BY <2>3, WrapHeading DEF Wrap360
  <2>5. /\ Backend!Apart(from[1], look.az % Turn) <= Reach.az * AcquireTicks
        /\ Backend!Climb(from[2], look.el) <= Reach.el * AcquireTicks
    BY <2>4 DEF Within
  <2>6. /\ \/ azimuth = look.az % Turn
           \/ Backend!Apart(azimuth, look.az % Turn) + Reach.az * AcquireTicks
                <= Backend!Apart(from[1], look.az % Turn)
        /\ \/ elevation = look.el
           \/ Backend!Climb(elevation, look.el) + Reach.el * AcquireTicks
                <= Backend!Climb(from[2], look.el)
    BY <1>1 DEF Gains
  <2> DEFINE rest == Backend!Apart(azimuth, look.az % Turn)
             start == Backend!Apart(from[1], look.az % Turn)
             high == Backend!Climb(elevation, look.el)
             floor == Backend!Climb(from[2], look.el)
  <2>7. rest \in Nat /\ start \in Nat /\ (rest = 0 => azimuth = look.az % Turn)
    BY <2>2, <2>3, ApartIsDistance
  <2>8. high \in Nat /\ floor \in Nat /\ (high = 0 => elevation = look.el)
    BY <2>2, <2>3, ClimbIsDistance
  <2>9. Reach.az * AcquireTicks \in Nat /\ Reach.el * AcquireTicks \in Nat
    BY <1>0, ReachIsDistance
  <2> HIDE DEF rest, start, high, floor
  <2>10. azimuth = look.az % Turn
    <3>1. start <= Reach.az * AcquireTicks
      BY <2>5 DEF start
    <3>2. azimuth = look.az % Turn \/ rest + Reach.az * AcquireTicks <= start
      BY <2>6 DEF rest, start
    <3> QED BY <2>7, <2>9, <3>1, <3>2
  <2>11. elevation = look.el
    <3>1. floor <= Reach.el * AcquireTicks
      BY <2>5 DEF floor
    <3>2. elevation = look.el \/ high + Reach.el * AcquireTicks <= floor
      BY <2>6 DEF high, floor
    <3> QED BY <2>8, <2>9, <3>1, <3>2
  <2>12. Near(azimuth, elevation, look)
    BY <2>1, <2>10, <2>11, OnTargetIsNear
  <2> QED BY <1>1, <2>12
<1>11. AcquisitionFailsForAReason'
  <2>1. AcquireTicks = 0 \/ ~Accepted(look)
          \/ ~Within(from[1], from[2], look.az, look.el, AcquireTicks)
    <3>1. AcquireTicks > 0 \/ AcquireTicks = 0
      BY <1>0
    <3> QED BY <1>10, <3>1
  <2>2. Accepted(pass[Aos])' = Accepted(look)
    BY <1>2 DEF Accepted, Verdict
  <2>3. Within(from[1], from[2], pass[Aos].az, pass[Aos].el, AcquireTicks)'
          = Within(from[1], from[2], look.az, look.el, AcquireTicks)
    BY <1>2 DEF Within
  <2> QED BY <2>1, <2>2, <2>3 DEF AcquisitionFailsForAReason
<1> QED BY <1>3, <1>5, <1>6, <1>7, <1>8, <1>9, <1>11 DEF TrackInv, ReportIsHonest

-----------------------------------------------------------------------------
(* The steps of the tracking phase                                           *)

(* A sample once taken, and what a command aimed at, stay. *)
LEMMA SteerStep ==
  ASSUME TrackInv, Steer
  PROVE  TrackInv'
<1> DEFINE n == Len(samples) + 1
           look == pass[AimAt(t)]
<1>0. LoopTypeOK /\ TypeOK /\ Running /\ los \in Nat /\ samples \in Seq(Reading)
      /\ phase = "steer" /\ t <= los /\ Tracking /\ result = "none"
  <2>1. LoopTypeOK /\ TypeOK /\ Running /\ samples \in Seq(Reading) /\ result = "none"
    BY DEF TrackInv, LoopTypeOK, Steer, Running
  <2> QED BY <2>1, WindowIsOpen DEF Steer, Tracking
<1>1. n \in Nat \ {0} /\ Len(samples) \in Nat
  BY <1>0, LenProperties
<1>2. look = Looks(n) /\ AimAt(t) \in Aos .. los
  <2>1. t = Aos + Len(samples) * Dt
    BY <1>0 DEF TrackInv, OnTime
  <2>2. n - 1 = Len(samples)
    BY <1>1
  <2>3. AimAt(t) = Min2(Aos + (n - 1) * Dt + lead, los)
    BY <2>1, <2>2 DEF AimAt
  <2>4. Min2(Aos + (n - 1) * Dt + lead, los) \in Aos .. los
    BY <1>0, <1>1, AimInWindow
  <2> QED BY <2>3, <2>4 DEF Looks
<1>3. UNCHANGED <<t, acquired, ticks>> /\ pass' = pass /\ lead' = lead /\ los' = los /\ from' = from
  BY DEF Steer, run
<1>4. CASE look = NoLook
  <2>1. Fail /\ UNCHANGED dish
    BY <1>4 DEF Steer
  <2>2. TypeOK'
    BY <1>0, <2>1 DEF TypeOK, dish
  <2>3. phase' = "idle" /\ result' = "err" /\ samples' = <<>>
    BY <2>1 DEF Fail
  <2>4. t' \in Int /\ ticks' \in Nat
    BY <1>0, <1>3 DEF LoopTypeOK
  <2> QED BY <1>0, <1>3, <2>2, <2>3, <2>4, AtRest
<1>5. CASE look # NoLook
  <2>1. Command(look.az, look.el) /\ phase' = "sample" /\ samples' = samples /\ result' = result
    BY <1>5 DEF Steer
  <2>2. look.az \in Int \cup {NaN} /\ look.el \in Int \cup {NaN}
    BY <1>0, <1>2, <1>5, LookIsAngle
  <2>3. /\ TypeOK' /\ azimuth' = azimuth /\ elevation' = elevation
        /\ IF Accepted(look)
           THEN targetAzimuth' = look.az % Turn /\ targetElevation' = look.el
           ELSE UNCHANGED <<targetAzimuth, targetElevation>>
    BY <1>0, <2>1, <2>2, CommandSets
  <2>4. Tracking' /\ Running'
    BY <2>1 DEF Tracking, Running
  <2>5. LoopTypeOK'
    BY <1>0, <1>3, <2>1, <2>3, <2>4 DEF LoopTypeOK
  <2>6. OnTime'
    BY <1>0, <1>3, <2>1 DEF TrackInv, OnTime
  <2>7. ReportIsHonest'
    <3>1. ReportCoversPass'
      BY <1>0, <2>1 DEF ReportCoversPass
    <3>2. Accepted(pass[Aos])' = Accepted(pass[Aos])
      BY <1>3 DEF Accepted, Verdict
    <3>3. Within(from[1], from[2], pass[Aos].az, pass[Aos].el, AcquireTicks)'
            = Within(from[1], from[2], pass[Aos].az, pass[Aos].el, AcquireTicks)
      BY <1>3 DEF Within
    <3>4. AcquisitionFailsForAReason
      BY DEF TrackInv, ReportIsHonest
    <3>5. AcquisitionFailsForAReason'
      BY <1>0, <1>3, <2>1, <3>2, <3>3, <3>4 DEF AcquisitionFailsForAReason
    <3> QED BY <3>1, <3>5 DEF ReportIsHonest
  <2>8. FollowsThePass'
    BY <1>3, <2>1, FollowsAsBefore DEF TrackInv, run
  <2>9. Acquiring'
    <3>1. Near(azimuth, elevation, pass[Aos])' = Near(azimuth, elevation, pass[Aos])
      BY <1>3, <2>3 DEF Near, Versine, Dot
    <3>2. samples = <<>> => pass[Aos] # NoLook /\ (acquired => Near(azimuth, elevation, pass[Aos]))
      BY <1>0 DEF TrackInv, Acquiring
    <3> QED BY <1>3, <2>1, <3>1, <3>2 DEF Acquiring
  <2>10. Steering'
    <3>1. CommandsSent' = n /\ CommandsSent = Len(samples)
      BY <1>0, <1>1, <2>1 DEF CommandsSent
    <3>2. \A k : Looks(k)' = Looks(k) /\ Accepted(Looks(k))' = Accepted(Looks(k))
      BY <1>3 DEF Looks, Accepted, Verdict
    <3>3. /\ Good = {k \in 1 .. Len(samples) : Accepted(Looks(k))}
          /\ Good' = {k \in 1 .. n : Accepted(Looks(k))}
      BY <3>1, <3>2 DEF Good
    <3>4. \A k \in 1 .. n : k \in 1 .. Len(samples) \/ k = n
      BY <1>1
    <3>5. /\ \A k \in 1 .. Len(samples) : Looks(k) # NoLook
          /\ Good # {} => \E k \in Good :
               /\ LastGood(k)
               /\ targetAzimuth = Looks(k).az % Turn /\ targetElevation = Looks(k).el
          /\ samples # <<>> => LET last == samples[Len(samples)] IN
               azimuth = last.az /\ elevation = last.el
      BY <1>0, <3>1 DEF TrackInv, Steering
    <3>6. \A k \in 1 .. CommandsSent' : Looks(k)' # NoLook
      BY <1>2, <1>5, <3>1, <3>2, <3>4, <3>5
    <3>7. samples' # <<>> => LET last == samples'[Len(samples')] IN
               azimuth' = last.az /\ elevation' = last.el
      BY <2>1, <2>3, <3>5
    <3>8. Good' # {} => \E k \in Good' :
            /\ LastGood(k)'
            /\ targetAzimuth' = Looks(k)'.az % Turn /\ targetElevation' = Looks(k)'.el
      <4>1. CASE Accepted(look)
        <5>1. n \in Good' /\ \A j \in Good' : j <= n
          BY <1>1, <1>2, <3>3, <4>1
        <5>2. \A k : (\A j \in Good' : j <= k) => LastGood(k)'
          BY DEF LastGood
        <5>3. targetAzimuth' = Looks(n).az % Turn /\ targetElevation' = Looks(n).el
          BY <1>2, <2>3, <4>1
        <5> HIDE DEF n
        <5> QED BY <3>2, <5>1, <5>2, <5>3
      <4>2. CASE ~Accepted(look)
        <5>1. Good' = Good
          BY <1>1, <1>2, <3>3, <4>2
        <5>2. \A k : LastGood(k)' = LastGood(k)
          BY <5>1 DEF LastGood
        <5> QED BY <2>3, <3>2, <3>5, <4>2, <5>1, <5>2
      <4> QED BY <4>1, <4>2
    <3> QED BY <3>6, <3>7, <3>8 DEF Steering
  <2> QED BY <2>5, <2>6, <2>7, <2>8, <2>9, <2>10 DEF TrackInv
<1> QED BY <1>4, <1>5

(* The loop ends at the first period that is over after LOS, and the samples *)
(* are one for each period until then.                                       *)
LEMMA FinishStep ==
  ASSUME TrackInv, Finish
  PROVE  TrackInv'
<1> DEFINE n == Len(samples)
<1>0. LoopTypeOK /\ TypeOK /\ Running /\ los \in Nat /\ Aos <= los /\ samples \in Seq(Reading)
      /\ phase = "steer" /\ t > los /\ Tracking
  <2>1. LoopTypeOK /\ TypeOK /\ Running /\ samples \in Seq(Reading)
    BY DEF TrackInv, LoopTypeOK, Finish, Running
  <2> QED BY <2>1, WindowIsOpen DEF Finish, Tracking
<1>1. n \in Nat /\ DOMAIN samples = 1 .. n
  BY <1>0, LenProperties
<1>2. /\ phase' = "idle" /\ result' = "ok" /\ UNCHANGED <<t, acquired, ticks, samples>>
      /\ azimuth' = azimuth /\ elevation' = elevation
      /\ targetAzimuth' = targetAzimuth /\ targetElevation' = targetElevation
      /\ pass' = pass /\ lead' = lead /\ los' = los /\ from' = from
  BY DEF Finish, run, dish
<1>3. ~Running' /\ ~Tracking' /\ phase' \notin {"acquire", "slew"}
  BY <1>2 DEF Running, Tracking
<1>4. LoopTypeOK'
  BY <1>0, <1>2, <1>3 DEF LoopTypeOK, TypeOK
<1>5. OnTime' /\ Acquiring' /\ Steering' /\ AcquisitionFailsForAReason'
  BY <1>3 DEF OnTime, Acquiring, Steering, AcquisitionFailsForAReason
<1>6. FollowsThePass'
  BY <1>2, FollowsAsBefore DEF TrackInv, run
<1>7. /\ t = Aos + n * Dt /\ t <= los + Dt
      /\ \A k \in DOMAIN samples : samples[k].at = Min2(Aos + k * Dt, los)
  BY <1>0 DEF TrackInv, OnTime
<1>8. Dt \in Nat \ {0} /\ Aos \in Nat /\ n * Dt \in Nat
  BY <1>1, PeriodIsTick
<1>9. n > 0
  <2> SUFFICES ASSUME n = 0 PROVE FALSE
    BY <1>1
  <2>1. n * Dt = 0
    BY <1>8
  <2> QED BY <1>0, <1>7, <1>8, <2>1
<1>10. (los - Aos) \div Dt = n - 1
  <2>1. n - 1 \in Nat /\ (n - 1) * Dt = n * Dt - Dt
    BY <1>1, <1>8, <1>9
  <2>2. los - Aos \in Nat
    BY <1>0, <1>8
  <2>3. n * Dt - Dt <= los - Aos /\ los - Aos < n * Dt
    <3>1. Aos + n * Dt > los /\ Aos + n * Dt <= los + Dt
      BY <1>0, <1>7
    <3> QED BY <1>0, <1>8, <3>1
  <2>4. (n - 1) * Dt <= los - Aos /\ los - Aos < (n - 1) * Dt + Dt
    BY <1>8, <2>1, <2>3
  <2> QED BY <2>1, <2>2, <2>4, WholePeriods
<1>11. samples[n].at = los
  <2>1. samples[n].at = Min2(Aos + n * Dt, los)
    BY <1>1, <1>7, <1>9
  <2>2. Aos + n * Dt > los
    BY <1>0, <1>7
  <2> QED BY <1>0, <1>8, <2>1, <2>2 DEF Min2
<1>12. ReportCoversPass'
  <2>1. n = (los - Aos) \div Dt + 1
    BY <1>1, <1>10
  <2>2. Len(samples)' = n /\ los' = los /\ samples' = samples
    BY <1>2
  <2> HIDE DEF n
  <2> QED BY <1>7, <1>11, <2>1, <2>2 DEF ReportCoversPass
<1> QED BY <1>4, <1>5, <1>6, <1>12 DEF TrackInv, ReportIsHonest

(* An accepted command is what the dish is steered to in its period. *)
LEMMA AimIsTaken ==
  ASSUME TrackInv, phase = "sample", NEW n \in Nat, n = Len(samples) + 1, Accepted(Looks(n))
  PROVE  targetAzimuth = Looks(n).az % Turn /\ targetElevation = Looks(n).el
<1>1. Tracking /\ CommandsSent = n /\ n \in 1 .. CommandsSent
  <2>1. Len(samples) \in Nat
    BY LenProperties DEF TrackInv, LoopTypeOK
  <2> QED BY <2>1 DEF Tracking, CommandsSent
<1>2. n \in Good
  BY <1>1 DEF Good
<1>3. PICK k \in Good :
        LastGood(k) /\ targetAzimuth = Looks(k).az % Turn /\ targetElevation = Looks(k).el
  BY <1>1, <1>2 DEF TrackInv, Steering
<1>4. n <= k /\ k <= n
  BY <1>1, <1>2, <1>3 DEF LastGood, Good
<1>5. k = n
  BY <1>1, <1>4 DEF Good
<1> QED BY <1>3, <1>5

LEMMA ReachedInOnePeriod ==
  ASSUME TypeOK, Tick(Dt),
         Backend!Apart(azimuth, targetAzimuth) <= Reach.az,
         Backend!Climb(elevation, targetElevation) <= Reach.el
  PROVE  azimuth' = targetAzimuth /\ elevation' = targetElevation
<1>1. /\ TypeOK' /\ UNCHANGED <<targetAzimuth, targetElevation>>
      /\ \/ azimuth' = targetAzimuth
         \/ Backend!Apart(azimuth', targetAzimuth) + Reach.az
              = Backend!Apart(azimuth, targetAzimuth)
      /\ \/ elevation' = targetElevation
         \/ Backend!Climb(elevation', targetElevation) + Reach.el
              = Backend!Climb(elevation, targetElevation)
  BY PeriodNears
<1>2. /\ azimuth \in 0 .. Turn - 1 /\ azimuth' \in 0 .. Turn - 1
      /\ targetAzimuth \in 0 .. Turn - 1
      /\ elevation \in Int /\ elevation' \in Int /\ targetElevation \in Int
  BY <1>1, DishAssumption DEF TypeOK
<1> DEFINE before == Backend!Apart(azimuth, targetAzimuth)
           after == Backend!Apart(azimuth', targetAzimuth)
           low == Backend!Climb(elevation, targetElevation)
           high == Backend!Climb(elevation', targetElevation)
<1>3. before \in Nat /\ after \in Nat /\ (after = 0 => azimuth' = targetAzimuth)
  BY <1>2, ApartIsDistance
<1>4. low \in Nat /\ high \in Nat /\ (high = 0 => elevation' = targetElevation)
  BY <1>2, ClimbIsDistance
<1>5. /\ before <= Reach.az /\ (azimuth' = targetAzimuth \/ after + Reach.az = before)
      /\ low <= Reach.el /\ (elevation' = targetElevation \/ high + Reach.el = low)
  BY <1>1
<1> HIDE DEF before, after, low, high
<1> QED BY <1>3, <1>4, <1>5, ReachIsDistance

LEMMA WithinOnePeriod ==
  ASSUME NEW a, NEW b, NEW c, NEW d, Within(a, b, c, d, 1)
  PROVE  Backend!Apart(a % Turn, c % Turn) <= Reach.az /\ Backend!Climb(b, d) <= Reach.el
<1>1. Reach.az * 1 = Reach.az /\ Reach.el * 1 = Reach.el
  BY ReachIsDistance
<1> QED BY <1>1 DEF Within

(* In step, each period ends with the dish where it was last told to be. *)
LEMMA LandsInStep ==
  ASSUME TrackInv, phase = "sample", Tick(Dt), NEW n \in Nat, n = Len(samples) + 1, InStep(n)
  PROVE  azimuth' = Looks(n).az % Turn /\ elevation' = Looks(n).el
<1>0. /\ LoopTypeOK /\ TypeOK /\ Running /\ Tracking /\ Aos \in Aos .. los
      /\ samples \in Seq(Reading) /\ Len(samples) \in Nat /\ DOMAIN samples = 1 .. Len(samples)
  <2>1. LoopTypeOK /\ TypeOK /\ Running /\ Tracking /\ samples \in Seq(Reading)
    BY DEF TrackInv, LoopTypeOK, Running, Tracking
  <2> QED BY <2>1, WindowIsOpen, LenProperties
<1>1. Accepted(Looks(n))
  BY <1>0 DEF InStep
<1>2. targetAzimuth = Looks(n).az % Turn /\ targetElevation = Looks(n).el
  BY <1>1, AimIsTaken
<1>3. SUFFICES /\ Backend!Apart(azimuth, targetAzimuth) <= Reach.az
               /\ Backend!Climb(elevation, targetElevation) <= Reach.el
  BY <1>0, <1>2, ReachedInOnePeriod
<1>4. CASE n = 1
  <2>1. samples = <<>>
    BY <1>0, <1>4, EmptySeq
  <2>2. pass[Aos] # NoLook /\ (acquired => Near(azimuth, elevation, pass[Aos]))
    BY <1>0, <2>1 DEF TrackInv, Acquiring
  <2>3. acquired
    <3>1. AcquisitionFailsForAReason
      BY DEF TrackInv, ReportIsHonest
    <3>2. AcquireTicks # 0
      BY TrackerAssumption DEF InStep
    <3> QED BY <1>0, <2>1, <3>1, <3>2 DEF AcquisitionFailsForAReason, InStep
  <2>4. azimuth = pass[Aos].az % Turn /\ elevation = pass[Aos].el
    BY <1>0, <2>2, <2>3 DEF InStep, Resolved, TypeOK
  <2>5. Within(pass[Aos].az, pass[Aos].el, Looks(n).az, Looks(n).el, 1)
    BY <1>4 DEF InStep
  <2>6. /\ Backend!Apart(pass[Aos].az % Turn, Looks(n).az % Turn) <= Reach.az
        /\ Backend!Climb(pass[Aos].el, Looks(n).el) <= Reach.el
    BY <2>5, WithinOnePeriod
  <2> QED BY <1>2, <2>4, <2>6
<1>5. CASE n # 1
  <2> DEFINE m == n - 1
  <2>1. m \in DOMAIN samples /\ m \in Nat /\ m = Len(samples) /\ samples # <<>>
    BY <1>0, <1>5, EmptySeq
  <2>2. InStep(m)
    <3>1. \A k \in 1 .. m : k \in 1 .. n
      OBVIOUS
    <3>2. \A k \in 2 .. m : k \in 2 .. n
      OBVIOUS
    <3> HIDE DEF m
    <3> QED BY <3>1, <3>2 DEF InStep
  <2>3. samples[m].az = Looks(m).az % Turn /\ samples[m].el = Looks(m).el
    BY <2>1, <2>2 DEF TrackInv, FollowsThePass, LagIsOneMotion
  <2>4. azimuth = samples[m].az /\ elevation = samples[m].el
    BY <1>0, <2>1 DEF TrackInv, Steering
  <2>5. Within(Looks(m).az, Looks(m).el, Looks(n).az, Looks(n).el, 1)
    <3>1. n \in 2 .. n
      BY <1>0, <1>5
    <3> QED BY <3>1 DEF InStep
  <2> HIDE DEF m
  <2>6. /\ Backend!Apart(Looks(m).az % Turn, Looks(n).az % Turn) <= Reach.az
        /\ Backend!Climb(Looks(m).el, Looks(n).el) <= Reach.el
    BY <2>5, WithinOnePeriod
  <2> QED BY <1>2, <2>3, <2>4, <2>6
<1> QED BY <1>4, <1>5

(* Wherever the dish was left, an aim that moves no further than a period's  *)
(* slew costs it nothing.                                                    *)
LEMMA LosesNoGround ==
  ASSUME TrackInv, phase = "sample", Tick(Dt),
         NEW n \in Nat, NEW m \in Nat, n = m + 1, m = Len(samples), m > 0,
         Accepted(Looks(n)), Accepted(Looks(m)),
         Within(Looks(m).az, Looks(m).el, Looks(n).az, Looks(n).el, 1)
  PROVE  /\ Backend!Apart(azimuth', Looks(n).az % Turn)
              <= Backend!Apart(samples[m].az, Looks(m).az % Turn)
         /\ Backend!Climb(elevation', Looks(n).el)
              <= Backend!Climb(samples[m].el, Looks(m).el)
<1>0. LoopTypeOK /\ TypeOK /\ Running /\ Tracking /\ CommandsSent = n
  BY DEF TrackInv, LoopTypeOK, Running, Tracking, CommandsSent
<1>1. /\ TypeOK' /\ UNCHANGED <<targetAzimuth, targetElevation>>
      /\ \/ azimuth' = targetAzimuth
         \/ Backend!Apart(azimuth', targetAzimuth) + Reach.az
              = Backend!Apart(azimuth, targetAzimuth)
      /\ \/ elevation' = targetElevation
         \/ Backend!Climb(elevation', targetElevation) + Reach.el
              = Backend!Climb(elevation, targetElevation)
  BY <1>0, PeriodNears
<1>2. targetAzimuth = Looks(n).az % Turn /\ targetElevation = Looks(n).el
  BY AimIsTaken
<1>3. azimuth = samples[m].az /\ elevation = samples[m].el
  <2>1. samples # <<>>
    OBVIOUS
  <2> QED BY <1>0, <2>1 DEF TrackInv, Steering
<1>4. Looks(m).az % Turn \in 0 .. Turn - 1 /\ Looks(m).el \in Int
  <2>1. Looks(m) # NoLook
    BY <1>0 DEF TrackInv, Steering
  <2>2. Min2(Aos + (m - 1) * Dt + lead, los) \in Aos .. los
    BY <1>0, AimInWindow
  <2>3. Looks(m).az \in Int \cup {NaN} /\ Looks(m).el \in Int \cup {NaN}
    BY <1>0, <2>1, <2>2, LookIsAngle DEF Looks
  <2> QED BY <2>3, AcceptedIsWithinLimits, DishAssumption
<1>5. /\ Backend!Apart(Looks(m).az % Turn, Looks(n).az % Turn) <= Reach.az
      /\ Backend!Climb(Looks(m).el, Looks(n).el) <= Reach.el
  BY WithinOnePeriod
<1>6. /\ azimuth \in 0 .. Turn - 1 /\ azimuth' \in 0 .. Turn - 1
      /\ targetAzimuth \in 0 .. Turn - 1
      /\ elevation \in Int /\ elevation' \in Int /\ targetElevation \in Int
  BY <1>0, <1>1, DishAssumption DEF TypeOK
<1> DEFINE old == Looks(m).az % Turn
           now == Backend!Apart(azimuth', targetAzimuth)
           before == Backend!Apart(azimuth, targetAzimuth)
           then == Backend!Apart(azimuth, old)
           move == Backend!Apart(old, targetAzimuth)
           oldEl == Looks(m).el
           high == Backend!Climb(elevation', targetElevation)
           low == Backend!Climb(elevation, targetElevation)
           floor == Backend!Climb(elevation, oldEl)
           rise == Backend!Climb(oldEl, targetElevation)
<1>7. /\ now \in Nat /\ before \in Nat /\ then \in Nat /\ move \in Nat
      /\ before <= then + move /\ (azimuth' = targetAzimuth => now = 0)
  BY <1>4, <1>6, ApartIsDistance
<1>8. /\ high \in Nat /\ low \in Nat /\ floor \in Nat /\ rise \in Nat
      /\ low <= floor + rise /\ (elevation' = targetElevation => high = 0)
  BY <1>4, <1>6, ClimbIsDistance
<1>9. /\ move <= Reach.az /\ (azimuth' = targetAzimuth \/ now + Reach.az = before)
      /\ rise <= Reach.el /\ (elevation' = targetElevation \/ high + Reach.el = low)
  BY <1>1, <1>2, <1>5
<1> HIDE DEF now, before, then, move, high, low, floor, rise
<1>10. now <= then
  BY <1>7, <1>9, ReachIsDistance
<1>11. high <= floor
  BY <1>8, <1>9, ReachIsDistance
<1> QED BY <1>2, <1>3, <1>10, <1>11 DEF now, then, high, floor

LEMMA SampleStep ==
  ASSUME TrackInv, Sample
  PROVE  TrackInv'
<1> DEFINE m == Len(samples)
           n == m + 1
           instant == Min2(t', los)
           truth == pass[instant]
           reading == [at |-> instant, az |-> azimuth', el |-> elevation',
                       error |-> OffBy(azimuth', elevation', truth)]
<1>0. /\ LoopTypeOK /\ TypeOK /\ Running /\ Tracking /\ los \in Nat /\ Aos <= los
      /\ samples \in Seq(Reading) /\ phase = "sample" /\ result = "none"
  <2>1. LoopTypeOK /\ TypeOK /\ Running /\ Tracking /\ samples \in Seq(Reading)
        /\ phase = "sample" /\ result = "none"
    BY DEF TrackInv, LoopTypeOK, Sample, Running, Tracking
  <2> QED BY <2>1, WindowIsOpen
<1>1. m \in Nat /\ n \in Nat \ {0} /\ DOMAIN samples = 1 .. m
  BY <1>0, LenProperties
<1>2. Tick(Dt) /\ t' = t + Dt
  BY DEF Sample
<1>3. UNCHANGED <<acquired, ticks>> /\ pass' = pass /\ lead' = lead /\ los' = los /\ from' = from
  BY DEF Sample, run
<1>4. TypeOK' /\ UNCHANGED <<targetAzimuth, targetElevation>>
  BY <1>0, <1>2, PeriodNears
<1>5. /\ t = Aos + m * Dt /\ t <= los
      /\ \A k \in DOMAIN samples : samples[k].at = Min2(Aos + k * Dt, los)
  <2>1. phase # "steer"
    BY <1>0
  <2>2. /\ t = Aos + m * Dt /\ t <= los + 0
        /\ \A k \in DOMAIN samples : samples[k].at = Min2(Aos + k * Dt, los)
    BY <1>0, <2>1 DEF TrackInv, OnTime
  <2>3. los + 0 = los
    BY <1>0
  <2> QED BY <2>2, <2>3
<1>6. t' = Aos + n * Dt /\ t' <= los + Dt /\ t' \in Nat /\ instant \in Aos .. los
  <2>1. m * Dt \in Nat /\ n * Dt = m * Dt + Dt /\ Dt \in Nat /\ Aos \in Nat
    BY <1>1, PeriodIsTick
  <2>2. t' = Aos + n * Dt
    BY <1>2, <1>5, <2>1
  <2>3. t + Dt <= los + Dt /\ t \in Nat
    BY <1>0, <1>5, <2>1
  <2>4. t' <= los + Dt /\ t' \in Nat /\ Aos <= t'
    BY <1>2, <1>5, <2>1, <2>3
  <2> QED BY <1>0, <2>1, <2>2, <2>4 DEF Min2
<1>7. CASE truth = NoLook
  <2>1. phase' = "idle" /\ result' = "err" /\ samples' = <<>>
    BY <1>7 DEF Sample, Fail
  <2>2. t' \in Int /\ ticks' \in Nat
    BY <1>0, <1>3, <1>6 DEF LoopTypeOK
  <2> QED BY <1>0, <1>3, <1>4, <2>1, <2>2, AtRest
<1>8. CASE truth # NoLook
  <2>1. samples' = Append(samples, reading) /\ phase' = "steer" /\ result' = result
    BY <1>8 DEF Sample
  <2>2. reading \in Reading
    <3>1. truth.az \in Int \cup {NaN} /\ truth.el \in Int \cup {NaN}
      BY <1>0, <1>6, <1>8, LookIsAngle
    <3>2. azimuth' \in Int /\ elevation' \in Int /\ instant \in Int
      BY <1>4, <1>6, DishAssumption, PeriodIsTick DEF TypeOK
    <3>3. OffBy(azimuth', elevation', truth) \in Int \cup {NaN}
      BY <3>1, <3>2, OffByIsError
    <3> HIDE DEF instant, truth
    <3> QED BY <3>2, <3>3 DEF Reading
  <2> HIDE DEF reading
  <2>3. /\ samples' \in Seq(Reading) /\ Len(samples') = n /\ DOMAIN samples' = 1 .. n
        /\ samples'[n] = reading /\ samples' # <<>>
        /\ \A k \in 1 .. m : samples'[k] = samples[k]
    <3>1. /\ samples' \in Seq(Reading) /\ Len(samples') = n
          /\ \A k \in 1 .. m : samples'[k] = samples[k]
          /\ samples'[n] = reading /\ samples' # <<>>
      BY <1>0, <2>1, <2>2, AppendProperties
    <3> QED BY <3>1, LenProperties
  <2>4. reading.at = instant /\ reading.az = azimuth' /\ reading.el = elevation'
    BY DEF reading
  <2>5. \A k \in 1 .. n : k \in 1 .. m \/ k = n
    BY <1>1
  <2>6. Tracking' /\ Running' /\ CommandsSent' = n /\ CommandsSent = n
    BY <1>0, <2>1, <2>3 DEF Tracking, Running, CommandsSent
  <2>7. \A k : Looks(k)' = Looks(k) /\ Accepted(Looks(k))' = Accepted(Looks(k))
    BY <1>3 DEF Looks, Accepted, Verdict
  <2>8. LoopTypeOK'
    BY <1>0, <1>3, <1>4, <1>6, <2>1, <2>3, <2>6 DEF LoopTypeOK
  <2>9. OnTime'
    <3>1. \A k \in 1 .. n : samples'[k].at = Min2(Aos + k * Dt, los)
      <4>1. \A k \in 1 .. m : samples'[k].at = Min2(Aos + k * Dt, los)
        BY <1>1, <1>5, <2>3
      <4>2. samples'[n].at = Min2(Aos + n * Dt, los)
        BY <1>6, <2>3, <2>4
      <4> HIDE DEF n, m
      <4> QED BY <2>5, <4>1, <4>2
    <3>2. t' = Aos + Len(samples') * Dt
      BY <1>6, <2>3
    <3>3. t' <= los' + Dt
      BY <1>3, <1>6
    <3>4. \A k \in DOMAIN samples' : samples'[k].at = Min2(Aos + k * Dt, los')
      BY <1>3, <2>3, <3>1
    <3> HIDE DEF n, m
    <3> QED BY <2>1, <3>2, <3>3, <3>4 DEF OnTime
  <2>10. Acquiring'
    BY <2>1, <2>3 DEF Acquiring
  <2>11. ReportIsHonest'
    BY <1>0, <2>1, <2>3 DEF ReportIsHonest, ReportCoversPass, AcquisitionFailsForAReason
  <2>12. Steering'
    <3>1. Good' = Good /\ \A k : LastGood(k)' = LastGood(k)
      BY <2>6, <2>7 DEF Good, LastGood
    <3>2. /\ \A k \in 1 .. n : Looks(k) # NoLook
          /\ Good # {} => \E k \in Good :
               LastGood(k) /\ targetAzimuth = Looks(k).az % Turn /\ targetElevation = Looks(k).el
      BY <1>0, <2>6 DEF TrackInv, Steering
    <3>3. samples'[Len(samples')].az = azimuth' /\ samples'[Len(samples')].el = elevation'
      BY <2>3, <2>4
    <3> HIDE DEF n, m
    <3> QED BY <1>4, <2>6, <2>7, <3>1, <3>2, <3>3 DEF Steering
  <2>13. FollowsThePass'
    <3>1. Resolved' = Resolved
      BY <1>3 DEF Resolved
    <3>2. \A k : InStep(k)' = InStep(k)
      BY <1>3, <2>7, <3>1 DEF InStep
    <3>3. LagIsOneMotion'
      <4>1. \A k \in 1 .. m : InStep(k) =>
              samples[k].az = Looks(k).az % Turn /\ samples[k].el = Looks(k).el
        BY <1>1 DEF TrackInv, FollowsThePass, LagIsOneMotion
      <4>2. InStep(n) => azimuth' = Looks(n).az % Turn /\ elevation' = Looks(n).el
        BY <1>0, <1>1, <1>2, LandsInStep
      <4> HIDE DEF n, m
      <4>3. \A k \in 1 .. n : InStep(k) =>
              samples'[k].az = Looks(k).az % Turn /\ samples'[k].el = Looks(k).el
        BY <2>3, <2>4, <2>5, <4>1, <4>2
      <4> QED BY <2>3, <2>7, <3>2, <4>3 DEF LagIsOneMotion
    <3>4. LagNeverGrowsOnSlowPart'
      <4> DEFINE Lag(k, s) ==
            LET aim == Looks(k)
                old == Looks(k - 1)
            IN  (Accepted(aim) /\ Accepted(old) /\ Within(old.az, old.el, aim.az, aim.el, 1))
                  => /\ Backend!Apart(s[k].az, aim.az % Turn)
                          <= Backend!Apart(s[k-1].az, old.az % Turn)
                     /\ Backend!Climb(s[k].el, aim.el) <= Backend!Climb(s[k-1].el, old.el)
      <4>1. \A k \in DOMAIN samples \ {1} : Lag(k, samples)
        BY DEF TrackInv, FollowsThePass, LagNeverGrowsOnSlowPart
      <4>2. \A k \in 1 .. m : k # 1 => Lag(k, samples')
        <5> SUFFICES ASSUME NEW k \in 1 .. m, k # 1 PROVE Lag(k, samples')
          OBVIOUS
        <5>1. Lag(k, samples)
          BY <1>1, <4>1
        <5>2. samples'[k] = samples[k] /\ samples'[k - 1] = samples[k - 1]
          BY <1>1, <2>3
        <5> QED BY <5>1, <5>2
      <4>3. n # 1 => Lag(n, samples')
        <5> SUFFICES ASSUME n # 1, Accepted(Looks(n)), Accepted(Looks(m)),
                            Within(Looks(m).az, Looks(m).el, Looks(n).az, Looks(n).el, 1)
                     PROVE  /\ Backend!Apart(samples'[n].az, Looks(n).az % Turn)
                                 <= Backend!Apart(samples'[m].az, Looks(m).az % Turn)
                            /\ Backend!Climb(samples'[n].el, Looks(n).el)
                                 <= Backend!Climb(samples'[m].el, Looks(m).el)
          <6>1. n - 1 = m
            BY <1>1
          <6> HIDE DEF n, m
          <6> QED BY <6>1
        <5>1. m > 0
          BY <1>1
        <5>2. samples'[m] = samples[m] /\ samples'[n].az = azimuth' /\ samples'[n].el = elevation'
          BY <1>1, <2>3, <2>4, <5>1
        <5> QED BY <1>0, <1>1, <1>2, <5>1, <5>2, LosesNoGround
      <4> HIDE DEF n, m
      <4>4. \A k \in DOMAIN samples' \ {1} : Lag(k, samples')
        <5> HIDE DEF Lag
        <5> QED BY <2>3, <2>5, <4>2, <4>3
      <4>5. \A k : Within(Looks(k - 1).az, Looks(k - 1).el, Looks(k).az, Looks(k).el, 1)'
                     = Within(Looks(k - 1).az, Looks(k - 1).el, Looks(k).az, Looks(k).el, 1)
        BY <2>7 DEF Within
      <4> QED BY <2>7, <4>4, <4>5 DEF LagNeverGrowsOnSlowPart
    <3> QED BY <3>3, <3>4 DEF FollowsThePass
  <2> QED BY <2>8, <2>9, <2>10, <2>11, <2>12, <2>13 DEF TrackInv
<1> QED BY <1>7, <1>8

(* The dish turned by hand, while nobody tracks. *)
LEMMA ByHandStep ==
  ASSUME TrackInv, ByHand
  PROVE  TrackInv'
<1>1. phase' = "hand" /\ UNCHANGED loop
  BY DEF ByHand, loop
<1>2. ~Tracking' /\ ~Running' /\ phase' \notin {"acquire", "slew"}
  BY <1>1 DEF Tracking, Running
<1>3. LoopTypeOK /\ TypeOK
  BY DEF TrackInv, LoopTypeOK
<1>4. TypeOK'
  <2>1. CASE SendCommand
    <3>1. PICK az \in Angles360, el \in Elevation90 : Command(az, el)
      BY <2>1 DEF SendCommand
    <3>2. az \in Int \cup {NaN} /\ el \in Int \cup {NaN}
      BY DishAssumption DEF Angles360, Elevation90
    <3> QED BY <1>3, <3>1, <3>2, CommandStep
  <2>2. CASE SomeTick
    BY <1>3, <2>2, TickStep DEF SomeTick
  <2> QED BY <2>1, <2>2 DEF ByHand
<1>5. LoopTypeOK'
  BY <1>1, <1>2, <1>3, <1>4 DEF LoopTypeOK, loop
<1>6. OnTime' /\ Acquiring' /\ Steering' /\ AcquisitionFailsForAReason'
  BY <1>2 DEF OnTime, Acquiring, Steering, AcquisitionFailsForAReason
<1>7. ReportCoversPass'
  BY <1>1 DEF TrackInv, ReportIsHonest, ReportCoversPass, loop
<1>8. FollowsThePass'
  BY <1>1, FollowsAsBefore DEF TrackInv, loop, run
<1> QED BY <1>5, <1>6, <1>7, <1>8 DEF TrackInv, ReportIsHonest

LEMMA NothingMoves ==
  ASSUME TrackInv, UNCHANGED vars
  PROVE  TrackInv'
<1>1. /\ azimuth' = azimuth /\ elevation' = elevation
      /\ targetAzimuth' = targetAzimuth /\ targetElevation' = targetElevation
      /\ phase' = phase /\ pass' = pass /\ lead' = lead /\ los' = los /\ t' = t
      /\ acquired' = acquired /\ ticks' = ticks /\ samples' = samples /\ result' = result
      /\ from' = from
  BY DEF vars, loop
<1>2. LoopTypeOK' /\ OnTime'
  BY <1>1 DEF TrackInv, LoopTypeOK, TypeOK, Running, OnTime, Tracking
<1>3. /\ \A k : Looks(k)' = Looks(k) /\ Accepted(Looks(k))' = Accepted(Looks(k))
      /\ Accepted(pass[Aos])' = Accepted(pass[Aos])
      /\ Near(azimuth, elevation, pass[Aos])' = Near(azimuth, elevation, pass[Aos])
      /\ Within(from[1], from[2], pass[Aos].az, pass[Aos].el, AcquireTicks)'
           = Within(from[1], from[2], pass[Aos].az, pass[Aos].el, AcquireTicks)
  BY <1>1 DEF Looks, Accepted, Verdict, Near, Versine, Dot, Within
<1>4. Acquiring'
  BY <1>1, <1>3 DEF TrackInv, Acquiring, Gains, Tracking
<1>5. Steering'
  <2>1. CommandsSent' = CommandsSent /\ Good' = Good
    BY <1>1, <1>3 DEF CommandsSent, Good
  <2>2. \A k : LastGood(k)' = LastGood(k)
    BY <2>1 DEF LastGood
  <2> QED BY <1>1, <1>3, <2>1, <2>2 DEF TrackInv, Steering, Tracking
<1>6. ReportIsHonest'
  BY <1>1, <1>3 DEF TrackInv, ReportIsHonest, ReportCoversPass, AcquisitionFailsForAReason,
                    Tracking
<1>7. FollowsThePass'
  BY <1>1, FollowsAsBefore DEF TrackInv, run
<1> QED BY <1>2, <1>4, <1>5, <1>6, <1>7 DEF TrackInv

-----------------------------------------------------------------------------
(* The inductive invariant of the tracking loop: the clock counts the        *)
(* samples, the acquisition nears the AOS angle by all the rates allow, and  *)
(* the dish is steered to the last aim the limits allow.                     *)
THEOREM TrackingCorrect == TrackSpec => []TrackInv
<1>1. TrackInit => TrackInv
  BY InitialLoop
<1>2. TrackInv /\ [TrackNext]_vars => TrackInv'
  <2> SUFFICES ASSUME TrackInv, [TrackNext]_vars PROVE TrackInv'
    OBVIOUS
  <2>1. CASE Begin
    BY <2>1, BeginStep
  <2>2. CASE Acquire
    BY <2>2, AcquireStep
  <2>3. CASE Slew
    BY <2>3, SlewStep
  <2>4. CASE GiveUp
    BY <2>4, GiveUpStep
  <2>5. CASE Steer
    BY <2>5, SteerStep
  <2>6. CASE Sample
    BY <2>6, SampleStep
  <2>7. CASE Finish
    BY <2>7, FinishStep
  <2>8. CASE ByHand
    BY <2>8, ByHandStep
  <2>9. CASE UNCHANGED vars
    BY <2>9, NothingMoves
  <2> QED BY <2>1, <2>2, <2>3, <2>4, <2>5, <2>6, <2>7, <2>8, <2>9 DEF TrackNext, TrackStep
<1> QED BY <1>1, <1>2, PTL DEF TrackSpec

(* tracking.rs, the report: one sample a period over all of the window, and  *)
(* "acquired" is missing only when the command was refused or the AOS angle  *)
(* was out of reach in the time allowed.                                     *)
THEOREM ReportsAreHonest == TrackSpec => []ReportIsHonest
<1>1. TrackInv => ReportIsHonest
  BY DEF TrackInv
<1> QED BY <1>1, TrackingCorrect, PTL

(* tracking.rs, the feedforward: on a pass the dish can follow the error is  *)
(* one motion of the satellite, and never grows on a stretch it can follow.  *)
THEOREM DishFollowsThePass == TrackSpec => []FollowsThePass
<1>1. TrackInv => FollowsThePass
  BY DEF TrackInv
<1> QED BY <1>1, TrackingCorrect, PTL

(* tracking.rs, "let _ = backend.command": a refused command leaves the dish *)
(* steering to the last angle of this run that the limits allow.             *)
THEOREM RefusalsAreHarmless == TrackSpec => []SteersToLastAccepted
<1>1. TrackInv => SteersToLastAccepted
  <2> SUFFICES ASSUME TrackInv, Tracking, Good # {}
               PROVE  LET last == Looks(CHOOSE k \in Good : LastGood(k))
                      IN  targetAzimuth = last.az % Turn /\ targetElevation = last.el
    BY DEF SteersToLastAccepted
  <2>1. PICK k \in Good :
          LastGood(k) /\ targetAzimuth = Looks(k).az % Turn /\ targetElevation = Looks(k).el
    BY DEF TrackInv, Steering
  <2>2. \A j \in Good : LastGood(j) => j = k
    <3> SUFFICES ASSUME NEW j \in Good, LastGood(j) PROVE j = k
      OBVIOUS
    <3>1. j \in Int /\ k \in Int
      BY DEF Good
    <3>2. j <= k /\ k <= j
      BY <2>1 DEF LastGood
    <3> QED BY <3>1, <3>2
  <2>3. (CHOOSE j \in Good : LastGood(j)) = k
    BY <2>1, <2>2
  <2> QED BY <2>1, <2>3
<1> QED BY <1>1, TrackingCorrect, PTL

(* hal.rs, the contract of the interface, while the loop drives the dish and *)
(* while nobody does.                                                        *)
THEOREM TrackedDishKeepsContract == TrackSpec => MeetsContract
<1>1. TrackInit => TypeOK /\ Backend!Init
  BY InitialDish DEF TrackInit
<1>2. TypeOK /\ TrackInv /\ [TrackNext]_vars => TypeOK' /\ [Backend!Next]_dish
  <2> SUFFICES ASSUME TypeOK, TrackInv, [TrackNext]_vars
               PROVE  TypeOK' /\ [Backend!Next]_dish
    OBVIOUS
  <2>1. ASSUME Tick(Dt) PROVE TypeOK' /\ [Backend!Next]_dish
    BY <2>1, PeriodIsTick, TickStep DEF Backend!Next
  <2>2. ASSUME UNCHANGED dish PROVE TypeOK' /\ [Backend!Next]_dish
    BY <2>2 DEF dish, TypeOK
  <2>3. ASSUME NEW i \in Aos .. los, Running, pass[i] # NoLook,
               Command(pass[i].az, pass[i].el)
        PROVE  TypeOK' /\ [Backend!Next]_dish
    <3>1. pass[i].az \in Int \cup {NaN} /\ pass[i].el \in Int \cup {NaN}
      BY <2>3, LookIsAngle DEF TrackInv
    <3> QED BY <2>3, <3>1, CommandStep
  <2>4. CASE Begin \/ GiveUp \/ Finish \/ UNCHANGED vars
    BY <2>2, <2>4 DEF Begin, GiveUp, Finish, vars, dish
  <2>5. CASE Slew \/ Sample
    BY <2>1, <2>5 DEF Slew, Sample
  <2>6. CASE Acquire
    <3>1. Running
      BY <2>6 DEF Acquire, Running
    <3>2. Aos \in Aos .. los
      BY <3>1, WindowIsOpen DEF TrackInv
    <3>3. UNCHANGED dish \/ (pass[Aos] # NoLook /\ Command(pass[Aos].az, pass[Aos].el))
      BY <2>6 DEF Acquire
    <3> QED BY <2>2, <2>3, <3>1, <3>2, <3>3
  <2>7. CASE Steer
    <3>1. Running /\ Tracking /\ LoopTypeOK
      BY <2>7 DEF Steer, Running, Tracking, TrackInv
    <3>2. t = Aos + Len(samples) * Dt
      BY <3>1 DEF TrackInv, OnTime
    <3>3. Len(samples) \in Nat /\ Len(samples) + 1 \in Nat \ {0}
          /\ (Len(samples) + 1) - 1 = Len(samples)
      <4>1. Len(samples) \in Nat
        BY <3>1, LenProperties DEF LoopTypeOK
      <4> QED BY <4>1
    <3>4. AimAt(t) \in Aos .. los
      BY <3>1, <3>2, <3>3, AimInWindow DEF AimAt
    <3>5. UNCHANGED dish \/ (pass[AimAt(t)] # NoLook
                               /\ Command(pass[AimAt(t)].az, pass[AimAt(t)].el))
      BY <2>7 DEF Steer
    <3> QED BY <2>2, <2>3, <3>1, <3>4, <3>5
  <2>8. CASE ByHand
    <3>1. CASE SendCommand
      <4>1. PICK az \in Angles360, el \in Elevation90 : Command(az, el)
        BY <3>1 DEF SendCommand
      <4>2. az \in Int \cup {NaN} /\ el \in Int \cup {NaN}
        BY DishAssumption DEF Angles360, Elevation90
      <4> QED BY <4>1, <4>2, CommandStep
    <3>2. CASE SomeTick
      BY <3>2, TickStep DEF SomeTick, Backend!Next
    <3> QED BY <2>8, <3>1, <3>2 DEF ByHand
  <2> QED BY <2>4, <2>5, <2>6, <2>7, <2>8 DEF TrackNext, TrackStep
<1>3. TypeOK => (Slewing <=> <<azimuth, elevation>> # <<targetAzimuth, targetElevation>>)
  BY SlewingMeansElsewhere
<1>4. TypeOK /\ TrackInv /\ [TrackNext]_vars => [Backend!Next]_(Backend!vars)
  BY <1>2 DEF dish, Backend!vars
<1>5. TrackSpec => []TypeOK
  BY <1>1, <1>2, TrackingCorrect, PTL DEF TrackSpec
<1>6. TrackSpec => [](Slewing <=> <<azimuth, elevation>> # <<targetAzimuth, targetElevation>>)
  BY <1>3, <1>5, PTL
<1>7. TrackSpec => Backend!Spec
  BY <1>1, <1>4, <1>5, TrackingCorrect, PTL DEF TrackSpec, Backend!Spec
<1> QED BY <1>6, <1>7 DEF MeetsContract
=============================================================================
