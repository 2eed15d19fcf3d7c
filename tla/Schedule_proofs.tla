--------------------------- MODULE Schedule_proofs ---------------------------
(* The windows, the handoffs and the exported plan, for tracks of any shape, *)
(* searches of any length, any step and any number of satellites: what the   *)
(* scan finds are the passes, each loss of signal goes to the highest other  *)
(* satellite with a window, and what the tool prints the router is given.    *)
EXTENDS Schedule, ContactGraph_proofs, SequenceTheorems

-----------------------------------------------------------------------------
(* The grid of samples *)

LEMMA StepIsPositive ==
  /\ Mask \in Int /\ Start \in Nat /\ Start \in Int
  /\ Step \in Nat \ {0} /\ Step \in Int /\ Step > 0 /\ H \in Nat \ {0}
  /\ Looks \in Int /\ Looks > 0
  /\ Ends \subseteq Nat
BY ScanAssumption

(* Whole numbers of steps, and nothing else, have no remainder.              *)
LEMMA WholeSteps ==
  ASSUME NEW z \in Int, z % Step = 0
  PROVE  \E k \in Int : z = Step * k
<1>1. z \div Step \in Int /\ z = Step * (z \div Step) + (z % Step)
  BY StepIsPositive
<1> QED BY <1>1, StepIsPositive

LEMMA NoRemainder ==
  ASSUME NEW k \in Int
  PROVE  (Step * k) % Step = 0
<1> DEFINE q == (Step * k) \div Step
           r == (Step * k) % Step
<1>1. Step * k \in Int
  BY StepIsPositive
<1>2. q \in Int /\ r \in 0 .. Step - 1 /\ Step * k = Step * q + r
  BY <1>1, StepIsPositive
<1> HIDE DEF q, r
<1>3. Step * (k - q) = r
  <2>1. Step * (k - q) = Step * k - Step * q
    BY <1>2, StepIsPositive
  <2>2. Step * k \in Int /\ Step * q \in Int
    BY <1>2, StepIsPositive
  <2> QED BY <1>2, <2>1, <2>2
<1>4. ~(k - q > 0)
  <2> SUFFICES ASSUME k - q > 0 PROVE FALSE
    OBVIOUS
  <2>1. k - q \in Int /\ k - q >= 1
    BY <1>2
  <2>2. Step * (k - q) >= Step
    BY <2>1, StepIsPositive
  <2> QED BY <1>2, <1>3, <2>2, StepIsPositive
<1>5. ~(k - q < 0)
  <2> SUFFICES ASSUME k - q < 0 PROVE FALSE
    OBVIOUS
  <2>1. k - q \in Int /\ k - q <= -1
    BY <1>2
  <2>2. Step * (k - q) < 0
    BY <2>1, StepIsPositive
  <2> QED BY <1>2, <1>3, <2>2, StepIsPositive
<1>6. k - q = 0
  BY <1>2, <1>4, <1>5
<1>7. r = 0
  BY <1>3, <1>6, StepIsPositive
<1> QED BY <1>7 DEF r

LEMMA GridSteps ==
  ASSUME NEW t \in Int, OnGrid(t)
  PROVE  OnGrid(t + Step) /\ OnGrid(t - Step) /\ t + Step \in Int /\ t - Step \in Int
<1>1. PICK k \in Int : t - Start = Step * k
  <2>1. t - Start \in Int /\ (t - Start) % Step = 0
    BY StepIsPositive DEF OnGrid
  <2> QED BY <2>1, WholeSteps
<1>2. (t + Step) - Start = Step * (k + 1) /\ (t - Step) - Start = Step * (k - 1)
  BY <1>1, StepIsPositive
<1>3. k + 1 \in Int /\ k - 1 \in Int
  OBVIOUS
<1>4. OnGrid(t + Step)
  BY <1>2, <1>3, NoRemainder DEF OnGrid
<1>5. OnGrid(t - Step)
  BY <1>2, <1>3, NoRemainder DEF OnGrid
<1> QED BY <1>4, <1>5, StepIsPositive

LEMMA StartOnGrid == OnGrid(Start)
<1>1. Start - Start = Step * 0
  BY StepIsPositive
<1> QED BY <1>1, NoRemainder DEF OnGrid

(* Two samples are a step apart at least.                                    *)
LEMMA StepApart ==
  ASSUME NEW t \in Int, NEW u \in Int, OnGrid(t), OnGrid(u), t < u
  PROVE  t + Step <= u
<1>1. PICK k \in Int : t - Start = Step * k
  <2>1. t - Start \in Int /\ (t - Start) % Step = 0
    BY StepIsPositive DEF OnGrid
  <2> QED BY <2>1, WholeSteps
<1>2. PICK m \in Int : u - Start = Step * m
  <2>1. u - Start \in Int /\ (u - Start) % Step = 0
    BY StepIsPositive DEF OnGrid
  <2> QED BY <2>1, WholeSteps
<1>3. Step * (m - k) = u - t
  <2>1. Step * (m - k) = Step * m - Step * k
    BY StepIsPositive
  <2> QED BY <1>1, <1>2, <2>1, StepIsPositive
<1>4. m - k >= 1
  <2> SUFFICES ASSUME m - k <= 0 PROVE FALSE
    OBVIOUS
  <2>1. Step * (m - k) <= 0
    BY StepIsPositive
  <2> QED BY <1>3, <2>1
<1>5. Step * (m - k) >= Step
  BY <1>4, StepIsPositive
<1> QED BY <1>3, <1>5, StepIsPositive

-----------------------------------------------------------------------------
(* Refinement stays between the samples *)

LEMMA PartOf ==
  ASSUME NEW a \in Int, NEW b \in Int, NEW c \in Int, c > 0, 0 <= a, a <= c, 0 <= b
  PROVE  (a * b) \div c \in 0 .. b
<1> DEFINE q == (a * b) \div c
           r == (a * b) % c
<1>1. a * b \in Int
  OBVIOUS
<1>2. q \in Int /\ r \in 0 .. c - 1 /\ a * b = c * q + r
  BY <1>1
<1> HIDE DEF q, r
<1>3. 0 <= a * b /\ a * b <= c * b
  <2>1. 0 <= a * b
    OBVIOUS
  <2>2. (c - a) * b >= 0 /\ (c - a) * b = c * b - a * b
    OBVIOUS
  <2>3. c * b \in Int
    OBVIOUS
  <2> QED BY <1>1, <2>1, <2>2, <2>3
<1>4. q >= 0
  <2> SUFFICES ASSUME q <= -1 PROVE FALSE
    BY <1>2
  <2>1. c * q <= c * (-1)
    BY <1>2
  <2>2. c * q \in Int /\ c * (-1) = -c
    BY <1>2
  <2> QED BY <1>1, <1>2, <1>3, <2>1, <2>2
<1>5. q <= b
  <2> SUFFICES ASSUME q >= b + 1 PROVE FALSE
    BY <1>2
  <2>1. c * q >= c * (b + 1)
    BY <1>2
  <2>2. c * (b + 1) = c * b + c /\ c * b \in Int /\ c * q \in Int
    BY <1>2
  <2> QED BY <1>1, <1>2, <1>3, <2>1, <2>2
<1> QED BY <1>2, <1>4, <1>5 DEF q

LEMMA QuotientIsInt ==
  ASSUME NEW a \in Int, NEW b \in Int, b # 0
  PROVE  Quotient(a, b) \in Int
<1>1. CASE b > 0
  BY <1>1 DEF Quotient
<1>2. CASE ~(b > 0)
  <2>1. -b > 0 /\ -b \in Int /\ -a \in Int
    BY <1>2
  <2>2. (-a) \div (-b) \in Int
    BY <2>1
  <2> QED BY <1>2, <2>2 DEF Quotient
<1> QED BY <1>1, <1>2

(* The interpolated crossing is between two samples on either side of the    *)
(* mask, or at the only one.                                                 *)
LEMMA CrossingBetween ==
  ASSUME NEW t0 \in Int, NEW t1 \in Int, t0 <= t1, NEW e0 \in Int, NEW e1 \in Int, e1 # e0,
         \/ t0 = t1
         \/ e0 < Mask /\ Mask <= e1
         \/ e1 < Mask /\ Mask <= e0
  PROVE  t0 + Quotient((Mask - e0) * (t1 - t0), e1 - e0) \in t0 .. t1
<1>0. Mask \in Int
  BY StepIsPositive
<1> DEFINE b == t1 - t0
           q == Quotient((Mask - e0) * b, e1 - e0)
<1>1. b \in Int /\ 0 <= b
  OBVIOUS
<1>2. q \in 0 .. b
  <2> HIDE DEF b
  <2>1. CASE e0 < Mask /\ Mask <= e1
    <3>1. /\ Mask - e0 \in Int /\ e1 - e0 \in Int /\ e1 - e0 > 0
          /\ 0 <= Mask - e0 /\ Mask - e0 <= e1 - e0
      BY <1>0, <2>1
    <3>2. ((Mask - e0) * b) \div (e1 - e0) \in 0 .. b
      BY <1>1, <3>1, PartOf
    <3> QED BY <3>1, <3>2 DEF Quotient
  <2>2. CASE e1 < Mask /\ Mask <= e0
    <3>1. /\ e0 - Mask \in Int /\ e0 - e1 \in Int /\ e0 - e1 > 0
          /\ 0 <= e0 - Mask /\ e0 - Mask <= e0 - e1
      BY <1>0, <2>2
    <3>2. ((e0 - Mask) * b) \div (e0 - e1) \in 0 .. b
      BY <1>1, <3>1, PartOf
    <3>3. -((Mask - e0) * b) = (e0 - Mask) * b /\ -(e1 - e0) = e0 - e1 /\ ~(e1 - e0 > 0)
      BY <1>0, <1>1, <2>2
    <3> QED BY <3>2, <3>3 DEF Quotient
  <2>3. CASE b = 0
    <3>1. (Mask - e0) * b = 0 /\ -((Mask - e0) * b) = 0
      BY <1>0, <2>3
    <3>2. e1 - e0 \in Int /\ (e1 - e0 > 0 \/ -(e1 - e0) > 0)
      OBVIOUS
    <3>3. \A c \in Int : c > 0 => 0 \div c = 0
      <4> SUFFICES ASSUME NEW c \in Int, c > 0 PROVE 0 \div c = 0
        OBVIOUS
      <4>1. (0 * 0) \div c \in 0 .. 0
        BY PartOf
      <4> QED BY <4>1
    <3>4. Quotient(0, e1 - e0) = 0
      BY <3>2, <3>3 DEF Quotient
    <3> QED BY <2>3, <3>1, <3>4
  <2> QED BY <2>1, <2>2, <2>3 DEF b
<1> HIDE DEF q
<1> QED BY <1>2 DEF b, q

(* refine_crossing: whatever the Newton step, and whatever the propagator    *)
(* answers around the guess.                                                 *)
LEMMA RefineBetween ==
  ASSUME NEW track, NEW t0 \in Int, NEW t1 \in Int, t0 <= t1, NEW e0 \in Int, NEW e1 \in Int,
         \/ t0 = t1
         \/ e0 < Mask /\ Mask <= e1
         \/ e1 < Mask /\ Mask <= e0,
         \A t \in t0 - H .. t1 + H : track[t] \in Int \cup {Fault}
  PROVE  Refine(track, t0, t1, e0, e1) \in t0 .. t1
<1> DEFINE guess == t0 + Quotient((Mask - e0) * (t1 - t0), e1 - e0)
           em == track[guess - H]
           ep == track[guess + H]
           newton == guess - Quotient((e1 - Mask) * 2 * H, ep - em)
<1>1. CASE e1 = e0
  BY <1>1 DEF Refine
<1>2. CASE e1 # e0
  <2>1. guess \in t0 .. t1
    BY <1>2, CrossingBetween
  <2> HIDE DEF guess
  <2>2. em \in Int \cup {Fault} /\ ep \in Int \cup {Fault}
    <3>1. guess - H \in t0 - H .. t1 + H /\ guess + H \in t0 - H .. t1 + H
      BY <2>1, StepIsPositive
    <3> QED BY <3>1
  <2> HIDE DEF em, ep
  <2>3. Refine(track, t0, t1, e0, e1) =
          IF Fault \in {em, ep} THEN guess
          ELSE IF ep = em THEN guess
          ELSE Clamp(newton, t0, t1)
    BY <1>2 DEF Refine, guess, em, ep
  <2>4. ASSUME Fault \notin {em, ep}, ep # em
        PROVE  Clamp(newton, t0, t1) \in t0 .. t1
    <3>1. ep - em \in Int /\ ep - em # 0
      BY <2>2, <2>4
    <3>2. (e1 - Mask) * 2 * H \in Int
      BY StepIsPositive
    <3>3. Quotient((e1 - Mask) * 2 * H, ep - em) \in Int
      BY <3>1, <3>2, QuotientIsInt
    <3>4. newton \in Int
      BY <2>1, <3>3
    <3> HIDE DEF newton
    <3> QED BY <3>4 DEF Clamp
  <2> HIDE DEF newton
  <2> QED BY <2>1, <2>3, <2>4
<1> QED BY <1>1, <1>2

-----------------------------------------------------------------------------
(* The highest of several, the first of equals                               *)

Highest(f, S, s) ==
  /\ s \in S
  /\ \A u \in S : f[u] <= f[s]
  /\ \A u \in S : u < s => f[u] < f[s]

LEMMA SomeIsHighest ==
  ASSUME NEW S, NEW a \in Int, NEW b \in Int, S \subseteq a .. b, S # {}, NEW f,
         \A u \in S : f[u] \in Int
  PROVE  \E s \in S : Highest(f, S, s)
<1> DEFINE upTo(n) == {u \in S : u <= a + n}
           P == {n \in Nat : upTo(n) # {} => \E s \in upTo(n) : Highest(f, upTo(n), s)}
<1>1. 0 \in P
  <2>1. \A u \in upTo(0) : u = a
    OBVIOUS
  <2>2. ASSUME NEW s \in upTo(0) PROVE Highest(f, upTo(0), s)
    BY <2>1 DEF Highest
  <2> QED BY <2>2
<1>2. ASSUME NEW n \in Nat, n \in P PROVE n + 1 \in P
  <2> DEFINE new == a + n + 1
             T == upTo(n)
             T1 == upTo(n + 1)
  <2>0. /\ \A u \in T1 : u \in Int /\ f[u] \in Int /\ (u \in T \/ u = new)
        /\ \A u \in T : u \in T1 /\ u < new
    OBVIOUS
  <2>1. T # {} => \E s \in T : Highest(f, T, s)
    BY <1>2
  <2> HIDE DEF upTo, T, T1
  <2>2. ASSUME NEW x \in T1 PROVE \E s \in T1 : Highest(f, T1, s)
    <3>1. CASE new \notin T1
      <4>1. T = T1
        BY <2>0, <3>1
      <4> QED BY <2>1, <4>1
    <3>2. CASE new \in T1 /\ T = {}
      <4>1. \A u \in T1 : u = new
        BY <2>0, <3>2
      <4>2. Highest(f, T1, new)
        BY <2>0, <3>2, <4>1 DEF Highest
      <4> QED BY <3>2, <4>2
    <3>3. CASE new \in T1 /\ T # {}
      <4>1. PICK s \in T : Highest(f, T, s)
        BY <2>1, <3>3
      <4>2. CASE f[new] > f[s]
        <5>1. Highest(f, T1, new)
          BY <2>0, <3>3, <4>1, <4>2 DEF Highest
        <5> QED BY <3>3, <5>1
      <4>3. CASE ~(f[new] > f[s])
        <5>1. Highest(f, T1, s)
          BY <2>0, <3>3, <4>1, <4>3 DEF Highest
        <5> QED BY <2>0, <5>1
      <4> QED BY <4>2, <4>3
    <3> QED BY <3>1, <3>2, <3>3
  <2> QED BY <2>2 DEF T1
<1>3. \A n \in Nat : n \in P
  <2> HIDE DEF P
  <2> QED BY <1>1, <1>2, Induction
<1>4. b - a \in Nat /\ upTo(b - a) = S
  <2>1. PICK x \in S : TRUE
    OBVIOUS
  <2>2. x \in Int /\ a <= x /\ x <= b
    OBVIOUS
  <2>3. b - a \in Nat
    BY <2>2
  <2>4. \A u \in S : u <= a + (b - a)
    OBVIOUS
  <2> QED BY <2>3, <2>4
<1>5. b - a \in P
  BY <1>3, <1>4
<1> HIDE DEF upTo
<1> QED BY <1>4, <1>5

(* The instants build_window looks at. *)
LEMMA QuotientBounds ==
  ASSUME NEW x \in Int, NEW c \in Int, c > 0
  PROVE  x \div c \in Int /\ c * (x \div c) <= x /\ x <= c * (x \div c) + (c - 1)
<1>1. x \div c \in Int /\ x = c * (x \div c) + (x % c) /\ x % c \in 0 .. c - 1
  OBVIOUS
<1> QED BY <1>1

LEMMA LooksInside ==
  ASSUME NEW aos \in Int, NEW los \in Int, aos <= los
  PROVE  /\ LookedAt(aos, los) \subseteq aos .. los
         /\ aos \in LookedAt(aos, los)
<1>1. Looks \in Int /\ Looks > 0 /\ los - aos \in Int /\ 0 <= los - aos
  BY StepIsPositive
<1>2. ASSUME NEW k \in 0 .. Looks
      PROVE  (k * (los - aos)) \div Looks \in 0 .. los - aos
  BY <1>1, PartOf
<1>3. LookedAt(aos, los) \subseteq aos .. los
  <2>1. ASSUME NEW k \in 0 .. Looks
        PROVE  aos + ((k * (los - aos)) \div Looks) \in aos .. los
    BY <1>2
  <2> QED BY <2>1 DEF LookedAt
<1>4. aos \in LookedAt(aos, los)
  <2>1. 0 \in 0 .. Looks /\ 0 * (los - aos) = 0
    BY <1>1
  <2>2. 0 \div Looks = 0
    BY <1>1
  <2>3. aos + ((0 * (los - aos)) \div Looks) = aos
    BY <2>1, <2>2
  <2> QED BY <2>1, <2>3 DEF LookedAt
<1> QED BY <1>3, <1>4

(* One look in every part of the window.                                     *)
LEMMA LookNear ==
  ASSUME NEW aos \in Int, NEW los \in Int, aos <= los, NEW t \in aos .. los
  PROVE  \E u \in LookedAt(aos, los) : u <= t /\ Looks * (t - u) <= los - aos
<1> DEFINE c == Looks
           d == los - aos
           q(k) == (k * d) \div c
           K == {k \in 0 .. c : aos + q(k) <= t}
           f == [k \in K |-> k]
<1>1. c \in Int /\ c > 0 /\ d \in Int /\ 0 <= d
  BY StepIsPositive
<1>2. \A k \in 0 .. c : /\ q(k) \in Int /\ c * q(k) <= k * d /\ k * d <= c * q(k) + (c - 1)
                        /\ k * d \in Int
  <2> SUFFICES ASSUME NEW k \in 0 .. c
               PROVE  /\ q(k) \in Int /\ c * q(k) <= k * d /\ k * d <= c * q(k) + (c - 1)
                      /\ k * d \in Int
    OBVIOUS
  <2>1. k * d \in Int
    BY <1>1
  <2> HIDE DEF c, d
  <2> QED BY <1>1, <2>1, QuotientBounds
<1>3. \A k \in 0 .. c : aos + q(k) \in LookedAt(aos, los)
  BY DEF LookedAt
<1>4. 0 \in K
  <2>1. 0 \in 0 .. c /\ 0 * d = 0
    BY <1>1
  <2>2. 0 \div c = 0
    BY <1>1
  <2> QED BY <2>1, <2>2
<1>5. PICK m \in K : Highest(f, K, m)
  <2>1. K \subseteq 0 .. c /\ K # {} /\ \A k \in K : f[k] \in Int
    BY <1>1, <1>4
  <2>2. 0 \in Int /\ c \in Int
    BY <1>1
  <2> HIDE DEF K, f, c
  <2> QED BY <2>1, <2>2, SomeIsHighest, Zenon
<1>6. m \in 0 .. c /\ aos + q(m) <= t /\ \A k \in K : k <= m
  BY <1>5 DEF Highest
<1> HIDE DEF q, K, f
<1>7. c * (t - (aos + q(m))) <= d
  <2>1. CASE m = c
    <3>1. c * q(m) <= c * d /\ c * d <= c * q(m) + (c - 1) /\ q(m) \in Int
      BY <1>2, <1>6, <2>1
    <3>2. d <= q(m)
      <4> SUFFICES ASSUME q(m) + 1 <= d PROVE FALSE
        BY <1>1, <3>1
      <4>1. c * (q(m) + 1) <= c * d
        BY <1>1, <3>1
      <4>2. c * (q(m) + 1) = c * q(m) + c
        BY <1>1, <3>1
      <4>3. c * d \in Int /\ c * q(m) \in Int
        BY <1>1, <3>1
      <4> HIDE DEF c, d
      <4> QED BY <1>1, <3>1, <4>1, <4>2, <4>3
    <3>3. t - (aos + q(m)) = 0
      BY <1>6, <3>1, <3>2
    <3> QED BY <1>1, <3>3
  <2>2. CASE m # c
    <3>1. m + 1 \in 0 .. c /\ m \in Int
      BY <1>1, <1>6, <2>2
    <3>2. m + 1 \notin K
      BY <1>6, <3>1
    <3>3. t < aos + q(m + 1)
      <4>1. q(m + 1) \in Int
        BY <1>2, <3>1
      <4> QED BY <3>1, <3>2, <4>1 DEF K
    <3>4. /\ q(m) \in Int /\ q(m + 1) \in Int /\ m * d \in Int /\ (m + 1) * d \in Int
          /\ c * q(m + 1) <= (m + 1) * d /\ m * d <= c * q(m) + (c - 1)
      BY <1>2, <1>6, <3>1
    <3>5. (m + 1) * d = m * d + d
      BY <1>1, <3>1
    <3>6. t - aos <= q(m + 1) - 1 /\ t - aos \in Int
      BY <3>3, <3>4
    <3>7. c * (t - aos) <= c * (q(m + 1) - 1)
      BY <1>1, <3>4, <3>6
    <3>8. /\ c * (q(m + 1) - 1) = c * q(m + 1) - c
          /\ c * (t - (aos + q(m))) = c * (t - aos) - c * q(m)
          /\ c * q(m + 1) \in Int /\ c * q(m) \in Int /\ c * (t - aos) \in Int
      BY <1>1, <3>4
    <3> HIDE DEF c, d
    <3> QED BY <1>1, <3>4, <3>5, <3>7, <3>8
  <2> QED BY <2>1, <2>2
<1> QED BY <1>3, <1>6, <1>7

(* build_window. *)
LEMMA WindowBuilt ==
  ASSUME NEW track, NEW aos \in Int, NEW los \in Int, aos <= los,
         \A t \in LookedAt(aos, los) : track[t] \in Int
  PROVE  LET w == BuildWindow(track, aos, los)
         IN  /\ w \in Window /\ w.aos = aos /\ w.los = los
             /\ aos <= w.peak /\ w.peak <= los /\ w.maxElevation = track[w.peak]
             /\ \A t \in LookedAt(aos, los) : track[t] <= w.maxElevation
<1> DEFINE S == LookedAt(aos, los)
           Top(t) == /\ \A u \in S : track[u] <= track[t]
                     /\ \A u \in S : u < t => track[u] < track[t]
           peak == CHOOSE t \in S : Top(t)
<1>0. S \subseteq aos .. los /\ S # {}
  BY LooksInside
<1>1. \E t \in S : Top(t)
  <2>1. PICK t \in S : Highest(track, S, t)
    <3> HIDE DEF S
    <3> QED BY <1>0, SomeIsHighest DEF S
  <2> QED BY <2>1 DEF Highest
<1>2. peak \in S /\ Top(peak)
  <2> HIDE DEF Top, S
  <2> QED BY <1>1
<1>3. BuildWindow(track, aos, los) = [aos |-> aos, los |-> los, peak |-> peak, maxElevation |-> track[peak]]
  BY DEF BuildWindow
<1> HIDE DEF peak
<1>4. peak \in aos .. los /\ track[peak] \in Int
  BY <1>0, <1>2
<1> QED BY <1>2, <1>3, <1>4 DEF Window

-----------------------------------------------------------------------------
(* Stretches and passes *)

(* A track answers at every instant that a scan looks at or near.            *)
IsTrack(track) == \A t \in Start - H .. end + H : track[t] \in Int \cup {Fault}

LEMMA SampleFacts ==
  ASSUME end \in Nat, NEW t
  PROVE  t \in Samples <=> t \in Int /\ OnGrid(t) /\ Start <= t /\ t <= end
BY StepIsPositive DEF Samples

LEMMA SampleIsAnswer ==
  ASSUME end \in Nat, NEW track, IsTrack(track), NEW t \in Int, Start <= t, t <= end
  PROVE  /\ track[t] \in Int \cup {Fault}
         /\ track[t] # Fault => track[t] \in Int /\ (Seen(track, t) <=> track[t] >= Mask)
<1>1. t \in Start - H .. end + H
  BY StepIsPositive
<1> QED BY <1>1 DEF IsTrack, Seen

LEMMA PassFacts ==
  ASSUME end \in Nat, NEW track, NEW p \in Passes(track)
  PROVE  /\ p[1] \in Samples /\ p[2] \in Samples /\ p = <<p[1], p[2]>>
         /\ p[1] \in Int /\ p[2] \in Int /\ Start <= p[1] /\ p[1] <= p[2]
         /\ p[2] + Step \in Samples /\ p[2] + Step \in Int /\ p[2] + Step <= end
         /\ Stretch(track, p[1], p[2])
         /\ Seen(track, p[2]) /\ ~Seen(track, p[2] + Step)
<1>1. /\ p[1] \in Samples /\ p[2] \in Samples /\ p = <<p[1], p[2]>>
      /\ Stretch(track, p[1], p[2])
      /\ p[2] + Step \in Samples /\ ~Seen(track, p[2] + Step)
  BY DEF Passes
<1>2. p[1] <= p[2]
  BY <1>1 DEF Stretch
<1>3. p[1] \in Int /\ p[2] \in Int /\ Start <= p[1] /\ p[2] + Step \in Int /\ p[2] + Step <= end
  BY <1>1, SampleFacts
<1>4. Seen(track, p[2])
  BY <1>1, <1>2, <1>3 DEF Stretch
<1> QED BY <1>1, <1>2, <1>3, <1>4

(* A stretch is told by its last sample.                                     *)
LEMMA NotBefore ==
  ASSUME end \in Nat, NEW track, NEW last, NEW a, NEW b,
         Stretch(track, a, last), Stretch(track, b, last)
  PROVE  a <= b
<1>0. /\ a \in Samples /\ b \in Samples /\ last \in Samples
      /\ a \in Int /\ b \in Int /\ last \in Int /\ OnGrid(a) /\ OnGrid(b)
      /\ Start <= a /\ Start <= b /\ a <= last /\ b <= last /\ last <= end
  BY SampleFacts DEF Stretch
<1> SUFFICES ASSUME b < a PROVE FALSE
  BY <1>0
<1>1. b + Step <= a
  BY <1>0, StepApart
<1>2. a - Step \in Int /\ OnGrid(a - Step) /\ b <= a - Step /\ a - Step <= last
  BY <1>0, <1>1, GridSteps, StepIsPositive
<1>3. a - Step \in Samples
  <2>1. Start <= a - Step /\ a - Step <= end
    BY <1>0, <1>2, StepIsPositive
  <2> QED BY <1>2, <2>1, SampleFacts
<1>4. Seen(track, a - Step)
  BY <1>2, <1>3 DEF Stretch
<1>5. a # Start
  BY <1>0
<1> QED BY <1>4, <1>5 DEF Stretch

LEMMA SameStretch ==
  ASSUME end \in Nat, NEW track, NEW last, NEW a, NEW b,
         Stretch(track, a, last), Stretch(track, b, last)
  PROVE  a = b
<1>1. a <= b /\ b <= a
  BY NotBefore
<1>2. a \in Int /\ b \in Int
  BY SampleFacts DEF Stretch
<1> QED BY <1>1, <1>2

(* Between a sample and the next there is no other.                          *)
LEMMA NoneBetween ==
  ASSUME end \in Nat, NEW t \in Int, OnGrid(t), NEW u \in Samples, u < t + Step
  PROVE  u <= t
<1>1. u \in Int /\ OnGrid(u)
  BY SampleFacts
<1>2. CASE t < u
  BY <1>1, <1>2, StepApart, StepIsPositive
<1> QED BY <1>1, <1>2

LEMMA StretchGrows ==
  ASSUME end \in Nat, NEW track, NEW a, NEW t \in Samples,
         Stretch(track, a, t - Step), Seen(track, t)
  PROVE  Stretch(track, a, t)
<1>0. /\ a \in Samples /\ t - Step \in Samples /\ a \in Int /\ t \in Int /\ a <= t - Step
      /\ OnGrid(t - Step)
  BY SampleFacts DEF Stretch
<1>1. a <= t
  BY <1>0, StepIsPositive
<1>2. ASSUME NEW u \in Samples, a <= u, u <= t PROVE Seen(track, u)
  <2>1. u \in Int
    BY SampleFacts
  <2>2. CASE u = t
    BY <2>2
  <2>3. CASE u < t
    <3>1. t - Step \in Int /\ u < (t - Step) + Step
      BY <1>0, <2>3, StepIsPositive
    <3>2. u <= t - Step
      BY <1>0, <3>1, NoneBetween
    <3> QED BY <1>2, <3>2 DEF Stretch
  <2> QED BY <1>0, <1>2, <2>1, <2>2, <2>3
<1> QED BY <1>0, <1>1, <1>2 DEF Stretch

-----------------------------------------------------------------------------
(* What the windows tell when the loop goes on *)

LEMMA FoundFacts ==
  ASSUME end \in Nat, NEW track, NEW windows, NEW t \in Int, Found(track, windows, t)
  PROVE  /\ windows \in Seq(Window)
         /\ \A i \in DOMAIN windows :
              /\ windows[i] \in Window
              /\ windows[i].aos \in Int /\ windows[i].los \in Int
              /\ Start <= windows[i].aos /\ windows[i].aos <= windows[i].los
              /\ windows[i].los < t /\ windows[i].los <= end
              /\ \E u \in Samples : u < t /\ windows[i].los <= u
<1> SUFFICES ASSUME NEW i \in DOMAIN windows
             PROVE  /\ windows[i] \in Window
                    /\ windows[i].aos \in Int /\ windows[i].los \in Int
                    /\ Start <= windows[i].aos /\ windows[i].aos <= windows[i].los
                    /\ windows[i].los < t /\ windows[i].los <= end
                    /\ \E u \in Samples : u < t /\ windows[i].los <= u
  BY DEF Found
<1>1. windows[i] \in Window
  BY DEF Found
<1>2. windows[i].aos \in Int /\ windows[i].los \in Int
  BY <1>1 DEF Window
<1>3. PICK p \in Passes(track) : p[2] + Step < t /\ Around(windows[i], p)
  BY DEF Found
<1>4. p[2] + Step \in Samples /\ p[2] + Step \in Int /\ p[2] + Step <= end
  BY PassFacts
<1>5. /\ windows[i].los <= p[2] + Step /\ Start <= windows[i].aos
  BY <1>3 DEF Around, Opens
<1>6. windows[i].aos <= windows[i].los
  BY DEF Found, InOrder
<1> QED BY <1>1, <1>2, <1>3, <1>4, <1>5, <1>6, StepIsPositive

(* If a pass ends at sample t and no window is made of it there is a reason. *)
LEMMA FoundWithout ==
  ASSUME end \in Nat, NEW track, NEW windows, NEW t \in Int, OnGrid(t),
         Found(track, windows, t),
         \A p \in Passes(track) : p[2] + Step = t => Kept(track, windows, p)
  PROVE  Found(track, windows, t + Step)
<1>1. ASSUME NEW p \in Passes(track), p[2] + Step < t + Step
      PROVE  p[2] + Step < t \/ p[2] + Step = t
  <2>1. p[2] + Step \in Samples /\ p[2] + Step \in Int
    BY PassFacts
  <2>2. p[2] + Step <= t
    BY <1>1, <2>1, NoneBetween
  <2> QED BY <2>1, <2>2
<1>2. ASSUME NEW p \in Passes(track), p[2] + Step < t PROVE p[2] + Step < t + Step
  <2>1. p[2] + Step \in Int
    BY PassFacts
  <2> QED BY <1>2, <2>1, StepIsPositive
<1>3. \A p \in Passes(track) : p[2] + Step < t + Step => Kept(track, windows, p)
  BY <1>1 DEF Found
<1> QED BY <1>2, <1>3 DEF Found

(* Or a window is made of it.                                                *)
LEMMA FoundWith ==
  ASSUME end \in Nat, NEW track, NEW windows, NEW t \in Int, OnGrid(t),
         Found(track, windows, t),
         NEW w \in Window, NEW q \in Passes(track), q[2] + Step = t, Around(w, q),
         w.aos <= w.los,
         \A i \in DOMAIN windows : windows[i].los <= w.aos /\ windows[i].los < w.los,
         PeakIsHighest(track, <<w>>)
  PROVE  Found(track, Append(windows, w), t + Step)
<1> DEFINE more == Append(windows, w)
           n == Len(windows)
<1>0. windows \in Seq(Window)
  BY DEF Found
<1>1. /\ n \in Nat /\ more \in Seq(Window) /\ DOMAIN more = 1 .. n + 1
      /\ DOMAIN windows = 1 .. n
      /\ \A i \in DOMAIN windows : more[i] = windows[i]
      /\ more[n + 1] = w
      /\ \A i \in DOMAIN more : i \in DOMAIN windows \/ i = n + 1
      /\ \A i \in DOMAIN windows : i \in DOMAIN more /\ i < n + 1
  BY <1>0
<1> HIDE DEF more
<1>2. ASSUME NEW i \in DOMAIN more
      PROVE  \E p \in Passes(track) : p[2] + Step < t + Step /\ Around(more[i], p)
  <2>1. CASE i = n + 1
    <3>1. q[2] + Step < t + Step
      BY StepIsPositive
    <3> QED BY <1>1, <2>1, <3>1
  <2>2. CASE i \in DOMAIN windows
    <3>1. PICK p \in Passes(track) : p[2] + Step < t /\ Around(windows[i], p)
      BY <2>2 DEF Found
    <3>2. p[2] + Step \in Int
      BY PassFacts
    <3>3. p[2] + Step < t + Step
      BY <3>1, <3>2, StepIsPositive
    <3> QED BY <1>1, <2>2, <3>1, <3>3
  <2> QED BY <1>1, <2>1, <2>2
<1>3. ASSUME NEW p \in Passes(track), p[2] + Step < t + Step
      PROVE  Kept(track, more, p)
  <2>1. p[2] + Step \in Samples /\ p[2] + Step \in Int
    BY PassFacts
  <2>2. p[2] + Step <= t
    BY <1>3, <2>1, NoneBetween
  <2>3. CASE p[2] + Step < t
    <3>1. Kept(track, windows, p)
      BY <2>3 DEF Found
    <3> QED BY <1>1, <3>1 DEF Kept
  <2>4. CASE p[2] + Step = t
    <3>1. p[2] = q[2]
      <4>1. p[2] \in Int /\ q[2] \in Int
        BY PassFacts
      <4> QED BY <2>4, <4>1, StepIsPositive
    <3>2. p[1] = q[1]
      <4>1. Stretch(track, p[1], p[2]) /\ Stretch(track, q[1], p[2])
        BY <3>1, PassFacts
      <4> QED BY <4>1, SameStretch
    <3>3. p = q
      BY <3>1, <3>2, PassFacts
    <3>4. n + 1 \in DOMAIN more /\ Around(more[n + 1], p)
      BY <1>1, <3>3
    <3> QED BY <3>4 DEF Kept
  <2> QED BY <2>1, <2>2, <2>3, <2>4
<1>4. InOrder(more)
  <2>1. InOrder(windows)
    BY DEF Found
  <2>2. \A i \in DOMAIN more : more[i].aos <= more[i].los
    BY <1>1, <2>1 DEF InOrder
  <2>3. ASSUME NEW i \in DOMAIN more, NEW j \in DOMAIN more, i < j
        PROVE  more[i].los <= more[j].aos
    <3>1. i \in DOMAIN windows
      BY <1>1, <2>3
    <3>2. CASE j = n + 1
      BY <1>1, <3>1, <3>2
    <3>3. CASE j \in DOMAIN windows
      BY <1>1, <2>1, <2>3, <3>1, <3>3 DEF InOrder
    <3> QED BY <1>1, <3>2, <3>3
  <2> QED BY <2>2, <2>3 DEF InOrder
<1>5. ASSUME NEW i \in DOMAIN more, NEW j \in DOMAIN more, i < j
      PROVE  more[i].los < more[j].los
  <2>1. i \in DOMAIN windows
    BY <1>1, <1>5
  <2>2. CASE j = n + 1
    BY <1>1, <2>1, <2>2
  <2>3. CASE j \in DOMAIN windows
    BY <1>1, <1>5, <2>1, <2>3 DEF Found
  <2> QED BY <1>1, <2>2, <2>3
<1>6. PeakIsHighest(track, more)
  <2>1. PeakIsHighest(track, windows)
    BY DEF Found
  <2>2. ASSUME NEW i \in DOMAIN more
        PROVE  /\ more[i].aos <= more[i].peak /\ more[i].peak <= more[i].los
               /\ more[i].maxElevation = track[more[i].peak]
               /\ \A v \in more[i].aos .. more[i].los : \E u \in more[i].aos .. v :
                    /\ Looks * (v - u) <= more[i].los - more[i].aos
                    /\ track[u] # Fault /\ track[u] <= more[i].maxElevation
    <3>1. CASE i \in DOMAIN windows
      BY <1>1, <2>1, <3>1 DEF PeakIsHighest
    <3>2. CASE i = n + 1
      <4>1. 1 \in DOMAIN <<w>> /\ <<w>>[1] = w
        OBVIOUS
      <4> QED BY <1>1, <3>2, <4>1 DEF PeakIsHighest
    <3> QED BY <1>1, <3>1, <3>2
  <2> QED BY <2>2 DEF PeakIsHighest
<1> QED BY <1>1, <1>2, <1>3, <1>4, <1>5, <1>6 DEF Found, more

-----------------------------------------------------------------------------
(* One call of visibility_windows *)

LEMMA ScanBegins ==
  ASSUME end \in Nat, NEW track
  PROVE  Scans(ScanStart, track)
<1>1. \A t \in Samples : ~(t < Start)
  BY SampleFacts, StepIsPositive
<1>2. \A p \in Passes(track) : ~(p[2] + Step < Start)
  BY <1>1, PassFacts
<1>3. <<>> \in Seq(Window) /\ DOMAIN <<>> = {}
  OBVIOUS
<1>4. Found(track, <<>>, Start)
  BY <1>2, <1>3 DEF Found, InOrder, PeakIsHighest
<1>5. OnGrid(Start) /\ Start \in Int /\ NoAos \in Int /\ Lowest \in Int
  BY StartOnGrid, StepIsPositive DEF NoAos, Lowest
<1> QED BY <1>1, <1>3, <1>4, <1>5 DEF Scans, ScanStart, Remembers, UnderWay

(* A turn that looks at a sample, field by field.                            *)
LEMMA TurnFields ==
  ASSUME NEW s, NEW track, end \in Nat, Scans(s, track), s.ended = "no",
         ~(s.t > end), track[s.t] # Fault
  PROVE  LET s1 == ScanStep(s, track, end)
             elev == track[s.t]
             visible == elev >= Mask
             crossing == Refine(track, s.prevT, s.t, s.prevElev, elev)
             rises == visible /\ ~s.prevVisible
             sets == ~visible /\ s.prevVisible /\ s.openAos # NoAos
         IN  /\ s1.t = s.t + Step /\ s1.prevT = s.t
             /\ s1.prevVisible = visible /\ s1.prevElev = elev /\ s1.ended = "no"
             /\ s1.openAos = IF rises THEN crossing ELSE IF sets THEN NoAos ELSE s.openAos
             /\ s1.windows = IF sets /\ CanBuild(track, s.openAos, crossing)
                             THEN Append(s.windows, BuildWindow(track, s.openAos, crossing))
                             ELSE s.windows
             /\ s1 = [t |-> s1.t, prevT |-> s1.prevT, prevVisible |-> s1.prevVisible,
                      prevElev |-> s1.prevElev, openAos |-> s1.openAos,
                      windows |-> s1.windows, ended |-> s1.ended]
BY DEF ScanStep, Scans

(* What is known of the sample looked at.                                    *)
LEMMA SampleLookedAt ==
  ASSUME NEW s, NEW track, end \in Nat, IsTrack(track), Scans(s, track), s.ended = "no",
         ~(s.t > end), track[s.t] # Fault
  PROVE  /\ s.t \in Samples /\ s.t \in Int /\ OnGrid(s.t) /\ Start <= s.t /\ s.t <= end
         /\ track[s.t] \in Int /\ (Seen(track, s.t) <=> track[s.t] >= Mask)
         /\ s.prevT \in Int /\ Start <= s.prevT /\ s.prevT <= s.t /\ s.t - Step <= s.prevT
         /\ s.prevElev \in Int /\ s.prevVisible \in BOOLEAN
         /\ s.windows \in Seq(Window)
         /\ Remembers(s, track) /\ UnderWay(s, track) /\ Found(track, s.windows, s.t)
         /\ s.prevVisible => /\ s.prevT = s.t - Step /\ s.prevT \in Samples
                             /\ s.prevElev >= Mask
         /\ ~s.prevVisible => s.t = Start \/ s.prevElev < Mask
         /\ \A u \in Samples : u < s.t + Step => track[u] # Fault
         /\ OnGrid(s.t + Step) /\ s.t + Step \in Int /\ s.t + Step # Start
         /\ Start <= s.t + Step /\ (s.t + Step) - Step = s.t
<1>1. /\ s.t \in Int /\ OnGrid(s.t) /\ Start <= s.t /\ s.t <= end
      /\ s.prevT \in Int /\ s.prevElev \in Int /\ s.prevVisible \in BOOLEAN
      /\ s.windows \in Seq(Window)
      /\ Remembers(s, track) /\ UnderWay(s, track) /\ Found(track, s.windows, s.t)
      /\ \A u \in Samples : u < s.t => track[u] # Fault
  BY DEF Scans
<1>2. s.t \in Samples
  BY <1>1, SampleFacts
<1>3. track[s.t] \in Int /\ (Seen(track, s.t) <=> track[s.t] >= Mask)
  BY <1>1, SampleIsAnswer
<1>4. /\ Start <= s.prevT /\ s.prevT <= s.t /\ s.t - Step <= s.prevT
      /\ s.prevVisible => /\ s.prevT = s.t - Step /\ s.prevT \in Samples
                          /\ s.prevElev >= Mask
      /\ ~s.prevVisible => s.t = Start \/ s.prevElev < Mask
  <2>1. CASE s.t = Start
    BY <1>1, <2>1, StepIsPositive DEF Remembers
  <2>2. CASE s.t # Start
    <3>1. /\ s.prevT = s.t - Step /\ s.prevT \in Samples
          /\ s.prevElev = track[s.prevT] /\ s.prevVisible = Seen(track, s.prevT)
      BY <1>1, <2>2 DEF Remembers
    <3>2. Start <= s.prevT /\ s.prevT <= end /\ s.prevT < s.t
      BY <1>1, <3>1, SampleFacts, StepIsPositive
    <3>3. Seen(track, s.prevT) <=> track[s.prevT] >= Mask
      BY <1>1, <3>1, <3>2, SampleIsAnswer
    <3> QED BY <1>1, <3>1, <3>2, <3>3, StepIsPositive
  <2> QED BY <2>1, <2>2
<1>5. ASSUME NEW u \in Samples, u < s.t + Step PROVE track[u] # Fault
  <2>1. u \in Int /\ u <= s.t
    BY <1>1, <1>5, NoneBetween, SampleFacts
  <2> QED BY <1>1, <2>1
<1>6. OnGrid(s.t + Step) /\ s.t + Step \in Int
  BY <1>1, GridSteps
<1>7. s.t + Step # Start /\ Start <= s.t + Step /\ (s.t + Step) - Step = s.t
  BY <1>1, StepIsPositive
<1> QED BY <1>1, <1>2, <1>3, <1>4, <1>5, <1>6, <1>7

(* Where the track crosses the mask the window opens or closes between the   *)
(* sample before and this one.                                               *)
LEMMA CrossingFound ==
  ASSUME NEW s, NEW track, end \in Nat, IsTrack(track), Scans(s, track), s.ended = "no",
         ~(s.t > end), track[s.t] # Fault, Seen(track, s.t) # s.prevVisible
  PROVE  Refine(track, s.prevT, s.t, s.prevElev, track[s.t]) \in s.prevT .. s.t
<1>1. /\ s.t \in Int /\ s.prevT \in Int /\ s.prevT <= s.t /\ Start <= s.prevT /\ s.t <= end
      /\ track[s.t] \in Int /\ s.prevElev \in Int /\ s.prevVisible \in BOOLEAN
      /\ Seen(track, s.t) <=> track[s.t] >= Mask
      /\ s.prevVisible => s.prevElev >= Mask
      /\ ~s.prevVisible => s.t = Start \/ s.prevElev < Mask
  BY SampleLookedAt
<1>2. Seen(track, s.t) \in BOOLEAN
  BY DEF Seen
<1>3. \/ s.prevT = s.t
      \/ s.prevElev < Mask /\ Mask <= track[s.t]
      \/ track[s.t] < Mask /\ Mask <= s.prevElev
  <2>1. CASE s.prevVisible
    <3>1. ~Seen(track, s.t)
      BY <1>2, <2>1
    <3> QED BY <1>1, <2>1, <3>1, StepIsPositive
  <2>2. CASE ~s.prevVisible
    <3>1. CASE s.t = Start
      BY <1>1, <3>1
    <3>2. CASE s.prevElev < Mask
      BY <1>1, <1>2, <2>2, <3>2, StepIsPositive
    <3> QED BY <1>1, <2>2, <3>1, <3>2
  <2> QED BY <2>1, <2>2
<1>4. \A t \in s.prevT - H .. s.t + H : track[t] \in Int \cup {Fault}
  <2>1. \A t \in s.prevT - H .. s.t + H : t \in Start - H .. end + H
    BY <1>1, StepIsPositive
  <2> QED BY <2>1 DEF IsTrack
<1> QED BY <1>1, <1>3, <1>4, RefineBetween

(* A turn that closes a pass. *)
LEMMA TurnSets ==
  ASSUME NEW s, NEW track, end \in Nat, IsTrack(track), Scans(s, track), s.ended = "no",
         ~(s.t > end), track[s.t] # Fault, s.prevVisible, ~Seen(track, s.t)
  PROVE  LET s1 == ScanStep(s, track, end)
         IN  s1.openAos = NoAos /\ Found(track, s1.windows, s.t + Step)
<1> DEFINE s1 == ScanStep(s, track, end)
           crossing == Refine(track, s.prevT, s.t, s.prevElev, track[s.t])
           w == BuildWindow(track, s.openAos, crossing)
<1>1. /\ s.t \in Samples /\ s.t \in Int /\ OnGrid(s.t) /\ s.t <= end
      /\ track[s.t] \in Int /\ ~(track[s.t] >= Mask)
      /\ s.prevT = s.t - Step /\ s.prevT \in Samples /\ s.prevT \in Int
      /\ Found(track, s.windows, s.t) /\ UnderWay(s, track)
  BY SampleLookedAt
<1>2. PICK first \in Samples :
         /\ Stretch(track, first, s.prevT) /\ Opens(s.openAos, first)
         /\ \A i \in DOMAIN s.windows :
              s.windows[i].los < first /\ s.windows[i].los <= s.openAos
  BY <1>1 DEF UnderWay
<1>3. s.openAos \in Int
  BY DEF Scans
<1>4. /\ first \in Int /\ first <= s.prevT /\ Seen(track, first)
      /\ Start <= s.openAos /\ s.openAos <= first /\ first - Step <= s.openAos
      /\ s.openAos # NoAos
  <2>1. first \in Int /\ first <= s.prevT
    BY <1>2, SampleFacts DEF Stretch
  <2>2. Seen(track, first)
    BY <1>2, <2>1 DEF Stretch
  <2>3. Start <= s.openAos /\ s.openAos <= first /\ first - Step <= s.openAos
    BY <1>2 DEF Opens
  <2>4. s.openAos # NoAos
    BY <1>3, <2>3, StepIsPositive DEF NoAos
  <2> QED BY <2>1, <2>2, <2>3, <2>4
<1>5. crossing \in s.prevT .. s.t
  <2>1. Seen(track, s.t) # s.prevVisible
    OBVIOUS
  <2> QED BY <2>1, CrossingFound
<1>6. /\ s1.openAos = NoAos
      /\ s1.windows = IF CanBuild(track, s.openAos, crossing)
                      THEN Append(s.windows, w) ELSE s.windows
  BY <1>1, <1>4, TurnFields
<1> DEFINE q == <<first, s.prevT>>
<1>7. q \in Passes(track) /\ q[1] = first /\ q[2] = s.prevT /\ q[2] + Step = s.t
  <2>1. s.prevT + Step = s.t
    BY <1>1, StepIsPositive
  <2> QED BY <1>1, <1>2, <2>1 DEF Passes
<1> HIDE DEF crossing, w, q, s1
<1>8. CASE CanBuild(track, s.openAos, crossing)
  <2>1. /\ crossing \in Int /\ s.prevT <= crossing /\ crossing <= s.t
        /\ s.openAos <= crossing /\ first <= crossing /\ crossing <= end
    BY <1>1, <1>3, <1>4, <1>5
  <2>2. /\ LookedAt(s.openAos, crossing) \subseteq s.openAos .. crossing
        /\ \A t \in LookedAt(s.openAos, crossing) : track[t] \in Int /\ track[t] # Fault
    <3>1. LookedAt(s.openAos, crossing) \subseteq s.openAos .. crossing
      BY <1>3, <2>1, LooksInside
    <3>2. ASSUME NEW t \in LookedAt(s.openAos, crossing)
          PROVE  track[t] \in Int /\ track[t] # Fault
      <4>1. t \in Int /\ Start <= t /\ t <= end
        BY <1>3, <1>4, <2>1, <3>1, StepIsPositive
      <4>2. track[t] # Fault
        BY <1>8 DEF CanBuild
      <4> QED BY <4>1, <4>2, SampleIsAnswer
    <3> QED BY <3>1, <3>2
  <2>3. /\ w \in Window /\ w.aos = s.openAos /\ w.los = crossing
        /\ s.openAos <= w.peak /\ w.peak <= crossing /\ w.maxElevation = track[w.peak]
        /\ \A t \in LookedAt(s.openAos, crossing) : track[t] <= w.maxElevation
    BY <1>3, <2>1, <2>2, WindowBuilt DEF w
  <2>8. PeakIsHighest(track, <<w>>)
    <3>1. ASSUME NEW t \in w.aos .. w.los
          PROVE  \E u \in w.aos .. t :
                   /\ Looks * (t - u) <= w.los - w.aos
                   /\ track[u] # Fault /\ track[u] <= w.maxElevation
      <4>1. t \in s.openAos .. crossing
        BY <2>3
      <4>2. PICK u \in LookedAt(s.openAos, crossing) :
              u <= t /\ Looks * (t - u) <= crossing - s.openAos
        BY <1>3, <2>1, <4>1, LookNear
      <4>3. u \in s.openAos .. crossing
        BY <2>2
      <4>4. u \in w.aos .. t
        BY <1>3, <2>1, <2>3, <4>1, <4>2, <4>3
      <4> QED BY <2>2, <2>3, <4>2, <4>4
    <3>2. \A i \in DOMAIN <<w>> : <<w>>[i] = w
      OBVIOUS
    <3> QED BY <2>3, <3>1, <3>2 DEF PeakIsHighest
  <2>9. Around(w, q)
    BY <1>1, <1>2, <1>7, <2>1, <2>3 DEF Around
  <2>10. ASSUME NEW i \in DOMAIN s.windows
         PROVE  s.windows[i].los <= w.aos /\ s.windows[i].los < w.los
    <3>1. s.windows[i].los \in Int
      BY <1>1, FoundFacts
    <3> QED BY <1>2, <1>4, <2>1, <2>3, <3>1
  <2>11. w.aos <= w.los
    BY <2>1, <2>3
  <2>12. Found(track, Append(s.windows, w), s.t + Step)
    BY <1>1, <1>7, <2>3, <2>8, <2>9, <2>10, <2>11, FoundWith
  <2> QED BY <1>6, <1>8, <2>12 DEF s1
<1>9. CASE ~CanBuild(track, s.openAos, crossing)
  <2>1. PICK t \in s.openAos .. crossing : track[t] = Fault
    <3>1. s.openAos <= crossing /\ crossing \in Int
      BY <1>1, <1>3, <1>4, <1>5
    <3>2. LookedAt(s.openAos, crossing) \subseteq s.openAos .. crossing
      BY <1>3, <3>1, LooksInside
    <3> QED BY <1>9, <3>2 DEF CanBuild
  <2>2. ASSUME NEW p \in Passes(track), p[2] + Step = s.t
        PROVE  Kept(track, s.windows, p)
    <3>1. p[2] \in Int /\ p[1] \in Int /\ Stretch(track, p[1], p[2])
      BY PassFacts
    <3>2. p[2] = s.prevT
      BY <1>1, <2>2, <3>1, StepIsPositive
    <3>3. p[1] = first
      BY <1>2, <3>1, <3>2, SameStretch
    <3>4. t \in p[1] - Step .. p[2] + Step /\ t >= Start
      BY <1>1, <1>3, <1>4, <1>5, <2>2, <3>3, StepIsPositive
    <3> QED BY <2>1, <3>4 DEF Kept
  <2>3. Found(track, s.windows, s.t + Step)
    BY <1>1, <2>2, FoundWithout
  <2> QED BY <1>6, <1>9, <2>3 DEF s1
<1> QED BY <1>8, <1>9 DEF s1

(* A turn that opens one. *)
LEMMA TurnRises ==
  ASSUME NEW s, NEW track, end \in Nat, IsTrack(track), Scans(s, track), s.ended = "no",
         ~(s.t > end), track[s.t] # Fault, ~s.prevVisible, Seen(track, s.t)
  PROVE  LET s1 == ScanStep(s, track, end)
         IN  /\ s1.windows = s.windows /\ s1.openAos \in Int
             /\ Stretch(track, s.t, s.t) /\ Opens(s1.openAos, s.t)
             /\ \A i \in DOMAIN s.windows :
                  s.windows[i].los < s.t /\ s.windows[i].los <= s1.openAos
<1> DEFINE crossing == Refine(track, s.prevT, s.t, s.prevElev, track[s.t])
           s1 == ScanStep(s, track, end)
<1>1. /\ s.t \in Samples /\ s.t \in Int /\ OnGrid(s.t) /\ Start <= s.t /\ s.t <= end
      /\ track[s.t] \in Int /\ track[s.t] >= Mask
      /\ s.prevT \in Int /\ Start <= s.prevT /\ s.prevT <= s.t /\ s.t - Step <= s.prevT
      /\ Found(track, s.windows, s.t) /\ Remembers(s, track)
  BY SampleLookedAt
<1>2. crossing \in s.prevT .. s.t
  <2>1. Seen(track, s.t) # s.prevVisible
    OBVIOUS
  <2> QED BY <2>1, CrossingFound
<1>3. s1.openAos = crossing /\ s1.windows = s.windows
  BY <1>1, TurnFields
<1> HIDE DEF crossing, s1
<1>4. Opens(crossing, s.t) /\ crossing \in Int
  BY <1>1, <1>2, StepIsPositive DEF Opens
<1>5. Stretch(track, s.t, s.t)
  <2>1. ASSUME NEW u \in Samples, s.t <= u, u <= s.t PROVE u = s.t
    BY <1>1, <2>1, SampleFacts
  <2>2. s.t = Start \/ ~Seen(track, s.t - Step)
    BY <1>1 DEF Remembers
  <2> QED BY <1>1, <2>1, <2>2 DEF Stretch
<1>6. ASSUME NEW i \in DOMAIN s.windows
      PROVE  s.windows[i].los < s.t /\ s.windows[i].los <= crossing
  <2>1. s.windows[i].los \in Int /\ s.windows[i].los < s.t
    BY <1>1, FoundFacts
  <2>2. PICK u \in Samples : u < s.t /\ s.windows[i].los <= u
    BY <1>1, FoundFacts
  <2>3. u \in Int /\ OnGrid(u)
    BY SampleFacts
  <2>4. u + Step <= s.t
    BY <1>1, <2>2, <2>3, StepApart
  <2>5. s.windows[i].los <= s.t - Step
    BY <1>1, <2>1, <2>2, <2>3, <2>4, StepIsPositive
  <2> QED BY <1>1, <1>2, <2>1, <2>5, StepIsPositive
<1> QED BY <1>3, <1>4, <1>5, <1>6 DEF s1

(* One that does neither leaves the windows and the pass as they are. *)
LEMMA TurnLevel ==
  ASSUME NEW s, NEW track, end \in Nat, IsTrack(track), Scans(s, track), s.ended = "no",
         ~(s.t > end), track[s.t] # Fault, Seen(track, s.t) = s.prevVisible
  PROVE  LET s1 == ScanStep(s, track, end)
         IN  /\ s1.windows = s.windows /\ s1.openAos = s.openAos
             /\ Found(track, s.windows, s.t + Step)
<1> DEFINE s1 == ScanStep(s, track, end)
<1>1. /\ s.t \in Samples /\ s.t \in Int /\ OnGrid(s.t)
      /\ Seen(track, s.t) <=> track[s.t] >= Mask
      /\ s.prevVisible \in BOOLEAN
      /\ s.prevVisible <=> track[s.t] >= Mask
      /\ Found(track, s.windows, s.t) /\ Remembers(s, track)
  BY SampleLookedAt
<1>2. s1.windows = s.windows /\ s1.openAos = s.openAos
  BY <1>1, TurnFields
<1>3. ASSUME NEW p \in Passes(track), p[2] + Step = s.t PROVE FALSE
  <2>1. /\ p[2] \in Samples /\ p[2] \in Int /\ Start <= p[2]
        /\ Seen(track, p[2]) /\ ~Seen(track, p[2] + Step)
    BY PassFacts, SampleFacts
  <2>2. s.t # Start /\ p[2] = s.t - Step
    BY <1>1, <1>3, <2>1, StepIsPositive
  <2>3. s.prevVisible = Seen(track, p[2])
    BY <1>1, <2>2 DEF Remembers
  <2> QED BY <1>3, <2>1, <2>3
<1>4. Found(track, s.windows, s.t + Step)
  BY <1>1, <1>3, FoundWithout
<1> HIDE DEF s1
<1> QED BY <1>2, <1>4 DEF s1

LEMMA TurnScans ==
  ASSUME NEW s, NEW track, end \in Nat, IsTrack(track), Scans(s, track), s.ended = "no"
  PROVE  Scans(ScanStep(s, track, end), track)
<1> DEFINE s1 == ScanStep(s, track, end)
<1>1. CASE s.t > end
  <2>1. s1 = [s EXCEPT !.ended = "ok"]
    BY <1>1 DEF ScanStep
  <2>2. /\ s1.t = s.t /\ s1.prevT = s.prevT /\ s1.prevVisible = s.prevVisible
        /\ s1.prevElev = s.prevElev /\ s1.openAos = s.openAos
        /\ s1.windows = s.windows /\ s1.ended = "ok"
        /\ s1 \in [t : Int, prevT : Int, prevVisible : BOOLEAN, prevElev : Int,
                   openAos : Int, windows : Seq(Window), ended : {"no", "ok", "err"}]
    BY <2>1 DEF Scans
  <2> HIDE DEF s1
  <2>3. Remembers(s1, track) /\ UnderWay(s1, track)
    BY <2>2 DEF Scans, Remembers, UnderWay
  <2> QED BY <1>1, <2>2, <2>3 DEF Scans, s1
<1>2. CASE ~(s.t > end) /\ track[s.t] = Fault
  <2>1. s1 = [s EXCEPT !.ended = "err", !.windows = <<>>]
    BY <1>2 DEF ScanStep
  <2>2. /\ s1.windows = <<>> /\ s1.ended = "err"
        /\ s1 \in [t : Int, prevT : Int, prevVisible : BOOLEAN, prevElev : Int,
                   openAos : Int, windows : Seq(Window), ended : {"no", "ok", "err"}]
    <3>1. <<>> \in Seq(Window)
      OBVIOUS
    <3>2. s \in [t : Int, prevT : Int, prevVisible : BOOLEAN, prevElev : Int,
                 openAos : Int, windows : Seq(Window), ended : {"no", "ok", "err"}]
      BY DEF Scans
    <3> HIDE DEF s1
    <3> QED BY <2>1, <3>1, <3>2
  <2>3. s.t \in Samples
    BY <1>2, SampleFacts DEF Scans
  <2>4. ~Clear(track)
    BY <1>2, <2>3 DEF Clear
  <2> HIDE DEF s1
  <2> QED BY <2>2, <2>4 DEF Scans, s1
<1>3. CASE ~(s.t > end) /\ track[s.t] # Fault
  <2>1. /\ s.t \in Samples /\ s.t \in Int /\ track[s.t] \in Int
        /\ Seen(track, s.t) <=> track[s.t] >= Mask
        /\ s.prevVisible \in BOOLEAN /\ s.windows \in Seq(Window)
        /\ UnderWay(s, track) /\ Found(track, s.windows, s.t)
        /\ s.prevVisible => s.prevT = s.t - Step /\ s.prevT \in Samples
        /\ \A u \in Samples : u < s.t + Step => track[u] # Fault
        /\ OnGrid(s.t + Step) /\ s.t + Step \in Int /\ s.t + Step # Start
        /\ Start <= s.t + Step /\ (s.t + Step) - Step = s.t
    BY <1>3, SampleLookedAt
  <2>2. /\ s1.t = s.t + Step /\ s1.prevT = s.t
        /\ s1.prevVisible = (track[s.t] >= Mask) /\ s1.prevElev = track[s.t]
        /\ s1.ended = "no"
        /\ s1 = [t |-> s1.t, prevT |-> s1.prevT, prevVisible |-> s1.prevVisible,
                 prevElev |-> s1.prevElev, openAos |-> s1.openAos,
                 windows |-> s1.windows, ended |-> s1.ended]
    BY <1>3, TurnFields
  <2>3. s1.prevVisible = Seen(track, s.t)
    <3>1. Seen(track, s.t) \in BOOLEAN /\ (track[s.t] >= Mask) \in BOOLEAN
      BY DEF Seen
    <3> QED BY <2>1, <2>2, <3>1
  <2>4. Remembers(s1, track)
    <3> HIDE DEF s1
    <3> QED BY <2>1, <2>2, <2>3 DEF Remembers
  <2>5. /\ s1.openAos \in Int
        /\ UnderWay(s1, track) /\ Found(track, s1.windows, s.t + Step)
    <3>1. CASE s.prevVisible /\ ~Seen(track, s.t)
      <4>1. s1.openAos = NoAos /\ Found(track, s1.windows, s.t + Step)
        BY <1>3, <3>1, TurnSets
      <4> HIDE DEF s1
      <4> QED BY <2>3, <3>1, <4>1 DEF UnderWay, NoAos
    <3>2. CASE ~s.prevVisible /\ Seen(track, s.t)
      <4>1. /\ s1.windows = s.windows /\ s1.openAos \in Int
            /\ Stretch(track, s.t, s.t) /\ Opens(s1.openAos, s.t)
            /\ \A i \in DOMAIN s.windows :
                 s.windows[i].los < s.t /\ s.windows[i].los <= s1.openAos
        BY <1>3, <3>2, TurnRises
      <4> HIDE DEF s1
      <4>2. UnderWay(s1, track)
        BY <2>1, <2>2, <2>3, <3>2, <4>1 DEF UnderWay
      <4>3. ASSUME NEW p \in Passes(track), p[2] + Step = s.t PROVE FALSE
        BY <3>2, <4>3, PassFacts
      <4>4. Found(track, s.windows, s.t + Step)
        <5>1. OnGrid(s.t)
          BY DEF Scans
        <5> QED BY <2>1, <4>3, <5>1, FoundWithout
      <4> QED BY <4>1, <4>2, <4>4
    <3>3. CASE Seen(track, s.t) = s.prevVisible
      <4>1. /\ s1.windows = s.windows /\ s1.openAos = s.openAos
            /\ Found(track, s.windows, s.t + Step)
        BY <1>3, <3>3, TurnLevel
      <4>2. s.openAos \in Int
        BY DEF Scans
      <4> HIDE DEF s1
      <4>3. UnderWay(s1, track)
        <5>1. CASE s.prevVisible
          <6>1. PICK first \in Samples :
                  /\ Stretch(track, first, s.prevT) /\ Opens(s.openAos, first)
                  /\ \A i \in DOMAIN s.windows :
                       s.windows[i].los < first /\ s.windows[i].los <= s.openAos
            BY <2>1, <5>1 DEF UnderWay
          <6>2. Stretch(track, first, s.t - Step) /\ Seen(track, s.t)
            BY <2>1, <3>3, <5>1, <6>1
          <6>3. Stretch(track, first, s.t)
            BY <2>1, <6>2, StretchGrows
          <6> QED BY <2>2, <2>3, <4>1, <6>1, <6>2, <6>3 DEF UnderWay
        <5>2. CASE ~s.prevVisible
          BY <2>1, <2>3, <3>3, <4>1, <5>2 DEF UnderWay
        <5> QED BY <5>1, <5>2
      <4> QED BY <4>1, <4>2, <4>3
    <3>4. Seen(track, s.t) \in BOOLEAN
      BY DEF Seen
    <3> QED BY <2>1, <3>1, <3>2, <3>3, <3>4
  <2> HIDE DEF s1
  <2>6. s1.windows \in Seq(Window)
    BY <2>5 DEF Found
  <2>7. (track[s.t] >= Mask) \in BOOLEAN
    OBVIOUS
  <2>8. s1 \in [t : Int, prevT : Int, prevVisible : BOOLEAN, prevElev : Int,
                openAos : Int, windows : Seq(Window), ended : {"no", "ok", "err"}]
    BY <2>1, <2>2, <2>5, <2>6, <2>7
  <2> QED BY <2>1, <2>2, <2>4, <2>5, <2>8 DEF Scans, s1
<1> QED BY <1>1, <1>2, <1>3

(* What the caller gets.                                                     *)
LEMMA ScanAnswers ==
  ASSUME end \in Nat, NEW s, NEW track, Scans(s, track), s.ended = "ok"
  PROVE  /\ Clear(track) /\ Found(track, s.windows, end + 1)
         /\ EachWindowIsAPass(track, s.windows) /\ PassesAreKept(track, s.windows)
<1>1. /\ s.t \in Int /\ s.t > end /\ Found(track, s.windows, s.t)
      /\ \A t \in Samples : t < s.t => track[t] # Fault
  BY DEF Scans
<1>2. Clear(track)
  <2>1. \A t \in Samples : t < s.t
    BY <1>1, SampleFacts
  <2> QED BY <1>1, <2>1 DEF Clear
<1>3. \A p \in Passes(track) : p[2] + Step < s.t /\ p[2] + Step < end + 1
  BY <1>1, PassFacts
<1>4. Found(track, s.windows, end + 1)
  BY <1>1, <1>3 DEF Found
<1> QED BY <1>1, <1>2, <1>3, <1>4 DEF Found, EachWindowIsAPass, PassesAreKept

-----------------------------------------------------------------------------
(* The scan of one track after another *)

LEMMA SkyFacts ==
  ASSUME sky \in Skies, end \in Ends
  PROVE  /\ end \in Nat /\ Len(sky) \in Nat /\ DOMAIN sky = 1 .. Len(sky)
         /\ \A i \in DOMAIN sky : IsTrack(sky[i])
BY SkiesAssumption, StepIsPositive DEF IsTrack

(* What is said of a search does not change while it goes on.                *)
LEMMA SameSearch ==
  ASSUME end' = end
  PROVE  /\ Samples' = Samples
         /\ \A track : Clear(track)' <=> Clear(track)
         /\ \A track, windows, t : Found(track, windows, t)' <=> Found(track, windows, t)
         /\ \A s, track : Scans(s, track)' <=> Scans(s, track)
         /\ \A track, windows : Answered(track, windows)' <=> Answered(track, windows)
<1>1. Samples' = Samples
  BY DEF Samples
<1>2. \A track : Clear(track)' <=> Clear(track)
  BY <1>1 DEF Clear
<1>3. \A track, a, b : Stretch(track, a, b)' <=> Stretch(track, a, b)
  BY <1>1 DEF Stretch
<1>4. \A track : Passes(track)' = Passes(track)
  BY <1>1, <1>3 DEF Passes
<1>5. \A track, windows : PeakIsHighest(track, windows)' <=> PeakIsHighest(track, windows)
  BY DEF PeakIsHighest
<1>6. \A track, windows, t : Found(track, windows, t)' <=> Found(track, windows, t)
  BY <1>4, <1>5 DEF Found
<1>7. \A s, track : Remembers(s, track)' <=> Remembers(s, track)
  BY <1>1 DEF Remembers
<1>8. \A s, track : UnderWay(s, track)' <=> UnderWay(s, track)
  BY <1>1, <1>3 DEF UnderWay
<1>9. \A s, track : Scans(s, track)' <=> Scans(s, track)
  BY <1>1, <1>2, <1>6, <1>7, <1>8 DEF Scans
<1>10. \A track, windows : Answered(track, windows)' <=> Answered(track, windows)
  BY <1>2, <1>6 DEF Answered
<1> QED BY <1>1, <1>2, <1>6, <1>9, <1>10

LEMMA InitScanInv == SearchInit => ScanInv
<1> SUFFICES ASSUME SearchInit PROVE ScanInv
  OBVIOUS
<1>1. sky \in Skies /\ end \in Ends /\ seat = 1 /\ scan = ScanStart /\ found = <<>>
  BY DEF SearchInit
<1>2. end \in Nat /\ Len(sky) \in Nat
  BY <1>1, SkyFacts
<1>3. found \in Seq(Seq(Window)) /\ Len(found) = 0 /\ DOMAIN found = {}
  BY <1>1
<1>4. Scans(scan, sky[seat])
  BY <1>1, <1>2, ScanBegins
<1> QED BY <1>1, <1>2, <1>3, <1>4 DEF ScanInv

LEMMA TurnScanInv == ScanInv /\ ScanTurn => ScanInv'
<1> SUFFICES ASSUME ScanInv, ScanTurn PROVE ScanInv'
  OBVIOUS
<1>1. /\ sky \in Skies /\ end \in Ends /\ seat \in DOMAIN sky /\ scan.ended = "no"
      /\ Scans(scan, sky[seat])
      /\ scan' = ScanStep(scan, sky[seat], end)
      /\ sky' = sky /\ end' = end /\ seat' = seat /\ found' = found /\ phase' = phase
  BY DEF ScanInv, ScanTurn, Scanning, search
<1>2. end \in Nat /\ IsTrack(sky[seat])
  BY <1>1, SkyFacts
<1>3. Scans(scan', sky[seat])
  BY <1>1, <1>2, TurnScans
<1> QED BY <1>1, <1>3, SameSearch DEF ScanInv

LEMMA NextTrackScanInv ==
  ASSUME ScanInv, phase = "scan", seat \in DOMAIN sky, UNCHANGED <<search, phase>>,
         NEW windows \in Seq(Window), Answered(sky[seat], windows), GoOnWith(windows)
  PROVE  ScanInv'
<1>1. /\ sky \in Skies /\ end \in Ends /\ found \in Seq(Seq(Window))
      /\ Len(found) <= Len(sky) /\ seat = Len(found) + 1
      /\ \A i \in DOMAIN found : Answered(sky[i], found[i])
      /\ sky' = sky /\ end' = end /\ phase' = phase
      /\ found' = Append(found, windows) /\ seat' = seat + 1 /\ scan' = ScanStart
  BY DEF ScanInv, GoOnWith, search
<1>2. end \in Nat /\ Len(sky) \in Nat /\ DOMAIN sky = 1 .. Len(sky)
  BY <1>1, SkyFacts
<1>3. /\ found' \in Seq(Seq(Window)) /\ Len(found') = Len(found) + 1
      /\ \A i \in DOMAIN found' : (i \in DOMAIN found /\ found'[i] = found[i])
                                    \/ (i = seat /\ found'[i] = windows)
  BY <1>1
<1>4. \A i \in DOMAIN found' : Answered(sky[i], found'[i])
  BY <1>1, <1>3
<1>5. Len(found') <= Len(sky) /\ seat' = Len(found') + 1
  BY <1>1, <1>2, <1>3
<1>6. \A track : Scans(ScanStart, track)
  BY <1>2, ScanBegins
<1> QED BY <1>1, <1>3, <1>4, <1>5, <1>6, SameSearch DEF ScanInv

LEMMA OtherScanInv ==
  ASSUME ScanInv, UNCHANGED <<search, found>>,
         phase' # "scan" \/ UNCHANGED <<phase, seat, scan>>
  PROVE  ScanInv'
<1>1. sky' = sky /\ end' = end /\ found' = found
  BY DEF search
<1> QED BY <1>1, SameSearch DEF ScanInv

(* What a scan that is over is answered with.                                *)
LEMMA AnswerOfScan ==
  ASSUME ScanInv, Scanned
  PROVE  /\ sky \in Skies /\ end \in Ends /\ scan.windows \in Seq(Window)
         /\ scan.ended = "ok" => Clear(sky[seat]) /\ Answered(sky[seat], scan.windows)
         /\ scan.ended # "ok" => ~Clear(sky[seat]) /\ Answered(sky[seat], <<>>)
         /\ <<>> \in Seq(Window) /\ scan.ended \in {"ok", "err"}
<1>1. /\ sky \in Skies /\ end \in Ends /\ seat \in DOMAIN sky /\ scan.ended # "no"
      /\ Scans(scan, sky[seat])
  BY DEF ScanInv, Scanned
<1>2. end \in Nat
  BY <1>1, SkyFacts
<1>3. scan.windows \in Seq(Window) /\ scan.ended \in {"ok", "err"}
  BY <1>1 DEF Scans
<1>4. scan.ended = "ok" => Clear(sky[seat]) /\ Answered(sky[seat], scan.windows)
  BY <1>1, <1>2, ScanAnswers DEF Answered
<1>5. scan.ended # "ok" => ~Clear(sky[seat]) /\ Answered(sky[seat], <<>>)
  BY <1>1, <1>3 DEF Scans, Answered
<1>6. <<>> \in Seq(Window)
  OBVIOUS
<1> QED BY <1>1, <1>3, <1>4, <1>5, <1>6

LEMMA ScanInvSuffices == ScanInv => WindowsAreThePasses
<1> SUFFICES ASSUME ScanInv, phase = "scan", seat \in DOMAIN sky
             PROVE  LET track == sky[seat]
                    IN  /\ scan.ended = "ok" => /\ EachWindowIsAPass(track, scan.windows)
                                                /\ PassesAreKept(track, scan.windows)
                        /\ InOrder(scan.windows) /\ NotYetOver(scan.windows, scan.openAos)
                        /\ PeakIsHighest(track, scan.windows)
                        /\ scan.ended # "no" => (scan.ended = "ok" <=> Clear(track))
  BY DEF WindowsAreThePasses
<1>1. sky \in Skies /\ end \in Ends /\ Scans(scan, sky[seat])
  BY DEF ScanInv
<1>2. end \in Nat
  BY <1>1, SkyFacts
<1>3. CASE scan.ended = "err"
  <2>1. scan.windows = <<>> /\ ~Clear(sky[seat])
    BY <1>1, <1>3 DEF Scans
  <2>2. DOMAIN <<>> = {}
    OBVIOUS
  <2> QED BY <1>3, <2>1, <2>2 DEF InOrder, NotYetOver, PeakIsHighest
<1>4. CASE scan.ended # "err"
  <2>1. Found(sky[seat], scan.windows, scan.t) /\ UnderWay(scan, sky[seat])
    BY <1>1, <1>4 DEF Scans
  <2>2. InOrder(scan.windows) /\ PeakIsHighest(sky[seat], scan.windows)
    BY <2>1 DEF Found
  <2>3. NotYetOver(scan.windows, scan.openAos)
    BY <2>1 DEF UnderWay, NotYetOver
  <2>4. scan.ended = "ok" => /\ EachWindowIsAPass(sky[seat], scan.windows)
                             /\ PassesAreKept(sky[seat], scan.windows)
                             /\ Clear(sky[seat])
    BY <1>1, <1>2, ScanAnswers
  <2>5. scan.ended \in {"no", "ok"}
    BY <1>1, <1>4 DEF Scans
  <2> QED BY <2>2, <2>3, <2>4, <2>5
<1> QED BY <1>3, <1>4

-----------------------------------------------------------------------------
(* Choosing whom to hand over to *)

(* A window that a tool has, and the satellite or station it is of.          *)
LEMMA WindowFacts ==
  ASSUME ScanInv, NEW s \in DOMAIN found, NEW i \in DOMAIN found[s]
  PROVE  /\ s \in DOMAIN sky /\ Clear(sky[s]) /\ Found(sky[s], found[s], end + 1)
         /\ found[s] \in Seq(Window) /\ found[s][i] \in Window
         /\ found[s][i].aos \in Int /\ found[s][i].los \in Int
         /\ Start <= found[s][i].aos /\ found[s][i].aos <= found[s][i].los
         /\ found[s][i].los <= end
         /\ \A j \in DOMAIN found[s] : i < j => found[s][i].los < found[s][j].los
<1>1. /\ sky \in Skies /\ end \in Ends /\ found \in Seq(Seq(Window))
      /\ Len(found) <= Len(sky) /\ Answered(sky[s], found[s])
  BY DEF ScanInv
<1>2. end \in Nat /\ Len(sky) \in Nat /\ DOMAIN sky = 1 .. Len(sky)
  BY <1>1, SkyFacts
<1>3. s \in DOMAIN sky /\ found[s] \in Seq(Window)
  BY <1>1, <1>2
<1>4. found[s] # <<>>
  OBVIOUS
<1>5. Clear(sky[s]) /\ Found(sky[s], found[s], end + 1)
  BY <1>1, <1>4 DEF Answered
<1>6. /\ found[s][i] \in Window
      /\ found[s][i].aos \in Int /\ found[s][i].los \in Int
      /\ Start <= found[s][i].aos /\ found[s][i].aos <= found[s][i].los
      /\ found[s][i].los <= end
  <2>1. end + 1 \in Int
    BY <1>2
  <2> QED BY <1>2, <1>5, <2>1, FoundFacts
<1>7. \A j \in DOMAIN found[s] : i < j => found[s][i].los < found[s][j].los
  BY <1>5 DEF Found
<1> QED BY <1>3, <1>5, <1>6, <1>7

(* Two losses of one satellite are two instants.                             *)
LEMMA LossesDiffer ==
  ASSUME ScanInv, NEW s \in DOMAIN found, NEW i \in DOMAIN found[s], NEW j \in DOMAIN found[s],
         found[s][i].los = found[s][j].los
  PROVE  i = j
<1>1. /\ found[s] \in Seq(Window) /\ found[s][i].los \in Int /\ found[s][j].los \in Int
      /\ i < j => found[s][i].los < found[s][j].los
      /\ j < i => found[s][j].los < found[s][i].los
  BY WindowFacts
<1>2. i \in Int /\ j \in Int
  BY <1>1
<1> QED BY <1>1, <1>2

LEMMA BestIsHighest ==
  ASSUME ScanInv, NEW s, NEW t \in Int, Start <= t, t <= end, Candidates(s, t) # {}
  PROVE  LET S == Candidates(s, t)
             b == Best(S, t)
         IN  /\ b \in S /\ sky[b][t] \in Int /\ S \subseteq DOMAIN sky /\ b \in Nat
             /\ \A u \in S : sky[u][t] <= sky[b][t]
<1> DEFINE S == Candidates(s, t)
           f == [u \in S |-> sky[u][t]]
           Top(b) == /\ \A u \in S : sky[u][t] <= sky[b][t]
                     /\ \A u \in S : u < b => sky[u][t] < sky[b][t]
<1>1. /\ sky \in Skies /\ end \in Ends
  BY DEF ScanInv
<1>2. end \in Nat /\ Len(sky) \in Nat /\ DOMAIN sky = 1 .. Len(sky)
      /\ \A i \in DOMAIN sky : IsTrack(sky[i])
  BY <1>1, SkyFacts
<1>3. \A u \in S : u \in DOMAIN sky /\ sky[u][t] # Fault
  BY DEF Candidates, Sats
<1>4. \A u \in S : sky[u][t] \in Int
  BY <1>2, <1>3, SampleIsAnswer
<1>5. S \subseteq 1 .. Len(sky) /\ S # {} /\ \A u \in S : f[u] \in Int
  BY <1>2, <1>3, <1>4
<1>6. PICK b \in S : Highest(f, S, b)
  <2> HIDE DEF S, f
  <2>1. 1 \in Int /\ Len(sky) \in Int
    BY <1>2
  <2> QED BY <1>5, <2>1, SomeIsHighest, Zenon
<1>7. Top(b)
  BY <1>6 DEF Highest
<1>8. Best(S, t) \in S /\ Top(Best(S, t))
  <2>1. Best(S, t) = CHOOSE x \in S : Top(x)
    BY DEF Best
  <2> HIDE DEF S, Top
  <2> QED BY <1>6, <1>7, <2>1
<1>9. Best(S, t) \in Nat
  BY <1>2, <1>3, <1>8
<1> QED BY <1>3, <1>4, <1>8, <1>9

(* The entry for a loss of signal that somebody can take over.               *)
LEMMA HandoverFacts ==
  ASSUME ScanInv, NEW s \in DOMAIN found, NEW i \in DOMAIN found[s],
         Candidates(s, Los(s, i)) # {}
  PROVE  LET e == Handover(s, Los(s, i))
         IN  /\ e \in HandoffRecord /\ e.from = s /\ e.at = Los(s, i)
             /\ e.to \in Candidates(s, Los(s, i))
             /\ \A u \in Candidates(s, Los(s, i)) : sky[u][Los(s, i)] <= e.elevation
<1> DEFINE t == Los(s, i)
           b == Best(Candidates(s, t), t)
<1>1. t \in Int /\ Start <= t /\ t <= end
  <2>1. /\ found[s][i].los \in Int /\ found[s][i].los <= end
        /\ Start <= found[s][i].aos /\ found[s][i].aos <= found[s][i].los
        /\ found[s][i].aos \in Int
    BY WindowFacts
  <2> QED BY <2>1, StepIsPositive DEF Los
<1>2. s \in Nat
  <2>1. found \in Seq(Seq(Window))
    BY DEF ScanInv
  <2> QED BY <2>1
<1> HIDE DEF t
<1>3. /\ b \in Candidates(s, t) /\ sky[b][t] \in Int /\ b \in Nat
      /\ \A u \in Candidates(s, t) : sky[u][t] <= sky[b][t]
  <2>1. Candidates(s, t) # {}
    BY DEF t
  <2> QED BY <1>1, <2>1, BestIsHighest
<1>4. Handover(s, t) = [from |-> s, to |-> b, at |-> t, elevation |-> sky[b][t]]
  BY DEF Handover
<1> HIDE DEF b
<1> QED BY <1>1, <1>2, <1>3, <1>4 DEF t, HandoffRecord

-----------------------------------------------------------------------------
(* The stable sort *)

(* The same elements, each as often. *)
Rearranges(r, s) ==
  \E p \in [DOMAIN r -> DOMAIN s] :
    /\ \A k \in DOMAIN r : r[k] = s[p[k]]
    /\ \A j, k \in DOMAIN r : p[j] = p[k] => j = k
    /\ \A i \in DOMAIN s : \E k \in DOMAIN r : p[k] = i

LEMMA SortFacts ==
  ASSUME NEW S, NEW s \in Seq(S), \A i \in DOMAIN s : s[i].at \in Int
  PROVE  /\ StableByTime(s) \in Seq(S)
         /\ \A j, k \in DOMAIN StableByTime(s) :
              j < k => StableByTime(s)[j].at <= StableByTime(s)[k].at
         /\ Rearranges(StableByTime(s), s)
<1> DEFINE D == DOMAIN s
           n == Len(s)
           before(i, j) == s[i].at < s[j].at \/ (s[i].at = s[j].at /\ i < j)
           pred(i) == {j \in D : before(j, i)}
           rank(i) == Cardinality(pred(i)) + 1
           r == StableByTime(s)
           p == [k \in D |-> CHOOSE i \in D : rank(i) = k]
<1>1. n \in Nat /\ D = 1 .. n /\ \A i \in D : s[i] \in S /\ i \in Int
  OBVIOUS
<1>2. r = [k \in D |-> s[CHOOSE i \in D : rank(i) = k]]
  BY DEF StableByTime
<1>3. /\ \A i \in D : ~before(i, i)
      /\ \A i, j \in D : i = j \/ before(i, j) \/ before(j, i)
      /\ \A i, j, k \in D : before(i, j) /\ before(j, k) => before(i, k)
      /\ \A i, j \in D : before(i, j) => s[i].at <= s[j].at
  BY <1>1
<1>4. IsFiniteSet(D) /\ Cardinality(D) = n
  BY <1>1, FS_Interval
<1> HIDE DEF before, D, n
<1>5. ASSUME NEW i \in D
      PROVE  /\ IsFiniteSet(pred(i)) /\ Cardinality(pred(i)) \in Nat
             /\ rank(i) \in 1 .. n
  <2>1. pred(i) \in SUBSET D /\ pred(i) # D
    BY <1>3
  <2> HIDE DEF pred
  <2>2. IsFiniteSet(pred(i)) /\ Cardinality(pred(i)) <= n /\ Cardinality(pred(i)) # n
    BY <1>4, <2>1, FS_Subset
  <2>3. Cardinality(pred(i)) \in Nat
    BY <2>2, FS_CardinalityType
  <2> QED BY <1>1, <2>2, <2>3
<1>6. ASSUME NEW i \in D, NEW j \in D, before(i, j)
      PROVE  rank(i) < rank(j)
  <2>1. pred(i) \in SUBSET pred(j) /\ i \in pred(j) /\ i \notin pred(i)
    BY <1>3, <1>6
  <2>2. /\ IsFiniteSet(pred(i)) /\ Cardinality(pred(i)) \in Nat
        /\ IsFiniteSet(pred(j)) /\ Cardinality(pred(j)) \in Nat
    BY <1>5
  <2> HIDE DEF pred
  <2>3. Cardinality(pred(i)) <= Cardinality(pred(j)) /\ Cardinality(pred(i)) # Cardinality(pred(j))
    <3>1. pred(i) # pred(j)
      BY <2>1
    <3> QED BY <2>1, <2>2, <3>1, FS_Subset
  <2> QED BY <2>2, <2>3
<1> HIDE DEF pred
<1>7. \A i, j \in D : rank(i) = rank(j) => i = j
  <2> SUFFICES ASSUME NEW i \in D, NEW j \in D, rank(i) = rank(j), i # j PROVE FALSE
    OBVIOUS
  <2>1. rank(i) \in Int /\ rank(j) \in Int
    BY <1>5
  <2>2. rank(i) < rank(j) \/ rank(j) < rank(i)
    BY <1>3, <1>6
  <2> QED BY <2>1, <2>2
<1>8. \A k \in D : \E i \in D : rank(i) = k
  <2> DEFINE g == [i \in D |-> rank(i)]
  <2>1. g \in [D -> D]
    BY <1>1, <1>5
  <2>2. \A i, j \in D : g[i] = g[j] => i = j
    BY <1>7
  <2>3. \A i \in D : g[i] = rank(i)
    OBVIOUS
  <2> HIDE DEF g
  <2>4. g \in Injection(D, D)
    BY <2>1, <2>2 DEF Injection, IsInjective
  <2>5. g \in Surjection(D, D)
    BY <1>4, <2>4, FS_Injection
  <2>6. \A k \in D : \E i \in D : g[i] = k
    BY <2>5 DEF Surjection
  <2> QED BY <2>3, <2>6
<1>9. \A k \in D : p[k] \in D /\ rank(p[k]) = k
  <2> HIDE DEF rank
  <2> QED BY <1>8
<1>10. /\ p \in [D -> D] /\ \A k \in D : r[k] = s[p[k]]
       /\ r = [k \in D |-> r[k]] /\ DOMAIN r = D
  BY <1>2, <1>9
<1>11. \A j, k \in D : p[j] = p[k] => j = k
  <2> HIDE DEF p, rank
  <2> QED BY <1>9
<1>12. \A i \in D : \E k \in D : p[k] = i
  <2> SUFFICES ASSUME NEW i \in D PROVE \E k \in D : p[k] = i
    OBVIOUS
  <2>1. rank(i) \in D
    BY <1>1, <1>5
  <2>2. rank(p[rank(i)]) = rank(i) /\ p[rank(i)] \in D
    BY <1>9, <2>1
  <2> HIDE DEF p, rank
  <2> QED BY <1>7, <2>1, <2>2
<1>13. ASSUME NEW j \in D, NEW k \in D, j < k
       PROVE  r[j].at <= r[k].at
  <2>1. p[j] \in D /\ p[k] \in D /\ rank(p[j]) = j /\ rank(p[k]) = k
    BY <1>9
  <2> HIDE DEF p, r
  <2>2. ~before(p[k], p[j])
    <3> SUFFICES ASSUME before(p[k], p[j]) PROVE FALSE
      OBVIOUS
    <3>1. rank(p[k]) < rank(p[j])
      BY <1>6, <2>1
    <3> HIDE DEF rank
    <3>2. k < j /\ k \in Int /\ j \in Int
      BY <1>1, <2>1, <3>1
    <3> QED BY <1>13, <3>2
  <2>3. p[j] # p[k]
    <3>1. j \in Int /\ k \in Int
      BY <1>1
    <3> QED BY <1>13, <2>1, <3>1
  <2>4. s[p[j]].at <= s[p[k]].at
    BY <1>3, <2>1, <2>2, <2>3
  <2> QED BY <1>10, <2>4
<1>14. r \in Seq(S)
  <2> HIDE DEF r, p, rank
  <2>1. r \in [1 .. n -> S]
    BY <1>1, <1>9, <1>10
  <2> QED BY <1>1, <2>1, SeqDef
<1> HIDE DEF r, p
<1>15. Rearranges(r, s)
  BY <1>10, <1>11, <1>12 DEF Rearranges, D
<1> QED BY <1>10, <1>13, <1>14, <1>15 DEF D, r

-----------------------------------------------------------------------------
(* The plan, entry by entry *)

LEMMA SamePlanning ==
  ASSUME sky' = sky, found' = found
  PROVE  /\ Sats' = Sats
         /\ \A s, t : Candidates(s, t)' = Candidates(s, t)
         /\ \A s, t : Handover(s, t)' = Handover(s, t)
         /\ \A s, i : Los(s, i)' = Los(s, i)
<1>1. Sats' = Sats
  BY DEF Sats
<1>2. \A s, t : InWindow(s, t)' <=> InWindow(s, t)
  BY DEF InWindow
<1>3. \A s, t : Candidates(s, t)' = Candidates(s, t)
  BY <1>1, <1>2 DEF Candidates
<1>4. \A S, t : Best(S, t)' = Best(S, t)
  BY DEF Best
<1>5. \A s, t : Handover(s, t)' = Handover(s, t)
  BY <1>3, <1>4 DEF Handover
<1>6. \A s, i : Los(s, i)' = Los(s, i)
  BY DEF Los
<1> QED BY <1>1, <1>3, <1>5, <1>6

LEMMA InitPlanInv ==
  ASSUME PlanInit, phase \notin {"plan", "planned"}
  PROVE  PlanInv
<1>1. <<>> \in Seq(HandoffRecord) /\ 1 \in Nat
  OBVIOUS
<1> QED BY <1>1 DEF PlanInit, PlanInv

LEMMA IdlePlanInv ==
  ASSUME PlanInv, phase \notin {"plan", "planned"}, phase' \notin {"plan", "planned"},
         UNCHANGED planning
  PROVE  PlanInv'
BY DEF PlanInv, planning

LEMMA SamePlanInv ==
  ASSUME PlanInv, UNCHANGED <<search, phase, seat, found, planning>>
  PROVE  PlanInv'
<1>1. /\ sky' = sky /\ found' = found /\ phase' = phase /\ seat' = seat
      /\ next' = next /\ handoffs' = handoffs
  BY DEF search, planning
<1>2. \A s, i : Dealt(s, i)' <=> Dealt(s, i)
  BY <1>1 DEF Dealt
<1>3. EntriesAreHandovers => EntriesAreHandovers'
  BY <1>1, <1>2, SamePlanning DEF EntriesAreHandovers
<1>4. HandoversAreEntries => HandoversAreEntries'
  BY <1>1, <1>2, SamePlanning DEF HandoversAreEntries
<1>5. EntriesDiffer => EntriesDiffer'
  BY <1>1 DEF EntriesDiffer
<1> QED BY <1>1, <1>3, <1>4, <1>5 DEF PlanInv

LEMMA AllAreScanned ==
  ASSUME ScanInv, AllScanned
  PROVE  Len(found) = Len(sky) /\ Len(sky) \in Nat
<1>1. /\ sky \in Skies /\ end \in Ends /\ found \in Seq(Seq(Window))
      /\ Len(found) <= Len(sky) /\ seat = Len(found) + 1 /\ seat \notin DOMAIN sky
  BY DEF ScanInv, AllScanned
<1>2. Len(sky) \in Nat /\ DOMAIN sky = 1 .. Len(sky)
  BY <1>1, SkyFacts
<1> QED BY <1>1, <1>2

LEMMA StartPlanInv ==
  ASSUME ScanInv, PlanInv, StartPlanning
  PROVE  PlanInv'
<1>1. /\ sky' = sky /\ found' = found /\ phase' = "plan" /\ seat' = 1
      /\ next' = next /\ handoffs' = handoffs /\ phase = "scan"
  BY DEF StartPlanning, AllScanned, search, planning
<1>2. handoffs = <<>> /\ next = 1 /\ handoffs \in Seq(HandoffRecord)
  BY <1>1 DEF PlanInv
<1>3. Len(found) = Len(sky) /\ Len(sky) \in Nat
  BY AllAreScanned DEF StartPlanning
<1>4. ASSUME NEW s \in Sats, NEW i \in DOMAIN found[s], Dealt(s, i)' PROVE FALSE
  <2>1. sky \in Skies /\ end \in Ends /\ found \in Seq(Seq(Window))
    BY DEF ScanInv
  <2>2. DOMAIN sky = 1 .. Len(sky) /\ DOMAIN found = 1 .. Len(sky)
    BY <1>3, <2>1, SkyFacts
  <2>3. s \in Nat /\ s >= 1 /\ found[s] \in Seq(Window)
    BY <1>3, <2>1, <2>2 DEF Sats
  <2>4. i \in Nat /\ i >= 1
    BY <2>3
  <2> QED BY <1>1, <1>2, <1>4, <2>3, <2>4 DEF Dealt
<1>5. HandoversAreEntries'
  BY <1>1, <1>4, SamePlanning DEF HandoversAreEntries
<1>6. EntriesAreHandovers' /\ EntriesDiffer'
  <2>1. DOMAIN handoffs' = {}
    BY <1>1, <1>2
  <2> QED BY <2>1 DEF EntriesAreHandovers, EntriesDiffer
<1> QED BY <1>1, <1>2, <1>3, <1>5, <1>6 DEF PlanInv

LEMMA PlanFacts ==
  ASSUME ScanInv, PlanInv, phase \in {"plan", "planned"}
  PROVE  /\ sky \in Skies /\ end \in Ends /\ end \in Nat
         /\ Len(sky) \in Nat /\ Sats = 1 .. Len(sky) /\ DOMAIN found = Sats
         /\ \A s \in Sats : found[s] \in Seq(Window)
         /\ handoffs \in Seq(HandoffRecord) /\ next \in Nat \ {0}
         /\ seat \in 1 .. Len(sky) + 1
         /\ EntriesAreHandovers /\ HandoversAreEntries /\ EntriesDiffer
<1>1. /\ sky \in Skies /\ end \in Ends /\ found \in Seq(Seq(Window))
  BY DEF ScanInv
<1>2. end \in Nat /\ Len(sky) \in Nat /\ DOMAIN sky = 1 .. Len(sky)
  BY <1>1, SkyFacts
<1>3. Len(found) = Len(sky)
  BY DEF PlanInv
<1>4. DOMAIN found = 1 .. Len(sky) /\ \A s \in DOMAIN found : found[s] \in Seq(Window)
  BY <1>1, <1>3
<1> QED BY <1>1, <1>2, <1>4 DEF PlanInv, Sats

(* Considering a loss of signal. *)
LEMMA ConsiderPlanInv ==
  ASSUME ScanInv, PlanInv, ConsiderLos
  PROVE  PlanInv'
<1> DEFINE los == found[seat][next].los
           e == Handover(seat, los)
<1>1. /\ phase = "plan" /\ seat \in Sats /\ next \in DOMAIN found[seat]
      /\ sky' = sky /\ found' = found /\ phase' = phase /\ seat' = seat
      /\ next' = next + 1
      /\ handoffs' = IF Candidates(seat, los) = {} THEN handoffs
                     ELSE Append(handoffs, Handover(seat, los))
  BY DEF ConsiderLos, search, scanning
<1>2. /\ Len(sky) \in Nat /\ Sats = 1 .. Len(sky) /\ DOMAIN found = Sats
      /\ \A s \in Sats : found[s] \in Seq(Window)
      /\ handoffs \in Seq(HandoffRecord) /\ next \in Nat \ {0}
      /\ seat \in 1 .. Len(sky) + 1
      /\ EntriesAreHandovers /\ HandoversAreEntries /\ EntriesDiffer
  BY <1>1, PlanFacts
<1>3. los = Los(seat, next)
  BY DEF Los
<1>4. \A s \in Sats : \A i \in DOMAIN found[s] : i \in Nat
  BY <1>2
<1>5. \A s \in Sats : \A i \in DOMAIN found[s] :
        Dealt(s, i)' <=> Dealt(s, i) \/ (s = seat /\ i = next)
  BY <1>1, <1>2, <1>4 DEF Dealt
<1>6. CASE Candidates(seat, los) = {}
  <2>1. handoffs' = handoffs
    BY <1>1, <1>6
  <2>2. EntriesAreHandovers'
    BY <1>1, <1>2, <1>5, <2>1, SamePlanning DEF EntriesAreHandovers
  <2>3. HandoversAreEntries'
    BY <1>1, <1>2, <1>3, <1>5, <1>6, <2>1, SamePlanning DEF HandoversAreEntries
  <2>4. EntriesDiffer'
    BY <1>2, <2>1 DEF EntriesDiffer
  <2> QED BY <1>1, <1>2, <2>1, <2>2, <2>3, <2>4 DEF PlanInv
<1>7. CASE Candidates(seat, los) # {}
  <2>1. e \in HandoffRecord /\ e.from = seat /\ e.at = los
    BY <1>1, <1>2, <1>3, <1>7, HandoverFacts
  <2> DEFINE n == Len(handoffs)
  <2> HIDE DEF e, los
  <2>2. /\ handoffs' = Append(handoffs, e) /\ n \in Nat
        /\ handoffs' \in Seq(HandoffRecord)
        /\ DOMAIN handoffs' = 1 .. n + 1 /\ DOMAIN handoffs = 1 .. n
        /\ \A k \in DOMAIN handoffs : handoffs'[k] = handoffs[k]
        /\ handoffs'[n + 1] = e
    BY <1>1, <1>2, <1>7, <2>1 DEF e
  <2>3. /\ \A k \in DOMAIN handoffs' : k \in DOMAIN handoffs \/ k = n + 1
        /\ \A k \in DOMAIN handoffs : k \in DOMAIN handoffs'
        /\ n + 1 \in DOMAIN handoffs'
    BY <2>2
  <2>4. ASSUME NEW k \in DOMAIN handoffs'
        PROVE  \E s \in Sats : \E i \in DOMAIN found[s] :
                 /\ Dealt(s, i)' /\ Candidates(s, Los(s, i)) # {}
                 /\ handoffs'[k] = Handover(s, Los(s, i))
    <3>1. CASE k = n + 1
      BY <1>1, <1>3, <1>5, <1>7, <2>2, <3>1 DEF e
    <3>2. CASE k \in DOMAIN handoffs
      <4>1. PICK s \in Sats : \E i \in DOMAIN found[s] :
              /\ Dealt(s, i) /\ Candidates(s, Los(s, i)) # {}
              /\ handoffs[k] = Handover(s, Los(s, i))
        BY <1>2, <3>2 DEF EntriesAreHandovers
      <4> QED BY <1>5, <2>2, <3>2, <4>1
    <3> QED BY <2>3, <3>1, <3>2
  <2>5. EntriesAreHandovers'
    BY <1>1, <2>4, SamePlanning DEF EntriesAreHandovers
  <2>6. ASSUME NEW s \in Sats, NEW i \in DOMAIN found[s],
               Dealt(s, i)', Candidates(s, Los(s, i)) # {}
        PROVE  \E k \in DOMAIN handoffs' : handoffs'[k] = Handover(s, Los(s, i))
    <3>1. CASE s = seat /\ i = next
      BY <1>3, <2>2, <2>3, <3>1 DEF e
    <3>2. CASE Dealt(s, i)
      <4>1. PICK k \in DOMAIN handoffs : handoffs[k] = Handover(s, Los(s, i))
        BY <1>2, <2>6, <3>2 DEF HandoversAreEntries
      <4> QED BY <2>2, <2>3, <4>1
    <3> QED BY <1>5, <2>6, <3>1, <3>2
  <2>7. HandoversAreEntries'
    BY <1>1, <2>6, SamePlanning DEF HandoversAreEntries
  <2>8. ASSUME NEW k \in DOMAIN handoffs
        PROVE  handoffs[k].from # seat \/ handoffs[k].at # los
    <3>0. PICK s \in Sats : \E i \in DOMAIN found[s] :
              /\ Dealt(s, i) /\ Candidates(s, Los(s, i)) # {}
              /\ handoffs[k] = Handover(s, Los(s, i))
      BY <1>2 DEF EntriesAreHandovers
    <3>1. PICK i \in DOMAIN found[s] :
              /\ Dealt(s, i) /\ Candidates(s, Los(s, i)) # {}
              /\ handoffs[k] = Handover(s, Los(s, i))
      BY <3>0
    <3>2. handoffs[k].from = s /\ handoffs[k].at = Los(s, i)
      BY <1>2, <3>1, HandoverFacts
    <3>3. s = seat => i # next
      BY <1>1, <1>2, <1>4, <3>1 DEF Dealt
    <3> QED BY <1>1, <1>2, <3>2, <3>3, LossesDiffer DEF los, Los
  <2>9. EntriesDiffer'
    <3>1. ASSUME NEW j \in DOMAIN handoffs', NEW k \in DOMAIN handoffs', j # k
          PROVE  handoffs'[j].from # handoffs'[k].from \/ handoffs'[j].at # handoffs'[k].at
      <4>1. CASE j \in DOMAIN handoffs /\ k \in DOMAIN handoffs
        BY <1>2, <2>2, <3>1, <4>1 DEF EntriesDiffer
      <4>2. CASE j \in DOMAIN handoffs /\ k = n + 1
        BY <2>1, <2>2, <2>8, <4>2
      <4>3. CASE j = n + 1 /\ k \in DOMAIN handoffs
        BY <2>1, <2>2, <2>8, <4>3
      <4> QED BY <2>3, <3>1, <4>1, <4>2, <4>3
    <3> QED BY <3>1 DEF EntriesDiffer
  <2> QED BY <1>1, <1>2, <2>2, <2>5, <2>7, <2>9 DEF PlanInv
<1> QED BY <1>6, <1>7

LEMMA NextSatPlanInv ==
  ASSUME ScanInv, PlanInv, NextSat
  PROVE  PlanInv'
<1>1. /\ phase = "plan" /\ seat \in Sats /\ next \notin DOMAIN found[seat]
      /\ sky' = sky /\ found' = found /\ phase' = phase /\ seat' = seat + 1
      /\ next' = 1 /\ handoffs' = handoffs
  BY DEF NextSat, search
<1>2. /\ Len(sky) \in Nat /\ Sats = 1 .. Len(sky) /\ DOMAIN found = Sats
      /\ \A s \in Sats : found[s] \in Seq(Window)
      /\ handoffs \in Seq(HandoffRecord) /\ next \in Nat \ {0}
      /\ seat \in 1 .. Len(sky) + 1
      /\ EntriesAreHandovers /\ HandoversAreEntries /\ EntriesDiffer
  BY <1>1, PlanFacts
<1>3. \A s \in Sats : \A i \in DOMAIN found[s] : i \in Nat /\ i >= 1
  BY <1>2
<1>4. \A i \in DOMAIN found[seat] : i < next
  <2>1. found[seat] \in Seq(Window)
    BY <1>1, <1>2
  <2>2. DOMAIN found[seat] = 1 .. Len(found[seat]) /\ Len(found[seat]) \in Nat
    BY <2>1
  <2> QED BY <1>1, <1>2, <2>2
<1>5. \A s \in Sats : \A i \in DOMAIN found[s] : Dealt(s, i)' <=> Dealt(s, i)
  BY <1>1, <1>2, <1>3, <1>4 DEF Dealt
<1>6. EntriesAreHandovers'
  BY <1>1, <1>2, <1>5, SamePlanning DEF EntriesAreHandovers
<1>7. HandoversAreEntries'
  BY <1>1, <1>2, <1>5, SamePlanning DEF HandoversAreEntries
<1>8. EntriesDiffer'
  BY <1>1, <1>2 DEF EntriesDiffer
<1>9. seat' \in 1 .. Len(sky) + 1 /\ 1 \in Nat \ {0} /\ Len(found) = Len(sky)
  BY <1>1, <1>2 DEF PlanInv
<1> QED BY <1>1, <1>2, <1>6, <1>7, <1>8, <1>9 DEF PlanInv

LEMMA SortPlanInv ==
  ASSUME ScanInv, PlanInv, Sort
  PROVE  PlanInv'
<1>1. /\ phase = "plan" /\ seat \notin Sats
      /\ sky' = sky /\ found' = found /\ phase' = "planned" /\ seat' = seat
      /\ next' = next /\ handoffs' = StableByTime(handoffs)
  BY DEF Sort, search, scanning
<1>2. /\ Len(sky) \in Nat /\ Sats = 1 .. Len(sky) /\ DOMAIN found = Sats
      /\ handoffs \in Seq(HandoffRecord) /\ next \in Nat \ {0}
      /\ seat \in 1 .. Len(sky) + 1
      /\ EntriesAreHandovers /\ HandoversAreEntries /\ EntriesDiffer
  BY <1>1, PlanFacts
<1>3. \A s \in Sats : \A i \in DOMAIN found[s] : Dealt(s, i)' /\ Dealt(s, i)
  BY <1>1, <1>2 DEF Dealt
<1>4. \A k \in DOMAIN handoffs : handoffs[k].at \in Int
  <2>1. \A k \in DOMAIN handoffs : handoffs[k] \in HandoffRecord
    BY <1>2
  <2> QED BY <2>1 DEF HandoffRecord
<1>5. /\ handoffs' \in Seq(HandoffRecord)
      /\ \A j, k \in DOMAIN handoffs' : j < k => handoffs'[j].at <= handoffs'[k].at
      /\ Rearranges(handoffs', handoffs)
  BY <1>1, <1>2, <1>4, SortFacts
<1>6. PICK p \in [DOMAIN handoffs' -> DOMAIN handoffs] :
         /\ \A k \in DOMAIN handoffs' : handoffs'[k] = handoffs[p[k]]
         /\ \A j, k \in DOMAIN handoffs' : p[j] = p[k] => j = k
         /\ \A i \in DOMAIN handoffs : \E k \in DOMAIN handoffs' : p[k] = i
  BY <1>5 DEF Rearranges
<1>7. \A k \in DOMAIN handoffs' : p[k] \in DOMAIN handoffs
  OBVIOUS
<1>8. EntriesAreHandovers'
  <2>1. ASSUME NEW k \in DOMAIN handoffs'
        PROVE  \E s \in Sats : \E i \in DOMAIN found[s] :
                 /\ Dealt(s, i)' /\ Candidates(s, Los(s, i)) # {}
                 /\ handoffs'[k] = Handover(s, Los(s, i))
    <3>1. PICK s \in Sats : \E i \in DOMAIN found[s] :
              /\ Dealt(s, i) /\ Candidates(s, Los(s, i)) # {}
              /\ handoffs[p[k]] = Handover(s, Los(s, i))
      BY <1>2, <1>7 DEF EntriesAreHandovers
    <3> QED BY <1>3, <1>6, <3>1
  <2> QED BY <1>1, <2>1, SamePlanning DEF EntriesAreHandovers
<1>9. HandoversAreEntries'
  <2>1. ASSUME NEW s \in Sats, NEW i \in DOMAIN found[s], Candidates(s, Los(s, i)) # {}
        PROVE  \E k \in DOMAIN handoffs' : handoffs'[k] = Handover(s, Los(s, i))
    <3>1. PICK j \in DOMAIN handoffs : handoffs[j] = Handover(s, Los(s, i))
      BY <1>2, <1>3, <2>1 DEF HandoversAreEntries
    <3>2. PICK k \in DOMAIN handoffs' : p[k] = j
      BY <1>6
    <3> QED BY <1>6, <3>1, <3>2
  <2> QED BY <1>1, <2>1, SamePlanning DEF HandoversAreEntries
<1>10. EntriesDiffer'
  <2>1. ASSUME NEW j \in DOMAIN handoffs', NEW k \in DOMAIN handoffs', j # k
        PROVE  handoffs'[j].from # handoffs'[k].from \/ handoffs'[j].at # handoffs'[k].at
    <3>1. p[j] # p[k]
      BY <1>6, <2>1
    <3> QED BY <1>2, <1>6, <1>7, <3>1 DEF EntriesDiffer
  <2> QED BY <2>1 DEF EntriesDiffer
<1>11. Len(found) = Len(sky)
  BY <1>1 DEF PlanInv
<1> QED BY <1>1, <1>2, <1>5, <1>8, <1>9, <1>10, <1>11 DEF PlanInv

-----------------------------------------------------------------------------
(* The finished plan *)

(* An undisturbed pass has its window. *)
LEMMA PassHasWindow ==
  ASSUME ScanInv, NEW s \in DOMAIN found, Clear(sky[s]),
         NEW p \in Passes(sky[s]), Undisturbed(sky[s], p)
  PROVE  \E i \in DOMAIN found[s] : Around(found[s][i], p)
<1>1. sky \in Skies /\ end \in Ends /\ Answered(sky[s], found[s])
  BY DEF ScanInv
<1>2. end \in Nat
  BY <1>1, SkyFacts
<1>3. Found(sky[s], found[s], end + 1)
  BY <1>1 DEF Answered
<1>4. p[2] + Step \in Int /\ p[2] + Step <= end
  BY <1>2, PassFacts
<1>5. p[2] + Step < end + 1
  BY <1>2, <1>4
<1>6. Kept(sky[s], found[s], p)
  BY <1>3, <1>5 DEF Found
<1> QED BY <1>6 DEF Kept, Undisturbed

(* A window is the window of a pass of a track that never fails.             *)
LEMMA WindowHasPass ==
  ASSUME ScanInv, NEW s \in DOMAIN found, NEW i \in DOMAIN found[s]
  PROVE  /\ Clear(sky[s])
         /\ \E p \in Passes(sky[s]) :
              /\ Around(found[s][i], p) /\ p[1] \in Int /\ p[2] \in Int
              /\ p[1] - Step <= found[s][i].aos /\ SetsAt(p, found[s][i].los)
<1>1. Clear(sky[s]) /\ Found(sky[s], found[s], end + 1)
  BY WindowFacts
<1>2. PICK p \in Passes(sky[s]) : Around(found[s][i], p)
  BY <1>1 DEF Found
<1>3. end \in Nat
  BY SkyFacts DEF ScanInv
<1>4. p[1] \in Int /\ p[2] \in Int
  BY <1>3, PassFacts
<1> QED BY <1>1, <1>2, <1>4 DEF Around, Opens, SetsAt

(* Whoever is up is considered, and whoever is considered may be up.         *)
LEMMA CandidateIfUp ==
  ASSUME ScanInv, DOMAIN found = Sats, NEW s, NEW u \in Sats \ {s}, NEW t \in Int, IsUp(u, t)
  PROVE  u \in Candidates(s, t)
<1>1. PICK q \in Passes(sky[u]) : Undisturbed(sky[u], q) /\ q[1] <= t /\ t <= q[2]
  BY DEF IsUp
<1>2. Clear(sky[u]) /\ sky[u][t] # Fault /\ u \in DOMAIN found
  BY DEF IsUp
<1>3. PICK i \in DOMAIN found[u] : Around(found[u][i], q)
  BY <1>1, <1>2, PassHasWindow
<1>4. end \in Nat
  BY SkyFacts DEF ScanInv
<1>5. q[1] \in Int /\ q[2] \in Int
  BY <1>4, PassFacts
<1>6. found[u][i].aos \in Int /\ found[u][i].los \in Int
  BY <1>2, WindowFacts
<1>7. found[u][i].aos <= t /\ t <= found[u][i].los
  BY <1>1, <1>3, <1>5, <1>6 DEF Around, Opens
<1> QED BY <1>2, <1>7 DEF Candidates, InWindow

LEMMA UpIfCandidate ==
  ASSUME ScanInv, DOMAIN found = Sats, NEW s, NEW t \in Int, NEW u \in Candidates(s, t)
  PROVE  u # s /\ MayBeUp(u, t)
<1>1. /\ u \in Sats /\ u # s /\ u \in DOMAIN found /\ sky[u][t] # Fault
      /\ \E i \in DOMAIN found[u] : found[u][i].aos <= t /\ t <= found[u][i].los
  BY DEF Candidates, InWindow
<1>2. PICK i \in DOMAIN found[u] : found[u][i].aos <= t /\ t <= found[u][i].los
  BY <1>1
<1>3. Clear(sky[u])
  BY <1>1, WindowHasPass
<1>4. PICK p \in Passes(sky[u]) :
        /\ p[1] \in Int /\ p[2] \in Int
        /\ p[1] - Step <= found[u][i].aos /\ SetsAt(p, found[u][i].los)
  BY <1>1, WindowHasPass
<1>5. found[u][i].aos \in Int /\ found[u][i].los \in Int
  BY <1>1, WindowFacts
<1>6. p[1] - Step <= t /\ t <= p[2] + Step
  BY <1>2, <1>4, <1>5, StepIsPositive DEF SetsAt
<1> QED BY <1>1, <1>3, <1>6 DEF MayBeUp

LEMMA PlanInvSuffices == ScanInv /\ PlanInv => PlanIsRight
<1> SUFFICES ASSUME ScanInv, PlanInv, phase = "planned"
             PROVE  HandsToTheHighest /\ NoLossUnanswered /\ OnceInOrder
  BY DEF PlanIsRight
<1>1. /\ end \in Nat /\ Len(sky) \in Nat /\ Sats = 1 .. Len(sky) /\ DOMAIN found = Sats
      /\ handoffs \in Seq(HandoffRecord)
      /\ EntriesAreHandovers /\ HandoversAreEntries /\ EntriesDiffer
  BY PlanFacts
<1>2. \A s, i : Dealt(s, i)
  BY DEF Dealt
<1>3. HandsToTheHighest
  <2> SUFFICES ASSUME NEW k \in DOMAIN handoffs
               PROVE  LET h == handoffs[k]
                      IN  /\ Clear(sky[h.from])
                          /\ \E p \in Passes(sky[h.from]) : SetsAt(p, h.at)
                          /\ h.to # h.from /\ MayBeUp(h.to, h.at)
                          /\ h.elevation = sky[h.to][h.at]
                          /\ \A u \in Sats \ {h.from} :
                               IsUp(u, h.at) => sky[u][h.at] <= h.elevation
    BY DEF HandsToTheHighest
  <2> DEFINE h == handoffs[k]
  <2>1. PICK s \in Sats : \E i \in DOMAIN found[s] :
          /\ Candidates(s, Los(s, i)) # {} /\ h = Handover(s, Los(s, i))
    BY <1>1 DEF EntriesAreHandovers
  <2>2. PICK i \in DOMAIN found[s] :
          /\ Candidates(s, Los(s, i)) # {} /\ h = Handover(s, Los(s, i))
    BY <2>1
  <2>3. /\ h.from = s /\ h.at = Los(s, i) /\ h.to \in Candidates(s, Los(s, i))
        /\ \A u \in Candidates(s, Los(s, i)) : sky[u][Los(s, i)] <= h.elevation
    BY <1>1, <2>2, HandoverFacts
  <2>4. h.elevation = sky[h.to][h.at]
    BY <2>2 DEF Handover
  <2> HIDE DEF h
  <2>5. Los(s, i) \in Int
    BY <1>1, WindowFacts DEF Los
  <2>6. Clear(sky[s]) /\ \E p \in Passes(sky[s]) : SetsAt(p, Los(s, i))
    BY <1>1, WindowHasPass DEF Los
  <2>7. h.to # s /\ MayBeUp(h.to, Los(s, i))
    BY <1>1, <2>3, <2>5, UpIfCandidate
  <2>8. ASSUME NEW u \in Sats \ {s}, IsUp(u, Los(s, i)) PROVE sky[u][Los(s, i)] <= h.elevation
    <3>1. u \in Candidates(s, Los(s, i))
      BY <1>1, <2>5, <2>8, CandidateIfUp
    <3> QED BY <2>3, <3>1
  <2> QED BY <2>3, <2>4, <2>6, <2>7, <2>8 DEF h
<1>4. NoLossUnanswered
  <2> SUFFICES ASSUME NEW s \in Sats, NEW p \in Passes(sky[s]),
                      Clear(sky[s]), Undisturbed(sky[s], p),
                      NEW u \in Sats \ {s}, \A t \in p[2] .. p[2] + Step : IsUp(u, t)
               PROVE  \E k \in DOMAIN handoffs :
                        handoffs[k].from = s /\ SetsAt(p, handoffs[k].at)
    BY DEF NoLossUnanswered
  <2>1. PICK i \in DOMAIN found[s] : Around(found[s][i], p)
    BY <1>1, PassHasWindow
  <2>2. Los(s, i) \in Int /\ p[2] \in Int /\ SetsAt(p, Los(s, i))
    <3>1. found[s][i].los \in Int
      BY <1>1, WindowFacts
    <3>2. p[2] \in Int
      BY <1>1, PassFacts
    <3> QED BY <2>1, <3>1, <3>2 DEF Around, Los, SetsAt
  <2>3. Los(s, i) \in p[2] .. p[2] + Step
    BY <2>2, StepIsPositive DEF SetsAt
  <2>4. u \in Candidates(s, Los(s, i))
    BY <1>1, <2>2, <2>3, CandidateIfUp
  <2>5. PICK k \in DOMAIN handoffs : handoffs[k] = Handover(s, Los(s, i))
    BY <1>1, <1>2, <2>4 DEF HandoversAreEntries
  <2>6. Handover(s, Los(s, i)).from = s /\ Handover(s, Los(s, i)).at = Los(s, i)
    BY DEF Handover
  <2> QED BY <2>2, <2>5, <2>6
<1>5. OnceInOrder
  <2> SUFFICES ASSUME NEW j \in DOMAIN handoffs, NEW k \in DOMAIN handoffs, j < k
               PROVE  /\ handoffs[j].at <= handoffs[k].at
                      /\ handoffs[j].from = handoffs[k].from => handoffs[j].at < handoffs[k].at
    BY DEF OnceInOrder
  <2>1. handoffs[j].at <= handoffs[k].at
    BY DEF PlanInv
  <2>2. j # k /\ handoffs[j].at \in Int /\ handoffs[k].at \in Int
    <3>1. j \in Int /\ handoffs[j] \in HandoffRecord /\ handoffs[k] \in HandoffRecord
      BY <1>1
    <3> QED BY <3>1 DEF HandoffRecord
  <2>3. handoffs[j].from # handoffs[k].from \/ handoffs[j].at # handoffs[k].at
    BY <1>1, <2>2 DEF EntriesDiffer
  <2> QED BY <2>1, <2>2, <2>3
<1> QED BY <1>3, <1>4, <1>5

-----------------------------------------------------------------------------
(* The lines of the document *)

LEMMA RangeSeq ==
  ASSUME NEW A, NEW c \in Seq(A)
  PROVE  c \in Seq({c[k] : k \in DOMAIN c})
<1> DEFINE R == {c[k] : k \in DOMAIN c}
<1>1. Len(c) \in Nat /\ DOMAIN c = 1 .. Len(c) /\ c = [k \in 1 .. Len(c) |-> c[k]]
  OBVIOUS
<1>2. \A k \in 1 .. Len(c) : c[k] \in R
  BY <1>1
<1> HIDE DEF R
<1>3. c \in [1 .. Len(c) -> R]
  BY <1>1, <1>2
<1>4. c \in Seq(R)
  BY <1>1, <1>3, SeqDef
<1> QED BY <1>4 DEF R

LEMMA ConcatFacts ==
  ASSUME NEW A, NEW c \in Seq(A), NEW B, NEW d \in Seq(B)
  PROVE  /\ Len(c) \in Nat /\ Len(d) \in Nat
         /\ DOMAIN c = 1 .. Len(c) /\ DOMAIN d = 1 .. Len(d)
         /\ DOMAIN (c \o d) = 1 .. Len(c) + Len(d)
         /\ c \o d \in Seq({(c \o d)[k] : k \in DOMAIN (c \o d)})
         /\ \A k \in DOMAIN c : k \in DOMAIN (c \o d) /\ (c \o d)[k] = c[k]
         /\ \A k \in DOMAIN d : /\ k + Len(c) \in DOMAIN (c \o d)
                                /\ (c \o d)[k + Len(c)] = d[k]
         /\ \A k \in DOMAIN (c \o d) : k \in DOMAIN c \/ k - Len(c) \in DOMAIN d
<1> DEFINE S == A \cup B
<1>1. c \in Seq(S) /\ d \in Seq(S)
  BY SeqMonotonic
<1> HIDE DEF S
<1>2. /\ Len(c) \in Nat /\ Len(d) \in Nat
      /\ DOMAIN c = 1 .. Len(c) /\ DOMAIN d = 1 .. Len(d)
  OBVIOUS
<1>3. /\ c \o d \in Seq(S) /\ Len(c \o d) = Len(c) + Len(d)
      /\ \A k \in 1 .. Len(c) + Len(d) :
           (c \o d)[k] = IF k <= Len(c) THEN c[k] ELSE d[k - Len(c)]
  BY <1>1, ConcatProperties
<1>4. DOMAIN (c \o d) = 1 .. Len(c) + Len(d)
  BY <1>3
<1>5. c \o d \in Seq({(c \o d)[k] : k \in DOMAIN (c \o d)})
  BY <1>3, RangeSeq
<1>6. \A k \in DOMAIN c : k \in DOMAIN (c \o d) /\ (c \o d)[k] = c[k]
  BY <1>2, <1>3, <1>4
<1>7. \A k \in DOMAIN d : k + Len(c) \in DOMAIN (c \o d) /\ (c \o d)[k + Len(c)] = d[k]
  <2> SUFFICES ASSUME NEW k \in DOMAIN d
               PROVE  k + Len(c) \in DOMAIN (c \o d) /\ (c \o d)[k + Len(c)] = d[k]
    OBVIOUS
  <2>1. k \in Int /\ 1 <= k /\ k <= Len(d)
    BY <1>2
  <2>2. /\ k + Len(c) \in 1 .. Len(c) + Len(d) /\ ~(k + Len(c) <= Len(c))
        /\ (k + Len(c)) - Len(c) = k
    BY <1>2, <2>1
  <2> QED BY <1>3, <1>4, <2>2
<1>8. \A k \in DOMAIN (c \o d) : k \in DOMAIN c \/ k - Len(c) \in DOMAIN d
  BY <1>2, <1>4
<1> QED BY <1>2, <1>4, <1>5, <1>6, <1>7, <1>8

LEMMA WholeUnits ==
  ASSUME NEW z \in Int
  PROVE  /\ z \div Unit \in Int /\ z % Unit \in 0 .. Unit - 1
         /\ z = Unit * (z \div Unit) + (z % Unit)
         /\ Unit * (z \div Unit) \in Int /\ z % Unit \in Int
<1>1. Unit \in Nat \ {0} /\ Unit \in Int /\ Unit > 0
  BY ScheduleAssumption
<1>2. /\ z \div Unit \in Int /\ z % Unit \in 0 .. Unit - 1
      /\ z = Unit * (z \div Unit) + (z % Unit)
  BY <1>1
<1> QED BY <1>1, <1>2

(* {:.4} keeps the order of two instants, and is half a digit off at most.   *)
LEMMA PrintedFacts ==
  ASSUME NEW x \in Int
  PROVE  /\ Printed(x) \in Int
         /\ 2 * (Printed(x) - x) <= Unit /\ 2 * (x - Printed(x)) <= Unit
<1> DEFINE h == Unit \div 2
           q == (x + h) \div Unit
           r == (x + h) % Unit
<1>0. Unit \in Nat \ {0} /\ Unit \in Int /\ Unit > 0
  BY ScheduleAssumption
<1>1. h \in Int /\ 2 * h <= Unit /\ Unit <= 2 * h + 1
  BY <1>0, Z3
<1> HIDE DEF h
<1>2. x + h \in Int
  BY <1>1
<1>3. /\ q \in Int /\ r \in 0 .. Unit - 1 /\ r \in Int /\ x + h = Unit * q + r
      /\ Unit * q \in Int
  BY <1>2, WholeUnits
<1>4. Printed(x) = q * Unit
  BY DEF Printed, h
<1> HIDE DEF q, r
<1> DEFINE m == Unit * q
<1>5. q * Unit = m /\ m \in Int
  BY <1>0, <1>3
<1>6. x + h = m + r
  BY <1>3
<1> HIDE DEF m
<1>7. Printed(x) = x + h - r
  BY <1>1, <1>3, <1>4, <1>5, <1>6
<1> QED BY <1>0, <1>1, <1>3, <1>7

LEMMA PrintedInOrder ==
  ASSUME NEW x \in Int, NEW y \in Int, x <= y
  PROVE  Printed(x) <= Printed(y)
<1> DEFINE h == Unit \div 2
           q == (x + h) \div Unit
           p == (y + h) \div Unit
<1>0. Unit \in Nat \ {0} /\ Unit \in Int /\ Unit > 0
  BY ScheduleAssumption
<1>1. h \in Int
  BY <1>0
<1> HIDE DEF h
<1>2. x + h \in Int /\ y + h \in Int /\ x + h <= y + h
  BY <1>1
<1>3. /\ q \in Int /\ (x + h) % Unit \in 0 .. Unit - 1
      /\ x + h = Unit * q + ((x + h) % Unit)
  BY <1>2, WholeUnits
<1>4. /\ p \in Int /\ (y + h) % Unit \in 0 .. Unit - 1
      /\ y + h = Unit * p + ((y + h) % Unit)
  BY <1>2, WholeUnits
<1>5. Printed(x) = q * Unit /\ Printed(y) = p * Unit
  BY DEF Printed, h
<1> HIDE DEF q, p
<1>6. q <= p
  <2> SUFFICES ASSUME p <= q - 1 PROVE FALSE
    BY <1>3, <1>4
  <2>1. Unit * p <= Unit * (q - 1)
    BY <1>0, <1>3, <1>4
  <2> DEFINE a == Unit * p
             b == Unit * q
  <2>2. Unit * (q - 1) = b - Unit /\ b \in Int /\ a \in Int /\ a <= b - Unit
    BY <1>0, <1>3, <1>4, <2>1
  <2>3. x + h = b + ((x + h) % Unit) /\ y + h = a + ((y + h) % Unit)
    BY <1>3, <1>4
  <2> HIDE DEF a, b
  <2> DEFINE rx == (x + h) % Unit
             ry == (y + h) % Unit
  <2>4. rx \in 0 .. Unit - 1 /\ ry \in 0 .. Unit - 1
    BY <1>3, <1>4
  <2> HIDE DEF rx, ry
  <2>5. x + h = b + rx /\ y + h = a + ry
    BY <2>3 DEF rx, ry
  <2> QED BY <1>0, <1>2, <2>2, <2>4, <2>5
<1>7. q * Unit <= p * Unit
  BY <1>0, <1>3, <1>4, <1>6
<1> QED BY <1>5, <1>7

LEMMA LineFacts ==
  ASSUME NEW s \in Node \ {Satellite}, NEW w \in Window, NEW up \in BOOLEAN
  PROVE  LET c == Way(s, w, up)
         IN  /\ c.from = (IF up THEN s ELSE Satellite) /\ c.to = (IF up THEN Satellite ELSE s)
             /\ c.start = Printed(w.aos) /\ c.end = Printed(w.los)
             /\ IsLine(c) /\ (w.aos <= w.los => Loadable(c))
<1> DEFINE c == Way(s, w, up)
<1>1. c = [from |-> IF up THEN s ELSE Satellite, to |-> IF up THEN Satellite ELSE s,
           start |-> Printed(w.aos), end |-> Printed(w.los),
           rate |-> Rate, owlt |-> Light(w.maxElevation), confidence |-> 1]
  BY DEF Way, ContactJson
<1>2. w.aos \in Int /\ w.los \in Int
  BY DEF Window
<1>3. Printed(w.aos) \in Int /\ Printed(w.los) \in Int
  BY <1>2, PrintedFacts
<1>4. Rate \in Int /\ Satellite \in Node /\ NoName \notin Node
  BY ScheduleAssumption
<1> HIDE DEF c
<1>5. /\ c.from = (IF up THEN s ELSE Satellite) /\ c.to = (IF up THEN Satellite ELSE s)
      /\ c.start = Printed(w.aos) /\ c.end = Printed(w.los)
      /\ c.rate = Rate /\ c.owlt = Light(w.maxElevation) /\ c.confidence = 1
  BY <1>1
<1>6. IsLine(c)
  BY <1>1, <1>3, <1>4, <1>5 DEF IsLine
<1>7. w.aos <= w.los => Loadable(c)
  BY <1>2, <1>4, <1>5, PrintedInOrder DEF Loadable
<1> QED BY <1>5, <1>6, <1>7 DEF c

(* The contacts of one satellite's windows over one station. *)
Place(i, up) == IF up THEN 2 * i - 1 ELSE 2 * i
EachIsAWay(lines, windows, s) ==
  \A k \in DOMAIN lines : \E i \in DOMAIN windows, up \in BOOLEAN :
    lines[k] = Way(s, windows[i], up) /\ k = Place(i, up)

LEMMA PairsFacts ==
  ASSUME NEW windows \in Seq(Window), NEW s
  PROVE  /\ Pairs(windows, s) \in Seq({Pairs(windows, s)[k] : k \in DOMAIN Pairs(windows, s)})
         /\ EachIsAWay(Pairs(windows, s), windows, s)
         /\ \A i \in DOMAIN windows, up \in BOOLEAN : \E k \in DOMAIN Pairs(windows, s) :
              Pairs(windows, s)[k] = Way(s, windows[i], up)
<1> DEFINE p == Pairs(windows, s)
           n == Len(windows)
           e(k) == Pair(windows[(k + 1) \div 2], s)[2 - (k % 2)]
<1>1. n \in Nat /\ DOMAIN windows = 1 .. n /\ 2 * n \in Nat
  OBVIOUS
<1>2. p = [k \in 1 .. 2 * n |-> e(k)]
  BY DEF Pairs
<1>3. ASSUME NEW i \in 1 .. n
      PROVE  /\ 2 * i - 1 \in 1 .. 2 * n /\ 2 * i \in 1 .. 2 * n
             /\ e(2 * i - 1) = Way(s, windows[i], TRUE)
             /\ e(2 * i) = Way(s, windows[i], FALSE)
  <2>1. 2 * i - 1 \in 1 .. 2 * n /\ 2 * i \in 1 .. 2 * n
    BY <1>1
  <2>2. /\ ((2 * i - 1) + 1) \div 2 = i /\ (2 * i - 1) % 2 = 1
        /\ (2 * i + 1) \div 2 = i /\ (2 * i) % 2 = 0
    BY <1>1, Z3
  <2>3. e(2 * i - 1) = Pair(windows[i], s)[2 - 1] /\ e(2 * i) = Pair(windows[i], s)[2 - 0]
    BY <2>2
  <2>4. 2 - 1 = 1 /\ 2 - 0 = 2
    OBVIOUS
  <2> HIDE DEF e
  <2> QED BY <2>1, <2>3, <2>4 DEF Pair, Way
<1>4. ASSUME NEW k \in 1 .. 2 * n
      PROVE  \E i \in 1 .. n : k = 2 * i - 1 \/ k = 2 * i
  <2> DEFINE i == (k + 1) \div 2
  <2>1. i \in Int /\ (k = 2 * i - 1 \/ k = 2 * i)
    BY <1>1, Z3
  <2> HIDE DEF i
  <2>2. i \in 1 .. n
    BY <1>1, <2>1
  <2> QED BY <2>1, <2>2
<1> HIDE DEF e, p
<1>5. DOMAIN p = 1 .. 2 * n /\ \A k \in 1 .. 2 * n : p[k] = e(k)
  BY <1>2
<1>6. ASSUME NEW k \in DOMAIN p
      PROVE  \E i \in DOMAIN windows, up \in BOOLEAN :
               p[k] = Way(s, windows[i], up) /\ k = Place(i, up)
  <2>1. PICK i \in 1 .. n : k = 2 * i - 1 \/ k = 2 * i
    BY <1>4, <1>5
  <2>2. CASE k = 2 * i - 1
    <3>1. p[k] = Way(s, windows[i], TRUE) /\ k = Place(i, TRUE)
      BY <1>3, <1>5, <2>2 DEF Place
    <3> QED BY <1>1, <3>1
  <2>3. CASE k = 2 * i
    <3>1. p[k] = Way(s, windows[i], FALSE) /\ k = Place(i, FALSE)
      BY <1>3, <1>5, <2>3 DEF Place
    <3> QED BY <1>1, <3>1
  <2> QED BY <2>1, <2>2, <2>3
<1>7. ASSUME NEW i \in DOMAIN windows, NEW up \in BOOLEAN
      PROVE  \E k \in DOMAIN p : p[k] = Way(s, windows[i], up)
  <2>1. CASE up = TRUE
    BY <1>1, <1>3, <1>5, <2>1
  <2>2. CASE up = FALSE
    BY <1>1, <1>3, <1>5, <2>2
  <2> QED BY <2>1, <2>2
<1>8. p \in Seq({p[k] : k \in DOMAIN p})
  <2> DEFINE R == {p[k] : k \in DOMAIN p}
  <2>1. \A k \in DOMAIN p : p[k] \in R
    OBVIOUS
  <2> HIDE DEF R
  <2>2. p \in [1 .. 2 * n -> R]
    BY <1>2, <1>5, <2>1
  <2>3. p \in Seq(R)
    BY <1>1, <2>2, SeqDef
  <2> QED BY <2>3 DEF R
<1>9. EachIsAWay(p, windows, s)
  BY <1>6 DEF EachIsAWay
<1> QED BY <1>7, <1>8, <1>9 DEF p

-----------------------------------------------------------------------------
(* The document as the tool writes it *)

LEMMA StationFacts ==
  ASSUME sky \in Skies, NEW s \in DOMAIN sky
  PROVE  /\ Stations[s] \in Node \ {Satellite}
         /\ \A r \in DOMAIN sky : Stations[r] = Stations[s] => r = s
BY ScheduleAssumption

LEMMA DocumentLine ==
  ASSUME ScanInv, NEW s \in DOMAIN found, NEW i \in DOMAIN found[s], NEW up \in BOOLEAN
  PROVE  LET c == LineOf(s, i, up)
         IN  /\ s \in DOMAIN sky
             /\ c.from = (IF up THEN Stations[s] ELSE Satellite)
             /\ c.to = (IF up THEN Satellite ELSE Stations[s])
             /\ c.start = Printed(found[s][i].aos) /\ c.end = Printed(found[s][i].los)
             /\ IsLine(c) /\ Loadable(c)
<1>1. /\ s \in DOMAIN sky /\ found[s][i] \in Window
      /\ found[s][i].aos <= found[s][i].los
  BY WindowFacts
<1>2. Stations[s] \in Node \ {Satellite}
  BY <1>1, StationFacts DEF ScanInv
<1> QED BY <1>1, <1>2, LineFacts DEF LineOf

LEMMA ExportDocument ==
  ASSUME ScanInv, LoadInv, ExportInv, Export, scan.ended # "err"
  PROVE  LoadInv' /\ ExportInv'
<1> DEFINE windows == scan.windows
           new == Pairs(windows, Stations[seat])
           n == Len(contacts)
<1>1. /\ phase = "scan" /\ seat \in DOMAIN sky /\ scan.ended # "no"
      /\ contacts' = contacts \o new /\ phase' = phase /\ sky' = sky /\ end' = end
      /\ plan' = plan
      /\ found' = Append(found, windows) /\ seat' = seat + 1
      /\ Scanned
  BY DEF Export, Scanned, search, GoOnWith
<1>2. /\ sky \in Skies /\ end \in Ends /\ windows \in Seq(Window) /\ Clear(sky[seat])
      /\ Answered(sky[seat], windows)
  BY <1>1, AnswerOfScan
<1>3. /\ found \in Seq(Seq(Window)) /\ seat = Len(found) + 1
  BY <1>1 DEF ScanInv
<1> HIDE DEF windows, new, n
<1>4. /\ found' \in Seq(Seq(Window)) /\ DOMAIN found' = 1 .. seat
      /\ DOMAIN found = 1 .. Len(found) /\ Len(found) \in Nat
      /\ \A s \in DOMAIN found : s \in DOMAIN found' /\ found'[s] = found[s] /\ s # seat
      /\ seat \in DOMAIN found' /\ found'[seat] = windows
      /\ \A s \in DOMAIN found' : s \in DOMAIN found \/ s = seat
  BY <1>1, <1>2, <1>3
<1>5. /\ n \in Nat /\ DOMAIN contacts = 1 .. n
      /\ contacts' \in Seq({contacts'[k] : k \in DOMAIN contacts'})
      /\ \A k \in DOMAIN contacts : k \in DOMAIN contacts' /\ contacts'[k] = contacts[k]
      /\ \A k \in DOMAIN new : k + n \in DOMAIN contacts' /\ contacts'[k + n] = new[k]
      /\ \A k \in DOMAIN contacts' : k \in DOMAIN contacts \/ k - n \in DOMAIN new
      /\ DOMAIN new \subseteq Int /\ \A k \in DOMAIN new : k >= 1
      /\ DOMAIN contacts' \subseteq Int
  <2>1. contacts \in Seq({contacts[k] : k \in DOMAIN contacts})
    BY DEF LoadInv
  <2>2. new \in Seq({new[k] : k \in DOMAIN new})
    BY <1>2, PairsFacts DEF new
  <2> DEFINE both == contacts \o new
  <2>3. /\ Len(contacts) \in Nat /\ Len(new) \in Nat
        /\ DOMAIN contacts = 1 .. Len(contacts) /\ DOMAIN new = 1 .. Len(new)
        /\ DOMAIN both = 1 .. Len(contacts) + Len(new)
        /\ both \in Seq({both[k] : k \in DOMAIN both})
        /\ \A k \in DOMAIN contacts : k \in DOMAIN both /\ both[k] = contacts[k]
        /\ \A k \in DOMAIN new : /\ k + Len(contacts) \in DOMAIN both
                                 /\ both[k + Len(contacts)] = new[k]
        /\ \A k \in DOMAIN both : k \in DOMAIN contacts \/ k - Len(contacts) \in DOMAIN new
    BY <2>1, <2>2, ConcatFacts
  <2>4. contacts' = both
    BY <1>1
  <2> HIDE DEF both
  <2> QED BY <2>3, <2>4 DEF n
<1>6. /\ \A k \in DOMAIN new : \E i \in DOMAIN windows, up \in BOOLEAN :
           /\ new[k] = Way(Stations[seat], windows[i], up)
           /\ k = Place(i, up)
      /\ \A i \in DOMAIN windows, up \in BOOLEAN : \E k \in DOMAIN new :
           new[k] = Way(Stations[seat], windows[i], up)
  <2>1. windows \in Seq(Window)
    BY <1>2
  <2>2. ASSUME NEW k \in DOMAIN new
        PROVE  \E i \in DOMAIN windows, up \in BOOLEAN :
                 /\ new[k] = Way(Stations[seat], windows[i], up)
                 /\ k = Place(i, up)
    <3>1. EachIsAWay(new, windows, Stations[seat])
      BY <2>1, PairsFacts DEF new
    <3> QED BY <2>2, <3>1 DEF EachIsAWay
  <2>3. ASSUME NEW i \in DOMAIN windows, NEW up \in BOOLEAN
        PROVE  \E k \in DOMAIN new : new[k] = Way(Stations[seat], windows[i], up)
    BY <2>1, PairsFacts, Zenon DEF new
  <2> QED BY <2>2, <2>3
<1>7. Stations[seat] \in Node \ {Satellite}
      /\ \A r \in DOMAIN sky : Stations[r] = Stations[seat] => r = seat
  BY <1>1, <1>2, StationFacts
<1>8. \A s \in DOMAIN found : \A i, up : LineOf(s, i, up)' = LineOf(s, i, up)
  BY <1>4 DEF LineOf
<1>9. \A s, i, up : s = seat => LineOf(s, i, up)' = Way(Stations[s], windows[i], up)
  <2>1. \A s, i, up : LineOf(s, i, up)' = Way(Stations[s], found'[s][i], up)
    BY DEF LineOf
  <2> QED BY <1>4, <2>1
<1>10. \A k \in DOMAIN contacts : IsLine(contacts[k])
  BY DEF LoadInv
<1>11. \A i \in DOMAIN windows : windows[i] \in Window
  BY <1>2
<1>12. LoadInv'
  <2>1. ASSUME NEW k \in DOMAIN contacts' PROVE IsLine(contacts'[k])
    <3>1. CASE k \in DOMAIN contacts
      BY <1>5, <1>10, <3>1
    <3>2. CASE k - n \in DOMAIN new
      <4>1. contacts'[k] = new[k - n]
        <5>1. k \in Int /\ (k - n) + n = k
          BY <1>5
        <5> QED BY <1>5, <3>2, <5>1
      <4>2. PICK i \in DOMAIN windows, up \in BOOLEAN :
               new[k - n] = Way(Stations[seat], windows[i], up)
        BY <1>6, <3>2
      <4> QED BY <1>7, <1>11, <4>1, <4>2, LineFacts
    <3> QED BY <1>5, <3>1, <3>2
  <2>2. plan' = <<>> /\ phase' # "loaded"
    BY <1>1 DEF LoadInv
  <2> QED BY <1>5, <2>1, <2>2 DEF LoadInv
<1>13. \A s \in DOMAIN found' : Clear(sky[s])
  BY <1>2, <1>4 DEF ExportInv
<1>14. LinesAreWindows'
  <2> SUFFICES ASSUME NEW k \in DOMAIN contacts'
               PROVE  \E s \in DOMAIN found' : \E i \in DOMAIN found'[s], up \in BOOLEAN :
                        contacts'[k] = LineOf(s, i, up)'
    BY DEF LinesAreWindows
  <2>1. CASE k \in DOMAIN contacts
    <3>1. PICK s \in DOMAIN found : \E i \in DOMAIN found[s], up \in BOOLEAN :
            contacts[k] = LineOf(s, i, up)
      BY <2>1 DEF ExportInv, LinesAreWindows
    <3> QED BY <1>4, <1>5, <1>8, <2>1, <3>1
  <2>2. CASE k - n \in DOMAIN new
    <3>1. contacts'[k] = new[k - n]
      <4>1. k \in Int /\ (k - n) + n = k
        BY <1>5
      <4> QED BY <1>5, <2>2, <4>1
    <3>2. PICK i \in DOMAIN windows, up \in BOOLEAN :
            new[k - n] = Way(Stations[seat], windows[i], up)
      BY <1>6, <2>2
    <3> QED BY <1>4, <1>9, <3>1, <3>2
  <2> QED BY <1>5, <2>1, <2>2
<1>15. WindowsAreLines'
  <2> SUFFICES ASSUME NEW s \in DOMAIN found', NEW i \in DOMAIN found'[s], NEW up \in BOOLEAN
               PROVE  \E k \in DOMAIN contacts' : contacts'[k] = LineOf(s, i, up)'
    BY DEF WindowsAreLines
  <2>1. CASE s \in DOMAIN found
    <3>1. PICK k \in DOMAIN contacts : contacts[k] = LineOf(s, i, up)
      BY <1>4, <2>1 DEF ExportInv, WindowsAreLines
    <3> QED BY <1>5, <1>8, <2>1, <3>1
  <2>2. CASE s = seat
    <3>1. PICK k \in DOMAIN new : new[k] = Way(Stations[seat], windows[i], up)
      BY <1>4, <1>6, <2>2
    <3> QED BY <1>5, <1>9, <2>2, <3>1
  <2> QED BY <1>4, <2>1, <2>2
<1>16. LinesInTurn'
  <2> SUFFICES ASSUME NEW j \in DOMAIN contacts', NEW k \in DOMAIN contacts', j < k,
                      contacts'[j].from = contacts'[k].from, contacts'[j].to = contacts'[k].to
               PROVE  contacts'[j].end <= contacts'[k].start
    BY DEF LinesInTurn
  <2>0. j \in Int /\ k \in Int /\ (j - n) + n = j /\ (k - n) + n = k
    BY <1>5
  <2>3. n \in Int /\ j - n < k - n
    BY <1>5, <2>0
  <2>1. CASE k \in DOMAIN contacts
    <3>1. j \in DOMAIN contacts
      BY <1>5, <2>0, <2>1
    <3> QED BY <1>5, <2>1, <3>1 DEF ExportInv, LinesInTurn
  <2>2. CASE k - n \in DOMAIN new
    <3>1. contacts'[k] = new[k - n]
      BY <1>5, <2>0, <2>2
    <3>2. PICK ik \in DOMAIN windows, uk \in BOOLEAN :
            /\ new[k - n] = Way(Stations[seat], windows[ik], uk)
            /\ k - n = Place(ik, uk)
      BY <1>6, <2>2
    <3>3. /\ contacts'[k].from = (IF uk THEN Stations[seat] ELSE Satellite)
          /\ contacts'[k].to = (IF uk THEN Satellite ELSE Stations[seat])
          /\ contacts'[k].start = Printed(windows[ik].aos)
      BY <1>7, <1>11, <3>1, <3>2, LineFacts
    <3>4. CASE j \in DOMAIN contacts
      <4>1. PICK s \in DOMAIN found : \E i \in DOMAIN found[s], up \in BOOLEAN :
              contacts[j] = LineOf(s, i, up)
        BY <3>4 DEF ExportInv, LinesAreWindows
      <4>2. PICK i \in DOMAIN found[s], up \in BOOLEAN : contacts[j] = LineOf(s, i, up)
        BY <4>1
      <4>3. /\ s \in DOMAIN sky
            /\ contacts[j].from = (IF up THEN Stations[s] ELSE Satellite)
            /\ contacts[j].to = (IF up THEN Satellite ELSE Stations[s])
        BY <4>2, DocumentLine
      <4>4. Stations[s] # Stations[seat] /\ Stations[s] # Satellite
        BY <1>2, <1>4, <1>7, <4>3, StationFacts
      <4> QED BY <1>5, <1>7, <3>3, <3>4, <4>3, <4>4
    <3>5. CASE j - n \in DOMAIN new
      <4>1. contacts'[j] = new[j - n]
        BY <1>5, <2>0, <3>5
      <4>2. PICK ij \in DOMAIN windows, uj \in BOOLEAN :
              /\ new[j - n] = Way(Stations[seat], windows[ij], uj)
              /\ j - n = Place(ij, uj)
        BY <1>6, <3>5
      <4>3. /\ contacts'[j].from = (IF uj THEN Stations[seat] ELSE Satellite)
            /\ contacts'[j].end = Printed(windows[ij].los)
        BY <1>7, <1>11, <4>1, <4>2, LineFacts
      <4>4. uj = uk
        BY <1>7, <3>3, <4>3
      <4>5. ij \in Int /\ ik \in Int
        BY <1>2
      <4>6. ij < ik
        <5>1. Place(ij, uk) < Place(ik, uk)
          BY <2>0, <2>3, <3>2, <4>2, <4>4
        <5> QED BY <4>5, <5>1 DEF Place
      <4>7. windows[ij].los <= windows[ik].aos
        <5>1. InOrder(windows)
          BY <1>2 DEF Answered, Found
        <5> QED BY <4>6, <5>1 DEF InOrder
      <4>8. windows[ij].los \in Int /\ windows[ik].aos \in Int
        BY <1>11 DEF Window
      <4> QED BY <3>3, <4>3, <4>7, <4>8, PrintedInOrder
    <3> QED BY <1>5, <3>4, <3>5
  <2> QED BY <1>5, <2>1, <2>2
<1>17. phase' = "scan"
  BY <1>1
<1>18. (\A s \in DOMAIN found : Clear(sky[s]))'
  BY <1>1, <1>13, SameSearch
<1> QED BY <1>12, <1>14, <1>15, <1>16, <1>17, <1>18 DEF ExportInv

(* The document while nothing is written. *)
LEMMA SameDocument ==
  ASSUME UNCHANGED <<sky, end, found, contacts>>, LinesAreWindows, WindowsAreLines, LinesInTurn,
         \A s \in DOMAIN found : Clear(sky[s])
  PROVE  /\ LinesAreWindows' /\ WindowsAreLines' /\ LinesInTurn'
         /\ (\A s \in DOMAIN found : Clear(sky[s]))'
<1>1. \A s, i, up : LineOf(s, i, up)' = LineOf(s, i, up)
  BY DEF LineOf
<1>2. LinesAreWindows' /\ WindowsAreLines' /\ LinesInTurn'
  BY <1>1 DEF LinesAreWindows, WindowsAreLines, LinesInTurn
<1> QED BY <1>2, SameSearch

LEMMA SameExportInv ==
  ASSUME ExportInv, UNCHANGED <<sky, end, found, contacts>>, phase' # "refused",
         phase' \in {"load", "loaded"} => Len(found) = Len(sky)
  PROVE  ExportInv'
<1>1. /\ LinesAreWindows' /\ WindowsAreLines' /\ LinesInTurn'
      /\ (\A s \in DOMAIN found : Clear(sky[s]))'
  BY SameDocument DEF ExportInv
<1> QED BY <1>1 DEF ExportInv

LEMMA SameLoadInv ==
  ASSUME LoadInv, UNCHANGED schedule, (phase' = "loaded") = (phase = "loaded")
  PROVE  LoadInv'
BY DEF LoadInv, schedule

LEMMA LoadLoadInv ==
  ASSUME LoadInv, Load
  PROVE  LoadInv'
BY DEF LoadInv, Load

(* No line the tool writes is refused. *)
LEMMA ExportIsLoadable ==
  ASSUME ScanInv, ExportInv
  PROVE  \A k \in DOMAIN contacts : Loadable(contacts[k])
<1> SUFFICES ASSUME NEW k \in DOMAIN contacts PROVE Loadable(contacts[k])
  OBVIOUS
<1>1. PICK s \in DOMAIN found : \E i \in DOMAIN found[s], up \in BOOLEAN :
        contacts[k] = LineOf(s, i, up)
  BY DEF ExportInv, LinesAreWindows
<1>2. PICK i \in DOMAIN found[s], up \in BOOLEAN : contacts[k] = LineOf(s, i, up)
  BY <1>1
<1> QED BY <1>2, DocumentLine

LEMMA LoadExportInv ==
  ASSUME ScanInv, ExportInv, Load
  PROVE  ExportInv'
<1>1. \A k \in DOMAIN contacts : Loadable(contacts[k])
  BY ExportIsLoadable
<1>2. /\ phase = "load" /\ phase' = "loaded" /\ sky' = sky /\ end' = end
      /\ found' = found /\ contacts' = contacts
  BY <1>1 DEF Load, search, scanning
<1>3. Len(found) = Len(sky)
  BY <1>2 DEF ExportInv
<1> QED BY <1>2, <1>3, SameExportInv

-----------------------------------------------------------------------------
(* What is loaded *)

LEMMA LoadedFacts ==
  ASSUME NEW c, IsLine(c)
  PROVE  /\ Loaded(c).from = c.from /\ Loaded(c).to = c.to
         /\ Loaded(c).start = Epoch + c.start /\ Loaded(c).end = Epoch + c.end
         /\ Loaded(c).rate = c.rate
         /\ Loaded(c).confidence = (IF c.confidence = 0 THEN 1 ELSE c.confidence)
         /\ c.start \in Int /\ c.end \in Int /\ c.rate \in Int /\ c.confidence \in Int
         /\ Epoch \in Int /\ Loaded(c).start \in Int /\ Loaded(c).end \in Int
<1>1. Epoch \in Int
  BY ScheduleAssumption
<1>2. c.start \in Int /\ c.end \in Int /\ c.rate \in Int /\ c.confidence \in Int
  BY DEF IsLine
<1>3. /\ Loaded(c).from = c.from /\ Loaded(c).to = c.to
      /\ Loaded(c).start = Epoch + c.start /\ Loaded(c).end = Epoch + c.end
      /\ Loaded(c).rate = c.rate
      /\ Loaded(c).confidence = (IF c.confidence = 0 THEN 1 ELSE c.confidence)
  BY DEF IsLine, Loaded
<1> QED BY <1>1, <1>2, <1>3

LEMMA PlanLines ==
  ASSUME LoadInv
  PROVE  /\ contacts \in Seq({contacts[k] : k \in DOMAIN contacts})
         /\ DOMAIN contacts = 1 .. Len(contacts) /\ Len(contacts) \in Nat
         /\ phase # "loaded" => plan = <<>>
         /\ phase = "loaded" => DOMAIN plan = DOMAIN contacts /\ Len(plan) = Len(contacts)
         /\ \A k \in DOMAIN plan :
              /\ phase = "loaded" /\ k \in DOMAIN contacts /\ IsLine(contacts[k])
              /\ plan[k] = Loaded(contacts[k]) /\ Loadable(contacts[k])
<1>1. /\ contacts \in Seq({contacts[k] : k \in DOMAIN contacts})
      /\ \A k \in DOMAIN contacts : IsLine(contacts[k])
  BY DEF LoadInv
<1>2. DOMAIN contacts = 1 .. Len(contacts) /\ Len(contacts) \in Nat
  BY <1>1
<1>3. CASE phase # "loaded"
  <2>1. plan = <<>> /\ DOMAIN plan = {}
    BY <1>3 DEF LoadInv
  <2> QED BY <1>1, <1>2, <1>3, <2>1
<1>4. CASE phase = "loaded"
  <2>1. /\ plan = [k \in DOMAIN contacts |-> Loaded(contacts[k])]
        /\ \A k \in DOMAIN contacts : Loadable(contacts[k])
    BY <1>4 DEF LoadInv
  <2>2. DOMAIN plan = DOMAIN contacts /\ \A k \in DOMAIN plan : plan[k] = Loaded(contacts[k])
    BY <2>1
  <2>3. Len(plan) = Len(contacts)
    <3> DEFINE R == {Loaded(contacts[k]) : k \in DOMAIN contacts}
    <3>1. \A k \in DOMAIN contacts : Loaded(contacts[k]) \in R
      OBVIOUS
    <3> HIDE DEF R
    <3>2. plan \in [1 .. Len(contacts) -> R]
      BY <1>2, <2>1, <3>1
    <3>3. plan \in Seq(R)
      BY <1>2, <3>2, SeqDef
    <3>4. DOMAIN plan = 1 .. Len(plan) /\ Len(plan) \in Nat
      BY <3>3
    <3> QED BY <1>2, <2>2, <3>4
  <2> QED BY <1>1, <1>2, <1>4, <2>1, <2>2, <2>3
<1> QED BY <1>3, <1>4

LEMMA NoTransmission ==
  ASSUME NEW c, c.rate \in Int
  PROVE  TxDuration(c, 0) = 0
<1>1. 0 * TicksPerSecond = 0
  BY TicksAssumption
<1>2. \A d \in Int : d > 0 => 0 \div d = 0
  <2> SUFFICES ASSUME NEW d \in Int, d > 0 PROVE 0 \div d = 0
    OBVIOUS
  <2>1. (0 * 0) \div d \in 0 .. 0
    BY PartOf
  <2> QED BY <2>1
<1> QED BY <1>1, <1>2 DEF TxDuration

LEMMA LoadInvSuffices == LoadInv => LoadsWhatItSays
<1> SUFFICES ASSUME LoadInv PROVE LoadsWhatItSays
  OBVIOUS
<1>1. DeadContacts
  <2> SUFFICES ASSUME NEW i \in DOMAIN plan
               PROVE  Carries(plan[i], plan[i].start, 0)
                        <=> plan[i].start < plan[i].end /\ contacts[i].confidence >= 0
    BY DEF DeadContacts
  <2>1. /\ plan[i] = Loaded(contacts[i]) /\ IsLine(contacts[i])
    BY PlanLines
  <2>2. /\ plan[i].start \in Int /\ plan[i].end \in Int /\ plan[i].rate \in Int
        /\ plan[i].confidence = (IF contacts[i].confidence = 0 THEN 1 ELSE contacts[i].confidence)
        /\ contacts[i].confidence \in Int
    BY <2>1, LoadedFacts
  <2>3. TxDuration(plan[i], 0) = 0
    BY <2>2, NoTransmission
  <2>4. TxStart(plan[i], plan[i].start) = plan[i].start
    BY DEF TxStart
  <2>5. TxFinish(plan[i], plan[i].start, 0) = plan[i].start
    BY <2>2, <2>3, <2>4 DEF TxFinish
  <2>6. plan[i].confidence >= 0 <=> contacts[i].confidence >= 0
    BY <2>2
  <2> QED BY <2>2, <2>4, <2>5, <2>6 DEF Carries
<1>2. AllOrNothing
  <2>1. ASSUME phase = "loaded", NEW i \in DOMAIN plan
        PROVE  /\ plan[i].from # NoName /\ plan[i].to # NoName /\ plan[i].start <= plan[i].end
               /\ plan[i].end - plan[i].start = contacts[i].end - contacts[i].start
    <3>1. /\ plan[i] = Loaded(contacts[i]) /\ IsLine(contacts[i]) /\ Loadable(contacts[i])
      BY PlanLines
    <3>2. /\ plan[i].from = contacts[i].from /\ plan[i].to = contacts[i].to
          /\ plan[i].start = Epoch + contacts[i].start /\ plan[i].end = Epoch + contacts[i].end
          /\ contacts[i].start \in Int /\ contacts[i].end \in Int /\ Epoch \in Int
      BY <3>1, LoadedFacts
    <3> QED BY <3>1, <3>2 DEF Loadable
  <2>2. phase = "loaded" => Len(plan) = Len(contacts)
    BY PlanLines
  <2>3. phase = "refused" => plan = <<>>
    BY PlanLines
  <2> QED BY <2>1, <2>2, <2>3 DEF AllOrNothing
<1> QED BY <1>1, <1>2 DEF LoadsWhatItSays

-----------------------------------------------------------------------------
(* What the router sees *)

(* The first sample after t that is not seen, and the last of its pass.      *)
LEMMA PassEnds ==
  ASSUME end \in Nat, NEW track, NEW t \in Samples, Seen(track, t),
         NEW v \in Samples, v > t, ~Seen(track, v)
  PROVE  \E last \in Samples :
           /\ t <= last /\ last + Step \in Samples /\ ~Seen(track, last + Step)
           /\ \A u \in Samples : t <= u /\ u <= last => Seen(track, u)
<1> DEFINE S == {u \in Samples : u > t /\ ~Seen(track, u)}
<1>1. t \in Int /\ OnGrid(t) /\ Start <= t /\ t <= end
  BY SampleFacts
<1>2. \A u \in S : u \in Int /\ OnGrid(u) /\ u <= end /\ t <= u /\ u > t /\ u \in Samples
  BY SampleFacts
<1>3. PICK m \in S : \A u \in S : m <= u
  <2>1. S \in SUBSET Int /\ S # {} /\ \A u \in S : t <= u
    BY <1>1, <1>2
  <2> HIDE DEF S
  <2> QED BY <1>1, <2>1, LeastInteger
<1>4. m \in Int /\ OnGrid(m) /\ m <= end /\ m > t /\ m \in Samples /\ ~Seen(track, m)
  BY <1>2
<1> DEFINE last == m - Step
<1>5. /\ last \in Int /\ OnGrid(last) /\ t <= last /\ last + Step = m
  <2>1. t + Step <= m
    BY <1>1, <1>4, StepApart
  <2> QED BY <1>1, <1>4, <2>1, GridSteps, StepIsPositive
<1>6. last \in Samples
  <2>1. Start <= last /\ last <= end
    BY <1>1, <1>4, <1>5, StepIsPositive
  <2> HIDE DEF last
  <2> QED BY <1>5, <2>1, SampleFacts
<1>7. ASSUME NEW u \in Samples, t <= u, u <= last PROVE Seen(track, u)
  <2>1. u \in Int
    BY SampleFacts
  <2>2. u < m
    BY <1>4, <1>5, <1>7, <2>1, StepIsPositive
  <2>3. u \notin S
    BY <1>3, <1>4, <2>1, <2>2
  <2>4. CASE u = t
    BY <2>4
  <2>5. CASE u > t
    BY <2>3, <2>5
  <2> QED BY <1>1, <1>7, <2>1, <2>4, <2>5
<1> HIDE DEF last
<1> QED BY <1>4, <1>5, <1>6, <1>7

(* And the first. *)
LEMMA PassStarts ==
  ASSUME end \in Nat, NEW track, NEW t \in Samples, Seen(track, t)
  PROVE  \E first \in Samples :
           /\ first <= t /\ (first = Start \/ ~Seen(track, first - Step))
           /\ \A u \in Samples : first <= u /\ u <= t => Seen(track, u)
<1> DEFINE S == {f \in Samples : /\ f <= t
                                 /\ \A u \in Samples : f <= u /\ u <= t => Seen(track, u)}
<1>1. t \in Int /\ OnGrid(t) /\ Start <= t /\ t <= end
  BY SampleFacts
<1>2. \A f \in S : f \in Int /\ OnGrid(f) /\ Start <= f /\ f \in Samples
  BY SampleFacts
<1>3. t \in S
  <2>1. \A u \in Samples : t <= u /\ u <= t => u = t
    BY <1>1, SampleFacts
  <2> QED BY <1>1, <2>1
<1>4. PICK f \in S : \A u \in S : f <= u
  <2>1. S \in SUBSET Int /\ S # {} /\ \A u \in S : Start <= u
    BY <1>2, <1>3
  <2> HIDE DEF S
  <2> QED BY <2>1, LeastInteger, StepIsPositive
<1>5. /\ f \in Int /\ OnGrid(f) /\ Start <= f /\ f \in Samples /\ f <= t
      /\ \A u \in Samples : f <= u /\ u <= t => Seen(track, u)
  BY <1>2
<1>6. ASSUME f # Start, Seen(track, f - Step) PROVE FALSE
  <2>1. Start + Step <= f
    <3>1. Start < f
      BY <1>5, <1>6, StepIsPositive
    <3> QED BY <1>5, <3>1, StartOnGrid, StepApart, StepIsPositive
  <2> DEFINE g == f - Step
  <2>2. g \in Int /\ OnGrid(g) /\ Start <= g /\ g <= end /\ g < f /\ g <= t
    BY <1>1, <1>5, <2>1, GridSteps, StepIsPositive
  <2>3. g + Step = f
    BY <1>5, StepIsPositive
  <2>4. Seen(track, g)
    BY <1>6
  <2> HIDE DEF g
  <2>5. g \in Samples
    BY <2>2, SampleFacts
  <2>6. ASSUME NEW u \in Samples, g <= u, u <= t PROVE Seen(track, u)
    <3>1. u \in Int
      BY SampleFacts
    <3>2. CASE u < f
      <4>1. u <= g
        BY <2>2, <2>3, <3>2, NoneBetween
      <4>2. u = g
        BY <2>2, <2>6, <3>1, <4>1
      <4> QED BY <2>4, <4>2
    <3>3. CASE f <= u
      BY <1>5, <2>6, <3>3
    <3> QED BY <1>5, <3>1, <3>2, <3>3
  <2>7. g \in S
    BY <2>2, <2>5, <2>6
  <2>8. f <= g
    BY <1>4, <2>7
  <2> QED BY <1>5, <2>2, <2>8
<1> QED BY <1>5, <1>6

LEMMA PassAround ==
  ASSUME end \in Nat, NEW track, NEW t \in Samples, Seen(track, t),
         NEW v \in Samples, v > t, ~Seen(track, v)
  PROVE  \E p \in Passes(track) : p[1] <= t /\ t <= p[2]
<1>1. PICK last \in Samples :
           /\ t <= last /\ last + Step \in Samples /\ ~Seen(track, last + Step)
           /\ \A u \in Samples : t <= u /\ u <= last => Seen(track, u)
  BY PassEnds
<1>2. PICK first \in Samples :
           /\ first <= t /\ (first = Start \/ ~Seen(track, first - Step))
           /\ \A u \in Samples : first <= u /\ u <= t => Seen(track, u)
  BY PassStarts
<1>3. t \in Int /\ first \in Int /\ last \in Int
  BY SampleFacts
<1>4. ASSUME NEW u \in Samples, first <= u, u <= last PROVE Seen(track, u)
  <2>1. u \in Int
    BY SampleFacts
  <2>2. u <= t \/ t <= u
    BY <1>3, <2>1
  <2> QED BY <1>1, <1>2, <1>4, <2>2
<1>5. Stretch(track, first, last)
  BY <1>1, <1>2, <1>3, <1>4 DEF Stretch
<1> DEFINE p == <<first, last>>
<1>6. p \in Samples \X Samples /\ p[1] = first /\ p[2] = last
  OBVIOUS
<1> HIDE DEF p
<1>7. p \in Passes(track)
  BY <1>1, <1>5, <1>6 DEF Passes
<1> QED BY <1>1, <1>2, <1>6, <1>7

LEMMA GraphSees ==
  ASSUME ScanInv, LoadInv, ExportInv
  PROVE  GraphSeesThePass
<1> SUFFICES ASSUME phase = "loaded", NEW s \in DOMAIN sky, NEW t \in Up(s), Sets(s, t),
                    \A u \in Start .. end : sky[s][u] # Fault
             PROVE  \E i \in DOMAIN plan :
                      /\ plan[i].from = Stations[s]
                      /\ 2 * (plan[i].start - Epoch - t) <= Unit
                      /\ 2 * (t - plan[i].end + Epoch) <= Unit
  BY DEF GraphSeesThePass
<1>1. sky \in Skies /\ end \in Ends /\ found \in Seq(Seq(Window))
  BY DEF ScanInv
<1>2. end \in Nat /\ Len(sky) \in Nat /\ DOMAIN sky = 1 .. Len(sky)
  BY <1>1, SkyFacts
<1>3. s \in DOMAIN found
  <2>1. Len(found) = Len(sky)
    BY DEF ExportInv
  <2> QED BY <1>1, <1>2, <2>1
<1>4. Clear(sky[s]) /\ Answered(sky[s], found[s])
  BY <1>3 DEF ExportInv, ScanInv
<1>5. Found(sky[s], found[s], end + 1)
  BY <1>4 DEF Answered
<1>6. t \in Samples /\ Seen(sky[s], t)
  BY DEF Up, Seen
<1>7. PICK v \in Samples : v > t /\ ~Seen(sky[s], v)
  BY DEF Sets, Up, Seen
<1>8. PICK p \in Passes(sky[s]) : p[1] <= t /\ t <= p[2]
  BY <1>2, <1>6, <1>7, PassAround
<1>9. /\ p[1] \in Int /\ p[2] \in Int /\ p[2] + Step <= end /\ p[2] + Step \in Int
  BY <1>2, PassFacts
<1>10. Kept(sky[s], found[s], p)
  <2>1. p[2] + Step < end + 1
    BY <1>2, <1>9
  <2> QED BY <1>5, <2>1 DEF Found
<1>11. ~ \E u \in p[1] - Step .. p[2] + Step : u >= Start /\ sky[s][u] = Fault
  BY <1>2, <1>9, StepIsPositive
<1>12. PICK i \in DOMAIN found[s] : Around(found[s][i], p)
  BY <1>10, <1>11 DEF Kept
<1> DEFINE w == found[s][i]
           c == LineOf(s, i, TRUE)
<1>13. /\ w.aos \in Int /\ w.los \in Int
  BY <1>3, WindowFacts
<1>14. w.aos <= t /\ t <= w.los /\ t \in Int
  <2>1. t \in Int
    BY <1>2, <1>6, SampleFacts
  <2> QED BY <1>8, <1>9, <1>12, <1>13, <2>1 DEF Around, Opens
<1>15. /\ c.from = Stations[s] /\ c.start = Printed(w.aos) /\ c.end = Printed(w.los)
  <2>1. ASSUME NEW up \in BOOLEAN, up = TRUE
        PROVE  /\ LineOf(s, i, up).from = Stations[s]
               /\ LineOf(s, i, up).start = Printed(w.aos)
               /\ LineOf(s, i, up).end = Printed(w.los)
    BY <1>3, <2>1, DocumentLine
  <2> QED BY <2>1
<1>16. PICK k \in DOMAIN contacts : contacts[k] = c
  <2>1. \A up \in BOOLEAN : \E k \in DOMAIN contacts : contacts[k] = LineOf(s, i, up)
    BY <1>3 DEF ExportInv, WindowsAreLines
  <2> QED BY <2>1
<1> HIDE DEF c, w
<1>17. k \in DOMAIN plan /\ plan[k] = Loaded(contacts[k]) /\ IsLine(contacts[k])
  BY PlanLines
<1>18. /\ plan[k].from = Stations[s] /\ plan[k].start = Epoch + Printed(w.aos)
       /\ plan[k].end = Epoch + Printed(w.los) /\ Epoch \in Int
  BY <1>15, <1>16, <1>17, LoadedFacts
<1>19. /\ Printed(w.aos) \in Int /\ 2 * (Printed(w.aos) - w.aos) <= Unit
       /\ Printed(w.los) \in Int /\ 2 * (w.los - Printed(w.los)) <= Unit
       /\ Unit \in Int
  <2>1. Unit \in Int
    BY ScheduleAssumption
  <2> QED BY <1>13, <2>1, PrintedFacts
<1>20. /\ 2 * (plan[k].start - Epoch - t) <= Unit
       /\ 2 * (t - plan[k].end + Epoch) <= Unit
  BY <1>13, <1>14, <1>18, <1>19
<1> QED BY <1>17, <1>18, <1>20

LEMMA ExportInvSuffices ==
  ASSUME ScanInv, LoadInv, ExportInv
  PROVE  ExportLoads /\ LinksTakeTurns /\ BothWays /\ GraphSeesThePass
<1>1. ExportLoads
  BY DEF ExportInv, ExportLoads
<1>2. \A k \in DOMAIN plan : /\ k \in DOMAIN contacts
                             /\ plan[k].from = contacts[k].from /\ plan[k].to = contacts[k].to
                             /\ plan[k].start = Epoch + contacts[k].start
                             /\ plan[k].end = Epoch + contacts[k].end
                             /\ contacts[k].start \in Int /\ contacts[k].end \in Int
                             /\ Epoch \in Int
  <2> SUFFICES ASSUME NEW k \in DOMAIN plan
               PROVE  /\ k \in DOMAIN contacts
                      /\ plan[k].from = contacts[k].from /\ plan[k].to = contacts[k].to
                      /\ plan[k].start = Epoch + contacts[k].start
                      /\ plan[k].end = Epoch + contacts[k].end
                      /\ contacts[k].start \in Int /\ contacts[k].end \in Int
                      /\ Epoch \in Int
    OBVIOUS
  <2>1. k \in DOMAIN contacts /\ IsLine(contacts[k]) /\ plan[k] = Loaded(contacts[k])
    BY PlanLines
  <2> QED BY <2>1, LoadedFacts
<1>3. LinksTakeTurns
  <2> SUFFICES ASSUME NEW i \in DOMAIN plan, NEW j \in DOMAIN plan, i < j, SameLink(i, j)
               PROVE  plan[i].end <= plan[j].start
    BY DEF LinksTakeTurns
  <2>1. contacts[i].end <= contacts[j].start
    BY <1>2 DEF SameLink, ExportInv, LinesInTurn
  <2> QED BY <1>2, <2>1
<1>4. BothWays
  <2> SUFFICES ASSUME NEW k \in DOMAIN plan
               PROVE  \E j \in DOMAIN plan :
                        /\ plan[j].from = plan[k].to /\ plan[j].to = plan[k].from
                        /\ plan[j].start = plan[k].start /\ plan[j].end = plan[k].end
    BY DEF BothWays
  <2>0. DOMAIN plan = DOMAIN contacts
    BY PlanLines
  <2>1. PICK s \in DOMAIN found : \E i \in DOMAIN found[s], up \in BOOLEAN :
          contacts[k] = LineOf(s, i, up)
    BY <1>2 DEF ExportInv, LinesAreWindows
  <2>2. PICK i \in DOMAIN found[s], up \in BOOLEAN : contacts[k] = LineOf(s, i, up)
    BY <2>1
  <2>3. PICK down \in BOOLEAN : down = ~up
    OBVIOUS
  <2>4. PICK j \in DOMAIN contacts : contacts[j] = LineOf(s, i, down)
    BY DEF ExportInv, WindowsAreLines
  <2>5. /\ contacts[k].from = (IF up THEN Stations[s] ELSE Satellite)
        /\ contacts[k].to = (IF up THEN Satellite ELSE Stations[s])
        /\ contacts[k].start = Printed(found[s][i].aos)
        /\ contacts[k].end = Printed(found[s][i].los)
    BY <2>2, DocumentLine
  <2>6. /\ contacts[j].from = (IF down THEN Stations[s] ELSE Satellite)
        /\ contacts[j].to = (IF down THEN Satellite ELSE Stations[s])
        /\ contacts[j].start = Printed(found[s][i].aos)
        /\ contacts[j].end = Printed(found[s][i].los)
    BY <2>4, DocumentLine
  <2>7. /\ contacts[j].from = contacts[k].to /\ contacts[j].to = contacts[k].from
        /\ contacts[j].start = contacts[k].start /\ contacts[j].end = contacts[k].end
    BY <2>3, <2>5, <2>6
  <2> QED BY <1>2, <2>0, <2>7
<1> QED BY <1>1, <1>3, <1>4, GraphSees

-----------------------------------------------------------------------------
(* The tools together *)

LEMMA InitScheduleInv == Init => ScheduleInv
<1> SUFFICES ASSUME Init PROVE ScheduleInv
  OBVIOUS
<1>1. /\ SearchInit /\ PlanInit /\ DocumentInit
      /\ \/ tool \in {"handoff", "export"} /\ phase = "scan"
         \/ tool = "none" /\ phase = "load"
  BY DEF Init
<1>2. tool \in {"handoff", "export", "none"} /\ phase \in Phases[tool]
  BY <1>1 DEF Phases
<1>3. ScanInv
  BY <1>1, InitScanInv
<1>4. PlanInv
  <2>1. phase \notin {"plan", "planned"}
    BY <1>1
  <2> QED BY <1>1, <2>1, InitPlanInv
<1>5. tool # "none" => contacts = <<>>
  BY <1>1 DEF DocumentInit
<1>6. LoadInv
  <2>1. plan = <<>> /\ phase # "loaded"
    BY <1>1 DEF DocumentInit
  <2>2. CASE tool # "none"
    <3>1. contacts = <<>>
      BY <1>5, <2>2
    <3>2. DOMAIN contacts = {} /\ contacts \in Seq({contacts[k] : k \in DOMAIN contacts})
      BY <3>1
    <3> QED BY <2>1, <3>2 DEF LoadInv
  <2>3. CASE tool = "none"
    <3>1. contacts \in Seq(Line)
      BY <1>1, <2>3, ScheduleAssumption DEF DocumentInit
    <3>2. contacts \in Seq({contacts[k] : k \in DOMAIN contacts})
      BY <3>1, RangeSeq
    <3>3. ASSUME NEW c \in Line PROVE IsLine(c)
      BY DEF Line, IsLine
    <3>4. \A k \in DOMAIN contacts : contacts[k] \in Line
      BY <3>1
    <3> QED BY <2>1, <3>2, <3>3, <3>4 DEF LoadInv
  <2> QED BY <2>2, <2>3
<1>7. ASSUME tool = "export" PROVE ExportInv
  <2>1. contacts = <<>> /\ found = <<>> /\ phase = "scan"
    BY <1>1, <1>5, <1>7 DEF SearchInit
  <2>2. DOMAIN contacts = {} /\ DOMAIN found = {}
    BY <2>1
  <2> QED BY <2>1, <2>2 DEF ExportInv, LinesAreWindows, WindowsAreLines, LinesInTurn
<1> QED BY <1>2, <1>3, <1>4, <1>5, <1>6, <1>7 DEF ScheduleInv

LEMMA TurnScheduleInv ==
  ASSUME ScheduleInv, ScanTurn, UNCHANGED <<planning, schedule>>
  PROVE  ScheduleInv'
<1>1. /\ phase = "scan" /\ phase' = phase /\ tool' = tool /\ sky' = sky /\ end' = end
      /\ found' = found /\ contacts' = contacts
  BY DEF ScanTurn, Scanning, search, schedule
<1>2. ScanInv'
  BY TurnScanInv DEF ScheduleInv
<1>3. PlanInv'
  BY <1>1, IdlePlanInv DEF ScheduleInv
<1>4. LoadInv'
  BY <1>1, SameLoadInv DEF ScheduleInv
<1>5. tool = "export" => ExportInv'
  BY <1>1, SameExportInv DEF ScheduleInv
<1> QED BY <1>1, <1>2, <1>3, <1>4, <1>5 DEF ScheduleInv

LEMMA HandoffScheduleInv ==
  ASSUME ScheduleInv, PlanHandoffs, UNCHANGED schedule
  PROVE  ScheduleInv'
<1>1. ScanInv /\ PlanInv /\ LoadInv /\ tool \in {"handoff", "export", "none"}
      /\ phase \in Phases[tool] /\ (tool = "handoff" => contacts = <<>>)
  BY DEF ScheduleInv
<1>2. tool = "handoff"
  BY <1>1 DEF PlanHandoffs, TakeWindows, StartPlanning, ConsiderLos, NextSat, Sort, Phases
<1>3. tool' = tool /\ sky' = sky /\ end' = end /\ contacts' = contacts
  BY DEF PlanHandoffs, TakeWindows, StartPlanning, ConsiderLos, NextSat, Sort, search, schedule
<1>4. /\ phase' \in {"scan", "plan", "planned"} /\ phase \in {"scan", "plan", "planned"}
  BY <1>1, <1>2 DEF PlanHandoffs, TakeWindows, StartPlanning, ConsiderLos, NextSat, Sort, Phases
<1>5. LoadInv'
  BY <1>1, <1>4, SameLoadInv
<1>6. ScanInv' /\ PlanInv'
  <2>1. CASE TakeWindows
    <3>1. /\ phase = "scan" /\ phase' = phase /\ Scanned /\ seat \in DOMAIN sky
          /\ UNCHANGED <<search, phase>> /\ UNCHANGED planning
          /\ GoOnWith(IF scan.ended = "ok" THEN scan.windows ELSE <<>>)
      BY <2>1 DEF TakeWindows, Scanned
    <3> DEFINE windows == IF scan.ended = "ok" THEN scan.windows ELSE <<>>
    <3>2. windows \in Seq(Window) /\ Answered(sky[seat], windows)
      BY <1>1, <3>1, AnswerOfScan
    <3>3. ScanInv'
      <4> HIDE DEF windows
      <4>1. GoOnWith(windows)
        BY <3>1 DEF windows
      <4> QED BY <1>1, <3>1, <3>2, <4>1, NextTrackScanInv
    <3>4. PlanInv'
      BY <1>1, <3>1, IdlePlanInv
    <3> QED BY <3>3, <3>4
  <2>2. CASE StartPlanning
    <3>1. UNCHANGED <<search, found>> /\ phase' # "scan"
      BY <2>2 DEF StartPlanning
    <3> QED BY <1>1, <2>2, <3>1, OtherScanInv, StartPlanInv
  <2>3. CASE ConsiderLos
    <3>1. UNCHANGED <<search, found>> /\ phase' # "scan"
      BY <2>3 DEF ConsiderLos, scanning
    <3> QED BY <1>1, <2>3, <3>1, OtherScanInv, ConsiderPlanInv
  <2>4. CASE NextSat
    <3>1. UNCHANGED <<search, found>> /\ phase' # "scan"
      BY <2>4 DEF NextSat
    <3> QED BY <1>1, <2>4, <3>1, OtherScanInv, NextSatPlanInv
  <2>5. CASE Sort
    <3>1. UNCHANGED <<search, found>> /\ phase' # "scan"
      BY <2>5 DEF Sort, scanning
    <3> QED BY <1>1, <2>5, <3>1, OtherScanInv, SortPlanInv
  <2> QED BY <2>1, <2>2, <2>3, <2>4, <2>5 DEF PlanHandoffs
<1> QED BY <1>1, <1>2, <1>3, <1>4, <1>5, <1>6 DEF ScheduleInv, Phases

LEMMA ExportScheduleInv ==
  ASSUME ScheduleInv, Export, UNCHANGED planning
  PROVE  ScheduleInv'
<1>1. ScanInv /\ PlanInv /\ LoadInv /\ ExportInv /\ tool = "export" /\ tool' = tool
  BY DEF ScheduleInv, Export, search
<1>2. /\ phase = "scan" /\ seat \in DOMAIN sky /\ Scanned
      /\ phase' \in {"scan", "panicked"} /\ UNCHANGED search /\ plan' = plan
  BY DEF Export, Scanned
<1>3. PlanInv'
  BY <1>1, <1>2, IdlePlanInv
<1>4. CASE scan.ended = "err"
  <2>1. /\ phase' = "panicked" /\ UNCHANGED <<contacts, seat, scan, found>>
        /\ sky' = sky /\ end' = end
    BY <1>4 DEF Export, scanning, search
  <2>2. ScanInv'
    BY <1>1, <1>2, <2>1, OtherScanInv
  <2>3. LoadInv'
    BY <1>1, <1>2, <2>1, SameLoadInv DEF schedule
  <2>4. ExportInv'
    BY <1>1, <2>1, SameExportInv
  <2> QED BY <1>1, <1>3, <2>1, <2>2, <2>3, <2>4 DEF ScheduleInv, Phases
<1>5. CASE scan.ended # "err"
  <2>1. GoOnWith(scan.windows) /\ phase' = phase
    BY <1>5 DEF Export
  <2>2. scan.windows \in Seq(Window) /\ Answered(sky[seat], scan.windows)
    BY <1>1, <1>2, <1>5, AnswerOfScan
  <2>3. ScanInv'
    BY <1>1, <1>2, <2>1, <2>2, NextTrackScanInv
  <2>4. LoadInv' /\ ExportInv'
    BY <1>1, <1>5, ExportDocument
  <2> QED BY <1>1, <1>2, <1>3, <2>1, <2>3, <2>4 DEF ScheduleInv, Phases
<1> QED BY <1>4, <1>5

LEMMA DocumentScheduleInv ==
  ASSUME ScheduleInv, Write \/ Load, UNCHANGED planning
  PROVE  ScheduleInv'
<1>1. /\ ScanInv /\ PlanInv /\ LoadInv /\ (tool = "export" => ExportInv)
      /\ tool \in {"handoff", "export", "none"} /\ phase \in Phases[tool]
  BY DEF ScheduleInv
<1>2. /\ tool' = tool /\ UNCHANGED search /\ UNCHANGED <<seat, scan, found>>
      /\ sky' = sky /\ end' = end /\ contacts' = contacts
      /\ phase \in {"scan", "load"} /\ phase' \in {"load", "loaded", "refused"}
  BY DEF Write, Load, AllScanned, search, scanning, schedule
<1>3. tool \in {"export", "none"}
  BY <1>1 DEF Write, Load, Phases
<1>4. ScanInv' /\ PlanInv'
  BY <1>1, <1>2, OtherScanInv, IdlePlanInv
<1>5. CASE Write
  <2>1. phase = "scan" /\ phase' = "load" /\ UNCHANGED schedule /\ AllScanned /\ tool = "export"
    BY <1>5 DEF Write, AllScanned
  <2>2. LoadInv'
    BY <1>1, <2>1, SameLoadInv
  <2>3. ExportInv'
    BY <1>1, <1>2, <2>1, AllAreScanned, SameExportInv
  <2> QED BY <1>1, <1>2, <1>4, <2>1, <2>2, <2>3 DEF ScheduleInv, Phases
<1>6. CASE Load
  <2>1. LoadInv'
    BY <1>1, <1>6, LoadLoadInv
  <2>2. tool = "export" => ExportInv'
    BY <1>1, <1>6, LoadExportInv
  <2>3. phase' \in {"loaded", "refused"}
    BY <1>6 DEF Load
  <2> QED BY <1>2, <1>3, <1>4, <2>1, <2>2, <2>3 DEF ScheduleInv, Phases
<1> QED BY <1>5, <1>6

LEMMA SameScheduleInv ==
  ASSUME ScheduleInv, UNCHANGED vars
  PROVE  ScheduleInv'
<1>1. /\ UNCHANGED <<search, phase, seat, scan, found, planning>> /\ UNCHANGED schedule
      /\ UNCHANGED <<search, found>> /\ UNCHANGED <<sky, end, found, contacts>>
      /\ tool' = tool /\ phase' = phase /\ contacts' = contacts
  BY DEF vars, search, scanning, schedule
<1>2. ScanInv'
  BY <1>1, OtherScanInv DEF ScheduleInv
<1>3. PlanInv'
  BY <1>1, SamePlanInv DEF ScheduleInv
<1>4. LoadInv'
  BY <1>1, SameLoadInv DEF ScheduleInv
<1>5. tool = "export" => ExportInv'
  BY <1>1, SameExportInv DEF ScheduleInv, ExportInv
<1> QED BY <1>1, <1>2, <1>3, <1>4, <1>5 DEF ScheduleInv

LEMMA NextScheduleInv == ScheduleInv /\ [Next]_vars => ScheduleInv'
BY TurnScheduleInv, HandoffScheduleInv, ExportScheduleInv, DocumentScheduleInv,
   SameScheduleInv DEF Next, MakeSchedule

(* In every state of every tool: the windows that visibility_windows has     *)
(* found are the passes that are over, in order and apart, each with the     *)
(* highest of the instants looked at.                                        *)
THEOREM WindowsAreRight == Spec => []WindowsAreThePasses
<1>1. ScheduleInv => WindowsAreThePasses
  BY ScanInvSuffices DEF ScheduleInv
<1> QED BY InitScheduleInv, NextScheduleInv, <1>1, PTL DEF Spec

(* A finished plan_handoffs, told from the sampled tracks: every handoff is  *)
(* at the end of a pass and to a satellite that no other is above of those   *)
(* in the middle of a finished pass, there is one whenever such a satellite  *)
(* is up throughout, and they are in order; whatever satellites fail.        *)
THEOREM PlansAreRight == Spec => []PlanIsRight
<1>1. ScheduleInv => PlanIsRight
  BY PlanInvSuffices DEF ScheduleInv
<1> QED BY InitScheduleInv, NextScheduleInv, <1>1, PTL DEF Spec

(* The plan export_contacts prints and package contactplan loads is never    *)
(* refused, keeps the contacts of a link apart, has both directions of each, *)
(* and a contact for every sample of every finished pass.                    *)
THEOREM RouterIsToldThePasses == Spec => []RouterSeesThePasses
<1>1. ScheduleInv => RouterSeesThePasses
  BY ExportInvSuffices DEF ScheduleInv, RouterSeesThePasses, Exported
<1> QED BY InitScheduleInv, NextScheduleInv, <1>1, PTL DEF Spec

(* Load takes a document whole or not at all, the tool's or another's, and   *)
(* the router can use exactly the contacts that last and are not ruled out.  *)
THEOREM LoadIsHonest == Spec => []LoadsWhatItSays
<1>1. ScheduleInv => LoadsWhatItSays
  BY LoadInvSuffices DEF ScheduleInv
<1> QED BY InitScheduleInv, NextScheduleInv, <1>1, PTL DEF Spec
=============================================================================
