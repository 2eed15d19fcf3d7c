---------------------------- MODULE Formats_proofs ---------------------------
(* Formats and the propagator: that an answer for a time does not depend on  *)
(* the calls before it, that the epoch's day is the calendar's, that every   *)
(* satellite is generated, that packets survive and that texts say only what *)
(* was written.                                                              *)
EXTENDS Formats, Sgp4, FiniteSetTheorems, WellFoundedInduction, TLAPS

-----------------------------------------------------------------------------
(***************************************************************************)
(* Induction over the natural numbers, in forms without an operator        *)
(***************************************************************************)
\* A set of integers that is bounded from below has a least element.
LEMMA LeastInteger ==
    ASSUME NEW S \in SUBSET Int, S # {}, NEW low \in Int, \A s \in S : low <= s
    PROVE \E m \in S : \A s \in S : m <= s
<1> DEFINE less == {ss \in Nat \X Nat : ss[1] < ss[2]}
           T == {n \in Nat : low + n \in S}
<1>1. IsWellFoundedOn(less, Nat)
  BY NatLessThanWellFounded, Zenon DEF OpToRel
<1>2. T \subseteq Nat /\ T # {}
  <2>1. PICK s \in S : TRUE
    OBVIOUS
  <2>2. s - low \in Nat /\ low + (s - low) = s
    BY <2>1
  <2> QED BY <2>1, <2>2
<1>3. PICK n \in T : \A k \in T : ~ (<<k, n>> \in less)
  <2> HIDE DEF less, T
  <2> QED BY <1>1, <1>2, WFMin
<1>4. ASSUME NEW s \in S PROVE low + n <= s
  <2>1. s - low \in T /\ s - low \in Nat
    <3>1. s - low \in Nat /\ low + (s - low) = s
      OBVIOUS
    <3> QED BY <3>1
  <2>2. ~(s - low < n)
    BY <1>3, <2>1
  <2> QED BY <2>1, <2>2
<1> QED BY <1>3, <1>4

\* Induction: a set that contains zero and the successors of its elements.
LEMMA Induction ==
    ASSUME NEW S, 0 \in S, \A n \in Nat : n \in S => n + 1 \in S
    PROVE \A n \in Nat : n \in S
<1> SUFFICES ASSUME \E n \in Nat : n \notin S PROVE FALSE
  OBVIOUS
<1> DEFINE R == Nat \ S
<1>1. PICK m \in R : \A s \in R : m <= s
  <2>1. R \in SUBSET Int /\ R # {} /\ \A s \in R : 0 <= s
    OBVIOUS
  <2> HIDE DEF R
  <2> QED BY <2>1, 0 \in Int, LeastInteger
<1>2. m - 1 \in Nat /\ ~(m <= m - 1)
  OBVIOUS
<1>3. m - 1 \in S
  BY <1>1, <1>2
<1>4. (m - 1) + 1 \in S
  BY <1>2, <1>3
<1> QED BY <1>4

\* A function can be defined by recursion: there is one that starts with x0
\* and goes on with g.
Iterates(f, X, x0, g) ==
    f \in [Nat -> X] /\ f[0] = x0 /\ \A k \in Nat : f[k + 1] = g[f[k]]

LEMMA Iteration ==
    ASSUME NEW X, NEW x0 \in X, NEW g \in [X -> X]
    PROVE \E f : Iterates(f, X, x0, g)
<1> DEFINE Starts(h, n) == /\ h \in [0 .. n -> X]
                           /\ h[0] = x0
                           /\ \A k \in 0 .. n - 1 : h[k + 1] = g[h[k]]
           S == {n \in Nat : \E h : Starts(h, n)}
           U == {k \in Nat : \A n, m \in Nat : \A h, i :
                    k <= n /\ k <= m /\ Starts(h, n) /\ Starts(i, m) => h[k] = i[k]}
<1>1. \A n \in Nat : n \in S
  <2>1. 0 \in S
    <3>1. Starts([k \in 0 .. 0 |-> x0], 0)
      OBVIOUS
    <3> HIDE DEF Starts
    <3> QED BY <3>1
  <2>2. ASSUME NEW n \in Nat, n \in S PROVE n + 1 \in S
    <3>1. PICK h : Starts(h, n)
      BY <2>2
    <3> DEFINE i == [k \in 0 .. n + 1 |-> IF k = n + 1 THEN g[h[n]] ELSE h[k]]
    <3>2. Starts(i, n + 1)
      <4>1. i \in [0 .. n + 1 -> X]
        BY <3>1
      <4>2. i[0] = x0
        BY <3>1
      <4>3. ASSUME NEW k \in 0 .. (n + 1) - 1 PROVE i[k + 1] = g[i[k]]
        <5>1. CASE k = n
          BY <5>1
        <5>2. CASE k # n
          BY <3>1, <5>2
        <5> QED BY <5>1, <5>2
      <4> QED BY <4>1, <4>2, <4>3
    <3> HIDE DEF Starts, i
    <3> QED BY <3>2
  <2> HIDE DEF S
  <2> QED BY <2>1, <2>2, Induction
<1>2. \A k \in Nat : k \in U
  <2>1. 0 \in U
    <3> SUFFICES ASSUME NEW n \in Nat, NEW m \in Nat, NEW h, NEW i,
                        Starts(h, n), Starts(i, m)
                 PROVE h[0] = i[0]
      BY 0 \in Nat
    <3> QED OBVIOUS
  <2>2. ASSUME NEW k \in Nat, k \in U PROVE k + 1 \in U
    <3> SUFFICES ASSUME NEW n \in Nat, NEW m \in Nat, NEW h, NEW i,
                        k + 1 <= n, k + 1 <= m, Starts(h, n), Starts(i, m)
                 PROVE h[k + 1] = i[k + 1]
      <4> HIDE DEF Starts
      <4> QED BY k + 1 \in Nat
    <3>1. h[k + 1] = g[h[k]] /\ i[k + 1] = g[i[k]]
      OBVIOUS
    <3>2. h[k] = i[k]
      <4> HIDE DEF Starts
      <4> QED BY <2>2
    <3> QED BY <3>1, <3>2
  <2> HIDE DEF U
  <2> QED BY <2>1, <2>2, Induction
<1> DEFINE part == [n \in Nat |-> CHOOSE h : Starts(h, n)]
           f == [n \in Nat |-> part[n][n]]
<1>3. \A n \in Nat : Starts(part[n], n)
  <2> HIDE DEF Starts
  <2> QED BY <1>1
<1>4. f \in [Nat -> X] /\ f[0] = x0
  <2> HIDE DEF part
  <2> QED BY <1>3
<1>5. ASSUME NEW k \in Nat PROVE f[k + 1] = g[f[k]]
  <2>1. part[k + 1][k + 1] = g[part[k + 1][k]]
    <3> HIDE DEF part
    <3>1. Starts(part[k + 1], k + 1)
      BY <1>3
    <3> QED BY <3>1
  <2>2. part[k + 1][k] = part[k][k]
    <3> HIDE DEF part, Starts
    <3>1. Starts(part[k + 1], k + 1) /\ Starts(part[k], k) /\ k <= k + 1
      BY <1>3
    <3> QED BY <1>2, <3>1
  <2> HIDE DEF part
  <2> QED BY <2>1, <2>2
<1> HIDE DEF f
<1> QED BY <1>4, <1>5 DEF Iterates

-----------------------------------------------------------------------------
(* The integrator: the points of a course, stride by stride                  *)

Propagators == {FromElements(e) : e \in Orbits}
Point == [atime : Int, xli : Int, xni : Int]

(* The arithmetic of dsinit, dpper and Kepler's equation stays within the    *)
(* integers.                                                                 *)
LEMMA PartIsNumber ==
  ASSUME NEW a \in Int, NEW n \in Int PROVE Part(a, n) \in Int
<1>1. a * n \in Int
  OBVIOUS
<1> QED BY <1>1 DEF Part, One

LEMMA SineIsNumber ==
  ASSUME NEW a \in Int PROVE Sine(a) \in Int /\ Cosine(a) \in Int
<1>1. \A x \in Int : Sine(x) \in Int
  BY DEF Sine, Turn, Half, Quarter
<1>2. a + Quarter \in Int
  BY DEF Quarter
<1> QED BY <1>1, <1>2 DEF Cosine

LEMMA DriftsAreNumbers ==
  ASSUME NEW e \in Orbits
  PROVE  NodeDrift(e) \in Int /\ PerigeeDrift(e) \in Int
<1>1. e.dnodt \in Int /\ e.domdt \in Int /\ e.inclo \in Int
  BY OrbitsAssumption
<1>2. NodeDrift(e) \in Int
  BY <1>1 DEF NodeDrift
<1>3. Part(Cosine(e.inclo), NodeDrift(e)) \in Int
  BY <1>1, <1>2, SineIsNumber, PartIsNumber
<1> QED BY <1>1, <1>2, <1>3 DEF PerigeeDrift

LEMMA PropagatorFacts ==
  ASSUME NEW p \in Propagators
  PROVE  /\ p.built = "yes" /\ p.method \in {"d", "n"} /\ p.irez \in {0, 1, 2}
         /\ p.method = "n" => p.irez = 0
         /\ p.ecco \in Nat /\ p.inclo \in Nat /\ p.nodeo \in Int /\ p.argpo \in Int
         /\ p.mo \in Int /\ p.no \in Int /\ p.bstar \in Int /\ p.isimp \in BOOLEAN
         /\ p.force \in Int /\ p.xlamo \in Int /\ p.xfact \in Int
         /\ p.dedt \in Int /\ p.didt \in Int /\ p.dnodt \in Int
         /\ p.domdt \in Int /\ p.dmdt \in Int
         /\ p.w.atime = 0
<1>1. PICK e \in Orbits : p = FromElements(e)
  BY DEF Propagators
<1>2. /\ e.period \in Int /\ e.nodeo \in Int /\ e.argpo \in Int /\ e.mo \in Int
      /\ e.no \in Int /\ e.bstar \in Int /\ e.dedt \in Int /\ e.didt \in Int
      /\ e.dmdt \in Int /\ e.ecco \in Nat /\ e.inclo \in Nat /\ e.low \in BOOLEAN
  BY OrbitsAssumption
<1>3. Deep(e) \in BOOLEAN /\ Resonance(e.period, e.ecco) \in {0, 1, 2}
  BY <1>2 DEF Deep, Resonance
<1>4. \A irez \in {0, 1, 2} : Strength(irez, e.ecco) \in Int
  BY <1>2 DEF Strength, One
<1>5. NodeDrift(e) \in Int /\ PerigeeDrift(e) \in Int
  BY DriftsAreNumbers
<1>6. Dsinit(e).xlamo \in Int /\ Dsinit(e).xfact \in Int
  BY <1>2, <1>5 DEF Dsinit, Turn
<1>7. CASE Deep(e)
  <2> DEFINE irez == Resonance(e.period, e.ecco)
  <2>0. /\ Dsinit(e).irez = irez /\ Dsinit(e).force = Strength(irez, e.ecco)
        /\ Dsinit(e).dedt = e.dedt /\ Dsinit(e).didt = e.didt
        /\ Dsinit(e).dnodt = NodeDrift(e) /\ Dsinit(e).domdt = PerigeeDrift(e)
        /\ Dsinit(e).dmdt = e.dmdt
    BY DEF Dsinit
  <2> HIDE DEF irez
  <2>1. /\ Dsinit(e).irez \in {0, 1, 2} /\ Dsinit(e).force \in Int
        /\ Dsinit(e).dedt \in Int /\ Dsinit(e).didt \in Int /\ Dsinit(e).dnodt \in Int
        /\ Dsinit(e).domdt \in Int /\ Dsinit(e).dmdt \in Int
    BY <1>2, <1>3, <1>4, <1>5, <2>0 DEF irez
  <2> QED BY <1>1, <1>2, <1>6, <1>7, <2>1 DEF FromElements
<1>8. CASE ~Deep(e)
  BY <1>1, <1>2, <1>3, <1>8 DEF FromElements, NoDeep
<1> QED BY <1>3, <1>7, <1>8

LEMMA RatesFacts ==
  ASSUME NEW p \in Propagators, NEW w \in Point
  PROVE  /\ Rates(p, w).xldot \in Int /\ Rates(p, w).xndt \in Int
         /\ Rates(p, w).xnddt \in Int
<1>1. p.argpo \in Int /\ p.xfact \in Int /\ p.force \in Int
  BY PropagatorFacts
<1>2. w.xli \in Int /\ w.xni \in Int /\ w.atime \in Int
  BY DEF Point
<1>3. \A a \in Int : Pull(a) \in Int /\ Slope(a) \in {1, -1}
  BY DEF Pull, Slope
<1>4. w.xni + p.xfact \in Int /\ w.xli + p.argpo + w.atime \in Int
  BY <1>1, <1>2
<1> DEFINE a == IF p.irez = 2 THEN w.xli + p.argpo + w.atime ELSE w.xli
<1>5. a \in Int
  BY <1>2, <1>4
<1>6. Rates(p, w) = [xldot |-> w.xni + p.xfact, xndt |-> p.force * Pull(a),
                     xnddt |-> p.force * Slope(a) * (w.xni + p.xfact)]
  BY DEF Rates
<1> HIDE DEF a
<1>7. p.force * Pull(a) \in Int /\ p.force * Slope(a) * (w.xni + p.xfact) \in Int
  <2> DEFINE x == w.xni + p.xfact
             y == Slope(a)
             z == Pull(a)
  <2>1. x \in Int /\ y \in Int /\ z \in Int
    BY <1>3, <1>4, <1>5
  <2> HIDE DEF x, y, z
  <2>2. p.force * z \in Int /\ p.force * y * x \in Int
    BY <1>1, <2>1
  <2> QED BY <2>2 DEF x, y, z
<1> QED BY <1>3, <1>4, <1>5, <1>6, <1>7

(* A whole stride of a course is one step of the integrator.                 *)
Whole(p, q, h) ==
  LET c == Towards(p, q, h)
  IN  [atime |-> q.atime + h, xli |-> (c.xl2 \div 2) % Turn, xni |-> c.nm2 \div 2]

LEMMA WholeIsAdvance ==
  ASSUME NEW p \in Propagators, NEW q \in Point, NEW h \in {Step, -Step}
  PROVE  Whole(p, q, h) = Advance(p, q, h) /\ Whole(p, q, h) \in Point
<1> DEFINE r == Rates(p, q)
<1>1. r.xldot \in Int /\ r.xndt \in Int /\ r.xnddt \in Int
  BY RatesFacts
<1>2. q.xli \in Int /\ q.xni \in Int /\ q.atime \in Int
  BY DEF Point
<1>3. Towards(p, q, h) = [nm2 |-> 2 * q.xni + 2 * r.xndt * h + r.xnddt * h * h,
                          xl2 |-> 2 * q.xli + 2 * r.xldot * h + r.xndt * h * h]
  BY DEF Towards
<1>4. Advance(p, q, h) = [atime |-> q.atime + h,
                          xli |-> (q.xli + r.xldot * h + r.xndt * Step2) % Turn,
                          xni |-> q.xni + r.xndt * h + r.xnddt * Step2]
  BY DEF Advance
<1> HIDE DEF r
<1>5. ASSUME NEW x \in Int, NEW y \in Int, NEW z \in Int
      PROVE  /\ (2 * x + 2 * y * h + z * h * h) \div 2 = x + y * h + z * Step2
             /\ x + y * h + z * Step2 \in Int
  <2>1. CASE h = 2
    <3>1. 2 * x + 2 * y * h + z * h * h = 2 * (x + y * h + z * Step2)
      BY <2>1 DEF Step2
    <3> QED BY <2>1, <3>1 DEF Step2
  <2>2. CASE h = -2
    <3>1. 2 * x + 2 * y * h + z * h * h = 2 * (x + y * h + z * Step2)
      BY <2>2 DEF Step2
    <3> QED BY <2>2, <3>1 DEF Step2
  <2> QED BY <2>1, <2>2 DEF Step
<1>6. /\ (2 * q.xli + 2 * r.xldot * h + r.xndt * h * h) \div 2
           = q.xli + r.xldot * h + r.xndt * Step2
      /\ (2 * q.xni + 2 * r.xndt * h + r.xnddt * h * h) \div 2
           = q.xni + r.xndt * h + r.xnddt * Step2
      /\ q.xli + r.xldot * h + r.xndt * Step2 \in Int
      /\ q.xni + r.xndt * h + r.xnddt * Step2 \in Int
  BY <1>1, <1>2, <1>5, ZenonT(60)
<1>7. (q.xli + r.xldot * h + r.xndt * Step2) % Turn \in Int /\ q.atime + h \in Int
  BY <1>2, <1>6 DEF Turn, Step
<1>8. Whole(p, q, h) = Advance(p, q, h)
  BY <1>3, <1>4, <1>6 DEF Whole
<1> QED BY <1>4, <1>6, <1>7, <1>8 DEF Point

(* The points of a course are those the integrator goes through.             *)
LEMMA PointsFacts ==
  ASSUME NEW p \in Propagators, NEW tc \in Int
  PROVE  /\ Points(p, tc)[0] = Seed(p)
         /\ \A k \in Nat : /\ Points(p, tc)[k] \in Point
                           /\ Points(p, tc)[k].atime = k * Stride(tc)
                           /\ Points(p, tc)[k + 1] = Advance(p, Points(p, tc)[k], Stride(tc))
<1> DEFINE h == Stride(tc)
           g == [q \in Point |-> Whole(p, q, h)]
           F(s) == s = [k \in Nat |->
                          IF k = 0 THEN [atime |-> 0, xli |-> p.xlamo, xni |-> p.no]
                          ELSE LET q == Towards(p, s[k - 1], Stride(tc))
                               IN  [atime |-> k * Stride(tc), xli |-> (q.xl2 \div 2) % Turn,
                                    xni |-> q.nm2 \div 2]]
<1>1. h \in {Step, -Step} /\ h \in Int
  BY DEF Stride, Step
<1>2. Seed(p) \in Point /\ Seed(p) = [atime |-> 0, xli |-> p.xlamo, xni |-> p.no]
  BY PropagatorFacts DEF Seed, Point
<1>3. PICK T \in [Nat -> Point] : T[0] = Seed(p) /\ \A k \in Nat : T[k + 1] = g[T[k]]
  <2>1. g \in [Point -> Point]
    BY <1>1, WholeIsAdvance
  <2>2. \E T : Iterates(T, Point, Seed(p), g)
    <3> HIDE DEF g
    <3> QED BY <1>2, <2>1, Iteration
  <2> HIDE DEF g
  <2> QED BY <2>2 DEF Iterates
<1>4. \A k \in Nat : T[k] \in Point /\ T[k + 1] = Whole(p, T[k], h)
  BY <1>3
<1>5. \A k \in Nat : T[k].atime = k * h
  <2> DEFINE S == {k \in Nat : T[k].atime = k * h}
  <2>1. 0 \in S
    BY <1>1, <1>2, <1>3
  <2>2. ASSUME NEW k \in Nat, k \in S PROVE k + 1 \in S
    <3>1. T[k + 1].atime = T[k].atime + h
      <4>1. ASSUME NEW q, NEW d PROVE Whole(p, q, d).atime = q.atime + d
        BY DEF Whole
      <4>2. T[k + 1] = Whole(p, T[k], h)
        BY <1>4
      <4> HIDE DEF h
      <4> QED BY <4>1, <4>2
    <3>2. T[k].atime = k * h
      BY <2>2
    <3>3. k * h + h = (k + 1) * h
      BY <1>1 DEF Step
    <3> QED BY <3>1, <3>2, <3>3
  <2> HIDE DEF S
  <2>3. \A k \in Nat : k \in S
    BY <2>1, <2>2, Induction
  <2> QED BY <2>3 DEF S
<1>6. F(T)
  <2>1. ASSUME NEW k \in Nat, k # 0
        PROVE  T[k] = LET q == Towards(p, T[k - 1], Stride(tc))
                      IN  [atime |-> k * Stride(tc), xli |-> (q.xl2 \div 2) % Turn,
                           xni |-> q.nm2 \div 2]
    <3>1. k - 1 \in Nat /\ (k - 1) + 1 = k
      BY <2>1
    <3>2. T[k] = Whole(p, T[k - 1], h)
      BY <1>4, <3>1
    <3>3. T[k].atime = k * h
      BY <1>5
    <3> QED BY <3>2, <3>3 DEF Whole
  <2>2. T[0] = [atime |-> 0, xli |-> p.xlamo, xni |-> p.no]
    BY <1>2, <1>3
  <2> DEFINE body(k) == IF k = 0 THEN [atime |-> 0, xli |-> p.xlamo, xni |-> p.no]
                        ELSE LET q == Towards(p, T[k - 1], Stride(tc))
                             IN  [atime |-> k * Stride(tc), xli |-> (q.xl2 \div 2) % Turn,
                                  xni |-> q.nm2 \div 2]
  <2>3. \A k \in Nat : T[k] = body(k)
    BY <2>1, <2>2
  <2>4. T = [k \in Nat |-> body(k)]
    <3> HIDE DEF body
    <3> QED BY <2>3, <1>3
  <2> QED BY <2>4
<1>7. Points(p, tc) = CHOOSE s : F(s)
  BY DEF Points
<1>8. F(Points(p, tc))
  <2> HIDE DEF F
  <2> QED BY <1>6, <1>7
<1> DEFINE s == Points(p, tc)
           S == {k \in Nat : s[k] = T[k]}
<1>9. \A k \in Nat : k \in S
  <2>1. 0 \in S
    BY <1>2, <1>3, <1>8
  <2>2. ASSUME NEW k \in Nat, k \in S PROVE k + 1 \in S
    <3>1. k + 1 \in Nat /\ k + 1 # 0 /\ (k + 1) - 1 = k
      OBVIOUS
    <3>2. s[k + 1] = LET q == Towards(p, s[k], Stride(tc))
                     IN  [atime |-> (k + 1) * Stride(tc), xli |-> (q.xl2 \div 2) % Turn,
                          xni |-> q.nm2 \div 2]
      <4> HIDE DEF s
      <4> QED BY <1>8, <3>1 DEF s
    <3>3. T[k + 1] = LET q == Towards(p, T[k], Stride(tc))
                     IN  [atime |-> (k + 1) * Stride(tc), xli |-> (q.xl2 \div 2) % Turn,
                          xni |-> q.nm2 \div 2]
      <4> HIDE DEF s
      <4> QED BY <1>6, <3>1
    <3>4. s[k] = T[k]
      BY <2>2
    <3> HIDE DEF s
    <3> QED BY <3>2, <3>3, <3>4
  <2> HIDE DEF S, s
  <2> QED BY <2>1, <2>2, Induction
<1>10. \A k \in Nat : Points(p, tc)[k] = T[k]
  BY <1>9
<1>11. \A k \in Nat : T[k + 1] = Advance(p, T[k], h)
  BY <1>1, <1>4, WholeIsAdvance
<1> HIDE DEF F, g
<1> QED BY <1>3, <1>4, <1>5, <1>10, <1>11

-----------------------------------------------------------------------------
(* A call, as a function of the propagator, the sums and the time alone      *)
Asked == Times \cup {0}
Begun(p, tc) == Drifted(p, Secular(p, tc))
Striding(p, tc, k) == [Begun(p, tc) EXCEPT !.w = Points(p, tc)[k]]
Arrived(p, tc) ==
  [Striding(p, tc, Strides(tc)) EXCEPT
     !.nm2 = Course(p, tc).nm2, !.xl2 = Course(p, tc).xl2,
     !.mm = Anomaly(p, Striding(p, tc, Strides(tc)), Course(p, tc).xl2), !.at = "mean"]
MeanCall(p, tc) ==
  IF p.method = "n" THEN Secular(p, tc)
  ELSE IF p.irez = 0 THEN Begun(p, tc)
  ELSE Arrived(p, tc)
MeanEcc(p, tc) == MeanCall(p, tc).em - Tempe(p, tc)
Turns(p, tc) == MeanCall(p, tc).nm2 > 0
Closed(p, tc) == -1 <= MeanEcc(p, tc) /\ MeanEcc(p, tc) < One
AfterMean(p, tc) ==
  [MeanCall(p, tc) EXCEPT !.em = AtLeast(Tiny, MeanEcc(p, tc)), !.node = @ % Turn,
                          !.argp = @ % Turn, !.mm = (@ + Templ(p, tc)) % Turn,
                          !.at = IF p.method = "d" THEN "periodic" ELSE "axes"]
AfterPeriodic(p, sums, tc) ==
  LET c == TurnedOver(Dpper(AfterMean(p, tc), sums))
  IN  [c EXCEPT !.em = Clamped(@), !.at = "axes"]
Ready(p, sums, tc) ==
  IF p.method = "d" THEN AfterPeriodic(p, sums, tc) ELSE AfterMean(p, tc)

(* The rounds of Newton, from where they start, and the one that is the last. *)
Anomalies == [eo1 : Int, tem5 : Int, ktr : Int]
Start(a) == [eo1 |-> a.u, tem5 |-> Turn, ktr |-> 1]
NewtonOf(a) == [k \in Anomalies |-> Newton(a, k)]
Rounds(a) == CHOOSE f : Iterates(f, Anomalies, Start(a), NewtonOf(a))
Reached(a, n) == \A m \in 0 .. n - 1 : Unsolved(Rounds(a)[m])
Final(a) == CHOOSE n \in Nat : Reached(a, n) /\ ~Unsolved(Rounds(a)[n])
Kepler(p, sums, tc, n) ==
  LET c == Ready(p, sums, tc)
  IN  [c EXCEPT !.axes = Axes(c), !.kep = Rounds(Axes(c))[n], !.at = "kepler"]
ReplyTo(p, sums, tc) ==
  LET a == Axes(Ready(p, sums, tc))
  IN  IF ~Turns(p, tc) THEN Failure("mean motion")
      ELSE IF ~Closed(p, tc) THEN Failure("eccentricity")
      ELSE IF OpenOrbit(a) THEN Failure("semi-latus rectum")
      ELSE Ok(Kepler(p, sums, tc, Final(a)))

Underway(p, tc) ==
  \/ call.at = "dspace" /\ p.method = "d" /\ call = Secular(p, tc)
  \/ call.at = "loop" /\ p.method = "d" /\ p.irez # 0
       /\ \E k \in 0 .. Strides(tc) : call = Striding(p, tc, k)
  \/ call.at = "mean" /\ call = MeanCall(p, tc)
  \/ call.at = "periodic" /\ p.method = "d" /\ Turns(p, tc) /\ Closed(p, tc)
       /\ call = AfterMean(p, tc)
  \/ call.at = "axes" /\ Turns(p, tc) /\ Closed(p, tc) /\ call = Ready(p, wave[tc], tc)
  \/ call.at = "kepler" /\ Turns(p, tc) /\ Closed(p, tc)
       /\ \E n \in Nat : /\ Reached(Axes(Ready(p, wave[tc], tc)), n)
                         /\ call = Kepler(p, wave[tc], tc, n)

(* Wherever a call is, it is where any call for its time would be; so every  *)
(* answer is the reply to its time, and the propagator that was built has    *)
(* one for its epoch.                                                        *)
PropInv ==
  /\ tle \in Orbits /\ wave \in Waves
  /\ prop \in {NoPropagator, Refused, FromElements(tle)}
  /\ prop.built = "yes" => ReplyTo(prop, wave[0], 0).kind = "ok"
  /\ \A a \in answers : /\ prop.built = "yes" /\ a[1] \in Times
                        /\ a = <<a[1], ReplyTo(prop, wave[a[1]], a[1])>>
  /\ call # Idle =>
       /\ prop # Refused /\ (IF Building THEN call.tc = 0 ELSE call.tc \in Times)
       /\ Underway(FromElements(tle), call.tc)

(* The fields of a call.                                                     *)
IsCall(c) ==
  c = [at |-> c.at, tc |-> c.tc, em |-> c.em, incl |-> c.incl,
       node |-> c.node, argp |-> c.argp, mm |-> c.mm, nm2 |-> c.nm2,
       xl2 |-> c.xl2, w |-> c.w, axes |-> c.axes, kep |-> c.kep]
Shaped(c) ==
  /\ IsCall(c)
  /\ c.em \in Int /\ c.incl \in Int /\ c.node \in Int /\ c.argp \in Int /\ c.mm \in Int
  /\ c.nm2 \in Int /\ c.xl2 \in Int

(* What a call is once some of its fields were replaced.                     *)
LEMMA WithPoint ==
  ASSUME NEW c, IsCall(c), NEW w
  PROVE  [c EXCEPT !.w = w]
           = [at |-> c.at, tc |-> c.tc, em |-> c.em, incl |-> c.incl,
              node |-> c.node, argp |-> c.argp, mm |-> c.mm, nm2 |-> c.nm2,
              xl2 |-> c.xl2, w |-> w, axes |-> c.axes, kep |-> c.kep]
<1> DEFINE r == [c EXCEPT !.w = w]
<1>1. r \in [at : {c.at}, tc : {c.tc}, em : {c.em}, incl : {c.incl},
             node : {c.node}, argp : {c.argp}, mm : {c.mm}, nm2 : {c.nm2},
             xl2 : {c.xl2}, w : {w}, axes : {c.axes}, kep : {c.kep}]
  BY DEF IsCall
<1> HIDE DEF r
<1>2. r = [at |-> c.at, tc |-> c.tc, em |-> c.em, incl |-> c.incl,
           node |-> c.node, argp |-> c.argp, mm |-> c.mm, nm2 |-> c.nm2,
           xl2 |-> c.xl2, w |-> w, axes |-> c.axes, kep |-> c.kep]
  BY <1>1
<1> QED BY <1>2 DEF r

LEMMA WithCourse ==
  ASSUME NEW c, IsCall(c), NEW nm2, NEW xl2, NEW mm, NEW at
  PROVE  [c EXCEPT !.nm2 = nm2, !.xl2 = xl2, !.mm = mm, !.at = at]
           = [at |-> at, tc |-> c.tc, em |-> c.em, incl |-> c.incl,
              node |-> c.node, argp |-> c.argp, mm |-> mm, nm2 |-> nm2,
              xl2 |-> xl2, w |-> c.w, axes |-> c.axes, kep |-> c.kep]
<1> DEFINE r == [c EXCEPT !.nm2 = nm2, !.xl2 = xl2, !.mm = mm, !.at = at]
<1>1. r \in [at : {at}, tc : {c.tc}, em : {c.em}, incl : {c.incl},
             node : {c.node}, argp : {c.argp}, mm : {mm}, nm2 : {nm2},
             xl2 : {xl2}, w : {c.w}, axes : {c.axes}, kep : {c.kep}]
  BY DEF IsCall
<1> HIDE DEF r
<1>2. r = [at |-> at, tc |-> c.tc, em |-> c.em, incl |-> c.incl,
           node |-> c.node, argp |-> c.argp, mm |-> mm, nm2 |-> nm2,
           xl2 |-> xl2, w |-> c.w, axes |-> c.axes, kep |-> c.kep]
  BY <1>1
<1> QED BY <1>2 DEF r

LEMMA WithMean ==
  ASSUME NEW c, IsCall(c), NEW em, NEW node, NEW argp, NEW mm, NEW at
  PROVE  [c EXCEPT !.em = em, !.node = node, !.argp = argp, !.mm = mm,
                   !.at = at]
           = [at |-> at, tc |-> c.tc, em |-> em, incl |-> c.incl,
              node |-> node, argp |-> argp, mm |-> mm, nm2 |-> c.nm2,
              xl2 |-> c.xl2, w |-> c.w, axes |-> c.axes, kep |-> c.kep]
<1> DEFINE r == [c EXCEPT !.em = em, !.node = node, !.argp = argp, !.mm = mm,
                          !.at = at]
<1>1. r \in [at : {at}, tc : {c.tc}, em : {em}, incl : {c.incl},
             node : {node}, argp : {argp}, mm : {mm}, nm2 : {c.nm2},
             xl2 : {c.xl2}, w : {c.w}, axes : {c.axes}, kep : {c.kep}]
  BY DEF IsCall
<1> HIDE DEF r
<1>2. r = [at |-> at, tc |-> c.tc, em |-> em, incl |-> c.incl, node |-> node,
           argp |-> argp, mm |-> mm, nm2 |-> c.nm2, xl2 |-> c.xl2, w |-> c.w,
           axes |-> c.axes, kep |-> c.kep]
  BY <1>1
<1> QED BY <1>2 DEF r

LEMMA WithPeriodic ==
  ASSUME NEW c, IsCall(c), NEW em, NEW incl, NEW node, NEW argp, NEW mm
  PROVE  [c EXCEPT !.em = em, !.incl = incl, !.node = node, !.argp = argp,
                   !.mm = mm]
           = [at |-> c.at, tc |-> c.tc, em |-> em, incl |-> incl,
              node |-> node, argp |-> argp, mm |-> mm, nm2 |-> c.nm2,
              xl2 |-> c.xl2, w |-> c.w, axes |-> c.axes, kep |-> c.kep]
<1> DEFINE r == [c EXCEPT !.em = em, !.incl = incl, !.node = node,
                          !.argp = argp, !.mm = mm]
<1>1. r \in [at : {c.at}, tc : {c.tc}, em : {em}, incl : {incl},
             node : {node}, argp : {argp}, mm : {mm}, nm2 : {c.nm2},
             xl2 : {c.xl2}, w : {c.w}, axes : {c.axes}, kep : {c.kep}]
  BY DEF IsCall
<1> HIDE DEF r
<1>2. r = [at |-> c.at, tc |-> c.tc, em |-> em, incl |-> incl, node |-> node,
           argp |-> argp, mm |-> mm, nm2 |-> c.nm2, xl2 |-> c.xl2, w |-> c.w,
           axes |-> c.axes, kep |-> c.kep]
  BY <1>1
<1> QED BY <1>2 DEF r

LEMMA WithTurn ==
  ASSUME NEW c, IsCall(c), NEW incl, NEW node, NEW argp
  PROVE  [c EXCEPT !.incl = incl, !.node = node, !.argp = argp]
           = [at |-> c.at, tc |-> c.tc, em |-> c.em, incl |-> incl,
              node |-> node, argp |-> argp, mm |-> c.mm, nm2 |-> c.nm2,
              xl2 |-> c.xl2, w |-> c.w, axes |-> c.axes, kep |-> c.kep]
<1> DEFINE r == [c EXCEPT !.incl = incl, !.node = node, !.argp = argp]
<1>1. r \in [at : {c.at}, tc : {c.tc}, em : {c.em}, incl : {incl},
             node : {node}, argp : {argp}, mm : {c.mm}, nm2 : {c.nm2},
             xl2 : {c.xl2}, w : {c.w}, axes : {c.axes}, kep : {c.kep}]
  BY DEF IsCall
<1> HIDE DEF r
<1>2. r = [at |-> c.at, tc |-> c.tc, em |-> c.em, incl |-> incl,
           node |-> node, argp |-> argp, mm |-> c.mm, nm2 |-> c.nm2,
           xl2 |-> c.xl2, w |-> c.w, axes |-> c.axes, kep |-> c.kep]
  BY <1>1
<1> QED BY <1>2 DEF r

LEMMA WithClamp ==
  ASSUME NEW c, IsCall(c), NEW em, NEW at
  PROVE  [c EXCEPT !.em = em, !.at = at]
           = [at |-> at, tc |-> c.tc, em |-> em, incl |-> c.incl,
              node |-> c.node, argp |-> c.argp, mm |-> c.mm, nm2 |-> c.nm2,
              xl2 |-> c.xl2, w |-> c.w, axes |-> c.axes, kep |-> c.kep]
<1> DEFINE r == [c EXCEPT !.em = em, !.at = at]
<1>1. r \in [at : {at}, tc : {c.tc}, em : {em}, incl : {c.incl},
             node : {c.node}, argp : {c.argp}, mm : {c.mm}, nm2 : {c.nm2},
             xl2 : {c.xl2}, w : {c.w}, axes : {c.axes}, kep : {c.kep}]
  BY DEF IsCall
<1> HIDE DEF r
<1>2. r = [at |-> at, tc |-> c.tc, em |-> em, incl |-> c.incl,
           node |-> c.node, argp |-> c.argp, mm |-> c.mm, nm2 |-> c.nm2,
           xl2 |-> c.xl2, w |-> c.w, axes |-> c.axes, kep |-> c.kep]
  BY <1>1
<1> QED BY <1>2 DEF r

LEMMA WithAxes ==
  ASSUME NEW c, IsCall(c), NEW axes, NEW kep, NEW at
  PROVE  [c EXCEPT !.axes = axes, !.kep = kep, !.at = at]
           = [at |-> at, tc |-> c.tc, em |-> c.em, incl |-> c.incl,
              node |-> c.node, argp |-> c.argp, mm |-> c.mm, nm2 |-> c.nm2,
              xl2 |-> c.xl2, w |-> c.w, axes |-> axes, kep |-> kep]
<1> DEFINE r == [c EXCEPT !.axes = axes, !.kep = kep, !.at = at]
<1>1. r \in [at : {at}, tc : {c.tc}, em : {c.em}, incl : {c.incl},
             node : {c.node}, argp : {c.argp}, mm : {c.mm}, nm2 : {c.nm2},
             xl2 : {c.xl2}, w : {c.w}, axes : {axes}, kep : {kep}]
  BY DEF IsCall
<1> HIDE DEF r
<1>2. r = [at |-> at, tc |-> c.tc, em |-> c.em, incl |-> c.incl,
           node |-> c.node, argp |-> c.argp, mm |-> c.mm, nm2 |-> c.nm2,
           xl2 |-> c.xl2, w |-> c.w, axes |-> axes, kep |-> kep]
  BY <1>1
<1> QED BY <1>2 DEF r

LEMMA WithRound ==
  ASSUME NEW c, IsCall(c), NEW kep
  PROVE  [c EXCEPT !.kep = kep]
           = [at |-> c.at, tc |-> c.tc, em |-> c.em, incl |-> c.incl,
              node |-> c.node, argp |-> c.argp, mm |-> c.mm, nm2 |-> c.nm2,
              xl2 |-> c.xl2, w |-> c.w, axes |-> c.axes, kep |-> kep]
<1> DEFINE r == [c EXCEPT !.kep = kep]
<1>1. r \in [at : {c.at}, tc : {c.tc}, em : {c.em}, incl : {c.incl},
             node : {c.node}, argp : {c.argp}, mm : {c.mm}, nm2 : {c.nm2},
             xl2 : {c.xl2}, w : {c.w}, axes : {c.axes}, kep : {kep}]
  BY DEF IsCall
<1> HIDE DEF r
<1>2. r = [at |-> c.at, tc |-> c.tc, em |-> c.em, incl |-> c.incl,
           node |-> c.node, argp |-> c.argp, mm |-> c.mm, nm2 |-> c.nm2,
           xl2 |-> c.xl2, w |-> c.w, axes |-> c.axes, kep |-> kep]
  BY <1>1
<1> QED BY <1>2 DEF r

LEMMA AskedAreTimes ==
  /\ Asked \subseteq Int
  /\ \A sums \in Waves : \A tc \in Asked :
       /\ sums[tc].pe \in Int /\ sums[tc].pinc \in Int /\ sums[tc].ph \in Int
       /\ sums[tc].pgh \in Int /\ sums[tc].pl \in Int
BY OrbitsAssumption DEF Asked

LEMMA DragIsNumber ==
  ASSUME NEW p \in Propagators, NEW tc \in Int
  PROVE  Wobble(p, tc) \in Int /\ Tempe(p, tc) \in Int /\ Templ(p, tc) \in Int
<1>1. p.bstar \in Int /\ p.isimp \in BOOLEAN /\ tc % 2 \in Int
  BY PropagatorFacts
<1>2. p.bstar * tc \in Int /\ p.bstar * tc * tc \in Int /\ p.bstar * (tc % 2) \in Int
  <2> DEFINE odd == tc % 2
  <2>1. odd \in Int
    BY <1>1
  <2> HIDE DEF odd
  <2>2. p.bstar * tc \in Int /\ p.bstar * odd \in Int
    BY <1>1, <2>1
  <2>3. p.bstar * tc * tc \in Int
    BY <2>2
  <2> QED BY <2>2, <2>3 DEF odd
<1>3. Wobble(p, tc) \in Int
  BY <1>2 DEF Wobble
<1> QED BY <1>2, <1>3 DEF Tempe, Templ

LEMMA SecularShape ==
  ASSUME NEW p \in Propagators, NEW tc \in Int
  PROVE  /\ Shaped(Secular(p, tc)) /\ Secular(p, tc).tc = tc /\ Secular(p, tc).w = p.w
         /\ Secular(p, tc).at = (IF p.method = "d" THEN "dspace" ELSE "mean")
         /\ Secular(p, tc).incl = p.inclo
<1>1. Wobble(p, tc) \in Int
  BY DragIsNumber
<1> QED BY <1>1, PropagatorFacts DEF Secular, IsCall, Shaped

LEMMA BegunShape ==
  ASSUME NEW p \in Propagators, NEW tc \in Int
  PROVE  /\ Shaped(Begun(p, tc)) /\ Begun(p, tc).tc = tc /\ Begun(p, tc).w = Seed(p)
         /\ Begun(p, tc).at = (IF p.irez = 0 THEN "mean" ELSE "loop")
<1> DEFINE c == Secular(p, tc)
<1>1. Shaped(c) /\ c.tc = tc /\ c.w = p.w
  BY SecularShape
<1>2. /\ p.dedt * tc \in Int /\ p.didt * tc \in Int /\ p.dnodt * tc \in Int
      /\ p.domdt * tc \in Int /\ p.dmdt * tc \in Int
  BY PropagatorFacts
<1>3. Resumed(p, c.w, tc) = Seed(p)
  BY <1>1, PropagatorFacts DEF Resumed
<1> DEFINE em == c.em + p.dedt * c.tc
           incl == c.incl + p.didt * c.tc
           node == c.node + p.dnodt * c.tc
           argp == c.argp + p.domdt * c.tc
           mm == c.mm + p.dmdt * c.tc
           w == Resumed(p, c.w, c.tc)
           at == IF p.irez = 0 THEN "mean" ELSE "loop"
<1>4. em \in Int /\ incl \in Int /\ node \in Int /\ argp \in Int /\ mm \in Int /\ w = Seed(p)
  <2> HIDE DEF c
  <2> QED BY <1>1, <1>2, <1>3 DEF Shaped
<1>5. Begun(p, tc) = [c EXCEPT !.em = em, !.incl = incl, !.node = node,
                               !.argp = argp, !.mm = mm, !.w = w, !.at = at]
  BY DEF Begun, Drifted
<1> HIDE DEF c, em, incl, node, argp, mm, w, at
<1>0. IsCall(c)
  BY <1>1 DEF Shaped
<1>6. Begun(p, tc) = [at |-> at, tc |-> c.tc, em |-> em, incl |-> incl,
                      node |-> node, argp |-> argp, mm |-> mm, nm2 |-> c.nm2,
                      xl2 |-> c.xl2, w |-> w, axes |-> c.axes, kep |-> c.kep]
  <2> DEFINE r == Begun(p, tc)
  <2>1. r \in [at : {at}, tc : {c.tc}, em : {em}, incl : {incl}, node : {node},
              argp : {argp}, mm : {mm}, nm2 : {c.nm2}, xl2 : {c.xl2}, w : {w},
              axes : {c.axes}, kep : {c.kep}]
    BY <1>0, <1>5 DEF IsCall
  <2> HIDE DEF r
  <2>2. r = [at |-> at, tc |-> c.tc, em |-> em, incl |-> incl, node |-> node,
            argp |-> argp, mm |-> mm, nm2 |-> c.nm2, xl2 |-> c.xl2, w |-> w,
            axes |-> c.axes, kep |-> c.kep]
    BY <2>1
  <2> QED BY <2>2 DEF r
<1>7. at = IF p.irez = 0 THEN "mean" ELSE "loop"
  BY DEF at
<1> QED BY <1>1, <1>4, <1>6, <1>7 DEF IsCall, Shaped

LEMMA CourseIsWhole ==
  ASSUME NEW p \in Propagators, NEW tc \in Int
  PROVE  /\ Strides(tc) \in Nat
         /\ Course(p, tc) = [nm2 |-> Course(p, tc).nm2, xl2 |-> Course(p, tc).xl2]
         /\ Course(p, tc).nm2 \in Int /\ Course(p, tc).xl2 \in Int
         /\ Course(p, tc) = Extrapolate(p, Points(p, tc)[Strides(tc)], tc)
<1> DEFINE n == Strides(tc)
           q == Points(p, tc)[n]
           r == Rates(p, q)
           h == tc - n * Stride(tc)
<1>1. n \in Nat
  BY DEF Strides, Abs, Step
<1>2. Stride(tc) \in Int
  BY DEF Stride, Step
<1>3. q \in Point /\ q.atime = n * Stride(tc)
  BY <1>1, PointsFacts
<1>4. r.xldot \in Int /\ r.xndt \in Int /\ r.xnddt \in Int
  BY <1>3, RatesFacts
<1>5. h \in Int
  BY <1>1, <1>2
<1>6. Course(p, tc) = [nm2 |-> 2 * q.xni + 2 * r.xndt * h + r.xnddt * h * h,
                       xl2 |-> 2 * q.xli + 2 * r.xldot * h + r.xndt * h * h]
  BY DEF Course, Towards
<1>7. Extrapolate(p, q, tc) = [nm2 |-> 2 * q.xni + 2 * r.xndt * h + r.xnddt * h * h,
                               xl2 |-> 2 * q.xli + 2 * r.xldot * h + r.xndt * h * h]
  BY <1>3 DEF Extrapolate
<1>8. q.xni \in Int /\ q.xli \in Int
  BY <1>3 DEF Point
<1> HIDE DEF n, q, r, h
<1>9. r.xndt * h \in Int /\ r.xnddt * h \in Int /\ r.xldot * h \in Int
  BY <1>4, <1>5
<1>10. 2 * r.xndt * h \in Int /\ r.xnddt * h * h \in Int /\ 2 * r.xldot * h \in Int
       /\ r.xndt * h * h \in Int
  BY <1>4, <1>5, <1>9
<1> QED BY <1>1, <1>6, <1>7, <1>8, <1>10 DEF n, q

LEMMA MeanCallShape ==
  ASSUME NEW p \in Propagators, NEW tc \in Int
  PROVE  /\ Shaped(MeanCall(p, tc)) /\ MeanCall(p, tc).tc = tc
         /\ MeanCall(p, tc).at = "mean"
         /\ p.method = "n" => MeanCall(p, tc).incl = p.inclo
         /\ p.irez # 0 => [nm2 |-> MeanCall(p, tc).nm2, xl2 |-> MeanCall(p, tc).xl2]
                            = Course(p, tc)
<1>1. CASE p.method = "n"
  BY <1>1, SecularShape, PropagatorFacts DEF MeanCall
<1>2. CASE p.method # "n" /\ p.irez = 0
  BY <1>2, BegunShape DEF MeanCall
<1>3. CASE p.method # "n" /\ p.irez # 0
  <2> DEFINE c == Begun(p, tc)
             w == Points(p, tc)[Strides(tc)]
             d == Striding(p, tc, Strides(tc))
             nm2 == Course(p, tc).nm2
             xl2 == Course(p, tc).xl2
             mm == Anomaly(p, d, xl2)
             at == "mean"
  <2>1. Shaped(c) /\ c.tc = tc
    BY BegunShape
  <2>2. nm2 \in Int /\ xl2 \in Int /\ Course(p, tc) = [nm2 |-> nm2, xl2 |-> xl2]
    BY CourseIsWhole
  <2>3. d = [c EXCEPT !.w = w]
    BY DEF Striding
  <2>4. MeanCall(p, tc) = [d EXCEPT !.nm2 = nm2, !.xl2 = xl2, !.mm = mm, !.at = at]
    BY <1>3 DEF MeanCall, Arrived
  <2> HIDE DEF c, d, w, nm2, xl2, mm, at
  <2>5. d = [at |-> c.at, tc |-> c.tc, em |-> c.em, incl |-> c.incl,
             node |-> c.node, argp |-> c.argp, mm |-> c.mm, nm2 |-> c.nm2,
             xl2 |-> c.xl2, w |-> w, axes |-> c.axes, kep |-> c.kep]
    BY <2>1, <2>3, WithPoint, ZenonT(60) DEF Shaped
  <2>6. IsCall(d) /\ Shaped(d) /\ d.tc = tc
    BY <2>1, <2>5 DEF IsCall, Shaped
  <2>7. MeanCall(p, tc) = [at |-> at, tc |-> d.tc, em |-> d.em,
                           incl |-> d.incl, node |-> d.node, argp |-> d.argp,
                           mm |-> mm, nm2 |-> nm2, xl2 |-> xl2, w |-> d.w,
                           axes |-> d.axes, kep |-> d.kep]
    BY <2>4, <2>6, WithCourse, ZenonT(60)
  <2>8. mm \in Int
    <3>1. d.node \in Int /\ d.argp \in Int /\ d.tc \in Int
      BY <2>6 DEF Shaped
    <3> QED BY <2>2, <3>1 DEF Anomaly, mm
  <2>9. at = "mean"
    BY DEF at
  <2> QED BY <1>3, <2>2, <2>6, <2>7, <2>8, <2>9 DEF IsCall, Shaped
<1> QED BY <1>1, <1>2, <1>3

LEMMA MeanEccIsNumber ==
  ASSUME NEW p \in Propagators, NEW tc \in Int PROVE MeanEcc(p, tc) \in Int
BY DragIsNumber, MeanCallShape DEF MeanEcc, Shaped

LEMMA AfterMeanShape ==
  ASSUME NEW p \in Propagators, NEW tc \in Int, Closed(p, tc)
  PROVE  LET c == AfterMean(p, tc)
         IN  /\ Shaped(c) /\ c.tc = tc /\ 0 < c.em /\ c.em < One
             /\ c.at = (IF p.method = "d" THEN "periodic" ELSE "axes")
             /\ c.nm2 = MeanCall(p, tc).nm2 /\ c.xl2 = MeanCall(p, tc).xl2
<1> DEFINE m == MeanCall(p, tc)
           em == AtLeast(Tiny, MeanEcc(p, tc))
           node == m.node % Turn
           argp == m.argp % Turn
           mm == (m.mm + Templ(p, tc)) % Turn
           at == IF p.method = "d" THEN "periodic" ELSE "axes"
<1>1. Shaped(m) /\ m.tc = tc
  BY MeanCallShape
<1>2. em \in Int /\ 0 < em /\ em < One
  BY MeanEccIsNumber DEF AtLeast, Tiny, One, Closed
<1>3. node \in Int /\ argp \in Int
  BY <1>1 DEF Shaped, Turn
<1>4. mm \in Int
  BY <1>1, DragIsNumber DEF Shaped, Turn
<1>5. AfterMean(p, tc) = [m EXCEPT !.em = em, !.node = node, !.argp = argp, !.mm = mm,
                                   !.at = at]
  BY DEF AfterMean
<1> HIDE DEF em, node, argp, mm, at, m
<1>0. IsCall(m)
  BY <1>1 DEF Shaped
<1>6. AfterMean(p, tc) = [at |-> at, tc |-> m.tc, em |-> em, incl |-> m.incl,
                          node |-> node, argp |-> argp, mm |-> mm,
                          nm2 |-> m.nm2, xl2 |-> m.xl2, w |-> m.w,
                          axes |-> m.axes, kep |-> m.kep]
  BY <1>0, <1>5, WithMean, ZenonT(60)
<1> QED BY <1>1, <1>2, <1>3, <1>4, <1>6 DEF IsCall, Shaped, at, m

LEMMA MovedNodeIsNumber ==
  ASSUME NEW node \in Int, NEW ph \in Int PROVE MovedNode(node, ph) \in Int
<1>1. node % Turn \in Int /\ ((node % Turn) + ph) % Turn \in Int
  BY DEF Turn
<1>2. Direction((node % Turn) + ph) \in Int
  BY <1>1 DEF Direction, Turn
<1> QED BY <1>1, <1>2 DEF MovedNode, Turn

LEMMA DpperShape ==
  ASSUME NEW c, Shaped(c), NEW sums,
         sums.pe \in Int, sums.pinc \in Int, sums.ph \in Int, sums.pgh \in Int, sums.pl \in Int
  PROVE  LET d == Dpper(c, sums)
         IN  Shaped(d) /\ d.tc = c.tc /\ d.nm2 = c.nm2 /\ d.xl2 = c.xl2
<1> DEFINE em == c.em + sums.pe
           incl == c.incl + sums.pinc
           high == incl >= Lyddane
           node == IF high THEN c.node + sums.ph ELSE MovedNode(c.node, sums.ph)
           argp == IF high THEN c.argp + sums.pgh - Part(Cosine(incl), sums.ph)
                   ELSE c.argp + Part(Cosine(incl), (c.node % Turn) - node)
           mm == c.mm + sums.pl
<1>1. /\ IsCall(c) /\ c.em \in Int /\ c.incl \in Int /\ c.node \in Int /\ c.argp \in Int
      /\ c.mm \in Int
  BY DEF Shaped
<1>2. em \in Int /\ incl \in Int /\ mm \in Int
  BY <1>1
<1>3. node \in Int
  <2>1. c.node + sums.ph \in Int
    BY <1>1
  <2>2. MovedNode(c.node, sums.ph) \in Int
    BY <1>1, MovedNodeIsNumber
  <2> QED BY <2>1, <2>2
<1>4. argp \in Int
  <2>1. Cosine(incl) \in Int
    BY <1>2, SineIsNumber
  <2>2. (c.node % Turn) - node \in Int
    <3> HIDE DEF node
    <3> QED BY <1>1, <1>3 DEF Turn
  <2>3. Part(Cosine(incl), sums.ph) \in Int
    BY <2>1, PartIsNumber
  <2>4. Part(Cosine(incl), (c.node % Turn) - node) \in Int
    <3> HIDE DEF node, incl
    <3> QED BY <2>1, <2>2, PartIsNumber
  <2> HIDE DEF node, incl, high
  <2> QED BY <1>1, <2>3, <2>4
<1>5. Dpper(c, sums) = [c EXCEPT !.em = em, !.incl = incl, !.node = node, !.argp = argp,
                                 !.mm = mm]
  BY DEF Dpper
<1> HIDE DEF em, incl, high, node, argp, mm
<1>6. Dpper(c, sums) = [at |-> c.at, tc |-> c.tc, em |-> em, incl |-> incl,
                        node |-> node, argp |-> argp, mm |-> mm,
                        nm2 |-> c.nm2, xl2 |-> c.xl2, w |-> c.w,
                        axes |-> c.axes, kep |-> c.kep]
  BY <1>1, <1>5, WithPeriodic, ZenonT(60)
<1> QED BY <1>1, <1>2, <1>3, <1>4, <1>6 DEF IsCall, Shaped

LEMMA TurnedOverShape ==
  ASSUME NEW c, Shaped(c)
  PROVE  LET d == TurnedOver(c)
         IN  Shaped(d) /\ d.tc = c.tc /\ d.nm2 = c.nm2 /\ d.xl2 = c.xl2
<1> DEFINE incl == -c.incl
           node == c.node + Half
           argp == c.argp - Half
<1>1. CASE c.incl < 0
  <2>1. IsCall(c) /\ incl \in Int /\ node \in Int /\ argp \in Int
    BY DEF Shaped, Half
  <2>2. TurnedOver(c) = [c EXCEPT !.incl = incl, !.node = node, !.argp = argp]
    BY <1>1 DEF TurnedOver
  <2> HIDE DEF incl, node, argp
  <2>3. TurnedOver(c) = [at |-> c.at, tc |-> c.tc, em |-> c.em, incl |-> incl,
                         node |-> node, argp |-> argp, mm |-> c.mm,
                         nm2 |-> c.nm2, xl2 |-> c.xl2, w |-> c.w,
                         axes |-> c.axes, kep |-> c.kep]
    BY <2>1, <2>2, WithTurn, ZenonT(60)
  <2> QED BY <2>1, <2>3 DEF IsCall, Shaped
<1>2. CASE ~(c.incl < 0)
  BY <1>2 DEF TurnedOver
<1> QED BY <1>1, <1>2

LEMMA ReadyShape ==
  ASSUME NEW p \in Propagators, NEW tc \in Asked, NEW sums \in Waves, Closed(p, tc)
  PROVE  LET c == Ready(p, sums[tc], tc)
         IN  /\ Shaped(c) /\ c.tc = tc /\ c.at = "axes" /\ 0 < c.em /\ c.em < One
             /\ c.nm2 = MeanCall(p, tc).nm2 /\ c.xl2 = MeanCall(p, tc).xl2
<1> DEFINE c == AfterMean(p, tc)
           o == TurnedOver(Dpper(c, sums[tc]))
           em == Clamped(o.em)
           at == "axes"
<1>1. /\ tc \in Int /\ sums[tc].pe \in Int /\ sums[tc].pinc \in Int /\ sums[tc].ph \in Int
      /\ sums[tc].pgh \in Int /\ sums[tc].pl \in Int
  BY AskedAreTimes
<1>2. /\ Shaped(c) /\ c.tc = tc /\ 0 < c.em /\ c.em < One
      /\ c.at = (IF p.method = "d" THEN "periodic" ELSE "axes")
      /\ c.nm2 = MeanCall(p, tc).nm2 /\ c.xl2 = MeanCall(p, tc).xl2
  BY <1>1, AfterMeanShape
<1>3. CASE p.method = "n"
  BY <1>2, <1>3 DEF Ready
<1>4. CASE p.method = "d"
  <2>1. Shaped(o) /\ o.tc = c.tc /\ o.nm2 = c.nm2 /\ o.xl2 = c.xl2
    <3> DEFINE d == Dpper(c, sums[tc])
    <3> HIDE DEF c
    <3>1. Shaped(d) /\ d.tc = c.tc /\ d.nm2 = c.nm2 /\ d.xl2 = c.xl2
      BY <1>1, <1>2, DpperShape
    <3> HIDE DEF d
    <3>2. /\ Shaped(TurnedOver(d)) /\ TurnedOver(d).tc = d.tc
          /\ TurnedOver(d).nm2 = d.nm2 /\ TurnedOver(d).xl2 = d.xl2
      BY <3>1, TurnedOverShape
    <3> QED BY <3>1, <3>2 DEF d
  <2>2. Ready(p, sums[tc], tc) = [o EXCEPT !.em = em, !.at = at]
    BY <1>4 DEF Ready, AfterPeriodic
  <2>3. em \in Int /\ 0 < em /\ em < One
    <3> HIDE DEF o
    <3> QED BY <2>1 DEF Clamped, Shaped, Tiny, One
  <2> HIDE DEF o, c, em, at
  <2>4. Ready(p, sums[tc], tc) = [at |-> at, tc |-> o.tc, em |-> em,
                                  incl |-> o.incl, node |-> o.node,
                                  argp |-> o.argp, mm |-> o.mm, nm2 |-> o.nm2,
                                  xl2 |-> o.xl2, w |-> o.w, axes |-> o.axes,
                                  kep |-> o.kep]
    BY <2>1, <2>2, WithClamp, ZenonT(60) DEF Shaped
  <2> QED BY <1>2, <2>1, <2>3, <2>4 DEF IsCall, Shaped, at
<1> QED BY <1>3, <1>4, PropagatorFacts

(* The axes are integers, so that Newton's rounds go on as long as they are  *)
(* asked to.                                                                 *)
LEMMA AxesAreNumbers ==
  ASSUME NEW c, Shaped(c), 0 < c.em, c.em < One
  PROVE  Axes(c).axnl \in Int /\ Axes(c).aynl \in Int /\ Axes(c).u \in Int
<1>1. c.em \in Int /\ c.incl \in Int /\ c.argp \in Int /\ c.mm \in Int
  BY DEF Shaped
<1> DEFINE d == One * One - c.em * c.em
<1>2. d \in Int /\ d > 0
  <2>1. c.em * c.em \in Int /\ c.em * c.em <= 1023 * 1023
    <3>1. c.em \in 1 .. 1023
      BY <1>1 DEF One
    <3> QED BY <3>1
  <2> QED BY <2>1 DEF One
<1> HIDE DEF d
<1>3. (One * One) \div d \in Int
  BY <1>2 DEF One
<1>4. Lift(c) \in Int
  <2>1. Sine(c.incl) \in Int
    BY <1>1, SineIsNumber
  <2>2. Part(Sine(c.incl), (One * One) \div d) \in Int
    BY <1>3, <2>1, PartIsNumber
  <2> QED BY <2>2 DEF Lift, d
<1>5. Part(Cosine(c.argp), c.em) \in Int /\ Part(Sine(c.argp), c.em) \in Int
  BY <1>1, SineIsNumber, PartIsNumber
<1>6. Part(Lift(c), Part(Cosine(c.argp), c.em)) \in Int
  BY <1>4, <1>5, PartIsNumber
<1> QED BY <1>1, <1>4, <1>5, <1>6 DEF Axes, Turn

LEMMA NewtonIsNumber ==
  ASSUME NEW a, a.axnl \in Int, a.aynl \in Int, a.u \in Int, NEW k \in Anomalies
  PROVE  Newton(a, k) \in Anomalies
<1> DEFINE s == Sine(k.eo1)
           c == Cosine(k.eo1)
           numer == (a.u - k.eo1) * One + Radian * (Part(s, a.axnl) - Part(c, a.aynl))
           denom == One - Part(c, a.axnl) - Part(s, a.aynl)
           t == Correction(numer, denom)
<1>1. k.eo1 \in Int /\ k.ktr \in Int
  BY DEF Anomalies
<1>2. s \in Int /\ c \in Int
  BY <1>1, SineIsNumber
<1> HIDE DEF s, c
<1>3. /\ Part(s, a.axnl) \in Int /\ Part(c, a.aynl) \in Int
      /\ Part(c, a.axnl) \in Int /\ Part(s, a.aynl) \in Int
  BY <1>2, PartIsNumber
<1>4. numer \in Int /\ denom \in Int
  BY <1>1, <1>3 DEF One, Radian
<1> HIDE DEF numer, denom
<1>5. t \in Int
  <2>1. \A x \in Int : Clamp(x) \in Int
    BY DEF Clamp, Largest
  <2>2. denom # 0 => Abs(numer) \div Abs(denom) \in Int
    <3>1. Abs(numer) \in Int /\ Abs(denom) \in Int /\ (denom # 0 => Abs(denom) > 0)
      BY <1>4 DEF Abs
    <3> DEFINE x == Abs(numer)
               y == Abs(denom)
    <3> HIDE DEF x, y
    <3>2. x \in Int /\ y \in Int /\ (denom # 0 => y > 0)
      BY <3>1 DEF x, y
    <3>3. denom # 0 => x \div y \in Int
      BY <3>2
    <3> QED BY <3>3 DEF x, y
  <2>3. numer * One \in Int
    BY <1>4 DEF One
  <2> DEFINE size == Clamp(Abs(numer) \div Abs(denom))
  <2>4. denom # 0 => size \in Int
    BY <2>1, <2>2
  <2>5. t = IF denom = 0 THEN Clamp(numer * One)
            ELSE IF numer * denom < 0 THEN -size ELSE size
    BY DEF Correction
  <2> HIDE DEF size, t
  <2> QED BY <2>1, <2>3, <2>4, <2>5
<1> HIDE DEF t
<1>6. Newton(a, k) = [eo1 |-> k.eo1 + t, tem5 |-> t, ktr |-> k.ktr + 1]
  BY DEF Newton, t, numer, denom, s, c
<1> QED BY <1>1, <1>5, <1>6 DEF Anomalies

LEMMA RoundsFacts ==
  ASSUME NEW a, a.axnl \in Int, a.aynl \in Int, a.u \in Int
  PROVE  /\ Rounds(a)[0] = Start(a)
         /\ \A n \in Nat : Rounds(a)[n + 1] = Newton(a, Rounds(a)[n])
<1> DEFINE g == NewtonOf(a)
<1>1. Start(a) \in Anomalies
  BY DEF Start, Anomalies, Turn
<1>2. g \in [Anomalies -> Anomalies]
  BY NewtonIsNumber DEF NewtonOf
<1>3. \E f : Iterates(f, Anomalies, Start(a), g)
  <2> HIDE DEF g
  <2> QED BY <1>1, <1>2, Iteration
<1>4. Iterates(Rounds(a), Anomalies, Start(a), g)
  BY <1>3 DEF Rounds
<1>5. \A k \in Anomalies : g[k] = Newton(a, k)
  BY DEF NewtonOf
<1> HIDE DEF g
<1>6. /\ Rounds(a) \in [Nat -> Anomalies] /\ Rounds(a)[0] = Start(a)
      /\ \A n \in Nat : Rounds(a)[n + 1] = g[Rounds(a)[n]]
  BY <1>4 DEF Iterates
<1> QED BY <1>5, <1>6

(* Only one round can be the last.                                           *)
LEMMA OneFinal ==
  ASSUME NEW a, NEW n \in Nat, Reached(a, n), ~Unsolved(Rounds(a)[n])
  PROVE  n = Final(a)
<1> DEFINE IsFinal(m) == Reached(a, m) /\ ~Unsolved(Rounds(a)[m])
<1>1. Final(a) = CHOOSE m \in Nat : IsFinal(m)
  BY DEF Final
<1>2. \A m \in Nat : IsFinal(m) => m = n
  <2> SUFFICES ASSUME NEW m \in Nat, IsFinal(m), m # n PROVE FALSE
    OBVIOUS
  <2>1. CASE m < n
    <3>1. m \in 0 .. n - 1
      BY <2>1
    <3> QED BY <3>1 DEF Reached
  <2>2. CASE n < m
    <3>1. n \in 0 .. m - 1
      BY <2>2
    <3> QED BY <3>1 DEF Reached
  <2> QED BY <2>1, <2>2
<1> HIDE DEF IsFinal
<1>3. IsFinal(n)
  BY DEF IsFinal
<1> QED BY <1>1, <1>2, <1>3

LEMMA KeplerShape ==
  ASSUME NEW p \in Propagators, NEW tc \in Asked, NEW sums \in Waves, Closed(p, tc), NEW n
  PROVE  LET c == Ready(p, sums[tc], tc)
             d == Kepler(p, sums[tc], tc, n)
         IN  /\ IsCall(d) /\ d.tc = tc /\ d.at = "kepler"
             /\ d.axes = Axes(c) /\ d.kep = Rounds(Axes(c))[n]
             /\ d.nm2 = MeanCall(p, tc).nm2 /\ d.xl2 = MeanCall(p, tc).xl2
<1> DEFINE c == Ready(p, sums[tc], tc)
           d == Kepler(p, sums[tc], tc, n)
           axes == Axes(c)
           kep == Rounds(axes)[n]
           at == "kepler"
<1>1. /\ IsCall(c) /\ c.tc = tc /\ c.nm2 = MeanCall(p, tc).nm2
      /\ c.xl2 = MeanCall(p, tc).xl2
  BY ReadyShape DEF Shaped
<1>2. d = [c EXCEPT !.axes = axes, !.kep = kep, !.at = at]
  BY DEF Kepler
<1> HIDE DEF c, d, axes, kep, at
<1>3. d = [at |-> at, tc |-> c.tc, em |-> c.em, incl |-> c.incl,
           node |-> c.node, argp |-> c.argp, mm |-> c.mm, nm2 |-> c.nm2,
           xl2 |-> c.xl2, w |-> c.w, axes |-> axes, kep |-> kep]
  BY <1>1, <1>2, WithAxes, ZenonT(60)
<1> QED BY <1>1, <1>3 DEF IsCall, at, c, d, axes, kep

LEMMA ReadyAxes ==
  ASSUME NEW p \in Propagators, NEW tc \in Asked, NEW sums \in Waves, Closed(p, tc),
         NEW a, a = Axes(Ready(p, sums[tc], tc))
  PROVE  /\ Rounds(a)[0] = Start(a)
         /\ \A n \in Nat : Rounds(a)[n + 1] = Newton(a, Rounds(a)[n])
<1> DEFINE c == Ready(p, sums[tc], tc)
<1>1. Shaped(c) /\ 0 < c.em /\ c.em < One
  BY ReadyShape
<1> HIDE DEF c
<1>2. Axes(c).axnl \in Int /\ Axes(c).aynl \in Int /\ Axes(c).u \in Int
  BY <1>1, AxesAreNumbers
<1>3. a = Axes(c)
  BY DEF c
<1> QED BY <1>2, <1>3, RoundsFacts

-----------------------------------------------------------------------------
(* Every step of a call keeps it where any call for its time would be        *)

(* The loop has strides left exactly until the last whole one, and each is   *)
(* in the direction of the time.                                             *)
LEMMA StridesLeft ==
  ASSUME NEW tc \in Int, NEW k \in 0 .. Strides(tc), NEW w, w.atime = k * Stride(tc)
  PROVE  /\ MoreSteps(w, tc) <=> k < Strides(tc)
         /\ k < Strides(tc) => Delt(tc) = Stride(tc)
<1>1. CASE tc < 0
  <2>1. Strides(tc) = (-tc) \div 2 /\ Stride(tc) = -2 /\ Delt(tc) = -2
    BY <1>1 DEF Strides, Stride, Delt, Abs, Step
  <2>2. w.atime = -2 * k /\ k \in Int /\ k <= (-tc) \div 2 /\ tc - w.atime = tc + 2 * k
    BY <2>1
  <2>3. tc + 2 * k <= 0
    BY <2>1, <2>2
  <2>4. MoreSteps(w, tc) <=> -(tc + 2 * k) >= 2
    BY <2>2, <2>3 DEF MoreSteps, Abs, Step
  <2> QED BY <1>1, <2>1, <2>2, <2>4
<1>2. CASE tc >= 0
  <2>1. Strides(tc) = tc \div 2 /\ Stride(tc) = 2 /\ (tc > 0 => Delt(tc) = 2)
    BY <1>2 DEF Strides, Stride, Delt, Abs, Step
  <2>2. w.atime = 2 * k /\ k \in Int /\ k <= tc \div 2
    BY <2>1
  <2>3. tc - 2 * k >= 0
    BY <2>1, <2>2
  <2>4. MoreSteps(w, tc) <=> tc - 2 * k >= 2
    BY <2>2, <2>3 DEF MoreSteps, Abs, Step
  <2>5. k < tc \div 2 => tc > 0
    BY <1>2, <2>2
  <2> QED BY <1>2, <2>1, <2>2, <2>4, <2>5
<1> QED BY <1>1, <1>2

LEMMA CurrentOne ==
  ASSUME PropInv, call # Idle
  PROVE  /\ Current = FromElements(tle) /\ Current \in Propagators
         /\ call.tc \in Asked /\ call.tc \in Int /\ wave \in Waves
         /\ Underway(Current, call.tc)
<1>1. FromElements(tle).built = "yes" /\ NoPropagator.built = "no"
  BY DEF FromElements, NoPropagator
<1>2. Current = FromElements(tle)
  BY <1>1 DEF PropInv, Current, Building
<1>3. call.tc \in Asked
  BY DEF PropInv, Asked
<1> QED BY <1>2, <1>3, AskedAreTimes DEF PropInv, Propagators

LEMMA ReplyKeeps ==
  ASSUME PropInv, call # Idle,
         Reply(ReplyTo(Current, wave[call.tc], call.tc))
  PROVE  PropInv'
<1> DEFINE tc == call.tc
           r == ReplyTo(Current, wave[tc], tc)
<1>1. Current = FromElements(tle) /\ tc \in Asked
  BY CurrentOne
<1>2. call' = Idle /\ tle' = tle /\ wave' = wave
  BY DEF Reply
<1>3. FromElements(tle).built = "yes" /\ NoPropagator.built = "no" /\ Refused.built = "refused"
  BY DEF FromElements, NoPropagator, Refused
<1>4. CASE Building
  <2>1. prop' = (IF r.kind = "ok" THEN Current ELSE Refused) /\ answers' = answers /\ tc = 0
    BY <1>4 DEF Reply, PropInv
  <2>2. answers = {}
    BY <1>4 DEF PropInv, Building
  <2>3. prop'.built = "yes" => ReplyTo(prop', wave'[0], 0).kind = "ok"
    BY <1>1, <1>2, <1>3, <2>1
  <2>4. prop' \in {NoPropagator, Refused, FromElements(tle')}
    BY <1>1, <1>2, <2>1
  <2> QED BY <1>2, <2>1, <2>2, <2>3, <2>4 DEF PropInv
<1>5. CASE ~Building
  <2>1. prop' = prop /\ answers' = answers \cup {<<tc, r>>}
    BY <1>5 DEF Reply
  <2>2. prop = FromElements(tle) /\ Current = prop
    BY <1>3, <1>5 DEF PropInv, Building, Current
  <2>3. tc \in Times
    BY <1>5 DEF PropInv
  <2>4. \A a \in answers' : /\ prop'.built = "yes" /\ a[1] \in Times
                            /\ a = <<a[1], ReplyTo(prop', wave'[a[1]], a[1])>>
    BY <1>2, <1>3, <2>1, <2>2, <2>3 DEF PropInv
  <2>5. prop' \in {NoPropagator, Refused, FromElements(tle')}
    BY <1>2, <2>1, <2>2
  <2>6. prop'.built = "yes" => ReplyTo(prop', wave'[0], 0).kind = "ok"
    BY <1>2, <2>1 DEF PropInv
  <2> QED BY <1>2, <2>4, <2>5, <2>6 DEF PropInv
<1> QED BY <1>4, <1>5

(* A step of a call that replaces nothing else.                              *)
LEMMA CallKeeps ==
  ASSUME PropInv, call # Idle, NEW p, NEW tc, p = Current, tc = call.tc,
         call'.tc = tc, UNCHANGED <<tle, wave, prop, answers>>, Underway(p, tc)'
  PROVE  PropInv'
<1>1. Current = FromElements(tle) /\ tle' = tle
  BY CurrentOne
<1>2. Underway(FromElements(tle), call.tc)'
  BY <1>1
<1> QED BY <1>2 DEF PropInv, Building

LEMMA BeginKeeps ==
  ASSUME PropInv, call = Idle, NEW p \in Propagators, NEW tc \in Int,
         prop # Refused, p = FromElements(tle), IF Building THEN tc = 0 ELSE tc \in Times,
         call' = Secular(p, tc), UNCHANGED <<tle, wave, prop, answers>>
  PROVE  PropInv'
<1>1. /\ call'.tc = tc
      /\ call'.at = (IF p.method = "d" THEN "dspace" ELSE "mean")
      /\ p.method \in {"d", "n"}
  BY SecularShape, PropagatorFacts
<1>2. p.method = "n" => call' = MeanCall(p, tc)
  BY DEF MeanCall
<1>3. Underway(p, tc)'
  BY <1>1, <1>2 DEF Underway
<1> QED BY <1>1, <1>3 DEF PropInv, Building

LEMMA DspaceKeeps ==
  ASSUME PropInv, Dspace PROVE PropInv'
<1>1. call # Idle /\ call.at = "dspace"
  BY DEF Dspace, Idle
<1>2. PICK p \in Propagators, tc \in Int : p = Current /\ tc = call.tc
  BY <1>1, CurrentOne
<1>3. p.method = "d" /\ call = Secular(p, tc)
  BY <1>1, <1>2, CurrentOne DEF Underway
<1>4. call' = Begun(p, tc)
  BY <1>2, <1>3 DEF Dspace, Begun
<1>5. call'.tc = tc /\ call'.at = (IF p.irez = 0 THEN "mean" ELSE "loop")
      /\ Shaped(call') /\ call'.w = Seed(p)
  BY <1>2, <1>4, BegunShape
<1>6. CASE p.irez = 0
  <2>1. call' = MeanCall(p, tc)
    BY <1>3, <1>4, <1>6 DEF MeanCall
  <2>2. Underway(p, tc)'
    BY <1>5, <1>6, <2>1 DEF Underway
  <2> QED BY <1>1, <1>2, <1>5, <2>2, CallKeeps DEF Dspace
<1>7. CASE p.irez # 0
  <2>1. Strides(tc) \in Nat /\ Points(p, tc)[0] = Seed(p)
    BY <1>2, CourseIsWhole, PointsFacts
  <2>2. call' = Striding(p, tc, 0)
    <3> DEFINE c == Begun(p, tc)
    <3>1. IsCall(c) /\ c.w = Seed(p)
      BY <1>4, <1>5 DEF Shaped
    <3>2. Striding(p, tc, 0) = [c EXCEPT !.w = c.w]
      BY <2>1, <3>1 DEF Striding
    <3> HIDE DEF c
    <3>3. [c EXCEPT !.w = c.w] = c
      BY <3>1, WithPoint DEF IsCall
    <3> QED BY <1>4, <3>2, <3>3 DEF c
  <2>3. 0 \in 0 .. Strides(tc)
    BY <2>1
  <2>4. Underway(p, tc)'
    BY <1>3, <1>5, <1>7, <2>2, <2>3 DEF Underway
  <2> QED BY <1>1, <1>2, <1>5, <2>4, CallKeeps DEF Dspace
<1> QED BY <1>6, <1>7

LEMMA IntegrateKeeps ==
  ASSUME PropInv, Integrate PROVE PropInv'
<1>1. call # Idle /\ call.at = "loop" /\ MoreSteps(call.w, call.tc)
  BY DEF Integrate, Idle
<1>2. PICK p \in Propagators, tc \in Int : p = Current /\ tc = call.tc
  BY <1>1, CurrentOne
<1>3. p.method = "d" /\ p.irez # 0 /\ \E k \in 0 .. Strides(tc) : call = Striding(p, tc, k)
  BY <1>1, <1>2, CurrentOne, MeanCallShape, PropagatorFacts DEF Underway
<1>4. PICK k \in 0 .. Strides(tc) : call = Striding(p, tc, k)
  BY <1>3
<1> DEFINE q == Points(p, tc)[k]
           q1 == Points(p, tc)[k + 1]
<1>5. Strides(tc) \in Nat /\ k \in Nat
  BY CourseIsWhole
<1>6. q.atime = k * Stride(tc) /\ q1 = Advance(p, q, Stride(tc))
  BY <1>5, PointsFacts
<1>7. \A w : [Begun(p, tc) EXCEPT !.w = w].w = w /\ [Begun(p, tc) EXCEPT !.w = w].tc = tc
              /\ [Begun(p, tc) EXCEPT !.w = w].at = "loop"
  BY <1>3, BegunShape, WithPoint DEF Shaped
<1>8. call.w = q
  BY <1>4, <1>7 DEF Striding
<1>9. k < Strides(tc) /\ Delt(tc) = Stride(tc)
  BY <1>1, <1>2, <1>6, <1>8, StridesLeft
<1>10. call' = Striding(p, tc, k + 1)
  <2> DEFINE c == Begun(p, tc)
  <2>1. IsCall(c)
    BY BegunShape DEF Shaped
  <2>2. call' = [call EXCEPT !.w = q1]
    BY <1>2, <1>6, <1>8, <1>9 DEF Integrate
  <2>3. call = [c EXCEPT !.w = q] /\ Striding(p, tc, k + 1) = [c EXCEPT !.w = q1]
    BY <1>4 DEF Striding
  <2> HIDE DEF c, q, q1
  <2> QED BY <2>1, <2>2, <2>3, WithPoint DEF IsCall
<1>11. k + 1 \in 0 .. Strides(tc) /\ call'.tc = tc /\ call'.at = "loop"
  BY <1>5, <1>7, <1>9, <1>10 DEF Striding
<1>12. Underway(p, tc)'
  BY <1>3, <1>10, <1>11 DEF Underway
<1> QED BY <1>1, <1>2, <1>11, <1>12, CallKeeps DEF Integrate

LEMMA ArriveKeeps ==
  ASSUME PropInv, Arrive PROVE PropInv'
<1>1. call # Idle /\ call.at = "loop" /\ ~MoreSteps(call.w, call.tc)
  BY DEF Arrive, Idle
<1>2. PICK p \in Propagators, tc \in Int : p = Current /\ tc = call.tc
  BY <1>1, CurrentOne
<1>3. p.method = "d" /\ p.irez # 0 /\ \E k \in 0 .. Strides(tc) : call = Striding(p, tc, k)
  BY <1>1, <1>2, CurrentOne DEF Underway
<1>4. PICK k \in 0 .. Strides(tc) : call = Striding(p, tc, k)
  BY <1>3
<1> DEFINE q == Points(p, tc)[k]
<1>5. Strides(tc) \in Nat /\ k \in Nat
  BY CourseIsWhole
<1>6. q.atime = k * Stride(tc)
  BY <1>5, PointsFacts
<1>7. call.w = q /\ call.tc = tc
  BY <1>4, BegunShape, WithPoint DEF Shaped, Striding
<1>8. k = Strides(tc)
  BY <1>1, <1>2, <1>5, <1>6, <1>7, StridesLeft
<1>9. Course(p, tc) = Extrapolate(p, q, tc)
  BY <1>8, CourseIsWhole
<1>10. call' = Arrived(p, tc)
  BY <1>2, <1>4, <1>7, <1>8, <1>9 DEF Arrive, Arrived
<1>11. call' = MeanCall(p, tc) /\ call'.tc = tc /\ call'.at = "mean"
  BY <1>3, <1>10, MeanCallShape DEF MeanCall
<1>12. Underway(p, tc)'
  BY <1>11 DEF Underway
<1> QED BY <1>1, <1>2, <1>11, <1>12, CallKeeps DEF Arrive

LEMMA MeanKeeps ==
  ASSUME PropInv, Mean PROVE PropInv'
<1>1. call # Idle /\ call.at = "mean"
  BY DEF Mean, Idle
<1>2. PICK p \in Propagators, tc \in Int : p = Current /\ tc = call.tc
  BY <1>1, CurrentOne
<1>3. call = MeanCall(p, tc)
  BY <1>1, <1>2, CurrentOne DEF Underway
<1>4. Turns(p, tc) /\ Closed(p, tc) /\ call' = AfterMean(p, tc)
  BY <1>2, <1>3 DEF Mean, Turns, Closed, MeanEcc, AfterMean
<1>5. call'.tc = tc /\ call'.at = (IF p.method = "d" THEN "periodic" ELSE "axes")
  BY <1>4, AfterMeanShape
<1>6. p.method = "n" => Ready(p, wave'[tc], tc) = AfterMean(p, tc)
  BY DEF Ready
<1>7. Underway(p, tc)'
  BY <1>4, <1>5, <1>6, PropagatorFacts DEF Underway
<1> QED BY <1>1, <1>2, <1>5, <1>7, CallKeeps DEF Mean

LEMMA PeriodicKeeps ==
  ASSUME PropInv, Periodic PROVE PropInv'
<1>1. call # Idle /\ call.at = "periodic"
  BY DEF Periodic, Idle
<1>2. PICK p \in Propagators, tc \in Asked : p = Current /\ tc = call.tc
  BY <1>1, CurrentOne
<1>3. p.method = "d" /\ Turns(p, tc) /\ Closed(p, tc) /\ call = AfterMean(p, tc)
  BY <1>1, <1>2, CurrentOne DEF Underway
<1>4. wave' = wave /\ wave \in Waves
  BY <1>1, CurrentOne DEF Periodic
<1>5. call' = Ready(p, wave[tc], tc)
  BY <1>2, <1>3 DEF Periodic, Ready, AfterPeriodic
<1>6. call'.tc = tc /\ call'.at = "axes"
  BY <1>3, <1>4, <1>5, ReadyShape
<1>7. Underway(p, tc)'
  BY <1>3, <1>4, <1>5, <1>6 DEF Underway
<1> QED BY <1>1, <1>2, <1>6, <1>7, CallKeeps DEF Periodic

LEMMA SetUpKeeps ==
  ASSUME PropInv, SetUp PROVE PropInv'
<1>1. call # Idle /\ call.at = "axes"
  BY DEF SetUp, Idle
<1>2. PICK p \in Propagators, tc \in Asked : p = Current /\ tc = call.tc
  BY <1>1, CurrentOne
<1>3. Turns(p, tc) /\ Closed(p, tc) /\ call = Ready(p, wave[tc], tc)
  BY <1>1, <1>2, CurrentOne DEF Underway
<1>4. wave' = wave /\ wave \in Waves
  BY <1>1, CurrentOne DEF SetUp
<1> DEFINE a == Axes(Ready(p, wave[tc], tc))
<1>5. Rounds(a)[0] = Start(a)
  BY <1>3, <1>4, ReadyAxes
<1>6. call' = Kepler(p, wave[tc], tc, 0)
  BY <1>3, <1>5 DEF SetUp, Kepler, Start
<1>7. call'.tc = tc /\ call'.at = "kepler" /\ Reached(a, 0)
  BY <1>3, <1>4, <1>6, KeplerShape DEF Reached
<1>8. Underway(p, tc)'
  BY <1>3, <1>4, <1>6, <1>7 DEF Underway
<1> QED BY <1>1, <1>2, <1>7, <1>8, CallKeeps DEF SetUp

LEMMA IterateKeeps ==
  ASSUME PropInv, Iterate PROVE PropInv'
<1>1. call # Idle /\ call.at = "kepler" /\ Unsolved(call.kep)
  BY DEF Iterate, Idle
<1>2. PICK p \in Propagators, tc \in Asked : p = Current /\ tc = call.tc
  BY <1>1, CurrentOne
<1> DEFINE c == Ready(p, wave[tc], tc)
           a == Axes(c)
<1>3. /\ Turns(p, tc) /\ Closed(p, tc)
      /\ \E n \in Nat : Reached(a, n) /\ call = Kepler(p, wave[tc], tc, n)
  BY <1>1, <1>2, CurrentOne DEF Underway
<1>4. PICK n \in Nat : Reached(a, n) /\ call = Kepler(p, wave[tc], tc, n)
  BY <1>3
<1>5. wave' = wave /\ wave \in Waves
  BY <1>1, CurrentOne DEF Iterate
<1>6. call.axes = a /\ call.kep = Rounds(a)[n]
  BY <1>3, <1>4, <1>5, KeplerShape
<1>7. Rounds(a)[n + 1] = Newton(a, Rounds(a)[n])
  BY <1>3, <1>5, ReadyAxes
<1>8. call' = Kepler(p, wave[tc], tc, n + 1)
  <2> DEFINE k == Rounds(a)[n]
             k1 == Rounds(a)[n + 1]
  <2>1. call' = [call EXCEPT !.kep = k1]
    BY <1>6, <1>7 DEF Iterate
  <2>2. IsCall(c)
    BY <1>3, <1>5, ReadyShape DEF Shaped
  <2>3. /\ call = [c EXCEPT !.axes = a, !.kep = k, !.at = "kepler"]
        /\ Kepler(p, wave[tc], tc, n + 1) = [c EXCEPT !.axes = a, !.kep = k1, !.at = "kepler"]
    BY <1>4 DEF Kepler
  <2> HIDE DEF k, k1, a, c
  <2> QED BY <2>1, <2>2, <2>3, WithAxes DEF IsCall
<1>9. Reached(a, n + 1)
  <2> HIDE DEF a
  <2>1. \A m \in 0 .. (n + 1) - 1 : m = n \/ m \in 0 .. n - 1
    OBVIOUS
  <2> QED BY <1>1, <1>4, <1>6, <2>1 DEF Reached
<1>10. call'.tc = tc /\ call'.at = "kepler" /\ n + 1 \in Nat
  BY <1>3, <1>5, <1>8, KeplerShape
<1>11. Underway(p, tc)'
  BY <1>3, <1>5, <1>8, <1>9, <1>10 DEF Underway
<1> QED BY <1>1, <1>2, <1>10, <1>11, CallKeeps DEF Iterate

LEMMA MeanFailureKeeps ==
  ASSUME PropInv, MeanFails PROVE PropInv'
<1>1. call # Idle /\ call.at = "mean"
  <2>1. call.at = "mean"
    BY Zenon DEF MeanFails
  <2> QED BY <2>1 DEF Idle
<1>2. PICK p \in Propagators, tc \in Asked : p = Current /\ tc = call.tc
  BY <1>1, CurrentOne
<1>3. call = MeanCall(p, tc)
  BY <1>1, <1>2, CurrentOne DEF Underway
<1>4. CASE call.nm2 <= 0 /\ Reply(Failure("mean motion"))
  <2>1. MeanCall(p, tc).nm2 \in Int
    BY <1>2, MeanCallShape, AskedAreTimes DEF Shaped
  <2>2. ~Turns(p, tc)
    <3>1. call.nm2 \in Int /\ call.nm2 <= 0 /\ MeanCall(p, tc).nm2 = call.nm2
      BY <1>3, <1>4, <2>1
    <3>2. ~(call.nm2 > 0)
      BY <3>1
    <3> QED BY <3>1, <3>2, Zenon DEF Turns
  <2> QED BY <1>1, <1>2, <1>4, <2>2, ReplyKeeps DEF ReplyTo
<1>5. CASE call.nm2 > 0 /\ ~Closed(p, tc) /\ Reply(Failure("eccentricity"))
  <2>1. Turns(p, tc)
    BY <1>3, <1>5 DEF Turns
  <2> QED BY <1>1, <1>2, <1>5, <2>1, ReplyKeeps DEF ReplyTo
<1> QED BY <1>2, <1>3, <1>4, <1>5 DEF MeanFails, Closed, MeanEcc

LEMMA SolveKeeps ==
  ASSUME PropInv, Solve PROVE PropInv'
<1>1. call # Idle /\ call.at = "kepler" /\ ~Unsolved(call.kep)
  <2>1. call.at = "kepler" /\ ~Unsolved(call.kep)
    BY Zenon DEF Solve
  <2> QED BY <2>1 DEF Idle
<1>2. PICK p \in Propagators, tc \in Asked : p = Current /\ tc = call.tc
  BY <1>1, CurrentOne
<1> DEFINE a == Axes(Ready(p, wave[tc], tc))
<1>3. /\ Turns(p, tc) /\ Closed(p, tc)
      /\ \E n \in Nat : Reached(a, n) /\ call = Kepler(p, wave[tc], tc, n)
  BY <1>1, <1>2, CurrentOne DEF Underway
<1>4. PICK n \in Nat : Reached(a, n) /\ call = Kepler(p, wave[tc], tc, n)
  BY <1>3
<1>5. wave \in Waves
  BY <1>1, CurrentOne
<1>6. call.axes = a /\ call.kep = Rounds(a)[n]
  BY <1>3, <1>4, <1>5, KeplerShape
<1>7. n = Final(a)
  <2> HIDE DEF a
  <2> QED BY <1>1, <1>4, <1>6, OneFinal
<1>8. Reply(IF OpenOrbit(a) THEN Failure("semi-latus rectum")
            ELSE Ok(Kepler(p, wave[tc], tc, Final(a))))
  <2> HIDE DEF a
  <2> QED BY <1>4, <1>6, <1>7 DEF Solve
<1>9. ReplyTo(p, wave[tc], tc) = IF OpenOrbit(a) THEN Failure("semi-latus rectum")
                                 ELSE Ok(Kepler(p, wave[tc], tc, Final(a)))
  BY <1>3 DEF ReplyTo
<1> HIDE DEF a
<1> QED BY <1>1, <1>2, <1>8, <1>9, ReplyKeeps

(* Every step keeps it, whatever was asked before.                           *)
LEMMA PropInvKept ==
  ASSUME PropInv, [PropNext]_propVars PROVE PropInv'
<1>1. \A e : FromElements(e).built = "yes" /\ NoPropagator.built = "no"
              /\ Refused.built = "refused"
  BY DEF FromElements, NoPropagator, Refused
<1>2. PICK p \in Propagators : p = FromElements(tle)
  BY DEF PropInv, Propagators
<1>3. CASE FromTle
  BY <1>1, <1>2, <1>3, BeginKeeps DEF FromTle, Building
<1>4. ASSUME NEW tc \in Times, Propagate(tc) PROVE PropInv'
  <2>1. prop = p /\ ~Building /\ prop # Refused
    BY <1>1, <1>2, <1>4 DEF Propagate, PropInv, Building
  <2>2. tc \in Int
    BY OrbitsAssumption
  <2> QED BY <1>2, <1>4, <2>1, <2>2, BeginKeeps DEF Propagate
<1>5. CASE UNCHANGED propVars
  BY <1>5 DEF propVars, PropInv, Building, Underway
<1> QED BY <1>3, <1>4, <1>5, DspaceKeeps, IntegrateKeeps, ArriveKeeps, MeanKeeps, PeriodicKeeps,
           SetUpKeeps, IterateKeeps, MeanFailureKeeps, SolveKeeps DEF PropNext, Work

LEMMA PropInvHolds == PropSpec => []PropInv
<1>1. PropInit => PropInv
  BY DEF PropInit, PropInv, NoPropagator
<1> QED BY <1>1, PropInvKept, PTL DEF PropSpec

(* A call answers from the elements alone: whatever was asked before, on     *)
(* either side of the epoch and of a whole number of steps, the mean motion  *)
(* and the longitude of a resonant orbit are what quadratic steps from the   *)
(* epoch towards the time give; one time has one answer; and the epoch of a  *)
(* propagator that was built has one (propagate, dspace, from_tle).          *)
THEOREM AnswersFromEpochHolds == PropSpec => []AnswersFromEpoch
<1>1. PropInv => AnswersFromEpoch
  <2> SUFFICES ASSUME PropInv PROVE AnswersFromEpoch
    OBVIOUS
  <2>1. ASSUME NEW a \in answers, a[2].kind = "ok", prop.irez # 0
        PROVE  [nm2 |-> a[2].nm2, xl2 |-> a[2].xl2] = Course(prop, a[1])
    <3>1. PICK p \in Propagators, tc \in Asked, sums \in Waves :
             /\ p = prop /\ tc = a[1] /\ a = <<tc, ReplyTo(p, sums[tc], tc)>>
      <4>1. prop = FromElements(tle) /\ a[1] \in Asked
        BY DEF PropInv, Asked, NoPropagator, Refused
      <4> QED BY <4>1 DEF PropInv, Propagators
    <3>2. a[2] = ReplyTo(p, sums[tc], tc)
      BY <3>1
    <3> DEFINE n1 == Final(Axes(Ready(p, sums[tc], tc)))
    <3>3. \E n : Closed(p, tc) /\ a[2] = Ok(Kepler(p, sums[tc], tc, n))
      <4>1. \A why \in {"mean motion", "eccentricity", "semi-latus rectum"} :
               Failure(why).kind # "ok"
        BY DEF Failure
      <4>2. Closed(p, tc) /\ a[2] = Ok(Kepler(p, sums[tc], tc, n1))
        BY <2>1, <3>2, <4>1 DEF ReplyTo
      <4> HIDE DEF n1
      <4> QED BY <4>2
    <3>4. \E n : /\ a[2].nm2 = Kepler(p, sums[tc], tc, n).nm2
                 /\ a[2].xl2 = Kepler(p, sums[tc], tc, n).xl2
      BY <3>3 DEF Ok
    <3>5. a[2].nm2 = MeanCall(p, tc).nm2 /\ a[2].xl2 = MeanCall(p, tc).xl2
      BY <3>3, <3>4, KeplerShape
    <3> QED BY <2>1, <3>1, <3>5, MeanCallShape, AskedAreTimes
  <2>2. \A a, b \in answers : a[1] = b[1] => a = b
    BY DEF PropInv
  <2>3. ASSUME NEW a \in answers, a[1] = 0 PROVE a[2].kind = "ok"
    BY <2>3 DEF PropInv
  <2> QED BY <2>1, <2>2, <2>3 DEF AnswersFromEpoch
<1> QED BY <1>1, PropInvHolds, PTL

-----------------------------------------------------------------------------
(* The calendar                                                              *)

LEMMA YearLength ==
  ASSUME NEW y \in 1900 .. 2100
  PROVE  DaysBefore(y + 1) = DaysBefore(y) + DaysIn(y) /\ DaysBefore(y) \in Int
<1> DEFINE a == y \div 4  b == y \div 100  c == y \div 400
<1>1. /\ a \in Int /\ 4 * a <= y /\ y < 4 * a + 4
      /\ b \in Int /\ 100 * b <= y /\ y < 100 * b + 100
      /\ c \in Int /\ 400 * c <= y /\ y < 400 * c + 400
  OBVIOUS
<1>2. /\ y % 4 = y - 4 * a /\ y % 100 = y - 100 * b /\ y % 400 = y - 400 * c
  OBVIOUS
<1>3. /\ (y - 1) \div 4 = IF y = 4 * a THEN a - 1 ELSE a
      /\ (y - 1) \div 100 = IF y = 100 * b THEN b - 1 ELSE b
      /\ (y - 1) \div 400 = IF y = 400 * c THEN c - 1 ELSE c
  OBVIOUS
<1>4. (y + 1) - 1 = y
  OBVIOUS
<1> HIDE DEF a, b, c
<1>5. (y = 100 * b => y = 4 * a) /\ (y = 400 * c => y = 100 * b)
  <2>1. y = 100 * b => y = 4 * (25 * b)
    BY <1>1
  <2>2. y = 400 * c => y = 100 * (4 * c)
    BY <1>1
  <2> QED BY <1>1, <2>1, <2>2
<1>6. IsLeap(y) <=> (y = 4 * a /\ y # 100 * b) \/ y = 400 * c
  BY <1>1, <1>2 DEF IsLeap
<1>7. /\ DaysBefore(y + 1) = 365 * y + a - b + c
      /\ DaysBefore(y) = 365 * (y - 1) + (IF y = 4 * a THEN a - 1 ELSE a)
                           - (IF y = 100 * b THEN b - 1 ELSE b)
                           + (IF y = 400 * c THEN c - 1 ELSE c)
  BY <1>3, <1>4 DEF DaysBefore, a, b, c
<1> QED BY <1>1, <1>5, <1>6, <1>7 DEF DaysIn

(* The two loops of mjd_at_year_start count the days between the years.      *)
LEMMA From2000Counts ==
  ASSUME NEW y \in 1900 .. 2100
  PROVE  From2000[y] = DaysBefore(y) - DaysBefore(2000)
<1> DEFINE Years == 1900 .. 2100
           F(s) == s = [z \in Years |->
                          IF z = 2000 THEN 0
                          ELSE IF z > 2000 THEN s[z - 1] + DaysIn(z - 1)
                          ELSE s[z + 1] - DaysIn(z)]
           g == [z \in Years |-> DaysBefore(z) - DaysBefore(2000)]
<1>1. \A z \in Years : /\ DaysBefore(z + 1) = DaysBefore(z) + DaysIn(z)
                        /\ DaysBefore(z) \in Int /\ DaysIn(z) \in Int
  <2>1. \A z \in Years : DaysIn(z) \in Int
    BY DEF DaysIn
  <2> QED BY <2>1, YearLength
<1>2. F(g)
  <2>1. ASSUME NEW z \in Years, z > 2000 PROVE g[z] = g[z - 1] + DaysIn(z - 1)
    <3>1. z - 1 \in Years /\ (z - 1) + 1 = z
      BY <2>1
    <3>2. /\ DaysBefore(z) = DaysBefore(z - 1) + DaysIn(z - 1)
          /\ DaysBefore(z - 1) \in Int /\ DaysIn(z - 1) \in Int /\ DaysBefore(2000) \in Int
      BY <1>1, <3>1, 2000 \in Years
    <3> HIDE DEF Years
    <3>3. g[z] = DaysBefore(z) - DaysBefore(2000)
          /\ g[z - 1] = DaysBefore(z - 1) - DaysBefore(2000)
      BY <3>1
    <3> QED BY <3>2, <3>3
  <2>2. ASSUME NEW z \in Years, z < 2000 PROVE g[z] = g[z + 1] - DaysIn(z)
    <3>1. z + 1 \in Years
      BY <2>2
    <3>2. /\ DaysBefore(z + 1) = DaysBefore(z) + DaysIn(z)
          /\ DaysBefore(z) \in Int /\ DaysIn(z) \in Int /\ DaysBefore(2000) \in Int
      BY <1>1, 2000 \in Years
    <3> HIDE DEF Years
    <3>3. g[z] = DaysBefore(z) - DaysBefore(2000)
          /\ g[z + 1] = DaysBefore(z + 1) - DaysBefore(2000)
      BY <3>1
    <3> QED BY <3>2, <3>3
  <2>3. g[2000] = 0
    BY <1>1, 2000 \in Years
  <2> DEFINE body(z) == IF z = 2000 THEN 0
                        ELSE IF z > 2000 THEN g[z - 1] + DaysIn(z - 1)
                        ELSE g[z + 1] - DaysIn(z)
  <2>4. \A z \in Years : g[z] = body(z)
    <3> HIDE DEF g
    <3> QED BY <2>1, <2>2, <2>3
  <2>5. g = [z \in Years |-> body(z)]
    <3> HIDE DEF body
    <3> QED BY <2>4
  <2> QED BY <2>5
<1>3. From2000 = CHOOSE s : F(s)
  BY DEF From2000
<1>4. F(From2000)
  <2> HIDE DEF F
  <2> QED BY <1>2, <1>3
<1> DEFINE s == From2000
<1>5. /\ s[2000] = g[2000]
      /\ \A z \in Years : z > 2000 => s[z] = s[z - 1] + DaysIn(z - 1)
      /\ \A z \in Years : z < 2000 => s[z] = s[z + 1] - DaysIn(z)
  <2> HIDE DEF s
  <2>1. F(s)
    BY <1>4 DEF s
  <2>2. g[2000] = 0
    BY <1>1, 2000 \in Years
  <2> QED BY <2>1, <2>2, 2000 \in Years
<1>6. /\ \A z \in Years : z > 2000 => g[z] = g[z - 1] + DaysIn(z - 1)
      /\ \A z \in Years : z < 2000 => g[z] = g[z + 1] - DaysIn(z)
  BY <1>2, 2000 \in Years
<1> DEFINE S == {k \in Nat : k <= 100 => /\ s[2000 + k] = g[2000 + k]
                                         /\ s[2000 - k] = g[2000 - k]}
<1>7. \A k \in Nat : k \in S
  <2> HIDE DEF s, g
  <2>1. 0 \in S
    BY <1>5
  <2>2. ASSUME NEW k \in Nat, k \in S PROVE k + 1 \in S
    <3> SUFFICES ASSUME k + 1 <= 100
                 PROVE /\ s[2000 + (k + 1)] = g[2000 + (k + 1)]
                       /\ s[2000 - (k + 1)] = g[2000 - (k + 1)]
      OBVIOUS
    <3>1. s[2000 + k] = g[2000 + k] /\ s[2000 - k] = g[2000 - k]
      BY <2>2
    <3>2. /\ 2000 + (k + 1) \in Years /\ 2000 + (k + 1) > 2000
          /\ (2000 + (k + 1)) - 1 = 2000 + k
      OBVIOUS
    <3>3. /\ 2000 - (k + 1) \in Years /\ 2000 - (k + 1) < 2000
          /\ (2000 - (k + 1)) + 1 = 2000 - k
      OBVIOUS
    <3>4. s[2000 + (k + 1)] = g[2000 + (k + 1)]
      BY <1>5, <1>6, <3>1, <3>2
    <3>5. s[2000 - (k + 1)] = g[2000 - (k + 1)]
      BY <1>5, <1>6, <3>1, <3>3
    <3> QED BY <3>4, <3>5
  <2> HIDE DEF S
  <2> QED BY <2>1, <2>2, Induction
<1>8. s[y] = g[y]
  <2> HIDE DEF s, g
  <2>1. CASE y >= 2000
    <3> DEFINE k == y - 2000
    <3>1. k \in Nat /\ k <= 100 /\ 2000 + k = y
      BY <2>1
    <3> HIDE DEF k
    <3>2. k \in S
      BY <1>7, <3>1
    <3> QED BY <3>1, <3>2
  <2>2. CASE y < 2000
    <3> DEFINE k == 2000 - y
    <3>1. k \in Nat /\ k <= 100 /\ 2000 - k = y
      BY <2>2
    <3> HIDE DEF k
    <3>2. k \in S
      BY <1>7, <3>1
    <3> QED BY <3>1, <3>2
  <2> QED BY <2>1, <2>2
<1> QED BY <1>8

LEMMA RightDay ==
  ASSUME NEW yy \in 0 .. 99, NEW day \in Int
  PROVE  EpochDays1950(EpochMjd(FullYear(yy), day)) = TrueDays1950(FullYear(yy), day)
<1> DEFINE y == FullYear(yy)
<1>1. y \in 1900 .. 2100
  BY DEF FullYear
<1> HIDE DEF y
<1>2. From2000[y] = DaysBefore(y) - DaysBefore(2000) /\ DaysBefore(y) \in Int
  BY <1>1, From2000Counts, YearLength
<1>3. DaysBefore(2000) = 730119 /\ DaysBefore(1950) = 711857
  BY DEF DaysBefore
<1> QED BY <1>2, <1>3 DEF EpochDays1950, EpochMjd, MjdAtYearStart, TrueDays1950, y

-----------------------------------------------------------------------------
(* The constellation                                                         *)

Specification == [total : Nat, planes : Nat \ {0}, phase : Nat]

(* Dividing by a positive number.                                            *)
LEMMA Division ==
  ASSUME NEW a \in Nat, NEW b \in Nat, b > 0
  PROVE  /\ a \div b \in Nat /\ a % b \in 0 .. b - 1
         /\ a = b * (a \div b) + (a % b)
OBVIOUS

LEMMA QuotientOf ==
  ASSUME NEW q \in Nat, NEW b \in Nat, NEW r \in Nat, r < b
  PROVE  (q * b + r) \div b = q /\ (q * b + r) % b = r
<1> DEFINE a == q * b + r
           d == a \div b
           m == a % b
<1>1. a \in Nat /\ b > 0
  OBVIOUS
<1>2. d \in Nat /\ m \in 0 .. b - 1 /\ a = b * d + m
  <2> HIDE DEF a
  <2> QED BY <1>1, Division
<1>3. q * b + r = b * d + m
  BY <1>2
<1> HIDE DEF a, d, m
<1>4. d = q
  <2>1. ASSUME d < q PROVE FALSE
    <3>1. PICK e \in Nat : q = d + 1 + e
      <4>1. q - d - 1 \in Nat /\ q = d + 1 + (q - d - 1)
        BY <1>2, <2>1
      <4> QED BY <4>1
    <3>2. q * b = d * b + b + e * b /\ e * b >= 0 /\ d * b \in Nat /\ b * d = d * b
      BY <1>2, <3>1
    <3> QED BY <1>2, <1>3, <3>2
  <2>2. ASSUME q < d PROVE FALSE
    <3>1. PICK e \in Nat : d = q + 1 + e
      <4>1. d - q - 1 \in Nat /\ d = q + 1 + (d - q - 1)
        BY <1>2, <2>2
      <4> QED BY <4>1
    <3>2. b * d = q * b + b + e * b /\ e * b >= 0 /\ q * b \in Nat
      BY <1>2, <3>1
    <3> QED BY <1>2, <1>3, <3>2
  <2> QED BY <1>2, <2>1, <2>2
<1>5. m = r
  <2>1. b * d = q * b /\ q * b \in Nat
    BY <1>4
  <2> QED BY <1>2, <1>3, <2>1
<1> QED BY <1>4, <1>5 DEF a, d, m

(* A plane of rounded up slots: as many planes hold everything.              *)
LEMMA EnoughSlots ==
  ASSUME NEW sp \in Specification
  PROVE  /\ PerPlane(sp) \in Nat /\ sp.total <= sp.planes * PerPlane(sp)
         /\ sp.total > 0 => PerPlane(sp) > 0
<1>1. PICK t \in Nat, n \in Nat : t = sp.total /\ n = sp.planes /\ n > 0
  BY DEF Specification
<1> DEFINE a == t + n - 1
           d == a \div n
           m == a % n
<1>2. a \in Nat
  BY <1>1
<1>3. d \in Nat /\ m \in 0 .. n - 1 /\ a = n * d + m
  <2> HIDE DEF a
  <2> QED BY <1>1, <1>2, Division
<1>4. PerPlane(sp) = d
  BY <1>1 DEF PerPlane, CeilDiv
<1> HIDE DEF d, m
<1>5. n * d \in Nat /\ (d = 0 => n * d = 0)
  BY <1>1, <1>3
<1>6. t <= n * d
  BY <1>1, <1>3, <1>5
<1> QED BY <1>1, <1>3, <1>4, <1>5, <1>6

(* The satellites in the order they are generated.                           *)
Satellite(sp, i) == MakeTle(sp, i - 1, (i - 1) \div PerPlane(sp), (i - 1) % PerPlane(sp))
FirstOf(sp, n) == [i \in 1 .. n |-> Satellite(sp, i)]
Fewer(m, n) == IF m <= n THEN m ELSE n

LEMMA PlaneIsFilled ==
  ASSUME NEW sp \in Specification, NEW plane \in Nat
  PROVE  FillPlane(sp, FirstOf(sp, Fewer(plane * PerPlane(sp), sp.total)), plane)
           = FirstOf(sp, Fewer((plane + 1) * PerPlane(sp), sp.total))
<1>1. PICK per \in Nat, total \in Nat, start \in Nat :
         per = PerPlane(sp) /\ total = sp.total /\ start = plane * per
  <2>1. PICK per \in Nat, total \in Nat : per = PerPlane(sp) /\ total = sp.total
    BY EnoughSlots DEF Specification
  <2> QED BY <2>1
<1> DEFINE tles == FirstOf(sp, Fewer(start, total))
           g == [s \in 0 .. per |-> FirstOf(sp, Fewer(start + s, total))]
           more(ts, s) == IF Len(ts) >= sp.total THEN ts
                          ELSE Append(ts, MakeTle(sp, Len(ts), plane, s - 1))
           F(f) == f = [s \in 0 .. PerPlane(sp) |->
                          IF s = 0 THEN tles
                          ELSE LET ts == f[s - 1]
                               IN  IF Len(ts) >= sp.total THEN ts
                                   ELSE Append(ts, MakeTle(sp, Len(ts), plane, s - 1))]
           filled == CHOOSE f : F(f)
<1>2. \A n \in Nat : Len(FirstOf(sp, n)) = n
  BY DEF FirstOf
<1>3. ASSUME NEW s \in 1 .. per
      PROVE  FirstOf(sp, Fewer(start + s, total)) = more(FirstOf(sp, Fewer(start + (s - 1), total)), s)
  <2> DEFINE n == start + (s - 1)
  <2>1. n \in Nat /\ start + s = n + 1
    OBVIOUS
  <2>2. CASE n >= total
    <3>1. Fewer(start + s, total) = total /\ Fewer(n, total) = total
      BY <2>1, <2>2 DEF Fewer
    <3>2. Len(FirstOf(sp, total)) >= sp.total
      BY <1>1, <1>2
    <3> HIDE DEF n
    <3> QED BY <3>1, <3>2 DEF n
  <2>3. CASE n < total
    <3>1. Fewer(start + s, total) = n + 1 /\ Fewer(n, total) = n
      BY <2>1, <2>3 DEF Fewer
    <3>2. Len(FirstOf(sp, n)) = n /\ ~(n >= sp.total)
      BY <1>1, <1>2, <2>1, <2>3, SMTT(30)
    <3>3. n \div per = plane /\ n % per = s - 1
      <4>1. s - 1 \in Nat /\ s - 1 < per
        OBVIOUS
      <4> QED BY <1>1, <4>1, QuotientOf
    <3> HIDE DEF n
    <3>4. Satellite(sp, n + 1) = MakeTle(sp, n, plane, s - 1)
      <4>1. (n + 1) - 1 = n
        BY <2>1
      <4> QED BY <1>1, <3>3, <4>1 DEF Satellite
    <3>5. FirstOf(sp, n + 1) = Append(FirstOf(sp, n), Satellite(sp, n + 1))
      BY <2>1 DEF FirstOf
    <3>6. more(FirstOf(sp, n), s) = Append(FirstOf(sp, n), MakeTle(sp, n, plane, s - 1))
      BY <3>2
    <3> HIDE DEF more
    <3> QED BY <3>1, <3>4, <3>5, <3>6 DEF n
  <2> QED BY <2>1, <2>2, <2>3
<1>4. F(g)
  <2> DEFINE body(s) == IF s = 0 THEN tles ELSE more(g[s - 1], s)
  <2>1. \A s \in 0 .. per : g[s] = body(s)
    <3> SUFFICES ASSUME NEW s \in 0 .. per PROVE g[s] = body(s)
      OBVIOUS
    <3>1. CASE s = 0
      BY <3>1
    <3>2. CASE s # 0
      <4>1. s \in 1 .. per /\ s - 1 \in 0 .. per
        BY <3>2
      <4>2. g[s - 1] = FirstOf(sp, Fewer(start + (s - 1), total))
        BY <4>1
      <4> HIDE DEF more, tles
      <4> QED BY <1>3, <3>2, <4>1, <4>2
    <3> QED BY <3>1, <3>2
  <2>2. g = [s \in 0 .. per |-> body(s)]
    <3> HIDE DEF body
    <3> QED BY <2>1
  <2> HIDE DEF g, tles
  <2> QED BY <1>1, <2>2
<1>5. F(filled)
  <2> HIDE DEF F
  <2> QED BY <1>4
<1>6. FillPlane(sp, tles, plane) = filled[per]
  BY <1>1 DEF FillPlane
<1> DEFINE S == {s \in Nat : s <= per => filled[s] = g[s]}
<1>7. \A s \in Nat : s \in S
  <2> HIDE DEF filled
  <2>1. filled[0] = tles /\ g[0] = tles
    BY <1>1, <1>5
  <2>2. ASSUME NEW s \in 1 .. per
        PROVE  filled[s] = more(filled[s - 1], s) /\ g[s] = more(g[s - 1], s)
    <3>1. s \in 0 .. PerPlane(sp) /\ s # 0
      BY <1>1
    <3>2. ASSUME NEW f, F(f) PROVE f[s] = more(f[s - 1], s)
      <4> HIDE DEF tles
      <4> QED BY <3>1, <3>2
    <3> HIDE DEF F, g, more
    <3> QED BY <1>4, <1>5, <3>2
  <2>3. 0 \in S
    BY <2>1
  <2>4. ASSUME NEW s \in Nat, s \in S PROVE s + 1 \in S
    <3> SUFFICES ASSUME s + 1 <= per PROVE filled[s + 1] = g[s + 1]
      OBVIOUS
    <3>1. s + 1 \in 1 .. per /\ (s + 1) - 1 = s
      OBVIOUS
    <3>2. filled[s] = g[s]
      BY <2>4
    <3> HIDE DEF g, more
    <3> QED BY <2>2, <3>1, <3>2
  <2> HIDE DEF S
  <2> QED BY <2>3, <2>4, Induction
<1>8. filled[per] = g[per]
  <2> HIDE DEF filled, g
  <2>1. per \in S
    BY <1>7
  <2> QED BY <2>1
<1>9. g[per] = FirstOf(sp, Fewer((plane + 1) * per, total))
  <2>1. start + per = (plane + 1) * per
    BY <1>1
  <2> QED BY <2>1
<1> HIDE DEF filled, g
<1> QED BY <1>1, <1>6, <1>8, <1>9

(* Every satellite is generated, plane after plane and slot after slot.      *)
LEMMA AllGenerated ==
  ASSUME NEW sp \in Specification
  PROVE  Generate(sp) = FirstOf(sp, sp.total)
<1>1. PICK per \in Nat, total \in Nat, n \in Nat :
         per = PerPlane(sp) /\ total = sp.total /\ n = sp.planes /\ total <= n * per
  BY EnoughSlots DEF Specification
<1> DEFINE g == [p \in 0 .. n |-> FirstOf(sp, Fewer(p * per, total))]
           F(f) == f = [p \in 0 .. sp.planes |->
                          IF p = 0 THEN <<>> ELSE FillPlane(sp, f[p - 1], p - 1)]
           made == CHOOSE f : F(f)
<1>2. ASSUME NEW p \in 1 .. n
      PROVE  FirstOf(sp, Fewer(p * per, total))
               = FillPlane(sp, FirstOf(sp, Fewer((p - 1) * per, total)), p - 1)
  <2> DEFINE q == p - 1
  <2>1. q \in Nat /\ q + 1 = p
    OBVIOUS
  <2> HIDE DEF q
  <2>2. FillPlane(sp, FirstOf(sp, Fewer(q * per, total)), q)
          = FirstOf(sp, Fewer((q + 1) * per, total))
    BY <1>1, <2>1, PlaneIsFilled
  <2> QED BY <2>1, <2>2 DEF q
<1>3. FirstOf(sp, Fewer(0 * per, total)) = <<>>
  <2>1. Fewer(0 * per, total) = 0
    BY <1>1 DEF Fewer
  <2> QED BY <2>1 DEF FirstOf
<1>4. F(g)
  <2> DEFINE body(p) == IF p = 0 THEN <<>> ELSE FillPlane(sp, g[p - 1], p - 1)
  <2>1. \A p \in 0 .. n : g[p] = body(p)
    <3> SUFFICES ASSUME NEW p \in 0 .. n PROVE g[p] = body(p)
      OBVIOUS
    <3>1. CASE p = 0
      BY <1>3, <3>1
    <3>2. CASE p # 0
      <4>1. p \in 1 .. n /\ p - 1 \in 0 .. n
        BY <3>2
      <4> QED BY <1>2, <3>2, <4>1
    <3> QED BY <3>1, <3>2
  <2>2. g = [p \in 0 .. n |-> body(p)]
    <3> HIDE DEF body
    <3> QED BY <2>1
  <2> HIDE DEF g
  <2> QED BY <1>1, <2>2
<1>5. F(made)
  <2> HIDE DEF F
  <2> QED BY <1>4
<1>6. Generate(sp) = made[n]
  BY <1>1 DEF Generate
<1> DEFINE S == {p \in Nat : p <= n => made[p] = g[p]}
<1>7. \A p \in Nat : p \in S
  <2> HIDE DEF made, g
  <2>1. ASSUME NEW f, F(f)
        PROVE  f[0] = <<>> /\ \A p \in 1 .. n : f[p] = FillPlane(sp, f[p - 1], p - 1)
    BY <1>1, <2>1
  <2>2. 0 \in S
    BY <1>4, <1>5, <2>1
  <2>3. ASSUME NEW p \in Nat, p \in S PROVE p + 1 \in S
    <3> SUFFICES ASSUME p + 1 <= n PROVE made[p + 1] = g[p + 1]
      OBVIOUS
    <3>1. p + 1 \in 1 .. n /\ (p + 1) - 1 = p
      OBVIOUS
    <3>2. made[p] = g[p]
      BY <2>3
    <3>3. /\ made[p + 1] = FillPlane(sp, made[p], p)
          /\ g[p + 1] = FillPlane(sp, g[p], p)
      <4> HIDE DEF F
      <4> QED BY <1>4, <1>5, <2>1, <3>1
    <3> QED BY <3>2, <3>3
  <2> HIDE DEF S
  <2> QED BY <2>2, <2>3, Induction
<1>8. made[n] = g[n]
  <2> HIDE DEF made, g
  <2>1. n \in S
    BY <1>7
  <2> QED BY <2>1
<1>9. Fewer(n * per, total) = total
  <2>1. n * per \in Nat
    BY <1>1
  <2> QED BY <1>1, <2>1 DEF Fewer
<1> HIDE DEF made
<1> QED BY <1>1, <1>6, <1>8, <1>9

(* Two numbers leave the same rest when what is between them leaves none.    *)
LeaveTheSame(u, d, b) == u % b = (u + d) % b <=> d % b = 0

LEMMA SameRest ==
  ASSUME NEW u \in Nat, NEW d \in Nat, NEW b \in Nat, b > 0
  PROVE  LeaveTheSame(u, d, b)
<1> USE DEF LeaveTheSame
<1>1. PICK q \in Nat, r \in Nat : r = u % b /\ r < b /\ u = q * b + r
  <2>1. u \div b \in Nat /\ u % b \in Nat /\ u % b < b /\ u = b * (u \div b) + (u % b)
    BY Division
  <2>2. b * (u \div b) = (u \div b) * b
    BY <2>1
  <2> QED BY <2>1, <2>2
<1>2. PICK p \in Nat, e \in Nat : e = d % b /\ e < b /\ d = p * b + e
  <2>1. d \div b \in Nat /\ d % b \in Nat /\ d % b < b /\ d = b * (d \div b) + (d % b)
    BY Division
  <2>2. b * (d \div b) = (d \div b) * b
    BY <2>1
  <2> QED BY <2>1, <2>2
<1>3. ASSUME e = 0 PROVE (u + d) % b = r
  <2> DEFINE c == q + p
  <2>1. u + d = c * b + r /\ c \in Nat
    BY <1>1, <1>2, <1>3
  <2> HIDE DEF c
  <2>2. (c * b + r) % b = r
    BY <1>1, <2>1, QuotientOf
  <2> QED BY <2>1, <2>2
<1>4. ASSUME (u + d) % b = r PROVE e = 0
  <2> DEFINE a == u + d
  <2>1. a \in Nat
    OBVIOUS
  <2>2. a \div b \in Nat /\ a = b * (a \div b) + (a % b)
    <3> HIDE DEF a
    <3> QED BY <2>1, Division
  <2>3. PICK c \in Nat : a = c * b + r
    <3>1. b * (a \div b) = (a \div b) * b
      <4> HIDE DEF a
      <4> QED BY <2>2
    <3> QED BY <1>4, <2>2, <3>1
  <2>4. c * b = q * b + p * b + e
    <3>1. c * b + r = q * b + r + (p * b + e) /\ c * b \in Nat /\ q * b \in Nat /\ p * b \in Nat
      BY <1>1, <1>2, <2>3
    <3> QED BY <1>1, <1>2, <3>1
  <2>5. c * b = (q + p) * b + e
    BY <2>4
  <2>6. q + p \in Nat /\ c * b + 0 = c * b /\ 0 \in Nat
    OBVIOUS
  <2>7. (c * b + 0) % b = 0
    BY <2>6, QuotientOf
  <2>8. ((q + p) * b + e) % b = e
    BY <1>2, <2>6, QuotientOf
  <2> QED BY <2>5, <2>6, <2>7, <2>8
<1> QED BY <1>1, <1>2, <1>3, <1>4

LEMMA PlanesFilled ==
  ASSUME NEW sp \in Specification
  PROVE  LET tles == Generate(sp)
         IN  /\ Len(tles) = sp.total
             /\ \A i, j \in DOMAIN tles : i < j =>
                  /\ tles[i].satellite # tles[j].satellite
                  /\ tles[i].raan <= tles[j].raan /\ tles[j].raan < sp.planes
                  /\ tles[i].raan = tles[j].raan =>
                       /\ j - i < PerPlane(sp)
                       /\ tles[i].anomaly = tles[j].anomaly
                            <=> ((j - i) * (sp.total + sp.phase * PerPlane(sp))) % FullTurn(sp) = 0
                  /\ tles[i].raan + 1 < tles[j].raan => j - i > PerPlane(sp)
<1>1. PICK per \in Nat, total \in Nat, n \in Nat :
         /\ per = PerPlane(sp) /\ total = sp.total /\ n = sp.planes /\ total <= n * per
         /\ total > 0 => per > 0
  BY EnoughSlots DEF Specification
<1>2. Generate(sp) = FirstOf(sp, total) /\ Len(FirstOf(sp, total)) = total
      /\ DOMAIN FirstOf(sp, total) = 1 .. total
  BY <1>1, AllGenerated DEF FirstOf
<1>3. PICK step \in Nat : step = total + sp.phase * per
  <2>1. sp.phase \in Nat
    BY DEF Specification
  <2> QED BY <2>1
<1>4. ASSUME NEW i \in 1 .. total, NEW j \in 1 .. total, i < j
      PROVE  LET a == Satellite(sp, i)
                 b == Satellite(sp, j)
             IN  /\ a.satellite # b.satellite /\ a.raan <= b.raan /\ b.raan < n
                 /\ a.raan = b.raan =>
                      /\ j - i < per
                      /\ a.anomaly = b.anomaly <=> ((j - i) * step) % FullTurn(sp) = 0
                 /\ a.raan + 1 < b.raan => j - i > per
  <2>1. PICK x \in Nat, y \in Nat :
           /\ x = i - 1 /\ y = j - 1 /\ x < y /\ y < total /\ per > 0 /\ total > 0
           /\ y - x = j - i
    <3>1. i - 1 \in Nat /\ j - 1 \in Nat /\ i - 1 < j - 1 /\ j - 1 < total /\ total > 0
          /\ (j - 1) - (i - 1) = j - i
      BY <1>4
    <3> QED BY <1>1, <3>1
  <2>2. PICK p \in Nat, s \in Nat :
           p = x \div per /\ s = x % per /\ s < per /\ x = per * p + s
    BY <2>1, Division
  <2>3. PICK q \in Nat, t \in Nat :
           q = y \div per /\ t = y % per /\ t < per /\ y = per * q + t
    BY <2>1, Division
  <2>4. Satellite(sp, i) = MakeTle(sp, x, p, s) /\ Satellite(sp, j) = MakeTle(sp, y, q, t)
    BY <1>1, <2>1, <2>2, <2>3 DEF Satellite
  <2>5. p <= q
    <3>1. ASSUME q < p PROVE FALSE
      <4>1. PICK e \in Nat : p = q + 1 + e
        <5>1. p - q - 1 \in Nat /\ p = q + 1 + (p - q - 1)
          BY <3>1
        <5> QED BY <5>1
      <4>2. per * p = per * q + per + per * e /\ per * e \in Nat /\ per * q \in Nat
        BY <4>1
      <4> QED BY <2>1, <2>2, <2>3, <4>2
    <3> QED BY <3>1
  <2>6. q < n
    <3>1. ASSUME q >= n PROVE FALSE
      <4>1. PICK e \in Nat : q = n + e
        <5>1. q - n \in Nat /\ q = n + (q - n)
          BY <3>1
        <5> QED BY <5>1
      <4>2. per * q = n * per + per * e /\ per * e \in Nat /\ n * per \in Nat
        BY <4>1
      <4> QED BY <1>1, <2>1, <2>3, <4>2
    <3> QED BY <3>1
  <2>7. ASSUME p + 1 < q PROVE y - x > per
    <3>1. PICK e \in Nat : q = p + 2 + e
      <4>1. q - p - 2 \in Nat /\ q = p + 2 + (q - p - 2)
        BY <2>7
      <4> QED BY <4>1
    <3>2. per * q = per * p + per + per + per * e /\ per * e \in Nat /\ per * p \in Nat
      BY <3>1
    <3> QED BY <2>2, <2>3, <3>2
  <2>8. ASSUME p = q
        PROVE  /\ y - x < per
               /\ MeanAnomaly(sp, s) = MeanAnomaly(sp, t)
                    <=> ((y - x) * step) % FullTurn(sp) = 0
    <3>1. PICK e \in Nat : t = s + e /\ y - x = e /\ e < per
      <4>1. per * p \in Nat /\ per * q = per * p
        BY <2>8
      <4>2. t - s \in Nat /\ t = s + (t - s) /\ y - x = t - s /\ t - s < per
        BY <2>1, <2>2, <2>3, <4>1
      <4> QED BY <4>2
    <3>2. PICK turn \in Nat : turn = FullTurn(sp) /\ turn > 0
      <4>1. total * per \in Nat /\ total * per > 0
        BY <2>1
      <4> QED BY <1>1, <4>1 DEF FullTurn
    <3>3. ASSUME NEW k \in Nat PROVE MeanAnomaly(sp, k) = (k * step) % turn
      <4>1. sp.phase \in Nat
        BY DEF Specification
      <4>2. PlaneOffset(sp, k) + PhaseOffset(sp, k) = k * step
        BY <1>1, <1>3, <4>1 DEF PlaneOffset, PhaseOffset
      <4> QED BY <3>2, <4>2 DEF MeanAnomaly
    <3>4. s * step \in Nat /\ e * step \in Nat /\ t * step = s * step + e * step
      BY <3>1
    <3>5. (s * step) % turn = (s * step + e * step) % turn <=> (e * step) % turn = 0
      <4> DEFINE u == s * step
                 d == e * step
      <4>1. u \in Nat /\ d \in Nat
        BY <3>4
      <4> HIDE DEF u, d
      <4>2. turn \in Nat /\ turn > 0
        BY <3>2
      <4>3. LeaveTheSame(u, d, turn)
        BY <4>1, <4>2, SameRest
      <4> QED BY <4>3, Zenon DEF u, d, LeaveTheSame
    <3> QED BY <3>1, <3>2, <3>3, <3>4, <3>5
  <2>9. 90000 + x # 90000 + y
    BY <2>1
  <2> QED BY <2>1, <2>4, <2>5, <2>6, <2>7, <2>8, <2>9 DEF MakeTle
<1>5. \A i \in 1 .. total : Generate(sp)[i] = Satellite(sp, i)
  BY <1>2 DEF FirstOf
<1> QED BY <1>1, <1>2, <1>3, <1>4, <1>5

-----------------------------------------------------------------------------
(* The packet                                                                *)

LEMMA NamedBack ==
  /\ \A t \in DOMAIN Types : Types[t] \in {0, 1} /\ Named(Types, Types[t]) = t
  /\ \A f \in DOMAIN Flags : Flags[f] \in 0 .. 3 /\ Named(Flags, Flags[f]) = f
<1>1. \A t, u \in DOMAIN Types : Types[t] = Types[u] => t = u
  BY DEF Types
<1>2. \A f, g \in DOMAIN Flags : Flags[f] = Flags[g] => f = g
  BY DEF Flags
<1>3. \A t \in DOMAIN Types : Types[t] \in {0, 1}
  BY DEF Types
<1>4. \A f \in DOMAIN Flags : Flags[f] \in 0 .. 3
  BY DEF Flags
<1>5. ASSUME NEW t \in DOMAIN Types PROVE Named(Types, Types[t]) = t
  BY <1>1 DEF Named
<1>6. ASSUME NEW f \in DOMAIN Flags PROVE Named(Flags, Flags[f]) = f
  BY <1>2 DEF Named
<1> QED BY <1>3, <1>4, <1>5, <1>6

(* The first word: type, secondary header flag and APID beside each other.   *)
LEMMA FirstWord ==
  ASSUME NEW A \in Nat, NEW t \in {0, 1}, NEW s \in {0, 1}, NEW a \in Nat, a < A
  PROVE  LET w == t * (2 * A) + s * A + a
         IN  /\ w \in Nat /\ w < 4 * A /\ w % A = a
             /\ (w \div (2 * A)) % 2 = t /\ (w \div A) % 2 = s
<1> DEFINE w == t * (2 * A) + s * A + a
           low == s * A + a
           high == 2 * t + s
<1>1. w \in Nat /\ low \in Nat /\ high \in Nat /\ low < 2 * A /\ w < 4 * A
      /\ w = t * (2 * A) + low /\ w = high * A + a
  <2>1. CASE t = 0 /\ s = 0
    BY <2>1
  <2>2. CASE t = 0 /\ s = 1
    BY <2>2
  <2>3. CASE t = 1 /\ s = 0
    BY <2>3
  <2>4. CASE t = 1 /\ s = 1
    BY <2>4
  <2> QED BY <2>1, <2>2, <2>3, <2>4
<1>2. t % 2 = t /\ high % 2 = s
  OBVIOUS
<1>3. t \in Nat /\ 2 * A \in Nat
  OBVIOUS
<1> HIDE DEF w, low, high
<1>4. w \div (2 * A) = t
  BY <1>1, <1>3, QuotientOf
<1>5. w \div A = high /\ w % A = a
  BY <1>1, QuotientOf
<1> QED BY <1>1, <1>2, <1>4, <1>5 DEF w

(* Every word without a version is made of such parts.                       *)
LEMMA FirstParts ==
  ASSUME NEW A \in Nat, A > 0, NEW w \in Nat, w < 4 * A
  PROVE  \E t \in {0, 1}, s \in {0, 1}, a \in Nat : a < A /\ w = t * (2 * A) + s * A + a
<1>1. PICK q \in Nat, a \in Nat : a < A /\ w = A * q + a
  <2>1. w \div A \in Nat /\ w % A \in Nat /\ w % A < A /\ w = A * (w \div A) + (w % A)
    BY Division
  <2> QED BY <2>1
<1>2. q < 4
  <2>1. ASSUME q >= 4 PROVE FALSE
    <3>1. PICK e \in Nat : q = 4 + e
      <4>1. q - 4 \in Nat /\ q = 4 + (q - 4)
        BY <2>1
      <4> QED BY <4>1
    <3>2. A * q = 4 * A + A * e /\ A * e \in Nat
      BY <3>1
    <3> QED BY <1>1, <3>2
  <2> QED BY <2>1
<1>3. CASE q = 0
  <2>1. w = 0 * (2 * A) + 0 * A + a
    BY <1>1, <1>3
  <2> QED BY <1>1, <2>1
<1>4. CASE q = 1
  <2>1. w = 0 * (2 * A) + 1 * A + a
    BY <1>1, <1>4
  <2> QED BY <1>1, <2>1
<1>5. CASE q = 2
  <2>1. w = 1 * (2 * A) + 0 * A + a
    BY <1>1, <1>5
  <2> QED BY <1>1, <2>1
<1>6. CASE q = 3
  <2>1. w = 1 * (2 * A) + 1 * A + a
    BY <1>1, <1>6
  <2> QED BY <1>1, <2>1
<1> QED BY <1>1, <1>2, <1>3, <1>4, <1>5, <1>6

(* A word is below the version bits, or has a version.                       *)
LEMMA VersionOf ==
  ASSUME NEW A \in Nat, A > 0, NEW w \in Nat
  PROVE  w \div (4 * A) = 0 <=> w < 4 * A
<1> DEFINE b == 4 * A
<1>1. b \in Nat /\ b > 0
  OBVIOUS
<1> HIDE DEF b
<1>2. PICK q \in Nat, r \in Nat : q = w \div b /\ r < b /\ w = b * q + r
  BY <1>1, Division
<1>3. ASSUME q = 0 PROVE w < b
  <2>1. b * q = 0
    BY <1>1, <1>3
  <2> QED BY <1>2, <2>1
<1>4. ASSUME q # 0 PROVE w >= b
  <2>1. PICK e \in Nat : q = 1 + e
    <3>1. q - 1 \in Nat /\ q = 1 + (q - 1)
      BY <1>4
    <3> QED BY <3>1
  <2>2. b * q = b + b * e /\ b * e \in Nat
    BY <1>1, <2>1
  <2> QED BY <1>1, <1>2, <2>2
<1> QED BY <1>1, <1>2, <1>3, <1>4 DEF b

(* A packet's words: what a header that can be written is written to, and    *)
(* what any three words are read as.                                         *)
HeaderWords == {<<w1, w2, w3>> : w1 \in WordValues[1], w2 \in WordValues[2], w3 \in WordValues[3]}
IsVersioned(w) == w[1] >= 4 * ApidSpan

LEMMA SpansAre ==
  /\ ApidSpan \in Nat /\ ApidSpan > 0 /\ CountSpan \in Nat /\ CountSpan > 0
  /\ LengthSpan \in Nat /\ LengthSpan > 0
BY FrameAssumption

(* Any words whose version is none are those of a header, which is read.     *)
LEMMA Repacked ==
  ASSUME NEW w \in HeaderWords
  PROVE  /\ IsVersioned(w) => ParseHeader(w) = Error("version")
         /\ ~IsVersioned(w) => /\ ParseHeader(w) \in Headers
                               /\ HeaderBytes(ParseHeader(w)) = [words |-> w]
                               /\ ParseHeader(w).dataLen = w[3] + 1
<1>1. PICK w1 \in 0 .. 8 * (4 * ApidSpan) - 1, w2 \in 0 .. 4 * CountSpan - 1,
           w3 \in 0 .. LengthSpan - 1 : w = <<w1, w2, w3>>
  BY DEF HeaderWords, WordValues
<1>2. w1 \in Nat /\ w2 \in Nat /\ w3 \in Nat /\ w2 < 4 * CountSpan /\ w3 < LengthSpan
      /\ w[1] = w1 /\ w[2] = w2 /\ w[3] = w3
  BY <1>1, SpansAre
<1>3. w1 \div (4 * ApidSpan) = 0 <=> ~IsVersioned(w)
  <2>1. w1 \div (4 * ApidSpan) = 0 <=> w1 < 4 * ApidSpan
    BY <1>2, SpansAre, VersionOf
  <2> QED BY <1>2, <2>1, SpansAre DEF IsVersioned
<1>4. CASE IsVersioned(w)
  BY <1>2, <1>3, <1>4 DEF ParseHeader
<1>5. CASE ~IsVersioned(w)
  <2>1. w1 < 4 * ApidSpan
    BY <1>2, <1>5, SpansAre DEF IsVersioned
  <2>2. PICK t \in {0, 1}, s \in {0, 1}, a \in Nat :
           a < ApidSpan /\ w1 = t * (2 * ApidSpan) + s * ApidSpan + a
    BY <1>2, <2>1, SpansAre, FirstParts
  <2>3. w1 % ApidSpan = a /\ (w1 \div (2 * ApidSpan)) % 2 = t /\ (w1 \div ApidSpan) % 2 = s
    BY <2>2, SpansAre, FirstWord
  <2>4. PICK f \in Nat, c \in Nat : f = w2 \div CountSpan /\ c = w2 % CountSpan
                                  /\ c < CountSpan /\ w2 = CountSpan * f + c
    BY <1>2, SpansAre, Division
  <2>5. f \in 0 .. 3 /\ f % 4 = f /\ w2 = f * CountSpan + c
    <3>1. ASSUME f >= 4 PROVE FALSE
      <4>1. PICK e \in Nat : f = 4 + e
        <5>1. f - 4 \in Nat /\ f = 4 + (f - 4)
          BY <3>1
        <5> QED BY <5>1
      <4>2. CountSpan * f = 4 * CountSpan + CountSpan * e /\ CountSpan * e \in Nat
        BY <4>1, SpansAre
      <4> QED BY <1>2, <2>4, <4>2, SpansAre
    <3>2. f \in 0 .. 3
      BY <3>1
    <3>3. f % 4 = f
      BY <3>2
    <3>4. CountSpan * f = f * CountSpan
      BY SpansAre
    <3> QED BY <2>4, <3>2, <3>3, <3>4
  <2>6. PICK type \in DOMAIN Types : Types[type] = t /\ Named(Types, t) = type
    <3>1. \E type \in DOMAIN Types : Types[type] = t
      <4>1. CASE t = 0
        BY <4>1 DEF Types
      <4>2. CASE t = 1
        BY <4>2 DEF Types
      <4> QED BY <4>1, <4>2
    <3> QED BY <3>1, NamedBack
  <2>7. PICK flags \in DOMAIN Flags : Flags[flags] = f /\ Named(Flags, f) = flags
    <3>1. \E flags \in DOMAIN Flags : Flags[flags] = f
      <4>1. CASE f = 0
        BY <4>1 DEF Flags
      <4>2. CASE f = 1
        BY <4>2 DEF Flags
      <4>3. CASE f = 2
        BY <4>3 DEF Flags
      <4>4. CASE f = 3
        BY <4>4 DEF Flags
      <4> QED BY <2>5, <4>1, <4>2, <4>3, <4>4
    <3> QED BY <3>1, NamedBack
  <2> DEFINE h == Header(a, type, s = 1, flags, c, w3 + 1)
  <2>8. ParseHeader(w) = h
    BY <1>2, <1>3, <1>5, <2>3, <2>4, <2>5, <2>6, <2>7 DEF ParseHeader
  <2>9. h \in Headers /\ h.dataLen = w3 + 1
    BY <1>2 DEF Headers, Header
  <2>10. HeaderBytes(h) = [words |-> <<w1, w2, w3>>]
    <3>1. h.apid = a /\ h.type = type /\ h.secondary = (s = 1) /\ h.flags = flags /\ h.count = c
          /\ h.dataLen = w3 + 1
      BY DEF Header
    <3>2. ~(a > MaxApid) /\ ~(c > MaxCount) /\ ~(w3 + 1 = 0 \/ w3 + 1 > MaxDataLen)
          /\ (w3 + 1) - 1 = w3
      BY <1>2, <2>2, <2>4, SpansAre DEF MaxApid, MaxCount, MaxDataLen
    <3>3. (IF s = 1 THEN ApidSpan ELSE 0) = s * ApidSpan
      BY SpansAre
    <3>4. t * (2 * ApidSpan) + (IF s = 1 THEN ApidSpan ELSE 0) + a = w1
      BY <2>2, <3>3
    <3> HIDE DEF h
    <3> QED BY <2>5, <2>6, <2>7, <3>1, <3>2, <3>4 DEF HeaderBytes
  <2> HIDE DEF h
  <2> QED BY <1>1, <1>2, <1>5, <2>8, <2>9, <2>10
<1> QED BY <1>4, <1>5

(* A header that can be written is read as it was written.                   *)
LEMMA HeaderSurvives ==
  ASSUME NEW h \in Headers, ~IsError(HeaderBytes(h))
  PROVE  \E w \in HeaderWords :
           ~IsVersioned(w) /\ HeaderBytes(h) = [words |-> w] /\ ParseHeader(w) = h
<1>1. /\ h = Header(h.apid, h.type, h.secondary, h.flags, h.count, h.dataLen)
      /\ h.apid \in Nat /\ h.type \in DOMAIN Types /\ h.secondary \in BOOLEAN
      /\ h.flags \in DOMAIN Flags /\ h.count \in Nat /\ h.dataLen \in Nat
  BY DEF Headers, Header
<1>2. \A why : IsError(Error(why))
  BY DEF IsError, Error
<1>3. h.apid < ApidSpan /\ h.count < CountSpan /\ h.dataLen > 0 /\ h.dataLen <= LengthSpan
  <2>1. ~(h.apid > MaxApid) /\ ~(h.count > MaxCount) /\ ~(h.dataLen = 0 \/ h.dataLen > MaxDataLen)
    BY <1>2 DEF HeaderBytes
  <2> QED BY <1>1, <2>1, SpansAre DEF MaxApid, MaxCount, MaxDataLen
<1> DEFINE t == Types[h.type]
           s == IF h.secondary THEN 1 ELSE 0
           f == Flags[h.flags]
           w1 == t * (2 * ApidSpan) + s * ApidSpan + h.apid
           w2 == f * CountSpan + h.count
           w3 == h.dataLen - 1
           w == <<w1, w2, w3>>
<1>4. t \in {0, 1} /\ s \in {0, 1} /\ f \in 0 .. 3 /\ Named(Types, t) = h.type
      /\ Named(Flags, f) = h.flags /\ (s = 1) = h.secondary
  BY <1>1, NamedBack
<1>5. HeaderBytes(h) = [words |-> <<w1, w2, w3>>]
  <2>1. (IF h.secondary THEN ApidSpan ELSE 0) = s * ApidSpan
    BY SpansAre
  <2>2. HeaderBytes(h) = [words |-> <<t * (2 * ApidSpan)
                      + (IF h.secondary THEN ApidSpan ELSE 0) + h.apid, w2, w3>>]
    BY <1>2 DEF HeaderBytes
  <2> QED BY <2>1, <2>2
<1>6. /\ w1 \in Nat /\ w1 < 4 * ApidSpan /\ w1 % ApidSpan = h.apid
      /\ (w1 \div (2 * ApidSpan)) % 2 = t /\ (w1 \div ApidSpan) % 2 = s
  <2> DEFINE a == h.apid
  <2>1. a \in Nat /\ a < ApidSpan
    BY <1>1, <1>3
  <2> HIDE DEF t, s, a
  <2>2. LET v == t * (2 * ApidSpan) + s * ApidSpan + a
        IN  /\ v \in Nat /\ v < 4 * ApidSpan /\ v % ApidSpan = a
            /\ (v \div (2 * ApidSpan)) % 2 = t /\ (v \div ApidSpan) % 2 = s
    BY <1>4, <2>1, SpansAre, FirstWord
  <2>3. w1 = t * (2 * ApidSpan) + s * ApidSpan + a
    BY DEF a
  <2> HIDE DEF w1
  <2> QED BY <2>2, <2>3, Zenon DEF a
<1>7. w2 \div CountSpan = f /\ w2 % CountSpan = h.count /\ f % 4 = f
  <2> DEFINE c == h.count
  <2>1. f \in Nat /\ f % 4 = f
    BY <1>4
  <2>2. c \in Nat /\ c < CountSpan /\ CountSpan \in Nat
    BY <1>1, <1>3, SpansAre
  <2> HIDE DEF f, c
  <2>3. (f * CountSpan + c) \div CountSpan = f /\ (f * CountSpan + c) % CountSpan = c
    BY <2>1, <2>2, QuotientOf
  <2> QED BY <2>1, <2>3 DEF c
<1>8. w2 \in 0 .. 4 * CountSpan - 1
  <2>1. f * CountSpan \in Nat /\ f * CountSpan <= 3 * CountSpan
    <3> HIDE DEF f
    <3>1. CASE f = 0
      BY <3>1, SpansAre
    <3>2. CASE f = 1
      BY <3>2, SpansAre
    <3>3. CASE f = 2
      BY <3>3, SpansAre
    <3>4. CASE f = 3
      BY <3>4, SpansAre
    <3> QED BY <1>4, <3>1, <3>2, <3>3, <3>4
  <2> HIDE DEF f
  <2> QED BY <1>1, <1>3, <2>1, SpansAre
<1>9. w3 + 1 = h.dataLen /\ w3 \in 0 .. LengthSpan - 1
  BY <1>1, <1>3, SpansAre
<1>10. w1 \div (4 * ApidSpan) = 0 /\ w1 \in 0 .. 8 * (4 * ApidSpan) - 1
  <2> HIDE DEF w1
  <2>1. w1 \div (4 * ApidSpan) = 0
    BY <1>6, SpansAre, VersionOf
  <2>2. w1 \in 0 .. 8 * (4 * ApidSpan) - 1
    BY <1>6, SpansAre
  <2> QED BY <2>1, <2>2
<1> HIDE DEF t, s, f, w1, w2, w3
<1>11. ParseHeader(w) = h
  BY <1>1, <1>4, <1>6, <1>7, <1>9, <1>10 DEF ParseHeader
<1>12. w \in HeaderWords /\ ~IsVersioned(w)
  BY <1>6, <1>8, <1>9, <1>10, SpansAre DEF HeaderWords, WordValues, IsVersioned
<1> QED BY <1>5, <1>11, <1>12

(* The fields of a word are read from that word alone.                       *)
LEMMA FieldsOfWord ==
  ASSUME NEW w \in HeaderWords, NEW v \in HeaderWords, ~IsVersioned(w), ~IsVersioned(v)
  PROVE  LET h == ParseHeader(w)
             g == ParseHeader(v)
         IN  /\ w[1] = v[1] => h.apid = g.apid /\ h.type = g.type /\ h.secondary = g.secondary
             /\ w[2] = v[2] => h.flags = g.flags /\ h.count = g.count
             /\ w[3] = v[3] => h.dataLen = g.dataLen
             /\ w # v => h # g
<1>1. ASSUME NEW u \in HeaderWords, ~IsVersioned(u)
      PROVE  ParseHeader(u) = Header(u[1] % ApidSpan,
                                     Named(Types, (u[1] \div (2 * ApidSpan)) % 2),
                                     (u[1] \div ApidSpan) % 2 = 1,
                                     Named(Flags, (u[2] \div CountSpan) % 4),
                                     u[2] % CountSpan, u[3] + 1)
  <2>1. u[1] \in Nat
    <3>1. PICK w1 \in 0 .. 8 * (4 * ApidSpan) - 1, w2 \in WordValues[2],
               w3 \in WordValues[3] : u = <<w1, w2, w3>>
      BY DEF HeaderWords, WordValues
    <3>2. w1 \in Nat /\ u[1] = w1
      BY <3>1, SpansAre
    <3> QED BY <3>2
  <2>2. u[1] \div (4 * ApidSpan) = 0
    <3>1. u[1] < 4 * ApidSpan
      BY <1>1, <2>1, SpansAre DEF IsVersioned
    <3> QED BY <2>1, <3>1, SpansAre, VersionOf
  <2> QED BY <2>2 DEF ParseHeader
<1>2. HeaderBytes(ParseHeader(w)) = [words |-> w] /\ HeaderBytes(ParseHeader(v)) = [words |-> v]
  BY Repacked
<1>3. w # v => ParseHeader(w) # ParseHeader(v)
  <2>1. [words |-> w].words = w /\ [words |-> v].words = v
    OBVIOUS
  <2> QED BY <1>2, <2>1
<1> QED BY <1>1, <1>3 DEF Header

Packets == [header : Headers, data : Seq(Octets)]

(* What is on the wire, by what happened to it.                              *)
Sent(p) == [words |-> HeaderBytes(p.header).words, data |-> p.data]
Cut(p) ==
  \/ wire = [words |-> <<>>, data |-> <<>>]
  \/ \E n \in 0 .. Len(p.data) - 1 :
       wire = [words |-> Sent(p).words, data |-> SubSeq(p.data, 1, n)]
Grown(p) == \E octet \in Octets :
              wire = [words |-> Sent(p).words, data |-> Append(p.data, octet)]
OtherWord(p, i) ==
  \E w \in WordValues[i] \ {Sent(p).words[i]} :
    wire = [words |-> [Sent(p).words EXCEPT ![i] = w], data |-> p.data]
OtherOctet(p, i) ==
  \E octet \in Octets \ {p.data[i]} :
    wire = [words |-> Sent(p).words, data |-> [p.data EXCEPT ![i] = octet]]
Carried(p) ==
  \/ wire = None /\ fault = NoFault
  \/ /\ ~IsError(HeaderBytes(p.header))
     /\ \/ fault = NoFault /\ wire = Sent(p)
        \/ fault = [what |-> "cut"] /\ Cut(p)
        \/ fault = [what |-> "grown"] /\ Grown(p)
        \/ \E i \in 1 .. 3 : fault = [what |-> "word", at |-> i] /\ OtherWord(p, i)
        \/ \E i \in DOMAIN p.data : fault = [what |-> "octet", at |-> i] /\ OtherOctet(p, i)

PacketInv ==
  item.kind = "packet" =>
    /\ item = [kind |-> "packet", packet |-> item.packet]
    /\ item.packet \in Packets /\ Carried(item.packet)
    /\ wire # None => output \in {None, Parse(wire)}
DraftInv ==
  item.kind = "draft" =>
    /\ item = [kind |-> "draft", draft |-> item.draft] /\ item.draft \in Drafts
    /\ wire = None /\ fault = NoFault
EpochInv ==
  item.kind = "epoch" =>
    /\ item.date \in Dates
    /\ output \in {None, [days |-> EpochDays1950(EpochMjd(FullYear(item.date.yy), item.date.day))]}
SpecInv ==
  item.kind = "spec" =>
    item.spec \in Specs /\ output \in {None, [tles |-> Generate(item.spec)]}

(* Another word in the place of one.                                         *)
OnlyWord(w, i, x, v) == v \in HeaderWords /\ v[i] = x /\ \A j \in 1 .. 3 \ {i} : v[j] = w[j]

LEMMA ChangedWord ==
  ASSUME NEW w \in HeaderWords, NEW i \in 1 .. 3, NEW x \in WordValues[i]
  PROVE  OnlyWord(w, i, x, [w EXCEPT ![i] = x])
<1> USE DEF OnlyWord
<1>1. PICK w1 \in WordValues[1], w2 \in WordValues[2], w3 \in WordValues[3] : w = <<w1, w2, w3>>
  BY DEF HeaderWords
<1>2. CASE i = 1
  <2>1. [w EXCEPT ![i] = x] = <<x, w2, w3>>
    BY <1>1, <1>2
  <2> QED BY <1>1, <1>2, <2>1 DEF HeaderWords
<1>3. CASE i = 2
  <2>1. [w EXCEPT ![i] = x] = <<w1, x, w3>>
    BY <1>1, <1>3
  <2> QED BY <1>1, <1>3, <2>1 DEF HeaderWords
<1>4. CASE i = 3
  <2>1. [w EXCEPT ![i] = x] = <<w1, w2, x>>
    BY <1>1, <1>4
  <2> QED BY <1>1, <1>4, <2>1 DEF HeaderWords
<1> QED BY <1>2, <1>3, <1>4

(* Whatever words and data come in are read, or refused for the version or   *)
(* the length; what is read is what came.                                    *)
LEMMA Received ==
  ASSUME NEW w \in HeaderWords, NEW d, Len(d) \in Nat, wire = [words |-> w, data |-> d]
  PROVE  /\ (IsVersioned(w) \/ Len(d) # w[3] + 1) => IsError(Parse(wire))
         /\ ~(IsVersioned(w) \/ Len(d) # w[3] + 1) =>
              Parse(wire) = [header |-> ParseHeader(w), data |-> d]
         /\ ~IsError(Parse(wire)) => PacketBytes(Parse(wire)) = wire
<1> DEFINE h == ParseHeader(w)
           p == [header |-> h, data |-> d]
<1>1. w # <<>> /\ wire.words = w /\ wire.data = d
  <2>1. PICK w1, w2, w3 : w = <<w1, w2, w3>>
    BY DEF HeaderWords
  <2> QED BY <2>1
<1>2. \A why : IsError(Error(why))
  BY DEF IsError, Error
<1>3. CASE IsVersioned(w)
  <2>1. h = Error("version")
    BY <1>3, Repacked
  <2>2. Parse(wire) = Error("version")
    BY <1>1, <1>2, <2>1 DEF Parse
  <2> QED BY <1>2, <1>3, <2>2
<1>4. CASE ~IsVersioned(w)
  <2>1. h \in Headers /\ HeaderBytes(h) = [words |-> w] /\ h.dataLen = w[3] + 1
    BY <1>4, Repacked
  <2>2. ~IsError(h) /\ ~IsError(HeaderBytes(h)) /\ ~IsError(p)
    <3>1. ~IsError(h)
      <4> HIDE DEF h
      <4> QED BY <2>1 DEF IsError, Headers
    <3>2. ~IsError(HeaderBytes(h))
      <4> HIDE DEF h
      <4> QED BY <2>1 DEF IsError
    <3>3. ~IsError(p)
      <4> HIDE DEF h
      <4> QED BY DEF IsError
    <3> QED BY <3>1, <3>2, <3>3
  <2>3. Parse(wire) = IF Len(d) # w[3] + 1 THEN Error("length") ELSE p
    BY <1>1, <2>1, <2>2 DEF Parse
  <2>4. PacketBytes(p) = wire
    <3> HIDE DEF h
    <3>1. p.header = h /\ p.data = d
      OBVIOUS
    <3>2. HeaderBytes(h).words = w
      BY <2>1
    <3> HIDE DEF p
    <3> QED BY <2>2, <3>1, <3>2 DEF PacketBytes
  <2> HIDE DEF h, p
  <2> QED BY <1>2, <1>4, <2>2, <2>3, <2>4 DEF p, h
<1> QED BY <1>3, <1>4

(* What becomes of a packet that is on the wire.                             *)
LEMMA Arrival ==
  ASSUME NEW p \in Packets, p = item.packet, Carried(p), wire # None, output = Parse(wire)
  PROVE  /\ (Honest /\ fault = NoFault) => output = p
         /\ (Honest /\ fault # NoFault) => ArrivesDamaged
         /\ (~Honest /\ fault.what \in {"none", "octet"}) => IsError(output)
         /\ ~IsError(output) => PacketBytes(output) = wire
<1> DEFINE h == p.header
           Goal == /\ (Honest /\ fault = NoFault) => output = p
                   /\ (Honest /\ fault # NoFault) => ArrivesDamaged
                   /\ (~Honest /\ fault.what \in {"none", "octet"}) => IsError(output)
                   /\ ~IsError(output) => PacketBytes(output) = wire
<1> SUFFICES Goal
  OBVIOUS
<1>1. h \in Headers /\ p.data \in Seq(Octets) /\ p = [header |-> h, data |-> p.data]
      /\ ~IsError(HeaderBytes(h)) /\ Len(p.data) \in Nat
  BY DEF Packets, Carried
<1>2. PICK w \in HeaderWords :
        ~IsVersioned(w) /\ HeaderBytes(h) = [words |-> w] /\ ParseHeader(w) = h
  BY <1>1, HeaderSurvives
<1>3. Sent(p) = [words |-> w, data |-> p.data] /\ Sent(p).words = w
  BY <1>2 DEF Sent
<1>4. h.dataLen = w[3] + 1
  BY <1>2, Repacked
<1>5. Honest <=> Len(p.data) = w[3] + 1
  BY <1>4 DEF Honest
(* The words that were sent, with other data or the same.                    *)
<1>6. ASSUME NEW d, Len(d) \in Nat, wire = [words |-> w, data |-> d]
      PROVE  /\ Len(d) # w[3] + 1 => IsError(output)
             /\ Len(d) = w[3] + 1 => output = [header |-> h, data |-> d]
             /\ ~IsError(output) => PacketBytes(output) = wire
  <2> HIDE DEF h
  <2> QED BY <1>2, <1>6, Received
<1>7. CASE fault = NoFault /\ wire = Sent(p)
  <2>1. fault.what = "none"
    BY <1>7 DEF NoFault
  <2> HIDE DEF h
  <2> QED BY <1>1, <1>3, <1>5, <1>6, <1>7, <2>1
<1>8. CASE fault = [what |-> "cut"] /\ Cut(p)
  <2>1. fault # NoFault /\ fault.what = "cut"
    BY <1>8 DEF NoFault
  <2>2. wire = [words |-> <<>>, data |-> <<>>] => IsError(output)
    <3>1. ASSUME wire = [words |-> <<>>, data |-> <<>>] PROVE output = Error("truncated")
      BY <3>1 DEF Parse
    <3> QED BY <3>1 DEF IsError, Error
  <2>3. ASSUME NEW n \in 0 .. Len(p.data) - 1,
               wire = [words |-> Sent(p).words, data |-> SubSeq(p.data, 1, n)]
        PROVE  /\ Honest => IsError(output)
               /\ ~IsError(output) => PacketBytes(output) = wire
    <3>1. Len(SubSeq(p.data, 1, n)) = n /\ n # Len(p.data) /\ n \in Nat
      BY <1>1
    <3> HIDE DEF h
    <3> QED BY <1>3, <1>5, <1>6, <2>3, <3>1
  <2>4. /\ Honest => IsError(output)
        /\ ~IsError(output) => PacketBytes(output) = wire
    BY <1>8, <2>2, <2>3 DEF Cut
  <2>5. Honest => ArrivesDamaged
    BY <2>1, <2>4 DEF ArrivesDamaged
  <2> QED BY <2>1, <2>4, <2>5
<1>9. CASE fault = [what |-> "grown"] /\ Grown(p)
  <2>1. fault # NoFault /\ fault.what = "grown"
    BY <1>9 DEF NoFault
  <2>2. PICK octet \in Octets : wire = [words |-> w, data |-> Append(p.data, octet)]
    BY <1>3, <1>9 DEF Grown
  <2> DEFINE d == Append(p.data, octet)
  <2>3. Len(d) = Len(p.data) + 1 /\ Len(d) \in Nat
    BY <1>1
  <2> HIDE DEF d, h
  <2>4. /\ Honest => IsError(output)
        /\ ~IsError(output) => PacketBytes(output) = wire
    <3>1. wire = [words |-> w, data |-> d]
      BY <2>2 DEF d
    <3>2. /\ Len(d) # w[3] + 1 => IsError(output)
          /\ ~IsError(output) => PacketBytes(output) = wire
      BY <1>6, <2>3, <3>1
    <3>3. Len(d) # Len(p.data)
      BY <1>1, <2>3
    <3> QED BY <1>5, <3>2, <3>3
  <2>5. Honest => ArrivesDamaged
    BY <2>1, <2>4 DEF ArrivesDamaged
  <2> QED BY <2>1, <2>4, <2>5
<1>10. ASSUME NEW i \in 1 .. 3, fault = [what |-> "word", at |-> i], OtherWord(p, i) PROVE Goal
  <2>1. fault # NoFault /\ fault.what = "word" /\ fault.at = i
    BY <1>10 DEF NoFault
  <2>2. PICK x \in WordValues[i] : x # w[i] /\ wire = [words |-> [w EXCEPT ![i] = x], data |-> p.data]
    BY <1>3, <1>10 DEF OtherWord
  <2> DEFINE v == [w EXCEPT ![i] = x]
  <2>3. v \in HeaderWords /\ v[i] = x /\ \A j \in 1 .. 3 \ {i} : v[j] = w[j]
    <3>1. w \in HeaderWords /\ i \in 1 .. 3 /\ x \in WordValues[i]
      BY <1>2, <1>10, <2>2
    <3>2. OnlyWord(w, i, x, v)
      BY <3>1, ChangedWord, Zenon
    <3> HIDE DEF v
    <3> QED BY <3>2 DEF OnlyWord
  <2> HIDE DEF v
  <2>4. v # w /\ wire = [words |-> v, data |-> p.data] /\ wire.words = v
    BY <2>2, <2>3 DEF v
  <2>5. /\ (IsVersioned(v) \/ Len(p.data) # v[3] + 1) => IsError(output)
        /\ ~(IsVersioned(v) \/ Len(p.data) # v[3] + 1) =>
             output = [header |-> ParseHeader(v), data |-> p.data]
        /\ ~IsError(output) => PacketBytes(output) = wire
    BY <1>1, <2>3, <2>4, Received
  <2>6. ASSUME Honest PROVE ArrivesDamaged
    <3>1. CASE i = 3
      <4>1. v[3] # w[3] /\ v[3] \in Int /\ w[3] \in Int
        <5>1. \A u \in HeaderWords : u[3] \in Int
          <6>1. ASSUME NEW u \in HeaderWords PROVE u[3] \in Int
            <7>1. PICK w1 \in WordValues[1], w2 \in WordValues[2],
                       w3 \in 0 .. LengthSpan - 1 : u = <<w1, w2, w3>>
              BY DEF HeaderWords, WordValues
            <7> QED BY <7>1, SpansAre
          <6> QED BY <6>1
        <5> QED BY <2>2, <2>3, <3>1, <5>1
      <4>2. IsError(output)
        BY <1>5, <2>5, <2>6, <4>1
      <4> QED BY <2>1, <3>1, <4>2 DEF ArrivesDamaged
    <3>2. CASE IsVersioned(v)
      BY <2>1, <2>4, <2>5, <3>2 DEF ArrivesDamaged, IsVersioned
    <3>3. CASE i # 3 /\ ~IsVersioned(v)
      <4>1. v[3] = w[3]
        BY <2>3, <3>3
      <4>2. output = [header |-> ParseHeader(v), data |-> p.data]
        BY <1>5, <2>5, <2>6, <3>3, <4>1
      <4>3. DiffersAt(output.header, item.packet.header, FieldsOf[i])
        <5> DEFINE g == ParseHeader(v)
        <5>1. g \in Headers
          BY <2>3, <3>3, Repacked
        <5>2. /\ v[1] = w[1] => g.apid = h.apid /\ g.type = h.type /\ g.secondary = h.secondary
              /\ v[2] = w[2] => g.flags = h.flags /\ g.count = h.count
              /\ v[3] = w[3] => g.dataLen = h.dataLen
              /\ v # w => g # h
          BY <1>2, <2>3, <3>3, FieldsOfWord
        <5> HIDE DEF g
        <5>3. DOMAIN g = {"apid", "type", "secondary", "flags", "count", "dataLen"}
          BY <5>1 DEF Headers
        <5>4. g # h
          BY <2>4, <5>2
        <5>5. CASE i = 1
          <6>1. g.flags = h.flags /\ g.count = h.count /\ g.dataLen = h.dataLen
            BY <2>3, <5>2, <5>5
          <6>2. FieldsOf[i] = {"apid", "type", "secondary"}
            BY <5>5 DEF FieldsOf
          <6>3. \A y \in DOMAIN g \ FieldsOf[i] : g[y] = h[y]
            BY <5>3, <6>1, <6>2
          <6> QED BY <4>2, <5>4, <6>3 DEF DiffersAt, g
        <5>6. CASE i = 2
          <6>1. g.apid = h.apid /\ g.type = h.type /\ g.secondary = h.secondary
                /\ g.dataLen = h.dataLen
            BY <2>3, <5>2, <5>6
          <6>2. FieldsOf[i] = {"flags", "count"}
            BY <5>6 DEF FieldsOf
          <6>3. \A y \in DOMAIN g \ FieldsOf[i] : g[y] = h[y]
            BY <5>3, <6>1, <6>2
          <6> QED BY <4>2, <5>4, <6>3 DEF DiffersAt, g
        <5> QED BY <3>3, <5>5, <5>6
      <4>4. output.data = item.packet.data
        BY <4>2
      <4>5. ~(fault.at = 3 \/ wire.words[1] >= 4 * ApidSpan)
        BY <2>1, <2>4, <3>3 DEF IsVersioned
      <4> QED BY <2>1, <4>3, <4>4, <4>5 DEF ArrivesDamaged
    <3> QED BY <3>1, <3>2, <3>3
  <2> QED BY <2>1, <2>5, <2>6
<1>11. ASSUME NEW i \in DOMAIN p.data, fault = [what |-> "octet", at |-> i], OtherOctet(p, i)
       PROVE Goal
  <2>1. fault # NoFault /\ fault.what = "octet" /\ fault.at = i
    BY <1>11 DEF NoFault
  <2>2. PICK octet \in Octets :
          octet # p.data[i] /\ wire = [words |-> w, data |-> [p.data EXCEPT ![i] = octet]]
    BY <1>3, <1>11 DEF OtherOctet
  <2> DEFINE d == [p.data EXCEPT ![i] = octet]
  <2>3. d \in Seq(Octets) /\ Len(d) = Len(p.data) /\ d[i] = octet
        /\ DOMAIN d = DOMAIN p.data /\ \A j \in DOMAIN d \ {i} : d[j] = p.data[j]
    BY <1>1, <1>11, <2>2
  <2>4. /\ ~Honest => IsError(output)
        /\ Honest => output = [header |-> h, data |-> d]
        /\ ~IsError(output) => PacketBytes(output) = wire
    <3> HIDE DEF h, d
    <3> QED BY <1>1, <1>5, <1>6, <2>2, <2>3 DEF d
  <2>5. ASSUME Honest PROVE ArrivesDamaged
    <3> HIDE DEF d
    <3>1. output.header = item.packet.header /\ output.data = d
      BY <2>4, <2>5
    <3>2. d # p.data
      BY <2>2, <2>3
    <3>3. \A j \in DOMAIN d \ {i} : d[j] = p.data[j]
      BY <2>3
    <3>4. DiffersAt(d, p.data, {i})
      BY <3>2, <3>3 DEF DiffersAt
    <3>5. DiffersAt(output.data, item.packet.data, {fault.at})
      BY <2>1, <3>1, <3>4
    <3> QED BY <2>1, <3>1, <3>5 DEF ArrivesDamaged
  <2> QED BY <2>1, <2>4, <2>5
<1> HIDE DEF Goal
<1> QED BY <1>7, <1>8, <1>9, <1>10, <1>11 DEF Carried

FormatsInv == PacketInv /\ DraftInv /\ EpochInv /\ SpecInv

LEMMA FormatsInvInit == Init => FormatsInv
<1> SUFFICES ASSUME Init PROVE FormatsInv
  OBVIOUS
<1> USE DEF Init, FormatsInv, PacketInv, DraftInv, EpochInv, SpecInv
<1>1. CASE \E set \in ElementSets : item = [kind |-> "text", set |-> set]
  BY <1>1
<1>2. CASE \E date \in Dates : item = [kind |-> "epoch", date |-> date] /\ wire = None
  BY <1>2
<1>3. CASE \E draft \in Drafts : item = [kind |-> "draft", draft |-> draft] /\ wire = None
  BY <1>3
<1>4. CASE \E sp \in Specs : item = [kind |-> "spec", spec |-> sp] /\ wire = None
  BY <1>4
<1> QED BY <1>1, <1>2, <1>3, <1>4

(* The item stays what it is, but for a draft that becomes a packet and a    *)
(* packet that is edited.                                                    *)
LEMMA BuiltPacket ==
  ASSUME FormatsInv, BuildPacket
  PROVE  /\ item'.kind = "packet" => /\ item' = [kind |-> "packet", packet |-> item'.packet]
                                     /\ item'.packet \in Packets
         /\ item'.kind # "packet" => item' = item
         /\ item'.kind \in {"draft", "packet"} /\ wire' = None /\ fault' = NoFault
<1>1. PICK d \in Drafts : item = [kind |-> "draft", draft |-> d]
  BY DEF FormatsInv, DraftInv, BuildPacket
<1>2. d.header \in Headers /\ d.data \in Seq(Octets) /\ Len(d.data) \in Nat
  BY DraftsAssumption
<1> DEFINE h == [d.header EXCEPT !.dataLen = Len(d.data)]
<1>3. h \in Headers
  BY <1>2 DEF Headers
<1> HIDE DEF h
<1>4. NewPacket(d.header, d.data) = (IF IsError(HeaderBytes(h)) THEN HeaderBytes(h)
                                      ELSE [header |-> h, data |-> d.data])
  BY DEF NewPacket, h
<1>5. wire' = None /\ fault' = NoFault /\ item.kind = "draft"
  BY DEF FormatsInv, DraftInv, BuildPacket
<1> DEFINE p == [header |-> h, data |-> d.data]
<1>6. \/ item' = item
      \/ /\ item' = [kind |-> "packet", packet |-> NewPacket(d.header, d.data)]
         /\ ~IsError(NewPacket(d.header, d.data))
  <2>1. item.draft = d
    BY <1>1
  <2>2. IF IsError(NewPacket(item.draft.header, item.draft.data)) THEN item' = item
        ELSE item' = [kind |-> "packet", packet |-> NewPacket(item.draft.header, item.draft.data)]
    BY Zenon DEF BuildPacket
  <2>3. IF IsError(NewPacket(d.header, d.data)) THEN item' = item
        ELSE item' = [kind |-> "packet", packet |-> NewPacket(d.header, d.data)]
    BY <2>1, <2>2, Zenon
  <2> QED BY <2>3, Zenon
<1>7. CASE item' = item
  BY <1>1, <1>5, <1>7
<1>8. CASE item' # item
  <2>1. NewPacket(d.header, d.data) = p
    BY <1>4, <1>6, <1>8
  <2>2. p \in Packets
    BY <1>2, <1>3 DEF Packets
  <2> HIDE DEF p
  <2> QED BY <1>5, <1>6, <1>8, <2>1, <2>2
<1> QED BY <1>7, <1>8

LEMMA EditedPacket ==
  ASSUME FormatsInv, EditPacket
  PROVE  /\ item' = [kind |-> "packet", packet |-> item'.packet]
         /\ item'.packet \in Packets
         /\ wire' = None /\ fault' = NoFault
<1>1. PICK p \in Packets : item = [kind |-> "packet", packet |-> p]
  BY DEF FormatsInv, PacketInv, EditPacket
<1>2. wire' = None /\ fault' = NoFault
  <2>1. wire = None /\ wire' = wire /\ fault' = fault /\ Carried(item.packet)
    BY DEF FormatsInv, PacketInv, EditPacket
  <2>2. ~IsError(HeaderBytes(item.packet.header)) => fault = NoFault
    <3>1. \A a, b : [words |-> a, data |-> b] # None
      BY DEF None
    <3> QED BY <2>1, <3>1 DEF Carried, Cut, Grown, OtherWord, OtherOctet, Sent
  <2> QED BY <2>1, <2>2 DEF Carried
<1>3. p = [header |-> p.header, data |-> p.data] /\ p.data \in Seq(Octets)
      /\ p.header \in Headers
  BY DEF Packets
<1>4. ASSUME NEW n \in Lengths, item' = [item EXCEPT !.packet.header.dataLen = n]
      PROVE  item' = [kind |-> "packet", packet |-> [p EXCEPT !.header = [p.header EXCEPT !.dataLen = n]]]
             /\ [p EXCEPT !.header = [p.header EXCEPT !.dataLen = n]] \in Packets
  <2>1. [p.header EXCEPT !.dataLen = n] \in Headers
    BY <1>3, DraftsAssumption DEF Headers
  <2> QED BY <1>1, <1>3, <1>4, <2>1 DEF Packets
<1>5. ASSUME NEW d \in Drafts, item' = [item EXCEPT !.packet.data = d.data]
      PROVE  item' = [kind |-> "packet", packet |-> [p EXCEPT !.data = d.data]]
             /\ [p EXCEPT !.data = d.data] \in Packets
  <2>1. d.data \in Seq(Octets)
    BY DraftsAssumption
  <2> QED BY <1>1, <1>3, <1>5, <2>1 DEF Packets
<1>6. ASSUME NEW d \in Drafts, item' = [item EXCEPT !.packet.header.apid = d.header.apid]
      PROVE  item' = [kind |-> "packet",
                      packet |-> [p EXCEPT !.header = [p.header EXCEPT !.apid = d.header.apid]]]
             /\ [p EXCEPT !.header = [p.header EXCEPT !.apid = d.header.apid]] \in Packets
  <2>1. [p.header EXCEPT !.apid = d.header.apid] \in Headers
    BY <1>3, DraftsAssumption DEF Headers
  <2> QED BY <1>1, <1>3, <1>6, <2>1 DEF Packets
<1>7. \/ \E n \in Lengths : item' = [item EXCEPT !.packet.header.dataLen = n]
      \/ \E d \in Drafts : item' = [item EXCEPT !.packet.data = d.data]
      \/ \E d \in Drafts : item' = [item EXCEPT !.packet.header.apid = d.header.apid]
  BY DEF EditPacket
<1>8. \E q \in Packets : item' = [kind |-> "packet", packet |-> q]
  <2>1. CASE \E n \in Lengths : item' = [item EXCEPT !.packet.header.dataLen = n]
    BY <1>4, <2>1
  <2>2. CASE \E d \in Drafts : item' = [item EXCEPT !.packet.data = d.data]
    BY <1>5, <2>2
  <2>3. CASE \E d \in Drafts : item' = [item EXCEPT !.packet.header.apid = d.header.apid]
    BY <1>6, <2>3
  <2> QED BY <1>7, <2>1, <2>2, <2>3
<1> QED BY <1>2, <1>8

(* What a packet that is sent or damaged leaves on the wire.                 *)
LEMMA SentPacket ==
  ASSUME FormatsInv, SendPacket PROVE Carried(item.packet)' /\ (wire' # None => output' = None)
<1>1. PICK p \in Packets : p = item.packet /\ item' = item /\ wire = None /\ output = None
  BY DEF FormatsInv, PacketInv, SendPacket
<1>2. fault' = NoFault
  <2>1. \A a, b : [words |-> a, data |-> b] # None
    BY DEF None
  <2>2. Carried(item.packet) /\ fault' = fault
    BY DEF FormatsInv, PacketInv, SendPacket
  <2> QED BY <1>1, <2>1, <2>2 DEF Carried, Cut, Grown, OtherWord, OtherOctet, Sent
<1>3. IF IsError(PacketBytes(p)) THEN wire' = wire ELSE wire' = PacketBytes(p) /\ output' = output
  BY <1>1, Zenon DEF SendPacket
<1>4. CASE IsError(HeaderBytes(p.header))
  <2>1. IsError(PacketBytes(p))
    BY <1>4 DEF PacketBytes
  <2> QED BY <1>1, <1>2, <1>3, <2>1 DEF Carried
<1>5. CASE ~IsError(HeaderBytes(p.header))
  <2>1. PacketBytes(p) = Sent(p) /\ ~IsError(Sent(p))
    BY <1>5 DEF PacketBytes, Sent, IsError
  <2>2. wire' = Sent(p) /\ output' = None
    BY <1>1, <1>3, <2>1
  <2> QED BY <1>1, <1>2, <1>5, <2>2 DEF Carried
<1> QED BY <1>4, <1>5

LEMMA DamagedPacket ==
  ASSUME FormatsInv, DamagePacket PROVE Carried(item.packet)' /\ output' = None
<1>1. PICK p \in Packets : p = item.packet /\ item' = item /\ output' = None
  BY DEF FormatsInv, PacketInv, DamagePacket
<1>2. ~IsError(HeaderBytes(p.header)) /\ wire = Sent(p) /\ wire # None
  <2>1. /\ [what |-> "cut"] # NoFault /\ [what |-> "grown"] # NoFault
        /\ \A i : [what |-> "word", at |-> i] # NoFault /\ [what |-> "octet", at |-> i] # NoFault
    BY DEF NoFault
  <2>2. Carried(p) /\ fault = NoFault /\ wire # None
    BY <1>1 DEF FormatsInv, PacketInv, DamagePacket
  <2> QED BY <2>1, <2>2 DEF Carried
<1>3. wire = [words |-> Sent(p).words, data |-> p.data] /\ p.data \in Seq(Octets)
      /\ p.header \in Headers
  BY <1>2 DEF Sent, Packets
<1>4. CASE /\ \/ \E n \in 0 .. Len(wire.data) - 1 : wire' = [wire EXCEPT !.data = SubSeq(@, 1, n)]
              \/ wire' = [words |-> <<>>, data |-> <<>>]
           /\ fault' = [what |-> "cut"]
  <2>1. Cut(p)'
    BY <1>3, <1>4 DEF Cut, Sent
  <2> QED BY <1>1, <1>2, <1>4, <2>1 DEF Carried
<1>5. CASE /\ \E octet \in Octets : wire' = [wire EXCEPT !.data = Append(@, octet)]
           /\ fault' = [what |-> "grown"]
  <2>1. Grown(p)'
    BY <1>3, <1>5 DEF Grown, Sent
  <2> QED BY <1>1, <1>2, <1>5, <2>1 DEF Carried
<1>6. ASSUME NEW i \in 1 .. 3, NEW w \in WordValues[i] \ {wire.words[i]},
             wire' = [wire EXCEPT !.words[i] = w], fault' = [what |-> "word", at |-> i]
      PROVE  Carried(p)'
  <2>1. w \in WordValues[i] \ {Sent(p).words[i]}
        /\ wire' = [words |-> [Sent(p).words EXCEPT ![i] = w], data |-> p.data]
    BY <1>3, <1>6
  <2>2. OtherWord(p, i)'
    BY <2>1 DEF OtherWord, Sent
  <2> QED BY <1>2, <1>6, <2>2 DEF Carried
<1>7. ASSUME NEW i \in DOMAIN wire.data, NEW octet \in Octets \ {wire.data[i]},
             wire' = [wire EXCEPT !.data[i] = octet], fault' = [what |-> "octet", at |-> i]
      PROVE  Carried(p)'
  <2>1. octet \in Octets \ {p.data[i]} /\ i \in DOMAIN p.data
        /\ wire' = [words |-> Sent(p).words, data |-> [p.data EXCEPT ![i] = octet]]
    BY <1>3, <1>7
  <2>2. OtherOctet(p, i)'
    BY <2>1 DEF OtherOctet, Sent
  <2> QED BY <1>2, <1>7, <2>1, <2>2 DEF Carried
<1> QED BY <1>1, <1>4, <1>5, <1>6, <1>7 DEF DamagePacket

LEMMA FormatsInvKept ==
  ASSUME FormatsInv, [Next]_vars PROVE FormatsInv'
<1>1. CASE BuildPacket
  <2>1. item'.kind = "packet" => Carried(item.packet)'
    BY <1>1, BuiltPacket DEF Carried
  <2> QED BY <1>1, <2>1, BuiltPacket DEF FormatsInv, PacketInv, DraftInv, EpochInv, SpecInv
<1>2. CASE EditPacket
  <2>1. Carried(item.packet)' /\ item'.kind = "packet"
    BY <1>2, EditedPacket DEF Carried
  <2> QED BY <1>2, <2>1, EditedPacket DEF FormatsInv, PacketInv, DraftInv, EpochInv, SpecInv
<1>3. CASE SendPacket
  <2>1. item' = item /\ item.kind = "packet" /\ PacketInv
    BY <1>3 DEF SendPacket, FormatsInv
  <2> QED BY <1>3, <2>1, SentPacket DEF FormatsInv, PacketInv, DraftInv, EpochInv, SpecInv
<1>4. CASE DamagePacket
  <2>1. item' = item /\ item.kind = "packet" /\ PacketInv
    BY <1>4 DEF DamagePacket, FormatsInv
  <2> QED BY <1>4, <2>1, DamagedPacket DEF FormatsInv, PacketInv, DraftInv, EpochInv, SpecInv
<1>5. CASE ReceivePacket
  <2>1. item' = item /\ item.kind = "packet" /\ PacketInv /\ wire' = wire /\ fault' = fault
        /\ output' = Parse(wire)
    BY <1>5 DEF ReceivePacket, FormatsInv
  <2>2. Carried(item.packet)'
    BY <2>1 DEF PacketInv, Carried, Cut, Grown, OtherWord, OtherOctet
  <2> QED BY <2>1, <2>2 DEF FormatsInv, PacketInv, DraftInv, EpochInv, SpecInv
<1>6. CASE GarbleText \/ ParseText
  <2>1. item' = item /\ item.kind = "text"
    BY <1>6 DEF GarbleText, ParseText
  <2> QED BY <2>1 DEF FormatsInv, PacketInv, DraftInv, EpochInv, SpecInv
<1>7. CASE TakeEpoch
  <2>1. item' = item /\ item.kind = "epoch" /\ EpochInv
        /\ output' = [days |-> EpochDays1950(EpochMjd(FullYear(item.date.yy), item.date.day))]
    BY <1>7 DEF TakeEpoch, FormatsInv
  <2> QED BY <2>1 DEF FormatsInv, PacketInv, DraftInv, EpochInv, SpecInv
<1>8. CASE GenerateAll
  <2>1. item' = item /\ item.kind = "spec" /\ SpecInv /\ output' = [tles |-> Generate(item.spec)]
    BY <1>8 DEF GenerateAll, FormatsInv
  <2> QED BY <2>1 DEF FormatsInv, PacketInv, DraftInv, EpochInv, SpecInv
<1>9. CASE UNCHANGED vars
  BY <1>9 DEF vars, FormatsInv, PacketInv, DraftInv, EpochInv, SpecInv, Carried, Cut, Grown,
              OtherWord, OtherOctet
<1> QED BY <1>1, <1>2, <1>3, <1>4, <1>5, <1>6, <1>7, <1>8, <1>9 DEF Next

LEMMA FormatsInvHolds == Spec => []FormatsInv
BY FormatsInvInit, FormatsInvKept, PTL DEF Spec

(* The propagator starts from the right day, in every year a two-digit epoch *)
(* can name and on every day of it: the two loops of mjd_at_year_start count *)
(* the calendar's days, over leap years and the leap century, and the day    *)
(* epoch_mjd loses is the one epoch_days_1950 gains.                         *)
THEOREM StartsOnTheRightDayHolds == Spec => []StartsOnTheRightDay
<1>1. FormatsInv => StartsOnTheRightDay
  <2> SUFFICES ASSUME FormatsInv, Done, item.kind = "epoch"
               PROVE  output.days = TrueDays1950(FullYear(item.date.yy), item.date.day)
    BY DEF StartsOnTheRightDay
  <2>1. PICK yy \in 0 .. 99, day \in Int : yy = item.date.yy /\ day = item.date.day
    BY DatesAssumption DEF FormatsInv, EpochInv
  <2>2. output = [days |-> EpochDays1950(EpochMjd(FullYear(yy), day))]
    BY <2>1 DEF FormatsInv, EpochInv, Done
  <2>3. output.days = EpochDays1950(EpochMjd(FullYear(yy), day))
    BY <2>2
  <2> QED BY <2>1, <2>3, RightDay
<1> QED BY <1>1, FormatsInvHolds, PTL

(* However many satellites and planes are asked for, and whatever the phase, *)
(* every satellite is generated once, in the order of the planes, each full  *)
(* before the next is begun and none taken that was not asked for; and two   *)
(* of a plane are in one place exactly when their steps come to whole turns. *)
THEOREM FillsThePlanesHolds == Spec => []FillsThePlanes
<1>1. FormatsInv => FillsThePlanes
  <2> SUFFICES ASSUME FormatsInv, Done, item.kind = "spec" PROVE FillsThePlanes
    BY DEF FillsThePlanes
  <2>1. PICK sp \in Specification : sp = item.spec
    BY SpecsAssumption DEF FormatsInv, SpecInv, Specification
  <2>2. output = [tles |-> Generate(sp)]
    BY <2>1 DEF FormatsInv, SpecInv, Done
  <2>3. output.tles = Generate(sp)
    BY <2>2
  <2> QED BY <2>1, <2>3, PlanesFilled DEF FillsThePlanes
<1> QED BY <1>1, FormatsInvHolds, PTL

(* Whatever header and data a caller builds and edits, and for fields of any *)
(* width: a packet that goes out with the length of its data arrives as it   *)
(* was sent; cut, grown, with another length or a version it is refused; any *)
(* other word or octet the link changes arrives changed, silently, and       *)
(* changes its own fields or itself alone; what arrives serialises to the    *)
(* very bytes that came (SpacePacket::to_bytes, from_bytes).                 *)
THEOREM PacketsSurviveHolds == Spec => []PacketsSurvive
<1>1. FormatsInv => PacketsSurvive
  <2> SUFFICES ASSUME FormatsInv, Done, item.kind = "packet", wire # None PROVE PacketsSurvive
    BY DEF PacketsSurvive
  <2>1. PICK p \in Packets : p = item.packet /\ Carried(p) /\ output = Parse(wire)
    BY DEF FormatsInv, PacketInv, Done
  <2> QED BY <2>1, Arrival DEF PacketsSurvive, Honest
<1> QED BY <1>1, FormatsInvHolds, PTL

-----------------------------------------------------------------------------
(* The characters of a text                                                  *)
Characters == {Digit(n) : n \in 0 .. 9} \cup {Blank, Plus, Minus, Dot} \cup Glyphs

LEMMA TenOfThem ==
  ASSUME NEW a, NEW b, NEW c, NEW d, NEW e, NEW f, NEW g, NEW h, NEW i, NEW j
  PROVE  LET s == <<a, b, c, d, e, f, g, h, i, j>>
         IN  /\ s[1] = a /\ s[2] = b /\ s[3] = c /\ s[4] = d /\ s[5] = e
             /\ s[6] = f /\ s[7] = g /\ s[8] = h /\ s[9] = i /\ s[10] = j
OBVIOUS

(* The ten digits are ten characters, and none of them a mark.               *)
LEMMA DigitFacts ==
  /\ \A n \in 0 .. 9 : /\ IsDigit(Digit(n)) /\ Value(Digit(n)) = n /\ Weight(Digit(n)) = n
                        /\ Digit(n) \notin {Blank, Plus, Minus, Dot}
                        /\ ~Sign(Digit(n)) /\ ~BelowZero(Digit(n))
  /\ \A m, n \in 0 .. 9 : Digit(m) = Digit(n) => m = n
<1>1. /\ Digit(0) = "0" /\ Digit(1) = "1" /\ Digit(2) = "2" /\ Digit(3) = "3"
      /\ Digit(4) = "4" /\ Digit(5) = "5" /\ Digit(6) = "6" /\ Digit(7) = "7"
      /\ Digit(8) = "8" /\ Digit(9) = "9"
  <2>1. /\ Digits[1] = "0" /\ Digits[2] = "1" /\ Digits[3] = "2" /\ Digits[4] = "3"
        /\ Digits[5] = "4" /\ Digits[6] = "5" /\ Digits[7] = "6" /\ Digits[8] = "7"
        /\ Digits[9] = "8" /\ Digits[10] = "9"
    BY TenOfThem, Zenon DEF Digits
  <2>2. \A i \in Int : Digit(i) = Digits[i + 1]
    BY DEF Digit
  <2>3. /\ 0 + 1 = 1 /\ 1 + 1 = 2 /\ 2 + 1 = 3 /\ 3 + 1 = 4 /\ 4 + 1 = 5
        /\ 5 + 1 = 6 /\ 6 + 1 = 7 /\ 7 + 1 = 8 /\ 8 + 1 = 9 /\ 9 + 1 = 10
        /\ {0, 1, 2, 3, 4, 5, 6, 7, 8, 9} \subseteq Int
    OBVIOUS
  <2> QED BY <2>1, <2>2, <2>3, ZenonT(40)
<1>2. \A n \in 0 .. 9 : n \in {0, 1, 2, 3, 4, 5, 6, 7, 8, 9}
  OBVIOUS
<1>3. \A m, n \in 0 .. 9 : Digit(m) = Digit(n) => m = n
  BY <1>1, <1>2
<1>4. \A n \in 0 .. 9 : Digit(n) \notin {Blank, Plus, Minus, Dot}
  BY <1>1, <1>2 DEF Blank, Plus, Minus, Dot
<1>5. ASSUME NEW n \in 0 .. 9 PROVE IsDigit(Digit(n)) /\ Value(Digit(n)) = n
  BY <1>3 DEF IsDigit, Value
<1>6. \A n \in 0 .. 9 : Weight(Digit(n)) = n /\ ~Sign(Digit(n)) /\ ~BelowZero(Digit(n))
  BY <1>4, <1>5 DEF Weight, Sign, BelowZero
<1> QED BY <1>3, <1>4, <1>5, <1>6

LEMMA MarkFacts ==
  /\ \A c \in {Blank, Plus, Minus, Dot} : ~IsDigit(c)
  /\ Blank \notin {Plus, Minus, Dot} /\ Minus # Plus /\ Dot \notin {Plus, Minus}
  /\ \A c : Weight(c) \in 0 .. 9
<1>1. \A c \in {Blank, Plus, Minus, Dot} : ~IsDigit(c)
  BY DigitFacts DEF IsDigit
<1>2. \A c : IsDigit(c) => Value(c) \in 0 .. 9
  BY DEF IsDigit, Value
<1>3. \A c : Weight(c) \in 0 .. 9
  BY <1>2 DEF Weight
<1>4. Blank \notin {Plus, Minus, Dot} /\ Minus # Plus /\ Dot \notin {Plus, Minus}
  BY DEF Blank, Plus, Minus, Dot
<1> QED BY <1>1, <1>3, <1>4

LEMMA LeastIs ==
  ASSUME NEW S \in SUBSET Int, NEW i \in S, \A j \in S : i <= j PROVE Least(S) = i
<1> DEFINE m == Least(S)
<1>1. m \in S /\ \A j \in S : m <= j
  BY DEF Least
<1> HIDE DEF m
<1>2. m \in Int /\ i \in Int /\ m <= i /\ i <= m
  BY <1>1
<1>3. m = i
  BY <1>2
<1> QED BY <1>3 DEF m

LEMMA GreatestIs ==
  ASSUME NEW S \in SUBSET Int, NEW i \in S, \A j \in S : j <= i PROVE Greatest(S) = i
<1> DEFINE m == Greatest(S)
<1>1. m \in S /\ \A j \in S : j <= m
  BY DEF Greatest
<1> HIDE DEF m
<1>2. m \in Int /\ i \in Int /\ m <= i /\ i <= m
  BY <1>1
<1>3. m = i
  BY <1>2
<1> QED BY <1>3 DEF m

LEMMA NotBlankFacts ==
  ASSUME NEW C, NEW s \in Seq(C)
  PROVE  /\ NotBlank(s) \in SUBSET Int /\ NotBlank(s) \subseteq 1 .. Len(s) /\ Len(s) \in Nat
         /\ \A i \in 1 .. Len(s) : i \in NotBlank(s) <=> s[i] # Blank
<1>1. DOMAIN s = 1 .. Len(s) /\ Len(s) \in Nat
  OBVIOUS
<1>2. 1 .. Len(s) \subseteq Int
  BY <1>1
<1> QED BY <1>1, <1>2 DEF NotBlank

(* Trimming from the first and to the last character that is no blank.       *)
LEMMA TrimIs ==
  ASSUME NEW C, NEW s \in Seq(C), NEW i \in 1 .. Len(s), NEW k \in 1 .. Len(s),
         s[i] # Blank, s[k] # Blank, \A j \in 1 .. Len(s) : (j < i \/ k < j) => s[j] = Blank
  PROVE Trim(s) = SubSeq(s, i, k)
<1>1. /\ i \in NotBlank(s) /\ k \in NotBlank(s)
      /\ \A j \in NotBlank(s) : i <= j /\ j <= k
  BY NotBlankFacts
<1>2. Greatest(NotBlank(s)) = k /\ Least(NotBlank(s)) = i
  BY <1>1, NotBlankFacts, GreatestIs, LeastIs
<1> QED BY <1>1, <1>2 DEF Trim

LEMMA TrimEndKeeps ==
  ASSUME NEW C, NEW s \in Seq(C), Len(s) > 0, s[Len(s)] # Blank PROVE TrimEnd(s) = s
<1>1. Len(s) \in NotBlank(s) /\ \A j \in NotBlank(s) : j <= Len(s)
  BY NotBlankFacts
<1>2. Greatest(NotBlank(s)) = Len(s)
  BY <1>1, NotBlankFacts, GreatestIs
<1>3. SubSeq(s, 1, Len(s)) = s
  OBVIOUS
<1> QED BY <1>1, <1>2, <1>3 DEF TrimEnd

(* Trimming never makes a line longer, and makes it shorter if it ends with a blank. *)
LEMMA TrimEndShortens ==
  ASSUME NEW C, NEW s \in Seq(C)
  PROVE  Len(TrimEnd(s)) <= Len(s) /\ Len(TrimEnd(s)) \in Nat
         /\ (Len(s) > 0 /\ s[Len(s)] = Blank => Len(TrimEnd(s)) < Len(s))
<1>1. CASE NotBlank(s) = {}
  BY <1>1 DEF TrimEnd
<1>2. CASE NotBlank(s) # {}
  <2> DEFINE m == Greatest(NotBlank(s))
  <2>1. m \in NotBlank(s)
    <3> DEFINE S == {-i : i \in NotBlank(s)}
    <3>1. S \in SUBSET Int /\ S # {} /\ \A x \in S : -Len(s) <= x
      BY <1>2, NotBlankFacts
    <3>2. PICK x \in S : \A y \in S : x <= y
      <4> HIDE DEF S
      <4>1. -Len(s) \in Int
        OBVIOUS
      <4> QED BY <3>1, <4>1, LeastInteger
    <3>3. PICK i \in NotBlank(s) : x = -i
      OBVIOUS
    <3>4. \A j \in NotBlank(s) : j \in Int /\ i \in Int /\ -i <= -j
      BY <3>2, <3>3, NotBlankFacts
    <3>5. \A j \in NotBlank(s) : j <= i
      BY <3>4
    <3> QED BY <3>5 DEF Greatest
  <2>2. m \in 1 .. Len(s) /\ s[m] # Blank
    BY <2>1, NotBlankFacts
  <2>3. TrimEnd(s) = SubSeq(s, 1, m)
    BY <1>2 DEF TrimEnd
  <2> HIDE DEF m
  <2>4. Len(SubSeq(s, 1, m)) = m
    BY <2>2
  <2> QED BY <2>2, <2>3, <2>4
<1> QED BY <1>1, <1>2

-----------------------------------------------------------------------------
(* Sums and numbers                                                          *)

LEMMA HornerFacts ==
  ASSUME NEW base \in Int, NEW n \in Nat, NEW w \in [1 .. n -> Int]
  PROVE  \E f \in [0 .. n -> Int] :
           /\ f[0] = 0 /\ \A i \in 1 .. n : f[i] = base * f[i - 1] + w[i]
           /\ Horner(base, w) = f[n]
<1> DEFINE F(f) == f = [i \in 0 .. Len(w) |-> IF i = 0 THEN 0 ELSE base * f[i - 1] + w[i]]
           f == CHOOSE f : F(f)
<1>1. Len(w) = n /\ w \in Seq(Int)
  OBVIOUS
<1>2. \E T \in [0 .. n -> Int] : T[0] = 0 /\ \A i \in 1 .. n : T[i] = base * T[i - 1] + w[i]
  <2> DEFINE X == Nat \X Int
             at(i) == IF i \in 1 .. n THEN w[i] ELSE 0
             g == [x \in X |-> <<x[1] + 1, base * x[2] + at(x[1] + 1)>>]
  <2>1. \A i \in Int : at(i) \in Int
    OBVIOUS
  <2>2. g \in [X -> X] /\ <<0, 0>> \in X
    <3> SUFFICES ASSUME NEW x \in X
                 PROVE <<x[1] + 1, base * x[2] + at(x[1] + 1)>> \in X
      OBVIOUS
    <3>1. x[1] \in Nat /\ x[2] \in Int
      OBVIOUS
    <3>2. x[1] + 1 \in Nat /\ base * x[2] \in Int /\ at(x[1] + 1) \in Int
      BY <2>1, <3>1
    <3> HIDE DEF at
    <3> QED BY <3>2
  <2>3. PICK T : Iterates(T, X, <<0, 0>>, g)
    <3> HIDE DEF g, X
    <3> QED BY <2>2, Iteration
  <2>4. T[0] = <<0, 0>> /\ \A k \in Nat : T[k] \in X /\ T[k + 1] = g[T[k]]
    BY <2>3 DEF Iterates
  <2>5. \A k \in Nat : T[k + 1] = <<T[k][1] + 1, base * T[k][2] + at(T[k][1] + 1)>>
    BY <2>4
  <2> DEFINE S == {k \in Nat : T[k][1] = k}
  <2>6. \A k \in Nat : k \in S
    <3>1. 0 \in S
      BY <2>4
    <3>2. ASSUME NEW k \in Nat, k \in S PROVE k + 1 \in S
      <4> HIDE DEF at
      <4> QED BY <2>5, <3>2
    <3> HIDE DEF S
    <3> QED BY <3>1, <3>2, Induction
  <2> DEFINE U == [i \in 0 .. n |-> T[i][2]]
  <2>7. \A k \in Nat : T[k][2] \in Int
    BY <2>4
  <2>8. ASSUME NEW i \in 1 .. n PROVE U[i] = base * U[i - 1] + w[i]
    <3>1. i - 1 \in Nat /\ i - 1 \in 0 .. n /\ (i - 1) + 1 = i
      OBVIOUS
    <3>2. T[i - 1][1] = i - 1
      BY <2>6, <3>1
    <3>3. T[i] = <<i, base * T[i - 1][2] + at(i)>>
      <4> HIDE DEF at
      <4> QED BY <2>5, <3>1, <3>2
    <3>4. T[i][2] = base * T[i - 1][2] + w[i]
      BY <3>3
    <3> QED BY <3>1, <3>4
  <2>9. U \in [0 .. n -> Int] /\ U[0] = 0
    BY <2>4, <2>7
  <2> HIDE DEF U
  <2> QED BY <2>8, <2>9
<1>3. PICK T \in [0 .. n -> Int] : T[0] = 0 /\ \A i \in 1 .. n : T[i] = base * T[i - 1] + w[i]
  BY <1>2
<1>4. F(T)
  <2> DEFINE body(i) == IF i = 0 THEN 0 ELSE base * T[i - 1] + w[i]
  <2>1. \A i \in 0 .. n : T[i] = body(i)
    BY <1>3
  <2>2. T = [i \in 0 .. n |-> body(i)]
    <3> HIDE DEF body
    <3> QED BY <2>1
  <2> QED BY <1>1, <2>2
<1>5. F(f)
  <2> HIDE DEF F
  <2> QED BY <1>4
<1>6. f[0] = 0 /\ \A i \in 1 .. n : f[i] = base * f[i - 1] + w[i]
  <2> HIDE DEF f
  <2>1. ASSUME NEW i \in 1 .. n PROVE i \in 0 .. Len(w) /\ i # 0
    BY <1>1
  <2>2. 0 \in 0 .. Len(w)
    BY <1>1
  <2> QED BY <1>5, <2>1, <2>2
<1> DEFINE S == {i \in Nat : i <= n => f[i] = T[i]}
<1>7. \A i \in Nat : i \in S
  <2> HIDE DEF f
  <2>1. 0 \in S
    BY <1>3, <1>6
  <2>2. ASSUME NEW i \in Nat, i \in S PROVE i + 1 \in S
    <3> SUFFICES ASSUME i + 1 <= n PROVE f[i + 1] = T[i + 1]
      OBVIOUS
    <3>1. i + 1 \in 1 .. n /\ (i + 1) - 1 = i /\ f[i] = T[i]
      BY <2>2
    <3> QED BY <1>3, <1>6, <3>1
  <2> HIDE DEF S
  <2> QED BY <2>1, <2>2, Induction
<1>8. f[n] = T[n]
  <2> HIDE DEF f
  <2>1. n \in S
    BY <1>7
  <2> QED BY <2>1
<1>9. Horner(base, w) = f[n]
  BY <1>1 DEF Horner
<1> HIDE DEF f
<1> QED BY <1>3, <1>8, <1>9

(* What a loop that sums makes of one summand after another.                 *)
LEMMA SumFacts ==
  ASSUME NEW n \in Nat, NEW w \in [1 .. n -> Int]
  PROVE  \E f \in [0 .. n -> Int] :
           f[0] = 0 /\ (\A i \in 1 .. n : f[i] = f[i - 1] + w[i]) /\ Horner(1, w) = f[n]
<1> DEFINE one == 1
<1>1. one \in Int /\ \A x \in Int : one * x = x
  OBVIOUS
<1> HIDE DEF one
<1>2. PICK f \in [0 .. n -> Int] :
        /\ f[0] = 0 /\ \A i \in 1 .. n : f[i] = one * f[i - 1] + w[i]
        /\ Horner(one, w) = f[n]
  BY <1>1, HornerFacts
<1>3. ASSUME NEW i \in 1 .. n PROVE f[i] = f[i - 1] + w[i]
  <2>1. i - 1 \in 0 .. n
    OBVIOUS
  <2>2. f[i - 1] \in Int
    BY <2>1
  <2> QED BY <1>1, <1>2, <2>2
<1> QED BY <1>2, <1>3 DEF one

LEMMA HornerOnce ==
  ASSUME NEW base \in Int, NEW n \in Nat, NEW w \in [1 .. n -> Int]
  PROVE  /\ n = 1 => Horner(base, w) = w[1]
         /\ n = 2 => Horner(base, w) = base * w[1] + w[2]
<1>1. PICK f \in [0 .. n -> Int] :
        /\ f[0] = 0 /\ \A i \in 1 .. n : f[i] = base * f[i - 1] + w[i]
        /\ Horner(base, w) = f[n]
  BY HornerFacts
<1>2. base * 0 = 0 /\ \A x \in Int : 0 + x = x
  OBVIOUS
<1>3. ASSUME n >= 1 PROVE f[1] = w[1] /\ w[1] \in Int
  <2>1. 1 \in 1 .. n /\ 1 - 1 = 0
    BY <1>3
  <2>2. f[1] = base * f[0] + w[1]
    BY <1>1, <2>1
  <2>3. w[1] \in Int
    BY <2>1
  <2> QED BY <1>1, <1>2, <2>2, <2>3
<1>4. ASSUME n = 2 PROVE f[2] = base * w[1] + w[2]
  <2>1. 2 \in 1 .. n /\ 2 - 1 = 1 /\ n >= 1
    BY <1>4
  <2>2. f[2] = base * f[1] + w[2]
    BY <1>1, <2>1
  <2> QED BY <1>3, <2>1, <2>2
<1> QED BY <1>1, <1>3, <1>4

LEMMA OneDigit ==
  ASSUME NEW n \in 0 .. 9 PROVE Digital(<<Digit(n)>>) /\ Number(<<Digit(n)>>) = n
<1> DEFINE s == <<Digit(n)>>
           w == [i \in DOMAIN s |-> Value(s[i])]
<1>1. DOMAIN s = 1 .. 1 /\ s[1] = Digit(n) /\ s # <<>>
  OBVIOUS
<1> HIDE DEF s
<1>2. w \in [1 .. 1 -> Int] /\ w[1] = n
  BY <1>1, DigitFacts
<1>3. Number(s) = Horner(10, w)
  BY DEF Number
<1> HIDE DEF w
<1>4. 1 \in Nat /\ 10 \in Int
  OBVIOUS
<1>5. Number(s) = n
  BY <1>2, <1>3, <1>4, HornerOnce
<1>6. Digital(s)
  BY <1>1, DigitFacts DEF Digital
<1> QED BY <1>5, <1>6 DEF s

LEMMA BothDigits ==
  ASSUME NEW a \in 0 .. 9, NEW b \in 0 .. 9
  PROVE  Digital(<<Digit(a), Digit(b)>>) /\ Number(<<Digit(a), Digit(b)>>) = 10 * a + b
<1> DEFINE s == <<Digit(a), Digit(b)>>
           w == [i \in DOMAIN s |-> Value(s[i])]
<1>1. DOMAIN s = 1 .. 2 /\ s[1] = Digit(a) /\ s[2] = Digit(b) /\ s # <<>>
  OBVIOUS
<1> HIDE DEF s
<1>2. w \in [1 .. 2 -> Int] /\ w[1] = a /\ w[2] = b
  BY <1>1, DigitFacts
<1>3. Number(s) = Horner(10, w)
  BY DEF Number
<1> HIDE DEF w
<1>4. 2 \in Nat /\ 10 \in Int
  OBVIOUS
<1>5. Number(s) = 10 * a + b
  BY <1>2, <1>3, <1>4, HornerOnce
<1>7. Digital(s)
  BY <1>1, DigitFacts DEF Digital
<1> QED BY <1>5, <1>7 DEF s

LEMMA SumOf ==
  ASSUME NEW n \in Nat, NEW w \in [1 .. n -> 0 .. 9]
  PROVE  Horner(1, w) \in Nat
<1>1. w \in [1 .. n -> Int]
  OBVIOUS
<1>2. PICK f \in [0 .. n -> Int] :
        f[0] = 0 /\ (\A i \in 1 .. n : f[i] = f[i - 1] + w[i]) /\ Horner(1, w) = f[n]
  BY <1>1, SumFacts
<1> DEFINE S == {i \in Nat : i <= n => f[i] >= 0}
<1>3. \A i \in Nat : i \in S
  <2>1. 0 \in S
    BY <1>2
  <2>2. ASSUME NEW i \in Nat, i \in S PROVE i + 1 \in S
    <3> SUFFICES ASSUME i + 1 <= n PROVE f[i + 1] >= 0
      OBVIOUS
    <3>1. i + 1 \in 1 .. n /\ (i + 1) - 1 = i /\ f[i] \in Int /\ f[i] >= 0 /\ w[i + 1] \in 0 .. 9
      BY <2>2
    <3>2. f[i + 1] = f[i] + w[i + 1]
      BY <1>2, <3>1
    <3> QED BY <3>1, <3>2, SMTT(30)
  <2> HIDE DEF S
  <2> QED BY <2>1, <2>2, Induction
<1>4. f[n] >= 0 /\ f[n] \in Int
  BY <1>3
<1> QED BY <1>2, <1>4

(* One summand that changes changes the sum by as much.                      *)
LEMMA SumChanges ==
  ASSUME NEW n \in Nat, NEW v \in [1 .. n -> 0 .. 9], NEW w \in [1 .. n -> 0 .. 9],
         NEW j \in 1 .. n, \A i \in 1 .. n : i # j => v[i] = w[i]
  PROVE  Horner(1, v) = Horner(1, w) + (v[j] - w[j])
<1>1. v \in [1 .. n -> Int] /\ w \in [1 .. n -> Int]
  OBVIOUS
<1>2. PICK f \in [0 .. n -> Int] :
        f[0] = 0 /\ (\A i \in 1 .. n : f[i] = f[i - 1] + v[i]) /\ Horner(1, v) = f[n]
  BY <1>1, SumFacts
<1>3. PICK g \in [0 .. n -> Int] :
        g[0] = 0 /\ (\A i \in 1 .. n : g[i] = g[i - 1] + w[i]) /\ Horner(1, w) = g[n]
  BY <1>1, SumFacts
<1> DEFINE S == {i \in Nat : i <= n => f[i] = g[i] + (IF i < j THEN 0 ELSE v[j] - w[j])}
<1>4. \A i \in Nat : i \in S
  <2>1. 0 \in S
    BY <1>2, <1>3
  <2>2. ASSUME NEW i \in Nat, i \in S PROVE i + 1 \in S
    <3> SUFFICES ASSUME i + 1 <= n
                 PROVE f[i + 1] = g[i + 1] + (IF i + 1 < j THEN 0 ELSE v[j] - w[j])
      OBVIOUS
    <3>1. i + 1 \in 1 .. n /\ (i + 1) - 1 = i /\ f[i] \in Int /\ g[i] \in Int
          /\ v[i + 1] \in Int /\ w[i + 1] \in Int /\ v[j] \in Int /\ w[j] \in Int
      BY <1>1
    <3>2. f[i] = g[i] + (IF i < j THEN 0 ELSE v[j] - w[j])
      BY <2>2, <3>1
    <3>3. f[i + 1] = f[i] + v[i + 1] /\ g[i + 1] = g[i] + w[i + 1]
      BY <1>2, <1>3, <3>1
    <3>4. CASE i + 1 = j
      <4>1. i < j /\ ~(i + 1 < j)
        BY <3>4
      <4>2. f[i] = g[i]
        BY <3>1, <3>2, <4>1
      <4>3. f[i + 1] = g[i] + v[j] /\ g[i + 1] = g[i] + w[j]
        BY <3>3, <3>4, <4>2
      <4>4. g[i] + v[j] = (g[i] + w[j]) + (v[j] - w[j])
        BY <3>1, SMTT(30)
      <4>5. f[i + 1] = g[i + 1] + (v[j] - w[j])
        BY <4>3, <4>4
      <4> QED BY <4>1, <4>5
    <3>5. CASE i + 1 # j
      <4>1. v[i + 1] = w[i + 1] /\ (i < j <=> i + 1 < j)
        BY <3>1, <3>5, SMTT(30)
      <4> DEFINE d == IF i < j THEN 0 ELSE v[j] - w[j]
      <4>2. d \in Int /\ f[i] = g[i] + d
        BY <3>1, <3>2
      <4>3. d = IF i + 1 < j THEN 0 ELSE v[j] - w[j]
        BY <4>1
      <4> HIDE DEF d
      <4>4. PICK p \in Int, q \in Int : p = g[i] /\ q = w[i + 1]
        BY <3>1
      <4>5. (p + d) + q = (p + q) + d
        BY <4>2
      <4>6. f[i + 1] = (p + d) + q /\ g[i + 1] = p + q
        BY <3>3, <4>1, <4>2, <4>4
      <4> QED BY <4>3, <4>5, <4>6
    <3> QED BY <3>4, <3>5
  <2> HIDE DEF S
  <2> QED BY <2>1, <2>2, Induction
<1>5. f[n] = g[n] + (v[j] - w[j])
  <2>1. n \in S
    BY <1>4
  <2> QED BY <2>1
<1> QED BY <1>2, <1>3, <1>5

-----------------------------------------------------------------------------
(* Parts of lines                                                            *)

LEMMA PartOf ==
  ASSUME NEW C, NEW s \in Seq(C), NEW i \in 1 .. Len(s), NEW k \in i .. Len(s)
  PROVE  /\ SubSeq(s, i, k) \in Seq(C) /\ Len(SubSeq(s, i, k)) = k - i + 1
         /\ \A j \in 1 .. k - i + 1 : SubSeq(s, i, k)[j] = s[i + j - 1]
<1>1. \A j \in i .. k : s[j] \in C
  OBVIOUS
<1> QED BY <1>1

LEMMA SameLine ==
  ASSUME NEW C, NEW s \in Seq(C), NEW D, NEW t \in Seq(D), Len(s) = Len(t),
         \A i \in 1 .. Len(s) : s[i] = t[i]
  PROVE  s = t
OBVIOUS

LEMMA Sums ==
  ASSUME NEW C, NEW s \in Seq(C)
  PROVE  /\ [i \in DOMAIN s |-> Weight(s[i])] \in [1 .. Len(s) -> 0 .. 9]
         /\ Checksum(s) \in 0 .. 9
<1> DEFINE w == [i \in DOMAIN s |-> Weight(s[i])]
<1>1. DOMAIN s = 1 .. Len(s) /\ Len(s) \in Nat
  OBVIOUS
<1>2. w \in [1 .. Len(s) -> 0 .. 9]
  BY <1>1, MarkFacts
<1>3. Checksum(s) = Horner(1, w) % 10
  BY DEF Checksum
<1> HIDE DEF w
<1>4. Horner(1, w) \in Nat
  BY <1>1, <1>2, SumOf
<1>5. \A x \in Nat : x % 10 \in 0 .. 9
  OBVIOUS
<1> QED BY <1>2, <1>3, <1>4, <1>5 DEF w

(* A line with its check digit: no blank ends it, and the digit is right.    *)
LEMMA CheckedIs ==
  ASSUME NEW b \in Seq(Characters)
  PROVE  /\ Checked(b) \in Seq(Characters) /\ Len(Checked(b)) = Len(b) + 1 /\ Len(b) \in Nat
         /\ \A i \in 1 .. Len(b) : Checked(b)[i] = b[i]
         /\ Checked(b)[Len(b) + 1] = Digit(Checksum(b)) /\ Checksum(b) \in 0 .. 9
         /\ SubSeq(Checked(b), 1, Len(b)) = b
         /\ TrimEnd(Checked(b)) = Checked(b)
         /\ ~BadLine(Checked(b), Len(b) + 1)
<1> DEFINE e == Digit(Checksum(b))
<1>1. Checksum(b) \in 0 .. 9
  BY Sums
<1>2. e \in Characters
  BY <1>1 DEF Characters
<1>3. e # Blank
  BY <1>1, DigitFacts
<1>4. Checked(b) = Append(b, e)
  BY DEF Checked
<1> HIDE DEF e
<1>5. /\ Append(b, e) \in Seq(Characters) /\ Len(Append(b, e)) = Len(b) + 1 /\ Len(b) \in Nat
      /\ \A i \in 1 .. Len(b) : Append(b, e)[i] = b[i]
      /\ Append(b, e)[Len(b) + 1] = e
      /\ SubSeq(Append(b, e), 1, Len(b)) = b
  BY <1>2
<1>6. Len(b) + 1 > 0
  BY <1>5
<1>7. TrimEnd(Checked(b)) = Checked(b)
  BY <1>3, <1>4, <1>5, <1>6, TrimEndKeeps
<1>8. (Len(b) + 1) - 1 = Len(b)
  BY <1>5
<1>9. ~BadLine(Checked(b), Len(b) + 1)
  BY <1>4, <1>5, <1>8 DEF BadLine, e
<1> QED BY <1>1, <1>4, <1>5, <1>7, <1>9 DEF e

(* One character of such a line garbled.                                     *)
Garbling(b, m, j, g) ==
  /\ b \in Seq(Characters) /\ m = Len(b) + 1
  /\ j \in 1 .. m /\ g \in Characters /\ g # Checked(b)[j]
AsGarbled(a, c, m, j, g) ==
  /\ c \in Seq(Characters) /\ Len(c) = m
  /\ \A i \in 1 .. m : c[i] = IF i = j THEN g ELSE a[i]
  /\ j = m => (Len(TrimEnd(c)) < m \/ (TrimEnd(c) = c /\ BadLine(c, m)))
  /\ j # m => /\ TrimEnd(c) = c /\ ~BelowZero(c[m])
              /\ BadLine(c, m) \/ Weight(a[j]) = Weight(g)
LEMMA GarbledIs ==
  \A b, m, j, g :
    Garbling(b, m, j, g) => AsGarbled(Checked(b), [Checked(b) EXCEPT ![j] = g], m, j, g)
<1> SUFFICES ASSUME NEW b \in Seq(Characters), NEW j \in 1 .. Len(b) + 1, NEW g \in Characters,
                    g # Checked(b)[j]
             PROVE  AsGarbled(Checked(b), [Checked(b) EXCEPT ![j] = g], Len(b) + 1, j, g)
  BY Zenon DEF Garbling
<1> DEFINE m == Len(b) + 1
           c == [Checked(b) EXCEPT ![j] = g]
<1>1. c \in Seq(Characters) /\ Len(c) = m /\ m \in Nat /\ m > 0
  BY CheckedIs
<1>2. \A i \in 1 .. m : c[i] = IF i = j THEN g ELSE Checked(b)[i]
  BY CheckedIs
<1> HIDE DEF c
<1>3. m \in 1 .. m /\ m - 1 = Len(b) /\ Len(b) \in Nat
  BY <1>1
<1>4. ASSUME j = m PROVE Len(TrimEnd(c)) < m \/ (TrimEnd(c) = c /\ BadLine(c, m))
  <2>1. c[m] = g
    BY <1>2, <1>3, <1>4
  <2>2. SubSeq(c, 1, m - 1) = b
    <3>1. CASE Len(b) = 0
      <4>1. SubSeq(c, 1, 0) = << >> /\ b = << >>
        BY <1>1, <3>1
      <4> QED BY <1>3, <3>1, <4>1
    <3>2. CASE Len(b) # 0
      <4>1. 1 \in 1 .. Len(c) /\ Len(b) \in 1 .. Len(c) /\ Len(b) - 1 + 1 = Len(b)
        BY <1>1, <1>3, <3>2
      <4>2. /\ SubSeq(c, 1, Len(b)) \in Seq(Characters) /\ Len(SubSeq(c, 1, Len(b))) = Len(b)
            /\ \A i \in 1 .. Len(b) : SubSeq(c, 1, Len(b))[i] = c[1 + i - 1]
        BY <1>1, <4>1, PartOf
      <4>3. ASSUME NEW i \in 1 .. Len(b) PROVE c[1 + i - 1] = b[i]
        <5>1. 1 + i - 1 = i /\ i \in 1 .. m /\ i # j
          BY <1>3, <1>4
        <5> QED BY <1>2, <5>1, CheckedIs
      <4>4. SubSeq(c, 1, Len(b)) = b
        BY <4>2, <4>3, SameLine
      <4> QED BY <1>3, <4>4
    <3> QED BY <3>1, <3>2
  <2>3. BadLine(c, m)
    BY <1>4, <2>1, <2>2, CheckedIs DEF BadLine
  <2>4. CASE g = Blank
    BY <1>1, <2>1, <2>4, TrimEndShortens
  <2>5. CASE g # Blank
    BY <1>1, <2>1, <2>3, <2>5, TrimEndKeeps
  <2> QED BY <2>4, <2>5
<1>5. ASSUME j # m
      PROVE  TrimEnd(c) = c /\ ~BelowZero(c[m])
             /\ (BadLine(c, m) \/ Weight(Checked(b)[j]) = Weight(g))
  <2>1. c[m] = Digit(Checksum(b)) /\ j \in 1 .. Len(b) /\ Checksum(b) \in 0 .. 9
    BY <1>2, <1>3, <1>5, CheckedIs
  <2>2. c[m] # Blank /\ ~BelowZero(c[m])
    BY <2>1, DigitFacts
  <2>3. TrimEnd(c) = c
    BY <1>1, <2>2, TrimEndKeeps
  <2>4. SUFFICES ASSUME ~BadLine(c, m) PROVE Weight(Checked(b)[j]) = Weight(g)
    BY <2>2, <2>3
  <2> DEFINE a == SubSeq(c, 1, m - 1)
  <2>5. a \in Seq(Characters) /\ Len(a) = Len(b) /\ \A i \in 1 .. Len(b) : a[i] = c[i]
    <3>1. 1 \in 1 .. Len(c) /\ m - 1 \in 1 .. Len(c) /\ m - 1 - 1 + 1 = Len(b)
      BY <1>1, <1>3, <2>1
    <3>2. /\ a \in Seq(Characters) /\ Len(a) = Len(b)
          /\ \A i \in 1 .. Len(b) : a[i] = c[1 + i - 1]
      BY <1>1, <3>1, PartOf
    <3>3. \A i \in 1 .. Len(b) : 1 + i - 1 = i
      OBVIOUS
    <3> QED BY <3>2, <3>3
  <2>6. Checksum(a) = Checksum(b)
    <3>1. Digit(Checksum(a)) = Digit(Checksum(b))
      BY <2>1, <2>4 DEF BadLine
    <3>2. Checksum(a) \in 0 .. 9
      BY <2>5, Sums
    <3> QED BY <2>1, <3>1, <3>2, DigitFacts
  <2> HIDE DEF a
  <2> DEFINE v == [i \in DOMAIN a |-> Weight(a[i])]
             w == [i \in DOMAIN b |-> Weight(b[i])]
  <2>7. v \in [1 .. Len(b) -> 0 .. 9] /\ w \in [1 .. Len(b) -> 0 .. 9]
    BY <2>5, Sums
  <2>8. \A i \in 1 .. Len(b) : v[i] = Weight(a[i]) /\ w[i] = Weight(b[i])
    BY <2>5
  <2>9. Checksum(a) = Horner(1, v) % 10 /\ Checksum(b) = Horner(1, w) % 10
    BY DEF Checksum
  <2> HIDE DEF v, w
  <2>10. \A i \in 1 .. Len(b) : a[i] = IF i = j THEN g ELSE b[i]
    <3> SUFFICES ASSUME NEW i \in 1 .. Len(b) PROVE a[i] = IF i = j THEN g ELSE b[i]
      OBVIOUS
    <3>1. i \in 1 .. m
      BY <1>3
    <3> QED BY <1>2, <2>5, <3>1, CheckedIs
  <2>11. v[j] = Weight(g) /\ w[j] = Weight(b[j]) /\ Checked(b)[j] = b[j]
    BY <2>1, <2>8, <2>10, CheckedIs
  <2>12. \A i \in 1 .. Len(b) : i # j => v[i] = w[i]
    BY <2>8, <2>10
  <2>13. Horner(1, v) = Horner(1, w) + (v[j] - w[j])
    BY <1>3, <2>1, <2>7, <2>12, SumChanges
  <2>14. Horner(1, v) \in Nat /\ Horner(1, w) \in Nat /\ v[j] \in 0 .. 9 /\ w[j] \in 0 .. 9
    BY <1>3, <2>1, <2>7, SumOf
  <2>15. v[j] = w[j]
    <3>1. ASSUME NEW x \in Nat, NEW y \in Nat, NEW p \in 0 .. 9, NEW q \in 0 .. 9,
                 x = y + (p - q), x % 10 = y % 10
          PROVE  p = q
      BY <3>1
    <3> QED BY <2>6, <2>9, <2>13, <2>14, <3>1
  <2> QED BY <2>11, <2>15
<1> QED BY <1>1, <1>2, <1>4, <1>5 DEF c, AsGarbled

-----------------------------------------------------------------------------
(* What the fields are read as                                               *)

LEMMA EndsAreFound ==
  ASSUME NEW C, NEW s \in Seq(C), NotBlank(s) # {}
  PROVE  /\ Least(NotBlank(s)) \in NotBlank(s) /\ \A j \in NotBlank(s) : Least(NotBlank(s)) <= j
         /\ Greatest(NotBlank(s)) \in NotBlank(s)
         /\ \A j \in NotBlank(s) : j <= Greatest(NotBlank(s))
<1> DEFINE S == NotBlank(s)
           T == {-i : i \in S}
<1>1. /\ S \in SUBSET Int /\ S # {} /\ \A x \in S : 0 <= x
      /\ T \in SUBSET Int /\ T # {} /\ \A x \in T : -Len(s) <= x
      /\ 0 \in Int /\ -Len(s) \in Int
  BY NotBlankFacts
<1> HIDE DEF S
<1>2. \E m \in S : \A j \in S : m <= j
  BY <1>1, LeastInteger
<1>3. PICK x \in T : \A y \in T : x <= y
  <2> HIDE DEF T
  <2> QED BY <1>1, LeastInteger
<1>4. PICK i \in S : x = -i
  OBVIOUS
<1>5. \A j \in S : j \in Int /\ i \in Int /\ -i <= -j
  BY <1>1, <1>3, <1>4
<1>6. \A j \in S : j <= i
  BY <1>5
<1> QED BY <1>2, <1>6 DEF Least, Greatest, S

LEMMA TrimWhole ==
  ASSUME NEW C, NEW s \in Seq(C), Len(s) > 0, s[1] # Blank, s[Len(s)] # Blank
  PROVE  Trim(s) = s
<1>1. 1 \in 1 .. Len(s) /\ Len(s) \in 1 .. Len(s)
      /\ \A j \in 1 .. Len(s) : ~(j < 1) /\ ~(Len(s) < j)
  OBVIOUS
<1>2. Trim(s) = SubSeq(s, 1, Len(s))
  BY <1>1, TrimIs
<1> QED BY <1>2

(* Two characters that are no blanks keep what lies between them.            *)
LEMMA TrimLong ==
  ASSUME NEW C, NEW s \in Seq(C), NEW i \in 1 .. Len(s), NEW k \in 1 .. Len(s),
         i < k, s[i] # Blank, s[k] # Blank
  PROVE  Len(Trim(s)) \in Nat /\ Len(Trim(s)) >= 2
<1>1. i \in NotBlank(s) /\ k \in NotBlank(s)
  BY NotBlankFacts
<1> DEFINE p == Least(NotBlank(s))
           q == Greatest(NotBlank(s))
<1>2. p \in 1 .. Len(s) /\ q \in 1 .. Len(s) /\ p <= i /\ k <= q
  BY <1>1, EndsAreFound, NotBlankFacts
<1>3. Trim(s) = SubSeq(s, p, q)
  BY <1>1 DEF Trim
<1> HIDE DEF p, q
<1>4. q \in p .. Len(s) /\ q - p + 1 \in Nat /\ q - p + 1 >= 2
  BY <1>2
<1>5. Len(SubSeq(s, p, q)) = q - p + 1
  BY <1>2, <1>4, PartOf
<1> QED BY <1>3, <1>4, <1>5

LEMMA OneOf ==
  ASSUME NEW C, NEW s \in Seq(C), NEW i \in 1 .. Len(s)
  PROVE  SubSeq(s, i, i) = <<s[i]>>
<1>1. i \in i .. Len(s) /\ i - i + 1 = 1 /\ i + 1 - 1 = i
  OBVIOUS
<1>2. SubSeq(s, i, i) \in Seq(C) /\ Len(SubSeq(s, i, i)) = 1 /\ SubSeq(s, i, i)[1] = s[i]
  BY <1>1, PartOf
<1>3. <<s[i]>> \in Seq(C) /\ Len(<<s[i]>>) = 1 /\ <<s[i]>>[1] = s[i]
  OBVIOUS
<1>4. \A j \in 1 .. 1 : j = 1
  OBVIOUS
<1> QED BY <1>2, <1>3, <1>4, SameLine

LEMMA TwoOf ==
  ASSUME NEW C, NEW s \in Seq(C), NEW i \in 1 .. Len(s), NEW k \in 1 .. Len(s), k = i + 1
  PROVE  SubSeq(s, i, k) = <<s[i], s[k]>>
<1>1. k \in i .. Len(s) /\ k - i + 1 = 2 /\ i + 1 - 1 = i /\ i + 2 - 1 = k
  OBVIOUS
<1>2. SubSeq(s, i, k) \in Seq(C) /\ Len(SubSeq(s, i, k)) = 2 /\ SubSeq(s, i, k)[1] = s[i]
      /\ SubSeq(s, i, k)[2] = s[k]
  BY <1>1, PartOf
<1>3. <<s[i], s[k]>> \in Seq(C) /\ Len(<<s[i], s[k]>>) = 2 /\ <<s[i], s[k]>>[1] = s[i]
      /\ <<s[i], s[k]>>[2] = s[k]
  OBVIOUS
<1>4. \A j \in 1 .. 2 : j = 1 \/ j = 2
  OBVIOUS
<1> QED BY <1>2, <1>3, <1>4, SameLine

LEMMA U32Digit ==
  ASSUME NEW n \in 0 .. 9 PROVE U32(<<Digit(n)>>) = n
<1>1. <<Digit(n)>>[1] # Plus
  BY DigitFacts
<1> DEFINE s == <<Digit(n)>>
<1> HIDE DEF s
<1>2. U32(s) = IF Digital(s) THEN Number(s) ELSE Bad
  BY <1>1 DEF U32, s
<1> QED BY <1>2, OneDigit DEF s

LEMMA U32Digits ==
  ASSUME NEW a \in 0 .. 9, NEW b \in 0 .. 9 PROVE U32(<<Digit(a), Digit(b)>>) = 10 * a + b
<1>1. <<Digit(a), Digit(b)>>[1] # Plus
  BY DigitFacts
<1> DEFINE s == <<Digit(a), Digit(b)>>
<1> HIDE DEF s
<1>2. U32(s) = IF Digital(s) THEN Number(s) ELSE Bad
  BY <1>1 DEF U32, s
<1> QED BY <1>2, BothDigits DEF s

LEMMA F64Digit ==
  ASSUME NEW n \in 0 .. 9 PROVE F64(<<Digit(n)>>) = 10 * n
<1> DEFINE s == <<Digit(n)>>
           points == {i \in DOMAIN s : s[i] = Dot}
<1>1. s[1] = Digit(n) /\ DOMAIN s = 1 .. 1
  OBVIOUS
<1>2. ~Sign(s[1]) /\ s[1] # Minus /\ points = {}
  BY <1>1, DigitFacts DEF Sign
<1> HIDE DEF s
<1>3. F64(s) = IF Digital(s) THEN 10 * Number(s) ELSE Bad
  BY <1>2 DEF F64
<1> QED BY <1>3, OneDigit DEF s

LEMMA NumberRead ==
  ASSUME NEW s \in Seq(Characters), Len(s) >= 1, NEW n \in 0 .. 9, s[1] = Digit(n)
  PROVE  U32(Columns(s, Line1.number)) = n
<1>1. Line1.number[1] = 1 /\ Line1.number[2] = 1 /\ 1 \in 1 .. Len(s)
  BY DEF Line1
<1>2. SubSeq(s, 1, 1) = <<Digit(n)>>
  BY <1>1, OneOf
<1>3. Columns(s, Line1.number) = Trim(<<Digit(n)>>)
  BY <1>1, <1>2 DEF Columns
<1> DEFINE p == <<Digit(n)>>
<1>4. p \in Seq({Digit(n)}) /\ Len(p) = 1 /\ p[1] # Blank
  BY DigitFacts
<1> HIDE DEF p
<1>5. Len(p) > 0 /\ p[Len(p)] # Blank
  BY <1>4
<1>6. Trim(p) = p
  BY <1>4, <1>5, TrimWhole
<1> QED BY <1>3, <1>6, U32Digit DEF p

LEMMA MotionRead ==
  ASSUME NEW s \in Seq(Characters), Len(s) >= 3, NEW n \in 0 .. 9, s[2] = Blank, s[3] = Digit(n)
  PROVE  F64(Columns(s, Line2.motion)) = 10 * n
<1>1. Line2.motion[1] = 2 /\ Line2.motion[2] = 3 /\ 2 \in 1 .. Len(s) /\ 3 \in 1 .. Len(s)
      /\ 3 = 2 + 1
  BY DEF Line2
<1> DEFINE p == <<Blank, Digit(n)>>
<1>2. SubSeq(s, 2, 3) = p
  BY <1>1, TwoOf
<1>3. Columns(s, Line2.motion) = Trim(p)
  BY <1>1, <1>2 DEF Columns
<1>4. p \in Seq({Blank, Digit(n)}) /\ Len(p) = 2 /\ p[1] = Blank /\ p[2] = Digit(n)
      /\ p[2] # Blank
  BY DigitFacts
<1> HIDE DEF p
<1>5. 2 \in 1 .. Len(p) /\ \A j \in 1 .. Len(p) : (j < 2 \/ 2 < j) => j = 1
  BY <1>4
<1>6. Trim(p) = SubSeq(p, 2, 2)
  BY <1>4, <1>5, TrimIs
<1>7. SubSeq(p, 2, 2) = <<Digit(n)>>
  BY <1>4, <1>5, OneOf
<1> QED BY <1>3, <1>6, <1>7, F64Digit

EpochText(s, a, b, d) ==
  /\ s \in Seq(Characters) /\ Len(s) >= 4 /\ a \in 0 .. 9 /\ b \in 0 .. 9 /\ d \in 0 .. 9
  /\ s[2] = Digit(a) /\ s[3] = Digit(b) /\ s[4] = Digit(d)
LEMMA EpochRead ==
  \A s, a, b, d : EpochText(s, a, b, d) =>
    /\ Len(Columns(s, Line1.epoch)) = 3
    /\ U32(Trim(SubSeq(Columns(s, Line1.epoch), 1, 2))) = 10 * a + b
    /\ F64(Trim(SubSeq(Columns(s, Line1.epoch), 3, Len(Columns(s, Line1.epoch))))) = 10 * d
<1> SUFFICES ASSUME NEW s, NEW a, NEW b, NEW d, EpochText(s, a, b, d)
             PROVE  LET epoch == Columns(s, Line1.epoch)
                    IN  /\ Len(epoch) = 3
                        /\ U32(Trim(SubSeq(epoch, 1, 2))) = 10 * a + b
                        /\ F64(Trim(SubSeq(epoch, 3, Len(epoch)))) = 10 * d
  BY Zenon
<1> USE DEF EpochText
<1>1. Line1.epoch[1] = 2 /\ Line1.epoch[2] = 4
  BY DEF Line1
<1> DEFINE p == SubSeq(s, 2, 4)
<1>2. /\ p \in Seq(Characters) /\ Len(p) = 3
      /\ p[1] = Digit(a) /\ p[2] = Digit(b) /\ p[3] = Digit(d)
  <2>1. 2 \in 1 .. Len(s) /\ 4 \in 2 .. Len(s) /\ 4 - 2 + 1 = 3
        /\ 2 + 1 - 1 = 2 /\ 2 + 2 - 1 = 3 /\ 2 + 3 - 1 = 4
    OBVIOUS
  <2>2. p \in Seq(Characters) /\ Len(p) = 3 /\ \A j \in 1 .. 3 : p[j] = s[2 + j - 1]
    BY <2>1, PartOf
  <2> QED BY <2>1, <2>2
<1>3. Columns(s, Line1.epoch) = Trim(p)
  BY <1>1 DEF Columns
<1> HIDE DEF p
<1>4. Len(p) > 0 /\ p[1] # Blank /\ p[Len(p)] # Blank
  BY <1>2, DigitFacts
<1>5. Columns(s, Line1.epoch) = p
  BY <1>2, <1>3, <1>4, TrimWhole
<1>6. 1 \in 1 .. Len(p) /\ 2 \in 1 .. Len(p) /\ 3 \in 1 .. Len(p) /\ 2 = 1 + 1
  BY <1>2
<1> DEFINE q == <<Digit(a), Digit(b)>>
           r == <<Digit(d)>>
<1>7. SubSeq(p, 1, 2) = q /\ SubSeq(p, 3, 3) = r
  BY <1>2, <1>6, OneOf, TwoOf
<1>8. q \in Seq({Digit(a), Digit(b)}) /\ Len(q) = 2 /\ q[1] # Blank /\ q[2] # Blank
  BY DigitFacts, SMTT(30)
<1>9. r \in Seq({Digit(d)}) /\ Len(r) = 1 /\ r[1] # Blank
  BY DigitFacts
<1> HIDE DEF q, r
<1>10. Trim(q) = q
  <2>1. Len(q) > 0 /\ q[Len(q)] # Blank
    BY <1>8
  <2> QED BY <1>8, <2>1, TrimWhole
<1>11. Trim(r) = r
  <2>1. Len(r) > 0 /\ r[Len(r)] # Blank
    BY <1>9
  <2> QED BY <1>9, <2>1, TrimWhole
<1>12. U32(q) = 10 * a + b /\ F64(r) = 10 * d
  BY U32Digits, F64Digit DEF q, r
<1> QED BY <1>2, <1>5, <1>7, <1>10, <1>11, <1>12

Accepts(r) == r.kind = "ok"
Panics(r) == r.kind = "panic"
(* With two characters that are no blanks in its columns, the epoch can be   *)
(* split after its year.                                                     *)
LEMMA EpochSplits ==
  ASSUME NEW s \in Seq(Characters), Len(s) >= 4, NEW i \in 2 .. 4, NEW k \in 2 .. 4, i < k,
         s[i] # Blank, s[k] # Blank, NEW t
  PROVE  ~Panics(Fields(s, t))
<1> DEFINE epoch == Columns(s, Line1.epoch)
           p == SubSeq(s, 2, 4)
<1>1. Line1.epoch[1] = 2 /\ Line1.epoch[2] = 4
  BY DEF Line1
<1>2. epoch = Trim(p)
  BY <1>1 DEF Columns
<1>3. 2 \in 1 .. Len(s) /\ 4 \in 2 .. Len(s) /\ 4 - 2 + 1 = 3
  OBVIOUS
<1>4. p \in Seq(Characters) /\ Len(p) = 3 /\ \A j \in 1 .. 3 : p[j] = s[2 + j - 1]
  BY <1>3, PartOf
<1> HIDE DEF p, epoch
<1>5. /\ i - 1 \in 1 .. Len(p) /\ k - 1 \in 1 .. Len(p) /\ i - 1 < k - 1
      /\ 2 + (i - 1) - 1 = i /\ 2 + (k - 1) - 1 = k
      /\ i - 1 \in 1 .. 3 /\ k - 1 \in 1 .. 3
  BY <1>4
<1>6. p[i - 1] = s[i] /\ p[k - 1] = s[k]
  BY <1>4, <1>5
<1>7. Len(epoch) \in Nat /\ Len(epoch) >= 2
  BY <1>2, <1>4, <1>5, <1>6, TrimLong
<1>8. ~(Len(epoch) < 2)
  BY <1>7
<1>9. Fields(s, t).kind # "panic"
  BY <1>8 DEF Fields, Failed, epoch
<1> QED BY <1>9 DEF Panics

(* Two digits, a sign and a digit, perhaps after a minus sign.               *)
TermText(t, k, a, b, x, e) ==
  /\ t \in Seq(Characters) /\ k \in 0 .. 1 /\ Len(t) = 4 + k /\ (k = 1 => t[1] = Minus)
  /\ a \in 0 .. 9 /\ b \in 0 .. 9 /\ e \in 0 .. 9 /\ x \in {Minus, Plus}
  /\ t[k + 1] = Digit(a) /\ t[k + 2] = Digit(b) /\ t[k + 3] = x /\ t[k + 4] = Digit(e)
Term(k, a, b, x, e) ==
  Fraction(k = 1, <<Digit(a), Digit(b)>>, (IF x = Minus THEN -1 ELSE 1) * e)
LEMMA ExpFieldIs ==
  \A t, k, a, b, x, e : TermText(t, k, a, b, x, e) => ExpField(t) = Term(k, a, b, x, e)
<1> SUFFICES ASSUME NEW t, NEW k, NEW a, NEW b, NEW x, NEW e, TermText(t, k, a, b, x, e)
             PROVE  ExpField(t) = Term(k, a, b, x, e)
  OBVIOUS
<1> USE DEF TermText
<1> DEFINE core == <<Digit(a), Digit(b), x, Digit(e)>>
           pair == <<Digit(a), Digit(b)>>
<1>1. /\ Sign(x) /\ x # Blank /\ x \notin {Digit(n) : n \in 0 .. 9} /\ x # Digit(0)
      /\ Sign(Minus) /\ Minus # Blank
  BY DigitFacts, MarkFacts DEF Sign, IsDigit
<1>2. \A n \in 0 .. 9 : ~Sign(Digit(n)) /\ Digit(n) # Blank /\ Digit(n) # Minus
  BY DigitFacts
<1>3. DOMAIN t = 1 .. 4 + k /\ t[4 + k] = Digit(e)
  OBVIOUS
<1>4. Trim(t) = t
  <2>1. t[1] # Blank
    <3>1. CASE k = 0
      BY <1>2, <3>1
    <3>2. CASE k = 1
      BY <1>1, <3>2
    <3> QED BY <3>1, <3>2
  <2>2. Len(t) > 0 /\ t[Len(t)] # Blank
    BY <1>2, <1>3, SMTT(30)
  <2> QED BY <2>1, <2>2, TrimWhole
<1>5. /\ core \in Seq(Characters) /\ Len(core) = 4
      /\ core[1] = Digit(a) /\ core[2] = Digit(b) /\ core[3] = x /\ core[4] = Digit(e)
  <2>1. Digit(a) \in Characters /\ Digit(b) \in Characters /\ x \in Characters
        /\ Digit(e) \in Characters
    BY DEF Characters
  <2> QED BY <2>1
<1> HIDE DEF core
<1>6. Unsigned(t) = core
  <2> DEFINE rest == {i \in DOMAIN t : ~Sign(t[i])}
  <2>1. k + 1 \in rest
    BY <1>2, <1>3
  <2>2. rest \in SUBSET Int /\ \A i \in rest : k + 1 <= i
    <3>1. ASSUME NEW i \in rest PROVE i \in Int /\ k + 1 <= i
      <4>1. i \in 1 .. 4 + k /\ ~Sign(t[i])
        BY <1>3
      <4>2. k = 1 => i # 1
        BY <1>1, <4>1
      <4> QED BY <4>1, <4>2
    <3> QED BY <3>1
  <2>3. Least(rest) = k + 1 /\ rest # {}
    <3> HIDE DEF rest
    <3> QED BY <2>1, <2>2, LeastIs
  <2>4. SubSeq(t, k + 1, Len(t)) = core
    <3>1. k + 1 \in 1 .. Len(t) /\ Len(t) \in (k + 1) .. Len(t)
          /\ Len(t) - (k + 1) + 1 = 4
          /\ (k + 1) + 1 - 1 = k + 1 /\ (k + 1) + 2 - 1 = k + 2
          /\ (k + 1) + 3 - 1 = k + 3 /\ (k + 1) + 4 - 1 = k + 4
      OBVIOUS
    <3> DEFINE u == SubSeq(t, k + 1, Len(t))
    <3>2. u \in Seq(Characters) /\ Len(u) = 4 /\ \A j \in 1 .. 4 : u[j] = t[(k + 1) + j - 1]
      BY <3>1, PartOf
    <3>3. u[1] = Digit(a) /\ u[2] = Digit(b) /\ u[3] = x /\ u[4] = Digit(e)
      BY <3>1, <3>2
    <3> HIDE DEF u
    <3>4. \A j \in 1 .. 4 : j \in {1, 2, 3, 4}
      OBVIOUS
    <3>5. Len(u) = Len(core) /\ \A j \in 1 .. Len(u) : u[j] = core[j]
      BY <1>5, <3>2, <3>3, <3>4
    <3>6. u = core
      BY <1>5, <3>2, <3>5, SameLine
    <3> QED BY <3>6 DEF u
  <2>5. Trim(core) = core
    <3>1. Len(core) > 0 /\ core[1] # Blank /\ core[Len(core)] # Blank
      BY <1>2, <1>5, SMTT(30)
    <3> QED BY <1>5, <3>1, TrimWhole
  <2>6. Unsigned(t) = Trim(SubSeq(t, Least(rest), Len(t)))
    BY <2>3 DEF Unsigned
  <2> QED BY <2>3, <2>4, <2>5, <2>6
<1> DEFINE signs == {i \in DOMAIN core : Sign(core[i])}
<1>7. Greatest(signs) = 3 /\ signs # {}
  <2>1. DOMAIN core = 1 .. 4
    BY <1>5
  <2>2. signs = {3}
    <3>1. \A i \in 1 .. 4 : i \in {1, 2, 3, 4}
      OBVIOUS
    <3>2. Sign(core[3]) /\ ~Sign(core[1]) /\ ~Sign(core[2]) /\ ~Sign(core[4])
      BY <1>1, <1>2, <1>5
    <3> QED BY <2>1, <3>1, <3>2
  <2>3. {3} \in SUBSET Int /\ 3 \in {3} /\ \A j \in {3} : j <= 3
    OBVIOUS
  <2> QED BY <2>2, <2>3, LeastIs, GreatestIs
<1>8. SubSeq(core, 1, 3 - 1) = pair /\ SubSeq(core, 3 + 1, Len(core)) = <<Digit(e)>>
  <2>1. 1 \in 1 .. Len(core) /\ 2 \in 1 .. Len(core) /\ 4 \in 1 .. Len(core) /\ 2 = 1 + 1
        /\ 3 - 1 = 2 /\ 3 + 1 = 4
    BY <1>5
  <2> QED BY <1>5, <2>1, OneOf, TwoOf
<1>9. Digital(pair) /\ Digital(<<Digit(e)>>) /\ Number(<<Digit(e)>>) = e
  BY BothDigits, OneDigit
<1>10. pair[1] = Digit(a) /\ pair[2] = Digit(b) /\ DOMAIN pair = 1 .. 2
  OBVIOUS
<1> DEFINE zero == \A i \in DOMAIN t : t[i] = Digit(0) \/ t[i] = Blank \/ Sign(t[i])
           power == (IF x = Minus THEN -1 ELSE 1) * e
           read == Fraction(t[1] = Minus, pair, power)
<1>11. ExpField(t) = IF zero THEN ZeroTerm ELSE read
  <2> DEFINE m == SubSeq(core, 1, Greatest(signs) - 1)
             q == SubSeq(core, Greatest(signs) + 1, Len(core))
  <2>1. m = pair /\ q = <<Digit(e)>>
    BY <1>7, <1>8
  <2>2. ExpField(t) =
          IF zero THEN ZeroTerm
          ELSE IF signs = {} THEN BadTerm
          ELSE IF (m # <<>> /\ ~Digital(m)) \/ ~Digital(q) THEN BadTerm
          ELSE Fraction(t[1] = Minus, m, (IF core[Greatest(signs)] = Minus THEN -1 ELSE 1) * Number(q))
    <3> HIDE DEF signs, m, q, zero
    <3> QED BY <1>4, <1>6, Zenon DEF ExpField, signs, m, q, zero
  <2> HIDE DEF m, q, signs, pair, zero
  <2>3. core[Greatest(signs)] = x
    BY <1>5, <1>7
  <2>4. ExpField(t) =
          IF zero THEN ZeroTerm
          ELSE Fraction(t[1] = Minus, pair, (IF x = Minus THEN -1 ELSE 1) * e)
    BY <1>7, <1>9, <2>1, <2>2, <2>3, Zenon
  <2> QED BY <2>4, Zenon
<1> HIDE DEF pair, zero, read
<1>12. (t[1] = Minus) <=> (k = 1)
  <2>1. CASE k = 0
    BY <1>2, <2>1
  <2>2. CASE k = 1
    BY <2>2
  <2> QED BY <2>1, <2>2
<1>13. read = Fraction(k = 1, pair, power)
  BY <1>12 DEF read, Fraction
<1>14. CASE zero
  <2>1. k + 1 \in DOMAIN t /\ k + 2 \in DOMAIN t
    BY <1>3
  <2>2. Digit(a) = Digit(0) /\ Digit(b) = Digit(0)
    BY <1>2, <1>14, <2>1 DEF zero
  <2>3. \A i \in DOMAIN pair : pair[i] = Digit(0)
    <3>1. \A i \in 1 .. 2 : i = 1 \/ i = 2
      OBVIOUS
    <3> QED BY <1>10, <2>2, <3>1
  <2>4. Fraction(k = 1, pair, power) = ZeroTerm
    BY <2>3, Zenon DEF Fraction
  <2> QED BY <1>11, <1>14, <2>4, Zenon DEF pair, Term
<1>15. CASE ~zero
  BY <1>11, <1>13, <1>15, Zenon DEF pair, Term
<1> QED BY <1>14, <1>15

TermColumns(s, neg, a, b, e, x) ==
  /\ s \in Seq(Characters) /\ Len(s) >= 9 /\ neg \in BOOLEAN
  /\ a \in 0 .. 9 /\ b \in 0 .. 9 /\ e \in 0 .. 9 /\ x \in {Minus, Plus}
  /\ s[5] = (IF neg THEN Minus ELSE Blank)
  /\ s[6] = Digit(a) /\ s[7] = Digit(b) /\ s[8] = x /\ s[9] = Digit(e)
TermValue(neg, a, b, e, x) ==
  Fraction(neg, <<Digit(a), Digit(b)>>, (IF x = Minus THEN -1 ELSE 1) * e)
LEMMA TermRead ==
  \A s, neg, a, b, e, x :
    TermColumns(s, neg, a, b, e, x) =>
      ExpField(Columns(s, Line1.bstar)) = TermValue(neg, a, b, e, x)
<1> SUFFICES ASSUME NEW s, NEW neg, NEW a, NEW b, NEW e, NEW x, TermColumns(s, neg, a, b, e, x)
             PROVE  ExpField(Columns(s, Line1.bstar)) =
                      Fraction(neg, <<Digit(a), Digit(b)>>, (IF x = Minus THEN -1 ELSE 1) * e)
  BY Zenon DEF TermValue
<1> USE DEF TermColumns
<1>1. Line1.bstar[1] = 5 /\ Line1.bstar[2] = 9
  BY DEF Line1
<1> DEFINE p == SubSeq(s, 5, 9)
<1>2. /\ p \in Seq(Characters) /\ Len(p) = 5
      /\ p[1] = (IF neg THEN Minus ELSE Blank)
      /\ p[2] = Digit(a) /\ p[3] = Digit(b) /\ p[4] = x /\ p[5] = Digit(e)
  <2>1. 5 \in 1 .. Len(s) /\ 9 \in 5 .. Len(s) /\ 9 - 5 + 1 = 5
        /\ 5 + 1 - 1 = 5 /\ 5 + 2 - 1 = 6 /\ 5 + 3 - 1 = 7 /\ 5 + 4 - 1 = 8 /\ 5 + 5 - 1 = 9
    OBVIOUS
  <2>2. p \in Seq(Characters) /\ Len(p) = 5 /\ \A j \in 1 .. 5 : p[j] = s[5 + j - 1]
    BY <2>1, PartOf
  <2> QED BY <2>1, <2>2
<1>3. Columns(s, Line1.bstar) = Trim(p)
  BY <1>1 DEF Columns
<1> HIDE DEF p
<1>4. Digit(a) # Blank /\ Digit(e) # Blank /\ Minus # Blank
  BY DigitFacts, MarkFacts
<1> DEFINE value == (IF x = Minus THEN -1 ELSE 1) * e
           pair == <<Digit(a), Digit(b)>>
<1>5. CASE neg
  <2>1. Len(p) > 0 /\ p[1] # Blank /\ p[Len(p)] # Blank
    BY <1>2, <1>4, <1>5
  <2>2. Trim(p) = p
    BY <1>2, <2>1, TrimWhole
  <2> DEFINE k == 1
  <2>3. TermText(p, k, a, b, x, e)
    BY <1>2, <1>5 DEF TermText
  <2>4. Term(k, a, b, x, e) = Fraction(neg, pair, value)
    BY <1>5 DEF Term, Fraction
  <2> HIDE DEF k
  <2>5. ExpField(p) = Term(k, a, b, x, e)
    BY <2>3, ExpFieldIs, Zenon
  <2> QED BY <1>3, <2>2, <2>4, <2>5
<1>6. CASE ~neg
  <2>1. 2 \in 1 .. Len(p) /\ 5 \in 1 .. Len(p) /\ p[2] # Blank /\ p[5] # Blank /\ p[1] = Blank
        /\ \A j \in 1 .. Len(p) : (j < 2 \/ 5 < j) => j = 1
    BY <1>2, <1>4, <1>6
  <2> DEFINE q == SubSeq(p, 2, 5)
  <2>2. Trim(p) = q
    BY <1>2, <2>1, TrimIs
  <2>3. /\ q \in Seq(Characters) /\ Len(q) = 4 /\ q[1] = Digit(a) /\ q[2] = Digit(b)
        /\ q[3] = x /\ q[4] = Digit(e)
    <3>1. 5 \in 2 .. Len(p) /\ 5 - 2 + 1 = 4
          /\ 2 + 1 - 1 = 2 /\ 2 + 2 - 1 = 3 /\ 2 + 3 - 1 = 4 /\ 2 + 4 - 1 = 5
      BY <1>2
    <3>2. q \in Seq(Characters) /\ Len(q) = 4 /\ \A j \in 1 .. 4 : q[j] = p[2 + j - 1]
      BY <1>2, <2>1, <3>1, PartOf
    <3> QED BY <1>2, <3>1, <3>2
  <2> HIDE DEF q
  <2> DEFINE k == 0
  <2>4. TermText(q, k, a, b, x, e)
    BY <2>3 DEF TermText
  <2>5. Term(k, a, b, x, e) = Fraction(neg, pair, value)
    <3> HIDE DEF value, pair
    <3>1. Fraction(k = 1, pair, value) = Fraction(neg, pair, value)
      BY <1>6 DEF Fraction
    <3> QED BY <3>1 DEF Term, pair, value
  <2> HIDE DEF k
  <2>6. ExpField(q) = Term(k, a, b, x, e)
    BY <2>4, ExpFieldIs, Zenon
  <2> QED BY <1>3, <2>2, <2>5, <2>6
<1> QED BY <1>5, <1>6

-----------------------------------------------------------------------------
(* A text as written, and with one change                                    *)
ParsedPair(a, b) ==
  LET l1 == TrimEnd(a)
      l2 == TrimEnd(b)
  IN  IF Len(l1) < Length1 \/ Len(l2) < Length2 THEN {Failed("InvalidLineLength")}
      ELSE IF BadLine(l1, Length1) THEN Refusals(l1, Length1)
      ELSE IF BadLine(l2, Length2) THEN Refusals(l2, Length2)
      ELSE {Fields(l1, l2)}

LEMMA ParsedIs ==
  ASSUME NEW lines, NEW n \in {2, 3}, Len(lines) = n
  PROVE  Parsed(lines) = ParsedPair(lines[n - 1], lines[n])
BY DEF Parsed, ParsedPair

LEMMA Halves == \A n \in 0 .. 99 : n \div 10 \in 0 .. 9 /\ n % 10 \in 0 .. 9
                                   /\ 10 * (n \div 10) + (n % 10) = n
OBVIOUS

(* The columns of a text.                                                    *)
LEMMA BodiesAre ==
  ASSUME NEW set \in ElementSets
  PROVE  LET x == IF set.exp < 0 THEN Minus ELSE Plus
             e == IF set.exp < 0 THEN -set.exp ELSE set.exp
             b == Body1(set)
             d == Body2(set)
         IN  /\ set.number \in 0 .. 9 /\ set.yy \in 0 .. 99 /\ set.day \in 0 .. 9
             /\ set.neg \in BOOLEAN /\ set.mantissa \in 0 .. 99 /\ set.motion \in 0 .. 9
             /\ x \in {Minus, Plus} /\ e \in 0 .. 9 /\ set.exp = (IF x = Minus THEN -1 ELSE 1) * e
             /\ b \in Seq(Characters) /\ Len(b) = 9
             /\ b[1] = Digit(set.number)
             /\ b[2] = Digit(set.yy \div 10) /\ b[3] = Digit(set.yy % 10)
             /\ b[4] = Digit(set.day) /\ b[5] = IF set.neg THEN Minus ELSE Blank
             /\ b[6] = Digit(set.mantissa \div 10) /\ b[7] = Digit(set.mantissa % 10)
             /\ b[8] = x /\ b[9] = Digit(e)
             /\ d \in Seq(Characters) /\ Len(d) = 3
             /\ d[1] = Digit(set.number) /\ d[2] = Blank /\ d[3] = Digit(set.motion)
<1> DEFINE x == IF set.exp < 0 THEN Minus ELSE Plus
           e == IF set.exp < 0 THEN -set.exp ELSE set.exp
           m == IF set.neg THEN Minus ELSE Blank
<1>1. /\ set.number \in 0 .. 9 /\ set.yy \in 0 .. 99 /\ set.day \in 0 .. 9
      /\ set.neg \in BOOLEAN /\ set.mantissa \in 0 .. 99 /\ set.motion \in 0 .. 9
      /\ set.exp \in -9 .. 9
  BY ElementSetsAssumption
<1>2. x \in {Minus, Plus} /\ e \in 0 .. 9 /\ set.exp = (IF x = Minus THEN -1 ELSE 1) * e
  <2>1. Minus # Plus
    BY MarkFacts
  <2>2. CASE set.exp < 0
    <3>1. -set.exp \in 0 .. 9 /\ (-1) * (-set.exp) = set.exp
      BY <1>1, <2>2
    <3> QED BY <2>2, <3>1
  <2>3. CASE ~(set.exp < 0)
    <3>1. set.exp \in 0 .. 9 /\ 1 * set.exp = set.exp
      BY <1>1, <2>3
    <3> QED BY <2>1, <2>3, <3>1
  <2> QED BY <2>2, <2>3
<1>3. set.yy \div 10 \in 0 .. 9 /\ set.yy % 10 \in 0 .. 9
      /\ set.mantissa \div 10 \in 0 .. 9 /\ set.mantissa % 10 \in 0 .. 9
  BY <1>1, Halves
<1>4. \A n \in 0 .. 9 : Digit(n) \in Characters
  BY DEF Characters
<1>5. x \in Characters /\ m \in Characters /\ Blank \in Characters
  BY <1>2 DEF Characters
<1>6. Body1(set) = <<Digit(set.number), Digit(set.yy \div 10), Digit(set.yy % 10),
                     Digit(set.day), m, Digit(set.mantissa \div 10),
                     Digit(set.mantissa % 10), x, Digit(e)>>
  BY DEF Body1
<1>7. Body2(set) = <<Digit(set.number), Blank, Digit(set.motion)>>
  BY DEF Body2
<1> HIDE DEF x, e, m
<1>8. /\ Digit(set.number) \in Characters /\ Digit(set.yy \div 10) \in Characters
      /\ Digit(set.yy % 10) \in Characters /\ Digit(set.day) \in Characters
      /\ Digit(set.mantissa \div 10) \in Characters /\ Digit(set.mantissa % 10) \in Characters
      /\ Digit(e) \in Characters /\ Digit(set.motion) \in Characters
  BY <1>1, <1>2, <1>3, <1>4
<1>9. ASSUME NEW C, NEW c1 \in C, NEW c2 \in C, NEW c3 \in C, NEW c4 \in C, NEW c5 \in C,
             NEW c6 \in C, NEW c7 \in C, NEW c8 \in C, NEW c9 \in C
      PROVE  LET b == <<c1, c2, c3, c4, c5, c6, c7, c8, c9>>
             IN  /\ b \in Seq(C) /\ Len(b) = 9 /\ b[1] = c1 /\ b[2] = c2 /\ b[3] = c3
                 /\ b[4] = c4 /\ b[5] = c5 /\ b[6] = c6 /\ b[7] = c7 /\ b[8] = c8 /\ b[9] = c9
  OBVIOUS
<1>10. ASSUME NEW C, NEW c1 \in C, NEW c2 \in C, NEW c3 \in C
       PROVE  LET b == <<c1, c2, c3>>
              IN  b \in Seq(C) /\ Len(b) = 3 /\ b[1] = c1 /\ b[2] = c2 /\ b[3] = c3
  OBVIOUS
<1>11. LET b == Body1(set)
       IN  /\ b \in Seq(Characters) /\ Len(b) = 9
           /\ b[1] = Digit(set.number)
           /\ b[2] = Digit(set.yy \div 10) /\ b[3] = Digit(set.yy % 10)
           /\ b[4] = Digit(set.day) /\ b[5] = m
           /\ b[6] = Digit(set.mantissa \div 10) /\ b[7] = Digit(set.mantissa % 10)
           /\ b[8] = x /\ b[9] = Digit(e)
  BY <1>5, <1>6, <1>8, <1>9
<1>12. LET d == Body2(set)
       IN  /\ d \in Seq(Characters) /\ Len(d) = 3
           /\ d[1] = Digit(set.number) /\ d[2] = Blank /\ d[3] = Digit(set.motion)
  BY <1>5, <1>7, <1>8, <1>10
<1> QED BY <1>1, <1>2, <1>11, <1>12 DEF x, e, m

LEMMA PlainlyRead ==
  ASSUME NEW set \in ElementSets, NEW l1 \in Seq(Characters), NEW l2 \in Seq(Characters),
         Len(l1) = 10, Len(l2) = 4, \A i \in 1 .. 9 : l1[i] = Body1(set)[i],
         \A i \in 1 .. 3 : l2[i] = Body2(set)[i]
  PROVE  Fields(l1, l2) = Meaning(set)
<1> DEFINE x == IF set.exp < 0 THEN Minus ELSE Plus
           e == IF set.exp < 0 THEN -set.exp ELSE set.exp
<1>1. /\ set.number \in 0 .. 9 /\ set.yy \in 0 .. 99 /\ set.day \in 0 .. 9
      /\ set.neg \in BOOLEAN /\ set.mantissa \in 0 .. 99 /\ set.motion \in 0 .. 9
      /\ x \in {Minus, Plus} /\ e \in 0 .. 9 /\ set.exp = (IF x = Minus THEN -1 ELSE 1) * e
  BY BodiesAre
<1>2. /\ l1[1] = Digit(set.number)
      /\ l1[2] = Digit(set.yy \div 10) /\ l1[3] = Digit(set.yy % 10)
      /\ l1[4] = Digit(set.day) /\ l1[5] = IF set.neg THEN Minus ELSE Blank
      /\ l1[6] = Digit(set.mantissa \div 10) /\ l1[7] = Digit(set.mantissa % 10)
      /\ l1[8] = x /\ l1[9] = Digit(e)
      /\ l2[1] = Digit(set.number) /\ l2[2] = Blank /\ l2[3] = Digit(set.motion)
  <2>1. {1, 2, 3, 4, 5, 6, 7, 8, 9} \subseteq 1 .. 9 /\ {1, 2, 3} \subseteq 1 .. 3
    OBVIOUS
  <2> QED BY <2>1, BodiesAre, ZenonT(40)
<1> HIDE DEF x, e
<1>3. PICK yh \in 0 .. 9, yl \in 0 .. 9, mh \in 0 .. 9, ml \in 0 .. 9 :
        /\ yh = set.yy \div 10 /\ yl = set.yy % 10 /\ 10 * yh + yl = set.yy
        /\ mh = set.mantissa \div 10 /\ ml = set.mantissa % 10
  <2>1. /\ set.yy \div 10 \in 0 .. 9 /\ set.yy % 10 \in 0 .. 9
        /\ 10 * (set.yy \div 10) + (set.yy % 10) = set.yy
    BY <1>1, Halves
  <2>2. set.mantissa \div 10 \in 0 .. 9 /\ set.mantissa % 10 \in 0 .. 9
    BY <1>1, Halves
  <2> QED BY <2>1, <2>2
<1>12. Len(l1) >= 1 /\ Len(l1) >= 4 /\ Len(l1) >= 9 /\ Len(l2) >= 3
  OBVIOUS
<1>13. PICK d \in 0 .. 9 : d = set.day
  BY <1>1
<1> DEFINE epoch == Columns(l1, Line1.epoch)
           yy == U32(Trim(SubSeq(epoch, 1, 2)))
           day == F64(Trim(SubSeq(epoch, 3, Len(epoch))))
           number == U32(Columns(l1, Line1.number))
           bstar == ExpField(Columns(l1, Line1.bstar))
           motion == F64(Columns(l2, Line2.motion))
<1>4. number = set.number
  BY <1>1, <1>2, <1>12, NumberRead
<1>5. motion = 10 * set.motion
  BY <1>1, <1>2, <1>12, MotionRead
<1>6. Len(epoch) = 3 /\ yy = set.yy /\ day = 10 * set.day
  <2>1. l1[2] = Digit(yh) /\ l1[3] = Digit(yl) /\ l1[4] = Digit(d)
    BY <1>2, <1>3, <1>13
  <2>3. EpochText(l1, yh, yl, d)
    BY <1>12, <2>1 DEF EpochText
  <2>2. Len(epoch) = 3 /\ yy = 10 * yh + yl /\ day = 10 * d
    BY <2>3, EpochRead, Zenon
  <2> HIDE DEF epoch, yy, day
  <2> QED BY <1>3, <1>13, <2>2
<1>7. bstar = Fraction(set.neg, TwoDigits(set.mantissa), set.exp)
  <2>1. PICK neg \in BOOLEAN : neg = set.neg
    BY <1>1
  <2>3. l1[5] = (IF neg THEN Minus ELSE Blank) /\ l1[6] = Digit(mh) /\ l1[7] = Digit(ml)
    BY <1>2, <1>3, <2>1
  <2>5. TermColumns(l1, neg, mh, ml, e, x)
    BY <1>1, <1>2, <1>12, <2>3 DEF TermColumns
  <2>4. ExpField(Columns(l1, Line1.bstar)) = TermValue(neg, mh, ml, e, x)
    BY <2>5, TermRead, Zenon
  <2>2. (IF x = Minus THEN -1 ELSE 1) * e = set.exp
    BY <1>1
  <2> QED BY <1>3, <2>1, <2>2, <2>4, Zenon DEF TwoDigits, TermValue
<1>8. number # Bad /\ ~(Len(epoch) < 2) /\ yy # Bad /\ day # Bad /\ motion # Bad
  <2> HIDE DEF number, epoch, yy, day, motion
  <2>4. Bad \in Int /\ Bad < 0
    BY DEF Bad
  <2>1. \A n \in 0 .. 99 : n # Bad /\ 10 * n # Bad
    BY <2>4
  <2>2. {set.number, set.day, set.yy, set.motion} \subseteq 0 .. 99
    BY <1>1
  <2>3. ~(3 < 2)
    OBVIOUS
  <2> QED BY <1>4, <1>5, <1>6, <2>1, <2>2, <2>3
<1>9. \A neg, digits, exp : Fraction(neg, digits, exp) # BadTerm
  <2>1. ZeroTerm # BadTerm
    BY DEF ZeroTerm, BadTerm
  <2>2. \A neg, digits, exp : <<neg, digits, exp>> # BadTerm
    BY DEF BadTerm
  <2> QED BY <2>1, <2>2 DEF Fraction
<1>10. bstar # BadTerm
  BY <1>7, <1>9
<1>11. Fields(l1, l2) = [kind |-> "ok", number |-> number, year |-> FullYear(yy), day |-> day,
                         bstar |-> bstar, motion |-> motion]
  <2> HIDE DEF number, epoch, yy, day, bstar, motion
  <2>1. Fields(l1, l2) =
          (IF number = Bad THEN Failed("ParseField")
           ELSE IF Len(epoch) < 2 THEN Failed("panic")
           ELSE IF yy = Bad \/ day = Bad THEN Failed("InvalidEpoch")
           ELSE IF bstar = BadTerm \/ motion = Bad THEN Failed("ParseField")
           ELSE [kind |-> "ok", number |-> number, year |-> FullYear(yy), day |-> day,
                 bstar |-> bstar, motion |-> motion])
    BY Zenon DEF Fields, number, epoch, yy, day, bstar, motion
  <2> QED BY <1>8, <1>10, <2>1
<1> HIDE DEF number, epoch, yy, day, bstar, motion
<1> QED BY <1>4, <1>5, <1>6, <1>7, <1>11 DEF Meaning

LEMMA LinesAre ==
  ASSUME NEW set \in ElementSets
  PROVE  LET a == Checked(Body1(set))
             b == Checked(Body2(set))
         IN  /\ a \in Seq(Characters) /\ Len(a) = 10 /\ TrimEnd(a) = a /\ ~BadLine(a, 10)
             /\ b \in Seq(Characters) /\ Len(b) = 4 /\ TrimEnd(b) = b /\ ~BadLine(b, 4)
             /\ \A i \in 1 .. 9 : a[i] = Body1(set)[i]
             /\ \A i \in 1 .. 3 : b[i] = Body2(set)[i]
<1>1. Body1(set) \in Seq(Characters) /\ Len(Body1(set)) = 9
      /\ Body2(set) \in Seq(Characters) /\ Len(Body2(set)) = 3
  BY BodiesAre
<1>2. 9 + 1 = 10 /\ 3 + 1 = 4
  OBVIOUS
<1>3. ASSUME NEW b \in Seq(Characters), NEW n, Len(b) = n
      PROVE  /\ Checked(b) \in Seq(Characters) /\ Len(Checked(b)) = n + 1
             /\ TrimEnd(Checked(b)) = Checked(b) /\ ~BadLine(Checked(b), n + 1)
             /\ \A i \in 1 .. n : Checked(b)[i] = b[i]
  BY <1>3, CheckedIs
<1>4. LET a == Checked(Body1(set))
      IN  /\ a \in Seq(Characters) /\ Len(a) = 10 /\ TrimEnd(a) = a /\ ~BadLine(a, 10)
          /\ \A i \in 1 .. 9 : a[i] = Body1(set)[i]
  BY <1>1, <1>2, <1>3
<1>5. LET b == Checked(Body2(set))
      IN  /\ b \in Seq(Characters) /\ Len(b) = 4 /\ TrimEnd(b) = b /\ ~BadLine(b, 4)
          /\ \A i \in 1 .. 3 : b[i] = Body2(set)[i]
  BY <1>1, <1>2, <1>3, ZenonT(40)
<1> QED BY <1>4, <1>5

(* The epoch columns of line 1 hold digits.                                  *)
LEMMA EpochColumns ==
  ASSUME NEW set \in ElementSets
  PROVE  \A i \in 2 .. 4 : Checked(Body1(set))[i] # Blank
<1> DEFINE a == Checked(Body1(set))
<1>1. set.yy \div 10 \in 0 .. 9 /\ set.yy % 10 \in 0 .. 9 /\ set.day \in 0 .. 9
  BY BodiesAre, Halves
<1>2. Digit(set.yy \div 10) # Blank /\ Digit(set.yy % 10) # Blank /\ Digit(set.day) # Blank
  BY <1>1, DigitFacts
<1>3. a[2] # Blank /\ a[3] # Blank /\ a[4] # Blank
  <2>1. 2 \in 1 .. 9 /\ 3 \in 1 .. 9 /\ 4 \in 1 .. 9
    OBVIOUS
  <2> QED BY <1>2, <2>1, LinesAre, BodiesAre
<1>4. \A i \in 2 .. 4 : i = 2 \/ i = 3 \/ i = 4
  OBVIOUS
<1> HIDE DEF a
<1> QED BY <1>3, <1>4 DEF a

LEMMA PlainText ==
  ASSUME NEW set \in ElementSets
  PROVE  ParsedPair(Checked(Body1(set)), Checked(Body2(set))) = {Meaning(set)}
<1> DEFINE a == Checked(Body1(set))
           b == Checked(Body2(set))
<1>1. /\ a \in Seq(Characters) /\ Len(a) = 10 /\ TrimEnd(a) = a /\ ~BadLine(a, 10)
      /\ b \in Seq(Characters) /\ Len(b) = 4 /\ TrimEnd(b) = b /\ ~BadLine(b, 4)
      /\ \A i \in 1 .. 9 : a[i] = Body1(set)[i]
      /\ \A i \in 1 .. 3 : b[i] = Body2(set)[i]
  BY LinesAre
<1> HIDE DEF a, b
<1>2. Fields(a, b) = Meaning(set)
  BY <1>1, PlainlyRead
<1>3. ~(10 < 10) /\ ~(4 < 4)
  OBVIOUS
<1> QED BY <1>1, <1>2, <1>3 DEF ParsedPair, Length1, Length2, a, b

(* What a garbled text may be read as.                                       *)
Caught(r, was, g, column, length) ==
  /\ Accepts(r) => Weight(was) = Weight(g) /\ column < length
  /\ Panics(r) => BelowZero(g) /\ column = length

NoAnswer(r, last) == ~Accepts(r) /\ (Panics(r) => BelowZero(last))
LEMMA RefusalsAnswer ==
  \A line, m, r : r \in Refusals(line, m) => NoAnswer(r, line[m])
<1> SUFFICES ASSUME NEW line, NEW m, NEW r \in Refusals(line, m)
             PROVE  ~Accepts(r) /\ (Panics(r) => BelowZero(line[m]))
  BY DEF NoAnswer
<1>1. r = Failed("ChecksumMismatch") \/ (r = Failed("panic") /\ BelowZero(line[m]))
  BY Zenon DEF Refusals
<1>2. CASE r = Failed("ChecksumMismatch")
  <2>1. r.kind = "ChecksumMismatch"
    BY <1>2 DEF Failed
  <2> QED BY <2>1 DEF Accepts, Panics
<1>3. CASE r = Failed("panic") /\ BelowZero(line[m])
  <2>1. r.kind = "panic"
    BY <1>3 DEF Failed
  <2> QED BY <1>3, <2>1 DEF Accepts
<1> QED BY <1>1, <1>2, <1>3

LEMMA GarbledFirst ==
  ASSUME NEW set \in ElementSets, NEW j \in 1 .. 10, NEW g \in Characters,
         g # Checked(Body1(set))[j],
         NEW r \in ParsedPair([Checked(Body1(set)) EXCEPT ![j] = g], Checked(Body2(set)))
  PROVE  Caught(r, Checked(Body1(set))[j], g, j, 10)
<1> DEFINE body == Body1(set)
           a == Checked(body)
           b == Checked(Body2(set))
           c == [a EXCEPT ![j] = g]
<1>1. /\ a \in Seq(Characters) /\ Len(a) = 10
      /\ b \in Seq(Characters) /\ Len(b) = 4 /\ TrimEnd(b) = b /\ ~BadLine(b, 4)
      /\ body \in Seq(Characters) /\ Len(body) = 9
  BY LinesAre, BodiesAre
<1>2. \A i \in 2 .. 4 : a[i] # Blank
  BY EpochColumns
<1>3. r \in ParsedPair(c, b)
  OBVIOUS
<1> HIDE DEF body
<1>4. Len(body) + 1 = 10 /\ j \in 1 .. Len(body) + 1
  BY <1>1
<1>5. /\ c \in Seq(Characters) /\ Len(c) = 10
      /\ \A i \in 1 .. 10 : c[i] = IF i = j THEN g ELSE a[i]
      /\ j = 10 => (Len(TrimEnd(c)) < 10 \/ (TrimEnd(c) = c /\ BadLine(c, 10)))
      /\ j # 10 => /\ TrimEnd(c) = c /\ ~BelowZero(c[10])
                   /\ BadLine(c, 10) \/ Weight(a[j]) = Weight(g)
  <2>1. g # Checked(body)[j]
    BY DEF body
  <2>2. Garbling(body, 10, j, g)
    BY <1>1, <1>4, <2>1 DEF Garbling
  <2>3. AsGarbled(a, c, 10, j, g)
    BY <2>2, GarbledIs, Zenon
  <2> QED BY <2>3, Zenon DEF AsGarbled
<1> HIDE DEF a, b, c
<1>6. \/ r.kind = "InvalidLineLength"
      \/ TrimEnd(c) = c /\ BadLine(c, 10) /\ r \in Refusals(c, 10)
      \/ TrimEnd(c) = c /\ ~BadLine(c, 10) /\ r = Fields(c, b)
  <2>1. CASE TrimEnd(c) = c
    <3>1. ~(10 < 10) /\ ~(4 < 4)
      OBVIOUS
    <3> QED BY <1>1, <1>3, <1>5, <2>1, <3>1 DEF ParsedPair, Length1, Length2
  <2>2. CASE TrimEnd(c) # c
    <3>1. Len(TrimEnd(c)) < 10
      BY <1>5, <2>2
    <3>2. ParsedPair(c, b) = {Failed("InvalidLineLength")}
      BY <3>1 DEF ParsedPair, Length1
    <3> QED BY <1>3, <3>2 DEF Failed
  <2> QED BY <2>1, <2>2
<1>7. CASE r.kind = "InvalidLineLength"
  <2>1. ~Accepts(r) /\ ~Panics(r)
    BY <1>7 DEF Accepts, Panics
  <2> QED BY <2>1 DEF Caught
<1>8. CASE TrimEnd(c) = c /\ BadLine(c, 10) /\ r \in Refusals(c, 10)
  <2>1. NoAnswer(r, c[10])
    BY <1>8, RefusalsAnswer
  <2>2. j = 10 => c[10] = g
    BY <1>5
  <2> QED BY <1>5, <2>1, <2>2 DEF Caught, NoAnswer
<1>9. CASE TrimEnd(c) = c /\ ~BadLine(c, 10) /\ r = Fields(c, b)
  <2>1. j # 10 /\ Weight(a[j]) = Weight(g) /\ j < 10
    <3>1. j # 10
      <4> SUFFICES ASSUME j = 10 PROVE FALSE
        OBVIOUS
      <4>1. Len(TrimEnd(c)) < 10
        BY <1>5, <1>9
      <4>2. Len(TrimEnd(c)) = 10
        BY <1>5, <1>9
      <4>3. ~(10 < 10)
        OBVIOUS
      <4> QED BY <4>1, <4>2, <4>3
    <3> QED BY <1>5, <1>9, <3>1
  <2>2. \A i \in 2 .. 4 : i # j => c[i] # Blank
    BY <1>2, <1>5
  <2>3. PICK i \in 2 .. 4, k \in 2 .. 4 : i < k /\ i # j /\ k # j
    <3>1. CASE j = 2
      <4>1. 3 \in 2 .. 4 /\ 4 \in 2 .. 4 /\ 3 < 4 /\ 3 # j /\ 4 # j
        BY <3>1
      <4> QED BY <4>1
    <3>2. CASE j = 3
      <4>1. 2 \in 2 .. 4 /\ 4 \in 2 .. 4 /\ 2 < 4 /\ 2 # j /\ 4 # j
        BY <3>2
      <4> QED BY <4>1
    <3>3. CASE j \notin {2, 3}
      <4>1. 2 \in 2 .. 4 /\ 3 \in 2 .. 4 /\ 2 < 3 /\ 2 # j /\ 3 # j
        BY <3>3
      <4> QED BY <4>1
    <3> QED BY <3>1, <3>2, <3>3
  <2>4. c[i] # Blank /\ c[k] # Blank /\ Len(c) >= 4
    BY <1>5, <2>2, <2>3
  <2>5. ~Panics(Fields(c, b))
    BY <1>5, <2>3, <2>4, EpochSplits
  <2>6. ~Panics(r)
    BY <1>9, <2>5
  <2> QED BY <2>1, <2>6 DEF Caught, a, body
<1> QED BY <1>6, <1>7, <1>8, <1>9 DEF a, body

LEMMA GarbledSecond ==
  ASSUME NEW set \in ElementSets, NEW j \in 1 .. 4, NEW g \in Characters,
         g # Checked(Body2(set))[j],
         NEW r \in ParsedPair(Checked(Body1(set)), [Checked(Body2(set)) EXCEPT ![j] = g])
  PROVE  Caught(r, Checked(Body2(set))[j], g, j, 4)
<1> DEFINE body == Body2(set)
           a == Checked(Body1(set))
           b == Checked(body)
           c == [b EXCEPT ![j] = g]
<1>1. /\ a \in Seq(Characters) /\ Len(a) = 10 /\ TrimEnd(a) = a /\ ~BadLine(a, 10)
      /\ b \in Seq(Characters) /\ Len(b) = 4
      /\ body \in Seq(Characters) /\ Len(body) = 3
  BY LinesAre, BodiesAre
<1>2. \A i \in 2 .. 4 : a[i] # Blank
  BY EpochColumns
<1>3. r \in ParsedPair(a, c)
  OBVIOUS
<1> HIDE DEF body
<1>4. Len(body) + 1 = 4 /\ j \in 1 .. Len(body) + 1
  BY <1>1
<1>5. /\ c \in Seq(Characters) /\ Len(c) = 4
      /\ \A i \in 1 .. 4 : c[i] = IF i = j THEN g ELSE b[i]
      /\ j = 4 => (Len(TrimEnd(c)) < 4 \/ (TrimEnd(c) = c /\ BadLine(c, 4)))
      /\ j # 4 => /\ TrimEnd(c) = c /\ ~BelowZero(c[4])
                  /\ BadLine(c, 4) \/ Weight(b[j]) = Weight(g)
  <2>1. g # Checked(body)[j]
    BY DEF body
  <2>2. Garbling(body, 4, j, g)
    BY <1>1, <1>4, <2>1 DEF Garbling
  <2>3. AsGarbled(b, c, 4, j, g)
    BY <2>2, GarbledIs, Zenon
  <2> QED BY <2>3, Zenon DEF AsGarbled
<1> HIDE DEF a, b, c
<1>6. \/ r.kind = "InvalidLineLength"
      \/ TrimEnd(c) = c /\ BadLine(c, 4) /\ r \in Refusals(c, 4)
      \/ TrimEnd(c) = c /\ ~BadLine(c, 4) /\ r = Fields(a, c)
  <2>1. CASE TrimEnd(c) = c
    <3>1. ~(10 < 10) /\ ~(4 < 4)
      OBVIOUS
    <3> QED BY <1>1, <1>3, <1>5, <2>1, <3>1 DEF ParsedPair, Length1, Length2
  <2>2. CASE TrimEnd(c) # c
    <3>1. Len(TrimEnd(c)) < 4
      BY <1>5, <2>2
    <3>2. ParsedPair(a, c) = {Failed("InvalidLineLength")}
      BY <3>1 DEF ParsedPair, Length2
    <3> QED BY <1>3, <3>2 DEF Failed
  <2> QED BY <2>1, <2>2
<1>7. CASE r.kind = "InvalidLineLength"
  <2>1. ~Accepts(r) /\ ~Panics(r)
    BY <1>7 DEF Accepts, Panics
  <2> QED BY <2>1 DEF Caught
<1>8. CASE TrimEnd(c) = c /\ BadLine(c, 4) /\ r \in Refusals(c, 4)
  <2>1. NoAnswer(r, c[4])
    BY <1>8, RefusalsAnswer
  <2>2. j = 4 => c[4] = g
    BY <1>5
  <2> QED BY <1>5, <2>1, <2>2 DEF Caught, NoAnswer
<1>9. CASE TrimEnd(c) = c /\ ~BadLine(c, 4) /\ r = Fields(a, c)
  <2>1. j # 4 /\ Weight(b[j]) = Weight(g) /\ j < 4
    <3>1. j # 4
      <4> SUFFICES ASSUME j = 4 PROVE FALSE
        OBVIOUS
      <4>1. Len(TrimEnd(c)) < 4
        BY <1>5, <1>9
      <4>2. Len(TrimEnd(c)) = 4
        BY <1>5, <1>9
      <4>3. ~(4 < 4)
        OBVIOUS
      <4> QED BY <4>1, <4>2, <4>3
    <3> QED BY <1>5, <1>9, <3>1
  <2>2. 2 \in 2 .. 4 /\ 3 \in 2 .. 4 /\ 2 < 3 /\ Len(a) >= 4
    BY <1>1
  <2>3. ~Panics(Fields(a, c))
    BY <1>1, <1>2, <2>2, EpochSplits
  <2>4. ~Panics(r)
    BY <1>9, <2>3
  <2> QED BY <2>1, <2>4 DEF Caught, b, body
<1> QED BY <1>6, <1>7, <1>8, <1>9 DEF b, body

(* What the answer to a text may be, after what happened to it.              *)
Judged(set, f, r) ==
  /\ f.what \in {"none", "lost", "garbled"}
  /\ f.what = "none" => r = Meaning(set)
  /\ f.what = "lost" => r.kind \in {"InvalidLineCount", "InvalidLineLength"}
  /\ f.what = "garbled" => Caught(r, f.was, f.is, f.column, Len(Written(set)[f.line]))

TextInv ==
  item.kind = "text" =>
    /\ item.set \in ElementSets
    /\ fault = NoFault => wire \in {[lines |-> lines] : lines \in Texts(item.set)}
    /\ \A r \in Parsed(wire.lines) : Judged(item.set, fault, r)
    /\ output \in {None} \cup Parsed(wire.lines)

LEMMA Joined ==
  ASSUME NEW C, NEW p \in Seq(C), NEW q \in Seq(C)
  PROVE  /\ p \o q \in Seq(C) /\ Len(p \o q) = Len(p) + Len(q)
         /\ \A i \in 1 .. Len(p) : (p \o q)[i] = p[i]
         /\ \A i \in 1 .. Len(q) : (p \o q)[Len(p) + i] = q[i]
OBVIOUS

LEMMA NameBefore ==
  \A C, p, q : p \in Seq(C) /\ q \in Seq(C) /\ Len(p) = 1 /\ Len(q) = 2 =>
    /\ p \o q \in Seq(C) /\ Len(p \o q) = 3
    /\ (p \o q)[1] = p[1] /\ (p \o q)[2] = q[1] /\ (p \o q)[3] = q[2]
<1> TAKE C, p, q
<1>5. p \in Seq(C) /\ q \in Seq(C) => (p \o q) \in Seq(C)
      /\ Len(p \o q) = Len(p) + Len(q)
      /\ (\A i \in 1 .. Len(p) : (p \o q)[i] = p[i])
      /\ \A i \in 1 .. Len(q) : (p \o q)[Len(p) + i] = q[i]
  BY Joined
<1> HAVE p \in Seq(C) /\ q \in Seq(C) /\ Len(p) = 1 /\ Len(q) = 2
<1> DEFINE r == p \o q
<1>1. /\ r \in Seq(C) /\ Len(r) = Len(p) + Len(q)
      /\ \A i \in 1 .. Len(p) : r[i] = p[i]
      /\ \A i \in 1 .. Len(q) : r[Len(p) + i] = q[i]
  BY <1>5, Zenon
<1> HIDE DEF r
<1>2. 1 \in 1 .. Len(p) /\ 1 \in 1 .. Len(q) /\ 2 \in 1 .. Len(q)
      /\ Len(p) + 1 = 2 /\ Len(p) + 2 = 3 /\ Len(p) + Len(q) = 3
  OBVIOUS
<1>3. r[1] = p[1] /\ r[Len(p) + 1] = q[1] /\ r[Len(p) + 2] = q[2]
  BY <1>1, <1>2, Zenon
<1>4. r \in Seq(C) /\ Len(r) = 3 /\ r[1] = p[1] /\ r[2] = q[1] /\ r[3] = q[2]
  BY <1>1, <1>2, <1>3, Zenon
<1> QED BY <1>4 DEF r

LEMMA TextsAre ==
  ASSUME NEW set \in ElementSets, NEW t \in Texts(set)
  PROVE  /\ Len(t) \in {2, 3} /\ DOMAIN t = 1 .. Len(t)
         /\ t[Len(t) - 1] = Checked(Body1(set)) /\ t[Len(t)] = Checked(Body2(set))
         /\ Len(t) = 3 => t[1] = Name
         /\ \E C : t \in Seq(C)
<1> DEFINE a == Checked(Body1(set))
           b == Checked(Body2(set))
<1>1. Written(set) = <<a, b>>
  BY DEF Written
<1>2. t = <<a, b>> \/ t = <<Name>> \o <<a, b>>
  BY <1>1 DEF Texts
<1> HIDE DEF a, b
<1>3. <<Name>> \o <<a, b>> = <<Name, a, b>>
  <2> DEFINE p == <<Name>>
             q == <<a, b>>
             S == {Name, a, b}
  <2>1. /\ p \in Seq(S) /\ Len(p) = 1 /\ p[1] = Name
        /\ q \in Seq(S) /\ Len(q) = 2 /\ q[1] = a /\ q[2] = b
    OBVIOUS
  <2> HIDE DEF p, q
  <2>2. /\ p \o q \in Seq(S) /\ Len(p \o q) = 3
        /\ (p \o q)[1] = Name /\ (p \o q)[2] = a /\ (p \o q)[3] = b
    <3> HIDE DEF S
    <3>1. /\ p \o q \in Seq(S) /\ Len(p \o q) = 3
          /\ (p \o q)[1] = p[1] /\ (p \o q)[2] = q[1] /\ (p \o q)[3] = q[2]
      BY <2>1, NameBefore
    <3> QED BY <2>1, <3>1
  <2>3. <<Name, a, b>> \in Seq(S) /\ Len(<<Name, a, b>>) = 3 /\ <<Name, a, b>>[1] = Name
        /\ <<Name, a, b>>[2] = a /\ <<Name, a, b>>[3] = b
    OBVIOUS
  <2>4. \A i \in 1 .. 3 : i = 1 \/ i = 2 \/ i = 3
    OBVIOUS
  <2>5. p \o q = <<Name, a, b>>
    BY <2>2, <2>3, <2>4, SameLine
  <2> QED BY <2>5 DEF p, q
<1>4. CASE t = <<a, b>>
  <2>1. t \in Seq({a, b}) /\ Len(t) = 2 /\ DOMAIN t = 1 .. 2 /\ t[1] = a /\ t[2] = b
    BY <1>4
  <2>2. 2 - 1 = 1
    OBVIOUS
  <2> QED BY <2>1, <2>2 DEF a, b
<1>5. CASE t = <<Name, a, b>>
  <2>1. t \in Seq({Name, a, b}) /\ Len(t) = 3 /\ DOMAIN t = 1 .. 3 /\ t[1] = Name /\ t[2] = a /\ t[3] = b
    BY <1>5
  <2>2. 3 - 1 = 2
    OBVIOUS
  <2> QED BY <2>1, <2>2 DEF a, b
<1> QED BY <1>2, <1>3, <1>4, <1>5

LEMMA WrittenAre ==
  ASSUME NEW set \in ElementSets
  PROVE  /\ Written(set)[1] = Checked(Body1(set)) /\ Written(set)[2] = Checked(Body2(set))
         /\ Len(Written(set)[1]) = 10 /\ Len(Written(set)[2]) = 4
<1> DEFINE a == Checked(Body1(set))
           b == Checked(Body2(set))
<1>1. Written(set) = <<a, b>>
  BY DEF Written
<1>2. Len(a) = 10 /\ Len(b) = 4
  BY LinesAre
<1> HIDE DEF a, b
<1>3. <<a, b>>[1] = a /\ <<a, b>>[2] = b
  OBVIOUS
<1> QED BY <1>1, <1>2, <1>3 DEF a, b

LEMMA TextParsed ==
  ASSUME NEW set \in ElementSets, NEW t \in Texts(set), NEW r \in Parsed(t)
  PROVE  r = Meaning(set)
<1>1. PICK n \in {2, 3} : n = Len(t)
  BY TextsAre
<1>2. Parsed(t) = ParsedPair(t[n - 1], t[n])
  BY <1>1, ParsedIs
<1>3. t[n - 1] = Checked(Body1(set)) /\ t[n] = Checked(Body2(set))
  BY <1>1, TextsAre
<1>4. Parsed(t) = {Meaning(set)}
  BY <1>2, <1>3, PlainText
<1> QED BY <1>4

LEMMA TooShort ==
  ASSUME NEW a, NEW b, Len(TrimEnd(a)) < Length1 \/ Len(TrimEnd(b)) < Length2,
         NEW r \in ParsedPair(a, b)
  PROVE  r.kind = "InvalidLineLength"
<1>1. r = Failed("InvalidLineLength")
  BY DEF ParsedPair
<1> QED BY <1>1 DEF Failed

(* A line without its end, or a text without a line.                         *)
LEMMA LostParsed ==
  ASSUME NEW set \in ElementSets, NEW t \in Texts(set), NEW l \in {Len(t) - 1, Len(t)}
  PROVE  /\ \A r \in Parsed([t EXCEPT ![l] = Front(t[l])]) : r.kind = "InvalidLineLength"
         /\ \A r \in Parsed(RemoveAt(t, l)) : r.kind \in {"InvalidLineCount", "InvalidLineLength"}
<1> DEFINE a == Checked(Body1(set))
           b == Checked(Body2(set))
<1>1. PICK n \in {2, 3} : n = Len(t)
  BY TextsAre
<1>2. PICK C : t \in Seq(C)
  BY TextsAre
<1>3. /\ DOMAIN t = 1 .. n /\ t[n - 1] = a /\ t[n] = b /\ (n = 3 => t[1] = Name)
      /\ l \in {n - 1, n}
  BY <1>1, TextsAre
<1>4. /\ a \in Seq(Characters) /\ Len(a) = 10 /\ TrimEnd(a) = a
      /\ b \in Seq(Characters) /\ Len(b) = 4 /\ TrimEnd(b) = b
  BY LinesAre
<1> HIDE DEF a, b
<1>5. ASSUME NEW s \in Seq(Characters), NEW m \in Nat, Len(s) = m, m > 0
      PROVE  Len(TrimEnd(Front(s))) < m
  <2>1. Front(s) \in Seq(Characters) /\ Len(Front(s)) = m - 1
    <3>1. SubSeq(s, 1, m - 1) \in Seq(Characters) /\ Len(SubSeq(s, 1, m - 1)) = m - 1
      BY <1>5
    <3> QED BY <1>5, <3>1 DEF Front
  <2>2. Len(TrimEnd(Front(s))) \in Nat /\ Len(TrimEnd(Front(s))) <= m - 1
    BY <2>1, TrimEndShortens
  <2> QED BY <2>2
<1>6. Len(TrimEnd(Front(a))) < 10 /\ Len(TrimEnd(Front(b))) < 4
  <2>1. 10 \in Nat /\ 4 \in Nat /\ 10 > 0 /\ 4 > 0
    OBVIOUS
  <2> QED BY <1>4, <1>5, <2>1
<1>7. ASSUME NEW r \in Parsed([t EXCEPT ![l] = Front(t[l])]) PROVE r.kind = "InvalidLineLength"
  <2> DEFINE u == [t EXCEPT ![l] = Front(t[l])]
  <2>1. Len(u) = n /\ (l = n - 1 => u[n - 1] = Front(a)) /\ (l = n => u[n] = Front(b))
    BY <1>1, <1>2, <1>3
  <2>2. Parsed(u) = ParsedPair(u[n - 1], u[n])
    <3> HIDE DEF u
    <3> QED BY <2>1, ParsedIs
  <2> HIDE DEF u
  <2>3. Len(TrimEnd(u[n - 1])) < Length1 \/ Len(TrimEnd(u[n])) < Length2
    BY <1>3, <1>6, <2>1 DEF Length1, Length2
  <2>4. r \in ParsedPair(u[n - 1], u[n])
    BY <2>2 DEF u
  <2> QED BY <2>3, <2>4, TooShort
<1>8. ASSUME NEW r \in Parsed(RemoveAt(t, l))
      PROVE  r.kind \in {"InvalidLineCount", "InvalidLineLength"}
  <2> DEFINE u == RemoveAt(t, l)
  <2>1. u \in Seq(C) /\ Len(u) = n - 1 /\ (n = 3 => u[1] = Name)
    <3> DEFINE p == SubSeq(t, 1, l - 1)
               q == SubSeq(t, l + 1, Len(t))
    <3>1. /\ p \in Seq(C) /\ q \in Seq(C) /\ Len(p) = l - 1 /\ Len(q) = n - l
          /\ (l > 1 => p[1] = t[1])
      BY <1>1, <1>2, <1>3
    <3>2. u = p \o q
      BY DEF RemoveAt
    <3>3. l \in Int /\ n \in Int /\ (n = 3 => l > 1)
      BY <1>3
    <3> HIDE DEF p, q, u
    <3>4. u \in Seq(C) /\ Len(u) = (l - 1) + (n - l)
      BY <3>1, <3>2
    <3>5. Len(u) = n - 1
      BY <3>3, <3>4
    <3>6. ASSUME n = 3 PROVE u[1] = Name
      <4>1. l > 1 /\ 1 \in 1 .. Len(p)
        BY <3>1, <3>3, <3>6
      <4>2. u[1] = p[1]
        BY <3>1, <3>2, <4>1
      <4> QED BY <1>3, <3>1, <3>6, <4>1, <4>2
    <3> QED BY <3>4, <3>5, <3>6
  <2> HIDE DEF u
  <2>2. CASE n = 2
    <3>1. Parsed(u) = {Failed("InvalidLineCount")}
      <4>1. Len(u) \notin {2, 3}
        BY <2>1, <2>2
      <4> QED BY <4>1 DEF Parsed
    <3>2. r = Failed("InvalidLineCount")
      BY <3>1 DEF u
    <3> QED BY <3>2 DEF Failed
  <2>3. CASE n = 3
    <3>1. Len(u) = 2 /\ u[1] = Name /\ 2 - 1 = 1
      BY <2>1, <2>3
    <3>2. Parsed(u) = ParsedPair(Name, u[2])
      <4>1. Parsed(u) = ParsedPair(u[2 - 1], u[2])
        BY <3>1, ParsedIs
      <4> QED BY <3>1, <4>1
    <3>3. Len(TrimEnd(Name)) < Length1
      <4>1. Name \in Seq({"n"}) /\ Len(Name) = 1
        BY DEF Name
      <4>2. Len(TrimEnd(Name)) \in Nat /\ Len(TrimEnd(Name)) <= 1
        BY <4>1, TrimEndShortens
      <4> QED BY <4>2 DEF Length1
    <3>4. r \in ParsedPair(Name, u[2])
      BY <3>2 DEF u
    <3>5. r.kind = "InvalidLineLength"
      BY <3>3, <3>4, TooShort
    <3> QED BY <3>5
  <2> QED BY <2>2, <2>3
<1> QED BY <1>7, <1>8

LEMMA TextInvInit == Init => TextInv
<1> SUFFICES ASSUME Init, item.kind = "text" PROVE TextInv
  BY DEF TextInv
<1>1. \A x, y : /\ [kind |-> "epoch", date |-> x].kind # "text"
                /\ [kind |-> "draft", draft |-> x].kind # "text"
                /\ [kind |-> "spec", spec |-> x].kind # "text"
  OBVIOUS
<1>2. PICK set \in ElementSets : \E lines \in Texts(set) :
        item = [kind |-> "text", set |-> set] /\ wire = [lines |-> lines]
  <2>1. \/ \E set \in ElementSets : \E lines \in Texts(set) :
             item = [kind |-> "text", set |-> set] /\ wire = [lines |-> lines]
        \/ \E date \in Dates : item = [kind |-> "epoch", date |-> date] /\ wire = None
        \/ \E draft \in Drafts : item = [kind |-> "draft", draft |-> draft] /\ wire = None
        \/ \E sp \in Specs : item = [kind |-> "spec", spec |-> sp] /\ wire = None
    BY Zenon DEF Init
  <2> QED BY <1>1, <2>1
<1>5. PICK lines \in Texts(set) :
        item = [kind |-> "text", set |-> set] /\ wire = [lines |-> lines]
  BY <1>2
<1>3. item.set = set /\ wire.lines = lines /\ fault = NoFault /\ output = None
      /\ fault.what = "none"
  BY <1>5 DEF Init, NoFault
<1>4. \A r \in Parsed(lines) : Judged(set, fault, r)
  BY <1>3, TextParsed DEF Judged
<1> QED BY <1>5, <1>3, <1>4 DEF TextInv

(* A text is garbled or cut short: nothing it can still be read as is amiss. *)
LEMMA TextGarbled ==
  ASSUME TextInv, GarbleText PROVE TextInv'
<1>1. PICK set \in ElementSets : \E t \in Texts(set) :
        /\ item.set = set /\ wire = [lines |-> t] /\ wire.lines = t
        /\ item' = item /\ output' = None
  <2>1. item.kind = "text" /\ fault = NoFault /\ output = None /\ item' = item /\ output' = output
    BY DEF GarbleText
  <2>2. item.set \in ElementSets /\ wire \in {[lines |-> lines] : lines \in Texts(item.set)}
    BY <2>1 DEF TextInv
  <2> QED BY <2>1, <2>2
<1>8. PICK t \in Texts(set) :
        /\ item.set = set /\ wire = [lines |-> t] /\ wire.lines = t
        /\ item' = item /\ output' = None
  BY <1>1
<1>2. PICK n \in {2, 3} : n = Len(t) /\ DOMAIN t = 1 .. n
      /\ t[n - 1] = Checked(Body1(set)) /\ t[n] = Checked(Body2(set))
  BY TextsAre
<1>3. PICK l \in {n - 1, n} :
        \/ \E c \in DOMAIN t[l] : \E g \in Glyphs \ {t[l][c]} :
             /\ wire' = [wire EXCEPT !.lines[l][c] = g]
             /\ fault' = [what |-> "garbled", line |-> l - (n - 2), column |-> c,
                          was |-> t[l][c], is |-> g]
        \/ wire' = [wire EXCEPT !.lines[l] = Front(@)] /\ fault' = [what |-> "lost"]
        \/ wire' = [wire EXCEPT !.lines = RemoveAt(@, l)] /\ fault' = [what |-> "lost"]
  BY <1>8, <1>2 DEF GarbleText
<1>4. [what |-> "lost"] # NoFault /\ \A a, b, c, d : [what |-> "garbled", line |-> a, column |-> b,
                                                     was |-> c, is |-> d] # NoFault
  BY DEF NoFault
<1>9. fault' # NoFault
  BY <1>3, <1>4
<1>5. SUFFICES ASSUME NEW r \in Parsed(wire'.lines) PROVE Judged(set, fault', r)
  BY <1>8, <1>9 DEF TextInv
<1>6. ASSUME NEW c \in DOMAIN t[l], NEW g \in Glyphs \ {t[l][c]},
             wire' = [wire EXCEPT !.lines[l][c] = g],
             fault' = [what |-> "garbled", line |-> l - (n - 2), column |-> c,
                       was |-> t[l][c], is |-> g]
      PROVE  Judged(set, fault', r)
  <2> DEFINE u == [t EXCEPT ![l] = [t[l] EXCEPT ![c] = g]]
  <2>1. wire'.lines = u
    BY <1>8, <1>6
  <2>2. Len(u) = n /\ (l = n - 1 => u[n - 1] = [t[n - 1] EXCEPT ![c] = g] /\ u[n] = t[n])
        /\ (l = n => u[n - 1] = t[n - 1] /\ u[n] = [t[n] EXCEPT ![c] = g])
    <3>1. PICK C : t \in Seq(C)
      BY TextsAre
    <3> QED BY <1>2, <3>1
  <2>3. Parsed(u) = ParsedPair(u[n - 1], u[n])
    <3> HIDE DEF u
    <3> QED BY <2>2, ParsedIs
  <2> HIDE DEF u
  <2>4. g \in Characters /\ g # t[l][c]
    BY DEF Characters
  <2>5. /\ Len(t[n - 1]) = 10 /\ Len(t[n]) = 4 /\ t[n - 1] \in Seq(Characters) /\ t[n] \in Seq(Characters)
        /\ Written(set)[1] = t[n - 1] /\ Written(set)[2] = t[n]
    BY <1>2, LinesAre, WrittenAre
  <2>6. CASE l = n - 1
    <3>1. c \in 1 .. 10 /\ l - (n - 2) = 1
      BY <2>5, <2>6
    <3>2. r \in ParsedPair([t[n - 1] EXCEPT ![c] = g], t[n])
      BY <2>1, <2>2, <2>3, <2>6
    <3>3. Caught(r, t[n - 1][c], g, c, 10)
      BY <1>2, <2>4, <2>6, <3>1, <3>2, GarbledFirst
    <3> QED BY <1>6, <2>5, <2>6, <3>1, <3>3 DEF Judged
  <2>7. CASE l = n
    <3>1. c \in 1 .. 4 /\ l - (n - 2) = 2
      BY <2>5, <2>7
    <3>2. r \in ParsedPair(t[n - 1], [t[n] EXCEPT ![c] = g])
      BY <2>1, <2>2, <2>3, <2>7
    <3>3. Caught(r, t[n][c], g, c, 4)
      BY <1>2, <2>4, <2>7, <3>1, <3>2, GarbledSecond
    <3> QED BY <1>6, <2>5, <2>7, <3>1, <3>3 DEF Judged
  <2> QED BY <2>6, <2>7
<1>7. ASSUME wire' = [wire EXCEPT !.lines[l] = Front(@)] \/ wire' = [wire EXCEPT !.lines = RemoveAt(@, l)],
             fault' = [what |-> "lost"]
      PROVE  Judged(set, fault', r)
  <2>1. wire'.lines = [t EXCEPT ![l] = Front(t[l])] \/ wire'.lines = RemoveAt(t, l)
    BY <1>8, <1>7
  <2>2. r.kind \in {"InvalidLineCount", "InvalidLineLength"}
    <3>1. l \in {Len(t) - 1, Len(t)}
      BY <1>2
    <3>2. CASE wire'.lines = [t EXCEPT ![l] = Front(t[l])]
      <4>1. r \in Parsed([t EXCEPT ![l] = Front(t[l])])
        BY <3>2
      <4>2. r.kind = "InvalidLineLength"
        BY <3>1, <4>1, LostParsed
      <4> QED BY <4>2
    <3>3. CASE wire'.lines = RemoveAt(t, l)
      <4>1. r \in Parsed(RemoveAt(t, l))
        BY <3>3
      <4> QED BY <3>1, <4>1, LostParsed
    <3> QED BY <2>1, <3>2, <3>3
  <2> QED BY <1>7, <2>2 DEF Judged
<1> QED BY <1>3, <1>6, <1>7

LEMMA TextInvKept ==
  ASSUME FormatsInv, TextInv, [Next]_vars PROVE TextInv'
<1>1. CASE GarbleText
  BY <1>1, TextGarbled
<1>2. CASE ParseText
  BY <1>2 DEF ParseText, TextInv
<1>3. CASE BuildPacket
  <2>1. item'.kind # "text"
    BY <1>3, BuiltPacket
  <2> QED BY <2>1 DEF TextInv
<1>4. CASE EditPacket
  <2>1. item'.kind # "text"
    BY <1>4, EditedPacket
  <2> QED BY <2>1 DEF TextInv
<1>5. CASE SendPacket \/ DamagePacket \/ ReceivePacket \/ TakeEpoch \/ GenerateAll
  <2>1. item' = item /\ item.kind # "text"
    BY <1>5 DEF SendPacket, DamagePacket, ReceivePacket, TakeEpoch, GenerateAll
  <2> QED BY <2>1 DEF TextInv
<1>6. CASE UNCHANGED vars
  BY <1>6 DEF vars, TextInv
<1> QED BY <1>1, <1>2, <1>3, <1>4, <1>5, <1>6 DEF Next

(* Whatever element set is written, and whichever character may take the     *)
(* place of whichever: a text nobody garbled is read as it was meant, one    *)
(* with a character garbled is refused unless both weigh the same in the     *)
(* checksum, one that lost a character or a line always, and only a check    *)
(* column below '0' can make the parser panic (Tle::parse, parse_lines).     *)
THEOREM OnlyWhatWasWrittenHolds == Spec => []OnlyWhatWasWritten
<1>1. TextInv => OnlyWhatWasWritten
  <2> SUFFICES ASSUME TextInv, Done, item.kind = "text" PROVE OnlyWhatWasWritten
    BY DEF OnlyWhatWasWritten
  <2>1. Judged(item.set, fault, output)
    BY DEF TextInv, Done
  <2> QED BY <2>1 DEF Judged, Caught, Accepts, Panics, OnlyWhatWasWritten
<1>2. Init => TextInv
  BY TextInvInit
<1>3. FormatsInv /\ TextInv /\ [Next]_vars => TextInv'
  BY TextInvKept
<1> QED BY <1>1, <1>2, <1>3, FormatsInvHolds, PTL DEF Spec
=============================================================================
