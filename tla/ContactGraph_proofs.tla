------------------------- MODULE ContactGraph_proofs -------------------------
(***************************************************************************)
(* Facts about one transmission, and about the reference definition of     *)
(* earliest arrival: the table of labels is closed under the contacts of   *)
(* the plan, is the least one that is, and every label in it is reached.   *)
(***************************************************************************)
EXTENDS ContactGraph, FiniteSetTheorems, WellFoundedInduction, TLAPS

(***************************************************************************)
(* Facts about one transmission that hold for every contact, every instant *)
(* and every bundle size.                                                  *)
(***************************************************************************)
\* A quotient of natural numbers is a natural number.
LEMMA QuotientNat ==
    ASSUME NEW m \in Nat, NEW k \in Nat \ {0} PROVE m \div k \in Nat
<1>1. m \div k \in Int
  OBVIOUS
<1>2. m = k * (m \div k) + (m % k) /\ m % k < k
  OBVIOUS
<1>3. m \div k >= 0
  BY <1>1, <1>2, Z3
<1> QED BY <1>1, <1>3

\* A transmission takes no negative time: contact.go never schedules the end
\* of a transmission before its begin.
LEMMA TxDurationNat ==
    ASSUME NEW c \in Contact, NEW size \in Nat
    PROVE TxDuration(c, size) \in Nat
<1>1. CASE c.rate > 0
  <2>1. size * TicksPerSecond \in Nat
    BY TicksAssumption
  <2>2. c.rate \in Nat \ {0}
    BY <1>1 DEF Contact
  <2> QED BY <1>1, <2>1, <2>2, QuotientNat DEF TxDuration
<1>2. CASE ~(c.rate > 0)
  BY <1>2 DEF TxDuration
<1> QED BY <1>1, <1>2

\* ArrivalTime never arrives before the bundle is ready.
LEMMA ArrivalNotEarly ==
    ASSUME NEW c \in Contact, NEW ready \in Time, NEW size \in Nat
    PROVE /\ ArrivalTime(c, ready, size) \in Time
          /\ ready <= ArrivalTime(c, ready, size)
<1>1. TxDuration(c, size) \in Nat
  BY TxDurationNat
<1> QED BY <1>1 DEF ArrivalTime, TxFinish, TxStart, Contact, Time

\* Contacts are first in, first out: a bundle that is ready earlier is
\* accepted whenever a later one is, and does not arrive after it.  The search
\* of FindRoute is right only because of this.
THEOREM FirstInFirstOut ==
    ASSUME NEW c \in Contact, NEW size \in Nat,
           NEW early \in Time, NEW late \in Time, early <= late,
           Carries(c, late, size)
    PROVE /\ Carries(c, early, size)
          /\ ArrivalTime(c, early, size) <= ArrivalTime(c, late, size)
<1>1. TxDuration(c, size) \in Nat
  BY TxDurationNat
<1>2. TxStart(c, early) <= TxStart(c, late) /\ TxStart(c, early) \in Int
      /\ TxStart(c, late) \in Int
  BY DEF TxStart, Contact, Time
<1> QED BY <1>1, <1>2 DEF Carries, ArrivalTime, TxFinish, Contact, Time

-----------------------------------------------------------------------------
(***************************************************************************)
(* Induction over the natural numbers, in forms without an operator        *)
(***************************************************************************)
\* A set of integers that is bounded from below has a least element.
LEMMA LeastInteger ==
    ASSUME NEW S \in SUBSET Int, S # {}, NEW low \in Int, \A s \in S : low <= s
    PROVE \E m \in S : \A s \in S : m <= s
<1> DEFINE less == {ss \in Nat \X Nat : ss[1] < ss[2]}
           T == {n \in Nat : low + n \in S}
<1>1. IsWellFoundedOn(less, Nat)
  BY NatLessThanWellFounded, Zenon DEF OpToRel
<1>2. T \subseteq Nat /\ T # {}
  <2>1. PICK s \in S : TRUE
    OBVIOUS
  <2>2. s - low \in Nat /\ low + (s - low) = s
    BY <2>1
  <2> QED BY <2>1, <2>2
<1>3. PICK n \in T : \A k \in T : ~ (<<k, n>> \in less)
  <2> HIDE DEF less, T
  <2> QED BY <1>1, <1>2, WFMin
<1>4. ASSUME NEW s \in S PROVE low + n <= s
  <2>1. s - low \in T /\ s - low \in Nat
    <3>1. s - low \in Nat /\ low + (s - low) = s
      OBVIOUS
    <3> QED BY <3>1
  <2>2. ~(s - low < n)
    BY <1>3, <2>1
  <2> QED BY <2>1, <2>2
<1> QED BY <1>3, <1>4

\* Induction: a set that contains zero and the successors of its elements.
LEMMA Induction ==
    ASSUME NEW S, 0 \in S, \A n \in Nat : n \in S => n + 1 \in S
    PROVE \A n \in Nat : n \in S
<1> SUFFICES ASSUME \E n \in Nat : n \notin S PROVE FALSE
  OBVIOUS
<1> DEFINE R == Nat \ S
<1>1. PICK m \in R : \A s \in R : m <= s
  <2>1. R \in SUBSET Int /\ R # {} /\ \A s \in R : 0 <= s
    OBVIOUS
  <2> HIDE DEF R
  <2> QED BY <2>1, 0 \in Int, LeastInteger
<1>2. m - 1 \in Nat /\ ~(m <= m - 1)
  OBVIOUS
<1>3. m - 1 \in S
  BY <1>1, <1>2
<1>4. (m - 1) + 1 \in S
  BY <1>2, <1>3
<1> QED BY <1>4

\* A function can be defined by recursion: there is one that starts with x0
\* and goes on with g.
Iterates(f, X, x0, g) ==
    f \in [Nat -> X] /\ f[0] = x0 /\ \A k \in Nat : f[k + 1] = g[f[k]]

LEMMA Iteration ==
    ASSUME NEW X, NEW x0 \in X, NEW g \in [X -> X]
    PROVE \E f : Iterates(f, X, x0, g)
<1> DEFINE Starts(h, n) == /\ h \in [0 .. n -> X]
                           /\ h[0] = x0
                           /\ \A k \in 0 .. n - 1 : h[k + 1] = g[h[k]]
           S == {n \in Nat : \E h : Starts(h, n)}
           U == {k \in Nat : \A n, m \in Nat : \A h, i :
                    k <= n /\ k <= m /\ Starts(h, n) /\ Starts(i, m) => h[k] = i[k]}
<1>1. \A n \in Nat : n \in S
  <2>1. 0 \in S
    <3>1. Starts([k \in 0 .. 0 |-> x0], 0)
      OBVIOUS
    <3> HIDE DEF Starts
    <3> QED BY <3>1
  <2>2. ASSUME NEW n \in Nat, n \in S PROVE n + 1 \in S
    <3>1. PICK h : Starts(h, n)
      BY <2>2
    <3> DEFINE i == [k \in 0 .. n + 1 |-> IF k = n + 1 THEN g[h[n]] ELSE h[k]]
    <3>2. Starts(i, n + 1)
      <4>1. i \in [0 .. n + 1 -> X]
        BY <3>1
      <4>2. i[0] = x0
        BY <3>1
      <4>3. ASSUME NEW k \in 0 .. (n + 1) - 1 PROVE i[k + 1] = g[i[k]]
        <5>1. CASE k = n
          BY <5>1
        <5>2. CASE k # n
          BY <3>1, <5>2
        <5> QED BY <5>1, <5>2
      <4> QED BY <4>1, <4>2, <4>3
    <3> HIDE DEF Starts, i
    <3> QED BY <3>2
  <2> HIDE DEF S
  <2> QED BY <2>1, <2>2, Induction
<1>2. \A k \in Nat : k \in U
  <2>1. 0 \in U
    <3> SUFFICES ASSUME NEW n \in Nat, NEW m \in Nat, NEW h, NEW i,
                        Starts(h, n), Starts(i, m)
                 PROVE h[0] = i[0]
      BY 0 \in Nat
    <3> QED OBVIOUS
  <2>2. ASSUME NEW k \in Nat, k \in U PROVE k + 1 \in U
    <3> SUFFICES ASSUME NEW n \in Nat, NEW m \in Nat, NEW h, NEW i,
                        k + 1 <= n, k + 1 <= m, Starts(h, n), Starts(i, m)
                 PROVE h[k + 1] = i[k + 1]
      <4> HIDE DEF Starts
      <4> QED BY k + 1 \in Nat
    <3>1. h[k + 1] = g[h[k]] /\ i[k + 1] = g[i[k]]
      OBVIOUS
    <3>2. h[k] = i[k]
      <4> HIDE DEF Starts
      <4> QED BY <2>2
    <3> QED BY <3>1, <3>2
  <2> HIDE DEF U
  <2> QED BY <2>1, <2>2, Induction
<1> DEFINE part == [n \in Nat |-> CHOOSE h : Starts(h, n)]
           f == [n \in Nat |-> part[n][n]]
<1>3. \A n \in Nat : Starts(part[n], n)
  <2> HIDE DEF Starts
  <2> QED BY <1>1
<1>4. f \in [Nat -> X] /\ f[0] = x0
  <2> HIDE DEF part
  <2> QED BY <1>3
<1>5. ASSUME NEW k \in Nat PROVE f[k + 1] = g[f[k]]
  <2>1. part[k + 1][k + 1] = g[part[k + 1][k]]
    <3> HIDE DEF part
    <3>1. Starts(part[k + 1], k + 1)
      BY <1>3
    <3> QED BY <3>1
  <2>2. part[k + 1][k] = part[k][k]
    <3> HIDE DEF part, Starts
    <3>1. Starts(part[k + 1], k + 1) /\ Starts(part[k], k) /\ k <= k + 1
      BY <1>3
    <3> QED BY <1>2, <3>1
  <2> HIDE DEF part
  <2> QED BY <2>1, <2>2
<1> HIDE DEF f
<1> QED BY <1>4, <1>5 DEF Iterates

-----------------------------------------------------------------------------
(***************************************************************************)
(* The rounds that lead to a table                                         *)
(***************************************************************************)
TableEntry == [node : Node, arrival : Time]

AfterRound(plan, size, old) ==
    Earliest(old \cup UNION {Onward(plan, size, p) : p \in old})

\* The tables after each number of rounds.
Converges(plan, source, size, ready, T) ==
    /\ T \in [Nat -> SUBSET TableEntry]
    /\ T[0] = {[node |-> source, arrival |-> ready]}
    /\ \A k \in Nat : T[k + 1] = AfterRound(plan, size, T[k])

LEMMA ContactsAreContacts ==
    ASSUME NEW plan \in ContactPlan
    PROVE /\ ContactsOf(plan) \subseteq Contact
          /\ \A i \in DOMAIN plan : plan[i] \in Contact
BY DEF ContactPlan, ContactsOf

LEMMA OnwardIsEntry ==
    ASSUME NEW plan \in ContactPlan, NEW size \in Nat, NEW p \in TableEntry
    PROVE /\ Onward(plan, size, p) \subseteq TableEntry
          /\ \A q \in Onward(plan, size, p) : p.arrival <= q.arrival
<1>1. ASSUME NEW q \in Onward(plan, size, p) PROVE q \in TableEntry /\ p.arrival <= q.arrival
  <2>1. PICK c \in Departing(plan, size, p) :
              q = [node |-> c.to, arrival |-> ArrivalTime(c, p.arrival, size)]
    BY DEF Onward
  <2>2. c \in Contact /\ p.arrival \in Time
    BY ContactsAreContacts DEF Departing, TableEntry
  <2>3. /\ ArrivalTime(c, p.arrival, size) \in Time
        /\ p.arrival <= ArrivalTime(c, p.arrival, size)
    BY <2>2, ArrivalNotEarly
  <2>4. c.to \in Node
    BY <2>2 DEF Contact
  <2> QED BY <2>1, <2>3, <2>4 DEF TableEntry
<1> QED BY <1>1

LEMMA AfterRoundIsTable ==
    ASSUME NEW plan \in ContactPlan, NEW size \in Nat, NEW old \in SUBSET TableEntry
    PROVE AfterRound(plan, size, old) \in SUBSET TableEntry
BY OnwardIsEntry DEF AfterRound, Earliest

\* The recursion of Rounds has a solution.
LEMMA RoundsConverge ==
    ASSUME NEW plan \in ContactPlan, NEW source \in Node, NEW size \in Nat,
           NEW ready \in Time
    PROVE \E T : /\ Converges(plan, source, size, ready, T)
                 /\ \A k \in Nat : Rounds(plan, source, size, ready)[k] = {T[k]}
<1> DEFINE start == {[node |-> source, arrival |-> ready]}
           X == SUBSET TableEntry
           g == [old \in X |-> AfterRound(plan, size, old)]
           F(r) == r = [k \in Nat |-> IF k = 0 THEN {{[node |-> source, arrival |-> ready]}}
                                      ELSE Round(plan, size, r[k - 1])]
<1>1. PICK T \in [Nat -> X] : T[0] = start /\ \A k \in Nat : T[k + 1] = g[T[k]]
  <2>1. start \in X
    BY DEF TableEntry
  <2>2. g \in [X -> X]
    BY AfterRoundIsTable
  <2>3. \E T : Iterates(T, X, start, g)
    <3> HIDE DEF X, g, start
    <3> QED BY <2>1, <2>2, Iteration
  <2> HIDE DEF X, g, start
  <2> QED BY <2>3 DEF Iterates
<1>2. Converges(plan, source, size, ready, T)
  BY <1>1 DEF Converges
<1>3. ASSUME NEW old \in X PROVE Round(plan, size, {old}) = {AfterRound(plan, size, old)}
  BY DEF Round, AfterRound
<1> DEFINE r == [k \in Nat |-> {T[k]}]
<1>4. F(r)
  <2>1. ASSUME NEW k \in Nat, k # 0 PROVE {T[k]} = Round(plan, size, r[k - 1])
    <3>1. k - 1 \in Nat /\ (k - 1) + 1 = k
      BY <2>1
    <3>2. T[k] = AfterRound(plan, size, T[k - 1]) /\ T[k - 1] \in X
      BY <1>1, <3>1
    <3> QED BY <3>1, <3>2, <1>3
  <2>2. ASSUME NEW k \in Nat
        PROVE r[k] = IF k = 0 THEN {{[node |-> source, arrival |-> ready]}}
                     ELSE Round(plan, size, r[k - 1])
    BY <1>1, <2>1
  <2> QED BY <2>2
<1>5. Rounds(plan, source, size, ready) = CHOOSE s : F(s)
  BY DEF Rounds
<1>6. F(Rounds(plan, source, size, ready))
  <2> HIDE DEF F
  <2> QED BY <1>4, <1>5
<1> DEFINE s == Rounds(plan, source, size, ready)
           S == {k \in Nat : s[k] = {T[k]}}
<1>7. \A k \in Nat : k \in S
  <2>1. 0 \in S
    BY <1>1, <1>6
  <2>2. ASSUME NEW k \in Nat, k \in S PROVE k + 1 \in S
    <3>1. s[k + 1] = Round(plan, size, s[k])
      <4>1. k + 1 \in Nat /\ k + 1 # 0 /\ (k + 1) - 1 = k
        OBVIOUS
      <4> HIDE DEF s
      <4> QED BY <1>6, <4>1 DEF s
    <3>2. s[k] = {T[k]} /\ T[k] \in X
      BY <1>1, <2>2
    <3>3. s[k + 1] = {AfterRound(plan, size, T[k])}
      BY <3>1, <3>2, <1>3
    <3> QED BY <3>3, <1>2 DEF Converges
  <2> HIDE DEF S
  <2> QED BY <2>1, <2>2, Induction
<1> QED BY <1>2, <1>7

\* The table is that after as many rounds as there are nodes.
LEMMA TableOfRounds ==
    ASSUME NEW plan \in ContactPlan, NEW source \in Node, NEW size \in Nat,
           NEW ready \in Time
    PROVE \E T : /\ Converges(plan, source, size, ready, T)
                 /\ Table(plan, source, size, ready) = T[Cardinality(Node)]
<1>1. PICK T : /\ Converges(plan, source, size, ready, T)
               /\ \A k \in Nat : Rounds(plan, source, size, ready)[k] = {T[k]}
  BY RoundsConverge
<1>2. Cardinality(Node) \in Nat
  BY FS_CardinalityType, NodesAssumption
<1>3. Rounds(plan, source, size, ready)[Cardinality(Node)] = {T[Cardinality(Node)]}
  BY <1>1, <1>2
<1> QED BY <1>1, <1>3 DEF Table

\* At most one label for each node, none before the ready time.
Labelled(table, ready) ==
    /\ table \in SUBSET TableEntry
    /\ \A p \in table : ready <= p.arrival
    /\ \A p, q \in table : p.node = q.node => p = q

\* A round keeps or improves every label, and makes no other than by a contact.
LEMMA AfterRoundFacts ==
    ASSUME NEW plan \in ContactPlan, NEW size \in Nat, NEW ready \in Time,
           NEW old \in SUBSET TableEntry, \A p \in old : ready <= p.arrival
    PROVE /\ Labelled(AfterRound(plan, size, old), ready)
          /\ \A p \in old :
               /\ \E q \in AfterRound(plan, size, old) :
                    q.node = p.node /\ q.arrival <= p.arrival
               /\ \A o \in Onward(plan, size, p) :
                    \E q \in AfterRound(plan, size, old) :
                       q.node = o.node /\ q.arrival <= o.arrival
          /\ \A q \in AfterRound(plan, size, old) :
               q \in old \/ \E p \in old : q \in Onward(plan, size, p)
<1> DEFINE all == old \cup UNION {Onward(plan, size, p) : p \in old}
           new == AfterRound(plan, size, old)
<1>1. all \in SUBSET TableEntry /\ \A q \in all : ready <= q.arrival
  <2>1. ASSUME NEW p \in old, NEW q \in Onward(plan, size, p)
        PROVE q \in TableEntry /\ ready <= q.arrival
    <3>1. p \in TableEntry /\ q \in TableEntry /\ p.arrival <= q.arrival /\ ready <= p.arrival
      BY <2>1, OnwardIsEntry
    <3> QED BY <3>1 DEF TableEntry, Time
  <2> QED BY <2>1
<1>2. new = {p \in all : \A q \in all : q.node = p.node => p.arrival <= q.arrival}
  BY DEF AfterRound, Earliest
<1>3. \A q \in all : q \in old \/ \E p \in old : q \in Onward(plan, size, p)
  OBVIOUS
<1>4. /\ \A p \in old : p \in all
      /\ \A p \in old : \A o \in Onward(plan, size, p) : o \in all
  OBVIOUS
<1> HIDE DEF all, new
<1>5. ASSUME NEW o \in all
      PROVE \E q \in new : q.node = o.node /\ q.arrival <= o.arrival
  <2> DEFINE S == {q.arrival : q \in {r \in all : r.node = o.node}}
  <2>1. /\ S \in SUBSET Int /\ S # {} /\ ready \in Int
        /\ \A s \in S : ready <= s
    BY <1>1 DEF TableEntry, Time
  <2>2. PICK m \in S : \A s \in S : m <= s
    <3> HIDE DEF S
    <3> QED BY <2>1, LeastInteger
  <2>3. PICK q \in all : q.node = o.node /\ q.arrival = m
    BY <2>2
  <2>4. \A r \in all : r.node = q.node => q.arrival <= r.arrival
    BY <2>2, <2>3
  <2>5. q.arrival <= o.arrival
    BY <2>3, <2>4
  <2> QED BY <1>2, <2>3, <2>4, <2>5
<1>6. Labelled(new, ready)
  <2>1. ASSUME NEW p \in new, NEW q \in new, p.node = q.node PROVE p = q
    <3>1. p \in TableEntry /\ q \in TableEntry /\ p.arrival <= q.arrival /\ q.arrival <= p.arrival
      BY <1>1, <1>2, <2>1
    <3> QED BY <2>1, <3>1 DEF TableEntry, Time
  <2> QED BY <1>1, <1>2, <2>1 DEF Labelled
<1>7. \A q \in new : q \in old \/ \E p \in old : q \in Onward(plan, size, p)
  BY <1>2, <1>3
<1> QED BY <1>4, <1>5, <1>6, <1>7 DEF new

\* So the labels only improve from round to round.
LEMMA LabelsImprove ==
    ASSUME NEW plan \in ContactPlan, NEW source \in Node, NEW size \in Nat,
           NEW ready \in Time, NEW T, Converges(plan, source, size, ready, T)
    PROVE /\ \A k \in Nat : Labelled(T[k], ready)
          /\ \A k \in Nat : \A j \in 0 .. k : \A p \in T[j] :
               \E q \in T[k] : q.node = p.node /\ q.arrival <= p.arrival
<1> DEFINE S == {k \in Nat : Labelled(T[k], ready)}
           R == {k \in Nat : \A j \in 0 .. k : \A p \in T[j] :
                   \E q \in T[k] : q.node = p.node /\ q.arrival <= p.arrival}
<1>1. ASSUME NEW k \in Nat PROVE T[k] \in SUBSET TableEntry
  BY DEF Converges
<1>2. \A k \in Nat : k \in S
  <2>1. 0 \in S
    BY DEF Converges, Labelled, TableEntry, Time
  <2>2. ASSUME NEW k \in Nat, k \in S PROVE k + 1 \in S
    <3>1. T[k] \in SUBSET TableEntry /\ \A p \in T[k] : ready <= p.arrival
      BY <1>1, <2>2 DEF Labelled
    <3>2. Labelled(AfterRound(plan, size, T[k]), ready)
      BY <3>1, AfterRoundFacts
    <3> QED BY <3>2 DEF Converges
  <2> HIDE DEF S
  <2> QED BY <2>1, <2>2, Induction
<1>3. \A k \in Nat : k \in R
  <2>1. 0 \in R
    <3>1. \A p \in T[0] : p.arrival <= p.arrival
      BY <1>1 DEF TableEntry, Time
    <3>2. 0 .. 0 = {0}
      OBVIOUS
    <3> QED BY <3>1, <3>2
  <2>2. ASSUME NEW k \in Nat, k \in R PROVE k + 1 \in R
    <3> SUFFICES ASSUME NEW j \in 0 .. k + 1, NEW p \in T[j]
                 PROVE \E q \in T[k + 1] : q.node = p.node /\ q.arrival <= p.arrival
      OBVIOUS
    <3>1. CASE j = k + 1
      <4>1. p \in TableEntry
        BY <1>1
      <4> QED BY <3>1, <4>1 DEF TableEntry, Time
    <3>2. CASE j \in 0 .. k
      <4>1. PICK q \in T[k] : q.node = p.node /\ q.arrival <= p.arrival
        BY <2>2, <3>2
      <4>2. PICK r \in T[k + 1] : r.node = q.node /\ r.arrival <= q.arrival
        <5>1. T[k] \in SUBSET TableEntry /\ \A s \in T[k] : ready <= s.arrival
          BY <1>1, <1>2 DEF Labelled
        <5>2. \E r \in AfterRound(plan, size, T[k]) : r.node = q.node /\ r.arrival <= q.arrival
          BY <5>1, AfterRoundFacts
        <5> QED BY <5>2 DEF Converges
      <4>3. p \in TableEntry /\ q \in TableEntry /\ r \in TableEntry
        BY <1>1
      <4> QED BY <4>1, <4>2, <4>3 DEF TableEntry, Time
    <3> QED BY <3>1, <3>2
  <2> HIDE DEF R
  <2> QED BY <2>1, <2>2, Induction
<1> HIDE DEF S, R
<1>4. \A k \in Nat : k \in S => Labelled(T[k], ready)
  BY DEF S
<1>5. \A k \in Nat : k \in R => \A j \in 0 .. k : \A p \in T[j] :
                   \E q \in T[k] : q.node = p.node /\ q.arrival <= p.arrival
  BY DEF R
<1> QED BY <1>2, <1>3, <1>4, <1>5

\* And what a round finds, it finds by a contact.
LEMMA LabelsByContact ==
    ASSUME NEW plan \in ContactPlan, NEW source \in Node, NEW size \in Nat,
           NEW ready \in Time, NEW T, Converges(plan, source, size, ready, T),
           NEW k \in Nat, NEW p \in T[k + 1]
    PROVE p \in T[k] \/ \E o \in T[k] : p \in Onward(plan, size, o)
<1>1. T[k] \in SUBSET TableEntry /\ \A q \in T[k] : ready <= q.arrival
  BY LabelsImprove DEF Labelled
<1>2. \A q \in AfterRound(plan, size, T[k]) :
         q \in T[k] \/ \E o \in T[k] : q \in Onward(plan, size, o)
  BY <1>1, AfterRoundFacts
<1> QED BY <1>2 DEF Converges

\* A growing sequence of subsets of a finite set stands still somewhere.
LEMMA Saturates ==
    ASSUME NEW N, IsFiniteSet(N), NEW F \in [Nat -> SUBSET N],
           \A k \in Nat : F[k] \subseteq F[k + 1]
    PROVE \E k \in 0 .. Cardinality(N) : F[k + 1] = F[k]
<1> SUFFICES ASSUME \A k \in 0 .. Cardinality(N) : F[k + 1] # F[k] PROVE FALSE
  OBVIOUS
<1>1. Cardinality(N) \in Nat
  BY FS_CardinalityType
<1>2. ASSUME NEW k \in Nat
      PROVE /\ IsFiniteSet(F[k]) /\ Cardinality(F[k]) \in Nat
            /\ Cardinality(F[k]) <= Cardinality(N)
  <2>1. F[k] \in SUBSET N
    OBVIOUS
  <2> QED BY <2>1, FS_Subset, FS_CardinalityType
<1> DEFINE S == {k \in Nat : k <= Cardinality(N) + 1 => k <= Cardinality(F[k])}
<1>3. \A k \in Nat : k \in S
  <2>1. 0 \in S
    BY <1>2
  <2>2. ASSUME NEW k \in Nat, k \in S PROVE k + 1 \in S
    <3> SUFFICES ASSUME k + 1 <= Cardinality(N) + 1 PROVE k + 1 <= Cardinality(F[k + 1])
      OBVIOUS
    <3>1. k <= Cardinality(F[k]) /\ k \in 0 .. Cardinality(N)
      BY <1>1, <2>2
    <3>2. F[k] \in SUBSET F[k + 1] /\ F[k] # F[k + 1]
      BY <3>1
    <3>3. IsFiniteSet(F[k + 1]) /\ k + 1 \in Nat
      BY <1>2
    <3>4. /\ Cardinality(F[k]) <= Cardinality(F[k + 1])
          /\ Cardinality(F[k]) # Cardinality(F[k + 1])
      BY <3>2, <3>3, FS_Subset
    <3>5. Cardinality(F[k]) \in Nat /\ Cardinality(F[k + 1]) \in Nat
      BY <1>2
    <3> QED BY <3>1, <3>4, <3>5
  <2> HIDE DEF S
  <2> QED BY <2>1, <2>2, Induction
<1>4. Cardinality(N) + 1 \in Nat /\ Cardinality(N) + 1 <= Cardinality(F[Cardinality(N) + 1])
  BY <1>1, <1>3
<1> QED BY <1>1, <1>2, <1>4

\* After as many rounds as there are nodes another one changes nothing: each
\* round settles one more node, the one that is reached next, for ever.
LEMMA RoundsStandStill ==
    ASSUME NEW plan \in ContactPlan, NEW source \in Node, NEW size \in Nat,
           NEW ready \in Time, NEW T, Converges(plan, source, size, ready, T)
    PROVE T[Cardinality(Node) + 1] = T[Cardinality(Node)]
<1> DEFINE Settled(k) == {v \in Node : \A j \in Nat : \A p \in T[j] :
                              k <= j /\ p.node = v => p \in T[k]}
           F == [k \in Nat |-> Settled(k)]
<1>1. /\ \A k \in Nat : T[k] \in SUBSET TableEntry
      /\ \A k \in Nat : \A p \in T[k] : ready <= p.arrival
      /\ \A k \in Nat : \A p, q \in T[k] : p.node = q.node => p = q
  BY LabelsImprove DEF Labelled
<1>2. ASSUME NEW j \in Nat, NEW k \in Nat, j <= k, NEW p \in T[j]
      PROVE \E q \in T[k] : q.node = p.node /\ q.arrival <= p.arrival
  <2>1. j \in 0 .. k
    BY <1>2
  <2> QED BY <2>1, LabelsImprove
<1>3. ASSUME NEW j \in Nat, NEW k \in Nat, j <= k, NEW p \in T[j], NEW q \in T[k],
             p.node = q.node
      PROVE q.arrival <= p.arrival
  <2>1. PICK r \in T[k] : r.node = p.node /\ r.arrival <= p.arrival
    BY <1>2, <1>3
  <2>2. r = q
    BY <1>1, <1>3, <2>1
  <2> QED BY <2>1, <2>2
<1>4. ASSUME NEW k \in Nat PROVE F[k] \subseteq F[k + 1]
  <2> SUFFICES ASSUME NEW v \in F[k], NEW j \in Nat, NEW p \in T[j], k + 1 <= j, p.node = v
               PROVE p \in T[k + 1]
    BY DEF TableEntry
  <2>1. p \in T[k] /\ k + 1 \in Nat /\ k <= k + 1
    OBVIOUS
  <2>2. PICK q \in T[k + 1] : q.node = v /\ q.arrival <= p.arrival
    BY <1>2, <2>1
  <2>3. q \in T[k]
    BY <2>1, <2>2
  <2>4. p = q
    BY <1>1, <2>1, <2>2, <2>3
  <2> QED BY <2>2, <2>4
<1>5. PICK k \in 0 .. Cardinality(Node) : F[k + 1] = F[k]
  <2>1. F \in [Nat -> SUBSET Node]
    OBVIOUS
  <2> HIDE DEF F
  <2> QED BY <1>4, <2>1, Saturates, NodesAssumption
<1>6. k \in Nat /\ Cardinality(Node) \in Nat
  BY FS_CardinalityType, NodesAssumption
<1>7. ASSUME NEW j \in Nat, k <= j PROVE T[j] \subseteq T[k]
  <2> DEFINE Late(i) == {p \in T[i] : p \notin T[k]}
             A == {p.arrival : p \in UNION {Late(i) : i \in {h \in Nat : k <= h}}}
  <2> SUFFICES ASSUME A # {} PROVE FALSE
    BY <1>7
  <2>1. PICK a \in A : \A b \in A : a <= b
    <3>1. ready \in Int /\ A \in SUBSET Int /\ \A b \in A : ready <= b
      BY <1>1 DEF TableEntry, Time
    <3> HIDE DEF A
    <3> QED BY <3>1, LeastInteger
  <2>2. ASSUME NEW i \in Nat, k <= i, NEW p \in Late(i)
        PROVE a <= p.arrival
    BY <2>1, <2>2
  <2> DEFINE I == {i \in Nat : k <= i /\ \E p \in Late(i) : p.arrival = a}
  <2>3. PICK i \in I : \A h \in I : i <= h
    <3>1. I \in SUBSET Int /\ I # {} /\ \A h \in I : 0 <= h
      OBVIOUS
    <3> HIDE DEF I
    <3> QED BY <3>1, 0 \in Int, LeastInteger
  <2>4. PICK p \in Late(i) : p.arrival = a
    BY <2>3
  <2>5. i \in Nat /\ k < i /\ i - 1 \in Nat /\ k <= i - 1
    <3>1. i # k
      BY <2>4
    <3> QED BY <1>6, <2>3, <3>1
  <2>6. p \notin T[i - 1]
    <3> SUFFICES ASSUME p \in T[i - 1] PROVE FALSE
      OBVIOUS
    <3>1. i - 1 \in I
      BY <2>4, <2>5
    <3> QED BY <2>3, <2>5, <3>1
  <2>7. PICK o \in T[i - 1] : p \in Onward(plan, size, o)
    <3>1. p \in T[(i - 1) + 1]
      BY <2>4, <2>5
    <3> QED BY <2>5, <2>6, <3>1, LabelsByContact
  <2>8. o \in TableEntry /\ p \in TableEntry /\ o.arrival <= p.arrival
    <3>1. o \in TableEntry
      BY <1>1, <2>5
    <3> QED BY <2>7, <3>1, OnwardIsEntry
  <2>9. o \in T[k]
    <3> SUFFICES ASSUME o \notin T[k] PROVE FALSE
      OBVIOUS
    <3>1. o \in Late(i - 1)
      OBVIOUS
    <3>2. a <= o.arrival
      BY <2>2, <2>5, <3>1
    <3>3. o.arrival = a
      BY <2>4, <2>8, <3>2 DEF TableEntry, Time
    <3>4. i - 1 \in I
      BY <2>5, <3>1, <3>3
    <3> QED BY <2>3, <2>5, <3>4
  <2>10. p \in T[k + 1]
    <3>1. PICK q \in T[k + 1] : q.node = p.node /\ q.arrival <= p.arrival
      <4>1. T[k] \in SUBSET TableEntry /\ \A r \in T[k] : ready <= r.arrival
        BY <1>1, <1>6
      <4>2. \E q \in AfterRound(plan, size, T[k]) : q.node = p.node /\ q.arrival <= p.arrival
        BY <4>1, <2>7, <2>9, AfterRoundFacts
      <4> QED BY <1>6, <4>2 DEF Converges
    <3>2. k + 1 \in Nat /\ k + 1 <= i /\ p \in T[i]
      BY <1>6, <2>4, <2>5
    <3>3. p.arrival <= q.arrival
      BY <1>3, <2>5, <3>1, <3>2
    <3>4. q \in TableEntry
      BY <1>1, <3>1, <3>2
    <3>5. p = q
      BY <2>8, <3>1, <3>3, <3>4 DEF TableEntry, Time
    <3> QED BY <3>1, <3>5
  <2>11. p.node \in F[k + 1]
    <3> SUFFICES ASSUME NEW h \in Nat, NEW q \in T[h], k + 1 <= h, q.node = p.node
                 PROVE q \in T[k + 1]
      BY <1>6, <2>8 DEF TableEntry
    <3>1. q.arrival <= p.arrival /\ q \in TableEntry
      BY <1>1, <1>3, <1>6, <2>10
    <3>2. CASE q \in T[k]
      <4>1. p.arrival <= q.arrival
        BY <1>3, <1>6, <2>10, <3>2
      <4>2. p = q
        BY <2>8, <3>1, <4>1 DEF TableEntry, Time
      <4> QED BY <2>10, <4>2
    <3>3. CASE q \notin T[k]
      <4>1. k <= h /\ q \in Late(h)
        BY <1>6, <3>3
      <4>2. a <= q.arrival
        BY <2>2, <4>1
      <4>3. p = q
        BY <2>4, <2>8, <3>1, <4>2 DEF TableEntry, Time
      <4> QED BY <2>10, <4>3
    <3> QED BY <3>2, <3>3
  <2>12. p \in T[k]
    <3>1. p.node \in F[k]
      <4> HIDE DEF F
      <4> QED BY <1>5, <2>11
    <3>2. k + 1 \in Nat /\ k <= k + 1
      BY <1>6
    <3> QED BY <1>6, <2>10, <3>1, <3>2
  <2> QED BY <2>4, <2>12
<1>8. ASSUME NEW j \in Nat, k <= j PROVE T[j] = T[k]
  <2>1. ASSUME NEW p \in T[k] PROVE p \in T[j]
    <3>1. PICK q \in T[j] : q.node = p.node /\ q.arrival <= p.arrival
      BY <1>2, <1>6, <1>8
    <3>2. q \in T[k]
      BY <1>7, <1>8, <3>1
    <3>3. p = q
      BY <1>1, <1>6, <3>1, <3>2
    <3> QED BY <3>1, <3>3
  <2> QED BY <1>7, <1>8, <2>1
<1> HIDE DEF F
<1>9. /\ Cardinality(Node) + 1 \in Nat
      /\ k <= Cardinality(Node) /\ k <= Cardinality(Node) + 1
  BY <1>6
<1> QED BY <1>6, <1>8, <1>9

-----------------------------------------------------------------------------
(***************************************************************************)
(* What the table is                                                       *)
(***************************************************************************)
\* A contact taken at a label does not arrive before the label of its far node.
Closed(plan, size, table) ==
    \A p \in table : \A c \in Departing(plan, size, p) :
        \E q \in table : q.node = c.to /\ q.arrival <= ArrivalTime(c, p.arrival, size)

\* The table labels the source with the ready time, and is closed.
LEMMA TableIsClosed ==
    ASSUME NEW plan \in ContactPlan, NEW source \in Node, NEW size \in Nat,
           NEW ready \in Time
    PROVE /\ Labelled(Table(plan, source, size, ready), ready)
          /\ [node |-> source, arrival |-> ready] \in Table(plan, source, size, ready)
          /\ Closed(plan, size, Table(plan, source, size, ready))
<1> DEFINE N == Cardinality(Node)
           table == Table(plan, source, size, ready)
           start == [node |-> source, arrival |-> ready]
<1>1. PICK T : Converges(plan, source, size, ready, T) /\ table = T[N]
  BY TableOfRounds
<1>2. N \in Nat
  BY FS_CardinalityType, NodesAssumption
<1>3. T[N + 1] = T[N] /\ T[N + 1] = AfterRound(plan, size, T[N])
  BY <1>1, <1>2, RoundsStandStill DEF Converges
<1>4. Labelled(table, ready)
  BY <1>1, <1>2, LabelsImprove
<1>5. start \in table
  <2>1. start \in T[0] /\ 0 \in 0 .. N
    BY <1>1, <1>2 DEF Converges
  <2>2. PICK q \in table : q.node = start.node /\ q.arrival <= start.arrival
    BY <1>1, <1>2, <2>1, LabelsImprove
  <2>3. q \in TableEntry /\ ready <= q.arrival
    BY <1>4, <2>2 DEF Labelled
  <2>4. q = start
    BY <2>2, <2>3 DEF TableEntry, Time
  <2> QED BY <2>2, <2>4
<1>6. Closed(plan, size, table)
  <2> SUFFICES ASSUME NEW p \in table, NEW c \in Departing(plan, size, p)
               PROVE \E q \in table : /\ q.node = c.to
                                      /\ q.arrival <= ArrivalTime(c, p.arrival, size)
    BY DEF Closed
  <2> DEFINE o == [node |-> c.to, arrival |-> ArrivalTime(c, p.arrival, size)]
  <2>1. o \in Onward(plan, size, p)
    BY DEF Onward
  <2>2. table \in SUBSET TableEntry /\ \A q \in table : ready <= q.arrival
    BY <1>4 DEF Labelled
  <2>3. \E q \in AfterRound(plan, size, table) : q.node = o.node /\ q.arrival <= o.arrival
    <3> HIDE DEF o, table
    <3> QED BY <2>1, <2>2, AfterRoundFacts
  <2> QED BY <1>1, <1>3, <2>3
<1> QED BY <1>4, <1>5, <1>6

\* It is the least such table: any other that labels the source in time and is
\* closed has every node that it has, no later.
LEMMA TableIsLeast ==
    ASSUME NEW plan \in ContactPlan, NEW source \in Node, NEW size \in Nat,
           NEW ready \in Time, NEW B \in SUBSET TableEntry,
           \E q \in B : q.node = source /\ q.arrival <= ready,
           Closed(plan, size, B)
    PROVE \A p \in Table(plan, source, size, ready) :
             \E q \in B : q.node = p.node /\ q.arrival <= p.arrival
<1>1. PICK T : /\ Converges(plan, source, size, ready, T)
               /\ Table(plan, source, size, ready) = T[Cardinality(Node)]
  BY TableOfRounds
<1>2. Cardinality(Node) \in Nat
  BY FS_CardinalityType, NodesAssumption
<1> DEFINE S == {k \in Nat : \A p \in T[k] :
                     \E q \in B : q.node = p.node /\ q.arrival <= p.arrival}
<1>3. \A k \in Nat : k \in S
  <2>1. 0 \in S
    BY <1>1 DEF Converges
  <2>2. ASSUME NEW k \in Nat, k \in S PROVE k + 1 \in S
    <3> SUFFICES ASSUME NEW p \in T[k + 1]
                 PROVE \E q \in B : q.node = p.node /\ q.arrival <= p.arrival
      OBVIOUS
    <3>1. T[k] \in SUBSET TableEntry /\ \A r \in T[k] : ready <= r.arrival
      BY <1>1, LabelsImprove DEF Labelled
    <3>2. p \in T[k] \/ \E o \in T[k] : p \in Onward(plan, size, o)
      BY <1>1, LabelsByContact
    <3>3. CASE p \in T[k]
      BY <2>2, <3>3
    <3>4. ASSUME NEW o \in T[k], p \in Onward(plan, size, o)
          PROVE \E q \in B : q.node = p.node /\ q.arrival <= p.arrival
      <4>1. PICK c \in Departing(plan, size, o) :
                   p = [node |-> c.to, arrival |-> ArrivalTime(c, o.arrival, size)]
        BY <3>4 DEF Onward
      <4>2. PICK b \in B : b.node = o.node /\ b.arrival <= o.arrival
        BY <2>2
      <4>3. /\ c \in Contact /\ c \in ContactsOf(plan) /\ c.from = o.node
            /\ Carries(c, o.arrival, size) /\ o.arrival \in Time /\ b.arrival \in Time
        BY <3>1, ContactsAreContacts DEF Departing, TableEntry
      <4>4. /\ Carries(c, b.arrival, size)
            /\ ArrivalTime(c, b.arrival, size) <= ArrivalTime(c, o.arrival, size)
        BY <4>2, <4>3, FirstInFirstOut
      <4>5. c \in Departing(plan, size, b)
        BY <4>2, <4>3, <4>4 DEF Departing
      <4>6. PICK q \in B : q.node = c.to /\ q.arrival <= ArrivalTime(c, b.arrival, size)
        BY <4>5 DEF Closed
      <4>7. /\ q.arrival \in Int /\ ArrivalTime(c, b.arrival, size) \in Int
            /\ ArrivalTime(c, o.arrival, size) \in Int
        BY <4>3, <4>6, ArrivalNotEarly DEF TableEntry, Time
      <4>8. q.arrival <= p.arrival
        BY <4>1, <4>4, <4>6, <4>7
      <4> QED BY <4>1, <4>6, <4>8
    <3> QED BY <3>2, <3>3, <3>4
  <2> HIDE DEF S
  <2> QED BY <2>1, <2>2, Induction
<1> QED BY <1>1, <1>2, <1>3

\* Every label but that of the source comes by a contact from another label,
\* and these steps lead back to the source: to labels that are earlier or were
\* found in an earlier round.
LEMMA TableIsReached ==
    ASSUME NEW plan \in ContactPlan, NEW source \in Node, NEW size \in Nat,
           NEW ready \in Time, NEW table, table = Table(plan, source, size, ready)
    PROVE \E rank \in [table -> Nat] : \A p \in table : p.node # source =>
             \E q \in table : \E c \in Departing(plan, size, q) :
                /\ c.to = p.node
                /\ ArrivalTime(c, q.arrival, size) = p.arrival
                /\ q.arrival <= p.arrival
                /\ q.arrival = p.arrival => rank[q] < rank[p]
<1> DEFINE N == Cardinality(Node)
<1>1. PICK T : Converges(plan, source, size, ready, T) /\ table = T[N]
  BY TableOfRounds
<1>2. N \in Nat
  BY FS_CardinalityType, NodesAssumption
<1>3. /\ \A k \in Nat : T[k] \in SUBSET TableEntry
      /\ \A k \in Nat : \A p \in T[k] : ready <= p.arrival
      /\ \A p, q \in table : p.node = q.node => p = q
  BY <1>1, <1>2, LabelsImprove DEF Labelled
<1>4. Closed(plan, size, table)
  BY TableIsClosed
<1> DEFINE First(p, k) == p \in T[k] /\ \A j \in Nat : p \in T[j] => k <= j
           rank == [p \in table |-> CHOOSE k \in Nat : First(p, k)]
<1> HIDE DEF N
<1>5. ASSUME NEW p \in table PROVE rank[p] \in 0 .. N /\ First(p, rank[p])
  <2> DEFINE K == {j \in Nat : p \in T[j]}
  <2>1. PICK k \in K : \A j \in K : k <= j
    <3>1. N \in K /\ K \in SUBSET Int /\ \A j \in K : 0 <= j
      BY <1>1, <1>2
    <3> HIDE DEF K
    <3> QED BY <3>1, 0 \in Int, LeastInteger
  <2>2. k \in Nat /\ First(p, k)
    BY <2>1
  <2> HIDE DEF First
  <2>3. rank[p] \in Nat /\ First(p, rank[p])
    BY <2>2
  <2>4. rank[p] <= N
    BY <1>1, <1>2, <2>3 DEF First
  <2> QED BY <1>2, <2>3, <2>4
<1>6. rank \in [table -> Nat]
  <2> HIDE DEF First
  <2>1. \A p \in table : rank[p] \in Nat
    BY <1>2, <1>5
  <2> QED BY <2>1
<1> HIDE DEF rank
<1>7. ASSUME NEW p \in table, p.node # source
      PROVE \E q \in table : \E c \in Departing(plan, size, q) :
                /\ c.to = p.node
                /\ ArrivalTime(c, q.arrival, size) = p.arrival
                /\ q.arrival <= p.arrival
                /\ q.arrival = p.arrival => rank[q] < rank[p]
  <2> DEFINE k == rank[p]
  <2>1. k \in Nat /\ k <= N /\ k # 0 /\ k - 1 \in Nat
    <3>1. k \in 0 .. N /\ p \in T[k]
      BY <1>5
    <3>2. k # 0
      BY <1>1, <1>7, <3>1 DEF Converges
    <3> HIDE DEF k
    <3> QED BY <1>2, <3>1, <3>2
  <2>2. p \in T[k] /\ p \notin T[k - 1]
    <3>1. First(p, k) /\ ~(k <= k - 1)
      BY <1>5, <2>1
    <3> QED BY <2>1, <3>1
  <2> HIDE DEF k
  <2>3. PICK o \in T[k - 1] : p \in Onward(plan, size, o)
    <3>1. p \in T[(k - 1) + 1]
      BY <2>1, <2>2
    <3> QED BY <1>1, <2>1, <2>2, <3>1, LabelsByContact
  <2>4. PICK c \in Departing(plan, size, o) :
               p = [node |-> c.to, arrival |-> ArrivalTime(c, o.arrival, size)]
    BY <2>3 DEF Onward
  <2>5. PICK q \in table : q.node = o.node /\ q.arrival <= o.arrival
    <3>1. k - 1 \in 0 .. N
      BY <1>2, <2>1
    <3> QED BY <1>1, <1>2, <2>3, <3>1, LabelsImprove
  <2>6. /\ c \in Contact /\ c \in ContactsOf(plan) /\ c.from = o.node
        /\ Carries(c, o.arrival, size)
        /\ o \in TableEntry /\ q \in TableEntry /\ p \in TableEntry
        /\ o.arrival \in Time /\ q.arrival \in Time /\ p.arrival \in Time
    <3>1. o \in TableEntry /\ q \in TableEntry /\ p \in TableEntry
      BY <1>1, <1>2, <1>3, <2>1
    <3> QED BY <3>1, ContactsAreContacts DEF Departing, TableEntry
  <2>7. /\ Carries(c, q.arrival, size)
        /\ ArrivalTime(c, q.arrival, size) <= p.arrival
    BY <2>4, <2>5, <2>6, FirstInFirstOut
  <2>8. c \in Departing(plan, size, q)
    BY <2>5, <2>6, <2>7 DEF Departing
  <2>9. ArrivalTime(c, q.arrival, size) \in Time /\ q.arrival <= ArrivalTime(c, q.arrival, size)
    BY <2>6, ArrivalNotEarly
  <2>10. PICK r \in table : r.node = c.to /\ r.arrival <= ArrivalTime(c, q.arrival, size)
    BY <1>4, <2>8 DEF Closed
  <2>11. r = p
    BY <1>3, <2>4, <2>10
  <2>12. ArrivalTime(c, q.arrival, size) = p.arrival
    BY <2>6, <2>7, <2>9, <2>10, <2>11 DEF Time
  <2>13. ASSUME q.arrival = p.arrival PROVE rank[q] < k
    <3>1. o.arrival <= p.arrival
      BY <2>4, <2>6, ArrivalNotEarly
    <3>2. o = q
      BY <2>5, <2>6, <2>13, <3>1 DEF TableEntry, Time
    <3>3. First(q, rank[q]) /\ rank[q] \in Nat
      BY <1>5, <1>6
    <3>4. rank[q] <= k - 1
      BY <2>1, <3>2, <3>3
    <3> QED BY <2>1, <3>3, <3>4
  <2> QED BY <2>4, <2>8, <2>9, <2>12, <2>13 DEF k
<1> QED BY <1>6, <1>7

-----------------------------------------------------------------------------
(***************************************************************************)
(* What a shortest-path tree is                                            *)
(***************************************************************************)
LEMMA LabelOfEntry ==
    ASSUME NEW table, NEW ready, Labelled(table, ready), NEW p \in table
    PROVE Reaches(table, p.node) /\ Label(table, p.node) = p.arrival
BY DEF Labelled, Reaches, Label

LEMMA EntryOfLabel ==
    ASSUME NEW table, NEW v, Reaches(table, v)
    PROVE \E p \in table : p.node = v /\ p.arrival = Label(table, v)
BY DEF Reaches, Label

\* A contact of the tree leads from one entry of the table to another.
LEMMA TightFacts ==
    ASSUME NEW plan \in ContactPlan, NEW source \in Node, NEW size \in Nat,
           NEW ready \in Time, NEW table, table = Table(plan, source, size, ready),
           NEW i \in DOMAIN plan, Tight(plan, source, size, table, i)
    PROVE \E p, q \in table :
             /\ p.node = plan[i].from /\ q.node = plan[i].to
             /\ plan[i] \in Departing(plan, size, p)
             /\ ArrivalTime(plan[i], p.arrival, size) = q.arrival
<1>1. PICK p \in table : p.node = plan[i].from /\ p.arrival = Label(table, plan[i].from)
  BY EntryOfLabel DEF Tight
<1>2. plan[i] \in Departing(plan, size, p)
  BY <1>1 DEF Tight, Departing, ContactsOf
<1>3. PICK q \in table : q.node = plan[i].to
  <2>1. Closed(plan, size, table)
    BY TableIsClosed
  <2> QED BY <1>2, <2>1 DEF Closed
<1>4. q.arrival = Label(table, plan[i].to)
  BY <1>3, TableIsClosed, LabelOfEntry
<1> QED BY <1>1, <1>2, <1>3, <1>4 DEF Tight

\* Upstream is the least set with the destination that is closed under going
\* back along the tree.
LEMMA UpstreamIsLeast ==
    ASSUME NEW plan \in ContactPlan, NEW tree \in SUBSET DOMAIN plan, NEW dest \in Node
    PROVE \E R \in SUBSET Node :
             /\ Upstream(plan, tree, dest) = {R}
             /\ dest \in R
             /\ \A i \in tree : plan[i].to \in R => plan[i].from \in R
             /\ \A B : /\ dest \in B
                       /\ \A i \in tree : plan[i].to \in B => plan[i].from \in B
                       => R \subseteq B
<1> DEFINE X == SUBSET Node
           N == Cardinality(Node)
           back(near) == near \cup {plan[i].from : i \in {j \in tree : plan[j].to \in near}}
           g == [near \in X |-> back(near)]
           G(r) == r = [k \in Nat |->
                     IF k = 0 THEN {{dest}}
                     ELSE {near \cup {plan[i].from : i \in {j \in tree : plan[j].to \in near}} :
                             near \in r[k - 1]}]
<1>1. ASSUME NEW near \in X PROVE back(near) \in X
  BY ContactsAreContacts DEF Contact
<1>2. PICK F \in [Nat -> X] : F[0] = {dest} /\ \A k \in Nat : F[k + 1] = g[F[k]]
  <2> DEFINE start == {dest}
  <2>1. start \in X
    OBVIOUS
  <2>2. g \in [X -> X]
    BY <1>1
  <2>3. \E F : Iterates(F, X, start, g)
    <3> HIDE DEF X, g, start
    <3> QED BY <2>1, <2>2, Iteration
  <2> HIDE DEF X, g
  <2> QED BY <2>3 DEF Iterates
<1>3. ASSUME NEW k \in Nat PROVE F[k + 1] = back(F[k]) /\ F[k] \subseteq F[k + 1]
  BY <1>2
<1> DEFINE r == [k \in Nat |-> {F[k]}]
<1>4. G(r)
  <2>1. ASSUME NEW k \in Nat, k # 0 PROVE {F[k]} = {back(near) : near \in r[k - 1]}
    <3>1. k - 1 \in Nat /\ (k - 1) + 1 = k
      BY <2>1
    <3>2. F[k] = back(F[k - 1]) /\ r[k - 1] = {F[k - 1]}
      BY <1>3, <3>1
    <3> HIDE DEF back, r
    <3> QED BY <3>2
  <2>2. ASSUME NEW k \in Nat
        PROVE r[k] = IF k = 0 THEN {{dest}} ELSE {back(near) : near \in r[k - 1]}
    BY <1>2, <2>1
  <2> QED BY <2>2
<1>5. Before(plan, tree, dest) = CHOOSE s : G(s)
  BY DEF Before
<1>6. G(Before(plan, tree, dest))
  <2> HIDE DEF G
  <2> QED BY <1>4, <1>5
<1> DEFINE s == Before(plan, tree, dest)
           S == {k \in Nat : s[k] = {F[k]}}
<1>7. \A k \in Nat : k \in S
  <2>1. 0 \in S
    BY <1>2, <1>6
  <2>2. ASSUME NEW k \in Nat, k \in S PROVE k + 1 \in S
    <3>1. s[k + 1] = {back(near) : near \in s[k]}
      <4>1. k + 1 \in Nat /\ k + 1 # 0 /\ (k + 1) - 1 = k
        OBVIOUS
      <4> HIDE DEF s
      <4> QED BY <1>6, <4>1 DEF s
    <3>2. s[k] = {F[k]} /\ F[k + 1] = back(F[k])
      BY <1>3, <2>2
    <3> HIDE DEF back, s
    <3>3. s[k + 1] = {F[k + 1]}
      BY <3>1, <3>2
    <3> QED BY <3>3
  <2> HIDE DEF S
  <2> QED BY <2>1, <2>2, Induction
<1>8. N \in Nat
  BY FS_CardinalityType, NodesAssumption
<1>9. PICK k \in 0 .. N : F[k + 1] = F[k]
  <2> HIDE DEF g
  <2> QED BY <1>3, NodesAssumption, Saturates
<1>10. \A j \in Nat : F[k + j] = F[k]
  <2> DEFINE J == {j \in Nat : F[k + j] = F[k]}
  <2>1. 0 \in J
    BY <1>8
  <2>2. ASSUME NEW j \in Nat, j \in J PROVE j + 1 \in J
    <3>1. k + j \in Nat /\ (k + j) + 1 = k + (j + 1) /\ k \in Nat
      BY <1>8
    <3>2. F[k + j] = F[k]
      BY <2>2
    <3>3. F[(k + j) + 1] = back(F[k + j]) /\ F[k + 1] = back(F[k])
      BY <1>3, <3>1
    <3> HIDE DEF back, g
    <3>4. F[k + (j + 1)] = F[k]
      BY <1>9, <3>1, <3>2, <3>3
    <3> QED BY <3>4
  <2> HIDE DEF J
  <2>3. \A j \in Nat : j \in J
    BY <2>1, <2>2, Induction
  <2> QED BY <2>3 DEF J
<1>11. F[N] = F[k] /\ F[N + 1] = F[k]
  <2>1. /\ N - k \in Nat /\ k + (N - k) = N
        /\ (N + 1) - k \in Nat /\ k + ((N + 1) - k) = N + 1
    BY <1>8
  <2> QED BY <1>10, <2>1
<1>12. Upstream(plan, tree, dest) = {F[N]} /\ F[N] \in SUBSET Node
  BY <1>2, <1>7, <1>8 DEF Upstream
<1>13. ASSUME NEW i \in tree, plan[i].to \in F[N] PROVE plan[i].from \in F[N]
  <2>1. F[N] = back(F[N])
    BY <1>3, <1>8, <1>11
  <2> QED BY <1>13, <2>1
<1>14. ASSUME NEW B, dest \in B,
              \A i \in tree : plan[i].to \in B => plan[i].from \in B,
              NEW j \in Nat
       PROVE F[j] \subseteq B
  <2> DEFINE J == {h \in Nat : F[h] \subseteq B}
  <2>1. 0 \in J
    BY <1>2, <1>14
  <2>2. ASSUME NEW h \in Nat, h \in J PROVE h + 1 \in J
    <3>1. F[h + 1] = back(F[h]) /\ F[h] \subseteq B
      BY <1>3, <2>2
    <3>2. F[h + 1] \subseteq B
      BY <1>14, <3>1
    <3> QED BY <3>2
  <2> HIDE DEF J
  <2>3. j \in J
    BY <2>1, <2>2, Induction
  <2> QED BY <2>3 DEF J
<1>15. dest \in F[N]
  <2> DEFINE J == {h \in Nat : dest \in F[h]}
  <2>1. 0 \in J
    BY <1>2
  <2>2. ASSUME NEW h \in Nat, h \in J PROVE h + 1 \in J
    BY <1>3, <2>2
  <2> HIDE DEF J
  <2>3. N \in J
    BY <1>8, <2>1, <2>2, Induction
  <2> QED BY <2>3 DEF J
<1> HIDE DEF N
<1> QED BY <1>8, <1>12, <1>13, <1>14, <1>15

\* Every node reached but the source has a contact of the tree leading to it,
\* from the source or from a node that the rank puts before it.
LEMMA TreeLeadsBack ==
    ASSUME NEW plan \in ContactPlan, NEW source \in Node, NEW size \in Nat,
           NEW ready \in Time, NEW table, table = Table(plan, source, size, ready),
           NEW rank \in [table -> Nat],
           NEW p \in table, p.node # source,
           \E q \in table : \E c \in Departing(plan, size, q) :
                /\ c.to = p.node
                /\ ArrivalTime(c, q.arrival, size) = p.arrival
                /\ q.arrival <= p.arrival
                /\ q.arrival = p.arrival => rank[q] < rank[p]
    PROVE \E i \in TreeContacts(plan, source, size, table) :
             /\ plan[i].to = p.node
             /\ \/ plan[i].from = source
                \/ \E q \in table : /\ q.node = plan[i].from
                                    /\ q.arrival <= p.arrival
                                    /\ q.arrival = p.arrival => rank[q] < rank[p]
<1> DEFINE Rivals == {j \in DOMAIN plan : /\ Tight(plan, source, size, table, j)
                                          /\ plan[j].to = p.node}
<1>1. /\ Labelled(table, ready)
      /\ [node |-> source, arrival |-> ready] \in table
  BY TableIsClosed
<1>2. DOMAIN plan \subseteq Nat
  BY DEF ContactPlan
<1>3. PICK q \in table : \E c \in Departing(plan, size, q) :
          /\ c.to = p.node
          /\ ArrivalTime(c, q.arrival, size) = p.arrival
          /\ q.arrival <= p.arrival
          /\ q.arrival = p.arrival => rank[q] < rank[p]
  OBVIOUS
<1>4. PICK k \in Rivals : plan[k].from = q.node
  <2>1. PICK c \in Departing(plan, size, q) :
              c.to = p.node /\ ArrivalTime(c, q.arrival, size) = p.arrival
    BY <1>3
  <2>2. PICK k \in DOMAIN plan : c = plan[k]
    BY DEF Departing, ContactsOf
  <2>3. /\ Reaches(table, q.node) /\ Label(table, q.node) = q.arrival
        /\ Label(table, p.node) = p.arrival
    BY <1>1, LabelOfEntry
  <2>4. c.from = q.node /\ Carries(c, q.arrival, size)
    BY DEF Departing
  <2>5. Tight(plan, source, size, table, k)
    BY <2>1, <2>2, <2>3, <2>4 DEF Tight
  <2> QED BY <2>1, <2>2, <2>4, <2>5
<1>5. ASSUME NEW j \in Rivals
      PROVE \E r \in table : /\ r.node = plan[j].from /\ r.arrival = Label(table, plan[j].from)
                             /\ ready <= r.arrival
  <2>1. Reaches(table, plan[j].from)
    BY DEF Tight
  <2> QED BY <1>1, <2>1, EntryOfLabel DEF Labelled
\* Of the rivals from a node that none precedes, the first is in the tree.
<1>6. ASSUME NEW j \in Rivals,
             \A h \in Rivals : /\ Label(table, plan[j].from) <= Label(table, plan[h].from)
                               /\ plan[h].from = source => plan[j].from = source
      PROVE \E i \in TreeContacts(plan, source, size, table) :
               plan[i].to = p.node /\ plan[i].from = plan[j].from
  <2> DEFINE Same == {h \in Rivals : plan[h].from = plan[j].from}
  <2>1. PICK i \in Same : \A h \in Same : i <= h
    <3>1. Same \in SUBSET Int /\ Same # {} /\ \A h \in Same : 0 <= h
      BY <1>2
    <3> HIDE DEF Same
    <3> QED BY <3>1, 0 \in Int, LeastInteger
  <2>2. i \in TreeContacts(plan, source, size, table)
    <3>1. i \in DOMAIN plan /\ Tight(plan, source, size, table, i) /\ plan[i].to = p.node
      OBVIOUS
    <3>2. ASSUME NEW h \in DOMAIN plan, Tight(plan, source, size, table, h),
                 plan[h].to = plan[i].to
          PROVE /\ Label(table, plan[i].from) <= Label(table, plan[h].from)
                /\ plan[h].from = source => plan[i].from = source
                /\ plan[h].from = plan[i].from => i <= h
      <4>1. h \in Rivals /\ plan[i].from = plan[j].from
        BY <3>1, <3>2
      <4> QED BY <1>6, <2>1, <4>1
    <3> HIDE DEF Same, Rivals
    <3> QED BY <3>1, <3>2 DEF TreeContacts
  <2> QED BY <2>2
<1>7. CASE \E j \in Rivals : plan[j].from = source
  <2>1. PICK j \in Rivals : plan[j].from = source
    BY <1>7
  <2>2. Label(table, source) = ready
    BY <1>1, LabelOfEntry
  <2>3. \A h \in Rivals : Label(table, plan[j].from) <= Label(table, plan[h].from)
    BY <1>5, <2>1, <2>2
  <2> HIDE DEF Rivals
  <2> QED BY <1>6, <2>1, <2>3
<1>8. CASE \A j \in Rivals : plan[j].from # source
  <2> DEFINE A == {Label(table, plan[j].from) : j \in Rivals}
  <2>1. PICK a \in A : \A b \in A : a <= b
    <3>1. A \in SUBSET Int /\ A # {} /\ ready \in Int /\ \A b \in A : ready <= b
      BY <1>1, <1>4, <1>5 DEF Labelled, TableEntry, Time
    <3> HIDE DEF A
    <3> QED BY <3>1, LeastInteger
  <2>2. Label(table, q.node) = q.arrival
    BY <1>1, LabelOfEntry
  <2>3. q.arrival \in Int /\ p.arrival \in Int
    BY <1>1 DEF Labelled, TableEntry, Time
  <2>4. CASE a = q.arrival
    <3>1. \A h \in Rivals : /\ Label(table, plan[k].from) <= Label(table, plan[h].from)
                            /\ plan[h].from = source => plan[k].from = source
      BY <1>4, <1>8, <2>1, <2>2, <2>4
    <3>2. PICK i \in TreeContacts(plan, source, size, table) :
                 plan[i].to = p.node /\ plan[i].from = plan[k].from
      <4> HIDE DEF Rivals
      <4> QED BY <1>6, <3>1
    <3> QED BY <1>3, <1>4, <3>2
  <2>5. CASE a # q.arrival
    <3>1. PICK j \in Rivals : a = Label(table, plan[j].from)
      BY <2>1
    <3>2. \A h \in Rivals : /\ Label(table, plan[j].from) <= Label(table, plan[h].from)
                            /\ plan[h].from = source => plan[j].from = source
      BY <1>8, <2>1, <3>1
    <3>3. PICK i \in TreeContacts(plan, source, size, table) :
                 plan[i].to = p.node /\ plan[i].from = plan[j].from
      <4> HIDE DEF Rivals
      <4> QED BY <1>6, <3>2
    <3>4. PICK r \in table : r.node = plan[j].from /\ r.arrival = a
      BY <1>5, <3>1
    <3>5. q.arrival \in A
      BY <1>4, <2>2
    <3>6. a <= q.arrival /\ a \in Int
      <4>1. r.arrival \in Int
        BY <1>1, <3>4 DEF Labelled, TableEntry, Time
      <4> QED BY <2>1, <3>4, <3>5, <4>1
    <3>7. r.arrival <= p.arrival /\ r.arrival # p.arrival
      BY <1>3, <2>3, <2>5, <3>4, <3>6
    <3> QED BY <3>3, <3>4, <3>7
  <2> QED BY <2>4, <2>5
<1> QED BY <1>7, <1>8

\* What FirstHops is, in terms of the set of nodes upstream of the destination.
LEMMA FirstHopsFacts ==
    ASSUME NEW plan \in ContactPlan, NEW source \in Node, NEW dest \in Node,
           NEW size \in Nat, NEW ready \in Time,
           NEW tree, tree = TreeContacts(plan, source, size, Table(plan, source, size, ready)),
           NEW R, Upstream(plan, tree, dest) = {R}
    PROVE FirstHops(plan, source, dest, size, ready) =
            {plan[i] : i \in {j \in tree : plan[j].from = source /\ plan[j].to \in R}}
<1>1. FirstHops(plan, source, dest, size, ready) = FirstOnRoute(plan, tree, source, dest)
  BY DEF FirstHops
<1>2. FirstOnRoute(plan, tree, source, dest) =
        {plan[i] : i \in {j \in tree : plan[j].from = source /\ plan[j].to \in R}}
  BY DEF FirstOnRoute
<1> QED BY <1>1, <1>2

LEMMA TreeContactIsFirstHop ==
    ASSUME NEW plan \in ContactPlan, NEW source \in Node, NEW dest \in Node,
           NEW size \in Nat, NEW ready \in Time,
           NEW tree, tree = TreeContacts(plan, source, size, Table(plan, source, size, ready)),
           NEW R, Upstream(plan, tree, dest) = {R},
           NEW i \in tree, plan[i].from = source, plan[i].to \in R
    PROVE plan[i] \in FirstHops(plan, source, dest, size, ready)
<1>1. FirstHops(plan, source, dest, size, ready) =
        {plan[h] : h \in {j \in tree : plan[j].from = source /\ plan[j].to \in R}}
  BY FirstHopsFacts
<1> QED BY <1>1

\* A route may be left at any node: whoever takes its first contact, and asks
\* for a route again where that contact leads, when it arrives, gets to the
\* destination as early as the first route said.
THEOREM RoutesConsistent ==
    ASSUME NEW plan \in ContactPlan, NEW source \in Node, NEW dest \in Node,
           NEW size \in Nat, NEW ready \in Time,
           NEW c \in FirstHops(plan, source, dest, size, ready),
           NEW table, table = Table(plan, source, size, ready),
           NEW onward, onward = Table(plan, c.to, size, ArrivalTime(c, ready, size))
    PROVE /\ c \in Contact /\ c.from = source /\ Carries(c, ready, size)
          /\ Reaches(table, dest) /\ Reaches(onward, dest)
          /\ Label(onward, dest) = Label(table, dest)
<1> DEFINE tree == TreeContacts(plan, source, size, table)
<1>1. tree \in SUBSET DOMAIN plan
  BY DEF TreeContacts
<1> HIDE DEF tree
<1>2. PICK R \in SUBSET Node :
         /\ Upstream(plan, tree, dest) = {R}
         /\ dest \in R
         /\ \A i \in tree : plan[i].to \in R => plan[i].from \in R
         /\ \A B : /\ dest \in B
                   /\ \A i \in tree : plan[i].to \in B => plan[i].from \in B
                   => R \subseteq B
  BY <1>1, UpstreamIsLeast
<1>3. PICK k \in tree : plan[k].from = source /\ plan[k].to \in R /\ c = plan[k]
  <2>1. FirstHops(plan, source, dest, size, ready) =
          {plan[i] : i \in {j \in tree : plan[j].from = source /\ plan[j].to \in R}}
    BY <1>2, FirstHopsFacts DEF tree
  <2> QED BY <2>1
<1>4. /\ Labelled(table, ready) /\ Closed(plan, size, table)
      /\ [node |-> source, arrival |-> ready] \in table
  BY TableIsClosed
<1>5. ASSUME NEW i \in tree
      PROVE \E p, q \in table :
              /\ p.node = plan[i].from /\ q.node = plan[i].to
              /\ plan[i] \in Departing(plan, size, p)
              /\ ArrivalTime(plan[i], p.arrival, size) = q.arrival
  <2>1. i \in DOMAIN plan /\ Tight(plan, source, size, table, i)
    BY DEF tree, TreeContacts
  <2> QED BY <2>1, TightFacts
<1>6. /\ c \in Contact /\ c.from = source /\ Carries(c, ready, size) /\ c \in ContactsOf(plan)
      /\ [node |-> c.to, arrival |-> ArrivalTime(c, ready, size)] \in table
  <2>1. PICK p, q \in table :
              /\ p.node = plan[k].from /\ q.node = plan[k].to
              /\ plan[k] \in Departing(plan, size, p)
              /\ ArrivalTime(plan[k], p.arrival, size) = q.arrival
    BY <1>5
  <2>2. p.arrival = ready
    BY <1>3, <1>4, <2>1 DEF Labelled
  <2>3. q = [node |-> c.to, arrival |-> ArrivalTime(c, ready, size)]
    BY <1>3, <1>4, <2>1, <2>2 DEF Labelled, TableEntry
  <2>4. c \in Contact
    BY <1>1, <1>3, ContactsAreContacts
  <2> QED BY <1>3, <2>1, <2>2, <2>3, <2>4 DEF Departing
<1> DEFINE later == ArrivalTime(c, ready, size)
<1>7. c.to \in Node /\ later \in Time
  BY <1>6, ArrivalNotEarly DEF Contact
<1>8. /\ Labelled(onward, later) /\ Closed(plan, size, onward)
      /\ [node |-> c.to, arrival |-> later] \in onward
  BY <1>7, TableIsClosed
\* Nowhere does the second route arrive before the first table says.
<1>9. \A p \in onward : \E q \in table : q.node = p.node /\ q.arrival <= p.arrival
  <2>1. \E q \in table : q.node = c.to /\ q.arrival <= later
    <3>1. later <= later
      BY <1>7 DEF Time
    <3> QED BY <1>6, <3>1
  <2> QED BY <1>4, <1>7, <2>1, TableIsLeast DEF Labelled
\* And along the tree, from there to the destination, no later.
<1> DEFINE InTime(v) == \E p \in table : \E q \in onward :
                           p.node = v /\ q.node = v /\ q.arrival <= p.arrival
           B == {v \in Node : InTime(v) => InTime(dest)}
<1>10. R \subseteq B
  <2>1. dest \in B
    OBVIOUS
  <2>2. ASSUME NEW i \in tree, plan[i].to \in B PROVE plan[i].from \in B
    <3>1. PICK p, r \in table :
              /\ p.node = plan[i].from /\ r.node = plan[i].to
              /\ plan[i] \in Departing(plan, size, p)
              /\ ArrivalTime(plan[i], p.arrival, size) = r.arrival
      BY <1>5
    <3>2. plan[i] \in Contact
      BY <1>1, ContactsAreContacts
    <3> SUFFICES ASSUME InTime(plan[i].from) PROVE InTime(dest)
      BY <3>2 DEF Contact
    <3>3. PICK q \in onward : q.node = plan[i].from /\ q.arrival <= p.arrival
      BY <1>4, <3>1 DEF Labelled
    <3>4. p.arrival \in Time /\ q.arrival \in Time /\ r.arrival \in Time
      BY <1>4, <1>8 DEF Labelled, TableEntry
    <3>5. Carries(plan[i], p.arrival, size) /\ plan[i] \in ContactsOf(plan)
      BY <3>1 DEF Departing
    <3>6. /\ Carries(plan[i], q.arrival, size)
          /\ ArrivalTime(plan[i], q.arrival, size) <= ArrivalTime(plan[i], p.arrival, size)
      BY <3>2, <3>3, <3>4, <3>5, FirstInFirstOut
    <3>7. plan[i] \in Departing(plan, size, q)
      BY <3>3, <3>5, <3>6 DEF Departing
    <3>8. PICK s \in onward : /\ s.node = plan[i].to
                              /\ s.arrival <= ArrivalTime(plan[i], q.arrival, size)
      BY <1>8, <3>7 DEF Closed
    <3>9. s.arrival <= r.arrival
      <4>1. /\ s.arrival \in Int /\ r.arrival \in Int
            /\ ArrivalTime(plan[i], q.arrival, size) \in Int
        BY <1>8, <3>2, <3>4, ArrivalNotEarly DEF Labelled, TableEntry, Time
      <4> QED BY <3>1, <3>6, <3>8, <4>1
    <3>10. InTime(plan[i].to)
      BY <3>1, <3>8, <3>9
    <3> HIDE DEF InTime
    <3> QED BY <2>2, <3>10
  <2> HIDE DEF B
  <2> QED BY <1>2, <2>1, <2>2
<1>11. InTime(c.to)
  <2>1. later <= later
    BY <1>7 DEF Time
  <2> QED BY <1>6, <1>8, <2>1
<1>12. InTime(dest)
  <2> HIDE DEF InTime
  <2>1. c.to \in B
    BY <1>3, <1>10
  <2> QED BY <1>11, <2>1
<1>13. PICK p \in table, q \in onward : p.node = dest /\ q.node = dest /\ q.arrival <= p.arrival
  BY <1>12
<1>14. p.arrival <= q.arrival
  BY <1>4, <1>9, <1>13 DEF Labelled
<1>15. p.arrival = q.arrival
  BY <1>4, <1>8, <1>13, <1>14 DEF Labelled, TableEntry, Time
<1>16. /\ Reaches(table, dest) /\ Label(table, dest) = p.arrival
       /\ Reaches(onward, dest) /\ Label(onward, dest) = q.arrival
  BY <1>4, <1>8, <1>13, LabelOfEntry
<1> QED BY <1>6, <1>15, <1>16

\* A node that can be reached has a first hop on the way.
THEOREM RouteExists ==
    ASSUME NEW plan \in ContactPlan, NEW source \in Node, NEW dest \in Node,
           NEW size \in Nat, NEW ready \in Time, dest # source,
           Reaches(Table(plan, source, size, ready), dest)
    PROVE FirstHops(plan, source, dest, size, ready) # {}
<1> DEFINE table == Table(plan, source, size, ready)
           tree == TreeContacts(plan, source, size, table)
<1>1. tree \in SUBSET DOMAIN plan
  BY DEF TreeContacts
<1> HIDE DEF tree, table
<1>2. PICK R \in SUBSET Node :
         /\ Upstream(plan, tree, dest) = {R}
         /\ dest \in R
         /\ \A i \in tree : plan[i].to \in R => plan[i].from \in R
         /\ \A B : /\ dest \in B
                   /\ \A i \in tree : plan[i].to \in B => plan[i].from \in B
                   => R \subseteq B
  BY <1>1, UpstreamIsLeast
<1> SUFFICES ASSUME \A i \in tree : ~(plan[i].from = source /\ plan[i].to \in R)
             PROVE FALSE
  <2>1. FirstHops(plan, source, dest, size, ready) =
          {plan[i] : i \in {j \in tree : plan[j].from = source /\ plan[j].to \in R}}
    BY <1>2, FirstHopsFacts DEF tree, table
  <2> QED BY <2>1
<1>3. source \notin R
  <2>1. dest \in R \ {source}
    BY <1>2
  <2>2. ASSUME NEW i \in tree, plan[i].to \in R \ {source}
        PROVE plan[i].from \in R \ {source}
    BY <1>2, <2>2
  <2> QED BY <1>2, <2>1, <2>2
<1>4. Labelled(table, ready)
  BY TableIsClosed DEF table
<1>5. PICK rank \in [table -> Nat] : \A p \in table : p.node # source =>
             \E q \in table : \E c \in Departing(plan, size, q) :
                /\ c.to = p.node
                /\ ArrivalTime(c, q.arrival, size) = p.arrival
                /\ q.arrival <= p.arrival
                /\ q.arrival = p.arrival => rank[q] < rank[p]
  BY TableIsReached DEF table
\* Of the labels upstream take the earliest, and of these the one found first.
<1> DEFINE near == {p \in table : p.node \in R}
           A == {p.arrival : p \in near}
<1>6. near # {}
  BY <1>2 DEF Reaches, table
<1>7. PICK a \in A : \A b \in A : a <= b
  <2>1. A \in SUBSET Int /\ A # {} /\ ready \in Int /\ \A b \in A : ready <= b
    BY <1>4, <1>6 DEF Labelled, TableEntry, Time
  <2> HIDE DEF A
  <2> QED BY <2>1, LeastInteger
<1> DEFINE K == {rank[p] : p \in {r \in near : r.arrival = a}}
<1>8. PICK k \in K : \A h \in K : k <= h
  <2>1. K \in SUBSET Int /\ K # {} /\ \A h \in K : 0 <= h
    BY <1>5, <1>7
  <2> HIDE DEF K
  <2> QED BY <2>1, 0 \in Int, LeastInteger
<1>9. PICK p \in near : p.arrival = a /\ rank[p] = k
  BY <1>8
<1>10. p \in table /\ p.node # source
  BY <1>3
<1>11. PICK i \in tree :
          /\ plan[i].to = p.node
          /\ \/ plan[i].from = source
             \/ \E q \in table : /\ q.node = plan[i].from
                                 /\ q.arrival <= p.arrival
                                 /\ q.arrival = p.arrival => rank[q] < rank[p]
  <2> HIDE DEF near
  <2> QED BY <1>5, <1>10, TreeLeadsBack DEF tree, table
<1>12. PICK q \in table : /\ q.node = plan[i].from
                          /\ q.arrival <= p.arrival
                          /\ q.arrival = p.arrival => rank[q] < rank[p]
  BY <1>11
<1>13. q \in near
  BY <1>2, <1>11, <1>12
<1>14. a <= q.arrival
  BY <1>7, <1>13
<1>15. q.arrival = a
  BY <1>4, <1>9, <1>10, <1>12, <1>14 DEF Labelled, TableEntry, Time
<1>16. k <= rank[q]
  BY <1>8, <1>13, <1>15
<1>17. rank[q] \in Nat /\ rank[p] \in Nat
  BY <1>5, <1>10
<1> QED BY <1>9, <1>12, <1>15, <1>16, <1>17

\* A contact that is taken at a label or later arrives at a label or later.
LEMMA LabelsBound ==
    ASSUME NEW plan \in ContactPlan, NEW source \in Node, NEW size \in Nat,
           NEW ready \in Time, NEW table, table = Table(plan, source, size, ready),
           NEW c \in ContactsOf(plan), NEW now \in Time,
           Reaches(table, c.from), Label(table, c.from) <= now, Carries(c, now, size)
    PROVE Reaches(table, c.to) /\ Label(table, c.to) <= ArrivalTime(c, now, size)
<1>1. Labelled(table, ready) /\ Closed(plan, size, table)
  BY TableIsClosed
<1>2. PICK p \in table : p.node = c.from /\ p.arrival = Label(table, c.from)
  BY EntryOfLabel
<1>3. p.arrival \in Time /\ c \in Contact
  BY <1>1, ContactsAreContacts DEF Labelled, TableEntry
<1>4. Carries(c, p.arrival, size) /\ ArrivalTime(c, p.arrival, size) <= ArrivalTime(c, now, size)
  BY <1>2, <1>3, FirstInFirstOut
<1>5. PICK q \in table : q.node = c.to /\ q.arrival <= ArrivalTime(c, p.arrival, size)
  BY <1>1, <1>2, <1>4 DEF Closed, Departing
<1>6. Reaches(table, c.to) /\ Label(table, c.to) = q.arrival /\ q.arrival \in Time
  <2>1. Reaches(table, q.node) /\ Label(table, q.node) = q.arrival
    BY <1>1, LabelOfEntry
  <2>2. q.arrival \in Time
    BY <1>1 DEF Labelled, TableEntry
  <2> QED BY <1>5, <2>1, <2>2
<1>7. ArrivalTime(c, p.arrival, size) \in Time /\ ArrivalTime(c, now, size) \in Time
  BY <1>3, ArrivalNotEarly
<1> QED BY <1>4, <1>5, <1>6, <1>7 DEF Time
=============================================================================
