----------------------------- MODULE MCSchedule -----------------------------
EXTENDS Schedule

(* Five samples, four instants apart; straight between them, level outside;  *)
(* the propagator fails at one instant, or at none.                          *)
Straight(node, gone) ==
  [t \in -2 .. 18 |->
     IF t = gone THEN Fault
     ELSE IF t <= 0 THEN node[1] ELSE IF t >= 16 THEN node[5]
     ELSE node[(t \div 4) + 1]
            + ((node[(t \div 4) + 2] - node[(t \div 4) + 1]) * (t % 4)) \div 4]
Whole == 99

(* Every track over four heights, alone. *)
Any == {<<Straight(n, t)>> : n \in [1 .. 5 -> {0, 4, 12, 20}], t \in {6, 8, 11, Whole}}

(* Two tracks: two passes with one low sample between them, a pass of one    *)
(* sample, one open at either end, one that never clears the mask, one just  *)
(* above it, a failing propagator.                                           *)
Shapes == {<<0, 12, 0, 12, 0>>, <<8, 0, 7, 4, 0>>, <<0, 0, 4, 4, 0>>,
           <<20, 12, 7, 4, 0>>, <<4, 7, 4, 8, 5>>, <<12, 4, 20, 5, 4>>}
Some == {Straight(n, Whole) : n \in Shapes}
          \cup {Straight(<<0, 12, 12, 20, 0>>, g) : g \in {8, 9}}

(* Three: passes that overlap, touch and leave the sky empty. *)
Orbits == {Straight(n, Whole) : n \in {<<0, 12, 20, 4, 0>>, <<4, 20, 12, 0, 0>>,
             <<12, 0, 0, 12, 4>>, <<0, 0, 12, 20, 12>>, <<20, 12, 12, 4, 4>>}}
          \cup {Straight(<<0, 12, 20, 4, 0>>, g) : g \in {8, 9}}

MCSkies == Any \cup (Some \X Some) \cup (Orbits \X Orbits \X Orbits)

MCStations == <<"tokyo", "kauai", "svalbard">>
MCNode == {"tokyo", "kauai", "svalbard", "sat"}
MCLight(elevation) == 30 - elevation

Entry(from, to, start, last, confidence) ==
  [from |-> from, to |-> to, start |-> start, end |-> last, rate |-> 2,
   owlt |-> 1, confidence |-> confidence]
MCHandwritten ==
  {<<Entry(f, "sat", s, 6, c), Entry("sat", "kauai", 2, 9, 1)>> :
      f \in {"tokyo", ""}, s \in {0, 6, 7}, c \in {-1, 0, 1}}
=============================================================================
