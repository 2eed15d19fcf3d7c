------------------------------ MODULE MCTracker -----------------------------
EXTENDS Tracker

MCCosine == [h \in 0 .. 11 |->
  <<1000, 866, 500, 0, -500, -866, -1000, -866, -500, 0, 500, 866>>[h + 1]]

MCAzimuths == -3 .. 14
MCElevations == -1 .. 4
MCParkings == {<<5, -1>>, <<-3, 4>>}

(* Azimuth paths as moves between instants.  A period is two instants, so    *)
(* the dish turns two units of azimuth in each: the third path swings past   *)
(* zenith faster than that, the last jumps half a turn.                      *)
Moves == {<<1, 1, 0, 1, 1>>, <<0, -1, -1, -1, 0>>, <<1, 2, 4, 2, 1>>, <<0, 6, 0, 0, 0>>}
AzPath(s, m) == <<s, s + m[1], s + m[1] + m[2], s + m[1] + m[2] + m[3],
                  s + m[1] + m[2] + m[3] + m[4],
                  s + m[1] + m[2] + m[3] + m[4] + m[5]>>
Climbs == {<<0, 1, 1, 1, 1, 0>>, <<0, 1, 3, 3, 2, 1>>, <<-1, 0, 1, -1, -1, -1>>}

(* A pass in which the propagator fails at one instant, or answers what is   *)
(* not a number.                                                             *)
Blurred(p, i) == [p EXCEPT ![i].el = NaN]

Pass(az, el, gone) ==
  [i \in 0 .. 5 |-> IF i = gone THEN NoLook ELSE [az |-> az[i + 1], el |-> el[i + 1]]]

MCPasses ==
  {Pass(AzPath(s, m), el, 9) : s \in {0, 4, 10}, m \in Moves, el \in Climbs}
    \cup {Pass(AzPath(10, <<1, 1, 0, 1, 1>>), <<0, 1, 1, 1, 1, 0>>, g) : g \in {0, 2, 3, 5}}
    \cup {Blurred(Pass(AzPath(10, <<1, 1, 0, 1, 1>>), <<0, 1, 1, 1, 1, 0>>, 9), i) : i \in {0, 3}}
=============================================================================
