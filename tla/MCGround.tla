------------------------------- MODULE MCGround -----------------------------
(* What the ground software reads and sends, and the propagator that its     *)
(* element sets are for.                                                     *)
EXTENDS Formats, Sgp4

MCElementSets ==
  [number : {5}, yy : {0, 19, 56, 57}, day : {1, 9}, neg : BOOLEAN,
   mantissa : {0, 3, 11, 90}, exp : {-4, 0, 2}, motion : {1, 7}]
MCGlyphs == {"0", "1", "9", " ", "-", "+", "."}

(* Every day of every year a two-digit epoch can name. *)
MCDates ==
  {d \in [yy : 0 .. 99, day : 1 .. 366] : d.day <= DaysIn(FullYear(d.yy))}

(* Both ends of every range of the header, and one beyond. *)
MCHeaders ==
  {Header(apid, type, secondary, flags, count, 1) :
     apid \in {0, 2, 3}, type \in DOMAIN Types, secondary \in BOOLEAN,
     flags \in DOMAIN Flags, count \in {0, 2, 3}}
MCDrafts ==
  [header : MCHeaders, data : {[i \in 1 .. n |-> "a"] : n \in {0, 1, 3, 4, 5}}]

MCSpecs ==
  {sp \in [total : 0 .. 12, planes : 1 .. 5, phase : 0 .. 4] : sp.phase < sp.planes}

MCTimes == {-5, -4, -1, 0, 2, 3}

(* Near the earth, low or not, and far from it without and with a resonance; *)
(* an eccentricity in every column of the tables; on the equator, below the  *)
(* limit of dpper and above it.                                              *)
MCOrbits ==
  {e \in [period : {95, 225, 720, 1436}, low : BOOLEAN, ecco : {0, 512, 700, 720, 1020},
          inclo : {0, 1, 3}, nodeo : {40}, argpo : {14}, mo : {34}, no : {1, 3},
          bstar : {0, 1}, dedt : {-1, 1}, didt : {0}, dnodt : {1}, domdt : {1}, dmdt : {1}] :
     e.low => (e.period = 95 /\ e.dedt = 1)}

(* The sums at each time: quiet, or pushing one way before the epoch and the *)
(* other after it, or over the limits on both sides.                         *)
Sums(pe, pinc, ph, pgh, pl) == [pe |-> pe, pinc |-> pinc, ph |-> ph, pgh |-> pgh, pl |-> pl]
Quiet == [t \in MCTimes |-> Sums(0, 0, 0, 0, 0)]
MCWaves ==
  {Quiet,
   [t \in MCTimes |-> Sums(2 * t, t, 1 + t, 1, t)],
   [t \in MCTimes |-> Sums(2 - t, -2, -3, 0, 1)]}

(* A behaviour handles an item, or asks the propagator of one element set:   *)
(* the two share nothing while they run.                                     *)
Resting == CHOOSE e \in MCOrbits : TRUE
Unread == [kind |-> "epoch", date |-> [yy |-> 0, day |-> 1]]

GroundInit ==
  \/ Init /\ tle = Resting /\ wave = Quiet /\ PropInit
  \/ item = Unread /\ PropInit /\ wire = None /\ fault = NoFault /\ output = None

GroundNext ==
  \/ tle = Resting /\ wave = Quiet /\ Next /\ UNCHANGED propVars
  \/ item = Unread /\ PropNext /\ UNCHANGED vars

GroundSpec == GroundInit /\ [][GroundNext]_<<vars, propVars>> /\ WF_propVars(Work)
=============================================================================
