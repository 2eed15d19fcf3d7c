---------------------------- MODULE Constellation ---------------------------
(* The constellation generator, orbital-mechanics/src/constellation.rs.      *)
(* Angles are exact: a turn of anomaly is total * per_plane units, a turn of *)
(* ascending node is planes units.                                           *)
EXTENDS Integers, Sequences

(* Mutant: rounded down. *)
FloorDiv(a, b) == a \div b

CeilDiv(a, b) == (a + b - 1) \div b
PerPlane(sp) == CeilDiv(sp.total, sp.planes)
FullTurn(sp) == sp.total * PerPlane(sp)

PlaneOffset(sp, slot) == slot * sp.total
PhaseOffset(sp, slot) == sp.phase * slot * PerPlane(sp)
MeanAnomaly(sp, slot) == (PlaneOffset(sp, slot) + PhaseOffset(sp, slot)) % FullTurn(sp)

MakeTle(sp, index, plane, slot) ==
  [satellite |-> 90000 + index, raan |-> plane, anomaly |-> MeanAnomaly(sp, slot)]

(* The loop over the slots of a plane stops when all are generated; the loop *)
(* over the planes goes on.                                                  *)
FillPlane(sp, tles, plane) ==
  LET filled[s \in 0 .. PerPlane(sp)] ==
        IF s = 0 THEN tles
        ELSE LET ts == filled[s - 1]
             IN  IF Len(ts) >= sp.total THEN ts
                 ELSE Append(ts, MakeTle(sp, Len(ts), plane, s - 1))
  IN  filled[PerPlane(sp)]
Generate(sp) ==
  LET generated[p \in 0 .. sp.planes] ==
        IF p = 0 THEN <<>> ELSE FillPlane(sp, generated[p - 1], p - 1)
  IN  generated[sp.planes]
=============================================================================
