------------------------------ MODULE Hamming -------------------------------
(* The Hamming(7,4) code of rf-pipeline/src/fec.rs on bits 0 and 1.          *)
EXTENDS Integers, Sequences

Bit == {0, 1}
Add(a, b) == IF a = b THEN 0 ELSE 1
Flip(a) == 1 - a

Data == [1 .. 4 -> Bit]

(* Mutant: a whole block is padded with one more. *)
PadAlways(bits, n) == bits \o [i \in 1 .. n - (Len(bits) % n) |-> 0]

(* pad_to_multiple, the same in fec.rs and modem.rs. *)
PadToMultiple(bits, n) ==
  bits \o [i \in 1 .. (-Len(bits)) % n |-> 0]

(* The parity bits of the classical positions p1 p2 d1 p3 d2 d3 d4. *)
EncodeBlock(d) ==
  <<Add(Add(d[1], d[2]), d[4]), Add(Add(d[1], d[3]), d[4]), d[1],
    Add(Add(d[2], d[3]), d[4]), d[2], d[3], d[4]>>

(* Mutant: the checks are weighed in the wrong order. *)
SyndromeReversed(w) ==
  4 * Add(Add(w[1], w[3]), Add(w[5], w[7]))
    + 2 * Add(Add(w[2], w[3]), Add(w[6], w[7]))
    + Add(Add(w[4], w[5]), Add(w[6], w[7]))

(* The position the three parity checks point at; 0 when all of them hold. *)
Syndrome(w) ==
  Add(Add(w[1], w[3]), Add(w[5], w[7]))
    + 2 * Add(Add(w[2], w[3]), Add(w[6], w[7]))
    + 4 * Add(Add(w[4], w[5]), Add(w[6], w[7]))

(* pos[0] is scratch in the code: a syndrome of 0 flips nothing. *)
Corrected(w) == [i \in 1 .. 7 |-> IF i = Syndrome(w) THEN Flip(w[i]) ELSE w[i]]

DecodeBlock(w) ==
  <<Corrected(w)[3], Corrected(w)[5], Corrected(w)[6], Corrected(w)[7]>>

(* encode and decode of whole bit streams, block by block; decode drops a    *)
(* last chunk that is not a whole codeword.                                  *)
Block(bits, n, k) == [i \in 1 .. n |-> bits[n * (k - 1) + i]]

Encode(bits) ==
  LET padded == PadToMultiple(bits, 4)
  IN  [i \in 1 .. 7 * (Len(padded) \div 4) |->
         EncodeBlock(Block(padded, 4, ((i - 1) \div 7) + 1))[((i - 1) % 7) + 1]]

Decode(bits) ==
  [i \in 1 .. 4 * (Len(bits) \div 7) |->
     DecodeBlock(Block(bits, 7, ((i - 1) \div 4) + 1))[((i - 1) % 4) + 1]]

(* Positions in which two words of one length differ. *)
Differ(v, w) == {i \in DOMAIN v : v[i] # w[i]}
=============================================================================
