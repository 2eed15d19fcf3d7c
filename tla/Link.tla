-------------------------------- MODULE Link --------------------------------
(* rf-pipeline: bits through simulate_link, stage by stage - encode,         *)
(* modulate, the noisy channel symbol by symbol, demodulate, decode - with   *)
(* the two modems and with bit_error_rate at the end.  Symbols and noise are *)
(* integers: only the signs of the two components are ever looked at.        *)
EXTENDS Hamming, FiniteSets

CONSTANTS MaxBits,     \* longest input
          Amplitudes,  \* how far noise may move a component, either way
          MaxHits,     \* components with noise that a run may have
          W,                       \* width of a word: 64 in the code
          Left, Right, LeftAgain,  \* the shifts: 13, 7 and 17 in the code
          Seeds,                   \* seeds a caller passes
          Golden                   \* the state a zero seed is remapped to

(* The channel's xorshift64* generator works on words, each the set of the   *)
(* positions of its one bits, so exclusive or is symmetric difference and a  *)
(* shift moves positions and drops what leaves the word.                     *)
Positions == 0 .. W - 1
Word == SUBSET Positions
Zero == {}

ASSUME LinkAssumption ==
  /\ MaxBits \in Nat /\ MaxHits \in Nat
  /\ Amplitudes \subseteq Nat /\ 0 \in Amplitudes

ASSUME RngAssumption ==
  /\ W \in Nat
  /\ Left \in Nat \ {0} /\ Right \in Nat \ {0} /\ LeftAgain \in Nat \ {0}
  /\ Seeds \subseteq Word
  /\ Golden \in Word /\ Golden # Zero

VARIABLES stage, modem, bits, coded, symbols, noisy, output,
          state      \* of the channel's generator

vars == <<stage, modem, bits, coded, symbols, noisy, output, state>>

(* Both modems give a symbol the same energy: all of it on one axis, or a    *)
(* smaller component (1 to the root of 2; 3 for 5 here) on each of two.      *)
Level(m) == IF m = "Bpsk" THEN 5 ELSE 3
Axis(m, bit) == IF bit = 1 THEN -Level(m) ELSE Level(m)

Modulate(m, code) ==
  IF m = "Bpsk"
  THEN [i \in DOMAIN code |-> [re |-> Axis(m, code[i]), im |-> 0]]
  ELSE LET padded == PadToMultiple(code, 2)
       IN  [i \in 1 .. Len(padded) \div 2 |->
              [re |-> Axis(m, padded[2 * i - 1]), im |-> Axis(m, padded[2 * i])]]

(* Hard decisions: a component exactly on the boundary reads as 0. *)
Decide(x) == IF x < 0 THEN 1 ELSE 0

Demodulate(m, syms) ==
  IF m = "Bpsk"
  THEN [i \in DOMAIN syms |-> Decide(syms[i].re)]
  ELSE [i \in 1 .. 2 * Len(syms) |->
          IF i % 2 = 1 THEN Decide(syms[(i + 1) \div 2].re)
                       ELSE Decide(syms[i \div 2].im)]

Xor(x, y) == (x \ y) \cup (y \ x)
ShiftLeft(x, k) == {i \in Positions : i - k \in x}
ShiftRight(x, k) == {i \in Positions : i + k \in x}

(* The three steps of next_u64 before the output is scrambled. *)
AddLeft(x, k) == Xor(x, ShiftLeft(x, k))
AddRight(x, k) == Xor(x, ShiftRight(x, k))
Advance(x) == AddLeft(AddRight(AddLeft(x, Left), Right), LeftAgain)

(* Mutant: the zero seed is taken as it is. *)
SeededAsIs(s) == s

(* Rng::new. *)
Seeded(s) == IF s = Zero THEN Golden ELSE s

(* next_u64.  The value returned, state times an odd constant, is another    *)
(* word for another state and is not kept.  A normal sample takes two.       *)
NextGaussian(x) == Advance(Advance(x))

-----------------------------------------------------------------------------
Init ==
  /\ stage = "encode" /\ modem \in {"Bpsk", "Qpsk"}
  /\ bits \in UNION {[1 .. n -> Bit] : n \in 0 .. MaxBits}
  /\ coded = <<>> /\ symbols = <<>> /\ noisy = <<>> /\ output = <<>>
  /\ \E seed \in Seeds : state = Seeded(seed)

FecEncode ==
  /\ stage = "encode"
  /\ coded' = Encode(bits) /\ stage' = "modulate"
  /\ UNCHANGED <<modem, bits, symbols, noisy, output, state>>

Map ==
  /\ stage = "modulate"
  /\ symbols' = Modulate(modem, coded) /\ stage' = "channel"
  /\ UNCHANGED <<modem, bits, coded, noisy, output, state>>

Hit(x) == IF x = 0 THEN 0 ELSE 1
Hits == Cardinality({i \in DOMAIN noisy : noisy[i].re # symbols[i].re})
          + Cardinality({i \in DOMAIN noisy : noisy[i].im # symbols[i].im})

(* transmit: each symbol in turn gets noise on both components, a normal     *)
(* sample each: any of Noises, MaxHits of them not 0.                        *)
Noises == Amplitudes \cup {-a : a \in Amplitudes}

Transmit ==
  /\ stage = "channel" /\ Len(noisy) < Len(symbols)
  /\ \E re \in Noises, im \in Noises :
       /\ Hits + Hit(re) + Hit(im) <= MaxHits
       /\ noisy' = Append(noisy, [re |-> symbols[Len(noisy) + 1].re + re,
                                  im |-> symbols[Len(noisy) + 1].im + im])
  /\ state' = NextGaussian(NextGaussian(state))
  /\ UNCHANGED <<stage, modem, bits, coded, symbols, output>>

(* The last two stages are pure and run back to back. *)
Receive ==
  /\ stage = "channel" /\ Len(noisy) = Len(symbols)
  /\ output' = Decode(Demodulate(modem, noisy)) /\ stage' = "done"
  /\ UNCHANGED <<modem, bits, coded, symbols, noisy, state>>

Next == FecEncode \/ Map \/ Transmit \/ Receive

Spec == Init /\ [][Next]_vars

-----------------------------------------------------------------------------
(* bit_error_rate's count of errors, over the shorter length. *)
BitErrors(a, b) ==
  Cardinality({i \in DOMAIN a \cap DOMAIN b : a[i] # b[i]})

Received == Demodulate(modem, noisy)

(* What the channel did to codeword k, counted on the wire. *)
FlipsIn(k) ==
  Cardinality(Differ(Block(coded, 7, k), Block(Received, 7, k)))
Codewords == 1 .. Len(coded) \div 7

(* channel.rs "xorshift cannot escape the all-zero state": whatever the      *)
(* seed and however long the link, the generator never enters it, so the     *)
(* noise of a channel never stops.                                           *)
NoiseNeverStops == state # Zero

(* fec.rs "corrects any single-bit error per codeword", through the whole    *)
(* chain: whatever the modem's padding and wherever a symbol straddles two   *)
(* codewords, the data of every codeword with at most one bit flipped on the *)
(* wire come out right, in their place.                                      *)
CorrectsOnePerCodeword ==
  \A k \in Codewords : FlipsIn(k) <= 1 =>
    Block(output, 4, k) = Block(PadToMultiple(bits, 4), 4, k)

(* And the padding of the code and of the modem never shifts, adds or loses  *)
(* a codeword: the output is the input rounded up to whole blocks.           *)
LengthIsPadded == Len(output) = 4 * ((Len(bits) + 3) \div 4)

(* So a link that flips at most one bit of each codeword is no link at all.  *)
InputComesOut ==
  (\A k \in Codewords : FlipsIn(k) <= 1) => SubSeq(output, 1, Len(bits)) = bits

(* What the receiver may rely on, a codeword and a whole stream at a time.   *)
DeliversTheData ==
  stage = "done" => CorrectsOnePerCodeword /\ LengthIsPadded /\ InputComesOut

(* The code is perfect, so the decoder never reports: what comes out is the  *)
(* data of the one codeword nearest to what went in, and two flips are       *)
(* always turned into wrong data - which alone cost bit errors, at most four *)
(* a codeword.                                                               *)
DecodesToNearest ==
  stage = "done" =>
    /\ \A k \in Codewords :
         LET word == Block(Received, 7, k)
         IN  \A d \in Data : d = Block(output, 4, k)
               <=> Cardinality(Differ(EncodeBlock(d), word)) <= 1
    /\ BitErrors(bits, output) <= 4 * Cardinality({k \in Codewords : FlipsIn(k) >= 2})
=============================================================================
