----------------------------- MODULE Link_proofs ----------------------------
(* The link for inputs of any length, any noise and words of any width: it   *)
(* corrects one error in every codeword, gives the data of the nearest       *)
(* codeword otherwise, and its noise never stops.                            *)
EXTENDS Link, FiniteSetTheorems, WellFoundedInduction, TLAPS

(* A set of naturals that is not empty has a least member. *)
LEMMA LeastBit ==
  ASSUME NEW x, x \subseteq Nat, x # {}
  PROVE  \E m \in x : \A i \in x : m <= i
<1> DEFINE less == {ss \in Nat \X Nat : ss[1] < ss[2]}
<1>1. IsWellFoundedOn(less, Nat)
  BY NatLessThanWellFounded, Zenon DEF OpToRel
<1>2. \E m \in x : \A i \in x : ~ (<<i, m>> \in less)
  <2> HIDE DEF less
  <2> QED BY <1>1, WFMin
<1>3. PICK m \in x : \A i \in x : ~ (<<i, m>> \in less)
  BY <1>2
<1>4. ASSUME NEW i \in x PROVE m <= i
  <2>1. i \in Nat /\ m \in Nat
    OBVIOUS
  <2>2. CASE i < m
    <3>1. <<i, m>> \in less
      BY <2>1, <2>2
    <3> QED BY <3>1, <1>3
  <2> QED BY <2>1, <2>2
<1> QED BY <1>4

(* A word that is not zero has a greatest one bit. *)
LEMMA GreatestBit ==
  ASSUME NEW x \in Word, x # {}
  PROVE  \E m \in x : \A i \in x : i <= m
<1> DEFINE mirror == {W - 1 - i : i \in x}
<1>0. W \in Nat /\ x \subseteq 0 .. W - 1
  BY RngAssumption DEF Word, Positions
<1>1. mirror \subseteq Nat /\ mirror # {}
  <2>1. \A i \in x : W - 1 - i \in Nat
    BY <1>0
  <2>2. mirror \subseteq Nat
    BY <2>1, Zenon
  <2>3. PICK i \in x : TRUE
    OBVIOUS
  <2>4. W - 1 - i \in mirror
    BY <2>3, Zenon
  <2> QED BY <2>2, <2>4
<1>2. PICK m \in mirror : \A i \in mirror : m <= i
  BY <1>1, LeastBit
<1>3. PICK top \in x : m = W - 1 - top
  BY <1>2
<1>4. \A i \in x : i <= top
  BY <1>0, <1>2, <1>3
<1> QED BY <1>4

(* A left shift moves every one bit up, so the lowest one bit survives the   *)
(* exclusive or.                                                             *)
LEMMA AddLeftNotZero ==
  ASSUME NEW x \in Word, x # Zero, NEW k \in Nat \ {0}
  PROVE  AddLeft(x, k) \in Word /\ AddLeft(x, k) # Zero
<1>0. x \subseteq 0 .. W - 1 /\ W \in Nat
  BY RngAssumption DEF Word, Positions
<1>1. AddLeft(x, k) \in Word
  BY <1>0 DEF AddLeft, Xor, ShiftLeft, Word, Positions
<1>2. PICK m \in x : \A i \in x : m <= i
  <2>1. x \subseteq Nat /\ x # {}
    BY <1>0 DEF Zero
  <2> QED BY <2>1, LeastBit
<1>3. m - k \notin x
  BY <1>0, <1>2
<1>4. m \in AddLeft(x, k)
  BY <1>3 DEF AddLeft, Xor, ShiftLeft
<1> QED BY <1>1, <1>4 DEF Zero

(* A right shift moves every one bit down, so the highest survives. *)
LEMMA AddRightNotZero ==
  ASSUME NEW x \in Word, x # Zero, NEW k \in Nat \ {0}
  PROVE  AddRight(x, k) \in Word /\ AddRight(x, k) # Zero
<1>0. x \subseteq 0 .. W - 1 /\ W \in Nat
  BY RngAssumption DEF Word, Positions
<1>1. AddRight(x, k) \in Word
  BY <1>0 DEF AddRight, Xor, ShiftRight, Word, Positions
<1>2. PICK m \in x : \A i \in x : i <= m
  BY GreatestBit DEF Zero
<1>3. m + k \notin x
  BY <1>0, <1>2
<1>4. m \in AddRight(x, k)
  BY <1>3 DEF AddRight, Xor, ShiftRight
<1> QED BY <1>1, <1>4 DEF Zero

(* One draw takes a state that is not zero to another. *)
LEMMA AdvanceNotZero ==
  ASSUME NEW x \in Word, x # Zero
  PROVE  Advance(x) \in Word /\ Advance(x) # Zero
<1> DEFINE y == AddLeft(x, Left)
           z == AddRight(y, Right)
<1>1. y \in Word /\ y # Zero
  BY AddLeftNotZero, RngAssumption
<1>2. z \in Word /\ z # Zero
  <2> HIDE DEF y
  <2> QED BY <1>1, AddRightNotZero, RngAssumption
<1>3. AddLeft(z, LeftAgain) \in Word /\ AddLeft(z, LeftAgain) # Zero
  <2> HIDE DEF z
  <2> QED BY <1>2, AddLeftNotZero, RngAssumption
<1> QED BY <1>3 DEF Advance

(* A normal sample takes two draws. *)
LEMMA GaussianNotZero ==
  ASSUME NEW x \in Word, x # Zero
  PROVE  NextGaussian(x) \in Word /\ NextGaussian(x) # Zero
BY AdvanceNotZero DEF NextGaussian

StateInv == state \in Word /\ NoiseNeverStops

(* channel.rs "xorshift cannot escape the all-zero state": no seed, zero     *)
(* included, and no number of symbols ever brings the generator there.       *)
THEOREM NoiseForEver == Spec => []NoiseNeverStops
<1>1. Init => StateInv
  BY RngAssumption DEF Init, StateInv, NoiseNeverStops, Seeded
<1>2. StateInv /\ [Next]_vars => StateInv'
  <2> SUFFICES ASSUME StateInv, [Next]_vars PROVE StateInv'
    OBVIOUS
  <2> USE DEF StateInv, NoiseNeverStops
  <2>1. CASE Transmit
    BY <2>1, GaussianNotZero DEF Transmit
  <2>2. CASE FecEncode \/ Map \/ Receive
    BY <2>2 DEF FecEncode, Map, Receive
  <2>3. CASE UNCHANGED vars
    BY <2>3 DEF vars
  <2> QED BY <2>1, <2>2, <2>3 DEF Next
<1> QED BY <1>1, <1>2, PTL DEF Spec, StateInv

-----------------------------------------------------------------------------
(* A codeword as the channel leaves it: bit k flipped, none when k is 0. *)
Flipped(d, k) == [i \in 1 .. 7 |-> IF i = k THEN Flip(EncodeBlock(d)[i])
                               ELSE EncodeBlock(d)[i]]

(* The three parity checks of a received word. *)
Check1(w) == Add(Add(w[1], w[3]), Add(w[5], w[7]))
Check2(w) == Add(Add(w[2], w[3]), Add(w[6], w[7]))
Check4(w) == Add(Add(w[4], w[5]), Add(w[6], w[7]))

(* Flipping one bit of a sum of four flips the sum. *)
LEMMA CodewordBits ==
  ASSUME NEW d \in Data
  PROVE  /\ d[1] \in Bit /\ d[2] \in Bit /\ d[3] \in Bit /\ d[4] \in Bit
         /\ EncodeBlock(d)[1] = Add(Add(d[1], d[2]), d[4])
         /\ EncodeBlock(d)[2] = Add(Add(d[1], d[3]), d[4])
         /\ EncodeBlock(d)[3] = d[1]
         /\ EncodeBlock(d)[4] = Add(Add(d[2], d[3]), d[4])
         /\ EncodeBlock(d)[5] = d[2]
         /\ EncodeBlock(d)[6] = d[3]
         /\ EncodeBlock(d)[7] = d[4]
BY DEF Data, EncodeBlock

LEMMA CodeIsBits ==
  ASSUME NEW d \in Data
  PROVE  EncodeBlock(d) \in [1 .. 7 -> Bit]
BY CodewordBits DEF EncodeBlock, Add, Bit

(* The received word, bit by bit. *)
LEMMA HitBits ==
  ASSUME NEW d \in Data, NEW k \in 0 .. 7, NEW i \in 1 .. 7
  PROVE  Flipped(d, k)[i] = IF i = k THEN Flip(EncodeBlock(d)[i]) ELSE EncodeBlock(d)[i]
BY DEF Flipped

(* The syndrome of a word with one flipped bit is the place of that bit. *)
LEMMA SyndromeFindsIt ==
  ASSUME NEW d \in Data, NEW k \in 0 .. 7
  PROVE  Syndrome(Flipped(d, k)) = k
<1> DEFINE w == Flipped(d, k)
<1>1. /\ w[1] = IF 1 = k THEN Flip(EncodeBlock(d)[1]) ELSE EncodeBlock(d)[1]
      /\ w[2] = IF 2 = k THEN Flip(EncodeBlock(d)[2]) ELSE EncodeBlock(d)[2]
      /\ w[3] = IF 3 = k THEN Flip(EncodeBlock(d)[3]) ELSE EncodeBlock(d)[3]
      /\ w[4] = IF 4 = k THEN Flip(EncodeBlock(d)[4]) ELSE EncodeBlock(d)[4]
      /\ w[5] = IF 5 = k THEN Flip(EncodeBlock(d)[5]) ELSE EncodeBlock(d)[5]
      /\ w[6] = IF 6 = k THEN Flip(EncodeBlock(d)[6]) ELSE EncodeBlock(d)[6]
      /\ w[7] = IF 7 = k THEN Flip(EncodeBlock(d)[7]) ELSE EncodeBlock(d)[7]
  BY HitBits
<1> HIDE DEF w
<1>2. Check1(w) = IF k \in {1, 3, 5, 7} THEN 1 ELSE 0
  BY <1>1, CodewordBits DEF Check1, Add, Flip, Bit
<1>3. Check2(w) = IF k \in {2, 3, 6, 7} THEN 1 ELSE 0
  BY <1>1, CodewordBits DEF Check2, Add, Flip, Bit
<1>4. Check4(w) = IF k \in {4, 5, 6, 7} THEN 1 ELSE 0
  BY <1>1, CodewordBits DEF Check4, Add, Flip, Bit
<1>5. Syndrome(w) = Check1(w) + 2 * Check2(w) + 4 * Check4(w)
  BY DEF Syndrome, Check1, Check2, Check4
<1> QED BY <1>2, <1>3, <1>4, <1>5 DEF w

(* fec.rs "corrects any single-bit error per codeword": whatever the four    *)
(* data bits and whichever bit of the codeword the channel flips, or none,   *)
(* decode gives the data back.                                               *)
THEOREM CorrectsSingleError ==
  ASSUME NEW d \in Data, NEW k \in 0 .. 7
  PROVE  DecodeBlock(Flipped(d, k)) = d
<1> DEFINE w == Flipped(d, k)
<1>1. Syndrome(w) = k
  BY SyndromeFindsIt
<1>2. ASSUME NEW i \in 1 .. 7 PROVE Corrected(w)[i] = EncodeBlock(d)[i]
  <2>1. EncodeBlock(d)[i] \in Bit
    BY CodewordBits DEF Add, Bit
  <2>2. Corrected(w)[i] = IF i = k THEN Flip(w[i]) ELSE w[i]
    BY <1>1 DEF Corrected
  <2> QED BY <2>1, <2>2, HitBits DEF Flip, Bit
<1>3. DecodeBlock(w) = <<d[1], d[2], d[3], d[4]>>
  BY <1>2, CodewordBits DEF DecodeBlock
<1>4. d = <<d[1], d[2], d[3], d[4]>>
  BY DEF Data
<1> QED BY <1>3, <1>4

-----------------------------------------------------------------------------
(* Padding keeps what it pads, and rounds up.                                *)
LEMMA PaddedToFour ==
  ASSUME NEW b \in Seq(Bit)
  PROVE  /\ PadToMultiple(b, 4) \in Seq(Bit)
         /\ Len(PadToMultiple(b, 4)) = 4 * ((Len(b) + 3) \div 4)
         /\ \A i \in 1 .. Len(b) : PadToMultiple(b, 4)[i] = b[i]
<1> DEFINE zeros == [i \in 1 .. (-Len(b)) % 4 |-> 0]
<1>1. (-Len(b)) % 4 \in Nat /\ Len(b) + ((-Len(b)) % 4) = 4 * ((Len(b) + 3) \div 4)
  <2>1. Len(b) \in Nat
    OBVIOUS
  <2> QED BY <2>1, Z3
<1>2. zeros \in Seq(Bit) /\ Len(zeros) = (-Len(b)) % 4
  BY <1>1 DEF Bit
<1>3. PadToMultiple(b, 4) = b \o zeros
  BY DEF PadToMultiple
<1> HIDE DEF zeros
<1>4. /\ b \o zeros \in Seq(Bit) /\ Len(b \o zeros) = Len(b) + Len(zeros)
      /\ \A i \in 1 .. Len(b) : (b \o zeros)[i] = b[i]
  BY <1>2
<1> QED BY <1>1, <1>2, <1>3, <1>4

LEMMA PaddedToTwo ==
  ASSUME NEW b \in Seq(Bit)
  PROVE  /\ PadToMultiple(b, 2) \in Seq(Bit)
         /\ Len(PadToMultiple(b, 2)) = 2 * ((Len(b) + 1) \div 2)
<1> DEFINE zeros == [i \in 1 .. (-Len(b)) % 2 |-> 0]
<1>1. (-Len(b)) % 2 \in Nat /\ Len(b) + ((-Len(b)) % 2) = 2 * ((Len(b) + 1) \div 2)
  <2>1. Len(b) \in Nat
    OBVIOUS
  <2> QED BY <2>1, Z3
<1>2. zeros \in Seq(Bit) /\ Len(zeros) = (-Len(b)) % 2
  BY <1>1 DEF Bit
<1>3. PadToMultiple(b, 2) = b \o zeros
  BY DEF PadToMultiple
<1> HIDE DEF zeros
<1>4. /\ b \o zeros \in Seq(Bit) /\ Len(b \o zeros) = Len(b) + Len(zeros)
      /\ \A i \in 1 .. Len(b) : (b \o zeros)[i] = b[i]
  BY <1>2
<1> QED BY <1>1, <1>2, <1>3, <1>4

(* The k-th codeword of a coded stream is the code of its k-th block. *)
LEMMA EncodedBlocks ==
  ASSUME NEW b \in Seq(Bit)
  PROVE  /\ Encode(b) \in Seq(Bit)
         /\ Len(Encode(b)) = 7 * ((Len(b) + 3) \div 4)
         /\ \A k \in 1 .. (Len(b) + 3) \div 4 :
              /\ Block(PadToMultiple(b, 4), 4, k) \in Data
              /\ Block(Encode(b), 7, k) = EncodeBlock(Block(PadToMultiple(b, 4), 4, k))
<1> DEFINE p == PadToMultiple(b, 4)
           n == (Len(b) + 3) \div 4
           code(k) == EncodeBlock(Block(p, 4, k))
<1>1. p \in Seq(Bit) /\ Len(p) = 4 * n /\ n \in Nat
  <2>1. (Len(b) + 3) \div 4 \in Nat
    <3>1. Len(b) \in Nat
      OBVIOUS
    <3> QED BY <3>1, Z3
  <2> QED BY <2>1, PaddedToFour
<1>2. Encode(b) = [i \in 1 .. 7 * n |-> code(((i - 1) \div 7) + 1)[((i - 1) % 7) + 1]]
  <2>1. Len(p) \div 4 = n
    BY <1>1, Z3
  <2> QED BY <2>1 DEF Encode
<1> HIDE DEF p, n
<1>3. ASSUME NEW k \in 1 .. n
      PROVE  /\ Block(p, 4, k) \in Data
             /\ code(k) \in [1 .. 7 -> Bit]
  <2>1. Block(p, 4, k) \in Data
    <3>1. \A i \in 1 .. 4 : 4 * (k - 1) + i \in 1 .. Len(p)
      BY <1>1
    <3> QED BY <1>1, <3>1 DEF Block, Data
  <2> QED BY <2>1, CodeIsBits
<1>4. ASSUME NEW i \in 1 .. 7 * n
      PROVE  /\ ((i - 1) \div 7) + 1 \in 1 .. n
             /\ ((i - 1) % 7) + 1 \in 1 .. 7
  BY <1>1, Z3
<1>5. Encode(b) \in Seq(Bit) /\ Len(Encode(b)) = 7 * n
  <2> HIDE DEF code
  <2>1. \A i \in 1 .. 7 * n : code(((i - 1) \div 7) + 1)[((i - 1) % 7) + 1] \in Bit
    BY <1>3, <1>4
  <2>2. Encode(b) \in [1 .. 7 * n -> Bit]
    BY <1>2, <2>1
  <2> QED BY <2>2, <1>1
<1>6. ASSUME NEW k \in 1 .. n PROVE Block(Encode(b), 7, k) = code(k)
  <2> HIDE DEF code
  <2>2. ASSUME NEW i \in 1 .. 7 PROVE Encode(b)[7 * (k - 1) + i] = code(k)[i]
    <3> DEFINE j == 7 * (k - 1) + i
    <3>1. j \in 1 .. 7 * n /\ ((j - 1) \div 7) + 1 = k /\ ((j - 1) % 7) + 1 = i
      BY <1>1, Z3
    <3> HIDE DEF j
    <3>2. Encode(b)[j] = code(k)[i]
      BY <1>2, <3>1
    <3> QED BY <3>2 DEF j
  <2>3. code(k) = [i \in 1 .. 7 |-> code(k)[i]]
    BY <1>3
  <2> QED BY <2>2, <2>3 DEF Block
<1> QED BY <1>3, <1>5, <1>6 DEF p, n

(* Decoding goes block by block as well. *)
LEMMA DecodedBlocks ==
  ASSUME NEW r \in Seq(Bit)
  PROVE  /\ Len(Decode(r)) = 4 * (Len(r) \div 7)
         /\ \A k \in 1 .. Len(r) \div 7 :
              Block(Decode(r), 4, k) = DecodeBlock(Block(r, 7, k))
<1> DEFINE n == Len(r) \div 7
           data(k) == DecodeBlock(Block(r, 7, k))
<1>1. n \in Nat
  <2>1. Len(r) \in Nat
    OBVIOUS
  <2> QED BY <2>1, Z3
<1>2. Decode(r) = [i \in 1 .. 4 * n |-> data(((i - 1) \div 4) + 1)[((i - 1) % 4) + 1]]
  BY DEF Decode
<1>3. \A k \in 1 .. n : data(k) = [i \in 1 .. 4 |-> data(k)[i]]
  BY DEF DecodeBlock
<1> HIDE DEF n, data
<1>4. Len(Decode(r)) = 4 * n
  BY <1>1, <1>2
<1>5. ASSUME NEW k \in 1 .. n PROVE Block(Decode(r), 4, k) = data(k)
  <2>2. ASSUME NEW i \in 1 .. 4 PROVE Decode(r)[4 * (k - 1) + i] = data(k)[i]
    <3> DEFINE j == 4 * (k - 1) + i
    <3>1. j \in 1 .. 4 * n /\ ((j - 1) \div 4) + 1 = k /\ ((j - 1) % 4) + 1 = i
      BY <1>1, Z3
    <3> HIDE DEF j
    <3>2. Decode(r)[j] = data(k)[i]
      BY <1>2, <3>1
    <3> QED BY <3>2 DEF j
  <2> QED BY <2>2, <1>3 DEF Block
<1> QED BY <1>4, <1>5 DEF n, data

LEMMA DecodedIsBits ==
  ASSUME NEW r \in Seq(Bit)
  PROVE  Decode(r) \in Seq(Bit)
<1> DEFINE n == Len(r) \div 7
           data(k) == DecodeBlock(Block(r, 7, k))
<1>1. n \in Nat /\ 7 * n <= Len(r)
  <2>1. Len(r) \in Nat
    OBVIOUS
  <2> QED BY <2>1, Z3
<1>2. Decode(r) = [i \in 1 .. 4 * n |-> data(((i - 1) \div 4) + 1)[((i - 1) % 4) + 1]]
  BY DEF Decode
<1>3. ASSUME NEW k \in 1 .. n, NEW i \in 1 .. 4 PROVE data(k)[i] \in Bit
  <2> DEFINE w == Block(r, 7, k)
  <2>1. \A x \in 1 .. 7 : 7 * (k - 1) + x \in 1 .. Len(r)
    BY <1>1
  <2>2. \A x \in 1 .. 7 : w[x] \in Bit
    BY <2>1 DEF Block
  <2> HIDE DEF w
  <2>3. \A x \in 1 .. 7 : Corrected(w)[x] \in Bit
    BY <2>2 DEF Corrected, Flip, Bit
  <2>4. DecodeBlock(w)[i] \in Bit
    BY <2>3 DEF DecodeBlock
  <2> QED BY <2>4 DEF w
<1>4. ASSUME NEW i \in 1 .. 4 * n
      PROVE  ((i - 1) \div 4) + 1 \in 1 .. n /\ ((i - 1) % 4) + 1 \in 1 .. 4
  BY <1>1, Z3
<1> HIDE DEF n, data
<1>5. Decode(r) \in [1 .. 4 * n -> Bit]
  BY <1>2, <1>3, <1>4
<1> QED BY <1>1, <1>5

(* A modem gives back as many bits as it was given, or one more to fill the  *)
(* last symbol, whatever happened to the symbols.                            *)
LEMMA ReceivedBits ==
  ASSUME NEW m \in {"Bpsk", "Qpsk"}, NEW code \in Seq(Bit), NEW S, NEW syms \in Seq(S),
         Len(syms) = Len(Modulate(m, code))
  PROVE  /\ Demodulate(m, syms) \in Seq(Bit)
         /\ Len(Demodulate(m, syms)) \in {Len(code), Len(code) + 1}
<1> DEFINE d == Demodulate(m, syms)
<1>0. \A x : Decide(x) \in Bit
  BY DEF Decide, Bit
<1>1. CASE m = "Bpsk"
  <2>1. Len(syms) = Len(code)
    BY <1>1 DEF Modulate
  <2>2. d \in [1 .. Len(syms) -> Bit]
    BY <1>0, <1>1 DEF Demodulate
  <2> QED BY <2>1, <2>2
<1>2. CASE m = "Qpsk"
  <2> DEFINE p == PadToMultiple(code, 2)
             half == (Len(code) + 1) \div 2
  <2>1. half \in Nat /\ 2 * half \in {Len(code), Len(code) + 1}
    <3>1. Len(code) \in Nat
      OBVIOUS
    <3> QED BY <3>1, Z3
  <2>2. Len(p) \div 2 = half
    <3>1. Len(p) = 2 * half
      BY PaddedToTwo
    <3> HIDE DEF p, half
    <3> QED BY <2>1, <3>1, Z3
  <2>3. Modulate(m, code) =
          [i \in 1 .. half |-> [re |-> Axis(m, p[2 * i - 1]), im |-> Axis(m, p[2 * i])]]
    BY <1>2, <2>2 DEF Modulate
  <2> HIDE DEF half
  <2>4. Len(syms) = half
    BY <2>1, <2>3
  <2>5. d \in [1 .. 2 * Len(syms) -> Bit]
    BY <1>0, <1>2 DEF Demodulate
  <2> QED BY <2>1, <2>4, <2>5
<1> QED BY <1>1, <1>2

(* A word at most one bit from a codeword is that codeword with one bit      *)
(* flipped, or none.                                                         *)
LEMMA AtMostOneFlip ==
  ASSUME NEW d \in Data, NEW w \in [1 .. 7 -> Bit],
         Cardinality(Differ(EncodeBlock(d), w)) <= 1
  PROVE  \E k \in 0 .. 7 : w = Flipped(d, k)
<1> DEFINE v == EncodeBlock(d)
           D == Differ(v, w)
<1>1. v \in [1 .. 7 -> Bit]
  BY CodeIsBits
<1>2. D = {i \in 1 .. 7 : v[i] # w[i]}
  BY <1>1 DEF Differ
<1>3. IsFiniteSet(D)
  BY <1>2, FS_Interval, FS_Subset
<1>4. Cardinality(D) \in Nat
  BY <1>3, FS_CardinalityType
<1>5. \E k \in 0 .. 7 : D \subseteq {k}
  <2>1. CASE Cardinality(D) = 0
    BY <1>3, <2>1, FS_EmptySet
  <2>2. CASE Cardinality(D) = 1
    <3>1. PICK x : D = {x}
      BY <1>3, <2>2, FS_Singleton
    <3>2. x \in 0 .. 7
      BY <3>1, <1>2
    <3> QED BY <3>1, <3>2
  <2> QED BY <1>4, <2>1, <2>2
<1>6. PICK k \in 0 .. 7 : D \subseteq {k}
  BY <1>5
<1>7. CASE k \in D
  <2>1. k \in 1 .. 7 /\ v[k] # w[k]
    BY <1>2, <1>7
  <2>2. w[k] = Flip(v[k])
    BY <2>1, <1>1 DEF Flip, Bit
  <2>3. \A i \in 1 .. 7 : i # k => w[i] = v[i]
    BY <1>2, <1>6
  <2>4. w = [i \in 1 .. 7 |-> w[i]]
    OBVIOUS
  <2>5. w = Flipped(d, k)
    BY <2>2, <2>3, <2>4 DEF Flipped
  <2> QED BY <2>5
<1>8. CASE k \notin D
  <2>1. \A i \in 1 .. 7 : w[i] = v[i]
    BY <1>2, <1>6, <1>8
  <2>2. w = [i \in 1 .. 7 |-> w[i]]
    OBVIOUS
  <2>3. w = Flipped(d, 0)
    BY <2>1, <2>2 DEF Flipped
  <2> QED BY <2>3
<1> QED BY <1>7, <1>8

-----------------------------------------------------------------------------
(* Each stage has its input from the one before, and the channel changes     *)
(* what symbols are but not how many there are.                              *)
Symbol == [re : Int, im : Int]
LinkInv ==
  /\ modem \in {"Bpsk", "Qpsk"} /\ bits \in Seq(Bit)
  /\ symbols \in Seq(Symbol) /\ noisy \in Seq(Symbol)
  /\ stage \in {"encode", "modulate"} => noisy = <<>>
  /\ stage \in {"modulate", "channel", "done"} => coded = Encode(bits)
  /\ stage \in {"channel", "done"} =>
       symbols = Modulate(modem, coded) /\ Len(noisy) <= Len(symbols)
  /\ stage = "done" => output = Decode(Received) /\ Len(noisy) = Len(symbols)

LEMMA SymbolsOfBits ==
  ASSUME NEW m \in {"Bpsk", "Qpsk"}, NEW code \in Seq(Bit)
  PROVE  Modulate(m, code) \in Seq(Symbol)
<1>0. \A x : Axis(m, x) \in Int
  BY DEF Axis, Level
<1>1. CASE m = "Bpsk"
  <2>1. \A i \in DOMAIN code : [re |-> Axis(m, code[i]), im |-> 0] \in Symbol
    BY <1>0 DEF Symbol
  <2>2. Modulate(m, code) = [i \in 1 .. Len(code) |-> [re |-> Axis(m, code[i]), im |-> 0]]
    BY <1>1 DEF Modulate
  <2> QED BY <2>1, <2>2
<1>2. CASE m = "Qpsk"
  <2> DEFINE p == PadToMultiple(code, 2)
             half == Len(p) \div 2
  <2>1. half \in Nat
    <3>1. Len(p) \in Nat
      BY PaddedToTwo
    <3> HIDE DEF p
    <3> QED BY <3>1, Z3
  <2>2. Modulate(m, code) =
          [i \in 1 .. half |-> [re |-> Axis(m, p[2 * i - 1]), im |-> Axis(m, p[2 * i])]]
    BY <1>2 DEF Modulate
  <2> HIDE DEF p, half
  <2>3. \A i \in 1 .. half :
          [re |-> Axis(m, p[2 * i - 1]), im |-> Axis(m, p[2 * i])] \in Symbol
    BY <1>0 DEF Symbol
  <2> QED BY <2>1, <2>2, <2>3
<1> QED BY <1>1, <1>2

(* Noise makes a symbol of a symbol. *)
LEMMA NoiseMovesSymbol ==
  ASSUME NEW sym \in Symbol, NEW re \in Noises, NEW im \in Noises
  PROVE  [re |-> sym.re + re, im |-> sym.im + im] \in Symbol
<1>1. re \in Int /\ im \in Int
  BY LinkAssumption DEF Noises
<1>2. sym.re \in Int /\ sym.im \in Int
  BY DEF Symbol
<1>3. sym.re + re \in Int /\ sym.im + im \in Int
  BY <1>1, <1>2
<1> QED BY <1>3, Zenon DEF Symbol

LEMMA LinkInvHolds == Spec => []LinkInv
<1>1. Init => LinkInv
  BY DEF Init, LinkInv
<1>2. LinkInv /\ [Next]_vars => LinkInv'
  <2> SUFFICES ASSUME LinkInv, [Next]_vars PROVE LinkInv'
    OBVIOUS
  <2> USE DEF LinkInv
  <2>1. CASE FecEncode
    BY <2>1 DEF FecEncode
  <2>2. CASE Map
    <3>1. coded \in Seq(Bit)
      BY <2>2, EncodedBlocks DEF Map
    <3>2. symbols' \in Seq(Symbol)
      BY <2>2, <3>1, SymbolsOfBits DEF Map
    <3>3. Len(noisy) <= Len(symbols')
      BY <2>2, <3>2 DEF Map
    <3> QED BY <2>2, <3>2, <3>3 DEF Map
  <2>3. CASE Transmit
    <3>1. PICK re \in Noises, im \in Noises :
            noisy' = Append(noisy, [re |-> symbols[Len(noisy) + 1].re + re,
                                    im |-> symbols[Len(noisy) + 1].im + im])
      BY <2>3 DEF Transmit
    <3>2. symbols[Len(noisy) + 1] \in Symbol
      BY <2>3 DEF Transmit
    <3>3. [re |-> symbols[Len(noisy) + 1].re + re,
           im |-> symbols[Len(noisy) + 1].im + im] \in Symbol
      BY <3>2, NoiseMovesSymbol
    <3>4. noisy' \in Seq(Symbol) /\ Len(noisy') = Len(noisy) + 1
      BY <3>1, <3>3
    <3> QED BY <2>3, <3>4 DEF Transmit
  <2>4. CASE Receive
    BY <2>4 DEF Receive, Received
  <2>5. CASE UNCHANGED vars
    BY <2>5 DEF vars, Received
  <2> QED BY <2>1, <2>2, <2>3, <2>4, <2>5 DEF Next
<1> QED BY <1>1, <1>2, PTL DEF Spec

(* At the end of a run, from that alone.                                     *)
LEMMA DoneDelivers ==
  ASSUME LinkInv, stage = "done"
  PROVE  CorrectsOnePerCodeword /\ LengthIsPadded /\ InputComesOut
<1> DEFINE n == (Len(bits) + 3) \div 4
           p == PadToMultiple(bits, 4)
           r == Received
<1>1. /\ bits \in Seq(Bit) /\ coded = Encode(bits) /\ output = Decode(r)
      /\ coded \in Seq(Bit) /\ Len(coded) = 7 * n
  BY EncodedBlocks DEF LinkInv
<1>2. n \in Nat /\ Len(bits) \in Nat /\ Len(bits) <= 4 * n
  <2>1. Len(bits) \in Nat
    BY <1>1
  <2> QED BY <2>1, Z3
<1>3. r \in Seq(Bit) /\ Len(r) \in {Len(coded), Len(coded) + 1}
  BY <1>1, ReceivedBits DEF LinkInv, Received
<1> HIDE DEF n, r
<1>4. Len(r) \div 7 = n /\ Len(coded) \div 7 = n
  BY <1>1, <1>2, <1>3, Z3
<1>5. Len(output) = 4 * n
  BY <1>1, <1>3, <1>4, DecodedBlocks
<1>6. ASSUME NEW k \in 1 .. n, FlipsIn(k) <= 1
      PROVE  Block(output, 4, k) = Block(p, 4, k)
  <2> DEFINE d == Block(p, 4, k)
             w == Block(r, 7, k)
  <2>1. d \in Data /\ Block(coded, 7, k) = EncodeBlock(d)
    BY <1>1, EncodedBlocks DEF n
  <2>2. w \in [1 .. 7 -> Bit]
    <3>1. \A i \in 1 .. 7 : 7 * (k - 1) + i \in 1 .. Len(r)
      BY <1>1, <1>2, <1>3
    <3> QED BY <1>3, <3>1 DEF Block
  <2>3. Cardinality(Differ(EncodeBlock(d), w)) <= 1
    BY <1>6, <2>1 DEF FlipsIn, r
  <2>4. Block(output, 4, k) = DecodeBlock(w)
    BY <1>1, <1>3, <1>4, DecodedBlocks
  <2> HIDE DEF d, w
  <2>5. PICK j \in 0 .. 7 : w = Flipped(d, j)
    BY <2>1, <2>2, <2>3, AtMostOneFlip
  <2>6. DecodeBlock(w) = d
    BY <2>1, <2>5, CorrectsSingleError
  <2> QED BY <2>4, <2>6 DEF d
<1>7. CorrectsOnePerCodeword
  BY <1>4, <1>6 DEF CorrectsOnePerCodeword, Codewords
<1>8. LengthIsPadded
  BY <1>5 DEF LengthIsPadded, n
<1>9. ASSUME \A k \in Codewords : FlipsIn(k) <= 1
      PROVE  SubSeq(output, 1, Len(bits)) = bits
  <2>1. ASSUME NEW x \in 1 .. Len(bits) PROVE output[x] = bits[x]
    <3> DEFINE k == ((x - 1) \div 4) + 1
               i == ((x - 1) % 4) + 1
    <3>1. k \in 1 .. n /\ i \in 1 .. 4 /\ x = 4 * (k - 1) + i
      BY <1>2, Z3
    <3> HIDE DEF k, i
    <3>2. Block(output, 4, k) = Block(p, 4, k)
      BY <3>1, <1>4, <1>6, <1>9 DEF Codewords
    <3>3. Block(output, 4, k)[i] = output[x] /\ Block(p, 4, k)[i] = p[x]
      BY <3>1 DEF Block
    <3>4. p[x] = bits[x]
      BY <1>1, PaddedToFour
    <3> QED BY <3>2, <3>3, <3>4
  <2>2. output \in Seq(Bit)
    BY <1>1, <1>3, DecodedIsBits
  <2> QED BY <1>1, <1>2, <1>5, <2>1, <2>2
<1> QED BY <1>7, <1>8, <1>9 DEF InputComesOut

(* fec.rs "corrects any single-bit error per codeword", of a whole link: for *)
(* inputs of any length, both modems and whatever the channel adds, the data *)
(* of every codeword with at most one flipped bit arrive, in their place.    *)
THEOREM LinkDelivers == Spec => []DeliversTheData
<1>1. LinkInv => DeliversTheData
  BY DoneDelivers DEF DeliversTheData
<1> QED BY <1>1, LinkInvHolds, PTL

-----------------------------------------------------------------------------
(* What the decoder corrects is a codeword: all three checks hold once the   *)
(* bit that they point at is flipped, so it is the code of what comes out.   *)
LEMMA CorrectedIsCode ==
  ASSUME NEW w \in [1 .. 7 -> Bit]
  PROVE  /\ Corrected(w) \in [1 .. 7 -> Bit]
         /\ DecodeBlock(w) \in Data
         /\ EncodeBlock(DecodeBlock(w)) = Corrected(w)
<1> DEFINE s == Syndrome(w)
           x == Corrected(w)
<1>1. s \in 0 .. 7 /\ s = Check1(w) + 2 * Check2(w) + 4 * Check4(w)
  BY DEF Syndrome, Check1, Check2, Check4, Add
<1>2. x \in [1 .. 7 -> Bit]
  BY DEF Corrected, Flip, Bit
<1>3. ASSUME NEW i \in 1 .. 7
      PROVE  x[i] = IF i = s THEN Flip(w[i]) ELSE w[i]
  BY DEF Corrected
<1>4. DecodeBlock(w) = <<x[3], x[5], x[6], x[7]>>
  BY DEF DecodeBlock
<1> HIDE DEF s, x
<1>5. /\ x[1] = IF 1 = s THEN Flip(w[1]) ELSE w[1]
      /\ x[2] = IF 2 = s THEN Flip(w[2]) ELSE w[2]
      /\ x[3] = IF 3 = s THEN Flip(w[3]) ELSE w[3]
      /\ x[4] = IF 4 = s THEN Flip(w[4]) ELSE w[4]
      /\ x[5] = IF 5 = s THEN Flip(w[5]) ELSE w[5]
      /\ x[6] = IF 6 = s THEN Flip(w[6]) ELSE w[6]
      /\ x[7] = IF 7 = s THEN Flip(w[7]) ELSE w[7]
  BY <1>3
<1>6. /\ w[1] \in {0, 1} /\ w[2] \in {0, 1} /\ w[3] \in {0, 1} /\ w[4] \in {0, 1}
      /\ w[5] \in {0, 1} /\ w[6] \in {0, 1} /\ w[7] \in {0, 1}
  BY DEF Bit
<1>7. /\ x[1] = Add(Add(x[3], x[5]), x[7])
      /\ x[2] = Add(Add(x[3], x[6]), x[7])
      /\ x[4] = Add(Add(x[5], x[6]), x[7])
  BY <1>1, <1>5, <1>6 DEF Check1, Check2, Check4, Add, Flip
<1>8. DecodeBlock(w) \in Data
  BY <1>2, <1>4 DEF Data
<1>9. EncodeBlock(DecodeBlock(w)) = <<x[1], x[2], x[3], x[4], x[5], x[6], x[7]>>
  BY <1>4, <1>7 DEF EncodeBlock
<1>10. x = <<x[1], x[2], x[3], x[4], x[5], x[6], x[7]>>
  BY <1>2
<1> QED BY <1>2, <1>8, <1>9, <1>10 DEF x

(* The positions of a word, or of a block of it.                             *)
LEMMA FirstPositions ==
  ASSUME NEW m \in Nat
  PROVE  IsFiniteSet(1 .. m) /\ Cardinality(1 .. m) = m
<1>1. 1 \in Int /\ m \in Int
  OBVIOUS
<1>2. /\ IsFiniteSet(1 .. m)
      /\ Cardinality(1 .. m) = IF 1 > m THEN 0 ELSE m - 1 + 1
  BY <1>1, FS_Interval, Zenon
<1> QED BY <1>2

(* Words of one codeword differ in a finite number of places.                *)
LEMMA DifferIsFinite ==
  ASSUME NEW v \in [1 .. 7 -> Bit], NEW w
  PROVE  IsFiniteSet(Differ(v, w)) /\ Cardinality(Differ(v, w)) \in Nat
<1>1. Differ(v, w) \subseteq 1 .. 7
  BY DEF Differ
<1>2. IsFiniteSet(1 .. 7)
  <2>1. 7 \in Nat
    OBVIOUS
  <2> QED BY <2>1, FirstPositions, Zenon
<1>3. IsFiniteSet(Differ(v, w))
  BY <1>1, <1>2, FS_Subset
<1> QED BY <1>3, FS_CardinalityType

(* The code is perfect: every word of seven bits is within one bit of one    *)
(* codeword, and the decoder answers the data of that one.                   *)
THEOREM CodeIsPerfect ==
  ASSUME NEW w \in [1 .. 7 -> Bit], NEW d \in Data
  PROVE  d = DecodeBlock(w) <=> Cardinality(Differ(EncodeBlock(d), w)) <= 1
<1>1. ASSUME d = DecodeBlock(w)
      PROVE  Cardinality(Differ(EncodeBlock(d), w)) <= 1
  <2>1. EncodeBlock(d) = Corrected(w)
    BY <1>1, CorrectedIsCode
  <2>2. Differ(EncodeBlock(d), w) \subseteq {Syndrome(w)}
    BY <2>1 DEF Differ, Corrected
  <2>3. IsFiniteSet({Syndrome(w)}) /\ Cardinality({Syndrome(w)}) = 1
    BY FS_Singleton
  <2> QED BY <2>2, <2>3, FS_Subset
<1>2. ASSUME Cardinality(Differ(EncodeBlock(d), w)) <= 1
      PROVE  d = DecodeBlock(w)
  <2>1. PICK k \in 0 .. 7 : w = Flipped(d, k)
    BY <1>2, AtMostOneFlip
  <2> QED BY <2>1, CorrectsSingleError
<1> QED BY <1>1, <1>2

(* Blocks of four have at most four times as many positions.                 *)
LEMMA FourABlock ==
  ASSUME NEW B, IsFiniteSet(B), B \subseteq Nat, NEW E,
         \A i \in E : \E k \in B, j \in 1 .. 4 : i = 4 * (k - 1) + j
  PROVE  IsFiniteSet(E) /\ Cardinality(E) <= 4 * Cardinality(B)
<1> DEFINE pairs == B \X (1 .. 4)
           place == [p \in pairs |-> 4 * (p[1] - 1) + p[2]]
           places == {place[p] : p \in pairs}
<1>1. IsFiniteSet(1 .. 4) /\ Cardinality(1 .. 4) = 4
  <2>1. 4 \in Nat
    OBVIOUS
  <2> QED BY <2>1, FirstPositions, Zenon
<1>2. IsFiniteSet(pairs) /\ Cardinality(pairs) = Cardinality(B) * 4
  BY <1>1, FS_Product
<1>3. ASSUME NEW i \in E PROVE i \in places
  <2>1. PICK k \in B, j \in 1 .. 4 : i = 4 * (k - 1) + j
    OBVIOUS
  <2>2. <<k, j>> \in pairs /\ place[<<k, j>>] = i
    BY <2>1
  <2> QED BY <2>2
<1>4. IsFiniteSet(places) /\ Cardinality(places) <= Cardinality(pairs)
  <2>1. place \in Surjection(pairs, places)
    BY Zenon DEF Surjection
  <2> HIDE DEF pairs, place, places
  <2> QED BY <1>2, <2>1, FS_Surjection
<1>5. E \subseteq places
  BY <1>3
<1>6. IsFiniteSet(E) /\ Cardinality(E) <= Cardinality(places)
  <2> HIDE DEF places
  <2> QED BY <1>4, <1>5, FS_Subset
<1>7. /\ Cardinality(E) \in Nat /\ Cardinality(places) \in Nat
      /\ Cardinality(B) \in Nat
  <2> HIDE DEF places
  <2> QED BY <1>4, <1>6, FS_CardinalityType
<1> HIDE DEF pairs, places
<1> QED BY <1>2, <1>4, <1>6, <1>7

(* At the end of a run, from LinkInv alone: what each block of the output    *)
(* is, codeword by codeword, and where a wrong bit of it can be.             *)
LEMMA DoneIsNearest ==
  ASSUME LinkInv, stage = "done"
  PROVE  DecodesToNearest
<1> DEFINE n == (Len(bits) + 3) \div 4
           p == PadToMultiple(bits, 4)
           r == Received
           Bad == {k \in Codewords : FlipsIn(k) >= 2}
           E == {i \in DOMAIN bits \cap DOMAIN output : bits[i] # output[i]}
<1>1. /\ bits \in Seq(Bit) /\ coded = Encode(bits) /\ output = Decode(r)
      /\ coded \in Seq(Bit) /\ Len(coded) = 7 * n
  BY EncodedBlocks DEF LinkInv
<1>2. n \in Nat /\ Len(bits) \in Nat /\ Len(bits) <= 4 * n
  <2>1. Len(bits) \in Nat
    BY <1>1
  <2> QED BY <2>1, Z3
<1>3. r \in Seq(Bit) /\ Len(r) \in {Len(coded), Len(coded) + 1}
  BY <1>1, ReceivedBits DEF LinkInv, Received
<1>4. \A k \in 1 .. n : Block(p, 4, k) \in Data
                          /\ Block(coded, 7, k) = EncodeBlock(Block(p, 4, k))
  BY <1>1, EncodedBlocks
<1>5. CorrectsOnePerCodeword
  BY DoneDelivers
<1> HIDE DEF n, p, r
<1>6. Len(r) \div 7 = n /\ Len(coded) \div 7 = n
  BY <1>1, <1>2, <1>3, Z3
<1>7. Codewords = 1 .. n
  BY <1>6 DEF Codewords
<1>8. ASSUME NEW k \in Codewords
      PROVE  /\ Block(r, 7, k) \in [1 .. 7 -> Bit]
             /\ Block(output, 4, k) = DecodeBlock(Block(r, 7, k))
             /\ FlipsIn(k) \in Nat
  <2>1. \A i \in 1 .. 7 : 7 * (k - 1) + i \in 1 .. Len(r)
    <3>1. k \in 1 .. n /\ Len(r) >= 7 * n /\ Len(r) \in Nat
      BY <1>1, <1>2, <1>3, <1>7
    <3> QED BY <1>2, <3>1
  <2>2. Block(r, 7, k) \in [1 .. 7 -> Bit]
    <3>1. \A i \in 1 .. 7 : r[7 * (k - 1) + i] \in Bit
      BY <1>3, <2>1
    <3> QED BY <3>1 DEF Block
  <2>3. Block(output, 4, k) = DecodeBlock(Block(r, 7, k))
    BY <1>1, <1>3, <1>6, <1>7, DecodedBlocks
  <2>4. Block(coded, 7, k) \in [1 .. 7 -> Bit]
    BY <1>4, <1>7, CodeIsBits
  <2>5. FlipsIn(k) \in Nat
    BY <2>4, DifferIsFinite DEF FlipsIn
  <2> QED BY <2>2, <2>3, <2>5
<1>9. ASSUME NEW k \in Codewords, NEW d \in Data
      PROVE  d = Block(output, 4, k)
               <=> Cardinality(Differ(EncodeBlock(d), Block(r, 7, k))) <= 1
  BY <1>8, CodeIsPerfect
<1>10. IsFiniteSet(Bad) /\ Bad \subseteq Nat
  <2>1. IsFiniteSet(1 .. n)
    BY <1>2, FirstPositions, Zenon
  <2>2. Bad \subseteq 1 .. n
    BY <1>7
  <2>3. IsFiniteSet(Bad)
    <3> HIDE DEF Bad
    <3> QED BY <2>1, <2>2, FS_Subset
  <2> QED BY <1>2, <2>2, <2>3
<1>11. ASSUME NEW x \in E
       PROVE  \E k \in Bad, j \in 1 .. 4 : x = 4 * (k - 1) + j
  <2> DEFINE k == ((x - 1) \div 4) + 1
             i == ((x - 1) % 4) + 1
  <2>0. x \in 1 .. Len(bits) /\ output[x] # bits[x]
    BY <1>1
  <2>1. k \in 1 .. n /\ i \in 1 .. 4 /\ x = 4 * (k - 1) + i
    <3> HIDE DEF E, Bad
    <3> QED BY <1>2, <2>0, Z3
  <2> HIDE DEF k, i
  <2>2. Block(output, 4, k)[i] = output[x] /\ Block(p, 4, k)[i] = p[x]
    BY <2>1 DEF Block
  <2>3. p[x] = bits[x]
    BY <1>1, <2>0, PaddedToFour DEF p
  <2>4. Block(output, 4, k) # Block(p, 4, k)
    BY <2>0, <2>2, <2>3
  <2>5. ~ (FlipsIn(k) <= 1)
    BY <1>5, <1>7, <2>1, <2>4 DEF CorrectsOnePerCodeword, p
  <2>6. k \in Bad
    BY <1>7, <1>8, <2>1, <2>5
  <2> QED BY <2>1, <2>6
<1>12. BitErrors(bits, output) <= 4 * Cardinality(Bad)
  <2>1. BitErrors(bits, output) = Cardinality(E)
    BY DEF BitErrors
  <2> HIDE DEF E, Bad
  <2> QED BY <1>10, <1>11, <2>1, FourABlock
<1> QED BY <1>9, <1>12 DEF DecodesToNearest, r

(* rf-pipeline's decoder never reports an error: over the whole link each    *)
(* block that comes out is the data of the only codeword within one bit of   *)
(* what came in, and bit_error_rate counts at most four errors for each      *)
(* codeword that was hit twice or more, and none for the others.             *)
THEOREM LinkDecodesToNearest == Spec => []DecodesToNearest
<1>1. LinkInv => DecodesToNearest
  <2>1. CASE stage = "done"
    BY <2>1, DoneIsNearest
  <2>2. CASE stage # "done"
    BY <2>2 DEF DecodesToNearest
  <2> QED BY <2>1, <2>2
<1> QED BY <1>1, LinkInvHolds, PTL
=============================================================================
