SPECIFICATION Spec
\* Amplitudes: none, onto the boundary of a Qpsk component, and across it with
\* either modem.  The shifts of a word of W bits make one cycle of all words
\* but zero; the seed is zero.
CONSTANTS
  MaxBits = 5
  Amplitudes = {0, 3, 6}
  MaxHits = 2
  W = 7
  Left = 3
  Right = 2
  LeftAgain = 4
  Seeds = {{}}
  Golden = {0, 3, 4, 6}
INVARIANTS DeliversTheData DecodesToNearest NoiseNeverStops
CHECK_DEADLOCK FALSE
