--------------------------------- MODULE Tle --------------------------------
(* Two-line element sets, orbital-mechanics/src/tle.rs: the parser, the text *)
(* it is meant for, and the epoch as the propagator takes it.  The layout    *)
(* keeps one column or two of each field; a line is its columns and its      *)
(* check digit.                                                              *)
EXTENDS Integers, Sequences, SequencesExt

Blank == " "
Plus == "+"
Minus == "-"
Dot == "."
Digits == <<"0", "1", "2", "3", "4", "5", "6", "7", "8", "9">>
Digit(n) == Digits[n + 1]
IsDigit(c) == \E n \in 0 .. 9 : Digit(n) = c
Value(c) == CHOOSE n \in 0 .. 9 : Digit(n) = c

NotBlank(s) == {i \in DOMAIN s : s[i] # Blank}
Least(S) == CHOOSE i \in S : \A j \in S : i <= j
Greatest(S) == CHOOSE i \in S : \A j \in S : j <= i
Trim(s) ==
  IF NotBlank(s) = {} THEN <<>>
  ELSE SubSeq(s, Least(NotBlank(s)), Greatest(NotBlank(s)))
TrimEnd(s) == IF NotBlank(s) = {} THEN <<>> ELSE SubSeq(s, 1, Greatest(NotBlank(s)))

(* What str::parse reads, or Bad: a u32 may begin with a plus, an f64 with    *)
(* either sign, and have a point (kept in tenths: no field of the layout has *)
(* more than one column after a point).                                      *)
Bad == -1000
Sign(c) == c \in {Plus, Minus}
Digital(s) == s # <<>> /\ \A i \in DOMAIN s : IsDigit(s[i])
Horner(base, digits) ==
  LET read[i \in 0 .. Len(digits)] ==
        IF i = 0 THEN 0 ELSE base * read[i - 1] + digits[i]
  IN  read[Len(digits)]
Number(s) == Horner(10, [i \in DOMAIN s |-> Value(s[i])])
U32(s) ==
  LET digits == IF s # <<>> /\ s[1] = Plus THEN Tail(s) ELSE s
  IN  IF Digital(digits) THEN Number(digits) ELSE Bad
F64(s) ==
  LET body == IF s # <<>> /\ Sign(s[1]) THEN Tail(s) ELSE s
      points == {i \in DOMAIN body : body[i] = Dot}
      digits == IF points = {} THEN body ELSE RemoveAt(body, Least(points))
      scale == IF points = {} \/ Least(points) = Len(body) THEN 10 ELSE 1
  IN  IF Digital(digits) THEN (IF s[1] = Minus THEN -scale ELSE scale) * Number(digits) ELSE Bad

(* check_checksum: digits count their value, a minus sign one, the rest      *)
(* nothing.  A check column below '0' underflows the byte: a build that      *)
(* checks overflow panics, another goes on to a mismatch.                    *)
Weight(c) == IF IsDigit(c) THEN Value(c) ELSE IF c = Minus THEN 1 ELSE 0
Checksum(body) == Horner(1, [i \in DOMAIN body |-> Weight(body[i])]) % 10
BelowZero(c) == c \in {Blank, Plus, Minus, Dot}

(* The year of parse_epoch. *)
FullYear(yy) == IF yy < 57 THEN 2000 + yy ELSE 1900 + yy

(* parse_exp_field: the last sign begins the exponent.  The value of a       *)
(* fraction is kept as sign, digits and exponent; all of them of no matter   *)
(* when the digits are zeros.  Without an exponent, "0.12e" does not parse.  *)
ZeroTerm == <<"zero">>
BadTerm == <<"bad">>
Fraction(neg, digits, exp) ==
  IF \A i \in DOMAIN digits : digits[i] = Digit(0) THEN ZeroTerm ELSE <<neg, digits, exp>>
(* Mutant: only blanks are trimmed before the digits. *)
UnsignedTrimmed(s) == Trim(s)

Unsigned(s) ==
  LET rest == {i \in DOMAIN s : ~Sign(s[i])}
  IN  IF rest = {} THEN <<>> ELSE Trim(SubSeq(s, Least(rest), Len(s)))
ExpField(field) ==
  LET s == Trim(field)
      digits == Unsigned(s)
      signs == {i \in DOMAIN digits : Sign(digits[i])}
      mantissa == SubSeq(digits, 1, Greatest(signs) - 1)
      power == SubSeq(digits, Greatest(signs) + 1, Len(digits))
  IN  IF \A i \in DOMAIN s : s[i] = Digit(0) \/ s[i] = Blank \/ Sign(s[i])
      THEN ZeroTerm
      ELSE IF signs = {} THEN BadTerm
      ELSE IF (mantissa # <<>> /\ ~Digital(mantissa)) \/ ~Digital(power)
      THEN BadTerm
      ELSE Fraction(s[1] = Minus, mantissa,
                    (IF digits[Greatest(signs)] = Minus THEN -1 ELSE 1) * Number(power))

(* The columns of the model's lines. *)
Line1 == [number |-> <<1, 1>>, epoch |-> <<2, 4>>, bstar |-> <<5, 9>>]
Line2 == [number |-> <<1, 1>>, motion |-> <<2, 3>>]
Length1 == 10
Length2 == 4
Columns(line, span) == Trim(SubSeq(line, span[1], span[2]))

Failed(why) == [kind |-> why]
BadLine(line, length) == line[length] # Digit(Checksum(SubSeq(line, 1, length - 1)))
Refusals(line, length) ==
  {Failed("ChecksumMismatch")} \cup (IF BelowZero(line[length]) THEN {Failed("panic")} ELSE {})

(* Tle::parse and parse_lines: blanks at the ends of lines go, then the      *)
(* number of lines, their lengths, both checksums, and the fields in the     *)
(* order they are read; the catalogue number of line 2 is not read.          *)
Fields(l1, l2) ==
  LET number == U32(Columns(l1, Line1.number))
      epoch == Columns(l1, Line1.epoch)
      yy == U32(Trim(SubSeq(epoch, 1, 2)))
      day == F64(Trim(SubSeq(epoch, 3, Len(epoch))))
      bstar == ExpField(Columns(l1, Line1.bstar))
      motion == F64(Columns(l2, Line2.motion))
  IN  IF number = Bad THEN Failed("ParseField")
      ELSE IF Len(epoch) < 2 THEN Failed("panic")            \* split_at past the end
      ELSE IF yy = Bad \/ day = Bad THEN Failed("InvalidEpoch")
      ELSE IF bstar = BadTerm \/ motion = Bad THEN Failed("ParseField")
      ELSE [kind |-> "ok", number |-> number, year |-> FullYear(yy), day |-> day,
            bstar |-> bstar, motion |-> motion]

Parsed(lines) ==
  LET n == Len(lines)
      l1 == TrimEnd(lines[n - 1])
      l2 == TrimEnd(lines[n])
  IN  IF n \notin {2, 3} THEN {Failed("InvalidLineCount")}
      ELSE IF Len(l1) < Length1 \/ Len(l2) < Length2 THEN {Failed("InvalidLineLength")}
      ELSE IF BadLine(l1, Length1) THEN Refusals(l1, Length1)
      ELSE IF BadLine(l2, Length2) THEN Refusals(l2, Length2)
      ELSE {Fields(l1, l2)}

-----------------------------------------------------------------------------
(* The text as the format has it: a blank for plus, the point left out, a    *)
(* check digit at the end of both lines, perhaps a name before them.         *)
TwoDigits(n) == <<Digit(n \div 10), Digit(n % 10)>>
Body1(s) ==
  <<Digit(s.number), Digit(s.yy \div 10), Digit(s.yy % 10), Digit(s.day),
    IF s.neg THEN Minus ELSE Blank, Digit(s.mantissa \div 10), Digit(s.mantissa % 10),
    IF s.exp < 0 THEN Minus ELSE Plus, Digit(IF s.exp < 0 THEN -s.exp ELSE s.exp)>>
Body2(s) == <<Digit(s.number), Blank, Digit(s.motion)>>
Checked(body) == Append(body, Digit(Checksum(body)))
Written(s) == <<Checked(Body1(s)), Checked(Body2(s))>>

Meaning(s) ==
  [kind |-> "ok", number |-> s.number, year |-> FullYear(s.yy), day |-> 10 * s.day,
   bstar |-> Fraction(s.neg, TwoDigits(s.mantissa), s.exp), motion |-> 10 * s.motion]

-----------------------------------------------------------------------------
(* The epoch in whole days; the fraction of a day goes through unchanged.    *)
(* From2000 is the sum the two loops of mjd_at_year_start make.              *)
(* Mutant: no century is a leap year. *)
IsLeapNoCentury(y) == y % 4 = 0 /\ y % 100 # 0

IsLeap(y) == (y % 4 = 0 /\ y % 100 # 0) \/ y % 400 = 0
DaysIn(y) == IF IsLeap(y) THEN 366 ELSE 365
From2000[y \in 1900 .. 2100] ==
  IF y = 2000 THEN 0
  ELSE IF y > 2000 THEN From2000[y - 1] + DaysIn(y - 1)
  ELSE From2000[y + 1] - DaysIn(y)

(* "Jan 0.0", a day before 1 January; epoch_mjd takes a day off as well, as  *)
(* if the year started on 1 January.                                         *)
MjdAtYearStart(y) == (51544 - 1) + From2000[y]
EpochMjd(year, day) == MjdAtYearStart(year) + (day - 1)
EpochDays1950(mjd) == mjd - 33280

(* The calendar, independently: days from 1 January of the year 1 to         *)
(* 1 January of the year y, by counting leap years.  1950 January 0 is the   *)
(* day before 1 January 1950.                                                *)
DaysBefore(y) ==
  365 * (y - 1) + ((y - 1) \div 4) - ((y - 1) \div 100) + ((y - 1) \div 400)
TrueDays1950(year, day) == DaysBefore(year) + day - DaysBefore(1950)
=============================================================================
