------------------------------- MODULE Formats ------------------------------
(* What the ground software is fed with and what it sends: an element set's  *)
(* text is written, perhaps garbled, and parsed; its epoch becomes the       *)
(* propagator's; a packet is built, perhaps changed, serialised, perhaps     *)
(* damaged, and parsed; a constellation is generated.  One behaviour handles *)
(* one item.                                                                 *)
EXTENDS Tle, Frame, Constellation

CONSTANTS ElementSets,   \* element sets as written
          Glyphs,        \* characters that take another's place
          Dates,         \* years and days of the year
          Drafts,        \* headers and data handed to SpacePacket::new
          Lengths,       \* values a caller may put in the public field data_len
          Octets,        \* what data is made of, and what the channel may add
          Specs          \* constellations asked for

(* What the columns of the model's lines can hold.                           *)
ASSUME ElementSetsAssumption ==
  ElementSets \subseteq [number : 0 .. 9, yy : 0 .. 99, day : 0 .. 9, neg : BOOLEAN,
                         mantissa : 0 .. 99, exp : -9 .. 9, motion : 0 .. 9]

(* The fields of a header are unsigned, its flags enumerations.              *)
Headers == [apid : Nat, type : DOMAIN Types, secondary : BOOLEAN, flags : DOMAIN Flags,
            count : Nat, dataLen : Nat]
ASSUME DraftsAssumption ==
  Drafts \subseteq [header : Headers, data : Seq(Octets)] /\ Lengths \subseteq Nat

(* The epoch of an element set has a year of two digits.                     *)
ASSUME DatesAssumption == \A d \in Dates : d.yy \in 0 .. 99 /\ d.day \in Int

(* The fields of a specification are unsigned, and div_ceil needs a plane.   *)
ASSUME SpecsAssumption == Specs \subseteq [total : Nat, planes : Nat \ {0}, phase : Nat]

VARIABLES item,      \* what is handled
          wire,      \* its text or bytes, None while there are none
          fault,     \* what happened to them
          output     \* what the code answers, None before

vars == <<item, wire, fault, output>>

None == [none |-> TRUE]
NoFault == [what |-> "none"]

Name == <<"n">>
Texts(set) == {Written(set), <<Name>> \o Written(set)}

Init ==
  /\ fault = NoFault /\ output = None
  /\ \/ \E set \in ElementSets : \E lines \in Texts(set) :
          item = [kind |-> "text", set |-> set] /\ wire = [lines |-> lines]
     \/ \E date \in Dates : item = [kind |-> "epoch", date |-> date] /\ wire = None
     \/ \E draft \in Drafts : item = [kind |-> "draft", draft |-> draft] /\ wire = None
     \/ \E sp \in Specs : item = [kind |-> "spec", spec |-> sp] /\ wire = None

(* One character of one line becomes another, or the end of a line is lost,  *)
(* or a line.                                                                *)
GarbleText ==
  /\ item.kind = "text" /\ fault = NoFault /\ output = None
  /\ LET n == Len(wire.lines)
     IN  \E l \in {n - 1, n} :
           \/ \E c \in DOMAIN wire.lines[l] : \E g \in Glyphs \ {wire.lines[l][c]} :
                /\ wire' = [wire EXCEPT !.lines[l][c] = g]
                /\ fault' = [what |-> "garbled", line |-> l - (n - 2), column |-> c,
                             was |-> wire.lines[l][c], is |-> g]
           \/ wire' = [wire EXCEPT !.lines[l] = Front(@)] /\ fault' = [what |-> "lost"]
           \/ wire' = [wire EXCEPT !.lines = RemoveAt(@, l)] /\ fault' = [what |-> "lost"]
  /\ UNCHANGED <<item, output>>

ParseText ==
  /\ item.kind = "text" /\ output = None
  /\ output' \in Parsed(wire.lines)
  /\ UNCHANGED <<item, wire, fault>>

TakeEpoch ==
  /\ item.kind = "epoch" /\ output = None
  /\ LET d == item.date
     IN  output' = [days |-> EpochDays1950(EpochMjd(FullYear(d.yy), d.day))]
  /\ UNCHANGED <<item, wire, fault>>

BuildPacket ==
  /\ item.kind = "draft" /\ output = None
  /\ LET p == NewPacket(item.draft.header, item.draft.data)
     IN  IF IsError(p) THEN output' = p /\ UNCHANGED item
         ELSE item' = [kind |-> "packet", packet |-> p] /\ UNCHANGED output
  /\ UNCHANGED <<wire, fault>>

(* The fields of a packet are public: the caller writes either, unchecked.   *)
EditPacket ==
  /\ item.kind = "packet" /\ wire = None /\ output = None
  /\ \/ \E n \in Lengths : item' = [item EXCEPT !.packet.header.dataLen = n]
     \/ \E data \in {d.data : d \in Drafts} : item' = [item EXCEPT !.packet.data = data]
     \/ \E apid \in {d.header.apid : d \in Drafts} :
          item' = [item EXCEPT !.packet.header.apid = apid]
  /\ UNCHANGED <<wire, fault, output>>

SendPacket ==
  /\ item.kind = "packet" /\ wire = None /\ output = None
  /\ LET bytes == PacketBytes(item.packet)
     IN  IF IsError(bytes) THEN output' = bytes /\ UNCHANGED wire
         ELSE wire' = bytes /\ UNCHANGED output
  /\ UNCHANGED <<item, fault>>

(* What a word of the header can hold: sixteen bits of the code, the version  *)
(* three of the first.                                                       *)
WordValues == <<0 .. 8 * (4 * ApidSpan) - 1, 0 .. 4 * CountSpan - 1, 0 .. LengthSpan - 1>>

(* The link loses octets at the end, adds one, or flips bits: of a word of   *)
(* the header, which may become any other, or of an octet of the data.       *)
DamagePacket ==
  /\ item.kind = "packet" /\ wire # None /\ fault = NoFault /\ output = None
  /\ \/ /\ \/ \E n \in 0 .. Len(wire.data) - 1 : wire' = [wire EXCEPT !.data = SubSeq(@, 1, n)]
           \/ wire' = [words |-> <<>>, data |-> <<>>]
        /\ fault' = [what |-> "cut"]
     \/ /\ \E octet \in Octets : wire' = [wire EXCEPT !.data = Append(@, octet)]
        /\ fault' = [what |-> "grown"]
     \/ \E i \in 1 .. 3 : \E w \in WordValues[i] \ {wire.words[i]} :
          /\ wire' = [wire EXCEPT !.words[i] = w]
          /\ fault' = [what |-> "word", at |-> i]
     \/ \E i \in DOMAIN wire.data : \E octet \in Octets \ {wire.data[i]} :
          /\ wire' = [wire EXCEPT !.data[i] = octet]
          /\ fault' = [what |-> "octet", at |-> i]
  /\ UNCHANGED <<item, output>>

ReceivePacket ==
  /\ item.kind = "packet" /\ wire # None /\ output = None
  /\ output' = Parse(wire)
  /\ UNCHANGED <<item, wire, fault>>

GenerateAll ==
  /\ item.kind = "spec" /\ output = None
  /\ output' = [tles |-> Generate(item.spec)]
  /\ UNCHANGED <<item, wire, fault>>

Next ==
  \/ GarbleText \/ ParseText \/ TakeEpoch
  \/ BuildPacket \/ EditPacket \/ SendPacket \/ DamagePacket \/ ReceivePacket
  \/ GenerateAll

Spec == Init /\ [][Next]_vars

-----------------------------------------------------------------------------
Done == output # None

(* A text nobody garbled is read as it was meant: with a name line or        *)
(* without, a blank for a plus sign, the point before the first digit, a     *)
(* negative value with a negative exponent told from both by its signs.      *)
(* With one character garbled, in either line, the check column included, it *)
(* is refused unless the checksum gives both characters the same weight,     *)
(* which is all the defence the parser has; a lost character or line is      *)
(* refused.  It panics only for a check column below '0'.                    *)
OnlyWhatWasWritten ==
  (Done /\ item.kind = "text") =>
    CASE fault.what = "none" -> output = Meaning(item.set)
      [] fault.what = "lost" -> output.kind \in {"InvalidLineCount", "InvalidLineLength"}
      [] fault.what = "garbled" ->
           /\ output.kind = "ok" =>
                /\ Weight(fault.was) = Weight(fault.is)
                /\ fault.column < Len(Written(item.set)[fault.line])
           /\ output.kind = "panic" =>
                /\ BelowZero(fault.is)
                /\ fault.column = Len(Written(item.set)[fault.line])

(* The propagator starts from the right day, in every year a two-digit epoch *)
(* can name, on every day of it: across the pivot of the two-digit years,    *)
(* 29 February, the leap century.  epoch_mjd is a day less than the Modified *)
(* Julian Date, and epoch_days_1950 counts from a day too early: the two     *)
(* errors cancel.                                                            *)
StartsOnTheRightDay ==
  (Done /\ item.kind = "epoch") =>
    output.days = TrueDays1950(FullYear(item.date.yy), item.date.day)

(* A packet carries no check of its contents, only a version and a length,   *)
(* and that decides what the link can do to it.  One whose length is that of *)
(* its data arrives as it was sent, each header field at both ends of its    *)
(* range beside the others; cut, grown, with another length or a version bit *)
(* set it is refused.  Other flipped bits arrive and nothing tells, but they *)
(* stay in their place: a word changes its own fields and no other, an octet *)
(* itself.  A packet sent with a stale length, which nothing in new or       *)
(* to_bytes prevents, arrives only if damage made the lengths agree.  What   *)
(* arrives, serialised again, gives the very bytes that came, so that no two *)
(* packets share an encoding.                                                *)
Honest == item.packet.header.dataLen = Len(item.packet.data)
FieldsOf == <<{"apid", "type", "secondary"}, {"flags", "count"}, {"dataLen"}>>
DiffersAt(a, b, places) == a # b /\ \A x \in DOMAIN a \ places : a[x] = b[x]
ArrivesDamaged ==
  CASE fault.what \in {"cut", "grown"} -> IsError(output)
    [] fault.what = "word" ->
         IF fault.at = 3 \/ wire.words[1] >= 4 * ApidSpan THEN IsError(output)
         ELSE /\ output.data = item.packet.data
              /\ DiffersAt(output.header, item.packet.header, FieldsOf[fault.at])
    [] fault.what = "octet" ->
         /\ output.header = item.packet.header
         /\ DiffersAt(output.data, item.packet.data, {fault.at})
PacketsSurvive ==
  (Done /\ item.kind = "packet" /\ wire # None) =>
    /\ (Honest /\ fault = NoFault) => output = item.packet
    /\ (Honest /\ fault # NoFault) => ArrivesDamaged
    /\ (~Honest /\ fault.what \in {"none", "octet"}) => IsError(output)
    /\ ~IsError(output) => PacketBytes(output) = wire

(* Every satellite asked for is generated, although the slots of a plane are *)
(* rounded up and the last planes may be left short or empty: no number is   *)
(* given twice, no plane is begun before the one before it is full, none     *)
(* takes more than its slots, none is taken that was not asked for.  Two     *)
(* satellites of a plane are in one place exactly when their steps around it *)
(* come to whole turns, which phasing, counted by the slot, can bring about. *)
FillsThePlanes ==
  (Done /\ item.kind = "spec") =>
    LET sp == item.spec
        tles == output.tles
    IN  /\ Len(tles) = sp.total
        /\ \A i, j \in DOMAIN tles : i < j =>
             /\ tles[i].satellite # tles[j].satellite
             /\ tles[i].raan <= tles[j].raan /\ tles[j].raan < sp.planes
             /\ tles[i].raan = tles[j].raan =>
                  /\ j - i < PerPlane(sp)
                  /\ tles[i].anomaly = tles[j].anomaly
                       <=> ((j - i) * (sp.total + sp.phase * PerPlane(sp))) % FullTurn(sp) = 0
             /\ tles[i].raan + 1 < tles[j].raan => j - i > PerPlane(sp)

(* ConstellationSpec has the "Parameters for a Walker-delta constellation"   *)
(* with the "Walker phasing parameter F (0..planes-1)": in planes of equal   *)
(* size, neighbours in a plane are a slot apart, and so many F of the turn   *)
(* divided by the satellites lie between the same slots of two neighbouring  *)
(* planes.  The code counts the phase by the slot, not by the plane.         *)
IsWalkerDelta ==
  (Done /\ item.kind = "spec") =>
    LET sp == item.spec
        Apart(i, j) == (output.tles[j].anomaly - output.tles[i].anomaly) % FullTurn(sp)
    IN  (sp.total > 0 /\ sp.total % sp.planes = 0 /\ sp.phase < sp.planes) =>
          /\ \A i \in 1 .. sp.total - 1 :
               output.tles[i].raan = output.tles[i + 1].raan => Apart(i, i + 1) = sp.total
          /\ \A i \in 1 .. sp.total - PerPlane(sp) :
               Apart(i, i + PerPlane(sp)) = sp.phase * PerPlane(sp)
=============================================================================
