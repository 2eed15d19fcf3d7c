-------------------------------- MODULE Frame -------------------------------
(* CCSDS space packets, rf-pipeline/src/frame.rs.  The header is three       *)
(* words, packed and unpacked by arithmetic on fields of so many values each *)
(* (2^11, 2^14 and 2^16 in the code: a shift is a product or a quotient).    *)
EXTENDS Integers, Sequences

CONSTANTS ApidSpan, CountSpan, LengthSpan

ASSUME FrameAssumption == {ApidSpan, CountSpan, LengthSpan} \subseteq Nat \ {0}

Error(what) == [error |-> what]
IsError(r) == "error" \in DOMAIN r

(* PacketType and SequenceFlags by their bits. *)
Types == [Telemetry |-> 0, Telecommand |-> 1]
Flags == [Continuation |-> 0, First |-> 1, Last |-> 2, Unsegmented |-> 3]
Named(codes, n) == CHOOSE name \in DOMAIN codes : codes[name] = n

MaxApid == ApidSpan - 1
MaxCount == CountSpan - 1
MaxDataLen == LengthSpan

Header(apid, type, secondary, flags, count, len) ==
  [apid |-> apid, type |-> type, secondary |-> secondary, flags |-> flags,
   count |-> count, dataLen |-> len]

(* SpacePacketHeader::to_bytes: the range checks in order, then three words. *)
HeaderBytes(h) ==
  IF h.apid > MaxApid THEN Error("apid")
  ELSE IF h.count > MaxCount THEN Error("sequence_count")
  ELSE IF h.dataLen = 0 \/ h.dataLen > MaxDataLen THEN Error("data_len")
  ELSE [words |-> <<Types[h.type] * (2 * ApidSpan)
                      + (IF h.secondary THEN ApidSpan ELSE 0) + h.apid,
                    Flags[h.flags] * CountSpan + h.count,
                    h.dataLen - 1>>]

(* Mutant: the length read as it is written. *)
ParseHeaderShort(w) ==
  IF w[1] \div (4 * ApidSpan) # 0 THEN Error("version")
  ELSE Header(w[1] % ApidSpan,
              Named(Types, (w[1] \div (2 * ApidSpan)) % 2),
              (w[1] \div ApidSpan) % 2 = 1,
              Named(Flags, (w[2] \div CountSpan) % 4),
              w[2] % CountSpan, w[3])

(* SpacePacketHeader::from_bytes. *)
ParseHeader(w) ==
  LET version == w[1] \div (4 * ApidSpan)
  IN  IF version # 0 THEN Error("version")
      ELSE Header(w[1] % ApidSpan,
                  Named(Types, (w[1] \div (2 * ApidSpan)) % 2),
                  (w[1] \div ApidSpan) % 2 = 1,
                  Named(Flags, (w[2] \div CountSpan) % 4),
                  w[2] % CountSpan, w[3] + 1)

(* SpacePacket::from_bytes: too short, then a bad header, then a data field  *)
(* of another length.  A wire cut inside the header has no words.            *)
Parse(bytes) ==
  LET h == ParseHeader(bytes.words)
  IN  IF bytes.words = <<>> THEN Error("truncated")
      ELSE IF IsError(h) THEN h
      ELSE IF Len(bytes.data) # h.dataLen THEN Error("length")
      ELSE [header |-> h, data |-> bytes.data]

(* SpacePacket::new: data_len comes from the data, whatever the caller put   *)
(* there; a header that cannot be written is refused.                        *)
NewPacket(h, data) ==
  LET header == [h EXCEPT !.dataLen = Len(data)]
  IN  IF IsError(HeaderBytes(header)) THEN HeaderBytes(header)
      ELSE [header |-> header, data |-> data]

(* SpacePacket::to_bytes writes the header as it stands: nothing compares    *)
(* data_len with the data.                                                   *)
PacketBytes(p) ==
  IF IsError(HeaderBytes(p.header)) THEN HeaderBytes(p.header)
  ELSE [words |-> HeaderBytes(p.header).words, data |-> p.data]
=============================================================================
