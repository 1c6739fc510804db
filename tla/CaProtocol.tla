----------------------------- MODULE CaProtocol -----------------------------
(***************************************************************************)
(* The layout of the Channel Access diode datagrams (protocol.h            *)
(* and protocol.cpp): the sizes every packing decision is made with, and   *)
(* the datagrams as records.  Sizes are in bytes and are those of the code;*)
(* only the maximum message size is a parameter, so that runs can use a    *)
(* message that overflows with a handful of values.                        *)
(***************************************************************************)
EXTENDS Integers

CONSTANTS MaxMessageSize,  \* MAX_MESSAGE_SIZE: 65504 in the code
          SeqMod           \* 2^16 in the code: seq_no is a uint16_t

ASSUME MaxMessageSizeAssumption == MaxMessageSize \in Nat /\ MaxMessageSize >= 56
ASSUME SeqModAssumption == SeqMod \in Nat /\ SeqMod >= 2

HeaderSize == 24            \* Header::size
SubmessageHeaderSize == 4   \* SubmessageHeader::size
Alignment == 8              \* SubmessageHeader::alignment
CADataMessageSize == 4      \* CADataMessage::size
CAChannelDataSize == 8      \* CAChannelData::size
CAFragDataMessageSize == 16 \* CAFragDataMessage::size

(* What is left of the send buffer once the headers of a data message, and *)
(* of a fragment message, are in it.                                       *)
DataRoom == MaxMessageSize - HeaderSize - SubmessageHeaderSize - CADataMessageSize
FragRoom == MaxMessageSize - HeaderSize - SubmessageHeaderSize - CAFragDataMessageSize

(* CAChannelData::max_data_size *)
MaxDataSize == DataRoom - CAChannelDataSize

(* Serializer::pad_align and pos_align: round up to the alignment. *)
AlignUp(n) == IF n % Alignment = 0 THEN n ELSE n + (Alignment - (n % Alignment))

(* The room one channel entry takes: its header, its value, the padding. *)
EntrySize(size) == AlignUp(CAChannelDataSize + size)

(* uint16_t arithmetic on sequence numbers; a deviation never wraps. *)
NextSeq_no_wrap(s) == s + 1
NextSeq(s) == (s + 1) % SeqMod
SeqDiff(s, t) == (s - t + SeqMod) % SeqMod
NoSeq == SeqMod - 1         \* (uint16_t)-1

(* A datagram with a CADataMessage: upd maps the channels in it to the     *)
(* values sent for them.                                                   *)
DataMsg(startup, seq, upd) ==
  [kind |-> "data", startup |-> startup, seq |-> seq, upd |-> upd]

(* A datagram with a CAFragDataMessage.  The payload is the no-th slice,   *)
(* of fsize bytes, of the value val of channel ch; count and type, which   *)
(* tell the size of the whole value, are part of val.                      *)
FragMsg(startup, seq, no, ch, val, fsize) ==
  [kind |-> "frag", startup |-> startup, seq |-> seq, no |-> no,
   ch |-> ch, val |-> val, fsize |-> fsize]
=============================================================================
