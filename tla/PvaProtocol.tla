---------------------------- MODULE PvaProtocol -----------------------------
(***************************************************************************)
(* The layout of the pvAccess diode datagrams (pva/protocol.h,             *)
(* pva_protocol.cpp) and the caches of type definitions both ends keep.    *)
(*                                                                         *)
(* A structure has the fields Field, all of FieldBytes bytes, which are    *)
(* written in order after a bit mask of MaskBytes that says which of them  *)
(* follow.  pvxs writes through a FixedBuf, which refuses everything after *)
(* the first item that does not fit; the diode's own headers go through a  *)
(* Serializer, whose good flag knows nothing of the FixedBuf.              *)
(***************************************************************************)
EXTENDS CaProtocol, Sequences, FiniteSets

CONSTANTS Field,       \* fields of a structure: numbers, in wire order
          Data,        \* what a field holds; Default before it is set
          Default,
          Torn,        \* bytes that are not a value of the field
          Type,        \* structure types
          Builtin,     \* the types buildTypeCache puts first, a sequence
          NoType,      \* an empty slot of the receiver's cache
          NoValue,     \* a null pvxs::Value
          FieldBytes, MaskBytes,
          TypeBytes    \* TypeBytes[t]: size of the serialized definition

ASSUME FieldAssumption ==
  Field \subseteq Nat /\ IsFiniteSet(Field) /\ Default \in Data /\ Torn \notin Data
ASSUME TypeAssumption == Builtin \in Seq(Type) /\ NoType \notin Type
ASSUME SizeAssumption ==
  FieldBytes \in Nat /\ MaskBytes \in Nat /\ TypeBytes \in [Type -> Nat]

PVATypeDefMessageSize == 4  \* PVATypeDefMessage::size
PVADataMessageSize == 4     \* PVADataMessage::size
PVAChannelDataSize == 5     \* PVAChannelData::size, which ensure asks for

(* What operator<< then writes: id, update_seq_no and update_type take 7   *)
(* bytes, and a full update has its type_id.                               *)
ChannelDataBytes(kind) == IF kind = "Full" THEN 9 ELSE 7

TypeDefRoom == MaxMessageSize - HeaderSize - SubmessageHeaderSize - PVATypeDefMessageSize
PVADataRoom == MaxMessageSize - HeaderSize - SubmessageHeaderSize - PVADataMessageSize

(* Whether the good flag survives the header of an update, with room bytes *)
(* left, and whether the header runs past the end of the buffer, which the *)
(* assertion of Serializer::position finds.                                *)
HeaderFits(room, kind) ==
  /\ room >= PVAChannelDataSize
  /\ kind = "Full" => room >= ChannelDataBytes("Full")
HeaderOverruns(room) == room \in PVAChannelDataSize .. ChannelDataBytes("Partial") - 1

(* to_wire_valid into a FixedBuf with room bytes: the fields of bits that  *)
(* are written, up to the first that does not fit, and the bytes taken.    *)
FieldsWritten(bits, room) ==
  {f \in bits : MaskBytes + FieldBytes * Cardinality({g \in bits : g <= f}) <= room}
ValueBytes(bits, room) ==
  IF MaskBytes > room THEN 0
  ELSE MaskBytes + FieldBytes * Cardinality(FieldsWritten(bits, room))

(* What the receiver takes for the mask; other bytes, if that was cut.     *)
MaskRead(bits, room) == IF MaskBytes > room THEN Field ELSE bits

(* A structure as its type and the contents of its fields. *)
Struct(t, v) == [type |-> t, val |-> v]
cloneEmpty(t) == Struct(t, [f \in Field |-> Default])

(* One update in a PVADataMessage.  of is the whole structure at the       *)
(* sender, bits the mask, got the fields that fit; sess and no (history)   *)
(* are the connection of the channel to its source and the count of        *)
(* updates before this one in it.                                          *)
ChannelData(ch, useq, kind, tid, of, bits, got, sess, no) ==
  [ch |-> ch, useq |-> useq, kind |-> kind, tid |-> tid, of |-> of,
   bits |-> bits, got |-> got, sess |-> sess, no |-> no]

PVADataMsg(startup, seq, upd) ==
  [kind |-> "data", startup |-> startup, seq |-> seq, upd |-> upd]
PVATypeDefMsg(startup, start_id, types) ==
  [kind |-> "typedef", startup |-> startup, start_id |-> start_id, types |-> types]

(* cacheType: the type_id (from 0) of a type, which is appended when it is *)
(* not in the cache.                                                       *)
CachedAt(cache, t) == {i \in 1 .. Len(cache) : cache[i] = t}
TypeId(cache, t) ==
  IF CachedAt(cache, t) = {} THEN Len(cache)
  ELSE CHOOSE i \in 0 .. Len(cache) - 1 :
         /\ i + 1 \in CachedAt(cache, t)
         /\ \A j \in CachedAt(cache, t) : i < j
cacheType(cache, t) == IF CachedAt(cache, t) = {} THEN Append(cache, t) ELSE cache

(* buildinCacheSize *)
BuildinCacheSize == Len(Builtin)
=============================================================================
