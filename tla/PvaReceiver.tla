---------------------------- MODULE PvaReceiver -----------------------------
(***************************************************************************)
(* The PVA receiver (pva_receiver.cpp) and the server it feeds             *)
(* (pvadiode_receiver.cpp): one SharedPV per channel, created with the     *)
(* first value, closed when the channel is lost and opened again with the  *)
(* next value.                                                             *)
(***************************************************************************)
EXTENDS PvaProtocol

CONSTANTS Chan,
          NotServed,   \* the SharedPV does not exist yet
          Closed       \* it exists and is closed

VARIABLES last_seq_no, last_startup_time,
          rcvTypes,    \* typeCache of the receiver
          rch,         \* rch[c]: struct Channel
          pv,          \* pv[c]: what the SharedPV of c shows
          base         \* history: base[c], the sender's structure when it
                       \* sent the last update accepted, the count of that
                       \* update, and the connection of the last full one:
                       \* 0 once an update was accepted that was cut, of
                       \* another connection, or came round

rcvVars == <<last_seq_no, last_startup_time, rcvTypes, rch, pv, base>>

RcvInit ==
  /\ last_seq_no = NoSeq
  /\ last_startup_time = 0
  /\ rcvTypes = Builtin
  /\ rch = [c \in Chan |-> [last_update_seqno |-> 0, last_value |-> NoValue,
                            disconnected |-> FALSE]]
  /\ pv = [c \in Chan |-> NotServed]
  /\ base = [c \in Chan |-> [of |-> NoValue, no |-> 0, full |-> 0]]

(* validate_sender *)
Older(pkt) == pkt.startup < last_startup_time
validate_sender(pkt) == ~Older(pkt) /\ last_startup_time' = pkt.startup
BaseSeq(pkt) == IF pkt.startup > last_startup_time THEN NoSeq ELSE last_seq_no

(* validate_order: the number is remembered in any case, and a repeated    *)
(* message passes.                                                         *)
InOrder(pkt) == SeqDiff(pkt.seq, BaseSeq(pkt)) < (SeqMod - 1) \div 2

ReceiveOlder(pkt) == Older(pkt) /\ UNCHANGED rcvVars

(* The callback of pvadiode_receiver. *)
Served(p, value) ==
  IF value # NoValue THEN value
  ELSE IF p = NotServed THEN NotServed ELSE Closed

(* Whether an update is applied: a partial one needs a value and the next  *)
(* update_seq_no, a full one a known type.  Deviations: the number is not  *)
(* looked at; only the built-in types are known.                           *)
PartialFollows_any(e) == rch[e.ch].last_value # NoValue
PartialFollows(e) ==
  /\ rch[e.ch].last_value # NoValue
  /\ e.useq = NextSeq(rch[e.ch].last_update_seqno)
TypeKnown_builtin(e) == e.tid < BuildinCacheSize
TypeKnown(e) == e.tid < Len(rcvTypes) /\ rcvTypes[e.tid + 1] # NoType
Applied(e) == IF e.kind = "Partial" THEN PartialFollows(e) ELSE TypeKnown(e)

(* operator>> into the last value: the fields sent are overwritten.  Those *)
(* that were cut off, and all of them when the types differ, are read from *)
(* other bytes.                                                            *)
Target(e) ==
  IF rch[e.ch].last_value = NoValue THEN cloneEmpty(rcvTypes[e.tid + 1])
  ELSE rch[e.ch].last_value
Decoded(e) ==
  LET t == Target(e)
  IN Struct(t.type, [f \in Field |->
       IF t.type # e.of.type THEN Torn
       ELSE IF f \in e.got THEN e.of.val[f]
       ELSE IF f \in e.bits THEN Torn ELSE t.val[f]])

(* An update is left where it is when it is dropped, and read too far when *)
(* it was cut: what follows it in the message is then read from the wrong  *)
(* place.  One of another type than the last value may take any number of  *)
(* bytes.  Ends are the numbers of updates that may be read in step; the   *)
(* last of them may be one that is not.                                    *)
Lost(e) == ~Applied(e) \/ e.got # e.bits
MayLose(e) == Lost(e) \/ Target(e).type # e.of.type
Ends(upd) ==
  {n \in 0 .. Len(upd) : /\ \A i \in 1 .. n - 1 : ~Lost(upd[i])
                         /\ n = Len(upd) \/ (n > 0 /\ MayLose(upd[n]))}

Read(upd, n) == {upd[i] : i \in 1 .. n}

(* What updates read from the wrong place may do to a channel: nothing, or *)
(* notify that it is disconnected (NoType), or overwrite it, or a new      *)
(* structure of a known type, with other bytes.                            *)
Misreads ==
  {<< >>} \cup {<<n, t>> : n \in 0 .. SeqMod - 1,
                         t \in {NoType} \cup {rcvTypes[i] : i \in 1 .. Len(rcvTypes)}}

Misread(ch, m) ==
  IF m = << >> THEN ch
  ELSE [last_update_seqno |-> m[1], disconnected |-> m[2] = NoType,
        last_value |->
          IF m[2] = NoType THEN NoValue
          ELSE Struct(IF ch.last_value = NoValue THEN m[2] ELSE ch.last_value.type,
                      [f \in Field |-> Torn])]

(* The updates in read are those up to the first that is not in step.      *)
AfterUpdate(c, read) ==
  IF \E e \in read : e.ch = c
  THEN LET e == CHOOSE e \in read : e.ch = c
       IN IF Applied(e)
          THEN [last_update_seqno |-> e.useq, last_value |-> Decoded(e), disconnected |-> FALSE]
          ELSE [rch[c] EXCEPT !.disconnected = FALSE]
  ELSE rch[c]

(* History: an update that has the number of the next one and is not the   *)
(* next one, since all numbers came between.                               *)
CameRound(e, b) == e.no # b.no + 1 /\ e.no % SeqMod = (b.no + 1) % SeqMod
Follows(e, b) == b.full = e.sess /\ ~CameRound(e, b)

BaseAfter(c, read) ==
  IF \E e \in read : e.ch = c /\ Applied(e)
  THEN LET e == CHOOSE e \in read : e.ch = c
       IN [of |-> e.of, no |-> e.no,
           full |-> IF e.got = e.bits /\ (e.kind = "Full" \/ Follows(e, base[c]))
                    THEN e.sess ELSE 0]
  ELSE base[c]

(* A PVADataMessage.  Every channel occurs once, so the updates do not     *)
(* depend on one another until one is misread.                             *)
ReceiveData(pkt) ==
  /\ pkt.kind = "data"
  /\ validate_sender(pkt)
  /\ last_seq_no' = pkt.seq
  /\ UNCHANGED rcvTypes
  /\ \/ ~InOrder(pkt) /\ UNCHANGED <<rch, pv, base>>
     \/ /\ InOrder(pkt)
        /\ \E n \in Ends(pkt.upd) :
             LET read == Read(pkt.upd, n)
                 called(c) == \E e \in read : e.ch = c /\ Applied(e)
             IN \E m \in [Chan -> IF n < Len(pkt.upd) THEN Misreads ELSE {<< >>}] :
                  /\ rch' = [c \in Chan |-> Misread(AfterUpdate(c, read), m[c])]
                  /\ pv' = [c \in Chan |-> IF m[c] # << >> \/ called(c)
                                          THEN Served(pv[c], rch'[c].last_value) ELSE pv[c]]
                  /\ base' = [c \in Chan |-> IF m[c] = << >> THEN BaseAfter(c, read)
                                            ELSE [base[c] EXCEPT !.full = 0]]

(* A PVATypeDefMessage is applied in any order; a slot that is taken is    *)
(* left alone.                                                             *)
Slot(pkt, i) == i - pkt.start_id
ReceiveTypedef(pkt) ==
  LET n == pkt.start_id + Len(pkt.types)
      size == IF pkt.types # << >> /\ n > Len(rcvTypes) THEN n ELSE Len(rcvTypes)
      old(i) == IF i <= Len(rcvTypes) THEN rcvTypes[i] ELSE NoType
  IN /\ pkt.kind = "typedef"
     /\ validate_sender(pkt)
     /\ last_seq_no' = BaseSeq(pkt)
     /\ rcvTypes' = [i \in 1 .. size |->
          IF old(i) = NoType /\ Slot(pkt, i) \in DOMAIN pkt.types
          THEN pkt.types[Slot(pkt, i)] ELSE old(i)]
     /\ UNCHANGED <<rch, pv, base>>

(* receive_updates *)
Receive(pkt) == ReceiveOlder(pkt) \/ ReceiveData(pkt) \/ ReceiveTypedef(pkt)

(* check_no_updates, for channels without an update for two heartbeat      *)
(* periods: the last value is kept, the SharedPV closed.                   *)
CheckNoUpdates(S) ==
  /\ S # {} /\ \A c \in S : ~rch[c].disconnected
  /\ rch' = [c \in Chan |-> IF c \in S THEN [rch[c] EXCEPT !.disconnected = TRUE] ELSE rch[c]]
  /\ pv' = [c \in Chan |-> IF c \in S THEN Served(pv[c], NoValue) ELSE pv[c]]
  /\ UNCHANGED <<last_seq_no, last_startup_time, rcvTypes, base>>
=============================================================================
