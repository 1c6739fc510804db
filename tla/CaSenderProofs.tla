--------------------------- MODULE CaSenderProofs ---------------------------
(***************************************************************************)
(* Proofs about CaSender, for any number of channels and fields, any sizes *)
(* and any periods.                                                        *)
(***************************************************************************)
EXTENDS CaSender, TLAPS, NatSets

(* The loop counter's period and the room for a fragment are positive. *)
LEMMA Positive == Period \in Nat \ {0} /\ FragRoom \in Nat \ {0}
  <1>1. HbIterations * PfIterations \in Nat \ {0}
    BY IterationAssumption, Z3
  <1> QED
    BY <1>1, MaxMessageSizeAssumption
    DEF Period, FragRoom, HeaderSize, SubmessageHeaderSize, CAFragDataMessageSize

(* Sequence numbers stay in range. *)
LEMMA NextSeqType == ASSUME NEW s \in Nat PROVE NextSeq(s) \in 0 .. SeqMod - 1
  BY SeqModAssumption DEF NextSeq

(* The size of a cached value is a number. *)
LEMMA ValueSizeType == ASSUME TypeOK, NEW c \in Chan PROVE ValueSize(c) \in Nat
  BY SizeAssumption DEF TypeOK, ChanType, ValueSize, Pv

(* The parent of a channel is a record. *)
LEMMA ParentType ==
  ASSUME NEW c \in Chan PROVE ParentIndex[c] \in Parents /\ ParentIndex[c] \in Chan
  BY ParentAssumption DEF Parents

(* What marking does to the queue: nothing, or one record joins its end. *)
Marked(p) ==
  \/ UNCHANGED <<pending_update, update_deque>>
  \/ /\ ~pending_update[p]
     /\ pending_update' = [pending_update EXCEPT ![p] = TRUE]
     /\ update_deque' = Append(update_deque, p)

(* mark_update and mark_heartbeat_update both amount to that, and keep the *)
(* types.                                                                  *)
LEMMA MarkType ==
  ASSUME QueueType, NEW c \in Chan, mark_update(c) \/ mark_heartbeat_update(c)
  PROVE  Marked(ParentIndex[c]) /\ QueueType'
  <1>0. /\ pending_update \in [Chan -> BOOLEAN]
        /\ updates_since_last_hb \in [Chan -> Nat]
        /\ update_deque \in Seq(Parents)
    BY DEF QueueType
  <1> DEFINE p == ParentIndex[c]
  <1>1. p \in Parents /\ p \in Chan
    BY ParentType
  <1>2. Marked(p) /\ updates_since_last_hb' \in [Chan -> Nat]
    <2>1. CASE mark_update(c)
      <3>1. CASE pending_update[p]
        BY <1>0, <2>1, <3>1 DEF mark_update, queueVars, Marked
      <3>2. CASE ~pending_update[p]
        <4>1. /\ pending_update' = [pending_update EXCEPT ![p] = TRUE]
              /\ update_deque' = Append(update_deque, p)
              /\ updates_since_last_hb' =
                   [updates_since_last_hb EXCEPT ![p] = updates_since_last_hb[p] + 1]
          BY <2>1, <3>2 DEF mark_update
        <4>2. updates_since_last_hb[p] + 1 \in Nat
          BY <1>0, <1>1
        <4> QED BY <1>0, <3>2, <4>1, <4>2 DEF Marked
      <3> QED BY <3>1, <3>2
    <2>2. CASE mark_heartbeat_update(c)
      BY <1>0, <1>1, <2>2 DEF mark_heartbeat_update, Marked
    <2> QED BY <2>1, <2>2
  <1> HIDE DEF p
  <1>3. pending_update' \in [Chan -> BOOLEAN]
    BY <1>0, <1>1, <1>2 DEF Marked
  <1>4. update_deque' \in Seq(Parents)
    <2>1. Append(update_deque, p) \in Seq(Parents)
      BY <1>0, <1>1
    <2> QED BY <1>0, <1>2, <2>1 DEF Marked
  <1> QED
    BY <1>2, <1>3, <1>4 DEF p, QueueType

(* clear_update keeps the types if the queue is not empty. *)
LEMMA ClearType ==
  ASSUME QueueType, update_deque # << >>, clear_update
  PROVE  QueueType'
  <1>1. Head(update_deque) \in Parents /\ Tail(update_deque) \in Seq(Parents)
    BY DEF QueueType
  <1>2. Head(update_deque) \in Chan
    BY <1>1 DEF Parents
  <1> QED
    BY <1>1, <1>2 DEF QueueType, clear_update

(* Connections, subscriptions and events that are due go together: nothing *)
(* is cached for or due from an unreachable PV, a reachable one has a type,*)
(* an event is due only to a subscription, and that has the channel's type.*)
ConnInv ==
  \A c \in Chan :
    /\ src[c] = None => value[c] = None /\ ~evq[c] /\ ~getq[c]
    /\ src[c] # None => type[c] # None
    /\ evq[c] => event_id[c] # None
    /\ getq[c] => c \in Polled
    /\ event_id[c] # None => c \notin Polled /\ event_id[c].type = type[c]

(* A message exists only while it is built; a fragmented update is the one *)
(* at the front of the queue and is one that needs fragments.              *)
LoopInv ==
  /\ pc # "build" => msg.chans = {}
  /\ (pc = "fragging") <=> (frag # None)
  /\ pc = "fragging" =>
       /\ update_deque # << >> /\ frag.ch = Head(update_deque)
       /\ frag.rest > 0
       /\ ValueSize(frag.ch) > MaxDataSize

(* The hash kept for a polled field is that of the value kept. *)
HashInv ==
  \A c \in Polled : value[c] # None => value_hash[c] = HashOf[value[c].data]

(* Type correctness is not inductive by itself: that a monitor event       *)
(* carries a value needs ConnInv, that a fragment is of the queue's front  *)
(* needs LoopInv.                                                          *)
TypeInv == TypeOK /\ ConnInv /\ LoopInv

(* The inductive invariant holds initially. *)
LEMMA TypeInit == Init => TypeInv
  <1> SUFFICES ASSUME Init PROVE TypeInv
    OBVIOUS
  <1>1. TypeOK
    BY NAssumption, Positive, SeqModAssumption 
    DEF Init, TypeOK, IocType, ChanType, QueueType, LoopType, WireType, Chan, Parents
  <1>2. ConnInv /\ LoopInv
    BY DEF Init, ConnInv, LoopInv
  <1> QED BY <1>1, <1>2 DEF TypeInv

(* The types of the variables a step leaves alone. *)
LEMMA Kept ==
  /\ IocType /\ UNCHANGED iocVars => IocType'
  /\ ChanType /\ UNCHANGED chanVars => ChanType'
  /\ QueueType /\ UNCHANGED queueVars => QueueType'
  /\ LoopType /\ UNCHANGED loopVars => LoopType'
  /\ WireType /\ UNCHANGED wireVars => WireType'
  BY DEF IocType, ChanType, QueueType, LoopType, WireType,
         iocVars, chanVars, queueVars, loopVars, wireVars

(* Every step keeps the inductive invariant: one case per action. *)
LEMMA TypeStep == TypeInv /\ [Next]_vars => TypeInv'
  <1> SUFFICES ASSUME TypeInv, [Next]_vars PROVE TypeInv'
    OBVIOUS
  <1>0. /\ IocType /\ ChanType /\ QueueType /\ LoopType /\ WireType
        /\ ConnInv /\ LoopInv
    BY DEF TypeInv, TypeOK
  <1> SUFFICES /\ IocType' /\ ChanType' /\ QueueType' /\ LoopType' /\ WireType'
               /\ ConnInv' /\ LoopInv'
    BY DEF TypeInv, TypeOK
  <1>1. ASSUME NEW c \in Chan, IocWrite(c)
        PROVE  /\ IocType' /\ ChanType' /\ QueueType' /\ LoopType' /\ WireType'
               /\ ConnInv' /\ LoopInv'
    <2>1. ChanType' /\ QueueType' /\ LoopType' /\ WireType'
      BY <1>0, <1>1, Kept DEF IocWrite
    <2>2. IocType'
      BY <1>0, <1>1 DEF IocWrite, IocType, Pv
    <2>3. ConnInv'
      <3>1. \A x \in Chan : src'[x] = None => src[x] = None
        BY <1>0, <1>1, NoneAssumption DEF IocWrite, IocType, Pv
      <3>2. \A x \in Chan : src[x] = None => src'[x] = None
        BY <1>0, <1>1 DEF IocWrite, IocType
      <3>3. \A x \in Chan : evq'[x] => evq[x] \/ (x = c /\ event_id[c] # None)
        BY <1>0, <1>1 DEF IocWrite, IocType
      <3>4. UNCHANGED <<getq, event_id, type, value>> /\ src[c] # None
        BY <1>1 DEF IocWrite, chanVars
      <3> QED BY <1>0, <3>1, <3>2, <3>3, <3>4 DEF ConnInv
    <2>4. LoopInv'
      BY <1>0, <1>1 DEF IocWrite, LoopInv, ValueSize, chanVars, queueVars, loopVars, wireVars
    <2> QED BY <2>1, <2>2, <2>3, <2>4
  <1>2. ASSUME NEW c \in Chan, ConnUp(c)
        PROVE  /\ IocType' /\ ChanType' /\ QueueType' /\ LoopType' /\ WireType'
               /\ ConnInv' /\ LoopInv'
    <2>1. QueueType' /\ LoopType' /\ WireType'
      BY <1>0, <1>2, Kept DEF ConnUp
    <2>2. IocType'
      BY <1>0, <1>2 DEF ConnUp, IocType
    <2>3. ChanType'
      BY <1>0, <1>2 DEF ConnUp, ChanType, Pv
    <2>4. ConnInv'
      <3>1. PICK v \in Pv :
              /\ src' = [src EXCEPT ![c] = v]
              /\ type' = [type EXCEPT ![c] = v.type]
              /\ IF c \notin Polled /\ Resubscribe(c, v.type)
                 THEN \E id \in {[type |-> v.type, count |-> v.count], None} :
                        event_id' = [event_id EXCEPT ![c] = id]
                 ELSE event_id' = event_id
        BY <1>2 DEF ConnUp
      <3>2. v.type \in Types /\ v # None /\ v.type # None
        BY NoneAssumption DEF Pv
      <3>4. \A x \in Chan \ {c} :
              /\ src'[x] = src[x] /\ type'[x] = type[x] /\ event_id'[x] = event_id[x]
              /\ evq'[x] = evq[x] /\ getq'[x] = getq[x] /\ value'[x] = value[x]
        BY <1>0, <1>2, <3>1 DEF ConnUp, IocType, ChanType
      <3>5. /\ src[c] = None /\ src'[c] = v /\ type'[c] = v.type
            /\ evq'[c] = (event_id'[c] # None) /\ getq'[c] = getq[c]
        BY <1>0, <1>2, <3>1 DEF ConnUp, IocType, ChanType
      <3>6. event_id'[c] # None => c \notin Polled /\ event_id'[c].type = v.type
        BY <1>0, <3>1 DEF ConnInv, ChanType, Resubscribe
      <3> QED
        BY <1>0, <3>2, <3>4, <3>5, <3>6 DEF ConnInv
    <2>5. LoopInv'
      BY <1>0, <1>2 DEF ConnUp, LoopInv, ValueSize, queueVars, loopVars, wireVars
    <2> QED BY <2>1, <2>2, <2>3, <2>4, <2>5
  <1>3. ASSUME NEW c \in Chan, ConnDown(c)
        PROVE  /\ IocType' /\ ChanType' /\ QueueType' /\ LoopType' /\ WireType'
               /\ ConnInv' /\ LoopInv'
    <2>1. LoopType' /\ WireType'
      BY <1>0, <1>3, Kept DEF ConnDown
    <2>2. IocType' /\ ChanType'
      BY <1>0, <1>3 DEF ConnDown, IocType, ChanType
    <2>3. QueueType'
      BY <1>0, <1>3, MarkType DEF ConnDown
    <2>4. ConnInv'
      BY <1>0, <1>3 DEF ConnDown, ConnInv, IocType, ChanType
    <2>5. LoopInv'
      BY <1>0, <1>3 DEF ConnDown, LoopInv, loopVars, wireVars
    <2> QED BY <2>1, <2>2, <2>3, <2>4, <2>5
  <1>4. ASSUME NEW c \in Chan, EventMonitor(c)
        PROVE  /\ IocType' /\ ChanType' /\ QueueType' /\ LoopType' /\ WireType'
               /\ ConnInv' /\ LoopInv'
    <2>1. LoopType' /\ WireType'
      BY <1>0, <1>4, Kept DEF EventMonitor
    <2>2. src[c] \in Pv /\ event_id[c] \in [type : Types, count : Counts]
      BY <1>0, <1>4 DEF EventMonitor, ConnInv, IocType, ChanType
    <2>3. MonitorArgs(c) \in Pv
      BY <2>2 DEF MonitorArgs, Pv
    <2>4. IocType' /\ ChanType'
      BY <1>0, <1>4, <2>3 DEF EventMonitor, IocType, ChanType
    <2>5. QueueType'
      BY <1>0, <1>4, MarkType DEF EventMonitor
    <2>6. ConnInv'
      BY <1>0, <1>4, <2>2, NoneAssumption DEF EventMonitor, ConnInv, IocType, ChanType
    <2>7. LoopInv'
      BY <1>0, <1>4 DEF EventMonitor, LoopInv, loopVars, wireVars
    <2> QED BY <2>1, <2>4, <2>5, <2>6, <2>7
  <1>5. ASSUME NEW c \in Chan, EventGet(c)
        PROVE  /\ IocType' /\ ChanType' /\ QueueType' /\ LoopType' /\ WireType'
               /\ ConnInv' /\ LoopInv'
    <2>1. LoopType' /\ WireType'
      BY <1>0, <1>5, Kept DEF EventGet
    <2>2. src[c] \in Pv /\ type[c] \in Types
      BY <1>0, <1>5 DEF EventGet, ConnInv, IocType, ChanType
    <2>3. [src[c] EXCEPT !.type = type[c]] \in Pv
      BY <2>2 DEF Pv
    <2>4. IocType' /\ ChanType'
      BY <1>0, <1>5, <2>3 DEF EventGet, IocType, ChanType
    <2>5. QueueType'
      BY <1>0, <1>5, MarkType, Kept DEF EventGet
    <2>6. ConnInv'
      BY <1>0, <1>5, <2>2, NoneAssumption DEF EventGet, ConnInv, IocType, ChanType
    <2>7. LoopInv'
      BY <1>0, <1>5 DEF EventGet, LoopInv, loopVars, wireVars
    <2> QED BY <2>1, <2>4, <2>5, <2>6, <2>7
  <1>6. ASSUME NEW c \in Chan, EventGetFails(c)
        PROVE  /\ IocType' /\ ChanType' /\ QueueType' /\ LoopType' /\ WireType'
               /\ ConnInv' /\ LoopInv'
    <2>1. ChanType' /\ QueueType' /\ LoopType' /\ WireType'
      BY <1>0, <1>6, Kept DEF EventGetFails
    <2>2. IocType' /\ ConnInv'
      BY <1>0, <1>6 DEF EventGetFails, IocType, ConnInv, chanVars
    <2>3. LoopInv'
      BY <1>0, <1>6 DEF EventGetFails, LoopInv, loopVars, wireVars
    <2> QED BY <2>1, <2>2, <2>3
  <1>7. ASSUME EndPend
        PROVE  /\ IocType' /\ ChanType' /\ QueueType' /\ LoopType' /\ WireType'
               /\ ConnInv' /\ LoopInv'
    <2>1. ChanType' /\ QueueType' /\ WireType'
      BY <1>0, <1>7, Kept DEF EndPend
    <2>2. iteration' \in 0 .. Period - 1
      BY <1>0, <1>7, Positive DEF EndPend, LoopType
    <2>3. LoopType'
      BY <1>0, <1>7, <2>2, NAssumption DEF EndPend, LoopType, Chan
    <2>4. IocType'
      BY <1>0, <1>7 DEF EndPend, check_polled_fields, IocType
    <2>5. ConnInv'
      BY <1>0, <1>7 DEF EndPend, check_polled_fields, IocType, ConnInv, chanVars
    <2>6. LoopInv'
      BY <1>0, <1>7 DEF EndPend, LoopInv, wireVars
    <2> QED BY <2>1, <2>3, <2>4, <2>5, <2>6
  <1>8. ASSUME HbStep
        PROVE  /\ IocType' /\ ChanType' /\ QueueType' /\ LoopType' /\ WireType'
               /\ ConnInv' /\ LoopInv'
    <2>1. IocType' /\ ChanType' /\ WireType'
      BY <1>0, <1>8, Kept DEF HbStep
    <2>2. hb_next \in Chan
      BY <1>0 DEF LoopType
    <2>3. QueueType'
      BY <1>0, <1>8, <2>2, MarkType DEF HbStep
    <2>4. LoopType'
      BY <1>0, <1>8, NAssumption DEF HbStep, LoopType, Chan
    <2>5. ConnInv'
      BY <1>0, <1>8 DEF HbStep, ConnInv, iocVars, chanVars
    <2>6. LoopInv'
      BY <1>0, <1>8 DEF HbStep, LoopInv, wireVars
    <2> QED BY <2>1, <2>3, <2>4, <2>5, <2>6
  <1>9. ASSUME SendDone
        PROVE  /\ IocType' /\ ChanType' /\ QueueType' /\ LoopType' /\ WireType'
               /\ ConnInv' /\ LoopInv'
    <2>1. IocType' /\ ChanType' /\ QueueType' /\ WireType'
      BY <1>0, <1>9, Kept DEF SendDone
    <2>2. LoopType'
      BY <1>0, <1>9 DEF SendDone, LoopType
    <2>3. ConnInv'
      BY <1>0, <1>9 DEF SendDone, ConnInv, iocVars, chanVars
    <2>4. LoopInv'
      BY <1>0, <1>9 DEF SendDone, LoopInv, wireVars
    <2> QED BY <2>1, <2>2, <2>3, <2>4
  <1>10. ASSUME StartMsg
        PROVE  /\ IocType' /\ ChanType' /\ QueueType' /\ LoopType' /\ WireType'
               /\ ConnInv' /\ LoopInv'
    <2>1. IocType' /\ ChanType' /\ QueueType'
      BY <1>0, <1>10, Kept DEF StartMsg
    <2>2. LoopType'
      BY <1>0, <1>10 DEF StartMsg, LoopType
    <2>3. WireType'
      BY <1>0, <1>10, NextSeqType DEF StartMsg, WireType
    <2>4. ConnInv'
      BY <1>0, <1>10 DEF StartMsg, ConnInv, iocVars, chanVars
    <2>5. LoopInv'
      BY <1>0, <1>10 DEF StartMsg, LoopInv
    <2> QED BY <2>1, <2>2, <2>3, <2>4, <2>5
  <1>11. ASSUME AddGroup
        PROVE  /\ IocType' /\ ChanType' /\ QueueType' /\ LoopType' /\ WireType'
               /\ ConnInv' /\ LoopInv'
    <2>1. IocType' /\ ChanType' /\ LoopType'
      BY <1>0, <1>11, Kept DEF AddGroup
    <2>2. QueueType'
      BY <1>0, <1>11, ClearType DEF AddGroup, Fits
    <2>3. WireType'
      BY <1>0, <1>11 DEF AddGroup, WireType, Group
    <2>4. ConnInv'
      BY <1>0, <1>11 DEF AddGroup, ConnInv, iocVars, chanVars
    <2>5. LoopInv'
      BY <1>0, <1>11 DEF AddGroup, LoopInv, loopVars
    <2> QED BY <2>1, <2>2, <2>3, <2>4, <2>5
  <1>12. ASSUME SendMsg
        PROVE  /\ IocType' /\ ChanType' /\ QueueType' /\ LoopType' /\ WireType'
               /\ ConnInv' /\ LoopInv'
    <2>1. IocType' /\ ChanType' /\ QueueType'
      BY <1>0, <1>12, Kept DEF SendMsg
    <2>2. LoopType'
      BY <1>0, <1>12 DEF SendMsg, LoopType
    <2>3. WireType'
      BY <1>0, <1>12, SeqModAssumption DEF SendMsg, WireType
    <2>4. ConnInv'
      BY <1>0, <1>12 DEF SendMsg, ConnInv, iocVars, chanVars
    <2>5. LoopInv'
      BY <1>0, <1>12 DEF SendMsg, LoopInv
    <2> QED BY <2>1, <2>2, <2>3, <2>4, <2>5
  <1>13. ASSUME FragDone
        PROVE  /\ IocType' /\ ChanType' /\ QueueType' /\ LoopType' /\ WireType'
               /\ ConnInv' /\ LoopInv'
    <2>1. IocType' /\ ChanType' /\ QueueType' /\ WireType'
      BY <1>0, <1>13, Kept DEF FragDone
    <2>2. LoopType'
      BY <1>0, <1>13 DEF FragDone, LoopType
    <2>3. ConnInv'
      BY <1>0, <1>13 DEF FragDone, ConnInv, iocVars, chanVars
    <2>4. LoopInv'
      BY <1>0, <1>13 DEF FragDone, LoopInv, wireVars
    <2> QED BY <2>1, <2>2, <2>3, <2>4
  <1>14. ASSUME StartFrag
        PROVE  /\ IocType' /\ ChanType' /\ QueueType' /\ LoopType' /\ WireType'
               /\ ConnInv' /\ LoopInv'
    <2>1. IocType' /\ ChanType' /\ QueueType'
      BY <1>0, <1>14, Kept DEF StartFrag
    <2>2. LoopType'
      BY <1>0, <1>14 DEF StartFrag, LoopType
    <2>3. /\ update_deque # << >> /\ Head(update_deque) \in Parents
          /\ Head(update_deque) \in Chan
      BY <1>0, <1>14 DEF StartFrag, FragNeeded, QueueType, Parents
    <2>4. ValueSize(Head(update_deque)) \in Nat
      BY <1>0, <2>3, ValueSizeType DEF TypeOK
    <2>5. WireType'
      BY <1>0, <1>14, <2>3, <2>4, NextSeqType DEF StartFrag, WireType
    <2>6. ConnInv'
      BY <1>0, <1>14 DEF StartFrag, ConnInv, iocVars, chanVars
    <2>7. frag' # None
      <3>1. frag' \in [seq : Nat, no : Nat, ch : Chan, rest : Nat]
        BY <1>0, <1>14, <2>3, <2>4 DEF StartFrag, WireType
      <3> QED BY <3>1, NoneAssumption
    <2>8. MaxDataSize \in Nat
      BY MaxMessageSizeAssumption DEF MaxDataSize, DataRoom, HeaderSize,
         SubmessageHeaderSize, CADataMessageSize, CAChannelDataSize
    <2>9. LoopInv'
      <3>1. /\ frag' = [seq |-> seq_no, no |-> 0, ch |-> Head(update_deque),
                        rest |-> ValueSize(Head(update_deque))]
            /\ pc = "frag" /\ pc' = "fragging" /\ msg' = msg
            /\ update_deque' = update_deque /\ value' = value
        BY <1>14 DEF StartFrag, chanVars, queueVars
      <3>2. /\ frag'.ch = Head(update_deque)
            /\ frag'.rest = ValueSize(Head(update_deque))
        BY <3>1
      <3>3. ValueSize(Head(update_deque)) > MaxDataSize
        BY <1>14 DEF StartFrag, FragNeeded
      <3>4. ValueSize(frag.ch)' = ValueSize(Head(update_deque))
        BY <3>1, <3>2 DEF ValueSize
      <3>5. MaxDataSize' = MaxDataSize
        BY DEF MaxDataSize, DataRoom, HeaderSize, SubmessageHeaderSize,
               CADataMessageSize, CAChannelDataSize
      <3>6. (ValueSize(frag.ch) > MaxDataSize)' /\ frag'.rest > 0
        BY <2>4, <2>8, <3>2, <3>3, <3>4, <3>5
      <3> QED BY <1>0, <2>3, <2>7, <3>1, <3>2, <3>6 DEF LoopInv
    <2> QED BY <2>1, <2>2, <2>5, <2>6, <2>9
  <1>15. ASSUME SendFragment
        PROVE  /\ IocType' /\ ChanType' /\ QueueType' /\ LoopType' /\ WireType'
               /\ ConnInv' /\ LoopInv'
    <2>1. IocType' /\ ChanType'
      BY <1>0, <1>15, Kept DEF SendFragment
    <2>2. /\ frag \in [seq : 0 .. SeqMod - 1, no : Nat, ch : Parents, rest : Nat]
          /\ update_deque # << >> /\ frag.rest > 0
      BY <1>0, <1>15 DEF SendFragment, LoopInv, WireType
    <2>3. QueueType'
      BY <1>0, <1>15, <2>2, ClearType, Kept DEF SendFragment
    <2>4. LoopType'
      BY <1>0, <1>15 DEF SendFragment, LoopType
    <2>5. FragSize \in Nat
      BY <2>2, Positive DEF FragSize
    <2>6. frag.rest > FragSize =>
            [frag EXCEPT !.no = @ + 1, !.rest = @ - FragSize]
              \in [seq : 0 .. SeqMod - 1, no : Nat, ch : Parents, rest : Nat]
      <3>1. frag.no + 1 \in Nat
        BY <2>2
      <3>2. frag.rest > FragSize => frag.rest - FragSize \in Nat
        BY <2>2, <2>5
      <3> QED BY <2>2, <3>1, <3>2
    <2>7. WireType'
      BY <1>0, <1>15, <2>6 DEF SendFragment, WireType
    <2>8. ConnInv'
      BY <1>0, <1>15 DEF SendFragment, ConnInv, iocVars, chanVars
    <2>9. LoopInv'
      <3>1. CASE frag.rest > FragSize
        <4>1. frag' = [frag EXCEPT !.no = @ + 1, !.rest = @ - FragSize]
          BY <1>15, <3>1 DEF SendFragment
        <4>2. frag' \in [seq : Nat, no : Nat, ch : Chan, rest : Nat]
          <5>1. 0 .. SeqMod - 1 \subseteq Nat /\ Parents \subseteq Chan
            BY SeqModAssumption DEF Parents
          <5> QED BY <2>6, <3>1, <4>1, <5>1
        <4>3. frag'.ch = frag.ch /\ frag'.rest > 0
          BY <2>2, <2>5, <3>1, <4>1
        <4>5. frag' # None
          BY <4>2, NoneAssumption
        <4>4. UNCHANGED <<pc, msg, value, update_deque>>
          BY <1>15, <3>1 DEF SendFragment, queueVars, chanVars
        <4> QED BY <1>0, <1>15, <4>3, <4>4, <4>5 DEF SendFragment, LoopInv, ValueSize
      <3>2. CASE ~(frag.rest > FragSize)
        BY <1>0, <1>15, <3>2 DEF SendFragment, LoopInv
      <3> QED BY <3>1, <3>2
    <2> QED BY <2>1, <2>3, <2>4, <2>7, <2>8, <2>9
  <1>16. ASSUME NetTake
        PROVE  /\ IocType' /\ ChanType' /\ QueueType' /\ LoopType' /\ WireType'
               /\ ConnInv' /\ LoopInv'
    <2>1. IocType' /\ ChanType' /\ QueueType' /\ LoopType'
      BY <1>0, <1>16, Kept DEF NetTake
    <2>2. WireType' /\ ConnInv' /\ LoopInv'
      BY <1>0, <1>16
      DEF NetTake, WireType, ConnInv, LoopInv, ValueSize, iocVars, chanVars, queueVars, loopVars
    <2> QED BY <2>1, <2>2
  <1>17. ASSUME UNCHANGED vars
        PROVE  /\ IocType' /\ ChanType' /\ QueueType' /\ LoopType' /\ WireType'
               /\ ConnInv' /\ LoopInv'
    <2>1. /\ UNCHANGED iocVars /\ UNCHANGED chanVars /\ UNCHANGED queueVars
          /\ UNCHANGED loopVars /\ UNCHANGED wireVars
      BY <1>17 DEF vars
    <2>2. IocType' /\ ChanType' /\ QueueType' /\ LoopType' /\ WireType'
      BY <1>0, <2>1, Kept
    <2>3. ConnInv' /\ LoopInv'
      BY <1>0, <2>1
      DEF ConnInv, LoopInv, ValueSize, iocVars, chanVars, queueVars, loopVars, wireVars
    <2> QED BY <2>2, <2>3
  <1> QED
    BY <1>1, <1>2, <1>3, <1>4, <1>5, <1>6, <1>7, <1>8, <1>9, <1>10, <1>11, <1>12,
       <1>13, <1>14, <1>15, <1>16, <1>17
    DEF Next, Step, Callback

(* The sender's variables keep their types, in every behaviour and for     *)
(* every number of channels, every size and every period.                  *)
THEOREM SenderTypeOK == Spec => []TypeOK
  <1>1. TypeInv => TypeOK
    BY DEF TypeInv
  <1> QED
    BY <1>1, TypeInit, TypeStep, PTL DEF Spec

-----------------------------------------------------------------------------
(* Marking keeps queue and flags in agreement. *)
LEMMA QueueMark ==
  ASSUME QueueType, QueueConsistent, NEW p \in Parents, Marked(p)
  PROVE  QueueConsistent'
  <1>0. /\ pending_update \in [Chan -> BOOLEAN]
        /\ update_deque \in Seq(Parents)
        /\ p \in Chan
    BY DEF QueueType, Parents
  <1>1. CASE UNCHANGED <<pending_update, update_deque>>
    BY <1>1 DEF QueueConsistent
  <1>2. CASE /\ ~pending_update[p]
             /\ pending_update' = [pending_update EXCEPT ![p] = TRUE]
             /\ update_deque' = Append(update_deque, p)
    <2> DEFINE n == Len(update_deque)
    <2>1. /\ n \in Nat
          /\ Len(update_deque') = n + 1
          /\ update_deque'[n + 1] = p
          /\ \A i \in 1 .. n : update_deque'[i] = update_deque[i]
      BY <1>0, <1>2
    <2>2. \A i \in 1 .. n : update_deque[i] # p
      BY <1>0, <1>2 DEF QueueConsistent
    <2>3. ASSUME NEW q \in Chan
          PROVE  pending_update'[q] <=> \E i \in 1 .. n + 1 : update_deque'[i] = q
      <3>1. pending_update[q] <=> \E i \in 1 .. n : update_deque[i] = q
        BY DEF QueueConsistent
      <3>2. pending_update'[q] <=> pending_update[q] \/ q = p
        BY <1>0, <1>2
      <3>3. (\E i \in 1 .. n + 1 : update_deque'[i] = q)
              <=> (\E i \in 1 .. n : update_deque[i] = q) \/ q = p
        BY <2>1
      <3> QED BY <3>1, <3>2, <3>3
    <2>4. \A i, j \in 1 .. n + 1 : update_deque'[i] = update_deque'[j] => i = j
      BY <2>1, <2>2 DEF QueueConsistent
    <2> QED BY <2>1, <2>3, <2>4 DEF QueueConsistent
  <1> QED BY <1>1, <1>2 DEF Marked

(* Clearing the front does too, because the front is in the queue once. *)
LEMMA QueueClear ==
  ASSUME QueueType, QueueConsistent, update_deque # << >>, clear_update
  PROVE  QueueConsistent'
  <1> DEFINE n == Len(update_deque)  h == Head(update_deque)
  <1>0. /\ pending_update \in [Chan -> BOOLEAN]
        /\ update_deque \in Seq(Parents)
        /\ n \in Nat \ {0}
        /\ h = update_deque[1] /\ h \in Chan
    BY DEF QueueType, Parents
  <1>1. /\ Len(update_deque') = n - 1
        /\ \A i \in 1 .. n - 1 : update_deque'[i] = update_deque[i + 1]
    BY <1>0 DEF clear_update
  <1>2. \A i \in 1 .. n - 1 : update_deque'[i] # h
    BY <1>0, <1>1 DEF QueueConsistent
  <1>3. ASSUME NEW q \in Chan
        PROVE  pending_update'[q] <=> \E i \in 1 .. n - 1 : update_deque'[i] = q
    <2>1. pending_update[q] <=> \E i \in 1 .. n : update_deque[i] = q
      BY DEF QueueConsistent
    <2>2. pending_update'[q] <=> pending_update[q] /\ q # h
      BY <1>0 DEF clear_update
    <2>3. CASE q = h
      BY <1>2, <2>2, <2>3
    <2>4. CASE q # h
      <3>1. (\E i \in 1 .. n : update_deque[i] = q)
              => \E i \in 1 .. n - 1 : update_deque'[i] = q
        <4> SUFFICES ASSUME NEW i \in 1 .. n, update_deque[i] = q
                     PROVE  \E j \in 1 .. n - 1 : update_deque'[j] = q
          OBVIOUS
        <4>1. i - 1 \in 1 .. n - 1 /\ (i - 1) + 1 = i
          BY <1>0, <2>4
        <4>2. update_deque'[i - 1] = q
          BY <1>1, <4>1
        <4> QED BY <4>1, <4>2
      <3>2. (\E i \in 1 .. n - 1 : update_deque'[i] = q)
              => \E i \in 1 .. n : update_deque[i] = q
        <4> SUFFICES ASSUME NEW i \in 1 .. n - 1, update_deque'[i] = q
                     PROVE  \E j \in 1 .. n : update_deque[j] = q
          OBVIOUS
        <4>1. i + 1 \in 1 .. n /\ update_deque[i + 1] = q
          BY <1>0, <1>1
        <4> QED BY <4>1
      <3> QED BY <2>1, <2>2, <2>4, <3>1, <3>2
    <2> QED BY <2>3, <2>4
  <1>4. \A i, j \in 1 .. n - 1 : update_deque'[i] = update_deque'[j] => i = j
    BY <1>0, <1>1 DEF QueueConsistent
  <1> QED BY <1>1, <1>3, <1>4 DEF QueueConsistent

(* Every step keeps queue and flags in agreement. *)
LEMMA QueueStep == TypeInv /\ QueueConsistent /\ [Next]_vars => QueueConsistent'
  <1> SUFFICES ASSUME TypeInv, QueueConsistent, [Next]_vars PROVE QueueConsistent'
    OBVIOUS
  <1>0. QueueType /\ LoopType /\ LoopInv
    BY DEF TypeInv, TypeOK
  <1>1. ASSUME NEW c \in Chan, mark_update(c) \/ mark_heartbeat_update(c)
        PROVE  QueueConsistent'
    BY <1>0, <1>1, MarkType, ParentType, QueueMark
  <1>2. UNCHANGED queueVars => QueueConsistent'
    BY DEF QueueConsistent, queueVars
  <1>3. ASSUME NEW c \in Chan, Callback(c) PROVE QueueConsistent'
    BY <1>1, <1>2, <1>3
    DEF Callback, IocWrite, ConnUp, ConnDown, EventMonitor, EventGet, EventGetFails
  <1>4. CASE HbStep
    BY <1>0, <1>1, <1>4 DEF HbStep, LoopType
  <1>5. CASE AddGroup
    BY <1>0, <1>5, QueueClear DEF AddGroup, Fits
  <1>6. CASE SendFragment
    BY <1>0, <1>2, <1>6, QueueClear DEF SendFragment, LoopInv
  <1>7. CASE EndPend \/ SendDone \/ StartMsg \/ SendMsg \/ FragDone \/ StartFrag
               \/ NetTake \/ UNCHANGED vars
    BY <1>2, <1>7
    DEF EndPend, SendDone, StartMsg, SendMsg, FragDone, StartFrag, NetTake, vars
  <1> QED
    BY <1>3, <1>4, <1>5, <1>6, <1>7 DEF Next, Step

(* The queue and the flags agree, in every behaviour: a record is in the   *)
(* queue exactly if its flag is set, and once.  The induction needs that   *)
(* only records are queued and that a fragmented update is at the front    *)
(* (TypeInv).                                                              *)
THEOREM SenderQueueConsistent == Spec => []QueueConsistent
  <1>1. Init => QueueConsistent
    BY DEF Init, QueueConsistent
  <1> QED
    BY <1>1, TypeInit, TypeStep, QueueStep, PTL DEF Spec

-----------------------------------------------------------------------------
(* Every step keeps what FragFront says: only StartFrag and SendFragment   *)
(* bear on it.                                                             *)
LEMMA FragStep == TypeInv /\ FragFront /\ [Next]_vars => FragFront'
  <1> SUFFICES ASSUME TypeInv, FragFront, [Next]_vars PROVE FragFront'
    OBVIOUS
  <1>0. ChanType /\ QueueType /\ LoopType /\ WireType /\ LoopInv /\ TypeOK
    BY DEF TypeInv, TypeOK
  <1>1. pc' # "fragging" => FragFront'
    BY DEF FragFront
  <1>2. CASE StartFrag
    <2> DEFINE h == Head(update_deque)
    <2>1. update_deque # << >> /\ h \in Chan /\ ValueSize(h) > MaxDataSize
      BY <1>0, <1>2 DEF StartFrag, FragNeeded, QueueType, Parents
    <2>2. ValueSize(h) \in Nat /\ MaxDataSize \in Nat /\ FragRoom \in Nat
      BY <1>0, <2>1, ValueSizeType, Positive, MaxMessageSizeAssumption
      DEF MaxDataSize, DataRoom, HeaderSize, SubmessageHeaderSize,
          CADataMessageSize, CAChannelDataSize
    <2>3. /\ frag' = [seq |-> seq_no, no |-> 0, ch |-> h, rest |-> ValueSize(h)]
          /\ UNCHANGED <<update_deque, value>>
      BY <1>2 DEF StartFrag, queueVars, chanVars
    <2>4. frag'.ch = h /\ frag'.rest = ValueSize(h) /\ frag'.no = 0
      BY <2>3
    <2>5. frag'.rest > 0 /\ frag'.rest + frag'.no * FragRoom = ValueSize(h)
      BY <2>1, <2>2, <2>4
    <2>6. ValueSize(h)' = ValueSize(h)
      BY <2>3 DEF ValueSize
    <2> QED BY <2>1, <2>3, <2>4, <2>5, <2>6 DEF FragFront, ValueSize
  <1>3. CASE SendFragment
    <2>1. /\ update_deque # << >> /\ frag.ch = Head(update_deque)
          /\ frag.rest + frag.no * FragRoom = ValueSize(frag.ch)
          /\ frag \in [seq : 0 .. SeqMod - 1, no : Nat, ch : Parents, rest : Nat]
      BY <1>0, <1>3 DEF SendFragment, FragFront, LoopInv, WireType
    <2>2. CASE frag.rest > FragSize
      <3>1. FragRoom \in Nat /\ FragSize = FragRoom
        BY <2>1, <2>2, Positive DEF FragSize
      <3>2. /\ frag' = [frag EXCEPT !.no = @ + 1, !.rest = @ - FragRoom]
            /\ UNCHANGED <<update_deque, value>>
        BY <1>3, <2>2, <3>1 DEF SendFragment, queueVars, chanVars
      <3>3. frag'.ch = frag.ch /\ frag'.no = frag.no + 1 /\ frag'.rest = frag.rest - FragRoom
        BY <2>1, <3>2
      <3>4. (frag.no + 1) * FragRoom = frag.no * FragRoom + FragRoom
        BY <2>1, <3>1
      <3>5. frag.no * FragRoom \in Int
        BY <2>1, <3>1
      <3>6. frag'.rest > 0
        BY <2>1, <2>2, <3>1, <3>3
      <3>7. frag'.rest + frag'.no * FragRoom = ValueSize(frag.ch)
        <4>1. frag'.no * FragRoom = frag.no * FragRoom + FragRoom
          BY <3>3, <3>4
        <4>2. frag.rest \in Int /\ frag'.rest = frag.rest - FragRoom
          BY <2>1, <3>3
        <4> DEFINE k == frag.no * FragRoom
        <4>3. k \in Int /\ frag.rest + k = ValueSize(frag.ch)
          BY <2>1, <3>5
        <4> HIDE DEF k
        <4>4. (frag.rest - FragRoom) + (k + FragRoom) = frag.rest + k
          BY <3>1, <4>2, <4>3
        <4> QED BY <4>1, <4>2, <4>3, <4>4 DEF k
      <3> QED BY <2>1, <3>2, <3>3, <3>6, <3>7 DEF FragFront, ValueSize
    <2>3. CASE ~(frag.rest > FragSize)
      BY <1>1, <1>3, <2>3 DEF SendFragment
    <2> QED BY <2>2, <2>3
  <1>4. CASE NetTake \/ UNCHANGED vars
    BY <1>4
    DEF NetTake, vars, FragFront, ValueSize, chanVars, queueVars, loopVars, wireVars
  <1>5. ASSUME NEW c \in Chan, Callback(c) PROVE FragFront'
    BY <1>1, <1>5
    DEF Callback, IocWrite, ConnUp, ConnDown, EventMonitor, EventGet, EventGetFails, loopVars
  <1>6. CASE EndPend \/ HbStep \/ SendDone \/ StartMsg \/ AddGroup \/ SendMsg \/ FragDone
    BY <1>1, <1>6
    DEF EndPend, HbStep, SendDone, StartMsg, AddGroup, SendMsg, FragDone, loopVars
  <1> QED
    BY <1>2, <1>3, <1>4, <1>5, <1>6 DEF Next, Step

(* While fragments go out, the value they are cut from is the one at the   *)
(* front of the queue and what is left is what was not sent: the last      *)
(* fragment ends the value, for every size of value and of message.        *)
THEOREM SenderFragFront == Spec => []FragFront
  <1>1. Init => FragFront
    BY DEF Init, FragFront
  <1> QED
    BY <1>1, TypeInit, TypeStep, FragStep, PTL DEF Spec

-----------------------------------------------------------------------------
(* Every step keeps the cached type that of the cached bytes. *)
LEMMA WireStep == TypeInv /\ WireDescribesValue /\ [Next]_vars => WireDescribesValue'
  <1> SUFFICES ASSUME TypeInv, WireDescribesValue, [Next]_vars
               PROVE  WireDescribesValue'
    OBVIOUS
  <1>0. IocType /\ ChanType /\ ConnInv
    BY DEF TypeInv, TypeOK
  <1>1. UNCHANGED <<value, type>> => WireDescribesValue'
    BY DEF WireDescribesValue
  <1>2. ASSUME NEW c \in Chan, ConnUp(c) PROVE WireDescribesValue'
    <2>1. value[c] = None /\ value' = value
      BY <1>0, <1>2 DEF ConnUp, ConnInv
    <2>2. \A x \in Chan \ {c} : type'[x] = type[x]
      BY <1>0, <1>2 DEF ConnUp, ChanType
    <2> QED BY <2>1, <2>2 DEF WireDescribesValue
  <1>3. ASSUME NEW c \in Chan, ConnDown(c) PROVE WireDescribesValue'
    BY <1>0, <1>3 DEF ConnDown, ChanType, WireDescribesValue
  <1>4. ASSUME NEW c \in Chan, EventMonitor(c) PROVE WireDescribesValue'
    <2>1. event_id[c].type = type[c]
      BY <1>0, <1>4 DEF EventMonitor, ConnInv
    <2> QED
      BY <1>0, <1>4, <2>1 DEF EventMonitor, MonitorArgs, ChanType, WireDescribesValue
  <1>5. ASSUME NEW c \in Chan, EventGet(c) PROVE WireDescribesValue'
    <2>1. src[c] \in Pv
      BY <1>0, <1>5 DEF EventGet, ConnInv, IocType
    <2>2. [src[c] EXCEPT !.type = type[c]].type = type[c]
      BY <2>1 DEF Pv
    <2>3. value' = [value EXCEPT ![c] = [src[c] EXCEPT !.type = type[c]]] /\ type' = type
      BY <1>5 DEF EventGet
    <2> QED
      BY <1>0, <2>2, <2>3 DEF ChanType, WireDescribesValue
  <1>6. ASSUME NEW c \in Chan, Callback(c) PROVE WireDescribesValue'
    BY <1>1, <1>2, <1>3, <1>4, <1>5, <1>6
    DEF Callback, IocWrite, EventGetFails, chanVars
  <1>7. CASE Step \/ NetTake \/ UNCHANGED vars
    BY <1>1, <1>7
    DEF Step, EndPend, HbStep, SendDone, StartMsg, AddGroup, SendMsg, FragDone,
        StartFrag, SendFragment, NetTake, vars, chanVars
  <1> QED
    BY <1>6, <1>7 DEF Next

(* The type announced with a value is the type of its bytes, through any   *)
(* number of reconnections with other types.  The induction needs that     *)
(* nothing is cached for an unreachable PV and that a subscription has the *)
(* channel's type (ConnInv).                                               *)
THEOREM SenderWireDescribesValue == Spec => []WireDescribesValue
  <1>1. Init => WireDescribesValue
    BY DEF Init, WireDescribesValue
  <1> QED
    BY <1>1, TypeInit, TypeStep, WireStep, PTL DEF Spec

-----------------------------------------------------------------------------
(* What no lost update rests on.  A record that may have to be sent in     *)
(* fragments has no fields; a polled value of another length has another   *)
(* size; values that hash alike are alike.                                 *)
FragmentedAlone ==
  \A p \in Parents, t \in Types, n \in Counts :
    DbrSize[p][t][n] > MaxDataSize => Group(p) = {p}
SizesTellCounts ==
  \A c \in Polled, t \in Types, n, m \in Counts :
    DbrSize[c][t][n] > 0 /\ (DbrSize[c][t][n] = DbrSize[c][t][m] => n = m)
HashInjective == \A d, e \in Data : HashOf[d] = HashOf[e] => d = e

(* The types of the history and of the hashes, which TypeOK leaves out. *)
HistType ==
  /\ sent \in [Chan -> Pv \cup {None}]
  /\ value_hash \in [Chan -> {HashOf[d] : d \in Data} \cup {None}]

(* The history and the hashes keep their types. *)
LEMMA HistStep == TypeInv /\ HistType /\ [Next]_vars => HistType'
  <1> SUFFICES ASSUME TypeInv, HistType, [Next]_vars PROVE HistType'
    OBVIOUS
  <1>0. IocType /\ ChanType /\ ConnInv /\ LoopInv
    BY DEF TypeInv, TypeOK
  <1>1. UNCHANGED <<sent, value_hash>> => HistType'
    BY DEF HistType
  <1>2. ASSUME NEW c \in Chan, EventGet(c) PROVE HistType'
    <2>1. src[c] \in Pv
      BY <1>0, <1>2 DEF EventGet, ConnInv, IocType
    <2>2. [src[c] EXCEPT !.type = type[c]].data \in Data
      BY <2>1 DEF Pv
    <2>3. /\ sent' = sent
          /\ \/ value_hash' = value_hash
             \/ value_hash' = [value_hash EXCEPT ![c] =
                                 HashOf[[src[c] EXCEPT !.type = type[c]].data]]
      BY <1>2 DEF EventGet, histVars
    <2> QED BY <2>2, <2>3 DEF HistType
  <1>3. ASSUME NEW c \in Chan, Callback(c) PROVE HistType'
    BY <1>1, <1>2, <1>3
    DEF Callback, IocWrite, ConnUp, ConnDown, EventMonitor, EventGetFails, chanVars, histVars
  <1>4. CASE SendMsg
    BY <1>0, <1>4 DEF SendMsg, HistType, ChanType, chanVars
  <1>5. CASE SendFragment
    BY <1>0, <1>5 DEF SendFragment, HistType, ChanType, chanVars, histVars
  <1>6. CASE EndPend \/ HbStep \/ SendDone \/ StartMsg \/ AddGroup \/ FragDone
               \/ StartFrag \/ NetTake \/ UNCHANGED vars
    BY <1>1, <1>6
    DEF EndPend, HbStep, SendDone, StartMsg, AddGroup, FragDone,
        StartFrag, NetTake, vars, chanVars, histVars
  <1> QED
    BY <1>3, <1>4, <1>5, <1>6 DEF Next, Step

(* The hash kept for a polled field stays that of the value kept. *)
LEMMA HashStep ==
  TypeInv /\ HistType /\ HashInv /\ [Next]_vars => HashInv'
  <1> SUFFICES ASSUME TypeInv, HistType, HashInv, [Next]_vars PROVE HashInv'
    OBVIOUS
  <1>0. IocType /\ ChanType /\ ConnInv /\ Polled \subseteq Chan
    BY PolledAssumption DEF TypeInv, TypeOK
  <1>1. UNCHANGED <<value, value_hash>> => HashInv'
    BY DEF HashInv
  <1>2. ASSUME NEW c \in Chan, ConnDown(c) PROVE HashInv'
    BY <1>0, <1>2 DEF ConnDown, HashInv, ChanType
  <1>3. ASSUME NEW c \in Chan, EventMonitor(c) PROVE HashInv'
    <2>1. c \notin Polled
      BY <1>0, <1>3 DEF EventMonitor, ConnInv
    <2> QED BY <1>0, <1>3, <2>1 DEF EventMonitor, HashInv, ChanType
  <1>4. ASSUME NEW c \in Chan, EventGet(c) PROVE HashInv'
    <2> DEFINE args == [src[c] EXCEPT !.type = type[c]]
    <2>1. value' = [value EXCEPT ![c] = args]
      BY <1>4 DEF EventGet
    <2>2. \/ value_hash' = [value_hash EXCEPT ![c] = HashOf[args.data]]
          \/ value_hash' = value_hash /\ value_hash[c] = HashOf[args.data]
      BY <1>4 DEF EventGet, Changed
    <2> HIDE DEF args
    <2> QED BY <1>0, <2>1, <2>2 DEF HashInv, ChanType, HistType
  <1>5. ASSUME NEW c \in Chan, Callback(c) PROVE HashInv'
    BY <1>1, <1>2, <1>3, <1>4, <1>5
    DEF Callback, IocWrite, ConnUp, EventGetFails, chanVars
  <1>6. CASE Step \/ NetTake \/ UNCHANGED vars
    BY <1>1, <1>6
    DEF Step, EndPend, HbStep, SendDone, StartMsg, AddGroup, SendMsg, FragDone,
        StartFrag, SendFragment, NetTake, vars, chanVars
  <1> QED
    BY <1>5, <1>6 DEF Next

(* A polled value that looks the same is the same. *)
LEMMA LooksSame ==
  ASSUME SizesTellCounts, HashInjective, TypeInv, WireDescribesValue, HashInv,
         NEW c \in Chan, EventGet(c), UNCHANGED value_hash, UNCHANGED queueVars,
         ~pending_update[ParentIndex[c]]
  PROVE  value' = value
  <1>0. IocType /\ ChanType /\ ConnInv
    BY DEF TypeInv, TypeOK
  <1> DEFINE args == [src[c] EXCEPT !.type = type[c]]
  <1>1. c \in Polled /\ src[c] \in Pv /\ type[c] \in Types
    BY <1>0 DEF EventGet, ConnInv, IocType, ChanType
  <1>2. /\ args = [data |-> src[c].data, type |-> type[c], count |-> src[c].count]
        /\ args \in Pv
    BY <1>1 DEF Pv
  <1>3. /\ value' = [value EXCEPT ![c] = args]
        /\ ValueSize(c) = DbrSize[c][args.type][args.count]
        /\ value_hash[c] = HashOf[args.data]
    <2>1. ~mark_update(c)
      <3> SUFFICES ASSUME mark_update(c) PROVE FALSE
        OBVIOUS
      <3>1. update_deque' = Append(update_deque, ParentIndex[c]) /\ update_deque \in Seq(Parents)
        BY DEF mark_update, TypeInv, TypeOK, QueueType
      <3>2. Len(update_deque') = Len(update_deque) + 1 /\ Len(update_deque) \in Nat
        BY <3>1
      <3> QED BY <3>2 DEF queueVars
    <2> QED BY <2>1 DEF EventGet, Changed
  <1> HIDE DEF args
  <1>4. DbrSize[c][args.type][args.count] > 0
    BY <1>1, <1>2 DEF SizesTellCounts, Pv
  <1>5. value[c] # None
    BY <1>3, <1>4 DEF ValueSize
  <1>6. value[c] \in Pv /\ value[c].type = type[c] /\ value_hash[c] = HashOf[value[c].data]
    BY <1>0, <1>1, <1>5 DEF ChanType, WireDescribesValue, HashInv
  <1>7. value[c].data = args.data
    BY <1>2, <1>3, <1>6 DEF HashInjective, Pv
  <1>8. DbrSize[c][args.type][value[c].count] = DbrSize[c][args.type][args.count]
    BY <1>2, <1>3, <1>5, <1>6 DEF ValueSize
  <1>9. value[c].count = args.count
    BY <1>1, <1>2, <1>6, <1>8 DEF SizesTellCounts, Pv
  <1>10. value[c] = args
    BY <1>2, <1>6, <1>7, <1>9 DEF Pv
  <1> QED BY <1>0, <1>3, <1>10 DEF ChanType

(* All that the induction for NoLostUpdate needs. *)
SafeInv ==
  TypeInv /\ HistType /\ QueueConsistent /\ WireDescribesValue /\ HashInv

(* No step loses an update. *)
LEMMA LostStep ==
  ASSUME FragmentedAlone, SizesTellCounts, HashInjective,
         SafeInv, NoLostUpdate, [Next]_vars
  PROVE  NoLostUpdate'
  <1>0. /\ IocType /\ ChanType /\ QueueType /\ LoopType /\ WireType
        /\ ConnInv /\ LoopInv /\ HistType
    BY DEF SafeInv, TypeInv, TypeOK
  <1>1. ASSUME NEW c \in Chan, mark_update(c)
        PROVE  /\ pending_update'[ParentIndex[c]]
               /\ \A p \in Chan : pending_update[p] => pending_update'[p]
    BY <1>0, <1>1, ParentType DEF mark_update, QueueType, queueVars
  <1>2. ASSUME NEW c \in Chan, mark_update(c),
               \A x \in Chan \ {c} : value'[x] = value[x],
               UNCHANGED <<sent, msg>>
        PROVE  NoLostUpdate'
    BY <1>1, <1>2, ParentType DEF NoLostUpdate
  <1>3. UNCHANGED <<value, sent, msg, pending_update>> => NoLostUpdate'
    BY DEF NoLostUpdate
  <1>4. ASSUME NEW c \in Chan, ConnDown(c) PROVE NoLostUpdate'
    BY <1>0, <1>2, <1>4 DEF ConnDown, ChanType, wireVars, histVars
  <1>5. ASSUME NEW c \in Chan, EventMonitor(c) PROVE NoLostUpdate'
    BY <1>0, <1>2, <1>5 DEF EventMonitor, ChanType, wireVars, histVars
  <1>6. ASSUME NEW c \in Chan, EventGet(c) PROVE NoLostUpdate'
    <2>1. \A x \in Chan \ {c} : value'[x] = value[x]
      BY <1>0, <1>6 DEF EventGet, ChanType
    <2>2. UNCHANGED <<sent, msg>>
      BY <1>6 DEF EventGet, wireVars, histVars
    <2>3. CASE mark_update(c)
      BY <1>2, <2>1, <2>2, <2>3
    <2>4. CASE UNCHANGED <<value_hash, queueVars>> /\ pending_update[ParentIndex[c]]
      BY <2>1, <2>2, <2>4 DEF NoLostUpdate, queueVars
    <2>5. CASE UNCHANGED <<value_hash, queueVars>> /\ ~pending_update[ParentIndex[c]]
      BY <1>3, <1>6, <2>2, <2>5, LooksSame DEF SafeInv, queueVars
    <2> QED BY <1>6, <2>3, <2>4, <2>5 DEF EventGet
  <1>7. ASSUME NEW c \in Chan, Callback(c) PROVE NoLostUpdate'
    BY <1>3, <1>4, <1>5, <1>6, <1>7
    DEF Callback, IocWrite, ConnUp, EventGetFails, chanVars, queueVars, wireVars, histVars
  <1>8. CASE HbStep
    <2>1. \A p \in Chan : pending_update[p] => pending_update'[p]
      BY <1>0, <1>8 DEF HbStep, mark_heartbeat_update, QueueType
    <2> QED
      BY <1>8, <2>1, ParentType DEF HbStep, NoLostUpdate, chanVars, wireVars, histVars
  <1>9. CASE AddGroup
    <2>1. \A p \in Chan : pending_update[p] => pending_update'[p] \/ p = Head(update_deque)
      BY <1>0, <1>9 DEF AddGroup, clear_update, QueueType
    <2>2. /\ msg'.chans = msg.chans \cup Group(Head(update_deque))
          /\ UNCHANGED <<value, sent>>
      BY <1>0, <1>9 DEF AddGroup, WireType, chanVars, histVars
    <2> QED
      BY <2>1, <2>2, ParentType DEF NoLostUpdate, Group
  <1>10. CASE SendMsg
    BY <1>0, <1>10 DEF SendMsg, NoLostUpdate, WireType, chanVars, queueVars
  <1>11. CASE SendFragment
    <2>1. CASE frag.rest > FragSize
      BY <1>3, <1>11, <2>1 DEF SendFragment, chanVars, queueVars, histVars
    <2>2. CASE ~(frag.rest > FragSize)
      <3> DEFINE h == frag.ch
      <3>1. /\ update_deque # << >> /\ h = Head(update_deque)
            /\ ValueSize(h) > MaxDataSize
        BY <1>0, <1>11 DEF SendFragment, LoopInv
      <3>2. h \in Parents /\ h \in Chan
        BY <1>0, <3>1 DEF QueueType, Parents
      <3>3. MaxDataSize \in Nat
        BY MaxMessageSizeAssumption DEF MaxDataSize, DataRoom, HeaderSize,
           SubmessageHeaderSize, CADataMessageSize, CAChannelDataSize
      <3>4. value[h] # None
        BY <3>1, <3>3 DEF ValueSize
      <3>5. value[h] \in Pv
        BY <1>0, <3>2, <3>4 DEF ChanType
      <3>6. DbrSize[h][value[h].type][value[h].count] > MaxDataSize
        BY <3>1, <3>4 DEF ValueSize
      <3>7. Group(h) = {h}
        BY <3>2, <3>5, <3>6 DEF FragmentedAlone, Pv
      <3>8. /\ pending_update' = [pending_update EXCEPT ![h] = FALSE]
            /\ sent' = [sent EXCEPT ![h] = value[h]]
            /\ UNCHANGED <<value, msg>>
        BY <1>11, <2>2, <3>1 DEF SendFragment, clear_update, chanVars
      <3> HIDE DEF h
      <3>9. \A c \in Chan : ParentIndex[c] = h => c = h
        BY <3>7 DEF Group
      <3> QED
        BY <1>0, <3>2, <3>8, <3>9, ParentType DEF NoLostUpdate, QueueType, HistType
    <2> QED BY <2>1, <2>2
  <1>12. CASE StartMsg
    BY <1>0, <1>12 DEF StartMsg, NoLostUpdate, LoopInv, chanVars, queueVars, histVars
  <1>13. CASE EndPend \/ SendDone \/ FragDone \/ StartFrag \/ NetTake \/ UNCHANGED vars
    BY <1>3, <1>13
    DEF EndPend, SendDone, FragDone, StartFrag, NetTake, vars, chanVars,
        queueVars, wireVars, histVars
  <1> QED
    BY <1>7, <1>8, <1>9, <1>10, <1>11, <1>12, <1>13 DEF Next, Step

(* No update is lost in the sender, for any number of channels, under the  *)
(* three assumptions above.  The first one is needed: a record with fields *)
(* that is sent in fragments leaves the queue without its fields' values   *)
(* (see RecordSentWhole).                                                  *)
THEOREM SenderNoLostUpdate ==
  ASSUME FragmentedAlone, SizesTellCounts, HashInjective
  PROVE  Spec => []NoLostUpdate
  <1>1. Init => SafeInv /\ NoLostUpdate
    <2>1. ASSUME Init PROVE HistType /\ QueueConsistent /\ WireDescribesValue /\ HashInv
      BY <2>1, PolledAssumption
      DEF Init, HistType, QueueConsistent, WireDescribesValue, HashInv
    <2>2. ASSUME Init PROVE NoLostUpdate
      BY <2>2 DEF Init, NoLostUpdate
    <2> QED BY <2>1, <2>2, TypeInit DEF SafeInv
  <1>2. SafeInv /\ [Next]_vars => SafeInv'
    BY TypeStep, HistStep, QueueStep, WireStep, HashStep DEF SafeInv
  <1>3. SafeInv /\ NoLostUpdate /\ [Next]_vars => NoLostUpdate'
    BY LostStep
  <1> QED
    BY <1>1, <1>2, <1>3, PTL DEF Spec

-----------------------------------------------------------------------------
(* The remainder after division, at the next number. *)
LEMMA ModSucc ==
  ASSUME NEW d \in Nat \ {0}, NEW n \in Nat
  PROVE  /\ n % d \in 0 .. d - 1
         /\ (n + 1) % d = IF n % d = d - 1 THEN 0 ELSE (n % d) + 1
  <1> DEFINE q == n \div d  r == n % d
  <1>1. r \in 0 .. d - 1 /\ q \in Nat /\ n = q * d + r
    BY Z3
  <1> HIDE DEF q, r
  <1>2. \A a \in Nat : \A b \in 0 .. d - 1 : (a * d + b) % d = b
    BY Z3
  <1>3. CASE r = d - 1
    <2>1. (q + 1) * d = q * d + d /\ q * d \in Nat
      BY <1>1, Z3
    <2> DEFINE k == q * d
    <2> HIDE DEF k
    <2>2. n + 1 = (q + 1) * d + 0
      <3>1. k \in Nat /\ n = k + r /\ (q + 1) * d = k + d
        BY <1>1, <2>1 DEF k
      <3> QED BY <1>3, <3>1
    <2>3. ((q + 1) * d + 0) % d = 0
      BY <1>1, <1>2
    <2> QED BY <1>1, <1>3, <2>2, <2>3 DEF r
  <1>4. CASE r # d - 1
    <2>1. r + 1 \in 0 .. d - 1
      BY <1>1, <1>4
    <2>2. n + 1 = q * d + (r + 1)
      BY <1>1, Z3
    <2>3. (q * d + (r + 1)) % d = r + 1
      BY <1>1, <1>2, <2>1
    <2> QED BY <1>1, <1>4, <2>2, <2>3 DEF r
  <1> QED BY <1>3, <1>4

(* Turns of the loop since the last heartbeat. *)
Turn == iteration % HbIterations

(* iteration wraps at a multiple of hb_iterations: the turns since the     *)
(* last heartbeat go round, whatever the two periods.                      *)
LEMMA TurnNext ==
  ASSUME NEW n \in 0 .. Period - 1
  PROVE  /\ n % HbIterations \in 0 .. HbIterations - 1
         /\ ((n + 1) % Period) % HbIterations =
              IF n % HbIterations = HbIterations - 1 THEN 0 ELSE (n % HbIterations) + 1
  <1> DEFINE m == Period
  <1>1. m \in Nat \ {0} /\ n \in Nat /\ HbIterations \in Nat \ {0}
    BY Positive, IterationAssumption
  <1>2. m % HbIterations = 0
    BY IterationAssumption, Z3 DEF Period
  <1> HIDE DEF m
  <1>3. ((n + 1) % m) % HbIterations = (n + 1) % HbIterations
    <2>1. CASE n + 1 = m
      <3>1. m % m = 0 /\ 0 % HbIterations = 0
        BY <1>1, Z3
      <3> QED BY <1>2, <2>1, <3>1
    <2>2. CASE n + 1 # m
      <3>1. n + 1 \in 0 .. m - 1
        BY <1>1, <2>2 DEF m
      <3>2. (n + 1) % m = n + 1
        BY <1>1, <3>1, Z3
      <3> QED BY <3>2
    <2> QED BY <2>1, <2>2
  <1> QED BY <1>1, <1>3, ModSucc DEF m

(* A record that will be on the wire before the loop comes to its end. *)
Due(p) == pending_update[p] \/ p \in msg.chans

(* In ca_pend_event: nothing is older than the heartbeat before the last   *)
(* one, and what was queued since the last one was sent since.             *)
PendBeat ==
  pc = "pend" => \A p \in Parents :
    /\ since[p] < HbIterations + Turn
    /\ ~pending_update[p] /\ updates_since_last_hb[p] > 0 => since[p] < Turn

(* In mark_heartbeat_updates: what was queued since the last heartbeat is  *)
(* young enough to wait for the next one, and a record that was visited is *)
(* either that or queued.                                                  *)
MarkBeat ==
  pc = "hb" => \A p \in Parents :
    /\ Turn = 0
    /\ since[p] < 2 * HbIterations
    /\ ~pending_update[p] /\ updates_since_last_hb[p] > 0 => since[p] < HbIterations
    /\ p < hb_next => /\ pending_update[p] \/ since[p] < HbIterations
                      /\ updates_since_last_hb[p] = 0

(* While the queue is sent. *)
SendBeat ==
  pc \notin {"pend", "hb"} => \A p \in Parents :
    /\ since[p] < 2 * HbIterations
    /\ ~Due(p) => since[p] < HbIterations + Turn
    /\ ~Due(p) /\ updates_since_last_hb[p] > 0 => since[p] < Turn
    /\ Turn = 0 => updates_since_last_hb[p] = 0

(* HeartbeatBound is not inductive: how old a record may be depends on the *)
(* place in the loop, on the turns since the last heartbeat and on whether *)
(* the record counted an update since then.                                *)
BeatInv == since \in [Chan -> Nat] /\ PendBeat /\ MarkBeat /\ SendBeat

(* Only EndPend and the two sends touch the history. *)
LEMMA SinceType ==
  ASSUME TypeInv, since \in [Chan -> Nat], [Next]_vars
  PROVE  since' \in [Chan -> Nat]
  <1>1. CASE EndPend
    BY <1>1 DEF EndPend
  <1>2. CASE SendMsg
    BY <1>2 DEF SendMsg
  <1>3. CASE SendFragment
    BY <1>3 DEF SendFragment, histVars
  <1>4. ASSUME NEW c \in Chan, Callback(c) PROVE since' = since
    BY <1>4
    DEF Callback, IocWrite, ConnUp, ConnDown, EventMonitor, EventGet, EventGetFails, histVars
  <1>5. CASE HbStep \/ SendDone \/ StartMsg \/ AddGroup \/ FragDone \/ StartFrag
               \/ NetTake \/ UNCHANGED vars
    BY <1>5
    DEF HbStep, SendDone, StartMsg, AddGroup, FragDone, StartFrag, NetTake, vars, histVars
  <1> QED BY <1>1, <1>2, <1>3, <1>4, <1>5 DEF Next, Step

(* Callbacks mark records or leave them alone. *)
LEMMA BeatCallback ==
  ASSUME TypeInv, BeatInv, NEW c \in Chan, Callback(c)
  PROVE  PendBeat' /\ MarkBeat' /\ SendBeat'
  <1>0. QueueType
    BY DEF TypeInv, TypeOK
  <1>1. pc = "pend" /\ pc' = pc /\ iteration' = iteration /\ since' = since
    BY DEF Callback, IocWrite, ConnUp, ConnDown, EventMonitor, EventGet, EventGetFails,
           loopVars, histVars
  <1>2. UNCHANGED queueVars \/ mark_update(c)
    BY DEF Callback, IocWrite, ConnUp, ConnDown, EventMonitor, EventGet, EventGetFails
  <1>3. \A p \in Parents :
          \/ pending_update'[p]
          \/ /\ pending_update'[p] = pending_update[p]
             /\ updates_since_last_hb'[p] = updates_since_last_hb[p]
    <2>1. CASE UNCHANGED queueVars
      BY <2>1 DEF queueVars
    <2>2. CASE mark_update(c)
      BY <1>0, <2>2, ParentType DEF mark_update, queueVars, QueueType, Parents
    <2> QED BY <1>2, <2>1, <2>2
  <1>4. Turn' = Turn
    BY <1>1 DEF Turn
  <1>5. PendBeat'
    BY <1>1, <1>3, <1>4 DEF BeatInv, PendBeat
  <1> QED BY <1>1, <1>5 DEF MarkBeat, SendBeat

(* The end of ca_pend_event makes everything one turn older. *)
LEMMA BeatEndPend ==
  ASSUME TypeInv, BeatInv, EndPend
  PROVE  PendBeat' /\ MarkBeat' /\ SendBeat'
  <1>0. QueueType /\ LoopType /\ LoopInv /\ HbIterations \in Nat \ {0}
    BY IterationAssumption DEF TypeInv, TypeOK
  <1> DEFINE t == Turn
  <1>1. /\ t \in 0 .. HbIterations - 1
        /\ Turn' = IF t = HbIterations - 1 THEN 0 ELSE t + 1
    <2>1. iteration \in 0 .. Period - 1 /\ iteration' = (iteration + 1) % Period
      BY <1>0 DEF EndPend, LoopType
    <2> QED BY <2>1, TurnNext DEF Turn
  <1>2. /\ pc = "pend" /\ hb_next' = 0
        /\ pc' = IF Turn' = 0 THEN "hb" ELSE "send"
        /\ UNCHANGED <<pending_update, updates_since_last_hb, msg>>
    BY DEF EndPend, Turn, queueVars, wireVars
  <1>3. \A p \in Parents : since[p] \in Nat /\ since[p] < HbIterations + t
    BY <1>2 DEF BeatInv, PendBeat, Parents
  <1> HIDE DEF t
  <1>4. \A p \in Parents : since'[p] = since[p] + 1
    BY <1>0, <1>1, <1>3 DEF EndPend, Parents
  <1>5. msg.chans = {}
    BY <1>0, <1>2 DEF LoopInv
  <1>6. \A p \in Parents : ~pending_update[p] /\ updates_since_last_hb[p] > 0 => since[p] < t
    BY <1>2 DEF BeatInv, PendBeat, t
  <1>7. CASE t = HbIterations - 1
    <2>1. Turn' = 0 /\ pc' = "hb"
      BY <1>1, <1>2, <1>7
    <2>2. ASSUME NEW p \in Parents
          PROVE  /\ since'[p] < 2 * HbIterations
                 /\ ~pending_update'[p] /\ updates_since_last_hb'[p] > 0
                      => since'[p] < HbIterations
                 /\ ~(p < hb_next')
      <3>1. p >= 0
        BY NAssumption DEF Parents, Chan
      <3>2. since'[p] < 2 * HbIterations
        BY <1>0, <1>3, <1>4, <1>7
      <3>4. ~(p < hb_next')
        <4>1. p \in Int
          BY NAssumption DEF Parents, Chan
        <4> QED BY <1>2, <3>1, <4>1
      <3>3. ~pending_update[p] /\ updates_since_last_hb[p] > 0 => since'[p] < HbIterations
        BY <1>0, <1>1, <1>3, <1>4, <1>6, <1>7
      <3> QED BY <1>2, <3>2, <3>3, <3>4
    <2> QED BY <2>1, <2>2 DEF PendBeat, MarkBeat, SendBeat
  <1>8. CASE t # HbIterations - 1
    <2>1. Turn' = t + 1 /\ Turn' # 0 /\ pc' = "send"
      BY <1>1, <1>2, <1>8
    <2>2. ASSUME NEW p \in Parents
          PROVE  /\ since'[p] < 2 * HbIterations
                 /\ since'[p] < HbIterations + Turn'
                 /\ ~pending_update'[p] /\ updates_since_last_hb'[p] > 0
                      => since'[p] < Turn'
      BY <1>0, <1>1, <1>2, <1>3, <1>4, <1>6, <1>8, <2>1
    <2> QED BY <2>1, <2>2 DEF PendBeat, MarkBeat, SendBeat, Due
  <1> QED BY <1>7, <1>8

(* A heartbeat visits channel hb_next and marks its record if it counted   *)
(* no update; a record is among the channels visited.                      *)
LEMMA BeatHbStep ==
  ASSUME TypeInv, BeatInv, HbStep
  PROVE  PendBeat' /\ MarkBeat' /\ SendBeat'
  <1> DEFINE c == hb_next  q == ParentIndex[c]
  <1>0. QueueType /\ c \in Chan /\ HbIterations \in Nat \ {0} /\ Parents \subseteq Chan
    BY IterationAssumption DEF TypeInv, TypeOK, LoopType, Parents
  <1>1. q \in Parents /\ \A p \in Parents : p = c => p = q
    BY <1>0, ParentType DEF Parents
  <1>2. /\ pc = "hb" /\ since' = since /\ Turn' = Turn /\ msg' = msg
        /\ IF c = N - 1 THEN pc' = "send" ELSE pc' = pc /\ hb_next' = c + 1
    BY DEF HbStep, Turn, wireVars, histVars
  <1>3. /\ updates_since_last_hb' = [updates_since_last_hb EXCEPT ![q] = 0]
        /\ \/ /\ updates_since_last_hb[q] = 0 /\ ~pending_update[q]
              /\ pending_update' = [pending_update EXCEPT ![q] = TRUE]
           \/ /\ ~(updates_since_last_hb[q] = 0 /\ ~pending_update[q])
              /\ pending_update' = pending_update
    BY DEF HbStep, mark_heartbeat_update
  <1> HIDE DEF q
  <1>4. \A p \in Parents :
          /\ since[p] \in Nat /\ Turn = 0 /\ since[p] < 2 * HbIterations
          /\ ~pending_update[p] /\ updates_since_last_hb[p] > 0 => since[p] < HbIterations
          /\ p < c => /\ pending_update[p] \/ since[p] < HbIterations
                      /\ updates_since_last_hb[p] = 0
    BY <1>0, <1>2 DEF BeatInv, MarkBeat
  <1>5. \A p \in Chan : updates_since_last_hb[p] \in Nat
    BY <1>0 DEF QueueType
  <1>6. \A p \in Parents :
          p # q => /\ pending_update'[p] = pending_update[p]
                   /\ updates_since_last_hb'[p] = updates_since_last_hb[p]
    BY <1>0, <1>3 DEF QueueType
  <1>7. /\ updates_since_last_hb'[q] = 0
        /\ pending_update'[q] \/ since[q] < HbIterations
    <2>1. updates_since_last_hb'[q] = 0
      BY <1>0, <1>1, <1>3 DEF QueueType
    <2>2. updates_since_last_hb[q] \in Nat
      BY <1>0, <1>1, <1>5
    <2>3. updates_since_last_hb[q] = 0 /\ ~pending_update[q] => pending_update'[q]
      BY <1>0, <1>1, <1>3 DEF QueueType
    <2>4. pending_update[q] => pending_update'[q]
      BY <1>0, <1>1, <1>3 DEF QueueType
    <2> QED BY <1>1, <1>4, <2>1, <2>2, <2>3, <2>4
  <1> HIDE DEF c
  <1>8. ASSUME NEW p \in Parents
        PROVE  /\ since[p] < 2 * HbIterations
               /\ ~pending_update'[p] /\ updates_since_last_hb'[p] > 0
                    => since[p] < HbIterations
               /\ p <= c => /\ pending_update'[p] \/ since[p] < HbIterations
                            /\ updates_since_last_hb'[p] = 0
    <2>1. p \in Int /\ c \in Int
      BY <1>0, NAssumption DEF Chan
    <2>2. CASE p = q
      BY <1>4, <1>7, <2>2
    <2>3. CASE p # q
      <3>1. p <= c => p < c
        BY <1>1, <2>1, <2>3
      <3> QED BY <1>4, <1>6, <2>3, <3>1
    <2> QED BY <2>2, <2>3
  <1>9. CASE c = N - 1
    <2>1. pc' = "send"
      BY <1>2, <1>9 DEF c
    <2>2. \A p \in Parents : p <= c
      BY <1>0, <1>9, NAssumption DEF Chan
    <2>3. ASSUME NEW p \in Parents
          PROVE  /\ since'[p] < 2 * HbIterations
                 /\ ~Due(p)' => since'[p] < HbIterations + Turn'
                 /\ updates_since_last_hb'[p] = 0
      <3>1. Turn' = 0 /\ since'[p] = since[p]
        BY <1>2, <1>4
      <3>2. pending_update'[p] => Due(p)'
        BY DEF Due
      <3> QED BY <1>0, <1>8, <2>2, <3>1, <3>2
    <2> QED BY <2>1, <2>3 DEF PendBeat, MarkBeat, SendBeat
  <1>10. CASE c # N - 1
    <2>1. pc' = "hb" /\ hb_next' = c + 1
      BY <1>2, <1>10 DEF c
    <2>2. \A p \in Parents : p < c + 1 => p <= c
      BY <1>0, NAssumption DEF Chan
    <2>3. since' = since /\ \A p \in Parents : Turn' = 0
      BY <1>2, <1>4
    <2> QED BY <1>8, <2>1, <2>2, <2>3 DEF PendBeat, MarkBeat, SendBeat
  <1> QED BY <1>9, <1>10

(* The steps of send_updates and send_fragmented_updates: a record leaves  *)
(* the queue into a message, and what is sent is new again.  The loop ends *)
(* with an empty queue.                                                    *)
LEMMA BeatSend ==
  ASSUME TypeInv, QueueConsistent, BeatInv,
         \/ SendDone \/ StartMsg \/ AddGroup \/ SendMsg
         \/ FragDone \/ StartFrag \/ SendFragment
  PROVE  PendBeat' /\ MarkBeat' /\ SendBeat'
  <1>0. /\ QueueType /\ LoopType /\ WireType /\ LoopInv /\ HbIterations \in Nat \ {0}
        /\ Parents \subseteq Chan
    BY IterationAssumption DEF TypeInv, TypeOK, Parents
  <1>1. Turn' = Turn /\ Turn \in Nat
    <2>1. iteration' = iteration
      BY DEF SendDone, StartMsg, AddGroup, SendMsg, FragDone, StartFrag, SendFragment, loopVars
    <2> QED BY <1>0, <2>1, TurnNext DEF Turn, LoopType
  <1>2. /\ pc \notin {"pend", "hb"}
        /\ updates_since_last_hb' = updates_since_last_hb
    BY DEF SendDone, StartMsg, AddGroup, SendMsg, FragDone, StartFrag, SendFragment,
           clear_update, queueVars
  <1>3. \A p \in Parents :
          /\ since[p] \in Nat /\ since[p] < 2 * HbIterations
          /\ ~Due(p) => since[p] < HbIterations + Turn
          /\ ~Due(p) /\ updates_since_last_hb[p] > 0 => since[p] < Turn
          /\ Turn = 0 => updates_since_last_hb[p] = 0
          /\ updates_since_last_hb[p] \in Nat
    BY <1>0, <1>2 DEF BeatInv, SendBeat, QueueType
  <1>4. CASE SendDone
    <2>1. \A p \in Parents : ~pending_update[p] /\ p \notin msg.chans
      BY <1>0, <1>4 DEF SendDone, QueueConsistent, LoopInv
    <2>2. pc' = "pend" /\ UNCHANGED <<pending_update, since>>
      BY <1>4 DEF SendDone, queueVars, histVars
    <2> QED BY <1>1, <1>2, <1>3, <2>1, <2>2 DEF PendBeat, MarkBeat, SendBeat, Due
  <1>5. CASE pc' \notin {"pend", "hb"}
             /\ \A p \in Parents :
                  \/ since'[p] = 0
                  \/ since'[p] = since[p] /\ (Due(p) => Due(p)')
    <2> SUFFICES ASSUME NEW p \in Parents
                 PROVE  /\ since'[p] < 2 * HbIterations
                        /\ ~Due(p)' => since'[p] < HbIterations + Turn
                        /\ ~Due(p)' /\ updates_since_last_hb[p] > 0 => since'[p] < Turn
                        /\ Turn = 0 => updates_since_last_hb[p] = 0
      BY <1>1, <1>2, <1>5 DEF PendBeat, MarkBeat, SendBeat
    <2>1. CASE since'[p] = 0
      BY <1>0, <1>1, <1>3, <2>1
    <2>2. CASE since'[p] = since[p] /\ (Due(p) => Due(p)')
      BY <1>3, <2>2
    <2> QED BY <1>5, <2>1, <2>2
  <1>6. CASE StartMsg
    <2>1. pc = "send" /\ msg.chans = {} /\ UNCHANGED <<pending_update, since>> /\ pc' = "build"
      BY <1>0, <1>6 DEF StartMsg, LoopInv, queueVars, histVars
    <2>2. \A p \in Parents : since'[p] = since[p] /\ (Due(p) => Due(p)')
      BY <2>1 DEF Due
    <2> QED BY <1>5, <2>1, <2>2
  <1>7. CASE AddGroup
    <2> DEFINE h == Head(update_deque)
    <2>1. /\ h \in Parents /\ h \in Group(h) /\ since' = since /\ pc' = "build"
          /\ pending_update' = [pending_update EXCEPT ![h] = FALSE]
          /\ msg'.chans = msg.chans \cup Group(h)
      BY <1>0, <1>7
      DEF AddGroup, Fits, clear_update, QueueType, WireType, Parents, Group, loopVars, histVars
    <2> HIDE DEF h
    <2>2. \A p \in Parents : p # h => pending_update'[p] = pending_update[p]
      BY <1>0, <2>1 DEF QueueType
    <2>3. h \in msg'.chans /\ msg.chans \subseteq msg'.chans
      BY <2>1
    <2>4. \A p \in Parents : Due(p) => Due(p)'
      BY <2>2, <2>3 DEF Due
    <2> QED BY <1>5, <2>1, <2>4
  <1>8. CASE SendMsg
    <2>1. /\ since' = [c \in Chan |-> IF c \in msg.chans THEN 0 ELSE since[c]]
          /\ pending_update' = pending_update /\ pc' \in {"frag", "send"}
      BY <1>8 DEF SendMsg, queueVars
    <2>2. ASSUME NEW p \in Parents
          PROVE  since'[p] = 0 \/ (since'[p] = since[p] /\ (Due(p) => Due(p)'))
      <3>1. CASE p \in msg.chans
        BY <1>0, <2>1, <3>1
      <3>2. CASE p \notin msg.chans
        <4>1. since'[p] = since[p]
          BY <1>0, <2>1, <3>2
        <4>2. Due(p) => Due(p)'
          BY <2>1, <3>2 DEF Due
        <4> QED BY <4>1, <4>2
      <3> QED BY <3>1, <3>2
    <2> QED BY <1>5, <2>1, <2>2
  <1>9. CASE FragDone \/ StartFrag
    <2>1. UNCHANGED <<pending_update, since, msg>> /\ pc' \in {"send", "fragging"}
      BY <1>9 DEF FragDone, StartFrag, queueVars, histVars, wireVars
    <2>2. \A p \in Parents : since'[p] = since[p] /\ (Due(p) => Due(p)')
      BY <2>1 DEF Due
    <2> QED BY <1>5, <2>1, <2>2
  <1>10. CASE SendFragment
    <2> DEFINE h == frag.ch
    <2>1. h = Head(update_deque) /\ h \in Chan
      BY <1>0, <1>10 DEF SendFragment, LoopInv, QueueType
    <2>2. msg' = msg /\ pc = "fragging"
      BY <1>10 DEF SendFragment
    <2>3. CASE frag.rest > FragSize
      <3>1. UNCHANGED <<pc, pending_update, since>>
        BY <1>10, <2>3 DEF SendFragment, queueVars, histVars
      <3>2. \A p \in Parents : since'[p] = since[p] /\ (Due(p) => Due(p)')
        BY <2>2, <3>1 DEF Due
      <3> QED BY <1>5, <2>2, <3>1, <3>2
    <2>4. CASE ~(frag.rest > FragSize)
      <3>1. /\ pc' = "frag" /\ since' = [since EXCEPT ![h] = 0]
            /\ pending_update' = [pending_update EXCEPT ![h] = FALSE]
        BY <1>10, <2>1, <2>4 DEF SendFragment, clear_update
      <3> HIDE DEF h
      <3>2. /\ since'[h] = 0
            /\ \A p \in Parents : p # h => /\ since'[p] = since[p]
                                           /\ pending_update'[p] = pending_update[p]
        BY <1>0, <2>1, <3>1 DEF QueueType, BeatInv
      <3>3. ASSUME NEW p \in Parents
            PROVE  since'[p] = 0 \/ (since'[p] = since[p] /\ (Due(p) => Due(p)'))
        <4>1. CASE p = h
          BY <3>2, <4>1
        <4>2. CASE p # h
          <5>1. Due(p) => Due(p)'
            BY <2>2, <3>2, <4>2 DEF Due
          <5> QED BY <3>2, <4>2, <5>1
        <4> QED BY <4>1, <4>2
      <3> QED BY <1>5, <3>1, <3>3
    <2> QED BY <2>3, <2>4
  <1> QED BY <1>4, <1>6, <1>7, <1>8, <1>9, <1>10

(* Every step keeps the heartbeat's invariant. *)
LEMMA BeatStep == TypeInv /\ QueueConsistent /\ BeatInv /\ [Next]_vars => BeatInv'
  <1> SUFFICES ASSUME TypeInv, QueueConsistent, BeatInv, [Next]_vars PROVE BeatInv'
    OBVIOUS
  <1>1. since' \in [Chan -> Nat]
    BY SinceType DEF BeatInv
  <1>2. CASE NetTake \/ UNCHANGED vars
    BY <1>1, <1>2
    DEF NetTake, vars, BeatInv, PendBeat, MarkBeat, SendBeat, Due, Turn,
        queueVars, loopVars, histVars, wireVars
  <1> QED
    BY <1>1, <1>2, BeatCallback, BeatEndPend, BeatHbStep, BeatSend DEF BeatInv, Next, Step

(* No record stays off the wire for two heartbeat periods, for any number  *)
(* of records and fields and any two periods of the loop: what the         *)
(* receiver's timeout rests on.  The bound is exact: a record updated in   *)
(* the first turn after a heartbeat is next sent 2 * hb_iterations - 1     *)
(* turns later.                                                            *)
THEOREM SenderHeartbeatBound == Spec => []HeartbeatBound
  <1>1. Init => BeatInv
    <2> SUFFICES ASSUME Init PROVE BeatInv
      OBVIOUS
    <2>1. Turn = 0 /\ HbIterations \in Nat \ {0}
      BY IterationAssumption, Z3 DEF Init, Turn
    <2>2. Parents \subseteq Chan
      BY DEF Parents
    <2> QED BY <2>1, <2>2 DEF Init, BeatInv, PendBeat, MarkBeat, SendBeat
  <1>2. Init => QueueConsistent
    BY DEF Init, QueueConsistent
  <1>3. TypeInv /\ BeatInv => HeartbeatBound
    <2> SUFFICES ASSUME TypeInv, BeatInv PROVE HeartbeatBound
      OBVIOUS
    <2>1. /\ Turn \in 0 .. HbIterations - 1 /\ HbIterations \in Nat \ {0}
          /\ \A p \in Parents : since[p] \in Nat
      BY TurnNext, IterationAssumption
      DEF Turn, TypeInv, TypeOK, LoopType, BeatInv, Parents
    <2>2. CASE pc = "pend"
      BY <2>1, <2>2 DEF BeatInv, PendBeat, HeartbeatBound
    <2>3. CASE pc = "hb"
      BY <2>3 DEF BeatInv, MarkBeat, HeartbeatBound
    <2>4. CASE pc \notin {"pend", "hb"}
      BY <2>4 DEF BeatInv, SendBeat, HeartbeatBound
    <2> QED BY <2>2, <2>3, <2>4
  <1> QED
    BY <1>1, <1>2, <1>3, TypeInit, TypeStep, QueueStep, BeatStep, PTL DEF Spec

-----------------------------------------------------------------------------
(* value_size() of a group is a sum in the sense of NatSets. *)
LEMMA GroupSum ==
  ASSUME TypeOK, NEW p \in Chan
  PROVE  GroupSize(p) = Sums([c \in Chan |-> ValueSize(c)], Group(p))[Group(p)]
  <1> DEFINE w == [c \in Chan |-> ValueSize(c)]
             G == Group(p)
             Mapped(g, s) == IF s = {} THEN 0
                             ELSE LET x == CHOOSE y \in s : TRUE
                                  IN  ValueSize(x) + g[s \ {x}]
  <1>1. GroupSize(p) = (CHOOSE g : g = [s \in SUBSET G |-> Mapped(g, s)])[G]
    BY DEF GroupSize, MapThenSumSet, MapThenFoldSet
  <1>2. ASSUME NEW g, NEW s \in SUBSET G PROVE Mapped(g, s) = SumStep(w, g, s)
    <2>1. CASE s = {}
      BY <2>1 DEF SumStep
    <2>2. CASE s # {}
      <3> DEFINE x == CHOOSE y \in s : TRUE
      <3>1. x \in Chan
        BY <2>2 DEF Group
      <3>2. w[x] = ValueSize(x)
        BY <3>1
      <3> HIDE DEF w
      <3> QED BY <2>2, <3>2 DEF SumStep
    <2> QED BY <2>1, <2>2
  <1> HIDE DEF w, G, Mapped
  <1>3. \A g : [s \in SUBSET G |-> Mapped(g, s)] = [s \in SUBSET G |-> SumStep(w, g, s)]
    BY <1>2
  <1>4. (CHOOSE g : g = [s \in SUBSET G |-> Mapped(g, s)]) = Sums(w, G)
    BY <1>3 DEF Sums
  <1> QED BY <1>1, <1>4 DEF w, G

(* A group that fits a message has no value that does not. *)
LEMMA GroupMembers ==
  ASSUME TypeOK, NEW p \in Chan, NEW c \in Group(p)
  PROVE  ValueSize(c) \in Nat /\ GroupSize(p) \in Nat /\ ValueSize(c) <= GroupSize(p)
  <1> DEFINE w == [x \in Chan |-> ValueSize(x)]
             G == Group(p)
  <1>1. \A x \in Chan : w[x] = ValueSize(x) /\ w[x] \in Nat
    BY ValueSizeType
  <1>2. G \in SUBSET Chan /\ IsFiniteSet(Chan)
    BY NAssumption, FS_Interval DEF Group, Chan
  <1>3. IsFiniteSet(G)
    BY <1>2, FS_Subset
  <1>4. GroupSize(p) = Sums(w, G)[G]
    BY GroupSum
  <1> HIDE DEF w
  <1>5. Sums(w, G)[G] \in Nat /\ \A x \in G : w[x] <= Sums(w, G)[G]
    <2> HIDE DEF G
    <2>1. \A x \in G : w[x] \in Nat
      BY <1>1, <1>2
    <2> QED BY <1>3, <2>1, SumBounds
  <1> QED BY <1>1, <1>2, <1>4, <1>5

(* The message being built has taken the number before the next one, and   *)
(* holds values that fit a message: what the abstract source asks of the   *)
(* datagram when it is sent.                                               *)
MsgInv ==
  pc = "build" =>
    /\ seq_no = NextSeq(msg.seq)
    /\ \A c \in msg.chans : ValueSize(c) <= MaxDataSize

(* Every step keeps what the message promises. *)
LEMMA MsgStep == TypeInv /\ MsgInv /\ [Next]_vars => MsgInv'
  <1> SUFFICES ASSUME TypeInv, MsgInv, [Next]_vars PROVE MsgInv'
    OBVIOUS
  <1>0. TypeOK /\ QueueType /\ LoopType /\ WireType /\ LoopInv
    BY DEF TypeInv, TypeOK
  <1>1. pc' # "build" => MsgInv'
    BY DEF MsgInv
  <1>2. CASE StartMsg
    <2>1. msg'.seq = seq_no /\ msg'.chans = {} /\ seq_no' = NextSeq(seq_no)
      BY <1>2 DEF StartMsg
    <2>2. NextSeq(msg.seq)' = NextSeq(seq_no)
      BY <2>1 DEF NextSeq
    <2> QED BY <2>1, <2>2 DEF MsgInv
  <1>3. CASE AddGroup
    <2> DEFINE h == Head(update_deque)
    <2>1. /\ pc = "build" /\ h \in Chan /\ ~(GroupSize(h) > MaxDataSize)
          /\ msg'.seq = msg.seq /\ msg'.chans = msg.chans \cup Group(h)
          /\ UNCHANGED <<value, seq_no>>
      BY <1>0, <1>3
      DEF AddGroup, Fits, Oversize, QueueType, Parents, WireType, chanVars
    <2>2. seq_no' = NextSeq(msg.seq)'
      BY <2>1 DEF MsgInv, NextSeq
    <2>3. MaxDataSize \in Nat
      BY MaxMessageSizeAssumption DEF MaxDataSize, DataRoom, HeaderSize,
         SubmessageHeaderSize, CADataMessageSize, CAChannelDataSize
    <2> HIDE DEF h
    <2>4. ASSUME NEW c \in msg.chans \cup Group(h) PROVE ValueSize(c) <= MaxDataSize
      <3>1. CASE c \in msg.chans
        BY <2>1, <3>1 DEF MsgInv
      <3>2. CASE c \in Group(h)
        BY <1>0, <2>1, <2>3, <3>2, GroupMembers
      <3> QED BY <3>1, <3>2
    <2>5. \A c \in Chan : ValueSize(c)' = ValueSize(c)
      BY <2>1 DEF ValueSize
    <2>6. msg.chans \cup Group(h) \subseteq Chan
      BY <1>0 DEF WireType, Group
    <2>7. \A c \in msg'.chans : ValueSize(c)' <= MaxDataSize
      BY <2>1, <2>4, <2>5, <2>6
    <2>8. MaxDataSize' = MaxDataSize
      BY DEF MaxDataSize, DataRoom, HeaderSize, SubmessageHeaderSize,
             CADataMessageSize, CAChannelDataSize
    <2> QED BY <2>2, <2>7, <2>8 DEF MsgInv
  <1>4. CASE NetTake \/ UNCHANGED vars
    BY <1>4
    DEF NetTake, vars, MsgInv, ValueSize, NextSeq, MaxDataSize, DataRoom, chanVars,
        queueVars, loopVars, wireVars
  <1>5. ASSUME NEW c \in Chan, Callback(c) PROVE MsgInv'
    BY <1>1, <1>5
    DEF Callback, IocWrite, ConnUp, ConnDown, EventMonitor, EventGet, EventGetFails, loopVars
  <1>6. CASE EndPend \/ HbStep \/ SendDone \/ SendMsg \/ FragDone \/ StartFrag \/ SendFragment
    BY <1>1, <1>6
    DEF EndPend, HbStep, SendDone, SendMsg, FragDone, StartFrag, SendFragment, loopVars
  <1> QED
    BY <1>2, <1>3, <1>4, <1>5, <1>6 DEF Next, Step

(* The abstract source's sequence number. *)
SourceSeq == IF pc = "build" THEN msg.seq ELSE seq_no

(* The table of sizes the abstract source is given. *)
SizeTable ==
  [c \in Chan |-> [v \in Pv \cup {None} |->
     IF v = None THEN 0 ELSE DbrSize[c][v.type][v.count]]]

(* It is the sizes of the cached values. *)
LEMMA SourceSize ==
  ASSUME TypeOK, NEW c \in Chan
  PROVE  SizeTable[c][value[c]] = ValueSize(c)
  BY DEF SizeTable, ValueSize, TypeOK, ChanType

(* One operator is written in both modules. *)
LEMMA SourceConstants ==
  /\ Source!MaxDataSize = MaxDataSize /\ Source!FragRoom = FragRoom
  /\ \A s : Source!NextSeq(s) = NextSeq(s)
  /\ \A a, b, u : Source!DataMsg(a, b, u) = DataMsg(a, b, u)
  /\ \A a, b, n, c, v, f : Source!FragMsg(a, b, n, c, v, f) = FragMsg(a, b, n, c, v, f)
  BY DEF Source!MaxDataSize, Source!DataRoom, Source!HeaderSize,
         Source!SubmessageHeaderSize, Source!CADataMessageSize, Source!CAChannelDataSize,
         Source!FragRoom, Source!CAFragDataMessageSize, Source!NextSeq,
         Source!DataMsg, Source!FragMsg,
         MaxDataSize, DataRoom, HeaderSize, SubmessageHeaderSize, CADataMessageSize,
         CAChannelDataSize, FragRoom, CAFragDataMessageSize, NextSeq, DataMsg, FragMsg
(* A callback stores a value or does nothing the abstract source sees. *)
LEMMA SourceCallback ==
  ASSUME TypeInv, NEW c \in Chan, Callback(c)
  PROVE  Source!Store(c) \/ UNCHANGED Source!srcVars
  <1>0. IocType /\ ChanType /\ ConnInv /\ LoopInv
    BY DEF TypeInv, TypeOK
  <1>1. pc = "pend" /\ pc' = pc /\ UNCHANGED <<seq_no, frag, net>>
    BY DEF Callback, IocWrite, ConnUp, ConnDown, EventMonitor, EventGet, EventGetFails,
           loopVars, wireVars
  <1>2. frag = None
    BY <1>0, <1>1 DEF LoopInv
  <1>3. ASSUME NEW v \in Pv \cup {None}, value' = [value EXCEPT ![c] = v]
        PROVE  Source!Store(c)
    <2> DEFINE succ == [x \in Chan |-> [u \in Pv \cup {None} |-> Pv \cup {None}]]
    <2>1. value[c] \in Pv \cup {None}
      BY <1>0 DEF ChanType
    <2>2. v \in succ[c][value[c]]
      BY <2>1
    <2>3. \E u \in succ[c][value[c]] : value' = [value EXCEPT ![c] = u]
      BY <1>3, <2>2
    <2> QED BY <1>1, <1>2, <2>3 DEF Source!Store
  <1>4. value' = value => UNCHANGED Source!srcVars
    BY <1>1 DEF Source!srcVars
  <1>5. CASE ConnDown(c)
    BY <1>3, <1>5 DEF ConnDown
  <1>6. CASE EventMonitor(c)
    <2>1. src[c] \in Pv /\ event_id[c] \in [type : Types, count : Counts]
      BY <1>0, <1>6 DEF EventMonitor, ConnInv, IocType, ChanType
    <2>2. MonitorArgs(c) \in Pv
      BY <2>1 DEF MonitorArgs, Pv
    <2> QED BY <1>3, <1>6, <2>2 DEF EventMonitor
  <1>7. CASE EventGet(c)
    <2>1. src[c] \in Pv /\ type[c] \in Types
      BY <1>0, <1>7 DEF EventGet, ConnInv, IocType, ChanType
    <2>2. [src[c] EXCEPT !.type = type[c]] \in Pv
      BY <2>1 DEF Pv
    <2> QED BY <1>3, <1>7, <2>2 DEF EventGet
  <1>8. CASE IocWrite(c) \/ ConnUp(c) \/ EventGetFails(c)
    BY <1>4, <1>8 DEF IocWrite, ConnUp, EventGetFails, chanVars
  <1> QED BY <1>5, <1>6, <1>7, <1>8 DEF Callback

(* The message handed over is one datagram of the abstract source, with    *)
(* the number it has taken when it was begun.                              *)
LEMMA SourceSendMsg ==
  ASSUME TypeInv, MsgInv, SendMsg
  PROVE  Source!EmitData(msg.chans)
  <1>0. TypeOK /\ LoopInv /\ WireType
    BY DEF TypeInv, TypeOK
  <1>1. /\ pc = "build" /\ pc' # "build"
        /\ UNCHANGED <<value, seq_no, frag>>
        /\ Len(net) < NetCap
        /\ net' = Append(net, DataMsg(1, msg.seq, [c \in msg.chans |-> value[c]]))
    BY DEF SendMsg, Hand, chanVars
  <1>2. frag = None
    BY <1>0, <1>1 DEF LoopInv
  <1>3. SourceSeq = msg.seq /\ SourceSeq' = NextSeq(msg.seq) /\ msg.seq < SeqMod
    BY <1>0, <1>1, SeqModAssumption DEF SourceSeq, MsgInv, WireType
  <1>4. \A c \in msg.chans : SizeTable[c][value[c]] <= Source!MaxDataSize
    BY <1>0, <1>1, SourceSize, SourceConstants DEF MsgInv, WireType
  <1>5. Source!Hand(Source!DataMsg(1, msg.seq, [c \in msg.chans |-> value[c]]))
    BY <1>1, SourceConstants DEF Source!Hand
  <1>6. SourceSeq' = Source!NextSeq(SourceSeq)
    BY <1>3, SourceConstants
  <1> QED
    BY <1>1, <1>2, <1>3, <1>4, <1>5, <1>6 DEF Source!EmitData, SourceSeq, SizeTable

(* The start of a fragmented update. *)
LEMMA SourceStartFrag ==
  ASSUME TypeInv, StartFrag
  PROVE  Source!BeginFrag(Head(update_deque)) /\ Head(update_deque) \in Chan
  <1> DEFINE h == Head(update_deque)
  <1>0. TypeOK /\ LoopInv /\ WireType /\ QueueType
    BY DEF TypeInv, TypeOK
  <1>1. /\ pc = "frag" /\ pc' = "fragging"
        /\ UNCHANGED <<value, net>> /\ seq_no' = NextSeq(seq_no)
        /\ Len(net) < NetCap /\ update_deque # << >>
        /\ ValueSize(h) > MaxDataSize
        /\ frag' = [seq |-> seq_no, no |-> 0, ch |-> h, rest |-> ValueSize(h)]
    BY DEF StartFrag, FragNeeded, chanVars
  <1>2. frag = None
    BY <1>0, <1>1 DEF LoopInv
  <1>3. h \in Chan
    BY <1>0, <1>1 DEF QueueType, Parents
  <1> HIDE DEF h
  <1>4. SourceSeq = seq_no /\ SourceSeq' = NextSeq(seq_no) /\ seq_no < SeqMod
    BY <1>0, <1>1, SeqModAssumption DEF SourceSeq, WireType
  <1>5. SizeTable[h][value[h]] = ValueSize(h)
    BY <1>0, <1>3, SourceSize
  <1>6. /\ SizeTable[h][value[h]] > Source!MaxDataSize
        /\ frag' = [seq |-> SourceSeq, no |-> 0, ch |-> h, rest |-> SizeTable[h][value[h]]]
        /\ SourceSeq' = Source!NextSeq(SourceSeq)
    BY <1>1, <1>4, <1>5, SourceConstants
  <1>7. Source!BeginFrag(h)
    BY <1>1, <1>2, <1>4, <1>6 DEF Source!BeginFrag, SourceSeq, SizeTable
  <1> QED BY <1>3, <1>7 DEF h

(* A fragment. *)
LEMMA SourceSendFragment ==
  ASSUME TypeInv, SendFragment
  PROVE  Source!EmitFrag
  <1>0. LoopInv /\ WireType
    BY DEF TypeInv, TypeOK
  <1>1. /\ pc = "fragging" /\ pc' \in {"fragging", "frag"}
        /\ UNCHANGED <<value, seq_no>> /\ Len(net) < NetCap
        /\ net' = Append(net, FragMsg(1, frag.seq, frag.no, frag.ch, value[frag.ch], FragSize))
    BY DEF SendFragment, Hand, chanVars
  <1>2. /\ frag # None
        /\ frag \in [seq : 0 .. SeqMod - 1, no : Nat, ch : Parents, rest : Nat]
    BY <1>0, <1>1 DEF LoopInv, WireType
  <1>3. Source!FragSize(frag.rest) = FragSize
    BY SourceConstants DEF Source!FragSize, FragSize
  <1>4. frag' = IF frag.rest = FragSize THEN None
                ELSE [frag EXCEPT !.no = @ + 1, !.rest = @ - FragSize]
    <2>1. frag.rest > FragSize <=> frag.rest # FragSize
      BY <1>2, Positive DEF FragSize
    <2> QED BY <2>1 DEF SendFragment
  <1>5. SourceSeq' = SourceSeq
    BY <1>1 DEF SourceSeq
  <1>6. Source!Hand(Source!FragMsg(1, frag.seq, frag.no, frag.ch, value[frag.ch], FragSize))
    BY <1>1, SourceConstants DEF Source!Hand
  <1> QED
    BY <1>1, <1>2, <1>3, <1>4, <1>5, <1>6 DEF Source!EmitFrag, SourceSeq

(* Every step of the sender is one of the abstract source, or none. *)
LEMMA SourceStep ==
  ASSUME TypeInv, MsgInv, [Next]_vars
  PROVE  Source!SrcStep \/ Source!NetTake \/ UNCHANGED Source!srcVars
  <1>0. LoopInv /\ WireType
    BY DEF TypeInv, TypeOK
  <1>1. ASSUME NEW c \in Chan, Callback(c)
        PROVE  Source!SrcStep \/ UNCHANGED Source!srcVars
    BY <1>1, SourceCallback DEF Source!SrcStep
  <1>2. CASE SendMsg
    BY <1>0, <1>2, SourceSendMsg DEF Source!SrcStep, WireType
  <1>3. CASE StartFrag
    BY <1>3, SourceStartFrag DEF Source!SrcStep
  <1>4. CASE SendFragment
    BY <1>4, SourceSendFragment DEF Source!SrcStep
  <1>5. CASE NetTake
    BY <1>5 DEF NetTake, Source!NetTake, loopVars, chanVars
  <1>6. UNCHANGED <<value, frag, net>> /\ SourceSeq' = SourceSeq => UNCHANGED Source!srcVars
    BY DEF Source!srcVars, SourceSeq
  <1>7. CASE StartMsg
    <2>1. msg'.seq = seq_no /\ pc = "send" /\ pc' = "build" /\ UNCHANGED <<value, frag, net>>
      BY <1>7 DEF StartMsg, chanVars
    <2> QED BY <1>6, <2>1 DEF SourceSeq
  <1>8. CASE AddGroup
    <2>1. msg'.seq = msg.seq /\ pc' = pc /\ UNCHANGED <<value, frag, net, seq_no>>
      BY <1>0, <1>8 DEF AddGroup, chanVars, loopVars, WireType
    <2> QED BY <1>6, <2>1 DEF SourceSeq
  <1>9. CASE EndPend \/ HbStep \/ SendDone \/ FragDone \/ UNCHANGED vars
    <2>1. /\ UNCHANGED <<value, frag, net, seq_no, msg>>
          /\ pc' = pc \/ (pc # "build" /\ pc' # "build")
      BY <1>9 DEF EndPend, HbStep, SendDone, FragDone, vars, chanVars, loopVars, wireVars
    <2> QED BY <1>6, <2>1 DEF SourceSeq
  <1> QED
    BY <1>1, <1>2, <1>3, <1>4, <1>5, <1>7, <1>8, <1>9 DEF Next, Step

(* The CA sender implements DatagramSource, for any number of channels, any *)
(* values and any size of message: every datagram it hands to the socket is *)
(* one CaLink's proofs and checks reckon with.  A data message holds        *)
(* current values that fit; a value that does not goes out as consecutive   *)
(* fragments of one number and does not change before the last.             *)
THEOREM SenderImplementsSource == Spec => ImplementsSource
  <1>1. Init => MsgInv /\ Source!SrcInit
    BY DEF Init, MsgInv, Source!SrcInit
  <1>2. TypeInv /\ MsgInv /\ [Next]_vars =>
          [Source!SrcStep \/ Source!NetTake]_(Source!srcVars)
    BY SourceStep
  <1> QED
    BY <1>1, <1>2, TypeInit, TypeStep, MsgStep, PTL
    DEF Spec, ImplementsSource, Source!SrcSpec
=============================================================================
