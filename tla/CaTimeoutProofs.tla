-------------------------- MODULE CaTimeoutProofs ---------------------------
(***************************************************************************)
(* Proofs about CaTimeout, for any channels, values and fragmented         *)
(* channels, any heartbeat period, socket timeout and size of batches.     *)
(***************************************************************************)
EXTENDS CaTimeout, TLAPS

(* Periods and bounds are numbers. *)
LEMMA BoundTypes ==
  /\ Hb \in Nat /\ Hb > 0 /\ RecvTimeout \in Nat /\ MaxPackets \in Nat /\ MaxPackets > 0
  /\ Stale \in Nat /\ Stale = 2 * Hb /\ MaxLag \in Nat
  /\ MaxSilence \in Nat /\ MaxSilence = 3 * Hb + MaxLag
  <1>1. MaxPackets * RecvTimeout \in Nat
    BY TimeAssumption, Z3
  <1> QED BY <1>1, TimeAssumption DEF Stale, MaxLag, MaxSilence

(* How much time the datagrams that a batch took so far may have waited. *)
Spent(q) == (MaxPackets - q) * RecvTimeout

(* Taking one more datagram makes room for one more wait. *)
LEMMA SpentStep ==
  ASSUME NEW q \in 1 .. MaxPackets
  PROVE  /\ Spent(q) \in Nat
         /\ Spent(q - 1) = Spent(q) + RecvTimeout
         /\ Spent(q - 1) <= MaxLag
  <1> DEFINE k == MaxPackets - q
  <1>1. k \in Nat /\ k + 1 \in Nat /\ k + 1 <= MaxPackets /\ MaxPackets - (q - 1) = k + 1
    BY BoundTypes
  <1> HIDE DEF k
  <1>2. k * RecvTimeout \in Nat
    BY <1>1, BoundTypes, Z3
  <1>3. (k + 1) * RecvTimeout = k * RecvTimeout + RecvTimeout
    BY <1>1, BoundTypes, Z3
  <1>4. (k + 1) * RecvTimeout <= MaxPackets * RecvTimeout
    BY <1>1, BoundTypes, Z3
  <1>5. Spent(q) = k * RecvTimeout /\ Spent(q - 1) = (k + 1) * RecvTimeout
    BY <1>1 DEF Spent, k
  <1> QED BY <1>2, <1>3, <1>4, <1>5, BoundTypes DEF MaxLag

(* The length of a batch is what its datagrams waited, and what the        *)
(* current one waits.                                                      *)
BatchInv ==
  /\ quota \in 0 .. MaxPackets
  /\ wait \in 0 .. RecvTimeout
  /\ lag \in Nat
  /\ IF quota = 0 THEN lag <= MaxLag ELSE lag <= Spent(quota) + wait

(* The last two readings of the clock. *)
AgeInv ==
  /\ hb_age \in 0 .. Hb - 1
  /\ age \in [Chan -> 0 .. Stale]

(* A batch is never longer than MaxLag. *)
LEMMA LagBound == ASSUME BatchInv PROVE lag <= MaxLag
  <1>1. CASE quota = 0
    BY <1>1 DEF BatchInv
  <1>2. CASE quota # 0
    <2>1. quota \in 1 .. MaxPackets
      BY <1>2, BoundTypes DEF BatchInv
    <2> QED BY <1>2, <2>1, SpentStep, BoundTypes DEF BatchInv
  <1> QED BY <1>1, <1>2

(* The three ways in which a step moves the clock. *)
LEMMA PacketBatch == ASSUME BatchInv, TakePacket PROVE BatchInv'
  <1>1. quota \in 1 .. MaxPackets /\ quota' = quota - 1 /\ wait' = 0 /\ lag' = lag
    BY BoundTypes DEF BatchInv, TakePacket, clockVars
  <1>2. /\ lag <= Spent(quota - 1) /\ Spent(quota - 1) <= MaxLag
        /\ Spent(quota - 1) \in Nat
    <2>1. lag <= Spent(quota) + wait /\ wait <= RecvTimeout /\ lag \in Nat /\ wait \in Nat
      BY <1>1, BoundTypes DEF BatchInv
    <2>2. /\ Spent(quota) \in Nat /\ Spent(quota - 1) = Spent(quota) + RecvTimeout
          /\ Spent(quota - 1) <= MaxLag
      BY <1>1, SpentStep
    <2> QED BY <2>1, <2>2, BoundTypes
  <1>3. Spent(quota)' = Spent(quota - 1)
    BY <1>1 DEF Spent
  <1>4. MaxLag' = MaxLag
    BY DEF MaxLag
  <1>5. quota' \in 0 .. MaxPackets /\ wait' \in 0 .. RecvTimeout /\ lag' \in Nat
    BY <1>1, BoundTypes DEF BatchInv
  <1> QED BY <1>1, <1>2, <1>3, <1>4, <1>5, BoundTypes DEF BatchInv

(* A tick is within the timeout of the recvfrom that waits. *)
LEMMA TickBatch == ASSUME BatchInv, Tick PROVE BatchInv'
  <1>1. /\ quota \in 1 .. MaxPackets /\ quota' = quota /\ lag' = lag + 1
        /\ wait' = wait + 1 /\ wait < RecvTimeout
    BY BoundTypes DEF BatchInv, Tick
  <1>2. Spent(quota)' = Spent(quota) /\ Spent(quota) \in Nat
    BY <1>1, SpentStep DEF Spent
  <1> QED BY <1>1, <1>2, BoundTypes DEF BatchInv

(* A new batch begins where the clock is read. *)
LEMMA EndBatchBatch == ASSUME BatchInv, EndBatch PROVE BatchInv'
  <1>1. quota' = MaxPackets /\ lag' = 0 /\ wait' = 0
    BY DEF EndBatch
  <1>2. Spent(MaxPackets) \in Nat
    BY SpentStep, BoundTypes
  <1>3. Spent(quota)' = Spent(MaxPackets)
    BY <1>1 DEF Spent
  <1> QED BY <1>1, <1>2, <1>3, BoundTypes DEF BatchInv

(* Every step takes a datagram, lets time pass or ends the batch. *)
LEMMA StepKinds ==
  ASSUME [Next]_vars
  PROVE  \/ TakePacket
         \/ Tick /\ Pass
         \/ EndBatch /\ Check
         \/ UNCHANGED vars
  BY DEF Next, vars, Pass, Check, ArriveData, ArriveFirst, ArriveLast, ArriveForeign,
         ReceiveForeign, ReceiveData, ReceiveFirstFragment, ReceiveNextFragment

(* So a batch keeps to its length. *)
LEMMA BatchStep == ASSUME BatchInv, [Next]_vars PROVE BatchInv'
  <1>1. CASE UNCHANGED vars
    BY <1>1 DEF BatchInv, vars, rcvVars, clockVars, Spent, MaxLag
  <1> QED BY <1>1, StepKinds, PacketBatch, TickBatch, EndBatchBatch

(* What the state is made of, besides the clock. *)
TypeInv ==
  /\ disconnected \in [Chan -> BOOLEAN]
  /\ DOMAIN shown = Chan
  /\ silent \in [Chan -> 0 .. MaxSilence]
  /\ early \in [Chan -> BOOLEAN]
  /\ started \in BOOLEAN

(* What a datagram may do to a channel's record: an update stamps it; a    *)
(* fragment only calls the callback.                                       *)
LEMMA FragmentChanges ==
  ASSUME NEW pkt, NEW b, NEW r, CopyFragment(pkt, b, r), DOMAIN shown = Chan
  PROVE  /\ UNCHANGED <<age, disconnected>>
         /\ DOMAIN shown' = Chan
         /\ \A c \in Chan : c # pkt.ch => shown'[c] = shown[c]
  BY DEF CopyFragment, ageVars

(* The last fragment calls the callback of its channel, or does nothing. *)
LEMMA ArriveLastChanges ==
  ASSUME NEW c, ArriveLast(c), DOMAIN shown = Chan
  PROVE  /\ UNCHANGED <<age, disconnected>>
         /\ DOMAIN shown' = Chan
         /\ \A d \in Chan : d # c => shown'[d] = shown[d]
  <1> DEFINE pkt == FragMsg(1, last_seq_no, 1, c, buffer[1].val, room)
  <1>1. ReceiveNextFragment(pkt)
    BY DEF ArriveLast
  <1>2. pkt.ch = c
    BY DEF FragMsg
  <1> HIDE DEF pkt
  <1>3. CASE CopyFragment(pkt, buffer, room)
    BY <1>2, <1>3, FragmentChanges
  <1>4. CASE UNCHANGED ageVars
    BY <1>4 DEF ageVars
  <1> QED BY <1>1, <1>3, <1>4 DEF ReceiveNextFragment

(* The first fragment of two does as little. *)
LEMMA ArriveFirstChanges ==
  ASSUME NEW c, ArriveFirst(c), DOMAIN shown = Chan
  PROVE  /\ UNCHANGED <<age, disconnected>>
         /\ DOMAIN shown' = Chan
         /\ \A d \in Chan : d # c => shown'[d] = shown[d]
  <1>1. PICK v : ReceiveFirstFragment(FragMsg(1, NextSeq(last_seq_no), 0, c, v, FragRoom))
    BY DEF ArriveFirst
  <1> DEFINE pkt == FragMsg(1, NextSeq(last_seq_no), 0, c, v, FragRoom)
  <1>2. pkt.ch = c
    BY DEF FragMsg
  <1> HIDE DEF pkt
  <1>3. CASE CopyFragment(pkt, << >>, Size[pkt.ch][pkt.val])
    BY <1>2, <1>3, FragmentChanges
  <1>4. CASE UNCHANGED ageVars
    BY <1>4 DEF ageVars
  <1>5. ReceiveFirstFragment(pkt)
    BY <1>1 DEF pkt
  <1> QED BY <1>3, <1>4, <1>5 DEF ReceiveFirstFragment

(* The sender's numbers follow each other: the next one is the one         *)
(* expected.                                                               *)
OrderInv ==
  /\ last_seq_no \in 0 .. SeqMod - 1
  /\ last_startup_time \in {0, 1}
  /\ last_startup_time = 0 => last_seq_no = NoSeq

(* The number that follows another differs from it by one, so that         *)
(* validate_order accepts it.                                              *)
LEMMA NextInOrder ==
  ASSUME NEW s \in 0 .. SeqMod - 1
  PROVE  /\ NextSeq(s) \in 0 .. SeqMod - 1
         /\ SeqDiff(NextSeq(s), s) < TolerableDiff
  <1>1. SeqMod \in Nat /\ SeqMod >= 5
    BY SeqModAssumption, WrapAssumption
  <1>2. (SeqMod - 1) \div 2 >= 2 /\ (SeqMod - 1) \div 2 \in Nat
    BY <1>1
  <1>3. CASE s + 1 < SeqMod
    <2>1. (s + 1) % SeqMod = s + 1
      BY <1>1, <1>3
    <2>2. ((s + 1) - s + SeqMod) % SeqMod = 1
      BY <1>1, <1>3
    <2> QED BY <1>1, <1>2, <1>3, <2>1, <2>2 DEF NextSeq, SeqDiff, TolerableDiff
  <1>4. CASE s + 1 = SeqMod
    <2>1. (s + 1) % SeqMod = 0
      BY <1>1, <1>4
    <2>2. (0 - s + SeqMod) % SeqMod = 1
      BY <1>1, <1>4
    <2> QED BY <1>1, <1>2, <1>4, <2>1, <2>2 DEF NextSeq, SeqDiff, TolerableDiff
  <1> QED BY <1>1, <1>3, <1>4

(* The number of the last datagram is kept, or that of the next one        *)
(* taken.                                                                  *)
LEMMA OrderStep == ASSUME OrderInv, [Next]_vars PROVE OrderInv'
  <1>1. NextSeq(last_seq_no) \in 0 .. SeqMod - 1 /\ NoSeq \in 0 .. SeqMod - 1
    BY NextInOrder, SeqModAssumption DEF OrderInv, NoSeq
  <1>2. CASE ArriveData
    BY <1>1, <1>2 DEF ArriveData, ReceiveData, validate_sender, DataMsg, OrderInv
  <1>3. ASSUME NEW c \in Fragmented, ArriveFirst(c) PROVE OrderInv'
    BY <1>1, <1>3 DEF ArriveFirst, ReceiveFirstFragment, validate_sender, FragMsg, OrderInv
  <1>4. ASSUME NEW c \in Fragmented, ArriveLast(c) PROVE OrderInv'
    BY <1>1, <1>4
    DEF ArriveLast, ReceiveNextFragment, validate_sender, BaseSeq, Newer, FragMsg, OrderInv
  <1>5. CASE UNCHANGED orderVars
    BY <1>5 DEF orderVars, OrderInv
  <1> QED
    BY <1>2, <1>3, <1>4, <1>5
    DEF Next, ArriveForeign, ReceiveForeign, Pass, Tick, Check, EndBatch, vars, rcvVars

(* Every data message is therefore applied: its channels are stamped.      *)
LEMMA ArriveDataChanges ==
  ASSUME OrderInv, ArriveData
  PROVE  \E S \in SUBSET (Chan \ Fragmented), v \in Value :
            ApplyUpdates([c \in S |-> v]) /\ Heard(S)
  <1>1. PICK S \in SUBSET (Chan \ Fragmented), v \in Value :
          /\ ReceiveData(DataMsg(1, NextSeq(last_seq_no), [c \in S |-> v]))
          /\ Heard(S)
    BY DEF ArriveData
  <1> DEFINE pkt == DataMsg(1, NextSeq(last_seq_no), [c \in S |-> v])
  <1>2. pkt.seq = NextSeq(last_seq_no) /\ pkt.upd = [c \in S |-> v] /\ pkt.startup = 1
    BY DEF DataMsg
  <1>3. BaseSeq(pkt) = last_seq_no
    BY <1>2 DEF BaseSeq, Newer, OrderInv
  <1>4. InOrder(pkt)
    BY <1>2, <1>3, NextInOrder DEF InOrder, OrderInv
  <1> HIDE DEF pkt
  <1>5. ReceiveData(pkt)
    BY <1>1 DEF pkt
  <1>6. ApplyUpdates([c \in S |-> v])
    BY <1>2, <1>4, <1>5 DEF ReceiveData
  <1> QED BY <1>1, <1>6

(* The same, channel by channel. *)
LEMMA DataChanges ==
  ASSUME OrderInv, ArriveData, AgeInv, TypeInv
  PROVE  /\ DOMAIN shown' = Chan
         /\ age' \in [Chan -> 0 .. Stale]
         /\ disconnected' \in [Chan -> BOOLEAN]
         /\ \A c \in Chan :
              \/ /\ age'[c] = StampAge /\ silent'[c] = 0 /\ early'[c] = ~started
                 /\ shown'[c] \in Value /\ disconnected'[c] = (shown'[c] \in Disc)
              \/ /\ age'[c] = age[c] /\ disconnected'[c] = disconnected[c]
                 /\ silent'[c] = silent[c] /\ early'[c] = early[c]
                 /\ shown'[c] = shown[c]
         /\ \A c \in Chan \cap Fragmented : shown'[c] = shown[c]
         /\ TypeInv'
  <1>1. PICK S \in SUBSET (Chan \ Fragmented), v \in Value :
          ApplyUpdates([c \in S |-> v]) /\ Heard(S)
    BY ArriveDataChanges
  <1>2. StampAge \in 0 .. Stale
    BY BoundTypes DEF StampAge
  <1>3. Chan \cap DOMAIN [c \in S |-> v] = S /\ \A c \in S : [d \in S |-> v][c] = v
    OBVIOUS
  <1>4. /\ disconnected' = [c \in Chan |-> IF c \in S THEN v \in Disc ELSE disconnected[c]]
        /\ age' = [c \in Chan |-> IF c \in S THEN StampAge ELSE age[c]]
        /\ shown' = [c \in Chan |-> IF c \in S THEN v ELSE shown[c]]
    BY <1>1, <1>3 DEF ApplyUpdates
  <1>5. /\ silent' = [c \in Chan |-> IF c \in S THEN 0 ELSE silent[c]]
        /\ early' = [c \in Chan |-> IF c \in S THEN ~started ELSE early[c]]
    BY <1>1 DEF Heard
  <1>6. started' = started
    BY DEF ArriveData, ReceiveData, TakePacket, clockVars
  <1>7. age' \in [Chan -> 0 .. Stale] /\ disconnected' \in [Chan -> BOOLEAN]
    <2>1. age \in [Chan -> 0 .. Stale] /\ disconnected \in [Chan -> BOOLEAN]
      BY DEF AgeInv, TypeInv
    <2>2. \A c \in Chan : (IF c \in S THEN StampAge ELSE age[c]) \in 0 .. Stale
      BY <1>2, <2>1
    <2>3. disconnected' \in [Chan -> BOOLEAN]
      <3>1. (v \in Disc) \in BOOLEAN
        OBVIOUS
      <3>2. ASSUME NEW c \in Chan
            PROVE  (IF c \in S THEN v \in Disc ELSE disconnected[c]) \in BOOLEAN
        <4>1. CASE c \in S
          BY <3>1, <4>1, Zenon
        <4>2. CASE c \notin S
          BY <2>1, <4>2, Zenon
        <4> QED BY <4>1, <4>2
      <3> QED BY <1>4, <3>2, Zenon
    <2> QED BY <1>4, <2>2, <2>3
  <1>8. silent' \in [Chan -> 0 .. MaxSilence] /\ early' \in [Chan -> BOOLEAN]
    <2>1. /\ silent \in [Chan -> 0 .. MaxSilence] /\ early \in [Chan -> BOOLEAN]
          /\ (~started) \in BOOLEAN
      BY DEF TypeInv
    <2>2. \A c \in Chan : (IF c \in S THEN 0 ELSE silent[c]) \in 0 .. MaxSilence
      BY <2>1, BoundTypes
    <2>3. early' \in [Chan -> BOOLEAN]
      <3>1. ASSUME NEW c \in Chan
            PROVE  (IF c \in S THEN ~started ELSE early[c]) \in BOOLEAN
        <4>1. CASE c \in S
          BY <2>1, <4>1, Zenon
        <4>2. CASE c \notin S
          BY <2>1, <4>2, Zenon
        <4> QED BY <4>1, <4>2
      <3> QED BY <1>5, <3>1, Zenon
    <2> QED BY <1>5, <2>2, <2>3
  <1>9. MaxSilence' = MaxSilence
    BY DEF MaxSilence, MaxLag
  <1> QED BY <1>4, <1>5, <1>6, <1>7, <1>8, <1>9 DEF TypeInv

(* A fragmented update calls the callback and stamps nothing. *)
LEMMA FragChanges ==
  ASSUME TypeInv, NEW f \in Fragmented, ArriveFirst(f) \/ ArriveLast(f)
  PROVE  /\ UNCHANGED <<age, disconnected, started>>
         /\ DOMAIN shown' = Chan
         /\ \A c \in Chan \ Fragmented :
              shown'[c] = shown[c] /\ silent'[c] = silent[c] /\ early'[c] = early[c]
         /\ \A c \in Chan : silent'[c] \in {0, silent[c]}
         /\ TypeInv'
  <1>1. PICK S \in {{}, {f}} : Heard(S)
    BY DEF ArriveFirst, ArriveLast
  <1>2. /\ silent' = [c \in Chan |-> IF c \in S THEN 0 ELSE silent[c]]
        /\ early' = [c \in Chan |-> IF c \in S THEN ~started ELSE early[c]]
    BY <1>1 DEF Heard
  <1>3. /\ UNCHANGED <<age, disconnected>> /\ DOMAIN shown' = Chan
        /\ \A d \in Chan : d # f => shown'[d] = shown[d]
    BY ArriveFirstChanges, ArriveLastChanges DEF TypeInv
  <1>4. started' = started
    BY DEF ArriveFirst, ArriveLast, ReceiveFirstFragment, ReceiveNextFragment,
           TakePacket, clockVars
  <1>5. silent' \in [Chan -> 0 .. MaxSilence]
    BY <1>2, BoundTypes DEF TypeInv
  <1>6. early' \in [Chan -> BOOLEAN]
    <2>1. early \in [Chan -> BOOLEAN] /\ (~started) \in BOOLEAN
      BY DEF TypeInv
    <2>2. ASSUME NEW c \in Chan
          PROVE  (IF c \in S THEN ~started ELSE early[c]) \in BOOLEAN
      <3>1. CASE c \in S
        BY <2>1, <3>1, Zenon
      <3>2. CASE c \notin S
        BY <2>1, <3>2, Zenon
      <3> QED BY <3>1, <3>2
    <2> QED BY <1>2, <2>2, Zenon
  <1>7. MaxSilence' = MaxSilence
    BY DEF MaxSilence, MaxLag
  <1>8. TypeInv'
    BY <1>3, <1>4, <1>5, <1>6, <1>7 DEF TypeInv
  <1>9. \A c \in Chan \ Fragmented : c \notin S /\ c # f
    BY <1>1
  <1> QED BY <1>2, <1>3, <1>4, <1>8, <1>9

(* Time passing changes silence only. *)
LEMMA PassChanges ==
  ASSUME TypeInv, Pass
  PROVE  /\ UNCHANGED <<age, disconnected, shown, hb_age, started, early>>
         /\ lag' = lag + 1
         /\ \A c \in Chan : silent'[c] = IF silent[c] < MaxSilence THEN silent[c] + 1
                                         ELSE silent[c]
         /\ TypeInv'
  <1>1. /\ UNCHANGED <<age, disconnected, shown, hb_age, started, early>>
        /\ lag' = lag + 1
    BY DEF Pass, Tick, ageVars
  <1>2. silent' = [c \in Chan |-> IF silent[c] < MaxSilence THEN silent[c] + 1 ELSE silent[c]]
    BY DEF Pass
  <1>3. silent' \in [Chan -> 0 .. MaxSilence]
    BY <1>2, BoundTypes DEF TypeInv
  <1>4. MaxSilence' = MaxSilence
    BY DEF MaxSilence, MaxLag
  <1> QED BY <1>1, <1>2, <1>3, <1>4 DEF TypeInv

(* The end of a batch: a look at the clock, and once per period at the     *)
(* channels.                                                               *)
Checks == hb_age + lag >= Hb
Expired(c) == Checks /\ ~disconnected[c] /\ age[c] + lag >= Stale

(* Only channels that expire are reported, and every age grows by the      *)
(* batch.                                                                  *)
LEMMA CheckChanges ==
  ASSUME TypeInv, BatchInv, AgeInv, Check
  PROVE  /\ UNCHANGED <<silent, early>>
         /\ lag' = 0 /\ hb_age' = (IF Checks THEN 0 ELSE hb_age + lag)
         /\ \A c \in Chan : /\ age'[c] = Capped(age[c] + lag)
                            /\ disconnected'[c] = (disconnected[c] \/ Expired(c))
                            /\ shown'[c] = IF Expired(c) THEN None ELSE shown[c]
         /\ AgeInv' /\ TypeInv'
  <1>1. /\ UNCHANGED <<silent, early>> /\ started' = TRUE
        /\ lag' = 0 /\ hb_age' = (IF Checks THEN 0 ELSE hb_age + lag)
        /\ age' = [c \in Chan |-> Capped(age[c] + lag)]
        /\ disconnected' = [c \in Chan |-> disconnected[c] \/ Expired(c)]
        /\ shown' = [c \in Chan |-> IF Expired(c) THEN None ELSE shown[c]]
    BY DEF Check, EndBatch, Checks, Expired
  <1>2. hb_age' \in 0 .. Hb - 1
    BY <1>1, BoundTypes DEF Checks, AgeInv, BatchInv
  <1>3. age' \in [Chan -> 0 .. Stale]
    <2>1. \A c \in Chan : Capped(age[c] + lag) \in 0 .. Stale
      BY BoundTypes DEF Capped, AgeInv, BatchInv
    <2> QED BY <1>1, <2>1
  <1>4. disconnected' \in [Chan -> BOOLEAN]
    <2>1. \A c \in Chan : (disconnected[c] \/ Expired(c)) \in BOOLEAN
      BY Zenon
    <2> QED BY <1>1, <2>1, Zenon
  <1>5. MaxSilence' = MaxSilence /\ Stale' = Stale
    BY DEF MaxSilence, MaxLag, Stale
  <1>6. AgeInv'
    BY <1>2, <1>3, <1>5 DEF AgeInv
  <1>7. TypeInv'
    BY <1>1, <1>4, <1>5 DEF TypeInv
  <1> QED BY <1>1, <1>6, <1>7, Zenon

(* A channel that is not reported yet was heard within the time its stamp  *)
(* tells; one whose stamp is stale was heard since the last look at the    *)
(* channels, or would have been reported then.                             *)
QuietInv ==
  \A c \in Chan : ~disconnected[c] =>
    IF age[c] < Stale THEN silent[c] <= age[c] + lag
    ELSE silent[c] <= Stale - 1 + hb_age + lag

(* The stamp of a channel is at most the length of a batch too old.        *)
SoundInv ==
  \A c \in Chan \ Fragmented : (~early[c] /\ shown[c] # None) =>
    silent[c] = MaxSilence \/ age[c] + lag <= silent[c] + MaxLag

(* What the client was last told of a channel that disconnected is just    *)
(* that: only fragments change what it is told without clearing the flag.  *)
ToldInv == \A c \in Chan \ Fragmented : disconnected[c] => ToldGone(c)

ClockInv ==
  /\ BatchInv /\ AgeInv /\ OrderInv /\ TypeInv
  /\ QuietInv /\ SoundInv /\ ToldInv

(* Nothing has been heard of, and no time has passed. *)
LEMMA ClockInit == Init => ClockInv
  <1> SUFFICES ASSUME Init PROVE ClockInv
    OBVIOUS
  <1>1. BatchInv
    <2>1. Spent(MaxPackets) \in Nat
      BY SpentStep, BoundTypes
    <2> QED BY <2>1, BoundTypes DEF Init, RcvInit, BatchInv
  <1>2. AgeInv
    BY BoundTypes DEF Init, RcvInit, AgeInv
  <1>3. OrderInv
    BY SeqModAssumption DEF Init, RcvInit, OrderInv, NoSeq
  <1>4. TypeInv
    <2>1. /\ disconnected = [c \in Chan |-> FALSE] /\ early = [c \in Chan |-> FALSE]
          /\ silent = [c \in Chan |-> 0] /\ DOMAIN shown = Chan /\ started = FALSE
      BY DEF Init, RcvInit
    <2>2. silent \in [Chan -> 0 .. MaxSilence]
      BY <2>1, BoundTypes
    <2> QED BY <2>1, <2>2, Zenon DEF TypeInv
  <1>5. QuietInv
    BY BoundTypes DEF Init, RcvInit, QuietInv
  <1>6. SoundInv
    BY DEF Init, RcvInit, SoundInv
  <1>7. ToldInv
    BY DEF Init, RcvInit, ToldInv, ToldGone
  <1> QED BY <1>1, <1>2, <1>3, <1>4, <1>5, <1>6, <1>7 DEF ClockInv

(* A foreign datagram is no news. *)
LEMMA ForeignChanges ==
  ASSUME TypeInv, ArriveForeign
  PROVE  UNCHANGED <<ageVars, clockVars, early, silent>>
  <1>1. /\ UNCHANGED <<ageVars, clockVars>>
        /\ silent' = [c \in Chan |-> IF c \in {} THEN 0 ELSE silent[c]]
        /\ early' = [c \in Chan |-> IF c \in {} THEN ~started ELSE early[c]]
    BY DEF ArriveForeign, Heard, ReceiveForeign, TakePacket
  <1>2. early' = early
    BY <1>1, Zenon DEF TypeInv
  <1>3. silent' = silent
    BY <1>1 DEF TypeInv
  <1> QED BY <1>1, <1>2, <1>3

(* The clock's readings and the types are kept by every step. *)
LEMMA AgeTypeStep == ASSUME ClockInv, [Next]_vars PROVE AgeInv' /\ TypeInv'
  <1>1. CASE ArriveData
    <2>1. hb_age' = hb_age
      BY <1>1 DEF ArriveData, ReceiveData, TakePacket, clockVars
    <2>2. age' \in [Chan -> 0 .. Stale] /\ TypeInv'
      BY <1>1, DataChanges DEF ClockInv
    <2> QED BY <2>1, <2>2 DEF ClockInv, AgeInv, Stale
  <1>2. ASSUME NEW c \in Fragmented, ArriveFirst(c) \/ ArriveLast(c)
        PROVE  AgeInv' /\ TypeInv'
    <2>1. hb_age' = hb_age
      BY <1>2 DEF ArriveFirst, ArriveLast, ReceiveFirstFragment, ReceiveNextFragment,
                  TakePacket, clockVars
    <2>2. age' = age /\ TypeInv'
      BY <1>2, FragChanges DEF ClockInv
    <2> QED BY <2>1, <2>2 DEF ClockInv, AgeInv, Stale
  <1>3. CASE ArriveForeign
    BY <1>3, ForeignChanges
    DEF ClockInv, AgeInv, TypeInv, ageVars, clockVars, Stale, MaxSilence, MaxLag
  <1>4. CASE Pass
    <2>1. hb_age' = hb_age /\ age' = age /\ TypeInv'
      BY <1>4, PassChanges DEF ClockInv
    <2> QED BY <2>1 DEF ClockInv, AgeInv, Stale
  <1>5. CASE Check
    BY <1>5, CheckChanges DEF ClockInv
  <1>6. CASE UNCHANGED vars
    BY <1>6 DEF ClockInv, AgeInv, TypeInv, vars, rcvVars, ageVars, clockVars, Stale,
                MaxSilence, MaxLag
  <1> QED BY <1>1, <1>2, <1>3, <1>4, <1>5, <1>6 DEF Next

(* A channel that stays unreported was heard recently enough. *)
LEMMA QuietStep == ASSUME ClockInv, [Next]_vars PROVE QuietInv'
  <1> USE DEF ClockInv
  <1>0. /\ \A c \in Chan : age[c] \in 0 .. Stale /\ silent[c] \in 0 .. MaxSilence
        /\ Stale \in Nat /\ Stale > 0 /\ Stale' = Stale /\ MaxSilence \in Nat
        /\ lag \in Nat /\ hb_age \in Nat
    BY BoundTypes DEF AgeInv, TypeInv, BatchInv, Stale
  <1>1. CASE ArriveData
    <2>1. hb_age' = hb_age /\ lag' = lag
      BY <1>1 DEF ArriveData, ReceiveData, TakePacket, clockVars
    <2>2. StampAge \in 0 .. Stale
      BY <1>0 DEF StampAge
    <2> QED BY <1>0, <1>1, <2>1, <2>2, DataChanges DEF QuietInv
  <1>2. ASSUME NEW f \in Fragmented, ArriveFirst(f) \/ ArriveLast(f)
        PROVE  QuietInv'
    <2>1. hb_age' = hb_age /\ lag' = lag
      BY <1>2 DEF ArriveFirst, ArriveLast, ReceiveFirstFragment, ReceiveNextFragment,
                  TakePacket, clockVars
    <2>2. /\ age' = age /\ disconnected' = disconnected
          /\ \A c \in Chan : silent'[c] \in {0, silent[c]}
      BY <1>2, FragChanges
    <2> QED BY <1>0, <2>1, <2>2 DEF QuietInv
  <1>3. CASE ArriveForeign
    BY <1>0, <1>3, ForeignChanges DEF QuietInv, ageVars, clockVars
  <1>4. CASE Pass
    BY <1>0, <1>4, PassChanges DEF QuietInv
  <1>5. CASE Check
    <2>1. ASSUME NEW c \in Chan, ~disconnected'[c]
          PROVE  IF age'[c] < Stale THEN silent'[c] <= age'[c] + lag'
                 ELSE silent'[c] <= Stale - 1 + hb_age' + lag'
      <3>1. /\ silent' = silent /\ lag' = 0
            /\ hb_age' = (IF Checks THEN 0 ELSE hb_age + lag)
            /\ age'[c] = Capped(age[c] + lag)
            /\ ~disconnected[c] /\ ~Expired(c)
        BY <1>5, <2>1, CheckChanges
      <3>2. IF age[c] < Stale THEN silent[c] <= age[c] + lag
            ELSE silent[c] <= Stale - 1 + hb_age + lag
        BY <3>1 DEF QuietInv
      <3>3. CASE Checks
        BY <1>0, <3>1, <3>2, <3>3 DEF Expired, Capped
      <3>4. CASE ~Checks
        BY <1>0, <3>1, <3>2, <3>4 DEF Capped
      <3> QED BY <3>3, <3>4
    <2> QED BY <1>0, <2>1 DEF QuietInv
  <1>6. CASE UNCHANGED vars
    BY <1>0, <1>6 DEF QuietInv, vars, rcvVars, ageVars, clockVars
  <1> QED BY <1>1, <1>2, <1>3, <1>4, <1>5, <1>6 DEF Next

(* A stamp is never older than the update by more than a batch. *)
LEMMA SoundStep == ASSUME ClockInv, [Next]_vars PROVE SoundInv'
  <1> USE DEF ClockInv
  <1>0. /\ \A c \in Chan : age[c] \in 0 .. Stale /\ silent[c] \in 0 .. MaxSilence
        /\ Stale \in Nat /\ MaxLag \in Nat /\ MaxLag' = MaxLag
        /\ MaxSilence \in Nat /\ MaxSilence' = MaxSilence
        /\ lag \in Nat /\ lag <= MaxLag
    BY BoundTypes, LagBound DEF AgeInv, TypeInv, BatchInv, MaxLag, MaxSilence
  <1>1. CASE ArriveData
    <2>1. lag' = lag
      BY <1>1 DEF ArriveData, ReceiveData, TakePacket, clockVars
    <2>2. started => StampAge = 0
      BY DEF StampAge
    <2>3. ASSUME NEW c \in Chan \ Fragmented, ~early'[c], shown'[c] # None
          PROVE  silent'[c] = MaxSilence \/ age'[c] + lag' <= silent'[c] + MaxLag
      <3>1. CASE age'[c] = StampAge /\ silent'[c] = 0 /\ early'[c] = ~started
        <4>1. started
          BY <2>3, <3>1, Zenon
        <4> QED BY <1>0, <2>1, <2>2, <3>1, <4>1
      <3>2. CASE age'[c] = age[c] /\ silent'[c] = silent[c] /\ early'[c] = early[c]
                 /\ shown'[c] = shown[c]
        BY <2>1, <2>3, <3>2 DEF SoundInv
      <3> QED BY <1>1, <3>1, <3>2, DataChanges
    <2> QED BY <1>0, <2>3 DEF SoundInv
  <1>2. ASSUME NEW f \in Fragmented, ArriveFirst(f) \/ ArriveLast(f)
        PROVE  SoundInv'
    <2>1. lag' = lag
      BY <1>2 DEF ArriveFirst, ArriveLast, ReceiveFirstFragment, ReceiveNextFragment,
                  TakePacket, clockVars
    <2>2. /\ age' = age
          /\ \A c \in Chan \ Fragmented :
               shown'[c] = shown[c] /\ silent'[c] = silent[c] /\ early'[c] = early[c]
      BY <1>2, FragChanges
    <2> QED BY <1>0, <2>1, <2>2 DEF SoundInv
  <1>3. CASE ArriveForeign
    BY <1>0, <1>3, ForeignChanges DEF SoundInv, ageVars, clockVars
  <1>4. CASE Pass
    BY <1>0, <1>4, PassChanges DEF SoundInv
  <1>5. CASE Check
    <2>1. ASSUME NEW c \in Chan \ Fragmented, ~early'[c], shown'[c] # None
          PROVE  silent'[c] = MaxSilence \/ age'[c] + lag' <= silent'[c] + MaxLag
      <3>1. /\ silent' = silent /\ early' = early /\ lag' = 0
            /\ age'[c] = Capped(age[c] + lag) /\ shown[c] # None
        BY <1>5, <2>1, CheckChanges
      <3>2. silent[c] = MaxSilence \/ age[c] + lag <= silent[c] + MaxLag
        BY <2>1, <3>1 DEF SoundInv
      <3> QED BY <1>0, <3>1, <3>2 DEF Capped
    <2> QED BY <1>0, <2>1 DEF SoundInv
  <1>6. CASE UNCHANGED vars
    BY <1>0, <1>6 DEF SoundInv, vars, rcvVars, ageVars, clockVars
  <1> QED BY <1>1, <1>2, <1>3, <1>4, <1>5, <1>6 DEF Next

(* The flag of a channel goes with what its client was told. *)
LEMMA ToldStep == ASSUME ClockInv, [Next]_vars PROVE ToldInv'
  <1> USE DEF ClockInv, ToldGone
  <1>1. CASE ArriveData
    BY <1>1, DataChanges DEF ToldInv
  <1>2. ASSUME NEW f \in Fragmented, ArriveFirst(f) \/ ArriveLast(f) PROVE ToldInv'
    BY <1>2, FragChanges DEF ToldInv
  <1>3. CASE ArriveForeign
    BY <1>3, ForeignChanges DEF ToldInv, ageVars
  <1>4. CASE Pass
    BY <1>4, PassChanges DEF ToldInv
  <1>5. CASE Check
    BY <1>5, CheckChanges DEF ToldInv
  <1>6. CASE UNCHANGED vars
    BY <1>6 DEF ToldInv, vars, rcvVars, ageVars
  <1> QED BY <1>1, <1>2, <1>3, <1>4, <1>5, <1>6 DEF Next

(* The invariant is inductive. *)
LEMMA ClockStep == ClockInv /\ [Next]_vars => ClockInv'
  BY BatchStep, OrderStep, AgeTypeStep, QuietStep, SoundStep, ToldStep DEF ClockInv

(* The step that tells the client of a disconnection is check_no_updates,  *)
(* and the channel's stamp is stale.                                       *)
LEMMA ToldByCheck ==
  ASSUME ClockInv, [Next]_vars, NEW c \in Chan \ Fragmented,
         shown[c] # None, shown'[c] = None, ~early[c]
  PROVE  silent[c] >= 2 * Hb - MaxLag
  <1> USE DEF ClockInv
  <1>1. CASE ArriveData
    BY <1>1, DataChanges, NoneAssumption
  <1>2. ASSUME NEW f \in Fragmented, ArriveFirst(f) \/ ArriveLast(f) PROVE FALSE
    BY <1>2, FragChanges
  <1>3. CASE ArriveForeign
    BY <1>3, ForeignChanges DEF ageVars
  <1>4. CASE Pass
    BY <1>4, PassChanges
  <1>5. CASE Check
    <2>1. age[c] + lag >= Stale
      BY <1>5, CheckChanges DEF Expired
    <2>2. silent[c] = MaxSilence \/ age[c] + lag <= silent[c] + MaxLag
      BY DEF SoundInv
    <2>3. age[c] \in Nat /\ lag \in Nat /\ silent[c] \in Nat
      BY BoundTypes DEF AgeInv, BatchInv, TypeInv
    <2> QED BY <2>1, <2>2, <2>3, BoundTypes
  <1>6. CASE UNCHANGED vars
    BY <1>6 DEF vars, rcvVars, ageVars
  <1> QED BY <1>1, <1>2, <1>3, <1>4, <1>5, <1>6 DEF Next

(* The readings of the clock stay within the bounds the loop of run gives  *)
(* them, however long heartbeat_period, the timeout and the batch.         *)
THEOREM TimeoutClockTypeOK == Spec => []ClockTypeOK
  <1>1. ClockInv => ClockTypeOK
    BY LagBound, BoundTypes DEF ClockInv, ClockTypeOK, BatchInv, AgeInv
  <1> QED BY <1>1, ClockInit, ClockStep, PTL DEF Spec

(* check_no_updates is never starved: when a channel whose updates fit a   *)
(* message has been silent for three heartbeat periods and a batch, the    *)
(* last callback told the client that it is disconnected.                  *)
THEOREM SilenceReported == Spec => []TimeoutComplete
  <1>1. ASSUME ClockInv, NEW c \in Chan \ Fragmented, silent[c] >= 3 * Hb + MaxLag - 1
        PROVE  ToldGone(c)
    <2>1. ~disconnected[c] => IF age[c] < Stale THEN silent[c] <= age[c] + lag
                              ELSE silent[c] <= Stale - 1 + hb_age + lag
      BY <1>1 DEF ClockInv, QuietInv
    <2>2. age[c] \in Nat /\ lag \in Nat /\ lag <= MaxLag /\ silent[c] \in Nat
          /\ hb_age \in 0 .. Hb - 1
      BY <1>1, BoundTypes, LagBound DEF ClockInv, AgeInv, BatchInv, TypeInv
    <2>3. disconnected[c]
      BY <1>1, <2>1, <2>2, BoundTypes
    <2> QED BY <1>1, <2>3 DEF ClockInv, ToldInv
  <1>2. ClockInv => TimeoutComplete
    BY <1>1 DEF TimeoutComplete
  <1> QED BY <1>2, ClockInit, ClockStep, PTL DEF Spec

(* No channel that is heard of is reported: the receiver tells the client  *)
(* that it is gone only after two heartbeat periods, less one batch.       *)
THEOREM ReportedSilent == Spec => TimeoutSound
  <1>1. ClockInv /\ [Next]_vars =>
          [\A c \in Chan \ Fragmented :
             (shown[c] # None /\ shown'[c] = None /\ ~early[c])
               => silent[c] >= 2 * Hb - MaxLag]_vars
    BY ToldByCheck
  <1> QED BY <1>1, ClockInit, ClockStep, PTL DEF Spec, TimeoutSound
=============================================================================
