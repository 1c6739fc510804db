----------------------------- MODULE CaTimeout ------------------------------
(***************************************************************************)
(* The receiver against the clock: CaReceiver fed with the in-order        *)
(* datagrams of one sender, at any times, to ask when check_no_updates     *)
(* tells the client that a channel is gone.                                *)
(***************************************************************************)
EXTENDS CaReceiver

CONSTANTS Fragmented   \* channels whose updates come in two fragments

ASSUME TimeAssumption ==
  Hb \in Nat \ {0} /\ RecvTimeout \in Nat /\ MaxPackets \in Nat \ {0}
ASSUME WrapAssumption == SeqMod >= 5   \* the next number is a tolerable one
ASSUME NoneAssumption == None \notin Value

VARIABLES silent,  \* history: silent[c], ticks since the last update of c
          early    \* history: early[c], that update was in the first batch

vars == <<rcvVars, silent, early>>

(* The longest batch: every datagram arrives just before the timeout. *)
MaxLag == MaxPackets * RecvTimeout

MaxSilence == 3 * Hb + MaxLag   \* bound: longer silences are not told apart

Init ==
  /\ RcvInit
  /\ silent = [c \in Chan |-> 0]
  /\ early = [c \in Chan |-> FALSE]

(* The callback is called with an update for the channels in S. *)
Heard(S) ==
  /\ silent' = [c \in Chan |-> IF c \in S THEN 0 ELSE silent[c]]
  /\ early' = [c \in Chan |-> IF c \in S THEN ~started ELSE early[c]]

ArriveData ==
  \E S \in SUBSET (Chan \ Fragmented), v \in Value :
    /\ ReceiveData(DataMsg(1, NextSeq(last_seq_no), [c \in S |-> v]))
    /\ Heard(S)

ArriveFirst(c) ==
  \E v \in Value \ Disc :
    /\ ReceiveFirstFragment(FragMsg(1, NextSeq(last_seq_no), 0, c, v, FragRoom))
    /\ Heard({})

ArriveLast(c) ==
  /\ room > 0 /\ buffer[1].ch = c
  /\ ReceiveNextFragment(FragMsg(1, last_seq_no, 1, c, buffer[1].val, room))
  /\ Heard({c})

ArriveForeign == ReceiveForeign /\ Heard({})

Pass ==
  /\ Tick
  /\ silent' = [c \in Chan |-> IF silent[c] < MaxSilence THEN silent[c] + 1
                               ELSE silent[c]]
  /\ UNCHANGED early

Check == EndBatch /\ UNCHANGED <<silent, early>>

Next ==
  \/ ArriveData
  \/ \E c \in Fragmented : ArriveFirst(c) \/ ArriveLast(c)
  \/ ArriveForeign
  \/ Pass
  \/ Check

Spec == Init /\ [][Next]_vars

-----------------------------------------------------------------------------
(* The clock readings stay within the bounds the loop of run gives them:   *)
(* no batch is longer than max_packets_at_once allows, and no check is     *)
(* further back than a heartbeat period.                                   *)
ClockTypeOK ==
  /\ age \in [Chan -> 0 .. Stale]
  /\ lag \in 0 .. MaxLag
  /\ hb_age \in 0 .. Hb - 1
  /\ wait \in 0 .. RecvTimeout
  /\ quota \in 0 .. MaxPackets

(* The client is told that a channel is gone, though updates used to come, *)
(* only after a silence of two heartbeat periods, give or take the length  *)
(* of one batch: an update is stamped with the time its batch began (run,  *)
(* receive_updates, check_no_updates).  Updates of the first batch, which  *)
(* are stamped with the clock's epoch, are left out (FirstBatchKept), and  *)
(* so are fragmented channels, never stamped at all (FragmentedKept).      *)
TimeoutSound ==
  [][\A c \in Chan \ Fragmented :
       (shown[c] # None /\ shown'[c] = None /\ ~early[c])
         => silent[c] >= 2 * Hb - MaxLag]_vars

(* The client was last told that a channel is disconnected, by the sender  *)
(* or by the receiver.                                                     *)
ToldGone(c) == shown[c] \in {None} \cup Disc

(* When a channel has been silent for three heartbeat periods and a batch, *)
(* the client has been told, however busy the others keep the receiver:    *)
(* the batch is bounded, so check_no_updates is never starved, it looks    *)
(* every heartbeat period, and each update makes it look at the channel    *)
(* again (run, receive_updates, check_no_updates).  That holds of channels *)
(* whose updates fit a message.                                            *)
TimeoutComplete ==
  \A c \in Chan \ Fragmented : silent[c] >= 3 * Hb + MaxLag - 1 => ToldGone(c)

(* design.rst: "not having received any update from one channel in 2x      *)
(* heartbeat period turns the channel value invalid": the same of channels *)
(* whose updates come in fragments.                                        *)
FragmentedReported ==
  \A c \in Fragmented : silent[c] >= 3 * Hb + MaxLag - 1 => ToldGone(c)

(* design.rst: "not having received any update from one channel in 2x      *)
(* heartbeat period turns the channel value invalid": less silence does    *)
(* not.                                                                    *)
TwoPeriodsOfSilence ==
  [][\A c \in Chan \ Fragmented :
       (shown[c] # None /\ shown'[c] = None /\ ~early[c])
         => silent[c] >= 2 * Hb]_vars

(* receiver.cpp, of the initial value of disconnected: "we want            *)
(* disconnected event to be sent after start (if no updated within         *)
(* heartbeat period)": a channel updated since then is not reported.       *)
FirstBatchKept ==
  [][\A c \in Chan \ Fragmented :
       (shown[c] # None /\ shown'[c] = None) => silent[c] >= Hb]_vars

(* design.rst: "all the record channels are checked whether they received  *)
(* an update within the last 2 * heartbeat_period": an update that came in *)
(* fragments counts as one.                                                *)
FragmentedKept ==
  [][\A c \in Fragmented :
       (shown[c] # None /\ shown'[c] = None /\ ~early[c])
         => silent[c] >= 2 * Hb - MaxLag]_vars
=============================================================================
