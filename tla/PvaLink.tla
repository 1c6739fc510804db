------------------------------- MODULE PvaLink ------------------------------
(***************************************************************************)
(* The pvAccess diode: sources, sender, a UDP network that may lose,       *)
(* repeat and reorder datagrams, receiver and the server's clients.  The   *)
(* receiver rebuilds a structure from full updates and the changes sent    *)
(* between them.                                                           *)
(***************************************************************************)
EXTENDS PvaProtocol

CONSTANTS Chan, TypesOf, FirstMarked, HbIterations, NotServed, Closed,
          NetCap, SeqLimit, MaxEvents, MaxChange, MaxConnect, MaxStartup, Counted,
          Window,     \* a datagram is overtaken by Window - 1 at a time
          MaxLoss,    \* bound: datagrams lost
          MaxDup,     \* bound: datagrams repeated
          MaxSilence  \* bound: silences of two heartbeat periods

ASSUME ChanAssumption == Chan \subseteq Nat /\ IsFiniteSet(Chan)
ASSUME SeqLimitAssumption == SeqLimit \in 1 .. SeqMod
ASSUME HbAssumption == HbIterations \in Nat \ {0} /\ Counted \in BOOLEAN
ASSUME SourceAssumption ==
  /\ TypesOf \in [Chan -> SUBSET Type]
  /\ FirstMarked \subseteq SUBSET Field
  /\ MaxChange \in [Chan -> Nat]
  /\ Default = 0 /\ \A c \in Chan : 0 .. MaxChange[c] \subseteq Data
ASSUME NoValueAssumption ==
  NoValue \notin [type : Type \cup {NoType}, val : [Field -> Data \cup {Torn}]]

VARIABLES src, events, workqueue, startup, pc, iteration, seq_no, chan,
          update_deque, typeCache, typedef_id, net, sent,
          last_seq_no, last_startup_time, rcvTypes, rch, pv, base,
          losses, dups, silences   \* faults so far

Snd == INSTANCE PvaSender
Rcv == INSTANCE PvaReceiver

sndState == <<src, events, workqueue, startup, pc, iteration, seq_no, chan,
              update_deque, typeCache, typedef_id, sent>>
rcvState == <<last_seq_no, last_startup_time, rcvTypes, rch, pv, base>>
faults == <<losses, dups, silences>>
vars == <<sndState, net, rcvState, faults>>

Init ==
  /\ Snd!SndInit
  /\ Rcv!RcvInit
  /\ losses = 0 /\ dups = 0 /\ silences = 0

Source == Snd!Source /\ UNCHANGED <<rcvState, faults>>
Worker == Snd!Worker /\ UNCHANGED <<rcvState, faults>>
Restart == Snd!Restart /\ UNCHANGED <<rcvState, faults>>

(* A sequence without, or with a second copy of, its i-th element. *)
Without(s, i) == [j \in 1 .. Len(s) - 1 |-> IF j < i THEN s[j] ELSE s[j + 1]]
Doubled(s, i) == [j \in 1 .. Len(s) + 1 |-> IF j <= i THEN s[j] ELSE s[j - 1]]

(* The network (external). *)
Deliver(i) ==
  /\ i <= Window
  /\ Rcv!Receive(net[i])
  /\ net' = Without(net, i)
  /\ UNCHANGED <<sndState, faults>>

Lose(i) ==
  /\ losses < MaxLoss
  /\ losses' = losses + 1
  /\ net' = Without(net, i)
  /\ UNCHANGED <<sndState, rcvState, dups, silences>>

Duplicate(i) ==
  /\ dups < MaxDup
  /\ dups' = dups + 1
  /\ net' = Doubled(net, i)
  /\ UNCHANGED <<sndState, rcvState, losses, silences>>

(* Nothing arrived for two heartbeat periods. *)
Silence ==
  /\ silences < MaxSilence
  /\ silences' = silences + 1
  /\ \E S \in SUBSET Chan : Rcv!CheckNoUpdates(S)
  /\ UNCHANGED <<sndState, net, losses, dups>>

Next ==
  \/ Source
  \/ Worker
  \/ Restart
  \/ \E i \in 1 .. Len(net) : Deliver(i) \/ Lose(i) \/ Duplicate(i)
  \/ Silence

Spec == Init /\ [][Next]_vars

(* The worker's loop goes on and the network forwards what it does not     *)
(* lose.                                                                   *)
Forward == net # << >> /\ Deliver(1)
FairSpec == Spec /\ WF_vars(Worker) /\ WF_vars(Forward)

-----------------------------------------------------------------------------
TypeOK ==
  /\ pc \in {"events", "typedefs", "updates", "aborted"}
  /\ seq_no \in 0 .. SeqMod - 1
  /\ last_seq_no \in 0 .. SeqMod - 1
  /\ \A c \in Chan : /\ chan[c].update_seq_no \in 0 .. SeqMod - 1
                     /\ chan[c].changed_mask \subseteq Field
                     /\ rch[c].last_update_seqno \in 0 .. SeqMod - 1
  /\ \A i \in 1 .. Len(rcvTypes) : rcvTypes[i] \in Type \cup {NoType}

(* Nothing that changed is forgotten: a channel's structure differs from   *)
(* what has been sent of it only in fields that the pending update will    *)
(* carry, through changes, disconnections, reconnections and heartbeats    *)
(* that meet in one wake-up (merge, mark_update, clear_update).            *)
NoLostChange ==
  \A c \in Chan :
    LET ch == chan[c]
        same(f) == sent[c] # NoValue /\ sent[c].type = ch.value.type
                   /\ sent[c].val[f] = ch.value.val[f]
    IN ch.value # NoValue =>
         \A f \in Field :
           same(f) \/ (ch.pending_update # "None" /\ f \in Snd!BitsOf(ch))

(* A channel is queued exactly when an update is pending, once             *)
(* (mark_update, clear_update).                                            *)
QueueConsistent ==
  /\ \A c \in Chan : (chan[c].pending_update # "None")
                       = (\E i \in 1 .. Len(update_deque) : update_deque[i] = c)
  /\ \A i, j \in 1 .. Len(update_deque) : update_deque[i] = update_deque[j] => i = j

(* The receiver decodes with the type the sender encoded with: a slot of   *)
(* its cache is empty or holds the sender's type, although definitions are *)
(* lost, repeated and late (cacheType, send_typedef_updates,               *)
(* receive_updates).                                                       *)
TypesAgree ==
  \A i \in 1 .. Len(rcvTypes) :
    \/ rcvTypes[i] = NoType
    \/ i > Len(typeCache)
    \/ rcvTypes[i] = typeCache[i]

(* The structure shown is one the sender had, not a mixture of two: after  *)
(* lost, late and repeated updates, changes are taken only onto the        *)
(* structure they were made from, as long as they belong to the connection *)
(* of the last full update and the receiver is not late by a whole round   *)
(* of numbers (receive_updates, update_seq_no).  Structures a cut update,  *)
(* or one of another type, was read into are left out.                     *)
Coherent ==
  \A c \in Chan :
    \/ rch[c].last_value = NoValue
    \/ base[c].full = 0
    \/ rch[c].last_value.type # base[c].of.type
    \/ rch[c].last_value = base[c].of

(* Once the sources rest and the network loses nothing more, clients come  *)
(* to see the last structure of every source and keep seeing it, whatever  *)
(* was dropped before: full updates are repeated, of disconnected channels *)
(* too, and so are the types they need (mark_heartbeat_updates,            *)
(* send_typedef_updates, receive_updates).                                 *)
Converges ==
  \A c \in Chan :
    <>[](pc = "aborted" \/ src[c].value = NoValue \/ pv[c] = src[c].value)

(* The worker always gets back to the events (send_typedef_updates,        *)
(* send_updates).                                                          *)
LoopGoesOn == []<>(pc \in {"events", "aborted"})

(* design_pva.rst: "On disconnection, it marks the channel as disconnected *)
(* and puts a disconnect event in the send queue": clients learn of it.    *)
DisconnectReported ==
  \A c \in Chan :
    (pv[c] \notin {NotServed, Closed} /\ ~src[c].up)
      ~> (pv[c] \in {NotServed, Closed} \/ src[c].up \/ pc = "aborted")

(* protocol.rst: an update that must be ignored leaves the others alone.   *)
NothingTorn ==
  \A c \in Chan : rch[c].last_value # NoValue =>
    \A f \in Field : rch[c].last_value.val[f] # Torn

(* pva_receiver.cpp: a partial update is "valid only if previous full      *)
(* update was received and there was no lost partial update".              *)
SameConnection ==
  \A c \in Chan : rch[c].last_value # NoValue => base[c].full # 0

(* design_pva.rst: "For disconnected or never-connected channels no update *)
(* is sent".                                                               *)
NeverAborts == pc # "aborted"
=============================================================================
