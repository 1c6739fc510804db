------------------------------ MODULE CaSender ------------------------------
(***************************************************************************)
(* The CA sender process (sender.cpp).  One thread runs the loop           *)
(*    ca_pend_event -> polled fields -> heartbeats -> send_updates         *)
(* and every CA callback runs inside ca_pend_event.  pc is the place in    *)
(* that loop:                                                              *)
(*    "pend"      in ca_pend_event: callbacks may run                      *)
(*    "hb"        in mark_heartbeat_updates, at channel hb_next            *)
(*    "send"      at the test of send_updates' outer loop                  *)
(*    "build"     in its inner loop, filling the message msg               *)
(*    "frag"      at the loop test of send_fragmented_updates              *)
(*    "fragging"  in send_fragmented_update, sending frag                  *)
(* Outside the process: the IOC that owns the PVs (src) and the CA client  *)
(* library (which events and get replies are due: evq, getq).              *)
(***************************************************************************)
EXTENDS CaProtocol, Sequences, FiniteSetsExt

CONSTANTS N,             \* number of channels, fields included
          ParentIndex,   \* ParentIndex[c]: parent_index
          Polled,        \* channels with is_polled
          Data, Types, Counts,  \* contents, native types, element counts of PVs
          DbrSize,       \* DbrSize[c][t][n]: dbr_size_n of channel c's DBR type
          HashOf,        \* HashOf[d]: value_hash of the bytes d stands for
          HbIterations,  \* hb_iterations
          PfIterations,  \* pf_iterations
          NetCap,        \* bound: datagrams in flight
          None           \* no connection, no type, no subscription, no bytes

Chan == 0 .. N - 1

(* What a PV holds: its bytes, native type and element count. *)
Pv == [data : Data, type : Types, count : Counts]

ASSUME NAssumption == N \in Nat \ {0}
ASSUME ParentAssumption ==
  /\ ParentIndex \in [Chan -> Chan]
  /\ \A c \in Chan : ParentIndex[ParentIndex[c]] = ParentIndex[c]
ASSUME PolledAssumption == Polled \subseteq {c \in Chan : ParentIndex[c] # c}
ASSUME CountAssumption == Counts \subseteq Nat \ {0}
ASSUME SizeAssumption == DbrSize \in [Chan -> [Types -> [Counts -> Nat]]]
ASSUME IterationAssumption ==
  HbIterations \in Nat \ {0} /\ PfIterations \in Nat \ {0}
ASSUME NoneAssumption ==
  None \notin Pv /\ None \notin Types /\ None \notin [type : Types, count : Counts]
  /\ None \notin [seq : Nat, no : Nat, ch : Chan, rest : Nat]

VARIABLES
  src,      \* src[c]: the PV as its IOC has it, None while unreachable
  evq,      \* evq[c]: a monitor event is due
  getq,     \* getq[c]: a reply to ca_array_get_callback is due
  event_id, \* event_id[c]: the subscription (type, count), or None
  type,     \* type[c]: channel_type and type, TYPENOTCONN = None
  value,    \* value[c]: count and value bytes; None is count == -1
  value_hash,             \* value_hash[c], None = not initialized
  pending_update,         \* per channel, only used for parents
  updates_since_last_hb,
  update_deque,
  iteration,  \* iteration, modulo HbIterations * PfIterations
  seq_no,
  pc, hb_next,
  msg,      \* the data message being built: sequence number and channels
  frag,     \* the fragmented update being sent, or None
  net,      \* datagrams handed to the socket
  sent,     \* history: sent[c], the value of c last put on the wire
  since     \* history: since[p], iterations since p was last put on the wire

iocVars   == <<src, evq, getq>>
chanVars  == <<event_id, type, value, value_hash>>
queueVars == <<pending_update, updates_since_last_hb, update_deque>>
loopVars  == <<iteration, pc, hb_next>>
wireVars  == <<seq_no, msg, frag, net>>
histVars  == <<sent, since>>
vars == <<iocVars, chanVars, queueVars, loopVars, wireVars, histVars>>

Period == HbIterations * PfIterations

ValueSize(c) ==
  IF value[c] = None THEN 0 ELSE DbrSize[c][value[c].type][value[c].count]

(* ChannelGroup: a record and its fields. *)
Group(p) == {c \in Chan : ParentIndex[c] = p}

Parents == {c \in Chan : ParentIndex[c] = c}

GroupSize(p) == MapThenSumSet(ValueSize, Group(p))           \* value_size()
PackedSize(S) == MapThenSumSet(LAMBDA c : EntrySize(ValueSize(c)), S)

-----------------------------------------------------------------------------
Init ==
  /\ src = [c \in Chan |-> None]
  /\ evq = [c \in Chan |-> FALSE]
  /\ getq = [c \in Chan |-> FALSE]
  /\ event_id = [c \in Chan |-> None]
  /\ type = [c \in Chan |-> None]
  /\ value = [c \in Chan |-> None]
  /\ value_hash = [c \in Chan |-> None]
  /\ pending_update = [c \in Chan |-> FALSE]
  /\ updates_since_last_hb = [c \in Chan |-> 0]
  /\ update_deque = << >>
  /\ iteration = 0
  /\ seq_no = 0
  /\ pc = "pend"
  /\ hb_next = 0
  /\ msg = [seq |-> 0, chans |-> {}]
  /\ frag = None
  /\ net = << >>
  /\ sent = [c \in Chan |-> None]
  /\ since = [c \in Chan |-> 0]

(* A deviation: the record is queued whether or not it already is. *)
mark_update_unguarded(c) ==
  LET p == ParentIndex[c]
  IN /\ pending_update' = [pending_update EXCEPT ![p] = TRUE]
     /\ updates_since_last_hb' = [updates_since_last_hb EXCEPT ![p] = @ + 1]
     /\ update_deque' = Append(update_deque, p)

(* Channel::mark_update: a field marks its parent; a channel already in    *)
(* the queue keeps its place.                                              *)
mark_update(c) ==
  LET p == ParentIndex[c]
  IN IF pending_update[p]
     THEN UNCHANGED queueVars
     ELSE /\ pending_update' = [pending_update EXCEPT ![p] = TRUE]
          /\ updates_since_last_hb' = [updates_since_last_hb EXCEPT ![p] = @ + 1]
          /\ update_deque' = Append(update_deque, p)

(* A deviation: the count is not restarted, so one update ever is enough.  *)
mark_heartbeat_update_no_restart(c) ==
  LET p == ParentIndex[c]
  IN /\ IF updates_since_last_hb[p] = 0 /\ ~pending_update[p]
        THEN /\ pending_update' = [pending_update EXCEPT ![p] = TRUE]
             /\ update_deque' = Append(update_deque, p)
        ELSE UNCHANGED <<pending_update, update_deque>>
     /\ UNCHANGED updates_since_last_hb

(* Channel::mark_heartbeat_update: marked if nothing was queued since the  *)
(* last heartbeat, and counted from here.                                  *)
mark_heartbeat_update(c) ==
  LET p == ParentIndex[c]
  IN /\ IF updates_since_last_hb[p] = 0 /\ ~pending_update[p]
        THEN /\ pending_update' = [pending_update EXCEPT ![p] = TRUE]
             /\ update_deque' = Append(update_deque, p)
        ELSE UNCHANGED <<pending_update, update_deque>>
     /\ updates_since_last_hb' = [updates_since_last_hb EXCEPT ![p] = 0]

(* Channel::clear_update, of the channel at the front. *)
clear_update ==
  /\ pending_update' = [pending_update EXCEPT ![Head(update_deque)] = FALSE]
  /\ update_deque' = Tail(update_deque)
  /\ UNCHANGED updates_since_last_hb

-----------------------------------------------------------------------------
(* The IOC and the CA library (external).  A processed record posts a      *)
(* monitor event to the subscription there is; events not yet delivered    *)
(* are merged into one that carries the newest value.                      *)
IocWrite(c) ==
  /\ pc = "pend"
  /\ src[c] # None
  /\ \E d \in Data \ {src[c].data} : src' = [src EXCEPT ![c].data = d]
  /\ evq' = [evq EXCEPT ![c] = @ \/ event_id[c] # None]
  /\ UNCHANGED <<getq, chanVars, queueVars, loopVars, wireVars, histVars>>

(* Whether a connection with native type t needs a new subscription; a     *)
(* deviation subscribes only once.                                         *)
Resubscribe_once(c, t) == event_id[c] = None
Resubscribe(c, t) == event_id[c] = None \/ type[c] # t

(* connection_handler, CA_OP_CONN_UP.  The subscription is made anew only  *)
(* when there is none or the native type is another one; the library       *)
(* re-establishes an old one.  Either way a first event follows, unless    *)
(* ca_create_subscription fails, which leaves the channel without one.     *)
ConnUp(c) ==
  /\ pc = "pend"
  /\ src[c] = None
  /\ \E v \in Pv :
       /\ src' = [src EXCEPT ![c] = v]
       /\ type' = [type EXCEPT ![c] = v.type]
       /\ IF c \notin Polled /\ Resubscribe(c, v.type)
          THEN \E id \in {[type |-> v.type, count |-> v.count], None} :
                 event_id' = [event_id EXCEPT ![c] = id]
          ELSE event_id' = event_id
  /\ evq' = [evq EXCEPT ![c] = event_id'[c] # None]
  /\ UNCHANGED <<getq, value, value_hash, queueVars, loopVars, wireVars, histVars>>

(* connection_handler, CA_OP_CONN_DOWN.  A get that is still out fails     *)
(* with ECA_DISCONN, which event_handler ignores.                          *)
ConnDown(c) ==
  /\ pc = "pend"
  /\ src[c] # None
  /\ src' = [src EXCEPT ![c] = None]
  /\ evq' = [evq EXCEPT ![c] = FALSE]
  /\ getq' = [getq EXCEPT ![c] = FALSE]
  /\ value' = [value EXCEPT ![c] = None]
  /\ mark_update(c)
  /\ UNCHANGED <<event_id, type, value_hash, loopVars, wireVars, histVars>>

(* What a monitor delivers: the subscribed type and at most the subscribed *)
(* number of elements.                                                     *)
MonitorArgs(c) ==
  [data |-> src[c].data, type |-> event_id[c].type,
   count |-> IF event_id[c].count < src[c].count
             THEN event_id[c].count ELSE src[c].count]

(* event_handler for a subscription, status ECA_NORMAL. *)
EventMonitor(c) ==
  /\ pc = "pend"
  /\ evq[c]
  /\ evq' = [evq EXCEPT ![c] = FALSE]
  /\ value' = [value EXCEPT ![c] = MonitorArgs(c)]
  /\ mark_update(c)
  /\ UNCHANGED <<src, getq, event_id, type, value_hash, loopVars, wireVars, histVars>>

(* Whether the reply args to a get looks different from what is cached, by *)
(* size or by hash; a deviation trusts the hash alone.                     *)
Changed_hash_only(c, args) == value_hash[c] # HashOf[args.data]
Changed(c, args) ==
  \/ value_hash[c] = None
  \/ ValueSize(c) # DbrSize[c][args.type][args.count]
  \/ value_hash[c] # HashOf[args.data]

(* event_handler for a polled field, status ECA_NORMAL: marked only if the *)
(* value looks different.                                                  *)
EventGet(c) ==
  LET args == [src[c] EXCEPT !.type = type[c]]
  IN /\ pc = "pend"
     /\ getq[c]
     /\ getq' = [getq EXCEPT ![c] = FALSE]
     /\ value' = [value EXCEPT ![c] = args]
     /\ IF Changed(c, args)
        THEN /\ value_hash' = [value_hash EXCEPT ![c] = HashOf[args.data]]
             /\ mark_update(c)
        ELSE UNCHANGED <<value_hash, queueVars>>
     /\ UNCHANGED <<src, evq, event_id, type, loopVars, wireVars, histVars>>

(* event_handler with any other status: nothing but status changes. *)
EventGetFails(c) ==
  /\ pc = "pend"
  /\ getq[c]
  /\ getq' = [getq EXCEPT ![c] = FALSE]
  /\ UNCHANGED <<src, evq, chanVars, queueVars, loopVars, wireVars, histVars>>

-----------------------------------------------------------------------------
(* A get is out for every polled field that is connected; the request      *)
(* fails for the others.                                                   *)
check_polled_fields == [c \in Chan |-> getq[c] \/ (c \in Polled /\ src[c] # None)]

(* run: ca_pend_event returns. *)
EndPend ==
  LET it == (iteration + 1) % Period
  IN /\ pc = "pend"
     /\ iteration' = it
     /\ getq' = IF it % PfIterations = 0
                THEN check_polled_fields ELSE getq
     /\ pc' = IF it % HbIterations = 0 THEN "hb" ELSE "send"
     /\ hb_next' = 0
     /\ since' = [p \in Chan |-> IF since[p] < 2 * HbIterations
                                 THEN since[p] + 1 ELSE since[p]]
     /\ UNCHANGED <<src, evq, chanVars, queueVars, wireVars, sent>>

(* mark_heartbeat_updates: the loop visits fields as well as records. *)
HbStep ==
  /\ pc = "hb"
  /\ mark_heartbeat_update(hb_next)
  /\ IF hb_next = N - 1
     THEN pc' = "send" /\ hb_next' = 0
     ELSE pc' = pc /\ hb_next' = hb_next + 1
  /\ UNCHANGED <<iocVars, chanVars, iteration, wireVars, histVars>>

(* send_updates, outer loop: done, or a new message takes a number. *)
SendDone ==
  /\ pc = "send"
  /\ update_deque = << >>
  /\ pc' = "pend"
  /\ UNCHANGED <<iocVars, chanVars, queueVars, iteration, hb_next, wireVars, histVars>>

StartMsg ==
  /\ pc = "send"
  /\ update_deque # << >>
  /\ msg' = [seq |-> seq_no, chans |-> {}]
  /\ seq_no' = NextSeq(seq_no)
  /\ pc' = "build"
  /\ UNCHANGED <<iocVars, chanVars, queueVars, iteration, hb_next, frag, net, histVars>>

(* The group at the front: too large for any data message, or fits what is *)
(* left of this one.                                                       *)
Oversize == update_deque # << >> /\ GroupSize(Head(update_deque)) > MaxDataSize
Fits ==
  /\ update_deque # << >>
  /\ ~Oversize
  /\ PackedSize(Group(Head(update_deque))) <= DataRoom - PackedSize(msg.chans)

(* send_updates, inner loop. *)
AddGroup ==
  /\ pc = "build"
  /\ Fits
  /\ msg' = [msg EXCEPT !.chans = @ \cup Group(Head(update_deque))]
  /\ clear_update
  /\ UNCHANGED <<iocVars, chanVars, loopVars, seq_no, frag, net, histVars>>

Hand(pkt) ==
  /\ Len(net) < NetCap
  /\ net' = Append(net, pkt)

(* The message is sent, with whatever it holds, when the queue is empty or *)
(* the next group does not go in.                                          *)
SendMsg ==
  /\ pc = "build"
  /\ ~Fits
  /\ Hand(DataMsg(1, msg.seq, [c \in msg.chans |-> value[c]]))
  /\ pc' = IF Oversize THEN "frag" ELSE "send"
  /\ msg' = [seq |-> 0, chans |-> {}]
  /\ sent' = [c \in Chan |-> IF c \in msg.chans THEN value[c] ELSE sent[c]]
  /\ since' = [c \in Chan |-> IF c \in msg.chans THEN 0 ELSE since[c]]
  /\ UNCHANGED <<iocVars, chanVars, queueVars, iteration, hb_next, seq_no, frag>>

(* send_fragmented_updates: only the value of the record itself counts.    *)
(* Deviations: whatever is queued is sent in fragments; the value is       *)
(* compared with a whole message.                                          *)
FragNeeded_any == update_deque # << >>
FragNeeded_message ==
  update_deque # << >> /\ ValueSize(Head(update_deque)) > MaxMessageSize
FragNeeded == update_deque # << >> /\ ValueSize(Head(update_deque)) > MaxDataSize

FragDone ==
  /\ pc = "frag"
  /\ ~FragNeeded
  /\ pc' = "send"
  /\ UNCHANGED <<iocVars, chanVars, queueVars, iteration, hb_next, wireVars, histVars>>

StartFrag ==
  /\ pc = "frag"
  /\ FragNeeded
  /\ Len(net) < NetCap
  /\ LET ch == Head(update_deque)
     IN frag' = [seq |-> seq_no, no |-> 0, ch |-> ch, rest |-> ValueSize(ch)]
  /\ seq_no' = NextSeq(seq_no)
  /\ pc' = "fragging"
  /\ UNCHANGED <<iocVars, chanVars, queueVars, iteration, hb_next, msg, net, histVars>>

(* The bytes of the next fragment; a deviation forgets the room there is. *)
FragSize_unlimited == frag.rest
FragSize == IF frag.rest < FragRoom THEN frag.rest ELSE FragRoom

(* One turn of send_fragmented_update's loop; after the last one the       *)
(* update is cleared.                                                      *)
SendFragment ==
  /\ pc = "fragging"
  /\ Hand(FragMsg(1, frag.seq, frag.no, frag.ch, value[frag.ch], FragSize))
  /\ IF frag.rest > FragSize
     THEN /\ frag' = [frag EXCEPT !.no = @ + 1, !.rest = @ - FragSize]
          /\ UNCHANGED <<pc, queueVars, histVars>>
     ELSE /\ frag' = None
          /\ pc' = "frag"
          /\ clear_update
          /\ sent' = [sent EXCEPT ![frag.ch] = value[frag.ch]]
          /\ since' = [since EXCEPT ![frag.ch] = 0]
  /\ UNCHANGED <<iocVars, chanVars, iteration, hb_next, seq_no, msg>>

(* The network takes the oldest datagram (external). *)
NetTake ==
  /\ net # << >>
  /\ net' = Tail(net)
  /\ UNCHANGED <<iocVars, chanVars, queueVars, loopVars, seq_no, msg, frag, histVars>>

-----------------------------------------------------------------------------
Callback(c) ==
  \/ IocWrite(c)
  \/ ConnUp(c)
  \/ ConnDown(c)
  \/ EventMonitor(c)
  \/ EventGet(c)
  \/ EventGetFails(c)

Step ==
  \/ EndPend
  \/ HbStep
  \/ SendDone
  \/ StartMsg
  \/ AddGroup
  \/ SendMsg
  \/ FragDone
  \/ StartFrag
  \/ SendFragment

Next == (\E c \in Chan : Callback(c)) \/ Step \/ NetTake

Spec == Init /\ [][Next]_vars

(* ca_pend_event returns after update_period whatever happens, the rest of *)
(* the loop never waits, and the network accepts datagrams.                *)
FairSpec == Spec /\ WF_vars(Step) /\ WF_vars(NetTake)

-----------------------------------------------------------------------------
IocType ==
  /\ src \in [Chan -> Pv \cup {None}]
  /\ evq \in [Chan -> BOOLEAN]
  /\ getq \in [Chan -> BOOLEAN]

ChanType ==
  /\ event_id \in [Chan -> [type : Types, count : Counts] \cup {None}]
  /\ type \in [Chan -> Types \cup {None}]
  /\ value \in [Chan -> Pv \cup {None}]

QueueType ==
  /\ pending_update \in [Chan -> BOOLEAN]
  /\ updates_since_last_hb \in [Chan -> Nat]
  /\ update_deque \in Seq(Parents)

LoopType ==
  /\ iteration \in 0 .. Period - 1
  /\ pc \in {"pend", "hb", "send", "build", "frag", "fragging"}
  /\ hb_next \in Chan

WireType ==
  /\ seq_no \in 0 .. SeqMod - 1
  /\ msg \in [seq : 0 .. SeqMod - 1, chans : SUBSET Chan]
  /\ frag \in [seq : 0 .. SeqMod - 1, no : Nat, ch : Parents, rest : Nat] \cup {None}

(* Every variable has the type the code gives it: in particular only       *)
(* records are queued, sequence numbers keep to 16 bits (SeqMod) and no    *)
(* size ever becomes negative.                                             *)
TypeOK == IocType /\ ChanType /\ QueueType /\ LoopType /\ WireType

(* update_deque and the pending_update flags agree: a record is in the     *)
(* queue exactly if its flag is set, and once.  Were a record in the queue *)
(* twice, clear_update would drop the flag while an entry remains; were    *)
(* the flag set without an entry, mark_update would never queue the record *)
(* again (mark_update, mark_heartbeat_update, clear_update).               *)
QueueConsistent ==
  /\ \A p \in Chan :
       pending_update[p] <=> \E i \in 1 .. Len(update_deque) : update_deque[i] = p
  /\ \A i, j \in 1 .. Len(update_deque) :
       update_deque[i] = update_deque[j] => i = j

(* While fragments of a value go out, that value is the one at the front   *)
(* of the queue, is connected and keeps the size that was announced, so    *)
(* that clear_update clears the channel that was sent                      *)
(* (send_fragmented_updates).                                              *)
FragFront ==
  pc = "fragging" =>
    /\ update_deque # << >> /\ frag.ch = Head(update_deque)
    /\ frag.rest > 0
    /\ frag.rest + frag.no * FragRoom = ValueSize(frag.ch)

(* No update is lost in the sender: a channel whose cached value is not    *)
(* the one last put on the wire has its record in the queue, or in the     *)
(* message being built (event_handler, connection_handler, send_updates).  *)
NoLostUpdate ==
  \A c \in Chan :
    value[c] # sent[c] => pending_update[ParentIndex[c]] \/ c \in msg.chans

(* The type sent with a value (CAChannelData::type is ch->type) is the     *)
(* type the bytes were received with, through any number of reconnections  *)
(* with other types (connection_handler, event_handler).                   *)
WireDescribesValue ==
  \A c \in Chan : value[c] # None => value[c].type = type[c]

(* No record stays off the wire for 2 * hb_iterations turns of the loop:   *)
(* what the receiver's 2 * heartbeat_period timeout is built on            *)
(* (mark_heartbeat_updates).                                               *)
HeartbeatBound ==
  \A p \in Parents : since[p] < 2 * HbIterations

(* design.rst: "a sender must resend a last update message of a channel if *)
(* no other update was sent in heartbeat period of time".                  *)
HeartbeatEveryPeriod ==
  \A p \in Parents : since[p] <= HbIterations

(* design.rst: on reconnect the sender "compares the new type and count    *)
(* against values from the previous connection and [...] resubscribes":    *)
(* a monitored value, once delivered, has all the elements the PV has.     *)
AllElements ==
  \A c \in Chan \ Polled :
    (src[c] # None /\ event_id[c] # None /\ ~evq[c]) => value[c].count = src[c].count

(* design.rst: "For disconnected or never-connected channels no update is  *)
(* sent" by the heartbeat: a record none of whose channels is connected    *)
(* goes out only to announce a change.                                     *)
NoHeartbeatWhenDisconnected ==
  [][\A p \in Parents :
       (since'[p] = 0 /\ since[p] > 0 /\ \A c \in Group(p) : value[c] = None)
         => \E c \in Group(p) : sent[c] # None]_vars

(* design.rst: "Record channel data should always be sent with all its     *)
(* configured extra fields within the same packet": a record with fields   *)
(* leaves the queue only into a message that holds all of them.            *)
RecordSentWhole ==
  [][\A p \in Parents :
       (pending_update[p] /\ ~pending_update'[p] /\ Group(p) # {p})
         => Group(p) \subseteq msg'.chans]_vars

(* Whatever is queued is sent: the loop of send_updates comes to its end   *)
(* and the record leaves the queue (send_updates, send_fragmented_updates).*)
QueueDrains ==
  \A p \in Parents : pending_update[p] ~> ~pending_update[p]

-----------------------------------------------------------------------------
(* The sender implements DatagramSource: every datagram it hands over is   *)
(* one that module allows.  A data message under construction has already  *)
(* taken its number; in the abstract source it takes it when sent.         *)
Source == INSTANCE DatagramSource WITH
  Value <- Pv \cup {None},
  InitValue <- None,
  Size <- [c \in Chan |-> [v \in Pv \cup {None} |->
             IF v = None THEN 0 ELSE DbrSize[c][v.type][v.count]]],
  Succ <- [c \in Chan |-> [v \in Pv \cup {None} |-> Pv \cup {None}]],
  MaxStartup <- 1,
  SeqLimit <- SeqMod,
  startup <- 1,
  seq_no <- IF pc = "build" THEN msg.seq ELSE seq_no,
  cur <- value

ImplementsSource == Source!SrcSpec
=============================================================================
