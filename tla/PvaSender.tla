----------------------------- MODULE PvaSender ------------------------------
(***************************************************************************)
(* The PVA sender (pva_sender.cpp).  pvxs threads queue monitor events and *)
(* push the channel's index on the work queue; one worker thread wakes up  *)
(* every update_period, handles the queued events, every hb_iterations-th  *)
(* time sends all type definitions and marks every channel for a full      *)
(* update, and sends what is marked.                                       *)
(***************************************************************************)
EXTENDS PvaProtocol

CONSTANTS Chan,          \* channels, one source each
          TypesOf,       \* TypesOf[c]: the types the source may have
          FirstMarked,   \* sets of fields a first monitor event may carry
          HbIterations,  \* hb_iterations
          NetCap,        \* bound: datagrams in flight
          SeqLimit,      \* bound: sequence numbers 0..SeqLimit-1 are used
          MaxEvents,     \* bound: queued monitor events of a channel
          MaxChange,     \* bound: MaxChange[c] changes of a source's value
          MaxConnect,    \* bound: connections of a source
          MaxStartup,    \* bound: sender processes
          Counted        \* whether the history no counts on or wraps too

VARIABLES src,           \* external: the sources, [up, type, val, sess]
          events,        \* events[c]: the subscription's queue
          workqueue,
          startup,       \* startup_time
          pc,            \* where the worker is
          iteration, seq_no,
          chan,          \* chan[c]: struct Channel
          update_deque, typeCache,
          typedef_id,    \* id in send_typedef_updates
          net,           \* datagrams handed to the network
          sent           \* history: sent[c], what the updates sent amount to

sourceVars == <<src, events, workqueue>>
workerVars == <<startup, pc, iteration, seq_no, chan, update_deque, typeCache,
                typedef_id, net, sent>>
sndVars == <<sourceVars, workerVars>>

IdleChannel ==
  [connected |-> FALSE, type_id |-> 0, update_seq_no |-> 0, value |-> NoValue,
   valid |-> {}, changed_mask |-> {}, pending_update |-> "None", sess |-> 0, no |-> 0]

SndInit ==
  /\ src = [c \in Chan |-> [up |-> FALSE, value |-> NoValue, changes |-> 0, sess |-> 0]]
  /\ events = [c \in Chan |-> << >>]
  /\ workqueue = << >>
  /\ startup = 1 /\ pc = "events" /\ iteration = 0 /\ seq_no = 0
  /\ chan = [c \in Chan |-> IdleChannel]
  /\ update_deque = << >>
  /\ typeCache = Builtin
  /\ typedef_id = 0
  /\ net = << >>
  /\ sent = [c \in Chan |-> NoValue]

-----------------------------------------------------------------------------
(* The sources and the pvxs client (external).  A subscription has a queue *)
(* of one value, into which later values are squashed; the event callback  *)
(* runs when its queue becomes not empty.                                  *)
ValueEvent(s, fields) == [kind |-> "value", of |-> s.value, fields |-> fields, sess |-> s.sess]
DisconnectEvent == [kind |-> "disconnect"]

Queued(q, e) ==
  IF q # << >> /\ q[Len(q)].kind = "value" /\ e.kind = "value"
  THEN [q EXCEPT ![Len(q)] = [e EXCEPT !.fields = @ \cup q[Len(q)].fields]]
  ELSE Append(q, e)

Notify(c, e) ==
  /\ Len(Queued(events[c], e)) <= MaxEvents
  /\ events' = [events EXCEPT ![c] = Queued(@, e)]
  /\ workqueue' = IF events[c] = << >> THEN Append(workqueue, c) ELSE workqueue
  /\ UNCHANGED workerVars

SourceConnects(c) ==
  \E t \in TypesOf[c], fields \in FirstMarked :
    LET n == src[c].changes + 1
        s == [up |-> TRUE, changes |-> n, sess |-> src[c].sess + 1,
              value |-> Struct(t, [f \in Field |-> IF f \in fields THEN n ELSE Default])]
    IN /\ ~src[c].up /\ src[c].sess < MaxConnect /\ n <= MaxChange[c]
       /\ src' = [src EXCEPT ![c] = s]
       /\ Notify(c, ValueEvent(s, fields))

SourceChanges(c, fields) ==
  LET n == src[c].changes + 1
      s == [src[c] EXCEPT !.changes = n,
              !.value.val = [f \in Field |-> IF f \in fields THEN n ELSE @[f]]]
  IN /\ src[c].up /\ n <= MaxChange[c]
     /\ src' = [src EXCEPT ![c] = s]
     /\ Notify(c, ValueEvent(s, fields))

SourceDisconnects(c) ==
  /\ src[c].up
  /\ src' = [src EXCEPT ![c].up = FALSE]
  /\ Notify(c, DisconnectEvent)

-----------------------------------------------------------------------------
(* valid_to_mask: a null value fails the assertion. *)
CannotMask(ch) == ch.value = NoValue
valid_to_mask(ch) == ch.valid

(* mark_update on the record of a channel; the index is queued with the    *)
(* first mark.  Deviation: a pending update is not upgraded.               *)
mark_update_once(ch, kind) ==
  IF ch.pending_update = "None"
  THEN [ch EXCEPT !.pending_update = kind,
                  !.changed_mask = IF kind = "Full" THEN valid_to_mask(ch) ELSE @]
  ELSE ch
mark_update(ch, kind) ==
  IF ch.pending_update = "None" \/ (kind = "Full" /\ ch.pending_update # "Full")
  THEN [ch EXCEPT !.pending_update = kind,
                  !.changed_mask = IF kind = "Full" THEN valid_to_mask(ch) ELSE @]
  ELSE ch

(* Deviation: the index is queued with every mark. *)
Enqueue_always(ch, q, c) == Append(q, c)
Enqueue(ch, q, c) == IF ch.pending_update = "None" THEN Append(q, c) ELSE q

clear_update(ch) == [ch EXCEPT !.changed_mask = {}, !.pending_update = "None"]

(* merge: the fields of the event are copied and their bits set, but they  *)
(* do not become valid.  A deviation sets no bits.                         *)
merge_unmarked(ch, e) ==
  [ch EXCEPT !.value.val = [f \in Field |-> IF f \in e.fields THEN e.of.val[f] ELSE @[f]]]
merge(ch, e) ==
  [ch EXCEPT !.value.val = [f \in Field |-> IF f \in e.fields THEN e.of.val[f] ELSE @[f]],
             !.changed_mask = @ \cup e.fields]

(* run: one event popped from the subscription of the channel at the head  *)
(* of the work queue.                                                      *)
PopEvent(c) ==
  /\ pc = "events"
  /\ workqueue # << >> /\ c = Head(workqueue)
  /\ events' = [events EXCEPT ![c] = Tail(@)]
  /\ workqueue' = IF Len(events[c]) = 1 THEN Tail(workqueue) ELSE workqueue
  /\ UNCHANGED <<src, startup, pc, iteration, seq_no, typedef_id, net, sent>>

(* Of the mask, resize keeps the bits; it is replaced unless a full update *)
(* was pending already.                                                    *)
Connected(ch, e) ==
  [ch EXCEPT !.connected = TRUE, !.value = e.of, !.valid = e.fields,
             !.type_id = TypeId(typeCache, e.of.type),
             !.update_seq_no = 0, !.sess = e.sess, !.no = 0]

FirstValue(c) ==
  LET e == Head(events[c])
      ch == Connected(chan[c], e)
  IN /\ PopEvent(c)
     /\ e.kind = "value" /\ ~chan[c].connected
     /\ typeCache' = cacheType(typeCache, e.of.type)
     /\ chan' = [chan EXCEPT ![c] = mark_update(ch, "Full")]
     /\ update_deque' = Enqueue(ch, update_deque, c)

NextValue(c) ==
  LET e == Head(events[c])
      ch == merge(chan[c], e)
  IN /\ PopEvent(c)
     /\ e.kind = "value" /\ chan[c].connected
     /\ chan' = [chan EXCEPT ![c] = mark_update(ch, "Partial")]
     /\ update_deque' = Enqueue(ch, update_deque, c)
     /\ UNCHANGED typeCache

(* A disconnection is marked like a change of value: the update goes out   *)
(* as Partial, or Full, and never as Disconnected.                         *)
Disconnection(c) ==
  LET ch == [chan[c] EXCEPT !.connected = FALSE]
  IN /\ PopEvent(c)
     /\ Head(events[c]).kind = "disconnect"
     /\ chan' = [chan EXCEPT ![c] = mark_update(ch, "Partial")]
     /\ update_deque' = Enqueue(ch, update_deque, c)
     /\ UNCHANGED typeCache

(* The work queue is empty: ++iteration. *)
EventsDone ==
  LET i == (iteration + 1) % HbIterations
  IN /\ pc = "events" /\ workqueue = << >>
     /\ iteration' = i
     /\ pc' = IF i = 0 THEN "typedefs" ELSE "updates"
     /\ typedef_id' = BuildinCacheSize
     /\ UNCHANGED <<sourceVars, startup, seq_no, chan, update_deque, typeCache, net, sent>>

-----------------------------------------------------------------------------
Send(pkt) == Len(net) < NetCap /\ net' = Append(net, pkt)

(* send_typedef_updates: how many definitions from id on go into one       *)
(* message.  None, when the first is too large: it is then tried again.    *)
(* Deviation: the last one never fits.                                     *)
SumBytes(id, n) ==
  LET sum[i \in 0 .. n] == IF i = 0 THEN 0 ELSE sum[i - 1] + TypeBytes[typeCache[id + i]]
  IN sum[n]
TypesFitting_less(id) ==
  Cardinality({n \in 1 .. Len(typeCache) - id - 1 : SumBytes(id, n) <= TypeDefRoom})
TypesFitting(id) ==
  Cardinality({n \in 1 .. Len(typeCache) - id : SumBytes(id, n) <= TypeDefRoom})

(* The n definitions from id on.  Deviation: from the one before it on.    *)
TypesFrom_before(id, n) == SubSeq(typeCache, id, id + n - 1)
TypesFrom(id, n) == SubSeq(typeCache, id + 1, id + n)

SendTypedefs ==
  LET n == TypesFitting(typedef_id)
  IN /\ pc = "typedefs" /\ typedef_id < Len(typeCache)
     /\ Send(PVATypeDefMsg(startup, typedef_id, TypesFrom(typedef_id, n)))
     /\ typedef_id' = typedef_id + n
     /\ UNCHANGED <<sourceVars, startup, pc, iteration, seq_no, chan, update_deque,
                    typeCache, sent>>

Orders(S) == {q \in [1 .. Cardinality(S) -> S] :
                \A i, j \in DOMAIN q : i # j => q[i] # q[j]}
Ascending(q) == \A i, j \in DOMAIN q : i < j => q[i] < q[j]

(* mark_heartbeat_updates: every channel, connected or not.  A channel     *)
(* that never had a value fails the assertion of valid_to_mask.            *)
MarkHeartbeats ==
  LET unmarked == {c \in Chan : chan[c].pending_update = "None"}
  IN /\ pc = "typedefs" /\ typedef_id >= Len(typeCache)
     /\ IF \E c \in Chan : CannotMask(chan[c])
        THEN pc' = "aborted" /\ UNCHANGED <<chan, update_deque>>
        ELSE /\ pc' = "updates"
             /\ chan' = [c \in Chan |-> mark_update(chan[c], "Full")]
             /\ \E q \in Orders(unmarked) :
                  Ascending(q) /\ update_deque' = update_deque \o q
     /\ UNCHANGED <<sourceVars, startup, iteration, seq_no, typeCache, typedef_id,
                    net, sent>>

(* The fields PVAChannelData::serialize is asked to write: those marked    *)
(* that are valid (to_wire_valid).                                         *)
BitsOf(ch) == ch.changed_mask \cap ch.valid

(* send_updates: room[i] is what is left of the message after the i-th     *)
(* queued channel, or -1 when its header did not fit.  A value that does   *)
(* not fit is cut short and counts as sent all the same.                   *)
RoomAfter ==
  LET room[i \in 0 .. Len(update_deque)] ==
        IF i = 0 THEN PVADataRoom
        ELSE LET ch == chan[update_deque[i]]
                 r == room[i - 1] - ChannelDataBytes(ch.pending_update)
             IN IF ~HeaderFits(room[i - 1], ch.pending_update) THEN -1
                ELSE r - ValueBytes(BitsOf(ch), r)
  IN room

PackedCount == Cardinality({i \in 1 .. Len(update_deque) : RoomAfter[i] >= 0})

Entry(i) ==
  LET c == update_deque[i]
      ch == chan[c]
      r == RoomAfter[i - 1] - ChannelDataBytes(ch.pending_update)
  IN ChannelData(c, ch.update_seq_no, ch.pending_update, ch.type_id, ch.value,
                 MaskRead(BitsOf(ch), r), FieldsWritten(BitsOf(ch), r), ch.sess, ch.no)

NextCount(n) == IF Counted THEN n + 1 ELSE NextSeq(n)

(* What the receivers hold of a channel if they get all updates. *)
SentValue(old, e) ==
  LET base == IF old = NoValue \/ old.type # e.of.type THEN cloneEmpty(e.of.type) ELSE old
  IN Struct(e.of.type, [f \in Field |-> IF f \in e.got THEN e.of.val[f] ELSE base.val[f]])

SendMessage ==
  LET n == PackedCount
      packed == {update_deque[i] : i \in 1 .. n}
      overrun == n < Len(update_deque) /\ HeaderOverruns(RoomAfter[n])
  IN /\ pc = "updates" /\ update_deque # << >> /\ seq_no < SeqLimit
     /\ IF overrun
        THEN pc' = "aborted" /\ UNCHANGED <<net, seq_no, chan, update_deque, sent>>
        ELSE /\ Send(PVADataMsg(startup, seq_no, [i \in 1 .. n |-> Entry(i)]))
             /\ seq_no' = NextSeq(seq_no)
             /\ chan' = [c \in Chan |->
                  IF c \in packed
                  THEN clear_update([chan[c] EXCEPT !.update_seq_no = NextSeq(chan[c].update_seq_no),
                                                    !.no = NextCount(chan[c].no)])
                  ELSE chan[c]]
             /\ update_deque' = SubSeq(update_deque, n + 1, Len(update_deque))
             /\ sent' = [c \in Chan |->
                  IF c \in packed
                  THEN SentValue(sent[c], Entry(CHOOSE i \in 1 .. n : update_deque[i] = c))
                  ELSE sent[c]]
             /\ UNCHANGED pc
     /\ UNCHANGED <<sourceVars, startup, iteration, typeCache, typedef_id>>

UpdatesDone ==
  /\ pc = "updates" /\ update_deque = << >>
  /\ pc' = "events"
  /\ UNCHANGED <<sourceVars, startup, iteration, seq_no, chan, update_deque, typeCache,
                 typedef_id, net, sent>>

(* A new sender process: new subscriptions, a later startup_time. *)
Restart ==
  /\ startup < MaxStartup
  /\ startup' = startup + 1
  /\ pc' = "events" /\ iteration' = 0 /\ seq_no' = 0
  /\ chan' = [c \in Chan |-> IdleChannel]
  /\ update_deque' = << >> /\ typeCache' = Builtin /\ typedef_id' = 0
  /\ sent' = [c \in Chan |-> NoValue]
  /\ src' = [c \in Chan |-> IF src[c].up THEN [src[c] EXCEPT !.sess = @ + 1] ELSE src[c]]
  /\ events' = [c \in Chan |->
       IF src[c].up
       THEN <<ValueEvent(src'[c], {f \in Field : src[c].value.val[f] # Default})>>
       ELSE << >>]
  /\ workqueue' \in Orders({c \in Chan : src[c].up})
  /\ UNCHANGED net

Source ==
  \E c \in Chan : \/ SourceConnects(c)
                  \/ SourceDisconnects(c)
                  \/ \E fields \in SUBSET Field \ {{}} : SourceChanges(c, fields)

Worker ==
  \/ \E c \in Chan : FirstValue(c) \/ NextValue(c) \/ Disconnection(c)
  \/ EventsDone \/ SendTypedefs \/ MarkHeartbeats \/ SendMessage \/ UpdatesDone
=============================================================================
