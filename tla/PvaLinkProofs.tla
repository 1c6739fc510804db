--------------------------- MODULE PvaLinkProofs ---------------------------
(***************************************************************************)
(* Proofs about PvaLink, for any channels, structures and types, any sizes *)
(* of messages, and any faults of the network.                             *)
(***************************************************************************)
EXTENDS PvaLink, NatSets, FiniteSetTheorems, TLAPS

(* Queues without repetitions. *)
Distinct(q) == \A i, j \in 1 .. Len(q) : q[i] = q[j] => i = j
In(q) == {q[i] : i \in 1 .. Len(q)}

(* A function on 1..n is a sequence of that length. *)
LEMMA FunctionIsSeq ==
  ASSUME NEW T, NEW n \in Nat, NEW f \in [1 .. n -> T]
  PROVE  f \in Seq(T) /\ Len(f) = n
  OBVIOUS

(* A sequence over a set is one over a larger set. *)
LEMMA SeqMonotone ==
  ASSUME NEW S, NEW T, S \subseteq T, NEW q \in Seq(S)
  PROVE  q \in Seq(T)
  <1>1. Len(q) \in Nat /\ q \in [1 .. Len(q) -> S]
    OBVIOUS
  <1>2. q \in [1 .. Len(q) -> T]
    BY <1>1
  <1> QED BY <1>1, <1>2, FunctionIsSeq

(* One more at the end of a queue it is not in. *)
LEMMA AppendQueue ==
  ASSUME NEW T, NEW q \in Seq(T), NEW e \in T, Distinct(q), e \notin In(q)
  PROVE  /\ Append(q, e) \in Seq(T)
         /\ Distinct(Append(q, e)) /\ In(Append(q, e)) = In(q) \cup {e}
  <1> DEFINE r == Append(q, e)
  <1>1. /\ r \in Seq(T) /\ Len(r) = Len(q) + 1 /\ Len(q) \in Nat
        /\ r[Len(q) + 1] = e /\ \A i \in 1 .. Len(q) : r[i] = q[i]
    OBVIOUS
  <1> HIDE DEF r
  <1>2. \A i \in 1 .. Len(r) : i \in 1 .. Len(q) \/ i = Len(q) + 1
    BY <1>1
  <1>3. In(r) = In(q) \cup {e}
    <2>1. ASSUME NEW x \in In(r) PROVE x \in In(q) \cup {e}
      BY <1>1, <1>2 DEF In
    <2>2. ASSUME NEW x \in In(q) \cup {e} PROVE x \in In(r)
      <3>1. 1 .. Len(q) \subseteq 1 .. Len(r) /\ Len(q) + 1 \in 1 .. Len(r)
        BY <1>1
      <3> QED BY <1>1, <3>1 DEF In
    <2> QED BY <2>1, <2>2
  <1>4. Distinct(r)
    <2> SUFFICES ASSUME NEW i \in 1 .. Len(r), NEW j \in 1 .. Len(r), r[i] = r[j] PROVE i = j
      BY DEF Distinct
    <2>1. CASE i \in 1 .. Len(q) /\ j \in 1 .. Len(q)
      BY <1>1, <2>1 DEF Distinct
    <2>2. CASE i \in 1 .. Len(q) /\ j = Len(q) + 1
      BY <1>1, <2>2 DEF In
    <2>3. CASE i = Len(q) + 1 /\ j \in 1 .. Len(q)
      BY <1>1, <2>3 DEF In
    <2> QED BY <1>2, <2>1, <2>2, <2>3
  <1> QED BY <1>1, <1>3, <1>4 DEF r

(* The first n leave a queue. *)
LEMMA DropQueue ==
  ASSUME NEW T, NEW q \in Seq(T), NEW n \in 0 .. Len(q), Distinct(q)
  PROVE  LET r == SubSeq(q, n + 1, Len(q))
         IN r \in Seq(T) /\ Distinct(r) /\ In(r) = In(q) \ {q[i] : i \in 1 .. n}
  <1> DEFINE r == SubSeq(q, n + 1, Len(q))
             m == Len(q) - n
  <1>1. /\ r \in Seq(T) /\ Len(r) = m /\ m \in Nat /\ Len(q) \in Nat /\ n \in Nat
        /\ \A i \in 1 .. m : r[i] = q[n + i]
    OBVIOUS
  <1>2. m + n = Len(q)
    BY <1>1
  <1> HIDE DEF r, m
  <1>3. Distinct(r)
    <2> SUFFICES ASSUME NEW i \in 1 .. Len(r), NEW j \in 1 .. Len(r), r[i] = r[j] PROVE i = j
      BY DEF Distinct
    <2>1. n + i \in 1 .. Len(q) /\ n + j \in 1 .. Len(q)
      BY <1>1, <1>2
    <2>2. q[n + i] = q[n + j]
      BY <1>1
    <2>3. n + i = n + j
      BY <2>1, <2>2 DEF Distinct
    <2> QED BY <1>1, <2>3
  <1>4. ASSUME NEW x \in In(r) PROVE x \in In(q) \ {q[i] : i \in 1 .. n}
    <2>1. PICK i \in 1 .. m : x = q[n + i]
      BY <1>1 DEF In
    <2>2. n + i \in 1 .. Len(q) /\ \A k \in 1 .. n : k \in 1 .. Len(q) /\ k # n + i
      BY <1>1, <1>2
    <2> QED BY <2>1, <2>2 DEF In, Distinct
  <1>5. ASSUME NEW x \in In(q) \ {q[i] : i \in 1 .. n} PROVE x \in In(r)
    <2>1. PICK k \in 1 .. Len(q) : x = q[k]
      BY DEF In
    <2>2. ~(k \in 1 .. n)
      BY <2>1
    <2>3. k - n \in 1 .. m /\ n + (k - n) = k
      BY <1>1, <1>2, <2>2
    <2>4. r[k - n] = x
      BY <1>1, <2>1, <2>3
    <2> QED BY <1>1, <2>3, <2>4 DEF In
  <1> QED BY <1>1, <1>3, <1>4, <1>5 DEF r

(* The head leaves a queue. *)
LEMMA TailQueue ==
  ASSUME NEW T, NEW q \in Seq(T), q # << >>, Distinct(q)
  PROVE  /\ Tail(q) \in Seq(T) /\ Distinct(Tail(q))
         /\ In(Tail(q)) = In(q) \ {Head(q)}
         /\ Head(q) \in T /\ Head(q) \in In(q)
  <1>1. Len(q) \in Nat /\ 1 \in 0 .. Len(q) /\ 1 \in 1 .. Len(q)
    OBVIOUS
  <1>2. Tail(q) = SubSeq(q, 1 + 1, Len(q)) /\ Head(q) = q[1] /\ q[1] \in T
    OBVIOUS
  <1>3. {q[i] : i \in 1 .. 1} = {q[1]}
    OBVIOUS
  <1>4. Head(q) \in In(q)
    BY <1>1, <1>2 DEF In
  <1> QED BY <1>1, <1>2, <1>3, <1>4, DropQueue

(* A queue behind another one. *)
LEMMA ConcatQueue ==
  ASSUME NEW T, NEW q \in Seq(T), NEW r \in Seq(T), Distinct(q), Distinct(r),
         In(q) \cap In(r) = {}
  PROVE  /\ q \o r \in Seq(T)
         /\ Distinct(q \o r) /\ In(q \o r) = In(q) \cup In(r)
  <1> DEFINE s == q \o r
             m == Len(q)
  <1>1. /\ s \in Seq(T) /\ Len(s) = m + Len(r) /\ m \in Nat /\ Len(r) \in Nat
        /\ \A i \in 1 .. Len(s) : s[i] = IF i <= m THEN q[i] ELSE r[i - m]
    OBVIOUS
  <1> HIDE DEF s
  <1>2. ASSUME NEW i \in 1 .. Len(s)
        PROVE  \/ i \in 1 .. m /\ s[i] = q[i] /\ s[i] \in In(q)
               \/ i - m \in 1 .. Len(r) /\ i = (i - m) + m /\ s[i] = r[i - m] /\ s[i] \in In(r)
    <2>1. CASE i <= m
      <3>1. i \in 1 .. m /\ s[i] = q[i]
        BY <1>1, <2>1
      <3> QED BY <3>1 DEF In
    <2>2. CASE ~(i <= m)
      <3>0. i \in Int /\ i - m >= 1 /\ i - m <= Len(r)
        BY <1>1, <2>2
      <3>1. i - m \in 1 .. Len(r) /\ i = (i - m) + m /\ s[i] = r[i - m]
        BY <1>1, <2>2, <3>0
      <3> QED BY <3>1 DEF In
    <2> QED BY <2>1, <2>2
  <1>3. Distinct(s)
    <2> SUFFICES ASSUME NEW i \in 1 .. Len(s), NEW j \in 1 .. Len(s), s[i] = s[j] PROVE i = j
      BY DEF Distinct
    <2>1. CASE s[i] \in In(q)
      <3>1. i \in 1 .. m /\ s[i] = q[i] /\ j \in 1 .. m /\ s[j] = q[j]
        BY <1>2, <2>1
      <3> QED BY <3>1 DEF Distinct
    <2>2. CASE s[i] \notin In(q)
      <3>1. /\ i - m \in 1 .. Len(r) /\ i = (i - m) + m /\ s[i] = r[i - m]
            /\ j - m \in 1 .. Len(r) /\ j = (j - m) + m /\ s[j] = r[j - m]
        BY <1>2, <2>2
      <3>2. i - m = j - m
        BY <3>1 DEF Distinct
      <3> QED BY <3>1, <3>2
    <2> QED BY <2>1, <2>2
  <1>4. In(s) \subseteq In(q) \cup In(r)
    BY <1>2 DEF In
  <1>5. ASSUME NEW x \in In(q) PROVE x \in In(s)
    <2>1. PICK i \in 1 .. m : x = q[i]
      BY DEF In
    <2>2. i \in 1 .. Len(s) /\ s[i] = x
      BY <1>1, <2>1
    <2> QED BY <2>2 DEF In
  <1>6. ASSUME NEW x \in In(r) PROVE x \in In(s)
    <2>1. PICK i \in 1 .. Len(r) : x = r[i]
      BY DEF In
    <2>2. i + m \in 1 .. Len(s) /\ ~(i + m <= m) /\ (i + m) - m = i
      BY <1>1
    <2>3. s[i + m] = x
      BY <1>1, <2>1, <2>2
    <2> QED BY <2>2, <2>3 DEF In
  <1> QED BY <1>1, <1>3, <1>4, <1>5, <1>6 DEF s

(* All of a finite set, in some order. *)
LEMMA OrdersQueue ==
  ASSUME NEW S, IsFiniteSet(S), NEW q \in Snd!Orders(S)
  PROVE  q \in Seq(S) /\ Distinct(q) /\ In(q) = S
  <1> DEFINE n == Cardinality(S)
  <1>1. n \in Nat
    BY FS_CardinalityType
  <1>2. /\ q \in [1 .. n -> S] /\ DOMAIN q = 1 .. n
        /\ \A i, j \in 1 .. n : i # j => q[i] # q[j]
    BY DEF Snd!Orders, Snd!Cardinality, Cardinality
  <1>3. q \in Seq(S) /\ Len(q) = n
    BY <1>1, <1>2, FunctionIsSeq
  <1>4. q \in Injection(1 .. n, S)
    BY <1>2 DEF Injection, IsInjective
  <1>5. Cardinality(1 .. n) = n
    <2>1. 0 \in Int /\ 1 \in Int /\ n \in Int
      BY <1>1
    <2> QED BY <1>1, <2>1, FS_Interval
  <1>6. q \in Surjection(1 .. n, S)
    BY <1>4, <1>5, FS_Injection
  <1>7. In(q) = S
    BY <1>2, <1>3, <1>6 DEF Surjection, In
  <1> QED BY <1>2, <1>3, <1>7 DEF Distinct

-----------------------------------------------------------------------------
(* Every variable has its type. *)
Structure == [type : Type, val : [Field -> Data]]
Kinds == {"None", "Partial", "Full"}

SourceRecord ==
  [up : BOOLEAN, value : Structure \cup {NoValue}, changes : Nat, sess : Nat]

ValueEvents == [kind : {"value"}, of : Structure, fields : SUBSET Field, sess : Nat]
Event == ValueEvents \cup [kind : {"disconnect"}]

ChanRecord ==
  [connected : BOOLEAN, type_id : Nat, update_seq_no : 0 .. SeqMod - 1,
   value : Structure \cup {NoValue}, valid : SUBSET Field, changed_mask : SUBSET Field,
   pending_update : Kinds, sess : Nat, no : Nat]

(* The datagrams a sender makes. *)
Update ==
  [ch : Chan, useq : 0 .. SeqMod - 1, kind : Kinds, tid : Nat, of : Structure,
   bits : SUBSET Field, got : SUBSET Field, sess : Nat, no : Nat]
DataPacket == [kind : {"data"}, startup : Nat, seq : 0 .. SeqMod - 1, upd : Seq(Update)]
TypedefPacket == [kind : {"typedef"}, startup : Nat, start_id : Nat, types : Seq(Type)]
Packet == DataPacket \cup TypedefPacket

(* The structures of the receiver: some of it may be other bytes. *)
Received == [type : Type \cup {NoType}, val : [Field -> Data \cup {Torn}]]
RcvRecord ==
  [last_update_seqno : 0 .. SeqMod - 1, last_value : Received \cup {NoValue},
   disconnected : BOOLEAN]

(* The sources, and the events of the subscriptions.  An index is in the   *)
(* work queue at most once, and only if there are events; a channel        *)
(* without a structure meets a value before it meets a disconnection.      *)
SourceInv ==
  /\ src \in [Chan -> SourceRecord]
  /\ events \in [Chan -> Seq(Event)]
  /\ workqueue \in Seq(Chan) /\ Distinct(workqueue)
  /\ \A c \in In(workqueue) : events[c] # << >>
  /\ \A c \in Chan : src[c].up => src[c].value \in Structure
  /\ \A c \in Chan :
       \/ chan[c].value \in Structure
       \/ events[c] = << >> /\ ~src[c].up
       \/ events[c] # << >> /\ Head(events[c]).kind = "value"

(* The sender: what is queued, and what is connected, has a structure. *)
SenderInv ==
  /\ pc \in {"events", "typedefs", "updates", "aborted"}
  /\ startup \in Nat /\ seq_no \in 0 .. SeqMod - 1 /\ typedef_id \in Nat
  /\ chan \in [Chan -> ChanRecord]
  /\ update_deque \in Seq(Chan)
  /\ typeCache \in Seq(Type)
  /\ \A c \in Chan : chan[c].connected => chan[c].value \in Structure
  /\ \A c \in Chan : chan[c].pending_update # "None" => chan[c].value \in Structure

(* The queue and the marks agree. *)
QueueInv ==
  /\ Distinct(update_deque)
  /\ \A c \in Chan : chan[c].pending_update # "None" <=> c \in In(update_deque)

NetInv == net \in Seq(Packet)

ReceiverInv ==
  /\ last_seq_no \in 0 .. SeqMod - 1
  /\ last_startup_time \in Nat
  /\ rcvTypes \in Seq(Type \cup {NoType})
  /\ rch \in [Chan -> RcvRecord]

TypeInv == SourceInv /\ SenderInv /\ QueueInv /\ NetInv /\ ReceiverInv

(* Sequence numbers; the three modules mean the same. *)
LEMMA Numbers ==
  /\ SeqMod \in Nat /\ SeqMod >= 2 /\ NoSeq \in 0 .. SeqMod - 1
  /\ Rcv!NoSeq = NoSeq
  /\ \A s \in 0 .. SeqMod - 1 : /\ NextSeq(s) \in 0 .. SeqMod - 1
                                /\ Snd!NextSeq(s) = NextSeq(s) /\ Rcv!NextSeq(s) = NextSeq(s)
  <1>1. SeqMod \in Nat /\ SeqMod >= 2
    BY SeqModAssumption
  <1>2. \A s \in 0 .. SeqMod - 1 : (s + 1) % SeqMod \in 0 .. SeqMod - 1
    BY <1>1
  <1>3. NoSeq \in 0 .. SeqMod - 1 /\ Rcv!NoSeq = NoSeq
    BY <1>1 DEF NoSeq, Rcv!NoSeq
  <1> QED BY <1>1, <1>2, <1>3 DEF NextSeq, Snd!NextSeq, Rcv!NextSeq

(* update_seq_no + 1 counts on: without the wrap where the history does so. *)
LEMMA CountIs ==
  \A n \in Nat : /\ Snd!NextCount(n) \in Nat
                 /\ Counted => Snd!NextCount(n) = n + 1
  <1>1. \A n \in Nat : (n + 1) % SeqMod \in Nat
    BY SeqModAssumption
  <1> QED BY <1>1 DEF Snd!NextCount, Snd!NextSeq

(* The initial state. *)
LEMMA TypeInit == Init => TypeInv
  <1> SUFFICES ASSUME Init PROVE TypeInv
    OBVIOUS
  <1> USE Numbers
  <1>e. Distinct(<< >>) /\ In(<< >>) = {} /\ << >> \in Seq(Chan)
    BY DEF Distinct, In
  <1>1. SourceInv
    BY <1>e DEF Init, Snd!SndInit, SourceInv, SourceRecord
  <1>2. Snd!IdleChannel \in ChanRecord
    BY DEF Snd!IdleChannel, ChanRecord, Kinds
  <1>3. SenderInv
    BY <1>2, TypeAssumption DEF Init, Snd!SndInit, SenderInv, Snd!IdleChannel
  <1>4. QueueInv
    BY <1>e DEF Init, Snd!SndInit, QueueInv, Snd!IdleChannel
  <1>5. NetInv
    BY DEF Init, Snd!SndInit, NetInv
  <1>6. ReceiverInv
    <2>1. Builtin \in Seq(Type \cup {NoType})
      BY TypeAssumption, SeqMonotone
    <2> QED BY <2>1 DEF Init, Rcv!RcvInit, ReceiverInv, RcvRecord
  <1> QED BY <1>1, <1>3, <1>4, <1>5, <1>6 DEF TypeInv

(* A value is squashed into the value before it; any other event is a new  *)
(* one at the end.                                                         *)
LEMMA QueuedIs ==
  ASSUME NEW q \in Seq(Event), NEW e \in Event
  PROVE  LET r == Snd!Queued(q, e)
         IN /\ r \in Seq(Event) /\ r # << >>
            /\ q = << >> => Head(r) = e
            /\ q # << >> => Head(r).kind = Head(q).kind
  <1> DEFINE r == Snd!Queued(q, e)
             m == [e EXCEPT !.fields = @ \cup q[Len(q)].fields]
  <1>k. q # << >> => Len(q) \in 1 .. Len(q) /\ Len(q) \in Nat
    OBVIOUS
  <1>1. CASE q # << >> /\ q[Len(q)].kind = "value" /\ e.kind = "value"
    <2>1. r = [q EXCEPT ![Len(q)] = m]
      BY <1>1 DEF Snd!Queued
    <2>2. q[Len(q)] \in ValueEvents /\ e \in ValueEvents
      BY <1>1, <1>k DEF Event
    <2>3. m \in ValueEvents /\ m.kind = "value"
      BY <2>2 DEF ValueEvents
    <2> HIDE DEF m
    <2>4. r \in Seq(Event) /\ Len(r) = Len(q) /\ r[1] = (IF Len(q) = 1 THEN m ELSE q[1])
      BY <1>1, <1>k, <2>1, <2>3 DEF Event
    <2>5. r # << >> /\ Head(r).kind = Head(q).kind
      <3> HIDE DEF r
      <3>1. Len(r) # 0 /\ Head(r) = r[1] /\ Head(q) = q[1]
        BY <1>1, <1>k, <2>4
      <3> QED BY <1>1, <2>3, <2>4, <3>1
    <2> QED BY <1>1, <2>4, <2>5
  <1>2. CASE ~(q # << >> /\ q[Len(q)].kind = "value" /\ e.kind = "value")
    <2>1. r = Append(q, e)
      BY <1>2 DEF Snd!Queued
    <2> HIDE DEF r
    <2>2. /\ r \in Seq(Event) /\ r # << >>
          /\ q = << >> => Head(r) = e
          /\ q # << >> => Head(r) = Head(q)
      BY <2>1
    <2> QED BY <2>2 DEF r
  <1> QED BY <1>1, <1>2

(* A source, and the event that tells of it: a value unless it is down.    *)
LEMMA NotifyStep ==
  ASSUME TypeInv, NEW c \in Chan, NEW e \in Event, NEW s \in SourceRecord,
         src' = [src EXCEPT ![c] = s], Snd!Notify(c, e),
         s.up => e.kind = "value" /\ s.value \in Structure,
         ~s.up => src[c].up
  PROVE  SourceInv'
  <1> DEFINE r == Snd!Queued(events[c], e)
  <1>0. /\ src \in [Chan -> SourceRecord] /\ events \in [Chan -> Seq(Event)]
        /\ workqueue \in Seq(Chan) /\ Distinct(workqueue)
        /\ \A d \in In(workqueue) : events[d] # << >>
        /\ events[c] \in Seq(Event)
    BY DEF TypeInv, SourceInv
  <1>1. /\ r \in Seq(Event) /\ r # << >>
        /\ events[c] = << >> => Head(r) = e
        /\ events[c] # << >> => Head(r).kind = Head(events[c]).kind
    BY <1>0, QueuedIs
  <1> HIDE DEF r
  <1>2. /\ events' = [events EXCEPT ![c] = r]
        /\ workqueue' = IF events[c] = << >> THEN Append(workqueue, c) ELSE workqueue
        /\ chan' = chan
    BY DEF Snd!Notify, Snd!workerVars, r
  <1>3. /\ workqueue' \in Seq(Chan) /\ Distinct(workqueue')
        /\ In(workqueue') \subseteq In(workqueue) \cup {c}
    <2>1. CASE events[c] = << >>
      <3>1. c \notin In(workqueue)
        BY <1>0, <2>1
      <3> QED BY <1>0, <1>2, <2>1, <3>1, AppendQueue
    <2>2. CASE events[c] # << >>
      BY <1>0, <1>2, <2>2
    <2> QED BY <2>1, <2>2
  <1>4. \A d \in In(workqueue') : events'[d] # << >>
    <2> SUFFICES ASSUME NEW d \in In(workqueue') PROVE events'[d] # << >>
      OBVIOUS
    <2>1. d \in Chan
      <3>1. In(workqueue) \subseteq Chan
        BY <1>0 DEF In
      <3> QED BY <1>3, <3>1
    <2> QED BY <1>0, <1>1, <1>2, <1>3, <2>1
  <1>5. /\ src' \in [Chan -> SourceRecord] /\ events' \in [Chan -> Seq(Event)]
    BY <1>0, <1>1, <1>2
  <1>6. ASSUME NEW d \in Chan
        PROVE  /\ src'[d].up => src'[d].value \in Structure
               /\ \/ chan'[d].value \in Structure
                  \/ events'[d] = << >> /\ ~src'[d].up
                  \/ events'[d] # << >> /\ Head(events'[d]).kind = "value"
    <2>0. /\ src[d].up => src[d].value \in Structure
          /\ \/ chan[d].value \in Structure
             \/ events[d] = << >> /\ ~src[d].up
             \/ events[d] # << >> /\ Head(events[d]).kind = "value"
      BY DEF TypeInv, SourceInv
    <2>1. CASE d # c
      BY <1>0, <1>2, <2>0, <2>1
    <2>2. CASE d = c
      <3>1. src'[d] = s /\ events'[d] = r
        BY <1>0, <1>2, <2>2
      <3>2. CASE events[c] = << >>
        BY <1>1, <1>2, <2>0, <2>2, <3>1, <3>2
      <3>3. CASE events[c] # << >>
        BY <1>1, <1>2, <2>0, <2>2, <3>1, <3>3
      <3> QED BY <3>2, <3>3
    <2> QED BY <2>1, <2>2
  <1> QED BY <1>3, <1>4, <1>5, <1>6 DEF SourceInv

(* The events of the sources carry structures of their types. *)
LEMMA TypeSource == TypeInv /\ Source => TypeInv'
  <1> SUFFICES ASSUME TypeInv, Source PROVE TypeInv'
    OBVIOUS
  <1>0. /\ src \in [Chan -> SourceRecord]
        /\ \A c \in Chan : src[c].up => src[c].value \in Structure
    BY DEF TypeInv, SourceInv
  <1>k. UNCHANGED <<Snd!workerVars, rcvState>> => SenderInv' /\ QueueInv' /\ NetInv' /\ ReceiverInv'
    BY DEF TypeInv, SenderInv, QueueInv, NetInv, ReceiverInv, Snd!workerVars, rcvState
  <1>1. ASSUME NEW c \in Chan, Snd!SourceConnects(c) PROVE TypeInv'
    <2> DEFINE n == src[c].changes + 1
    <2>1. PICK t \in TypesOf[c], fields \in FirstMarked :
            LET s == [up |-> TRUE, changes |-> n, sess |-> src[c].sess + 1,
                      value |-> Snd!Struct(t, [f \in Field |-> IF f \in fields THEN n
                                                               ELSE Default])]
            IN /\ ~src[c].up /\ n <= MaxChange[c]
               /\ src' = [src EXCEPT ![c] = s]
               /\ Snd!Notify(c, Snd!ValueEvent(s, fields))
      BY <1>1 DEF Snd!SourceConnects
    <2> DEFINE v == [f \in Field |-> IF f \in fields THEN n ELSE Default]
               s == [up |-> TRUE, changes |-> n, sess |-> src[c].sess + 1,
                     value |-> Snd!Struct(t, v)]
               e == Snd!ValueEvent(s, fields)
    <2>2. src[c].changes \in Nat /\ src[c].sess \in Nat /\ n \in Nat
      BY <1>0 DEF SourceRecord
    <2>3. n \in Data /\ Default \in Data
      BY <2>1, <2>2, SourceAssumption, FieldAssumption
    <2>4. t \in Type /\ fields \in SUBSET Field
      BY SourceAssumption
    <2>5. v \in [Field -> Data]
      BY <2>3
    <2> HIDE DEF v, n
    <2>6. s \in SourceRecord /\ s.up /\ s.value \in Structure
      BY <2>2, <2>4, <2>5 DEF SourceRecord, Structure, Snd!Struct
    <2>7. e \in Event /\ e.kind = "value"
      BY <2>2, <2>4, <2>6 DEF Event, ValueEvents, Snd!ValueEvent
    <2>8. src' = [src EXCEPT ![c] = s] /\ Snd!Notify(c, e)
      BY <2>1 DEF v, n
    <2> HIDE DEF s, e
    <2>9. SourceInv'
      BY <2>6, <2>7, <2>8, NotifyStep
    <2> QED BY <1>k, <2>8, <2>9 DEF TypeInv, Source, Snd!Notify
  <1>2. ASSUME NEW c \in Chan, Snd!SourceDisconnects(c) PROVE TypeInv'
    <2> DEFINE s == [src[c] EXCEPT !.up = FALSE]
    <2>1. /\ src[c].up /\ src' = [src EXCEPT ![c] = s]
          /\ Snd!Notify(c, Snd!DisconnectEvent)
      BY <1>0, <1>2 DEF Snd!SourceDisconnects
    <2>2. s \in SourceRecord /\ ~s.up
      BY <1>0 DEF SourceRecord
    <2>3. Snd!DisconnectEvent \in Event
      BY DEF Snd!DisconnectEvent, Event
    <2> HIDE DEF s
    <2>4. SourceInv'
      BY <2>1, <2>2, <2>3, NotifyStep
    <2> QED BY <1>k, <2>1, <2>4 DEF TypeInv, Source, Snd!Notify
  <1>3. ASSUME NEW c \in Chan, NEW fields \in SUBSET Field, Snd!SourceChanges(c, fields)
        PROVE  TypeInv'
    <2> DEFINE n == src[c].changes + 1
               old == src[c].value.val
               v == [f \in Field |-> IF f \in fields THEN n ELSE old[f]]
               s == [src[c] EXCEPT !.changes = n, !.value.val = v]
               e == Snd!ValueEvent(s, fields)
    <2>1. /\ src[c].up /\ n <= MaxChange[c]
          /\ src' = [src EXCEPT ![c] = s] /\ Snd!Notify(c, e)
      BY <1>3 DEF Snd!SourceChanges
    <2>2. src[c] \in SourceRecord /\ src[c].value \in Structure
      BY <1>0, <2>1
    <2>3. n \in Nat /\ n \in Data /\ old \in [Field -> Data]
      BY <2>1, <2>2, SourceAssumption DEF SourceRecord, Structure
    <2>4. v \in [Field -> Data]
      <3> HIDE DEF n, old
      <3> QED BY <2>3
    <2> HIDE DEF v, n
    <2>5. s \in SourceRecord /\ s.up /\ s.value \in Structure
      BY <2>1, <2>2, <2>3, <2>4 DEF SourceRecord, Structure
    <2>6. e \in Event /\ e.kind = "value"
      BY <2>5 DEF Event, ValueEvents, Snd!ValueEvent, SourceRecord
    <2> HIDE DEF s, e
    <2>7. SourceInv'
      BY <2>1, <2>5, <2>6, NotifyStep
    <2> QED BY <1>k, <2>1, <2>7 DEF TypeInv, Source, Snd!Notify
  <1> QED BY <1>1, <1>2, <1>3 DEF Source, Snd!Source

(* mark_update: the update that is pending becomes a full one if that was  *)
(* asked for, and then has all valid fields.                               *)
LEMMA MarkIs ==
  ASSUME NEW ch \in ChanRecord, NEW kind \in {"Partial", "Full"}
  PROVE  LET r == Snd!mark_update(ch, kind)
         IN /\ r \in ChanRecord /\ r.pending_update # "None"
            /\ r.value = ch.value /\ r.valid = ch.valid /\ r.connected = ch.connected
            /\ r.type_id = ch.type_id
            /\ r.pending_update = "Full" <=> kind = "Full" \/ ch.pending_update = "Full"
            /\ r.changed_mask = IF kind = "Full" /\ ch.pending_update # "Full"
                                THEN ch.valid ELSE ch.changed_mask
  <1> DEFINE r == Snd!mark_update(ch, kind)
             m == [ch EXCEPT !.pending_update = kind,
                     !.changed_mask = IF kind = "Full" THEN Snd!valid_to_mask(ch) ELSE @]
  <1>1. /\ ch.pending_update \in Kinds /\ ch.valid \in SUBSET Field
        /\ ch.changed_mask \in SUBSET Field
    BY DEF ChanRecord
  <1>2. CASE ch.pending_update = "None" \/ (kind = "Full" /\ ch.pending_update # "Full")
    <2>1. r = m
      BY <1>2 DEF Snd!mark_update
    <2>2. /\ m \in ChanRecord /\ m.pending_update = kind
          /\ m.value = ch.value /\ m.valid = ch.valid /\ m.connected = ch.connected
          /\ m.type_id = ch.type_id
          /\ m.changed_mask = IF kind = "Full" THEN ch.valid ELSE ch.changed_mask
      BY <1>1 DEF ChanRecord, Kinds, Snd!valid_to_mask
    <2> HIDE DEF m
    <2> QED BY <1>2, <2>1, <2>2
  <1>3. CASE ~(ch.pending_update = "None" \/ (kind = "Full" /\ ch.pending_update # "Full"))
    <2>1. r = ch
      BY <1>3 DEF Snd!mark_update
    <2> HIDE DEF r
    <2>2. ch.pending_update # "None" /\ ~(kind = "Full" /\ ch.pending_update # "Full")
      BY <1>3
    <2> QED BY <2>1, <2>2 DEF r
  <1> QED BY <1>2, <1>3

(* One channel is marked: it is queued if it was not.                      *)
LEMMA QueueMark ==
  ASSUME SenderInv, QueueInv, NEW c \in Chan, NEW ch \in ChanRecord,
         NEW kind \in {"Partial", "Full"},
         ch.value \in Structure, ch.pending_update = chan[c].pending_update,
         chan' = [chan EXCEPT ![c] = Snd!mark_update(ch, kind)],
         update_deque' = Snd!Enqueue(ch, update_deque, c)
  PROVE  /\ chan' \in [Chan -> ChanRecord] /\ update_deque' \in Seq(Chan) /\ QueueInv'
         /\ \A d \in Chan : chan'[d].connected => chan'[d].value \in Structure
         /\ \A d \in Chan : chan'[d].pending_update # "None" => chan'[d].value \in Structure
  <1> DEFINE r == Snd!mark_update(ch, kind)
  <1>1. r \in ChanRecord /\ r.pending_update # "None" /\ r.value = ch.value
    BY MarkIs
  <1>2. /\ chan \in [Chan -> ChanRecord] /\ update_deque \in Seq(Chan)
        /\ Distinct(update_deque)
        /\ \A d \in Chan : chan[d].pending_update # "None" <=> d \in In(update_deque)
        /\ \A d \in Chan : chan[d].connected => chan[d].value \in Structure
        /\ \A d \in Chan : chan[d].pending_update # "None" => chan[d].value \in Structure
    BY DEF SenderInv, QueueInv
  <1> HIDE DEF r
  <1>3. /\ chan' \in [Chan -> ChanRecord] /\ chan'[c] = r
        /\ \A d \in Chan : d # c => chan'[d] = chan[d]
    BY <1>1, <1>2 DEF r
  <1>4. /\ update_deque' \in Seq(Chan) /\ Distinct(update_deque')
        /\ In(update_deque') = In(update_deque) \cup {c}
    <2>1. CASE ch.pending_update = "None"
      <3>1. c \notin In(update_deque) /\ update_deque' = Append(update_deque, c)
        BY <1>2, <2>1 DEF Snd!Enqueue
      <3> QED BY <1>2, <3>1, AppendQueue
    <2>2. CASE ch.pending_update # "None"
      <3>1. c \in In(update_deque) /\ update_deque' = update_deque
        BY <1>2, <2>2 DEF Snd!Enqueue
      <3> QED BY <1>2, <3>1
    <2> QED BY <2>1, <2>2
  <1>5. QueueInv'
    BY <1>1, <1>2, <1>3, <1>4 DEF QueueInv
  <1> QED BY <1>1, <1>2, <1>3, <1>4, <1>5

(* The next event of the work queue: there is one, and a channel without a *)
(* structure finds a value.                                                *)
LEMMA PopIs ==
  ASSUME TypeInv, NEW c \in Chan, Snd!PopEvent(c)
  PROVE  /\ events[c] # << >> /\ Head(events[c]) \in Event
         /\ events[c] \in Seq(Event)
         /\ Head(events[c]).kind = "disconnect" => chan[c].value \in Structure
  <1>1. c \in In(workqueue)
    BY TailQueue DEF TypeInv, SourceInv, Snd!PopEvent
  <1>2. events[c] # << >> /\ events[c] \in Seq(Event)
    BY <1>1 DEF TypeInv, SourceInv
  <1>3. Head(events[c]) \in Event
    BY <1>2
  <1> QED BY <1>2, <1>3 DEF TypeInv, SourceInv

(* Whatever the event, the channel has a structure after it. *)
LEMMA PopStep ==
  ASSUME TypeInv, NEW c \in Chan, Snd!PopEvent(c),
         chan'[c].value \in Structure, \A d \in Chan : d # c => chan'[d] = chan[d]
  PROVE  SourceInv'
  <1>0. /\ src \in [Chan -> SourceRecord] /\ events \in [Chan -> Seq(Event)]
        /\ workqueue \in Seq(Chan) /\ Distinct(workqueue)
        /\ \A d \in In(workqueue) : events[d] # << >>
    BY DEF TypeInv, SourceInv
  <1>1. /\ workqueue # << >> /\ c = Head(workqueue)
        /\ events' = [events EXCEPT ![c] = Tail(events[c])]
        /\ workqueue' = IF Len(events[c]) = 1 THEN Tail(workqueue) ELSE workqueue
        /\ src' = src
    BY <1>0 DEF Snd!PopEvent
  <1>2. events[c] \in Seq(Event) /\ events[c] # << >>
    BY PopIs
  <1>3. /\ Tail(events[c]) \in Seq(Event)
        /\ Len(events[c]) # 1 => Tail(events[c]) # << >>
    <2>1. ASSUME NEW q \in Seq(Event), q # << >>
          PROVE  Tail(q) \in Seq(Event) /\ (Len(q) # 1 => Tail(q) # << >>)
      <3>1. Tail(q) \in Seq(Event) /\ Len(Tail(q)) = Len(q) - 1 /\ Len(q) \in Nat
        BY <2>1
      <3>2. Len(<< >>) = 0
        OBVIOUS
      <3>3. Len(q) # 1 => Len(Tail(q)) # 0
        BY <3>1
      <3> QED BY <3>1, <3>2, <3>3, Zenon
    <2> QED BY <1>2, <2>1
  <1>4. events' \in [Chan -> Seq(Event)]
    BY <1>0, <1>1, <1>3
  <1>5. /\ workqueue' \in Seq(Chan) /\ Distinct(workqueue')
        /\ In(workqueue') \subseteq In(workqueue)
        /\ Len(events[c]) = 1 => c \notin In(workqueue')
    BY <1>0, <1>1, TailQueue
  <1>6. \A d \in In(workqueue') : events'[d] # << >>
    <2> SUFFICES ASSUME NEW d \in In(workqueue') PROVE events'[d] # << >>
      OBVIOUS
    <2>1. In(workqueue) \subseteq Chan
      BY <1>0 DEF In
    <2>2. d \in Chan /\ events[d] # << >>
      BY <1>0, <1>5, <2>1
    <2>3. CASE d = c
      BY <1>0, <1>1, <1>3, <1>5, <2>3
    <2>4. CASE d # c
      BY <1>0, <1>1, <2>2, <2>4
    <2> QED BY <2>3, <2>4
  <1>7. ASSUME NEW d \in Chan
        PROVE  \/ chan'[d].value \in Structure
               \/ events'[d] = << >> /\ ~src'[d].up
               \/ events'[d] # << >> /\ Head(events'[d]).kind = "value"
    <2>1. CASE d = c
      BY <2>1
    <2>2. CASE d # c
      <3>1. events'[d] = events[d] /\ chan'[d] = chan[d] /\ src'[d] = src[d]
        BY <1>0, <1>1, <2>2
      <3> QED BY <3>1 DEF TypeInv, SourceInv
    <2> QED BY <2>1, <2>2
  <1>8. \A d \in Chan : src'[d].up => src'[d].value \in Structure
    BY <1>1 DEF TypeInv, SourceInv
  <1> QED BY <1>0, <1>1, <1>4, <1>5, <1>6, <1>7, <1>8 DEF SourceInv

(* cacheType: the cache grows at its end, if at all. *)
LEMMA CacheIs ==
  ASSUME NEW cache \in Seq(Type), NEW t \in Type
  PROVE  LET new == Snd!cacheType(cache, t)
         IN /\ new \in Seq(Type) /\ Snd!TypeId(cache, t) \in Nat
            /\ Len(cache) <= Len(new)
            /\ \A i \in 1 .. Len(cache) : new[i] = cache[i]
  <1> DEFINE at == Snd!CachedAt(cache, t)
             first(i) == i + 1 \in at /\ \A j \in at : i < j
  <1>1. /\ Snd!cacheType(cache, t) \in Seq(Type)
        /\ Len(cache) <= Len(Snd!cacheType(cache, t))
        /\ \A i \in 1 .. Len(cache) : Snd!cacheType(cache, t)[i] = cache[i]
    BY DEF Snd!cacheType
  <1>2. Snd!TypeId(cache, t) \in Nat
    <2>1. CASE at = {}
      BY <2>1 DEF Snd!TypeId
    <2>2. CASE at # {}
      <3>1. at \subseteq Nat /\ at \subseteq 1 .. Len(cache)
        BY DEF Snd!CachedAt
      <3>2. \E m \in at : \A j \in at : m <= j
        BY <2>2, <3>1, LeastElement
      <3>3. PICK m \in at : \A j \in at : m <= j
        BY <3>2
      <3>4. m - 1 \in 0 .. Len(cache) - 1 /\ (m - 1) + 1 = m /\ \A j \in at : m - 1 < j
        BY <3>1, <3>3
      <3>5. \E i \in 0 .. Len(cache) - 1 : first(i)
        BY <3>3, <3>4
      <3>6. Snd!TypeId(cache, t) = CHOOSE i \in 0 .. Len(cache) - 1 : first(i)
        BY <2>2 DEF Snd!TypeId
      <3> HIDE DEF first
      <3>7. Snd!TypeId(cache, t) \in 0 .. Len(cache) - 1
        BY <3>5, <3>6
      <3> QED BY <3>7
    <2> QED BY <2>1, <2>2
  <1> QED BY <1>1, <1>2

(* Types: an event of a source is handled (FirstValue, NextValue,          *)
(* Disconnection).                                                         *)
LEMMA TypeEvent ==
  ASSUME TypeInv, NEW c \in Chan, UNCHANGED <<rcvState, faults>>,
         Snd!FirstValue(c) \/ Snd!NextValue(c) \/ Snd!Disconnection(c)
  PROVE  TypeInv'
  <1> USE Numbers
  <1>p. Snd!PopEvent(c)
    BY DEF Snd!FirstValue, Snd!NextValue, Snd!Disconnection
  <1>u. UNCHANGED <<startup, pc, seq_no, typedef_id, net>>
    BY <1>p DEF Snd!PopEvent
  <1>e. /\ Head(events[c]) \in Event
        /\ Head(events[c]).kind = "disconnect" => chan[c].value \in Structure
    BY <1>p, PopIs
  <1>c. /\ chan \in [Chan -> ChanRecord] /\ chan[c] \in ChanRecord /\ typeCache \in Seq(Type)
        /\ SenderInv /\ QueueInv
    BY DEF TypeInv, SenderInv
  <1>r. NetInv' /\ ReceiverInv'
    BY <1>u DEF TypeInv, NetInv, ReceiverInv, rcvState
  (* What the three have in common. *)
  <1>m. ASSUME NEW ch \in ChanRecord, NEW kind \in {"Partial", "Full"},
               ch.value \in Structure, ch.pending_update = chan[c].pending_update,
               chan' = [chan EXCEPT ![c] = Snd!mark_update(ch, kind)],
               update_deque' = Snd!Enqueue(ch, update_deque, c),
               typeCache' \in Seq(Type)
        PROVE  TypeInv'
    <2>1. /\ chan' \in [Chan -> ChanRecord] /\ update_deque' \in Seq(Chan) /\ QueueInv'
          /\ \A d \in Chan : chan'[d].connected => chan'[d].value \in Structure
          /\ \A d \in Chan : chan'[d].pending_update # "None" => chan'[d].value \in Structure
      BY <1>c, <1>m, QueueMark
    <2>2. SenderInv'
      BY <1>c, <1>u, <1>m, <2>1 DEF SenderInv
    <2>3. chan'[c].value \in Structure /\ \A d \in Chan : d # c => chan'[d] = chan[d]
      <3>1. chan'[c] = Snd!mark_update(ch, kind)
        BY <1>c, <1>m
      <3> QED BY <1>c, <1>m, <3>1, MarkIs
    <2>4. SourceInv'
      BY <1>p, <2>3, PopStep
    <2> QED BY <1>r, <2>1, <2>2, <2>4 DEF TypeInv
  <1>1. CASE Snd!FirstValue(c)
    <2> DEFINE e == Head(events[c])
               ch == Snd!Connected(chan[c], e)
    <2>1. /\ e.kind = "value" /\ typeCache' = Snd!cacheType(typeCache, e.of.type)
          /\ chan' = [chan EXCEPT ![c] = Snd!mark_update(ch, "Full")]
          /\ update_deque' = Snd!Enqueue(ch, update_deque, c)
      BY <1>1 DEF Snd!FirstValue
    <2>2. /\ e.of \in Structure /\ e.of.type \in Type /\ e.fields \in SUBSET Field
          /\ e.sess \in Nat
      BY <1>e, <2>1 DEF Event, ValueEvents, Structure
    <2>3. typeCache' \in Seq(Type) /\ Snd!TypeId(typeCache, e.of.type) \in Nat
      BY <1>c, <2>1, <2>2, CacheIs
    <2> HIDE DEF e
    <2>4. ch \in ChanRecord /\ ch.value \in Structure
          /\ ch.pending_update = chan[c].pending_update
      <3> DEFINE tid == Snd!TypeId(typeCache, e.of.type)
      <3>1. ch = [chan[c] EXCEPT !.connected = TRUE, !.value = e.of, !.valid = e.fields,
                                 !.type_id = tid, !.update_seq_no = 0, !.sess = e.sess,
                                 !.no = 0]
        BY DEF Snd!Connected
      <3>2. tid \in Nat /\ 0 \in 0 .. SeqMod - 1
        BY <2>3
      <3> HIDE DEF tid, ch
      <3> QED BY <1>c, <2>2, <3>1, <3>2 DEF ChanRecord
    <2> HIDE DEF ch
    <2> QED BY <1>m, <2>1, <2>3, <2>4
  <1>2. CASE Snd!NextValue(c)
    <2> DEFINE e == Head(events[c])
               v == [f \in Field |-> IF f \in e.fields THEN e.of.val[f] ELSE chan[c].value.val[f]]
               ch == Snd!merge(chan[c], e)
    <2>1. /\ e.kind = "value" /\ chan[c].connected
          /\ chan' = [chan EXCEPT ![c] = Snd!mark_update(ch, "Partial")]
          /\ update_deque' = Snd!Enqueue(ch, update_deque, c)
          /\ typeCache' = typeCache
      BY <1>2 DEF Snd!NextValue
    <2>2. /\ e.of \in Structure /\ e.fields \in SUBSET Field
          /\ e.of.val \in [Field -> Data]
      BY <1>e, <2>1 DEF Event, ValueEvents, Structure
    <2>3. chan[c].value \in Structure /\ chan[c].value.val \in [Field -> Data]
      BY <1>c, <2>1 DEF SenderInv, Structure
    <2>4. v \in [Field -> Data]
      <3> HIDE DEF e
      <3> QED BY <2>2, <2>3
    <2>5. ch = [chan[c] EXCEPT !.value.val = v, !.changed_mask = @ \cup e.fields]
      BY DEF Snd!merge
    <2> HIDE DEF e, v, ch
    <2>6. ch \in ChanRecord /\ ch.value \in Structure
          /\ ch.pending_update = chan[c].pending_update
      BY <1>c, <2>2, <2>3, <2>4, <2>5 DEF ChanRecord, Structure
    <2> QED BY <1>c, <1>m, <2>1, <2>6
  <1>3. CASE Snd!Disconnection(c)
    <2> DEFINE ch == [chan[c] EXCEPT !.connected = FALSE]
    <2>1. /\ chan' = [chan EXCEPT ![c] = Snd!mark_update(ch, "Partial")]
          /\ update_deque' = Snd!Enqueue(ch, update_deque, c)
          /\ typeCache' = typeCache
          /\ chan[c].value \in Structure
      BY <1>3, <1>e DEF Snd!Disconnection
    <2>2. ch \in ChanRecord /\ ch.value \in Structure
          /\ ch.pending_update = chan[c].pending_update
      BY <1>c, <2>1 DEF ChanRecord
    <2> HIDE DEF ch
    <2> QED BY <1>c, <1>m, <2>1, <2>2
  <1> QED BY <1>1, <1>2, <1>3

(* How many numbers of 1..n are in a set. *)
LEMMA CountUpTo ==
  ASSUME NEW n \in Nat, NEW S \in SUBSET (1 .. n)
  PROVE  Snd!Cardinality(S) \in 0 .. n
  <1>1. IsFiniteSet(1 .. n) /\ Cardinality(1 .. n) = n
    BY FS_Interval
  <1>2. IsFiniteSet(S) /\ Cardinality(S) <= n
    BY <1>1, FS_Subset
  <1>3. Cardinality(S) \in Nat
    BY <1>2, FS_CardinalityType
  <1>4. Snd!Cardinality(S) = Cardinality(S)
    BY DEF Snd!Cardinality, Cardinality
  <1> QED BY <1>2, <1>3, <1>4

(* The updates that go into a message are the first ones of the queue, and *)
(* each is of a channel that has a structure.                              *)
LEMMA PackedIs ==
  ASSUME SenderInv, QueueInv
  PROVE  LET n == Snd!PackedCount
         IN /\ n \in 0 .. Len(update_deque) /\ n \in Nat
            /\ \A i \in 1 .. n : /\ i \in 1 .. Len(update_deque)
                                 /\ update_deque[i] \in Chan
                                 /\ Snd!Entry(i) \in Update
            /\ [i \in 1 .. n |-> Snd!Entry(i)] \in Seq(Update)
  <1> DEFINE n == Snd!PackedCount
  <1>1. n \in 0 .. Len(update_deque) /\ n \in Nat
    <2>1. Len(update_deque) \in Nat
      BY DEF SenderInv
    <2>2. {i \in 1 .. Len(update_deque) : Snd!RoomAfter[i] >= 0} \in SUBSET (1 .. Len(update_deque))
      OBVIOUS
    <2> QED BY <2>1, <2>2, CountUpTo DEF Snd!PackedCount
  <1> HIDE DEF n
  <1>2. ASSUME NEW i \in 1 .. n
        PROVE  /\ i \in 1 .. Len(update_deque) /\ update_deque[i] \in Chan
               /\ Snd!Entry(i) \in Update
    <2> DEFINE c == update_deque[i]
               ch == chan[c]
               r == Snd!RoomAfter[i - 1] - Snd!ChannelDataBytes(ch.pending_update)
               got == Snd!FieldsWritten(Snd!BitsOf(ch), r)
               bits == Snd!MaskRead(Snd!BitsOf(ch), r)
    <2>1. i \in 1 .. Len(update_deque) /\ c \in Chan
      BY <1>1 DEF SenderInv
    <2>2. c \in In(update_deque)
      BY <2>1 DEF In
    <2>3. ch \in ChanRecord /\ ch.value \in Structure
      BY <2>1, <2>2 DEF SenderInv, QueueInv
    <2>4. Snd!BitsOf(ch) \in SUBSET Field
      BY <2>3 DEF Snd!BitsOf, ChanRecord
    <2> HIDE DEF ch, r
    <2>5. got \in SUBSET Field /\ bits \in SUBSET Field
      BY <2>4 DEF Snd!FieldsWritten, Snd!MaskRead
    <2> HIDE DEF got, bits
    <2>6. Snd!Entry(i) = [ch |-> c, useq |-> ch.update_seq_no, kind |-> ch.pending_update,
                          tid |-> ch.type_id, of |-> ch.value, bits |-> bits, got |-> got,
                          sess |-> ch.sess, no |-> ch.no]
      BY DEF Snd!Entry, Snd!ChannelData, ch, r, got, bits
    <2>7. Snd!Entry(i) \in Update
      BY <2>1, <2>3, <2>5, <2>6 DEF Update, ChanRecord
    <2> QED BY <2>1, <2>7
  <1>3. [i \in 1 .. n |-> Snd!Entry(i)] \in Seq(Update)
    <2>1. [i \in 1 .. n |-> Snd!Entry(i)] \in [1 .. n -> Update]
      BY <1>2
    <2> QED BY <1>1, <2>1, FunctionIsSeq
  <1> QED BY <1>1, <1>2, <1>3 DEF n

(* A step that leaves the sources and all structures alone. *)
LEMMA SourceKept ==
  ASSUME SourceInv, UNCHANGED <<src, events, workqueue>>,
         \A c \in Chan : chan'[c].value = chan[c].value
  PROVE  SourceInv'
  BY DEF SourceInv

(* Types: send_updates. *)
LEMMA TypeSendMessage ==
  ASSUME TypeInv, Snd!SendMessage, UNCHANGED <<rcvState, faults>>
  PROVE  TypeInv'
  <1> USE Numbers
  <1> DEFINE n == Snd!PackedCount
             upd == [i \in 1 .. n |-> Snd!Entry(i)]
             packed == {update_deque[i] : i \in 1 .. n}
  <1>1. /\ n \in 0 .. Len(update_deque) /\ n \in Nat /\ upd \in Seq(Update)
    BY PackedIs DEF TypeInv
  <1>r. ReceiverInv'
    BY DEF TypeInv, ReceiverInv, rcvState
  <1>u. /\ UNCHANGED <<src, events, workqueue, startup, typeCache, typedef_id>>
        /\ seq_no < SeqLimit
    BY DEF Snd!SendMessage, Snd!sourceVars
  <1>c. /\ chan \in [Chan -> ChanRecord] /\ seq_no \in 0 .. SeqMod - 1 /\ startup \in Nat
        /\ update_deque \in Seq(Chan) /\ Distinct(update_deque) /\ net \in Seq(Packet)
        /\ \A c \in Chan : chan[c].pending_update # "None" <=> c \in In(update_deque)
    BY DEF TypeInv, SenderInv, QueueInv, NetInv
  <1>2. CASE pc' = "aborted" /\ UNCHANGED <<net, seq_no, chan, update_deque, sent>>
    <2>1. SourceInv'
      BY <1>u, <1>2, SourceKept DEF TypeInv
    <2> QED BY <1>r, <1>u, <1>2, <2>1 DEF TypeInv, SenderInv, QueueInv, NetInv
  <1>3. CASE /\ Snd!Send(Snd!PVADataMsg(startup, seq_no, upd))
             /\ seq_no' = Snd!NextSeq(seq_no)
             /\ chan' = [c \in Chan |->
                  IF c \in packed
                  THEN Snd!clear_update([chan[c] EXCEPT
                         !.update_seq_no = Snd!NextSeq(chan[c].update_seq_no),
                         !.no = Snd!NextCount(chan[c].no)])
                  ELSE chan[c]]
             /\ update_deque' = SubSeq(update_deque, n + 1, Len(update_deque))
             /\ pc' = pc
    <2> HIDE DEF upd, n
    <2>1. net' \in Seq(Packet)
      <3>1. Snd!PVADataMsg(startup, seq_no, upd) \in Packet
        BY <1>1, <1>c DEF Packet, DataPacket, Snd!PVADataMsg
      <3>2. net' = Append(net, Snd!PVADataMsg(startup, seq_no, upd))
        BY <1>3 DEF Snd!Send
      <3> HIDE DEF Packet
      <3> QED BY <1>c, <3>1, <3>2
    <2> DEFINE cleared(c) == [chan[c] EXCEPT
                  !.update_seq_no = Snd!NextSeq(chan[c].update_seq_no),
                  !.no = Snd!NextCount(chan[c].no), !.changed_mask = {}, !.pending_update = "None"]
    <2>2. \A c \in Chan : chan'[c] = IF c \in packed THEN cleared(c) ELSE chan[c]
      BY <1>3, <1>c DEF Snd!clear_update, ChanRecord
    <2>3. \A c \in Chan :
            /\ cleared(c) \in ChanRecord /\ cleared(c).pending_update = "None"
            /\ cleared(c).value = chan[c].value /\ cleared(c).connected = chan[c].connected
      BY <1>c, CountIs DEF ChanRecord, Kinds
    <2> HIDE DEF cleared, packed
    <2>4. /\ chan' \in [Chan -> ChanRecord]
          /\ \A c \in Chan : /\ chan'[c].value = chan[c].value
                             /\ chan'[c].connected = chan[c].connected
                             /\ chan'[c].pending_update =
                                  IF c \in packed THEN "None" ELSE chan[c].pending_update
      <3>1. chan' = [c \in Chan |-> chan'[c]]
        BY <1>3
      <3> QED BY <1>c, <2>2, <2>3, <3>1
    <2>5. /\ update_deque' \in Seq(Chan) /\ Distinct(update_deque')
          /\ In(update_deque') = In(update_deque) \ packed
      BY <1>1, <1>3, <1>c, DropQueue DEF packed
    <2>6. QueueInv'
      BY <1>c, <2>4, <2>5 DEF QueueInv
    <2>7. SenderInv'
      BY <1>3, <1>c, <1>u, <2>4, <2>5 DEF TypeInv, SenderInv
    <2>8. SourceInv'
      BY <1>u, <2>4, SourceKept DEF TypeInv
    <2> QED BY <1>r, <2>1, <2>6, <2>7, <2>8 DEF TypeInv, NetInv
  <1> QED BY <1>2, <1>3 DEF Snd!SendMessage

(* send_typedef_updates: a message has definitions that follow one another *)
(* in the cache.                                                           *)
LEMMA TypedefsIs ==
  ASSUME SenderInv, typedef_id < Len(typeCache)
  PROVE  LET n == Snd!TypesFitting(typedef_id)
             types == Snd!TypesFrom(typedef_id, n)
         IN /\ n \in Nat /\ typedef_id + n <= Len(typeCache)
            /\ types \in Seq(Type) /\ Len(types) = n
            /\ \A k \in 1 .. n : /\ typedef_id + k \in 1 .. Len(typeCache)
                                 /\ types[k] = typeCache[typedef_id + k]
  <1> DEFINE m == Len(typeCache) - typedef_id
             n == Snd!TypesFitting(typedef_id)
  <1>1. Len(typeCache) \in Nat /\ typedef_id \in Nat /\ m \in Nat /\ typeCache \in Seq(Type)
    BY DEF SenderInv
  <1>2. {k \in 1 .. m : Snd!SumBytes(typedef_id, k) <= Snd!TypeDefRoom} \in SUBSET (1 .. m)
    OBVIOUS
  <1>3. n \in 0 .. m
    BY <1>1, <1>2, CountUpTo DEF Snd!TypesFitting
  <1> HIDE DEF n
  <1>4. n \in Nat /\ typedef_id + n \in Nat /\ typedef_id + n <= Len(typeCache)
        /\ \A k \in 1 .. n : typedef_id + k \in 1 .. Len(typeCache)
    BY <1>1, <1>3
  <1>5. /\ SubSeq(typeCache, typedef_id + 1, typedef_id + n) \in Seq(Type)
        /\ Len(SubSeq(typeCache, typedef_id + 1, typedef_id + n)) = n
        /\ \A k \in 1 .. n :
             SubSeq(typeCache, typedef_id + 1, typedef_id + n)[k] = typeCache[typedef_id + k]
    <2> DEFINE f == [k \in 1 .. n |-> typeCache[typedef_id + k]]
    <2>1. f \in [1 .. n -> Type]
      BY <1>1, <1>4
    <2>2. f \in Seq(Type) /\ Len(f) = n /\ \A k \in 1 .. n : f[k] = typeCache[typedef_id + k]
      BY <1>4, <2>1, FunctionIsSeq
    <2>3. SubSeq(typeCache, typedef_id + 1, typedef_id + n) = f
      BY <1>1, <1>4
    <2> HIDE DEF f
    <2> QED BY <2>2, <2>3
  <1> QED BY <1>4, <1>5 DEF Snd!TypesFrom, n

(* Types: the end of the events, the definitions, the end of the updates.  *)
LEMMA TypeLoop ==
  ASSUME TypeInv, UNCHANGED <<rcvState, faults>>,
         Snd!EventsDone \/ Snd!SendTypedefs \/ Snd!UpdatesDone
  PROVE  TypeInv'
  <1>r. ReceiverInv'
    BY DEF TypeInv, ReceiverInv, rcvState
  <1>1. CASE Snd!EventsDone
    <2>1. UNCHANGED <<src, events, workqueue, startup, seq_no, chan, update_deque, typeCache, net>>
          /\ pc' \in {"typedefs", "updates"} /\ typedef_id' = Snd!BuildinCacheSize
      BY <1>1, Zenon DEF Snd!EventsDone, Snd!sourceVars
    <2>2. typedef_id' \in Nat
      BY <2>1, TypeAssumption DEF Snd!BuildinCacheSize
    <2> QED BY <1>r, <2>1, <2>2 DEF TypeInv, SourceInv, SenderInv, QueueInv, NetInv
  <1>2. CASE Snd!SendTypedefs
    <2> DEFINE n == Snd!TypesFitting(typedef_id)
               types == Snd!TypesFrom(typedef_id, n)
               pkt == Snd!PVATypeDefMsg(startup, typedef_id, types)
    <2>1. /\ UNCHANGED <<src, events, workqueue, startup, pc, seq_no, chan, update_deque,
                         typeCache>>
          /\ typedef_id < Len(typeCache)
          /\ net' = Append(net, pkt) /\ typedef_id' = typedef_id + n
      BY <1>2 DEF Snd!SendTypedefs, Snd!sourceVars, Snd!Send
    <2>2. n \in Nat /\ types \in Seq(Type)
      BY <2>1, TypedefsIs DEF TypeInv
    <2> HIDE DEF n, types
    <2>3. pkt \in Packet
      BY <2>2 DEF Packet, TypedefPacket, Snd!PVATypeDefMsg, TypeInv, SenderInv
    <2> HIDE DEF pkt
    <2>4. NetInv'
      <3> HIDE DEF Packet
      <3> QED BY <2>1, <2>3 DEF TypeInv, NetInv
    <2>5. SourceInv' /\ QueueInv'
      BY <2>1 DEF TypeInv, SourceInv, QueueInv
    <2>6. SenderInv'
      BY <2>1, <2>2 DEF TypeInv, SenderInv
    <2> QED BY <1>r, <2>4, <2>5, <2>6 DEF TypeInv
  <1>3. CASE Snd!UpdatesDone
    <2>1. UNCHANGED <<src, events, workqueue, startup, seq_no, chan, update_deque, typeCache,
                      typedef_id, net>> /\ pc' = "events"
      BY <1>3 DEF Snd!UpdatesDone, Snd!sourceVars
    <2> QED BY <1>r, <2>1 DEF TypeInv, SourceInv, SenderInv, QueueInv, NetInv
  <1> QED BY <1>1, <1>2, <1>3

(* Every channel is marked: what was not queued comes behind what was.     *)
LEMMA HeartbeatIs ==
  ASSUME TypeInv, Snd!MarkHeartbeats, pc' # "aborted"
  PROVE  /\ \A c \in Chan : chan[c].value \in Structure
         /\ chan' = [c \in Chan |-> Snd!mark_update(chan[c], "Full")]
         /\ update_deque' \in Seq(Chan) /\ Distinct(update_deque') /\ In(update_deque') = Chan
  <1> DEFINE unmarked == {c \in Chan : chan[c].pending_update = "None"}
  <1>1. /\ update_deque \in Seq(Chan) /\ Distinct(update_deque)
        /\ \A c \in Chan : chan[c].pending_update # "None" <=> c \in In(update_deque)
        /\ chan \in [Chan -> ChanRecord]
    BY DEF TypeInv, SenderInv, QueueInv
  <1>i. In(update_deque) \subseteq Chan
    BY <1>1 DEF In
  <1>2. /\ ~(\E c \in Chan : Snd!CannotMask(chan[c]))
        /\ chan' = [c \in Chan |-> Snd!mark_update(chan[c], "Full")]
        /\ \E q \in Snd!Orders(unmarked) : update_deque' = update_deque \o q
    BY DEF Snd!MarkHeartbeats
  <1>3. \A c \in Chan : chan[c].value \in Structure
    BY <1>1, <1>2 DEF Snd!CannotMask, ChanRecord
  <1>4. PICK q \in Snd!Orders(unmarked) : update_deque' = update_deque \o q
    BY <1>2
  <1>5. unmarked \subseteq Chan /\ IsFiniteSet(unmarked)
    BY ChanAssumption, FS_Subset
  <1>6. q \in Seq(unmarked) /\ Distinct(q) /\ In(q) = unmarked
    BY <1>5, OrdersQueue
  <1>7. q \in Seq(Chan) /\ In(update_deque) \cap In(q) = {}
    BY <1>1, <1>5, <1>6, SeqMonotone
  <1>8. In(update_deque) \cup In(q) = Chan
    BY <1>1, <1>i, <1>6
  <1> HIDE DEF unmarked
  <1>9. /\ update_deque \o q \in Seq(Chan) /\ Distinct(update_deque \o q)
        /\ In(update_deque \o q) = In(update_deque) \cup In(q)
    BY <1>1, <1>6, <1>7, ConcatQueue
  <1> QED BY <1>2, <1>3, <1>4, <1>8, <1>9

(* Types: mark_heartbeat_updates. *)
LEMMA TypeHeartbeats ==
  ASSUME TypeInv, Snd!MarkHeartbeats, UNCHANGED <<rcvState, faults>>
  PROVE  TypeInv'
  <1>u. UNCHANGED <<src, events, workqueue, startup, seq_no, typeCache, typedef_id, net>>
    BY DEF Snd!MarkHeartbeats, Snd!sourceVars
  <1>r. ReceiverInv' /\ NetInv'
    BY <1>u DEF TypeInv, ReceiverInv, NetInv, rcvState
  <1>1. CASE pc' = "aborted" /\ UNCHANGED <<chan, update_deque>>
    BY <1>u, <1>r, <1>1 DEF TypeInv, SourceInv, SenderInv, QueueInv
  <1>2. CASE pc' = "updates"
    <2>1. /\ \A c \in Chan : chan[c].value \in Structure
          /\ chan' = [c \in Chan |-> Snd!mark_update(chan[c], "Full")]
          /\ update_deque' \in Seq(Chan) /\ Distinct(update_deque') /\ In(update_deque') = Chan
      BY <1>2, HeartbeatIs
    <2>2. \A c \in Chan : /\ chan'[c] \in ChanRecord /\ chan'[c].pending_update # "None"
                          /\ chan'[c].value = chan[c].value
      BY <2>1, MarkIs DEF TypeInv, SenderInv
    <2>3. chan' = [c \in Chan |-> chan'[c]]
      BY <2>1
    <2>4. chan' \in [Chan -> ChanRecord]
      BY <2>2, <2>3
    <2>5. QueueInv'
      BY <2>1, <2>2 DEF QueueInv
    <2>6. SourceInv'
      BY <1>u, <2>2, SourceKept DEF TypeInv
    <2>7. SenderInv'
      BY <1>u, <1>2, <2>1, <2>2, <2>4 DEF TypeInv, SenderInv
    <2> QED BY <1>r, <2>5, <2>6, <2>7 DEF TypeInv
  <1> QED BY <1>1, <1>2 DEF Snd!MarkHeartbeats

(* Types: Restart. *)
LEMMA TypeRestart == TypeInv /\ Restart => TypeInv'
  <1> SUFFICES ASSUME TypeInv, Restart PROVE TypeInv'
    OBVIOUS
  <1> USE Numbers
  <1> DEFINE up == {c \in Chan : src[c].up}
             fields(c) == {f \in Field : src[c].value.val[f] # Default}
             ev(c) == Snd!ValueEvent(src'[c], fields(c))
  <1>0. /\ src \in [Chan -> SourceRecord]
        /\ \A c \in Chan : src[c].up => src[c].value \in Structure
    BY DEF TypeInv, SourceInv
  <1>1. /\ startup' = startup + 1 /\ pc' = "events" /\ seq_no' = 0 /\ typedef_id' = 0
        /\ chan' = [c \in Chan |-> Snd!IdleChannel] /\ update_deque' = << >>
        /\ typeCache' = Builtin /\ UNCHANGED net /\ UNCHANGED rcvState
    BY DEF Restart, Snd!Restart
  <1>2. /\ src' = [c \in Chan |-> IF src[c].up THEN [src[c] EXCEPT !.sess = @ + 1] ELSE src[c]]
        /\ workqueue' \in Snd!Orders(up)
    BY DEF Restart, Snd!Restart
  <1>3. events' = [c \in Chan |-> IF src[c].up THEN <<ev(c)>> ELSE << >>]
    BY DEF Restart, Snd!Restart
  <1>4. NetInv' /\ ReceiverInv'
    BY <1>1 DEF TypeInv, NetInv, ReceiverInv, rcvState
  <1>5. Snd!IdleChannel \in ChanRecord /\ ~Snd!IdleChannel.connected
        /\ Snd!IdleChannel.pending_update = "None"
    BY DEF Snd!IdleChannel, ChanRecord, Kinds
  <1>6. SenderInv' /\ QueueInv'
    <2>1. chan' \in [Chan -> ChanRecord]
          /\ \A c \in Chan : ~chan'[c].connected /\ chan'[c].pending_update = "None"
      BY <1>1, <1>5
    <2>2. In(<< >>) = {} /\ Distinct(<< >>) /\ << >> \in Seq(Chan)
      BY DEF In, Distinct
    <2> QED BY <1>1, <2>1, <2>2, TypeAssumption DEF TypeInv, SenderInv, QueueInv
  <1>7. ASSUME NEW c \in Chan
        PROVE  /\ src'[c] \in SourceRecord /\ src'[c].up = src[c].up
               /\ src'[c].value = src[c].value
    BY <1>0, <1>2 DEF SourceRecord
  <1>8. ASSUME NEW c \in Chan, src[c].up
        PROVE  ev(c) \in Event /\ ev(c).kind = "value"
    <2>1. src'[c].value \in Structure /\ src'[c].sess \in Nat /\ fields(c) \in SUBSET Field
      BY <1>0, <1>7, <1>8 DEF SourceRecord
    <2> HIDE DEF fields
    <2> QED BY <2>1 DEF Event, ValueEvents, Snd!ValueEvent
  <1>9. up \subseteq Chan /\ IsFiniteSet(up)
    BY ChanAssumption, FS_Subset
  <1>10. workqueue' \in Seq(up) /\ Distinct(workqueue') /\ In(workqueue') = up
    BY <1>2, <1>9, OrdersQueue
  <1>11. workqueue' \in Seq(Chan)
    BY <1>9, <1>10, SeqMonotone
  <1> HIDE DEF ev
  <1>12. ASSUME NEW c \in Chan
         PROVE  /\ events'[c] \in Seq(Event)
                /\ src[c].up => events'[c] # << >> /\ Head(events'[c]).kind = "value"
                /\ ~src[c].up => events'[c] = << >>
    <2>1. CASE src[c].up
      <3>1. events'[c] = <<ev(c)>>
        BY <1>3, <2>1
      <3>2. ev(c) \in Event /\ ev(c).kind = "value"
        BY <1>8, <2>1
      <3> HIDE DEF Event
      <3> QED BY <2>1, <3>1, <3>2
    <2>2. CASE ~src[c].up
      <3>1. events'[c] = << >>
        BY <1>3, <2>2
      <3> QED BY <2>2, <3>1
    <2> QED BY <2>1, <2>2
  <1>13. SourceInv'
    <2>1. events' \in [Chan -> Seq(Event)]
      <3>1. events' = [c \in Chan |-> events'[c]]
        BY <1>3
      <3> QED BY <1>12, <3>1
    <2>2. src' \in [Chan -> SourceRecord]
      <3>1. src' = [c \in Chan |-> src'[c]]
        BY <1>2
      <3> QED BY <1>7, <3>1
    <2>3. \A c \in In(workqueue') : events'[c] # << >>
      BY <1>10, <1>12
    <2> QED BY <1>0, <1>7, <1>10, <1>11, <1>12, <2>1, <2>2, <2>3 DEF SourceInv
  <1> QED BY <1>4, <1>6, <1>13 DEF TypeInv

(* A datagram of the network, and the network without it and with a second *)
(* copy of it: no other datagrams come up.                                 *)
LEMMA NetFaults ==
  ASSUME NEW s \in Seq(Packet), NEW i \in 1 .. Len(s)
  PROVE  /\ s[i] \in Packet /\ s[i] \in In(s)
         /\ Without(s, i) \in Seq(Packet) /\ Doubled(s, i) \in Seq(Packet)
         /\ In(Without(s, i)) \subseteq In(s) /\ In(Doubled(s, i)) \subseteq In(s)
  <1> HIDE DEF Packet
  <1>1. Len(s) \in Nat /\ \A k \in 1 .. Len(s) : s[k] \in Packet
    OBVIOUS
  <1>2. \A j \in 1 .. Len(s) - 1 : \E k \in 1 .. Len(s) : Without(s, i)[j] = s[k]
    <2> SUFFICES ASSUME NEW j \in 1 .. Len(s) - 1
                 PROVE  \E k \in 1 .. Len(s) : Without(s, i)[j] = s[k]
      OBVIOUS
    <2>1. j \in 1 .. Len(s) /\ j + 1 \in 1 .. Len(s)
      BY <1>1
    <2>2. Without(s, i)[j] = s[j] \/ Without(s, i)[j] = s[j + 1]
      BY DEF Without
    <2> QED BY <2>1, <2>2
  <1>3. \A j \in 1 .. Len(s) + 1 : \E k \in 1 .. Len(s) : Doubled(s, i)[j] = s[k]
    <2> SUFFICES ASSUME NEW j \in 1 .. Len(s) + 1
                 PROVE  \E k \in 1 .. Len(s) : Doubled(s, i)[j] = s[k]
      OBVIOUS
    <2>1. CASE j <= i
      <3>1. j \in 1 .. Len(s) /\ Doubled(s, i)[j] = s[j]
        BY <1>1, <2>1 DEF Doubled
      <3> QED BY <3>1
    <2>2. CASE ~(j <= i)
      <3>1. j - 1 \in 1 .. Len(s) /\ Doubled(s, i)[j] = s[j - 1]
        BY <1>1, <2>2 DEF Doubled
      <3> QED BY <3>1
    <2> QED BY <2>1, <2>2
  <1> DEFINE w == Without(s, i)
             d == Doubled(s, i)
  <1>4. w = [j \in 1 .. Len(s) - 1 |-> w[j]] /\ d = [j \in 1 .. Len(s) + 1 |-> d[j]]
    BY DEF Without, Doubled
  <1>5. Len(s) - 1 \in Nat /\ Len(s) + 1 \in Nat
    BY <1>1
  <1>6. /\ \A j \in 1 .. Len(s) - 1 : w[j] \in Packet /\ w[j] \in In(s)
        /\ \A j \in 1 .. Len(s) + 1 : d[j] \in Packet /\ d[j] \in In(s)
    BY <1>1, <1>2, <1>3 DEF In
  <1> HIDE DEF w, d
  <1>7. w \in [1 .. Len(s) - 1 -> Packet] /\ d \in [1 .. Len(s) + 1 -> Packet]
    BY <1>4, <1>6
  <1>8. /\ w \in Seq(Packet) /\ Len(w) = Len(s) - 1
        /\ d \in Seq(Packet) /\ Len(d) = Len(s) + 1
    <2>1. w \in Seq(Packet) /\ Len(w) = Len(s) - 1
      BY <1>5, <1>7, FunctionIsSeq
    <2>2. d \in Seq(Packet) /\ Len(d) = Len(s) + 1
      BY <1>5, <1>7, FunctionIsSeq
    <2> QED BY <2>1, <2>2
  <1>9. In(w) \subseteq In(s) /\ In(d) \subseteq In(s)
    BY <1>6, <1>8 DEF In
  <1> QED BY <1>1, <1>8, <1>9 DEF In, w, d

(* The updates of a message that are read are updates of it.               *)
LEMMA ReadIs ==
  ASSUME NEW upd \in Seq(Update), NEW n \in Rcv!Ends(upd)
  PROVE  \A e \in Rcv!Read(upd, n) : e \in Update /\ e \in In(upd)
  <1>1. n \in 0 .. Len(upd) /\ Len(upd) \in Nat
    BY DEF Rcv!Ends
  <1>2. \A i \in 1 .. n : upd[i] \in Update /\ upd[i] \in In(upd)
    <2> HIDE DEF Update
    <2> QED BY <1>1 DEF In
  <1> QED BY <1>2 DEF Rcv!Read

(* Whatever an update does to a channel, read from the right place or from *)
(* another, it leaves a structure or none.                                 *)
LEMMA UpdatedIs ==
  ASSUME ReceiverInv, NEW upd \in Seq(Update), NEW n \in Rcv!Ends(upd), NEW c \in Chan
  PROVE  /\ Rcv!AfterUpdate(c, Rcv!Read(upd, n)) \in RcvRecord
         /\ \A ch \in RcvRecord, m \in Rcv!Misreads : Rcv!Misread(ch, m) \in RcvRecord
  <1> DEFINE read == Rcv!Read(upd, n)
  <1>0. /\ rch \in [Chan -> RcvRecord] /\ rcvTypes \in Seq(Type \cup {NoType})
        /\ \A i \in 1 .. Len(rcvTypes) : rcvTypes[i] \in Type \cup {NoType}
    BY DEF ReceiverInv
  <1>1. ASSUME NEW e \in Update, Rcv!Applied(e), e.ch = c
        PROVE  Rcv!Decoded(e) \in Received
    <2> DEFINE t == Rcv!Target(e)
               v == [f \in Field |-> IF t.type # e.of.type THEN Torn
                       ELSE IF f \in e.got THEN e.of.val[f]
                       ELSE IF f \in e.bits THEN Torn ELSE t.val[f]]
    <2>1. e.of.val \in [Field -> Data] /\ e.tid \in Nat
      BY DEF Update, Structure
    <2>2. t \in Received
      <3>1. CASE rch[c].last_value # NoValue
        BY <1>0, <1>1, <3>1 DEF RcvRecord, Rcv!Target
      <3>2. CASE rch[c].last_value = NoValue
        <4>1. Rcv!TypeKnown(e)
          BY <1>1, <3>2 DEF Rcv!Applied, Rcv!PartialFollows
        <4>2. e.tid + 1 \in 1 .. Len(rcvTypes)
          BY <1>0, <2>1, <4>1 DEF Rcv!TypeKnown
        <4>3. rcvTypes[e.tid + 1] \in Type \cup {NoType}
          BY <1>0, <4>2
        <4>4. [f \in Field |-> Default] \in [Field -> Data \cup {Torn}]
          BY FieldAssumption
        <4> QED BY <1>1, <3>2, <4>3, <4>4
             DEF Rcv!Target, Rcv!cloneEmpty, Rcv!Struct, Received
      <3> QED BY <3>1, <3>2
    <2>3. t.val \in [Field -> Data \cup {Torn}] /\ t.type \in Type \cup {NoType}
      BY <2>2 DEF Received
    <2> HIDE DEF t
    <2>4. v \in [Field -> Data \cup {Torn}]
      BY <2>1, <2>3
    <2>5. Rcv!Decoded(e) = [type |-> t.type, val |-> v]
      BY DEF Rcv!Decoded, Rcv!Struct, t
    <2> HIDE DEF v
    <2> QED BY <2>3, <2>4, <2>5 DEF Received
  <1>2. Rcv!AfterUpdate(c, read) \in RcvRecord
    <2>1. CASE \E e \in read : e.ch = c
      <3> DEFINE e == CHOOSE e \in read : e.ch = c
      <3>1. e \in read /\ e.ch = c
        <4> HIDE DEF read
        <4> QED BY <2>1
      <3>2. e \in Update
        <4> HIDE DEF e
        <4> QED BY <3>1, ReadIs
      <3>3. Rcv!AfterUpdate(c, read) =
              IF Rcv!Applied(e)
              THEN [last_update_seqno |-> e.useq, last_value |-> Rcv!Decoded(e),
                    disconnected |-> FALSE]
              ELSE [rch[c] EXCEPT !.disconnected = FALSE]
        BY <2>1 DEF Rcv!AfterUpdate
      <3> HIDE DEF e
      <3>4. CASE Rcv!Applied(e)
        <4>1. Rcv!Decoded(e) \in Received
          BY <1>1, <3>1, <3>2, <3>4
        <4>2. e.useq \in 0 .. SeqMod - 1
          BY <3>2 DEF Update
        <4> QED BY <3>3, <3>4, <4>1, <4>2 DEF RcvRecord
      <3>5. CASE ~Rcv!Applied(e)
        BY <1>0, <3>3, <3>5 DEF RcvRecord
      <3> QED BY <3>4, <3>5
    <2>2. CASE ~\E e \in read : e.ch = c
      BY <1>0, <2>2 DEF Rcv!AfterUpdate
    <2> QED BY <2>1, <2>2
  <1>3. ASSUME NEW ch \in RcvRecord, NEW m \in Rcv!Misreads
        PROVE  Rcv!Misread(ch, m) \in RcvRecord
    <2>1. CASE m = << >>
      BY <2>1 DEF Rcv!Misread
    <2>2. CASE m # << >>
      <3>1. PICK k \in 0 .. SeqMod - 1, t \in {NoType} \cup {rcvTypes[i] : i \in 1 .. Len(rcvTypes)} :
              m = <<k, t>>
        BY <2>2 DEF Rcv!Misreads
      <3>2. t \in Type \cup {NoType} /\ m[1] = k /\ m[2] = t
        BY <1>0, <3>1
      <3> DEFINE ty == IF ch.last_value = NoValue THEN t ELSE ch.last_value.type
                 lv == [type |-> ty, val |-> [f \in Field |-> Torn]]
      <3>3. ty \in Type \cup {NoType}
        BY <3>2 DEF RcvRecord, Received
      <3>4. lv \in Received
        <4> HIDE DEF ty
        <4> QED BY <3>3 DEF Received
      <3>5. Rcv!Misread(ch, m) =
              [last_update_seqno |-> k, disconnected |-> t = NoType,
               last_value |-> IF t = NoType THEN NoValue ELSE lv]
        BY <2>2, <3>2 DEF Rcv!Misread, Rcv!Struct
      <3> HIDE DEF lv
      <3>6. (t = NoType) \in BOOLEAN
        OBVIOUS
      <3> DEFINE b == t = NoType
                 v == IF t = NoType THEN NoValue ELSE lv
      <3>7. v \in Received \cup {NoValue} /\ b \in BOOLEAN
        BY <3>4
      <3>8. Rcv!Misread(ch, m) = [last_update_seqno |-> k, disconnected |-> b, last_value |-> v]
        BY <3>5
      <3> HIDE DEF b, v
      <3> QED BY <3>7, <3>8 DEF RcvRecord
    <2> QED BY <2>1, <2>2
  <1> QED BY <1>2, <1>3

(* Types: receive_updates. *)
LEMMA TypeReceive ==
  ASSUME ReceiverInv, NEW pkt \in Packet, Rcv!Receive(pkt)
  PROVE  ReceiverInv'
  <1> USE Numbers
  <1>0. /\ rch \in [Chan -> RcvRecord] /\ rcvTypes \in Seq(Type \cup {NoType})
        /\ Len(rcvTypes) \in Nat
        /\ last_seq_no \in 0 .. SeqMod - 1 /\ last_startup_time \in Nat
        /\ \A i \in 1 .. Len(rcvTypes) : rcvTypes[i] \in Type \cup {NoType}
    BY DEF ReceiverInv
  <1>p. pkt.startup \in Nat
    BY DEF Packet, DataPacket, TypedefPacket
  <1>1. CASE Rcv!ReceiveOlder(pkt)
    BY <1>1 DEF Rcv!ReceiveOlder, Rcv!rcvVars, ReceiverInv
  <1>2. CASE Rcv!ReceiveData(pkt)
    <2>1. /\ pkt.kind = "data" /\ last_startup_time' = pkt.startup
          /\ last_seq_no' = pkt.seq /\ rcvTypes' = rcvTypes
      BY <1>2 DEF Rcv!ReceiveData, Rcv!validate_sender
    <2>2. pkt.seq \in 0 .. SeqMod - 1 /\ pkt.upd \in Seq(Update)
      BY <2>1 DEF Packet, DataPacket, TypedefPacket
    <2>3. rch' \in [Chan -> RcvRecord]
      <3>1. CASE UNCHANGED rch
        BY <1>0, <3>1
      <3>2. CASE rch' # rch
        <4>0. PICK n \in Rcv!Ends(pkt.upd) :
                \E m \in [Chan -> IF n < Len(pkt.upd) THEN Rcv!Misreads ELSE {<< >>}] :
                  rch' = [c \in Chan |-> Rcv!Misread(Rcv!AfterUpdate(c, Rcv!Read(pkt.upd, n)), m[c])]
          BY <1>2, <3>2 DEF Rcv!ReceiveData
        <4> DEFINE U == Rcv!Read(pkt.upd, n)
        <4>1. PICK m \in [Chan -> IF n < Len(pkt.upd) THEN Rcv!Misreads ELSE {<< >>}] :
                rch' = [c \in Chan |-> Rcv!Misread(Rcv!AfterUpdate(c, U), m[c])]
          BY <4>0
        <4>2. ASSUME NEW c \in Chan
              PROVE  Rcv!Misread(Rcv!AfterUpdate(c, U), m[c]) \in RcvRecord
          <5>1. m[c] \in Rcv!Misreads
            BY <4>1 DEF Rcv!Misreads
          <5> QED BY <2>2, <5>1, UpdatedIs
        <4> HIDE DEF U
        <4> QED BY <4>1, <4>2
      <3> QED BY <3>1, <3>2
    <2> QED BY <1>0, <1>p, <2>1, <2>2, <2>3 DEF ReceiverInv
  <1>3. CASE Rcv!ReceiveTypedef(pkt)
    <2> DEFINE n == pkt.start_id + Len(pkt.types)
               size == IF pkt.types # << >> /\ n > Len(rcvTypes) THEN n ELSE Len(rcvTypes)
               old(i) == IF i <= Len(rcvTypes) THEN rcvTypes[i] ELSE NoType
               new(i) == IF old(i) = NoType /\ Rcv!Slot(pkt, i) \in DOMAIN pkt.types
                         THEN pkt.types[Rcv!Slot(pkt, i)] ELSE old(i)
    <2>1. /\ pkt.kind = "typedef" /\ last_startup_time' = pkt.startup
          /\ last_seq_no' = Rcv!BaseSeq(pkt) /\ rch' = rch
          /\ rcvTypes' = [i \in 1 .. size |-> new(i)]
      BY <1>3 DEF Rcv!ReceiveTypedef, Rcv!validate_sender
    <2>2. pkt.types \in Seq(Type) /\ pkt.start_id \in Nat
      BY <2>1 DEF Packet, DataPacket, TypedefPacket
    <2>3. size \in Nat /\ \A i \in DOMAIN pkt.types : pkt.types[i] \in Type
      BY <1>0, <2>2
    <2>4. ASSUME NEW i \in 1 .. size PROVE new(i) \in Type \cup {NoType}
      <3>1. old(i) \in Type \cup {NoType}
        <4>1. i \in Nat /\ i >= 1
          BY <2>3
        <4> QED BY <1>0, <4>1
      <3> HIDE DEF old
      <3> QED BY <2>3, <3>1
    <2> HIDE DEF size, new
    <2>5. rcvTypes' \in [1 .. size -> Type \cup {NoType}]
      BY <2>1, <2>4
    <2>6. rcvTypes' \in Seq(Type \cup {NoType})
      BY <2>3, <2>5, FunctionIsSeq
    <2>7. Rcv!BaseSeq(pkt) \in 0 .. SeqMod - 1
      BY <1>0 DEF Rcv!BaseSeq
    <2> QED BY <1>0, <1>p, <2>1, <2>6, <2>7 DEF ReceiverInv
  <1> QED BY <1>1, <1>2, <1>3 DEF Rcv!Receive

(* Types: every step. *)
LEMMA TypeStep == TypeInv /\ [Next]_vars => TypeInv'
  <1> SUFFICES ASSUME TypeInv, [Next]_vars PROVE TypeInv'
    OBVIOUS
  <1>s. ASSUME UNCHANGED sndState PROVE SourceInv' /\ SenderInv' /\ QueueInv'
    BY <1>s DEF TypeInv, SourceInv, SenderInv, QueueInv, sndState
  <1>r. ASSUME UNCHANGED rcvState PROVE ReceiverInv'
    BY <1>r DEF TypeInv, ReceiverInv, rcvState
  <1>1. CASE Source
    BY <1>1, TypeSource
  <1>2. CASE Worker
    BY <1>2, TypeEvent, TypeLoop, TypeHeartbeats, TypeSendMessage DEF Worker, Snd!Worker
  <1>3. CASE Restart
    BY <1>3, TypeRestart
  <1>4. ASSUME NEW i \in 1 .. Len(net), Deliver(i) \/ Lose(i) \/ Duplicate(i)
        PROVE  TypeInv'
    <2>1. /\ net[i] \in Packet
          /\ Without(net, i) \in Seq(Packet) /\ Doubled(net, i) \in Seq(Packet)
      BY NetFaults DEF TypeInv, NetInv
    <2>2. NetInv'
      BY <1>4, <2>1 DEF NetInv, Deliver, Lose, Duplicate
    <2>3. UNCHANGED sndState
      BY <1>4 DEF Deliver, Lose, Duplicate
    <2>4. ReceiverInv'
      <3>1. CASE Deliver(i)
        BY <2>1, <3>1, TypeReceive DEF TypeInv, Deliver
      <3>2. CASE Lose(i) \/ Duplicate(i)
        BY <1>r, <3>2 DEF Lose, Duplicate
      <3> QED BY <1>4, <3>1, <3>2
    <2> QED BY <1>s, <2>2, <2>3, <2>4 DEF TypeInv
  <1>5. CASE Silence
    <2>1. PICK S \in SUBSET Chan : Rcv!CheckNoUpdates(S)
      BY <1>5 DEF Silence
    <2>2. rch' = [c \in Chan |-> IF c \in S THEN [rch[c] EXCEPT !.disconnected = TRUE] ELSE rch[c]]
          /\ UNCHANGED <<last_seq_no, last_startup_time, rcvTypes>>
      BY <2>1 DEF Rcv!CheckNoUpdates
    <2>3. rch' \in [Chan -> RcvRecord]
      BY <2>2 DEF TypeInv, ReceiverInv, RcvRecord
    <2>4. ReceiverInv'
      BY <2>2, <2>3 DEF TypeInv, ReceiverInv
    <2>5. NetInv' /\ UNCHANGED sndState
      BY <1>5 DEF Silence, TypeInv, NetInv
    <2> QED BY <1>s, <2>4, <2>5 DEF TypeInv
  <1>6. CASE UNCHANGED vars
    BY <1>s, <1>r, <1>6 DEF vars, TypeInv, NetInv
  <1> QED BY <1>1, <1>2, <1>3, <1>4, <1>5, <1>6 DEF Next

(* The invariant holds in every state. *)
LEMMA TypeInvariant == Spec => []TypeInv
  BY TypeInit, TypeStep, PTL DEF Spec

(* TypeOK holds in every reachable state: the sequence numbers stay in     *)
(* range, masks have only fields of the structure, and the receiver's      *)
(* cache has only types and empty slots (CacheType, mark_update).          *)
THEOREM PvaTypeOK == Spec => []TypeOK
  <1>1. TypeInv => TypeOK
    <2> SUFFICES ASSUME TypeInv PROVE TypeOK
      OBVIOUS
    <2>1. \A c \in Chan : chan[c] \in ChanRecord /\ rch[c] \in RcvRecord
      BY DEF TypeInv, SenderInv, ReceiverInv
    <2>2. \A i \in 1 .. Len(rcvTypes) : rcvTypes[i] \in Type \cup {NoType}
      BY DEF TypeInv, ReceiverInv
    <2>3. \A c \in Chan : /\ chan[c].update_seq_no \in 0 .. SeqMod - 1
                          /\ chan[c].changed_mask \subseteq Field
                          /\ rch[c].last_update_seqno \in 0 .. SeqMod - 1
      BY <2>1 DEF ChanRecord, RcvRecord
    <2> QED BY <2>2, <2>3 DEF TypeInv, SenderInv, ReceiverInv, TypeOK
  <1> QED BY <1>1, TypeInvariant, PTL

(* QueueConsistent holds in every reachable state: a channel is in the     *)
(* update queue exactly when it has a pending update, and once             *)
(* (mark_update, clear_update, send_updates).                              *)
THEOREM PvaQueueConsistent == Spec => []QueueConsistent
  <1>1. TypeInv => QueueConsistent
    <2> SUFFICES ASSUME TypeInv PROVE QueueConsistent
      OBVIOUS
    <2>1. \A c \in Chan : c \in In(update_deque)
                            <=> \E i \in 1 .. Len(update_deque) : update_deque[i] = c
      BY DEF In
    <2> QED BY <2>1, Zenon DEF TypeInv, QueueInv, QueueConsistent, Distinct
  <1> QED BY <1>1, TypeInvariant, PTL

-----------------------------------------------------------------------------
(* The sender is not restarted.  A new process fills a cache of its own,   *)
(* the receiver keeps the one it has (README).                             *)
OneProcess == MaxStartup = 1

(* The definitions in a message are those of the sender's cache from       *)
(* start_id on.                                                            *)
OfCache(pkt, cache) ==
  pkt.kind = "typedef" =>
    /\ pkt.start_id + Len(pkt.types) <= Len(cache)
    /\ \A k \in 1 .. Len(pkt.types) : pkt.types[k] = cache[pkt.start_id + k]

(* The receiver's cache, and what is on its way to it, are parts of the    *)
(* sender's.                                                               *)
TypesInv ==
  /\ startup >= 1
  /\ Len(rcvTypes) <= Len(typeCache)
  /\ \A i \in 1 .. Len(rcvTypes) : rcvTypes[i] = NoType \/ rcvTypes[i] = typeCache[i]
  /\ \A pkt \in In(net) : OfCache(pkt, typeCache)

(* A cache and a later one. *)
Grown(cache, new) ==
  /\ Len(cache) <= Len(new)
  /\ \A i \in 1 .. Len(cache) : new[i] = cache[i]

(* A message made from a cache is one of a later cache too. *)
LEMMA CacheGrows ==
  ASSUME NEW cache \in Seq(Type), NEW new \in Seq(Type), Grown(cache, new),
         NEW pkt \in Packet, OfCache(pkt, cache)
  PROVE  OfCache(pkt, new)
  <1> SUFFICES ASSUME pkt.kind = "typedef"
               PROVE  /\ pkt.start_id + Len(pkt.types) <= Len(new)
                      /\ \A k \in 1 .. Len(pkt.types) : pkt.types[k] = new[pkt.start_id + k]
    BY DEF OfCache
  <1>1. pkt.start_id \in Nat /\ pkt.types \in Seq(Type) /\ Len(pkt.types) \in Nat
    <2>1. pkt.start_id \in Nat /\ pkt.types \in Seq(Type)
      BY DEF Packet, DataPacket, TypedefPacket
    <2> QED BY <2>1
  <1>2. /\ pkt.start_id + Len(pkt.types) <= Len(cache)
        /\ \A k \in 1 .. Len(pkt.types) : pkt.types[k] = cache[pkt.start_id + k]
        /\ Len(cache) \in Nat /\ Len(new) \in Nat
    <2> HIDE DEF Packet
    <2> QED BY DEF OfCache
  <1>3. \A k \in 1 .. Len(pkt.types) : pkt.start_id + k \in 1 .. Len(cache)
    BY <1>1, <1>2
  <1>4. Len(cache) <= Len(new) /\ \A i \in 1 .. Len(cache) : new[i] = cache[i]
    BY DEF Grown
  <1>5. \A k \in 1 .. Len(pkt.types) : pkt.types[k] = new[pkt.start_id + k]
    <2> HIDE DEF Packet
    <2> QED BY <1>2, <1>3, <1>4
  <1>6. pkt.start_id + Len(pkt.types) <= Len(new)
    <2> DEFINE a == pkt.start_id
               b == Len(pkt.types)
    <2> HIDE DEF a, b
    <2>1. a \in Nat /\ b \in Nat /\ a + b <= Len(cache)
      BY <1>1, <1>2 DEF a, b
    <2>2. a + b <= Len(new)
      BY <1>2, <1>4, <2>1
    <2> QED BY <2>2 DEF a, b
  <1> QED BY <1>5, <1>6

(* What the worker does to the cache and the network. *)
LEMMA WorkerSends ==
  ASSUME TypeInv, Worker
  PROVE  /\ startup' = startup /\ rcvTypes' = rcvTypes /\ Grown(typeCache, typeCache')
         /\ \/ net' = net
            \/ typeCache' = typeCache
               /\ \E pkt : OfCache(pkt, typeCache) /\ net' = Append(net, pkt)
  <1>0. typeCache \in Seq(Type) /\ Grown(typeCache, typeCache) /\ rcvTypes' = rcvTypes
    BY DEF TypeInv, SenderInv, Grown, Worker, rcvState
  <1>1. ASSUME NEW c \in Chan, Snd!FirstValue(c)
        PROVE  startup' = startup /\ Grown(typeCache, typeCache') /\ net' = net
    <2> DEFINE e == Head(events[c])
    <2>1. /\ Snd!PopEvent(c) /\ e.kind = "value"
          /\ typeCache' = Snd!cacheType(typeCache, e.of.type)
      BY <1>1 DEF Snd!FirstValue
    <2>2. e.of.type \in Type
      BY <2>1, PopIs DEF Event, ValueEvents, Structure
    <2> HIDE DEF e
    <2> QED BY <1>0, <2>1, <2>2, CacheIs DEF Snd!PopEvent, Grown
  <1>2. ASSUME NEW c \in Chan, Snd!NextValue(c) \/ Snd!Disconnection(c)
        PROVE  startup' = startup /\ typeCache' = typeCache /\ net' = net
    BY <1>2 DEF Snd!NextValue, Snd!Disconnection, Snd!PopEvent
  <1>3. ASSUME Snd!EventsDone \/ Snd!MarkHeartbeats \/ Snd!UpdatesDone
        PROVE  startup' = startup /\ typeCache' = typeCache /\ net' = net
    BY <1>3 DEF Snd!EventsDone, Snd!MarkHeartbeats, Snd!UpdatesDone
  <1>4. ASSUME Snd!SendTypedefs
        PROVE  /\ startup' = startup /\ typeCache' = typeCache
               /\ \E pkt : OfCache(pkt, typeCache) /\ net' = Append(net, pkt)
    <2> DEFINE n == Snd!TypesFitting(typedef_id)
               types == Snd!TypesFrom(typedef_id, n)
               pkt == Snd!PVATypeDefMsg(startup, typedef_id, types)
    <2>1. /\ startup' = startup /\ typeCache' = typeCache /\ typedef_id < Len(typeCache)
          /\ net' = Append(net, pkt)
      BY <1>4 DEF Snd!SendTypedefs, Snd!Send
    <2>2. /\ typedef_id + n <= Len(typeCache) /\ Len(types) = n
          /\ \A k \in 1 .. n : types[k] = typeCache[typedef_id + k]
      BY <2>1, TypedefsIs DEF TypeInv
    <2> HIDE DEF n, types
    <2>3. OfCache(pkt, typeCache)
      BY <2>2 DEF OfCache, Snd!PVATypeDefMsg
    <2> HIDE DEF pkt
    <2> QED BY <2>1, <2>3
  <1>5. ASSUME Snd!SendMessage
        PROVE  /\ startup' = startup /\ typeCache' = typeCache
               /\ net' = net \/ \E pkt : OfCache(pkt, typeCache) /\ net' = Append(net, pkt)
    <2> DEFINE upd == [i \in 1 .. Snd!PackedCount |-> Snd!Entry(i)]
               pkt == Snd!PVADataMsg(startup, seq_no, upd)
    <2>1. /\ startup' = startup /\ typeCache' = typeCache
          /\ net' = net \/ net' = Append(net, pkt)
      BY <1>5 DEF Snd!SendMessage, Snd!Send
    <2> HIDE DEF upd
    <2>2. OfCache(pkt, typeCache)
      BY DEF OfCache, Snd!PVADataMsg
    <2> HIDE DEF pkt
    <2> QED BY <2>1, <2>2
  <1>6. \/ \E c \in Chan : Snd!FirstValue(c)
        \/ \E c \in Chan : Snd!NextValue(c) \/ Snd!Disconnection(c)
        \/ Snd!EventsDone \/ Snd!MarkHeartbeats \/ Snd!UpdatesDone
        \/ Snd!SendTypedefs \/ Snd!SendMessage
    BY DEF Worker, Snd!Worker
  <1> QED BY <1>0, <1>1, <1>2, <1>3, <1>4, <1>5, <1>6

(* A step of the sender: its cache grows, and the receiver's is a part of  *)
(* it still.                                                               *)
LEMMA TypesSend ==
  ASSUME TypeInv, TypeInv', TypesInv, Worker
  PROVE  TypesInv'
  <1>0. /\ typeCache \in Seq(Type) /\ typeCache' \in Seq(Type) /\ net \in Seq(Packet)
        /\ Len(rcvTypes) \in Nat /\ Len(typeCache) \in Nat /\ Len(typeCache') \in Nat
    BY DEF TypeInv, SenderInv, NetInv, ReceiverInv
  <1>1. /\ startup' = startup /\ rcvTypes' = rcvTypes /\ Grown(typeCache, typeCache')
        /\ \/ net' = net
           \/ typeCache' = typeCache
              /\ \E pkt : OfCache(pkt, typeCache) /\ net' = Append(net, pkt)
    BY WorkerSends
  <1>2. /\ Len(rcvTypes') <= Len(typeCache')
        /\ \A i \in 1 .. Len(rcvTypes') : rcvTypes'[i] = NoType \/ rcvTypes'[i] = typeCache'[i]
    BY <1>0, <1>1 DEF TypesInv, Grown
  <1>3. \A pkt \in In(net) : pkt \in Packet /\ OfCache(pkt, typeCache)
    <2> HIDE DEF Packet
    <2> QED BY <1>0 DEF TypesInv, In
  <1>4. \A pkt \in In(net') : OfCache(pkt, typeCache')
    <2>1. CASE net' = net
      BY <1>0, <1>1, <1>3, <2>1, CacheGrows
    <2>2. CASE typeCache' = typeCache /\ \E pkt : OfCache(pkt, typeCache) /\ net' = Append(net, pkt)
      <3>1. PICK pkt : OfCache(pkt, typeCache) /\ net' = Append(net, pkt)
        BY <2>2
      <3>2. \A p \in In(net') : p = pkt \/ p \in In(net)
        <4> HIDE DEF Packet
        <4>1. /\ Len(net') = Len(net) + 1 /\ Len(net) \in Nat /\ net'[Len(net) + 1] = pkt
              /\ \A i \in 1 .. Len(net) : net'[i] = net[i]
          BY <1>0, <3>1
        <4>2. \A i \in 1 .. Len(net') : i \in 1 .. Len(net) \/ i = Len(net) + 1
          BY <4>1
        <4> QED BY <4>1, <4>2 DEF In
      <3> QED BY <1>3, <2>2, <3>1, <3>2
    <2> QED BY <1>1, <2>1, <2>2
  <1> QED BY <1>1, <1>2, <1>4 DEF TypesInv

(* A message is taken in: definitions go to the slots the sender has them  *)
(* in.                                                                     *)
LEMMA TypesReceive ==
  ASSUME TypeInv, TypesInv, NEW pkt \in Packet, OfCache(pkt, typeCache), Rcv!Receive(pkt)
  PROVE  /\ Len(rcvTypes') <= Len(typeCache)
         /\ \A i \in 1 .. Len(rcvTypes') : rcvTypes'[i] = NoType \/ rcvTypes'[i] = typeCache[i]
  <1>0. Len(rcvTypes) \in Nat /\ Len(typeCache) \in Nat
    BY DEF TypeInv, SenderInv, ReceiverInv
  <1>i. /\ Len(rcvTypes) <= Len(typeCache)
        /\ \A i \in 1 .. Len(rcvTypes) : rcvTypes[i] = NoType \/ rcvTypes[i] = typeCache[i]
    BY DEF TypesInv
  <1>1. CASE rcvTypes' = rcvTypes
    BY <1>i, <1>1
  <1>2. CASE Rcv!ReceiveTypedef(pkt)
    <2> DEFINE n == pkt.start_id + Len(pkt.types)
               size == IF pkt.types # << >> /\ n > Len(rcvTypes) THEN n ELSE Len(rcvTypes)
               old(i) == IF i <= Len(rcvTypes) THEN rcvTypes[i] ELSE NoType
               new(i) == IF old(i) = NoType /\ Rcv!Slot(pkt, i) \in DOMAIN pkt.types
                         THEN pkt.types[Rcv!Slot(pkt, i)] ELSE old(i)
    <2>1. /\ pkt.kind = "typedef" /\ rcvTypes' = [i \in 1 .. size |-> new(i)]
      BY <1>2 DEF Rcv!ReceiveTypedef
    <2>2. /\ pkt.types \in Seq(Type) /\ pkt.start_id \in Nat /\ Len(pkt.types) \in Nat
          /\ DOMAIN pkt.types = 1 .. Len(pkt.types)
      BY <2>1 DEF Packet, DataPacket, TypedefPacket
    <2>3. /\ n <= Len(typeCache)
          /\ \A k \in 1 .. Len(pkt.types) : pkt.types[k] = typeCache[pkt.start_id + k]
      BY <2>1 DEF OfCache
    <2>4. size \in Nat /\ size <= Len(typeCache)
      BY <1>0, <1>i, <2>2, <2>3
    <2>5. ASSUME NEW i \in 1 .. size PROVE new(i) = NoType \/ new(i) = typeCache[i]
      <3>1. old(i) = NoType \/ old(i) = typeCache[i]
        <4>1. i \in Nat /\ i >= 1
          BY <2>4
        <4> QED BY <1>0, <1>i, <4>1
      <3>2. CASE old(i) = NoType /\ Rcv!Slot(pkt, i) \in DOMAIN pkt.types
        <4>1. Rcv!Slot(pkt, i) \in 1 .. Len(pkt.types) /\ pkt.start_id + Rcv!Slot(pkt, i) = i
          BY <2>2, <2>4, <3>2 DEF Rcv!Slot
        <4> QED BY <2>3, <3>2, <4>1
      <3> HIDE DEF old
      <3> QED BY <3>1, <3>2
    <2> HIDE DEF size, new
    <2>6. Len(rcvTypes') = size /\ \A i \in 1 .. size : rcvTypes'[i] = new(i)
      BY <2>1, <2>4
    <2> QED BY <2>4, <2>5, <2>6
  <1>3. \/ rcvTypes' = rcvTypes \/ Rcv!ReceiveTypedef(pkt)
    BY DEF Rcv!Receive, Rcv!ReceiveOlder, Rcv!ReceiveData, Rcv!rcvVars
  <1> QED BY <1>1, <1>2, <1>3

(* TypesAgree holds in every reachable state of one sender process: the    *)
(* receiver's cache has in each slot the sender's type or none, although   *)
(* messages are lost, repeated and late (cacheType, send_typedef_updates,  *)
(* receive_updates).                                                       *)
THEOREM PvaTypesAgree ==
  ASSUME OneProcess
  PROVE  Spec => []TypesAgree
  <1>1. Init => TypesInv
    BY TypeAssumption DEF Init, Snd!SndInit, Rcv!RcvInit, TypesInv, In
  <1>2. TypeInv /\ TypeInv' /\ TypesInv /\ [Next]_vars => TypesInv'
    <2> SUFFICES ASSUME TypeInv, TypeInv', TypesInv, [Next]_vars PROVE TypesInv'
      OBVIOUS
    <2>s. ASSUME UNCHANGED <<startup, typeCache, rcvTypes>>, In(net') \subseteq In(net)
          PROVE  TypesInv'
      BY <2>s DEF TypesInv
    <2>1. CASE Source
      BY <2>s, <2>1 DEF Source, Snd!Source, Snd!SourceConnects, Snd!SourceChanges,
           Snd!SourceDisconnects, Snd!Notify, Snd!workerVars, rcvState
    <2>2. CASE Worker
      BY <2>2, TypesSend
    <2>3. CASE Restart
      <3>1. startup < 1 /\ startup \in Nat /\ startup >= 1
        BY <2>3 DEF OneProcess, Restart, Snd!Restart, TypeInv, SenderInv, TypesInv
      <3> QED BY <3>1
    <2>4. ASSUME NEW i \in 1 .. Len(net), Deliver(i) \/ Lose(i) \/ Duplicate(i)
          PROVE  TypesInv'
      <3>1. /\ net[i] \in Packet /\ net[i] \in In(net)
            /\ In(Without(net, i)) \subseteq In(net) /\ In(Doubled(net, i)) \subseteq In(net)
        BY NetFaults DEF TypeInv, NetInv
      <3>2. UNCHANGED <<startup, typeCache>> /\ In(net') \subseteq In(net)
        BY <2>4, <3>1 DEF Deliver, Lose, Duplicate, sndState
      <3>3. CASE Deliver(i)
        <4>1. /\ Len(rcvTypes') <= Len(typeCache)
              /\ \A k \in 1 .. Len(rcvTypes') :
                   rcvTypes'[k] = NoType \/ rcvTypes'[k] = typeCache[k]
          BY <3>1, <3>3, TypesReceive DEF Deliver, TypesInv
        <4> QED BY <3>2, <4>1 DEF TypesInv
      <3>4. CASE Lose(i) \/ Duplicate(i)
        BY <2>s, <3>2, <3>4 DEF Lose, Duplicate, rcvState
      <3> QED BY <2>4, <3>3, <3>4
    <2>5. CASE Silence
      BY <2>s, <2>5 DEF Silence, Rcv!CheckNoUpdates, sndState
    <2>6. CASE UNCHANGED vars
      BY <2>s, <2>6 DEF vars, sndState, rcvState
    <2> QED BY <2>1, <2>2, <2>3, <2>4, <2>5, <2>6 DEF Next
  <1>3. TypesInv => TypesAgree
    BY DEF TypesInv, TypesAgree
  <1> QED BY <1>1, <1>2, <1>3, TypeInvariant, PTL DEF Spec

-----------------------------------------------------------------------------
(* One more channel goes into a message: what is left of it. *)
NextRoom(i, room) ==
  LET ch == chan[update_deque[i]]
      r == room - Snd!ChannelDataBytes(ch.pending_update)
  IN IF ~Snd!HeaderFits(room, ch.pending_update) THEN -1
     ELSE r - Snd!ValueBytes(Snd!BitsOf(ch), r)

(* The function of send_updates exists: what is left after one channel is  *)
(* computed from what was left before it.                                  *)
LEMMA RoomIs ==
  ASSUME Len(update_deque) \in Nat
  PROVE  \A i \in 0 .. Len(update_deque) :
           Snd!RoomAfter[i] = IF i = 0 THEN Snd!PVADataRoom
                              ELSE NextRoom(i, Snd!RoomAfter[i - 1])
  <1> DEFINE Is(g, n) == g = [i \in 0 .. n |-> IF i = 0 THEN Snd!PVADataRoom
                                                ELSE NextRoom(i, g[i - 1])]
             S == {n \in Nat : \E g : Is(g, n)}
  <1>1. 0 \in S
    <2> DEFINE g == [i \in 0 .. 0 |-> Snd!PVADataRoom]
    <2>1. Is(g, 0)
      OBVIOUS
    <2> QED BY <2>1
  <1>2. ASSUME NEW n \in Nat, n \in S PROVE n + 1 \in S
    <2>1. PICK g : Is(g, n)
      BY <1>2
    <2> DEFINE h == [i \in 0 .. n + 1 |-> IF i = n + 1 THEN NextRoom(n + 1, g[n]) ELSE g[i]]
    <2>2. ASSUME NEW i \in 0 .. n + 1
          PROVE  h[i] = IF i = 0 THEN Snd!PVADataRoom ELSE NextRoom(i, h[i - 1])
      <3>1. CASE i = n + 1
        <4>1. i # 0 /\ i - 1 = n /\ n \in 0 .. n + 1 /\ n # n + 1
          BY <3>1
        <4>2. h[n] = g[n] /\ h[i] = NextRoom(n + 1, g[n])
          BY <3>1, <4>1
        <4> QED BY <3>1, <4>1, <4>2
      <3>2. CASE i # n + 1
        <4>1. i \in 0 .. n /\ (i # 0 => i - 1 \in 0 .. n + 1 /\ i - 1 # n + 1)
          BY <3>2
        <4>2. h[i] = g[i] /\ (i # 0 => h[i - 1] = g[i - 1])
          BY <3>2, <4>1
        <4>3. g[i] = IF i = 0 THEN Snd!PVADataRoom ELSE NextRoom(i, g[i - 1])
          BY <2>1, <4>1
        <4> QED BY <4>2, <4>3
      <3> QED BY <3>1, <3>2
    <2>3. Is(h, n + 1)
      <3>1. h = [i \in 0 .. n + 1 |-> h[i]]
        OBVIOUS
      <3> HIDE DEF h
      <3> QED BY <2>2, <3>1
    <2> HIDE DEF h, Is
    <2> QED BY <2>3
  <1>3. Len(update_deque) \in S
    <2> HIDE DEF S
    <2>1. Nat \subseteq S
      BY <1>1, <1>2, SetInduction
    <2> QED BY <2>1
  <1>4. \E g : Is(g, Len(update_deque))
    BY <1>3
  <1>5. Snd!RoomAfter = CHOOSE g : Is(g, Len(update_deque))
    BY DEF Snd!RoomAfter, NextRoom
  <1>6. Is(Snd!RoomAfter, Len(update_deque))
    <2> HIDE DEF Is
    <2> QED BY <1>4, <1>5
  <1> DEFINE room == Snd!RoomAfter
  <1> HIDE DEF room
  <1>7. room = [i \in 0 .. Len(update_deque) |->
                  IF i = 0 THEN Snd!PVADataRoom ELSE NextRoom(i, room[i - 1])]
    BY <1>6 DEF room
  <1>8. \A i \in 0 .. Len(update_deque) :
           room[i] = IF i = 0 THEN Snd!PVADataRoom ELSE NextRoom(i, room[i - 1])
    BY <1>7
  <1> QED BY <1>8 DEF room

(* All channels fit into one message, with all their fields, so that no    *)
(* value is cut (README).                                                  *)
UpdateBytes == 9 + MaskBytes + FieldBytes * Cardinality(Field)
AllFit == Cardinality(Chan) * UpdateBytes <= PVADataRoom

(* Products are monotone. *)
LEMMA Product ==
  ASSUME NEW f \in Nat, NEW a \in Nat, NEW b \in Nat, a <= b
  PROVE  f * a \in Nat /\ f * b \in Nat /\ f * a <= f * b
  BY Z3

(* One more of n. *)
LEMMA OneMore ==
  ASSUME NEW k \in Nat, NEW n \in Int
  PROVE  n * k \in Int /\ (n - 1) * k = n * k - k /\ (n >= 0 => n * k >= 0)
  BY Z3

(* The sizes are numbers. *)
LEMMA Sizes ==
  /\ Cardinality(Field) \in Nat /\ Cardinality(Chan) \in Nat
  /\ FieldBytes * Cardinality(Field) \in Nat /\ MaskBytes \in Nat
  /\ UpdateBytes \in Nat
  /\ UpdateBytes = 9 + MaskBytes + FieldBytes * Cardinality(Field)
  /\ PVADataRoom \in Int /\ Snd!PVADataRoom = PVADataRoom
  <1>1. Cardinality(Field) \in Nat /\ Cardinality(Chan) \in Nat
    BY FieldAssumption, ChanAssumption, FS_CardinalityType
  <1>2. FieldBytes \in Nat /\ MaskBytes \in Nat
    BY SizeAssumption
  <1>3. FieldBytes * Cardinality(Field) \in Nat
    BY <1>1, <1>2, Product
  <1>4. /\ UpdateBytes \in Nat
        /\ UpdateBytes = 9 + MaskBytes + FieldBytes * Cardinality(Field)
    BY <1>2, <1>3 DEF UpdateBytes
  <1>5. PVADataRoom \in Int /\ Snd!PVADataRoom = PVADataRoom
    BY MaxMessageSizeAssumption
    DEF PVADataRoom, HeaderSize, SubmessageHeaderSize, PVADataMessageSize,
        Snd!PVADataRoom, Snd!HeaderSize, Snd!SubmessageHeaderSize, Snd!PVADataMessageSize
  <1> QED BY <1>1, <1>2, <1>3, <1>4, <1>5

(* A value that has the room is written whole. *)
LEMMA AllWritten ==
  ASSUME NEW bits \in SUBSET Field, NEW room \in Int, room >= UpdateBytes - 9
  PROVE  /\ Snd!FieldsWritten(bits, room) = bits
         /\ Snd!ValueBytes(bits, room) \in Int
         /\ Snd!ValueBytes(bits, room) <= UpdateBytes - 9
  <1> USE Sizes
  <1>1. ASSUME NEW T \in SUBSET bits
        PROVE  /\ FieldBytes * Snd!Cardinality(T) \in Nat
               /\ FieldBytes * Snd!Cardinality(T) <= FieldBytes * Cardinality(Field)
    <2>1. IsFiniteSet(Field) /\ T \in SUBSET Field
      BY FieldAssumption
    <2>2. IsFiniteSet(T) /\ Cardinality(T) <= Cardinality(Field)
      BY <2>1, FS_Subset
    <2>3. Cardinality(T) \in Nat
      BY <2>2, FS_CardinalityType
    <2>4. Snd!Cardinality(T) = Cardinality(T)
      BY DEF Snd!Cardinality, Cardinality
    <2> QED BY <2>2, <2>3, <2>4, SizeAssumption, Product
  <1>2. \A f \in bits :
          MaskBytes + FieldBytes * Snd!Cardinality({g \in bits : g <= f}) <= room
    <2> SUFFICES ASSUME NEW f \in bits
                 PROVE  MaskBytes + FieldBytes * Snd!Cardinality({g \in bits : g <= f}) <= room
      OBVIOUS
    <2> DEFINE m == FieldBytes * Snd!Cardinality({g \in bits : g <= f})
    <2>1. {g \in bits : g <= f} \in SUBSET bits
      OBVIOUS
    <2>2. m \in Nat /\ m <= FieldBytes * Cardinality(Field)
      BY <1>1, <2>1
    <2> HIDE DEF m
    <2>3. MaskBytes + m <= room
      BY <2>2
    <2> QED BY <2>3 DEF m
  <1>3. Snd!FieldsWritten(bits, room) = bits
    BY <1>2 DEF Snd!FieldsWritten
  <1>4. ~(MaskBytes > room)
    OBVIOUS
  <1>5. Snd!ValueBytes(bits, room) = MaskBytes + FieldBytes * Snd!Cardinality(bits)
    BY <1>3, <1>4 DEF Snd!ValueBytes
  <1>6. /\ FieldBytes * Snd!Cardinality(bits) \in Nat
        /\ FieldBytes * Snd!Cardinality(bits) <= FieldBytes * Cardinality(Field)
    BY <1>1
  <1> DEFINE m == FieldBytes * Snd!Cardinality(bits)
  <1> HIDE DEF m
  <1>7. m \in Nat /\ m <= FieldBytes * Cardinality(Field)
        /\ Snd!ValueBytes(bits, room) = MaskBytes + m
    BY <1>5, <1>6 DEF m
  <1>8. /\ Snd!ValueBytes(bits, room) \in Int
        /\ Snd!ValueBytes(bits, room) <= UpdateBytes - 9
    BY <1>7
  <1> QED BY <1>3, <1>8

(* Before each queued channel there is room for a whole update. *)
LEMMA RoomEnough ==
  ASSUME SenderInv, QueueInv, AllFit
  PROVE  \A i \in 1 .. Len(update_deque) :
           Snd!RoomAfter[i - 1] \in Int /\ Snd!RoomAfter[i - 1] >= UpdateBytes
  <1> USE Sizes
  <1> DEFINE K == UpdateBytes
             N == Cardinality(Chan)
             L == Len(update_deque)
             room == Snd!RoomAfter
  <1>0. L \in Nat /\ update_deque \in [1 .. L -> Chan]
    BY DEF SenderInv
  <1>1. L <= N
    <2>1. update_deque \in Injection(1 .. L, Chan)
      BY <1>0 DEF QueueInv, Distinct, Injection, IsInjective
    <2>2. Cardinality(1 .. L) <= Cardinality(Chan)
      <3> HIDE DEF L
      <3> QED BY <2>1, ChanAssumption, FS_Injection
    <2>3. Cardinality(1 .. L) = L
      <3> HIDE DEF L
      <3>1. 1 \in Int /\ L \in Int
        BY <1>0
      <3> QED BY <1>0, <3>1, FS_Interval
    <2> QED BY <2>2, <2>3
  <1>2. \A i \in 0 .. L : room[i] = IF i = 0 THEN PVADataRoom ELSE NextRoom(i, room[i - 1])
    BY <1>0, RoomIs
  <1>3. N * K <= PVADataRoom
    BY DEF AllFit
  <1> HIDE DEF room, K, N, L
  <1>k. K \in Nat /\ N \in Nat /\ K = UpdateBytes
    BY DEF K, N
  <1> DEFINE S == {n \in Nat : n <= L => room[n] \in Int /\ room[n] >= (N - n) * K}
  <1>4. 0 \in S
    BY <1>0, <1>2, <1>3, <1>k
  <1>5. ASSUME NEW n \in Nat, n \in S PROVE n + 1 \in S
    <2> SUFFICES ASSUME n + 1 <= L
                 PROVE  room[n + 1] \in Int /\ room[n + 1] >= (N - (n + 1)) * K
      OBVIOUS
    <2>1. n <= L /\ n + 1 \in 0 .. L /\ n + 1 # 0 /\ (n + 1) - 1 = n /\ n + 1 \in 1 .. L
      BY <1>0
    <2>2. room[n] \in Int /\ room[n] >= (N - n) * K
      BY <1>5, <2>1
    <2>3. room[n + 1] = NextRoom(n + 1, room[n])
      BY <1>2, <2>1
    <2> DEFINE a == N - n
    <2>4. a \in Int /\ a >= 1 /\ N - (n + 1) = a - 1
      BY <1>0, <1>1, <1>k
    <2> HIDE DEF a
    <2>5. /\ a * K \in Int /\ (a - 1) * K = a * K - K
          /\ (a - 1) * K \in Int /\ (a - 1) * K >= 0
      <3>1. a * K \in Int /\ (a - 1) * K = a * K - K
        BY <1>k, <2>4, OneMore
      <3>2. a - 1 \in Int /\ a - 1 >= 0
        BY <2>4
      <3>3. (a - 1) * K >= 0
        BY <1>k, <3>2, OneMore
      <3> QED BY <1>k, <3>1, <3>3
    <2>6. room[n] >= a * K
      BY <2>2 DEF a
    <2> DEFINE x == a * K
    <2> HIDE DEF x
    <2>7. x \in Int /\ room[n] >= x /\ x - K >= 0 /\ room[n] >= K
      BY <1>k, <2>2, <2>5, <2>6 DEF x
    <2> DEFINE ch == chan[update_deque[n + 1]]
               hd == Snd!ChannelDataBytes(ch.pending_update)
               bits == Snd!BitsOf(ch)
    <2>8. bits \in SUBSET Field
      <3>1. ch \in ChanRecord
        BY <1>0, <2>1 DEF SenderInv
      <3> QED BY <3>1 DEF Snd!BitsOf, ChanRecord
    <2>9. hd \in {7, 9}
      BY DEF Snd!ChannelDataBytes
    <2>10. Snd!HeaderFits(room[n], ch.pending_update)
      <3>1. room[n] >= 9
        BY <1>k, <2>2, <2>7
      <3> QED BY <2>2, <3>1
          DEF Snd!HeaderFits, Snd!PVAChannelDataSize, Snd!ChannelDataBytes
    <2>11. room[n + 1] = (room[n] - hd) - Snd!ValueBytes(bits, room[n] - hd)
      BY <2>3, <2>10 DEF NextRoom
    <2> HIDE DEF hd, bits
    <2>12. room[n] - hd \in Int /\ room[n] - hd >= UpdateBytes - 9
      BY <1>k, <2>2, <2>7, <2>9
    <2>13. /\ Snd!ValueBytes(bits, room[n] - hd) \in Int
           /\ Snd!ValueBytes(bits, room[n] - hd) <= UpdateBytes - 9
      BY <2>8, <2>12, AllWritten
    <2>14. room[n + 1] \in Int /\ room[n + 1] >= x - K
      BY <1>k, <2>2, <2>7, <2>9, <2>11, <2>13
    <2> QED BY <2>4, <2>5, <2>14 DEF x
  <1>6. Nat \subseteq S
    <2> HIDE DEF S
    <2> QED BY <1>4, <1>5, SetInduction
  <1>7. ASSUME NEW i \in 1 .. L PROVE room[i - 1] \in Int /\ room[i - 1] >= K
    <2>1. i - 1 \in Nat /\ i - 1 <= L /\ N - (i - 1) \in Int /\ N - (i - 1) >= 1
      BY <1>0, <1>1, <1>k
    <2>2. i - 1 \in S
      BY <1>6, <2>1
    <2>3. room[i - 1] \in Int /\ room[i - 1] >= (N - (i - 1)) * K
      BY <2>1, <2>2
    <2> DEFINE a == N - (i - 1)
    <2> HIDE DEF a
    <2>4. a \in Int /\ a >= 1 /\ room[i - 1] >= a * K
      BY <2>1, <2>3 DEF a
    <2>5. a * K \in Int /\ (a - 1) * K = a * K - K
      BY <1>k, <2>4, OneMore
    <2>6. (a - 1) * K >= 0
      <3>1. a - 1 \in Int /\ a - 1 >= 0
        BY <2>4
      <3> QED BY <1>k, <3>1, OneMore
    <2> QED BY <1>k, <2>3, <2>4, <2>5, <2>6
  <1> QED BY <1>7 DEF room, K, L

(* The first event of a source has all fields (README). *)
AllMarked == FirstMarked = {Field}

(* A source that is up has told of it, with the last event it queued or a  *)
(* channel that is connected; and only the next event of a channel that is *)
(* connected may lack fields.                                              *)
EventsOf(s, q, ch) ==
  /\ s.up => \A f \in Field : s.value.val[f] # Default
  /\ s.up /\ q # << >> => q[Len(q)].kind = "value"
  /\ s.up /\ q = << >> => ch.connected
  /\ \A i \in 1 .. Len(q) :
       q[i].kind = "value" /\ (i > 1 \/ ~ch.connected) => q[i].fields = Field

(* All fields of a structure are valid, and in a full update. *)
MarksOf(ch) ==
  /\ ch.value # NoValue => ch.valid = Field
  /\ ch.pending_update = "Full" => ch.changed_mask = Field

(* What of a structure differs from v is marked. *)
Held(ch, v) ==
  ch.value # NoValue =>
    \A f \in Field :
      \/ v # NoValue /\ v.type = ch.value.type /\ v.val[f] = ch.value.val[f]
      \/ ch.pending_update # "None" /\ f \in ch.changed_mask

ChangeInv ==
  /\ sent \in [Chan -> Structure \cup {NoValue}]
  /\ \A c \in Chan : /\ EventsOf(src[c], events[c], chan[c])
                     /\ MarksOf(chan[c])
                     /\ AllFit => Held(chan[c], sent[c])

(* No structure is the null value. *)
LEMMA NotNull == NoValue \notin Structure
  BY NoValueAssumption DEF Structure

(* A source queues an event. *)
LEMMA EventsQueued ==
  ASSUME NEW s \in SourceRecord, NEW t \in SourceRecord, NEW ch \in ChanRecord,
         NEW q \in Seq(Event), NEW e \in Event, EventsOf(s, q, ch),
         \/ e.kind = "disconnect" /\ ~t.up
         \/ /\ e.kind = "value" /\ (e.fields = Field \/ s.up)
            /\ \A f \in Field : t.value.val[f] # Default
  PROVE  EventsOf(t, Snd!Queued(q, e), ch)
  <1> DEFINE r == Snd!Queued(q, e)
             m == [e EXCEPT !.fields = @ \cup q[Len(q)].fields]
  <1>0. Len(q) \in Nat /\ (q # << >> => Len(q) \in 1 .. Len(q)) /\ (q = << >> => Len(q) = 0)
    OBVIOUS
  <1>1. /\ t.up => \A f \in Field : t.value.val[f] # Default
        /\ s.up /\ q # << >> => q[Len(q)].kind = "value"
        /\ s.up /\ q = << >> => ch.connected
        /\ \A i \in 1 .. Len(q) :
             q[i].kind = "value" /\ (i > 1 \/ ~ch.connected) => q[i].fields = Field
    BY DEF EventsOf
  <1>2. r \in Seq(Event) /\ r # << >>
    BY QueuedIs
  <1> SUFFICES /\ t.up => r[Len(r)].kind = "value"
               /\ \A i \in 1 .. Len(r) :
                    r[i].kind = "value" /\ (i > 1 \/ ~ch.connected) => r[i].fields = Field
    BY <1>1, <1>2 DEF EventsOf
  <1>3. CASE q # << >> /\ q[Len(q)].kind = "value" /\ e.kind = "value"
    <2>1. r = [q EXCEPT ![Len(q)] = m]
      BY <1>3 DEF Snd!Queued
    <2>2. q[Len(q)] \in ValueEvents /\ e \in ValueEvents
      BY <1>0, <1>3 DEF Event
    <2>3. m.kind = "value" /\ m.fields = e.fields \cup q[Len(q)].fields /\ e.fields \subseteq Field
      BY <2>2 DEF ValueEvents
    <2> HIDE DEF m, r, Event
    <2>4. Len(r) = Len(q) /\ r[Len(q)] = m /\ \A i \in 1 .. Len(q) : i # Len(q) => r[i] = q[i]
      BY <1>0, <1>3, <2>1
    <2>5. Len(q) > 1 \/ ~ch.connected => m.fields = Field
      BY <1>0, <1>1, <1>3, <2>3
    <2> QED BY <1>0, <1>1, <2>3, <2>4, <2>5
  <1>4. CASE ~(q # << >> /\ q[Len(q)].kind = "value" /\ e.kind = "value")
    <2>1. r = Append(q, e)
      BY <1>4 DEF Snd!Queued
    <2> HIDE DEF r, Event
    <2>2. /\ Len(r) = Len(q) + 1 /\ r[Len(q) + 1] = e
          /\ \A i \in 1 .. Len(q) : r[i] = q[i]
      BY <2>1
    <2>3. t.up => e.kind = "value"
      OBVIOUS
    <2>4. e.kind = "value" /\ (Len(q) + 1 > 1 \/ ~ch.connected) => e.fields = Field
      BY <1>0, <1>1, <1>4
    <2>5. \A i \in 1 .. Len(r) : i \in 1 .. Len(q) \/ i = Len(q) + 1
      BY <1>0, <2>2
    <2> QED BY <1>1, <2>2, <2>3, <2>4, <2>5
  <1> QED BY <1>3, <1>4

(* The worker takes the next event, and is connected if it was a value. *)
LEMMA EventsPopped ==
  ASSUME NEW s, NEW ch, NEW new, NEW q \in Seq(Event), q # << >>, EventsOf(s, q, ch),
         Head(q).kind = "value" => new.connected
  PROVE  EventsOf(s, Tail(q), new)
  <1> DEFINE r == Tail(q)
  <1> HIDE DEF Event
  <1>0. /\ Len(q) \in Nat /\ Len(q) >= 1 /\ Len(r) = Len(q) - 1 /\ Head(q) = q[1]
        /\ \A i \in 1 .. Len(r) : r[i] = q[i + 1]
    OBVIOUS
  <1>1. Len(<< >>) = 0 /\ r \in Seq(Event)
    OBVIOUS
  <1> HIDE DEF r
  <1>2. /\ s.up => \A f \in Field : s.value.val[f] # Default
        /\ s.up => q[Len(q)].kind = "value"
        /\ \A i \in 1 .. Len(q) :
             q[i].kind = "value" /\ (i > 1 \/ ~ch.connected) => q[i].fields = Field
    BY DEF EventsOf
  <1>3. s.up /\ r # << >> => r[Len(r)].kind = "value"
    <2> SUFFICES ASSUME s.up, r # << >> PROVE r[Len(r)].kind = "value"
      OBVIOUS
    <2>1. Len(r) \in 1 .. Len(r)
      BY <1>1
    <2>2. Len(r) + 1 = Len(q)
      BY <1>0
    <2> QED BY <1>0, <1>2, <2>1, <2>2
  <1>4. s.up /\ r = << >> => new.connected
    <2> SUFFICES ASSUME s.up, r = << >> PROVE new.connected
      OBVIOUS
    <2>1. Len(q) = 1
      BY <1>0, <1>1
    <2> QED BY <1>0, <1>2, <2>1
  <1>5. \A i \in 1 .. Len(r) :
          r[i].kind = "value" /\ (i > 1 \/ ~new.connected) => r[i].fields = Field
    <2> SUFFICES ASSUME NEW i \in 1 .. Len(r), r[i].kind = "value" PROVE r[i].fields = Field
      OBVIOUS
    <2>1. i + 1 \in 1 .. Len(q) /\ i + 1 > 1 /\ r[i] = q[i + 1]
      BY <1>0
    <2> QED BY <1>2, <2>1
  <1>6. EventsOf(s, r, new)
    BY <1>2, <1>3, <1>4, <1>5 DEF EventsOf
  <1> QED BY <1>6 DEF r

(* A channel is marked, for a change of some fields or for a full update.  *)
LEMMA ChangeMarked ==
  ASSUME NEW old \in ChanRecord, NEW ch \in ChanRecord, NEW v, NEW kind \in {"Partial", "Full"},
         ch.value # NoValue, ch.valid = Field,
         ch.pending_update = old.pending_update, MarksOf(old),
         \/ kind = "Full" /\ ch.changed_mask = old.changed_mask
         \/ /\ old.value # NoValue /\ ch.value.type = old.value.type
            /\ old.changed_mask \subseteq ch.changed_mask
            /\ \A f \in Field \ ch.changed_mask : ch.value.val[f] = old.value.val[f]
  PROVE  LET r == Snd!mark_update(ch, kind)
         IN MarksOf(r) /\ (kind = "Full" \/ Held(old, v) => Held(r, v)) /\ r.value = ch.value
  <1> DEFINE r == Snd!mark_update(ch, kind)
  <1>1. /\ r.pending_update # "None"
        /\ r.value = ch.value /\ r.valid = ch.valid
        /\ r.pending_update = "Full" <=> kind = "Full" \/ ch.pending_update = "Full"
        /\ r.changed_mask = IF kind = "Full" /\ ch.pending_update # "Full"
                            THEN ch.valid ELSE ch.changed_mask
    BY MarkIs
  <1>2. /\ old.pending_update = "Full" => old.changed_mask = Field
        /\ ch.changed_mask \subseteq Field
    BY DEF MarksOf, ChanRecord
  <1>m. ASSUME ch.pending_update = "Full" PROVE ch.changed_mask = Field
    <2>1. old.changed_mask = Field
      BY <1>2, <1>m
    <2>2. old.changed_mask \subseteq ch.changed_mask
      OBVIOUS
    <2> QED BY <1>2, <2>1, <2>2
  <1> HIDE DEF r
  <1>3. MarksOf(r)
    <2>1. r.value # NoValue => r.valid = Field
      BY <1>1
    <2>2. r.pending_update = "Full" => r.changed_mask = Field
      BY <1>1, <1>m
    <2> QED BY <2>1, <2>2 DEF MarksOf
  <1>4. ASSUME kind = "Full" \/ Held(old, v) PROVE Held(r, v)
    <2>1. CASE kind = "Full"
      <3>1. r.changed_mask = Field
        BY <1>1, <1>3, <2>1 DEF MarksOf
      <3> QED BY <1>1, <3>1 DEF Held
    <2>2. CASE kind # "Full"
      <3>1. r.changed_mask = ch.changed_mask
        BY <1>1, <2>2
      <3> QED BY <1>1, <1>4, <2>2, <3>1 DEF Held
    <2> QED BY <2>1, <2>2
  <1> QED BY <1>1, <1>3, <1>4 DEF r

(* Changes: a source connects, changes or disconnects. *)
LEMMA ChangeSource ==
  ASSUME AllMarked, TypeInv, ChangeInv, Source
  PROVE  ChangeInv'
  <1>0. /\ src \in [Chan -> SourceRecord] /\ events \in [Chan -> Seq(Event)]
        /\ chan \in [Chan -> ChanRecord]
        /\ \A c \in Chan : src[c].up => src[c].value \in Structure
    BY DEF TypeInv, SourceInv, SenderInv
  (* What the three have in common. *)
  <1>n. ASSUME NEW c \in Chan, NEW t \in SourceRecord, NEW e \in Event,
               src' = [src EXCEPT ![c] = t], Snd!Notify(c, e),
               \/ e.kind = "disconnect" /\ ~t.up
               \/ /\ e.kind = "value" /\ (e.fields = Field \/ src[c].up)
                  /\ \A f \in Field : t.value.val[f] # Default
        PROVE  ChangeInv'
    <2>1. /\ events' = [events EXCEPT ![c] = Snd!Queued(events[c], e)]
          /\ chan' = chan /\ sent' = sent
      BY <1>0, <1>n DEF Snd!Notify, Snd!workerVars
    <2>2. EventsOf(src[c], events[c], chan[c]) /\ src[c] \in SourceRecord
          /\ chan[c] \in ChanRecord /\ events[c] \in Seq(Event)
      BY <1>0 DEF ChangeInv
    <2>3. EventsOf(t, Snd!Queued(events[c], e), chan[c])
      BY <1>n, <2>2, EventsQueued
    <2> DEFINE r == Snd!Queued(events[c], e)
    <2> HIDE DEF r
    <2>4. ASSUME NEW d \in Chan PROVE EventsOf(src'[d], events'[d], chan'[d])
      <3>1. CASE d = c
        <4>1. src'[d] = t /\ events'[d] = r /\ chan'[d] = chan[c]
          BY <1>0, <1>n, <2>1, <3>1 DEF r
        <4> QED BY <2>3, <4>1 DEF r
      <3>2. CASE d # c
        <4>1. src'[d] = src[d] /\ events'[d] = events[d] /\ chan'[d] = chan[d]
          BY <1>0, <1>n, <2>1, <3>2
        <4> QED BY <4>1 DEF ChangeInv
      <3> QED BY <3>1, <3>2
    <2> QED BY <2>1, <2>4 DEF ChangeInv
  <1>1. ASSUME NEW c \in Chan, Snd!SourceConnects(c) PROVE ChangeInv'
    <2> DEFINE n == src[c].changes + 1
    <2>1. PICK t \in TypesOf[c], fields \in FirstMarked :
            LET s == [up |-> TRUE, changes |-> n, sess |-> src[c].sess + 1,
                      value |-> Snd!Struct(t, [f \in Field |-> IF f \in fields THEN n
                                                               ELSE Default])]
            IN /\ n <= MaxChange[c] /\ src' = [src EXCEPT ![c] = s]
               /\ Snd!Notify(c, Snd!ValueEvent(s, fields))
      BY <1>1 DEF Snd!SourceConnects
    <2> DEFINE v == [f \in Field |-> IF f \in fields THEN n ELSE Default]
               s == [up |-> TRUE, changes |-> n, sess |-> src[c].sess + 1,
                     value |-> Snd!Struct(t, v)]
               e == Snd!ValueEvent(s, fields)
    <2>2. src[c].changes \in Nat /\ src[c].sess \in Nat /\ n \in Nat /\ n # 0
      BY <1>0 DEF SourceRecord
    <2>3. n \in Data /\ Default \in Data /\ n # Default
      BY <2>1, <2>2, SourceAssumption, FieldAssumption
    <2>4. t \in Type /\ fields = Field
      BY SourceAssumption DEF AllMarked
    <2>5. v \in [Field -> Data] /\ \A f \in Field : v[f] # Default
      BY <2>3, <2>4
    <2> HIDE DEF v, n
    <2>6. s \in SourceRecord /\ s.value \in Structure /\ s.value.val = v
      BY <2>2, <2>4, <2>5 DEF SourceRecord, Structure, Snd!Struct
    <2>7. e \in Event /\ e.kind = "value" /\ e.fields = Field
      BY <2>2, <2>4, <2>6 DEF Event, ValueEvents, Snd!ValueEvent
    <2>8. src' = [src EXCEPT ![c] = s] /\ Snd!Notify(c, e)
      BY <2>1 DEF v, n
    <2> HIDE DEF s, e
    <2> QED BY <1>n, <2>5, <2>6, <2>7, <2>8
  <1>2. ASSUME NEW c \in Chan, Snd!SourceDisconnects(c) PROVE ChangeInv'
    <2> DEFINE s == [src[c] EXCEPT !.up = FALSE]
               e == Snd!DisconnectEvent
    <2>1. src' = [src EXCEPT ![c] = s] /\ Snd!Notify(c, e)
      BY <1>0, <1>2 DEF Snd!SourceDisconnects
    <2>2. s \in SourceRecord /\ ~s.up
      BY <1>0 DEF SourceRecord
    <2>3. e \in Event /\ e.kind = "disconnect"
      BY DEF Snd!DisconnectEvent, Event
    <2> HIDE DEF s, e
    <2> QED BY <1>n, <2>1, <2>2, <2>3
  <1>3. ASSUME NEW c \in Chan, NEW fields \in SUBSET Field, Snd!SourceChanges(c, fields)
        PROVE  ChangeInv'
    <2> DEFINE n == src[c].changes + 1
               old == src[c].value.val
               v == [f \in Field |-> IF f \in fields THEN n ELSE old[f]]
               s == [src[c] EXCEPT !.changes = n, !.value.val = v]
               e == Snd!ValueEvent(s, fields)
    <2>1. /\ src[c].up /\ n <= MaxChange[c]
          /\ src' = [src EXCEPT ![c] = s] /\ Snd!Notify(c, e)
      BY <1>3 DEF Snd!SourceChanges
    <2>2. src[c] \in SourceRecord /\ src[c].value \in Structure
      BY <1>0, <2>1
    <2>3. n \in Nat /\ n \in Data /\ n # Default /\ old \in [Field -> Data]
      BY <2>1, <2>2, SourceAssumption DEF SourceRecord, Structure
    <2>4. \A f \in Field : old[f] # Default
      BY <2>1 DEF ChangeInv, EventsOf
    <2>5. v \in [Field -> Data] /\ \A f \in Field : v[f] # Default
      <3> HIDE DEF n, old
      <3> QED BY <2>3, <2>4
    <2> HIDE DEF v, n
    <2>6. s \in SourceRecord /\ s.value \in Structure /\ s.value.val = v
      BY <2>1, <2>2, <2>3, <2>5 DEF SourceRecord, Structure
    <2>7. e \in Event /\ e.kind = "value"
      BY <2>6 DEF Event, ValueEvents, Snd!ValueEvent, SourceRecord
    <2> HIDE DEF s, e
    <2> QED BY <1>n, <2>1, <2>5, <2>6, <2>7
  <1> QED BY <1>1, <1>2, <1>3 DEF Source, Snd!Source

(* Changes: an event of a source is handled. *)
LEMMA ChangeEvent ==
  ASSUME TypeInv, ChangeInv, NEW c \in Chan,
         Snd!FirstValue(c) \/ Snd!NextValue(c) \/ Snd!Disconnection(c)
  PROVE  ChangeInv'
  <1> DEFINE e == Head(events[c])
             old == chan[c]
  <1>p. Snd!PopEvent(c)
    BY DEF Snd!FirstValue, Snd!NextValue, Snd!Disconnection
  <1>e. /\ events[c] # << >> /\ events[c] \in Seq(Event) /\ e \in Event
        /\ e.kind = "disconnect" => old.value \in Structure
    BY <1>p, PopIs
  <1>c. /\ chan \in [Chan -> ChanRecord] /\ old \in ChanRecord
        /\ events \in [Chan -> Seq(Event)]
        /\ old.connected => old.value \in Structure
    BY DEF TypeInv, SourceInv, SenderInv
  <1>h. /\ EventsOf(src[c], events[c], old) /\ MarksOf(old)
        /\ AllFit => Held(old, sent[c])
    BY DEF ChangeInv
  <1>u. /\ src' = src /\ sent' = sent
        /\ events' = [events EXCEPT ![c] = Tail(events[c])]
    BY <1>c, <1>p DEF Snd!PopEvent
  <1>f. e.kind = "value" /\ ~old.connected => e.fields = Field
    <2>1. 1 \in 1 .. Len(events[c]) /\ e = events[c][1]
      <3> HIDE DEF Event
      <3> QED BY <1>e
    <2> QED BY <1>h, <2>1 DEF EventsOf
  <1> HIDE DEF e, old
  (* What the three have in common. *)
  <1>m. ASSUME NEW ch \in ChanRecord, NEW kind \in {"Partial", "Full"},
               chan' = [chan EXCEPT ![c] = Snd!mark_update(ch, kind)],
               ch.value # NoValue, ch.valid = Field, ch.connected = (e.kind = "value"),
               ch.pending_update = old.pending_update,
               \/ kind = "Full" /\ ch.changed_mask = old.changed_mask
               \/ /\ old.value # NoValue /\ ch.value.type = old.value.type
                  /\ old.changed_mask \subseteq ch.changed_mask
                  /\ \A f \in Field \ ch.changed_mask : ch.value.val[f] = old.value.val[f]
        PROVE  ChangeInv'
    <2> DEFINE r == Snd!mark_update(ch, kind)
    <2>1. MarksOf(r) /\ (AllFit => Held(r, sent[c]))
      BY <1>c, <1>h, <1>m, ChangeMarked
    <2>2. r.connected = ch.connected
      BY <1>m, MarkIs
    <2> HIDE DEF r
    <2>3. EventsOf(src[c], Tail(events[c]), r)
      BY <1>e, <1>h, <1>m, <2>2, EventsPopped DEF e
    <2>4. ASSUME NEW d \in Chan
          PROVE  /\ EventsOf(src'[d], events'[d], chan'[d])
                 /\ MarksOf(chan'[d]) /\ (AllFit => Held(chan'[d], sent'[d]))
      <3>1. CASE d = c
        <4>1. /\ src'[d] = src[c] /\ events'[d] = Tail(events[c]) /\ chan'[d] = r
              /\ sent'[d] = sent[c]
          BY <1>c, <1>m, <1>u, <3>1 DEF r
        <4> QED BY <2>1, <2>3, <4>1
      <3>2. CASE d # c
        <4>1. /\ src'[d] = src[d] /\ events'[d] = events[d] /\ chan'[d] = chan[d]
              /\ sent'[d] = sent[d]
          BY <1>c, <1>m, <1>u, <3>2
        <4> QED BY <4>1 DEF ChangeInv
      <3> QED BY <3>1, <3>2
    <2> QED BY <1>u, <2>4 DEF ChangeInv
  <1>1. CASE Snd!FirstValue(c)
    <2> DEFINE tid == Snd!TypeId(typeCache, e.of.type)
               ch == [old EXCEPT !.connected = TRUE, !.value = e.of, !.valid = e.fields,
                                 !.type_id = tid, !.update_seq_no = 0, !.sess = e.sess,
                                 !.no = 0]
    <2>1. /\ e.kind = "value" /\ ~old.connected
          /\ chan' = [chan EXCEPT ![c] = Snd!mark_update(ch, "Full")]
      BY <1>1 DEF Snd!FirstValue, Snd!Connected, e, old
    <2>2. /\ e.of \in Structure /\ e.of.type \in Type /\ e.fields = Field /\ e.sess \in Nat
      BY <1>e, <1>f, <2>1 DEF Event, ValueEvents, Structure
    <2>3. tid \in Nat /\ 0 \in 0 .. SeqMod - 1
      <3>1. typeCache \in Seq(Type)
        BY DEF TypeInv, SenderInv
      <3>2. tid \in Nat
        BY <2>2, <3>1, CacheIs
      <3> QED BY <3>2, Numbers
    <2> HIDE DEF tid
    <2>4. /\ ch \in ChanRecord /\ ch.value = e.of /\ ch.valid = Field /\ ch.connected
          /\ ch.pending_update = old.pending_update /\ ch.changed_mask = old.changed_mask
      BY <1>c, <2>2, <2>3 DEF ChanRecord
    <2>5. ch.value # NoValue
      BY <2>2, <2>4, NotNull
    <2> HIDE DEF ch
    <2> QED BY <1>m, <2>1, <2>4, <2>5
  <1>2. CASE Snd!NextValue(c)
    <2> DEFINE v == [f \in Field |-> IF f \in e.fields THEN e.of.val[f] ELSE old.value.val[f]]
               ch == [old EXCEPT !.value.val = v, !.changed_mask = @ \cup e.fields]
    <2>1. /\ e.kind = "value" /\ old.connected
          /\ chan' = [chan EXCEPT ![c] = Snd!mark_update(ch, "Partial")]
      BY <1>2 DEF Snd!NextValue, Snd!merge, e, old
    <2>2. e.of.val \in [Field -> Data] /\ e.fields \in SUBSET Field
      BY <1>e, <2>1 DEF Event, ValueEvents, Structure
    <2>3. old.value \in Structure /\ old.value.val \in [Field -> Data] /\ old.value # NoValue
      BY <1>c, <2>1, NotNull DEF Structure
    <2>4. v \in [Field -> Data] /\ \A f \in Field \ e.fields : v[f] = old.value.val[f]
      BY <2>2, <2>3
    <2> HIDE DEF v
    <2>5. /\ ch \in ChanRecord /\ ch.value \in Structure
          /\ ch.value.val = v /\ ch.value.type = old.value.type
          /\ ch.valid = old.valid /\ ch.connected = old.connected
          /\ ch.pending_update = old.pending_update
          /\ ch.changed_mask = old.changed_mask \cup e.fields
      BY <1>c, <2>2, <2>3, <2>4 DEF ChanRecord, Structure
    <2>6. ch.value # NoValue /\ ch.valid = Field
      BY <1>h, <2>3, <2>5, NotNull DEF MarksOf
    <2> HIDE DEF ch
    <2>7. \A f \in Field \ ch.changed_mask : ch.value.val[f] = old.value.val[f]
      BY <2>4, <2>5
    <2>8. ch.connected = (e.kind = "value")
      BY <2>1, <2>5
    <2> QED BY <1>m, <2>1, <2>3, <2>5, <2>6, <2>7, <2>8
  <1>3. CASE Snd!Disconnection(c)
    <2> DEFINE ch == [old EXCEPT !.connected = FALSE]
    <2>1. /\ e.kind = "disconnect" /\ old.value \in Structure
          /\ chan' = [chan EXCEPT ![c] = Snd!mark_update(ch, "Partial")]
      BY <1>3, <1>e DEF Snd!Disconnection, e, old
    <2>2. /\ ch \in ChanRecord /\ ch.value = old.value /\ ~ch.connected
          /\ ch.valid = old.valid /\ ch.pending_update = old.pending_update
          /\ ch.changed_mask = old.changed_mask /\ ch.connected \in BOOLEAN
      BY <1>c DEF ChanRecord
    <2>3. old.value # NoValue /\ old.valid = Field
      BY <1>h, <2>1, NotNull DEF MarksOf
    <2> HIDE DEF ch
    <2>4. ch.connected = (e.kind = "value")
      BY <2>1, <2>2
    <2> QED BY <1>m, <2>1, <2>2, <2>3, <2>4
  <1> QED BY <1>1, <1>2, <1>3

(* What the receivers hold of a channel once its update is sent: its       *)
(* structure, if the update was sent whole.                                *)
LEMMA SentWhole ==
  ASSUME NEW ch \in ChanRecord, ch.value \in Structure, NEW old \in Structure \cup {NoValue},
         NEW en \in Update, en.of = ch.value
  PROVE  LET v == Snd!SentValue(old, en)
         IN /\ v \in Structure /\ v.type = ch.value.type
            /\ Held(ch, old) /\ en.got = ch.changed_mask =>
                 \A f \in Field : v.val[f] = ch.value.val[f]
  <1> DEFINE of == en.of
             isnew == old = NoValue \/ old.type # of.type
             onto == IF isnew THEN Snd!cloneEmpty(of.type) ELSE old
             w == [f \in Field |-> IF f \in en.got THEN of.val[f] ELSE onto.val[f]]
             v == Snd!SentValue(old, en)
  <1>1. v = [type |-> of.type, val |-> w]
    BY DEF Snd!SentValue, Snd!Struct
  <1>2. ch.value # NoValue /\ of.type \in Type /\ of.val \in [Field -> Data]
    BY NotNull DEF Structure
  <1>3. onto.val \in [Field -> Data]
    <2>1. CASE isnew
      <3>1. onto = [type |-> of.type, val |-> [f \in Field |-> Default]]
        BY <2>1 DEF Snd!cloneEmpty, Snd!Struct
      <3> QED BY <3>1, FieldAssumption
    <2>2. CASE ~isnew
      <3>1. onto = old /\ old \in Structure
        BY <2>2
      <3> HIDE DEF onto
      <3> QED BY <3>1 DEF Structure
    <2> QED BY <2>1, <2>2
  <1>4. ASSUME Held(ch, old), en.got = ch.changed_mask, NEW f \in Field, f \notin en.got
        PROVE  onto.val[f] = of.val[f]
    <2>1. old # NoValue /\ old.type = ch.value.type /\ old.val[f] = ch.value.val[f]
      BY <1>2, <1>4 DEF Held
    <2>2. onto = old
      BY <2>1
    <2> QED BY <2>1, <2>2
  <1> HIDE DEF onto
  <1>5. /\ w \in [Field -> Data]
        /\ Held(ch, old) /\ en.got = ch.changed_mask => \A f \in Field : w[f] = of.val[f]
    BY <1>2, <1>3, <1>4
  <1> HIDE DEF w, v
  <1>6. v \in Structure /\ v.type = of.type /\ v.val = w
    BY <1>1, <1>2, <1>5 DEF Structure
  <1> QED BY <1>5, <1>6 DEF v

(* Changes: send_updates.  All that is marked goes out, if it fits. *)
LEMMA ChangeSendMessage ==
  ASSUME TypeInv, ChangeInv, Snd!SendMessage
  PROVE  ChangeInv'
  <1> DEFINE n == Snd!PackedCount
             packed == {update_deque[i] : i \in 1 .. n}
             at(c) == CHOOSE i \in 1 .. n : update_deque[i] = c
  <1>1. /\ n \in 0 .. Len(update_deque) /\ n \in Nat
        /\ \A i \in 1 .. n : i \in 1 .. Len(update_deque) /\ update_deque[i] \in Chan
                             /\ Snd!Entry(i) \in Update
    BY PackedIs DEF TypeInv
  <1>c. /\ chan \in [Chan -> ChanRecord] /\ sent \in [Chan -> Structure \cup {NoValue}]
        /\ \A c \in Chan : chan[c].pending_update # "None" <=> c \in In(update_deque)
        /\ \A c \in Chan : chan[c].pending_update # "None" => chan[c].value \in Structure
    BY DEF TypeInv, SenderInv, QueueInv, ChangeInv
  <1>h. \A c \in Chan : /\ EventsOf(src[c], events[c], chan[c])
                        /\ MarksOf(chan[c]) /\ (AllFit => Held(chan[c], sent[c]))
    BY DEF ChangeInv
  <1>u. UNCHANGED <<src, events>>
    BY DEF Snd!SendMessage, Snd!sourceVars
  <1>2. CASE UNCHANGED <<chan, sent>>
    BY <1>u, <1>2 DEF ChangeInv
  <1>3. CASE /\ chan' = [c \in Chan |->
                  IF c \in packed
                  THEN Snd!clear_update([chan[c] EXCEPT
                         !.update_seq_no = Snd!NextSeq(chan[c].update_seq_no),
                         !.no = Snd!NextCount(chan[c].no)])
                  ELSE chan[c]]
             /\ sent' = [c \in Chan |->
                  IF c \in packed THEN Snd!SentValue(sent[c], Snd!Entry(at(c)))
                  ELSE sent[c]]
    <2>1. ASSUME NEW c \in Chan, c \in packed
          PROVE  /\ EventsOf(src[c], events[c], chan'[c])
                 /\ MarksOf(chan'[c]) /\ (AllFit => Held(chan'[c], sent'[c]))
                 /\ sent'[c] \in Structure
      <3> DEFINE ch == chan[c]
                 i == at(c)
                 r == Snd!RoomAfter[i - 1] - Snd!ChannelDataBytes(ch.pending_update)
                 v == Snd!SentValue(sent[c], Snd!Entry(i))
      <3>1. i \in 1 .. n /\ update_deque[i] = c
        <4>1. \E k \in 1 .. n : update_deque[k] = c
          BY <2>1
        <4> QED BY <4>1
      <3>2. sent'[c] = v
        BY <1>3, <2>1
      <3>3. chan'[c] = [ch EXCEPT !.update_seq_no = Snd!NextSeq(ch.update_seq_no),
                                  !.no = Snd!NextCount(ch.no),
                                  !.changed_mask = {}, !.pending_update = "None"]
        BY <1>3, <1>c, <2>1 DEF Snd!clear_update, ChanRecord
      <3> HIDE DEF i, n
      <3>4. c \in In(update_deque)
        BY <1>1, <3>1 DEF In
      <3>5. ch \in ChanRecord /\ ch.value \in Structure /\ ch.value # NoValue
        BY <1>c, <3>4, NotNull
      <3>6. /\ chan'[c].value = ch.value /\ chan'[c].valid = ch.valid
            /\ chan'[c].connected = ch.connected /\ chan'[c].pending_update = "None"
        BY <3>3, <3>5 DEF ChanRecord
      <3>7. /\ MarksOf(ch) /\ EventsOf(src[c], events[c], ch)
            /\ AllFit => Held(ch, sent[c])
        BY <1>h
      <3>8. Snd!BitsOf(ch) = ch.changed_mask
        BY <3>5, <3>7 DEF Snd!BitsOf, MarksOf, ChanRecord
      <3>9. ASSUME AllFit PROVE r \in Int /\ r >= UpdateBytes - 9
        <4>1. Snd!RoomAfter[i - 1] \in Int /\ Snd!RoomAfter[i - 1] >= UpdateBytes
          BY <1>1, <3>1, <3>9, RoomEnough DEF TypeInv
        <4>2. Snd!ChannelDataBytes(ch.pending_update) \in {7, 9}
          BY DEF Snd!ChannelDataBytes
        <4> QED BY <4>1, <4>2, Sizes
      <3>10. Snd!Entry(i).of = ch.value
             /\ Snd!Entry(i).got = Snd!FieldsWritten(Snd!BitsOf(ch), r)
        BY <3>1 DEF Snd!Entry, Snd!ChannelData
      <3>11. Snd!Entry(i) \in Update
        BY <1>1, <3>1
      <3> HIDE DEF r, ch
      <3>12. ASSUME AllFit PROVE Snd!Entry(i).got = ch.changed_mask
        <4>1. ch.changed_mask \in SUBSET Field
          BY <3>5 DEF ChanRecord
        <4> QED BY <3>8, <3>9, <3>10, <3>12, <4>1, AllWritten
      <3>13. /\ v \in Structure /\ v.type = ch.value.type
             /\ AllFit => \A f \in Field : v.val[f] = ch.value.val[f]
        <4>1. sent[c] \in Structure \cup {NoValue}
          BY <1>c
        <4> QED BY <3>5, <3>7, <3>10, <3>11, <3>12, <4>1, SentWhole
      <3>14. v # NoValue
        BY <3>13, NotNull
      <3> HIDE DEF v
      <3>15. ASSUME AllFit PROVE Held(chan'[c], sent'[c])
        BY <3>2, <3>6, <3>13, <3>14, <3>15 DEF Held
      <3>16. MarksOf(chan'[c])
        BY <3>6, <3>7 DEF MarksOf
      <3>17. EventsOf(src[c], events[c], chan'[c])
        BY <3>6, <3>7 DEF EventsOf
      <3> QED BY <3>2, <3>13, <3>15, <3>16, <3>17
    <2>2. ASSUME NEW c \in Chan, c \notin packed
          PROVE  chan'[c] = chan[c] /\ sent'[c] = sent[c]
      BY <1>3, <2>2
    <2> HIDE DEF packed, at
    <2>3. sent' \in [Chan -> Structure \cup {NoValue}]
      <3>1. sent' = [c \in Chan |-> sent'[c]]
        <4>1. sent' = [c \in Chan |-> IF c \in packed
                                      THEN Snd!SentValue(sent[c], Snd!Entry(at(c))) ELSE sent[c]]
          BY <1>3
        <4> QED BY <4>1, Zenon
      <3>2. \A c \in Chan : sent'[c] \in Structure \cup {NoValue}
        BY <1>c, <2>1, <2>2
      <3> QED BY <3>1, <3>2
    <2>4. \A c \in Chan : /\ EventsOf(src[c], events[c], chan'[c])
                          /\ MarksOf(chan'[c]) /\ (AllFit => Held(chan'[c], sent'[c]))
      BY <1>h, <2>1, <2>2
    <2> QED BY <1>u, <2>3, <2>4 DEF ChangeInv
  <1> QED BY <1>2, <1>3 DEF Snd!SendMessage

(* Changes: mark_heartbeat_updates. *)
LEMMA ChangeHeartbeats ==
  ASSUME TypeInv, ChangeInv, Snd!MarkHeartbeats
  PROVE  ChangeInv'
  <1>u. UNCHANGED <<src, events, sent>>
    BY DEF Snd!MarkHeartbeats, Snd!sourceVars
  <1>1. CASE pc' = "aborted" /\ UNCHANGED <<chan, update_deque>>
    BY <1>u, <1>1 DEF ChangeInv
  <1>2. CASE pc' = "updates"
    <2>1. /\ \A c \in Chan : chan[c].value \in Structure
          /\ chan' = [c \in Chan |-> Snd!mark_update(chan[c], "Full")]
      BY <1>2, HeartbeatIs
    <2>2. ASSUME NEW c \in Chan
          PROVE  /\ EventsOf(src[c], events[c], chan'[c])
                 /\ MarksOf(chan'[c]) /\ Held(chan'[c], sent[c])
      <3>1. chan[c] \in ChanRecord /\ chan[c].value # NoValue
        BY <2>1, NotNull DEF TypeInv, SenderInv
      <3>2. EventsOf(src[c], events[c], chan[c]) /\ MarksOf(chan[c])
        BY DEF ChangeInv
      <3>3. chan[c].valid = Field
        BY <3>1, <3>2 DEF MarksOf
      <3> DEFINE r == Snd!mark_update(chan[c], "Full")
      <3>4. MarksOf(r) /\ Held(r, sent[c])
        BY <3>1, <3>2, <3>3, ChangeMarked
      <3>5. r.connected = chan[c].connected
        BY <3>1, MarkIs
      <3> HIDE DEF r
      <3>6. EventsOf(src[c], events[c], r)
        BY <3>2, <3>5 DEF EventsOf
      <3>7. chan'[c] = r
        BY <2>1 DEF r
      <3> QED BY <3>4, <3>6, <3>7
    <2> QED BY <1>u, <2>2 DEF ChangeInv
  <1> QED BY <1>1, <1>2 DEF Snd!MarkHeartbeats

(* Changes: a new sender process. *)
LEMMA ChangeRestart ==
  ASSUME TypeInv, ChangeInv, Restart
  PROVE  ChangeInv'
  <1> DEFINE fields(c) == {f \in Field : src[c].value.val[f] # Default}
             ev(c) == Snd!ValueEvent(src'[c], fields(c))
  <1>1. /\ chan' = [c \in Chan |-> Snd!IdleChannel] /\ sent' = [c \in Chan |-> NoValue]
        /\ src' = [c \in Chan |-> IF src[c].up THEN [src[c] EXCEPT !.sess = @ + 1] ELSE src[c]]
        /\ events' = [c \in Chan |-> IF src[c].up THEN <<ev(c)>> ELSE << >>]
    BY DEF Restart, Snd!Restart
  <1>2. ASSUME NEW c \in Chan
        PROVE  /\ EventsOf(src'[c], events'[c], chan'[c])
               /\ MarksOf(chan'[c]) /\ Held(chan'[c], sent'[c])
    <2>1. chan'[c].value = NoValue /\ chan'[c].pending_update = "None"
      BY <1>1 DEF Snd!IdleChannel
    <2>2. MarksOf(chan'[c]) /\ Held(chan'[c], sent'[c])
      BY <2>1 DEF MarksOf, Held
    <2>3. src[c] \in SourceRecord /\ EventsOf(src[c], events[c], chan[c])
      BY DEF TypeInv, SourceInv, ChangeInv
    <2>4. src'[c].up = src[c].up /\ src'[c].value = src[c].value
      BY <1>1, <2>3 DEF SourceRecord
    <2>5. CASE src[c].up
      <3>1. fields(c) = Field
        BY <2>3, <2>5 DEF EventsOf
      <3>2. ev(c).kind = "value" /\ ev(c).fields = Field
        BY <3>1 DEF Snd!ValueEvent
      <3>3. events'[c] = <<ev(c)>>
        BY <1>1, <2>5
      <3> HIDE DEF ev
      <3>4. /\ Len(events'[c]) = 1 /\ events'[c][1] = ev(c) /\ events'[c] # << >>
        BY <3>3
      <3>5. \A f \in Field : src'[c].value.val[f] # Default
        BY <2>3, <2>4, <2>5 DEF EventsOf
      <3>6. EventsOf(src'[c], events'[c], chan'[c])
        BY <3>2, <3>4, <3>5 DEF EventsOf
      <3> QED BY <2>2, <3>6
    <2>6. CASE ~src[c].up
      <3>1. events'[c] = << >> /\ Len(<< >>) = 0
        BY <1>1, <2>6
      <3>2. EventsOf(src'[c], events'[c], chan'[c])
        BY <2>4, <2>6, <3>1 DEF EventsOf
      <3> QED BY <2>2, <3>2
    <2> QED BY <2>5, <2>6
  <1>3. sent' \in [Chan -> Structure \cup {NoValue}]
    BY <1>1
  <1> QED BY <1>2, <1>3 DEF ChangeInv

(* Changes: the invariant holds in every state. *)
LEMMA ChangeInvariant ==
  ASSUME AllMarked
  PROVE  Spec => []ChangeInv
  <1>1. Init => ChangeInv
    <2> SUFFICES ASSUME Init PROVE ChangeInv
      OBVIOUS
    <2>1. /\ sent = [c \in Chan |-> NoValue] /\ chan = [c \in Chan |-> Snd!IdleChannel]
          /\ events = [c \in Chan |-> << >>]
          /\ src = [c \in Chan |-> [up |-> FALSE, value |-> NoValue, changes |-> 0, sess |-> 0]]
      BY DEF Init, Snd!SndInit
    <2>2. ASSUME NEW c \in Chan
          PROVE  /\ EventsOf(src[c], events[c], chan[c])
                 /\ MarksOf(chan[c]) /\ Held(chan[c], sent[c])
      <3>1. ~src[c].up /\ Len(events[c]) = 0 /\ chan[c].value = NoValue
            /\ chan[c].pending_update = "None"
        BY <2>1 DEF Snd!IdleChannel
      <3> QED BY <3>1 DEF EventsOf, MarksOf, Held
    <2> QED BY <2>1, <2>2 DEF ChangeInv
  <1>2. TypeInv /\ ChangeInv /\ [Next]_vars => ChangeInv'
    <2> SUFFICES ASSUME TypeInv, ChangeInv, [Next]_vars PROVE ChangeInv'
      OBVIOUS
    <2>s. ASSUME UNCHANGED <<src, events, chan, sent>> PROVE ChangeInv'
      BY <2>s DEF ChangeInv
    <2>1. CASE Source
      BY <2>1, ChangeSource
    <2>2. CASE Worker
      <3>1. ASSUME Snd!EventsDone \/ Snd!SendTypedefs \/ Snd!UpdatesDone
            PROVE  UNCHANGED <<src, events, chan, sent>>
        BY <3>1 DEF Snd!EventsDone, Snd!SendTypedefs, Snd!UpdatesDone, Snd!sourceVars
      <3> QED BY <2>s, <2>2, <3>1, ChangeEvent, ChangeHeartbeats, ChangeSendMessage
              DEF Worker, Snd!Worker
    <2>3. CASE Restart
      BY <2>3, ChangeRestart
    <2>4. ASSUME NEW i \in 1 .. Len(net), Deliver(i) \/ Lose(i) \/ Duplicate(i)
          PROVE  ChangeInv'
      BY <2>s, <2>4 DEF Deliver, Lose, Duplicate, sndState
    <2>5. CASE Silence \/ UNCHANGED vars
      BY <2>s, <2>5 DEF Silence, vars, sndState
    <2> QED BY <2>1, <2>2, <2>3, <2>4, <2>5 DEF Next
  <1> QED BY <1>1, <1>2, TypeInvariant, PTL DEF Spec

(* NoLostChange holds in every reachable state, if the first event of a    *)
(* source marks all fields and all channels fit into one message: through  *)
(* changes, disconnections, connections with another type, heartbeats and  *)
(* restarts, a structure differs from what was sent of it only in fields   *)
(* that are marked (merge, mark_update, clear_update, send_updates).       *)
THEOREM PvaNoLostChange ==
  ASSUME AllMarked, AllFit
  PROVE  Spec => []NoLostChange
  <1>1. ChangeInv => NoLostChange
    <2> SUFFICES ASSUME ChangeInv, NEW c \in Chan, chan[c].value # NoValue,
                        NEW f \in Field
                 PROVE  \/ sent[c] # NoValue /\ sent[c].type = chan[c].value.type
                           /\ sent[c].val[f] = chan[c].value.val[f]
                        \/ chan[c].pending_update # "None" /\ f \in Snd!BitsOf(chan[c])
      BY DEF NoLostChange
    <2>1. MarksOf(chan[c]) /\ Held(chan[c], sent[c])
      BY DEF ChangeInv
    <2> QED BY <2>1 DEF MarksOf, Held, Snd!BitsOf
  <1> QED BY <1>1, ChangeInvariant, PTL
=============================================================================
