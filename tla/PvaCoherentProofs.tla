------------------------- MODULE PvaCoherentProofs --------------------------
(***************************************************************************)
(* The proof that the structures of the pvAccess diode's receiver are not  *)
(* mixed, for any channels, structures and types, any sizes of messages    *)
(* and any faults of the network.  Its invariant speaks of two histories:  *)
(* u[c] is the connection whose structure the sender last held for channel *)
(* c, and w[c][s][k] the structure it held when it sent the update k of    *)
(* connection s, where k counts on when update_seq_no wraps.               *)
(***************************************************************************)
EXTENDS PvaLinkProofs

(* Update k of connection s is one that was sent: of an earlier connection *)
(* or process, or before the next one.                                     *)
Issued(s, k, ch, b) ==
  s < b \/ (s = b /\ (ch.value = NoValue \/ k < ch.no))

(* What has been sent, has been sent with the same structure.              *)
Later(ch, b, past, ch2, b2, past2) ==
  \A s, k \in Nat : Issued(s, k, ch, b) => Issued(s, k, ch2, b2) /\ past2[s][k] = past[s][k]

(* Between a source and its channel: a queue has each connection's values  *)
(* in one event, which only meets a connected channel if it is of the same *)
(* connection.                                                             *)
ValuesOf(s, q, ch, b) ==
  \A i \in 1 .. Len(q) : q[i].kind = "value" =>
    /\ q[i].sess <= s.sess
    /\ i = 1 /\ ch.connected => q[i].sess = ch.sess /\ q[i].of.type = ch.value.type
    /\ i > 1 \/ ~ch.connected => q[i].sess > b
    /\ \A j \in 1 .. Len(q) : i < j /\ q[j].kind = "value" => j # i + 1 /\ q[i].sess < q[j].sess

LastOf(s, q, ch) ==
  IF q = << >>
  THEN /\ ch.connected = s.up
       /\ s.up => ch.sess = s.sess /\ ch.value.type = s.value.type
  ELSE LET e == q[Len(q)]
       IN IF s.up THEN e.kind = "value" /\ e.sess = s.sess /\ e.of.type = s.value.type
          ELSE e.kind = "disconnect"

Sessions(s, q, ch, b) ==
  /\ b <= s.sess
  /\ ch.value # NoValue => ch.sess = b
  /\ ValuesOf(s, q, ch, b)
  /\ LastOf(s, q, ch)

(* A connection's first update is a full one, and then all is marked that  *)
(* differs from the structure of the last update, whether that was sent    *)
(* whole or not.                                                           *)
Sending(ch, past, b) ==
  ch.value # NoValue =>
    IF ch.no = 0 THEN ch.pending_update = "Full"
    ELSE LET v == past[b][ch.no - 1]
         IN v # NoValue /\ v.type = ch.value.type /\ Held(ch, v)

(* An update on its way was cut from the structure of its number, and has  *)
(* all of it, or what changed since the number before, unless it does not  *)
(* fit.                                                                    *)
Partly(e, past) ==
  LET before == past[e.sess][e.no - 1]
  IN /\ e.no > 0
     /\ before # NoValue /\ before.type = e.of.type
     /\ \A f \in Field \ e.bits : before.val[f] = e.of.val[f]

Flying(e, ch, past, b) ==
  /\ e.kind \in {"Partial", "Full"}
  /\ e.useq = e.no % SeqMod
  /\ Issued(e.sess, e.no, ch, b)
  /\ past[e.sess][e.no] = e.of
  /\ e.got = e.bits => /\ e.kind = "Full" => e.bits = Field
                       /\ e.kind = "Partial" => Partly(e, past)

(* A channel is at most once in a message. *)
OncePer(upd) == \A i, j \in 1 .. Len(upd) : upd[i].ch = upd[j].ch => i = j

(* A receiver that follows a connection shows the structure of the update  *)
(* it is at.                                                               *)
Shown(rc, bs, ch, past, b) ==
  (rc.last_value # NoValue /\ bs.full # 0) =>
    /\ rc.last_update_seqno = bs.no % SeqMod
    /\ Issued(bs.full, bs.no, ch, b)
    /\ past[bs.full][bs.no] = bs.of
    /\ rc.last_value.type = bs.of.type => rc.last_value = bs.of

BaseRecord == [of : Structure \cup {NoValue}, no : Nat, full : Nat]

Numbered(ch) == ch.update_seq_no = ch.no % SeqMod

History(u, w) ==
  /\ u \in [Chan -> Nat]
  /\ base \in [Chan -> BaseRecord]
  /\ \A c \in Chan : /\ Numbered(chan[c])
                     /\ Sessions(src[c], events[c], chan[c], u[c])
                     /\ Sending(chan[c], w[c], u[c])
                     /\ Shown(rch[c], base[c], chan[c], w[c], u[c])
  /\ \A pkt \in In(net) : pkt.kind = "data" =>
       /\ OncePer(pkt.upd)
       /\ \A e \in In(pkt.upd) : Flying(e, chan[e.ch], w[e.ch], u[e.ch])

CoherentInv == \E u, w : History(u, w)

-----------------------------------------------------------------------------
(* The wire's number of an update is that of the one before it, plus one.  *)
LEMMA NextNumber ==
  /\ 0 % SeqMod = 0
  /\ \A a \in Nat : NextSeq(a % SeqMod) = (a + 1) % SeqMod
  <1> DEFINE m == SeqMod
  <1>1. m \in Nat /\ m >= 2
    BY SeqModAssumption
  <1> HIDE DEF m
  <1>2. 0 % m = 0
    BY <1>1
  <1>3. ASSUME NEW a \in Nat PROVE ((a % m) + 1) % m = (a + 1) % m
    <2> DEFINE q == a \div m  r == a % m  k == q * m
    <2>1. r \in 0 .. m - 1 /\ q \in Nat /\ a = q * m + r
      BY <1>1, Z3
    <2> HIDE DEF q, r
    <2>2. \A x \in Nat : \A b \in 0 .. m - 1 : (x * m + b) % m = b
      BY <1>1, Z3
    <2>3. (q + 1) * m = q * m + m /\ q * m \in Nat
      BY <1>1, <2>1, Z3
    <2>4. k \in Nat /\ a = k + r /\ (q + 1) * m = k + m
      BY <2>1, <2>3
    <2> HIDE DEF k
    <2>5. CASE r + 1 < m
      <3>1. r + 1 \in 0 .. m - 1 /\ a + 1 = k + (r + 1)
        BY <1>1, <2>1, <2>4, <2>5
      <3>2. (q * m + (r + 1)) % m = r + 1
        BY <2>1, <2>2, <3>1
      <3>3. (r + 1) % m = r + 1
        BY <1>1, <3>1
      <3> QED BY <3>1, <3>2, <3>3 DEF r, k
    <2>6. CASE r + 1 = m
      <3>1. a + 1 = (k + m) + 0 /\ q + 1 \in Nat /\ 0 \in 0 .. m - 1
        BY <1>1, <2>1, <2>4, <2>6
      <3>2. ((q + 1) * m + 0) % m = 0
        BY <2>2, <3>1
      <3>3. (r + 1) % m = 0
        BY <1>1, <2>6
      <3> QED BY <2>4, <3>1, <3>2, <3>3 DEF r
    <2> QED BY <1>1, <2>1, <2>5, <2>6
  <1> QED BY <1>2, <1>3 DEF m, NextSeq

(* mark_update keeps the number and the connection. *)
LEMMA MarkKeeps ==
  ASSUME NEW ch \in ChanRecord, NEW kind \in {"Partial", "Full"}
  PROVE  LET r == Snd!mark_update(ch, kind)
         IN /\ r.update_seq_no = ch.update_seq_no /\ r.no = ch.no /\ r.sess = ch.sess
  <1> DEFINE m == [ch EXCEPT !.pending_update = kind,
                     !.changed_mask = IF kind = "Full" THEN Snd!valid_to_mask(ch) ELSE @]
  <1>1. m.update_seq_no = ch.update_seq_no /\ m.no = ch.no /\ m.sess = ch.sess
    BY DEF ChanRecord
  <1>2. Snd!mark_update(ch, kind) = m \/ Snd!mark_update(ch, kind) = ch
    BY DEF Snd!mark_update
  <1> HIDE DEF m
  <1> QED BY <1>1, <1>2

(* Numbers and connections only grow. *)
LEMMA SameIsLater ==
  ASSUME NEW ch, NEW ch2, NEW b, NEW past,
         ch2.value = NoValue \/ (ch.value # NoValue /\ ch2.no = ch.no)
  PROVE  Later(ch, b, past, ch2, b, past)
  BY DEF Later, Issued

(* An update that was on its way still is as it was. *)
LEMMA FlyingLater ==
  ASSUME NEW e \in Update, NEW ch \in ChanRecord, NEW b, NEW past, NEW ch2, NEW b2, NEW past2,
         Flying(e, ch, past, b), Later(ch, b, past, ch2, b2, past2)
  PROVE  Flying(e, ch2, past2, b2)
  <1>1. e.sess \in Nat /\ e.no \in Nat
    BY DEF Update
  <1>2. Issued(e.sess, e.no, ch, b)
    BY DEF Flying
  <1>3. Issued(e.sess, e.no, ch2, b2) /\ past2[e.sess][e.no] = past[e.sess][e.no]
    BY <1>1, <1>2 DEF Later
  <1>4. ASSUME e.kind = "Partial", e.got = e.bits PROVE Partly(e, past2)
    <2>1. Partly(e, past) /\ e.no > 0
      BY <1>4 DEF Flying, Partly
    <2>2. e.no - 1 \in Nat /\ Issued(e.sess, e.no - 1, ch, b)
      <3>1. CASE e.sess < b \/ ch.value = NoValue
        BY <1>1, <1>2, <2>1, <3>1 DEF Issued
      <3>2. CASE ~(e.sess < b \/ ch.value = NoValue)
        <4>1. e.sess = b /\ e.no < ch.no
          BY <1>2, <3>2 DEF Issued
        <4>2. ch.no \in Int
          BY DEF ChanRecord
        <4>3. e.no - 1 < ch.no
          BY <1>1, <4>1, <4>2
        <4> QED BY <1>1, <2>1, <4>1, <4>3 DEF Issued
      <3> QED BY <3>1, <3>2
    <2>3. past2[e.sess][e.no - 1] = past[e.sess][e.no - 1]
      BY <1>1, <2>2 DEF Later
    <2> QED BY <2>1, <2>3 DEF Partly
  <1> QED BY <1>3, <1>4 DEF Flying

(* What is shown still is of a number that was sent. *)
LEMMA ShownLater ==
  ASSUME NEW rc \in RcvRecord, NEW bs \in BaseRecord,
         NEW ch, NEW b, NEW past, NEW ch2, NEW b2, NEW past2,
         Shown(rc, bs, ch, past, b), Later(ch, b, past, ch2, b2, past2)
  PROVE  Shown(rc, bs, ch2, past2, b2)
  <1>1. bs.no \in Nat /\ bs.full \in Nat
    BY DEF BaseRecord
  <1> QED BY <1>1 DEF Shown, Later

-----------------------------------------------------------------------------
(* A source queues an event: it connects with a new connection, changes or *)
(* disconnects.                                                            *)
LEMMA SessionsQueued ==
  ASSUME NEW s \in SourceRecord, NEW t \in SourceRecord, NEW ch \in ChanRecord,
         NEW q \in Seq(Event), NEW e \in Event, NEW b \in Nat, Sessions(s, q, ch, b),
         \/ e.kind = "disconnect" /\ s.up /\ ~t.up /\ t.sess = s.sess
         \/ /\ e.kind = "value" /\ e.sess = t.sess /\ e.of = t.value /\ t.up
            /\ \/ ~s.up /\ t.sess = s.sess + 1
               \/ s.up /\ t.sess = s.sess /\ t.value.type = s.value.type
  PROVE  Sessions(t, Snd!Queued(q, e), ch, b)
  <1> DEFINE r == Snd!Queued(q, e)
             n == Len(q)
             m == [e EXCEPT !.fields = @ \cup q[n].fields]
  <1>0. /\ n \in Nat /\ (q # << >> => n \in 1 .. n) /\ (q = << >> <=> n = 0)
        /\ \A i \in 1 .. n : q[i] \in Event
    <2> HIDE DEF Event
    <2> QED OBVIOUS
  <1>1. /\ b <= s.sess /\ s.sess \in Nat /\ t.sess \in Nat /\ s.sess <= t.sess
        /\ ch.value # NoValue => ch.sess = b
        /\ ValuesOf(s, q, ch, b) /\ LastOf(s, q, ch)
        /\ s.up \in BOOLEAN /\ t.up \in BOOLEAN /\ ch.connected \in BOOLEAN
    BY DEF Sessions, SourceRecord, ChanRecord
  <1>v. ASSUME NEW x \in Event, x.kind = "value" PROVE x \in ValueEvents /\ x.sess \in Nat
    BY <1>v DEF Event, ValueEvents
  <1>q. \A i \in 1 .. n : q[i].kind = "value" =>
          /\ q[i].sess \in Nat /\ q[i].sess <= s.sess /\ q[i].sess <= t.sess
          /\ i = 1 /\ ch.connected => q[i].sess = ch.sess /\ q[i].of.type = ch.value.type
          /\ i > 1 \/ ~ch.connected => q[i].sess > b
          /\ \A j \in 1 .. n : i < j /\ q[j].kind = "value" => j # i + 1 /\ q[i].sess < q[j].sess
    BY <1>0, <1>1, <1>v DEF ValuesOf
  <1>2. r \in Seq(Event) /\ r # << >>
    BY QueuedIs
  <1>3. CASE q # << >> /\ q[n].kind = "value" /\ e.kind = "value"
    <2>1. r = [q EXCEPT ![n] = m]
      BY <1>3 DEF Snd!Queued
    <2>2. q[n] \in ValueEvents /\ e \in ValueEvents
      BY <1>0, <1>3, <1>v
    <2>3. m.kind = "value" /\ m.sess = e.sess /\ m.of = e.of
      BY <2>2 DEF ValueEvents
    <2>4. /\ s.up /\ t.sess = s.sess /\ t.value.type = s.value.type /\ t.up
          /\ e.sess = q[n].sess /\ e.of.type = q[n].of.type
      BY <1>1, <1>3 DEF LastOf
    <2> HIDE DEF m, r, Event, ValueEvents
    <2>5. Len(r) = n /\ r[n] = m /\ \A i \in 1 .. n : i # n => r[i] = q[i]
      BY <1>0, <1>3, <2>1
    <2>6. \A i \in 1 .. n : /\ r[i].kind = q[i].kind
                            /\ r[i].kind = "value" => r[i].sess = q[i].sess /\ r[i].of.type = q[i].of.type
      BY <1>0, <1>3, <2>3, <2>4, <2>5
    <2>7. ValuesOf(t, r, ch, b)
      BY <1>q, <2>5, <2>6 DEF ValuesOf
    <2>8. LastOf(t, r, ch)
      BY <1>2, <1>3, <2>3, <2>4, <2>5 DEF LastOf
    <2> QED BY <1>1, <2>7, <2>8 DEF Sessions, r
  <1>4. CASE ~(q # << >> /\ q[n].kind = "value" /\ e.kind = "value")
    <2>1. r = Append(q, e)
      BY <1>4 DEF Snd!Queued
    <2>2. /\ Len(r) = n + 1 /\ r[n + 1] = e
          /\ \A i \in 1 .. n : r[i] = q[i]
      <3> HIDE DEF Event, r
      <3> QED BY <2>1
    <2> HIDE DEF r, Event, n
    <2>3. \A i \in 1 .. Len(r) : i \in 1 .. n \/ i = n + 1
      BY <1>0, <2>2
    <2>4. LastOf(t, r, ch)
      BY <1>1, <1>2, <2>2 DEF LastOf
    <2>5. ASSUME e.kind = "value"
          PROVE  /\ n > 0 => ~s.up /\ q[n].kind # "value"
                 /\ ~s.up => e.sess > s.sess /\ e.sess > b /\ (n = 0 => ~ch.connected)
                 /\ s.up => /\ n = 0 /\ ch.connected /\ e.sess = ch.sess
                            /\ e.of.type = ch.value.type
                 /\ e.sess \in Nat /\ e.sess <= t.sess
      <3>1. n > 0 => q # << >> /\ q[n].kind # "value"
        BY <1>0, <1>4, <2>5
      <3>2. n = 0 => q = << >>
        BY <1>0
      <3>3. e.sess = t.sess /\ e.of = t.value
        BY <2>5
      <3>4. n > 0 => ~s.up
        BY <1>1, <3>1 DEF LastOf, n
      <3>5. n = 0 => /\ ch.connected = s.up
                     /\ s.up => ch.sess = s.sess /\ ch.value.type = s.value.type
        BY <1>1, <3>2 DEF LastOf
      <3>6. ~s.up => t.sess = s.sess + 1
        BY <2>5
      <3>7. s.up => t.sess = s.sess /\ t.value.type = s.value.type
        BY <2>5
      <3> QED BY <1>0, <1>1, <3>1, <3>3, <3>4, <3>5, <3>6, <3>7
    <2>6. ASSUME NEW i \in 1 .. Len(r), r[i].kind = "value"
          PROVE  /\ r[i].sess <= t.sess
                 /\ i = 1 /\ ch.connected => r[i].sess = ch.sess /\ r[i].of.type = ch.value.type
                 /\ i > 1 \/ ~ch.connected => r[i].sess > b
                 /\ \A j \in 1 .. Len(r) : i < j /\ r[j].kind = "value" => j # i + 1 /\ r[i].sess < r[j].sess
      <3>1. CASE i \in 1 .. n
        <4>1. r[i] = q[i]
          BY <2>2, <3>1
        <4>2. ASSUME NEW j \in 1 .. Len(r), i < j, r[j].kind = "value"
              PROVE  j # i + 1 /\ r[i].sess < r[j].sess
          <5>1. CASE j \in 1 .. n
            <6>1. r[j] = q[j]
              BY <2>2, <5>1
            <6> QED BY <1>q, <2>6, <3>1, <4>1, <4>2, <5>1, <6>1
          <5>2. CASE j = n + 1
            <6>1. r[j] = e /\ e.kind = "value" /\ n > 0
              BY <1>0, <2>2, <3>1, <4>2, <5>2
            <6>2. ~s.up /\ q[n].kind # "value" /\ e.sess > s.sess /\ e.sess \in Nat
              BY <2>5, <6>1
            <6>3. i # n
              BY <2>6, <4>1, <6>2
            <6>4. q[i].sess \in Nat /\ q[i].sess <= s.sess
              BY <1>q, <2>6, <3>1, <4>1
            <6> QED BY <1>0, <1>1, <3>1, <4>1, <5>2, <6>1, <6>2, <6>3, <6>4
          <5> QED BY <2>3, <5>1, <5>2
        <4> QED BY <1>q, <2>6, <3>1, <4>1, <4>2
      <3>2. CASE i = n + 1
        <4>1. r[i] = e /\ e.kind = "value" /\ \A j \in 1 .. Len(r) : ~(i < j)
          BY <1>0, <2>2, <2>6, <3>2
        <4>2. i > 1 => n > 0
          BY <1>0, <3>2
        <4>3. i = 1 => n = 0
          BY <1>0, <3>2
        <4>4. s.up \/ ~s.up
          OBVIOUS
        <4> QED BY <1>1, <2>5, <4>1, <4>2, <4>3, <4>4
      <3> QED BY <2>3, <3>1, <3>2
    <2>7. ValuesOf(t, r, ch, b)
      BY <2>6 DEF ValuesOf
    <2>8. b <= t.sess
      BY <1>1
    <2>9. Sessions(t, r, ch, b)
      BY <1>1, <2>4, <2>7, <2>8 DEF Sessions
    <2> QED BY <2>9 DEF r
  <1> QED BY <1>3, <1>4

(* The worker takes the next event: a value that connects the channel, a   *)
(* value of the same connection, or its end.                               *)
LEMMA SessionsPopped ==
  ASSUME NEW s \in SourceRecord, NEW ch \in ChanRecord, NEW new \in ChanRecord,
         NEW q \in Seq(Event), q # << >>, NEW b \in Nat, NEW b2 \in Nat,
         Sessions(s, q, ch, b),
         \/ /\ Head(q).kind = "value" /\ ~ch.connected /\ new.connected
            /\ b2 = Head(q).sess /\ new.sess = b2 /\ new.value.type = Head(q).of.type
         \/ /\ new.connected = (Head(q).kind = "value") /\ (new.connected => ch.connected)
            /\ b2 = b /\ ch.value # NoValue /\ new.sess = ch.sess
            /\ new.value.type = ch.value.type
  PROVE  Sessions(s, Tail(q), new, b2) /\ (~ch.connected /\ new.connected => b < b2)
  <1> DEFINE r == Tail(q)
             n == Len(q)
             e == q[1]
  <1>0. /\ n \in Nat /\ n >= 1 /\ Len(r) = n - 1 /\ Head(q) = e
        /\ \A i \in 1 .. Len(r) : r[i] = q[i + 1]
        /\ \A i \in 1 .. n : q[i] \in Event
    <2> HIDE DEF Event
    <2> QED OBVIOUS
  <1>l. r \in Seq(Event) /\ (r = << >> <=> Len(r) = 0)
    <2> HIDE DEF Event
    <2>1. r \in Seq(Event)
      OBVIOUS
    <2> HIDE DEF r
    <2> QED BY <2>1
  <1>1. /\ b <= s.sess /\ s.sess \in Nat
        /\ ch.value # NoValue => ch.sess = b
        /\ ValuesOf(s, q, ch, b) /\ LastOf(s, q, ch)
        /\ s.up \in BOOLEAN /\ new.connected \in BOOLEAN /\ ch.connected \in BOOLEAN
    BY DEF Sessions, SourceRecord, ChanRecord
  <1>v. ASSUME NEW x \in Event, x.kind = "value" PROVE x.sess \in Nat
    BY <1>v DEF Event, ValueEvents
  <1>q. \A i \in 1 .. n : q[i].kind = "value" =>
          /\ q[i].sess \in Nat /\ q[i].sess <= s.sess
          /\ i = 1 /\ ch.connected => q[i].sess = ch.sess /\ q[i].of.type = ch.value.type
          /\ i > 1 \/ ~ch.connected => q[i].sess > b
          /\ \A j \in 1 .. n : i < j /\ q[j].kind = "value" => j # i + 1 /\ q[i].sess < q[j].sess
    BY <1>0, <1>1, <1>v DEF ValuesOf
  <1>2. 1 \in 1 .. n
    BY <1>0
  <1> HIDE DEF r, n, e, Event
  <1>3. \/ /\ e.kind = "value" /\ ~ch.connected /\ new.connected
           /\ b2 = e.sess /\ new.sess = b2 /\ new.value.type = e.of.type
        \/ /\ new.connected = (e.kind = "value") /\ (new.connected => ch.connected)
           /\ b2 = b /\ ch.value # NoValue /\ new.sess = b /\ ch.sess = b
           /\ new.value.type = ch.value.type
    BY <1>0, <1>1
  <1>e. /\ e.kind = "value" => /\ e.sess \in Nat /\ e.sess <= s.sess
                               /\ ch.connected => e.sess = ch.sess /\ e.of.type = ch.value.type
                               /\ ~ch.connected => e.sess > b
        /\ new.connected = (e.kind = "value")
    BY <1>2, <1>3, <1>q DEF e
  <1>4. b2 <= s.sess /\ new.sess = b2 /\ (~ch.connected /\ new.connected => b < b2)
    BY <1>1, <1>3, <1>e
  <1>5. \A i \in 1 .. Len(r) : /\ i + 1 \in 1 .. n /\ r[i] = q[i + 1] /\ i + 1 > 1
    BY <1>0
  <1>6. ASSUME NEW i \in 1 .. Len(r), r[i].kind = "value"
        PROVE  /\ r[i].sess <= s.sess
               /\ ~(i = 1 /\ new.connected)
               /\ r[i].sess > b2
               /\ \A j \in 1 .. Len(r) : i < j /\ r[j].kind = "value" => j # i + 1 /\ r[i].sess < r[j].sess
    <2>1. /\ r[i].sess \in Nat /\ r[i].sess <= s.sess /\ r[i].sess > b
          /\ \A j \in 1 .. n : i + 1 < j /\ q[j].kind = "value" => j # (i + 1) + 1 /\ r[i].sess < q[j].sess
      <3>1. i + 1 \in 1 .. n /\ q[i + 1] = r[i] /\ i + 1 > 1
        BY <1>5
      <3>2. q[i + 1].kind = "value"
        BY <1>6, <3>1
      <3> DEFINE k == i + 1
      <3> HIDE DEF k
      <3>3. k \in 1 .. n /\ k > 1 /\ q[k].kind = "value" /\ q[k] = r[i]
        BY <3>1, <3>2 DEF k
      <3>4. /\ r[i].sess \in Nat /\ r[i].sess <= s.sess /\ r[i].sess > b
            /\ \A j \in 1 .. n : k < j /\ q[j].kind = "value" => j # k + 1 /\ r[i].sess < q[j].sess
        BY <1>q, <3>3
      <3> QED BY <3>4 DEF k
    <2>2. \A j \in 1 .. Len(r) : i < j /\ r[j].kind = "value" => j # i + 1 /\ r[i].sess < r[j].sess
      <3> SUFFICES ASSUME NEW j \in 1 .. Len(r), i < j, r[j].kind = "value"
                   PROVE  j # i + 1 /\ r[i].sess < r[j].sess
        OBVIOUS
      <3>1. j + 1 \in 1 .. n /\ i + 1 < j + 1 /\ q[j + 1].kind = "value" /\ r[j] = q[j + 1]
        BY <1>5
      <3> QED BY <2>1, <3>1
    <2>3. e.kind = "value" => i # 1 /\ r[i].sess > e.sess
      <3> SUFFICES ASSUME e.kind = "value" PROVE i # 1 /\ r[i].sess > e.sess
        OBVIOUS
      <3>1. q[1].kind = "value" /\ e.sess = q[1].sess
        BY DEF e
      <3>2. /\ i + 1 \in 1 .. n /\ 1 < i + 1 /\ q[i + 1].kind = "value" /\ q[i + 1] = r[i]
        BY <1>5, <1>6
      <3>3. i + 1 # 1 + 1 /\ q[1].sess < q[i + 1].sess
        BY <1>2, <1>q, <3>1, <3>2
      <3> QED BY <1>2, <1>q, <2>1, <3>1, <3>2, <3>3
    <2>4. r[i].sess > b2
      BY <1>3, <2>1, <2>3
    <2> QED BY <1>e, <2>1, <2>2, <2>3, <2>4
  <1>7. ValuesOf(s, r, new, b2)
    BY <1>6 DEF ValuesOf
  <1>8. LastOf(s, r, new)
    <2>0. q # << >> /\ n = Len(q)
      BY DEF n
    <2>1. IF s.up THEN q[n].kind = "value" /\ q[n].sess = s.sess /\ q[n].of.type = s.value.type
          ELSE q[n].kind = "disconnect"
      BY <1>1, <2>0 DEF LastOf
    <2>2. CASE r = << >>
      <3>1. n = 1 /\ e = q[n]
        BY <1>0, <1>l, <2>2 DEF e
      <3>2. new.connected = s.up
        BY <1>1, <1>e, <2>1, <3>1
      <3>3. s.up => new.sess = s.sess /\ new.value.type = s.value.type
        BY <1>3, <1>e, <2>1, <3>1
      <3> QED BY <2>2, <3>2, <3>3 DEF LastOf
    <2>3. CASE r # << >>
      <3>1. Len(r) \in 1 .. Len(r)
        BY <1>l, <2>3
      <3>2. r[Len(r)] = q[n]
        BY <1>0, <3>1
      <3> QED BY <2>1, <2>3, <3>2 DEF LastOf
    <2> QED BY <2>2, <2>3
  <1>9. Sessions(s, r, new, b2)
    BY <1>4, <1>7, <1>8 DEF Sessions
  <1> QED BY <1>4, <1>9 DEF r

-----------------------------------------------------------------------------
(* A step that leaves the receiver alone keeps the histories, or goes on   *)
(* with u2 and w2.                                                         *)
LEMMA SenderStep ==
  ASSUME TypeInv, NEW u, NEW w, History(u, w),
         NEW u2 \in [Chan -> Nat], NEW w2, UNCHANGED <<rch, base>>,
         \A c \in Chan : /\ Numbered(chan'[c])
                         /\ Sessions(src'[c], events'[c], chan'[c], u2[c])
                         /\ Sending(chan'[c], w2[c], u2[c])
                         /\ Later(chan[c], u[c], w[c], chan'[c], u2[c], w2[c]),
         \A pkt \in In(net') : pkt \in In(net) \/ (pkt.kind = "data" =>
           /\ OncePer(pkt.upd)
           /\ \A e \in In(pkt.upd) : Flying(e, chan'[e.ch], w2[e.ch], u2[e.ch]))
  PROVE  CoherentInv'
  <1>1. \A c \in Chan : Shown(rch'[c], base'[c], chan'[c], w2[c], u2[c])
    <2> SUFFICES ASSUME NEW c \in Chan PROVE Shown(rch[c], base[c], chan'[c], w2[c], u2[c])
      OBVIOUS
    <2>1. rch[c] \in RcvRecord /\ base[c] \in BaseRecord /\ Shown(rch[c], base[c], chan[c], w[c], u[c])
      BY DEF TypeInv, ReceiverInv, History
    <2> QED BY <2>1, ShownLater
  <1>2. ASSUME NEW pkt \in In(net'), pkt.kind = "data"
        PROVE  /\ OncePer(pkt.upd)
               /\ \A e \in In(pkt.upd) : Flying(e, chan'[e.ch], w2[e.ch], u2[e.ch])
    <2>1. CASE pkt \in In(net)
      <3>1. pkt \in Packet
        <4> HIDE DEF Packet
        <4> QED BY <2>1 DEF TypeInv, NetInv, In
      <3>2. pkt.upd \in Seq(Update)
        BY <1>2, <3>1 DEF Packet, DataPacket, TypedefPacket
      <3>3. ASSUME NEW e \in In(pkt.upd)
            PROVE  Flying(e, chan'[e.ch], w2[e.ch], u2[e.ch])
        <4>1. e \in Update
          <5> HIDE DEF Update
          <5> QED BY <3>2 DEF In
        <4>2. e.ch \in Chan
          BY <4>1 DEF Update
        <4>3. chan[e.ch] \in ChanRecord
          BY <4>2 DEF TypeInv, SenderInv
        <4>4. Flying(e, chan[e.ch], w[e.ch], u[e.ch])
          BY <1>2, <2>1 DEF History
        <4> QED BY <4>1, <4>2, <4>3, <4>4, FlyingLater
      <3> QED BY <1>2, <2>1, <3>3 DEF History
    <2> QED BY <1>2, <2>1
  <1>3. base' \in [Chan -> BaseRecord]
    BY DEF History
  <1>4. History(u2, w2)'
    BY <1>1, <1>2, <1>3 DEF History
  <1> QED BY <1>4 DEF CoherentInv

(* Sources: a connection, a change, a disconnection. *)
LEMMA CoherentSource ==
  ASSUME TypeInv, NEW u, NEW w, History(u, w), Source
  PROVE  CoherentInv'
  <1>0. /\ src \in [Chan -> SourceRecord] /\ events \in [Chan -> Seq(Event)]
        /\ chan \in [Chan -> ChanRecord]
        /\ \A c \in Chan : src[c].up => src[c].value \in Structure
    BY DEF TypeInv, SourceInv, SenderInv
  <1>h. /\ u \in [Chan -> Nat]
        /\ \A c \in Chan : /\ Numbered(chan[c])
                           /\ Sessions(src[c], events[c], chan[c], u[c])
                           /\ Sending(chan[c], w[c], u[c])
    BY DEF History
  (* What the three have in common. *)
  <1>n. ASSUME NEW c \in Chan, NEW t \in SourceRecord, NEW e \in Event,
               src' = [src EXCEPT ![c] = t], Snd!Notify(c, e),
               \/ e.kind = "disconnect" /\ src[c].up /\ ~t.up /\ t.sess = src[c].sess
               \/ /\ e.kind = "value" /\ e.sess = t.sess /\ e.of = t.value /\ t.up
                  /\ \/ ~src[c].up /\ t.sess = src[c].sess + 1
                     \/ src[c].up /\ t.sess = src[c].sess /\ t.value.type = src[c].value.type
        PROVE  CoherentInv'
    <2> DEFINE r == Snd!Queued(events[c], e)
    <2>1. /\ events' = [events EXCEPT ![c] = r]
          /\ chan' = chan /\ net' = net
      BY <1>0, <1>n DEF Snd!Notify, Snd!workerVars
    <2>2. UNCHANGED <<rch, base>>
      BY DEF Source, rcvState
    <2>3. /\ src[c] \in SourceRecord /\ chan[c] \in ChanRecord /\ events[c] \in Seq(Event)
          /\ u[c] \in Nat /\ Sessions(src[c], events[c], chan[c], u[c])
      BY <1>0, <1>h
    <2>4. Sessions(t, r, chan[c], u[c])
      BY <1>n, <2>3, SessionsQueued
    <2> HIDE DEF r
    <2>5. ASSUME NEW d \in Chan
          PROVE  /\ Numbered(chan'[d])
                 /\ Sessions(src'[d], events'[d], chan'[d], u[d])
                 /\ Sending(chan'[d], w[d], u[d])
                 /\ Later(chan[d], u[d], w[d], chan'[d], u[d], w[d])
      <3>1. CASE d = c
        <4>1. src'[d] = t /\ events'[d] = r
          BY <1>0, <1>n, <2>1, <3>1
        <4>2. Sessions(src'[d], events'[d], chan'[d], u[d])
          BY <2>1, <2>4, <3>1, <4>1
        <4> QED BY <1>h, <2>1, <4>2, SameIsLater
      <3>2. CASE d # c
        <4>1. src'[d] = src[d] /\ events'[d] = events[d]
          BY <1>0, <1>n, <2>1, <3>2
        <4> QED BY <1>h, <2>1, <4>1, SameIsLater
      <3> QED BY <3>1, <3>2
    <2> QED BY <1>h, <2>1, <2>2, <2>5, SenderStep
  <1>1. ASSUME NEW c \in Chan, Snd!SourceConnects(c) PROVE CoherentInv'
    <2> DEFINE n == src[c].changes + 1
    <2>1. PICK t \in TypesOf[c], fields \in FirstMarked :
            LET s == [up |-> TRUE, changes |-> n, sess |-> src[c].sess + 1,
                      value |-> Snd!Struct(t, [f \in Field |-> IF f \in fields THEN n
                                                               ELSE Default])]
            IN /\ ~src[c].up /\ n <= MaxChange[c] /\ src' = [src EXCEPT ![c] = s]
               /\ Snd!Notify(c, Snd!ValueEvent(s, fields))
      BY <1>1 DEF Snd!SourceConnects
    <2> DEFINE v == [f \in Field |-> IF f \in fields THEN n ELSE Default]
               s == [up |-> TRUE, changes |-> n, sess |-> src[c].sess + 1,
                     value |-> Snd!Struct(t, v)]
               e == Snd!ValueEvent(s, fields)
    <2>2. src[c].changes \in Nat /\ src[c].sess \in Nat /\ n \in Nat
      BY <1>0 DEF SourceRecord
    <2>3. n \in Data /\ Default \in Data
      BY <2>1, <2>2, SourceAssumption, FieldAssumption
    <2>4. t \in Type /\ fields \in SUBSET Field
      BY SourceAssumption
    <2>5. v \in [Field -> Data]
      BY <2>3, <2>4
    <2> HIDE DEF v, n
    <2>6. s \in SourceRecord /\ s.value \in Structure /\ s.up /\ s.sess = src[c].sess + 1
      BY <2>2, <2>4, <2>5 DEF SourceRecord, Structure, Snd!Struct
    <2>7. e \in Event /\ e.kind = "value" /\ e.sess = s.sess /\ e.of = s.value
      BY <2>2, <2>4, <2>6 DEF Event, ValueEvents, Snd!ValueEvent
    <2>8. src' = [src EXCEPT ![c] = s] /\ Snd!Notify(c, e) /\ ~src[c].up
      BY <2>1 DEF v, n
    <2> HIDE DEF s, e
    <2> QED BY <1>n, <2>6, <2>7, <2>8
  <1>2. ASSUME NEW c \in Chan, Snd!SourceDisconnects(c) PROVE CoherentInv'
    <2> DEFINE s == [src[c] EXCEPT !.up = FALSE]
               e == Snd!DisconnectEvent
    <2>1. src[c].up /\ src' = [src EXCEPT ![c] = s] /\ Snd!Notify(c, e)
      BY <1>0, <1>2 DEF Snd!SourceDisconnects
    <2>2. s \in SourceRecord /\ ~s.up /\ s.sess = src[c].sess
      BY <1>0 DEF SourceRecord
    <2>3. e \in Event /\ e.kind = "disconnect"
      BY DEF Snd!DisconnectEvent, Event
    <2> HIDE DEF s, e
    <2> QED BY <1>n, <2>1, <2>2, <2>3
  <1>3. ASSUME NEW c \in Chan, NEW fields \in SUBSET Field, Snd!SourceChanges(c, fields)
        PROVE  CoherentInv'
    <2> DEFINE n == src[c].changes + 1
               old == src[c].value.val
               v == [f \in Field |-> IF f \in fields THEN n ELSE old[f]]
               s == [src[c] EXCEPT !.changes = n, !.value.val = v]
               e == Snd!ValueEvent(s, fields)
    <2>1. /\ src[c].up /\ n <= MaxChange[c]
          /\ src' = [src EXCEPT ![c] = s] /\ Snd!Notify(c, e)
      BY <1>3 DEF Snd!SourceChanges
    <2>2. src[c] \in SourceRecord /\ src[c].value \in Structure
      BY <1>0, <2>1
    <2>3. n \in Nat /\ n \in Data /\ old \in [Field -> Data]
      BY <2>1, <2>2, SourceAssumption DEF SourceRecord, Structure
    <2>5. v \in [Field -> Data]
      <3> HIDE DEF n, old
      <3> QED BY <2>3
    <2> HIDE DEF v, n
    <2>6. /\ s \in SourceRecord /\ s.value \in Structure /\ s.up
          /\ s.sess = src[c].sess /\ s.value.type = src[c].value.type
      BY <2>1, <2>2, <2>3, <2>5 DEF SourceRecord, Structure
    <2>7. e \in Event /\ e.kind = "value" /\ e.sess = s.sess /\ e.of = s.value
      BY <2>6 DEF Event, ValueEvents, Snd!ValueEvent, SourceRecord
    <2> HIDE DEF s, e
    <2> QED BY <1>n, <2>1, <2>6, <2>7
  <1> QED BY <1>1, <1>2, <1>3 DEF Source, Snd!Source

(* An event of a source is handled. *)
LEMMA CoherentEvent ==
  ASSUME TypeInv, ChangeInv, NEW u, NEW w, History(u, w), NEW c \in Chan,
         Snd!FirstValue(c) \/ Snd!NextValue(c) \/ Snd!Disconnection(c),
         UNCHANGED rcvState
  PROVE  CoherentInv'
  <1> DEFINE e == Head(events[c])
             q == Tail(events[c])
             old == chan[c]
  <1>p. Snd!PopEvent(c)
    BY DEF Snd!FirstValue, Snd!NextValue, Snd!Disconnection
  <1>e. /\ events[c] # << >> /\ events[c] \in Seq(Event) /\ e \in Event
        /\ e.kind = "disconnect" => old.value \in Structure
    BY <1>p, PopIs
  <1>c. /\ chan \in [Chan -> ChanRecord] /\ old \in ChanRecord /\ src[c] \in SourceRecord
        /\ events \in [Chan -> Seq(Event)]
        /\ old.connected => old.value \in Structure
    BY DEF TypeInv, SourceInv, SenderInv
  <1>h. /\ u \in [Chan -> Nat] /\ u[c] \in Nat
        /\ \A d \in Chan : /\ Numbered(chan[d])
                           /\ Sessions(src[d], events[d], chan[d], u[d])
                           /\ Sending(chan[d], w[d], u[d])
    BY DEF History
  <1>v. MarksOf(old)
    BY DEF ChangeInv
  <1>u. /\ src' = src /\ net' = net
        /\ events' = [events EXCEPT ![c] = q]
    BY <1>c, <1>p DEF Snd!PopEvent
  <1>r. UNCHANGED <<rch, base>>
    BY DEF rcvState
  <1> HIDE DEF q
  (* What the three have in common. *)
  <1>m. ASSUME NEW r \in ChanRecord, chan' = [chan EXCEPT ![c] = r],
               NEW u2 \in [Chan -> Nat], \A d \in Chan : d # c => u2[d] = u[d],
               Numbered(r), Sessions(src[c], q, r, u2[c]), Sending(r, w[c], u2[c]),
               Later(old, u[c], w[c], r, u2[c], w[c])
        PROVE  CoherentInv'
    <2>1. ASSUME NEW d \in Chan
          PROVE  /\ Numbered(chan'[d])
                 /\ Sessions(src'[d], events'[d], chan'[d], u2[d])
                 /\ Sending(chan'[d], w[d], u2[d])
                 /\ Later(chan[d], u[d], w[d], chan'[d], u2[d], w[d])
      <3>1. CASE d = c
        <4>1. chan'[d] = r /\ events'[d] = q
          BY <1>c, <1>m, <1>u, <3>1
        <4> QED BY <1>m, <1>u, <3>1, <4>1
      <3>2. CASE d # c
        <4>1. chan'[d] = chan[d] /\ events'[d] = events[d] /\ u2[d] = u[d]
          BY <1>c, <1>m, <1>u, <3>2
        <4> QED BY <1>h, <1>u, <4>1, SameIsLater
      <3> QED BY <3>1, <3>2
    <2> QED BY <1>h, <1>m, <1>r, <1>u, <2>1, SenderStep
  (* What the two that go on with a connection have in common. *)
  <1>k. ASSUME NEW ch \in ChanRecord,
               chan' = [chan EXCEPT ![c] = Snd!mark_update(ch, "Partial")],
               old.value # NoValue, ch.value # NoValue, ch.value.type = old.value.type,
               ch.connected = (e.kind = "value"), ch.connected => old.connected,
               ch.update_seq_no = old.update_seq_no, ch.no = old.no, ch.sess = old.sess,
               ch.pending_update = old.pending_update, ch.valid = old.valid,
               old.changed_mask \subseteq ch.changed_mask,
               \A f \in Field \ ch.changed_mask : ch.value.val[f] = old.value.val[f]
        PROVE  CoherentInv'
    <2> DEFINE r == Snd!mark_update(ch, "Partial")
    <2>1. /\ r \in ChanRecord /\ r.value = ch.value /\ r.connected = ch.connected
          /\ ch.pending_update = "Full" => r.pending_update = "Full"
          /\ r.update_seq_no = ch.update_seq_no /\ r.no = ch.no /\ r.sess = ch.sess
      BY <1>k, MarkIs, MarkKeeps
    <2>h. ASSUME NEW v, Held(old, v) PROVE Held(r, v)
      <3>1. ch.valid = Field
        BY <1>k, <1>v DEF MarksOf
      <3> QED BY <1>c, <1>k, <1>v, <2>h, <3>1, ChangeMarked
    <2> HIDE DEF r, e
    <2>2. Sessions(src[c], events[c], old, u[c])
      BY <1>h
    <2>k. /\ r.connected = (Head(events[c]).kind = "value") /\ (r.connected => old.connected)
          /\ old.value # NoValue /\ r.sess = old.sess /\ r.value.type = old.value.type
      BY <1>k, <2>1 DEF e
    <2>3. Sessions(src[c], q, r, u[c])
      BY <1>c, <1>e, <1>h, <2>1, <2>2, <2>k, SessionsPopped DEF q
    <2>4. Sending(old, w[c], u[c])
      BY <1>h
    <2>5. Sending(r, w[c], u[c])
      BY <1>k, <2>1, <2>h, <2>4 DEF Sending
    <2>6. Later(old, u[c], w[c], r, u[c], w[c])
      BY <1>k, <2>1, SameIsLater
    <2>7. Numbered(r)
      BY <1>h, <1>k, <2>1 DEF Numbered, old
    <2>8. chan' = [chan EXCEPT ![c] = r]
      BY <1>k DEF r
    <2> QED BY <1>h, <1>m, <2>1, <2>3, <2>5, <2>6, <2>7, <2>8
  <1> HIDE DEF e, old
  <1>1. CASE Snd!FirstValue(c)
    <2> DEFINE tid == Snd!TypeId(typeCache, e.of.type)
               ch == [old EXCEPT !.connected = TRUE, !.value = e.of, !.valid = e.fields,
                                 !.type_id = tid, !.update_seq_no = 0, !.sess = e.sess,
                                 !.no = 0]
               r == Snd!mark_update(ch, "Full")
    <2>1. /\ e.kind = "value" /\ ~old.connected /\ chan' = [chan EXCEPT ![c] = r]
      BY <1>1 DEF Snd!FirstValue, Snd!Connected, e, old
    <2>2. /\ e.of \in Structure /\ e.of.type \in Type /\ e.fields \in SUBSET Field
          /\ e.sess \in Nat
      BY <1>e, <2>1 DEF Event, ValueEvents, Structure
    <2>3. tid \in Nat /\ 0 \in 0 .. SeqMod - 1
      <3>1. typeCache \in Seq(Type)
        BY DEF TypeInv, SenderInv
      <3>2. tid \in Nat
        BY <2>2, <3>1, CacheIs
      <3> QED BY <3>2, Numbers
    <2> HIDE DEF tid
    <2>4. /\ ch \in ChanRecord /\ ch.value = e.of /\ ch.connected
          /\ ch.update_seq_no = 0 /\ ch.no = 0 /\ ch.sess = e.sess
      BY <1>c, <2>2, <2>3 DEF ChanRecord
    <2> HIDE DEF ch
    <2>5. /\ r \in ChanRecord /\ r.value = e.of /\ r.connected
          /\ r.pending_update = "Full" /\ r.update_seq_no = 0 /\ r.no = 0 /\ r.sess = e.sess
      BY <2>4, MarkIs, MarkKeeps
    <2> HIDE DEF r
    <2>6. Sessions(src[c], events[c], old, u[c])
      BY <1>h DEF old
    <2>7. Sessions(src[c], q, r, e.sess) /\ u[c] < e.sess
      BY <1>c, <1>e, <1>h, <2>1, <2>2, <2>5, <2>6, SessionsPopped DEF e, q
    <2> DEFINE u2 == [u EXCEPT ![c] = e.sess]
    <2>8. u2 \in [Chan -> Nat] /\ u2[c] = e.sess /\ \A d \in Chan : d # c => u2[d] = u[d]
      BY <1>h, <2>2
    <2>9. PICK u3 : u3 = u2
      OBVIOUS
    <2> HIDE DEF u2
    <2>10. Sending(r, w[c], u3[c])
      BY <2>5 DEF Sending
    <2>11. Later(old, u[c], w[c], r, u3[c], w[c])
      <3>1. u[c] \in Nat /\ u3[c] \in Nat /\ u[c] < u3[c]
        BY <1>h, <2>2, <2>7, <2>8, <2>9
      <3> QED BY <3>1 DEF Later, Issued
    <2>12. Numbered(r)
      BY <2>5, NextNumber DEF Numbered
    <2> QED BY <1>m, <2>1, <2>5, <2>7, <2>8, <2>9, <2>10, <2>11, <2>12 DEF old
  <1>2. CASE Snd!NextValue(c)
    <2> DEFINE v == [f \in Field |-> IF f \in e.fields THEN e.of.val[f] ELSE old.value.val[f]]
               ch == [old EXCEPT !.value.val = v, !.changed_mask = @ \cup e.fields]
    <2>1. /\ e.kind = "value" /\ old.connected
          /\ chan' = [chan EXCEPT ![c] = Snd!mark_update(ch, "Partial")]
      BY <1>2 DEF Snd!NextValue, Snd!merge, e, old
    <2>2. e.of.val \in [Field -> Data] /\ e.fields \in SUBSET Field
      BY <1>e, <2>1 DEF Event, ValueEvents, Structure
    <2>3. old.value \in Structure /\ old.value.val \in [Field -> Data] /\ old.value # NoValue
      BY <1>c, <2>1, NotNull DEF Structure
    <2>4. v \in [Field -> Data] /\ \A f \in Field \ e.fields : v[f] = old.value.val[f]
      BY <2>2, <2>3
    <2> HIDE DEF v
    <2>5. /\ ch \in ChanRecord /\ ch.value \in Structure /\ ch.value.val = v
          /\ ch.value.type = old.value.type /\ ch.connected = old.connected
          /\ ch.update_seq_no = old.update_seq_no /\ ch.no = old.no /\ ch.sess = old.sess
          /\ ch.pending_update = old.pending_update /\ ch.valid = old.valid
          /\ ch.changed_mask = old.changed_mask \cup e.fields
      BY <1>c, <2>2, <2>3, <2>4 DEF ChanRecord, Structure
    <2>6. ch.value # NoValue
      BY <2>5, NotNull
    <2> HIDE DEF ch
    <2>7. ch.connected = (e.kind = "value")
      BY <2>1, <2>5
    <2>8. \A f \in Field \ ch.changed_mask : ch.value.val[f] = old.value.val[f]
      BY <2>4, <2>5
    <2> QED BY <1>k, <2>1, <2>3, <2>5, <2>6, <2>7, <2>8
  <1>3. CASE Snd!Disconnection(c)
    <2> DEFINE ch == [old EXCEPT !.connected = FALSE]
    <2>1. /\ e.kind = "disconnect" /\ old.value \in Structure
          /\ chan' = [chan EXCEPT ![c] = Snd!mark_update(ch, "Partial")]
      BY <1>3, <1>e DEF Snd!Disconnection, e, old
    <2>2. /\ ch \in ChanRecord /\ ch.value = old.value /\ ~ch.connected
          /\ ch.pending_update = old.pending_update /\ ch.connected \in BOOLEAN
          /\ ch.update_seq_no = old.update_seq_no /\ ch.no = old.no /\ ch.sess = old.sess
          /\ ch.valid = old.valid /\ ch.changed_mask = old.changed_mask
      BY <1>c DEF ChanRecord
    <2>3. old.value # NoValue
      BY <2>1, NotNull
    <2> HIDE DEF ch
    <2>4. ch.connected = (e.kind = "value")
      BY <2>1, <2>2
    <2> QED BY <1>k, <2>1, <2>2, <2>3, <2>4
  <1> QED BY <1>1, <1>2, <1>3

(* The end of the events, the definitions, the end of the updates. *)
LEMMA CoherentLoop ==
  ASSUME TypeInv, NEW u, NEW w, History(u, w), UNCHANGED rcvState,
         Snd!EventsDone \/ Snd!SendTypedefs \/ Snd!UpdatesDone
  PROVE  CoherentInv'
  <1>1. UNCHANGED <<src, events, chan>>
    BY DEF Snd!EventsDone, Snd!SendTypedefs, Snd!UpdatesDone, Snd!sourceVars
  <1>2. ASSUME NEW pkt \in In(net') PROVE pkt \in In(net) \/ pkt.kind # "data"
    <2>1. CASE Snd!EventsDone \/ Snd!UpdatesDone
      BY <1>2, <2>1 DEF Snd!EventsDone, Snd!UpdatesDone
    <2>2. CASE Snd!SendTypedefs
      <3> DEFINE new == Snd!PVATypeDefMsg(startup, typedef_id,
                          Snd!TypesFrom(typedef_id, Snd!TypesFitting(typedef_id)))
      <3>1. net' = Append(net, new)
        BY <2>2 DEF Snd!SendTypedefs, Snd!Send
      <3>2. new.kind # "data"
        BY DEF Snd!PVATypeDefMsg
      <3> HIDE DEF new, Packet
      <3>3. net \in Seq(Packet)
        BY DEF TypeInv, NetInv
      <3>4. PICK i \in 1 .. Len(net') : pkt = net'[i]
        BY <1>2 DEF In
      <3>5. (i \in 1 .. Len(net) /\ net'[i] = net[i]) \/ net'[i] = new
        BY <3>1, <3>3, <3>4
      <3> QED BY <3>2, <3>4, <3>5 DEF In
    <2> QED BY <2>1, <2>2
  <1>3. UNCHANGED <<rch, base>>
    BY DEF rcvState
  <1>4. ASSUME NEW d \in Chan
        PROVE  /\ Numbered(chan'[d])
               /\ Sessions(src'[d], events'[d], chan'[d], u[d])
               /\ Sending(chan'[d], w[d], u[d])
               /\ Later(chan[d], u[d], w[d], chan'[d], u[d], w[d])
    BY <1>1, SameIsLater DEF History
  <1>5. u \in [Chan -> Nat]
    BY DEF History
  <1> QED BY <1>2, <1>3, <1>4, <1>5, SenderStep

(* mark_heartbeat_updates. *)
LEMMA CoherentHeartbeats ==
  ASSUME TypeInv, ChangeInv, NEW u, NEW w, History(u, w), UNCHANGED rcvState,
         Snd!MarkHeartbeats
  PROVE  CoherentInv'
  <1>1. UNCHANGED <<src, events, net, rch, base>>
    BY DEF Snd!MarkHeartbeats, Snd!sourceVars, rcvState
  <1>2. ASSUME NEW d \in Chan
        PROVE  \/ chan'[d] = chan[d]
               \/ /\ chan[d].value # NoValue /\ chan'[d].value = chan[d].value
                  /\ chan'[d].connected = chan[d].connected
                  /\ chan'[d].update_seq_no = chan[d].update_seq_no
                  /\ chan'[d].no = chan[d].no /\ chan'[d].sess = chan[d].sess
                  /\ chan'[d].pending_update = "Full"
                  /\ \A v : Held(chan'[d], v)
    <2>1. CASE pc' = "aborted" /\ UNCHANGED <<chan, update_deque>>
      BY <2>1
    <2>2. CASE pc' = "updates"
      <3>1. /\ chan[d].value \in Structure
            /\ chan' = [c \in Chan |-> Snd!mark_update(chan[c], "Full")]
        BY <2>2, HeartbeatIs
      <3>2. chan[d] \in ChanRecord
        BY DEF TypeInv, SenderInv
      <3>3. chan'[d] = Snd!mark_update(chan[d], "Full")
        BY <3>1
      <3>4. MarksOf(chan[d]) /\ chan[d].value # NoValue /\ chan[d].valid = Field
        BY <3>1, NotNull DEF ChangeInv, MarksOf
      <3>5. ASSUME NEW v PROVE Held(chan'[d], v)
        BY <3>2, <3>3, <3>4, ChangeMarked
      <3> QED BY <3>1, <3>2, <3>3, <3>5, MarkIs, MarkKeeps, NotNull
    <2> QED BY <2>1, <2>2 DEF Snd!MarkHeartbeats
  <1>3. ASSUME NEW d \in Chan
        PROVE  /\ Numbered(chan'[d])
               /\ Sessions(src'[d], events'[d], chan'[d], u[d])
               /\ Sending(chan'[d], w[d], u[d])
               /\ Later(chan[d], u[d], w[d], chan'[d], u[d], w[d])
    <2>1. /\ Numbered(chan[d])
          /\ Sessions(src[d], events[d], chan[d], u[d])
          /\ Sending(chan[d], w[d], u[d])
      BY DEF History
    <2>2. CASE chan'[d] = chan[d]
      BY <1>1, <2>1, <2>2, SameIsLater
    <2>3. CASE chan'[d] # chan[d]
      <3>1. /\ chan[d].value # NoValue /\ chan'[d].value = chan[d].value
            /\ chan'[d].connected = chan[d].connected
            /\ chan'[d].update_seq_no = chan[d].update_seq_no
            /\ chan'[d].no = chan[d].no /\ chan'[d].sess = chan[d].sess
            /\ chan'[d].pending_update = "Full"
            /\ \A v : Held(chan'[d], v)
        BY <1>2, <2>3
      <3>2. Sessions(src[d], events[d], chan'[d], u[d])
        BY <2>1, <3>1 DEF Sessions, ValuesOf, LastOf
      <3>3. Sending(chan'[d], w[d], u[d])
        BY <2>1, <3>1 DEF Sending
      <3>4. Later(chan[d], u[d], w[d], chan'[d], u[d], w[d])
        BY <3>1, SameIsLater
      <3>5. Numbered(chan'[d])
        BY <2>1, <3>1 DEF Numbered
      <3> QED BY <1>1, <3>2, <3>3, <3>4, <3>5
    <2> QED BY <2>2, <2>3
  <1>4. u \in [Chan -> Nat]
    BY DEF History
  <1>5. \A pkt \in In(net') : pkt \in In(net)
    BY <1>1
  <1> QED BY <1>1, <1>3, <1>4, <1>5, SenderStep

-----------------------------------------------------------------------------
(* An entry of a message: what is marked of the channel's structure, if it *)
(* fits.                                                                   *)
LEMMA EntryIs ==
  ASSUME TypeInv, ChangeInv, NEW i \in 1 .. Snd!PackedCount
  PROVE  LET c == update_deque[i]
             ch == chan[c]
             e == Snd!Entry(i)
         IN /\ i \in 1 .. Len(update_deque) /\ c \in Chan /\ e \in Update
            /\ ch.value \in Structure /\ ch.pending_update # "None"
            /\ e.ch = c /\ e.useq = ch.update_seq_no /\ e.kind = ch.pending_update
            /\ e.of = ch.value /\ e.sess = ch.sess /\ e.no = ch.no
            /\ e.got = e.bits => e.bits = ch.changed_mask
  <1> DEFINE c == update_deque[i]
             ch == chan[c]
             e == Snd!Entry(i)
             r == Snd!RoomAfter[i - 1] - Snd!ChannelDataBytes(ch.pending_update)
  <1>1. i \in 1 .. Len(update_deque) /\ c \in Chan /\ e \in Update
    BY PackedIs DEF TypeInv
  <1>2. c \in In(update_deque)
    BY <1>1 DEF In
  <1>3. ch \in ChanRecord /\ ch.value \in Structure /\ ch.pending_update # "None"
    BY <1>1, <1>2 DEF TypeInv, SenderInv, QueueInv
  <1>4. ch.value # NoValue /\ MarksOf(ch)
    BY <1>1, <1>3, NotNull DEF ChangeInv
  <1>5. Snd!BitsOf(ch) = ch.changed_mask
    BY <1>3, <1>4 DEF Snd!BitsOf, MarksOf, ChanRecord
  <1>6. /\ e.ch = c /\ e.useq = ch.update_seq_no /\ e.kind = ch.pending_update
        /\ e.of = ch.value /\ e.sess = ch.sess /\ e.no = ch.no
        /\ e.got = Snd!FieldsWritten(Snd!BitsOf(ch), r)
        /\ e.bits = Snd!MaskRead(Snd!BitsOf(ch), r)
    BY DEF Snd!Entry, Snd!ChannelData
  <1> HIDE DEF r, e, ch, c
  <1>7. ch.changed_mask \in SUBSET Field
    BY <1>3 DEF ChanRecord
  <1>8. e.got \subseteq ch.changed_mask /\ e.bits \in {ch.changed_mask, Field}
    BY <1>5, <1>6 DEF Snd!FieldsWritten, Snd!MaskRead
  <1>9. e.got = e.bits => e.bits = ch.changed_mask
    BY <1>7, <1>8
  <1> QED BY <1>1, <1>3, <1>6, <1>9 DEF e, ch, c

(* What is sent of a channel, and the channel and its history after it.    *)
LEMMA EntryFlies ==
  ASSUME NEW e \in Update, NEW ch \in ChanRecord, NEW b \in Nat, NEW past,
         NEW ch2, NEW past2,
         ch.value \in Structure, ch.sess = b, ch.pending_update # "None", Numbered(ch),
         e.kind = ch.pending_update, e.useq = ch.update_seq_no, e.of = ch.value,
         e.sess = b, e.no = ch.no, e.got = e.bits => e.bits = ch.changed_mask,
         MarksOf(ch), Sending(ch, past, b),
         ch2.value = ch.value, ch2.no = ch.no + 1,
         past2[b][ch.no] = ch.value,
         \A s, k \in Nat : s # b \/ k # ch.no => past2[s][k] = past[s][k]
  PROVE  /\ Flying(e, ch2, past2, b)
         /\ Later(ch, b, past, ch2, b, past2)
         /\ Sending(ch2, past2, b)
  <1> DEFINE n == ch.no
             v == past[b][n - 1]
  <1>0. /\ n \in Nat /\ n + 1 # 0 /\ (n + 1) - 1 = n
        /\ ch.value # NoValue /\ ch.pending_update \in {"Partial", "Full"}
    <2>1. n \in Nat
      BY DEF ChanRecord
    <2> QED BY <2>1, NotNull DEF ChanRecord, Kinds
  <1>1. Later(ch, b, past, ch2, b, past2)
    BY <1>0 DEF Later, Issued
  <1>2. Sending(ch2, past2, b)
    BY <1>0 DEF Sending, Held
  <1>3. Issued(e.sess, e.no, ch2, b)
    BY <1>0 DEF Issued
  <1>4. ASSUME e.kind = "Partial", e.got = e.bits PROVE Partly(e, past2)
    <2>1. /\ n # 0 /\ v # NoValue /\ v.type = ch.value.type /\ Held(ch, v)
      BY <1>0, <1>4 DEF Sending
    <2>2. n - 1 \in Nat /\ n - 1 # n /\ n > 0
      BY <1>0, <2>1
    <2>3. past2[e.sess][e.no - 1] = v
      BY <2>1, <2>2
    <2> HIDE DEF v
    <2>4. \A f \in Field \ e.bits : v.val[f] = e.of.val[f]
      BY <1>0, <1>4, <2>1 DEF Held
    <2> QED BY <2>1, <2>2, <2>3, <2>4 DEF Partly
  <1>5. e.kind = "Full" /\ e.got = e.bits => e.bits = Field
    BY DEF MarksOf
  <1>6. /\ past2[e.sess][e.no] = e.of /\ e.kind \in {"Partial", "Full"}
        /\ e.useq = e.no % SeqMod
    BY <1>0 DEF Numbered
  <1> QED BY <1>1, <1>2, <1>3, <1>4, <1>5, <1>6 DEF Flying

(* send_updates. *)
LEMMA CoherentSendMessage ==
  ASSUME Counted, TypeInv, ChangeInv, NEW u, NEW w, History(u, w),
         UNCHANGED rcvState, Snd!SendMessage
  PROVE  CoherentInv'
  <1> DEFINE n == Snd!PackedCount
             packed == {update_deque[i] : i \in 1 .. n}
             upd == [i \in 1 .. n |-> Snd!Entry(i)]
             pkt == Snd!PVADataMsg(startup, seq_no, upd)
  <1>1. /\ n \in Nat /\ upd \in Seq(Update) /\ Len(upd) = n
        /\ \A i \in 1 .. n : i \in 1 .. Len(update_deque) /\ update_deque[i] \in Chan
    BY PackedIs DEF TypeInv
  <1>c. /\ chan \in [Chan -> ChanRecord] /\ net \in Seq(Packet) /\ Distinct(update_deque)
    BY DEF TypeInv, SenderInv, NetInv, QueueInv
  <1>h. /\ u \in [Chan -> Nat]
        /\ \A c \in Chan : /\ Numbered(chan[c])
                           /\ Sessions(src[c], events[c], chan[c], u[c])
                           /\ Sending(chan[c], w[c], u[c])
                           /\ MarksOf(chan[c])
    BY DEF History, ChangeInv
  <1>u. UNCHANGED <<src, events, rch, base>>
    BY DEF Snd!SendMessage, Snd!sourceVars, rcvState
  <1>2. CASE UNCHANGED <<net, chan>>
    <2>1. ASSUME NEW d \in Chan
          PROVE  /\ Numbered(chan'[d])
                 /\ Sessions(src'[d], events'[d], chan'[d], u[d])
                 /\ Sending(chan'[d], w[d], u[d])
                 /\ Later(chan[d], u[d], w[d], chan'[d], u[d], w[d])
      BY <1>h, <1>u, <1>2, SameIsLater
    <2>2. \A p \in In(net') : p \in In(net)
      BY <1>2
    <2> QED BY <1>h, <1>u, <2>1, <2>2, SenderStep
  <1>3. CASE /\ Snd!Send(pkt)
             /\ chan' = [c \in Chan |->
                  IF c \in packed
                  THEN Snd!clear_update([chan[c] EXCEPT
                         !.update_seq_no = Snd!NextSeq(chan[c].update_seq_no),
                         !.no = Snd!NextCount(chan[c].no)])
                  ELSE chan[c]]
    <2> DEFINE new(c) == [s \in Nat |-> [k \in Nat |->
                            IF s = u[c] /\ k = chan[c].no
                            THEN chan[c].value ELSE w[c][s][k]]]
    <2>1. PICK w2 : w2 = [c \in Chan |-> IF c \in packed THEN new(c) ELSE w[c]]
      OBVIOUS
    <2>3. ASSUME NEW i \in 1 .. n, NEW c \in Chan, c = update_deque[i]
          PROVE  /\ Flying(Snd!Entry(i), chan'[c], w2[c], u[c])
                 /\ Snd!Entry(i).ch = c
                 /\ Numbered(chan'[c])
                 /\ Sessions(src'[c], events'[c], chan'[c], u[c])
                 /\ Sending(chan'[c], w2[c], u[c])
                 /\ Later(chan[c], u[c], w[c], chan'[c], u[c], w2[c])
      <3> DEFINE ch == chan[c]
                 e == Snd!Entry(i)
      <3>1. c \in packed
        BY <2>3
      <3>4. chan'[c] = [ch EXCEPT !.update_seq_no = Snd!NextSeq(ch.update_seq_no),
                                  !.no = Snd!NextCount(ch.no),
                                  !.changed_mask = {}, !.pending_update = "None"]
        BY <1>3, <1>c, <3>1 DEF Snd!clear_update, ChanRecord
      <3> HIDE DEF packed, n
      <3>5. /\ e \in Update /\ ch.value \in Structure /\ ch.pending_update # "None"
            /\ e.ch = c /\ e.useq = ch.update_seq_no /\ e.kind = ch.pending_update
            /\ e.of = ch.value /\ e.sess = ch.sess /\ e.no = ch.no
            /\ e.got = e.bits => e.bits = ch.changed_mask
        BY <2>3, EntryIs DEF n
      <3>6. /\ ch \in ChanRecord /\ ch.value # NoValue /\ u[c] \in Nat
            /\ Numbered(ch) /\ Sessions(src[c], events[c], ch, u[c])
            /\ Sending(ch, w[c], u[c]) /\ MarksOf(ch)
        BY <1>c, <1>h, <3>5, NotNull
      <3> HIDE DEF e, ch
      <3>7. ch.sess = u[c]
        BY <3>6 DEF Sessions
      <3>8. /\ ch.no \in Nat /\ Snd!NextCount(ch.no) = ch.no + 1
            /\ Snd!NextSeq(ch.update_seq_no) = (ch.no + 1) % SeqMod
        <4>1. ch.no \in Nat
          BY <3>6 DEF ChanRecord
        <4>2. ch.update_seq_no \in 0 .. SeqMod - 1 /\ ch.update_seq_no = ch.no % SeqMod
          BY <3>6 DEF ChanRecord, Numbered
        <4> QED BY <4>1, <4>2, CountIs, Numbers, NextNumber
      <3>9. /\ chan'[c].value = ch.value /\ chan'[c].connected = ch.connected
            /\ chan'[c].sess = ch.sess /\ chan'[c].no = ch.no + 1
            /\ chan'[c].update_seq_no = (ch.no + 1) % SeqMod
        BY <3>4, <3>6, <3>8 DEF ChanRecord
      <3>11. w2[c] = new(c)
        BY <2>1, <3>1
      <3>12. /\ w2[c][u[c]][ch.no] = ch.value
             /\ \A s, k \in Nat : s # u[c] \/ k # ch.no => w2[c][s][k] = w[c][s][k]
        BY <3>6, <3>8, <3>11 DEF ch
      <3> HIDE DEF new
      <3>13. /\ Flying(e, chan'[c], w2[c], u[c])
             /\ Later(ch, u[c], w[c], chan'[c], u[c], w2[c])
             /\ Sending(chan'[c], w2[c], u[c])
        <4> DEFINE b == u[c]
                   past == w[c]
                   past2 == w2[c]
                   ch2 == chan'[c]
        <4>1. b \in Nat /\ ch.sess = b /\ e.sess = b
          BY <3>5, <3>6, <3>7
        <4>2. Sending(ch, past, b)
          BY <3>6
        <4>3. ch2.value = ch.value /\ ch2.no = ch.no + 1
          BY <3>9
        <4>4. /\ past2[b][ch.no] = ch.value
              /\ \A s, k \in Nat : s # b \/ k # ch.no => past2[s][k] = past[s][k]
          BY <3>12
        <4> HIDE DEF b, past, past2, ch2
        <4>5. Flying(e, ch2, past2, b) /\ Later(ch, b, past, ch2, b, past2)
              /\ Sending(ch2, past2, b)
          BY <3>5, <3>6, <4>1, <4>2, <4>3, <4>4, EntryFlies
        <4> QED BY <4>5 DEF b, past, past2, ch2
      <3>14. Sessions(src'[c], events'[c], chan'[c], u[c])
        BY <1>u, <3>6, <3>9 DEF Sessions, ValuesOf, LastOf
      <3>15. Numbered(chan'[c])
        BY <3>9 DEF Numbered
      <3> QED BY <3>5, <3>13, <3>14, <3>15 DEF e, ch
    <2>4. ASSUME NEW d \in Chan
          PROVE  /\ Numbered(chan'[d])
                 /\ Sessions(src'[d], events'[d], chan'[d], u[d])
                 /\ Sending(chan'[d], w2[d], u[d])
                 /\ Later(chan[d], u[d], w[d], chan'[d], u[d], w2[d])
      <3>1. CASE d \in packed
        <4>1. PICK i \in 1 .. n : d = update_deque[i]
          BY <3>1
        <4> HIDE DEF packed, n, new
        <4> QED BY <2>3, <4>1
      <3>2. CASE d \notin packed
        <4>1. chan'[d] = chan[d] /\ w2[d] = w[d]
          BY <1>3, <2>1, <3>2
        <4> QED BY <1>h, <1>u, <4>1, SameIsLater
      <3> QED BY <3>1, <3>2
    <2> HIDE DEF packed, new
    <2>5. ASSUME NEW p \in In(net'), p \notin In(net)
          PROVE  /\ OncePer(p.upd)
                 /\ \A e \in In(p.upd) : Flying(e, chan'[e.ch], w2[e.ch], u[e.ch])
      <3>1. p = pkt
        <4> HIDE DEF pkt, Packet
        <4>1. net' = Append(net, pkt)
          BY <1>3 DEF Snd!Send
        <4>2. PICK i \in 1 .. Len(net') : p = net'[i]
          BY <2>5 DEF In
        <4>3. (i \in 1 .. Len(net) /\ net'[i] = net[i]) \/ net'[i] = pkt
          BY <1>c, <4>1, <4>2
        <4> QED BY <2>5, <4>2, <4>3 DEF In
      <3>2. p.upd = upd
        BY <3>1 DEF Snd!PVADataMsg
      <3>3. \A i \in 1 .. n : upd[i] = Snd!Entry(i) /\ upd[i].ch = update_deque[i]
        <4> HIDE DEF n
        <4> QED BY <1>1, <2>3
      <3> HIDE DEF upd, n
      <3>4. OncePer(p.upd)
        <4> SUFFICES ASSUME NEW i \in 1 .. n, NEW j \in 1 .. n, upd[i].ch = upd[j].ch
                     PROVE  i = j
          BY <1>1, <3>2 DEF OncePer
        <4> QED BY <1>1, <1>c, <3>3 DEF Distinct
      <3>5. ASSUME NEW e \in In(p.upd)
            PROVE  Flying(e, chan'[e.ch], w2[e.ch], u[e.ch])
        <4>1. PICK i \in 1 .. n : e = upd[i]
          BY <1>1, <3>2 DEF In
        <4> QED BY <1>1, <2>3, <3>3, <4>1
      <3> QED BY <3>4, <3>5
    <2> QED BY <1>h, <1>u, <2>4, <2>5, SenderStep
  <1> QED BY <1>2, <1>3 DEF Snd!SendMessage

(* A new sender process: the sources connect to it anew. *)
LEMMA CoherentRestart ==
  ASSUME TypeInv, NEW u, NEW w, History(u, w), Restart
  PROVE  CoherentInv'
  <1> DEFINE fields(c) == {f \in Field : src[c].value.val[f] # Default}
             ev(c) == Snd!ValueEvent(src'[c], fields(c))
  <1>1. /\ chan' = [c \in Chan |-> Snd!IdleChannel]
        /\ src' = [c \in Chan |-> IF src[c].up THEN [src[c] EXCEPT !.sess = @ + 1] ELSE src[c]]
        /\ events' = [c \in Chan |-> IF src[c].up THEN <<ev(c)>> ELSE << >>]
        /\ UNCHANGED <<net, rch, base>>
    BY DEF Restart, Snd!Restart, rcvState
  <1>2. ASSUME NEW c \in Chan
        PROVE  /\ Numbered(chan'[c])
               /\ Sessions(src'[c], events'[c], chan'[c], u[c])
               /\ Sending(chan'[c], w[c], u[c])
               /\ Later(chan[c], u[c], w[c], chan'[c], u[c], w[c])
    <2>1. /\ chan'[c].value = NoValue /\ Numbered(chan'[c])
          /\ ~chan'[c].connected /\ chan'[c].connected = FALSE
      BY <1>1, NextNumber DEF Snd!IdleChannel, Numbered
    <2>2. /\ src[c] \in SourceRecord /\ src[c].sess \in Nat /\ src[c].up \in BOOLEAN
          /\ u[c] \in Nat /\ u[c] <= src[c].sess
      BY DEF TypeInv, SourceInv, History, Sessions, SourceRecord
    <2>3. CASE src[c].up
      <3>1. src'[c].up /\ src'[c].sess = src[c].sess + 1
        BY <1>1, <2>2, <2>3 DEF SourceRecord
      <3>2. /\ ev(c).kind = "value" /\ ev(c).sess = src'[c].sess
            /\ ev(c).of = src'[c].value
        BY DEF Snd!ValueEvent
      <3>3. events'[c] = <<ev(c)>>
        BY <1>1, <2>3
      <3> HIDE DEF ev
      <3>4. Len(events'[c]) = 1 /\ events'[c][1] = ev(c) /\ events'[c] # << >>
        BY <3>3
      <3>5. ValuesOf(src'[c], events'[c], chan'[c], u[c])
        BY <2>1, <2>2, <3>1, <3>2, <3>4 DEF ValuesOf
      <3>6. LastOf(src'[c], events'[c], chan'[c])
        BY <3>1, <3>2, <3>4 DEF LastOf
      <3>7. Sessions(src'[c], events'[c], chan'[c], u[c])
        BY <2>1, <2>2, <3>1, <3>5, <3>6 DEF Sessions
      <3> QED BY <1>1, <2>1, <3>7, SameIsLater DEF Sending
    <2>4. CASE ~src[c].up
      <3>1. src'[c] = src[c] /\ events'[c] = << >> /\ Len(<< >>) = 0
        BY <1>1, <2>4
      <3>2. ValuesOf(src'[c], events'[c], chan'[c], u[c])
        BY <3>1 DEF ValuesOf
      <3>3. LastOf(src'[c], events'[c], chan'[c])
        BY <2>1, <2>2, <2>4, <3>1 DEF LastOf
      <3>4. Sessions(src'[c], events'[c], chan'[c], u[c])
        BY <2>1, <2>2, <3>1, <3>2, <3>3 DEF Sessions
      <3> QED BY <1>1, <2>1, <3>4, SameIsLater DEF Sending
    <2> QED BY <2>3, <2>4
  <1>3. u \in [Chan -> Nat]
    BY DEF History
  <1>4. \A p \in In(net') : p \in In(net)
    BY <1>1
  <1> QED BY <1>1, <1>2, <1>3, <1>4, SenderStep

-----------------------------------------------------------------------------
(* A step of the network or the receiver keeps the histories.              *)
LEMMA ReceiverStep ==
  ASSUME NEW u, NEW w, History(u, w), UNCHANGED sndState, \A p \in In(net') : p \in In(net),
         base' \in [Chan -> BaseRecord],
         \A c \in Chan : Shown(rch'[c], base'[c], chan[c], w[c], u[c])
  PROVE  CoherentInv'
  <1>1. UNCHANGED <<src, events, chan>>
    BY DEF sndState
  <1>2. History(u, w)'
    BY <1>1 DEF History
  <1> QED BY <1>2 DEF CoherentInv

(* An update that is applied: a full one, or a change that is made to the  *)
(* structure it was cut from.                                              *)
LEMMA DecodedIs ==
  ASSUME ReceiverInv, NEW e \in Update, NEW ch, NEW b, NEW past,
         e.ch \in Chan, NEW bs \in BaseRecord, Shown(rch[e.ch], bs, ch, past, b),
         Flying(e, ch, past, b), Rcv!Applied(e), e.got = e.bits,
         e.kind = "Full" \/ Rcv!Follows(e, bs), e.sess # 0,
         Rcv!Decoded(e).type = e.of.type
  PROVE  Rcv!Decoded(e) = e.of
  <1> DEFINE t == Rcv!Target(e)
             v == [f \in Field |->
                     IF t.type # e.of.type THEN Torn
                     ELSE IF f \in e.got THEN e.of.val[f]
                     ELSE IF f \in e.bits THEN Torn ELSE t.val[f]]
             rc == rch[e.ch]
  <1>1. Rcv!Decoded(e) = [type |-> t.type, val |-> v]
    BY DEF Rcv!Decoded, Rcv!Struct
  <1>2. t.type = e.of.type
    BY <1>1
  <1>3. /\ e.of = [type |-> e.of.type, val |-> e.of.val] /\ e.of.val \in [Field -> Data]
        /\ e.no \in Nat
    BY DEF Update, Structure
  <1>4. e.kind \in {"Partial", "Full"}
    BY DEF Flying
  <1>5. ASSUME NEW f \in Field PROVE v[f] = e.of.val[f]
    <2>1. CASE e.kind = "Full"
      <3>1. f \in e.got
        BY <2>1 DEF Flying
      <3> QED BY <1>2, <3>1
    <2>2. CASE e.kind = "Partial" /\ f \notin e.got
      <3>1. rc.last_value # NoValue /\ e.useq = NextSeq(rc.last_update_seqno)
        BY <2>2, Numbers DEF Rcv!Applied, Rcv!PartialFollows, ReceiverInv, RcvRecord
      <3>2. bs.full = e.sess /\ bs.full # 0 /\ ~Rcv!CameRound(e, bs)
        BY <2>2 DEF Rcv!Follows
      <3>3. /\ rc.last_update_seqno = bs.no % SeqMod
            /\ past[e.sess][bs.no] = bs.of
            /\ rc.last_value.type = bs.of.type => rc.last_value = bs.of
        BY <3>1, <3>2 DEF Shown
      <3>4. e.no = bs.no + 1 /\ bs.no = e.no - 1
        <4>1. bs.no \in Nat
          BY DEF BaseRecord
        <4>2. e.no % SeqMod = (bs.no + 1) % SeqMod
          BY <3>1, <3>3, <4>1, NextNumber DEF Flying
        <4>3. e.no = bs.no + 1
          BY <3>2, <4>2 DEF Rcv!CameRound
        <4> QED BY <4>1, <4>3
      <3>5. past[e.sess][e.no - 1] = bs.of
        BY <3>3, <3>4
      <3>6. Partly(e, past)
        BY <2>2 DEF Flying
      <3>7. bs.of.type = e.of.type /\ bs.of.val[f] = e.of.val[f]
        BY <1>4, <2>2, <3>5, <3>6 DEF Partly
      <3>8. t = rc.last_value
        BY <3>1 DEF Rcv!Target
      <3>9. t.val[f] = e.of.val[f]
        BY <1>2, <3>3, <3>7, <3>8
      <3> QED BY <1>2, <1>4, <2>2, <3>9
    <2>3. CASE f \in e.got
      BY <1>2, <2>3
    <2> QED BY <1>4, <2>1, <2>2, <2>3
  <1>6. v = e.of.val
    <2> HIDE DEF t
    <2>1. v = [f \in Field |-> v[f]] /\ e.of.val = [f \in Field |-> e.of.val[f]]
      BY <1>3
    <2> HIDE DEF v
    <2> QED BY <1>5, <2>1
  <1> HIDE DEF v, t
  <1> QED BY <1>1, <1>2, <1>3, <1>6

(* What a channel shows after a message, of which it reads its own update  *)
(* if it is in it.                                                         *)
LEMMA ShownAfter ==
  ASSUME ReceiverInv, NEW upd \in Seq(Update), OncePer(upd), NEW n \in Rcv!Ends(upd),
         NEW c \in Chan, NEW ch, NEW b, NEW past,
         \A e \in In(upd) : e.ch = c => Flying(e, ch, past, b),
         base[c] \in BaseRecord, Shown(rch[c], base[c], ch, past, b)
  PROVE  LET read == Rcv!Read(upd, n)
         IN /\ Shown(Rcv!AfterUpdate(c, read), Rcv!BaseAfter(c, read), ch, past, b)
            /\ Rcv!BaseAfter(c, read) \in BaseRecord
  <1> DEFINE read == Rcv!Read(upd, n)
             rc == Rcv!AfterUpdate(c, read)
             bs == Rcv!BaseAfter(c, read)
  <1>1. CASE \E e \in read : e.ch = c
    <2> DEFINE e == CHOOSE e \in read : e.ch = c
    <2>1. e \in read /\ e.ch = c
      <3> HIDE DEF read
      <3> QED BY <1>1
    <2>2. ASSUME NEW x \in read, x.ch = c PROVE x = e
      <3>1. x \in In(upd) /\ e \in In(upd)
        <4> HIDE DEF e, Update
        <4> QED BY <2>1, ReadIs
      <3> HIDE DEF e, read
      <3>2. PICK i \in 1 .. Len(upd) : x = upd[i]
        BY <3>1 DEF In
      <3>3. PICK j \in 1 .. Len(upd) : e = upd[j]
        BY <3>1 DEF In
      <3>4. i = j
        BY <2>1, <2>2, <3>2, <3>3 DEF OncePer
      <3> QED BY <3>2, <3>3, <3>4
    <2>3. /\ rc = IF Rcv!Applied(e)
                  THEN [last_update_seqno |-> e.useq, last_value |-> Rcv!Decoded(e),
                        disconnected |-> FALSE]
                  ELSE [rch[c] EXCEPT !.disconnected = FALSE]
          /\ bs = IF \E x \in read : x.ch = c /\ Rcv!Applied(x)
                  THEN [of |-> e.of, no |-> e.no,
                        full |-> IF e.got = e.bits /\ (e.kind = "Full" \/ Rcv!Follows(e, base[c]))
                                 THEN e.sess ELSE 0]
                  ELSE base[c]
      BY <1>1 DEF Rcv!AfterUpdate, Rcv!BaseAfter
    <2> HIDE DEF e, rc, bs, read
    <2>4. e \in Update /\ e \in In(upd) /\ Flying(e, ch, past, b)
      <3>1. e \in Update /\ e \in In(upd)
        BY <2>1, ReadIs DEF read
      <3> QED BY <2>1, <3>1
    <2>5. CASE Rcv!Applied(e)
      <3> DEFINE full == IF e.got = e.bits /\ (e.kind = "Full" \/ Rcv!Follows(e, base[c]))
                         THEN e.sess ELSE 0
      <3>1. bs = [of |-> e.of, no |-> e.no, full |-> full]
        BY <2>1, <2>3, <2>5
      <3>2. rc.last_update_seqno = e.useq /\ rc.last_value = Rcv!Decoded(e)
        BY <2>3, <2>5
      <3>3. e.of \in Structure /\ e.sess \in Nat /\ e.no \in Nat
        BY <2>4 DEF Update
      <3>4. full \in Nat
        BY <3>3
      <3>5. full # 0 => /\ full = e.sess /\ e.got = e.bits
                        /\ e.kind = "Full" \/ Rcv!Follows(e, base[c])
        OBVIOUS
      <3> HIDE DEF full
      <3>6. bs \in BaseRecord /\ bs.of = e.of /\ bs.no = e.no /\ bs.full = full
        BY <3>1, <3>3, <3>4 DEF BaseRecord
      <3>7. ASSUME full # 0, Rcv!Decoded(e).type = e.of.type PROVE Rcv!Decoded(e) = e.of
        BY <2>1, <2>4, <2>5, <3>5, <3>7, DecodedIs
      <3>8. Shown(rc, bs, ch, past, b)
        <4>1. /\ e.useq = e.no % SeqMod /\ Issued(e.sess, e.no, ch, b)
              /\ past[e.sess][e.no] = e.of
          BY <2>4 DEF Flying
        <4> QED BY <3>2, <3>5, <3>6, <3>7, <4>1 DEF Shown
      <3> QED BY <3>6, <3>8 DEF rc, bs, read
    <2>6. CASE ~Rcv!Applied(e)
      <3>1. bs = base[c]
        BY <2>2, <2>3, <2>6
      <3>2. rc = [rch[c] EXCEPT !.disconnected = FALSE]
        BY <2>3, <2>6
      <3>3. rc.last_value = rch[c].last_value
            /\ rc.last_update_seqno = rch[c].last_update_seqno
        BY <3>2 DEF ReceiverInv, RcvRecord
      <3>4. Shown(rc, bs, ch, past, b)
        BY <3>1, <3>3 DEF Shown
      <3> QED BY <3>1, <3>4 DEF rc, bs, read
    <2> QED BY <2>5, <2>6
  <1>2. CASE ~\E e \in read : e.ch = c
    BY <1>2 DEF Rcv!AfterUpdate, Rcv!BaseAfter
  <1> QED BY <1>1, <1>2

(* receive_updates. *)
LEMMA CoherentReceive ==
  ASSUME TypeInv, NEW u, NEW w, History(u, w), UNCHANGED sndState,
         \A p \in In(net') : p \in In(net), NEW pkt \in In(net), pkt \in Packet,
         Rcv!Receive(pkt)
  PROVE  CoherentInv'
  <1>0. /\ rch \in [Chan -> RcvRecord] /\ base \in [Chan -> BaseRecord]
        /\ \A c \in Chan : Shown(rch[c], base[c], chan[c], w[c], u[c])
    BY DEF TypeInv, ReceiverInv, History
  <1>1. CASE UNCHANGED <<rch, base>>
    BY <1>0, <1>1, ReceiverStep
  <1>2. CASE Rcv!ReceiveData(pkt) /\ ~UNCHANGED <<rch, base>>
    <2>0. PICK n \in Rcv!Ends(pkt.upd) :
            \E m \in [Chan -> IF n < Len(pkt.upd) THEN Rcv!Misreads ELSE {<< >>}] :
              /\ rch' = [c \in Chan |->
                           Rcv!Misread(Rcv!AfterUpdate(c, Rcv!Read(pkt.upd, n)), m[c])]
              /\ base' = [c \in Chan |->
                            IF m[c] = << >> THEN Rcv!BaseAfter(c, Rcv!Read(pkt.upd, n))
                            ELSE [base[c] EXCEPT !.full = 0]]
      BY <1>2 DEF Rcv!ReceiveData
    <2> DEFINE read == Rcv!Read(pkt.upd, n)
    <2>1. PICK m \in [Chan -> IF n < Len(pkt.upd) THEN Rcv!Misreads ELSE {<< >>}] :
            /\ rch' = [c \in Chan |-> Rcv!Misread(Rcv!AfterUpdate(c, read), m[c])]
            /\ base' = [c \in Chan |-> IF m[c] = << >> THEN Rcv!BaseAfter(c, read)
                                      ELSE [base[c] EXCEPT !.full = 0]]
      BY <2>0
    <2>2. pkt.kind = "data"
      BY <1>2 DEF Rcv!ReceiveData
    <2>3. pkt.upd \in Seq(Update)
      BY <2>2 DEF Packet, DataPacket, TypedefPacket
    <2>4. OncePer(pkt.upd) /\ \A e \in In(pkt.upd) : Flying(e, chan[e.ch], w[e.ch], u[e.ch])
      BY <2>2 DEF History
    <2>5. ASSUME NEW c \in Chan
          PROVE  /\ Shown(rch'[c], base'[c], chan[c], w[c], u[c])
                 /\ base'[c] \in BaseRecord
      <3>1. base[c] \in BaseRecord /\ Shown(rch[c], base[c], chan[c], w[c], u[c])
        BY <1>0
      <3>2. \A e \in In(pkt.upd) : e.ch = c => Flying(e, chan[c], w[c], u[c])
        BY <2>4
      <3>3. /\ Shown(Rcv!AfterUpdate(c, read), Rcv!BaseAfter(c, read), chan[c], w[c], u[c])
            /\ Rcv!BaseAfter(c, read) \in BaseRecord
        BY <2>3, <2>4, <3>1, <3>2, ShownAfter DEF TypeInv
      <3> HIDE DEF read
      <3>4. CASE m[c] = << >>
        <4>1. rch'[c] = Rcv!AfterUpdate(c, read) /\ base'[c] = Rcv!BaseAfter(c, read)
          BY <2>1, <3>4 DEF Rcv!Misread
        <4> QED BY <3>3, <4>1
      <3>5. CASE m[c] # << >>
        <4>1. base'[c] = [base[c] EXCEPT !.full = 0]
          BY <2>1, <3>5
        <4>2. base'[c] \in BaseRecord /\ base'[c].full = 0
          BY <3>1, <4>1 DEF BaseRecord
        <4> QED BY <4>2 DEF Shown
      <3> QED BY <3>4, <3>5
    <2>6. base' = [c \in Chan |-> base'[c]]
      BY <2>1
    <2>7. base' \in [Chan -> BaseRecord]
      BY <2>5, <2>6
    <2> QED BY <2>5, <2>7, ReceiverStep
  <1>3. CASE Rcv!ReceiveOlder(pkt) \/ Rcv!ReceiveTypedef(pkt)
    <2>1. UNCHANGED <<rch, base>>
      BY <1>3 DEF Rcv!ReceiveOlder, Rcv!rcvVars, Rcv!ReceiveTypedef
    <2> QED BY <1>1, <2>1
  <1> QED BY <1>1, <1>2, <1>3 DEF Rcv!Receive

(* Every step. *)
LEMMA CoherentStep ==
  ASSUME Counted, TypeInv, ChangeInv, CoherentInv, [Next]_vars
  PROVE  CoherentInv'
  <1>1. PICK u, w : History(u, w)
    BY DEF CoherentInv
  <1>0. /\ rch \in [Chan -> RcvRecord] /\ base \in [Chan -> BaseRecord]
        /\ \A c \in Chan : Shown(rch[c], base[c], chan[c], w[c], u[c])
    BY <1>1 DEF TypeInv, ReceiverInv, History
  <1>2. CASE Source
    BY <1>1, <1>2, CoherentSource
  <1>3. CASE Worker
    <2>1. UNCHANGED rcvState
      BY <1>3 DEF Worker
    <2> QED BY <1>1, <1>3, <2>1, CoherentEvent, CoherentLoop, CoherentHeartbeats,
               CoherentSendMessage
        DEF Worker, Snd!Worker
  <1>4. CASE Restart
    BY <1>1, <1>4, CoherentRestart
  <1>5. ASSUME NEW i \in 1 .. Len(net), Deliver(i) \/ Lose(i) \/ Duplicate(i)
        PROVE  CoherentInv'
    <2>1. /\ net[i] \in Packet /\ net[i] \in In(net)
          /\ In(Without(net, i)) \subseteq In(net) /\ In(Doubled(net, i)) \subseteq In(net)
      BY NetFaults DEF TypeInv, NetInv
    <2>2. UNCHANGED sndState /\ \A p \in In(net') : p \in In(net)
      BY <1>5, <2>1 DEF Deliver, Lose, Duplicate
    <2>3. CASE Deliver(i)
      <3>1. Rcv!Receive(net[i])
        BY <2>3 DEF Deliver
      <3> QED BY <1>1, <2>1, <2>2, <3>1, CoherentReceive
    <2>4. CASE Lose(i) \/ Duplicate(i)
      <3>1. UNCHANGED <<rch, base>>
        BY <2>4 DEF Lose, Duplicate, rcvState
      <3> QED BY <1>0, <1>1, <2>2, <3>1, ReceiverStep
    <2> QED BY <1>5, <2>3, <2>4
  <1>6. CASE Silence
    <2>1. PICK S \in SUBSET Chan : Rcv!CheckNoUpdates(S)
      BY <1>6 DEF Silence
    <2>2. /\ rch' = [c \in Chan |-> IF c \in S THEN [rch[c] EXCEPT !.disconnected = TRUE]
                                    ELSE rch[c]]
          /\ UNCHANGED base
      BY <2>1 DEF Rcv!CheckNoUpdates
    <2>3. \A c \in Chan : /\ rch'[c].last_value = rch[c].last_value
                          /\ rch'[c].last_update_seqno = rch[c].last_update_seqno
      BY <1>0, <2>2 DEF RcvRecord
    <2>4. \A c \in Chan : Shown(rch'[c], base'[c], chan[c], w[c], u[c])
      BY <1>0, <2>2, <2>3 DEF Shown
    <2>5. UNCHANGED sndState /\ \A p \in In(net') : p \in In(net)
      BY <1>6 DEF Silence
    <2> QED BY <1>0, <1>1, <2>2, <2>4, <2>5, ReceiverStep
  <1>7. CASE UNCHANGED vars
    <2>1. UNCHANGED sndState /\ UNCHANGED <<rch, base, net>>
      BY <1>7 DEF vars, rcvState
    <2> QED BY <1>0, <1>1, <2>1, ReceiverStep
  <1> QED BY <1>2, <1>3, <1>4, <1>5, <1>6, <1>7 DEF Next

(* The histories of the initial state: nothing is sent yet.                *)
LEMMA CoherentInit == Init => CoherentInv
  <1> SUFFICES ASSUME Init PROVE CoherentInv
    OBVIOUS
  <1>1. PICK u, w : u = [c \in Chan |-> 0] /\ w = [c \in Chan |-> << >>]
    OBVIOUS
  <1>2. /\ chan = [c \in Chan |-> Snd!IdleChannel] /\ events = [c \in Chan |-> << >>]
        /\ src = [c \in Chan |-> [up |-> FALSE, value |-> NoValue, changes |-> 0, sess |-> 0]]
        /\ net = << >>
        /\ base = [c \in Chan |-> [of |-> NoValue, no |-> 0, full |-> 0]]
    BY DEF Init, Snd!SndInit, Rcv!RcvInit
  <1>3. ASSUME NEW c \in Chan
        PROVE  /\ Numbered(chan[c])
               /\ Sessions(src[c], events[c], chan[c], u[c])
               /\ Sending(chan[c], w[c], u[c])
               /\ Shown(rch[c], base[c], chan[c], w[c], u[c])
    <2>1. /\ chan[c].value = NoValue /\ chan[c].connected = FALSE
          /\ chan[c].update_seq_no = 0 /\ chan[c].no = 0
          /\ u[c] = 0 /\ base[c].full = 0 /\ src[c].sess = 0 /\ src[c].up = FALSE
          /\ events[c] = << >> /\ Len(events[c]) = 0
      BY <1>1, <1>2 DEF Snd!IdleChannel
    <2>2. ValuesOf(src[c], events[c], chan[c], u[c])
      BY <2>1 DEF ValuesOf
    <2>3. LastOf(src[c], events[c], chan[c])
      BY <2>1 DEF LastOf
    <2>4. Sessions(src[c], events[c], chan[c], u[c])
      BY <2>1, <2>2, <2>3 DEF Sessions
    <2>5. Numbered(chan[c])
      BY <2>1, NextNumber DEF Numbered
    <2> QED BY <2>1, <2>4, <2>5 DEF Sending, Shown
  <1>4. u \in [Chan -> Nat] /\ base \in [Chan -> BaseRecord]
    BY <1>1, <1>2 DEF BaseRecord
  <1>5. In(net) = {}
    BY <1>2 DEF In
  <1>6. History(u, w)
    BY <1>3, <1>4, <1>5 DEF History
  <1> QED BY <1>6 DEF CoherentInv

(* Coherent holds in every reachable state, if the first event of a source *)
(* marks all fields: through lost, repeated and overtaking datagrams,      *)
(* updates that were cut or read from the wrong place, restarts, and       *)
(* numbers that wrap any number of times, changes go only onto the         *)
(* structure they were cut from, and a structure shown is one that the     *)
(* sender had (receive_updates, update_seq_no, send_updates).  Counted     *)
(* makes the history tell an update that has come round from the next one. *)
THEOREM PvaCoherent ==
  ASSUME AllMarked, Counted
  PROVE  Spec => []Coherent
  <1>1. TypeInv /\ ChangeInv /\ CoherentInv /\ [Next]_vars => CoherentInv'
    BY CoherentStep
  <1>2. CoherentInv => Coherent
    <2> SUFFICES ASSUME CoherentInv, NEW c \in Chan,
                        rch[c].last_value # NoValue, base[c].full # 0,
                        rch[c].last_value.type = base[c].of.type
                 PROVE  rch[c].last_value = base[c].of
      BY DEF Coherent
    <2>1. PICK u, w : History(u, w)
      BY DEF CoherentInv
    <2>2. Shown(rch[c], base[c], chan[c], w[c], u[c])
      BY <2>1 DEF History
    <2> QED BY <2>2 DEF Shown
  <1> QED BY <1>1, <1>2, CoherentInit, TypeInvariant, ChangeInvariant, PTL DEF Spec
=============================================================================
