---------------------------- MODULE CaLinkProofs ----------------------------
(***************************************************************************)
(* Proofs about CaLink, for any channels and values of any size, any       *)
(* message size, and any losses, duplicates and reordering.                *)
(***************************************************************************)
EXTENDS CaLink, TLAPS

(* The datagrams a sender makes. *)
UpdateSet == UNION {[S -> Value] : S \in SUBSET Chan}
DataPacket == [kind : {"data"}, startup : 1 .. MaxStartup, seq : 0 .. SeqMod - 1, upd : UpdateSet]
FragPacket == [kind : {"frag"}, startup : 1 .. MaxStartup, seq : 0 .. SeqMod - 1,
               no : Nat, ch : Chan, val : Value, fsize : Nat]
Packet == DataPacket \cup FragPacket
Piece == [ch : Chan, val : Value, no : Nat]

SrcTypeInv ==
  /\ startup \in 1 .. MaxStartup
  /\ seq_no \in 0 .. SeqMod - 1
  /\ cur \in [Chan -> Value]
  /\ frag # None => frag \in [seq : 0 .. SeqMod - 1, no : Nat, ch : Chan, rest : Nat \ {0}]
  /\ net \in Seq(Packet)

RcvTypeInv ==
  /\ last_seq_no \in 0 .. SeqMod - 1
  /\ active_fragment_seq_no \in 0 .. SeqMod - 1
  /\ last_fragment_seq_no \in 0 .. SeqMod - 1
  /\ last_startup_time \in 0 .. MaxStartup
  /\ buffer \in Seq(Piece)
  /\ room \in Nat
  /\ disconnected \in [Chan -> BOOLEAN]
  /\ shown \in [Chan -> Value \cup {None, Torn}]

TypeInv == SrcTypeInv /\ RcvTypeInv

(* Sizes and sequence numbers; the sender's and the receiver's are the     *)
(* same.                                                                   *)
LEMMA Numbers ==
  /\ SeqMod \in Nat /\ SeqMod >= 2 /\ NoSeq \in 0 .. SeqMod - 1 /\ NoSeq = SeqMod - 1
  /\ Rcv!NoSeq = NoSeq
  /\ FragRoom \in Nat /\ FragRoom > 0 /\ MaxDataSize \in Nat
  /\ Src!FragRoom = FragRoom /\ Src!MaxDataSize = MaxDataSize
  /\ \A s \in 0 .. SeqMod - 1 : /\ NextSeq(s) \in 0 .. SeqMod - 1
                                /\ NextSeq(s) = (IF s = SeqMod - 1 THEN 0 ELSE s + 1)
                                /\ Src!NextSeq(s) = NextSeq(s) /\ Rcv!NextSeq(s) = NextSeq(s)
  <1>1. SeqMod \in Nat /\ SeqMod >= 2
    BY SeqModAssumption
  <1>2. \A s \in 0 .. SeqMod - 1 : (s + 1) % SeqMod = (IF s = SeqMod - 1 THEN 0 ELSE s + 1)
    <2> SUFFICES ASSUME NEW s \in 0 .. SeqMod - 1
                 PROVE  (s + 1) % SeqMod = (IF s = SeqMod - 1 THEN 0 ELSE s + 1)
      OBVIOUS
    <2>1. CASE s = SeqMod - 1
      BY <1>1, <2>1
    <2>2. CASE s # SeqMod - 1
      BY <1>1, <2>2
    <2> QED BY <2>1, <2>2
  <1>3. \A s \in 0 .. SeqMod - 1 : /\ NextSeq(s) \in 0 .. SeqMod - 1
                                   /\ NextSeq(s) = (IF s = SeqMod - 1 THEN 0 ELSE s + 1)
                                   /\ Src!NextSeq(s) = NextSeq(s)
                                   /\ Rcv!NextSeq(s) = NextSeq(s)
    BY <1>1, <1>2 DEF NextSeq, Src!NextSeq, Rcv!NextSeq
  <1>4. /\ NoSeq \in 0 .. SeqMod - 1 /\ NoSeq = SeqMod - 1 /\ Rcv!NoSeq = NoSeq
    BY <1>1 DEF NoSeq, Rcv!NoSeq
  <1>5. /\ FragRoom \in Nat /\ FragRoom > 0 /\ MaxDataSize \in Nat
        /\ Src!FragRoom = FragRoom /\ Src!MaxDataSize = MaxDataSize
    BY MaxMessageSizeAssumption
    DEF FragRoom, MaxDataSize, DataRoom, HeaderSize, SubmessageHeaderSize,
        CAFragDataMessageSize, CADataMessageSize, CAChannelDataSize,
        Src!FragRoom, Src!MaxDataSize, Src!DataRoom, Src!HeaderSize, Src!SubmessageHeaderSize,
        Src!CAFragDataMessageSize, Src!CADataMessageSize, Src!CAChannelDataSize
  <1> QED BY <1>1, <1>3, <1>4, <1>5

(* A function on 1..n is a sequence of that length. *)
LEMMA FunctionIsSeq ==
  ASSUME NEW T, NEW n \in Nat, NEW f \in [1 .. n -> T]
  PROVE  f \in Seq(T) /\ Len(f) = n
  OBVIOUS

(* The elements of a sequence with one more at its end. *)
LEMMA AppendIs ==
  ASSUME NEW T, NEW b \in Seq(T), NEW e \in T
  PROVE  /\ Append(b, e) \in [1 .. Len(b) + 1 -> T]
         /\ \A i \in 1 .. Len(b) + 1 : Append(b, e)[i] = IF i = Len(b) + 1 THEN e ELSE b[i]
  <1>1. Append(b, e) \in Seq(T) /\ Len(Append(b, e)) = Len(b) + 1 /\ Len(b) \in Nat
    OBVIOUS
  <1>2. \A q \in Seq(T) : q \in [1 .. Len(q) -> T]
    OBVIOUS
  <1>3. Append(b, e) \in [1 .. Len(b) + 1 -> T]
    BY <1>1, <1>2, Zenon
  <1>4. \A i \in 1 .. Len(b) : Append(b, e)[i] = b[i]
    OBVIOUS
  <1>5. Append(b, e)[Len(b) + 1] = e
    OBVIOUS
  <1>6. ASSUME NEW i \in 1 .. Len(b) + 1
        PROVE  Append(b, e)[i] = IF i = Len(b) + 1 THEN e ELSE b[i]
    <2>1. CASE i = Len(b) + 1
      BY <1>5, <2>1
    <2>2. CASE i # Len(b) + 1
      <3>1. i \in 1 .. Len(b)
        BY <1>1, <2>2
      <3> QED BY <1>4, <2>2, <3>1
    <2> QED BY <2>1, <2>2
  <1> QED BY <1>3, <1>6

(* What a loss or a duplicate leaves in the network was there before. *)
LEMMA NetFaults ==
  ASSUME NEW T, NEW s \in Seq(T), NEW i \in 1 .. Len(s)
  PROVE  /\ Without(s, i) \in Seq(T) /\ Doubled(s, i) \in Seq(T)
         /\ Len(Without(s, i)) = Len(s) - 1 /\ Len(Doubled(s, i)) = Len(s) + 1
         /\ \A j \in 1 .. Len(s) - 1 : \E k \in 1 .. Len(s) : Without(s, i)[j] = s[k]
         /\ \A j \in 1 .. Len(s) + 1 : \E k \in 1 .. Len(s) : Doubled(s, i)[j] = s[k]
  <1>1. Len(s) \in Nat /\ \A k \in 1 .. Len(s) : s[k] \in T
    OBVIOUS
  <1>2. \A j \in 1 .. Len(s) - 1 : \E k \in 1 .. Len(s) : Without(s, i)[j] = s[k]
    <2> SUFFICES ASSUME NEW j \in 1 .. Len(s) - 1
                 PROVE  \E k \in 1 .. Len(s) : Without(s, i)[j] = s[k]
      OBVIOUS
    <2>1. j \in 1 .. Len(s) /\ j + 1 \in 1 .. Len(s)
      BY <1>1
    <2>2. Without(s, i)[j] = s[j] \/ Without(s, i)[j] = s[j + 1]
      BY DEF Without
    <2> QED BY <2>1, <2>2
  <1>3. \A j \in 1 .. Len(s) + 1 : \E k \in 1 .. Len(s) : Doubled(s, i)[j] = s[k]
    <2> SUFFICES ASSUME NEW j \in 1 .. Len(s) + 1
                 PROVE  \E k \in 1 .. Len(s) : Doubled(s, i)[j] = s[k]
      OBVIOUS
    <2>1. CASE j <= i
      <3>1. j \in 1 .. Len(s) /\ Doubled(s, i)[j] = s[j]
        BY <1>1, <2>1 DEF Doubled
      <3> QED BY <3>1
    <2>2. CASE ~(j <= i)
      <3>1. j - 1 \in 1 .. Len(s) /\ Doubled(s, i)[j] = s[j - 1]
        BY <1>1, <2>2 DEF Doubled
      <3> QED BY <3>1
    <2> QED BY <2>1, <2>2
  <1>4. /\ Without(s, i) \in [1 .. Len(s) - 1 -> T]
        /\ Doubled(s, i) \in [1 .. Len(s) + 1 -> T]
    <2>1. \A j \in 1 .. Len(s) - 1 : Without(s, i)[j] \in T
      BY <1>1, <1>2
    <2>2. \A j \in 1 .. Len(s) + 1 : Doubled(s, i)[j] \in T
      BY <1>1, <1>3
    <2>3. /\ Without(s, i) = [j \in 1 .. Len(s) - 1 |-> Without(s, i)[j]]
          /\ Doubled(s, i) = [j \in 1 .. Len(s) + 1 |-> Doubled(s, i)[j]]
      BY DEF Without, Doubled
    <2> DEFINE w == Without(s, i)
               d == Doubled(s, i)
    <2> HIDE DEF w, d
    <2>4. w = [j \in 1 .. Len(s) - 1 |-> w[j]] /\ d = [j \in 1 .. Len(s) + 1 |-> d[j]]
      BY <2>3 DEF w, d
    <2>5. w \in [1 .. Len(s) - 1 -> T]
      BY <2>1, <2>4 DEF w
    <2>6. d \in [1 .. Len(s) + 1 -> T]
      BY <2>2, <2>4 DEF d
    <2> QED BY <2>5, <2>6 DEF w, d
  <1>5. Len(s) - 1 \in Nat /\ Len(s) + 1 \in Nat
    BY <1>1
  <1>6. Without(s, i) \in Seq(T) /\ Len(Without(s, i)) = Len(s) - 1
    BY <1>4, <1>5, FunctionIsSeq
  <1>7. Doubled(s, i) \in Seq(T) /\ Len(Doubled(s, i)) = Len(s) + 1
    BY <1>4, <1>5, FunctionIsSeq
  <1> QED BY <1>2, <1>3, <1>6, <1>7

-----------------------------------------------------------------------------
(* Every variable has its type. *)

(* Types: the variables of the initial state have their types. *)
LEMMA TypeInit == Init => TypeInv
  <1> SUFFICES ASSUME Init PROVE TypeInv
    OBVIOUS
  <1> USE Numbers
  <1>1. SrcTypeInv
    BY ValueAssumption, StartupAssumption DEF Init, Src!SrcInit, SrcTypeInv
  <1>2. RcvTypeInv
    BY StartupAssumption DEF Init, Rcv!RcvInit, RcvTypeInv
  <1> QED BY <1>1, <1>2 DEF TypeInv

(* Types: a step of the sender keeps them (Store, EmitData, BeginFrag,     *)
(* EmitFrag, Restart); in particular the bytes of an update that is sent   *)
(* in fragments never become negative, and 0 only when it is over.         *)
LEMMA TypeSend == TypeInv /\ Send => TypeInv'
  <1> SUFFICES ASSUME TypeInv, Send PROVE TypeInv'
    OBVIOUS
  <1>r. RcvTypeInv'
    BY DEF TypeInv, RcvTypeInv, Send, rcvVars
  <1> SUFFICES SrcTypeInv'
    BY <1>r DEF TypeInv
  <1> USE DEF TypeInv, SrcTypeInv
  <1> USE Numbers
  <1>1. ASSUME NEW c \in Chan, Src!Store(c) PROVE SrcTypeInv'
    <2>1. PICK v \in Succ[c][cur[c]] : cur' = [cur EXCEPT ![c] = v]
      BY <1>1 DEF Src!Store
    <2>2. Succ[c][cur[c]] \in SUBSET Value
      BY ValueAssumption
    <2>3. cur' \in [Chan -> Value]
      BY <2>1, <2>2
    <2> QED BY <1>1, <2>3 DEF Src!Store
  <1>2. ASSUME NEW S \in SUBSET Chan, Src!EmitData(S) PROVE SrcTypeInv'
    <2> DEFINE upd == [c \in S |-> cur[c]]
               pkt == Src!DataMsg(startup, seq_no, upd)
    <2>1. upd \in UpdateSet
      BY DEF UpdateSet
    <2>2. pkt \in DataPacket
      BY <2>1 DEF DataPacket, Src!DataMsg
    <2>3. net' = Append(net, pkt) /\ net' \in Seq(Packet)
      BY <2>2, <1>2 DEF Packet, Src!EmitData, Src!Hand
    <2> QED BY <1>2, <2>3 DEF Src!EmitData
  <1>3. ASSUME NEW c \in Chan, Src!BeginFrag(c) PROVE SrcTypeInv'
    <2>1. Size[c][cur[c]] \in Nat /\ Size[c][cur[c]] > 0
      BY <1>3, SizesAssumption DEF Src!BeginFrag
    <2> QED BY <1>3, <2>1 DEF Src!BeginFrag
  <1>4. ASSUME Src!EmitFrag PROVE SrcTypeInv'
    <2> DEFINE n == Src!FragSize(frag.rest)
               pkt == Src!FragMsg(startup, frag.seq, frag.no, frag.ch, cur[frag.ch], n)
    <2>1. /\ frag # None
          /\ frag \in [seq : 0 .. SeqMod - 1, no : Nat, ch : Chan, rest : Nat \ {0}]
      BY <1>4 DEF Src!EmitFrag
    <2>2. n \in Nat /\ n <= frag.rest
      BY <2>1 DEF Src!FragSize
    <2>3. pkt \in FragPacket
      BY <2>1, <2>2 DEF FragPacket, Src!FragMsg
    <2>4. /\ net' = Append(net, pkt)
          /\ frag' = IF frag.rest = n THEN None ELSE [frag EXCEPT !.no = @ + 1, !.rest = @ - n]
          /\ startup' = startup /\ seq_no' = seq_no /\ cur' = cur
      BY <1>4 DEF Src!EmitFrag, Src!Hand
    <2> HIDE DEF n, pkt
    <2>5. net' \in Seq(Packet)
      BY <2>3, <2>4 DEF Packet
    <2>6. frag' # None => frag' \in [seq : 0 .. SeqMod - 1, no : Nat, ch : Chan, rest : Nat \ {0}]
      <3>1. ASSUME frag.rest # n
            PROVE  [frag EXCEPT !.no = @ + 1, !.rest = @ - n]
                     \in [seq : 0 .. SeqMod - 1, no : Nat, ch : Chan, rest : Nat \ {0}]
        <4>1. frag.rest - n \in Nat \ {0} /\ frag.no + 1 \in Nat
          BY <2>1, <2>2, <3>1
        <4> QED BY <2>1, <4>1
      <3> QED BY <2>4, <3>1
    <2> QED BY <2>4, <2>5, <2>6
  <1>5. ASSUME Src!Restart PROVE SrcTypeInv'
    BY <1>5, StartupAssumption DEF Src!Restart
  <1> QED BY <1>1, <1>2, <1>3, <1>4, <1>5 DEF Send, Src!SrcStep

(* Types: CopyFragment, given a typed buffer and room, leaves a typed      *)
(* buffer and room: no payload is copied that does not fit.                *)
LEMMA TypeCopy ==
  ASSUME TypeInv, NEW pkt \in FragPacket, NEW b \in Seq(Piece), NEW r \in Nat,
         Rcv!CopyFragment(pkt, b, r)
  PROVE  /\ buffer' \in Seq(Piece) /\ room' \in Nat
         /\ disconnected' = disconnected
         /\ shown' \in [Chan -> Value \cup {None, Torn}]
  <1> DEFINE piece == [ch |-> pkt.ch, val |-> pkt.val, no |-> pkt.no]
             new == Append(b, piece)
  <1>1. pkt.ch \in Chan /\ pkt.val \in Value /\ pkt.no \in Nat /\ pkt.fsize \in Nat
    BY DEF FragPacket
  <1>2. piece \in Piece
    BY <1>1 DEF Piece
  <1>3. new \in Seq(Piece) /\ new[1] \in Piece
    <2> HIDE DEF piece
    <2> QED BY <1>2
  <1>4. shown \in [Chan -> Value \cup {None, Torn}]
    BY DEF TypeInv, RcvTypeInv
  <1>5. CASE ~Rcv!FitsBuffer(pkt, r)
    BY <1>4, <1>5 DEF Rcv!CopyFragment, Rcv!ageVars
  <1>6. CASE Rcv!FitsBuffer(pkt, r)
    <2>1. /\ buffer' = new
          /\ room' = r - pkt.fsize
          /\ shown' = IF r = pkt.fsize
                      THEN [shown EXCEPT ![pkt.ch] = Rcv!Assembled(pkt.ch, new)] ELSE shown
          /\ disconnected' = disconnected
      BY <1>6 DEF Rcv!CopyFragment
    <2>2. Rcv!Assembled(pkt.ch, new) \in Value \cup {Torn}
      <3>1. new[1].val \in Value
        BY <1>3 DEF Piece
      <3> HIDE DEF new
      <3> QED BY <3>1 DEF Rcv!Assembled
    <2>3. room' \in Nat
      BY <1>1, <1>6, <2>1 DEF Rcv!FitsBuffer
    <2> HIDE DEF new
    <2> QED BY <1>1, <1>3, <1>4, <2>1, <2>2, <2>3
  <1> QED BY <1>5, <1>6

(* Types: a datagram taken from the network keeps the receiver's types,    *)
(* whichever message it is (receive_updates).                              *)
LEMMA TypeReceive ==
  ASSUME TypeInv, NEW pkt \in Packet, Rcv!Receive(pkt)
  PROVE  RcvTypeInv'
  <1> USE Numbers
  <1>t. RcvTypeInv
    BY DEF TypeInv
  <1>p. /\ pkt.startup \in 1 .. MaxStartup /\ pkt.seq \in 0 .. SeqMod - 1
        /\ pkt.kind = "data" => pkt \in DataPacket
        /\ pkt.kind = "frag" => pkt \in FragPacket
    BY DEF Packet, DataPacket, FragPacket
  <1>b. Rcv!BaseSeq(pkt) \in 0 .. SeqMod - 1
    BY <1>t DEF Rcv!BaseSeq, RcvTypeInv
  <1>s. pkt.startup \in 0 .. MaxStartup
    BY <1>p, StartupAssumption
  <1>1. CASE Rcv!ReceiveOlder(pkt)
    BY <1>t, <1>1
    DEF Rcv!ReceiveOlder, RcvTypeInv, Rcv!orderVars, Rcv!bufVars, Rcv!ageVars
  <1>2. CASE Rcv!ReceiveData(pkt)
    <2>1. pkt \in DataPacket /\ pkt.upd \in UpdateSet
      BY <1>2, <1>p DEF Rcv!ReceiveData, DataPacket
    <2>2. PICK S \in SUBSET Chan : pkt.upd \in [S -> Value]
      BY <2>1 DEF UpdateSet
    <2>3. /\ disconnected' \in [Chan -> BOOLEAN]
          /\ shown' \in [Chan -> Value \cup {None, Torn}]
      <3>1. CASE Rcv!ApplyUpdates(pkt.upd)
        <4>1. Chan \cap DOMAIN pkt.upd = S
          BY <2>2
        <4>2. /\ disconnected' = [c \in Chan |-> IF c \in S THEN pkt.upd[c] \in Disc
                                                 ELSE disconnected[c]]
              /\ shown' = [c \in Chan |-> IF c \in S THEN pkt.upd[c] ELSE shown[c]]
          BY <3>1, <4>1 DEF Rcv!ApplyUpdates
        <4>3. \A c \in S : pkt.upd[c] \in Value
          BY <2>2
        <4>4. \A c \in Chan : (IF c \in S THEN pkt.upd[c] \in Disc ELSE disconnected[c]) \in BOOLEAN
          <5> SUFFICES ASSUME NEW c \in Chan
                       PROVE  (IF c \in S THEN pkt.upd[c] \in Disc ELSE disconnected[c]) \in BOOLEAN
            OBVIOUS
          <5>1. disconnected[c] \in BOOLEAN
            BY <1>t DEF RcvTypeInv
          <5>b. (pkt.upd[c] \in Disc) \in BOOLEAN
            OBVIOUS
          <5>2. CASE c \in S
            BY <5>b, <5>2, Zenon
          <5>3. CASE c \notin S
            BY <5>1, <5>3, Zenon
          <5> QED BY <5>2, <5>3
        <4>5. shown' \in [Chan -> Value \cup {None, Torn}]
          BY <1>t, <4>2, <4>3 DEF RcvTypeInv
        <4>6. disconnected' \in [Chan -> BOOLEAN]
          BY <4>2, <4>4, Zenon
        <4> QED BY <4>5, <4>6
      <3>2. CASE UNCHANGED Rcv!ageVars
        BY <1>t, <3>2 DEF RcvTypeInv, Rcv!ageVars
      <3> QED BY <1>2, <3>1, <3>2 DEF Rcv!ReceiveData
    <2> QED BY <1>t, <1>p, <1>s, <1>2, <2>3
            DEF Rcv!ReceiveData, Rcv!validate_sender, RcvTypeInv, Rcv!bufVars
  <1>3. CASE Rcv!ReceiveFirstFragment(pkt)
    <2>1. pkt \in FragPacket
      BY <1>3, <1>p DEF Rcv!ReceiveFirstFragment
    <2>2. Size[pkt.ch][pkt.val] \in Nat /\ << >> \in Seq(Piece)
      BY <2>1, SizesAssumption DEF FragPacket
    <2>3. /\ buffer' \in Seq(Piece) /\ room' \in Nat
          /\ disconnected' \in [Chan -> BOOLEAN]
          /\ shown' \in [Chan -> Value \cup {None, Torn}]
      <3>1. CASE Rcv!CopyFragment(pkt, << >>, Size[pkt.ch][pkt.val])
        BY <1>t, <2>1, <2>2, <3>1, TypeCopy DEF RcvTypeInv
      <3>2. CASE UNCHANGED <<Rcv!bufVars, Rcv!ageVars>>
        BY <1>t, <3>2 DEF RcvTypeInv, Rcv!bufVars, Rcv!ageVars
      <3> QED BY <1>3, <3>1, <3>2 DEF Rcv!ReceiveFirstFragment
    <2> QED BY <1>t, <1>p, <1>s, <1>3, <2>3
            DEF Rcv!ReceiveFirstFragment, Rcv!validate_sender, RcvTypeInv
  <1>4. CASE Rcv!ReceiveNextFragment(pkt)
    <2>1. pkt \in FragPacket
      BY <1>4, <1>p DEF Rcv!ReceiveNextFragment
    <2>3. /\ buffer' \in Seq(Piece) /\ room' \in Nat
          /\ disconnected' \in [Chan -> BOOLEAN]
          /\ shown' \in [Chan -> Value \cup {None, Torn}]
      <3>1. CASE Rcv!CopyFragment(pkt, buffer, room)
        BY <1>t, <2>1, <3>1, TypeCopy DEF RcvTypeInv
      <3>2. CASE UNCHANGED <<Rcv!bufVars, Rcv!ageVars>>
        BY <1>t, <3>2 DEF RcvTypeInv, Rcv!bufVars, Rcv!ageVars
      <3> QED BY <1>4, <3>1, <3>2 DEF Rcv!ReceiveNextFragment
    <2>4. Rcv!NextSeq(last_fragment_seq_no) \in 0 .. SeqMod - 1
      BY <1>t DEF RcvTypeInv
    <2> QED BY <1>t, <1>s, <1>b, <1>4, <2>3, <2>4
            DEF Rcv!ReceiveNextFragment, Rcv!validate_sender, RcvTypeInv
  <1> QED BY <1>1, <1>2, <1>3, <1>4 DEF Rcv!Receive

(* Types: the end of a batch (check_no_updates). *)
LEMMA TypeEndBatch == TypeInv /\ EndBatch => TypeInv'
  <1> SUFFICES ASSUME TypeInv, EndBatch PROVE TypeInv'
    OBVIOUS
  <1>1. SrcTypeInv'
    BY DEF TypeInv, SrcTypeInv, EndBatch, srcVars
  <1> DEFINE check == hb_age + lag >= 1
             expired(c) == check /\ ~disconnected[c] /\ age[c] + lag >= Rcv!Stale
  <1>2. /\ disconnected' = [c \in Chan |-> disconnected[c] \/ expired(c)]
        /\ shown' = [c \in Chan |-> IF expired(c) THEN None ELSE shown[c]]
        /\ UNCHANGED <<Rcv!orderVars, Rcv!bufVars>>
    BY DEF EndBatch, Rcv!EndBatch
  <1>3. disconnected' \in [Chan -> BOOLEAN]
    <2>1. \A c \in Chan : (disconnected[c] \/ expired(c)) \in BOOLEAN
      BY Zenon
    <2> QED BY <1>2, <2>1, Zenon
  <1> HIDE DEF expired
  <1>4. shown' \in [Chan -> Value \cup {None, Torn}]
    BY <1>2 DEF TypeInv, RcvTypeInv
  <1> QED BY <1>1, <1>2, <1>3, <1>4
          DEF TypeInv, RcvTypeInv, Rcv!orderVars, Rcv!bufVars

(* Types: what the network does to a datagram keeps them. *)
LEMMA TypeNet ==
  ASSUME TypeInv, NEW i \in 1 .. Len(net), Deliver(i) \/ Lose(i) \/ Duplicate(i)
  PROVE  TypeInv'
  <1>1. net \in Seq(Packet) /\ net[i] \in Packet
    BY DEF TypeInv, SrcTypeInv
  <1>2. Without(net, i) \in Seq(Packet) /\ Doubled(net, i) \in Seq(Packet)
    BY <1>1, NetFaults
  <1>3. /\ startup' = startup /\ seq_no' = seq_no /\ cur' = cur /\ frag' = frag
        /\ net' \in Seq(Packet)
    BY <1>2 DEF Deliver, Lose, Duplicate
  <1>4. SrcTypeInv'
    BY <1>3 DEF TypeInv, SrcTypeInv
  <1>5. RcvTypeInv'
    <2>1. CASE Deliver(i)
      BY <1>1, <2>1, TypeReceive DEF Deliver
    <2>2. CASE Lose(i) \/ Duplicate(i)
      BY <2>2 DEF Lose, Duplicate, rcvVars, TypeInv, RcvTypeInv
    <2> QED BY <2>1, <2>2
  <1> QED BY <1>4, <1>5 DEF TypeInv

(* Types: they are kept by every step of the link. *)
LEMMA TypeStep == TypeInv /\ [Next]_vars => TypeInv'
  <1> SUFFICES ASSUME TypeInv, [Next]_vars PROVE TypeInv'
    OBVIOUS
  <1>1. CASE UNCHANGED vars
    BY <1>1 DEF vars, srcVars, rcvVars, TypeInv, SrcTypeInv, RcvTypeInv
  <1> QED BY <1>1, TypeSend, TypeNet, TypeEndBatch DEF Next

(* Every variable of the link has its type, however often the sender       *)
(* restarts and whatever the network loses, repeats or reorders: the       *)
(* numbers keep to 16 bits through their wrap, the room that is left in    *)
(* the fragment buffer never becomes negative, and the client is told of a *)
(* value, of a lost connection, or of a torn buffer (validate_order,       *)
(* validate_sender, receive_updates, check_no_updates).                    *)
THEOREM LinkTypeOK == Spec => []TypeOK
  <1>1. TypeInv => TypeOK
    BY DEF TypeInv, SrcTypeInv, RcvTypeInv, TypeOK
  <1> QED BY <1>1, TypeInit, TypeStep, PTL DEF Spec

-----------------------------------------------------------------------------
(* Fragments: one sender process, that does not come to the number 0xFFFF. *)
(* Both are needed (README): a new sender leaves the active number of its  *)
(* predecessor in place, and 0xFFFF is also what says that none is active. *)
OneRun == MaxStartup = 1 /\ SeqLimit < SeqMod

(* w[s]: the value whose fragments carry the number s, or None if s was    *)
(* not spent on fragments.  No variable of the code holds it; the          *)
(* invariant says that some such w explains everything that is in flight   *)
(* and in the buffer.                                                      *)
Sent == [ch : Chan, val : Value]
History == [0 .. SeqMod - 1 -> Sent \cup {None}]

(* The bytes that are left to send before the n-th fragment; negative      *)
(* after the last one.                                                     *)
Left(s, n) == Size[s.ch][s.val] - n * FragRoom
Positive(x) == IF x > 0 THEN x ELSE 0

(* The fragments of the values of w with numbers below n.                  *)
FragsOf(w, n) ==
  {p \in FragPacket : /\ p.seq < n
                      /\ w[p.seq] = [ch |-> p.ch, val |-> p.val]
                      /\ Left(w[p.seq], p.no) > 0
                      /\ p.fsize = Src!FragSize(Left(w[p.seq], p.no))}

InFlight(w) == net \in Seq(DataPacket \cup FragsOf(w, seq_no))

UnderWay(w) ==
  frag # None => /\ frag.seq < seq_no
                 /\ w[frag.seq] = [ch |-> frag.ch, val |-> cur[frag.ch]]
                 /\ frag.rest = Left(w[frag.seq], frag.no)

(* What is in the buffer: the fragments 0..last_fragment_seq_no of s.      *)
Pieces(s, n) == [i \in 1 .. n |-> [ch |-> s.ch, val |-> s.val, no |-> i - 1]]

InBuffer(w) ==
  active_fragment_seq_no # NoSeq =>
    LET s == w[active_fragment_seq_no] IN
      /\ active_fragment_seq_no < seq_no /\ s \in Sent
      /\ buffer = Pieces(s, last_fragment_seq_no + 1)
      /\ room = Positive(Left(s, last_fragment_seq_no + 1))

NotTorn == shown \in [Chan -> Value \cup {None}]

IntactInv ==
  /\ NotTorn
  /\ \E w \in History : InFlight(w) /\ UnderWay(w) /\ InBuffer(w)

(* The bytes left, fragment by fragment. *)
LEMMA LeftSteps ==
  ASSUME NEW s \in Sent, NEW n \in Nat
  PROVE  /\ Left(s, n) \in Int
         /\ Left(s, 0) = Size[s.ch][s.val]
         /\ Left(s, n + 1) = Left(s, n) - FragRoom
  <1>1. Size[s.ch][s.val] \in Nat
    BY SizesAssumption DEF Sent
  <1>2. \A z, r \in Int : /\ z - n * r \in Int /\ z - 0 * r = z
                          /\ z - (n + 1) * r = (z - n * r) - r
    BY Z3
  <1>3. FragRoom \in Int /\ Size[s.ch][s.val] \in Int
    BY <1>1, Numbers
  <1> QED BY <1>2, <1>3 DEF Left

(* The size of a fragment, when x > 0 bytes are left: it fits, and leaves  *)
(* what the next one finds.                                                *)
LEMMA FragSizes ==
  ASSUME NEW x \in Int, x > 0
  PROVE  /\ Src!FragSize(x) \in Nat /\ Src!FragSize(x) <= x
         /\ x - Src!FragSize(x) = Positive(x - FragRoom)
         /\ Positive(x) = x
  BY Numbers DEF Src!FragSize, Positive

(* Fragments of earlier numbers stay fragments of the history when a       *)
(* number is spent and w is extended at that number.                       *)
LEMMA HistoryGrows ==
  ASSUME NEW w \in History, NEW v \in History, NEW n \in 0 .. SeqMod - 1,
         NEW m \in 0 .. SeqMod - 1, n <= m,
         \A k \in 0 .. SeqMod - 1 : k < n => v[k] = w[k]
  PROVE  FragsOf(w, n) \subseteq FragsOf(v, m)
  <1> SUFFICES ASSUME NEW p \in FragsOf(w, n) PROVE p \in FragsOf(v, m)
    OBVIOUS
  <1>1. p \in FragPacket /\ p.seq \in 0 .. SeqMod - 1 /\ p.seq < n
    BY DEF FragsOf, FragPacket
  <1>2. v[p.seq] = w[p.seq] /\ p.seq < m
    BY <1>1, Numbers
  <1> QED BY <1>1, <1>2 DEF FragsOf

(* A sequence over a set is one over a larger set. *)
LEMMA SeqMonotone ==
  ASSUME NEW S, NEW T, S \subseteq T, NEW q \in Seq(S)
  PROVE  q \in Seq(T)
  <1>1. Len(q) \in Nat /\ q \in [1 .. Len(q) -> S]
    OBVIOUS
  <1>2. q \in [1 .. Len(q) -> T]
    BY <1>1
  <1> QED BY <1>1, <1>2, FunctionIsSeq

(* Fragments: nothing is in flight at the start. *)
LEMMA IntactInit == Init => IntactInv
  <1> SUFFICES ASSUME Init PROVE IntactInv
    OBVIOUS
  <1>1. NotTorn
    BY DEF Init, Rcv!RcvInit, NotTorn
  <1>2. [k \in 0 .. SeqMod - 1 |-> None] \in History
    BY DEF History
  <1>3. \A w : InFlight(w) /\ UnderWay(w) /\ InBuffer(w)
    BY Numbers DEF Init, Src!SrcInit, Rcv!RcvInit, InFlight, UnderWay, InBuffer
  <1> QED BY <1>1, <1>2, <1>3 DEF IntactInv

(* Fragments: what the sender does next is in accordance with the history: *)
(* a fragmented update takes a number of its own, its value does not       *)
(* change while it is sent, and each fragment is the next slice of it      *)
(* (send_fragmented_update).                                               *)
LEMMA IntactSend ==
  ASSUME OneRun, TypeInv, IntactInv, Send
  PROVE  IntactInv'
  <1> USE Numbers
  <1>n. NotTorn'
    BY DEF IntactInv, NotTorn, Send, rcvVars
  <1>w. PICK w \in History : InFlight(w) /\ UnderWay(w) /\ InBuffer(w)
    BY DEF IntactInv
  <1>r. UNCHANGED <<active_fragment_seq_no, last_fragment_seq_no, buffer, room>>
    BY DEF Send, rcvVars
  <1>q. /\ seq_no \in 0 .. SeqMod - 1 /\ net \in Seq(DataPacket \cup FragsOf(w, seq_no))
        /\ startup \in 1 .. MaxStartup /\ cur \in [Chan -> Value]
    BY <1>w DEF TypeInv, SrcTypeInv, InFlight
  <1>f. frag # None => frag \in [seq : 0 .. SeqMod - 1, no : Nat, ch : Chan, rest : Nat \ {0}]
    BY DEF TypeInv, SrcTypeInv
  <1>s. seq_no < SeqLimit => /\ Src!NextSeq(seq_no) = seq_no + 1
                             /\ seq_no + 1 \in 0 .. SeqMod - 1
    BY <1>q, SeqLimitAssumption DEF OneRun
  (* A number is spent on something else, or not at all: w still explains  *)
  (* what was there.                                                       *)
  <1>k. ASSUME NEW v \in History, NEW n \in 0 .. SeqMod - 1, seq_no <= n, seq_no' = n,
               \A k \in 0 .. SeqMod - 1 : k < seq_no => v[k] = w[k]
        PROVE  net \in Seq(DataPacket \cup FragsOf(v, n)) /\ InBuffer(v)'
    <2>1. FragsOf(w, seq_no) \subseteq FragsOf(v, n)
      BY <1>q, <1>k, HistoryGrows
    <2>2. net \in Seq(DataPacket \cup FragsOf(v, n))
      <3>1. DataPacket \cup FragsOf(w, seq_no) \subseteq DataPacket \cup FragsOf(v, n)
        BY <2>1
      <3> QED BY <1>q, <3>1, SeqMonotone
    <2>3. InBuffer(v)'
      <3>1. active_fragment_seq_no \in 0 .. SeqMod - 1
        BY DEF TypeInv, RcvTypeInv
      <3>2. active_fragment_seq_no < seq_no =>
              /\ v[active_fragment_seq_no] = w[active_fragment_seq_no]
              /\ active_fragment_seq_no < n
        BY <1>k, <1>q, <3>1
      <3> QED BY <1>w, <1>r, <1>k, <3>2 DEF InBuffer
    <2> QED BY <2>2, <2>3
  <1>1. ASSUME NEW c \in Chan, Src!Store(c) PROVE IntactInv'
    <2>1. frag' = None /\ seq_no' = seq_no /\ net' = net
      BY <1>1 DEF Src!Store
    <2>2. InFlight(w)' /\ InBuffer(w)'
      BY <1>k, <1>q, <2>1 DEF InFlight
    <2>3. UnderWay(w)'
      BY <2>1 DEF UnderWay
    <2> QED BY <1>n, <2>2, <2>3 DEF IntactInv
  <1>2. ASSUME NEW S \in SUBSET Chan, Src!EmitData(S) PROVE IntactInv'
    <2> DEFINE upd == [c \in S |-> cur[c]]
               pkt == Src!DataMsg(startup, seq_no, upd)
    <2>1. /\ frag' = None /\ seq_no' = seq_no + 1 /\ seq_no + 1 \in 0 .. SeqMod - 1
          /\ net' = Append(net, pkt)
      BY <1>2, <1>s DEF Src!EmitData, Src!Hand
    <2>2. pkt \in DataPacket
      <3>1. upd \in UpdateSet
        BY <1>q DEF UpdateSet
      <3> QED BY <1>q, <3>1 DEF DataPacket, Src!DataMsg
    <2>3. net \in Seq(DataPacket \cup FragsOf(w, seq_no + 1)) /\ InBuffer(w)'
      <3>1. seq_no <= seq_no + 1
        BY <1>q
      <3> HIDE DEF pkt
      <3> QED BY <1>k, <2>1, <3>1
    <2> HIDE DEF pkt
    <2>4. InFlight(w)'
      BY <2>1, <2>2, <2>3 DEF InFlight
    <2>5. UnderWay(w)'
      BY <2>1 DEF UnderWay
    <2> QED BY <1>n, <2>3, <2>4, <2>5 DEF IntactInv
  <1>3. ASSUME NEW c \in Chan, Src!BeginFrag(c) PROVE IntactInv'
    <2>0. PICK s : s = [ch |-> c, val |-> cur[c]]
      OBVIOUS
    <2>v. PICK v : v = [w EXCEPT ![seq_no] = s]
      OBVIOUS
    <2>1. /\ seq_no' = seq_no + 1 /\ seq_no + 1 \in 0 .. SeqMod - 1 /\ seq_no <= seq_no + 1
          /\ frag' = [seq |-> seq_no, no |-> 0, ch |-> c, rest |-> Size[c][cur[c]]]
          /\ net' = net /\ cur' = cur
      BY <1>3, <1>q, <1>s DEF Src!BeginFrag
    <2>2. s \in Sent /\ v \in History /\ v[seq_no] = s
      BY <1>q, <2>0, <2>v DEF Sent, History
    <2>3. \A k \in 0 .. SeqMod - 1 : k < seq_no => v[k] = w[k]
      BY <1>q, <2>v DEF History
    <2>4. Left(s, 0) = Size[c][cur[c]]
      BY <2>0, <2>2, LeftSteps
    <2>5. InFlight(v)' /\ InBuffer(v)'
      BY <1>k, <2>1, <2>2, <2>3 DEF InFlight
    <2>6. UnderWay(v)'
      <3>1. seq_no < seq_no + 1
        BY <1>q
      <3> QED BY <2>0, <2>1, <2>2, <2>4, <3>1 DEF UnderWay
    <2> QED BY <1>n, <2>2, <2>5, <2>6 DEF IntactInv
  <1>4. ASSUME Src!EmitFrag PROVE IntactInv'
    <2> DEFINE n == Src!FragSize(frag.rest)
               pkt == Src!FragMsg(startup, frag.seq, frag.no, frag.ch, cur[frag.ch], n)
    <2>1. /\ frag # None
          /\ frag \in [seq : 0 .. SeqMod - 1, no : Nat, ch : Chan, rest : Nat \ {0}]
      BY <1>4, <1>f DEF Src!EmitFrag
    <2>2. /\ frag.seq < seq_no /\ frag.seq \in 0 .. SeqMod - 1
          /\ w[frag.seq] = [ch |-> frag.ch, val |-> cur[frag.ch]]
          /\ w[frag.seq] \in Sent
          /\ frag.rest = Left(w[frag.seq], frag.no)
      BY <1>w, <1>q, <2>1 DEF UnderWay, Sent
    <2>3. /\ n \in Nat /\ frag.rest - n = Positive(Left(w[frag.seq], frag.no + 1))
          /\ frag.rest > 0 /\ frag.rest \in Int
      BY <2>1, <2>2, LeftSteps, FragSizes
    <2>4. /\ net' = Append(net, pkt)
          /\ frag' = IF frag.rest = n THEN None ELSE [frag EXCEPT !.no = @ + 1, !.rest = @ - n]
          /\ seq_no' = seq_no /\ cur' = cur
      BY <1>4 DEF Src!EmitFrag, Src!Hand
    <2>5. pkt \in FragsOf(w, seq_no)
      <3>1. pkt \in FragPacket
        BY <1>q, <2>1, <2>3 DEF FragPacket, Src!FragMsg
      <3> QED BY <2>2, <2>3, <3>1 DEF FragsOf, Src!FragMsg
    <2> HIDE DEF pkt
    <2>6. InFlight(w)'
      BY <1>q, <2>4, <2>5 DEF InFlight
    <2>7. InBuffer(w)'
      BY <1>k, <1>q, <2>4
    <2>8. UnderWay(w)'
      <3>1. CASE frag.rest = n
        BY <2>4, <3>1 DEF UnderWay
      <3>2. CASE frag.rest # n
        <4>0. Left(w[frag.seq], frag.no + 1) \in Int
          BY <2>1, <2>2, LeftSteps
        <4>1. Left(w[frag.seq], frag.no + 1) = frag.rest - n
          <5> HIDE DEF n
          <5> QED BY <2>3, <3>2, <4>0 DEF Positive
        <4> HIDE DEF n
        <4>2. /\ frag'.seq = frag.seq /\ frag'.ch = frag.ch
              /\ frag'.no = frag.no + 1 /\ frag'.rest = frag.rest - n
          BY <2>1, <2>4, <3>2
        <4> QED BY <2>2, <2>4, <4>1, <4>2 DEF UnderWay
      <3> QED BY <3>1, <3>2
    <2> QED BY <1>n, <2>6, <2>7, <2>8 DEF IntactInv
  <1>5. ASSUME Src!Restart PROVE FALSE
    BY <1>5, <1>q DEF Src!Restart, OneRun
  <1> QED BY <1>1, <1>2, <1>3, <1>4, <1>5 DEF Send, Src!SrcStep

(* Fragments: the next slice of s, copied behind the n slices before it,   *)
(* fits the room they leave; the buffer then holds n + 1 slices, and if    *)
(* that was the last one it is handed over as the value s.                 *)
LEMMA IntactCopy ==
  ASSUME TypeInv, NotTorn, NEW s \in Sent, NEW n \in Nat, NEW pkt \in FragPacket,
         s = [ch |-> pkt.ch, val |-> pkt.val], pkt.no = n,
         Left(s, n) > 0, pkt.fsize = Src!FragSize(Left(s, n)),
         Rcv!CopyFragment(pkt, Pieces(s, n), Left(s, n))
  PROVE  /\ buffer' = Pieces(s, n + 1)
         /\ room' = Positive(Left(s, n + 1))
         /\ NotTorn'
  <1> DEFINE piece == [ch |-> pkt.ch, val |-> pkt.val, no |-> pkt.no]
             b == Pieces(s, n)
             r == Left(s, n)
  <1>1. r \in Int /\ r > 0 /\ Left(s, n + 1) = r - FragRoom
    BY LeftSteps
  <1>2. pkt.fsize \in Nat /\ pkt.fsize <= r /\ r - pkt.fsize = Positive(Left(s, n + 1))
    <2> HIDE DEF r
    <2> QED BY <1>1, FragSizes DEF r
  <1>3. Rcv!FitsBuffer(pkt, r)
    <2> HIDE DEF r
    <2> QED BY <1>1, <1>2 DEF Rcv!FitsBuffer
  <1>4. s.ch = pkt.ch /\ s.val = pkt.val
    OBVIOUS
  <1>5. Append(b, piece) = Pieces(s, n + 1)
    <2>1. b \in Seq(Piece) /\ Len(b) = n
      <3>1. b \in [1 .. n -> Piece]
        <4>1. \A i \in 1 .. n : [ch |-> s.ch, val |-> s.val, no |-> i - 1] \in Piece
          BY DEF Piece, Sent
        <4> QED BY <4>1 DEF Pieces
      <3> HIDE DEF b
      <3> QED BY <3>1, FunctionIsSeq
    <2>2. Append(b, piece) = [i \in 1 .. n + 1 |-> IF i = n + 1 THEN piece ELSE b[i]]
      <3>1. piece \in Piece
        BY <1>4 DEF Piece, Sent
      <3> HIDE DEF b, piece
      <3>2. /\ Append(b, piece) \in [1 .. n + 1 -> Piece]
            /\ \A i \in 1 .. n + 1 : Append(b, piece)[i] = IF i = n + 1 THEN piece ELSE b[i]
        BY <2>1, <3>1, AppendIs
      <3> QED BY <3>2
    <2>3. \A i \in 1 .. n + 1 :
            (IF i = n + 1 THEN piece ELSE b[i]) = [ch |-> s.ch, val |-> s.val, no |-> i - 1]
      BY <1>4 DEF Pieces
    <2> QED BY <2>2, <2>3 DEF Pieces
  <1>6. /\ buffer' = Append(b, piece) /\ room' = r - pkt.fsize
        /\ shown' = IF r = pkt.fsize
                    THEN [shown EXCEPT ![pkt.ch] = Rcv!Assembled(pkt.ch, Append(b, piece))]
                    ELSE shown
    BY <1>3 DEF Rcv!CopyFragment
  <1>7. Rcv!Assembled(pkt.ch, Pieces(s, n + 1)) = pkt.val
    <2>1. Len(Pieces(s, n + 1)) = n + 1
      <3>1. Pieces(s, n + 1) \in [1 .. n + 1 -> Piece]
        <4>1. \A i \in 1 .. n + 1 : [ch |-> s.ch, val |-> s.val, no |-> i - 1] \in Piece
          BY DEF Piece, Sent
        <4> QED BY <4>1 DEF Pieces
      <3>2. n + 1 \in Nat
        OBVIOUS
      <3> QED BY <3>1, <3>2, FunctionIsSeq
    <2>2. \A i \in 1 .. n + 1 :
            Pieces(s, n + 1)[i] = [ch |-> pkt.ch, val |-> pkt.val, no |-> i - 1]
      BY <1>4 DEF Pieces
    <2>3. Pieces(s, n + 1)[1].val = pkt.val
      <3>1. Pieces(s, n + 1)[1] = [ch |-> pkt.ch, val |-> pkt.val, no |-> 1 - 1]
        <4>1. 1 \in 1 .. n + 1
          OBVIOUS
        <4> QED BY <2>2, <4>1
      <3> QED BY <3>1
    <2> QED BY <2>1, <2>2, <2>3 DEF Rcv!Assembled
  <1>8. pkt.ch \in Chan /\ pkt.val \in Value
    BY DEF FragPacket
  <1>9. NotTorn'
    BY <1>5, <1>6, <1>7, <1>8 DEF NotTorn
  <1> QED BY <1>2, <1>5, <1>6, <1>9

(* Fragments: whatever datagram arrives, in whatever order, the buffer     *)
(* holds an initial part of one value as long as a number is active, and   *)
(* the client is never told of anything else (receive_updates,             *)
(* validate_order).                                                        *)
LEMMA IntactReceive ==
  ASSUME OneRun, TypeInv, NotTorn, NEW w \in History, InBuffer(w),
         NEW pkt \in DataPacket \cup FragsOf(w, seq_no), Rcv!Receive(pkt), seq_no' = seq_no
  PROVE  InBuffer(w)' /\ NotTorn'
  <1> USE Numbers
  <1>d. pkt.kind = "data" => pkt \in DataPacket
    BY DEF FragsOf, FragPacket
  <1>f. pkt.kind = "frag" =>
          /\ pkt \in FragPacket /\ pkt.no \in Nat /\ pkt.seq \in 0 .. SeqMod - 1
          /\ pkt.seq < seq_no
          /\ w[pkt.seq] = [ch |-> pkt.ch, val |-> pkt.val]
          /\ w[pkt.seq] \in Sent
          /\ Left(w[pkt.seq], pkt.no) > 0
          /\ pkt.fsize = Src!FragSize(Left(w[pkt.seq], pkt.no))
    BY DEF DataPacket, FragsOf, FragPacket, Sent
  <1>k. UNCHANGED <<active_fragment_seq_no, last_fragment_seq_no, buffer, room>> => InBuffer(w)'
    BY DEF InBuffer
  <1>z. active_fragment_seq_no' = NoSeq => InBuffer(w)'
    BY DEF InBuffer
  <1>1. CASE Rcv!ReceiveOlder(pkt)
    BY <1>k, <1>1 DEF Rcv!ReceiveOlder, Rcv!orderVars, Rcv!bufVars, Rcv!ageVars, NotTorn
  <1>2. CASE Rcv!ReceiveData(pkt)
    <2>1. InBuffer(w)'
      BY <1>k, <1>2 DEF Rcv!ReceiveData, Rcv!bufVars
    <2>2. CASE Rcv!ApplyUpdates(pkt.upd)
      <3>1. pkt.upd \in UpdateSet
        BY <1>d, <1>2 DEF Rcv!ReceiveData, DataPacket
      <3>2. PICK S \in SUBSET Chan : pkt.upd \in [S -> Value]
        BY <3>1 DEF UpdateSet
      <3>3. Chan \cap DOMAIN pkt.upd = S
        BY <3>2
      <3>4. shown' = [c \in Chan |-> IF c \in S THEN pkt.upd[c] ELSE shown[c]]
        BY <2>2, <3>3 DEF Rcv!ApplyUpdates
      <3>5. \A c \in S : pkt.upd[c] \in Value
        BY <3>2
      <3>6. NotTorn'
        BY <3>4, <3>5 DEF NotTorn
      <3> QED BY <2>1, <3>6
    <2>3. CASE UNCHANGED Rcv!ageVars
      BY <2>1, <2>3 DEF NotTorn, Rcv!ageVars
    <2> QED BY <1>2, <2>2, <2>3 DEF Rcv!ReceiveData
  <1>3. CASE Rcv!ReceiveFirstFragment(pkt)
    <2>1. pkt.kind = "frag" /\ pkt.no = 0
      BY <1>3 DEF Rcv!ReceiveFirstFragment
    <2>2. CASE Rcv!InOrder(pkt)
      <3> DEFINE s == w[pkt.seq]
      <3>1. /\ active_fragment_seq_no' = pkt.seq /\ last_fragment_seq_no' = 0
            /\ Rcv!CopyFragment(pkt, << >>, Size[pkt.ch][pkt.val])
        BY <1>3, <2>2 DEF Rcv!ReceiveFirstFragment
      <3>2. s \in Sent /\ s.ch = pkt.ch /\ s.val = pkt.val
        BY <1>f, <2>1
      <3>3. Pieces(s, 0) = << >> /\ Left(s, 0) = Size[pkt.ch][pkt.val]
        BY <3>2, LeftSteps DEF Pieces
      <3>4. Rcv!CopyFragment(pkt, Pieces(s, 0), Left(s, 0))
        BY <3>1, <3>3
      <3>5. /\ buffer' = Pieces(s, 0 + 1) /\ room' = Positive(Left(s, 0 + 1)) /\ NotTorn'
        BY <1>f, <2>1, <3>2, <3>4, IntactCopy
      <3>6. InBuffer(w)'
        BY <1>f, <2>1, <3>1, <3>2, <3>5 DEF InBuffer
      <3> QED BY <3>5, <3>6
    <2>3. CASE ~Rcv!InOrder(pkt)
      BY <1>k, <1>3, <2>3 DEF Rcv!ReceiveFirstFragment, Rcv!bufVars, Rcv!ageVars, NotTorn
    <2> QED BY <2>2, <2>3
  <1>4. CASE Rcv!ReceiveNextFragment(pkt)
    <2>1. pkt.kind = "frag" /\ pkt.no > 0
      BY <1>4 DEF Rcv!ReceiveNextFragment
    <2>2. CASE Rcv!Active(pkt) /\ Rcv!Follows(pkt)
      <3> DEFINE s == w[pkt.seq]
                 n == last_fragment_seq_no + 1
      <3>1. /\ active_fragment_seq_no' = active_fragment_seq_no
            /\ last_fragment_seq_no' = Rcv!NextSeq(last_fragment_seq_no)
            /\ Rcv!CopyFragment(pkt, buffer, room)
        BY <1>4, <2>2 DEF Rcv!ReceiveNextFragment
      <3>2. /\ active_fragment_seq_no = pkt.seq
            /\ Rcv!NextSeq(last_fragment_seq_no) = pkt.no
        BY <2>2 DEF Rcv!Active, Rcv!Follows
      <3>3. pkt.no = n /\ n \in Nat
        BY <1>f, <2>1, <3>2 DEF TypeInv, RcvTypeInv
      <3>4. active_fragment_seq_no # NoSeq
        BY <1>f, <2>1, <3>2 DEF TypeInv, SrcTypeInv
      <3>5. /\ buffer = Pieces(s, n) /\ room = Positive(Left(s, n)) /\ s \in Sent
        BY <3>2, <3>4 DEF InBuffer
      <3>6. Left(s, n) > 0 /\ room = Left(s, n)
        <4>1. Left(s, n) > 0
          BY <1>f, <2>1, <3>3
        <4> QED BY <3>5, <4>1 DEF Positive
      <3> HIDE DEF s
      <3>7. /\ buffer' = Pieces(s, n + 1) /\ room' = Positive(Left(s, n + 1)) /\ NotTorn'
        BY <1>f, <2>1, <3>1, <3>3, <3>5, <3>6, IntactCopy DEF s
      <3>8. InBuffer(w)'
        BY <1>f, <2>1, <3>1, <3>2, <3>3, <3>5, <3>7 DEF InBuffer, s
      <3> QED BY <3>7, <3>8
    <2>3. CASE ~(Rcv!Active(pkt) /\ Rcv!Follows(pkt))
      BY <1>z, <1>4, <2>3 DEF Rcv!ReceiveNextFragment, Rcv!ageVars, NotTorn
    <2> QED BY <2>2, <2>3
  <1> QED BY <1>1, <1>2, <1>3, <1>4 DEF Rcv!Receive

(* Fragments: they are kept together by every step of the link. *)
LEMMA IntactStep ==
  ASSUME OneRun, TypeInv, IntactInv, [Next]_vars
  PROVE  IntactInv'
  <1>w. PICK w \in History : InFlight(w) /\ UnderWay(w) /\ InBuffer(w)
    BY DEF IntactInv
  <1>t. NotTorn
    BY DEF IntactInv
  <1>1. CASE Send
    BY <1>1, IntactSend
  <1>2. ASSUME NEW i \in 1 .. Len(net), Deliver(i) \/ Lose(i) \/ Duplicate(i)
        PROVE  IntactInv'
    <2> DEFINE T == DataPacket \cup FragsOf(w, seq_no)
    <2>1. net \in Seq(T) /\ net[i] \in T
      BY <1>w DEF InFlight
    <2>2. Without(net, i) \in Seq(T) /\ Doubled(net, i) \in Seq(T)
      <3> HIDE DEF T
      <3> QED BY <2>1, NetFaults
    <2>3. seq_no' = seq_no /\ cur' = cur /\ frag' = frag /\ net' \in Seq(T)
      BY <1>2, <2>2 DEF Deliver, Lose, Duplicate
    <2>4. InFlight(w)'
      BY <2>3 DEF InFlight
    <2>5. UnderWay(w)'
      BY <1>w, <2>3 DEF UnderWay
    <2>6. InBuffer(w)' /\ NotTorn'
      <3>1. CASE Deliver(i)
        <4>1. Rcv!Receive(net[i])
          BY <3>1 DEF Deliver
        <4> QED BY <1>w, <1>t, <2>1, <2>3, <4>1, IntactReceive
      <3>2. CASE Lose(i) \/ Duplicate(i)
        BY <1>w, <1>t, <2>3, <3>2 DEF Lose, Duplicate, rcvVars, InBuffer, NotTorn
      <3> QED BY <1>2, <3>1, <3>2
    <2> QED BY <2>4, <2>5, <2>6 DEF IntactInv
  <1>3. CASE EndBatch
    <2>1. /\ seq_no' = seq_no /\ cur' = cur /\ frag' = frag /\ net' = net
          /\ UNCHANGED <<active_fragment_seq_no, last_fragment_seq_no, buffer, room>>
      BY <1>3 DEF EndBatch, srcVars, Rcv!EndBatch, Rcv!orderVars, Rcv!bufVars
    <2>2. InFlight(w)' /\ UnderWay(w)' /\ InBuffer(w)'
      BY <1>w, <2>1 DEF InFlight, UnderWay, InBuffer
    <2> DEFINE expired(c) == /\ hb_age + lag >= 1 /\ ~disconnected[c]
                             /\ age[c] + lag >= Rcv!Stale
    <2>3. shown' = [c \in Chan |-> IF expired(c) THEN None ELSE shown[c]]
      BY <1>3 DEF EndBatch, Rcv!EndBatch
    <2> HIDE DEF expired
    <2>4. NotTorn'
      BY <1>t, <2>3 DEF NotTorn
    <2> QED BY <2>2, <2>4 DEF IntactInv
  <1>4. CASE UNCHANGED vars
    BY <1>w, <1>t, <1>4
    DEF vars, srcVars, rcvVars, IntactInv, InFlight, UnderWay, InBuffer, NotTorn
  <1> QED BY <1>1, <1>2, <1>3, <1>4 DEF Next

(* The callback is never handed a buffer mixed from two values, whatever   *)
(* is lost, duplicated or reordered, however far: two counters of 16 bits  *)
(* are enough to tell the fragments apart, as long as the sender runs      *)
(* without a restart and does not come to the number 0xFFFF                *)
(* (send_fragmented_update, validate_order, receive_updates).              *)
THEOREM LinkFragmentsIntact ==
  ASSUME OneRun
  PROVE  Spec => []FragmentsIntact
  <1>1. IntactInv => FragmentsIntact
    BY ValueAssumption DEF IntactInv, NotTorn, FragmentsIntact
  <1>2. TypeInv /\ IntactInv /\ [Next]_vars => (TypeInv /\ IntactInv)'
    BY TypeStep, IntactStep
  <1>3. Init => TypeInv /\ IntactInv
    BY TypeInit, IntactInit
  <1> QED BY <1>1, <1>2, <1>3, PTL DEF Spec

-----------------------------------------------------------------------------
(* Remainders by the number of sequence numbers. *)
LEMMA Remainders ==
  /\ \A x \in 0 .. SeqMod - 1 : x % SeqMod = x /\ (x + SeqMod) % SeqMod = x
  /\ \A a \in Nat : a % SeqMod \in 0 .. SeqMod - 1
  /\ \A a \in Nat, d \in 0 .. SeqMod - 1 :
       (a + d) % SeqMod = IF (a % SeqMod) + d < SeqMod THEN (a % SeqMod) + d
                          ELSE (a % SeqMod) + d - SeqMod
  <1> DEFINE m == SeqMod
  <1>1. m \in Nat \ {0}
    BY SeqModAssumption
  <1> HIDE DEF m
  <1>2. \A x \in 0 .. m - 1 : x % m = x /\ (x + m) % m = x
    BY <1>1
  <1>3. \A a \in Nat : a % m \in 0 .. m - 1
    BY <1>1
  <1>4. ASSUME NEW a \in Nat, NEW d \in 0 .. m - 1
        PROVE  (a + d) % m = IF (a % m) + d < m THEN (a % m) + d ELSE (a % m) + d - m
    <2> DEFINE q == a \div m  r == a % m  k == q * m
    <2>1. r \in 0 .. m - 1 /\ q \in Nat /\ a = q * m + r
      BY <1>1, Z3
    <2> HIDE DEF q, r
    <2>2. \A x \in Nat : \A b \in 0 .. m - 1 : (x * m + b) % m = b
      BY <1>1, Z3
    <2>3. (q + 1) * m = q * m + m /\ q * m \in Nat
      BY <1>1, <2>1, Z3
    <2>4. k \in Nat /\ a = k + r /\ (q + 1) * m = k + m
      BY <2>1, <2>3
    <2> HIDE DEF k
    <2>5. CASE r + d < m
      <3>1. r + d \in 0 .. m - 1 /\ a + d = k + (r + d)
        BY <1>1, <2>1, <2>4, <2>5
      <3>2. (q * m + (r + d)) % m = r + d
        BY <2>1, <2>2, <3>1
      <3> QED BY <2>5, <3>1, <3>2 DEF r, k
    <2>6. CASE ~ (r + d < m)
      <3> DEFINE e == r + d - m
      <3>1. e \in 0 .. m - 1 /\ a + d = (k + m) + e /\ q + 1 \in Nat
        BY <1>1, <2>1, <2>4, <2>6
      <3> HIDE DEF e
      <3>2. ((q + 1) * m + e) % m = e
        BY <2>2, <3>1
      <3> QED BY <2>4, <2>6, <3>1, <3>2 DEF r, e
    <2> QED BY <2>5, <2>6
  <1> QED BY <1>2, <1>3, <1>4 DEF m

(* The difference of two 16-bit numbers is how many numbers were spent     *)
(* between them, if these are fewer than there are.                        *)
LEMMA DifferenceIs ==
  ASSUME NEW s \in 0 .. SeqMod - 1, NEW t \in 0 .. SeqMod - 1,
         NEW a \in Nat, NEW b \in Nat, a <= b, b - a < SeqMod,
         NextSeq(t) = a % SeqMod, NextSeq(s) = b % SeqMod
  PROVE  Rcv!SeqDiff(s, t) = b - a
  <1> DEFINE d == b - a  u == a % SeqMod  v == b % SeqMod
  <1>1. d \in 0 .. SeqMod - 1 /\ b = a + d /\ SeqMod \in Nat /\ SeqMod >= 2
    BY Numbers
  <1> HIDE DEF d
  <1>2. u \in 0 .. SeqMod - 1 /\ v = (IF u + d < SeqMod THEN u + d ELSE u + d - SeqMod)
    BY <1>1, Remainders
  <1>3. /\ u = (IF t = SeqMod - 1 THEN 0 ELSE t + 1)
        /\ v = (IF s = SeqMod - 1 THEN 0 ELSE s + 1)
    BY Numbers
  <1> HIDE DEF u, v
  <1>4. (d \in 0 .. SeqMod - 1 /\ s - t + SeqMod = d) \/ s - t + SeqMod = d + SeqMod
    BY <1>1, <1>2, <1>3
  <1>5. (s - t + SeqMod) % SeqMod = d
    BY <1>1, <1>4, Remainders
  <1> QED BY <1>5 DEF Rcv!SeqDiff, d
(* Where a datagram is in what a sender sends: its process, the numbers    *)
(* that process had spent with it, and the datagrams lost before it.       *)
Place == [run : Nat, num : Nat, lost : Nat]
Marks(x, p) == p.startup = x.run /\ NextSeq(p.seq) = x.num % SeqMod

(* The first datagram of its number. *)
Opens(p) == IF p.kind = "data" \/ p.no = 0 THEN 1 ELSE 0
OpensAt(q, i) == IF i <= Len(q) THEN Opens(q[i]) ELSE 0

(* y is what comes after x: the numbers between them are those of lost     *)
(* datagrams.  A new process starts with all its numbers.                  *)
After(x, y, b) ==
  /\ x.lost <= y.lost
  /\ \/ x.run < y.run /\ y.num <= b + (y.lost - x.lost)
     \/ x.run = y.run /\ x.num <= y.num /\ y.num - x.num <= b + (y.lost - x.lost)
Later(x, k) == [run |-> x.run, num |-> x.num, lost |-> x.lost + k]

(* The places of the datagrams q, with that of the receiver before and of  *)
(* the sender after them.                                                  *)
Chained(h, q) ==
  /\ h \in [0 .. Len(q) + 1 -> Place]
  /\ \A i \in 1 .. Len(q) : Marks(h[i], q[i])
  /\ \A i \in 0 .. Len(q) : After(h[i], h[i + 1], OpensAt(q, i + 1))

Unsent(fr) == IF fr # None /\ fr.no = 0 THEN 1 ELSE 0
Ends(x, z, last, lastSeq, run, next, fr) ==
  /\ x.run = last /\ x.num % SeqMod = NextSeq(lastSeq)
  /\ z.run = run /\ (z.num + Unsent(fr)) % SeqMod = next
  /\ fr # None => NextSeq(fr.seq) = next

OrderInv ==
  /\ losses \in Nat /\ losses <= MaxLoss
  /\ \E h : /\ Chained(h, net)
            /\ Ends(h[0], h[Len(net) + 1], last_startup_time, last_seq_no, startup, seq_no, frag)
            /\ \A i \in 0 .. Len(net) + 1 : h[i].lost <= losses

(* The network keeps the order, and loses fewer datagrams than half of the *)
(* numbers: with more, the next number may seem to be an earlier one.      *)
OrderKept == Window = 1 /\ MaxLoss \in Nat /\ MaxLoss + 1 < (SeqMod - 1) \div 2

(* Two steps are one, through a datagram that is lost or that spent no     *)
(* number of its own.                                                      *)
LEMMA AfterTwo ==
  ASSUME NEW x \in Place, NEW y \in Place, NEW z \in Place, NEW b \in 0 .. 1, NEW c \in 0 .. 1,
         After(x, y, b), After(y, z, c)
  PROVE  After(x, Later(z, 1), c) /\ (b = 0 => After(x, z, c))
  BY DEF Place, After, Later

(* More may be lost by then. *)
LEMMA AfterLater ==
  ASSUME NEW x \in Place, NEW y \in Place, NEW b \in 0 .. 1, NEW k \in 0 .. 1, After(x, y, b)
  PROVE  After(Later(x, k), Later(y, k), b)
  BY DEF Place, After, Later

(* A datagram spends one number or none. *)
LEMMA OpensIs ==
  ASSUME NEW q, NEW i
  PROVE  OpensAt(q, i) \in 0 .. 1
  BY DEF OpensAt, Opens

(* The sender's end moves. *)
LEMMA Ended ==
  ASSUME NEW q \in Seq(Packet), NEW h, Chained(h, q),
         NEW z \in Place, After(h[Len(q)], z, 0)
  PROVE  Chained([h EXCEPT ![Len(q) + 1] = z], q)
  <1> DEFINE n == Len(q)  g == [h EXCEPT ![n + 1] = z]
  <1>1. n \in Nat
    OBVIOUS
  <1>2. /\ h \in [0 .. n + 1 -> Place] /\ \A i \in 1 .. n : Marks(h[i], q[i])
        /\ \A i \in 0 .. n : After(h[i], h[i + 1], OpensAt(q, i + 1))
    BY DEF Chained
  <1> HIDE DEF n
  <1>3. /\ g \in [0 .. n + 1 -> Place] /\ g[n + 1] = z
        /\ \A i \in 0 .. n : g[i] = h[i]
    BY <1>1, <1>2
  <1> HIDE DEF g
  <1>4. ASSUME NEW i \in 0 .. n PROVE After(g[i], g[i + 1], OpensAt(q, i + 1))
    <2>1. CASE i = n
      <3>1. OpensAt(q, n + 1) = 0
        BY <1>1 DEF OpensAt, n
      <3> QED BY <1>1, <1>3, <2>1, <3>1 DEF n
    <2>2. CASE i # n
      <3>1. i + 1 \in 0 .. n
        BY <1>1, <2>2
      <3> QED BY <1>2, <1>3, <3>1
    <2> QED BY <2>1, <2>2
  <1>5. \A i \in 1 .. n : Marks(g[i], q[i])
    BY <1>1, <1>2, <1>3
  <1> QED BY <1>3, <1>4, <1>5 DEF Chained, g, n

(* A datagram is sent. *)
LEMMA Handed ==
  ASSUME NEW q \in Seq(Packet), NEW h, Chained(h, q), NEW p \in Packet,
         NEW y \in Place, Marks(y, p), After(h[Len(q)], y, Opens(p))
  PROVE  Chained([i \in 0 .. Len(q) + 2 |-> IF i <= Len(q) THEN h[i] ELSE y], Append(q, p))
  <1> DEFINE n == Len(q)  r == Append(q, p)
             g == [i \in 0 .. n + 2 |-> IF i <= n THEN h[i] ELSE y]
  <1>1. n \in Nat
    OBVIOUS
  <1>2. /\ h \in [0 .. n + 1 -> Place] /\ \A i \in 1 .. n : Marks(h[i], q[i])
        /\ \A i \in 0 .. n : After(h[i], h[i + 1], OpensAt(q, i + 1))
    BY DEF Chained
  <1>3. Len(r) = n + 1 /\ \A i \in 1 .. n + 1 : r[i] = IF i = n + 1 THEN p ELSE q[i]
    BY AppendIs
  <1> HIDE DEF n, r
  <1>4. /\ g \in [0 .. n + 2 -> Place] /\ g[n + 1] = y /\ g[n + 2] = y
        /\ \A i \in 0 .. n : g[i] = h[i]
    BY <1>1, <1>2
  <1> HIDE DEF g
  <1>5. ASSUME NEW i \in 0 .. n + 1 PROVE After(g[i], g[i + 1], OpensAt(r, i + 1))
    <2>1. CASE i = n + 1
      <3>1. OpensAt(r, (n + 1) + 1) = 0 /\ (n + 1) + 1 = n + 2
        BY <1>1, <1>3 DEF OpensAt
      <3>2. After(y, y, 0)
        BY DEF After, Place
      <3> QED BY <1>4, <2>1, <3>1, <3>2
    <2>2. CASE i = n
      <3>1. OpensAt(r, n + 1) = Opens(p)
        BY <1>1, <1>3 DEF OpensAt
      <3> QED BY <1>1, <1>4, <2>2, <3>1 DEF n
    <2>3. CASE i \notin {n, n + 1}
      <3>1. i \in 0 .. n /\ i + 1 \in 0 .. n /\ i + 1 \in 1 .. n + 1 /\ i + 1 # n + 1
        BY <1>1, <2>3
      <3>2. OpensAt(r, i + 1) = OpensAt(q, i + 1)
        BY <1>1, <1>3, <3>1 DEF OpensAt, n
      <3> QED BY <1>2, <1>4, <3>1, <3>2
    <2> QED BY <2>1, <2>2, <2>3
  <1>6. ASSUME NEW i \in 1 .. n + 1 PROVE Marks(g[i], r[i])
    <2>1. CASE i = n + 1
      BY <1>3, <1>4, <2>1
    <2>2. CASE i # n + 1
      <3>1. i \in 1 .. n /\ i \in 0 .. n
        BY <1>1, <2>2
      <3> QED BY <1>2, <1>3, <1>4, <2>2, <3>1
    <2> QED BY <2>1, <2>2
  <1>7. /\ g \in [0 .. Len(r) + 1 -> Place]
        /\ \A i \in 1 .. Len(r) : Marks(g[i], r[i])
        /\ \A i \in 0 .. Len(r) : After(g[i], g[i + 1], OpensAt(r, i + 1))
    <2>1. Len(r) + 1 = n + 2
      BY <1>1, <1>3
    <2> QED BY <1>3, <1>4, <1>5, <1>6, <2>1
  <1> QED BY <1>7 DEF Chained, g, n, r

(* The datagram at the head leaves: the receiver's place is x now, and k   *)
(* datagrams more were lost before the others.                             *)
LEMMA HeadGone ==
  ASSUME NEW q \in Seq(Packet), Len(q) > 0, NEW h, Chained(h, q),
         NEW k \in 0 .. 1, NEW x \in Place, After(x, Later(h[2], k), OpensAt(q, 2))
  PROVE  Chained([i \in 0 .. Len(q) |-> IF i = 0 THEN x ELSE Later(h[i + 1], k)], Without(q, 1))
  <1> DEFINE n == Len(q)  r == Without(q, 1)
             g == [i \in 0 .. n |-> IF i = 0 THEN x ELSE Later(h[i + 1], k)]
  <1>1. n \in Nat \ {0} /\ Len(r) = n - 1
    BY NetFaults
  <1>2. /\ h \in [0 .. n + 1 -> Place] /\ \A i \in 1 .. n : Marks(h[i], q[i])
        /\ \A i \in 0 .. n : After(h[i], h[i + 1], OpensAt(q, i + 1))
    BY DEF Chained
  <1>3. \A i \in 1 .. n - 1 : r[i] = q[i + 1]
    BY <1>1 DEF Without
  <1> HIDE DEF n, r
  <1>4. \A i \in 1 .. n : h[i + 1] \in Place /\ Later(h[i + 1], k) \in Place
    <2>1. \A i \in 1 .. n : h[i + 1] \in Place
      BY <1>1, <1>2
    <2> QED BY <2>1 DEF Place, Later
  <1>5. /\ g \in [0 .. n -> Place] /\ g[0] = x
        /\ \A i \in 1 .. n : g[i] = Later(h[i + 1], k)
    BY <1>1, <1>4
  <1> HIDE DEF g
  <1>6. \A i \in 0 .. n - 1 : OpensAt(r, i + 1) = OpensAt(q, i + 2)
    <2> TAKE i \in 0 .. n - 1
    <2>1. i + 1 <= n - 1 <=> i + 2 <= n
      BY <1>1
    <2>2. CASE i + 1 <= n - 1
      <3>1. i + 1 \in 1 .. n - 1 /\ (i + 1) + 1 = i + 2
        BY <1>1, <2>2
      <3> QED BY <1>1, <1>3, <2>1, <2>2, <3>1 DEF OpensAt, n
    <2>3. CASE ~ (i + 1 <= n - 1)
      BY <1>1, <2>1, <2>3 DEF OpensAt, n
    <2> QED BY <2>2, <2>3
  <1>7. ASSUME NEW i \in 0 .. n - 1 PROVE After(g[i], g[i + 1], OpensAt(r, i + 1))
    <2>1. CASE i = 0
      <3>1. 1 \in 1 .. n /\ 1 + 1 = 2 /\ 0 + 1 = 1 /\ 0 + 2 = 2 /\ 0 \in 0 .. n - 1
        BY <1>1
      <3>2. g[0] = x /\ g[1] = Later(h[2], k) /\ OpensAt(r, 1) = OpensAt(q, 2)
        BY <1>5, <1>6, <3>1
      <3> QED BY <2>1, <3>1, <3>2
    <2>2. CASE i # 0
      <3>1. i \in 1 .. n /\ i + 1 \in 1 .. n /\ i + 1 \in 0 .. n /\ (i + 1) + 1 = i + 2
        BY <1>1, <2>2
      <3>2. After(h[i + 1], h[i + 2], OpensAt(q, i + 2))
        BY <1>2, <3>1
      <3>3. h[i + 1] \in Place /\ h[i + 2] \in Place
        BY <1>4, <3>1
      <3>4. After(Later(h[i + 1], k), Later(h[i + 2], k), OpensAt(q, i + 2))
        <4> DEFINE y == h[i + 1]  z == h[i + 2]  b == OpensAt(q, i + 2)
        <4>1. b \in 0 .. 1
          BY OpensIs
        <4> HIDE DEF y, z, b
        <4>2. After(y, z, b) /\ y \in Place /\ z \in Place
          BY <3>2, <3>3 DEF y, z, b
        <4>3. After(Later(y, k), Later(z, k), b)
          BY <4>1, <4>2, AfterLater
        <4> QED BY <4>3 DEF y, z, b
      <3> QED BY <1>5, <1>6, <3>1, <3>4
    <2> QED BY <2>1, <2>2
  <1>8. ASSUME NEW i \in 1 .. n - 1 PROVE Marks(g[i], r[i])
    <2>1. i + 1 \in 1 .. n /\ i \in 1 .. n
      BY <1>1
    <2>2. Marks(h[i + 1], q[i + 1])
      BY <1>2, <2>1
    <2>3. g[i] = Later(h[i + 1], k) /\ r[i] = q[i + 1]
      BY <1>3, <1>5, <2>1
    <2> DEFINE y == h[i + 1]  p == q[i + 1]
    <2> HIDE DEF y, p
    <2>4. Marks(Later(y, k), p)
      BY <2>2 DEF Marks, Later, y, p
    <2> QED BY <2>3, <2>4 DEF y, p
  <1>9. /\ g \in [0 .. Len(r) + 1 -> Place]
        /\ \A i \in 1 .. Len(r) : Marks(g[i], r[i])
        /\ \A i \in 0 .. Len(r) : After(g[i], g[i + 1], OpensAt(r, i + 1))
    <2>1. Len(r) + 1 = n
      BY <1>1
    <2> QED BY <1>1, <1>5, <1>7, <1>8, <2>1
  <1> QED BY <1>9 DEF Chained, g, n, r

(* It is repeated. *)
LEMMA HeadTwice ==
  ASSUME NEW q \in Seq(Packet), Len(q) > 0, NEW h, Chained(h, q)
  PROVE  Chained([i \in 0 .. Len(q) + 2 |-> IF i <= 1 THEN h[i] ELSE h[i - 1]], Doubled(q, 1))
  <1> DEFINE n == Len(q)  r == Doubled(q, 1)
             g == [i \in 0 .. n + 2 |-> IF i <= 1 THEN h[i] ELSE h[i - 1]]
  <1>1. n \in Nat \ {0} /\ Len(r) = n + 1
    BY NetFaults
  <1>2. /\ h \in [0 .. n + 1 -> Place] /\ \A i \in 1 .. n : Marks(h[i], q[i])
        /\ \A i \in 0 .. n : After(h[i], h[i + 1], OpensAt(q, i + 1))
    BY DEF Chained
  <1>3. \A i \in 1 .. n + 1 : r[i] = IF i <= 1 THEN q[i] ELSE q[i - 1]
    BY <1>1 DEF Doubled
  <1> HIDE DEF n, r
  <1>4. /\ g \in [0 .. n + 2 -> Place] /\ g[0] = h[0] /\ g[1] = h[1] /\ g[2] = h[1]
        /\ \A i \in 2 .. n + 2 : g[i] = h[i - 1]
    BY <1>1, <1>2
  <1> HIDE DEF g
  <1>5. ASSUME NEW i \in 0 .. n + 1 PROVE After(g[i], g[i + 1], OpensAt(r, i + 1))
    <2>1. CASE i = 0
      <3>1. OpensAt(r, 1) = OpensAt(q, 1)
        BY <1>1, <1>3 DEF OpensAt, n
      <3>2. 0 \in 0 .. n /\ 0 + 1 = 1
        BY <1>1
      <3> QED BY <1>2, <1>4, <2>1, <3>1, <3>2
    <2>2. CASE i = 1
      <3>1. h[1] \in Place
        BY <1>1, <1>2
      <3> DEFINE y == h[1]  b == OpensAt(r, 2)
      <3>2. b \in 0 .. 1
        BY OpensIs
      <3> HIDE DEF y, b
      <3>3. After(y, y, b)
        BY <3>1, <3>2 DEF After, Place, y
      <3> QED BY <1>4, <2>2, <3>3 DEF y, b
    <2>3. CASE i \notin {0, 1}
      <3>1. /\ i \in 2 .. n + 2 /\ i + 1 \in 2 .. n + 2 /\ i - 1 \in 0 .. n /\ (i - 1) + 1 = i
            /\ (i + 1) - 1 = i
        BY <1>1, <2>3
      <3>2. OpensAt(r, i + 1) = OpensAt(q, i)
        <4>1. i + 1 <= n + 1 <=> i <= n
          BY <1>1, <3>1
        <4>2. i <= n => r[i + 1] = q[i]
          <5>1. i <= n => i + 1 \in 1 .. n + 1 /\ ~ (i + 1 <= 1)
            BY <1>1, <3>1
          <5> QED BY <1>3, <3>1, <5>1
        <4> QED BY <1>1, <4>1, <4>2 DEF OpensAt, n
      <3>3. After(h[i - 1], h[i], OpensAt(q, i))
        BY <1>2, <3>1
      <3> QED BY <1>4, <3>1, <3>2, <3>3
    <2> QED BY <2>1, <2>2, <2>3
  <1>6. ASSUME NEW i \in 1 .. n + 1 PROVE Marks(g[i], r[i])
    <2>1. CASE i = 1
      <3>1. 1 \in 1 .. n /\ r[1] = q[1]
        BY <1>1, <1>3
      <3> QED BY <1>2, <1>4, <2>1, <3>1
    <2>2. CASE i # 1
      <3>1. i - 1 \in 1 .. n /\ i \in 2 .. n + 2 /\ ~ (i <= 1)
        BY <1>1, <2>2
      <3> QED BY <1>2, <1>3, <1>4, <3>1
    <2> QED BY <2>1, <2>2
  <1>7. /\ g \in [0 .. Len(r) + 1 -> Place]
        /\ \A i \in 1 .. Len(r) : Marks(g[i], r[i])
        /\ \A i \in 0 .. Len(r) : After(g[i], g[i + 1], OpensAt(r, i + 1))
    <2>1. Len(r) + 1 = n + 2
      BY <1>1
    <2> QED BY <1>1, <1>4, <1>5, <1>6, <2>1
  <1> QED BY <1>7 DEF Chained, g, n, r

(* One number more. *)
LEMMA NextNumber ==
  ASSUME NEW a \in Nat
  PROVE  (a + 1) % SeqMod = NextSeq(a % SeqMod)
  <1>1. 1 \in 0 .. SeqMod - 1 /\ a % SeqMod \in 0 .. SeqMod - 1
    BY Numbers, Remainders
  <1> DEFINE r == a % SeqMod
  <1>2. (a + 1) % SeqMod = IF r + 1 < SeqMod THEN r + 1 ELSE r + 1 - SeqMod
    BY <1>1, Remainders
  <1>3. NextSeq(r) = (IF r = SeqMod - 1 THEN 0 ELSE r + 1)
    BY <1>1, Numbers
  <1> HIDE DEF r
  <1>4. r \in 0 .. SeqMod - 1
    BY <1>1 DEF r
  <1>5. (a + 1) % SeqMod = NextSeq(r)
    BY <1>2, <1>3, <1>4, Numbers
  <1> QED BY <1>5 DEF r

(* b numbers further. *)
Spent(z, b) == [run |-> z.run, num |-> z.num + b, lost |-> z.lost]

(* A place past a datagram with a number of its own, and one without. *)
LEMMA NextPlace ==
  ASSUME NEW x \in Place, NEW z \in Place, After(x, z, 0), NEW b \in 0 .. 1
  PROVE  /\ Spent(z, b) \in Place /\ After(x, Spent(z, b), b)
         /\ Spent(z, b).run = z.run /\ Spent(z, b).num = z.num + b /\ Spent(z, b).lost = z.lost
  BY DEF Place, After, Spent

(* The sender keeps count. *)
LEMMA OrderSend ==
  ASSUME TypeInv, OrderInv, Send
  PROVE  OrderInv'
  <1> DEFINE n == Len(net)
  <1>1. PICK h : /\ Chained(h, net) /\ Ends(h[0], h[n + 1], last_startup_time, last_seq_no, startup, seq_no, frag)
                 /\ \A i \in 0 .. n + 1 : h[i].lost <= losses
    BY DEF OrderInv
  <1>2. /\ losses' = losses /\ last_startup_time' = last_startup_time
        /\ last_seq_no' = last_seq_no /\ losses \in Nat /\ losses <= MaxLoss
    BY DEF Send, rcvVars, faultVars, OrderInv
  <1>3. n \in Nat /\ net \in Seq(Packet)
    BY DEF TypeInv, SrcTypeInv
  <1>4. /\ \A i \in 0 .. n + 1 : h[i] \in Place
        /\ After(h[n], h[n + 1], 0) /\ h \in [0 .. n + 1 -> Place]
    <2>1. /\ h \in [0 .. n + 1 -> Place]
          /\ \A i \in 0 .. n : After(h[i], h[i + 1], OpensAt(net, i + 1))
      BY <1>1 DEF Chained
    <2>2. n \in 0 .. n /\ OpensAt(net, n + 1) = 0
      BY <1>3 DEF OpensAt
    <2> HIDE DEF n
    <2> QED BY <2>1, <2>2
  <1> DEFINE x == h[0]  z == h[n + 1]
  <1>5. /\ x.run = last_startup_time /\ x.num % SeqMod = NextSeq(last_seq_no)
        /\ z.run = startup /\ (z.num + Unsent(frag)) % SeqMod = seq_no
        /\ frag # None => NextSeq(frag.seq) = seq_no
    BY <1>1 DEF Ends
  <1>6. z \in Place /\ z.num \in Nat /\ z.run \in Nat /\ z.lost \in Nat /\ h[n] \in Place
        /\ z.lost <= losses
    <2>1. n + 1 \in 0 .. n + 1 /\ n \in 0 .. n + 1
      BY <1>3
    <2>2. z \in Place /\ h[n] \in Place /\ z.lost <= losses
      BY <1>1, <1>4, <2>1
    <2> HIDE DEF z
    <2> QED BY <2>2 DEF Place
  <1> HIDE DEF n
  <1>7. ASSUME net' = net, NEW y \in Place, After(h[n], y, 0), y.lost <= losses,
               Ends(x, y,
                    last_startup_time', last_seq_no', startup', seq_no', frag')
        PROVE  OrderInv'
    <2> DEFINE g == [h EXCEPT ![n + 1] = y]
    <2>1. Chained(g, net)
      BY <1>1, <1>3, <1>7, Ended DEF n
    <2>2. g[0] = x /\ g[n + 1] = y /\ \A i \in 0 .. n + 1 : g[i].lost <= losses
      BY <1>1, <1>3, <1>4, <1>7
    <2> HIDE DEF g
    <2> QED BY <1>2, <1>7, <2>1, <2>2 DEF OrderInv, n
  <1>8. ASSUME NEW p \in Packet, net' = Append(net, p), NEW y \in Place, Marks(y, p),
               After(h[n], y, Opens(p)), y.lost <= losses, Ends(x, y,
                    last_startup_time', last_seq_no', startup', seq_no', frag')
        PROVE  OrderInv'
    <2> DEFINE g == [i \in 0 .. n + 2 |-> IF i <= n THEN h[i] ELSE y]
    <2>1. Chained(g, net')
      BY <1>1, <1>3, <1>8, Handed DEF n
    <2>2. Len(net') = n + 1
      BY <1>3, <1>8 DEF n
    <2>3. g[0] = x /\ g[n + 2] = y /\ \A i \in 0 .. n + 2 : g[i].lost <= losses
      BY <1>1, <1>3, <1>8
    <2> HIDE DEF g
    <2>4. Len(net') + 1 = n + 2
      BY <1>3, <2>2
    <2> QED BY <1>2, <1>8, <2>1, <2>3, <2>4 DEF OrderInv
  <1>z. z \in Place /\ h[n] \in Place /\ After(h[n], z, 0)
    BY <1>4, <1>6
  <1> HIDE DEF x, z
  <1>9. CASE \E c \in Chan : Src!Store(c)
    <2>1. net' = net /\ startup' = startup /\ seq_no' = seq_no /\ frag' = frag
      BY <1>9 DEF Src!Store
    <2>2. Ends(x, z,
                    last_startup_time', last_seq_no', startup', seq_no', frag')
      BY <1>2, <1>5, <2>1 DEF Ends, Unsent
    <2> QED BY <1>4, <1>6, <1>7, <2>1, <2>2 DEF z
  <1>10. ASSUME NEW S \in SUBSET Chan, Src!EmitData(S) PROVE OrderInv'
    <2> DEFINE p == DataMsg(startup, seq_no, [c \in S |-> cur[c]])
               y == Spent(z, 1)
    <2>1. /\ frag = None /\ frag' = None /\ startup' = startup /\ net' = Append(net, p)
          /\ seq_no' = NextSeq(seq_no) /\ seq_no \in 0 .. SeqMod - 1
      BY <1>10, Numbers DEF Src!EmitData, Src!Hand, Src!DataMsg, DataMsg, TypeInv, SrcTypeInv
    <2>2. p.kind = "data" /\ p.startup = startup /\ p.seq = seq_no /\ p \in Packet
      <3>1. [c \in S |-> cur[c]] \in UpdateSet
        BY DEF UpdateSet, TypeInv, SrcTypeInv
      <3> QED BY <3>1 DEF TypeInv, SrcTypeInv, Packet, DataPacket, DataMsg
    <2>3. Opens(p) = 1
      BY <2>2 DEF Opens
    <2> HIDE DEF p
    <2>4. /\ y \in Place /\ After(h[n], y, 1) /\ y.run = z.run /\ y.num = z.num + 1
          /\ y.lost = z.lost
      BY <1>z, NextPlace
    <2> HIDE DEF y
    <2>5. z.num % SeqMod = seq_no /\ Unsent(frag') = 0
      BY <1>5, <1>6, <2>1 DEF Unsent, z
    <2>6. y.num % SeqMod = NextSeq(seq_no)
      <3>1. z.num \in Nat
        BY <1>6 DEF z
      <3> QED BY <2>4, <2>5, <3>1, NextNumber
    <2>7. Marks(y, p)
      BY <1>5, <2>2, <2>4, <2>6 DEF Marks
    <2>8. Ends(x, y,
                    last_startup_time', last_seq_no', startup', seq_no', frag')
      <3>1. y.num + Unsent(frag') = y.num
        BY <2>4, <2>5 DEF Place
      <3> QED BY <1>2, <1>5, <2>1, <2>4, <2>6, <3>1 DEF Ends
    <2> QED BY <1>6, <1>8, <2>1, <2>2, <2>3, <2>4, <2>7, <2>8 DEF z
  <1>11. ASSUME NEW c \in Chan, Src!BeginFrag(c) PROVE OrderInv'
    <2>1. /\ frag = None /\ startup' = startup /\ net' = net /\ seq_no' = NextSeq(seq_no)
          /\ frag' # None /\ frag'.seq = seq_no /\ frag'.no = 0 /\ seq_no \in 0 .. SeqMod - 1
      <3>1. Size[c][cur[c]] \in Nat
        BY SizesAssumption DEF TypeInv, SrcTypeInv
      <3>2. frag' \in [seq : Nat, no : Nat, ch : Chan, rest : Nat]
        BY <1>11, <3>1 DEF Src!BeginFrag, TypeInv, SrcTypeInv
      <3>3. frag' # None
        BY <3>2, NoFragAssumption
      <3> QED BY <1>11, <3>3, Numbers DEF Src!BeginFrag, TypeInv, SrcTypeInv
    <2>2. z.num % SeqMod = seq_no /\ Unsent(frag') = 1 /\ z.num \in Nat
      BY <1>5, <1>6, <2>1 DEF Unsent, z
    <2>3. (z.num + 1) % SeqMod = NextSeq(seq_no)
      BY <2>2, NextNumber
    <2>4. Ends(x, z,
                    last_startup_time', last_seq_no', startup', seq_no', frag')
      <3>1. z.run = startup' /\ (z.num + Unsent(frag')) % SeqMod = seq_no'
        BY <1>5, <2>1, <2>2, <2>3
      <3>2. frag' # None => NextSeq(frag'.seq) = seq_no'
        BY <2>1
      <3> QED BY <1>2, <1>5, <3>1, <3>2 DEF Ends
    <2> QED BY <1>4, <1>6, <1>7, <2>1, <2>4 DEF z
  <1>12. CASE Src!EmitFrag
    <2> DEFINE p == FragMsg(startup, frag.seq, frag.no, frag.ch, cur[frag.ch],
                            Src!FragSize(frag.rest))
               y == Spent(z, Unsent(frag))
    <2>1. /\ frag # None /\ startup' = startup /\ net' = Append(net, p) /\ seq_no' = seq_no
          /\ frag' # None => frag'.seq = frag.seq /\ frag'.no = frag.no + 1
      BY <1>12 DEF Src!EmitFrag, Src!Hand, Src!FragMsg, FragMsg, TypeInv, SrcTypeInv
    <2>2. frag \in [seq : 0 .. SeqMod - 1, no : Nat, ch : Chan, rest : Nat \ {0}]
      BY <2>1 DEF TypeInv, SrcTypeInv
    <2>3. /\ p.kind = "frag" /\ p.startup = startup /\ p.seq = frag.seq /\ p.no = frag.no
          /\ p \in Packet
      <3>1. Src!FragSize(frag.rest) \in Nat
        BY <2>2, Numbers DEF Src!FragSize
      <3> QED BY <2>2, <3>1 DEF TypeInv, SrcTypeInv, Packet, FragPacket, FragMsg
    <2>4. Opens(p) = Unsent(frag) /\ Unsent(frag) \in 0 .. 1
      BY <2>1, <2>3 DEF Opens, Unsent
    <2>5. Unsent(frag') = 0
      BY <2>1, <2>2 DEF Unsent
    <2> HIDE DEF p
    <2>6. /\ y \in Place /\ After(h[n], y, Unsent(frag)) /\ y.run = z.run
          /\ y.num = z.num + Unsent(frag) /\ y.lost = z.lost
      BY <1>z, <2>4, NextPlace
    <2> HIDE DEF y
    <2>7. y.num % SeqMod = seq_no /\ y.num + Unsent(frag') = y.num
      BY <1>5, <2>5, <2>6 DEF Place
    <2>8. Marks(y, p)
      BY <1>5, <2>1, <2>3, <2>6, <2>7 DEF Marks
    <2>9. Ends(x, y,
                    last_startup_time', last_seq_no', startup', seq_no', frag')
      BY <1>2, <1>5, <2>1, <2>6, <2>7 DEF Ends
    <2> QED BY <1>6, <1>8, <2>1, <2>3, <2>4, <2>6, <2>8, <2>9 DEF z
  <1>13. CASE Src!Restart
    <2> DEFINE y == [run |-> startup + 1, num |-> 0, lost |-> z.lost]
    <2>1. frag' = None /\ startup' = startup + 1 /\ net' = net /\ seq_no' = 0
      BY <1>13 DEF Src!Restart
    <2>2. y \in Place /\ y.run = startup + 1 /\ y.num = 0 /\ y.lost = z.lost
      BY <1>5, <1>6 DEF Place, z
    <2>3. After(h[n], y, 0)
      <3> DEFINE e == h[n]
      <3>1. e \in Place /\ z \in Place /\ After(e, z, 0) /\ z.run = startup
        BY <1>5, <1>z
      <3> HIDE DEF e, y
      <3>2. After(e, y, 0)
        BY <2>2, <3>1 DEF After, Place
      <3> QED BY <3>2 DEF e
    <2> HIDE DEF y
    <2>4. Unsent(frag') = 0 /\ (y.num + 0) % SeqMod = 0
      BY <2>1, <2>2, Remainders, Numbers DEF Unsent
    <2>5. Ends(x, y,
                    last_startup_time', last_seq_no', startup', seq_no', frag')
      BY <1>2, <1>5, <2>1, <2>2, <2>4 DEF Ends
    <2> QED BY <1>6, <1>7, <2>1, <2>2, <2>3, <2>5 DEF z
  <1> QED BY <1>9, <1>10, <1>11, <1>12, <1>13 DEF Send, Src!SrcStep

(* What the receiver does with the datagram at the head: one that opens a  *)
(* number moves its place there; another one at most resets it.            *)
LEMMA OrderTaken ==
  ASSUME TypeInv, NEW pkt \in Packet, NEW x \in Place, NEW y \in Place,
         x.run = last_startup_time, x.num % SeqMod = NextSeq(last_seq_no),
         Marks(y, pkt), After(x, y, Opens(pkt)), Rcv!Receive(pkt)
  PROVE  /\ \E w \in Place :
              /\ w.run = last_startup_time' /\ w.num % SeqMod = NextSeq(last_seq_no')
              /\ w.lost <= y.lost
              /\ \A z \in Place, b \in 0 .. 1 : After(y, z, b) => After(w, z, b)
  <1>1. x.run <= y.run /\ pkt.startup = y.run /\ x.run \in Nat /\ y.run \in Nat
    BY DEF After, Marks, Place
  <1>2. ~Rcv!Older(pkt)
    BY <1>1 DEF Rcv!Older
  <1>3. CASE last_seq_no' = pkt.seq /\ last_startup_time' = pkt.startup
    <2>1. y.run = last_startup_time' /\ y.num % SeqMod = NextSeq(last_seq_no') /\ y.lost <= y.lost
      BY <1>3 DEF Marks, Place
    <2> QED BY <2>1
  <1>4. CASE Rcv!ReceiveNextFragment(pkt)
    <2>1. /\ pkt.kind = "frag" /\ pkt.no > 0 /\ last_startup_time' = y.run
          /\ last_seq_no' = Rcv!BaseSeq(pkt)
      BY <1>1, <1>4 DEF Rcv!ReceiveNextFragment, Rcv!validate_sender
    <2>2. Opens(pkt) = 0
      <3>1. pkt.no \in Nat
        BY <2>1 DEF Packet, DataPacket, FragPacket
      <3> QED BY <2>1, <3>1 DEF Opens
    <2>3. CASE Rcv!Newer(pkt)
      <3> DEFINE w == [run |-> y.run, num |-> 0, lost |-> x.lost]
      <3>1. w \in Place /\ w.run = y.run /\ w.num = 0 /\ w.lost = x.lost
        BY DEF Place
      <3> HIDE DEF w
      <3>2. x.run < y.run /\ last_seq_no' = NoSeq
        BY <1>1, <2>1, <2>3, Numbers DEF Rcv!Newer, Rcv!BaseSeq
      <3>3. w.num % SeqMod = NextSeq(last_seq_no')
        BY <3>1, <3>2, Numbers, Remainders
      <3>4. x.lost <= y.lost /\ y.num <= y.lost - x.lost
        BY <2>2, <3>2 DEF After, Place
      <3>5. \A z \in Place, b \in 0 .. 1 : After(y, z, b) => After(w, z, b)
        BY <3>1, <3>4 DEF After, Place
      <3> QED BY <2>1, <3>1, <3>3, <3>4, <3>5
    <2>4. CASE ~Rcv!Newer(pkt)
      <3>1. x.run = y.run /\ last_seq_no' = last_seq_no /\ last_startup_time' = x.run
        BY <1>1, <2>1, <2>4 DEF Rcv!Newer, Rcv!BaseSeq
      <3>2. x.lost <= y.lost
        BY DEF After
      <3>3. \A z \in Place, b \in 0 .. 1 : After(y, z, b) => After(x, z, b)
        BY <2>2, <3>1 DEF After, Place
      <3> QED BY <3>1, <3>2, <3>3
    <2> QED BY <2>3, <2>4
  <1>5. CASE Rcv!ReceiveData(pkt) \/ Rcv!ReceiveFirstFragment(pkt)
    BY <1>3, <1>5 DEF Rcv!ReceiveData, Rcv!ReceiveFirstFragment, Rcv!validate_sender
  <1> QED BY <1>2, <1>4, <1>5 DEF Rcv!Receive, Rcv!ReceiveOlder

(* The places at the head. *)
LEMMA HeadPlaces ==
  ASSUME TypeInv, Len(net) > 0, NEW h, Chained(h, net)
  PROVE  /\ h[0] \in Place /\ h[1] \in Place /\ h[2] \in Place /\ net[1] \in Packet
         /\ \A i \in 0 .. Len(net) + 1 : h[i] \in Place
         /\ Marks(h[1], net[1])
         /\ After(h[0], h[1], Opens(net[1])) /\ After(h[1], h[2], OpensAt(net, 2))
  <1> DEFINE n == Len(net)
  <1>1. n \in Nat \ {0} /\ net[1] \in Packet
    BY DEF TypeInv, SrcTypeInv
  <1>2. /\ h \in [0 .. n + 1 -> Place] /\ \A i \in 1 .. n : Marks(h[i], net[i])
        /\ \A i \in 0 .. n : After(h[i], h[i + 1], OpensAt(net, i + 1))
    BY DEF Chained
  <1>3. OpensAt(net, 1) = Opens(net[1])
    BY <1>1 DEF OpensAt
  <1> HIDE DEF n
  <1>4. /\ 0 \in 0 .. n /\ 1 \in 0 .. n /\ 1 \in 1 .. n /\ 0 + 1 = 1 /\ 1 + 1 = 2
        /\ 0 \in 0 .. n + 1 /\ 1 \in 0 .. n + 1 /\ 2 \in 0 .. n + 1
    BY <1>1
  <1>5. After(h[0], h[1], OpensAt(net, 1)) /\ After(h[1], h[2], OpensAt(net, 2))
    BY <1>2, <1>4
  <1> QED BY <1>1, <1>2, <1>3, <1>4, <1>5 DEF n

(* The network's and the receiver's steps. *)
LEMMA OrderStep ==
  ASSUME OrderKept, TypeInv, OrderInv, [Next]_vars
  PROVE  OrderInv'
  <1> DEFINE n == Len(net)
  <1>1. PICK h : /\ Chained(h, net) /\ Ends(h[0], h[n + 1], last_startup_time, last_seq_no, startup, seq_no, frag)
                 /\ \A i \in 0 .. n + 1 : h[i].lost <= losses
    BY DEF OrderInv
  <1>2. n \in Nat /\ net \in Seq(Packet) /\ losses \in Nat /\ losses <= MaxLoss
        /\ MaxLoss \in Nat
    BY DEF TypeInv, SrcTypeInv, OrderInv, OrderKept
  <1> HIDE DEF n
  <1>3. ASSUME n > 0, NEW k \in 0 .. 1, NEW w \in Place, After(w, Later(h[2], k), OpensAt(net, 2)),
               w.lost <= losses + k, net' = Without(net, 1), losses' = losses + k,
               losses' <= MaxLoss, Ends(w, h[n + 1],
                    last_startup_time', last_seq_no', startup', seq_no', frag')
        PROVE  OrderInv'
    <2> DEFINE g == [i \in 0 .. n |-> IF i = 0 THEN w ELSE Later(h[i + 1], k)]
    <2>1. Chained(g, net')
      BY <1>1, <1>2, <1>3, HeadGone DEF n
    <2>2. Len(net') + 1 = n
      BY <1>2, <1>3, NetFaults DEF n
    <2>3. \A i \in 0 .. n + 1 : h[i] \in Place
      BY <1>1, <1>3, HeadPlaces DEF n
    <2>4. \A i \in 0 .. n : g[i].lost <= losses'
      <3> SUFFICES ASSUME NEW i \in 0 .. n PROVE g[i].lost <= losses'
        OBVIOUS
      <3>1. CASE i = 0
        BY <1>3, <3>1
      <3>2. CASE i # 0
        <4>1. i + 1 \in 0 .. n + 1 /\ g[i] = Later(h[i + 1], k)
          BY <1>2, <3>2
        <4>2. h[i + 1].lost \in Nat /\ h[i + 1].lost <= losses
          BY <1>1, <2>3, <4>1 DEF Place
        <4> HIDE DEF g
        <4> QED BY <1>2, <1>3, <4>1, <4>2 DEF Later
      <3> QED BY <3>1, <3>2
    <2>5. g[0] = w /\ g[n] = Later(h[n + 1], k)
      BY <1>2, <1>3
    <2> HIDE DEF g
    <2>6. Ends(g[0], g[n],
                    last_startup_time', last_seq_no', startup', seq_no', frag')
      BY <1>3, <2>5 DEF Ends, Later
    <2>7. losses' \in Nat /\ losses' <= MaxLoss
      BY <1>2, <1>3
    <2>8. Chained(g, net')
          /\ Ends(g[0], g[Len(net') + 1],
                    last_startup_time', last_seq_no', startup', seq_no', frag')
          /\ \A i \in 0 .. Len(net') + 1 : g[i].lost <= losses'
      BY <2>1, <2>2, <2>4, <2>6
    <2> QED BY <2>7, <2>8 DEF OrderInv
  <1>4. ASSUME n > 0
        PROVE  /\ h[0] \in Place /\ h[1] \in Place /\ h[2] \in Place /\ net[1] \in Packet
               /\ Marks(h[1], net[1])
               /\ After(h[0], h[1], Opens(net[1])) /\ After(h[1], h[2], OpensAt(net, 2))
               /\ h[0].lost <= losses /\ h[1].lost <= losses
               /\ h[0].lost \in Nat /\ h[1].lost \in Nat
    <2>1. /\ h[0] \in Place /\ h[1] \in Place /\ h[2] \in Place /\ net[1] \in Packet
          /\ Marks(h[1], net[1])
          /\ After(h[0], h[1], Opens(net[1])) /\ After(h[1], h[2], OpensAt(net, 2))
      BY <1>1, <1>4, HeadPlaces DEF n
    <2>2. 0 \in 0 .. n + 1 /\ 1 \in 0 .. n + 1
      BY <1>2
    <2>3. h[0].lost <= losses /\ h[1].lost <= losses
      BY <1>1, <2>2
    <2>4. h[0].lost \in Nat /\ h[1].lost \in Nat
      BY <2>1 DEF Place
    <2> QED BY <2>1, <2>3, <2>4
  <1>5. OpensAt(net, 2) \in 0 .. 1
    BY OpensIs
  <1>6. CASE Send
    BY <1>6, OrderSend
  <1>7. ASSUME NEW i \in 1 .. n, Deliver(i) PROVE OrderInv'
    <2>1. /\ i = 1 /\ n > 0 /\ Rcv!Receive(net[1]) /\ net' = Without(net, 1)
          /\ startup' = startup /\ seq_no' = seq_no /\ frag' = frag /\ losses' = losses
      BY <1>2, <1>7 DEF Deliver, Reachable, OrderKept, faultVars
    <2>2. h[0].run = last_startup_time /\ h[0].num % SeqMod = NextSeq(last_seq_no)
      BY <1>1 DEF Ends
    <2>3. PICK w \in Place :
            /\ w.run = last_startup_time' /\ w.num % SeqMod = NextSeq(last_seq_no')
            /\ w.lost <= h[1].lost
            /\ \A z \in Place, b \in 0 .. 1 : After(h[1], z, b) => After(w, z, b)
      BY <1>4, <2>1, <2>2, OrderTaken
    <2>4. After(w, h[2], OpensAt(net, 2)) /\ Later(h[2], 0) = h[2]
      <3>1. Later(h[2], 0) = h[2]
        <4> DEFINE y == h[2]
        <4>1. y \in Place
          BY <1>4, <2>1
        <4> HIDE DEF y
        <4>2. Later(y, 0) = y
          BY <4>1 DEF Later, Place
        <4> QED BY <4>2 DEF y
      <3> QED BY <1>4, <1>5, <2>1, <2>3, <3>1
    <2>5. Ends(w, h[n + 1],
                    last_startup_time', last_seq_no', startup', seq_no', frag')
      BY <1>1, <2>1, <2>3 DEF Ends, Unsent
    <2>6. w.lost <= losses + 0 /\ losses' = losses + 0
      BY <1>2, <1>4, <2>1, <2>3 DEF Place
    <2> QED BY <1>2, <1>3, <2>1, <2>4, <2>5, <2>6
  <1>8. ASSUME NEW i \in 1 .. n, Lose(i) PROVE OrderInv'
    <2>1. /\ i = 1 /\ n > 0 /\ net' = Without(net, 1) /\ losses < MaxLoss
          /\ losses' = losses + 1 /\ startup' = startup /\ seq_no' = seq_no /\ frag' = frag
          /\ last_startup_time' = last_startup_time /\ last_seq_no' = last_seq_no
      BY <1>2, <1>8 DEF Lose, Reachable, OrderKept, rcvVars
    <2>2. After(h[0], Later(h[2], 1), OpensAt(net, 2))
      <3> DEFINE a == h[0]  b == h[1]  c == h[2]  o == OpensAt(net, 2)  p == Opens(net[1])
      <3>1. p \in 0 .. 1
        BY DEF Opens
      <3>2. a \in Place /\ b \in Place /\ c \in Place /\ After(a, b, p) /\ After(b, c, o)
        BY <1>4, <2>1
      <3>3. o \in 0 .. 1
        BY <1>5
      <3> HIDE DEF a, b, c, o, p
      <3>4. After(a, Later(c, 1), o)
        BY <3>1, <3>2, <3>3, AfterTwo
      <3> QED BY <3>4 DEF a, c, o
    <2>3. Ends(h[0], h[n + 1],
                    last_startup_time', last_seq_no', startup', seq_no', frag')
      BY <1>1, <2>1 DEF Ends, Unsent
    <2>4. h[0].lost <= losses + 1 /\ losses' <= MaxLoss
      BY <1>2, <1>4, <2>1
    <2> QED BY <1>3, <1>4, <2>1, <2>2, <2>3, <2>4
  <1>9. ASSUME NEW i \in 1 .. n, Duplicate(i) PROVE OrderInv'
    <2>1. /\ i = 1 /\ n > 0 /\ net' = Doubled(net, 1) /\ losses' = losses
          /\ startup' = startup /\ seq_no' = seq_no /\ frag' = frag
          /\ last_startup_time' = last_startup_time /\ last_seq_no' = last_seq_no
      BY <1>2, <1>9 DEF Duplicate, Reachable, OrderKept, rcvVars
    <2> DEFINE g == [j \in 0 .. n + 2 |-> IF j <= 1 THEN h[j] ELSE h[j - 1]]
    <2>2. Chained(g, net')
      BY <1>1, <1>2, <2>1, HeadTwice DEF n
    <2>3. Len(net') + 1 = n + 2
      BY <1>2, <2>1, NetFaults DEF n
    <2>4. g[0] = h[0] /\ g[n + 2] = h[n + 1]
      BY <1>2, <2>1
    <2>5. \A j \in 0 .. n + 2 : g[j].lost <= losses'
      <3> SUFFICES ASSUME NEW j \in 0 .. n + 2 PROVE g[j].lost <= losses'
        OBVIOUS
      <3>1. \E k \in 0 .. n + 1 : g[j] = h[k]
        <4>1. CASE j <= 1
          <5>1. j \in 0 .. n + 1 /\ g[j] = h[j]
            BY <1>2, <4>1
          <5> QED BY <5>1
        <4>2. CASE ~ (j <= 1)
          <5>1. j - 1 \in 0 .. n + 1 /\ g[j] = h[j - 1]
            BY <1>2, <4>2
          <5> QED BY <5>1
        <4> QED BY <4>1, <4>2
      <3> HIDE DEF g
      <3> QED BY <1>1, <2>1, <3>1
    <2> HIDE DEF g
    <2>6. Ends(g[0], g[Len(net') + 1],
                    last_startup_time', last_seq_no', startup', seq_no', frag')
      BY <1>1, <2>1, <2>3, <2>4 DEF Ends, Unsent
    <2> QED BY <1>2, <2>1, <2>2, <2>3, <2>5, <2>6 DEF OrderInv
  <1>10. CASE EndBatch \/ UNCHANGED vars
    <2>1. /\ net' = net /\ losses' = losses /\ startup' = startup /\ seq_no' = seq_no
          /\ frag' = frag /\ last_startup_time' = last_startup_time /\ last_seq_no' = last_seq_no
      BY <1>10 DEF EndBatch, Rcv!EndBatch, Rcv!orderVars, vars, srcVars, rcvVars, faultVars
    <2> QED BY <2>1 DEF OrderInv, Ends, Unsent
  <1> QED BY <1>6, <1>7, <1>8, <1>9, <1>10 DEF Next, n
(* A data message that comes in order is one of the next numbers. *)
LEMMA AppliedInOrder ==
  ASSUME OrderKept, TypeInv, OrderInv, Deliver(1), net[1].kind = "data",
         NEW c \in Chan, c \in DOMAIN net[1].upd
  PROVE  shown'[c] = net[1].upd[c]
  <1> DEFINE n == Len(net)  p == net[1]
  <1>1. PICK h : /\ Chained(h, net)
                 /\ Ends(h[0], h[n + 1], last_startup_time, last_seq_no, startup, seq_no, frag)
                 /\ \A i \in 0 .. n + 1 : h[i].lost <= losses
    BY DEF OrderInv
  <1>2. n \in Nat /\ n > 0 /\ losses \in Nat /\ losses <= MaxLoss /\ Rcv!Receive(p)
    BY DEF TypeInv, SrcTypeInv, OrderInv, Deliver, Reachable
  <1> DEFINE x == h[0]  y == h[1]  b == Opens(p)
  <1>3. /\ x \in Place /\ y \in Place /\ p \in Packet /\ Marks(y, p) /\ After(x, y, b)
    BY <1>1, <1>2, HeadPlaces
  <1>4. x.run = last_startup_time /\ x.num % SeqMod = NextSeq(last_seq_no)
    BY <1>1 DEF Ends
  <1>5. y.lost <= losses
    <2>1. 1 \in 0 .. n + 1
      BY <1>2
    <2> QED BY <1>1, <2>1
  <1>6. p.kind = "data" /\ p.seq \in 0 .. SeqMod - 1 /\ c \in DOMAIN p.upd
    BY <1>3 DEF Packet, DataPacket, FragPacket
  <1>7. b = 1
    BY <1>6 DEF Opens
  <1> HIDE DEF n, p, x, y, b
  <1>8. /\ p.startup = y.run /\ NextSeq(p.seq) = y.num % SeqMod /\ x.run <= y.run
        /\ x.num \in Nat /\ y.num \in Nat /\ x.run \in Nat /\ y.run \in Nat
        /\ x.lost \in Nat /\ y.lost \in Nat /\ x.lost <= y.lost
    BY <1>3 DEF Marks, After, Place
  <1>9. Rcv!ReceiveData(p)
    BY <1>2, <1>4, <1>6, <1>8
    DEF Rcv!Receive, Rcv!ReceiveOlder, Rcv!Older, Rcv!ReceiveFirstFragment,
        Rcv!ReceiveNextFragment
  <1>10. \E a \in Nat : /\ NextSeq(Rcv!BaseSeq(p)) = a % SeqMod /\ a <= y.num
                        /\ y.num - a <= 1 + MaxLoss
    <2>m. MaxLoss \in Nat
      BY DEF OrderKept
    <2>1. CASE Rcv!Newer(p)
      <3>1. x.run < y.run /\ Rcv!BaseSeq(p) = NoSeq
        BY <1>4, <1>8, <2>1, Numbers DEF Rcv!Newer, Rcv!BaseSeq
      <3>2. y.num <= 1 + (y.lost - x.lost)
        BY <1>3, <1>7, <1>8, <3>1 DEF After
      <3>3. 0 <= y.num /\ y.num - 0 <= 1 + MaxLoss
        BY <1>2, <1>5, <1>8, <2>m, <3>2
      <3>4. NextSeq(NoSeq) = 0 % SeqMod
        BY Numbers, Remainders
      <3> QED BY <3>1, <3>3, <3>4
    <2>2. CASE ~Rcv!Newer(p)
      <3>1. x.run = y.run /\ Rcv!BaseSeq(p) = last_seq_no
        BY <1>4, <1>8, <2>2 DEF Rcv!Newer, Rcv!BaseSeq
      <3>2. x.num <= y.num /\ y.num - x.num <= 1 + (y.lost - x.lost)
        BY <1>3, <1>7, <1>8, <3>1 DEF After
      <3>3. y.num - x.num <= 1 + MaxLoss
        BY <1>2, <1>5, <1>8, <2>m, <3>2
      <3> QED BY <1>4, <1>8, <3>1, <3>2, <3>3
    <2> QED BY <2>1, <2>2
  <1>11. Rcv!InOrder(p)
    <2>1. PICK a \in Nat : /\ NextSeq(Rcv!BaseSeq(p)) = a % SeqMod /\ a <= y.num
                           /\ y.num - a <= 1 + MaxLoss
      BY <1>10
    <2>2. Rcv!BaseSeq(p) \in 0 .. SeqMod - 1
      BY Numbers DEF Rcv!BaseSeq, TypeInv, RcvTypeInv
    <2>3. MaxLoss \in Nat /\ 1 + MaxLoss < Rcv!TolerableDiff /\ Rcv!TolerableDiff < SeqMod
      BY Numbers DEF OrderKept, Rcv!TolerableDiff
    <2>4. y.num - a \in Nat /\ y.num - a < Rcv!TolerableDiff /\ y.num - a < SeqMod
      <3>1. Rcv!TolerableDiff \in Int
        BY Numbers DEF Rcv!TolerableDiff
      <3> QED BY <1>8, <2>1, <2>3, <3>1, Numbers
    <2>5. Rcv!SeqDiff(p.seq, Rcv!BaseSeq(p)) = y.num - a
      BY <1>6, <1>8, <2>1, <2>2, <2>4, DifferenceIs
    <2> QED BY <2>4, <2>5 DEF Rcv!InOrder
  <1>12. shown'[c] = p.upd[c]
    BY <1>6, <1>9, <1>11 DEF Rcv!ReceiveData, Rcv!ApplyUpdates
  <1> QED BY <1>12 DEF p

(* Nothing a network that keeps the order delivers is taken for late: the  *)
(* numbers wrap, senders restart, datagrams are lost and repeated, but a   *)
(* data message of the running sender always reaches the client            *)
(* (validate_order, validate_sender, receive_updates).                     *)
THEOREM LinkInOrderApplied ==
  ASSUME OrderKept
  PROVE  Spec => InOrderApplied
  <1>1. Init => OrderInv
    <2> SUFFICES ASSUME Init PROVE OrderInv
      OBVIOUS
    <2> DEFINE x == [run |-> 0, num |-> 0, lost |-> 0]
               z == [run |-> 1, num |-> 0, lost |-> 0]
               h == [i \in 0 .. 1 |-> IF i = 0 THEN x ELSE z]
    <2>1. /\ net = << >> /\ Len(net) = 0 /\ losses = 0 /\ startup = 1 /\ seq_no = 0 /\ frag = None
          /\ last_startup_time = 0 /\ last_seq_no = NoSeq
      BY Numbers DEF Init, Src!SrcInit, Rcv!RcvInit
    <2>2. h \in [0 .. 1 -> Place] /\ h[0] = x /\ h[1] = z
      BY DEF Place
    <2>3. After(x, z, 0)
      BY DEF After
    <2>4. \A i \in 0 .. 0 : After(h[i], h[i + 1], OpensAt(net, i + 1))
      <3>1. \A i \in 0 .. 0 : i = 0 /\ i + 1 = 1
        OBVIOUS
      <3>2. OpensAt(net, 1) = 0
        BY <2>1 DEF OpensAt
      <3> HIDE DEF h, x, z
      <3> QED BY <2>2, <2>3, <3>1, <3>2
    <2>5. 0 % SeqMod = 0 /\ NextSeq(NoSeq) = 0
      BY Numbers, Remainders
    <2>6. Ends(x, z, last_startup_time, last_seq_no, startup, seq_no, frag)
      BY <2>1, <2>5 DEF Ends, Unsent
    <2>7. \A i \in 0 .. 1 : h[i].lost <= losses
      <3>1. x.lost <= losses /\ z.lost <= losses
        BY <2>1
      <3> QED BY <3>1
    <2> HIDE DEF h, x, z
    <2>8. Chained(h, net) /\ Len(net) + 1 = 1
      BY <2>1, <2>2, <2>4 DEF Chained
    <2>9. losses \in Nat /\ losses <= MaxLoss
      BY <2>1 DEF OrderKept
    <2> QED BY <2>2, <2>6, <2>7, <2>8, <2>9 DEF OrderInv
  <1>2. TypeInv /\ OrderInv /\ [Next]_vars => (TypeInv /\ OrderInv)'
    BY TypeStep, OrderStep
  <1>3. TypeInv /\ OrderInv /\ [Next]_vars =>
          [\A c \in Chan :
             (Deliver(1) /\ net[1].kind = "data" /\ net[1].startup >= last_startup_time
              /\ c \in DOMAIN net[1].upd)
               => shown'[c] = net[1].upd[c]]_vars
    BY AppliedInOrder
  <1> QED BY <1>1, <1>2, <1>3, TypeInit, PTL DEF Spec, InOrderApplied
=============================================================================
