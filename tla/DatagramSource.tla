--------------------------- MODULE DatagramSource ---------------------------
(***************************************************************************)
(* What the CA sender promises at the socket: a process that holds one     *)
(* current value per channel and hands datagrams to the network.  It says  *)
(* nothing of queues, heartbeats or of which values go out when (CaSender  *)
(* does, and is checked to implement this), only what a datagram may       *)
(* contain and how sequence numbers are spent:                             *)
(*   - a data message takes one sequence number and carries the current    *)
(*     values of any set of channels whose values fit;                     *)
(*   - a value that does not fit takes one sequence number and goes out as *)
(*     consecutive fragments, with no other message in between and no      *)
(*     change of the value until the last one;                             *)
(*   - a restarted sender announces a later startup time, counts from 0    *)
(*     again and has lost every value.                                     *)
(***************************************************************************)
EXTENDS CaProtocol, Sequences

CONSTANTS Chan,        \* channel indices
          Value,       \* what a channel may hold: count, type and bytes
          InitValue,   \* disconnected (count == -1, no bytes)
          None,        \* no fragmented update under way
          Size,        \* Size[c][v]: value.size() when channel c holds v
          Succ,        \* Succ[c][v]: the values that may replace v
          MaxStartup,  \* bound: number of sender processes started
          SeqLimit,    \* bound: sequence numbers 0..SeqLimit-1 are used
          NetCap       \* bound: datagrams in flight

VARIABLES startup,  \* header startup_time of the running sender
          seq_no,   \* next sequence number
          cur,      \* cur[c]: the cached value of channel c
          frag,     \* the fragmented update being sent, or None
          net       \* datagrams handed to the socket, oldest first

srcVars == <<startup, seq_no, cur, frag, net>>

SrcInit ==
  /\ startup = 1
  /\ seq_no = 0
  /\ cur = [c \in Chan |-> InitValue]
  /\ frag = None
  /\ net = << >>

(* A CA callback stores a new value (or the loss of the connection).       *)
Store(c) ==
  /\ frag = None
  /\ \E v \in Succ[c][cur[c]] : cur' = [cur EXCEPT ![c] = v]
  /\ UNCHANGED <<startup, seq_no, frag, net>>

(* sendto: the datagram enters the network. *)
Hand(pkt) ==
  /\ Len(net) < NetCap
  /\ net' = Append(net, pkt)

EmitData(S) ==
  /\ frag = None
  /\ seq_no < SeqLimit
  /\ \A c \in S : Size[c][cur[c]] <= MaxDataSize
  /\ Hand(DataMsg(startup, seq_no, [c \in S |-> cur[c]]))
  /\ seq_no' = NextSeq(seq_no)
  /\ UNCHANGED <<startup, cur, frag>>

BeginFrag(c) ==
  /\ frag = None
  /\ seq_no < SeqLimit
  /\ Len(net) < NetCap
  /\ Size[c][cur[c]] > MaxDataSize
  /\ frag' = [seq |-> seq_no, no |-> 0, ch |-> c, rest |-> Size[c][cur[c]]]
  /\ seq_no' = NextSeq(seq_no)
  /\ UNCHANGED <<startup, cur, net>>

FragSize(rest) == IF rest < FragRoom THEN rest ELSE FragRoom

EmitFrag ==
  /\ frag # None
  /\ LET n == FragSize(frag.rest)
     IN /\ Hand(FragMsg(startup, frag.seq, frag.no, frag.ch, cur[frag.ch], n))
        /\ frag' = IF frag.rest = n THEN None
                   ELSE [frag EXCEPT !.no = @ + 1, !.rest = @ - n]
  /\ UNCHANGED <<startup, seq_no, cur>>

Restart ==
  /\ startup < MaxStartup
  /\ startup' = startup + 1
  /\ seq_no' = 0
  /\ frag' = None
  /\ cur' \in [Chan -> Value]
  /\ \A c \in Chan : cur'[c] \in Succ[c][cur[c]] /\ Size[c][cur'[c]] = 0
  /\ UNCHANGED net

(* The network takes the oldest datagram (used where nothing is said of    *)
(* what the network does with it).                                         *)
NetTake ==
  /\ net # << >>
  /\ net' = Tail(net)
  /\ UNCHANGED <<startup, seq_no, cur, frag>>

SrcStep ==
  \/ \E c \in Chan : Store(c)
  \/ \E S \in SUBSET Chan : EmitData(S)
  \/ \E c \in Chan : BeginFrag(c)
  \/ EmitFrag
  \/ Restart

SrcSpec == SrcInit /\ [][SrcStep \/ NetTake]_srcVars
=============================================================================
