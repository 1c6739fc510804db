------------------------------- MODULE CaLink -------------------------------
(***************************************************************************)
(* The whole one-way link: a sender (DatagramSource, which CaSender        *)
(* implements), a UDP network that may lose, duplicate and reorder         *)
(* datagrams, and the receiver.  There is no way back: the receiver must   *)
(* sort out what arrives from the startup time, the sequence number and    *)
(* the fragment number alone.                                              *)
(***************************************************************************)
EXTENDS CaProtocol, Sequences

CONSTANTS Chan, Value, InitValue, Disc, Size, Succ, None, Torn,
          Version,      \* Version[v]: how many values came before v
          MaxStartup,   \* bound: sender processes started
          SeqLimit,     \* bound: sequence numbers 0..SeqLimit-1 are used
          NetCap,       \* bound: datagrams in flight
          Window,       \* a datagram is overtaken by Window - 1 at a time
          MaxLoss,      \* bound: datagrams lost
          MaxDup        \* bound: datagrams duplicated

ASSUME SizesAssumption == Size \in [Chan -> [Value -> Nat]]
ASSUME ValueAssumption ==
  /\ InitValue \in Value
  /\ None \notin Value /\ Torn \notin Value /\ Torn # None
  /\ Succ \in [Chan -> [Value -> SUBSET Value]]
  /\ Version \in [Value -> Nat]
ASSUME SeqLimitAssumption == SeqLimit \in 1 .. SeqMod
ASSUME StartupAssumption == MaxStartup \in Nat \ {0}
ASSUME NoFragAssumption ==
  None \notin [seq : Nat, no : Nat, ch : Chan, rest : Nat]

VARIABLES startup, seq_no, cur, frag, net,
          last_seq_no, active_fragment_seq_no, last_fragment_seq_no,
          last_startup_time, buffer, room, disconnected,
          age, hb_age, lag, started, wait, quota, shown,
          losses, dups   \* faults so far

Src == INSTANCE DatagramSource

(* Time stands still here (CaTimeout lets it pass): batches of one.        *)
Rcv == INSTANCE CaReceiver WITH Hb <- 1, RecvTimeout <- 0, MaxPackets <- 1

srcVars == <<startup, seq_no, cur, frag, net>>
rcvVars == <<last_seq_no, active_fragment_seq_no, last_fragment_seq_no,
             last_startup_time, buffer, room, disconnected,
             age, hb_age, lag, started, wait, quota, shown>>
faultVars == <<losses, dups>>
vars == <<srcVars, rcvVars, faultVars>>

Init ==
  /\ Src!SrcInit
  /\ Rcv!RcvInit
  /\ losses = 0 /\ dups = 0

(* The sender's side. *)
Send == Src!SrcStep /\ UNCHANGED <<rcvVars, faultVars>>

(* A sequence without, or with a second copy of, its i-th element. *)
Without(s, i) == [j \in 1 .. Len(s) - 1 |-> IF j < i THEN s[j] ELSE s[j + 1]]
Doubled(s, i) == [j \in 1 .. Len(s) + 1 |-> IF j <= i THEN s[j] ELSE s[j - 1]]

Reachable(i) == i \in 1 .. Len(net) /\ i <= Window

(* The network (external: IP and UDP between two sockets). *)
Deliver(i) ==
  /\ Reachable(i)
  /\ Rcv!Receive(net[i])
  /\ net' = Without(net, i)
  /\ UNCHANGED <<startup, seq_no, cur, frag, faultVars>>

Lose(i) ==
  /\ Reachable(i)
  /\ losses < MaxLoss
  /\ losses' = losses + 1
  /\ net' = Without(net, i)
  /\ UNCHANGED <<startup, seq_no, cur, frag, rcvVars, dups>>

Duplicate(i) ==
  /\ Reachable(i)
  /\ dups < MaxDup
  /\ dups' = dups + 1
  /\ net' = Doubled(net, i)
  /\ UNCHANGED <<startup, seq_no, cur, frag, rcvVars, losses>>

(* The receiver's side. *)
EndBatch == Rcv!EndBatch /\ UNCHANGED <<srcVars, faultVars>>

Next ==
  \/ Send
  \/ \E i \in 1 .. Len(net) : Deliver(i) \/ Lose(i) \/ Duplicate(i)
  \/ EndBatch

Spec == Init /\ [][Next]_vars

(* The sender resends every channel at least once per two heartbeats, the  *)
(* receiver's loop never stops and the network forwards what it does not   *)
(* lose.                                                                   *)
SendChannel(c) ==
  /\ \/ \E S \in SUBSET Chan : c \in S /\ Src!EmitData(S)
     \/ Src!BeginFrag(c)
  /\ UNCHANGED <<rcvVars, faultVars>>

Forward == Deliver(1)
SendFrag == Src!EmitFrag /\ UNCHANGED <<rcvVars, faultVars>>

FairSpec ==
  /\ Spec
  /\ \A c \in Chan : SF_vars(SendChannel(c))
  /\ WF_vars(SendFrag)
  /\ SF_vars(Forward)
  /\ WF_vars(EndBatch)

-----------------------------------------------------------------------------
(* Every variable has its type. *)
TypeOK ==
  /\ startup \in 1 .. MaxStartup
  /\ seq_no \in 0 .. SeqMod - 1
  /\ cur \in [Chan -> Value]
  /\ last_seq_no \in 0 .. SeqMod - 1
  /\ active_fragment_seq_no \in 0 .. SeqMod - 1
  /\ last_fragment_seq_no \in 0 .. SeqMod - 1
  /\ last_startup_time \in 0 .. MaxStartup
  /\ room \in Nat
  /\ disconnected \in [Chan -> BOOLEAN]
  /\ shown \in [Chan -> Value \cup {None, Torn}]

(* The callback is never handed a buffer mixed from two values, whatever   *)
(* is lost, duplicated or reordered: protocol.rst, "Fragments must be      *)
(* received in order and without any missing fragments, if not then all    *)
(* [...] must be ignored" (validate_order, receive_updates).               *)
FragmentsIntact == \A c \in Chan : shown[c] # Torn

(* A channel's value never goes back to an older one: late and repeated    *)
(* datagrams are recognized, and so are those of a sender that has since   *)
(* been restarted (validate_order, validate_sender).                       *)
NoStaleUpdate ==
  [][\A c \in Chan :
       (shown[c] \in Value /\ shown'[c] \in Value)
         => Version[shown'[c]] >= Version[shown[c]]]_vars

(* Over a network that keeps the order, a data message of the running      *)
(* sender is applied, through the wrap of seq_no, after a restart and      *)
(* after losses: protocol.rst, "On overflow seq_no must restart with 0.    *)
(* This must be properly handled [...] and not misinterpreted as           *)
(* out-of-order delivery" (validate_order, validate_sender).               *)
InOrderApplied ==
  [][\A c \in Chan :
       (Deliver(1) /\ net[1].kind = "data" /\ net[1].startup >= last_startup_time
        /\ c \in DOMAIN net[1].upd)
         => shown'[c] = net[1].upd[c]]_vars

(* Once the values stop changing and the network stops losing, heartbeats  *)
(* bring every channel of the client to the sender's value, and it stays   *)
(* there (mark_heartbeat_updates, receive_updates).                        *)
Converges == \A c \in Chan : <>[](shown[c] = cur[c])
=============================================================================
