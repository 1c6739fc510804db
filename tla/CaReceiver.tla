----------------------------- MODULE CaReceiver -----------------------------
(***************************************************************************)
(* The CA receiver (receiver.cpp).  Its loop takes up to                   *)
(* max_packets_at_once datagrams, each waited for at most the socket       *)
(* timeout, then reads the clock and looks for channels without updates.   *)
(* The client's callback is seen through shown: what it was last told      *)
(* about each channel.                                                     *)
(*                                                                         *)
(* Time is counted in ticks, relative to current_update_time: lag is how   *)
(* far the clock has moved since it was read, age[c] and hb_age are the    *)
(* distances of last_update_time and last_heartbeat_time from it.  A tick  *)
(* is one socket timeout, heartbeat_period a whole number of seconds.      *)
(***************************************************************************)
EXTENDS CaProtocol, Sequences

CONSTANTS Chan,        \* channel indices
          Value,       \* what an update may carry
          Disc,        \* the values that say "disconnected" (count == -1)
          Size,        \* Size[c][v]: dbr_size_n of what the update announces
          None,        \* the callback was told "disconnected", or nothing yet
          Torn,        \* bytes that are not one value of the channel
          Hb,          \* heartbeat_period, in ticks
          RecvTimeout, \* SO_RCVTIMEO in ticks: 1, or 0 to leave time out
          MaxPackets   \* max_packets_at_once: 100 in the code

VARIABLES last_seq_no, active_fragment_seq_no, last_fragment_seq_no,
          last_startup_time,
          buffer,        \* slices written to fragment_buffer
          room,          \* fragment_serializer.remaining()
          disconnected,  \* disconnected[c]
          age, hb_age, lag,
          started,       \* current_update_time was set since construction
          wait,          \* ticks spent in the current recvfrom
          quota,         \* max_packets_at_once, counting down
          shown          \* shown[c]: the last callback for c

orderVars == <<last_seq_no, active_fragment_seq_no, last_fragment_seq_no,
               last_startup_time>>
bufVars   == <<buffer, room>>
ageVars   == <<age, disconnected, shown>>
clockVars == <<hb_age, lag, started>>
rcvVars   == <<orderVars, bufVars, ageVars, clockVars, wait, quota>>

Stale_triple == 3 * Hb   \* a deviation
Stale == 2 * Hb   \* invalidate_period
Capped(n) == IF n < Stale THEN n ELSE Stale   \* bound: longer ages are one

RcvInit ==
  /\ last_seq_no = NoSeq
  /\ active_fragment_seq_no = NoSeq
  /\ last_fragment_seq_no = NoSeq
  /\ last_startup_time = 0
  /\ buffer = << >>
  /\ room = 0
  /\ disconnected = [c \in Chan |-> FALSE]
  /\ age = [c \in Chan |-> Stale]
  /\ hb_age = 0 /\ lag = 0 /\ started = FALSE
  /\ wait = 0 /\ quota = MaxPackets
  /\ shown = [c \in Chan |-> None]

(* validate_sender: a later startup time resets the expected number.       *)
(* Deviations: no sender counts as older; the number is not reset.         *)
Older_never(pkt) == FALSE
Older(pkt) == pkt.startup < last_startup_time
Newer(pkt) == pkt.startup > last_startup_time
BaseSeq_kept(pkt) == last_seq_no
BaseSeq(pkt) == IF Newer(pkt) THEN NoSeq ELSE last_seq_no

validate_sender(pkt) ==
  /\ ~Older(pkt)
  /\ last_startup_time' = pkt.startup

(* validate_order(seq_no): the number is remembered whether or not the     *)
(* message is accepted.                                                    *)
TolerableDiff == (SeqMod - 1) \div 2
InOrder(pkt) == SeqDiff(pkt.seq, BaseSeq(pkt)) < TolerableDiff

(* One recvfrom that returned a datagram, with one less to come in this    *)
(* batch.  A deviation does not count them.                                *)
TakePacket_uncounted ==
  /\ quota > 0
  /\ wait' = 0
  /\ UNCHANGED <<clockVars, quota>>
TakePacket ==
  /\ quota > 0
  /\ quota' = quota - 1
  /\ wait' = 0
  /\ UNCHANGED clockVars

(* A datagram with another magic or configuration hash, or of an older     *)
(* sender, is ignored.                                                     *)
ReceiveForeign ==
  /\ TakePacket
  /\ UNCHANGED <<orderVars, bufVars, ageVars>>

ReceiveOlder(pkt) ==
  /\ Older(pkt)
  /\ TakePacket
  /\ UNCHANGED <<orderVars, bufVars, ageVars>>

(* The age of an update that is stamped with current_update_time, which is *)
(* the clock's epoch during the first batch; a deviation never stamps.     *)
StampAge_never == Stale
StampAge == IF started THEN 0 ELSE Stale

(* The entries of a data message: each known channel is stamped and its    *)
(* callback called.                                                        *)
ApplyUpdates(upd) ==
  LET S == Chan \cap DOMAIN upd
  IN /\ disconnected' = [c \in Chan |-> IF c \in S THEN upd[c] \in Disc
                                        ELSE disconnected[c]]
     /\ age' = [c \in Chan |-> IF c \in S THEN StampAge ELSE age[c]]
     /\ shown' = [c \in Chan |-> IF c \in S THEN upd[c] ELSE shown[c]]

ReceiveData(pkt) ==
  /\ pkt.kind = "data"
  /\ validate_sender(pkt)
  /\ last_seq_no' = pkt.seq
  /\ IF InOrder(pkt) THEN ApplyUpdates(pkt.upd) ELSE UNCHANGED ageVars
  /\ TakePacket
  /\ UNCHANGED <<active_fragment_seq_no, last_fragment_seq_no, bufVars>>

(* The buffer handed to the callback, as one value of channel ch or not. *)
Assembled(ch, b) ==
  IF \A i \in 1 .. Len(b) : b[i] = [ch |-> ch, val |-> b[1].val, no |-> i - 1]
  THEN b[1].val ELSE Torn

(* Whether the payload goes into the r bytes of room that are left; a      *)
(* deviation wants a byte to spare.                                        *)
FitsBuffer_strict(pkt, r) == r > pkt.fsize
FitsBuffer(pkt, r) == r >= pkt.fsize

(* An accepted fragment is copied into the buffer, which had b and r bytes *)
(* of room; the callback is called when nothing remains.  Neither          *)
(* last_update_time nor disconnected changes.                              *)
CopyFragment(pkt, b, r) ==
  LET piece == [ch |-> pkt.ch, val |-> pkt.val, no |-> pkt.no]
  IN IF FitsBuffer(pkt, r)
     THEN /\ buffer' = Append(b, piece)
          /\ room' = r - pkt.fsize
          /\ shown' = IF r = pkt.fsize
                      THEN [shown EXCEPT ![pkt.ch] = Assembled(pkt.ch, Append(b, piece))]
                      ELSE shown
          /\ UNCHANGED <<age, disconnected>>
     ELSE buffer' = b /\ room' = r /\ UNCHANGED ageVars

(* validate_order(seq_no, 0): a first fragment is subject to the order of  *)
(* messages and starts the buffer anew.                                    *)
ReceiveFirstFragment(pkt) ==
  /\ pkt.kind = "frag" /\ pkt.no = 0
  /\ validate_sender(pkt)
  /\ last_seq_no' = pkt.seq
  /\ IF InOrder(pkt)
     THEN /\ active_fragment_seq_no' = pkt.seq
          /\ last_fragment_seq_no' = 0
          /\ CopyFragment(pkt, << >>, Size[pkt.ch][pkt.val])
     ELSE UNCHANGED <<active_fragment_seq_no, last_fragment_seq_no, bufVars, ageVars>>
  /\ TakePacket

(* validate_order(seq_no, n), n > 0: only the active sequence number and   *)
(* the fragment counter are looked at.  A deviation ignores the counter.   *)
Active(pkt) == active_fragment_seq_no = pkt.seq
Follows_any(pkt) == TRUE
Follows(pkt) == NextSeq(last_fragment_seq_no) = pkt.no

ReceiveNextFragment(pkt) ==
  LET accepted == Active(pkt) /\ Follows(pkt)
  IN /\ pkt.kind = "frag" /\ pkt.no > 0
     /\ validate_sender(pkt)
     /\ last_seq_no' = BaseSeq(pkt)
     /\ last_fragment_seq_no' = IF Active(pkt) THEN NextSeq(last_fragment_seq_no)
                                 ELSE last_fragment_seq_no
     /\ active_fragment_seq_no' = IF accepted THEN active_fragment_seq_no ELSE NoSeq
     /\ IF accepted THEN CopyFragment(pkt, buffer, room)
                    ELSE UNCHANGED <<bufVars, ageVars>>
     /\ TakePacket

(* receive_updates *)
Receive(pkt) ==
  \/ ReceiveOlder(pkt)
  \/ ReceiveData(pkt)
  \/ ReceiveFirstFragment(pkt)
  \/ ReceiveNextFragment(pkt)

(* Time passes in recvfrom only. *)
Tick ==
  /\ quota > 0
  /\ wait < RecvTimeout
  /\ wait' = wait + 1
  /\ lag' = lag + 1
  /\ UNCHANGED <<orderVars, bufVars, ageVars, hb_age, started, quota>>

(* run: recvfrom timed out or the batch is full.  The clock is read and    *)
(* check_no_updates looks, once per heartbeat_period, for channels without *)
(* an update for two of them.                                              *)
EndBatch ==
  LET check == hb_age + lag >= Hb
      expired(c) == check /\ ~disconnected[c] /\ age[c] + lag >= Stale
  IN /\ quota = 0 \/ wait = RecvTimeout
     /\ started' = TRUE
     /\ lag' = 0
     /\ hb_age' = IF check THEN 0 ELSE hb_age + lag
     /\ age' = [c \in Chan |-> Capped(age[c] + lag)]
     /\ disconnected' = [c \in Chan |-> disconnected[c] \/ expired(c)]
     /\ shown' = [c \in Chan |-> IF expired(c) THEN None ELSE shown[c]]
     /\ wait' = 0
     /\ quota' = MaxPackets
     /\ UNCHANGED <<orderVars, bufVars>>
=============================================================================
