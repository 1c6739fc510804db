------------------------------ MODULE UdpSender ------------------------------
(***************************************************************************)
(* UDPSender of transport.cpp: the rate limiter and the datagrams to every *)
(* destination.  Time is in whole microseconds, rates in bytes per         *)
(* microsecond (MB/s).                                                     *)
(***************************************************************************)
EXTENDS Naturals, FiniteSets

CONSTANTS Dest,      \* destinations: 1..n, in the order of send_addresses
          Length,    \* lengths of datagrams
          MaxTime,   \* bound: the clock
          MaxSends   \* bound: datagrams

VARIABLES rate_limit_mbs, now,
          last_sent_bytes, last_sent_time,
          sending,   \* [dest, length] of the sendto next, or Idle
          sends,     \* datagrams so far
          bytes,     \* history: bytes[d] sent to d
          first      \* history: time of the first sendto that succeeded

Idle == [dest |-> 0, length |-> 0]

(* last_sent_time starts with the clock's epoch, long ago. *)
UdpInit ==
  /\ rate_limit_mbs = 0 /\ now = 0
  /\ last_sent_bytes = 0 /\ last_sent_time = 0
  /\ sending = Idle /\ sends = 0
  /\ bytes = [d \in Dest |-> 0] /\ first = 0

(* The pause: send sleeps for at least what is left of it.  Deviation: the *)
(* pause is as long for every datagram.                                    *)
Paused_one == rate_limit_mbs > 0 => now - last_sent_time >= 1
Paused ==
  rate_limit_mbs > 0 => now - last_sent_time >= last_sent_bytes \div rate_limit_mbs

Send(n) ==
  /\ sending = Idle /\ sends < MaxSends /\ Paused
  /\ sending' = [dest |-> 1, length |-> n]
  /\ sends' = sends + 1
  /\ UNCHANGED <<rate_limit_mbs, now, last_sent_bytes, last_sent_time, bytes, first>>

(* sendto to one destination, which may fail. *)
NextDest == IF sending.dest = Cardinality(Dest) THEN Idle ELSE [sending EXCEPT !.dest = @ + 1]

SendTo ==
  /\ sending # Idle
  /\ sending' = NextDest
  /\ \/ /\ last_sent_bytes' = sending.length
        /\ last_sent_time' = now
        /\ bytes' = [bytes EXCEPT ![sending.dest] = @ + sending.length]
        /\ first' = IF \A d \in Dest : bytes[d] = 0 THEN now ELSE first
     \/ UNCHANGED <<last_sent_bytes, last_sent_time, bytes, first>>
  /\ UNCHANGED <<rate_limit_mbs, now, sends>>

Tick ==
  /\ now < MaxTime
  /\ now' = now + 1
  /\ UNCHANGED <<rate_limit_mbs, last_sent_bytes, last_sent_time, sending, sends, bytes, first>>
==============================================================================
