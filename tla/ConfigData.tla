----------------------------- MODULE ConfigData -----------------------------
(***************************************************************************)
(* The configuration of config.h and what the programs make of it: the     *)
(* hash both ends of the diode compare and the indices of channels.        *)
(***************************************************************************)
EXTENDS Naturals, Sequences

ConfigChannel(name) == [name |-> name, extra |-> << >>, polled |-> << >>]

(* The sequences f[1], ..., f[n] in one. *)
Concat(f, n) ==
  LET cat[i \in 0 .. n] == IF i = 0 THEN << >> ELSE cat[i - 1] \o f[i]
  IN cat[n]

(* update_hash: what is combined, in its order.  Deviation: without the    *)
(* polled fields.                                                          *)
HashInput_subscribed(c) ==
  <<c.heartbeat, c.rate>> \o
    Concat([i \in 1 .. Len(c.channels) |-> <<c.channels[i].name>> \o c.channels[i].extra],
           Len(c.channels))
HashInput(c) ==
  <<c.heartbeat, c.rate>> \o
    Concat([i \in 1 .. Len(c.channels) |->
              <<c.channels[i].name>> \o c.channels[i].extra \o c.channels[i].polled],
           Len(c.channels))

(* ConfigChannel: how many indices a channel takes (total_channel_count).  *)
ChannelCount(ch) == Len(ch.extra) + Len(ch.polled) + 1

(* create_flat_channel_name_vector: the channel itself has no field name.  *)
FlatNames(c) ==
  Concat([i \in 1 .. Len(c.channels) |->
            LET ch == c.channels[i]
                fields == ch.extra \o ch.polled
            IN <<<<ch.name>>>> \o [j \in 1 .. Len(fields) |-> <<ch.name, fields[j]>>]],
         Len(c.channels))
=============================================================================
