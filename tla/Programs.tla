------------------------------ MODULE Programs -------------------------------
(***************************************************************************)
(* The programs around the diode: every one of them reads the              *)
(* configuration first.  diode_dbgen then writes a database for the        *)
(* receiving IOC; senders and receivers number their channels; a sender    *)
(* sends datagrams at the configured rate, which a receiver reads.         *)
(***************************************************************************)
EXTENDS ConfigData, FiniteSets

CONSTANTS Name, FieldName, OtherKey, Number, Unit, AnyShape, MaxEvents,
          Dest, Length, MaxTime, MaxSends,
          MaxMessageSize, SeqMod, Elements, Gone, CountMod, MetaBytes,
          MaxTable   \* bound: channels of a sender whose messages are looked at

ASSUME NumberAssumption == Number \subseteq Nat /\ Unit \in Nat \ {0}
ASSUME KeyAssumption ==
  /\ OtherKey \notin {"none", "channel_names", "extra_fields", "polled_fields",
                     "rate_limit_mbs", "heartbeat_period"}
  /\ "none" \notin Name
ASSUME DestAssumption ==   \* at least one: without an address nothing is sent
  Cardinality(Dest) \in Nat \ {0} /\ Dest = 1 .. Cardinality(Dest)
ASSUME LengthAssumption == Length \subseteq Nat
ASSUME MessageAssumption ==   \* in the code: 65504 and 65536
  /\ MaxMessageSize \in Nat /\ MaxMessageSize % 8 = 0 /\ MaxMessageSize >= 32
  /\ CountMod \in Nat /\ CountMod >= MaxMessageSize - 24
ASSUME ElementsAssumption == Elements \subseteq Nat /\ MetaBytes \in Nat

VARIABLES program,   \* "file", then one of Starts, then "sending" for a sender
          phase, stack, reads, level, current_key, current_channel, config,
          declared, cut,
          todo, channels, channel_index, records,
          rate_limit_mbs, now, last_sent_bytes, last_sent_time, sending, sends,
          bytes, first,
          count, queue, packed, wire, pos, good, limit, buffer, update_count, called

File == INSTANCE ConfigFile
Gen == INSTANCE DbGen
Table == INSTANCE ChannelTable
Udp == INSTANCE UdpSender
Wire == INSTANCE CaWire

fileVars == <<phase, stack, reads, level, current_key, current_channel, config,
              declared, cut>>
genVars == <<channel_index, records>>
udpVars == <<rate_limit_mbs, now, last_sent_bytes, last_sent_time, sending, sends,
             bytes, first>>
wireVars == <<count, queue, packed, wire, pos, good, limit, buffer, update_count, called>>
vars == <<program, fileVars, todo, channels, genVars, udpVars, wireVars>>

Init ==
  /\ program = "file" /\ todo = << >>
  /\ File!FileInit /\ Gen!GenInit /\ Table!TableInit /\ Udp!UdpInit /\ Wire!WireInit

ReadFile ==
  /\ program = "file"
  /\ File!Event \/ File!Fail \/ File!EndOfFile
  /\ UNCHANGED <<program, todo, channels, genVars, udpVars, wireVars>>

(* diode_dbgen, a sender or a receiver of Channel Access (the IOC's tasks  *)
(* among them), or one of pvAccess.                                        *)
Starts == {"dbgen", "sender", "receiver", "pva"}

Start(p) ==
  /\ program = "file" /\ phase = "loaded"
  /\ program' = p
  /\ todo' = config.channels
  /\ UNCHANGED <<fileVars, channels, genVars, udpVars, wireVars>>

GenerateDb ==
  /\ program = "dbgen"
  /\ Gen!Generate
  /\ UNCHANGED <<program, fileVars, channels, udpVars, wireVars>>

CreateTable ==
  /\ \/ program = "sender" /\ Table!CreateChannels
     \/ program = "receiver" /\ Table!AssignNames
     \/ program = "pva" /\ Table!CreatePvaChannels
  /\ UNCHANGED <<program, fileVars, genVars, udpVars, wireVars>>

(* What was read of the file is left out from here on. *)
FileForgotten ==
  /\ stack' = << >> /\ reads' = 0 /\ level' = 0 /\ current_key' = File!NoKey
  /\ current_channel' = 0 /\ declared' = << >>
  /\ config' = File!EmptyConfig /\ cut' = File!EmptyConfig
  /\ UNCHANGED <<phase, todo, genVars>>

(* The rate limiter, with datagrams of any length. *)
StartSending ==
  /\ program \in {"sender", "pva"} /\ todo = << >>
  /\ program' = "sending"
  /\ rate_limit_mbs' = config.rate
  /\ channels' = << >>
  /\ FileForgotten
  /\ UNCHANGED <<now, last_sent_bytes, last_sent_time, sending, sends, bytes, first,
                 wireVars>>

SendDatagrams ==
  /\ program = "sending"
  /\ (\E n \in Length : Udp!Send(n)) \/ Udp!SendTo \/ Udp!Tick
  /\ UNCHANGED <<program, fileVars, todo, channels, genVars, wireVars>>

(* A message of the channels in the table, some records of which are       *)
(* queued (CaSender has how they come into the queue).                     *)
Records == {i \in Wire!Index : Wire!Parent(i) = i}
Queues == {q \in UNION {[1 .. n -> Records] : n \in 1 .. Cardinality(Records)} :
             \A i, j \in DOMAIN q : q[i] = q[j] => i = j}

StartPacking ==
  /\ program = "sender" /\ todo = << >> /\ Len(channels) \in 1 .. MaxTable
  /\ program' = "packing"
  /\ FileForgotten
  /\ UNCHANGED <<channels, udpVars, wireVars>>

PassMessage ==
  /\ program = "packing"
  /\ \/ count = << >> /\ \E q \in Queues, counts \in [Wire!Index -> Elements \cup {Gone}] :
                             Wire!StartMessage(q, counts)
     \/ Wire!WriteGroup \/ Wire!SendMessage \/ Wire!ReadEntry \/ Wire!ReadDone
  /\ UNCHANGED <<program, fileVars, todo, channels, genVars, udpVars>>

Next ==
  \/ ReadFile
  \/ \E p \in Starts : Start(p)
  \/ GenerateDb \/ CreateTable
  \/ StartSending \/ SendDatagrams
  \/ StartPacking \/ PassMessage

Spec == Init /\ [][Next]_vars

-----------------------------------------------------------------------------
(* The parser's level counts the open maps, its channel is one of the      *)
(* configuration, and every counter has its type (ParserContext).          *)
TypeOK ==
  /\ level = Cardinality({i \in 1 .. Len(stack) : stack[i].kind = "map"})
  /\ current_channel \in 0 .. Len(config.channels)
  /\ config.rate \in Nat /\ config.heartbeat \in Nat
  /\ channel_index \in Nat /\ rate_limit_mbs \in Nat

(* The parser, which looks at a level and at the last key only, finds the  *)
(* channels and fields the file declares, in their order, among keys that  *)
(* mean nothing and however far the file goes (parser_yajl_map_key,        *)
(* parser_yajl_string).                                                    *)
ParsedAsDeclared == config.channels = declared

(* A copy of the configuration that lost its end is accepted, but a        *)
(* receiver with it and a sender with the whole one disagree about no      *)
(* index unless their hashes differ (update_hash, parse_json_file).        *)
CutFileDetected ==
  (phase = "loaded" /\ HashInput(cut) = HashInput(config))
    => FlatNames(cut) = FlatNames(config)

(* design.rst: "extra field index = parent channel index + position", and  *)
(* polled fields after them.  The indices of the sender, the receiver, the *)
(* IOC and the generated database mean the same channels, whichever of     *)
(* them could not be reached, and a field's parent is its own channel      *)
(* (create_channels, receiverTask, main of diode_dbgen).                   *)
IndicesAgree ==
  LET names == FlatNames(config)
  IN /\ \A r \in records : r.cix < Len(names) /\ names[r.cix + 1] = <<r.name>>
     /\ program \in {"sender", "receiver"} =>
          \A i \in 1 .. Len(channels) : i <= Len(names) /\ names[i] = channels[i].name
     /\ program = "sender" =>
          \A i \in 1 .. Len(channels) :
            names[channels[i].parent + 1] = <<channels[i].name[1]>>

(* The calls due for record c: its own and those of its fields, in the     *)
(* order of the table.                                                     *)
Entries(c) ==
  Concat([n \in 1 .. Len(channels) |->
            IF Wire!Parent(n - 1) = c THEN <<[id |-> n - 1, count |-> count[n - 1]]>> ELSE << >>],
         Len(channels))

(* The sender never writes past its buffer, although it asks for room by   *)
(* sums of its own, and the receiver, which computes sizes anew from types *)
(* and 16-bit counts, is called for every record packed and all its        *)
(* fields, with their counts, and ends where the datagram ends (send_      *)
(* updates, ChannelGroup, receive_updates, Serializer).                    *)
ReadAsWritten ==
  /\ pos <= MaxMessageSize
  /\ (program = "packing" /\ wire = "read") =>
       /\ called = Concat([k \in 1 .. Len(packed) |-> Entries(packed[k])], Len(packed))
       /\ pos = limit

(* design.rst: "Sending messages over UDP is rate-limited".  What a        *)
(* destination got, short of the last datagram, it got at no more than the *)
(* rate, up to the microsecond that rounding may save at every pause       *)
(* (UDPSender::send), although sendto may fail.                            *)
RateKept ==
  rate_limit_mbs > 0 =>
    \A d \in Dest :
      bytes[d] <= last_sent_bytes + rate_limit_mbs * (last_sent_time - first)
                    + (rate_limit_mbs - 1) * sends

(* design.rst: the rate is that of the messages, not of a destination.     *)
TotalRateKept ==
  LET total[d \in 0 .. Cardinality(Dest)] == IF d = 0 THEN 0 ELSE total[d - 1] + bytes[d]
  IN rate_limit_mbs > 0 =>
       total[Cardinality(Dest)] <= last_sent_bytes + rate_limit_mbs * (last_sent_time - first)
                                     + (rate_limit_mbs - 1) * sends

(* pvadiode_receiver takes the names of its PVs from                       *)
(* create_flat_channel_name_vector.                                        *)
PvaNamesAgree ==
  program = "pva" =>
    \A i \in 1 .. Len(channels) : FlatNames(config)[i] = channels[i].name
==============================================================================
