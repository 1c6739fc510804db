----------------------------- MODULE ConfigFile -----------------------------
(***************************************************************************)
(* Reading diode.json (config.cpp) and what is made of it (config.h).  The *)
(* file is a sequence of events of the yajl parser, which nests maps and   *)
(* arrays properly; it may end anywhere, because yajl_complete_parse is    *)
(* not called.  parser_yajl_null and parser_yajl_boolean do nothing.       *)
(***************************************************************************)
EXTENDS ConfigData

CONSTANTS Name,       \* channel names
          FieldName,
          OtherKey,   \* a key that has no meaning anywhere
          Number,     \* numbers in the file, in units of 1 / Unit
          Unit,
          AnyShape,   \* whether the file may be shaped otherwise than documented
          MaxEvents   \* bound: events read

VARIABLES phase,            \* "reading", "loaded" or "failed"
          stack,            \* external: the open containers
          reads,            \* events so far
          level, current_key, current_channel,   \* struct ParserContext
          config,           \* struct Config
          declared,         \* history: the channels the file declares
          cut               \* history: config after some shorter part of it

NoKey == "none"

(* heartbeat stands for the three periods, which are treated alike. *)
EmptyConfig == [rate |-> 64, heartbeat |-> 15 * Unit, channels |-> << >>]

FileInit ==
  /\ phase = "reading" /\ stack = << >> /\ reads = 0
  /\ level = 0 /\ current_key = NoKey /\ current_channel = 0
  /\ config = EmptyConfig /\ declared = << >> /\ cut = EmptyConfig

-----------------------------------------------------------------------------
(* yajl (external): containers, innermost last, each with the key whose    *)
(* value comes next.                                                       *)
Top == stack[Len(stack)]
InMap == stack # << >> /\ Top.kind = "map"
InArray == stack # << >> /\ Top.kind = "array"
ValueNext == (stack = << >> /\ reads = 0) \/ InArray \/ (InMap /\ Top.key # NoKey)

ValueRead(s) ==
  IF s # << >> THEN [s EXCEPT ![Len(s)].key = NoKey] ELSE s
Opened(kind) == Append(stack, [kind |-> kind, key |-> NoKey])
Closed == ValueRead(SubSeq(stack, 1, Len(stack) - 1))

(* The keys on the way to the value, and where documentation/design.rst    *)
(* has values.                                                             *)
Path == [i \in 1 .. Len(stack) |-> stack[i].key]
FieldKey == {"extra_fields", "polled_fields"}
NumberKey == {"rate_limit_mbs", "heartbeat_period"}

Documented(what) ==
  LET map == what = "map"
      depth == Len(stack)
  IN \/ AnyShape
     \/ map /\ depth = 0
     \/ map /\ depth = 1 /\ Path[1] = "channel_names"
     \/ map /\ depth = 2 /\ InMap /\ Path[1] = "channel_names"
     \/ what = "array" /\ depth = 3 /\ InMap
     \/ what = "string" /\ depth = 4
     \/ what \in {"string", "number"} /\ InMap /\ Top.key = OtherKey
     \/ what = "number" /\ depth = 1 /\ Top.key \in NumberKey

Value(what) == phase = "reading" /\ reads < MaxEvents /\ ValueNext /\ Documented(what)

Count ==
  /\ reads' = reads + 1
  /\ cut' \in IF cut = EmptyConfig THEN {cut, config} ELSE {cut}
  /\ UNCHANGED phase

-----------------------------------------------------------------------------
(* The level in a container.  Deviation: in arrays, too, it is deeper.     *)
LevelIn_any(kind) == level + 1
LevelIn(kind) == IF kind = "map" THEN level + 1 ELSE level

(* parser_yajl_start_map, parser_yajl_end_map *)
StartMap ==
  /\ Value("map")
  /\ stack' = Opened("map")
  /\ level' = LevelIn("map")
  /\ Count
  /\ UNCHANGED <<current_key, current_channel, config, declared>>

EndMap ==
  /\ phase = "reading" /\ reads < MaxEvents /\ InMap /\ Top.key = NoKey
  /\ stack' = Closed
  /\ level' = level - 1
  /\ Count
  /\ UNCHANGED <<current_key, current_channel, config, declared>>

(* parser_yajl_start_array, parser_yajl_end_array *)
StartArray ==
  /\ Value("array")
  /\ stack' = Opened("array")
  /\ level' = LevelIn("array")
  /\ Count
  /\ UNCHANGED <<current_key, current_channel, config, declared>>

EndArray ==
  /\ phase = "reading" /\ reads < MaxEvents /\ InArray
  /\ stack' = Closed
  /\ Count
  /\ UNCHANGED <<level, current_key, current_channel, config, declared>>

(* parser_yajl_map_key: at level 2 every key is a channel.  Deviation: so  *)
(* are the keys below.                                                     *)
IsChannelKey_deeper(l) == l >= 2
IsChannelKey(l) == l = 2

MapKey(key) ==
  /\ phase = "reading" /\ reads < MaxEvents /\ InMap /\ Top.key = NoKey
  /\ stack' = [stack EXCEPT ![Len(stack)].key = key]
  /\ current_key' = key
  /\ IF IsChannelKey(level)
     THEN /\ config' = [config EXCEPT !.channels = Append(@, ConfigChannel(key))]
          /\ current_channel' = Len(config.channels) + 1
     ELSE UNCHANGED <<config, current_channel>>
  /\ declared' = IF Len(stack) = 2 /\ Path[1] = "channel_names"
                 THEN Append(declared, ConfigChannel(key)) ELSE declared
  /\ Count
  /\ UNCHANGED level

WithField(channels, i, key, f) ==
  IF key = "extra_fields" THEN [channels EXCEPT ![i].extra = Append(@, f)]
  ELSE [channels EXCEPT ![i].polled = Append(@, f)]

(* parser_yajl_string *)
String(f) ==
  /\ Value("string")
  /\ stack' = ValueRead(stack)
  /\ config' = IF level = 3 /\ current_key \in FieldKey /\ current_channel # 0
               THEN [config EXCEPT !.channels =
                       WithField(@, current_channel, current_key, f)]
               ELSE config
  /\ declared' = IF Len(stack) = 4 /\ Path[1] = "channel_names" /\ Path[3] \in FieldKey
                    /\ stack[3].kind = "map" /\ InArray
                 THEN WithField(declared, Len(declared), Path[3], f) ELSE declared
  /\ Count
  /\ UNCHANGED <<level, current_key, current_channel>>

(* parser_yajl_double, parser_yajl_integer: rate_limit_mbs is a whole      *)
(* number, the fraction is lost.                                           *)
Num(d) ==
  /\ Value("number")
  /\ stack' = ValueRead(stack)
  /\ config' = IF level # 1 THEN config
               ELSE IF current_key = "rate_limit_mbs" THEN [config EXCEPT !.rate = d \div Unit]
               ELSE IF current_key = "heartbeat_period" THEN [config EXCEPT !.heartbeat = d]
               ELSE config
  /\ Count
  /\ UNCHANGED <<level, current_key, current_channel, declared>>

(* parse_json_file: an empty or malformed file is an error, one that ends  *)
(* too early is not.                                                       *)
Fail ==
  /\ phase = "reading"
  /\ phase' = "failed"
  /\ UNCHANGED <<stack, reads, level, current_key, current_channel, config, declared, cut>>

EndOfFile ==
  /\ phase = "reading" /\ reads > 0
  /\ phase' = "loaded"
  /\ UNCHANGED <<stack, reads, level, current_key, current_channel, config, declared, cut>>

Keys == CASE Len(stack) = 1 -> NumberKey \cup {"channel_names", OtherKey}
          [] Len(stack) = 2 -> Name
          [] OTHER -> FieldKey \cup {OtherKey}

Event ==
  \/ StartMap \/ EndMap \/ StartArray \/ EndArray
  \/ stack # << >> /\ \E key \in Keys : MapKey(key)
  \/ \E f \in FieldName : String(f)
  \/ \E d \in Number : Num(d)

=============================================================================
