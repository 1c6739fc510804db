-------------------------------- MODULE DbGen --------------------------------
(***************************************************************************)
(* diode_dbgen: one pass over the channels of the configuration.  Each     *)
(* channel that Channel Access reaches becomes a record, whose diode_cix   *)
(* is the index the diode uses for it.                                     *)
(***************************************************************************)
EXTENDS ConfigData

VARIABLES todo,           \* the channels still to come
          channel_index,
          records         \* the database: [cix, name]

GenInit ==
  /\ channel_index = 0
  /\ records = {}

(* Channels whose type is not known, as they were not reached in time, get *)
(* no record, but keep their indices.  Deviation: a channel has one index. *)
NextIndex_single(ch) == channel_index + 1
NextIndex(ch) == channel_index + ChannelCount(ch)

Generate ==
  /\ todo # << >>
  /\ todo' = Tail(todo)
  /\ channel_index' = NextIndex(Head(todo))
  /\ \E reached \in BOOLEAN :
       records' = records \cup IF reached THEN {[cix |-> channel_index, name |-> Head(todo).name]}
                               ELSE {}
==============================================================================
