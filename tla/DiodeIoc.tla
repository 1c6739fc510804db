------------------------------ MODULE DiodeIoc ------------------------------
(***************************************************************************)
(* The diode IOC: the receiver thread as the engine of an IOC without      *)
(* scanning (devdiode.c, diodeIoc.cpp, iocInit.c).  Two threads share the  *)
(* tables without a lock:                                                  *)
(*   - the shell, which builds the IOC and assigns records and fields to   *)
(*     channel indices (diodeLUT), step at shell;                          *)
(*   - the receiver task, started before, which first writes the names of  *)
(*     the configuration (diodeNameLUT), then passes on what it receives.  *)
(* A record is seen by CA clients through the events posted for its value  *)
(* field: seen.  status and severity are one alarm.  nsta and nsev are     *)
(* back at 0 whenever the record is unlocked (recGblResetAlarms), so they  *)
(* are NoAlarm where the code compares with them.                          *)
(***************************************************************************)
EXTENDS Integers, Sequences, FiniteSetsExt

CONSTANTS
  Record,     \* names of records
  RecordSeq,  \* the records in the order of the database
  Field,      \* names of fields other than the default one
  Present,    \* Present[r]: the fields record r has
  Cix,        \* Cix[r]: info(diode_cix), or None
  Config,     \* Config[i]: the i-th name, a record's or a field's
  Begins,     \* Begins[a]: the record names that begin with the name a
  LutSize,    \* DIODE_LUT_SIZE
  Data,       \* count and bytes of a value
  Puttable,   \* Puttable[r][f]: the data dbPut can convert for field f of r
  Stamp,      \* time stamps
  AlarmsAt,   \* AlarmsAt[s]: the alarms that may come with stamp s
  NoAlarm, Invalid,  \* no alarm, and UDF_ALARM with INVALID_ALARM
  None

Index == 0 .. Len(Config) - 1
Name(i) == Config[i + 1]                \* [base |-> record, field |-> field or None]
Alarm == {NoAlarm, Invalid} \cup (UNION {AlarmsAt[s] : s \in Stamp})

(* What the callback is given: a record's update with its meta data, a     *)
(* field's without, or the news that the channel is gone.                  *)
RecordUpdate == [data : Data, stamp : Stamp, alarm : Alarm]
FieldUpdate == [data : Data]
Gone == [gone : {TRUE}]

ASSUME ConfigAssumption ==
  /\ Config \in Seq([base : Record, field : Field \cup {None}])
  /\ Config # << >> /\ Len(Config) <= LutSize
ASSUME RecordAssumption ==
  /\ RecordSeq \in Seq(Record)
  /\ \A j, k \in DOMAIN RecordSeq : RecordSeq[j] = RecordSeq[k] => j = k
  /\ Present \in [Record -> SUBSET Field]
  /\ Cix \in [Record -> Nat \cup {None}]
  /\ Begins \in [Record -> SUBSET Record]
  /\ \A r \in Record : r \in Begins[r]
ASSUME ValueAssumption ==
  /\ Puttable \in [Record -> [Field \cup {None} -> SUBSET Data]]
  /\ LutSize \in Nat
  /\ None \notin Field /\ None \notin Data /\ None \notin Nat /\ None \notin Stamp
  /\ None \notin [rec : Record, field : Field \cup {None}, last : Data \cup {None}]
  /\ None \notin RecordUpdate \cup FieldUpdate \cup Gone

VARIABLES
  iocState,  \* iocState
  shell,     \* "idle", or the place in diode_iocInit
  pos,       \* loop counter of the assignments
  diodeLUT,  \* entries: address, count and hash (last); << >> before diode_init
  named,     \* entries of diodeNameLUT; -1 while there is no table
  time, alarm, udf,   \* of each record
  val,       \* val[r]: the value field
  fval,      \* fval[r][f]: the other fields
  seen,      \* seen[r]: value, time and alarm in the last event for the value field
  told,      \* history: told[i], the last call for i that found its entry
  latest,    \* history: latest[r], the channel of the last call for record r
  unsettled  \* history: see Settle

shellVars == <<iocState, shell, pos>>
recVars == <<time, alarm, udf, val, fval, seen>>
histVars == <<told, latest, unsettled>>
vars == <<shellVars, diodeLUT, named, recVars, histVars>>

Init ==
  /\ iocState = "void" /\ shell = "idle" /\ pos = 0
  /\ diodeLUT = << >>
  /\ named = -1
  /\ time = [r \in Record |-> None]
  /\ alarm = [r \in Record |-> Invalid]
  /\ udf = [r \in Record |-> TRUE]
  /\ val = [r \in Record |-> None]
  /\ fval = [r \in Record |-> [f \in Present[r] |-> None]]
  /\ seen = [r \in Record |-> None]
  /\ told = [i \in Index |-> None]
  /\ latest = [r \in Record |-> None]
  /\ unsettled = [r \in Record |-> FALSE]

-----------------------------------------------------------------------------
(* The shell's commands. *)
NoRecords == UNCHANGED <<named, recVars, histVars>>

(* iocBuild_1, iocBuild_2 and iocBuild_3; diodeIocInit goes on with        *)
(* diode_assign_fields, diodeIocBuild does not.                            *)
diode_iocBuild(next) ==
  /\ shell = "idle" /\ iocState = "void"
  /\ iocState' = "built"
  /\ shell' = next
  /\ UNCHANGED <<pos, diodeLUT>> /\ NoRecords

(* asInit failed: the IOC can be neither built again nor run.              *)
BuildFails ==
  /\ shell = "idle" /\ iocState = "void"
  /\ iocState' = "building"
  /\ UNCHANGED <<shell, pos, diodeLUT>> /\ NoRecords

diode_iocRun ==
  /\ shell = "idle" /\ iocState \in {"built", "paused"}
  /\ iocState' = "running"
  /\ UNCHANGED <<shell, pos, diodeLUT>> /\ NoRecords

diode_iocPause ==
  /\ shell = "idle" /\ iocState = "running"
  /\ iocState' = "paused"
  /\ UNCHANGED <<shell, pos, diodeLUT>> /\ NoRecords

diode_init ==
  /\ shell = "init"
  /\ diodeLUT' = [i \in 0 .. LutSize - 1 |-> None]
  /\ shell' = "records" /\ pos' = 1
  /\ UNCHANGED iocState /\ NoRecords

(* The names the receiver task has written so far. *)
Named == 0 .. named - 1

(* A deviation: the last name that begins like this one.                   *)
Resolved_last(S) == Max(S)
(* resolve_index_n returns the first match. *)
Resolved(S) == Min(S)

(* resolve_index: the whole name.  resolve_index_n: only the first         *)
(* max_name_len characters of both are compared.                           *)
resolve_index(r) == {i \in Named : Name(i) = [base |-> r, field |-> None]}
resolve_index_n(r) == {i \in Named : Name(i).base \in Begins[r]}

diode_assign_entry(id, r, f) ==
  diodeLUT' = IF id < LutSize /\ diodeLUT[id] = None
              THEN [diodeLUT EXCEPT ![id] = [rec |-> r, field |-> f, last |-> None]]
              ELSE diodeLUT

(* The name is looked up only if there is a diode_cix, and then replaces   *)
(* it if it is found.                                                      *)
diode_assign_record ==
  /\ shell = "records" /\ pos <= Len(RecordSeq)
  /\ LET r == RecordSeq[pos]
         S == resolve_index(r)
     IN IF Cix[r] = None THEN UNCHANGED diodeLUT
        ELSE diode_assign_entry(IF S = {} THEN Cix[r] ELSE Resolved(S), r, None)
  /\ pos' = pos + 1
  /\ UNCHANGED <<iocState, shell>> /\ NoRecords

(* Without a table of names diode_assign_fields returns -2, and            *)
(* diode_iocInit returns without diode_iocRun.                             *)
RecordsDone ==
  /\ shell = "records" /\ pos > Len(RecordSeq)
  /\ shell' = IF named = -1 THEN "idle" ELSE "fields"
  /\ pos' = 0
  /\ UNCHANGED <<iocState, diodeLUT>> /\ NoRecords

(* dbFindRecord finds the field.  A deviation does not look.               *)
HasField_any(r, f) == TRUE
HasField(r, f) == f \in Present[r]

AssignField ==
  /\ shell = "fields" /\ pos < named
  /\ LET n == Name(pos)
         e == diodeLUT[Resolved(resolve_index_n(n.base))]
     IN IF n.field # None /\ e # None /\ HasField(e.rec, n.field)
        THEN diode_assign_entry(pos, e.rec, n.field)
        ELSE UNCHANGED diodeLUT
  /\ pos' = pos + 1
  /\ UNCHANGED <<iocState, shell>> /\ NoRecords

(* "first empty name implies end of block": then diode_iocRun. *)
FieldsDone ==
  /\ shell = "fields" /\ pos >= named
  /\ iocState' = "running"
  /\ shell' = "idle" /\ pos' = 0
  /\ UNCHANGED diodeLUT /\ NoRecords

-----------------------------------------------------------------------------
(* The receiver task. *)
AllocNames ==
  /\ named = -1
  /\ named' = 0
  /\ UNCHANGED <<shellVars, diodeLUT, recVars, histVars>>

diode_assign ==
  /\ named \in Index
  /\ named' = named + 1
  /\ UNCHANGED <<shellVars, diodeLUT, recVars, histVars>>

(* The callback runs after the last diode_assign.  Calls for an index      *)
(* without an entry return at once and change nothing.                     *)
Found(i) ==
  /\ named = Len(Config)
  /\ diodeLUT # << >> /\ diodeLUT[i] # None

Entry(i) == diodeLUT[i]

(* db_post_events for the value field, with what the record then holds.    *)
Posted(r) == seen' = [seen EXCEPT ![r] = [val |-> val'[r], time |-> time'[r],
                                          alarm |-> alarm'[r]]]

(* "check if metadata has changed", "check if count [...] or hash changed" *)
field_changed(i, u) ==
  \/ "stamp" \in DOMAIN u /\ (u.stamp # time[Entry(i).rec] \/ u.alarm # NoAlarm)
  \/ u.data # Entry(i).last

(* dbPut (external): converts the value, stores it, clears udf for the     *)
(* value field, posts events for the other fields.                         *)
PutOk(i, u) == u.data \in Puttable[Entry(i).rec][Entry(i).field]

Remember(i, u) == diodeLUT' = [diodeLUT EXCEPT ![i].last = u]

(* The meta data is assigned whether or not dbPut succeeds. *)
AssignMeta(r, u) ==
  IF "stamp" \in DOMAIN u
  THEN /\ time' = [time EXCEPT ![r] = u.stamp]
       /\ alarm' = [alarm EXCEPT ![r] = u.alarm]
  ELSE UNCHANGED <<time, alarm>>

UpdateUnchanged(i, u) ==
  /\ ~field_changed(i, u)
  /\ UNCHANGED recVars

UpdateValue(i, u) ==
  LET r == Entry(i).rec
  IN /\ Entry(i).field = None /\ field_changed(i, u) /\ PutOk(i, u)
     /\ AssignMeta(r, u)
     /\ val' = [val EXCEPT ![r] = u.data]
     /\ udf' = [udf EXCEPT ![r] = FALSE]
     /\ Posted(r)
     /\ UNCHANGED fval

UpdateField(i, u) ==
  LET e == Entry(i)
  IN /\ e.field # None /\ field_changed(i, u) /\ PutOk(i, u)
     /\ AssignMeta(e.rec, u)
     /\ fval' = [fval EXCEPT ![e.rec][e.field] = u.data]
     /\ UNCHANGED <<udf, val, seen>>

UpdateFails(i, u) ==
  /\ field_changed(i, u) /\ ~PutOk(i, u)
  /\ AssignMeta(Entry(i).rec, u)
  /\ UNCHANGED <<udf, val, fval, seen>>

(* A record that was invalidated by one of its fields, or whose value      *)
(* could not be put, is unsettled until the next new update of its own.    *)
Settle(i, u) ==
  LET r == Entry(i).rec
  IN unsettled' = IF Entry(i).field = None /\ u # told[i]
                  THEN [unsettled EXCEPT ![r] = ~PutOk(i, u)]
                  ELSE unsettled

diode_value_update(i, u) ==
  /\ Found(i)
  /\ \/ UpdateUnchanged(i, u)
     \/ UpdateValue(i, u)
     \/ UpdateField(i, u)
     \/ UpdateFails(i, u)
  /\ Remember(i, u.data)
  /\ told' = [told EXCEPT ![i] = u]
  /\ latest' = [latest EXCEPT ![Entry(i).rec] = i]
  /\ Settle(i, u)
  /\ UNCHANGED <<shellVars, named>>

(* A deviation: the value is still remembered. *)
Forget_not(i) == UNCHANGED diodeLUT
Forget(i) == Remember(i, None)   \* pvt->count = -1

(* monitor: recGblResetAlarms says whether the alarm is new, and events    *)
(* are then posted for the channel's own field.  A deviation: they are     *)
(* posted with new values only.                                            *)
NewAlarm_never(r) == FALSE
NewAlarm(r) == alarm[r] # Invalid
diode_disconnected(i) ==
  LET e == Entry(i)
      r == e.rec
  IN /\ Found(i)
     /\ udf' = [udf EXCEPT ![r] = TRUE]
     /\ alarm' = [alarm EXCEPT ![r] = Invalid]
     /\ Forget(i)
     /\ UNCHANGED <<time, val, fval>>
     /\ IF e.field = None /\ NewAlarm(r) THEN Posted(r) ELSE UNCHANGED seen
     /\ told' = [told EXCEPT ![i] = [gone |-> TRUE]]
     /\ latest' = [latest EXCEPT ![r] = i]
     /\ unsettled' = IF e.field = None THEN unsettled
                     ELSE [unsettled EXCEPT ![r] = TRUE]
     /\ UNCHANGED <<shellVars, named>>

(* dbr_type_is_TIME for records, plain types for fields. *)
Callback(i) ==
  \/ Name(i).field = None
     /\ \E d \in Data, s \in Stamp : \E a \in AlarmsAt[s] :
          diode_value_update(i, [data |-> d, stamp |-> s, alarm |-> a])
  \/ Name(i).field # None
     /\ \E d \in Data : diode_value_update(i, [data |-> d])
  \/ diode_disconnected(i)

-----------------------------------------------------------------------------
Next ==
  \/ \E next \in {"init", "idle"} : diode_iocBuild(next)
  \/ BuildFails \/ diode_iocRun \/ diode_iocPause
  \/ diode_init \/ diode_assign_record \/ RecordsDone \/ AssignField \/ FieldsDone
  \/ AllocNames \/ diode_assign
  \/ \E i \in Index : Callback(i)

Spec == Init /\ [][Next]_vars

-----------------------------------------------------------------------------
(* Tables, records and the shell's progress have their types: entries hold *)
(* a record and one of its own fields, names are written one by one.       *)
TypeOK ==
  /\ iocState \in {"void", "building", "built", "running", "paused"}
  /\ shell \in {"idle", "init", "records", "fields"}
  /\ pos \in 0 .. Len(RecordSeq) + Len(Config) + 1
  /\ named \in -1 .. Len(Config)
  /\ diodeLUT # << >> =>
       \A i \in 0 .. LutSize - 1 :
         diodeLUT[i] # None =>
           /\ diodeLUT[i].rec \in Record
           /\ diodeLUT[i].field \in Present[diodeLUT[i].rec] \cup {None}
           /\ diodeLUT[i].last \in Data \cup {None}
  /\ time \in [Record -> Stamp \cup {None}]
  /\ alarm \in [Record -> Alarm]
  /\ udf \in [Record -> BOOLEAN]
  /\ val \in [Record -> Data \cup {None}]

(* The entries that address a record's value field by its own channel. *)
RecordEntry(i) ==
  diodeLUT # << >> /\ diodeLUT[i] # None /\ diodeLUT[i].field = None
  /\ Name(i).field = None

(* A field is served by the record its channel's record is served by,      *)
(* however the two threads interleave: both are found through the table of *)
(* names the receiver task is still writing (resolve_index_n,              *)
(* diode_assign_fields).                                                   *)
FieldsWithRecord ==
  diodeLUT # << >> =>
    \A i, j \in Index :
      (/\ diodeLUT[i] # None /\ diodeLUT[i].field # None
       /\ diodeLUT[j] # None
       /\ Name(j) = [base |-> Name(i).base, field |-> None])
      => diodeLUT[i].rec = diodeLUT[j].rec

(* What the record holds is what the receiver last said of its channel:    *)
(* an update that was taken for unchanged really was in the record, also   *)
(* after disconnects in between; while the channel is gone the record is   *)
(* invalid, whatever its fields do (diode_value_update,                    *)
(* diode_disconnected).                                                    *)
RecordFollows ==
  \A i \in Index :
    LET r == diodeLUT[i].rec
        u == told[i]
    IN RecordEntry(i) =>
       /\ (u \in RecordUpdate /\ u.data \in Puttable[r][None]) =>
            /\ val[r] = u.data /\ time[r] = u.stamp
            /\ unsettled[r] \/ (alarm[r] = u.alarm /\ ~udf[r])
       /\ u \in Gone => alarm[r] = Invalid /\ udf[r]

(* CA clients that subscribed to the value see what the receiver last said *)
(* of the channel: the last update's value, time and alarm, whatever the   *)
(* fields did to the record meanwhile, and that the channel is gone        *)
(* (diode_value_update, diode_disconnected, monitor).  The second does not *)
(* hold of an unsettled record: if a field invalidated it before, or a     *)
(* failed put brought the alarm, the disconnect posts nothing              *)
(* (GoneSeen).  Nothing is said of an update that could not be put, whose  *)
(* time and alarm the record takes without an event (MetaOnlyWithPut).     *)
ClientsInformed ==
  \A i \in Index :
    LET r == diodeLUT[i].rec
        u == told[i]
    IN RecordEntry(i) =>
       /\ (u \in RecordUpdate /\ u.data \in Puttable[r][None]) =>
            seen[r] = [val |-> u.data, time |-> u.stamp, alarm |-> u.alarm]
       /\ (u \in Gone /\ val[r] # None /\ ~unsettled[r]) =>
            seen[r] = [val |-> val[r], time |-> time[r], alarm |-> Invalid]

(* design.rst: "A disconnected event is reported by setting status to      *)
(* UDF_ALARM and severity to INVALID_ALARM": whoever has seen a value sees *)
(* that its channel is gone.                                               *)
GoneSeen ==
  \A i \in Index :
    LET r == diodeLUT[i].rec
    IN (RecordEntry(i) /\ told[i] \in Gone /\ seen[r] # None) => seen[r].alarm = Invalid

(* design.rst, of an update: "{ status, severity and timestamp } fields    *)
(* are set for record channels": when diode_value_update was the last call *)
(* for a record, the record has the alarm of the update.                   *)
UpdateSetsSeverity ==
  \A i \in Index :
    LET r == diodeLUT[i].rec
    IN (RecordEntry(i) /\ latest[r] = i /\ told[i] \in RecordUpdate)
         => alarm[r] = told[i].alarm

(* devdiode.c: "assign metadata only if put was successful".               *)
MetaOnlyWithPut ==
  [][\A r \in Record :
       time'[r] # time[r] => seen'[r] # None /\ seen'[r].time = time'[r]]_vars

(* design.rst: "index is assigned based on the record name - position of   *)
(* the same channel name within a channel list".                           *)
AssignedByName ==
  (shell = "idle" /\ iocState = "running" /\ diodeLUT # << >>) =>
    \A i \in Index :
      (Name(i).field = None /\ \E k \in 1 .. Len(RecordSeq) : RecordSeq[k] = Name(i).base)
        => diodeLUT[i] # None /\ diodeLUT[i].rec = Name(i).base

(* devdiode.c: "LUT is a non-sparse block, first empty name implies end of *)
(* block": once the IOC runs, every field of a served record is served.    *)
FieldsServed ==
  (shell = "idle" /\ iocState = "running" /\ diodeLUT # << >>) =>
    \A i, j \in Index :
      (/\ Name(i).field # None /\ Name(j) = [base |-> Name(i).base, field |-> None]
       /\ diodeLUT[j] # None /\ Name(i).field \in Present[diodeLUT[j].rec])
      => diodeLUT[i] # None
=============================================================================
