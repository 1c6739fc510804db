--------------------------- MODULE DiodeIocProofs ---------------------------
(***************************************************************************)
(* Proofs about DiodeIoc, for any database, configuration, tables and      *)
(* values.                                                                 *)
(***************************************************************************)
EXTENDS DiodeIoc, NatSets

(* Where the shell is, and what it has made so far: the table is made once *)
(* and never again.                                                        *)
ShellInv ==
  /\ iocState \in {"void", "building", "built", "running", "paused"}
  /\ shell \in {"idle", "init", "records", "fields"}
  /\ named \in -1 .. Len(Config)
  /\ IF shell = "records" THEN pos \in 1 .. Len(RecordSeq) + 1 ELSE pos \in 0 .. Len(Config)
  /\ iocState = "void" => shell = "idle"
  /\ iocState = "void" \/ shell = "init" => diodeLUT = << >>
  /\ shell \in {"records", "fields"} => diodeLUT # << >>

Slot == 0 .. LutSize - 1
EntryType == {e \in [rec : Record, field : Field \cup {None}, last : Data \cup {None}] :
                e.field \in Present[e.rec] \cup {None}}

TableInv == diodeLUT # << >> => diodeLUT \in [Slot -> EntryType \cup {None}]

RecTypeInv ==
  /\ time \in [Record -> Stamp \cup {None}]
  /\ alarm \in [Record -> Alarm]
  /\ udf \in [Record -> BOOLEAN]
  /\ val \in [Record -> Data \cup {None}]
  /\ DOMAIN seen = Record
  /\ told \in [Index -> {None} \cup RecordUpdate \cup FieldUpdate \cup Gone]
  /\ unsettled \in [Record -> BOOLEAN]

TypeInv == ShellInv /\ TableInv /\ RecTypeInv

(* Entries for a value field, and entries for another field. *)
ValueEntries ==
  IF diodeLUT = << >> THEN {}
  ELSE {i \in Slot : diodeLUT[i] # None /\ diodeLUT[i].field = None}
FieldEntries ==
  IF diodeLUT = << >> THEN {}
  ELSE {i \in Slot : diodeLUT[i] # None /\ diodeLUT[i].field # None}

(* Entries for fields are where the configuration names the field. *)
FieldsPlaced ==
  \A i \in FieldEntries : i \in Index /\ Name(i).field # None /\ shell # "records"

(* A record is served by one entry, which it has got in the order of the   *)
(* database.                                                               *)
OneEntry == \A i, j \in ValueEntries : diodeLUT[i].rec = diodeLUT[j].rec => i = j
DatabaseOrder ==
  shell = "records" =>
    \A i \in ValueEntries : \E k \in 1 .. pos - 1 : diodeLUT[i].rec = RecordSeq[k]

(* Values and calls come through entries. *)
ValueThroughEntry ==
  \A r \in Record : val[r] # None => \E i \in ValueEntries : diodeLUT[i].rec = r
ToldThroughEntry ==
  \A i \in Index : told[i] # None => diodeLUT # << >> /\ diodeLUT[i] # None

EntryInv ==
  FieldsPlaced /\ OneEntry /\ DatabaseOrder /\ ValueThroughEntry /\ ToldThroughEntry

(* Entries for records, at the indices of their channels. *)
RecordEntries == {i \in ValueEntries : i \in Index /\ Name(i).field = None}

(* What such an entry remembers is what its channel was told last. *)
Remembers(i) ==
  LET e == diodeLUT[i]
      u == told[i]
  IN IF u \in RecordUpdate
     THEN /\ e.last = u.data /\ time[e.rec] = u.stamp /\ u.alarm \in AlarmsAt[u.stamp]
          /\ u.data \notin Puttable[e.rec][None] => unsettled[e.rec]
     ELSE e.last = None

(* The two properties, of one entry: of a record that is not unsettled     *)
(* clients have seen all there is.                                         *)
Follows(i) ==
  LET r == diodeLUT[i].rec
      u == told[i]
  IN /\ (u \in RecordUpdate /\ u.data \in Puttable[r][None]) =>
          /\ val[r] = u.data /\ time[r] = u.stamp
          /\ unsettled[r] \/ (alarm[r] = u.alarm /\ ~udf[r])
     /\ u \in Gone => alarm[r] = Invalid /\ udf[r]
Informed(i) ==
  LET r == diodeLUT[i].rec
      u == told[i]
  IN /\ (u \in RecordUpdate /\ u.data \in Puttable[r][None]) =>
          seen[r] = [val |-> u.data, time |-> u.stamp, alarm |-> u.alarm]
     /\ (~unsettled[r] /\ val[r] # None) =>
          seen[r] = [val |-> val[r], time |-> time[r], alarm |-> alarm[r]]

ClientInv == \A i \in RecordEntries : Remembers(i) /\ Follows(i) /\ Informed(i)

(* A field's entry was found through that of its record. *)
FieldInv ==
  \A i \in FieldEntries :
    \A j \in Index : Name(j) = [base |-> Name(i).base, field |-> None] =>
      diodeLUT[j] # None /\ diodeLUT[i].rec = diodeLUT[j].rec

(* The table has room for every name of the configuration. *)
LEMMA TableSizes ==
  /\ Len(Config) \in Nat /\ Len(Config) > 0 /\ Len(Config) <= LutSize /\ LutSize \in Nat
  /\ Index \subseteq Slot /\ Slot # {}
  /\ \A i \in Index : Name(i) \in [base : Record, field : Field \cup {None}]
  <1> DEFINE Names == [base : Record, field : Field \cup {None}]
  <1>1. Config \in Seq(Names) /\ Config # << >> /\ Len(Config) <= LutSize /\ LutSize \in Nat
    BY ConfigAssumption, ValueAssumption
  <1> HIDE DEF Names
  <1>2. Len(Config) \in Nat /\ Len(Config) > 0
    BY <1>1
  <1>3. \A i \in Index : Name(i) \in Names
    BY <1>1, <1>2 DEF Index, Name
  <1>4. Index \subseteq Slot /\ 0 \in Slot
    BY <1>1, <1>2 DEF Index, Slot
  <1> QED BY <1>1, <1>2, <1>3, <1>4 DEF Names

(* resolve_index_n finds the first of the names that match. *)
LEMMA ResolvedFirst ==
  ASSUME NEW S, S \subseteq Nat, S # {}
  PROVE  Resolved(S) \in S /\ \A k \in S : Resolved(S) <= k
  <1>1. \E m \in S : \A k \in S : m <= k
    BY LeastElement
  <1> QED BY <1>1, Zenon DEF Resolved, Min

(* diode_assign_entry fills an empty slot, or leaves the table. *)
LEMMA AssignChanges ==
  ASSUME TableInv, diodeLUT # << >>, NEW id \in Nat, NEW r \in Record,
         NEW f \in Present[r] \cup {None}, diode_assign_entry(id, r, f)
  PROVE  /\ diodeLUT' \in [Slot -> EntryType \cup {None}] /\ diodeLUT' # << >>
         /\ \A k \in Slot :
              diodeLUT'[k] = IF k = id /\ diodeLUT[k] = None
                             THEN [rec |-> r, field |-> f, last |-> None] ELSE diodeLUT[k]
  <1> DEFINE new == [rec |-> r, field |-> f, last |-> None]
  <1>1. new \in EntryType
    BY RecordAssumption DEF EntryType
  <1>2. diodeLUT \in [Slot -> EntryType \cup {None}]
    BY DEF TableInv
  <1> HIDE DEF new
  <1>3. CASE id < LutSize /\ diodeLUT[id] = None
    <2>1. diodeLUT' = [diodeLUT EXCEPT ![id] = new] /\ id \in Slot
      BY <1>3, TableSizes DEF diode_assign_entry, new, Slot
    <2>2. diodeLUT' \in [Slot -> EntryType \cup {None}]
      BY <1>1, <1>2, <2>1
    <2>3. \A k \in Slot : diodeLUT'[k] = IF k = id /\ diodeLUT[k] = None THEN new ELSE diodeLUT[k]
      BY <1>2, <1>3, <2>1
    <2>4. diodeLUT' # << >>
      BY <2>2, TableSizes
    <2> QED BY <2>2, <2>3, <2>4 DEF new
  <1>4. CASE ~(id < LutSize /\ diodeLUT[id] = None)
    <2>1. diodeLUT' = diodeLUT
      BY <1>4 DEF diode_assign_entry
    <2>2. \A k \in Slot : ~(k = id /\ diodeLUT[k] = None)
      BY <1>4, TableSizes DEF Slot
    <2> QED BY <1>2, <2>1, <2>2
  <1> QED BY <1>3, <1>4

(* A record's name is looked up in the table of names, and the entry is    *)
(* somewhere.                                                              *)
LEMMA RecordChanges ==
  ASSUME TypeInv, diode_assign_record
  PROVE  \E id \in Nat :
           /\ diodeLUT # << >> /\ diodeLUT' # << >>
           /\ diodeLUT' \in [Slot -> EntryType \cup {None}]
           /\ pos \in 1 .. Len(RecordSeq) /\ RecordSeq[pos] \in Record
           /\ \A k \in Slot :
                diodeLUT'[k] =
                  IF k = id /\ diodeLUT[k] = None
                  THEN [rec |-> RecordSeq[pos], field |-> None, last |-> None]
                  ELSE diodeLUT[k]
  <1>1. /\ diodeLUT # << >> /\ pos \in 1 .. Len(RecordSeq)
        /\ diodeLUT \in [Slot -> EntryType \cup {None}]
    BY DEF TypeInv, ShellInv, TableInv, diode_assign_record
  <1> DEFINE r == RecordSeq[pos]
             S == resolve_index(r)
  <1>2. r \in Record
    BY <1>1, RecordAssumption
  <1>3. CASE Cix[r] = None
    <2>1. diodeLUT' = diodeLUT
      BY <1>3 DEF diode_assign_record
    <2>2. LutSize \notin Slot /\ LutSize \in Nat
      BY TableSizes DEF Slot
    <2> QED BY <1>1, <1>2, <2>1, <2>2
  <1>4. CASE Cix[r] # None
    <2> DEFINE id == IF S = {} THEN Cix[r] ELSE Resolved(S)
    <2>1. diode_assign_entry(id, r, None)
      BY <1>4 DEF diode_assign_record
    <2>2. S \subseteq Nat
      BY DEF resolve_index, Named
    <2>3. id \in Nat
      <3>1. CASE S = {}
        BY <1>2, <1>4, <3>1, RecordAssumption
      <3>2. CASE S # {}
        <4> HIDE DEF S
        <4> QED BY <2>2, <3>2, ResolvedFirst
      <3> QED BY <3>1, <3>2
    <2> HIDE DEF id, r
    <2> QED BY <1>1, <1>2, <2>1, <2>3, AssignChanges DEF TypeInv, r
  <1> QED BY <1>3, <1>4

(* A field goes to its own index, on the record that is found for it.      *)
FieldSlot(n) == Resolved(resolve_index_n(n.base))

(* The scan of names stops at the first match, at the latest at the        *)
(* field itself.                                                           *)
LEMMA FieldSlotFirst ==
  ASSUME TypeInv, shell = "fields", pos < named
  PROVE  /\ pos \in Index /\ FieldSlot(Name(pos)) \in Index
         /\ FieldSlot(Name(pos)) \in resolve_index_n(Name(pos).base)
         /\ \A k \in resolve_index_n(Name(pos).base) : FieldSlot(Name(pos)) <= k
  <1>1. pos \in Named /\ Named \subseteq Index /\ Index \subseteq Nat
    BY TableSizes DEF TypeInv, ShellInv, Named, Index
  <1>2. Name(pos).base \in Record
    BY <1>1, TableSizes
  <1>3. pos \in resolve_index_n(Name(pos).base)
    BY <1>1, <1>2, RecordAssumption DEF resolve_index_n
  <1>4. resolve_index_n(Name(pos).base) \subseteq Named
    BY DEF resolve_index_n
  <1> QED BY <1>1, <1>3, <1>4, ResolvedFirst DEF FieldSlot

(* A field's entry goes to the field's own index, on a record that has     *)
(* the field.                                                              *)
LEMMA FieldChanges ==
  ASSUME TypeInv, AssignField
  PROVE  LET e == diodeLUT[FieldSlot(Name(pos))]
         IN /\ diodeLUT # << >> /\ diodeLUT' # << >>
            /\ diodeLUT' \in [Slot -> EntryType \cup {None}]
            /\ \A k \in Slot :
                 \/ diodeLUT'[k] = diodeLUT[k]
                 \/ /\ k = pos /\ diodeLUT[k] = None
                    /\ Name(pos).field # None /\ e # None
                    /\ diodeLUT'[k] = [rec |-> e.rec, field |-> Name(pos).field, last |-> None]
  <1> DEFINE n == Name(pos)
             e == diodeLUT[FieldSlot(n)]
  <1>1. /\ diodeLUT # << >> /\ shell = "fields" /\ pos < named
        /\ diodeLUT \in [Slot -> EntryType \cup {None}]
    BY DEF TypeInv, ShellInv, TableInv, AssignField
  <1>2. pos \in Index /\ pos \in Slot /\ FieldSlot(n) \in Slot
    BY <1>1, FieldSlotFirst, TableSizes
  <1>3. CASE n.field # None /\ e # None /\ HasField(e.rec, n.field)
    <2>1. diode_assign_entry(pos, e.rec, n.field)
      BY <1>3 DEF AssignField, FieldSlot
    <2>2. e \in EntryType /\ e.rec \in Record /\ n.field \in Present[e.rec] /\ pos \in Nat
      BY <1>1, <1>2, <1>3, TableSizes DEF EntryType, HasField, Slot
    <2> HIDE DEF e, n
    <2>3. /\ diodeLUT' \in [Slot -> EntryType \cup {None}] /\ diodeLUT' # << >>
          /\ \A k \in Slot :
               diodeLUT'[k] = IF k = pos /\ diodeLUT[k] = None
                              THEN [rec |-> e.rec, field |-> n.field, last |-> None]
                              ELSE diodeLUT[k]
      BY <1>1, <2>1, <2>2, AssignChanges DEF TypeInv
    <2> QED BY <1>1, <1>3, <2>3 DEF e, n
  <1>4. CASE ~(n.field # None /\ e # None /\ HasField(e.rec, n.field))
    <2>1. diodeLUT' = diodeLUT
      BY <1>4 DEF AssignField, FieldSlot
    <2> QED BY <1>1, <2>1
  <1> QED BY <1>3, <1>4

(* What a call remembers is the entry's own, and leaves its address. *)
LEMMA RememberChanges ==
  ASSUME TableInv, NEW i \in Slot, diodeLUT # << >>, diodeLUT[i] # None,
         NEW x \in Data \cup {None}, Remember(i, x)
  PROVE  /\ diodeLUT' \in [Slot -> EntryType \cup {None}] /\ diodeLUT' # << >>
         /\ \A k \in Slot : k # i => diodeLUT'[k] = diodeLUT[k]
         /\ diodeLUT'[i] # None /\ diodeLUT'[i].rec = diodeLUT[i].rec
         /\ diodeLUT'[i].field = diodeLUT[i].field /\ diodeLUT'[i].last = x
  <1> DEFINE e == diodeLUT[i]
             new == [e EXCEPT !.last = x]
  <1>1. diodeLUT \in [Slot -> EntryType \cup {None}] /\ e \in EntryType
    BY DEF TableInv
  <1>2. new \in EntryType /\ new.rec = e.rec /\ new.field = e.field /\ new.last = x
    BY <1>1 DEF EntryType
  <1>3. new # None
    BY <1>2, ValueAssumption DEF EntryType
  <1>4. diodeLUT' = [diodeLUT EXCEPT ![i] = new]
    BY DEF Remember
  <1> HIDE DEF new, e
  <1>5. /\ diodeLUT' \in [Slot -> EntryType \cup {None}] /\ diodeLUT'[i] = new
        /\ \A k \in Slot : k # i => diodeLUT'[k] = diodeLUT[k]
    BY <1>1, <1>2, <1>4
  <1>6. diodeLUT' # << >>
    BY <1>5, TableSizes
  <1> QED BY <1>2, <1>3, <1>5, <1>6 DEF e

(* The callback with an update: of the kind that the channel's name says.  *)
UpdateFor(i, u) ==
  IF Name(i).field = None THEN u \in RecordUpdate /\ u.alarm \in AlarmsAt[u.stamp]
  ELSE u \in FieldUpdate

(* A callback is an update or a disconnect. *)
LEMMA CallbackCases ==
  ASSUME NEW i \in Index, Callback(i)
  PROVE  \/ \E u : UpdateFor(i, u) /\ diode_value_update(i, u)
         \/ diode_disconnected(i)
  <1>1. CASE Name(i).field = None /\ ~diode_disconnected(i)
    <2>1. PICK d \in Data, s \in Stamp : \E a \in AlarmsAt[s] :
            diode_value_update(i, [data |-> d, stamp |-> s, alarm |-> a])
      BY <1>1 DEF Callback
    <2>2. PICK a \in AlarmsAt[s] :
            diode_value_update(i, [data |-> d, stamp |-> s, alarm |-> a])
      BY <2>1
    <2>3. a \in Alarm
      BY DEF Alarm
    <2>4. UpdateFor(i, [data |-> d, stamp |-> s, alarm |-> a])
      BY <1>1, <2>3 DEF UpdateFor, RecordUpdate
    <2> QED BY <2>2, <2>4
  <1>2. CASE Name(i).field # None /\ ~diode_disconnected(i)
    <2>1. PICK d \in Data : diode_value_update(i, [data |-> d])
      BY <1>2 DEF Callback
    <2>2. UpdateFor(i, [data |-> d])
      BY <1>2 DEF UpdateFor, FieldUpdate
    <2> QED BY <2>1, <2>2
  <1> QED BY <1>1, <1>2

(* The three kinds of news are told apart by their fields. *)
LEMMA UpdateKinds ==
  /\ \A u \in RecordUpdate : /\ "stamp" \in DOMAIN u /\ u.data \in Data /\ u.stamp \in Stamp
                             /\ u.alarm \in Alarm /\ u \notin FieldUpdate /\ u \notin Gone
  /\ \A u \in FieldUpdate : /\ "stamp" \notin DOMAIN u /\ u.data \in Data
                            /\ u \notin RecordUpdate /\ u \notin Gone
  /\ \A u \in Gone : u \notin RecordUpdate
  /\ [gone |-> TRUE] \in Gone
  /\ None \notin RecordUpdate /\ None \notin Gone /\ None \notin Data
  <1>1. \A u \in RecordUpdate : DOMAIN u = {"data", "stamp", "alarm"}
    BY DEF RecordUpdate
  <1>2. \A u \in FieldUpdate : DOMAIN u = {"data"}
    BY DEF FieldUpdate
  <1>3. \A u \in Gone : DOMAIN u = {"gone"}
    BY DEF Gone
  <1>4. \A u \in RecordUpdate : u.data \in Data /\ u.stamp \in Stamp /\ u.alarm \in Alarm
    BY DEF RecordUpdate
  <1>5. \A u \in FieldUpdate : u.data \in Data
    BY DEF FieldUpdate
  <1>6. [gone |-> TRUE] \in Gone
    BY DEF Gone
  <1> QED BY <1>1, <1>2, <1>3, <1>4, <1>5, <1>6, ValueAssumption

(* What depends on constants only does not change. *)
LEMMA ConstantSets ==
  /\ Index' = Index /\ Slot' = Slot /\ EntryType' = EntryType /\ Alarm' = Alarm
  /\ RecordUpdate' = RecordUpdate /\ FieldUpdate' = FieldUpdate /\ Gone' = Gone
  BY DEF Index, Slot, EntryType, Alarm, RecordUpdate, FieldUpdate, Gone

(* An update changes the record its entry addresses, and no other. *)
LEMMA UpdateChanges ==
  ASSUME TypeInv, NEW i \in Index, NEW u, UpdateFor(i, u), diode_value_update(i, u)
  PROVE  LET e == diodeLUT[i]
         IN /\ diodeLUT # << >> /\ i \in Slot /\ e # None /\ e \in EntryType
            /\ e.rec \in Record /\ u.data \in Data
            /\ UNCHANGED shellVars /\ named' = named
            /\ told'[i] = u /\ \A k \in Index : k # i => told'[k] = told[k]
            /\ \A q \in Record : q # e.rec =>
                 /\ time'[q] = time[q] /\ alarm'[q] = alarm[q] /\ udf'[q] = udf[q]
                 /\ val'[q] = val[q] /\ seen'[q] = seen[q] /\ unsettled'[q] = unsettled[q]
            /\ RecTypeInv'
  <1> DEFINE e == diodeLUT[i]
             r == e.rec
  <1>1. /\ diodeLUT # << >> /\ i \in Slot /\ e # None /\ e \in EntryType /\ r \in Record
    BY TableSizes DEF diode_value_update, Found, TypeInv, TableInv, EntryType
  <1>2. u \in RecordUpdate \cup FieldUpdate /\ u.data \in Data
    BY UpdateKinds DEF UpdateFor
  <1>3. UNCHANGED shellVars /\ named' = named /\ told' = [told EXCEPT ![i] = u]
    BY DEF diode_value_update
  <1>4. told' \in [Index -> {None} \cup RecordUpdate \cup FieldUpdate \cup Gone]
    BY <1>2, <1>3 DEF TypeInv, RecTypeInv
  <1>5. told'[i] = u /\ \A k \in Index : k # i => told'[k] = told[k]
    BY <1>3 DEF TypeInv, RecTypeInv
  <1>6. /\ time' \in [Record -> Stamp \cup {None}] /\ alarm' \in [Record -> Alarm]
        /\ \A q \in Record : q # r => time'[q] = time[q] /\ alarm'[q] = alarm[q]
    <2>1. (time' = time /\ alarm' = alarm) \/ AssignMeta(r, u)
      BY DEF diode_value_update, UpdateUnchanged, UpdateValue, UpdateField, UpdateFails,
             Entry, recVars
    <2>2. CASE time' = time /\ alarm' = alarm
      BY <2>2 DEF TypeInv, RecTypeInv
    <2>3. CASE AssignMeta(r, u)
      <3>1. CASE "stamp" \in DOMAIN u
        <4>1. u.stamp \in Stamp /\ u.alarm \in Alarm
          BY <1>2, <3>1, UpdateKinds
        <4> HIDE DEF r
        <4> QED BY <1>1, <2>3, <3>1, <4>1 DEF AssignMeta, TypeInv, RecTypeInv
      <3>2. CASE "stamp" \notin DOMAIN u
        BY <2>3, <3>2 DEF AssignMeta, TypeInv, RecTypeInv
      <3> QED BY <3>1, <3>2
    <2> QED BY <2>1, <2>2, <2>3
  <1>7. /\ udf' \in [Record -> BOOLEAN] /\ val' \in [Record -> Data \cup {None}]
        /\ DOMAIN seen' = Record
        /\ \A q \in Record : q # r =>
             udf'[q] = udf[q] /\ val'[q] = val[q] /\ seen'[q] = seen[q]
    <2>1. CASE UpdateValue(i, u)
      <3>1. /\ val' = [val EXCEPT ![r] = u.data]
            /\ udf' = [udf EXCEPT ![r] = FALSE] /\ Posted(r)
        BY <2>1 DEF UpdateValue, Entry
      <3> HIDE DEF r
      <3> QED BY <1>1, <1>2, <3>1 DEF Posted, TypeInv, RecTypeInv
    <2>2. CASE UNCHANGED <<udf, val, seen>>
      BY <2>2 DEF TypeInv, RecTypeInv
    <2> QED
      BY <2>1, <2>2 DEF diode_value_update, UpdateUnchanged, UpdateField, UpdateFails, recVars
  <1>8. unsettled' \in [Record -> BOOLEAN] /\ \A q \in Record : q # r => unsettled'[q] = unsettled[q]
    <2>1. \/ unsettled' = unsettled
          \/ unsettled' = [unsettled EXCEPT ![r] = ~PutOk(i, u)]
      BY DEF diode_value_update, Settle, Entry
    <2>2. (~PutOk(i, u)) \in BOOLEAN
      OBVIOUS
    <2>3. unsettled \in [Record -> BOOLEAN]
      BY DEF TypeInv, RecTypeInv
    <2> HIDE DEF r
    <2>4. unsettled' \in [Record -> BOOLEAN]
      BY <2>1, <2>2, <2>3, Zenon
    <2>5. \A q \in Record : q # r => unsettled'[q] = unsettled[q]
      BY <2>1, <2>3
    <2> QED BY <2>4, <2>5
  <1>9. RecTypeInv'
    BY <1>4, <1>6, <1>7, <1>8, ConstantSets DEF RecTypeInv
  <1> QED BY <1>1, <1>2, <1>3, <1>5, <1>6, <1>7, <1>8, <1>9

(* So does a disconnect. *)
LEMMA DisconnectChanges ==
  ASSUME TypeInv, NEW i \in Index, diode_disconnected(i)
  PROVE  LET e == diodeLUT[i]
         IN /\ diodeLUT # << >> /\ i \in Slot /\ e # None /\ e \in EntryType
            /\ e.rec \in Record
            /\ UNCHANGED <<time, val>>
            /\ UNCHANGED shellVars /\ named' = named /\ Remember(i, None)
            /\ told'[i] \in Gone /\ \A k \in Index : k # i => told'[k] = told[k]
            /\ alarm'[e.rec] = Invalid /\ udf'[e.rec] = TRUE
            /\ e.field # None => unsettled'[e.rec] = TRUE
            /\ \A q \in Record : q # e.rec =>
                 /\ alarm'[q] = alarm[q] /\ udf'[q] = udf[q]
                 /\ seen'[q] = seen[q] /\ unsettled'[q] = unsettled[q]
            /\ RecTypeInv'
  <1> DEFINE e == diodeLUT[i]
             r == e.rec
  <1>1. /\ diodeLUT # << >> /\ i \in Slot /\ e # None /\ e \in EntryType /\ r \in Record
    BY TableSizes DEF diode_disconnected, Found, TypeInv, TableInv, EntryType
  <1>2. /\ UNCHANGED <<time, val>> /\ UNCHANGED shellVars /\ named' = named
        /\ Remember(i, None) /\ told' = [told EXCEPT ![i] = [gone |-> TRUE]]
        /\ udf' = [udf EXCEPT ![r] = TRUE] /\ alarm' = [alarm EXCEPT ![r] = Invalid]
        /\ Posted(r) \/ seen' = seen
        /\ unsettled' = IF e.field = None THEN unsettled ELSE [unsettled EXCEPT ![r] = TRUE]
    BY DEF diode_disconnected, Entry, Forget
  <1>3. Invalid \in Alarm /\ [gone |-> TRUE] \in Gone
    <2>1. Invalid \in Alarm
      BY DEF Alarm
    <2> QED BY <2>1, UpdateKinds
  <1>4. /\ told' \in [Index -> {None} \cup RecordUpdate \cup FieldUpdate \cup Gone]
        /\ told'[i] \in Gone /\ \A k \in Index : k # i => told'[k] = told[k]
    BY <1>2, <1>3 DEF TypeInv, RecTypeInv
  <1> HIDE DEF r
  <1>5. /\ udf' \in [Record -> BOOLEAN] /\ alarm' \in [Record -> Alarm]
        /\ DOMAIN seen' = Record /\ alarm'[r] = Invalid /\ udf'[r] = TRUE
        /\ \A q \in Record : q # r =>
             alarm'[q] = alarm[q] /\ udf'[q] = udf[q] /\ seen'[q] = seen[q]
    BY <1>1, <1>2, <1>3 DEF Posted, TypeInv, RecTypeInv
  <1>6. /\ unsettled' \in [Record -> BOOLEAN]
        /\ e.field # None => unsettled'[r] = TRUE
        /\ \A q \in Record : q # r => unsettled'[q] = unsettled[q]
    BY <1>1, <1>2 DEF TypeInv, RecTypeInv
  <1>7. RecTypeInv'
    BY <1>2, <1>4, <1>5, <1>6, ConstantSets DEF TypeInv, RecTypeInv
  <1> QED BY <1>1, <1>2, <1>4, <1>5, <1>6, <1>7 DEF r

(* A callback, whatever it says: it finds its entry and keeps its address. *)
LEMMA CallbackTypes ==
  ASSUME TypeInv, NEW i \in Index, Callback(i)
  PROVE  /\ diodeLUT # << >> /\ diodeLUT' # << >> /\ i \in Slot
         /\ diodeLUT' \in [Slot -> EntryType \cup {None}]
         /\ diodeLUT[i] # None /\ diodeLUT'[i] # None
         /\ diodeLUT'[i].rec = diodeLUT[i].rec /\ diodeLUT'[i].field = diodeLUT[i].field
         /\ \A k \in Slot : k # i => diodeLUT'[k] = diodeLUT[k]
         /\ \A k \in Index : k # i => told'[k] = told[k]
         /\ UNCHANGED shellVars /\ named' = named
         /\ \A q \in Record :
              val'[q] = val[q] \/ (q = diodeLUT[i].rec /\ diodeLUT[i].field = None)
         /\ RecTypeInv'
  <1>1. CASE \E u : UpdateFor(i, u) /\ diode_value_update(i, u)
    <2>1. PICK u : UpdateFor(i, u) /\ diode_value_update(i, u)
      BY <1>1
    <2>2. Remember(i, u.data)
      BY <2>1 DEF diode_value_update
    <2>3. diodeLUT[i].field = None \/ val' = val
      BY <2>1 DEF diode_value_update, UpdateUnchanged, UpdateValue, UpdateField, UpdateFails,
                  Entry, recVars
    <2> QED BY <2>1, <2>2, <2>3, UpdateChanges, RememberChanges DEF TypeInv
  <1>2. CASE diode_disconnected(i)
    BY <1>2, DisconnectChanges, RememberChanges DEF TypeInv
  <1> QED BY <1>1, <1>2, CallbackCases

(* The steps that leave the tables, and those that fill diodeLUT. *)
Elsewhere == UNCHANGED <<diodeLUT, recVars, histVars>>
Assigns == diode_assign_record \/ AssignField

(* Every step is of one of these kinds. *)
LEMMA StepCases ==
  ASSUME [Next]_vars
  PROVE  \/ Elsewhere /\ shell' # "records"
         \/ Elsewhere /\ UNCHANGED <<shell, pos>>
         \/ diode_init \/ Assigns
         \/ \E i \in Index : Callback(i)
  BY DEF Next, Elsewhere, Assigns, vars, shellVars, diode_iocBuild, BuildFails, diode_iocRun,
         diode_iocPause, RecordsDone, FieldsDone, AllocNames, diode_assign, NoRecords

(* Initially there is no table, and no record has a value. *)
LEMMA InitTypes == Init => TypeInv
  <1> SUFFICES ASSUME Init PROVE TypeInv
    OBVIOUS
  <1>1. ShellInv
    BY TableSizes DEF Init, ShellInv
  <1>2. TableInv
    BY DEF Init, TableInv
  <1>3. RecTypeInv
    <2>1. Invalid \in Alarm
      BY DEF Alarm
    <2> QED BY <2>1 DEF Init, RecTypeInv
  <1> QED BY <1>1, <1>2, <1>3 DEF TypeInv

(* The shell's steps come in their order, and the receiver task's names    *)
(* one by one.                                                             *)
LEMMA ShellStep == ASSUME TypeInv, [Next]_vars PROVE ShellInv'
  <1>0. /\ ShellInv /\ TableInv /\ Len(Config) \in Nat /\ Len(Config) > 0
        /\ Len(RecordSeq) \in Nat
    BY TableSizes, RecordAssumption DEF TypeInv
  <1>1. CASE \E i \in Index : Callback(i)
    BY <1>0, <1>1, CallbackTypes DEF ShellInv, shellVars
  <1>2. CASE diode_assign_record
    <2>1. diodeLUT' # << >>
      BY <1>2, RecordChanges
    <2>2. UNCHANGED <<iocState, shell, named>> /\ pos' = pos + 1 /\ pos <= Len(RecordSeq)
          /\ shell = "records"
      BY <1>2 DEF diode_assign_record, NoRecords
    <2> QED BY <1>0, <2>1, <2>2 DEF ShellInv
  <1>3. CASE AssignField
    <2>1. diodeLUT' # << >>
      BY <1>3, FieldChanges
    <2>2. UNCHANGED <<iocState, shell, named>> /\ pos' = pos + 1 /\ pos < named
          /\ shell = "fields"
      BY <1>3 DEF AssignField, NoRecords
    <2> QED BY <1>0, <2>1, <2>2 DEF ShellInv
  <1>4. CASE diode_init
    <2>1. diodeLUT' # << >>
      <3>1. DOMAIN diodeLUT' = Slot
        BY <1>4 DEF diode_init, Slot
      <3> QED BY <3>1, TableSizes
    <2> QED BY <1>0, <1>4, <2>1 DEF ShellInv, diode_init, NoRecords
  <1>5. CASE RecordsDone \/ FieldsDone
    BY <1>0, <1>5 DEF ShellInv, RecordsDone, FieldsDone, NoRecords
  <1>6. CASE AllocNames \/ diode_assign
    <2>1. UNCHANGED <<iocState, shell, pos, diodeLUT>> /\ named' \in -1 .. Len(Config)
      BY <1>0, <1>6 DEF ShellInv, AllocNames, diode_assign, shellVars, Index
    <2> QED BY <1>0, <2>1 DEF ShellInv
  <1>7. CASE (\E next \in {"init", "idle"} : diode_iocBuild(next)) \/ BuildFails
             \/ diode_iocRun \/ diode_iocPause
    BY <1>0, <1>7 DEF ShellInv, diode_iocBuild, BuildFails, diode_iocRun, diode_iocPause,
                      NoRecords
  <1>8. CASE UNCHANGED vars
    BY <1>0, <1>8 DEF ShellInv, vars, shellVars
  <1> QED BY <1>1, <1>2, <1>3, <1>4, <1>5, <1>6, <1>7, <1>8 DEF Next

(* Entries and records keep their types. *)
LEMMA TypeStep == ASSUME TypeInv, [Next]_vars PROVE TypeInv'
  <1>1. CASE Elsewhere
    <2>1. TableInv'
      BY <1>1, ConstantSets DEF Elsewhere, TypeInv, TableInv
    <2>2. RecTypeInv'
      BY <1>1, ConstantSets DEF Elsewhere, TypeInv, RecTypeInv, recVars, histVars
    <2> QED BY <2>1, <2>2, ShellStep DEF TypeInv
  <1>2. CASE diode_init \/ Assigns
    <2>1. UNCHANGED <<recVars, histVars>>
      BY <1>2 DEF diode_init, Assigns, diode_assign_record, AssignField, NoRecords
    <2>2. RecTypeInv'
      BY <2>1, ConstantSets DEF TypeInv, RecTypeInv, recVars, histVars
    <2>3. diodeLUT' \in [Slot -> EntryType \cup {None}]
      <3>1. CASE diode_init
        BY <3>1 DEF diode_init, Slot
      <3>2. CASE Assigns
        BY <3>2, RecordChanges, FieldChanges DEF Assigns
      <3> QED BY <1>2, <3>1, <3>2
    <2> QED BY <2>2, <2>3, ShellStep, ConstantSets DEF TypeInv, TableInv
  <1>3. ASSUME NEW i \in Index, Callback(i) PROVE TypeInv'
    BY <1>3, CallbackTypes, ShellStep, ConstantSets DEF TypeInv, TableInv
  <1> QED BY <1>1, <1>2, <1>3, StepCases

(* An assignment adds at most one entry, for a record or for a field.      *)
LEMMA AssignsOne ==
  ASSUME TypeInv, Assigns
  PROVE  /\ diodeLUT # << >> /\ diodeLUT' # << >>
         /\ UNCHANGED <<shell, val, told>>
         /\ \A k \in Slot : diodeLUT[k] # None => diodeLUT'[k] = diodeLUT[k]
         /\ \A k \in Slot : (diodeLUT[k] = None /\ diodeLUT'[k] # None) =>
              \/ /\ diode_assign_record /\ shell = "records"
                 /\ diodeLUT'[k].field = None /\ diodeLUT'[k].rec = RecordSeq[pos]
                 /\ \A j \in Slot : j # k => diodeLUT'[j] = diodeLUT[j]
              \/ /\ AssignField /\ shell = "fields"
                 /\ k = pos /\ pos \in Index /\ Name(pos).field # None
                 /\ diodeLUT'[k].field # None
                 /\ diodeLUT[FieldSlot(Name(pos))] # None
                 /\ diodeLUT'[k].rec = diodeLUT[FieldSlot(Name(pos))].rec
                 /\ \A j \in Slot : j # k => diodeLUT'[j] = diodeLUT[j]
  <1>1. UNCHANGED <<shell, val, told>>
    BY DEF Assigns, diode_assign_record, AssignField, NoRecords, recVars, histVars
  <1>2. CASE diode_assign_record
    <2>1. shell = "records"
      BY <1>2 DEF diode_assign_record
    <2>2. PICK id \in Nat :
           /\ diodeLUT # << >> /\ diodeLUT' # << >>
           /\ \A k \in Slot :
                diodeLUT'[k] =
                  IF k = id /\ diodeLUT[k] = None
                  THEN [rec |-> RecordSeq[pos], field |-> None, last |-> None]
                  ELSE diodeLUT[k]
      BY <1>2, RecordChanges
    <2> QED BY <1>1, <1>2, <2>1, <2>2
  <1>3. CASE AssignField
    <2>1. shell = "fields" /\ pos \in Index
      BY <1>3, FieldSlotFirst DEF AssignField
    <2>2. /\ diodeLUT # << >> /\ diodeLUT' # << >>
          /\ \A k \in Slot :
               \/ diodeLUT'[k] = diodeLUT[k]
               \/ /\ k = pos /\ diodeLUT[k] = None
                  /\ Name(pos).field # None /\ diodeLUT[FieldSlot(Name(pos))] # None
                  /\ diodeLUT'[k] = [rec |-> diodeLUT[FieldSlot(Name(pos))].rec,
                                     field |-> Name(pos).field, last |-> None]
      BY <1>3, FieldChanges
    <2> QED BY <1>1, <1>3, <2>1, <2>2
  <1> QED BY <1>2, <1>3 DEF Assigns

(* No entry, no call: before there is a table. *)
LEMMA NothingBefore ==
  ASSUME TypeInv, EntryInv, diode_init
  PROVE  /\ diodeLUT = << >> /\ UNCHANGED <<val, told>>
         /\ \A r \in Record : val[r] = None
         /\ \A i \in Index : told[i] = None
         /\ \A k \in Slot : diodeLUT'[k] = None
  <1>1. diodeLUT = << >> /\ UNCHANGED <<val, told>>
    BY DEF diode_init, TypeInv, ShellInv, NoRecords, recVars, histVars
  <1>2. \A k \in Slot : diodeLUT'[k] = None
    BY DEF diode_init, Slot
  <1> QED
    BY <1>1, <1>2 DEF EntryInv, ValueThroughEntry, ToldThroughEntry, ValueEntries

(* Entries keep their addresses, and are as many as records and fields. *)
LEMMA EntryStep == ASSUME TypeInv, EntryInv, [Next]_vars PROVE EntryInv'
  <1>0. FieldsPlaced /\ OneEntry /\ DatabaseOrder /\ ValueThroughEntry /\ ToldThroughEntry
    BY DEF EntryInv
  <1>1. CASE Elsewhere /\ (shell' # "records" \/ UNCHANGED <<shell, pos>>)
    <2>1. /\ ValueEntries' = ValueEntries /\ FieldEntries' = FieldEntries
          /\ diodeLUT' = diodeLUT /\ val' = val /\ told' = told
      BY <1>1, ConstantSets DEF Elsewhere, ValueEntries, FieldEntries, recVars, histVars
    <2>2. FieldsPlaced'
      BY <1>0, <1>1, <2>1, ConstantSets DEF FieldsPlaced, Name
    <2>3. OneEntry' /\ ValueThroughEntry' /\ ToldThroughEntry'
      BY <1>0, <2>1, ConstantSets DEF OneEntry, ValueThroughEntry, ToldThroughEntry
    <2>4. DatabaseOrder'
      BY <1>0, <1>1, <2>1 DEF DatabaseOrder
    <2> QED BY <2>2, <2>3, <2>4 DEF EntryInv
  <1>2. CASE diode_init
    <2>1. ValueEntries' = {} /\ FieldEntries' = {}
      BY <1>2, NothingBefore, ConstantSets DEF ValueEntries, FieldEntries
    <2> QED
      BY <1>2, <2>1, NothingBefore, ConstantSets
      DEF EntryInv, FieldsPlaced, OneEntry, DatabaseOrder, ValueThroughEntry, ToldThroughEntry
  <1>3. CASE Assigns
    <2>1. diodeLUT # << >> /\ diodeLUT' # << >> /\ UNCHANGED <<shell, val, told>>
      BY <1>3, AssignsOne
    <2>2. pos' = pos + 1 /\ pos \in Nat /\ (shell = "records" => pos \in 1 .. Len(RecordSeq))
      BY <1>3, TableSizes, RecordAssumption
      DEF Assigns, diode_assign_record, AssignField, TypeInv, ShellInv
    <2>3. ToldThroughEntry'
      BY <1>0, <1>3, <2>1, AssignsOne, ConstantSets, TableSizes DEF ToldThroughEntry
    <2>4. CASE \A k \in Slot : diodeLUT'[k] = diodeLUT[k]
      <3>1. /\ ValueEntries' = ValueEntries /\ FieldEntries' = FieldEntries
            /\ \A i \in ValueEntries : diodeLUT'[i] = diodeLUT[i]
        BY <2>1, <2>4, ConstantSets DEF ValueEntries, FieldEntries
      <3>2. FieldsPlaced' /\ OneEntry'
        BY <1>0, <2>1, <3>1, ConstantSets DEF FieldsPlaced, OneEntry, Name
      <3>3. DatabaseOrder'
        BY <1>0, <2>1, <2>2, <3>1 DEF DatabaseOrder
      <3>4. ValueThroughEntry'
        BY <1>0, <2>1, <3>1 DEF ValueThroughEntry
      <3> QED BY <2>3, <3>2, <3>3, <3>4 DEF EntryInv
    <2>5. ASSUME NEW k \in Slot, diodeLUT[k] = None, diodeLUT'[k] # None PROVE EntryInv'
      <3>1. CASE /\ shell = "records"
                 /\ diodeLUT'[k].field = None /\ diodeLUT'[k].rec = RecordSeq[pos]
                 /\ \A j \in Slot : j # k => diodeLUT'[j] = diodeLUT[j]
        <4>1. /\ ValueEntries' = ValueEntries \cup {k} /\ k \notin ValueEntries
              /\ FieldEntries' = FieldEntries
              /\ \A i \in ValueEntries : diodeLUT'[i] = diodeLUT[i]
          BY <2>1, <2>5, <3>1, ConstantSets DEF ValueEntries, FieldEntries
        <4>2. FieldsPlaced'
          BY <1>0, <2>1, <4>1, ConstantSets DEF FieldsPlaced, Name
        <4>3. \A i \in ValueEntries : \E j \in 1 .. pos - 1 : diodeLUT[i].rec = RecordSeq[j]
          BY <1>0, <3>1 DEF DatabaseOrder
        <4>4. \A j \in 1 .. pos - 1 : RecordSeq[j] # RecordSeq[pos]
          BY <2>2, <3>1, RecordAssumption
        <4>5. OneEntry'
          BY <1>0, <3>1, <4>1, <4>3, <4>4 DEF OneEntry
        <4>6. DatabaseOrder'
          BY <2>1, <2>2, <3>1, <4>1, <4>3 DEF DatabaseOrder
        <4>7. ValueThroughEntry'
          BY <1>0, <2>1, <4>1 DEF ValueThroughEntry
        <4> QED BY <2>3, <4>2, <4>5, <4>6, <4>7 DEF EntryInv
      <3>2. CASE /\ shell = "fields" /\ k \in Index /\ Name(k).field # None
                 /\ diodeLUT'[k].field # None
                 /\ \A j \in Slot : j # k => diodeLUT'[j] = diodeLUT[j]
        <4>1. /\ ValueEntries' = ValueEntries /\ FieldEntries' = FieldEntries \cup {k}
              /\ \A i \in ValueEntries : diodeLUT'[i] = diodeLUT[i]
          BY <2>1, <2>5, <3>2, ConstantSets DEF ValueEntries, FieldEntries
        <4>2. FieldsPlaced'
          BY <1>0, <2>1, <3>2, <4>1, ConstantSets DEF FieldsPlaced, Name
        <4>3. OneEntry' /\ DatabaseOrder'
          BY <1>0, <2>1, <3>2, <4>1 DEF OneEntry, DatabaseOrder
        <4>4. ValueThroughEntry'
          BY <1>0, <2>1, <4>1 DEF ValueThroughEntry
        <4> QED BY <2>3, <4>2, <4>3, <4>4 DEF EntryInv
      <3> QED BY <1>3, <2>5, <3>1, <3>2, AssignsOne
    <2>6. \A k \in Slot : diodeLUT'[k] = diodeLUT[k] \/ (diodeLUT[k] = None /\ diodeLUT'[k] # None)
      BY <1>3, AssignsOne
    <2> QED BY <2>4, <2>5, <2>6
  <1>4. ASSUME NEW i \in Index, Callback(i) PROVE EntryInv'
    <2>1. /\ diodeLUT # << >> /\ diodeLUT' # << >> /\ i \in Slot
          /\ diodeLUT[i] # None /\ diodeLUT'[i] # None
          /\ diodeLUT'[i].rec = diodeLUT[i].rec /\ diodeLUT'[i].field = diodeLUT[i].field
          /\ \A k \in Slot : k # i => diodeLUT'[k] = diodeLUT[k]
          /\ \A k \in Index : k # i => told'[k] = told[k]
          /\ shell' = shell /\ pos' = pos
          /\ \A q \in Record :
               val'[q] = val[q] \/ (q = diodeLUT[i].rec /\ diodeLUT[i].field = None)
      BY <1>4, CallbackTypes DEF shellVars
    <2>2. /\ ValueEntries' = ValueEntries /\ FieldEntries' = FieldEntries
          /\ \A k \in Slot : diodeLUT'[k].rec = diodeLUT[k].rec
          /\ ValueEntries \subseteq Slot
      BY <2>1, ConstantSets DEF ValueEntries, FieldEntries
    <2>3. FieldsPlaced'
      BY <1>0, <2>1, <2>2, ConstantSets DEF FieldsPlaced, Name
    <2>4. OneEntry' /\ DatabaseOrder'
      BY <1>0, <2>1, <2>2 DEF OneEntry, DatabaseOrder
    <2>5. ValueThroughEntry'
      <3>1. diodeLUT[i].field = None => i \in ValueEntries
        BY <2>1 DEF ValueEntries
      <3> QED BY <1>0, <2>1, <2>2, <3>1 DEF ValueThroughEntry
    <2>6. ToldThroughEntry'
      <3>1. Index \subseteq Slot
        BY TableSizes
      <3> QED BY <1>0, <2>1, <3>1, ConstantSets DEF ToldThroughEntry
    <2> QED BY <2>3, <2>4, <2>5, <2>6 DEF EntryInv
  <1> QED BY <1>1, <1>2, <1>3, <1>4, StepCases

(* Hypothesis of the two theorems on records: a time stamp comes with one  *)
(* alarm.  Where it may come with two, field_changed misses the return to  *)
(* no alarm (DiodeIoc_engine with ManyAlarms = TRUE).                      *)
StampTellsAlarm == \A s \in Stamp : \A a, b \in AlarmsAt[s] : a = b

(* Another entry of the same record is for a field: its updates leave what *)
(* the record's own channel has set, and its disconnects unsettle it.      *)
LEMMA OtherCall ==
  ASSUME TypeInv, EntryInv, NEW i \in RecordEntries, NEW k \in Index, k # i, Callback(k)
  PROVE  LET r == diodeLUT[i].rec
         IN /\ r \in Record
            /\ diodeLUT'[i] = diodeLUT[i] /\ told'[i] = told[i]
            /\ val'[r] = val[r] /\ time'[r] = time[r] /\ seen'[r] = seen[r]
            /\ \/ /\ alarm'[r] = alarm[r] /\ udf'[r] = udf[r]
                  /\ unsettled'[r] = unsettled[r]
               \/ alarm'[r] = Invalid /\ udf'[r] = TRUE /\ unsettled'[r] = TRUE
  <1> DEFINE r == diodeLUT[i].rec
             e == diodeLUT[k]
  <1>1. /\ diodeLUT # << >> /\ i \in Slot /\ i \in Index /\ diodeLUT[i] # None /\ diodeLUT[i].field = None
    BY DEF RecordEntries, ValueEntries
  <1>2. r \in Record
    BY <1>1 DEF TypeInv, TableInv, EntryType
  <1>3. /\ diodeLUT'[i] = diodeLUT[i] /\ told'[i] = told[i] /\ k \in Slot /\ e # None
    BY <1>1, CallbackTypes
  <1>4. e.rec = r => k \in FieldEntries /\ e.field # None
    <2>1. CASE e.field = None
      <3>1. k \in ValueEntries /\ i \in ValueEntries
        BY <1>1, <1>3, <2>1 DEF ValueEntries
      <3> QED BY <3>1 DEF EntryInv, OneEntry
    <2>2. CASE e.field # None
      BY <1>1, <1>3, <2>2 DEF FieldEntries
    <2> QED BY <2>1, <2>2
  <1>5. ASSUME NEW u, UpdateFor(k, u), diode_value_update(k, u)
        PROVE  /\ val'[r] = val[r] /\ time'[r] = time[r] /\ seen'[r] = seen[r]
               /\ alarm'[r] = alarm[r] /\ udf'[r] = udf[r]
               /\ unsettled'[r] = unsettled[r]
    <2>1. CASE e.rec # r
      <3> HIDE DEF r
      <3> QED BY <1>2, <1>5, <2>1, UpdateChanges
    <2>2. CASE e.rec = r
      <3>1. e.field # None /\ "stamp" \notin DOMAIN u
        BY <1>4, <1>5, <2>2, UpdateKinds DEF UpdateFor, EntryInv, FieldsPlaced
      <3>2. UNCHANGED <<time, alarm>>
        BY <1>5, <3>1 DEF diode_value_update, UpdateUnchanged, UpdateValue, UpdateField,
                          UpdateFails, AssignMeta, Entry, recVars
      <3>3. UNCHANGED <<val, seen, udf>>
        BY <1>5, <3>1 DEF diode_value_update, UpdateUnchanged, UpdateValue, UpdateField,
                          UpdateFails, Entry, recVars
      <3>4. unsettled' = unsettled
        BY <1>5, <3>1 DEF diode_value_update, Settle, Entry
      <3> QED BY <3>2, <3>3, <3>4
    <2> QED BY <2>1, <2>2
  <1>6. ASSUME diode_disconnected(k)
        PROVE  /\ val'[r] = val[r] /\ time'[r] = time[r] /\ seen'[r] = seen[r]
               /\ \/ /\ alarm'[r] = alarm[r] /\ udf'[r] = udf[r]
                     /\ unsettled'[r] = unsettled[r]
                  \/ alarm'[r] = Invalid /\ udf'[r] = TRUE /\ unsettled'[r] = TRUE
    <2>1. CASE e.rec # r
      <3> HIDE DEF r
      <3> QED BY <1>2, <1>6, <2>1, DisconnectChanges
    <2>2. CASE e.rec = r
      <3>1. e.field # None
        BY <1>4, <2>2
      <3>2. seen' = seen
        BY <1>6, <3>1 DEF diode_disconnected, Entry
      <3>3. /\ UNCHANGED <<time, val>> /\ alarm'[e.rec] = Invalid /\ udf'[e.rec] = TRUE
            /\ unsettled'[e.rec] = TRUE
        BY <1>6, <3>1, DisconnectChanges
      <3> QED BY <2>2, <3>2, <3>3
    <2> QED BY <2>1, <2>2
  <1> QED BY <1>2, <1>3, <1>5, <1>6, CallbackCases

(* The record's own channel.  An update is taken for unchanged only when   *)
(* it is what the channel was told last, and then the record is as that    *)
(* call left it.                                                           *)
LEMMA OwnUpdate ==
  ASSUME TypeInv, StampTellsAlarm, NEW i \in RecordEntries, Remembers(i),
         NEW u, UpdateFor(i, u), diode_value_update(i, u)
  PROVE  LET r == diodeLUT[i].rec
         IN /\ r \in Record
            /\ told'[i] = u /\ u \in RecordUpdate /\ u.alarm \in AlarmsAt[u.stamp]
            /\ diodeLUT'[i].last = u.data /\ diodeLUT'[i].rec = r
            /\ time'[r] = u.stamp
            /\ \/ /\ u = told[i] /\ UNCHANGED <<recVars, unsettled>>
               \/ /\ u.data \in Puttable[r][None]
                  /\ val'[r] = u.data /\ alarm'[r] = u.alarm /\ ~udf'[r]
                  /\ seen'[r] = [val |-> u.data, time |-> u.stamp, alarm |-> u.alarm]
               \/ u.data \notin Puttable[r][None] /\ unsettled'[r] = TRUE
  <1> DEFINE e == diodeLUT[i]
             r == e.rec
  <1>1. /\ diodeLUT # << >> /\ i \in Slot /\ i \in Index /\ e # None /\ e.field = None
        /\ Name(i).field = None
    BY DEF RecordEntries, ValueEntries
  <1>2. r \in Record /\ told'[i] = u
    BY <1>1, UpdateChanges
  <1>3. u \in RecordUpdate /\ u.alarm \in AlarmsAt[u.stamp] /\ u.stamp \in Stamp /\ u.data \in Data
        /\ "stamp" \in DOMAIN u /\ u.alarm \in Alarm
    BY <1>1, UpdateKinds DEF UpdateFor
  <1>4. Remember(i, u.data)
    BY DEF diode_value_update
  <1>5. diodeLUT'[i].last = u.data /\ diodeLUT'[i].rec = r
    BY <1>1, <1>3, <1>4, RememberChanges DEF TypeInv
  <1>6. /\ time \in [Record -> Stamp \cup {None}] /\ alarm \in [Record -> Alarm]
        /\ val \in [Record -> Data \cup {None}] /\ udf \in [Record -> BOOLEAN]
        /\ DOMAIN seen = Record /\ unsettled \in [Record -> BOOLEAN]
    BY DEF TypeInv, RecTypeInv
  <1>7. unsettled' = IF u # told[i] THEN [unsettled EXCEPT ![r] = ~PutOk(i, u)] ELSE unsettled
    BY <1>1 DEF diode_value_update, Settle, Entry
  <1>8. PutOk(i, u) <=> u.data \in Puttable[r][None]
    BY <1>1 DEF PutOk, Entry
  <1>9. CASE UpdateUnchanged(i, u)
    <2>1. /\ u.stamp = time[r] /\ u.alarm = NoAlarm /\ u.data = e.last /\ UNCHANGED recVars
      BY <1>3, <1>9 DEF UpdateUnchanged, field_changed, Entry
    <2>2. e.last # None
      BY <1>3, <2>1, UpdateKinds
    <2>3. told[i] \in RecordUpdate
      BY <2>2 DEF Remembers
    <2>4. told[i].data = u.data /\ told[i].stamp = u.stamp /\ told[i].alarm \in AlarmsAt[u.stamp]
      BY <2>1, <2>3 DEF Remembers
    <2>5. told[i].alarm = u.alarm
      BY <1>3, <2>4 DEF StampTellsAlarm
    <2>6. told[i] = u
      BY <1>3, <2>3, <2>4, <2>5 DEF RecordUpdate
    <2>7. time' = time
      BY <2>1 DEF recVars
    <2> QED BY <1>2, <1>3, <1>5, <1>7, <2>1, <2>6, <2>7
  <1>10. CASE UpdateValue(i, u)
    <2>1. /\ time' = [time EXCEPT ![r] = u.stamp] /\ alarm' = [alarm EXCEPT ![r] = u.alarm]
          /\ val' = [val EXCEPT ![r] = u.data] /\ udf' = [udf EXCEPT ![r] = FALSE]
          /\ seen' = [seen EXCEPT ![r] = [val |-> val'[r], time |-> time'[r], alarm |-> alarm'[r]]]
          /\ PutOk(i, u)
      BY <1>3, <1>10 DEF UpdateValue, AssignMeta, Posted, Entry
    <2> HIDE DEF r
    <2>2. time'[r] = u.stamp /\ alarm'[r] = u.alarm /\ val'[r] = u.data /\ ~udf'[r]
      BY <1>2, <1>6, <2>1
    <2>3. seen'[r] = [val |-> u.data, time |-> u.stamp, alarm |-> u.alarm]
      BY <1>2, <1>6, <2>1, <2>2
    <2> QED BY <1>2, <1>3, <1>5, <1>8, <2>1, <2>2, <2>3 DEF r
  <1>11. CASE UpdateFails(i, u)
    <2>1. time' = [time EXCEPT ![r] = u.stamp] /\ ~PutOk(i, u)
      BY <1>3, <1>11 DEF UpdateFails, AssignMeta, Entry
    <2>2. u = told[i] => unsettled[r]
      BY <1>3, <1>8, <2>1 DEF Remembers
    <2>3. unsettled'[r] = TRUE
      <3> HIDE DEF r
      <3>1. CASE u = told[i]
        BY <1>2, <1>6, <1>7, <2>2, <3>1
      <3>2. CASE u # told[i]
        BY <1>2, <1>6, <1>7, <2>1, <3>2
      <3> QED BY <3>1, <3>2
    <2>4. time'[r] = u.stamp
      BY <1>2, <1>6, <2>1
    <2> QED BY <1>2, <1>3, <1>5, <1>8, <2>1, <2>3, <2>4
  <1>12. ~UpdateField(i, u)
    BY <1>1 DEF UpdateField, Entry
  <1> QED BY <1>9, <1>10, <1>11, <1>12 DEF diode_value_update

(* The record's own disconnect: events tell of it unless it was known. *)
LEMMA OwnDisconnect ==
  ASSUME TypeInv, NEW i \in RecordEntries, diode_disconnected(i)
  PROVE  LET r == diodeLUT[i].rec
         IN /\ told'[i] \in Gone /\ diodeLUT'[i].last = None /\ diodeLUT'[i].rec = r
            /\ UNCHANGED <<time, val, unsettled>>
            /\ alarm'[r] = Invalid /\ udf'[r] = TRUE
            /\ \/ seen'[r] = [val |-> val[r], time |-> time[r], alarm |-> Invalid]
               \/ alarm[r] = Invalid /\ seen' = seen
  <1> DEFINE e == diodeLUT[i]
             r == e.rec
  <1>1. /\ diodeLUT # << >> /\ i \in Slot /\ i \in Index /\ e # None /\ e.field = None
    BY DEF RecordEntries, ValueEntries
  <1>2. /\ r \in Record /\ told'[i] \in Gone /\ Remember(i, None) /\ UNCHANGED <<time, val>>
        /\ alarm'[r] = Invalid /\ udf'[r] = TRUE
    BY <1>1, DisconnectChanges
  <1>3. diodeLUT'[i].last = None /\ diodeLUT'[i].rec = r
    BY <1>1, <1>2, RememberChanges DEF TypeInv
  <1>4. unsettled' = unsettled
    BY <1>1 DEF diode_disconnected, Entry
  <1>5. CASE NewAlarm(r)
    <2>1. seen' = [seen EXCEPT ![r] = [val |-> val'[r], time |-> time'[r], alarm |-> alarm'[r]]]
      BY <1>1, <1>5 DEF diode_disconnected, Entry, Posted
    <2>2. DOMAIN seen = Record
      BY DEF TypeInv, RecTypeInv
    <2> HIDE DEF r
    <2>3. seen'[r] = [val |-> val[r], time |-> time[r], alarm |-> Invalid]
      BY <1>2, <2>1, <2>2
    <2> QED BY <1>2, <1>3, <1>4, <2>3 DEF r
  <1>6. CASE ~NewAlarm(r)
    <2>1. alarm[r] = Invalid /\ seen' = seen
      BY <1>1, <1>6 DEF diode_disconnected, Entry, NewAlarm
    <2> QED BY <1>2, <1>3, <1>4, <2>1
  <1> QED BY <1>5, <1>6

(* A record whose entry is new has not been told anything, and nobody set  *)
(* its value.                                                              *)
LEMMA NewEntry ==
  ASSUME TypeInv, EntryInv, TypeInv', EntryInv', Assigns,
         NEW i \in RecordEntries', i \notin RecordEntries
  PROVE  (Remembers(i) /\ Follows(i) /\ Informed(i))'
  <1>1. /\ UNCHANGED <<recVars, histVars>>
        /\ diodeLUT # << >> /\ diodeLUT' # << >>
    BY AssignsOne DEF Assigns, diode_assign_record, AssignField, NoRecords
  <1>2. /\ i \in Index /\ i \in Slot /\ i \in ValueEntries' /\ Name(i).field = None
        /\ diodeLUT'[i] # None /\ diodeLUT'[i].field = None
    BY ConstantSets DEF RecordEntries, ValueEntries, Name
  <1>3. diodeLUT[i] = None
    BY <1>1, <1>2, AssignsOne DEF RecordEntries, ValueEntries
  <1>4. told'[i] = None
    BY <1>1, <1>2, <1>3 DEF EntryInv, ToldThroughEntry, histVars
  <1>5. told'[i] \notin RecordUpdate /\ told'[i] \notin Gone
    BY <1>4, UpdateKinds
  <1>6. diodeLUT'[i].last = None
    <2>1. diode_assign_record
      BY <1>2, <1>3, AssignsOne
    <2> QED BY <1>2, <1>3, <2>1, RecordChanges
  <1>7. diodeLUT'[i].rec \in Record
    BY <1>1, <1>2, ConstantSets DEF TypeInv, TableInv, EntryType
  <1>8. val'[diodeLUT'[i].rec] = None
    <2>1. val' = val
      BY <1>1 DEF recVars
    <2>2. SUFFICES ASSUME val[diodeLUT'[i].rec] # None PROVE FALSE
      BY <2>1
    <2>3. PICK k \in ValueEntries : diodeLUT[k].rec = diodeLUT'[i].rec
      BY <1>7, <2>2 DEF EntryInv, ValueThroughEntry
    <2>4. k \in Slot /\ diodeLUT[k] # None /\ diodeLUT[k].field = None
      BY DEF ValueEntries
    <2>5. diodeLUT'[k] = diodeLUT[k] /\ k \in ValueEntries' /\ k # i
      BY <1>1, <1>3, <2>4, AssignsOne, ConstantSets DEF ValueEntries
    <2> QED BY <1>2, <2>3, <2>5 DEF EntryInv, OneEntry
  <1> QED BY <1>5, <1>6, <1>8, ConstantSets DEF Remembers, Follows, Informed

(* Every call keeps the three, for every entry for a record. *)
LEMMA CallStep ==
  ASSUME TypeInv, EntryInv, StampTellsAlarm, ClientInv, NEW i \in RecordEntries,
         NEW k \in Index, Callback(k)
  PROVE  (Remembers(i) /\ Follows(i) /\ Informed(i))'
  <1>1. Remembers(i) /\ Follows(i) /\ Informed(i)
    BY DEF ClientInv
  <1>2. CASE k # i
    <2>1. LET r == diodeLUT[i].rec
          IN /\ r \in Record
             /\ diodeLUT'[i] = diodeLUT[i] /\ told'[i] = told[i]
             /\ val'[r] = val[r] /\ time'[r] = time[r] /\ seen'[r] = seen[r]
             /\ \/ /\ alarm'[r] = alarm[r] /\ udf'[r] = udf[r]
                   /\ unsettled'[r] = unsettled[r]
                \/ alarm'[r] = Invalid /\ udf'[r] = TRUE /\ unsettled'[r] = TRUE
      BY <1>2, OtherCall
    <2>2. Remembers(i)'
      BY <1>1, <2>1, ConstantSets DEF Remembers
    <2>3. Follows(i)'
      BY <1>1, <2>1, ConstantSets DEF Follows
    <2>4. Informed(i)'
      BY <1>1, <2>1, ConstantSets DEF Informed
    <2> QED BY <2>2, <2>3, <2>4
  <1>3. ASSUME k = i, NEW u, UpdateFor(i, u), diode_value_update(i, u)
        PROVE  (Remembers(i) /\ Follows(i) /\ Informed(i))'
    <2>1. LET r == diodeLUT[i].rec
          IN /\ r \in Record
             /\ told'[i] = u /\ u \in RecordUpdate /\ u.alarm \in AlarmsAt[u.stamp]
             /\ diodeLUT'[i].last = u.data /\ diodeLUT'[i].rec = r
             /\ time'[r] = u.stamp
             /\ \/ /\ u = told[i] /\ UNCHANGED <<recVars, unsettled>>
                \/ /\ u.data \in Puttable[r][None]
                   /\ val'[r] = u.data /\ alarm'[r] = u.alarm /\ ~udf'[r]
                   /\ seen'[r] = [val |-> u.data, time |-> u.stamp, alarm |-> u.alarm]
                \/ u.data \notin Puttable[r][None] /\ unsettled'[r] = TRUE
      BY <1>1, <1>3, OwnUpdate
    <2>2. u \notin Gone
      BY <2>1, UpdateKinds
    <2>3. Remembers(i)'
      BY <1>1, <2>1, ConstantSets DEF Remembers
    <2>4. Follows(i)'
      BY <1>1, <2>1, <2>2, ConstantSets DEF Follows, recVars
    <2>5. Informed(i)'
      BY <1>1, <2>1, ConstantSets DEF Informed, recVars
    <2> QED BY <2>3, <2>4, <2>5
  <1>4. ASSUME k = i, diode_disconnected(i)
        PROVE  (Remembers(i) /\ Follows(i) /\ Informed(i))'
    <2>1. LET r == diodeLUT[i].rec
          IN /\ told'[i] \in Gone /\ diodeLUT'[i].last = None /\ diodeLUT'[i].rec = r
             /\ UNCHANGED <<time, val, unsettled>>
             /\ alarm'[r] = Invalid /\ udf'[r] = TRUE
             /\ \/ seen'[r] = [val |-> val[r], time |-> time[r], alarm |-> Invalid]
                \/ alarm[r] = Invalid /\ seen' = seen
      BY <1>4, OwnDisconnect
    <2>2. told'[i] \notin RecordUpdate
      BY <2>1, UpdateKinds
    <2> QED BY <1>1, <2>1, <2>2, ConstantSets DEF Remembers, Follows, Informed
  <1> QED BY <1>2, <1>3, <1>4, CallbackCases

(* The invariant about records and clients is kept by every step. *)
LEMMA ClientStep ==
  ASSUME TypeInv, EntryInv, StampTellsAlarm, ClientInv, [Next]_vars
  PROVE  ClientInv'
  <1>1. TypeInv' /\ EntryInv'
    BY TypeStep, EntryStep
  <1> SUFFICES ASSUME NEW i \in RecordEntries'
               PROVE  (Remembers(i) /\ Follows(i) /\ Informed(i))'
    BY DEF ClientInv
  <1>2. CASE Elsewhere
    <2>1. i \in RecordEntries
      BY <1>2, ConstantSets DEF Elsewhere, RecordEntries, ValueEntries, Name
    <2>2. Remembers(i) /\ Follows(i) /\ Informed(i)
      BY <2>1 DEF ClientInv
    <2> QED
      BY <1>2, <2>2, ConstantSets
      DEF Remembers, Follows, Informed, Elsewhere, recVars, histVars
  <1>3. ~diode_init
    <2>1. ASSUME diode_init PROVE FALSE
      BY <2>1, NothingBefore, ConstantSets DEF RecordEntries, ValueEntries
    <2> QED BY <2>1
  <1>4. CASE Assigns
    <2>1. CASE i \notin RecordEntries
      BY <1>1, <1>4, <2>1, NewEntry
    <2>2. CASE i \in RecordEntries
      <3>1. Remembers(i) /\ Follows(i) /\ Informed(i)
        BY <2>2 DEF ClientInv
      <3>2. i \in Slot /\ diodeLUT[i] # None
        BY <2>2 DEF RecordEntries, ValueEntries
      <3>3. diodeLUT'[i] = diodeLUT[i] /\ UNCHANGED <<recVars, histVars>>
        BY <1>4, <3>2, AssignsOne DEF Assigns, diode_assign_record, AssignField, NoRecords
      <3> QED
        BY <3>1, <3>3, ConstantSets DEF Remembers, Follows, Informed, recVars, histVars
    <2> QED BY <2>1, <2>2
  <1>5. ASSUME NEW k \in Index, Callback(k)
        PROVE  (Remembers(i) /\ Follows(i) /\ Informed(i))'
    <2>1. /\ diodeLUT # << >> /\ diodeLUT' # << >> /\ k \in Slot
          /\ diodeLUT[k] # None /\ diodeLUT'[k] # None
          /\ diodeLUT'[k].field = diodeLUT[k].field
          /\ \A j \in Slot : j # k => diodeLUT'[j] = diodeLUT[j]
      BY <1>5, CallbackTypes
    <2>2. i \in RecordEntries
      BY <2>1, ConstantSets DEF RecordEntries, ValueEntries, Name
    <2> QED BY <1>5, <2>2, CallStep
  <1> QED BY <1>2, <1>3, <1>4, <1>5, StepCases

(* Hypothesis of the theorem on fields: no name before a record's own      *)
(* begins with it.  Without it a field goes to a record with a longer name *)
(* (DiodeIoc_engine with LongFirst and CixLong).                           *)
ConfigOrdered ==
  \A j, k \in Index : (Name(j).field = None /\ k < j) => Name(k).base \notin Begins[Name(j).base]

(* resolve_index_n then finds the record itself, even in a table that the  *)
(* receiver task is still writing.                                         *)
LEMMA SlotOfRecord ==
  ASSUME TypeInv, ConfigOrdered, shell = "fields", pos < named,
         NEW j \in Index, Name(j) = [base |-> Name(pos).base, field |-> None]
  PROVE  FieldSlot(Name(pos)) = j
  <1> DEFINE at == FieldSlot(Name(pos))
             S == resolve_index_n(Name(pos).base)
  <1>1. /\ pos \in Index /\ at \in Index /\ at \in S /\ \A k \in S : at <= k
        /\ Index \subseteq Int /\ named \in Int
    BY FieldSlotFirst, TableSizes DEF TypeInv, ShellInv, Index
  <1>2. Name(j).base = Name(pos).base /\ Name(j).field = None
    OBVIOUS
  <1>3. Name(at).base \in Begins[Name(j).base]
    BY <1>1, <1>2 DEF resolve_index_n
  <1>4. Name(pos).base \in Begins[Name(j).base]
    BY <1>1, <1>2, TableSizes, RecordAssumption
  <1> HIDE DEF at
  <1>5. ~(at < j) /\ ~(pos < j)
    BY <1>1, <1>2, <1>3, <1>4 DEF ConfigOrdered
  <1>6. j \in S
    BY <1>1, <1>2, <1>4, <1>5 DEF resolve_index_n, Named, Index
  <1> QED BY <1>1, <1>5, <1>6 DEF at

(* A field's entry keeps the record it was found through. *)
LEMMA FieldStep ==
  ASSUME TypeInv, EntryInv, ConfigOrdered, FieldInv, [Next]_vars
  PROVE  FieldInv'
  <1> SUFFICES ASSUME NEW i \in FieldEntries', NEW j \in Index,
                      Name(j) = [base |-> Name(i).base, field |-> None]
               PROVE  diodeLUT'[j] # None /\ diodeLUT'[i].rec = diodeLUT'[j].rec
    BY ConstantSets DEF FieldInv, Name
  <1>0. j \in Slot
    BY TableSizes
  <1>1. i \in FieldEntries => diodeLUT[j] # None /\ diodeLUT[i].rec = diodeLUT[j].rec
    BY DEF FieldInv
  <1>2. CASE Elsewhere
    BY <1>1, <1>2, ConstantSets DEF Elsewhere, FieldEntries
  <1>3. ~diode_init
    <2>1. ASSUME diode_init PROVE FALSE
      BY <2>1, NothingBefore, ConstantSets DEF FieldEntries
    <2> QED BY <2>1
  <1>4. CASE Assigns
    <2>1. /\ i \in Slot /\ diodeLUT'[i] # None /\ diodeLUT'[i].field # None /\ diodeLUT' # << >>
          /\ diodeLUT # << >>
      BY <1>4, AssignsOne, ConstantSets DEF FieldEntries
    <2>2. CASE diodeLUT[i] # None
      <3>1. diodeLUT'[i] = diodeLUT[i] /\ i \in FieldEntries
        BY <1>4, <2>1, <2>2, AssignsOne DEF FieldEntries
      <3>2. diodeLUT[j] # None /\ diodeLUT'[j] = diodeLUT[j]
        BY <1>0, <1>1, <1>4, <3>1, AssignsOne
      <3> QED BY <1>1, <3>1, <3>2
    <2>3. CASE diodeLUT[i] = None
      <3>1. /\ AssignField /\ shell = "fields" /\ i = pos
            /\ diodeLUT[FieldSlot(Name(pos))] # None
            /\ diodeLUT'[i].rec = diodeLUT[FieldSlot(Name(pos))].rec
        BY <1>4, <2>1, <2>3, AssignsOne
      <3>2. FieldSlot(Name(pos)) = j
        BY <3>1, SlotOfRecord DEF AssignField
      <3>3. diodeLUT'[j] = diodeLUT[j]
        BY <1>0, <1>4, <3>1, <3>2, AssignsOne
      <3> QED BY <3>1, <3>2, <3>3
    <2> QED BY <2>2, <2>3
  <1>5. ASSUME NEW k \in Index, Callback(k)
        PROVE  diodeLUT'[j] # None /\ diodeLUT'[i].rec = diodeLUT'[j].rec
    <2>1. /\ diodeLUT # << >> /\ diodeLUT' # << >> /\ k \in Slot
          /\ diodeLUT[k] # None /\ diodeLUT'[k] # None
          /\ diodeLUT'[k].rec = diodeLUT[k].rec /\ diodeLUT'[k].field = diodeLUT[k].field
          /\ \A q \in Slot : q # k => diodeLUT'[q] = diodeLUT[q]
      BY <1>5, CallbackTypes
    <2>2. i \in FieldEntries /\ diodeLUT'[i].rec = diodeLUT[i].rec
      BY <2>1, ConstantSets DEF FieldEntries
    <2> QED BY <1>0, <1>1, <2>1, <2>2
  <1> QED BY <1>2, <1>3, <1>4, <1>5, StepCases

(* Initially there is no table. *)
LEMMA InitEntries == Init => EntryInv /\ ClientInv /\ FieldInv
  <1> SUFFICES ASSUME Init PROVE EntryInv /\ ClientInv /\ FieldInv
    OBVIOUS
  <1>1. ValueEntries = {} /\ FieldEntries = {} /\ RecordEntries = {}
    BY DEF Init, ValueEntries, FieldEntries, RecordEntries
  <1>2. (\A r \in Record : val[r] = None) /\ (\A i \in Index : told[i] = None)
    BY DEF Init
  <1> QED
    BY <1>1, <1>2 DEF EntryInv, FieldsPlaced, OneEntry, DatabaseOrder, ValueThroughEntry,
                      ToldThroughEntry, ClientInv, FieldInv

(* The tables that the shell and the receiver task share without a lock    *)
(* have their types throughout: an entry holds a record and a field of it, *)
(* or its value field.                                                     *)
THEOREM IocTypeOK == Spec => []TypeOK
  <1>1. TypeInv => TypeOK
    <2> SUFFICES ASSUME TypeInv PROVE TypeOK
      OBVIOUS
    <2>1. /\ Len(RecordSeq) \in Nat /\ Len(Config) \in Nat
      BY TableSizes, RecordAssumption
    <2>2. pos \in 0 .. Len(RecordSeq) + Len(Config) + 1
      BY <2>1 DEF TypeInv, ShellInv
    <2>3. ASSUME diodeLUT # << >>, NEW i \in 0 .. LutSize - 1, diodeLUT[i] # None
          PROVE  /\ diodeLUT[i].rec \in Record
                 /\ diodeLUT[i].field \in Present[diodeLUT[i].rec] \cup {None}
                 /\ diodeLUT[i].last \in Data \cup {None}
      BY <2>3 DEF TypeInv, TableInv, Slot, EntryType
    <2> QED BY <2>2, <2>3 DEF TypeInv, ShellInv, RecTypeInv, TypeOK
  <1>2. TypeInv /\ [Next]_vars => TypeInv'
    BY TypeStep
  <1> QED BY <1>1, <1>2, InitTypes, PTL DEF Spec

(* Fields are served by the record their channel's record is served by,    *)
(* whatever the receiver task has written of the names when                *)
(* diode_assign_fields looks.                                              *)
THEOREM IocFieldsWithRecord ==
  ASSUME ConfigOrdered
  PROVE  Spec => []FieldsWithRecord
  <1>1. FieldInv => FieldsWithRecord
    BY TableSizes DEF FieldInv, FieldsWithRecord, FieldEntries
  <1>2. TypeInv /\ EntryInv /\ FieldInv /\ [Next]_vars => (TypeInv /\ EntryInv /\ FieldInv)'
    BY TypeStep, EntryStep, FieldStep
  <1> QED BY <1>1, <1>2, InitTypes, InitEntries, PTL DEF Spec

(* The entries of which the properties speak. *)
LEMMA RecordEntryIn == \A i \in Index : RecordEntry(i) => i \in RecordEntries
  BY TableSizes DEF RecordEntry, RecordEntries, ValueEntries

(* The invariant about records and clients always holds. *)
LEMMA ClientAlways ==
  ASSUME StampTellsAlarm
  PROVE  Spec => []ClientInv
  <1>1. TypeInv /\ EntryInv /\ ClientInv /\ [Next]_vars => (TypeInv /\ EntryInv /\ ClientInv)'
    BY TypeStep, EntryStep, ClientStep
  <1> QED BY <1>1, InitTypes, InitEntries, PTL DEF Spec

(* What a record holds is what the receiver last said of its channel,      *)
(* through updates taken for unchanged, updates that cannot be put,        *)
(* disconnects, and whatever comes for its fields.                         *)
THEOREM IocRecordFollows ==
  ASSUME StampTellsAlarm
  PROVE  Spec => []RecordFollows
  <1>1. ClientInv => RecordFollows
    BY RecordEntryIn DEF ClientInv, Follows, RecordFollows
  <1> QED BY <1>1, ClientAlways, PTL

(* Clients that subscribed to the value see the last update of its         *)
(* channel, whatever became of the record since, and see that the channel  *)
(* is gone unless a field invalidated the record first (GoneSeen is what   *)
(* the code does not have), for any table of channels, records and fields. *)
THEOREM IocClientsInformed ==
  ASSUME StampTellsAlarm
  PROVE  Spec => []ClientsInformed
  <1>1. ClientInv => ClientsInformed
    BY RecordEntryIn DEF ClientInv, Informed, Follows, ClientsInformed
  <1> QED BY <1>1, ClientAlways, PTL
=============================================================================
