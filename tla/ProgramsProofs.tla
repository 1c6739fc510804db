--------------------------- MODULE ProgramsProofs ---------------------------
(***************************************************************************)
(* Proofs about Programs, for any names, fields and numbers in the files,  *)
(* files of any length, tables of any size, destinations and datagrams of  *)
(* any number, and any rate.                                               *)
(***************************************************************************)
EXTENDS Programs, TLAPS, Integers, NatSets, SequenceTheorems

(* The keys a file may have, and what the parser's variables hold. *)
Key == Name \cup File!FieldKey \cup File!NumberKey \cup {"channel_names", OtherKey}
Entry == [name : Key, extra : Seq(FieldName), polled : Seq(FieldName)]
Config == [rate : Nat, heartbeat : Nat, channels : Seq(Entry)]
Container == [kind : {"map", "array"}, key : Key \cup {File!NoKey}]

(* The open maps of a stack of containers. *)
Maps(s) == {i \in 1 .. Len(s) : s[i].kind = "map"}

(* The parser: its level is the number of open maps, whatever the file. *)
FileInv ==
  /\ phase \in {"reading", "loaded", "failed"}
  /\ stack \in Seq(Container) /\ reads \in Nat
  /\ level = Cardinality(Maps(stack))
  /\ current_key \in Key \cup {File!NoKey}
  /\ config \in Config /\ cut \in Config /\ declared \in Seq(Entry)
  /\ current_channel \in 0 .. Len(config.channels)

(* The tables and the rate limiter have their types too. *)
TableInv ==
  /\ program \in {"file", "sending", "packing"} \cup Starts
  /\ todo \in Seq(Entry)
  /\ channel_index \in Nat

UdpInv ==
  /\ rate_limit_mbs \in Nat /\ now \in Nat
  /\ last_sent_bytes \in Nat /\ last_sent_time \in Nat
  /\ sends \in Nat /\ first \in Nat
  /\ bytes \in [Dest -> Nat]
  /\ sending \in [dest : Nat, length : Nat]
  /\ sending # Udp!Idle => sending.dest \in Dest
  /\ first <= last_sent_time /\ last_sent_time <= now

(* Nothing was sent before a sender starts to. *)
QuietInv == program # "sending" =>
  /\ rate_limit_mbs = 0 /\ now = 0 /\ last_sent_bytes = 0 /\ last_sent_time = 0
  /\ first = 0 /\ sends = 0 /\ sending = Udp!Idle /\ bytes = [d \in Dest |-> 0]

TypeInv == FileInv /\ TableInv /\ UdpInv /\ QuietInv

(* What a destination may have got by now, while a datagram is sent: the   *)
(* time since the last one covers it.  A destination that got the datagram *)
(* got so much more.                                                       *)
Due(rate, time, n) == rate * time + (rate - 1) * n
PauseInv ==
  (rate_limit_mbs > 0 /\ sending # Udp!Idle) =>
    \A d \in Dest :
      /\ bytes[d] <= Due(rate_limit_mbs, now - first, sends) + sending.length
      /\ d >= sending.dest => bytes[d] <= Due(rate_limit_mbs, now - first, sends)

(* A file shaped as documented: the depth of the containers tells what     *)
(* they are, the keys on the way are the ones the parser remembers, and    *)
(* the channel it remembers is the last one.                               *)
DocInv ==
  /\ level = IF Len(stack) < 3 THEN Len(stack) ELSE 3
  /\ Len(stack) <= 4
  /\ stack # << >> => reads > 0
  /\ \A i \in 1 .. Len(stack) : stack[i].kind = IF i < 4 THEN "map" ELSE "array"
  /\ Len(stack) >= 2 => stack[1].key = "channel_names"
  /\ (Len(stack) >= 3 /\ stack[3].key # File!NoKey) => current_key = stack[3].key
  /\ Len(stack) = 4 => stack[3].key # File!NoKey
  /\ Len(stack) = 2 /\ stack[2].key # File!NoKey => config.channels # << >>
  /\ Len(stack) > 2 => config.channels # << >>
  /\ current_channel = Len(config.channels)
  /\ config.channels = declared
ShapeInv == program = "file" => DocInv

(* How much a configuration has in it. *)
CutInv ==
  cut.channels = config.channels \/ Len(HashInput(cut)) < Len(HashInput(config))

(* The names of a channel and its fields, and those of the first k channels. *)
NamePart(e) ==
  LET fields == e.extra \o e.polled
  IN <<<<e.name>>>> \o [j \in 1 .. Len(fields) |-> <<e.name, fields[j]>>]
NameParts(s) == [i \in 1 .. Len(s) |-> NamePart(s[i])]
NamesTo(k) == Concat(NameParts(config.channels), k)

(* How far a program is in the list of channels, and what it numbered.     *)
Item == Key \cup FieldName
TableEntry == [name : Seq(Item), parent : Nat, polled : BOOLEAN]
NumberedInv ==
  program \in Starts =>
    LET n == Len(config.channels)
        k == n - Len(todo)
    IN /\ Len(todo) <= n
       /\ \A i \in 1 .. Len(todo) : todo[i] = config.channels[k + i]
       /\ program = "dbgen" => channel_index = Len(NamesTo(k))
       /\ program \in {"sender", "receiver"} =>
            /\ channels \in Seq(TableEntry) /\ Len(channels) = Len(NamesTo(k))
            /\ \A i \in 1 .. Len(channels) : channels[i].name = NamesTo(k)[i]
EmptyInv ==
  /\ program # "dbgen" => records = {}
  /\ program = "file" => channel_index = 0 /\ channels = << >>

-----------------------------------------------------------------------------
(* Only the key of the last container changes when a key is read, or the   *)
(* value that belongs to it.                                               *)
LEMMA KeySet ==
  ASSUME NEW s \in Seq(Container), s # << >>, NEW k \in Key \cup {File!NoKey}
  PROVE  LET r == [s EXCEPT ![Len(s)].key = k]
         IN /\ r \in Seq(Container) /\ Len(r) = Len(s)
            /\ \A i \in 1 .. Len(s) : r[i].kind = s[i].kind
            /\ \A i \in 1 .. Len(s) : i # Len(s) => r[i] = s[i]
            /\ r[Len(s)].key = k
  <1> DEFINE n == Len(s)
             r == [s EXCEPT ![n].key = k]
             top == [s[n] EXCEPT !.key = k]
  <1>1. n \in Nat \ {0} /\ n \in 1 .. n /\ \A i \in 1 .. n : s[i] \in Container
    BY ElementOfSeq
  <1>2. top \in Container /\ top.kind = s[n].kind /\ top.key = k
    BY <1>1 DEF Container
  <1>3. r = [s EXCEPT ![n] = top]
    OBVIOUS
  <1> HIDE DEF top, r
  <1>4. r \in Seq(Container) /\ Len(r) = n /\ \A i \in 1 .. n : r[i] = IF i = n THEN top ELSE s[i]
    <2> HIDE DEF Container
    <2> QED BY <1>1, <1>2, <1>3
  <1>5. /\ r \in Seq(Container) /\ Len(r) = n
        /\ \A i \in 1 .. n : r[i].kind = s[i].kind
        /\ \A i \in 1 .. n : i # n => r[i] = s[i]
        /\ r[n].key = k
    BY <1>1, <1>2, <1>4
  <1> QED BY <1>5 DEF r

(* The value that belongs to a key is read. *)
LEMMA ValueSet ==
  ASSUME NEW s \in Seq(Container)
  PROVE  LET r == File!ValueRead(s)
         IN /\ r \in Seq(Container) /\ Len(r) = Len(s)
            /\ \A i \in 1 .. Len(s) : r[i].kind = s[i].kind
            /\ \A i \in 1 .. Len(s) : i # Len(s) => r[i] = s[i]
            /\ s # << >> => r[Len(s)].key = File!NoKey
  <1>1. CASE s = << >>
    BY <1>1 DEF File!ValueRead
  <1>2. CASE s # << >>
    <2>1. \A k \in Key \cup {File!NoKey} :
            LET r == [s EXCEPT ![Len(s)].key = k]
            IN /\ r \in Seq(Container) /\ Len(r) = Len(s)
               /\ \A i \in 1 .. Len(s) : r[i].kind = s[i].kind
               /\ \A i \in 1 .. Len(s) : i # Len(s) => r[i] = s[i]
               /\ r[Len(s)].key = k
      BY <1>2, KeySet
    <2>2. File!ValueRead(s) = [s EXCEPT ![Len(s)].key = File!NoKey]
      BY <1>2 DEF File!ValueRead
    <2> QED BY <2>1, <2>2
  <1> QED BY <1>1, <1>2

(* A container is opened. *)
LEMMA OpenSet ==
  ASSUME stack \in Seq(Container), NEW k \in {"map", "array"}
  PROVE  LET r == File!Opened(k)
         IN /\ r \in Seq(Container) /\ Len(r) = Len(stack) + 1
            /\ \A i \in 1 .. Len(stack) : r[i] = stack[i]
            /\ r[Len(stack) + 1].kind = k /\ r[Len(stack) + 1].key = File!NoKey
  <1> DEFINE top == [kind |-> k, key |-> File!NoKey]
  <1>1. top \in Container /\ top.kind = k /\ top.key = File!NoKey
    BY DEF Container
  <1> HIDE DEF top, Container
  <1>2. File!Opened(k) = Append(stack, top)
    BY DEF File!Opened, top
  <1> QED BY <1>1, <1>2

(* The last one is closed: it was the value of a key, or of nothing. *)
LEMMA CloseSet ==
  ASSUME stack \in Seq(Container), stack # << >>
  PROVE  LET r == File!Closed
             n == Len(stack)
         IN /\ r \in Seq(Container) /\ Len(r) = n - 1
            /\ \A i \in 1 .. n - 1 : r[i].kind = stack[i].kind
            /\ \A i \in 1 .. n - 1 : i # n - 1 => r[i] = stack[i]
            /\ n > 1 => r[n - 1].key = File!NoKey
  <1> DEFINE n == Len(stack)  s == SubSeq(stack, 1, n - 1)
  <1>1. n \in Nat \ {0}
    OBVIOUS
  <1>2. s \in Seq(Container) /\ Len(s) = n - 1 /\ \A i \in 1 .. n - 1 : s[i] = stack[i]
    <2> DEFINE m == n - 1
    <2>1. m \in 0 .. Len(stack) /\ s = SubSeq(stack, 1, m)
      BY <1>1
    <2> HIDE DEF Container, n, m
    <2>2. /\ SubSeq(stack, 1, m) \in Seq(Container) /\ Len(SubSeq(stack, 1, m)) = m
          /\ \A i \in 1 .. m : SubSeq(stack, 1, m)[i] = stack[i]
      BY <2>1
    <2> QED BY <2>1, <2>2 DEF m
  <1> HIDE DEF s
  <1>3. File!Closed = File!ValueRead(s)
    BY DEF File!Closed, s
  <1>4. n > 1 => s # << >>
    BY <1>1, <1>2
  <1> HIDE DEF n
  <1> DEFINE r == File!ValueRead(s)
  <1>5. /\ r \in Seq(Container) /\ Len(r) = Len(s)
        /\ \A i \in 1 .. Len(s) : r[i].kind = s[i].kind
        /\ \A i \in 1 .. Len(s) : i # Len(s) => r[i] = s[i]
        /\ s # << >> => r[Len(s)].key = File!NoKey
    BY <1>2, ValueSet
  <1> HIDE DEF r
  <1>6. /\ r \in Seq(Container) /\ Len(r) = n - 1
        /\ \A i \in 1 .. n - 1 : r[i].kind = stack[i].kind
        /\ \A i \in 1 .. n - 1 : i # n - 1 => r[i] = stack[i]
        /\ n > 1 => r[n - 1].key = File!NoKey
    BY <1>1, <1>2, <1>4, <1>5
  <1> QED BY <1>3, <1>6 DEF n, r

(* There are finitely many open maps. *)
LEMMA MapsFinite ==
  ASSUME NEW s \in Seq(Container)
  PROVE  IsFiniteSet(Maps(s)) /\ Cardinality(Maps(s)) \in Nat
  <1> DEFINE n == Len(s)
  <1>1. n \in Nat /\ Maps(s) \in SUBSET (1 .. n)
    BY DEF Maps
  <1> HIDE DEF n
  <1>2. IsFiniteSet(1 .. n)
    BY <1>1, FS_Interval
  <1> QED BY <1>1, <1>2, FS_Subset, FS_CardinalityType

(* As many maps are open when containers keep their kinds. *)
LEMMA MapsSame ==
  ASSUME NEW s, NEW r, Len(r) = Len(s), \A i \in 1 .. Len(s) : r[i].kind = s[i].kind
  PROVE  Maps(r) = Maps(s)
  BY DEF Maps

(* One more when a map is opened, and no more for an array. *)
LEMMA MapsOpen ==
  ASSUME stack \in Seq(Container), NEW k \in {"map", "array"}
  PROVE  Cardinality(Maps(File!Opened(k))) =
           IF k = "map" THEN Cardinality(Maps(stack)) + 1 ELSE Cardinality(Maps(stack))
  <1> DEFINE n == Len(stack)  r == File!Opened(k)
  <1>1. /\ n \in Nat /\ Len(r) = n + 1
        /\ \A i \in 1 .. n : r[i] = stack[i]
        /\ r[n + 1].kind = k
    BY OpenSet
  <1> HIDE DEF r
  <1>2. n + 1 \notin Maps(stack)
    BY <1>1 DEF Maps
  <1>3. CASE k = "map"
    <2>1. Maps(r) = Maps(stack) \cup {n + 1}
      BY <1>1, <1>3 DEF Maps
    <2> QED BY <1>2, <1>3, <2>1, MapsFinite, FS_AddElement DEF r
  <1>4. CASE k = "array"
    <2>1. Maps(r) = Maps(stack)
      BY <1>1, <1>4 DEF Maps
    <2> QED BY <1>4, <2>1 DEF r
  <1> QED BY <1>3, <1>4

(* One less when a map is closed, and no less for an array. *)
LEMMA MapsClose ==
  ASSUME stack \in Seq(Container), stack # << >>
  PROVE  Cardinality(Maps(File!Closed)) =
           IF stack[Len(stack)].kind = "map"
           THEN Cardinality(Maps(stack)) - 1 ELSE Cardinality(Maps(stack))
  <1> DEFINE n == Len(stack)  r == File!Closed
  <1>1. /\ n \in Nat \ {0} /\ Len(r) = n - 1
        /\ \A i \in 1 .. n - 1 : r[i].kind = stack[i].kind
    BY CloseSet
  <1> HIDE DEF r
  <1>2. CASE stack[n].kind = "map"
    <2>1. Maps(r) = Maps(stack) \ {n} /\ n \in Maps(stack)
      BY <1>1, <1>2 DEF Maps
    <2> QED BY <1>2, <2>1, MapsFinite, FS_RemoveElement DEF r
  <1>3. CASE stack[n].kind # "map"
    <2>1. Maps(r) = Maps(stack)
      BY <1>1, <1>3 DEF Maps
    <2> QED BY <1>3, <2>1 DEF r
  <1> QED BY <1>2, <1>3

-----------------------------------------------------------------------------
(* A channel gets one more field, and no other channel changes. *)
LEMMA FieldAdded ==
  ASSUME NEW s \in Seq(Entry), NEW i \in Nat, NEW key, NEW f \in FieldName
  PROVE  LET r == File!WithField(s, i, key, f)
         IN /\ r \in Seq(Entry) /\ Len(r) = Len(s)
            /\ \A j \in 1 .. Len(s) : j # i => r[j] = s[j]
            /\ i \in 1 .. Len(s) =>
                 /\ r[i].name = s[i].name
                 /\ \/ r[i].extra = Append(s[i].extra, f) /\ r[i].polled = s[i].polled
                    \/ r[i].extra = s[i].extra /\ r[i].polled = Append(s[i].polled, f)
  <1> DEFINE n == Len(s)
             r == File!WithField(s, i, key, f)
  <1>1. n \in Nat /\ \A j \in 1 .. n : s[j] \in Entry
    BY ElementOfSeq
  <1>2. CASE i \in 1 .. n
    <2> DEFINE x == [s[i] EXCEPT !.extra = Append(@, f)]
               p == [s[i] EXCEPT !.polled = Append(@, f)]
    <2>1. /\ s[i].extra \in Seq(FieldName) /\ s[i].polled \in Seq(FieldName)
          /\ s[i] = [name |-> s[i].name, extra |-> s[i].extra, polled |-> s[i].polled]
          /\ s[i].name \in Key
      BY <1>1, <1>2 DEF Entry
    <2>2. Append(s[i].extra, f) \in Seq(FieldName) /\ Append(s[i].polled, f) \in Seq(FieldName)
      BY <2>1
    <2>3. /\ x \in Entry /\ x.name = s[i].name /\ x.extra = Append(s[i].extra, f)
          /\ x.polled = s[i].polled
      BY <2>1, <2>2 DEF Entry
    <2>4. /\ p \in Entry /\ p.name = s[i].name /\ p.extra = s[i].extra
          /\ p.polled = Append(s[i].polled, f)
      BY <2>1, <2>2 DEF Entry
    <2>5. r = [s EXCEPT ![i] = IF key = "extra_fields" THEN x ELSE p]
      BY DEF File!WithField
    <2> HIDE DEF x, p
    <2> DEFINE new == IF key = "extra_fields" THEN x ELSE p
    <2>6. new \in Entry
      BY <2>3, <2>4
    <2>7. r = [s EXCEPT ![i] = new]
      BY <2>5
    <2> HIDE DEF new, r
    <2>8. r \in Seq(Entry) /\ Len(r) = n /\ \A j \in 1 .. n : r[j] = IF j = i THEN new ELSE s[j]
      <3> HIDE DEF Entry
      <3> QED BY <1>1, <1>2, <2>6, <2>7
    <2>9. \/ r[i].name = x.name /\ r[i].extra = x.extra /\ r[i].polled = x.polled
          \/ r[i].name = p.name /\ r[i].extra = p.extra /\ r[i].polled = p.polled
      BY <1>2, <2>8 DEF new
    <2>10. /\ r \in Seq(Entry) /\ Len(r) = n
           /\ \A j \in 1 .. n : j # i => r[j] = s[j]
           /\ r[i].name = s[i].name
           /\ \/ r[i].extra = Append(s[i].extra, f) /\ r[i].polled = s[i].polled
              \/ r[i].extra = s[i].extra /\ r[i].polled = Append(s[i].polled, f)
      BY <2>3, <2>4, <2>8, <2>9
    <2> QED BY <2>10 DEF r
  <1>3. CASE i \notin 1 .. n
    <2>1. r = s
      <3>1. DOMAIN s = 1 .. n
        BY <1>1
      <3>2. \A g : [s EXCEPT ![i] = g] = s
        BY <1>3, <3>1
      <3> QED BY <3>2 DEF File!WithField
    <2> QED BY <1>1, <1>3, <2>1
  <1> QED BY <1>2, <1>3

(* A key becomes a channel without fields. *)
LEMMA ChannelAdded ==
  ASSUME NEW s \in Seq(Entry), NEW key \in Key
  PROVE  LET r == Append(s, File!ConfigChannel(key))
         IN /\ File!ConfigChannel(key) = [name |-> key, extra |-> << >>, polled |-> << >>]
            /\ r \in Seq(Entry) /\ Len(r) = Len(s) + 1
            /\ \A j \in 1 .. Len(s) : r[j] = s[j]
            /\ r[Len(s) + 1] = File!ConfigChannel(key)
  <1> DEFINE e == File!ConfigChannel(key)
  <1>1. e = [name |-> key, extra |-> << >>, polled |-> << >>] /\ e \in Entry
    BY DEF File!ConfigChannel, Entry
  <1> HIDE DEF e
  <1>2. /\ Append(s, e) \in Seq(Entry) /\ Len(Append(s, e)) = Len(s) + 1
        /\ \A j \in 1 .. Len(s) : Append(s, e)[j] = s[j]
        /\ Append(s, e)[Len(s) + 1] = e
    <2> HIDE DEF Entry
    <2> QED BY <1>1
  <1> QED BY <1>1, <1>2 DEF e

(* The configurations a copy of the file may have given so far. *)
LEMMA CutKept ==
  ASSUME FileInv, File!Count
  PROVE  cut' \in Config /\ reads' \in Nat /\ phase' = phase
         /\ (cut' = cut \/ cut' = config)
  BY DEF FileInv, File!Count

(* The parser starts with an empty configuration. *)
LEMMA FileStart ==
  ASSUME File!FileInit
  PROVE  FileInv
  <1>1. File!EmptyConfig \in Config /\ File!EmptyConfig.channels = << >>
    BY NumberAssumption DEF File!EmptyConfig, Config
  <1>2. Maps(<< >>) = {}
    BY DEF Maps
  <1>3. Cardinality({}) = 0
    BY FS_EmptySet
  <1> HIDE DEF File!EmptyConfig
  <1> QED BY <1>1, <1>2, <1>3 DEF File!FileInit, FileInv

(* Every event of the parser keeps what FileInv says. *)
LEMMA FileStep ==
  ASSUME FileInv, File!Event \/ File!Fail \/ File!EndOfFile
  PROVE  FileInv'
  <1>0. /\ phase \in {"reading", "loaded", "failed"}
        /\ stack \in Seq(Container) /\ reads \in Nat
        /\ level = Cardinality(Maps(stack)) /\ level \in Nat
        /\ current_key \in Key \cup {File!NoKey}
        /\ config \in Config /\ cut \in Config /\ declared \in Seq(Entry)
        /\ current_channel \in 0 .. Len(config.channels)
        /\ config.channels \in Seq(Entry) /\ Len(config.channels) \in Nat
        /\ config.rate \in Nat /\ config.heartbeat \in Nat
        /\ config = [rate |-> config.rate, heartbeat |-> config.heartbeat,
                     channels |-> config.channels]
    BY MapsFinite DEF FileInv, Config
  <1> DEFINE n == Len(stack)
  <1>1. ASSUME stack' \in Seq(Container), level' = Cardinality(Maps(stack')), File!Count,
               current_key' \in Key \cup {File!NoKey},
               config' \in Config, declared' \in Seq(Entry),
               current_channel' \in 0 .. Len(config'.channels)
        PROVE  FileInv'
    BY <1>0, <1>1, CutKept DEF FileInv
  <1>2. CASE File!StartMap
    <2>1. /\ stack' = File!Opened("map") /\ level' = level + 1 /\ File!Count
          /\ UNCHANGED <<current_key, current_channel, config, declared>>
      BY <1>2 DEF File!StartMap, File!LevelIn
    <2>2. stack' \in Seq(Container) /\ Cardinality(Maps(stack')) = Cardinality(Maps(stack)) + 1
      BY <1>0, <2>1, OpenSet, MapsOpen
    <2> QED BY <1>0, <1>1, <2>1, <2>2
  <1>3. CASE File!StartArray
    <2>1. /\ stack' = File!Opened("array") /\ level' = level /\ File!Count
          /\ UNCHANGED <<current_key, current_channel, config, declared>>
      BY <1>3 DEF File!StartArray, File!LevelIn
    <2>2. stack' \in Seq(Container) /\ Cardinality(Maps(stack')) = Cardinality(Maps(stack))
      BY <1>0, <2>1, OpenSet, MapsOpen
    <2> QED BY <1>0, <1>1, <2>1, <2>2
  <1>4. CASE File!EndMap
    <2>1. /\ stack' = File!Closed /\ level' = level - 1 /\ File!Count
          /\ stack # << >> /\ stack[n].kind = "map"
          /\ UNCHANGED <<current_key, current_channel, config, declared>>
      BY <1>4 DEF File!EndMap, File!InMap, File!Top
    <2>2. stack' \in Seq(Container) /\ Cardinality(Maps(stack')) = Cardinality(Maps(stack)) - 1
      BY <1>0, <2>1, CloseSet, MapsClose
    <2> QED BY <1>0, <1>1, <2>1, <2>2
  <1>5. CASE File!EndArray
    <2>1. /\ stack' = File!Closed /\ level' = level /\ File!Count
          /\ stack # << >> /\ stack[n].kind = "array"
          /\ UNCHANGED <<current_key, current_channel, config, declared>>
      BY <1>5 DEF File!EndArray, File!InArray, File!Top
    <2>2. stack' \in Seq(Container) /\ Cardinality(Maps(stack')) = Cardinality(Maps(stack))
      BY <1>0, <2>1, CloseSet, MapsClose
    <2> QED BY <1>0, <1>1, <2>1, <2>2
  <1>6. ASSUME NEW key \in File!Keys, stack # << >>, File!MapKey(key) PROVE FileInv'
    <2>1. key \in Key
      BY DEF File!Keys, Key
    <2>2. /\ stack' = [stack EXCEPT ![n].key = key] /\ current_key' = key /\ level' = level
          /\ File!Count
          /\ declared' \in {declared, Append(declared, File!ConfigChannel(key))}
          /\ IF File!IsChannelKey(level)
             THEN /\ config' = [config EXCEPT !.channels = Append(@, File!ConfigChannel(key))]
                  /\ current_channel' = Len(config.channels) + 1
             ELSE UNCHANGED <<config, current_channel>>
      BY <1>6 DEF File!MapKey
    <2>3. /\ stack' \in Seq(Container) /\ Len(stack') = n
          /\ \A i \in 1 .. n : stack'[i].kind = stack[i].kind
      <3> DEFINE r == [stack EXCEPT ![Len(stack)].key = key]
      <3>1. /\ r \in Seq(Container) /\ Len(r) = Len(stack)
            /\ \A i \in 1 .. Len(stack) : r[i].kind = stack[i].kind
        BY <1>0, <1>6, <2>1, KeySet
      <3>2. stack' = r
        BY <2>2
      <3> HIDE DEF r
      <3> QED BY <3>1, <3>2
    <2>4. Maps(stack') = Maps(stack)
      BY <2>3, MapsSame
    <2>5. declared' \in Seq(Entry)
      BY <1>0, <2>1, <2>2, ChannelAdded
    <2>6. config' \in Config /\ current_channel' \in 0 .. Len(config'.channels)
      <3> DEFINE r == Append(config.channels, File!ConfigChannel(key))
      <3>1. r \in Seq(Entry) /\ Len(r) = Len(config.channels) + 1
        BY <1>0, <2>1, ChannelAdded
      <3>2. \/ /\ config' = [config EXCEPT !.channels = r]
               /\ current_channel' = Len(config.channels) + 1
            \/ config' = config /\ current_channel' = current_channel
        BY <2>2
      <3> HIDE DEF r
      <3>3. [config EXCEPT !.channels = r] \in Config
            /\ [config EXCEPT !.channels = r].channels = r
        BY <1>0, <3>1 DEF Config
      <3>4. config' \in Config
        BY <1>0, <3>2, <3>3
      <3>5. CASE config' = config /\ current_channel' = current_channel
        BY <1>0, <3>4, <3>5
      <3>6. CASE config' = [config EXCEPT !.channels = r] /\ current_channel' = Len(config.channels) + 1
        <4>1. config'.channels = r
          BY <3>3, <3>6
        <4>2. Len(config'.channels) = Len(config.channels) + 1 /\ Len(config.channels) \in Nat
          BY <1>0, <3>1, <4>1
        <4>3. current_channel' \in 0 .. Len(config'.channels)
          BY <3>6, <4>2
        <4> QED BY <3>4, <4>3
      <3> QED BY <3>2, <3>5, <3>6
    <2> QED BY <1>0, <1>1, <2>1, <2>2, <2>3, <2>4, <2>5, <2>6
  <1>7. ASSUME NEW f \in FieldName, File!String(f) PROVE FileInv'
    <2>1. /\ stack' = File!ValueRead(stack) /\ File!Count
          /\ UNCHANGED <<level, current_key, current_channel>>
          /\ declared' \in {declared, File!WithField(declared, Len(declared), File!Path[3], f)}
          /\ \/ config' = config
             \/ config' = [config EXCEPT !.channels =
                             File!WithField(@, current_channel, current_key, f)]
      BY <1>7 DEF File!String
    <2>2. /\ stack' \in Seq(Container) /\ Len(stack') = n
          /\ \A i \in 1 .. n : stack'[i].kind = stack[i].kind
      BY <1>0, <2>1, ValueSet
    <2>3. Maps(stack') = Maps(stack)
      BY <2>2, MapsSame
    <2>4. declared' \in Seq(Entry)
      <3>1. Len(declared) \in Nat
        BY <1>0
      <3> QED BY <1>0, <2>1, <3>1, FieldAdded
    <2>5. config' \in Config /\ current_channel' \in 0 .. Len(config'.channels)
      <3> DEFINE r == File!WithField(config.channels, current_channel, current_key, f)
      <3>1. r \in Seq(Entry) /\ Len(r) = Len(config.channels)
        BY <1>0, FieldAdded
      <3>2. config' = config \/ config' = [config EXCEPT !.channels = r]
        BY <2>1
      <3> HIDE DEF r
      <3>3. [config EXCEPT !.channels = r] \in Config
            /\ [config EXCEPT !.channels = r].channels = r
        BY <1>0, <3>1 DEF Config
      <3> QED BY <1>0, <2>1, <3>1, <3>2, <3>3
    <2> QED BY <1>0, <1>1, <2>1, <2>2, <2>3, <2>4, <2>5
  <1>8. ASSUME NEW d \in Number, File!Num(d) PROVE FileInv'
    <2>1. /\ stack' = File!ValueRead(stack) /\ File!Count
          /\ UNCHANGED <<level, current_key, current_channel, declared>>
          /\ config' \in {config, [config EXCEPT !.rate = d \div Unit],
                          [config EXCEPT !.heartbeat = d]}
      BY <1>8 DEF File!Num
    <2>2. /\ stack' \in Seq(Container) /\ Len(stack') = n
          /\ \A i \in 1 .. n : stack'[i].kind = stack[i].kind
      BY <1>0, <2>1, ValueSet
    <2>3. Maps(stack') = Maps(stack)
      BY <2>2, MapsSame
    <2>4. d \in Nat /\ d \div Unit \in Nat
      <3>1. d \in Nat
        BY NumberAssumption
      <3> QED BY <3>1, NumberAssumption, Z3
    <2>5. config' \in Config /\ config'.channels = config.channels
      BY <1>0, <2>1, <2>4 DEF Config
    <2> QED BY <1>0, <1>1, <2>1, <2>2, <2>3, <2>5
  <1>9. CASE File!Fail \/ File!EndOfFile
    BY <1>9 DEF FileInv, File!Fail, File!EndOfFile
  <1> QED BY <1>2, <1>3, <1>4, <1>5, <1>6, <1>7, <1>8, <1>9 DEF File!Event

-----------------------------------------------------------------------------
(* The rate limiter counts as everybody does. *)
LEMMA SameCardinality == Udp!Cardinality(Dest) = Cardinality(Dest)
  BY DEF Udp!Cardinality, Cardinality

(* The rate limiter and the clock keep their types. *)
LEMMA UdpStep ==
  ASSUME UdpInv, (\E n \in Length : Udp!Send(n)) \/ Udp!SendTo \/ Udp!Tick
  PROVE  UdpInv'
  <1> DEFINE m == Cardinality(Dest)
  <1>0. /\ m \in Nat \ {0} /\ \A d : d \in Dest <=> d \in 1 .. m
        /\ rate_limit_mbs \in Nat /\ now \in Nat
        /\ last_sent_bytes \in Nat /\ last_sent_time \in Nat
        /\ sends \in Nat /\ first \in Nat /\ bytes \in [Dest -> Nat]
        /\ sending \in [dest : Nat, length : Nat]
        /\ sending.dest \in Nat /\ sending.length \in Nat
        /\ sending # Udp!Idle => sending.dest \in Dest
        /\ first <= last_sent_time /\ last_sent_time <= now
    BY DestAssumption DEF UdpInv
  <1> HIDE DEF m
  <1>1. ASSUME NEW n \in Length, Udp!Send(n) PROVE UdpInv'
    <2>1. /\ sending' = [dest |-> 1, length |-> n] /\ sends' = sends + 1
          /\ UNCHANGED <<rate_limit_mbs, now, last_sent_bytes, last_sent_time, bytes, first>>
      BY <1>1 DEF Udp!Send
    <2>2. n \in Nat /\ 1 \in Dest
      BY <1>0, LengthAssumption
    <2> QED BY <1>0, <2>1, <2>2 DEF UdpInv
  <1>2. CASE Udp!SendTo
    <2>1. /\ sending # Udp!Idle /\ sending.dest \in Dest /\ sending' = Udp!NextDest
          /\ rate_limit_mbs' = rate_limit_mbs /\ now' = now /\ sends' = sends
      BY <1>0, <1>2 DEF Udp!SendTo
    <2>2. /\ sending' \in [dest : Nat, length : Nat]
          /\ sending' # Udp!Idle => sending'.dest \in Dest
      <3>1. CASE sending.dest = m
        <4>1. sending' = Udp!Idle
          BY <2>1, <3>1, SameCardinality DEF Udp!NextDest, m
        <4> QED BY <4>1 DEF Udp!Idle
      <3>2. CASE sending.dest # m
        <4>1. sending' = [sending EXCEPT !.dest = sending.dest + 1]
          BY <2>1, <3>2, SameCardinality DEF Udp!NextDest, m
        <4>2. sending.dest + 1 \in Dest
          BY <1>0, <2>1, <3>2
        <4> QED BY <1>0, <4>1, <4>2
      <3> QED BY <3>1, <3>2
    <2>3. CASE UNCHANGED <<last_sent_bytes, last_sent_time, bytes, first>>
      BY <1>0, <2>1, <2>2, <2>3 DEF UdpInv
    <2>4. CASE /\ last_sent_bytes' = sending.length
               /\ last_sent_time' = now
               /\ bytes' = [bytes EXCEPT ![sending.dest] = @ + sending.length]
               /\ first' = IF \A d \in Dest : bytes[d] = 0 THEN now ELSE first
      <3>1. bytes' \in [Dest -> Nat]
        BY <1>0, <2>1, <2>4
      <3>2. first' \in {now, first}
        BY <2>4
      <3>3. first' \in Nat /\ first' <= last_sent_time' /\ last_sent_time' <= now'
        BY <1>0, <2>1, <2>4, <3>2
      <3> QED BY <1>0, <2>1, <2>2, <2>4, <3>1, <3>3 DEF UdpInv
    <2> QED BY <1>2, <2>3, <2>4 DEF Udp!SendTo
  <1>3. CASE Udp!Tick
    BY <1>0, <1>3 DEF Udp!Tick, UdpInv
  <1> QED BY <1>1, <1>2, <1>3

(* A channel of the configuration becomes entries of the table. *)
LEMMA ListShortens ==
  ASSUME todo \in Seq(Entry), todo # << >>
  PROVE  Tail(todo) \in Seq(Entry) /\ Head(todo) \in Entry /\ ChannelCount(Head(todo)) \in Nat \ {0}
  <1>1. Tail(todo) \in Seq(Entry) /\ Head(todo) \in Entry
    <2> HIDE DEF Entry
    <2> QED OBVIOUS
  <1>2. Len(Head(todo).extra) \in Nat /\ Len(Head(todo).polled) \in Nat
    BY <1>1 DEF Entry
  <1> DEFINE e == Len(Head(todo).extra)  p == Len(Head(todo).polled)
  <1>3. ChannelCount(Head(todo)) = e + p + 1
    BY DEF ChannelCount
  <1>4. e \in Nat /\ p \in Nat
    BY <1>2
  <1> HIDE DEF e, p
  <1>5. e + p + 1 \in Nat \ {0}
    BY <1>4
  <1> QED BY <1>1, <1>3, <1>5

(* The first state has the types. *)
LEMMA TypeStart ==
  ASSUME Init
  PROVE  TypeInv
  <1>1. FileInv
    BY FileStart DEF Init
  <1>2. program = "file" /\ todo = << >> /\ Gen!GenInit /\ Udp!UdpInit
    BY DEF Init
  <1>3. TableInv
    BY <1>2 DEF Gen!GenInit, TableInv
  <1>4. UdpInv
    BY <1>2 DEF Udp!UdpInit, Udp!Idle, UdpInv
  <1>5. QuietInv
    BY <1>2 DEF Udp!UdpInit, QuietInv
  <1> QED BY <1>1, <1>3, <1>4, <1>5 DEF TypeInv

(* What a file read left behind has its types, too. *)
LEMMA ForgottenTypes ==
  ASSUME FileInv, FileForgotten
  PROVE  FileInv'
  <1>1. File!EmptyConfig \in Config /\ File!EmptyConfig.channels = << >>
    BY NumberAssumption DEF File!EmptyConfig, Config
  <1>2. Maps(<< >>) = {}
    BY DEF Maps
  <1>3. Cardinality({}) = 0
    BY FS_EmptySet
  <1>4. << >> \in Seq(Container) /\ << >> \in Seq(Entry) /\ Len(<< >>) = 0
    OBVIOUS
  <1>5. /\ stack' = << >> /\ reads' = 0 /\ level' = 0 /\ current_key' = File!NoKey
        /\ current_channel' = 0 /\ declared' = << >> /\ phase' = phase
        /\ config' = File!EmptyConfig /\ cut' = File!EmptyConfig
    BY DEF FileForgotten
  <1>6. level' = Cardinality(Maps(stack'))
    BY <1>2, <1>3, <1>5
  <1>7. current_channel' \in 0 .. Len(config'.channels)
    BY <1>1, <1>4, <1>5
  <1> HIDE DEF File!EmptyConfig
  <1>8. /\ config' \in Config /\ cut' \in Config
        /\ stack' \in Seq(Container) /\ declared' \in Seq(Entry)
        /\ current_key' \in Key \cup {File!NoKey} /\ reads' \in Nat
    BY <1>1, <1>4, <1>5
  <1> QED BY <1>5, <1>6, <1>7, <1>8 DEF FileInv

(* Every step keeps the types. *)
LEMMA TypeStep ==
  ASSUME TypeInv, [Next]_vars
  PROVE  TypeInv'
  <1>0. FileInv /\ TableInv /\ UdpInv /\ QuietInv
    BY DEF TypeInv
  <1>file. ASSUME UNCHANGED fileVars PROVE FileInv'
    BY <1>0, <1>file DEF FileInv, fileVars
  <1>udp. ASSUME UNCHANGED udpVars PROVE UdpInv'
    BY <1>0, <1>udp DEF UdpInv, udpVars
  <1>quiet. ASSUME UNCHANGED udpVars, program' = "sending" \/ program # "sending" PROVE QuietInv'
    BY <1>0, <1>quiet DEF QuietInv, udpVars
  <1>1. CASE ReadFile
    <2>1. program = "file" /\ UNCHANGED <<program, todo, channels, genVars, udpVars, wireVars>>
          /\ (File!Event \/ File!Fail \/ File!EndOfFile)
      BY <1>1 DEF ReadFile
    <2>2. FileInv'
      BY <1>0, <2>1, FileStep
    <2>3. TableInv'
      BY <1>0, <2>1 DEF TableInv, genVars
    <2> QED BY <1>udp, <1>quiet, <2>1, <2>2, <2>3 DEF TypeInv
  <1>2. ASSUME NEW p \in Starts, Start(p) PROVE TypeInv'
    <2>1. program = "file" /\ program' = p /\ todo' = config.channels
          /\ UNCHANGED <<fileVars, channels, genVars, udpVars, wireVars>>
      BY <1>2 DEF Start
    <2>2. config.channels \in Seq(Entry)
      BY <1>0 DEF FileInv, Config
    <2>3. TableInv'
      BY <1>0, <1>2, <2>1, <2>2 DEF TableInv, genVars
    <2> QED BY <1>file, <1>udp, <1>quiet, <2>1, <2>3 DEF TypeInv
  <1>3. CASE GenerateDb
    <2>1. program = "dbgen" /\ UNCHANGED <<program, fileVars, channels, udpVars, wireVars>>
          /\ todo # << >> /\ todo' = Tail(todo)
          /\ channel_index' = channel_index + ChannelCount(Head(todo))
      BY <1>3 DEF GenerateDb, Gen!Generate, Gen!NextIndex, Gen!ChannelCount, ChannelCount
    <2>2. Tail(todo) \in Seq(Entry) /\ ChannelCount(Head(todo)) \in Nat
      BY <1>0, <2>1, ListShortens DEF TableInv
    <2>3. TableInv'
      BY <1>0, <2>1, <2>2 DEF TableInv
    <2> QED BY <1>file, <1>udp, <1>quiet, <2>1, <2>3 DEF TypeInv
  <1>4. CASE CreateTable
    <2>1. UNCHANGED <<program, fileVars, genVars, udpVars, wireVars>>
          /\ program \in {"sender", "receiver", "pva"}
          /\ todo # << >> /\ todo' = Tail(todo)
      BY <1>4 DEF CreateTable, Table!CreateChannels, Table!AssignNames, Table!CreatePvaChannels
    <2>2. Tail(todo) \in Seq(Entry)
      BY <1>0, <2>1, ListShortens DEF TableInv
    <2>3. TableInv'
      BY <1>0, <2>1, <2>2 DEF TableInv, genVars
    <2> QED BY <1>file, <1>udp, <1>quiet, <2>1, <2>3 DEF TypeInv
  <1>5. CASE StartSending
    <2>1. /\ program # "sending" /\ program' = "sending" /\ rate_limit_mbs' = config.rate
          /\ FileForgotten /\ UNCHANGED <<todo, genVars>>
          /\ UNCHANGED <<now, last_sent_bytes, last_sent_time, sending, sends, bytes, first>>
      BY <1>5 DEF StartSending, FileForgotten
    <2>2. config.rate \in Nat
      BY <1>0 DEF FileInv, Config
    <2>3. FileInv'
      BY <1>0, <2>1, ForgottenTypes
    <2>4. TableInv'
      BY <1>0, <2>1 DEF TableInv, genVars
    <2>5. UdpInv'
      BY <1>0, <2>1, <2>2 DEF UdpInv
    <2> QED BY <2>1, <2>3, <2>4, <2>5 DEF TypeInv, QuietInv
  <1>6. CASE SendDatagrams
    <2>1. program = "sending" /\ UNCHANGED <<program, fileVars, todo, channels, genVars, wireVars>>
          /\ ((\E n \in Length : Udp!Send(n)) \/ Udp!SendTo \/ Udp!Tick)
      BY <1>6 DEF SendDatagrams
    <2>2. UdpInv'
      BY <1>0, <2>1, UdpStep
    <2>3. TableInv'
      BY <1>0, <2>1 DEF TableInv, genVars
    <2> QED BY <1>file, <2>1, <2>2, <2>3 DEF TypeInv, QuietInv
  <1>7. CASE StartPacking
    <2>1. /\ program = "sender" /\ program' = "packing" /\ FileForgotten
          /\ UNCHANGED <<channels, udpVars, wireVars>> /\ UNCHANGED <<todo, genVars>>
      BY <1>7 DEF StartPacking, FileForgotten
    <2>2. FileInv'
      BY <1>0, <2>1, ForgottenTypes
    <2>3. TableInv'
      BY <1>0, <2>1 DEF TableInv, genVars
    <2> QED BY <1>udp, <1>quiet, <2>1, <2>2, <2>3 DEF TypeInv
  <1>8. CASE PassMessage
    <2>1. program = "packing" /\ UNCHANGED <<program, fileVars, todo, channels, genVars, udpVars>>
      BY <1>8 DEF PassMessage
    <2>2. TableInv'
      BY <1>0, <2>1 DEF TableInv, genVars
    <2> QED BY <1>file, <1>udp, <1>quiet, <2>1, <2>2 DEF TypeInv
  <1>9. CASE UNCHANGED vars
    <2>1. UNCHANGED <<program, fileVars, todo, channels, genVars, udpVars>>
      BY <1>9 DEF vars
    <2>2. TableInv'
      BY <1>0, <2>1 DEF TableInv, genVars
    <2> QED BY <1>0, <1>file, <1>udp, <2>1, <2>2 DEF TypeInv, QuietInv, udpVars
  <1> QED BY <1>1, <1>2, <1>3, <1>4, <1>5, <1>6, <1>7, <1>8, <1>9 DEF Next

(* The parser's level counts the maps that are open, whatever the file's   *)
(* shape, its current channel is one of the configuration, and rates and   *)
(* indices are numbers (parser_yajl_start_map, parser_yajl_end_map,        *)
(* parser_yajl_map_key, parser_yajl_string).                               *)
THEOREM ProgramsTypeOK == Spec => []TypeOK
  <1>1. Init => TypeInv
    BY TypeStart
  <1>2. TypeInv /\ [Next]_vars => TypeInv'
    BY TypeStep
  <1>3. TypeInv => TypeOK
    BY DEF TypeInv, FileInv, TableInv, UdpInv, TypeOK, Config, Maps
  <1> QED BY <1>1, <1>2, <1>3, PTL DEF Spec

-----------------------------------------------------------------------------
(* What a rate allows grows with the time and with the pauses. *)
LEMMA DueGrows ==
  ASSUME NEW r \in Nat \ {0}, NEW t \in Nat, NEW u \in Nat, NEW n \in Nat, NEW m \in Nat,
         t <= u, n <= m
  PROVE  Due(r, t, n) \in Nat /\ Due(r, t, n) <= Due(r, u, m)
  <1>1. /\ r * t \in Nat /\ r * u \in Nat /\ (r - 1) * n \in Nat /\ (r - 1) * m \in Nat
        /\ r * t <= r * u /\ (r - 1) * n <= (r - 1) * m
    <2>1. \A a \in Nat : \A x, y \in Nat : a * x \in Nat /\ (x <= y => a * x <= a * y)
      BY Z3
    <2>2. r - 1 \in Nat
      OBVIOUS
    <2> QED BY <2>1, <2>2
  <1> DEFINE w == r * t  x == r * u  y == (r - 1) * n  z == (r - 1) * m
  <1>2. Due(r, t, n) = w + y /\ Due(r, u, m) = x + z
    BY DEF Due
  <1>3. w \in Nat /\ x \in Nat /\ y \in Nat /\ z \in Nat /\ w <= x /\ y <= z
    BY <1>1
  <1> HIDE DEF w, x, y, z
  <1> QED BY <1>2, <1>3

(* The pause before a datagram makes the one before it due: the time that  *)
(* rounding saves is less than a microsecond.                              *)
LEMMA PauseCovers ==
  ASSUME NEW r \in Nat \ {0}, NEW l \in Nat, NEW last \in Nat, NEW start \in Nat, NEW t \in Nat,
         NEW n \in Nat, NEW b \in Nat, start <= last, t - last >= l \div r,
         b <= l + Due(r, last - start, n)
  PROVE  b <= Due(r, t - start, n + 1)
  <1>1. l < r * (l \div r) + r /\ r * (l \div r) \in Nat
    BY Z3
  <1>2. r * (t - last) >= r * (l \div r)
    <2>1. \A x, y \in Int : x >= y => r * x >= r * y
      BY Z3
    <2>2. l \div r \in Int
      BY Z3
    <2> QED BY <2>1, <2>2
  <1>3. r * (t - start) = r * (t - last) + r * (last - start)
    BY Z3
  <1>4. (r - 1) * (n + 1) = (r - 1) * n + (r - 1)
    BY Z3
  <1> DEFINE p == r * (l \div r)  q == r * (t - last)  u == r * (last - start)
             v == (r - 1) * n  w == r * (t - start)  z == (r - 1) * (n + 1)
  <1>5. p \in Int /\ q \in Int /\ u \in Int /\ v \in Int
    BY Z3
  <1>6. /\ l < p + r /\ q >= p /\ w = q + u /\ z = v + (r - 1) /\ b <= l + (u + v)
        /\ Due(r, t - start, n + 1) = w + z
    BY <1>1, <1>2, <1>3, <1>4 DEF Due
  <1> HIDE DEF p, q, u, v, w, z
  <1> QED BY <1>5, <1>6

(* What a destination may have got, as RateKept writes it. *)
LEMMA DueIs ==
  ASSUME NEW r \in Nat \ {0}, NEW t \in Nat, NEW n \in Nat, NEW a \in Nat
  PROVE  Due(r, t, n) \in Nat /\ a + r * t + (r - 1) * n = a + Due(r, t, n)
  <1> DEFINE u == r * t  v == (r - 1) * n
  <1>1. u \in Nat /\ v \in Nat
    <2>1. \A x, y \in Nat : x * y \in Nat
      BY Z3
    <2>2. r - 1 \in Nat
      OBVIOUS
    <2> QED BY <2>1, <2>2
  <1>2. Due(r, t, n) = u + v
    BY DEF Due
  <1> HIDE DEF u, v
  <1>3. (a + u) + v = a + (u + v) /\ u + v \in Nat
    BY <1>1
  <1>4. a + u + v = a + Due(r, t, n)
    BY <1>2, <1>3
  <1> QED BY <1>2, <1>3, <1>4 DEF u, v

(* The rate limiter keeps its rate. *)
LEMMA RateStep ==
  ASSUME UdpInv, RateKept, PauseInv,
         (\E n \in Length : Udp!Send(n)) \/ Udp!SendTo \/ Udp!Tick
  PROVE  RateKept' /\ PauseInv'
  <1>u. UdpInv'
    BY UdpStep
  <1>0. /\ rate_limit_mbs \in Nat /\ now \in Nat
        /\ last_sent_bytes \in Nat /\ last_sent_time \in Nat
        /\ sends \in Nat /\ first \in Nat /\ bytes \in [Dest -> Nat]
        /\ sending \in [dest : Nat, length : Nat]
        /\ sending.dest \in Nat /\ sending.length \in Nat
        /\ sending # Udp!Idle => sending.dest \in Dest
        /\ first <= last_sent_time /\ last_sent_time <= now
        /\ \A d \in Dest : d \in Nat
    BY DestAssumption DEF UdpInv
  <1>r. rate_limit_mbs' = rate_limit_mbs
    BY DEF Udp!Send, Udp!SendTo, Udp!Tick
  <1>1. CASE rate_limit_mbs = 0
    BY <1>r, <1>1 DEF RateKept, PauseInv
  <1>2. CASE rate_limit_mbs # 0
    <2> DEFINE r == rate_limit_mbs
               was == Due(r, last_sent_time - first, sends)
               due == Due(r, now - first, sends)
    <2>1. /\ r \in Nat \ {0} /\ r > 0
          /\ last_sent_time - first \in Nat /\ now - first \in Nat
          /\ last_sent_time - first <= now - first
      BY <1>0, <1>2
    <2> HIDE DEF r
    <2>2. was \in Nat /\ due \in Nat
      BY <1>0, <2>1, DueIs
    <2>3. \A d \in Dest : bytes[d] \in Nat /\ bytes[d] <= last_sent_bytes + was
      <3>1. \A d \in Dest : bytes[d] <= last_sent_bytes + r * (last_sent_time - first) + (r - 1) * sends
        BY <2>1 DEF RateKept, r
      <3>2. last_sent_bytes + r * (last_sent_time - first) + (r - 1) * sends = last_sent_bytes + was
        BY <1>0, <2>1, DueIs
      <3> HIDE DEF was
      <3> QED BY <1>0, <3>1, <3>2
    <2>4. sending # Udp!Idle =>
            \A d \in Dest : bytes[d] <= due + sending.length
                            /\ (d >= sending.dest => bytes[d] <= due)
      BY <2>1 DEF PauseInv, r
    <2> DEFINE was2 == Due(r, last_sent_time' - first', sends')
               due2 == Due(r, now' - first', sends')
    <2>5. ASSUME \A d \in Dest : bytes'[d] <= last_sent_bytes' + was2 PROVE RateKept'
      <3>1. /\ last_sent_bytes' \in Nat /\ last_sent_time' - first' \in Nat /\ sends' \in Nat
        <4>1. /\ last_sent_bytes' \in Nat /\ last_sent_time' \in Nat /\ first' \in Nat
              /\ sends' \in Nat /\ first' <= last_sent_time'
          BY <1>u DEF UdpInv
        <4>2. \A x, y \in Nat : x <= y => y - x \in Nat
          OBVIOUS
        <4> QED BY <4>1, <4>2
      <3>2. last_sent_bytes' + r * (last_sent_time' - first') + (r - 1) * sends' = last_sent_bytes' + was2
        BY <2>1, <3>1, DueIs
      <3>3. \A d \in Dest :
              bytes'[d] <= last_sent_bytes' + r * (last_sent_time' - first') + (r - 1) * sends'
        BY <2>5, <3>2
      <3> QED BY <1>r, <3>3 DEF RateKept, r
    <2>6. ASSUME sending' # Udp!Idle =>
                   \A d \in Dest : bytes'[d] <= due2 + sending'.length
                                   /\ (d >= sending'.dest => bytes'[d] <= due2)
          PROVE  PauseInv'
      BY <1>r, <2>6 DEF PauseInv, r, Udp!Idle
    <2> HIDE DEF was, due, was2, due2
    <2>7. ASSUME NEW n \in Length, Udp!Send(n) PROVE RateKept' /\ PauseInv'
      <3>1. /\ sending' = [dest |-> 1, length |-> n] /\ sends' = sends + 1
            /\ now - last_sent_time >= last_sent_bytes \div r
            /\ last_sent_bytes' = last_sent_bytes /\ last_sent_time' = last_sent_time
            /\ now' = now /\ first' = first /\ bytes' = bytes
        BY <2>1, <2>7 DEF Udp!Send, Udp!Paused, r
      <3>2. n \in Nat /\ sending'.length = n
        BY <3>1, LengthAssumption
      <3>3. was <= was2
        <4> DEFINE time == last_sent_time - first  more == sends + 1
        <4>1. was2 = Due(r, time, more) /\ was = Due(r, time, sends)
          BY <3>1 DEF was, was2
        <4>2. more \in Nat /\ sends \in Nat /\ sends <= more /\ time \in Nat /\ time <= time
          BY <1>0, <2>1
        <4> HIDE DEF time, more
        <4> QED BY <2>1, <4>1, <4>2, DueGrows
      <3>4. due2 = Due(r, now - first, sends + 1) /\ due2 \in Nat
        <4> DEFINE time == now - first  more == sends + 1
        <4>1. due2 = Due(r, time, more)
          BY <3>1 DEF due2
        <4>2. more \in Nat /\ time \in Nat
          BY <1>0, <2>1
        <4> HIDE DEF time, more
        <4>3. due2 \in Nat
          BY <1>0, <2>1, <4>1, <4>2, DueIs
        <4> QED BY <4>1, <4>3 DEF time, more
      <3>5. ASSUME NEW d \in Dest PROVE bytes[d] <= due2
        <4>1. bytes[d] \in Nat /\ bytes[d] <= last_sent_bytes + Due(r, last_sent_time - first, sends)
          BY <2>3, <3>5 DEF was
        <4>2. \A l, last, start, t, k, b \in Nat :
                start <= last /\ t - last >= l \div r /\ b <= l + Due(r, last - start, k)
                  => b <= Due(r, t - start, k + 1)
          BY <2>1, PauseCovers
        <4>3. /\ last_sent_bytes \in Nat /\ last_sent_time \in Nat /\ first \in Nat
              /\ now \in Nat /\ sends \in Nat /\ first <= last_sent_time
              /\ now - last_sent_time >= last_sent_bytes \div r
          BY <1>0, <3>1
        <4>4. bytes[d] <= Due(r, now - first, sends + 1)
          <5>1. \A start, t, k, b \in Nat :
                  start <= last_sent_time /\ t - last_sent_time >= last_sent_bytes \div r
                    /\ b <= last_sent_bytes + Due(r, last_sent_time - start, k)
                  => b <= Due(r, t - start, k + 1)
            BY <4>2, <4>3, Zenon
          <5>2. \A k, b \in Nat :
                  b <= last_sent_bytes + Due(r, last_sent_time - first, k)
                  => b <= Due(r, now - first, k + 1)
            BY <4>3, <5>1, Zenon
          <5> QED BY <4>1, <4>3, <5>2, Zenon
        <4> QED BY <3>4, <4>4
      <3>6. was2 \in Nat
        <4> DEFINE time == last_sent_time - first  more == sends + 1
        <4>1. was2 = Due(r, time, more) /\ more \in Nat /\ time \in Nat
          BY <1>0, <2>1, <3>1 DEF was2
        <4> HIDE DEF time, more
        <4> QED BY <1>0, <2>1, <4>1, DueIs
      <3>7. \A d \in Dest : bytes'[d] <= last_sent_bytes' + was2
        BY <1>0, <2>2, <2>3, <3>1, <3>3, <3>6
      <3>8. \A d \in Dest : bytes'[d] <= due2 + sending'.length
                            /\ (d >= sending'.dest => bytes'[d] <= due2)
        BY <2>3, <3>1, <3>2, <3>4, <3>5
      <3> QED BY <2>5, <2>6, <3>7, <3>8
    <2>8. CASE Udp!SendTo
      <3>1. /\ sending # Udp!Idle /\ sending' = Udp!NextDest /\ sending.dest \in Dest
            /\ now' = now /\ sends' = sends
        BY <1>0, <2>8 DEF Udp!SendTo
      <3>2. sending' # Udp!Idle =>
              sending'.dest = sending.dest + 1 /\ sending'.length = sending.length
        BY <1>0, <3>1 DEF Udp!NextDest
      <3>3. CASE UNCHANGED <<last_sent_bytes, last_sent_time, bytes, first>>
        <4>1. was2 = was /\ due2 = due
          BY <3>1, <3>3 DEF was, was2, due, due2
        <4>2. \A d \in Dest : bytes'[d] <= last_sent_bytes' + was2
          BY <2>3, <3>3, <4>1
        <4>3. sending' # Udp!Idle =>
                \A d \in Dest : bytes'[d] <= due2 + sending'.length
                                /\ (d >= sending'.dest => bytes'[d] <= due2)
          BY <1>0, <2>4, <3>1, <3>2, <3>3, <4>1
        <4> QED BY <2>5, <2>6, <4>2, <4>3
      <3>4. CASE /\ last_sent_bytes' = sending.length
                 /\ last_sent_time' = now
                 /\ bytes' = [bytes EXCEPT ![sending.dest] = @ + sending.length]
                 /\ first' = IF \A d \in Dest : bytes[d] = 0 THEN now ELSE first
        <4>1. /\ bytes'[sending.dest] = bytes[sending.dest] + sending.length
              /\ \A d \in Dest : d # sending.dest => bytes'[d] = bytes[d]
          BY <1>0, <3>1, <3>4
        <4>2. was2 = due2
          BY <3>1, <3>4 DEF was2, due2
        <4>3. /\ due2 \in Nat
              /\ \A d \in Dest : /\ bytes[d] <= due2 + sending.length
                                 /\ d >= sending.dest => bytes[d] <= due2
          <5>1. CASE \A d \in Dest : bytes[d] = 0
            <6>1. now' - first' = 0 /\ sends' \in Nat
              BY <1>0, <3>1, <3>4, <5>1
            <6>2. due2 \in Nat
              BY <2>1, <6>1, DueIs DEF due2
            <6> QED BY <1>0, <5>1, <6>2
          <5>2. CASE ~ \A d \in Dest : bytes[d] = 0
            <6>1. due2 = due
              BY <3>1, <3>4, <5>2 DEF due, due2
            <6> QED BY <2>2, <2>4, <3>1, <6>1
          <5> QED BY <5>1, <5>2
        <4>4. \A d \in Dest : bytes'[d] <= last_sent_bytes' + was2
          BY <1>0, <2>3, <3>1, <3>4, <4>1, <4>2, <4>3
        <4>5. sending' # Udp!Idle =>
                \A d \in Dest : bytes'[d] <= due2 + sending'.length
                                /\ (d >= sending'.dest => bytes'[d] <= due2)
          BY <1>0, <2>3, <3>1, <3>2, <4>1, <4>3
        <4> QED BY <2>5, <2>6, <4>4, <4>5
      <3> QED BY <2>8, <3>3, <3>4 DEF Udp!SendTo
    <2>9. CASE Udp!Tick
      <3>1. /\ now' = now + 1 /\ sending' = sending /\ sends' = sends
            /\ last_sent_bytes' = last_sent_bytes /\ last_sent_time' = last_sent_time
            /\ first' = first /\ bytes' = bytes
        BY <2>9 DEF Udp!Tick
      <3>2. was2 = was
        BY <3>1 DEF was, was2
      <3>3. now' - first' \in Nat /\ now - first <= now' - first'
        BY <1>0, <2>1, <3>1
      <3>4. due <= due2 /\ due2 \in Nat
        <4>1. due2 = Due(r, now' - first', sends)
          BY <3>1 DEF due2
        <4>2. sends <= sends
          BY <1>0
        <4> QED BY <1>0, <2>1, <3>3, <4>1, <4>2, DueGrows, DueIs DEF due
      <3>5. sending' # Udp!Idle =>
              \A d \in Dest : bytes'[d] <= due2 + sending'.length
                              /\ (d >= sending'.dest => bytes'[d] <= due2)
        BY <1>0, <2>2, <2>3, <2>4, <3>1, <3>4
      <3> QED BY <2>3, <2>5, <2>6, <3>1, <3>2, <3>5
    <2> QED BY <2>7, <2>8, <2>9
  <1> QED BY <1>1, <1>2

(* A destination gets its datagrams at no more than the configured rate,   *)
(* short of the last one and of a microsecond for each of them, whichever  *)
(* calls of sendto fail (UDPSender::send).                                 *)
THEOREM ProgramsRateKept == Spec => []RateKept
  <1>1. Init => TypeInv
    BY TypeStart
  <1>2. TypeInv /\ [Next]_vars => TypeInv'
    BY TypeStep
  <1>3. Init => RateKept /\ PauseInv
    BY DEF Init, Udp!UdpInit, RateKept, PauseInv
  <1>4. TypeInv /\ RateKept /\ PauseInv /\ [Next]_vars => RateKept' /\ PauseInv'
    <2> SUFFICES ASSUME TypeInv, RateKept, PauseInv, [Next]_vars PROVE RateKept' /\ PauseInv'
      OBVIOUS
    <2>1. CASE UNCHANGED udpVars
      BY <2>1 DEF RateKept, PauseInv, udpVars
    <2>2. CASE SendDatagrams
      BY <2>2, RateStep DEF SendDatagrams, TypeInv
    <2>3. CASE StartSending
      <3>1. /\ rate_limit_mbs' = config.rate /\ sends' = 0 /\ first' = 0 /\ last_sent_time' = 0
            /\ last_sent_bytes' = 0 /\ sending' = Udp!Idle /\ \A d \in Dest : bytes'[d] = 0
        BY <2>3 DEF StartSending, TypeInv, QuietInv
      <3>2. rate_limit_mbs' \in Nat
        BY <3>1 DEF TypeInv, FileInv, Config
      <3>3. rate_limit_mbs' * (last_sent_time' - first') = 0 /\ (rate_limit_mbs' - 1) * sends' = 0
        <4>1. \A x \in Int : x * (0 - 0) = 0 /\ x * 0 = 0
          BY Z3
        <4> QED BY <3>1, <3>2, <4>1
      <3> QED BY <3>1, <3>3 DEF RateKept, PauseInv
    <2>4. ASSUME ~ SendDatagrams, ~ StartSending PROVE UNCHANGED udpVars
      BY <2>4 DEF Next, vars, ReadFile, Start, GenerateDb, CreateTable, StartPacking, PassMessage
    <2> QED BY <2>1, <2>2, <2>3, <2>4
  <1> QED BY <1>1, <1>2, <1>3, <1>4, PTL DEF Spec

-----------------------------------------------------------------------------
(* The file has the shape that documentation/design.rst gives it.  In      *)
(* another one, the parser takes keys for channels that are none.          *)
DocumentedShape == AnyShape = FALSE

(* Where a file of that shape has its values. *)
LEMMA ShapeAllows ==
  ASSUME DocumentedShape, NEW what, File!Documented(what)
  PROVE  \/ what = "map" /\ Len(stack) = 0
         \/ what = "map" /\ Len(stack) = 1 /\ stack[1].key = "channel_names"
         \/ what = "map" /\ Len(stack) = 2 /\ File!InMap
         \/ what = "array" /\ Len(stack) = 3 /\ File!InMap
         \/ what = "string" /\ Len(stack) = 4
         \/ what \in {"string", "number"} /\ File!InMap /\ File!Top.key = OtherKey
         \/ what = "number" /\ Len(stack) = 1 /\ File!Top.key \in File!NumberKey
  <1>1. Len(stack) = 1 => File!Path[1] = stack[1].key
    BY DEF File!Path
  <1> QED BY <1>1 DEF File!Documented, DocumentedShape

(* Every event of a file of that shape keeps what is known of it. *)
LEMMA ShapeStep ==
  ASSUME DocumentedShape, FileInv, DocInv, File!Event \/ File!Fail \/ File!EndOfFile
  PROVE  DocInv'
  <1> DEFINE n == Len(stack)
  <1>0. /\ stack \in Seq(Container) /\ n \in 0 .. 4 /\ (stack = << >> <=> n = 0)
        /\ reads \in Nat
        /\ config.channels \in Seq(Entry) /\ Len(config.channels) \in Nat
        /\ config = [rate |-> config.rate, heartbeat |-> config.heartbeat,
                     channels |-> config.channels]
    <2>1. stack \in Seq(Container) /\ reads \in Nat /\ config \in Config /\ n <= 4
      BY DEF FileInv, DocInv
    <2>2. /\ config.channels \in Seq(Entry)
          /\ config = [rate |-> config.rate, heartbeat |-> config.heartbeat,
                       channels |-> config.channels]
      BY <2>1 DEF Config
    <2> HIDE DEF Container, Entry
    <2>3. n \in Nat /\ (stack = << >> <=> n = 0)
      BY <2>1
    <2>4. Len(config.channels) \in Nat
      BY <2>2
    <2> HIDE DEF n
    <2>5. n \in 0 .. 4
      BY <2>1, <2>3
    <2> QED BY <2>1, <2>2, <2>3, <2>4, <2>5
  <1>d. /\ level = IF n < 3 THEN n ELSE 3
        /\ n # 0 => reads > 0
        /\ \A i \in 1 .. n : stack[i].kind = IF i < 4 THEN "map" ELSE "array"
        /\ n >= 2 => stack[1].key = "channel_names"
        /\ (n >= 3 /\ stack[3].key # File!NoKey) => current_key = stack[3].key
        /\ n = 4 => stack[3].key # File!NoKey
        /\ n = 2 /\ stack[2].key # File!NoKey => config.channels # << >>
        /\ n > 2 => config.channels # << >>
        /\ current_channel = Len(config.channels)
        /\ config.channels = declared
    BY <1>0 DEF DocInv
  <1>k. File!NoKey = "none" /\ OtherKey # File!NoKey /\ OtherKey \notin File!FieldKey
    BY KeyAssumption DEF File!NoKey, File!FieldKey
  <1>m. File!InMap => n \in 1 .. 3 /\ File!Top = stack[n]
    <2>1. File!InMap => n # 0 /\ stack[n].kind = "map" /\ File!Top = stack[n]
      BY <1>0 DEF File!InMap, File!Top
    <2>2. n = 4 => stack[n].kind = "array"
      BY <1>d
    <2> HIDE DEF n
    <2> QED BY <1>0, <2>1, <2>2
  <1>a. File!InArray => n = 4
    <2>1. File!InArray => stack # << >> /\ stack[n].kind = "array"
      BY DEF File!InArray, File!Top
    <2>2. n # 0 /\ n # 4 => stack[n].kind = "map"
      <3> HIDE DEF n
      <3> QED BY <1>0, <1>d
    <2> QED BY <1>0, <2>1, <2>2
  <1>v. File!ValueNext => n = 0 \/ n = 4 \/ (n \in 1 .. 3 /\ stack[n].key # File!NoKey)
    BY <1>0, <1>m, <1>a DEF File!ValueNext
  <1> DEFINE s == stack'
  (* What all the steps come to. *)
  <1>1. ASSUME Len(s) <= 4, File!Count, level' = IF Len(s) < 3 THEN Len(s) ELSE 3,
               \A i \in 1 .. Len(s) : s[i].kind = IF i < 4 THEN "map" ELSE "array",
               Len(s) >= 2 => s[1].key = "channel_names",
               (Len(s) >= 3 /\ s[3].key # File!NoKey) => current_key' = s[3].key,
               Len(s) = 4 => s[3].key # File!NoKey,
               (Len(s) > 2 \/ (Len(s) = 2 /\ s[2].key # File!NoKey)) => config'.channels # << >>,
               current_channel' = Len(config'.channels),
               config'.channels = declared'
        PROVE  DocInv'
    <2>1. reads' = reads + 1 /\ reads' > 0
      BY <1>0, <1>1 DEF File!Count
    <2> QED BY <1>1, <2>1 DEF DocInv
  <1> HIDE DEF n
  <1>2. CASE File!StartMap
    <2>1. /\ s = File!Opened("map") /\ level' = level + 1 /\ File!Count
          /\ UNCHANGED <<current_key, current_channel, config, declared>>
          /\ File!ValueNext /\ File!Documented("map")
      BY <1>2 DEF File!StartMap, File!LevelIn, File!Value
    <2>2. /\ n \in 0 .. 2
          /\ n = 1 => stack[1].key = "channel_names"
          /\ n = 2 => stack[2].key # File!NoKey
      <3>1. \/ n = 0
            \/ n = 1 /\ stack[1].key = "channel_names"
            \/ n = 2 /\ File!InMap
        BY <2>1, ShapeAllows DEF n
      <3> QED BY <1>v, <2>1, <3>1
    <2> HIDE DEF s
    <2>3. /\ s \in Seq(Container) /\ Len(s) = n + 1
          /\ \A i \in 1 .. n : s[i] = stack[i]
          /\ s[n + 1].kind = "map" /\ s[n + 1].key = File!NoKey
      BY <1>0, <2>1, OpenSet DEF n
    <2>4. /\ Len(s) <= 4
          /\ level' = IF n + 1 < 3 THEN n + 1 ELSE 3
          /\ \A i \in 1 .. n + 1 : s[i].kind = IF i < 4 THEN "map" ELSE "array"
      BY <1>d, <2>1, <2>2, <2>3
    <2>5. /\ n + 1 >= 2 => s[1].key = "channel_names"
          /\ n + 1 >= 3 => s[3].key = File!NoKey /\ n = 2
          /\ n + 1 = 2 => s[2].key = File!NoKey
          /\ n + 1 # 4
      BY <1>d, <2>2, <2>3
    <2> QED 
      <3>1. /\ level' = IF Len(s) < 3 THEN Len(s) ELSE 3
            /\ \A i \in 1 .. Len(s) : s[i].kind = IF i < 4 THEN "map" ELSE "array"
            /\ Len(s) >= 2 => s[1].key = "channel_names"
            /\ Len(s) >= 3 => s[3].key = File!NoKey /\ n = 2
            /\ Len(s) = 2 => s[2].key = File!NoKey
            /\ Len(s) # 4
        BY <2>3, <2>4, <2>5
      <3>2. Len(s) > 2 => config'.channels # << >>
        BY <1>d, <2>1, <2>2, <3>1
      <3>3. config'.channels = declared' /\ current_channel' = Len(config'.channels)
        BY <1>d, <2>1
      <3> QED BY <1>1, <2>1, <2>4, <3>1, <3>2, <3>3 DEF s
  <1>3. CASE File!StartArray
    <2>1. /\ s = File!Opened("array") /\ level' = level /\ File!Count
          /\ UNCHANGED <<current_key, current_channel, config, declared>>
          /\ File!ValueNext /\ File!Documented("array")
      BY <1>3 DEF File!StartArray, File!LevelIn, File!Value
    <2>2. n = 3 /\ stack[3].key # File!NoKey
      <3>1. n = 3
        BY <2>1, ShapeAllows DEF n
      <3> QED BY <1>v, <2>1, <3>1
    <2> HIDE DEF s
    <2>3. /\ s \in Seq(Container) /\ Len(s) = 4
          /\ \A i \in 1 .. 3 : s[i] = stack[i]
          /\ s[4].kind = "array" /\ s[4].key = File!NoKey
      BY <1>0, <2>1, <2>2, OpenSet DEF n
    <2>4. /\ s # << >> /\ level' = 3
          /\ \A i \in 1 .. 4 : s[i].kind = IF i < 4 THEN "map" ELSE "array"
          /\ s[1].key = "channel_names" /\ s[3].key = stack[3].key
      BY <1>d, <2>1, <2>2, <2>3
    <2>5. config'.channels # << >> /\ config'.channels = declared'
          /\ current_channel' = Len(config'.channels) /\ current_key' = s[3].key
      BY <1>d, <2>1, <2>2, <2>4
    <2>6. /\ Len(s) <= 4 /\ level' = IF Len(s) < 3 THEN Len(s) ELSE 3
          /\ \A i \in 1 .. Len(s) : s[i].kind = IF i < 4 THEN "map" ELSE "array"
          /\ Len(s) = 4 => s[3].key # File!NoKey
      BY <2>2, <2>3, <2>4
    <2> QED BY <1>1, <2>1, <2>4, <2>5, <2>6 DEF s
  (* A container is closed. *)
  <1>4. ASSUME n \in 1 .. 4, s = File!Closed, File!Count,
               level' = IF n < 4 THEN level - 1 ELSE level,
               UNCHANGED <<current_key, current_channel, config, declared>>
        PROVE  DocInv'
    <2> HIDE DEF s
    <2>1. /\ s \in Seq(Container) /\ Len(s) = n - 1
          /\ \A i \in 1 .. n - 1 : s[i].kind = stack[i].kind
          /\ \A i \in 1 .. n - 1 : i # n - 1 => s[i] = stack[i]
          /\ n > 1 => s[n - 1].key = File!NoKey
      
      <3> DEFINE r == File!Closed
      <3>1. /\ r \in Seq(Container) /\ Len(r) = n - 1
            /\ \A i \in 1 .. n - 1 : r[i].kind = stack[i].kind
            /\ \A i \in 1 .. n - 1 : i # n - 1 => r[i] = stack[i]
            /\ n > 1 => r[n - 1].key = File!NoKey
        <4>1. stack # << >>
          BY <1>0, <1>4
        <4> QED BY <1>0, <4>1, CloseSet DEF n
      <3> QED BY <1>4, <3>1
    <2>2. /\ n - 1 \in 0 .. 4 /\ (s = << >> <=> n - 1 = 0)
          /\ level' = IF n - 1 < 3 THEN n - 1 ELSE 3
          /\ \A i \in 1 .. n - 1 : s[i].kind = IF i < 4 THEN "map" ELSE "array"
      BY <1>4, <1>d, <2>1
    <2>3. /\ n - 1 >= 2 => s[1].key = "channel_names"
          /\ n - 1 >= 3 => s[3].key = File!NoKey
          /\ n - 1 = 2 => s[2].key = File!NoKey
          /\ n - 1 # 4
      BY <1>4, <1>d, <2>1
    <2>4. n - 1 > 2 => config.channels # << >>
      BY <1>4, <1>d
    <2> QED BY <1>1, <1>4, <1>d, <2>1, <2>2, <2>3, <2>4 DEF s
  <1>5. CASE File!EndMap
    <2>1. /\ s = File!Closed /\ level' = level - 1 /\ File!Count /\ File!InMap
          /\ UNCHANGED <<current_key, current_channel, config, declared>>
      BY <1>5 DEF File!EndMap
    <2> QED BY <1>4, <1>m, <2>1
  <1>6. CASE File!EndArray
    <2>1. /\ s = File!Closed /\ level' = level /\ File!Count /\ File!InArray
          /\ UNCHANGED <<current_key, current_channel, config, declared>>
      BY <1>6 DEF File!EndArray
    <2>2. n = 4
      BY <1>a, <2>1
    <2> QED BY <1>4, <2>1, <2>2
  <1>7. ASSUME NEW key \in File!Keys, stack # << >>, File!MapKey(key) PROVE DocInv'
    <2>1. key \in Key
      BY DEF File!Keys, Key
    <2>2. /\ s = [stack EXCEPT ![Len(stack)].key = key] /\ current_key' = key /\ level' = level
          /\ File!Count /\ File!InMap
          /\ IF level = 2
             THEN /\ config' = [config EXCEPT !.channels = Append(@, File!ConfigChannel(key))]
                  /\ current_channel' = Len(config.channels) + 1
             ELSE UNCHANGED <<config, current_channel>>
          /\ declared' = IF n = 2 /\ File!Path[1] = "channel_names"
                         THEN Append(declared, File!ConfigChannel(key)) ELSE declared
      BY <1>7 DEF File!MapKey, File!IsChannelKey, n
    <2>3. n \in 1 .. 3
      BY <1>m, <2>2
    <2> HIDE DEF s
    <2>4. /\ s \in Seq(Container) /\ Len(s) = n
          /\ \A i \in 1 .. n : s[i].kind = stack[i].kind
          /\ \A i \in 1 .. n : i # n => s[i] = stack[i]
          /\ s[n].key = key
      <3> DEFINE r == [stack EXCEPT ![Len(stack)].key = key]
      <3>1. /\ r \in Seq(Container) /\ Len(r) = Len(stack)
            /\ \A i \in 1 .. Len(stack) : r[i].kind = stack[i].kind
            /\ \A i \in 1 .. Len(stack) : i # Len(stack) => r[i] = stack[i]
            /\ r[Len(stack)].key = key
        BY <1>0, <1>7, <2>1, KeySet
      <3>2. s = r
        BY <2>2
      <3> HIDE DEF r
      <3> QED BY <3>1, <3>2 DEF n
    <2>5. /\ (s = << >> <=> n = 0) /\ level' = IF n < 3 THEN n ELSE 3
          /\ \A i \in 1 .. n : s[i].kind = IF i < 4 THEN "map" ELSE "array"
          /\ n >= 2 => s[1].key = "channel_names"
          /\ n >= 3 => current_key' = s[3].key
          /\ n # 4 /\ n \in 0 .. 4
      BY <1>d, <2>2, <2>3, <2>4
    <2>6. CASE n = 2
      <3> DEFINE r == Append(config.channels, File!ConfigChannel(key))
      <3>1. Len(r) = Len(config.channels) + 1 /\ r \in Seq(Entry)
        BY <1>0, <2>1, ChannelAdded
      <3>2. File!Path[1] = "channel_names"
        BY <1>d, <2>6 DEF File!Path, n
      <3>3. /\ config' = [config EXCEPT !.channels = r]
            /\ current_channel' = Len(config.channels) + 1 /\ declared' = r
        BY <1>d, <2>2, <2>6, <3>2
      <3> HIDE DEF r
      <3>4. config'.channels = r
        BY <1>0, <3>3
      <3>5. r # << >>
        <4>1. Len(r) # 0
          BY <1>0, <3>1
        <4> QED BY <4>1
      <3>6. /\ Len(s) <= 4 /\ level' = IF Len(s) < 3 THEN Len(s) ELSE 3
            /\ \A i \in 1 .. Len(s) : s[i].kind = IF i < 4 THEN "map" ELSE "array"
            /\ Len(s) = 2 /\ s[1].key = "channel_names"
        BY <2>4, <2>5, <2>6
      <3>7. /\ config'.channels # << >> /\ config'.channels = declared'
            /\ current_channel' = Len(config'.channels)
        BY <3>1, <3>3, <3>4, <3>5
      <3>8. File!Count
        BY <2>2
      <3> QED BY <1>1, <3>6, <3>7, <3>8 DEF s
    <2>7. CASE n # 2
      <3>1. config' = config /\ current_channel' = current_channel /\ declared' = declared
        BY <1>d, <2>2, <2>3, <2>7
      <3> QED BY <1>1, <1>d, <2>2, <2>3, <2>4, <2>5, <2>7, <3>1 DEF s
    <2> QED BY <2>6, <2>7
  (* A value is read that is not a container. *)
  <1>8. ASSUME n \in 1 .. 4, stack' = File!ValueRead(stack), File!Count,
               level' = level, current_key' = current_key, current_channel' = current_channel,
               Len(config'.channels) = Len(config.channels),
               config'.channels # << >> <=> config.channels # << >>,
               config'.channels = declared'
        PROVE  DocInv'
    <2> HIDE DEF s
    <2>1. /\ s \in Seq(Container) /\ Len(s) = n
          /\ \A i \in 1 .. n : s[i].kind = stack[i].kind
          /\ \A i \in 1 .. n : i # n => s[i] = stack[i]
          /\ s[n].key = File!NoKey
      <3> DEFINE r == File!ValueRead(stack)
      <3>1. /\ r \in Seq(Container) /\ Len(r) = Len(stack)
            /\ \A i \in 1 .. Len(stack) : r[i].kind = stack[i].kind
            /\ \A i \in 1 .. Len(stack) : i # Len(stack) => r[i] = stack[i]
            /\ stack # << >> => r[Len(stack)].key = File!NoKey
        BY <1>0, ValueSet
      <3> HIDE DEF r
      <3>2. s = r
        BY <1>8 DEF r, s
      <3>3. stack # << >>
        BY <1>0, <1>8
      <3> QED BY <3>1, <3>2, <3>3 DEF n
    <2>2. /\ (s = << >> <=> n = 0) /\ level' = IF n < 3 THEN n ELSE 3
          /\ \A i \in 1 .. n : s[i].kind = IF i < 4 THEN "map" ELSE "array"
          /\ n >= 2 => s[1].key = "channel_names"
          /\ (n >= 3 /\ s[3].key # File!NoKey) => current_key' = s[3].key
          /\ n = 4 => s[3].key # File!NoKey
          /\ n = 2 => s[2].key = File!NoKey
          /\ n \in 0 .. 4
      BY <1>d, <1>8, <2>1
    <2> QED BY <1>1, <1>d, <1>8, <2>1, <2>2 DEF s
  <1>9. ASSUME NEW f \in FieldName, File!String(f) PROVE DocInv'
    <2>0. /\ stack' = File!ValueRead(stack) /\ File!Count
          /\ level' = level /\ current_key' = current_key /\ current_channel' = current_channel
      BY <1>9 DEF File!String
    <2>1. /\ File!ValueNext /\ File!Documented("string")
          /\ config' = IF level = 3 /\ current_key \in File!FieldKey /\ current_channel # 0
                       THEN [config EXCEPT !.channels =
                               File!WithField(@, current_channel, current_key, f)]
                       ELSE config
          /\ declared' = IF n = 4 /\ File!Path[1] = "channel_names" /\ File!Path[3] \in File!FieldKey
                            /\ stack[3].kind = "map" /\ File!InArray
                         THEN File!WithField(declared, Len(declared), File!Path[3], f) ELSE declared
      BY <1>9 DEF File!String, File!Value, n
    <2>2. CASE n = 4
      <3>1. /\ File!Path[1] = "channel_names" /\ File!Path[3] = current_key
            /\ stack[3].kind = "map" /\ File!InArray
        BY <1>0, <1>d, <2>2 DEF File!Path, File!InArray, File!Top, n
      <3>2. current_channel # 0 /\ level = 3
        BY <1>0, <1>d, <2>2
      <3> DEFINE r == File!WithField(config.channels, Len(config.channels), current_key, f)
      <3>3. r \in Seq(Entry) /\ Len(r) = Len(config.channels)
        BY <1>0, FieldAdded
      <3>4. \/ config' = [config EXCEPT !.channels = r] /\ declared' = r
            \/ config' = config /\ declared' = declared
        BY <1>d, <2>1, <2>2, <3>1, <3>2
      <3> HIDE DEF r
      <3>5. \/ config'.channels = r /\ declared' = r
            \/ config' = config /\ declared' = declared
        BY <1>0, <3>4
      <3>6. r # << >> <=> config.channels # << >>
        BY <1>0, <3>3
      <3>7. /\ Len(config'.channels) = Len(config.channels)
            /\ config'.channels # << >> <=> config.channels # << >>
            /\ config'.channels = declared'
        BY <1>d, <3>3, <3>5, <3>6
      <3> QED BY <1>8, <2>0, <2>2, <3>7
    <2>3. CASE n # 4
      <3>1. File!InMap /\ stack[n].key = OtherKey /\ n \in 1 .. 3
        BY <1>m, <2>1, <2>3, ShapeAllows DEF n
      <3>2. level = 3 => current_key = OtherKey
        BY <1>d, <1>k, <3>1
      <3>3. config' = config /\ declared' = declared
        BY <1>k, <2>1, <2>3, <3>2
      <3>4. /\ Len(config'.channels) = Len(config.channels)
            /\ config'.channels # << >> <=> config.channels # << >>
            /\ config'.channels = declared'
        BY <1>d, <3>3
      <3> QED BY <1>8, <2>0, <3>1, <3>4
    <2> QED BY <2>2, <2>3
  <1>10. ASSUME NEW d \in Number, File!Num(d) PROVE DocInv'
    <2>1. /\ s = File!ValueRead(stack) /\ File!Count
          /\ UNCHANGED <<level, current_key, current_channel, declared>>
          /\ File!Documented("number")
          /\ config' \in {config, [config EXCEPT !.rate = d \div Unit],
                          [config EXCEPT !.heartbeat = d]}
      BY <1>10 DEF File!Num, File!Value
    <2>2. n \in 1 .. 3
      BY <1>m, <2>1, ShapeAllows DEF n
    <2>3. config'.channels = config.channels
      BY <1>0, <2>1
    <2> QED BY <1>8, <1>d, <2>1, <2>2, <2>3
  <1>11. CASE File!Fail \/ File!EndOfFile
    BY <1>11 DEF DocInv, File!Fail, File!EndOfFile
  <1> QED BY <1>2, <1>3, <1>5, <1>6, <1>7, <1>9, <1>10, <1>11 DEF File!Event

(* The steps that read no file. *)
LEMMA FileKept ==
  ASSUME [Next]_vars, ~ ReadFile
  PROVE  \/ UNCHANGED fileVars /\ (program' = "file" => program = "file")
         \/ FileForgotten /\ program' # "file" /\ program' \notin Starts
  <1>1. ASSUME NEW p \in Starts, Start(p) PROVE UNCHANGED fileVars /\ program = "file"
    BY <1>1 DEF Start
  <1>2. CASE StartSending \/ StartPacking
    BY <1>2 DEF StartSending, StartPacking, Starts
  <1>3. CASE GenerateDb \/ CreateTable \/ SendDatagrams \/ PassMessage \/ UNCHANGED vars
    BY <1>3 DEF GenerateDb, CreateTable, SendDatagrams, PassMessage, vars
  <1> QED BY <1>1, <1>2, <1>3 DEF Next

(* However far a file of the documented shape goes, the parser has found   *)
(* the channels and the fields it declares so far, in their order          *)
(* (parser_yajl_map_key, parser_yajl_string).                              *)
THEOREM ProgramsParsedAsDeclared ==
  ASSUME DocumentedShape
  PROVE  Spec => []ParsedAsDeclared
  <1>1. Init => TypeInv
    BY TypeStart
  <1>2. TypeInv /\ [Next]_vars => TypeInv'
    BY TypeStep
  <1>3. Init => ShapeInv /\ ParsedAsDeclared
    BY DEF Init, File!FileInit, File!EmptyConfig, ShapeInv, DocInv, ParsedAsDeclared
  <1>4. TypeInv /\ ShapeInv /\ ParsedAsDeclared /\ [Next]_vars => ShapeInv' /\ ParsedAsDeclared'
    <2> SUFFICES ASSUME TypeInv, ShapeInv, ParsedAsDeclared, [Next]_vars
                 PROVE  ShapeInv' /\ ParsedAsDeclared'
      OBVIOUS
    <2>1. CASE ReadFile
      <3>1. /\ program = "file" /\ program' = program
            /\ File!Event \/ File!Fail \/ File!EndOfFile
        BY <2>1 DEF ReadFile
      <3>2. DocInv'
        BY <3>1, ShapeStep DEF ShapeInv, TypeInv
      <3> QED BY <3>2 DEF ShapeInv, ParsedAsDeclared, DocInv
    <2>2. CASE UNCHANGED fileVars /\ (program' = "file" => program = "file")
      BY <2>2 DEF ShapeInv, DocInv, ParsedAsDeclared, fileVars
    <2>3. CASE FileForgotten /\ program' # "file"
      BY <2>3 DEF ShapeInv, ParsedAsDeclared, FileForgotten, File!EmptyConfig
    <2> QED BY <2>1, <2>2, <2>3, FileKept
  <1> QED BY <1>1, <1>2, <1>3, <1>4, PTL DEF Spec

-----------------------------------------------------------------------------
(* Sequences in one: the function Concat computes exists, because each of  *)
(* its values comes from the one before.                                   *)
CatStep(f, g, i) == IF i = 0 THEN << >> ELSE g[i - 1] \o f[i]
IsCat(f, g, n) == g = [i \in 0 .. n |-> CatStep(f, g, i)]

(* It exists. *)
LEMMA CatExists ==
  ASSUME NEW f, NEW n \in Nat
  PROVE  \E g : IsCat(f, g, n) /\ Concat(f, n) = g[n]
  <1> DEFINE S == {m \in Nat : \E g : IsCat(f, g, m)}
  <1>1. 0 \in S
    <2> DEFINE g == [i \in 0 .. 0 |-> << >>]
    <2>1. \A i \in 0 .. 0 : i = 0 /\ CatStep(f, g, i) = << >>
      BY DEF CatStep
    <2>2. [i \in 0 .. 0 |-> CatStep(f, g, i)] = g
      BY <2>1
    <2> HIDE DEF g
    <2>3. IsCat(f, g, 0)
      BY <2>2 DEF IsCat
    <2> QED BY <2>3
  <1>2. ASSUME NEW m \in Nat, m \in S PROVE m + 1 \in S
    <2>1. PICK g : IsCat(f, g, m)
      BY <1>2
    <2> DEFINE h == [i \in 0 .. m + 1 |-> IF i = m + 1 THEN g[m] \o f[m + 1] ELSE g[i]]
    <2>2. ASSUME NEW i \in 0 .. m + 1
          PROVE  h[i] = CatStep(f, h, i)
      <3>1. CASE i = m + 1
        <4>1. i # 0 /\ i - 1 = m /\ m \in 0 .. m + 1 /\ m # m + 1
          BY <3>1
        <4>2. h[m] = g[m] /\ h[i] = g[m] \o f[m + 1]
          BY <3>1, <4>1
        <4> QED BY <3>1, <4>1, <4>2 DEF CatStep
      <3>2. CASE i # m + 1
        <4>1. i \in 0 .. m /\ (i # 0 => i - 1 \in 0 .. m + 1 /\ i - 1 # m + 1)
          BY <3>2
        <4>2. h[i] = g[i] /\ (i # 0 => h[i - 1] = g[i - 1])
          BY <3>2, <4>1
        <4>3. g[i] = CatStep(f, g, i)
          BY <2>1, <4>1 DEF IsCat
        <4> QED BY <4>2, <4>3 DEF CatStep
      <3> QED BY <3>1, <3>2
    <2>3. IsCat(f, h, m + 1)
      <3>1. h = [i \in 0 .. m + 1 |-> h[i]]
        OBVIOUS
      <3> HIDE DEF h
      <3> QED BY <2>2, <3>1 DEF IsCat
    <2> HIDE DEF h
    <2> QED BY <2>3
  <1>3. n \in S
    <2> HIDE DEF S
    <2>1. Nat \subseteq S
      BY <1>1, <1>2, SetInduction
    <2> QED BY <2>1
  <1>4. \E g : IsCat(f, g, n)
    BY <1>3
  <1> DEFINE cat == CHOOSE g : IsCat(f, g, n)
  <1>5. Concat(f, n) = cat[n]
    BY DEF Concat, IsCat, CatStep
  <1>6. IsCat(f, cat, n)
    BY <1>4
  <1> HIDE DEF cat
  <1> QED BY <1>5, <1>6

(* Functions that start alike have the same sequences to begin with. *)
LEMMA CatSame ==
  ASSUME NEW f, NEW g, NEW n \in Nat, IsCat(f, g, n),
         NEW e, NEW h, NEW m \in Nat, IsCat(e, h, m),
         NEW k \in Nat, k <= n, k <= m, \A i \in 1 .. k : f[i] = e[i]
  PROVE  g[k] = h[k]
  <1> DEFINE S == {i \in Nat : i <= k => g[i] = h[i]}
  <1>1. /\ \A i \in 0 .. n : g[i] = CatStep(f, g, i)
        /\ \A i \in 0 .. m : h[i] = CatStep(e, h, i)
    BY DEF IsCat
  <1>2. 0 \in S
    <2>1. g[0] = << >> /\ h[0] = << >>
      BY <1>1 DEF CatStep
    <2> QED BY <2>1
  <1>3. ASSUME NEW i \in Nat, i \in S PROVE i + 1 \in S
    <2> SUFFICES ASSUME i + 1 <= k PROVE g[i + 1] = h[i + 1]
      OBVIOUS
    <2>1. /\ i <= k /\ i + 1 \in 0 .. n /\ i + 1 \in 0 .. m /\ i + 1 \in 1 .. k
          /\ i + 1 # 0 /\ (i + 1) - 1 = i
      OBVIOUS
    <2>2. g[i] = h[i] /\ f[i + 1] = e[i + 1]
      BY <1>3, <2>1
    <2>3. g[i + 1] = g[i] \o f[i + 1] /\ h[i + 1] = h[i] \o e[i + 1]
      BY <1>1, <2>1 DEF CatStep
    <2> QED BY <2>2, <2>3
  <1>4. k \in S
    <2> HIDE DEF S
    <2>1. Nat \subseteq S
      BY <1>2, <1>3, SetInduction
    <2> QED BY <2>1
  <1> QED BY <1>4

(* Only the first n sequences matter, and one comes after the other. *)
LEMMA ConcatSame ==
  ASSUME NEW f, NEW e, NEW n \in Nat, \A i \in 1 .. n : f[i] = e[i]
  PROVE  Concat(f, n) = Concat(e, n)
  <1>1. PICK g : IsCat(f, g, n) /\ Concat(f, n) = g[n]
    BY CatExists
  <1>2. PICK h : IsCat(e, h, n) /\ Concat(e, n) = h[n]
    BY CatExists
  <1>3. n <= n
    OBVIOUS
  <1> QED BY <1>1, <1>2, <1>3, CatSame

(* One more sequence comes after the others. *)
LEMMA ConcatStep ==
  ASSUME NEW f, NEW n \in Nat
  PROVE  Concat(f, 0) = << >> /\ Concat(f, n + 1) = Concat(f, n) \o f[n + 1]
  <1>1. Concat(f, 0) = << >>
    <2>1. PICK g : IsCat(f, g, 0) /\ Concat(f, 0) = g[0]
      BY CatExists
    <2>2. g[0] = CatStep(f, g, 0)
      BY <2>1 DEF IsCat
    <2> QED BY <2>1, <2>2 DEF CatStep
  <1>2. PICK g : IsCat(f, g, n) /\ Concat(f, n) = g[n]
    BY CatExists
  <1>3. PICK h : IsCat(f, h, n + 1) /\ Concat(f, n + 1) = h[n + 1]
    BY CatExists
  <1>4. g[n] = h[n]
    <2>1. n + 1 \in Nat /\ n <= n /\ n <= n + 1
      OBVIOUS
    <2> QED BY <1>2, <1>3, <2>1, CatSame
  <1>5. h[n + 1] = h[n] \o f[n + 1]
    <2>1. n + 1 \in 0 .. n + 1 /\ n + 1 # 0 /\ (n + 1) - 1 = n
      OBVIOUS
    <2>2. h[n + 1] = CatStep(f, h, n + 1)
      BY <1>3, <2>1 DEF IsCat
    <2> QED BY <2>1, <2>2 DEF CatStep
  <1> QED BY <1>1, <1>2, <1>3, <1>4, <1>5

(* They are sequences, each the beginning of the next ones. *)
LEMMA ConcatSeq ==
  ASSUME NEW T, NEW f, NEW n \in Nat, \A i \in 1 .. n : f[i] \in Seq(T)
  PROVE  Concat(f, n) \in Seq(T)
  <1> DEFINE S == {i \in Nat : i <= n => Concat(f, i) \in Seq(T)}
  <1>1. 0 \in S
    <2>1. Concat(f, 0) = << >>
      BY ConcatStep
    <2>2. << >> \in Seq(T)
      OBVIOUS
    <2> QED BY <2>1, <2>2
  <1>2. ASSUME NEW i \in Nat, i \in S PROVE i + 1 \in S
    <2> SUFFICES ASSUME i + 1 <= n PROVE Concat(f, i + 1) \in Seq(T)
      OBVIOUS
    <2>1. Concat(f, i) \in Seq(T) /\ f[i + 1] \in Seq(T)
      BY <1>2
    <2>2. Concat(f, i + 1) = Concat(f, i) \o f[i + 1]
      BY ConcatStep
    <2> DEFINE s == Concat(f, i)  e == f[i + 1]
    <2>3. s \in Seq(T) /\ e \in Seq(T) /\ Concat(f, i + 1) = s \o e
      BY <2>1, <2>2
    <2> HIDE DEF s, e
    <2>4. s \o e \in Seq(T)
      BY <2>3
    <2> QED BY <2>3, <2>4
  <1>3. n \in S
    <2> HIDE DEF S
    <2>1. Nat \subseteq S
      BY <1>1, <1>2, SetInduction
    <2> QED BY <2>1
  <1> QED BY <1>3

(* The first k sequences are how the n of them begin. *)
LEMMA ConcatPrefix ==
  ASSUME NEW T, NEW f, NEW n \in Nat, \A i \in 1 .. n : f[i] \in Seq(T),
         NEW k \in 0 .. n
  PROVE  /\ Len(Concat(f, k)) \in Nat /\ Len(Concat(f, n)) \in Nat
         /\ Len(Concat(f, k)) <= Len(Concat(f, n))
         /\ \A j \in 1 .. Len(Concat(f, k)) : Concat(f, n)[j] = Concat(f, k)[j]
  <1> DEFINE a(i) == Concat(f, i)
             S == {i \in Nat : (i >= k /\ i <= n) =>
                     /\ Len(a(k)) <= Len(a(i))
                     /\ \A j \in 1 .. Len(a(k)) : a(i)[j] = a(k)[j]}
  <1>1. ASSUME NEW i \in 0 .. n PROVE a(i) \in Seq(T) /\ Len(a(i)) \in Nat
    <2>1. i \in Nat /\ \A j \in 1 .. i : f[j] \in Seq(T)
      OBVIOUS
    <2>2. a(i) \in Seq(T)
      BY <2>1, ConcatSeq
    <2> HIDE DEF a
    <2> QED BY <2>2
  <1>2. \A i \in 0 .. n - 1 : a(i + 1) = a(i) \o f[i + 1] /\ f[i + 1] \in Seq(T)
    <2> TAKE i \in 0 .. n - 1
    <2>1. i \in Nat /\ i + 1 \in 1 .. n
      OBVIOUS
    <2> QED BY <2>1, ConcatStep
  <1> HIDE DEF a
  <1>3. 0 \in S
    <2>1. k <= 0 => k = 0
      OBVIOUS
    <2> QED BY <1>1, <2>1
  <1>4. ASSUME NEW i \in Nat, i \in S PROVE i + 1 \in S
    <2> SUFFICES ASSUME i + 1 >= k, i + 1 <= n
                 PROVE  /\ Len(a(k)) <= Len(a(i + 1))
                        /\ \A j \in 1 .. Len(a(k)) : a(i + 1)[j] = a(k)[j]
      OBVIOUS
    <2>1. CASE k = i + 1
      <3>1. Len(a(k)) \in Nat
        BY <1>1
      <3> QED BY <2>1, <3>1
    <2>2. CASE k # i + 1
      <3>1. i >= k /\ i <= n /\ i \in 0 .. n - 1 /\ i \in 0 .. n
        BY <2>2
      <3>2. Len(a(k)) <= Len(a(i)) /\ \A j \in 1 .. Len(a(k)) : a(i)[j] = a(k)[j]
        BY <1>4, <3>1
      <3> DEFINE s == a(i)  e == f[i + 1]  r == a(i + 1)
      <3>3. s \in Seq(T) /\ Len(s) \in Nat /\ e \in Seq(T) /\ r = s \o e /\ Len(a(k)) \in Nat
        BY <1>1, <1>2, <3>1
      <3> DEFINE c == Len(a(k))
      <3> HIDE DEF s, e, r
      <3>4. Len(r) >= Len(s) /\ \A j \in 1 .. Len(s) : r[j] = s[j]
        BY <3>3
      <3>5. c \in Nat /\ c <= Len(s) /\ \A j \in 1 .. c : s[j] = a(k)[j]
        BY <3>2, <3>3 DEF s
      <3>6. Len(r) \in Nat
        BY <3>3
      <3> HIDE DEF c
      <3>7. c <= Len(r) /\ \A j \in 1 .. c : r[j] = a(k)[j]
        BY <3>3, <3>4, <3>5, <3>6
      <3> QED BY <3>7 DEF c, r
    <2> QED BY <2>1, <2>2
  <1>5. n \in S
    <2> HIDE DEF S
    <2>1. Nat \subseteq S
      BY <1>3, <1>4, SetInduction
    <2> QED BY <2>1
  <1>6. n \in 0 .. n /\ n >= k
    OBVIOUS
  <1> QED BY <1>1, <1>5, <1>6 DEF a

(* One more element in one of them is one more in all. *)
OneLonger(T, f, e, n, k) ==
  /\ \A i \in 1 .. n : f[i] \in Seq(T) /\ e[i] \in Seq(T)
  /\ \A i \in 1 .. n : i # k => e[i] = f[i]
  /\ Len(e[k]) = Len(f[k]) + 1

(* One element more in one of them is one more in all. *)
LEMMA ConcatGrows ==
  ASSUME NEW T, NEW f, NEW e, NEW n \in Nat, NEW k \in 1 .. n, OneLonger(T, f, e, n, k)
  PROVE  Len(Concat(e, n)) = Len(Concat(f, n)) + 1
  <1> USE DEF OneLonger
  <1> DEFINE a(i) == Concat(f, i)
             b(i) == Concat(e, i)
             S == {i \in Nat : i <= n => Len(b(i)) = IF i < k THEN Len(a(i)) ELSE Len(a(i)) + 1}
  <1>1. \A i \in 0 .. n : a(i) \in Seq(T) /\ b(i) \in Seq(T)
    <2> TAKE i \in 0 .. n
    <2>1. i \in Nat /\ \A j \in 1 .. i : j \in 1 .. n
      OBVIOUS
    <2>2. /\ \A j \in 1 .. i : f[j] \in Seq(T)
          /\ \A j \in 1 .. i : e[j] \in Seq(T)
      BY <2>1
    <2> QED BY <2>1, <2>2, ConcatSeq
  <1>2. \A i \in 0 .. n - 1 : a(i + 1) = a(i) \o f[i + 1] /\ b(i + 1) = b(i) \o e[i + 1]
    <2> TAKE i \in 0 .. n - 1
    <2>1. i \in Nat
      OBVIOUS
    <2> QED BY <2>1, ConcatStep
  <1>3. a(0) = << >> /\ b(0) = << >>
    BY ConcatStep
  <1> HIDE DEF a, b
  <1>4. 0 \in S
    BY <1>3
  <1>5. ASSUME NEW i \in Nat, i \in S PROVE i + 1 \in S
    <2> SUFFICES ASSUME i + 1 <= n
                 PROVE  Len(b(i + 1)) = IF i + 1 < k THEN Len(a(i + 1)) ELSE Len(a(i + 1)) + 1
      OBVIOUS
    <2>1. i \in 0 .. n - 1 /\ i \in 0 .. n /\ i <= n /\ i + 1 \in 1 .. n
      OBVIOUS
    <2> DEFINE s == a(i)  t == b(i)  u == f[i + 1]  v == e[i + 1]
    <2>2. /\ a(i + 1) = s \o u /\ b(i + 1) = t \o v
          /\ s \in Seq(T) /\ t \in Seq(T) /\ u \in Seq(T) /\ v \in Seq(T)
      BY <1>1, <1>2, <2>1
    <2>3. Len(t) = IF i < k THEN Len(s) ELSE Len(s) + 1
      BY <1>5, <2>1
    <2>4. Len(v) = IF i + 1 = k THEN Len(u) + 1 ELSE Len(u)
      BY <2>1
    <2> HIDE DEF s, t, u, v
    <2>5. /\ Len(a(i + 1)) = Len(s) + Len(u) /\ Len(b(i + 1)) = Len(t) + Len(v)
          /\ Len(s) \in Nat /\ Len(t) \in Nat /\ Len(u) \in Nat /\ Len(v) \in Nat
      BY <2>2
    <2> DEFINE ls == Len(s)  lt == Len(t)  lu == Len(u)  lv == Len(v)
               la == Len(a(i + 1))  lb == Len(b(i + 1))
    <2>6. /\ la = ls + lu /\ lb = lt + lv
          /\ ls \in Nat /\ lt \in Nat /\ lu \in Nat /\ lv \in Nat
          /\ lt = IF i < k THEN ls ELSE ls + 1
          /\ lv = IF i + 1 = k THEN lu + 1 ELSE lu
      BY <2>3, <2>4, <2>5
    <2> HIDE DEF ls, lt, lu, lv, la, lb
    <2>7. lb = IF i + 1 < k THEN la ELSE la + 1
      BY <2>1, <2>6
    <2> QED BY <2>7 DEF la, lb
  <1>6. n \in S
    <2> HIDE DEF S
    <2>1. Nat \subseteq S
      BY <1>4, <1>5, SetInduction
    <2> QED BY <2>1
  <1>7. n <= n /\ ~ (n < k)
    OBVIOUS
  <1> QED BY <1>6, <1>7 DEF a, b

-----------------------------------------------------------------------------
(* What update_hash takes of the channels. *)
HashPart(s) == [i \in 1 .. Len(s) |-> <<s[i].name>> \o s[i].extra \o s[i].polled]
HashTail(s) == Concat(HashPart(s), Len(s))

(* A name and what belongs to it are a sequence. *)
LEMMA EntryItems ==
  ASSUME NEW e \in Entry
  PROVE  /\ <<e.name>> \o e.extra \o e.polled \in Seq(Item)
         /\ Len(<<e.name>> \o e.extra \o e.polled) = 1 + Len(e.extra) + Len(e.polled)
         /\ Len(e.extra) \in Nat /\ Len(e.polled) \in Nat
  <1> DEFINE a == <<e.name>>  x == e.extra  p == e.polled
  <1>1. e.name \in Item /\ x \in Seq(Item) /\ p \in Seq(Item)
    <2>1. e.name \in Key /\ x \in Seq(FieldName) /\ p \in Seq(FieldName)
      BY DEF Entry
    <2>2. FieldName \subseteq Item /\ Key \subseteq Item
      BY DEF Item
    <2> HIDE DEF x, p, Item
    <2> QED BY <2>1, <2>2
  <1>2. a \in Seq(Item) /\ Len(a) = 1
    <2> HIDE DEF Item
    <2> QED BY <1>1
  <1> HIDE DEF a, x, p, Item
  <1>3. a \o x \in Seq(Item) /\ Len(a \o x) = 1 + Len(x)
    <2>1. a \o x \in Seq(Item) /\ Len(a \o x) = Len(a) + Len(x)
      BY <1>1, <1>2, ConcatProperties
    <2> QED BY <1>2, <2>1
  <1> DEFINE b == a \o x
  <1>4. b \in Seq(Item) /\ Len(b) = 1 + Len(x)
    BY <1>3
  <1> HIDE DEF b
  <1>5. b \o p \in Seq(Item) /\ Len(b \o p) = Len(b) + Len(p) /\ Len(x) \in Nat /\ Len(p) \in Nat
    BY <1>1, <1>4
  <1>6. b \o p \in Seq(Item) /\ Len(b \o p) = 1 + Len(x) + Len(p)
    BY <1>4, <1>5
  <1> QED BY <1>5, <1>6 DEF a, b, x, p

(* A channel adds its name and the names of its fields to it. *)
LEMMA HashParts ==
  ASSUME NEW s \in Seq(Entry)
  PROVE  /\ Len(s) \in Nat
         /\ \A i \in 1 .. Len(s) :
              /\ HashPart(s)[i] = <<s[i].name>> \o s[i].extra \o s[i].polled
              /\ HashPart(s)[i] \in Seq(Item)
              /\ Len(HashPart(s)[i]) = 1 + Len(s[i].extra) + Len(s[i].polled)
  <1>1. Len(s) \in Nat /\ \A i \in 1 .. Len(s) : s[i] \in Entry
    BY ElementOfSeq
  <1>2. ASSUME NEW i \in 1 .. Len(s)
        PROVE  /\ HashPart(s)[i] = <<s[i].name>> \o s[i].extra \o s[i].polled
               /\ HashPart(s)[i] \in Seq(Item)
               /\ Len(HashPart(s)[i]) = 1 + Len(s[i].extra) + Len(s[i].polled)
    <2>1. HashPart(s)[i] = <<s[i].name>> \o s[i].extra \o s[i].polled
      BY DEF HashPart
    <2>2. s[i] \in Entry
      BY <1>1
    <2> HIDE DEF HashPart
    <2> QED BY <2>1, <2>2, EntryItems
  <1> QED BY <1>1, <1>2

(* What update_hash takes is a sequence. *)
LEMMA HashSeq ==
  ASSUME NEW s \in Seq(Entry)
  PROVE  HashTail(s) \in Seq(Item) /\ Len(HashTail(s)) \in Nat
  <1> DEFINE n == Len(s)  f == HashPart(s)
  <1>1. n \in Nat /\ \A i \in 1 .. n : f[i] \in Seq(Item)
    BY HashParts
  <1> HIDE DEF n, f
  <1>2. Concat(f, n) \in Seq(Item)
    BY <1>1, ConcatSeq
  <1> DEFINE c == Concat(f, n)
  <1>3. c \in Seq(Item)
    BY <1>2
  <1> HIDE DEF c, Item
  <1>4. Len(c) \in Nat
    BY <1>3
  <1> QED BY <1>3, <1>4 DEF c, f, n, HashTail

(* The hash has the numbers first. *)
LEMMA HashLength ==
  ASSUME NEW c \in Config
  PROVE  Len(HashInput(c)) = 2 + Len(HashTail(c.channels)) /\ Len(HashTail(c.channels)) \in Nat
  <1> DEFINE t == HashTail(c.channels)  a == <<c.heartbeat, c.rate>>  T == Item \cup Nat
  <1>1. c.channels \in Seq(Entry) /\ c.heartbeat \in Nat /\ c.rate \in Nat
    BY DEF Config
  <1>2. t \in Seq(Item) /\ Len(t) \in Nat
    BY <1>1, HashSeq
  <1>3. HashInput(c) = a \o t
    BY DEF HashInput, HashTail, HashPart
  <1> HIDE DEF t
  <1>4. a \in Seq(T) /\ Len(a) = 2
    <2>1. c.heartbeat \in T /\ c.rate \in T
      BY <1>1
    <2> HIDE DEF T
    <2> QED BY <2>1
  <1>5. t \in Seq(T)
    <2>1. Item \subseteq T
      OBVIOUS
    <2> HIDE DEF T, Item
    <2> QED BY <1>2, <2>1
  <1> HIDE DEF T, a
  <1>6. Len(a \o t) = Len(a) + Len(t)
    BY <1>4, <1>5, ConcatProperties
  <1>7. Len(a \o t) = 2 + Len(t)
    BY <1>2, <1>4, <1>6
  <1> QED BY <1>2, <1>3, <1>7 DEF t

(* A channel more is a name more. *)
LEMMA HashChannel ==
  ASSUME NEW s \in Seq(Entry), NEW key \in Key
  PROVE  Len(HashTail(Append(s, File!ConfigChannel(key)))) = Len(HashTail(s)) + 1
  <1> DEFINE e == File!ConfigChannel(key)
             r == Append(s, e)
             n == Len(s)
  <1>1. /\ e = [name |-> key, extra |-> << >>, polled |-> << >>]
        /\ r \in Seq(Entry) /\ Len(r) = n + 1 /\ n \in Nat
        /\ \A j \in 1 .. n : r[j] = s[j]
        /\ r[n + 1] = e
    BY ChannelAdded, HashParts
  <1> HIDE DEF r, n
  <1>2. \A i \in 1 .. n : HashPart(r)[i] = HashPart(s)[i]
    <2> TAKE i \in 1 .. n
    <2>1. i \in 1 .. Len(r) /\ r[i] = s[i] /\ n = Len(s)
      BY <1>1 DEF n
    <2> QED BY <2>1 DEF HashPart
  <1>3. Concat(HashPart(r), n) = Concat(HashPart(s), n)
    <2> HIDE DEF HashPart
    <2> QED BY <1>1, <1>2, ConcatSame
  <1>4. Len(HashPart(r)[n + 1]) = 1 /\ HashPart(r)[n + 1] \in Seq(Item)
    <2>1. n + 1 \in 1 .. Len(r)
      BY <1>1
    <2>2. /\ Len(HashPart(r)[n + 1]) = 1 + Len(r[n + 1].extra) + Len(r[n + 1].polled)
          /\ HashPart(r)[n + 1] \in Seq(Item)
      BY <1>1, <2>1, HashParts
    <2>3. Len(r[n + 1].extra) = 0 /\ Len(r[n + 1].polled) = 0
      BY <1>1
    <2> QED BY <2>2, <2>3
  <1>5. HashTail(r) = HashTail(s) \o HashPart(r)[n + 1]
    <2>1. Concat(HashPart(r), n + 1) = Concat(HashPart(r), n) \o HashPart(r)[n + 1]
      BY <1>1, ConcatStep
    <2> QED BY <1>1, <1>3, <2>1 DEF HashTail, n
  <1> DEFINE a == HashTail(s)  b == HashPart(r)[n + 1]
  <1>6. a \in Seq(Item) /\ Len(a) \in Nat /\ b \in Seq(Item) /\ Len(b) = 1 /\ HashTail(r) = a \o b
    BY <1>4, <1>5, HashSeq
  <1> HIDE DEF a, b, Item
  <1>7. Len(a \o b) = Len(a) + Len(b)
    BY <1>6, ConcatProperties
  <1>8. Len(HashTail(r)) = Len(a) + 1
    BY <1>6, <1>7
  <1> QED BY <1>8 DEF a, r

(* A field more is one, too. *)
LEMMA HashField ==
  ASSUME NEW s \in Seq(Entry), NEW k \in 1 .. Len(s), NEW key, NEW f \in FieldName
  PROVE  Len(HashTail(File!WithField(s, k, key, f))) = Len(HashTail(s)) + 1
  <1> DEFINE r == File!WithField(s, k, key, f)
             n == Len(s)
  <1>1. /\ r \in Seq(Entry) /\ Len(r) = n /\ n \in Nat
        /\ \A j \in 1 .. n : j # k => r[j] = s[j]
        /\ \/ r[k].extra = Append(s[k].extra, f) /\ r[k].polled = s[k].polled
           \/ r[k].extra = s[k].extra /\ r[k].polled = Append(s[k].polled, f)
    <2>1. k \in Nat
      BY HashParts
    <2> QED BY <2>1, FieldAdded, HashParts
  <1> HIDE DEF r, n
  <1>k. k \in 1 .. n /\ n = Len(s)
    BY DEF n
  <1>2. /\ \A i \in 1 .. n : HashPart(s)[i] \in Seq(Item) /\ HashPart(r)[i] \in Seq(Item)
        /\ Len(HashPart(s)[k]) = 1 + Len(s[k].extra) + Len(s[k].polled)
        /\ Len(HashPart(r)[k]) = 1 + Len(r[k].extra) + Len(r[k].polled)
    BY <1>1, <1>k, HashParts
  <1>3. \A i \in 1 .. n : i # k => HashPart(r)[i] = HashPart(s)[i]
    <2> TAKE i \in 1 .. n
    <2>1. i \in 1 .. Len(r) /\ i \in 1 .. Len(s) /\ (i # k => r[i] = s[i])
      BY <1>1, <1>k
    <2> QED BY <2>1 DEF HashPart
  <1>4. Len(HashPart(r)[k]) = Len(HashPart(s)[k]) + 1
    <2> DEFINE x == s[k].extra  p == s[k].polled
    <2>1. x \in Seq(FieldName) /\ p \in Seq(FieldName)
      <3>1. s[k] \in Entry
        BY ElementOfSeq
      <3> QED BY <3>1 DEF Entry
    <2> HIDE DEF x, p
    <2>2. /\ Len(x) \in Nat /\ Len(p) \in Nat
          /\ Len(Append(x, f)) = Len(x) + 1 /\ Len(Append(p, f)) = Len(p) + 1
      BY <2>1
    <2>3. \/ r[k].extra = Append(x, f) /\ r[k].polled = p
          \/ r[k].extra = x /\ r[k].polled = Append(p, f)
      BY <1>1 DEF x, p
    <2> DEFINE lx == Len(x)  lp == Len(p)  mx == Len(r[k].extra)  mp == Len(r[k].polled)
    <2>4. \/ mx = lx + 1 /\ mp = lp
          \/ mx = lx /\ mp = lp + 1
      BY <2>2, <2>3
    <2>5. /\ Len(HashPart(s)[k]) = 1 + lx + lp /\ Len(HashPart(r)[k]) = 1 + mx + mp
          /\ lx \in Nat /\ lp \in Nat
      BY <1>2, <2>2 DEF x, p
    <2> HIDE DEF lx, lp, mx, mp
    <2>6. 1 + mx + mp = (1 + lx + lp) + 1
      BY <2>4, <2>5
    <2> QED BY <2>5, <2>6
  <1>5. Len(Concat(HashPart(r), n)) = Len(Concat(HashPart(s), n)) + 1
    <2> DEFINE a == HashPart(s)  b == HashPart(r)
    <2>1. OneLonger(Item, a, b, n, k)
      BY <1>2, <1>3, <1>4 DEF OneLonger
    <2> HIDE DEF a, b
    <2>2. Len(Concat(b, n)) = Len(Concat(a, n)) + 1
      BY <1>1, <1>k, <2>1, ConcatGrows
    <2> QED BY <2>2 DEF a, b
  <1> QED BY <1>1, <1>5, <1>k DEF HashTail, r

(* The parser only ever adds to the configuration. *)
LEMMA ConfigGrows ==
  ASSUME FileInv, File!Event
  PROVE  /\ File!Count
         /\ \/ config'.channels = config.channels
            \/ Len(HashTail(config'.channels)) = Len(HashTail(config.channels)) + 1
  <1>0. /\ config.channels \in Seq(Entry) /\ current_channel \in 0 .. Len(config.channels)
        /\ config = [rate |-> config.rate, heartbeat |-> config.heartbeat,
                     channels |-> config.channels]
    BY DEF FileInv, Config
  <1>1. CASE File!StartMap \/ File!EndMap \/ File!StartArray \/ File!EndArray
    BY <1>1 DEF File!StartMap, File!EndMap, File!StartArray, File!EndArray
  <1>2. ASSUME NEW key \in File!Keys, File!MapKey(key)
        PROVE  /\ File!Count
               /\ \/ config'.channels = config.channels
                  \/ Len(HashTail(config'.channels)) = Len(HashTail(config.channels)) + 1
    <2> DEFINE r == Append(config.channels, File!ConfigChannel(key))
    <2>1. key \in Key
      BY DEF File!Keys, Key
    <2>2. Len(HashTail(r)) = Len(HashTail(config.channels)) + 1
      BY <1>0, <2>1, HashChannel
    <2>3. File!Count /\ (config' = config \/ config' = [config EXCEPT !.channels = r])
      BY <1>2 DEF File!MapKey
    <2> HIDE DEF r
    <2>4. config' = config \/ config'.channels = r
      BY <1>0, <2>3
    <2> QED BY <2>2, <2>3, <2>4
  <1>3. ASSUME NEW f \in FieldName, File!String(f)
        PROVE  /\ File!Count
               /\ \/ config'.channels = config.channels
                  \/ Len(HashTail(config'.channels)) = Len(HashTail(config.channels)) + 1
    <2> DEFINE r == File!WithField(config.channels, current_channel, current_key, f)
    <2>1. current_channel # 0 => Len(HashTail(r)) = Len(HashTail(config.channels)) + 1
      <3>1. current_channel # 0 => current_channel \in 1 .. Len(config.channels)
        BY <1>0, HashParts
      <3> QED BY <1>0, <3>1, HashField
    <2>2. File!Count /\ (config' = config \/
                         (current_channel # 0 /\ config' = [config EXCEPT !.channels = r]))
      BY <1>3 DEF File!String
    <2> HIDE DEF r
    <2>3. config' = config \/ (current_channel # 0 /\ config'.channels = r)
      BY <1>0, <2>2
    <2> QED BY <2>1, <2>2, <2>3
  <1>4. ASSUME NEW d \in Number, File!Num(d)
        PROVE  File!Count /\ config'.channels = config.channels
    <2>1. File!Count /\ config' \in {config, [config EXCEPT !.rate = d \div Unit],
                                     [config EXCEPT !.heartbeat = d]}
      BY <1>4 DEF File!Num
    <2> QED BY <1>0, <2>1
  <1> QED BY <1>1, <1>2, <1>3, <1>4 DEF File!Event

(* A file that lost its end gives the same channels and fields, or fewer,  *)
(* and then another hash: more is never combined into the same.            *)
LEMMA CutStep ==
  ASSUME FileInv, FileInv', CutInv, File!Event \/ File!Fail \/ File!EndOfFile
  PROVE  CutInv'
  <1> DEFINE before == Len(HashTail(config.channels))
             after == Len(HashTail(config'.channels))
             short == Len(HashTail(cut.channels))
             short2 == Len(HashTail(cut'.channels))
  <1>1. /\ before \in Nat /\ Len(HashInput(config)) = 2 + before
        /\ short \in Nat /\ Len(HashInput(cut)) = 2 + short
        /\ after \in Nat /\ Len(HashInput(config')) = 2 + after
        /\ short2 \in Nat /\ Len(HashInput(cut')) = 2 + short2
    BY HashLength DEF FileInv
  <1>2. cut.channels = config.channels \/ short < before
    <2> HIDE DEF before, short
    <2> QED BY <1>1 DEF CutInv
  <1>3. ASSUME cut'.channels = config'.channels \/ short2 < after PROVE CutInv'
    <2> HIDE DEF after, short2
    <2>1. cut'.channels = config'.channels \/ Len(HashInput(cut')) < Len(HashInput(config'))
      BY <1>1, <1>3
    <2> QED BY <2>1 DEF CutInv
  <1>4. CASE File!Event
    <2>1. /\ cut' = cut \/ cut' = config
          /\ config'.channels = config.channels \/ after = before + 1
      BY <1>4, ConfigGrows, CutKept
    <2>2. CASE cut' = config
      <3>1. short2 = before
        BY <2>2
      <3> HIDE DEF before, after, short2
      <3> QED BY <1>1, <1>3, <2>1, <2>2, <3>1
    <2>3. CASE cut' = cut
      <3>1. short2 = short
        BY <2>3
      <3>2. CASE config'.channels = config.channels
        <4>1. after = before
          BY <3>2
        <4> HIDE DEF before, after, short, short2
        <4> QED BY <1>2, <1>3, <2>3, <3>1, <3>2, <4>1
      <3>3. CASE after = before + 1
        <4>1. cut.channels = config.channels => short = before
          OBVIOUS
        <4> HIDE DEF before, after, short, short2
        <4> QED BY <1>1, <1>2, <1>3, <3>1, <3>3, <4>1
      <3> QED BY <2>1, <3>2, <3>3
    <2> QED BY <2>1, <2>2, <2>3
  <1>5. CASE File!Fail \/ File!EndOfFile
    BY <1>5 DEF CutInv, File!Fail, File!EndOfFile
  <1> QED BY <1>4, <1>5

(* A receiver whose copy of the configuration lost its end either numbers  *)
(* its channels as the sender does or has another hash, so that the two    *)
(* tell they disagree (update_hash, parse_json_file).  That equal input    *)
(* is what equal hashes mean is taken for granted.                         *)
THEOREM ProgramsCutFileDetected == Spec => []CutFileDetected
  <1>1. Init => TypeInv
    BY TypeStart
  <1>2. TypeInv /\ [Next]_vars => TypeInv'
    BY TypeStep
  <1>3. Init => CutInv
    BY DEF Init, File!FileInit, CutInv
  <1>4. TypeInv /\ TypeInv' /\ CutInv /\ [Next]_vars => CutInv'
    <2> SUFFICES ASSUME TypeInv, TypeInv', CutInv, [Next]_vars PROVE CutInv'
      OBVIOUS
    <2>1. CASE ReadFile
      <3>1. File!Event \/ File!Fail \/ File!EndOfFile
        BY <2>1 DEF ReadFile
      <3> QED BY <3>1, CutStep DEF TypeInv
    <2>2. CASE UNCHANGED fileVars
      BY <2>2 DEF CutInv, fileVars
    <2>3. CASE FileForgotten
      BY <2>3 DEF CutInv, FileForgotten
    <2> QED BY <2>1, <2>2, <2>3, FileKept
  <1>5. TypeInv /\ CutInv => CutFileDetected
    <2> SUFFICES ASSUME TypeInv, CutInv, HashInput(cut) = HashInput(config)
                 PROVE  FlatNames(cut) = FlatNames(config)
      BY DEF CutFileDetected
    <2>1. Len(HashInput(config)) \in Nat
      <3>1. config \in Config
        BY DEF TypeInv, FileInv
      <3>2. /\ Len(HashInput(config)) = 2 + Len(HashTail(config.channels))
            /\ Len(HashTail(config.channels)) \in Nat
        BY <3>1, HashLength
      <3> DEFINE t == Len(HashTail(config.channels))
      <3> HIDE DEF t
      <3>3. t \in Nat => 2 + t \in Nat
        OBVIOUS
      <3> QED BY <3>2, <3>3 DEF t
    <2>2. ~ (Len(HashInput(config)) < Len(HashInput(config)))
      BY <2>1
    <2>3. cut.channels = config.channels
      BY <2>2 DEF CutInv
    <2> QED BY <2>3 DEF FlatNames
  <1> QED BY <1>1, <1>2, <1>3, <1>4, <1>5, PTL DEF Spec

-----------------------------------------------------------------------------
(* A function on the first numbers is a sequence of that length. *)
LEMMA FunctionIsSequence ==
  ASSUME NEW T, NEW n \in Nat, NEW f \in [1 .. n -> T]
  PROVE  f \in Seq(T) /\ Len(f) = n /\ DOMAIN f = 1 .. n
  OBVIOUS

(* The names of a channel and its fields, in their order. *)
LEMMA NamePartIs ==
  ASSUME NEW e \in Entry
  PROVE  /\ ChannelCount(e) \in Nat \ {0} /\ Len(e.extra) \in Nat /\ Len(e.polled) \in Nat
         /\ ChannelCount(e) = Len(e.extra) + Len(e.polled) + 1
         /\ NamePart(e) \in Seq(Seq(Item)) /\ Len(NamePart(e)) = ChannelCount(e)
         /\ NamePart(e)[1] = <<e.name>>
         /\ \A j \in 1 .. Len(e.extra) : NamePart(e)[j + 1] = <<e.name, e.extra[j]>>
         /\ \A j \in 1 .. Len(e.polled) :
              NamePart(e)[Len(e.extra) + j + 1] = <<e.name, e.polled[j]>>
  <1> DEFINE x == e.extra  p == e.polled  nx == Len(x)  np == Len(p)
             fields == x \o p
             h == <<<<e.name>>>>
             t == [j \in 1 .. nx + np |-> <<e.name, fields[j]>>]
  <1>1. e.name \in Item /\ x \in Seq(FieldName) /\ p \in Seq(FieldName)
    BY DEF Entry, Item
  <1>2. nx \in Nat /\ np \in Nat
    <2> HIDE DEF x, p
    <2> QED BY <1>1
  <1>3. /\ fields \in Seq(FieldName) /\ Len(fields) = nx + np
        /\ \A j \in 1 .. nx + np : fields[j] = IF j <= nx THEN x[j] ELSE p[j - nx]
    <2> HIDE DEF x, p
    <2> QED BY <1>1, ConcatProperties
  <1>4. NamePart(e) = h \o t
    BY <1>3 DEF NamePart
  <1> HIDE DEF x, p, fields, nx, np
  <1>5. h \in Seq(Seq(Item)) /\ Len(h) = 1 /\ h[1] = <<e.name>>
    <2> DEFINE g == <<e.name>>
    <2>1. g \in Seq(Item)
      <3> HIDE DEF Item
      <3> QED BY <1>1
    <2> HIDE DEF g, Item
    <2>2. <<g>> \in Seq(Seq(Item)) /\ Len(<<g>>) = 1 /\ <<g>>[1] = g
      BY <2>1
    <2> QED BY <2>2 DEF g
  <1>6. t \in Seq(Seq(Item)) /\ Len(t) = nx + np
        /\ \A j \in 1 .. nx + np : t[j] = <<e.name, fields[j]>>
    <2> DEFINE m == nx + np
    <2>1. m \in Nat
      BY <1>2
    <2>2. ASSUME NEW j \in 1 .. m PROVE <<e.name, fields[j]>> \in Seq(Item)
      <3>1. j \in 1 .. Len(fields)
        BY <1>3
      <3>2. fields[j] \in FieldName
        BY <1>3, <3>1, ElementOfSeq
      <3>3. fields[j] \in Item
        BY <3>2 DEF Item
      <3> HIDE DEF Item
      <3> QED BY <1>1, <3>3
    <2>3. t = [j \in 1 .. m |-> <<e.name, fields[j]>>]
      OBVIOUS
    <2> HIDE DEF m, Item, t
    <2>4. t \in [1 .. m -> Seq(Item)] /\ \A j \in 1 .. m : t[j] = <<e.name, fields[j]>>
      BY <2>2, <2>3
    <2>5. t \in Seq(Seq(Item)) /\ Len(t) = m
      <3> DEFINE U == Seq(Item)
      <3>1. t \in [1 .. m -> U]
        BY <2>4
      <3> HIDE DEF U
      <3>2. t \in Seq(U) /\ DOMAIN t = 1 .. m
        BY <2>1, <3>1, FunctionIsSequence
      <3>3. Len(t) = m
        BY <2>1, <3>2
      <3> QED BY <3>2, <3>3 DEF U
    <2> QED BY <2>4, <2>5 DEF m
  <1> HIDE DEF h, t
  <1> DEFINE r == h \o t  U == Seq(Item)
  <1>7. /\ r \in Seq(U) /\ Len(r) = 1 + (nx + np)
        /\ \A i \in 1 .. 1 + (nx + np) : r[i] = IF i <= 1 THEN h[i] ELSE t[i - 1]
    <2>1. h \in Seq(U) /\ t \in Seq(U)
      BY <1>5, <1>6
    <2> HIDE DEF U
    <2>2. /\ r \in Seq(U) /\ Len(r) = Len(h) + Len(t)
          /\ \A i \in 1 .. Len(h) + Len(t) : r[i] = IF i <= Len(h) THEN h[i] ELSE t[i - Len(h)]
      BY <2>1, ConcatProperties
    <2> HIDE DEF r
    <2> QED BY <1>5, <1>6, <2>2
  <1> HIDE DEF r
  <1>8. r[1] = <<e.name>>
    BY <1>2, <1>5, <1>7
  <1>9. ASSUME NEW j \in 1 .. nx PROVE r[j + 1] = <<e.name, x[j]>>
    <2>1. /\ j \in 1 .. nx + np /\ j + 1 \in 1 .. 1 + (nx + np)
          /\ ~ (j + 1 <= 1) /\ (j + 1) - 1 = j /\ j <= nx
      BY <1>2, <1>9
    <2>2. r[j + 1] = t[j]
      BY <1>7, <2>1
    <2> QED BY <1>3, <1>6, <2>1, <2>2
  <1>10. ASSUME NEW j \in 1 .. np PROVE r[nx + j + 1] = <<e.name, p[j]>>
    <2>1. /\ nx + j \in 1 .. nx + np /\ nx + j + 1 \in 1 .. 1 + (nx + np)
          /\ ~ (nx + j + 1 <= 1) /\ (nx + j + 1) - 1 = nx + j /\ ~ (nx + j <= nx)
          /\ (nx + j) - nx = j
      BY <1>2, <1>10
    <2>2. r[nx + j + 1] = t[nx + j]
      BY <1>7, <2>1
    <2>3. fields[nx + j] = p[j]
      BY <1>3, <2>1
    <2> QED BY <1>6, <2>1, <2>2, <2>3
  <1>11. ChannelCount(e) = nx + np + 1
    BY DEF ChannelCount, nx, np, x, p
  <1>12. nx + np + 1 \in Nat \ {0} /\ 1 + (nx + np) = nx + np + 1
    BY <1>2
  <1>13. /\ r \in Seq(Seq(Item)) /\ Len(r) = ChannelCount(e) /\ ChannelCount(e) \in Nat \ {0}
    BY <1>7, <1>11, <1>12
  <1> QED BY <1>2, <1>4, <1>8, <1>9, <1>10, <1>11, <1>13 DEF r, nx, np, x, p

(* The names of the channels before the next one, and with it. *)
LEMMA NextNames ==
  ASSUME FileInv, NEW k \in 0 .. Len(config.channels) - 1
  PROVE  LET e == config.channels[k + 1]
         IN /\ e \in Entry
            /\ Len(NamesTo(k)) \in Nat
            /\ Len(NamesTo(k + 1)) = Len(NamesTo(k)) + ChannelCount(e)
            /\ \A j \in 1 .. Len(NamesTo(k)) : NamesTo(k + 1)[j] = NamesTo(k)[j]
            /\ \A j \in 1 .. ChannelCount(e) :
                 NamesTo(k + 1)[Len(NamesTo(k)) + j] = NamePart(e)[j]
  <1> DEFINE s == config.channels  n == Len(s)  e == s[k + 1]  f == NameParts(s)  U == Seq(Item)
  <1>1. s \in Seq(Entry) /\ n \in Nat /\ \A i \in 1 .. n : s[i] \in Entry
    <2>1. s \in Seq(Entry)
      BY DEF FileInv, Config
    <2> HIDE DEF s
    <2> QED BY <2>1, ElementOfSeq, HashParts
  <1>2. k \in Nat /\ k + 1 \in 1 .. n /\ \A i \in 1 .. k : i \in 1 .. n
    BY <1>1
  <1>3. \A i \in 1 .. n : f[i] = NamePart(s[i])
    BY DEF NameParts
  <1> HIDE DEF s, n, f
  <1>4. \A i \in 1 .. n : f[i] \in Seq(U)
    BY <1>1, <1>3, NamePartIs
  <1> HIDE DEF U
  <1>5. Concat(f, k) \in Seq(U) /\ Concat(f, k + 1) = Concat(f, k) \o f[k + 1]
    BY <1>2, <1>4, ConcatSeq, ConcatStep
  <1> DEFINE a == Concat(f, k)  b == f[k + 1]
  <1>6. a \in Seq(U) /\ b \in Seq(U) /\ Concat(f, k + 1) = a \o b
    BY <1>2, <1>4, <1>5
  <1>7. b = NamePart(e) /\ e \in Entry /\ Len(b) = ChannelCount(e) /\ ChannelCount(e) \in Nat \ {0}
    BY <1>1, <1>2, <1>3, NamePartIs
  <1>8. a = NamesTo(k) /\ Concat(f, k + 1) = NamesTo(k + 1)
    BY DEF NamesTo, f, s
  <1> HIDE DEF a, b, e
  <1> DEFINE r == a \o b  la == Len(a)  lb == Len(b)
  <1>9. /\ la \in Nat /\ lb \in Nat /\ Len(r) = la + lb
        /\ \A i \in 1 .. la + lb : r[i] = IF i <= la THEN a[i] ELSE b[i - la]
    BY <1>6, ConcatProperties
  <1> HIDE DEF r, la, lb
  <1>10. \A j \in 1 .. la : r[j] = a[j]
    BY <1>9
  <1>11. \A j \in 1 .. lb : r[la + j] = b[j]
    <2> TAKE j \in 1 .. lb
    <2>1. la + j \in 1 .. la + lb /\ ~ (la + j <= la) /\ (la + j) - la = j
      BY <1>9
    <2> QED BY <1>9, <2>1
  <1>12. lb = ChannelCount(e)
    BY <1>7 DEF lb
  <1>13. /\ e \in Entry /\ Len(NamesTo(k)) \in Nat
         /\ Len(NamesTo(k + 1)) = Len(NamesTo(k)) + ChannelCount(e)
         /\ \A j \in 1 .. Len(NamesTo(k)) : NamesTo(k + 1)[j] = NamesTo(k)[j]
         /\ \A j \in 1 .. ChannelCount(e) :
              NamesTo(k + 1)[Len(NamesTo(k)) + j] = NamePart(e)[j]
    BY <1>6, <1>7, <1>8, <1>9, <1>10, <1>11, <1>12 DEF r, la
  <1> QED BY <1>13 DEF e, s

(* They are the first ones of all. *)
LEMMA NamesFirst ==
  ASSUME FileInv, NEW k \in 0 .. Len(config.channels)
  PROVE  /\ FlatNames(config) = NamesTo(Len(config.channels))
         /\ Len(NamesTo(k)) \in Nat /\ Len(FlatNames(config)) \in Nat
         /\ Len(NamesTo(k)) <= Len(FlatNames(config))
         /\ \A j \in 1 .. Len(NamesTo(k)) : FlatNames(config)[j] = NamesTo(k)[j]
  <1> DEFINE s == config.channels  n == Len(s)  f == NameParts(s)  U == Seq(Item)
  <1>1. s \in Seq(Entry) /\ n \in Nat /\ \A i \in 1 .. n : s[i] \in Entry
    <2>1. s \in Seq(Entry)
      BY DEF FileInv, Config
    <2> HIDE DEF s
    <2> QED BY <2>1, ElementOfSeq, HashParts
  <1>2. \A i \in 1 .. n : f[i] = NamePart(s[i])
    BY DEF NameParts
  <1>3. FlatNames(config) = Concat(f, n) /\ NamesTo(n) = Concat(f, n) /\ NamesTo(k) = Concat(f, k)
    BY DEF FlatNames, NamesTo, NameParts, NamePart
  <1>k. k \in 0 .. n
    OBVIOUS
  <1> HIDE DEF s, n, f
  <1>4. \A i \in 1 .. n : f[i] \in Seq(U)
    BY <1>1, <1>2, NamePartIs
  <1> HIDE DEF U
  <1>5. /\ Len(Concat(f, k)) \in Nat /\ Len(Concat(f, n)) \in Nat
        /\ Len(Concat(f, k)) <= Len(Concat(f, n))
        /\ \A j \in 1 .. Len(Concat(f, k)) : Concat(f, n)[j] = Concat(f, k)[j]
    BY <1>1, <1>4, <1>k, ConcatPrefix
  <1> QED BY <1>3, <1>5 DEF n, s

(* A table gets the entries of one more channel: its own, then those of    *)
(* its fields, in the order of the names.                                  *)
Extended(s, e, parent, polled) ==
  s \o <<Table!Channel(<<e.name>>, parent, FALSE)>>
    \o Table!FieldChannels(e, e.extra, parent, FALSE)
    \o Table!FieldChannels(e, e.polled, parent, polled)

(* s with the entries of the channel e is r.                               *)
Longer(s, r, e, parent) ==
  /\ r \in Seq(TableEntry) /\ Len(s) \in Nat /\ Len(r) = Len(s) + ChannelCount(e)
  /\ \A i \in 1 .. Len(s) : r[i] = s[i]
  /\ \A j \in 1 .. ChannelCount(e) :
       /\ r[Len(s) + j].name = NamePart(e)[j]
       /\ r[Len(s) + j].parent = parent
       /\ r[Len(s) + j].name[1] = e.name

(* The entries of the fields of one list.                                 *)
LEMMA FieldEntries ==
  ASSUME NEW e \in Entry, NEW fields \in Seq(FieldName), NEW parent \in Nat, NEW b \in BOOLEAN
  PROVE  LET r == Table!FieldChannels(e, fields, parent, b)
         IN /\ r \in Seq(TableEntry) /\ Len(r) = Len(fields)
            /\ \A j \in 1 .. Len(fields) :
                 r[j].name = <<e.name, fields[j]>> /\ r[j].parent = parent
  <1> DEFINE n == Len(fields)  r == Table!FieldChannels(e, fields, parent, b)
             row(j) == [name |-> <<e.name, fields[j]>>, parent |-> parent, polled |-> b]
  <1>1. n \in Nat
    OBVIOUS
  <1>2. ASSUME NEW j \in 1 .. n PROVE row(j) \in TableEntry
    <2>1. fields[j] \in Item /\ e.name \in Item
      <3>1. fields[j] \in FieldName /\ e.name \in Key
        BY ElementOfSeq DEF Entry
      <3> QED BY <3>1 DEF Item
    <2>2. <<e.name, fields[j]>> \in Seq(Item)
      <3> HIDE DEF Item
      <3> QED BY <2>1
    <2> QED BY <2>2 DEF TableEntry
  <1>3. r = [j \in 1 .. n |-> row(j)]
    BY DEF Table!FieldChannels, Table!Channel
  <1>4. \A j \in 1 .. n : row(j).name = <<e.name, fields[j]>> /\ row(j).parent = parent
    OBVIOUS
  <1> HIDE DEF row, r, n
  <1>5. r \in [1 .. n -> TableEntry] /\ \A j \in 1 .. n : r[j] = row(j)
    <2> HIDE DEF TableEntry
    <2> QED BY <1>2, <1>3
  <1>6. r \in Seq(TableEntry) /\ Len(r) = n
    <2> HIDE DEF TableEntry
    <2>1. r \in Seq(TableEntry) /\ DOMAIN r = 1 .. n
      BY <1>1, <1>5, FunctionIsSequence
    <2>2. Len(r) = n
      BY <1>1, <2>1
    <2> QED BY <2>1, <2>2
  <1> QED BY <1>4, <1>5, <1>6 DEF r, n

(* The entry of the channel and those of both lists of its fields.         *)
LEMMA TableExtended ==
  ASSUME NEW s \in Seq(TableEntry), NEW e \in Entry, NEW parent \in Nat, NEW b \in BOOLEAN
  PROVE  Longer(s, Extended(s, e, parent, b), e, parent)
  <1> DEFINE c == [name |-> <<e.name>>, parent |-> parent, polled |-> FALSE]
             one == <<c>>
             x == Table!FieldChannels(e, e.extra, parent, FALSE)
             p == Table!FieldChannels(e, e.polled, parent, b)
             n == Len(s)  nx == Len(e.extra)  np == Len(e.polled)
  <1>1. e.name \in Item /\ e.extra \in Seq(FieldName) /\ e.polled \in Seq(FieldName)
    BY DEF Entry, Item
  <1>2. c \in TableEntry /\ c.name = <<e.name>> /\ c.parent = parent
    <2>1. <<e.name>> \in Seq(Item)
      <3> HIDE DEF Item
      <3> QED BY <1>1
    <2> QED BY <2>1 DEF TableEntry
  <1>3. /\ x \in Seq(TableEntry) /\ Len(x) = nx
        /\ \A j \in 1 .. nx : x[j].name = <<e.name, e.extra[j]>> /\ x[j].parent = parent
    BY <1>1, FieldEntries
  <1>4. /\ p \in Seq(TableEntry) /\ Len(p) = np
        /\ \A j \in 1 .. np : p[j].name = <<e.name, e.polled[j]>> /\ p[j].parent = parent
    BY <1>1, FieldEntries
  <1>5. Extended(s, e, parent, b) = ((s \o one) \o x) \o p
    BY DEF Extended, Table!Channel
  <1> HIDE DEF c, x, p, TableEntry
  <1>6. one \in Seq(TableEntry) /\ Len(one) = 1 /\ one[1] = c
    BY <1>2
  <1> HIDE DEF one
  <1>7. n \in Nat /\ nx \in Nat /\ np \in Nat
    BY <1>1
  <1> HIDE DEF n, nx, np
  <1> DEFINE s1 == s \o one  s2 == s1 \o x  s3 == s2 \o p
  <1>8. /\ s1 \in Seq(TableEntry) /\ Len(s1) = n + 1
        /\ \A i \in 1 .. n + 1 : s1[i] = IF i <= n THEN s[i] ELSE one[i - n]
    <2>1. /\ s1 \in Seq(TableEntry) /\ Len(s1) = Len(s) + Len(one)
          /\ \A i \in 1 .. Len(s) + Len(one) : s1[i] = IF i <= Len(s) THEN s[i] ELSE one[i - Len(s)]
      BY <1>6, ConcatProperties
    <2> HIDE DEF s1
    <2> QED BY <1>6, <2>1 DEF n
  <1> HIDE DEF s1
  <1>9. /\ s2 \in Seq(TableEntry) /\ Len(s2) = n + 1 + nx
        /\ \A i \in 1 .. n + 1 + nx : s2[i] = IF i <= n + 1 THEN s1[i] ELSE x[i - (n + 1)]
    <2>1. /\ s2 \in Seq(TableEntry) /\ Len(s2) = Len(s1) + Len(x)
          /\ \A i \in 1 .. Len(s1) + Len(x) : s2[i] = IF i <= Len(s1) THEN s1[i] ELSE x[i - Len(s1)]
      BY <1>3, <1>8, ConcatProperties
    <2> HIDE DEF s2
    <2> QED BY <1>3, <1>8, <2>1
  <1> HIDE DEF s2
  <1>10. /\ s3 \in Seq(TableEntry) /\ Len(s3) = n + 1 + nx + np
         /\ \A i \in 1 .. n + 1 + nx + np :
              s3[i] = IF i <= n + 1 + nx THEN s2[i] ELSE p[i - (n + 1 + nx)]
    <2>1. /\ s3 \in Seq(TableEntry) /\ Len(s3) = Len(s2) + Len(p)
          /\ \A i \in 1 .. Len(s2) + Len(p) : s3[i] = IF i <= Len(s2) THEN s2[i] ELSE p[i - Len(s2)]
      BY <1>4, <1>9, ConcatProperties
    <2> HIDE DEF s3
    <2> QED BY <1>4, <1>9, <2>1
  <1> HIDE DEF s3
  <1>11. /\ ChannelCount(e) = nx + np + 1 /\ NamePart(e)[1] = <<e.name>>
         /\ \A j \in 1 .. nx : NamePart(e)[j + 1] = <<e.name, e.extra[j]>>
         /\ \A j \in 1 .. np : NamePart(e)[nx + j + 1] = <<e.name, e.polled[j]>>
    BY NamePartIs DEF nx, np
  <1>12. Len(s3) = n + ChannelCount(e)
    BY <1>7, <1>10, <1>11
  <1>13. \A i \in 1 .. n : s3[i] = s[i]
    <2> TAKE i \in 1 .. n
    <2>1. /\ i \in 1 .. n + 1 /\ i \in 1 .. n + 1 + nx /\ i \in 1 .. n + 1 + nx + np
          /\ i <= n /\ i <= n + 1 /\ i <= n + 1 + nx
      BY <1>7
    <2> QED BY <1>8, <1>9, <1>10, <2>1
  <1>14. ASSUME NEW j \in 1 .. ChannelCount(e)
         PROVE  /\ s3[n + j].name = NamePart(e)[j] /\ s3[n + j].parent = parent
                /\ s3[n + j].name[1] = e.name
    <2>0. j \in Int /\ 1 <= j /\ j <= nx + np + 1
      BY <1>7, <1>11
    <2>1. CASE j = 1
      <3>1. /\ n + 1 \in 1 .. n + 1 /\ n + 1 \in 1 .. n + 1 + nx /\ n + 1 \in 1 .. n + 1 + nx + np
            /\ ~ (n + 1 <= n) /\ n + 1 <= n + 1 /\ n + 1 <= n + 1 + nx /\ (n + 1) - n = 1
        BY <1>7
      <3>2. s3[n + j] = c
        BY <1>6, <1>8, <1>9, <1>10, <2>1, <3>1
      <3> QED BY <1>2, <1>11, <2>1, <3>2
    <2>2. CASE 2 <= j /\ j <= nx + 1
      <3> DEFINE k == j - 1
      <3>1. /\ n + j \in 1 .. n + 1 + nx /\ n + j \in 1 .. n + 1 + nx + np
            /\ ~ (n + j <= n + 1) /\ n + j <= n + 1 + nx /\ (n + j) - (n + 1) = k
            /\ k \in 1 .. nx /\ j = k + 1
        BY <1>7, <2>0, <2>2
      <3> HIDE DEF k
      <3>2. s3[n + j] = x[k]
        BY <1>9, <1>10, <3>1
      <3>3. x[k].name = <<e.name, e.extra[k]>> /\ x[k].parent = parent
        BY <1>3, <3>1
      <3>4. NamePart(e)[j] = <<e.name, e.extra[k]>>
        BY <1>11, <3>1
      <3> QED BY <3>2, <3>3, <3>4
    <2>3. CASE nx + 2 <= j
      <3> DEFINE k == j - nx - 1
      <3>1. /\ n + j \in 1 .. n + 1 + nx + np
            /\ ~ (n + j <= n + 1 + nx) /\ (n + j) - (n + 1 + nx) = k
            /\ k \in 1 .. np /\ j = nx + k + 1
        BY <1>7, <2>0, <2>3
      <3> HIDE DEF k
      <3>2. s3[n + j] = p[k]
        BY <1>10, <3>1
      <3>3. p[k].name = <<e.name, e.polled[k]>> /\ p[k].parent = parent
        BY <1>4, <3>1
      <3>4. NamePart(e)[j] = <<e.name, e.polled[k]>>
        BY <1>11, <3>1
      <3> QED BY <3>2, <3>3, <3>4
    <2> QED BY <1>7, <2>0, <2>1, <2>2, <2>3
  <1>15. /\ s3 \in Seq(TableEntry) /\ n \in Nat /\ Len(s3) = n + ChannelCount(e)
         /\ \A i \in 1 .. n : s3[i] = s[i]
         /\ \A j \in 1 .. ChannelCount(e) :
              /\ s3[n + j].name = NamePart(e)[j] /\ s3[n + j].parent = parent
              /\ s3[n + j].name[1] = e.name
    BY <1>7, <1>10, <1>12, <1>13, <1>14
  <1> QED BY <1>5, <1>15 DEF s1, s2, s3, n, Longer

-----------------------------------------------------------------------------
(* A step of a program that numbers the channels: the next one is the      *)
(* first that is still to do.                                              *)
LEMMA NextChannel ==
  ASSUME FileInv, TableInv, NumberedInv, program \in Starts, todo # << >>
  PROVE  LET n == Len(config.channels)
             k == n - Len(todo)
         IN /\ n \in Nat /\ k \in 0 .. n - 1 /\ Head(todo) = config.channels[k + 1]
            /\ n - Len(Tail(todo)) = k + 1 /\ Len(Tail(todo)) <= n
            /\ \A i \in 1 .. Len(Tail(todo)) : Tail(todo)[i] = config.channels[k + 1 + i]
  <1> DEFINE s == config.channels  n == Len(s)  m == Len(todo)  k == n - m
  <1>1. n \in Nat /\ todo \in Seq(Entry)
    <2>1. s \in Seq(Entry)
      BY DEF FileInv, Config
    <2> HIDE DEF s
    <2> QED BY <2>1, HashParts DEF TableInv
  <1>2. m <= n /\ \A i \in 1 .. m : todo[i] = s[k + i]
    BY DEF NumberedInv
  <1> HIDE DEF s, n
  <1>3. /\ m \in Nat \ {0} /\ Head(todo) = todo[1] /\ Len(Tail(todo)) = m - 1
        /\ \A i \in 1 .. m - 1 : Tail(todo)[i] = todo[i + 1]
    <2> HIDE DEF Entry
    <2> QED BY <1>1
  <1> DEFINE t == Tail(todo)
  <1> HIDE DEF m, t
  <1>4. k \in 0 .. n - 1 /\ Head(todo) = s[k + 1] /\ n - Len(t) = k + 1 /\ Len(t) <= n
    <2>1. 1 \in 1 .. m
      BY <1>3
    <2>2. todo[1] = s[k + 1]
      BY <1>2, <2>1
    <2> QED BY <1>1, <1>2, <1>3, <2>2 DEF t
  <1>5. \A i \in 1 .. Len(t) : t[i] = s[k + 1 + i]
    <2> TAKE i \in 1 .. Len(t)
    <2>1. i \in 1 .. m - 1 /\ i + 1 \in 1 .. m /\ k + 1 + i = k + (i + 1)
      BY <1>1, <1>3 DEF t
    <2>2. t[i] = todo[i + 1] /\ todo[i + 1] = s[k + (i + 1)]
      BY <1>2, <1>3, <2>1 DEF t
    <2> QED BY <2>1, <2>2
  <1> QED BY <1>1, <1>4, <1>5 DEF t, m, n, s

(* diode_dbgen: a record's index is that of its channel. *)
LEMMA GenerateStep ==
  ASSUME TypeInv, NumberedInv, EmptyInv, IndicesAgree, GenerateDb
  PROVE  NumberedInv' /\ EmptyInv' /\ IndicesAgree'
  <1> DEFINE n == Len(config.channels)
             k == n - Len(todo)
             ch == Head(todo)
             names == FlatNames(config)
             was == NamesTo(k)
  <1>0. /\ program = "dbgen" /\ program' = "dbgen" /\ config' = config
        /\ todo # << >> /\ todo' = Tail(todo)
        /\ channel_index' = channel_index + ChannelCount(ch)
        /\ \A r \in records' : r \in records \/ r = [cix |-> channel_index, name |-> ch.name]
    BY DEF GenerateDb, Gen!Generate, Gen!NextIndex, Gen!ChannelCount, ChannelCount, fileVars
  <1>t. FileInv /\ TableInv
    BY DEF TypeInv
  <1>1. /\ n \in Nat /\ k \in 0 .. n - 1 /\ ch = config.channels[k + 1]
        /\ n - Len(Tail(todo)) = k + 1 /\ Len(Tail(todo)) <= n
        /\ \A i \in 1 .. Len(Tail(todo)) : Tail(todo)[i] = config.channels[k + 1 + i]
    BY <1>0, <1>t, NextChannel DEF Starts
  <1>2. channel_index = Len(was)
    BY <1>0 DEF NumberedInv, Starts
  <1> HIDE DEF k
  <1>3. /\ ch \in Entry /\ Len(was) \in Nat
        /\ Len(NamesTo(k + 1)) = Len(was) + ChannelCount(ch)
        /\ \A j \in 1 .. ChannelCount(ch) : NamesTo(k + 1)[Len(was) + j] = NamePart(ch)[j]
    <2> DEFINE e == config.channels[k + 1]
    <2>1. k \in 0 .. Len(config.channels) - 1
      BY <1>1
    <2>2. /\ e \in Entry /\ Len(NamesTo(k)) \in Nat
          /\ Len(NamesTo(k + 1)) = Len(NamesTo(k)) + ChannelCount(e)
          /\ \A j \in 1 .. ChannelCount(e) :
               NamesTo(k + 1)[Len(NamesTo(k)) + j] = NamePart(e)[j]
      BY <1>t, <2>1, NextNames
    <2>3. e = ch
      BY <1>1
    <2> HIDE DEF e, ch
    <2> QED BY <2>2, <2>3
  <1>4. /\ Len(NamesTo(k + 1)) <= Len(names)
        /\ \A j \in 1 .. Len(NamesTo(k + 1)) : names[j] = NamesTo(k + 1)[j]
        /\ Len(names) \in Nat /\ Len(NamesTo(k + 1)) \in Nat
    <2>1. k + 1 \in 0 .. n
      BY <1>1
    <2> QED BY <1>t, <2>1, NamesFirst
  <1>5. ChannelCount(ch) \in Nat \ {0} /\ NamePart(ch)[1] = <<ch.name>>
    BY <1>3, NamePartIs
  <1> HIDE DEF was, names, ch
  <1>6. channel_index < Len(names) /\ names[channel_index + 1] = <<ch.name>>
    <2>1. /\ 1 \in 1 .. ChannelCount(ch) /\ Len(was) + 1 \in 1 .. Len(NamesTo(k + 1))
          /\ Len(was) < Len(names)
      BY <1>3, <1>4, <1>5
    <2> QED BY <1>2, <1>3, <1>4, <1>5, <2>1
  <1>7. \A r \in records' : r.cix < Len(names) /\ names[r.cix + 1] = <<r.name>>
    <2> TAKE r \in records'
    <2>1. CASE r \in records
      BY <2>1 DEF IndicesAgree, names
    <2>2. CASE r = [cix |-> channel_index, name |-> ch.name]
      BY <1>6, <2>2
    <2> QED BY <1>0, <2>1, <2>2 DEF ch
  <1>8. NumberedInv'
    <2>2. channel_index' = Len(NamesTo(k + 1))
      BY <1>0, <1>2, <1>3 DEF ch
    <2> DEFINE m == n - Len(todo')
    <2>3. m = k + 1
      BY <1>0, <1>1
    <2>4. /\ Len(todo') <= n
          /\ \A i \in 1 .. Len(todo') : todo'[i] = config.channels[m + i]
      BY <1>0, <1>1, <2>3
    <2>5. channel_index' = Len(Concat(NameParts(config.channels), m))
      <3> HIDE DEF m
      <3> QED BY <2>2, <2>3 DEF NamesTo
    <2> QED BY <1>0, <2>4, <2>5 DEF NumberedInv, NamesTo
  <1> QED BY <1>0, <1>7, <1>8 DEF EmptyInv, IndicesAgree, names

(* Sender::create_channels, Receiver::create_channels: the entries of a    *)
(* channel come where its names are.                                       *)
LEMMA TableStep ==
  ASSUME TypeInv, NumberedInv, EmptyInv, IndicesAgree, CreateTable
  PROVE  NumberedInv' /\ EmptyInv' /\ IndicesAgree'
  <1> DEFINE n == Len(config.channels)
             k == n - Len(todo)
             ch == Head(todo)
             names == FlatNames(config)
             was == NamesTo(k)
             is == NamesTo(k + 1)
  <1>0. /\ program \in {"sender", "receiver", "pva"} /\ program' = program /\ config' = config
        /\ todo # << >> /\ todo' = Tail(todo) /\ records' = records
    BY DEF CreateTable, Table!CreateChannels, Table!AssignNames, Table!CreatePvaChannels,
           fileVars, genVars
  <1>t. FileInv /\ TableInv
    BY DEF TypeInv
  <1>1. /\ n \in Nat /\ k \in 0 .. n - 1 /\ ch = config.channels[k + 1]
        /\ n - Len(Tail(todo)) = k + 1 /\ Len(Tail(todo)) <= n
        /\ \A i \in 1 .. Len(Tail(todo)) : Tail(todo)[i] = config.channels[k + 1 + i]
    BY <1>0, <1>t, NextChannel DEF Starts
  <1>2. ASSUME program \in {"sender", "receiver"} =>
                 /\ channels' \in Seq(TableEntry) /\ Len(channels') = Len(is)
                 /\ \A i \in 1 .. Len(channels') : channels'[i].name = is[i]
        PROVE  NumberedInv'
    <2> DEFINE m == n - Len(todo')
    <2>1. m = k + 1
      BY <1>0, <1>1
    <2>2. /\ Len(todo') <= n
          /\ \A i \in 1 .. Len(todo') : todo'[i] = config.channels[m + i]
      BY <1>0, <1>1, <2>1
    <2>3. Concat(NameParts(config.channels), m) = is
      <3> HIDE DEF m
      <3> QED BY <2>1 DEF NamesTo
    <2> HIDE DEF is
    <2> QED BY <1>0, <1>2, <2>2, <2>3 DEF NumberedInv, NamesTo
  <1>e. EmptyInv'
    BY <1>0 DEF EmptyInv
  <1>3. CASE program = "pva"
    BY <1>0, <1>2, <1>3, <1>e DEF IndicesAgree
  <1>4. CASE program \in {"sender", "receiver"}
    <2>1. /\ channels \in Seq(TableEntry) /\ Len(channels) = Len(was)
          /\ \A i \in 1 .. Len(channels) : channels[i].name = was[i]
      BY <1>4 DEF NumberedInv, Starts
    <2> HIDE DEF k
    <2>2. /\ ch \in Entry /\ Len(was) \in Nat
          /\ Len(is) = Len(was) + ChannelCount(ch)
          /\ \A j \in 1 .. Len(was) : is[j] = was[j]
          /\ \A j \in 1 .. ChannelCount(ch) : is[Len(was) + j] = NamePart(ch)[j]
      <3> DEFINE e == config.channels[k + 1]
      <3>1. k \in 0 .. Len(config.channels) - 1
        BY <1>1
      <3>2. /\ e \in Entry /\ Len(NamesTo(k)) \in Nat
            /\ Len(NamesTo(k + 1)) = Len(NamesTo(k)) + ChannelCount(e)
            /\ \A j \in 1 .. Len(NamesTo(k)) : NamesTo(k + 1)[j] = NamesTo(k)[j]
            /\ \A j \in 1 .. ChannelCount(e) :
                 NamesTo(k + 1)[Len(NamesTo(k)) + j] = NamePart(e)[j]
        BY <1>t, <3>1, NextNames
      <3>3. e = ch
        BY <1>1
      <3> HIDE DEF e, ch
      <3> QED BY <3>2, <3>3
    <2>3. /\ Len(is) <= Len(names) /\ \A j \in 1 .. Len(is) : names[j] = is[j]
          /\ Len(names) \in Nat /\ Len(is) \in Nat
      <3>1. k + 1 \in 0 .. n
        BY <1>1
      <3> QED BY <1>t, <3>1, NamesFirst
    <2>4. ChannelCount(ch) \in Nat \ {0} /\ NamePart(ch)[1] = <<ch.name>>
      BY <2>2, NamePartIs
    <2>5. PICK parent \in Nat, b \in BOOLEAN :
            /\ channels' = Extended(channels, ch, parent, b)
            /\ program = "sender" => parent = Len(channels)
      <3>1. CASE program = "sender"
        <4>1. channels' = Extended(channels, ch, Len(channels), TRUE)
          BY <1>4, <3>1 DEF CreateTable, Table!CreateChannels, Table!Parent, Extended
        <4>2. Len(channels) \in Nat
          BY <2>1, <2>2
        <4> QED BY <4>1, <4>2
      <3>2. CASE program = "receiver"
        <4>1. channels' = Extended(channels, ch, 0, FALSE)
          BY <1>4, <3>2 DEF CreateTable, Table!AssignNames, Extended
        <4> QED BY <3>2, <4>1
      <3> QED BY <1>4, <3>1, <3>2
    <2> HIDE DEF was, is, names, ch
    <2> DEFINE old == Len(channels)
    <2>6. /\ channels' \in Seq(TableEntry) /\ old \in Nat
          /\ Len(channels') = old + ChannelCount(ch)
          /\ \A i \in 1 .. old : channels'[i] = channels[i]
          /\ \A j \in 1 .. ChannelCount(ch) :
               /\ channels'[old + j].name = NamePart(ch)[j]
               /\ channels'[old + j].parent = parent
               /\ channels'[old + j].name[1] = ch.name
      <3> DEFINE r == Extended(channels, ch, parent, b)
      <3>1. /\ r \in Seq(TableEntry) /\ old \in Nat
            /\ Len(r) = old + ChannelCount(ch)
            /\ \A i \in 1 .. old : r[i] = channels[i]
            /\ \A j \in 1 .. ChannelCount(ch) :
                 /\ r[old + j].name = NamePart(ch)[j]
                 /\ r[old + j].parent = parent
                 /\ r[old + j].name[1] = ch.name
        <4>1. /\ r \in Seq(TableEntry) /\ Len(channels) \in Nat
              /\ Len(r) = Len(channels) + ChannelCount(ch)
              /\ \A i \in 1 .. Len(channels) : r[i] = channels[i]
              /\ \A j \in 1 .. ChannelCount(ch) :
                   /\ r[Len(channels) + j].name = NamePart(ch)[j]
                   /\ r[Len(channels) + j].parent = parent
                   /\ r[Len(channels) + j].name[1] = ch.name
          <5>1. channels \in Seq(TableEntry) /\ ch \in Entry /\ parent \in Nat /\ b \in BOOLEAN
            BY <2>1, <2>2
          <5> HIDE DEF Entry, TableEntry
          <5>2. Longer(channels, Extended(channels, ch, parent, b), ch, parent)
            BY <5>1, TableExtended, Zenon
          <5> QED BY <5>2 DEF Longer
        <4> HIDE DEF r
        <4> QED BY <4>1
      <3> HIDE DEF r
      <3>2. channels' = r
        BY <2>5 DEF r
      <3> QED BY <3>1, <3>2
    <2> HIDE DEF old
    <2>7. old = Len(was) /\ Len(channels') = Len(is)
      BY <2>1, <2>2, <2>6 DEF old
    <2>8. ASSUME NEW i \in 1 .. Len(channels'), i \notin 1 .. old
          PROVE  i - old \in 1 .. ChannelCount(ch) /\ i = old + (i - old)
      BY <2>4, <2>6, <2>8
    <2>9. ASSUME NEW i \in 1 .. Len(channels')
          PROVE  channels'[i].name = is[i]
      <3>1. CASE i \in 1 .. old
        BY <2>1, <2>2, <2>6, <2>7, <3>1
      <3>2. CASE i \notin 1 .. old
        <4> DEFINE j == i - old
        <4>1. j \in 1 .. ChannelCount(ch) /\ i = old + j
          BY <2>8, <3>2
        <4> HIDE DEF j
        <4>2. channels'[old + j].name = NamePart(ch)[j] /\ is[old + j] = NamePart(ch)[j]
          BY <2>2, <2>6, <2>7, <4>1
        <4> QED BY <4>1, <4>2
      <3> QED BY <3>1, <3>2
    <2>10. NumberedInv'
      <3>1. /\ channels' \in Seq(TableEntry) /\ Len(channels') = Len(is)
            /\ \A i \in 1 .. Len(channels') : channels'[i].name = is[i]
        BY <2>6, <2>7, <2>9
      <3> QED BY <1>2, <3>1 DEF is
    <2>11. \A i \in 1 .. Len(channels') : i <= Len(names) /\ names[i] = channels'[i].name
      <3> TAKE i \in 1 .. Len(channels')
      <3>1. i \in 1 .. Len(is) /\ i <= Len(names)
        BY <2>3, <2>7
      <3> QED BY <2>3, <2>9, <3>1
    <2>12. ASSUME program = "sender", NEW i \in 1 .. Len(channels')
           PROVE  names[channels'[i].parent + 1] = <<channels'[i].name[1]>>
      <3>1. CASE i \in 1 .. old
        <4>1. names[channels[i].parent + 1] = <<channels[i].name[1]>>
          BY <2>12, <3>1 DEF IndicesAgree, names, old
        <4>2. channels'[i] = channels[i]
          BY <2>6, <3>1
        <4> QED BY <4>1, <4>2
      <3>2. CASE i \notin 1 .. old
        <4> DEFINE j == i - old
        <4>1. j \in 1 .. ChannelCount(ch) /\ i = old + j
          BY <2>8, <3>2
        <4> HIDE DEF j
        <4>2. channels'[old + j].parent = parent /\ channels'[old + j].name[1] = ch.name
          BY <2>6, <4>1
        <4>3. parent = old
          BY <2>5, <2>12 DEF old
        <4>4. old + 1 \in 1 .. Len(is) /\ 1 \in 1 .. ChannelCount(ch)
          BY <2>2, <2>4, <2>7
        <4>5. names[old + 1] = <<ch.name>>
          BY <2>2, <2>3, <2>4, <2>7, <4>4
        <4> QED BY <4>1, <4>2, <4>3, <4>5
      <3> QED BY <3>1, <3>2
    <2>13. IndicesAgree'
      BY <1>0, <2>11, <2>12 DEF IndicesAgree, names
    <2> QED BY <1>e, <2>10, <2>13
  <1> QED BY <1>0, <1>3, <1>4

(* The generated database, the sender, the receiver and the IOC mean the   *)
(* same channel by an index, whichever channels could not be reached when  *)
(* the database was made, and a field's parent is its own channel (main of *)
(* diode_dbgen, Sender::create_channels, Receiver::create_channels,        *)
(* receiverTask).                                                          *)
THEOREM ProgramsIndicesAgree == Spec => []IndicesAgree
  <1>1. Init => TypeInv
    BY TypeStart
  <1>2. TypeInv /\ [Next]_vars => TypeInv'
    BY TypeStep
  <1>3. Init => NumberedInv /\ EmptyInv /\ IndicesAgree
    BY DEF Init, Gen!GenInit, Table!TableInit, NumberedInv, EmptyInv, IndicesAgree, Starts
  <1>4. TypeInv /\ NumberedInv /\ EmptyInv /\ IndicesAgree /\ [Next]_vars =>
          NumberedInv' /\ EmptyInv' /\ IndicesAgree'
    <2> SUFFICES ASSUME TypeInv, NumberedInv, EmptyInv, IndicesAgree, [Next]_vars
                 PROVE  NumberedInv' /\ EmptyInv' /\ IndicesAgree'
      OBVIOUS
    <2>1. CASE ReadFile
      <3>1. /\ program = "file" /\ program' = "file" /\ records = {} /\ records' = {}
            /\ channel_index' = channel_index /\ channels' = channels
        BY <2>1 DEF ReadFile, genVars, EmptyInv
      <3> QED BY <3>1 DEF NumberedInv, EmptyInv, IndicesAgree, Starts
    <2>2. ASSUME NEW p \in Starts, Start(p) PROVE NumberedInv' /\ EmptyInv' /\ IndicesAgree'
      <3>1. /\ program' = p /\ todo' = config.channels /\ config' = config
            /\ records = {} /\ records' = {} /\ channels' = << >> /\ channel_index' = 0
        BY <2>2 DEF Start, fileVars, genVars, EmptyInv
      <3> DEFINE n == Len(config.channels)
      <3>2. n \in Nat
        <4>1. config.channels \in Seq(Entry)
          BY DEF TypeInv, FileInv, Config
        <4> QED BY <4>1, HashParts
      <3>3. \A k : k = 0 => NamesTo(k)' = << >>
        BY ConcatStep DEF NamesTo
      <3>4. /\ n - Len(todo') = 0 /\ Len(todo') <= n
            /\ \A i \in 1 .. Len(todo') : todo'[i] = config.channels[0 + i]
        BY <3>1, <3>2
      <3>5. << >> \in Seq(TableEntry) /\ Len(<< >>) = 0
        OBVIOUS
      <3>6. NumberedInv'
        BY <3>1, <3>3, <3>4, <3>5 DEF NumberedInv
      <3> QED BY <2>2, <3>1, <3>6 DEF EmptyInv, IndicesAgree, Starts
    <2>3. CASE GenerateDb
      BY <2>3, GenerateStep
    <2>4. CASE CreateTable
      BY <2>4, TableStep
    <2>5. CASE StartSending \/ StartPacking
      <3>1. /\ program' \notin Starts /\ program' # "file" /\ records = {} /\ records' = {}
        BY <2>5 DEF StartSending, StartPacking, FileForgotten, genVars, EmptyInv, Starts
      <3> QED BY <3>1 DEF NumberedInv, EmptyInv, IndicesAgree, Starts
    <2>6. CASE SendDatagrams \/ PassMessage \/ UNCHANGED vars
      <3>1. UNCHANGED <<program, todo, channels, genVars, config>>
        BY <2>6 DEF SendDatagrams, PassMessage, vars, fileVars
      <3> QED BY <3>1 DEF NumberedInv, EmptyInv, IndicesAgree, NamesTo, genVars
    <2> QED BY <2>1, <2>2, <2>3, <2>4, <2>5, <2>6 DEF Next
  <1> QED BY <1>1, <1>2, <1>3, <1>4, PTL DEF Spec

-----------------------------------------------------------------------------
(* Rounding up to the alignment gives a multiple of it, not below what was *)
(* rounded, and moves with a multiple that is added.                       *)
LEMMA Aligned ==
  ASSUME NEW n \in Nat
  PROVE  /\ Wire!AlignUp(n) \in Nat /\ Wire!AlignUp(n) >= n /\ Wire!AlignUp(n) % 8 = 0
         /\ \A p \in Nat : p % 8 = 0 => Wire!AlignUp(p + n) = p + Wire!AlignUp(n)
  <1>1. n % 8 \in 0 .. 7
    OBVIOUS
  <1>2. (n % 8 # 0) => (n + (8 - (n % 8))) % 8 = 0
    BY Z3
  <1>3. Wire!AlignUp(n) \in Nat /\ Wire!AlignUp(n) >= n /\ Wire!AlignUp(n) % 8 = 0
    BY <1>1, <1>2 DEF Wire!AlignUp, Wire!Alignment
  <1>4. ASSUME NEW p \in Nat, p % 8 = 0 PROVE Wire!AlignUp(p + n) = p + Wire!AlignUp(n)
    <2>1. (p + n) % 8 = n % 8
      BY <1>4, Z3
    <2> QED BY <1>1, <2>1 DEF Wire!AlignUp, Wire!Alignment
  <1> QED BY <1>3, <1>4

(* The positions of entries one after the other, the first at start: the   *)
(* function that Written and value_size_aligned compute.                   *)
Place(start, c, g, i) ==
  IF i = c THEN start ELSE Wire!AlignUp(g[i - 1] + Wire!CAChannelDataSize + Wire!Size(i - 1))
IsPlaces(start, c, b, g) == g = [i \in c .. b |-> Place(start, c, g, i)]

(* It exists, because each position comes from the one before. *)
LEMMA PlacesExist ==
  ASSUME NEW start, NEW c \in Nat, NEW b \in Nat, c <= b
  PROVE  \E g : IsPlaces(start, c, b, g)
  <1> DEFINE S == {m \in Nat : \E g : IsPlaces(start, c, c + m, g)}
  <1>1. 0 \in S
    <2> DEFINE g == [i \in c .. c + 0 |-> start]
    <2>1. \A i \in c .. c + 0 : i = c /\ Place(start, c, g, i) = start
      BY DEF Place
    <2>2. [i \in c .. c + 0 |-> Place(start, c, g, i)] = g
      BY <2>1
    <2> HIDE DEF g
    <2>3. IsPlaces(start, c, c + 0, g)
      BY <2>2 DEF IsPlaces
    <2> QED BY <2>3
  <1>2. ASSUME NEW m \in Nat, m \in S PROVE m + 1 \in S
    <2>1. PICK g : IsPlaces(start, c, c + m, g)
      BY <1>2
    <2> DEFINE n == c + m
               next == Wire!AlignUp(g[n] + Wire!CAChannelDataSize + Wire!Size(n))
               h == [i \in c .. n + 1 |-> IF i = n + 1 THEN next ELSE g[i]]
    <2>0. n \in Nat /\ c <= n /\ c + (m + 1) = n + 1
      OBVIOUS
    <2>n. IsPlaces(start, c, n, g)
      BY <2>1
    <2> HIDE DEF n
    <2>2. ASSUME NEW i \in c .. n + 1
          PROVE  h[i] = Place(start, c, h, i)
      <3>1. CASE i = n + 1
        <4>1. i # c /\ i - 1 = n /\ n \in c .. n + 1 /\ n # n + 1
          BY <2>0, <3>1
        <4>2. h[n] = g[n] /\ h[i] = next
          BY <3>1, <4>1
        <4> HIDE DEF h
        <4> QED BY <4>1, <4>2 DEF Place
      <3>2. CASE i # n + 1
        <4>1. i \in c .. n /\ (i # c => i - 1 \in c .. n + 1 /\ i - 1 # n + 1)
          BY <2>0, <3>2
        <4>2. h[i] = g[i] /\ (i # c => h[i - 1] = g[i - 1])
          BY <3>2, <4>1
        <4>3. g[i] = Place(start, c, g, i)
          BY <2>n, <4>1 DEF IsPlaces
        <4> HIDE DEF h
        <4> QED BY <4>2, <4>3 DEF Place
      <3> QED BY <3>1, <3>2
    <2>3. IsPlaces(start, c, n + 1, h)
      <3>1. h = [i \in c .. n + 1 |-> h[i]]
        OBVIOUS
      <3> HIDE DEF h
      <3> QED BY <2>2, <3>1 DEF IsPlaces
    <2> HIDE DEF h
    <2>4. IsPlaces(start, c, c + (m + 1), h)
      BY <2>0, <2>3
    <2> QED BY <2>4
  <1>3. b - c \in S
    <2> HIDE DEF S
    <2>1. Nat \subseteq S
      BY <1>1, <1>2, SetInduction
    <2> QED BY <2>1
  <1>4. c + (b - c) = b
    OBVIOUS
  <1> QED BY <1>3, <1>4

(* The channels from c up to b - 1 have sizes. *)
Sized(c, b) == \A i \in c .. b - 1 : Wire!Size(i) \in Nat

(* The positions g are those of h, moved to start, and are aligned. *)
Moved(start, c, b, g, h) ==
  /\ h[b] \in Nat
  /\ \A i \in c .. b : g[i] \in Nat /\ g[i] % 8 = 0
  /\ g[b] = start + h[b]

(* Where entries are, from each other, does not depend on where the first  *)
(* of them is.                                                             *)
LEMMA PlacesMove ==
  ASSUME NEW start \in Nat, start % 8 = 0, NEW c \in Nat, NEW b \in Nat, c <= b,
         NEW g, IsPlaces(start, c, b, g), NEW h, IsPlaces(0, c, b, h),
         Sized(c, b)
  PROVE  Moved(start, c, b, g, h)
  <1> DEFINE Good(i) == /\ h[i] \in Nat /\ g[i] \in Nat /\ g[i] % 8 = 0 /\ h[i] % 8 = 0
                        /\ g[i] = start + h[i]
             S == {m \in Nat : c + m <= b => Good(c + m)}
  <1>1. /\ \A i \in c .. b : g[i] = Place(start, c, g, i)
        /\ \A i \in c .. b : h[i] = Place(0, c, h, i)
    BY DEF IsPlaces
  <1>2. 0 \in S
    <2>1. c \in c .. b /\ c + 0 = c
      OBVIOUS
    <2>2. g[c] = start /\ h[c] = 0
      BY <1>1, <2>1 DEF Place
    <2> QED BY <2>1, <2>2
  <1>3. ASSUME NEW m \in Nat, m \in S PROVE m + 1 \in S
    <2> SUFFICES ASSUME c + (m + 1) <= b PROVE Good(c + (m + 1))
      OBVIOUS
    <2> DEFINE i == c + m  s == 8 + Wire!Size(i)
    <2>1. /\ i + 1 = c + (m + 1) /\ i + 1 \in c .. b /\ i + 1 # c /\ (i + 1) - 1 = i
          /\ i \in c .. b - 1 /\ c + m <= b
      OBVIOUS
    <2>2. Good(i)
      BY <1>3, <2>1
    <2>3. Wire!Size(i) \in Nat /\ s \in Nat
      BY <2>1 DEF Sized
    <2> HIDE DEF i
    <2>4. /\ g[i + 1] = Wire!AlignUp(g[i] + Wire!CAChannelDataSize + Wire!Size(i))
          /\ h[i + 1] = Wire!AlignUp(h[i] + Wire!CAChannelDataSize + Wire!Size(i))
      BY <1>1, <2>1 DEF Place
    <2>5. /\ g[i] + Wire!CAChannelDataSize + Wire!Size(i) = g[i] + s
          /\ h[i] + Wire!CAChannelDataSize + Wire!Size(i) = h[i] + s
      BY <2>2, <2>3 DEF Wire!CAChannelDataSize
    <2>6. /\ Wire!AlignUp(g[i] + s) = g[i] + Wire!AlignUp(s)
          /\ Wire!AlignUp(h[i] + s) = h[i] + Wire!AlignUp(s)
          /\ Wire!AlignUp(s) \in Nat
      <3> HIDE DEF s
      <3> QED BY <2>2, <2>3, Aligned
    <2>7. Wire!AlignUp(g[i] + s) % 8 = 0 /\ Wire!AlignUp(h[i] + s) % 8 = 0
      <3>1. g[i] + s \in Nat /\ h[i] + s \in Nat
        BY <2>2, <2>3
      <3> HIDE DEF s
      <3> QED BY <3>1, Aligned
    <2>8. Good(i + 1)
      BY <2>2, <2>4, <2>5, <2>6, <2>7
    <2> QED BY <2>1, <2>8
  <1>4. \A i \in c .. b : Good(i)
    <2> HIDE DEF S
    <2>1. Nat \subseteq S
      BY <1>2, <1>3, SetInduction
    <2>2. \A i \in c .. b : i - c \in S
      BY <2>1
    <2>3. \A i \in c .. b : c + (i - c) = i
      OBVIOUS
    <2> QED BY <2>2, <2>3 DEF S
  <1> QED BY <1>4 DEF Moved

-----------------------------------------------------------------------------
(* Sequences of which those from the one after the a-th to the (a + m)-th  *)
(* have an element and the others have none.                               *)
IsBlock(f, n, a, m, x) ==
  \A k \in 1 .. n : f[k] = IF a < k /\ k <= a + m THEN <<x[k]>> ELSE << >>

(* In one, they have these elements.                                       *)
LEMMA ConcatBlock ==
  ASSUME NEW n \in Nat, NEW a \in Nat, NEW m \in Nat, a + m <= n, NEW x, NEW f,
         IsBlock(f, n, a, m, x)
  PROVE  Concat(f, n) = [j \in 1 .. m |-> x[a + j]]
  <1> DEFINE Width(k) == IF k <= a THEN 0 ELSE IF k <= a + m THEN k - a ELSE m
             Part(w) == [j \in 1 .. w |-> x[a + j]]
             T == {x[k] : k \in 1 .. n}
             S == {k \in Nat : k <= n => Concat(f, k) = Part(Width(k))}
  <1>1. 0 \in S
    <2>1. Width(0) = 0 /\ Part(0) = << >>
      OBVIOUS
    <2> QED BY <2>1, ConcatStep
  <1>2. ASSUME NEW k \in Nat, k \in S PROVE k + 1 \in S
    <2> SUFFICES ASSUME k + 1 <= n PROVE Concat(f, k + 1) = Part(Width(k + 1))
      OBVIOUS
    <2>1. Concat(f, k) = Part(Width(k))
      BY <1>2
    <2>2. Concat(f, k + 1) = Part(Width(k)) \o f[k + 1]
      BY <2>1, ConcatStep
    <2>3. Width(k) \in 0 .. m
      OBVIOUS
    <2>f. /\ k + 1 \in 1 .. n
          /\ f[k + 1] = IF a < k + 1 /\ k + 1 <= a + m THEN <<x[k + 1]>> ELSE << >>
      <3>1. k + 1 \in 1 .. n
        OBVIOUS
      <3> QED BY <3>1 DEF IsBlock
    <2> DEFINE w == Width(k)  s == Part(w)
    <2>4. s \in Seq(T) /\ Len(s) = w /\ \A j \in 1 .. w : s[j] = x[a + j]
      <3>1. \A j \in 1 .. w : a + j \in 1 .. n
        BY <2>3
      <3>2. s \in [1 .. w -> T]
        BY <3>1
      <3> HIDE DEF w, T
      <3>3. DOMAIN s = 1 .. w /\ w \in Nat
        BY <2>3 DEF w
      <3> HIDE DEF s
      <3>4. s \in Seq(T) /\ Len(s) = w
        BY <3>2, <3>3
      <3> QED BY <3>4 DEF s
    <2>5. CASE a < k + 1 /\ k + 1 <= a + m
      <3>1. Width(k + 1) = w + 1 /\ k + 1 = a + (w + 1)
        <4>1. Width(k + 1) = k + 1 - a
          BY <2>5
        <4>2. w = k - a
          <5>1. CASE k = a
            BY <5>1
          <5>2. CASE k # a
            <6>1. ~ (k <= a) /\ k <= a + m
              BY <2>5, <5>2
            <6> QED BY <6>1
          <5> QED BY <5>1, <5>2
        <4> HIDE DEF w, Width
        <4> QED BY <4>1, <4>2
      <3>2. f[k + 1] = <<x[k + 1]>> /\ x[k + 1] \in T
        BY <2>5, <2>f
      <3> DEFINE y == x[k + 1]  r == s \o <<y>>
      <3> HIDE DEF y, T, s, w, Width
      <3>3. /\ r \in Seq(T) /\ Len(r) = w + 1
            /\ \A j \in 1 .. w + 1 : r[j] = IF j <= w THEN s[j] ELSE y
        <4>1. <<y>> \in Seq(T) /\ Len(<<y>>) = 1 /\ <<y>>[1] = y
          BY <3>2 DEF y
        <4>2. /\ r \in Seq(T) /\ Len(r) = Len(s) + Len(<<y>>)
              /\ \A j \in 1 .. Len(s) + Len(<<y>>) :
                   r[j] = IF j <= Len(s) THEN s[j] ELSE <<y>>[j - Len(s)]
          BY <2>4, <4>1, ConcatProperties
        <4>3. \A j \in 1 .. w + 1 : ~ (j <= w) => j - w = 1
          BY <2>3 DEF w
        <4> HIDE DEF r
        <4>4. Len(s) = w /\ Len(r) = w + 1 /\ w \in Nat
          BY <2>3, <2>4, <4>1, <4>2 DEF w
        <4> QED BY <4>1, <4>2, <4>3, <4>4
      <3> HIDE DEF r
      <3>4. \A j \in 1 .. w + 1 : r[j] = x[a + j]
        <4> TAKE j \in 1 .. w + 1
        <4>1. w \in Nat
          BY <2>3 DEF w
        <4>2. CASE j <= w
          BY <2>4, <3>3, <4>1, <4>2
        <4>3. CASE ~ (j <= w)
          <5>1. j = w + 1
            BY <4>1, <4>3
          <5> QED BY <3>1, <3>3, <4>3, <5>1 DEF y
        <4> QED BY <4>2, <4>3
      <3>5. r = [j \in 1 .. w + 1 |-> r[j]]
        BY <3>3
      <3>6. r = Part(w + 1)
        BY <3>4, <3>5
      <3>7. Concat(f, k + 1) = r
        BY <2>2, <3>2 DEF r, y, s, w
      <3> HIDE DEF Part
      <3> QED BY <3>1, <3>6, <3>7
    <2>6. CASE ~ (a < k + 1 /\ k + 1 <= a + m)
      <3>1. Width(k + 1) = w
        <4>1. CASE k + 1 <= a
          BY <4>1
        <4>2. CASE ~ (k + 1 <= a)
          <5>1. ~ (k + 1 <= a + m) /\ Width(k + 1) = m
            BY <2>6, <4>2
          <5>2. w = m
            <6>1. CASE k = a + m
              <7>1. k <= a => m = 0 /\ w = 0
                BY <6>1
              <7>2. ~ (k <= a) => w = k - a
                BY <6>1
              <7> HIDE DEF w
              <7> QED BY <6>1, <7>1, <7>2
            <6>2. CASE k # a + m
              <7>1. ~ (k <= a) /\ ~ (k <= a + m)
                BY <5>1, <6>2
              <7> QED BY <7>1
            <6> QED BY <6>1, <6>2
          <5> HIDE DEF w, Width
          <5> QED BY <5>1, <5>2
        <4> QED BY <4>1, <4>2
      <3>2. f[k + 1] = << >>
        BY <2>6, <2>f
      <3> HIDE DEF s, w, Width, T
      <3>3. s \o << >> = s
        BY <2>4, ConcatEmptySeq
      <3> HIDE DEF Part
      <3> QED BY <2>2, <3>1, <3>2, <3>3 DEF s, w
    <2> QED BY <2>5, <2>6
  <1>3. n \in S
    <2> HIDE DEF S
    <2>1. Nat \subseteq S
      BY <1>1, <1>2, SetInduction
    <2> QED BY <2>1
  <1>4. Width(n) = m
    OBVIOUS
  <1> HIDE DEF Width
  <1> QED BY <1>3, <1>4

-----------------------------------------------------------------------------
(* A channel of a sender's table is a record or belongs to the record the  *)
(* channel before it belongs to.                                           *)
Grouped ==
  /\ channels \in Seq(TableEntry)
  /\ \A i \in Wire!Index : \/ Wire!Parent(i) = i
                           \/ i > 0 /\ Wire!Parent(i) = Wire!Parent(i - 1)

(* Parents do not get smaller. *)
LEMMA ParentsGrow ==
  ASSUME Grouped
  PROVE  /\ Len(channels) \in Nat
         /\ \A i \in Wire!Index : Wire!Parent(i) \in Nat /\ Wire!Parent(i) <= i
         /\ \A i, j \in Wire!Index : i <= j => Wire!Parent(i) <= Wire!Parent(j)
  <1> DEFINE n == Len(channels)  P(i) == Wire!Parent(i)
             S == {j \in Nat : j < n => /\ P(j) <= j
                                        /\ \A i \in 0 .. j : P(i) \in Nat /\ P(i) <= P(j)}
  <1>0. n \in Nat /\ Wire!Index = 0 .. n - 1
    <2>1. channels \in Seq(TableEntry)
      BY DEF Grouped
    <2> HIDE DEF TableEntry
    <2> QED BY <2>1 DEF Wire!Index
  <1>1. \A i \in 0 .. n - 1 : P(i) = i \/ (i > 0 /\ P(i) = P(i - 1))
    BY <1>0 DEF Grouped
  <1> HIDE DEF P, n
  <1>2. 0 \in S
    <2>1. 0 < n => P(0) = 0
      BY <1>0, <1>1
    <2>2. \A i \in 0 .. 0 : i = 0
      OBVIOUS
    <2> QED BY <2>1, <2>2
  <1>3. ASSUME NEW j \in Nat, j \in S PROVE j + 1 \in S
    <2> SUFFICES ASSUME j + 1 < n
                 PROVE  /\ P(j + 1) <= j + 1
                        /\ \A i \in 0 .. j + 1 : P(i) \in Nat /\ P(i) <= P(j + 1)
      OBVIOUS
    <2>1. P(j) <= j /\ \A i \in 0 .. j : P(i) \in Nat /\ P(i) <= P(j)
      BY <1>0, <1>3
    <2>2. P(j + 1) = j + 1 \/ P(j + 1) = P(j)
      <3>1. j + 1 \in 0 .. n - 1 /\ (j + 1) - 1 = j
        BY <1>0
      <3> QED BY <1>1, <3>1
    <2>3. P(j) \in Nat /\ P(j + 1) \in Nat /\ P(j + 1) <= j + 1 /\ P(j) <= P(j + 1)
      BY <2>1, <2>2
    <2>4. ASSUME NEW i \in 0 .. j + 1 PROVE P(i) \in Nat /\ P(i) <= P(j + 1)
      <3>1. CASE i = j + 1
        BY <2>3, <3>1
      <3>2. CASE i # j + 1
        <4>1. i \in 0 .. j
          BY <3>2
        <4>2. P(i) \in Nat /\ P(i) <= P(j)
          BY <2>1, <4>1
        <4> QED BY <2>3, <4>2
      <3> QED BY <3>1, <3>2
    <2> QED BY <2>3, <2>4
  <1>4. Nat \subseteq S
    <2> HIDE DEF S
    <2> QED BY <1>2, <1>3, SetInduction
  <1>5. \A j \in 0 .. n - 1 : /\ P(j) <= j
                              /\ \A i \in 0 .. j : P(i) \in Nat /\ P(i) <= P(j)
    BY <1>0, <1>4
  <1>6. \A i, j \in 0 .. n - 1 : i <= j => P(i) <= P(j)
    BY <1>0, <1>5
  <1> QED BY <1>0, <1>5, <1>6 DEF P, n

(* ChannelGroup: the channels of a record are those from the record on     *)
(* that GroupEnd finds.                                                    *)
LEMMA GroupIs ==
  ASSUME Grouped, NEW c \in Records
  PROVE  /\ Len(channels) \in Nat /\ c \in Nat /\ Wire!GroupEnd(c) \in Nat
         /\ c <= Wire!GroupEnd(c) /\ Wire!GroupEnd(c) < Len(channels)
         /\ \A i \in Wire!Index : (Wire!Parent(i) = c) <=> i \in c .. Wire!GroupEnd(c)
  <1> DEFINE n == Len(channels)  P(i) == Wire!Parent(i)
             ends == {i \in c .. n - 2 : P(i) < P(i + 1)}
             Is(e) == e \in ends \cup {n - 1} /\ \A i \in ends : e <= i
             e == Wire!GroupEnd(c)
  <1>0. n \in Nat /\ Wire!Index = 0 .. n - 1 /\ c \in 0 .. n - 1 /\ P(c) = c
    BY ParentsGrow DEF Wire!Index, Records
  <1>1. /\ \A i \in 0 .. n - 1 : P(i) \in Nat /\ P(i) <= i
        /\ \A i, j \in 0 .. n - 1 : i <= j => P(i) <= P(j)
    BY <1>0, ParentsGrow
  <1>e. e = CHOOSE i \in Wire!Index : Is(i)
    BY DEF Wire!GroupEnd
  <1> HIDE DEF P, n, e
  <1>2. e \in 0 .. n - 1 /\ Is(e)
    <2>1. ends \cup {n - 1} \subseteq Nat /\ ends \cup {n - 1} # {}
      BY <1>0
    <2>2. PICK m \in ends \cup {n - 1} : \A k \in ends \cup {n - 1} : m <= k
      <3> HIDE DEF ends
      <3> QED BY <2>1, LeastElement
    <2>3. m \in 0 .. n - 1 /\ Is(m)
      BY <1>0, <2>1, <2>2
    <2>4. \E i \in Wire!Index : Is(i)
      <3> HIDE DEF Is
      <3> QED BY <1>0, <2>3
    <2> HIDE DEF Is
    <2> QED BY <1>0, <1>e, <2>4
  <1>3. c <= e
    BY <1>0, <1>2
  <1>4. \A i \in c .. e : P(i) = c
    <2> DEFINE S == {m \in Nat : c + m <= e => P(c + m) = c}
    <2>1. 0 \in S
      BY <1>0
    <2>2. ASSUME NEW m \in Nat, m \in S PROVE m + 1 \in S
      <3> SUFFICES ASSUME c + (m + 1) <= e PROVE P(c + (m + 1)) = c
        OBVIOUS
      <3> DEFINE k == c + m
      <3>1. /\ c + (m + 1) = k + 1 /\ k <= e /\ ~ (e <= k)
            /\ k \in c .. n - 2 /\ k \in 0 .. n - 1 /\ k + 1 \in 0 .. n - 1 /\ k <= k + 1
        BY <1>0, <1>2
      <3>2. P(k) = c
        BY <2>2, <3>1
      <3> HIDE DEF k
      <3>3. ~ (P(k) < P(k + 1))
        BY <1>2, <3>1
      <3>4. P(k) <= P(k + 1) /\ P(k) \in Nat /\ P(k + 1) \in Nat
        BY <1>1, <3>1
      <3> QED BY <3>1, <3>2, <3>3, <3>4
    <2>3. Nat \subseteq S
      <3> HIDE DEF S
      <3> QED BY <2>1, <2>2, SetInduction
    <2>4. \A i \in c .. e : i - c \in S /\ c + (i - c) = i
      <3> HIDE DEF S
      <3> QED BY <1>0, <1>2, <2>3
    <2> QED BY <2>4
  <1>5. ASSUME NEW i \in 0 .. n - 1, P(i) = c PROVE i \in c .. e
    <2>1. c <= i
      BY <1>0, <1>1, <1>5
    <2>2. ASSUME i > e PROVE FALSE
      <3>1. e # n - 1 /\ e + 1 \in 0 .. n - 1 /\ e + 1 <= i /\ e \in 0 .. n - 1
        BY <1>0, <1>2, <2>2
      <3>2. P(e) < P(e + 1)
        BY <1>2, <3>1
      <3>3. P(e) = c
        BY <1>0, <1>2, <1>3, <1>4
      <3>4. P(e + 1) <= P(i) /\ P(e) \in Nat /\ P(e + 1) \in Nat /\ P(i) \in Nat
        BY <1>1, <3>1
      <3> QED BY <1>5, <3>2, <3>3, <3>4
    <2> QED BY <1>0, <1>2, <2>1, <2>2
  <1> QED BY <1>0, <1>2, <1>3, <1>4, <1>5 DEF P, n, e

(* A channel with the count of its value, as the callback gets it. *)
Counted(i) == [id |-> i, count |-> count[i]]

(* The entries of a record are those of its group.                         *)
LEMMA EntriesIs ==
  ASSUME Grouped, NEW c \in Records
  PROVE  Entries(c) = [j \in 1 .. Wire!GroupEnd(c) - c + 1 |-> Counted(c + j - 1)]
  <1> DEFINE n == Len(channels)  e == Wire!GroupEnd(c)  m == e - c + 1
             x == [k \in 1 .. n |-> [id |-> k - 1, count |-> count[k - 1]]]
             f == [k \in 1 .. n |->
                     IF Wire!Parent(k - 1) = c
                     THEN <<[id |-> k - 1, count |-> count[k - 1]]>> ELSE << >>]
  <1>1. /\ n \in Nat /\ c \in Nat /\ e \in Nat /\ c <= e /\ e < n
        /\ \A i \in Wire!Index : (Wire!Parent(i) = c) <=> i \in c .. e
    BY GroupIs
  <1>2. Entries(c) = Concat(f, n)
    BY DEF Entries
  <1>3. Wire!Index = 0 .. n - 1
    BY DEF Wire!Index
  <1> HIDE DEF n, e
  <1>4. m \in Nat /\ c + m <= n
    BY <1>1
  <1>5. ASSUME NEW k \in 1 .. n
        PROVE  f[k] = IF c < k /\ k <= c + m THEN <<x[k]>> ELSE << >>
    <2>1. k - 1 \in Wire!Index /\ (k - 1 \in c .. e <=> (c < k /\ k <= c + m))
      BY <1>1, <1>3
    <2>2. (Wire!Parent(k - 1) = c) <=> (c < k /\ k <= c + m)
      BY <1>1, <2>1
    <2> HIDE DEF m
    <2> QED BY <2>2
  <1>6. \A j \in 1 .. m : c + j \in 1 .. n /\ (c + j) - 1 = c + j - 1
    BY <1>1
  <1> HIDE DEF m
  <1>7. \A j \in 1 .. m : x[c + j] = Counted(c + j - 1)
    BY <1>6 DEF Counted
  <1> HIDE DEF f, x
  <1>8. Concat(f, n) = [j \in 1 .. m |-> x[c + j]]
    <2>1. IsBlock(f, n, c, m, x)
      BY <1>5, Zenon DEF IsBlock
    <2>2. n \in Nat /\ c \in Nat /\ m \in Nat /\ c + m <= n
      BY <1>1, <1>4
    <2> QED BY <2>1, <2>2, ConcatBlock
  <1>9. [j \in 1 .. m |-> x[c + j]] = [j \in 1 .. m |-> Counted(c + j - 1)]
    BY <1>7
  <1> QED BY <1>2, <1>8, <1>9 DEF m, e

-----------------------------------------------------------------------------
(* What is in a message: the channels w, in this order, and where the      *)
(* entries are; the last position is the end.                              *)
Placed(w, p, k) ==
  [at |-> p[k], id |-> w[k], type |-> Wire!TypeOf(w[k]), count |-> Wire!OnWire(count[w[k]])]
Positions(w, p) ==
  /\ p \in [1 .. Len(w) + 1 -> Nat] /\ p[1] = Wire!PayloadPos
  /\ \A k \in 1 .. Len(w) :
       p[k + 1] = Wire!AlignUp(p[k] + Wire!CAChannelDataSize + Wire!Size(w[k]))
  /\ p[Len(w) + 1] % 8 = 0 /\ p[Len(w) + 1] <= MaxMessageSize
Layout(w, p) ==
  /\ w \in Seq(Wire!Index)
  /\ Positions(w, p)
  /\ buffer = {Placed(w, p, k) : k \in 1 .. Len(w)}
  /\ [k \in 1 .. Len(w) |-> Counted(w[k])]
       = Concat([k \in 1 .. Len(packed) |-> Entries(packed[k])], Len(packed))

(* How far the sender is, or the receiver.                                 *)
Writing(w, p) ==
  /\ wire = "writing" /\ limit = MaxMessageSize /\ pos = p[Len(w) + 1]
  /\ update_count = Len(w) /\ called = << >>
Reading(w, p) ==
  /\ wire \in {"reading", "read"} /\ limit = p[Len(w) + 1]
  /\ update_count \in 0 .. Len(w) /\ pos = p[Len(w) - update_count + 1]
  /\ called = [k \in 1 .. Len(w) - update_count |-> Counted(w[k])]
  /\ wire = "read" => update_count = 0

MessageInv ==
  /\ good = TRUE
  /\ count \in [Wire!Index -> Elements \cup {Gone}]
  /\ queue \in Seq(Records) /\ packed \in Seq(Records)
  /\ \E w, p : Layout(w, p) /\ (Writing(w, p) \/ Reading(w, p))

WireInv ==
  /\ program \in {"sender", "packing"} => Grouped
  /\ Wire!WireInit \/ (program = "packing" /\ MessageInv)

(* Sizes are numbers.                                                      *)
LEMMA SizesAre ==
  ASSUME count \in [Wire!Index -> Elements \cup {Gone}]
  PROVE  \A i \in Wire!Index : /\ Wire!Size(i) \in Nat
                               /\ count[i] # Gone => count[i] \in Nat /\ count[i] <= Wire!Size(i)
  <1> SUFFICES ASSUME NEW i \in Wire!Index
               PROVE  /\ Wire!Size(i) \in Nat
                      /\ count[i] # Gone => count[i] \in Nat /\ count[i] <= Wire!Size(i)
    OBVIOUS
  <1>1. count[i] \in Elements \cup {Gone} /\ Elements \subseteq Nat /\ MetaBytes \in Nat
    BY ElementsAssumption
  <1>2. CASE count[i] = Gone
    BY <1>2 DEF Wire!Size
  <1>3. CASE count[i] # Gone
    <2> DEFINE x == count[i]
    <2>1. x \in Nat /\ MetaBytes \in Nat
      BY <1>1, <1>3
    <2>2. Wire!Size(i) = IF Wire!TypeOf(i) = "time" THEN MetaBytes + x ELSE x
      BY <1>3 DEF Wire!Size, Wire!dbr_size_n
    <2> HIDE DEF x
    <2>3. Wire!Size(i) \in Nat /\ x <= Wire!Size(i)
      BY <2>1, <2>2
    <2> QED BY <2>1, <2>3 DEF x
  <1> QED BY <1>2, <1>3

(* Every entry is before the next, and all are before the end; so the      *)
(* count of each fits its 16 bits.                                         *)
LEMMA PositionsGrow ==
  ASSUME count \in [Wire!Index -> Elements \cup {Gone}],
         NEW w \in Seq(Wire!Index), NEW p, Positions(w, p)
  PROVE  /\ \A k \in 1 .. Len(w) + 1 : p[k] \in Nat /\ p[k] >= 32 /\ p[k] <= p[Len(w) + 1]
         /\ \A k \in 1 .. Len(w) : p[k] + 8 + Wire!Size(w[k]) <= p[k + 1]
         /\ \A j, k \in 1 .. Len(w) : p[j] = p[k] => j = k
         /\ \A k \in 1 .. Len(w) :
              count[w[k]] # Gone => count[w[k]] \in Nat /\ count[w[k]] < CountMod - 1
  <1> DEFINE n == Len(w)  e == p[n + 1]
  <1>1. n \in Nat /\ \A k \in 1 .. n : w[k] \in Wire!Index
    BY ElementOfSeq
  <1>2. \A k \in 1 .. n : /\ Wire!Size(w[k]) \in Nat
                          /\ count[w[k]] # Gone => /\ count[w[k]] \in Nat
                                                   /\ count[w[k]] <= Wire!Size(w[k])
    BY <1>1, SizesAre
  <1>3. /\ \A k \in 1 .. n + 1 : p[k] \in Nat
        /\ p[1] = 32 /\ p[n + 1] <= MaxMessageSize
    BY DEF Positions, Wire!PayloadPos, Wire!HeaderSize, Wire!SubmessageHeaderSize,
           Wire!CADataMessageSize
  <1>4. ASSUME NEW k \in 1 .. n
        PROVE  p[k] + 8 + Wire!Size(w[k]) <= p[k + 1]
    <2> DEFINE s == p[k] + 8 + Wire!Size(w[k])
    <2>1. k \in 1 .. n + 1
      BY <1>1
    <2>2. s \in Nat
      BY <1>2, <1>3, <2>1
    <2>3. p[k + 1] = Wire!AlignUp(s)
      BY DEF Positions, Wire!CAChannelDataSize
    <2> HIDE DEF s
    <2>4. s <= p[k + 1]
      BY <2>2, <2>3, Aligned
    <2> QED BY <2>4 DEF s
  <1> HIDE DEF n
  <1>5. \A k \in 1 .. n : p[k] + 8 <= p[k + 1]
    <2> TAKE k \in 1 .. n
    <2>1. k \in 1 .. n + 1 /\ k + 1 \in 1 .. n + 1
      BY <1>1
    <2>2. p[k] \in Nat /\ p[k + 1] \in Nat /\ Wire!Size(w[k]) \in Nat
      BY <1>2, <1>3, <2>1
    <2> QED BY <1>4, <2>2
  <1>6. \A j, k \in 1 .. n + 1 : j < k => p[j] + 8 <= p[k]
    <2> DEFINE S == {k \in Nat : k <= n + 1 => \A j \in 1 .. k : j < k => p[j] + 8 <= p[k]}
    <2>1. 0 \in S
      OBVIOUS
    <2>2. ASSUME NEW k \in Nat, k \in S PROVE k + 1 \in S
      <3> SUFFICES ASSUME k + 1 <= n + 1, NEW j \in 1 .. k + 1, j < k + 1
                   PROVE  p[j] + 8 <= p[k + 1]
        OBVIOUS
      <3>1. k \in 1 .. n /\ k \in 1 .. n + 1 /\ k + 1 \in 1 .. n + 1 /\ j \in 1 .. k /\ j \in 1 .. n + 1
        BY <1>1
      <3>2. p[k] + 8 <= p[k + 1] /\ p[j] \in Nat /\ p[k] \in Nat /\ p[k + 1] \in Nat
        BY <1>3, <1>5, <3>1
      <3>3. CASE j = k
        BY <3>2, <3>3
      <3>4. CASE j # k
        <4>1. j < k /\ k <= n + 1
          BY <3>1, <3>4
        <4>2. p[j] + 8 <= p[k]
          BY <2>2, <3>1, <4>1
        <4> QED BY <3>2, <4>2
      <3> QED BY <3>3, <3>4
    <2>3. Nat \subseteq S
      <3> HIDE DEF S
      <3> QED BY <2>1, <2>2, SetInduction
    <2> QED BY <1>1, <2>3
  <1>7. \A k \in 1 .. n + 1 : p[k] >= 32 /\ p[k] <= p[n + 1]
    <2> TAKE k \in 1 .. n + 1
    <2>1. 1 \in 1 .. n + 1 /\ n + 1 \in 1 .. n + 1 /\ (k = 1 \/ 1 < k) /\ (k = n + 1 \/ k < n + 1)
      BY <1>1
    <2>2. p[k] \in Nat /\ p[n + 1] \in Nat
      BY <1>3, <2>1
    <2>3. (1 < k => p[1] + 8 <= p[k]) /\ (k < n + 1 => p[k] + 8 <= p[n + 1])
      BY <1>6, <2>1
    <2> QED BY <1>3, <2>1, <2>2, <2>3
  <1>8. \A j, k \in 1 .. n : p[j] = p[k] => j = k
    <2> TAKE j, k \in 1 .. n
    <2>1. j \in 1 .. n + 1 /\ k \in 1 .. n + 1 /\ (j = k \/ j < k \/ k < j)
      BY <1>1
    <2>2. p[j] \in Nat /\ p[k] \in Nat
      BY <1>3, <2>1
    <2>3. (j < k => p[j] + 8 <= p[k]) /\ (k < j => p[k] + 8 <= p[j])
      BY <1>6, <2>1
    <2> QED BY <2>1, <2>2, <2>3
  <1>9. ASSUME NEW k \in 1 .. n, count[w[k]] # Gone
        PROVE  count[w[k]] \in Nat /\ count[w[k]] < CountMod - 1
    <2> DEFINE s == Wire!Size(w[k])  x == count[w[k]]
    <2>1. x \in Nat /\ s \in Nat /\ x <= s
      BY <1>2, <1>9
    <2> HIDE DEF s, x
    <2>2. k \in 1 .. n + 1 /\ k + 1 \in 1 .. n + 1 /\ n + 1 \in 1 .. n + 1
      BY <1>1
    <2>3. p[k] \in Nat /\ p[k] >= 32 /\ p[k + 1] \in Nat /\ p[k + 1] <= p[n + 1] /\ p[n + 1] \in Nat
      BY <1>3, <1>7, <2>2
    <2>4. p[k] + 8 + s <= p[k + 1]
      BY <1>4 DEF s
    <2>5. x \in Nat /\ x < CountMod - 1
      <3> DEFINE q == p[k]  r == p[k + 1]  end == p[n + 1]
      <3>1. /\ q \in Nat /\ q >= 32 /\ r \in Nat /\ r <= end /\ end \in Nat
            /\ q + 8 + s <= r /\ end <= MaxMessageSize
        BY <1>3, <2>3, <2>4
      <3> HIDE DEF q, r, end
      <3>2. MaxMessageSize \in Nat /\ CountMod \in Nat /\ CountMod >= MaxMessageSize - 24
        BY MessageAssumption
      <3> QED BY <2>1, <3>1, <3>2
    <2> QED BY <2>5 DEF x
  <1> QED BY <1>3, <1>4, <1>7, <1>8, <1>9 DEF n

(* The channels of a group, and the positions of a message with the group. *)
Group(c, e) == [j \in 1 .. e - c + 1 |-> c + j - 1]
Extends(p, n, c, e, at) ==
  [k \in 1 .. n + (e - c + 1) + 1 |-> IF k <= n + 1 THEN p[k] ELSE at[c + k - n - 1]]

(* The channels w and those of the group, channel by channel. *)
IsLonger(w, c, e) ==
  LET n == Len(w)
      m == e - c + 1
      v == w \o Group(c, e)
  IN /\ n \in Nat /\ m \in Nat /\ v \in Seq(Wire!Index) /\ Len(v) = n + m
     /\ \A k \in 1 .. n : v[k] = w[k]
     /\ \A j \in 1 .. m : v[n + j] = c + j - 1

(* A group of the table can be added to the channels of a message.         *)
LEMMA GroupAdded ==
  ASSUME NEW w \in Seq(Wire!Index), NEW c \in Nat, NEW e \in Nat, c <= e, e \in Wire!Index
  PROVE  IsLonger(w, c, e)
  <1> DEFINE n == Len(w)  m == e - c + 1  g == Group(c, e)  v == w \o g
             T == Wire!Index
  <1>2. \A i \in c .. e : i \in T
    BY DEF Wire!Index
  <1>3. n \in Nat /\ m \in Nat
    OBVIOUS
  <1>4. \A j \in 1 .. m : c + j - 1 \in T
    <2>1. \A j \in 1 .. m : c + j - 1 \in c .. e
      OBVIOUS
    <2> HIDE DEF T
    <2> QED BY <1>2, <2>1
  <1> HIDE DEF T, n
  <1>5. g \in [1 .. m -> T] /\ \A j \in 1 .. m : g[j] = c + j - 1
    BY <1>4 DEF Group
  <1> HIDE DEF m, g
  <1>6. g \in Seq(T) /\ Len(g) = m
    BY <1>3, <1>5, FunctionIsSequence
  <1>7. /\ v \in Seq(T) /\ Len(v) = Len(w) + Len(g)
        /\ \A i \in 1 .. Len(w) + Len(g) : v[i] = IF i <= Len(w) THEN w[i] ELSE g[i - Len(w)]
    BY <1>6, ConcatProperties DEF T
  <1> HIDE DEF v
  <1>8. /\ Len(v) = n + m
        /\ \A i \in 1 .. n + m : v[i] = IF i <= n THEN w[i] ELSE g[i - n]
    BY <1>6, <1>7 DEF n
  <1>9. \A k \in 1 .. n : v[k] = w[k]
    BY <1>3, <1>8
  <1>10. ASSUME NEW j \in 1 .. m PROVE v[n + j] = c + j - 1
    <2>1. n + j \in 1 .. n + m /\ ~ (n + j <= n) /\ (n + j) - n = j
      BY <1>3
    <2>2. v[n + j] = g[j]
      BY <1>8, <2>1
    <2> QED BY <1>5, <2>2
  <1> QED BY <1>3, <1>7, <1>8, <1>9, <1>10 DEF T, n, m, v, g, IsLonger

(* The positions p of the channels w, with those of the group at at. *)
LongerBy(w, p, c, e, at) ==
  LET n == Len(w)
      q == Extends(p, n, c, e, at)
  IN /\ Positions(w \o Group(c, e), q)
     /\ \A k \in 1 .. n + 1 : q[k] = p[k]
     /\ \A j \in 1 .. e - c + 1 : q[n + j] = at[c + j - 1]
     /\ q[n + (e - c + 1) + 1] = at[e + 1]

(* They can, if there is room.                                             *)
LEMMA PositionsAdded ==
  ASSUME count \in [Wire!Index -> Elements \cup {Gone}],
         NEW w \in Seq(Wire!Index), NEW p, Positions(w, p),
         NEW c \in Nat, NEW e \in Nat, c <= e, e \in Wire!Index,
         NEW at, IsPlaces(p[Len(w) + 1], c, e + 1, at),
         NEW h, IsPlaces(0, c, e + 1, h), p[Len(w) + 1] + h[e + 1] <= MaxMessageSize
  PROVE  LongerBy(w, p, c, e, at)
  <1> DEFINE n == Len(w)  m == e - c + 1  q == Extends(p, n, c, e, at)  v == w \o Group(c, e)
             start == p[n + 1]
  <1>1. /\ n \in Nat /\ m \in Nat /\ v \in Seq(Wire!Index) /\ Len(v) = n + m
        /\ \A k \in 1 .. n : v[k] = w[k]
        /\ \A j \in 1 .. m : v[n + j] = c + j - 1
    <2>1. IsLonger(w, c, e)
      BY GroupAdded, Zenon
    <2> QED BY <2>1 DEF IsLonger
  <1>2. /\ p \in [1 .. n + 1 -> Nat] /\ p[1] = Wire!PayloadPos
        /\ \A k \in 1 .. n :
             p[k + 1] = Wire!AlignUp(p[k] + Wire!CAChannelDataSize + Wire!Size(w[k]))
        /\ start % 8 = 0
    BY DEF Positions
  <1>3. start \in Nat
    BY <1>1, <1>2
  <1>4. IsPlaces(start, c, e + 1, at) /\ start + h[e + 1] <= MaxMessageSize
    OBVIOUS
  <1>q. q = [k \in 1 .. n + m + 1 |-> IF k <= n + 1 THEN p[k] ELSE at[c + k - n - 1]]
    BY DEF Extends
  <1>m. m = e - c + 1 /\ e + 1 = c + m
    OBVIOUS
  <1>z. \A i \in c .. (e + 1) - 1 : Wire!Size(i) \in Nat
    <2>1. \A i \in c .. (e + 1) - 1 : i \in Wire!Index
      BY DEF Wire!Index
    <2> QED BY <2>1, SizesAre
  <1> HIDE DEF n, start, q, v, m
  <1>5. /\ \A i \in c .. e + 1 : at[i] \in Nat /\ at[i] % 8 = 0
        /\ at[e + 1] = start + h[e + 1]
    <2> DEFINE b == e + 1
    <2>1. b \in Nat /\ c <= b
      OBVIOUS
    <2>2. IsPlaces(start, c, b, at) /\ IsPlaces(0, c, b, h) /\ start % 8 = 0
      BY <1>2, <1>4
    <2>3. Sized(c, b)
      BY <1>z DEF Sized
    <2> HIDE DEF b
    <2>4. Moved(start, c, b, at, h)
      BY <1>3, <2>1, <2>2, <2>3, PlacesMove, Zenon
    <2> QED BY <2>4 DEF b, Moved
  <1>6. \A i \in c .. e + 1 : at[i] = Place(start, c, at, i)
    BY <1>4 DEF IsPlaces
  <1>7. at[c] = start
    BY <1>6 DEF Place
  <1>8. \A k \in 1 .. n + 1 : q[k] = p[k]
    BY <1>1, <1>q
  <1>9. ASSUME NEW j \in 0 .. m PROVE q[n + 1 + j] = at[c + j]
    <2>1. n + 1 + j \in 1 .. n + m + 1 /\ c + (n + 1 + j) - n - 1 = c + j
      BY <1>1
    <2>2. CASE j = 0
      <3>1. n + 1 + j = n + 1 /\ n + 1 \in 1 .. n + 1 /\ c + j = c
        BY <1>1, <2>2
      <3> QED BY <1>7, <1>8, <3>1 DEF start
    <2>3. CASE j # 0
      <3>1. ~ (n + 1 + j <= n + 1)
        BY <1>1, <2>3
      <3> QED BY <1>q, <2>1, <3>1
    <2> QED BY <2>2, <2>3
  <1>10. \A j \in 1 .. m : q[n + j] = at[c + j - 1] /\ q[n + j + 1] = at[c + j]
    <2> TAKE j \in 1 .. m
    <2>1. /\ j - 1 \in 0 .. m /\ n + 1 + (j - 1) = n + j /\ c + (j - 1) = c + j - 1
          /\ j \in 0 .. m /\ n + 1 + j = n + j + 1
      BY <1>1
    <2>2. q[n + 1 + (j - 1)] = at[c + (j - 1)] /\ q[n + 1 + j] = at[c + j]
      BY <1>9, <2>1
    <2> QED BY <2>1, <2>2
  <1>11. q[n + m + 1] = at[e + 1]
    <2>1. m \in 0 .. m /\ n + 1 + m = n + m + 1 /\ c + m = e + 1
      BY <1>1, <1>m
    <2> QED BY <1>9, <2>1
  <1>12. q \in [1 .. n + m + 1 -> Nat]
    <2>1. ASSUME NEW k \in 1 .. n + m + 1 PROVE q[k] \in Nat
      <3>1. CASE k <= n + 1
        BY <1>1, <1>2, <1>8, <3>1
      <3>2. CASE ~ (k <= n + 1)
        <4> DEFINE j == k - (n + 1)
        <4>1. j \in 0 .. m /\ n + 1 + j = k /\ c + j \in c .. e + 1
          BY <1>1, <1>m, <3>2
        <4> HIDE DEF j
        <4>2. q[n + 1 + j] = at[c + j]
          BY <1>9, <4>1
        <4> QED BY <1>5, <4>1, <4>2
      <3> QED BY <3>1, <3>2
    <2> QED BY <1>q, <2>1
  <1>13. ASSUME NEW k \in 1 .. n + m
         PROVE  q[k + 1] = Wire!AlignUp(q[k] + Wire!CAChannelDataSize + Wire!Size(v[k]))
    <2>1. CASE k <= n
      <3>1. k \in 1 .. n /\ k \in 1 .. n + 1 /\ k + 1 \in 1 .. n + 1
        BY <1>1, <2>1
      <3>2. q[k] = p[k] /\ q[k + 1] = p[k + 1] /\ v[k] = w[k]
        BY <1>1, <1>8, <3>1
      <3> QED BY <1>2, <3>1, <3>2
    <2>2. CASE ~ (k <= n)
      <3> DEFINE j == k - n  i == c + j
      <3>1. /\ j \in 1 .. m /\ n + j = k /\ i \in c .. e + 1 /\ i # c
            /\ i - 1 = c + j - 1
        BY <1>1, <1>m, <2>2
      <3>2. q[k] = at[i - 1] /\ q[k + 1] = at[i] /\ v[k] = i - 1
        BY <1>1, <1>10, <3>1
      <3> HIDE DEF i
      <3>3. at[i] = Wire!AlignUp(at[i - 1] + Wire!CAChannelDataSize + Wire!Size(i - 1))
        BY <1>6, <3>1 DEF Place
      <3> QED BY <3>2, <3>3
    <2> QED BY <2>1, <2>2
  <1>14. q[1] = Wire!PayloadPos
    <2>1. 1 \in 1 .. n + 1
      BY <1>1
    <2> QED BY <1>2, <1>8, <2>1
  <1>15. q[n + m + 1] % 8 = 0 /\ q[n + m + 1] <= MaxMessageSize
    <2>1. e + 1 \in c .. e + 1
      OBVIOUS
    <2> QED BY <1>4, <1>5, <1>11, <2>1
  <1>16. Positions(v, q)
    BY <1>1, <1>12, <1>13, <1>14, <1>15 DEF Positions
  <1> QED BY <1>8, <1>10, <1>11, <1>16 DEF n, m, q, v, LongerBy

(* What Written and value_size_aligned compute are positions of the group. *)
LEMMA WrittenIs ==
  ASSUME Grouped, NEW c \in Records
  PROVE  LET b == Wire!GroupEnd(c) + 1
         IN /\ IsPlaces(pos, c, b, Wire!Written(c))
            /\ \E h : IsPlaces(0, c, b, h) /\ Wire!value_size_aligned(c) = h[b]
  <1> DEFINE b == Wire!GroupEnd(c) + 1
             at == CHOOSE g : IsPlaces(pos, c, b, g)
             full == CHOOSE g : IsPlaces(0, c, b, g)
  <1>1. c \in Nat /\ b \in Nat /\ c <= b
    BY GroupIs
  <1>2. Wire!Written(c) = at
    BY DEF Wire!Written, IsPlaces, Place
  <1>3. Wire!value_size_aligned(c) = full[b]
    BY DEF Wire!value_size_aligned, IsPlaces, Place
  <1> HIDE DEF b
  <1>4. (\E g : IsPlaces(pos, c, b, g)) /\ (\E g : IsPlaces(0, c, b, g))
    BY <1>1, PlacesExist
  <1>5. IsPlaces(pos, c, b, at) /\ IsPlaces(0, c, b, full)
    BY <1>4, Zenon
  <1> HIDE DEF at, full
  <1> QED BY <1>2, <1>3, <1>5 DEF b

(* Two parts of a function of numbers, one after the other.                *)
LEMMA Joined ==
  ASSUME NEW n \in Nat, NEW m \in Nat, NEW x
  PROVE  [k \in 1 .. n |-> x[k]] \o [j \in 1 .. m |-> x[n + j]] = [k \in 1 .. n + m |-> x[k]]
  <1> DEFINE T == {x[k] : k \in 1 .. n + m}
             s == [k \in 1 .. n |-> x[k]]  t == [j \in 1 .. m |-> x[n + j]]  r == s \o t
  <1>1. s \in [1 .. n -> T] /\ \A k \in 1 .. n : s[k] = x[k]
    <2>1. \A k \in 1 .. n : k \in 1 .. n + m
      OBVIOUS
    <2> QED BY <2>1
  <1>2. t \in [1 .. m -> T] /\ \A j \in 1 .. m : t[j] = x[n + j]
    <2>1. \A j \in 1 .. m : n + j \in 1 .. n + m
      OBVIOUS
    <2> QED BY <2>1
  <1> HIDE DEF T, s, t
  <1>3. s \in Seq(T) /\ Len(s) = n /\ t \in Seq(T) /\ Len(t) = m
    BY <1>1, <1>2, FunctionIsSequence
  <1>4. /\ r \in Seq(T) /\ Len(r) = Len(s) + Len(t)
        /\ \A i \in 1 .. Len(s) + Len(t) : r[i] = IF i <= Len(s) THEN s[i] ELSE t[i - Len(s)]
    BY <1>3, ConcatProperties
  <1> HIDE DEF r
  <1>5. /\ Len(r) = n + m
        /\ \A i \in 1 .. n + m : r[i] = IF i <= n THEN s[i] ELSE t[i - n]
    BY <1>3, <1>4
  <1>6. \A i \in 1 .. n + m : r[i] = x[i]
    <2> TAKE i \in 1 .. n + m
    <2>1. CASE i <= n
      BY <1>1, <1>5, <2>1
    <2>2. CASE ~ (i <= n)
      <3>1. i - n \in 1 .. m /\ n + (i - n) = i
        BY <2>2
      <3> QED BY <1>2, <1>5, <2>2, <3>1
    <2> QED BY <2>1, <2>2
  <1>7. r = [i \in 1 .. n + m |-> r[i]]
    BY <1>4, <1>5
  <1>8. r = [k \in 1 .. n + m |-> x[k]]
    BY <1>6, <1>7
  <1> QED BY <1>8 DEF r, s, t

(* The message has the group in the next state, after what it has now.     *)
LayoutNext(w, p, c, e, at) ==
  LET v == w \o Group(c, e)
      q == Extends(p, Len(w), c, e, at)
  IN Layout(v, q)' /\ Len(v) = Len(w) + (e - c + 1) /\ q[Len(v) + 1] = at[e + 1]
(* The entries of the group, as WriteGroup writes them.                    *)
NewEntries(c, e, at) ==
  {[at |-> at[i], id |-> i, type |-> Wire!TypeOf(i), count |-> Wire!OnWire(count[i])] :
     i \in c .. e}

(* WriteGroup: what is in the message with one more record.                *)
LEMMA LayoutAdded ==
  ASSUME Grouped, count \in [Wire!Index -> Elements \cup {Gone}], packed \in Seq(Records),
         NEW c \in Records, NEW e, e = Wire!GroupEnd(c), NEW w, NEW p, Layout(w, p),
         NEW at, IsPlaces(p[Len(w) + 1], c, e + 1, at),
         NEW h, IsPlaces(0, c, e + 1, h), p[Len(w) + 1] + h[e + 1] <= MaxMessageSize,
         UNCHANGED <<channels, count>>, packed' = Append(packed, c),
         buffer' = buffer \cup NewEntries(c, e, at)
  PROVE  LayoutNext(w, p, c, e, at)
  <1> DEFINE n == Len(w)  m == e - c + 1
             v == w \o Group(c, e)
             q == Extends(p, n, c, e, at)
             new(i) == [at |-> at[i], id |-> i, type |-> Wire!TypeOf(i),
                        count |-> Wire!OnWire(count[i])]
             f == [k \in 1 .. Len(packed) |-> Entries(packed[k])]
             g == [k \in 1 .. Len(packed') |-> Entries(packed'[k])]
  <1>1. /\ c \in Nat /\ e \in Nat /\ c <= e /\ e \in Wire!Index
    BY GroupIs DEF Wire!Index
  <1>2. /\ w \in Seq(Wire!Index) /\ Positions(w, p)
        /\ buffer = {Placed(w, p, k) : k \in 1 .. n}
        /\ [k \in 1 .. n |-> Counted(w[k])] = Concat(f, Len(packed))
    BY DEF Layout
  <1>b. buffer' = buffer \cup {new(i) : i \in c .. e}
    BY DEF NewEntries
  <1>E. Entries(c) = [j \in 1 .. m |-> Counted(c + j - 1)]
    BY EntriesIs
  <1>p. IsPlaces(p[n + 1], c, e + 1, at) /\ IsPlaces(0, c, e + 1, h)
        /\ p[n + 1] + h[e + 1] <= MaxMessageSize
    OBVIOUS
  <1>3. /\ n \in Nat /\ m \in Nat /\ v \in Seq(Wire!Index) /\ Len(v) = n + m
        /\ \A k \in 1 .. n : v[k] = w[k]
        /\ \A j \in 1 .. m : v[n + j] = c + j - 1
    <2>1. IsLonger(w, c, e)
      BY <1>1, <1>2, GroupAdded, Zenon
    <2> QED BY <2>1 DEF IsLonger
  <1>4. /\ Positions(v, q)
        /\ \A k \in 1 .. n + 1 : q[k] = p[k]
        /\ \A j \in 1 .. m : q[n + j] = at[c + j - 1]
        /\ q[n + m + 1] = at[e + 1]
    <2>1. LongerBy(w, p, c, e, at)
      BY <1>1, <1>2, <1>p, PositionsAdded, Zenon
    <2> QED BY <2>1 DEF LongerBy
  <1> HIDE DEF v, q
  <1>5. Wire!Index' = Wire!Index /\ Positions(v, q)'
    <2>1. Positions(v, q)' = Positions(v, q)
      BY DEF Positions, Wire!Size, Wire!TypeOf, Wire!Parent
    <2> QED BY <1>4, <2>1 DEF Wire!Index
  <1>6. buffer' = {Placed(v, q, k) : k \in 1 .. Len(v)}
    <2>1. \A k \in 1 .. n : Placed(v, q, k) = Placed(w, p, k)
      <3>1. \A k \in 1 .. n : k \in 1 .. n + 1
        BY <1>3
      <3> QED BY <1>3, <1>4, <3>1 DEF Placed
    <2>2. \A j \in 1 .. m : Placed(v, q, n + j) = new(c + j - 1)
      BY <1>3, <1>4 DEF Placed
    <2> HIDE DEF n
    <2>a. \A j \in 1 .. m : c + j - 1 \in c .. e
      BY <1>1
    <2>b. \A i \in c .. e : (i - c) + 1 \in 1 .. m /\ c + ((i - c) + 1) - 1 = i
      BY <1>1
    <2>c. n \in Nat /\ m \in Nat
      BY <1>3
    <2>d. /\ \A k \in 1 .. n : k \in 1 .. n + m
          /\ \A j \in 1 .. m : n + j \in 1 .. n + m
          /\ \A k \in 1 .. n + m : k \in 1 .. n \/ (k - n \in 1 .. m /\ n + (k - n) = k)
      <3> HIDE DEF m
      <3> QED BY <2>c
    <2>3. /\ \A k \in 1 .. n : k \in 1 .. n + m
          /\ \A j \in 1 .. m : n + j \in 1 .. n + m /\ c + j - 1 \in c .. e
          /\ \A k \in 1 .. n + m : k \in 1 .. n \/ (k - n \in 1 .. m /\ n + (k - n) = k)
          /\ \A i \in c .. e : (i - c) + 1 \in 1 .. m /\ c + ((i - c) + 1) - 1 = i
      <3> HIDE DEF m
      <3> QED BY <2>a, <2>b, <2>d
    <2> HIDE DEF new, m
    <2>4. ASSUME NEW x \in buffer' PROVE \E k \in 1 .. n + m : x = Placed(v, q, k)
      <3>1. CASE x \in buffer
        <4>1. PICK k \in 1 .. n : x = Placed(w, p, k)
          BY <1>2, <3>1
        <4> QED BY <2>1, <2>3, <4>1
      <3>2. CASE x \notin buffer
        <4>1. PICK i \in c .. e : x = new(i)
          BY <1>b, <3>2
        <4> DEFINE j == (i - c) + 1
        <4>2. j \in 1 .. m /\ c + j - 1 = i
          BY <2>3
        <4> HIDE DEF j
        <4> QED BY <2>2, <2>3, <4>1, <4>2
      <3> QED BY <3>1, <3>2
    <2>5. ASSUME NEW k \in 1 .. n + m PROVE Placed(v, q, k) \in buffer'
      <3>1. CASE k \in 1 .. n
        <4>1. Placed(w, p, k) \in buffer
          BY <1>2, <3>1
        <4> QED BY <1>b, <2>1, <3>1, <4>1
      <3>2. CASE k \notin 1 .. n
        <4> DEFINE j == k - n
        <4>1. j \in 1 .. m /\ n + j = k
          BY <2>3, <3>2
        <4> HIDE DEF j
        <4>2. new(c + j - 1) \in buffer'
          BY <1>b, <2>3, <4>1
        <4> QED BY <2>2, <4>1, <4>2
      <3> QED BY <3>1, <3>2
    <2>6. Len(v) = n + m
      BY <1>3
    <2> QED BY <2>4, <2>5, <2>6
  <1>7. [k \in 1 .. n + m |-> Counted(v[k])] = Concat(g, Len(packed'))
    <2> DEFINE x == [k \in 1 .. n + m |-> Counted(v[k])]  l == Len(packed)
    <2>1. /\ l \in Nat /\ Len(packed') = l + 1 /\ packed'[l + 1] = c
          /\ \A k \in 1 .. l : packed'[k] = packed[k]
      <3> HIDE DEF Records
      <3> QED OBVIOUS
    <2>2. \A k \in 1 .. l : f[k] = g[k]
      <3>1. \A k \in 1 .. l : k \in 1 .. l + 1
        BY <2>1
      <3> QED BY <2>1, <3>1
    <2>3. g[l + 1] = Entries(c)
      <3>1. l + 1 \in 1 .. l + 1
        BY <2>1
      <3> QED BY <2>1, <3>1
    <2>4. [k \in 1 .. n |-> Counted(w[k])] = [k \in 1 .. n |-> x[k]]
      <3>1. \A k \in 1 .. n : k \in 1 .. n + m /\ v[k] = w[k]
        BY <1>3
      <3> HIDE DEF n, m
      <3> QED BY <3>1
    <2>5. [j \in 1 .. m |-> Counted(c + j - 1)] = [j \in 1 .. m |-> x[n + j]]
      <3>1. \A j \in 1 .. m : n + j \in 1 .. n + m /\ v[n + j] = c + j - 1
        BY <1>3
      <3> HIDE DEF n, m
      <3> QED BY <3>1
    <2> HIDE DEF f, g, n, m, x
    <2>6. Concat(g, l + 1) = Concat(g, l) \o g[l + 1]
      BY <2>1, ConcatStep
    <2>7. Concat(f, l) = Concat(g, l)
      <3> HIDE DEF l
      <3> QED BY <2>1, <2>2, ConcatSame
    <2>8. [k \in 1 .. n |-> x[k]] \o [j \in 1 .. m |-> x[n + j]] = [k \in 1 .. n + m |-> x[k]]
      BY <1>3, Joined
    <2>9. [k \in 1 .. n + m |-> x[k]] = x
      BY DEF x
    <2>10. Concat(g, l + 1) = x
      BY <1>2, <1>E, <2>3, <2>4, <2>5, <2>6, <2>7, <2>8, <2>9
    <2> QED BY <2>1, <2>10 DEF x
  <1>8. Layout(v, q)'
    <2>1. \A x : Entries(x)' = Entries(x) /\ Counted(x)' = Counted(x)
      BY DEF Entries, Counted, Wire!Parent
    <2>2. \A k : Placed(v, q, k)' = Placed(v, q, k)
      BY DEF Placed, Wire!TypeOf, Wire!Parent
    <2>3. g = [k \in 1 .. Len(packed') |-> (Entries(packed[k]))']
      <3>1. \A k \in 1 .. Len(packed') : Entries(packed'[k]) = (Entries(packed[k]))'
        BY <2>1
      <3> QED BY <3>1
    <2>4. v \in Seq(Wire!Index')
      BY <1>3, <1>5
    <2>5. buffer' = {(Placed(v, q, k))' : k \in 1 .. Len(v)}
      BY <1>6, <2>2
    <2>6. [k \in 1 .. Len(v) |-> (Counted(v[k]))']
            = Concat([k \in 1 .. Len(packed') |-> (Entries(packed[k]))'], Len(packed'))
      <3>1. [k \in 1 .. Len(v) |-> (Counted(v[k]))'] = [k \in 1 .. n + m |-> Counted(v[k])]
        BY <1>3, <2>1
      <3> HIDE DEF g
      <3> QED BY <1>7, <2>3, <3>1
    <2> QED BY <1>5, <2>4, <2>5, <2>6 DEF Layout
  <1>9. Len(v) = n + m /\ q[Len(v) + 1] = at[e + 1]
    BY <1>3, <1>4
  <1> QED BY <1>8, <1>9 DEF v, q, LayoutNext

(* What is in a message does not change while it is read.                  *)
LEMMA LayoutKept ==
  ASSUME NEW w, NEW p, Layout(w, p), UNCHANGED <<channels, count, packed, buffer>>
  PROVE  Layout(w, p)'
  <1>1. \A x : Entries(x)' = Entries(x) /\ Counted(x)' = Counted(x)
    BY DEF Entries, Counted, Wire!Parent
  <1>2. \A k : Placed(w, p, k)' = Placed(w, p, k)
    BY DEF Placed, Wire!TypeOf, Wire!Parent
  <1>3. Positions(w, p)' = Positions(w, p) /\ Wire!Index' = Wire!Index
    BY DEF Positions, Wire!Size, Wire!TypeOf, Wire!Parent, Wire!Index
  <1>4. buffer' = {(Placed(w, p, k))' : k \in 1 .. Len(w)}
    BY <1>2 DEF Layout
  <1>5. [k \in 1 .. Len(w) |-> (Counted(w[k]))']
          = Concat([k \in 1 .. Len(packed') |-> (Entries(packed[k]))'], Len(packed'))
    <2>1. \A k \in 1 .. Len(packed') : (Entries(packed[k]))' = Entries(packed[k])
      BY <1>1
    <2>2. [k \in 1 .. Len(packed') |-> (Entries(packed[k]))']
            = [k \in 1 .. Len(packed) |-> Entries(packed[k])]
      BY <2>1
    <2>3. [k \in 1 .. Len(w) |-> (Counted(w[k]))'] = [k \in 1 .. Len(w) |-> Counted(w[k])]
      BY <1>1
    <2> QED BY <2>2, <2>3 DEF Layout
  <1> QED BY <1>3, <1>4, <1>5 DEF Layout

-----------------------------------------------------------------------------
(* send_updates adds a record.                                             *)
LEMMA WriteStep ==
  ASSUME Grouped, MessageInv, UNCHANGED channels, Wire!WriteGroup
  PROVE  MessageInv'
  <1>0. /\ wire = "writing" /\ Wire!Fits /\ UNCHANGED <<channels, count, wire, good, limit, called>>
        /\ queue' = Tail(queue) /\ packed' = Append(packed, Head(queue))
    BY DEF Wire!WriteGroup
  <1>1. PICK w, p : Layout(w, p) /\ Writing(w, p)
    BY <1>0 DEF MessageInv, Reading
  <1>2. /\ good = TRUE /\ count \in [Wire!Index -> Elements \cup {Gone}]
        /\ queue \in Seq(Records) /\ packed \in Seq(Records)
    BY DEF MessageInv
  <1>3. queue # << >>
    BY <1>0 DEF Wire!Fits
  <1>4. PICK c \in Records : c = Head(queue)
    BY <1>2, <1>3
  <1>5. PICK e : e = Wire!GroupEnd(c)
    OBVIOUS
  <1>6. PICK at : at = Wire!Written(c)
    OBVIOUS
  <1>7. PICK h : IsPlaces(0, c, e + 1, h) /\ Wire!value_size_aligned(c) = h[e + 1]
    BY <1>5, WrittenIs
  <1>8. IsPlaces(pos, c, e + 1, at)
    BY <1>5, <1>6, WrittenIs
  <1>9. /\ pos = p[Len(w) + 1] /\ limit = MaxMessageSize /\ update_count = Len(w)
        /\ called = << >> /\ p[Len(w) + 1] \in Nat /\ p[Len(w) + 1] <= MaxMessageSize
        /\ p[Len(w) + 1] % 8 = 0 /\ Len(w) \in Nat
    <2>1. Len(w) \in Nat /\ Len(w) + 1 \in 1 .. Len(w) + 1
      BY <1>1 DEF Layout
    <2> QED BY <1>1, <2>1 DEF Writing, Layout, Positions
  <1>10. c \in Nat /\ e \in Nat /\ c <= e /\ \A i \in c .. e : i \in Wire!Index
    BY <1>5, GroupIs DEF Wire!Index
  <1>11. Moved(pos, c, e + 1, at, h)
    <2> DEFINE b == e + 1
    <2>1. b \in Nat /\ c <= b /\ c \in Nat /\ pos \in Nat /\ pos % 8 = 0
      BY <1>9, <1>10
    <2>2. IsPlaces(pos, c, b, at) /\ IsPlaces(0, c, b, h)
      BY <1>7, <1>8
    <2>3. Sized(c, b)
      <3>1. \A i \in c .. b - 1 : i \in Wire!Index
        BY <1>10
      <3> QED BY <1>2, <3>1, SizesAre DEF Sized
    <2> HIDE DEF b
    <2>4. Moved(pos, c, b, at, h)
      BY <2>1, <2>2, <2>3, PlacesMove, Zenon
    <2> QED BY <2>4 DEF b
  <1>12. p[Len(w) + 1] + h[e + 1] <= MaxMessageSize
    <2>1. h[e + 1] \in Nat
      BY <1>11 DEF Moved
    <2>2. pos > limit \/ h[e + 1] <= limit - pos
      BY <1>0, <1>4, <1>7 DEF Wire!Fits, Wire!Ensure
    <2>3. MaxMessageSize \in Nat
      BY MessageAssumption
    <2> DEFINE x == h[e + 1]  y == p[Len(w) + 1]
    <2>4. x \in Nat /\ y \in Nat /\ y <= MaxMessageSize
          /\ (y > MaxMessageSize \/ x <= MaxMessageSize - y)
      BY <1>9, <2>1, <2>2
    <2> HIDE DEF x, y
    <2>5. y + x <= MaxMessageSize
      BY <2>3, <2>4
    <2> QED BY <2>5 DEF x, y
  <1>13. buffer' = buffer \cup NewEntries(c, e, at)
    BY <1>4, <1>5, <1>6 DEF Wire!WriteGroup, NewEntries
  <1>14. pos' = at[e + 1] /\ update_count' = update_count + e - c + 1
    BY <1>4, <1>5, <1>6 DEF Wire!WriteGroup
  <1> DEFINE v == w \o Group(c, e)  q == Extends(p, Len(w), c, e, at)
  <1>15. Layout(v, q)' /\ Len(v) = Len(w) + (e - c + 1) /\ q[Len(v) + 1] = at[e + 1]
    <2>1. IsPlaces(p[Len(w) + 1], c, e + 1, at) /\ IsPlaces(0, c, e + 1, h)
      BY <1>7, <1>8, <1>9
    <2>2. UNCHANGED <<channels, count>> /\ packed' = Append(packed, c)
      BY <1>0, <1>4
    <2>3. LayoutNext(w, p, c, e, at)
      BY <1>1, <1>2, <1>5, <1>12, <1>13, <2>1, <2>2, LayoutAdded
    <2> QED BY <2>3 DEF LayoutNext
  <1> HIDE DEF v, q
  <1>16. Writing(v, q)'
    <2>1. update_count' = Len(v)
      BY <1>9, <1>10, <1>14, <1>15
    <2> QED BY <1>0, <1>9, <1>14, <1>15, <2>1 DEF Writing
  <1>17. Records' = Records /\ Wire!Index' = Wire!Index
    BY DEF Records, Wire!Index, Wire!Parent
  <1>18. queue' \in Seq(Records') /\ packed' \in Seq(Records')
    <2> HIDE DEF Records
    <2>1. Tail(queue) \in Seq(Records) /\ Append(packed, c) \in Seq(Records)
      BY <1>2, <1>3
    <2> QED BY <1>0, <1>4, <1>17, <2>1
  <1>19. \E ww, pp : Layout(ww, pp)' /\ (Writing(ww, pp)' \/ Reading(ww, pp)')
    BY <1>15, <1>16
  <1> QED BY <1>0, <1>2, <1>17, <1>18, <1>19 DEF MessageInv

(* The counts of a message are one longer.                                 *)
LEMMA Appended ==
  ASSUME NEW n \in Nat, NEW x
  PROVE  Append([k \in 1 .. n |-> x[k]], x[n + 1]) = [k \in 1 .. n + 1 |-> x[k]]
  <1> DEFINE T == {x[k] : k \in 1 .. n + 1}  s == [k \in 1 .. n |-> x[k]]  y == x[n + 1]
             r == Append(s, y)
  <1>1. s \in [1 .. n -> T] /\ \A k \in 1 .. n : s[k] = x[k]
    <2>1. \A k \in 1 .. n : k \in 1 .. n + 1
      OBVIOUS
    <2> QED BY <2>1
  <1>2. y \in T
    OBVIOUS
  <1> HIDE DEF T, s, y
  <1>3. s \in Seq(T) /\ Len(s) = n
    BY <1>1, FunctionIsSequence
  <1>4. /\ r \in Seq(T) /\ Len(r) = n + 1 /\ r[n + 1] = y
        /\ \A k \in 1 .. n : r[k] = s[k]
    BY <1>2, <1>3
  <1> HIDE DEF r
  <1>5. \A k \in 1 .. n + 1 : r[k] = x[k]
    <2> TAKE k \in 1 .. n + 1
    <2>1. CASE k = n + 1
      BY <1>4, <2>1 DEF y
    <2>2. CASE k # n + 1
      <3>1. k \in 1 .. n
        BY <2>2
      <3> QED BY <1>1, <1>4, <3>1
    <2> QED BY <2>1, <2>2
  <1>6. r = [k \in 1 .. n + 1 |-> r[k]]
    BY <1>4
  <1>7. r = [k \in 1 .. n + 1 |-> x[k]]
    BY <1>5, <1>6
  <1> QED BY <1>7 DEF r, s, y

(* receive_updates reads an entry: it finds the next one, and only that.   *)
LEMMA ReadStep ==
  ASSUME MessageInv, UNCHANGED channels, Wire!ReadEntry
  PROVE  MessageInv'
  <1>0. /\ wire = "reading" /\ update_count > 0 /\ update_count' = update_count - 1
        /\ UNCHANGED <<channels, count, queue, packed, wire, limit, buffer>>
    BY DEF Wire!ReadEntry
  <1>1. PICK w, p : Layout(w, p) /\ Reading(w, p)
    BY <1>0 DEF MessageInv, Writing
  <1>2. /\ good = TRUE /\ count \in [Wire!Index -> Elements \cup {Gone}]
        /\ queue \in Seq(Records) /\ packed \in Seq(Records)
    BY DEF MessageInv
  <1> DEFINE n == Len(w)  r == n - update_count  k == r + 1
  <1>3. /\ n \in Nat /\ update_count \in 1 .. n /\ limit = p[n + 1] /\ pos = p[k]
        /\ called = [j \in 1 .. r |-> Counted(w[j])]
    <2>1. n \in Nat
      BY <1>1 DEF Layout
    <2> QED BY <1>0, <1>1, <2>1 DEF Reading
  <1>4. w \in Seq(Wire!Index) /\ Positions(w, p) /\ buffer = {Placed(w, p, j) : j \in 1 .. n}
    BY <1>1 DEF Layout
  <1>5. k \in 1 .. n /\ r \in Nat /\ k + 1 \in 1 .. n + 1 /\ k \in 1 .. n + 1
        /\ k + 1 = n - update_count' + 1 /\ k = n - update_count' /\ update_count' \in 0 .. n
    BY <1>0, <1>3
  <1> HIDE DEF n, k, r
  <1>6. /\ p[k] \in Nat /\ p[k + 1] \in Nat /\ p[n + 1] \in Nat /\ p[k + 1] <= p[n + 1]
        /\ p[k] + 8 + Wire!Size(w[k]) <= p[k + 1] /\ Wire!Size(w[k]) \in Nat
        /\ \A j \in 1 .. n : p[j] = p[k] => j = k
        /\ count[w[k]] # Gone => count[w[k]] \in Nat /\ count[w[k]] < CountMod - 1
        /\ p[k + 1] = Wire!AlignUp(p[k] + Wire!CAChannelDataSize + Wire!Size(w[k]))
    <2>1. w[k] \in Wire!Index
      BY <1>4, <1>5, ElementOfSeq DEF n
    <2>2. Wire!Size(w[k]) \in Nat
      BY <1>2, <2>1, SizesAre
    <2>3. /\ \A j \in 1 .. n + 1 : p[j] \in Nat /\ p[j] >= 32 /\ p[j] <= p[n + 1]
          /\ \A j \in 1 .. n : p[j] + 8 + Wire!Size(w[j]) <= p[j + 1]
          /\ \A i, j \in 1 .. n : p[i] = p[j] => i = j
          /\ \A j \in 1 .. n :
               count[w[j]] # Gone => count[w[j]] \in Nat /\ count[w[j]] < CountMod - 1
      BY <1>2, <1>4, PositionsGrow DEF n
    <2>4. n + 1 \in 1 .. n + 1
      BY <1>3
    <2>5. p[k + 1] = Wire!AlignUp(p[k] + Wire!CAChannelDataSize + Wire!Size(w[k]))
      BY <1>4, <1>5 DEF Positions, n
    <2> QED BY <1>5, <2>2, <2>3, <2>4, <2>5
  <1>7. good' = TRUE
    <2>1. Wire!Ensure(Wire!CAChannelDataSize)
      <3>1. 8 <= p[n + 1] - p[k]
        BY <1>6
      <3> QED BY <1>3, <3>1 DEF Wire!Ensure, Wire!CAChannelDataSize
    <2> QED BY <1>2, <2>1 DEF Wire!ReadEntry
  <1> DEFINE en == Placed(w, p, k)
  <1>8. Wire!EntriesAt(pos) = {en}
    <2>1. en \in buffer /\ en.at = pos
      BY <1>3, <1>4, <1>5 DEF Placed
    <2>2. ASSUME NEW x \in buffer, x.at = pos PROVE x = en
      <3>1. PICK j \in 1 .. n : x = Placed(w, p, j)
        BY <1>4
      <3>2. p[j] = p[k]
        BY <1>3, <2>2, <3>1 DEF Placed
      <3>3. j = k
        BY <1>6, <3>2
      <3> QED BY <3>1, <3>3
    <2> HIDE DEF en
    <2> QED BY <2>1, <2>2 DEF Wire!EntriesAt
  <1> DEFINE gone == en.count = CountMod - 1
  <1>9. /\ called' = IF en.id \in Wire!Index
                     THEN Append(called, [id |-> en.id, count |-> IF gone THEN Gone ELSE en.count])
                     ELSE called
        /\ pos' = Wire!AlignUp(pos + Wire!CAChannelDataSize
                                 + IF gone THEN 0 ELSE Wire!dbr_size_n(en.type, en.count))
    <2> HIDE DEF en
    <2>1. \A x : x \in {en} <=> x = en
      OBVIOUS
    <2>2. {en} # {}
      OBVIOUS
    <2> QED BY <1>7, <1>8, <2>1, <2>2 DEF Wire!ReadEntry
  <1>10. en.id = w[k] /\ en.id \in Wire!Index /\ en.type = Wire!TypeOf(w[k])
         /\ en.count = Wire!OnWire(count[w[k]])
    <2>1. w[k] \in Wire!Index
      BY <1>4, <1>5, ElementOfSeq DEF n
    <2> QED BY <2>1 DEF Placed
  <1>11. /\ (IF gone THEN Gone ELSE en.count) = count[w[k]]
         /\ (IF gone THEN 0 ELSE Wire!dbr_size_n(en.type, en.count)) = Wire!Size(w[k])
    <2> HIDE DEF en
    <2>1. CASE count[w[k]] = Gone
      <3>1. en.count = CountMod - 1 /\ Wire!Size(w[k]) = 0
        BY <1>10, <2>1 DEF Wire!OnWire, Wire!Size
      <3> QED BY <2>1, <3>1
    <2>2. CASE count[w[k]] # Gone
      <3> DEFINE x == count[w[k]]
      <3>1. x \in Nat /\ x < CountMod - 1 /\ CountMod \in Nat
        BY <1>6, <2>2, MessageAssumption
      <3>2. en.count = x % CountMod /\ Wire!Size(w[k]) = Wire!dbr_size_n(en.type, x)
        BY <1>10, <2>2 DEF Wire!OnWire, Wire!Size
      <3> HIDE DEF x
      <3>3. x % CountMod = x /\ x # CountMod - 1
        <4>1. x \in 0 .. CountMod - 1 /\ CountMod > 0 /\ x # CountMod - 1
          BY <3>1
        <4>2. x % CountMod = x
          BY <3>1, <4>1, Z3
        <4> QED BY <4>1, <4>2
      <3> QED BY <3>2, <3>3 DEF x
    <2> QED BY <2>1, <2>2
  <1> HIDE DEF gone, en
  <1>12. pos' = p[k + 1]
    BY <1>3, <1>6, <1>9, <1>11
  <1>13. called' = [j \in 1 .. k |-> Counted(w[j])]
    <2> DEFINE x == [j \in 1 .. k |-> Counted(w[j])]
    <2>1. called' = Append(called, Counted(w[k]))
      BY <1>9, <1>10, <1>11 DEF Counted
    <2>2. k = r + 1
      BY DEF k
    <2>3. called = [j \in 1 .. r |-> x[j]]
      <3>1. \A j \in 1 .. r : j \in 1 .. k
        BY <1>5, <2>2
      <3> QED BY <1>3, <3>1
    <2>4. Counted(w[k]) = x[r + 1]
      <3>1. k \in 1 .. k
        BY <1>5
      <3> QED BY <2>2, <3>1
    <2>5. x = [j \in 1 .. k |-> x[j]]
      OBVIOUS
    <2> HIDE DEF x
    <2>6. Append([j \in 1 .. r |-> x[j]], x[r + 1]) = [j \in 1 .. r + 1 |-> x[j]]
      BY <1>5, Appended
    <2>7. called' = x
      BY <2>1, <2>2, <2>3, <2>4, <2>5, <2>6
    <2> QED BY <2>7 DEF x
  <1>14. Records' = Records /\ Wire!Index' = Wire!Index
    BY DEF Records, Wire!Index, Wire!Parent
  <1>15. Layout(w, p)'
    BY <1>0, <1>1, <1>14, LayoutKept
  <1>16. Reading(w, p)'
    <2>1. \A x : Counted(x)' = Counted(x)
      BY <1>0 DEF Counted
    <2>2. called' = [j \in 1 .. n - update_count' |-> (Counted(w[j]))']
      BY <1>5, <1>13, <2>1
    <2>3. wire' # "read" /\ wire' = "reading" /\ limit' = p[n + 1] /\ pos' = p[n - update_count' + 1]
      BY <1>0, <1>3, <1>5, <1>12
    <2> QED BY <1>5, <2>2, <2>3 DEF Reading, n
  <1>17. \E ww, pp : Layout(ww, pp)' /\ (Writing(ww, pp)' \/ Reading(ww, pp)')
    BY <1>15, <1>16
  <1> QED BY <1>0, <1>2, <1>7, <1>14, <1>17 DEF MessageInv

(* The message goes out, and its headers are read.                         *)
LEMMA SendStep ==
  ASSUME MessageInv, UNCHANGED channels, Wire!SendMessage
  PROVE  MessageInv'
  <1>0. /\ wire = "writing" /\ wire' = "reading" /\ pos' = Wire!PayloadPos /\ good' = TRUE
        /\ limit' = pos
        /\ UNCHANGED <<channels, count, queue, packed, buffer, update_count, called>>
    BY DEF Wire!SendMessage
  <1>1. PICK w, p : Layout(w, p) /\ Writing(w, p)
    BY <1>0 DEF MessageInv, Reading
  <1>2. Layout(w, p)'
    BY <1>0, <1>1, LayoutKept
  <1>3. Len(w) \in Nat /\ p[1] = Wire!PayloadPos
    BY <1>1 DEF Layout, Positions
  <1>4. Reading(w, p)'
    <2>1. /\ Len(w) - update_count' = 0 /\ update_count' \in 0 .. Len(w)
          /\ called' = << >> /\ limit' = p[Len(w) + 1]
      BY <1>0, <1>1, <1>3 DEF Writing
    <2>2. [k \in 1 .. 0 |-> (Counted(w[k]))'] = << >>
      OBVIOUS
    <2> QED BY <1>0, <1>3, <2>1, <2>2 DEF Reading
  <1>5. Records' = Records /\ Wire!Index' = Wire!Index
    BY <1>0 DEF Records, Wire!Index, Wire!Parent
  <1>6. \E ww, pp : Layout(ww, pp)' /\ (Writing(ww, pp)' \/ Reading(ww, pp)')
    BY <1>2, <1>4
  <1> QED BY <1>0, <1>5, <1>6 DEF MessageInv

(* Everything has been read.                                               *)
LEMMA DoneStep ==
  ASSUME MessageInv, UNCHANGED channels, Wire!ReadDone
  PROVE  MessageInv'
  <1>0. /\ wire = "reading" /\ update_count = 0 /\ wire' = "read"
        /\ UNCHANGED <<channels, count, queue, packed, pos, good, limit, buffer, update_count, called>>
    BY DEF Wire!ReadDone
  <1>1. PICK w, p : Layout(w, p) /\ Reading(w, p)
    BY <1>0 DEF MessageInv, Writing
  <1>2. Layout(w, p)'
    BY <1>0, <1>1, LayoutKept
  <1>3. Reading(w, p)'
    <2>1. \A x : Counted(x)' = Counted(x)
      BY <1>0 DEF Counted
    <2>2. [k \in 1 .. Len(w) - update_count |-> (Counted(w[k]))']
            = [k \in 1 .. Len(w) - update_count |-> Counted(w[k])]
      BY <2>1
    <2> QED BY <1>0, <1>1, <2>2 DEF Reading
  <1>4. Records' = Records /\ Wire!Index' = Wire!Index
    BY <1>0 DEF Records, Wire!Index, Wire!Parent
  <1>5. \E ww, pp : Layout(ww, pp)' /\ (Writing(ww, pp)' \/ Reading(ww, pp)')
    BY <1>2, <1>3
  <1> QED BY <1>0, <1>4, <1>5 DEF MessageInv

(* A message is begun, for records that are queued.                        *)
LEMMA BeginStep ==
  ASSUME Grouped, UNCHANGED channels, NEW q \in Queues,
         NEW counts \in [Wire!Index -> Elements \cup {Gone}], Wire!StartMessage(q, counts)
  PROVE  MessageInv'
  <1>0. /\ queue' = q /\ count' = counts /\ packed' = << >>
        /\ wire' = "writing" /\ pos' = Wire!PayloadPos /\ good' = TRUE
        /\ limit' = MaxMessageSize /\ buffer' = {} /\ update_count' = 0 /\ called' = << >>
    BY DEF Wire!StartMessage
  <1>1. Records' = Records /\ Wire!Index' = Wire!Index
    BY DEF Records, Wire!Index, Wire!Parent
  <1>2. q \in Seq(Records)
    <2>1. IsFiniteSet(Records)
      <3>1. Records \subseteq 0 .. Len(channels) - 1
        BY DEF Records, Wire!Index
      <3>2. Len(channels) \in Nat
        BY ParentsGrow
      <3>3. IsFiniteSet(0 .. Len(channels) - 1)
        BY <3>2, FS_Interval
      <3> QED BY <3>1, <3>3, FS_Subset
    <2>2. Cardinality(Records) \in Nat
      BY <2>1, FS_CardinalityType
    <2>3. PICK n \in 1 .. Cardinality(Records) : q \in [1 .. n -> Records]
      BY DEF Queues
    <2>4. n \in Nat
      BY <2>2
    <2> HIDE DEF Records
    <2> QED BY <2>3, <2>4, FunctionIsSequence
  <1> DEFINE w == << >>  p == [k \in 1 .. 1 |-> 32]
  <1>3. Wire!PayloadPos = 32
    BY DEF Wire!PayloadPos, Wire!HeaderSize, Wire!SubmessageHeaderSize, Wire!CADataMessageSize
  <1>4. Len(w) = 0 /\ w \in Seq(Wire!Index) /\ p[Len(w) + 1] = 32
    OBVIOUS
  <1>5. Positions(w, p)'
    <2>1. /\ p \in [1 .. Len(w) + 1 -> Nat] /\ p[1] = Wire!PayloadPos
          /\ \A k \in 1 .. Len(w) : FALSE
          /\ p[Len(w) + 1] % 8 = 0 /\ p[Len(w) + 1] <= MaxMessageSize
      BY <1>3, <1>4, MessageAssumption
    <2> HIDE DEF w, p
    <2> QED BY <2>1 DEF Positions, Wire!PayloadPos
  <1>6. Layout(w, p)'
    <2>1. Concat([k \in 1 .. Len(packed') |-> (Entries(packed[k]))'], Len(packed')) = << >>
      <3>1. Len(packed') = 0
        BY <1>0
      <3> QED BY <3>1, ConcatStep
    <2>2. [k \in 1 .. Len(w) |-> (Counted(w[k]))'] = << >>
      BY <1>4
    <2>3. buffer' = {(Placed(w, p, k))' : k \in 1 .. Len(w)}
      BY <1>0, <1>4
    <2> HIDE DEF w, p
    <2> QED BY <1>1, <1>4, <1>5, <2>1, <2>2, <2>3 DEF Layout
  <1>7. Writing(w, p)'
    <2> HIDE DEF w, p
    <2> QED BY <1>0, <1>3, <1>4 DEF Writing
  <1>8. \E ww, pp : Layout(ww, pp)' /\ (Writing(ww, pp)' \/ Reading(ww, pp)')
    <2> HIDE DEF w, p
    <2> QED BY <1>6, <1>7
  <1>9. queue' \in Seq(Records') /\ packed' \in Seq(Records')
    <2> HIDE DEF Records
    <2> QED BY <1>0, <1>1, <1>2
  <1> QED BY <1>0, <1>1, <1>8, <1>9 DEF MessageInv

(* create_channels: a channel's fields belong to it.                       *)
LEMMA GroupedStep ==
  ASSUME TableInv, Grouped, Table!CreateChannels
  PROVE  Grouped'
  <1> DEFINE ch == Head(todo)  n == Len(channels)
  <1>1. ch \in Entry /\ channels \in Seq(TableEntry) /\ n \in Nat
    <2>1. todo \in Seq(Entry) /\ todo # << >> /\ channels \in Seq(TableEntry)
      BY DEF TableInv, Grouped, Table!CreateChannels
    <2> HIDE DEF Entry, TableEntry
    <2> QED BY <2>1
  <1>2. channels' = Extended(channels, ch, n, TRUE)
    BY DEF Table!CreateChannels, Table!Parent, Extended
  <1> HIDE DEF ch, n
  <1>3. Longer(channels, Extended(channels, ch, n, TRUE), ch, n)
    BY <1>1, TableExtended, Zenon
  <1>4. Longer(channels, channels', ch, n)
    BY <1>2, <1>3
  <1> DEFINE m == ChannelCount(ch)
  <1>5. /\ channels' \in Seq(TableEntry) /\ Len(channels') = n + m
        /\ \A i \in 1 .. n : channels'[i] = channels[i]
        /\ \A j \in 1 .. m : channels'[n + j].parent = n
    BY <1>4 DEF Longer, n
  <1>6. m \in Nat \ {0}
    BY <1>1, NamePartIs
  <1> HIDE DEF m
  <1>7. Wire!Index = 0 .. n - 1 /\ Wire!Index' = 0 .. n + m - 1
    <2>1. Wire!Index = 0 .. n - 1
      BY DEF Wire!Index, n
    <2>2. Wire!Index' = 0 .. Len(channels') - 1
      BY DEF Wire!Index
    <2>3. Len(channels') = n + m
      BY <1>5
    <2>4. 0 .. Len(channels') - 1 = 0 .. n + m - 1
      <3> DEFINE l == Len(channels')
      <3>1. l = n + m
        BY <2>3
      <3> HIDE DEF l
      <3>2. 0 .. l - 1 = 0 .. n + m - 1
        <4>1. n \in Nat /\ m \in Nat
          BY <1>1, <1>6
        <4> QED BY <3>1, <4>1
      <3> QED BY <3>2 DEF l
    <2> QED BY <2>1, <2>2, <2>4, Zenon
  <1>8. \A i \in 0 .. n - 1 : (Wire!Parent(i))' = Wire!Parent(i)
    <2> TAKE i \in 0 .. n - 1
    <2>1. i + 1 \in 1 .. n
      BY <1>1
    <2>2. channels'[i + 1] = channels[i + 1]
      BY <1>5, <2>1
    <2> QED BY <2>2 DEF Wire!Parent
  <1>9. \A i \in n .. n + m - 1 : (Wire!Parent(i))' = n
    <2> TAKE i \in n .. n + m - 1
    <2> DEFINE j == i + 1 - n
    <2>1. j \in 1 .. m /\ i + 1 = n + j
      BY <1>1, <1>6
    <2> HIDE DEF j
    <2>2. channels'[n + j].parent = n
      BY <1>5, <2>1
    <2> QED BY <2>1, <2>2 DEF Wire!Parent
  <1>10. \A i \in 0 .. n - 1 : Wire!Parent(i) = i \/ (i > 0 /\ Wire!Parent(i) = Wire!Parent(i - 1))
    BY <1>7 DEF Grouped
  <1>11. ASSUME NEW i \in 0 .. n + m - 1
         PROVE  (Wire!Parent(i))' = i \/ (i > 0 /\ (Wire!Parent(i))' = (Wire!Parent(i - 1))')
    <2>1. CASE i < n
      <3>1. i \in 0 .. n - 1 /\ (i > 0 => i - 1 \in 0 .. n - 1)
        BY <1>1, <2>1
      <3> QED BY <1>8, <1>10, <3>1
    <2>2. CASE i = n
      <3>1. i \in n .. n + m - 1
        BY <1>1, <1>6, <2>2
      <3> QED BY <1>9, <2>2, <3>1
    <2>3. CASE i > n
      <3>1. i \in n .. n + m - 1 /\ i - 1 \in n .. n + m - 1 /\ i > 0
        BY <1>1, <1>6, <2>3
      <3> QED BY <1>9, <3>1
    <2> QED BY <1>1, <2>1, <2>2, <2>3
  <1> QED BY <1>5, <1>7, <1>11 DEF Grouped

(* Only diode_dbgen makes records, and nothing is numbered while a file is *)
(* read.                                                                   *)
LEMMA EmptyStep ==
  ASSUME EmptyInv, [Next]_vars
  PROVE  EmptyInv'
  <1>1. CASE ReadFile
    BY <1>1 DEF ReadFile, EmptyInv, genVars
  <1>2. ASSUME NEW s \in Starts, Start(s) PROVE EmptyInv'
    BY <1>2 DEF Start, EmptyInv, genVars, Starts
  <1>3. CASE GenerateDb
    BY <1>3 DEF GenerateDb, Gen!Generate, EmptyInv
  <1>4. CASE CreateTable
    <2>1. program' = program /\ program \in {"sender", "receiver", "pva"} /\ UNCHANGED genVars
      BY <1>4 DEF CreateTable
    <2> QED BY <2>1 DEF EmptyInv, genVars
  <1>5. CASE StartSending \/ StartPacking
    BY <1>5 DEF StartSending, StartPacking, FileForgotten, EmptyInv, genVars
  <1>6. CASE SendDatagrams \/ PassMessage \/ UNCHANGED vars
    <2>1. UNCHANGED <<program, channels, genVars>>
      BY <1>6 DEF SendDatagrams, PassMessage, vars
    <2> QED BY <2>1 DEF EmptyInv, genVars
  <1> QED BY <1>1, <1>2, <1>3, <1>4, <1>5, <1>6 DEF Next

(* Every step keeps the messages in order.                                 *)
LEMMA WireStep ==
  ASSUME TypeInv, EmptyInv, WireInv, [Next]_vars
  PROVE  WireInv'
  <1>1. CASE ReadFile
    <2>1. program = "file" /\ program' = "file" /\ UNCHANGED wireVars
      BY <1>1 DEF ReadFile
    <2> QED BY <2>1 DEF WireInv, wireVars, Wire!WireInit
  <1>2. ASSUME NEW s \in Starts, Start(s) PROVE WireInv'
    <2>1. program = "file" /\ program' # "packing" /\ UNCHANGED wireVars /\ channels' = << >>
      BY <1>2 DEF Start, EmptyInv, Starts
    <2>2. Grouped'
      <3>1. channels' \in Seq(TableEntry) /\ Len(channels') = 0
        BY <2>1
      <3>2. Wire!Index' = {}
        BY <3>1 DEF Wire!Index
      <3> QED BY <3>1, <3>2 DEF Grouped
    <2> QED BY <2>1, <2>2 DEF WireInv, wireVars, Wire!WireInit
  <1>3. CASE GenerateDb
    <2>1. program = "dbgen" /\ program' = "dbgen" /\ UNCHANGED wireVars
      BY <1>3 DEF GenerateDb, Gen!Generate
    <2> QED BY <2>1 DEF WireInv, wireVars, Wire!WireInit
  <1>4. CASE CreateTable
    <2>1. program \in {"sender", "receiver", "pva"} /\ program' = program /\ UNCHANGED wireVars
      BY <1>4 DEF CreateTable
    <2>2. program = "sender" => Grouped'
      <3> SUFFICES ASSUME program = "sender" PROVE Grouped'
        OBVIOUS
      <3>1. Table!CreateChannels
        BY <1>4 DEF CreateTable
      <3>2. Grouped /\ TableInv
        BY DEF WireInv, TypeInv
      <3> QED BY <3>1, <3>2, GroupedStep
    <2> QED BY <2>1, <2>2 DEF WireInv, wireVars, Wire!WireInit
  <1>5. CASE StartSending
    <2>1. program # "packing" /\ program' = "sending" /\ UNCHANGED wireVars
      BY <1>5 DEF StartSending
    <2> QED BY <2>1 DEF WireInv, wireVars, Wire!WireInit
  <1>6. CASE SendDatagrams
    <2>1. program = "sending" /\ program' = "sending" /\ UNCHANGED wireVars
      BY <1>6 DEF SendDatagrams
    <2> QED BY <2>1 DEF WireInv, wireVars, Wire!WireInit
  <1>7. CASE StartPacking
    <2>1. program = "sender" /\ program' = "packing" /\ UNCHANGED <<channels, wireVars>>
      BY <1>7 DEF StartPacking
    <2>2. Grouped'
      BY <2>1 DEF WireInv, Grouped, Wire!Index, Wire!Parent
    <2> QED BY <2>1, <2>2 DEF WireInv, wireVars, Wire!WireInit
  <1>8. CASE PassMessage
    <2>1. program = "packing" /\ program' = "packing" /\ UNCHANGED channels
      BY <1>8 DEF PassMessage
    <2>2. Grouped
      BY <2>1 DEF WireInv
    <2>3. Grouped'
      BY <2>1, <2>2 DEF Grouped, Wire!Index, Wire!Parent
    <2>4. ASSUME NEW q \in Queues, NEW counts \in [Wire!Index -> Elements \cup {Gone}],
                 Wire!StartMessage(q, counts)
          PROVE  MessageInv'
      BY <2>1, <2>2, <2>4, BeginStep
    <2>5. ASSUME Wire!WriteGroup \/ Wire!SendMessage \/ Wire!ReadEntry \/ Wire!ReadDone
          PROVE  MessageInv'
      <3>1. MessageInv
        <4>1. wire # "read"
          BY <2>5 DEF Wire!WriteGroup, Wire!SendMessage, Wire!ReadEntry, Wire!ReadDone
        <4> QED BY <4>1 DEF WireInv, Wire!WireInit
      <3> QED BY <2>1, <2>2, <2>5, <3>1, WriteStep, SendStep, ReadStep, DoneStep
    <2>6. MessageInv'
      BY <1>8, <2>4, <2>5 DEF PassMessage
    <2> QED BY <2>1, <2>3, <2>6 DEF WireInv
  <1>9. CASE UNCHANGED vars
    <2>1. UNCHANGED <<program, channels, wireVars>>
      BY <1>9 DEF vars
    <2>2. Grouped => Grouped'
      BY <2>1 DEF Grouped, Wire!Index, Wire!Parent
    <2>3. MessageInv => MessageInv'
      <3> SUFFICES ASSUME MessageInv PROVE MessageInv'
        OBVIOUS
      <3>1. PICK w, p : Layout(w, p) /\ (Writing(w, p) \/ Reading(w, p))
        BY DEF MessageInv
      <3>2. Layout(w, p)'
        BY <2>1, <3>1, LayoutKept DEF wireVars
      <3>3. Writing(w, p)' = Writing(w, p)
        BY <2>1 DEF Writing, wireVars
      <3>4. Reading(w, p)' = Reading(w, p)
        BY <2>1 DEF Reading, Counted, wireVars
      <3>5. Records' = Records /\ Wire!Index' = Wire!Index
        BY <2>1 DEF Records, Wire!Index, Wire!Parent
      <3>6. \E ww, pp : Layout(ww, pp)' /\ (Writing(ww, pp)' \/ Reading(ww, pp)')
        BY <3>1, <3>2, <3>3, <3>4
      <3> QED BY <2>1, <3>5, <3>6 DEF MessageInv, wireVars
    <2> QED BY <2>1, <2>2, <2>3 DEF WireInv, wireVars, Wire!WireInit
  <1> QED BY <1>1, <1>2, <1>3, <1>4, <1>5, <1>6, <1>7, <1>8, <1>9 DEF Next

(* The invariant says what the property wants of a message that was read.  *)
LEMMA WireRead ==
  ASSUME WireInv
  PROVE  ReadAsWritten
  <1>1. Wire!PayloadPos = 32 /\ MaxMessageSize \in Nat /\ MaxMessageSize >= 32
    BY MessageAssumption
       DEF Wire!PayloadPos, Wire!HeaderSize, Wire!SubmessageHeaderSize, Wire!CADataMessageSize
  <1>2. CASE Wire!WireInit
    <2>1. pos <= MaxMessageSize /\ pos = limit
      BY <1>1, <1>2 DEF Wire!WireInit
    <2>2. called = << >> /\ Len(packed) = 0
      BY <1>2 DEF Wire!WireInit
    <2>3. Concat([k \in 1 .. Len(packed) |-> Entries(packed[k])], Len(packed)) = << >>
      BY <2>2, ConcatStep
    <2> QED BY <2>1, <2>2, <2>3 DEF ReadAsWritten
  <1>3. CASE MessageInv
    <2>1. PICK w, p : Layout(w, p) /\ (Writing(w, p) \/ Reading(w, p))
      BY <1>3 DEF MessageInv
    <2> DEFINE n == Len(w)
    <2>2. /\ w \in Seq(Wire!Index) /\ Positions(w, p) /\ n \in Nat
          /\ [k \in 1 .. n |-> Counted(w[k])]
               = Concat([k \in 1 .. Len(packed) |-> Entries(packed[k])], Len(packed))
      BY <2>1 DEF Layout
    <2>3. /\ \A k \in 1 .. n + 1 : p[k] \in Nat /\ p[k] <= p[n + 1]
          /\ p[n + 1] <= MaxMessageSize
      BY <1>3, <2>2, PositionsGrow DEF MessageInv, Positions
    <2>4. \E k \in 1 .. n + 1 : pos = p[k]
      <3>1. CASE Writing(w, p)
        <4>1. n + 1 \in 1 .. n + 1
          BY <2>2
        <4> QED BY <3>1, <4>1 DEF Writing
      <3>2. CASE Reading(w, p)
        <4>1. n - update_count + 1 \in 1 .. n + 1
          BY <2>2, <3>2 DEF Reading
        <4> QED BY <3>2, <4>1 DEF Reading
      <3> QED BY <2>1, <3>1, <3>2
    <2>5. pos <= MaxMessageSize
      <3>1. n + 1 \in 1 .. n + 1
        BY <2>2
      <3> QED BY <1>1, <2>3, <2>4, <3>1
    <2>6. ASSUME wire = "read"
          PROVE  called = [k \in 1 .. n |-> Counted(w[k])] /\ pos = limit
      <3>1. Reading(w, p) /\ update_count = 0
        BY <2>1, <2>6 DEF Writing, Reading
      <3>2. n - update_count = n /\ n - update_count + 1 = n + 1
        BY <2>2, <3>1
      <3> QED BY <3>1, <3>2 DEF Reading
    <2> QED BY <2>2, <2>5, <2>6 DEF ReadAsWritten
  <1> QED BY <1>2, <1>3 DEF WireInv

(* The sender stays within its buffer, and the receiver calls back for all *)
(* channels of all records in the message, in their order, with their      *)
(* counts, and ends where the datagram ends (send_updates, ChannelGroup,   *)
(* receive_updates, Serializer).                                           *)
THEOREM ProgramsReadAsWritten == Spec => []ReadAsWritten
  <1>1. Init => TypeInv
    BY TypeStart
  <1>2. TypeInv /\ [Next]_vars => TypeInv'
    BY TypeStep
  <1>3. Init => EmptyInv /\ WireInv
    BY DEF Init, Gen!GenInit, Table!TableInit, EmptyInv, WireInv
  <1>4. EmptyInv /\ [Next]_vars => EmptyInv'
    BY EmptyStep
  <1>5. TypeInv /\ EmptyInv /\ WireInv /\ [Next]_vars => WireInv'
    BY WireStep
  <1>6. WireInv => ReadAsWritten
    BY WireRead
  <1> QED BY <1>1, <1>2, <1>3, <1>4, <1>5, <1>6, PTL DEF Spec
=============================================================================
