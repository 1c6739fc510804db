# epics-diode: a verification project

`epics-diode` carries EPICS process variables (PVs) over a one-way link. A
*sender* on one side subscribes to PVs and pushes their values out as UDP
datagrams; a *receiver* on the other side puts the values together again and
hands them to a client, usually an IOC that serves them as records. Nothing
ever comes back: loss, duplication, reordering, restarts and silence have to be
recognized from what the datagrams say.

This directory holds TLA+ modules translated from the source, TLC
configurations that check them on small instances, and TLAPS proofs.
`PROJECT.json` maps every definition to the source lines it stands for.

## 1. Inventory

| Part | Source | State it keeps | Operations | Who it talks to |
|---|---|---|---|---|
| CA sender | `src/src/sender.cpp` | per channel: connection, type, count, bytes, hash, pending flag, updates since the last heartbeat; the update queue; iteration and sequence counters | CA callbacks (connection, monitor event, get reply), polling of fields, heartbeat marking, packing, fragmenting | CA client library (callbacks inside `ca_pend_event`), UDP socket |
| CA protocol | `src/src/epics-diode/protocol.h`, `src/src/protocol.cpp` | none | sizes, alignment, submessage layout | sender and receiver |
| CA receiver | `src/src/receiver.cpp` | last sequence number, active fragment, fragment buffer, startup time of the sender, per channel last update time and disconnected flag | datagram validation, updates, reassembly, no-update check | UDP socket, the client's callback |
| UDP transport | `src/src/transport.cpp` | socket, token bucket | send, receive with a timeout, rate limit | sender, receiver |
| PVA sender | `src/src/pva_sender.cpp` | per channel: connection, type id, structure, changed and valid fields, pending kind of update, update number; work queue, update queue, type cache | pvxs events, type definitions, full and partial updates, heartbeats | pvxs client (threads that push the work queue), UDP socket |
| PVA receiver | `src/src/pva_receiver.cpp`, `src/src/pvadiode_receiver.cpp` | last sequence number, startup time of the sender, type cache, per channel value, update number, disconnected flag; one `SharedPV` per channel | validation, type definitions, full and partial updates, no-update check, opening and closing of PVs | UDP socket, pvxs server |
| PVA protocol | `src/src/pva_protocol.cpp`, `src/src/epics-diode/pva/protocol.h` | none | sizes, type cache, writing through a pvxs buffer that may be full | PVA sender and receiver |
| Diode IOC engine | `src/ioc/devdiode.c`, `src/ioc/diodeIoc.cpp` | table of names and record addresses, per entry count and hash | assignment during `iocInit`, update, disconnect | receiver callback (its own thread), record locks |
| IOC initialization | `src/ioc/iocInit.c` | IOC state | a copy of EPICS Base's `iocInit`, with `diode_assign_fields` between build and run | IOC engine |
| Configuration | `src/src/config.cpp`, `src/src/epics-diode/config.h` | parser context (level, last key, channel) | JSON callbacks, configuration hash, names and numbers of channels | all of them |
| Database generator | `src/src/diode_dbgen.cpp` | running channel index | one record per channel reached | Channel Access, the IOC's `diode_cix` |
| Programs | `src/src/*diode_*.cpp`, IOC tasks | tables of channels | read the configuration, number the channels, start | all of them |
| Logger | `src/src/logger.cpp` | level | output | - |

What is hard about it, and where the properties aim (`PROJECT.json`,
"hazards", has each at its line):

* *The queue and its flags* (`mark_update`, `mark_heartbeat_update`,
  `clear_update`): three operations, called from callbacks, heartbeats and the
  send loop, keep two structures in step.
* *Reconnections*: a subscription outlives the connection it was made on; type,
  count, bytes and hash come from different moments.
* *Fragmentation*: sizes that must add up, a value that must not change
  meanwhile, a loop that must end.
* *Heartbeats*: a counter at the sender decides about resends that a timeout at
  the receiver depends on.
* *Delivery*: 16-bit numbers that wrap, late and repeated datagrams, fragments
  of several values in one buffer, a sender that restarts.
* *The IOC's two threads*: the receiver task writes the table of names while
  `diodeIocInit` reads it, without a lock; later, updates are dropped as
  unchanged by comparison with what earlier calls left behind.
* *Structures in pieces* (pvAccess): partial updates count on an earlier full
  one, data on a type definition sent before, and a reader that drops an update
  does not know where the next one starts.
* *Numbers instead of names*: five loops over the configuration number the
  channels, and datagrams carry only the numbers; a hash is all that tells two
  configurations apart.
* *The receiver's clock*: read once per batch of datagrams, used for stamps,
  for the heartbeat check and for the timeout.

## 2. Modules

| Module | Models |
|---|---|
| `CaProtocol` | sizes, alignment, sequence arithmetic, the two datagrams as records |
| `DatagramSource` | abstract: what a sender promises at the socket |
| `CaSender` | the sender process, statement by statement where steps can interleave |
| `CaReceiver` | the receiver's loop and its validation, reassembly and timeout |
| `CaLink` | `DatagramSource` + lossy network + `CaReceiver` |
| `CaTimeout` | `CaReceiver` with time, fed by one sender |
| `DiodeIoc` | the IOC engine and the IOC's states: tables, assignment, updates, disconnects |
| `PvaProtocol` | type caches, the PVA messages, what fits a message and what is cut |
| `PvaSender` | the PVA sender's worker and the pvxs events that feed it |
| `PvaReceiver` | the PVA receiver and the PVs of the server |
| `PvaLink` | `PvaSender` + lossy network + `PvaReceiver` |
| `ConfigData` | the configuration, its hash, its numbering of channels |
| `ConfigFile` | the JSON callbacks, over the events of a file |
| `ChannelTable` | the tables of channels of senders, receivers and the IOC task |
| `DbGen` | the loop of `diode_dbgen` |
| `UdpSender` | the rate limiter and `sendto` to every destination |
| `CaWire` | one CA data message in bytes: written by the sender, read by the receiver |
| `Programs` | composes the six before: read the file, number the channels, then send |
| `CaSenderProofs`, `CaTimeoutProofs`, `CaLinkProofs`, `DiodeIocProofs`, `PvaLinkProofs`, `ProgramsProofs` | the theorems about the module of that name |
| `PvaCoherentProofs` | one more theorem about `PvaLink`, on the lemmas of `PvaLinkProofs` |
| `NatSets` | lemmas about natural numbers, finite sets and sums that several of them use |
| `MC...` | constants for TLC |

### CaSender

The sender is one thread. `pc` is its place in the loop of `run`:
`ca_pend_event` ("pend"), `mark_heartbeat_updates` ("hb"), the outer and inner
loops of `send_updates` ("send", "build"), `send_fragmented_updates` ("frag")
and `send_fragmented_update` ("fragging"). CA callbacks run only inside
`ca_pend_event`, so their actions have the guard `pc = "pend"`. Outside the
process there is an IOC (`src`) that connects, disconnects and posts values at
any time, and the CA library's queues (`evq`, `getq`): at most one event per
subscription is kept, which holds the newest value.

A PV is bytes, a type and a count; `DbrSize` gives the size per channel, type
and count, `HashOf` the value's hash. Bytes are model values: the code only
compares their hash and copies them. `value[c] = None` is `count == -1`.
`sent` and `since` are history variables: what was last put on the wire and how
many turns of the loop ago.

### CaReceiver, CaLink, CaTimeout

`CaReceiver` has one action per path through `receive_updates`: a data message,
a first fragment, a following fragment, a datagram that is not ours or is from
an older sender, plus `Tick` (time passes in `recvfrom`) and `EndBatch`
(`run` after the inner loop: the clock is read, `check_no_updates` may run).
The fragment buffer is the sequence of slices copied into it; handing it to the
callback yields the value if the slices are exactly that value's, and `Torn`
otherwise. `shown` is what the client was last told. Ages are compared with two periods
only, so one stands for all that are longer.

`CaLink` composes it with `DatagramSource`. The network is a sequence; `Window`
says how far a datagram may be overtaken (1: in order). Losses and duplicates
are counted against a bound. Time stands still there; `CaTimeout` has the time
and no network.

`CaSender` is connected to `CaLink` by refinement: `ImplementsSource` is
`DatagramSource!SrcSpec` under the mapping given at the end of `CaSender`,
checked by `CaSender_live` and proved in `CaSenderProofs`. The one difference of step is that the code takes a
sequence number when it starts a message and the abstract source when it sends
it; the mapping undoes it while `pc = "build"`.

### DiodeIoc

The shell thread runs `diodeIocInit` (`shell`, `pos`: build, `diode_init`, one
step per record, one per name) or `diodeIocBuild`, `diodeIocRun` and
`diodeIocPause` by themselves. The receiver task, started before, writes one
name per step (`named`), then calls back. A call that finds no entry returns
without effect, which is a stuttering step. `dbScanLock` makes each call
atomic.

A name is a record's, or a field's of a record; `Begins` says which names begin
with which, since `resolve_index_n` compares only as many characters as the
record's name has. `status` and `severity` are one alarm; count and hash are the
data they stand for. The code assigns time and alarm before it calls `dbPut`, and
so does the action of a put that fails. EPICS Base is external: `dbPut` (may fail to convert,
clears `udf`), `recGblResetAlarms` (moves `nsta`, `nsev` to `stat`, `sevr` and
clears them, tells whether they changed) and `db_post_events` (`seen`: what a
client that subscribed to the value was last sent). `told`, `latest` and
`unsettled` are history variables.

### PvaSender, PvaReceiver, PvaLink

The worker of the PVA sender wakes up every `update_period`: it takes the events
of the channels in the work queue ("events"), every `hb_iterations`-th time
sends all type definitions ("typedefs") and marks every channel for a full
update, and packs what is queued ("updates"). `chan[c]` is the code's `struct
Channel`. A structure is a type and a function from fields to data; an update
carries the fields its mask names. Sources and pvxs are external: a
subscription's queue holds one value, into which later ones are squashed. An
assertion of the code that fails leads to `pc = "aborted"`: the process is gone.

`PvaReceiver` reads a message entry by entry. The code does not skip the payload
of an update it drops, and reads too far in one that was cut (`Lost`); an update
of another type than `last_value` is decoded into that type all the same, which
takes as many bytes as it takes, so the reader may or may not be where the next
one starts (`MayLose`). `Ends` are the places up to which a message may be read
in step. What is read from the wrong place after that may be (`Misreads`)
nothing, a notice of disconnection, a structure whose fields hold `Torn`, and any
update number: a nondeterministic choice for every channel. `pv` is what the
server shows. `base` is a history variable: the structure the sender had when it
sent the last update accepted, how many updates of the connection were before
it, and the connection, as long as the receiver follows it. That count is the
history `no` of the sender's channel; with `Counted` it counts on when the 16-bit
number wraps, without it it wraps too, which keeps instances finite in which the
sender runs for ever.

In `PvaLink` both run over a network as in `CaLink`, with restarts of the
sender, and silences in which `check_no_updates` closes channels.

### ConfigFile, ChannelTable, DbGen, UdpSender, CaWire, Programs

`ConfigFile` is driven by the events yajl makes of a file (external; it nests
containers properly), with the parser's `level`, `current_key` and
`current_channel`. The file may end anywhere, because `yajl_complete_parse` is
never called. `declared` is what the file says by its nesting, `cut` what was
read of some shorter part of it.

`Programs` loads a file and starts one program: `diode_dbgen`, a sender or
receiver of Channel Access, or one of pvAccess; each walks the channels in its
own loop, one channel a step. A sender then either sends datagrams of any
length at the configured rate (`UdpSender`) or packs one data message of the
channels in its table (`CaWire`): `Serializer` positions, the sums of
`ChannelGroup`, the entries and their padding, and the receiver's way through
them, which computes sizes anew from types and 16-bit counts.

### Simplifications

* A failed `sendto` is a lost datagram.
* `heartbeat_period` is a whole number of seconds; the host has been up for
  more than two periods when the receiver starts (`steady_clock` counts from
  boot, which is what makes the stamps of the first batch old).
* The number of fragments stays below 2^16. Datagrams with several submessages,
  which no sender makes, and malformed ones are not modelled; neither is the
  option to stop after a given run time.
* The exit of the IOC (`shutdown_flag`) is left out; records stay allocated in
  the mode the diode uses. Names in the configuration do not
  exceed the table (`DIODE_LUT_SIZE`).
* The three periods of the configuration are one; they are treated alike.
* PVA fields are all of the same size. `steady_clock` of the PVA receiver is an
  action, a silence of two periods, which any channels may meet.
* Elements in `CaWire` are one byte long, which makes counts largest; tables of
  up to `MaxTable` channels and one message are looked at.
* `RateKept` allows for the microsecond that rounding saves at every pause, and
  for the last datagram, which the pause comes after.
* Times in the sender are turns of its loop, as in the code (`hb_iterations`).

## 3. Runs

Bounds are chosen so that each property's interesting case occurs; every
passing property has a mutant in `PROJECT.json` that makes it fail under the
same configuration, which shows that the case does occur.

| Run | Checks | Instance |
|---|---|---|
| `CaSender_polled` | `TypeOK`, `QueueConsistent`, `NoLostUpdate`, `WireDescribesValue` | one record with a polled field, two values, two types; both periods of two turns, so that a poll, a heartbeat and an event can fall in any order |
| `CaSender_live` | `FragFront`, `HeartbeatBound`, `ImplementsSource`, `QueueDrains` | two records without fields, counts of 1 and 6: values that fit and values of three fragments; a heartbeat period of two turns |
| `CaLink_reorder` | `FragmentsIntact` | values of three fragments; neighbours swap, one loss, one duplicate |
| `CaLink_restart` | `NoStaleUpdate` | a second sender while up to three datagrams of the first are in flight; neighbours swap, one loss |
| `CaLink_inorder` | `TypeOK`, `InOrderApplied`, `Converges` | a small and a fragmented channel, 8 sequence numbers, all used, one loss, one restart |
| `CaTimeout_watch` | `ClockTypeOK`, `TimeoutComplete`, `TimeoutSound` | a channel whose updates fit and one whose updates are fragmented; heartbeat period of two socket timeouts, batches of two datagrams |
| `DiodeIoc_engine` | `TypeOK`, `FieldsWithRecord`, `RecordFollows`, `ClientsInformed` | records `A` (with two fields in the configuration, one of which it does not have) and `AB`; three values, one of which cannot be put; two time stamps with an alarm each |
| `DiodeIoc_fieldlost` | `UpdateSetsSeverity`, violated | the same, one value, which can be put |
| `PvaLink_faults` | `NoLostChange`, `QueueConsistent`, `Coherent` | one channel of two fields and a type of its own, two connections, two sender processes; neighbours swap, one loss, one duplicate, one silence |
| `PvaLink_live` | `TypeOK`, `TypesAgree`, `Converges`, `LoopGoesOn` | two channels of one field, each with a type of its own, which the sender numbers in the order they come up; a message holds one update, which fills it, or one definition; 5 sequence numbers, all used, one loss, one duplicate |
| `PvaLink_misread` | `Converges`, violated | two channels that share a message, one with a type of its own; one loss |
| `Programs_start` | `TypeOK`, `ParsedAsDeclared`, `CutFileDetected`, `IndicesAgree`, `ReadAsWritten`, `RateKept` | files of up to 17 events over two channel names and one field name, rates of 0 (from a fraction), 2 and 64, two destinations; messages of 72 bytes, which two records with a field fill |

What these show, in a sentence each, is in `PROJECT.json` ("about"). The longest
takes about two minutes with two workers (`CaSender_live`, `DiodeIoc_engine`,
`PvaLink_faults`).

The configurations of three modules do not check for deadlock: an IOC whose build failed stops
(`DiodeIoc_*`), so does a PVA sender that aborted or used up the sequence
numbers of the instance (`PvaLink_*`), and a program of `Programs` that has read
its file, numbered its channels and sent what the bounds allow.

`TimeoutComplete` is about channels whose updates fit a message, since of the
others it does not hold (`FragmentedReported`). `ClientsInformed` says that the
client has the last update of the channel, if that could be put, and that the
client sees a disconnection of a record nothing else had changed before; what it
leaves out is where the code fails (`GoneSeen`, `MetaOnlyWithPut`).

`Converges` of `PvaLink` is about losses that end and a sender that did not abort,
for sources that keep their type (`design_pva.rst:62`), and for messages of one
update: in those nothing is read after an update that was dropped. With two
updates in a message it fails, `PvaLink_misread`. `TypesAgree` is about one sender
process; with two it fails (the row below). The run has definitions lost and
repeated, and numbered either way; that they may overtake one another or data is
covered by the proof. `Coherent` is about a receiver that follows the
connection its last full update was from: it took no update that was cut, none of
another connection, and none that has the right number only because it, or what the
receiver missed, is a whole round of numbers away (`CameRound`); from the next full
update on it follows again. `NoLostChange` is checked for sources whose
first event marks every field (`AllMarked`), as pvxs servers do. The rows below
show that each condition is needed.

`SeqMod` stands for 2^16. Sequence numbers are only compared by their
difference, so a smaller modulus shows every case as long as it is larger than
twice the number of datagrams in flight; where the wrap or the mark 0xFFFF is
not the subject, `SeqLimit` stops the sender before it.

Fairness. `CaSender!FairSpec`: the loop of `run` never waits for anything but
`ca_pend_event`, which returns after `update_period`, so every step of the loop
is weakly fair, and the network takes what it is given. The callbacks, which
depend on the outside, are not fair. `CaLink!FairSpec`: every channel is resent
again and again (`HeartbeatBound`), which is strong fairness of its
transmission, since other transmissions come in between; a fragmented update
that was begun is continued; the receiver's loop goes on; and a network that
holds a datagram again and again delivers it again and again (losses are
bounded). `PvaLink!FairSpec`: the worker waits for nothing but its
`sleep_for`, so its steps are weakly fair, and the network forwards what it does
not lose; sources and restarts are not fair.

### What the violation runs show

* `PvaLink_misread`: after an update that was dropped, the next one is read from the
  wrong place (`pva_receiver.cpp:339`). If what is read there is a full update
  for a channel without a value, the value gets whatever type the id found
  there means, and no later full update changes it (`pva_receiver.cpp:333`):
  repetition does not make up for the loss, against `design_pva.rst:103`.
* `DiodeIoc_fieldlost`: a field's disconnect makes the whole record invalid. The
  record's next update, if nothing else in it is new, is dropped as unchanged,
  since the code compares its status and severity with `nsta` and `nsev`, which
  are always 0 there. The record stays invalid with all channels connected.

### Other disagreements between code and documentation

Stated as properties, or with a changed bound, but without a run of their own.
To see one, give the property to the run named, with the change.

| Property | Run | What the code does |
|---|---|---|
| `QueueDrains` | `CaSender_live`, `ParentIndex <- OneRecord`, `Counts = {2}`, `HbIterations = 1` | `send_updates` leaves its inner loop at a group whose summed size exceeds a message; if the record's own value fits, it is not fragmented either, and the loop sends empty messages for ever (`sender.cpp:408`); `design.rst:112` says that a new message is started |
| `RecordSentWhole` | `CaSender_polled`, `Counts = {1, 6}`, `Polled = {}` | a record sent in fragments leaves the queue without its fields (`sender.cpp:378`); `design.rst:117` wants them in the same packet |
| `HeartbeatEveryPeriod` | `CaSender_live` | a record updated early in a period is resent at the end of the next one (`sender.cpp:99`); `design.rst:51` says within a period |
| `AllElements` | `CaSender_live` | only another type makes the sender subscribe anew (`sender.cpp:521`); `design.rst:92` says type and count |
| `NoHeartbeatWhenDisconnected` | `CaSender_polled` | the heartbeat marks every channel (`sender.cpp:451`); `design.rst:123` excludes disconnected ones |
| `NoStaleUpdate` | `CaLink_restart`, `Window = 3`, `SeqLimit = 5`, `MaxLoss = 0`, `MaxStartup = 1`, `MaxVersion = 3` | `validate_order` remembers the number of a message it rejects; a second late message is compared with that and applied over newer values (`receiver.cpp:186`); `protocol.rst:144` says late messages are ignored |
| `NoStaleUpdate` | `CaLink_restart`, `MaxDup = 1`, `MaxStartup = 1` | a duplicate of a late datagram is accepted (`receiver.cpp:191`: the difference 0), against the comment two lines above |
| `NoStaleUpdate` | `CaLink_reorder`, `LargeDisc = TRUE`, `MaxDup = 0` | a late last fragment completes an old value (`receiver.cpp:211`) |
| `FragmentsIntact` | `CaLink_reorder`, `LargeDisc = TRUE`, `LargeSize = 40`, `MaxDup = 0`, `MaxStartup = 2`, `MaxLoss = 3`, `MaxVersion = 4` | a new sender does not reset the active fragments (`receiver.cpp:234`) |
| `FragmentsIntact` | `CaLink_inorder`, `NumChan = 1`, `Large = {1}`, `MaxVersion = 3`, `MaxStartup = 1`, `MaxLoss = 3` | 0xFFFF means "no active fragments" and is a sequence number too: fragments of that number are appended to what is in the buffer (`receiver.cpp:212`) |
| `FragmentedReported` | `CaTimeout_watch` | an update that came in fragments is shown to the client, but leaves the channel marked as disconnected if it was (`receiver.cpp:362`): `check_no_updates` skips it from then on, and the client is never told when it falls silent again; `design.rst:151` says that all channels are checked |
| `FragmentedKept` | `CaTimeout_watch` | the other direction: an update that came in fragments stamps nothing, and the channel is reported as gone while updates arrive (`receiver.cpp:362`) |
| `TwoPeriodsOfSilence` | `CaTimeout_watch` | updates are stamped with the time the previous batch ended (`receiver.cpp:311`) |
| `FirstBatchKept` | `CaTimeout_watch` | updates of the first batch are stamped with the clock's epoch (`receiver.cpp:33`) |
| `AssignedByName` | `DiodeIoc_engine`, `Cix <- NoCix` | a record without `diode_cix` is never looked up by name (`devdiode.c:184`); the comment above it and `design.rst:169` say it is |
| `FieldsServed` | `DiodeIoc_engine` | fields whose names the receiver task had not written yet are never assigned (`devdiode.c:215`: "first empty name implies end of block") |
| `FieldsWithRecord` | `DiodeIoc_engine`, `Config <- LongFirst`, `Cix <- CixLong` | `A.hihi` is assigned to record `AB` if `AB` comes first (`devdiode.c:100`) |
| `RecordFollows` | `DiodeIoc_engine`, `ManyAlarms = TRUE` | an alarm that clears without a new time stamp stays in the record (`devdiode.c:304`) |
| `GoneSeen` | `DiodeIoc_engine` | a field's disconnect invalidates the record and posts an event for the field only, and so a failed put its alarm without any; if the record's own channel goes away then, the alarm is not new, nothing is posted (`devdiode.c:377`), and a client that subscribed to the value goes on showing it as good; `design.rst:185` says that a disconnection is reported |
| `MetaOnlyWithPut` | `DiodeIoc_engine` | time, status and severity are assigned before `dbPut` (`devdiode.c:316`) and stay in the record if it fails, with the old value and without an event, against the comment two lines above |
| `NeverAborts` | `PvaLink_faults` | a heartbeat asks a channel that never connected for its valid fields, and the assertion in `valid_to_mask` ends the sender (`pva_sender.cpp:43`); `design_pva.rst:104` says that no update is sent for it |
| `DisconnectReported` | `PvaLink_live` | a disconnected channel is sent like one that changed, and heartbeats refresh it (`pva_sender.cpp:323`), so that clients never learn of it; `design_pva.rst:91` says a disconnect event is sent |
| `SameConnection` | `PvaLink_faults` | the update number starts at 0 with every connection, so a partial update may be taken onto the structure of an earlier one, against the comment (`pva_receiver.cpp:315`) |
| `Coherent` | `PvaLink_faults`, `SeqMod = 3`, `MaxStartup = 1`, `CameRound` always `FALSE` | numbers come again: a late update of an earlier round counts as the next one, and the partial update after it is taken onto an older structure (`pva_receiver.cpp:315`); with 2^16 numbers it has to be late by that many updates |
| `TypesAgree` | `PvaLink_live`, `MaxStartup = 2` | a restarted sender fills its type cache in the order its sources come up, the receiver keeps what it had: a new startup time resets only `last_seq_no` (`pva_receiver.cpp:231`) and a type whose slot is taken is left alone (`pva_receiver.cpp:388`); `design_pva.rst:77` says that the caches are synchronized |
| `NothingTorn` | `PvaLink_misread` | the payload of a dropped update is not skipped, and what follows is read from the wrong place (`pva_receiver.cpp:339`) |
| `NothingTorn` | `PvaLink_misread`, `MaxMessageSize = 58` | a value that does not fit the rest of the message is cut and counts as sent (`pva_protocol.cpp:176`) |
| `NoLostChange` | `PvaLink_faults`, `AllMarked = FALSE` | `merge` copies fields without setting that they are valid, and only valid ones are written: a field the first event did not have is never sent |
| `LoopGoesOn` | `PvaLink_live`, `MCTypeBytes` larger than `TypeDefRoom` | a type definition that does not fit a message is tried again for ever (`pva_sender.cpp:467`, as its own comment says) |
| `ParsedAsDeclared` | `Programs_start`, `AnyShape = TRUE`, `MaxEvents = 7` | maps under any top-level key become channels (`config.cpp:95`); `design.rst:217` has them under `channel_names` |
| `TotalRateKept` | `Programs_start` | the pause is computed from one datagram, however many destinations it went to (`transport.cpp:97`); `design.rst:126` limits the rate of sending |
| `PvaNamesAgree` | `Programs_start` | PVA senders and receivers use one index a channel, and `pvadiode_receiver` takes the names from a list that has the fields too |

## 4. Proofs

The theorems hold for every value of the constants that satisfies the named
assumptions of the modules (below) and the theorem's own hypotheses.

| Module | Theorem | Property | Hypotheses |
|---|---|---|---|
| `CaSenderProofs` | `SenderTypeOK` | `TypeOK` | |
| | `SenderQueueConsistent` | `QueueConsistent` | |
| | `SenderFragFront` | `FragFront` | |
| | `SenderWireDescribesValue` | `WireDescribesValue` | |
| | `SenderNoLostUpdate` | `NoLostUpdate` | `FragmentedAlone`, `SizesTellCounts`, `HashInjective` |
| | `SenderHeartbeatBound` | `HeartbeatBound` | |
| | `SenderImplementsSource` | `ImplementsSource` (refinement) | |
| `CaTimeoutProofs` | `TimeoutClockTypeOK` | `ClockTypeOK` | |
| | `SilenceReported` | `TimeoutComplete` | |
| | `ReportedSilent` | `TimeoutSound` (action) | |
| `CaLinkProofs` | `LinkTypeOK` | `TypeOK` | |
| | `LinkFragmentsIntact` | `FragmentsIntact` | `OneRun` |
| | `LinkInOrderApplied` | `InOrderApplied` (action) | `OrderKept` |
| `DiodeIocProofs` | `IocTypeOK` | `TypeOK` | |
| | `IocFieldsWithRecord` | `FieldsWithRecord` | `ConfigOrdered` |
| | `IocRecordFollows` | `RecordFollows` | `StampTellsAlarm` |
| | `IocClientsInformed` | `ClientsInformed` | `StampTellsAlarm` |
| `PvaLinkProofs` | `PvaTypeOK` | `TypeOK` | |
| | `PvaQueueConsistent` | `QueueConsistent` | |
| | `PvaTypesAgree` | `TypesAgree` | `OneProcess` |
| | `PvaNoLostChange` | `NoLostChange` | `AllMarked`, `AllFit` |
| `PvaCoherentProofs` | `PvaCoherent` | `Coherent` | `AllMarked`, `Counted` |
| `ProgramsProofs` | `ProgramsTypeOK` | `TypeOK` | |
| | `ProgramsRateKept` | `RateKept` | |
| | `ProgramsParsedAsDeclared` | `ParsedAsDeclared` | `DocumentedShape` |
| | `ProgramsCutFileDetected` | `CutFileDetected` | |
| | `ProgramsIndicesAgree` | `IndicesAgree` | |
| | `ProgramsReadAsWritten` | `ReadAsWritten` | |

### Hypotheses

A hypothesis is a condition on the constants under which the code does what the
property says. Where the last column names a property or a changed bound, the table
of disagreements has the instance in which it fails.

| Hypothesis | Says | Without it |
|---|---|---|
| `FragmentedAlone` | a record whose value needs fragments has no fields | `RecordSentWhole` |
| `SizesTellCounts` | a polled value has a size, and that tells its count | a reply of equal size and hash is dropped, whatever its count; `dbr_size_n` gives each count from 1 a size of its own |
| `HashInjective` | hashes tell values apart | a changed value with the old one's hash is dropped; the code relies on 64 bits |
| `OneRun` | one sender, which does not use the number 0xFFFF | both rows of `FragmentsIntact` |
| `OrderKept` | nothing is overtaken, and less is lost in all than half of the sequence numbers | a late datagram is to be dropped; a gap of half the numbers looks like lateness |
| `ConfigOrdered` | no name before a record's own begins with it | `FieldsWithRecord` with `LongFirst` |
| `StampTellsAlarm` | updates with one time stamp have one alarm | `RecordFollows` with `ManyAlarms` |
| `OneProcess` | the sender is not restarted | `TypesAgree` with `MaxStartup = 2` |
| `AllMarked` | the first event of a connection marks every field | `NoLostChange` with `AllMarked = FALSE` |
| `AllFit` | full updates of all channels fit into one message | `NothingTorn` with `MaxMessageSize = 58`: what is cut counts as sent |
| `Counted` | the history `no` counts on when `update_seq_no` wraps: nothing is asked of the code | `no` wraps like the number, and `CameRound` takes the update after a wrap for one that came round |
| `DocumentedShape` | files have the shape of `design.rst` | `ParsedAsDeclared` with `AnyShape = TRUE` |

Assumptions on constants are named in the modules that declare them, and TLC
evaluates them in every run. Most say what kind of thing a constant is. Those
that say more: a channel's parent is its own parent and only fields are polled
(`ParentAssumption`, `PolledAssumption`); a message has room for a byte of a
fragment (`MaxMessageSizeAssumption`), or is a multiple of 8 that holds the headers
and at most as many elements as 16 bits count (`MessageAssumption`); the next sequence number is within the
tolerated difference (`WrapAssumption`); the records of a database are distinct
(`RecordAssumption`); there is a destination (`DestAssumption`: without one the
loop of `send_to` sends nothing); marks such as `None` are not values.

### The arguments

*CaSender.* `TypeOK` alone is not inductive: that `value[c].count` has a size
needs the subscription's type to be the channel's, and that `Head` and `frag` are
defined needs the place in the loop. `TypeInv` adds `ConnInv` (a value or
subscription implies a known type, and they agree) and `LoopInv` (what holds at
each `pc`). `QueueConsistent`, `FragFront` and `WireDescribesValue` are each
preserved by every step given `TypeInv`; the two queue operations are treated
once, in `QueueMark` and `QueueClear`. `NoLostUpdate` needs more: a polled reply
is dropped when size and hash are those of the value before, so `SafeInv` also
says that the remembered hash is that of the cached bytes (`HashInv`), and
`LooksSame` turns equal size and hash into equal values. For `HeartbeatBound`,
`BeatInv` bounds the age of a record by the place in the loop: in `ca_pend_event`
by the turns since the last heartbeat (`PendBeat`), during the heartbeat by what
was visited (`MarkBeat`), and while the queue is sent by whether the record is
still due (`SendBeat`). The refinement needs `MsgInv`, that the message being
packed has the number before `seq_no` and holds no value that needs fragments; then
each step is mapped to one of the source or to a stutter.

*CaTimeout.* `ClockInv` relates the clock to the place in the batch: how much time
a batch can have taken (`BatchInv`), that ages and the time of the last check are
bounded (`AgeInv`), that nothing in this instance is out of order (`OrderInv`),
and, for each channel that is not marked as disconnected, how long it can have been
silent given its stamp (`QuietInv`). That the client of a marked channel was told so
last is `ToldInv`, which an update in fragments breaks, so that it is about the
other channels. `SoundInv` is the other direction: a stamp is too old by one batch
at most.

*CaLink.* `FragmentsIntact`: `IntactInv` has a history `w` under a quantifier,
which tells for each number used so far whose value it was spent on. Fragments in
flight and pieces in the buffer are those `w` has for their number, and the room
left is what their value lacks; so the piece that fills the buffer is the last one.
`InOrderApplied`: every datagram in flight is given a place (the sender's run, the
count of numbers it has spent without wrapping, the losses so far), under a
quantifier again; places of neighbours are one number apart, plus what was lost
between them (`After`), the first follows what the receiver has seen and the last
is followed by what the sender has (`Ends`). The remainders are then closer than
the tolerated difference.

*DiodeIoc.* `EntryInv` says that a record has one entry for its value, assigned in
the order of the database, and that values and calls come through entries;
`ClientInv` then says for each record's entry what its hash remembers
(`Remembers`), that the record shows it unless it is unsettled (`Follows`), and
what clients were sent (`Informed`): the last update, whether the record is
unsettled or not, and all there is of a record that is not. `FieldInv` says that a
field's entry has the record that the entry of its own channel has.

*PvaLink.* `TypeInv` is a conjunction of `SourceInv`, `SenderInv`, `QueueInv`,
`NetInv` and `ReceiverInv`; `QueueInv` holds `QueueConsistent`, which the bounds on
the queue need. `TypesInv` says that both the receiver's cache and each message of
definitions on its way are parts of the sender's cache, which only grows.
`ChangeInv` says that what of a structure differs from what was sent is marked
(`Held`), which needs that every field is valid (`MarksOf`) and, before the event
arrives, that a source that is up has told of itself (`EventsOf`); and, for `Held`
alone, that nothing is cut (`AllFit`). That a message
has room for the next update is a sum over the channels not yet in it.

`Coherent` needs to know what earlier updates were, so `CoherentInv` has two
histories under a quantifier: `u[c]`, the connection whose structure the sender's
channel last held, and `w[c][s][k]`, the structure when update `k` of connection `s`
was sent, where `k` counts on when the 16-bit number wraps (`Numbered`). What is
`Issued` stays (`Later`). The events of a source come in the order
of its connections, and between two values in the queue there is a disconnect
(`Sessions`); the first update of a connection is a full one, and later all is
marked that differs from the structure of the update before, whether that was sent
whole or cut (`Sending`); an update in flight that was not cut is all of its
count's structure or what changed since the count before (`Flying`, `Partly`); and
a receiver that follows a connection shows the structure of the count it is at,
if it has the type (`Shown`). A partial update is taken only if its number is the next one,
modulo 2^16; if it has not come round, its count is the next one too (`NextNumber`),
so what it leaves alone is already shown. So neither the length of a process nor the size of
messages matters: after a cut or misread update the client follows nothing until
the next full one.

*Programs.* `ParsedAsDeclared` needs `DocInv`: in a file of the documented shape
the depth of the containers says what they are, and the parser's three variables
say the same. `CutFileDetected` needs `CutInv`: everything that adds to the channels
also makes the input of the hash longer, so a shorter part of a file has either the
same channels or a shorter input. `IndicesAgree` needs `NumberedInv`: a program that
is at the `k`-th channel has numbered the names of the first `k`; `Concat` of the
names is a function over the natural numbers, whose equation is proved by induction
(`NatSets!SetInduction`, on a set of numbers). `RateKept` needs
`PauseInv`: between two datagrams every destination got what the time since the
first allows (`Due`), a pause covers the datagram before it (`PauseCovers`, from the
rounding of the code), and during the loop over the destinations those already
served got one more.

`ReadAsWritten` follows one message from the first byte written to the last one
read. The table keeps a record and its fields together (`Grouped`), so that
`GroupEnd` finds exactly them. `Layout` has the channels of the message and the
position of each entry under a quantifier: positions grow by header and padded value
(`PositionsGrow`); the sender asks in one sum for the length it then writes in
steps, because an aligned sum moves with an aligned start (`PlacesMove`); and a count
that fits the message fits its 16 bits. The reader is at the position of its next
entry (`Reading`) and computes from what it reads there the position after it, so it
has called the client for the entries before, and ends after the last one, at the
limit of the datagram (`WireRead`).

### Only model-checked

* Liveness: `QueueDrains` of `CaSender`, `Converges` of `CaLink` and `PvaLink`,
  `LoopGoesOn` of `PvaLink`. The prover has no rules for fairness or `ENABLED`.
* `NoStaleUpdate` of `CaLink`. It fails for datagrams that are late twice, repeated
  or fragmented, and for lateness of half the numbers; under conditions that
  exclude all of these a proof would be about the cases in which the test for
  late messages has nothing to do. `CaLink_restart` checks it where the test
  matters and works, and the table has the instances in which it does not.
* Everything outside the hypotheses above: fragments over several senders, type
  ids over several senders, changes that are cut.
* The properties the violation runs and the table of disagreements are about.

## 5. Not modelled, and the plan

Not modelled: option parsing and output of the programs, the records and their
types that `diode_dbgen` writes, the logger (formatting and I/O, no state);
sockets and the parsing of addresses; the pvxs headers, a copy of a library's
private files, of which only the buffer that refuses everything after the first
item that does not fit is modelled; what EPICS Base does in `iocBuild` and at
exit, of which the diode's copy of `iocInit.c` mostly consists; the option to
stop after a given run time.

Still to come, in this order:

1. Proofs: `FragmentsIntact` of `CaLink` over restarts that happen while no
   fragments are on their way.
2. A joint clock: `CaSender`'s heartbeats and `CaTimeout`'s check with periods
   that drift, to show that the receiver's two periods are enough for the
   sender's `HeartbeatBound` plus one lost datagram, or how far they are not.
3. An abstract specification of the PVA sender at its socket, as
   `DatagramSource` is for Channel Access, so that the PVA link can be checked
   with more channels.
