------------------------------- MODULE CaWire --------------------------------
(***************************************************************************)
(* One CADataMessage in bytes.  The sender writes groups of channels into  *)
(* the send buffer (Serializer), after it has added up what they take; the *)
(* receiver finds the entries again from types and counts.  What is at a   *)
(* position of the buffer is an entry, its value and its padding; elements *)
(* of values are one byte long, which makes counts largest.                *)
(***************************************************************************)
EXTENDS CaProtocol, Sequences

CONSTANTS Elements,   \* counts of elements
          Gone,       \* count == -1: the channel is disconnected
          CountMod,   \* 2^16 in the code: count is a uint16_t on the wire
          MetaBytes   \* what comes before the elements, in dbr_time types

VARIABLES channels,   \* the table, with indices from 0, as ChannelTable has it
          count,      \* count[i]: of the value of channel i
          queue,      \* update_deque
          packed,     \* history: the records packed
          wire,       \* "writing", then "reading", then "read"
          pos, good,  \* of the Serializer in use
          limit,      \* its end: of the buffer, then of the datagram
          buffer,     \* the entries written, [at, id, type, count]
          update_count,
          called      \* what the callback got, [id, count] in order

Index == 0 .. Len(channels) - 1
Parent(i) == channels[i + 1].parent

(* Channel::is_channel; records are subscribed to with dbr_time types.     *)
TypeOf(i) == IF Parent(i) = i THEN "time" ELSE "plain"
dbr_size_n(type, n) == IF type = "time" THEN MetaBytes + n ELSE n
Size(i) == IF count[i] = Gone THEN 0 ELSE dbr_size_n(TypeOf(i), count[i])

PayloadPos == HeaderSize + SubmessageHeaderSize + CADataMessageSize

WireInit ==
  /\ count = << >> /\ queue = << >> /\ packed = << >>
  /\ wire = "read" /\ pos = PayloadPos /\ good = TRUE /\ limit = PayloadPos
  /\ buffer = {} /\ update_count = 0 /\ called = << >>

(* Serializer::ensure; limit - pos is unsigned. *)
Ensure(n) == pos > limit \/ n <= limit - pos

(* ChannelGroup of record c: c up to the last channel before the parent    *)
(* index grows.                                                            *)
GroupEnd(c) ==
  LET ends == {i \in c .. Len(channels) - 2 : Parent(i) < Parent(i + 1)}
  IN CHOOSE e \in Index : e \in ends \cup {Len(channels) - 1}
                          /\ \A i \in ends : e <= i

value_size(c) ==
  LET sum[i \in c .. GroupEnd(c) + 1] == IF i = c THEN 0 ELSE sum[i - 1] + Size(i - 1)
  IN sum[GroupEnd(c) + 1]

(* Deviation: the sum is aligned, and not every entry. *)
value_size_aligned_once(c) ==
  AlignUp(value_size(c) + CAChannelDataSize * (GroupEnd(c) - c + 1))
value_size_aligned(c) ==
  LET full[i \in c .. GroupEnd(c) + 1] ==
        IF i = c THEN 0 ELSE AlignUp(full[i - 1] + CAChannelDataSize + Size(i - 1))
  IN full[GroupEnd(c) + 1]

(* send_updates begins a message for the records queued. *)
StartMessage(q, counts) ==
  /\ queue' = q /\ count' = counts /\ packed' = << >>
  /\ wire' = "writing" /\ pos' = PayloadPos /\ good' = TRUE /\ limit' = MaxMessageSize
  /\ buffer' = {} /\ update_count' = 0 /\ called' = << >>

Fits ==
  /\ queue # << >>
  /\ value_size(Head(queue)) <= MaxDataSize
  /\ Ensure(value_size_aligned(Head(queue)))

(* The positions of the entries of a group, and the one after them:        *)
(* operator<<, write and pad_align.                                        *)
Written(c) ==
  LET at[i \in c .. GroupEnd(c) + 1] ==
        IF i = c THEN pos ELSE AlignUp(at[i - 1] + CAChannelDataSize + Size(i - 1))
  IN at

OnWire(n) == IF n = Gone THEN CountMod - 1 ELSE n % CountMod

WriteGroup ==
  LET c == Head(queue)
      at == Written(c)
  IN /\ wire = "writing" /\ Fits
     /\ buffer' = buffer \cup
          {[at |-> at[i], id |-> i, type |-> TypeOf(i), count |-> OnWire(count[i])] :
             i \in c .. GroupEnd(c)}
     /\ pos' = at[GroupEnd(c) + 1]
     /\ update_count' = update_count + GroupEnd(c) - c + 1
     /\ queue' = Tail(queue) /\ packed' = Append(packed, c)
     /\ UNCHANGED <<count, wire, good, limit, called>>

(* The message goes out with what it holds; receive_updates reads its      *)
(* headers.                                                                *)
SendMessage ==
  /\ wire = "writing" /\ ~Fits
  /\ wire' = "reading"
  /\ pos' = PayloadPos /\ good' = TRUE /\ limit' = pos
  /\ UNCHANGED <<count, queue, packed, buffer, update_count, called>>

(* One turn of the loop over channel_count: the callback is called with    *)
(* what is at pos, and the data skipped.  Once ensure has failed nothing   *)
(* is read.  Where no entry begins, anything may be read.                  *)
EntriesAt(p) == {e \in buffer : e.at = p}

ReadEntry ==
  /\ wire = "reading" /\ update_count > 0
  /\ update_count' = update_count - 1
  /\ good' = (good /\ Ensure(CAChannelDataSize))
  /\ IF ~good' THEN UNCHANGED <<pos, called>>
     ELSE \E e \in IF EntriesAt(pos) # {} THEN EntriesAt(pos) ELSE buffer :
            LET gone == e.count = CountMod - 1
            IN /\ called' = IF e.id \in Index
                            THEN Append(called, [id |-> e.id,
                                                 count |-> IF gone THEN Gone ELSE e.count])
                            ELSE called
               /\ pos' = AlignUp(pos + CAChannelDataSize
                                   + IF gone THEN 0 ELSE dbr_size_n(e.type, e.count))
  /\ UNCHANGED <<count, queue, packed, wire, limit, buffer>>

ReadDone ==
  /\ wire = "reading" /\ update_count = 0
  /\ wire' = "read"
  /\ UNCHANGED <<count, queue, packed, pos, good, limit, buffer, update_count, called>>
==============================================================================
