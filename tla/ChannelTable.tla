---------------------------- MODULE ChannelTable -----------------------------
(***************************************************************************)
(* The tables of channels: the senders, the receivers and the receiver     *)
(* task of the IOC each number the channels of the configuration in a loop *)
(* of their own.  The datagrams carry these numbers only.  One step is one *)
(* channel of the configuration.                                           *)
(***************************************************************************)
EXTENDS ConfigData

VARIABLES todo,      \* the channels still to come
          channels   \* the table: [name, parent, polled]

TableInit == channels = << >>

Channel(name, parent, polled) == [name |-> name, parent |-> parent, polled |-> polled]

(* The entries of fields of ch whose parent has the index parent. *)
FieldChannels(ch, fields, parent, polled) ==
  [j \in 1 .. Len(fields) |-> Channel(<<ch.name, fields[j]>>, parent, polled)]

(* Sender::create_channels, for Channel Access: fields belong to the       *)
(* channel before them.  Deviation: to the one that was created last.      *)
Parent_last == IF channels = << >> THEN 0 ELSE Len(channels) - 1
Parent == Len(channels)

CreateChannels ==
  LET ch == Head(todo)
  IN /\ todo # << >> /\ todo' = Tail(todo)
     /\ channels' = channels \o <<Channel(<<ch.name>>, Parent, FALSE)>>
                      \o FieldChannels(ch, ch.extra, Parent, FALSE)
                      \o FieldChannels(ch, ch.polled, Parent, TRUE)

(* Receiver::create_channels and the IOC's receiverTask: names only. *)
AssignNames ==
  LET ch == Head(todo)
  IN /\ todo # << >> /\ todo' = Tail(todo)
     /\ channels' = channels \o <<Channel(<<ch.name>>, 0, FALSE)>>
                      \o FieldChannels(ch, ch.extra, 0, FALSE)
                      \o FieldChannels(ch, ch.polled, 0, FALSE)

(* create_channels of the PVA sender and receiver: a structure has all     *)
(* fields, so the channel takes one index.                                 *)
CreatePvaChannels ==
  /\ todo # << >> /\ todo' = Tail(todo)
  /\ channels' = Append(channels, Channel(<<Head(todo).name>>, Len(channels), FALSE))
==============================================================================
