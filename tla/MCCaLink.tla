------------------------------ MODULE MCCaLink ------------------------------
(* Instances of CaLink for TLC.  A value is its version and whether the    *)
(* channel was connected; every store makes a newer version.               *)
EXTENDS CaLink, FiniteSets

CONSTANTS NumChan,     \* number of channels
          Large,       \* channels whose connected value does not fit a message
          LargeSize,   \* their size
          MaxVersion,  \* bound: stores per channel
          LargeDisc    \* whether the large channels may disconnect

MCChan == 1 .. NumChan
MCValue == [ver : 0 .. MaxVersion, conn : BOOLEAN]
MCInit == [ver |-> 0, conn |-> FALSE]
MCDisc == {v \in MCValue : ~v.conn}
MCVersion == [v \in MCValue |-> v.ver]

(* FragRoom is 20 with MaxMessageSize 64: a large value is two fragments,  *)
(* or three with LargeSize 60.                                             *)
MCSize == [c \in MCChan |-> [v \in MCValue |->
             IF ~v.conn THEN 0 ELSE IF c \in Large THEN LargeSize ELSE 8]]

MCSucc == [c \in MCChan |-> [v \in MCValue |->
             {w \in MCValue : /\ w.ver = v.ver + 1
                              /\ c \in Large => (w.conn \/ LargeDisc)}]]
=============================================================================
