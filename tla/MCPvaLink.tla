----------------------------- MODULE MCPvaLink ------------------------------
(* Instances of PvaLink for TLC. *)
EXTENDS PvaLink

CONSTANTS t0, t1, t2,  \* types; t0 is built in
          NumChan, NumFields,
          First, Second,   \* channels of the types t1 and t2, which are not
          AllMarked,   \* whether the first event of a source has all fields
          FirstChanges, OtherChanges   \* MaxChange of channel 0 and the others

MCChan == 0 .. NumChan - 1
MCField == 1 .. NumFields
MCMaxChange == [c \in MCChan |-> IF c = 0 THEN FirstChanges ELSE OtherChanges]
MCData == 0 .. FirstChanges + OtherChanges
MCBuiltin == <<t0>>
MCTypesOf == [c \in MCChan |-> IF c \in First THEN {t1} ELSE IF c \in Second THEN {t2} ELSE {t0}]
MCFirstMarked == IF AllMarked THEN {MCField} ELSE SUBSET MCField \ {{}}
MCTypeBytes == [t \in Type |-> 16]
=============================================================================
