----------------------------- MODULE MCDiodeIoc -----------------------------
(* Instances of DiodeIoc for TLC. *)
EXTENDS DiodeIoc, TLC

CONSTANTS A, AB,    \* two records; the name of the one begins the other's
          hihi, prec, d1, d2, bad, s1, s2, major,
          ManyAlarms   \* the alarm may change without the time stamp

(* A with two fields, then AB; and AB before A. *)
ShortFirst == <<[base |-> A, field |-> None], [base |-> A, field |-> hihi],
                [base |-> A, field |-> prec], [base |-> AB, field |-> None]>>
LongFirst == <<[base |-> AB, field |-> None], [base |-> A, field |-> None],
               [base |-> A, field |-> hihi]>>

Database == <<AB, A>>
OnlyHihi == [r \in Record |-> {hihi}]   \* of a type without PREC
CixShort == (A :> 0) @@ (AB :> 3)
CixLong == (A :> 1) @@ (AB :> 0)
NoCix == [r \in Record |-> None]
BeginsWith == (A :> {A, AB}) @@ (AB :> {AB})
NotBad == [r \in Record |-> [f \in Field \cup {None} |-> Data \ {bad}]]
AlarmAt == [s \in Stamp |-> IF ManyAlarms THEN {NoAlarm, major}
                            ELSE IF s = s1 THEN {NoAlarm} ELSE {major}]
=============================================================================
