----------------------------- MODULE MCPrograms ------------------------------
(* An instance of Programs for TLC.  A file that declares two channels,    *)
(* each with a field, takes 17 events.                                     *)
EXTENDS Programs

CONSTANTS a, b, h

MCDest == 1 .. 2
==============================================================================
