----------------------------- MODULE MCCalendar -----------------------------
(* A calendar in a zone west of Greenwich whose clocks go forward.         *)
EXTENDS LoopCalendar

MCBefore == -2
MCAfter == -1
=============================================================================
