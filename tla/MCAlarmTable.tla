---------------------------- MODULE MCAlarmTable ----------------------------
(* Small instances of AlarmTable for TLC.                                   *)
EXTENDS AlarmTable, TLC

CONSTANTS a1, a2, a3, a4

MCAlarms == {a1, a2, a3, a4}
MCSymmetry == Permutations(MCAlarms)
=============================================================================
