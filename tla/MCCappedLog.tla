----------------------------- MODULE MCCappedLog ------------------------------
(* CappedLog with two items, room for two entries and up to four appends       *)
(* between clears: the log overflows twice, and marks, clears and stale        *)
(* indices meet every fill level.                                              *)
EXTENDS CappedLog

===============================================================================
