---------------------------- MODULE MCTestSession -----------------------------
(* Two tests in a row, for TLC.                                              *)
EXTENDS TestSession
===============================================================================
