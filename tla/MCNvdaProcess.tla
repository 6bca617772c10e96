---------------------------- MODULE MCNvdaProcess -----------------------------
(* NvdaProcess with four processes (one that an earlier session left, the      *)
(* first of this one, its replacement and one the harness starts after losing  *)
(* track of that) and two ports, so that a port is used again.                 *)
EXTENDS NvdaProcess

===============================================================================
