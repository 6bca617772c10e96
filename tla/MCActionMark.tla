----------------------------- MODULE MCActionMark ------------------------------
(* Three actions: the second and third have earlier ones to be kept apart from. *)
EXTENDS ActionMark

===============================================================================
