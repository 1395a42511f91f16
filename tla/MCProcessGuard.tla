--------------------------- MODULE MCProcessGuard ---------------------------
(* The supervisors with a leader and two other process identifiers: enough   *)
(* for a child that detaches, a second child, and a stranger that is given   *)
(* the identifier of a process that is gone.                                 *)
EXTENDS ProcessGuard
=============================================================================
