----------------------------- MODULE MCDebugger -----------------------------
(***************************************************************************)
(* One or two native threads, two guest addresses.                         *)
(***************************************************************************)
EXTENDS Debugger

CONSTANTS n1, n2, a1, a2
============================================================================
