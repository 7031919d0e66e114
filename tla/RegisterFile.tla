---------------------------- MODULE RegisterFile ----------------------------
(***************************************************************************)
(* What the register interface of a guest thread promises: one file of     *)
(* architectural registers, whichever of its routes (the engine's API, the *)
(* debugger, the lifted code) a request comes in by.  A register holds     *)
(* parts, bytes 0-3, 4-7, 8-9 and 10-15, and, if it is the flags register, *)
(* the named flags.  A write replaces what it gives and nothing else.      *)
(***************************************************************************)
EXTENDS Naturals, Sequences, TLC

VARIABLES
  file,   \* architectural register -> [bits, parts]
  op      \* the last request: [kind, reg, val]

\* What a register holds after a write that may give less, or more, than its width.
Overlay(old, new) ==
  [bits  |-> new.bits @@ old.bits,
   parts |-> [i \in DOMAIN old.parts |-> IF i \in DOMAIN new.parts THEN new.parts[i] ELSE old.parts[i]]]

Holds(value, val) ==
  /\ \A f \in DOMAIN val.bits : value.bits[f] = val.bits[f]
  /\ val.parts = SubSeq(value.parts, 1, Len(val.parts))

Init == op = [kind |-> "none"]

Write ==
  /\ op'.kind = "write"
  /\ file' = [file EXCEPT ![op'.reg] = Overlay(@, op'.val)]

Read ==
  /\ op'.kind = "read"
  /\ Holds(file[op'.reg], op'.val)
  /\ UNCHANGED file

Spec == Init /\ [][Write \/ Read]_<<file, op>>
=============================================================================
