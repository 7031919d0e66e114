---------------------------- MODULE GuestMachine ----------------------------
(***************************************************************************)
(* What emulating a guest binary means, without any of the machinery that  *)
(* does it: at every step the instruction at the program counter is run.   *)
(* ChainExec is shown to implement this specification.                     *)
(***************************************************************************)
EXTENDS GuestCode

VARIABLES
  bin,      \* the binary
  g,        \* the guest state: program counter and return addresses
  status    \* "running", "done" (the guest has returned), "stopped" (by a callback)
            \* or "aborted"

vars == <<bin, g, status>>

Init ==
  /\ g = Goto(bin.funcs[1].addr, <<>>)
  /\ status = "running"

\* the instruction at the program counter is run, by its handler or by a callback
\* that reports it as processed
Step ==
  /\ status = "running"
  /\ \E insn \in InsnAt(bin, g.pc) : g' \in Successors(insn, g)
  /\ UNCHANGED <<bin, status>>

\* the entry function has returned, or a lone snippet has run off its end
Finish ==
  /\ status = "running"
  /\ \/ g.pc = retaddr
     \/ Len(bin.funcs) = 1 /\ g.pc = bin.funcs[1].end
  /\ status' = "done"
  /\ UNCHANGED <<bin, g>>

\* a callback asked for the end of the emulation before the instruction at pc
UserStop ==
  /\ status = "running"
  /\ InsnAt(bin, g.pc) # {}
  /\ status' = "stopped"
  /\ UNCHANGED <<bin, g>>

\* there is nothing to run at pc, or only an instruction the lifter gave up on,
\* or an x86 trap has just been run
Abort ==
  /\ status = "running"
  /\ \/ \A insn \in InsnAt(bin, g.pc) : ~insn.lifted
     \/ /\ bin.arch = "X86_64"
        /\ \E f \in ToSet(bin.funcs) : \E k \in DOMAIN f.insns :
             /\ f.insns[k].type = "TRAP"
             /\ f.addr + f.insns[k].fnoff + f.insns[k].oplen = g.pc
  /\ status' = "aborted"
  /\ UNCHANGED <<bin, g>>

Next == Step \/ Finish \/ UserStop \/ Abort

Spec == Init /\ [][Next]_vars
============================================================================
