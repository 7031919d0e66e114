----------------------------- MODULE GuestCode -----------------------------
(***************************************************************************)
(* Guest instructions: where they are in a binary (see BasicBlocks for the *)
(* shape of one) and what running one does to the program counter and to   *)
(* the return addresses.  The handlers themselves are lifted by remill and *)
(* compiled by LLVM; only their effect on the control state is kept.       *)
(***************************************************************************)
EXTENDS Integers, SequencesExt

CONSTANTS
  retaddr,    \* the address startVM returns to: reaching it ends the run
  MaxDepth    \* bound on nested calls

\* the instructions that begin at guest address a: one or none
InsnAt(bin, a) ==
  UNION { {f.insns[k] : k \in {j \in DOMAIN f.insns : f.addr + f.insns[j].fnoff = a}}
          : f \in ToSet(bin.funcs) }

\* a guest state: the program counter and the pending return addresses
Goto(pc, stack) == [pc |-> pc, stack |-> stack]

\* the states an instruction at g.pc may lead to
Successors(insn, g) ==
  LET next  == g.pc + insn.oplen
      taken == {g.pc + d : d \in insn.rels}
  IN CASE insn.type = "JCOND" -> {Goto(p, g.stack) : p \in taken \cup {next}}
       [] insn.type = "JUMP"  -> {Goto(p, g.stack) : p \in taken}
       [] insn.type = "CALL"  -> IF Len(g.stack) < MaxDepth
                                 THEN {Goto(p, Append(g.stack, next)) : p \in taken}
                                 ELSE {}
       [] insn.type = "RET"   -> IF g.stack = <<>>
                                 THEN {Goto(retaddr, <<>>)}
                                 ELSE {Goto(Last(g.stack), Front(g.stack))}
       [] OTHER               -> {Goto(next, g.stack)}
============================================================================
