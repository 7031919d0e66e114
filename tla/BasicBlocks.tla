---------------------------- MODULE BasicBlocks ----------------------------
(***************************************************************************)
(* How a binary becomes a chain of handlers, and how an address is found   *)
(* in it again: Orchestrator::encode, BasicBlocks::convert and             *)
(* Orchestrator::findBlocks (src/Orchestrator.cpp), with binary_search     *)
(* (include/Utils.h).  Everything here is a pure function; the modules     *)
(* Orchestrator and ChainExec add the state around it.                     *)
(*                                                                         *)
(* A binary is a record                                                    *)
(*   arch  : "ARM64" or "X86_64"                                           *)
(*   funcs : the functions in address order, each                          *)
(*           [addr, end, insns], and each instruction                      *)
(*           [fnoff, oplen, type, comins, lifted, rels]:                   *)
(*           its offset in the function, its length, its InsnType, whether *)
(*           another instruction refers to it, whether the lifter produced *)
(*           a handler for its opcode, and the set of displacements it may *)
(*           branch by (one for a direct branch).                          *)
(* An event configuration is a record of the bits func, block, insn, debug *)
(* and syscall of EventConfig.                                             *)
(*                                                                         *)
(* An Instruction of the chain (a slot) is a packed word in the code: the  *)
(* handler, the event flag and the opcode length.  The field at is not in  *)
(* the code: it is the guest address whose handler a real slot holds.      *)
(***************************************************************************)
EXTENDS Integers, SequencesExt

EventSlot(name) == [handler |-> name, event |-> TRUE, oplen |-> 0, at |-> -1]

RealSlot(insn, vmaddr) ==
  [handler |-> IF insn.lifted THEN "real" ELSE "terminate_execution",
   event   |-> FALSE, oplen |-> insn.oplen, at |-> vmaddr]

\* do_setup_event: the slot of an optional event, present if its bit is set
SetupEvent(bit, name) == IF bit THEN <<EventSlot(name)>> ELSE <<>>

\* push_back on the handlers of the current block
AddSlots(acc, slots) ==
  [acc EXCEPT !.handlers[Len(acc.handlers)] = @ \o slots]

NewBlock(acc, vmaddr, slots) ==
  [acc EXCEPT !.vmaddrs  = Append(@, vmaddr),
              !.handlers = Append(@, slots),
              !.newbb    = FALSE]

EndsBlock(type) == type \in {"JCOND", "JUMP", "CALL", "RET"}

\* an encoder that announces only the instructions that do not branch
InsnSlots_NotBranches(bin, insn, vmaddr, cfg) ==
  LET before == SetupEvent(cfg.insn /\ ~EndsBlock(insn.type), "event_insn_before")
                  \o SetupEvent(cfg.debug, "event_debugging")
      after  == CASE insn.type = "SYSCALL" ->
                       SetupEvent(bin.arch = "ARM64", "syscall_interpret")
                  [] insn.type = "TRAP" ->
                       SetupEvent(bin.arch = "X86_64", "interrupt_interpret")
                  [] OTHER -> SetupEvent(cfg.insn, "event_insn_after")
      leave  == CASE insn.type \in {"JCOND", "JUMP"} -> <<EventSlot("jump_interpret")>>
                  [] insn.type = "CALL" -> <<EventSlot("call_interpret")>>
                  [] insn.type = "RET" ->
                       SetupEvent(cfg.func, "event_func_after")
                         \o <<EventSlot("finish_function")>>
                  [] OTHER -> <<>>
  IN before \o <<RealSlot(insn, vmaddr)>> \o after \o leave

\* the slots of one instruction: what comes before it, its handler, what follows
InsnSlots(bin, insn, vmaddr, cfg) ==
  LET before == SetupEvent(cfg.insn, "event_insn_before")
                  \o SetupEvent(cfg.debug, "event_debugging")
      after  == CASE insn.type = "SYSCALL" ->
                       SetupEvent(bin.arch = "ARM64", "syscall_interpret")
                  [] insn.type = "TRAP" ->
                       SetupEvent(bin.arch = "X86_64", "interrupt_interpret")
                  [] OTHER -> SetupEvent(cfg.insn, "event_insn_after")
      leave  == CASE insn.type \in {"JCOND", "JUMP"} -> <<EventSlot("jump_interpret")>>
                  [] insn.type = "CALL" -> <<EventSlot("call_interpret")>>
                  [] insn.type = "RET" ->
                       SetupEvent(cfg.func, "event_func_after")
                         \o <<EventSlot("finish_function")>>
                  [] OTHER -> <<>>
  IN before \o <<RealSlot(insn, vmaddr)>> \o after \o leave

\* an encoder that starts a new block only where another instruction refers to
EncodeInsn_NoBlockAfterBranch(bin, addend, cfg, acc, func, k) ==
  LET insn   == func.insns[k]
      vmaddr == func.addr + insn.fnoff + addend
      starts == k # 1 /\ insn.comins
      acc1   == IF starts
                THEN NewBlock(AddSlots(acc, SetupEvent(cfg.block, "event_block_after")),
                              vmaddr, SetupEvent(cfg.block, "event_block_before"))
                ELSE acc
  IN [AddSlots(acc1, InsnSlots(bin, insn, vmaddr, cfg))
        EXCEPT !.newbb = EndsBlock(insn.type)]

\* one round of encode's inner loop: instruction k of func
EncodeInsn(bin, addend, cfg, acc, func, k) ==
  LET insn   == func.insns[k]
      vmaddr == func.addr + insn.fnoff + addend
      starts == k # 1 /\ (insn.comins \/ acc.newbb)
      acc1   == IF starts
                THEN NewBlock(AddSlots(acc, SetupEvent(cfg.block, "event_block_after")),
                              vmaddr, SetupEvent(cfg.block, "event_block_before"))
                ELSE acc
  IN [AddSlots(acc1, InsnSlots(bin, insn, vmaddr, cfg))
        EXCEPT !.newbb = EndsBlock(insn.type)]

EncodeFunc(bin, addend, cfg, acc, func) ==
  FoldLeftDomain(LAMBDA a, k : EncodeInsn(bin, addend, cfg, a, func, k),
                 NewBlock(acc, func.addr + addend,
                          SetupEvent(cfg.func, "event_func_before")
                            \o SetupEvent(cfg.block, "event_block_before")),
                 func.insns)

\* BasicBlocks::convert: the blocks become one sequence, and bbhandlers keeps
\* where each of them begins and ends in it
convert(acc, maxaddr) ==
  LET lens     == [b \in DOMAIN acc.handlers |-> Len(acc.handlers[b])]
      ends     == [b \in DOMAIN lens |-> FoldLeft(+, 0, SubSeq(lens, 1, b))]
  IN [vmaddrs    |-> acc.vmaddrs,
      maxaddr    |-> maxaddr,
      bbhandlers |-> [b \in DOMAIN lens |-> [first |-> ends[b] - lens[b] + 1,
                                             last  |-> ends[b]]],
      rthandlers |-> FlattenSeq(acc.handlers)]

\* an encoder that adds no end to a snippet
encode_NoEnd(bin, addend, cfg) ==
  LET acc == FoldLeft(LAMBDA a, f : EncodeFunc(bin, addend, cfg, a, f),
                      [vmaddrs |-> <<>>, handlers |-> <<>>, newbb |-> FALSE],
                      bin.funcs)
  IN convert(acc, Last(bin.funcs).end + addend)

encode(bin, addend, cfg) ==
  LET acc   == FoldLeft(LAMBDA a, f : EncodeFunc(bin, addend, cfg, a, f),
                        [vmaddrs |-> <<>>, handlers |-> <<>>, newbb |-> FALSE],
                        bin.funcs)
      final == IF Len(bin.funcs) = 1
               THEN AddSlots(acc, <<EventSlot("finish_emulation")>>)
               ELSE acc
  IN convert(final, Last(bin.funcs).end + addend)

----------------------------------------------------------------------------
\* the branch-free loop of Utils.h; positions are counted from 0 as in the code
binary_search(arr, key) ==
  LET search[base \in 0 .. Len(arr), size \in 0 .. Len(arr)] ==
        IF size > 1
        THEN LET half == size \div 2
             IN search[IF arr[base + half] < key THEN base + half ELSE base, size - half]
        ELSE IF arr[base + 1] < key THEN base + 1 ELSE base
  IN search[0, Len(arr)]

is_exact(found, arr, key) == found # Len(arr) /\ arr[found + 1] = key

\* the value findBlocks returns for "not here"
NoSlot == -1

\* the guest address reached behind slot k of the block of slots bb
EndOf(blocks, start, bb, k) ==
  start + FoldLeft(LAMBDA sum, h : sum + h.oplen, 0, SubSeq(blocks.rthandlers, bb.first, k))

\* the pointer for a hit at slot insn: one back, if that is an event
StepBack(blocks, bb, insn) ==
  IF insn - 1 >= bb.first /\ ~blocks.rthandlers[insn - 1].event THEN insn ELSE insn - 1

\* an address inside a block: the slot at which the lengths add up to it
WalkBlock(blocks, start, bb, vmaddr) ==
  LET hits == {k \in bb.first .. bb.last : EndOf(blocks, start, bb, k) = vmaddr}
  IN IF hits = {} THEN NoSlot ELSE StepBack(blocks, bb, Min(hits))

\* the part of findBlocks that follows the binary search
FindFrom(blocks, found, vmaddr) ==
  IF is_exact(found, blocks.vmaddrs, vmaddr)
  THEN blocks.bbhandlers[found + 1].first
  ELSE LET index == IF found = 0 THEN 1 ELSE found
       IN WalkBlock(blocks, blocks.vmaddrs[index], blocks.bbhandlers[index], vmaddr)

(***************************************************************************)
(* Orchestrator::findBlocks.  A block start gives the first slot of the    *)
(* block.  Any other address is looked for by adding up the lengths of the *)
(* slots of the block before it; the slot at which the sum reaches the     *)
(* address is the instruction that ends there, and the pointer returned is *)
(* the slot before it if that is an event.  The result is an index into    *)
(* rthandlers; 0 is the word before the array.                             *)
(***************************************************************************)
findBlocks(blocks, vmaddr) ==
  IF vmaddr < blocks.vmaddrs[1] \/ vmaddr >= blocks.maxaddr
  THEN NoSlot
  ELSE FindFrom(blocks, binary_search(blocks.vmaddrs, vmaddr), vmaddr)
============================================================================
