----------------------------- MODULE ChainExec -----------------------------
(***************************************************************************)
(* One thread executing the chain of handlers of an encoded binary: the    *)
(* entry made by BinaryEngineImpl::startVM (src/BinaryEngine.cpp), the     *)
(* threaded dispatch from slot to slot, and the host side of every event   *)
(* and interpreter slot (src/Event.cpp).  Lookups go straight to           *)
(* findBlocks; that the caches in front of it change nothing is the        *)
(* subject of module Orchestrator.                                         *)
(***************************************************************************)
EXTENDS BasicBlocks, GuestCode

CONSTANTS
  Binaries,    \* the binaries
  Configs      \* the event configurations

VARIABLES
  bin,         \* the binary being executed
  cfg,         \* its EventConfig
  blocks,      \* the BasicBlocks encode made of it
  g,           \* guest program counter and return addresses
  ip,          \* the slot about to be executed
  status,      \* "running", "done" or "aborted"
  told,        \* history: the last event raised and the callbacks' answer
  announced    \* history: the pc of the last InsnBefore event

vars == <<bin, cfg, blocks, g, ip, status, told, announced>>

\* BinaryEngineImpl::handleEvent: the first answer that is not Continue, which
\* any of the registered callbacks may give
EventResults == {"Continue", "Processed", "Terminate"}

Answer(event, result) == [event |-> event, result |-> result]

NoAnswer == Answer("none", "Continue")

Slot == blocks.rthandlers[ip]

\* startVM: the entry is the first function, found like any other address
Init ==
  /\ bin \in Binaries
  /\ cfg \in Configs
  /\ blocks = encode(bin, 0, cfg)
  /\ g = Goto(bin.funcs[1].addr, <<>>)
  /\ ip = findBlocks(blocks, bin.funcs[1].addr)
  /\ status = "running"
  /\ told = NoAnswer
  /\ announced = -1

At(handlers) ==
  /\ status = "running"
  /\ ip \in DOMAIN blocks.rthandlers
  /\ Slot.handler \in handlers

\* the next slot of the chain
Forward(n) == ip' = ip + n

\* Orchestrator::find on the program counter; its miss is terminate_execution
Lookup ==
  LET found == findBlocks(blocks, g.pc)
  IN IF found = NoSlot
     THEN status' = "aborted" /\ UNCHANGED ip
     ELSE ip' = found /\ UNCHANGED status

\* the handler of the instruction itself: the guest moves, the chain goes on
RunInsn ==
  /\ At({"real"})
  /\ \E insn \in InsnAt(bin, Slot.at) : g' \in Successors(insn, g)
  /\ Forward(1)
  /\ UNCHANGED <<bin, cfg, blocks, status, told, announced>>

\* host_event_func_before and the others that ignore the answer
NotifyEvent ==
  /\ At({"event_func_before", "event_func_after", "event_block_before",
         "event_block_after", "event_insn_after"})
  /\ \E r \in EventResults : told' = Answer(Slot.handler, r)
  /\ Forward(1)
  /\ UNCHANGED <<bin, cfg, blocks, g, status, announced>>

\* host_event_debugging: the debugger may hold the thread, then it goes on
DebugEvent ==
  /\ At({"event_debugging"})
  /\ Forward(1)
  /\ UNCHANGED <<bin, cfg, blocks, g, status, told, announced>>

(***************************************************************************)
(* host_event_insn_before.  A callback that answers Processed has done the *)
(* instruction's work itself, program counter included.                    *)
(***************************************************************************)
InsnBefore(r) ==
  /\ At({"event_insn_before"})
  /\ announced' = g.pc
  /\ told' = Answer(Slot.handler, r)
  /\ \/ /\ r = "Continue"
        /\ Forward(1)
        /\ UNCHANGED <<g, status>>
     \/ /\ r = "Processed"
        /\ \E insn \in InsnAt(bin, g.pc) : g' \in Successors(insn, g)
        /\ Forward(2)
        /\ UNCHANGED status
     \/ /\ r = "Terminate"
        /\ status' = "done"
        /\ UNCHANGED <<g, ip>>
  /\ UNCHANGED <<bin, cfg, blocks>>

\* host_syscall_interpret: no answer of the callbacks stops the chain; unless the
\* first one is Processed, the host call is made and reported as well
Syscall ==
  /\ At({"syscall_interpret"})
  /\ \/ told' = Answer("SyscallBefore", "Processed")
     \/ \E r \in EventResults : told' = Answer("SyscallAfter", r)
  /\ Forward(1)
  /\ UNCHANGED <<bin, cfg, blocks, g, status, announced>>

\* host_interrupt_interpret and host_terminate_execution
Abort ==
  /\ At({"interrupt_interpret", "terminate_execution"})
  /\ status' = "aborted"
  /\ UNCHANGED <<bin, cfg, blocks, g, ip, told, announced>>

\* host_jump_interpret, host_call_interpret
Branch ==
  /\ At({"jump_interpret", "call_interpret"})
  /\ Lookup
  /\ UNCHANGED <<bin, cfg, blocks, g, told, announced>>

\* a finish_function that takes every return for the end of the emulation
FinishFunction_Always ==
  /\ At({"finish_function"})
  /\ status' = "done"
  /\ UNCHANGED <<bin, cfg, blocks, g, ip, told, announced>>

\* host_finish_function
FinishFunction ==
  /\ At({"finish_function"})
  /\ IF g.pc = retaddr THEN status' = "done" /\ UNCHANGED ip ELSE Lookup
  /\ UNCHANGED <<bin, cfg, blocks, g, told, announced>>

\* host_finish_emulation
FinishEmulation ==
  /\ At({"finish_emulation"})
  /\ status' = "done"
  /\ UNCHANGED <<bin, cfg, blocks, g, ip, told, announced>>

Next ==
  \/ RunInsn \/ NotifyEvent \/ DebugEvent
  \/ \E r \in EventResults : InsnBefore(r)
  \/ Syscall \/ Abort \/ Branch \/ FinishFunction \/ FinishEmulation

Spec == Init /\ [][Next]_vars

----------------------------------------------------------------------------
\* The type of the state: the chain pointer never leaves the chain while running.
TypeOK ==
  /\ g.pc \in Int
  /\ status \in {"running", "done", "aborted"}
  /\ status = "running" => ip \in DOMAIN blocks.rthandlers
  /\ told.result \in EventResults

\* the slots of instructions, lifted or not
Handlers == {"real", "terminate_execution"}

\* The handler about to run belongs to the instruction at the guest's program
\* counter: threaded dispatch and lookups never get out of step with the guest.
HandlerAtPc == At(Handlers) => Slot.at = g.pc

\* With instruction events on, no instruction runs that the callbacks were not
\* asked about first: its own InsnBefore is the last one raised.
EveryInsnAnnounced ==
  At(Handlers) /\ cfg.insn => announced = g.pc

\* Executing the chain implements running the guest instruction by instruction; an
\* emulation is stopped if a callback has just answered Terminate to InsnBefore.
Guest == INSTANCE GuestMachine WITH
  status <- IF status = "done" /\ told = Answer("event_insn_before", "Terminate")
            THEN "stopped" ELSE status

\* The chain of handlers does what the guest binary says, step for step.
ImplementsGuest == Guest!Spec
============================================================================
