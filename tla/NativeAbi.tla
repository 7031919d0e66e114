------------------------------ MODULE NativeAbi ------------------------------
(***************************************************************************)
(* The machine code that AetherVM writes by hand: the entry of the virtual *)
(* machine, the trampolines that call event handlers, the handlers made    *)
(* for instructions that run natively (Lifter.cpp), and call_host, under   *)
(* the System V and the Windows convention of an X64 host and the AAPCS of *)
(* an ARM64 host.  A thread enters, runs a chain of handlers that jump to  *)
(* one another, and leaves.                                                *)
(*                                                                         *)
(* The machine is symbolic: a register holds a tagged value that says      *)
(* where it came from.  The registers of an ARM64 host are pairs, those of *)
(* an X64 host strings; a vector register of an ARM64 host has a low half  *)
(* "d", which a called function keeps if it is d8-d15, and a high half "h".*)
(***************************************************************************)
EXTENDS Integers, Sequences, SequencesExt, FiniteSets, TLC

CONSTANTS
  Abis,         \* subset of {"SysV", "Win64", "AAPCS"}
  Insns,        \* per convention, instructions: [operands, reads, writes], the operands
                \* as the disassembler gives them, the registers as the processor has them
  MaxHandlers   \* bound on the handlers of a chain

VARIABLES
  abi,
  phase,    \* which code runs
  code,     \* its operations that are still to come
  m,        \* the machine: [regs, stack, file, pc, retaddr]
  want,     \* [file, pc]: the guest registers as they should be
  slot,     \* the chain position that should be executed
  left      \* handlers still to come

vars == <<abi, phase, code, m, want, slot, left>>

Arm == abi = "AAPCS"
Xr(n) == <<"x", n>>
Dr(n) == <<"d", n>>
Hr(n) == <<"h", n>>
SP == IF Arm THEN Xr(31) ELSE "rsp"
Numbered(p, ns) == {<<p, n>> : n \in ns}

\* The X64 registers in the order of the Register enum.
Gprs == <<"rbp", "rsp", "rax", "rbx", "rcx", "rdi", "rdx", "rsi",
          "r8", "r9", "r10", "r11", "r12", "r13", "r14", "r15">>
Xmms == <<"xmm0", "xmm1", "xmm2", "xmm3", "xmm4", "xmm5", "xmm6", "xmm7">>

Registers ==
  [ SysV  |-> Range(Gprs) \cup Range(Xmms),
    Win64 |-> Range(Gprs) \cup Range(Xmms),
    AAPCS |-> Numbered("x", 0 .. 31) \cup Numbered("d", 0 .. 8) \cup Numbered("h", 0 .. 8) ]

\* What a called function keeps, besides the stack pointer.
CalleeSaved ==
  [ SysV  |-> {"rbx", "rbp", "r12", "r13", "r14", "r15"},
    Win64 |-> {"rbx", "rbp", "rdi", "rsi", "r12", "r13", "r14", "r15", "xmm6", "xmm7"},
    AAPCS |-> Numbered("x", 19 .. 29) \cup Numbered("d", 8 .. 8) ]

ArgReg(n) ==
  CASE abi = "SysV" -> <<"rdi", "rsi", "rdx", "rcx", "r8">>[n + 1]
    [] abi = "Win64" -> <<"rcx", "rdx", "r8", "r9">>[n + 1]
    [] OTHER -> Xr(n)

\* The registers of a handler chain: the CPU, the instruction and the next handler.
CpuReg == IF Arm THEN Xr(26) ELSE "r12"
InsnReg == IF Arm THEN Xr(27) ELSE "r13"
HandlerReg == IF Arm THEN Xr(16) ELSE "r10"

Cpu == <<"cpu", 0>>
Insn(k) == <<"insn", k>>
RetSlot == Insn(-1)     \* finish_emulation: &cpu->retaddr as an instruction
Return == <<"ret", 0>>  \* the address after the call of vm_enter
Junk == <<"junk", 0>>

\* Operations.
Mov(from, to) == <<[op |-> "mov", from |-> from, to |-> to]>>
Const(val, to) == <<[op |-> "const", val |-> val, to |-> to]>>
Adjust(by) == <<[op |-> "adjust", by |-> by]>>
St(r, off) == <<[op |-> "st", reg |-> r, off |-> off]>>
Ld(r, off) == <<[op |-> "ld", reg |-> r, off |-> off]>>
Load(r, base) == <<[op |-> "load", reg |-> r, base |-> base]>>
Store(r, base) == <<[op |-> "store", reg |-> r, base |-> base]>>
LdPcPtr(base, r) == <<[op |-> "ldpcptr", base |-> base, reg |-> r]>>
LdPc(base, r) == <<[op |-> "ldpc", base |-> base, reg |-> r]>>
StPc(r, base) == <<[op |-> "stpc", reg |-> r, base |-> base]>>
Add(r, by) == <<[op |-> "add", reg |-> r, by |-> by]>>
StRet(r, base) == <<[op |-> "stret", reg |-> r, base |-> base]>>
Exec(insn) == <<[op |-> "exec", insn |-> insn]>>
Call(f) == <<[op |-> "call", f |-> f]>>
extract_handler == <<[op |-> "handler"]>>
Jmp == <<[op |-> "jmp"]>>
Ret == <<[op |-> "ret"]>>
Push(r) == Adjust(-8) \o St(r, 0)
Pop(r) == Ld(r, 0) \o Adjust(8)
None == <<>>

ForEach(s, f(_)) == FlattenSeq([i \in DOMAIN s |-> f(s[i])])

\* parse_regused: the registers of an instruction's operands, in the order of the enum.
\* Of the names of a register's parts, some of each width stand for all.
SubRegisters ==
  [rax |-> {"eax", "ax", "al", "ah"}, rbx |-> {"ebx", "bl"}, rcx |-> {"ecx", "cl"},
   rsp |-> {"esp", "spl"}, rbp |-> {"ebp", "bpl"}, rdi |-> {"edi", "dil"}, rsi |-> {"esi"},
   r12 |-> {"r12d", "r12b"}, r13 |-> {"r13d"}]

canonicalize(name) ==
  IF \E r \in DOMAIN SubRegisters : name \in SubRegisters[r]
  THEN CHOOSE r \in DOMAIN SubRegisters : name \in SubRegisters[r]
  ELSE name

VectorOf == [xmm0 |-> "xmm0", ymm0 |-> "xmm0", xmm6 |-> "xmm6", ymm6 |-> "xmm6", zmm6 |-> "xmm6"]

parse_regused_x86(names) ==
  LET used == {IF n \in DOMAIN VectorOf THEN VectorOf[n] ELSE canonicalize(n) : n \in names}
  IN SelectSeq(Gprs \o Xmms, LAMBDA r : r \in used)

\* An AArch64 operand is [class, index, count]: a register, a pair "ww" or "xx" of them,
\* or a tuple of consecutive vector registers.  LLVM numbers its pairs and tuples one by
\* one: there is a tuple for every first register, but a pair only for every even one, so
\* that the pair that begins with register 2k has number k, which is taken for a register.
LastPair == [ww |-> 28, xx |-> 26]

OperandRegs(o) ==
  IF o.class \in DOMAIN LastPair
  THEN {n \in {o.index \div 2, o.index \div 2 + 1} : o.index <= LastPair[o.class]}
  ELSE o.index .. o.index + o.count - 1

parse_regused_aarch64(operands) ==
  LET of(classes) == UNION {OperandRegs(o) : o \in {p \in operands : p.class \in classes}}
      xregs == of({"w", "x", "ww", "xx"})
      qregs == of({"b", "h", "s", "d", "q", "z"})
  IN SelectSeq([i \in 1 .. 32 |-> Xr(i - 1)], LAMBDA r : r[2] \in xregs)
     \o SelectSeq([i \in 1 .. 9 |-> <<"q", i - 1>>], LAMBDA r : r[2] \in qregs)

regused(insn) ==
  IF Arm THEN parse_regused_aarch64(insn.operands) ELSE parse_regused_x86(insn.operands)

\* only the low half
Halves_Low(r) == IF Arm /\ r[1] = "q" THEN <<Dr(r[2])>> ELSE <<r>>

\* Both halves of a vector register are moved between the guest's state and the host.
Halves(r) == IF Arm /\ r[1] = "q" THEN <<Dr(r[2]), Hr(r[2])>> ELSE <<r>>
LoadGuest(used, base) == ForEach(used, LAMBDA r : ForEach(Halves(r), LAMBDA h : Load(h, base)))
StoreGuest(used, base) == ForEach(used, LAMBDA r : ForEach(Halves(r), LAMBDA h : Store(h, base)))

nativeHandlerAArch64(insn) ==
  LET used == regused(insn)
      saved(r) == CASE r[1] = "x" /\ r[2] \in 19 .. 30 -> <<r>>
                    [] r[1] = "q" /\ r[2] \in 8 .. 15 -> <<Dr(r[2])>>
                    [] OTHER -> None
      gprs == SelectSeq(used, LAMBDA r : r[1] = "q" \/ r[2] <= 30)
      free == {n \in 0 .. 30 : Xr(n) \notin Range(used)}
      regcpu == Xr(IF 26 \in free THEN 26 ELSE CHOOSE n \in free : \A k \in free : n <= k)
  IN ForEach(used, LAMBDA r : ForEach(saved(r), LAMBDA h : Adjust(-16) \o St(h, 0)))
     \o (IF regcpu # CpuReg THEN Mov(CpuReg, regcpu) ELSE None)
     \o LoadGuest(gprs, regcpu) \o Exec(insn) \o StoreGuest(gprs, regcpu)
     \o (IF regcpu # CpuReg THEN Mov(regcpu, CpuReg) ELSE None)
     \o ForEach(Reverse(used), LAMBDA r : ForEach(saved(r), LAMBDA h : Ld(h, 0) \o Adjust(16)))
     \o Mov(CpuReg, Xr(0)) \o LdPcPtr(Xr(0), Xr(1)) \o LdPc(Xr(1), Xr(2)) \o Add(Xr(2), 1)
     \o StPc(Xr(2), Xr(1)) \o Mov(Xr(2), Xr(1))
     \o Add(InsnReg, 1) \o Mov(InsnReg, Xr(2)) \o extract_handler \o Jmp

\* the candidates of the other convention
kCpuCandidates_SysV == <<"rax", "rcx", "rdx", "rsi", "rdi", "r8", "r9", "r10", "r11">>

kCpuCandidates ==
  IF abi = "Win64" THEN <<"rax", "rcx", "rdx", "r8", "r9", "r10", "r11">>
  ELSE <<"rax", "rcx", "rdx", "rsi", "rdi", "r8", "r9", "r10", "r11">>

nativeHandlerX64(insn) ==
  LET used == regused(insn)
      kept == CalleeSaved[abi] \cap Range(used)
      gprs == SelectSeq(used, LAMBDA r : r \in kept \cap Range(Gprs))
      xmms == SelectSeq(used, LAMBDA r : r \in kept \cap Range(Xmms))
      free == SelectSeq(kCpuCandidates, LAMBDA r : r \notin Range(used))
      regcpu == IF "r12" \in Range(used) THEN free[1] ELSE "r12"
      regrsp == IF "rsp" \notin Range(used) THEN "rsp"
                ELSE IF regcpu = "r12" THEN free[1] ELSE free[2]
  IN ForEach(gprs, Push) \o ForEach(xmms, LAMBDA r : Adjust(-16) \o St(r, 0))
     \o (IF regcpu # "r12" THEN Mov("r12", regcpu) ELSE None)
     \o (IF regrsp # "rsp" THEN Mov("rsp", regrsp) ELSE None)
     \o LoadGuest(used, regcpu) \o Exec(insn) \o StoreGuest(used, regcpu)
     \o (IF regcpu # "r12" THEN Mov(regcpu, "r12") ELSE None)
     \o (IF regrsp # "rsp" THEN Mov(regrsp, "rsp") ELSE None)
     \o ForEach(Reverse(xmms), LAMBDA r : Ld(r, 0) \o Adjust(16)) \o ForEach(Reverse(gprs), Pop)
     \o Mov("r12", "rax") \o LdPcPtr("rax", "rcx") \o LdPc("rcx", "rdx") \o Add("rdx", 1)
     \o StPc("rdx", "rcx") \o Mov("rax", ArgReg(0)) \o Mov("rdx", ArgReg(1))
     \o Add("r13", 1) \o Mov("r13", ArgReg(2)) \o extract_handler \o Jmp

\* a trampoline that does not read the PC again after the call
EventTrampoline_StalePc(f) ==
  (CASE Arm -> None [] abi = "Win64" -> Adjust(-40) [] OTHER -> Push("rbp"))
  \o Mov(CpuReg, ArgReg(0)) \o Const(<<"pc", 0>>, ArgReg(1)) \o Mov(InsnReg, ArgReg(2)) \o Call(f)
  \o Mov(IF Arm THEN Xr(0) ELSE "rax", InsnReg) \o Mov(CpuReg, ArgReg(0))
  \o Mov(InsnReg, ArgReg(2)) \o extract_handler
  \o (CASE Arm -> None [] abi = "Win64" -> Adjust(40) [] OTHER -> Pop("rbp"))
  \o Jmp

\* IMPL_EVENT_VM: the host's handler returns the next instruction.
EventTrampoline(f) ==
  (CASE Arm -> None [] abi = "Win64" -> Adjust(-40) [] OTHER -> Push("rbp"))
  \o Mov(CpuReg, ArgReg(0)) \o Const(<<"pc", 0>>, ArgReg(1)) \o Mov(InsnReg, ArgReg(2)) \o Call(f)
  \o Mov(IF Arm THEN Xr(0) ELSE "rax", InsnReg) \o Mov(CpuReg, ArgReg(0))
  \o LdPcPtr(CpuReg, ArgReg(1)) \o LdPc(ArgReg(1), ArgReg(1)) \o Mov(InsnReg, ArgReg(2))
  \o extract_handler
  \o (CASE Arm -> None [] abi = "Win64" -> Adjust(40) [] OTHER -> Pop("rbp"))
  \o Jmp

Shadow(by) == IF abi = "Win64" THEN Adjust(by) ELSE None

\* AETHER_VM_ENTRY up to the first handler, vm_enter included, and what follows the call.
EnterX64 ==
  (IF abi = "Win64" THEN Ld("rax", 40) ELSE Mov("r8", "rax"))
  \o Push("rbp") \o Push("r12") \o Push("r13") \o Mov(ArgReg(0), "r12") \o Mov(ArgReg(2), "r13")
  \o Push(ArgReg(1)) \o Push(ArgReg(3)) \o Shadow(-32) \o Call("retaddr") \o Shadow(32)
  \o Pop(ArgReg(3)) \o Pop(ArgReg(1)) \o Mov("r12", ArgReg(0)) \o Mov("r13", ArgReg(2)) \o Shadow(-32)
  \o Const(Return, "r10") \o Push("r10") \o Ld("r10", 0) \o StRet("r10", ArgReg(3)) \o StRet("r10", "rax")
  \o extract_handler \o Jmp

LeaveX64 == Adjust(8) \o Shadow(32) \o Pop("r13") \o Pop("r12") \o Pop("rbp") \o Ret

EnterAArch64 ==
  Adjust(-48) \o St(Xr(26), 16) \o St(Xr(27), 24) \o St(Xr(29), 32) \o St(Xr(30), 40)
  \o Mov(Xr(31), Xr(29)) \o Mov(Xr(0), Xr(26)) \o Mov(Xr(2), Xr(27)) \o St(Xr(1), 0) \o St(Xr(3), 8)
  \o Call("retaddr") \o Mov(Xr(0), Xr(4)) \o Mov(Xr(26), Xr(0)) \o Mov(Xr(27), Xr(2))
  \o Ld(Xr(1), 0) \o Ld(Xr(3), 8)
  \o Const(Return, Xr(30)) \o StRet(Xr(30), Xr(3)) \o StRet(Xr(30), Xr(4)) \o extract_handler \o Jmp

LeaveAArch64 ==
  Ld(Xr(29), 32) \o Ld(Xr(30), 40) \o Ld(Xr(26), 16) \o Ld(Xr(27), 24) \o Adjust(48) \o Ret

\* The host function of call_host, as an instruction: its arguments and its results.
HostFunction ==
  [ reads  |-> Numbered("x", 0 .. 8) \cup {Xr(31)} \cup Numbered("d", 0 .. 7) \cup Numbered("h", 0 .. 7),
    writes |-> Numbered("x", 0 .. 1) \cup Numbered("d", 0 .. 3) \cup Numbered("h", 0 .. 3) ]

Vectors(n) == [i \in 1 .. n |-> <<"q", i - 1>>]

CallHost ==
  Adjust(-48) \o St(Xr(19), 0) \o St(Xr(20), 8) \o St(Xr(21), 16) \o St(Xr(29), 32) \o St(Xr(30), 40)
  \o Mov(Xr(0), Xr(19)) \o Mov(Xr(1), Xr(20)) \o Mov(Xr(31), Xr(21)) \o Mov(Xr(2), Xr(16))
  \o LoadGuest(Vectors(8), Xr(20)) \o LoadGuest([i \in 1 .. 9 |-> Xr(i - 1)], Xr(19))
  \o <<[op |-> "loadsp", reg |-> Xr(9), base |-> Xr(19)]>> \o Mov(Xr(9), Xr(31))
  \o Exec(HostFunction) \o Mov(Xr(21), Xr(31))
  \o StoreGuest(Vectors(4), Xr(20)) \o StoreGuest(<<Xr(0), Xr(1)>>, Xr(19))
  \o Ld(Xr(29), 32) \o Ld(Xr(30), 40) \o Ld(Xr(21), 16) \o Ld(Xr(19), 0) \o Ld(Xr(20), 8)
  \o Adjust(48) \o Ret

Sp == m.regs[SP][2]
Set(r, v) == [m EXCEPT !.regs[r] = v]
At(addr) == IF addr \in DOMAIN m.stack THEN m.stack[addr] ELSE Junk
Above(addr) == [a \in {b \in DOMAIN m.stack : b >= addr} |-> m.stack[a]]

\* The registers and the part of the stack that a called function may use are lost.
Clobbered ==
  [m EXCEPT !.regs = [r \in DOMAIN @ |-> IF r \in CalleeSaved[abi] \cup {SP} THEN @[r] ELSE Junk],
            !.stack = [a \in DOMAIN @ |-> IF abi = "Win64" /\ a < Sp + 32 THEN Junk ELSE @[a]]]

\* What the instruction makes of the registers, of the host and as the guest should see it.
Result(insn, old) ==
  [r \in DOMAIN old |-> IF r \in insn.writes THEN <<"new", left>> ELSE old[r]]

\* The machine after an operation.
Step(o) ==
  CASE o.op = "mov" -> Set(o.to, m.regs[o.from])
    [] o.op = "const" -> Set(o.to, o.val)
    [] o.op = "adjust" -> [Set(SP, <<"sp", Sp + o.by>>) EXCEPT !.stack = Above(Sp + o.by)]
    [] o.op = "st" -> [m EXCEPT !.stack = ((Sp + o.off) :> m.regs[o.reg]) @@ @]
    [] o.op = "ld" -> Set(o.reg, At(Sp + o.off))
    [] o.op = "load" -> Set(o.reg, IF m.regs[o.base] = Cpu THEN m.file[o.reg] ELSE Junk)
    [] o.op = "loadsp" -> Set(o.reg, IF m.regs[o.base] = Cpu THEN m.file[SP] ELSE Junk)
    [] o.op = "store" -> IF m.regs[o.base] = Cpu THEN [m EXCEPT !.file[o.reg] = m.regs[o.reg]] ELSE m
    [] o.op = "ldpcptr" -> Set(o.reg, IF m.regs[o.base] = Cpu THEN <<"pcptr", 0>> ELSE Junk)
    [] o.op = "ldpc" -> Set(o.reg, IF m.regs[o.base] = <<"pcptr", 0>> THEN <<"pc", m.pc>> ELSE Junk)
    [] o.op = "stpc" -> IF m.regs[o.base] = <<"pcptr", 0>> THEN [m EXCEPT !.pc = m.regs[o.reg][2]] ELSE m
    [] o.op = "add" -> Set(o.reg, <<m.regs[o.reg][1], m.regs[o.reg][2] + o.by>>)
    [] o.op = "stret" -> [m EXCEPT !.retaddr = @ \cup {<<m.regs[o.base], m.regs[o.reg]>>}]
    [] o.op = "handler" ->
         Set(HandlerReg, IF m.regs[InsnReg] = RetSlot /\ <<<<"hostret", 0>>, Return>> \in m.retaddr
                         THEN Return ELSE <<"handler", m.regs[InsnReg][2]>>)
    [] o.op = "exec" ->
         IF o.insn = HostFunction
         THEN [Clobbered EXCEPT !.regs = Result(o.insn, @)]
         ELSE [m EXCEPT !.regs = Result(o.insn, @)]

Now(op) == code # <<>> /\ Head(code).op = op

Plain ==
  /\ code # <<>> /\ Head(code).op \notin {"call", "jmp", "ret"}
  /\ m' = Step(Head(code))
  /\ code' = Tail(code)
  /\ want' = IF ~Now("exec") THEN want
             ELSE [file |-> Result(Head(code).insn, want.file),
                   pc   |-> IF phase = "native" THEN want.pc + 1 ELSE want.pc]
  /\ UNCHANGED <<abi, phase, slot, left>>

Returns(val) == m' = [Clobbered EXCEPT !.regs[IF Arm THEN Xr(0) ELSE "rax"] = val]

\* A call of retaddr, which returns the place of the guest's return address, or of an
\* event handler, which returns the next instruction: the following one or a jump's target.
HostCall ==
  /\ Now("call")
  /\ code' = Tail(code)
  /\ CASE Head(code).f = "retaddr" -> Returns(<<"vmret", 0>>) /\ UNCHANGED slot
       [] Head(code).f = "finish" -> Returns(RetSlot) /\ UNCHANGED slot
       [] Head(code).f = "event" -> \E k \in {slot + 1, slot + 2} : Returns(Insn(k)) /\ slot' = k
  /\ UNCHANGED <<abi, phase, want, left>>

Start(name, ops) == phase' = name /\ code' = ops

\* A jump to the next handler of the chain, or behind the call of vm_enter.
Jump ==
  /\ Now("jmp")
  /\ slot' = IF phase = "native" THEN slot + 1 ELSE slot
  /\ IF m.regs[HandlerReg] = Return
     THEN Start("leave", IF Arm THEN LeaveAArch64 ELSE LeaveX64) /\ UNCHANGED left
     ELSE /\ left' = left - 1
          /\ \/ left > 0 /\ \E insn \in Insns[abi] :
                  Start("native", IF Arm THEN nativeHandlerAArch64(insn) ELSE nativeHandlerX64(insn))
             \/ left > 0 /\ Start("event", EventTrampoline("event"))
             \/ left >= 0 /\ Start("finish", EventTrampoline("finish"))
  /\ UNCHANGED <<abi, m, want>>

Leave ==
  /\ Now("ret")
  /\ Start("returned", <<>>)
  /\ UNCHANGED <<abi, m, want, slot, left>>

\* startVM calls the entry; an interpreter calls call_host, on an ARM64 host.
Top == IF abi = "AAPCS" THEN 800 ELSE 808

Caller(r) == <<"host", r>>

Init ==
  /\ abi \in Abis
  /\ \/ phase = "enter" /\ code = IF Arm THEN EnterAArch64 ELSE EnterX64
     \/ Arm /\ phase = "bridge" /\ code = CallHost
  /\ want = [file |-> [r \in Registers[abi] |-> <<"guest", r>>], pc |-> 0]
  /\ slot = 0
  /\ left = MaxHandlers
  /\ LET fifth == IF abi = "Win64" THEN <<>> ELSE ArgReg(4) :> <<"fn", 0>>
         args == IF phase = "bridge" THEN Xr(0) :> Cpu @@ Xr(1) :> Cpu
                 ELSE fifth @@ ArgReg(0) :> Cpu @@ ArgReg(1) :> <<"pc", 0>> @@ ArgReg(2) :> Insn(0)
                      @@ ArgReg(3) :> <<"hostret", 0>>
     IN m = [ regs    |-> (SP :> <<"sp", Top>>) @@ args @@ [r \in Registers[abi] |-> Caller(r)],
              stack   |-> IF abi = "Win64" THEN (Top + 40) :> <<"fn", 0>> ELSE <<>>,
              file    |-> want.file,
              pc      |-> 0,
              retaddr |-> {} ]

Next == Plain \/ HostCall \/ Jump \/ Leave

Spec == Init /\ [][Next]_vars

TypeOK ==
  /\ phase \in {"enter", "native", "event", "finish", "bridge", "leave", "returned"}
  /\ DOMAIN m.regs = Registers[abi] /\ DOMAIN m.file = Registers[abi]
  /\ left \in -1 .. MaxHandlers

\* Host functions are called as their convention wants it, with an aligned stack, and the
\* code that called into the virtual machine, or call_host, gets its callee-saved
\* registers and its stack back, whichever handlers have run and whatever they used.
HostConvention ==
  /\ Now("call") => Sp % 16 = 0
  /\ Now("call") /\ Head(code).f # "retaddr" => m.regs[ArgReg(0)] = Cpu /\ m.regs[ArgReg(2)] = Insn(slot)
  /\ phase = "returned" =>
       /\ \A r \in CalleeSaved[abi] \cup (IF Arm THEN {Xr(30)} ELSE {}) : m.regs[r] = Caller(r)
       /\ m.regs[SP] = <<"sp", Top>>

\* Each handler of a chain is entered as the one before it was: the CPU and the position
\* in the chain in their registers and as arguments, the guest's PC as an argument, and
\* nothing of it left on the host's stack.
ChainContext ==
  Now("jmp") /\ m.regs[HandlerReg] # Return =>
    LET next == Insn(IF phase = "native" THEN slot + 1 ELSE slot) IN
    /\ m.regs[CpuReg] = Cpu /\ m.regs[ArgReg(0)] = Cpu
    /\ m.regs[InsnReg] = next /\ m.regs[ArgReg(2)] = next
    /\ m.regs[ArgReg(1)] = <<"pc", want.pc>>
    /\ Sp = Top - (CASE abi = "AAPCS" -> 48 [] abi = "SysV" -> 32 [] abi = "Win64" -> 64)

\* An instruction that runs natively finds in every register it reads, the stack pointer
\* of an X64 guest included, what the guest has there, and what it writes, and nothing
\* else, becomes of the guest's; so do the arguments and results of a host function that
\* the guest calls.
InsnEffect ==
  /\ Now("exec") => \A r \in Head(code).insn.reads : m.regs[r] = m.file[r]
  /\ Now("jmp") \/ phase = "returned" => m.file = want.file /\ m.pc = want.pc
==============================================================================
