---------------------------- MODULE SmallInstances ----------------------------
(***************************************************************************)
(* The small instances on which the components of MCComponents are         *)
(* checked: a CPU and its operands, binaries to pre-encode, opcodes to     *)
(* lift, instructions for the native handlers, and hosts with their        *)
(* programs.                                                               *)
(***************************************************************************)
EXTENDS Integers, Sequences, SequencesExt, TLC

\* Operands: words of eight bits, X registers of a word, W registers of half a word, a
\* vector register of two.
NoReg == [name |-> "", size |-> 0]
NoExpr == [kind |-> "none"]

RegOffsets == [X0 |-> 1, W0 |-> 1, X1 |-> 2, W1 |-> 2, Q0 |-> 3, FAR |-> 34,
            IGNORE_WRITE_TO_WZR |-> 5, IGNORE_WRITE_TO_XZR |-> 6]

Contents(x0, x1) == [o \in {1, 2, 3, 5, 6, 34} |-> IF o = 1 THEN x0 ELSE IF o = 2 THEN x1 ELSE 0]

CpuStates == {Contents(0, 255), Contents(156, 7), Contents(107, 138)}

Reg(n, s) == [name |-> n, size |-> s]

Read(reg)  == [op |-> [type |-> "Register", size |-> reg.size, write |-> FALSE, reg |-> reg],
               pointer |-> FALSE]
Write(reg) == [op |-> [type |-> "Register", size |-> reg.size, write |-> TRUE, reg |-> reg],
               pointer |-> TRUE]

RegisterOperands ==
  {Read(Reg("X0", 8)), Read(Reg("W0", 4)), Read(Reg("Q0", 16)), Read(Reg("FAR", 8)), Write(Reg("X0", 8)),
   Write(Reg("IGNORE_WRITE_TO_WZR", 4)), Write(Reg("IGNORE_WRITE_TO_XZR", 8))}

Shift(reg, size, op, n, extend, extract) ==
  [op |-> [type |-> "ShiftRegister", size |-> size, write |-> FALSE, reg |-> reg,
           shift |-> [shift_op |-> op, shift_size |-> n, extend_op |-> extend,
                      extract_size |-> extract]],
   pointer |-> FALSE]

\* what the shifted and the extended register forms decode to: a shift of a register of
\* the operand's size, or an extension followed by a shift to the left
ShiftOps == {"LeftWithZeroes", "LeftWithOnes", "UnsignedRight", "SignedRight",
             "LeftAround", "RightAround"}

ShiftOperands ==
  {Shift(Reg("X1", 8), 8, op, n, "Invalid", 0) : op \in ShiftOps, n \in {0, 3, 7}}
  \cup {Shift(Reg("W0", 4), 4, op, n, "Invalid", 0) : op \in ShiftOps, n \in {0, 1, 3}}
  \cup {Shift(Reg("W1", 4), size, op, 1, ext, n) :
          size \in {4, 8}, op \in {"LeftWithZeroes", "Invalid"}, ext \in {"Signed", "Unsigned"}, n \in {2, 4}}
  \cup {Shift(Reg("X0", 8), 8, "LeftWithZeroes", 2, "Signed", n) : n \in {4, 8, 18}}

Immediate(val, size, signed) ==
  [op |-> [type |-> "Immediate", size |-> size, write |-> FALSE, val |-> val, is_signed |-> signed],
   pointer |-> FALSE]

Immediates == {Immediate(13, 4, TRUE), Immediate(13, 4, FALSE), Immediate(200, 8, TRUE)}

Address(seg, base, index, scale, disp, size) ==
  [op |-> [type |-> "Address", size |-> 8, write |-> FALSE, segment_base_reg |-> seg,
           base_reg |-> base, index_reg |-> index,
           addr |-> [scale |-> scale, displacement |-> disp, address_size |-> size]],
   pointer |-> FALSE]

Addresses ==
  {Address(NoReg, Reg("X0", 8), NoReg, 1, -3, 8), Address(NoReg, NoReg, Reg("X0", 8), 1, -3, 8),
   Address(Reg("X1", 8), Reg("X0", 8), Reg("W1", 4), 4, 5, 4), Address(NoReg, Reg("FAR", 8), NoReg, 0, 0, 8),
   Address(NoReg, Reg("X0", 8), NoReg, 1, 0, 18)}

Op(opcode, e1, e2, width) ==
  [kind |-> "op", opcode |-> opcode, op1 |-> e1, op2 |-> e2, width |-> width]
RegOf(name, size) == [kind |-> "reg", name |-> name, size |-> size]
Name(name)      == [kind |-> "name", name |-> name]
Const(val)      == [kind |-> "const", val |-> val]

Expression(e) == [op |-> [type |-> "Expression", size |-> 8, write |-> FALSE, expr |-> e],
                  pointer |-> FALSE]

Trees ==
  {Op(opcode, RegOf("X1", 8), RegOf("W0", 4), 8) : opcode \in {"Add", "Sub", "Mul", "And", "Or", "URem", "Xor"}}
  \cup {Op(opcode, Name("X1"), Const(3), 8) : opcode \in {"Shl", "LShr", "AShr"}}
  \cup {Op(opcode, RegOf("X1", 8), NoExpr, 4) : opcode \in {"ZExt", "SExt", "Trunc"}}
  \cup {Op("Sub", Op("Shl", Op("ZExt", RegOf("W0", 4), NoExpr, 8), Const(2), 8), Name("X1"), 8),
        Op("Sub", Name("X0"), Op("Sub", Name("X1"), Const(1), 8), 8),
        Op("ZExt", Name("X0"), NoExpr, 16), Op("UDiv", Name("X0"), Const(2), 8),
        Op("Add", Name("w9"), Const(1), 8), Name("FAR"), Const(130)}

ExpressionOperands == {Expression(e) : e \in Trees}

DecodedOnce == RegisterOperands \cup ShiftOperands \cup Immediates \cup Addresses \cup ExpressionOperands

----------------------------------------------------------------------------
\* PreEncoded: binaries of both architectures, with and without executable metadata, one
\* that repeats an MCInst, one with data in a function, and three that cannot be encoded:
\* for an unknown implementation, an operand without metadata, and an operand whose index
\* is too large.
Remill(len, impl, args) == [len |-> len, type |-> "Remill", impl |-> impl, args |-> args, size |-> 0]
MCInst == [len |-> 4, type |-> "MCInst", impl |-> "", args |-> <<>>, size |-> 0]
Dynamic(len, size) == [len |-> len, type |-> "Dynamic", impl |-> "", args |-> <<>>, size |-> size]

Implementations == <<"SUB", "ADD", "NOP", "BR">>

OpcodeTable ==
  1 :> Remill(4, "ADD", <<0, 1>>) @@ 2 :> Remill(4, "BR", <<2>>) @@ 3 :> MCInst @@ 4 :> MCInst
  @@ 5 :> Dynamic(4, 20) @@ 6 :> Dynamic(4, 9) @@ 7 :> Remill(4, "unknown", <<>>)
  @@ 8 :> Remill(4, "ADD", <<0, 5>>) @@ 9 :> Remill(4, "ADD", <<8, 0>>)
  @@ 11 :> Remill(1, "NOP", <<>>) @@ 12 :> Remill(2, "BR", <<2>>) @@ 13 :> Remill(3, "ADD", <<0, 1, 3>>)
  @@ 14 :> Remill(5, "SUB", <<0>>) @@ 15 :> Dynamic(7, 9) @@ 16 :> Remill(10, "ADD", <<4, 1>>)
  @@ 17 :> Dynamic(3, 9)

Function(rva, ops, data, walk) ==
  LET Off(i) == FoldLeft(LAMBDA n, o : n + OpcodeTable[o].len, 0, SubSeq(ops, 1, i - 1))
  IN [rva |-> rva, walk |-> walk,
      insns |-> [i \in DOMAIN ops |-> [off |-> Off(i), op |-> ops[i], data |-> i \in data]]]

Code(ops) == Function(0, ops, {}, ops)

Binary(arch, wx, base, functions) ==
  [arch |-> arch, wx |-> wx, base |-> base, end |-> base + 64, functions |-> functions]

NineBinaries ==
  << Binary("ARM64", TRUE, 100, <<Code(<<1, 4, 5, 2>>), Function(20, <<3, 1, 6, 2>>, {2}, <<3, 1, 6, 2>>)>>),
     Binary("ARM64", FALSE, 200, <<Code(<<5, 1, 6, 2>>)>>),
     Binary("ARM64", TRUE, 300, <<Code(<<3, 3, 4, 2>>)>>),
     Binary("ARM64", TRUE, 400, <<Code(<<7, 2>>)>>), Binary("ARM64", TRUE, 400, <<Code(<<1, 8, 3>>)>>),
     Binary("ARM64", FALSE, 400, <<Code(<<9, 2>>)>>),
     Binary("X64", FALSE, 200, <<Code(<<14, 11, 13, 17, 16, 12>>)>>),
     Binary("X64", TRUE, 100, <<Code(<<11, 17, 15, 12, 13>>)>>),
     Binary("X64", FALSE, 400, <<Function(0, <<11, 13, 14, 12>>, {2}, <<11, 15, 12>>)>>) >>

----------------------------------------------------------------------------
\* Lifter: three opcodes that Remill lifts and one that it does not; a callback may put
\* one in the place of another.
CallsOf == [a |-> {"ADD", "write"}, b |-> {"ADD", "SUB"}, c |-> {"unknown"}]

InPlaceOf == [a |-> {"b", "d"}, b |-> {}, c |-> {}, d |-> {"a"}]

Inputs == {<<"a", "b", "a">>, <<"c", "bad", "d">>, <<"d", "b">>, <<"b", "c", "a", "d">>}

----------------------------------------------------------------------------
\* NativeAbi: instructions on registers that a convention saves, passes arguments in or
\* keeps for the chain, on parts of registers, and on lists of them.  Of the pairs of X
\* registers there is X0_X1, the one whose registers are recognised.
Insn(names, reads, writes) == [operands |-> names, reads |-> reads, writes |-> writes]
Op64(class, index, count) == [class |-> class, index |-> index, count |-> count]
Some(class, indexes) == {<<class, n>> : n \in indexes}

X64Insns ==
  {Insn({"eax", "cl"}, {"rax", "rcx"}, {"rax"}), Insn({"rsp", "rbp"}, {"rsp", "rbp"}, {"rsp", "rbp"}),
   Insn({"r12d", "rsp"}, {"r12", "rsp"}, {"rsp"}),
   Insn({"r12", "rax", "rcx"}, {"r12", "rax", "rcx"}, {"r12", "rax"}),
   Insn({"r13", "bl"}, {"r13", "rbx"}, {"r13", "rbx"}), Insn({"ymm6", "rdi"}, {"xmm6", "rdi"}, {"xmm6"}),
   Insn({"xmm6", "r12b", "spl", "rsi"}, {"xmm6", "r12", "rsp", "rsi"}, {"xmm6", "rsi"}),
   Insn({"r10", "rdx", "r8"}, {"r10", "rdx", "r8"}, {"r10", "rdx"}),
   Insn({"rax", "rcx", "rdx", "rsi", "r12", "rsp"}, {"rax", "rcx", "rdx", "rsi", "r12", "rsp"}, {"rax", "rsp"})}

A64Insns ==
  {Insn({Op64("w", 0, 1), Op64("x", 1, 1)}, Some("x", {0, 1}), Some("x", {0})),
   Insn({Op64("x", 26, 1), Op64("xx", 0, 2)}, Some("x", {0, 1, 26}), Some("x", {0, 1, 26})),
   Insn({Op64("x", 26, 1), Op64("x", 27, 1)}, Some("x", {26, 27}), Some("x", {26, 27})),
   Insn({Op64("x", 30, 1), Op64("x", 29, 1)}, Some("x", {29, 30}), Some("x", {30})),
   Insn({Op64("q", 7, 2), Op64("x", 19, 1)}, Some("d", {7, 8}) \cup Some("h", {7, 8}) \cup Some("x", {19}),
        Some("d", {7, 8}) \cup Some("h", {7, 8})),
   Insn({Op64("d", 8, 1)}, Some("d", {8}), Some("d", {8}) \cup Some("h", {8})),
   Insn({Op64("x", 26, 1), Op64("q", 0, 4), Op64("x", 2, 1)},
        Some("d", 0 .. 3) \cup Some("h", 0 .. 3) \cup Some("x", {2, 26}),
        Some("d", {0}) \cup Some("h", {0}) \cup Some("x", {2}))}

NativeInsns == [SysV |-> X64Insns, Win64 |-> X64Insns, AAPCS |-> A64Insns]

----------------------------------------------------------------------------
\* Intrinsic: threads that lock with each of the atomic intrinsics on each host, without a
\* plain store as the release on ARM64, where the barriers do nothing.
Platform(programs, hosts, acquires, releases, handlers, debugs) ==
  [program : programs, host : hosts, acquire : acquires, release : releases,
   handler : handlers, debug : debugs]

HostPlatforms ==
  Platform({"fpu"}, {"X64"}, {"cas"}, {"store"}, {FALSE}, {FALSE})
  \cup Platform({"syscalls"}, {"X64"}, {"cas"}, {"store"}, BOOLEAN, {FALSE})
  \cup Platform({"locks"}, {"X64"}, {"cas"}, {"store"}, BOOLEAN, {FALSE})
  \cup Platform({"locks"}, {"X64"}, {"or"}, {"and", "store"}, {FALSE}, {TRUE})
  \cup Platform({"locks"}, {"ARM64"}, {"cas"}, {"sub"}, BOOLEAN, {TRUE})
  \cup Platform({"locks"}, {"ARM64"}, {"or"}, {"xor", "and"}, {FALSE}, {FALSE})

Exceptions == {"INVALID", "DIVBYZERO", "OVERFLOW", "UNDERFLOW", "INEXACT"}
===============================================================================
