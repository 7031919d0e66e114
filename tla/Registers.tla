------------------------------ MODULE Registers ------------------------------
(***************************************************************************)
(* The registers of one guest thread (CPUState.cpp) and the three routes   *)
(* to them: BinaryEngine::getRegister and setRegister, the register        *)
(* context of the debugger (lldb/src/Context.cpp), and the lifted code,    *)
(* which finds a register's field by name (offset_reg).  The flags live    *)
(* twice: as fields the lifted code works on, and as an image that is      *)
(* packed when the flags register is read and unpacked when it is written. *)
(*                                                                         *)
(* A register is its ordinal in the Register enum, in which the x86 names  *)
(* reuse the ordinals of the AArch64 ones.  A field of the state and a     *)
(* register name are pairs of a letter group and a number.                 *)
(***************************************************************************)
EXTENDS Integers, Sequences, SequencesExt, TLC

CONSTANTS
  Arch,          \* guest architectures to consider
  Reads,         \* per architecture, the fields that requests read
  Writes,        \* per architecture, the fields that the engine's user and the guest write
  ClientWrites,  \* per architecture, the fields that the debugger's client writes
  Values,        \* contents of a register: sequences of four parts
  Loads,         \* how code is loaded: "main" (m_binary), "opcode" (m_binary_opcode)
  Base,          \* guestMemory.basePointer
  ImageBase,     \* m_binary->imageBase()
  FileBuf,       \* where the file of m_binary_opcode is mapped
  Sections,      \* its sections, by address: sequence of [addr, size, foff, text]
  MaxOps         \* bound on the requests

VARIABLES
  arch,
  load,
  cpu,        \* [slots |-> field -> [bits, parts], sr |-> flag -> 0..1]
  op,         \* the last request, as RegisterFile has it
  ops         \* the requests so far

vars == <<arch, load, cpu, op, ops>>

ZERO == 0
PC == 1
X(i) == 2 + i
FP == X(29)
LR == X(30)
SP == X(31)
NZCV == X(31) + 1
Q(i) == NZCV + 1 + i
FPSR == Q(31) + 1
FPCR == FPSR + 1
RAX == SP + 1
GPRs == <<"rax", "rbx", "rcx", "rdi", "rdx", "rsi">>
R(n) == RAX + Len(GPRs) + n - 8
RFLAGS == R(15) + 1
Segments == <<"ss", "es", "gs", "fs", "ds", "cs">>
ST(i) == RFLAGS + Len(Segments) + 1 + i
MM(i) == ST(7) + 1 + i
XMM(i) == MM(7) + 1 + i

\* The enumerator of an x86 register that has a name of its own.
Gpr(name) == RAX + IndexFirstSubSeq(<<name>>, GPRs) - 1
Seg(name) == RFLAGS + IndexFirstSubSeq(<<name>>, Segments)

FlagsField == <<"flags", 0>>
PcField == <<"pc", 0>>
Null == <<"null", 0>>

\* The flags the state keeps as fields: aarch64.sr.* and x86.aflag.*.
FlagFields(a) ==
  IF a = "ARM64" THEN {"n", "z", "c", "v"} ELSE {"af", "cf", "df", "of", "pf", "sf", "zf"}

\* The fields in use.  A field holds as many parts as its register is wide.
Fields(a) == Reads[a] \cup Writes[a] \cup {FlagsField, PcField}

Parts(field) ==
  CASE field[1] \in {"v", "xmm"} -> 4
    [] field[1] = "st" -> 3
    [] field[1] \in {"flags", "fpsr", "fpcr", "pc"} \cup Range(Segments) -> 1
    [] OTHER -> 2

getRegisterAArch64(reg) ==
  CASE reg = PC -> PcField
    [] reg = ZERO -> <<"zero", 0>>
    [] reg \in X(0) .. X(31) -> <<"x", reg - X(0)>>
    [] reg = NZCV -> FlagsField
    [] reg \in Q(0) .. Q(31) -> <<"v", reg - Q(0)>>
    [] reg = FPSR -> <<"fpsr", 0>>
    [] reg = FPCR -> <<"fpcr", 0>>
    [] OTHER -> Null

getRegisterX86(reg) ==
  CASE reg = PC -> PcField
    [] reg = ZERO -> <<"zero", 0>>
    [] reg \in {FP, SP} -> <<IF reg = FP THEN "rbp" ELSE "rsp", 0>>
    [] reg \in RAX .. R(7) -> <<GPRs[reg - RAX + 1], 0>>
    [] reg \in R(8) .. R(15) -> <<"r", reg - R(0)>>
    [] reg = RFLAGS -> FlagsField
    [] reg \in RFLAGS + 1 .. ST(0) - 1 -> <<Segments[reg - RFLAGS], 0>>
    [] reg \in ST(0) .. ST(7) -> <<"st", reg - ST(0)>>
    [] reg \in MM(0) .. MM(7) -> <<"mm", reg - MM(0)>>
    [] reg \in XMM(0) .. XMM(31) -> <<"xmm", reg - XMM(0)>>
    [] OTHER -> Null

FieldOf(reg) == IF arch = "ARM64" THEN getRegisterAArch64(reg) ELSE getRegisterX86(reg)

\* offset_reg(Register): what the native handlers are emitted with.
offset_reg(reg) ==
  IF arch = "ARM64"
  THEN IF reg \in X(0) .. X(31) \cup Q(0) .. Q(31) THEN getRegisterAArch64(reg) ELSE Null
  ELSE IF reg \in {ZERO, RFLAGS} \cup RFLAGS + 1 .. ST(0) - 1 THEN Null ELSE getRegisterX86(reg)

\* The narrower names of a register; ah, bh, ch and dh, one byte above, are left out.
SubRegisters ==
  [ rax |-> {"eax", "ax", "al"}, rbx |-> {"ebx", "bx", "bl"}, rcx |-> {"ecx", "cx", "cl"},
    rdx |-> {"edx", "dx", "dl"}, rsi |-> {"esi", "si", "sil"}, rdi |-> {"edi", "di", "dil"},
    rsp |-> {"esp", "sp", "spl"}, rbp |-> {"ebp", "bp", "bpl"} ]

\* offset_reg(string_view) of AArch64.cpp: a letter names a vector only before a number.
offset_reg_aarch64(name) ==
  CASE Len(name) = 2 /\ name[1] \in {"x", "w"} /\ name[2] <= 30 -> <<"x", name[2]>>
    [] Len(name) = 2 /\ name[1] \in {"v", "q", "d", "s", "h", "b"} -> <<"v", name[2]>>
    [] name[1] \in {"sp", "wsp"} -> <<"x", 31>>
    [] name[1] = "pc" -> PcField
    [] name[1] \in {"xzr", "wzr"} -> <<"zero", 0>>
    [] name[1] \in {"nzcv", "n", "z", "c"} \/ name = <<"v">> -> FlagsField
    [] name[1] \in {"fpsr", "fpcr"} -> <<name[1], 0>>

offset_reg_x86(name) ==
  CASE name[1] \in DOMAIN SubRegisters -> <<name[1], 0>>
    [] \E g \in DOMAIN SubRegisters : name[1] \in SubRegisters[g] ->
         <<CHOOSE g \in DOMAIN SubRegisters : name[1] \in SubRegisters[g], 0>>
    [] name[1] \in {"rip", "eip", "ip", "pc"} -> PcField
    [] name[1] \in {"r", "rd", "rw", "rb"} -> <<"r", name[2]>>
    [] name[1] \in {"xmm", "ymm", "zmm"} -> <<"xmm", name[2]>>
    [] name[1] \in {"st", "mm"} -> name
    [] name[1] \in {"rflags", "eflags", "flags"} \cup FlagFields("X64") -> FlagsField
    [] name[1] \in Range(Segments) -> <<name[1], 0>>

\* The names a lifted operand may use; those of Remill's own variables, which no other
\* route reaches, are left out.
load_regoffs_aarch64 ==
  [name \in ({"x", "w"} \X (0 .. 30)) \cup ({"v", "q", "d", "s", "h", "b"} \X (0 .. 31)) \cup
            {<<p>> : p \in {"sp", "wsp", "xzr", "wzr", "nzcv", "fpsr", "fpcr"}} |->
     offset_reg_aarch64(name)]

load_regoffs_x64 ==
  [name \in {<<p>> : p \in DOMAIN SubRegisters \cup UNION Range(SubRegisters) \cup
                           {"rflags", "eflags", "flags"} \cup Range(Segments)} \cup
            ({"r", "rd", "rw", "rb"} \X (8 .. 15)) \cup ({"st", "mm"} \X (0 .. 7)) \cup
            ({"xmm", "ymm", "zmm"} \X (0 .. 31)) |->
     offset_reg_x86(name)]

regoffs == [ARM64 |-> load_regoffs_aarch64, X64 |-> load_regoffs_x64]

\* BinaryEngine::getRegister of the PC with cvtpc: the runtime address as a static one.
Hits(pc) ==
  {i \in DOMAIN Sections :
     /\ FileBuf + Sections[i].foff <= pc /\ pc < FileBuf + Sections[i].foff + Sections[i].size
     /\ \A j \in 1 .. i - 1 : Sections[j].text}

StaticPc(pc) ==
  CASE load = "main" -> ImageBase + pc - Base
    [] load = "opcode" /\ Hits(pc) # {} ->
         LET sect == Sections[CHOOSE i \in Hits(pc) : TRUE]
         IN sect.addr + pc - (FileBuf + sect.foff)
    [] OTHER -> pc

\* BinaryEngine::mappedAddress of a code address: the runtime address it is executed at.
mappedAddress(addr) ==
  IF load = "main" THEN Base + addr
  ELSE LET sect == CHOOSE x \in Range(Sections) : x.addr <= addr /\ addr < x.addr + x.size
       IN FileBuf + sect.foff + addr - sect.addr

\* The code that can be stepped through: all of m_binary, and of m_binary_opcode the
\* sections that no section of another type precedes.
Targets ==
  UNION {Sections[i].addr .. Sections[i].addr + Sections[i].size - 1 :
           i \in {j \in DOMAIN Sections : \A k \in 1 .. j : Sections[k].text}}

\* The architectural registers: the flags are the ones the lifted code works on, and
\* the PC is the static address the thread stands at.
File ==
  [f \in Fields(arch) |->
     CASE f = FlagsField -> [cpu.slots[f] EXCEPT !.bits = cpu.sr]
       [] f = PcField -> [cpu.slots[f] EXCEPT !.parts = <<StaticPc(@[1])>>]
       [] OTHER -> cpu.slots[f]]

RF == INSTANCE RegisterFile WITH file <- File

\* Taking the address of the flags register packs the flags into its image.
GetRegister(c, reg) ==
  IF FieldOf(reg) = FlagsField THEN [c EXCEPT !.slots[FlagsField].bits = c.sr] ELSE c

Put(c, field, val) == [c EXCEPT !.slots[field] = RF!Overlay(@, val)]

\* flags that are written to the image only
SetRegister_NoUnpack(c, reg, val) == Put(GetRegister(c, reg), FieldOf(reg), val)

\* A segment register has less than a part; the second part of the eight bytes stored to
\* it goes to the segment register behind it.
Behind(field) ==
  {<<Segments[i], 0>> : i \in {j \in 2 .. Len(Segments) : field = <<Segments[j - 1], 0>>}}

\* setRegisterAArch64 and setRegisterX86: eight bytes, and the flags are unpacked.
SetRegister(c, reg, val) ==
  LET field == FieldOf(reg)
      put   == Put(GetRegister(c, reg), field, val)
      rest  == [val EXCEPT !.parts = Tail(@)]
  IN IF field = FlagsField THEN [put EXCEPT !.sr = put.slots[FlagsField].bits]
     ELSE [put EXCEPT !.slots = [f \in DOMAIN @ |-> IF f \in Behind(field) THEN RF!Overlay(@[f], rest) ELSE @[f]]]

\* setRegisterNEON and setRegisterSSE: sixteen bytes, refused for any other register.
Vectors == IF arch = "ARM64" THEN Q(0) .. Q(31) ELSE XMM(0) .. XMM(31)

SetRegisterSIMD(c, reg, val) ==
  IF reg \in Vectors THEN Put(c, FieldOf(reg), val) ELSE c

\* The debugger's two parallel tables of a guest: the Register, and the name and size.
Rows(names, size) == [i \in DOMAIN names |-> [name |-> names[i], size |-> size]]
Numbered(p, first, last) == [i \in 1 .. last - first + 1 |-> <<p, first + i - 1>>]
Single(names) == [i \in DOMAIN names |-> <<names[i]>>]

arm64_registers ==
  [i \in 1 .. 29 |-> X(i - 1)] \o <<FP, LR, SP, PC, NZCV>>
  \o [i \in 1 .. 32 |-> Q(i - 1)] \o <<FPSR, FPCR>>

arm64_register_infos ==
  Rows(Numbered("x", 0, 28) \o Single(<<"fp", "lr", "sp", "pc">>), 8)
  \o Rows(<<<<"cpsr">>>>, 4) \o Rows(Numbered("v", 0, 31), 16)
  \o Rows(Single(<<"fpsr", "fpcr">>), 4)

x86_64_registers ==
  [i \in 1 .. 6 |-> Gpr(<<"rax", "rbx", "rcx", "rdx", "rsi", "rdi">>[i])] \o <<FP, SP>>
  \o [i \in 1 .. 8 |-> R(i + 7)] \o <<PC, RFLAGS>>
  \o [i \in 1 .. 6 |-> Seg(<<"cs", "ss", "ds", "es", "fs", "gs">>[i])]
  \o [i \in 1 .. 8 |-> ST(i - 1)] \o [i \in 1 .. 8 |-> MM(i - 1)]
  \o [i \in 1 .. 32 |-> XMM(i - 1)]

x86_64_register_infos ==
  Rows(Single(<<"rax", "rbx", "rcx", "rdx", "rsi", "rdi", "rbp", "rsp">>)
         \o Numbered("r", 8, 15) \o <<<<"rip">>>>, 8)
  \o Rows(Single(<<"eflags", "cs", "fs", "gs", "ss", "ds", "es">>), 4)
  \o Rows(Numbered("st", 0, 7), 10) \o Rows(Numbered("mm", 0, 7), 8)
  \o Rows(Numbered("xmm", 0, 31), 16)

registers == [ARM64 |-> arm64_registers, X64 |-> x86_64_registers]
register_infos == [ARM64 |-> arm64_register_infos, X64 |-> x86_64_register_infos]

\* The register that is meant by a name.
Denotes ==
  [ARM64 |-> [name \in DOMAIN regoffs.ARM64 \cup {row.name : row \in Range(register_infos.ARM64)} |->
                CASE name = <<"fp">> -> <<"x", 29>>
                  [] name = <<"lr">> -> <<"x", 30>>
                  [] name = <<"cpsr">> -> FlagsField
                  [] OTHER -> offset_reg_aarch64(name)],
   X64 |-> [name \in DOMAIN regoffs.X64 \cup {row.name : row \in Range(register_infos.X64)} |->
              offset_reg_x86(name)]]

PartsOf(bytes) == CASE bytes = 4 -> 1 [] bytes = 8 -> 2 [] bytes = 10 -> 3 [] bytes = 16 -> 4

NoBits == [f \in {} |-> 0]

Patterns == {[f \in FlagFields(arch) |-> IF f = g THEN 1 ELSE 0] : g \in FlagFields(arch)}

\* The values that may be given for a field, cut to a number of parts.
Given(field, n) ==
  {[bits |-> b, parts |-> SubSeq(v, 1, n)] :
     v \in Values, b \in IF field = FlagsField THEN Patterns ELSE {NoBits}}

\* A request, by the register it means, and what it leaves of the state.
Request(kind, reg, val, after) ==
  /\ ops < MaxOps
  /\ ops' = ops + 1
  /\ op' = [kind |-> kind, reg |-> reg, val |-> val]
  /\ cpu' = after
  /\ UNCHANGED <<arch, load>>

\* The first parts at a field; the PC is converted.
Content(c, field, n) ==
  IF field = PcField THEN [bits |-> NoBits, parts |-> <<StaticPc(c.slots[field].parts[1])>>]
  ELSE [c.slots[field] EXCEPT !.parts = SubSeq(@, 1, n)]

Enumerators(fields) == {reg \in ZERO .. XMM(31) : FieldOf(reg) \in fields}

ApiGet ==
  \E reg \in Enumerators(Reads[arch]) :
    LET got == GetRegister(cpu, reg)
    IN Request("read", FieldOf(reg), Content(got, FieldOf(reg), Parts(FieldOf(reg))), got)

ApiSet ==
  \E reg \in Enumerators(Writes[arch]) : \E val \in Given(FieldOf(reg), 2) :
    Request("write", FieldOf(reg), val, SetRegister(cpu, reg, val))

ApiSetSIMD ==
  \E reg \in Enumerators(Writes[arch]) \cap Vectors : \E val \in Given(FieldOf(reg), 4) :
    Request("write", FieldOf(reg), val, SetRegisterSIMD(cpu, reg, val))

\* What the debugger's client asks for by the name in a row of register_infos.
RowsOf(fields) ==
  {i \in DOMAIN registers[arch] : Denotes[arch][register_infos[arch][i].name] \in fields}

DoReadRegister ==
  \E i \in RowsOf(Reads[arch]) :
    LET row == register_infos[arch][i]
        got == GetRegister(cpu, registers[arch][i])
    IN Request("read", Denotes[arch][row.name],
               Content(got, FieldOf(registers[arch][i]), PartsOf(row.size)), got)

\* The value is copied into sixteen zero bytes, of which eight or all are stored.
Padded(val, n) == [val EXCEPT !.parts = @ \o [k \in 1 .. n - Len(@) |-> 0]]

DoWriteRegister ==
  \E i \in RowsOf(ClientWrites[arch]) :
    LET row == register_infos[arch][i] IN
    \E val \in Given(Denotes[arch][row.name], PartsOf(row.size)) :
      Request("write", Denotes[arch][row.name], val,
              IF row.size > 8 THEN SetRegisterSIMD(cpu, registers[arch][i], Padded(val, 4))
              ELSE SetRegister(cpu, registers[arch][i], Padded(val, 2)))

\* A lifted instruction reads or writes a register through the field of its name.
Named(fields) == {name \in DOMAIN regoffs[arch] : regoffs[arch][name] \in fields \ {FlagsField}}

LiftedRead ==
  \E name \in Named(Reads[arch]) :
    Request("read", Denotes[arch][name], Content(cpu, regoffs[arch][name], 1), cpu)

LiftedWrite ==
  \E name \in Named(Writes[arch]) : \E val \in Given(regoffs[arch][name], 2) :
    Request("write", Denotes[arch][name], val, Put(cpu, regoffs[arch][name], val))

\* A comparison sets a flag in its field, never in the image.
LiftedFlag ==
  \E f \in FlagFields(arch) : \E b \in 0 .. 1 :
    Request("write", FlagsField, [bits |-> (f :> b), parts |-> <<>>], [cpu EXCEPT !.sr[f] = b])

\* A native handler stores a register it used back through offset_reg(Register).
NativeStore ==
  \E reg \in Enumerators(Writes[arch]) :
    /\ offset_reg(reg) # Null
    /\ \E val \in Given(offset_reg(reg), Parts(offset_reg(reg))) :
         Request("write", FieldOf(reg), val, Put(cpu, offset_reg(reg), val))

\* The thread is put at a static address: execute(target), or the sample's setRegister of
\* the opcode's place in the file.
Execute ==
  \E target \in Targets :
    LET val(addr) == [bits |-> NoBits, parts |-> <<addr>>]
    IN Request("write", PcField, val(target), SetRegister(cpu, PC, val(mappedAddress(target))))

Init ==
  /\ arch \in Arch
  /\ load \in Loads
  /\ cpu = [ slots |-> [f \in Fields(arch) |->
                          [bits  |-> IF f = FlagsField THEN [g \in FlagFields(arch) |-> 0] ELSE NoBits,
                           parts |-> IF f = PcField THEN <<mappedAddress(0)>>
                                     ELSE [i \in 1 .. Parts(f) |-> 0]]],
             sr |-> [g \in FlagFields(arch) |-> 0] ]
  /\ op = [kind |-> "none"]
  /\ ops = 0

Next ==
  \/ ApiGet \/ ApiSet \/ ApiSetSIMD
  \/ DoReadRegister \/ DoWriteRegister
  \/ LiftedRead \/ LiftedWrite \/ LiftedFlag \/ NativeStore
  \/ Execute

Spec == Init /\ [][Next]_vars

\* Every field keeps its width, and a flag is a bit, as a field and in the image.
TypeOK ==
  /\ \A f \in Fields(arch) : Len(cpu.slots[f].parts) = Parts(f)
  /\ cpu.sr \in [FlagFields(arch) -> 0 .. 1]
  /\ cpu.slots[FlagsField].bits \in [FlagFields(arch) -> 0 .. 1]
  /\ ops \in 0 .. MaxOps

\* The routes are one register file: what the API, the debugger, the lifted code and the
\* native handlers write is what each of them then reads, no other register changes, and
\* the flags and the PC are the guest's own whichever form they are asked for in.
OneRegisterFile == RF!Spec
=============================================================================
