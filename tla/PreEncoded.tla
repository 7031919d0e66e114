------------------------------ MODULE PreEncoded ------------------------------
(***************************************************************************)
(* Pre-encoding a binary into a metadata file (PreEncoder.cpp), and        *)
(* interpreting the binary from it (InterpMetaData.cpp).  The file has a   *)
(* record per instruction, with the offset of its handler, and a record of *)
(* its own length per handler; what the operands are encoded to is the     *)
(* matter of Operands.                                                     *)
(*                                                                         *)
(* An opcode is a number, in the order of the bytes.  Decode says what the *)
(* opcode engine makes of it: its handler's type (Remill, MCInst or        *)
(* Dynamic), its length, and the parts that are written into its record.   *)
(***************************************************************************)
EXTENDS Integers, Sequences, SequencesExt, FiniteSets, TLC

CONSTANTS
  Decode,       \* opcode -> [len, type, impl, args, size]
  Table,        \* Handler::aarch64 and Handler::x86: sequence of implementations
  Binaries,     \* sequence of [arch, wx, functions, base, end]
  no_impl,      \* UINT16_MAX
  operand_index_mask,   \* the largest index of an operand in a record, 0x7fff
  Unconvertible,        \* operands, by index, that convertOperands has no metadata for
  MaxFiles,     \* bound on the binaries encoded
  MaxRuntimes   \* bound on the binaries loaded together

VARIABLES
  insts,      \* the opcodes with an MCInst, in the order they were met: static
  files,      \* binary -> its metadata file, of those encoded
  runtimes,   \* the loaded binaries, by address: [bin, mapped, nexticache]
  run         \* the interpreter: [at, rt, insn, pc]

vars == <<insts, files, runtimes, run>>

None == -1
Bins == DOMAIN Binaries

----------------------------------------------------------------------------
\* The encoder.

\* The width of the engine's table that holds the opcodes of a length.
Width(len) == CHOOSE w \in {1, 2, 4, 8, 16} : w >= len /\ \A v \in {1, 2, 4, 8, 16} : v >= len => v >= w

\* A function is [rva, insns, walk]: its instructions as [off, op, data], and the opcodes
\* that a linear walk over its bytes meets, data included.
Walked(b) == FlattenSeq([f \in DOMAIN Binaries[b].functions |-> Binaries[b].functions[f].walk])

\* prefetch: the handlers of every width in order, one width after the other.
Sorted(ops) == SetToSortSeq(ops, LAMBDA x, y : x < y)

prefetch(b) ==
  FlattenSeq([i \in 1 .. 5 |->
    Sorted({op \in ToSet(Walked(b)) : Width(Decode[op].len) = <<1, 2, 4, 8, 16>>[i]})])

\* the place inside the range of its width
handlerIndex_InRange(hs, op) ==
  LET range == {i \in 1 .. Len(hs) : Width(Decode[hs[i]].len) = Width(Decode[op].len)}
  IN IF \E i \in range : hs[i] = op
     THEN Cardinality({i \in range : hs[i] <= op}) ELSE None

\* The place of an opcode's handler; none when the walk has not met the opcode.
handlerIndex(hs, op) ==
  LET range == {i \in 1 .. Len(hs) : Width(Decode[hs[i]].len) = Width(Decode[op].len)}
  IN IF \E i \in range : hs[i] = op THEN CHOOSE i \in range : hs[i] = op ELSE None

analyzeInsnMeta(b, hs) ==
  LET Meta(f) == LET insns == SelectSeq(f.insns, LAMBDA i : ~i.data)
                 IN [i \in DOMAIN insns |-> [rva |-> f.rva + insns[i].off,
                                             handler |-> handlerIndex(hs, insns[i].op)]]
  IN FlattenSeq([f \in DOMAIN Binaries[b].functions |-> Meta(Binaries[b].functions[f])])

\* initMCInstARM64: the index of an opcode's MCInst in the list that no engine clears.
Met(b) == FoldLeft(LAMBDA seen, op : IF Decode[op].type # "MCInst" \/ op \in ToSet(seen) THEN seen
                                     ELSE Append(seen, op), insts, Walked(b))

Align(n) == ((n + 3) \div 4) * 4
Aot(b) == Binaries[b].wx /\ Binaries[b].arch = "ARM64"
Fixed == 4
OperandBytes(type, n) == IF type = "Remill" THEN 2 * n ELSE 0

\* The implementation that the record of handler i names; none when there is none.
impl(b, hs, i) ==
  LET d == Decode[hs[i]] IN
  CASE d.type = "Remill"  -> IF d.impl \in ToSet(Table) THEN IndexFirstSubSeq(<<d.impl>>, Table) - 1 ELSE None
    [] d.type = "MCInst"  -> IndexFirstSubSeq(<<hs[i]>>, Met(b)) - 1
    [] d.type = "Dynamic" -> IF Aot(b) THEN d.size
                             ELSE Cardinality({j \in 1 .. i - 1 : Decode[hs[j]].type = "Dynamic"})

\* a record whose size does not count the padding in front of the code
convert_Unpadded(b, hs, i) ==
  LET d     == Decode[hs[i]]
      plain == Fixed + d.len + OperandBytes(d.type, Len(d.args))
      code  == IF Aot(b) /\ d.type = "Dynamic" THEN d.size ELSE 0
  IN [ok     |-> /\ d.len <= 15 /\ Len(d.args) <= 255 /\ impl(b, hs, i) \in 0 .. no_impl - 1
                 /\ \A a \in ToSet(d.args) : a <= operand_index_mask,
      impl   |-> impl(b, hs, i), type |-> d.type, oplen |-> d.len, op |-> hs[i],
      args   |-> IF d.type = "Remill" THEN d.args ELSE <<>>,
      code   |-> IF code = 0 THEN None ELSE hs[i],
      size   |-> plain + code]

\* The record of handler i: its fields, opcode, operands, and its code if it has any.
convert(b, hs, i) ==
  LET d     == Decode[hs[i]]
      plain == Fixed + d.len + OperandBytes(d.type, Len(d.args))
      code  == IF Aot(b) /\ d.type = "Dynamic" THEN d.size ELSE 0
  IN [ok     |-> /\ d.len <= 15 /\ Len(d.args) <= 255 /\ impl(b, hs, i) \in 0 .. no_impl - 1
                 /\ \A a \in ToSet(d.args) : a <= operand_index_mask,
      impl   |-> impl(b, hs, i), type |-> d.type, oplen |-> d.len, op |-> hs[i],
      args   |-> IF d.type = "Remill" THEN d.args ELSE <<>>,
      code   |-> IF code = 0 THEN None ELSE hs[i],
      size   |-> IF Aot(b) THEN Align(Align(plain) + code) ELSE plain]

\* OpcodeEngine::convertOperands: the operands of every handler that the engine has made
convertOperands(hs) == \A i \in DOMAIN hs : Decode[hs[i]].type = "Remill" =>
                          ToSet(Decode[hs[i]].args) \cap Unconvertible = {}

serializeHandler(b, hs) == [i \in DOMAIN hs |-> convert(b, hs, i)]

\* The offset of every record in the section of handlers.
Offsets(records) ==
  FoldLeft(LAMBDA offs, r : Append(offs, Last(offs) + r.size), <<0>>, records)

serialize(b, hs) ==
  LET records == serializeHandler(b, hs)
      metas   == analyzeInsnMeta(b, hs)
      offs    == Offsets(records)
  IN [ok       |-> convertOperands(hs) /\ \A r \in ToSet(records) : r.ok,
      arch     |-> Binaries[b].arch, wx |-> Binaries[b].wx,
      insns    |-> [i \in DOMAIN metas |->
                      [metas[i] EXCEPT !.handler = IF @ = None THEN None ELSE offs[@]]],
      handlers |-> [o \in {offs[i] : i \in DOMAIN records} |->
                      records[CHOOSE i \in DOMAIN records : offs[i] = o]],
      fresh    |-> insts = <<>>]

\* BinaryEngine::preEncode
encode(b) ==
  /\ run.at = "idle" /\ b \notin DOMAIN files /\ Cardinality(DOMAIN files) < MaxFiles
  /\ LET file == serialize(b, prefetch(b))
     IN files' = IF file.ok THEN (b :> file) @@ files ELSE files
  /\ insts' = Met(b)
  /\ UNCHANGED <<runtimes, run>>

\* dump goes from record to record by what it reads there.
NextRecord(file, o) ==
  LET r     == file.handlers[o]
      plain == Fixed + r.oplen + OperandBytes(r.type, Len(r.args))
  IN CASE ~file.wx -> o + plain
       [] file.wx /\ r.type = "Dynamic" -> o + Align(Align(plain) + r.impl)
       [] OTHER -> o + Align(plain)

dump(file) ==
  FoldLeft(LAMBDA at, i : IF at.next \in DOMAIN file.handlers
                          THEN [seen |-> at.seen \cup {at.next}, next |-> NextRecord(file, at.next)]
                          ELSE at,
           [seen |-> {}, next |-> 0], [i \in 1 .. Cardinality(DOMAIN file.handlers) |-> i])

----------------------------------------------------------------------------
\* The loaded binaries.

File(rt) == files[rt.bin]
RtBase(rt) == Binaries[rt.bin].base
RtEnd(rt) == Binaries[rt.bin].end
contain(rt, addr) == addr >= RtBase(rt) /\ addr < RtEnd(rt)
handler(rt, i) == File(rt).handlers[File(rt).insns[i].handler]

\* The MCInsts of a loaded binary: one for every instruction that has one.
mcinsts(rt) ==
  SelectSeq([i \in DOMAIN File(rt).insns |-> handler(rt, i).op], LAMBDA op : Decode[op].type = "MCInst")

\* When the vector grows, or is sorted, elements are copied; the destructor of what they
\* are copied from unmaps the file that the copy goes on using.  Which are copied by
\* sorting is up to the library.
Grows(n) == n \in {1, 2, 4}

\* The constructor of a runtime reads the handler of every instruction, and faults on the
\* offset of one that has none.
add(b) ==
  /\ run.at = "idle"
  /\ Len(runtimes) < MaxRuntimes
  /\ b \in DOMAIN files
  /\ \A rt \in ToSet(runtimes) : rt.bin # b /\ Binaries[rt.bin].arch = Binaries[b].arch
  /\ LET new  == [bin |-> b, mapped |-> TRUE, nexticache |-> [i \in DOMAIN files[b].insns |-> i + 1]]
         kept == IF Grows(Len(runtimes)) THEN [i \in DOMAIN runtimes |-> [runtimes[i] EXCEPT !.mapped = FALSE]]
                 ELSE runtimes
         all  == SortSeq(Append(kept, new), LAMBDA x, y : RtBase(x) < RtBase(y))
     IN IF \E i \in DOMAIN files[b].insns : files[b].insns[i].handler = None
        THEN run' = [at |-> "fault"] /\ UNCHANGED runtimes
        ELSE /\ \E gone \in IF Len(all) > 1 THEN SUBSET DOMAIN all ELSE {{}} :
                  runtimes' = [i \in DOMAIN all |->
                                 IF i \in gone THEN [all[i] EXCEPT !.mapped = FALSE] ELSE all[i]]
             /\ UNCHANGED run
  /\ UNCHANGED <<insts, files>>

\* binary_search: the first of a sorted sequence of numbers that is not below the key.
LowerBound(s, key) == Cardinality({i \in DOMAIN s : s[i] < key}) + 1

\* RuntimeMetaData::find
findInsn(rt, addr) ==
  LET insns == File(rt).insns
      i     == LowerBound([k \in DOMAIN insns |-> insns[k].rva], addr - RtBase(rt))
  IN IF i \in DOMAIN insns /\ insns[i].rva = addr - RtBase(rt) THEN i ELSE None

\* InterpMetaData::find: the runtime and the instruction at an address.
find(addr) ==
  LET i == LowerBound([k \in DOMAIN runtimes |-> RtBase(runtimes[k])], addr)
      r == IF i > Len(runtimes) THEN Len(runtimes) ELSE i
  IN IF addr > RtEnd(runtimes[r]) THEN [rt |-> None, insn |-> None]
     ELSE [rt |-> r, insn |-> IF addr < RtBase(runtimes[r]) THEN None ELSE findInsn(runtimes[r], addr)]

----------------------------------------------------------------------------
\* The interpreter.

Idle == [at |-> "idle"]
In(rt, insn, pc) == [at |-> "vm", rt |-> rt, insn |-> insn, pc |-> pc]

\* The addresses of the instructions of loaded binaries.
InsnAddrs == UNION {{RtBase(rt) + File(rt).insns[i].rva : i \in DOMAIN File(rt).insns} : rt \in ToSet(runtimes)}

Stop(why) == run' = [at |-> why]

\* Look for the instruction at an address, in the metadata of a binary, which must be mapped.
LookUp(addr, otherwise) ==
  LET found == find(addr) IN
  CASE found.rt = None -> Stop(otherwise)
    [] found.rt # None /\ ~runtimes[found.rt].mapped -> Stop("fault")
    [] found.rt # None /\ runtimes[found.rt].mapped /\ found.insn = None -> Stop(otherwise)
    [] OTHER -> run' = In(found.rt, found.insn, addr)

\* runMain calls main, which returns at once when there is no instruction at the entry.
main(entry) ==
  /\ run.at = "idle" /\ runtimes # <<>>
  /\ LookUp(entry, "finished")
  /\ UNCHANGED <<insts, files, runtimes>>

\* Inside the binary: the next instruction, the cached one, or the one that is found,
\* which becomes its own successor in the cache.
Within(pc) ==
  LET rt     == runtimes[run.rt]
      Is(i)  == i \in DOMAIN File(rt).insns /\ RtBase(rt) + File(rt).insns[i].rva = pc
      cached == rt.nexticache[run.insn]
      found  == findInsn(rt, pc)
  IN \/ Is(run.insn + 1) /\ run' = In(run.rt, run.insn + 1, pc) /\ UNCHANGED runtimes
     \/ ~Is(run.insn + 1) /\ Is(cached) /\ run' = In(run.rt, cached, pc) /\ UNCHANGED runtimes
     \/ /\ ~Is(run.insn + 1) /\ ~Is(cached)
        /\ IF found = None THEN Stop("lost") /\ UNCHANGED runtimes
           ELSE /\ run' = In(run.rt, found, pc)
                /\ runtimes' = [runtimes EXCEPT ![run.rt].nexticache[found] = found]

\* The instruction has left the program counter at pc.
Arrive(pc) ==
  \/ contain(runtimes[run.rt], pc) /\ Within(pc)
  \/ /\ ~contain(runtimes[run.rt], pc) /\ pc >= RtBase(Head(runtimes)) /\ pc < RtEnd(Last(runtimes))
     /\ LookUp(pc, "lost")
     /\ UNCHANGED runtimes

\* What the interpreter executes for the instruction.
Executed(rt, i) ==
  LET h == handler(rt, i) IN
  CASE h.type = "Remill"  -> <<"Remill", Table[h.impl + 1], h.args, h.oplen>>
    [] h.type = "MCInst"  -> <<"MCInst", IF h.impl < Len(mcinsts(rt)) THEN mcinsts(rt)[h.impl + 1] ELSE None>>
    [] h.type = "Dynamic" -> <<"Dynamic", h.code>>

Runs(type) == run.at = "vm" /\ handler(runtimes[run.rt], run.insn).type = type

interpRemill ==
  /\ Runs("Remill")
  /\ \E pc \in InsnAddrs : Arrive(pc)
  /\ UNCHANGED <<insts, files>>

\* The code of the handler is entered, of which there is none unless it was encoded.
execDynamic ==
  /\ Runs("Dynamic")
  /\ IF Aot(runtimes[run.rt].bin)
     THEN \E pc \in InsnAddrs : Arrive(pc)
     ELSE Stop("wild") /\ UNCHANGED runtimes
  /\ UNCHANGED <<insts, files>>

\* An instruction on the stack pointer goes on to the next one.
interpMCInst ==
  /\ Runs("MCInst")
  /\ Executed(runtimes[run.rt], run.insn)[2] # None
  /\ IF run.pc + 4 \in InsnAddrs THEN Arrive(run.pc + 4) ELSE Stop("lost") /\ UNCHANGED runtimes
  /\ UNCHANGED <<insts, files>>

\* The guest returns to the address that stands for the caller of main.
ReturnToMain ==
  /\ Runs("Remill")
  /\ Stop("finished")
  /\ UNCHANGED <<insts, files, runtimes>>

\* A system function is called, and returns to the guest's link register.
CallHost ==
  /\ Runs("Remill")
  /\ IF Binaries[runtimes[run.rt].bin].arch = "ARM64"
     THEN \E pc \in InsnAddrs : Arrive(pc)
     ELSE Stop("abort") /\ UNCHANGED runtimes
  /\ UNCHANGED <<insts, files>>

\* runMain unloads the binaries when main has returned.
Unload ==
  /\ run.at = "finished"
  /\ runtimes' = <<>>
  /\ run' = Idle
  /\ UNCHANGED <<insts, files>>

Init ==
  /\ insts = <<>>
  /\ files = <<>>
  /\ runtimes = <<>>
  /\ run = Idle

Next ==
  \/ \E b \in Bins : encode(b) \/ add(b)
  \/ \E entry \in InsnAddrs : main(entry)
  \/ interpRemill \/ execDynamic \/ interpMCInst \/ ReturnToMain \/ CallHost \/ Unload

Spec == Init /\ [][Next]_vars

----------------------------------------------------------------------------
TypeOK ==
  /\ DOMAIN files \subseteq Bins
  /\ \A b \in DOMAIN files : \A i \in DOMAIN files[b].insns :
       files[b].insns[i].handler \in DOMAIN files[b].handlers \cup {None}
  /\ Len(runtimes) <= MaxRuntimes
  /\ run.at \in {"idle", "vm", "finished", "lost", "fault", "wild", "abort"}

\* The opcode of a binary's instruction.
OpcodeAt(b, rva) ==
  LET f == CHOOSE f \in ToSet(Binaries[b].functions) : \E i \in ToSet(f.insns) : f.rva + i.off = rva
  IN (CHOOSE i \in ToSet(f.insns) : f.rva + i.off = rva).op

\* No MCInst was met before the binary's own, and none of its own is met twice.
IndexedByItself(b) ==
  LET met == SelectSeq(Walked(b), LAMBDA op : Decode[op].type = "MCInst")
  IN files[b].fresh /\ IsInjective(met)

\* The interpreter is at the instruction of the program counter, and executes there what
\* the opcode engine would: the implementation, operands and length of its handler, its
\* MCInst, or its code.  (An MCInst may be another's unless it was indexed by itself, and
\* without executable metadata a Dynamic handler has no code: see the README.)
RunsInsnAtPc ==
  run.at = "vm" =>
    LET rt == runtimes[run.rt]
        op == OpcodeAt(rt.bin, run.pc - RtBase(rt))
        d  == Decode[op]
    IN /\ RtBase(rt) + File(rt).insns[run.insn].rva = run.pc
       /\ handler(rt, run.insn).type = d.type
       /\ d.type = "Remill" => Executed(rt, run.insn) = <<"Remill", d.impl, d.args, d.len>>
       /\ d.type = "MCInst" /\ IndexedByItself(rt.bin) => Executed(rt, run.insn) = <<"MCInst", op>>
       /\ d.type = "Dynamic" /\ Aot(rt.bin) => Executed(rt, run.insn) = <<"Dynamic", op>>

\* dump finds every handler that an instruction refers to, going by the lengths it reads;
\* code it executes in place begins on a multiple of four.  (On x86 with executable
\* metadata it takes an index for a length: see the README.)
DumpAgrees ==
  \A b \in DOMAIN files :
    /\ files[b].arch = "ARM64" \/ ~files[b].wx =>
         {files[b].insns[i].handler : i \in DOMAIN files[b].insns} \ {None} \subseteq dump(files[b]).seen
    /\ Aot(b) => \A o \in DOMAIN files[b].handlers : o % 4 = 0

\* "pointer to the read-only mapped metadata": a loaded binary's metadata is mapped as
\* long as the binary is loaded.
MetadataMapped == \A rt \in ToSet(runtimes) : rt.mapped
===============================================================================
