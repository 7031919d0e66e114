----------------------------- MODULE MCComponents -----------------------------
(***************************************************************************)
(* The components that a guest thread and its debugger meet one at a time: *)
(* the register file, the description of it that the debugger's client     *)
(* gets, the intrinsics, the native handlers, the lifter, the operands and *)
(* the pre-encoded interpreter.  A behaviour is one of one part; the other *)
(* parts stay at one initial state.                                        *)
(***************************************************************************)
EXTENDS Registers

CONSTANT PartsChecked   \* the parts that this run is about

VARIABLES
  part,
  sGuest, sThreads, sBuffers, sClient, sPackets,
  iPlatform, iMem, iBuf, iGuest, iCall, iLog, iFenv, iFpu, iCount,
  nAbi, nPhase, nCode, nM, nWant, nSlot, nLeft,
  lSame, lHandlers, lPages, lLifter, lModule, lChosen, lLifters,
  oOperands, oOperandmap, oArgs, oHeap, oState, oEncoded,
  pInsts, pFiles, pRuntimes, pRun

Small == INSTANCE SmallInstances

TwoValues == {<<1, 2, 3, 4>>, <<5, 6, 7, 8>>}

ArmFields == {<<"x", 0>>, <<"x", 29>>, <<"x", 31>>, FlagsField, <<"v", 0>>, <<"v", 31>>, <<"fpsr", 0>>}
X86Fields == {<<"rax", 0>>, <<"rdi", 0>>, <<"rdx", 0>>, <<"rsp", 0>>, <<"r", 8>>, FlagsField,
              <<"st", 7>>, <<"mm", 0>>, <<"xmm", 0>>, <<"xmm", 31>>}

ByArch(a, x) == [ARM64 |-> a, X64 |-> x]

ReadFields == ByArch(ArmFields \cup {PcField}, X86Fields \cup {PcField})
WriteFields == ByArch(ArmFields, X86Fields)
ClientFields == ByArch(ArmFields, X86Fields \ {<<"st", 7>>})

FourSections ==
  << [addr |-> 0, size |-> 2, foff |-> 3, text |-> TRUE],
     [addr |-> 4, size |-> 2, foff |-> 5, text |-> TRUE],
     [addr |-> 6, size |-> 1, foff |-> 7, text |-> FALSE],
     [addr |-> 7, size |-> 2, foff |-> 8, text |-> TRUE] >>

FirstVectors == ByArch(<<"v", 0>>, <<"xmm", 0>>)

Server == INSTANCE DbgServer WITH
  Infos <- register_infos, FpuReg0 <- FirstVectors, Lengths <- {30, 35, 70},
  MaxThreads <- 2, MaxPackets <- 5,
  guest <- sGuest, threads <- sThreads, buffers <- sBuffers, client <- sClient, packets <- sPackets

Intrinsics == INSTANCE Intrinsic WITH
  Threads <- {"t1", "t2"}, Platforms <- Small!HostPlatforms, Words <- 4, Custom <- {},
  Excepts <- Small!Exceptions, MaxSections <- 2, MaxOps <- 2,
  platform <- iPlatform, mem <- iMem, buf <- iBuf, guest <- iGuest,
  call <- iCall, log <- iLog, fenv <- iFenv, fpu <- iFpu, count <- iCount

Native == INSTANCE NativeAbi WITH
  Abis <- {"SysV", "Win64", "AAPCS"}, Insns <- Small!NativeInsns, MaxHandlers <- 2,
  abi <- nAbi, phase <- nPhase, code <- nCode, m <- nM, want <- nWant, slot <- nSlot, left <- nLeft

Lifting == INSTANCE Lifter WITH
  Opcodes <- {"a", "b", "c", "d"}, Bad <- "bad", Lifted <- {"a", "b", "c"}, Calls <- Small!CallsOf,
  Table <- {"ADD", "SUB", "write"}, Inputs <- Small!Inputs,
  Customs <- Small!InPlaceOf, MaxLifters <- 3,
  same <- lSame, handlers <- lHandlers, pages <- lPages, lifter <- lLifter, module <- lModule,
  chosen <- lChosen, lifters <- lLifters

OperandList == INSTANCE Operands WITH
  ByteBits <- 4, WordBits <- 8, MaxU8 <- 15, MaxU16 <- 31, no_child <- 6, HalfNames <- {"w9"},
  regoffs <- Small!RegOffsets, CPU <- 100, CPUStates <- Small!CpuStates, Decoded <- Small!DecodedOnce,
  Nodes <- {"n1", "n2"}, MaxOperands <- 2,
  operands <- oOperands, operandmap <- oOperandmap, args <- oArgs, heap <- oHeap, state <- oState, encoded <- oEncoded

Encoded == INSTANCE PreEncoded WITH
  Decode <- Small!OpcodeTable, Table <- Small!Implementations, Binaries <- Small!NineBinaries,
  no_impl <- 99, operand_index_mask <- 7, Unconvertible <- {5}, MaxFiles <- 2, MaxRuntimes <- 2,
  insts <- pInsts, files <- pFiles, runtimes <- pRuntimes, run <- pRun

\* The initial states of a part: all of its own when it is the one checked, else one.
Whole(name, one) == part = name \/ one

InitAll ==
  /\ part \in PartsChecked
  /\ Init /\ Whole("registers", arch = "ARM64" /\ load = "main")
  /\ Server!Init /\ Whole("server", sGuest = "ARM64")
  /\ iPlatform \in Small!HostPlatforms
  /\ Whole("intrinsics", iPlatform = CHOOSE p \in Small!HostPlatforms : TRUE)
  /\ Intrinsics!Init
  /\ nAbi \in {"SysV", "Win64", "AAPCS"} /\ nPhase \in {"enter", "bridge"}
  /\ Whole("native", nAbi = "SysV") /\ Native!Init
  /\ Lifting!Init /\ Whole("lifter", lSame)
  /\ OperandList!Init /\ Whole("operands", oState = CHOOSE s \in Small!CpuStates : TRUE)
  /\ Encoded!Init

sVars == <<sGuest, sThreads, sBuffers, sClient, sPackets>>
iVars == <<iPlatform, iMem, iBuf, iGuest, iCall, iLog, iFenv, iFpu, iCount>>
nVars == <<nAbi, nPhase, nCode, nM, nWant, nSlot, nLeft>>
lVars == <<lSame, lHandlers, lPages, lLifter, lModule, lChosen, lLifters>>
oVars == <<oOperands, oOperandmap, oArgs, oHeap, oState, oEncoded>>
pVars == <<pInsts, pFiles, pRuntimes, pRun>>

NextAll ==
  \/ part = "registers" /\ Next /\ UNCHANGED <<part, sVars, iVars, nVars, lVars, oVars, pVars>>
  \/ part = "server" /\ Server!Next /\ UNCHANGED <<part, vars, iVars, nVars, lVars, oVars, pVars>>
  \/ part = "intrinsics" /\ Intrinsics!Next /\ UNCHANGED <<part, vars, sVars, nVars, lVars, oVars, pVars>>
  \/ part = "native" /\ Native!Next /\ UNCHANGED <<part, vars, sVars, iVars, lVars, oVars, pVars>>
  \/ part = "lifter" /\ Lifting!Next /\ UNCHANGED <<part, vars, sVars, iVars, nVars, oVars, pVars>>
  \/ part = "operands" /\ OperandList!Next /\ UNCHANGED <<part, vars, sVars, iVars, nVars, lVars, pVars>>
  \/ part = "preencoded" /\ Encoded!Next /\ UNCHANGED <<part, vars, sVars, iVars, nVars, lVars, oVars>>

SpecAll == InitAll /\ [][NextAll]_<<part, vars, sVars, iVars, nVars, lVars, oVars, pVars>>

\* The state of every part has its type.
TypesOK ==
  /\ TypeOK
  /\ part = "server" => Server!TypeOK
  /\ part = "intrinsics" => Intrinsics!TypeOK
  /\ part = "native" => Native!TypeOK
  /\ part = "lifter" => Lifting!TypeOK
  /\ part = "operands" => OperandList!TypeOK
  /\ part = "preencoded" => Encoded!TypeOK

\* The properties of the parts, as their modules state them.

\* The client of the debugger has the registers as the register context serves them.
ClientKnowsRegisters == part = "server" => Server!ClientKnowsRegisters

\* Guest locks built on the atomic intrinsics exclude each other.
SectionsCount == part = "intrinsics" => Intrinsics!SectionsCount

\* A system call is told to the callbacks before and after it, with its number, and the
\* host's floating-point environment is the one that the guest thread has asked for.
EnvironmentAsAsked == part = "intrinsics" => Intrinsics!SyscallEvents /\ Intrinsics!FpuAsAsked

\* Native code calls, and returns to, the host by the host's calling convention.
HostConvention == part = "native" => Native!HostConvention

\* Every handler of a chain starts with the context of its chain.
ChainContext == part = "native" => Native!ChainContext

\* A native handler does to the guest's registers what its instruction does.
InsnEffect == part = "native" => Native!InsnEffect

\* A handler runs the opcode that it is for.
HandlerRunsOpcode == part = "lifter" => Lifting!HandlerRunsOpcode

\* A lifter sets the entries of its handlers, and no entry is set twice.
EntriesSetOnce == Lifting!EntriesSetOnce

\* Pre-encoded operands are lifted to the parameters the opcode engine lifts them to.
MetadataAgrees == part = "operands" => OperandList!MetadataAgrees

\* Shift operands are what shifting and extending bit by bit gives.
ShiftsAreBitwise == part = "operands" => OperandList!ShiftsAreBitwise

\* The pre-encoded interpreter executes the instruction at the program counter.
RunsInsnAtPc == part = "preencoded" => Encoded!RunsInsnAtPc

\* dump reads the file as the encoder has written it.
DumpAgrees == part = "preencoded" => Encoded!DumpAgrees

\* A loaded binary's metadata stays mapped.
MetadataMapped == Encoded!MetadataMapped
===============================================================================
