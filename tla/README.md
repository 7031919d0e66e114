# AetherVM in TLA+

TLA+ models of the AetherVM emulator, checked with TLC on small instances, with
TLAPS proofs for what matters most. The models are translated from the C++
sources; `PROJECT.json` maps every definition to the lines it stands for.

## The system

AetherVM runs guest code (arm64, x86_64) in a host process.

| part | sources | in the model |
|---|---|---|
| engine front end: `BinaryEngine` | `src/AetherVM.cpp` | `BinaryEngine`, `GuestMemory`, `OpcodeEngine`, `Registers`, `PreEncoded` |
| guest memory: one reservation, committed from the bottom up | `src/Memory.*`, `src/Platform.cpp` | `GuestMemory` |
| lifter: opcodes to native handlers through remill and LLVM | `src/Lifter.*` | `Lifter`, `NativeAbi`; what remill makes of an instruction is external |
| orchestrator: functions to blocks of handler slots; lookup by address with caches | `src/Orchestrator.*` | `BasicBlocks`, `Orchestrator` |
| event handlers and chained execution | `src/Event.cpp` | `ChainExec` |
| entry, event trampolines and host calls in assembly | `src/AArch64.cpp`, `src/X86.cpp` | `NativeAbi` |
| CPU context and register names | `src/CPUState.*`, `include/Register.h`, `src/AArch64.cpp`, `src/X86.cpp` | `Registers`, `RegisterFile`; `initContext`, `freeContext` in `Debugger` |
| debugger: gdb-remote server in the process | `lldb/src/*` | `Debugger`, `DbgServer`; its register context in `Registers` |
| opcode interpreter: handlers made on demand for single opcodes | `src/OpcodeEngine.*`, `src/OpcodeAArch64.cpp` | `OpcodeEngine`, `Operands`; iOS handlers not |
| pre-encoder, pre-encoded interpreter | `src/PreEncoder.*`, `src/InterpMetaData.*` | `PreEncoded`; operands in `Operands` |
| intrinsics that lifted code calls | `src/Intrinsic.cpp` | `Intrinsic` |
| disassembly, handler tables, tools, samples | | not modelled: see the end |

How they interact: `execute(raw)` and `execute(target)` call `orchBinary`, which
commits guest memory, copies the sections, lifts the text and calls
`Orchestrator::encode`. `startVM` initialises the CPU context, looks the entry up
with `find` and enters the chain of slots. Every handler goes on to the next slot;
the slots for jumps, calls and returns ask `find` for the slot of the new program
counter; event slots call the user's callbacks; the debugger slot calls the
watchdog. With the debugger on, `initContext` and `freeContext` attach and detach
the thread, and a serving thread executes the client's commands. Beside all this,
`prefetch` and `emulate` run single opcodes on the CPU context with handlers of the
opcode engine, without chain or orchestrator; and `preEncode` writes what those handlers
would do into a file, from which `runMain` interprets the binary.

## Modules

**GuestMemory.** State: `m_offset`, the committed bytes, and four history
variables (bytes granted twice, whether a commit was refused, sections not mapped, an
access outside the committed bytes). Actions: `mapMemory`, `orchBinary`,
`accessMemory`. Addresses are words modulo `Word`, since `commit` and `valid` compare
sums that can wrap. Section contents are left out, as no decision depends on them. The
system may refuse any page commit.

**BasicBlocks.** `encode`, `convert` and `findBlocks` as operators: a binary and an
event configuration become a sequence of slots with the start addresses of the
blocks. A slot is an event handler or the handler of an instruction with its length.

**GuestCode, GuestMachine.** The guest alone. `Successors` says what a lifted
instruction may do to program counter and return addresses. `GuestMachine` is the
abstract specification: at every step the instruction at the program counter is run.

**ChainExec.** The chain as it is executed: `ip` is the slot, one action per kind of
slot, callbacks answer with any result. `ImplementsGuest` says that it implements
`GuestMachine`, events being stuttering steps.

**Orchestrator.** The image vector with its capacity, and the thread-local cache of
each thread (256 L1 entries in the code, `L1Size` here, and the current image).
A pointer to an image is a pair of storage and index, so a vector that grows leaves
old pointers dangling; a pointer to a slot names its image and dies with it. A lookup
through a dead pointer sets `wild`.

**BinaryEngine.** Composes `GuestMemory` and `Orchestrator` (both by `INSTANCE`) into
the engine as its user drives it: `mapMemory`, `executeRaw`, `executeTarget`, and the
lookups that guest code causes in between.

**Debugger.** VM threads against the serving thread. Every access to shared state
outside a common lock is a step of its own: the look at the breakpoints, the read of
`m_state`, the report, the wait; on the other side the write of `m_state`, the
notification, the report. A notification reaches threads that are waiting and no
others. Interrupt's and Detach's loops over the threads are one step each; a command
that acts on an object erased meanwhile has no effect, one outcome of the undefined
behaviour. Spurious wakeups are not taken.

**Operands.** The operands that the instructions of the opcode interpreter share: their
identity and sharing (`initRemill`), the parameter each is lifted to, the conversion to
fixed-width metadata (`convertOperands`) and the lifting from metadata. Registers, words
and bytes keep their widths, scaled to 8-bit words and 4-bit bytes. Hashes in an
identity are taken to be free of collisions. An expression is a tree at a node of `heap`, and
is known by the address of the node, as in the code. The node belongs to an instruction that is
local to `init`, so a later decoding may put another expression there, which then has the same
identity, and every operand that points to the node reads what is there now. Metadata fields
are cut to their width, with the code's checks in front; `encoded.from` keeps the heap that was
converted.

**OpcodeEngine.** Threads that emulate opcodes with the engine's shared handlers and with
handlers of their own. Every access to a table that threads share is a step: the cache
and set lookups, the lock, each `push_back` and `insert` of an operand or an MCInst, the
two changes of protection around the copying of generated code, the taking of a pointer
into a vector and its use. An opcode that remill reads no bytes of (`Undecoded`) is refused by
`emulate`, while `prefetch` goes on with the bytes there are (`Becomes`). A handler made by `set::insert` is blank until its `init` is
through; running it, `abort`, `exit` and a fault stop the process. `threadExit` and
`recreate` are the destructors of a thread's engine and of the binary engine; a handler
carries, as history, the engine it was made under. Debugger events in `interpret` are in
`Debugger`. Registers are in `Operands`, not here.

**Registers, RegisterFile.** `RegisterFile` is what a user expects: one file of registers
that reads and writes act on. `Registers` is what there is: the fields of the state, the
flags both as fields, which lifted code uses, and as an image, which `getRegister` packs and
`setRegister` unpacks, and five routes to them: the engine's API by enumerator, the
debugger's context by row of two parallel tables, lifted operands by name (`offset_reg`),
native handlers by enumerator (another `offset_reg`), and the start of execution, which maps
a static address to the runtime one that a read of the program counter maps back. The
property is the refinement `Registers` implements `RegisterFile`. A register's bytes
are four parts (0-3, 4-7, 8-9, 10-15), so that every width the routes use is told apart.

**DbgServer.** The target description, built from the tables of `Registers`, and the qXfer
packets that transfer it, while threads come and go and requests are repeated or given up.

**Intrinsic.** Guest threads that call the intrinsics. An access is up to three steps, the
event, the debugger and the access itself; an atomic operation is one step on a host with a
store buffer per thread, in order on x86 and out of order between addresses on arm64. The
guest code on top (locks around a counter, floating-point operations, system calls) is the
environment.

**NativeAbi.** The code that is written by hand or emitted instruction by instruction, run
on a symbolic machine whose registers hold where a value came from: entry, event
trampolines, native handlers and `call_host`, under the System V, Windows and AAPCS
conventions. A called host function loses every register that it may. Which guest registers
an instruction's operands are taken for is `OperandRegs`; it differs from the instruction's own
reads and writes for most register pairs (below).

**Lifter.** The static handler sets, the module that one lifter after another adds
functions to, and the destructor that links, publishes and clears them, or fails.

**PreEncoded.** The encoder, as operators that turn a binary into a file of instruction
records and handler records of different lengths, or fail, for an operand without metadata or
with an index above `operand_index_mask`; `dump`'s walk over it; and the interpreter, with the registry of loaded binaries, their mappings, both lookups and the instruction cache. Loading
a file with an instruction that has no handler is a fault.

**GuestPrograms**, **SmallInstances**, **MC\***: the small programs and the constants of the
runs. `MCComponents` puts the seven parts from `Registers` to `PreEncoded` and `Operands` side by
side: a behaviour is one of one part, which `part` names. They share no state at run time in
the code, and side by side every part still has all of its own behaviours.

## Runs

Passing runs:

| run | distinct states | shows |
|---|---|---|
| `Memory` | 1,022 | no byte is handed out twice, nothing leaves the reservation, and a binary that got its pages has its sections; until a commit is refused, the offset describes the committed bytes and accepted accesses do not fault |
| `ChainExec` | 559,408 | the chain implements the guest; handler, program counter and events stay together |
| `OrchQuiet` | 9,214 | the caches never change an answer of `find` |
| `EngineRoomy` | 123,333 | images stay apart and backed; a snippet starts in its own code, the loaded main binary in its own |
| `OpcodeEngine` | 404,550 | handlers keep their operands and their code; `emulate` says what it ran; every call returns (liveness) |
| `DbgSafety` | 417,456 | thread objects stay valid; client and process agree; every watchdog call ends (liveness) |
| `Components` | 234,249 | the seven parts, as follows |

The properties of `Components`:

* `OneRegisterFile` (`Registers`): what is written by any route is what every route then
  reads, and no other register changes; the flags and the program counter are the guest's own
  in whichever form they are asked for.
* `ClientKnowsRegisters` (`DbgServer`): once the last piece has come the client has one whole
  description, with the numbers the register context uses and offsets that do not overlap.
* `SectionsCount` (`Intrinsic`): locks made of the atomic intrinsics exclude each other, and no
  increment is lost. `EnvironmentAsAsked`: both events of a system call carry its number
  and frame the call; rounding mode and exceptions are the ones the thread has set.
* `HostConvention`, `ChainContext`, `InsnEffect` (`NativeAbi`): host functions are called as
  their convention wants and the caller gets its registers back; each handler of a chain is
  entered as the one before it was; a native instruction reads and writes the guest's
  registers and no others.
* `HandlerRunsOpcode`, `EntriesSetOnce` (`Lifter`): a handler runs its opcode whatever earlier
  lifters left in the module; an entry that chains may hold never changes.
* `MetadataAgrees`, `ShiftsAreBitwise` (`Operands`): both interpreters lift an operand to the same
  parameter, fields that do not fit being refused and not cut; shifts and extensions are right
  bit by bit.
* `RunsInsnAtPc`, `DumpAgrees` (`PreEncoded`): the interpreter executes the instruction at the
  program counter as the opcode engine would have; `dump` meets the offsets that the encoder gave out.

Five runs end in a counterexample. Each checks one sentence of a comment or of the
documentation that the code does not keep; `PROJECT.json` quotes it under `findings`.

| run | shows |
|---|---|
| `ChainTable` | a lookup inside a block gives the instruction before the target |
| `OrchGrow` | encoding moves the images under another thread |
| `OpcodeShared` | initialising a handler moves the operands, or takes the execute permission from the code, of a shared handler that another thread is running |
| `DbgLostWakeup` | a resumed thread sleeps on when the notification comes before the wait |
| `PreEncodedMapped` | loading a second binary unmaps metadata that is in use: the vector copies runtimes whose destructor unmaps them |

Further disagreements were found with these models and are left out of the runs. In the
engine and the chain:
with gaps between sections `orchBinary` commits too little and the last sections stay
unmapped (`AllSectionsMapped` fails for such binaries); `execute(target)` does not load
the main binary once anything else was mapped, as it takes used memory for a loaded
binary; and `Processed` with the debugger on skips the debugger's slot and runs the
instruction, against the comment at `Event.cpp:44`. In the register routes: the debugger's two
x86 tables list the segment registers in different orders; a write of a segment register stores
eight bytes and overwrites the next one (`Behind`); a client's write of an x87
register is dropped and reported as done; a program counter is read as a static address and
written as a runtime one, and with an image base other than 0 the conversion of `execute` and that
of `getRegister` differ. In the intrinsics: a value that a callback puts in the place of one to be
written is lost, since the old one was read before; the barriers are empty, so that on an arm64 host
an unlocking by a plain store does not order the section's stores; the 128-bit compare-and-exchange
does nothing. In native handlers: the flags, the stack pointer of arm64, XMM16 to 31 and the
upper halves of wide vectors are not switched; and `parse_regused` subtracts the enumerator of the first
pair from that of an arm64 register pair, although pairs exist only for even first registers, so that `X2_X3`
is taken for x1 and x2, and `X26_X27` for x13 and x14: `InsnEffect` fails for every pair but
`X0_X1` and `W0_W1`. In the lifter: two opcodes that a callback makes equal in
one lifter leave the second at abort, and a lifter that fails leaves opcodes that later count as lifted. In
the pre-encoded interpreter: MCInst records are indexed by a list that is never cleared, against
the comment at `InterpMetaData.cpp:323`, so that a second binary, or an opcode that occurs twice,
names another instruction; an address inside a binary that is not the last is looked for in the next
one; a Dynamic handler without executable metadata is entered although no code follows it; on x86
`dump` takes the index of a Dynamic handler for the length of its code. In the operands: expressions
are shared by the address of a node that is gone, and other operands without regard to their size.

A passing run leaves out what one of these is about, and no more: `ChainExec` has every
configuration but instruction events together with the debugger, and programs whose
jumps are direct; `OrchQuiet` has no change of the images while another thread has a
cache; the binaries of `Memory` and `EngineRoomy` have sections without gaps and image
base 0, as `Lifter::createObject` makes raw snippets; `EngineRoomy` has room for all its
images, since `orchBinary` goes on when memory is used up; in `OpcodeEngine` the user calls
`prefetch`, which takes no lock, only while nothing is emulated, and the properties are
about handlers made under the present engine. In `Components` the requests leave segment
registers, client writes of x87 registers and API writes of the program counter alone; image base is 0; callbacks
change no value; no plain store unlocks on arm64; native instructions use registers that are
switched, and of the register pairs the first; and the properties name the remaining cases (`Apart`, `IndexedByItself`, `Aot`).

Other places where the code does less than one might expect were met while modelling and
are translated as they are: `valid` rejects a range that ends at the last committed
byte; a refused commit leaves the offset advanced; `Terminate` is heard only at
`InsnBefore`; `BlockAfter` lies behind the branch that ends a block and is not reached;
a snippet that ends in a conditional jump aborts when it falls through; syscall events
do not look at the configuration; `clear` reaches one thread's cache; `Resume` wakes one
thread and declares the process running only afterwards; every `startVM` attaches a
further debugger object; a refused opcode leaves a blank handler behind, and the next
`emulate` of it calls a null pointer; the handlers of a thread outlive the operands and
code pages of the engine they were made under; an operand's identity leaves out its size,
so that one register extended to 32 and to 64 bits is one operand; `SExt` in an expression extends from the width of its
result; a register given by name is 32 bits wide only if the name begins with a lower-case
`w`; `STPQi` stores its second register at `sp + 8`.

### Bounds

* Memory: pages of 4 bytes, a reservation of 9 pages, requests below, at and above a
  page. A request that just fits and one that just does not both occur. Every word is
  tried as an address.
* Chain: all programs of three instructions of every kind, as one function and as two,
  with instruction lengths 1 and 2; special instructions apart. `MaxDepth` 2 return
  addresses. Three instructions are enough for a block that is entered by falling into
  it, by a jump and after a call.
* Orchestrator: two images, three encodings, an L1 of 3 entries in which addresses of
  both images collide; the vector grows twice.
* Engine: three images and two mappings in any order, with refused commits.
* Registers: both architectures, a register of every group and width, two requests: a write
  by one route and a read or write by another. Two values that differ in every part.
* Debugger server: both real tables, pieces of 30, 35 and 70 items (one that divides neither
  description, one that takes each in one), five packets, up to two threads.
* Intrinsics: two threads with two sections and two atomic additions each, on words of four
  values, so that counters wrap; every atomic operation in use as a lock or an unlock; two system
  calls or floating-point operations.
* Native code: chains of two handlers on each convention, with instructions that use the chain's
  own registers, callee-saved ones, the stack pointer, a register pair and vector pairs.
* Lifter: three lifters over four opcodes, with code that repeats opcodes, bytes that are no
  instruction, and a callback that replaces opcodes.
* Pre-encoding: nine binaries of both architectures, two of which cannot be encoded, two encoded and two
  loaded at a time; handlers of every type and width, with code that needs padding and code that does not.
* Operands: every operand type, with registers of half a word, a word and two; shifts by
  0, by one and by the size less one; operands that exceed the limit of each kind of field; any two
  operands in any order, so that every pair may meet in the shared list, and two nodes for
  expressions, so that a node is reused.
* Opcode engine: two threads, three calls, two binary engines, eight opcodes: two of
  remill that share operands, one of them with more than can be passed; two with generated
  code, of half a page and of three quarters, so that a page is filled exactly or not
  at all; two with an MCInst, one that remill reads no bytes of and one that is not disassembled; opcodes collide in the caches. Two threads
  and two new handlers are enough for every pair of inits to be interleaved.
* Debugger: two native threads, four attachments, one breakpoint address. Two threads
  are enough for one to be resumed, stopped or detached while the other is not.

`CHECK_DEADLOCK FALSE` is given where the system stops: a finished emulation, a
finished series of calls, and a debugged process whose bound on attachments is used up.

### Fairness

`CallsReturn` assumes weak fairness of the steps of each thread inside a call of `prefetch`
or `emulate`: host threads in straight-line code, and a mutex that is held only during
`init`. Nothing is assumed of when the user calls.

`WatchdogSettles` assumes weak fairness of the steps inside a watchdog call and
of the serving thread's steps for a command it has taken. Both are host threads in
straight-line code. Nothing is assumed of the guest or of the client, except that the client
does not interrupt for ever: one that interrupts and steps again and again, each time between a
thread's write of the state and its read, keeps `WatchDog` calling itself.

## Proofs

`GuestMemory_proofs`, for every reservation, page size, set of requests and binaries:

* `TypeCorrect`: offset and committed bytes stay inside the reservation, without
  any assumption on requests;
* `GrantsAreDisjoint`: no byte is handed out twice and the available address is free,
  refused commits included. Assumption `WellBehaved`: image base 0 and sizes that do not
  wrap. Both are needed: with an image base the committed bytes lie above the offset,
  and a size near the word size passes the checks and moves the offset back. The
  invariant is that all committed bytes lie below the available address;
* `OffsetDescribesMemory`: for the same programs, until a commit is refused, the committed
  bytes are exactly those below the offset and no access that `valid` accepts faults.

`Debugger_proofs`, for any threads, addresses, bounds and commands: `Inductive` proves
`IndInv`, from which `PointerIsLive`, `ObjectIsFound`, `Agreement` and `TypeCorrect`
follow. `IndInv` adds to the three properties that identifiers are never reused, that a
thread in the host or the guest has an object unless the debugger has left (a thread
that enters the watchdog then has one), and that during a `Resume` the process is
"stopped" and the client expects it to run (so that the last step, which declares it
running, makes them agree, whatever stops the threads reported in between).

`OpcodeEngine_proofs`, for any threads, opcodes, operands, page and code sizes, and any
number of engines: `ArgsAlwaysResolve` and `CodeStaysOwn`. Neither property is inductive.
The invariant adds that at most one thread is between lock and unlock (or prefetches,
alone), that only this thread's handler is unfinished, that `operandmap` names operands at
their indexes except for the one just pushed, that no handler is newer than the present
engine, and that all code of the present engine lies below `pagecur` in the last page, or
in an earlier one. It is defined in `OpcodeEngine_invariant`, which also shows that lookups
and stores keep it; `OpcodeEngine_inits` shows it for the initialisations that bind
operands, `OpcodeEngine_code` for those that keep an MCInst or generate code.

`Lifter_proofs`, for any opcodes, calls, callbacks and number of lifters: `HandlersAreTrue` and
`EntriesArePublished`. Assumption `LiftedCode`: the code given to `liftOpcodes` consists of opcodes
and bytes that are none, and callbacks choose opcodes. The invariant adds that the live lifter has
a function for exactly the names that it will look for, each made for the placeholder that the name
finds and still at abort; that the trampolines, which outlive lifters, lead to the handlers of their names
and that no function lacks one; and that a live lifter has no pages yet. The first part is what `clear` is
for: with a function left over from an earlier lifter a name finds code of another opcode's operands.

Only model-checked: operands (their lifting is recursive), `AnswerIsHonest`, the
refinement of `GuestMachine`, the chain's and the caches' properties and those of `PreEncoded` (they
rest on folds over programs), register routes and native code (finite tables and code
sequences, which the run goes through in full), the composition `BinaryEngine`, and the liveness
properties, which are out of the prover's reach.

## Not modelled

* What remill and LLVM do: the translation of an instruction, disassembly, operand decoding,
  object files. They are external; a handler is known by its opcode and what it may do to
  the program counter, the registers it names and the memory.
* Handler tables (`Handler*.cpp`): generated lists of names and addresses.
* Loading of binaries, files and libraries, the console, stack allocation: calls of the
  operating system or of libraries without decisions of the engine's own.
* The prebuilt handlers of iOS, and what the three MCInst interpreters do to registers.
* `dump`'s output, the wording of XML and of messages.
* Of the debugger: the packets that LLDB's base classes handle, the address translation of
  `SetBreakpoint`, and `Kill`, which exits the host.
* Of hazards that were seen: `Resume`, `Interrupt` and `Detach` walk the thread list without the
  lock that attaching and detaching take; a thread that sleeps when the connection ends is not
  notified; a `Resume` of all threads wakes one. The models take these steps as the code does, but
  nothing in the repository says what should hold, and no property is stated.
* Tools, samples and build scripts.
