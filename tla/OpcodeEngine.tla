---------------------------- MODULE OpcodeEngine ----------------------------
(***************************************************************************)
(* The opcode engine (src/OpcodeEngine.h, src/OpcodeEngine.cpp): threads   *)
(* emulate single opcodes with handlers that they look up, or create.  The *)
(* engine's own handlers are filled by prefetch and shared read-only;      *)
(* every thread has an engine EMU of its own for the rest.  All handlers   *)
(* use one list of operands, one list of MCInsts and the same pages of     *)
(* generated code; init guards these with the engine's mutex.              *)
(* Operands are known by their identity here (see module Operands), and a  *)
(* vector's elements are counted from 1.                                   *)
(***************************************************************************)
EXTENDS Integers, Sequences, FiniteSets

CONSTANTS
  Threads,      \* threads that emulate, between enterThread and leaveThread
  Opcodes,
  OperandIds,
  Undecoded,    \* the opcodes of which remill reads no bytes
  Kind,         \* what init makes of an opcode: "Remill", "MCInst", "Dynamic" (native code)
                \* or "Unknown" (LLVM does not know it either)
  Ops,          \* the identities of the operands of an opcode
  CodeSize,     \* the size of the code generated for an opcode
  Hash,         \* fib_hash8
  Implemented,  \* the MCInsts that interpMCInstARM64 has a case for
  MaxArgs,      \* the number of operands interpRemill can pass, 13
  page_size,
  MaxCalls,     \* bound: how often the threads call prefetch or emulate, or exit
  MaxEngines    \* bound: how many binary engines there are, one after the other

Shared == "opcodeEmu"
Engines == Threads \cup {Shared}
Nobody == "nobody"
NoOpcode == "none"

ASSUME OpcodeAssumption ==
  /\ Shared \notin Threads
  /\ Nobody \notin Threads
  /\ NoOpcode \notin Opcodes
  /\ page_size \in Nat
  /\ CodeSize \in [Opcodes -> 1 .. page_size]
  /\ Ops \in [Opcodes -> Seq(OperandIds)]
  /\ MaxArgs \in Nat

VARIABLES
  handlers,    \* OpcodeHandlers::handlers of every engine
  caches,      \* OpcodeHandlers::caches: the opcode of the handler pointed to
  operands,    \* the shared operands
  operandmap,  \* operand identity -> index
  insts,       \* the shared MCInsts, by opcode
  code,        \* pages of generated code: the opcode that owns each byte
  pagecur,     \* the bytes used of the last page
  writable,    \* is the last page rw- rather than r-x
  mutex,       \* the holder of BinaryEngineImpl::mutex
  pc,          \* where a thread is
  job,         \* what it has been asked for: see NoJob
  run,         \* what it has run: see NoRun
  calls,       \* how many calls there have been
  gen          \* the number of the present binary engine

code_vars == <<code, pagecur, writable>>
operand_vars == <<operands, operandmap>>
vars == <<handlers, caches, operands, operandmap, insts, code, pagecur, writable,
          mutex, pc, job, run, calls, gen>>

(***************************************************************************)
(* A handler: its type, its arguments (indexes of operands, or of the      *)
(* MCInst), the page and offset of its code if generated, and, as history, *)
(* the binary engine it was made under.  set::insert makes a blank one,    *)
(* which reads as Remill without an implementation.                        *)
(***************************************************************************)
NoCode    == <<0, 0>>
AbortCode == <<-1, 0>>
Handler(type, args, impl) == [type |-> type, args |-> args, impl |-> impl, gen |-> gen]
NoHandler == [type |-> "none", args |-> <<>>, impl |-> NoCode, gen |-> 0]

\* a job: the call, the opcode, and the engine that has or gets the handler
NoJob == [call |-> "none", op |-> NoOpcode, eng |-> Shared]

\* a run: the opcode of the handler that was found, whether the operand or MCInst pointed
\* to is still there, the handlers that ran in this call, and its answer
NoRun == [hit |-> NoOpcode, there |-> TRUE, ran |-> <<>>, res |-> FALSE]

Init ==
  /\ handlers = [e \in Engines |-> [o \in Opcodes |-> NoHandler]]
  /\ caches = [e \in Engines |-> [h \in {Hash[o] : o \in Opcodes} |-> NoOpcode]]
  /\ operands = <<>> /\ operandmap = <<>>
  /\ insts = <<>>
  /\ code = <<>> /\ pagecur = 0 /\ writable = FALSE
  /\ mutex = Nobody
  /\ pc = [t \in Threads |-> "idle"]
  /\ job = [t \in Threads |-> NoJob]
  /\ run = [t \in Threads |-> NoRun]
  /\ calls = 0
  /\ gen = 1

At(t, where) == pc[t] = where

Go(t, where) == pc' = [pc EXCEPT ![t] = where]

Move(t, where) == Go(t, where) /\ UNCHANGED <<job, run>>

Return(t, ran, res) ==
  /\ Go(t, "answer")
  /\ UNCHANGED job
  /\ run' = [run EXCEPT ![t] = [@ EXCEPT !.ran = ran, !.res = res]]

\* the handler being initialized by t, and with it
Own(t) == handlers[job[t].eng][job[t].op]
SetOwn(t, h) == handlers' = [handlers EXCEPT ![job[t].eng][job[t].op] = h]

\* the handler t has found
Hitted(t) == handlers[job[t].eng][run[t].hit]

\* the user calls prefetch while nothing is emulated
Quiet == \A u \in Threads : At(u, "idle")
Prefetching == \E u \in Threads : ~At(u, "idle") /\ job[u].call = "prefetch"

----------------------------------------------------------------------------
Call == calls < MaxCalls /\ calls' = calls + 1

\* OpcodeEngine::prefetch and OpcodeHandlers::prefetch, for an opcode not yet there
prefetch(t, o) ==
  /\ Call
  /\ Quiet
  /\ handlers[Shared][o] = NoHandler
  /\ handlers' = [handlers EXCEPT ![Shared][o] = Handler("Blank", <<>>, NoCode)]
  /\ Go(t, "init")
  /\ job' = [job EXCEPT ![t] = [call |-> "prefetch", op |-> o, eng |-> Shared]]
  /\ UNCHANGED <<caches, operand_vars, insts, code_vars, mutex, run, gen>>

\* BinaryEngine::emulate: the engine's handlers first, then the thread's
emulate(t, o) ==
  /\ Call
  /\ At(t, "idle")
  /\ ~Prefetching
  /\ Go(t, "shared")
  /\ job' = [job EXCEPT ![t] = [call |-> "emulate", op |-> o, eng |-> Shared]]
  /\ UNCHANGED <<handlers, caches, operand_vars, insts, code_vars, mutex, run, gen>>

\* a cache that trusts the hash
Cached_AnyOpcode(e, o) == caches[e][Hash[o]]

\* the handler the cache has for o
Cached(e, o) == IF caches[e][Hash[o]] = o THEN o ELSE NoOpcode

Found(e, o) ==
  IF Cached(e, o) # NoOpcode THEN Cached(e, o)
  ELSE IF handlers[e][o] # NoHandler THEN o ELSE NoOpcode

\* OpcodeHandlers::emulate in engine e, when there is a handler
Hit(t, e) ==
  /\ Found(e, job[t].op) # NoOpcode
  /\ caches' = [caches EXCEPT ![e][Hash[job[t].op]] = Found(e, job[t].op)]
  /\ Go(t, "interpret")
  /\ job' = [job EXCEPT ![t].eng = e]
  /\ run' = [run EXCEPT ![t].hit = Found(e, job[t].op)]
  /\ UNCHANGED <<handlers, operand_vars, insts, code_vars, mutex, calls, gen>>

HitShared(t) == At(t, "shared") /\ Hit(t, Shared)

HitOwn(t) == At(t, "own") /\ Hit(t, t)

\* the engine's own handlers are read-only
MissShared(t) ==
  /\ At(t, "shared")
  /\ Found(Shared, job[t].op) = NoOpcode
  /\ Move(t, "own")
  /\ UNCHANGED <<handlers, caches, operand_vars, insts, code_vars, mutex, calls, gen>>

\* the thread's are not: a handler is created
MissOwn(t) ==
  /\ At(t, "own")
  /\ Found(t, job[t].op) = NoOpcode
  /\ handlers' = [handlers EXCEPT ![t][job[t].op] = Handler("Blank", <<>>, NoCode)]
  /\ Go(t, "lock")
  /\ job' = [job EXCEPT ![t].eng = t]
  /\ UNCHANGED <<caches, operand_vars, insts, code_vars, mutex, run, calls, gen>>

----------------------------------------------------------------------------
\* an init that does not take the lock
Lock_None(t) ==
  /\ At(t, "lock")
  /\ Move(t, "init")
  /\ UNCHANGED <<handlers, caches, operand_vars, insts, code_vars, mutex, calls, gen>>

\* OpcodeHandler::init() takes the engine's lock, the one prefetch does not take
Lock(t) ==
  /\ At(t, "lock")
  /\ mutex = Nobody
  /\ mutex' = t
  /\ Move(t, "init")
  /\ UNCHANGED <<handlers, caches, operand_vars, insts, code_vars, calls, gen>>

\* an early return that keeps the lock
Unlock_Never(t) == mutex' = mutex

\* the end of init: the lock is released, and the call goes on with the handler
Unlock(t) == mutex' = IF mutex = t THEN Nobody ELSE mutex

Ready(t) ==
  /\ Unlock(t)
  /\ caches' = [caches EXCEPT ![job[t].eng][Hash[job[t].op]] = job[t].op]
  /\ IF job[t].call = "prefetch"
     THEN Return(t, <<>>, FALSE)
     ELSE Go(t, "interpret") /\ UNCHANGED job /\ run' = [run EXCEPT ![t].hit = job[t].op]

\* The first decision of init: when remill reads no bytes, emulate's gives up, while
\* prefetch's goes on with the bytes there are.
Becomes(t) ==
  IF job[t].op \in Undecoded /\ job[t].call = "emulate" THEN "Refused" ELSE Kind[job[t].op]

\* emulate returns false, and leaves the blank handler behind
initRefused(t) ==
  /\ At(t, "init")
  /\ Becomes(t) = "Refused"
  /\ Unlock(t)
  /\ Return(t, <<>>, FALSE)
  /\ UNCHANGED <<handlers, caches, operand_vars, insts, code_vars, calls, gen>>

\* disassembling fails: the implementation is abort
initAbort(t) ==
  /\ At(t, "init")
  /\ Becomes(t) = "Unknown"
  /\ SetOwn(t, Handler("Dynamic", <<>>, AbortCode))
  /\ Ready(t)
  /\ UNCHANGED <<operand_vars, insts, code_vars, calls, gen>>

\* initRemill: the implementation is set, the operands follow
initRemill(t) ==
  /\ At(t, "init")
  /\ Becomes(t) = "Remill"
  /\ SetOwn(t, Handler("Remill", <<>>, NoCode))
  /\ Move(t, "operand")
  /\ UNCHANGED <<caches, operand_vars, insts, code_vars, mutex, calls, gen>>

\* the next operand of the instruction
Wanted(t) == Ops[job[t].op][Len(Own(t).args) + 1]

More(t) == Len(Own(t).args) < Len(Ops[job[t].op])

operandKnown(t) ==
  /\ At(t, "operand")
  /\ More(t)
  /\ Wanted(t) \in DOMAIN operandmap
  /\ SetOwn(t, Handler("Remill", Append(Own(t).args, operandmap[Wanted(t)]), NoCode))
  /\ UNCHANGED <<caches, operand_vars, insts, code_vars, mutex, pc, job, run, calls, gen>>

\* push_back may move the vector that the handlers of the type point into
Push(type) ==
  \E moves \in BOOLEAN :
    run' = [u \in Threads |->
              IF moves /\ At(u, "lift") /\ Hitted(u).type = type
              THEN [run[u] EXCEPT !.there = FALSE] ELSE run[u]]

\* operands.push_back
operandPush(t) ==
  /\ At(t, "operand")
  /\ More(t)
  /\ Wanted(t) \notin DOMAIN operandmap
  /\ operands' = Append(operands, Wanted(t))
  /\ Push("Remill")
  /\ Go(t, "map")
  /\ UNCHANGED <<handlers, caches, operandmap, insts, code_vars, mutex, job, calls, gen>>

\* operandmap.insert, with the index of the last operand
operandMap(t) ==
  /\ At(t, "map")
  /\ operandmap' = [id \in DOMAIN operandmap \cup {Wanted(t)} |->
                      IF id = Wanted(t) THEN Len(operands) ELSE operandmap[id]]
  /\ SetOwn(t, Handler("Remill", Append(Own(t).args, Len(operands)), NoCode))
  /\ Move(t, "operand")
  /\ UNCHANGED <<caches, operands, insts, code_vars, mutex, calls, gen>>

operandsDone(t) ==
  /\ At(t, "operand")
  /\ ~More(t)
  /\ Ready(t)
  /\ UNCHANGED <<handlers, operand_vars, insts, code_vars, calls, gen>>

\* initMCInstARM64: the MCInst of an opcode is kept once (instmap maps insts[i] to i)
instKnown(t) ==
  /\ At(t, "init")
  /\ Becomes(t) = "MCInst"
  /\ \E i \in DOMAIN insts :
       /\ insts[i] = job[t].op
       /\ SetOwn(t, Handler("MCInst", <<i>>, NoCode))
  /\ Ready(t)
  /\ UNCHANGED <<operand_vars, insts, code_vars, calls, gen>>

instPush(t) ==
  /\ At(t, "init")
  /\ Becomes(t) = "MCInst"
  /\ \A i \in DOMAIN insts : insts[i] # job[t].op
  /\ insts' = Append(insts, job[t].op)
  /\ Push("MCInst")
  /\ Go(t, "instmap")
  /\ UNCHANGED <<handlers, caches, operand_vars, code_vars, mutex, job, calls, gen>>

instMap(t) ==
  /\ At(t, "instmap")
  /\ SetOwn(t, Handler("MCInst", <<Len(insts)>>, NoCode))
  /\ Ready(t)
  /\ UNCHANGED <<operand_vars, insts, code_vars, calls, gen>>

\* a test for room that is one byte off
Room_OffByOne(size) == code # <<>> /\ page_size - pagecur >= size - 1

Room(size) == code # <<>> /\ page_size - pagecur >= size

\* initDynamic up to the first page_commit: a page with room, made writable
initDynamic(t) ==
  /\ At(t, "init")
  /\ Becomes(t) = "Dynamic"
  /\ IF Room(CodeSize[job[t].op])
     THEN UNCHANGED <<code, pagecur>>
     ELSE code' = Append(code, [b \in 0 .. page_size - 1 |-> NoOpcode]) /\ pagecur' = 0
  /\ writable' = TRUE
  /\ SetOwn(t, Handler("Dynamic", <<>>, NoCode))
  /\ Move(t, "emit")
  /\ UNCHANGED <<caches, operand_vars, insts, mutex, calls, gen>>

\* the rest: the code is copied, and the page made executable again
emitDynamic(t) ==
  /\ At(t, "emit")
  /\ LET o    == job[t].op
         used == pagecur .. pagecur + CodeSize[o] - 1
     IN /\ code' = [code EXCEPT ![Len(code)] = [b \in DOMAIN @ |-> IF b \in used THEN o ELSE @[b]]]
        /\ pagecur' = pagecur + CodeSize[o]
        /\ SetOwn(t, Handler("Dynamic", <<>>, <<Len(code), pagecur>>))
  /\ writable' = FALSE
  /\ Ready(t)
  /\ UNCHANGED <<operand_vars, insts, calls, gen>>

----------------------------------------------------------------------------
\* where the generated code of the handler is
Page(t)   == Hitted(t).impl[1]
Offset(t) == Hitted(t).impl[2]

rest_vars == <<handlers, caches, operand_vars, insts, code_vars, mutex, calls, gen>>

\* a thread that faults, aborts or calls stops the process
Stop(t) == Move(t, "stopped")

\* interpret of a blank handler calls a null implementation, of AbortCode abort
interpretStops(t) ==
  /\ At(t, "interpret")
  /\ \/ Hitted(t).type = "Blank"
     \/ Hitted(t).type = "Dynamic" /\ Hitted(t).impl = AbortCode
     \/ Hitted(t).type = "MCInst" /\ run[t].hit \notin Implemented
  /\ Stop(t)
  /\ UNCHANGED rest_vars

\* interpRemill has no call for that many arguments: the engine's answer is false, and
\* BinaryEngine::emulate goes on with the thread's engine
interpretRefuses(t) ==
  /\ At(t, "interpret")
  /\ Hitted(t).type = "Remill"
  /\ Len(Hitted(t).args) > MaxArgs
  /\ IF job[t].eng = Shared THEN Move(t, "own") ELSE Return(t, <<>>, FALSE)
  /\ UNCHANGED rest_vars

\* interpRemill and interpMCInstARM64 take pointers into the shared vectors
interpretPoints(t) ==
  /\ At(t, "interpret")
  /\ \/ Hitted(t).type = "Remill" /\ Len(Hitted(t).args) <= MaxArgs
     \/ Hitted(t).type = "MCInst" /\ run[t].hit \in Implemented
  /\ Move(t, "lift")
  /\ UNCHANGED rest_vars

Dangles(t) ==
  \/ ~run[t].there
  \/ /\ Hitted(t).type = "Remill"
     /\ \E k \in DOMAIN Hitted(t).args : Hitted(t).args[k] > Len(operands)

\* the operands are lifted and the implementation called.  A pointer to where there is no
\* operand any more reads what was there, or faults.
interpretLifts(t) ==
  /\ At(t, "lift")
  /\ \/ Return(t, Append(run[t].ran, run[t].hit), TRUE)
     \/ Dangles(t) /\ Stop(t)
  /\ UNCHANGED rest_vars

interpretExec(t) ==
  /\ At(t, "interpret")
  /\ Hitted(t).type = "Dynamic"
  /\ Hitted(t).impl # AbortCode
  /\ Move(t, "exec")
  /\ UNCHANGED rest_vars

\* is the page of the code of the handler there, and executable
Executable(t) == Page(t) < Len(code) \/ (Page(t) = Len(code) /\ ~writable)

\* execDynamic: the code at impl runs.  The page of a handler of an earlier engine has been
\* returned to the system, which may have used the address for a page of this one.
execDynamic(t) ==
  /\ At(t, "exec")
  /\ \/ /\ Executable(t)
        /\ Return(t, Append(run[t].ran, code[Page(t)][Offset(t)]), TRUE)
     \/ /\ ~Executable(t) \/ Hitted(t).gen # gen
        /\ Stop(t)
  /\ UNCHANGED rest_vars

\* the call is over
back(t) ==
  /\ At(t, "answer")
  /\ Go(t, "idle")
  /\ job' = [job EXCEPT ![t] = NoJob]
  /\ run' = [run EXCEPT ![t] = NoRun]
  /\ UNCHANGED rest_vars

----------------------------------------------------------------------------
NoHandlers(e) == [handlers EXCEPT ![e] = [o \in Opcodes |-> NoHandler]]

NoCache(e) == [caches EXCEPT ![e] = [h \in DOMAIN @ |-> NoOpcode]]

\* ~OpcodeEngine of the EMU of a thread; a new thread takes its place
threadExit(t) ==
  /\ At(t, "idle")
  /\ Call
  /\ handlers' = NoHandlers(t)
  /\ caches' = NoCache(t)
  /\ UNCHANGED <<operand_vars, insts, code_vars, mutex, pc, job, run, gen>>

\* ~OpcodeEngine of the binary engine, and a new binary engine.  The threads keep theirs,
\* and the MCInsts stay.
recreate ==
  /\ Quiet
  /\ gen < MaxEngines
  /\ gen' = gen + 1
  /\ handlers' = NoHandlers(Shared)
  /\ caches' = NoCache(Shared)
  /\ operands' = <<>> /\ operandmap' = <<>>
  /\ code' = <<>> /\ pagecur' = 0 /\ writable' = FALSE
  /\ UNCHANGED <<insts, mutex, pc, job, run, calls>>

----------------------------------------------------------------------------
Running == \A t \in Threads : ~At(t, "stopped")

\* what a thread that is in a call does next
Step(t) ==
  Running /\ \/ HitShared(t) \/ MissShared(t) \/ HitOwn(t) \/ MissOwn(t) \/ Lock(t)
             \/ initRefused(t) \/ initAbort(t) \/ initRemill(t)
             \/ operandKnown(t) \/ operandPush(t) \/ operandMap(t) \/ operandsDone(t)
             \/ instKnown(t) \/ instPush(t) \/ instMap(t) \/ initDynamic(t) \/ emitDynamic(t)
             \/ interpretStops(t) \/ interpretRefuses(t) \/ interpretPoints(t)
             \/ interpretLifts(t) \/ interpretExec(t) \/ execDynamic(t) \/ back(t)

User(t) ==
  Running /\ \/ threadExit(t)
             \/ \E o \in Opcodes : prefetch(t, o) \/ emulate(t, o)

Next == (\E t \in Threads : Step(t) \/ User(t)) \/ (Running /\ recreate)

Spec == Init /\ [][Next]_vars

\* a thread in a call goes on with it
FairSpec == Spec /\ \A t \in Threads : WF_vars(Step(t))

----------------------------------------------------------------------------
HandlerOK(h) ==
  /\ h.type \in {"none", "Blank", "Remill", "MCInst", "Dynamic"}
  /\ h.args \in Seq(Nat)
  /\ h.gen \in 0 .. gen

\* the types, with the limit of a page
TypeOK ==
  /\ \A e \in Engines, o \in Opcodes : HandlerOK(handlers[e][o])
  /\ operands \in Seq(OperandIds)
  /\ DOMAIN operandmap \subseteq OperandIds
  /\ pagecur \in 0 .. page_size
  /\ writable \in BOOLEAN
  /\ mutex \in Threads \cup {Nobody}
  /\ gen \in Nat

Resolves(o, h) ==
  /\ Len(h.args) <= Len(Ops[o])
  /\ \A k \in 1 .. Len(h.args) :
       h.args[k] \in 1 .. Len(operands) /\ operands[h.args[k]] = Ops[o][k]

(***************************************************************************)
(* Whatever the interleaving of the inits, every Remill handler made under *)
(* the present engine names its own operands, in order (initRemill): find, *)
(* push_back and insert of two handlers never mix.                         *)
(***************************************************************************)
ArgsResolve ==
  \A e \in Engines, o \in Opcodes :
    handlers[e][o].type = "Remill" /\ handlers[e][o].gen = gen => Resolves(o, handlers[e][o])

(***************************************************************************)
(* The code generated for a handler under the present engine (initDynamic) *)
(* lies in one page, and no other handler's code has been copied over it.  *)
(***************************************************************************)
CodeIsOwn ==
  \A e \in Engines, o \in Opcodes :
    LET h == handlers[e][o]
    IN h.type = "Dynamic" /\ h.gen = gen /\ h.impl \notin {NoCode, AbortCode} =>
         /\ h.impl[1] \in DOMAIN code
         /\ \A b \in h.impl[2] .. h.impl[2] + CodeSize[o] - 1 :
              b \in DOMAIN code[h.impl[1]] /\ code[h.impl[1]][b] = o

(***************************************************************************)
(* emulate answers true when it has run the handler of the opcode asked    *)
(* for, exactly once, and false when it has run none - whether the handler *)
(* came from the engine's or the thread's cache, its set or a new init,    *)
(* and also when the engine's answer was false first.  (Not said of        *)
(* handlers that outlived their binary engine.)                            *)
(***************************************************************************)
AnswerIsHonest ==
  \A t \in Threads :
    At(t, "answer") /\ job[t].call = "emulate" =>
      IF run[t].res
      THEN Hitted(t).gen = gen => run[t].ran = <<job[t].op>>
      ELSE run[t].ran = <<>>

(***************************************************************************)
(* Every call returns unless the process stops: no early return of init    *)
(* keeps the mutex, and two threads never wait for each other.             *)
(***************************************************************************)
CallsReturn ==
  \A t \in Threads : ~At(t, "idle") ~> (At(t, "idle") \/ ~Running)

(***************************************************************************)
(* "make it readonly so that each thread can share its handlers"           *)
(* (src/BinaryEngine.cpp:54): what a shared handler points to stays as     *)
(* long as a thread runs it - the operand or MCInst in its buffer, and the *)
(* code in an executable page.                                             *)
(***************************************************************************)
SharedHandlersStay ==
  \A t \in Threads :
    job[t].eng = Shared =>
      /\ At(t, "lift") => ~Dangles(t)
      /\ At(t, "exec") => Executable(t)
============================================================================
