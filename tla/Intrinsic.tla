------------------------------ MODULE Intrinsic ------------------------------
(***************************************************************************)
(* The intrinsics that lifted code calls (Intrinsic.cpp): memory accesses  *)
(* that raise events and tell the debugger, atomic operations, barriers,   *)
(* the floating-point environment and system calls.  Guest threads are     *)
(* host threads: they share the memory, and each has its own CPUState and  *)
(* floating-point environment.                                             *)
(*                                                                         *)
(* The guest code is the environment: threads that guard a counter by a    *)
(* lock, or use the floating-point environment, or make system calls.  The *)
(* host's memory has a store buffer per thread, in order on an X64 host,   *)
(* and in any order between addresses on an ARM64 host.                    *)
(***************************************************************************)
EXTENDS Integers, Sequences, SequencesExt, FiniteSets, FiniteSetsExt, TLC

CONSTANTS
  Threads,
  Platforms,    \* what runs where: a set of [program, host, acquire,
                \*   release, handler, debug]: with callbacks, with eventConf.debug
  Words,        \* number of values of a word: integers wrap
  Custom,       \* values a callback puts in the place of the one it is shown
  Excepts,      \* floating-point exceptions that the host has
  MaxSections,  \* bound on the critical sections of a thread
  MaxOps        \* bound on a thread's floating-point operations and system calls

VARIABLES
  platform,   \* member of Platforms
  mem,        \* shared memory: address -> word
  buf,        \* thread -> its stores that are not yet in mem
  guest,      \* thread -> [pc, reg]: where the guest code is, and a register
  call,       \* thread -> the intrinsic in progress
  log,        \* thread -> the events and the call of its current system call
  fenv,       \* thread -> the host's [round, excepts]
  fpu,        \* thread -> the [round, excepts] that the guest code asked for
  count       \* thread -> [sections, adds, ops] it has done

vars == <<platform, mem, buf, guest, call, log, fenv, fpu, count>>
fpvars == <<fenv, fpu>>

Lock == "lock"
Data == "data"
Tally == "tally"
Addresses == {Lock, Data, Tally}

NoCall == [op |-> "none"]
GuestRounds == {"NearestEven", "UpInf", "DownNegInf", "ToZero"}
Stopped == \E t \in Threads : guest[t].pc = "aborted"

\* A thread's own stores are seen by its loads.
Load(t, addr) ==
  LET own == SelectSeq(buf[t], LAMBDA s : s.addr = addr)
  IN IF own = <<>> THEN mem[addr] ELSE Last(own).val

\* A store leaves the buffer.
Flush(t) ==
  \E i \in DOMAIN buf[t] :
    /\ \A j \in 1 .. i - 1 : platform.host = "ARM64" /\ buf[t][j].addr # buf[t][i].addr
    /\ mem' = [mem EXCEPT ![buf[t][i].addr] = buf[t][i].val]
    /\ buf' = [buf EXCEPT ![t] = RemoveAt(@, i)]
    /\ UNCHANGED <<platform, guest, call, log, fpvars, count>>

\* AccessMemory raises an event if there are callbacks, tells the debugger if there is
\* one, and makes the access.
AfterEvent == IF platform.debug THEN "debug" ELSE "access"
FirstStage == IF platform.handler THEN "event" ELSE AfterEvent

Enter(t, access) ==
  /\ call' = [call EXCEPT ![t] = access @@ [stage |-> FirstStage]]
  /\ UNCHANGED <<platform, mem, buf, guest, log, fpvars, count>>

\* The callback is shown the value.  When it answers Processed, a read returns what the
\* callback left there; a write stores the value its caller had before the event, since
\* the right side of the caller's assignment is evaluated first.
MemEvent(t) ==
  /\ call[t].op \in {"read", "write"} /\ call[t].stage = "event"
  /\ LET shown == IF call[t].op = "read" THEN Load(t, call[t].addr) ELSE call[t].val IN
     \E result \in {"Continue", "Processed"} : \E left \in {shown} \cup Custom :
       /\ IF call[t].op = "read" /\ result = "Processed"
          THEN /\ guest' = [guest EXCEPT ![t] = [pc |-> call[t].then, reg |-> left]]
               /\ call' = [call EXCEPT ![t] = NoCall]
          ELSE /\ call' = [call EXCEPT ![t].stage = AfterEvent]
               /\ UNCHANGED guest
  /\ UNCHANGED <<platform, mem, buf, log, fpvars, count>>

\* The debugger's watchdog is told, and may keep the thread for any time.
MemNotify(t) ==
  /\ call[t].op \in {"read", "write"} /\ call[t].stage = "debug"
  /\ call' = [call EXCEPT ![t].stage = "access"]
  /\ UNCHANGED <<platform, mem, buf, guest, log, fpvars, count>>

AccessMemory(t) ==
  /\ call[t].op \in {"read", "write"} /\ call[t].stage = "access"
  /\ call' = [call EXCEPT ![t] = NoCall]
  /\ IF call[t].op = "read"
     THEN /\ guest' = [guest EXCEPT ![t] = [pc |-> call[t].then, reg |-> Load(t, call[t].addr)]]
          /\ UNCHANGED buf
     ELSE /\ guest' = [guest EXCEPT ![t].pc = call[t].then]
          /\ buf' = [buf EXCEPT ![t] = Append(@, [addr |-> call[t].addr, val |-> call[t].val])]
  /\ UNCHANGED <<platform, mem, log, fpvars, count>>

\* an atomic operation that does not wait for the stores before it
Atomic_Relaxed(t, addr, val) ==
  /\ mem' = [mem EXCEPT ![addr] = val]
  /\ UNCHANGED <<platform, buf, call, log, fpvars>>

\* The __sync builtins are full barriers: the thread's stores are in memory first.
Atomic(t, addr, val) ==
  /\ buf[t] = <<>>
  /\ mem' = [mem EXCEPT ![addr] = val]
  /\ UNCHANGED <<platform, buf, call, log, fpvars>>

\* What memory holds afterwards; the old value is what the guest code gets.
compare_exchange(old, expected, desired) == IF old = expected THEN desired ELSE old

\* On words of two bits.
Bit(v, i) == (v \div 2^i) % 2
PairWise(f(_, _), a, b) ==
  Bit(f(Bit(a, 0), Bit(b, 0)), 0) + 2 * Bit(f(Bit(a, 1), Bit(b, 1)), 0)

fetch_and(op, old, val) ==
  CASE op = "add" -> (old + val) % Words
    [] op = "sub" -> (old - val) % Words
    [] op = "or" -> PairWise(LAMBDA a, b : IF a + b > 0 THEN 1 ELSE 0, old, val)
    [] op = "and" -> PairWise(LAMBDA a, b : a * b, old, val)
    [] op = "xor" -> PairWise(LAMBDA a, b : (a + b) % 2, old, val)

\* The guest code that is guarded by a lock: one attempt to take it ...
Acquire(t) ==
  /\ platform.program = "locks" /\ call[t] = NoCall
  /\ guest[t].pc = "idle" /\ count[t].sections < MaxSections
  /\ Atomic(t, Lock, IF platform.acquire = "cas" THEN compare_exchange(mem[Lock], 0, 1)
                     ELSE fetch_and("or", mem[Lock], 1))
  /\ guest' = [guest EXCEPT ![t].pc = IF mem[Lock] = 0 THEN "locked" ELSE "idle"]
  /\ UNCHANGED count

\* ... a read of the counter and a write of the next number ...
Section(t) ==
  /\ call[t] = NoCall
  /\ \/ /\ guest[t].pc = "locked"
        /\ Enter(t, [op |-> "read", addr |-> Data, then |-> "read"])
     \/ /\ guest[t].pc = "read"
        /\ Enter(t, [op |-> "write", addr |-> Data, val |-> (guest[t].reg + 1) % Words,
                     then |-> "written"])

\* ... and the release, after a barrier, which does nothing: a store or an atomic operation.
Release(t) ==
  /\ call[t] = NoCall /\ guest[t].pc = "written" /\ platform.release = "store"
  /\ Enter(t, [op |-> "write", addr |-> Lock, val |-> 0, then |-> "released"])

ReleaseAtomic(t) ==
  /\ call[t] = NoCall /\ guest[t].pc = "written" /\ platform.release # "store"
  /\ Atomic(t, Lock, fetch_and(platform.release, mem[Lock], IF platform.release = "and" THEN 0 ELSE 1))
  /\ guest' = [guest EXCEPT ![t].pc = "released"]
  /\ UNCHANGED count

Leave(t) ==
  /\ guest[t].pc = "released"
  /\ guest' = [guest EXCEPT ![t] = [pc |-> "idle", reg |-> 0]]
  /\ count' = [count EXCEPT ![t].sections = @ + 1]
  /\ UNCHANGED <<platform, mem, buf, call, log, fpvars>>

\* A counter that no lock guards.
Add(t) ==
  /\ platform.program = "locks" /\ call[t] = NoCall
  /\ guest[t].pc = "idle" /\ count[t].adds < MaxSections
  /\ Atomic(t, Tally, fetch_and("add", mem[Tally], 1))
  /\ count' = [count EXCEPT ![t].adds = @ + 1]
  /\ UNCHANGED guest

MapFpuRoundToFe(round) ==
  CASE round = "UpInf" -> "UPWARD" [] round = "DownNegInf" -> "DOWNWARD"
    [] round = "ToZero" -> "TOWARDZERO" [] OTHER -> "TONEAREST"

MapFeToFpuRound(round) ==
  CASE round = "UPWARD" -> "UpInf" [] round = "DOWNWARD" -> "DownNegInf"
    [] round = "TOWARDZERO" -> "ToZero" [] OTHER -> "NearestEven"

\* The exceptions of the two sides; the denormal one is not on every host.
FeOf == [Invalid |-> "INVALID", DivByZero |-> "DIVBYZERO", Overflow |-> "OVERFLOW",
         Underflow |-> "UNDERFLOW", Precision |-> "INEXACT", Denormal |-> "DENORMAL"]

MapFpuExceptToFe(flags) == {FeOf[e] : e \in flags} \cap Excepts
MapFeToFpuExcept(fes) == {e \in DOMAIN FeOf : FeOf[e] \in fes}

Masks == {m \in SUBSET DOMAIN FeOf : Cardinality(m) <= 2}

FpuOp(t, host, asked) ==
  /\ platform.program = "fpu" /\ count[t].ops < MaxOps
  /\ fenv' = [fenv EXCEPT ![t] = host]
  /\ fpu' = [fpu EXCEPT ![t] = asked]
  /\ count' = [count EXCEPT ![t].ops = @ + 1]
  /\ UNCHANGED <<platform, mem, buf, guest, call, log>>

fpu_set_rounding(t) ==
  \E round \in GuestRounds \cup {"ToNearestAway"} :
    FpuOp(t, [fenv[t] EXCEPT !.round = MapFpuRoundToFe(round)],
          [fpu[t] EXCEPT !.round = IF round \in GuestRounds THEN round ELSE "NearestEven"])

fpu_exception_raise(t) ==
  \E mask \in Masks :
    FpuOp(t, [fenv[t] EXCEPT !.excepts = @ \cup MapFpuExceptToFe(mask)],
          [fpu[t] EXCEPT !.excepts = @ \cup mask])

fpu_exception_clear(t) ==
  \E mask \in Masks :
    FpuOp(t, [fenv[t] EXCEPT !.excepts = @ \ MapFpuExceptToFe(mask)],
          [fpu[t] EXCEPT !.excepts = @ \ mask])

\* fetestexcept and fegetround, as the guest code sees them.
fpu_exception_test(t, mask) == MapFeToFpuExcept(fenv[t].excepts \cap MapFpuExceptToFe(mask))
fpu_get_rounding(t) == MapFeToFpuRound(fenv[t].round)

\* __remill_sync_hyper_call of a system call: the number is in rax, and so is the result.
SyscallBefore(t) ==
  /\ platform.program = "syscalls" /\ call[t] = NoCall /\ count[t].ops < MaxOps
  /\ \E sysno \in 1 .. Words - 1 : \E result \in IF platform.handler THEN {"Continue", "Processed"}
                                                 ELSE {"Continue"} :
       /\ log' = [log EXCEPT ![t] =
                    IF platform.handler
                    THEN <<[type |-> "SyscallBefore", result |-> result, sysno |-> sysno]>> ELSE <<>>]
       /\ call' = [call EXCEPT ![t] = [op |-> "syscall", sysno |-> sysno,
                                       stage |-> IF result = "Processed" THEN "return" ELSE "kernel"]]
       /\ guest' = [guest EXCEPT ![t].reg = sysno]
  /\ count' = [count EXCEPT ![t].ops = @ + 1]
  /\ UNCHANGED <<platform, mem, buf, fpvars>>

Syscall(t) ==
  /\ call[t].op = "syscall" /\ call[t].stage = "kernel"
  /\ \E res \in 0 .. Words - 1 : guest' = [guest EXCEPT ![t].reg = res]
  /\ call' = [call EXCEPT ![t].stage = "after"]
  /\ log' = [log EXCEPT ![t] = Append(@, [type |-> "kernel", sysno |-> guest[t].reg])]
  /\ UNCHANGED <<platform, mem, buf, fpvars, count>>

\* the number read from the register again, after the call
SyscallAfter_FromRegister(t) ==
  /\ call[t].op = "syscall" /\ call[t].stage = "after"
  /\ call' = [call EXCEPT ![t].stage = "return"]
  /\ IF platform.handler
     THEN log' = [log EXCEPT ![t] = Append(@, [type |-> "SyscallAfter", sysno |-> guest[t].reg])]
     ELSE UNCHANGED log
  /\ UNCHANGED <<platform, mem, buf, guest, fpvars, count>>

SyscallAfter(t) ==
  /\ call[t].op = "syscall" /\ call[t].stage = "after"
  /\ call' = [call EXCEPT ![t].stage = "return"]
  /\ IF platform.handler
     THEN log' = [log EXCEPT ![t] = Append(@, [type |-> "SyscallAfter", sysno |-> call[t].sysno])]
     ELSE UNCHANGED log
  /\ UNCHANGED <<platform, mem, buf, guest, fpvars, count>>

SyscallReturn(t) ==
  /\ call[t].op = "syscall" /\ call[t].stage = "return"
  /\ call' = [call EXCEPT ![t] = NoCall]
  /\ UNCHANGED <<platform, mem, buf, guest, log, fpvars, count>>

\* The intrinsics with no implementation, and a breakpoint, stop the program.
Abort(t) ==
  /\ platform.program = "syscalls" /\ call[t] = NoCall
  /\ guest' = [guest EXCEPT ![t].pc = "aborted"]
  /\ UNCHANGED <<platform, mem, buf, call, log, fpvars, count>>

Init ==
  /\ platform \in Platforms
  /\ mem = [a \in Addresses |-> 0]
  /\ buf = [t \in Threads |-> <<>>]
  /\ guest = [t \in Threads |-> [pc |-> "idle", reg |-> 0]]
  /\ call = [t \in Threads |-> NoCall]
  /\ log = [t \in Threads |-> <<>>]
  /\ fenv = [t \in Threads |-> [round |-> "TONEAREST", excepts |-> {}]]
  /\ fpu = [t \in Threads |-> [round |-> "NearestEven", excepts |-> {}]]
  /\ count = [t \in Threads |-> [sections |-> 0, adds |-> 0, ops |-> 0]]

ThreadStep(t) ==
  \/ Flush(t)
  \/ MemEvent(t) \/ MemNotify(t) \/ AccessMemory(t)
  \/ Acquire(t) \/ Section(t) \/ Release(t) \/ ReleaseAtomic(t) \/ Leave(t) \/ Add(t)
  \/ fpu_set_rounding(t) \/ fpu_exception_raise(t) \/ fpu_exception_clear(t)
  \/ SyscallBefore(t) \/ Syscall(t) \/ SyscallAfter(t) \/ SyscallReturn(t) \/ Abort(t)

Next == ~Stopped /\ \E t \in Threads : ThreadStep(t)

Spec == Init /\ [][Next]_vars

TypeOK ==
  /\ mem \in [Addresses -> 0 .. Words - 1]
  /\ \A t \in Threads :
       /\ guest[t].pc \in {"idle", "locked", "read", "written", "released", "aborted"}
       /\ guest[t].reg \in 0 .. Words - 1
       /\ call[t].op \in {"none", "read", "write", "syscall"}
       /\ Len(buf[t]) <= 2
       /\ fenv[t].excepts \subseteq Excepts

Total(n) == FoldSet(LAMBDA t, sum : sum + count[t][n], 0, Threads) % Words

\* A lock that guest threads take with the atomic intrinsics guards what they then access
\* through the memory intrinsics: one thread at a time is in its section, and once all
\* have left, the counter it guards has every one of their increments, whatever callbacks
\* and debugger do in between.  The counter that is incremented atomically has all of its own.
SectionsCount ==
  /\ Cardinality({t \in Threads : guest[t].pc \in {"locked", "read"}}) <= 1
  /\ (\A t \in Threads : guest[t].pc = "idle" /\ buf[t] = <<>>) =>
       mem[Data] = Total("sections") /\ mem[Tally] = Total("adds")

\* The events of one system call carry its number, which the result has by then replaced
\* in the register; a call that a callback has answered does not reach the kernel, and
\* the event after a call comes only when it did.
SyscallEvents ==
  platform.program = "syscalls" =>
    \A t \in Threads : \A i, j \in DOMAIN log[t] :
      /\ log[t][i].sysno = log[t][j].sysno
      /\ log[t][i].type = "SyscallBefore" /\ log[t][i].result = "Processed" => Len(log[t]) = 1
      /\ log[t][i].type = "SyscallAfter" => i > 1 /\ log[t][i - 1].type = "kernel"

\* Each guest thread finds the rounding mode and the exceptions that it has set itself,
\* but for exceptions the host does not have, though the host's environment holds them.
FpuAsAsked ==
  \A t \in Threads :
    /\ fpu_get_rounding(t) = fpu[t].round
    /\ \A mask \in Masks :
         fpu_exception_test(t, mask) =
           {e \in mask : e \in fpu[t].excepts /\ FeOf[e] \in Excepts}
==============================================================================
