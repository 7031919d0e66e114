------------------------------ MODULE Debugger ------------------------------
(***************************************************************************)
(* The built-in debugger (lldb/src): the VM threads of a debugged engine   *)
(* against the thread that serves the gdb-remote client.                   *)
(*                                                                         *)
(* A VM thread attaches an AetherThread object whenever its CPU context is *)
(* initialised, calls the watchdog before every guest instruction and      *)
(* detaches when its context is freed (src/CPUState.cpp, Debugger.cpp,     *)
(* Process.cpp, Thread.cpp).  The serving thread executes the client's     *)
(* commands: AetherProcess::Resume, Interrupt, SetBreakpoint,              *)
(* RemoveBreakpoint and Detach.  The two sides share m_threads, m_state of *)
(* every object and m_software_breakpoints without a common lock, so every *)
(* access is a step of its own.                                            *)
(*                                                                         *)
(* m_threads is a vector that grows at the end with increasing identifiers *)
(* and is erased from in place: it is a set of identifiers in their order. *)
(***************************************************************************)
EXTENDS Integers, FiniteSetsExt

CONSTANTS
  Native,      \* the native threads that run guest code
  Main,        \* the one that created the engine, and outlives the others
  Addrs,       \* the guest addresses
  MaxTid,      \* bound on the number of AttachThread calls
  MaxRef,      \* bound on the reference count of a breakpoint
  Commands     \* the kinds of commands the client sends

ASSUME DebuggerAssumption ==
  /\ Main \in Native
  /\ MaxTid \in Nat \ {0} /\ MaxRef \in Nat
  /\ Commands \subseteq {"continue", "step", "interrupt", "breakpoint", "detach",
                         "disconnect"}

VARIABLES
  m_threads,    \* the identifiers of the AetherThread objects in the vector
  m_tid,        \* the next identifier
  native,       \* the native thread each object was made for (GetNativeID)
  m_state,      \* AetherThread::m_state of each object
  thisThread,   \* the thread_local pointer of each native thread; 0 is nullptr
  bps,          \* m_software_breakpoints: the reference count, 0 for no entry
  proc_state,   \* the state NativeProcessProtocol keeps for the process
  detached,     \* dbgContext.detached
  loc,          \* where each native thread is
  pc,           \* the guest address its watchdog call is about
  srv,          \* what the serving thread is doing
  client        \* what the client believes: "stopped", "running" or "gone"

vars == <<m_threads, m_tid, native, m_state, thisThread, bps, proc_state,
          detached, loc, pc, srv, client>>

objvars == <<m_threads, m_tid, native>>

Tids == 1 .. MaxTid

Idle == [op |-> "idle", tid |-> 0, kind |-> "running"]

\* the objects made for native thread n
Objects(n) == {tid \in m_threads : native[tid] = n}

\* NativeProcessProtocol::SetState with notification: nothing happens when the
\* state is the same; a stop is sent to the client
SetState(state) ==
  /\ proc_state' = state
  /\ client' = IF state = "stopped" /\ proc_state # "stopped" /\ client # "gone"
               THEN "stopped" ELSE client

(***************************************************************************)
(* The debugger is initialised by the first initContext: the client is     *)
(* connected, the main thread attached, and both sides agree on "stopped". *)
(***************************************************************************)
Init ==
  /\ m_threads = {1}
  /\ m_tid = 2
  /\ native = [tid \in Tids |-> Main]
  /\ m_state = [tid \in Tids |-> "stopped"]
  /\ thisThread = [n \in Native |-> 0]
  /\ bps = [a \in Addrs |-> 0]
  /\ proc_state = "stopped"
  /\ detached = FALSE
  /\ loc = [n \in Native |-> IF n = Main THEN "host" ELSE "out"]
  /\ pc \in [Native -> Addrs]
  /\ srv = Idle
  /\ client = "stopped"

Moves(n, from, to) == loc[n] = from /\ loc' = [loc EXCEPT ![n] = to]

----------------------------------------------------------------------------
(***************************************************************************)
(* VM threads.                                                             *)
(***************************************************************************)

\* thread_handler with a CPU: AttachThread, unless the debugger has left
AttachThread(n) ==
  IF detached
  THEN UNCHANGED <<objvars, m_state>>
  ELSE /\ m_tid <= MaxTid
       /\ m_threads' = m_threads \cup {m_tid}
       /\ native' = [native EXCEPT ![m_tid] = n]
       /\ m_state' = [m_state EXCEPT ![m_tid] = "stopped"]
       /\ m_tid' = m_tid + 1

\* a detach that leaves the thread_local pointer alone
DetachThread_KeepPointer(n) ==
  /\ IF detached THEN UNCHANGED m_threads
     ELSE m_threads' = IF Objects(n) = {} THEN m_threads
                       ELSE m_threads \ {Min(Objects(n))}
  /\ UNCHANGED thisThread

\* a detach that erases the first object, whosever it is
DetachThread_First(n) ==
  IF detached
  THEN UNCHANGED <<m_threads, thisThread>>
  ELSE /\ m_threads' = m_threads \ {Min(m_threads)}
       /\ thisThread' = [thisThread EXCEPT ![n] = 0]

\* thread_handler without a CPU: DetachThread erases the first object of the thread
DetachThread(n) ==
  IF detached
  THEN UNCHANGED <<m_threads, thisThread>>
  ELSE /\ m_threads' = IF Objects(n) = {} THEN m_threads
                       ELSE m_threads \ {Min(Objects(n))}
       /\ thisThread' = [thisThread EXCEPT ![n] = 0]

\* BinaryEngine::enterThread: initContext(0)
EnterThread(n) ==
  /\ Moves(n, "out", "host")
  /\ AttachThread(n)
  /\ UNCHANGED <<thisThread, bps, proc_state, detached, pc, srv, client>>

\* BinaryEngineImpl::startVM: initContext(entry), then the guest code runs
StartVM(n) ==
  /\ Moves(n, "host", "guest")
  /\ AttachThread(n)
  /\ UNCHANGED <<thisThread, bps, proc_state, detached, pc, srv, client>>

FinishVM(n) ==
  /\ Moves(n, "guest", "host")
  /\ UNCHANGED <<objvars, m_state, thisThread, bps, proc_state, detached, pc, srv,
                 client>>

\* BinaryEngine::leaveThread: freeContext
LeaveThread(n) ==
  /\ n # Main
  /\ Moves(n, "host", "out")
  /\ DetachThread(n)
  /\ UNCHANGED <<m_tid, native, m_state, bps, proc_state, detached, pc, srv, client>>

\* insn_handler before the instruction at a, and AetherProcess::WatchDog begins
Insn(n, a) ==
  /\ ~detached
  /\ Moves(n, "guest", "dog")
  /\ pc' = [pc EXCEPT ![n] = a]
  /\ UNCHANGED <<objvars, m_state, thisThread, bps, proc_state, detached, srv, client>>

\* the look at m_software_breakpoints
CheckBreakpoint(n) ==
  /\ Moves(n, "dog", IF bps[pc[n]] > 0 THEN "hit" ELSE "watch")
  /\ UNCHANGED <<objvars, m_state, thisThread, bps, proc_state, detached, pc, srv,
                 client>>

\* AetherProcess::ThisThread: the cached pointer, or the first object of the thread
This(n) == IF thisThread[n] # 0 THEN thisThread[n] ELSE Min(Objects(n))

CacheThis(n) == thisThread' = [thisThread EXCEPT ![n] = This(n)]

\* AetherThread::HitBreakpoint
HitBreakpoint(n) ==
  /\ Moves(n, "hit", "watch")
  /\ CacheThis(n)
  /\ m_state' = [m_state EXCEPT ![This(n)] = "stopped"]
  /\ UNCHANGED <<objvars, bps, proc_state, detached, pc, srv, client>>

\* AetherThread::WatchDog reads m_state without the lock
WatchStopped(n) ==
  /\ Moves(n, "watch", "lock")
  /\ m_state[This(n)] = "stopped"
  /\ CacheThis(n)
  /\ UNCHANGED <<objvars, m_state, bps, proc_state, detached, pc, srv, client>>

\* a single step that is not turned into a stop
WatchStepping_NoStop(n) ==
  /\ Moves(n, "watch", "watch")
  /\ m_state[This(n)] = "stepping"
  /\ CacheThis(n)
  /\ UNCHANGED <<objvars, m_state, bps, proc_state, detached, pc, srv, client>>

\* a finished single step becomes a stop, and WatchDog calls itself
WatchStepping(n) ==
  /\ Moves(n, "watch", "watch")
  /\ m_state[This(n)] = "stepping"
  /\ CacheThis(n)
  /\ m_state' = [m_state EXCEPT ![This(n)] = "stopped"]
  /\ UNCHANGED <<objvars, bps, proc_state, detached, pc, srv, client>>

WatchRunning(n) ==
  /\ Moves(n, "watch", "guest")
  /\ m_state[This(n)] = "running"
  /\ CacheThis(n)
  /\ UNCHANGED <<objvars, m_state, bps, proc_state, detached, pc, srv, client>>

\* AetherProcess::ReportStopped, under the object's own mutex
ReportStopped(n) ==
  /\ Moves(n, "lock", "wait")
  /\ SetState("stopped")
  /\ UNCHANGED <<objvars, m_state, thisThread, bps, detached, pc, srv>>

\* m_condvar.wait: only from here on does a notification reach the thread
Sleep(n) ==
  /\ Moves(n, "wait", "waiting")
  /\ UNCHANGED <<objvars, m_state, thisThread, bps, proc_state, detached, pc, srv,
                 client>>

\* wait returns; nothing is looked at again and the instruction is executed
WakeUp(n) ==
  /\ Moves(n, "woken", "guest")
  /\ UNCHANGED <<objvars, m_state, thisThread, bps, proc_state, detached, pc, srv,
                 client>>

----------------------------------------------------------------------------
(***************************************************************************)
(* The serving thread.  The client resumes, detaches and edits breakpoints *)
(* when it believes the process is stopped, and interrupts it when it      *)
(* believes it is running.                                                 *)
(***************************************************************************)

\* the native threads asleep on the condition variable of an object in tids
Asleep(tids) == {n \in Native : loc[n] = "waiting" /\ thisThread[n] \in tids}

\* AetherProcess::Resume: the first object with an action is resumed, and only it
Resume(kind, targets) ==
  /\ srv.op = "idle" /\ client = "stopped"
  /\ targets # {}
  /\ srv' = [op |-> "set", tid |-> Min(targets), kind |-> kind]
  /\ client' = "running"
  /\ UNCHANGED <<objvars, m_state, thisThread, bps, proc_state, detached, loc, pc>>

\* AetherThread::Resume and SingleStep: first the state ...
ResumeSetState ==
  /\ srv.op = "set"
  /\ srv' = [srv EXCEPT !.op = "notify"]
  /\ m_state' = [m_state EXCEPT ![srv.tid] = srv.kind]
  /\ UNCHANGED <<objvars, thisThread, bps, proc_state, detached, loc, pc, client>>

\* ... then notify_all, without the object's mutex
ResumeNotify ==
  /\ srv.op = "notify"
  /\ srv' = [srv EXCEPT !.op = "report"]
  /\ loc' = [n \in Native |-> IF n \in Asleep({srv.tid}) THEN "woken" ELSE loc[n]]
  /\ UNCHANGED <<objvars, m_state, thisThread, bps, proc_state, detached, pc, client>>

\* ... and last AetherProcess::ResumeThread declares the process running
ResumeReport ==
  /\ srv.op = "report"
  /\ srv' = Idle
  /\ SetState("running")
  /\ UNCHANGED <<objvars, m_state, thisThread, bps, detached, loc, pc>>

\* an interrupt that does not tell the client
Interrupt_Silent ==
  /\ srv.op = "idle" /\ client = "running"
  /\ m_state' = [tid \in Tids |-> IF tid \in m_threads THEN "stopped" ELSE m_state[tid]]
  /\ proc_state' = "stopped"
  /\ UNCHANGED <<objvars, thisThread, bps, detached, loc, pc, srv, client>>

\* AetherProcess::Interrupt
Interrupt ==
  /\ srv.op = "idle" /\ client = "running"
  /\ m_state' = [tid \in Tids |-> IF tid \in m_threads THEN "stopped" ELSE m_state[tid]]
  /\ SetState("stopped")
  /\ UNCHANGED <<objvars, thisThread, bps, detached, loc, pc, srv>>

SetBreakpoint(a) ==
  /\ srv.op = "idle" /\ client = "stopped"
  /\ bps[a] < MaxRef
  /\ bps' = [bps EXCEPT ![a] = @ + 1]
  /\ UNCHANGED <<objvars, m_state, thisThread, proc_state, detached, loc, pc, srv,
                 client>>

\* a removal that does not look the address up
RemoveBreakpoint_Blind(a) ==
  /\ srv.op = "idle" /\ client = "stopped"
  /\ bps' = [bps EXCEPT ![a] = @ - 1]
  /\ UNCHANGED <<objvars, m_state, thisThread, proc_state, detached, loc, pc, srv,
                 client>>

\* an unknown address is an error reply
RemoveBreakpoint(a) ==
  /\ srv.op = "idle" /\ client = "stopped"
  /\ bps' = [bps EXCEPT ![a] = IF @ = 0 THEN 0 ELSE @ - 1]
  /\ UNCHANGED <<objvars, m_state, thisThread, proc_state, detached, loc, pc, srv,
                 client>>

\* AetherProcess::Detach: every object is resumed and the process released ...
Detach ==
  /\ srv.op = "idle" /\ client = "stopped"
  /\ m_state' = [tid \in Tids |-> IF tid \in m_threads THEN "running" ELSE m_state[tid]]
  /\ loc' = [n \in Native |-> IF n \in Asleep(m_threads) THEN "woken" ELSE loc[n]]
  /\ proc_state' = "detached"
  /\ client' = "gone"
  /\ srv' = [Idle EXCEPT !.op = "leave"]
  /\ UNCHANGED <<objvars, thisThread, bps, detached, pc>>

\* ... then proc_detach turns the handlers off
ProcDetach ==
  /\ srv.op = "leave"
  /\ srv' = Idle
  /\ detached' = TRUE
  /\ UNCHANGED <<objvars, m_state, thisThread, bps, proc_state, loc, pc, client>>

\* the client's connection ends: mainloop.Run returns and proc_detach is called,
\* but nobody is resumed
Disconnect ==
  /\ srv.op = "idle" /\ client # "gone"
  /\ client' = "gone"
  /\ detached' = TRUE
  /\ UNCHANGED <<objvars, m_state, thisThread, bps, proc_state, loc, pc, srv>>

----------------------------------------------------------------------------
\* what happens inside a call of the watchdog
Watchdog(n) ==
  \/ CheckBreakpoint(n) \/ HitBreakpoint(n) \/ WatchStopped(n) \/ WatchStepping(n)
  \/ WatchRunning(n) \/ ReportStopped(n) \/ Sleep(n) \/ WakeUp(n)

VMThread(n) ==
  \/ EnterThread(n) \/ StartVM(n) \/ FinishVM(n) \/ LeaveThread(n)
  \/ \E a \in Addrs : Insn(n, a)
  \/ Watchdog(n)

\* what the serving thread still has to do for a command it has taken
ServeCommand == ResumeSetState \/ ResumeNotify \/ ResumeReport \/ ProcDetach

Command ==
  \/ /\ "continue" \in Commands
     /\ \/ Resume("running", m_threads)
        \/ \E tid \in m_threads : Resume("running", {tid})
  \/ "step" \in Commands /\ \E tid \in m_threads : Resume("stepping", {tid})
  \/ "interrupt" \in Commands /\ Interrupt
  \/ "breakpoint" \in Commands /\ \E a \in Addrs : SetBreakpoint(a) \/ RemoveBreakpoint(a)
  \/ "detach" \in Commands /\ Detach
  \/ "disconnect" \in Commands /\ Disconnect

Next == (\E n \in Native : VMThread(n)) \/ ServeCommand \/ Command

Spec == Init /\ [][Next]_vars

\* Threads that are inside the debugger's code are scheduled by the host and go on;
\* nothing makes the guest run on or the client send anything.
FairSpec == Spec /\ WF_vars(ServeCommand) /\ \A n \in Native : WF_vars(Watchdog(n))

----------------------------------------------------------------------------
\* the thread is inside a call of the watchdog
InWatchdog(n) == loc[n] \in {"dog", "hit", "watch", "lock", "wait", "waiting", "woken"}

\* The type of the state.
TypeOK ==
  /\ m_threads \subseteq Tids
  /\ m_tid \in 1 .. MaxTid + 1
  /\ native \in [Tids -> Native]
  /\ m_state \in [Tids -> {"stopped", "running", "stepping"}]
  /\ thisThread \in [Native -> 0 .. MaxTid]
  /\ bps \in [Addrs -> 0 .. MaxRef]
  /\ proc_state \in {"stopped", "running", "detached"}
  /\ detached \in BOOLEAN
  /\ loc \in [Native -> {"out", "host", "guest", "dog", "hit", "watch", "lock", "wait",
                         "waiting", "woken"}]
  /\ pc \in [Native -> Addrs]
  /\ srv \in [op : {"idle", "set", "notify", "report", "leave"}, tid : 0 .. MaxTid,
              kind : {"running", "stepping"}]
  /\ client \in {"stopped", "running", "gone"}

\* The pointer a native thread has cached in ThisThread is an object that is still
\* in m_threads and was made for that thread, however often it attached, detached
\* and attached again.
ThisThreadIsLive ==
  \A n \in Native : thisThread[n] # 0 => thisThread[n] \in Objects(n)

\* ThisThread always finds an object: a thread inside the watchdog has one, so the
\* unchecked dereference of find_if's result is of an element.
WatchedThreadHasObject == \A n \in Native : InWatchdog(n) => Objects(n) # {}

\* Whenever the serving thread has finished a command, the client and the process
\* agree on whether the process is stopped, whatever the VM threads reported while
\* the command was carried out.
ClientAgrees == srv.op = "idle" /\ client # "gone" => client = proc_state

(***************************************************************************)
(* The inductive invariant behind the three properties above.  Identifiers *)
(* are never used twice; a thread the debugger must know of has an object  *)
(* or the debugger has left; a Resume that has not finished leaves the     *)
(* process in the state "stopped" and the client without a report.         *)
(***************************************************************************)
ObjectsInv ==
  /\ \A tid \in m_threads : tid < m_tid
  /\ ThisThreadIsLive
  /\ WatchedThreadHasObject
  /\ \A n \in Native : loc[n] \in {"host", "guest"} => detached \/ Objects(n) # {}

CommandInv ==
  /\ ClientAgrees
  /\ srv.op \in {"set", "notify", "report"} => client = "running" /\ proc_state = "stopped"
  /\ srv.op = "leave" => client = "gone"
  /\ srv.op \in {"set", "notify", "report"} => srv.tid # 0

IndInv == TypeOK /\ ObjectsInv /\ CommandInv

\* Every call of the watchdog comes to an end, unless the client goes on interrupting
\* for ever: the thread goes back to the guest or is asleep until the client resumes it.
WatchdogSettles ==
  <>[][~Interrupt]_vars =>
    \A n \in Native : (loc[n] = "dog") ~> (loc[n] \in {"guest", "waiting"})

\* Process.h: Resume is to "resume execution": once it is done, no thread sleeps on
\* while its own state says that it runs.
NoLostWakeup ==
  srv.op = "idle" =>
    \A n \in Native : loc[n] = "waiting" /\ thisThread[n] \in m_threads
                        => m_state[thisThread[n]] = "stopped"
============================================================================
