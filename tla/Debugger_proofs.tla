-------------------------- MODULE Debugger_proofs ---------------------------
(***************************************************************************)
(* Proofs about the debugger's thread objects, for any number of native    *)
(* threads, attaches and commands.                                         *)
(***************************************************************************)
EXTENDS Debugger, WellFoundedInduction, TLAPS

\* A nonempty set of natural numbers has the least element Min chooses.
LEMMA MinIsElement ==
  ASSUME NEW S \in SUBSET Nat, S # {}
  PROVE  Min(S) \in S /\ \A x \in S : Min(S) <= x
<1> DEFINE R == OpToRel(<, Nat)
<1>1. IsWellFoundedOn(R, Nat)
  BY NatLessThanWellFounded
<1>2. PICK x \in S : \A y \in S : ~(<<y, x>> \in R)
  <2> HIDE DEF R
  <2> QED BY <1>1, WFMin, Zenon
<1>3. \A y \in S : ~(y < x)
  BY <1>2 DEF OpToRel
<1>4. \A y \in S : x <= y
  BY <1>3
<1> QED BY <1>4 DEF Min

----------------------------------------------------------------------------
\* Identifiers are natural numbers, and 0 is not one of them.
LEMMA TidsAreNumbers == Tids \subseteq Nat /\ Tids \subseteq 0 .. MaxTid /\ 0 \notin Tids
BY DebuggerAssumption DEF Tids

\* ThisThread returns an object of the calling thread.
LEMMA ThisIsObject ==
  ASSUME TypeOK, ObjectsInv, NEW n \in Native, InWatchdog(n)
  PROVE  This(n) \in Objects(n) /\ This(n) \in Tids /\ This(n) # 0
<1>1. Objects(n) \subseteq Tids
  BY DEF Objects, TypeOK
<1>2. Objects(n) \in SUBSET Nat
  BY <1>1, TidsAreNumbers
<1>3. Objects(n) # {}
  BY DEF ObjectsInv, WatchedThreadHasObject
<1>4. Min(Objects(n)) \in Objects(n)
  BY <1>2, <1>3, MinIsElement
<1>5. thisThread[n] # 0 => thisThread[n] \in Objects(n)
  BY DEF ObjectsInv, ThisThreadIsLive
<1>6. This(n) \in Objects(n)
  BY <1>4, <1>5 DEF This
<1> QED BY <1>1, <1>6, TidsAreNumbers

\* AttachThread hands out an identifier that is in range.
LEMMA NextTidInRange ==
  ASSUME TypeOK, m_tid <= MaxTid
  PROVE  m_tid \in Tids /\ m_tid + 1 \in 1 .. MaxTid + 1
BY DebuggerAssumption DEF TypeOK, Tids

\* The types are preserved: one case per action.
LEMMA TypeStep ==
  ASSUME TypeOK, ObjectsInv, CommandInv, [Next]_vars
  PROVE  TypeOK'
<1> USE DEF Moves, objvars
<1>1. ASSUME NEW n \in Native, EnterThread(n) PROVE TypeOK'
  BY <1>1, NextTidInRange DEF EnterThread, AttachThread, TypeOK
<1>2. ASSUME NEW n \in Native, StartVM(n) PROVE TypeOK'
  BY <1>2, NextTidInRange DEF StartVM, AttachThread, TypeOK
<1>3. ASSUME NEW n \in Native, FinishVM(n) PROVE TypeOK'
  BY <1>3 DEF FinishVM, TypeOK
<1>4. ASSUME NEW n \in Native, LeaveThread(n) PROVE TypeOK'
  BY <1>4, DebuggerAssumption DEF LeaveThread, DetachThread, TypeOK
<1>5. ASSUME NEW n \in Native, NEW a \in Addrs, Insn(n, a) PROVE TypeOK'
  BY <1>5 DEF Insn, TypeOK
<1>6. ASSUME NEW n \in Native, CheckBreakpoint(n) PROVE TypeOK'
  BY <1>6 DEF CheckBreakpoint, TypeOK
<1>7. ASSUME NEW n \in Native, HitBreakpoint(n) PROVE TypeOK'
  <2>1. This(n) \in Tids /\ This(n) \in 0 .. MaxTid
    BY <1>7, ThisIsObject, TidsAreNumbers DEF HitBreakpoint, InWatchdog
  <2> QED BY <1>7, <2>1 DEF HitBreakpoint, CacheThis, TypeOK
<1>8. ASSUME NEW n \in Native, WatchStopped(n) \/ WatchStepping(n) \/ WatchRunning(n)
      PROVE TypeOK'
  <2>1. This(n) \in Tids /\ This(n) \in 0 .. MaxTid
    BY <1>8, ThisIsObject, TidsAreNumbers
       DEF WatchStopped, WatchStepping, WatchRunning, InWatchdog
  <2>2. CASE WatchStopped(n)
    BY <2>1, <2>2 DEF WatchStopped, CacheThis, TypeOK
  <2>3. CASE WatchStepping(n)
    BY <2>1, <2>3 DEF WatchStepping, CacheThis, TypeOK
  <2>4. CASE WatchRunning(n)
    BY <2>1, <2>4 DEF WatchRunning, CacheThis, TypeOK
  <2> QED BY <1>8, <2>2, <2>3, <2>4
<1>9. ASSUME NEW n \in Native, ReportStopped(n) PROVE TypeOK'
  BY <1>9 DEF ReportStopped, SetState, TypeOK
<1>10. ASSUME NEW n \in Native, Sleep(n) PROVE TypeOK'
  BY <1>10 DEF Sleep, TypeOK
<1>11. ASSUME NEW n \in Native, WakeUp(n) PROVE TypeOK'
  BY <1>11 DEF WakeUp, TypeOK
<1>12. ASSUME NEW kind \in {"running", "stepping"}, NEW targets \in SUBSET m_threads,
              Resume(kind, targets)
       PROVE TypeOK'
  <2>1. targets \in SUBSET Nat /\ targets \subseteq Tids
    BY TidsAreNumbers DEF TypeOK
  <2>2. Min(targets) \in 0 .. MaxTid
    BY <1>12, <2>1, MinIsElement, TidsAreNumbers DEF Resume
  <2>3. Asleep(m_threads) \in SUBSET Native
    BY DEF Asleep
  <2> QED BY <1>12, <2>2, <2>3 DEF Resume, TypeOK
<1>13. CASE ResumeSetState
  <2>1. srv.tid \in Tids
    BY <1>13, DebuggerAssumption DEF ResumeSetState, CommandInv, TypeOK, Tids
  <2> QED BY <1>13, <2>1 DEF ResumeSetState, TypeOK
<1>14. CASE ResumeNotify
  BY <1>14 DEF ResumeNotify, Asleep, TypeOK
<1>15. CASE ResumeReport
  BY <1>15, DebuggerAssumption DEF ResumeReport, SetState, Idle, TypeOK
<1>16. CASE Interrupt
  BY <1>16 DEF Interrupt, SetState, TypeOK
<1>17. ASSUME NEW a \in Addrs, SetBreakpoint(a) PROVE TypeOK'
  BY <1>17, DebuggerAssumption DEF SetBreakpoint, TypeOK
<1>18. ASSUME NEW a \in Addrs, RemoveBreakpoint(a) PROVE TypeOK'
  BY <1>18, DebuggerAssumption DEF RemoveBreakpoint, TypeOK
<1>19. CASE Detach
  <2>1. srv' \in [op : {"idle", "set", "notify", "report", "leave"}, tid : 0 .. MaxTid,
                  kind : {"running", "stepping"}]
    <3>1. srv' = [op |-> "leave", tid |-> 0, kind |-> "running"]
      BY <1>19 DEF Detach, Idle
    <3> QED BY <3>1, DebuggerAssumption
  <2>2. m_state' \in [Tids -> {"stopped", "running", "stepping"}]
    BY <1>19 DEF Detach, TypeOK
  <2>3. loc' \in [Native -> {"out", "host", "guest", "dog", "hit", "watch", "lock", "wait",
                            "waiting", "woken"}]
    BY <1>19 DEF Detach, TypeOK
  <2> QED BY <1>19, <2>1, <2>2, <2>3 DEF Detach, TypeOK
<1>20. CASE ProcDetach
  BY <1>20, DebuggerAssumption DEF ProcDetach, Idle, TypeOK
<1>21. CASE Disconnect
  BY <1>21 DEF Disconnect, TypeOK
<1>22. CASE UNCHANGED vars
  BY <1>22 DEF vars, TypeOK
<1> QED BY <1>1, <1>2, <1>3, <1>4, <1>5, <1>6, <1>7, <1>8, <1>9, <1>10, <1>11, <1>12,
           <1>13, <1>14, <1>15, <1>16, <1>17, <1>18, <1>19, <1>20, <1>21, <1>22
        DEF Next, VMThread, Watchdog, ServeCommand, Command

----------------------------------------------------------------------------
\* A step that leaves the objects and the pointers alone, and moves no thread into
\* the debugger's reach, preserves what is said about them.
LEMMA ObjectsUntouched ==
  ASSUME ObjectsInv, UNCHANGED <<objvars, thisThread>>, detached => detached',
         \A n \in Native : InWatchdog(n)' => InWatchdog(n),
         \A n \in Native : loc'[n] \in {"host", "guest"}
                            => loc[n] \in {"host", "guest"} \/ InWatchdog(n)
  PROVE  ObjectsInv'
<1>1. \A n \in Native : Objects(n)' = Objects(n)
  BY DEF objvars, Objects
<1>2. (\A tid \in m_threads : tid < m_tid)'
  BY DEF ObjectsInv, objvars
<1>3. ThisThreadIsLive'
  BY <1>1 DEF ObjectsInv, ThisThreadIsLive
<1>4. WatchedThreadHasObject'
  BY <1>1 DEF ObjectsInv, WatchedThreadHasObject
<1>5. ASSUME NEW n \in Native, loc'[n] \in {"host", "guest"}
      PROVE  detached' \/ Objects(n)' # {}
  BY <1>1, <1>5 DEF ObjectsInv, WatchedThreadHasObject
<1> QED BY <1>2, <1>3, <1>4, <1>5 DEF ObjectsInv

\* Attaching keeps every object and adds one to the thread.
LEMMA ObjectsAttach ==
  ASSUME TypeOK, ObjectsInv, NEW n \in Native, AttachThread(n),
         UNCHANGED <<thisThread, detached>>,
         loc' = [loc EXCEPT ![n] = loc'[n]], loc'[n] \in {"host", "guest"}
  PROVE  ObjectsInv'
<1>1. CASE detached
  <2>1. \A m \in Native : Objects(m)' = Objects(m)
    BY <1>1 DEF AttachThread, objvars, Objects
  <2>2. (\A tid \in m_threads : tid < m_tid)'
    BY <1>1 DEF ObjectsInv, AttachThread, objvars
  <2>3. \A m \in Native : InWatchdog(m)' => InWatchdog(m)
    BY DEF InWatchdog, TypeOK
  <2> QED BY <1>1, <2>1, <2>2, <2>3
          DEF ObjectsInv, ThisThreadIsLive, WatchedThreadHasObject
<1>2. CASE ~detached
  <2>1. m_tid \in Tids
    BY <1>2, NextTidInRange DEF AttachThread
  <2>2. m_tid \notin m_threads
    BY <2>1, TidsAreNumbers DEF ObjectsInv, TypeOK
  <2>3. \A m \in Native : Objects(m) \subseteq Objects(m)'
    BY <1>2, <2>2 DEF AttachThread, Objects, TypeOK
  <2>4. m_tid \in Objects(n)'
    BY <1>2, <2>1 DEF AttachThread, Objects, TypeOK
  <2>5. (\A tid \in m_threads : tid < m_tid)'
    <3>1. \A tid \in m_threads : tid \in Nat /\ tid < m_tid
      BY TidsAreNumbers DEF ObjectsInv, TypeOK
    <3>2. m_threads' = m_threads \cup {m_tid} /\ m_tid' = m_tid + 1 /\ m_tid \in Nat
      BY <1>2, <2>1, TidsAreNumbers DEF AttachThread
    <3> QED BY <3>1, <3>2
  <2>6. ThisThreadIsLive'
    BY <2>3 DEF ObjectsInv, ThisThreadIsLive
  <2>7. \A m \in Native : InWatchdog(m)' => InWatchdog(m)
    BY DEF InWatchdog, TypeOK
  <2>8. WatchedThreadHasObject'
    BY <2>3, <2>7 DEF ObjectsInv, WatchedThreadHasObject
  <2>9. ASSUME NEW m \in Native, loc'[m] \in {"host", "guest"}
        PROVE  detached' \/ Objects(m)' # {}
    BY <2>3, <2>4, <2>9 DEF ObjectsInv, TypeOK
  <2> QED BY <2>5, <2>6, <2>8, <2>9 DEF ObjectsInv
<1> QED BY <1>1, <1>2

\* Detaching takes an object of the thread that leaves, and of no other.
LEMMA ObjectsDetach ==
  ASSUME TypeOK, ObjectsInv, NEW n \in Native, LeaveThread(n)
  PROVE  ObjectsInv'
<1> USE DEF LeaveThread, Moves
<1>1. \A m \in Native \ {n} : Objects(m)' = Objects(m)
  <2>1. Objects(n) # {} => Min(Objects(n)) \in Objects(n)
    <3>1. Objects(n) \in SUBSET Nat
      BY TidsAreNumbers DEF Objects, TypeOK
    <3> QED BY <3>1, MinIsElement
  <2> QED BY <2>1 DEF DetachThread, Objects
<1>2. (\A tid \in m_threads : tid < m_tid)'
  BY DEF ObjectsInv, DetachThread
<1>3. detached => \A m \in Native : Objects(m)' = Objects(m)
  BY DEF DetachThread, Objects
<1>4. \A m \in Native \ {n} : thisThread'[m] = thisThread[m]
  BY DEF DetachThread, TypeOK
<1>5. ~detached => thisThread'[n] = 0
  BY DEF DetachThread, TypeOK
<1>6. detached => thisThread'[n] = thisThread[n]
  BY DEF DetachThread
<1>7. ThisThreadIsLive'
  BY <1>1, <1>3, <1>4, <1>5, <1>6 DEF ObjectsInv, ThisThreadIsLive
<1>8. \A m \in Native \ {n} : loc'[m] = loc[m]
  BY DEF TypeOK
<1>9. loc'[n] = "out"
  BY DEF TypeOK
<1>10. WatchedThreadHasObject'
  BY <1>1, <1>8, <1>9 DEF ObjectsInv, WatchedThreadHasObject, InWatchdog
<1>11. ASSUME NEW m \in Native, loc'[m] \in {"host", "guest"}
       PROVE  detached' \/ Objects(m)' # {}
  BY <1>1, <1>8, <1>9, <1>11 DEF ObjectsInv
<1> QED BY <1>2, <1>7, <1>10, <1>11 DEF ObjectsInv

\* What is said about the objects is preserved: one case per action.
LEMMA ObjectsStep ==
  ASSUME TypeOK, ObjectsInv, [Next]_vars
  PROVE  ObjectsInv'
<1> USE DEF Moves, objvars
<1>1. ASSUME NEW n \in Native, EnterThread(n) PROVE ObjectsInv'
  BY <1>1, ObjectsAttach DEF EnterThread, TypeOK
<1>2. ASSUME NEW n \in Native, StartVM(n) PROVE ObjectsInv'
  BY <1>2, ObjectsAttach DEF StartVM, TypeOK
<1>3. ASSUME NEW n \in Native, FinishVM(n) PROVE ObjectsInv'
  BY <1>3, ObjectsUntouched DEF FinishVM, InWatchdog, TypeOK
<1>4. ASSUME NEW n \in Native, LeaveThread(n) PROVE ObjectsInv'
  BY <1>4, ObjectsDetach
<1>5. ASSUME NEW n \in Native, NEW a \in Addrs, Insn(n, a) PROVE ObjectsInv'
  <2>1. Objects(n) # {}
    BY <1>5 DEF Insn, ObjectsInv
  <2>2. \A m \in Native : Objects(m)' = Objects(m)
    BY <1>5 DEF Insn, Objects
  <2>3. \A m \in Native : m # n => loc'[m] = loc[m]
    BY <1>5 DEF Insn, TypeOK
  <2>4. loc'[n] = "dog"
    BY <1>5 DEF Insn, TypeOK
  <2>5. WatchedThreadHasObject'
    BY <2>1, <2>2, <2>3 DEF ObjectsInv, WatchedThreadHasObject, InWatchdog
  <2>6. ASSUME NEW m \in Native, loc'[m] \in {"host", "guest"}
        PROVE  detached' \/ Objects(m)' # {}
    BY <2>2, <2>3, <2>4, <2>6, <1>5 DEF ObjectsInv, Insn
  <2>7. ThisThreadIsLive' /\ (\A tid \in m_threads : tid < m_tid)'
    BY <1>5, <2>2 DEF ObjectsInv, ThisThreadIsLive, Insn
  <2> QED BY <2>5, <2>6, <2>7 DEF ObjectsInv
<1>6. ASSUME NEW n \in Native, CheckBreakpoint(n) PROVE ObjectsInv'
  BY <1>6, ObjectsUntouched DEF CheckBreakpoint, InWatchdog, TypeOK
<1>7. ASSUME NEW n \in Native, 
             HitBreakpoint(n) \/ WatchStopped(n) \/ WatchStepping(n) \/ WatchRunning(n)
      PROVE ObjectsInv'
  <2> USE DEF HitBreakpoint, WatchStopped, WatchStepping, WatchRunning
  <2>1. InWatchdog(n)
    BY <1>7 DEF InWatchdog
  <2>2. \A m \in Native : Objects(m)' = Objects(m)
    BY <1>7 DEF Objects
  <2>3. This(n) \in Objects(n)
    BY <2>1, ThisIsObject
  <2>4. CacheThis(n)
    BY <1>7
  <2>5. ThisThreadIsLive'
    BY <2>2, <2>3, <2>4 DEF CacheThis, ObjectsInv, ThisThreadIsLive, TypeOK
  <2>6. \A m \in Native : m # n => loc'[m] = loc[m]
    BY <1>7 DEF TypeOK
  <2>7. WatchedThreadHasObject'
    BY <2>2, <2>3, <2>6 DEF ObjectsInv, WatchedThreadHasObject, InWatchdog
  <2>8. ASSUME NEW m \in Native, loc'[m] \in {"host", "guest"}
        PROVE  detached' \/ Objects(m)' # {}
    BY <1>7, <2>2, <2>3, <2>6, <2>8 DEF ObjectsInv
  <2>9. (\A tid \in m_threads : tid < m_tid)'
    BY <1>7 DEF ObjectsInv
  <2> QED BY <2>5, <2>7, <2>8, <2>9 DEF ObjectsInv
<1>8. ASSUME NEW n \in Native, ReportStopped(n) \/ Sleep(n) \/ WakeUp(n) PROVE ObjectsInv'
  BY <1>8, ObjectsUntouched DEF ReportStopped, Sleep, WakeUp, InWatchdog, TypeOK
<1>9. ASSUME UNCHANGED <<objvars, thisThread, loc>>, detached => detached' PROVE ObjectsInv'
  BY <1>9, ObjectsUntouched DEF InWatchdog
<1>10. ASSUME NEW kind, NEW targets, Resume(kind, targets) PROVE ObjectsInv'
  BY <1>10, <1>9 DEF Resume
<1>11. CASE ResumeSetState \/ ResumeReport \/ Interrupt \/ ProcDetach \/ Disconnect
  BY <1>9, <1>11 DEF ResumeSetState, ResumeReport, Interrupt, ProcDetach, Disconnect
<1>12. CASE ResumeNotify \/ Detach
  BY <1>12, ObjectsUntouched DEF ResumeNotify, Detach, Asleep, InWatchdog, TypeOK
<1>13. ASSUME NEW a \in Addrs, SetBreakpoint(a) \/ RemoveBreakpoint(a) PROVE ObjectsInv'
  BY <1>9, <1>13 DEF SetBreakpoint, RemoveBreakpoint
<1>14. CASE UNCHANGED vars
  BY <1>9, <1>14 DEF vars
<1> QED BY <1>1, <1>2, <1>3, <1>4, <1>5, <1>6, <1>7, <1>8, <1>10, <1>11, <1>12, <1>13,
           <1>14
        DEF Next, VMThread, Watchdog, ServeCommand, Command

----------------------------------------------------------------------------
\* What is said about the command in progress is preserved.  Of the VM threads' steps
\* only ReportStopped touches the process state, and it finds it "stopped" while a
\* Resume is under way.
LEMMA CommandStep ==
  ASSUME TypeOK, CommandInv, [Next]_vars
  PROVE  CommandInv'
<1> USE DEF CommandInv, ClientAgrees
<1>1. ASSUME UNCHANGED <<srv, client, proc_state>> PROVE CommandInv'
  BY <1>1
<1>2. ASSUME NEW n \in Native, EnterThread(n) \/ StartVM(n) \/ FinishVM(n) \/ LeaveThread(n)
      PROVE CommandInv'
  BY <1>1, <1>2 DEF EnterThread, StartVM, FinishVM, LeaveThread
<1>3. ASSUME NEW n \in Native, NEW a \in Addrs, Insn(n, a) PROVE CommandInv'
  BY <1>1, <1>3 DEF Insn
<1>4. ASSUME NEW n \in Native, CheckBreakpoint(n) \/ HitBreakpoint(n) \/ WatchStopped(n)
      PROVE CommandInv'
  BY <1>1, <1>4 DEF CheckBreakpoint, HitBreakpoint, WatchStopped
<1>5. ASSUME NEW n \in Native,
             WatchStepping(n) \/ WatchRunning(n) \/ Sleep(n) \/ WakeUp(n)
      PROVE CommandInv'
  BY <1>1, <1>5 DEF WatchStepping, WatchRunning, Sleep, WakeUp
<1>6. ASSUME NEW n \in Native, ReportStopped(n) PROVE CommandInv'
  BY <1>6 DEF ReportStopped, SetState, TypeOK
<1>7. ASSUME NEW kind \in {"running", "stepping"}, NEW targets \in SUBSET m_threads,
             Resume(kind, targets)
      PROVE CommandInv'
  <2>1. targets \in SUBSET Nat /\ targets \subseteq Tids
    BY TidsAreNumbers DEF TypeOK
  <2>2. Min(targets) # 0
    BY <1>7, <2>1, MinIsElement, TidsAreNumbers DEF Resume
  <2> QED BY <1>7, <2>2 DEF Resume
<1>8. CASE ResumeSetState
  BY <1>8 DEF ResumeSetState, TypeOK
<1>9. CASE ResumeNotify
  BY <1>9 DEF ResumeNotify, TypeOK
<1>10. CASE ResumeReport
  BY <1>10 DEF ResumeReport, SetState, Idle
<1>11. CASE Interrupt
  BY <1>11 DEF Interrupt, SetState
<1>12. ASSUME NEW a \in Addrs, SetBreakpoint(a) \/ RemoveBreakpoint(a) PROVE CommandInv'
  BY <1>1, <1>12 DEF SetBreakpoint, RemoveBreakpoint
<1>13. CASE Detach
  BY <1>13 DEF Detach, Idle
<1>14. CASE ProcDetach
  BY <1>14 DEF ProcDetach, Idle
<1>15. CASE Disconnect
  BY <1>15 DEF Disconnect
<1>16. CASE UNCHANGED vars
  BY <1>1, <1>16 DEF vars
<1> QED BY <1>2, <1>3, <1>4, <1>5, <1>6, <1>7, <1>8, <1>9, <1>10, <1>11, <1>12, <1>13,
           <1>14, <1>15, <1>16
        DEF Next, VMThread, Watchdog, ServeCommand, Command

\* The initial states satisfy the invariant: the main thread is attached, nothing runs.
LEMMA InitIndInv == Init => IndInv
<1> SUFFICES ASSUME Init PROVE IndInv
  OBVIOUS
<1>1. TypeOK
  <2>1. 1 \in Tids /\ 2 \in 1 .. MaxTid + 1 /\ 0 \in 0 .. MaxTid /\ 0 \in 0 .. MaxRef
    BY DebuggerAssumption DEF Tids
  <2>2. srv \in [op : {"idle", "set", "notify", "report", "leave"}, tid : 0 .. MaxTid,
                 kind : {"running", "stepping"}]
    BY <2>1 DEF Init, Idle
  <2> QED BY <2>1, <2>2, DebuggerAssumption DEF Init, TypeOK
<1>2. ObjectsInv
  <2>1. Objects(Main) = {1}
    BY DebuggerAssumption DEF Init, Objects, Tids
  <2> QED BY <2>1 DEF Init, ObjectsInv, ThisThreadIsLive, WatchedThreadHasObject, InWatchdog
<1>3. CommandInv
  BY DEF Init, CommandInv, ClientAgrees, Idle
<1> QED BY <1>1, <1>2, <1>3 DEF IndInv

\* The inductive invariant holds in every reachable state, for any set of native
\* threads, any guest addresses, any number of attaches and any commands.
THEOREM Inductive == Spec => []IndInv
<1>1. IndInv /\ [Next]_vars => IndInv'
  BY TypeStep, ObjectsStep, CommandStep DEF IndInv
<1> QED BY InitIndInv, <1>1, PTL DEF Spec

\* The cached pointer of ThisThread never dangles and is never another thread's: it
\* is reset by DetachThread, and nobody else erases an object of the thread.
THEOREM PointerIsLive == Spec => []ThisThreadIsLive
<1>1. IndInv => ThisThreadIsLive
  BY DEF IndInv, ObjectsInv
<1> QED BY Inductive, <1>1, PTL

\* ThisThread never dereferences the end of m_threads: a thread that reaches the
\* watchdog attached when its context was initialised, and leaves outside of it.
THEOREM ObjectIsFound == Spec => []WatchedThreadHasObject
<1>1. IndInv => WatchedThreadHasObject
  BY DEF IndInv, ObjectsInv
<1> QED BY Inductive, <1>1, PTL

\* After every command the client and the process agree on the process state: the
\* reports of VM threads that race with a Resume do not drive them apart.
THEOREM Agreement == Spec => []ClientAgrees
<1>1. IndInv => ClientAgrees
  BY DEF IndInv, CommandInv
<1> QED BY Inductive, <1>1, PTL

\* Every reachable state has its type.
THEOREM TypeCorrect == Spec => []TypeOK
<1>1. IndInv => TypeOK
  BY DEF IndInv
<1> QED BY Inductive, <1>1, PTL
============================================================================
