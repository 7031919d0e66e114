------------------------ MODULE OpcodeEngine_proofs ------------------------
(***************************************************************************)
(* For any number of threads and any opcodes: the handlers' arguments      *)
(* resolve (ArgsResolve) and their generated code is their own             *)
(* (CodeIsOwn).                                                            *)
(***************************************************************************)
EXTENDS OpcodeEngine_code

\* The handler that set::insert makes.
LEMMA BlankTyped ==
  ASSUME IInv
  PROVE  \E h \in HandlerSet : /\ h = Handler("Blank", <<>>, NoCode)
                               /\ h.type = "Blank" /\ h.args = <<>> /\ h.impl = NoCode
                               /\ h.gen = gen /\ ~Coded(h)
<1>1. NoCode \in Int \X Int /\ <<>> \in Seq(Nat) BY DEF NoCode
<1>2. Handler("Blank", <<>>, NoCode) \in HandlerSet
  BY <1>1 DEF Handler, HandlerSet, IInv, Types
<1>3. PICK h \in HandlerSet : h = Handler("Blank", <<>>, NoCode) BY <1>2
<1>4. h.type = "Blank" /\ h.args = <<>> /\ h.impl = NoCode /\ h.gen = gen BY <1>3 DEF Handler
<1> QED BY <1>3, <1>4 DEF Coded

\* A thread inserts a blank handler into its own engine.
LEMMA Misses ==
  ASSUME IInv, NEW t \in Threads, MissOwn(t)
  PROVE  IInv'
<1>1. PICK h \in HandlerSet : /\ h = Handler("Blank", <<>>, NoCode)
                              /\ h.type = "Blank" /\ h.args = <<>> /\ h.impl = NoCode
                              /\ h.gen = gen /\ ~Coded(h)
  BY BlankTyped
<1>2. /\ At(t, "own") /\ handlers' = [handlers EXCEPT ![t][job[t].op] = h] /\ Go(t, "lock")
      /\ job' = [job EXCEPT ![t].eng = t]
      /\ UNCHANGED <<operands, operandmap, insts, code, pagecur, writable, mutex, gen>>
  BY <1>1 DEF MissOwn, operand_vars, code_vars
<1>3. job[t].op \in Opcodes /\ job[t].call = "emulate" /\ t \in Engines /\ job[t] \in JobSet
  BY <1>2 DEF IInv, Control, Made, At, Engines, Types
<1>4. /\ handlers' \in [Engines -> [Opcodes -> HandlerSet]]
      /\ handlers'[t][job[t].op] = h
      /\ \A f \in Engines : f # t => handlers'[f] = handlers[f]
  BY <1>2, <1>3 DEF IInv, Types
<1>5. /\ pc' \in [Threads -> PCs] /\ pc'[t] = "lock"
      /\ \A v \in Threads \ {t} : pc'[v] = pc[v]
  BY <1>2, MoveMoves DEF PCs
<1>6. /\ [job[t] EXCEPT !.eng = t] \in JobSet
      /\ job' = [job EXCEPT ![t] = [job[t] EXCEPT !.eng = t]]
  BY <1>2, <1>3 DEF JobSet
<1>7. /\ job' \in [Threads -> JobSet] /\ \A v \in Threads \ {t} : job'[v] = job[v]
      /\ job'[t] = [job[t] EXCEPT !.eng = t]
  BY <1>6 DEF IInv, Types
<1>8. job'[t].op = job[t].op /\ job'[t].call = "emulate" /\ job'[t].eng = t
  BY <1>3, <1>7 DEF JobSet
<1>9. Types' BY <1>2, <1>4, <1>5, <1>7 DEF IInv, Types
<1>10. Own(t)' = h BY <1>4, <1>8 DEF Own
<1>11. Making(t)' /\ Made(t)'
  BY <1>1, <1>2, <1>3, <1>5, <1>8, <1>10 DEF Making, Made, Initing, At
<1>12. Control'
  <2> SUFFICES ASSUME NEW u \in Threads \ {t} PROVE Making(u)' /\ Made(u)'
    BY <1>11 DEF Control
  <2>1. handlers'[u] = handlers[u] /\ ~At(t, "idle") BY <1>2, <1>4 DEF Engines, At
  <2> QED BY <1>2, <1>5, <1>7, <2>1, Others DEF IInv
<1>13. MapResolves' /\ ArgsResolve' /\ NotNewer' /\ CodePlaced'
  BY ZenonT(30), <1>1, <1>2, <1>3, StoreKeeps
<1> QED BY <1>9, <1>12, <1>13 DEF IInv

\* prefetch inserts a blank handler into the shared engine, while all is quiet.
LEMMA Prefetches ==
  ASSUME IInv, NEW t \in Threads, NEW o \in Opcodes, prefetch(t, o)
  PROVE  IInv'
<1>1. PICK h \in HandlerSet : /\ h = Handler("Blank", <<>>, NoCode)
                              /\ h.type = "Blank" /\ h.args = <<>> /\ h.impl = NoCode
                              /\ h.gen = gen /\ ~Coded(h)
  BY BlankTyped
<1> DEFINE j == [call |-> "prefetch", op |-> o, eng |-> Shared]
<1>2. /\ Quiet /\ handlers' = [handlers EXCEPT ![Shared][o] = h] /\ Go(t, "init")
      /\ job' = [job EXCEPT ![t] = j]
      /\ UNCHANGED <<operands, operandmap, insts, code, pagecur, writable, mutex, gen>>
  BY <1>1 DEF prefetch, operand_vars, code_vars
<1>3. Shared \in Engines /\ j \in JobSet BY DEF Engines, JobSet, Names
<1>4. /\ handlers' \in [Engines -> [Opcodes -> HandlerSet]] /\ handlers'[Shared][o] = h
  BY <1>2, <1>3 DEF IInv, Types
<1>5. /\ pc' \in [Threads -> PCs] /\ pc'[t] = "init"
      /\ \A v \in Threads \ {t} : pc'[v] = pc[v]
  BY <1>2, MoveMoves DEF PCs
<1>6. job' \in [Threads -> JobSet] /\ job'[t] = j BY <1>2, <1>3 DEF IInv, Types
<1>7. Types' BY <1>2, <1>4, <1>5, <1>6 DEF IInv, Types
<1>8. \A u \in Threads \ {t} : At(u, "idle")' BY <1>2, <1>5 DEF Quiet, At
<1>9. Own(t)' = h BY <1>4, <1>6 DEF Own
<1>10. Making(t)' /\ Made(t)'
  BY <1>1, <1>2, <1>5, <1>6, <1>8, <1>9 DEF Making, Made, Initing, At
<1>11. Control'
  BY <1>8, <1>10 DEF Control, Making, Made, Initing, At
<1>12. MapResolves' /\ ArgsResolve' /\ NotNewer' /\ CodePlaced'
  BY ZenonT(30), <1>1, <1>2, <1>3, StoreKeeps
<1> QED BY <1>7, <1>11, <1>12 DEF IInv

\* No handler is of no type, and of no engine.
LEMMA NoHandlerTyped == NoHandler \in HandlerSet /\ NoHandler.type = "none" /\ NoHandler.gen = 0
<1>1. NoCode \in Int \X Int /\ <<>> \in Seq(Nat) BY DEF NoCode
<1> QED BY <1>1 DEF NoHandler, HandlerSet

\* The handlers of e are gone, the others are the same.
LEMMA Cleared ==
  ASSUME IInv, NEW e \in Engines, handlers' = NoHandlers(e)
  PROVE  /\ handlers' \in [Engines -> [Opcodes -> HandlerSet]]
         /\ \A f \in Engines : f # e => handlers'[f] = handlers[f]
         /\ \A f \in Engines, p \in Opcodes :
              handlers'[f][p] = handlers[f][p] \/ handlers'[f][p] = NoHandler
<1>1. [o \in Opcodes |-> NoHandler] \in [Opcodes -> HandlerSet] BY NoHandlerTyped
<1> QED BY <1>1 DEF NoHandlers, IInv, Types

\* The engine of a thread that exits goes with it.
LEMMA Exits ==
  ASSUME IInv, NEW t \in Threads, threadExit(t)
  PROVE  IInv'
<1>1. /\ At(t, "idle") /\ handlers' = NoHandlers(t)
      /\ UNCHANGED <<operands, operandmap, insts, code, pagecur, writable, mutex, pc, job, gen>>
  BY DEF threadExit, operand_vars, code_vars
<1>2. /\ handlers' \in [Engines -> [Opcodes -> HandlerSet]]
      /\ \A f \in Engines : f # t => handlers'[f] = handlers[f]
      /\ \A f \in Engines, p \in Opcodes :
           handlers'[f][p] = handlers[f][p] \/ handlers'[f][p] = NoHandler
  BY <1>1, Cleared DEF Engines
<1>3. Types' BY <1>1, <1>2 DEF IInv, Types
<1>4. Control'
  <2>1. Making(t)' /\ Made(t)' BY <1>1 DEF Making, Made, Initing, At
  <2>2. ASSUME NEW u \in Threads \ {t} PROVE Making(u)' /\ Made(u)'
    <3>1. handlers'[u] = handlers[u] /\ handlers'[Shared] = handlers[Shared]
      BY ZenonT(30), <1>2, OpcodeAssumption DEF Engines
    <3>2. At(t, "idle")' BY <1>1 DEF At
    <3> QED BY <1>1, <3>1, <3>2, Others DEF IInv
  <2> QED BY <2>1, <2>2 DEF Control
<1>5. MapResolves' BY <1>1 DEF IInv, MapResolves
<1>6. ArgsResolve'
  <2> SUFFICES ASSUME NEW f \in Engines, NEW p \in Opcodes,
                      handlers'[f][p].type = "Remill", handlers'[f][p].gen = gen
               PROVE  Resolves(p, handlers[f][p])'
    BY <1>1 DEF ArgsResolve
  <2>1. handlers'[f][p] = handlers[f][p] BY <1>2, NoHandlerTyped
  <2>2. Resolves(p, handlers[f][p]) BY <2>1 DEF IInv, ArgsResolve
  <2> QED BY <1>1, <2>1, <2>2 DEF Resolves
<1>7. NotNewer'
  <2>1. gen \in Nat BY DEF IInv, Types
  <2>2. ASSUME NEW f \in Engines, NEW p \in Opcodes PROVE handlers'[f][p].gen <= gen
    <3>1. CASE handlers'[f][p] = handlers[f][p] BY <3>1 DEF IInv, NotNewer
    <3>2. CASE handlers'[f][p] = NoHandler BY <2>1, <3>2, NoHandlerTyped
    <3> QED BY <1>2, <3>1, <3>2
  <2> QED BY <1>1, <2>2 DEF NotNewer
<1>8. CodePlaced'
  <2> SUFFICES ASSUME NEW f \in Engines, NEW p \in Opcodes, Coded(handlers[f][p])'
               PROVE  Placed(p, handlers[f][p])'
    BY DEF CodePlaced
  <2>1. handlers'[f][p] = handlers[f][p] BY <1>2, NoHandlerTyped DEF Coded
  <2>2. Coded(handlers[f][p]) BY <1>1, <2>1 DEF Coded
  <2>3. Placed(p, handlers[f][p]) BY <2>2 DEF IInv, CodePlaced
  <2> QED BY ZenonT(30), <1>1, <2>1, <2>3 DEF Placed
<1> QED BY <1>3, <1>4, <1>5, <1>6, <1>7, <1>8 DEF IInv

\* A new binary engine: no handler was made under it yet.
LEMMA Recreates ==
  ASSUME IInv, recreate
  PROVE  IInv'
<1>1. /\ Quiet /\ gen' = gen + 1 /\ handlers' = NoHandlers(Shared)
      /\ operands' = <<>> /\ operandmap' = <<>> /\ code' = <<>> /\ pagecur' = 0
      /\ writable' = FALSE /\ UNCHANGED <<insts, mutex, pc, job>>
  BY DEF recreate
<1>2. /\ handlers' \in [Engines -> [Opcodes -> HandlerSet]]
      /\ \A f \in Engines, p \in Opcodes :
           handlers'[f][p] = handlers[f][p] \/ handlers'[f][p] = NoHandler
  BY ZenonT(30), <1>1, Cleared DEF Engines
<1>3. Types'
  <2>1. DOMAIN operandmap' \subseteq OperandIds BY <1>1
  <2>2. gen' \in Nat /\ pagecur' \in 0 .. page_size
    BY <1>1, OpcodeAssumption DEF IInv, Types
  <2>3. operands' \in Seq(OperandIds) /\ code' \in Seq(PageSet) BY <1>1
  <2>4. writable' \in BOOLEAN BY ZenonT(30), <1>1
  <2>5. /\ insts' \in Seq(Opcodes) /\ mutex' \in Threads \cup {Nobody}
        /\ pc' \in [Threads -> PCs] /\ job' \in [Threads -> JobSet]
    BY <1>1 DEF IInv, Types
  <2> QED BY <1>2, <2>1, <2>2, <2>3, <2>4, <2>5 DEF Types
<1>4. Control' BY <1>1 DEF Control, Making, Made, Initing, Quiet, At
<1>5. MapResolves' BY <1>1 DEF MapResolves
<1>6. ASSUME NEW f \in Engines, NEW p \in Opcodes PROVE handlers'[f][p].gen < gen'
  <2>1. gen \in Nat BY DEF IInv, Types
  <2>2. CASE handlers'[f][p] = handlers[f][p]
    <3>1. handlers[f][p].gen \in Nat BY DEF IInv, Types, HandlerSet
    <3>2. handlers[f][p].gen <= gen BY DEF IInv, NotNewer
    <3> QED BY <1>1, <2>1, <2>2, <3>1, <3>2
  <2>3. CASE handlers'[f][p] = NoHandler BY <1>1, <2>1, <2>3, NoHandlerTyped
  <2> QED BY <1>2, <2>2, <2>3
<1>7. /\ gen' \in Nat
      /\ \A f \in Engines, p \in Opcodes : handlers'[f][p].gen \in Nat
  BY <1>2, <1>3 DEF Types, HandlerSet
<1>8. \A f \in Engines, p \in Opcodes :
        handlers'[f][p].gen <= gen' /\ handlers'[f][p].gen # gen'
  BY <1>6, <1>7
<1>9. ArgsResolve' BY <1>8 DEF ArgsResolve
<1>10. NotNewer' BY <1>8 DEF NotNewer
<1>11. CodePlaced' BY <1>8 DEF CodePlaced, Coded
<1> QED BY <1>3, <1>4, <1>5, <1>9, <1>10, <1>11 DEF IInv

\* The invariant holds at first.
LEMMA InitInv == Init => IInv
<1> SUFFICES ASSUME Init PROVE IInv
  OBVIOUS
<1>1. \A f \in Engines, p \in Opcodes : handlers[f][p] = NoHandler BY DEF Init
<1>2. Types
  <2>1. handlers \in [Engines -> [Opcodes -> HandlerSet]] BY NoHandlerTyped DEF Init
  <2>2. NoJob \in JobSet BY DEF NoJob, JobSet, Names, Engines
  <2>3. "idle" \in PCs BY DEF PCs
  <2>4. pc \in [Threads -> PCs] /\ job \in [Threads -> JobSet] BY <2>2, <2>3 DEF Init
  <2>5. DOMAIN operandmap \subseteq OperandIds BY DEF Init
  <2>6. gen \in Nat /\ pagecur \in 0 .. page_size BY OpcodeAssumption DEF Init
  <2>7. operands \in Seq(OperandIds) /\ code \in Seq(PageSet) /\ insts \in Seq(Opcodes)
    BY DEF Init
  <2>8. writable \in BOOLEAN BY ZenonT(30) DEF Init
  <2>9. mutex \in Threads \cup {Nobody} BY DEF Init
  <2> QED BY <2>1, <2>4, <2>5, <2>6, <2>7, <2>8, <2>9 DEF Types
<1>3. Control BY DEF Init, Control, Making, Made, Initing, At
<1>4. MapResolves BY DEF Init, MapResolves
<1>5. ArgsResolve BY <1>1, NoHandlerTyped DEF ArgsResolve
<1>6. NotNewer BY <1>1, NoHandlerTyped DEF NotNewer, Init
<1>7. CodePlaced BY <1>1, NoHandlerTyped DEF CodePlaced, Coded
<1> QED BY <1>2, <1>3, <1>4, <1>5, <1>6, <1>7 DEF IInv

\* Every step of every thread, of its user and of the engine preserves the invariant.
LEMMA NextInv == IInv /\ [Next]_vars => IInv'
<1> SUFFICES ASSUME IInv, [Next]_vars PROVE IInv'
  OBVIOUS
<1>1. CASE UNCHANGED vars
  <2>1. Types' BY <1>1 DEF vars, IInv, Types
  <2>3. Control'
    <3>1. ASSUME NEW t \in Threads PROVE Making(t)' /\ Made(t)'
      <4>1. Own(t)' = Own(t) /\ More(t)' = More(t) /\ Wanted(t)' = Wanted(t)
        BY <1>1 DEF vars, Own, More, Wanted
      <4>2. Making(t) /\ Made(t) BY DEF IInv, Control
      <4>3. Making(t)' BY <1>1, <4>1, <4>2 DEF vars, Making, Initing, At
      <4>4. Made(t)' BY <1>1, <4>1, <4>2 DEF vars, Made, At, Room
      <4> QED BY <4>3, <4>4
    <3> QED BY <3>1 DEF Control
  <2>2. MapResolves' /\ ArgsResolve' /\ NotNewer' /\ CodePlaced'
    BY <1>1, SharedKept DEF vars, IInv
  <2> QED BY <2>1, <2>2, <2>3 DEF IInv
<1>2. ASSUME NEW t \in Threads, Step(t) PROVE IInv'
  BY <1>2, LookUps, Interprets, Misses, InitEnds, InitAborts, InitRemills, OperandsKnown,
     OperandsPush, OperandsMap, InstsMap, InstsPush, DynamicStarts, DynamicEmits DEF Step
<1>3. ASSUME NEW t \in Threads, User(t) PROVE IInv'
  BY <1>3, Exits, Prefetches, LookUps DEF User
<1> QED BY <1>1, <1>2, <1>3, Recreates DEF Next

(***************************************************************************)
(* Whatever the opcodes and the number of threads: every Remill handler    *)
(* names its own operands in order.  find, push_back and insert in         *)
(* initRemill stay together because the mutex, or the user of prefetch,    *)
(* keeps every other thread out of init.                                   *)
(***************************************************************************)
THEOREM ArgsAlwaysResolve == Spec => []ArgsResolve
<1>1. IInv => ArgsResolve BY DEF IInv
<1> QED BY InitInv, NextInv, <1>1, PTL DEF Spec

(***************************************************************************)
(* Whatever the sizes of the opcodes' code and of a page: the code of a    *)
(* handler lies in one page and stays its own (initDynamic).               *)
(***************************************************************************)
THEOREM CodeStaysOwn == Spec => []CodeIsOwn
<1>1. IInv => CodeIsOwn
  <2> SUFFICES ASSUME IInv, NEW e \in Engines, NEW o \in Opcodes, Coded(handlers[e][o]),
                      NEW h, h = handlers[e][o]
               PROVE  /\ h.impl[1] \in DOMAIN code
                      /\ \A b \in h.impl[2] .. h.impl[2] + CodeSize[o] - 1 :
                           b \in DOMAIN code[h.impl[1]] /\ code[h.impl[1]][b] = o
    BY SMTT(30) DEF CodeIsOwn, Coded
  <2>1. Placed(o, h) BY DEF IInv, CodePlaced
  <2>2. code \in Seq(PageSet) /\ page_size \in Nat /\ CodeSize[o] \in Nat
    BY OpcodeAssumption DEF IInv, Types
  <2>3. h.impl[1] \in DOMAIN code /\ code[h.impl[1]] \in PageSet
    BY SMTT(30), <2>1, <2>2 DEF Placed
  <2>4. ASSUME NEW b \in h.impl[2] .. h.impl[2] + CodeSize[o] - 1
        PROVE  b \in DOMAIN code[h.impl[1]] /\ code[h.impl[1]][b] = o
    <3>1. b \in 0 .. page_size - 1 BY SMTT(30), <2>1, <2>2 DEF Placed
    <3> QED BY ZenonT(30), <2>1, <2>3, <3>1 DEF Placed, PageSet
  <2> QED BY <2>3, <2>4
<1> QED BY InitInv, NextInv, <1>1, PTL DEF Spec
============================================================================
