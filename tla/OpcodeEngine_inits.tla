------------------------ MODULE OpcodeEngine_inits -------------------------
(***************************************************************************)
(* The steps of OpcodeHandler::init keep the invariant of OpcodeEngine;    *)
(* those for MCInsts and generated code are in OpcodeEngine_code.          *)
(***************************************************************************)
EXTENDS OpcodeEngine_invariant

\* A handler whose implementation is abort has no code in a page.
LEMMA InitAborts ==
  ASSUME IInv, NEW t \in Threads, initAbort(t)
  PROVE  IInv'
<1> DEFINE h == Handler("Dynamic", <<>>, AbortCode)
<1>1. Initing(t) BY DEF initAbort, At, Initing
<1>2. AbortCode \in Int \X Int /\ <<>> \in Seq(Nat) BY DEF AbortCode
<1>3. h \in HandlerSet /\ h.gen = gen /\ h.type = "Dynamic" /\ h.impl = AbortCode
  BY <1>2 DEF Handler, HandlerSet, IInv, Types
<1>4. SetOwn(t, h) /\ Ready(t) /\ UNCHANGED <<operand_vars, insts, code_vars, gen>>
  BY DEF initAbort
<1> HIDE DEF h
<1>5. ~Coded(h) BY <1>3 DEF Coded
<1>6. insts' \in Seq(Opcodes) /\ writable' \in BOOLEAN /\ UNCHANGED <<code, pagecur>>
  BY <1>4 DEF IInv, Types, code_vars
<1> QED BY <1>1, <1>3, <1>4, <1>5, <1>6, ReadyMoves, StoreStep

\* initRemill starts with no operands.
LEMMA InitRemills ==
  ASSUME IInv, NEW t \in Threads, initRemill(t)
  PROVE  IInv'
<1> DEFINE h == Handler("Remill", <<>>, NoCode)
<1>1. Initing(t) /\ At(t, "init") BY DEF initRemill, At, Initing
<1>2. NoCode \in Int \X Int /\ <<>> \in Seq(Nat) BY DEF NoCode
<1>3. h \in HandlerSet /\ h.gen = gen /\ h.type = "Remill" /\ h.args = <<>>
  BY <1>2 DEF Handler, HandlerSet, IInv, Types
<1>4. /\ SetOwn(t, h) /\ Go(t, "operand")
      /\ UNCHANGED <<job, operand_vars, insts, code_vars, gen, mutex>>
  BY DEF initRemill, Move
<1> HIDE DEF h
<1>5. ~Coded(h) BY <1>3 DEF Coded
<1>6. /\ insts' \in Seq(Opcodes) /\ writable' \in BOOLEAN /\ UNCHANGED <<code, pagecur>>
      /\ mutex' \in Threads \cup {Nobody}
  BY <1>4 DEF IInv, Types, code_vars
<1>7. job[t].op \in Opcodes /\ Making(t) BY <1>1, InInit
<1>8. Resolves(job[t].op, h)
  <2>1. Len(h.args) = 0 BY <1>3
  <2>2. Len(Ops[job[t].op]) \in Nat BY <1>7, OpcodeAssumption
  <2> QED BY <2>1, <2>2 DEF Resolves
<1>9. /\ pc' \in [Threads -> PCs] /\ pc'[t] = "operand"
      /\ \A v \in Threads \ {t} : pc'[v] = pc[v]
  BY <1>4, MoveMoves DEF PCs
<1>10. Own(t)' = h => Making(t)' /\ Made(t)'
  BY <1>1, <1>3, <1>4, <1>7, <1>9 DEF Making, Made, Initing, At
<1> QED BY <1>1, <1>3, <1>4, <1>5, <1>6, <1>8, <1>9, <1>10, StoreStep

\* An operand that operandmap knows is the one wanted.
LEMMA OperandsKnown ==
  ASSUME IInv, NEW t \in Threads, operandKnown(t)
  PROVE  IInv'
<1> DEFINE i == operandmap[Wanted(t)]
           args == Append(Own(t).args, i)
           h == Handler("Remill", args, NoCode)
<1>1. Initing(t) /\ At(t, "operand") BY DEF operandKnown, At, Initing
<1>2. /\ job[t].op \in Opcodes /\ Making(t) /\ Made(t)
      /\ Own(t) \in HandlerSet /\ Own(t).gen = gen
      /\ job[t].eng \in Engines
  BY <1>1, InInit
<1>3. Own(t).args \in Seq(Nat) BY <1>2 DEF HandlerSet
<1>4. i \in 1 .. Len(operands) /\ operands[i] = Wanted(t)
  BY DEF operandKnown, IInv, MapResolves
<1>5. Len(operands) \in Nat BY DEF IInv, Types
<1>6. i \in Nat BY <1>4, <1>5
<1>7. /\ args \in Seq(Nat) /\ Len(args) = Len(Own(t).args) + 1
      /\ \A k \in 1 .. Len(Own(t).args) : args[k] = Own(t).args[k]
      /\ args[Len(Own(t).args) + 1] = i
  BY <1>3, <1>6, Appended
<1>8. NoCode \in Int \X Int BY DEF NoCode
<1> HIDE DEF args, i
<1>9. h \in HandlerSet /\ h.gen = gen /\ h.type = "Remill" /\ h.args = args
  BY <1>7, <1>8 DEF Handler, HandlerSet, IInv, Types
<1>10. Resolves(job[t].op, Own(t))
  BY <1>1, <1>2 DEF IInv, ArgsResolve, Made, At, Own
<1>11. Len(Own(t).args) \in Nat /\ Len(Ops[job[t].op]) \in Nat
       /\ Len(Own(t).args) < Len(Ops[job[t].op])
  BY <1>2, <1>3, OpcodeAssumption DEF operandKnown, More
<1>12. Resolves(job[t].op, h)
  <2>1. Len(h.args) <= Len(Ops[job[t].op]) BY <1>7, <1>9, <1>11
  <2>2. ASSUME NEW k \in 1 .. Len(h.args)
        PROVE  h.args[k] \in 1 .. Len(operands) /\ operands[h.args[k]] = Ops[job[t].op][k]
    <3>1. CASE k = Len(Own(t).args) + 1
      BY <1>4, <1>7, <1>9, <3>1 DEF Wanted
    <3>2. CASE k \in 1 .. Len(Own(t).args)
      BY ZenonT(30), <1>7, <1>9, <1>10, <3>2 DEF Resolves
    <3> QED BY <1>7, <1>9, <1>11, <3>1, <3>2
  <2> QED BY <2>1, <2>2 DEF Resolves
<1>13. SetOwn(t, h) BY DEF operandKnown, args, i
<1> HIDE DEF h
<1>14. UNCHANGED <<job, operand_vars, insts, code_vars, gen, mutex, pc>>
  BY DEF operandKnown
<1>15. /\ insts' \in Seq(Opcodes) /\ writable' \in BOOLEAN /\ UNCHANGED <<code, pagecur>>
      /\ mutex' \in Threads \cup {Nobody} /\ pc' \in [Threads -> PCs]
  BY <1>14 DEF IInv, Types, code_vars
<1>16. Own(t)' = h => Making(t)' /\ Made(t)'
  BY <1>1, <1>2, <1>9, <1>14 DEF Making, Made, Initing, At
<1>17. ~Coded(h) BY <1>9 DEF Coded
<1> QED BY <1>1, <1>9, <1>12, <1>13, <1>14, <1>15, <1>16, <1>17, StoreStep

\* push_back leaves the operands that the handlers name where they are.
LEMMA OperandsPush ==
  ASSUME IInv, NEW t \in Threads, operandPush(t)
  PROVE  IInv'
<1>1. Initing(t) /\ At(t, "operand") BY DEF operandPush, At, Initing
<1>2. /\ job[t].op \in Opcodes /\ Making(t) /\ Made(t)
      /\ Own(t) \in HandlerSet /\ Own(t).gen = gen
  BY <1>1, InInit
<1>3. Len(Own(t).args) \in Nat /\ Ops[job[t].op] \in Seq(OperandIds)
  BY <1>2, OpcodeAssumption DEF HandlerSet
<1>4. Len(Own(t).args) < Len(Ops[job[t].op]) BY DEF operandPush, More
<1>5. Wanted(t) \in OperandIds BY <1>3, <1>4 DEF Wanted
<1>6. operands \in Seq(OperandIds) BY DEF IInv, Types
<1>7. /\ operands' \in Seq(OperandIds) /\ Len(operands') = Len(operands) + 1
      /\ \A k \in 1 .. Len(operands) : operands'[k] = operands[k]
      /\ operands'[Len(operands) + 1] = Wanted(t)
  BY <1>5, <1>6, Appended DEF operandPush
<1>8. /\ UNCHANGED <<handlers, operandmap, insts, code, pagecur, writable, mutex, job, gen>>
      /\ Go(t, "map")
  BY DEF operandPush, code_vars
<1>9. /\ pc' \in [Threads -> PCs] /\ pc'[t] = "map"
      /\ \A v \in Threads \ {t} : pc'[v] = pc[v]
  BY <1>8, MoveMoves DEF PCs
<1>10. Types' BY <1>7, <1>8, <1>9 DEF IInv, Types
<1>11. Own(t)' = Own(t) /\ Wanted(t)' = Wanted(t) /\ More(t)' = More(t)
  BY <1>8 DEF Own, Wanted, More
<1>12. Making(t)' BY <1>1, <1>2, <1>8, <1>9, <1>11 DEF Making, Initing, At
<1>13. Len(operands)' > 0 /\ operands'[Len(operands)'] = Wanted(t)
  BY <1>6, <1>7
<1>14. Made(t)'
  BY <1>1, <1>2, <1>9, <1>11, <1>13 DEF Made, At, operandPush
<1>15. Control' BY <1>1, <1>8, <1>9, <1>12, <1>14, InitControl
<1>16. MapResolves'
  <2> SUFFICES ASSUME NEW id \in DOMAIN operandmap
               PROVE  /\ operandmap[id] \in 1 .. Len(operands')
                      /\ operands'[operandmap[id]] = id
    BY <1>8 DEF MapResolves
  <2>1. operandmap[id] \in 1 .. Len(operands) /\ operands[operandmap[id]] = id
    BY DEF IInv, MapResolves
  <2>2. Len(operands) \in Nat BY <1>6
  <2> QED BY <1>7, <2>1, <2>2
<1>17. ArgsResolve'
  <2> SUFFICES ASSUME NEW e \in Engines, NEW o \in Opcodes, Resolves(o, handlers[e][o])
               PROVE  Resolves(o, handlers[e][o])'
    BY <1>8 DEF IInv, ArgsResolve
  <2> DEFINE a == handlers[e][o].args
  <2>1. Len(operands) \in Nat BY <1>6
  <2>2. /\ Len(a) <= Len(Ops[o])
        /\ \A k \in 1 .. Len(a) : a[k] \in 1 .. Len(operands) /\ operands[a[k]] = Ops[o][k]
    BY DEF Resolves
  <2>3. handlers'[e][o].args = a BY <1>8
  <2> HIDE DEF a
  <2>4. \A k \in 1 .. Len(a) : a[k] \in 1 .. Len(operands') /\ operands'[a[k]] = Ops[o][k]
    BY <1>7, <2>1, <2>2
  <2> QED BY <2>2, <2>3, <2>4 DEF Resolves
<1>18. NotNewer' BY <1>8 DEF IInv, NotNewer
<1>19. CodePlaced'
  <2> SUFFICES ASSUME NEW f \in Engines, NEW p \in Opcodes, Coded(handlers[f][p])'
               PROVE  Placed(p, handlers[f][p])'
    BY DEF CodePlaced
  <2>1. Coded(handlers[f][p]) BY <1>8 DEF Coded
  <2>2. Placed(p, handlers[f][p]) BY <2>1 DEF IInv, CodePlaced
  <2> QED BY ZenonT(30), <1>8, <2>2 DEF Placed
<1> QED BY <1>10, <1>15, <1>16, <1>17, <1>18, <1>19 DEF IInv

\* The index inserted in operandmap is that of the operand t pushed.
LEMMA OperandsMap ==
  ASSUME IInv, NEW t \in Threads, operandMap(t)
  PROVE  IInv'
<1> DEFINE n == Len(operands)
           args == Append(Own(t).args, n)
           h == Handler("Remill", args, NoCode)
<1>1. Initing(t) /\ At(t, "map") BY DEF operandMap, At, Initing
<1>2. /\ job[t].op \in Opcodes /\ Making(t) /\ Made(t)
      /\ Own(t) \in HandlerSet /\ Own(t).gen = gen
      /\ job[t].eng \in Engines
  BY <1>1, InInit
<1>3. Own(t).args \in Seq(Nat) BY <1>2 DEF HandlerSet
<1>4. n \in Nat /\ n \in 1 .. Len(operands) /\ operands[n] = Wanted(t)
  BY <1>1, <1>2 DEF Made, IInv, Types
<1>5. /\ Len(Own(t).args) \in Nat /\ Ops[job[t].op] \in Seq(OperandIds)
      /\ Len(Own(t).args) < Len(Ops[job[t].op])
  BY <1>1, <1>2, <1>3, OpcodeAssumption DEF Made, More
<1>6. Wanted(t) \in OperandIds BY <1>5 DEF Wanted
<1> HIDE DEF n
<1>7. /\ args \in Seq(Nat) /\ Len(args) = Len(Own(t).args) + 1
      /\ \A k \in 1 .. Len(Own(t).args) : args[k] = Own(t).args[k]
      /\ args[Len(Own(t).args) + 1] = n
  BY <1>3, <1>4, Appended
<1>8. NoCode \in Int \X Int BY DEF NoCode
<1> HIDE DEF args
<1>9. h \in HandlerSet /\ h.gen = gen /\ h.type = "Remill" /\ h.args = args
  BY <1>7, <1>8 DEF Handler, HandlerSet, IInv, Types
<1>10. Resolves(job[t].op, Own(t))
  BY <1>1, <1>2 DEF IInv, ArgsResolve, Made, At, Own
<1>11. Resolves(job[t].op, h)
  <2>1. Len(h.args) <= Len(Ops[job[t].op]) BY <1>5, <1>7, <1>9
  <2>2. ASSUME NEW k \in 1 .. Len(h.args)
        PROVE  h.args[k] \in 1 .. Len(operands) /\ operands[h.args[k]] = Ops[job[t].op][k]
    <3>1. CASE k = Len(Own(t).args) + 1
      BY <1>4, <1>7, <1>9, <3>1 DEF Wanted
    <3>2. CASE k \in 1 .. Len(Own(t).args)
      BY ZenonT(30), <1>7, <1>9, <1>10, <3>2 DEF Resolves
    <3> QED BY <1>5, <1>7, <1>9, <3>1, <3>2
  <2> QED BY <2>1, <2>2 DEF Resolves
<1>12. SetOwn(t, h) BY DEF operandMap, args, n
<1> HIDE DEF h
<1>13. /\ UNCHANGED <<operands, insts, code, pagecur, writable, mutex, job, gen>>
       /\ Go(t, "operand")
  BY DEF operandMap, Move, code_vars
<1>14. /\ pc' \in [Threads -> PCs] /\ pc'[t] = "operand"
       /\ \A v \in Threads \ {t} : pc'[v] = pc[v]
  BY <1>13, MoveMoves DEF PCs
<1>15. handlers' = [handlers EXCEPT ![job[t].eng][job[t].op] = h] BY <1>12 DEF SetOwn
<1>16. /\ handlers' \in [Engines -> [Opcodes -> HandlerSet]]
       /\ handlers'[job[t].eng][job[t].op] = h
       /\ \A f \in Engines, p \in Opcodes :
            handlers'[f][p] = handlers[f][p] \/ (f = job[t].eng /\ p = job[t].op)
       /\ \A f \in Engines : f # job[t].eng => handlers'[f] = handlers[f]
  BY <1>2, <1>9, <1>15 DEF IInv, Types
<1>17. /\ DOMAIN operandmap' = DOMAIN operandmap \cup {Wanted(t)}
       /\ operandmap'[Wanted(t)] = n
       /\ \A id \in DOMAIN operandmap : id # Wanted(t) => operandmap'[id] = operandmap[id]
  BY DEF operandMap, n
<1>18. Types'
  <2>1. DOMAIN operandmap' \subseteq OperandIds BY <1>6, <1>17 DEF IInv, Types
  <2> QED BY <1>13, <1>14, <1>16, <2>1 DEF IInv, Types
<1>19. Own(t)' = h BY <1>13, <1>16 DEF Own
<1>20. Making(t)' /\ Made(t)'
  BY <1>1, <1>2, <1>9, <1>13, <1>14, <1>19 DEF Making, Made, Initing, At
<1>21. Control' BY <1>1, <1>13, <1>14, <1>16, <1>20, InitControl
<1>22. MapResolves' BY <1>4, <1>13, <1>17 DEF IInv, MapResolves
<1>23. ArgsResolve'
  <2> SUFFICES ASSUME NEW f \in Engines, NEW p \in Opcodes,
                      handlers'[f][p].type = "Remill", handlers'[f][p].gen = gen
               PROVE  Resolves(p, handlers[f][p])'
    BY <1>13 DEF ArgsResolve
  <2>1. CASE handlers'[f][p] = handlers[f][p]
    <3>1. Resolves(p, handlers[f][p]) BY <1>13, <2>1 DEF IInv, ArgsResolve
    <3> QED BY ZenonT(30), <1>13, <2>1, <3>1 DEF Resolves
  <2>2. CASE f = job[t].eng /\ p = job[t].op
    BY <1>11, <1>13, <1>16, <2>2, ZenonT(30) DEF Resolves
  <2> QED BY <1>16, <2>1, <2>2
<1>24. NotNewer'
  <2>1. gen \in Nat /\ gen' = gen BY <1>13 DEF IInv, Types
  <2>2. ASSUME NEW f \in Engines, NEW p \in Opcodes PROVE handlers'[f][p].gen <= gen
    <3>1. CASE handlers'[f][p] = handlers[f][p] BY <3>1 DEF IInv, NotNewer
    <3>2. CASE handlers'[f][p] = h BY <1>9, <2>1, <3>2
    <3> QED BY <1>16, <3>1, <3>2
  <2> QED BY <2>1, <2>2 DEF NotNewer
<1>25. ~Coded(h) BY <1>9 DEF Coded
<1>26. CodePlaced'
  <2> SUFFICES ASSUME NEW f \in Engines, NEW p \in Opcodes, Coded(handlers[f][p])'
               PROVE  Placed(p, handlers[f][p])'
    BY DEF CodePlaced
  <2>1. handlers'[f][p] = handlers[f][p] BY <1>13, <1>16, <1>25 DEF Coded
  <2>2. Coded(handlers[f][p]) BY <1>13, <2>1 DEF Coded
  <2>3. Placed(p, handlers[f][p]) BY <2>2 DEF IInv, CodePlaced
  <2> QED BY ZenonT(30), <1>13, <2>1, <2>3 DEF Placed
<1> QED BY <1>18, <1>21, <1>22, <1>23, <1>24, <1>26 DEF IInv
============================================================================
