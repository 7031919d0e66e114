------------------------- MODULE OpcodeEngine_code -------------------------
(***************************************************************************)
(* The steps of OpcodeHandler::init that keep an MCInst or generate code   *)
(* keep the invariant of OpcodeEngine.                                     *)
(***************************************************************************)
EXTENDS OpcodeEngine_inits

\* A handler of an MCInst names no operands.
LEMMA InstsMap ==
  ASSUME IInv, NEW t \in Threads, instKnown(t) \/ instMap(t)
  PROVE  IInv'
<1>1. Initing(t) BY DEF instKnown, instMap, At, Initing
<1>2. insts \in Seq(Opcodes) BY DEF IInv, Types
<1>3. PICK i \in Nat : SetOwn(t, Handler("MCInst", <<i>>, NoCode))
  <2>1. CASE instKnown(t)
    <3>1. PICK i \in DOMAIN insts : SetOwn(t, Handler("MCInst", <<i>>, NoCode))
      BY <2>1 DEF instKnown
    <3>2. i \in Nat BY <1>2
    <3> QED BY <3>1, <3>2
  <2>2. CASE instMap(t)
    BY <1>2, <2>2 DEF instMap
  <2> QED BY <2>1, <2>2
<1> DEFINE h == Handler("MCInst", <<i>>, NoCode)
<1>4. NoCode \in Int \X Int /\ <<i>> \in Seq(Nat) BY DEF NoCode
<1>5. h \in HandlerSet /\ h.gen = gen /\ h.type = "MCInst"
  BY <1>4 DEF Handler, HandlerSet, IInv, Types
<1>6. Ready(t) /\ UNCHANGED <<operand_vars, insts, code_vars, gen>>
  BY DEF instKnown, instMap
<1>7. SetOwn(t, h) BY <1>3
<1> HIDE DEF h
<1>8. ~Coded(h) BY <1>5 DEF Coded
<1>9. insts' \in Seq(Opcodes) /\ writable' \in BOOLEAN /\ UNCHANGED <<code, pagecur>>
  BY <1>6 DEF IInv, Types, code_vars
<1> QED BY <1>1, <1>5, <1>6, <1>7, <1>8, <1>9, ReadyMoves, StoreStep

\* A new MCInst touches no operand and no code.
LEMMA InstsPush ==
  ASSUME IInv, NEW t \in Threads, instPush(t)
  PROVE  IInv'
<1>1. Initing(t) /\ At(t, "init") BY DEF instPush, At, Initing
<1>2. job[t].op \in Opcodes /\ Making(t) /\ Made(t) BY <1>1, InInit
<1>3. /\ UNCHANGED <<handlers, operands, operandmap, code, pagecur, writable, mutex, job, gen>>
      /\ Go(t, "instmap")
  BY DEF instPush, operand_vars, code_vars
<1>4. /\ pc' \in [Threads -> PCs] /\ pc'[t] = "instmap"
      /\ \A v \in Threads \ {t} : pc'[v] = pc[v]
  BY <1>3, MoveMoves DEF PCs
<1>5. insts' \in Seq(Opcodes)
  BY <1>2, Appended DEF instPush, IInv, Types
<1>6. Types' BY <1>3, <1>4, <1>5 DEF IInv, Types
<1>7. Making(t)' /\ Made(t)'
  BY <1>1, <1>2, <1>3, <1>4 DEF Making, Made, Initing, At, Own
<1>8. Control' BY <1>1, <1>3, <1>4, <1>7, InitControl
<1>9. MapResolves' /\ ArgsResolve' /\ NotNewer' /\ CodePlaced'
  BY <1>3, SharedKept DEF IInv
<1> QED BY <1>6, <1>8, <1>9 DEF IInv

----------------------------------------------------------------------------
\* A page is added for code that the last one has no room for; the code in place stays.
LEMMA PagesAdded ==
  ASSUME IInv, NEW t \in Threads, initDynamic(t)
  PROVE  /\ code' \in Seq(PageSet) /\ pagecur' \in 0 .. page_size
         /\ Room(CodeSize[job[t].op])'
         /\ \A o \in Opcodes, h \in HandlerSet : Placed(o, h) => Placed(o, h)'
<1>1. Initing(t) BY DEF initDynamic, At, Initing
<1>2. job[t].op \in Opcodes BY <1>1, InInit
<1>3. code \in Seq(PageSet) /\ pagecur \in 0 .. page_size /\ page_size \in Nat
  BY OpcodeAssumption DEF IInv, Types
<1>4. CodeSize[job[t].op] \in 1 .. page_size BY <1>2, OpcodeAssumption
<1>5. CASE Room(CodeSize[job[t].op])
  <2>1. code' = code /\ pagecur' = pagecur BY <1>5 DEF initDynamic
  <2>2. \A o \in Opcodes, h \in HandlerSet : Placed(o, h) => Placed(o, h)'
    BY <2>1 DEF Placed
  <2>3. job' = job BY DEF initDynamic, Move
  <2>4. Room(CodeSize[job[t].op])' BY <1>5, <2>1, <2>3 DEF Room
  <2> QED BY <1>3, <2>1, <2>2, <2>4
<1>6. CASE ~Room(CodeSize[job[t].op])
  <2> DEFINE new == [b \in 0 .. page_size - 1 |-> NoOpcode]
  <2>1. code' = Append(code, new) /\ pagecur' = 0 /\ job' = job
    BY <1>6 DEF initDynamic, Move
  <2>2. new \in PageSet BY DEF PageSet, Names
  <2> HIDE DEF new
  <2>3. /\ code' \in Seq(PageSet) /\ Len(code') = Len(code) + 1
        /\ \A i \in 1 .. Len(code) : code'[i] = code[i]
    BY <1>3, <2>1, <2>2, Appended
  <2>4. Len(code) \in Nat /\ code' # <<>> BY <1>3, <2>3
  <2>5. Room(CodeSize[job[t].op])' BY <1>3, <1>4, <2>1, <2>4 DEF Room
  <2>6. ASSUME NEW o \in Opcodes, NEW h \in HandlerSet, Placed(o, h) PROVE Placed(o, h)'
    <3>1. h.impl[1] \in 1 .. Len(code) BY <2>6 DEF Placed
    <3>2. h.impl[1] \in 1 .. Len(code') /\ h.impl[1] # Len(code')
          /\ code'[h.impl[1]] = code[h.impl[1]]
      BY <2>3, <2>4, <3>1
    <3> QED BY <2>6, <3>2 DEF Placed
  <2> QED BY <1>3, <2>1, <2>3, <2>5, <2>6
<1> QED BY <1>5, <1>6

\* Storing a handler of generated code, when the code in place stays.
LEMMA CodeStoreStep ==
  ASSUME IInv, NEW t \in Threads, Initing(t), NEW h \in HandlerSet, SetOwn(t, h),
         UNCHANGED <<operands, operandmap, insts, gen, job>>,
         h.gen = gen, h.type = "Dynamic",
         code' \in Seq(PageSet), pagecur' \in 0 .. page_size,
         \A o \in Opcodes, g \in HandlerSet : Placed(o, g) => Placed(o, g)',
         Coded(h) => Placed(job[t].op, h)',
         writable' \in BOOLEAN, pc' \in [Threads -> PCs], mutex' \in Threads \cup {Nobody},
         \A v \in Threads \ {t} : pc'[v] = pc[v],
         Own(t)' = h => Making(t)' /\ Made(t)'
  PROVE  IInv'
<1>1. job[t].eng \in Engines /\ job[t].op \in Opcodes BY InInit
<1>2. /\ handlers' \in [Engines -> [Opcodes -> HandlerSet]]
      /\ handlers'[job[t].eng][job[t].op] = h
      /\ \A f \in Engines, p \in Opcodes :
           handlers'[f][p] = handlers[f][p] \/ (f = job[t].eng /\ p = job[t].op)
      /\ \A f \in Engines : f # job[t].eng => handlers'[f] = handlers[f]
  BY <1>1 DEF IInv, Types, SetOwn
<1>3. Own(t)' = h BY <1>2 DEF Own
<1>4. Types' BY <1>2 DEF IInv, Types
<1>5. Control' BY <1>2, <1>3, InitControl
<1>6. MapResolves' BY DEF IInv, MapResolves
<1>7. ArgsResolve'
  <2> SUFFICES ASSUME NEW f \in Engines, NEW p \in Opcodes,
                      handlers'[f][p].type = "Remill", handlers'[f][p].gen = gen
               PROVE  Resolves(p, handlers[f][p])'
    BY DEF ArgsResolve
  <2>1. handlers'[f][p] = handlers[f][p] BY <1>2
  <2>2. Resolves(p, handlers[f][p]) BY <2>1 DEF IInv, ArgsResolve
  <2> QED BY <2>1, <2>2 DEF Resolves
<1>8. NotNewer'
  <2>1. gen \in Nat BY DEF IInv, Types
  <2>2. ASSUME NEW f \in Engines, NEW p \in Opcodes PROVE handlers'[f][p].gen <= gen
    <3>1. CASE handlers'[f][p] = handlers[f][p] BY <3>1 DEF IInv, NotNewer
    <3>2. CASE handlers'[f][p] = h BY <2>1, <3>2
    <3> QED BY <1>2, <3>1, <3>2
  <2> QED BY <2>1, <2>2 DEF NotNewer
<1>9. CodePlaced'
  <2> SUFFICES ASSUME NEW f \in Engines, NEW p \in Opcodes, Coded(handlers[f][p])'
               PROVE  Placed(p, handlers[f][p])'
    BY DEF CodePlaced
  <2>1. CASE handlers'[f][p] = handlers[f][p]
    <3>1. handlers[f][p] \in HandlerSet BY DEF IInv, Types
    <3>2. Placed(p, handlers[f][p]) BY <2>1 DEF IInv, CodePlaced, Coded
    <3>3. PICK g \in HandlerSet : g = handlers[f][p] BY <3>1
    <3>4. Placed(p, g)' BY <3>2, <3>3
    <3> QED BY <2>1, <3>3, <3>4, ZenonT(30) DEF Placed
  <2>2. CASE f = job[t].eng /\ p = job[t].op
    <3>1. handlers'[f][p] = h BY <1>2, <2>2
    <3>2. Placed(p, h)' BY <2>2, <3>1 DEF Coded
    <3> QED BY <3>1, <3>2 DEF Placed
  <2> QED BY <1>2, <2>1, <2>2
<1> QED BY <1>4, <1>5, <1>6, <1>7, <1>8, <1>9 DEF IInv

\* initDynamic up to the first page_commit.
LEMMA DynamicStarts ==
  ASSUME IInv, NEW t \in Threads, initDynamic(t)
  PROVE  IInv'
<1>1. Initing(t) /\ At(t, "init") BY DEF initDynamic, At, Initing
<1>2. job[t].op \in Opcodes /\ Making(t) BY <1>1, InInit
<1>3. NoCode \in Int \X Int /\ <<>> \in Seq(Nat) BY DEF NoCode
<1>4. Handler("Dynamic", <<>>, NoCode) \in HandlerSet
  BY <1>3 DEF Handler, HandlerSet, IInv, Types
<1>5. PICK h \in HandlerSet : h = Handler("Dynamic", <<>>, NoCode) BY <1>4
<1>6. h.gen = gen /\ h.type = "Dynamic" /\ h.impl = NoCode BY <1>5 DEF Handler
<1>7. SetOwn(t, h) BY <1>5 DEF initDynamic
<1>8. /\ UNCHANGED <<operands, operandmap, insts, gen, job, mutex>>
      /\ writable' = TRUE /\ Go(t, "emit")
  BY DEF initDynamic, Move, operand_vars
<1>9. /\ pc' \in [Threads -> PCs] /\ pc'[t] = "emit"
      /\ \A v \in Threads \ {t} : pc'[v] = pc[v]
  BY <1>8, MoveMoves DEF PCs
<1>10. mutex' \in Threads \cup {Nobody} /\ writable' \in BOOLEAN BY <1>8 DEF IInv, Types
<1>11. /\ code' \in Seq(PageSet) /\ pagecur' \in 0 .. page_size
       /\ Room(CodeSize[job[t].op])'
       /\ \A o \in Opcodes, g \in HandlerSet : Placed(o, g) => Placed(o, g)'
  BY PagesAdded
<1>12. ~Coded(h) BY <1>6 DEF Coded
<1>13. Own(t)' = h => Making(t)' /\ Made(t)'
  BY <1>1, <1>2, <1>6, <1>8, <1>9, <1>11 DEF Making, Made, Initing, At
<1> QED BY <1>1, <1>6, <1>7, <1>8, <1>9, <1>10, <1>11, <1>12, <1>13, CodeStoreStep

\* The code copied to what is free of the last page, and what it leaves of the rest.
LEMMA CodeCopied ==
  ASSUME IInv, NEW t \in Threads, emitDynamic(t)
  PROVE  /\ code' \in Seq(PageSet) /\ pagecur' \in 0 .. page_size
         /\ \A o \in Opcodes, g \in HandlerSet : Placed(o, g) => Placed(o, g)'
         /\ \A g \in HandlerSet :
              g.impl = <<Len(code), pagecur>> => Placed(job[t].op, g)'
<1> DEFINE o == job[t].op
           n == Len(code)
           used == pagecur .. pagecur + CodeSize[o] - 1
           page == [b \in DOMAIN code[n] |-> IF b \in used THEN o ELSE code[n][b]]
<1>1. Initing(t) /\ At(t, "emit") BY DEF emitDynamic, At, Initing
<1>2. o \in Opcodes /\ Made(t) BY <1>1, InInit
<1>3. code \in Seq(PageSet) /\ pagecur \in 0 .. page_size /\ page_size \in Nat
  BY OpcodeAssumption DEF IInv, Types
<1>4. CodeSize[o] \in 1 .. page_size BY <1>2, OpcodeAssumption
<1>5. code # <<>> /\ page_size - pagecur >= CodeSize[o]
  BY <1>1, <1>2 DEF Made, Room
<1>6. n \in Nat /\ n \in 1 .. Len(code) BY <1>3, <1>5
<1>7. code' = [code EXCEPT ![n] = page] /\ pagecur' = pagecur + CodeSize[o] /\ job' = job
  BY DEF emitDynamic, Ready, Return
<1>8. code[n] \in PageSet BY <1>3, <1>6
<1>9. /\ page \in PageSet
      /\ \A b \in 0 .. page_size - 1 : page[b] = IF b \in used THEN o ELSE code[n][b]
  BY ZenonT(30), <1>2, <1>8 DEF PageSet, Names
<1> HIDE DEF page
<1>10. /\ code' \in Seq(PageSet) /\ Len(code') = n /\ code'[n] = page
       /\ \A i \in 1 .. n : i # n => code'[i] = code[i]
  BY <1>3, <1>6, <1>7, <1>9
<1>11. pagecur' \in 0 .. page_size BY <1>3, <1>4, <1>5, <1>7
<1>12. ASSUME NEW p \in Opcodes, NEW g \in HandlerSet, Placed(p, g) PROVE Placed(p, g)'
  <2>1. /\ g.impl[1] \in 1 .. n /\ g.impl[2] \in Nat
        /\ g.impl[2] + CodeSize[p] <= page_size
        /\ g.impl[1] = n => g.impl[2] + CodeSize[p] <= pagecur
        /\ \A b \in g.impl[2] .. g.impl[2] + CodeSize[p] - 1 : code[g.impl[1]][b] = p
    BY <1>12 DEF Placed
  <2>2. CodeSize[p] \in Nat BY OpcodeAssumption
  <2>3. g.impl[1] = n => g.impl[2] + CodeSize[p] <= pagecur'
    <3>1. pagecur \in Nat /\ pagecur' \in Nat /\ pagecur <= pagecur'
      BY <1>3, <1>4, <1>7
    <3> QED BY <2>1, <2>2, <3>1
  <2>4. ASSUME NEW b \in g.impl[2] .. g.impl[2] + CodeSize[p] - 1
        PROVE  code'[g.impl[1]][b] = p
    <3>1. CASE g.impl[1] # n BY <1>10, <2>1, <3>1
    <3>2. CASE g.impl[1] = n
      <4>1. b \in 0 .. page_size - 1 /\ b \notin used
        BY <1>3, <1>4, <2>1, <2>2, <3>2
      <4> QED BY <1>9, <1>10, <2>1, <3>2, <4>1
    <3> QED BY <3>1, <3>2
  <2> QED BY <1>10, <2>1, <2>3, <2>4 DEF Placed
<1>13. ASSUME NEW g \in HandlerSet, g.impl = <<n, pagecur>> PROVE Placed(o, g)'
  <2>1. g.impl[1] = n /\ g.impl[2] = pagecur BY <1>13
  <2>2. ASSUME NEW b \in pagecur .. pagecur + CodeSize[o] - 1 PROVE code'[n][b] = o
    <3>1. b \in 0 .. page_size - 1 /\ b \in used BY <1>3, <1>4, <1>5
    <3> HIDE DEF used
    <3> QED BY <1>9, <1>10, <3>1
  <2>3. /\ g.impl[1] \in 1 .. Len(code') /\ g.impl[2] \in Nat
        /\ g.impl[2] + CodeSize[o] <= page_size /\ g.impl[2] + CodeSize[o] <= pagecur'
    <3> HIDE DEF o, used
    <3>1. n \in 1 .. Len(code') BY <1>6, <1>10
    <3>2. CodeSize[o] \in Nat /\ pagecur \in Nat /\ pagecur + CodeSize[o] <= page_size
      BY <1>3, <1>4, <1>5
    <3>3. pagecur + CodeSize[o] <= pagecur' BY <1>7, <3>2
    <3> HIDE DEF n
    <3> QED BY <2>1, <3>1, <3>2, <3>3
  <2>4. o' = o BY <1>7
  <2> HIDE DEF o
  <2> QED BY <2>1, <2>2, <2>3, <2>4 DEF Placed
<1> QED BY <1>10, <1>11, <1>12, <1>13

\* initDynamic from there.
LEMMA DynamicEmits ==
  ASSUME IInv, NEW t \in Threads, emitDynamic(t)
  PROVE  IInv'
<1>1. Initing(t) BY DEF emitDynamic, At, Initing
<1>2. <<Len(code), pagecur>> \in Int \X Int BY OpcodeAssumption DEF IInv, Types
<1>3. Handler("Dynamic", <<>>, <<Len(code), pagecur>>) \in HandlerSet
  BY <1>2 DEF Handler, HandlerSet, IInv, Types
<1>4. PICK h \in HandlerSet : h = Handler("Dynamic", <<>>, <<Len(code), pagecur>>) BY <1>3
<1>5. h.gen = gen /\ h.type = "Dynamic" /\ h.impl = <<Len(code), pagecur>> BY <1>4 DEF Handler
<1>6. SetOwn(t, h) BY <1>4 DEF emitDynamic
<1>7. UNCHANGED <<operands, operandmap, insts, gen>> /\ writable' = FALSE /\ Ready(t)
  BY DEF emitDynamic, operand_vars
<1>8. /\ pc' \in [Threads -> PCs] /\ job' = job /\ mutex' \in Threads \cup {Nobody}
      /\ \A v \in Threads \ {t} : pc'[v] = pc[v]
      /\ Making(t)' /\ Made(t)'
  BY <1>1, <1>7, ReadyMoves
<1>9. /\ code' \in Seq(PageSet) /\ pagecur' \in 0 .. page_size
      /\ \A o \in Opcodes, g \in HandlerSet : Placed(o, g) => Placed(o, g)'
      /\ Placed(job[t].op, h)'
  BY <1>5, CodeCopied
<1>10. writable' \in BOOLEAN BY ZenonT(30), <1>7
<1> QED BY <1>1, <1>5, <1>6, <1>7, <1>8, <1>9, <1>10, CodeStoreStep
============================================================================
