---------------------- MODULE OpcodeEngine_invariant -----------------------
(***************************************************************************)
(* The inductive invariant of OpcodeEngine, and what keeps it: steps that  *)
(* leave the shared tables alone, and the storing of a handler.            *)
(***************************************************************************)
EXTENDS OpcodeEngine, TLAPS

Names == Opcodes \cup {NoOpcode}

HandlerSet == [type : {"none", "Blank", "Remill", "MCInst", "Dynamic"},
               args : Seq(Nat), impl : Int \X Int, gen : Nat]

PCs == {"idle", "shared", "own", "lock", "init", "operand", "map", "instmap", "emit",
        "interpret", "lift", "exec", "answer", "stopped"}

JobSet == [call : {"none", "emulate", "prefetch"}, op : Names, eng : Engines]

PageSet == [0 .. page_size - 1 -> Names]

Types ==
  /\ handlers \in [Engines -> [Opcodes -> HandlerSet]]
  /\ operands \in Seq(OperandIds)
  /\ DOMAIN operandmap \subseteq OperandIds
  /\ insts \in Seq(Opcodes)
  /\ code \in Seq(PageSet)
  /\ pagecur \in 0 .. page_size
  /\ writable \in BOOLEAN
  /\ mutex \in Threads \cup {Nobody}
  /\ pc \in [Threads -> PCs]
  /\ job \in [Threads -> JobSet]
  /\ gen \in Nat

\* t holds the right to change what is shared
Initing(t) == pc[t] \in {"init", "operand", "map", "instmap", "emit"}

\* where a thread that is making a handler is, and what it has made of it
Making(t) ==
  Initing(t) \/ At(t, "lock") =>
    /\ job[t].op \in Opcodes
    /\ Own(t).gen = gen
    /\ \/ job[t].call = "emulate" /\ job[t].eng = t /\ (Initing(t) => mutex = t)
       \/ /\ job[t].call = "prefetch" /\ job[t].eng = Shared /\ ~At(t, "lock")
          /\ \A u \in Threads \ {t} : At(u, "idle")

Made(t) ==
  /\ pc[t] \in {"lock", "init", "instmap"} => Own(t).type = "Blank" /\ Own(t).args = <<>>
                                                  /\ Own(t).impl = NoCode
  /\ pc[t] \in {"operand", "map"} => Own(t).type = "Remill"
  /\ At(t, "map") => /\ More(t)
                     /\ Len(operands) > 0
                     /\ operands[Len(operands)] = Wanted(t)
  /\ At(t, "emit") => /\ Own(t).type = "Dynamic"
                      /\ Own(t).impl = NoCode
                      /\ Room(CodeSize[job[t].op])
  /\ pc[t] \in {"shared", "own", "interpret"} =>
       job[t].op \in Opcodes /\ job[t].call = "emulate"

Control == \A t \in Threads : Making(t) /\ Made(t)

\* operandmap finds the operand it is asked for
MapResolves ==
  \A id \in DOMAIN operandmap :
    operandmap[id] \in 1 .. Len(operands) /\ operands[operandmap[id]] = id

NotNewer == \A e \in Engines, o \in Opcodes : handlers[e][o].gen <= gen

Coded(h) == h.type = "Dynamic" /\ h.gen = gen /\ h.impl \notin {NoCode, AbortCode}

\* code lies in one page, and in the last one below what is free
Placed(o, h) ==
  /\ h.impl[1] \in 1 .. Len(code)
  /\ h.impl[2] \in Nat
  /\ h.impl[2] + CodeSize[o] <= page_size
  /\ h.impl[1] = Len(code) => h.impl[2] + CodeSize[o] <= pagecur
  /\ \A b \in h.impl[2] .. h.impl[2] + CodeSize[o] - 1 : code[h.impl[1]][b] = o

CodePlaced ==
  \A e \in Engines, o \in Opcodes : Coded(handlers[e][o]) => Placed(o, handlers[e][o])

IInv == Types /\ Control /\ MapResolves /\ ArgsResolve /\ NotNewer /\ CodePlaced

----------------------------------------------------------------------------
\* What push_back does to a vector.
LEMMA Appended ==
  ASSUME NEW S, NEW s \in Seq(S), NEW x \in S
  PROVE  /\ Append(s, x) \in Seq(S)
         /\ Len(Append(s, x)) = Len(s) + 1
         /\ \A k \in 1 .. Len(s) : Append(s, x)[k] = s[k]
         /\ Append(s, x)[Len(s) + 1] = x
OBVIOUS

\* A step that leaves the shared lists, the pages and the handlers alone.
LEMMA SharedKept ==
  ASSUME MapResolves, ArgsResolve, NotNewer, CodePlaced,
         UNCHANGED <<handlers, operands, operandmap, code, pagecur, gen>>
  PROVE  MapResolves' /\ ArgsResolve' /\ NotNewer' /\ CodePlaced'
<1>1. MapResolves' BY DEF MapResolves
<1>2. ArgsResolve' BY DEF ArgsResolve, Resolves
<1>3. NotNewer' BY DEF NotNewer
<1>4. CodePlaced'
  <2> SUFFICES ASSUME NEW e \in Engines, NEW o \in Opcodes, Coded(handlers[e][o])'
               PROVE  Placed(o, handlers[e][o])'
    BY DEF CodePlaced
  <2>1. Coded(handlers[e][o]) BY DEF Coded
  <2>2. Placed(o, handlers[e][o]) BY <2>1 DEF CodePlaced
  <2> QED BY ZenonT(30), <2>2 DEF Placed
<1> QED BY <1>1, <1>2, <1>3, <1>4

\* Storing a handler changes that handler only.
LEMMA Stored ==
  ASSUME Types, NEW e \in Engines, NEW o \in Opcodes, NEW h \in HandlerSet,
         handlers' = [handlers EXCEPT ![e][o] = h]
  PROVE  /\ handlers' \in [Engines -> [Opcodes -> HandlerSet]]
         /\ handlers'[e][o] = h
         /\ \A f \in Engines, p \in Opcodes :
              f # e \/ p # o => handlers'[f][p] = handlers[f][p]
         /\ \A f \in Engines : f # e => handlers'[f] = handlers[f]
BY DEF Types

\* What a step of t leaves of the other threads.
LEMMA Others ==
  ASSUME Types, Control, gen' = gen,
         NEW t \in Threads, NEW u \in Threads \ {t},
         \A v \in Threads \ {t} : pc'[v] = pc[v] /\ job'[v] = job[v],
         At(t, "idle") => At(t, "idle")' \/ ~Prefetching,
         handlers'[u] = handlers[u],
         At(t, "idle") => handlers'[Shared] = handlers[Shared],
         ~Initing(t) => operands' = operands /\ code' = code /\ pagecur' = pagecur,
         mutex' = mutex \/ mutex = Nobody \/ Initing(t)
  PROVE  Making(u)' /\ Made(u)'
<1>1. Making(u) /\ Made(u) /\ Making(t)
  BY DEF Control
<1>2. Initing(u) => ~Initing(t)
  BY <1>1, OpcodeAssumption DEF Making, At, Initing
<1>3. CASE ~(Initing(u) \/ At(u, "lock"))
  BY <1>1, <1>3 DEF Making, Made, Initing, At
<1>4. CASE (Initing(u) \/ At(u, "lock")) /\ job[u].call = "emulate" /\ job[u].eng = u
  <2>1. Own(u)' = Own(u)
    BY <1>4 DEF Own
  <2>2. Making(u)'
    BY <1>1, <1>2, <1>4, <2>1, OpcodeAssumption DEF Making, Initing, At
  <2>3. Made(u)'
    BY <1>1, <1>2, <1>4, <2>1 DEF Made, Initing, At, More, Wanted, Room
  <2> QED BY <2>2, <2>3
<1>5. CASE Initing(u) /\ job[u].call = "prefetch" /\ job[u].eng = Shared
           /\ \A v \in Threads \ {u} : At(v, "idle")
  <2>1. Own(u)' = Own(u)
    BY <1>5 DEF Own
  <2>2. At(t, "idle") /\ At(t, "idle")'
    BY <1>5 DEF Prefetching, At, Initing
  <2>3. Making(u)'
    BY <1>1, <1>5, <2>1, <2>2 DEF Making, Initing, At
  <2>4. Made(u)'
    BY <1>1, <1>2, <1>5, <2>1 DEF Made, Initing, At, More, Wanted, Room
  <2> QED BY <2>3, <2>4
<1> QED BY <1>1, <1>3, <1>4, <1>5 DEF Making, At, Initing

\* A step of t that changes only what t knows, and perhaps takes or releases the mutex.
LEMMA QuietStep ==
  ASSUME IInv, NEW t \in Threads,
         UNCHANGED <<handlers, operand_vars, insts, code_vars, gen>>,
         NEW where \in PCs, Go(t, where),
         NEW j \in JobSet, job' = [job EXCEPT ![t] = j],
         At(t, "idle") => ~Prefetching,
         mutex' \in Threads \cup {Nobody},
         mutex' = mutex \/ mutex = Nobody \/ Initing(t),
         pc'[t] = where /\ job'[t] = j => Making(t)' /\ Made(t)'
  PROVE  IInv'
<1>1. /\ pc' \in [Threads -> PCs] /\ pc'[t] = where
      /\ job' \in [Threads -> JobSet] /\ job'[t] = j
      /\ \A v \in Threads \ {t} : pc'[v] = pc[v] /\ job'[v] = job[v]
  BY DEF IInv, Types, Go
<1>2. Types'
  BY <1>1 DEF IInv, Types, operand_vars, code_vars
<1>3. Control'
  <2> SUFFICES ASSUME NEW u \in Threads \ {t} PROVE Making(u)' /\ Made(u)'
    BY <1>1 DEF Control
  <2> QED BY <1>1, Others DEF IInv, operand_vars, code_vars
<1>4. MapResolves' /\ ArgsResolve' /\ NotNewer' /\ CodePlaced'
  BY SharedKept DEF IInv, operand_vars, code_vars
<1> QED BY <1>2, <1>3, <1>4 DEF IInv

\* The same for a step that leaves the job as it is, and after which t makes no handler.
LEMMA QuietMove ==
  ASSUME IInv, NEW t \in Threads,
         UNCHANGED <<handlers, operand_vars, insts, code_vars, gen>>,
         NEW where \in {"own", "interpret", "lift", "exec", "answer", "stopped"},
         Go(t, where), UNCHANGED job, ~At(t, "idle"),
         mutex' \in Threads \cup {Nobody},
         mutex' = mutex \/ mutex = Nobody \/ Initing(t),
         where \in {"own", "interpret"} => job[t].op \in Opcodes /\ job[t].call = "emulate"
  PROVE  IInv'
<1>1. where \in PCs /\ job[t] \in JobSet /\ job' = [job EXCEPT ![t] = job[t]]
  BY DEF IInv, Types, PCs
<1>2. pc'[t] = where /\ job'[t] = job[t] => Making(t)' /\ Made(t)'
  BY DEF Making, Made, Initing, At
<1> QED BY ONLY ZenonT(30), IInv, t \in Threads,
        UNCHANGED <<handlers, operand_vars, insts, code_vars, gen>>,
        Go(t, where), ~At(t, "idle"), mutex' \in Threads \cup {Nobody},
        mutex' = mutex \/ mutex = Nobody \/ Initing(t), <1>1, <1>2, QuietStep

\* emulate, the look-ups that find or miss a shared handler, and taking the lock.
LEMMA LookUps ==
  ASSUME IInv, NEW t \in Threads,
         \/ \E o \in Opcodes : emulate(t, o)
         \/ HitShared(t) \/ MissShared(t) \/ HitOwn(t) \/ Lock(t)
  PROVE  IInv'
<1>a. Making(t) /\ Made(t) /\ job[t] \in JobSet /\ mutex \in Threads \cup {Nobody}
  BY DEF IInv, Types, Control
<1>1. ASSUME NEW o \in Opcodes, emulate(t, o) PROVE IInv'
  <2> DEFINE j == [call |-> "emulate", op |-> o, eng |-> Shared]
  <2>1. j \in JobSet BY DEF JobSet, Names, Engines
  <2>2. pc'[t] = "shared" /\ job'[t] = j => Making(t)' /\ Made(t)'
    BY DEF Making, Made, Initing, At
  <2>3. "shared" \in PCs BY DEF PCs
  <2> HIDE DEF j
  <2>4. /\ UNCHANGED <<handlers, operand_vars, insts, code_vars, gen, mutex>>
        /\ Go(t, "shared") /\ job' = [job EXCEPT ![t] = j] /\ ~Prefetching
    BY <1>1 DEF emulate, j
  <2> QED BY ZenonT(30), <1>a, <2>1, <2>2, <2>3, <2>4, QuietStep
<1>2. ASSUME NEW e \in Engines, Hit(t, e), pc[t] \in {"shared", "own"} PROVE IInv'
  <2> DEFINE j == [job[t] EXCEPT !.eng = e]
  <2>1. j \in JobSet /\ j.op = job[t].op /\ j.call = job[t].call BY <1>a DEF JobSet
  <2>2. pc'[t] = "interpret" /\ job'[t] = j => Making(t)' /\ Made(t)'
    BY <1>a, <1>2, <2>1 DEF Making, Made, Initing, At
  <2>3. "interpret" \in PCs BY DEF PCs
  <2>4. /\ UNCHANGED <<handlers, operand_vars, insts, code_vars, gen, mutex>>
        /\ Go(t, "interpret") /\ job' = [job EXCEPT ![t] = j] /\ ~At(t, "idle")
    BY <1>2 DEF Hit, At
  <2> HIDE DEF j
  <2> QED BY ZenonT(30), <1>a, <2>1, <2>2, <2>3, <2>4, QuietStep
<1>3. CASE MissShared(t)
  <2>1. /\ UNCHANGED <<handlers, operand_vars, insts, code_vars, gen, mutex>>
        /\ Go(t, "own") /\ UNCHANGED job /\ pc[t] = "shared" /\ ~At(t, "idle")
    BY <1>3 DEF MissShared, Move, At
  <2> QED BY <1>a, <2>1, QuietMove DEF Made
<1>4. CASE Lock(t)
  <2>1. /\ UNCHANGED <<handlers, operand_vars, insts, code_vars, gen>>
        /\ Go(t, "init") /\ UNCHANGED job /\ pc[t] = "lock" /\ ~At(t, "idle")
        /\ mutex = Nobody /\ mutex' = t
    BY <1>4 DEF Lock, Move, At
  <2>2. job' = [job EXCEPT ![t] = job[t]] BY <2>1 DEF IInv, Types
  <2>3. pc'[t] = "init" => Making(t)' /\ Made(t)'
    BY <1>a, <2>1 DEF Making, Made, Initing, At, Own
  <2>4. "init" \in PCs BY DEF PCs
  <2> QED BY ZenonT(30), <1>a, <2>1, <2>2, <2>3, <2>4, QuietStep
<1> QED BY <1>1, <1>2, <1>3, <1>4 DEF HitShared, HitOwn, At, Engines

\* The steps that interpret a handler, and the return from the call.
LEMMA Interprets ==
  ASSUME IInv, NEW t \in Threads,
         \/ interpretStops(t) \/ interpretRefuses(t) \/ interpretPoints(t)
         \/ interpretLifts(t) \/ interpretExec(t) \/ execDynamic(t) \/ back(t)
  PROVE  IInv'
<1>a. Making(t) /\ Made(t) /\ mutex \in Threads \cup {Nobody}
  BY DEF IInv, Types, Control
<1>b. UNCHANGED <<handlers, operand_vars, insts, code_vars, gen, mutex>> /\ ~At(t, "idle")
  BY ZenonT(30) DEF interpretStops, interpretRefuses, interpretPoints, interpretLifts, interpretExec,
         execDynamic, back, rest_vars, At
<1>1. CASE back(t)
  <2>1. Go(t, "idle") /\ job' = [job EXCEPT ![t] = NoJob] BY <1>1 DEF back
  <2>2. NoJob \in JobSet /\ "idle" \in PCs BY DEF PCs, NoJob, JobSet, Names, Engines
  <2>3. pc'[t] = "idle" => Making(t)' /\ Made(t)' BY DEF Making, Made, Initing, At
  <2> QED BY ZenonT(30), <1>a, <1>b, <2>1, <2>2, <2>3, QuietStep
<1>2. ASSUME NEW where \in {"lift", "exec", "answer", "stopped"}, Go(t, where), UNCHANGED job
      PROVE  IInv'
  BY <1>a, <1>b, <1>2, QuietMove
<1>3. CASE interpretRefuses(t)
  <2>1. CASE Go(t, "own") /\ UNCHANGED job
    BY <1>a, <1>b, <1>3, <2>1, QuietMove DEF interpretRefuses, Made, At
  <2> QED BY <1>2, <1>3, <2>1 DEF interpretRefuses, Move, Return
<1>4. CASE interpretStops(t)
  BY <1>2, <1>4 DEF interpretStops, Stop, Move
<1>5. CASE interpretPoints(t)
  BY <1>2, <1>5 DEF interpretPoints, Move
<1>6. CASE interpretLifts(t)
  BY <1>2, <1>6 DEF interpretLifts, Stop, Move, Return
<1>7. CASE interpretExec(t)
  BY <1>2, <1>7 DEF interpretExec, Move
<1>8. CASE execDynamic(t)
  BY <1>2, <1>8 DEF execDynamic, Stop, Move, Return
<1> QED BY <1>1, <1>3, <1>4, <1>5, <1>6, <1>7, <1>8

----------------------------------------------------------------------------
\* Storing a handler that resolves and has its code in place, all else kept.
LEMMA StoreKeeps ==
  ASSUME IInv, NEW e \in Engines, NEW o \in Opcodes, NEW h \in HandlerSet,
         handlers' = [handlers EXCEPT ![e][o] = h],
         UNCHANGED <<operands, operandmap, code, pagecur, gen>>,
         h.gen = gen,
         h.type = "Remill" => Resolves(o, h),
         Coded(h) => Placed(o, h)
  PROVE  MapResolves' /\ ArgsResolve' /\ NotNewer' /\ CodePlaced'
<1>1. /\ handlers'[e][o] = h
      /\ \A f \in Engines, p \in Opcodes :
           handlers'[f][p] = handlers[f][p] \/ (f = e /\ p = o)
  BY DEF IInv, Types
<1>2. MapResolves' BY DEF IInv, MapResolves
<1>3. ArgsResolve'
  <2> SUFFICES ASSUME NEW f \in Engines, NEW p \in Opcodes,
                      handlers'[f][p].type = "Remill", handlers'[f][p].gen = gen
               PROVE  Resolves(p, handlers'[f][p])
    BY ZenonT(30) DEF ArgsResolve, Resolves
  <2>1. CASE handlers'[f][p] = handlers[f][p]
    BY ZenonT(30), <2>1 DEF IInv, ArgsResolve
  <2>2. CASE f = e /\ p = o
    BY ZenonT(30), <1>1, <2>2
  <2> QED BY <1>1, <2>1, <2>2
<1>4. NotNewer' BY <1>1 DEF IInv, Types, NotNewer
<1>5. CodePlaced'
  <2> SUFFICES ASSUME NEW f \in Engines, NEW p \in Opcodes, Coded(handlers[f][p])'
               PROVE  Placed(p, handlers[f][p])'
    BY DEF CodePlaced
  <2>1. CASE handlers'[f][p] = handlers[f][p]
    <3>1. Coded(handlers[f][p]) BY <2>1 DEF Coded
    <3>2. Placed(p, handlers[f][p]) BY <3>1 DEF IInv, CodePlaced
    <3> QED BY <2>1, <3>2, ZenonT(30) DEF Placed
  <2>2. CASE f = e /\ p = o
    <3>1. Coded(h) /\ handlers'[f][p] = h BY <1>1, <2>2 DEF Coded
    <3>2. Placed(p, h) BY <2>2, <3>1
    <3> QED BY <3>1, <3>2, ZenonT(30) DEF Placed
  <2> QED BY <1>1, <2>1, <2>2
<1> QED BY <1>2, <1>3, <1>4, <1>5

\* A thread inside init keeps the others' control state.
LEMMA InitControl ==
  ASSUME IInv, NEW t \in Threads, Initing(t), gen' = gen,
         \A v \in Threads \ {t} : pc'[v] = pc[v] /\ job'[v] = job[v],
         \A f \in Engines : f # job[t].eng => handlers'[f] = handlers[f],
         Making(t)' /\ Made(t)'
  PROVE  Control'
<1>1. job[t].eng \in {t, Shared} /\ ~At(t, "idle")
  BY DEF IInv, Control, Making, Initing, At
<1> SUFFICES ASSUME NEW u \in Threads \ {t} PROVE Making(u)' /\ Made(u)'
  BY DEF Control
<1>2. handlers'[u] = handlers[u]
  BY <1>1, OpcodeAssumption DEF Engines
<1> QED BY <1>1, <1>2, Others DEF IInv

\* What is known of a thread inside init.
LEMMA InInit ==
  ASSUME IInv, NEW t \in Threads, Initing(t)
  PROVE  /\ job[t] \in JobSet /\ job[t].eng \in Engines /\ job[t].op \in Opcodes
         /\ Own(t) \in HandlerSet /\ Own(t).gen = gen
         /\ job[t].call = "prefetch" \/ job[t].call = "emulate"
         /\ Making(t) /\ Made(t)
<1>1. Making(t) /\ Made(t) BY DEF IInv, Control
<1>2. job[t] \in JobSet BY DEF IInv, Types
<1>3. job[t].eng \in Engines BY <1>2 DEF JobSet
<1>4. job[t].op \in Opcodes /\ Own(t).gen = gen BY <1>1 DEF Making
<1>5. Own(t) \in HandlerSet BY <1>3, <1>4 DEF Own, IInv, Types
<1> QED BY <1>1, <1>2, <1>3, <1>4, <1>5 DEF Making

\* What the end of init does to the control state.
LEMMA ReadyMoves ==
  ASSUME IInv, NEW t \in Threads, Initing(t), Ready(t)
  PROVE  /\ pc' \in [Threads -> PCs]
         /\ \A v \in Threads \ {t} : pc'[v] = pc[v]
         /\ job' = job
         /\ mutex' \in Threads \cup {Nobody}
         /\ Making(t)' /\ Made(t)'
<1>1. PICK where \in {"answer", "interpret"} :
        /\ Go(t, where) /\ job' = job
        /\ where = "interpret" => job[t].call # "prefetch"
  BY DEF Ready, Return
<1>2. where \in PCs BY DEF PCs
<1>3. pc' \in [Threads -> PCs] /\ pc'[t] = where /\ \A v \in Threads \ {t} : pc'[v] = pc[v]
  BY <1>1, <1>2 DEF Go, IInv, Types
<1>4. mutex' \in Threads \cup {Nobody} BY DEF Ready, Unlock, IInv, Types
<1>5. Making(t)' /\ Made(t)'
  BY <1>1, <1>3, InInit DEF Making, Made, Initing, At
<1> QED BY <1>1, <1>3, <1>4, <1>5

\* The same for a step inside init.
LEMMA MoveMoves ==
  ASSUME IInv, NEW t \in Threads, NEW where \in PCs, Go(t, where)
  PROVE  /\ pc' \in [Threads -> PCs]
         /\ pc'[t] = where
         /\ \A v \in Threads \ {t} : pc'[v] = pc[v]
BY DEF Go, IInv, Types

\* initRefused and operandsDone end init without storing anything.
LEMMA InitEnds ==
  ASSUME IInv, NEW t \in Threads, initRefused(t) \/ operandsDone(t)
  PROVE  IInv'
<1>1. Initing(t) /\ ~At(t, "idle") BY ZenonT(30) DEF initRefused, operandsDone, At, Initing
<1>2. UNCHANGED <<handlers, operand_vars, insts, code_vars, gen>>
  BY ZenonT(30) DEF initRefused, operandsDone
<1>3. mutex' \in Threads \cup {Nobody}
  BY ZenonT(30) DEF IInv, Types, initRefused, operandsDone, Ready, Unlock
<1>4. UNCHANGED job /\ (Go(t, "answer") \/ (Go(t, "interpret") /\ job[t].call # "prefetch"))
  BY DEF initRefused, operandsDone, Ready, Return
<1>5. job[t].op \in Opcodes /\ (job[t].call # "prefetch" => job[t].call = "emulate")
  BY <1>1, InInit
<1> QED BY <1>1, <1>2, <1>3, <1>4, <1>5, QuietMove

\* A step inside init that stores a handler and leaves the operands and pages alone.
LEMMA StoreStep ==
  ASSUME IInv, NEW t \in Threads, Initing(t), NEW h \in HandlerSet, SetOwn(t, h),
         UNCHANGED <<operand_vars, code, pagecur, gen>>,
         h.gen = gen,
         h.type = "Remill" => Resolves(job[t].op, h),
         Coded(h) => Placed(job[t].op, h),
         insts' \in Seq(Opcodes), writable' \in BOOLEAN,
         pc' \in [Threads -> PCs], job' = job, mutex' \in Threads \cup {Nobody},
         \A v \in Threads \ {t} : pc'[v] = pc[v],
         Own(t)' = h => Making(t)' /\ Made(t)'
  PROVE  IInv'
<1>1. job[t].eng \in Engines /\ job[t].op \in Opcodes BY InInit
<1>2. handlers' = [handlers EXCEPT ![job[t].eng][job[t].op] = h] BY DEF SetOwn
<1>3. Types BY DEF IInv
<1>4. /\ handlers' \in [Engines -> [Opcodes -> HandlerSet]]
      /\ handlers'[job[t].eng][job[t].op] = h
      /\ \A f \in Engines : f # job[t].eng => handlers'[f] = handlers[f]
  <2>1. PICK e \in Engines, o \in Opcodes : e = job[t].eng /\ o = job[t].op BY <1>1
  <2>2. handlers' = [handlers EXCEPT ![e][o] = h] BY <1>2, <2>1
  <2>3. /\ handlers' \in [Engines -> [Opcodes -> HandlerSet]]
        /\ handlers'[e][o] = h
        /\ \A f \in Engines : f # e => handlers'[f] = handlers[f]
    BY ONLY <1>3, <2>2, h \in HandlerSet, e \in Engines, o \in Opcodes DEF Types
  <2> QED BY <2>1, <2>3
<1>5. Own(t)' = h BY <1>4 DEF Own
<1>6. Types' BY <1>3, <1>4 DEF Types, operand_vars
<1>7. Control' BY <1>4, <1>5, InitControl
<1>8. MapResolves' /\ ArgsResolve' /\ NotNewer' /\ CodePlaced'
  BY ZenonT(30), <1>1, <1>2, StoreKeeps DEF operand_vars
<1> QED BY <1>6, <1>7, <1>8 DEF IInv
============================================================================
