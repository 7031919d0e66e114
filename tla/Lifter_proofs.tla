---------------------------- MODULE Lifter_proofs ----------------------------
(***************************************************************************)
(* Proofs about the handlers of lifted opcodes, for any opcodes, callbacks *)
(* and number of lifters.                                                  *)
(***************************************************************************)
EXTENDS Lifter, TLAPS

\* liftOpcodes is given instructions and bytes that are none; a callback puts instructions
\* in the place of instructions.
LiftedCode ==
  /\ Inputs \subseteq Seq(Opcodes \cup {Bad}) /\ Bad \notin Opcodes
  /\ Customs \in [Opcodes -> SUBSET Opcodes]
  /\ MaxLifters \in Nat

\* The live lifter has a function for every name, made for the opcode whose placeholder the
\* name will find; without a lifter the module has none.
NamesInv ==
  /\ lifter = [todo |-> lifter.todo, names |-> lifter.names, live |-> lifter.live]
  /\ module = [dyn |-> module.dyn, tramp |-> module.tramp]
  /\ ~lifter.live => DOMAIN lifter.names = {}
  /\ DOMAIN module.dyn = DOMAIN lifter.names
  /\ \A n \in DOMAIN lifter.names :
       /\ lifter.names[n] \in DOMAIN handlers
       /\ handlers[lifter.names[n]] = Abort
       /\ chosen[lifter.names[n]] = n
       /\ module.dyn[n] = emitted(lifter.names[n], n)

\* Trampolines lead to the handler of their name, and no function lacks one.
TrampInv ==
  /\ \A name \in DOMAIN module.tramp : module.tramp[name] = find_target(name)
  /\ \A n \in DOMAIN lifter.names \cap Lifted : Calls[n] \subseteq DOMAIN module.tramp

\* Pages are numbered by their lifters, and a live lifter has none yet.
PagesInv ==
  /\ lifters \in Nat
  /\ lifter.live \in BOOLEAN
  /\ pages \subseteq 1 .. lifters
  /\ lifter.live => lifters \notin pages /\ lifters > 0

IInv ==
  /\ same \in BOOLEAN
  /\ DOMAIN chosen = DOMAIN handlers
  /\ NamesInv /\ TrampInv /\ PagesInv /\ HandlerRunsOpcode

\* The entry that apply writes for a name is the code of its opcode, linked.
LEMMA EntryOfName ==
  ASSUME NamesInv, TrampInv, NEW n \in DOMAIN lifter.names
  PROVE  LET code == linked(module.dyn[n]) IN
           /\ code.kind # "abort"
           /\ code.opcode = n
           /\ code.kind = "lifted" => \A name \in Calls[n] : code.targets[name] = find_target(name)
           /\ code.kind = "native" => code.operands = lifter.names[n]
           /\ same \in BOOLEAN => (code.kind = "native" <=> same /\ n \notin Lifted)
<1> DEFINE d == module.dyn[n]
<1>1. d = emitted(lifter.names[n], n)
  BY DEF NamesInv
<1>2. CASE n \in Lifted
  <2>1. d = [kind |-> "lifted", opcode |-> n, targets |-> <<>>]
    BY <1>1, <1>2 DEF emitted
  <2>2. linked(d) = [kind |-> "lifted", opcode |-> n,
                     targets |-> [name \in Calls[n] |-> module.tramp[name]]]
    BY <2>1 DEF linked
  <2>3. \A name \in Calls[n] : module.tramp[name] = find_target(name)
    BY <1>2 DEF TrampInv
  <2> QED BY <1>2, <2>2, <2>3
<1>3. CASE n \notin Lifted /\ same
  BY <1>1, <1>3 DEF emitted, linked
<1>4. CASE n \notin Lifted /\ ~same
  BY <1>1, <1>4 DEF emitted, linked
<1> QED BY <1>2, <1>3, <1>4

\* apply changes the placeholders of the live lifter's names and nothing else.
LEMMA ApplyEffect ==
  ASSUME NamesInv, NEW page, NEW op \in DOMAIN handlers
  PROVE  \/ /\ op \notin {lifter.names[n] : n \in DOMAIN lifter.names}
            /\ apply(page)[op] = handlers[op]
         \/ /\ chosen[op] \in DOMAIN lifter.names /\ lifter.names[chosen[op]] = op
            /\ handlers[op] = Abort
            /\ apply(page)[op] = [page |-> page, code |-> linked(module.dyn[chosen[op]])]
<1>1. CASE op \notin {lifter.names[n] : n \in DOMAIN lifter.names}
  BY <1>1 DEF apply
<1>2. CASE \E n \in DOMAIN lifter.names : lifter.names[n] = op
  <2> DEFINE c == CHOOSE n \in DOMAIN lifter.names : lifter.names[n] = op
  <2>1. c \in DOMAIN lifter.names /\ lifter.names[c] = op
    BY <1>2
  <2>2. apply(page)[op] = [page |-> page, code |-> linked(module.dyn[c])]
    BY <1>2 DEF apply
  <2> HIDE DEF c
  <2>3. chosen[op] = c /\ handlers[op] = Abort
    BY <2>1 DEF NamesInv
  <2> QED BY <2>1, <2>2, <2>3
<1> QED BY <1>1, <1>2

----------------------------------------------------------------------------
\* A lifter adds a placeholder and a function, and touches no handler that is there.
LEMMA TransformStep ==
  ASSUME LiftedCode, IInv, transform
  PROVE  /\ IInv'
         /\ \A op \in DOMAIN handlers : handlers'[op] = handlers[op]
<1> DEFINE op == Head(lifter.todo)
<1>1. lifter.live /\ op \in Opcodes /\ op \notin DOMAIN handlers
  BY DEF transform
<1>2. PICK opcode \in {op} \cup Customs[op] :
        /\ handlers' = Merge(handlers, [n \in {op} |-> Abort])
        /\ lifter' = [Passed(lifter) EXCEPT !.names = Merge(@, [n \in {opcode} |-> op])]
        /\ module' = [dyn   |-> Merge(module.dyn, [n \in {opcode} |-> emitted(op, opcode)]),
                      tramp |-> Merge(module.tramp, trampolines(opcode))]
        /\ chosen' = Merge(chosen, [n \in {op} |-> opcode])
  BY DEF transform
<1>3. same' = same /\ pages' = pages /\ lifters' = lifters
  BY DEF transform
<1> HIDE DEF op
<1>4. lifter' = [todo |-> Tail(lifter.todo), names |-> Merge(lifter.names, [n \in {opcode} |-> op]),
                 live |-> lifter.live]
  <2>1. lifter = [todo |-> lifter.todo, names |-> lifter.names, live |-> lifter.live]
    BY DEF IInv, NamesInv
  <2> QED BY <1>2, <2>1 DEF Passed
<1>5. /\ DOMAIN handlers' = DOMAIN handlers \cup {op}
      /\ handlers'[op] = Abort
      /\ \A o \in DOMAIN handlers : handlers'[o] = handlers[o]
  BY <1>1, <1>2 DEF Merge
<1>6. /\ DOMAIN chosen' = DOMAIN chosen \cup {op}
      /\ chosen'[op] = opcode
      /\ \A o \in DOMAIN handlers : chosen'[o] = chosen[o]
  BY <1>1, <1>2 DEF Merge, IInv
<1>7. /\ DOMAIN lifter'.names = DOMAIN lifter.names \cup {opcode}
      /\ DOMAIN module'.dyn = DOMAIN module.dyn \cup {opcode}
      /\ \A n \in DOMAIN lifter.names :
           lifter'.names[n] = lifter.names[n] /\ module'.dyn[n] = module.dyn[n]
      /\ opcode \notin DOMAIN lifter.names =>
           lifter'.names[opcode] = op /\ module'.dyn[opcode] = emitted(op, opcode)
  <2>1. DOMAIN module.dyn = DOMAIN lifter.names
    BY DEF IInv, NamesInv
  <2>2. lifter'.names = Merge(lifter.names, [n \in {opcode} |-> op])
    BY <1>4
  <2>3. module'.dyn = Merge(module.dyn, [n \in {opcode} |-> emitted(op, opcode)])
    BY <1>2
  <2> QED BY <2>1, <2>2, <2>3 DEF Merge
<1>8. \A o, n : emitted(o, n)' = emitted(o, n)
  BY <1>3 DEF emitted
<1>9. NamesInv'
  <2>1. /\ lifter' = [todo |-> lifter'.todo, names |-> lifter'.names, live |-> lifter'.live]
        /\ module' = [dyn |-> module'.dyn, tramp |-> module'.tramp]
        /\ lifter'.live
    <3>1. lifter' = [todo |-> lifter'.todo, names |-> lifter'.names, live |-> lifter'.live]
          /\ lifter'.live = lifter.live
      BY <1>4
    <3>2. module' = [dyn |-> module'.dyn, tramp |-> module'.tramp]
      BY <1>2
    <3>3. lifter.live
      BY <1>1
    <3> QED BY <3>1, <3>2, <3>3
  <2>2. DOMAIN module'.dyn = DOMAIN lifter'.names
    BY <1>7 DEF IInv, NamesInv
  <2>3. ASSUME NEW n \in DOMAIN lifter'.names
        PROVE  /\ lifter'.names[n] \in DOMAIN handlers'
               /\ handlers'[lifter'.names[n]] = Abort
               /\ chosen'[lifter'.names[n]] = n
               /\ module'.dyn[n] = emitted(lifter'.names[n], n)
    <3>1. CASE n \in DOMAIN lifter.names
      BY <3>1, <1>5, <1>6, <1>7 DEF IInv, NamesInv
    <3>2. CASE n \notin DOMAIN lifter.names
      BY <3>2, <1>5, <1>6, <1>7
    <3> QED BY <3>1, <3>2
  <2> QED BY <2>1, <2>2, <2>3, <1>8 DEF NamesInv
<1>10. TrampInv'
  <2>1. module'.tramp = Merge(module.tramp, trampolines(opcode))
    BY <1>2
  <2>2. \A name \in DOMAIN module'.tramp : module'.tramp[name] = find_target(name)
    BY <2>1 DEF IInv, TrampInv, Merge, trampolines
  <2>3. DOMAIN module.tramp \subseteq DOMAIN module'.tramp
        /\ (opcode \in Lifted => Calls[opcode] \subseteq DOMAIN module'.tramp)
    BY <2>1 DEF Merge, trampolines
  <2>4. \A n \in DOMAIN lifter'.names \cap Lifted : Calls[n] \subseteq DOMAIN module'.tramp
    BY <2>3, <1>7 DEF IInv, TrampInv
  <2> QED BY <2>2, <2>4 DEF TrampInv
<1>11. PagesInv'
  BY <1>3, <1>4 DEF IInv, PagesInv
<1>12. HandlerRunsOpcode'
  <2> SUFFICES ASSUME NEW o \in DOMAIN handlers', handlers'[o] # Abort
               PROVE  LET code == handlers'[o].code IN
                        /\ code.opcode = chosen'[o]
                        /\ code.kind = "lifted" =>
                             \A name \in Calls[code.opcode] : code.targets[name] = find_target(name)
                        /\ code.kind = "native" /\ chosen'[o] = o => code.operands = o
                        /\ code.kind = "native" <=> same' /\ chosen'[o] \notin Lifted
    BY DEF HandlerRunsOpcode
  <2>1. o \in DOMAIN handlers /\ handlers'[o] = handlers[o] /\ chosen'[o] = chosen[o]
    BY <1>5, <1>6
  <2> QED BY <2>1, <1>3 DEF IInv, HandlerRunsOpcode
<1> QED BY <1>3, <1>5, <1>6, <1>9, <1>10, <1>11, <1>12 DEF IInv

\* What publishing does: entries that were set stay, and the names' placeholders get code.
LEMMA DestroyStep ==
  ASSUME LiftedCode, IInv, Destroy
  PROVE  /\ IInv'
         /\ \A op \in DOMAIN handlers : handlers[op] # Abort => handlers'[op] = handlers[op]
         /\ \A op \in DOMAIN handlers :
              chosen[op] \in DOMAIN lifter.names /\ Apart(op) => handlers'[op] # Abort
<1>1. /\ lifter.live /\ handlers' = apply(lifters) /\ pages' = pages \cup {lifters}
      /\ module' = [module EXCEPT !.dyn = <<>>]
      /\ lifter' = Gone
      /\ same' = same /\ chosen' = chosen /\ lifters' = lifters
  BY DEF Destroy, clear
<1>2. NamesInv /\ TrampInv /\ PagesInv /\ same \in BOOLEAN
  BY DEF IInv
<1>3. DOMAIN handlers' = DOMAIN handlers
  BY <1>1 DEF apply
<1>4. ASSUME NEW op \in DOMAIN handlers
      PROVE  \/ /\ op \notin {lifter.names[n] : n \in DOMAIN lifter.names}
                /\ handlers'[op] = handlers[op]
             \/ /\ chosen[op] \in DOMAIN lifter.names /\ lifter.names[chosen[op]] = op
                /\ handlers[op] = Abort
                /\ handlers'[op] = [page |-> lifters, code |-> linked(module.dyn[chosen[op]])]
  <2>1. NamesInv
    BY <1>2
  <2> QED BY <2>1, <1>1, ApplyEffect
<1>5. ASSUME NEW op \in DOMAIN handlers,
             handlers'[op] = [page |-> lifters, code |-> linked(module.dyn[chosen[op]])],
             chosen[op] \in DOMAIN lifter.names
      PROVE  handlers'[op] # Abort
  <2>1. linked(module.dyn[chosen[op]]).kind # "abort"
    BY <1>2, <1>5, EntryOfName
  <2>2. Abort.code.kind = "abort" /\ handlers'[op].code = linked(module.dyn[chosen[op]])
    BY <1>5 DEF Abort
  <2> QED BY <2>1, <2>2
<1>6. \A op \in DOMAIN handlers : handlers[op] # Abort => handlers'[op] = handlers[op]
  BY <1>4
<1>7. ASSUME NEW op \in DOMAIN handlers, chosen[op] \in DOMAIN lifter.names, Apart(op)
      PROVE  handlers'[op] # Abort
  <2>1. lifter.names[chosen[op]] \in DOMAIN handlers
        /\ chosen[lifter.names[chosen[op]]] = chosen[op]
    BY <1>7, <1>2 DEF NamesInv
  <2>2. lifter.names[chosen[op]] = op
    BY <2>1, <1>7 DEF Apart
  <2> QED BY <2>2, <1>4, <1>5, <1>7
<1>8. NamesInv' /\ TrampInv'
  <2>1. module' = [dyn |-> <<>>, tramp |-> module.tramp]
    BY <1>1, <1>2 DEF NamesInv
  <2>2. lifter'.names = <<>> /\ module'.dyn = <<>> /\ module'.tramp = module.tramp
        /\ lifter' = [todo |-> lifter'.todo, names |-> lifter'.names, live |-> lifter'.live]
    BY <2>1, <1>1 DEF Gone
  <2>3. DOMAIN lifter'.names = {} /\ DOMAIN module'.dyn = {}
    BY <2>2
  <2> QED BY <2>1, <2>2, <2>3, <1>2 DEF NamesInv, TrampInv
<1>9. PagesInv'
  <2>1. lifter'.live = FALSE
    BY <1>1 DEF Gone
  <2>2. lifters \in Nat /\ pages \subseteq 1 .. lifters /\ lifters > 0
    BY <1>1, <1>2 DEF PagesInv
  <2>3. lifters' \in Nat /\ pages' \subseteq 1 .. lifters'
    BY <2>2, <1>1
  <2> QED BY <2>1, <2>3 DEF PagesInv
<1>10. HandlerRunsOpcode'
  <2> SUFFICES ASSUME NEW o \in DOMAIN handlers, handlers'[o] # Abort
               PROVE  LET code == handlers'[o].code IN
                        /\ code.opcode = chosen[o]
                        /\ code.kind = "lifted" =>
                             \A name \in Calls[code.opcode] : code.targets[name] = find_target(name)
                        /\ code.kind = "native" /\ chosen[o] = o => code.operands = o
                        /\ code.kind = "native" <=> same /\ chosen[o] \notin Lifted
    BY <1>1, <1>3 DEF HandlerRunsOpcode
  <2>1. CASE handlers'[o] = handlers[o]
    BY <2>1 DEF IInv, HandlerRunsOpcode
  <2>2. CASE /\ chosen[o] \in DOMAIN lifter.names /\ lifter.names[chosen[o]] = o
             /\ handlers'[o] = [page |-> lifters, code |-> linked(module.dyn[chosen[o]])]
    <3> DEFINE code == linked(module.dyn[chosen[o]])
    <3>1. /\ code.opcode = chosen[o]
          /\ code.kind = "lifted" =>
               \A name \in Calls[chosen[o]] : code.targets[name] = find_target(name)
          /\ code.kind = "native" => code.operands = lifter.names[chosen[o]]
          /\ code.kind = "native" <=> same /\ chosen[o] \notin Lifted
      BY <2>2, <1>2, EntryOfName
    <3>2. handlers'[o].code = code
      BY <2>2
    <3> HIDE DEF code
    <3> QED BY <3>1, <3>2, <2>2
  <2> QED BY <2>1, <2>2, <1>4
<1>11. DOMAIN chosen' = DOMAIN handlers' /\ same' \in BOOLEAN
  BY <1>1, <1>3 DEF IInv
<1> QED BY <1>6, <1>7, <1>8, <1>9, <1>10, <1>11 DEF IInv

\* The other steps leave every handler as it is.
LEMMA OtherStep ==
  ASSUME LiftedCode, IInv,
         Construct \/ InvalidInsn \/ AlreadyLifted \/ DestroyFails \/ UNCHANGED vars
  PROVE  IInv' /\ handlers' = handlers /\ pages' = pages
<1>1. HandlerRunsOpcode /\ NamesInv /\ TrampInv /\ PagesInv
  BY DEF IInv
<1>2. /\ handlers' = handlers /\ chosen' = chosen /\ same' = same /\ pages' = pages
  BY DEF Construct, InvalidInsn, AlreadyLifted, DestroyFails, vars
<1>3. HandlerRunsOpcode'
  BY <1>1, <1>2 DEF HandlerRunsOpcode
<1>4. CASE Construct
  <2>1. PICK input \in Inputs : lifter' = [todo |-> input, names |-> <<>>, live |-> TRUE]
    BY <1>4 DEF Construct
  <2>2. lifters' = lifters + 1 /\ module' = module /\ ~lifter.live
    BY <1>4 DEF Construct
  <2>3. /\ lifter' = [todo |-> lifter'.todo, names |-> lifter'.names, live |-> lifter'.live]
        /\ DOMAIN lifter'.names = {} /\ lifter'.live = TRUE
    BY <2>1
  <2>4. NamesInv' /\ TrampInv'
    BY <1>1, <2>2, <2>3 DEF NamesInv, TrampInv
  <2>5. PagesInv'
    <3>1. lifters \in Nat /\ pages \subseteq 1 .. lifters
      BY <1>1 DEF PagesInv
    <3>2. lifters' \in Nat /\ pages' \subseteq 1 .. lifters' /\ lifters' \notin pages' /\ lifters' > 0
      BY <3>1, <1>2, <2>2
    <3> QED BY <3>2, <2>3 DEF PagesInv
  <2> QED BY <1>2, <1>3, <2>4, <2>5 DEF IInv
<1>5. CASE InvalidInsn \/ AlreadyLifted
  <2>1. lifter' = Passed(lifter) /\ module' = module /\ lifters' = lifters
    BY <1>5 DEF InvalidInsn, AlreadyLifted
  <2>2. lifter' = [todo |-> Tail(lifter.todo), names |-> lifter.names, live |-> lifter.live]
    BY <1>1, <2>1 DEF NamesInv, Passed
  <2>3. /\ lifter' = [todo |-> lifter'.todo, names |-> lifter'.names, live |-> lifter'.live]
        /\ lifter'.names = lifter.names /\ lifter'.live = lifter.live
    BY <2>2
  <2>4. \A o, n : emitted(o, n)' = emitted(o, n)
    BY <1>2 DEF emitted
  <2>5. NamesInv' /\ TrampInv' /\ PagesInv'
    BY <1>1, <1>2, <2>1, <2>3, <2>4 DEF NamesInv, TrampInv, PagesInv
  <2> QED BY <1>2, <1>3, <2>5 DEF IInv
<1>6. CASE DestroyFails
  <2>1. module' = [dyn |-> <<>>, tramp |-> module.tramp] /\ lifter' = Gone /\ lifters' = lifters
    BY <1>1, <1>6 DEF DestroyFails, clear, NamesInv
  <2>2. lifter'.names = <<>> /\ module'.dyn = <<>> /\ module'.tramp = module.tramp
        /\ lifter' = [todo |-> lifter'.todo, names |-> lifter'.names, live |-> lifter'.live]
        /\ lifter'.live = FALSE
    BY <2>1 DEF Gone
  <2>3. DOMAIN lifter'.names = {} /\ DOMAIN module'.dyn = {}
    BY <2>2
  <2>4. NamesInv' /\ TrampInv'
    BY <1>1, <2>1, <2>2, <2>3 DEF NamesInv, TrampInv
  <2>5. PagesInv'
    BY <1>1, <1>2, <2>1, <2>2 DEF PagesInv
  <2> QED BY <1>2, <1>3, <2>4, <2>5 DEF IInv
<1>7. CASE UNCHANGED vars
  <2>1. lifter' = lifter /\ module' = module /\ lifters' = lifters
    BY <1>7 DEF vars
  <2>2. \A o, n : emitted(o, n)' = emitted(o, n)
    BY <1>2 DEF emitted
  <2>3. NamesInv' /\ TrampInv' /\ PagesInv'
    BY <1>1, <1>2, <2>1, <2>2 DEF NamesInv, TrampInv, PagesInv
  <2> QED BY <1>2, <1>3, <2>3 DEF IInv
<1> QED BY <1>2, <1>4, <1>5, <1>6, <1>7

----------------------------------------------------------------------------
LEMMA InvariantStarts ==
  ASSUME LiftedCode, Init
  PROVE  IInv
<1>1. /\ DOMAIN handlers = {} /\ DOMAIN chosen = {} /\ same \in BOOLEAN
      /\ lifters = 0 /\ pages = {}
  BY DEF Init
<1>2. lifter = Gone /\ module = [dyn |-> <<>>, tramp |-> <<>>]
  BY DEF Init
<1>3. /\ lifter = [todo |-> lifter.todo, names |-> lifter.names, live |-> lifter.live]
      /\ module = [dyn |-> module.dyn, tramp |-> module.tramp]
      /\ lifter.live = FALSE
      /\ DOMAIN lifter.names = {} /\ DOMAIN module.dyn = {} /\ DOMAIN module.tramp = {}
  BY <1>2 DEF Gone
<1>4. NamesInv /\ TrampInv
  BY <1>3 DEF NamesInv, TrampInv
<1>5. PagesInv
  BY <1>1, <1>3 DEF PagesInv
<1>6. HandlerRunsOpcode
  BY <1>1 DEF HandlerRunsOpcode
<1> QED BY <1>1, <1>4, <1>5, <1>6 DEF IInv

LEMMA InvariantStays ==
  ASSUME LiftedCode, IInv, [Next]_vars
  PROVE  IInv'
BY TransformStep, DestroyStep, OtherStep DEF Next

LEMMA Inductive ==
  ASSUME LiftedCode
  PROVE  Spec => []IInv
<1>1. Init => IInv
  BY InvariantStarts
<1>2. IInv /\ [Next]_vars => IInv'
  BY InvariantStays
<1> QED BY <1>1, <1>2, PTL DEF Spec

\* transform, apply and clear: whatever lifters have run or failed before, a handler that
\* is not abort runs its opcode, or the callback's, and reaches the handlers it calls.
THEOREM HandlersAreTrue ==
  ASSUME LiftedCode
  PROVE  Spec => []HandlerRunsOpcode
<1>1. IInv => HandlerRunsOpcode
  BY DEF IInv
<1> QED BY <1>1, Inductive, PTL

\* apply: an entry that was set is never set again, and a lifter that succeeds sets those
\* of its opcodes.
THEOREM EntriesArePublished ==
  ASSUME LiftedCode
  PROVE  Spec => EntriesSetOnce
<1>1. ASSUME IInv, [Next]_vars
      PROVE  [KeepsEntries]_vars
  <2>1. CASE transform
    <3>1. lifter.live => lifters \notin pages'
      BY <2>1, <1>1 DEF transform, IInv, PagesInv
    <3> QED BY <3>1, <2>1, <1>1, TransformStep DEF KeepsEntries
  <2>2. CASE Destroy
    BY <2>2, <1>1, DestroyStep DEF KeepsEntries
  <2>3. CASE Construct \/ InvalidInsn \/ AlreadyLifted \/ DestroyFails \/ UNCHANGED vars
    <3>1. handlers' = handlers /\ pages' = pages
      BY <2>3, <1>1, OtherStep
    <3>2. lifter.live => lifters \notin pages'
      BY <3>1, <1>1 DEF IInv, PagesInv
    <3> QED BY <3>1, <3>2 DEF KeepsEntries
  <2> QED BY <1>1, <2>1, <2>2, <2>3 DEF Next
<1> QED BY <1>1, Inductive, PTL DEF Spec, EntriesSetOnce
==============================================================================
