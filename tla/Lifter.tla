-------------------------------- MODULE Lifter --------------------------------
(***************************************************************************)
(* The lifting of opcodes into handlers (Lifter.cpp, BinaryEngine::        *)
(* liftOpcodes).  A Lifter lives for one call: it adds a function per new  *)
(* opcode to the module of the engine, and when it is destroyed the module *)
(* is compiled, its code is put into executable pages, and the entries of  *)
(* the new handlers, until then abort, are set.  The handlers are static   *)
(* and outlive every lifter; chains hold their entries.                    *)
(*                                                                         *)
(* An opcode is a model value.  What Remill makes of it is external: it is *)
(* lifted, with calls of other handlers, or not, and is then emitted as it *)
(* is when guest and host are of one architecture.                         *)
(***************************************************************************)
EXTENDS Integers, Sequences

CONSTANTS
  Opcodes,      \* opcodes
  Bad,          \* bytes that are not an instruction
  Lifted,       \* opcodes that Remill lifts
  Calls,        \* opcode in Lifted -> names of the handlers that it calls
  Table,        \* names in Handler::aarch64 or Handler::x86, and Handler::intrinsic
  Inputs,       \* the code that liftOpcodes may be given: sequences
  Customs,      \* opcode -> the opcodes a callback may put in its place
  MaxLifters    \* bound on the calls of liftOpcodes

VARIABLES
  same,       \* is the guest of the host's architecture?
  handlers,   \* Lifter::aarch64 or x86: opcode -> its entry, [page, code]
  pages,      \* dynhandlers: the pages with handlers
  lifter,     \* the live Lifter: [todo, names], or Gone
  module,     \* functions in the module: [dyn |-> opcode -> code, tramp |-> name -> target]
  chosen,     \* opcode -> what the callback has chosen for it
  lifters     \* number of lifters so far

vars == <<same, handlers, pages, lifter, module, chosen, lifters>>

Gone == [todo |-> <<>>, names |-> <<>>, live |-> FALSE]
Abort == [page |-> 0, code |-> [kind |-> "abort"]]

\* liftOpcodes constructs a lifter on the code.
Construct ==
  /\ ~lifter.live /\ lifters < MaxLifters
  /\ \E input \in Inputs : lifter' = [todo |-> input, names |-> <<>>, live |-> TRUE]
  /\ lifters' = lifters + 1
  /\ UNCHANGED <<same, handlers, pages, module, chosen>>

Passed(l) == [l EXCEPT !.todo = Tail(@)]

\* What cannot be disassembled is passed over, with an event.
InvalidInsn ==
  /\ lifter.live /\ lifter.todo # <<>> /\ Head(lifter.todo) = Bad
  /\ lifter' = Passed(lifter)
  /\ UNCHANGED <<same, handlers, pages, module, chosen, lifters>>

AlreadyLifted ==
  /\ lifter.live /\ lifter.todo # <<>> /\ Head(lifter.todo) \in DOMAIN handlers
  /\ lifter' = Passed(lifter)
  /\ UNCHANGED <<same, handlers, pages, module, chosen, lifters>>

\* What is in two tables; the first counts for what is in both.
Merge(f, g) == [x \in DOMAIN f \cup DOMAIN g |-> IF x \in DOMAIN f THEN f[x] ELSE g[x]]

\* The function of an opcode; op is the one whose operands tell the registers to save.
emitted(op, opcode) ==
  CASE opcode \in Lifted -> [kind |-> "lifted", opcode |-> opcode, targets |-> <<>>]
    [] opcode \notin Lifted /\ same -> [kind |-> "native", opcode |-> opcode, operands |-> op]
    [] opcode \notin Lifted /\ ~same -> [kind |-> "error", opcode |-> opcode]

\* create_trampoline: one per name, which stays in the module.
find_target(name) == IF name \in Table THEN name ELSE "abort"

trampolines(opcode) ==
  [name \in IF opcode \in Lifted THEN Calls[opcode] ELSE {} |-> find_target(name)]

\* A placeholder is inserted for the opcode; the function, and the name the placeholder
\* will be found by, are those of the opcode that a callback has put in its place.
transform ==
  /\ lifter.live /\ lifter.todo # <<>>
  /\ LET op == Head(lifter.todo) IN
     /\ op \in Opcodes \ DOMAIN handlers
     /\ \E opcode \in {op} \cup Customs[op] :
          /\ handlers' = Merge(handlers, [n \in {op} |-> Abort])
          /\ lifter' = [Passed(lifter) EXCEPT !.names = Merge(@, [n \in {opcode} |-> op])]
          /\ module' = [dyn   |-> Merge(module.dyn, [n \in {opcode} |-> emitted(op, opcode)]),
                        tramp |-> Merge(module.tramp, trampolines(opcode))]
          /\ chosen' = Merge(chosen, [n \in {op} |-> opcode])
  /\ UNCHANGED <<same, pages, lifters>>

\* The targets that a function's calls reach, through the trampolines of the module.
linked(code) ==
  IF code.kind # "lifted" THEN code
  ELSE [code EXCEPT !.targets = [name \in Calls[code.opcode] |-> module.tramp[name]]]

\* the entries of earlier handlers taken to be in the new pages too
apply_All(page) ==
  [op \in DOMAIN handlers |->
     IF \E n \in DOMAIN lifter.names : lifter.names[n] = op
     THEN [page |-> page,
           code |-> linked(module.dyn[CHOOSE n \in DOMAIN lifter.names : lifter.names[n] = op])]
     ELSE IF handlers[op] = Abort THEN Abort ELSE [handlers[op] EXCEPT !.page = page]]

\* apply: every function's entry is set in the handler that its name is of.
apply(page) ==
  [op \in DOMAIN handlers |->
     IF \E n \in DOMAIN lifter.names : lifter.names[n] = op
     THEN [page |-> page,
           code |-> linked(module.dyn[CHOOSE n \in DOMAIN lifter.names : lifter.names[n] = op])]
     ELSE handlers[op]]

\* the functions of earlier lifters left in the module
clear_None == module

\* clear removes the functions of opcodes and leaves the trampolines.
clear == [module EXCEPT !.dyn = <<>>]

\* The lifter is destroyed: the code is generated and put into pages.
Destroy ==
  /\ lifter.live /\ lifter.todo = <<>>
  /\ handlers' = apply(lifters)
  /\ pages' = pages \cup {lifters}
  /\ module' = clear
  /\ lifter' = Gone
  /\ UNCHANGED <<same, chosen, lifters>>

\* There is no object, no text, no memory, or the memory cannot be made executable.
DestroyFails ==
  /\ lifter.live /\ lifter.todo = <<>>
  /\ module' = clear
  /\ lifter' = Gone
  /\ UNCHANGED <<same, handlers, pages, chosen, lifters>>

Init ==
  /\ same \in BOOLEAN
  /\ handlers = <<>>
  /\ pages = {}
  /\ lifter = Gone
  /\ module = [dyn |-> <<>>, tramp |-> <<>>]
  /\ chosen = <<>>
  /\ lifters = 0

Next == Construct \/ InvalidInsn \/ AlreadyLifted \/ transform \/ Destroy \/ DestroyFails

Spec == Init /\ [][Next]_vars

TypeOK ==
  /\ same \in BOOLEAN
  /\ DOMAIN handlers \subseteq Opcodes
  /\ DOMAIN chosen = DOMAIN handlers
  /\ DOMAIN lifter.names \subseteq Opcodes
  /\ \A op \in DOMAIN handlers : handlers[op] = Abort \/ handlers[op].page \in pages
  /\ lifters \in 0 .. MaxLifters

\* A handler runs the opcode that it is for, or the one a callback has put in its place,
\* and its calls reach the handlers of their names, whatever earlier lifters have left
\* behind in the module; a handler whose code could not be put into pages aborts.  An
\* opcode that is emitted as it is saves the registers that it uses.
HandlerRunsOpcode ==
  \A op \in DOMAIN handlers :
    LET code == handlers[op].code IN
    handlers[op] # Abort =>
      /\ code.opcode = chosen[op]
      /\ code.kind = "lifted" =>
           \A name \in Calls[code.opcode] : code.targets[name] = find_target(name)
      /\ code.kind = "native" /\ chosen[op] = op => code.operands = op
      /\ code.kind = "native" <=> same /\ chosen[op] \notin Lifted

\* The opcodes that no other opcode of the code was made equal to by a callback.
Apart(op) == \A n \in DOMAIN handlers \ {op} : chosen[n] # chosen[op]

\* A step keeps the entries that are set; a successful lifter sets those of its opcodes.
KeepsEntries ==
  /\ \A op \in DOMAIN handlers : handlers[op] # Abort => handlers'[op] = handlers[op]
  /\ lifter.live /\ lifters \in pages' =>
       \A op \in DOMAIN handlers :
         chosen[op] \in DOMAIN lifter.names /\ Apart(op) => handlers'[op] # Abort

\* A lifter that succeeds leaves no handler at abort, but for opcodes that a callback has
\* made equal to another; and an entry that has been set, which chains may hold, is
\* never set again.
EntriesSetOnce == [][KeepsEntries]_vars
===============================================================================
