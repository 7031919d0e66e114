---------------------------- MODULE BinaryEngine ----------------------------
(***************************************************************************)
(* An engine as its user drives it (src/AetherVM.cpp): mapMemory,          *)
(* execute(raw), execute(target) and the orchBinary they share, over the   *)
(* guest memory (module GuestMemory) and the orchestrator (module          *)
(* Orchestrator).  One thread uses the engine, as the samples do; the      *)
(* state is what survives from one call to the next.                       *)
(***************************************************************************)
EXTENDS Integers, Sequences, FiniteSetsExt

CONSTANTS
  Word, basePointer, GUEST_SIZE, PageSize,                \* see GuestMemory
  L1Size,                                                 \* see Orchestrator
  MapSizes,     \* the sizes passed to mapMemory
  RawSnippets,  \* the raw snippets passed to execute(raw)
  MainBinary,   \* the binary the engine was constructed with
  Targets,      \* the static addresses passed to execute(target)
  EventCfg,     \* the engine's EventConfig
  Thread,       \* the one thread
  MaxEncodes,   \* bound on the number of encoded images
  MaxMaps       \* bound on the number of calls of mapMemory

VARIABLES
  m_offset, committed, shared, refused, unmapped, fault,       \* GuestMemory
  basicblocks, storage, capacity, encodes, cache, wild,        \* Orchestrator
  maps,         \* history: the number of calls of mapMemory
  mainuid,      \* history: the image of the main binary, 0 before it is made
  last          \* history: the last execute: what it was asked to run, and the
                \* slot it started at

memvars == <<m_offset, committed, shared, refused, unmapped, fault>>

orchvars == <<basicblocks, storage, capacity, encodes, cache, wild>>

vars == <<memvars, orchvars, maps, mainuid, last>>

Memory == INSTANCE GuestMemory
  WITH Binaries <- RawSnippets \cup {MainBinary}, Addrs <- {}, AccessSizes <- {}

Orch == INSTANCE Orchestrator
  WITH Images <- {}, Addrs <- {}, Concurrent <- FALSE

\* execute has not been called, or returned false
NoRun == [call |-> "none", wanted |-> 0, insn |-> Orch!terminate]

Run(call, uid, insn) == [call |-> call, wanted |-> uid, insn |-> insn]

Init ==
  /\ Memory!Init
  /\ Orch!Init
  /\ maps = 0
  /\ mainuid = 0
  /\ last = NoRun

mapMemory(size) ==
  /\ maps < MaxMaps
  /\ Memory!mapMemory(size)
  /\ maps' = maps + 1
  /\ UNCHANGED <<orchvars, mainuid, last>>

\* an orchBinary that leaves out the mapping
orchBinary_NoMap(bin, addend) ==
  /\ UNCHANGED memvars
  /\ Orch!PushImage(Orch!encode(bin, addend, EventCfg))

\* orchBinary: map the sections, then encode whatever came of that
orchBinary(bin, addend) ==
  /\ Memory!orchBinary(bin, addend)
  /\ Orch!PushImage(Orch!encode(bin, addend, EventCfg))

\* the cache with which thread t starts a run after orchBinary has been called
Selected(t) == Orch!Select(cache[t], storage', Len(basicblocks'))

\* startVM: look up the entry with cache c, in the state orchBinary has left
StartVM(t, call, uid, entry, c) ==
  LET f == Orch!Find(basicblocks', storage', c, entry)
  IN /\ cache' = [cache EXCEPT ![t] = f.cache]
     /\ wild' = (wild \/ f.wild)
     /\ last' = Run(call, uid, f.insn)

\* execute(raw): the snippet goes to the available address and is started there;
\* its Binary is deleted afterwards, its image and its memory stay
executeRaw(t, bin) ==
  /\ encodes < MaxEncodes
  /\ LET vmbase == Memory!guestAvailable
     IN /\ orchBinary(bin, vmbase)
        /\ StartVM(t, "raw", encodes', vmbase + bin.funcs[1].addr - bin.imageBase, Selected(t))
  /\ UNCHANGED <<maps, mainuid>>

\* the runtime address of execute(target), once the guest memory is what it will be
TargetAddress(target) == Memory!mappedAddress(target, 1)'

(***************************************************************************)
(* execute(target): "orchestrate this main binary first if hasn't done     *)
(* yet" is decided by whether any guest memory is in use.                  *)
(***************************************************************************)
executeTarget(t, target) ==
  LET fresh == Memory!guestAvailable = basePointer
      c     == IF fresh THEN Selected(t) ELSE cache[t]
  IN /\ encodes < MaxEncodes
     /\ IF fresh
        THEN orchBinary(MainBinary, basePointer) /\ mainuid' = encodes'
        ELSE UNCHANGED <<memvars, basicblocks, storage, capacity, encodes, mainuid>>
     /\ IF TargetAddress(target) = 0
        THEN /\ cache' = [cache EXCEPT ![t] = c]
             /\ last' = NoRun
             /\ UNCHANGED wild
        ELSE StartVM(t, "target", mainuid', TargetAddress(target), c)
     /\ UNCHANGED maps

\* what the emulated code does next: look up an address of the image it runs in
guestJump(t, vmaddr) ==
  /\ Orch!FindInsn(t, vmaddr)
  /\ UNCHANGED <<memvars, maps, mainuid, last>>

\* the addresses code can jump to: the starts of the blocks of the encoded images
BlockStarts ==
  UNION {Orch!ToSet(basicblocks[i].blocks.vmaddrs) : i \in DOMAIN basicblocks}

Next ==
  \/ \E size \in MapSizes : mapMemory(size)
  \/ \E t \in Thread :
       \/ \E bin \in RawSnippets : executeRaw(t, bin)
       \/ \E target \in Targets : executeTarget(t, target)
       \/ \E vmaddr \in BlockStarts : guestJump(t, vmaddr)

Spec == Init /\ [][Next]_vars

----------------------------------------------------------------------------
\* The images the orchestrator searches never overlap, so that an address means
\* one instruction: the addresses come from the guest memory, which hands out
\* fresh ones.
ImagesApart ==
  \A i, j \in DOMAIN basicblocks :
    i < j => \/ basicblocks[i].blocks.maxaddr <= basicblocks[j].blocks.vmaddrs[1]
             \/ basicblocks[j].blocks.maxaddr <= basicblocks[i].blocks.vmaddrs[1]

\* AetherVM.h: execute turns "the raw opcodes into an internal binary instance
\* before executing": every execute(raw) starts in the image of the code it was
\* given, whatever was executed, mapped or cached before.
RunsItsOwnCode == last.call = "raw" => last.insn.uid = last.wanted

\* execute(target): once the main binary is loaded, a static address of it is looked
\* up to a slot of the main binary, whatever images have been added, made current or
\* cached since.
TargetRunsMain ==
  last.call = "target" /\ last.wanted # 0 => last.insn.uid = last.wanted

\* Unless the system refused a commit, the code of every encoded image lies in guest
\* memory that was committed for it.
ImagesAreBacked ==
  ~refused => \A i \in DOMAIN basicblocks :
    Memory!Region(basicblocks[i].blocks.vmaddrs[1],
                  basicblocks[i].blocks.maxaddr - basicblocks[i].blocks.vmaddrs[1])
      \subseteq committed
============================================================================
