---------------------------- MODULE Orchestrator ----------------------------
(***************************************************************************)
(* The Orchestrator singleton and the lookup cache of every thread         *)
(* (src/Orchestrator.h, src/Orchestrator.cpp): encode, find, findCache and *)
(* clear, as the threads of a process call them.                           *)
(*                                                                         *)
(* The code keeps two kinds of raw pointers in the caches: current points  *)
(* to an element of the vector basicblocks, and the L1 entries point to    *)
(* slots of some image's rthandlers.  A pointer to an element is a pair    *)
(* [storage, index]: growing the vector past its capacity moves the        *)
(* elements to new storage.  A pointer to a slot is a pair [uid, slot]:    *)
(* moving an element does not move its slots, destroying it frees them.    *)
(* Using a pointer that is neither is undefined behaviour and is recorded  *)
(* in wild.                                                                *)
(***************************************************************************)
EXTENDS BasicBlocks

CONSTANTS
  Thread,      \* the threads of the process
  Images,      \* what encode makes of the binaries: sets of BasicBlocks
  Addrs,       \* the addresses looked up
  L1Size,      \* entries of the L1 cache: 256 in the code
  MaxEncodes,  \* bound on the number of calls of encode
  Concurrent   \* whether one thread may change basicblocks while another
               \* thread has already looked something up

ASSUME OrchAssumption == L1Size \in Nat \ {0} /\ Concurrent \in BOOLEAN

VARIABLES
  basicblocks,   \* the vector: a sequence of [uid, blocks]
  storage,       \* the identity of the vector's storage
  capacity,      \* its capacity
  encodes,       \* how many images were made so far; the uid of the last one
  cache,         \* the thread_local Cache of each thread
  wild           \* history: some lookup used a dangling pointer

vars == <<basicblocks, storage, capacity, encodes, cache, wild>>

Null == [null |-> TRUE]

\* the member terminate: what find returns for an unknown address
terminate == [uid |-> 0, slot |-> 0]

NoEntry == [vmaddr |-> 0, insn |-> Null]

EmptyCache == [current |-> Null, L1 |-> [i \in 0 .. L1Size - 1 |-> NoEntry]]

cache_index(vmaddr) == vmaddr % L1Size

(***************************************************************************)
(* The lookup, for a thread with cache c in a process whose vector bb has  *)
(* its elements in storage st.                                             *)
(***************************************************************************)
Live(bb, uid) == \E i \in DOMAIN bb : bb[i].uid = uid

\* whether a non-null pointer to an element may be dereferenced
Sound(bb, st, ptr) == ptr.storage = st /\ ptr.index \in DOMAIN bb

\* what a lookup gives: a slot or Null, the cache it leaves, and whether it went
\* through a pointer that is not valid any more
Answer(insn, c, bad) == [insn |-> insn, cache |-> c, wild |-> bad]

\* findBlocks on an image: the slot it finds goes into the L1 cache
Cached(c, vmaddr, insn) ==
  IF insn.slot = NoSlot
  THEN Answer(Null, c, FALSE)
  ELSE Answer(insn, [c EXCEPT !.L1[cache_index(vmaddr)] = [vmaddr |-> vmaddr, insn |-> insn]],
              FALSE)

FindIn(img, c, vmaddr) ==
  Cached(c, vmaddr, [uid |-> img.uid, slot |-> findBlocks(img.blocks, vmaddr)])

\* a cache probe that compares only the index
L1Hit_IndexOnly(ref, vmaddr) == ref.insn # Null

\* the L1 entry is for this address
L1Hit(ref, vmaddr) == ref.vmaddr = vmaddr /\ ref.insn # Null

\* Orchestrator::findCache, for a thread that has a current image
FindCache(bb, st, c, ref, vmaddr) ==
  IF L1Hit(ref, vmaddr)
  THEN Answer(ref.insn, c, ~Live(bb, ref.insn.uid))
  ELSE IF Sound(bb, st, c.current)
       THEN FindIn(bb[c.current.index], c, vmaddr)
       ELSE Answer(terminate, c, TRUE)

\* the elements of the vector that know the address
Knowing(bb, vmaddr) == {i \in DOMAIN bb : findBlocks(bb[i].blocks, vmaddr) # NoSlot}

\* an image becomes the current one of a thread: the new one at the end of encode, the
\* one that was found in find
Select(c, st, i) == [c EXCEPT !.current = [storage |-> st, index |-> i]]

\* find's loop over all images: the first that knows the address becomes current
FindAll(bb, st, c, known, vmaddr) ==
  IF known = {} THEN Answer(terminate, c, FALSE)
  ELSE FindIn(bb[Min(known)], Select(c, st, Min(known)), vmaddr)

OrElse(found, other) == IF found.insn # Null THEN found ELSE other

(***************************************************************************)
(* Orchestrator::find: the L1 entry, then the current image, then the      *)
(* first of the others that knows the address, then terminate.  The loop   *)
(* skips the current image, which did not know the address.                *)
(***************************************************************************)
Find(bb, st, c, vmaddr) ==
  IF c.current = Null
  THEN FindAll(bb, st, c, Knowing(bb, vmaddr), vmaddr)
  ELSE OrElse(FindCache(bb, st, c, c.L1[cache_index(vmaddr)], vmaddr),
              FindAll(bb, st, c, Knowing(bb, vmaddr), vmaddr))

Init ==
  /\ basicblocks = <<>>
  /\ storage = 0
  /\ capacity = 0
  /\ encodes = 0
  /\ cache = [t \in Thread |-> EmptyCache]
  /\ wild = FALSE

\* what callers keep to when they do not share the engine between running threads
MayChange(t) == Concurrent \/ \A u \in Thread \ {t} : cache[u] = EmptyCache

\* images in use have disjoint address ranges, as GuestMemory hands them out
Apart(img) ==
  \A i \in DOMAIN basicblocks :
    \/ img.maxaddr <= basicblocks[i].blocks.vmaddrs[1]
    \/ basicblocks[i].blocks.maxaddr <= img.vmaddrs[1]

\* encode's push_back, which moves the elements when the vector is full
PushImage(img) ==
  /\ encodes' = encodes + 1
  /\ basicblocks' = Append(basicblocks, [uid |-> encodes', blocks |-> img])
  /\ IF Len(basicblocks) = capacity
     THEN storage' = storage + 1 /\ capacity' = IF capacity = 0 THEN 1 ELSE 2 * capacity
     ELSE UNCHANGED <<storage, capacity>>

\* Orchestrator::encode by thread t
EncodeImage(t, img) ==
  /\ encodes < MaxEncodes /\ MayChange(t) /\ Apart(img)
  /\ PushImage(img)
  /\ cache' = [cache EXCEPT ![t] = Select(@, storage', Len(basicblocks'))]
  /\ UNCHANGED wild

FindInsn(t, vmaddr) ==
  /\ LET f == Find(basicblocks, storage, cache[t], vmaddr)
     IN cache' = [cache EXCEPT ![t] = f.cache] /\ wild' = (wild \/ f.wild)
  /\ UNCHANGED <<basicblocks, storage, capacity, encodes>>

\* a clear that forgets the L1 entries
clear_CurrentOnly(t) ==
  /\ MayChange(t)
  /\ basicblocks' = <<>>
  /\ cache' = [cache EXCEPT ![t].current = Null]
  /\ UNCHANGED <<storage, capacity, encodes, wild>>

\* Orchestrator::clear, from the destructor of an engine on thread t: the vector
\* keeps its storage, and only t's own cache can be reached
clear(t) ==
  /\ MayChange(t)
  /\ basicblocks' = <<>>
  /\ cache' = [cache EXCEPT ![t] = EmptyCache]
  /\ UNCHANGED <<storage, capacity, encodes, wild>>

Next ==
  \E t \in Thread :
    \/ \E img \in Images : EncodeImage(t, img)
    \/ \E vmaddr \in Addrs : FindInsn(t, vmaddr)
    \/ clear(t)

Spec == Init /\ [][Next]_vars

----------------------------------------------------------------------------
\* what find answers a thread that has looked nothing up yet
Uncached(vmaddr) == Find(basicblocks, storage, EmptyCache, vmaddr).insn

\* The type of the state: caches hold null or pointers that were once handed out.
TypeOK ==
  /\ encodes \in 0 .. MaxEncodes
  /\ Len(basicblocks) <= capacity
  /\ \A t \in Thread :
       /\ cache[t].current # Null => cache[t].current.storage \in 1 .. storage
       /\ \A i \in 0 .. L1Size - 1 :
            cache[t].L1[i].insn # Null => cache[t].L1[i].insn.uid \in 1 .. encodes
  /\ wild \in BOOLEAN

\* No lookup ever goes through a pointer into an image that has been moved or
\* destroyed since the pointer was cached.
NoWildLookup == ~wild

\* The caches are invisible: whatever a thread has looked up, encoded or cleared
\* before, find gives it the slot that a search of all images would give.
CacheTransparent ==
  \A t \in Thread, a \in Addrs :
    LET f == Find(basicblocks, storage, cache[t], a) IN ~f.wild /\ f.insn = Uncached(a)
============================================================================
