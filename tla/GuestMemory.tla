---------------------------- MODULE GuestMemory ----------------------------
(***************************************************************************)
(* The guest address space of an AetherVM engine: the reservation made by  *)
(* GuestMemory (src/Memory.h, src/Memory.cpp), the page primitives it is   *)
(* built on (src/Platform.cpp) and the methods of BinaryEngine through     *)
(* which a program grows, fills and reads it (src/AetherVM.cpp).           *)
(*                                                                         *)
(* Addresses are machine words: numbers below Word, added and subtracted   *)
(* with wrap-around as uintptr_t is.  The contents of memory play no part  *)
(* in any decision of the code and are left out; which bytes the operating *)
(* system has made accessible is kept, because touching any other byte     *)
(* kills the process.                                                      *)
(***************************************************************************)
EXTENDS Integers, FiniteSetsExt

CONSTANTS
  Word,          \* 2^64: one more than the largest machine word
  basePointer,   \* where page_alloc put the reservation
  GUEST_SIZE,    \* the bytes reserved
  PageSize,      \* page_size()
  MapSizes,      \* the sizes programs pass to mapMemory
  Binaries,      \* binaries: [imageBase |-> , sections |-> set of [addr, size]]
  Addrs,         \* the addresses programs pass to readMemory and writeMemory
  AccessSizes    \* and the lengths

(***************************************************************************)
(* The reservation is page aligned, succeeds, and does not reach the end   *)
(* of the address space.  A guest address is first tried as an offset into *)
(* the reservation; the reservation lies above every such offset, as every *)
(* supported system places anonymous mappings.                             *)
(***************************************************************************)
ASSUME MemoryAssumption ==
  /\ Word \in Nat /\ basePointer \in Nat
  /\ GUEST_SIZE \in Nat \ {0} /\ PageSize \in Nat \ {0}
  /\ basePointer + GUEST_SIZE < Word
  /\ GUEST_SIZE <= basePointer
  /\ MapSizes \subseteq 0 .. Word - 1
  /\ Addrs \subseteq 0 .. Word - 1 /\ AccessSizes \subseteq 1 .. Word - 1

VARIABLES
  m_offset,    \* GuestMemory::m_offset
  committed,   \* the bytes of the reservation the system has made accessible
  shared,      \* history: bytes handed out when they were already in use
  refused,     \* history: page_commit has failed
  unmapped,    \* history: sections not copied although their commit succeeded
  fault        \* history: a memcpy on the guest path left the committed bytes

vars == <<m_offset, committed, shared, refused, unmapped, fault>>

Words == 0 .. Word - 1

WAdd(a, b) == IF a + b < Word THEN a + b ELSE a + b - Word

WSub(a, b) == IF a >= b THEN a - b ELSE a - b + Word

\* the bytes of an access of n bytes at a; it may run past the last word
Region(a, n) == a .. (a + n - 1)

Reservation == Region(basePointer, GUEST_SIZE)

align_up(v) == LET s == WAdd(v, PageSize - 1) IN s - (s % PageSize)

guestAvailable == WAdd(basePointer, m_offset)

\* a check that looks only at the first byte
valid_FirstByte(vmaddr, size) ==
  /\ basePointer <= vmaddr
  /\ vmaddr < WAdd(basePointer, m_offset)

valid(vmaddr, size) ==
  /\ basePointer <= vmaddr
  /\ vmaddr < WAdd(basePointer, m_offset)
  /\ WAdd(vmaddr, size) < WAdd(basePointer, m_offset)

(***************************************************************************)
(* mprotect: the range must be page aligned and mapped, and the system may *)
(* still refuse for want of memory.  done is the value returned.           *)
(***************************************************************************)
page_commit(hostptr, size, done) ==
  /\ done => Region(hostptr, size) \subseteq Reservation
  /\ committed' = IF done THEN committed \cup Region(hostptr, size)
                          ELSE committed
  /\ shared' = IF done THEN shared \cup (committed \cap Region(hostptr, size))
                       ELSE shared
  /\ refused' = (refused \/ ~done)

\* a commit that does not check that the request fits the reservation
commit_NoLimit(vmaddr, size, done) ==
  /\ m_offset' = WAdd(m_offset, size)
  /\ page_commit(vmaddr, size, done)

\* a commit that forgets to advance the offset
commit_NoAdvance(vmaddr, size, done) ==
  /\ WAdd(m_offset, size) < GUEST_SIZE
  /\ WAdd(WSub(vmaddr, basePointer), size) < GUEST_SIZE
  /\ page_commit(vmaddr, size, done)
  /\ UNCHANGED m_offset

(***************************************************************************)
(* GuestMemory::commit.  The offset advances before page_commit is called, *)
(* whatever it returns and wherever vmaddr is.                             *)
(***************************************************************************)
commit(vmaddr, size, done) ==
  \/ /\ \/ WAdd(m_offset, size) >= GUEST_SIZE
        \/ WAdd(WSub(vmaddr, basePointer), size) >= GUEST_SIZE
     /\ ~done
     /\ UNCHANGED <<m_offset, committed, shared, refused>>
  \/ /\ WAdd(m_offset, size) < GUEST_SIZE
     /\ WAdd(WSub(vmaddr, basePointer), size) < GUEST_SIZE
     /\ m_offset' = WAdd(m_offset, size)
     /\ page_commit(vmaddr, size, done)

\* BinaryEngine::mapMemory: the block is the next free part of the reservation
mapMemory(size) ==
  /\ \E done \in BOOLEAN : commit(guestAvailable, align_up(size), done)
  /\ UNCHANGED <<unmapped, fault>>

\* the part of BinaryEngine::mappedAddress that is about guest memory, behind the test
\* for an address in an opcode binary (module Registers); 0 is "not a guest address"
mappedAddress(addr, size) ==
  LET rtaddr == WAdd(basePointer, addr) IN IF valid(rtaddr, size) THEN rtaddr ELSE 0

\* a sum that counts only the largest section
SectionBytes_Largest(bin) == Max({s.size : s \in bin.sections})

SectionBytes(bin) == MapThenSumSet(LAMBDA s : s.size, bin.sections)

\* binaries come from files: their sizes and base addresses are machine words
ASSUME BinariesAssumption ==
  \A bin \in Binaries : bin.imageBase \in Words /\ SectionBytes(bin) \in Words

(***************************************************************************)
(* The mapping half of BinaryEngine::orchBinary.  One run of pages is      *)
(* committed for all the sections together; then each section is copied to *)
(* its own address with writeMemory.  Both results are ignored.  The       *)
(* section address is already a host address, so writeMemory takes the     *)
(* host path, which reports an inaccessible range instead of faulting.     *)
(***************************************************************************)
orchBinary(bin, addend) ==
  /\ \E done \in BOOLEAN :
       /\ commit(WAdd(bin.imageBase, addend), align_up(SectionBytes(bin)), done)
       /\ unmapped' = unmapped \cup
            {s \in bin.sections :
               /\ done
               /\ s.size > 0
               /\ ~(Region(WAdd(s.addr, addend), s.size) \subseteq committed')}
  /\ UNCHANGED fault

(***************************************************************************)
(* readMemory, readUInt64 and writeMemory take the same path: a memcpy if  *)
(* the address is a guest address, otherwise the host access of            *)
(* Platform.cpp, which fails cleanly.                                      *)
(***************************************************************************)
accessMemory(addr, size) ==
  /\ fault' = \/ fault
              \/ LET rtaddr == mappedAddress(addr, size)
                 IN rtaddr # 0 /\ ~(Region(rtaddr, size) \subseteq committed)
  /\ UNCHANGED <<m_offset, committed, shared, refused, unmapped>>

\* The constructor reserves the space and commits nothing.
Init ==
  /\ m_offset = 0
  /\ committed = {}
  /\ shared = {}
  /\ refused = FALSE
  /\ unmapped = {}
  /\ fault = FALSE

\* execute(raw) loads at the available address; execute(target) loads the main
\* binary at basePointer, and only when that is still the available address.
Next ==
  \/ \E size \in MapSizes : mapMemory(size)
  \/ \E bin \in Binaries : orchBinary(bin, guestAvailable)
  \/ \E addr \in Addrs, size \in AccessSizes : accessMemory(addr, size)

Spec == Init /\ [][Next]_vars

----------------------------------------------------------------------------
\* The type of the state, with the bound the reservation puts on the offset.
TypeOK ==
  /\ m_offset \in 0 .. GUEST_SIZE - 1
  /\ committed \subseteq Reservation
  /\ shared \subseteq Reservation
  /\ refused \in BOOLEAN
  /\ unmapped \subseteq UNION {b.sections : b \in Binaries}
  /\ fault \in BOOLEAN

\* No byte of the reservation is handed out twice: a block mapMemory returns and
\* the pages of a loaded binary were free when GuestMemory::commit gave them out.
NoDoubleGrant == shared = {}

\* Until the system refuses a commit, the committed bytes are exactly those below the
\* available address, so that the one offset m_offset describes them, as
\* GuestMemory::valid presumes.
CommittedIsPrefix == ~refused => committed = Region(basePointer, m_offset)

\* Until the system refuses a commit, a read or a write that valid() lets through
\* touches no byte the system has not made accessible.
NoFault == fault => refused

\* AetherVM.cpp: orchBinary is to "map all the sections": a binary whose sections
\* lie side by side and for which the commit succeeded has every one of them.
AllSectionsMapped == unmapped = {}

\* Memory.h: the offset is "the available offset for next commit": nothing at or
\* above the available address is in use, even after a refused commit.
AvailableIsFree == \A a \in committed : a < guestAvailable

(***************************************************************************)
(* What a program must keep to for the offset to describe the reservation: *)
(* binaries are position independent, and no request, however it is        *)
(* rounded, wraps around when it is added to an address of the guest.      *)
(***************************************************************************)
NoWrap(size) == align_up(size) + GUEST_SIZE <= Word

WellBehaved ==
  /\ \A size \in MapSizes : NoWrap(size)
  /\ \A bin \in Binaries : bin.imageBase = 0 /\ NoWrap(SectionBytes(bin))
  /\ \A size \in AccessSizes : basePointer + GUEST_SIZE + size <= Word
============================================================================
