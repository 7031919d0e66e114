------------------------- MODULE GuestMemory_proofs -------------------------
(***************************************************************************)
(* Proofs about the guest address space, for every word size, reservation, *)
(* page size, set of requests and set of binaries.                         *)
(***************************************************************************)
EXTENDS GuestMemory, TLAPS

\* Rounding up to the page size never leaves the natural numbers.
LEMMA AlignUpType ==
  ASSUME NEW v \in Words
  PROVE  align_up(v) \in Nat
<1> DEFINE s == WAdd(v, PageSize - 1)
<1>1. s \in Nat
  BY MemoryAssumption DEF WAdd, Words
<1>2. s % PageSize \in 0 .. PageSize - 1 /\ s % PageSize <= s
  <2> HIDE DEF s
  <2> QED BY <1>1, MemoryAssumption
<1> QED BY <1>1, <1>2 DEF align_up

\* The requests of mapMemory and orchBinary are numbers.
LEMMA RequestType ==
  /\ \A size \in MapSizes : align_up(size) \in Nat
  /\ \A bin \in Binaries : align_up(SectionBytes(bin)) \in Nat
BY AlignUpType, MemoryAssumption, BinariesAssumption DEF Words

----------------------------------------------------------------------------
\* commit keeps the offset inside the reservation and commits nothing outside of it,
\* whatever is asked for.
LEMMA CommitType ==
  ASSUME TypeOK, NEW vmaddr, NEW size \in Nat, NEW done \in BOOLEAN,
         commit(vmaddr, size, done)
  PROVE  /\ m_offset' \in 0 .. GUEST_SIZE - 1
         /\ committed' \subseteq Reservation
         /\ shared' \subseteq Reservation
         /\ refused' \in BOOLEAN
<1>1. CASE UNCHANGED <<m_offset, committed, shared, refused>>
  BY <1>1 DEF TypeOK
<1>2. CASE /\ WAdd(m_offset, size) < GUEST_SIZE
           /\ m_offset' = WAdd(m_offset, size)
           /\ page_commit(vmaddr, size, done)
  <2>1. m_offset' \in 0 .. GUEST_SIZE - 1
    BY <1>2, MemoryAssumption DEF TypeOK, WAdd
  <2>2. /\ committed' \subseteq Reservation /\ shared' \subseteq Reservation
        /\ refused' \in BOOLEAN
    BY <1>2 DEF TypeOK, page_commit
  <2> QED BY <2>1, <2>2
<1> QED BY <1>1, <1>2 DEF commit

\* Whatever programs ask for and whatever the system refuses, the offset stays
\* within the reservation and so does every committed byte.
THEOREM TypeCorrect == Spec => []TypeOK
<1>1. Init => TypeOK
  <2>1. 0 \in 0 .. GUEST_SIZE - 1
    BY MemoryAssumption
  <2> QED BY <2>1 DEF Init, TypeOK
<1>2. TypeOK /\ [Next]_vars => TypeOK'
  <2> SUFFICES ASSUME TypeOK, [Next]_vars PROVE TypeOK'
    OBVIOUS
  <2>1. ASSUME NEW size \in MapSizes, mapMemory(size) PROVE TypeOK'
    BY <2>1, CommitType, RequestType DEF mapMemory, TypeOK
  <2>2. ASSUME NEW bin \in Binaries, orchBinary(bin, guestAvailable) PROVE TypeOK'
    <3>1. /\ m_offset' \in 0 .. GUEST_SIZE - 1
          /\ committed' \subseteq Reservation
          /\ shared' \subseteq Reservation
          /\ refused' \in BOOLEAN
      BY <2>2, CommitType, RequestType DEF orchBinary
    <3>2. unmapped' \subseteq UNION {b.sections : b \in Binaries}
      BY <2>2 DEF orchBinary, TypeOK
    <3> QED BY <2>2, <3>1, <3>2 DEF orchBinary, TypeOK
  <2>3. ASSUME NEW addr \in Addrs, NEW size \in AccessSizes, accessMemory(addr, size)
        PROVE TypeOK'
    BY <2>3 DEF accessMemory, TypeOK
  <2>4. CASE UNCHANGED vars
    BY <2>4 DEF vars, TypeOK
  <2> QED BY <2>1, <2>2, <2>3, <2>4 DEF Next
<1> QED BY <1>1, <1>2, PTL DEF Spec

----------------------------------------------------------------------------
\* A request that does not wrap, made at the available address, gets the bytes from
\* there on, and the available address moves past them.
LEMMA CommitAdvances ==
  ASSUME TypeOK, NEW size \in Nat, size + GUEST_SIZE <= Word, NEW done \in BOOLEAN,
         commit(guestAvailable, size, done)
  PROVE  \/ UNCHANGED <<m_offset, committed, shared, refused>>
         \/ /\ m_offset' = m_offset + size
            /\ basePointer + m_offset + size < basePointer + GUEST_SIZE
            /\ guestAvailable = basePointer + m_offset
            /\ page_commit(basePointer + m_offset, size, done)
<1>1. guestAvailable = basePointer + m_offset
  BY MemoryAssumption DEF TypeOK, guestAvailable, WAdd
<1>2. m_offset \in Nat /\ m_offset < GUEST_SIZE /\ GUEST_SIZE \in Nat /\ Word \in Nat
  BY MemoryAssumption DEF TypeOK
<1>3. m_offset + size < Word
  BY <1>2
<1>4. WAdd(m_offset, size) = m_offset + size
  BY <1>3 DEF WAdd
<1> QED BY <1>1, <1>2, <1>4, MemoryAssumption DEF commit

\* The bytes a page_commit adds lie between the old and the new available address.
LEMMA GrantIsFresh ==
  ASSUME TypeOK, AvailableIsFree, NoDoubleGrant,
         NEW size \in Nat, size + GUEST_SIZE <= Word, NEW done \in BOOLEAN,
         commit(guestAvailable, size, done)
  PROVE  AvailableIsFree' /\ NoDoubleGrant'
<1>0. CASE UNCHANGED <<m_offset, committed, shared, refused>>
  BY <1>0 DEF AvailableIsFree, NoDoubleGrant, guestAvailable
<1>1. CASE ~UNCHANGED <<m_offset, committed, shared, refused>>
  <2>1. /\ m_offset' = m_offset + size
        /\ basePointer + m_offset + size < basePointer + GUEST_SIZE
        /\ guestAvailable = basePointer + m_offset
        /\ page_commit(basePointer + m_offset, size, done)
    BY <1>1, CommitAdvances
  <2>2. guestAvailable' = basePointer + m_offset + size
    BY <2>1, MemoryAssumption DEF TypeOK, guestAvailable, WAdd
  <2>3. m_offset \in Nat /\ basePointer \in Nat
    BY MemoryAssumption DEF TypeOK
  <2>4. \A a \in committed : a \in Nat /\ a < basePointer + m_offset
    BY <2>1, MemoryAssumption DEF AvailableIsFree, TypeOK, Reservation, Region
  <2>5. \A a \in Region(basePointer + m_offset, size) :
          basePointer + m_offset <= a /\ a < basePointer + m_offset + size
    BY <2>3 DEF Region
  <2>6. committed \cap Region(basePointer + m_offset, size) = {}
    BY <2>3, <2>4, <2>5
  <2>7. committed' \subseteq committed \cup Region(basePointer + m_offset, size)
    BY <2>1 DEF page_commit
  <2>8. \A a \in committed' : a < guestAvailable'
    BY <2>2, <2>3, <2>4, <2>5, <2>7
  <2>9. shared' = {}
    BY <2>1, <2>6 DEF page_commit, NoDoubleGrant
  <2> QED BY <2>8, <2>9 DEF AvailableIsFree, NoDoubleGrant
<1> QED BY <1>0, <1>1

\* A position-independent binary is loaded at the available address.
LEMMA LoadAddress ==
  ASSUME TypeOK
  PROVE  WAdd(0, guestAvailable) = guestAvailable
BY MemoryAssumption DEF TypeOK, guestAvailable, WAdd

\* Programs that keep to WellBehaved never get a byte twice, even when the system
\* refuses to commit: what commit hands out was free, and stays below the available
\* address.
THEOREM GrantsAreDisjoint ==
  ASSUME WellBehaved
  PROVE  Spec => [](AvailableIsFree /\ NoDoubleGrant)
<1>1. Init => AvailableIsFree /\ NoDoubleGrant
  BY DEF Init, AvailableIsFree, NoDoubleGrant
<1>2. TypeOK /\ AvailableIsFree /\ NoDoubleGrant /\ [Next]_vars
        => AvailableIsFree' /\ NoDoubleGrant'
  <2> SUFFICES ASSUME TypeOK, AvailableIsFree, NoDoubleGrant, [Next]_vars
               PROVE  AvailableIsFree' /\ NoDoubleGrant'
    OBVIOUS
  <2>1. ASSUME NEW size \in MapSizes, mapMemory(size)
        PROVE  AvailableIsFree' /\ NoDoubleGrant'
    BY <2>1, GrantIsFresh, RequestType DEF mapMemory, WellBehaved, NoWrap
  <2>2. ASSUME NEW bin \in Binaries, orchBinary(bin, guestAvailable)
        PROVE  AvailableIsFree' /\ NoDoubleGrant'
    BY <2>2, GrantIsFresh, RequestType, LoadAddress DEF orchBinary, WellBehaved, NoWrap
  <2>3. ASSUME NEW addr \in Addrs, NEW size \in AccessSizes, accessMemory(addr, size)
        PROVE  AvailableIsFree' /\ NoDoubleGrant'
    BY <2>3 DEF accessMemory, AvailableIsFree, NoDoubleGrant, guestAvailable
  <2>4. CASE UNCHANGED vars
    BY <2>4 DEF vars, AvailableIsFree, NoDoubleGrant, guestAvailable
  <2> QED BY <2>1, <2>2, <2>3, <2>4 DEF Next
<1> QED BY <1>1, <1>2, TypeCorrect, PTL DEF Spec

----------------------------------------------------------------------------
\* As long as nothing is refused, a commit at the available address keeps the committed
\* bytes a prefix of the reservation.
LEMMA CommitKeepsPrefix ==
  ASSUME TypeOK, CommittedIsPrefix,
         NEW size \in Nat, size + GUEST_SIZE <= Word, NEW done \in BOOLEAN,
         commit(guestAvailable, size, done)
  PROVE  CommittedIsPrefix' /\ (refused => refused')
<1>0. CASE UNCHANGED <<m_offset, committed, shared, refused>>
  BY <1>0 DEF CommittedIsPrefix
<1>1. CASE ~UNCHANGED <<m_offset, committed, shared, refused>>
  <2>1. /\ m_offset' = m_offset + size
        /\ basePointer + m_offset + size < basePointer + GUEST_SIZE
        /\ page_commit(basePointer + m_offset, size, done)
    BY <1>1, CommitAdvances
  <2>2. m_offset \in Nat /\ basePointer \in Nat /\ GUEST_SIZE \in Nat
    BY MemoryAssumption DEF TypeOK
  <2>3. refused => refused'
    BY <2>1 DEF page_commit
  <2> SUFFICES ASSUME ~refused' PROVE committed' = Region(basePointer, m_offset')
    BY <2>3 DEF CommittedIsPrefix
  <2>4. ~refused /\ done
    BY <2>1 DEF page_commit
  <2>5. committed' = committed \cup Region(basePointer + m_offset, size)
    BY <2>1, <2>4 DEF page_commit
  <2>6. Region(basePointer, m_offset) \cup Region(basePointer + m_offset, size)
          = Region(basePointer, m_offset + size)
    BY <2>2 DEF Region
  <2> QED BY <2>1, <2>4, <2>5, <2>6 DEF CommittedIsPrefix
<1> QED BY <1>0, <1>1

\* A range valid() accepts lies in the committed prefix, if nothing was refused.
LEMMA ValidIsCommitted ==
  ASSUME TypeOK, CommittedIsPrefix, ~refused, NEW vmaddr \in Nat, NEW size \in Nat,
         basePointer + GUEST_SIZE + size <= Word, valid(vmaddr, size)
  PROVE  Region(vmaddr, size) \subseteq committed
<1>1. m_offset \in Nat /\ m_offset < GUEST_SIZE /\ basePointer \in Nat
        /\ GUEST_SIZE \in Nat /\ Word \in Nat /\ basePointer + GUEST_SIZE < Word
  BY MemoryAssumption DEF TypeOK
<1>2. WAdd(basePointer, m_offset) = basePointer + m_offset
  BY <1>1 DEF WAdd
<1>3. basePointer <= vmaddr /\ vmaddr < basePointer + m_offset
  BY <1>2 DEF valid
<1>4. WAdd(vmaddr, size) = vmaddr + size
  BY <1>1, <1>3 DEF WAdd
<1>5. vmaddr + size < basePointer + m_offset
  BY <1>2, <1>4 DEF valid
<1> QED BY <1>1, <1>3, <1>5 DEF Region, CommittedIsPrefix

\* For the same programs, until the system refuses a commit, the one offset describes
\* the committed bytes exactly and no memcpy that valid() lets through leaves them.
THEOREM OffsetDescribesMemory ==
  ASSUME WellBehaved
  PROVE  Spec => [](CommittedIsPrefix /\ NoFault)
<1>1. Init => CommittedIsPrefix /\ NoFault
  BY MemoryAssumption DEF Init, CommittedIsPrefix, NoFault, Region
<1>2. TypeOK /\ CommittedIsPrefix /\ NoFault /\ [Next]_vars
        => CommittedIsPrefix' /\ NoFault'
  <2> SUFFICES ASSUME TypeOK, CommittedIsPrefix, NoFault, [Next]_vars
               PROVE  CommittedIsPrefix' /\ NoFault'
    OBVIOUS
  <2>1. ASSUME NEW size \in MapSizes, mapMemory(size)
        PROVE  CommittedIsPrefix' /\ NoFault'
    BY <2>1, CommitKeepsPrefix, RequestType DEF mapMemory, WellBehaved, NoWrap, NoFault
  <2>2. ASSUME NEW bin \in Binaries, orchBinary(bin, guestAvailable)
        PROVE  CommittedIsPrefix' /\ NoFault'
    BY <2>2, CommitKeepsPrefix, RequestType, LoadAddress
       DEF orchBinary, WellBehaved, NoWrap, NoFault
  <2>3. ASSUME NEW addr \in Addrs, NEW size \in AccessSizes, accessMemory(addr, size)
        PROVE  CommittedIsPrefix' /\ NoFault'
    <3>1. CommittedIsPrefix'
      BY <2>3 DEF accessMemory, CommittedIsPrefix
    <3>2. WAdd(basePointer, addr) \in Nat /\ size \in Nat
      BY MemoryAssumption DEF WAdd
    <3>3. mappedAddress(addr, size) # 0 /\ ~refused
            => Region(mappedAddress(addr, size), size) \subseteq committed
      BY <3>2, ValidIsCommitted DEF mappedAddress, WellBehaved
    <3> QED BY <2>3, <3>1, <3>3 DEF accessMemory, NoFault
  <2>4. CASE UNCHANGED vars
    BY <2>4 DEF vars, CommittedIsPrefix, NoFault
  <2> QED BY <2>1, <2>2, <2>3, <2>4 DEF Next
<1> QED BY <1>1, <1>2, TypeCorrect, PTL DEF Spec
============================================================================
