------------------------------ MODULE DbgServer ------------------------------
(***************************************************************************)
(* The target description of the debugger's server (lldb/src/Debugger.cpp) *)
(* and the qXfer packets a client reads it with, piece by piece.  The      *)
(* object is built from the register context of thread 0 when no buffer is *)
(* kept for it, and the buffer is kept until its last piece is sent, while *)
(* guest threads come and go.  The object is a sequence of items, features *)
(* and registers, which stand for its bytes.                               *)
(***************************************************************************)
EXTENDS Integers, Sequences, SequencesExt, FiniteSets

CONSTANTS
  Arch,          \* guest architectures to consider
  Infos,         \* per architecture, register_infos: sequence of [name, size]
  FpuReg0,       \* per architecture, the name of the first vector register
  Lengths,       \* lengths a client asks for
  MaxThreads,    \* bound on the guest threads
  MaxPackets     \* bound on the packets

VARIABLES
  guest,      \* architecture of the guest
  threads,    \* number of threads in m_threads
  buffers,    \* m_xfer_buffer_map: object and annex -> bytes
  client,     \* [got, last]: the pieces put together, and how the last answer began
  packets     \* packets handled so far

vars == <<guest, threads, buffers, client, packets>>

TargetXml == <<"features", "target.xml">>
Objects == {TargetXml, <<"features", "other.xml">>, <<"siginfo", "">>, <<"libraries-svr4", "">>}

\* InitOffsets: a register's offset in the context is the size of those before it.
byte_offset[a \in Arch, i \in Nat] ==
  IF i = 1 THEN 0 ELSE byte_offset[a, i - 1] + Infos[a][i - 1].size

\* Registers are described in the order of the table; at the first vector register the
\* feature changes, and with it the group, and the type of what is wide enough.
IsFpu(a, i) == \E j \in 1 .. i : Infos[a][j].name = FpuReg0[a]

Reg(a, i) ==
  [ item   |-> "reg",
    name   |-> Infos[a][i].name,
    size   |-> Infos[a][i].size,
    regnum |-> i - 1,
    offset |-> byte_offset[a, i],
    vector |-> IsFpu(a, i) /\ Infos[a][i].size >= 16 ]

Feature(name) == [item |-> "feature", name |-> name]

Described(a) ==
  LET n == Cardinality({i \in DOMAIN Infos[a] : ~IsFpu(a, i)})
      reg == [i \in DOMAIN Infos[a] |-> Reg(a, i)]
  IN <<Feature("core")>> \o SubSeq(reg, 1, n)
     \o (IF n < Len(reg) THEN <<Feature("fpu")>> ELSE <<>>) \o SubSeq(reg, n + 1, Len(reg))

Description == [a \in Arch |-> Described(a)]

BuildTargetXml == IF threads = 0 THEN <<>> ELSE Description[guest]

\* <<>> is the error answer.  The calls for siginfo and libraries are not implemented by
\* this process and fail in its base class.
ReadXferObject(object) == IF object = TargetXml THEN BuildTargetXml ELSE <<>>

\* the last piece begun a byte late
Piece_Late(buffer, offset, length) ==
  IF offset >= Len(buffer) THEN [mark |-> "l", data |-> <<>>]
  ELSE IF length >= Len(buffer) - offset
  THEN [mark |-> "l", data |-> SubSeq(buffer, offset + 2, Len(buffer))]
  ELSE [mark |-> "m", data |-> SubSeq(buffer, offset + 1, offset + length)]

\* The piece of a buffer and whether it is the last.
Piece(buffer, offset, length) ==
  IF offset >= Len(buffer) THEN [mark |-> "l", data |-> <<>>]
  ELSE IF length >= Len(buffer) - offset
  THEN [mark |-> "l", data |-> SubSeq(buffer, offset + 1, Len(buffer))]
  ELSE [mark |-> "m", data |-> SubSeq(buffer, offset + 1, offset + length)]

Buffer(object) == IF object \in DOMAIN buffers THEN buffers[object] ELSE ReadXferObject(object)

Answer(object, offset, length) ==
  IF Buffer(object) = <<>> THEN [mark |-> "E", data |-> <<>>]
  ELSE Piece(Buffer(object), offset, length)

\* The handler keeps the buffer of an answer that is not the last.
Handle_qXfer(object, offset, length) ==
  LET answer == Answer(object, offset, length)
      kept == (DOMAIN buffers \ {object}) \cup IF answer.mark = "m" THEN {object} ELSE {}
  IN /\ packets < MaxPackets
     /\ packets' = packets + 1
     /\ buffers' = [o \in kept |-> IF o = object THEN Buffer(object) ELSE buffers[o]]
     /\ UNCHANGED <<guest, threads>>

\* The client asks for the next piece of the description.
ReadNext ==
  /\ client.last \in {"none", "m"}
  /\ \E length \in Lengths :
       LET answer == Answer(TargetXml, Len(client.got), length) IN
       /\ Handle_qXfer(TargetXml, Len(client.got), length)
       /\ client' = [got |-> client.got \o answer.data, last |-> answer.mark]

\* An answer is lost, or belongs to a transfer that was given up: the server has
\* handled a request that the client then makes again.
ReadLost ==
  /\ \E length \in Lengths : \E offset \in {0, Len(client.got)} :
       Handle_qXfer(TargetXml, offset, length)
  /\ UNCHANGED client

\* The client starts again from the beginning.
Restart ==
  /\ client.last # "none"
  /\ client' = [got |-> <<>>, last |-> "none"]
  /\ UNCHANGED <<guest, threads, buffers, packets>>

\* Objects this process does not have.
ReadOther ==
  /\ \E object \in Objects \ {TargetXml} : \E length \in Lengths :
       Handle_qXfer(object, 0, length)
  /\ UNCHANGED client

AttachThread ==
  /\ threads < MaxThreads
  /\ threads' = threads + 1
  /\ UNCHANGED <<guest, buffers, client, packets>>

DetachThread ==
  /\ threads > 0
  /\ threads' = threads - 1
  /\ UNCHANGED <<guest, buffers, client, packets>>

\* The connection is made from the first guest thread.
Init ==
  /\ guest \in Arch
  /\ threads = 1
  /\ buffers = [o \in {} |-> <<>>]
  /\ client = [got |-> <<>>, last |-> "none"]
  /\ packets = 0

Next == ReadNext \/ ReadLost \/ Restart \/ ReadOther \/ AttachThread \/ DetachThread

Spec == Init /\ [][Next]_vars

TypeOK ==
  /\ threads \in 0 .. MaxThreads
  /\ DOMAIN buffers \subseteq {TargetXml}
  /\ client.last \in {"none", "m", "l", "E"}
  /\ packets \in 0 .. MaxPackets

\* When the last piece has come, in whatever lengths it was asked for and whatever
\* requests were repeated or given up meanwhile, the client holds one whole description:
\* every register once, under the number the register context serves it by, at an offset
\* where no other register lies, and the vector registers, and they alone, as vectors.
ClientKnowsRegisters ==
  client.last = "l" =>
    LET infos == Infos[guest]
        regs == SelectSeq(client.got, LAMBDA x : x.item = "reg")
    IN /\ Len(regs) = Len(infos)
       /\ \A i \in DOMAIN infos :
            /\ regs[i].regnum = i - 1
            /\ regs[i].name = infos[i].name
            /\ regs[i].vector <=> infos[i].size = 16
            /\ \A j \in 1 .. i - 1 : regs[j].offset + regs[j].size <= regs[i].offset
       /\ Cardinality({k \in DOMAIN client.got : client.got[k].item = "feature"}) = 2
==============================================================================
