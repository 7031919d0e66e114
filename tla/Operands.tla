------------------------------ MODULE Operands ------------------------------
(***************************************************************************)
(* The operands of the opcode interpreter.  Instructions share one list of *)
(* operands; interpreting an instruction lifts each of its operands to a   *)
(* parameter of its handler (src/OpcodeEngine.cpp).  The pre-encoder turns *)
(* the list into fixed-width metadata, and the pre-encoded interpreter     *)
(* lifts the parameters from those (src/InterpMetaData.cpp).               *)
(* A word has WordBits bits and a byte ByteBits; an abort is a value of    *)
(* its own.                                                                *)
(***************************************************************************)
EXTENDS Integers, SequencesExt, Bitwise

CONSTANTS
  ByteBits, WordBits,   \* 8 and 64 in the code
  MaxU8, MaxU16,        \* the largest values of the metadata's small fields
  no_child,             \* a node index that is no node
  HalfNames,            \* register names that begin with a w
  regoffs,              \* the offset of every register the engine knows
  CPU,                  \* the address of the CPU state
  CPUStates,            \* contents of the CPU state: a number for every offset
  Decoded,              \* operands of decoded instructions, [op, pointer]
  Nodes,                \* the addresses where the decoder puts expressions
  MaxOperands           \* bound: the number of operands asked for

VARIABLES
  operands,     \* the shared list
  operandmap,   \* operand identity -> its OperandInfo, [index, pointer]
  args,         \* the OperandInfo of every operand asked for
  heap,         \* the expression at every node
  state,        \* the CPU state
  encoded       \* what convertOperands made: [ok, metadata, expressions], and, as history,
                \* the heap it made them from

vars == <<operands, operandmap, args, heap, state, encoded>>

Abort == -1

Word(v) == v % 2^WordBits

MaskToBits(val, bits) == IF bits >= WordBits THEN val ELSE val % 2^bits

SignExtend(val, bits) ==
  IF bits = 0 \/ bits >= WordBits THEN val
  ELSE Word((MaskToBits(val, bits) ^^ (2^(bits - 1))) - 2^(bits - 1))

Signed(v) == IF v >= 2^(WordBits - 1) THEN v - 2^WordBits ELSE v

----------------------------------------------------------------------------
\* A register of the state is an offset and a size in bits; one wider than a word
\* is passed by its address.
LoadRegValueRaw(st, reg) ==
  LET bits == ((reg.size + ByteBits - 1) \div ByteBits) * ByteBits
  IN IF bits > WordBits THEN Word(CPU + reg.offset) ELSE st[reg.offset] % 2^bits

LoadRegAddressRaw(reg) == Word(CPU + reg.offset)

NoReg == [name |-> "", size |-> 0]

\* a register operand with its offset set, as initOffsets leaves it
Located(reg) == [offset |-> IF reg = NoReg THEN 0 ELSE regoffs[reg.name], size |-> reg.size]

LoadWordRegValOrZeroRaw(st, reg) == IF reg.size = 0 THEN 0 ELSE LoadRegValueRaw(st, reg)

\* the value of reg, extracted and extended as the shift register sh asks for
Extended(val, reg, sh, size) ==
  LET cut     == sh.extend_op # "Invalid" /\ reg.size > sh.extract_size
      widen   == sh.extend_op # "Invalid" /\ size > sh.extract_size
      part    == IF cut THEN MaskToBits(val, sh.extract_size) ELSE val
      curr    == CASE widen -> size [] cut /\ ~widen -> sh.extract_size [] OTHER -> reg.size
      whole   == IF widen /\ sh.extend_op = "Signed"
                 THEN SignExtend(part, sh.extract_size) ELSE part
  IN IF curr < size THEN MaskToBits(whole, curr) ELSE whole

\* an arithmetic shift that does not extend the operand's sign to the word first
Shifted_NoSign(val, op, n, size) ==
  LET left(v, k) == Word(v * 2^k)
      back       == (size - n) % size
  IN CASE op = "LeftWithZeroes" -> MaskToBits(left(val, n), size)
       [] op = "LeftWithOnes"   -> MaskToBits(left(val, n) | (2^n - 1), size)
       [] op = "UnsignedRight"  -> MaskToBits(val \div 2^n, size)
       [] op = "SignedRight"    -> MaskToBits(Word(Signed(val) \div 2^n), size)
       [] op = "LeftAround"     -> MaskToBits((val \div 2^back) | left(val, n), size)
       [] op = "RightAround"    -> MaskToBits((val \div 2^n) | left(val, back), size)
       [] op = "Invalid"        -> val

Shifted(val, op, n, size) ==
  LET left(v, k) == Word(v * 2^k)
      back       == (size - n) % size
  IN CASE op = "LeftWithZeroes" -> MaskToBits(left(val, n), size)
       [] op = "LeftWithOnes"   -> MaskToBits(left(val, n) | (2^n - 1), size)
       [] op = "UnsignedRight"  -> MaskToBits(val \div 2^n, size)
       [] op = "SignedRight"    -> MaskToBits(Word(Signed(SignExtend(val, size)) \div 2^n), size)
       [] op = "LeftAround"     -> MaskToBits((val \div 2^back) | left(val, n), size)
       [] op = "RightAround"    -> MaskToBits((val \div 2^n) | left(val, back), size)
       [] op = "Invalid"        -> val

ShiftRegisterValue(val, reg, sh, size) ==
  MaskToBits(Shifted(Extended(val, reg, sh, size), sh.shift_op, sh.shift_size, size), size)

LiftShiftRegisterOperandRaw(st, op) ==
  ShiftRegisterValue(LoadRegValueRaw(st, Located(op.reg)), op.reg, op.shift, op.size)

LiftRegisterOperandRaw(st, op, pointer) ==
  IF pointer THEN LoadRegAddressRaw(Located(op.reg)) ELSE LoadRegValueRaw(st, Located(op.reg))

LiftImmediateOperandRaw(op) ==
  IF op.is_signed THEN SignExtend(op.val, op.size) ELSE MaskToBits(op.val, op.size)

\* a segmented, scaled and displaced address, cut to the size of an address
AddressValue(segment, base, index, a) ==
  LET addr == Word(base + index * a.scale + a.displacement + segment)
  IN MaskToBits(addr, a.address_size)

LiftAddressOperandRaw(st, op) ==
  AddressValue(LoadWordRegValOrZeroRaw(st, Located(op.segment_base_reg)),
               LoadWordRegValOrZeroRaw(st, Located(op.base_reg)),
               LoadWordRegValOrZeroRaw(st, Located(op.index_reg)), op.addr)

----------------------------------------------------------------------------
\* An expression is an operation on one or two expressions, a register, given as a
\* register or by its name, or a constant.  The width of an operation is that of the
\* type of its result.
NoExpr == [kind |-> "none"]

Operate(opcode, lhs, rhs, width) ==
  CASE lhs = Abort \/ rhs = Abort -> Abort
    [] opcode = "Add"  -> Word(lhs + rhs)
    [] opcode = "Sub"  -> Word(lhs - rhs)
    [] opcode = "Mul"  -> Word(lhs * rhs)
    [] opcode = "Shl"  -> Word(lhs * 2^rhs)
    [] opcode = "LShr" -> lhs \div 2^rhs
    [] opcode = "AShr" -> Word(Signed(lhs) \div 2^rhs)
    [] opcode \in {"ZExt", "Trunc"} -> MaskToBits(lhs, width)
    [] opcode = "SExt" -> SignExtend(lhs, width)
    [] opcode = "And"  -> lhs & rhs
    [] opcode = "Or"   -> lhs | rhs
    [] opcode = "URem" -> IF rhs = 0 THEN 0 ELSE lhs % rhs
    [] opcode = "Xor"  -> lhs ^^ rhs
    [] OTHER           -> Abort

\* the size assumed for a register given by its name
NamedSize(name) == IF name \in HalfNames THEN WordBits \div 2 ELSE WordBits

ExprReg(e) == [name |-> e.name, size |-> IF e.kind = "name" THEN NamedSize(e.name) ELSE e.size]

RECURSIVE LiftExpressionOperandRecRaw(_, _)
LiftExpressionOperandRecRaw(st, e) ==
  CASE e.kind = "op" ->
         Operate(e.opcode, LiftExpressionOperandRecRaw(st, e.op1),
                 IF e.op2 = NoExpr THEN 0 ELSE LiftExpressionOperandRecRaw(st, e.op2), e.width)
    [] e.kind \in {"reg", "name"} ->
         IF e.name \in DOMAIN regoffs THEN LoadRegValueRaw(st, Located(ExprReg(e))) ELSE Abort
    [] e.kind = "const" -> e.val

\* one turn of the loop of OpcodeHandler::interpRemill: the parameter for an operand; an
\* expression is what its node holds by then
Lift(st, at, op, pointer) ==
  CASE op.type = "Register"      -> LiftRegisterOperandRaw(st, op, pointer)
    [] op.type = "ShiftRegister" -> LiftShiftRegisterOperandRaw(st, op)
    [] op.type = "Immediate"     -> LiftImmediateOperandRaw(op)
    [] op.type = "Address"       -> LiftAddressOperandRaw(st, op)
    [] op.type = "Expression"    -> LiftExpressionOperandRecRaw(st, at[op.expr])

----------------------------------------------------------------------------
\* Conversion to metadata.  Nodes are numbered from 0; a failure carries nothing.
Failed == [ok |-> FALSE]

U8(n) == n % (MaxU8 + 1)
U16(n) == n % (MaxU16 + 1)

\* a check that forgets the offset
RegFits_AnyOffset(reg) == reg.size <= MaxU16

RegFits(reg) == reg.offset <= MaxU16 /\ reg.size <= MaxU16

Narrow(reg) == [offset |-> U16(reg.offset), size |-> U16(reg.size)]

\* append_child: the node of a converted child goes to the end of the list
append_child(child) ==
  IF child.ok /\ Len(child.nodes) < no_child
  THEN [ok |-> TRUE, index |-> Len(child.nodes), nodes |-> Append(child.nodes, child.node)]
  ELSE Failed

OperationNode(e, left, right) ==
  IF left.ok /\ right.ok /\ e.width <= MaxU8
  THEN [ok |-> TRUE, nodes |-> right.nodes,
        node |-> [kind |-> "kOperation", opcode |-> e.opcode, width |-> U8(e.width),
                  lhs |-> left.index, rhs |-> right.index]]
  ELSE Failed

RegisterNode(reg, nodes) ==
  IF RegFits(reg)
  THEN [ok |-> TRUE, nodes |-> nodes, node |-> [kind |-> "kRegister", reg |-> Narrow(reg)]]
  ELSE Failed

RECURSIVE ConvertExpression(_, _)
ConvertExpression(e, nodes) ==
  LET WithLeft(left) ==
        IF ~left.ok THEN Failed
        ELSE OperationNode(e, left,
               IF e.op2 = NoExpr THEN [left EXCEPT !.index = no_child]
               ELSE append_child(ConvertExpression(e.op2, left.nodes)))
  IN CASE e.kind = "op" -> WithLeft(append_child(ConvertExpression(e.op1, nodes)))
       [] e.kind \in {"reg", "name"} ->
            IF e.name \in DOMAIN regoffs THEN RegisterNode(Located(ExprReg(e)), nodes) ELSE Failed
       [] e.kind = "const" ->
            [ok |-> TRUE, nodes |-> nodes,
             node |-> [kind |-> "kConstant", low |-> e.val % 2^(WordBits \div 2),
                       high |-> e.val \div 2^(WordBits \div 2)]]

\* ConvertOperand, its fields beside type and size: checked, then cut to their widths
Value(op, at, nodes) ==
  CASE op.type = "Register" ->
         [ok |-> RegFits(Located(op.reg)), nodes |-> nodes, node |-> Narrow(Located(op.reg))]
    [] op.type = "ShiftRegister" ->
         [ok |-> /\ op.shift.shift_size <= MaxU8
                 /\ op.shift.extract_size <= MaxU8
                 /\ RegFits(Located(op.reg)),
          nodes |-> nodes,
          node |-> [reg |-> Narrow(Located(op.reg)),
                    shift |-> [op.shift EXCEPT !.shift_size = U8(@), !.extract_size = U8(@)]]]
    [] op.type = "Immediate" ->
         [ok |-> TRUE, nodes |-> nodes, node |-> [value |-> op.val, is_signed |-> op.is_signed]]
    [] op.type = "Address" ->
         LET regs == <<Located(op.segment_base_reg), Located(op.base_reg), Located(op.index_reg)>>
         IN [ok |-> op.addr.address_size <= MaxU8 /\ \A r \in ToSet(regs) : RegFits(r),
             nodes |-> nodes,
             node |-> [regs |-> [i \in DOMAIN regs |-> Narrow(regs[i])],
                       addr |-> [op.addr EXCEPT !.address_size = U8(@)]]]
    [] op.type = "Expression" -> ConvertExpression(at[op.expr], nodes)

ConvertOperand(made, op, at) ==
  LET Add(v) == IF v.ok
                THEN [made EXCEPT !.expressions = v.nodes,
                                  !.metadata = Append(@, [type |-> op.type, size |-> U16(op.size),
                                                          value |-> v.node])]
                ELSE [made EXCEPT !.ok = FALSE]
  IN IF made.ok THEN Add(Value(op, at, made.expressions)) ELSE made

NothingEncoded(at) == [ok |-> TRUE, metadata |-> <<>>, expressions |-> <<>>, from |-> at]

----------------------------------------------------------------------------
\* Lifting from metadata.
RECURSIVE MetaExpression(_, _, _)
MetaExpression(st, node, nodes) ==
  CASE node.kind = "kOperation" ->
         Operate(node.opcode, MetaExpression(st, nodes[node.lhs + 1], nodes),
                 IF node.rhs = no_child THEN 0 ELSE MetaExpression(st, nodes[node.rhs + 1], nodes),
                 node.width)
    [] node.kind = "kRegister" -> LoadRegValueRaw(st, node.reg)
    [] node.kind = "kConstant" -> node.high * 2^(WordBits \div 2) + node.low

MetaShiftRegister(st, value, size) ==
  ShiftRegisterValue(LoadRegValueRaw(st, value.reg), value.reg, value.shift, size)

MetaAddress(st, value) ==
  AddressValue(LoadWordRegValOrZeroRaw(st, value.regs[1]), LoadWordRegValOrZeroRaw(st, value.regs[2]),
               LoadWordRegValOrZeroRaw(st, value.regs[3]), value.addr)

MetaImmediate(value, size) ==
  IF value.is_signed THEN SignExtend(value.value, size) ELSE MaskToBits(value.value, size)

LiftOperandRaw(st, m, pointer, nodes) ==
  CASE m.type = "Register" ->
         IF pointer THEN LoadRegAddressRaw(m.value) ELSE LoadRegValueRaw(st, m.value)
    [] m.type = "ShiftRegister" -> MetaShiftRegister(st, m.value, m.size)
    [] m.type = "Immediate"     -> MetaImmediate(m.value, m.size)
    [] m.type = "Address"       -> MetaAddress(st, m.value)
    [] m.type = "Expression"    -> MetaExpression(st, m.value, nodes)

----------------------------------------------------------------------------
\* RemillOperand::ID.  Eight characters of a name count, of an address the names put
\* together, of an expression its node, and the size of no operand.
Name8(name) == IF name \in {"IGNORE_WRITE_TO_WZR", "IGNORE_WRITE_TO_XZR"} THEN "IGNORE_W" ELSE name

ID(op, pointer) ==
  CASE op.type = "Register"      -> <<op.type, op.write, Name8(op.reg.name), pointer>>
    [] op.type = "ShiftRegister" -> <<op.type, op.write, Name8(op.reg.name), op.shift>>
    [] op.type = "Immediate"     -> <<op.type, op.write, op.val, op.is_signed>>
    [] op.type = "Address"       ->
         <<op.type, op.write,
           SelectSeq(<<op.segment_base_reg.name, op.base_reg.name, op.index_reg.name>>,
                     LAMBDA n : n # ""), op.addr>>
    [] op.type = "Expression"    -> <<op.type, op.write, op.expr>>

Init ==
  /\ operands = <<>>
  /\ operandmap = <<>>
  /\ args = <<>>
  /\ heap = [n \in Nodes |-> NoExpr]
  /\ state \in CPUStates
  /\ encoded = NothingEncoded(heap)

\* The decoder puts an expression into a node of the instruction, which lives until init
\* or prefetch is done with it; a later instruction may have its nodes at the same place.
AtNode(op, node) == IF op.type = "Expression" THEN [op EXCEPT !.expr = node] ELSE op
DecodeAt(op, node) == heap' = IF op.type = "Expression" THEN [heap EXCEPT ![node] = op.expr] ELSE heap

\* an index that counts the new operand
initRemill_OffByOne(d, node) ==
  /\ Len(args) < MaxOperands
  /\ DecodeAt(d.op, node)
  /\ LET op   == AtNode(d.op, node)
         id   == ID(op, d.pointer)
         info == [index |-> Len(operands) + 1, pointer |-> d.pointer]
     IN IF id \in DOMAIN operandmap
        THEN args' = Append(args, operandmap[id]) /\ UNCHANGED <<operands, operandmap>>
        ELSE /\ operands' = Append(operands, op)
             /\ operandmap' = [i \in DOMAIN operandmap \cup {id} |->
                                 IF i = id THEN info ELSE operandmap[i]]
             /\ args' = Append(args, info)
  /\ UNCHANGED <<state, encoded>>

\* one turn of the loop of OpcodeHandler::initRemill: the operand is found among the
\* shared ones or becomes one of them
initRemill(d, node) ==
  /\ Len(args) < MaxOperands
  /\ DecodeAt(d.op, node)
  /\ LET op   == AtNode(d.op, node)
         id   == ID(op, d.pointer)
         info == [index |-> Len(operands), pointer |-> d.pointer]
     IN IF id \in DOMAIN operandmap
        THEN args' = Append(args, operandmap[id]) /\ UNCHANGED <<operands, operandmap>>
        ELSE /\ operands' = Append(operands, op)
             /\ operandmap' = [i \in DOMAIN operandmap \cup {id} |->
                                 IF i = id THEN info ELSE operandmap[i]]
             /\ args' = Append(args, info)
  /\ UNCHANGED <<state, encoded>>

\* OpcodeEngine::convertOperands
convertOperands ==
  /\ encoded' = FoldLeft(LAMBDA made, op : ConvertOperand(made, op, heap), NothingEncoded(heap), operands)
  /\ UNCHANGED <<operands, operandmap, args, heap, state>>

\* the guest, or the user, writes registers
WriteState(st) ==
  /\ state' = st
  /\ UNCHANGED <<operands, operandmap, args, heap, encoded>>

Next ==
  \/ \E d \in Decoded, node \in Nodes : initRemill(d, node)
  \/ convertOperands
  \/ \E st \in CPUStates : WriteState(st)

Spec == Init /\ [][Next]_vars

----------------------------------------------------------------------------
\* The type of the state, and that the map and the list describe each other.
TypeOK ==
  /\ Len(args) <= MaxOperands
  /\ \A id \in DOMAIN operandmap : operandmap[id].index \in 0 .. Len(operands) - 1
  /\ \A a \in ToSet(args) : a \in {operandmap[id] : id \in DOMAIN operandmap}
  /\ Len(encoded.metadata) <= Len(operands)

\* Whenever the operands could be encoded, the pre-encoded interpreter lifts each of them
\* to the parameter that the opcode interpreter would lift it to, whatever the registers
\* hold; of an expression, as its node was when it was encoded.
MetadataAgrees ==
  encoded.ok =>
    \A a \in ToSet(args) :
      a.index < Len(encoded.metadata) =>
        LiftOperandRaw(state, encoded.metadata[a.index + 1], a.pointer, encoded.expressions)
          = Lift(state, encoded.from, operands[a.index + 1], a.pointer)

Bit(v, i) == (v \div 2^i) % 2

\* bit i of a shifted and extended register, bit by bit
ShiftedBit(v, op, i) ==
  LET n    == op.shift.shift_size
      keep == IF op.shift.extend_op # "Invalid" /\ op.shift.extract_size < op.reg.size
              THEN op.shift.extract_size ELSE op.reg.size
      Ext(j) == CASE j < keep -> Bit(v, j)
                  [] j >= keep /\ op.shift.extend_op = "Signed" -> Bit(v, keep - 1)
                  [] OTHER -> 0
  IN CASE op.shift.shift_op = "LeftWithZeroes" -> IF i < n THEN 0 ELSE Ext(i - n)
       [] op.shift.shift_op = "LeftWithOnes"   -> IF i < n THEN 1 ELSE Ext(i - n)
       [] op.shift.shift_op = "UnsignedRight"  -> IF i + n < op.size THEN Ext(i + n) ELSE 0
       [] op.shift.shift_op = "SignedRight"    -> Ext(IF i + n < op.size THEN i + n ELSE op.size - 1)
       [] op.shift.shift_op = "LeftAround"     -> Ext((i - n) % op.size)
       [] op.shift.shift_op = "RightAround"    -> Ext((i + n) % op.size)
       [] op.shift.shift_op = "Invalid"        -> Ext(i)

\* The word arithmetic on a shift register operand gives, bit by bit, what extracting,
\* extending and then shifting inside the operand's size means, and nothing above it.
ShiftsAreBitwise ==
  \A op \in ToSet(operands) :
    op.type = "ShiftRegister" =>
      \A i \in 0 .. WordBits - 1 :
        Bit(Lift(state, heap, op, FALSE), i)
          = IF i < op.size THEN ShiftedBit(state[regoffs[op.reg.name]], op, i) ELSE 0
============================================================================
