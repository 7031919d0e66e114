--------------------------- MODULE MCOpcodeEngine ---------------------------
(***************************************************************************)
(* Two threads.  Two Remill opcodes share an operand, and one of them has  *)
(* an operand too many to be called; the code of two native opcodes does   *)
(* not fit one page; one that remill does not read is native code to LLVM; *)
(* opcodes of different kinds share a slot of the cache.                   *)
(***************************************************************************)
EXTENDS OpcodeEngine

Kinds == [add |-> "Remill", wide |-> "Remill", crc |-> "Dynamic", aes |-> "Dynamic",
          stp |-> "MCInst", ldp |-> "MCInst", bad |-> "Dynamic", udf |-> "Unknown"]

Operands == [o \in Opcodes |-> IF o = "add" THEN <<"x0", "x1">>
                               ELSE IF o = "wide" THEN <<"x1", "x2", "x0">> ELSE <<>>]
Sizes    == [o \in Opcodes |-> IF o = "aes" THEN 3 ELSE 2]
Slots    == [o \in Opcodes |-> IF o \in {"add", "crc"} THEN 1 ELSE 2]

============================================================================
