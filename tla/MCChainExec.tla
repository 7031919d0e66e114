---------------------------- MODULE MCChainExec ----------------------------
(***************************************************************************)
(* Programs and event configurations for ChainExec.                        *)
(***************************************************************************)
EXTENDS ChainExec, GuestPrograms

\* the instructions the interpreter slots are for, and one the lifter gave up on
SpecialBinaries ==
  {Snippet(arch, <<Shape(t, 1, {}), Shape("OTHER", 2, {}), Shape("RET", 1, {})>>)
     : arch \in {"ARM64", "X86_64"}, t \in {"SYSCALL", "TRAP"}}
  \cup {Snippet("X86_64", <<Shape("OTHER", 1, {}), Unlifted(Shape("OTHER", 1, {}))>>)}

DirectBinaries == SpecialBinaries \cup Snippets(3, {2}) \cup Pairs(3, 2, {1}) \cup Pairs(3, 3, {2})

\* a jump through a table, into the middle of a block
TableBinaries ==
  {Snippet("X86_64", <<Shape("OTHER", 1, {}), Shape("OTHER", 2, {}),
                       Shape("JUMP", 1, {1, 2, 3, 4}), Shape("RET", 1, {})>>)}

\* without the combination of instruction events and debugger
SeparateConfigs == {c \in AllConfigs : ~(c.insn /\ c.debug)}

InsnOnly == {Config(FALSE, FALSE, TRUE, FALSE)}

InsnAndDebug == {Config(FALSE, FALSE, TRUE, TRUE)}
============================================================================
