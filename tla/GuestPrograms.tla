--------------------------- MODULE GuestPrograms ---------------------------
(***************************************************************************)
(* Small guest binaries for model checking.  A program is given by the     *)
(* shapes of its instructions, [type, oplen, lifted, to], where to is the  *)
(* set of the numbers of the instructions it may branch to.                *)
(***************************************************************************)
EXTENDS Integers, SequencesExt

Shape(type, oplen, to) == [type |-> type, oplen |-> oplen, lifted |-> TRUE, to |-> to]

Unlifted(shape) == [shape EXCEPT !.lifted = FALSE]

\* the address of instruction k, or of the end of the program
AddrOf(shapes, k) ==
  FoldLeft(LAMBDA a, s : a + s.oplen, 0, SubSeq(shapes, 1, k - 1))

\* comins: the analyser sees direct jumps only
Referred(shapes, k) ==
  \E j \in DOMAIN shapes : shapes[j].type \in {"JCOND", "JUMP"} /\ shapes[j].to = {k}

\* the function made of instructions first .. last
Function(shapes, first, last) ==
  [addr  |-> AddrOf(shapes, first),
   end   |-> AddrOf(shapes, last + 1),
   insns |-> [i \in 1 .. last - first + 1 |->
                LET k == first + i - 1
                    s == shapes[k]
                IN [fnoff  |-> AddrOf(shapes, k) - AddrOf(shapes, first),
                    oplen  |-> s.oplen,
                    type   |-> s.type,
                    lifted |-> s.lifted,
                    comins |-> Referred(shapes, k),
                    rels   |-> {AddrOf(shapes, j) - AddrOf(shapes, k) : j \in s.to}]]]

Snippet(arch, shapes) ==
  [arch |-> arch, funcs |-> <<Function(shapes, 1, Len(shapes))>>]

\* two functions, the second from instruction k on
TwoFunctions(arch, shapes, k) ==
  [arch |-> arch,
   funcs |-> <<Function(shapes, 1, k - 1), Function(shapes, k, Len(shapes))>>]

\* every shape for one of n instructions, with calls to the instructions in entries
Shapes(n, oplens, entries) ==
  LET lone  == {"OTHER", "RET"}
      jumps == {"JCOND", "JUMP"}
  IN {Shape(t, l, {}) : t \in lone, l \in oplens}
       \cup {Shape(t, l, {k}) : t \in jumps, l \in oplens, k \in 1 .. n}
       \cup {Shape("CALL", l, {k}) : l \in oplens, k \in entries}

\* snippets of n instructions of any shape
Snippets(n, oplens) == {Snippet("ARM64", s) : s \in [1 .. n -> Shapes(n, oplens, {1})]}

\* pairs of functions of any shape; compiled code does not run off the last one
Pairs(n, k, oplens) ==
  {TwoFunctions("ARM64", s, k) :
     s \in {t \in [1 .. n -> Shapes(n, oplens, {1, k})] : t[n].type \in {"JUMP", "RET"}}}

Config(f, b, i, d) ==
  [func |-> f, block |-> b, insn |-> i, debug |-> d, syscall |-> FALSE]

AllConfigs == {Config(f, b, i, d) : f, b, i, d \in BOOLEAN}
============================================================================
