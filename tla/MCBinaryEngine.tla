--------------------------- MODULE MCBinaryEngine ---------------------------
(***************************************************************************)
(* Snippets and a main binary of a few bytes, pages of four bytes.         *)
(***************************************************************************)
EXTENDS BinaryEngine

CONSTANTS t1

P == INSTANCE GuestPrograms

WithSections(bin, size) ==
  [arch |-> bin.arch, funcs |-> bin.funcs, imageBase |-> 0,
   sections |-> {[addr |-> 0, size |-> size]}]

Short == <<P!Shape("OTHER", 1, {}), P!Shape("RET", 1, {})>>

Loop == <<P!Shape("OTHER", 2, {}), P!Shape("JCOND", 2, {1}), P!Shape("RET", 1, {})>>

TwoSnippets == {WithSections(P!Snippet("ARM64", Short), 2),
                WithSections(P!Snippet("ARM64", Loop), 5)}

Main == WithSections(P!TwoFunctions("ARM64", Loop, 3), 5)

SomeSizes == {1, 5}

StaticAddrs == {0, 2}

NoEvents == P!Config(FALSE, FALSE, FALSE, FALSE)
============================================================================
