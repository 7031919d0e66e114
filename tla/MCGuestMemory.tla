--------------------------- MODULE MCGuestMemory ---------------------------
(***************************************************************************)
(* Small instances of GuestMemory, with pages of 4 bytes.  CompactBinaries *)
(* are position independent and their sections are laid out without gaps,  *)
(* which is how Lifter::createObject lays out the objects of execute(raw). *)
(***************************************************************************)
EXTENDS GuestMemory

CompactBinaries ==
  { [imageBase |-> 0, sections |-> {[addr |-> 0, size |-> 3]}],
    [imageBase |-> 0, sections |-> {[addr |-> 0, size |-> 4], [addr |-> 4, size |-> 3]}] }

SmallSizes == {0, 1, 4, 5, 9}

AllAddrs == 0 .. Word - 1

FewLengths == {1, 2, 4}
============================================================================
