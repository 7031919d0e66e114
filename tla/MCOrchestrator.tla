--------------------------- MODULE MCOrchestrator ---------------------------
(***************************************************************************)
(* Two or three images of a few instructions each, placed so that their    *)
(* addresses collide in an L1 cache of three entries.                      *)
(***************************************************************************)
EXTENDS Orchestrator, GuestPrograms

CONSTANTS t1, t2

Two == <<Shape("OTHER", 1, {}), Shape("JCOND", 1, {1}), Shape("RET", 1, {})>>

LowImage == encode(Snippet("ARM64", Two), 0, Config(FALSE, FALSE, FALSE, FALSE))

HighImage == encode(Snippet("ARM64", Two), 4, Config(FALSE, TRUE, TRUE, FALSE))

SmallImages == {LowImage, HighImage}

SmallAddrs == 0 .. 7
============================================================================
