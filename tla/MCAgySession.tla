--------------------------- MODULE MCAgySession ---------------------------
(* Small instances of AgySession. *)
EXTENDS AgySession, TLC

AlwaysSpawns == {TRUE}
MayFailToSpawn == BOOLEAN
Symmetry == Permutations(Slots) \cup Permutations(Sessions) \cup Permutations(Accounts)
=============================================================================
