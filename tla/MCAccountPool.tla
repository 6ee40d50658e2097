--------------------------- MODULE MCAccountPool ---------------------------
(* Small instances of AccountPool. *)
EXTENDS AccountPool, TLC

Window(f, r, d) == [present |-> TRUE, fraction |-> f, reset |-> r, disabled |-> d]
Missing == [present |-> FALSE, fraction |-> 0, reset |-> Zero, disabled |-> FALSE]

Healthy == [h5 |-> Window(2, 1, FALSE), weekly |-> Window(2, 1, FALSE)]
Low == [h5 |-> Window(1, 1, FALSE), weekly |-> Window(1, 1, FALSE)]
ShortSpent == [h5 |-> Window(0, 1, FALSE), weekly |-> Window(1, 1, FALSE)]
WeekSpent == [h5 |-> Window(2, Zero, FALSE), weekly |-> Window(0, 1, FALSE)]
ShortDisabled == [h5 |-> Window(2, Zero, TRUE), weekly |-> Missing]

(* One report per branch of the probe's verdict. *)
AllReports == {Healthy, Low, ShortSpent, WeekSpent, ShortDisabled}
NoReports == {}

AlwaysSaves == {TRUE}
MayFailToSave == BOOLEAN
IdSymmetry == Permutations(AccountIds)
=============================================================================
