------------------------------ MODULE AdminHold ------------------------------
(***************************************************************************)
(* What the account pool promises an administrator, without timers, turns, *)
(* probes, files or crashes: an account put on hold serves no chat until   *)
(* the hold is lifted, and nothing else ever takes an account off hold or  *)
(* changes which chat it serves.                                           *)
(***************************************************************************)
CONSTANTS Accounts, Clients, None

VARIABLES
  known,      (* accounts in the pool            *)
  held,       (* those an administrator has held *)
  assigned    (* the account serving each client *)

vars == <<known, held, assigned>>

Dropped(S) == [k \in Clients |-> IF assigned[k] \in S THEN None ELSE assigned[k]]

Init ==
  /\ known \subseteq Accounts
  /\ held = {}
  /\ assigned \in [Clients -> known \cup {None}]

(* The owner of a logs in: a joins the pool, and any hold on it ends. *)
Enrol(a) == known' = known \cup {a} /\ held' = held \ {a} /\ UNCHANGED assigned

Forget(S) == known' = known \ S /\ held' = held \ S /\ assigned' = Dropped(S)

Hold(a) == held' = held \cup {a} /\ assigned' = Dropped({a}) /\ UNCHANGED known

Lift(a) == held' = held \ {a} /\ UNCHANGED <<known, assigned>>

Assign(k, a) == assigned' = [assigned EXCEPT ![k] = a] /\ UNCHANGED <<known, held>>

Next ==
  \/ \E a \in Accounts : Enrol(a)
  \/ \E S \in SUBSET known : Forget(S)
  \/ \E a \in known : Hold(a)
  \/ \E a \in held : Lift(a)
  \/ \E k \in Clients, a \in known \ held : Assign(k, a)

Spec == Init /\ [][Next]_vars
=============================================================================
