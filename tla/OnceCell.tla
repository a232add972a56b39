------------------------------ MODULE OnceCell ------------------------------
(***************************************************************************)
(* A cell decided once: whoever reads it gets the value it was decided to. *)
(* What ProviderData.Client promises to the resources that share it.       *)
(***************************************************************************)
CONSTANTS Readers, Values, Undecided

VARIABLES cell, learned

vars == <<cell, learned>>

Init == cell = Undecided /\ learned = [r \in Readers |-> Undecided]

\* The reader that finds the cell undecided decides it.
Decide(r, v) ==
  /\ cell = Undecided
  /\ learned[r] = Undecided
  /\ cell' = v
  /\ learned' = [learned EXCEPT ![r] = v]

Learn(r) ==
  /\ cell # Undecided
  /\ learned[r] = Undecided
  /\ learned' = [learned EXCEPT ![r] = cell]
  /\ UNCHANGED cell

Next == \E r \in Readers : Learn(r) \/ \E v \in Values : Decide(r, v)

Spec == Init /\ [][Next]_vars
=============================================================================
