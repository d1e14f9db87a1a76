------------------------------- MODULE MCTree -------------------------------
(* Recursion, generated candidates, budget and traps, a user who pauses,    *)
(* stops and changes the concurrency: no seeds, no harvest.                 *)
EXTENDS Coordinator, TLC

CONSTANTS a, b, c

MCName == {a, b, c}
\* One word more than PerDirBudget, so that the budget bites.
MCTemplate == {a, b}
\* Every hit derives the same name, a hit on that name included.
MCGenerate == [n \in MCName |-> {c}]
\* The words of the list are interchangeable.
Symmetry == Permutations({a, b})
=============================================================================
