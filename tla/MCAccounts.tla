----------------------------- MODULE MCAccounts -----------------------------
EXTENDS Accounts, TLC

\* Handlers and calls are interchangeable.
Symmetry == Permutations(Handlers) \cup Permutations(Calls)

\* Bound: what Redis does, and what follows when nonces are lost, is explored
\* before the clock moves; when it stops later, the run is followed no further.
Bounded == now = 0 \/ (intact /\ redis)
=============================================================================
