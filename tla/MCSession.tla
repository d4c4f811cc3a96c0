------------------------------ MODULE MCSession ------------------------------
(* Model-checking instance of Session: two EEKs, two passwords.            *)
EXTENDS SessionHeaderContract, TLC

CONSTANTS E1, E2, P1, P2

MCEEKs == {E1, E2}
MCPasswords == {P1, P2}

\* One EEK and one password, for the runs whose state space is a product.
MCEEKsOne == {E1}
MCPasswordsOne == {P1}

\* EEKs and passwords are interchangeable model values.
Symmetry == Permutations(MCEEKs) \cup Permutations(MCPasswords)

=============================================================================
