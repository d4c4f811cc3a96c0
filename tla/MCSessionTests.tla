---------------------------- MODULE MCSessionTests ----------------------------
(* The Session unit tests, replayed with model values for their keys.      *)
EXTENDS SessionTests

CONSTANTS E1, E2, P1, P2

MCEEKs == {E1, E2}
MCPasswords == {P1, P2}

=============================================================================
