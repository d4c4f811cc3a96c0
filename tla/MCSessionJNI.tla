---------------------------- MODULE MCSessionJNI ----------------------------
(* Model values and input bounds for checking the JNI binding with TLC.   *)
(* The binding passes its inputs through unchanged, so a few unlock keys, *)
(* factors and requests suffice: with and without the possession key and *)
(* password, a valid and an invalid request.                              *)
EXTENDS SessionJNI, TLC

CONSTANTS E1, P1

MCEEKs == {E1}
MCPasswords == {P1}

MCUnlockKeys ==
  {[possession |-> TRUE, password |-> P1, biometry |-> TRUE],
   [possession |-> FALSE, password |-> NoPassword, biometry |-> FALSE]}

MCFactorInputs == {{"P"}, {"P", "K"}}

MCRequests == {"Invalid", "Online"}

=============================================================================
