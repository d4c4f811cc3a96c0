------------------------- MODULE MCECIESEncryptor -------------------------
(***************************************************************************)
(* Three threads share one encryptor and draw up to five envelope keys:   *)
(* enough for one thread to finish an exchange and start another while    *)
(* the other two are between encryption and decryption.                   *)
(***************************************************************************)
EXTENDS ECIESEncryptor, TLC

CONSTANTS T1, T2, T3

MCThreads == {T1, T2, T3}

ThreadSymmetry == Permutations(MCThreads)

=============================================================================
