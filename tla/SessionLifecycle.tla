-------------------------- MODULE SessionLifecycle --------------------------
(***************************************************************************)
(* Abstract specification of what a PowerAuth Session promises about its  *)
(* lifecycle (spec.md 3 and 4.1): a Session built from an invalid setup is *)
(* Invalid forever; a valid one moves Empty -> Activation1 -> Activation2 *)
(* -> Activated through the three handshake steps, falls back to Empty    *)
(* when a step fails or on reset, and may restore a saved activation.     *)
(***************************************************************************)

CONSTANT SetupValid       \* did the SessionSetup pass validation?

VARIABLE phase

Phases == {"Invalid", "Empty", "Activation1", "Activation2", "Activated"}

Init == phase = IF SetupValid THEN "Empty" ELSE "Invalid"

\* startActivation succeeds only from Empty.
Start == phase = "Empty" /\ phase' = "Activation1"

\* validateActivationResponse: success or fail-closed reset.
Validate == phase = "Activation1" /\ phase' \in {"Activation2", "Empty"}

\* completeActivation: commit of the activation or fail-closed reset.
Complete == phase = "Activation2" /\ phase' \in {"Activated", "Empty"}

\* resetSession, or the caller discarding the object: back to Empty.
Reset == phase # "Invalid" /\ phase' = "Empty"

\* Restoring a saved state yields either no activation or an activation.
Restore == phase # "Invalid" /\ phase' \in {"Empty", "Activated"}

Next == Start \/ Validate \/ Complete \/ Reset \/ Restore

Spec == Init /\ [][Next]_phase

=============================================================================
