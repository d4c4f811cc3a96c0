-------------------------- MODULE MCSessionJNIRace --------------------------
(* The JNI binding's inputs of MCSessionJNI, with getActivationIdentifier *)
(* split at its unlocked window.                                          *)
EXTENDS MCSessionJNI, SessionJNIRace

\* States TLC tells apart, with the pending identifier read.
RaceView == <<JStateView, inflight>>

=============================================================================
