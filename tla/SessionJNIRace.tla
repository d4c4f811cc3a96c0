--------------------------- MODULE SessionJNIRace ---------------------------
(***************************************************************************)
(* getActivationIdentifier() of the JNI binding split at the point where  *)
(* it releases the session lock: the native method asks                  *)
(* hasValidActivation() and then activationIdentifier(), each under its  *)
(* own LOCK_GUARD, so another Java thread calling any native method of   *)
(* the same object may run between the two.  The other thread's calls    *)
(* are the steps of SessionJNI, except init() and destroy() while a call *)
(* is in the window: those replace or free the native object the call    *)
(* holds, a use after free rather than a change of the session's state.  *)
(***************************************************************************)
EXTENDS SessionJNI

VARIABLE
  inflight   \* a getActivationIdentifier() call passed its check and has
             \* not yet read the identifier

raceVars == <<jvars, inflight>>

\* The check: a session handle and hasValidActivation(), under the lock.
JGetActivationIdentifierChecked ==
  /\ ~inflight
  /\ handle = "Live"
  /\ hasValidActivation
  /\ inflight' = TRUE
  /\ UNCHANGED <<vars, handle, jres>>

\* The copy: activationIdentifier() under the lock again, as it is now,
\* and CopyToJavaString of it.
JGetActivationIdentifierCopy ==
  /\ inflight
  /\ handle = "Live"
  /\ inflight' = FALSE
  /\ Skip
  /\ JResult("getActivationIdentifier", "jstring", "String", TRUE,
             activationIdentifier)

RaceInit == JInitState /\ inflight = FALSE

\* Another thread's native method; the object outlives a pending call.
OtherThread ==
  /\ JNext
  /\ inflight => handle' = handle /\ jres'.op \notin {"init", "destroy"}
  /\ UNCHANGED inflight

RaceNext ==
  \/ OtherThread
  \/ JGetActivationIdentifierChecked
  \/ JGetActivationIdentifierCopy

RaceSpec == RaceInit /\ [][RaceNext]_raceVars

\* PA2Session.h (activationIdentifier): "If the session has valid
\* activation, then returns the activation identifier.  Otherwise returns
\* nil."  The binding's own early return gives Java null for a session
\* without a valid activation; the identifier it hands back is therefore
\* either the identifier or null, never the empty string
\* Session::activationIdentifier() returns once the activation is gone.
JActivationIdentifierNullOrId ==
  jres.op = "getActivationIdentifier" => jres.val \in {"id", NULL}

=============================================================================
