------------------------ MODULE SessionHeaderContract ------------------------
(***************************************************************************)
(* The contract src/proj-xcode/Classes/core/PA2Session.h states for the    *)
(* Objective-C wrapper of the Session: for each method, the ErrorCodes the *)
(* wrapper's lastErrorCode may take, the causes the header names for them  *)
(* and what the header promises the session looks like afterwards.  The   *)
(* wrapper passes the C++ ErrorCode through, so the contract is checked on *)
(* the steps of Session.                                                   *)
(*                                                                         *)
(* Each ...Doc operator translates one method's doc comment.  It relates   *)
(* the state before the call (unprimed) to the state after it (primed).    *)
(* Causes that depend on the call's arguments ("if some required           *)
(* parameter is missing") are not visible in the state and are left out;  *)
(* a cause that is a session state is read as "this state implies this    *)
(* code".                                                                  *)
(***************************************************************************)
EXTENDS Session

\* The EEK known to the session after the call.
eekAfter == eek'

\* resetSession: "Resets session into its initial state.  The existing
\* session's setup and EEK is preserved after the call."
ResetSessionDoc ==
  /\ state' = (IF SetupValid THEN "Empty" ELSE "Invalid")
  /\ ad' = NoAD /\ pd' = NoPD
  /\ setupEEK' = setupEEK

\* serializedState: "The saved sequence contains content of internal
\* PersistentData structure, if is present"; during a pending activation it
\* "represents the state of the session before the activation started",
\* which had no PersistentData.
SerializedStateDoc ==
  stored' = IF pd = NoPD \/ hasPendingActivation THEN NoPD ELSE pd

\* deserializeState: "If the serialized state is invalid then the session
\* ends in empty, unitialized state."
DeserializeStateDoc(code) ==
  code # "Ok" => state' = "Empty" /\ ad' = NoAD /\ pd' = NoPD

\* startActivation: EC_WrongState "if called in wrong session's state";
\* once started "you have to complete whole activation sequence".
StartActivationDoc(code) ==
  /\ code \in Codes
  /\ ~canStartActivation => code = "WrongState"
  /\ code = "Ok" => hasPendingActivation'

\* validateActivationResponse: after EC_Ok "you can call
\* 'completeActivation'"; after EC_Encryption "the session resets its state".
ValidateActivationResponseDoc(code) ==
  /\ code \in Codes
  /\ ~(hasPendingActivation /\ state = "Activation1") => code = "WrongState"
  /\ code = "Ok" => hasPendingActivation' /\ state' = "Activation2"
  /\ code = "Encryption" => state' = "Empty" /\ ad' = NoAD /\ pd' = NoPD

\* completeActivation: after EC_Ok the session's state is to be saved (it
\* is activated); after EC_Encryption "the session resets its state".
CompleteActivationDoc(code) ==
  /\ code \in Codes
  /\ ~(hasPendingActivation /\ state = "Activation2") => code = "WrongState"
  /\ code = "Ok" => hasValidActivation'
  /\ code = "Encryption" => state' = "Empty" /\ ad' = NoAD /\ pd' = NoPD

\* signHttpRequestData: EC_WrongState "if the session has no valid
\* activation"; after success the state must be saved "due to internal
\* counter change".
SignHttpRequestDataDoc(code) ==
  /\ code \in Codes
  /\ ~hasValidActivation => code = "WrongState"
  /\ code = "Ok" => pd'.counter # pd.counter

\* changeUserPassword: EC_Ok, EC_Encryption, EC_WrongState "if the session
\* has no valid activation" -- no EC_WrongParam.
ChangeUserPasswordDoc(code) ==
  /\ code \in {"Ok", "Encryption", "WrongState"}
  /\ ~hasValidActivation => code = "WrongState"

\* addBiometryFactor: all four codes; without an activation EC_WrongState,
\* unless the missing biometry key is reported first as EC_WrongParam.
AddBiometryFactorDoc(code) ==
  /\ code \in Codes
  /\ ~hasValidActivation => code \in {"WrongState", "WrongParam"}

\* removeBiometryFactor: EC_Ok or EC_WrongState "if the session has no
\* valid activation"; the biometry key is removed.
RemoveBiometryFactorDoc(code) ==
  /\ code \in {"Ok", "WrongState"}
  /\ ~hasValidActivation => code = "WrongState"
  /\ code = "Ok" => pd'.biometry = NoKey

\* deriveCryptographicKeyFromVaultKey and signDataWithDevicePrivateKey:
\* all four codes, EC_WrongState "if the session has no valid activation".
VaultOperationDoc(code) ==
  /\ code \in Codes
  /\ ~hasValidActivation => code = "WrongState"

\* setExternalEncryptionKey: EC_WrongParam "if key is already set and new
\* EEK is different", EC_WrongState "if you're setting key to activated
\* session which doesn't use EEK"; no EC_Encryption.
SetExternalEncryptionKeyDoc(code) ==
  /\ code \in {"Ok", "WrongParam", "WrongState"}
  /\ eek # NoKey => setupEEK' = setupEEK
  /\ eek = NoKey /\ hasValidActivation /\ ~pd.usesEEK => code = "WrongState"
  /\ code = "Ok" => eekAfter # NoKey

\* addExternalEncryptionKey: EC_WrongState "if session has no valid
\* activation"; EC_Ok "if operation succeeded and session is using EEK for
\* all future operations".  The second WrongState cause, "if the EEK is
\* already set", is HeaderAddEEKWhenEEKSet below.
AddExternalEncryptionKeyDoc(code) ==
  /\ code \in Codes
  /\ ~hasValidActivation => code = "WrongState"
  /\ code = "Ok" => pd'.usesEEK /\ eekAfter # NoKey

\* removeExternalEncryptionKey: EC_WrongState "if session has no valid
\* activation, or if session has no EEK set"; EC_Ok "if operation
\* succeeded and session doesn't use EEK anymore"; no EC_WrongParam.
RemoveExternalEncryptionKeyDoc(code) ==
  /\ code \in {"Ok", "WrongState", "Encryption"}
  /\ ~hasValidActivation \/ eek = NoKey => code = "WrongState"
  /\ code = "Ok" => ~pd'.usesEEK /\ eekAfter = NoKey

\* decodeActivationStatus: to be called "after successful activation";
\* a status object (EC_Ok) only for an activated session.
DecodeActivationStatusDoc(code) ==
  /\ code \in Codes
  /\ code = "Ok" => hasValidActivation

\* verifyServerSignedData: EC_WrongState "if session contains invalid
\* setup", EC_WrongParam for a missing signature, EC_Encryption for an
\* invalid one.
VerifyServerSignedDataDoc(code) ==
  /\ code \in Codes
  /\ ~hasValidSetup => code = "WrongState"

\* eciesEncryptorForScope: the "activation" scope needs the possession key
\* of an activated session; the "application" scope only the setup.
EciesEncryptorForScopeDoc(op, code) ==
  /\ code \in Codes
  /\ code = "Ok" => hasValidSetup
  /\ op = "createPersonalizedEncryptor" /\ code = "Ok" => hasValidActivation

\* The documented contract of the method a step called.
Documented(op, code) ==
  CASE op = "resetSession"               -> ResetSessionDoc
    [] op = "loadSessionState"           -> DeserializeStateDoc(code)
    [] op = "startActivation"            -> StartActivationDoc(code)
    [] op = "validateActivationResponse" -> ValidateActivationResponseDoc(code)
    [] op = "completeActivation"         -> CompleteActivationDoc(code)
    [] op = "signHTTPRequestData"        -> SignHttpRequestDataDoc(code)
    [] op = "changeUserPassword"         -> ChangeUserPasswordDoc(code)
    [] op = "addBiometryFactor"          -> AddBiometryFactorDoc(code)
    [] op = "removeBiometryFactor"       -> RemoveBiometryFactorDoc(code)
    [] op \in {"deriveCryptographicKeyFromVaultKey",
               "signDataWithDevicePrivateKey"} -> VaultOperationDoc(code)
    [] op = "setExternalEncryptionKey"    -> SetExternalEncryptionKeyDoc(code)
    [] op = "addExternalEncryptionKey"    -> AddExternalEncryptionKeyDoc(code)
    [] op = "removeExternalEncryptionKey" -> RemoveExternalEncryptionKeyDoc(code)
    [] op = "decodeActivationStatus"      -> DecodeActivationStatusDoc(code)
    [] op = "verifyServerSignedData"      -> VerifyServerSignedDataDoc(code)
    [] op \in {"createNonpersonalizedEncryptor",
               "createPersonalizedEncryptor"} -> EciesEncryptorForScopeDoc(op, code)
    [] OTHER                              -> TRUE

-----------------------------------------------------------------------------
\* Every call of a Session method returns a code the PA2Session.h comment
\* of that method lists, for the causes the comment names, and leaves the
\* session as the comment promises (reset after a failed handshake step,
\* counter moved after a signature, EEK flag and key after the EEK calls).
\* Steps that change no more than the caller's saved blob are the
\* application's saves (serializedState), whose blob the comment of that
\* method describes.
HeaderContract ==
  [][ IF UNCHANGED <<state, ad, pd, setupEEK, used, ticket, result>>
      THEN SerializedStateDoc
      ELSE Documented(result'.op, result'.code) ]_vars


\* addExternalEncryptionKey returns EC_WrongState "if the EEK is already
\* set", where the header says an EEK is set when hasExternalEncryptionKey
\* returns YES (the session knows an EEK, eek # NoKey).  The code
\* (Session::addExternalEncryptionKey) tests _pd->flags.usesExternalKey
\* instead, so a session that knows an EEK its activation does not use
\* accepts a second one.
HeaderAddEEKWhenEEKSet ==
  [][ /\ ~UNCHANGED <<state, ad, pd, setupEEK, used, ticket, result>>
      /\ result'.op = "addExternalEncryptionKey"
      /\ eek # NoKey
      => result'.code = "WrongState" ]_vars

=============================================================================
