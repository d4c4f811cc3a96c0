------------------------------- MODULE Session -------------------------------
(***************************************************************************)
(* The PowerAuth Session object, io::getlime::powerAuth::Session in        *)
(* src/src/PowerAuth/Session.cpp.  Every public method runs under one      *)
(* recursive mutex (LOCK_GUARD), so each method is one atomic step here.   *)
(*                                                                         *)
(* Data is abstracted to what the properties tell apart: keys, passwords   *)
(* and external encryption keys (EEK) are model values; a locked signature *)
(* key is a record saying under which password and EEK it is wrapped and   *)
(* whether unwrapping it that way still yields the real key ("intact").    *)
(* Cryptographic outcomes that depend on data the model abstracts (server  *)
(* signatures, Base64 input) are inputs chosen with \E.                    *)
(*                                                                         *)
(* Besides the Session's own state the module keeps the caller's storage   *)
(* (the last saveSessionState() blob) and two history variables that       *)
(* record what the server has seen: the counters already used by           *)
(* signatures and the last "prepare for vault unlock" signature.           *)
(***************************************************************************)
EXTENDS Naturals, FiniteSets

LOCAL INSTANCE Bitwise

CONSTANTS
  SetupValid,          \* protocol::ValidateSessionSetup(setup) at construction
  EEKs,                \* external encryption keys of the right size (16 B)
  Passwords,           \* user passwords
  MaxCounter,          \* bound on the signature counter (a U64 in the code)
  AppSavesEveryChange, \* caller stores saveSessionState() after each change
  InternalFailures,    \* explore failures of key generation, ECDH, KDF...
  EEKHelperAtomic,     \* ProtectSignatureKeysWithEEK leaves _pd->sk as it was on failure
  NoKey,               \* empty key / no EEK / no biometry key
  BadSizeKey,          \* a key whose size is not SIGNATURE_KEY_SIZE
  NoPassword,          \* SignatureUnlockKeys without a user password
  NoAD,                \* _ad == nullptr
  NoPD,                \* _pd == nullptr
  NoTicket             \* no vault unlock has been prepared

ASSUME SetupValid \in BOOLEAN /\ AppSavesEveryChange \in BOOLEAN
ASSUME InternalFailures \in BOOLEAN /\ EEKHelperAtomic \in BOOLEAN
ASSUME MaxCounter \in Nat \ {0}

VARIABLES
  state,     \* Session::_state
  ad,        \* Session::_ad (ActivationData), NoAD or [secret]
  pd,        \* Session::_pd (PersistentData), NoPD or a record
  setupEEK,  \* Session::_setup.externalEncryptionKey
  stored,    \* the caller's last saved state (history of the environment)
  used,      \* signature counters already sent to the server (history)
  ticket,    \* last vault-unlock preparation seen by the server (history)
  result     \* method and ErrorCode of the last call (history)

vars == <<state, ad, pd, setupEEK, stored, used, ticket, result>>

States == {"Invalid", "Empty", "Activation1", "Activation2", "Activated"}
Codes  == {"Ok", "WrongState", "WrongParam", "Encryption"}
SetupEEKs == {NoKey, BadSizeKey} \cup EEKs
Outcomes  == IF InternalFailures THEN BOOLEAN ELSE {TRUE}

\* A locked knowledge key and a locked biometry key (protocol::SignatureKeys).
KnowledgeLocks == [pwd: Passwords, eek: {NoKey} \cup EEKs, intact: BOOLEAN]
BiometryLocks  == {NoKey} \cup [eek: {NoKey} \cup EEKs, intact: BOOLEAN]

\* protocol::PersistentData: counter, flags and the locked keys.
PersistentData ==
  [counter: 0..MaxCounter, waiting: BOOLEAN, usesEEK: BOOLEAN,
   knowledge: KnowledgeLocks, biometry: BiometryLocks]

\* SignatureUnlockKeys supplied by the caller.
UnlockKeys == [possession: BOOLEAN, password: Passwords \cup {NoPassword},
               biometry: BOOLEAN]

\* Signature factor combinations that have a string form (the code rejects
\* the others with EC_WrongParam); "T" is the transport key (SF_Transport).
SignatureFactors == {{"P"}, {"K"}, {"B"}, {"P", "K"}, {"P", "B"}, {"P", "K", "B"}}
FactorInputs == SignatureFactors \cup {{"K", "B"}}
Requests == {"Invalid", "Online", "Offline", "OfflineBadNonce"}
VaultKeyInputs == {<<"Empty", 0>>, <<"BadBase64", 0>>}
                    \cup {<<"Encrypted", i>> : i \in 1..MaxCounter}

-----------------------------------------------------------------------------
(* State probing *)

hasValidSetup == state # "Invalid"

\* Fault model: "no activation is pending" taken for "may start".
CanStartWithoutStateCheck == hasValidSetup /\ ad = NoAD

canStartActivation == state = "Empty" /\ pd = NoPD /\ ad = NoAD

hasPendingActivation ==
  state \in {"Activation1", "Activation2"} /\ pd = NoPD /\ ad # NoAD

hasValidActivation ==
  state = "Activated" /\ hasValidSetup /\ pd # NoPD /\ ad = NoAD

\* Session::eek(): the setup's EEK when the setup is valid and well sized.
eek == IF hasValidSetup /\ setupEEK \in EEKs THEN setupEEK ELSE NoKey

\* sessionSetup(): the setup, or nullptr without a valid one.
sessionSetup == IF hasValidSetup THEN "setup" ELSE "nullptr"

\* activationIdentifier(): the PD's identifier, or an empty string.
activationIdentifier == IF hasValidActivation THEN "id" ELSE ""

\* saveSessionState(): the PD is written only with a valid activation.
SavedState == IF hasValidActivation THEN pd ELSE NoPD

-----------------------------------------------------------------------------
(* Key locking (protocol::UnlockSignatureKeys / LockSignatureKeys /       *)
(* ProtectSignatureKeysWithEEK, outside src/, modelled from spec.md).     *)

\* Unlocking fails when a required unlock key is missing, or when a factor
\* protected by the EEK is requested while the EEK is not known.
UnlockSucceeds(f, keys) ==
  /\ ({"P", "T"} \cap f # {}) => keys.possession
  /\ "K" \in f => keys.password # NoPassword /\ (pd.usesEEK => eek # NoKey)
  /\ "B" \in f => /\ keys.biometry /\ pd.biometry # NoKey
                  /\ (pd.usesEEK => eek # NoKey)

\* Unwrapping the knowledge key with this password yields the real key.
KnowledgeUnlocksTo(pwd) ==
  pd.knowledge.intact /\ pd.knowledge.pwd = pwd /\ pd.knowledge.eek = eek

\* Adding (add) or removing an EEK layer over one locked key.  Without a
\* MAC a wrong layer is not detected: the key silently stops being intact.
ProtectWithEEK(lock, k, add) ==
  IF lock = NoKey THEN NoKey
  ELSE IF add THEN [lock EXCEPT !.eek = k, !.intact = @ /\ lock.eek = NoKey]
  ELSE [lock EXCEPT !.eek = NoKey, !.intact = @ /\ lock.eek = k]

\* The PD after ProtectSignatureKeysWithEEK(_pd->sk, k, add) failed: the
\* helper works on the session's own keys in place, one key after the
\* other (knowledge first).  Unless it restores what it changed, a failure
\* on the biometry key leaves the knowledge key already re-wrapped, while
\* the caller returns EC_Encryption without touching usesExternalKey.
EEKHelperFailure(k, add) ==
  {pd} \cup IF EEKHelperAtomic \/ pd.biometry = NoKey THEN {}
            ELSE {[pd EXCEPT !.knowledge = ProtectWithEEK(@, k, add)]}

\* Fault model: the key size check is dropped.
EEKSizeUnchecked(k) == TRUE

\* eek.size() == protocol::SIGNATURE_KEY_SIZE
EEKSizeValid(k) == k \in EEKs

-----------------------------------------------------------------------------
(* Shared step helpers *)

Return(op, code) == result' = [op |-> op, code |-> code]

\* Fault model: commit forgets to delete the activation data.
CommitKeepingAD(newpd, newstate) ==
  IF newpd # NoPD /\ newstate = "Activated"
    THEN pd' = newpd /\ state' = "Activated" /\ ad' = ad
    ELSE pd' = NoPD /\ state' = "Empty" /\ ad' = ad

\* commitNewPersistentState(): drop AD, keep the PD only with SS_Activated.
CommitNewPersistentState(newpd, newstate) ==
  /\ ad' = NoAD
  /\ IF newpd # NoPD /\ newstate = "Activated"
       THEN pd' = newpd /\ state' = "Activated"
       ELSE pd' = NoPD /\ state' = "Empty"

-----------------------------------------------------------------------------
(* Construction, reset and serialization *)

\* Session(setup): a new object; also models the caller discarding the old
\* object and building a fresh one (an application restart).
Construct(e) ==
  /\ state' = IF SetupValid THEN "Empty" ELSE "Invalid"
  /\ ad' = NoAD /\ pd' = NoPD /\ setupEEK' = e

Restart ==
  /\ \E e \in SetupEEKs : Construct(e)
  /\ Return("Session", "Ok")
  /\ UNCHANGED <<stored, used, ticket>>

\* Fault model: the reset rebuilds the session from a setup without EEK.
ResetSessionDroppingEEK ==
  /\ CommitNewPersistentState(NoPD, "Empty")
  /\ setupEEK' = NoKey
  /\ Return("resetSession", "Ok")
  /\ UNCHANGED <<used, ticket>>

ResetSession ==
  /\ CommitNewPersistentState(NoPD, "Empty")
  /\ Return("resetSession", "Ok")
  /\ UNCHANGED <<setupEEK, used, ticket>>

SaveSessionState ==
  /\ stored' = SavedState
  /\ UNCHANGED <<state, ad, pd, setupEEK, used, ticket, result>>

\* The serialization's flags byte: bit 1 (1 << 1) says a PD follows; a
\* legacy blob has 'M' (77) where the flags are.
HAS_PERSISTENT_DATA == 2
DATA_MIGRATION_TAG == 77

\* saveSessionState()'s bytes, for the PD it writes: the 'P','A' version
\* header, the flags byte, the PD if the flag is set.  legacy is what the
\* old-format decoder would make of the bytes.
Serialized(p) ==
  [header |-> TRUE, flags |-> IF p # NoPD THEN HAS_PERSISTENT_DATA ELSE 0,
   data |-> p, legacy |-> "Fails"]

\* loadSessionState()'s inputs: the caller's blob, a corrupted blob (no
\* version header, and the legacy decoder fails too) and a legacy blob that
\* decodes without an activation identifier.
Blobs == {Serialized(stored),
          [header |-> FALSE, flags |-> 0, data |-> NoPD, legacy |-> "Fails"],
          [header |-> FALSE, flags |-> 0, data |-> NoPD, legacy |-> "NoId"]}

\* What loadSessionState() decodes from a blob: whether it succeeded and
\* the PD it found (has_data).
Deserialized(blob) ==
  IF blob.header /\ blob.flags # DATA_MIGRATION_TAG
  THEN IF (blob.flags & HAS_PERSISTENT_DATA) # 0
       THEN [ok |-> blob.data # NoPD, data |-> blob.data]
       ELSE [ok |-> TRUE, data |-> NoPD]
  ELSE [ok |-> blob.legacy # "Fails", data |-> NoPD]

LoadSessionState(blob) ==
  LET loaded == Deserialized(blob)
  IN /\ CommitNewPersistentState(loaded.data,
                                 IF loaded.data # NoPD THEN "Activated" ELSE "Empty")
     /\ Return("loadSessionState", IF loaded.ok THEN "Ok" ELSE "WrongParam")
     /\ UNCHANGED <<setupEEK, used, ticket>>

-----------------------------------------------------------------------------
(* The activation handshake *)

StartActivationCode(paramsGiven, sigOk, ok) ==
  IF ~hasValidSetup \/ ~canStartActivation THEN "WrongState"
  ELSE IF ~paramsGiven THEN "WrongParam"
  ELSE IF ~(sigOk /\ ok) THEN "Encryption"
  ELSE "Ok"

\* startActivation(): sigOk is the master key import and the OTP+ShortID
\* signature check; ok covers key generation, export and encryption.
StartActivation(paramsGiven, sigOk, ok) ==
  LET code == StartActivationCode(paramsGiven, sigOk, ok)
  IN /\ IF code = "Ok"
          THEN ad' = [secret |-> FALSE] /\ state' = "Activation1"
          ELSE UNCHANGED <<ad, state>>
     /\ Return("startActivation", code)
     /\ UNCHANGED <<pd, setupEEK, used, ticket>>

\* validateActivationResponse(): a missing parameter is EC_WrongState; any
\* crypto failure resets the whole session.
ValidateActivationResponse(paramsGiven, responseOk, ok) ==
  LET code == IF ~hasPendingActivation \/ state # "Activation1" THEN "WrongState"
              ELSE IF ~paramsGiven THEN "WrongState"
              ELSE IF ~(responseOk /\ ok) THEN "Encryption"
              ELSE "Ok"
  IN /\ CASE code = "Ok" -> ad' = [ad EXCEPT !.secret = TRUE]
                              /\ state' = "Activation2" /\ UNCHANGED pd
          [] code = "Encryption" -> CommitNewPersistentState(NoPD, "Empty")
          [] OTHER -> UNCHANGED <<ad, pd, state>>
     /\ Return("validateActivationResponse", code)
     /\ UNCHANGED <<setupEEK, used, ticket>>

\* ValidateUnlockKeys(keys, eek, SF_FirstLock): possession key and password.
FirstLockKeysValid(keys) == keys.possession /\ keys.password # NoPassword

\* The PD built by completeActivation(): counter 0, flags from eek().
NewPersistentData(keys) ==
  [counter |-> 0, waiting |-> FALSE, usesEEK |-> eek # NoKey,
   knowledge |-> [pwd |-> keys.password, eek |-> eek, intact |-> TRUE],
   biometry |-> IF keys.biometry THEN [eek |-> eek, intact |-> TRUE] ELSE NoKey]

CompleteActivation(keys, ok) ==
  LET code == IF ~hasPendingActivation \/ state # "Activation2" THEN "WrongState"
              ELSE IF ~FirstLockKeysValid(keys) THEN "WrongParam"
              ELSE IF ~ok THEN "Encryption"
              ELSE "Ok"
  IN /\ CASE code = "Ok" -> /\ CommitNewPersistentState(NewPersistentData(keys), "Activated")
                             /\ used' = {} /\ ticket' = NoTicket
          [] code = "Encryption" -> /\ CommitNewPersistentState(NewPersistentData(keys), "Empty")
                                    /\ UNCHANGED <<used, ticket>>
          [] OTHER -> UNCHANGED <<ad, pd, state, used, ticket>>
     /\ Return("completeActivation", code)
     /\ UNCHANGED setupEEK

-----------------------------------------------------------------------------
(* Signing *)

\* Fault model: offline signatures do not advance the counter.
SignCounterStepOfflineFree(req, vault) ==
  IF req = "Offline" THEN 0 ELSE IF vault THEN 2 ELSE 1

SignCounterStep(req, vault) == IF vault THEN 2 ELSE 1

SignCode(req, keys, f, vault, ok) ==
  IF ~hasValidActivation THEN "WrongState"
  ELSE IF req = "Invalid" \/ f \notin SignatureFactors THEN "WrongParam"
  ELSE IF vault /\ req \in {"Offline", "OfflineBadNonce"} THEN "WrongParam"
  ELSE IF req = "OfflineBadNonce" THEN "Encryption"
  ELSE IF ~UnlockSucceeds(f, keys) \/ ~ok THEN "Encryption"
  ELSE "Ok"

\* Fault model: the counter is advanced before the keys are unlocked.
SignEffectEarlyIncrement(code, req, vault) ==
  IF code \in {"Ok", "Encryption"} /\ pd # NoPD
    THEN [pd EXCEPT !.counter = @ + SignCounterStep(req, vault), !.waiting = vault]
    ELSE pd

\* The PD after the call: counter advanced and waiting flag set or cleared.
SignEffect(code, req, vault) ==
  IF code = "Ok"
    THEN [pd EXCEPT !.counter = @ + SignCounterStep(req, vault), !.waiting = vault]
    ELSE pd

\* signHTTPRequestData(); the counter value used is pd.counter.
SignHTTPRequestData(req, keys, f, vault, ok) ==
  LET code == SignCode(req, keys, f, vault, ok)
  IN /\ code = "Ok" => pd.counter + SignCounterStep(req, vault) <= MaxCounter
     /\ pd' = SignEffect(code, req, vault)
     /\ IF code = "Ok"
          THEN /\ used' = used \cup {pd.counter}
               /\ ticket' = IF vault THEN [ctr |-> pd.counter, spent |-> FALSE]
                                     ELSE ticket
          ELSE UNCHANGED <<used, ticket>>
     /\ Return("signHTTPRequestData", code)
     /\ UNCHANGED <<state, ad, setupEEK>>

-----------------------------------------------------------------------------
(* Vault unlock *)

\* decryptVaultKey() got past both state checks and cleared the flag.
VaultAttempted == hasValidActivation /\ pd.waiting

\* The vault transport key uses index counter - 1; a key the server
\* encrypted under another index fails the padding/size check.
DecryptVaultKeyCode(keys, cvk) ==
  IF ~hasValidActivation \/ ~pd.waiting THEN "WrongState"
  ELSE IF cvk[1] = "Empty" THEN "WrongParam"
  ELSE IF cvk[1] = "BadBase64" THEN "Encryption"
  ELSE IF ~UnlockSucceeds({"T"}, keys) THEN "WrongParam"
  ELSE IF cvk[2] # pd.counter - 1 THEN "Encryption"
  ELSE "Ok"

\* waitingForVaultUnlock is cleared on entry, whatever the outcome.
VaultFlagCleared ==
  IF VaultAttempted THEN [pd EXCEPT !.waiting = FALSE] ELSE pd

VaultTicketSpent ==
  IF VaultAttempted /\ ticket # NoTicket THEN [ticket EXCEPT !.spent = TRUE]
                                         ELSE ticket

\* deriveCryptographicKeyFromVaultKey() and signDataWithDevicePrivateKey():
\* decryptVaultKey() and then a computation with no effect on the session.
VaultOperation(op, keys, cvk, ok) ==
  LET vcode == DecryptVaultKeyCode(keys, cvk)
  IN /\ pd' = VaultFlagCleared
     /\ ticket' = VaultTicketSpent
     /\ Return(op, IF vcode # "Ok" THEN vcode ELSE IF ok THEN "Ok" ELSE "Encryption")
     /\ UNCHANGED <<state, ad, setupEEK, used>>

DeriveCryptographicKeyFromVaultKey(keys, cvk, ok) ==
  VaultOperation("deriveCryptographicKeyFromVaultKey", keys, cvk, ok)

SignDataWithDevicePrivateKey(keys, cvk, ok) ==
  VaultOperation("signDataWithDevicePrivateKey", keys, cvk, ok)

\* addBiometryFactor(): the biometry key is re-derived from the vault key
\* and locked with eek() -- the EEK currently known, if any.
AddBiometryFactor(keys, cvk, ok) ==
  LET vcode == DecryptVaultKeyCode(keys, cvk)
      code  == IF ~keys.biometry THEN "WrongParam"
               ELSE IF vcode # "Ok" THEN vcode
               ELSE IF ~ok THEN "Encryption" ELSE "Ok"
      after == VaultFlagCleared
  IN /\ pd' = CASE code = "Ok" -> [after EXCEPT !.biometry = [eek |-> eek, intact |-> TRUE]]
                [] keys.biometry -> after
                [] OTHER -> pd
     /\ ticket' = IF keys.biometry THEN VaultTicketSpent ELSE ticket
     /\ Return("addBiometryFactor", code)
     /\ UNCHANGED <<state, ad, setupEEK, used>>

RemoveBiometryFactor ==
  /\ IF hasValidActivation
       THEN /\ pd' = [pd EXCEPT !.biometry = NoKey, !.waiting = FALSE]
            /\ Return("removeBiometryFactor", "Ok")
       ELSE /\ UNCHANGED pd
            /\ Return("removeBiometryFactor", "WrongState")
  /\ UNCHANGED <<state, ad, setupEEK, used, ticket>>

-----------------------------------------------------------------------------
(* Password and external encryption key *)

\* changeUserPassword(): the old password is not validated; a wrong one
\* re-locks a wrong knowledge key.
ChangeUserPassword(old, new, ok) ==
  LET oldKeys == [possession |-> FALSE, password |-> old, biometry |-> FALSE]
      code == IF ~hasValidActivation THEN "WrongState"
              ELSE IF ~UnlockSucceeds({"K"}, oldKeys) \/ ~ok THEN "Encryption"
              ELSE "Ok"
  IN /\ IF code = "Ok"
          THEN pd' = [pd EXCEPT !.knowledge =
                        [pwd |-> new, eek |-> eek, intact |-> KnowledgeUnlocksTo(old)]]
          ELSE UNCHANGED pd
     /\ Return("changeUserPassword", code)
     /\ UNCHANGED <<state, ad, setupEEK, used, ticket>>

SetExternalEncryptionKey(k) ==
  LET code == IF eek # NoKey THEN (IF setupEEK = k THEN "Ok" ELSE "WrongParam")
              ELSE IF hasValidActivation /\ ~pd.usesEEK THEN "WrongState"
              ELSE IF setupEEK = NoKey /\ EEKSizeValid(k) THEN "Ok"
              ELSE "WrongParam"
  IN /\ setupEEK' = IF eek = NoKey /\ code = "Ok" THEN k ELSE setupEEK
     /\ Return("setExternalEncryptionKey", code)
     /\ UNCHANGED <<state, ad, pd, used, ticket>>

AddExternalEncryptionKey(k, ok) ==
  LET code == IF ~hasValidActivation \/ pd.usesEEK THEN "WrongState"
              ELSE IF ~EEKSizeValid(k) THEN "WrongParam"
              ELSE IF ~ok THEN "Encryption" ELSE "Ok"
  IN /\ IF code = "Ok"
          THEN /\ pd' = [pd EXCEPT !.knowledge = ProtectWithEEK(@, k, TRUE),
                                   !.biometry = ProtectWithEEK(@, k, TRUE),
                                   !.usesEEK = TRUE]
               /\ setupEEK' = k
          ELSE IF code = "Encryption"
          THEN /\ pd' \in EEKHelperFailure(k, TRUE)
               /\ UNCHANGED setupEEK
          ELSE UNCHANGED <<pd, setupEEK>>
     /\ Return("addExternalEncryptionKey", code)
     /\ UNCHANGED <<state, ad, used, ticket>>

RemoveExternalEncryptionKey(ok) ==
  LET code == IF ~hasValidActivation \/ ~pd.usesEEK \/ eek = NoKey THEN "WrongState"
              ELSE IF ~ok THEN "Encryption" ELSE "Ok"
  IN /\ IF code = "Ok"
          THEN /\ pd' = [pd EXCEPT !.knowledge = ProtectWithEEK(@, setupEEK, FALSE),
                                   !.biometry = ProtectWithEEK(@, setupEEK, FALSE),
                                   !.usesEEK = FALSE]
               /\ setupEEK' = NoKey
          ELSE IF code = "Encryption"
          THEN /\ pd' \in EEKHelperFailure(setupEEK, FALSE)
               /\ UNCHANGED setupEEK
          ELSE UNCHANGED <<pd, setupEEK>>
     /\ Return("removeExternalEncryptionKey", code)
     /\ UNCHANGED <<state, ad, used, ticket>>

-----------------------------------------------------------------------------
(* Calls that read the session and change nothing but their result.  The *)
(* view hides result, so they add steps to Spec but no states.            *)

\* An encrypted status blob: empty, not STATUS_BLOB_SIZE bytes after
\* Base64, decrypting to a wrong magic header or to an out-of-range state
\* byte, or a well-formed one.
StatusBlobs == {"Empty", "BadSize", "BadMagic", "BadState", "Valid"}

Unchanged == UNCHANGED <<state, ad, pd, setupEEK, stored, used, ticket>>

DecodeActivationStatus(blob, keys) ==
  /\ Return("decodeActivationStatus",
       IF ~hasValidActivation THEN "WrongState"
       ELSE IF blob = "Empty" THEN "WrongParam"
       ELSE IF ~UnlockSucceeds({"T"}, keys) THEN "WrongParam"
       ELSE IF blob # "Valid" THEN "Encryption"
       ELSE "Ok")
  /\ Unchanged

\* verifyServerSignedData(): the master server key needs a valid setup,
\* the personalized server key a valid activation.
VerifyServerSignedData(useMasterKey, hasSignature, valid) ==
  /\ Return("verifyServerSignedData",
       IF ~hasValidSetup THEN "WrongState"
       ELSE IF ~useMasterKey /\ ~hasValidActivation THEN "WrongState"
       ELSE IF ~hasSignature THEN "WrongParam"
       ELSE IF valid THEN "Ok" ELSE "Encryption")
  /\ Unchanged

\* hasBiometryFactor(): EC_WrongState without an activation.
HasBiometryFactor ==
  /\ Return("hasBiometryFactor", IF hasValidActivation THEN "Ok" ELSE "WrongState")
  /\ Unchanged

\* createNonpersonalizedEncryptor(): indexOk is a 16-byte, non-zero
\* session index; ok covers the ECDH with the master server key.
CreateNonpersonalizedEncryptor(indexOk, ok) ==
  /\ Return("createNonpersonalizedEncryptor",
       IF ~hasValidSetup THEN "WrongState"
       ELSE IF ~indexOk THEN "WrongParam"
       ELSE IF ok THEN "Ok" ELSE "Encryption")
  /\ Unchanged

\* createPersonalizedEncryptor(): needs the transport key (possession).
CreatePersonalizedEncryptor(indexOk, keys, ok) ==
  /\ Return("createPersonalizedEncryptor",
       IF ~hasValidActivation THEN "WrongState"
       ELSE IF ~indexOk THEN "WrongParam"
       ELSE IF ~UnlockSucceeds({"T"}, keys) THEN "WrongParam"
       ELSE IF ok THEN "Ok" ELSE "Encryption")
  /\ Unchanged

ReadOnlyCall ==
  \/ \E b \in StatusBlobs, k \in UnlockKeys : DecodeActivationStatus(b, k)
  \/ \E m, h, v \in BOOLEAN : VerifyServerSignedData(m, h, v)
  \/ HasBiometryFactor
  \/ \E i \in BOOLEAN, ok \in Outcomes : CreateNonpersonalizedEncryptor(i, ok)
  \/ \E i \in BOOLEAN, k \in UnlockKeys, ok \in Outcomes :
        CreatePersonalizedEncryptor(i, k, ok)

-----------------------------------------------------------------------------
(* The specification *)

\* The caller stores the serialized state after every call that changed
\* the persistent data (when AppSavesEveryChange), as PA2Session.h asks.
Persist == stored' = IF AppSavesEveryChange /\ pd' # pd THEN SavedState' ELSE stored

Init ==
  /\ \E e \in SetupEEKs :
       /\ state = IF SetupValid THEN "Empty" ELSE "Invalid"
       /\ ad = NoAD /\ pd = NoPD /\ setupEEK = e
  /\ stored = NoPD /\ used = {} /\ ticket = NoTicket
  /\ result = [op |-> "Session", code |-> "Ok"]

\* Every public method, followed by the caller's save.
Next ==
  \/ Restart
  \/ SaveSessionState
  \/ ResetSession /\ Persist
  \/ \E b \in Blobs : LoadSessionState(b) /\ Persist
  \/ \E p, s \in BOOLEAN, ok \in Outcomes : StartActivation(p, s, ok) /\ Persist
  \/ \E p, r \in BOOLEAN, ok \in Outcomes :
        ValidateActivationResponse(p, r, ok) /\ Persist
  \/ \E k \in UnlockKeys, ok \in Outcomes : CompleteActivation(k, ok) /\ Persist
  \/ \E r \in Requests, k \in UnlockKeys, f \in FactorInputs, v \in BOOLEAN,
        ok \in Outcomes : SignHTTPRequestData(r, k, f, v, ok) /\ Persist
  \/ \E k \in UnlockKeys, c \in VaultKeyInputs, ok \in Outcomes :
        AddBiometryFactor(k, c, ok) /\ Persist
  \/ \E k \in UnlockKeys, c \in VaultKeyInputs, ok \in Outcomes :
        DeriveCryptographicKeyFromVaultKey(k, c, ok) /\ Persist
  \/ \E k \in UnlockKeys, c \in VaultKeyInputs, ok \in Outcomes :
        SignDataWithDevicePrivateKey(k, c, ok) /\ Persist
  \/ RemoveBiometryFactor /\ Persist
  \/ \E o, n \in Passwords, ok \in Outcomes : ChangeUserPassword(o, n, ok) /\ Persist
  \/ \E k \in EEKs \cup {BadSizeKey} : SetExternalEncryptionKey(k) /\ Persist
  \/ \E k \in EEKs \cup {BadSizeKey}, ok \in Outcomes :
        AddExternalEncryptionKey(k, ok) /\ Persist
  \/ \E ok \in Outcomes : RemoveExternalEncryptionKey(ok) /\ Persist
  \/ ReadOnlyCall

Spec == Init /\ [][Next]_vars

\* States TLC tells apart: the last call's result is history only.
StateView == <<state, ad, pd, setupEEK, stored, used, ticket>>

-----------------------------------------------------------------------------
(* Properties *)

TypeOK ==
  /\ state \in States
  /\ ad \in {NoAD} \cup [secret: BOOLEAN]
  /\ pd \in {NoPD} \cup PersistentData
  /\ stored \in {NoPD} \cup PersistentData
  /\ setupEEK \in SetupEEKs
  /\ used \subseteq 0..MaxCounter
  /\ ticket \in {NoTicket} \cup [ctr: 0..MaxCounter, spent: BOOLEAN]
  /\ result.code \in Codes

\* The core state invariant of spec.md 3: exactly one of "no AD and no PD"
\* (Invalid, Empty), "AD only" (handshake, with the shared secret computed
\* by step 2) and "PD only" (Activated) holds, whatever sequence of calls,
\* failures, reloads and restarts the Session went through.
SessionDataConsistent ==
  /\ state \in {"Invalid", "Empty"} => ad = NoAD /\ pd = NoPD
  /\ state = "Activation1" => ad # NoAD /\ ~ad.secret /\ pd = NoPD
  /\ state = "Activation2" => ad # NoAD /\ ad.secret /\ pd = NoPD
  /\ state = "Activated" => pd # NoPD /\ ad = NoAD

NoCounterReuse ==
  hasValidActivation => \A u \in used : u < pd.counter

\* spec.md 7: signing, vault, password and EEK calls that fail leave the
\* session as it was, except that a vault attempt clears the waiting flag.
FailedCallLeavesSessionIntact ==
  [][ (result'.code # "Ok" /\ result'.op \notin
         {"Session", "resetSession", "loadSessionState", "startActivation",
          "validateActivationResponse", "completeActivation"})
      => /\ state' = state /\ ad' = ad /\ setupEEK' = setupEEK
         /\ \/ pd' = pd
            \/ pd' = [pd EXCEPT !.waiting = FALSE]
   ]_vars

\* A Session implements the abstract lifecycle (Invalid is absorbing).
Lifecycle == INSTANCE SessionLifecycle WITH phase <- state
LifecycleRefined == Lifecycle!Spec

\* spec.md 4.5: the usesExternalKey flag tells whether the stored knowledge
\* and biometry keys carry an EEK layer, and both carry the same one.
EEKProtectionConsistent ==
  hasValidActivation =>
    /\ pd.usesEEK = (pd.knowledge.eek # NoKey)
    /\ pd.biometry # NoKey => pd.biometry.eek = pd.knowledge.eek

=============================================================================
