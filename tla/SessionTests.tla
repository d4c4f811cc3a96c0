----------------------------- MODULE SessionTests -----------------------------
(***************************************************************************)
(* The unit tests of src/src/PowerAuthTests/pa2SessionTests.cpp replayed   *)
(* on the Session model, one test call per step.  Each test is a script:   *)
(* a sequence of calls, each with the error code, state probes, counter    *)
(* and signature outcome the test asserts.  The model must be able to take *)
(* every call of every script, and after each call be in the state the     *)
(* test expects.                                                           *)
(*                                                                         *)
(* A signature is "genuine" when it is computed with the real factor keys  *)
(* -- what the test checks by recomputing it with T_calculateSignature-    *)
(* ForData and the expected counter.  The test's Session objects s2 and s3 *)
(* are modelled by parking s1 while a fresh object works on the same       *)
(* stored state.                                                           *)
(***************************************************************************)
EXTENDS Session, Sequences

CONSTANTS
  Password,      \* "password"
  NewPassword,   \* "nbusr123"
  TestEEK,       \* eek1 = Session::generateSignatureUnlockKey()
  OtherEEK,      \* protocol::ZERO_IV, or a random 16-byte key
  NullRef,       \* *eek with eek == nullptr (addExternalEncryptionKey, 2nd EEK test)
  NoObject       \* no Session object is parked

VARIABLES
  test,     \* the test being replayed
  step,     \* index of its next call
  parked,   \* s1 while the test works on a fresh Session object
  signed    \* counter and genuineness of the last signature computed

testVars == <<test, step, parked, signed>>
allVars  == <<vars, testVars>>

Modes == {"NoEEK", "EEKSetup", "EEKSetter"}
Tests == {"BeforeActivation"} \cup Modes

-----------------------------------------------------------------------------
(* Test steps *)

KeysOf(poss, pwd, bio) == [possession |-> poss, password |-> pwd, biometry |-> bio]
NoKeys         == KeysOf(FALSE, NoPassword, FALSE)
PossessionKeys == KeysOf(TRUE, NoPassword, FALSE)
LockKeys       == KeysOf(TRUE, Password, TRUE)
PK(pwd)        == KeysOf(TRUE, pwd, FALSE)

Call(op, arg, code) == [op |-> op, arg |-> arg, code |-> code]
Probe(s, c, p, v)   == [op |-> "probe", probes |-> <<s, c, p, v>>]
HasEEK(b)           == [op |-> "hasExternalEncryptionKey", has |-> b]
HasBF(code, b)      == [op |-> "hasBiometryFactor", code |-> code, has |-> b]
Sign(req, keys, f, vault, code, ctr, genuine) ==
  [op |-> "signHTTPRequestData", req |-> req, keys |-> keys, f |-> f,
   vault |-> vault, code |-> code, ctr |-> ctr, genuine |-> genuine]
Op(op) == [op |-> op]

Empty      == Probe(TRUE, TRUE, FALSE, FALSE)
Pending    == Probe(TRUE, FALSE, TRUE, FALSE)
Active     == Probe(TRUE, FALSE, FALSE, TRUE)
Reset      == Call("resetSession", 0, "Ok")
Load       == Call("loadSessionState", 0, "Ok")
FakeSign   == Sign("Invalid", NoKeys, {"B"}, FALSE, "WrongState", 0, FALSE)
PKF        == {"P", "K"}

\* The fixture's setup EEK for the Session objects a test constructs.
SetupEEKOf(m) == IF m = "EEKSetup" THEN TestEEK ELSE NoKey

\* testBeforeActivation, valid setup and "other initial tests".
BeforeActivationScript ==
  << Empty, Op("saveSessionState"), Reset, Empty, Load, Empty,
     Call("Session", NoKey, "Ok"), HasBF("WrongState", FALSE) >>

\* Loop head: reset, then E2EE before the activation.
LoopHead ==
  << Reset, Call("createNonpersonalizedEncryptor", 0, "Ok"),
     Call("createPersonalizedEncryptor", PossessionKeys, "WrongState") >>

ClientStep1(b) ==
  << Call("startActivation", TRUE, "Ok"), Pending >> \o
  IF b = 1 THEN << Reset, Empty >>
  ELSE << Call("startActivation", FALSE, "WrongState"),
          Call("completeActivation", NoKeys, "WrongState"), FakeSign >>

ClientStep2(b) ==
  << Call("validateActivationResponse", TRUE, "Ok"), Pending >> \o
  IF b = 2 THEN << Reset, Empty >>
  ELSE << Call("startActivation", TRUE, "WrongState"),
          Call("validateActivationResponse", FALSE, "WrongState"), FakeSign >>

SetterChecks(m) ==
  IF m = "NoEEK" THEN << Call("setExternalEncryptionKey", BadSizeKey, "WrongParam") >>
  ELSE (IF m = "EEKSetter" THEN << Call("setExternalEncryptionKey", TestEEK, "Ok") >>
                            ELSE << >>)
       \o << Call("setExternalEncryptionKey", TestEEK, "Ok"),
             Call("setExternalEncryptionKey", OtherEEK, "WrongParam"),
             Call("setExternalEncryptionKey", BadSizeKey, "WrongParam") >>

ClientStep3(m, b) ==
  SetterChecks(m) \o << Call("completeActivation", LockKeys, "Ok"), Active >> \o
  IF b = 3 THEN << Reset, Empty >>
  ELSE << Call("startActivation", TRUE, "WrongState"),
          Call("validateActivationResponse", FALSE, "WrongState"),
          Call("completeActivation", NoKeys, "WrongState") >>

SaveResetLoad == << Op("saveSessionState"), Reset, Load >>

\* Signature tests #1 and #2 around the password change.
Signatures12 ==
  SaveResetLoad \o << Active,
     Sign("Online", LockKeys, {"P", "K", "B"}, FALSE, "Ok", 0, TRUE) >>
  \o SaveResetLoad \o
  << Call("changeUserPassword", <<Password, NewPassword>>, "Ok"),
     Sign("Online", PK(NewPassword), PKF, FALSE, "Ok", 1, TRUE) >>

RemoveEEKChecks(k) ==
  << Call("addExternalEncryptionKey", k, "WrongState"), HasEEK(TRUE),
     Call("removeExternalEncryptionKey", 0, "Ok"), HasEEK(FALSE),
     Call("removeExternalEncryptionKey", 0, "WrongState") >>

AddEEKChecks(k) ==
  << Call("addExternalEncryptionKey", BadSizeKey, "WrongParam"), HasEEK(FALSE),
     Call("addExternalEncryptionKey", k, "Ok"), HasEEK(TRUE),
     Call("addExternalEncryptionKey", k, "WrongState") >>

EEKTest1(m) ==
  IF m = "NoEEK"
    THEN << Call("setExternalEncryptionKey", OtherEEK, "WrongState") >> \o AddEEKChecks(OtherEEK)
    ELSE RemoveEEKChecks(TestEEK)

EEKTest2(m) ==
  IF m = "NoEEK" THEN RemoveEEKChecks(NullRef) ELSE AddEEKChecks(TestEEK)

\* Signature #3 with the old password succeeds but must not match;
\* #4 uses an offline nonce.
Signatures34 ==
  << Sign("Online", PK(Password), PKF, FALSE, "Ok", 2, FALSE),
     Sign("Offline", PK(NewPassword), PKF, FALSE, "Ok", 3, TRUE) >>

FreshObjectAttempt(ctr) ==
  << Call("Session", NoKey, "Ok"), Load, HasEEK(FALSE),
     Sign("Online", PossessionKeys, {"P"}, FALSE, "Ok", ctr, TRUE),
     Op("saveSessionState") >>

\* EEK setter only: possession-only signing on fresh objects, then 2FA.
FreshObjects(m) ==
  IF m # "EEKSetter" THEN << >>
  ELSE << Op("saveSessionState"), Op("park") >>
       \o FreshObjectAttempt(4) \o FreshObjectAttempt(5) \o
       << Call("Session", NoKey, "Ok"), Load, HasEEK(FALSE),
          Sign("Online", PK(NewPassword), PKF, FALSE, "Encryption", 0, FALSE),
          Call("setExternalEncryptionKey", TestEEK, "Ok"),
          Sign("Online", PK(NewPassword), PKF, FALSE, "Ok", 6, TRUE),
          Op("unpark") >>

RemoveBiometry(m) ==
  << HasBF("Ok", TRUE), Call("removeBiometryFactor", 0, "Ok"), HasBF("Ok", FALSE),
     Call("removeBiometryFactor", 0, "Ok"),
     Sign("Online", KeysOf(TRUE, NoPassword, TRUE), {"P", "B"}, FALSE, "Encryption", 0, FALSE),
     Op("saveSessionState"), Op("park"), Call("Session", SetupEEKOf(m), "Ok"), Load,
     Op("unpark") >>

VaultTests ==
  << Sign("Online", PK(NewPassword), PKF, TRUE, "Ok", 4, TRUE),
     HasBF("Ok", FALSE),
     Call("addBiometryFactor", <<NoKeys, <<"Encrypted", 5>>>>, "WrongParam"),
     Call("addBiometryFactor", <<KeysOf(TRUE, NoPassword, TRUE), <<"Encrypted", 5>>>>, "Ok"),
     HasBF("Ok", TRUE),
     Sign("Online", KeysOf(FALSE, NoPassword, TRUE), {"B"}, FALSE, "Ok", 6, TRUE),
     Sign("Online", PK(NewPassword), PKF, TRUE, "Ok", 7, TRUE),
     Call("signDataWithDevicePrivateKey", <<PossessionKeys, <<"Encrypted", 8>>>>, "Ok"),
     Sign("Online", PK(NewPassword), PKF, TRUE, "Ok", 9, TRUE),
     Call("deriveCryptographicKeyFromVaultKey", <<PossessionKeys, <<"Encrypted", 10>>>>, "Ok") >>

E2EEAfterActivation ==
  << Call("createNonpersonalizedEncryptor", 0, "Ok"),
     Call("createPersonalizedEncryptor", PossessionKeys, "Ok") >>

ActivatedTests(m) ==
  Signatures12 \o EEKTest1(m) \o Signatures34 \o EEKTest2(m) \o FreshObjects(m)
  \o RemoveBiometry(m) \o VaultTests \o E2EEAfterActivation

\* One pass of the break_in_step loop.
LoopIteration(m, b) ==
  LoopHead \o ClientStep1(b) \o
  IF b = 1 THEN << >>
  ELSE ClientStep2(b) \o
       IF b = 2 THEN << >>
       ELSE ClientStep3(m, b) \o IF b = 3 THEN << >> ELSE ActivatedTests(m)

\* testActivation(eek, eek_setter): the loop runs break_in_step 0, 1, 2, 3
\* on the same Session object.
ActivationScript(m) ==
  LoopIteration(m, 0) \o LoopIteration(m, 1) \o LoopIteration(m, 2) \o LoopIteration(m, 3)

Script(t) == IF t = "BeforeActivation" THEN BeforeActivationScript ELSE ActivationScript(t)

-----------------------------------------------------------------------------
(* Replaying a script *)

\* Session::hasExternalEncryptionKey(): eek() != nullptr.
hasExternalEncryptionKey == eek # NoKey

\* hasBiometryFactor()'s output parameter: false without an activation.
BiometryFactorOut == hasValidActivation /\ pd.biometry # NoKey

\* The Session object the test keeps while it works on a fresh one.
ObjectState == [state |-> state, ad |-> ad, pd |-> pd, setupEEK |-> setupEEK]

Unpark ==
  /\ state' = parked.state /\ ad' = parked.ad /\ pd' = parked.pd
  /\ setupEEK' = parked.setupEEK
  /\ UNCHANGED <<stored, used, ticket, result>>

\* The signature the test recomputes matches the one computed when every
\* requested factor key unlocks to the real key.
Genuine(keys, f) ==
  /\ "K" \in f => KnowledgeUnlocksTo(keys.password)
  /\ "B" \in f => pd.biometry # NoKey /\ pd.biometry.intact /\ pd.biometry.eek = eek

\* One test call on the current Session object, with the caller's storage.
Do(st) ==
  CASE st.op = "Session" -> /\ Construct(st.arg) /\ Return("Session", "Ok")
                            /\ UNCHANGED <<stored, used, ticket>>
    [] st.op = "saveSessionState" -> SaveSessionState
    [] st.op = "resetSession" -> ResetSession /\ Persist
    [] st.op = "loadSessionState" -> LoadSessionState(Serialized(stored)) /\ Persist
    [] st.op = "startActivation" -> StartActivation(st.arg, TRUE, TRUE) /\ Persist
    [] st.op = "validateActivationResponse" ->
         ValidateActivationResponse(st.arg, TRUE, TRUE) /\ Persist
    [] st.op = "completeActivation" -> CompleteActivation(st.arg, TRUE) /\ Persist
    [] st.op = "signHTTPRequestData" ->
         SignHTTPRequestData(st.req, st.keys, st.f, st.vault, TRUE) /\ Persist
    [] st.op = "changeUserPassword" -> ChangeUserPassword(st.arg[1], st.arg[2], TRUE) /\ Persist
    [] st.op = "setExternalEncryptionKey" -> SetExternalEncryptionKey(st.arg) /\ Persist
    [] st.op = "addExternalEncryptionKey" -> AddExternalEncryptionKey(st.arg, TRUE) /\ Persist
    [] st.op = "removeExternalEncryptionKey" -> RemoveExternalEncryptionKey(TRUE) /\ Persist
    [] st.op = "removeBiometryFactor" -> RemoveBiometryFactor /\ Persist
    [] st.op = "addBiometryFactor" -> AddBiometryFactor(st.arg[1], st.arg[2], TRUE) /\ Persist
    [] st.op = "signDataWithDevicePrivateKey" ->
         SignDataWithDevicePrivateKey(st.arg[1], st.arg[2], TRUE) /\ Persist
    [] st.op = "deriveCryptographicKeyFromVaultKey" ->
         DeriveCryptographicKeyFromVaultKey(st.arg[1], st.arg[2], TRUE) /\ Persist
    [] st.op = "hasBiometryFactor" -> HasBiometryFactor
    [] st.op = "createNonpersonalizedEncryptor" -> CreateNonpersonalizedEncryptor(TRUE, TRUE)
    [] st.op = "createPersonalizedEncryptor" -> CreatePersonalizedEncryptor(TRUE, st.arg, TRUE)
    [] st.op = "unpark" -> Unpark
    [] OTHER -> UNCHANGED vars   \* probes and parking leave the object alone

TestInit ==
  /\ test \in Tests
  /\ state = "Empty" /\ ad = NoAD /\ pd = NoPD /\ setupEEK = SetupEEKOf(test)
  /\ stored = NoPD /\ used = {} /\ ticket = NoTicket
  /\ result = [op |-> "Session", code |-> "Ok"]
  /\ step = 1 /\ parked = NoObject /\ signed = [ctr |-> 0, genuine |-> FALSE]

\* The test's next call.
Exec ==
  /\ step <= Len(Script(test))
  /\ LET st == Script(test)[step] IN
       /\ Do(st)
       /\ parked' = CASE st.op = "park" -> ObjectState
                      [] st.op = "unpark" -> NoObject
                      [] OTHER -> parked
       /\ signed' = IF st.op = "signHTTPRequestData" /\ result'.code = "Ok"
                      THEN [ctr |-> pd.counter, genuine |-> Genuine(st.keys, st.f)]
                      ELSE signed
  /\ step' = step + 1
  /\ UNCHANGED test

TestSpec == TestInit /\ [][Exec]_allVars

-----------------------------------------------------------------------------
(* Properties *)

\* What the test asserts right after the call st.
Asserted(st) ==
  CASE st.op = "probe" ->
         st.probes = <<hasValidSetup, canStartActivation, hasPendingActivation,
                       hasValidActivation>>
    [] st.op = "hasExternalEncryptionKey" -> hasExternalEncryptionKey = st.has
    [] st.op = "hasBiometryFactor" -> result.code = st.code /\ BiometryFactorOut = st.has
    [] st.op = "signHTTPRequestData" ->
         /\ result.code = st.code
         /\ st.code = "Ok" => signed = [ctr |-> st.ctr, genuine |-> st.genuine]
    [] st.op \in {"saveSessionState", "park", "unpark"} -> TRUE
    [] OTHER -> result.code = st.code

\* pa2SessionTests passes on the model: every call the tests make can be
\* taken by the Session's operations in the order the tests make them, and
\* after each one the codes, the probes, the counter each signature used
\* and whether it matches the server's recomputation are the ones the
\* tests assert -- including a signature with the old password after
\* changeUserPassword that succeeds and does not match, and counters 4-6
\* used by the fresh objects and again by s1.
TestsConform ==
  /\ step <= Len(Script(test)) => ENABLED Exec
  /\ step > 1 => Asserted(Script(test)[step - 1])

=============================================================================
