----------------------------- MODULE SessionJNI -----------------------------
(***************************************************************************)
(* The JNI binding of the Session (src/src/PowerAuth/jni/SessionJNI.cpp)  *)
(* composed with the Session itself.  Every native method reads the       *)
(* Java object's handle (CC7_THIS_OBJ), checks its object arguments,      *)
(* copies them into C++ structures and calls the Session; what it hands   *)
(* back to Java is a jint, a jboolean, a result object with an errorCode  *)
(* field, a byte array, or null.  jres records that value and whether the *)
(* call reached the Session, so that it can be compared with result, the  *)
(* Session's own return code.                                             *)
(***************************************************************************)
EXTENDS Session

CONSTANT NULL          \* a Java null reference

VARIABLES
  handle,   \* the Java object's native handle: "Live", or "Zero" (init got a
            \* null setup, or the object was destroyed)
  jres      \* the value the last native method returned to Java

jvars == <<vars, handle, jres>>

\* ErrorCode's numeric values (PublicTypes.h, outside src/).
ErrorValue == [Ok |-> 0, Encryption |-> 1, WrongState |-> 2, WrongParam |-> 3]

\* The upper bits of a jboolean read back through a Java method declared
\* int are not defined by the C ABI: either clear or not.
UpperBits == {0, 256}

\* code is the Session's return code when the call reached a Session
\* method whose ErrorCode the native method passes on.
JResult(op, native, declared, reached, val) ==
  jres' = [op |-> op, native |-> native, declared |-> declared, reached |-> reached,
           code |-> IF reached /\ (native \in {"jint", "jobject", "jbyteArray"}
                                  \/ declared = "int")
                      THEN result'.code ELSE "None",
           val |-> val]

\* CC7_THIS_OBJ() gave a session and no object argument was null.
Reached(nullArg) == handle = "Live" /\ ~nullArg

Skip == UNCHANGED <<vars, handle>>

\* A method returning the ErrorCode as jint; EC_WrongParam if rejected.
IntMethod(op, reached, Step) ==
  IF reached THEN Step /\ UNCHANGED <<handle, stored>>
                  /\ JResult(op, "jint", "int", TRUE, ErrorValue[result'.code])
             ELSE Skip /\ JResult(op, "jint", "int", FALSE, ErrorValue["WrongParam"])

\* A method returning a result object whose errorCode is the Session's
\* code, or null if rejected.
ObjectMethod(op, reached, Step) ==
  IF reached THEN Step /\ UNCHANGED <<handle, stored>>
                  /\ JResult(op, "jobject", "object", TRUE, ErrorValue[result'.code])
             ELSE Skip /\ JResult(op, "jobject", "object", FALSE, NULL)

\* A method returning a byte array, null unless the Session call succeeded.
BytesMethod(op, reached, Step) ==
  IF reached THEN Step /\ UNCHANGED <<handle, stored>>
                  /\ JResult(op, "jbyteArray", "byte[]", TRUE,
                             IF result'.code = "Ok" THEN "bytes" ELSE NULL)
             ELSE Skip /\ JResult(op, "jbyteArray", "byte[]", FALSE, NULL)

\* A jboolean is a byte: JNI_TRUE is 1, JNI_FALSE is 0.
JBool(b) == IF b THEN 1 ELSE 0

\* session ? session->probe() : false
BoolProbe(op, value) ==
  /\ Skip
  /\ JResult(op, "jboolean", "boolean", handle = "Live", JBool(handle = "Live" /\ value))

-----------------------------------------------------------------------------
(* Native methods *)

\* init(): a new Session from the Java SessionSetup, or 0 for a null one.
JInit(setupNull) ==
  /\ IF setupNull THEN handle' = "Zero" /\ UNCHANGED vars
                  ELSE handle' = "Live" /\ Restart
  /\ JResult("init", "jlong", "long", ~setupNull, NULL)

\* destroy(): the Java side passes its handle and forgets it.
JDestroy ==
  /\ handle' = "Zero"
  /\ UNCHANGED vars
  /\ JResult("destroy", "void", "void", handle = "Live", NULL)

JResetSession ==
  /\ IF handle = "Live" THEN ResetSession ELSE UNCHANGED vars
  /\ UNCHANGED <<handle, stored>>
  /\ JResult("resetSession", "void", "void", handle = "Live", NULL)

\* serializedState(): the bytes the application then keeps.
JSerializedState ==
  /\ IF handle = "Live" THEN SaveSessionState ELSE UNCHANGED vars
  /\ UNCHANGED handle
  /\ JResult("serializedState", "jbyteArray", "byte[]", handle = "Live",
             IF handle = "Live" THEN "bytes" ELSE NULL)

JDeserializeState(b) == IntMethod("deserializeState", Reached(FALSE), LoadSessionState(b))

JStartActivation(nullArg, p, s, ok) ==
  ObjectMethod("startActivation", Reached(nullArg), StartActivation(p, s, ok))

JValidateActivationResponse(nullArg, p, r, ok) ==
  ObjectMethod("validateActivationResponse", Reached(nullArg),
               ValidateActivationResponse(p, r, ok))

\* LoadSignatureUnlockKeys() fails (keysOk false) on a null keys object or
\* a Password object without a native counterpart.
JCompleteActivation(nullArg, keysOk, k, ok) ==
  IntMethod("completeActivation", Reached(nullArg) /\ keysOk, CompleteActivation(k, ok))

JDecodeActivationStatus(nullArg, keysOk, blob, k) ==
  ObjectMethod("decodeActivationStatus", Reached(nullArg) /\ keysOk,
               DecodeActivationStatus(blob, k))

JSignHTTPRequest(nullArg, keysOk, r, k, f, v, ok) ==
  ObjectMethod("signHTTPRequest", Reached(nullArg) /\ keysOk,
               SignHTTPRequestData(r, k, f, v, ok))

JVerifyServerSignedData(nullArg, master, sig, valid) ==
  IntMethod("verifyServerSignedData", Reached(nullArg),
            VerifyServerSignedData(master, sig, valid))

JChangeUserPassword(nullArg, o, n, ok) ==
  IntMethod("changeUserPassword", Reached(nullArg), ChangeUserPassword(o, n, ok))

JAddBiometryFactor(nullArg, keysOk, k, c, ok) ==
  IntMethod("addBiometryFactor", Reached(nullArg) /\ keysOk, AddBiometryFactor(k, c, ok))

\* Fault model: the ErrorCode is returned instead of the out parameter.
HasBiometryCode(reached) ==
  IF reached THEN ErrorValue[IF hasValidActivation THEN "Ok" ELSE "WrongState"]
             ELSE 0

\* hasBiometryFactor() discards the ErrorCode; the out value is false
\* without an activation.
HasBiometryValue(reached) ==
  JBool(reached /\ hasValidActivation /\ pd.biometry # NoKey)

JHasBiometryFactor ==
  /\ IF handle = "Live" THEN HasBiometryFactor ELSE UNCHANGED vars
  /\ UNCHANGED handle
  /\ JResult("hasBiometryFactor", "jboolean", "boolean", handle = "Live",
             HasBiometryValue(handle = "Live"))

JRemoveBiometryFactor == IntMethod("removeBiometryFactor", Reached(FALSE), RemoveBiometryFactor)

JDeriveCryptographicKeyFromVaultKey(nullArg, keysOk, k, c, ok) ==
  BytesMethod("deriveCryptographicKeyFromVaultKey", Reached(nullArg) /\ keysOk,
              DeriveCryptographicKeyFromVaultKey(k, c, ok))

JSignDataWithDevicePrivateKey(nullArg, keysOk, k, c, ok) ==
  BytesMethod("signDataWithDevicePrivateKey", Reached(nullArg) /\ keysOk,
              SignDataWithDevicePrivateKey(k, c, ok))

\* A null byte[] is copied as an empty array, which the Session rejects
\* by its size.
JavaKey(k, nullArr) == IF nullArr THEN BadSizeKey ELSE k

JSetExternalEncryptionKey(k, nullArr) ==
  IntMethod("setExternalEncryptionKey", Reached(FALSE),
            SetExternalEncryptionKey(JavaKey(k, nullArr)))

JAddExternalEncryptionKey(k, nullArr, ok) ==
  IntMethod("addExternalEncryptionKey", Reached(FALSE),
            AddExternalEncryptionKey(JavaKey(k, nullArr), ok))

\* Declared int on the Java side, but the C function returns jboolean:
\* the ErrorCode is narrowed to a byte and false stands for a missing
\* handle.
JRemoveExternalEncryptionKey(ok) ==
  \E hi \in UpperBits :
    IF handle = "Live"
      THEN /\ RemoveExternalEncryptionKey(ok) /\ UNCHANGED <<handle, stored>>
           /\ JResult("removeExternalEncryptionKey", "jboolean", "int", TRUE,
                      hi + ErrorValue[result'.code])
      ELSE /\ Skip
           /\ JResult("removeExternalEncryptionKey", "jboolean", "int", FALSE, hi + 0)

\* createXxxEncryptor(): a Java Encryptor built from (code, encryptor);
\* a missing handle or unlock keys give EC_WrongParam.
EncryptorMethod(op, reached, Step) ==
  IF reached THEN Step /\ UNCHANGED <<handle, stored>>
                  /\ JResult(op, "jobject", "object", TRUE, ErrorValue[result'.code])
             ELSE Skip /\ JResult(op, "jobject", "object", FALSE, ErrorValue["WrongParam"])

JCreateNonpersonalizedEncryptor(indexOk, ok) ==
  EncryptorMethod("createNonpersonalizedEncryptor", Reached(FALSE),
                  CreateNonpersonalizedEncryptor(indexOk, ok))

JCreatePersonalizedEncryptor(keysOk, indexOk, k, ok) ==
  EncryptorMethod("createPersonalizedEncryptor", Reached(FALSE) /\ keysOk,
                  CreatePersonalizedEncryptor(indexOk, k, ok))

JProbes ==
  \/ BoolProbe("canStartActivation", canStartActivation)
  \/ BoolProbe("hasPendingActivation", hasPendingActivation)
  \/ BoolProbe("hasValidActivation", hasValidActivation)

JHasValidSetup == BoolProbe("hasValidSetup", hasValidSetup)

JHasExternalEncryptionKey == BoolProbe("hasExternalEncryptionKey", eek # NoKey)

\* getActivationIdentifier(): null without a handle or a valid activation.
JGetActivationIdentifier ==
  /\ Skip
  /\ JResult("getActivationIdentifier", "jstring", "String", handle = "Live",
             IF handle = "Live" /\ hasValidActivation THEN activationIdentifier ELSE NULL)

\* getHttpAuthHeaderName(): null without a handle, else the header's name.
JGetHttpAuthHeaderName ==
  /\ Skip
  /\ JResult("getHttpAuthHeaderName", "jstring", "String", handle = "Live",
             IF handle = "Live" THEN "header" ELSE NULL)

\* hasDebugFeatures() reads a build flag and no session: it answers the
\* same with or without a handle.
JHasDebugFeatures(debugBuild) ==
  /\ Skip
  /\ JResult("hasDebugFeatures", "jboolean", "boolean", TRUE, JBool(debugBuild))

\* normalizeSignatureUnlockKeyFromData() and generateSignatureUnlockKey()
\* are static utilities: a key of SIGNATURE_KEY_SIZE bytes for any data,
\* a null array copying as empty, and whether or not there is a handle.
JSignatureUnlockKeyUtility(op) ==
  /\ Skip
  /\ JResult(op, "jbyteArray", "byte[]", TRUE, "bytes")

\* getSessionSetup(): null without a handle or a valid setup; the Java
\* object carries externalEncryptionKey only when the session has an EEK.
JGetSessionSetup ==
  /\ Skip
  /\ JResult("getSessionSetup", "jobject", "SessionSetup", handle = "Live",
             CASE handle = "Zero" \/ sessionSetup = "nullptr" -> NULL
               [] eek # NoKey -> "setupWithEEK"
               [] OTHER -> "setup")

-----------------------------------------------------------------------------
(* The specification *)

JInitState ==
  /\ Init
  /\ \E setupNull \in BOOLEAN :
       /\ handle = IF setupNull THEN "Zero" ELSE "Live"
       /\ jres = [op |-> "init", native |-> "jlong", declared |-> "long",
                  reached |-> ~setupNull, code |-> "None", val |-> NULL]

JNext ==
  \/ \E n \in BOOLEAN : JInit(n)
  \/ JDestroy
  \/ JResetSession
  \/ JSerializedState
  \/ JProbes
  \/ JHasValidSetup
  \/ JHasExternalEncryptionKey
  \/ JGetActivationIdentifier
  \/ JGetSessionSetup
  \/ JGetHttpAuthHeaderName
  \/ \E d \in BOOLEAN : JHasDebugFeatures(d)
  \/ \E op \in {"normalizeSignatureUnlockKeyFromData", "generateSignatureUnlockKey"} :
        JSignatureUnlockKeyUtility(op)
  \/ \E b \in Blobs : JDeserializeState(b)
  \/ \E n, p, s \in BOOLEAN, ok \in Outcomes : JStartActivation(n, p, s, ok)
  \/ \E n, p, r \in BOOLEAN, ok \in Outcomes : JValidateActivationResponse(n, p, r, ok)
  \/ \E n, ko \in BOOLEAN, k \in UnlockKeys, ok \in Outcomes :
        JCompleteActivation(n, ko, k, ok)
  \/ \E n, ko \in BOOLEAN, b \in StatusBlobs, k \in UnlockKeys :
        JDecodeActivationStatus(n, ko, b, k)
  \/ \E n, ko \in BOOLEAN, r \in Requests, k \in UnlockKeys, f \in FactorInputs,
        v \in BOOLEAN, ok \in Outcomes : JSignHTTPRequest(n, ko, r, k, f, v, ok)
  \/ \E n, m, sg, va \in BOOLEAN : JVerifyServerSignedData(n, m, sg, va)
  \/ \E n \in BOOLEAN, o, w \in Passwords, ok \in Outcomes : JChangeUserPassword(n, o, w, ok)
  \/ \E n, ko \in BOOLEAN, k \in UnlockKeys, c \in VaultKeyInputs, ok \in Outcomes :
        \/ JAddBiometryFactor(n, ko, k, c, ok)
        \/ JDeriveCryptographicKeyFromVaultKey(n, ko, k, c, ok)
        \/ JSignDataWithDevicePrivateKey(n, ko, k, c, ok)
  \/ JHasBiometryFactor
  \/ JRemoveBiometryFactor
  \/ \E k \in EEKs, na \in BOOLEAN : JSetExternalEncryptionKey(k, na)
  \/ \E k \in EEKs, na \in BOOLEAN, ok \in Outcomes : JAddExternalEncryptionKey(k, na, ok)
  \/ \E ok \in Outcomes : JRemoveExternalEncryptionKey(ok)
  \/ \E i \in BOOLEAN, ok \in Outcomes : JCreateNonpersonalizedEncryptor(i, ok)
  \/ \E ko, i \in BOOLEAN, k \in UnlockKeys, ok \in Outcomes :
        JCreatePersonalizedEncryptor(ko, i, k, ok)

JSpec == JInitState /\ [][JNext]_jvars

\* States TLC tells apart: the Session's last result is copied into jres,
\* and the method's name is kept for traces only.
JStateView == <<state, ad, pd, setupEEK, stored, used, ticket, handle,
                [jres EXCEPT !.op = "call"]>>

-----------------------------------------------------------------------------
(* Properties *)

JResults ==
  [op: STRING, native: {"jlong", "void", "jboolean"}, declared: {"long", "void", "boolean"},
   reached: BOOLEAN, code: Codes \cup {"None"}, val: {0, 1, NULL}]
  \cup [op: STRING, native: {"jint", "jobject"}, declared: {"int", "object"},
        reached: BOOLEAN, code: Codes \cup {"None"}, val: 0..3 \cup {NULL}]
  \cup [op: STRING, native: {"jbyteArray"}, declared: {"byte[]"},
        reached: BOOLEAN, code: Codes \cup {"None"}, val: {"bytes", NULL}]
  \cup [op: STRING, native: {"jstring"}, declared: {"String"},
        reached: BOOLEAN, code: Codes \cup {"None"}, val: {"id", "header", NULL}]
  \cup [op: STRING, native: {"jobject"}, declared: {"SessionSetup"},
        reached: BOOLEAN, code: Codes \cup {"None"}, val: {"setup", "setupWithEEK", NULL}]
  \cup [op: {"removeExternalEncryptionKey"}, native: {"jboolean"}, declared: {"int"},
        reached: BOOLEAN, code: Codes \cup {"None"}, val: {b + c : b \in UpperBits, c \in 0..3}]

JNITypeOK == handle \in {"Live", "Zero"} /\ jres \in JResults

=============================================================================
