--------------------------- MODULE ECIESEncryptor ---------------------------
(***************************************************************************)
(* The request/response pairing of PA2ECIESEncryptor                      *)
(* (proj-xcode/Classes/core/PA2ECIESEncryptor.h), the encryptor a Session *)
(* hands out (spec.md 4.6 and 5). Every encryptRequest regenerates the    *)
(* envelope key, so a response can only be decrypted with the key of its  *)
(* own request: a caller that shares one encryptor between threads keeps  *)
(* that key in a copy made by copyForDecryption, and                      *)
(* encryptRequest:completion: makes the copy inside its synchronized      *)
(* block.                                                                  *)
(*                                                                         *)
(* An envelope key is a number: each encryption draws a fresh one.        *)
(***************************************************************************)
EXTENDS Naturals

CONSTANTS Threads,          \* application threads sharing one encryptor
          MaxEncryptions,   \* bound on the envelope keys drawn in a run
          None              \* model value: the encryptor's monitor is free

ASSUME MaxEncryptions \in Nat \ {0}

NoKey == 0                  \* no envelope key: canDecryptResponse is NO
Keys  == 1..MaxEncryptions

VARIABLES
  monitor,    \* the thread inside a block synchronized on the encryptor
  envelope,   \* the shared encryptor's current envelope key
  nextKey,    \* the next fresh envelope key
  pc,         \* where each thread is in its exchange
  sent,       \* the envelope key the thread's request was encrypted with
  decryptor,  \* the thread's copyForDecryption result (nil: key NoKey)
  outcome     \* the result of the thread's last decryptResponse

vars == <<monitor, envelope, nextKey, pc, sent, decryptor, outcome>>

NilCopy == [key |-> NoKey, canEncrypt |-> FALSE]

\* initWithPublicKey:sharedInfo2: the encryptor can encrypt, and cannot
\* decrypt before its first encryptRequest.
Init ==
  /\ monitor = None
  /\ envelope = NoKey
  /\ nextKey = 1
  /\ pc = [t \in Threads |-> "idle"]
  /\ sent = [t \in Threads |-> NoKey]
  /\ decryptor = [t \in Threads |-> NilCopy]
  /\ outcome = [t \in Threads |-> "none"]

\* Encrypting draws a fresh envelope key and keeps it in the encryptor.
Encrypt(t) ==
  /\ nextKey <= MaxEncryptions
  /\ envelope' = nextKey
  /\ nextKey' = nextKey + 1
  /\ sent' = [sent EXCEPT ![t] = nextKey]

\* Fault model: the copy keeps the ability to encrypt.
CopyKeepingEncryption(key) == [key |-> key, canEncrypt |-> TRUE]

\* copyForDecryption: nil when the encryptor cannot decrypt, else a copy
\* bound to the current envelope key that cannot encrypt.
Copy(key) == [key |-> key, canEncrypt |-> FALSE]

\* Fault model: the completion block takes the copy after the
\* synchronized block.
EncryptRequestCopyAfterUnlock(t) ==
  /\ pc[t] = "idle"
  /\ monitor = None
  /\ Encrypt(t)
  /\ pc' = [pc EXCEPT ![t] = "encrypted"]
  /\ UNCHANGED <<monitor, decryptor, outcome>>

\* encryptRequest:completion: encrypts and copies in one block
\* synchronized on the encryptor; the completion then receives the
\* cryptogram and the copy outside the block.
EncryptRequestWithCompletion(t) ==
  /\ pc[t] = "idle"
  /\ monitor = None
  /\ Encrypt(t)
  /\ decryptor' = [decryptor EXCEPT ![t] = Copy(nextKey)]
  /\ pc' = [pc EXCEPT ![t] = "waiting"]
  /\ UNCHANGED <<monitor, outcome>>

\* A caller's "own processing" (header, copyForDecryption).  The header
\* leaves its locking to the caller; the model assumes it synchronizes on
\* the encryptor, the monitor encryptRequest:completion: takes.
BeginOwnProcessing(t) ==
  /\ pc[t] = "idle"
  /\ monitor = None
  /\ nextKey <= MaxEncryptions
  /\ monitor' = t
  /\ pc' = [pc EXCEPT ![t] = "locked"]
  /\ UNCHANGED <<envelope, nextKey, sent, decryptor, outcome>>

\* encryptRequest: regenerates the envelope key; not synchronized itself.
EncryptRequest(t) ==
  /\ pc[t] = "locked"
  /\ Encrypt(t)
  /\ pc' = [pc EXCEPT ![t] = "encrypted"]
  /\ UNCHANGED <<monitor, decryptor, outcome>>

\* copyForDecryption on the shared encryptor after the thread's own
\* encryptRequest; the caller leaves its synchronized block.
CopyForDecryption(t) ==
  /\ pc[t] = "encrypted"
  /\ decryptor' = [decryptor EXCEPT ![t] =
                     IF envelope = NoKey THEN NilCopy ELSE Copy(envelope)]
  /\ monitor' = IF monitor = t THEN None ELSE monitor
  /\ pc' = [pc EXCEPT ![t] = "waiting"]
  /\ UNCHANGED <<envelope, nextKey, sent, outcome>>

\* The server answers under the request's envelope key; decryptResponse on
\* the copy succeeds only when the copy holds that key.
DecryptResponse(t) ==
  /\ pc[t] = "waiting"
  /\ outcome' = [outcome EXCEPT ![t] =
                   IF decryptor[t].key # NoKey /\ decryptor[t].key = sent[t]
                   THEN "ok" ELSE "fail"]
  /\ pc' = [pc EXCEPT ![t] = "idle"]
  /\ UNCHANGED <<monitor, envelope, nextKey, sent, decryptor>>

Next ==
  \E t \in Threads :
    \/ EncryptRequestWithCompletion(t)
    \/ BeginOwnProcessing(t)
    \/ EncryptRequest(t)
    \/ CopyForDecryption(t)
    \/ DecryptResponse(t)

Spec == Init /\ [][Next]_vars

-----------------------------------------------------------------------------
\* Every decryptor a thread holds is a decryption-only copy
\* (copyForDecryption: "will not be able to encrypt a new requests").
TypeOK ==
  /\ monitor \in Threads \cup {None}
  /\ envelope \in Keys \cup {NoKey}
  /\ nextKey \in 1..MaxEncryptions + 1
  /\ pc \in [Threads -> {"idle", "locked", "encrypted", "waiting"}]
  /\ sent \in [Threads -> Keys \cup {NoKey}]
  /\ decryptor \in [Threads -> [key : Keys \cup {NoKey}, canEncrypt : {FALSE}]]
  /\ outcome \in [Threads -> {"none", "ok", "fail"}]

\* However the threads' encryptions, copies and responses interleave,
\* every response is decrypted with the envelope key of its own request.
ResponseDecrypts == \A t \in Threads : outcome[t] # "fail"

=============================================================================
