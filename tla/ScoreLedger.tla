----------------------------- MODULE ScoreLedger -----------------------------
(***************************************************************************)
(* The on-chain ledger: sealed_eval, attested_score and seal_policy on top *)
(* of the enclave registry.  Off-chain there are the enclave processes,    *)
(* which sign intent messages, and the Seal key servers, which release an  *)
(* identity key when a dry run of seal_approve succeeds.                   *)
(*                                                                         *)
(* An ed25519 signature is the fact that a key signed a message: the set   *)
(* `signatures` holds every such fact, and verifying is membership         *)
(* (unforgeability).  A signature does not expire and is not consumed.     *)
(* timestamp_ms takes part in the message only, no check reads it, so two  *)
(* signatures that differ in nothing else are one element here.            *)
(***************************************************************************)
EXTENDS EnclaveRegistry, FiniteSets

CONSTANTS
  EvalIds,    \* object ids for SealedEval objects (bound)
  ScoreIds,   \* object ids for AttestedScore objects (bound)
  Bytes,      \* values a vector<u8> argument can take
  Digests,    \* those of them that are 32 bytes long
  BlobIds,    \* Walrus blob ids
  Models,     \* model_target strings
  MaxCount,   \* bound on set sizes, numerators and denominators
  MaxSigned   \* bound on the messages the enclaves sign

ASSUME LedgerAssumption ==
  /\ Digests \subseteq Bytes
  /\ MaxCount \in Nat
  /\ MaxSigned \in Nat

VARIABLES
  evals,       \* the shared SealedEval objects
  scores,      \* the shared AttestedScore objects
  signatures,  \* every intent message an enclave key has signed
  released     \* history: identity keys released, with the key that asked

ledgerVars == <<evals, scores, signatures, released>>
vars == <<registryVars, ledgerVars>>

Counts == 0..MaxCount

SCORE_INTENT == 1
SEAL_INTENT == 2

NotRevealed == {}    \* Option::none; a revealed blob is the singleton

SealedEval ==
  [id : EvalIds, author : Accounts, sha256_plaintext : Digests,
   sha256_ciphertext : Digests, walrus_blob_id : BlobIds,
   model_target : Models, set_size : Counts,
   revealed : BOOLEAN, plaintext_blob_id : SUBSET BlobIds]

ScorePayload ==
  [sealed_eval_id : EvalIds, model_target : Models, score_num : Counts,
   score_den : Counts, items_hash : Bytes, trace_blob_id : BlobIds]

AttestedScore == [id : ScoreIds, payload : ScorePayload, enclave_pk : Keys]

ScoreMessage == [pk : Keys, intent : {SCORE_INTENT}, payload : ScorePayload]
SealMessage == [pk : Keys, intent : {SEAL_INTENT}, payload : Digests]

LedgerInit ==
  /\ RegistryInit
  /\ evals = {}
  /\ scores = {}
  /\ signatures = {}
  /\ released = {}

(***************************************************************************)
(* Off-chain: an enclave key that exists signs a message.  The ledger      *)
(* cannot tell what computed it; ScorePipeline says what the SealedBench   *)
(* enclave signs.                                                          *)
(***************************************************************************)
Booted(pk) == \E d \in documents : d.public_key = pk

Sign(message) ==
  /\ Booted(message.pk)
  /\ Cardinality(signatures) < MaxSigned
  /\ signatures' = signatures \cup {message}
  /\ UNCHANGED <<registryVars, evals, scores, released>>

SignScore(pk, payload) ==
  Sign([pk |-> pk, intent |-> SCORE_INTENT, payload |-> payload])

SignSealApproval(pk, id) ==
  Sign([pk |-> pk, intent |-> SEAL_INTENT, payload |-> id])

(***************************************************************************)
(* Move entry points.                                                      *)
(***************************************************************************)

\* The assertions of sealed_eval::new.  Mutant: the first is missing.
OneLengthChecked(plaintext, ciphertext, size) ==
  ciphertext \in Digests /\ size > 0
EvalArgumentsOK(plaintext, ciphertext, size) ==
  plaintext \in Digests /\ ciphertext \in Digests /\ size > 0

\* sealed_eval::create.  Nothing relates the arguments to each other: the
\* hashes, the blob, the size and the cutoff are the author's claims.
CreateEval(sender, id, plaintext, ciphertext, blob, model, size) ==
  /\ \A ev \in evals : ev.id # id
  /\ EvalArgumentsOK(plaintext, ciphertext, size)
  /\ evals' = evals \cup
       {[id |-> id, author |-> sender, sha256_plaintext |-> plaintext,
         sha256_ciphertext |-> ciphertext, walrus_blob_id |-> blob,
         model_target |-> model, set_size |-> size,
         revealed |-> FALSE, plaintext_blob_id |-> NotRevealed]}
  /\ UNCHANGED <<registryVars, scores, signatures, released>>

\* Anyone may reveal, once.  Mutant: any number of times.
AlwaysRevealable(ev) == TRUE
Revealable(ev) == ~ev.revealed

Reveal(ev, blob) ==
  /\ Revealable(ev)
  /\ evals' = (evals \ {ev}) \cup
       {[ev EXCEPT !.revealed = TRUE, !.plaintext_blob_id = {blob}]}
  /\ UNCHANGED <<registryVars, scores, signatures, released>>

\* Mutant: a signature of any enclave key will do.
VerifyAnyKey(enclave, intent, payload) ==
  \E m \in signatures : m.intent = intent /\ m.payload = payload

VerifySignature(enclave, intent, payload) ==
  [pk |-> enclave.pk, intent |-> intent, payload |-> payload] \in signatures

\* attested_score::post_score.  The payload's eval id and model target are
\* those of the SealedEval object passed in; the rest are arguments.
PostScore(enclave, ev, id, num, den, hash, trace) ==
  LET payload == [sealed_eval_id |-> ev.id, model_target |-> ev.model_target,
                  score_num |-> num, score_den |-> den,
                  items_hash |-> hash, trace_blob_id |-> trace]
  IN  /\ den > 0
      /\ hash \in Digests
      /\ VerifySignature(enclave, SCORE_INTENT, payload)
      /\ \A s \in scores : s.id # id
      /\ scores' = scores \cup
           {[id |-> id, payload |-> payload, enclave_pk |-> enclave.pk]}
      /\ UNCHANGED <<registryVars, evals, signatures, released>>

\* A key server dry-runs seal_policy::seal_approve and, when it does not
\* abort, hands out its share of the identity key.
ReleaseKey(enclave, id) ==
  /\ VerifySignature(enclave, SEAL_INTENT, id)
  /\ released' = released \cup {[id |-> id, pk |-> enclave.pk]}
  /\ UNCHANGED <<registryVars, evals, scores, signatures>>

LedgerStep ==
  \/ \E k \in Keys, p \in ScorePayload : SignScore(k, p)
  \/ \E k \in Keys, i \in Digests : SignSealApproval(k, i)
  \/ \E a \in Accounts, i \in EvalIds, pt, ct \in Bytes, b \in BlobIds,
        m \in Models, n \in Counts : CreateEval(a, i, pt, ct, b, m, n)
  \/ \E ev \in evals, b \in BlobIds : Reveal(ev, b)
  \/ \E e \in enclaves, ev \in evals, i \in ScoreIds, num, den \in Counts,
        h \in Bytes, t \in BlobIds : PostScore(e, ev, i, num, den, h, t)
  \/ \E e \in enclaves, i \in Digests : ReleaseKey(e, i)

LedgerNext ==
  \/ RegistryNext /\ UNCHANGED ledgerVars
  \/ LedgerStep

LedgerSpec == LedgerInit /\ [][LedgerNext]_vars

-----------------------------------------------------------------------------
(* Properties.                                                             *)

LedgerTypeOK ==
  /\ RegistryTypeOK
  /\ evals \subseteq SealedEval
  /\ scores \subseteq AttestedScore
  /\ signatures \subseteq ScoreMessage \cup SealMessage
  /\ released \subseteq [id : Digests, pk : Keys]

\* A key some genuine attestation document binds to PCRs that some config
\* required at some time.
Attested(pk) ==
  \E d \in documents, m \in measured : d.public_key = pk /\ d.pcrs = m[3]

\* Every AttestedScore on chain, whatever happened since to its Enclave object
\* and its config, was signed as a score by a key attested against a config of
\* this package, names a SealedEval that exists and that eval's own model
\* target, and is not a 0/0 (attested_score::new).
ScoreProvenance ==
  \A s \in scores :
     /\ Attested(s.enclave_pk)
     /\ [pk |-> s.enclave_pk, intent |-> SCORE_INTENT, payload |-> s.payload]
           \in signatures
     /\ \E ev \in evals : /\ ev.id = s.payload.sealed_eval_id
                          /\ ev.model_target = s.payload.model_target
     /\ s.payload.score_den > 0

\* Seal key servers hand an identity key only to an enclave whose key was
\* attested against a config of this package and that itself asked for that
\* identity (seal_policy::seal_approve).
KeysReleasedToAttested ==
  \A r \in released :
     /\ Attested(r.pk)
     /\ [pk |-> r.pk, intent |-> SEAL_INTENT, payload |-> r.id] \in signatures

\* What an author committed to at sealing time never changes, whoever reveals
\* it, and a revealed plaintext blob is never replaced (sealed_eval::reveal).
Commitment(ev) == [ev EXCEPT !.revealed = FALSE, !.plaintext_blob_id = {}]

CommitmentsPermanent ==
  [][\A ev \in evals : \E ev2 \in evals' :
        /\ Commitment(ev2) = Commitment(ev)
        /\ ev.revealed => ev2 = ev]_vars

=============================================================================
