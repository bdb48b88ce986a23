------------------------- MODULE ScorePipelineProofs -------------------------
(***************************************************************************)
(* Proofs about the whole pipeline, for any number of runs, threads, sets, *)
(* evals, keys and registered enclaves, and through every restart, lost    *)
(* answer and change of the registry.                                      *)
(*                                                                         *)
(* Why a posted score is over the committed set is spread over the         *)
(* pipeline: the invariant follows the set from the author's script over   *)
(* Walrus into the enclave's thread, and the thread into the signature.    *)
(*                                                                         *)
(* Who signed it is the ledger's business: the pipeline implements the     *)
(* ledger, so what ScoreLedgerProofs proves of any signer holds here.      *)
(***************************************************************************)
EXTENDS ScorePipeline, TLAPS

-----------------------------------------------------------------------------
(* The invariant.                                                          *)

\* What the author's script notarizes: the blob is the set's own ciphertext,
\* and the size is that of the set.
EvalsSealed ==
  /\ \A ev \in evals :
       /\ ev.walrus_blob_id \in Ciphertexts
       /\ ev.walrus_blob_id.plaintext = ev.sha256_plaintext
       /\ ev.sha256_plaintext \in Sets
       /\ ev.set_size = ItemCount[ev.sha256_plaintext]
  /\ \A ev1, ev2 \in evals : ev1.id = ev2.id => ev1 = ev2

Exists(id) == \E ev \in evals : ev.id = id

Grading == {"score", "sign", "replied"}

\* A request past the load works on the eval's own blob, then on its own set,
\* and what it is about to sign or has signed it has archived, if it has a
\* publisher.
ThreadOK(t) ==
  /\ t.stage # "none" => Exists(t.eval)
  /\ t.stage \in {"load", "approve", "fetch"} => t.done = 0 /\ t.num = 0
  /\ t.stage \in {"approve", "fetch"} =>
       \A ev \in evals : ev.id = t.eval => t.input = ev.walrus_blob_id
  /\ t.stage \in Grading =>
       /\ \A ev \in evals : ev.id = t.eval => t.input = ev.sha256_plaintext
       /\ t.num <= t.done /\ t.done <= ItemCount[t.input]
  /\ t.stage \in {"sign", "replied"} =>
       /\ t.done = ItemCount[t.input]
       /\ \A ev \in evals : ev.id = t.eval /\ t.publisher =>
            [set |-> t.input, model |-> ev.model_target,
             items |-> t.done, num |-> t.num] \in blobs

\* A run that may still use its eval has one; a plaintext run submits its set;
\* and arguments that have been printed are of an archived trace.
RunOK(p) ==
  /\ p.pc \in {"ready", "waiting", "verifying", "posting"} => Exists(p.eval)
  /\ p.reply # None => Exists(p.eval)
  /\ p.pc = "posting" \/ (p.pc \in {"done", "failed"} /\ p.reply # None)
       => Archived(p.reply)
  /\ p.pc = "ready" /\ ~p.sealed =>
       \A ev \in evals : ev.id = p.eval => p.set = ev.sha256_plaintext

\* A signed score is a complete grading of the set its eval committed to.
ScoreOK(p) ==
  /\ \E ev \in evals : /\ ev.id = p.sealed_eval_id
                       /\ p.model_target = ev.model_target
                       /\ p.items_hash.set = ev.sha256_plaintext
                       /\ p.score_den = ev.set_size
  /\ p.score_den = ItemCount[p.items_hash.set]
  /\ p.items_hash.items = p.score_den
  /\ p.score_num = p.items_hash.num /\ p.score_num <= p.score_den
  /\ p.model_target = p.items_hash.model
  /\ Archived(p) \/ p.trace_blob_id = Inline(p.items_hash)

PostedArchived == \A s \in scores : Archived(s.payload)

PostedSigned ==
  \A s \in scores :
     [pk |-> s.enclave_pk, intent |-> Ledger!SCORE_INTENT, payload |-> s.payload]
        \in signatures

PipelineInv ==
  /\ TypeOK
  /\ EvalsSealed
  /\ \A r \in Runs : ThreadOK(thread[r])
  /\ \A r \in Runs : RunOK(run[r])
  /\ \A m \in ScoreMessages : ScoreOK(m.payload)
  /\ PostedSigned
  /\ PostedArchived

-----------------------------------------------------------------------------
(* What every step keeps.                                                  *)

\* Evals, blobs, signatures and released keys are never lost, an eval's id is
\* its own for good, and so is the id of an Enclave object, live or not.
Grows ==
  /\ evals \subseteq evals' /\ blobs \subseteq blobs'
  /\ signatures \subseteq signatures' /\ released \subseteq released'
  /\ \A new \in evals' \ evals, ev \in evals : new.id # ev.id
  /\ usedEnclaveIds \subseteq usedEnclaveIds'
  /\ \A e \in enclaves' \ enclaves : e.id \notin usedEnclaveIds

LEMMA ChainGrows ==
  ASSUME Ledger!ChainStep, UNCHANGED ledgerVars, UNCHANGED blobs
  PROVE  Grows
<1>1. /\ usedEnclaveIds \subseteq usedEnclaveIds'
      /\ \A e \in enclaves' \ enclaves : e.id \notin usedEnclaveIds
  BY DEF Ledger!ChainStep, Ledger!TransferCap, Ledger!CreateEnclaveConfig,
     Ledger!RegisterEnclave, Ledger!NewEnclave, Ledger!UpdatePcrs, Ledger!UpdateName,
     Ledger!DestroyOldEnclave, Ledger!DestroyEnclaveByOwner
<1> QED
  BY <1>1 DEF Grows, ledgerVars

LEMMA NotarizeGrows ==
  ASSUME NEW a, NEW i, Notarize(a, i)
  PROVE  Grows
BY DEF Notarize, Ledger!CreateEval, Ledger!registryVars, Grows

LEMMA ThreadGrows ==
  ASSUME NEW r \in Runs, ThreadStep(r)
  PROVE  Grows /\ UNCHANGED <<registryVars, evals, scores, author, enclaveKey, run>>
BY DEF ThreadStep, LoadCiphertext, SignApproval, FetchAndDecrypt, ScoreItem,
   ArchiveTrace, InlineTrace, SignResult, LoadFails, FetchFails, ScoreFails,
   ArchiveFails, ThreadExits, PutBlob, chainVars, registryVars, ledgerVars, Grows,
   Ledger!SignSealApproval, Ledger!SignScore, Ledger!Sign, Ledger!ReleaseKey,
   Ledger!registryVars

LEMMA RunGrows ==
  ASSUME NEW r \in Runs, RunStep(r) \/ RunTimesOut(r) \/ PostByHand(r)
  PROVE  Grows /\ UNCHANGED <<registryVars, evals, signatures, released, blobs, author, enclaveKey>>
BY DEF RunStep, Submit, ReceiveReply, VerifyTrace, TraceUnverified, Post, Refused,
   ReceiveError, PostAborts, RunTimesOut, PostByHand, SubmitPostScore, chainVars, registryVars,
   ledgerVars, serverVars, offchainVars, Grows, Ledger!PostScore, Ledger!registryVars

\* The process's eval, without the CHOOSE.
LEMMA EvalOfIs ==
  ASSUME EvalsSealed, NEW p, NEW ev \in evals, ev.id = p.eval
  PROVE  EvalOf(p) = ev
<1>1. \E x \in evals : x.id = p.eval
  OBVIOUS
<1>2. EvalOf(p) \in evals /\ EvalOf(p).id = p.eval
  BY <1>1 DEF EvalOf
<1> QED
  BY <1>2 DEF EvalsSealed

\* So what was true of a request, a run or a signed score stays true.
LEMMA FactsStay ==
  ASSUME Grows
  PROVE  /\ \A id : Exists(id) => Exists(id)'
         /\ \A t : ThreadOK(t) => ThreadOK(t)'
         /\ \A p : RunOK(p) => RunOK(p)'
         /\ \A p : ScoreOK(p) => ScoreOK(p)'
         /\ \A p : Archived(p) => Archived(p)'
<1>1. ASSUME NEW id, Exists(id)
      PROVE  Exists(id)'
  BY <1>1 DEF Grows, Exists
<1>2. ASSUME NEW id, Exists(id), NEW ev \in evals', ev.id = id
      PROVE  ev \in evals
  BY <1>2 DEF Grows, Exists
<1>3. ASSUME NEW t, ThreadOK(t)
      PROVE  ThreadOK(t)'
  <2>1. CASE t.stage = "none"
    BY <2>1 DEF ThreadOK, Grading
  <2>2. CASE t.stage # "none"
    <3>1. Exists(t.eval) /\ blobs \subseteq blobs'
      BY <1>3, <2>2 DEF ThreadOK, Grows
    <3> QED
      BY <1>1, <1>2, <1>3, <3>1 DEF ThreadOK
  <2> QED
    BY <2>1, <2>2
<1>6. ASSUME NEW p, Archived(p)
      PROVE  Archived(p)'
  BY <1>6 DEF Archived, Grows
<1>4. ASSUME NEW p, RunOK(p)
      PROVE  RunOK(p)'
  BY <1>1, <1>2, <1>4, <1>6 DEF RunOK
<1>5. ASSUME NEW p, ScoreOK(p)
      PROVE  ScoreOK(p)'
  BY <1>5, <1>6 DEF ScoreOK, Grows
<1> QED
  BY <1>1, <1>3, <1>4, <1>5, <1>6

-----------------------------------------------------------------------------
(* Types.                                                                  *)

LEMMA ChainTyped ==
  ASSUME Ledger!RegistryTypeOK, Ledger!ChainStep
  PROVE  Ledger!RegistryTypeOK'
<1> USE DEF Ledger!RegistryTypeOK
<1>1. ASSUME NEW a \in Accounts, Ledger!TransferCap(a)
      PROVE  Ledger!RegistryTypeOK'
  BY <1>1 DEF Ledger!TransferCap
<1>2. ASSUME NEW a \in Accounts, NEW i \in ConfigIds, NEW n \in Names, NEW p \in Pcrs,
             Ledger!CreateEnclaveConfig(a, i, n, p)
      PROVE  Ledger!RegistryTypeOK'
  <2>1. [id |-> i, name |-> n, pcrs |-> p, version |-> 0] \in Ledger!EnclaveConfig
    BY DEF Ledger!EnclaveConfig
  <2>2. <<i, 0, p>> \in ConfigIds \X Nat \X Pcrs
    OBVIOUS
  <2> QED
    BY <1>2, <2>1, <2>2 DEF Ledger!CreateEnclaveConfig
<1>3. ASSUME NEW a \in Accounts, NEW c \in configs, NEW d \in documents,
             NEW i \in EnclaveIds, Ledger!RegisterEnclave(a, c, d, i)
      PROVE  Ledger!RegistryTypeOK'
  <2>1. Ledger!NewEnclave(a, c, d, i) \in Ledger!Enclave
    BY DEF Ledger!NewEnclave, Ledger!Enclave, Ledger!EnclaveConfig,
       Ledger!NitroAttestationDocument
  <2> QED
    BY <1>3, <2>1 DEF Ledger!RegisterEnclave
<1>4. ASSUME NEW a \in Accounts, NEW c \in configs, NEW p \in Pcrs,
             Ledger!UpdatePcrs(a, c, p)
      PROVE  Ledger!RegistryTypeOK'
  <2> DEFINE named == [c EXCEPT !.pcrs = p]
  <2> DEFINE next == [named EXCEPT !.version = c.version + 1]
  <2>1. named \in Ledger!EnclaveConfig /\ c.version \in Nat
    BY DEF Ledger!EnclaveConfig
  <2> HIDE DEF named
  <2>2. next \in Ledger!EnclaveConfig
    BY <2>1 DEF Ledger!EnclaveConfig
  <2>3. next = Ledger!Rotated(c, p)
    BY DEF Ledger!Rotated, named
  <2> HIDE DEF next
  <2>4. <<next.id, next.version, next.pcrs>> \in ConfigIds \X Nat \X Pcrs
    BY <2>2 DEF Ledger!EnclaveConfig
  <2> QED
    BY <1>4, <2>2, <2>3, <2>4 DEF Ledger!UpdatePcrs
<1>5. ASSUME NEW a \in Accounts, NEW c \in configs, NEW n \in Names,
             Ledger!UpdateName(a, c, n)
      PROVE  Ledger!RegistryTypeOK'
  <2>1. [c EXCEPT !.name = n] \in Ledger!EnclaveConfig
    BY DEF Ledger!EnclaveConfig
  <2> QED
    BY <1>5, <2>1 DEF Ledger!UpdateName
<1>6. ASSUME NEW e \in enclaves, NEW c \in configs, Ledger!DestroyOldEnclave(e, c)
      PROVE  Ledger!RegistryTypeOK'
  BY <1>6 DEF Ledger!DestroyOldEnclave
<1>7. ASSUME NEW a \in Accounts, NEW e \in enclaves, Ledger!DestroyEnclaveByOwner(a, e)
      PROVE  Ledger!RegistryTypeOK'
  BY <1>7 DEF Ledger!DestroyEnclaveByOwner
<1> QED
  BY <1>1, <1>2, <1>3, <1>4, <1>5, <1>6, <1>7 DEF Ledger!ChainStep

\* The ledger's types when the registry stands still.
LEMMA LedgerTyped ==
  ASSUME Ledger!LedgerTypeOK, UNCHANGED registryVars,
         evals' \subseteq Ledger!SealedEval, scores' \subseteq Ledger!AttestedScore,
         signatures' \subseteq Ledger!ScoreMessage \cup Ledger!SealMessage,
         released' \subseteq [id : Content, pk : Keys]
  PROVE  Ledger!LedgerTypeOK'
BY DEF Ledger!LedgerTypeOK, Ledger!RegistryTypeOK, registryVars

-----------------------------------------------------------------------------
(* The enclave's threads.                                                  *)

\* One request goes on; chain and scripts stand still but for what is signed
\* and released.
LEMMA ThreadStepInv ==
  ASSUME PipelineInv, NEW r \in Runs, thread' \in [Runs -> Requests],
         \A q \in Runs : q # r => thread'[q] = thread[q],
         ThreadOK(thread[r])', Grows,
         UNCHANGED <<registryVars, evals, scores, author, enclaveKey, run>>,
         blobs' \subseteq Ciphertexts \cup Traces,
         signatures' \subseteq Ledger!ScoreMessage \cup Ledger!SealMessage,
         released' \subseteq [id : Content, pk : Keys],
         \A m \in signatures' \ signatures :
            m.intent = Ledger!SCORE_INTENT => ScoreOK(m.payload)'
  PROVE  PipelineInv'
<1> USE DEF PipelineInv
<1>1. TypeOK'
  <2>1. Ledger!LedgerTypeOK'
    BY LedgerTyped DEF TypeOK, Ledger!LedgerTypeOK
  <2> QED
    BY <2>1 DEF TypeOK
<1>2. EvalsSealed'
  BY DEF EvalsSealed
<1>3. ASSUME NEW q \in Runs
      PROVE  ThreadOK(thread[q])'
  <2>1. CASE q = r
    BY <2>1
  <2>2. CASE q # r
    <3>1. thread'[q] = thread[q] /\ ThreadOK(thread[q])
      BY <2>2
    <3> QED
      BY <3>1, FactsStay DEF ThreadOK
  <2> QED
    BY <2>1, <2>2
<1>4. ASSUME NEW q \in Runs
      PROVE  RunOK(run[q])'
  BY FactsStay DEF RunOK
<1>5. ASSUME NEW m \in ScoreMessages'
      PROVE  ScoreOK(m.payload)'
  <2>1. CASE m \in signatures
    BY <2>1, <1>5, FactsStay DEF ScoreMessages
  <2>2. CASE m \notin signatures
    BY <2>2, <1>5 DEF ScoreMessages
  <2> QED
    BY <2>1, <2>2
<1>6. PostedSigned'
  BY DEF PostedSigned, Grows
<1>7. PostedArchived'
  BY FactsStay DEF PostedArchived
<1> QED
  BY <1>1, <1>2, <1>3, <1>4, <1>5, <1>6, <1>7

\* What PipelineInv says of one request.
LEMMA RequestTyped ==
  ASSUME PipelineInv, NEW r \in Runs
  PROVE  /\ thread[r] \in Requests /\ ThreadOK(thread[r])
         /\ blobs \subseteq Ciphertexts \cup Traces
         /\ signatures \subseteq Ledger!ScoreMessage \cup Ledger!SealMessage
         /\ released \subseteq [id : Content, pk : Keys]
BY DEF PipelineInv, TypeOK, Ledger!LedgerTypeOK

\* The requests after r's goes to another stage, or to one with a new input.
LEMMA Restaged ==
  ASSUME PipelineInv, NEW r \in Runs, NEW stage \in Stages,
         thread' = [thread EXCEPT ![r].stage = stage]
  PROVE  /\ thread' \in [Runs -> Requests]
         /\ \A q \in Runs : q # r => thread'[q] = thread[q]
         /\ thread'[r] = [thread[r] EXCEPT !.stage = stage]
         /\ thread'[r].stage = stage
         /\ thread'[r].pk = thread[r].pk /\ thread'[r].eval = thread[r].eval
         /\ thread'[r].enclave = thread[r].enclave
         /\ thread'[r].input = thread[r].input
         /\ thread'[r].done = thread[r].done /\ thread'[r].num = thread[r].num
         /\ thread'[r].publisher = thread[r].publisher
<1> DEFINE t == [thread[r] EXCEPT !.stage = stage]
<1>1. thread \in [Runs -> Requests]
  BY DEF PipelineInv, TypeOK
<1>2. /\ t \in Requests /\ t.stage = stage
      /\ t.pk = thread[r].pk /\ t.eval = thread[r].eval
      /\ t.enclave = thread[r].enclave /\ t.input = thread[r].input
      /\ t.done = thread[r].done /\ t.num = thread[r].num
      /\ t.publisher = thread[r].publisher
  BY <1>1 DEF Requests
<1>3. thread' = [thread EXCEPT ![r] = t]
  OBVIOUS
<1>4. t = [thread[r] EXCEPT !.stage = stage]
  OBVIOUS
<1> HIDE DEF t
<1> QED
  BY <1>1, <1>2, <1>3, <1>4

GoesOn(r, stage, input) ==
  thread' = [thread EXCEPT ![r].stage = stage, ![r].input = input]

LEMMA Reloaded ==
  ASSUME PipelineInv, NEW r \in Runs, NEW stage \in Stages,
         NEW input \in Sets \cup Ciphertexts, GoesOn(r, stage, input)
  PROVE  /\ thread' \in [Runs -> Requests]
         /\ \A q \in Runs : q # r => thread'[q] = thread[q]
         /\ thread'[r].stage = stage /\ thread'[r].input = input
         /\ thread'[r].pk = thread[r].pk /\ thread'[r].eval = thread[r].eval
         /\ thread'[r].enclave = thread[r].enclave
         /\ thread'[r].done = thread[r].done /\ thread'[r].num = thread[r].num
         /\ thread'[r].publisher = thread[r].publisher
<1> DEFINE t1 == [thread[r] EXCEPT !.stage = stage]
<1> DEFINE t2 == [t1 EXCEPT !.input = input]
<1>1. thread \in [Runs -> Requests]
  BY DEF PipelineInv, TypeOK
<1>2. /\ t1 \in Requests /\ t1.stage = stage
      /\ t1.pk = thread[r].pk /\ t1.eval = thread[r].eval
      /\ t1.enclave = thread[r].enclave
      /\ t1.done = thread[r].done /\ t1.num = thread[r].num
      /\ t1.publisher = thread[r].publisher
  BY <1>1 DEF Requests
<1>3. thread' = [thread EXCEPT ![r] = t2]
  BY <1>1 DEF GoesOn
<1> HIDE DEF t1
<1>4. /\ t2 \in Requests /\ t2.stage = t1.stage /\ t2.input = input
      /\ t2.pk = t1.pk /\ t2.eval = t1.eval /\ t2.enclave = t1.enclave
      /\ t2.done = t1.done /\ t2.num = t1.num /\ t2.publisher = t1.publisher
  BY <1>2 DEF Requests
<1> HIDE DEF t2
<1> QED
  BY <1>1, <1>2, <1>3, <1>4

LEMMA LoadInv ==
  ASSUME PipelineInv, NEW r \in Runs, LoadCiphertext(r)
  PROVE  PipelineInv'
<1> DEFINE t == thread[r]
<1>0. Grows /\ UNCHANGED <<registryVars, evals, scores, author, enclaveKey, run>>
  BY ThreadGrows DEF ThreadStep
<1>1. PICK c \in BlobFor(r) : GoesOn(r, "approve", c)
  BY DEF LoadCiphertext, GoesOn
<1>2. PICK ev \in evals : ev.id = t.eval
  BY RequestTyped DEF LoadCiphertext, At, ThreadOK, Exists
<1>3. c = ev.walrus_blob_id /\ c \in Ciphertexts
  BY <1>2, EvalOfIs DEF BlobFor, PipelineInv, EvalsSealed
<1>4. /\ thread' \in [Runs -> Requests]
      /\ \A q \in Runs : q # r => thread'[q] = thread[q]
      /\ thread'[r].stage = "approve" /\ thread'[r].input = c
      /\ thread'[r].eval = t.eval
      /\ thread'[r].done = t.done /\ thread'[r].num = t.num
  <2>1. "approve" \in Stages /\ c \in Sets \cup Ciphertexts
    BY <1>3 DEF Stages
  <2> QED
    BY <1>1, <2>1, Reloaded
<1>7. t.done = 0 /\ t.num = 0
  BY RequestTyped DEF LoadCiphertext, At, ThreadOK
<1>5. ThreadOK(thread[r])'
  BY <1>0, <1>2, <1>3, <1>4, <1>7 DEF ThreadOK, Exists, Grading, PipelineInv, EvalsSealed
<1>6. UNCHANGED <<blobs, signatures, released>>
  BY DEF LoadCiphertext, chainVars, ledgerVars
<1> QED
  BY <1>0, <1>4, <1>5, <1>6, RequestTyped, ThreadStepInv

\* The identity signed for is that of the loaded ciphertext.
LEMMA ApproveInv ==
  ASSUME PipelineInv, NEW r \in Runs, SignApproval(r)
  PROVE  PipelineInv'
<1> DEFINE t == thread[r]
<1> DEFINE m == [pk |-> t.pk, intent |-> Ledger!SEAL_INTENT, payload |-> t.input.identity]
<1>0. Grows /\ UNCHANGED <<registryVars, evals, scores, author, enclaveKey, run>>
  BY ThreadGrows DEF ThreadStep
<1>1. /\ Ledger!Booted(t.pk) /\ signatures' = signatures \cup {m}
      /\ UNCHANGED <<blobs, released>>
  BY DEF SignApproval, Ledger!SignSealApproval, Ledger!Sign
<1>2. PICK ev \in evals : ev.id = t.eval
  BY RequestTyped DEF SignApproval, At, ThreadOK, Exists
<1>3. t.input = ev.walrus_blob_id /\ t.input \in Ciphertexts
  BY <1>2, RequestTyped DEF SignApproval, At, ThreadOK, PipelineInv, EvalsSealed
<1>4. t.pk \in Keys
  BY <1>1 DEF Ledger!Booted, PipelineInv, TypeOK, Ledger!LedgerTypeOK,
     Ledger!RegistryTypeOK, Ledger!NitroAttestationDocument
<1>5. m \in Ledger!SealMessage /\ m.intent # Ledger!SCORE_INTENT
  BY <1>3, <1>4 DEF Ledger!SealMessage, Ledger!SEAL_INTENT, Ledger!SCORE_INTENT,
     Ciphertexts, Content
<1> HIDE DEF m
<1>6. /\ thread' \in [Runs -> Requests]
      /\ \A q \in Runs : q # r => thread'[q] = thread[q]
      /\ thread'[r].stage = "fetch" /\ thread'[r].input = t.input
      /\ thread'[r].eval = t.eval
      /\ thread'[r].done = t.done /\ thread'[r].num = t.num
      /\ t.done = 0 /\ t.num = 0
  BY Restaged, RequestTyped DEF SignApproval, Stages, At, ThreadOK
<1>7. ThreadOK(thread[r])'
  BY <1>0, <1>2, <1>3, <1>6 DEF ThreadOK, Exists, Grading, PipelineInv, EvalsSealed
<1> QED
  BY <1>0, <1>1, <1>5, <1>6, <1>7, RequestTyped, ThreadStepInv

\* A decrypted text that hashes to the identity is the committed set.
LEMMA FetchInv ==
  ASSUME PipelineInv, NEW r \in Runs, FetchAndDecrypt(r)
  PROVE  PipelineInv'
<1> DEFINE t == thread[r]
<1>0. Grows /\ UNCHANGED <<registryVars, evals, scores, author, enclaveKey, run>>
  BY ThreadGrows DEF ThreadStep
<1>1. PICK e \in enclaves : Ledger!ReleaseKey(e, t.input.identity)
  BY DEF FetchAndDecrypt
<1>2. PICK ev \in evals : ev.id = t.eval
  BY RequestTyped DEF FetchAndDecrypt, At, ThreadOK, Exists
<1>3. t.input = ev.walrus_blob_id /\ t.input \in Ciphertexts
      /\ t.input.plaintext = ev.sha256_plaintext
  BY <1>2, RequestTyped DEF FetchAndDecrypt, At, ThreadOK, PipelineInv, EvalsSealed
<1>4. t.input.identity \in Content /\ t.input.plaintext \in Sets
  BY <1>3 DEF Ciphertexts, Content
<1>5. e.pk \in Keys
  BY DEF PipelineInv, TypeOK, Ledger!LedgerTypeOK, Ledger!RegistryTypeOK, Ledger!Enclave
<1>6. released' \subseteq [id : Content, pk : Keys] /\ UNCHANGED <<blobs, signatures>>
  BY <1>1, <1>4, <1>5, RequestTyped DEF Ledger!ReleaseKey, FetchAndDecrypt
<1>7. CASE IdentityOK(t.input)
  <2>1. GoesOn(r, "score", t.input.plaintext)
    BY <1>7 DEF FetchAndDecrypt, GoesOn
  <2>2. /\ thread' \in [Runs -> Requests]
        /\ \A q \in Runs : q # r => thread'[q] = thread[q]
        /\ thread'[r].stage = "score" /\ thread'[r].input = t.input.plaintext
        /\ thread'[r].eval = t.eval /\ thread'[r].done = t.done /\ thread'[r].num = t.num
    BY <1>4, <2>1, Reloaded DEF Stages
  <2>3. t.done = 0 /\ t.num = 0
    BY RequestTyped DEF FetchAndDecrypt, At, ThreadOK
  <2>4. ThreadOK(thread[r])'
    BY <1>0, <1>2, <1>3, <1>4, <2>2, <2>3, PipelineAssumption
       DEF ThreadOK, Exists, Grading, PipelineInv, EvalsSealed
  <2> QED
    BY <1>0, <1>6, <2>2, <2>4, RequestTyped, ThreadStepInv
<1>8. CASE ~IdentityOK(t.input)
  <2>1. thread' = [thread EXCEPT ![r].stage = "error"]
    BY <1>8 DEF FetchAndDecrypt
  <2>2. /\ thread' \in [Runs -> Requests]
        /\ \A q \in Runs : q # r => thread'[q] = thread[q]
        /\ thread'[r].stage = "error" /\ thread'[r].eval = t.eval
    BY <2>1, Restaged DEF Stages
  <2>3. ThreadOK(thread[r])'
    BY <1>0, <1>2, <2>2 DEF ThreadOK, Exists, Grading
  <2> QED
    BY <1>0, <1>6, <2>2, <2>3, RequestTyped, ThreadStepInv
<1> QED
  BY <1>7, <1>8

\* One more item of the set is scored.
LEMMA ScoreItemInv ==
  ASSUME PipelineInv, NEW r \in Runs, NEW correct \in BOOLEAN, ScoreItem(r, correct)
  PROVE  PipelineInv'
<1> DEFINE t == thread[r]
<1>0. Grows /\ UNCHANGED <<registryVars, evals, scores, author, enclaveKey, run>>
  BY ThreadGrows DEF ThreadStep
<1>1. PICK ev \in evals : ev.id = t.eval
  BY RequestTyped DEF ScoreItem, At, ThreadOK, Exists
<1>2. t.input = ev.sha256_plaintext /\ t.input \in Sets
  BY <1>1, RequestTyped DEF ScoreItem, At, ThreadOK, Grading, PipelineInv, EvalsSealed
<1>3. /\ t \in Requests /\ t.done \in Nat /\ t.num \in Nat
      /\ ItemCount[t.input] \in Nat /\ ItemCount[t.input] <= MaxItems /\ MaxItems \in Nat
      /\ t.num <= t.done /\ t.done < ItemCount[t.input]
  BY <1>2, RequestTyped, PipelineAssumption
     DEF ScoreItem, At, ItemsLeft, ThreadOK, Grading, Requests
<1> DEFINE more == IF correct THEN t.num + 1 ELSE t.num
<1> DEFINE t1 == [t EXCEPT !.done = t.done + 1]
<1> DEFINE t2 == [t1 EXCEPT !.num = more]
<1>4. /\ t1 \in Requests /\ t1.stage = t.stage /\ t1.eval = t.eval
      /\ t1.input = t.input /\ t1.done = t.done + 1 /\ t1.num = t.num
  BY <1>3 DEF Requests
<1>5. more \in 0..MaxItems /\ more <= t.done + 1
  BY <1>3
<1>6. thread \in [Runs -> Requests] /\ thread' = [thread EXCEPT ![r] = t2]
  BY DEF ScoreItem, PipelineInv, TypeOK
<1> HIDE DEF more, t1
<1>7. /\ t2 \in Requests /\ t2.stage = t.stage /\ t2.eval = t.eval
      /\ t2.input = t.input /\ t2.done = t.done + 1 /\ t2.num = more
  BY <1>4, <1>5 DEF Requests
<1> HIDE DEF t2
<1>8. /\ thread' \in [Runs -> Requests] /\ thread'[r] = t2
      /\ \A q \in Runs : q # r => thread'[q] = thread[q]
  BY <1>6, <1>7
<1>9. ThreadOK(thread[r])'
  <2>1. t2.stage = "score"
    BY <1>7 DEF ScoreItem, At
  <2>2. t2.num <= t2.done /\ t2.done <= ItemCount[t2.input]
    BY <1>3, <1>5, <1>7
  <2>3. \E v \in evals' : v.id = t2.eval
    BY <1>0, <1>1, <1>7
  <2>4. \A v \in evals' : v.id = t2.eval => t2.input = v.sha256_plaintext
    BY <1>0, <1>1, <1>2, <1>7 DEF PipelineInv, EvalsSealed
  <2> QED
    BY <1>8, <2>1, <2>2, <2>3, <2>4 DEF ThreadOK, Grading, Exists
<1>10. UNCHANGED <<blobs, signatures, released>>
  BY DEF ScoreItem, chainVars, ledgerVars
<1> QED
  BY <1>0, <1>8, <1>9, <1>10, RequestTyped, ThreadStepInv

\* With no item left the trace is complete, and archived before it is signed.
LEMMA ArchiveInv ==
  ASSUME PipelineInv, NEW r \in Runs, ArchiveTrace(r)
  PROVE  PipelineInv'
<1> DEFINE t == thread[r]
<1>0. Grows /\ UNCHANGED <<registryVars, evals, scores, author, enclaveKey, run>>
  BY ThreadGrows DEF ThreadStep
<1>1. PICK ev \in evals : ev.id = t.eval
  BY RequestTyped DEF ArchiveTrace, At, ThreadOK, Exists
<1>2. t.input = ev.sha256_plaintext /\ t.input \in Sets
  BY <1>1, RequestTyped DEF ArchiveTrace, At, ThreadOK, Grading, PipelineInv, EvalsSealed
<1>3. /\ t \in Requests /\ t.num <= t.done /\ t.done = ItemCount[t.input]
      /\ ItemCount[t.input] \in Nat
  BY <1>2, RequestTyped, PipelineAssumption
     DEF ArchiveTrace, At, ItemsLeft, ThreadOK, Grading, Requests
<1>4. TraceOf(r) = [set |-> t.input, model |-> ev.model_target,
                    items |-> t.done, num |-> t.num]
  BY <1>1, EvalOfIs DEF TraceOf, PipelineInv
<1>5. ev.model_target \in Models
  BY DEF PipelineInv, TypeOK, Ledger!LedgerTypeOK, Ledger!SealedEval
<1>6. TraceOf(r) \in Traces
  BY <1>2, <1>3, <1>4, <1>5 DEF Traces, Requests
<1>7. /\ blobs' = blobs \cup {TraceOf(r)}
      /\ UNCHANGED <<signatures, released>>
  BY DEF ArchiveTrace, PutBlob, chainVars, ledgerVars
<1>8. PICK stage \in {"sign", "error"} : thread' = [thread EXCEPT ![r].stage = stage]
  BY DEF ArchiveTrace
<1>9. /\ thread' \in [Runs -> Requests]
      /\ \A q \in Runs : q # r => thread'[q] = thread[q]
      /\ thread'[r].stage = stage /\ thread'[r].input = t.input
      /\ thread'[r].eval = t.eval /\ thread'[r].done = t.done /\ thread'[r].num = t.num
  BY <1>8, Restaged DEF Stages
<1>10. ThreadOK(thread[r])'
  <2>1. \E v \in evals' : v.id = t.eval
    BY <1>0, <1>1
  <2>2. \A v \in evals' : v.id = t.eval => v = ev
    BY <1>0, <1>1 DEF PipelineInv, EvalsSealed
  <2>3. TraceOf(r) \in blobs'
    BY <1>7
  <2> QED
    BY <1>2, <1>3, <1>4, <1>9, <2>1, <2>2, <2>3 DEF ThreadOK, Grading, Exists
<1> QED
  BY <1>0, <1>6, <1>7, <1>9, <1>10, RequestTyped, ThreadStepInv

\* In inline mode it is complete too, and archived nowhere.
LEMMA InlineInv ==
  ASSUME PipelineInv, NEW r \in Runs, InlineTrace(r)
  PROVE  PipelineInv'
<1> DEFINE t == thread[r]
<1>0. Grows /\ UNCHANGED <<registryVars, evals, scores, author, enclaveKey, run>>
  BY ThreadGrows DEF ThreadStep
<1>1. PICK ev \in evals : ev.id = t.eval
  BY RequestTyped DEF InlineTrace, At, ThreadOK, Exists
<1>2. t.input = ev.sha256_plaintext /\ t.input \in Sets
  BY <1>1, RequestTyped DEF InlineTrace, At, ThreadOK, Grading, PipelineInv, EvalsSealed
<1>3. t.num <= t.done /\ t.done = ItemCount[t.input] /\ ~t.publisher
  BY <1>2, RequestTyped, PipelineAssumption
     DEF InlineTrace, At, ItemsLeft, ThreadOK, Grading, Requests
<1>4. UNCHANGED <<blobs, signatures, released>>
  BY DEF InlineTrace, chainVars, ledgerVars
<1>5. /\ thread' \in [Runs -> Requests]
      /\ \A q \in Runs : q # r => thread'[q] = thread[q]
      /\ thread'[r].stage = "sign" /\ thread'[r].input = t.input
      /\ thread'[r].eval = t.eval /\ thread'[r].done = t.done /\ thread'[r].num = t.num
      /\ thread'[r].publisher = t.publisher
  BY Restaged DEF InlineTrace, Stages
<1>6. ThreadOK(thread[r])'
  <2>1. \E v \in evals' : v.id = t.eval
    BY <1>0, <1>1
  <2>2. \A v \in evals' : v.id = t.eval => v = ev
    BY <1>0, <1>1 DEF PipelineInv, EvalsSealed
  <2>3. t.done <= ItemCount[t.input]
    BY <1>2, <1>3, PipelineAssumption
  <2> QED
    BY <1>2, <1>3, <1>5, <2>1, <2>2, <2>3 DEF ThreadOK, Grading, Exists
<1> QED
  BY <1>0, <1>4, <1>5, <1>6, RequestTyped, ThreadStepInv

\* What is signed is the complete grading of the committed set.
LEMMA PayloadOK ==
  ASSUME PipelineInv, NEW r \in Runs, thread[r].stage \in {"sign", "replied"}
  PROVE  PayloadOf(r) \in Ledger!ScorePayload /\ ScoreOK(PayloadOf(r))
<1> DEFINE t == thread[r]
<1>1. PICK ev \in evals : ev.id = t.eval
  BY RequestTyped DEF ThreadOK, Exists
<1>2. t.input = ev.sha256_plaintext /\ t.input \in Sets /\ ev.set_size = ItemCount[t.input]
  BY <1>1, RequestTyped DEF ThreadOK, Grading, PipelineInv, EvalsSealed
<1>3. /\ t \in Requests /\ t.num <= t.done /\ t.done = ItemCount[t.input]
      /\ t.publisher =>
           [set |-> t.input, model |-> ev.model_target, items |-> t.done,
            num |-> t.num] \in blobs
  BY <1>1, RequestTyped DEF ThreadOK, Grading
<1>4. EvalOf(t) = ev
  BY <1>1, EvalOfIs DEF PipelineInv
<1>5. ev.model_target \in Models /\ ev.id \in EvalIds
  BY DEF PipelineInv, TypeOK, Ledger!LedgerTypeOK, Ledger!SealedEval
<1>6. TraceOf(r) \in Traces /\ TraceOf(r) \in Content /\ TraceId(r) \in BlobIds
  BY <1>2, <1>3, <1>4, <1>5 DEF TraceOf, Traces, TraceId, Content, BlobIds, Requests
<1>7. PayloadOf(r) = [sealed_eval_id |-> ev.id, model_target |-> ev.model_target,
                      score_num |-> t.num, score_den |-> t.done,
                      items_hash |-> TraceOf(r), trace_blob_id |-> TraceId(r)]
  BY <1>1, <1>3, <1>4 DEF PayloadOf
<1>8. t.num \in 0..MaxItems /\ t.done \in 0..MaxItems
  BY <1>3 DEF Requests
<1>9. PayloadOf(r) \in Ledger!ScorePayload
  BY <1>5, <1>6, <1>7, <1>8 DEF Ledger!ScorePayload, Ledger!Counts
<1>10. ScoreOK(PayloadOf(r))
  <2>1. /\ TraceOf(r).set = t.input /\ TraceOf(r).model = ev.model_target
        /\ TraceOf(r).items = t.done /\ TraceOf(r).num = t.num
        /\ t.publisher => TraceOf(r) \in blobs
    BY <1>3, <1>4 DEF TraceOf
  <2>2. Archived(PayloadOf(r)) \/ TraceId(r) = Inline(TraceOf(r))
    BY <1>7, <2>1 DEF Archived, TraceId
  <2> QED
    BY <1>2, <1>3, <1>7, <2>1, <2>2 DEF ScoreOK
<1> QED
  BY <1>9, <1>10

LEMMA SignInv ==
  ASSUME PipelineInv, NEW r \in Runs, SignResult(r)
  PROVE  PipelineInv'
<1> DEFINE t == thread[r]
<1> DEFINE p == PayloadOf(r)
<1> DEFINE m == [pk |-> t.pk, intent |-> Ledger!SCORE_INTENT, payload |-> p]
<1>0. Grows /\ UNCHANGED <<registryVars, evals, scores, author, enclaveKey, run>>
  BY ThreadGrows DEF ThreadStep
<1>1. /\ Ledger!Booted(t.pk) /\ signatures' = signatures \cup {m}
      /\ UNCHANGED <<blobs, released>>
  BY DEF SignResult, Ledger!SignScore, Ledger!Sign
<1>2. p \in Ledger!ScorePayload /\ ScoreOK(p)
  BY PayloadOK DEF SignResult, At
<1>3. t.pk \in Keys
  BY <1>1 DEF Ledger!Booted, PipelineInv, TypeOK, Ledger!LedgerTypeOK,
     Ledger!RegistryTypeOK, Ledger!NitroAttestationDocument
<1> HIDE DEF p
<1>4. m \in Ledger!ScoreMessage /\ m.payload = p
  BY <1>2, <1>3 DEF Ledger!ScoreMessage
<1> HIDE DEF m
<1>5. /\ thread' \in [Runs -> Requests]
      /\ \A q \in Runs : q # r => thread'[q] = thread[q]
      /\ thread'[r].stage = "replied" /\ thread'[r].input = t.input
      /\ thread'[r].eval = t.eval /\ thread'[r].done = t.done /\ thread'[r].num = t.num
      /\ thread'[r].publisher = t.publisher
  BY Restaged DEF SignResult, Stages
<1>6. t.stage = "sign" /\ ThreadOK(t)
  BY RequestTyped DEF SignResult, At
<1>7. ThreadOK(thread[r])'
  BY <1>0, <1>1, <1>5, <1>6 DEF ThreadOK, Exists, Grading
<1>8. \A n \in signatures' \ signatures :
        n.intent = Ledger!SCORE_INTENT => ScoreOK(n.payload)'
  <2>1. \A q : ScoreOK(q) => ScoreOK(q)'
    BY <1>0, FactsStay
  <2>2. ScoreOK(m.payload)
    BY <1>2, <1>4
  <2> QED
    BY <1>1, <1>4, <2>1, <2>2
<1> QED
  BY <1>0, <1>1, <1>4, <1>5, <1>7, <1>8, RequestTyped, ThreadStepInv

\* A request that fails claims nothing any more.
LEMMA ErrInv ==
  ASSUME PipelineInv, NEW r \in Runs,
         LoadFails(r) \/ FetchFails(r) \/ ScoreFails(r) \/ ArchiveFails(r)
  PROVE  PipelineInv'
<1>0. Grows /\ UNCHANGED <<registryVars, evals, scores, author, enclaveKey, run>>
  BY ThreadGrows DEF ThreadStep
<1>1. /\ thread' = [thread EXCEPT ![r].stage = "error"] /\ thread[r].stage # "none"
      /\ UNCHANGED <<blobs, signatures, released>>
  BY DEF LoadFails, FetchFails, ScoreFails, ArchiveFails, ThreadErrs, At, chainVars, ledgerVars
<1>2. /\ thread' \in [Runs -> Requests]
      /\ \A q \in Runs : q # r => thread'[q] = thread[q]
      /\ thread'[r].stage = "error" /\ thread'[r].eval = thread[r].eval
  BY <1>1, Restaged DEF Stages
<1>3. ThreadOK(thread[r])'
  BY <1>0, <1>1, <1>2, RequestTyped DEF ThreadOK, Exists, Grading
<1> QED
  BY <1>0, <1>1, <1>2, <1>3, RequestTyped, ThreadStepInv

LEMMA NoRequest ==
  /\ NoThread \in Requests
  /\ ThreadOK(NoThread)
  /\ NoThread.stage = "none"
BY PipelineAssumption DEF NoThread, Request, Requests, Stages, ThreadOK, Grading

LEMMA ExitInv ==
  ASSUME PipelineInv, NEW r \in Runs, ThreadExits(r)
  PROVE  PipelineInv'
<1>0. Grows /\ UNCHANGED <<registryVars, evals, scores, author, enclaveKey, run>>
  BY ThreadGrows DEF ThreadStep
<1>1. thread' = [thread EXCEPT ![r] = NoThread] /\ UNCHANGED <<blobs, signatures, released>>
  BY DEF ThreadExits, chainVars, ledgerVars
<1>2. /\ thread' \in [Runs -> Requests] /\ thread'[r] = NoThread
      /\ \A q \in Runs : q # r => thread'[q] = thread[q]
  BY <1>1, NoRequest DEF PipelineInv, TypeOK
<1>3. ThreadOK(thread[r])'
  BY <1>2, NoRequest DEF ThreadOK, Grading
<1> QED
  BY <1>0, <1>1, <1>2, <1>3, RequestTyped, ThreadStepInv

LEMMA ThreadInv ==
  ASSUME PipelineInv, NEW r \in Runs, ThreadStep(r)
  PROVE  PipelineInv'
BY LoadInv, ApproveInv, FetchInv, ScoreItemInv, ArchiveInv, InlineInv, SignInv, ErrInv, ExitInv
   DEF ThreadStep

-----------------------------------------------------------------------------
(* The operators' runs.                                                    *)

\* One run goes on, perhaps with its request; all that happens on chain is a
\* score posted under a signature.
LEMMA RunStepInv ==
  ASSUME PipelineInv, NEW r \in Runs, Grows,
         UNCHANGED <<registryVars, evals, signatures, released, blobs, author, enclaveKey>>,
         thread' \in [Runs -> Requests], run' \in [Runs -> RunStates],
         \A q \in Runs : q # r => thread'[q] = thread[q] /\ run'[q] = run[q],
         ThreadOK(thread[r])', RunOK(run[r])',
         scores' \subseteq Ledger!AttestedScore, PostedSigned', PostedArchived'
  PROVE  PipelineInv'
<1> USE DEF PipelineInv
<1>1. TypeOK'
  <2>1. Ledger!LedgerTypeOK'
    BY LedgerTyped DEF TypeOK, Ledger!LedgerTypeOK
  <2> QED
    BY <2>1 DEF TypeOK
<1>2. EvalsSealed'
  BY DEF EvalsSealed
<1>3. ASSUME NEW q \in Runs
      PROVE  ThreadOK(thread[q])' /\ RunOK(run[q])'
  <2>1. CASE q = r
    BY <2>1
  <2>2. CASE q # r
    <3>1. thread'[q] = thread[q] /\ run'[q] = run[q]
      BY <2>2
    <3>2. ThreadOK(thread[q])'
      BY <3>1, FactsStay DEF ThreadOK
    <3>3. RunOK(run[q])'
      BY <3>1, FactsStay DEF RunOK
    <3> QED
      BY <3>2, <3>3
  <2> QED
    BY <2>1, <2>2
<1>4. ASSUME NEW m \in ScoreMessages'
      PROVE  ScoreOK(m.payload)'
  BY <1>4, FactsStay DEF ScoreMessages
<1> QED
  BY <1>1, <1>2, <1>3, <1>4

\* What PipelineInv says of one run.
LEMMA RunTyped ==
  ASSUME PipelineInv, NEW r \in Runs
  PROVE  /\ run[r] \in RunStates /\ RunOK(run[r])
         /\ run \in [Runs -> RunStates] /\ thread \in [Runs -> Requests]
         /\ scores \subseteq Ledger!AttestedScore /\ PostedSigned /\ PostedArchived
BY DEF PipelineInv, TypeOK, Ledger!LedgerTypeOK

\* The posted payload has a signature under the Enclave object's key, so all
\* of its types, and nothing else is asked of the run that posts.
LEMMA PostTyped ==
  ASSUME PipelineInv, NEW r \in Runs, NEW e \in enclaves, SubmitPostScore(r, e),
         Archived(run[r].reply), UNCHANGED blobs
  PROVE  scores' \subseteq Ledger!AttestedScore /\ PostedSigned' /\ PostedArchived'
<1>1. PICK i \in ScoreIds :
         Ledger!PostScore(e, EvalOf(run[r]), i, run[r].reply.score_num,
                          run[r].reply.score_den, run[r].reply.items_hash,
                          run[r].reply.trace_blob_id)
  BY DEF SubmitPostScore
<1> DEFINE payload ==
      [sealed_eval_id |-> EvalOf(run[r]).id, model_target |-> EvalOf(run[r]).model_target,
       score_num |-> run[r].reply.score_num, score_den |-> run[r].reply.score_den,
       items_hash |-> run[r].reply.items_hash,
       trace_blob_id |-> run[r].reply.trace_blob_id]
<1> DEFINE m == [pk |-> e.pk, intent |-> Ledger!SCORE_INTENT, payload |-> payload]
<1> DEFINE score == [id |-> i, payload |-> payload, enclave_pk |-> e.pk]
<1>2. m \in signatures /\ scores' = scores \cup {score} /\ UNCHANGED signatures
  BY <1>1 DEF Ledger!PostScore, Ledger!VerifySignature
<1>6. Archived(payload)
  BY DEF Archived
<1> HIDE DEF payload
<1>3. payload \in Ledger!ScorePayload /\ e.pk \in Keys
  BY <1>2, RequestTyped DEF Ledger!ScoreMessage, Ledger!SealMessage, Ledger!SCORE_INTENT,
     Ledger!SEAL_INTENT
<1>4. score \in Ledger!AttestedScore
  BY <1>3 DEF Ledger!AttestedScore
<1>5. score.payload = payload /\ score.enclave_pk = e.pk
  OBVIOUS
<1> HIDE DEF score
<1>7. PostedArchived'
  BY <1>2, <1>5, <1>6, RunTyped DEF PostedArchived, Archived
<1> QED
  BY <1>2, <1>4, <1>5, <1>7, RunTyped DEF PostedSigned

\* A run that exits, with or without a printed payload.
LEMMA ExitTyped ==
  ASSUME PipelineInv, NEW r \in Runs, NEW pc \in {"done", "failed"},
         run[r].pc \in {"ready", "waiting", "verifying", "posting"},
         RunExits(r, pc), Grows
  PROVE  /\ run' \in [Runs -> RunStates] /\ RunOK(run[r])'
         /\ \A q \in Runs : q # r => run'[q] = run[q]
         /\ run'[r].pc = pc
<1> DEFINE eval == IF Printed(r) THEN run[r].eval ELSE None
<1> DEFINE reply == IF Printed(r) THEN run[r].reply ELSE None
<1> DEFINE rr == [pc |-> pc, sealed |-> FALSE, execute |-> FALSE, eval |-> eval,
                  enclave |-> None, set |-> None, reply |-> reply]
<1>1. run' = [run EXCEPT ![r] = rr]
  <2>1. CASE Printed(r)
    BY <2>1 DEF RunExits, Inactive
  <2>2. CASE ~Printed(r)
    BY <2>2 DEF RunExits, Inactive
  <2> QED
    BY <2>1, <2>2
<1>2. eval \in EvalIds \cup {None} /\ reply \in Ledger!ScorePayload \cup {None}
  BY RunTyped DEF RunStates
<1>3. reply # None => \E ev \in evals' : ev.id = eval
  BY RunTyped DEF RunOK, Exists, Grows
<1>7. reply # None => reply.trace_blob_id = reply.items_hash /\ reply.trace_blob_id \in blobs'
  BY RunTyped DEF RunOK, Printed, RunAt, Archived, Grows
<1> HIDE DEF eval, reply
<1>4. rr \in RunStates
  BY <1>2 DEF RunStates, Pcs
<1>5. run' \in [Runs -> RunStates] /\ run'[r] = rr /\ \A q \in Runs : q # r => run'[q] = run[q]
  BY <1>1, <1>4, RunTyped
<1>6. RunOK(run[r])'
  BY <1>3, <1>5, <1>7 DEF RunOK, Exists, Archived
<1> QED
  BY <1>5, <1>6

LEMMA SubmitInv ==
  ASSUME PipelineInv, NEW r \in Runs, Submit(r)
  PROVE  PipelineInv'
<1> DEFINE p == run[r]
<1> DEFINE stage == IF p.sealed THEN "load" ELSE "score"
<1>p. PICK publisher \in BOOLEAN :
         thread' = [thread EXCEPT ![r] =
           Request(IF p.sealed THEN "load" ELSE "score", enclaveKey,
                   p.eval, p.enclave, p.set, publisher)]
  BY DEF Submit
<1> DEFINE t == [stage |-> stage, pk |-> enclaveKey, eval |-> p.eval,
                 enclave |-> p.enclave, input |-> p.set, publisher |-> publisher,
                 done |-> 0, num |-> 0]
<1>0. /\ Grows
      /\ UNCHANGED <<registryVars, evals, scores, signatures, released, blobs, author, enclaveKey>>
  BY RunGrows DEF RunStep, Submit, chainVars, ledgerVars
<1>1. /\ p \in RunStates /\ RunOK(p) /\ p.pc = "ready"
      /\ enclaveKey # None /\ enclaveKey \in Keys \cup {None}
  BY RunTyped DEF Submit, RunAt, PipelineInv, TypeOK
<1>2. thread' = [thread EXCEPT ![r] = t] /\ run' = [run EXCEPT ![r].pc = "waiting"]
  BY <1>p DEF Submit, RunGoes, Request
<1>3. PICK ev \in evals : ev.id = p.eval
  BY <1>1 DEF RunOK, Exists
<1>4. ~p.sealed => p.set = ev.sha256_plaintext /\ p.set \in Sets
  BY <1>1, <1>3 DEF RunOK, PipelineInv, EvalsSealed
<1>5. t \in Requests
  BY <1>1, PipelineAssumption DEF Requests, RunStates, Stages
<1>6. /\ t.stage = stage /\ t.eval = p.eval /\ t.input = p.set
      /\ t.done = 0 /\ t.num = 0
  OBVIOUS
<1> HIDE DEF t
<1>7. thread' \in [Runs -> Requests] /\ thread'[r] = t
      /\ \A q \in Runs : q # r => thread'[q] = thread[q]
  BY <1>2, <1>5, RunTyped
<1>8. /\ run' \in [Runs -> RunStates] /\ \A q \in Runs : q # r => run'[q] = run[q]
      /\ run'[r].pc = "waiting" /\ run'[r].eval = p.eval /\ run'[r].reply = p.reply
  BY <1>2, RunTyped DEF RunStates, Pcs
<1>9. ThreadOK(thread[r])'
  <2>1. ~p.sealed => ItemCount[p.set] \in Nat
    BY <1>4, PipelineAssumption
  <2>2. \A v \in evals' : v.id = p.eval => v = ev
    BY <1>0, <1>3 DEF PipelineInv, EvalsSealed
  <2>3. \E v \in evals' : v.id = p.eval
    BY <1>0, <1>3
  <2> QED
    BY <1>4, <1>6, <1>7, <2>1, <2>2, <2>3 DEF ThreadOK, Grading, Exists
<1>10. RunOK(run[r])'
  BY <1>0, <1>3, <1>8 DEF RunOK, Exists
<1>11. PostedSigned' /\ PostedArchived' /\ scores' \subseteq Ledger!AttestedScore
  BY <1>0, RunTyped DEF PostedSigned, PostedArchived, Archived
<1> QED
  BY <1>0, <1>7, <1>8, <1>9, <1>10, <1>11, RunStepInv

LEMMA ReplyInv ==
  ASSUME PipelineInv, NEW r \in Runs, ReceiveReply(r)
  PROVE  PipelineInv'
<1> DEFINE p == run[r]
<1> DEFINE payload == PayloadOf(r)
<1>0. /\ Grows
      /\ UNCHANGED <<registryVars, evals, scores, signatures, released, blobs, author, enclaveKey>>
  BY RunGrows DEF RunStep, ReceiveReply, chainVars, ledgerVars
<1>1. p \in RunStates /\ RunOK(p) /\ p.pc = "waiting" /\ thread[r].stage = "replied"
  BY RunTyped DEF ReceiveReply, RunAt, At
<1>2. payload \in Ledger!ScorePayload
  BY <1>1, PayloadOK
<1>3. thread' = [thread EXCEPT ![r] = NoThread]
  BY DEF ReceiveReply
<1> DEFINE p1 == [p EXCEPT !.pc = "verifying"]
<1> DEFINE p2 == [p1 EXCEPT !.reply = payload]
<1>4. run' = [run EXCEPT ![r] = p2]
  BY RunTyped DEF ReceiveReply
<1>5. p1 \in RunStates /\ p1.pc = "verifying" /\ p1.eval = p.eval
  BY <1>1 DEF RunStates, Pcs
<1> HIDE DEF payload, p1
<1>6. p2 \in RunStates /\ p2.pc = "verifying" /\ p2.eval = p.eval
  BY <1>2, <1>5 DEF RunStates
<1> HIDE DEF p2
<1>7. /\ run' \in [Runs -> RunStates] /\ run'[r] = p2
      /\ \A q \in Runs : q # r => run'[q] = run[q]
  BY <1>4, <1>6, RunTyped
<1>8. /\ thread' \in [Runs -> Requests] /\ thread'[r] = NoThread
      /\ \A q \in Runs : q # r => thread'[q] = thread[q]
  BY <1>3, NoRequest, RunTyped
<1>9. ThreadOK(thread[r])'
  BY <1>8, NoRequest DEF ThreadOK, Grading
<1>10. RunOK(run[r])'
  <2>1. \E ev \in evals' : ev.id = p.eval
    BY <1>0, <1>1 DEF RunOK, Exists
  <2> QED
    BY <1>6, <1>7, <2>1 DEF RunOK, Exists
<1>11. PostedSigned' /\ PostedArchived' /\ scores' \subseteq Ledger!AttestedScore
  BY <1>0, RunTyped DEF PostedSigned, PostedArchived, Archived
<1> QED
  BY <1>0, <1>7, <1>8, <1>9, <1>10, <1>11, RunStepInv

LEMMA VerifyInv ==
  ASSUME PipelineInv, NEW r \in Runs, VerifyTrace(r)
  PROVE  PipelineInv'
<1>0. /\ Grows
      /\ UNCHANGED <<registryVars, evals, scores, signatures, released, blobs, author, enclaveKey, thread>>
  BY RunGrows DEF RunStep, VerifyTrace, chainVars, ledgerVars, serverVars
<1>1. /\ run[r].pc = "verifying"
      /\ \E pc \in {"posting", "done"} : run' = [run EXCEPT ![r].pc = pc]
  BY DEF VerifyTrace, RunAt, RunGoes
<1>2. PICK pc \in {"posting", "done"} : run' = [run EXCEPT ![r].pc = pc]
  BY <1>1
<1>3. /\ run' \in [Runs -> RunStates] /\ \A q \in Runs : q # r => run'[q] = run[q]
      /\ run'[r].pc = pc /\ run'[r].eval = run[r].eval /\ run'[r].reply = run[r].reply
  BY <1>2, RunTyped DEF RunStates, Pcs
<1>4. \E ev \in evals' : ev.id = run[r].eval
  BY <1>0, <1>1, RunTyped DEF RunOK, Exists
<1>8. /\ run[r].reply.trace_blob_id = run[r].reply.items_hash
      /\ run[r].reply.trace_blob_id \in blobs'
  BY <1>0 DEF VerifyTrace, Archived
<1>5. RunOK(run[r])'
  BY <1>3, <1>4, <1>8 DEF RunOK, Exists, Archived
<1>6. ThreadOK(thread[r])' /\ thread' \in [Runs -> Requests]
  BY <1>0, RequestTyped, RunTyped DEF ThreadOK, Exists
<1>7. PostedSigned' /\ PostedArchived' /\ scores' \subseteq Ledger!AttestedScore
  BY <1>0, RunTyped DEF PostedSigned, PostedArchived, Archived
<1> QED
  BY <1>0, <1>3, <1>5, <1>6, <1>7, RunStepInv

\* A run that ends, whether it has posted or not, and leaves its request be or
\* ends that too.
LEMMA EndInv ==
  ASSUME PipelineInv, NEW r \in Runs, NEW pc \in {"done", "failed"},
         run[r].pc \in {"ready", "waiting", "verifying", "posting"},
         RunExits(r, pc), Grows,
         UNCHANGED <<registryVars, evals, signatures, released, blobs, author, enclaveKey>>,
         UNCHANGED thread \/ thread' = [thread EXCEPT ![r] = NoThread],
         scores' \subseteq Ledger!AttestedScore, PostedSigned', PostedArchived'
  PROVE  PipelineInv'
<1>1. /\ run' \in [Runs -> RunStates] /\ RunOK(run[r])'
      /\ \A q \in Runs : q # r => run'[q] = run[q]
  BY ExitTyped
<1>2. /\ thread' \in [Runs -> Requests]
      /\ \A q \in Runs : q # r => thread'[q] = thread[q]
      /\ thread'[r] = thread[r] \/ thread'[r] = NoThread
  BY RunTyped, NoRequest
<1>3. ThreadOK(thread[r])'
  <2>1. CASE thread'[r] = thread[r]
    BY <2>1, RequestTyped, FactsStay DEF ThreadOK
  <2>2. CASE thread'[r] = NoThread
    BY <2>2, NoRequest DEF ThreadOK, Grading
  <2> QED
    BY <1>2, <2>1, <2>2
<1> QED
  BY <1>1, <1>2, <1>3, RunStepInv

LEMMA EndsInv ==
  ASSUME PipelineInv, NEW r \in Runs,
         \/ Refused(r) \/ ReceiveError(r) \/ TraceUnverified(r)
         \/ PostAborts(r) \/ RunTimesOut(r)
  PROVE  PipelineInv'
<1>1. /\ Grows
      /\ UNCHANGED <<registryVars, evals, scores, signatures, released, blobs, author, enclaveKey>>
  BY RunGrows DEF RunStep, Refused, ReceiveError, TraceUnverified, PostAborts,
     RunTimesOut, chainVars, ledgerVars
<1>2. /\ run[r].pc \in {"ready", "waiting", "verifying", "posting"}
      /\ RunExits(r, "failed")
      /\ UNCHANGED thread \/ thread' = [thread EXCEPT ![r] = NoThread]
  BY DEF Refused, ReceiveError, TraceUnverified, PostAborts, RunTimesOut, RunAt, serverVars
<1>3. PostedSigned' /\ PostedArchived' /\ scores' \subseteq Ledger!AttestedScore
  BY <1>1, RunTyped DEF PostedSigned, PostedArchived, Archived
<1> QED
  BY <1>1, <1>2, <1>3, EndInv

LEMMA PostInv ==
  ASSUME PipelineInv, NEW r \in Runs, Post(r)
  PROVE  PipelineInv'
<1>1. /\ Grows
      /\ UNCHANGED <<registryVars, evals, signatures, released, blobs, author, enclaveKey, thread>>
  BY RunGrows DEF RunStep, Post, serverVars
<1>5. Archived(run[r].reply)
  BY RunTyped DEF RunOK, Post, RunAt
<1>2. PostedSigned' /\ PostedArchived' /\ scores' \subseteq Ledger!AttestedScore
  BY <1>1, <1>5, PostTyped DEF Post
<1>3. PICK pc \in {"done", "failed"} : RunExits(r, pc)
  BY DEF Post
<1>4. run[r].pc = "posting"
  BY DEF Post, RunAt
<1> QED
  BY <1>1, <1>2, <1>3, <1>4, EndInv

LEMMA ByHandInv ==
  ASSUME PipelineInv, NEW r \in Runs, PostByHand(r)
  PROVE  PipelineInv'
<1>1. /\ Grows
      /\ UNCHANGED <<registryVars, evals, signatures, released, blobs, author, enclaveKey,
                     thread, run>>
  BY RunGrows DEF PostByHand, offchainVars
<1>4. Archived(run[r].reply)
  BY RunTyped DEF RunOK, PostByHand
<1>2. PostedSigned' /\ PostedArchived' /\ scores' \subseteq Ledger!AttestedScore
  BY <1>1, <1>4, PostTyped DEF PostByHand
<1>3. ThreadOK(thread[r])' /\ RunOK(run[r])'
  BY <1>1, RequestTyped, RunTyped DEF ThreadOK, RunOK, Exists, Archived
<1> QED
  BY <1>1, <1>2, <1>3, RunTyped, RunStepInv

LEMMA RunInv ==
  ASSUME PipelineInv, NEW r \in Runs, RunStep(r) \/ RunTimesOut(r) \/ PostByHand(r)
  PROVE  PipelineInv'
BY SubmitInv, ReplyInv, VerifyInv, PostInv, EndsInv, ByHandInv DEF RunStep

-----------------------------------------------------------------------------
(* The environment.                                                        *)

\* Threads and runs stay as they are, or threads end; nothing is signed.
LEMMA EnvironmentInv ==
  ASSUME PipelineInv, Grows, EvalsSealed', TypeOK',
         UNCHANGED <<scores, signatures>>,
         \A r \in Runs : thread'[r] = thread[r] \/ thread'[r] = NoThread,
         \A r \in Runs : run'[r] = run[r] \/ RunOK(run[r])'
  PROVE  PipelineInv'
<1>1. ASSUME NEW r \in Runs
      PROVE  ThreadOK(thread[r])'
  <2>1. CASE thread'[r] = thread[r]
    BY <2>1, RequestTyped, FactsStay DEF ThreadOK
  <2>2. CASE thread'[r] = NoThread
    BY <2>2, NoRequest DEF ThreadOK, Grading
  <2> QED
    BY <2>1, <2>2
<1>2. ASSUME NEW r \in Runs
      PROVE  RunOK(run[r])'
  <2>1. CASE run'[r] = run[r]
    BY <2>1, RunTyped, FactsStay DEF RunOK
  <2> QED
    BY <2>1
<1>3. ASSUME NEW m \in ScoreMessages'
      PROVE  ScoreOK(m.payload)'
  BY <1>3, FactsStay DEF ScoreMessages, PipelineInv
<1>4. PostedSigned'
  BY DEF PostedSigned, PipelineInv
<1>5. PostedArchived'
  BY FactsStay DEF PostedArchived, PipelineInv
<1> QED
  BY <1>1, <1>2, <1>3, <1>4, <1>5 DEF PipelineInv

LEMMA StoreInv ==
  ASSUME PipelineInv, NEW s1 \in Sets, NEW s2 \in Sets, NEW m \in Models,
         StoreSet(s1, s2, m)
  PROVE  PipelineInv'
<1> DEFINE c == [identity |-> s1, plaintext |-> s2]
<1> DEFINE a == [ciphertext |-> c, model |-> m]
<1>1. /\ author' = a /\ blobs' = blobs \cup {c}
      /\ UNCHANGED <<registryVars, evals, scores, signatures, released, enclaveKey, thread, run>>
  BY DEF StoreSet, PutBlob, chainVars, ledgerVars, serverVars
<1>2. c \in Ciphertexts
  BY DEF Ciphertexts
<1> HIDE DEF c
<1>3. a \in [ciphertext : Ciphertexts, model : Models]
  BY <1>2
<1> HIDE DEF a
<1>4. Grows
  BY <1>1 DEF Grows, registryVars
<1>5. Ledger!LedgerTypeOK'
  BY <1>1, LedgerTyped DEF PipelineInv, TypeOK, Ledger!LedgerTypeOK
<1>6. TypeOK'
  BY <1>1, <1>2, <1>3, <1>5 DEF PipelineInv, TypeOK
<1>7. EvalsSealed'
  BY <1>1 DEF PipelineInv, EvalsSealed
<1> QED
  BY <1>1, <1>4, <1>6, <1>7, EnvironmentInv

\* The script notarizes what it has stored.
LEMMA NotarizeInv ==
  ASSUME PipelineInv, NEW a \in Accounts, NEW i \in EvalIds, Notarize(a, i)
  PROVE  PipelineInv'
<1> DEFINE c == author.ciphertext
<1> DEFINE new ==
      [id |-> i, author |-> a, sha256_plaintext |-> c.plaintext,
       sha256_ciphertext |-> c, walrus_blob_id |-> c, model_target |-> author.model,
       set_size |-> ItemCount[c.plaintext], revealed |-> FALSE,
       plaintext_blob_id |-> {}]
<1>1. /\ author # None /\ author' = None
      /\ \A ev \in evals : ev.id # i
      /\ evals' = evals \cup {new}
      /\ UNCHANGED <<scores, signatures, released, blobs, enclaveKey, thread, run>>
  BY DEF Notarize, Ledger!CreateEval, Ledger!NotRevealed, serverVars
<1>2. UNCHANGED registryVars
  BY DEF Notarize, Ledger!CreateEval, Ledger!registryVars, registryVars
<1>3. c \in Ciphertexts /\ author.model \in Models
  BY <1>1 DEF PipelineInv, TypeOK
<1>4. c.plaintext \in Sets /\ c \in Content /\ c.plaintext \in Content
  BY <1>3 DEF Ciphertexts, Content
<1>5. ItemCount[c.plaintext] \in 0..MaxItems
  BY <1>4, PipelineAssumption
<1> HIDE DEF c
<1>6. new \in Ledger!SealedEval
  BY <1>3, <1>4, <1>5 DEF Ledger!SealedEval, Ledger!Counts, BlobIds
<1>7. /\ new.id = i /\ new.walrus_blob_id = c /\ new.sha256_plaintext = c.plaintext
      /\ new.set_size = ItemCount[c.plaintext]
  OBVIOUS
<1> HIDE DEF new
<1>8. Ledger!LedgerTypeOK'
  BY <1>1, <1>2, <1>6, LedgerTyped DEF PipelineInv, TypeOK, Ledger!LedgerTypeOK
<1>9. TypeOK'
  BY <1>1, <1>8 DEF PipelineInv, TypeOK
<1>10. EvalsSealed'
  BY <1>1, <1>3, <1>4, <1>7 DEF PipelineInv, EvalsSealed
<1>11. Grows
  BY NotarizeGrows
<1> QED
  BY <1>1, <1>9, <1>10, <1>11, EnvironmentInv

LEMMA StartStopInv ==
  ASSUME PipelineInv,
         AbandonSet \/ StopEnclave \/ \E k \in Keys, p \in Pcrs : StartEnclave(k, p)
  PROVE  PipelineInv'
<1>1. /\ UNCHANGED <<evals, scores, signatures, released, blobs, run>>
      /\ UNCHANGED <<enclaves, usedEnclaveIds>>
      /\ author' \in {author, None}
      /\ enclaveKey' \in {enclaveKey, None} \cup Keys
      /\ UNCHANGED thread \/ thread' = [r \in Runs |-> NoThread]
  BY DEF AbandonSet, StopEnclave, StartEnclave, Ledger!Boot, chainVars, registryVars,
     ledgerVars, serverVars
<1>2. Ledger!RegistryTypeOK'
  <2>1. CASE UNCHANGED registryVars
    BY <2>1 DEF registryVars, PipelineInv, TypeOK, Ledger!LedgerTypeOK, Ledger!RegistryTypeOK
  <2>2. ASSUME NEW k \in Keys, NEW p \in Pcrs, StartEnclave(k, p)
        PROVE  Ledger!RegistryTypeOK'
    <3>1. [public_key |-> k, pcrs |-> p] \in Ledger!NitroAttestationDocument
      BY DEF Ledger!NitroAttestationDocument
    <3> QED
      BY <2>2, <3>1 DEF StartEnclave, Ledger!Boot, PipelineInv, TypeOK, Ledger!LedgerTypeOK,
         Ledger!RegistryTypeOK
  <2> QED
    BY <2>1, <2>2 DEF AbandonSet, StopEnclave, chainVars
<1>3. Ledger!LedgerTypeOK'
  BY <1>1, <1>2 DEF PipelineInv, TypeOK, Ledger!LedgerTypeOK
<1>4. TypeOK'
  BY <1>1, <1>3, NoRequest DEF PipelineInv, TypeOK
<1>5. EvalsSealed'
  BY <1>1 DEF PipelineInv, EvalsSealed
<1>6. Grows
  BY <1>1 DEF Grows
<1> QED
  BY <1>1, <1>4, <1>5, <1>6, EnvironmentInv

LEMMA ChainInv ==
  ASSUME PipelineInv, Ledger!ChainStep, UNCHANGED <<ledgerVars, offchainVars>>
  PROVE  PipelineInv'
<1>1. UNCHANGED <<evals, scores, signatures, released, blobs, author, enclaveKey, thread, run>>
  BY DEF ledgerVars, offchainVars
<1>2. Ledger!LedgerTypeOK'
  BY <1>1, ChainTyped DEF PipelineInv, TypeOK, Ledger!LedgerTypeOK
<1>3. TypeOK'
  BY <1>1, <1>2 DEF PipelineInv, TypeOK
<1>4. EvalsSealed'
  BY <1>1 DEF PipelineInv, EvalsSealed
<1>5. Grows
  BY <1>1, ChainGrows DEF ledgerVars
<1> QED
  BY <1>1, <1>3, <1>4, <1>5, EnvironmentInv

\* A plaintext run starts on the set the eval commits to.
LEMMA StartRunInv ==
  ASSUME PipelineInv, NEW r \in Runs, NEW ev \in evals, NEW sealed \in BOOLEAN,
         NEW execute \in BOOLEAN, StartRun(r, sealed, execute, ev)
  PROVE  PipelineInv'
<1>1. PICK e \in {None} \cup {x.id : x \in enclaves}, s \in {None} \cup Sets :
        /\ s = None <=> sealed
        /\ sealed \/ MatchesCommitment(s, ev)
        /\ run' = [run EXCEPT ![r] =
             [pc |-> "ready", sealed |-> sealed, execute |-> execute,
              eval |-> ev.id, enclave |-> e, set |-> s, reply |-> None]]
  BY DEF StartRun
<1> DEFINE p == [pc |-> "ready", sealed |-> sealed, execute |-> execute,
                 eval |-> ev.id, enclave |-> e, set |-> s, reply |-> None]
<1>2. UNCHANGED <<registryVars, evals, scores, signatures, released, blobs, author,
                  enclaveKey, thread>>
  BY DEF StartRun, chainVars, ledgerVars, serverVars
<1>3. ev.id \in EvalIds /\ e \in EnclaveIds \cup {None}
  BY DEF PipelineInv, TypeOK, Ledger!LedgerTypeOK, Ledger!SealedEval,
     Ledger!RegistryTypeOK, Ledger!Enclave
<1>4. /\ p \in RunStates /\ p.pc = "ready" /\ p.sealed = sealed /\ p.eval = ev.id
      /\ p.set = s /\ p.reply = None
  BY <1>3 DEF RunStates, Pcs
<1>5. run' = [run EXCEPT ![r] = p]
  BY <1>1
<1> HIDE DEF p
<1>6. /\ run' \in [Runs -> RunStates] /\ run'[r] = p
      /\ \A q \in Runs : q # r => run'[q] = run[q]
  BY <1>4, <1>5, RunTyped
<1>7. RunOK(run[r])'
  <2>1. ~sealed => s = ev.sha256_plaintext
    BY <1>1 DEF MatchesCommitment
  <2>2. \A v \in evals' : v.id = ev.id => v = ev
    BY <1>2 DEF PipelineInv, EvalsSealed
  <2>3. \E v \in evals' : v.id = ev.id
    BY <1>2
  <2> QED
    BY <1>4, <1>6, <2>1, <2>2, <2>3 DEF RunOK, Exists
<1>8. Ledger!LedgerTypeOK'
  BY <1>2, LedgerTyped DEF PipelineInv, TypeOK, Ledger!LedgerTypeOK
<1>9. TypeOK'
  BY <1>2, <1>6, <1>8 DEF PipelineInv, TypeOK
<1>10. EvalsSealed'
  BY <1>2 DEF PipelineInv, EvalsSealed
<1>11. Grows
  BY <1>2 DEF Grows, registryVars
<1>12. \A q \in Runs : run'[q] = run[q] \/ RunOK(run[q])'
  BY <1>6, <1>7
<1> QED
  BY <1>2, <1>9, <1>10, <1>11, <1>12, EnvironmentInv

-----------------------------------------------------------------------------
(* The invariant holds throughout.                                         *)

LEMMA PipelineInitInv == Init => PipelineInv
<1> SUFFICES ASSUME Init PROVE PipelineInv
  OBVIOUS
<1>1. Ledger!LedgerTypeOK
  BY PipelineAssumption DEF Init, Ledger!LedgerInit, Ledger!RegistryInit,
     Ledger!LedgerTypeOK, Ledger!RegistryTypeOK
<1>2. evals = {} /\ scores = {} /\ signatures = {} /\ blobs = {}
  BY DEF Init, Ledger!LedgerInit
<1>3. IdleRun \in RunStates /\ IdleRun.pc = "idle" /\ IdleRun.reply = None
  BY DEF IdleRun, Inactive, RunStates, Pcs
<1>4. RunOK(IdleRun)
  BY <1>3 DEF RunOK
<1>5. TypeOK
  BY <1>1, <1>3, NoRequest DEF Init, TypeOK
<1> QED
  BY <1>2, <1>4, <1>5, NoRequest
     DEF Init, PipelineInv, EvalsSealed, ScoreMessages, PostedSigned, PostedArchived

LEMMA PipelineNextInv ==
  ASSUME PipelineInv, [Next]_pipelineVars
  PROVE  PipelineInv'
<1>1. CASE Environment
  BY <1>1, StoreInv, NotarizeInv, StartStopInv, ChainInv, StartRunInv DEF Environment
<1>2. CASE \E r \in Runs : ThreadStep(r) \/ RunStep(r)
  BY <1>2, ThreadInv, RunInv
<1>3. CASE \E r \in Runs : RunTimesOut(r) \/ PostByHand(r)
  BY <1>3, RunInv
<1>4. CASE UNCHANGED pipelineVars
  <2>1. UNCHANGED <<registryVars, evals, scores, signatures, released, blobs, author,
                    enclaveKey, thread, run>>
    BY <1>4 DEF pipelineVars, chainVars, ledgerVars, offchainVars
  <2>2. Ledger!LedgerTypeOK'
    BY <2>1, LedgerTyped DEF PipelineInv, TypeOK, Ledger!LedgerTypeOK
  <2>3. TypeOK'
    BY <2>1, <2>2 DEF PipelineInv, TypeOK
  <2>4. EvalsSealed' /\ Grows
    BY <2>1 DEF PipelineInv, EvalsSealed, Grows, registryVars
  <2> QED
    BY <2>1, <2>3, <2>4, EnvironmentInv
<1> QED
  BY <1>1, <1>2, <1>3, <1>4 DEF Next

LEMMA PipelineInvariance == Spec => []PipelineInv
BY PipelineInitInv, PipelineNextInv, PTL DEF Spec

\* Types: of the chain, of what Walrus stores, of the author's script, of the
\* enclave's threads and of the operators' runs.
THEOREM PipelineTyped == Spec => []TypeOK
<1>1. PipelineInv => TypeOK
  BY DEF PipelineInv
<1> QED
  BY <1>1, PipelineInvariance, PTL

\* Whoever lost interest in it, the enclave only signs a complete grading, of a
\* trace it has archived or names inline; and what is posted, by a run or by
\* hand, names a trace that Walrus has.
THEOREM GradingsComplete == Spec => []SignedScoresComplete
<1>1. PipelineInv => SignedScoresComplete
  BY DEF PipelineInv, SignedScoresComplete, ScoreOK, PostedArchived
<1> QED
  BY <1>1, PipelineInvariance, PTL

\* A posted score is over the set its eval committed to, in its full size --
\* also when people post it, by whatever Enclave object.
THEOREM PostedCommitted == Spec => []PostedOnCommittedSet
<1>1. PipelineInv => PostedOnCommittedSet
  <2> SUFFICES ASSUME PipelineInv, NEW s \in scores
               PROVE  \E ev \in evals :
                        /\ ev.id = s.payload.sealed_eval_id
                        /\ s.payload.items_hash.set = ev.sha256_plaintext
                        /\ s.payload.score_den = ev.set_size
    BY DEF PostedOnCommittedSet
  <2> DEFINE m == [pk |-> s.enclave_pk, intent |-> Ledger!SCORE_INTENT,
                   payload |-> s.payload]
  <2>1. m \in ScoreMessages /\ m.payload = s.payload
    BY DEF PipelineInv, PostedSigned, ScoreMessages
  <2> QED
    BY <2>1 DEF PipelineInv, ScoreOK
<1> QED
  BY <1>1, PipelineInvariance, PTL

-----------------------------------------------------------------------------
(* The pipeline implements the board.                                      *)

Committed == {<<ev.id, ev.sha256_plaintext>> : ev \in evals}
Graded == {GradeOf(m.payload) : m \in ScoreMessages}
Entries == {<<s.id, GradeOf(s.payload)>> : s \in scores}

BoardStep == Board!Next \/ UNCHANGED <<Committed, Graded, Entries>>

LEMMA BoardStutters ==
  ASSUME UNCHANGED <<evals, scores, ScoreMessages>>
  PROVE  BoardStep
BY DEF BoardStep, Committed, Graded, Entries

LEMMA SameMessages ==
  ASSUME UNCHANGED signatures
  PROVE  UNCHANGED ScoreMessages
BY DEF ScoreMessages

LEMMA NotarizeSeals ==
  ASSUME PipelineInv, NEW a \in Accounts, NEW i \in EvalIds, Notarize(a, i)
  PROVE  BoardStep
<1> DEFINE c == author.ciphertext
<1> DEFINE new ==
      [id |-> i, author |-> a, sha256_plaintext |-> c.plaintext,
       sha256_ciphertext |-> c, walrus_blob_id |-> c, model_target |-> author.model,
       set_size |-> ItemCount[c.plaintext], revealed |-> FALSE,
       plaintext_blob_id |-> {}]
<1>1. /\ author # None /\ evals' = evals \cup {new}
      /\ \A ev \in evals : ev.id # i
      /\ UNCHANGED <<scores, signatures>>
  BY DEF Notarize, Ledger!CreateEval, Ledger!NotRevealed
<1>2. new.id = i /\ new.sha256_plaintext = c.plaintext
  OBVIOUS
<1>3. c.plaintext \in Sets
  BY <1>1 DEF PipelineInv, TypeOK, Ciphertexts
<1> HIDE DEF new, c
<1>4. Committed' = Committed \cup {<<i, c.plaintext>>}
  BY <1>1, <1>2 DEF Committed
<1>5. \A k \in Committed : k[1] # i
  BY <1>1 DEF Committed
<1>6. UNCHANGED <<Graded, Entries>>
  BY <1>1, SameMessages DEF Graded, Entries
<1>7. PICK set \in Sets : set = c.plaintext
  BY <1>3
<1>8. Board!Seal(i, set)
  BY <1>4, <1>5, <1>6, <1>7 DEF Board!Seal, Committed, Graded, Entries
<1> QED
  BY <1>8 DEF BoardStep, Board!Next

LEMMA SignGrades ==
  ASSUME PipelineInv, NEW r \in Runs, SignResult(r)
  PROVE  BoardStep
<1> DEFINE p == PayloadOf(r)
<1> DEFINE m == [pk |-> thread[r].pk, intent |-> Ledger!SCORE_INTENT, payload |-> p]
<1>1. signatures' = signatures \cup {m} /\ UNCHANGED <<evals, scores>>
  BY DEF SignResult, Ledger!SignScore, Ledger!Sign
<1>2. p \in Ledger!ScorePayload /\ ScoreOK(p)
  BY PayloadOK DEF SignResult, At
<1> HIDE DEF p
<1>3. m.payload = p /\ m.intent = Ledger!SCORE_INTENT
  OBVIOUS
<1> HIDE DEF m
<1>4. ScoreMessages' = ScoreMessages \cup {m}
  BY <1>1, <1>3 DEF ScoreMessages
<1>5. Graded' = Graded \cup {GradeOf(p)}
  BY <1>3, <1>4 DEF Graded
<1>6. PICK ev \in evals : /\ ev.id = p.sealed_eval_id
                          /\ p.items_hash.set = ev.sha256_plaintext
  BY <1>2 DEF ScoreOK
<1>7. /\ ev.id \in EvalIds /\ ev.sha256_plaintext \in Sets
      /\ p.score_num \in Nat /\ p.score_num <= ItemCount[ev.sha256_plaintext]
      /\ p.score_den = ItemCount[ev.sha256_plaintext]
  BY <1>2, <1>6, PipelineAssumption
     DEF ScoreOK, Ledger!ScorePayload, Ledger!Counts, PipelineInv, EvalsSealed, TypeOK,
         Ledger!LedgerTypeOK, Ledger!SealedEval
<1>8. p.score_num \in 0..ItemCount[ev.sha256_plaintext]
  BY <1>7, PipelineAssumption
<1>9. <<ev.id, ev.sha256_plaintext>> \in Committed /\ UNCHANGED <<Committed, Entries>>
  BY <1>1 DEF Committed, Entries
<1>10. GradeOf(p) = [eval |-> ev.id, set |-> ev.sha256_plaintext, num |-> p.score_num,
                     den |-> ItemCount[ev.sha256_plaintext]]
  BY <1>6, <1>7 DEF GradeOf
<1>11. Board!Grade(ev.id, ev.sha256_plaintext, p.score_num)
  BY <1>5, <1>7, <1>9, <1>10 DEF Board!Grade, Committed, Graded, Entries
<1> QED
  BY <1>7, <1>8, <1>11 DEF BoardStep, Board!Next

LEMMA PostPublishes ==
  ASSUME PipelineInv, NEW r \in Runs, NEW e \in enclaves, SubmitPostScore(r, e)
  PROVE  BoardStep
<1>1. PICK i \in ScoreIds :
         Ledger!PostScore(e, EvalOf(run[r]), i, run[r].reply.score_num,
                          run[r].reply.score_den, run[r].reply.items_hash,
                          run[r].reply.trace_blob_id)
  BY DEF SubmitPostScore
<1> DEFINE payload ==
      [sealed_eval_id |-> EvalOf(run[r]).id, model_target |-> EvalOf(run[r]).model_target,
       score_num |-> run[r].reply.score_num, score_den |-> run[r].reply.score_den,
       items_hash |-> run[r].reply.items_hash,
       trace_blob_id |-> run[r].reply.trace_blob_id]
<1> DEFINE m == [pk |-> e.pk, intent |-> Ledger!SCORE_INTENT, payload |-> payload]
<1> DEFINE score == [id |-> i, payload |-> payload, enclave_pk |-> e.pk]
<1>2. /\ m \in signatures /\ scores' = scores \cup {score}
      /\ \A s \in scores : s.id # i
      /\ UNCHANGED <<evals, signatures>>
  BY <1>1 DEF Ledger!PostScore, Ledger!VerifySignature
<1> HIDE DEF payload
<1>3. score.id = i /\ score.payload = payload /\ m.payload = payload
      /\ m.intent = Ledger!SCORE_INTENT
  OBVIOUS
<1> HIDE DEF score, m
<1>4. GradeOf(payload) \in Graded
  BY <1>2, <1>3 DEF Graded, ScoreMessages
<1>5. Entries' = Entries \cup {<<i, GradeOf(payload)>>}
  BY <1>2, <1>3 DEF Entries
<1>6. \A b \in Entries : b[1] # i
  BY <1>2 DEF Entries
<1>7. UNCHANGED <<Committed, Graded>>
  BY <1>2, SameMessages DEF Committed, Graded
<1>8. PICK g \in Graded : g = GradeOf(payload)
  BY <1>4
<1>9. Board!Publish(i, g)
  BY <1>5, <1>6, <1>7, <1>8 DEF Board!Publish, Committed, Graded, Entries
<1> QED
  BY <1>9 DEF BoardStep, Board!Next, Graded

\* Every step is a step of the board or leaves it as it is.
LEMMA StepOfBoard ==
  ASSUME PipelineInv, [Next]_pipelineVars
  PROVE  BoardStep
<1>1. ASSUME NEW a \in Accounts, NEW i \in EvalIds, Notarize(a, i)
      PROVE  BoardStep
  BY <1>1, NotarizeSeals
<1>2. ASSUME NEW r \in Runs, ThreadStep(r)
      PROVE  BoardStep
  <2>1. CASE SignResult(r)
    BY <2>1, SignGrades
  <2>2. CASE SignApproval(r)
    <3>1. \A m \in signatures' \ signatures : m.intent # Ledger!SCORE_INTENT
      BY <2>2 DEF SignApproval, Ledger!SignSealApproval, Ledger!Sign, Ledger!SEAL_INTENT,
         Ledger!SCORE_INTENT
    <3>2. signatures \subseteq signatures' /\ UNCHANGED <<evals, scores>>
      BY <1>2, ThreadGrows DEF Grows
    <3>3. UNCHANGED ScoreMessages
      BY <3>1, <3>2 DEF ScoreMessages
    <3> QED
      BY <3>2, <3>3, BoardStutters
  <2>3. CASE UNCHANGED signatures
    BY <1>2, <2>3, ThreadGrows, SameMessages, BoardStutters
  <2> QED
    BY <1>2, <2>1, <2>2, <2>3 DEF ThreadStep, LoadCiphertext, FetchAndDecrypt, ScoreItem,
       ArchiveTrace, InlineTrace, LoadFails, FetchFails, ScoreFails, ArchiveFails,
       ThreadExits, Ledger!ReleaseKey, chainVars, ledgerVars
<1>3. ASSUME NEW r \in Runs, RunStep(r) \/ RunTimesOut(r) \/ PostByHand(r)
      PROVE  BoardStep
  <2>1. CASE Post(r) \/ PostByHand(r)
    BY <2>1, PostPublishes DEF Post, PostByHand
  <2>2. CASE UNCHANGED scores
    BY <1>3, <2>2, RunGrows, SameMessages, BoardStutters
  <2> QED
    BY <1>3, <2>1, <2>2 DEF RunStep, Submit, ReceiveReply, VerifyTrace, TraceUnverified,
       Refused, ReceiveError, PostAborts, RunTimesOut, chainVars, ledgerVars
<1>4. CASE UNCHANGED <<evals, scores, signatures>>
  BY <1>4, SameMessages, BoardStutters
<1> QED
  BY <1>1, <1>2, <1>3, <1>4 DEF Next, Environment, StoreSet, AbandonSet, StartEnclave,
     StopEnclave, StartRun, pipelineVars, chainVars, ledgerVars

\* Only grades of committed sets, each over the whole set, ever reach the
\* chain: the pipeline implements the abstract board.
THEOREM PipelineImplementsBoard == Spec => ImplementsBoard
<1>1. Init => Board!Init
  BY DEF Init, Ledger!LedgerInit, Board!Init, ScoreMessages
<1>2. PipelineInv /\ [Next]_pipelineVars => [Board!Next]_(Board!boardVars)
  BY StepOfBoard DEF BoardStep, Board!boardVars, Committed, Graded, Entries
<1> QED
  BY <1>1, <1>2, PipelineInvariance, PTL DEF Spec, ImplementsBoard, Board!Spec

-----------------------------------------------------------------------------
(* Runs that post for themselves, and nobody by hand: the key was released *)
(* to the very enclave whose key the posted score is verified under.       *)

EnclaveIdsUsed ==
  /\ \A e \in enclaves : e.id \in usedEnclaveIds
  /\ \A e1, e2 \in enclaves : e1.id = e2.id => e1 = e2

\* The key of `set` was released to whoever registered that Enclave object.
ReleasedTo(set, enclave) ==
  /\ enclave \in usedEnclaveIds
  /\ \E rel \in released :
       /\ rel.id = set
       /\ \A e \in enclaves : e.id = enclave => e.pk = rel.pk

WellSealed(id) ==
  \A ev \in evals : ev.id = id =>
     ev.walrus_blob_id.identity = ev.walrus_blob_id.plaintext

\* A sealed run and its request agree on the eval and the Enclave object; once
\* the set is decrypted its key was released to that object's enclave.
ReleaseOK(t, p) ==
  /\ p.pc \in {"ready", "waiting", "verifying", "posting"} /\ p.execute => p.sealed
  /\ p.pc = "posting" => p.execute
  /\ p.pc = "waiting" /\ p.sealed /\ t.stage # "none" =>
       /\ t.eval = p.eval /\ t.enclave = p.enclave
       /\ t.stage \in Grading => ReleasedTo(t.input, p.enclave) /\ WellSealed(p.eval)
  /\ p.pc \in {"verifying", "posting"} /\ p.sealed =>
       ReleasedTo(p.reply.items_hash.set, p.enclave) /\ WellSealed(p.eval)

ReleaseInv ==
  /\ EnclaveIdsUsed
  /\ \A r \in Runs : ReleaseOK(thread[r], run[r])
  /\ PostedAfterRelease
  /\ MisSealedNeverPosted

LEMMA EnclaveIdsStep ==
  ASSUME EnclaveIdsUsed, [Next]_pipelineVars
  PROVE  EnclaveIdsUsed'
<1>1. CASE UNCHANGED <<enclaves, usedEnclaveIds>>
  BY <1>1 DEF EnclaveIdsUsed
<1>2. CASE Ledger!ChainStep
  <2>1. ASSUME NEW a \in Accounts, NEW c \in configs, NEW d \in documents,
               NEW i \in EnclaveIds, Ledger!RegisterEnclave(a, c, d, i)
        PROVE  EnclaveIdsUsed'
    <3>1. Ledger!NewEnclave(a, c, d, i).id = i
      BY DEF Ledger!NewEnclave
    <3> QED
      BY <2>1, <3>1 DEF Ledger!RegisterEnclave, EnclaveIdsUsed
  <2>2. CASE enclaves' \subseteq enclaves /\ UNCHANGED usedEnclaveIds
    BY <2>2 DEF EnclaveIdsUsed
  <2> QED
    BY <1>2, <2>1, <2>2 DEF Ledger!ChainStep, Ledger!TransferCap,
       Ledger!CreateEnclaveConfig, Ledger!UpdatePcrs, Ledger!UpdateName,
       Ledger!DestroyOldEnclave, Ledger!DestroyEnclaveByOwner
<1>3. ASSUME NEW a, NEW i, Notarize(a, i)
      PROVE  UNCHANGED <<enclaves, usedEnclaveIds>>
  BY <1>3 DEF Notarize, Ledger!CreateEval, Ledger!registryVars
<1>4. ASSUME NEW k, NEW p, StartEnclave(k, p)
      PROVE  UNCHANGED <<enclaves, usedEnclaveIds>>
  BY <1>4 DEF StartEnclave, Ledger!Boot
<1> QED
  BY <1>1, <1>2, <1>3, <1>4, ThreadGrows, RunGrows
     DEF Next, Environment, StoreSet, AbandonSet, StopEnclave, StartRun, pipelineVars,
         chainVars, registryVars

LEMMA NextGrows ==
  ASSUME [Next]_pipelineVars
  PROVE  Grows
<1>1. CASE UNCHANGED <<evals, signatures, released, enclaves, usedEnclaveIds>>
             /\ blobs \subseteq blobs'
  BY <1>1 DEF Grows
<1>2. ASSUME NEW k, NEW p, StartEnclave(k, p)
      PROVE  UNCHANGED <<evals, signatures, released, enclaves, usedEnclaveIds, blobs>>
  BY <1>2 DEF StartEnclave, Ledger!Boot, ledgerVars
<1> QED
  BY <1>1, <1>2, ChainGrows, NotarizeGrows, ThreadGrows, RunGrows
     DEF Next, Environment, StoreSet, PutBlob, AbandonSet, StopEnclave, StartRun,
         pipelineVars, chainVars, offchainVars, registryVars, ledgerVars

\* A release, and an eval's sealing, are never undone.
LEMMA ReleaseStays ==
  ASSUME Grows, NEW set, NEW enclave, NEW id
  PROVE  /\ ReleasedTo(set, enclave) => ReleasedTo(set, enclave)'
         /\ Exists(id) /\ WellSealed(id) => WellSealed(id)'
<1>1. ASSUME ReleasedTo(set, enclave)
      PROVE  ReleasedTo(set, enclave)'
  BY <1>1 DEF ReleasedTo, Grows
<1>2. ASSUME Exists(id), WellSealed(id)
      PROVE  WellSealed(id)'
  BY <1>2 DEF Exists, WellSealed, Grows
<1> QED
  BY <1>1, <1>2

LEMMA ReleaseOKStays ==
  ASSUME Grows, NEW t, NEW p, RunOK(p), ReleaseOK(t, p)
  PROVE  ReleaseOK(t, p)'
BY ReleaseStays DEF ReleaseOK, RunOK

\* What a step does to its own request: it ends it, decrypts a well-sealed set
\* under a key just released, or goes on with the same input.
LEMMA OwnRequest ==
  ASSUME PipelineInv, NEW r \in Runs, ThreadStep(r)
  PROVE  \/ thread'[r].stage = "none"
         \/ /\ thread'[r].eval = thread[r].eval
            /\ thread'[r].enclave = thread[r].enclave
            /\ thread[r].stage # "none"
            /\ \/ thread'[r].stage \notin Grading
               \/ thread[r].stage \in Grading /\ thread'[r].input = thread[r].input
               \/ /\ FetchAndDecrypt(r)
                  /\ IdentityOK(thread[r].input)
                  /\ thread'[r].input = thread[r].input.plaintext
<1> DEFINE t == thread[r]
<1> DEFINE Kept == thread'[r].eval = t.eval /\ thread'[r].enclave = t.enclave
<1>1. CASE LoadCiphertext(r)
  <2>1. PICK c \in BlobFor(r) : GoesOn(r, "approve", c)
    BY <1>1 DEF LoadCiphertext, GoesOn
  <2>2. PICK ev \in evals : ev.id = t.eval
    BY <1>1, RequestTyped DEF LoadCiphertext, At, ThreadOK, Exists
  <2>3. c \in Ciphertexts /\ "approve" \in Stages
    BY <2>2, EvalOfIs DEF BlobFor, PipelineInv, EvalsSealed, Stages
  <2>4. Kept /\ thread'[r].stage = "approve"
    BY <2>1, <2>3, Reloaded
  <2> QED
    BY <1>1, <2>4 DEF LoadCiphertext, At, Grading
<1>2. CASE SignApproval(r)
  BY <1>2, Restaged DEF SignApproval, At, Stages, Grading
<1>3. CASE FetchAndDecrypt(r) /\ IdentityOK(t.input)
  <2>1. GoesOn(r, "score", t.input.plaintext)
    BY <1>3 DEF FetchAndDecrypt, GoesOn
  <2>2. PICK ev \in evals : ev.id = t.eval
    BY <1>3, RequestTyped DEF FetchAndDecrypt, At, ThreadOK, Exists
  <2>3. t.input \in Ciphertexts
    BY <1>3, <2>2, RequestTyped DEF FetchAndDecrypt, At, ThreadOK, PipelineInv, EvalsSealed
  <2>4. t.input.plaintext \in Sets /\ "score" \in Stages
    BY <2>3 DEF Ciphertexts, Stages
  <2>5. Kept /\ thread'[r].input = t.input.plaintext
    BY <2>1, <2>4, Reloaded
  <2> QED
    BY <1>3, <2>5 DEF FetchAndDecrypt, At
<1>4. CASE FetchAndDecrypt(r) /\ ~IdentityOK(t.input)
  <2>1. thread' = [thread EXCEPT ![r].stage = "error"]
    BY <1>4 DEF FetchAndDecrypt
  <2>2. Kept /\ thread'[r].stage = "error"
    BY <2>1, Restaged DEF Stages
  <2> QED
    BY <1>4, <2>2 DEF FetchAndDecrypt, At, Grading
<1>5. ASSUME NEW correct \in BOOLEAN, ScoreItem(r, correct)
      PROVE  Kept /\ thread'[r].input = t.input /\ t.stage = "score"
  <2> DEFINE more == IF correct THEN t.num + 1 ELSE t.num
  <2> DEFINE t1 == [t EXCEPT !.done = t.done + 1]
  <2> DEFINE t2 == [t1 EXCEPT !.num = more]
  <2>1. DOMAIN t1 = DOMAIN t /\ t1.eval = t.eval /\ t1.enclave = t.enclave /\ t1.input = t.input
    BY RequestTyped DEF Requests
  <2>2. thread' = [thread EXCEPT ![r] = t2] /\ r \in DOMAIN thread
    BY <1>5, RunTyped DEF ScoreItem
  <2> HIDE DEF more, t1
  <2>3. t2.eval = t1.eval /\ t2.enclave = t1.enclave /\ t2.input = t1.input
    BY <2>1, RequestTyped DEF Requests
  <2> HIDE DEF t2
  <2>4. thread'[r] = t2
    BY <2>2
  <2> QED
    BY <1>5, <2>1, <2>3, <2>4 DEF ScoreItem, At
<1>6. CASE ArchiveTrace(r)
  <2>1. PICK stage \in {"sign", "error"} : thread' = [thread EXCEPT ![r].stage = stage]
    BY <1>6 DEF ArchiveTrace
  <2>2. Kept /\ thread'[r].input = t.input
    BY <2>1, Restaged DEF Stages
  <2> QED
    BY <1>6, <2>2 DEF ArchiveTrace, At, Grading
<1>7. CASE SignResult(r) \/ InlineTrace(r)
  BY <1>7, Restaged DEF SignResult, InlineTrace, At, Stages, Grading
<1>8. CASE LoadFails(r) \/ FetchFails(r) \/ ScoreFails(r) \/ ArchiveFails(r)
  <2>1. thread' = [thread EXCEPT ![r].stage = "error"] /\ t.stage # "none"
    BY <1>8 DEF LoadFails, FetchFails, ScoreFails, ArchiveFails, ThreadErrs, At
  <2>2. Kept /\ thread'[r].stage = "error"
    BY <2>1, Restaged DEF Stages
  <2> QED
    BY <2>1, <2>2 DEF Grading
<1>9. CASE ThreadExits(r)
  <2>1. thread' = [thread EXCEPT ![r] = NoThread] /\ r \in DOMAIN thread
    BY <1>9, RunTyped DEF ThreadExits
  <2> QED
    BY <2>1, NoRequest
<1> QED
  BY <1>1, <1>2, <1>3, <1>4, <1>5, <1>6, <1>7, <1>8, <1>9 DEF ThreadStep, Grading

\* The key servers release a key to the key of the object the request names.
LEMMA FetchReleases ==
  ASSUME PipelineInv, EnclaveIdsUsed, NEW r \in Runs, FetchAndDecrypt(r),
         IdentityOK(thread[r].input),
         NEW set, set = thread[r].input.plaintext,
         NEW enclave, enclave = thread[r].enclave, NEW id, id = thread[r].eval
  PROVE  ReleasedTo(set, enclave)' /\ WellSealed(id)'
<1> DEFINE c == thread[r].input
<1>1. PICK e \in enclaves : e.id = enclave /\ Ledger!ReleaseKey(e, c.identity)
  BY DEF FetchAndDecrypt
<1>2. /\ released' = released \cup {[id |-> c.identity, pk |-> e.pk]}
      /\ UNCHANGED <<registryVars, evals>>
  BY <1>1, ThreadGrows DEF Ledger!ReleaseKey, ThreadStep
<1>3. c.identity = set
  BY DEF IdentityOK
<1>4. ReleasedTo(set, enclave)'
  <2>1. \A x \in enclaves : x.id = enclave => x.pk = e.pk
    BY <1>1 DEF EnclaveIdsUsed
  <2>2. enclave \in usedEnclaveIds
    BY <1>1 DEF EnclaveIdsUsed
  <2>3. [id |-> set, pk |-> e.pk] \in released'
    BY <1>2, <1>3
  <2> QED
    BY <1>2, <2>1, <2>2, <2>3 DEF ReleasedTo, registryVars
<1>5. \A ev \in evals : ev.id = id => c = ev.walrus_blob_id
  BY RequestTyped DEF FetchAndDecrypt, At, ThreadOK
<1>6. WellSealed(id)'
  BY <1>2, <1>3, <1>5 DEF WellSealed
<1> QED
  BY <1>4, <1>6

LEMMA ThreadReleaseOK ==
  ASSUME PipelineInv, ReleaseInv, NEW r \in Runs, ThreadStep(r)
  PROVE  ReleaseOK(thread[r], run[r])'
<1>1. Grows /\ run' = run /\ UNCHANGED <<registryVars, evals>>
  BY ThreadGrows
<1>2. RunOK(run[r]) /\ ReleaseOK(thread[r], run[r])
  BY RunTyped DEF ReleaseInv
<1>3. ReleaseOK(thread[r], run[r]) /\ RunOK(run[r]) /\ thread'[r] = thread[r]
        => ReleaseOK(thread[r], run[r])'
  BY <1>1, ReleaseOKStays DEF ReleaseOK
<1> DEFINE p == run[r]
<1>4. CASE p.pc = "waiting" /\ p.sealed /\ thread'[r].stage # "none"
  <2>1. /\ thread'[r].eval = thread[r].eval /\ thread'[r].enclave = thread[r].enclave
        /\ thread[r].stage # "none"
    BY <1>4, OwnRequest
  <2>2. thread[r].eval = p.eval /\ thread[r].enclave = p.enclave
    BY <1>2, <1>4, <2>1 DEF ReleaseOK
  <2>3. PICK set, enclave, id :
           set = thread'[r].input /\ enclave = p.enclave /\ id = p.eval
    OBVIOUS
  <2>4. ASSUME thread[r].stage \in Grading, thread'[r].input = thread[r].input
        PROVE  ReleasedTo(set, enclave)' /\ WellSealed(id)'
    <3>1. ReleasedTo(set, enclave) /\ WellSealed(id) /\ Exists(id)
      BY <1>2, <1>4, <2>1, <2>3, <2>4 DEF ReleaseOK, RunOK
    <3> QED
      BY <1>1, <3>1, ReleaseStays
  <2>5. ASSUME FetchAndDecrypt(r), IdentityOK(thread[r].input),
               thread'[r].input = thread[r].input.plaintext
        PROVE  ReleasedTo(set, enclave)' /\ WellSealed(id)'
    <3>1. set = thread[r].input.plaintext /\ enclave = thread[r].enclave
            /\ id = thread[r].eval
      BY <2>2, <2>3, <2>5
    <3> QED
      BY <2>5, <3>1, FetchReleases DEF ReleaseInv
  <2>6. thread'[r].stage \in Grading => ReleasedTo(set, enclave)' /\ WellSealed(id)'
    BY <1>4, <2>4, <2>5, OwnRequest
  <2>7. thread'[r].stage \in Grading =>
          ReleasedTo(thread[r].input, run[r].enclave)' /\ WellSealed(run[r].eval)'
    BY <1>1, <2>3, <2>6 DEF ReleasedTo, WellSealed
  <2> QED
    BY <1>1, <1>2, <1>4, <2>1, <2>2, <2>7 DEF ReleaseOK
<1>5. CASE ~(p.pc = "waiting" /\ p.sealed /\ thread'[r].stage # "none")
  <2>1. CASE p.pc \in {"verifying", "posting"} /\ p.sealed
    <3>1. PICK set, enclave, id :
             set = p.reply.items_hash.set /\ enclave = p.enclave /\ id = p.eval
      OBVIOUS
    <3>2. ReleasedTo(set, enclave) /\ WellSealed(id) /\ Exists(id)
      BY <1>2, <2>1, <3>1 DEF ReleaseOK, RunOK
    <3>3. ReleasedTo(set, enclave)' /\ WellSealed(id)'
      BY <1>1, <3>2, ReleaseStays
    <3> QED
      BY <1>1, <1>2, <2>1, <3>1, <3>3 DEF ReleaseOK, ReleasedTo, WellSealed
  <2>2. CASE ~(p.pc \in {"verifying", "posting"} /\ p.sealed)
    BY <1>1, <1>2, <1>5, <2>2 DEF ReleaseOK
  <2> QED
    BY <2>1, <2>2
<1> QED
  BY <1>4, <1>5

\* A run that ends or idles is asked nothing.
LEMMA EndedOK ==
  ASSUME NEW r \in Runs, run'[r].pc \in {"idle", "done", "failed"},
         run'[r].execute = FALSE
  PROVE  ReleaseOK(thread[r], run[r])'
BY DEF ReleaseOK

\* The set the reply is over is the one its request decrypted.
LEMMA ReplyReleaseOK ==
  ASSUME PipelineInv, ReleaseInv, NEW r \in Runs, ReceiveReply(r)
  PROVE  ReleaseOK(thread[r], run[r])'
<1>1. /\ Grows /\ run[r] \in RunStates /\ RunOK(run[r]) /\ ReleaseOK(thread[r], run[r])
      /\ run[r].pc = "waiting" /\ thread[r].stage = "replied"
  BY RunGrows, RunTyped DEF RunStep, ReceiveReply, RunAt, At, ReleaseInv
<1> DEFINE p == run[r]
<1> DEFINE payload == PayloadOf(r)
<1> DEFINE p1 == [p EXCEPT !.pc = "verifying"]
<1> DEFINE p2 == [p1 EXCEPT !.reply = payload]
<1>2. run' = [run EXCEPT ![r] = p2] /\ r \in DOMAIN run
  BY RunTyped DEF ReceiveReply
<1>3. payload.items_hash.set = thread[r].input
  BY DEF PayloadOf, TraceOf
<1>4. /\ DOMAIN p1 = DOMAIN p /\ p1.pc = "verifying" /\ p1.eval = p.eval
      /\ p1.enclave = p.enclave /\ p1.sealed = p.sealed /\ p1.execute = p.execute
  BY <1>1 DEF RunStates
<1> HIDE DEF payload, p1
<1>5. /\ p2.pc = "verifying" /\ p2.eval = p.eval /\ p2.enclave = p.enclave
      /\ p2.sealed = p.sealed /\ p2.execute = p.execute /\ p2.reply = payload
  BY <1>1, <1>4 DEF RunStates
<1> HIDE DEF p2
<1>6. run'[r] = p2
  BY <1>2
<1>7. PICK set, enclave, id : set = thread[r].input /\ enclave = p.enclave /\ id = p.eval
  OBVIOUS
<1>8. ASSUME p.sealed
      PROVE  ReleasedTo(set, enclave)' /\ WellSealed(id)'
  <2>1. ReleasedTo(set, enclave) /\ WellSealed(id) /\ Exists(id)
    BY <1>1, <1>7, <1>8 DEF ReleaseOK, RunOK, Grading
  <2> QED
    BY <1>1, <2>1, ReleaseStays
<1>9. set = run'[r].reply.items_hash.set /\ enclave = run'[r].enclave /\ id = run'[r].eval
  BY <1>3, <1>5, <1>6, <1>7
<1>10. p.sealed => /\ ReleasedTo(run[r].reply.items_hash.set, run[r].enclave)'
                   /\ WellSealed(run[r].eval)'
  BY <1>8, <1>9 DEF ReleasedTo, WellSealed
<1>11. p.execute => p.sealed
  BY <1>1 DEF ReleaseOK
<1> QED
  BY <1>5, <1>6, <1>10, <1>11 DEF ReleaseOK

\* A run whose request is let be keeps what it knows.
LEMMA VerifyReleaseOK ==
  ASSUME PipelineInv, ReleaseInv, NEW r \in Runs, VerifyTrace(r)
  PROVE  ReleaseOK(thread[r], run[r])'
<1>1. /\ Grows /\ run[r] \in RunStates /\ RunOK(run[r]) /\ ReleaseOK(thread[r], run[r])
      /\ run[r].pc = "verifying"
  BY RunGrows, RunTyped DEF RunStep, VerifyTrace, RunAt, ReleaseInv
<1>2. PICK pc \in {"posting", "done"} :
        /\ run' = [run EXCEPT ![r].pc = pc]
        /\ pc = "posting" => run[r].execute
  BY DEF VerifyTrace, RunGoes
<1>3. /\ run'[r].pc = pc /\ run'[r].eval = run[r].eval /\ run'[r].reply = run[r].reply
      /\ run'[r].enclave = run[r].enclave /\ run'[r].sealed = run[r].sealed
      /\ run'[r].execute = run[r].execute
  BY <1>2, RunTyped DEF RunStates
<1>4. PICK set, enclave, id : /\ set = run[r].reply.items_hash.set
                              /\ enclave = run[r].enclave /\ id = run[r].eval
  OBVIOUS
<1>5. ASSUME run[r].sealed
      PROVE  ReleasedTo(set, enclave)' /\ WellSealed(id)'
  <2>1. ReleasedTo(set, enclave) /\ WellSealed(id) /\ Exists(id)
    BY <1>1, <1>4, <1>5 DEF ReleaseOK, RunOK
  <2> QED
    BY <1>1, <2>1, ReleaseStays
<1>6. set = run'[r].reply.items_hash.set /\ enclave = run'[r].enclave /\ id = run'[r].eval
  BY <1>3, <1>4
<1>7. run[r].sealed => /\ ReleasedTo(run[r].reply.items_hash.set, run[r].enclave)'
                       /\ WellSealed(run[r].eval)'
  BY <1>5, <1>6 DEF ReleasedTo, WellSealed
<1>8. run[r].execute => run[r].sealed
  BY <1>1 DEF ReleaseOK
<1> QED
  BY <1>2, <1>3, <1>7, <1>8 DEF ReleaseOK

LEMMA RunReleaseOK ==
  ASSUME PipelineInv, ReleaseInv, NEW r \in Runs, RunStep(r) \/ RunTimesOut(r)
  PROVE  ReleaseOK(thread[r], run[r])'
<1>1. CASE Submit(r)
  <2>p. PICK publisher \in BOOLEAN :
           thread' = [thread EXCEPT ![r] =
             Request(IF run[r].sealed THEN "load" ELSE "score", enclaveKey,
                     run[r].eval, run[r].enclave, run[r].set, publisher)]
    BY <1>1 DEF Submit
  <2> DEFINE t == Request(IF run[r].sealed THEN "load" ELSE "score", enclaveKey,
                          run[r].eval, run[r].enclave, run[r].set, publisher)
  <2>1. thread' = [thread EXCEPT ![r] = t] /\ run' = [run EXCEPT ![r].pc = "waiting"]
    BY <1>1, <2>p DEF Submit, RunGoes
  <2>2. /\ t.stage = (IF run[r].sealed THEN "load" ELSE "score")
        /\ t.eval = run[r].eval /\ t.enclave = run[r].enclave
    BY DEF Request
  <2> HIDE DEF t
  <2>3. thread'[r] = t
    BY <2>1, RunTyped
  <2>4. /\ run'[r].pc = "waiting" /\ run'[r].eval = run[r].eval
        /\ run'[r].enclave = run[r].enclave /\ run'[r].sealed = run[r].sealed
        /\ run'[r].execute = run[r].execute
    BY <2>1, RunTyped DEF RunStates
  <2>5. run[r].execute => run[r].sealed
    BY <1>1 DEF ReleaseInv, ReleaseOK, Submit, RunAt
  <2> QED
    BY <2>2, <2>3, <2>4, <2>5 DEF ReleaseOK, Grading
<1>2. ASSUME NEW pc \in {"done", "failed"}, RunExits(r, pc)
      PROVE  ReleaseOK(thread[r], run[r])'
  <2>1. \E eval, reply : run' = [run EXCEPT ![r] = Inactive(pc, eval, reply)]
    <3>1. CASE Printed(r)
      BY <1>2, <3>1 DEF RunExits
    <3>2. CASE ~Printed(r)
      BY <1>2, <3>2 DEF RunExits
    <3> QED
      BY <3>1, <3>2
  <2>2. run'[r].pc = pc /\ run'[r].execute = FALSE
    BY <2>1, RunTyped DEF Inactive
  <2> QED
    BY <2>2, EndedOK
<1> QED
  BY <1>1, <1>2, ReplyReleaseOK, VerifyReleaseOK
     DEF RunStep, Post, Refused, ReceiveError, TraceUnverified, PostAborts, RunTimesOut

\* What a run posts itself was graded under the key of the object it names.
LEMMA PostReleased ==
  ASSUME PipelineInv, ReleaseInv, NEW r \in Runs, Post(r)
  PROVE  PostedAfterRelease' /\ MisSealedNeverPosted'
<1> DEFINE p == run[r]
<1>1. /\ UNCHANGED <<evals, released>> /\ RunOK(p) /\ ReleaseOK(thread[r], p)
      /\ p.pc = "posting"
  BY RunGrows, RunTyped DEF RunStep, Post, RunAt, ReleaseInv
<1>2. ReleasedTo(p.reply.items_hash.set, p.enclave) /\ WellSealed(p.eval)
  BY <1>1 DEF ReleaseOK
<1>3. PICK e \in enclaves : e.id = p.enclave /\ SubmitPostScore(r, e)
  BY DEF Post
<1>4. PICK i \in ScoreIds :
         Ledger!PostScore(e, EvalOf(p), i, p.reply.score_num, p.reply.score_den,
                          p.reply.items_hash, p.reply.trace_blob_id)
  BY <1>3 DEF SubmitPostScore
<1>5. PICK ev \in evals : ev.id = p.eval
  BY <1>1 DEF RunOK, Exists
<1>6. EvalOf(p).id = p.eval
  BY <1>5, EvalOfIs DEF PipelineInv
<1> DEFINE payload ==
      [sealed_eval_id |-> EvalOf(p).id, model_target |-> EvalOf(p).model_target,
       score_num |-> p.reply.score_num, score_den |-> p.reply.score_den,
       items_hash |-> p.reply.items_hash, trace_blob_id |-> p.reply.trace_blob_id]
<1> DEFINE score == [id |-> i, payload |-> payload, enclave_pk |-> e.pk]
<1>7. scores' = scores \cup {score}
  BY <1>4 DEF Ledger!PostScore
<1>8. /\ score.payload.sealed_eval_id = p.eval
      /\ score.payload.items_hash = p.reply.items_hash /\ score.enclave_pk = e.pk
  BY <1>6
<1> HIDE DEF payload, score
<1>9. [id |-> score.payload.items_hash.set, pk |-> score.enclave_pk] \in released
  <2>1. PICK rel \in released : rel.id = p.reply.items_hash.set /\ rel.pk = e.pk
    BY <1>2, <1>3 DEF ReleasedTo
  <2>2. rel = [id |-> rel.id, pk |-> rel.pk]
    BY <2>1 DEF PipelineInv, TypeOK, Ledger!LedgerTypeOK
  <2> QED
    BY <1>8, <2>1, <2>2
<1>10. PostedAfterRelease'
  BY <1>1, <1>7, <1>9 DEF ReleaseInv, PostedAfterRelease
<1>11. MisSealedNeverPosted'
  BY <1>1, <1>2, <1>7, <1>8 DEF ReleaseInv, MisSealedNeverPosted, WellSealed
<1> QED
  BY <1>10, <1>11

\* Without a new score: keys stay released, and a new eval has no scores yet.
LEMMA PostedStays ==
  ASSUME PipelineInv, ReleaseInv, Grows, UNCHANGED scores
  PROVE  PostedAfterRelease' /\ MisSealedNeverPosted'
<1>1. PostedAfterRelease'
  BY DEF ReleaseInv, PostedAfterRelease, Grows
<1>2. ASSUME NEW s \in scores
      PROVE  Exists(s.payload.sealed_eval_id)
  <2> DEFINE m == [pk |-> s.enclave_pk, intent |-> Ledger!SCORE_INTENT,
                   payload |-> s.payload]
  <2>1. m \in ScoreMessages /\ m.payload = s.payload
    BY DEF PipelineInv, PostedSigned, ScoreMessages
  <2> QED
    BY <2>1 DEF PipelineInv, ScoreOK, Exists
<1>3. MisSealedNeverPosted'
  BY <1>2 DEF ReleaseInv, MisSealedNeverPosted, Grows, Exists
<1> QED
  BY <1>1, <1>3

\* The environment starts a run, or ends threads, and no more.
LEMMA EnvironmentReleaseOK ==
  ASSUME PipelineInv, ReleaseInv, Environment, NEW r \in Runs
  PROVE  ReleaseOK(thread[r], run[r])'
<1>1. Grows /\ RunOK(run[r]) /\ ReleaseOK(thread[r], run[r])
  BY NextGrows, RunTyped DEF Next, ReleaseInv
<1>2. CASE UNCHANGED <<thread, run>>
  BY <1>1, <1>2, ReleaseOKStays DEF ReleaseOK
<1>3. CASE StopEnclave
  <2>1. ReleaseOK(NoThread, run[r])
    BY <1>1, NoRequest DEF ReleaseOK
  <2>2. thread'[r] = NoThread /\ run' = run
    BY <1>3 DEF StopEnclave
  <2> QED
    BY <1>1, <2>1, <2>2, ReleaseOKStays DEF ReleaseOK
<1>4. ASSUME NEW q \in Runs, NEW ev \in evals, NEW sealed \in BOOLEAN,
             NEW execute \in BOOLEAN, StartRun(q, sealed, execute, ev)
      PROVE  ReleaseOK(thread[r], run[r])'
  <2>1. PICK e, s :
          run' = [run EXCEPT ![q] =
             [pc |-> "ready", sealed |-> sealed, execute |-> execute,
              eval |-> ev.id, enclave |-> e, set |-> s, reply |-> None]]
    BY <1>4 DEF StartRun
  <2>2. UNCHANGED thread /\ (execute => sealed)
    BY <1>4 DEF StartRun, serverVars, ModeOK
  <2>3. CASE q = r
    <3>1. /\ run'[r].pc = "ready" /\ run'[r].sealed = sealed
          /\ run'[r].execute = execute
      BY <2>1, <2>3, RunTyped
    <3> QED
      BY <2>2, <3>1 DEF ReleaseOK
  <2>4. CASE q # r
    <3>1. run'[r] = run[r]
      BY <2>1, <2>4, RunTyped
    <3> QED
      BY <1>1, <2>2, <3>1, ReleaseOKStays DEF ReleaseOK
  <2> QED
    BY <2>3, <2>4
<1> QED
  BY <1>2, <1>3, <1>4 DEF Environment, StoreSet, Notarize, AbandonSet, StartEnclave,
     serverVars, offchainVars

\* A request and a run are moved by their own steps only.
LEMMA OthersStay ==
  ASSUME PipelineInv, NEW q \in Runs, NEW r \in Runs, r # q,
         ThreadStep(r) \/ RunStep(r) \/ RunTimesOut(r)
  PROVE  UNCHANGED <<thread[q], run[q]>>
<1>1. thread \in [Runs -> Requests] /\ run \in [Runs -> RunStates]
  BY DEF PipelineInv, TypeOK
<1>2. CASE ThreadStep(r)
  BY <1>1, <1>2 DEF ThreadStep, LoadCiphertext, SignApproval, FetchAndDecrypt, ScoreItem,
     ArchiveTrace, InlineTrace, SignResult, LoadFails, FetchFails, ScoreFails,
     ArchiveFails, ThreadErrs, ThreadExits
<1>3. CASE RunStep(r) \/ RunTimesOut(r)
  BY <1>1, <1>3 DEF RunStep, Submit, ReceiveReply, VerifyTrace, TraceUnverified, Post,
     Refused, ReceiveError, PostAborts, RunTimesOut, RunGoes, RunExits, serverVars
<1> QED
  BY <1>2, <1>3

LEMMA ReleaseNextInv ==
  ASSUME HandPosting = FALSE, PipelineInv, ReleaseInv, [Next]_pipelineVars
  PROVE  ReleaseInv'
<1>1. Grows /\ EnclaveIdsUsed'
  BY NextGrows, EnclaveIdsStep DEF ReleaseInv
<1>2. PostedAfterRelease' /\ MisSealedNeverPosted'
  <2>1. CASE UNCHANGED scores
    BY <1>1, <2>1, PostedStays
  <2>2. ASSUME NEW r \in Runs, ThreadStep(r)
        PROVE  UNCHANGED scores
    BY <2>2, ThreadGrows
  <2>3. ASSUME NEW r \in Runs, RunStep(r), ~Post(r)
        PROVE  UNCHANGED scores
    BY <2>3 DEF RunStep, Submit, ReceiveReply, VerifyTrace, TraceUnverified, Refused,
       ReceiveError, PostAborts, chainVars, ledgerVars
  <2>4. ASSUME NEW r \in Runs, RunTimesOut(r) \/ PostByHand(r)
        PROVE  UNCHANGED scores
    BY <2>4 DEF RunTimesOut, PostByHand, chainVars, ledgerVars
  <2>5. ASSUME Environment \/ UNCHANGED pipelineVars
        PROVE  UNCHANGED scores
    BY <2>5 DEF Environment, StoreSet, Notarize, AbandonSet, StartEnclave, StopEnclave,
       StartRun, Ledger!CreateEval, chainVars, ledgerVars, pipelineVars
  <2> QED
    BY <2>1, <2>2, <2>3, <2>4, <2>5, PostReleased DEF Next
<1>3. ASSUME NEW q \in Runs
      PROVE  ReleaseOK(thread[q], run[q])'
  <2>1. CASE UNCHANGED <<thread[q], run[q]>>
    <3>1. RunOK(run[q]) /\ ReleaseOK(thread[q], run[q])
      BY RunTyped DEF ReleaseInv
    <3> QED
      BY <1>1, <2>1, <3>1, ReleaseOKStays DEF ReleaseOK
  <2>2. CASE ThreadStep(q) \/ RunStep(q) \/ RunTimesOut(q) \/ Environment
    BY <2>2, ThreadReleaseOK, RunReleaseOK, EnvironmentReleaseOK
  <2>3. ASSUME NEW r \in Runs, r # q, ThreadStep(r) \/ RunStep(r) \/ RunTimesOut(r)
        PROVE  UNCHANGED <<thread[q], run[q]>>
    BY <2>3, OthersStay
  <2>4. CASE UNCHANGED pipelineVars
    BY <2>1, <2>4 DEF pipelineVars, offchainVars
  <2> QED
    BY <2>1, <2>2, <2>3, <2>4 DEF Next, PostByHand
<1> QED
  BY <1>1, <1>2, <1>3 DEF ReleaseInv

LEMMA ReleaseInitInv == Init => ReleaseInv
<1>1. IdleRun.pc = "idle" /\ IdleRun.execute = FALSE
  BY DEF IdleRun, Inactive
<1>2. ReleaseOK(NoThread, IdleRun)
  BY <1>1 DEF ReleaseOK
<1> QED
  BY <1>2 DEF Init, Ledger!LedgerInit, Ledger!RegistryInit, ReleaseInv, EnclaveIdsUsed,
     PostedAfterRelease, MisSealedNeverPosted

LEMMA ReleaseInvariance ==
  ASSUME HandPosting = FALSE
  PROVE  Spec => []ReleaseInv
<1>1. PipelineInv /\ ReleaseInv /\ [Next]_pipelineVars => ReleaseInv'
  BY ReleaseNextInv
<1> QED
  BY <1>1, ReleaseInitInv, PipelineInvariance, PTL DEF Spec

\* While only runs post, a posted score stands for a decryption: the key
\* servers had released the key of the very set it is over, to the very key it
\* was verified under.
THEOREM PostedReleased ==
  ASSUME HandPosting = FALSE
  PROVE  Spec => []PostedAfterRelease
<1>1. ReleaseInv => PostedAfterRelease
  BY DEF ReleaseInv
<1> QED
  BY <1>1, ReleaseInvariance, PTL

\* And a set the author changed between sealing and notarizing is never on the
\* board: the enclave that decrypts it refuses it.
THEOREM MisSealedUnposted ==
  ASSUME HandPosting = FALSE
  PROVE  Spec => []MisSealedNeverPosted
<1>1. ReleaseInv => MisSealedNeverPosted
  BY DEF ReleaseInv
<1> QED
  BY <1>1, ReleaseInvariance, PTL

-----------------------------------------------------------------------------
(* The pipeline implements the ledger, and inherits what is proved of it.  *)

\* A signed approval is a step of the ledger.
LEMMA ApprovalIsLedgerStep ==
  ASSUME PipelineInv, NEW r \in Runs, SignApproval(r)
  PROVE  Ledger!LedgerNext
<1> DEFINE t == thread[r]
<1>1. /\ Ledger!SignSealApproval(t.pk, t.input.identity) /\ Ledger!Booted(t.pk)
  BY DEF SignApproval, Ledger!SignSealApproval, Ledger!Sign
<1>2. t.pk \in Keys
  BY <1>1 DEF Ledger!Booted, PipelineInv, TypeOK, Ledger!LedgerTypeOK,
     Ledger!RegistryTypeOK, Ledger!NitroAttestationDocument
<1>3. t.input.identity \in Content
  <2>1. PICK ev \in evals : ev.id = t.eval
    BY RequestTyped DEF SignApproval, At, ThreadOK, Exists
  <2>2. t.input \in Ciphertexts
    BY <2>1, RequestTyped DEF SignApproval, At, ThreadOK, PipelineInv, EvalsSealed
  <2> QED
    BY <2>2 DEF Ciphertexts, Content
<1>4. PICK k \in Keys, id \in Content : k = t.pk /\ id = t.input.identity
  BY <1>2, <1>3
<1>5. Ledger!SignSealApproval(k, id)
  BY <1>1, <1>4
<1> QED
  BY <1>5 DEF Ledger!LedgerNext, Ledger!LedgerStep

\* So is a released key,
LEMMA ReleaseIsLedgerStep ==
  ASSUME PipelineInv, NEW r \in Runs, FetchAndDecrypt(r)
  PROVE  Ledger!LedgerNext
<1> DEFINE t == thread[r]
<1>1. PICK e \in enclaves : Ledger!ReleaseKey(e, t.input.identity)
  BY DEF FetchAndDecrypt
<1>2. t.input.identity \in Content
  <2>1. PICK ev \in evals : ev.id = t.eval
    BY RequestTyped DEF FetchAndDecrypt, At, ThreadOK, Exists
  <2>2. t.input \in Ciphertexts
    BY <2>1, RequestTyped DEF FetchAndDecrypt, At, ThreadOK, PipelineInv, EvalsSealed
  <2> QED
    BY <2>2 DEF Ciphertexts, Content
<1>3. PICK id \in Content : id = t.input.identity
  BY <1>2
<1>4. Ledger!ReleaseKey(e, id)
  BY <1>1, <1>3
<1> QED
  BY <1>4 DEF Ledger!LedgerNext, Ledger!LedgerStep

\* a signed score,
LEMMA ScoreIsLedgerStep ==
  ASSUME PipelineInv, NEW r \in Runs, SignResult(r)
  PROVE  Ledger!LedgerNext
<1>1. Ledger!SignScore(thread[r].pk, PayloadOf(r)) /\ Ledger!Booted(thread[r].pk)
  BY DEF SignResult, Ledger!SignScore, Ledger!Sign
<1>2. PayloadOf(r) \in Ledger!ScorePayload
  BY PayloadOK DEF SignResult, At
<1>3. thread[r].pk \in Keys
  BY <1>1 DEF Ledger!Booted, PipelineInv, TypeOK, Ledger!LedgerTypeOK,
     Ledger!RegistryTypeOK, Ledger!NitroAttestationDocument
<1>4. PICK k \in Keys, p \in Ledger!ScorePayload : k = thread[r].pk /\ p = PayloadOf(r)
  BY <1>2, <1>3
<1>5. Ledger!SignScore(k, p)
  BY <1>1, <1>4
<1> QED
  BY <1>5 DEF Ledger!LedgerNext, Ledger!LedgerStep

\* a notarized eval,
LEMMA NotarizeIsLedgerStep ==
  ASSUME PipelineInv, NEW a \in Accounts, NEW i \in EvalIds, Notarize(a, i)
  PROVE  Ledger!LedgerNext
<1> DEFINE c == author.ciphertext
<1>1. Ledger!CreateEval(a, i, c.plaintext, c, c, author.model, ItemCount[c.plaintext])
  BY DEF Notarize
<1>2. /\ c \in Ciphertexts /\ c.plaintext \in Sets /\ author.model \in Models
      /\ ItemCount[c.plaintext] \in 0..MaxItems
  <2>1. author \in [ciphertext : Ciphertexts, model : Models]
    BY DEF Notarize, PipelineInv, TypeOK
  <2>2. c.plaintext \in Sets
    BY <2>1 DEF Ciphertexts
  <2> QED
    BY <2>1, <2>2, PipelineAssumption
<1>3. PICK pt \in Content, ct \in Content, b \in BlobIds, m \in Models,
           n \in Ledger!Counts :
         /\ pt = c.plaintext /\ ct = c /\ b = c
         /\ m = author.model /\ n = ItemCount[c.plaintext]
  BY <1>2 DEF Content, BlobIds, Ledger!Counts
<1>4. Ledger!CreateEval(a, i, pt, ct, b, m, n)
  BY <1>1, <1>3
<1> QED
  BY <1>4 DEF Ledger!LedgerNext, Ledger!LedgerStep

\* and a posted score.
LEMMA PostIsLedgerStep ==
  ASSUME PipelineInv, NEW r \in Runs, NEW e \in enclaves, SubmitPostScore(r, e),
         Exists(run[r].eval)
  PROVE  Ledger!LedgerNext
<1> DEFINE p == run[r].reply
<1>1. PICK i \in ScoreIds :
         Ledger!PostScore(e, EvalOf(run[r]), i, p.score_num, p.score_den,
                          p.items_hash, p.trace_blob_id)
  BY DEF SubmitPostScore
<1>2. EvalOf(run[r]) \in evals
  BY EvalOfIs DEF Exists, PipelineInv
<1> DEFINE payload ==
      [sealed_eval_id |-> EvalOf(run[r]).id, model_target |-> EvalOf(run[r]).model_target,
       score_num |-> p.score_num, score_den |-> p.score_den,
       items_hash |-> p.items_hash, trace_blob_id |-> p.trace_blob_id]
<1>3. [pk |-> e.pk, intent |-> Ledger!SCORE_INTENT, payload |-> payload] \in signatures
  BY <1>1 DEF Ledger!PostScore, Ledger!VerifySignature
<1>4. /\ payload.score_num = p.score_num /\ payload.score_den = p.score_den
      /\ payload.items_hash = p.items_hash /\ payload.trace_blob_id = p.trace_blob_id
  OBVIOUS
<1> HIDE DEF payload
<1>5. payload \in Ledger!ScorePayload
  BY <1>3, RequestTyped DEF Ledger!ScoreMessage, Ledger!SealMessage, Ledger!SCORE_INTENT,
     Ledger!SEAL_INTENT
<1>6. PICK ev \in evals, num \in Ledger!Counts, den \in Ledger!Counts, h \in Content,
           b \in BlobIds :
         /\ ev = EvalOf(run[r]) /\ num = p.score_num /\ den = p.score_den
         /\ h = p.items_hash /\ b = p.trace_blob_id
  BY <1>2, <1>4, <1>5 DEF Ledger!ScorePayload
<1>7. Ledger!PostScore(e, ev, i, num, den, h, b)
  BY <1>1, <1>6
<1> QED
  BY <1>7 DEF Ledger!LedgerNext, Ledger!LedgerStep

\* Every step of the pipeline is a step of the ledger or leaves it alone.
LEMMA StepOfLedger ==
  ASSUME PipelineInv, [Next]_pipelineVars
  PROVE  [Ledger!LedgerNext]_(Ledger!vars)
<1>1. CASE UNCHANGED chainVars
  BY <1>1 DEF chainVars, registryVars, ledgerVars, Ledger!vars, Ledger!registryVars,
     Ledger!ledgerVars
<1>2. ASSUME NEW r \in Runs, ThreadStep(r)
      PROVE  [Ledger!LedgerNext]_(Ledger!vars)
  BY <1>1, <1>2, ApprovalIsLedgerStep, ReleaseIsLedgerStep, ScoreIsLedgerStep
     DEF ThreadStep, LoadCiphertext, ScoreItem, ArchiveTrace, InlineTrace, LoadFails,
         FetchFails, ScoreFails, ArchiveFails, ThreadExits
<1>3. ASSUME NEW r \in Runs, RunStep(r) \/ RunTimesOut(r) \/ PostByHand(r)
      PROVE  [Ledger!LedgerNext]_(Ledger!vars)
  <2>1. CASE Post(r) \/ PostByHand(r)
    <3>1. PICK e \in enclaves : SubmitPostScore(r, e)
      BY <2>1 DEF Post, PostByHand
    <3>2. Exists(run[r].eval)
      BY <2>1, RunTyped DEF RunOK, Post, PostByHand, RunAt
    <3> QED
      BY <3>1, <3>2, PostIsLedgerStep
  <2> QED
    BY <1>1, <1>3, <2>1 DEF RunStep, Submit, ReceiveReply, VerifyTrace, TraceUnverified,
       Refused, ReceiveError, PostAborts, RunTimesOut
<1>4. CASE Environment
  <2>1. ASSUME NEW k \in Keys, NEW p \in Pcrs, StartEnclave(k, p)
        PROVE  Ledger!LedgerNext
    BY <2>1 DEF StartEnclave, Ledger!LedgerNext, Ledger!RegistryNext, ledgerVars,
       Ledger!ledgerVars
  <2>2. CASE Ledger!ChainStep /\ UNCHANGED <<ledgerVars, offchainVars>>
    BY <2>2 DEF Ledger!LedgerNext, Ledger!RegistryNext, ledgerVars, Ledger!ledgerVars
  <2> QED
    BY <1>1, <1>4, <2>1, <2>2, NotarizeIsLedgerStep
       DEF Environment, StoreSet, AbandonSet, StopEnclave, StartRun
<1> QED
  BY <1>1, <1>2, <1>3, <1>4 DEF Next, pipelineVars

\* The pipeline implements the ledger: of all that the enclave's keys might
\* sign and anybody might submit, the scripts and the enclave do some.
THEOREM PipelineImplementsLedger == Spec => Ledger!LedgerSpec
<1>1. Init => Ledger!LedgerInit
  BY DEF Init
<1>2. PipelineInv /\ [Next]_pipelineVars => [Ledger!LedgerNext]_(Ledger!vars)
  BY StepOfLedger
<1> QED
  BY <1>1, <1>2, PipelineInvariance, PTL DEF Spec, Ledger!LedgerSpec

\* The theorems about the ledger, for this one.
Proven == INSTANCE ScoreLedgerProofs WITH
  Bytes <- Content, Digests <- Content, MaxCount <- MaxItems

\* It is the same ledger.
LEMMA ProvenAssumptions == Proven!RegistryAssumption /\ Proven!LedgerAssumption
  BY PipelineAssumption DEF Proven!RegistryAssumption, Proven!LedgerAssumption

LEMMA SameInit == Ledger!LedgerInit => Proven!LedgerInit
  BY DEF Ledger!LedgerInit, Proven!LedgerInit, Ledger!RegistryInit, Proven!RegistryInit

LEMMA SameChainStep == Ledger!ChainStep => Proven!ChainStep
<1> SUFFICES ASSUME Ledger!ChainStep PROVE Proven!ChainStep
  OBVIOUS
<1>1. ASSUME NEW a \in Accounts, Ledger!TransferCap(a) PROVE Proven!ChainStep
  BY <1>1 DEF Ledger!TransferCap, Proven!TransferCap, Proven!ChainStep
<1>2. ASSUME NEW a \in Accounts, NEW i \in ConfigIds, NEW n \in Names, NEW p \in Pcrs,
             Ledger!CreateEnclaveConfig(a, i, n, p)
      PROVE  Proven!ChainStep
  BY <1>2 DEF Ledger!CreateEnclaveConfig, Proven!CreateEnclaveConfig, Proven!ChainStep
<1>3. ASSUME NEW a \in Accounts, NEW c \in configs, NEW d \in documents,
             NEW i \in EnclaveIds, Ledger!RegisterEnclave(a, c, d, i)
      PROVE  Proven!ChainStep
  BY <1>3 DEF Ledger!RegisterEnclave, Proven!RegisterEnclave, Ledger!PcrsMatch,
     Proven!PcrsMatch, Ledger!NewEnclave, Proven!NewEnclave, Proven!ChainStep
<1>4. ASSUME NEW a \in Accounts, NEW c \in configs, NEW p \in Pcrs,
             Ledger!UpdatePcrs(a, c, p)
      PROVE  Proven!ChainStep
  BY <1>4 DEF Ledger!UpdatePcrs, Proven!UpdatePcrs, Ledger!Rotated, Proven!Rotated,
     Proven!ChainStep
<1>5. ASSUME NEW a \in Accounts, NEW c \in configs, NEW n \in Names,
             Ledger!UpdateName(a, c, n)
      PROVE  Proven!ChainStep
  BY <1>5 DEF Ledger!UpdateName, Proven!UpdateName, Proven!ChainStep
<1>6. ASSUME NEW e \in enclaves, NEW c \in configs, Ledger!DestroyOldEnclave(e, c)
      PROVE  Proven!ChainStep
  BY <1>6 DEF Ledger!DestroyOldEnclave, Proven!DestroyOldEnclave, Proven!ChainStep
<1>7. ASSUME NEW a \in Accounts, NEW e \in enclaves, Ledger!DestroyEnclaveByOwner(a, e)
      PROVE  Proven!ChainStep
  BY <1>7 DEF Ledger!DestroyEnclaveByOwner, Proven!DestroyEnclaveByOwner,
     Proven!ChainStep
<1> QED
  BY <1>1, <1>2, <1>3, <1>4, <1>5, <1>6, <1>7 DEF Ledger!ChainStep

LEMMA SameCardinality == \A S : Ledger!Cardinality(S) = Proven!Cardinality(S)
  BY DEF Ledger!Cardinality, Proven!Cardinality

LEMMA SameLedgerStep == Ledger!LedgerStep => Proven!LedgerStep
<1> SUFFICES ASSUME Ledger!LedgerStep PROVE Proven!LedgerStep
  OBVIOUS
<1> USE DEF Ledger!registryVars, Proven!registryVars, Proven!LedgerStep
<1>1. ASSUME NEW k \in Keys, NEW p \in Ledger!ScorePayload, Ledger!SignScore(k, p)
      PROVE  Proven!LedgerStep
  <2>1. p \in Proven!ScorePayload
    BY DEF Ledger!ScorePayload, Proven!ScorePayload, Ledger!Counts, Proven!Counts
  <2>2. Proven!SignScore(k, p)
    BY <1>1, SameCardinality DEF Ledger!SignScore, Proven!SignScore, Ledger!Sign, Proven!Sign,
       Ledger!Booted, Proven!Booted, Ledger!SCORE_INTENT, Proven!SCORE_INTENT
  <2>3. PICK q \in Proven!ScorePayload : q = p
    BY <2>1
  <2> QED
    BY <2>2, <2>3
<1>2. ASSUME NEW k \in Keys, NEW i \in Content, Ledger!SignSealApproval(k, i)
      PROVE  Proven!LedgerStep
  BY <1>2, SameCardinality DEF Ledger!SignSealApproval, Proven!SignSealApproval, Ledger!Sign, Proven!Sign,
     Ledger!Booted, Proven!Booted, Ledger!SEAL_INTENT, Proven!SEAL_INTENT
<1>3. ASSUME NEW a \in Accounts, NEW i \in EvalIds, NEW pt \in Content,
             NEW ct \in Content, NEW b \in BlobIds, NEW m \in Models,
             NEW n \in Ledger!Counts, Ledger!CreateEval(a, i, pt, ct, b, m, n)
      PROVE  Proven!LedgerStep
  <2>1. n \in Proven!Counts
    BY DEF Ledger!Counts, Proven!Counts
  <2>2. Proven!CreateEval(a, i, pt, ct, b, m, n)
    BY <1>3 DEF Ledger!CreateEval, Proven!CreateEval, Ledger!EvalArgumentsOK,
       Proven!EvalArgumentsOK, Ledger!NotRevealed, Proven!NotRevealed
  <2> QED
    BY <2>1, <2>2
<1>4. ASSUME NEW ev \in evals, NEW b \in BlobIds, Ledger!Reveal(ev, b)
      PROVE  Proven!LedgerStep
  BY <1>4 DEF Ledger!Reveal, Proven!Reveal, Ledger!Revealable, Proven!Revealable
<1>5. ASSUME NEW e \in enclaves, NEW ev \in evals, NEW i \in ScoreIds,
             NEW num \in Ledger!Counts, NEW den \in Ledger!Counts, NEW h \in Content,
             NEW t \in BlobIds, Ledger!PostScore(e, ev, i, num, den, h, t)
      PROVE  Proven!LedgerStep
  <2>1. num \in Proven!Counts /\ den \in Proven!Counts
    BY DEF Ledger!Counts, Proven!Counts
  <2>2. Proven!PostScore(e, ev, i, num, den, h, t)
    BY <1>5 DEF Ledger!PostScore, Proven!PostScore, Ledger!VerifySignature,
       Proven!VerifySignature, Ledger!SCORE_INTENT, Proven!SCORE_INTENT
  <2> QED
    BY <2>1, <2>2
<1>6. ASSUME NEW e \in enclaves, NEW i \in Content, Ledger!ReleaseKey(e, i)
      PROVE  Proven!LedgerStep
  BY <1>6 DEF Ledger!ReleaseKey, Proven!ReleaseKey, Ledger!VerifySignature,
     Proven!VerifySignature, Ledger!SEAL_INTENT, Proven!SEAL_INTENT
<1> HIDE DEF Proven!LedgerStep
<1> QED
  BY <1>1, <1>2, <1>3, <1>4, <1>5, <1>6 DEF Ledger!LedgerStep

LEMMA SameNext == [Ledger!LedgerNext]_(Ledger!vars) => [Proven!LedgerNext]_(Proven!vars)
<1>1. (\E k \in Keys, p \in Pcrs : Ledger!Boot(k, p)) =>
         (\E k \in Keys, p \in Pcrs : Proven!Boot(k, p))
  BY DEF Ledger!Boot, Proven!Boot
<1> QED
  BY <1>1, SameChainStep, SameLedgerStep
     DEF Ledger!LedgerNext, Proven!LedgerNext, Ledger!RegistryNext, Proven!RegistryNext,
         Ledger!vars, Proven!vars, Ledger!ledgerVars, Proven!ledgerVars,
         Ledger!registryVars, Proven!registryVars

LEMMA LedgerSpecProven == Ledger!LedgerSpec => Proven!LedgerSpec
  BY SameInit, SameNext, PTL DEF Ledger!LedgerSpec, Proven!LedgerSpec

LEMMA SameAttested == \A k : Proven!Attested(k) <=> Ledger!Attested(k)
  BY DEF Proven!Attested, Ledger!Attested

\* Every posted score was signed by an attested key, whatever the scripts, the
\* enclaves, the publisher and the owners of Enclave objects did since.
THEOREM PipelineScoresProven == Spec => []Ledger!ScoreProvenance
<1>1. Proven!LedgerSpec => []Proven!ScoreProvenance
  BY Proven!ScoresProven, ProvenAssumptions
<1>2. Proven!ScoreProvenance => Ledger!ScoreProvenance
  BY SameAttested DEF Proven!ScoreProvenance, Ledger!ScoreProvenance,
     Proven!SCORE_INTENT, Ledger!SCORE_INTENT
<1> QED
  BY <1>1, <1>2, PipelineImplementsLedger, LedgerSpecProven, PTL

\* Every key the servers released went to an attested enclave that had asked
\* for it.
THEOREM PipelineReleasesProven == Spec => []Ledger!KeysReleasedToAttested
<1>1. Proven!LedgerSpec => []Proven!KeysReleasedToAttested
  BY Proven!ReleasesProven, ProvenAssumptions
<1>2. Proven!KeysReleasedToAttested => Ledger!KeysReleasedToAttested
  BY SameAttested DEF Proven!KeysReleasedToAttested, Ledger!KeysReleasedToAttested,
     Proven!SEAL_INTENT, Ledger!SEAL_INTENT
<1> QED
  BY <1>1, <1>2, PipelineImplementsLedger, LedgerSpecProven, PTL

\* What an author has committed to stays, whatever the pipeline does.
THEOREM PipelineCommitmentsKept == Spec => Ledger!CommitmentsPermanent
<1>1. Proven!LedgerSpec => Proven!CommitmentsPermanent
  BY Proven!CommitmentsKept, ProvenAssumptions
<1>2. (UNCHANGED Proven!vars => UNCHANGED Ledger!vars)
  BY DEF Proven!vars, Ledger!vars, Proven!registryVars, Ledger!registryVars,
     Proven!ledgerVars, Ledger!ledgerVars
<1>3. [\A ev \in evals : \E ev2 \in evals' :
         /\ Proven!Commitment(ev2) = Proven!Commitment(ev)
         /\ ev.revealed => ev2 = ev]_(Proven!vars)
      => [\A ev \in evals : \E ev2 \in evals' :
            /\ Ledger!Commitment(ev2) = Ledger!Commitment(ev)
            /\ ev.revealed => ev2 = ev]_(Ledger!vars)
  BY <1>2 DEF Proven!Commitment, Ledger!Commitment
<1> QED
  BY <1>1, <1>3, PipelineImplementsLedger, LedgerSpecProven, PTL
     DEF Proven!CommitmentsPermanent, Ledger!CommitmentsPermanent

\* The registry under it is sound: every live Enclave object holds a key that a
\* genuine document binds to the PCRs required at the version it records.
THEOREM PipelineEnclavesAttested == Spec => []Ledger!EnclaveKeysAttested
<1>1. Proven!LedgerSpec => []Proven!LedgerInv
  BY Proven!LedgerInvariance, ProvenAssumptions
<1>2. Proven!LedgerInv => Ledger!EnclaveKeysAttested
  BY DEF Proven!LedgerInv, Proven!RegistryInv, Proven!EnclaveKeysAttested,
     Ledger!EnclaveKeysAttested, Proven!AttestedAt, Ledger!AttestedAt
<1> QED
  BY <1>1, <1>2, PipelineImplementsLedger, LedgerSpecProven, PTL

\* What the badge of a posted score stands for: the eval named exists and was
\* sealed honestly; the score counts every item of the very set the author
\* committed to, for the eval's own model; and the key that signed it is bound
\* by a genuine attestation document to an image some config of the package
\* required, and had been given the Seal key of that set.
PostedIsGenuine ==
  \A s \in scores : \E ev \in evals :
     /\ ev.id = s.payload.sealed_eval_id
     /\ ev.model_target = s.payload.model_target
     /\ ev.walrus_blob_id.identity = ev.walrus_blob_id.plaintext
     /\ s.payload.items_hash.set = ev.sha256_plaintext
     /\ s.payload.items_hash.items = ItemCount[ev.sha256_plaintext]
     /\ s.payload.score_den = ev.set_size
     /\ s.payload.score_num = s.payload.items_hash.num
     /\ s.payload.score_num <= s.payload.score_den
     /\ Ledger!Attested(s.enclave_pk)
     /\ [id |-> ev.sha256_plaintext, pk |-> s.enclave_pk] \in released

\* End to end, while only the scripts post: all of that is true of every score
\* on the board, through every restart, race and change of the registry.
THEOREM PostedGenuine ==
  ASSUME HandPosting = FALSE
  PROVE  Spec => []PostedIsGenuine
<1>1. PipelineInv /\ ReleaseInv /\ Ledger!ScoreProvenance => PostedIsGenuine
  <2> SUFFICES ASSUME PipelineInv, ReleaseInv, Ledger!ScoreProvenance, NEW s \in scores
               PROVE  \E ev \in evals :
                 /\ ev.id = s.payload.sealed_eval_id
                 /\ ev.model_target = s.payload.model_target
                 /\ ev.walrus_blob_id.identity = ev.walrus_blob_id.plaintext
                 /\ s.payload.items_hash.set = ev.sha256_plaintext
                 /\ s.payload.items_hash.items = ItemCount[ev.sha256_plaintext]
                 /\ s.payload.score_den = ev.set_size
                 /\ s.payload.score_num = s.payload.items_hash.num
                 /\ s.payload.score_num <= s.payload.score_den
                 /\ Ledger!Attested(s.enclave_pk)
                 /\ [id |-> ev.sha256_plaintext, pk |-> s.enclave_pk] \in released
    BY DEF PostedIsGenuine
  <2> DEFINE m == [pk |-> s.enclave_pk, intent |-> Ledger!SCORE_INTENT,
                   payload |-> s.payload]
  <2>1. m \in ScoreMessages /\ m.payload = s.payload
    BY DEF PipelineInv, PostedSigned, ScoreMessages
  <2>2. ScoreOK(s.payload)
    BY <2>1 DEF PipelineInv
  <2> HIDE DEF m
  <2>3. PICK ev \in evals : /\ ev.id = s.payload.sealed_eval_id
                            /\ s.payload.model_target = ev.model_target
                            /\ s.payload.items_hash.set = ev.sha256_plaintext
                            /\ s.payload.score_den = ev.set_size
    BY <2>2 DEF ScoreOK
  <2>4. /\ s.payload.score_den = ItemCount[s.payload.items_hash.set]
        /\ s.payload.items_hash.items = s.payload.score_den
        /\ s.payload.score_num = s.payload.items_hash.num
        /\ s.payload.score_num <= s.payload.score_den
    BY <2>2 DEF ScoreOK
  <2>5. ev.walrus_blob_id.identity = ev.walrus_blob_id.plaintext
    BY <2>3 DEF ReleaseInv, MisSealedNeverPosted
  <2>6. Ledger!Attested(s.enclave_pk)
    BY DEF Ledger!ScoreProvenance
  <2>7. [id |-> s.payload.items_hash.set, pk |-> s.enclave_pk] \in released
    BY DEF ReleaseInv, PostedAfterRelease
  <2> QED
    BY <2>3, <2>4, <2>5, <2>6, <2>7
<1> QED
  BY <1>1, PipelineInvariance, ReleaseInvariance, PipelineScoresProven, PTL
=============================================================================
