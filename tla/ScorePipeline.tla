---------------------------- MODULE ScorePipeline ----------------------------
(***************************************************************************)
(* From a sealed set to a posted score: the author's seal-and-notarize     *)
(* script, the enclave server with one thread per request, the operator's  *)
(* evaluate-and-post runs, Walrus and the Seal key servers, over the       *)
(* on-chain ledger.  Every process may stop between any two steps.         *)
(*                                                                         *)
(* Data.  SHA-256 is injective and Walrus is content-addressed, so a set,  *)
(* a ciphertext and a trace stand for their own digest and blob id.  The   *)
(* run trace is abstracted to the set it is over, the model it names, and  *)
(* how many items it has and marks correct.                                *)
(***************************************************************************)
EXTENDS Naturals, FiniteSets

CONSTANTS
  Accounts, Publisher, Pcrs, Keys, Names, ConfigIds, EnclaveIds, MaxVersion,
  EvalIds, ScoreIds, Models, MaxSigned,   \* as in ScoreLedger
  Sets,        \* held-out sets: the contents of the author's JSONL file
  ItemCount,   \* their number of items
  MaxItems,    \* bound on it
  Runs,        \* invocations of evaluate-and-post
  None,        \* no value
  HandPosting  \* whether people submit the arguments a run printed

ASSUME PipelineAssumption ==
  /\ Publisher \in Accounts
  /\ MaxItems \in Nat
  /\ ItemCount \in [Sets -> 1..MaxItems]
  /\ HandPosting \in BOOLEAN
  /\ MaxVersion \in Nat /\ MaxSigned \in Nat

VARIABLES
  capHolder, configs, enclaves, usedEnclaveIds, documents, measured,
  evals, scores, signatures, released,    \* the ledger's variables
  blobs,       \* what Walrus stores
  author,      \* seal-and-notarize: the ciphertext stored, not yet notarized
  enclaveKey,  \* the key of the running enclave process, or None
  thread,      \* the enclave's thread for each run's request
  run          \* the state of each evaluate-and-post process

Ciphertexts == [identity : Sets, plaintext : Sets]
Traces == [set : Sets, model : Models, items : 0..MaxItems, num : 0..MaxItems]
Content == Sets \cup Ciphertexts \cup Traces

\* The id "inline:<hash>" of a trace that is stored nowhere; no blob's id.
Inline(trace) == [inline |-> trace]
BlobIds == Content \cup {Inline(trace) : trace \in Traces}

Ledger == INSTANCE ScoreLedger WITH
  Bytes <- Content, Digests <- Content, MaxCount <- MaxItems

registryVars ==
  <<capHolder, configs, enclaves, usedEnclaveIds, documents, measured>>
ledgerVars == <<evals, scores, signatures, released>>
chainVars == <<registryVars, ledgerVars>>
serverVars == <<enclaveKey, thread>>
offchainVars == <<blobs, author, enclaveKey, thread, run>>
pipelineVars == <<chainVars, offchainVars>>

\* `publisher` is whether the request names a Walrus publisher.
Request(stage, pk, eval, enclave, input, publisher) ==
  [stage |-> stage, pk |-> pk, eval |-> eval, enclave |-> enclave,
   input |-> input, publisher |-> publisher, done |-> 0, num |-> 0]
NoThread == Request("none", None, None, None, None, FALSE)

\* A run that holds nothing but what it has printed.
Inactive(pc, eval, reply) ==
  [pc |-> pc, sealed |-> FALSE, execute |-> FALSE, eval |-> eval,
   enclave |-> None, set |-> None, reply |-> reply]
IdleRun == Inactive("idle", None, None)

Init ==
  /\ Ledger!LedgerInit
  /\ blobs = {}
  /\ author = None
  /\ enclaveKey = None
  /\ thread = [r \in Runs |-> NoThread]
  /\ run = [r \in Runs |-> IdleRun]

\* The eval a process read: all it uses of it is permanent.
EvalOf(process) == CHOOSE ev \in evals : ev.id = process.eval

-----------------------------------------------------------------------------
(* The author: seal-and-notarize.                                          *)

\* Walrus keeps what it is given under a name made of its content, once however
\* often it is stored.
PutBlob(blob) == blobs' = blobs \cup {blob}

\* The script encrypts the file twice: the first reading only supplies the
\* identity, its hash; the second is encrypted under it and stored.  The file
\* may have changed in between.
StoreSet(first, second, model) ==
  LET c == [identity |-> first, plaintext |-> second]
  IN  /\ author = None
      /\ author' = [ciphertext |-> c, model |-> model]
      /\ PutBlob(c)
      /\ UNCHANGED <<chainVars, serverVars, run>>

Notarize(sender, id) ==
  LET c == author.ciphertext
  IN  /\ author # None
      /\ Ledger!CreateEval(sender, id, c.plaintext, c, c, author.model,
                           ItemCount[c.plaintext])
      /\ author' = None
      /\ UNCHANGED <<blobs, serverVars, run>>

\* The transaction fails or the script dies: the blob is an orphan.
AbandonSet ==
  /\ author # None
  /\ author' = None
  /\ UNCHANGED <<chainVars, blobs, serverVars, run>>

-----------------------------------------------------------------------------
(* The enclave process.                                                    *)

\* main() draws a fresh key at every start.
StartEnclave(pk, pcrs) ==
  /\ enclaveKey = None
  /\ Ledger!Boot(pk, pcrs)
  /\ enclaveKey' = pk
  /\ UNCHANGED <<ledgerVars, blobs, author, thread, run>>

\* A crash or terminate-enclave takes all request threads with it.
StopEnclave ==
  /\ enclaveKey # None
  /\ enclaveKey' = None
  /\ thread' = [r \in Runs |-> NoThread]
  /\ UNCHANGED <<chainVars, blobs, author, run>>

(***************************************************************************)
(* One thread per request: load the ciphertext, sign the access intent,    *)
(* fetch the keys, decrypt and check, score item by item, archive, sign.   *)
(***************************************************************************)
At(r, stage) == thread[r].stage = stage

\* Walrus serves the blob the request names, the eval's.  Mutant: any blob.
AnyBlob(r) == blobs \cap Ciphertexts
BlobFor(r) == blobs \cap {EvalOf(thread[r]).walrus_blob_id}

LoadCiphertext(r) ==
  /\ At(r, "load")
  /\ \E c \in BlobFor(r) :
        thread' = [thread EXCEPT ![r].stage = "approve", ![r].input = c]
  /\ UNCHANGED <<chainVars, blobs, author, enclaveKey, run>>

SignApproval(r) ==
  /\ At(r, "approve")
  /\ Ledger!SignSealApproval(thread[r].pk, thread[r].input.identity)
  /\ thread' = [thread EXCEPT ![r].stage = "fetch"]
  /\ UNCHANGED <<blobs, author, enclaveKey, run>>

\* The decrypted text must hash to the identity.  Mutant: it need not.
NoIdentityCheck(c) == TRUE
IdentityOK(c) == c.plaintext = c.identity

\* The key servers dry-run seal_approve against the Enclave object the request
\* names and release the key; the enclave decrypts.
FetchAndDecrypt(r) ==
  LET c == thread[r].input
  IN  /\ At(r, "fetch")
      /\ \E e \in enclaves :
            e.id = thread[r].enclave /\ Ledger!ReleaseKey(e, c.identity)
      /\ thread' =
           IF IdentityOK(c)
           THEN [thread EXCEPT ![r].stage = "score", ![r].input = c.plaintext]
           ELSE [thread EXCEPT ![r].stage = "error"]
      /\ UNCHANGED <<blobs, author, enclaveKey, run>>

\* Mutants: the loop runs past the last item, or stops short of it.
ItemsLeftPast(r) == thread[r].done <= ItemCount[thread[r].input]
ItemsLeftShort(r) == thread[r].done + 1 < ItemCount[thread[r].input]
ItemsLeft(r) == thread[r].done < ItemCount[thread[r].input]

ScoreItem(r, correct) ==
  /\ At(r, "score")
  /\ ItemsLeft(r)
  /\ thread' = [thread EXCEPT ![r].done = @ + 1,
                              ![r].num = IF correct THEN @ + 1 ELSE @]
  /\ UNCHANGED <<chainVars, blobs, author, enclaveKey, run>>

TraceOf(r) == [set |-> thread[r].input, model |-> EvalOf(thread[r]).model_target,
               items |-> thread[r].done, num |-> thread[r].num]

ArchiveTrace(r) ==
  /\ At(r, "score")
  /\ ~ItemsLeft(r)
  /\ thread[r].publisher
  /\ PutBlob(TraceOf(r))
  /\ \E stage \in {"sign", "error"} :    \* the publisher's answer may be lost
        thread' = [thread EXCEPT ![r].stage = stage]
  /\ UNCHANGED <<chainVars, author, enclaveKey, run>>

\* Inline mode: without a publisher nothing is stored.
InlineTrace(r) ==
  /\ At(r, "score")
  /\ ~ItemsLeft(r)
  /\ ~thread[r].publisher
  /\ thread' = [thread EXCEPT ![r].stage = "sign"]
  /\ UNCHANGED <<chainVars, blobs, author, enclaveKey, run>>

TraceId(r) == IF thread[r].publisher THEN TraceOf(r) ELSE Inline(TraceOf(r))

PayloadOf(r) ==
  [sealed_eval_id |-> thread[r].eval,
   model_target |-> EvalOf(thread[r]).model_target,
   score_num |-> thread[r].num, score_den |-> ItemCount[thread[r].input],
   items_hash |-> TraceOf(r), trace_blob_id |-> TraceId(r)]

SignResult(r) ==
  /\ At(r, "sign")
  /\ Ledger!SignScore(thread[r].pk, PayloadOf(r))
  /\ thread' = [thread EXCEPT ![r].stage = "replied"]
  /\ UNCHANGED <<blobs, author, enclaveKey, run>>

\* `?` ends the run at the first failure, and nothing is signed: the
\* aggregator has no such blob or does not answer;
ThreadErrs(r) == thread' = [thread EXCEPT ![r].stage = "error"]

LoadFails(r) ==
  /\ At(r, "load")
  /\ ThreadErrs(r)
  /\ UNCHANGED <<chainVars, blobs, author, enclaveKey, run>>

\* too few key servers answer, or seal_approve aborts;
FetchFails(r) ==
  /\ At(r, "fetch")
  /\ ThreadErrs(r)
  /\ UNCHANGED <<chainVars, blobs, author, enclaveKey, run>>

\* a line is no item, or the model's answer to one item is no success or no
\* completion;
ScoreFails(r) ==
  /\ At(r, "score")
  /\ ItemsLeft(r)
  /\ ThreadErrs(r)
  /\ UNCHANGED <<chainVars, blobs, author, enclaveKey, run>>

\* the publisher refuses the trace.
ArchiveFails(r) ==
  /\ At(r, "score")
  /\ ~ItemsLeft(r)
  /\ thread[r].publisher
  /\ ThreadErrs(r)
  /\ UNCHANGED <<chainVars, blobs, author, enclaveKey, run>>

\* Nobody waits any more: tx.send drops the result.
ThreadExits(r) ==
  /\ thread[r].stage \in {"replied", "error"}
  /\ run[r].pc # "waiting"
  /\ thread' = [thread EXCEPT ![r] = NoThread]
  /\ UNCHANGED <<chainVars, blobs, author, enclaveKey, run>>

-----------------------------------------------------------------------------
(* The operator: evaluate-and-post.                                        *)

RunAt(r, pc) == run[r].pc = pc
RunGoes(r, pc) == run' = [run EXCEPT ![r].pc = pc]

\* The script exits; of its state only the post_score arguments it printed
\* outlive it, and they matter only to people who act on them.
Printed(r) == HandPosting /\ RunAt(r, "posting")
RunExits(r, pc) ==
  run' = [run EXCEPT ![r] = IF Printed(r)
            THEN Inactive(pc, run[r].eval, run[r].reply)
            ELSE Inactive(pc, None, None)]

\* Only a sealed run may --execute.  Mutant: any run may.
AnyMode(sealed, execute) == TRUE
ModeOK(sealed, execute) == execute => sealed

\* A plaintext run checks its local set.  Mutant: it does not.
AnySet(s, ev) == TRUE
MatchesCommitment(s, ev) ==
  s = ev.sha256_plaintext /\ ItemCount[s] = ev.set_size

\* Read the eval and, where the mode needs one, the shared Enclave object.
StartRun(r, sealed, execute, ev) ==
  /\ RunAt(r, "idle")
  /\ ModeOK(sealed, execute)
  /\ \E e \in {None} \cup {x.id : x \in enclaves}, s \in {None} \cup Sets :
        /\ e = None <=> ~sealed /\ ~execute
        /\ s = None <=> sealed
        /\ sealed \/ MatchesCommitment(s, ev)
        /\ run' = [run EXCEPT ![r] =
             [pc |-> "ready", sealed |-> sealed, execute |-> execute,
              eval |-> ev.id, enclave |-> e, set |-> s, reply |-> None]]
  /\ UNCHANGED <<chainVars, blobs, author, serverVars>>

\* POST /evaluate: the server starts a thread with the key it holds now.  The
\* publisher comes from the script's environment, where it may be empty.
Submit(r) ==
  /\ RunAt(r, "ready")
  /\ enclaveKey # None
  /\ \E publisher \in BOOLEAN :
        thread' = [thread EXCEPT ![r] =
          Request(IF run[r].sealed THEN "load" ELSE "score", enclaveKey,
                  run[r].eval, run[r].enclave, run[r].set, publisher)]
  /\ RunGoes(r, "waiting")
  /\ UNCHANGED <<chainVars, blobs, author, enclaveKey>>

ReceiveReply(r) ==
  /\ RunAt(r, "waiting")
  /\ At(r, "replied")
  /\ run' = [run EXCEPT ![r].pc = "verifying", ![r].reply = PayloadOf(r)]
  /\ thread' = [thread EXCEPT ![r] = NoThread]
  /\ UNCHANGED <<chainVars, blobs, author, enclaveKey>>

\* Fetch the archived trace and compare its hash with the signed items_hash.
Archived(p) == p.trace_blob_id = p.items_hash /\ p.trace_blob_id \in blobs

VerifyTrace(r) ==
  /\ RunAt(r, "verifying")
  /\ Archived(run[r].reply)
  /\ RunGoes(r, IF run[r].execute THEN "posting" ELSE "done")
  /\ UNCHANGED <<chainVars, blobs, author, serverVars>>

\* Walrus has no such blob, or one with another hash.
TraceUnverified(r) ==
  /\ RunAt(r, "verifying")
  /\ ~Archived(run[r].reply)
  /\ RunExits(r, "failed")
  /\ UNCHANGED <<chainVars, blobs, author, serverVars>>

\* Submit the run's arguments under Enclave object e.
SubmitPostScore(r, e) ==
  LET p == run[r].reply
  IN  \E i \in ScoreIds :
        Ledger!PostScore(e, EvalOf(run[r]), i, p.score_num, p.score_den,
                         p.items_hash, p.trace_blob_id)

\* The transaction succeeds; the script may not learn of it.
Post(r) ==
  /\ RunAt(r, "posting")
  /\ \E e \in enclaves : e.id = run[r].enclave /\ SubmitPostScore(r, e)
  /\ \E pc \in {"done", "failed"} : RunExits(r, pc)
  /\ UNCHANGED <<blobs, author, serverVars>>

\* Connection refused: no enclave process listens.
Refused(r) ==
  /\ RunAt(r, "ready")
  /\ enclaveKey = None
  /\ RunExits(r, "failed")
  /\ UNCHANGED <<chainVars, blobs, author, serverVars>>

\* HTTP 422, or the process died with the request.  Mutant: only the former.
OnlyError(r) == At(r, "error")
NoAnswerComes(r) == At(r, "error") \/ At(r, "none")

ReceiveError(r) ==
  /\ RunAt(r, "waiting")
  /\ NoAnswerComes(r)
  /\ RunExits(r, "failed")
  /\ thread' = [thread EXCEPT ![r] = NoThread]
  /\ UNCHANGED <<chainVars, blobs, author, enclaveKey>>

\* The transaction aborts: the object is gone, or holds another key.
PostAborts(r) ==
  /\ RunAt(r, "posting")
  /\ ~ \E e \in enclaves :
        /\ e.id = run[r].enclave
        /\ Ledger!VerifySignature(e, Ledger!SCORE_INTENT, run[r].reply)
  /\ RunExits(r, "failed")
  /\ UNCHANGED <<chainVars, blobs, author, serverVars>>

\* The client gives up on the enclave, which works on; on the aggregator after
\* its last retry; or on the fullnode.
RunTimesOut(r) ==
  /\ run[r].pc \in {"waiting", "verifying", "posting"}
  /\ RunExits(r, "failed")
  /\ UNCHANGED <<chainVars, blobs, author, serverVars>>

\* Every run whose trace was verified printed the post_score arguments, before
\* it posted them itself or instead of that; somebody submits them.
PostByHand(r) ==
  /\ HandPosting
  /\ run[r].pc \in {"done", "failed"}
  /\ run[r].reply # None
  /\ \E e \in enclaves : SubmitPostScore(r, e)
  /\ UNCHANGED offchainVars

-----------------------------------------------------------------------------

ThreadStep(r) ==
  \/ LoadCiphertext(r)
  \/ SignApproval(r)
  \/ FetchAndDecrypt(r)
  \/ \E correct \in BOOLEAN : ScoreItem(r, correct)
  \/ ArchiveTrace(r)
  \/ InlineTrace(r)
  \/ SignResult(r)
  \/ LoadFails(r)
  \/ FetchFails(r)
  \/ ScoreFails(r)
  \/ ArchiveFails(r)
  \/ ThreadExits(r)

RunStep(r) ==
  \/ Submit(r)
  \/ ReceiveReply(r)
  \/ VerifyTrace(r)
  \/ TraceUnverified(r)
  \/ Post(r)
  \/ Refused(r)
  \/ ReceiveError(r)
  \/ PostAborts(r)

Environment ==
  \/ \E s1, s2 \in Sets, m \in Models : StoreSet(s1, s2, m)
  \/ \E a \in Accounts, i \in EvalIds : Notarize(a, i)
  \/ AbandonSet
  \/ \E k \in Keys, p \in Pcrs : StartEnclave(k, p)
  \/ StopEnclave
  \/ Ledger!ChainStep /\ UNCHANGED <<ledgerVars, offchainVars>>
  \/ \E r \in Runs, ev \in evals, sealed, execute \in BOOLEAN :
        StartRun(r, sealed, execute, ev)

Next ==
  \/ Environment
  \/ \E r \in Runs : ThreadStep(r) \/ RunStep(r)
  \/ \E r \in Runs : RunTimesOut(r) \/ PostByHand(r)

Spec == Init /\ [][Next]_pipelineVars

\* Threads and scripts are scheduled by their operating systems: an enabled
\* step is eventually taken.  Nothing is assumed of the environment, of
\* timeouts or of people.
Fairness ==
  \A r \in Runs : WF_pipelineVars(ThreadStep(r)) /\ WF_pipelineVars(RunStep(r))

FairSpec == Spec /\ Fairness

-----------------------------------------------------------------------------
(* Properties.                                                             *)

Stages == {"none", "load", "approve", "fetch", "score", "sign", "replied", "error"}
Pcs == {"idle", "ready", "waiting", "verifying", "posting", "done", "failed"}

Requests == [stage : Stages, pk : Keys \cup {None}, eval : EvalIds \cup {None},
             enclave : EnclaveIds \cup {None},
             input : Sets \cup Ciphertexts \cup {None}, publisher : BOOLEAN,
             done : 0..MaxItems, num : 0..MaxItems]

RunStates == [pc : Pcs, sealed : BOOLEAN, execute : BOOLEAN,
              eval : EvalIds \cup {None}, enclave : EnclaveIds \cup {None},
              set : Sets \cup {None}, reply : Ledger!ScorePayload \cup {None}]

TypeOK ==
  /\ Ledger!LedgerTypeOK
  /\ blobs \subseteq Ciphertexts \cup Traces
  /\ author \in {None} \cup [ciphertext : Ciphertexts, model : Models]
  /\ enclaveKey \in Keys \cup {None}
  /\ thread \in [Runs -> Requests]
  /\ run \in [Runs -> RunStates]

ScoreMessages == {m \in signatures : m.intent = Ledger!SCORE_INTENT}

\* Whatever request it answered and whoever lost interest in it meanwhile, the
\* enclave only signs a complete grading: every item of one set counted, no
\* more correct than items (run_evaluate).  The trace it names was archived, or,
\* for a request without a publisher, is an inline id of the same hash.  Such a
\* score is never posted: nothing is printed before its trace has been read
\* back (evaluate-and-post).
SignedScoresComplete ==
  /\ \A m \in ScoreMessages :
       LET p == m.payload
       IN  /\ p.score_den = ItemCount[p.items_hash.set]
           /\ p.items_hash.items = p.score_den
           /\ p.score_num = p.items_hash.num /\ p.score_num <= p.score_den
           /\ p.model_target = p.items_hash.model
           /\ Archived(p) \/ p.trace_blob_id = Inline(p.items_hash)
  /\ \A s \in scores : Archived(s.payload)

\* A posted score is over the very set its SealedEval committed to, in its
\* full size -- although neither the enclave nor post_score compares the two:
\* it takes the author's script and the content address of the ciphertext or,
\* of a plaintext run's result, the operator's check of the local set.
PostedOnCommittedSet ==
  \A s \in scores : \E ev \in evals :
     /\ ev.id = s.payload.sealed_eval_id
     /\ s.payload.items_hash.set = ev.sha256_plaintext
     /\ s.payload.score_den = ev.set_size

\* "on the exact decrypted set": the key that signed a posted score had been
\* given the Seal key of the set the score is over.
PostedAfterRelease ==
  \A s \in scores :
     [id |-> s.payload.items_hash.set, pk |-> s.enclave_pk] \in released

\* A set the author changed between the two readings is never scored through
\* the sealed path, and so never posted by a run.
MisSealedNeverPosted ==
  \A s \in scores, ev \in evals :
     ev.id = s.payload.sealed_eval_id =>
        ev.walrus_blob_id.identity = ev.walrus_blob_id.plaintext

\* Every evaluate-and-post run that was started ends, through every restart of
\* the enclave and every change of the registry under it.
RunsEnd ==
  \A r \in Runs : RunAt(r, "ready") ~> run[r].pc \in {"done", "failed"}

(***************************************************************************)
(* The pipeline implements the abstract board.                             *)
(***************************************************************************)
GradeOf(p) == [eval |-> p.sealed_eval_id, set |-> p.items_hash.set,
               num |-> p.score_num, den |-> p.score_den]

Board == INSTANCE Scoreboard WITH
  EntryIds <- ScoreIds,
  sealed <- {<<ev.id, ev.sha256_plaintext>> : ev \in evals},
  grades <- {GradeOf(m.payload) : m \in ScoreMessages},
  board <- {<<s.id, GradeOf(s.payload)>> : s \in scores}

\* Only grades of committed sets, each over the whole set, ever reach the
\* chain, and entries never change.
ImplementsBoard == Board!Spec

=============================================================================
