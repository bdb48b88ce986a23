# SealedBench in TLA+

SealedBench keeps benchmark sets under Seal encryption, lets only an attested
Nitro enclave decrypt and grade them, and posts the signed scores on Sui.  This
directory holds TLA+ models of its parts, the TLC configurations that check
them on small instances, and TLAPS proofs, for all values of the constants, of
every safety property those configurations check and of four refinements: the
pipeline implements an abstract scoreboard and the contracts' own
specification, the key fetch implements the one step the pipeline takes for it,
and the explorer implements the leaderboard.

`PROJECT.json` lists components, runs, mutants, the source lines behind every
definition, the hazards the properties are for, and the findings.

## 1. The system

| Part | State | Operations | Talks to |
|---|---|---|---|
| Move `enclave`, `attestation` | `Cap`, `EnclaveConfig` (PCRs, version), `Enclave` (pk, version) | create config, register, update PCRs or name, destroy | attestation documents of a running enclave |
| Move `sealed_eval`, `attested_score`, `seal_policy` | `SealedEval`, `AttestedScore` | create, reveal, `post_score`, `seal_approve` | `Enclave` objects (signature check) |
| Rust enclave (`enclave/src`) | one ed25519 key in memory, one thread per `/evaluate` | load ciphertext, fetch keys, decrypt, ask the model, archive the trace, sign | Walrus, key servers, a model, the script |
| Seal client of the enclave | one request's keys and errors | map services, sign the approval, fetch, decrypt | key servers, which dry-run `seal_approve` |
| `seal-and-notarize` | the set file | encrypt, PUT, create the `SealedEval` | Walrus, chain |
| `evaluate-and-post` | one run | read the eval, POST `/evaluate`, verify the trace, print, post | chain, enclave, Walrus |
| Web run jobs | in-memory store, child processes | start, append, complete or fail, poll | `evaluate-and-post` as a child, the panel |
| Leaderboard | none (two queries per load) | fetch, filter, pick the best | full nodes |
| Explorer and its verifiers (browser) | the selected eval, the state of each hash check | select, refresh, check a blob, check a trace | leaderboard page, Walrus |
| Shared-host switchover | two enclaves on one CPU pool, two proxies | `start-sealedbench`, `restore-aegis`, `live-nitro-run` | nitro-cli, systemd, ssh |
| Package publication | `deployments/*.json` | publish, upgrade, record | chain |
| Proxy manifest | a file baked into the image and read on the host | assign addresses and ports, set up listeners and units | `run.sh`, systemd |
| Command-line verifiers, preflight, tools | none | fetch, hash, compare, report | Walrus, chain |

What makes it hard: the parts share no transaction.  A score passes through a
script, an enclave that may be restarted with a new key at any time, key
servers asked one after the other, a blob store and a contract, while anyone
may register, rotate or destroy enclave objects.  No single party compares the
set that was graded with the set that was committed to.  Around that core, a
web server spawns runs and polls them, and a shell script takes a shared host
from another tenant and must give it back.

What makes each part correct:

* registry - a live `Enclave` key was attested against the PCRs its config
  version required; a version names one set of PCRs; an outdated object can be
  removed;
* ledger - a posted score was signed, as a score, by an attested key for that
  eval and model; a Seal key goes only to an attested key that asked for it;
  commitments never change;
* pipeline - a posted score is over the committed set, complete, and its signer
  had been given the key of that set; every run ends; only grades of committed
  sets reach the board;
* key fetch - a key is released at one instant, with the `Enclave` object in
  place, or not at all; a request fails only for a reason (no quorum of working
  servers, an object that is gone or unsound); every request ends;
* run jobs - "complete" means posted, a finished job stays finished, the panel
  stops saying "Running...";
* leaderboard - the row marked best is the best canonical score, and gets no
  worse from page to page;
* explorer - a verdict stands beside the object it is about, whatever is
  selected or arrives while a check is under way;
* conversions - where two programs read the same thing out of the same data they
  agree: the items of a set, the time in a certificate, the way out of the
  enclave, the ids of a registration;
* switchover - "Aegis restored" is true when printed, no script terminates an
  enclave it has not seen, a run evaluates only on the instance it has
  registered, Aegis comes back;
* deployment record - a readable record names one publish together with its two
  caps, the last publish is not taken back by a slower run, a registration with
  the right config succeeds.

## 2. Modules

| Module | Models | Composes |
|---|---|---|
| `EnclaveRegistry` | `enclave.move`, `attestation.move` | |
| `ScoreLedger` | `sealed_eval.move`, `attested_score.move`, `seal_policy.move`, the enclave's signatures | extends `EnclaveRegistry` |
| `Scoreboard` | what the system promises, without enclave, key, blob or transaction | |
| `ScorePipeline` | the scoring enclave, `seal-and-notarize`, `evaluate-and-post`, Walrus | instantiates `ScoreLedger`, implements `Scoreboard` |
| `KeyRelease` | what the key fetch promises: one step, as `ScorePipeline` takes it | |
| `KeyFetch` | `fetch_and_decrypt` in detail | implements `KeyRelease` |
| `RunJobs` | job store, routes, child events, run panel | |
| `Leaderboard` | queries, filters, `bestScore` | |
| `EvalExplorer` | selection, refresh, `WalrusVerifier`, `TraceVerifier` | extends `Leaderboard` |
| `Switchover` | `shared-host-switchover.sh`, `setup-network-proxy.sh`, `live-nitro-run.ts` | |
| `Deployment` | `upgrade-package.ts`, `deployment.ts`, `register-nautilus-enclave.ts` | |
| `HeldoutSet` | `validateHeldoutSetText`, `parse_items` | |
| `CertificateTime` | `format_certificate_time` | |
| `EgressProxy` | `assignProxyDestinations`, `run.sh`, the units of `setup-network-proxy.sh` | |
| `RegisterOutput` | `jsonObjects`, `extractRegisterResult` | |
| `Conversions` | one choice of an input for each of the four above | extends them |
| `ScoreLedgerProofs` (with the registry), `ScorePipelineProofs`, `KeyFetchProofs`, `RunJobsProofs`, `EvalExplorerProofs` (with the leaderboard), `SwitchoverProofs`, `DeploymentProofs`, `ConversionsProofs` | theorems | extend their modules; `ScorePipelineProofs` also cites `ScoreLedgerProofs` |
| `MC*` | constants of the TLC runs | |

### EnclaveRegistry and ScoreLedger

The variables are the shared objects on chain; every entry function is an
action whose guard is the conjunction of the function's assertions.  A Nitro
attestation document is taken as what `load_pk` and `to_pcrs` read from it: the
key and the PCRs of an image that has booted.  Cryptography is symbolic: a
signature is a record of key, intent and payload, it exists only if its key
signed, and `VerifySignature` compares the whole record.  `ScoreLedger` lets
any booted key sign anything at any time; nothing on chain depends on
the enclave's program behaving well, and `ScorePipeline` adds that program.

### ScorePipeline and Scoreboard

One enclave process (`enclaveKey`, `thread`), the runs of `evaluate-and-post`
(`run`, with the step each is at), the author's script and the blobs of Walrus.
A set is a model value with an item count; a ciphertext is the identity it is
encrypted under and its plaintext; a trace is its set, model, items and correct
answers.  Losing a reply, a timeout, an aborted transaction, a restart and an
operator who submits printed arguments are actions.  A request may name no
Walrus publisher (`WALRUS_PUBLISHER_URL` set to nothing): the enclave then
stores no trace and signs the score under an inline id (`InlineTrace`), which
the run cannot read back (`TraceUnverified`), so nothing is printed or posted.
Requests are those of the scripts; somebody who calls the enclave and the
contract by himself is in `ScoreLedger`, where anything may be signed.  `Scoreboard` has three
actions: a set is sealed, a sealed set is graded as a whole, a grade is
published.  The refinement mapping at the end of `ScorePipeline` takes the
evals as sealed sets, the score signatures as grades and the scores as the
board.

### KeyFetch

One request.  The initial state is any list of services (a server of weight w
occurs w times), any threshold, any configured and any working servers, and an
object that is intact, damaged (no keys decrypt it) or mislabelled (its text
does not hash to its identity); a key server's answer is good only while the
`Enclave` object lives.  Decryption needs `threshold` shares, and a server's key
opens all of its own; the loop counts keys, one per server.  So a server that
holds two of the shares needed is not enough by itself, where Seal would be
content with it: `QuorumSuffices` names this among the reasons for a failure
(`TooFewWork`).  The sets this repository seals have servers of weight 1, all
different.  `KeyRelease` is the step `FetchAndDecrypt` of `ScorePipeline`
without the request around it; the mapping at the end of `KeyFetch` takes the
last key needed as the release, and what becomes of the request as settled then.

### RunJobs

`store` is the map of `createJobStore`; `child` is a process with the events
`error`, exit and `close`; `panel` is the React state; `start` and `polls` are
the requests in flight.  A job is its id, status and proof links, which are
"damaged" when the pipe cut the output inside them.  Other log lines are left
out.

### Leaderboard and EvalExplorer

`sealed` and `posted` are the event lists; each query returns the newest events
of any prefix, since a node may lag, or fails.  `page` keeps the evals in the
order they are listed, a row of scores for each, and how many score events its
node knew (`at`), which only the properties read.

`EvalExplorer` adds the browser: `view` is what React keeps between renders, and
`Rendered` is one render.  A component keeps its state while it stays at its
place or under its key; so the check of the ciphertext, at one place for
whichever eval is selected, keeps its verdict over a selection, and the check of
a trace, under the key of its score, goes with its card.  Each check remembers
in `of` the object whose hash it has compared, which is what the properties
compare with the object shown.  A page arrives in the open explorer (`Refresh`,
after a run has ended), is loaded anew, or is replaced by the error page.

### Switchover

Both modes of the script have the same six steps, so a step is one action with
the script as its parameter: look up, stop the proxy, terminate, run, set up
proxies, finish.  Enclave instances are numbered; `seen` is the id a script
looked up and `asof` the newest number at that time, which only
`OnlySeenTerminated` reads.  A script goes on when its ssh session is dropped.
`file` is the instance whose attestation document lies in `/tmp` on the host,
where the next start overwrites it, and `copied` the one whose document this
run has fetched; `HeldIsRegistered` relates the two to the enclave that answers
the ingress.  `steady` is a history variable: all runs so far were begun on a
host that Aegis served and that no script was working on.  Without it
`RestoreIsReal` would blame the restore for what the operator did.

### Deployment

`record` is the JSON file, `Empty` when it has just been truncated and `Torn`
when its text does not parse; each run of a script
is a process with the record it loaded (`deployment`), the one it read again
(`base`) and what it got from the chain.  The scripts keep no lock: between the
load and the second reading a run builds, asks and waits for a transaction, and
`writeFile` truncates before it writes.  So `Truncate` and `Fill` are two
actions, `Fill` may leave the tail of anything longer that was written since the
truncation, and `Kill` comes between any two steps.  A package is named by the publish it goes back to
and a version.  Two history variables serve one property: `clashed` holds the
runs whose own rewriting overlapped, `announced` what the last publish to end
printed.  Two things the code does shaped the properties: publishes may be
recorded in another order than they were made, so "last" means the last to end;
and an upgrade leaves `packageId` at the first version, which the types need,
so `UpgradedOnce` holds and a second upgrade through the record is refused.

### HeldoutSet, CertificateTime, EgressProxy, RegisterOutput, Conversions

Pure functions, and in `Conversions` a behaviour of one step that picks an
input.  Loops are recursive functions of the number of elements read, so that
theorems can be proved about them.

A text of a set is a sequence of line breaks, blanks and whole items; the item
`odd` is JSON that `JSON.parse` takes and `serde_json` refuses (a key given
twice, half of a surrogate pair), which is why `SetSizeIsScored` lets the
enclave refuse a set that was sealed, though never score another number of
items.  `CertificateTime` states the Gregorian calendar by its successor
function, which `CertificateTimeExact` compares with the closed formula of the
code.  `EgressProxy` follows a connection from the name the enclave dials over
its loopback address and vsock port to the unit on the host, which may also run
units of an earlier manifest.  It takes it that a host name is resolved to one
of the addresses `run.sh` gave it and that a refused address is followed by the
next; a 253rd destination would get 127.0.0.256, which is no address, so
`Conversions` assumes at most 252.  `RegisterOutput` scans a text of braces
(`OPEN` and `CLOSE`), quotes, backslashes and other characters.  What the
programs print is given by the grammar of JSON instead, as lexemes: a string
between its quotes, or a single character; an object is a sequence of lexemes
whose braces are closed at its end and not before, and other programs print
braces in strings only.

## 3. Runs

| Run | Question | Bounds | States |
|---|---|---|---|
| `ledger` | do live enclave keys, scores and released keys trace back to attestations, whatever is signed, registered, rotated or destroyed | one config and object, one rotation, two keys, one eval, two scores | 249 thousand |
| `pipeline_races` | two runs over one enclave while the set file changes | two runs, two sets, four signatures | 1.3 million |
| `pipeline_board` | does the pipeline, hand posting and restarts included, implement the board, are signed gradings complete and posted ones archived, does every run end | one run, two items, two keys, fair | 472 thousand |
| `key_fetch` | is a fetch one step for its caller, does it fail for a reason only, does it end | three servers, three services, fair | 160 thousand |
| `run_jobs` | honest status with restarts and lost polls, and a panel that settles | two jobs, two polls, fair | 22 thousand |
| `explorer` | is the best score the best one, and does a stamp belong to its card | two evals, two enclaves, three scores, limits 2, one check | 1.3 million |
| `switchover` | is "Aegis restored" true, and do late scripts hit a new enclave | two runs, one manual restore, one fault, two drops | 689 thousand |
| `deployment` | what is left of the record by runs side by side | three script runs, three publishes | 41 thousand |
| `conversions` | do the two readers of one text, time, manifest or output agree | texts of five characters, 7300 days, every pair of 336 lists of destinations, 9000 outputs | 126 thousand |
| `stale_verdict` | is the verdict beside an eval its own | two evals, no score | violation |
| `final_links` | do the proof links arrive | two jobs, two polls, fair | violation |
| `finally_fails` | does the finally block repair a start that fails at the termination of Aegis | one run, fair | violation |

The bounds leave room for the cases the properties are about: two ids wherever
one object could be mistaken for another, two keys for a restart, two items for
a partly graded set, two overlapping polls for one overtaking another, more
scores than a query's limit and two unequal grades that are not fractions of the
same denominator, two runs for a script of a dead run that acts on the next, two
dropped sessions for a start and a restore that are both on their own, three
script runs for an upgrade between two publishes, five characters for an item
with a blank on each side of a line break.  `ledger` makes do with one account
and one name: with one config and one object it is the order of calls that
matters, and the theorems cover any number.  `pipeline_races` has one enclave
key and no hand posting, and `pipeline_board` has both and one run; the theorems
about the pipeline take them together.  `explorer` has one check at a time: two
checks touch different parts of `view`, and the theorem covers any number.
Every bound is a named constant that appears in a guard.
`CHECK_DEADLOCK FALSE` stands where the system may stop: all ids are used up, a
request has ended, an input has been read, or the operator does nothing more.

### Fairness

* `ScorePipeline!FairSpec`: weak fairness of the steps of a run, of the enclave
  thread while its enclave is up, and of the failure a waiting client sees when
  no answer comes.  Nothing is assumed of restarts or of the registry.
* `KeyFetch!FairSpec`: the thread runs; a silent server is a `BadAnswer`
  through the HTTP client's timeout.
* `RunJobs!FairSpec`: children end (`ScorePipeline!RunsEnd`), the server's event
  loop and the browser's timer run, and a poll that is sent again and again is
  answered and received once (strong fairness of `AnswerPoll` and
  `ReceivePoll`).  No fairness for clicks, restarts or losses.
* `Switchover!FairSpec`: scripts and `live-nitro-run` go on; an operator ends a
  hold.  No fairness for starting a run or restoring by hand.  Only
  `finally_fails` uses it.
* `Deployment` claims no liveness: a killed run is not started again.
  `EvalExplorer` claims none: the reader may stop at any point.

### Findings

1. `stale_verdict` - the ciphertext check keeps its state when another eval is
   selected: a verdict, or an answer under way, of one eval is shown beside the
   hash of another.
2. `final_links` - a late poll of the previous job replaces the job shown.
3. `finally_fails` - a start that stops Aegis's proxy and then fails to
   terminate Aegis leaves a host neither the finally block nor a restore by
   hand can repair.

Observed while modelling, without a run of their own:

* A run without `--execute` obtains a signed result and posts nothing, so an
  operator can repeat it and post the best; a result once posted can be posted
  again.  The board therefore promises that entries are true and complete, not
  that an entry is the first or only attempt.
* The panel of a run (`EvalRunPanel`) has no key either and keeps the job of the
  eval selected before, though under that job's own id.
* `verify-trace` looks for an argument that starts with `0x` to find an object
  id (`verify-trace.ts:28`), so an `--items-hash` with that prefix, which line
  56 would strip, is taken as the object.
* Every run prints its `post_score` arguments, a plaintext one included, and the
  chain accepts them from anyone.  That only sealed runs are posted is the
  script's doing, so `PostedAfterRelease` is checked with
  `HandPosting = FALSE`; the board of `pipeline_board` is kept with `TRUE` too,
  and so is that every posted score's trace is archived.
* The fetch loop compares the threshold with the number of keys, of which a
  server gives one whatever its weight (`seal_client.rs:484`): an object whose
  different servers are fewer than its threshold is never decrypted
  (`RepeatsAreRefused`).
* `bestScore` compares quotients of floats.  The model compares the fractions,
  which is the same for sets of fewer than 2^26 items.
* `jsonObjects` reads on when something else prints a lone quote, and may then
  miss the registered object; `RegistrationFound` takes it that other output
  has whole strings.
* `assert:enclave` asks the enclave for its key once.  `HeldIsRegistered` is
  about that instant: a leftover script may put another enclave behind the
  ingress a moment later, while the run goes on.
* `seal-and-notarize` reads the file once to encrypt and once to commit.  An
  edit in between gives an eval whose commitment is not of its ciphertext; the
  enclave's own check keeps such a set from being scored
  (`MisSealedNeverPosted`).
* The leaderboard's queries limit first and filter after, so a canonical score
  beyond the limit is not featured; `LeaderIsBest` is about the rows of a page.
* After an upgrade the record keeps `packageId`, so `upgrade-package` works
  once per publish (`UpgradedOnce`), and an upgrade that overlaps with a fresh
  publish leaves an `enclavePackageId` of the older one, with which no enclave
  can be registered (`RegistrationSucceeds` names this as the only cause).
* A run killed between truncation and write leaves a record that every script,
  a fresh publish too, refuses to load (`BrokenForGood`).

## 4. Proofs

Every proof is for arbitrary constants under the assumptions named in the
module that declares them.

* `ScoreLedgerProofs`, the registry: `RegistryTyped`, `EnclavesAttested`,
  `VersionsStable`, `OutdatedRemovable`, all from `RegistryInvariance`.  The
  invariant adds to the properties what makes them inductive: an enclave's
  version is not above its config's, and a history of the PCRs of past versions
  agrees with the config for the current one.
* `ScoreLedgerProofs`, the ledger: `LedgerTyped`, `ScoresProven`,
  `ReleasesProven`, `CommitmentsKept`, from `LedgerInvariance`.  The step that
  posts a score needs that the registry's invariant holds and that attested keys
  stay recorded after their objects are destroyed.
* `KeyFetchProofs`: `FetchTyped`, `QuorumIsEnough`, `SharesAreEnough`,
  `RepeatsAreRefused` and `FetchImplementsRelease`.  The invariant on the loop
  is that, while the `Enclave` object lives, every working server before the
  index has given its key; at the end of the list that makes the keys a superset
  of the working servers.  To get from keys to shares, each key is given a share
  of its own (`SharesOfKeys`), so shares are at least as many and decryption
  does not fail for want of them; if no service occurs twice they are exactly as
  many (`SharesAreEnough`), and if some do, fewer servers than the threshold are
  refused though their shares might do (`RepeatsAreRefused`).  The refinement
  maps the last key needed to the step of `KeyRelease` and every other answer to
  a stutter; it needs that an error after that step comes from the object alone.
* `SwitchoverProofs`: `HostTyped`, `LateScriptsHarmless` and `HeldRegistered`.
  The invariant says that a script has seen no enclave younger than its look,
  that a running instance's number has been given out, and counts the instances
  against the runs, restores and scripts under way, which bounds their numbers.
  `RestoresReal` adds `PeaceInv`: while all runs were begun in peace, Aegis is
  up until the start script terminates it, and again from the step at which a
  restore has run it until that restore has ended.  The second half needs that
  no start script is then still before its termination; it is, for the restore
  found the CPUs free.
* `DeploymentProofs`: `RecordTyped`, `OnePublishNamed`, `PublishKept`,
  `RegistrationsFit`, `OneUpgrade` and `TornForGood`, from `RecordInvariance`.
  A record is never wrong by accident of its last writer alone, so the
  invariant speaks of what the runs hold: whatever a run has loaded or read
  again was a sound record when read; two runs that rewrite at one time have
  clashed; two runs have made two publishes; a run that reads the record after
  the last publish ended reads its name; and a record, loaded or on disk, whose
  enclave package is of another publish is the work of an outdated upgrade.

* `ScorePipelineProofs`: `PipelineTyped`, `GradingsComplete`, `PostedCommitted`,
  `PipelineImplementsBoard`, and, while nobody posts by hand
  (`HandPosting = FALSE`), `PostedReleased` and `MisSealedUnposted`.  The first
  four come from `PipelineInv`, which follows the set from the author's script
  over Walrus into the thread and the signature: the blob an eval names is a
  ciphertext of the set it has committed to, whatever identity it is encrypted
  under, and its size is that set's; a thread works on its eval's own blob and,
  once it grades, on the committed set, and has archived the trace before it
  signs, unless its request named no publisher; a run that has printed has read
  the trace back, so a score under an inline id stays where it is; a plaintext
  run submits the committed set; every score signature on
  record is of a complete grading of a committed set, and every posted score is
  one of them.  A late thread may sign long after the script that asked is gone,
  so the invariant of threads cannot lean on their runs; it leans on evals never
  being lost or renamed (`Grows`).  The refinement then maps each action to a
  step of the board, or to a stutter when the grade was there before.  The last
  two theorems come from `ReleaseInv` on top: a sealed run and its request agree
  on the eval and the `Enclave` object; once the set is decrypted its key was
  released to that object's enclave, whose id is never used again; and since the
  enclave has then compared the text with the identity, the set was not changed
  between its two readings.  With hand posting both are false, for a plaintext
  run's result can be posted, and `pipeline_board` does not claim them.
* `ScorePipelineProofs`, the chain of the pipeline: `PipelineImplementsLedger`
  maps every step of the scripts, the enclave and the environment to a step of
  `ScoreLedger` or to a stutter.  What the ledger promises of any program
  therefore holds of this one: `PipelineScoresProven`, `PipelineReleasesProven`,
  `PipelineCommitmentsKept` and `PipelineEnclavesAttested` follow from the
  ledger's theorems through the refinement.  `PostedGenuine` puts both halves
  together, from the attestation to the board: while only runs post, a posted
  score counts every item of the set its eval committed to, for its model, under
  an attested key that had been given the Seal key of that set.
* `RunJobsProofs`: `JobsTyped`, `CompleteMeansPosted`, `FinishedIsFinal`, from
  `RunJobsInv`: a job that says complete, in the store, in a reply under way or
  on the panel, has a child that has posted, also after the server has forgotten
  the job.
* `EvalExplorerProofs`: `StampsOfTheirCards`, for any number of evals, scores
  and checks, from `ExplorerInv`: the cards kept are those of the row that
  `Selected` gives for the page at hand, and a check under a card's key is of
  the score with that id.  `ExplorerOnlyReads` is the refinement: whatever the
  reader does, the chain, the queries and the pages take the leaderboard's steps
  or none.  `LeadersBest` and `LeadersNeverDrop` come from `BoardInv`, for any
  grades, limits and lags: a row holds exactly the scores that count among those
  its query covered, newest first, without repetition.  What the filter and
  `bestScore` compute for every list is proved by induction on the number of
  elements read (below), and that unequal fractions compared by
  cross-multiplication are ordered needs positive denominators, as the contract
  demands.  `ExplorerTyped` adds `ViewTyped`, the fields of the view.
* `ConversionsProofs`: `CertificateTimesExact`, for every day since 1970.  A day
  has a unique place (era, year of the era, day of the year); the formula
  returns the place, each of the 366 days lies in its month, and the next day has
  the next place, across the end of a year, a leap year and an era.
  `DialsReachHosts`, for every list of at most 252 destinations: the lines of a
  manifest have different ports and addresses, since the number of first
  mentions before a mention grows with it.  `SetSizesScored`, for every text:
  both programs keep the same lines, for they cut at the same line feeds and
  what differs is a last carriage return or an empty last line, which hold no
  item.  `RegistrationsFound`, for every output that follows the grammar: a
  string read from outside a string is left with its closing quote and not
  before, because an escaped quote follows a backslash that is not escaped
  itself; so a lexeme moves the depth by its own braces, noise leaves it at 0,
  and an object takes it back to 0 with its last brace only.

The prover cannot use an induction theorem that takes a predicate, so induction
over lists goes by a least counterexample: `<` is well-founded on the naturals,
so a set of lengths that lack a property has a least element, unless it is empty
(`Induction`), and a recursive function is shown to exist from its values up to
each length (`Recursion`, `RunsUnique`, `KeptExists`, `BestExists`).

Assumptions on the constants, beyond their types: the publisher is an account; an
item count and a score's denominator are positive; a held-out set has at least
one item; `None` is no job or image and `Nothing` no eval; a manifest has at most
252 destinations; seconds of a day are below 86400; what is printed follows the
grammar above.

What TLC found true on the instances and is not proved is liveness: `RunsEnd`,
`FetchEnds` and `PanelSettles`, which depend on fairness and ENABLED and are out
of the prover's reach.  The three findings are counterexamples, and stay with
TLC too.

## 5. Plan

The registry, the ledger, the pipeline and its board, the key fetch, the run
jobs, the leaderboard, the explorer, the switchover, the deployment record and
the conversions are done, with the proofs of section 4.  Next would be the
attempt counters of the Walrus client.

## 6. Not modelled

* Byte formats (BCS, CBOR, ElGamal and IBE arithmetic), the text normalisation
  of the grader, HTTP and systemd themselves, wording and layout of output.
* `resolve_model_target`: three independent choices between a baked and a
  requested value; a property of it would say the same again.
* The symmetric backup key of an encryption (nothing keeps it), and the lookup
  of key server URLs (two reads; `KeyFetch` takes any servers).
* `verify-trace` and `verify-provenance` on the command line: one read, one
  hash, one comparison, with nothing beside them.
* The build of the enclave image, the download of the local model, and the demo,
  fixture (`gen-seal-vectors`, `gen-attestation-vectors`) and preflight tools.
* Dates before 1970, and how years of five digits are printed: the theorem is
  about the fields of a date.
