------------------------------ MODULE Deployment ------------------------------
(***************************************************************************)
(* The deployment record (deployments/<network>.json) and the scripts that *)
(* run on it: upgrade-package (an upgrade, a fresh publish or a dry run)   *)
(* and register-nautilus-enclave.  Each is a process of its own: it loads  *)
(* the record when it starts, sends a transaction much later, and          *)
(* upgrade-package then reads the record again and rewrites it, without a  *)
(* lock and with a truncation before the text.                             *)
(*                                                                         *)
(* A package is the publish it goes back to (its types and its two caps    *)
(* are named by that) and a version.  The Sui framework is external: an    *)
(* UpgradeCap names the latest version and a ticket for another package is *)
(* refused; a transaction is atomic; its reply may be lost.                *)
(***************************************************************************)
EXTENDS Naturals

CONSTANTS
  Scripts,       \* the script runs
  Images,        \* enclave images, as their PCRs
  MaxPublished,  \* bound on publishes
  None,          \* an absent value
  Torn,          \* a record file whose text is not JSON
  Empty          \* a record file just truncated

ASSUME DeploymentAssumption ==
  /\ MaxPublished \in Nat \ {0}
  /\ None \notin Images

VARIABLES
  published,  \* how many packages have been published
  latest,     \* latest[o]: the version the UpgradeCap of publish o names
  configs,    \* EnclaveConfigs on chain: the publish of their types, the PCRs
  enclaves,   \* Enclaves on chain, as the config they were registered under
  record,     \* the record file
  script,     \* the script runs, kept after they end
  clashed,    \* history: runs whose rewriting overlapped with another's
  announced   \* history: what the last publish to end printed as its package

vars ==
  <<published, latest, configs, enclaves, record, script, clashed, announced>>

Origins == 1..MaxPublished
Unreadable == {Torn, Empty}
Package == [origin : Origins, version : Nat \ {0}]
First(o) == [origin |-> o, version |-> 1]

\* The fields of Deployment a script reads; caps are named by their publish.
Record ==
  [packageId : Package, upgradeCapId : Origins, enclaveCapId : Origins,
   enclavePackageId : Package]

Config == [origin : Origins, pcrs : Images]

Modes == {"upgrade", "publish_new", "dry_run", "register"}

\* Where a run is.  "refused": its transaction did not succeed.  "failed":
\* it threw anything else.  "killed": the process is gone.
Places == {"idle", "building", "ready", "configured", "sent", "read",
           "writing", "done", "refused", "failed", "killed"}

Run ==
  [mode : Modes, at : Places, deployment : Record \cup {None},
   base : Record \cup {None}, made : Origins \cup {None},
   config : Config \cup {None}, pcrs : Images, document : Images]

Init ==
  /\ published = 1
  /\ latest = [o \in Origins |-> 1]
  /\ configs = {}
  /\ enclaves = {}
  /\ record = [packageId |-> First(1), upgradeCapId |-> 1,
               enclaveCapId |-> 1, enclavePackageId |-> First(1)]
  /\ \E i \in Images :
       script = [s \in Scripts |->
                   [mode |-> "dry_run", at |-> "idle", deployment |-> None,
                    base |-> None, made |-> None, config |-> None,
                    pcrs |-> i, document |-> i]]
  /\ clashed = {}
  /\ announced = 1

chainVars == <<published, latest, configs, enclaves>>
historyVars == <<clashed, announced>>

At(s, place) == script[s].at = place
Goes(s, place) == script' = [script EXCEPT ![s].at = place]

\* JSON.parse throws on a torn file and on an empty one.  Mutant: an unreadable record counts as
\* the one of the first publish.
ParsedOrFirst(file) ==
  IF file \in Unreadable
  THEN {[packageId |-> First(1), upgradeCapId |-> 1, enclaveCapId |-> 1,
         enclavePackageId |-> First(1)]}
  ELSE {file}
Parsed(file) == IF file \in Unreadable THEN {} ELSE {file}

-----------------------------------------------------------------------------
(* upgrade-package.                                                        *)

\* main: arguments, loadDeployment.
Start(s, mode) ==
  /\ At(s, "idle")
  /\ \E d \in Parsed(record) :
       script' = [script EXCEPT ![s].mode = mode, ![s].deployment = d,
                                ![s].at = "building"]
  /\ UNCHANGED <<chainVars, record, historyVars>>

\* loadDeployment throws: no record, for a fresh publish too.
StartFails(s) ==
  /\ At(s, "idle")
  /\ Parsed(record) = {}
  /\ Goes(s, "failed")
  /\ UNCHANGED <<chainVars, record, historyVars>>

\* buildPackage has printed its JSON line, at the third attempt at the latest;
\* a dry run prints its summary and returns.
Build(s) ==
  /\ At(s, "building")
  /\ Goes(s, IF script[s].mode = "dry_run" THEN "done" ELSE "ready")
  /\ UNCHANGED <<chainVars, record, historyVars>>

BuildFails(s) ==
  /\ At(s, "building")
  /\ Goes(s, "failed")
  /\ UNCHANGED <<chainVars, record, historyVars>>

\* publishFreshPackage up to the reply: attestation::init and the publish
\* itself mint the two caps.  When the reply is lost, the call throws.
PublishNew(s, reply) ==
  /\ At(s, "ready") /\ script[s].mode = "publish_new"
  /\ published < MaxPublished
  /\ published' = published + 1
  /\ script' = [script EXCEPT ![s].made = published + 1, ![s].at = reply]
  /\ UNCHANGED <<latest, configs, enclaves, record, historyVars>>

\* What the framework checks of authorize_upgrade, upgrade, commit_upgrade.
Upgradable(d) ==
  d.packageId = [origin |-> d.upgradeCapId, version |-> latest[d.upgradeCapId]]

Upgrade(s, reply) ==
  LET d == script[s].deployment
  IN  /\ At(s, "ready") /\ script[s].mode = "upgrade"
      /\ Upgradable(d)
      /\ latest' = [latest EXCEPT ![d.upgradeCapId] = @ + 1]
      /\ Goes(s, reply)
      /\ UNCHANGED <<published, configs, enclaves, record, historyVars>>

UpgradeRefused(s) ==
  /\ At(s, "ready") /\ script[s].mode = "upgrade"
  /\ ~Upgradable(script[s].deployment)
  /\ Goes(s, "refused")
  /\ UNCHANGED <<chainVars, record, historyVars>>

\* Out of gas, no network: nothing reaches the chain.
TransactionFails(s) ==
  /\ At(s, "ready") /\ script[s].mode \in {"publish_new", "upgrade"}
  /\ Goes(s, "failed")
  /\ UNCHANGED <<chainVars, record, historyVars>>

\* updateDeployment: the record is read again.  Mutant: the one loaded at the
\* start is patched.
Rewriting == {s \in Scripts : script[s].at \in {"read", "writing"}}

LoadedRecord(s) == {script[s].deployment}
CurrentRecord(s) == Parsed(record)

ReadAgain(s) ==
  /\ At(s, "sent")
  /\ \E b \in CurrentRecord(s) :
       script' = [script EXCEPT ![s].base = b, ![s].at = "read"]
  /\ clashed' = IF Rewriting = {} THEN clashed
                ELSE clashed \cup Rewriting \cup {s}
  /\ UNCHANGED <<chainVars, record, announced>>

ReadAgainFails(s) ==
  /\ At(s, "sent")
  /\ CurrentRecord(s) = {}
  /\ Goes(s, "failed")
  /\ UNCHANGED <<chainVars, record, historyVars>>

\* writeFile opens the file, which empties it ...
Truncate(s) ==
  /\ At(s, "read")
  /\ record' = Empty
  /\ Goes(s, "writing")
  /\ UNCHANGED <<chainVars, historyVars>>

\* The patch of a publish.  Mutants: a cap is not found, the cap of the old
\* package stays, the enclave package stays.
CapNotFound(base, o) ==
  [packageId |-> First(o), upgradeCapId |-> None, enclaveCapId |-> o,
   enclavePackageId |-> First(o)]
KeepsOldCap(base, o) ==
  [packageId |-> First(o), upgradeCapId |-> o,
   enclaveCapId |-> base.enclaveCapId, enclavePackageId |-> First(o)]
KeepsEnclavePackage(base, o) ==
  [packageId |-> First(o), upgradeCapId |-> o, enclaveCapId |-> o,
   enclavePackageId |-> base.enclavePackageId]
PublishPatch(base, o) ==
  [packageId |-> First(o), upgradeCapId |-> o, enclaveCapId |-> o,
   enclavePackageId |-> First(o)]

\* The patch of an upgrade, which creates no Cap: init runs on publishing
\* only.  Mutant: the record follows the upgrade.
FollowsUpgrade(base, d) ==
  [base EXCEPT !.packageId.version = latest[d.upgradeCapId],
               !.enclavePackageId = d.packageId]
UpgradePatch(base, d) == [base EXCEPT !.enclavePackageId = d.packageId]

Patched(s) ==
  IF script[s].mode = "publish_new"
  THEN PublishPatch(script[s].base, script[s].made)
  ELSE UpgradePatch(script[s].base, script[s].deployment)

\* ... and writes the text from its beginning: over anything longer that came
\* after the truncation, another run's text or one already torn, it leaves a
\* tail.
Fill(s) ==
  /\ At(s, "writing")
  /\ record' \in {Patched(s)} \cup (IF record = Empty THEN {} ELSE {Torn})
  /\ Goes(s, "done")
  /\ announced' = IF script[s].mode = "publish_new" THEN script[s].made
                  ELSE announced
  /\ UNCHANGED <<chainVars, clashed>>

-----------------------------------------------------------------------------
(* register-nautilus-enclave.                                              *)

\* main: loadDeployment, loadPcrs (environment or file) and the attestation
\* document, which may be of another image; --config-id skips a transaction.
\* --cap-id and --type-arg are left at their defaults.
StartRegister(s, pcrs, document, given) ==
  /\ At(s, "idle")
  /\ \E d \in Parsed(record) :
       script' = [script EXCEPT
         ![s].mode = "register", ![s].deployment = d, ![s].pcrs = pcrs,
         ![s].document = document, ![s].config = given,
         ![s].at = IF given = None THEN "ready" ELSE "configured"]
  /\ UNCHANGED <<chainVars, record, historyVars>>

\* create_enclave_config of packageId takes the Cap of its own publish only.
CapFits(d) == d.enclaveCapId = d.packageId.origin

CreateConfig(s, reply) ==
  LET d == script[s].deployment
      c == [origin |-> d.packageId.origin, pcrs |-> script[s].pcrs]
  IN  /\ At(s, "ready") /\ script[s].mode = "register"
      /\ CapFits(d)
      /\ configs' = configs \cup {c}
      /\ script' = [script EXCEPT ![s].config = c, ![s].at = reply]
      /\ UNCHANGED <<published, latest, enclaves, record, historyVars>>

\* register_enclave of enclavePackageId, for the type of packageId: all three
\* must go back to one publish, and load_pk compares the PCRs.
Registrable(s) ==
  LET d == script[s].deployment
      c == script[s].config
  IN  /\ d.enclavePackageId.origin = d.packageId.origin
      /\ c.origin = d.packageId.origin
      /\ c.pcrs = script[s].document

RegisterEnclave(s, reply) ==
  /\ At(s, "configured")
  /\ Registrable(s)
  /\ enclaves' = enclaves \cup {script[s].config}
  /\ Goes(s, reply)
  /\ UNCHANGED <<published, latest, configs, record, historyVars>>

RegisterRefused(s) ==
  /\ script[s].mode = "register"
  /\ \/ At(s, "ready") /\ ~CapFits(script[s].deployment)
     \/ At(s, "configured") /\ ~Registrable(s)
  /\ Goes(s, "refused")
  /\ UNCHANGED <<chainVars, record, historyVars>>

-----------------------------------------------------------------------------

\* Any run can be killed between two steps.
Kill(s) ==
  /\ script[s].at \in
       {"building", "ready", "configured", "sent", "read", "writing"}
  /\ Goes(s, "killed")
  /\ UNCHANGED <<chainVars, record, historyVars>>

Next ==
  \E s \in Scripts :
     \/ \E m \in Modes \ {"register"} : Start(s, m)
     \/ \E p, i \in Images, c \in configs \cup {None} :
           StartRegister(s, p, i, c)
     \/ StartFails(s)
     \/ Build(s)
     \/ BuildFails(s)
     \/ \E r \in {"sent", "failed"} : PublishNew(s, r)
     \/ \E r \in {"sent", "failed"} : Upgrade(s, r)
     \/ UpgradeRefused(s)
     \/ TransactionFails(s)
     \/ ReadAgain(s)
     \/ ReadAgainFails(s)
     \/ Truncate(s)
     \/ Fill(s)
     \/ \E r \in {"configured", "failed"} : CreateConfig(s, r)
     \/ \E r \in {"done", "failed"} : RegisterEnclave(s, r)
     \/ RegisterRefused(s)
     \/ Kill(s)

Spec == Init /\ [][Next]_vars

-----------------------------------------------------------------------------
(* Properties.                                                             *)

TypeOK ==
  /\ published \in Origins
  /\ latest \in [Origins -> Nat \ {0}]
  /\ configs \subseteq Config
  /\ enclaves \subseteq configs
  /\ record \in Record \cup Unreadable
  /\ script \in [Scripts -> Run]
  /\ clashed \subseteq Scripts
  /\ announced \in Origins

\* A readable record names one publish with both of its caps, whatever runs
\* side by side and wherever one dies, and names it by its first version: the
\* one in whose name the leaderboard's event types and the enclave's type
\* argument are written (updateDeployment and the two patches).
RecordNamesOnePublish ==
  record \notin Unreadable =>
    /\ record.packageId.version = 1
    /\ record.upgradeCapId = record.packageId.origin
    /\ record.enclaveCapId = record.packageId.origin

\* A publish is not taken back by a run that loaded the record long before:
\* the record names the package the last publish to end has printed, unless
\* that publish's own read and rewrite overlapped with another's.  A run that
\* was only building, or waiting for its transaction, does no harm, for
\* updateDeployment reads the record again.
LastPublishNamed ==
  \A s \in Scripts \ clashed :
     /\ script[s].mode = "publish_new"
     /\ script[s].made = announced
     /\ At(s, "done")
     /\ record \notin Unreadable
     => record.packageId.origin = announced

\* An upgrade that loaded the record before a publish rewrote it.
Outdated(s) ==
  /\ script[s].mode = "upgrade" /\ At(s, "done")
  /\ script[s].base.packageId # script[s].deployment.packageId

\* The config in hand is of another image or another publish.
ForeignConfig(s) ==
  LET c == script[s].config
  IN  /\ c \in Config
      /\ \/ c.pcrs # script[s].document
         \/ c.origin # script[s].deployment.packageId.origin

\* A registration with the right config is refused by the chain only after an
\* outdated upgrade has put its own enclavePackageId next to the packageId of
\* a later publish: no crash and no other order of runs leaves a record that
\* names a Cap, a package and an enclave package that do not go together.
RegistrationSucceeds ==
  \A s \in Scripts :
     /\ script[s].mode = "register"
     /\ At(s, "refused")
     => \/ ForeignConfig(s)
        \/ \E u \in Scripts : Outdated(u)

\* The record keeps the first version's id, so a package can be upgraded once
\* only: every later upgrade asks for a package its cap no longer names.
UpgradedOnce == \A o \in Origins : latest[o] <= 2

\* A record left unreadable by runs that are gone stays so: nobody gets as far as
\* rewriting it, a fresh publish neither (loadDeployment, updateDeployment).
Broken == record \in Unreadable /\ Rewriting = {}
BrokenForGood == [][Broken => Broken']_vars

=============================================================================
