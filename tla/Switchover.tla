----------------------------- MODULE Switchover -----------------------------
(***************************************************************************)
(* The shared Nitro host: live-nitro-run.ts, which takes the host from     *)
(* Aegis, runs SealedBench on it and gives it back, and the two modes of   *)
(* shared-host-switchover.sh it starts over ssh.                           *)
(*                                                                         *)
(* The two modes mirror each other: look up the enclave to stop, stop its  *)
(* proxy, terminate it by the id seen, run the other one, set up its       *)
(* proxies.  A script is a process of its own: when its ssh session drops  *)
(* or live-nitro-run is killed it runs on.  The allocator has CPUs for one *)
(* enclave, so nitro-cli refuses to run a second.                          *)
(***************************************************************************)
EXTENDS Naturals

CONSTANTS
  Faulty,       \* <<script, step>> pairs that may fail on their own
  MaxFaults,    \* bound on such failures
  MaxDrops,     \* bound on dropped ssh sessions
  Interrupts,   \* whether signals may kill live-nitro-run
  MayKeep,      \* whether runs may be told not to restore Aegis
  None,         \* no attestation document
  MaxRuns,      \* bound on runs of live-nitro-run
  MaxManual     \* bound on restores by hand

Enclaves == {"aegis", "bench"}
Scripts == {"start", "restore", "manual"}
Steps == {"lookup", "unproxy", "terminate", "run", "proxy", "finish"}

ASSUME SwitchoverAssumption ==
  /\ Faulty \subseteq Scripts \X Steps
  /\ MaxFaults \in Nat /\ MaxDrops \in Nat
  /\ Interrupts \in BOOLEAN /\ MayKeep \in BOOLEAN
  /\ MaxRuns \in Nat \ {0} /\ MaxManual \in Nat

VARIABLES
  up,        \* the instance of each enclave that runs, 0 for none
  last,      \* the last instance id nitro-cli has given out
  inbound,   \* whether aegis-inbound-proxy.service runs
  ingress,   \* whose CID sealedbench-ingress.service connects to, or "none"
  file,      \* the instance whose attestation document lies in /tmp
  script,    \* each script's step, the id it looked up, `last` at that time
  main,      \* where live-nitro-run is
  copied,    \* the instance whose document this run copied and registers
  used,      \* faults, drops, runs and manual restores so far
  steady     \* history: every run so far was begun on a host that Aegis
             \* served and no script was still working on

vars ==
  <<up, last, inbound, ingress, file, script, main, copied, used, steady>>

Ids == 0 .. 1 + MaxRuns + MaxRuns + MaxManual
Idle == [pc |-> "idle", seen |-> 0, asof |-> 0]
Instances == [enclave : Enclaves, id : Ids \ {0}]

\* The types; at most one enclave has the CPUs.
TypeOK ==
  /\ up \in [Enclaves -> Ids]
  /\ \E e \in Enclaves : up[e] = 0
  /\ last \in Ids
  /\ inbound \in BOOLEAN
  /\ ingress \in Enclaves \cup {"none"}
  /\ script \in [Scripts -> [pc : Steps \cup {"idle", "ok", "failed"},
                             seen : Ids, asof : Ids]]
  /\ file \in Instances \cup {None}
  /\ main \in {"idle", "starting", "copying", "registering", "asserting",
              "holding", "restoring", "killed"}
  /\ copied \in Instances \cup {None}
  /\ used \in [faults : 0 .. MaxFaults, drops : 0 .. MaxDrops,
               runs : 0 .. MaxRuns, manual : 0 .. MaxManual]
  /\ steady \in BOOLEAN

\* Aegis serves; live-nitro-run has not been started.
Init ==
  /\ up = [aegis |-> 1, bench |-> 0]
  /\ last = 1
  /\ inbound = TRUE
  /\ ingress = "none"
  /\ script = [s \in Scripts |-> Idle]
  /\ file = None
  /\ main = "idle"
  /\ copied = None
  /\ used = [faults |-> 0, drops |-> 0, runs |-> 0, manual |-> 0]
  /\ steady = TRUE

-----------------------------------------------------------------------------
(* shared-host-switchover.sh.                                              *)

\* The enclave a script stops, and the one it runs.
Stops(s) == IF s = "start" THEN "aegis" ELSE "bench"
Runs(s) == IF s = "start" THEN "bench" ELSE "aegis"

Running(s) == script[s].pc \in Steps
NoneUp == \A e \in Enclaves : up[e] = 0
AegisServes == up["aegis"] # 0 /\ inbound

Began(s) == [script EXCEPT ![s] = [pc |-> "lookup", seen |-> 0, asof |-> 0]]
At(s, step) == script[s].pc = step
Goto(s, step) == script' = [script EXCEPT ![s].pc = step]

\* enclave_id_by_name.
Lookup(s) ==
  /\ At(s, "lookup")
  /\ script' = [script EXCEPT ![s].pc = "unproxy", ![s].seen = up[Stops(s)],
                            ![s].asof = last]
  /\ UNCHANGED <<up, last, inbound, ingress, file, main, copied, used, steady>>

\* systemctl stop, whose failure is ignored.
Unproxy(s) ==
  /\ At(s, "unproxy")
  /\ inbound' = IF s = "start" THEN FALSE ELSE inbound
  /\ ingress' = IF s = "start" THEN ingress ELSE "none"
  /\ Goto(s, "terminate")
  /\ UNCHANGED <<up, last, file, main, copied, used, steady>>

\* What terminate-enclave hits.  Mutant: it is given the name, not the id.
ByName(s) == up[Stops(s)] # 0
ById(s) == script[s].seen = up[Stops(s)]

\* Nothing was seen: nothing to do.  The id seen is gone: nitro-cli fails, and
\* with it, under set -e, the script.
Terminate(s) ==
  /\ At(s, "terminate")
  /\ \/ /\ script[s].seen = 0
        /\ Goto(s, "run")
        /\ UNCHANGED up
     \/ /\ script[s].seen # 0
        /\ ById(s)
        /\ up' = [up EXCEPT ![Stops(s)] = 0]
        /\ Goto(s, "run")
     \/ /\ script[s].seen # 0
        /\ ~ById(s)
        /\ Goto(s, "failed")
        /\ UNCHANGED up
  /\ UNCHANGED <<last, inbound, ingress, file, main, copied, used, steady>>

\* make run-enclave: nitro-cli finds CPUs in the pool or fails.  Mutant: each
\* enclave has CPUs of its own.
OwnCpus(s) == up[Runs(s)] = 0
CpusFree(s) == NoneUp

\* Mutant: the script goes on when nitro-cli has failed.
IgnoreFailure(s) == "proxy"
AfterRun(s) == IF CpusFree(s) THEN "proxy" ELSE "failed"

RunEnclave(s) ==
  /\ At(s, "run")
  /\ IF CpusFree(s)
     THEN /\ last' = last + 1
          /\ up' = [up EXCEPT ![Runs(s)] = last']
     ELSE UNCHANGED <<up, last>>
  /\ Goto(s, AfterRun(s))
  /\ UNCHANGED <<inbound, ingress, file, main, copied, used, steady>>

\* setup-network-proxy.sh: the ingress is given the CID of the first enclave
\* described, whichever it is.  Aegis's script of that name is external; like
\* this one it needs a running enclave.
SetupProxy(s) ==
  /\ At(s, "proxy")
  /\ IF NoneUp
     THEN Goto(s, "failed") /\ UNCHANGED ingress
     ELSE /\ Goto(s, "finish")
          /\ ingress' = IF s = "start" THEN CHOOSE e \in Enclaves : up[e] # 0
                        ELSE ingress
  /\ UNCHANGED <<up, last, inbound, file, main, copied, used, steady>>

\* start-sealedbench fetches the attestation of whoever answers the ingress,
\* into a file that is emptied first; restore-aegis restarts the inbound proxy.
Answering == ingress # "none" /\ up[ingress] # 0

Finish(s) ==
  /\ At(s, "finish")
  /\ IF s = "start"
     THEN /\ Goto(s, IF Answering THEN "ok" ELSE "failed")
          /\ file' = IF Answering
                     THEN [enclave |-> ingress, id |-> up[ingress]] ELSE None
          /\ UNCHANGED inbound
     ELSE Goto(s, "ok") /\ inbound' = TRUE /\ UNCHANGED file
  /\ UNCHANGED <<up, last, ingress, main, copied, used, steady>>

ScriptStep(s) ==
  \/ Lookup(s) \/ Unproxy(s) \/ Terminate(s)
  \/ RunEnclave(s) \/ SetupProxy(s) \/ Finish(s)

\* A command fails for a reason of its own and set -e ends the script.
Fault(s) ==
  /\ Running(s)
  /\ <<s, script[s].pc>> \in Faulty
  /\ used.faults < MaxFaults
  /\ Goto(s, "failed")
  /\ used' = [used EXCEPT !.faults = @ + 1]
  /\ UNCHANGED <<up, last, inbound, ingress, file, main, copied, steady>>

-----------------------------------------------------------------------------
(* live-nitro-run.ts.                                                      *)

\* Bound: a start script left over from a dead run ends before the next begins.
BeginRun ==
  /\ main \in {"idle", "killed"}
  /\ ~Running("start")
  /\ used.runs < MaxRuns
  /\ main' = "starting"
  /\ script' = Began("start")
  /\ used' = [used EXCEPT !.runs = @ + 1]
  /\ steady' = (steady /\ AegisServes /\ \A s \in Scripts : ~Running(s))
  /\ UNCHANGED <<up, last, inbound, ingress, file, copied>>

\* The start script has ended well.
StartOk ==
  /\ main = "starting"
  /\ At("start", "ok")
  /\ main' = "copying"
  /\ UNCHANGED <<up, last, inbound, ingress, file, script, copied, used, steady>>

\* scp of the document and of the PCRs of the SealedBench image.
CopyAttestation ==
  /\ main = "copying"
  /\ main' = "registering"
  /\ copied' = file
  /\ UNCHANGED <<up, last, inbound, ingress, file, script, used, steady>>

\* register:enclave sends the copied document with those PCRs to the chain,
\* which compares them, and prints the Enclave it made.  Mutant: it does not
\* compare.
AnyDocument == copied # None
DocumentFits == copied # None /\ copied.enclave = "bench"

Register ==
  /\ main = "registering"
  /\ DocumentFits
  /\ main' = "asserting"
  /\ UNCHANGED <<up, last, inbound, ingress, file, script, copied, used, steady>>

\* Through a tunnel to the ingress: the health check answers, and the key of
\* the enclave that answers is the one registered (each instance draws a fresh
\* one).  The step is the instant of that answer: the object it is compared with
\* does not change on chain, and the exit of assert:enclave reads nothing more.
KeyMatches == Answering /\ copied = [enclave |-> ingress, id |-> up[ingress]]

\* The frontend is served until a signal comes, or the eval is scored.
AssertKey ==
  /\ main = "asserting"
  /\ KeyMatches
  /\ main' = "holding"
  /\ UNCHANGED <<up, last, inbound, ingress, file, script, copied, used, steady>>

\* The finally block, from whichever step main is at.
FinallyDue ==
  \/ main = "starting" /\ At("start", "failed")
  \/ main \in {"copying", "registering", "asserting", "holding"}

Restore ==
  /\ FinallyDue
  /\ ~Running("restore")
  /\ main' = "restoring"
  /\ copied' = None
  /\ script' = Began("restore")
  /\ UNCHANGED <<up, last, inbound, ingress, file, used, steady>>

\* --no-restore-aegis: the host is left to SealedBench.
KeepHost ==
  /\ MayKeep
  /\ FinallyDue
  /\ main' = "idle"
  /\ copied' = None
  /\ UNCHANGED <<up, last, inbound, ingress, file, script, used, steady>>

\* The outcome of the restore is only logged.
Done ==
  /\ main = "restoring"
  /\ ~Running("restore")
  /\ main' = "idle"
  /\ UNCHANGED <<up, last, inbound, ingress, file, script, copied, used, steady>>

\* The ssh session of the script main waits for is lost; the script is not.
Drop ==
  /\ used.drops < MaxDrops
  /\ used' = [used EXCEPT !.drops = @ + 1]
  /\ \/ /\ main = "starting"
        /\ ~Running("restore")
        /\ main' = "restoring"
        /\ script' = Began("restore")
     \/ /\ main = "restoring"
        /\ main' = "idle"
        /\ UNCHANGED script
  /\ UNCHANGED <<up, last, inbound, ingress, file, copied, steady>>

\* Only waitForStop installs handlers: anywhere else, and in a run that is
\* evaluating, the process ends at once.
Interrupt ==
  /\ Interrupts
  /\ main \notin {"idle", "killed"}
  /\ main' = "killed"
  /\ copied' = None
  /\ UNCHANGED <<up, last, inbound, ingress, file, script, used, steady>>

\* An operator runs restore-aegis on the host.
ManualRestore ==
  /\ main \in {"idle", "killed"}
  /\ ~inbound
  /\ ~Running("manual")
  /\ used.manual < MaxManual
  /\ script' = Began("manual")
  /\ used' = [used EXCEPT !.manual = @ + 1]
  /\ UNCHANGED <<up, last, inbound, ingress, file, main, copied, steady>>

-----------------------------------------------------------------------------

MainStep ==
  \/ BeginRun \/ StartOk \/ CopyAttestation \/ Register \/ AssertKey
  \/ Restore \/ Done \/ ManualRestore

Next ==
  \/ \E s \in Scripts : ScriptStep(s) \/ Fault(s)
  \/ MainStep
  \/ KeepHost \/ Drop \/ Interrupt

Spec == Init /\ [][Next]_vars

\* Scripts and live-nitro-run keep going; someone ends a hold in the end.
Fairness ==
  /\ \A s \in Scripts : WF_vars(ScriptStep(s))
  /\ WF_vars(StartOk) /\ WF_vars(Restore) /\ WF_vars(Done)

FairSpec == Spec /\ Fairness

-----------------------------------------------------------------------------
(* Properties.                                                             *)

\* The last line of restore-aegis, "Aegis restored", is true when printed,
\* whatever a start left over from a dropped session or a killed run, or a
\* second restore, still does, on a host where runs are begun in peace.
RestoreIsReal ==
  [][steady => \A s \in {"restore", "manual"} :
       (~At(s, "ok") /\ script'[s].pc = "ok") => AegisServes']_vars

\* "Terminates enclaves only by explicit ID": a script terminates no enclave
\* started after its look, however late it acts on what it saw.
OnlySeenTerminated ==
  [][\A e \in Enclaves : (up[e] # 0 /\ up'[e] = 0) =>
       \E s \in Scripts : At(s, "terminate") /\ ~At(s, "terminate")'
                          /\ up[e] <= script[s].asof]_vars

\* A run evaluates, or offers itself to the frontend, only on a SealedBench
\* instance that it has itself registered and that answers the ingress when it
\* is asked for its key, whatever leftover scripts have put behind the ingress
\* or into the attestation file since (register:enclave, assert:enclave).
HeldIsRegistered ==
  [][(main # "holding" /\ main' = "holding") =>
       /\ up["bench"] # 0 /\ ingress = "bench"
       /\ copied = [enclave |-> "bench", id |-> up["bench"]]]_vars

\* "It starts SealedBench, registers attestation, and restores Aegis in a
\* finally block": a run, wherever it stops, ends with Aegis serving.
AegisComesBack == main = "starting" ~> (main = "idle" /\ AegisServes)
=============================================================================
