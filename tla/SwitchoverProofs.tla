--------------------------- MODULE SwitchoverProofs ---------------------------
(***************************************************************************)
(* The shared host keeps its types, with at most one enclave on its CPUs,  *)
(* and no script terminates an enclave it has not seen, for any faults,    *)
(* drops, signals and numbers of runs; a run holds the host only for an    *)
(* enclave it has registered, and a restore that reports success is one.   *)
(***************************************************************************)
EXTENDS Switchover, Integers, TLAPS

ScriptRecord == [pc : Steps \cup {"idle", "ok", "failed"}, seen : Nat, asof : Nat]

Document == [enclave : Enclaves, id : Nat \ {0}]

\* The types without the bound on instance ids.
HostInv ==
  /\ up \in [Enclaves -> Nat]
  /\ \E e \in Enclaves : up[e] = 0
  /\ last \in Nat
  /\ inbound \in BOOLEAN
  /\ ingress \in Enclaves \cup {"none"}
  /\ script \in [Scripts -> ScriptRecord]
  /\ file \in Document \cup {None}
  /\ main \in {"idle", "starting", "copying", "registering", "asserting",
              "holding", "restoring", "killed"}
  /\ copied \in Document \cup {None}
  /\ used \in [faults : 0 .. MaxFaults, drops : 0 .. MaxDrops,
               runs : 0 .. MaxRuns, manual : 0 .. MaxManual]
  /\ steady \in BOOLEAN

\* What was seen existed when it was looked up, and ids only grow.
AgeInv ==
  /\ \A e \in Enclaves : up[e] <= last
  /\ \A s \in Scripts : script[s].seen <= script[s].asof /\ script[s].asof <= last
  /\ file = None \/ file.id <= last
  /\ copied = None \/ copied.id <= last

\* What is to be asserted has been registered.
BenchInv == main = "asserting" => copied # None /\ copied.enclave = "bench"

\* Enclaves that scripts at work and an unfinished run may still start.
Before == {"lookup", "unproxy", "terminate", "run"}
Due(s) == IF script[s].pc \in Before THEN 1 ELSE 0
DueByMain == 
  IF main \in {"starting", "copying", "registering", "asserting", "holding"}
  THEN 1 ELSE 0

CountInv ==
  last + Due("start") + Due("restore") + Due("manual") + DueByMain
    <= 1 + used.runs + used.runs + used.manual

IInv == HostInv /\ AgeInv /\ BenchInv /\ CountInv

LEMMA InitInv == Init => IInv
  BY SwitchoverAssumption DEF Init, IInv, HostInv, AgeInv, BenchInv, CountInv, ScriptRecord,
     Enclaves, Scripts, Steps, Idle, Due, DueByMain, Before

\* The invariant gives the types: ids are bounded by the runs so far.
LEMMA InvTyped == IInv => TypeOK
<1> SUFFICES ASSUME IInv PROVE TypeOK
  OBVIOUS
<1> USE SwitchoverAssumption DEF IInv
<1>1. /\ Due("start") \in 0..1 /\ Due("restore") \in 0..1
      /\ Due("manual") \in 0..1 /\ DueByMain \in 0..1
  BY DEF Due, DueByMain
<1>2. last <= 1 + used.runs + used.runs + used.manual
  BY <1>1 DEF CountInv, HostInv
<1>3. used.runs \in 0..MaxRuns /\ used.manual \in 0..MaxManual
  BY DEF HostInv
<1>4. last <= 1 + MaxRuns + MaxRuns + MaxManual
  BY <1>2, <1>3 DEF HostInv
<1>5. \A i \in Nat : i <= last => i \in Ids
  BY <1>4 DEF Ids, HostInv
<1>6. up \in [Enclaves -> Ids]
  BY <1>5 DEF HostInv, AgeInv
<1>7. \A s \in Scripts : script[s] \in
        [pc : Steps \cup {"idle", "ok", "failed"}, seen : Ids, asof : Ids]
  <2> TAKE s \in Scripts
  <2>1. script[s] \in ScriptRecord
    BY DEF HostInv
  <2>2. script[s].seen \in Nat /\ script[s].asof \in Nat
    BY <2>1 DEF ScriptRecord
  <2>3. script[s].seen <= last /\ script[s].asof <= last
    BY <2>2 DEF AgeInv, HostInv
  <2> QED
    BY <2>1, <2>2, <2>3, <1>5 DEF ScriptRecord
<1>8. file \in Instances \cup {None} /\ copied \in Instances \cup {None}
  BY <1>5 DEF HostInv, AgeInv, Document, Instances
<1> QED
  BY <1>5, <1>6, <1>7, <1>8 DEF HostInv, TypeOK

\* Every step keeps it.
LEMMA NextInv == IInv /\ [Next]_vars => IInv'
<1> SUFFICES ASSUME IInv, [Next]_vars PROVE IInv'
  OBVIOUS
<1> USE SwitchoverAssumption DEF IInv, Enclaves, Scripts
<1>1. \A s \in Scripts : /\ script[s] \in ScriptRecord
                         /\ script[s].seen \in Nat /\ script[s].asof \in Nat
  BY DEF HostInv, ScriptRecord
<1>2. /\ used.faults \in 0..MaxFaults /\ used.drops \in 0..MaxDrops
      /\ used.runs \in 0..MaxRuns /\ used.manual \in 0..MaxManual
  BY DEF HostInv
<1>a. ASSUME NEW s \in Scripts, Lookup(s) PROVE IInv'
  <2>1. HostInv'
    BY <1>a, <1>1 DEF Lookup, At, Stops, HostInv, ScriptRecord, Steps
  <2>2. AgeInv'
    BY <1>a, <1>1 DEF Lookup, At, Stops, HostInv, AgeInv, ScriptRecord
  <2>3. CountInv'
    BY <1>a, <1>1 DEF Lookup, At, HostInv, ScriptRecord, CountInv, Due, DueByMain,
       Before
  <2>4. BenchInv'
    BY <1>a DEF Lookup, BenchInv
  <2> QED
    BY <2>1, <2>2, <2>3, <2>4
<1>b. ASSUME NEW s \in Scripts, Unproxy(s) PROVE IInv'
  <2>1. HostInv'
    BY <1>b, <1>1 DEF Unproxy, At, Goto, HostInv, ScriptRecord, Steps
  <2>2. AgeInv'
    BY <1>b, <1>1 DEF Unproxy, At, Goto, HostInv, AgeInv, ScriptRecord
  <2>3. CountInv'
    BY <1>b, <1>1 DEF Unproxy, At, Goto, HostInv, ScriptRecord, CountInv, Due,
       DueByMain, Before
  <2>4. BenchInv'
    BY <1>b DEF Unproxy, BenchInv
  <2> QED
    BY <2>1, <2>2, <2>3, <2>4
<1>c. ASSUME NEW s \in Scripts, Terminate(s) PROVE IInv'
  <2>1. HostInv'
    BY <1>c, <1>1 DEF Terminate, At, Goto, Stops, HostInv, ScriptRecord, Steps
  <2>2. AgeInv'
    BY <1>c, <1>1 DEF Terminate, At, Goto, Stops, HostInv, AgeInv, ScriptRecord
  <2>3. CountInv'
    BY <1>c, <1>1 DEF Terminate, At, Goto, HostInv, ScriptRecord, CountInv, Due,
       DueByMain, Before
  <2>4. BenchInv'
    BY <1>c DEF Terminate, BenchInv
  <2> QED
    BY <2>1, <2>2, <2>3, <2>4
<1>d. ASSUME NEW s \in Scripts, RunEnclave(s) PROVE IInv'
  <2>1. HostInv'
    BY <1>d, <1>1 DEF RunEnclave, CpusFree, NoneUp, AfterRun, At, Goto, Runs,
       HostInv, ScriptRecord, Steps
  <2>2. AgeInv'
    BY <1>d, <1>1 DEF RunEnclave, CpusFree, NoneUp, AfterRun, At, Goto, Runs,
       HostInv, AgeInv, ScriptRecord, Document
  <2>3. CountInv'
    BY <1>d, <1>1 DEF RunEnclave, CpusFree, NoneUp, AfterRun, At, Goto, HostInv,
       ScriptRecord, CountInv, Due, DueByMain, Before
  <2>4. BenchInv'
    BY <1>d DEF RunEnclave, BenchInv
  <2> QED
    BY <2>1, <2>2, <2>3, <2>4
<1>e. ASSUME NEW s \in Scripts, SetupProxy(s) PROVE IInv'
  <2>1. HostInv'
    <3>1. ingress' \in Enclaves \cup {"none"}
      BY <1>e DEF SetupProxy, NoneUp, HostInv
    <3> QED
      BY <3>1, <1>e, <1>1 DEF SetupProxy, At, Goto, HostInv, ScriptRecord, Steps
  <2>2. AgeInv'
    BY <1>e, <1>1 DEF SetupProxy, At, Goto, HostInv, AgeInv, ScriptRecord
  <2>3. CountInv'
    BY <1>e, <1>1 DEF SetupProxy, At, Goto, HostInv, ScriptRecord, CountInv, Due,
       DueByMain, Before
  <2>4. BenchInv'
    BY <1>e DEF SetupProxy, BenchInv
  <2> QED
    BY <2>1, <2>2, <2>3, <2>4
<1>f. ASSUME NEW s \in Scripts, Finish(s) PROVE IInv'
  <2>1. HostInv'
    <3>1. script' \in [Scripts -> ScriptRecord]
      BY <1>f, <1>1 DEF Finish, Goto, HostInv, ScriptRecord
    <3>2. inbound' \in BOOLEAN
      BY <1>f DEF Finish, HostInv
    <3>3. UNCHANGED <<up, last, ingress, main, copied, used, steady>>
      BY <1>f DEF Finish
    <3>4. file' \in Document \cup {None}
      BY <1>f DEF Finish, Answering, HostInv, Document
    <3> QED
      BY <3>1, <3>2, <3>3, <3>4 DEF HostInv
  <2>2. AgeInv'
    <3>1. file' = None \/ file'.id <= last'
      BY <1>f DEF Finish, Answering, HostInv, AgeInv
    <3>2. \A t \in Scripts : script'[t].seen = script[t].seen
                            /\ script'[t].asof = script[t].asof
      BY <1>f, <1>1 DEF Finish, Goto, HostInv, ScriptRecord
    <3> QED
      BY <3>1, <3>2, <1>f DEF Finish, AgeInv
  <2>3. CountInv'
    BY <1>f, <1>1 DEF Finish, At, Goto, HostInv, ScriptRecord, CountInv, Due,
       DueByMain, Before
  <2>4. BenchInv'
    BY <1>f DEF Finish, BenchInv
  <2> QED
    BY <2>1, <2>2, <2>3, <2>4
<1>g. ASSUME NEW s \in Scripts, Fault(s) PROVE IInv'
  <2>1. HostInv'
    BY <1>g, <1>1, <1>2 DEF Fault, Running, Goto, HostInv, ScriptRecord, Steps
  <2>2. AgeInv'
    BY <1>g, <1>1 DEF Fault, Goto, HostInv, AgeInv, ScriptRecord
  <2>3. CountInv'
    BY <1>g, <1>1, <1>2 DEF Fault, Goto, HostInv, ScriptRecord, CountInv, Due,
       DueByMain, Before
  <2>4. BenchInv'
    BY <1>g DEF Fault, BenchInv
  <2> QED
    BY <2>1, <2>2, <2>3, <2>4
<1>h. CASE BeginRun
  <2>1. HostInv'
    BY <1>h, <1>2 DEF BeginRun, Began, HostInv, ScriptRecord, Steps
  <2>2. AgeInv'
    BY <1>h, <1>1 DEF BeginRun, Began, HostInv, AgeInv, ScriptRecord
  <2>3. CountInv'
    BY <1>h, <1>1, <1>2 DEF BeginRun, Began, Running, Steps, HostInv, ScriptRecord,
       CountInv, Due, DueByMain, Before
  <2>4. BenchInv'
    BY <1>h DEF BeginRun, BenchInv
  <2> QED
    BY <2>1, <2>2, <2>3, <2>4
<1>i. CASE StartOk \/ CopyAttestation \/ Register \/ AssertKey
  BY <1>i, <1>2 DEF StartOk, CopyAttestation, Register, DocumentFits, AssertKey,
     HostInv, AgeInv, BenchInv, CountInv, Due, DueByMain
<1>n. CASE KeepHost \/ Done \/ Interrupt
  BY <1>n, <1>2 DEF KeepHost, FinallyDue, Done, Interrupt, HostInv, AgeInv,
     BenchInv, CountInv, Due, DueByMain
<1>j. CASE Restore
  <2>1. HostInv'
    BY <1>j, <1>2 DEF Restore, Began, HostInv, ScriptRecord, Steps
  <2>2. AgeInv'
    BY <1>j, <1>1 DEF Restore, Began, HostInv, AgeInv, ScriptRecord
  <2>3. CountInv'
    BY <1>j, <1>1, <1>2 DEF Restore, FinallyDue, Began, Running, Steps, HostInv,
       ScriptRecord, CountInv, Due, DueByMain, Before
  <2>4. BenchInv'
    BY <1>j DEF Restore, BenchInv
  <2> QED
    BY <2>1, <2>2, <2>3, <2>4
<1>k. CASE Drop
  <2>1. HostInv'
    BY <1>k, <1>2 DEF Drop, Began, HostInv, ScriptRecord, Steps
  <2>2. AgeInv'
    BY <1>k, <1>1 DEF Drop, Began, HostInv, AgeInv, ScriptRecord
  <2>3. CountInv'
    BY <1>k, <1>1, <1>2 DEF Drop, Began, Running, Steps, HostInv, ScriptRecord,
       CountInv, Due, DueByMain, Before
  <2>4. BenchInv'
    BY <1>k DEF Drop, BenchInv
  <2> QED
    BY <2>1, <2>2, <2>3, <2>4
<1>l. CASE ManualRestore
  <2>1. HostInv'
    BY <1>l, <1>2 DEF ManualRestore, Began, HostInv, ScriptRecord, Steps
  <2>2. AgeInv'
    BY <1>l, <1>1 DEF ManualRestore, Began, HostInv, AgeInv, ScriptRecord
  <2>3. CountInv'
    BY <1>l, <1>1, <1>2 DEF ManualRestore, Began, Running, Steps, HostInv,
       ScriptRecord, CountInv, Due, DueByMain, Before
  <2>4. BenchInv'
    BY <1>l DEF ManualRestore, BenchInv
  <2> QED
    BY <2>1, <2>2, <2>3, <2>4
<1>m. CASE UNCHANGED vars
  BY <1>m DEF vars, HostInv, AgeInv, BenchInv, CountInv, Due, DueByMain
<1> QED
  BY <1>a, <1>b, <1>c, <1>d, <1>e, <1>f, <1>g, <1>h, <1>i, <1>j, <1>k, <1>l, <1>m,
     <1>n
  DEF Next, ScriptStep, MainStep

\* The invariant holds in every state of the host.
THEOREM HostInvariance == Spec => []IInv
  BY InitInv, NextInv, PTL DEF Spec

\* nitro-cli never runs two enclaves on the pool, and everything keeps its
\* type, whichever scripts are at work.
THEOREM HostTyped == Spec => []TypeOK
  BY HostInvariance, InvTyped, PTL

\* An enclave goes down only by a terminate step that has seen it.
LEMMA OnlyTerminateStops ==
  ASSUME IInv, [Next]_vars, NEW e \in Enclaves, up[e] # 0, up'[e] = 0
  PROVE  \E s \in Scripts : Terminate(s) /\ script[s].seen = up[e]
<1> USE DEF IInv
<1>1. up' # up
  OBVIOUS
<1>2. ASSUME NEW s \in Scripts, RunEnclave(s) PROVE FALSE
  BY <1>2 DEF RunEnclave, HostInv, CpusFree, NoneUp
<1>3. PICK s \in Scripts : Terminate(s)
  BY <1>1, <1>2 DEF Next, vars, ScriptStep, MainStep, Lookup, Unproxy, SetupProxy,
     Finish, Fault, BeginRun, StartOk, CopyAttestation,
     Register, AssertKey, Restore, KeepHost, Done, Drop, Interrupt,
     ManualRestore
<1>4. script[s].seen = up[Stops(s)] /\ e = Stops(s)
  BY <1>1, <1>3 DEF Terminate, ById, HostInv
<1> QED
  BY <1>3, <1>4

\* However late a script acts on its look, it terminates nothing younger.
THEOREM LateScriptsHarmless == Spec => OnlySeenTerminated
<1> DEFINE Harmless ==
      \A e \in Enclaves : (up[e] # 0 /\ up'[e] = 0) =>
        \E s \in Scripts : At(s, "terminate") /\ ~At(s, "terminate")'
                           /\ up[e] <= script[s].asof
<1>1. IInv /\ [Next]_vars => Harmless
  <2> SUFFICES ASSUME IInv, [Next]_vars, NEW e \in Enclaves, up[e] # 0, up'[e] = 0
               PROVE  \E s \in Scripts : At(s, "terminate") /\ ~At(s, "terminate")'
                                         /\ up[e] <= script[s].asof
    OBVIOUS
  <2>1. PICK s \in Scripts : Terminate(s) /\ script[s].seen = up[e]
    BY OnlyTerminateStops
  <2>2. At(s, "terminate") /\ ~At(s, "terminate")'
    BY <2>1 DEF Terminate, At, Goto, IInv, HostInv, ScriptRecord
  <2>3. up[e] <= script[s].asof
    BY <2>1 DEF IInv, AgeInv
  <2> QED
    BY <2>2, <2>3
<1>2. IInv /\ [Next]_vars => [Harmless]_vars
  BY <1>1
<1> QED
  BY <1>2, HostInvariance, PTL DEF Spec, OnlySeenTerminated

\* A run goes on to its evaluation only with the SealedBench instance it has
\* registered, which answers the ingress.
THEOREM HeldRegistered == Spec => HeldIsRegistered
<1> DEFINE Held ==
      (main # "holding" /\ main' = "holding") =>
        /\ up["bench"] # 0 /\ ingress = "bench"
        /\ copied = [enclave |-> "bench", id |-> up["bench"]]
<1>1. IInv /\ [Next]_vars => Held
  <2> SUFFICES ASSUME IInv, [Next]_vars, main # "holding", main' = "holding"
               PROVE  /\ up["bench"] # 0 /\ ingress = "bench"
                      /\ copied = [enclave |-> "bench", id |-> up["bench"]]
    OBVIOUS
  <2>1. AssertKey
    BY DEF Next, vars, ScriptStep, MainStep, Lookup, Unproxy, Terminate,
       RunEnclave, SetupProxy, Finish, Fault, BeginRun, StartOk, CopyAttestation,
       Register, Restore, KeepHost, Done, Drop, Interrupt, ManualRestore
  <2>2. copied.enclave = "bench"
    BY <2>1 DEF AssertKey, IInv, BenchInv
  <2> QED
    BY <2>1, <2>2 DEF AssertKey, KeyMatches, Answering
<1>2. IInv /\ [Next]_vars => [Held]_vars
  BY <1>1
<1> QED
  BY <1>2, HostInvariance, PTL DEF Spec, HeldIsRegistered

-----------------------------------------------------------------------------
(* The restore that is announced has happened.                             *)

PreTerminate == {"lookup", "unproxy", "terminate"}
Restores == {"restore", "manual"}
Reviving(s) == script[s].pc \in {"proxy", "finish"}

\* On a host where runs are begun in peace, Aegis runs until the start script
\* terminates it, and from the time a restore has started it until that restore
\* has ended: the CPUs were free, so the start script is past its terminate.
PeaceInv == steady =>
  /\ script["start"].pc \in PreTerminate => up["aegis"] # 0
  /\ \A s \in Restores : Reviving(s) =>
       up["aegis"] # 0 /\ script["start"].pc \notin PreTerminate

\* A script that goes on leaves the others where they are.
LEMMA OthersStay ==
  ASSUME IInv, NEW s \in Scripts, NEW step \in Steps \cup {"idle", "ok", "failed"},
         Goto(s, step)
  PROVE  /\ script'[s].pc = step
         /\ \A t \in Scripts \ {s} : script'[t] = script[t]
BY DEF IInv, HostInv, ScriptRecord, Goto

LEMMA BeganIs ==
  ASSUME IInv, NEW s \in Scripts, script' = Began(s)
  PROVE  /\ script'[s].pc = "lookup"
         /\ \A t \in Scripts \ {s} : script'[t] = script[t]
BY DEF IInv, HostInv, ScriptRecord, Began

\* Steps that leave Aegis up, and take no script to where the invariant claims
\* more of it.
LEMMA PeaceKept ==
  ASSUME PeaceInv, up'["aegis"] = up["aegis"], steady' => steady,
         script'["start"].pc \in PreTerminate => script["start"].pc \in PreTerminate,
         \A s \in Restores : Reviving(s)' => Reviving(s)
  PROVE  PeaceInv'
BY DEF PeaceInv

LEMMA PeaceInit == Init => PeaceInv
  BY DEF Init, PeaceInv, Scripts, Idle, PreTerminate, Restores, Reviving

LEMMA PeaceNext == IInv /\ PeaceInv /\ [Next]_vars => PeaceInv'
<1> SUFFICES ASSUME IInv, PeaceInv, [Next]_vars PROVE PeaceInv'
  OBVIOUS
<1> USE DEF Scripts, Restores
<1>0. up \in [Enclaves -> Nat] /\ script \in [Scripts -> ScriptRecord]
  BY DEF IInv, HostInv
<1>1. ASSUME NEW s \in Scripts, Lookup(s) PROVE PeaceInv'
  <2>1. /\ script'[s].pc = "unproxy" /\ script[s].pc = "lookup"
        /\ \A t \in Scripts \ {s} : script'[t] = script[t]
    BY <1>0, <1>1 DEF Lookup, At, ScriptRecord
  <2> QED
    BY <1>1, <2>1, PeaceKept DEF Lookup, PreTerminate, Reviving
<1>2. ASSUME NEW s \in Scripts, Unproxy(s) PROVE PeaceInv'
  <2>1. Goto(s, "terminate") /\ script[s].pc = "unproxy"
    BY <1>2 DEF Unproxy, At
  <2>2. /\ script'[s].pc = "terminate"
        /\ \A t \in Scripts \ {s} : script'[t] = script[t]
    BY <2>1, OthersStay DEF Steps
  <2> QED
    BY <1>2, <2>1, <2>2, PeaceKept DEF Unproxy, PreTerminate, Reviving
<1>3. ASSUME NEW s \in Scripts, Terminate(s) PROVE PeaceInv'
  <2>1. PICK step \in {"run", "failed"} : Goto(s, step)
    BY <1>3 DEF Terminate
  <2>2. /\ script'[s].pc \in {"run", "failed"} /\ script[s].pc = "terminate"
        /\ \A t \in Scripts \ {s} : script'[t] = script[t]
    BY <1>3, <2>1, OthersStay DEF Terminate, At, Steps
  <2>3. CASE s = "start"
    BY <1>3, <2>2, <2>3 DEF Terminate, PeaceInv, PreTerminate, Reviving
  <2>4. CASE s # "start"
    <3>1. up'["aegis"] = up["aegis"]
      BY <1>0, <1>3, <2>4 DEF Terminate, Stops, Enclaves
    <3> QED
      BY <1>3, <2>2, <2>4, <3>1, PeaceKept DEF Terminate, PreTerminate, Reviving
  <2> QED
    BY <2>3, <2>4
<1>4. ASSUME NEW s \in Scripts, RunEnclave(s) PROVE PeaceInv'
  <2>1. Goto(s, AfterRun(s)) /\ script[s].pc = "run" /\ steady' = steady
    BY <1>4 DEF RunEnclave, At
  <2>2. /\ script'[s].pc = AfterRun(s)
        /\ \A t \in Scripts \ {s} : script'[t] = script[t]
    BY <2>1, OthersStay DEF AfterRun, Steps
  <2>3. CASE ~CpusFree(s)
    BY <1>4, <2>1, <2>2, <2>3, PeaceKept
    DEF RunEnclave, AfterRun, PreTerminate, Reviving
  <2>4. CASE CpusFree(s) /\ s = "start"
    <3>1. up["aegis"] = 0 /\ up'["aegis"] = up["aegis"]
      BY <1>0, <1>4, <2>4 DEF RunEnclave, CpusFree, NoneUp, Runs, Enclaves
    <3> QED
      BY <2>1, <2>2, <2>4, <3>1, PeaceKept DEF AfterRun, PreTerminate, Reviving
  <2>5. CASE CpusFree(s) /\ s # "start"
    <3>1. up["aegis"] = 0 /\ up'["aegis"] # 0
      <4>1. up' = [up EXCEPT !["aegis"] = last + 1] /\ last + 1 # 0 /\ up["aegis"] = 0
        BY <1>4, <2>5 DEF RunEnclave, Runs, IInv, HostInv, CpusFree, NoneUp, Enclaves
      <4> QED
        BY <1>0, <4>1 DEF Enclaves
    <3>2. steady => script'["start"].pc \notin PreTerminate
      BY <2>2, <2>5, <3>1 DEF PeaceInv
    <3> QED
      BY <2>1, <3>1, <3>2 DEF PeaceInv
  <2> QED
    BY <2>3, <2>4, <2>5
<1>5. ASSUME NEW s \in Scripts, SetupProxy(s) PROVE PeaceInv'
  <2>1. PICK step \in {"failed", "finish"} : Goto(s, step)
    BY <1>5 DEF SetupProxy
  <2>2. /\ script'[s].pc \in {"failed", "finish"} /\ script[s].pc = "proxy"
        /\ \A t \in Scripts \ {s} : script'[t] = script[t]
    BY <1>5, <2>1, OthersStay DEF SetupProxy, At, Steps
  <2> QED
    BY <1>5, <2>2, PeaceKept DEF SetupProxy, PreTerminate, Reviving
<1>6. ASSUME NEW s \in Scripts, Finish(s) PROVE PeaceInv'
  <2>1. PICK step \in {"failed", "ok"} : Goto(s, step)
    BY <1>6 DEF Finish
  <2>2. /\ script'[s].pc \in {"failed", "ok"} /\ script[s].pc = "finish"
        /\ \A t \in Scripts \ {s} : script'[t] = script[t]
    BY <1>6, <2>1, OthersStay DEF Finish, At, Steps
  <2> QED
    BY <1>6, <2>2, PeaceKept DEF Finish, PreTerminate, Reviving
<1>7. ASSUME NEW s \in Scripts, Fault(s) PROVE PeaceInv'
  <2>1. Goto(s, "failed")
    BY <1>7 DEF Fault
  <2>2. /\ script'[s].pc = "failed"
        /\ \A t \in Scripts \ {s} : script'[t] = script[t]
    BY <2>1, OthersStay DEF Steps
  <2> QED
    BY <1>7, <2>2, PeaceKept DEF Fault, PreTerminate, Reviving
<1>8. CASE BeginRun
  <2>1. /\ \A t \in Scripts \ {"start"} : script'[t] = script[t]
        /\ up' = up
        /\ steady' => up["aegis"] # 0 /\ \A t \in Scripts : ~Running(t)
    BY <1>8, BeganIs DEF BeginRun, AegisServes
  <2> QED
    BY <2>1 DEF PeaceInv, Running, Steps, Reviving
<1>9. CASE Restore \/ Drop \/ ManualRestore
  <2>1. PICK s \in Restores : script' = Began(s) \/ UNCHANGED script
    BY <1>9 DEF Restore, Drop, ManualRestore
  <2>2. /\ script'[s].pc = "lookup" \/ UNCHANGED script
        /\ \A t \in Scripts \ {s} : script'[t] = script[t]
    BY <2>1, BeganIs
  <2> QED
    BY <1>9, <2>2, PeaceKept DEF Restore, Drop, ManualRestore, Reviving
<1>10. CASE UNCHANGED <<up, script, steady>>
  BY <1>10 DEF PeaceInv, Reviving
<1> QED
  BY <1>1, <1>2, <1>3, <1>4, <1>5, <1>6, <1>7, <1>8, <1>9, <1>10
  DEF Next, ScriptStep, MainStep, StartOk, CopyAttestation, Register, AssertKey, Done,
      KeepHost, Interrupt, vars

\* "Aegis restored" is true when restore-aegis prints it, on a host where runs
\* are begun in peace: whatever a start script left over from a dropped session
\* or a killed run still does, and whoever else restores.
THEOREM RestoresReal == Spec => RestoreIsReal
<1> DEFINE Real ==
      steady => \A s \in {"restore", "manual"} :
        (~At(s, "ok") /\ script'[s].pc = "ok") => AegisServes'
<1>1. IInv /\ PeaceInv /\ [Next]_vars => Real
  <2> SUFFICES ASSUME IInv, PeaceInv, [Next]_vars, steady, NEW s \in Restores,
                      ~At(s, "ok"), script'[s].pc = "ok"
               PROVE  AegisServes'
    BY DEF Restores
  <2> USE DEF Scripts, Restores
  <2>1. script \in [Scripts -> ScriptRecord]
    BY DEF IInv, HostInv
  <2>2. Finish(s)
    <3>1. ASSUME NEW t \in Scripts, NEW step \in Steps \cup {"failed"}, Goto(t, step)
          PROVE  FALSE
      <4>1. step # "ok"
        BY DEF Steps
      <4> QED
        BY <3>1, <4>1, OthersStay DEF At
    <3>2. ASSUME NEW t \in Scripts, script' = Began(t) \/ UNCHANGED script
          PROVE  FALSE
      BY <3>2, BeganIs DEF At
    <3>3. ASSUME NEW t \in Scripts, Lookup(t)
          PROVE  FALSE
      BY <2>1, <3>3 DEF Lookup, At, ScriptRecord
    <3>4. ASSUME NEW t \in Scripts, ScriptStep(t) \/ Fault(t), ~Finish(t)
          PROVE  FALSE
      BY <3>1, <3>3, <3>4
      DEF ScriptStep, Unproxy, Terminate, RunEnclave, AfterRun, SetupProxy, Fault, Steps
    <3>5. ASSUME NEW t \in Scripts, Finish(t), t # s
          PROVE  FALSE
      <4>1. PICK step \in {"failed", "ok"} : Goto(t, step)
        BY <3>5 DEF Finish
      <4> QED
        BY <3>5, <4>1, OthersStay DEF At
    <3>6. ASSUME MainStep \/ KeepHost \/ Drop \/ Interrupt \/ UNCHANGED vars
          PROVE  FALSE
      BY <3>2, <3>6
      DEF MainStep, BeginRun, StartOk, CopyAttestation, Register, AssertKey, Restore,
          Done, ManualRestore, KeepHost, Drop, Interrupt, vars
    <3> QED
      BY <3>4, <3>5, <3>6 DEF Next
  <2>3. up["aegis"] # 0
    BY <2>2 DEF PeaceInv, Finish, At, Reviving
  <2>4. up' = up /\ inbound'
    BY <2>2 DEF Finish
  <2> QED
    BY <2>3, <2>4 DEF AegisServes
<1>2. Spec => []PeaceInv
  BY PeaceInit, PeaceNext, HostInvariance, PTL DEF Spec
<1>3. IInv /\ PeaceInv /\ [Next]_vars => [Real]_vars
  BY <1>1
<1> QED
  BY <1>2, <1>3, HostInvariance, PTL DEF Spec, RestoreIsReal
=============================================================================
