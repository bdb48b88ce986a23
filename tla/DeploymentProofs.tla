--------------------------- MODULE DeploymentProofs ---------------------------
(* What the record file says stays in step with the chain, for any number of  *)
(* script runs and of publishes.                                              *)
EXTENDS Deployment, TLAPS

Sent == {"sent", "read", "writing"}
Acting == {"building", "ready", "configured"} \cup Sent

\* One publish with both of its caps, named by its first version.
Good(r) ==
  /\ r \in Record
  /\ r.packageId.version = 1
  /\ r.upgradeCapId = r.packageId.origin
  /\ r.enclaveCapId = r.packageId.origin

\* The enclave package of another publish comes from an outdated upgrade.
Blamed == \E u \in Scripts : Outdated(u)

Sound(r) ==
  /\ Good(r)
  /\ r.enclavePackageId.origin # r.packageId.origin => Blamed

Types ==
  /\ published \in Origins
  /\ latest \in [Origins -> Nat \ {0}]
  /\ \A o \in Origins : latest[o] <= 2
  /\ configs \subseteq Config
  /\ enclaves \subseteq configs
  /\ record \in Record \cup Unreadable
  /\ script \in [Scripts -> Run]
  /\ clashed \subseteq Scripts
  /\ announced \in Origins

\* Whatever a run holds was read from a sound record.
Holds(s) ==
  /\ script[s].at \in Acting => Sound(script[s].deployment)
  /\ script[s].at \in {"read", "writing"} => Sound(script[s].base)
  /\ script[s].at \in Sent => script[s].mode \in {"publish_new", "upgrade"}
  /\ At(s, "configured") =>
       script[s].mode = "register" /\ script[s].config \in configs

Holdings ==
  /\ record \notin Unreadable => Sound(record)
  /\ \A s \in Scripts : Holds(s)

\* A run that has published, and not lost the reply.
HasPublished(s) ==
  /\ script[s].mode = "publish_new"
  /\ script[s].at \in Sent \cup {"done"}

\* Publishes differ.
Publishes ==
  /\ \A s \in Scripts : HasPublished(s) =>
       script[s].made \in Origins /\ script[s].made <= published
  /\ \A s, t \in Scripts :
       HasPublished(s) /\ HasPublished(t) /\ script[s].made = script[t].made
       => s = t

\* Two runs that rewrite at once have clashed.
Clashes ==
  \A s, t \in Rewriting : s # t => s \in clashed /\ t \in clashed

\* After the last publish has ended, the record and what upgrades have read of
\* it name that publish.
LastNamed ==
  \A s \in Scripts \ clashed :
     /\ HasPublished(s) /\ At(s, "done")
     /\ script[s].made = announced
     => /\ record \notin Unreadable => record.packageId.origin = announced
        /\ \A t \in Rewriting : script[t].mode = "upgrade" =>
             script[t].base.packageId.origin = announced

Refusals ==
  \A s \in Scripts :
     script[s].mode = "register" /\ At(s, "refused") =>
       ForeignConfig(s) \/ Blamed

IInv == Types /\ Holdings /\ Publishes /\ Clashes /\ LastNamed /\ Refusals

LEMMA InitInv == Init => IInv
<1> SUFFICES ASSUME Init PROVE IInv
  OBVIOUS
<1> USE DeploymentAssumption DEF Init
<1>1. 1 \in Origins /\ First(1) \in Package
  BY DEF Origins, First, Package
<1>2. Good(record)
  BY <1>1 DEF Good, Record, First
<1>i. PICK i \in Images :
        script = [s \in Scripts |->
                    [mode |-> "dry_run", at |-> "idle", deployment |-> None,
                     base |-> None, made |-> None, config |-> None,
                     pcrs |-> i, document |-> i]]
  OBVIOUS
<1>3. \A s \in Scripts : At(s, "idle") /\ script[s].mode = "dry_run"
  BY <1>i DEF At
<1>4. Types
  BY <1>1, <1>2 DEF Types, Good, Run, Modes, Places, Record
<1>5. Holdings
  BY <1>1, <1>2, <1>3 DEF Holdings, Holds, Sound, At, Acting, Sent
<1>6. Publishes /\ LastNamed /\ Clashes /\ Refusals
  BY <1>3 DEF Publishes, LastNamed, Clashes, Refusals, HasPublished, Rewriting, At
<1> QED
  BY <1>4, <1>5, <1>6 DEF IInv

\* A finished run stays what it is, and with it the blame.
LEMMA BlameStays ==
  ASSUME \A s \in Scripts : At(s, "done") => script'[s] = script[s]
  PROVE  Blamed => Blamed'
  BY DEF Blamed, Outdated, At

\* What it means for a run to go on to another place.
LEMMA GoesTo ==
  ASSUME script \in [Scripts -> Run], NEW s \in Scripts, NEW place \in Places,
         Goes(s, place)
  PROVE  /\ script' \in [Scripts -> Run]
         /\ script'[s].at = place
         /\ script'[s].mode = script[s].mode
         /\ script'[s].deployment = script[s].deployment
         /\ script'[s].base = script[s].base
         /\ script'[s].made = script[s].made
         /\ script'[s].config = script[s].config
         /\ script'[s].document = script[s].document
         /\ \A t \in Scripts : t # s => script'[t] = script[t]
  BY DEF Goes, Run

\* A step of run s leaves what the others hold sound.
LEMMA OthersHold ==
  ASSUME NEW s \in Scripts, Holdings, Blamed => Blamed',
         configs \subseteq configs',
         \A t \in Scripts : t # s => script'[t] = script[t],
         (record \notin Unreadable => Sound(record))', Holds(s)'
  PROVE  Holdings'
<1>1. ASSUME NEW t \in Scripts, t # s PROVE Holds(t)'
  <2>1. script'[t] = script[t] /\ Holds(t)
    BY <1>1 DEF Holdings
  <2> QED
    BY <2>1 DEF Holds, Sound, Good, At
<1> QED
  BY <1>1 DEF Holdings

\* A run that only moves on, and neither publishes nor rewrites.
LEMMA MovesKeep ==
  ASSUME IInv, NEW s \in Scripts, NEW place \in Places,
         Goes(s, place), UNCHANGED <<chainVars, record, historyVars>>,
         script[s].at # "done",
         place \notin Sent \cup {"idle", "configured"},
         place \in Acting => script[s].at \in Acting,
         place = "done" => script[s].mode # "publish_new",
         place = "refused" /\ script[s].mode = "register" =>
           ForeignConfig(s) \/ Blamed
  PROVE  IInv'
<1> USE DEF IInv
<1>1. script \in [Scripts -> Run]
  BY DEF Types
<1>2. /\ script' \in [Scripts -> Run]
      /\ script'[s].at = place
      /\ script'[s].mode = script[s].mode
      /\ script'[s].deployment = script[s].deployment
      /\ script'[s].base = script[s].base
      /\ script'[s].made = script[s].made
      /\ script'[s].config = script[s].config
      /\ script'[s].document = script[s].document
  BY <1>1, GoesTo
<1>3. \A t \in Scripts : t # s => script'[t] = script[t]
  BY <1>1, GoesTo
<1>4. Blamed => Blamed'
  BY <1>3, BlameStays DEF At
<1>5. Types'
  BY <1>2 DEF Types, chainVars, historyVars
<1>6. Holdings'
  BY <1>2, <1>3, <1>4 DEF Holdings, Holds, Sound, Good, At, Acting, Sent,
     chainVars
<1>7. \A t \in Scripts : HasPublished(t)' =>
        /\ HasPublished(t) /\ script'[t].made = script[t].made
        /\ At(t, "done")' => At(t, "done")
  BY <1>2, <1>3 DEF HasPublished, At, Sent
<1>8. Publishes'
  BY <1>7 DEF Publishes, chainVars
<1>9. /\ Rewriting' \subseteq Rewriting
      /\ \A t \in Rewriting' : script'[t] = script[t]
  BY <1>2, <1>3 DEF Rewriting, Sent
<1>10. Clashes'
  BY <1>9 DEF Clashes, historyVars
<1>11. LastNamed'
  BY <1>7, <1>9 DEF LastNamed, historyVars
<1>12. Refusals'
  BY <1>2, <1>3, <1>4 DEF Refusals, ForeignConfig, At
<1> QED
  BY <1>5, <1>6, <1>8, <1>10, <1>11, <1>12

\* Every step keeps it.
LEMMA NextInv == IInv /\ [Next]_vars => IInv'
<1> SUFFICES ASSUME IInv, [Next]_vars PROVE IInv'
  OBVIOUS
<1> USE DeploymentAssumption DEF IInv, chainVars, historyVars
<1>1. /\ script \in [Scripts -> Run]
      /\ \A s \in Scripts :
           /\ script[s].mode \in Modes /\ script[s].at \in Places
           /\ script[s].pcrs \in Images /\ script[s].document \in Images
  BY DEF Types, Run
<1>2. ASSUME NEW s \in Scripts, NEW m \in Modes \ {"register"}, Start(s, m)
      PROVE  IInv'
  <2>1. record \notin Unreadable /\ script' =
          [script EXCEPT ![s].mode = m, ![s].deployment = record,
                         ![s].at = "building"]
    BY <1>2 DEF Start, Parsed
  <2>u. /\ published' = published /\ latest' = latest /\ configs' = configs
        /\ enclaves' = enclaves /\ record' = record
        /\ clashed' = clashed /\ announced' = announced
    BY <1>2 DEF Start
  <2>2. /\ script'[s].at = "building" /\ script'[s].mode = m
        /\ script'[s].deployment = record
        /\ script[s].at = "idle"
    BY <1>1, <1>2, <2>1 DEF Run, Start, At
  <2>3. \A t \in Scripts : t # s => script'[t] = script[t]
    BY <1>1, <2>1
  <2>4. Blamed => Blamed'
    BY <2>2, <2>3, BlameStays DEF At
  <2>r. record \in Record
    BY <2>1 DEF Types
  <2>s. script'[s] \in Run
    <3>1. script[s] \in Run /\ m \in Modes /\ "building" \in Places
      BY <1>1 DEF Places
    <3>2. [script[s] EXCEPT !.mode = m, !.deployment = record,
                            !.at = "building"] \in Run
      BY <3>1, <2>r DEF Run
    <3> QED
      BY <1>1, <2>1, <3>2
  <2>5. Types'
    BY <1>1, <2>u, <2>1, <2>3, <2>s DEF Types
  <2>h. Sound(record)'
    BY <2>1, <2>u, <2>4 DEF Holdings, Sound, Good
  <2>i. Holds(s)'
    BY <2>2, <2>u, <2>h DEF Holds, Sound, Good, At, Acting, Sent
  <2>6. Holdings'
    BY <2>3, <2>4, <2>h, <2>i, <2>u, OthersHold
  <2>7. \A t \in Scripts : HasPublished(t)' => t # s
    BY <2>2 DEF HasPublished, Sent
  <2>8. Publishes' /\ LastNamed'
    BY <2>u, <2>2, <2>3, <2>7
    DEF Publishes, LastNamed, HasPublished, Rewriting, At
  <2>9. Clashes' /\ Refusals'
    BY <2>u, <2>2, <2>3, <2>4
    DEF Clashes, Rewriting, Refusals, ForeignConfig, At
  <2> QED
    BY <2>5, <2>6, <2>8, <2>9
<1>3. ASSUME NEW s \in Scripts, NEW p \in Images, NEW i \in Images,
             NEW c \in configs \cup {None}, StartRegister(s, p, i, c)
      PROVE  IInv'
  <2> DEFINE place == IF c = None THEN "ready" ELSE "configured"
  <2>1. record \notin Unreadable /\ script' =
          [script EXCEPT ![s].mode = "register", ![s].deployment = record,
                         ![s].pcrs = p, ![s].document = i, ![s].config = c,
                         ![s].at = place]
    BY <1>3 DEF StartRegister, Parsed
  <2>u. /\ published' = published /\ latest' = latest /\ configs' = configs
        /\ enclaves' = enclaves /\ record' = record
        /\ clashed' = clashed /\ announced' = announced
    BY <1>3 DEF StartRegister
  <2>2. /\ script'[s].at = place /\ script'[s].mode = "register"
        /\ script'[s].deployment = record /\ script'[s].config = c
        /\ script[s].at = "idle"
    BY <1>1, <1>3, <2>1 DEF Run, StartRegister, At
  <2>3. \A t \in Scripts : t # s => script'[t] = script[t]
    BY <1>1, <2>1
  <2>4. Blamed => Blamed'
    BY <2>2, <2>3, BlameStays DEF At
  <2>r. record \in Record
    BY <2>1 DEF Types
  <2>s. script'[s] \in Run
    <3>1. /\ script[s] \in Run /\ c \in Config \cup {None}
          /\ place \in Places /\ "register" \in Modes
      BY <1>1 DEF Places, Modes, Types
    <3> HIDE DEF place
    <3>2. [script[s] EXCEPT !.mode = "register", !.deployment = record,
                            !.pcrs = p, !.document = i, !.config = c,
                            !.at = place] \in Run
      BY <3>1, <2>r DEF Run
    <3> QED
      BY <1>1, <2>1, <3>2
  <2>5. Types'
    BY <1>1, <2>u, <2>1, <2>3, <2>s DEF Types
  <2>h. Sound(record)'
    BY <2>1, <2>u, <2>4 DEF Holdings, Sound, Good
  <2>i. Holds(s)'
    BY <2>2, <2>u, <2>h DEF Holds, Sound, Good, At, Acting, Sent
  <2>6. Holdings'
    BY <2>3, <2>4, <2>h, <2>i, <2>u, OthersHold
  <2>7. \A t \in Scripts : HasPublished(t)' => t # s
    BY <2>2 DEF HasPublished, Sent
  <2>8. Publishes' /\ LastNamed'
    BY <2>u, <2>2, <2>3, <2>7
    DEF Publishes, LastNamed, HasPublished, Rewriting, At
  <2>9. Clashes' /\ Refusals'
    BY <2>u, <2>2, <2>3, <2>4
    DEF Clashes, Rewriting, Refusals, ForeignConfig, At
  <2> QED
    BY <2>5, <2>6, <2>8, <2>9
<1>4. ASSUME NEW s \in Scripts, StartFails(s) PROVE IInv'
  BY <1>4, MovesKeep DEF StartFails, At, Places, Sent, Acting
<1>5. ASSUME NEW s \in Scripts, Build(s) PROVE IInv'
  <2>1. CASE script[s].mode = "dry_run"
    BY <1>5, <2>1, MovesKeep DEF Build, At, Places, Sent, Acting
  <2>2. CASE script[s].mode # "dry_run"
    BY <1>5, <2>2, MovesKeep DEF Build, At, Places, Sent, Acting
  <2> QED
    BY <2>1, <2>2
<1>6. ASSUME NEW s \in Scripts, BuildFails(s) PROVE IInv'
  BY <1>6, MovesKeep DEF BuildFails, At, Places, Sent, Acting
<1>7. ASSUME NEW s \in Scripts, NEW r \in {"sent", "failed"}, PublishNew(s, r)
      PROVE  IInv'
  <2>1. /\ published' = published + 1 /\ published' \in Origins
        /\ latest' = latest /\ configs' = configs /\ enclaves' = enclaves
        /\ record' = record /\ clashed' = clashed /\ announced' = announced
        /\ script' = [script EXCEPT ![s].made = published + 1, ![s].at = r]
        /\ script[s].at = "ready" /\ script[s].mode = "publish_new"
    BY <1>7 DEF PublishNew, At, Types, Origins
  <2>2. /\ script' \in [Scripts -> Run]
        /\ script'[s].at = r
        /\ script'[s].mode = script[s].mode
        /\ script'[s].deployment = script[s].deployment
        /\ script'[s].made = published + 1
    <3>1. script[s] \in Run /\ r \in Places /\ published + 1 \in Origins
      BY <1>1, <2>1 DEF Places
    <3>2. [script[s] EXCEPT !.made = published + 1, !.at = r] \in Run
      BY <3>1 DEF Run
    <3> QED
      BY <1>1, <2>1, <3>1, <3>2 DEF Run
  <2>3. \A t \in Scripts : t # s => script'[t] = script[t]
    BY <1>1, <2>1
  <2>4. Blamed => Blamed'
    BY <2>1, <2>3, BlameStays DEF At
  <2>5. Types'
    BY <2>1, <2>2 DEF Types
  <2>6. Holdings'
    <3>1. (record \notin Unreadable => Sound(record))'
      BY <2>1, <2>4 DEF Holdings, Sound, Good
    <3>2. Holds(s)'
      BY <2>1, <2>2, <2>4 DEF Holdings, Holds, Sound, Good, At, Acting, Sent
    <3> QED
      BY <2>1, <2>3, <2>4, <3>1, <3>2, OthersHold
  <2>7. \A t \in Scripts : HasPublished(t) =>
          t # s /\ script[t].made \in Nat /\ script[t].made <= published
    BY <2>1 DEF Publishes, HasPublished, Sent, Origins
  <2>8. \A t \in Scripts : t # s => (HasPublished(t)' <=> HasPublished(t))
    BY <2>3 DEF HasPublished
  <2>9. Publishes'
    <3>1. published \in Nat
      BY DEF Types, Origins
    <3>2. \A t \in Scripts : HasPublished(t)' =>
            script'[t].made \in Origins /\ script'[t].made <= published'
      BY <3>1, <2>1, <2>2, <2>3, <2>7, <2>8 DEF Publishes, Origins
    <3>3. ASSUME NEW t \in Scripts, NEW u \in Scripts, HasPublished(t)',
                 HasPublished(u)', script'[t].made = script'[u].made
          PROVE  t = u
      <4>1. CASE t # s /\ u # s
        BY <4>1, <3>3, <2>3, <2>8 DEF Publishes
      <4>2. CASE t = s /\ u # s
        BY <4>2, <3>1, <3>3, <2>2, <2>3, <2>7, <2>8
      <4>3. CASE t # s /\ u = s
        BY <4>3, <3>1, <3>3, <2>2, <2>3, <2>7, <2>8
      <4> QED
        BY <4>1, <4>2, <4>3
    <3> QED
      BY <3>2, <3>3 DEF Publishes
  <2>10. Rewriting' = Rewriting /\ s \notin Rewriting
    BY <2>1, <2>2, <2>3 DEF Rewriting
  <2>11. Clashes' /\ Refusals'
    BY <2>1, <2>2, <2>3, <2>4, <2>10
    DEF Clashes, Refusals, ForeignConfig, At, Rewriting
  <2>12. LastNamed'
    BY <2>1, <2>2, <2>3, <2>8, <2>10 DEF LastNamed, At, Rewriting
  <2> QED
    BY <2>5, <2>6, <2>9, <2>11, <2>12
<1>8. ASSUME NEW s \in Scripts, NEW r \in {"sent", "failed"}, Upgrade(s, r)
      PROVE  IInv'
  <2> DEFINE d == script[s].deployment
  <2>1. /\ published' = published /\ configs' = configs /\ enclaves' = enclaves
        /\ record' = record /\ clashed' = clashed /\ announced' = announced
        /\ latest' = [latest EXCEPT ![d.upgradeCapId] = @ + 1]
        /\ script[s].at = "ready" /\ script[s].mode = "upgrade"
        /\ Upgradable(d) /\ Goes(s, r) /\ r \in Places
    BY <1>8 DEF Upgrade, At, Places
  <2>2. /\ script' \in [Scripts -> Run]
        /\ script'[s].at = r
        /\ script'[s].mode = script[s].mode
        /\ script'[s].deployment = script[s].deployment
        /\ \A t \in Scripts : t # s => script'[t] = script[t]
    BY <1>1, <2>1, GoesTo
  <2>3. Sound(d)
    BY <2>1 DEF Holdings, Holds, Acting
  <2>4. Blamed => Blamed'
    BY <2>1, <2>2, BlameStays DEF At
  <2>5. Types'
    <3>1. d.upgradeCapId \in Origins /\ d.packageId.version = 1
      BY <2>3 DEF Sound, Good, Record
    <3>2. latest[d.upgradeCapId] = 1
      BY <2>1, <3>1 DEF Upgradable
    <3>3. latest' \in [Origins -> Nat \ {0}] /\ \A o \in Origins : latest'[o] <= 2
      BY <2>1, <3>1, <3>2 DEF Types
    <3> QED
      BY <2>1, <2>2, <3>3 DEF Types
  <2>6. Holdings'
    <3>1. (record \notin Unreadable => Sound(record))'
      BY <2>1, <2>4 DEF Holdings, Sound, Good
    <3>2. Holds(s)'
      BY <2>1, <2>2, <2>3, <2>4 DEF Holds, Sound, Good, At, Acting, Sent
    <3> QED
      BY <2>1, <2>2, <2>4, <3>1, <3>2, OthersHold
  <2>7. \A t \in Scripts : HasPublished(t)' => t # s /\ HasPublished(t)
    BY <2>1, <2>2 DEF HasPublished
  <2>8. Publishes'
    BY <2>1, <2>2, <2>7 DEF Publishes
  <2>9. Rewriting' = Rewriting /\ s \notin Rewriting
    BY <2>1, <2>2 DEF Rewriting
  <2>10. Clashes' /\ Refusals'
    BY <2>1, <2>2, <2>4, <2>9 DEF Clashes, Refusals, ForeignConfig, At, Rewriting
  <2>11. LastNamed'
    BY <2>1, <2>2, <2>7, <2>9 DEF LastNamed, At, Rewriting
  <2> QED
    BY <2>5, <2>6, <2>8, <2>10, <2>11
<1>9. ASSUME NEW s \in Scripts, UpgradeRefused(s) PROVE IInv'
  BY <1>9, MovesKeep DEF UpgradeRefused, At, Places, Sent, Acting
<1>10. ASSUME NEW s \in Scripts, TransactionFails(s) PROVE IInv'
  BY <1>10, MovesKeep DEF TransactionFails, At, Places, Sent, Acting
<1>11. ASSUME NEW s \in Scripts, ReadAgainFails(s) PROVE IInv'
  BY <1>11, MovesKeep DEF ReadAgainFails, At, Places, Sent, Acting
<1>12. ASSUME NEW s \in Scripts, Kill(s) PROVE IInv'
  BY <1>12, MovesKeep DEF Kill, Places, Sent, Acting
<1>13. ASSUME NEW s \in Scripts, RegisterRefused(s) PROVE IInv'
  <2>1. ForeignConfig(s) \/ Blamed
    <3>1. CASE At(s, "ready") /\ ~CapFits(script[s].deployment)
      BY <3>1 DEF At, CapFits, Holdings, Holds, Sound, Good, Acting
    <3>2. CASE At(s, "configured") /\ ~Registrable(s)
      BY <3>2 DEF At, Registrable, ForeignConfig, Holdings, Holds, Sound, Types,
         Acting
    <3> QED
      BY <1>13, <3>1, <3>2 DEF RegisterRefused
  <2> QED
    BY <1>13, <2>1, MovesKeep DEF RegisterRefused, At, Places, Sent, Acting
<1>14. ASSUME NEW s \in Scripts, NEW r \in {"configured", "failed"},
              CreateConfig(s, r)
       PROVE  IInv'
  <2> DEFINE d == script[s].deployment
             c == [origin |-> d.packageId.origin, pcrs |-> script[s].pcrs]
  <2>1. /\ published' = published /\ latest' = latest /\ enclaves' = enclaves
        /\ record' = record /\ clashed' = clashed /\ announced' = announced
        /\ configs' = configs \cup {c}
        /\ script' = [script EXCEPT ![s].config = c, ![s].at = r]
        /\ script[s].at = "ready" /\ script[s].mode = "register"
    BY <1>14 DEF CreateConfig, At
  <2>2. Sound(d)
    BY <2>1 DEF Holdings, Holds, Acting
  <2>3. c \in Config
    BY <1>1, <2>2 DEF Sound, Good, Record, Package, Config
  <2>4. /\ script' \in [Scripts -> Run]
        /\ script'[s].at = r /\ script'[s].mode = "register"
        /\ script'[s].deployment = d /\ script'[s].config = c
    <3>1. script[s] \in Run /\ r \in Places
      BY <1>1 DEF Places
    <3>2. [script[s] EXCEPT !.config = c, !.at = r] \in Run
      BY <3>1, <2>3 DEF Run
    <3> QED
      BY <1>1, <2>1, <3>1, <3>2 DEF Run
  <2>5. \A t \in Scripts : t # s => script'[t] = script[t]
    BY <1>1, <2>1
  <2>6. Blamed => Blamed'
    BY <2>1, <2>5, BlameStays DEF At
  <2>7. Types'
    BY <2>1, <2>3, <2>4 DEF Types
  <2>8. Holdings'
    <3>1. (record \notin Unreadable => Sound(record))'
      BY <2>1, <2>6 DEF Holdings, Sound, Good
    <3>2. Holds(s)'
      BY <2>1, <2>2, <2>4, <2>6 DEF Holds, Sound, Good, At, Acting, Sent
    <3> QED
      BY <2>1, <2>5, <2>6, <3>1, <3>2, OthersHold
  <2>9. \A t \in Scripts : HasPublished(t)' => t # s /\ HasPublished(t)
    BY <2>4, <2>5 DEF HasPublished
  <2>10. Rewriting' = Rewriting /\ s \notin Rewriting
    BY <2>1, <2>4, <2>5 DEF Rewriting
  <2>11. Publishes'
    BY <2>1, <2>5, <2>9 DEF Publishes
  <2>13. LastNamed'
    <3>1. \A t \in Scripts : HasPublished(t)' => script'[t] = script[t]
      BY <2>5, <2>9
    <3>2. \A u \in Rewriting : script'[u] = script[u]
      BY <2>5, <2>10 DEF Rewriting
    <3> QED
      BY <2>1, <2>9, <2>10, <3>1, <3>2 DEF LastNamed, At
  <2>12. Clashes' /\ Refusals'
    BY <2>1, <2>4, <2>5, <2>6, <2>10
    DEF Clashes, Refusals, ForeignConfig, At, Rewriting
  <2> QED
    BY <2>7, <2>8, <2>11, <2>12, <2>13
<1>15. ASSUME NEW s \in Scripts, NEW r \in {"done", "failed"},
              RegisterEnclave(s, r)
       PROVE  IInv'
  <2>1. /\ published' = published /\ latest' = latest /\ configs' = configs
        /\ enclaves' = enclaves \cup {script[s].config}
        /\ record' = record /\ clashed' = clashed /\ announced' = announced
        /\ script[s].at = "configured" /\ Goes(s, r) /\ r \in Places
    BY <1>15 DEF RegisterEnclave, At, Places
  <2>2. /\ script' \in [Scripts -> Run]
        /\ script'[s].at = r /\ script'[s].mode = script[s].mode
        /\ script'[s].made = script[s].made
        /\ \A t \in Scripts : t # s => script'[t] = script[t]
    BY <1>1, <2>1, GoesTo
  <2>3. script[s].mode = "register" /\ script[s].config \in configs
    BY <2>1 DEF Holdings, Holds, At
  <2>4. Blamed => Blamed'
    BY <2>1, <2>2, BlameStays DEF At
  <2>5. Types'
    BY <2>1, <2>2, <2>3 DEF Types
  <2>6. Holdings'
    <3>1. (record \notin Unreadable => Sound(record))'
      BY <2>1, <2>4 DEF Holdings, Sound, Good
    <3>2. Holds(s)'
      BY <2>1, <2>2 DEF Holds, At, Acting, Sent
    <3> QED
      BY <2>1, <2>2, <2>4, <3>1, <3>2, OthersHold
  <2>7. Rewriting' = Rewriting /\ s \notin Rewriting
    BY <2>1, <2>2 DEF Rewriting
  <2>8. \A t \in Scripts : HasPublished(t)' => t # s /\ HasPublished(t)
    BY <2>2, <2>3 DEF HasPublished
  <2>9. Publishes' /\ LastNamed'
    BY <2>1, <2>2, <2>7, <2>8 DEF Publishes, LastNamed, At, Rewriting
  <2>10. Clashes' /\ Refusals'
    BY <2>1, <2>2, <2>4, <2>7 DEF Clashes, Refusals, ForeignConfig, At, Rewriting
  <2> QED
    BY <2>5, <2>6, <2>9, <2>10
<1>16. ASSUME NEW s \in Scripts, ReadAgain(s) PROVE IInv'
  <2>1. /\ published' = published /\ latest' = latest /\ configs' = configs
        /\ enclaves' = enclaves /\ record' = record /\ announced' = announced
        /\ record \notin Unreadable
        /\ script' = [script EXCEPT ![s].base = record, ![s].at = "read"]
        /\ script[s].at = "sent"
        /\ clashed' = IF Rewriting = {} THEN clashed
                      ELSE clashed \cup Rewriting \cup {s}
    BY <1>16 DEF ReadAgain, At, CurrentRecord, Parsed
  <2>2. Sound(record)
    BY <2>1 DEF Holdings
  <2>3. /\ script' \in [Scripts -> Run]
        /\ script'[s].at = "read" /\ script'[s].mode = script[s].mode
        /\ script'[s].deployment = script[s].deployment
        /\ script'[s].made = script[s].made
        /\ script'[s].base = record
    <3>1. script[s] \in Run /\ "read" \in Places
      BY <1>1 DEF Places
    <3>2. [script[s] EXCEPT !.base = record, !.at = "read"] \in Run
      BY <3>1, <2>2 DEF Run, Sound, Good
    <3> QED
      BY <1>1, <2>1, <3>1, <3>2 DEF Run
  <2>4. \A t \in Scripts : t # s => script'[t] = script[t]
    BY <1>1, <2>1
  <2>5. Blamed => Blamed'
    BY <2>1, <2>4, BlameStays DEF At
  <2>6. Types'
    BY <2>1, <2>3 DEF Types, Rewriting
  <2>7. Holdings'
    <3>1. (record \notin Unreadable => Sound(record))'
      BY <2>1, <2>2, <2>5 DEF Sound, Good
    <3>2. Sound(script[s].deployment)
          /\ script[s].mode \in {"publish_new", "upgrade"}
      BY <2>1 DEF Holdings, Holds, Acting, Sent
    <3>3. Holds(s)'
      BY <2>1, <2>2, <2>3, <2>5, <3>2 DEF Holds, Sound, Good, At, Acting, Sent
    <3> QED
      BY <2>1, <2>4, <2>5, <3>1, <3>3, OthersHold
  <2>8. \A t \in Scripts :
          /\ HasPublished(t)' <=> HasPublished(t)
          /\ script'[t].made = script[t].made
          /\ At(t, "done")' <=> At(t, "done")
    BY <2>1, <2>3, <2>4 DEF HasPublished, Sent, At
  <2>9. Publishes'
    BY <2>1, <2>8 DEF Publishes
  <2>10. Rewriting' = Rewriting \cup {s} /\ s \notin Rewriting
    BY <2>1, <2>3, <2>4 DEF Rewriting
  <2>11. Clashes'
    BY <2>1, <2>10 DEF Clashes
  <2>12. LastNamed'
    <3> SUFFICES ASSUME NEW t \in Scripts \ clashed', HasPublished(t)',
                        At(t, "done")', script'[t].made = announced'
                 PROVE  /\ record' \notin Unreadable => record'.packageId.origin = announced'
                        /\ \A u \in Rewriting' : script'[u].mode = "upgrade" =>
                             script'[u].base.packageId.origin = announced'
      BY DEF LastNamed
    <3>1. t \notin clashed
      BY <2>1
    <3>2. record.packageId.origin = announced
      BY <3>1, <2>1, <2>8 DEF LastNamed
    <3>3. \A u \in Rewriting : script[u].mode = "upgrade" =>
            script[u].base.packageId.origin = announced
      BY <3>1, <2>1, <2>8 DEF LastNamed
    <3>4. \A u \in Rewriting : script'[u] = script[u]
      BY <2>4, <2>10 DEF Rewriting
    <3> QED
      BY <2>1, <2>3, <2>10, <3>2, <3>3, <3>4
  <2>13. Refusals'
    BY <2>1, <2>3, <2>4, <2>5 DEF Refusals, ForeignConfig, At
  <2> QED
    BY <2>6, <2>7, <2>9, <2>11, <2>12, <2>13
<1>17. ASSUME NEW s \in Scripts, Truncate(s) PROVE IInv'
  <2>1. /\ published' = published /\ latest' = latest /\ configs' = configs
        /\ enclaves' = enclaves /\ clashed' = clashed /\ announced' = announced
        /\ record' \in Unreadable
        /\ script[s].at = "read" /\ Goes(s, "writing") /\ "writing" \in Places
    BY <1>17 DEF Truncate, At, Places, Unreadable
  <2>2. /\ script' \in [Scripts -> Run]
        /\ script'[s].at = "writing" /\ script'[s].mode = script[s].mode
        /\ script'[s].deployment = script[s].deployment
        /\ script'[s].made = script[s].made
        /\ script'[s].base = script[s].base
        /\ \A t \in Scripts : t # s => script'[t] = script[t]
    BY <1>1, <2>1, GoesTo
  <2>3. Blamed => Blamed'
    BY <2>1, <2>2, BlameStays DEF At
  <2>4. Types'
    BY <2>1, <2>2 DEF Types
  <2>5. Holdings'
    <3>1. Holds(s)'
      BY <2>1, <2>2, <2>3 DEF Holdings, Holds, Sound, Good, At, Acting, Sent
    <3> QED
      BY <2>1, <2>2, <2>3, <3>1, OthersHold
  <2>6. \A t \in Scripts :
          /\ HasPublished(t)' <=> HasPublished(t)
          /\ script'[t].made = script[t].made
          /\ script'[t].mode = script[t].mode
          /\ script'[t].base = script[t].base
          /\ At(t, "done")' <=> At(t, "done")
    BY <2>1, <2>2 DEF HasPublished, Sent, At
  <2>7. Publishes'
    BY <2>1, <2>6 DEF Publishes
  <2>8. Rewriting' = Rewriting
    BY <2>1, <2>2 DEF Rewriting
  <2>9. LastNamed'
    BY <2>1, <2>6, <2>8 DEF LastNamed, Rewriting
  <2>10. Clashes' /\ Refusals'
    BY <2>1, <2>2, <2>3, <2>8 DEF Clashes, Refusals, ForeignConfig, At, Rewriting
  <2> QED
    BY <2>4, <2>5, <2>7, <2>9, <2>10
<1>18. ASSUME NEW s \in Scripts, Fill(s) PROVE IInv'
  <2>1. /\ published' = published /\ latest' = latest /\ configs' = configs
        /\ enclaves' = enclaves /\ clashed' = clashed
        /\ record' = Patched(s) \/ record' \in Unreadable
        /\ announced' = IF script[s].mode = "publish_new" THEN script[s].made
                        ELSE announced
        /\ script[s].at = "writing" /\ Goes(s, "done") /\ "done" \in Places
    BY <1>18 DEF Fill, At, Places, Unreadable
  <2>2. /\ script' \in [Scripts -> Run]
        /\ script'[s].at = "done" /\ script'[s].mode = script[s].mode
        /\ script'[s].deployment = script[s].deployment
        /\ script'[s].made = script[s].made
        /\ script'[s].base = script[s].base
        /\ \A t \in Scripts : t # s => script'[t] = script[t]
    BY <1>1, <2>1, GoesTo
  <2>3. Blamed => Blamed'
    BY <2>1, <2>2, BlameStays DEF At
  <2>4. /\ Sound(script[s].base) /\ Sound(script[s].deployment)
        /\ script[s].mode \in {"publish_new", "upgrade"}
    BY <2>1 DEF Holdings, Holds, Acting, Sent
  <2>5. script[s].mode = "publish_new" =>
          /\ script[s].made \in Origins
          /\ Patched(s).packageId.origin = script[s].made
    BY <2>1 DEF Publishes, HasPublished, Sent, Patched, PublishPatch, First
  <2>6. script[s].mode = "upgrade" =>
          Patched(s).packageId = script[s].base.packageId
    BY <2>4 DEF Patched, UpgradePatch, Sound, Good, Record
  <2>7. Good(Patched(s))
    <3>1. CASE script[s].mode = "publish_new"
      BY <3>1, <2>5 DEF Good, Patched, PublishPatch, First, Record, Package
    <3>2. CASE script[s].mode = "upgrade"
      BY <3>2, <2>4 DEF Good, Sound, Patched, UpgradePatch, Record
    <3> QED
      BY <2>4, <3>1, <3>2
  <2>8. Patched(s).enclavePackageId.origin # Patched(s).packageId.origin => Blamed'
    <3>1. CASE script[s].mode = "publish_new"
      BY <3>1 DEF Patched, PublishPatch, First
    <3>2. CASE script[s].mode = "upgrade"
      <4>1. Patched(s).enclavePackageId = script[s].deployment.packageId
        BY <3>2, <2>4 DEF Patched, UpgradePatch, Sound, Good, Record
      <4>2. ASSUME Patched(s).enclavePackageId.origin # Patched(s).packageId.origin
            PROVE  Blamed'
        <5>1. script'[s].base.packageId # script'[s].deployment.packageId
          BY <4>1, <4>2, <2>2, <2>6, <3>2
        <5> QED
          BY <5>1, <2>2, <3>2 DEF Blamed, Outdated, At
      <4> QED
        BY <4>2
    <3> QED
      BY <2>4, <3>1, <3>2
  <2>9. Types'
    BY <2>1, <2>2, <2>4, <2>5, <2>7 DEF Types, Good
  <2>10. Holdings'
    <3>1. (record \notin Unreadable => Sound(record))'
      BY <2>1, <2>7, <2>8 DEF Sound, Good
    <3>2. Holds(s)'
      BY <2>2 DEF Holds, At, Acting, Sent
    <3> QED
      BY <2>1, <2>2, <2>3, <3>1, <3>2, OthersHold
  <2>11. \A t \in Scripts :
           /\ HasPublished(t)' <=> HasPublished(t)
           /\ script'[t].made = script[t].made
    BY <2>1, <2>2 DEF HasPublished, Sent
  <2>12. Publishes'
    BY <2>1, <2>11 DEF Publishes
  <2>13. /\ Rewriting' = Rewriting \ {s} /\ s \in Rewriting
         /\ \A u \in Rewriting' : script'[u] = script[u]
    BY <2>1, <2>2 DEF Rewriting
  <2>14. LastNamed'
    <3> SUFFICES ASSUME NEW t \in Scripts \ clashed, HasPublished(t),
                        At(t, "done")', script[t].made = announced'
                 PROVE  /\ record' \notin Unreadable => record'.packageId.origin = announced'
                        /\ \A u \in Rewriting' : script'[u].mode = "upgrade" =>
                             script'[u].base.packageId.origin = announced'
      BY <2>1, <2>11 DEF LastNamed
    <3>1. CASE t = s
      <4>1. Rewriting' = {}
        BY <3>1, <2>13 DEF Clashes
      <4>2. script[s].mode = "publish_new"
        BY <3>1 DEF HasPublished
      <4> QED
        BY <4>1, <4>2, <3>1, <2>1, <2>5
    <3>2. CASE t # s /\ script[s].mode = "publish_new"
      <4>1. HasPublished(s) /\ script[t].made = script[s].made
        BY <3>2, <2>1 DEF HasPublished, Sent
      <4> QED
        BY <4>1, <3>2 DEF Publishes
    <3>3. CASE t # s /\ script[s].mode = "upgrade"
      <4>1. At(t, "done") /\ announced' = announced
        BY <3>3, <2>1, <2>2 DEF At
      <4>2. \A u \in Rewriting : script[u].mode = "upgrade" =>
              script[u].base.packageId.origin = announced
        BY <4>1 DEF LastNamed
      <4>3. Patched(s).packageId.origin = announced
        BY <4>2, <3>3, <2>6, <2>13
      <4> QED
        BY <4>1, <4>2, <4>3, <2>1, <2>13
    <3> QED
      BY <2>4, <3>1, <3>2, <3>3
  <2>15. Clashes'
    BY <2>1, <2>13 DEF Clashes
  <2>16. Refusals'
    BY <2>1, <2>2, <2>3 DEF Refusals, ForeignConfig, At
  <2> QED
    BY <2>9, <2>10, <2>12, <2>14, <2>15, <2>16
<1>19. ASSUME UNCHANGED vars PROVE IInv'
  BY <1>19 DEF vars, Types, Holdings, Holds, Sound, Good, Blamed, Outdated,
     Publishes, HasPublished, Clashes, Rewriting, LastNamed, Refusals,
     ForeignConfig, At
<1> QED
  BY <1>2, <1>3, <1>4, <1>5, <1>6, <1>7, <1>8, <1>9, <1>10, <1>11, <1>12,
     <1>13, <1>14, <1>15, <1>16, <1>17, <1>18, <1>19 DEF Next

-----------------------------------------------------------------------------

\* The inductive invariant holds, whichever publishes and upgrades are at work.
THEOREM RecordInvariance == Spec => []IInv
<1>1. Init => IInv
  BY InitInv
<1>2. IInv /\ [Next]_vars => IInv'
  BY NextInv
<1> QED
  BY <1>1, <1>2, PTL DEF Spec

\* Type correctness: what any run holds and writes is a record of one
\* publish's ids (Deployment!TypeOK).
THEOREM RecordTyped == Spec => []TypeOK
<1>1. IInv => TypeOK
  BY DEF IInv, Types, TypeOK
<1> QED
  BY <1>1, RecordInvariance, PTL

\* A readable record names one publish, its two caps and its first version,
\* for any number of runs (updateDeployment).
THEOREM OnePublishNamed == Spec => []RecordNamesOnePublish
<1>1. IInv => RecordNamesOnePublish
  BY DEF IInv, Holdings, Sound, Good, RecordNamesOnePublish
<1> QED
  BY <1>1, RecordInvariance, PTL

\* The last publish to end is not taken back (updateDeployment reads again).
THEOREM PublishKept == Spec => []LastPublishNamed
<1>1. IInv => LastPublishNamed
  BY DEF IInv, LastNamed, LastPublishNamed, HasPublished, Sent, At
<1> QED
  BY <1>1, RecordInvariance, PTL

\* Only an outdated upgrade makes the chain refuse a registration with the
\* right config.
THEOREM RegistrationsFit == Spec => []RegistrationSucceeds
<1>1. IInv => RegistrationSucceeds
  BY DEF IInv, Refusals, Blamed, RegistrationSucceeds
<1> QED
  BY <1>1, RecordInvariance, PTL

\* No package is upgraded twice.
THEOREM OneUpgrade == Spec => []UpgradedOnce
<1>1. IInv => UpgradedOnce
  BY DEF IInv, Types, UpgradedOnce
<1> QED
  BY <1>1, RecordInvariance, PTL

\* A record left unreadable by runs that are gone is never written again.
THEOREM TornForGood == Spec => BrokenForGood
<1>1. ASSUME Types, Broken, [Next]_vars PROVE Broken'
  <2> USE DEF Broken, chainVars, historyVars
  <2>1. script \in [Scripts -> Run] /\ Parsed(record) = {}
    BY <1>1 DEF Types, Parsed
  <2>2. ASSUME NEW s \in Scripts, record' = record, script'[s].at \notin {"read", "writing"},
               \A t \in Scripts : t # s => script'[t] = script[t]
        PROVE  Broken'
    BY <1>1, <2>2 DEF Rewriting
  <2>3. ASSUME NEW s \in Scripts, NEW place \in Places \ {"read", "writing"},
               record' = record, Goes(s, place)
        PROVE  Broken'
    BY <2>1, <2>2, <2>3, GoesTo
  <2>4. \A s \in Scripts :
          /\ \A m \in Modes : ~Start(s, m)
          /\ \A p, i \in Images, c \in configs \cup {None} :
               ~StartRegister(s, p, i, c)
          /\ ~ReadAgain(s)
    BY <2>1 DEF Start, StartRegister, ReadAgain, CurrentRecord
  <2>5. \A s \in Scripts : ~Truncate(s) /\ ~Fill(s)
    BY <1>1 DEF Truncate, Fill, Rewriting, At
  <2>6. ASSUME NEW s \in Scripts,
               \/ StartFails(s) \/ Build(s) \/ BuildFails(s) \/ UpgradeRefused(s)
               \/ TransactionFails(s) \/ ReadAgainFails(s) \/ RegisterRefused(s)
               \/ Kill(s)
        PROVE  Broken'
    <3>1. record' = record
      BY <2>6 DEF StartFails, Build, BuildFails, UpgradeRefused, TransactionFails,
         ReadAgainFails, RegisterRefused, Kill
    <3>2. PICK place \in Places \ {"read", "writing"} : Goes(s, place)
      BY <2>6 DEF StartFails, Build, BuildFails, UpgradeRefused, TransactionFails,
         ReadAgainFails, RegisterRefused, Kill, Places
    <3> QED
      BY <3>1, <3>2, <2>3
  <2>7. ASSUME NEW s \in Scripts, NEW r \in {"sent", "failed"},
               PublishNew(s, r)
        PROVE  Broken'
    <3>1. /\ record' = record
          /\ script' = [script EXCEPT ![s].made = published + 1, ![s].at = r]
      BY <2>7 DEF PublishNew
    <3>2. script'[s].at = r /\ \A t \in Scripts : t # s => script'[t] = script[t]
      BY <2>1, <3>1 DEF Run
    <3> QED
      BY <2>2, <3>1, <3>2
  <2>8. ASSUME NEW s \in Scripts, NEW r \in {"sent", "failed"}, Upgrade(s, r)
        PROVE  Broken'
    BY <2>8, <2>3 DEF Upgrade, Places
  <2>9. ASSUME NEW s \in Scripts, NEW r \in {"configured", "failed"},
               CreateConfig(s, r)
        PROVE  Broken'
    <3>1. /\ record' = record
          /\ \E c : script' = [script EXCEPT ![s].config = c, ![s].at = r]
      BY <2>9 DEF CreateConfig
    <3>2. script'[s].at = r /\ \A t \in Scripts : t # s => script'[t] = script[t]
      BY <2>1, <3>1 DEF Run
    <3> QED
      BY <2>2, <3>1, <3>2
  <2>10. ASSUME NEW s \in Scripts, NEW r \in {"done", "failed"},
                RegisterEnclave(s, r)
         PROVE  Broken'
    BY <2>10, <2>3 DEF RegisterEnclave, Places
  <2>11. ASSUME UNCHANGED vars PROVE Broken'
    BY <1>1, <2>11 DEF vars, Rewriting
  <2> QED
    BY <1>1, <2>4, <2>5, <2>6, <2>7, <2>8, <2>9, <2>10, <2>11 DEF Next
<1>2. IInv => Types
  BY DEF IInv
<1>3. IInv /\ [Next]_vars => [Broken => Broken']_vars
  BY <1>1, <1>2
<1> QED
  BY <1>3, RecordInvariance, PTL DEF Spec, BrokenForGood
=============================================================================
