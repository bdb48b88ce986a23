-------------------------- MODULE ScoreLedgerProofs --------------------------
(***************************************************************************)
(* Proofs about the enclave registry and the ledger over it, for any       *)
(* number of evals, scores, keys, images and configs.  What the ledger     *)
(* says of an old score only holds because attestation facts are permanent *)
(* although Enclave objects are not: that is the registry's invariant.     *)
(***************************************************************************)
EXTENDS ScoreLedger, TLAPS

-----------------------------------------------------------------------------
(* The registry.                                                           *)

\* Config ids are unique among the shared configs.
ConfigIdsUnique == \A c, d \in configs : c.id = d.id => c = d

\* `measured` records every config's present PCRs...
PresentMeasured == \A c \in configs : <<c.id, c.version, c.pcrs>> \in measured

\* ...and nothing beyond the present version of an existing config.
MeasuredInThePast ==
  \A m \in measured : \E c \in configs : c.id = m[1] /\ m[2] <= c.version

(***************************************************************************)
(* The inductive invariant.  VersionNamesOnePcrs is not inductive alone:   *)
(* an update adds <<id, version + 1, pcrs>>, which clashes with nothing    *)
(* only because no entry of that config is ahead of it.                    *)
(***************************************************************************)
RegistryInv ==
  /\ RegistryTypeOK
  /\ ConfigIdsUnique
  /\ PresentMeasured
  /\ MeasuredInThePast
  /\ VersionNamesOnePcrs
  /\ EnclaveKeysAttested

\* The empty registry satisfies the invariant.
LEMMA RegistryInitInv == RegistryInit => RegistryInv
  BY RegistryAssumption
  DEF RegistryInit, RegistryInv, RegistryTypeOK, ConfigIdsUnique,
      PresentMeasured, MeasuredInThePast, VersionNamesOnePcrs,
      EnclaveKeysAttested

\* An enclave that starts only adds a document.
LEMMA BootInv ==
  ASSUME RegistryInv, NEW k \in Keys, NEW p \in Pcrs, Boot(k, p)
  PROVE  RegistryInv'
<1>1. documents \subseteq documents'
  BY DEF Boot
<1>2. RegistryTypeOK'
  BY DEF Boot, RegistryInv, RegistryTypeOK, NitroAttestationDocument
<1>3. EnclaveKeysAttested'
  BY <1>1 DEF Boot, RegistryInv, EnclaveKeysAttested, AttestedAt
<1>4. QED
  BY <1>2, <1>3
  DEF Boot, RegistryInv, ConfigIdsUnique, PresentMeasured, MeasuredInThePast,
      VersionNamesOnePcrs

\* A new config starts a history of its own.
LEMMA CreateInv ==
  ASSUME RegistryInv, NEW a \in Accounts, NEW i \in ConfigIds,
         NEW n \in Names, NEW p \in Pcrs, CreateEnclaveConfig(a, i, n, p)
  PROVE  RegistryInv'
<1> DEFINE new == [id |-> i, name |-> n, pcrs |-> p, version |-> 0]
<1>1. /\ configs' = configs \cup {new}
      /\ measured' = measured \cup {<<i, 0, p>>}
      /\ \A c \in configs : c.id # i
      /\ UNCHANGED <<capHolder, enclaves, usedEnclaveIds, documents>>
  BY DEF CreateEnclaveConfig
<1>2. \A m \in measured : m[1] # i
  BY <1>1 DEF RegistryInv, MeasuredInThePast
<1>new. /\ new \in EnclaveConfig
        /\ new.id = i /\ new.version = 0 /\ new.pcrs = p
  BY DEF EnclaveConfig
<1> HIDE DEF new
<1>3. RegistryTypeOK'
  BY <1>1, <1>new DEF RegistryInv, RegistryTypeOK
<1>4. ConfigIdsUnique'
  BY <1>1, <1>new DEF RegistryInv, ConfigIdsUnique
<1>5. PresentMeasured'
  <2> SUFFICES ASSUME NEW c \in configs'
               PROVE  <<c.id, c.version, c.pcrs>> \in measured'
    BY DEF PresentMeasured
  <2>1. CASE c \in configs
    BY <1>1, <2>1 DEF RegistryInv, PresentMeasured
  <2>2. CASE c = new
    BY <1>1, <1>new, <2>2
  <2>3. QED
    BY <1>1, <2>1, <2>2
<1>6. MeasuredInThePast'
  <2> SUFFICES ASSUME NEW m \in measured'
               PROVE  \E c \in configs' : c.id = m[1] /\ m[2] <= c.version
    BY DEF MeasuredInThePast
  <2>1. CASE m \in measured
    BY <1>1, <2>1 DEF RegistryInv, MeasuredInThePast
  <2>2. CASE m = <<i, 0, p>>
    BY <1>1, <1>new, <2>2
  <2>3. QED
    BY <1>1, <2>1, <2>2
<1>7. VersionNamesOnePcrs'
  BY <1>1, <1>2 DEF RegistryInv, VersionNamesOnePcrs
<1>8. EnclaveKeysAttested'
  BY <1>1 DEF RegistryInv, EnclaveKeysAttested, AttestedAt
<1>9. QED
  BY <1>3, <1>4, <1>5, <1>6, <1>7, <1>8 DEF RegistryInv

\* Registration: load_pk compares the document with the present PCRs, which
\* `measured` records under the present version.
LEMMA RegisterInv ==
  ASSUME RegistryInv, NEW a \in Accounts, NEW c \in configs,
         NEW d \in documents, NEW i \in EnclaveIds, RegisterEnclave(a, c, d, i)
  PROVE  RegistryInv'
<1> DEFINE new == [id |-> i, pk |-> d.public_key,
                   config_version |-> c.version, owner |-> a]
<1>1. /\ enclaves' = enclaves \cup {new}
      /\ usedEnclaveIds' = usedEnclaveIds \cup {i}
      /\ d.pcrs = c.pcrs
      /\ UNCHANGED <<capHolder, configs, documents, measured>>
  BY DEF RegisterEnclave, PcrsMatch, NewEnclave
<1>2. /\ c.id \in ConfigIds /\ c.version \in Nat
      /\ d.public_key \in Keys
  BY DEF RegistryInv, RegistryTypeOK, EnclaveConfig, NitroAttestationDocument
<1>3. RegistryTypeOK'
  BY <1>1, <1>2 DEF RegistryInv, RegistryTypeOK, Enclave
<1>4. <<c.id, c.version, d.pcrs>> \in measured
  BY <1>1 DEF RegistryInv, PresentMeasured
<1>5. AttestedAt(new.pk, new.config_version)'
  BY <1>1, <1>2, <1>4 DEF AttestedAt
<1>6. EnclaveKeysAttested'
  BY <1>1, <1>5 DEF RegistryInv, EnclaveKeysAttested, AttestedAt
<1>7. QED
  BY <1>1, <1>3, <1>6
  DEF RegistryInv, ConfigIdsUnique, PresentMeasured, MeasuredInThePast,
      VersionNamesOnePcrs

\* Rotation opens a version no history entry of the config has reached.
LEMMA UpdatePcrsInv ==
  ASSUME RegistryInv, NEW a \in Accounts, NEW c \in configs, NEW p \in Pcrs,
         UpdatePcrs(a, c, p)
  PROVE  RegistryInv'
<1> DEFINE next == [c EXCEPT !.pcrs = p, !.version = c.version + 1]
<1>1. /\ configs' = (configs \ {c}) \cup {next}
      /\ measured' = measured \cup {<<next.id, next.version, next.pcrs>>}
      /\ UNCHANGED <<capHolder, enclaves, usedEnclaveIds, documents>>
  BY DEF UpdatePcrs, Rotated
<1>2. c \in EnclaveConfig
  BY DEF RegistryInv, RegistryTypeOK
<1>4. c.version \in Nat
  BY <1>2 DEF EnclaveConfig
<1>3. /\ next \in EnclaveConfig
      /\ next.id = c.id
      /\ next.version = c.version + 1
      /\ next.pcrs = p
  <2> DEFINE rotated == [c EXCEPT !.pcrs = p]
  <2>1. /\ rotated \in EnclaveConfig
        /\ rotated.id = c.id /\ rotated.pcrs = p
    BY <1>2 DEF EnclaveConfig
  <2>2. next = [rotated EXCEPT !.version = c.version + 1]
    OBVIOUS
  <2>3. c.version + 1 \in Nat
    BY <1>4
  <2> HIDE DEF next, rotated
  <2>4. QED
    BY <2>1, <2>2, <2>3 DEF EnclaveConfig
<1> HIDE DEF next
<1>5. \A e \in configs : e.version \in Nat
  BY DEF RegistryInv, RegistryTypeOK, EnclaveConfig
<1>6. \A m \in measured : m \in ConfigIds \X Nat \X Pcrs
  BY DEF RegistryInv, RegistryTypeOK
<1>7. \A m \in measured : m[1] = c.id => m[2] <= c.version
  BY DEF RegistryInv, MeasuredInThePast, ConfigIdsUnique
<1>8. RegistryTypeOK'
  <2>1. <<next.id, next.version, next.pcrs>> \in ConfigIds \X Nat \X Pcrs
    BY <1>3 DEF EnclaveConfig
  <2>2. QED
    BY <1>1, <1>3, <2>1 DEF RegistryInv, RegistryTypeOK
<1>9. ConfigIdsUnique'
  BY <1>1, <1>3 DEF RegistryInv, ConfigIdsUnique
<1>10. PresentMeasured'
  BY <1>1 DEF RegistryInv, PresentMeasured
<1>11. MeasuredInThePast'
  <2> SUFFICES ASSUME NEW m \in measured'
               PROVE  \E e \in configs' : e.id = m[1] /\ m[2] <= e.version
    BY DEF MeasuredInThePast
  <2>1. CASE m \in measured
    <3>1. PICK e \in configs : e.id = m[1] /\ m[2] <= e.version
      BY <2>1 DEF RegistryInv, MeasuredInThePast
    <3>2. CASE e = c
      <4>1. m[2] \in Nat
        BY <2>1, <1>6
      <4>2. m[2] <= next.version
        BY <3>1, <3>2, <4>1, <1>3, <1>4
      <4>3. QED
        BY <1>1, <1>3, <3>1, <3>2, <4>2
    <3>3. CASE e # c
      BY <1>1, <3>1, <3>3
    <3>4. QED
      BY <3>2, <3>3
  <2>2. CASE m = <<next.id, next.version, next.pcrs>>
    BY <1>1, <1>3, <1>4, <2>2
  <2>3. QED
    BY <1>1, <2>1, <2>2
<1>12. VersionNamesOnePcrs'
  <2>1. \A m \in measured :
           ~(m[1] = next.id /\ m[2] = next.version)
    BY <1>3, <1>4, <1>6, <1>7
  <2>2. QED
    BY <1>1, <2>1 DEF RegistryInv, VersionNamesOnePcrs
<1>13. EnclaveKeysAttested'
  BY <1>1 DEF RegistryInv, EnclaveKeysAttested, AttestedAt
<1>14. QED
  BY <1>8, <1>9, <1>10, <1>11, <1>12, <1>13 DEF RegistryInv

\* Renaming a config leaves its id, version and PCRs alone.
LEMMA UpdateNameInv ==
  ASSUME RegistryInv, NEW a \in Accounts, NEW c \in configs, NEW n \in Names,
         UpdateName(a, c, n)
  PROVE  RegistryInv'
<1> DEFINE next == [c EXCEPT !.name = n]
<1>1. /\ configs' = (configs \ {c}) \cup {next}
      /\ UNCHANGED <<capHolder, enclaves, usedEnclaveIds, documents, measured>>
  BY DEF UpdateName
<1>2. c \in EnclaveConfig
  BY DEF RegistryInv, RegistryTypeOK
<1>3. /\ next \in EnclaveConfig
      /\ next.id = c.id /\ next.version = c.version /\ next.pcrs = c.pcrs
  BY <1>2 DEF EnclaveConfig
<1> HIDE DEF next
<1>4. RegistryTypeOK'
  BY <1>1, <1>3 DEF RegistryInv, RegistryTypeOK
<1>5. ConfigIdsUnique'
  BY <1>1, <1>3 DEF RegistryInv, ConfigIdsUnique
<1>6. PresentMeasured'
  BY <1>1, <1>3 DEF RegistryInv, PresentMeasured
<1>7. MeasuredInThePast'
  BY <1>1, <1>3 DEF RegistryInv, MeasuredInThePast
<1>8. QED
  BY <1>1, <1>4, <1>5, <1>6, <1>7
  DEF RegistryInv, VersionNamesOnePcrs, EnclaveKeysAttested, AttestedAt

\* The remaining transactions only drop an enclave or move the Cap.
LEMMA RemovalInv ==
  ASSUME RegistryInv,
         enclaves' \subseteq enclaves, capHolder' \in Accounts,
         UNCHANGED <<configs, usedEnclaveIds, documents, measured>>
  PROVE  RegistryInv'
  BY DEF RegistryInv, RegistryTypeOK, ConfigIdsUnique, PresentMeasured,
         MeasuredInThePast, VersionNamesOnePcrs, EnclaveKeysAttested,
         AttestedAt

\* One step of the registry preserves the invariant.
LEMMA RegistryNextInv ==
  ASSUME RegistryInv, [RegistryNext]_registryVars
  PROVE  RegistryInv'
<1>1. CASE \E k \in Keys, p \in Pcrs : Boot(k, p)
  BY <1>1, BootInv
<1>2. CASE \E a \in Accounts : TransferCap(a)
  BY <1>2, RemovalInv DEF TransferCap
<1>3. CASE \E a \in Accounts, i \in ConfigIds, n \in Names, p \in Pcrs :
              CreateEnclaveConfig(a, i, n, p)
  BY <1>3, CreateInv
<1>4. CASE \E a \in Accounts, c \in configs, d \in documents,
              i \in EnclaveIds : RegisterEnclave(a, c, d, i)
  BY <1>4, RegisterInv
<1>5. CASE \E a \in Accounts, c \in configs, p \in Pcrs : UpdatePcrs(a, c, p)
  BY <1>5, UpdatePcrsInv
<1>6. CASE \E a \in Accounts, c \in configs, n \in Names : UpdateName(a, c, n)
  BY <1>6, UpdateNameInv
<1>7. CASE \E e \in enclaves, c \in configs : DestroyOldEnclave(e, c)
  BY <1>7, RemovalInv DEF DestroyOldEnclave, RegistryInv, RegistryTypeOK
<1>8. CASE \E a \in Accounts, e \in enclaves : DestroyEnclaveByOwner(a, e)
  BY <1>8, RemovalInv DEF DestroyEnclaveByOwner, RegistryInv, RegistryTypeOK
<1>9. CASE UNCHANGED registryVars
  BY <1>9, RemovalInv DEF registryVars, RegistryInv, RegistryTypeOK
<1>10. QED
  BY <1>1, <1>2, <1>3, <1>4, <1>5, <1>6, <1>7, <1>8, <1>9
  DEF RegistryNext, ChainStep

\* An attested enclave's version is either the present one of its config, and
\* then the PCRs are the present ones too, or a past one.
LEMMA InvRemovable == RegistryInv => StaleEnclaveRemovable
<1> SUFFICES ASSUME RegistryInv, NEW e \in enclaves
             PROVE  \/ \E c \in configs, d \in documents :
                          d.public_key = e.pk /\ d.pcrs = c.pcrs
                    \/ \E c \in configs : e.config_version < c.version
  BY DEF StaleEnclaveRemovable
<1>1. PICK d \in documents, i \in ConfigIds :
         d.public_key = e.pk /\ <<i, e.config_version, d.pcrs>> \in measured
  BY DEF RegistryInv, EnclaveKeysAttested, AttestedAt
<1>2. PICK c \in configs : c.id = i /\ e.config_version <= c.version
  BY <1>1 DEF RegistryInv, MeasuredInThePast
<1>3. e.config_version \in Nat /\ c.version \in Nat
  BY DEF RegistryInv, RegistryTypeOK, Enclave, EnclaveConfig
<1>4. CASE e.config_version < c.version
  BY <1>4
<1>5. CASE e.config_version = c.version
  <2>1. <<c.id, c.version, c.pcrs>> \in measured
    BY DEF RegistryInv, PresentMeasured
  <2>2. c.pcrs = d.pcrs
    BY <1>1, <1>2, <1>5, <2>1 DEF RegistryInv, VersionNamesOnePcrs
  <2>3. QED
    BY <1>1, <2>2
<1>6. QED
  BY <1>2, <1>3, <1>4, <1>5

\* The inductive invariant holds of every behaviour of the registry.
THEOREM RegistryInvariance == RegistrySpec => []RegistryInv
  BY RegistryInitInv, RegistryNextInv, PTL DEF RegistrySpec

\* Type correctness of the registry.
THEOREM RegistryTyped == RegistrySpec => []RegistryTypeOK
<1>1. RegistryInv => RegistryTypeOK
  BY DEF RegistryInv
<1>2. QED
  BY <1>1, RegistryInvariance, PTL

\* Every live Enclave object holds a key genuinely attested under the PCRs
\* its config required at the version it records.
THEOREM EnclavesAttested == RegistrySpec => []EnclaveKeysAttested
<1>1. RegistryInv => EnclaveKeysAttested
  BY DEF RegistryInv
<1>2. QED
  BY <1>1, RegistryInvariance, PTL

\* A config version never comes to mean other PCRs.
THEOREM VersionsStable == RegistrySpec => []VersionNamesOnePcrs
<1>1. RegistryInv => VersionNamesOnePcrs
  BY DEF RegistryInv
<1>2. QED
  BY <1>1, RegistryInvariance, PTL

\* An enclave whose image no config requires any longer can be destroyed by
\* anyone.
THEOREM OutdatedRemovable == RegistrySpec => []StaleEnclaveRemovable
  BY InvRemovable, RegistryInvariance, PTL

-----------------------------------------------------------------------------
(* The ledger.                                                             *)

LedgerInv ==
  /\ RegistryInv
  /\ LedgerTypeOK
  /\ ScoreProvenance
  /\ KeysReleasedToAttested

\* A live Enclave's key is attested.
LEMMA LiveKeyAttested ==
  ASSUME RegistryInv, NEW e \in enclaves
  PROVE  Attested(e.pk)
<1>1. PICK d \in documents, i \in ConfigIds :
         d.public_key = e.pk /\ <<i, e.config_version, d.pcrs>> \in measured
  BY DEF RegistryInv, EnclaveKeysAttested, AttestedAt
<1>2. QED
  BY <1>1 DEF Attested

\* Attestation facts are never lost.
LEMMA FactsPermanent ==
  ASSUME [RegistryNext]_registryVars
  PROVE  documents \subseteq documents' /\ measured \subseteq measured'
  BY DEF RegistryNext, ChainStep, Boot, TransferCap, CreateEnclaveConfig,
         RegisterEnclave, UpdatePcrs, UpdateName, DestroyOldEnclave,
         DestroyEnclaveByOwner, registryVars

\* Signing, or any step that only adds signatures, keeps the invariant.
LEMMA RegistryStepInv ==
  ASSUME LedgerInv, [RegistryNext]_registryVars, UNCHANGED ledgerVars
  PROVE  LedgerInv'
<1>1. RegistryInv'
  BY RegistryNextInv DEF LedgerInv
<1>2. LedgerTypeOK'
  BY <1>1 DEF LedgerInv, LedgerTypeOK, ledgerVars, RegistryInv
<1>3. \A k : Attested(k) => Attested(k)'
  BY FactsPermanent DEF Attested
<1>4. ScoreProvenance' /\ KeysReleasedToAttested'
  BY <1>3 DEF LedgerInv, ScoreProvenance, KeysReleasedToAttested, ledgerVars
<1>5. QED
  BY <1>1, <1>2, <1>4 DEF LedgerInv

\* The registry's invariant and attestation do not depend on ledger state.
LEMMA RegistryUntouched ==
  ASSUME RegistryInv, UNCHANGED registryVars
  PROVE  RegistryInv' /\ \A k : Attested(k) <=> Attested(k)'
<1>1. RegistryInv'
  BY RegistryNextInv
<1>2. QED
  BY <1>1 DEF registryVars, Attested

\* A new signature takes nothing away from the old ones.
LEMMA SignInv ==
  ASSUME LedgerInv, NEW m \in ScoreMessage \cup SealMessage, Sign(m)
  PROVE  LedgerInv'
<1>1. RegistryInv' /\ \A k : Attested(k) <=> Attested(k)'
  BY RegistryUntouched DEF LedgerInv, Sign
<1>2. LedgerTypeOK'
  BY <1>1 DEF LedgerInv, LedgerTypeOK, RegistryInv, Sign
<1>3. signatures \subseteq signatures' /\ UNCHANGED <<evals, scores, released>>
  BY DEF Sign
<1>4. ScoreProvenance' /\ KeysReleasedToAttested'
  BY <1>1, <1>3 DEF LedgerInv, ScoreProvenance, KeysReleasedToAttested
<1>5. QED
  BY <1>1, <1>2, <1>4 DEF LedgerInv

\* Sealing adds an eval, so every score still finds its own.
LEMMA CreateEvalInv ==
  ASSUME LedgerInv, NEW a \in Accounts, NEW i \in EvalIds, NEW pt \in Bytes,
         NEW ct \in Bytes, NEW b \in BlobIds, NEW m \in Models,
         NEW n \in Counts, CreateEval(a, i, pt, ct, b, m, n)
  PROVE  LedgerInv'
<1>1. RegistryInv' /\ \A k : Attested(k) <=> Attested(k)'
  BY RegistryUntouched DEF LedgerInv, CreateEval
<1> DEFINE new ==
      [id |-> i, author |-> a, sha256_plaintext |-> pt,
       sha256_ciphertext |-> ct, walrus_blob_id |-> b, model_target |-> m,
       set_size |-> n, revealed |-> FALSE, plaintext_blob_id |-> NotRevealed]
<1>0. new \in SealedEval
  BY DEF CreateEval, EvalArgumentsOK, SealedEval, NotRevealed
<1>2. evals' \subseteq SealedEval
  BY <1>0 DEF CreateEval, LedgerInv, LedgerTypeOK
<1>3. evals \subseteq evals' /\ UNCHANGED <<scores, signatures, released>>
  BY DEF CreateEval
<1>4. LedgerTypeOK'
  BY <1>1, <1>2, <1>3 DEF LedgerInv, LedgerTypeOK, RegistryInv
<1>5. ScoreProvenance'
  <2> SUFFICES ASSUME NEW s \in scores
               PROVE  \E ev \in evals' :
                         /\ ev.id = s.payload.sealed_eval_id
                         /\ ev.model_target = s.payload.model_target
    BY <1>1, <1>3 DEF LedgerInv, ScoreProvenance
  <2>1. QED
    BY <1>3 DEF LedgerInv, ScoreProvenance
<1>6. KeysReleasedToAttested'
  BY <1>1, <1>3 DEF LedgerInv, KeysReleasedToAttested
<1>7. QED
  BY <1>1, <1>4, <1>5, <1>6 DEF LedgerInv

\* What Reveal leaves alone in the record.
LEMMA RevealKeeps ==
  ASSUME NEW ev \in SealedEval, NEW b \in BlobIds
  PROVE  LET ev2 == [ev EXCEPT !.revealed = TRUE, !.plaintext_blob_id = {b}]
         IN  /\ ev2 \in SealedEval
             /\ ev2.id = ev.id
             /\ ev2.model_target = ev.model_target
<1> DEFINE open == [ev EXCEPT !.revealed = TRUE]
<1> DEFINE ev2 == [open EXCEPT !.plaintext_blob_id = {b}]
<1>1. open \in SealedEval /\ open.id = ev.id
      /\ open.model_target = ev.model_target
  BY DEF SealedEval
<1> HIDE DEF open
<1>2. ev2 \in SealedEval /\ ev2.id = ev.id
      /\ ev2.model_target = ev.model_target
  BY <1>1 DEF SealedEval
<1>3. QED
  BY <1>2 DEF open

LEMMA RevealInv ==
  ASSUME LedgerInv, NEW ev \in evals, NEW b \in BlobIds, Reveal(ev, b)
  PROVE  LedgerInv'
<1> DEFINE ev2 == [ev EXCEPT !.revealed = TRUE, !.plaintext_blob_id = {b}]
<1>1. RegistryInv' /\ \A k : Attested(k) <=> Attested(k)'
  BY RegistryUntouched DEF LedgerInv, Reveal
<1>2. /\ ev2 \in SealedEval
      /\ ev2.id = ev.id /\ ev2.model_target = ev.model_target
  BY RevealKeeps DEF LedgerInv, LedgerTypeOK
<1>3. /\ evals' = (evals \ {ev}) \cup {ev2}
      /\ UNCHANGED <<scores, signatures, released>>
  BY DEF Reveal, Revealable
<1> HIDE DEF ev2
<1>4. LedgerTypeOK'
  BY <1>1, <1>2, <1>3 DEF LedgerInv, LedgerTypeOK, RegistryInv
<1>5. ScoreProvenance'
  <2> SUFFICES ASSUME NEW s \in scores
               PROVE  \E v \in evals' :
                         /\ v.id = s.payload.sealed_eval_id
                         /\ v.model_target = s.payload.model_target
    BY <1>1, <1>3 DEF LedgerInv, ScoreProvenance
  <2>1. PICK v \in evals : /\ v.id = s.payload.sealed_eval_id
                           /\ v.model_target = s.payload.model_target
    BY DEF LedgerInv, ScoreProvenance
  <2>2. QED
    BY <1>2, <1>3, <2>1
<1>6. KeysReleasedToAttested'
  BY <1>1, <1>3 DEF LedgerInv, KeysReleasedToAttested
<1>7. QED
  BY <1>1, <1>4, <1>5, <1>6 DEF LedgerInv

\* Posting: the signature is verified under a live, hence attested, key.
LEMMA PostScoreInv ==
  ASSUME LedgerInv, NEW e \in enclaves, NEW ev \in evals, NEW i \in ScoreIds,
         NEW num \in Counts, NEW den \in Counts, NEW h \in Bytes,
         NEW t \in BlobIds, PostScore(e, ev, i, num, den, h, t)
  PROVE  LedgerInv'
<1> DEFINE payload ==
      [sealed_eval_id |-> ev.id, model_target |-> ev.model_target,
       score_num |-> num, score_den |-> den, items_hash |-> h,
       trace_blob_id |-> t]
<1> DEFINE score == [id |-> i, payload |-> payload, enclave_pk |-> e.pk]
<1>1. RegistryInv' /\ \A k : Attested(k) <=> Attested(k)'
  BY RegistryUntouched DEF LedgerInv, PostScore
<1>2. /\ den > 0
      /\ [pk |-> e.pk, intent |-> SCORE_INTENT, payload |-> payload]
            \in signatures
      /\ scores' = scores \cup {score}
      /\ UNCHANGED <<evals, signatures, released>>
  BY DEF PostScore, VerifySignature
<1>3. /\ payload \in ScorePayload
      /\ payload.sealed_eval_id = ev.id
      /\ payload.model_target = ev.model_target
      /\ payload.score_den = den
  BY DEF LedgerInv, LedgerTypeOK, SealedEval, ScorePayload
<1>4. e.pk \in Keys
  BY DEF LedgerInv, RegistryInv, RegistryTypeOK, Enclave
<1> HIDE DEF payload
<1>5. /\ score \in AttestedScore
      /\ score.payload = payload /\ score.enclave_pk = e.pk
  BY <1>3, <1>4 DEF AttestedScore
<1> HIDE DEF score
<1>6. LedgerTypeOK'
  BY <1>1, <1>2, <1>5 DEF LedgerInv, LedgerTypeOK, RegistryInv
<1>7. ScoreProvenance'
  <2>1. Attested(e.pk)'
    BY <1>1, LiveKeyAttested DEF LedgerInv
  <2>2. QED
    BY <1>1, <1>2, <1>3, <1>5, <2>1 DEF LedgerInv, ScoreProvenance
<1>8. KeysReleasedToAttested'
  BY <1>1, <1>2 DEF LedgerInv, KeysReleasedToAttested
<1>9. QED
  BY <1>1, <1>6, <1>7, <1>8 DEF LedgerInv

\* Key release: the same argument, for the access intent.
LEMMA ReleaseKeyInv ==
  ASSUME LedgerInv, NEW e \in enclaves, NEW i \in Digests, ReleaseKey(e, i)
  PROVE  LedgerInv'
<1> DEFINE grant == [id |-> i, pk |-> e.pk]
<1>1. RegistryInv' /\ \A k : Attested(k) <=> Attested(k)'
  BY RegistryUntouched DEF LedgerInv, ReleaseKey
<1>2. /\ [pk |-> e.pk, intent |-> SEAL_INTENT, payload |-> i] \in signatures
      /\ released' = released \cup {grant}
      /\ UNCHANGED <<evals, scores, signatures>>
  BY DEF ReleaseKey, VerifySignature
<1>3. e.pk \in Keys
  BY DEF LedgerInv, RegistryInv, RegistryTypeOK, Enclave
<1>4. Attested(e.pk)'
  BY <1>1, LiveKeyAttested DEF LedgerInv
<1>5. LedgerTypeOK'
  BY <1>1, <1>2, <1>3 DEF LedgerInv, LedgerTypeOK, RegistryInv
<1>6. ScoreProvenance'
  BY <1>1, <1>2 DEF LedgerInv, ScoreProvenance
<1>7. KeysReleasedToAttested'
  BY <1>1, <1>2, <1>4 DEF LedgerInv, KeysReleasedToAttested
<1>8. QED
  BY <1>1, <1>5, <1>6, <1>7 DEF LedgerInv

LEMMA LedgerInitInv == LedgerInit => LedgerInv
<1> SUFFICES ASSUME LedgerInit PROVE LedgerInv
  OBVIOUS
<1>1. RegistryInv
  BY RegistryInitInv DEF LedgerInit
<1>2. QED
  BY <1>1 DEF LedgerInit, LedgerInv, LedgerTypeOK, RegistryInv,
              ScoreProvenance, KeysReleasedToAttested

LEMMA LedgerNextInv ==
  ASSUME LedgerInv, [LedgerNext]_vars
  PROVE  LedgerInv'
<1>1. CASE RegistryNext /\ UNCHANGED ledgerVars
  BY <1>1, RegistryStepInv
<1>2. CASE \E k \in Keys, p \in ScorePayload : SignScore(k, p)
  <2> PICK k \in Keys, p \in ScorePayload : SignScore(k, p)
    BY <1>2
  <2> DEFINE m == [pk |-> k, intent |-> SCORE_INTENT, payload |-> p]
  <2>1. m \in ScoreMessage
    BY DEF ScoreMessage
  <2>2. Sign(m)
    BY DEF SignScore
  <2>3. QED
    BY <2>1, <2>2, SignInv
<1>3. CASE \E k \in Keys, i \in Digests : SignSealApproval(k, i)
  <2> PICK k \in Keys, i \in Digests : SignSealApproval(k, i)
    BY <1>3
  <2> DEFINE m == [pk |-> k, intent |-> SEAL_INTENT, payload |-> i]
  <2>1. m \in SealMessage
    BY DEF SealMessage
  <2>2. Sign(m)
    BY DEF SignSealApproval
  <2>3. QED
    BY <2>1, <2>2, SignInv
<1>4. CASE \E a \in Accounts, i \in EvalIds, pt, ct \in Bytes, b \in BlobIds,
              m \in Models, n \in Counts : CreateEval(a, i, pt, ct, b, m, n)
  BY <1>4, CreateEvalInv
<1>5. CASE \E ev \in evals, b \in BlobIds : Reveal(ev, b)
  BY <1>5, RevealInv
<1>6. CASE \E e \in enclaves, ev \in evals, i \in ScoreIds,
              num, den \in Counts, h \in Bytes, t \in BlobIds :
              PostScore(e, ev, i, num, den, h, t)
  BY <1>6, PostScoreInv
<1>7. CASE \E e \in enclaves, i \in Digests : ReleaseKey(e, i)
  BY <1>7, ReleaseKeyInv
<1>8. CASE UNCHANGED vars
  <2>1. UNCHANGED registryVars /\ UNCHANGED ledgerVars
    BY <1>8 DEF vars
  <2>2. QED
    BY <2>1, RegistryStepInv
<1>9. QED
  BY <1>1, <1>2, <1>3, <1>4, <1>5, <1>6, <1>7, <1>8 DEF LedgerNext, LedgerStep

\* Revealing leaves the commitment as it was.
LEMMA RevealKeepsCommitment ==
  ASSUME NEW ev \in SealedEval, NEW b \in BlobIds
  PROVE  Commitment([ev EXCEPT !.revealed = TRUE, !.plaintext_blob_id = {b}])
           = Commitment(ev)
  BY DEF Commitment, SealedEval

\* One step keeps every commitment, and a revealed eval altogether.
LEMMA LedgerNextKeepsCommitments ==
  ASSUME LedgerTypeOK, [LedgerNext]_vars, NEW ev \in evals
  PROVE  \E ev2 \in evals' : /\ Commitment(ev2) = Commitment(ev)
                             /\ ev.revealed => ev2 = ev
<1>1. CASE evals \subseteq evals'
  BY <1>1
<1>2. CASE \E v \in evals, b \in BlobIds : Reveal(v, b)
  <2> PICK v \in evals, b \in BlobIds : Reveal(v, b)
    BY <1>2
  <2> DEFINE v2 == [v EXCEPT !.revealed = TRUE, !.plaintext_blob_id = {b}]
  <2>1. /\ evals' = (evals \ {v}) \cup {v2}
        /\ ~v.revealed
    BY DEF Reveal, Revealable
  <2>2. Commitment(v2) = Commitment(v)
    BY RevealKeepsCommitment DEF LedgerTypeOK
  <2> HIDE DEF v2
  <2>3. CASE ev = v
    BY <2>1, <2>2, <2>3
  <2>4. CASE ev # v
    BY <2>1, <2>4
  <2>5. QED
    BY <2>3, <2>4
<1>3. evals \subseteq evals' \/ \E v \in evals, b \in BlobIds : Reveal(v, b)
  <2>1. CASE UNCHANGED vars \/ (RegistryNext /\ UNCHANGED ledgerVars)
    BY <2>1 DEF vars, ledgerVars
  <2>2. ASSUME NEW k \in Keys, NEW p, SignScore(k, p)
        PROVE  evals \subseteq evals'
    BY <2>2 DEF SignScore, Sign
  <2>3. ASSUME NEW k \in Keys, NEW i, SignSealApproval(k, i)
        PROVE  evals \subseteq evals'
    BY <2>3 DEF SignSealApproval, Sign
  <2>4. ASSUME NEW a, NEW i, NEW pt, NEW ct, NEW b, NEW m, NEW n,
               CreateEval(a, i, pt, ct, b, m, n)
        PROVE  evals \subseteq evals'
    BY <2>4 DEF CreateEval
  <2>5. ASSUME NEW e, NEW v, NEW i, NEW num, NEW den, NEW h, NEW t,
               PostScore(e, v, i, num, den, h, t)
        PROVE  evals \subseteq evals'
    BY <2>5 DEF PostScore
  <2>6. ASSUME NEW e, NEW i, ReleaseKey(e, i)
        PROVE  evals \subseteq evals'
    BY <2>6 DEF ReleaseKey
  <2>7. QED
    BY <2>1, <2>2, <2>3, <2>4, <2>5, <2>6 DEF LedgerNext, LedgerStep
<1>4. QED
  BY <1>1, <1>2, <1>3

\* The inductive invariant holds of every behaviour of the ledger.
THEOREM LedgerInvariance == LedgerSpec => []LedgerInv
  BY LedgerInitInv, LedgerNextInv, PTL DEF LedgerSpec

\* Type correctness of the ledger.
THEOREM LedgerTyped == LedgerSpec => []LedgerTypeOK
<1>1. LedgerInv => LedgerTypeOK
  BY DEF LedgerInv
<1>2. QED
  BY <1>1, LedgerInvariance, PTL

\* Every score on chain was signed as a score by an attested key, for an
\* existing eval and its own model target.
THEOREM ScoresProven == LedgerSpec => []ScoreProvenance
<1>1. LedgerInv => ScoreProvenance
  BY DEF LedgerInv
<1>2. QED
  BY <1>1, LedgerInvariance, PTL

\* An identity key only ever goes to an attested enclave that asked for it.
THEOREM ReleasesProven == LedgerSpec => []KeysReleasedToAttested
<1>1. LedgerInv => KeysReleasedToAttested
  BY DEF LedgerInv
<1>2. QED
  BY <1>1, LedgerInvariance, PTL

\* No step changes what an author committed to, or replaces a revealed blob.
THEOREM CommitmentsKept == LedgerSpec => CommitmentsPermanent
<1>1. ASSUME LedgerTypeOK, [LedgerNext]_vars
      PROVE  [\A ev \in evals : \E ev2 \in evals' :
                 /\ Commitment(ev2) = Commitment(ev)
                 /\ ev.revealed => ev2 = ev]_vars
  BY <1>1, LedgerNextKeepsCommitments
<1>2. QED
  BY <1>1, LedgerTyped, PTL DEF LedgerSpec, CommitmentsPermanent

=============================================================================
