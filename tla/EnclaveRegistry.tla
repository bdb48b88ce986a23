--------------------------- MODULE EnclaveRegistry ---------------------------
(***************************************************************************)
(* The on-chain registry of attested enclaves: the Move package            *)
(* enclave::enclave as the sealedbench package instantiates it, with the   *)
(* Cap<SEALEDBENCH> that attestation::init mints for the publisher.        *)
(*                                                                         *)
(* A Sui transaction is atomic, so every entry point is one action and an  *)
(* aborting assert! is a missing step.  A shared object is a record with   *)
(* the fields of its struct; ids of deleted objects are never reused.      *)
(* PCR triples are opaque values: the code only compares them.             *)
(***************************************************************************)
EXTENDS Naturals

CONSTANTS
  Accounts,     \* addresses that may send transactions
  Publisher,    \* the address that published the package
  Pcrs,         \* PCR triples, one per enclave image
  Keys,         \* ed25519 keys an enclave process may draw at start
  Names,        \* human-readable config names
  ConfigIds,    \* object ids for EnclaveConfig objects (bound)
  EnclaveIds,   \* object ids for Enclave objects (bound)
  MaxVersion    \* bound on the times a config's PCRs are updated

ASSUME RegistryAssumption ==
  /\ Publisher \in Accounts
  /\ MaxVersion \in Nat

VARIABLES
  capHolder,       \* the account that owns the Cap object
  configs,         \* the shared EnclaveConfig objects
  enclaves,        \* the live shared Enclave objects
  usedEnclaveIds,  \* history: every id an Enclave was ever created with
  documents,       \* Nitro attestation documents that exist: a key, a PCR triple
  measured         \* history: the PCRs each config had at each of its versions

registryVars ==
  <<capHolder, configs, enclaves, usedEnclaveIds, documents, measured>>

EnclaveConfig == [id : ConfigIds, name : Names, pcrs : Pcrs, version : Nat]
Enclave == [id : EnclaveIds, pk : Keys, config_version : Nat, owner : Accounts]
NitroAttestationDocument == [public_key : Keys, pcrs : Pcrs]

RegistryInit ==
  /\ capHolder = Publisher
  /\ configs = {}
  /\ enclaves = {}
  /\ usedEnclaveIds = {}
  /\ documents = {}
  /\ measured = {}

(***************************************************************************)
(* The environment: an enclave process starts from some image and draws a  *)
(* fresh key; from then on the Nitro hypervisor signs documents that bind  *)
(* the key to the PCRs of that image, and to no other.                     *)
(***************************************************************************)
Boot(pk, pcrs) ==
  /\ \A d \in documents : d.public_key # pk
  /\ documents' = documents \cup {[public_key |-> pk, pcrs |-> pcrs]}
  /\ UNCHANGED <<capHolder, configs, enclaves, usedEnclaveIds, measured>>

\* Cap has `store`, so its owner may transfer it.
TransferCap(to) ==
  /\ capHolder' = to
  /\ UNCHANGED <<configs, enclaves, usedEnclaveIds, documents, measured>>

CreateEnclaveConfig(sender, id, name, pcrs) ==
  /\ sender = capHolder
  /\ \A c \in configs : c.id # id
  /\ configs' = configs \cup
       {[id |-> id, name |-> name, pcrs |-> pcrs, version |-> 0]}
  /\ measured' = measured \cup {<<id, 0, pcrs>>}
  /\ UNCHANGED <<capHolder, enclaves, usedEnclaveIds, documents>>

\* load_pk asserts the document's PCRs.  Mutant: it does not.
AnyPcrs(document, config) == TRUE
PcrsMatch(document, config) == document.pcrs = config.pcrs

\* Mutant: the object records the version before the config's.
EnclaveBehind(sender, config, document, id) ==
  [id |-> id, pk |-> document.public_key,
   config_version |-> config.version - 1, owner |-> sender]
NewEnclave(sender, config, document, id) ==
  [id |-> id, pk |-> document.public_key,
   config_version |-> config.version, owner |-> sender]

\* Anyone may register: the document's PCRs are the only check.
RegisterEnclave(sender, config, document, id) ==
  /\ PcrsMatch(document, config)
  /\ id \notin usedEnclaveIds
  /\ enclaves' = enclaves \cup {NewEnclave(sender, config, document, id)}
  /\ usedEnclaveIds' = usedEnclaveIds \cup {id}
  /\ UNCHANGED <<capHolder, configs, documents, measured>>

\* Mutant: new PCRs under the old version.
SameVersion(config, pcrs) == [config EXCEPT !.pcrs = pcrs]
Rotated(config, pcrs) ==
  [config EXCEPT !.pcrs = pcrs, !.version = config.version + 1]

UpdatePcrs(sender, config, pcrs) ==
  LET next == Rotated(config, pcrs)
  IN  /\ sender = capHolder
      /\ config.version < MaxVersion
      /\ configs' = (configs \ {config}) \cup {next}
      /\ measured' = measured \cup {<<next.id, next.version, next.pcrs>>}
      /\ UNCHANGED <<capHolder, enclaves, usedEnclaveIds, documents>>

UpdateName(sender, config, name) ==
  /\ sender = capHolder
  /\ configs' = (configs \ {config}) \cup {[config EXCEPT !.name = name]}
  /\ UNCHANGED <<capHolder, enclaves, usedEnclaveIds, documents, measured>>

\* Anyone may delete an enclave that is behind the config they pass in; the
\* Enclave does not say which config it was registered under.
DestroyOldEnclave(enclave, config) ==
  /\ enclave.config_version < config.version
  /\ enclaves' = enclaves \ {enclave}
  /\ UNCHANGED <<capHolder, configs, usedEnclaveIds, documents, measured>>

\* deploy_old_enclave_by_owner: the owner deletes the enclave, old or not.
DestroyEnclaveByOwner(sender, enclave) ==
  /\ enclave.owner = sender
  /\ enclaves' = enclaves \ {enclave}
  /\ UNCHANGED <<capHolder, configs, usedEnclaveIds, documents, measured>>

ChainStep ==
  \/ \E a \in Accounts : TransferCap(a)
  \/ \E a \in Accounts, i \in ConfigIds, n \in Names, p \in Pcrs :
        CreateEnclaveConfig(a, i, n, p)
  \/ \E a \in Accounts, c \in configs, d \in documents, i \in EnclaveIds :
        RegisterEnclave(a, c, d, i)
  \/ \E a \in Accounts, c \in configs, p \in Pcrs : UpdatePcrs(a, c, p)
  \/ \E a \in Accounts, c \in configs, n \in Names : UpdateName(a, c, n)
  \/ \E e \in enclaves, c \in configs : DestroyOldEnclave(e, c)
  \/ \E a \in Accounts, e \in enclaves : DestroyEnclaveByOwner(a, e)

RegistryNext ==
  \/ \E k \in Keys, p \in Pcrs : Boot(k, p)
  \/ ChainStep

RegistrySpec == RegistryInit /\ [][RegistryNext]_registryVars

-----------------------------------------------------------------------------
(* Properties.                                                             *)

RegistryTypeOK ==
  /\ capHolder \in Accounts
  /\ configs \subseteq EnclaveConfig
  /\ enclaves \subseteq Enclave
  /\ usedEnclaveIds \subseteq EnclaveIds
  /\ documents \subseteq NitroAttestationDocument
  /\ measured \subseteq ConfigIds \X Nat \X Pcrs

\* The key was attested by an image whose PCRs config version v of some
\* config required.
AttestedAt(pk, v) ==
  \E d \in documents, i \in ConfigIds :
     d.public_key = pk /\ <<i, v, d.pcrs>> \in measured

\* Every live Enclave object holds a key that a genuine attestation document
\* binds to exactly the PCRs some config required at the version the object
\* records -- through every later change of that config (register_enclave,
\* load_pk, update_pcrs).
EnclaveKeysAttested ==
  \A e \in enclaves : AttestedAt(e.pk, e.config_version)

\* Rotation never strands an outdated enclave: as long as an Enclave object is
\* live, either some config still requires the PCRs its key was attested with,
\* or some config's version has moved past it, so that destroy_old_enclave
\* accepts it from anyone.
StaleEnclaveRemovable ==
  \A e \in enclaves :
     \/ \E c \in configs, d \in documents :
           d.public_key = e.pk /\ d.pcrs = c.pcrs
     \/ \E c \in configs : e.config_version < c.version

\* A config version names one PCR triple for good: what config_version points
\* to cannot be redefined behind a registered enclave's back.
VersionNamesOnePcrs ==
  \A m, n \in measured : m[1] = n[1] /\ m[2] = n[2] => m[3] = n[3]

=============================================================================
