------------------------------- MODULE KeyFetch -------------------------------
(***************************************************************************)
(* One request's Seal key fetch inside the enclave, fetch_and_decrypt: map *)
(* the services of the EncryptedObject to configured servers, sign the     *)
(* access intent, ask the servers one after the other until `threshold` of *)
(* them have given a key that verifies, then decrypt.  ScorePipeline takes *)
(* all of this as the single step FetchAndDecrypt; KeyRelease is that step, *)
(* and the fetch implements it.                                            *)
(*                                                                         *)
(* Each server dry-runs seal_approve when it is asked, so the Enclave      *)
(* object may disappear between two answers.                               *)
(***************************************************************************)
EXTENDS Naturals, Sequences, FiniteSets

CONSTANTS
  Servers,     \* key servers
  MaxServices  \* bound on the services of an object

ASSUME KeyFetchAssumption == MaxServices \in Nat

VARIABLES
  services,    \* the object's services in order; one of weight w occurs w times
  threshold,   \* how many of its shares decryption needs
  object,      \* what the object is like inside
  configured,  \* servers the request gives a URL and a public key for
  honest,      \* servers that answer in time and correctly
  live,        \* whether the Enclave object still exists
  stage,       \* where the request is
  next,        \* index of the next service
  usks         \* servers that have given a verified user secret key

objectVars == <<services, threshold, object, configured, honest>>
vars == <<objectVars, live, stage, next, usks>>

Services == {services[i] : i \in 1..Len(services)}

\* "damaged" is one that no keys decrypt, "mislabelled" one that decrypts to
\* another text than its identity is the hash of.  (An identity that is no
\* hash is compared with nothing, and counts as intact.)
Objects == {"intact", "mislabelled", "damaged"}

ObjectOK ==
  /\ services \in UNION {[1..n -> Servers] : n \in 1..MaxServices}
  /\ threshold \in 1..Len(services)
  /\ object \in Objects
  /\ configured \subseteq Servers
  /\ honest \subseteq Servers

Init ==
  /\ services \in UNION {[1..n -> Servers] : n \in 1..MaxServices}
  /\ threshold \in 1..Len(services)
  /\ object \in Objects
  /\ configured \in SUBSET Servers
  /\ honest \in SUBSET Servers
  /\ live \in BOOLEAN
  /\ stage = "mapping"
  /\ next = 1
  /\ usks = {}

\* A service without a configured server ends the request, however many of the
\* others there are; nothing has been signed then.
MapServices ==
  /\ stage = "mapping"
  /\ stage' = IF Services \subseteq configured THEN "fetching" ELSE "error"
  /\ UNCHANGED <<objectVars, live, next, usks>>

\* Mutant: the fetch stops one key early.
EnoughEarly == Cardinality(usks) + 1 >= threshold
Enough == Cardinality(usks) >= threshold

Fetching == stage = "fetching" /\ ~Enough /\ next <= Len(services)

\* A service occurring again needs no second request.
SkipKnown ==
  /\ Fetching
  /\ services[next] \in usks
  /\ next' = next + 1
  /\ UNCHANGED <<objectVars, live, stage, usks>>

\* The server approves, and its key belongs to the identity and verifies.
GoodAnswer ==
  /\ Fetching
  /\ services[next] \notin usks
  /\ live
  /\ usks' = usks \cup {services[next]}
  /\ next' = next + 1
  /\ UNCHANGED <<objectVars, live, stage>>

\* Where the fetch goes after a server failed.  Mutants: the same server is
\* asked again; the next one is passed over; the request gives up.
RetrySame == next' = next /\ stage' = stage
PassOver == next' = next + 2 /\ stage' = stage
GiveUp == next' = next /\ stage' = "error"
GoOn == next' = next + 1 /\ stage' = stage

\* seal_approve aborts; or the server is down, slow, answers for another
\* identity, or with a key that does not verify.
MayFail(server) == live => server \notin honest

\* The error is collected.
BadAnswer ==
  /\ Fetching
  /\ services[next] \notin usks
  /\ MayFail(services[next])
  /\ GoOn
  /\ UNCHANGED <<objectVars, live, usks>>

\* seal_decrypt: the key of a server opens all the shares that are its own.
Shares(servers) == {i \in 1..Len(services) : services[i] \in servers}
SealDecrypts == object # "damaged" /\ Cardinality(Shares(usks)) >= threshold

\* The plaintext must hash to the identity.
HashMatches == object # "mislabelled"

Decrypt ==
  /\ stage = "fetching"
  /\ Enough
  /\ stage' = IF SealDecrypts /\ HashMatches THEN "decrypted" ELSE "error"
  /\ UNCHANGED <<objectVars, live, next, usks>>

NotEnoughKeys ==
  /\ stage = "fetching"
  /\ ~Enough
  /\ next > Len(services)
  /\ stage' = "error"
  /\ UNCHANGED <<objectVars, live, next, usks>>

\* Environment: the Enclave object is destroyed; its id never comes back.
DestroyEnclave ==
  /\ live
  /\ live' = FALSE
  /\ UNCHANGED <<objectVars, stage, next, usks>>

Step ==
  \/ MapServices
  \/ SkipKnown
  \/ GoodAnswer
  \/ BadAnswer
  \/ Decrypt
  \/ NotEnoughKeys

Next == Step \/ DestroyEnclave

\* The enclave thread runs, and a server that says nothing runs into the HTTP
\* client's timeout, which is a BadAnswer.
FairSpec == Init /\ [][Next]_vars /\ WF_vars(Step)

-----------------------------------------------------------------------------
(* Properties.                                                             *)

TypeOK ==
  /\ ObjectOK
  /\ live \in BOOLEAN
  /\ stage \in {"mapping", "fetching", "decrypted", "error"}
  /\ next \in 1..(Len(services) + 1)
  /\ usks \subseteq Services

\* Fewer different servers work than the threshold asks for: too few shares
\* are left, or enough are but some server holds several of them, and the loop,
\* which counts keys and not shares, gives up one key short.
TooFewWork ==
  \/ Cardinality(Shares(honest)) < threshold
  \/ /\ Cardinality(honest \cap Services) < threshold
     /\ \E i, j \in Shares(honest) : i # j /\ services[i] = services[j]

\* A request fails for a reason: as long as the Enclave object exists and the
\* encrypted object is sound, no number of faulty servers before, after or
\* between the working ones stops it, but for too few of these; and once the
\* keys are there, their shares suffice.
QuorumSuffices ==
  stage = "error" =>
    \/ ~(Services \subseteq configured)
    \/ object # "intact"
    \/ ~live /\ Cardinality(usks) < threshold
    \/ TooFewWork /\ Cardinality(usks) < threshold

\* Every request ends.
FetchEnds == <>(stage \in {"decrypted", "error"})

\* However the servers' answers and the end of the Enclave object fall, all of
\* it amounts to one step: the key is released when the last answer needed has
\* come, while the Enclave object exists, and what becomes of the request is
\* settled then; before that it can only fail, and releases nothing.
Quorum == Cardinality(usks) >= threshold
Release == INSTANCE KeyRelease WITH
  opens <- object = "intact",
  released <- Quorum,
  outcome <- CASE stage = "decrypted" -> "plaintext"
               [] stage = "error" -> "error"
               [] stage \in {"mapping", "fetching"} ->
                    IF ~Quorum THEN "pending"
                    ELSE IF object = "intact" THEN "plaintext" ELSE "error"

ImplementsRelease == Release!Spec

=============================================================================
