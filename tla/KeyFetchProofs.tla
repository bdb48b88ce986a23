---------------------------- MODULE KeyFetchProofs ----------------------------
(* The key fetch implements the one step its callers take it for, and fails  *)
(* for a reason only, for any servers, any list of services, repetitions     *)
(* included, and any threshold.                                              *)
EXTENDS KeyFetch, FiniteSetTheorems, FunctionTheorems, SequenceTheorems, TLAPS

Lists == UNION {[1..n -> Servers] : n \in 1..MaxServices}

\* The fetch loop's invariant: while the Enclave object lives, each working
\* server the loop has been at has given its key.
Asked == {services[i] : i \in 1..(next - 1)}

LoopInv ==
  /\ IsFiniteSet(usks)
  /\ stage = "mapping" => next = 1 /\ usks = {}
  /\ live => honest \cap Asked \subseteq usks

\* What each end of a request says: there were keys enough and the object
\* opened; or there were and it did not; or the list was exhausted, and those
\* working servers that the loop found alive have all given their keys; or a
\* service was not configured.
EndInv ==
  /\ stage = "decrypted" => object = "intact" /\ Quorum
  /\ stage = "error" /\ Quorum => object # "intact"
  /\ stage = "error" /\ ~Quorum /\ Services \subseteq configured /\ live
       => Cardinality(honest \cap Services) < threshold

IInv == TypeOK /\ LoopInv /\ EndInv

\* What the type of `services` says of its length and its elements.
LEMMA ListFacts ==
  ASSUME NEW s \in Lists
  PROVE  /\ s \in Seq(Servers)
         /\ Len(s) \in 1..MaxServices
         /\ Len(s) \in Nat
         /\ \A i \in 1..Len(s) : s[i] \in Servers
<1>1. PICK n \in 1..MaxServices : s \in [1..n -> Servers]
  BY DEF Lists
<1>2. n \in Nat
  BY <1>1
<1>3. s \in Seq(Servers)
  BY <1>1, <1>2, SeqDef
<1>4. Len(s) = n
  BY <1>1, <1>2, <1>3, LenProperties
<1> QED
  BY <1>1, <1>2, <1>3, <1>4

\* At the end of the list the working servers among the services are the ones
\* that have answered: their number is at most that of the keys.
LEMMA QuorumAtEnd ==
  ASSUME TypeOK, LoopInv, live, next > Len(services)
  PROVE  Cardinality(honest \cap Services) <= Cardinality(usks)
<1>1. services \in Lists /\ next \in 1..(Len(services) + 1)
  BY DEF TypeOK, ObjectOK, Lists
<1>2. next - 1 = Len(services)
  BY <1>1, ListFacts
<1>3. Asked = Services
  BY <1>2 DEF Asked, Services
<1>4. honest \cap Services \subseteq usks
  BY <1>3 DEF LoopInv
<1> QED
  BY <1>4, FS_Subset DEF LoopInv

\* Every server has a share: keys of so many servers open as many shares, or
\* more.
LEMMA SharesOfKeys ==
  ASSUME TypeOK, NEW S \in SUBSET Services
  PROVE  /\ IsFiniteSet(Shares(S))
         /\ IsFiniteSet(S)
         /\ Cardinality(S) <= Cardinality(Shares(S))
<1>1. services \in Lists
  BY DEF TypeOK, ObjectOK, Lists
<1>2. IsFiniteSet(1..Len(services))
  BY <1>1, ListFacts, FS_Interval
<1>3. IsFiniteSet(Shares(S))
  BY <1>2, FS_Subset DEF Shares
<1> DEFINE f == [i \in Shares(S) |-> services[i]]
<1>4. f \in Surjection(Shares(S), S)
  <2>1. f \in [Shares(S) -> S]
    BY DEF Shares
  <2>2. \A x \in S : \E i \in Shares(S) : f[i] = x
    BY DEF Shares, Services
  <2> QED
    BY <2>1, <2>2, Fun_IsSurj
<1> HIDE DEF f
<1> QED
  BY <1>3, <1>4, FS_Surjection

\* The numbers that are compared.
LEMMA NumberTypes ==
  ASSUME TypeOK
  PROVE  /\ threshold \in Int /\ threshold >= 1
         /\ \A S \in SUBSET Services : Cardinality(S) \in Int
         /\ Cardinality(usks) \in Int
         /\ Cardinality(Shares(honest)) \in Int
<1>1. services \in Lists /\ threshold \in 1..Len(services)
  BY DEF TypeOK, ObjectOK, Lists
<1>2. Len(services) \in Nat
  BY <1>1, ListFacts
<1>3. \A S \in SUBSET Services : Cardinality(S) \in Int
  BY SharesOfKeys, FS_CardinalityType
<1>4. Shares(honest) = Shares(honest \cap Services)
  BY DEF Shares, Services
<1>5. Cardinality(Shares(honest \cap Services)) \in Int
  BY SharesOfKeys, FS_CardinalityType
<1> QED
  BY <1>1, <1>2, <1>3, <1>4, <1>5 DEF TypeOK

\* When the working servers are fewer than the threshold and their shares are
\* not, two of these are one server's.
LEMMA TwoSharesOfOne ==
  ASSUME TypeOK, Cardinality(honest \cap Services) < threshold
  PROVE  TooFewWork
<1> SUFFICES ASSUME ~(Cardinality(Shares(honest)) < threshold)
             PROVE  \E i, j \in Shares(honest) : i # j /\ services[i] = services[j]
  BY DEF TooFewWork
<1> DEFINE W == honest \cap Services
           f == [i \in Shares(honest) |-> services[i]]
<1>1. Shares(honest) = Shares(W)
  BY DEF Shares, Services
<1>2. IsFiniteSet(W) /\ IsFiniteSet(Shares(honest))
  BY <1>1, SharesOfKeys
<1>3. threshold \in Int
  BY NumberTypes
<1>4. Cardinality(W) < Cardinality(Shares(honest))
  BY <1>2, <1>3, FS_CardinalityType
<1>5. f \in [Shares(honest) -> W]
  BY DEF Shares, Services
<1> HIDE DEF f
<1>6. PICK i, j \in Shares(honest) : i # j /\ f[i] = f[j]
  BY <1>2, <1>4, <1>5, FS_PigeonHole
<1> QED
  BY <1>6 DEF f

\* Once the keys are there, the object opens exactly when it is intact.
LEMMA OpensIfIntact ==
  ASSUME TypeOK, Quorum
  PROVE  (SealDecrypts /\ HashMatches) <=> object = "intact"
<1>1. Cardinality(Shares(usks)) \in Int
  BY SharesOfKeys, FS_CardinalityType DEF TypeOK
<1>2. Cardinality(Shares(usks)) >= threshold
  BY <1>1, NumberTypes, SharesOfKeys DEF TypeOK, Quorum
<1> QED
  BY <1>2 DEF SealDecrypts, HashMatches, TypeOK, ObjectOK, Objects

\* The initial states satisfy the invariant.
LEMMA InitInv == Init => IInv
<1> SUFFICES ASSUME Init PROVE IInv
  OBVIOUS
<1>1. services \in Lists
  BY DEF Init, Lists
<1>2. Len(services) \in Nat /\ Len(services) >= 1
  BY <1>1, ListFacts
<1>3. TypeOK
  BY <1>2 DEF Init, TypeOK, ObjectOK
<1>4. LoopInv
  BY FS_EmptySet DEF Init, LoopInv, Asked
<1> QED
  BY <1>3, <1>4 DEF Init, IInv, EndInv, Quorum

\* No step changes the object, the servers or their configuration.
LEMMA ObjectKept ==
  ASSUME ObjectOK, UNCHANGED objectVars
  PROVE  /\ ObjectOK'
         /\ Services' = Services
         /\ UNCHANGED <<services, threshold, object, configured, honest>>
  BY DEF ObjectOK, Services, objectVars

\* Every step keeps it.
LEMMA NextInv == IInv /\ [Next]_vars => IInv'
<1> SUFFICES ASSUME IInv, [Next]_vars PROVE IInv'
  OBVIOUS
<1> USE DEF IInv
<1>1. services \in Lists
  BY DEF TypeOK, ObjectOK, Lists
<1>2. /\ Len(services) \in Nat
      /\ next \in 1..(Len(services) + 1)
      /\ \A i \in 1..Len(services) : services[i] \in Services
  BY <1>1, ListFacts DEF TypeOK, Services
<1>3. threshold \in Nat /\ Cardinality(usks) \in Nat
  BY <1>2, FS_CardinalityType DEF TypeOK, ObjectOK, LoopInv
<1>4. UNCHANGED objectVars
  BY DEF Next, Step, MapServices, SkipKnown, GoodAnswer, BadAnswer, Decrypt,
     NotEnoughKeys, DestroyEnclave, vars
<1>5. /\ ObjectOK' /\ Services' = Services
      /\ UNCHANGED <<services, threshold, object, configured, honest>>
  BY <1>4, ObjectKept DEF TypeOK
<1>a. CASE MapServices
  <2>1. ~Quorum
    BY <1>a, NumberTypes, FS_EmptySet DEF MapServices, LoopInv, Quorum
  <2>2. TypeOK' /\ LoopInv'
    BY <1>a, <1>5 DEF MapServices, TypeOK, LoopInv, Asked
  <2> QED
    BY <1>a, <1>5, <2>1, <2>2 DEF MapServices, EndInv, Quorum
<1>b. CASE SkipKnown
  <2>1. Asked' = Asked \cup {services[next]}
    BY <1>b, <1>2, <1>5 DEF SkipKnown, Fetching, Asked
  <2>2. TypeOK'
    BY <1>b, <1>2, <1>5 DEF SkipKnown, Fetching, TypeOK
  <2>3. LoopInv'
    BY <1>b, <1>5, <2>1 DEF SkipKnown, Fetching, LoopInv
  <2> QED
    BY <1>b, <1>5, <2>2, <2>3 DEF SkipKnown, Fetching, EndInv, Quorum
<1>c. CASE GoodAnswer
  <2>1. Asked' = Asked \cup {services[next]}
    BY <1>c, <1>2, <1>5 DEF GoodAnswer, Fetching, Asked
  <2>2. TypeOK'
    BY <1>c, <1>2, <1>5 DEF GoodAnswer, Fetching, TypeOK
  <2>3. IsFiniteSet(usks')
    BY <1>c, FS_AddElement DEF GoodAnswer, LoopInv
  <2>4. LoopInv'
    BY <1>c, <1>5, <2>1, <2>3 DEF GoodAnswer, Fetching, LoopInv
  <2> QED
    BY <1>c, <1>5, <2>2, <2>4 DEF GoodAnswer, Fetching, EndInv, Quorum
<1>d. CASE BadAnswer
  <2>1. Asked' = Asked \cup {services[next]}
    BY <1>d, <1>2, <1>5 DEF BadAnswer, GoOn, Fetching, Asked
  <2>2. TypeOK'
    BY <1>d, <1>2, <1>5 DEF BadAnswer, GoOn, Fetching, TypeOK
  <2>3. LoopInv'
    BY <1>d, <1>5, <2>1 DEF BadAnswer, MayFail, GoOn, Fetching, LoopInv
  <2> QED
    BY <1>d, <1>5, <2>2, <2>3 DEF BadAnswer, GoOn, Fetching, EndInv, Quorum
<1>e. CASE Decrypt
  <2>1. Quorum
    BY <1>e DEF Decrypt, Enough, Quorum
  <2>2. (SealDecrypts /\ HashMatches) <=> object = "intact"
    BY <2>1, OpensIfIntact
  <2> QED
    BY <1>e, <1>5, <2>1, <2>2 DEF Decrypt, TypeOK, LoopInv, Asked, EndInv, Quorum
<1>f. CASE NotEnoughKeys
  <2>1. live => Cardinality(honest \cap Services) <= Cardinality(usks)
    BY <1>f, QuorumAtEnd DEF NotEnoughKeys
  <2>2. Cardinality(honest \cap Services) \in Nat
    BY SharesOfKeys, FS_CardinalityType
  <2>3. live => Cardinality(honest \cap Services) < threshold
    BY <1>3, <1>f, <2>1, <2>2 DEF NotEnoughKeys, Enough
  <2> QED
    BY <1>f, <1>5, <2>3 DEF NotEnoughKeys, Enough, TypeOK, LoopInv, Asked, EndInv,
       Quorum
<1>g. CASE DestroyEnclave
  BY <1>g, <1>5 DEF DestroyEnclave, TypeOK, LoopInv, Asked, EndInv, Quorum
<1>h. CASE UNCHANGED vars
  BY <1>h, <1>5 DEF vars, TypeOK, LoopInv, Asked, EndInv, Quorum
<1> QED
  BY <1>a, <1>b, <1>c, <1>d, <1>e, <1>f, <1>g, <1>h DEF Next, Step

\* The invariant holds in every state of every fetch.
THEOREM FetchInvariance == FairSpec => []IInv
  BY InitInv, NextInv, PTL DEF FairSpec

\* fetch_and_decrypt keeps its index within the list and holds keys only of
\* the object's services.
THEOREM FetchTyped == FairSpec => []TypeOK
<1>1. IInv => TypeOK
  BY DEF IInv
<1> QED
  BY <1>1, FetchInvariance, PTL

\* A failed fetch has its reason.
LEMMA InvSuffices == IInv => QuorumSuffices
<1> SUFFICES ASSUME IInv PROVE QuorumSuffices
  OBVIOUS
<1>1. ~Quorum => Cardinality(usks) < threshold
  BY NumberTypes DEF IInv, Quorum
<1>2. stage = "error" /\ object = "intact" => ~Quorum
  BY DEF IInv, EndInv
<1>3. stage = "error" /\ ~Quorum /\ Services \subseteq configured /\ live
        => Cardinality(honest \cap Services) < threshold
  BY DEF IInv, EndInv
<1>4. Cardinality(honest \cap Services) < threshold => TooFewWork
  BY TwoSharesOfOne DEF IInv
<1> QED
  BY <1>1, <1>2, <1>3, <1>4 DEF QuorumSuffices

\* It fails for a reason only, however many servers are faulty: the Enclave
\* object is gone, the encrypted object is unsound or names a server that is not
\* configured, or too few different servers work.
THEOREM QuorumIsEnough == FairSpec => []QuorumSuffices
  BY InvSuffices, FetchInvariance, PTL

\* An object whose services are all different, as the author's script makes
\* them (encrypt.ts, weights 1): while the Enclave object exists, shares enough
\* at working servers are enough, wherever in the list they are.
SharesSuffice ==
  /\ \A i, j \in 1..Len(services) : services[i] = services[j] => i = j
  /\ Services \subseteq configured
  /\ object = "intact"
  /\ live
  /\ Cardinality(Shares(honest)) >= threshold
  => stage # "error"

\* What the objects this repository makes need is what they get.
THEOREM SharesAreEnough == FairSpec => []SharesSuffice
<1>1. IInv => SharesSuffice
  <2> SUFFICES ASSUME IInv, stage = "error", Services \subseteq configured,
                      object = "intact", live,
                      \A i, j \in 1..Len(services) : services[i] = services[j] => i = j,
                      Cardinality(Shares(honest)) >= threshold
               PROVE  FALSE
    BY Zenon DEF SharesSuffice
  <2>1. TooFewWork
    <3>1. ~Quorum
      BY DEF IInv, EndInv
    <3> QED
      BY <3>1, TwoSharesOfOne DEF IInv, EndInv
  <2>2. Cardinality(Shares(honest)) < threshold
    BY <2>1 DEF TooFewWork, Shares
  <2> QED
    BY <2>2, NumberTypes DEF IInv
<1> QED
  BY <1>1, FetchInvariance, PTL

\* The other side of it: an object with fewer different servers than its
\* threshold is never decrypted, though every share of it be at hand, as the
\* loop counts keys.
RepeatsRefused == Cardinality(Services) < threshold => stage # "decrypted"

\* However many shares the working servers hold.
THEOREM RepeatsAreRefused == FairSpec => []RepeatsRefused
<1>1. IInv => RepeatsRefused
  <2> SUFFICES ASSUME IInv, stage = "decrypted" PROVE ~(Cardinality(Services) < threshold)
    BY DEF RepeatsRefused
  <2>1. Cardinality(usks) >= threshold
    BY DEF IInv, EndInv, Quorum
  <2>2. IsFiniteSet(Services)
    BY SharesOfKeys DEF IInv
  <2>3. Cardinality(usks) <= Cardinality(Services)
    BY <2>2, FS_Subset DEF IInv, TypeOK
  <2> QED
    BY <2>1, <2>3, NumberTypes DEF IInv
<1> QED
  BY <1>1, FetchInvariance, PTL

-----------------------------------------------------------------------------
(* The refinement.                                                         *)

\* A fetch starts with nothing released.
LEMMA InitRelease == Init => Release!Init
<1> SUFFICES ASSUME Init PROVE Release!Init
  OBVIOUS
<1>1. services \in Lists
  BY DEF Init, Lists
<1>2. threshold \in Int /\ threshold >= 1
  BY <1>1, ListFacts DEF Init
<1>3. ~Quorum
  BY <1>2, FS_EmptySet DEF Init, Quorum
<1> QED
  BY <1>3 DEF Init, Release!Init

\* Every step is the release, its failure, the end of the Enclave object, or
\* nothing: asking the first servers of a quorum, skipping and failing ones,
\* and the decryption itself change nothing anymore.
LEMMA NextRelease ==
  IInv /\ [Next]_vars => [Release!Next]_Release!vars
<1> SUFFICES ASSUME IInv, [Next]_vars PROVE [Release!Next]_Release!vars
  OBVIOUS
<1> USE DEF IInv
<1>1. stage \in {"mapping", "fetching", "decrypted", "error"} /\ live \in BOOLEAN
  BY DEF TypeOK
<1>2. stage = "mapping" => ~Quorum
  BY NumberTypes, FS_EmptySet DEF LoopInv, Quorum
<1>a. CASE MapServices
  <2>1. Quorum' <=> Quorum
    BY <1>a DEF MapServices, objectVars, Quorum
  <2>2. CASE Services \subseteq configured
    BY <1>a, <1>2, <2>1, <2>2 DEF MapServices, objectVars, Release!vars
  <2>3. CASE ~(Services \subseteq configured)
    BY <1>a, <1>2, <2>1, <2>3 DEF MapServices, objectVars, Release!Next,
       Release!FetchFails
  <2> QED
    BY <2>2, <2>3
<1>b. CASE SkipKnown
  BY <1>b DEF SkipKnown, Fetching, objectVars, Release!vars, Quorum
<1>c. CASE GoodAnswer
  <2>1. ~Quorum
    BY <1>c DEF GoodAnswer, Fetching, Enough, Quorum
  <2>2. CASE Quorum'
    BY <1>c, <2>1, <2>2 DEF GoodAnswer, Fetching, objectVars, Release!Next,
       Release!FetchAndDecrypt
  <2>3. CASE ~Quorum'
    <3>1. Quorum' = Quorum
      BY <2>1, <2>3 DEF Quorum
    <3> QED
      BY <1>c, <2>1, <2>3, <3>1 DEF GoodAnswer, Fetching, objectVars, Release!vars
  <2> QED
    BY <2>2, <2>3
<1>d. CASE BadAnswer
  BY <1>d DEF BadAnswer, GoOn, Fetching, objectVars, Release!vars, Quorum
<1>e. CASE Decrypt
  <2>1. Quorum
    BY <1>e DEF Decrypt, Enough, Quorum
  <2>2. (SealDecrypts /\ HashMatches) <=> object = "intact"
    BY <2>1, OpensIfIntact
  <2>3. Quorum'
    BY <1>e, <2>1 DEF Decrypt, objectVars, Quorum
  <2> QED
    BY <1>e, <2>1, <2>2, <2>3 DEF Decrypt, objectVars, Release!vars
<1>f. CASE NotEnoughKeys
  <2>1. ~Quorum /\ Quorum' = Quorum
    BY <1>f DEF NotEnoughKeys, Enough, objectVars, Quorum
  <2> QED
    BY <1>f, <2>1 DEF NotEnoughKeys, objectVars, Release!Next, Release!FetchFails
<1>g. CASE DestroyEnclave
  <2>1. Quorum' <=> Quorum
    BY <1>g DEF DestroyEnclave, objectVars, Quorum
  <2> QED
    BY <1>g, <1>1, <2>1 DEF DestroyEnclave, objectVars, Release!Next,
       Release!DestroyEnclave
<1>h. CASE UNCHANGED vars
  BY <1>h DEF vars, objectVars, Release!vars, Quorum
<1> QED
  BY <1>a, <1>b, <1>c, <1>d, <1>e, <1>f, <1>g, <1>h DEF Next, Step

\* The fetch is the one step ScorePipeline takes it for: however the answers of
\* the servers and the end of the Enclave object fall, the key is released at
\* one instant, with the Enclave object there and the outcome settled, or the
\* request fails and a quorum of keys has never been given.
THEOREM FetchImplementsRelease == FairSpec => ImplementsRelease
  BY InitRelease, NextRelease, FetchInvariance, PTL
     DEF FairSpec, ImplementsRelease, Release!Spec
=============================================================================
