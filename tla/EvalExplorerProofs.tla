-------------------------- MODULE EvalExplorerProofs --------------------------
(***************************************************************************)
(* The stamps on the score cards and the leaders on the pages, for any     *)
(* number of evals, scores and checks, any limits and any nodes.           *)
(*                                                                         *)
(* The stamps are about the keys React keeps state under, whatever a       *)
(* page's rows are.  The leaders are about those rows: that a row is the   *)
(* scores that count among those its query covered, newest first, which    *)
(* is what the filter returns, and that bestScore folds over it to the     *)
(* newest of the highest.  Both are recursive functions; facts about them  *)
(* go by induction, from a least counterexample.                           *)
(***************************************************************************)
EXTENDS EvalExplorer, TLAPS, WellFoundedInduction

-----------------------------------------------------------------------------
(* The stamps.                                                             *)

\* The fields of the view, of the cards' checks, and of a check.
ViewShape ==
  /\ DOMAIN view = {"mounted", "selected", "walrus", "cards"}
  /\ DOMAIN view.walrus = {"status", "of"}
  /\ \A k \in DOMAIN view.cards : DOMAIN view.cards[k] = {"status", "of"}

\* A check is kept under the id of the score it is about -- on whichever row
\* its card is listed, and while its answer is under way.
ChecksUnderTheirKey ==
  \A k \in DOMAIN view.cards :
     view.cards[k].status # "idle" => view.cards[k].of = k

CardsOf(row) == {CardKey(row, i) : i \in DOMAIN row}

CardsOfShownRow ==
  Shown # Nothing => DOMAIN view.cards = CardsOf(page.rows[Shown])

ExplorerInv == ViewShape /\ ChecksUnderTheirKey /\ CardsOfShownRow

\* What a render leaves: the cards of the row it shows, each check either kept
\* under its key or new.
LEMMA RenderedView ==
  ASSUME NEW old, NEW id,
         DOMAIN old.walrus = {"status", "of"},
         \A k \in DOMAIN old.cards :
            /\ DOMAIN old.cards[k] = {"status", "of"}
            /\ old.cards[k].status # "idle" => old.cards[k].of = k,
         view' = Rendered(old, page', id)
  PROVE  ExplorerInv'
<1> DEFINE shown == Selected(page', id)
<1>1. /\ DOMAIN view' = {"mounted", "selected", "walrus", "cards"}
      /\ view'.mounted = TRUE /\ view'.selected = id
      /\ view'.walrus = IF shown = Nothing THEN Idle(Nothing) ELSE old.walrus
      /\ view'.cards = IF shown = Nothing THEN <<>> ELSE Listed(old.cards, page'.rows[shown])
  BY DEF Rendered
<1>2. Shown' = shown
  BY <1>1 DEF Shown
<1>3. CASE shown = Nothing
  BY <1>1, <1>2, <1>3
     DEF ExplorerInv, ViewShape, ChecksUnderTheirKey, CardsOfShownRow, Idle
<1>4. CASE shown # Nothing
  <2> DEFINE cards == Listed(old.cards, page'.rows[shown])
  <2>1. DOMAIN cards = CardsOf(page'.rows[shown])
    BY DEF Listed, CardsOf
  <2>2. ASSUME NEW k \in DOMAIN cards
        PROVE  /\ DOMAIN cards[k] = {"status", "of"}
               /\ cards[k].status # "idle" => cards[k].of = k
    BY <2>2 DEF Listed, Idle
  <2>3. view'.cards = cards
    BY <1>1, <1>4
  <2> HIDE DEF cards
  <2>4. ViewShape'
    BY <1>1, <1>4, <2>2, <2>3 DEF ViewShape
  <2>5. ChecksUnderTheirKey'
    BY <2>2, <2>3 DEF ChecksUnderTheirKey
  <2>6. CardsOfShownRow'
    <3>1. CardsOf(page.rows[Shown])' = CardsOf(page'.rows[shown])
      BY <1>2 DEF CardsOf, CardKey
    <3> QED
      BY <2>1, <2>3, <3>1 DEF CardsOfShownRow
  <2> QED
    BY <2>4, <2>5, <2>6 DEF ExplorerInv
<1> QED
  BY <1>3, <1>4

\* A check set or answered under the key of its score.
LEMMA CheckedCard ==
  ASSUME ExplorerInv, NEW k \in DOMAIN view.cards, NEW check,
         DOMAIN check = {"status", "of"}, check.of = k,
         view' = [view EXCEPT !.cards[k] = check], UNCHANGED vars
  PROVE  ExplorerInv'
<1>1. /\ DOMAIN view' = DOMAIN view
      /\ view'.mounted = view.mounted /\ view'.selected = view.selected
      /\ view'.walrus = view.walrus
      /\ view'.cards = [view.cards EXCEPT ![k] = check]
  BY DEF ExplorerInv, ViewShape
<1>2. Shown' = Shown /\ page' = page
  BY <1>1 DEF Shown, vars
<1>3. /\ DOMAIN view'.cards = DOMAIN view.cards
      /\ view'.cards[k] = check
      /\ \A j \in DOMAIN view.cards \ {k} : view'.cards[j] = view.cards[j]
  BY <1>1
<1> QED
  BY <1>1, <1>2, <1>3
     DEF ExplorerInv, ViewShape, ChecksUnderTheirKey, CardsOfShownRow, CardsOf, CardKey

LEMMA ExplorerInitInv == ExplorerInit => ExplorerInv
BY DEF ExplorerInit, InitView, NotMounted, Idle, ExplorerInv, ViewShape, ChecksUnderTheirKey,
   CardsOfShownRow, Shown

LEMMA ExplorerNextInv == ExplorerInv /\ [ExplorerNext]_explorerVars => ExplorerInv'
<1> SUFFICES ASSUME ExplorerInv, [ExplorerNext]_explorerVars PROVE ExplorerInv'
  OBVIOUS
<1>0. /\ DOMAIN view.walrus = {"status", "of"}
      /\ \A k \in DOMAIN view.cards :
            /\ DOMAIN view.cards[k] = {"status", "of"}
            /\ view.cards[k].status # "idle" => view.cards[k].of = k
  BY DEF ExplorerInv, ViewShape, ChecksUnderTheirKey
<1>1. /\ DOMAIN NotMounted.walrus = {"status", "of"}
      /\ \A k \in DOMAIN NotMounted.cards :
            /\ DOMAIN NotMounted.cards[k] = {"status", "of"}
            /\ NotMounted.cards[k].status # "idle" => NotMounted.cards[k].of = k
  BY DEF NotMounted, Idle
<1>2. CASE UNCHANGED <<page, view>>
  BY <1>2 DEF ExplorerInv, ViewShape, ChecksUnderTheirKey, CardsOfShownRow, CardsOf,
     CardKey, Shown
<1>3. CASE Refresh \/ Reload
  <2>1. \E old \in {view, NotMounted} : \E id : view' = Rendered(old, page', id)
    BY <1>3 DEF Refresh, Reload, Mounted
  <2> QED
    BY <2>1, <1>0, <1>1, RenderedView
<1>4. CASE RefreshFails
  BY <1>4 DEF RefreshFails, NotMounted, Idle, ExplorerInv, ViewShape,
     ChecksUnderTheirKey, CardsOfShownRow, Shown
<1>5. ASSUME NEW v \in Evals, Select(v)
      PROVE  ExplorerInv'
  <2>1. view' = Rendered(view, page', v)
    BY <1>5 DEF Select, vars
  <2> QED
    BY <2>1, <1>0, RenderedView
<1>6. CASE VerifyBlob \/ BlobAnswered
  <2>1. /\ DOMAIN view' = DOMAIN view
        /\ view'.mounted = view.mounted /\ view'.selected = view.selected
        /\ DOMAIN view'.walrus = {"status", "of"}
        /\ view'.cards = view.cards /\ page' = page
    BY <1>6, <1>0 DEF VerifyBlob, BlobAnswered, vars, ExplorerInv, ViewShape
  <2> QED
    BY <2>1 DEF ExplorerInv, ViewShape, ChecksUnderTheirKey, CardsOfShownRow, CardsOf,
       CardKey, Shown
<1>7. ASSUME Shown # Nothing, NEW i \in DOMAIN page.rows[Shown], VerifyTrace(i)
      PROVE  ExplorerInv'
  <2> DEFINE k == CardKey(page.rows[Shown], i)
  <2>1. k \in DOMAIN view.cards
    BY <1>7 DEF ExplorerInv, CardsOfShownRow, CardsOf
  <2>2. view' = [view EXCEPT !.cards[k] = [status |-> "checking", of |-> k]]
          /\ UNCHANGED vars
    BY <1>7 DEF VerifyTrace, CardKey
  <2> QED
    BY <2>1, <2>2, CheckedCard
<1>8. ASSUME NEW k \in DOMAIN view.cards, TraceAnswered(k)
      PROVE  ExplorerInv'
  <2>1. PICK s \in Outcomes : view' = [view EXCEPT !.cards[k].status = s]
    BY <1>8 DEF TraceAnswered
  <2> DEFINE check == [view.cards[k] EXCEPT !.status = s]
  <2>2. DOMAIN check = {"status", "of"} /\ check.of = k
    BY <1>8, <1>0 DEF TraceAnswered
  <2>3. view' = [view EXCEPT !.cards[k] = check] /\ UNCHANGED vars
    BY <1>8, <2>1 DEF TraceAnswered
  <2> QED
    BY <2>2, <2>3, CheckedCard
<1> QED
  BY <1>2, <1>3, <1>4, <1>5, <1>6, <1>7, <1>8
     DEF ExplorerNext, ChainOrFetch, Seal, Post, FetchSealedEvals, FetchAttestedScores,
         explorerVars, vars

\* Whatever is selected, refreshed or reloaded while a trace is fetched, and in
\* whatever order the answers come, a stamp is that of the card's own score.
THEOREM StampsOfTheirCards == ExplorerSpec => []StampOfCard
<1>1. ExplorerInv => StampOfCard
  BY DEF ExplorerInv, ChecksUnderTheirKey, CardsOfShownRow, CardsOf, StampOfCard,
     Stamped, CardKey
<1> QED
  BY <1>1, ExplorerInitInv, ExplorerNextInv, PTL DEF ExplorerSpec

-----------------------------------------------------------------------------
(* Induction over the natural numbers, by a least counterexample.          *)

Less == {p \in Nat \X Nat : p[1] < p[2]}

LEMMA LessWF == IsWellFoundedOn(Less, Nat)
BY NatLessThanWellFounded DEF OpToRel, Less

\* A set that holds 0 and with each number the next holds them all.
LEMMA Induction ==
  ASSUME NEW P, 0 \in P, \A n \in Nat : n \in P => n + 1 \in P
  PROVE  Nat \subseteq P
<1> DEFINE T == Nat \ P
<1> SUFFICES ASSUME T # {} PROVE FALSE
  OBVIOUS
<1>1. PICK m \in T : \A j \in T : ~(<<j, m>> \in Less)
  <2>1. T \subseteq Nat
    OBVIOUS
  <2> HIDE DEF T
  <2> QED
    BY <2>1, LessWF, WFMin
<1>2. m \in Nat /\ m # 0 /\ m \notin P
  BY <1>1
<1>3. m - 1 \in Nat /\ (m - 1) + 1 = m /\ m - 1 < m
  BY <1>2, SMT
<1>4. m - 1 \in P
  <2>1. <<m - 1, m>> \in Less
    BY <1>2, <1>3, SMT DEF Less
  <2> QED
    BY <1>1, <1>3, <2>1
<1> QED
  BY <1>2, <1>3, <1>4

-----------------------------------------------------------------------------
(* Array.filter, as a recursive function.                                  *)

KeptStep(events, stays, n, prev) ==
  IF n = 0 THEN <<>>
  ELSE IF events[n] \in stays THEN Append(prev, events[n])
  ELSE prev

IsKept(events, stays, len, f) ==
  f = [n \in 0..len |-> KeptStep(events, stays, n, f[n - 1])]

LEMMA KeptExists ==
  ASSUME NEW events, NEW stays
  PROVE  \A len \in Nat : \E f : IsKept(events, stays, len, f)
<1> DEFINE P == {len \in Nat : \E f : IsKept(events, stays, len, f)}
<1>1. 0 \in P
  <2> DEFINE f == [n \in 0..0 |-> <<>>]
  <2>1. IsKept(events, stays, 0, f)
    BY SMT DEF IsKept, KeptStep
  <2> HIDE DEF f
  <2> QED
    BY <2>1
<1>2. ASSUME NEW len \in Nat, len \in P PROVE len + 1 \in P
  <2>1. PICK f : IsKept(events, stays, len, f)
    BY <1>2
  <2> DEFINE g == [n \in 0..(len + 1) |->
                     KeptStep(events, stays, n, IF n = 0 THEN <<>> ELSE f[n - 1])]
  <2>2. ASSUME NEW n \in 0..len PROVE g[n] = f[n]
    <3>1. f[n] = KeptStep(events, stays, n, f[n - 1])
      BY <2>1 DEF IsKept
    <3>2. n \in 0..(len + 1)
      BY SMT
    <3> QED
      BY <3>1, <3>2 DEF KeptStep
  <2>3. ASSUME NEW n \in 0..(len + 1)
        PROVE  g[n] = KeptStep(events, stays, n, g[n - 1])
    <3>1. CASE n = 0
      BY <3>1 DEF KeptStep
    <3>2. CASE n # 0
      <4>1. n - 1 \in 0..len
        BY <3>2, SMT
      <4>2. g[n - 1] = f[n - 1]
        BY <2>2, <4>1
      <4> QED
        BY <3>2, <4>2
    <3> QED
      BY <3>1, <3>2
  <2>4. g = [n \in 0..(len + 1) |-> g[n]]
    OBVIOUS
  <2>5. IsKept(events, stays, len + 1, g)
    <3> HIDE DEF g
    <3> QED
      BY <2>3, <2>4 DEF IsKept
  <2> QED
    BY <2>5
<1> HIDE DEF P
<1>3. Nat \subseteq P
  BY <1>1, <1>2, Induction
<1> QED
  BY <1>3 DEF P

LEMMA KeptUnfolds ==
  ASSUME NEW events, NEW stays, Len(events) \in Nat
  PROVE  \E f : IsKept(events, stays, Len(events), f)
                /\ Kept(events, stays) = f[Len(events)]
<1> DEFINE f == CHOOSE g : IsKept(events, stays, Len(events), g)
<1>1. IsKept(events, stays, Len(events), f)
  BY KeptExists
<1>2. Kept(events, stays) = f[Len(events)]
  BY DEF Kept, IsKept, KeptStep
<1> QED
  BY <1>1, <1>2

LEMMA ToSetAppend ==
  ASSUME NEW S, NEW s \in Seq(S), NEW e \in S
  PROVE  /\ Append(s, e) \in Seq(S)
         /\ ToSet(Append(s, e)) = ToSet(s) \cup {e}
<1> DEFINE t == Append(s, e)
<1>1. /\ t \in Seq(S) /\ DOMAIN t = 1..(Len(s) + 1) /\ t[Len(s) + 1] = e
      /\ DOMAIN s = 1..Len(s) /\ Len(s) \in Nat
      /\ \A i \in 1..Len(s) : t[i] = s[i]
  BY SMT
<1> HIDE DEF t
<1>2. ASSUME NEW x \in ToSet(t) PROVE x \in ToSet(s) \cup {e}
  <2>1. PICK i \in 1..(Len(s) + 1) : x = t[i]
    BY <1>1 DEF ToSet
  <2>2. i \in 1..Len(s) \/ i = Len(s) + 1
    BY <1>1, SMT
  <2> QED
    BY <1>1, <2>1, <2>2 DEF ToSet
<1>3. ASSUME NEW x \in ToSet(s) \cup {e} PROVE x \in ToSet(t)
  <2>1. 1..Len(s) \subseteq 1..(Len(s) + 1) /\ Len(s) + 1 \in 1..(Len(s) + 1)
    BY <1>1, SMT
  <2> QED
    BY <1>1, <2>1 DEF ToSet
<1> QED
  BY <1>1, <1>2, <1>3 DEF t

\* Events numbered downwards.
Falling(s) == \A i, j \in DOMAIN s : i < j => s[i].id > s[j].id

LEMMA FallingAppend ==
  ASSUME NEW S, NEW s \in Seq(S), NEW e \in S, Falling(s),
         \A x \in ToSet(s) : x.id > e.id
  PROVE  Falling(Append(s, e))
<1> DEFINE t == Append(s, e)
<1>1. /\ DOMAIN t = 1..(Len(s) + 1) /\ t[Len(s) + 1] = e
      /\ DOMAIN s = 1..Len(s) /\ Len(s) \in Nat
      /\ \A i \in 1..Len(s) : t[i] = s[i]
  BY SMT
<1> HIDE DEF t
<1>2. ASSUME NEW i \in DOMAIN t, NEW j \in DOMAIN t, i < j PROVE t[i].id > t[j].id
  <2>1. i \in 1..Len(s) /\ t[i] = s[i] /\ (j \in 1..Len(s) \/ j = Len(s) + 1)
    BY <1>1, <1>2, SMT
  <2>2. CASE j \in 1..Len(s)
    BY <1>1, <1>2, <2>1, <2>2 DEF Falling
  <2>3. CASE j = Len(s) + 1
    BY <1>1, <2>1, <2>3 DEF ToSet
  <2> QED
    BY <2>1, <2>2, <2>3
<1> QED
  BY <1>2 DEF Falling, t

\* What filter returns: the events that stay, in their order.
LEMMA KeptResult ==
  ASSUME NEW S, NEW events \in Seq(S), NEW stays
  PROVE  /\ Kept(events, stays) \in Seq(S)
         /\ ToSet(Kept(events, stays)) = ToSet(events) \cap stays
         /\ Falling(events) => Falling(Kept(events, stays))
<1>1. PICK f : IsKept(events, stays, Len(events), f)
               /\ Kept(events, stays) = f[Len(events)]
  BY KeptUnfolds
<1> DEFINE P == {n \in Nat : n <= Len(events) =>
                   /\ f[n] \in Seq(S)
                   /\ ToSet(f[n]) = {events[i] : i \in 1..n} \cap stays
                   /\ Falling(events) => Falling(f[n])}
<1>2. f[0] = <<>>
  BY <1>1, SMT DEF IsKept, KeptStep
<1>3. 0 \in P
  <2>1. <<>> \in Seq(S) /\ DOMAIN <<>> = {} /\ 1..0 = {}
    BY SMT
  <2>2. ToSet(<<>>) = {} /\ {events[i] : i \in 1..0} = {}
    BY <2>1 DEF ToSet
  <2> QED
    BY <1>2, <2>1, <2>2 DEF Falling
<1>4. ASSUME NEW n \in Nat, n \in P PROVE n + 1 \in P
  <2> SUFFICES ASSUME n + 1 <= Len(events)
               PROVE  /\ f[n + 1] \in Seq(S)
                      /\ ToSet(f[n + 1]) = {events[i] : i \in 1..(n + 1)} \cap stays
                      /\ Falling(events) => Falling(f[n + 1])
    OBVIOUS
  <2>1. /\ f[n] \in Seq(S) /\ ToSet(f[n]) = {events[i] : i \in 1..n} \cap stays
        /\ Falling(events) => Falling(f[n])
    BY <1>4, SMT
  <2>2. f[n + 1] = IF events[n + 1] \in stays THEN Append(f[n], events[n + 1]) ELSE f[n]
    <3>1. n + 1 \in 0..Len(events) /\ n + 1 # 0 /\ (n + 1) - 1 = n
      BY SMT
    <3>2. f[n + 1] = KeptStep(events, stays, n + 1, f[(n + 1) - 1])
      BY <1>1, <3>1 DEF IsKept
    <3> QED
      BY <3>1, <3>2 DEF KeptStep
  <2>3. events[n + 1] \in S
    BY SMT
  <2>4. {events[i] : i \in 1..(n + 1)} = {events[i] : i \in 1..n} \cup {events[n + 1]}
    BY SMT
  <2>5. ToSet(Append(f[n], events[n + 1])) = ToSet(f[n]) \cup {events[n + 1]}
         /\ Append(f[n], events[n + 1]) \in Seq(S)
    BY <2>1, <2>3, ToSetAppend
  <2>6. Falling(events) => Falling(Append(f[n], events[n + 1]))
    <3> SUFFICES ASSUME Falling(events)
                 PROVE  Falling(Append(f[n], events[n + 1]))
      OBVIOUS
    <3>1. ASSUME NEW x \in ToSet(f[n]) PROVE x.id > events[n + 1].id
      <4>1. PICK k \in 1..n : x = events[k]
        BY <2>1
      <4>2. k \in DOMAIN events /\ n + 1 \in DOMAIN events /\ k < n + 1
        BY SMT
      <4> QED
        BY <4>1, <4>2 DEF Falling
    <3> QED
      BY <2>1, <2>3, <3>1, FallingAppend
  <2> QED
    BY <2>1, <2>2, <2>3, <2>4, <2>5, <2>6
<1> HIDE DEF P
<1>5. Nat \subseteq P
  BY <1>3, <1>4, Induction
<1>6. Len(events) \in P /\ Len(events) \in Nat
  BY <1>5
<1>7. /\ f[Len(events)] \in Seq(S)
      /\ ToSet(f[Len(events)]) = {events[i] : i \in 1..Len(events)} \cap stays
      /\ Falling(events) => Falling(f[Len(events)])
  BY <1>6, SMT DEF P
<1>8. ToSet(events) = {events[i] : i \in 1..Len(events)}
  BY SMT DEF ToSet
<1> QED
  BY <1>1, <1>7, <1>8

-----------------------------------------------------------------------------
(* bestScore, as a recursive function.                                     *)

BestStep(scores, n, prev) ==
  IF n = 1 THEN scores[1]
  ELSE IF Higher(scores[n], prev) THEN scores[n] ELSE prev

IsBest(scores, len, f) ==
  f = [n \in 1..len |-> BestStep(scores, n, f[n - 1])]

LEMMA BestExists ==
  ASSUME NEW scores
  PROVE  \A len \in Nat : \E f : IsBest(scores, len, f)
<1> DEFINE P == {len \in Nat : \E f : IsBest(scores, len, f)}
<1>1. 0 \in P
  <2> DEFINE f == [n \in 1..0 |-> <<>>]
  <2>1. IsBest(scores, 0, f)
    BY SMT DEF IsBest
  <2> HIDE DEF f
  <2> QED
    BY <2>1
<1>2. ASSUME NEW len \in Nat, len \in P PROVE len + 1 \in P
  <2>1. PICK f : IsBest(scores, len, f)
    BY <1>2
  <2> DEFINE g == [n \in 1..(len + 1) |->
                     BestStep(scores, n, IF n = 1 THEN <<>> ELSE f[n - 1])]
  <2>2. ASSUME NEW n \in 1..len PROVE g[n] = f[n]
    <3>1. f[n] = BestStep(scores, n, f[n - 1])
      BY <2>1 DEF IsBest
    <3>2. n \in 1..(len + 1)
      BY SMT
    <3> QED
      BY <3>1, <3>2 DEF BestStep
  <2>3. ASSUME NEW n \in 1..(len + 1)
        PROVE  g[n] = BestStep(scores, n, g[n - 1])
    <3>1. CASE n = 1
      BY <3>1 DEF BestStep
    <3>2. CASE n # 1
      <4>1. n - 1 \in 1..len
        BY <3>2, SMT
      <4>2. g[n - 1] = f[n - 1]
        BY <2>2, <4>1
      <4> QED
        BY <3>2, <4>2
    <3> QED
      BY <3>1, <3>2
  <2>4. g = [n \in 1..(len + 1) |-> g[n]]
    OBVIOUS
  <2>5. IsBest(scores, len + 1, g)
    <3> HIDE DEF g
    <3> QED
      BY <2>3, <2>4 DEF IsBest
  <2> QED
    BY <2>5
<1> HIDE DEF P
<1>3. Nat \subseteq P
  BY <1>1, <1>2, Induction
<1> QED
  BY <1>3 DEF P

LEMMA BestUnfolds ==
  ASSUME NEW scores, Len(scores) \in Nat
  PROVE  \E f : IsBest(scores, Len(scores), f)
                /\ BestScore(scores) = f[Len(scores)]
<1> DEFINE f == CHOOSE g : IsBest(scores, Len(scores), g)
<1>1. IsBest(scores, Len(scores), f)
  BY BestExists
<1>2. BestScore(scores) = f[Len(scores)]
  BY DEF BestScore, IsBest, BestStep
<1> QED
  BY <1>1, <1>2

\* Fractions compared by their cross products are in a linear order.
Grade == Nat \X (Nat \ {0})

LEMMA Product ==
  ASSUME NEW x \in Nat, NEW y \in Nat, NEW k \in Nat \ {0}
  PROVE  /\ x < y <=> x * k < y * k
         /\ x <= y <=> x * k <= y * k
BY SMT

LEMMA HigherOrder ==
  ASSUME NEW s, NEW t, NEW r,
         s.grade \in Grade, t.grade \in Grade, r.grade \in Grade
  PROVE  /\ ~Higher(s, s)
         /\ Higher(s, t) => ~Higher(t, s)
         /\ Higher(s, t) /\ ~Higher(r, t) => Higher(s, r)
         /\ Higher(s, t) /\ Higher(t, r) => Higher(s, r)
<1> DEFINE a == s.grade[1]
           x == s.grade[2]
           b == t.grade[1]
           y == t.grade[2]
           c == r.grade[1]
           z == r.grade[2]
<1>1. /\ a \in Nat /\ b \in Nat /\ c \in Nat
      /\ x \in Nat \ {0} /\ y \in Nat \ {0} /\ z \in Nat \ {0}
  BY DEF Grade
<1>2. /\ Higher(s, t) <=> a * y > b * x
      /\ Higher(t, s) <=> b * x > a * y
      /\ Higher(r, t) <=> c * y > b * z
      /\ Higher(t, r) <=> b * z > c * y
      /\ Higher(s, r) <=> a * z > c * x
      /\ Higher(s, s) <=> a * x > a * x
  BY DEF Higher
<1> HIDE DEF a, b, c, x, y, z
<1>3. ASSUME a * y > b * x, ~(c * y > b * z) PROVE a * z > c * x
  <2>1. (b * x) * z < (a * y) * z
    <3>1. a * y \in Nat /\ b * x \in Nat
      BY <1>1, SMT
    <3> QED
      BY <1>1, <1>3, <3>1, Product, SMT
  <2>2. (c * y) * x <= (b * z) * x
    <3>1. c * y \in Nat /\ b * z \in Nat /\ c * y <= b * z
      BY <1>1, <1>3, SMT
    <3> QED
      BY <1>1, <3>1, Product, SMT
  <2>3. /\ (b * z) * x = (b * x) * z /\ (c * y) * x = (c * x) * y
        /\ (a * y) * z = (a * z) * y
    BY <1>1, SMT
  <2>4. (c * x) * y < (a * z) * y /\ c * x \in Nat /\ a * z \in Nat
    <3>1. /\ (b * x) * z \in Nat /\ (a * z) * y \in Nat /\ (c * x) * y \in Nat
          /\ c * x \in Nat /\ a * z \in Nat
      BY <1>1, SMT
    <3> QED
      BY <2>1, <2>2, <2>3, <3>1, SMT
  <2> QED
    BY <1>1, <2>4, Product, SMT
<1>4. ASSUME NEW m \in Nat, NEW n \in Nat
      PROVE  ~(m > m) /\ (m > n => ~(n > m))
  BY SMT
<1>5. a * x \in Nat /\ a * y \in Nat /\ b * x \in Nat /\ c * y \in Nat /\ b * z \in Nat
  BY <1>1, SMT
<1> QED
  BY <1>2, <1>3, <1>4, <1>5

\* The best is the first of the highest.
LEMMA BestResult ==
  ASSUME NEW scores, Len(scores) \in Nat \ {0},
         \A i \in 1..Len(scores) : scores[i].grade \in Grade
  PROVE  \E i \in 1..Len(scores) :
           /\ BestScore(scores) = scores[i]
           /\ \A j \in 1..Len(scores) : ~Higher(scores[j], scores[i])
           /\ \A j \in 1..(i - 1) : Higher(scores[i], scores[j])
<1>1. PICK f : IsBest(scores, Len(scores), f)
               /\ BestScore(scores) = f[Len(scores)]
  BY BestUnfolds
<1> DEFINE First(n, i) == /\ f[n] = scores[i]
                          /\ \A j \in 1..n : ~Higher(scores[j], scores[i])
                          /\ \A j \in 1..(i - 1) : Higher(scores[i], scores[j])
           P == {n \in Nat : n # 0 /\ n <= Len(scores) => \E i \in 1..n : First(n, i)}
<1>2. 0 \in P
  OBVIOUS
<1>3. ASSUME NEW n \in Nat, n \in P PROVE n + 1 \in P
  <2> SUFFICES ASSUME n + 1 <= Len(scores)
               PROVE  \E i \in 1..(n + 1) : First(n + 1, i)
    BY SMT
  <2>1. f[n + 1] = BestStep(scores, n + 1, f[n])
    <3>1. n + 1 \in 1..Len(scores) /\ (n + 1) - 1 = n
      BY SMT
    <3> QED
      BY <1>1, <3>1 DEF IsBest
  <2>2. CASE n = 0
    <3>1. f[1] = scores[1] /\ n + 1 = 1
      BY <2>1, <2>2, SMT DEF BestStep
    <3>2. scores[1].grade \in Grade /\ 1..1 = {1} /\ 1..(1 - 1) = {} /\ 1 \in 1..1
      BY <2>2, SMT
    <3>3. ~Higher(scores[1], scores[1])
      BY <3>2, HigherOrder
    <3>4. First(1, 1)
      BY <3>1, <3>2, <3>3
    <3> HIDE DEF First
    <3> QED
      BY <3>1, <3>2, <3>4
  <2>3. CASE n # 0
    <3>1. PICK i \in 1..n : First(n, i)
      BY <1>3, <2>3, SMT
    <3>2. /\ i \in 1..(n + 1) /\ n + 1 \in 1..(n + 1) /\ n + 1 # 1
          /\ n + 1 \in 1..Len(scores) /\ i \in 1..Len(scores)
          /\ \A j \in 1..n : j \in 1..Len(scores)
          /\ (n + 1) - 1 = n
          /\ \A j \in 1..(n + 1) : j \in 1..n \/ j = n + 1
      BY <2>3, SMT
    <3>3. f[n + 1] = IF Higher(scores[n + 1], scores[i]) THEN scores[n + 1] ELSE scores[i]
      BY <2>1, <3>1, <3>2 DEF BestStep
    <3>4. CASE Higher(scores[n + 1], scores[i])
      <4>1. \A j \in 1..n : Higher(scores[n + 1], scores[j])
        BY <3>1, <3>2, <3>4, HigherOrder
      <4>2. \A j \in 1..(n + 1) : ~Higher(scores[j], scores[n + 1])
        BY <3>2, <4>1, HigherOrder
      <4>3. First(n + 1, n + 1)
        BY <3>2, <3>3, <3>4, <4>1, <4>2
      <4> HIDE DEF First
      <4> QED
        BY <3>2, <4>3
    <3>5. CASE ~Higher(scores[n + 1], scores[i])
      <4>1. First(n + 1, i)
        BY <3>1, <3>2, <3>3, <3>5
      <4> HIDE DEF First
      <4> QED
        BY <3>2, <4>1
    <3> QED
      BY <3>4, <3>5
  <2> QED
    BY <2>2, <2>3
<1> HIDE DEF P
<1>4. Nat \subseteq P
  BY <1>2, <1>3, Induction
<1>5. PICK i \in 1..Len(scores) : First(Len(scores), i)
  <2>1. Len(scores) \in P /\ Len(scores) \in Nat /\ Len(scores) # 0
    BY <1>4
  <2>2. Len(scores) <= Len(scores)
    BY <2>1, SMT
  <2> QED
    BY <2>1, <2>2 DEF P
<1> QED
  BY <1>1, <1>5

-----------------------------------------------------------------------------
(* The answers of the queries.                                             *)

\* The number of the newest `limit` of n events.
Newer(n, limit) == IF n < limit THEN n ELSE limit

\* The newest `limit` of the first n events, from the last back.
IsDescending(d, S, events, n, limit) ==
  /\ d \in Seq(S) /\ Len(d) = Newer(n, limit)
  /\ DOMAIN d = 1..Newer(n, limit) /\ Newer(n, limit) \in Nat
  /\ \A j \in 1..Newer(n, limit) : d[j] = events[n - j + 1]

LEMMA DescendingResult ==
  ASSUME NEW S, NEW events \in Seq(S), NEW limit \in Nat,
         NEW n \in Nat, n <= Len(events)
  PROVE  IsDescending(Descending(events, n, limit), S, events, n, limit)
<1> DEFINE first == IF n < limit THEN 1 ELSE n - limit + 1
           len == Newer(n, limit)
           cut == SubSeq(events, first, n)
           d == Reverse(cut)
<1>1. /\ first \in Nat /\ first >= 1 /\ len \in Nat /\ len = n - first + 1
      /\ first <= n + 1
  BY SMT DEF Newer
<1>2. /\ cut \in Seq(S) /\ Len(cut) = len
      /\ \A j \in 1..len : cut[j] = events[first + j - 1]
  <2> HIDE DEF first, len
  <2> QED
    BY <1>1, SMT
<1>3. d = [j \in 1..len |-> cut[len - j + 1]]
  BY <1>2 DEF Reverse
<1> HIDE DEF cut, d
<1>4. ASSUME NEW j \in 1..len PROVE d[j] = events[n - j + 1] /\ d[j] \in S
  <2>1. len - j + 1 \in 1..len
    BY <1>1, SMT
  <2>2. d[j] = events[first + (len - j + 1) - 1]
    BY <1>2, <1>3, <2>1
  <2>3. first + (len - j + 1) - 1 = n - j + 1 /\ n - j + 1 \in 1..Len(events)
    BY <1>1, SMT
  <2> QED
    BY <2>2, <2>3, SMT
<1>5. d \in Seq(S) /\ Len(d) = len /\ DOMAIN d = 1..len
  BY <1>1, <1>3, <1>4, SMT
<1> HIDE DEF len
<1> QED
  BY <1>1, <1>4, <1>5 DEF d, cut, Descending, len, IsDescending

\* Of scores numbered as they were posted, they are those the query covers,
\* and their numbers fall.
Numbered(events) == \A i \in DOMAIN events : events[i].id = i
Covered(events, n, limit) ==
  {events[i] : i \in {k \in DOMAIN events : k <= n /\ k + limit > n}}

LEMMA CoveredResult ==
  ASSUME NEW S, NEW events \in Seq(S), Numbered(events), NEW limit \in Nat,
         NEW n \in Nat, n <= Len(events)
  PROVE  LET d == Descending(events, n, limit)
         IN ToSet(d) = Covered(events, n, limit) /\ Falling(d)
<1> DEFINE d == Descending(events, n, limit)
           len == Newer(n, limit)
<1>1. /\ DOMAIN d = 1..len /\ len \in Nat
      /\ \A j \in 1..len : d[j] = events[n - j + 1]
  <2>1. IsDescending(d, S, events, n, limit)
    BY DescendingResult
  <2> HIDE DEF d
  <2> QED
    BY <2>1 DEF IsDescending
<1>2. len <= n /\ len <= limit /\ (len = n \/ len = limit)
  BY SMT DEF Newer
<1> HIDE DEF d, len
<1>3. \A j \in 1..len : /\ n - j + 1 \in DOMAIN events
                        /\ n - j + 1 <= n /\ (n - j + 1) + limit > n
  BY <1>1, <1>2, SMT
<1>4. \A k \in DOMAIN events : k <= n /\ k + limit > n =>
        n - k + 1 \in 1..len /\ n - (n - k + 1) + 1 = k
  <2>1. ASSUME NEW k \in Nat, k >= 1, k <= n, k + limit > n
        PROVE  n - k + 1 \in 1..len /\ n - (n - k + 1) + 1 = k
    BY <1>1, <1>2, <2>1, SMT
  <2>2. \A k \in DOMAIN events : k \in Nat /\ k >= 1
    BY SMT
  <2> QED
    BY <2>1, <2>2
<1>5. ToSet(d) = {d[j] : j \in 1..len}
  BY <1>1 DEF ToSet
<1>6. ToSet(d) \subseteq Covered(events, n, limit)
  BY <1>1, <1>3, <1>5 DEF Covered
<1>7. Covered(events, n, limit) \subseteq ToSet(d)
  BY <1>1, <1>4, <1>5 DEF Covered
<1>8. ASSUME NEW i \in 1..len, NEW j \in 1..len, i < j PROVE d[i].id > d[j].id
  <2>1. d[i].id = n - i + 1 /\ d[j].id = n - j + 1
    BY <1>1, <1>3 DEF Numbered
  <2>2. n - i + 1 > n - j + 1
    BY <1>1, <1>8, SMT
  <2> QED
    BY <2>1, <2>2
<1>9. Falling(d)
  BY <1>1, <1>8 DEF Falling
<1> QED
  BY <1>6, <1>7, <1>9 DEF d

-----------------------------------------------------------------------------
(* The inductive invariant of the pages: a row is the scores that count    *)
(* among those the query covered, newest first.                            *)

ChainInv ==
  /\ sealed \in Seq(Evals) /\ posted \in Seq(Score) /\ Numbered(posted)

LoadInv ==
  /\ DOMAIN load = {"evals", "scores"}
  /\ load.evals.events \in Seq(Evals) /\ Len(load.evals.events) <= EvalLimit
  /\ load.scores.events \in Seq(Score) /\ Len(load.scores.events) <= ScoreLimit
  /\ load.scores.at \in Nat /\ load.scores.at <= Len(posted)
  /\ ToSet(load.scores.events) \subseteq Covered(posted, load.scores.at, ScoreLimit)
  /\ load.scores.done =>
       ToSet(load.scores.events) = Covered(posted, load.scores.at, ScoreLimit)
  /\ Falling(load.scores.events)

RowOf(row, v, n) ==
  /\ row \in Seq(Score) /\ Falling(row)
  /\ ToSet(row) = Covered(posted, n, ScoreLimit) \cap Counting(v)

PageInv ==
  /\ page.at \in Nat /\ page.at <= Len(posted)
  /\ page.evals \in Seq(Evals)
  /\ DOMAIN page.rows = ToSet(page.evals)
  /\ \A v \in DOMAIN page.rows : RowOf(page.rows[v], v, page.at)

BoardInv == ChainInv /\ LoadInv /\ PageInv

LEMMA BoardInitInv == Init => BoardInv
<1> SUFFICES ASSUME Init PROVE BoardInv
  OBVIOUS
<1>1. /\ sealed = <<>> /\ posted = <<>> /\ page = NoPage
      /\ load = [evals |-> Pending, scores |-> Pending]
  BY DEF Init
<1>2. /\ <<>> \in Seq(Evals) /\ <<>> \in Seq(Score) /\ DOMAIN <<>> = {}
      /\ Len(<<>>) = 0
  BY SMT
<1>3. Falling(<<>>) /\ Numbered(<<>>) /\ ToSet(<<>>) = {}
  BY <1>2 DEF Falling, Numbered, ToSet
<1>4. ChainInv
  BY <1>1, <1>2, <1>3 DEF ChainInv
<1>5. LoadInv
  <2>1. /\ DOMAIN load = {"evals", "scores"}
        /\ load.evals.events = <<>> /\ load.scores.events = <<>>
        /\ load.scores.at = 0 /\ load.scores.done = FALSE
    BY <1>1 DEF Pending
  <2>2. 0 <= EvalLimit /\ 0 <= ScoreLimit /\ 0 <= Len(posted) /\ 0 \in Nat
    BY <1>1, <1>2, LeaderboardAssumption, SMT
  <2> QED
    BY <1>2, <1>3, <2>1, <2>2 DEF LoadInv
<1>6. PageInv
  BY <1>1, <1>2, <1>3, SMT DEF PageInv, NoPage
<1> QED
  BY <1>4, <1>5, <1>6 DEF BoardInv

\* What a query covered stays what it was when another score is posted.
LEMMA CoveredStays ==
  ASSUME NEW S, NEW events \in Seq(S), NEW e \in S, NEW limit \in Nat,
         NEW n \in Nat, n <= Len(events)
  PROVE  Covered(Append(events, e), n, limit) = Covered(events, n, limit)
<1> DEFINE t == Append(events, e)
<1>1. \A k \in DOMAIN events : k \in DOMAIN t /\ t[k] = events[k]
  BY SMT
<1>2. \A k \in DOMAIN t : k <= n => k \in DOMAIN events
  BY SMT
<1> HIDE DEF t
<1> QED
  BY <1>1, <1>2 DEF Covered, t

LEMMA SealInv ==
  ASSUME BoardInv, NEW v \in Evals, Seal(v)
  PROVE  BoardInv'
<1>1. sealed' \in Seq(Evals)
  BY SMT DEF Seal, BoardInv, ChainInv
<1>2. posted' = posted /\ load' = load /\ page' = page
  BY DEF Seal
<1>3. ChainInv'
  BY <1>1, <1>2 DEF BoardInv, ChainInv, Numbered
<1>4. LoadInv'
  BY <1>2 DEF BoardInv, LoadInv, Covered, Falling
<1>5. PageInv'
  BY <1>2 DEF BoardInv, PageInv, RowOf
<1> QED
  BY <1>3, <1>4, <1>5 DEF BoardInv

LEMMA PostInv ==
  ASSUME BoardInv, NEW v \in Evals, NEW kg \in Graded, Post(v, kg[1], kg[2])
  PROVE  BoardInv'
<1> DEFINE s == [id |-> Len(posted) + 1, eval |-> v, key |-> kg[1], grade |-> kg[2]]
<1>1. /\ posted \in Seq(Score) /\ Len(posted) \in Nat /\ Len(posted) < MaxScores
      /\ MaxScores \in Nat
  BY LeaderboardAssumption, SMT DEF BoardInv, ChainInv, Post
<1>2. s \in Score
  <2>1. kg[1] \in Keys /\ kg[2] \in Grades
    BY LeaderboardAssumption
  <2>2. Len(posted) + 1 \in 1..MaxScores
    BY <1>1, SMT
  <2> QED
    BY <2>1, <2>2 DEF Score
<1>3. /\ posted' = Append(posted, s)
      /\ sealed' = sealed /\ load' = load /\ page' = page
  BY DEF Post
<1>4. s.id = Len(posted) + 1
  OBVIOUS
<1> HIDE DEF s
<1>5. /\ posted' \in Seq(Score) /\ Len(posted') = Len(posted) + 1
      /\ DOMAIN posted' = 1..(Len(posted) + 1) /\ DOMAIN posted = 1..Len(posted)
      /\ posted'[Len(posted) + 1] = s
      /\ \A i \in 1..Len(posted) : posted'[i] = posted[i]
  BY <1>1, <1>2, <1>3, SMT
<1>6. Numbered(posted')
  <2>1. \A i \in 1..(Len(posted) + 1) : i \in 1..Len(posted) \/ i = Len(posted) + 1
    BY <1>1, SMT
  <2> QED
    BY <1>4, <1>5, <2>1 DEF Numbered, BoardInv, ChainInv
<1>7. \A n \in Nat : n <= Len(posted) =>
        n <= Len(posted') /\ Covered(posted', n, ScoreLimit) = Covered(posted, n, ScoreLimit)
  <2>1. \A n \in Nat : n <= Len(posted) => n <= Len(posted')
    BY <1>1, <1>5, SMT
  <2>2. ScoreLimit \in Nat
    BY LeaderboardAssumption
  <2> QED
    BY <1>1, <1>2, <1>3, <2>1, <2>2, CoveredStays
<1>8. ChainInv'
  BY <1>3, <1>5, <1>6 DEF BoardInv, ChainInv
<1>9. LoadInv'
  BY <1>3, <1>7 DEF BoardInv, LoadInv
<1>10. PageInv'
  BY <1>3, <1>7 DEF BoardInv, PageInv, RowOf, Counting
<1> QED
  BY <1>8, <1>9, <1>10 DEF BoardInv

LEMMA FetchEvalsInv ==
  ASSUME BoardInv, FetchSealedEvals
  PROVE  BoardInv'
<1>1. PICK n \in 0..Len(sealed) :
        load' = [load EXCEPT !.evals = Answer(sealed, n, EvalLimit)]
  BY DEF FetchSealedEvals
<1>2. sealed' = sealed /\ posted' = posted /\ page' = page
  BY DEF FetchSealedEvals
<1>3. /\ sealed \in Seq(Evals) /\ n \in Nat /\ n <= Len(sealed)
      /\ EvalLimit \in Nat /\ DOMAIN load = {"evals", "scores"}
  BY LeaderboardAssumption, SMT DEF BoardInv, ChainInv, LoadInv
<1> DEFINE d == Descending(sealed, n, EvalLimit)
<1>4. d \in Seq(Evals) /\ Len(d) <= EvalLimit
  <2> DEFINE len == Newer(n, EvalLimit)
  <2>1. d \in Seq(Evals) /\ Len(d) = len
    BY <1>3, DescendingResult DEF IsDescending
  <2>2. len <= EvalLimit
    BY <1>3, SMT DEF Newer
  <2> QED
    BY <2>1, <2>2
<1>5. /\ load'.evals.events = d /\ load'.scores = load.scores
      /\ DOMAIN load' = {"evals", "scores"}
  BY <1>1, <1>3 DEF Answer
<1> HIDE DEF d
<1>6. LoadInv'
  BY <1>2, <1>4, <1>5 DEF BoardInv, LoadInv
<1>7. ChainInv' /\ PageInv'
  BY <1>2 DEF BoardInv, ChainInv, PageInv, RowOf
<1> QED
  BY <1>6, <1>7 DEF BoardInv

LEMMA FetchScoresInv ==
  ASSUME BoardInv, FetchAttestedScores
  PROVE  BoardInv'
<1>1. PICK n \in 0..Len(posted) :
        load' = [load EXCEPT !.scores = Answer(posted, n, ScoreLimit)]
  BY DEF FetchAttestedScores
<1>2. sealed' = sealed /\ posted' = posted /\ page' = page
  BY DEF FetchAttestedScores
<1>3. /\ posted \in Seq(Score) /\ Numbered(posted) /\ n \in Nat /\ n <= Len(posted)
      /\ ScoreLimit \in Nat /\ DOMAIN load = {"evals", "scores"}
  BY LeaderboardAssumption, SMT DEF BoardInv, ChainInv, LoadInv
<1> DEFINE d == Descending(posted, n, ScoreLimit)
<1>4. d \in Seq(Score) /\ Len(d) <= ScoreLimit
  <2> DEFINE len == Newer(n, ScoreLimit)
  <2>1. d \in Seq(Score) /\ Len(d) = len
    BY <1>3, DescendingResult DEF IsDescending
  <2>2. len <= ScoreLimit
    BY <1>3, SMT DEF Newer
  <2> QED
    BY <2>1, <2>2
<1>5. ToSet(d) = Covered(posted, n, ScoreLimit) /\ Falling(d)
  BY <1>3, CoveredResult
<1>6. /\ load'.scores.events = d /\ load'.scores.at = n
      /\ load'.evals = load.evals
      /\ DOMAIN load' = {"evals", "scores"}
  BY <1>1, <1>3 DEF Answer
<1> HIDE DEF d
<1>7. LoadInv'
  BY <1>2, <1>3, <1>4, <1>5, <1>6 DEF BoardInv, LoadInv
<1>8. ChainInv' /\ PageInv'
  BY <1>2 DEF BoardInv, ChainInv, PageInv, RowOf
<1> QED
  BY <1>7, <1>8 DEF BoardInv

\* No query is under way.
LEMMA NothingPending ==
  ASSUME load' = [evals |-> Pending, scores |-> Pending], posted' \in Seq(Score)
  PROVE  LoadInv'
<1>1. /\ <<>> \in Seq(Evals) /\ <<>> \in Seq(Score) /\ DOMAIN <<>> = {}
      /\ Len(<<>>) = 0
  BY SMT
<1>2. Falling(<<>>) /\ ToSet(<<>>) = {}
  BY <1>1 DEF Falling, ToSet
<1>3. /\ DOMAIN load' = {"evals", "scores"}
      /\ load'.evals.events = <<>> /\ load'.scores.events = <<>>
      /\ load'.scores.at = 0 /\ load'.scores.done = FALSE
  BY DEF Pending
<1>4. 0 <= EvalLimit /\ 0 <= ScoreLimit /\ 0 <= Len(posted') /\ 0 \in Nat
  BY LeaderboardAssumption, SMT
<1> QED
  BY <1>1, <1>2, <1>3, <1>4 DEF LoadInv

LEMMA FetchFailsInv ==
  ASSUME BoardInv, FetchFails
  PROVE  BoardInv'
<1>1. /\ load' = [evals |-> Pending, scores |-> Pending] /\ page' = NoPage
      /\ sealed' = sealed /\ posted' = posted /\ posted \in Seq(Score)
  BY DEF FetchFails, BoardInv, ChainInv
<1>2. LoadInv'
  BY <1>1, NothingPending
<1>3. <<>> \in Seq(Evals) /\ DOMAIN <<>> = {} /\ 0 <= Len(posted') /\ 0 \in Nat
  BY <1>1, SMT
<1>4. ToSet(<<>>) = {}
  BY <1>3 DEF ToSet
<1>5. PageInv'
  BY <1>1, <1>3, <1>4 DEF PageInv, NoPage
<1>6. ChainInv'
  BY <1>1 DEF BoardInv, ChainInv
<1> QED
  BY <1>2, <1>5, <1>6 DEF BoardInv

LEMMA FetchLeaderboardInv ==
  ASSUME BoardInv, FetchLeaderboard
  PROVE  BoardInv'
<1> DEFINE evals == Kept(load.evals.events, Shows)
           scores == load.scores.events
<1>1. /\ page' = [evals |-> evals, rows |-> Rows(evals, scores), at |-> load.scores.at]
      /\ load' = [evals |-> Pending, scores |-> Pending]
      /\ sealed' = sealed /\ posted' = posted /\ load.scores.done
  BY DEF FetchLeaderboard
<1>2. /\ load.evals.events \in Seq(Evals) /\ scores \in Seq(Score)
      /\ load.scores.at \in Nat /\ load.scores.at <= Len(posted)
      /\ ToSet(scores) = Covered(posted, load.scores.at, ScoreLimit)
      /\ Falling(scores) /\ posted \in Seq(Score)
  BY <1>1 DEF BoardInv, LoadInv, ChainInv
<1>3. evals \in Seq(Evals)
  BY <1>2, KeptResult
<1> HIDE DEF evals, scores
<1>4. /\ page'.at = load.scores.at /\ page'.evals = evals
      /\ page'.rows = [v \in ToSet(evals) |-> Kept(scores, Counting(v))]
  BY <1>1 DEF Rows
<1>5. ASSUME NEW v \in DOMAIN page'.rows
      PROVE  RowOf(page.rows[v], v, page.at)'
  <2>1. page'.rows[v] = Kept(scores, Counting(v))
    BY <1>4
  <2>2. /\ page'.rows[v] \in Seq(Score) /\ Falling(page'.rows[v])
        /\ ToSet(page'.rows[v]) = Covered(posted, load.scores.at, ScoreLimit) \cap Counting(v)
    BY <1>2, <2>1, KeptResult
  <2> QED
    BY <1>1, <1>4, <2>2 DEF RowOf
<1>6. PageInv'
  BY <1>1, <1>2, <1>3, <1>4, <1>5 DEF PageInv
<1>7. LoadInv' /\ ChainInv'
  BY <1>1, <1>2, NothingPending DEF BoardInv, ChainInv
<1> QED
  BY <1>6, <1>7 DEF BoardInv

LEMMA BoardStays == BoardInv /\ UNCHANGED vars => BoardInv'
BY DEF BoardInv, ChainInv, LoadInv, PageInv, RowOf, vars

-----------------------------------------------------------------------------
(* What it says of the pages.                                              *)

LEMMA ScoreGrades ==
  ASSUME NEW s \in Score
  PROVE  s.grade \in Grade /\ s.id \in 1..MaxScores
BY LeaderboardAssumption DEF Score, Grade

\* The best score of a row is that of the scores the row is of.
LEMMA BestOfRow ==
  ASSUME BoardInv, NEW v \in DOMAIN page.rows
  PROVE  LET eligible == Eligible(v, page.at)
             row == page.rows[v]
         IN IF eligible = {} THEN row = <<>>
            ELSE /\ row # <<>>
                 /\ BestScore(row).id \in eligible
                 /\ BestScore(row) = posted[BestScore(row).id]
                 /\ \A i \in eligible :
                      /\ ~Higher(posted[i], BestScore(row))
                      /\ i > BestScore(row).id => Higher(BestScore(row), posted[i])
<1> DEFINE eligible == Eligible(v, page.at)
           row == page.rows[v]
<1>1. /\ row \in Seq(Score) /\ Falling(row)
      /\ ToSet(row) = Covered(posted, page.at, ScoreLimit) \cap Counting(v)
  BY DEF BoardInv, PageInv, RowOf
<1>2. posted \in Seq(Score) /\ \A i \in DOMAIN posted : posted[i].id = i
  BY DEF BoardInv, ChainInv, Numbered
<1>3. ToSet(row) = {posted[i] : i \in eligible}
  <2>1. \A i \in DOMAIN posted : posted[i] \in Score
    BY <1>2, SMT
  <2> QED
    BY <1>1, <2>1 DEF Covered, Counting, Eligible
<1>4. /\ DOMAIN row = 1..Len(row) /\ Len(row) \in Nat
      /\ \A j \in 1..Len(row) : row[j] \in Score
      /\ Len(row) = 0 => row = <<>>
      /\ DOMAIN <<>> = {}
      /\ Len(row) # 0 => 1 \in 1..Len(row)
  BY <1>1, SMT
<1> HIDE DEF eligible, row
<1>5. CASE eligible = {}
  <2>1. ToSet(row) = {}
    BY <1>3, <1>5
  <2>2. Len(row) = 0
    BY <1>4, <2>1 DEF ToSet
  <2> QED
    BY <1>4, <1>5, <2>2 DEF eligible, row
<1>6. CASE eligible # {}
  <2>1. row # <<>> /\ Len(row) # 0
    <3>1. PICK x : x \in ToSet(row)
      BY <1>3, <1>6
    <3>2. PICK j \in DOMAIN row : x = row[j]
      BY <3>1 DEF ToSet
    <3>3. Len(row) # 0
      BY <1>4, <3>2, SMT
    <3> QED
      BY <1>4, <3>2, <3>3
  <2>2. PICK i \in 1..Len(row) :
           /\ BestScore(row) = row[i]
           /\ \A j \in 1..Len(row) : ~Higher(row[j], row[i])
           /\ \A j \in 1..(i - 1) : Higher(row[i], row[j])
    <3>1. Len(row) \in Nat \ {0} /\ \A k \in 1..Len(row) : row[k].grade \in Grade
      BY <1>4, <2>1, ScoreGrades
    <3> QED
      BY <3>1, BestResult
  <2>3. PICK k \in eligible : row[i] = posted[k]
    BY <1>3, <1>4 DEF ToSet
  <2>4. \A m \in eligible : m \in DOMAIN posted
    BY DEF eligible, Eligible
  <2>5. BestScore(row).id = k
    BY <1>2, <2>2, <2>3, <2>4
  <2>6. ASSUME NEW m \in eligible
        PROVE  /\ ~Higher(posted[m], BestScore(row))
               /\ m > k => Higher(BestScore(row), posted[m])
    <3>1. PICK j \in 1..Len(row) : row[j] = posted[m]
      BY <1>3, <1>4 DEF ToSet
    <3>2. m > k => j \in 1..(i - 1)
      <4>1. row[i].id = k /\ row[j].id = m
        BY <1>2, <2>3, <2>4, <3>1
      <4>2. i < j => k > m
        BY <1>1, <1>4, <4>1 DEF Falling
      <4>3. m \in Nat /\ k \in Nat /\ (i = j => k = m)
        BY <1>2, <2>4, <4>1, SMT
      <4> QED
        BY <1>4, <4>2, <4>3, SMT
    <3> QED
      BY <2>2, <3>1, <3>2
  <2> QED
    BY <1>6, <2>1, <2>2, <2>3, <2>5, <2>6 DEF eligible, row
<1> QED
  BY <1>5, <1>6

LEMMA BoardLeader == BoardInv => LeaderIsBest
BY BestOfRow DEF LeaderIsBest

LEMMA BoardTyped == BoardInv => TypeOK
<1> SUFFICES ASSUME BoardInv PROVE TypeOK
  OBVIOUS
<1>1. ASSUME NEW v \in DOMAIN page.rows PROVE IsInjective(page.rows[v])
  <2> DEFINE row == page.rows[v]
  <2>1. row \in Seq(Score) /\ Falling(row)
    BY DEF BoardInv, PageInv, RowOf
  <2> HIDE DEF row
  <2>2. ASSUME NEW i \in DOMAIN row, NEW j \in DOMAIN row, row[i] = row[j]
        PROVE  i = j
    <3>1. i \in Nat /\ j \in Nat /\ row[i] \in Score /\ row[j] \in Score
      BY <2>1, SMT
    <3>2. row[i].id \in Nat /\ row[j].id \in Nat /\ row[i].id = row[j].id
      BY <2>2, <3>1, ScoreGrades, LeaderboardAssumption, SMT
    <3>3. (i < j => row[i].id > row[j].id) /\ (j < i => row[j].id > row[i].id)
      BY <2>1 DEF Falling
    <3> QED
      BY <3>1, <3>2, <3>3, SMT
  <2> QED
    BY <2>2 DEF IsInjective, row
<1>2. DOMAIN page.rows \subseteq Evals
  <2>1. page.evals \in Seq(Evals) /\ DOMAIN page.rows = ToSet(page.evals)
    BY DEF BoardInv, PageInv
  <2>2. \A i \in DOMAIN page.evals : page.evals[i] \in Evals
    BY <2>1, SMT
  <2> QED
    BY <2>1, <2>2 DEF ToSet
<1> QED
  BY <1>1, <1>2 DEF TypeOK, BoardInv, ChainInv, LoadInv

LEMMA BoardNextInv == BoardInv /\ [Next]_vars => BoardInv'
BY SealInv, PostInv, FetchEvalsInv, FetchScoresInv, FetchFailsInv,
   FetchLeaderboardInv, BoardStays DEF Next

\* Scores posted stay posted under their number.
LEMMA PostedStay ==
  ASSUME BoardInv, [Next]_vars, NEW i \in DOMAIN posted
  PROVE  i \in DOMAIN posted' /\ posted'[i] = posted[i]
<1>1. CASE \E v \in Evals, kg \in Graded : Post(v, kg[1], kg[2])
  <2>1. PICK s : posted' = Append(posted, s)
    BY <1>1 DEF Post
  <2>2. posted \in Seq(Score)
    BY DEF BoardInv, ChainInv
  <2> QED
    BY <2>1, <2>2, SMT
<1>2. CASE UNCHANGED posted
  BY <1>2
<1> QED
  BY <1>1, <1>2 DEF Next, Seal, FetchSealedEvals, FetchAttestedScores, FetchFails,
     FetchLeaderboard, vars

RowsHighest ==
  \A v \in DOMAIN page.rows : Eligible(v, page.at) # {} =>
    /\ page.rows[v] # <<>>
    /\ \A i \in Eligible(v, page.at) : ~Higher(posted[i], BestScore(page.rows[v]))

LEMMA LeaderHeight == BoardInv => RowsHighest
BY BestOfRow DEF RowsHighest

LEMMA LeaderKept ==
  ASSUME BoardInv, BoardInv', [Next]_vars,
         NEW v \in DOMAIN page.rows \cap DOMAIN page'.rows,
         page.at <= page'.at, page'.at <= ScoreLimit, page.rows[v] # <<>>
  PROVE  /\ page'.rows[v] # <<>>
         /\ ~Higher(BestScore(page.rows[v]), BestScore(page'.rows[v]))
<1> DEFINE k == BestScore(page.rows[v]).id
<1>1. k \in Eligible(v, page.at) /\ BestScore(page.rows[v]) = posted[k]
  BY BestOfRow
<1>2. /\ k \in DOMAIN posted /\ k <= page.at
      /\ posted[k].eval = v /\ posted[k].key = Canonical
  BY <1>1 DEF Eligible
<1>3. k \in DOMAIN posted' /\ posted'[k] = posted[k]
  BY <1>2, PostedStay
<1>4. k \in Nat /\ k >= 1 /\ page.at \in Nat /\ page'.at \in Nat /\ ScoreLimit \in Nat
  <2>1. posted \in Seq(Score) /\ page.at \in Nat /\ page'.at \in Nat
    BY DEF BoardInv, ChainInv, PageInv
  <2> QED
    BY <1>2, <2>1, LeaderboardAssumption, SMT
<1>5. k <= page'.at /\ k + ScoreLimit > page'.at
  BY <1>2, <1>4, SMT
<1> HIDE DEF k
<1>6. k \in Eligible(v, page.at)'
  BY <1>2, <1>3, <1>5 DEF Eligible
<1>7. (/\ page.rows[v] # <<>>
       /\ \A i \in Eligible(v, page.at) : ~Higher(posted[i], BestScore(page.rows[v])))'
  <2>1. RowsHighest'
    BY LeaderHeight, PTL
  <2> QED
    BY <1>6, <2>1 DEF RowsHighest
<1> QED
  BY <1>1, <1>3, <1>6, <1>7

LEMMA LeadersKept ==
  BoardInv /\ BoardInv' /\ [Next]_vars
    => \A v \in DOMAIN page.rows \cap DOMAIN page'.rows :
         (page.at <= page'.at /\ page'.at <= ScoreLimit /\ page.rows[v] # <<>>)
           => /\ page'.rows[v] # <<>>
              /\ ~Higher(BestScore(page.rows[v]), BestScore(page'.rows[v]))
BY LeaderKept

LEMMA PagesInvariant == Spec => []BoardInv
<1>1. Init => BoardInv
  BY BoardInitInv
<1>2. BoardInv /\ [Next]_vars => BoardInv'
  BY BoardNextInv
<1> QED
  BY <1>1, <1>2, PTL DEF Spec

\* The explorer only reads the pages: whatever the reader does, the chain, the
\* queries and the pages go through the steps of the leaderboard or none.
THEOREM ExplorerOnlyReads == ExplorerSpec => Spec
<1>1. ExplorerInit => Init
  BY DEF ExplorerInit
<1>2. [ExplorerNext]_explorerVars => [Next]_vars
  BY DEF ExplorerNext, ChainOrFetch, Refresh, Reload, RefreshFails, Select,
     VerifyBlob, BlobAnswered, VerifyTrace, TraceAnswered, Next, explorerVars
<1> QED
  BY <1>1, <1>2, PTL DEF ExplorerSpec, Spec

\* The score a row marks as the best is the one a reader of the chain would
\* pick, for any grades, limits and numbers of evals and scores, whichever
\* nodes answer.
THEOREM LeadersBest == ExplorerSpec => []LeaderIsBest
  BY PagesInvariant, ExplorerOnlyReads, BoardLeader, PTL

\* While the query reaches the first score, the best score shown for an eval
\* gets no lower from a page to one of a node that knows as much.
THEOREM LeadersNeverDrop == ExplorerSpec => LeaderNeverDrops
<1>1. Spec => []BoardInv
  BY PagesInvariant
<1> DEFINE NoneLower ==
  \A v \in DOMAIN page.rows \cap DOMAIN page'.rows :
    (page.at <= page'.at /\ page'.at <= ScoreLimit /\ page.rows[v] # <<>>)
      => /\ page'.rows[v] # <<>>
         /\ ~Higher(BestScore(page.rows[v]), BestScore(page'.rows[v]))
<1>2. BoardInv /\ BoardInv' /\ [Next]_vars => [NoneLower]_vars
  BY LeadersKept
<1>3. Spec => [][NoneLower]_vars
  BY <1>1, <1>2, PTL DEF Spec
<1> QED
  BY <1>3, ExplorerOnlyReads DEF LeaderNeverDrops

-----------------------------------------------------------------------------
(* The types of the view, over those pages.                                *)

Check(of) == [status : Outcomes \cup {"idle", "checking"}, of : of]

ViewTyped ==
  /\ view.mounted \in BOOLEAN
  /\ view.selected \in Evals \cup {Nothing}
  /\ view.walrus \in Check(Evals \cup {Nothing})
  /\ DOMAIN view.cards \subseteq 1..MaxScores
  /\ \A k \in DOMAIN view.cards : view.cards[k] \in Check(0..MaxScores)
  /\ ~view.mounted => view = NotMounted

\* A page's rows are those of its evals, and its cards those of scores.
LEMMA PageShows ==
  ASSUME BoardInv, NEW id
  PROVE  /\ Selected(page, id) \in DOMAIN page.rows \cup {Nothing}
         /\ LastSealed(page) \in Evals \cup {Nothing}
         /\ DOMAIN page.rows \subseteq Evals
         /\ \A v \in DOMAIN page.rows : CardsOf(page.rows[v]) \subseteq 1..MaxScores
<1>1. page.evals \in Seq(Evals) /\ DOMAIN page.rows = ToSet(page.evals)
  BY DEF BoardInv, PageInv
<1>2. DOMAIN page.rows \subseteq Evals
  <2>1. \A i \in DOMAIN page.evals : page.evals[i] \in Evals
    BY <1>1, SMT
  <2> QED
    BY <1>1, <2>1 DEF ToSet
<1>3. LastSealed(page) \in DOMAIN page.rows \cup {Nothing}
  <2>1. CASE page.evals = <<>>
    BY <2>1 DEF LastSealed
  <2>2. CASE page.evals # <<>>
    <3>1. 1 \in DOMAIN page.evals /\ LastSealed(page) = page.evals[1]
      BY <1>1, <2>2, SMT DEF LastSealed
    <3> QED
      BY <1>1, <3>1 DEF ToSet
  <2> QED
    BY <2>1, <2>2
<1>4. ASSUME NEW v \in DOMAIN page.rows
      PROVE  CardsOf(page.rows[v]) \subseteq 1..MaxScores
  <2> DEFINE row == page.rows[v]
  <2>1. row \in Seq(Score)
    BY DEF BoardInv, PageInv, RowOf
  <2>2. \A i \in DOMAIN row : row[i] \in Score
    BY <2>1, SMT
  <2> HIDE DEF row
  <2>3. CardsOf(row) \subseteq 1..MaxScores
    BY <2>2, ScoreGrades DEF CardsOf, CardKey
  <2> QED
    BY <2>3 DEF row
<1> QED
  BY <1>2, <1>3, <1>4 DEF Selected

ShowsRows ==
  /\ \A id : Selected(page, id) \in DOMAIN page.rows \cup {Nothing}
  /\ LastSealed(page) \in Evals \cup {Nothing}
  /\ \A v \in DOMAIN page.rows : CardsOf(page.rows[v]) \subseteq 1..MaxScores

LEMMA PagesShowRows == BoardInv => ShowsRows
BY PageShows DEF ShowsRows

LEMMA IdleTyped ==
  /\ Idle(Nothing) \in Check(Evals \cup {Nothing})
  /\ Idle(0) \in Check(0..MaxScores)
<1>1. 0 \in 0..MaxScores
  BY LeaderboardAssumption, SMT
<1> QED
  BY <1>1 DEF Idle, Check

LEMMA RenderedTyped ==
  ASSUME BoardInv', NEW old, NEW id \in Evals \cup {Nothing},
         old.walrus \in Check(Evals \cup {Nothing}),
         \A k \in DOMAIN old.cards : old.cards[k] \in Check(0..MaxScores),
         view' = Rendered(old, page', id)
  PROVE  ViewTyped'
<1> DEFINE shown == Selected(page', id)
<1>1. /\ view'.mounted = TRUE /\ view'.selected = id
      /\ view'.walrus = IF shown = Nothing THEN Idle(Nothing) ELSE old.walrus
      /\ view'.cards = IF shown = Nothing THEN <<>> ELSE Listed(old.cards, page'.rows[shown])
  BY DEF Rendered
<1>2. /\ shown \in DOMAIN page'.rows \cup {Nothing}
      /\ \A v \in DOMAIN page'.rows : CardsOf(page'.rows[v]) \subseteq 1..MaxScores
  <2>1. ShowsRows'
    BY PagesShowRows, PTL
  <2> QED
    BY <2>1 DEF ShowsRows, Selected, LastSealed, CardsOf, CardKey
<1> HIDE DEF shown
<1>3. CASE shown = Nothing
  <2>1. DOMAIN <<>> = {}
    BY SMT
  <2> QED
    BY <1>1, <1>3, <2>1, IdleTyped DEF ViewTyped
<1>4. CASE shown # Nothing
  <2> DEFINE cards == Listed(old.cards, page'.rows[shown])
  <2>1. DOMAIN cards = CardsOf(page'.rows[shown])
    BY DEF Listed, CardsOf
  <2>2. ASSUME NEW k \in DOMAIN cards
        PROVE  cards[k] \in Check(0..MaxScores)
    BY IdleTyped DEF Listed
  <2>3. view'.cards = cards
    BY <1>1, <1>4
  <2> HIDE DEF cards
  <2> QED
    BY <1>1, <1>2, <1>4, <2>1, <2>2, <2>3 DEF ViewTyped
<1> QED
  BY <1>3, <1>4

LEMMA CheckedCardTyped ==
  ASSUME ViewTyped, ViewShape, NEW k \in DOMAIN view.cards,
         NEW check \in Check(0..MaxScores),
         view' = [view EXCEPT !.cards[k] = check]
  PROVE  ViewTyped'
<1>1. view.mounted
  <2>1. DOMAIN <<>> = {}
    BY SMT
  <2> QED
    BY <2>1 DEF ViewTyped, NotMounted
<1>2. /\ view'.mounted = view.mounted /\ view'.selected = view.selected
      /\ view'.walrus = view.walrus
      /\ view'.cards = [view.cards EXCEPT ![k] = check]
  BY DEF ViewShape
<1>3. /\ DOMAIN view'.cards = DOMAIN view.cards
      /\ \A j \in DOMAIN view.cards : view'.cards[j] \in {check, view.cards[j]}
  BY <1>2
<1> QED
  BY <1>1, <1>2, <1>3 DEF ViewTyped

LEMMA ViewInitTyped == ExplorerInit => ViewTyped
<1>1. DOMAIN <<>> = {}
  BY SMT
<1> QED
  BY <1>1, IdleTyped DEF ExplorerInit, InitView, NotMounted, ViewTyped

LEMMA ViewNextTyped ==
  ViewTyped /\ ExplorerInv /\ BoardInv /\ BoardInv' /\ [ExplorerNext]_explorerVars
    => ViewTyped'
<1> SUFFICES ASSUME ViewTyped, ViewShape, CardsOfShownRow, BoardInv, BoardInv',
                    [ExplorerNext]_explorerVars
             PROVE  ViewTyped'
  BY DEF ExplorerInv
<1>0. /\ view.walrus \in Check(Evals \cup {Nothing})
      /\ \A k \in DOMAIN view.cards : view.cards[k] \in Check(0..MaxScores)
      /\ view.selected \in Evals \cup {Nothing}
  BY DEF ViewTyped
<1>1. /\ NotMounted.walrus \in Check(Evals \cup {Nothing})
      /\ \A k \in DOMAIN NotMounted.cards : NotMounted.cards[k] \in Check(0..MaxScores)
      /\ NotMounted.selected \in Evals \cup {Nothing}
  <2>1. DOMAIN <<>> = {}
    BY SMT
  <2> QED
    BY <2>1, IdleTyped DEF NotMounted
<1>2. CASE UNCHANGED view
  BY <1>2 DEF ViewTyped
<1>3. CASE Refresh \/ Reload
  <2>1. LastSealed(page') \in Evals \cup {Nothing}
    <3>1. ShowsRows'
      BY PagesShowRows, PTL
    <3> QED
      BY <3>1 DEF ShowsRows, LastSealed
  <2>2. \/ view' = Rendered(view, page', view.selected)
        \/ view' = Rendered(NotMounted, page', LastSealed(page'))
    BY <1>3 DEF Refresh, Reload, Mounted
  <2> QED
    BY <1>0, <1>1, <2>1, <2>2, RenderedTyped
<1>4. CASE RefreshFails
  <2>1. view' = NotMounted /\ DOMAIN <<>> = {}
    BY <1>4, SMT DEF RefreshFails
  <2> QED
    BY <2>1, IdleTyped DEF NotMounted, ViewTyped
<1>5. ASSUME NEW v \in Evals, Select(v)
      PROVE  ViewTyped'
  <2>1. view' = Rendered(view, page', v)
    BY <1>5 DEF Select, vars
  <2> QED
    BY <1>0, <2>1, RenderedTyped
<1>6. ASSUME NEW check \in Check(Evals \cup {Nothing}),
             view' = [view EXCEPT !.walrus = check], view.mounted
      PROVE  ViewTyped'
  <2>1. /\ view'.mounted = view.mounted /\ view'.selected = view.selected
        /\ view'.walrus = check /\ view'.cards = view.cards
    BY <1>6 DEF ViewShape
  <2> QED
    BY <1>6, <2>1 DEF ViewTyped
<1>7. CASE VerifyBlob
  <2>1. Shown \in Evals /\ view.mounted
    <3>1. view.mounted /\ Selected(page, view.selected) # Nothing
             /\ Shown = Selected(page, view.selected)
      BY <1>7 DEF VerifyBlob, Shown
    <3> QED
      BY <3>1, PageShows
  <2>2. [status |-> "checking", of |-> Shown] \in Check(Evals \cup {Nothing})
    BY <2>1 DEF Check
  <2> QED
    BY <1>6, <1>7, <2>1, <2>2 DEF VerifyBlob
<1>8. CASE BlobAnswered
  <2>1. PICK s \in Outcomes : view' = [view EXCEPT !.walrus.status = s]
    BY <1>8 DEF BlobAnswered
  <2>2. view.mounted
    BY <1>8 DEF BlobAnswered, ViewTyped, NotMounted, Idle
  <2> DEFINE check == [view.walrus EXCEPT !.status = s]
  <2>3. check \in Check(Evals \cup {Nothing})
    BY <1>0 DEF Check
  <2>4. view' = [view EXCEPT !.walrus = check]
    BY <2>1
  <2> HIDE DEF check
  <2> QED
    BY <1>6, <2>2, <2>3, <2>4
<1>9. ASSUME Shown # Nothing, NEW i \in DOMAIN page.rows[Shown], VerifyTrace(i)
      PROVE  ViewTyped'
  <2> DEFINE k == CardKey(page.rows[Shown], i)
  <2>1. k \in DOMAIN view.cards
    BY <1>9 DEF CardsOfShownRow, CardsOf
  <2>2. view' = [view EXCEPT !.cards[k] = [status |-> "checking", of |-> k]]
    BY <1>9 DEF VerifyTrace, CardKey
  <2>3. [status |-> "checking", of |-> k] \in Check(0..MaxScores)
    <3>1. k \in 1..MaxScores
      BY <2>1 DEF ViewTyped
    <3>2. k \in 0..MaxScores
      BY <3>1, LeaderboardAssumption, SMT
    <3> HIDE DEF k
    <3> QED
      BY <3>2 DEF Check
  <2> QED
    BY <2>1, <2>2, <2>3, CheckedCardTyped
<1>10. ASSUME NEW k \in DOMAIN view.cards, TraceAnswered(k)
       PROVE  ViewTyped'
  <2>1. PICK s \in Outcomes : view' = [view EXCEPT !.cards[k].status = s]
    BY <1>10 DEF TraceAnswered
  <2> DEFINE check == [view.cards[k] EXCEPT !.status = s]
  <2>2. check \in Check(0..MaxScores)
    BY <1>0 DEF Check
  <2>3. view' = [view EXCEPT !.cards[k] = check]
    BY <2>1
  <2> QED
    BY <2>2, <2>3, CheckedCardTyped
<1> QED
  BY <1>2, <1>3, <1>4, <1>5, <1>7, <1>8, <1>9, <1>10
     DEF ExplorerNext, explorerVars

\* The types of the pages and the view, whatever is served, selected and
\* answered; a closed explorer holds nothing.
THEOREM ExplorerTyped == ExplorerSpec => []ExplorerTypeOK
<1>1. Spec => []BoardInv
  BY PagesInvariant
<1>2. ExplorerSpec => []ExplorerInv
  BY ExplorerInitInv, ExplorerNextInv, PTL DEF ExplorerSpec
<1>3. ExplorerSpec => []ViewTyped
  BY <1>1, <1>2, ExplorerOnlyReads, ViewInitTyped, ViewNextTyped, PTL DEF ExplorerSpec
<1>4. BoardInv /\ ViewTyped => ExplorerTypeOK
  BY BoardTyped DEF ViewTyped, Check, ExplorerTypeOK
<1> QED
  BY <1>1, <1>3, <1>4, ExplorerOnlyReads, PTL
=============================================================================
