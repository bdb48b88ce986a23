---------------------------- MODULE Leaderboard ----------------------------
(***************************************************************************)
(* The read side: the page joins two event queries, newest events first    *)
(* and cut at a limit, keeps the scores the enclave of record has signed,  *)
(* and marks one of them as the best.  The two queries run side by side    *)
(* and may be answered by full nodes that lag behind the chain.            *)
(***************************************************************************)
EXTENDS Naturals, Sequences, SequencesExt

CONSTANTS
  Evals,       \* SealedEval ids
  Active,      \* ACTIVE_SEALED_EVAL_IDS; {} for all
  Keys,        \* enclave public keys
  Canonical,   \* CANONICAL_ENCLAVE_PK
  Grades,      \* <<score_num, score_den>> pairs
  Graded,      \* the pairs of a key and a grade that are posted
  EvalLimit,   \* limit of the first query (50)
  ScoreLimit,  \* limit of the second (200)
  MaxScores    \* bound on the scores posted

ASSUME LeaderboardAssumption ==
  /\ Active \subseteq Evals
  /\ Canonical \in Keys
  /\ Grades \subseteq Nat \X (Nat \ {0})
  /\ Graded \subseteq Keys \X Grades
  /\ EvalLimit \in Nat /\ ScoreLimit \in Nat /\ MaxScores \in Nat

VARIABLES
  sealed,   \* SealedEvalCreated events, oldest first
  posted,   \* AttestedScorePosted events, oldest first
  load,     \* the page load under way: what each query has returned
  page      \* the page shown

vars == <<sealed, posted, load, page>>

Score == [id : 1..MaxScores, eval : Evals, key : Keys, grade : Grades]

\* A query's answer: the events and how many the node knew of.
Pending == [events |-> <<>>, at |-> 0, done |-> FALSE]
NoPage == [evals |-> <<>>, rows |-> <<>>, at |-> 0]

Init ==
  /\ sealed = <<>> /\ posted = <<>>
  /\ load = [evals |-> Pending, scores |-> Pending]
  /\ page = NoPage

-----------------------------------------------------------------------------
(* The chain.                                                              *)

Seal(v) ==
  /\ \A i \in DOMAIN sealed : sealed[i] # v
  /\ sealed' = Append(sealed, v)
  /\ UNCHANGED <<posted, load, page>>

Post(v, k, g) ==
  /\ \E i \in DOMAIN sealed : sealed[i] = v
  /\ Len(posted) < MaxScores
  /\ posted' = Append(posted,
       [id |-> Len(posted) + 1, eval |-> v, key |-> k, grade |-> g])
  /\ UNCHANGED <<sealed, load, page>>

-----------------------------------------------------------------------------
(* The page.                                                               *)

\* The newest `limit` of the first n events, newest first.  Mutant: one
\* more than that.
OneMore(events, n, limit) ==
  Reverse(SubSeq(events, IF n <= limit THEN 1 ELSE n - limit, n))
Descending(events, n, limit) ==
  LET first == IF n < limit THEN 1 ELSE n - limit + 1
  IN Reverse(SubSeq(events, first, n))

Answer(events, n, limit) ==
  [events |-> Descending(events, n, limit), at |-> n, done |-> TRUE]

\* fetchSealedEvals, through withRpcFallback: a node may know fewer events.
FetchSealedEvals ==
  /\ ~load.evals.done
  /\ \E n \in 0..Len(sealed) :
        load' = [load EXCEPT !.evals = Answer(sealed, n, EvalLimit)]
  /\ UNCHANGED <<sealed, posted, page>>

FetchAttestedScores ==
  /\ ~load.scores.done
  /\ \E n \in 0..Len(posted) :
        load' = [load EXCEPT !.scores = Answer(posted, n, ScoreLimit)]
  /\ UNCHANGED <<sealed, posted, page>>

\* Every node has failed: the page says so and shows no rows.
FetchFails ==
  /\ ~(load.evals.done /\ load.scores.done)
  /\ load' = [evals |-> Pending, scores |-> Pending]
  /\ page' = NoPage
  /\ UNCHANGED <<sealed, posted>>

\* Array.filter, by the set of what stays.
Kept(events, stays) ==
  LET upTo[n \in 0..Len(events)] ==
        IF n = 0 THEN <<>>
        ELSE IF events[n] \in stays THEN Append(upTo[n - 1], events[n])
        ELSE upTo[n - 1]
  IN upTo[Len(events)]

Shows == IF Active = {} THEN Evals ELSE Active

\* The scores a row shows.
Counting(v) == {s \in Score : s.eval = v /\ s.key = Canonical}

Rows(evals, scores) ==
  [v \in ToSet(evals) |-> Kept(scores, Counting(v))]

\* fetchLeaderboard, once both queries are back: the active evals, last sealed
\* first, each with its row.
FetchLeaderboard ==
  /\ load.evals.done /\ load.scores.done
  /\ LET evals == Kept(load.evals.events, Shows)
     IN page' = [evals |-> evals, rows |-> Rows(evals, load.scores.events),
                 at |-> load.scores.at]
  /\ load' = [evals |-> Pending, scores |-> Pending]
  /\ UNCHANGED <<sealed, posted>>

\* bestScore compares score_num / score_den as floats.  Two different fractions
\* with denominators below 2^26 differ by more than their rounding, so for sets
\* of such a size that is the comparison of the fractions.
Higher(s, t) == s.grade[1] * t.grade[2] > t.grade[1] * s.grade[2]

\* bestScore: the first of the highest.  Mutants: the last one wins ties; the
\* newest is taken.
LastOfHighest(scores) ==
  LET best[n \in 1..Len(scores)] ==
        IF n = 1 THEN scores[1]
        ELSE IF Higher(best[n - 1], scores[n]) THEN best[n - 1] ELSE scores[n]
  IN best[Len(scores)]
Newest(scores) == scores[1]
BestScore(scores) ==
  LET best[n \in 1..Len(scores)] ==
        IF n = 1 THEN scores[1]
        ELSE IF Higher(scores[n], best[n - 1]) THEN scores[n] ELSE best[n - 1]
  IN best[Len(scores)]

-----------------------------------------------------------------------------

Next ==
  \/ \E v \in Evals : Seal(v)
  \/ \E v \in Evals, kg \in Graded : Post(v, kg[1], kg[2])
  \/ FetchSealedEvals \/ FetchAttestedScores \/ FetchFails
  \/ FetchLeaderboard

Spec == Init /\ [][Next]_vars

-----------------------------------------------------------------------------
(* Properties.                                                             *)

\* The types; a score is only ever shown once.
TypeOK ==
  /\ sealed \in Seq(Evals) /\ posted \in Seq(Score)
  /\ load.evals.events \in Seq(Evals) /\ Len(load.evals.events) <= EvalLimit
  /\ load.scores.events \in Seq(Score) /\ Len(load.scores.events) <= ScoreLimit
  /\ DOMAIN page.rows \subseteq Evals
  /\ \A v \in DOMAIN page.rows : IsInjective(page.rows[v])

\* Canonical scores of v among the newest ScoreLimit of the first n posted.
Eligible(v, n) ==
  {i \in DOMAIN posted :
     /\ i <= n /\ i + ScoreLimit > n
     /\ posted[i].eval = v /\ posted[i].key = Canonical}

\* The score a row marks as the best is the one a reader of the chain would
\* pick: of the canonical scores on that eval that the query covers none is
\* higher, and none of the same height is newer.
LeaderIsBest ==
  \A v \in DOMAIN page.rows :
    LET eligible == Eligible(v, page.at)
        row == page.rows[v]
    IN IF eligible = {} THEN row = <<>>
       ELSE /\ row # <<>>
            /\ BestScore(row).id \in eligible
            /\ \A i \in eligible :
                 /\ ~Higher(posted[i], BestScore(row))
                 /\ i > BestScore(row).id => Higher(BestScore(row), posted[i])

\* While no more scores exist than the query returns, the best score shown for
\* an eval gets no lower from one page to the next, unless a node answers that
\* knows less than the one before.
LeaderNeverDrops ==
  [][\A v \in DOMAIN page.rows \cap DOMAIN page'.rows :
       (page.at <= page'.at /\ page'.at <= ScoreLimit /\ page.rows[v] # <<>>)
         => /\ page'.rows[v] # <<>>
            /\ ~Higher(BestScore(page.rows[v]), BestScore(page'.rows[v]))]_vars
=============================================================================
