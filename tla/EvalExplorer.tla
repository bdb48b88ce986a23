---------------------------- MODULE EvalExplorer ----------------------------
(***************************************************************************)
(* The explorer in the browser, over the pages of Leaderboard: which eval  *)
(* is selected and what its hash checks have said.  A page that arrives    *)
(* while the explorer is open (router.refresh) renders new rows into it;   *)
(* React keeps the state of a component that stays at its place or under   *)
(* its key, and drops that of one that goes.                               *)
(*                                                                         *)
(* A check fetches a blob and compares its hash with the one on chain, as  *)
(* both stood when the button was pressed; the blob served is arbitrary.   *)
(***************************************************************************)
EXTENDS Leaderboard, FiniteSets

CONSTANTS
  Nothing,    \* no eval
  MaxChecks   \* bound on the checks pending or answered in one view

ASSUME ExplorerAssumption == Nothing \notin Evals /\ MaxChecks \in Nat

VARIABLE view      \* the explorer's React state

explorerVars == <<vars, view>>

\* VerifyState, with the object whose hash was compared; 0 is no score.
Outcomes == {"match", "mismatch", "error"}
Idle(none) == [status |-> "idle", of |-> none]
Stamped(check) == check.status \in {"match", "mismatch"}

NotMounted == [mounted |-> FALSE, selected |-> Nothing,
               walrus |-> Idle(Nothing), cards |-> <<>>]

InitView == view = NotMounted

-----------------------------------------------------------------------------
(* Rendering.                                                              *)

\* sortRowsBySealDate()[0]
LastSealed(p) == IF p.evals = <<>> THEN Nothing ELSE Head(p.evals)

\* rowById(sortedRows, selectedId) ?? sortedRows[0]
Selected(p, id) == IF id \in DOMAIN p.rows THEN id ELSE LastSealed(p)

\* The key a ScoreCard is listed under.  Mutant: its place in the list.
KeyByPlace(row, i) == i
CardKey(row, i) == row[i].id

\* The trace checks of a list of cards: those of keys listed before go on.
Listed(cards, row) ==
  [k \in {CardKey(row, i) : i \in DOMAIN row} |->
     IF k \in DOMAIN cards THEN cards[k] ELSE Idle(0)]

\* The explorer after a render.  Without a row it shows no article; the
\* Walrus check stands at one place whichever eval is selected.
Rendered(old, p, id) ==
  LET shown == Selected(p, id)
  IN [mounted |-> TRUE, selected |-> id,
      walrus |-> IF shown = Nothing THEN Idle(Nothing) ELSE old.walrus,
      cards |-> IF shown = Nothing THEN <<>> ELSE Listed(old.cards, p.rows[shown])]

Mounted(p) == Rendered(NotMounted, p, LastSealed(p))

-----------------------------------------------------------------------------
(* Pages.                                                                  *)

\* A page arrives in the open explorer, or is loaded anew.
Refresh ==
  /\ FetchLeaderboard
  /\ view' = IF view.mounted THEN Rendered(view, page', view.selected)
             ELSE Mounted(page')

Reload == FetchLeaderboard /\ view' = Mounted(page')

\* The page says the node cannot be reached in place of the explorer.
RefreshFails == FetchFails /\ view' = NotMounted

-----------------------------------------------------------------------------
(* The reader.                                                             *)

\* Room for one more check, or for another try of one of these.
Room(check) ==
  LET checked == {k \in DOMAIN view.cards : view.cards[k].status # "idle"}
      open == Cardinality(checked) + IF view.walrus.status = "idle" THEN 0 ELSE 1
  IN open < MaxChecks \/ check.status # "idle"

Shown == IF view.mounted THEN Selected(page, view.selected) ELSE Nothing

Select(v) ==
  /\ view.mounted /\ v \in DOMAIN page.rows
  /\ view' = Rendered(view, page, v)
  /\ UNCHANGED vars

\* verify() of WalrusVerifier, up to the fetch and from its answer on.
VerifyBlob ==
  /\ Shown # Nothing /\ view.walrus.status # "checking" /\ Room(view.walrus)
  /\ view' = [view EXCEPT !.walrus = [status |-> "checking", of |-> Shown]]
  /\ UNCHANGED vars

BlobAnswered ==
  /\ view.walrus.status = "checking"
  /\ \E s \in Outcomes : view' = [view EXCEPT !.walrus.status = s]
  /\ UNCHANGED vars

\* verify() of the TraceVerifier on the i-th card.
VerifyTrace(i) ==
  LET row == page.rows[Shown]
      k == CardKey(row, i)
  IN /\ view.cards[k].status # "checking" /\ Room(view.cards[k])
     /\ view' = [view EXCEPT !.cards[k] = [status |-> "checking",
                                           of |-> row[i].id]]
     /\ UNCHANGED vars

TraceAnswered(k) ==
  /\ view.cards[k].status = "checking"
  /\ \E s \in Outcomes : view' = [view EXCEPT !.cards[k].status = s]
  /\ UNCHANGED vars

-----------------------------------------------------------------------------

ChainOrFetch ==
  \/ \E v \in Evals : Seal(v)
  \/ \E v \in Evals, kg \in Graded : Post(v, kg[1], kg[2])
  \/ FetchSealedEvals \/ FetchAttestedScores

ExplorerNext ==
  \/ ChainOrFetch /\ UNCHANGED view
  \/ Refresh \/ Reload \/ RefreshFails
  \/ \E v \in Evals : Select(v)
  \/ VerifyBlob \/ BlobAnswered
  \/ Shown # Nothing /\ \E i \in DOMAIN page.rows[Shown] : VerifyTrace(i)
  \/ \E k \in DOMAIN view.cards : TraceAnswered(k)

ExplorerInit == Init /\ InitView

ExplorerSpec == ExplorerInit /\ [][ExplorerNext]_explorerVars

-----------------------------------------------------------------------------
(* Properties.                                                             *)

\* The types of the page and the view; a closed explorer holds nothing.
ExplorerTypeOK ==
  /\ TypeOK
  /\ view.mounted \in BOOLEAN
  /\ view.selected \in Evals \cup {Nothing}
  /\ view.walrus \in [status : Outcomes \cup {"idle", "checking"},
                      of : Evals \cup {Nothing}]
  /\ DOMAIN view.cards \subseteq 1..MaxScores
  /\ \A k \in DOMAIN view.cards :
       view.cards[k] \in [status : Outcomes \cup {"idle", "checking"},
                          of : 0..MaxScores]
  /\ ~view.mounted => view = NotMounted

\* Whatever is selected or arrives while a trace is fetched: the stamp on a
\* score's card is the outcome of checking that score's trace, and the cards
\* are those of the row shown.
StampOfCard ==
  Shown # Nothing =>
    LET row == page.rows[Shown]
    IN /\ DOMAIN view.cards = {CardKey(row, i) : i \in DOMAIN row}
       /\ \A i \in DOMAIN row :
            Stamped(view.cards[CardKey(row, i)])
              => view.cards[CardKey(row, i)].of = row[i].id

\* "Fetches the ciphertext from Walrus and checks its SHA-256 against Sui":
\* the verdict beside an eval's hash is that of its own ciphertext.
VerdictOfShownEval == Stamped(view.walrus) => view.walrus.of = Shown
=============================================================================
