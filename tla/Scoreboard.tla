------------------------------ MODULE Scoreboard ------------------------------
(***************************************************************************)
(* What the system promises, with no enclave, key, blob or transaction in  *)
(* it: authors commit to held-out sets, a committed set is graded as a     *)
(* whole, and the board shows grades of committed sets and nothing else.   *)
(* ScorePipeline implements this specification.                            *)
(***************************************************************************)
EXTENDS Naturals

CONSTANTS
  EvalIds,    \* benchmark ids
  Sets,       \* held-out sets
  ItemCount,  \* the number of items of each set
  EntryIds    \* entries on the board

VARIABLES
  sealed,  \* committed sets: pairs of a benchmark and its set
  grades,  \* what grading has produced so far
  board    \* published entries

boardVars == <<sealed, grades, board>>

Init == sealed = {} /\ grades = {} /\ board = {}

\* A benchmark is sealed once.
Seal(v, s) ==
  /\ \A c \in sealed : c[1] # v
  /\ sealed' = sealed \cup {<<v, s>>}
  /\ UNCHANGED <<grades, board>>

\* All items of the committed set are graded, num of them as correct.
Grade(v, s, num) ==
  /\ <<v, s>> \in sealed
  /\ num <= ItemCount[s]
  /\ grades' = grades \cup
       {[eval |-> v, set |-> s, num |-> num, den |-> ItemCount[s]]}
  /\ UNCHANGED <<sealed, board>>

\* A grade that exists goes on the board under a fresh entry id.
Publish(i, g) ==
  /\ \A b \in board : b[1] # i
  /\ board' = board \cup {<<i, g>>}
  /\ UNCHANGED <<sealed, grades>>

Next ==
  \/ \E v \in EvalIds, s \in Sets : Seal(v, s)
  \/ \E v \in EvalIds, s \in Sets :
        \E num \in 0..ItemCount[s] : Grade(v, s, num)
  \/ \E i \in EntryIds, g \in grades : Publish(i, g)

Spec == Init /\ [][Next]_boardVars

=============================================================================
