----------------------------- MODULE RunJobsProofs -----------------------------
(***************************************************************************)
(* Proofs about the browser's runs: the types, what "complete" may be said *)
(* of, and that a finished job stays finished, for any number of jobs,     *)
(* polls in flight, restarts and cuts.                                     *)
(***************************************************************************)
EXTENDS RunJobs, TLAPS

\* Said of a copy of a job, wherever it is: it is "complete" only if the child
\* of that very job has posted.
Honest(job) ==
  job.status = "complete" => job.id \in Jobs /\ child[job.id].output # "nothing"

\* A known job carries its own id, and its status agrees with what its child
\* has gone through: the events that set it are the child's last two.
StoreAgrees ==
  \A j \in Jobs :
    /\ Known(j) => store[j].id = j
    /\ store[j].status = "complete" => child[j].state = "closed"
    /\ store[j].status = "failed" => child[j].state \in {"crashed", "closed"}
    /\ child[j].state = "exited" => child[j].output # "nothing"

CopiesHonest ==
  /\ \A j \in Jobs : Honest(store[j])
  /\ Honest(start.reply)
  /\ Honest(panel.job)
  /\ \A p \in Polls : Honest(polls[p].reply)

SentPollsNameJobs == \A p \in Polls : polls[p].stage = "sent" => polls[p].job \in Jobs

RunJobsInv == TypeOK /\ StoreAgrees /\ CopiesHonest /\ SentPollsNameJobs

USE DEF Statuses, Links, JobRecord, NoJob, NoChild, NoStart, NoPoll

LEMMA RunJobsInitInv == Init => RunJobsInv
BY RunJobsAssumption
   DEF Init, RunJobsInv, TypeOK, StoreAgrees, CopiesHonest, SentPollsNameJobs, Honest,
       Known

Copies == JobRecord \cup {NoJob}
PollRecord == [job : Jobs \cup {None}, stage : {"free", "sent", "answered"}, reply : Copies]

LEMMA PollAnswered ==
  ASSUME NEW copy \in Copies, NEW poll \in PollRecord
  PROVE  [poll EXCEPT !.stage = "answered", !.reply = copy] \in PollRecord
BY DEF PollRecord

\* Every step keeps the types.
LEMMA NextTyped ==
  ASSUME TypeOK, SentPollsNameJobs, [Next]_vars
  PROVE  TypeOK' /\ SentPollsNameJobs'
<1> USE DEF TypeOK, SentPollsNameJobs
<1>a. ASSUME NEW j \in Jobs, HandleStart(j)
     PROVE  TypeOK' /\ SentPollsNameJobs'
  BY <1>a, RunJobsAssumption DEF HandleStart, Active, Unused, Known
<1>b. CASE RefuseStart
  BY <1>b, RunJobsAssumption DEF RefuseStart
<1>c. ASSUME NEW j \in Jobs, ChildPosts(j)
     PROVE  TypeOK' /\ SentPollsNameJobs'
  BY <1>c, RunJobsAssumption DEF ChildPosts
<1>d. ASSUME NEW j \in Jobs, ChildCrashes(j)
     PROVE  TypeOK' /\ SentPollsNameJobs'
  BY <1>d, RunJobsAssumption DEF ChildCrashes
<1>e. ASSUME NEW j \in Jobs, ChildErrors(j)
     PROVE  TypeOK' /\ SentPollsNameJobs'
  <2>1. store[j] \in JobRecord
    BY <1>e DEF ChildErrors, Known
  <2>2. [store[j] EXCEPT !.status = "failed"] \in JobRecord
    BY <2>1
  <2> QED
    BY <1>e, <2>2 DEF ChildErrors
<1>f. ASSUME NEW j \in Jobs, ChildCloses(j)
     PROVE  TypeOK' /\ SentPollsNameJobs'
  <2> DEFINE job == [store[j] EXCEPT !.status = StatusAtClose(j),
                                     !.links = LinksOf(child[j].output)]
  <2>1. store[j] \in JobRecord
    BY <1>f DEF ChildCloses, Known
  <2>2. job \in JobRecord
    BY <2>1 DEF StatusAtClose, LinksOf
  <2>3. store' = [store EXCEPT ![j] = job]
    BY <1>f DEF ChildCloses
  <2> QED
    BY <1>f, <2>2, <2>3 DEF ChildCloses
<1>g. CASE Restart
  BY <1>g, RunJobsAssumption DEF Restart
<1>h. CASE ClickRun
  BY <1>h, RunJobsAssumption DEF ClickRun
<1>i. CASE ReceiveStart
  BY <1>i, RunJobsAssumption DEF ReceiveStart
<1>j. ASSUME NEW p \in Polls, Poll(p)
     PROVE  TypeOK' /\ SentPollsNameJobs'
  BY <1>j, RunJobsAssumption DEF Poll, Active
<1>k. ASSUME NEW p \in Polls, AnswerPoll(p)
     PROVE  TypeOK' /\ SentPollsNameJobs'
  <2>1. polls[p].job \in Jobs /\ polls[p] # NoPoll
    BY <1>k DEF AnswerPoll
  <2>2. store[polls[p].job] \in JobRecord \cup {NoJob}
    BY <2>1
  <2> QED
    <3>1. polls'[p] = [polls[p] EXCEPT !.stage = "answered",
                                       !.reply = store[polls[p].job]]
      BY <1>k DEF AnswerPoll
    <3>2. polls[p] \in PollRecord /\ store[polls[p].job] \in Copies
      BY <2>2 DEF PollRecord, Copies
    <3>3. \A q \in Polls \ {p} : polls'[q] = polls[q]
      BY <1>k DEF AnswerPoll
    <3>4. polls'[p].stage = "answered" /\ polls'[p] \in PollRecord
      BY <3>1, <3>2, PollAnswered DEF PollRecord
    <3>5. polls' \in [Polls -> PollRecord]
      BY <1>k, <3>3, <3>4 DEF AnswerPoll, PollRecord, Copies
    <3> QED
      BY <1>k, <2>1, <3>3, <3>4, <3>5 DEF AnswerPoll, PollRecord, Copies
<1>l. ASSUME NEW p \in Polls, ReceivePoll(p)
     PROVE  TypeOK' /\ SentPollsNameJobs'
  <2>1. ShownAfter(polls[p].reply) \in JobRecord \cup {NoJob}
    BY DEF ShownAfter
  <2>2. /\ panel' \in [job : JobRecord \cup {NoJob}, state : {"idle", "starting", "error"}]
        /\ panel.job # NoJob => panel'.job # NoJob
    BY <1>l, <2>1 DEF ReceivePoll, ShownAfter
  <2> QED
    BY <1>l, <2>2 DEF ReceivePoll
<1>m. ASSUME NEW p \in Polls, LosePoll(p)
     PROVE  TypeOK' /\ SentPollsNameJobs'
  BY <1>m, RunJobsAssumption DEF LosePoll
<1>n. CASE UNCHANGED vars
  BY <1>n, RunJobsAssumption DEF vars
<1> QED
  BY <1>a, <1>b, <1>c, <1>d, <1>e, <1>f, <1>g, <1>h, <1>i, <1>j, <1>k, <1>l, <1>m, <1>n
     DEF Next, ChildEnds, AnswerStart

\* Every step keeps the store and the children in agreement.
LEMMA NextAgrees ==
  ASSUME TypeOK, StoreAgrees, [Next]_vars
  PROVE  StoreAgrees'
<1> USE DEF TypeOK, StoreAgrees, Known
<1>a. ASSUME NEW j \in Jobs, HandleStart(j)
     PROVE  StoreAgrees'
  BY <1>a DEF HandleStart, Active, Unused, Known
<1>b. CASE RefuseStart
  BY <1>b DEF RefuseStart
<1>c. ASSUME NEW j \in Jobs, ChildPosts(j)
     PROVE  StoreAgrees'
  BY <1>c DEF ChildPosts
<1>d. ASSUME NEW j \in Jobs, ChildCrashes(j)
     PROVE  StoreAgrees'
  BY <1>d DEF ChildCrashes
<1>e. ASSUME NEW j \in Jobs, ChildErrors(j)
     PROVE  StoreAgrees'
  BY <1>e DEF ChildErrors, Known
<1>f. ASSUME NEW j \in Jobs, ChildCloses(j)
     PROVE  StoreAgrees'
  BY <1>f DEF ChildCloses, StatusAtClose, LinksOf, Known
<1>g. CASE Restart
  BY <1>g DEF Restart
<1>h. CASE ClickRun
  BY <1>h DEF ClickRun
<1>i. CASE ReceiveStart
  BY <1>i DEF ReceiveStart
<1>j. ASSUME NEW p \in Polls, Poll(p)
     PROVE  StoreAgrees'
  BY <1>j DEF Poll, Active
<1>k. ASSUME NEW p \in Polls, AnswerPoll(p)
     PROVE  StoreAgrees'
  BY <1>k DEF AnswerPoll
<1>l. ASSUME NEW p \in Polls, ReceivePoll(p)
     PROVE  StoreAgrees'
  BY <1>l DEF ReceivePoll, ShownAfter
<1>m. ASSUME NEW p \in Polls, LosePoll(p)
     PROVE  StoreAgrees'
  BY <1>m DEF LosePoll
<1>n. CASE UNCHANGED vars
  BY <1>n DEF vars
<1> QED
  BY <1>a, <1>b, <1>c, <1>d, <1>e, <1>f, <1>g, <1>h, <1>i, <1>j, <1>k, <1>l, <1>m, <1>n
     DEF Next, ChildEnds, AnswerStart

\* An output, once printed, is not taken back; so what has been truthfully
\* said of a job stays true in the copies a step leaves alone.
OutputsStay ==
  \A j \in Jobs : child[j].output # "nothing" => child'[j].output # "nothing"

LEMMA NextOutputs ==
  ASSUME TypeOK, [Next]_vars
  PROVE  OutputsStay
<1> USE DEF TypeOK, OutputsStay
<1>1. ASSUME NEW j \in Jobs, HandleStart(j)
      PROVE  OutputsStay
  BY <1>1 DEF HandleStart
<1>2. ASSUME NEW j \in Jobs, ChildEnds(j) \/ ChildCloses(j)
      PROVE  OutputsStay
  <2>1. CASE ChildPosts(j)
    <3>1. PICK output \in {"whole", "cut"} :
            child' = [child EXCEPT ![j] = [state |-> "exited", output |-> output]]
      BY <2>1 DEF ChildPosts
    <3> QED
      BY <3>1
  <2>2. CASE ChildCrashes(j) \/ ChildErrors(j) \/ ChildCloses(j)
    <3>1. PICK state \in {"crashed", "closed"} : child' = [child EXCEPT ![j].state = state]
      BY <2>2 DEF ChildCrashes, ChildErrors, ChildCloses
    <3> QED
      BY <3>1
  <2> QED
    BY <1>2, <2>1, <2>2 DEF ChildEnds
<1>3. CASE UNCHANGED child
  BY <1>3
<1> QED
  BY <1>1, <1>2, <1>3 DEF Next, AnswerStart, RefuseStart, Restart, ClickRun,
     ReceiveStart, Poll, AnswerPoll, ReceivePoll, LosePoll, vars

LEMMA NextHonest ==
  ASSUME RunJobsInv, [Next]_vars
  PROVE  CopiesHonest'
<1> USE DEF RunJobsInv, Honest
<1>0. OutputsStay
  BY NextOutputs
<1>1. ASSUME NEW j \in Jobs PROVE Honest(store[j])'
  <2>1. CASE store'[j] \in {store[j], NoJob}
    BY <1>0, <2>1 DEF CopiesHonest, OutputsStay
  <2>2. CASE HandleStart(j)
    BY <2>2 DEF HandleStart, TypeOK
  <2>3. CASE ChildErrors(j)
    BY <2>3 DEF ChildErrors, TypeOK, Known
  <2>4. CASE ChildCloses(j)
    BY <2>4 DEF ChildCloses, TypeOK, Known, StatusAtClose, StoreAgrees
  <2> QED
    BY <2>1, <2>2, <2>3, <2>4 DEF Next, ChildEnds, ChildPosts, ChildCrashes,
       ChildErrors, ChildCloses, AnswerStart, HandleStart, RefuseStart, Restart,
       ClickRun, ReceiveStart, Poll, AnswerPoll, ReceivePoll, LosePoll, vars, TypeOK
<1>2. Honest(start.reply)'
  <2>1. CASE start'.reply \in {start.reply, NoJob}
    BY <1>0, <2>1 DEF CopiesHonest, OutputsStay
  <2>2. ASSUME NEW j \in Jobs, HandleStart(j) PROVE Honest(start.reply)'
    BY <2>2 DEF HandleStart, TypeOK
  <2>3. CASE RefuseStart \/ Restart \/ ClickRun \/ ReceiveStart
    BY <2>1, <2>3 DEF RefuseStart, Restart, ClickRun, ReceiveStart, TypeOK
  <2>4. CASE UNCHANGED start
    BY <2>1, <2>4
  <2> QED
    BY <2>2, <2>3, <2>4 DEF Next, ChildEnds, ChildPosts, ChildCrashes, ChildErrors,
       ChildCloses, AnswerStart, Poll, AnswerPoll, ReceivePoll, LosePoll, vars
<1>3. Honest(panel.job)'
  <2>1. panel'.job = panel.job \/ panel'.job = start.reply
          \/ \E p \in Polls : panel'.job = polls[p].reply
    <3>1. CASE ClickRun \/ ReceiveStart
      BY <3>1 DEF ClickRun, ReceiveStart, TypeOK
    <3>2. ASSUME NEW p \in Polls, ReceivePoll(p)
          PROVE  panel'.job = panel.job \/ panel'.job = polls[p].reply
      BY <3>2 DEF ReceivePoll, ShownAfter, TypeOK
    <3>3. CASE UNCHANGED panel
      BY <3>3
    <3> QED
      BY <3>1, <3>2, <3>3 DEF Next, ChildEnds, ChildPosts, ChildCrashes, ChildErrors,
         ChildCloses, AnswerStart, HandleStart, RefuseStart, Restart, Poll, AnswerPoll,
         LosePoll, vars
  <2> QED
    BY <1>0, <2>1 DEF CopiesHonest, OutputsStay
<1>4. ASSUME NEW p \in Polls PROVE Honest(polls[p].reply)'
  <2>1. polls'[p].reply \in {polls[p].reply, NoJob}
          \/ \E j \in Jobs : polls'[p].reply = store[j]
    <3>1. ASSUME NEW q \in Polls, Poll(q) \/ ReceivePoll(q) \/ LosePoll(q)
          PROVE  polls'[p].reply \in {polls[p].reply, NoJob}
      <4>1. CASE q = p
        BY <3>1, <4>1 DEF Poll, ReceivePoll, LosePoll, TypeOK
      <4>2. CASE q # p
        BY <3>1, <4>2 DEF Poll, ReceivePoll, LosePoll, TypeOK
      <4> QED
        BY <4>1, <4>2
    <3>2. ASSUME NEW q \in Polls, AnswerPoll(q)
          PROVE  polls'[p].reply = polls[p].reply \/ polls'[p].reply = store[polls[q].job]
      BY <3>2 DEF AnswerPoll, TypeOK
    <3>3. ASSUME NEW q \in Polls, AnswerPoll(q)
          PROVE  polls[q].job \in Jobs
      BY <3>3 DEF AnswerPoll, SentPollsNameJobs
    <3>4. CASE UNCHANGED polls
      BY <3>4
    <3> QED
      BY <3>1, <3>2, <3>3, <3>4 DEF Next, ChildEnds, ChildPosts, ChildCrashes, ChildErrors,
         ChildCloses, AnswerStart, HandleStart, RefuseStart, Restart, ClickRun,
         ReceiveStart, vars
  <2> QED
    BY <1>0, <2>1 DEF CopiesHonest, OutputsStay
<1> QED
  BY <1>1, <1>2, <1>3, <1>4 DEF CopiesHonest

LEMMA NextInv == RunJobsInv /\ [Next]_vars => RunJobsInv'
BY NextTyped, NextAgrees, NextHonest DEF RunJobsInv

\* The inductive invariant holds of every behaviour of the server and panels.
THEOREM JobsInvariant == Spec => []RunJobsInv
<1> QED
  BY RunJobsInitInv, NextInv, PTL DEF Spec

\* The job store, the children, the panel and the requests in flight keep
\* their types, and a panel that shows nothing has asked for nothing.
THEOREM JobsTyped == Spec => []TypeOK
BY JobsInvariant, PTL DEF RunJobsInv

\* However polls are delayed, overtaken or answered by a server that has
\* forgotten the job, a run shown "complete" has posted its score.
THEOREM CompleteMeansPosted == Spec => []ShownCompleteIsPosted
<1>1. RunJobsInv => ShownCompleteIsPosted
  BY DEF RunJobsInv, CopiesHonest, Honest, ShownCompleteIsPosted
<1> QED
  BY <1>1, JobsInvariant, PTL

\* The error and close events of a child never take a finished job back: only
\* its first start gives it the status "running", and a job whose child may
\* still report has not finished, or has failed and will be found to again.
THEOREM FinishedIsFinal == Spec => FinishedStaysFinished
<1>1. ASSUME RunJobsInv, [Next]_vars, NEW j \in Jobs, Terminal(store[j])
      PROVE  store'[j].status \in {store[j].status, "none"}
  <2> USE <1>1 DEF RunJobsInv
  <2>1. ASSUME NEW i \in Jobs, HandleStart(i)
        PROVE  store'[j] = store[j]
    BY <2>1 DEF HandleStart, Unused, Known, Terminal, TypeOK
  <2>2. ASSUME NEW i \in Jobs, ChildErrors(i)
        PROVE  store'[j].status = store[j].status
    BY <2>2 DEF ChildErrors, Terminal, StoreAgrees, TypeOK
  <2>3. ASSUME NEW i \in Jobs, ChildCloses(i)
        PROVE  store'[j].status = store[j].status
    BY <2>3 DEF ChildCloses, StatusAtClose, Terminal, StoreAgrees, TypeOK, Known
  <2>4. CASE store'[j] \in {store[j], NoJob}
    BY <2>4
  <2> QED
    BY <2>1, <2>2, <2>3, <2>4 DEF Next, ChildEnds, ChildPosts, ChildCrashes, AnswerStart,
       RefuseStart, Restart, ClickRun, ReceiveStart, Poll, AnswerPoll, ReceivePoll,
       LosePoll, vars
<1>2. RunJobsInv /\ [Next]_vars
        => [\A j \in Jobs :
              Terminal(store[j]) => store'[j].status \in {store[j].status, "none"}]_vars
  BY <1>1
<1> QED
  BY <1>2, JobsInvariant, PTL DEF Spec, FinishedStaysFinished

=============================================================================
