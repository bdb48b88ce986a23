------------------------------- MODULE RunJobs -------------------------------
(***************************************************************************)
(* Runs started from the browser: the run panel, the two API routes, the   *)
(* in-memory job store of the web server and the evaluate-and-post child   *)
(* processes it spawns.                                                    *)
(*                                                                         *)
(* A child's output matters only for the ids of the posted score, which it *)
(* prints last: they reach the server in one chunk or cut in two by the    *)
(* pipe, and the log joins chunks with a newline.                          *)
(***************************************************************************)
EXTENDS Naturals

CONSTANTS
  Jobs,       \* job ids the server draws (bound)
  Polls,      \* polls that may be in flight at once (bound)
  None,       \* no value
  Restarts,   \* whether the web server may restart
  Cuts        \* whether the pipe may cut the last output in two

ASSUME RunJobsAssumption ==
  /\ None \notin Jobs
  /\ Restarts \in BOOLEAN
  /\ Cuts \in BOOLEAN

VARIABLES
  store,      \* runJobs: what the server knows of each job
  child,      \* the child process of each job
  panel,      \* the React state: the job shown and the state of the start
  start,      \* the POST in flight
  polls       \* the GETs in flight

vars == <<store, child, panel, start, polls>>

Statuses == {"queued", "running", "complete", "failed"}
Links == {"none", "damaged", "intact"}

\* A job as the store holds it and the API copies it.  NoJob is an unknown
\* id in the store, a 404 in a reply, nothing shown in the panel.
JobRecord == [id : Jobs, status : Statuses, links : Links]
NoJob == [id |-> None, status |-> "none", links |-> "none"]

Active(job) == job.status \in {"queued", "running"}
Terminal(job) == job.status \in {"complete", "failed"}

NoChild == [state |-> "none", output |-> "nothing"]
NoStart == [stage |-> "none", reply |-> NoJob]
NoPoll == [job |-> None, stage |-> "free", reply |-> NoJob]

\* The types; a panel that shows nothing has asked for nothing.
TypeOK ==
  /\ store \in [Jobs -> JobRecord \cup {NoJob}]
  /\ child \in [Jobs ->
       [state : {"none", "missing", "running", "exited", "crashed", "closed"},
        output : {"nothing", "whole", "cut"}]]
  /\ panel \in [job : JobRecord \cup {NoJob},
                state : {"idle", "starting", "error"}]
  /\ start \in [stage : {"none", "asked", "answered"},
                reply : JobRecord \cup {NoJob}]
  /\ polls \in [Polls -> [job : Jobs \cup {None},
                          stage : {"free", "sent", "answered"},
                          reply : JobRecord \cup {NoJob}]]
  /\ \A p \in Polls : polls[p] # NoPoll => panel.job # NoJob

Init ==
  /\ store = [j \in Jobs |-> NoJob]
  /\ child = [j \in Jobs |-> NoChild]
  /\ panel = [job |-> NoJob, state |-> "idle"]
  /\ start = NoStart
  /\ polls = [p \in Polls |-> NoPoll]

-----------------------------------------------------------------------------
(* The server.                                                             *)

Known(j) == store[j] # NoJob
Unused(j) == ~Known(j) /\ child[j] = NoChild

\* POST /api/evaluations/run: create, markRunning and spawn run to completion
\* before the answer is made, so no one sees the job "queued".  A child that
\* cannot be spawned says so in a later event.
HandleStart(j) ==
  /\ start.stage = "asked"
  /\ Unused(j)
  /\ LET job == [id |-> j, status |-> "running", links |-> "none"]
     IN /\ store' = [store EXCEPT ![j] = job]
        /\ start' = [stage |-> "answered", reply |-> job]
  /\ \E state \in {"running", "missing"} :
        child' = [child EXCEPT ![j].state = state]
  /\ UNCHANGED <<panel, polls>>

\* Runs are not enabled, or the request or its answer is lost on the way.
RefuseStart ==
  /\ start.stage = "asked"
  /\ start' = [stage |-> "answered", reply |-> NoJob]
  /\ UNCHANGED <<store, child, panel, polls>>

\* The child posts its score, prints the ids and exits with 0.
ChildPosts(j) ==
  /\ child[j].state = "running"
  /\ \E output \in IF Cuts THEN {"whole", "cut"} ELSE {"whole"} :
        child' = [child EXCEPT ![j] = [state |-> "exited", output |-> output]]
  /\ UNCHANGED <<store, panel, start, polls>>

\* It exits with another code.
ChildCrashes(j) ==
  /\ child[j].state = "running"
  /\ child' = [child EXCEPT ![j].state = "crashed"]
  /\ UNCHANGED <<store, panel, start, polls>>

\* child.on("error"): fail, and the close event still follows.
ChildErrors(j) ==
  /\ child[j].state = "missing"
  /\ Known(j)
  /\ store' = [store EXCEPT ![j].status = "failed"]
  /\ child' = [child EXCEPT ![j].state = "crashed"]
  /\ UNCHANGED <<panel, start, polls>>

\* extractPostScoreResult over the joined log: a match in a cut line takes in
\* the newline, or there is none.
LinksOf(output) ==
  IF output = "whole" THEN "intact"
  ELSE IF output = "cut" THEN "damaged" ELSE "none"

\* The status a close event leaves.  Mutants: the exit code is not looked at;
\* another code than 0 is not recorded.
AlwaysComplete(j) == "complete"
FailureUnmarked(j) ==
  IF child[j].state = "exited" THEN "complete" ELSE "running"
StatusAtClose(j) ==
  IF child[j].state = "exited" THEN "complete" ELSE "failed"

\* child.on("close"), after all output has been appended.  Nobody listens for
\* a child the server before a restart has spawned.
ChildCloses(j) ==
  /\ Known(j)
  /\ child[j].state \in {"exited", "crashed"}
  /\ store' = [store EXCEPT ![j].status = StatusAtClose(j),
                            ![j].links = LinksOf(child[j].output)]
  /\ child' = [child EXCEPT ![j].state = "closed"]
  /\ UNCHANGED <<panel, start, polls>>

\* The store is a map in the process's memory.
Restart ==
  /\ Restarts
  /\ store' = [j \in Jobs |-> NoJob]
  /\ start' = IF start.stage = "asked"
              THEN [stage |-> "answered", reply |-> NoJob] ELSE start
  /\ UNCHANGED <<child, panel, polls>>

-----------------------------------------------------------------------------
(* The panel.                                                              *)

Disabled == panel.state = "starting" \/ Active(panel.job)

\* startRun, up to the POST.
ClickRun ==
  /\ ~Disabled
  /\ \E j \in Jobs : Unused(j)
  /\ panel' = [panel EXCEPT !.state = "starting"]
  /\ start' = [stage |-> "asked", reply |-> NoJob]
  /\ UNCHANGED <<store, child, polls>>

\* startRun, from the answer on.
ReceiveStart ==
  /\ start.stage = "answered"
  /\ panel' = IF start.reply = NoJob THEN [panel EXCEPT !.state = "error"]
              ELSE [job |-> start.reply, state |-> "idle"]
  /\ start' = NoStart
  /\ UNCHANGED <<store, child, polls>>

\* The interval fires while an active job is shown; it does not wait for the
\* poll before it.
Poll(p) ==
  /\ Active(panel.job)
  /\ polls[p] = NoPoll
  /\ polls' = [polls EXCEPT ![p].job = panel.job.id, ![p].stage = "sent"]
  /\ UNCHANGED <<store, child, panel, start>>

\* GET /api/evaluations/jobs/[id].
AnswerPoll(p) ==
  /\ polls[p].stage = "sent"
  /\ polls' = [polls EXCEPT ![p].stage = "answered",
                            ![p].reply = store[polls[p].job]]
  /\ UNCHANGED <<store, child, panel, start>>

\* The job the panel shows after a reply: nothing relates the reply to the
\* job now shown.  Mutants: a finished job is dropped; a 404 is taken for one.
KeepActive(reply) == IF Active(reply) THEN reply ELSE panel.job
ShowReply(reply) == reply
ShownAfter(reply) == IF reply = NoJob THEN panel.job ELSE reply

ReceivePoll(p) ==
  /\ polls[p].stage = "answered"
  /\ panel' = [panel EXCEPT !.job = ShownAfter(polls[p].reply)]
  /\ polls' = [polls EXCEPT ![p] = NoPoll]
  /\ UNCHANGED <<store, child, start>>

\* A request fails: the timer callback's rejection is dropped.
LosePoll(p) ==
  /\ polls[p] # NoPoll
  /\ polls' = [polls EXCEPT ![p] = NoPoll]
  /\ UNCHANGED <<store, child, panel, start>>

-----------------------------------------------------------------------------

ChildEnds(j) == ChildPosts(j) \/ ChildCrashes(j) \/ ChildErrors(j)
AnswerStart == RefuseStart \/ \E j \in Jobs : HandleStart(j)

Next ==
  \/ \E j \in Jobs : ChildEnds(j) \/ ChildCloses(j)
  \/ AnswerStart \/ Restart
  \/ ClickRun \/ ReceiveStart
  \/ \E p \in Polls : Poll(p) \/ AnswerPoll(p) \/ ReceivePoll(p) \/ LosePoll(p)

Spec == Init /\ [][Next]_vars

\* A run ends (RunsEnd of ScorePipeline), the server's event loop and the
\* browser's timer keep going, and not every poll is lost.
Fairness ==
  /\ \A j \in Jobs : WF_vars(ChildEnds(j)) /\ WF_vars(ChildCloses(j))
  /\ WF_vars(AnswerStart)
  /\ WF_vars(ReceiveStart)
  /\ \A p \in Polls :
       /\ WF_vars(Poll(p))
       /\ SF_vars(AnswerPoll(p))
       /\ SF_vars(ReceivePoll(p))

FairSpec == Spec /\ Fairness

-----------------------------------------------------------------------------
(* Properties.                                                             *)

\* Whatever polls are delayed, overtaken or answered by a server that has
\* forgotten the job: the panel says "complete" only of a run whose child has
\* posted its score.
ShownCompleteIsPosted ==
  panel.job.status = "complete" => child[panel.job.id].output # "nothing"

\* The error and close events of one child, in either order, never take a
\* finished job back, and only a restart forgets one.
FinishedStaysFinished ==
  [][\A j \in Jobs :
       Terminal(store[j]) => store'[j].status \in {store[j].status, "none"}]_vars

\* The panel does not go on saying "Running..." of a job the server still
\* knows: the poll that brings its end is eventually taken, though replies
\* overtake each other, may be lost and may tell of the job before.
PanelSettles == Active(panel.job) ~> ~(Active(panel.job) /\ Known(panel.job.id))

\* "The browser receives job logs and final proof links": a run the panel has
\* been told of, once posted, is eventually shown with the ids of its score.
FinalLinksShown ==
  \A j \in Jobs :
    (panel.job.id = j /\ child[j].output # "nothing")
      ~> (panel.job.id = j /\ panel.job.links = "intact")
=============================================================================
