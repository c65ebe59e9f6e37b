------------------------------ MODULE BulkPanel ------------------------------
(***************************************************************************)
(* The admin console's panel of bulk jobs: it queues jobs, shows the latest*)
(* ones and asks for them anew every five seconds, as long as one of those *)
(* it shows is not finished.                                               *)
(*                                                                         *)
(* The life of a job is three states here: BulkJobs has what happens in    *)
(* them.  A job that is retried is left out (the panel cannot), and so are *)
(* its filters, the drawer with a job's details and the form's contents.   *)
(***************************************************************************)
EXTENDS Naturals, FiniteSets

CONSTANTS
  MaxJobs,     \* jobs are numbered as their rows are made
  Limit,       \* how many of them a list has: the latest (50 in the code)
  Calls,
  MaxFailures

PanelAssumption == {MaxJobs, MaxFailures} \subseteq Nat /\ Limit \in Nat \ {0}

VARIABLES
  jobs,       \* the status of each row
  queued,     \* jobs the workers have in their queue, or had
  shown,      \* what the panel shows: the status of some jobs
  calls,      \* requests in flight
  failures,
  told,       \* history: jobs whose POST was answered to the panel
  missed      \* history: jobs a list left out that was taken up after that

vars == <<jobs, queued, shown, calls, failures, told, missed>>

Jobs == 1..MaxJobs
Made == {j \in Jobs : jobs[j] # "unborn"}

Idle == [what |-> "nothing"]
Becomes(k, call) == calls' = [calls EXCEPT ![k] = call]

(* listBulkJobsForSuperAdmin *)
Latest == {j \in Made : Cardinality({i \in Made : i > j}) < Limit}
Listed == [j \in Latest |-> jobs[j]]

Nothing == [j \in {} |-> "unborn"]
ListCall == [what |-> "list", pressed |-> FALSE, read |-> FALSE, list |-> Nothing]

(* A list comes to its end, which enables the Refresh button (isRefreshing) *)
(* whichever list it was pressed for.                                       *)
EndList(k) ==
  calls' = [j \in Calls |->
    IF j = k THEN Idle
    ELSE IF calls[j].what = "list" THEN [calls[j] EXCEPT !.pressed = FALSE] ELSE calls[j]]

(* hasInFlightJobs *)
InFlight == \E j \in DOMAIN shown : shown[j] \in {"PENDING", "RUNNING"}

-----------------------------------------------------------------------------
(* The panel *)

(* handleSubmit.  The button is disabled only as long as the handler runs,  *)
(* not as the request does: pressed twice, it queues two jobs.              *)
Submit(k) ==
  /\ calls[k] = Idle
  /\ Cardinality(Jobs \ Made) > Cardinality({i \in Calls : calls[i].what = "post" /\ calls[i].job = 0})
  /\ Becomes(k, [what |-> "post", job |-> 0])
  /\ UNCHANGED <<jobs, queued, shown, failures, told, missed>>

(* The timer: the answers before need not be there. *)
Poll(k) ==
  /\ calls[k] = Idle /\ InFlight
  /\ Becomes(k, ListCall)
  /\ UNCHANGED <<jobs, queued, shown, failures, told, missed>>

(* The Refresh button *)
Refresh(k) ==
  /\ calls[k] = Idle
  /\ \A j \in Calls : calls[j].what = "list" => ~ calls[j].pressed
  /\ Becomes(k, [ListCall EXCEPT !.pressed = TRUE])
  /\ UNCHANGED <<jobs, queued, shown, failures, told, missed>>

(* refreshJobs, the answer.  A list that was read before a job's row was    *)
(* made does not have it, and neither has one that is too long.             *)
TakeList(k) ==
  /\ calls[k].what = "list" /\ calls[k].read
  /\ shown' = calls[k].list
  /\ missed' = missed \cup (told \ DOMAIN shown')
  /\ EndList(k)
  /\ UNCHANGED <<jobs, queued, failures, told>>

(* Mutant: the new job is left to the list that follows. *)
TakePostAlone(k) ==
  /\ calls[k].what = "post" /\ calls[k].job # 0
  /\ told' = told \cup {calls[k].job}
  /\ Becomes(k, ListCall)
  /\ UNCHANGED <<jobs, queued, shown, failures, missed>>

(* handleSubmit, the answer: the job as it was made is put before the       *)
(* others, whatever was known of it, and a list is asked for.               *)
TakePost(k) ==
  /\ calls[k].what = "post" /\ calls[k].job # 0
  /\ LET job == calls[k].job IN
       /\ shown' = [j \in DOMAIN shown \cup {job} |-> IF j = job THEN "PENDING" ELSE shown[j]]
       /\ told' = told \cup {job}
  /\ Becomes(k, ListCall)
  /\ UNCHANGED <<jobs, queued, failures, missed>>

(* A request fails, or its answer is lost. *)
Fail(k) ==
  /\ calls[k] # Idle
  /\ failures < MaxFailures /\ failures' = failures + 1
  /\ IF calls[k].what = "list" THEN EndList(k) ELSE Becomes(k, Idle)
  /\ UNCHANGED <<jobs, queued, shown, told, missed>>

-----------------------------------------------------------------------------
(* The service *)

NextRow == CHOOSE j \in Jobs : j \notin Made /\ \A i \in 1..(j - 1) : i \in Made

(* POST /super-admin/bulk-jobs: the row, and the queue. *)
ServePost(k) ==
  /\ calls[k].what = "post" /\ calls[k].job = 0
  /\ jobs' = [jobs EXCEPT ![NextRow] = "PENDING"]
  /\ queued' = queued \cup {NextRow}
  /\ Becomes(k, [calls[k] EXCEPT !.job = NextRow])
  /\ UNCHANGED <<shown, failures, told, missed>>

(* An error after the row is made and before it is queued: nothing will     *)
(* ever be done about the row, and the list keeps showing it.               *)
ServePostHalf(k) ==
  /\ calls[k].what = "post" /\ calls[k].job = 0
  /\ failures < MaxFailures /\ failures' = failures + 1
  /\ jobs' = [jobs EXCEPT ![NextRow] = "PENDING"]
  /\ Becomes(k, Idle)
  /\ UNCHANGED <<queued, shown, told, missed>>

(* GET /super-admin/bulk-jobs *)
ServeList(k) ==
  /\ calls[k].what = "list" /\ ~ calls[k].read
  /\ Becomes(k, [calls[k] EXCEPT !.read = TRUE, !.list = Listed])
  /\ UNCHANGED <<jobs, queued, shown, failures, told, missed>>

(* The workers *)
Work(j) ==
  /\ j \in queued /\ jobs[j] \in {"PENDING", "RUNNING"}
  /\ \/ jobs[j] = "PENDING" /\ jobs' = [jobs EXCEPT ![j] = "RUNNING"]
     \/ jobs[j] = "RUNNING" /\ jobs' = [jobs EXCEPT ![j] = "finished"]
  /\ UNCHANGED <<queued, shown, calls, failures, told, missed>>

-----------------------------------------------------------------------------
(* The page is opened: its first list comes with it, or could not be read.  *)
Init ==
  /\ jobs \in {[j \in Jobs |-> "unborn"], [j \in Jobs |-> IF j = 1 THEN "RUNNING" ELSE "unborn"]}
  /\ queued = Made
  /\ shown \in {Listed, Nothing}
  /\ calls = [k \in Calls |-> Idle]
  /\ failures = 0 /\ told = {} /\ missed = {}

Answers(k) == TakeList(k) \/ TakePost(k) \/ ServePost(k) \/ ServeList(k)
Polls == \E k \in Calls : Poll(k)

Next ==
  \/ \E k \in Calls : Submit(k) \/ Refresh(k) \/ Answers(k) \/ Fail(k) \/ ServePostHalf(k)
  \/ Polls
  \/ \E j \in Jobs : Work(j)

Spec == Init /\ [][Next]_vars

(* Workers work, the timer runs, and what is asked is answered. *)
Fairness ==
  /\ \A j \in Jobs : WF_vars(Work(j))
  /\ \A k \in Calls : WF_vars(Answers(k))
  /\ SF_vars(Polls)

FairSpec == Spec /\ Fairness

-----------------------------------------------------------------------------
(* A job the panel has queued is followed to its end: the panel comes to    *)
(* show it finished, unless a list that did not have it (one read before    *)
(* the job was made and taken up after it, or one too long) took it away,   *)
(* and with it the reason to ask again.  (docs/operations/runbooks/         *)
(* identity.md: "the admin console polls for progress".)                    *)
JobsAreFollowed ==
  \A j \in Jobs : j \in told ~> (j \in missed \/ (j \in DOMAIN shown /\ shown[j] = "finished"))
=============================================================================
