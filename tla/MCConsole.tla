------------------------------ MODULE MCConsole ------------------------------
(* The super administrators' services and pages for TLC, one at a time: the *)
(* impersonation routes, the console's tabs and its panel of bulk jobs.     *)
(* They share nothing; focus says which one moves.                          *)
EXTENDS Impersonation

CONSTANTS ann, tab1, tab2, NoTab, k1, k2

VARIABLES
  focus,
  tSessions, tDue, tStorage, tTabs, tCalls, tReloads, tFailures, tTold, tExcuses,
  pJobs, pQueued, pShown, pCalls, pFailures, pTold, pMissed

Tabs == INSTANCE ImpersonationConsole WITH
  Tabs <- {tab1, tab2}, Users <- {ann}, MaxSessions <- 2, Calls <- {k1, k2},
  MaxReloads <- 1, MaxFailures <- 1,
  sessions <- tSessions, due <- tDue, storage <- tStorage, tabs <- tTabs, calls <- tCalls,
  reloads <- tReloads, failures <- tFailures, told <- tTold, excuses <- tExcuses

Panel == INSTANCE BulkPanel WITH
  MaxJobs <- 2, Limit <- 1, Calls <- {k1, k2}, MaxFailures <- 1,
  jobs <- pJobs, queued <- pQueued, shown <- pShown, calls <- pCalls,
  failures <- pFailures, told <- pTold, missed <- pMissed

ASSUME Tabs!ConsoleAssumption /\ Panel!PanelAssumption

tVars == <<tSessions, tDue, tStorage, tTabs, tCalls, tReloads, tFailures, tTold, tExcuses>>
pVars == <<pJobs, pQueued, pShown, pCalls, pFailures, pTold, pMissed>>

MCInit ==
  /\ focus \in {"routes", "tabs", "panel"}
  /\ Init /\ Tabs!Init /\ Panel!Init
  /\ focus # "panel" => Panel!Made = {}

MCNext ==
  /\ UNCHANGED focus
  /\ \/ focus = "routes" /\ Next /\ UNCHANGED <<tVars, pVars>>
     \/ focus = "tabs" /\ Tabs!Next /\ UNCHANGED <<vars, pVars>>
     \/ focus = "panel" /\ Panel!Next /\ UNCHANGED <<vars, tVars>>

(* Nothing fair is enabled in what has not started to move. *)
MCSpec ==
  /\ MCInit /\ [][MCNext]_<<focus, vars, tVars, pVars>>
  /\ Tabs!Fairness /\ Panel!Fairness

ActiveIsShown == Tabs!ActiveIsShown
ShownEnds == Tabs!ShownEnds
JobsAreFollowed == Panel!JobsAreFollowed
=============================================================================
