------------------------- MODULE ImpersonationConsole -------------------------
(***************************************************************************)
(* The admin console's view of impersonation sessions: the card that       *)
(* starts one, the banner that counts it down and stops it, and the copy   *)
(* in the browser's localStorage that a reloaded tab starts from.  One     *)
(* administrator has several tabs, which do not hear of each other.        *)
(*                                                                         *)
(* The service is taken as a table whose requests are atomic:              *)
(* Impersonation has its transactions.  A session's time is up or not;     *)
(* browser and service agree on that.                                      *)
(*                                                                         *)
(* Left out: what the session is for, its link, the countdown's warning,   *)
(* telemetry.                                                              *)
(***************************************************************************)
EXTENDS Naturals, FiniteSets

CONSTANTS
  Tabs, NoTab,
  Users,
  MaxSessions,               \* sessions are numbered as they are made
  Calls,
  MaxReloads, MaxFailures

ConsoleAssumption ==
  /\ NoTab \notin Tabs
  /\ {MaxSessions, MaxReloads, MaxFailures} \subseteq Nat

VARIABLES
  sessions,   \* the service's table
  due,        \* sessions whose time is up
  storage,    \* the browser's copy
  tabs,       \* the provider's state in each tab
  calls,      \* requests in flight
  reloads, failures,
  told,       \* history: sessions whose start was answered to a tab
  excuses     \* history: what has happened out of the ordinary

vars == <<sessions, due, storage, tabs, calls, reloads, failures, told, excuses>>

SessionIds == 1..MaxSessions
None == 0

Unborn == [state |-> "unborn"]
Active(s) == sessions[s].state = "active"
Idle == [what |-> "nothing"]

(* loadStoredSession, and the provider's first effects. *)
Stored == IF storage \in due THEN None ELSE storage
Fresh(session) == [shown |-> session, zero |-> FALSE, stopping |-> FALSE, error |-> FALSE]

Becomes(k, call) == calls' = [calls EXCEPT ![k] = call]

-----------------------------------------------------------------------------
(* The administrator *)

(* handleSubmit of the card, while its tab shows no session.  The button is *)
(* disabled only as long as the handler runs, not as the request does.      *)
Start(k, tab, user) ==
  /\ calls[k] = Idle /\ tabs[tab].shown = None
  /\ Cardinality({s \in SessionIds : sessions[s] = Unborn})
       > Cardinality({j \in Calls : calls[j].what = "start" /\ ~ calls[j].served})
  /\ Becomes(k, [what |-> "start", tab |-> tab, user |-> user, session |-> None, served |-> FALSE])
  /\ excuses' = excuses \cup
       IF \/ \E j \in Calls : calls[j].what = "start"
          \/ \E s \in SessionIds : Active(s)
       THEN {"doubled"} ELSE {}
  /\ UNCHANGED <<sessions, due, storage, tabs, reloads, failures, told>>

(* The tab is loaded again; requests go on without it. *)
Reload(tab) ==
  /\ reloads < MaxReloads /\ reloads' = reloads + 1
  /\ tabs' = [tabs EXCEPT ![tab] = Fresh(Stored)]
  /\ storage' = Stored
  /\ calls' = [k \in Calls |->
       IF calls[k] # Idle /\ calls[k].tab = tab THEN [calls[k] EXCEPT !.tab = NoTab] ELSE calls[k]]
  /\ UNCHANGED <<sessions, due, failures, told, excuses>>

Asks(k, tab) ==
  Becomes(k, [what |-> "stop", tab |-> tab, session |-> tabs[tab].shown, served |-> FALSE])

(* stopSession("manual") *)
Press(k, tab) ==
  /\ calls[k] = Idle
  /\ tabs[tab].shown # None /\ ~ tabs[tab].stopping
  /\ tabs' = [tabs EXCEPT ![tab].stopping = TRUE, ![tab].error = FALSE]
  /\ Asks(k, tab)
  /\ UNCHANGED <<sessions, due, storage, reloads, failures, told, excuses>>

-----------------------------------------------------------------------------
(* Time *)

Elapse(s) ==
  /\ sessions[s] # Unborn /\ s \notin due
  /\ due' = due \cup {s}
  /\ sessions' = [sessions EXCEPT ![s].state = IF @ = "active" THEN "over" ELSE @]
  /\ UNCHANGED <<storage, tabs, calls, reloads, failures, told, excuses>>

(* Mutant: the countdown comes to its end and nothing is done about it. *)
TickOnly(k, tab) ==
  /\ tabs[tab].shown \in due /\ ~ tabs[tab].zero
  /\ calls[k] = Idle
  /\ tabs' = [tabs EXCEPT ![tab].zero = TRUE]
  /\ UNCHANGED <<sessions, due, storage, calls, reloads, failures, told, excuses>>

(* The countdown comes to its end: stopSession("auto"), once, and not while *)
(* another stop is in flight.                                               *)
Tick(k, tab) ==
  /\ tabs[tab].shown \in due /\ ~ tabs[tab].zero
  /\ calls[k] = Idle
  /\ IF tabs[tab].stopping
     THEN /\ tabs' = [tabs EXCEPT ![tab].zero = TRUE]
          /\ UNCHANGED calls
     ELSE /\ tabs' = [tabs EXCEPT ![tab].zero = TRUE, ![tab].stopping = TRUE, ![tab].error = FALSE]
          /\ Asks(k, tab)
  /\ UNCHANGED <<sessions, due, storage, reloads, failures, told, excuses>>

-----------------------------------------------------------------------------
(* The service *)

Made == CHOOSE s \in SessionIds : sessions[s] = Unborn /\ \A t \in 1..(s - 1) : sessions[t] # Unborn

(* POST: the administrator's session with the same user ends. *)
ServeStart(k) ==
  /\ calls[k].what = "start" /\ ~ calls[k].served
  /\ sessions' = [s \in SessionIds |->
       IF s = Made THEN [state |-> "active", user |-> calls[k].user]
       ELSE IF Active(s) /\ sessions[s].user = calls[k].user THEN [sessions[s] EXCEPT !.state = "over"]
       ELSE sessions[s]]
  /\ Becomes(k, [calls[k] EXCEPT !.served = TRUE, !.session = Made])
  /\ UNCHANGED <<due, storage, tabs, reloads, failures, told, excuses>>

(* DELETE: a session that is gone already is as good. *)
ServeStop(k) ==
  /\ calls[k].what = "stop" /\ ~ calls[k].served
  /\ sessions' = [sessions EXCEPT ![calls[k].session].state = "gone"]
  /\ Becomes(k, [calls[k] EXCEPT !.served = TRUE])
  /\ UNCHANGED <<due, storage, tabs, reloads, failures, told, excuses>>

(* The clean-up of sessions that are over. *)
Clean(s) ==
  /\ sessions[s].state = "over"
  /\ sessions' = [sessions EXCEPT ![s].state = "gone"]
  /\ UNCHANGED <<due, storage, tabs, calls, reloads, failures, told, excuses>>

-----------------------------------------------------------------------------
(* The answers *)

(* persistSession: whatever the tab shows, it shows the new session now; if *)
(* the one before had come to its end, the old countdown stops the new one. *)
TakeStart(k) ==
  /\ calls[k].what = "start" /\ calls[k].served /\ calls[k].tab # NoTab
  /\ LET call == calls[k]
         tab == tabs[call.tab]
         ends == tab.zero /\ ~ tab.stopping
     IN  /\ tabs' = [tabs EXCEPT ![call.tab] =
                       [tab EXCEPT !.shown = call.session, !.zero = FALSE,
                                   !.stopping = @ \/ ends, !.error = @ /\ ~ ends]]
         /\ storage' = call.session
         /\ told' = told \cup {call.session}
         /\ Becomes(k, IF ends THEN [what |-> "stop", tab |-> call.tab, session |-> call.session,
                                     served |-> FALSE]
                       ELSE Idle)
  /\ UNCHANGED <<sessions, due, reloads, failures, excuses>>

(* clearSession: what the tab shows and what is stored, whichever they are. *)
TakeStop(k) ==
  /\ calls[k].what = "stop" /\ calls[k].served /\ calls[k].tab # NoTab
  /\ tabs' = [tabs EXCEPT ![calls[k].tab] = Fresh(None)]
  /\ storage' = None
  /\ excuses' = excuses \cup IF storage \in {None, calls[k].session} THEN {} ELSE {"crossed"}
  /\ Becomes(k, Idle)
  /\ UNCHANGED <<sessions, due, reloads, failures, told>>

(* Mutant: the session is cleared whatever the answer was. *)
FailAndClear(k) ==
  /\ calls[k] # Idle /\ calls[k].tab # NoTab
  /\ failures < MaxFailures /\ failures' = failures + 1
  /\ IF calls[k].what = "stop"
     THEN /\ tabs' = [tabs EXCEPT ![calls[k].tab] = Fresh(None)]
          /\ storage' = None
     ELSE UNCHANGED <<tabs, storage>>
  /\ Becomes(k, Idle)
  /\ UNCHANGED <<sessions, due, reloads, told, excuses>>

(* A request fails, or its answer is lost: the card shows an error, or the  *)
(* banner does and keeps the session.                                       *)
Fail(k) ==
  /\ calls[k] # Idle /\ calls[k].tab # NoTab
  /\ failures < MaxFailures /\ failures' = failures + 1
  /\ IF calls[k].what = "stop"
     THEN tabs' = [tabs EXCEPT ![calls[k].tab].stopping = FALSE, ![calls[k].tab].error = TRUE]
     ELSE UNCHANGED tabs
  /\ Becomes(k, Idle)
  /\ UNCHANGED <<sessions, due, storage, reloads, told, excuses>>

(* The answer to a tab that was loaded again. *)
Drop(k) ==
  /\ calls[k] # Idle /\ calls[k].tab = NoTab /\ calls[k].served
  /\ Becomes(k, Idle)
  /\ UNCHANGED <<sessions, due, storage, tabs, reloads, failures, told, excuses>>

-----------------------------------------------------------------------------
Init ==
  /\ sessions = [s \in SessionIds |-> Unborn]
  /\ due = {} /\ storage = None
  /\ tabs = [t \in Tabs |-> Fresh(None)]
  /\ calls = [k \in Calls |-> Idle]
  /\ reloads = 0 /\ failures = 0 /\ told = {} /\ excuses = {}

Answers(k) == ServeStart(k) \/ ServeStop(k) \/ TakeStart(k) \/ TakeStop(k) \/ Drop(k)
Counts(tab) == \E k \in Calls : Tick(k, tab)

Next ==
  \/ \E tab \in Tabs :
       \/ Reload(tab) \/ Counts(tab)
       \/ \E k \in Calls : Press(k, tab) \/ \E user \in Users : Start(k, tab, user)
  \/ \E s \in SessionIds : Elapse(s) \/ Clean(s)
  \/ \E k \in Calls : Answers(k) \/ Fail(k)

Spec == Init /\ [][Next]_vars

(* Time passes, the timers run, and what is asked is answered. *)
Fairness ==
  /\ \A s \in SessionIds : WF_vars(Elapse(s))
  /\ \A tab \in Tabs : WF_vars(Counts(tab))
  /\ \A k \in Calls : WF_vars(Answers(k))

FairSpec == Spec /\ Fairness

-----------------------------------------------------------------------------
(* A session that is in force, and of which a tab was told, is shown by     *)
(* some tab, through reloads and failures: unless the browser started one   *)
(* session while another was in force or being started, or a tab that       *)
(* stopped its session cleared the copy of another tab's.  (The runbook     *)
(* docs/operations/runbooks/identity.md promises the banner without these   *)
(* exceptions.)                                                             *)
ActiveIsShown ==
  excuses = {} =>
    \A s \in told : Active(s) => \E tab \in Tabs : tabs[tab].shown = s

(* The banner of a session does not stay: when its time is up it is         *)
(* stopped, or the banner says that it could not be.                        *)
ShownEnds ==
  \A tab \in Tabs : tabs[tab].shown # None ~> (tabs[tab].shown = None \/ tabs[tab].error)
=============================================================================
