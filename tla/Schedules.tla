------------------------------ MODULE Schedules ------------------------------
(***************************************************************************)
(* The assistant's schedules: the rows of cron_jobs and cron_runs          *)
(* (schedule-store.ts), the passes that claim and run what is due          *)
(* (scheduler.ts), the retry policy, the recovery of what a dead process   *)
(* left behind (schedule-recovery.ts) and what the user does meanwhile     *)
(* (schedule-routes.ts).                                                   *)
(*                                                                         *)
(* Two passes may be under way: the 15-second "tick", which never overlaps *)
(* itself, and the "drain" of a platform wake, which no guard keeps from   *)
(* overlapping a tick.  A pass claims every due row at once and then works *)
(* through its claims one by one; every claim is a snapshot of the row.    *)
(*                                                                         *)
(* The daemon is one event loop over a synchronous database: what runs     *)
(* between two awaits is one action.  A crash falls on an await, between   *)
(* the start of two jobs or, with MidCrash, between the two writes that    *)
(* close a run.                                                            *)
(*                                                                         *)
(* Abstracted: the clock (next says whether a time has come), back-off     *)
(* delays, messages, conversations, the watchers and sequences the same    *)
(* tick runs, and the disk-pressure gate (a pass that claims nothing).     *)
(***************************************************************************)
EXTENDS Naturals, FiniteSets

CONSTANTS
  Jobs,            \* schedules
  OneShots,        \* those without an expression
  Mode,            \* [Jobs -> Modes]
  MaxRetries,      \* job.maxRetries, the same for every job
  WakeMaxRetries,  \* WAKE_MAX_RETRIES
  Expiring,        \* recurring jobs that may run out of occurrences
  Wedging,         \* jobs whose work is awaited with no timeout and may hang
  UserOps,         \* which of AllUserOps the user has at hand
  MaxNow,          \* bound: manual runs
  MaxCrashes,      \* bound: crashes
  MidCrash,        \* may a crash fall between the two writes that close a run
  NoJob

AllUserOps == {"toggle", "cancel", "delete", "runNow"}
\* "execute" stands for script, run_task and message schedules: all three
\* insert their run row before the work.  "blank" is a script schedule whose
\* script is missing, as an update of the mode alone leaves it.
Modes == {"execute", "notify", "wake", "blank"}

ASSUME SchedulesAssumption ==
  /\ OneShots \subseteq Jobs
  /\ Expiring \subseteq Jobs \ OneShots
  /\ Wedging \subseteq Jobs
  /\ UserOps \subseteq AllUserOps
  /\ Mode \in [Jobs -> Modes]
  /\ MaxRetries \in Nat
  /\ WakeMaxRetries \in Nat
  /\ MaxNow \in Nat
  /\ MaxCrashes \in Nat
  /\ MidCrash \in BOOLEAN
  /\ NoJob \notin Jobs

Passes == {"tick", "drain"}
Statuses == {"active", "firing", "fired", "cancelled"}
\* nextRunAt: 0, in the future (the appointed time or a retry), or past.
Times == {"off", "later", "retry", "due"}

VARIABLES
  row,       \* cron_jobs: [Jobs -> Rows]
  open,      \* how many cron_runs rows of a job have status "running"
  todo,      \* the claims a pass has not started
  cur,       \* the claim a pass is executing
  manual,    \* how many manual runs of a job are under way
  up,        \* "up", "down", or "recovering" in recoverStaleSchedules
  over,      \* recurrences found to have no upcoming run
  nowLeft, crashesLeft,   \* what is left of the bounds
  came,      \* one-shots whose fire_at has come
  owed,      \* claimed jobs whose run has not come to an end yet
  fails      \* failed attempts of a one-shot since it last succeeded

vars == <<row, open, todo, cur, manual, up, over, nowLeft, crashesLeft,
          came, owed, fails>>

Rows == [there : BOOLEAN, enabled : BOOLEAN, status : Statuses,
         next : Times, tries : Nat]
Claims == [job : Jobs, tries : Nat]
Idle == [job |-> NoJob, tries |-> 0]

(***************************************************************************)
(* What the store does to a row.                                           *)
(***************************************************************************)
CompleteOk(r) == [r EXCEPT !.tries = 0]
CompleteError(r) == [r EXCEPT !.tries = @ + 1]

Leave(r, status) ==
  IF r.status = "firing"
  THEN [r EXCEPT !.status = status, !.enabled = FALSE]
  ELSE r
CompleteOneShot(r) == Leave(r, "fired")
FailPermanently(r) == Leave(r, "cancelled")

\* Broken: the status is set whatever it was, or left as it is.
RetryReopens(r) == [r EXCEPT !.next = "retry", !.status = "active"]
RetryKeepsStatus(r) == [r EXCEPT !.next = "retry"]
ScheduleRetry(r) ==
  [r EXCEPT !.next = "retry",
            !.status = IF @ = "firing" THEN "active" ELSE @]
\* Broken: the attempt is not counted.
RetryUncounted(r) ==
  IF r.status = "firing" THEN [r EXCEPT !.status = "active"] ELSE r
RetryOneShot(r) ==
  IF r.status = "firing"
  THEN [r EXCEPT !.status = "active", !.tries = @ + 1]
  ELSE r

\* decideRetry: tries is the count before the failure was recorded.
MayRetryOnceMore(tries) == tries <= MaxRetries   \* broken
MayRetry(tries) == tries < MaxRetries
AfterFailure(j, tries, r) ==
  IF MayRetry(tries) THEN ScheduleRetry(r)
  ELSE IF j \in OneShots THEN FailPermanently(r)
  ELSE [r EXCEPT !.tries = 0]

\* An insert into cron_runs for a deleted job breaks its foreign key.
CreateRun(j) == IF row[j].there THEN [open EXCEPT ![j] = @ + 1] ELSE open
CloseRun(j) == IF row[j].there THEN [open EXCEPT ![j] = @ - 1] ELSE open

SetRow(j, r) == row' = [row EXCEPT ![j] = IF @.there THEN r ELSE @]

(***************************************************************************)
(* Claiming.                                                               *)
(***************************************************************************)
\* Broken: the time is not looked at.
DueAnyTime(j) ==
  /\ row[j].there
  /\ row[j].enabled
  /\ j \in OneShots => row[j].status = "active"
Due(j) ==
  /\ row[j].there
  /\ row[j].enabled
  /\ row[j].next \notin {"later", "retry"}
  /\ j \in OneShots => row[j].status = "active"

\* Nothing else runs between a claim and its first job, or between two jobs.
Quiet == up = "up" /\ \A p \in Passes : cur[p] = Idle => todo[p] = {}

\* Broken: a one-shot stays active; an exhausted recurrence stays enabled.
ClaimKeepsActive(j, spent) ==
  IF j \in OneShots THEN row[j]
  ELSE IF j \in spent THEN [row[j] EXCEPT !.next = "off", !.enabled = FALSE]
  ELSE [row[j] EXCEPT !.next = "later"]
ClaimedRow(j, spent) ==
  IF j \in OneShots THEN [row[j] EXCEPT !.status = "firing"]
  ELSE IF j \in spent THEN [row[j] EXCEPT !.next = "off", !.enabled = FALSE]
  ELSE [row[j] EXCEPT !.next = "later"]

\* The tick is guarded by tickRunning, the drain by its lease.
Free(p) == cur[p] = Idle

ClaimDue(p, spent) ==
  LET due == {j \in Jobs : Due(j)} IN
  /\ Quiet
  /\ Free(p)
  /\ due # {}
  /\ spent \subseteq due \cap Expiring
  /\ row' = [j \in Jobs |-> IF j \in due THEN ClaimedRow(j, spent) ELSE row[j]]
  /\ todo' = [todo EXCEPT ![p] = {[job |-> j, tries |-> row[j].tries] : j \in due}]
  /\ over' = over \cup spent
  /\ owed' = owed \cup due
  /\ UNCHANGED <<open, cur, manual, up, nowLeft, crashesLeft, came, fails>>

\* Recurring claims come before one-shots.
IsNext(p, c) ==
  c.job \in OneShots => \A d \in todo[p] : d.job \in OneShots

Abandon(p) == todo' = [todo EXCEPT ![p] = {}]

\* createScheduleRun is called outside of the try: when it throws, the pass
\* ends with it and its other claims are forgotten.
Start(p, c) ==
  /\ up = "up"
  /\ cur[p] = Idle
  /\ c \in todo[p]
  /\ IsNext(p, c)
  /\ IF Mode[c.job] = "execute" /\ ~row[c.job].there
     THEN /\ Abandon(p)
          /\ UNCHANGED <<cur, open>>
     ELSE /\ todo' = [todo EXCEPT ![p] = @ \ {c}]
          /\ cur' = IF Mode[c.job] = "blank" THEN cur
                    ELSE [cur EXCEPT ![p] = c]
          /\ open' = IF Mode[c.job] = "execute" THEN CreateRun(c.job) ELSE open
  /\ owed' = IF Mode[c.job] = "blank" THEN owed \ {c.job} ELSE owed
  /\ UNCHANGED <<row, manual, up, over, nowLeft, crashesLeft, came, fails>>

(***************************************************************************)
(* The work of the claim under way ends.                                   *)
(***************************************************************************)
\* The run row of an "execute" job is open while it runs; the other modes
\* insert theirs once they know how it went, in the same step.
RunStaysOpen(j) == open' = open   \* broken
EndRun(j) == open' = IF Mode[j] = "execute" THEN CloseRun(j) ELSE open
EndPass(p) == cur' = [cur EXCEPT ![p] = Idle]

\* A notify or one-shot wake job whose row has gone cannot insert its run.
Throws(j) ==
  /\ ~row[j].there
  /\ Mode[j] = "notify" \/ (Mode[j] = "wake" /\ j \in OneShots)

RecordOk(j) ==
  IF Mode[j] = "wake" /\ j \notin OneShots THEN row[j] ELSE CompleteOk(row[j])
SettledOk(j) ==
  IF j \in OneShots THEN CompleteOneShot(RecordOk(j)) ELSE RecordOk(j)

Succeed(p) ==
  LET j == cur[p].job IN
  /\ Quiet
  /\ cur[p] # Idle
  /\ ~Throws(j)
  /\ SetRow(j, SettledOk(j))
  /\ EndRun(j)
  /\ EndPass(p)
  /\ owed' = owed \ {j}
  /\ fails' = [fails EXCEPT ![j] = 0]
  /\ UNCHANGED <<todo, manual, up, over, nowLeft, crashesLeft, came>>

Fail(p) ==
  LET j == cur[p].job IN
  /\ Quiet
  /\ cur[p] # Idle
  /\ ~(~row[j].there /\ Mode[j] \in {"notify", "wake"})
  /\ SetRow(j, AfterFailure(j, cur[p].tries, CompleteError(row[j])))
  /\ EndRun(j)
  /\ EndPass(p)
  /\ owed' = IF MayRetry(cur[p].tries) THEN owed ELSE owed \ {j}
  /\ fails' = [fails EXCEPT ![j] = IF j \in OneShots THEN @ + 1 ELSE 0]
  /\ UNCHANGED <<todo, manual, up, over, nowLeft, crashesLeft, came>>

\* The insert throws, in the try and again in its catch.
Throw(p) ==
  LET j == cur[p].job IN
  /\ Quiet
  /\ cur[p] # Idle
  /\ ~row[j].there
  /\ Mode[j] \in {"notify", "wake"}
  /\ EndPass(p)
  /\ Abandon(p)
  /\ UNCHANGED <<row, open, manual, up, over, nowLeft, crashesLeft,
                 came, owed, fails>>

\* The conversation to wake stayed busy.
WakeTimesOut(p) ==
  LET j == cur[p].job
      last == cur[p].tries >= WakeMaxRetries IN
  /\ Quiet
  /\ cur[p] # Idle
  /\ Mode[j] = "wake"
  /\ SetRow(j, IF j \notin OneShots THEN row[j]
               ELSE IF last THEN FailPermanently(row[j])
               ELSE RetryOneShot(row[j]))
  /\ EndPass(p)
  /\ owed' = IF j \in OneShots /\ ~last THEN owed ELSE owed \ {j}
  /\ UNCHANGED <<open, todo, manual, up, over, nowLeft, crashesLeft, came, fails>>

\* The conversation is gone or archived.
WakeNotInvoked(p) ==
  LET j == cur[p].job IN
  /\ Quiet
  /\ cur[p] # Idle
  /\ Mode[j] = "wake"
  /\ SetRow(j, IF j \in OneShots THEN CompleteOneShot(row[j]) ELSE row[j])
  /\ EndPass(p)
  /\ owed' = owed \ {j}
  /\ UNCHANGED <<open, todo, manual, up, over, nowLeft, crashesLeft, came, fails>>

(***************************************************************************)
(* The clock and the user.                                                 *)
(***************************************************************************)
Elapse(j) ==
  /\ up # "recovering"
  /\ row[j].next \in {"later", "retry"}
  /\ row' = [row EXCEPT ![j].next = "due"]
  /\ came' = IF row[j].next = "later" THEN came \cup {j} ELSE came
  /\ UNCHANGED <<open, todo, cur, manual, up, over, nowLeft, crashesLeft,
                 owed, fails>>

\* Enabling a recurring schedule recomputes its next run, or throws.
Toggle(j) ==
  LET on == ~row[j].enabled
      r == [row[j] EXCEPT !.enabled = on] IN
  /\ Quiet
  /\ "toggle" \in UserOps
  /\ row[j].there
  /\ ~(on /\ j \in over)
  /\ SetRow(j, IF j \in OneShots THEN r
               ELSE [r EXCEPT !.next = IF on THEN "later" ELSE "off"])
  /\ owed' = owed \ {j}
  /\ UNCHANGED <<open, todo, cur, manual, up, over, nowLeft, crashesLeft,
                 came, fails>>

Cancel(j) ==
  /\ Quiet
  /\ "cancel" \in UserOps
  /\ row[j].there
  /\ row[j].status = "active"
  /\ row' = [row EXCEPT ![j].status = "cancelled", ![j].enabled = FALSE]
  /\ owed' = owed \ {j}
  /\ UNCHANGED <<open, todo, cur, manual, up, over, nowLeft, crashesLeft,
                 came, fails>>

\* The runs of the job go with it.
Delete(j) ==
  /\ Quiet
  /\ "delete" \in UserOps
  /\ row[j].there
  /\ row' = [row EXCEPT ![j].there = FALSE]
  /\ open' = [open EXCEPT ![j] = 0]
  /\ owed' = owed \ {j}
  /\ UNCHANGED <<todo, cur, manual, up, over, nowLeft, crashesLeft, came, fails>>

\* A manual run of a wake schedule writes nothing.
RunNow(j) ==
  /\ Quiet
  /\ "runNow" \in UserOps
  /\ nowLeft > 0
  /\ row[j].there
  /\ Mode[j] \in {"execute", "notify"}
  /\ open' = CreateRun(j)
  /\ manual' = [manual EXCEPT ![j] = @ + 1]
  /\ nowLeft' = nowLeft - 1
  /\ UNCHANGED <<row, todo, cur, up, over, crashesLeft, came, owed, fails>>

RunNowEnds(j, ok) ==
  /\ Quiet
  /\ manual[j] > 0
  /\ SetRow(j, IF ok THEN CompleteOk(row[j]) ELSE CompleteError(row[j]))
  /\ open' = CloseRun(j)
  /\ manual' = [manual EXCEPT ![j] = @ - 1]
  /\ UNCHANGED <<todo, cur, up, over, nowLeft, crashesLeft, came, owed, fails>>

(***************************************************************************)
(* The daemon dies and comes back.                                         *)
(***************************************************************************)
Die ==
  /\ up # "down"
  /\ crashesLeft > 0
  /\ up' = "down"
  /\ crashesLeft' = crashesLeft - 1
  /\ todo' = [p \in Passes |-> {}]
  /\ cur' = [p \in Passes |-> Idle]
  /\ manual' = [j \in Jobs |-> 0]
  /\ UNCHANGED <<over, nowLeft, came, owed, fails>>

Crash == Die /\ UNCHANGED <<row, open>>

\* completeScheduleRun was the last thing the process did.
CrashMidway(p, ok) ==
  LET j == cur[p].job IN
  /\ MidCrash
  /\ Quiet
  /\ cur[p] # Idle
  /\ row[j].there
  /\ SetRow(j, IF ok THEN RecordOk(j) ELSE CompleteError(row[j]))
  /\ EndRun(j)
  /\ Die

Restart ==
  /\ up = "down"
  /\ up' = "recovering"
  /\ UNCHANGED <<row, open, todo, cur, manual, over, nowLeft, crashesLeft,
                 came, owed, fails>>

\* findStaleInFlightJobs: running runs first, then firing one-shots.
StaleRun(j) == row[j].there /\ open[j] > 0
StaleFiringUnseen(j) == FALSE   \* broken
StaleFiring(j) ==
  /\ row[j].there
  /\ j \in OneShots
  /\ row[j].status = "firing"
  /\ row[j].enabled

RecoverJob(j) ==
  LET r == row[j] IN
  /\ SetRow(j, AfterFailure(j, r.tries, CompleteError(r)))
  /\ owed' = IF MayRetry(r.tries) THEN owed ELSE owed \ {j}
  /\ fails' = [fails EXCEPT ![j] = IF r.status = "firing" THEN @ + 1 ELSE @]
  /\ UNCHANGED <<todo, cur, manual, up, over, nowLeft, crashesLeft, came>>

RecoverRun(j) ==
  /\ up = "recovering"
  /\ StaleRun(j)
  /\ open' = CloseRun(j)
  /\ RecoverJob(j)

RecoverFiring(j) ==
  /\ up = "recovering"
  /\ \A k \in Jobs : ~StaleRun(k)
  /\ StaleFiring(j)
  /\ RecoverJob(j)
  /\ UNCHANGED open

\* startScheduler follows the recovery.
Recovered ==
  /\ up = "recovering"
  /\ \A j \in Jobs : ~StaleRun(j) /\ ~StaleFiring(j)
  /\ up' = "up"
  /\ UNCHANGED <<row, open, todo, cur, manual, over, nowLeft, crashesLeft,
                 came, owed, fails>>

(***************************************************************************)
(* The specification.                                                      *)
(***************************************************************************)
NewRow == [there |-> TRUE, enabled |-> TRUE, status |-> "active",
           next |-> "later", tries |-> 0]

Init ==
  /\ row = [j \in Jobs |-> NewRow]
  /\ open = [j \in Jobs |-> 0]
  /\ todo = [p \in Passes |-> {}]
  /\ cur = [p \in Passes |-> Idle]
  /\ manual = [j \in Jobs |-> 0]
  /\ up = "up"
  /\ over = {}
  /\ nowLeft = MaxNow
  /\ crashesLeft = MaxCrashes
  /\ came = {}
  /\ owed = {}
  /\ fails = [j \in Jobs |-> 0]

Claim(p) == \E spent \in SUBSET Expiring : ClaimDue(p, spent)
StartNext(p) == \E c \in todo[p] : Start(p, c)
WorkEnds(p) ==
  Succeed(p) \/ Fail(p) \/ Throw(p) \/ WakeTimesOut(p) \/ WakeNotInvoked(p)
Pass(p) == Claim(p) \/ StartNext(p) \/ WorkEnds(p)
User(j) == Toggle(j) \/ Cancel(j) \/ Delete(j) \/ RunNow(j)
RunNowDone(j) == \E ok \in BOOLEAN : RunNowEnds(j, ok)
Recover(j) == RecoverRun(j) \/ RecoverFiring(j)
Dies == Crash \/ \E p \in Passes, ok \in BOOLEAN : CrashMidway(p, ok)

Next ==
  \/ \E p \in Passes : Pass(p)
  \/ \E j \in Jobs : Elapse(j) \/ User(j) \/ RunNowDone(j) \/ Recover(j)
  \/ Dies
  \/ Restart
  \/ Recovered

Spec == Init /\ [][Next]_vars

\* What the daemon runs is run eventually: timers fire, handlers return, a
\* dead process is restarted.  Work without a timeout may hang, the user and
\* the platform owe nothing.  Strong fairness stands for the order of the
\* event loop's queue: a pass may find the loop taken again and again.
Fairness ==
  /\ SF_vars(Claim("tick"))
  /\ \A p \in Passes :
       /\ WF_vars(StartNext(p))
       /\ SF_vars(cur[p].job \notin Wedging /\ WorkEnds(p))
  /\ \A j \in Jobs : WF_vars(Elapse(j)) /\ WF_vars(Recover(j))
  /\ WF_vars(Restart)
  /\ WF_vars(Recovered)

FairSpec == Spec /\ Fairness

(***************************************************************************)
(* Properties.                                                             *)
(***************************************************************************)
InPass(j) ==
  \E p \in Passes : cur[p].job = j \/ \E c \in todo[p] : c.job = j

\* Every variable has its type, and a process that is down holds no claim
\* and no manual run.
TypeOK ==
  /\ row \in [Jobs -> Rows]
  /\ open \in [Jobs -> Nat]
  /\ todo \in [Passes -> SUBSET Claims]
  /\ cur \in [Passes -> Claims \cup {Idle}]
  /\ manual \in [Jobs -> Nat]
  /\ up \in {"up", "down", "recovering"}
  /\ over \subseteq Expiring
  /\ nowLeft \in 0..MaxNow
  /\ crashesLeft \in 0..MaxCrashes
  /\ came \subseteq Jobs
  /\ owed \subseteq Jobs
  /\ fails \in [Jobs -> Nat]
  /\ up # "up" => /\ \A p \in Passes : todo[p] = {} /\ cur[p] = Idle
                  /\ \A j \in Jobs : manual[j] = 0

\* A one-shot is held by at most one claim of one pass, and while it is held
\* its row says firing: what keeps a tick and the drain of a platform wake
\* from both firing a reminder (claimDueSchedules).
ClaimedOnce ==
  \A j \in OneShots :
    /\ \A p \in Passes :
         /\ \A c, d \in todo[p] : c.job = j /\ d.job = j => c = d
         /\ \A c \in todo[p] : c.job = j => cur[p].job # j
         /\ \A q \in Passes \ {p}, c \in todo[p] \cup {cur[p]} :
              c.job = j => \A d \in todo[q] \cup {cur[q]} : d.job # j
    /\ InPass(j) /\ row[j].there => row[j].status = "firing"

\* While the daemon serves, a run row is "running" exactly for the executions
\* under way: none is left behind by a pass, a manual run, a deletion or a
\* crash (completeScheduleRun, recoverStaleSchedules).
RunsAccountedFor ==
  up = "up" =>
    \A j \in Jobs :
      open[j] = IF ~row[j].there THEN 0
                ELSE manual[j] + Cardinality({p \in Passes :
                       Mode[j] = "execute" /\ cur[p].job = j})

\* While the daemon serves, an enabled one-shot in "firing" is held by a pass,
\* which will take it out of that state: nothing else does before the next
\* start of the daemon (findStaleInFlightJobs).
FiringIsBacked ==
  up = "up" =>
    \A j \in OneShots :
      row[j].there /\ row[j].enabled /\ row[j].status = "firing" => InPass(j)

\* The run a claim took is not lost: until it has succeeded, been given up
\* with an alert, or been called off by the user, a pass holds it or the row
\* will be claimed again (claimDueSchedules, applyRetryDecision).
NothingDropped ==
  up = "up" =>
    \A j \in owed :
      \/ InPass(j)
      \/ /\ row[j].enabled
         /\ row[j].next # "off"
         /\ j \in OneShots => row[j].status = "active"

\* A schedule that is enabled has a time: a row with next_run_at 0 would be
\* claimed by every tick (updateSchedule, claimDueSchedules).
EnabledHasTime ==
  \A j \in Jobs : row[j].there /\ row[j].enabled => row[j].next # "off"

\* No one-shot fires before its fire_at.
NotEarly ==
  \A j \in OneShots : row[j].there /\ row[j].status = "firing" => j \in came

\* A one-shot that has fired or was cancelled is never claimed again, whatever
\* late result, manual run or recovery still comes for it.
DoneStaysDone ==
  [][\A j \in OneShots :
       row[j].status \in {"fired", "cancelled"} =>
         row'[j].status = row[j].status]_vars

\* A one-shot is given up after exactly maxRetries retries: the failure that
\* cancels it finds maxRetries failures before it, the one that lets it run
\* again finds fewer (decideRetry).  A wake counts its time-outs as well.
ExactlyMaxRetries ==
  [][\A j \in {k \in OneShots : Mode[k] # "wake"} :
       /\ row[j].status = "firing" /\ row'[j].status = "cancelled" =>
            fails[j] = MaxRetries
       /\ row[j].status = "firing" /\ row'[j].status = "active" =>
            fails[j] < MaxRetries]_vars

\* A one-shot whose time has come ends: fired or given up, unless the user
\* has disabled, cancelled or deleted it.
OneShotEnds ==
  \A j \in OneShots :
    Due(j) ~> \/ ~row[j].there
              \/ ~row[j].enabled

=============================================================================
