--------------------------- MODULE SchedulesProofs ---------------------------
(* Theorems about Schedules for any set of jobs, any modes, any limits on  *)
(* retries and any number of manual runs and crashes.                      *)
EXTENDS Schedules, FiniteSetTheorems, TLAPS

-----------------------------------------------------------------------------
(* The rows.                                                               *)

(* What the end of an attempt may make of a row: it goes at most from      *)
(* enabled to disabled, from "firing" to another status, and to a retry.   *)
Settles(r, s) ==
  /\ s \in Rows
  /\ s.there = r.there
  /\ s.next \in {r.next, "retry"}
  /\ s.enabled => r.enabled
  /\ s.status # r.status => r.status = "firing"

RowsOK == row \in [Jobs -> Rows]

(* Every row settles into what it becomes.                                 *)
RowsSettle ==
  /\ RowsOK'
  /\ \A j \in Jobs : Settles(row[j], row'[j])

(* A row that is left as it is settles.                                    *)
LEMMA SettlesStay == ASSUME NEW r \in Rows PROVE Settles(r, r)
BY DEF Settles

(* Recording a success or an error settles a row (completeScheduleRun).    *)
LEMMA CompleteSettles ==
    ASSUME NEW r \in Rows
    PROVE  Settles(r, CompleteOk(r)) /\ Settles(r, CompleteError(r))
<1>1. CompleteOk(r) \in Rows /\ CompleteError(r) \in Rows
    BY DEF CompleteOk, CompleteError, Rows
<1> QED
    BY <1>1 DEF Settles, CompleteOk, CompleteError, Rows

(* Ending a one-shot settles its row (completeOneShot,                     *)
(* failOneShotPermanently).                                                *)
LEMMA LeaveSettles ==
    ASSUME NEW r \in Rows
    PROVE  Settles(r, CompleteOneShot(r)) /\ Settles(r, FailPermanently(r))
<1>1. ASSUME NEW s \in Statuses PROVE Settles(r, Leave(r, s))
    <2>1. Leave(r, s) \in Rows
        BY <1>1 DEF Leave, Rows
    <2> QED
        BY <2>1 DEF Settles, Leave, Rows
<1> QED
    BY <1>1 DEF CompleteOneShot, FailPermanently, Statuses

(* Granting a retry settles a row (scheduleRetry, retryOneShot).           *)
LEMMA RetrySettles ==
    ASSUME NEW r \in Rows
    PROVE  Settles(r, ScheduleRetry(r)) /\ Settles(r, RetryOneShot(r))
<1>0. "active" \in Statuses /\ "retry" \in Times
    BY DEF Statuses, Times
<1>1. ScheduleRetry(r) \in Rows
    BY <1>0 DEF ScheduleRetry, Rows
<1>2. RetryOneShot(r) \in Rows
    <2> DEFINE n == r.tries + 1
    <2>1. n \in Nat
        BY DEF Rows
    <2> HIDE DEF n
    <2>2. [r EXCEPT !.status = "active", !.tries = n] \in Rows
        BY <1>0, <2>1 DEF Rows
    <2> QED
        BY <2>2 DEF RetryOneShot, n
<1>3. Settles(r, ScheduleRetry(r))
    BY <1>1 DEF Settles, ScheduleRetry, Rows
<1>4. Settles(r, RetryOneShot(r))
    BY <1>2 DEF Settles, RetryOneShot, Rows
<1> QED
    BY <1>3, <1>4

(* A row that settles may settle once more.                                *)
LEMMA SettlesAgain ==
    ASSUME NEW r \in Rows, NEW s, NEW t, Settles(r, s), Settles(s, t)
    PROVE  Settles(r, t)
BY DEF Settles

(* What follows a failed attempt settles a row, whether it is retried or   *)
(* given up (applyRetryDecision).                                          *)
LEMMA FailureSettles ==
    ASSUME NEW r \in Rows, NEW j, NEW tries
    PROVE  Settles(r, AfterFailure(j, tries, CompleteError(r)))
<1> DEFINE e == CompleteError(r)
<1>1. Settles(r, e) /\ e \in Rows
    BY CompleteSettles DEF Settles
<1> HIDE DEF e
<1>2. Settles(e, ScheduleRetry(e)) /\ Settles(e, FailPermanently(e))
    BY <1>1, LeaveSettles, RetrySettles
<1>3. Settles(e, [e EXCEPT !.tries = 0])
    <2>1. [e EXCEPT !.tries = 0] \in Rows
        BY <1>1 DEF Rows
    <2> QED
        BY <1>1, <2>1 DEF Settles, Rows
<1>4. Settles(e, AfterFailure(j, tries, e))
    BY <1>2, <1>3 DEF AfterFailure
<1> QED
    BY <1>1, <1>4, SettlesAgain DEF e

(* What follows a successful attempt settles a row.                        *)
LEMMA SuccessSettles ==
    ASSUME RowsOK, NEW j \in Jobs
    PROVE  /\ Settles(row[j], RecordOk(j))
           /\ Settles(row[j], SettledOk(j))
<1> DEFINE r == RecordOk(j)
<1>1. row[j] \in Rows
    BY DEF RowsOK
<1>2. Settles(row[j], r)
    BY <1>1, CompleteSettles, SettlesStay DEF RecordOk
<1>3. r \in Rows
    BY <1>2 DEF Settles
<1> HIDE DEF r
<1>4. Settles(row[j], CompleteOneShot(r))
    BY <1>1, <1>2, <1>3, LeaveSettles, SettlesAgain
<1> QED
    BY <1>2, <1>4 DEF SettledOk, r

(* Writing a settled row settles the table, and only that row changes.     *)
LEMMA SetRowSettles ==
    ASSUME RowsOK, NEW j \in Jobs, NEW r, Settles(row[j], r), SetRow(j, r)
    PROVE  /\ RowsSettle
           /\ \A k \in Jobs \ {j} : row'[k] = row[k]
<1>1. row'[j] = (IF row[j].there THEN r ELSE row[j])
    BY DEF SetRow, RowsOK
<1>2. \A k \in Jobs \ {j} : row'[k] = row[k]
    BY DEF SetRow, RowsOK
<1>3. \A k \in Jobs : Settles(row[k], row'[k])
    BY <1>1, <1>2, SettlesStay DEF RowsOK
<1>4. RowsOK'
    BY <1>3 DEF SetRow, RowsOK, Settles
<1> QED
    BY <1>2, <1>3, <1>4 DEF RowsSettle

(* A table that is left as it is settles.                                  *)
LEMMA RowsStay == ASSUME RowsOK, UNCHANGED row PROVE RowsSettle
BY SettlesStay DEF RowsOK, RowsSettle

-----------------------------------------------------------------------------
(* The invariant.                                                          *)

PassesOK ==
  /\ todo \in [Passes -> SUBSET Claims]
  /\ cur \in [Passes -> Claims \cup {Idle}]

CountsOK ==
  /\ open \in [Jobs -> Nat]
  /\ manual \in [Jobs -> Nat]
  /\ nowLeft \in 0..MaxNow
  /\ crashesLeft \in 0..MaxCrashes
  /\ fails \in [Jobs -> Nat]

MarksOK ==
  /\ up \in {"up", "down", "recovering"}
  /\ over \subseteq Expiring
  /\ came \subseteq Jobs
  /\ owed \subseteq Jobs

DownIsIdle ==
  up # "up" => /\ \A p \in Passes : todo[p] = {} /\ cur[p] = Idle
               /\ \A j \in Jobs : manual[j] = 0

(* RunsAccountedFor speaks of a daemon that serves; a crash loses the      *)
(* equation, and what recovery restores it from is that the deleted jobs   *)
(* have no run.  Without the equation a run row closed twice would take    *)
(* open below zero: the type rests on it.                                  *)
Busy(p, j) == IF Mode[j] = "execute" /\ cur[p].job = j THEN 1 ELSE 0
RunsKept ==
  \A j \in Jobs :
    IF row[j].there
    THEN up = "up" => open[j] = manual[j] + Busy("tick", j) + Busy("drain", j)
    ELSE open[j] = 0

(* A one-shot never loses its time, so enabling it again, which recomputes *)
(* nothing, leaves it with one.                                            *)
OneShotHasTime == \A j \in OneShots : row[j].next # "off"
HasTime == OneShotHasTime /\ EnabledHasTime

IInv == TypeOK /\ RunsKept /\ HasTime /\ ClaimedOnce

(* TypeOK is the conjunction of its parts, in a state and in the next.     *)
LEMMA TypeParts ==
    TypeOK <=> RowsOK /\ PassesOK /\ CountsOK /\ MarksOK /\ DownIsIdle
BY DEF TypeOK, RowsOK, PassesOK, CountsOK, MarksOK, DownIsIdle

(* The same of the next state.                                             *)
LEMMA TypePartsNext ==
    TypeOK' <=> RowsOK' /\ PassesOK' /\ CountsOK' /\ MarksOK' /\ DownIsIdle'
BY DEF TypeOK, RowsOK, PassesOK, CountsOK, MarksOK, DownIsIdle

(* A pass at work has a job, a pass without work has none.                 *)
LEMMA CurJob ==
    ASSUME PassesOK, NEW p \in Passes
    PROVE  /\ cur[p] # Idle => cur[p] \in Claims /\ cur[p].job \in Jobs
           /\ cur[p] = Idle => cur[p].job \notin Jobs
BY SchedulesAssumption DEF PassesOK, Claims, Idle

(* A fresh daemon with fresh schedules satisfies the invariant.            *)
LEMMA InitInv == Init => IInv
<1> SUFFICES ASSUME Init PROVE IInv
    OBVIOUS
<1>1. RowsOK
    BY DEF Init, NewRow, RowsOK, Rows, Statuses, Times
<1>2. PassesOK /\ DownIsIdle
    BY DEF Init, PassesOK, DownIsIdle
<1>3. CountsOK /\ MarksOK
    BY SchedulesAssumption DEF Init, CountsOK, MarksOK
<1>4. RunsKept
    BY <1>2, CurJob DEF Init, RunsKept, Busy, NewRow, Passes
<1>5. HasTime
    BY SchedulesAssumption
    DEF Init, HasTime, OneShotHasTime, EnabledHasTime, NewRow
<1>6. \A j \in Jobs : ~InPass(j)
    BY <1>2, CurJob DEF Init, InPass
<1>7. ClaimedOnce
    BY <1>2, <1>6, CurJob, SchedulesAssumption DEF Init, ClaimedOnce
<1> QED
    BY <1>1, <1>2, <1>3, <1>4, <1>5, <1>7, TypeParts DEF IInv

(* Settling rows keeps every schedule's time.                              *)
LEMMA SettledHasTime ==
    ASSUME HasTime, RowsSettle
    PROVE  HasTime'
BY SchedulesAssumption
DEF HasTime, OneShotHasTime, EnabledHasTime, RowsSettle, Settles

(* No claim is added, and a one-shot that stays claimed stays "firing".    *)
ClaimsShrink ==
  \A p \in Passes : todo'[p] \subseteq todo[p] /\ cur'[p] \in {cur[p], Idle}

(* When claims are only given back, none of the remaining ones is          *)
(* doubled.                                                                *)
LEMMA ShrinkKeepsOnce ==
    ASSUME ClaimedOnce, ClaimsShrink,
           \A j \in OneShots : InPass(j)' /\ row'[j].there =>
             /\ row[j].there
             /\ row[j].status = "firing" => row'[j].status = "firing"
    PROVE  ClaimedOnce'
<1>1. \A j \in OneShots : InPass(j)' => InPass(j)
    BY SchedulesAssumption DEF ClaimsShrink, InPass, Idle
<1>2. \A j \in OneShots : InPass(j)' /\ row'[j].there => row'[j].status = "firing"
    BY <1>1 DEF ClaimedOnce
<1>3. ASSUME NEW j \in OneShots, NEW p \in Passes
      PROVE  /\ \A c, d \in todo'[p] : c.job = j /\ d.job = j => c = d
             /\ \A c \in todo'[p] : c.job = j => cur'[p].job # j
    BY <1>3, SchedulesAssumption DEF ClaimedOnce, ClaimsShrink, Idle
<1>4. ASSUME NEW j \in OneShots, NEW p \in Passes, NEW q \in Passes \ {p},
             NEW c \in todo'[p] \cup {cur'[p]}, c.job = j,
             NEW d \in todo'[q] \cup {cur'[q]}
      PROVE  d.job # j
    <2>1. NoJob # j
        BY SchedulesAssumption
    <2>2. c \in todo[p] \cup {cur[p]}
        BY <1>4, <2>1 DEF ClaimsShrink, Idle
    <2>3. d \in todo[q] \cup {cur[q]} \/ d = Idle
        BY DEF ClaimsShrink
    <2> QED
        BY <1>4, <2>1, <2>2, <2>3 DEF ClaimedOnce, Idle
<1> QED
    BY <1>2, <1>3, <1>4 DEF ClaimedOnce

-----------------------------------------------------------------------------
(* The passes.                                                             *)

(* The run row of the claim under way is open: closing it takes open to a  *)
(* natural number again, and to the one the passes still at work account   *)
(* for.                                                                    *)
LEMMA EndRunCounts ==
    ASSUME IInv, NEW p \in Passes, cur[p] # Idle, up = "up", EndRun(cur[p].job)
    PROVE  /\ open' \in [Jobs -> Nat]
           /\ \A k \in Jobs : row[k].there =>
                open'[k] = IF k = cur[p].job /\ Mode[k] = "execute"
                           THEN open[k] - 1 ELSE open[k]
           /\ \A k \in Jobs : ~row[k].there => open'[k] = 0
<1> DEFINE j == cur[p].job
<1>0. RowsOK /\ PassesOK /\ CountsOK
    BY TypeParts DEF IInv
<1>1. j \in Jobs
    BY <1>0, CurJob
<1>2. open[j] \in Nat /\ manual[j] \in Nat
    BY <1>0, <1>1 DEF CountsOK
<1>3. row[j].there /\ Mode[j] = "execute" => open[j] - 1 \in Nat
    <2> SUFFICES ASSUME row[j].there, Mode[j] = "execute" PROVE open[j] - 1 \in Nat
        OBVIOUS
    <2>1. open[j] = manual[j] + Busy("tick", j) + Busy("drain", j)
        BY <1>1 DEF IInv, RunsKept
    <2>2. Busy(p, j) = 1
        BY DEF Busy
    <2>3. Busy("tick", j) \in 0..1 /\ Busy("drain", j) \in 0..1
        BY DEF Busy
    <2>4. open[j] >= 1
        BY <1>2, <2>1, <2>2, <2>3 DEF Passes
    <2> QED
        BY <1>2, <2>4
<1>4. open' = IF Mode[j] = "execute" /\ row[j].there
              THEN [open EXCEPT ![j] = @ - 1] ELSE open
    BY DEF EndRun, CloseRun
<1>5. open' \in [Jobs -> Nat]
    BY <1>0, <1>1, <1>3, <1>4 DEF CountsOK
<1> HIDE DEF j
<1>6. \A k \in Jobs : row[k].there =>
        open'[k] = IF k = j /\ Mode[k] = "execute" THEN open[k] - 1 ELSE open[k]
    BY <1>0, <1>1, <1>4 DEF CountsOK
<1>7. \A k \in Jobs : ~row[k].there => open'[k] = 0
    BY <1>0, <1>1, <1>4 DEF CountsOK, IInv, RunsKept
<1> QED
    BY <1>5, <1>6, <1>7 DEF j

(* However the work of a claim ends, the invariant holds after it.         *)
LEMMA WorkEndedInv ==
    ASSUME IInv, NEW p \in Passes, Quiet, cur[p] # Idle, EndPass(p),
           RowsSettle, \A k \in Jobs \ {cur[p].job} : row'[k] = row[k],
           EndRun(cur[p].job),
           todo' \in [Passes -> SUBSET Claims],
           \A q \in Passes : todo'[q] \subseteq todo[q],
           owed' \subseteq owed, fails' \in [Jobs -> Nat],
           UNCHANGED <<manual, up, over, nowLeft, crashesLeft, came>>
    PROVE  IInv'
<1> DEFINE j == cur[p].job
<1>0. RowsOK /\ PassesOK /\ CountsOK /\ MarksOK /\ DownIsIdle
    BY TypeParts DEF IInv
<1>1. up = "up" /\ j \in Jobs
    BY <1>0, CurJob DEF Quiet
<1>2. /\ open' \in [Jobs -> Nat]
      /\ \A k \in Jobs : row[k].there =>
           open'[k] = IF k = j /\ Mode[k] = "execute"
                      THEN open[k] - 1 ELSE open[k]
      /\ \A k \in Jobs : ~row[k].there => open'[k] = 0
    BY <1>1, EndRunCounts
<1>3. PassesOK'
    BY <1>0 DEF PassesOK, EndPass
<1>4. CountsOK' /\ MarksOK' /\ DownIsIdle'
    BY <1>0, <1>1, <1>2 DEF CountsOK, MarksOK, DownIsIdle
<1>5. RunsKept'
    <2> SUFFICES ASSUME NEW k \in Jobs
                 PROVE  IF row'[k].there
                        THEN open'[k] = manual[k] + Busy("tick", k)'
                                                  + Busy("drain", k)'
                        ELSE open'[k] = 0
        BY <1>1 DEF RunsKept
    <2>1. row'[k].there = row[k].there
        BY DEF RowsSettle, Settles
    <2>2. CASE ~row[k].there
        BY <1>2, <2>1, <2>2
    <2>3. CASE row[k].there
        <3>1. open[k] = manual[k] + Busy("tick", k) + Busy("drain", k)
            BY <1>1, <2>3 DEF IInv, RunsKept
        <3>2. \A q \in Passes : q # p => Busy(q, k)' = Busy(q, k)
            BY <1>0 DEF Busy, EndPass, PassesOK
        <3>3. Busy(p, k)' = 0
            BY <1>0, SchedulesAssumption DEF Busy, EndPass, PassesOK, Idle
        <3>4. Busy(p, k) = IF k = j /\ Mode[k] = "execute" THEN 1 ELSE 0
            BY DEF Busy
        <3>5. open'[k] = open[k] - Busy(p, k)
            BY <1>0, <1>2, <2>3, <3>4 DEF CountsOK
        <3>6. /\ manual[k] \in Nat
              /\ Busy("tick", k) \in 0..1
              /\ Busy("drain", k) \in 0..1
            BY <1>0 DEF CountsOK, Busy
        <3> QED
            BY <2>1, <2>3, <3>1, <3>2, <3>3, <3>5, <3>6 DEF Passes
    <2> QED
        BY <2>2, <2>3
<1>6. HasTime'
    BY SettledHasTime DEF IInv
<1>7. ClaimsShrink
    BY <1>0 DEF ClaimsShrink, EndPass, PassesOK
<1>8. ASSUME NEW k \in OneShots, k = j PROVE ~InPass(k)'
    <2>1. \A q \in Passes : cur'[q].job # k
        BY <1>0, <1>1, <1>8, SchedulesAssumption
        DEF IInv, ClaimedOnce, EndPass, PassesOK, Idle
    <2>2. \A q \in Passes : \A c \in todo[q] : c.job # k
        BY <1>1, <1>8 DEF IInv, ClaimedOnce
    <2>3. \A q \in Passes : \A c \in todo'[q] : c.job # k
        BY <2>2
    <2> QED
        BY <2>1, <2>3 DEF InPass
<1>9. ASSUME NEW k \in OneShots, InPass(k)' PROVE row'[k] = row[k]
    <2>1. k # j
        BY <1>8, <1>9
    <2> QED
        BY <2>1, SchedulesAssumption
<1>10. ClaimedOnce'
    BY <1>7, <1>9, ShrinkKeepsOnce DEF IInv
<1>11. RowsOK'
    BY DEF RowsSettle
<1> QED
    BY <1>3, <1>4, <1>5, <1>6, <1>10, <1>11, TypePartsNext DEF IInv

(* A success settles the row of its job and touches no other.              *)
LEMMA SucceedSettles ==
    ASSUME IInv, NEW p \in Passes, Succeed(p)
    PROVE  RowsSettle /\ \A k \in Jobs \ {cur[p].job} : row'[k] = row[k]
<1>1. RowsOK /\ cur[p].job \in Jobs
    BY TypeParts, CurJob DEF IInv, Succeed
<1> QED
    BY <1>1, SuccessSettles, SetRowSettles DEF Succeed

(* A success keeps the invariant.                                          *)
LEMMA SucceedInv == ASSUME IInv, NEW p \in Passes, Succeed(p) PROVE IInv'
<1> DEFINE j == cur[p].job
<1>0. RowsOK /\ PassesOK /\ CountsOK /\ j \in Jobs
    BY TypeParts, CurJob DEF IInv, Succeed
<1>1. RowsSettle /\ \A k \in Jobs \ {j} : row'[k] = row[k]
    BY SucceedSettles
<1>2. fails' \in [Jobs -> Nat]
    BY <1>0 DEF Succeed, CountsOK
<1>3. /\ todo' \in [Passes -> SUBSET Claims]
      /\ \A q \in Passes : todo'[q] \subseteq todo[q]
    BY <1>0 DEF Succeed, PassesOK
<1> QED
    BY <1>1, <1>2, <1>3, WorkEndedInv DEF Succeed

(* A failure settles the row of its job and touches no other.              *)
LEMMA FailSettles ==
    ASSUME IInv, NEW p \in Passes, Fail(p)
    PROVE  RowsSettle /\ \A k \in Jobs \ {cur[p].job} : row'[k] = row[k]
<1>1. RowsOK /\ cur[p].job \in Jobs
    BY TypeParts, CurJob DEF IInv, Fail
<1>2. row[cur[p].job] \in Rows
    BY <1>1 DEF RowsOK
<1> QED
    BY <1>1, <1>2, FailureSettles, SetRowSettles DEF Fail

(* A failure keeps the invariant.                                          *)
LEMMA FailInv == ASSUME IInv, NEW p \in Passes, Fail(p) PROVE IInv'
<1> DEFINE j == cur[p].job
<1>0. RowsOK /\ PassesOK /\ CountsOK /\ j \in Jobs
    BY TypeParts, CurJob DEF IInv, Fail
<1>1. RowsSettle /\ \A k \in Jobs \ {j} : row'[k] = row[k]
    BY FailSettles
<1>2. fails' \in [Jobs -> Nat]
    BY <1>0 DEF Fail, CountsOK
<1>3. /\ todo' \in [Passes -> SUBSET Claims]
      /\ \A q \in Passes : todo'[q] \subseteq todo[q]
    BY <1>0 DEF Fail, PassesOK
<1> QED
    BY <1>1, <1>2, <1>3, WorkEndedInv DEF Fail

(* A pass that dies of an insert for a deleted job keeps the invariant:    *)
(* the run it could not insert is not counted.                             *)
LEMMA ThrowInv == ASSUME IInv, NEW p \in Passes, Throw(p) PROVE IInv'
<1>0. RowsOK /\ PassesOK /\ CountsOK
    BY TypeParts DEF IInv
<1>1. RowsSettle /\ \A k \in Jobs \ {cur[p].job} : row'[k] = row[k]
    BY <1>0, RowsStay DEF Throw
<1>2. EndRun(cur[p].job)
    BY DEF Throw, EndRun
<1>3. /\ todo' \in [Passes -> SUBSET Claims]
      /\ \A q \in Passes : todo'[q] \subseteq todo[q]
    BY <1>0 DEF Throw, Abandon, PassesOK
<1> QED
    BY <1>0, <1>1, <1>2, <1>3, WorkEndedInv DEF Throw, CountsOK

(* A wake that timed out or was not invoked settles the row of its job     *)
(* and touches no other.                                                   *)
LEMMA WakeEndsSettle ==
    ASSUME IInv, NEW p \in Passes, WakeTimesOut(p) \/ WakeNotInvoked(p)
    PROVE  RowsSettle /\ \A k \in Jobs \ {cur[p].job} : row'[k] = row[k]
<1> DEFINE j == cur[p].job
           r == row[j]
<1>1. RowsOK /\ j \in Jobs
    BY TypeParts, CurJob DEF IInv, WakeTimesOut, WakeNotInvoked
<1>2. /\ Settles(r, r)
      /\ Settles(r, FailPermanently(r)) /\ Settles(r, CompleteOneShot(r))
      /\ Settles(r, RetryOneShot(r))
    BY <1>1, SettlesStay, LeaveSettles, RetrySettles DEF RowsOK
<1>3. PICK s : SetRow(j, s) /\ Settles(r, s)
    <2>1. CASE WakeTimesOut(p)
        BY <1>2, <2>1 DEF WakeTimesOut
    <2>2. CASE WakeNotInvoked(p)
        BY <1>2, <2>2 DEF WakeNotInvoked
    <2> QED
        BY <2>1, <2>2
<1> QED
    BY <1>1, <1>3, SetRowSettles

(* A wake that timed out or was not invoked keeps the invariant.           *)
LEMMA WakeEndsInv ==
    ASSUME IInv, NEW p \in Passes, WakeTimesOut(p) \/ WakeNotInvoked(p)
    PROVE  IInv'
<1> DEFINE j == cur[p].job
<1>0. PassesOK /\ CountsOK
    BY TypeParts DEF IInv
<1>1. EndRun(j)
    BY DEF WakeTimesOut, WakeNotInvoked, EndRun
<1>2. /\ todo' \in [Passes -> SUBSET Claims]
      /\ \A q \in Passes : todo'[q] \subseteq todo[q]
    BY <1>0 DEF WakeTimesOut, WakeNotInvoked, PassesOK
<1> QED
    BY <1>0, <1>1, <1>2, WakeEndsSettle, WorkEndedInv
    DEF WakeTimesOut, WakeNotInvoked, CountsOK

(* A claim takes no row's time from it while it leaves it enabled.         *)
LEMMA ClaimedRowType ==
    ASSUME RowsOK, NEW j \in Jobs, NEW spent
    PROVE  /\ ClaimedRow(j, spent) \in Rows
           /\ ClaimedRow(j, spent).there = row[j].there
<1>1. "firing" \in Statuses /\ "off" \in Times /\ "later" \in Times
    BY DEF Statuses, Times
<1> QED
    BY <1>1 DEF ClaimedRow, RowsOK, Rows

(* Claiming what is due keeps the invariant: a one-shot that is due is     *)
(* active, so no pass holds it yet (claimDueSchedules).                    *)
LEMMA ClaimInv == ASSUME IInv, NEW p \in Passes, Claim(p) PROVE IInv'
<1>0. RowsOK /\ PassesOK /\ CountsOK /\ MarksOK /\ DownIsIdle
    BY TypeParts DEF IInv
<1>1. PICK spent \in SUBSET Expiring : ClaimDue(p, spent)
    BY DEF Claim
<1> DEFINE due == {j \in Jobs : Due(j)}
           claimed == {[job |-> j, tries |-> row[j].tries] : j \in due}
<1>2. \A j \in Jobs : row'[j] = IF Due(j) THEN ClaimedRow(j, spent) ELSE row[j]
    BY <1>1 DEF ClaimDue
<1>3. RowsOK'
    BY <1>0, <1>1, <1>2, ClaimedRowType DEF ClaimDue, RowsOK
<1>4. \A j \in Jobs : row'[j].there = row[j].there
    BY <1>0, <1>2, ClaimedRowType
<1>5. claimed \subseteq Claims
    BY <1>0 DEF RowsOK, Rows, Claims
<1>6. todo' = [todo EXCEPT ![p] = claimed] /\ cur' = cur /\ cur[p] = Idle
    BY <1>1 DEF ClaimDue, Free
<1>7. PassesOK'
    BY <1>0, <1>5, <1>6 DEF PassesOK
<1>8. CountsOK' /\ MarksOK'
    BY <1>0, <1>1 DEF ClaimDue, CountsOK, MarksOK
<1>9. up = "up" /\ DownIsIdle'
    BY <1>1 DEF ClaimDue, Quiet, DownIsIdle
<1>10. RunsKept'
    BY <1>1, <1>4, <1>6 DEF IInv, RunsKept, Busy, ClaimDue
<1>11. HasTime'
    <2>1. ASSUME NEW j \in Jobs
          PROVE  /\ row'[j].next # "off" \/ row'[j].next = row[j].next \/ ~row'[j].enabled
                 /\ row'[j].there = row[j].there
                 /\ row'[j].enabled => row[j].enabled
                 /\ j \in OneShots => row'[j].next = row[j].next
        BY <1>0, <1>2 DEF ClaimedRow, RowsOK, Rows
    <2> QED
        BY <2>1, SchedulesAssumption DEF IInv, HasTime, OneShotHasTime, EnabledHasTime
<1>12. ClaimedOnce'
    <2>1. ASSUME NEW j \in OneShots, Due(j) PROVE ~InPass(j)
        BY <2>1 DEF IInv, ClaimedOnce, Due
    <2>2. \A j \in OneShots : Due(j) => row'[j].status = "firing"
        BY <1>0, <1>2, SchedulesAssumption DEF ClaimedRow, RowsOK, Rows
    <2>3. ASSUME NEW c \in claimed PROVE c.job \in due
        OBVIOUS
    <2>4. ASSUME NEW c \in claimed, NEW d \in claimed, c.job = d.job PROVE c = d
        BY <2>4
    <2>5. /\ todo'[p] = claimed
          /\ \A q \in Passes \ {p} : todo'[q] = todo[q]
        BY <1>0, <1>6 DEF PassesOK
    <2> HIDE DEF claimed
    <2>6. ASSUME NEW j \in OneShots, InPass(j)', row'[j].there
          PROVE  row'[j].status = "firing"
        <3>1. CASE Due(j)
            BY <2>2, <3>1
        <3>2. CASE ~Due(j)
            <4>1. InPass(j)
                BY <1>6, <2>3, <2>5, <2>6, <3>2 DEF InPass
            <4>2. row'[j] = row[j]
                BY <1>2, <3>2, SchedulesAssumption
            <4> QED
                BY <2>6, <4>1, <4>2 DEF IInv, ClaimedOnce
        <3> QED
            BY <3>1, <3>2
    <2>7. ASSUME NEW j \in OneShots, NEW q \in Passes
          PROVE  /\ \A c, d \in todo'[q] : c.job = j /\ d.job = j => c = d
                 /\ \A c \in todo'[q] : c.job = j => cur'[q].job # j
        BY <1>6, <2>4, <2>5, SchedulesAssumption DEF IInv, ClaimedOnce, Idle
    <2>8. ASSUME NEW j \in OneShots, NEW q \in Passes, NEW s \in Passes \ {q},
                 NEW c \in todo'[q] \cup {cur'[q]}, c.job = j,
                 NEW d \in todo'[s] \cup {cur'[s]}
          PROVE  d.job # j
        <3>1. CASE Due(j)
            <4>1. \A x \in Passes \ {p} :
                    cur'[x].job # j /\ \A e \in todo'[x] : e.job # j
                BY <1>6, <2>1, <2>5, <3>1 DEF InPass
            <4> QED
                BY <2>8, <4>1
        <3>2. CASE ~Due(j)
            <4>1. \A e \in claimed : e.job # j
                BY <2>3, <3>2
            <4>2. c \in todo[q] \cup {cur[q]} /\ d.job = j =>
                    d \in todo[s] \cup {cur[s]}
                BY <1>6, <2>5, <2>8, <4>1
            <4>3. c \in todo[q] \cup {cur[q]}
                BY <1>6, <2>5, <2>8, <4>1
            <4> QED
                BY <2>8, <4>2, <4>3 DEF IInv, ClaimedOnce
        <3> QED
            BY <3>1, <3>2
    <2> QED
        BY <2>6, <2>7, <2>8 DEF ClaimedOnce
<1> QED
    BY <1>3, <1>7, <1>8, <1>9, <1>10, <1>11, <1>12, TypePartsNext DEF IInv

(* Starting the next claim keeps the invariant: the claim moves within     *)
(* its pass, and its run row is opened with it (createScheduleRun).        *)
LEMMA StartInv == ASSUME IInv, NEW p \in Passes, StartNext(p) PROVE IInv'
<1>0. RowsOK /\ PassesOK /\ CountsOK /\ MarksOK /\ DownIsIdle
    BY TypeParts DEF IInv
<1>1. PICK c \in todo[p] : Start(p, c)
    BY DEF StartNext
<1> DEFINE j == c.job
<1>2. c \in Claims /\ j \in Jobs
    BY <1>0 DEF PassesOK, Claims
<1>3. row' = row /\ up = "up" /\ up' = "up" /\ cur[p] = Idle
    BY <1>1 DEF Start
<1>4. /\ todo' \in [Passes -> SUBSET Claims]
      /\ \A q \in Passes : todo'[q] \subseteq todo[q]
    BY <1>0, <1>1 DEF Start, Abandon, PassesOK
<1>5. PassesOK'
    BY <1>0, <1>1, <1>2, <1>4 DEF Start, PassesOK
<1>6. open' = open \/ (row[j].there /\ open' = [open EXCEPT ![j] = @ + 1])
    BY <1>1 DEF Start, CreateRun
<1>7. CountsOK' /\ MarksOK'
    BY <1>0, <1>1, <1>2, <1>6 DEF Start, CountsOK, MarksOK
<1>8. DownIsIdle'
    BY <1>3 DEF DownIsIdle
<1>9. RunsKept'
    <2> SUFFICES ASSUME NEW k \in Jobs
                 PROVE  IF row[k].there
                        THEN open'[k] = manual'[k] + Busy("tick", k)'
                                                   + Busy("drain", k)'
                        ELSE open'[k] = 0
        BY <1>3 DEF RunsKept
    <2>0. manual' = manual
        BY <1>1 DEF Start
    <2>1. CASE ~row[k].there
        BY <1>0, <1>2, <1>6, <2>1 DEF IInv, RunsKept, CountsOK
    <2>2. CASE row[k].there
        <3>1. open[k] = manual[k] + Busy("tick", k) + Busy("drain", k)
            BY <1>3, <2>2 DEF IInv, RunsKept
        <3>2. \A q \in Passes : q # p => Busy(q, k)' = Busy(q, k)
            BY <1>0, <1>1 DEF Busy, Start, PassesOK
        <3>3. Busy(p, k) = 0
            BY <1>3, SchedulesAssumption DEF Busy, Idle
        <3>4. open'[k] = open[k] + Busy(p, k)'
            <4>1. CASE k = j /\ Mode[j] = "execute"
                <5>1. cur'[p] = c /\ open'[k] = open[k] + 1
                    BY <1>0, <1>1, <1>2, <2>2, <4>1
                    DEF Start, CreateRun, PassesOK, CountsOK
                <5> QED
                    BY <4>1, <5>1 DEF Busy
            <4>2. CASE ~(k = j /\ Mode[j] = "execute")
                <5>1. open'[k] = open[k] /\ cur'[p] \in {Idle, c}
                    BY <1>0, <1>1, <1>2, <1>3, <2>2, <4>2
                    DEF Start, CreateRun, PassesOK, CountsOK
                <5>2. Busy(p, k)' = 0
                    BY <4>2, <5>1, SchedulesAssumption DEF Busy, Idle
                <5> QED
                    BY <1>0, <5>1, <5>2 DEF CountsOK
            <4> QED
                BY <4>1, <4>2
        <3>5. manual[k] \in Nat /\ \A q \in Passes : Busy(q, k)' \in 0..1
            BY <1>0 DEF CountsOK, Busy
        <3>6. Busy("tick", k) \in 0..1 /\ Busy("drain", k) \in 0..1
            BY DEF Busy
        <3>7. p = "tick" \/ p = "drain"
            BY DEF Passes
        <3> QED
            BY <2>0, <2>2, <3>1, <3>2, <3>3, <3>4, <3>5, <3>6, <3>7 DEF Passes
    <2> QED
        BY <2>1, <2>2
<1>10. HasTime'
    BY <1>3 DEF IInv, HasTime, OneShotHasTime, EnabledHasTime
<1>11. ClaimedOnce'
    <2>1. CASE cur' = cur
        <3>1. ClaimsShrink
            BY <1>4, <2>1 DEF ClaimsShrink
        <3> QED
            BY <1>3, <3>1, ShrinkKeepsOnce DEF IInv
    <2>2. CASE cur' # cur
        <3>1. /\ cur' = [cur EXCEPT ![p] = c]
              /\ todo' = [todo EXCEPT ![p] = @ \ {c}]
            BY <1>1, <2>2 DEF Start
        <3>2. /\ cur'[p] = c /\ todo'[p] = todo[p] \ {c}
              /\ \A q \in Passes \ {p} : cur'[q] = cur[q] /\ todo'[q] = todo[q]
            BY <1>0, <3>1 DEF PassesOK
        <3>3. \A k \in OneShots : InPass(k)' => InPass(k)
            BY <3>2 DEF InPass
        <3>4. \A q \in Passes :
                todo'[q] \cup {cur'[q]} \subseteq todo[q] \cup {cur[q]}
            BY <3>2
        <3>5. ASSUME NEW k \in OneShots, NEW q \in Passes
              PROVE  /\ \A d, e \in todo'[q] : d.job = k /\ e.job = k => d = e
                     /\ \A d \in todo'[q] : d.job = k => cur'[q].job # k
            BY <1>4, <3>2 DEF IInv, ClaimedOnce
        <3>6. ASSUME NEW k \in OneShots, NEW q \in Passes
              PROVE  \A s \in Passes \ {q}, d \in todo'[q] \cup {cur'[q]} :
                       d.job = k =>
                         \A e \in todo'[s] \cup {cur'[s]} : e.job # k
            BY <3>4 DEF IInv, ClaimedOnce
        <3>7. \A k \in OneShots :
                InPass(k)' /\ row'[k].there => row'[k].status = "firing"
            BY <1>3, <3>3 DEF IInv, ClaimedOnce
        <3> QED
            BY <3>5, <3>6, <3>7 DEF ClaimedOnce
    <2> QED
        BY <2>1, <2>2
<1> QED
    BY <1>0, <1>3, <1>5, <1>7, <1>8, <1>9, <1>10, <1>11, TypePartsNext
    DEF IInv, RowsOK

-----------------------------------------------------------------------------
(* The clock and the user.                                                 *)

(* A step that leaves the passes alone keeps every claim single when it    *)
(* leaves the status of the rows, or they were not firing.                 *)
LEMMA OnceStays ==
    ASSUME ClaimedOnce, todo' = todo, cur' = cur,
           \A j \in OneShots : row'[j].there =>
             /\ row[j].there
             /\ row[j].status = "firing" => row'[j].status = "firing"
    PROVE  ClaimedOnce'
BY ShrinkKeepsOnce DEF ClaimsShrink

(* Passes that are left alone stay well typed.                             *)
LEMMA PassesStay ==
    ASSUME PassesOK, DownIsIdle, todo' = todo, cur' = cur,
           up' = up, up = "up" \/ manual' = manual
    PROVE  PassesOK' /\ DownIsIdle'
BY DEF PassesOK, DownIsIdle

(* The runs stay accounted for when nobody's run opens or ends and no row  *)
(* goes.                                                                   *)
LEMMA RunsStay ==
    ASSUME RunsKept, \A j \in Jobs : row'[j].there = row[j].there,
           open' = open, manual' = manual, cur' = cur, up' = up
    PROVE  RunsKept'
BY DEF RunsKept, Busy

(* The clock keeps the invariant.                                          *)
LEMMA ElapseInv == ASSUME IInv, NEW j \in Jobs, Elapse(j) PROVE IInv'
<1>0. RowsOK /\ PassesOK /\ CountsOK /\ MarksOK /\ DownIsIdle
    BY TypeParts DEF IInv
<1>1. row' = [row EXCEPT ![j].next = "due"]
    BY DEF Elapse
<1>2. RowsOK'
    BY <1>0, <1>1 DEF RowsOK, Rows, Times
<1>3. \A k \in Jobs : /\ row'[k].there = row[k].there
                      /\ row'[k].enabled = row[k].enabled
                      /\ row'[k].status = row[k].status
                      /\ row'[k].next \in {row[k].next, "due"}
    BY <1>0, <1>1 DEF RowsOK, Rows
<1>4. PassesOK' /\ DownIsIdle' /\ CountsOK' /\ MarksOK'
    BY <1>0, PassesStay DEF Elapse, CountsOK, MarksOK
<1>5. RunsKept' /\ ClaimedOnce'
    BY <1>3, RunsStay, OnceStays, SchedulesAssumption DEF IInv, Elapse
<1>6. HasTime'
    BY <1>3, SchedulesAssumption DEF IInv, HasTime, OneShotHasTime, EnabledHasTime
<1> QED
    BY <1>2, <1>4, <1>5, <1>6, TypePartsNext DEF IInv

(* Enabling and disabling keep the invariant (updateSchedule).             *)
LEMMA ToggleInv == ASSUME IInv, NEW j \in Jobs, Toggle(j) PROVE IInv'
<1>0. RowsOK /\ PassesOK /\ CountsOK /\ MarksOK /\ DownIsIdle
    BY TypeParts DEF IInv
<1> DEFINE on == ~row[j].enabled
           r == [row[j] EXCEPT !.enabled = on]
           s == IF j \in OneShots THEN r
                ELSE [r EXCEPT !.next = IF on THEN "later" ELSE "off"]
<1>1. row' = [row EXCEPT ![j] = s]
    BY <1>0 DEF Toggle, SetRow, RowsOK
<1>2. s \in Rows
    <2>1. r \in Rows
        BY <1>0 DEF RowsOK, Rows
    <2>2. "later" \in Times /\ "off" \in Times
        BY DEF Times
    <2> HIDE DEF r
    <2> QED
        BY <2>1, <2>2 DEF Rows
<1>3. /\ s.there = row[j].there /\ s.status = row[j].status
      /\ j \in OneShots => s.next = row[j].next
      /\ s.enabled /\ j \notin OneShots => s.next = "later"
    BY <1>0 DEF RowsOK, Rows
<1> HIDE DEF s
<1>4. RowsOK'
    BY <1>0, <1>1, <1>2 DEF RowsOK
<1>5. \A k \in Jobs : /\ row'[k].there = row[k].there
                      /\ row'[k].status = row[k].status
    BY <1>0, <1>1, <1>3 DEF RowsOK
<1>6. PassesOK' /\ DownIsIdle' /\ CountsOK' /\ MarksOK'
    BY <1>0, PassesStay DEF Toggle, CountsOK, MarksOK
<1>7. RunsKept' /\ ClaimedOnce'
    BY <1>5, RunsStay, OnceStays, SchedulesAssumption DEF IInv, Toggle
<1>8. HasTime'
    BY <1>0, <1>1, <1>3, SchedulesAssumption
    DEF IInv, HasTime, OneShotHasTime, EnabledHasTime, RowsOK
<1> QED
    BY <1>4, <1>6, <1>7, <1>8, TypePartsNext DEF IInv

(* Cancelling keeps the invariant: a firing one-shot is not cancelled      *)
(* (cancelSchedule).                                                       *)
LEMMA CancelInv == ASSUME IInv, NEW j \in Jobs, Cancel(j) PROVE IInv'
<1>0. RowsOK /\ PassesOK /\ CountsOK /\ MarksOK /\ DownIsIdle
    BY TypeParts DEF IInv
<1>1. /\ row' = [row EXCEPT ![j].status = "cancelled", ![j].enabled = FALSE]
      /\ row[j].status = "active"
    BY DEF Cancel
<1>2. RowsOK'
    BY <1>0, <1>1 DEF RowsOK, Rows, Statuses
<1>3. \A k \in Jobs : /\ row'[k].there = row[k].there
                      /\ row[k].status = "firing" => row'[k].status = "firing"
                      /\ row'[k].enabled => row[k].enabled
                      /\ row'[k].next = row[k].next
    BY <1>0, <1>1 DEF RowsOK, Rows
<1>4. PassesOK' /\ DownIsIdle' /\ CountsOK' /\ MarksOK'
    BY <1>0, PassesStay DEF Cancel, CountsOK, MarksOK
<1>5. RunsKept' /\ ClaimedOnce'
    BY <1>3, RunsStay, OnceStays, SchedulesAssumption DEF IInv, Cancel
<1>6. HasTime'
    BY <1>3, SchedulesAssumption DEF IInv, HasTime, OneShotHasTime, EnabledHasTime
<1> QED
    BY <1>2, <1>4, <1>5, <1>6, TypePartsNext DEF IInv

(* Deleting keeps the invariant: the runs go with the row, whoever still   *)
(* works on it (deleteSchedule).                                           *)
LEMMA DeleteInv == ASSUME IInv, NEW j \in Jobs, Delete(j) PROVE IInv'
<1>0. RowsOK /\ PassesOK /\ CountsOK /\ MarksOK /\ DownIsIdle
    BY TypeParts DEF IInv
<1>1. /\ row' = [row EXCEPT ![j].there = FALSE]
      /\ open' = [open EXCEPT ![j] = 0]
    BY DEF Delete
<1>2. RowsOK'
    BY <1>0, <1>1 DEF RowsOK, Rows
<1>3. /\ ~row'[j].there /\ open'[j] = 0
      /\ \A k \in Jobs \ {j} : row'[k] = row[k] /\ open'[k] = open[k]
      /\ \A k \in Jobs : row'[k].next = row[k].next
    BY <1>0, <1>1 DEF RowsOK, Rows, CountsOK
<1>4. PassesOK' /\ DownIsIdle' /\ CountsOK' /\ MarksOK'
    BY <1>0, PassesStay DEF Delete, CountsOK, MarksOK
<1>5. RunsKept'
    BY <1>3 DEF IInv, RunsKept, Busy, Delete
<1>6. ClaimedOnce'
    BY <1>3, OnceStays, SchedulesAssumption DEF IInv, Delete
<1>7. HasTime'
    BY <1>3, SchedulesAssumption DEF IInv, HasTime, OneShotHasTime, EnabledHasTime
<1> QED
    BY <1>2, <1>4, <1>5, <1>6, <1>7, TypePartsNext DEF IInv

(* Starting a manual run keeps the invariant.                              *)
LEMMA RunNowInv == ASSUME IInv, NEW j \in Jobs, RunNow(j) PROVE IInv'
<1>0. RowsOK /\ PassesOK /\ CountsOK /\ MarksOK /\ DownIsIdle
    BY TypeParts DEF IInv
<1>1. /\ row' = row /\ up = "up" /\ up' = up /\ row[j].there
      /\ open' = [open EXCEPT ![j] = @ + 1]
      /\ manual' = [manual EXCEPT ![j] = @ + 1]
    BY DEF RunNow, Quiet, CreateRun
<1>2. CountsOK' /\ MarksOK'
    BY <1>0, <1>1, SchedulesAssumption DEF RunNow, CountsOK, MarksOK
<1>3. PassesOK' /\ DownIsIdle'
    BY <1>0, <1>1, PassesStay DEF RunNow
<1>4. RunsKept'
    <2>1. \A k \in Jobs \ {j} : open'[k] = open[k] /\ manual'[k] = manual[k]
        BY <1>0, <1>1 DEF CountsOK
    <2>2. open'[j] = open[j] + 1 /\ manual'[j] = manual[j] + 1
        BY <1>0, <1>1 DEF CountsOK
    <2>3. \A k \in Jobs : /\ Busy("tick", k)' = Busy("tick", k)
                          /\ Busy("drain", k)' = Busy("drain", k)
                          /\ Busy("tick", k) \in 0..1
                          /\ Busy("drain", k) \in 0..1
        BY DEF Busy, RunNow
    <2>4. open[j] \in Nat /\ manual[j] \in Nat
        BY <1>0 DEF CountsOK
    <2> QED
        BY <1>1, <2>1, <2>2, <2>3, <2>4 DEF IInv, RunsKept
<1>5. RowsOK' /\ HasTime' /\ ClaimedOnce'
    BY <1>0, <1>1, OnceStays
    DEF IInv, RowsOK, HasTime, OneShotHasTime, EnabledHasTime, RunNow
<1> QED
    BY <1>2, <1>3, <1>4, <1>5, TypePartsNext DEF IInv

(* The end of a manual run settles the row of its job and touches no       *)
(* other.                                                                  *)
LEMMA RunNowEndsSettles ==
    ASSUME IInv, NEW j \in Jobs, NEW ok \in BOOLEAN, RunNowEnds(j, ok)
    PROVE  RowsSettle /\ \A k \in Jobs \ {j} : row'[k] = row[k]
<1>1. RowsOK /\ row[j] \in Rows
    BY TypeParts DEF IInv, RowsOK
<1> QED
    BY <1>1, CompleteSettles, SetRowSettles DEF RunNowEnds

(* The run row of a manual run is open until it ends.                      *)
LEMMA RunNowEndsInv ==
    ASSUME IInv, NEW j \in Jobs, NEW ok \in BOOLEAN, RunNowEnds(j, ok)
    PROVE  IInv'
<1>0. RowsOK /\ PassesOK /\ CountsOK /\ MarksOK /\ DownIsIdle
    BY TypeParts DEF IInv
<1>1. RowsSettle /\ \A k \in Jobs \ {j} : row'[k] = row[k]
    BY RunNowEndsSettles
<1>2. /\ up = "up" /\ up' = up /\ todo' = todo /\ cur' = cur /\ manual[j] > 0
      /\ manual' = [manual EXCEPT ![j] = @ - 1]
      /\ open' = CloseRun(j)
    BY DEF RunNowEnds, Quiet
<1>3. \A k \in Jobs : /\ Busy("tick", k)' = Busy("tick", k)
                      /\ Busy("drain", k)' = Busy("drain", k)
                      /\ Busy("tick", k) \in 0..1
                      /\ Busy("drain", k) \in 0..1
    BY <1>2 DEF Busy
<1>4. open[j] \in Nat /\ manual[j] \in Nat
    BY <1>0 DEF CountsOK
<1>5. row[j].there => open[j] = manual[j] + Busy("tick", j) + Busy("drain", j)
    BY <1>2 DEF IInv, RunsKept
<1>6. row[j].there => open[j] - 1 \in Nat
    BY <1>2, <1>3, <1>4, <1>5
<1>7. /\ row[j].there => open' = [open EXCEPT ![j] = @ - 1]
      /\ ~row[j].there => open' = open
    BY <1>2 DEF CloseRun
<1>8. CountsOK' /\ MarksOK'
    <2>1. open' \in [Jobs -> Nat]
        BY <1>0, <1>6, <1>7 DEF CountsOK
    <2>2. manual[j] - 1 \in Nat
        BY <1>2, <1>4
    <2> QED
        BY <1>0, <1>2, <2>1, <2>2 DEF RunNowEnds, CountsOK, MarksOK
<1>9. PassesOK' /\ DownIsIdle'
    BY <1>0, <1>2, PassesStay
<1>10. RunsKept'
    <2>1. \A k \in Jobs \ {j} : open'[k] = open[k] /\ manual'[k] = manual[k]
        BY <1>0, <1>2, <1>7 DEF CountsOK
    <2>2. manual'[j] = manual[j] - 1
        BY <1>0, <1>2 DEF CountsOK
    <2>3. /\ row[j].there => open'[j] = open[j] - 1
          /\ ~row[j].there => open'[j] = open[j]
        BY <1>0, <1>7 DEF CountsOK
    <2>4. \A k \in Jobs : row'[k].there = row[k].there
        BY <1>1 DEF RowsSettle, Settles
    <2>5. ASSUME NEW k \in Jobs \ {j}
          PROVE  IF row'[k].there
                 THEN open'[k] = manual'[k] + Busy("tick", k)' + Busy("drain", k)'
                 ELSE open'[k] = 0
        BY <1>2, <1>3, <2>1, <2>4 DEF IInv, RunsKept
    <2>6. IF row'[j].there
          THEN open'[j] = manual'[j] + Busy("tick", j)' + Busy("drain", j)'
          ELSE open'[j] = 0
        <3>1. CASE row[j].there
            BY <1>3, <1>4, <1>5, <2>2, <2>3, <2>4, <3>1
        <3>2. CASE ~row[j].there
            BY <2>3, <2>4, <3>2 DEF IInv, RunsKept
        <3> QED
            BY <3>1, <3>2
    <2> QED
        BY <2>5, <2>6 DEF RunsKept
<1>11. HasTime'
    BY <1>1, SettledHasTime DEF IInv
<1>12. ClaimedOnce'
    <2>1. /\ row'[j].there = row[j].there
          /\ row'[j].status = row[j].status
        BY <1>0 DEF RunNowEnds, SetRow, CompleteOk, CompleteError, RowsOK, Rows
    <2> QED
        BY <1>1, <1>2, <2>1, OnceStays, SchedulesAssumption DEF IInv
<1>13. RowsOK'
    BY <1>1 DEF RowsSettle
<1> QED
    BY <1>8, <1>9, <1>10, <1>11, <1>12, <1>13, TypePartsNext DEF IInv

-----------------------------------------------------------------------------
(* Death and recovery.                                                     *)

(* No pass has a claim, started or not.                                    *)
NobodyWorks == \A p \in Passes : todo[p] = {} /\ cur[p] = Idle

(* What no pass has is not held twice.                                      *)
LEMMA NobodyHolds == NobodyWorks' => ClaimedOnce'
<1> SUFFICES ASSUME NobodyWorks' PROVE ClaimedOnce'
    OBVIOUS
<1>1. \A j \in OneShots : ~InPass(j)'
    BY SchedulesAssumption DEF NobodyWorks, InPass, Idle
<1> QED
    BY <1>1, SchedulesAssumption DEF NobodyWorks, ClaimedOnce, Idle

(* Death forgets every claim and every manual run.                         *)
LEMMA DieInv ==
    ASSUME IInv, Die, RowsSettle, open' \in [Jobs -> Nat],
           \A j \in Jobs : ~row[j].there => open'[j] = 0
    PROVE  IInv'
<1>0. CountsOK /\ MarksOK
    BY TypeParts DEF IInv
<1>1. RowsOK' /\ \A j \in Jobs : row'[j].there = row[j].there
    BY DEF RowsSettle, Settles
<1>2. PassesOK' /\ DownIsIdle'
    BY DEF Die, PassesOK, DownIsIdle
<1>3. CountsOK' /\ MarksOK'
    BY <1>0, SchedulesAssumption DEF Die, CountsOK, MarksOK
<1>4. RunsKept'
    BY <1>1 DEF Die, RunsKept
<1>5. HasTime'
    BY SettledHasTime DEF IInv
<1>6. ClaimedOnce'
    BY NobodyHolds DEF NobodyWorks, Die
<1> QED
    BY <1>1, <1>2, <1>3, <1>4, <1>5, <1>6, TypePartsNext DEF IInv

(* The last write before death, if any, settles a row.                     *)
LEMMA DiesSettles == ASSUME IInv, Dies PROVE RowsSettle
<1>0. RowsOK /\ PassesOK
    BY TypeParts DEF IInv
<1>1. CASE Crash
    BY <1>0, <1>1, RowsStay DEF Crash
<1>2. ASSUME NEW p \in Passes, NEW ok \in BOOLEAN, CrashMidway(p, ok)
      PROVE  RowsSettle
    <2> DEFINE j == cur[p].job
    <2>1. j \in Jobs /\ row[j] \in Rows
        BY <1>0, <1>2, CurJob DEF CrashMidway, RowsOK
    <2>2. PICK s : SetRow(j, s) /\ Settles(row[j], s)
        BY <1>0, <1>2, <2>1, SuccessSettles, CompleteSettles DEF CrashMidway
    <2> QED
        BY <1>0, <2>1, <2>2, SetRowSettles
<1> QED
    BY <1>1, <1>2 DEF Dies

(* Death keeps the invariant, also between the two writes that close a     *)
(* run.                                                                    *)
LEMMA DiesInv == ASSUME IInv, Dies PROVE IInv'
<1>1. /\ open' \in [Jobs -> Nat]
      /\ \A k \in Jobs : ~row[k].there => open'[k] = 0
    <2>1. CASE Crash
        BY <2>1, TypeParts DEF Crash, CountsOK, IInv, RunsKept
    <2>2. ASSUME NEW p \in Passes, NEW ok \in BOOLEAN, CrashMidway(p, ok)
          PROVE  /\ open' \in [Jobs -> Nat]
                 /\ \A k \in Jobs : ~row[k].there => open'[k] = 0
        BY <2>2, EndRunCounts DEF CrashMidway, Quiet
    <2> QED
        BY <2>1, <2>2 DEF Dies
<1> QED
    BY <1>1, DiesSettles, DieInv DEF Dies, Crash, CrashMidway

(* Starting the process again keeps the invariant.                         *)
LEMMA RestartInv == ASSUME IInv, Restart PROVE IInv'
<1>0. RowsOK /\ PassesOK /\ CountsOK /\ MarksOK /\ DownIsIdle
    BY TypeParts DEF IInv
<1>1. PassesOK' /\ DownIsIdle' /\ CountsOK' /\ MarksOK' /\ RowsOK'
    BY <1>0 DEF Restart, PassesOK, DownIsIdle, CountsOK, MarksOK, RowsOK
<1>2. RunsKept'
    BY DEF IInv, Restart, RunsKept
<1>3. HasTime' /\ ClaimedOnce'
    BY OnceStays DEF IInv, Restart, HasTime, OneShotHasTime, EnabledHasTime
<1> QED
    BY <1>1, <1>2, <1>3, TypePartsNext DEF IInv

(* Recovering a job settles its row (recoverStaleSchedules).               *)
LEMMA RecoverSettles == ASSUME IInv, NEW j \in Jobs, Recover(j) PROVE RowsSettle
<1>1. RowsOK /\ row[j] \in Rows
    BY TypeParts DEF IInv, RowsOK
<1> QED
    BY <1>1, FailureSettles, SetRowSettles
    DEF Recover, RecoverRun, RecoverFiring, RecoverJob

(* Recovering a job keeps the invariant.                                   *)
LEMMA RecoverInv == ASSUME IInv, NEW j \in Jobs, Recover(j) PROVE IInv'
<1>0. RowsOK /\ PassesOK /\ CountsOK /\ MarksOK /\ DownIsIdle
    BY TypeParts DEF IInv
<1>1. /\ up = "recovering" /\ RecoverJob(j)
      /\ open' = open \/ (open[j] > 0 /\ open' = [open EXCEPT ![j] = @ - 1])
    BY DEF Recover, RecoverRun, RecoverFiring, StaleRun, CloseRun
<1>2. RowsSettle
    BY RecoverSettles
<1>3. RowsOK' /\ \A k \in Jobs : row'[k].there = row[k].there
    BY <1>2 DEF RowsSettle, Settles
<1>4. open' \in [Jobs -> Nat] /\ \A k \in Jobs : open[k] = 0 => open'[k] = 0
    BY <1>0, <1>1 DEF CountsOK
<1>5. CountsOK' /\ MarksOK'
    <2>1. fails' \in [Jobs -> Nat]
        <3> DEFINE n == IF row[j].status = "firing" THEN fails[j] + 1 ELSE fails[j]
        <3>1. n \in Nat
            BY <1>0 DEF CountsOK
        <3>2. fails' = [fails EXCEPT ![j] = n]
            BY <1>1 DEF RecoverJob
        <3> HIDE DEF n
        <3> QED
            BY <1>0, <3>1, <3>2 DEF CountsOK
    <2>2. owed' \subseteq owed
        BY <1>1 DEF RecoverJob
    <2> QED
        BY <1>0, <1>1, <1>4, <2>1, <2>2 DEF RecoverJob, CountsOK, MarksOK
<1>6. PassesOK' /\ DownIsIdle'
    BY <1>0, <1>1, PassesStay DEF RecoverJob
<1>7. RunsKept'
    BY <1>1, <1>3, <1>4 DEF IInv, RunsKept, RecoverJob
<1>8. HasTime'
    BY <1>2, SettledHasTime DEF IInv
<1>9. ClaimedOnce'
    BY <1>0, <1>1, NobodyHolds DEF NobodyWorks, RecoverJob, DownIsIdle
<1> QED
    BY <1>3, <1>5, <1>6, <1>7, <1>8, <1>9, TypePartsNext DEF IInv

(* The daemon serves again only when no run row is left open.              *)
LEMMA RecoveredInv == ASSUME IInv, Recovered PROVE IInv'
<1>0. RowsOK /\ PassesOK /\ CountsOK /\ MarksOK /\ DownIsIdle
    BY TypeParts DEF IInv
<1>1. PassesOK' /\ DownIsIdle' /\ CountsOK' /\ MarksOK' /\ RowsOK'
    BY <1>0 DEF Recovered, PassesOK, DownIsIdle, CountsOK, MarksOK, RowsOK
<1>2. RunsKept'
    <2> SUFFICES ASSUME NEW k \in Jobs
                 PROVE  IF row[k].there
                        THEN open[k] = manual[k] + Busy("tick", k)
                                                 + Busy("drain", k)
                        ELSE open[k] = 0
        BY DEF Recovered, RunsKept, Busy
    <2>1. open[k] \in Nat /\ manual[k] = 0
        BY <1>0 DEF Recovered, CountsOK, DownIsIdle
    <2>2. row[k].there => open[k] = 0
        BY <2>1 DEF Recovered, StaleRun
    <2>3. Busy("tick", k) = 0 /\ Busy("drain", k) = 0
        BY <1>0, CurJob DEF Recovered, DownIsIdle, Busy, Passes
    <2> QED
        BY <2>1, <2>2, <2>3 DEF IInv, RunsKept
<1>3. HasTime' /\ ClaimedOnce'
    BY OnceStays DEF IInv, Recovered, HasTime, OneShotHasTime, EnabledHasTime
<1> QED
    BY <1>1, <1>2, <1>3, TypePartsNext DEF IInv

-----------------------------------------------------------------------------
(* The theorems.                                                           *)

(* A step that changes nothing keeps the invariant.                        *)
LEMMA StutterInv == ASSUME IInv, UNCHANGED vars PROVE IInv'
BY DEF IInv, TypeOK, RunsKept, Busy, HasTime, OneShotHasTime, EnabledHasTime,
       ClaimedOnce, InPass, vars

(* Every step keeps the invariant.                                         *)
LEMMA NextInv == IInv /\ [Next]_vars => IInv'
<1> SUFFICES ASSUME IInv, [Next]_vars PROVE IInv'
    OBVIOUS
<1>1. ASSUME NEW p \in Passes, Pass(p) PROVE IInv'
    BY <1>1, ClaimInv, StartInv, SucceedInv, FailInv, ThrowInv, WakeEndsInv
    DEF Pass, WorkEnds
<1>2. ASSUME NEW j \in Jobs, Elapse(j) \/ User(j) \/ RunNowDone(j) \/ Recover(j)
      PROVE  IInv'
    BY <1>2, ElapseInv, ToggleInv, CancelInv, DeleteInv, RunNowInv,
       RunNowEndsInv, RecoverInv DEF User, RunNowDone
<1> QED
    BY <1>1, <1>2, DiesInv, RestartInv, RecoveredInv, StutterInv DEF Next

(* The invariant holds in every reachable state, whatever the passes, the  *)
(* user, the clock and the crashes of the daemon do.                       *)
THEOREM Invariance == Spec => []IInv
BY InitInv, NextInv, PTL DEF Spec

(* Every reachable state is well typed, whatever is claimed, run, retried, *)
(* deleted and recovered: in particular no run row is closed twice, which  *)
(* would take the count of running runs below zero (completeScheduleRun).  *)
THEOREM TypeCorrect == Spec => []TypeOK
BY Invariance, PTL DEF IInv

(* No two claims of a tick and a drain hold the same one-shot, and a held  *)
(* one-shot's row says so (claimDueSchedules).                             *)
THEOREM OneShotsClaimedOnce == Spec => []ClaimedOnce
BY Invariance, PTL DEF IInv

(* A schedule that is enabled has a time (updateSchedule).                 *)
THEOREM EnabledIsTimed == Spec => []EnabledHasTime
<1>1. IInv => EnabledHasTime
    BY DEF IInv, HasTime
<1> QED
    BY <1>1, Invariance, PTL

(* The passes at work on a job are counted one by one.                     *)
LEMMA BusyPasses ==
    ASSUME NEW j
    PROVE  Cardinality({p \in Passes : Mode[j] = "execute" /\ cur[p].job = j})
             = Busy("tick", j) + Busy("drain", j)
<1> DEFINE S == {p \in Passes : Mode[j] = "execute" /\ cur[p].job = j}
<1>1. \A p \in Passes : p \in S <=> Busy(p, j) = 1
    BY DEF Busy
<1>2. S \subseteq {"tick", "drain"}
    BY DEF Passes
<1>3. Busy("tick", j) \in {0, 1} /\ Busy("drain", j) \in {0, 1}
    BY DEF Busy
<1>4. /\ Cardinality({}) = 0
      /\ Cardinality({"tick"}) = 1
      /\ Cardinality({"drain"}) = 1
    BY FS_EmptySet, FS_Singleton
<1>5. Cardinality({"tick", "drain"}) = 2
    <2>1. {"tick", "drain"} = {"tick"} \cup {"drain"} /\ "drain" \notin {"tick"}
        OBVIOUS
    <2>2. IsFiniteSet({"tick"})
        BY FS_Singleton
    <2> QED
        BY <1>4, <2>1, <2>2, FS_AddElement
<1> HIDE DEF S
<1>6. S = {} \/ S = {"tick"} \/ S = {"drain"} \/ S = {"tick", "drain"}
    BY <1>2
<1>7. "tick" \in S <=> Busy("tick", j) = 1
    BY <1>1 DEF Passes
<1>8. "drain" \in S <=> Busy("drain", j) = 1
    BY <1>1 DEF Passes
<1>9. Cardinality(S) = Busy("tick", j) + Busy("drain", j)
    BY <1>3, <1>4, <1>5, <1>6, <1>7, <1>8
<1> QED
    BY <1>9 DEF S

(* While the daemon serves, a run row is "running" exactly for the         *)
(* executions under way (createScheduleRun, completeScheduleRun,           *)
(* recoverStaleSchedules).                                                 *)
THEOREM RunsAlwaysAccountedFor == Spec => []RunsAccountedFor
<1>1. IInv => RunsAccountedFor
    <2> SUFFICES ASSUME IInv, up = "up", NEW j \in Jobs
                 PROVE  open[j] = IF ~row[j].there THEN 0
                                  ELSE manual[j] + Cardinality({p \in Passes :
                                         Mode[j] = "execute" /\ cur[p].job = j})
        BY DEF RunsAccountedFor
    <2>1. manual[j] \in Nat
        BY TypeParts DEF IInv, CountsOK
    <2>2. Busy("tick", j) \in Nat /\ Busy("drain", j) \in Nat
        BY DEF Busy
    <2> QED
        BY <2>1, <2>2, BusyPasses DEF IInv, RunsKept
<1> QED
    BY <1>1, Invariance, PTL

(* What a step may do to the status of a one-shot that has ended.          *)
EndedStays ==
  \A j \in OneShots :
    row[j].status \in {"fired", "cancelled"} => row'[j].status = row[j].status

(* Settling leaves the status of a one-shot that has ended.                *)
LEMMA SettledStays == ASSUME RowsSettle PROVE EndedStays
BY SchedulesAssumption DEF RowsSettle, Settles, EndedStays

(* A claim takes active one-shots only, a cancellation an active row, and  *)
(* whatever settles takes a one-shot out of "firing" only.                 *)
LEMMA NextEndedStays == IInv /\ [Next]_vars => EndedStays
<1> SUFFICES ASSUME IInv, [Next]_vars PROVE EndedStays
    OBVIOUS
<1>0. RowsOK
    BY TypeParts DEF IInv
<1>1. CASE row' = row
    BY <1>1 DEF EndedStays
<1>2. ASSUME NEW p \in Passes, Pass(p) PROVE EndedStays
    <2>1. CASE Claim(p)
        <3>1. PICK spent \in SUBSET Expiring : ClaimDue(p, spent)
            BY <2>1 DEF Claim
        <3>2. \A j \in OneShots :
                row[j].status # "active" => row'[j] = row[j]
            BY <3>1, SchedulesAssumption DEF ClaimDue, Due
        <3> QED
            BY <3>2 DEF EndedStays
    <2>2. CASE StartNext(p) \/ Throw(p)
        BY <1>1, <2>2 DEF StartNext, Start, Throw
    <2>3. CASE Succeed(p) \/ Fail(p) \/ WakeTimesOut(p) \/ WakeNotInvoked(p)
        BY <2>3, SucceedSettles, FailSettles, WakeEndsSettle, SettledStays
    <2> QED
        BY <1>2, <2>1, <2>2, <2>3 DEF Pass, WorkEnds
<1>3. ASSUME NEW j \in Jobs, Elapse(j) \/ User(j) \/ RunNowDone(j) \/ Recover(j)
      PROVE  EndedStays
    <2>1. CASE Elapse(j)
        BY <1>0, <2>1, SchedulesAssumption DEF Elapse, EndedStays, RowsOK, Rows
    <2>2. CASE Toggle(j)
        BY <1>0, <2>2, SchedulesAssumption
        DEF Toggle, SetRow, EndedStays, RowsOK, Rows
    <2>3. CASE Cancel(j)
        BY <1>0, <2>3, SchedulesAssumption DEF Cancel, EndedStays, RowsOK, Rows
    <2>4. CASE Delete(j)
        BY <1>0, <2>4, SchedulesAssumption DEF Delete, EndedStays, RowsOK, Rows
    <2>5. CASE RunNow(j)
        BY <1>1, <2>5 DEF RunNow
    <2>6. CASE RunNowDone(j) \/ Recover(j)
        BY <2>6, RunNowEndsSettles, RecoverSettles, SettledStays DEF RunNowDone
    <2> QED
        BY <1>3, <2>1, <2>2, <2>3, <2>4, <2>5, <2>6 DEF User
<1>4. CASE Dies
    BY <1>4, DiesSettles, SettledStays
<1>5. CASE Restart \/ Recovered \/ UNCHANGED vars
    BY <1>1, <1>5 DEF Restart, Recovered, vars
<1> QED
    BY <1>2, <1>3, <1>4, <1>5 DEF Next

(* A one-shot that has fired or was cancelled keeps that status through    *)
(* every late result, manual run, recovery and edit, and so is never       *)
(* claimed again (completeOneShot, scheduleRetry, claimDueSchedules).      *)
THEOREM EndedForGood == Spec => DoneStaysDone
<1>1. IInv /\ [Next]_vars => [EndedStays]_vars
    BY NextEndedStays
<1>2. [EndedStays]_vars =>
        [\A j \in OneShots :
           row[j].status \in {"fired", "cancelled"} =>
             row'[j].status = row[j].status]_vars
    BY DEF EndedStays
<1> QED
    BY <1>1, <1>2, Invariance, PTL DEF Spec, DoneStaysDone

-----------------------------------------------------------------------------
(* What the end of a claim's work does, whichever it is.                   *)

(* The row of its job settles, no other row changes, no claim is added and *)
(* no run row is opened.                                                   *)
LEMMA WorkSettles ==
    ASSUME IInv, NEW p \in Passes, WorkEnds(p)
    PROVE  /\ RowsSettle
           /\ \A k \in Jobs \ {cur[p].job} : row'[k] = row[k]
           /\ ClaimsShrink
           /\ cur[p].job \in Jobs /\ up = "up"
           /\ UNCHANGED <<came, manual, up>>
           /\ \A k \in Jobs : open'[k] > 0 => open[k] > 0
<1>0. RowsOK /\ PassesOK /\ CountsOK
    BY TypeParts DEF IInv
<1>1. RowsSettle /\ \A k \in Jobs \ {cur[p].job} : row'[k] = row[k]
    <2>1. CASE Throw(p)
        BY <1>0, <2>1, RowsStay DEF Throw
    <2> QED
        BY <2>1, SucceedSettles, FailSettles, WakeEndsSettle DEF WorkEnds
<1>2. /\ Quiet /\ cur[p] # Idle /\ EndPass(p)
      /\ UNCHANGED <<came, manual, up>>
      /\ \A q \in Passes : todo'[q] \subseteq todo[q]
      /\ open' = open \/ EndRun(cur[p].job)
    BY <1>0 DEF WorkEnds, Succeed, Fail, Throw, WakeTimesOut, WakeNotInvoked,
                Abandon, PassesOK
<1>3. ClaimsShrink
    BY <1>0, <1>2 DEF ClaimsShrink, EndPass, PassesOK
<1>4. cur[p].job \in Jobs /\ up = "up"
    BY <1>0, <1>2, CurJob DEF Quiet
<1>5. \A k \in Jobs : open'[k] > 0 => open[k] > 0
    <2>1. open' = open \/ open' = [open EXCEPT ![cur[p].job] = @ - 1]
        BY <1>2 DEF EndRun, CloseRun
    <2> QED
        BY <1>0, <1>4, <2>1 DEF CountsOK
<1> QED
    BY <1>1, <1>2, <1>3, <1>4, <1>5

(* Giving back claims leaves no job in a pass that was not in one.         *)
LEMMA InPassShrinks ==
    ASSUME ClaimsShrink, NEW j \in Jobs, InPass(j)'
    PROVE  InPass(j)
BY SchedulesAssumption DEF ClaimsShrink, InPass, Idle

-----------------------------------------------------------------------------
(* Nothing fires early.                                                    *)

(* Nobody runs a schedule by hand.                                         *)
NoneByHand == \A j \in Jobs : manual[j] = 0

(* A one-shot that has left its appointed time behind, is at work or has a *)
(* run row has had its time.                                               *)
TimeCame ==
  \A j \in OneShots :
    j \notin came => /\ row[j].next = "later"
                    /\ row[j].status # "firing"
                    /\ ~(open[j] > 0)
                    /\ ~InPass(j)

(* The inductive invariant: nothing runs ahead of its time.               *)
EarlyInv == NoneByHand /\ TimeCame

(* Initially every one-shot has its time ahead.                            *)
LEMMA EarlyInit == Init => EarlyInv
BY SchedulesAssumption
DEF Init, EarlyInv, NoneByHand, TimeCame, NewRow, InPass, Idle

(* Settling the row of a job whose time has come keeps the invariant.      *)
LEMMA SettledNotEarly ==
    ASSUME EarlyInv, RowsSettle, ClaimsShrink, NEW j,
           j \in OneShots => j \in came,
           \A k \in Jobs \ {j} : row'[k] = row[k],
           \A k \in Jobs : open'[k] > 0 => open[k] > 0,
           NoneByHand', came' = came
    PROVE  EarlyInv'
<1> SUFFICES ASSUME NEW k \in OneShots,
                    \/ row'[k].next # "later"
                    \/ row'[k].status = "firing"
                    \/ open'[k] > 0
                    \/ InPass(k)'
             PROVE  k \in came
    BY DEF EarlyInv, TimeCame
<1>1. k \in Jobs
    BY SchedulesAssumption
<1>2. CASE k = j
    BY <1>2
<1>3. CASE k # j
    BY <1>1, <1>3, InPassShrinks DEF EarlyInv, TimeCame
<1> QED
    BY <1>2, <1>3

(* The steps of a pass.                                                    *)
LEMMA PassNotEarly ==
    ASSUME IInv, EarlyInv, NEW p \in Passes, Pass(p)
    PROVE  EarlyInv'
<1>0. RowsOK /\ PassesOK /\ CountsOK
    BY TypeParts DEF IInv
<1>1. CASE WorkEnds(p)
    <2>1. cur[p].job \in OneShots => cur[p].job \in came
        BY DEF EarlyInv, TimeCame, InPass
    <2>2. NoneByHand'
        BY <1>1, WorkSettles DEF EarlyInv, NoneByHand
    <2> QED
        BY <1>1, <2>1, <2>2, WorkSettles, SettledNotEarly
<1>2. ASSUME NEW spent \in SUBSET Expiring, ClaimDue(p, spent)
      PROVE  EarlyInv'
    <2>1. ASSUME NEW k \in OneShots PROVE k \in Jobs /\ row[k].next \in Times
        BY <1>0, <2>1, SchedulesAssumption DEF RowsOK, Rows
    <2>2. ASSUME NEW k \in OneShots
          PROVE  /\ row'[k].next = row[k].next
                 /\ row'[k].status = "firing" => row[k].status = "firing" \/ Due(k)
                 /\ InPass(k)' => InPass(k) \/ Due(k)
                 /\ Due(k) => row[k].next # "later"
        <3>1. row'[k] = IF Due(k) THEN [row[k] EXCEPT !.status = "firing"] ELSE row[k]
            BY <1>2, <2>1 DEF ClaimDue, ClaimedRow
        <3>2. row[k] \in Rows
            BY <1>0, <2>1 DEF RowsOK
        <3>3. InPass(k)' => InPass(k) \/ Due(k)
            BY <1>0, <1>2, <2>1 DEF ClaimDue, InPass, PassesOK
        <3> QED
            BY <3>1, <3>2, <3>3 DEF Due, Rows
    <2>3. UNCHANGED <<open, manual, came>>
        BY <1>2 DEF ClaimDue
    <2> QED
        BY <2>2, <2>3 DEF EarlyInv, NoneByHand, TimeCame
<1>3. ASSUME NEW c \in todo[p], Start(p, c)
      PROVE  EarlyInv'
    <2>1. UNCHANGED <<row, manual, came>>
        BY <1>3 DEF Start
    <2>2. c \in Claims /\ c.job \in Jobs
        BY <1>0, <1>3 DEF PassesOK, Claims
    <2>3. ASSUME NEW k \in OneShots, open'[k] > 0
          PROVE  open[k] > 0 \/ InPass(k)
        <3>1. k \in Jobs
            BY SchedulesAssumption
        <3>2. open' = open \/ open' = [open EXCEPT ![c.job] = @ + 1]
            BY <1>3 DEF Start, CreateRun
        <3> QED
            BY <1>0, <2>3, <3>1, <3>2 DEF CountsOK, InPass
    <2>4. ASSUME NEW k \in OneShots, InPass(k)' PROVE InPass(k)
        BY <1>0, <1>3, <2>4 DEF Start, Abandon, InPass, PassesOK
    <2> QED
        BY <2>1, <2>3, <2>4 DEF EarlyInv, NoneByHand, TimeCame
<1> QED
    BY <1>1, <1>2, <1>3 DEF Pass, Claim, StartNext

(* The clock, the user, the end of manual runs and the recovery.           *)
LEMMA JobNotEarly ==
    ASSUME "runNow" \notin UserOps, IInv, EarlyInv, NEW j \in Jobs,
           Elapse(j) \/ User(j) \/ RunNowDone(j) \/ Recover(j)
    PROVE  EarlyInv'
<1>0. RowsOK /\ PassesOK /\ CountsOK /\ DownIsIdle
    BY TypeParts DEF IInv
<1>1. CASE Elapse(j)
    <2>1. /\ \A k \in Jobs : row'[k] = IF k = j THEN [row[k] EXCEPT !.next = "due"] ELSE row[k]
          /\ came' = IF row[j].next = "later" THEN came \cup {j} ELSE came
          /\ UNCHANGED <<open, todo, cur, manual>>
        BY <1>0, <1>1 DEF Elapse, RowsOK
    <2>2. \A k \in OneShots : k \in Jobs /\ row[k] \in Rows /\ InPass(k)' = InPass(k)
        BY <1>0, <2>1, SchedulesAssumption DEF RowsOK, InPass
    <2>3. NoneByHand'
        BY <2>1 DEF EarlyInv, NoneByHand
    <2>4. \A k \in OneShots : k # j => row'[k] = row[k]
        BY <2>1, <2>2
    <2>5. j \in OneShots => j \in came'
        BY <2>1 DEF EarlyInv, TimeCame
    <2>6. TimeCame'
        BY <2>1, <2>2, <2>4, <2>5 DEF EarlyInv, TimeCame
    <2> QED
        BY <2>3, <2>6 DEF EarlyInv
<1>2. CASE Toggle(j) \/ Cancel(j) \/ Delete(j)
    <2>1. UNCHANGED <<todo, cur, manual, came>>
        BY <1>2 DEF Toggle, Cancel, Delete
    <2>2. open' = open \/ open' = [open EXCEPT ![j] = 0]
        BY <1>2 DEF Toggle, Cancel, Delete
    <2>3. \A k \in OneShots : k \in Jobs /\ row[k] \in Rows /\ InPass(k)' = InPass(k)
        BY <1>0, <2>1, SchedulesAssumption DEF RowsOK, InPass
    <2>4. \A k \in OneShots : /\ row'[k].next = row[k].next
                              /\ row'[k].status = "firing" => row[k].status = "firing"
        <3>1. CASE Toggle(j)
            BY <1>0, <2>3, <3>1 DEF Toggle, SetRow, RowsOK, Rows
        <3>2. CASE Cancel(j)
            BY <1>0, <2>3, <3>2 DEF Cancel, RowsOK, Rows
        <3>3. CASE Delete(j)
            BY <1>0, <2>3, <3>3 DEF Delete, RowsOK, Rows
        <3> QED
            BY <1>2, <3>1, <3>2, <3>3
    <2>5. \A k \in OneShots : open'[k] > 0 => open[k] > 0
        BY <1>0, <2>2, <2>3 DEF CountsOK
    <2> QED
        BY <2>1, <2>3, <2>4, <2>5 DEF EarlyInv, NoneByHand, TimeCame
<1>3. ~RunNow(j) /\ ~RunNowDone(j)
    <2>1. ~(manual[j] > 0)
        BY DEF EarlyInv, NoneByHand
    <2> QED
        BY <2>1 DEF RunNow, RunNowDone, RunNowEnds
<1>4. CASE Recover(j)
    <2>1. /\ up = "recovering" /\ UNCHANGED <<todo, cur, manual, came>>
          /\ open' = open \/ open' = [open EXCEPT ![j] = @ - 1]
          /\ \A k \in Jobs \ {j} : row'[k] = row[k]
          /\ row[j].status = "firing" \/ open[j] > 0
        BY <1>0, <1>4 DEF Recover, RecoverRun, RecoverFiring, RecoverJob, StaleRun,
                          StaleFiring, CloseRun, SetRow, RowsOK
    <2>2. RowsSettle
        BY <1>4, RecoverSettles
    <2>3. ClaimsShrink
        BY <1>0, <2>1 DEF ClaimsShrink, PassesOK
    <2>4. \A k \in Jobs : open'[k] > 0 => open[k] > 0
        BY <1>0, <2>1 DEF CountsOK
    <2>5. NoneByHand'
        BY <2>1 DEF EarlyInv, NoneByHand
    <2>6. j \in OneShots => j \in came
        BY <2>1 DEF EarlyInv, TimeCame
    <2> QED
        BY <2>1, <2>2, <2>3, <2>4, <2>5, <2>6, SettledNotEarly
<1> QED
    BY <1>1, <1>2, <1>3, <1>4 DEF User

(* Death and restart.                                                      *)
LEMMA DeathNotEarly ==
    ASSUME IInv, EarlyInv, Dies \/ Restart \/ Recovered
    PROVE  EarlyInv'
<1>0. RowsOK /\ PassesOK /\ CountsOK
    BY TypeParts DEF IInv
<1>1. CASE Restart \/ Recovered
    BY <1>1 DEF Restart, Recovered, EarlyInv, NoneByHand, TimeCame, InPass
<1>2. CASE Crash
    <2>1. \A k \in Jobs : ~InPass(k)'
        BY <1>2, SchedulesAssumption DEF Crash, Die, InPass, Idle, Passes
    <2> QED
        BY <1>2, <2>1, SchedulesAssumption DEF Crash, Die, EarlyInv, NoneByHand, TimeCame
<1>3. ASSUME NEW p \in Passes, NEW ok \in BOOLEAN, CrashMidway(p, ok)
      PROVE  EarlyInv'
    <2>1. Dies
        BY <1>3 DEF Dies
    <2>2. cur[p].job \in OneShots => cur[p].job \in came
        BY DEF EarlyInv, TimeCame, InPass
    <2>3. ClaimsShrink
        BY <1>0, <1>3 DEF CrashMidway, Die, ClaimsShrink
    <2>4. NoneByHand' /\ came' = came
        BY <1>3 DEF CrashMidway, Die, NoneByHand
    <2>5. \A k \in Jobs \ {cur[p].job} : row'[k] = row[k]
        BY <1>0, <1>3 DEF CrashMidway, SetRow, RowsOK
    <2>6. \A k \in Jobs : open'[k] > 0 => open[k] > 0
        <3>1. open' = open \/ open' = [open EXCEPT ![cur[p].job] = @ - 1]
            BY <1>3 DEF CrashMidway, EndRun, CloseRun
        <3> QED
            BY <1>0, <3>1 DEF CountsOK
    <2> QED
        BY <2>1, <2>2, <2>3, <2>4, <2>5, <2>6, DiesSettles, SettledNotEarly
<1> QED
    BY <1>1, <1>2, <1>3 DEF Dies

(* When no schedule is run by hand, no one-shot fires before its time,     *)
(* through retries, cancellations, deletions, crashes at any point and     *)
(* the recovery (claimDueSchedules, recoverStaleSchedules).                *)
THEOREM NeverEarly ==
    ASSUME "runNow" \notin UserOps
    PROVE  Spec => []NotEarly
<1>1. EarlyInv /\ IInv /\ [Next]_vars => EarlyInv'
    <2>1. ASSUME EarlyInv, UNCHANGED vars PROVE EarlyInv'
        BY <2>1 DEF vars, EarlyInv, NoneByHand, TimeCame, InPass
    <2> QED
        BY <2>1, PassNotEarly, JobNotEarly, DeathNotEarly DEF Next
<1>2. EarlyInv => NotEarly
    BY DEF EarlyInv, TimeCame, NotEarly
<1> QED
    BY <1>1, <1>2, EarlyInit, Invariance, PTL DEF Spec

-----------------------------------------------------------------------------
(* No schedule is deleted.                                                 *)

(* Every schedule still has its row.                                       *)
AllThere == \A j \in Jobs : row[j].there

(* Only a deletion takes a row away.                                       *)
LEMMA StayThere ==
    ASSUME "delete" \notin UserOps, IInv, AllThere, [Next]_vars
    PROVE  AllThere'
<1>0. RowsOK
    BY TypeParts DEF IInv
<1>1. ASSUME RowsSettle PROVE AllThere'
    BY <1>1 DEF AllThere, RowsSettle, Settles
<1>2. ASSUME row' = row PROVE AllThere'
    BY <1>2 DEF AllThere
<1>3. ASSUME NEW p \in Passes, Pass(p) PROVE AllThere'
    <2>1. ASSUME NEW spent \in SUBSET Expiring, ClaimDue(p, spent) PROVE AllThere'
        <3>1. \A j \in Jobs : row'[j] = row[j] \/ row'[j] = ClaimedRow(j, spent)
            BY <2>1 DEF ClaimDue
        <3> QED
            BY <1>0, <3>1, ClaimedRowType DEF AllThere
    <2>2. CASE StartNext(p)
        BY <1>2, <2>2 DEF StartNext, Start
    <2> QED
        BY <1>1, <1>3, <2>1, <2>2, WorkSettles DEF Pass, Claim
<1>4. ASSUME NEW j \in Jobs, Elapse(j) \/ User(j) \/ RunNowDone(j) \/ Recover(j)
      PROVE  AllThere'
    <2>1. CASE Elapse(j)
        BY <1>0, <2>1 DEF Elapse, AllThere, RowsOK, Rows
    <2>2. CASE Toggle(j)
        BY <1>0, <2>2 DEF Toggle, SetRow, AllThere, RowsOK, Rows
    <2>3. CASE Cancel(j)
        BY <1>0, <2>3 DEF Cancel, AllThere, RowsOK, Rows
    <2>4. CASE RunNow(j)
        BY <1>2, <2>4 DEF RunNow
    <2>5. CASE RunNowDone(j) \/ Recover(j)
        BY <1>1, <2>5, RunNowEndsSettles, RecoverSettles DEF RunNowDone
    <2> QED
        BY <1>4, <2>1, <2>2, <2>3, <2>4, <2>5 DEF User, Delete
<1> QED
    BY <1>1, <1>2, <1>3, <1>4, DiesSettles DEF Next, Restart, Recovered, vars

(* While no job is gone, the end of a work keeps the claims of others.     *)
LEMMA OthersStayClaimed ==
    ASSUME IInv, AllThere, NEW p \in Passes, WorkEnds(p),
           NEW k \in Jobs, k # cur[p].job, InPass(k)
    PROVE  InPass(k)'
<1>0. PassesOK
    BY TypeParts DEF IInv
<1>1. cur[p].job \in Jobs
    BY WorkSettles
<1>2. todo' = todo /\ cur' = [cur EXCEPT ![p] = Idle]
    BY <1>1 DEF WorkEnds, Succeed, Fail, Throw, WakeTimesOut, WakeNotInvoked,
                EndPass, AllThere
<1> QED
    BY <1>0, <1>2 DEF InPass, PassesOK

(* The rows that a failure, recorded and decided on, may leave.            *)
LEMMA AfterFailureLeaves ==
    ASSUME NEW j, NEW tries, NEW r \in Rows
    PROVE  LET s == AfterFailure(j, tries, CompleteError(r))
           IN  /\ j \in OneShots => s.status # "firing"
               /\ MayRetry(tries) =>
                    /\ s.enabled = r.enabled
                    /\ r.status \in {"active", "firing"} => s.status = "active"
<1> DEFINE e == CompleteError(r)
<1>1. e \in Rows /\ e.enabled = r.enabled /\ e.status = r.status
    BY CompleteSettles DEF Settles, CompleteError, Rows
<1> HIDE DEF e
<1>2. /\ ScheduleRetry(e).status = IF e.status = "firing" THEN "active" ELSE e.status
      /\ ScheduleRetry(e).enabled = e.enabled
    BY <1>1 DEF ScheduleRetry, Rows
<1>3. FailPermanently(e).status # "firing"
    BY <1>1 DEF FailPermanently, Leave, Rows
<1>4. /\ j \in OneShots => AfterFailure(j, tries, e).status # "firing"
      /\ MayRetry(tries) => AfterFailure(j, tries, e) = ScheduleRetry(e)
    BY <1>2, <1>3 DEF AfterFailure
<1> QED
    BY <1>1, <1>2, <1>4 DEF e

(* A success takes a one-shot out of "firing".                             *)
LEMMA SuccessLeaves ==
    ASSUME RowsOK, NEW j \in Jobs, j \in OneShots
    PROVE  SettledOk(j).status # "firing"
<1> DEFINE r == RecordOk(j)
<1>1. r \in Rows
    BY SuccessSettles DEF Settles
<1> HIDE DEF r
<1>2. CompleteOneShot(r).status # "firing"
    BY <1>1 DEF CompleteOneShot, Leave, Rows
<1> QED
    BY <1>2 DEF SettledOk, r

(* The end of the work of a claim takes its one-shot out of "firing"; if   *)
(* its run is still owed it is enabled as before and waits for its retry.  *)
LEMMA WorkLeaves ==
    ASSUME IInv, AllThere, NEW p \in Passes, WorkEnds(p)
    PROVE  /\ cur[p].job \in OneShots => row'[cur[p].job].status # "firing"
           /\ owed' \subseteq owed
           /\ cur[p].job \in owed' =>
                /\ row'[cur[p].job].enabled = row[cur[p].job].enabled
                /\ cur[p].job \in OneShots => row'[cur[p].job].status = "active"
<1> DEFINE j == cur[p].job
<1>0. RowsOK /\ PassesOK /\ MarksOK
    BY TypeParts DEF IInv
<1>1. j \in Jobs /\ row[j] \in Rows /\ row[j].there
    BY <1>0, WorkSettles DEF AllThere, RowsOK
<1>2. j \in OneShots => row[j].status = "firing"
    BY <1>1 DEF IInv, ClaimedOnce, InPass
<1>3. ASSUME NEW r, SetRow(j, r) PROVE row'[j] = r
    BY <1>0, <1>1, <1>3 DEF SetRow, RowsOK
<1>4. CASE Succeed(p)
    <2>1. row'[j] = SettledOk(j) /\ owed' = owed \ {j}
        BY <1>3, <1>4 DEF Succeed
    <2> QED
        BY <1>0, <1>1, <2>1, SuccessLeaves
<1>5. CASE Fail(p)
    <2>1. /\ row'[j] = AfterFailure(j, cur[p].tries, CompleteError(row[j]))
          /\ owed' = IF MayRetry(cur[p].tries) THEN owed ELSE owed \ {j}
        BY <1>3, <1>5 DEF Fail
    <2> QED
        BY <1>1, <1>2, <2>1, AfterFailureLeaves
<1>6. CASE WakeTimesOut(p)
    <2> DEFINE last == cur[p].tries >= WakeMaxRetries
    <2>1. /\ row'[j] = IF j \notin OneShots THEN row[j]
                       ELSE IF last THEN FailPermanently(row[j])
                       ELSE RetryOneShot(row[j])
          /\ owed' = IF j \in OneShots /\ ~last THEN owed ELSE owed \ {j}
        BY <1>3, <1>6 DEF WakeTimesOut
    <2>2. FailPermanently(row[j]).status # "firing"
        BY <1>1 DEF FailPermanently, Leave, Rows
    <2>3. j \in OneShots => /\ RetryOneShot(row[j]).status = "active"
                            /\ RetryOneShot(row[j]).enabled = row[j].enabled
        BY <1>1, <1>2 DEF RetryOneShot, Rows
    <2> QED
        BY <2>1, <2>2, <2>3
<1>7. CASE WakeNotInvoked(p)
    <2>1. /\ row'[j] = IF j \in OneShots THEN CompleteOneShot(row[j]) ELSE row[j]
          /\ owed' = owed \ {j}
        BY <1>3, <1>7 DEF WakeNotInvoked
    <2>2. CompleteOneShot(row[j]).status # "firing"
        BY <1>1 DEF CompleteOneShot, Leave, Rows
    <2> QED
        BY <2>1, <2>2
<1>8. ~Throw(p)
    BY <1>1 DEF Throw
<1> QED
    BY <1>4, <1>5, <1>6, <1>7, <1>8 DEF WorkEnds

(* A claim takes what is due, from one pass that had nothing.              *)
LEMMA ClaimTakes ==
    ASSUME IInv, NEW p \in Passes, NEW spent \in SUBSET Expiring, ClaimDue(p, spent),
           NEW k \in Jobs
    PROVE  /\ row'[k] = IF Due(k) THEN ClaimedRow(k, spent) ELSE row[k]
           /\ InPass(k)' <=> InPass(k) \/ Due(k)
           /\ k \in owed' <=> k \in owed \/ Due(k)
<1>0. PassesOK
    BY TypeParts DEF IInv
<1>1. cur[p] = Idle /\ todo[p] = {}
    BY DEF ClaimDue, Free, Quiet
<1>2. /\ cur' = cur
      /\ todo' = [todo EXCEPT ![p] =
                    {[job |-> j, tries |-> row[j].tries] : j \in {i \in Jobs : Due(i)}}]
    BY DEF ClaimDue
<1>3. InPass(k)' <=> InPass(k) \/ Due(k)
    <2>1. (\E c \in todo'[p] : c.job = k) <=> Due(k)
        <3> DEFINE due == {i \in Jobs : Due(i)}
                   C == {[job |-> j, tries |-> row[j].tries] : j \in due}
        <3>1. todo'[p] = C
            BY <1>0, <1>2 DEF PassesOK
        <3>2. Due(k) => [job |-> k, tries |-> row[k].tries] \in C
            OBVIOUS
        <3>3. \A c \in C : \E j \in due : c.job = j
            OBVIOUS
        <3>4. k \in due <=> Due(k)
            OBVIOUS
        <3> HIDE DEF due, C
        <3>5. Due(k) => [job |-> k, tries |-> row[k].tries].job = k
            OBVIOUS
        <3> QED
            BY <3>1, <3>2, <3>3, <3>4, <3>5
    <2>2. \A q \in Passes \ {p} : todo'[q] = todo[q]
        BY <1>0, <1>2 DEF PassesOK
    <2> QED
        BY <1>1, <1>2, <2>1, <2>2 DEF InPass
<1> QED
    BY <1>3 DEF ClaimDue

(* Starting a claim moves it within its pass, unless the job is "blank".   *)
LEMMA StartKeeps ==
    ASSUME IInv, AllThere, NEW p \in Passes, StartNext(p), NEW k \in Jobs
    PROVE  /\ row' = row /\ up = "up" /\ up' = up
           /\ owed' \subseteq owed
           /\ Mode[k] # "blank" \/ k \in owed' => (InPass(k)' <=> InPass(k))
<1>0. PassesOK
    BY TypeParts DEF IInv
<1>1. PICK c \in todo[p] : Start(p, c)
    BY DEF StartNext
<1>2. c.job \in Jobs /\ row[c.job].there
    BY <1>0, <1>1 DEF PassesOK, Claims, AllThere
<1>3. /\ todo' = [todo EXCEPT ![p] = @ \ {c}]
      /\ cur' = IF Mode[c.job] = "blank" THEN cur ELSE [cur EXCEPT ![p] = c]
      /\ owed' = IF Mode[c.job] = "blank" THEN owed \ {c.job} ELSE owed
      /\ cur[p] = Idle
    BY <1>1, <1>2 DEF Start
<1>4. CASE Mode[c.job] # "blank"
    BY <1>0, <1>1, <1>3, <1>4, SchedulesAssumption DEF InPass, PassesOK, Idle, Start
<1>5. CASE Mode[c.job] = "blank"
    <2>1. c.job \notin owed' /\ cur' = cur
        BY <1>3, <1>5
    <2>2. k # c.job => (InPass(k)' <=> InPass(k))
        BY <1>0, <1>3, <2>1 DEF InPass, PassesOK
    <2> QED
        BY <1>1, <1>3, <1>5, <2>1, <2>2 DEF Start
<1> QED
    BY <1>4, <1>5

(* What recovery makes of a row.                                           *)
LEMMA RecoverLeaves ==
    ASSUME IInv, NEW j \in Jobs, Recover(j)
    PROVE  /\ up = "recovering" /\ up' = up
           /\ \A k \in Jobs \ {j} : row'[k] = row[k]
           /\ owed' \subseteq owed
           /\ j \in owed' => /\ row'[j].enabled = row[j].enabled
                             /\ row[j].status \in {"active", "firing"} =>
                                  row'[j].status = "active"
<1>0. RowsOK /\ row[j] \in Rows
    BY TypeParts DEF IInv, RowsOK
<1>1. /\ up = "recovering" /\ row[j].there /\ RecoverJob(j)
    BY DEF Recover, RecoverRun, RecoverFiring, StaleRun, StaleFiring
<1>2. /\ row' = [row EXCEPT ![j] = AfterFailure(j, row[j].tries, CompleteError(row[j]))]
      /\ owed' = IF MayRetry(row[j].tries) THEN owed ELSE owed \ {j}
      /\ up' = up
    BY <1>1 DEF RecoverJob, SetRow
<1> QED
    BY <1>0, <1>1, <1>2, AfterFailureLeaves DEF RowsOK

-----------------------------------------------------------------------------
(* No run is dropped.                                                      *)

(* What is owed is enabled, and a one-shot that is owed is active or in    *)
(* the hands of a pass; while the daemon is down it may be in "firing",    *)
(* which the recovery sees because the row is enabled.                     *)
Kept(j) ==
  /\ row[j].enabled
  /\ j \in OneShots => /\ row[j].status \in {"active", "firing"}
                       /\ up = "up" /\ row[j].status = "firing" => InPass(j)

(* The inductive invariant: what is owed is kept.                          *)
KeptInv == AllThere /\ \A j \in owed : Kept(j)

(* A row whose attempt count alone changes, or its time, stays as it is to *)
(* this invariant.                                                         *)
Alike(j) == /\ row'[j].enabled = row[j].enabled
            /\ row'[j].status = row[j].status

(* The steps of a pass.                                                    *)
LEMMA PassDropsNone ==
    ASSUME Expiring = {}, IInv, KeptInv, NEW p \in Passes, Pass(p),
           NEW k \in owed'
    PROVE  Kept(k)'
<1>0. RowsOK /\ PassesOK /\ owed \subseteq Jobs
    BY TypeParts DEF IInv, MarksOK
<1>1. CASE WorkEnds(p)
    <2>1. k \in owed /\ k \in Jobs /\ Kept(k) /\ up = "up" /\ up' = up
        BY <1>0, <1>1, WorkLeaves, WorkSettles DEF KeptInv
    <2>2. CASE k = cur[p].job
        BY <1>1, <2>1, <2>2, WorkLeaves DEF Kept, KeptInv
    <2>3. CASE k # cur[p].job
        <3>1. row'[k] = row[k] /\ (InPass(k) => InPass(k)')
            BY <1>1, <2>1, <2>3, WorkSettles, OthersStayClaimed DEF KeptInv
        <3> QED
            BY <2>1, <3>1 DEF Kept
    <2> QED
        BY <2>2, <2>3
<1>2. ASSUME NEW spent \in SUBSET Expiring, ClaimDue(p, spent)
      PROVE  Kept(k)'
    <2>1. spent = {} /\ up' = up
        BY <1>2 DEF ClaimDue
    <2>2. k \in Jobs
        BY <1>0, <1>2 DEF ClaimDue
    <2>3. /\ row'[k] = IF Due(k) THEN ClaimedRow(k, {}) ELSE row[k]
          /\ InPass(k)' <=> InPass(k) \/ Due(k)
          /\ k \in owed \/ Due(k)
        BY <1>2, <2>1, <2>2, ClaimTakes
    <2>4. CASE Due(k)
        <3>1. row'[k].enabled /\ (k \in OneShots => row'[k].status = "firing")
            BY <1>0, <2>2, <2>3, <2>4 DEF Due, ClaimedRow, RowsOK, Rows
        <3> QED
            BY <2>3, <2>4, <3>1 DEF Kept
    <2>5. CASE ~Due(k)
        BY <2>1, <2>3, <2>5 DEF Kept, KeptInv
    <2> QED
        BY <2>4, <2>5
<1>3. CASE StartNext(p)
    <2>1. k \in owed /\ k \in Jobs
        <3>1. AllThere /\ (Jobs # {} => owed' \subseteq owed)
            BY <1>3, StartKeeps DEF KeptInv
        <3>2. Jobs # {}
            BY <1>0, <1>3 DEF StartNext, PassesOK, Claims
        <3> QED
            BY <1>0, <3>1, <3>2
    <2>2. row' = row /\ up' = up /\ (InPass(k)' <=> InPass(k))
        BY <1>3, <2>1, StartKeeps DEF KeptInv
    <2> QED
        BY <2>1, <2>2 DEF Kept, KeptInv
<1> QED
    BY <1>1, <1>2, <1>3 DEF Pass, Claim

(* The clock, the user, the end of manual runs and the recovery.           *)
LEMMA JobDropsNone ==
    ASSUME "delete" \notin UserOps, IInv, KeptInv, NEW j \in Jobs,
           Elapse(j) \/ User(j) \/ RunNowDone(j) \/ Recover(j),
           NEW k \in owed'
    PROVE  Kept(k)'
<1>0. RowsOK /\ PassesOK /\ owed \subseteq Jobs
    BY TypeParts DEF IInv, MarksOK
<1>1. owed' \subseteq owed
    BY RecoverLeaves DEF Elapse, User, Toggle, Cancel, Delete, RunNow,
                         RunNowDone, RunNowEnds
<1>2. k \in owed /\ k \in Jobs /\ Kept(k)
    BY <1>0, <1>1 DEF KeptInv
<1>3. CASE Recover(j)
    BY <1>2, <1>3, RecoverLeaves DEF Kept
<1>4. CASE ~Recover(j)
    <2>1. Alike(k)
        <3>1. CASE Elapse(j)
            BY <1>0, <1>2, <3>1 DEF Elapse, Alike, RowsOK, Rows
        <3>2. CASE Toggle(j) \/ Cancel(j)
            BY <1>0, <1>2, <3>2 DEF Toggle, Cancel, SetRow, Alike, RowsOK
        <3>3. CASE RunNow(j)
            BY <3>3 DEF RunNow, Alike
        <3>4. CASE RunNowDone(j)
            BY <1>0, <1>2, <3>4
            DEF RunNowDone, RunNowEnds, SetRow, CompleteOk, CompleteError,
                Alike, RowsOK, Rows
        <3> QED
            BY <1>4, <3>1, <3>2, <3>3, <3>4 DEF User, Delete
    <2>2. UNCHANGED <<todo, cur, up>>
        BY <1>4 DEF Elapse, User, Toggle, Cancel, Delete, RunNow, RunNowDone, RunNowEnds
    <2>3. InPass(k)' <=> InPass(k)
        BY <2>2 DEF InPass
    <2> QED
        BY <1>2, <2>1, <2>2, <2>3 DEF Kept, Alike
<1> QED
    BY <1>3, <1>4

(* Death, restart and the end of the recovery, which finds no firing       *)
(* one-shot that is enabled.                                               *)
LEMMA DeathDropsNone ==
    ASSUME IInv, KeptInv, Dies \/ Restart \/ Recovered, NEW k \in owed'
    PROVE  Kept(k)'
<1>0. RowsOK /\ PassesOK /\ owed \subseteq Jobs
    BY TypeParts DEF IInv, MarksOK
<1>1. owed' = owed
    BY DEF Dies, Crash, CrashMidway, Die, Restart, Recovered
<1>2. k \in owed /\ k \in Jobs /\ Kept(k) /\ row[k].there
    BY <1>0, <1>1 DEF KeptInv, AllThere
<1>3. CASE Restart
    BY <1>2, <1>3 DEF Restart, Kept
<1>4. CASE Recovered
    BY <1>2, <1>4 DEF Recovered, Kept, StaleFiring
<1>5. CASE Dies
    <2>1. up' = "down"
        BY <1>5 DEF Dies, Crash, CrashMidway, Die
    <2>2. Alike(k)
        <3>1. CASE Crash
            BY <3>1 DEF Crash, Alike
        <3>2. ASSUME NEW p \in Passes, NEW ok \in BOOLEAN, CrashMidway(p, ok)
              PROVE  Alike(k)
            BY <1>0, <1>2, <3>2
            DEF CrashMidway, SetRow, RecordOk, CompleteOk, CompleteError,
                Alike, RowsOK, Rows
        <3> QED
            BY <1>5, <3>1, <3>2 DEF Dies
    <2> QED
        BY <1>2, <2>1, <2>2 DEF Kept, Alike
<1> QED
    BY <1>3, <1>4, <1>5

(* When no schedule is deleted and no recurrence runs out, no run that a   *)
(* claim took is lost, whatever fails, overlaps, crashes at any point and  *)
(* is switched off and on: until it succeeds, is given up or called off, a *)
(* pass holds it or its row will be claimed again (claimDueSchedules,      *)
(* applyRetryDecision, recoverStaleSchedules).                             *)
THEOREM NoRunDropped ==
    ASSUME "delete" \notin UserOps, Expiring = {}
    PROVE  Spec => []NothingDropped
<1>1. Init => KeptInv
    BY DEF Init, NewRow, KeptInv, AllThere
<1>2. IInv /\ KeptInv /\ [Next]_vars => KeptInv'
    <2>1. ASSUME KeptInv, UNCHANGED vars PROVE KeptInv'
        BY <2>1 DEF vars, KeptInv, AllThere, Kept, InPass
    <2>2. ASSUME IInv, KeptInv, Next, NEW k \in owed' PROVE Kept(k)'
        BY <2>2, PassDropsNone, JobDropsNone, DeathDropsNone DEF Next
    <2> QED
        BY <2>1, <2>2, StayThere DEF KeptInv
<1>3. IInv /\ KeptInv => NothingDropped
    BY TypeParts DEF KeptInv, Kept, NothingDropped, IInv, HasTime, EnabledHasTime,
                     AllThere, MarksOK
<1> QED
    BY <1>1, <1>2, <1>3, Invariance, PTL DEF Spec

-----------------------------------------------------------------------------
(* Firing is backed.                                                       *)

(* The inductive invariant: what fires is held.                            *)
BackedInv == AllThere /\ FiringIsBacked

(* A step that leaves the claims of a one-shot, and neither puts its row   *)
(* into "firing" nor enables it, leaves it backed.                         *)
LEMMA BackedStays ==
    ASSUME BackedInv, up = "up", NEW k \in OneShots, k \in Jobs,
           row'[k].status = "firing" => row[k].status = "firing",
           row'[k].enabled => row[k].enabled,
           InPass(k) => InPass(k)',
           row'[k].enabled, row'[k].status = "firing"
    PROVE  InPass(k)'
BY DEF BackedInv, FiringIsBacked, AllThere

(* Every step keeps a firing one-shot backed.                              *)
LEMMA NextBacked ==
    ASSUME UserOps \cap {"toggle", "delete"} = {},
           \A j \in OneShots : Mode[j] # "blank",
           IInv, BackedInv, Next
    PROVE  FiringIsBacked'
<1> SUFFICES ASSUME up' = "up", NEW k \in OneShots, row'[k].there,
                    row'[k].enabled, row'[k].status = "firing"
             PROVE  InPass(k)'
    BY DEF FiringIsBacked
<1>0. RowsOK /\ PassesOK /\ k \in Jobs /\ row[k].there
    BY TypeParts, SchedulesAssumption DEF IInv, BackedInv, AllThere
<1>1. ASSUME NEW p \in Passes, Pass(p) PROVE InPass(k)'
    <2>1. CASE WorkEnds(p)
        <3>1. k # cur[p].job
            BY <2>1, WorkLeaves DEF BackedInv
        <3>2. row'[k] = row[k] /\ up = "up" /\ (InPass(k) => InPass(k)')
            BY <1>0, <2>1, <3>1, WorkSettles, OthersStayClaimed DEF BackedInv
        <3> QED
            BY <1>0, <3>2, BackedStays
    <2>2. ASSUME NEW spent \in SUBSET Expiring, ClaimDue(p, spent)
          PROVE  InPass(k)'
        <3>1. up = "up"
            BY <2>2 DEF ClaimDue, Quiet
        <3> QED
            BY <1>0, <2>2, <3>1, ClaimTakes, BackedStays
    <2>3. CASE StartNext(p)
        BY <1>0, <2>3, StartKeeps, BackedStays DEF BackedInv
    <2> QED
        BY <1>1, <2>1, <2>2, <2>3 DEF Pass, Claim
<1>2. ASSUME NEW j \in Jobs, Elapse(j) \/ User(j) \/ RunNowDone(j) \/ Recover(j)
      PROVE  InPass(k)'
    <2>1. ~Recover(j)
        BY RecoverLeaves
    <2>2. UNCHANGED <<todo, cur, up>>
        BY <1>2, <2>1 DEF Elapse, User, Toggle, Cancel, Delete, RunNow, RunNowDone,
                          RunNowEnds
    <2>3. InPass(k) => InPass(k)'
        BY <2>2 DEF InPass
    <2>4. row'[k].status = "firing" => row[k].status = "firing"
        BY <1>0, <1>2, <2>1
        DEF Elapse, User, Toggle, Cancel, Delete, RunNow, RunNowDone, RunNowEnds, SetRow,
            CompleteOk, CompleteError, RowsOK, Rows
    <2>5. row'[k].enabled => row[k].enabled
        BY <1>0, <1>2, <2>1
        DEF Elapse, User, Toggle, Cancel, Delete, RunNow, RunNowDone, RunNowEnds, SetRow,
            CompleteOk, CompleteError, RowsOK, Rows
    <2> QED
        BY <1>0, <2>2, <2>3, <2>4, <2>5, BackedStays
<1>3. CASE Dies \/ Restart
    BY <1>3 DEF Dies, Crash, CrashMidway, Die, Restart
<1>4. CASE Recovered
    BY <1>0, <1>4 DEF Recovered, StaleFiring
<1> QED
    BY <1>1, <1>2, <1>3, <1>4 DEF Next

(* When schedules are neither deleted nor switched off and on and no       *)
(* one-shot has lost its script, a one-shot in "firing" is held by a pass  *)
(* that will take it out of that state, whatever fails, overlaps, is run   *)
(* by hand, or crashes at any point: no start of the daemon leaves one     *)
(* stuck (findStaleInFlightJobs).                                          *)
THEOREM FiringAlwaysBacked ==
    ASSUME UserOps \cap {"toggle", "delete"} = {},
           \A j \in OneShots : Mode[j] # "blank"
    PROVE  Spec => []FiringIsBacked
<1>1. Init => BackedInv
    BY SchedulesAssumption DEF Init, NewRow, BackedInv, AllThere, FiringIsBacked
<1>2. IInv /\ BackedInv /\ [Next]_vars => BackedInv'
    <2>1. ASSUME BackedInv, UNCHANGED vars PROVE BackedInv'
        BY <2>1 DEF vars, BackedInv, AllThere, FiringIsBacked, InPass
    <2> QED
        BY <2>1, NextBacked, StayThere DEF BackedInv
<1>3. BackedInv => FiringIsBacked
    BY DEF BackedInv
<1> QED
    BY <1>1, <1>2, <1>3, Invariance, PTL DEF Spec

-----------------------------------------------------------------------------
(* The number of retries.                                                  *)

(* The one-shots whose failures are counted, and what a pass has of them.  *)
Counted    == {k \in OneShots : Mode[k] # "wake"}
Claimed(p) == todo[p] \cup {cur[p]}

(* The row counts the failures, a row that may still run has a retry left  *)
(* or is at its last attempt, and every claim knows the count.             *)
Tally(j) ==
  /\ fails[j] = row[j].tries
  /\ row[j].status \in {"active", "firing"} => row[j].tries <= MaxRetries
  /\ \A p \in Passes : \A c \in Claimed(p) : c.job = j => c.tries = row[j].tries

(* At most one run row is open, and that of a firing one-shot.             *)
OneOpen(j) == open[j] <= 1 /\ (open[j] > 0 => row[j].status = "firing")

(* While the daemon serves, OneOpen follows from the run rows being        *)
(* accounted for; a dead daemon leaves it to the recovery.                 *)
ExactInv ==
  /\ NoneByHand
  /\ \A j \in Counted : row[j].there => /\ Tally(j)
                                        /\ up # "up" => OneOpen(j)

(* The step counts exactly.                                                *)
ExactStep ==
  \A j \in Counted :
    /\ row[j].status = "firing" /\ row'[j].status = "cancelled" =>
         fails[j] = MaxRetries
    /\ row[j].status = "firing" /\ row'[j].status = "active" =>
         fails[j] < MaxRetries

(* Every claim that is there after the step was there before it.           *)
NoNewClaim ==
  \A q \in Passes : \A c \in Claimed(q)' : c = Idle \/ \E p \in Passes : c \in Claimed(p)

(* Initially nothing has failed.                                           *)
LEMMA ExactInit == Init => ExactInv
BY SchedulesAssumption
DEF Init, ExactInv, NoneByHand, Counted, Tally, Claimed, NewRow, Idle

(* What a pass serves has at most the one run row of the pass that has it. *)
LEMMA ServedHasOne ==
    ASSUME IInv, NoneByHand, up = "up", NEW j \in OneShots, row[j].there
    PROVE  OneOpen(j)
<1>1. j \in Jobs
    BY SchedulesAssumption
<1>2. open[j] = Busy("tick", j) + Busy("drain", j)
    <2>1. open[j] = manual[j] + Busy("tick", j) + Busy("drain", j)
        BY <1>1 DEF IInv, RunsKept
    <2>2. manual[j] = 0 /\ Busy("tick", j) \in {0, 1} /\ Busy("drain", j) \in {0, 1}
        BY <1>1 DEF NoneByHand, Busy
    <2> QED
        BY <2>1, <2>2
<1>3. ~(cur["tick"].job = j /\ cur["drain"].job = j)
    BY DEF IInv, ClaimedOnce, Passes
<1>4. Busy("tick", j) = 1 \/ Busy("drain", j) = 1 => row[j].status = "firing"
    BY DEF Busy, IInv, ClaimedOnce, InPass, Passes
<1>5. /\ Busy("tick", j) \in {0, 1} /\ Busy("drain", j) \in {0, 1}
      /\ ~(Busy("tick", j) = 1 /\ Busy("drain", j) = 1)
    BY <1>3 DEF Busy
<1> QED
    BY <1>2, <1>4, <1>5 DEF OneOpen

(* The tally of a job whose counts do not change.                          *)
LEMMA TallyStays ==
    ASSUME NEW j \in Jobs, Tally(j), NoNewClaim,
           fails'[j] = fails[j], row'[j].tries = row[j].tries,
           row'[j].status \in {"active", "firing"} =>
             row[j].status \in {"active", "firing"}
    PROVE  Tally(j)'
<1>1. ASSUME NEW q \in Passes, NEW c \in Claimed(q)', c.job = j
      PROVE  c.tries = row'[j].tries
    <2>1. c # Idle
        BY <1>1, SchedulesAssumption DEF Idle
    <2> QED
        BY <1>1, <2>1 DEF NoNewClaim, Tally
<1> QED
    BY <1>1 DEF Tally

(* A failure of a firing one-shot, recorded and decided on.                *)
LEMMA FailureCounts ==
    ASSUME NEW j \in OneShots, NEW r \in Rows, r.status = "firing", r.tries <= MaxRetries
    PROVE  LET s == AfterFailure(j, r.tries, CompleteError(r))
           IN  /\ s.tries = r.tries + 1
               /\ \/ s.status = "active" /\ r.tries < MaxRetries
                  \/ s.status = "cancelled" /\ r.tries = MaxRetries
<1> DEFINE e == CompleteError(r)
<1>1. e \in Rows /\ e.status = "firing" /\ e.tries = r.tries + 1
    BY CompleteSettles DEF Settles, CompleteError, Rows
<1> HIDE DEF e
<1>2. ScheduleRetry(e).status = "active" /\ ScheduleRetry(e).tries = e.tries
    BY <1>1 DEF ScheduleRetry, Rows
<1>3. FailPermanently(e).status = "cancelled" /\ FailPermanently(e).tries = e.tries
    BY <1>1 DEF FailPermanently, Leave, Rows
<1>4. r.tries \in Nat /\ MaxRetries \in Nat
    BY SchedulesAssumption DEF Rows
<1>5. AfterFailure(j, r.tries, e) = IF r.tries < MaxRetries THEN ScheduleRetry(e)
                                    ELSE FailPermanently(e)
    BY DEF AfterFailure, MayRetry
<1> QED
    BY <1>1, <1>2, <1>3, <1>4, <1>5 DEF e

(* A one-shot that is no longer firing is in no pass.                      *)
LEMMA NotFiringNotHeld ==
    ASSUME IInv', NEW j \in OneShots, row'[j].there, row'[j].status # "firing",
           NEW q \in Passes, NEW c \in Claimed(q)'
    PROVE  c.job # j
BY DEF IInv, ClaimedOnce, InPass, Claimed

(* The end of the work of a claim.                                         *)
LEMMA WorkExact ==
    ASSUME IInv, IInv', ExactInv, NEW p \in Passes, WorkEnds(p)
    PROVE  ExactStep /\ ExactInv'
<1>j. PICK j \in Jobs : j = cur[p].job
    BY WorkSettles
<1>0. RowsOK /\ PassesOK /\ CountsOK
    BY TypeParts DEF IInv
<1>1. /\ RowsSettle /\ (\A k \in Jobs \ {j} : row'[k] = row[k])
      /\ j \in Jobs /\ up = "up" /\ up' = up /\ manual' = manual
    BY <1>j, WorkSettles
<1>2. NoNewClaim
    BY WorkSettles DEF ClaimsShrink, NoNewClaim, Claimed
<1>3. \A k \in Jobs \ {j} : fails'[k] = fails[k]
    BY <1>j, <1>0 DEF WorkEnds, Succeed, Fail, Throw, WakeTimesOut, WakeNotInvoked, CountsOK
<1>4. ASSUME NEW k \in Counted, k # j
      PROVE  /\ row'[k] = row[k]
             /\ row'[k].there => Tally(k)'
    <2>1. k \in Jobs /\ row'[k] = row[k]
        BY <1>j, <1>1, <1>4, SchedulesAssumption DEF Counted
    <2> QED
        BY <1>j, <1>2, <1>3, <1>4, <2>1, TallyStays DEF ExactInv
<1>5. ASSUME j \in Counted
      PROVE  /\ row[j].status = "firing" /\ row'[j].status = "cancelled" =>
                  fails[j] = MaxRetries
             /\ row[j].status = "firing" /\ row'[j].status = "active" =>
                  fails[j] < MaxRetries
             /\ row'[j].there => Tally(j)'
    <2>1. CASE ~row[j].there
        <3>1. row'[j] = row[j]
            BY <1>j, <1>0, <1>1, <2>1
            DEF WorkEnds, Succeed, Fail, Throw, WakeTimesOut, WakeNotInvoked, SetRow, RowsOK
        <3> QED
            BY <1>j, <2>1, <3>1
    <2>2. CASE row[j].there
        <3>0. /\ j \in OneShots /\ Mode[j] # "wake" /\ row[j] \in Rows
              /\ Tally(j) /\ row[j].status = "firing" /\ row'[j].there
            BY <1>j, <1>0, <1>1, <1>5, <2>2
            DEF Counted, RowsOK, ExactInv, IInv, ClaimedOnce, InPass, RowsSettle, Settles
        <3>1. /\ cur[p].tries = row[j].tries /\ fails[j] = row[j].tries
              /\ row[j].tries <= MaxRetries
            BY <1>j, <3>0 DEF Tally, Claimed
        <3>2. CASE Succeed(p)
            <4> DEFINE r == CompleteOk(row[j])
            <4>1. r \in Rows /\ r.tries = 0 /\ r.status = "firing"
                BY <1>j, <3>0, CompleteSettles DEF Settles, CompleteOk, Rows
            <4>2. row'[j] = CompleteOneShot(r) /\ fails'[j] = 0
                BY <1>j, <1>0, <1>1, <2>2, <3>0, <3>2
                DEF Succeed, SetRow, SettledOk, RecordOk, RowsOK, CountsOK
            <4> HIDE DEF r
            <4>3. row'[j].status = "fired" /\ row'[j].tries = 0
                BY <1>j, <4>1, <4>2 DEF CompleteOneShot, Leave, Rows
            <4> QED
                BY <1>j, <3>0, <4>2, <4>3, NotFiringNotHeld DEF Tally
        <3>3. CASE Fail(p)
            <4>1. /\ row'[j] = AfterFailure(j, row[j].tries, CompleteError(row[j]))
                  /\ fails'[j] = fails[j] + 1
                BY <1>j, <1>0, <1>1, <2>2, <3>0, <3>1, <3>3
                DEF Fail, SetRow, RowsOK, CountsOK
            <4>2. /\ row'[j].tries = row[j].tries + 1
                  /\ \/ row'[j].status = "active" /\ row[j].tries < MaxRetries
                     \/ row'[j].status = "cancelled" /\ row[j].tries = MaxRetries
                BY <1>j, <3>0, <3>1, <4>1, FailureCounts
            <4>3. \A q \in Passes : \A c \in Claimed(q)' : c.job # j
                BY <1>j, <3>0, <4>2, NotFiringNotHeld
            <4>4. row[j].tries \in Nat /\ MaxRetries \in Nat
                BY <1>j, <3>0, SchedulesAssumption DEF Rows
            <4> QED
                BY <1>j, <3>1, <4>1, <4>2, <4>3, <4>4 DEF Tally
        <3>4. ~Throw(p) /\ ~WakeTimesOut(p) /\ ~WakeNotInvoked(p)
            BY <1>j, <2>2, <3>0 DEF Throw, WakeTimesOut, WakeNotInvoked
        <3> QED
            BY <1>j, <3>2, <3>3, <3>4 DEF WorkEnds
    <2> QED
        BY <1>j, <2>1, <2>2
<1>6. NoneByHand'
    BY <1>j, <1>1 DEF ExactInv, NoneByHand
<1>7. ExactStep
    BY <1>j, <1>4, <1>5 DEF ExactStep
<1>8. \A k \in Counted : row'[k].there => Tally(k)'
    BY <1>j, <1>4, <1>5
<1> QED
    BY <1>j, <1>1, <1>6, <1>7, <1>8 DEF ExactInv

(* A pass claims and starts.                                               *)
LEMMA PassExact ==
    ASSUME IInv, ExactInv, NEW p \in Passes, Claim(p) \/ StartNext(p)
    PROVE  ExactStep /\ ExactInv'
<1>0. RowsOK /\ PassesOK
    BY TypeParts DEF IInv
<1>1. ASSUME NEW spent \in SUBSET Expiring, ClaimDue(p, spent)
      PROVE  ExactStep /\ ExactInv'
    <2>1. up = "up" /\ up' = up /\ manual' = manual /\ fails' = fails
        BY <1>1 DEF ClaimDue, Quiet
    <2>2. cur' = cur /\ cur[p] = Idle
        BY <1>1 DEF ClaimDue, Free
    <2>3. ASSUME NEW k \in Counted
          PROVE  /\ k \in Jobs /\ row[k] \in Rows /\ row'[k].there = row[k].there
                 /\ row'[k].tries = row[k].tries
                 /\ row'[k].status = IF Due(k) THEN "firing" ELSE row[k].status
        <3>1. k \in OneShots /\ k \in Jobs
            BY SchedulesAssumption DEF Counted
        <3>2. row'[k] = IF Due(k) THEN [row[k] EXCEPT !.status = "firing"] ELSE row[k]
            BY <1>1, <3>1, ClaimTakes DEF ClaimedRow
        <3> QED
            BY <1>0, <3>1, <3>2 DEF RowsOK, Rows
    <2>4. ExactStep
        BY <2>3 DEF ExactStep
    <2>5. ASSUME NEW k \in Counted, row'[k].there PROVE Tally(k)'
        <3>1. Tally(k)
            BY <2>3, <2>5 DEF ExactInv
        <3>2. Due(k) => row[k].status = "active"
            BY DEF Due, Counted
        <3>3. ASSUME NEW q \in Passes, NEW c \in Claimed(q)', c.job = k
              PROVE  c.tries = row[k].tries
            <4>1. CASE c \in Claimed(q)
                BY <3>1, <3>3, <4>1 DEF Tally
            <4>2. CASE c \notin Claimed(q)
                <5>1. q = p /\ c \in todo'[p]
                    BY <1>0, <1>1, <2>2, <3>3, <4>2 DEF ClaimDue, PassesOK, Claimed
                <5>2. \E i \in Jobs : c = [job |-> i, tries |-> row[i].tries]
                    BY <1>0, <1>1, <5>1 DEF ClaimDue, PassesOK
                <5> QED
                    BY <3>3, <5>2
            <4> QED
                BY <4>1, <4>2
        <3> QED
            BY <2>1, <2>3, <3>1, <3>2, <3>3 DEF Tally
    <2> QED
        BY <2>1, <2>4, <2>5 DEF ExactInv, NoneByHand
<1>2. CASE StartNext(p)
    <2>1. PICK c \in todo[p] : Start(p, c)
        BY <1>2 DEF StartNext
    <2>2. /\ row' = row /\ manual' = manual /\ fails' = fails
          /\ up' = up /\ up = "up"
        BY <2>1 DEF Start
    <2>3. NoNewClaim
        BY <1>0, <2>1 DEF Start, Abandon, NoNewClaim, Claimed, PassesOK
    <2>4. ExactStep
        BY <2>2 DEF ExactStep
    <2>5. ASSUME NEW k \in Counted, row'[k].there PROVE Tally(k)'
        BY <2>2, <2>3, <2>5, TallyStays, SchedulesAssumption DEF ExactInv, Counted
    <2> QED
        BY <2>2, <2>4, <2>5 DEF ExactInv, NoneByHand
<1> QED
    BY <1>1, <1>2 DEF Claim

(* The clock and the user.                                                 *)
LEMMA UserExact ==
    ASSUME IInv, ExactInv, NEW j \in Jobs, Elapse(j) \/ Toggle(j) \/ Cancel(j) \/ Delete(j)
    PROVE  ExactStep /\ ExactInv'
<1>0. RowsOK /\ PassesOK /\ CountsOK
    BY TypeParts DEF IInv
<1>1. UNCHANGED <<todo, cur, up, manual, fails>>
    BY DEF Elapse, Toggle, Cancel, Delete
<1>2. open' = open \/ (Delete(j) /\ open' = [open EXCEPT ![j] = 0])
    BY DEF Elapse, Toggle, Cancel, Delete
<1>3. ASSUME NEW k \in Counted
      PROVE  /\ k \in Jobs
             /\ row'[k].tries = row[k].tries
             /\ \/ row'[k].status = row[k].status
                \/ row[k].status = "active" /\ row'[k].status = "cancelled"
             /\ row'[k].there => row[k].there /\ open'[k] = open[k]
    <2>0. k \in Jobs /\ row[k] \in Rows
        BY <1>0, SchedulesAssumption DEF Counted, RowsOK
    <2>1. CASE Elapse(j)
        BY <1>0, <2>0, <2>1 DEF Elapse, RowsOK, Rows
    <2>2. CASE Toggle(j)
        BY <1>0, <2>0, <2>2 DEF Toggle, SetRow, RowsOK, Rows
    <2>3. CASE Cancel(j)
        BY <1>0, <2>0, <2>3 DEF Cancel, RowsOK, Rows
    <2>4. CASE Delete(j)
        BY <1>0, <2>0, <2>4 DEF Delete, RowsOK, Rows, CountsOK
    <2> QED
        BY <2>0, <2>1, <2>2, <2>3, <2>4
<1>4. NoNewClaim
    BY <1>1 DEF NoNewClaim, Claimed
<1>5. ExactStep
    BY <1>3 DEF ExactStep
<1>6. ASSUME NEW k \in Counted, row'[k].there
      PROVE  Tally(k)' /\ (up' # "up" => OneOpen(k)')
    <2>1. Tally(k) /\ (up # "up" => OneOpen(k))
        BY <1>3, <1>6 DEF ExactInv
    <2>2. Tally(k)'
        BY <1>1, <1>3, <1>4, <2>1, TallyStays
    <2>3. up' # "up" => OneOpen(k)'
        <3>1. CASE Elapse(j)
            <4>1. row'[k].status = row[k].status
                BY <1>0, <1>3, <3>1 DEF Elapse, RowsOK, Rows
            <4> QED
                BY <1>1, <1>3, <1>6, <2>1, <4>1 DEF OneOpen
        <3>2. CASE ~Elapse(j)
            BY <1>1, <3>2 DEF Toggle, Cancel, Delete, Quiet
        <3> QED
            BY <3>1, <3>2
    <2> QED
        BY <2>2, <2>3
<1> QED
    BY <1>1, <1>5, <1>6 DEF ExactInv, NoneByHand

(* The recovery counts the attempt that died, once.                        *)
LEMMA RecoverExact ==
    ASSUME IInv, IInv', ExactInv, NEW j \in Jobs, Recover(j)
    PROVE  ExactStep /\ ExactInv'
<1>0. RowsOK /\ PassesOK /\ CountsOK
    BY TypeParts DEF IInv
<1>1. /\ up = "recovering" /\ row[j].there /\ row[j] \in Rows
      /\ UNCHANGED <<todo, cur, up, manual>>
      /\ row' = [row EXCEPT ![j] = AfterFailure(j, row[j].tries, CompleteError(row[j]))]
      /\ fails' = [fails EXCEPT ![j] = IF row[j].status = "firing" THEN @ + 1 ELSE @]
      /\ \/ open[j] > 0 /\ open' = [open EXCEPT ![j] = @ - 1]
         \/ ~(open[j] > 0) /\ row[j].status = "firing" /\ open' = open
    BY <1>0 DEF Recover, RecoverRun, RecoverFiring, RecoverJob, StaleRun, StaleFiring,
                CloseRun, SetRow, RowsOK
<1>2. NoNewClaim
    BY <1>1 DEF NoNewClaim, Claimed
<1>3. ASSUME NEW k \in Counted, k # j
      PROVE  /\ row'[k] = row[k]
             /\ row'[k].there => Tally(k)' /\ OneOpen(k)'
    <2>1. k \in Jobs /\ row'[k] = row[k] /\ fails'[k] = fails[k] /\ open'[k] = open[k]
        BY <1>0, <1>1, <1>3, SchedulesAssumption DEF Counted, RowsOK, CountsOK
    <2>2. row[k].there => Tally(k) /\ OneOpen(k)
        BY <1>1 DEF ExactInv
    <2> QED
        BY <1>2, <2>1, <2>2, TallyStays DEF OneOpen
<1>4. ASSUME j \in Counted
      PROVE  /\ row'[j].status = "cancelled" => fails[j] = MaxRetries
             /\ row'[j].status = "active" => fails[j] < MaxRetries
             /\ row'[j].there => Tally(j)' /\ OneOpen(j)'
    <2>1. j \in OneShots /\ Tally(j) /\ OneOpen(j)
        BY <1>1, <1>4 DEF Counted, ExactInv
    <2>2. /\ row[j].status = "firing" /\ row[j].tries <= MaxRetries
          /\ fails[j] = row[j].tries
        BY <1>1, <2>1 DEF Tally, OneOpen
    <2>3. /\ row'[j] = AfterFailure(j, row[j].tries, CompleteError(row[j]))
          /\ fails'[j] = fails[j] + 1
        BY <1>0, <1>1, <2>2 DEF RowsOK, CountsOK
    <2>4. /\ row'[j].tries = row[j].tries + 1
          /\ \/ row'[j].status = "active" /\ row[j].tries < MaxRetries
             \/ row'[j].status = "cancelled" /\ row[j].tries = MaxRetries
        BY <1>1, <2>1, <2>2, <2>3, FailureCounts
    <2>5. row[j].tries \in Nat /\ MaxRetries \in Nat /\ open[j] \in Nat
        BY <1>0, <1>1, SchedulesAssumption DEF Rows, CountsOK
    <2>6. OneOpen(j)'
        <3>1. ~(open'[j] > 0) /\ open'[j] <= 1
            BY <1>0, <1>1, <2>1, <2>5 DEF OneOpen, CountsOK
        <3> QED
            BY <3>1 DEF OneOpen
    <2>7. row'[j].there => Tally(j)'
        <3> SUFFICES ASSUME row'[j].there PROVE Tally(j)'
            OBVIOUS
        <3>1. \A q \in Passes : \A c \in Claimed(q)' : c.job # j
            BY <2>1, <2>4, NotFiringNotHeld
        <3> QED
            BY <2>2, <2>3, <2>4, <2>5, <3>1 DEF Tally
    <2> QED
        BY <2>2, <2>4, <2>6, <2>7
<1>5. ExactStep
    BY <1>3, <1>4 DEF ExactStep
<1>6. \A k \in Counted : row'[k].there => Tally(k)' /\ OneOpen(k)'
    BY <1>3, <1>4
<1> QED
    BY <1>1, <1>5, <1>6 DEF ExactInv, NoneByHand

(* Death on an await, restart and the end of the recovery.                 *)
LEMMA DeathExact ==
    ASSUME ~MidCrash, IInv, ExactInv, Dies \/ Restart \/ Recovered
    PROVE  ExactStep /\ ExactInv'
<1>1. UNCHANGED <<row, open, fails>> /\ NoneByHand' /\ NoNewClaim
    BY DEF Dies, Crash, CrashMidway, Die, Restart, Recovered, ExactInv, NoneByHand,
           NoNewClaim, Claimed
<1>2. ExactStep
    BY <1>1 DEF ExactStep
<1>3. ASSUME NEW k \in Counted, row'[k].there PROVE Tally(k)' /\ OneOpen(k)'
    <2>1. k \in OneShots /\ k \in Jobs /\ row[k].there /\ Tally(k)
        BY <1>1, <1>3, SchedulesAssumption DEF Counted, ExactInv
    <2>2. OneOpen(k)
        BY <1>1, <1>3, <2>1, ServedHasOne DEF ExactInv
    <2> QED
        BY <1>1, <2>1, <2>2, TallyStays DEF OneOpen
<1> QED
    BY <1>1, <1>2, <1>3 DEF ExactInv

(* Every step counts exactly.                                              *)
LEMMA NextExact ==
    ASSUME "runNow" \notin UserOps, ~MidCrash, IInv, IInv', ExactInv, [Next]_vars
    PROVE  ExactStep /\ ExactInv'
<1>1. ASSUME UNCHANGED vars PROVE ExactStep /\ ExactInv'
    BY <1>1 DEF vars, ExactStep, ExactInv, NoneByHand, Tally, Claimed, OneOpen
<1>2. ASSUME NEW p \in Passes, Pass(p) PROVE ExactStep /\ ExactInv'
    BY <1>2, WorkExact, PassExact DEF Pass
<1>3. ASSUME NEW j \in Jobs, Elapse(j) \/ User(j) \/ RunNowDone(j) \/ Recover(j)
      PROVE  ExactStep /\ ExactInv'
    <2>1. ~RunNow(j) /\ ~RunNowDone(j)
        <3>1. ~(manual[j] > 0)
            BY DEF ExactInv, NoneByHand
        <3> QED
            BY <3>1 DEF RunNow, RunNowDone, RunNowEnds
    <2> QED
        BY <1>3, <2>1, UserExact, RecoverExact DEF User
<1> QED
    BY <1>1, <1>2, <1>3, DeathExact DEF Next

(* When no schedule is run by hand and a crash falls on an await, a        *)
(* one-shot is given up after exactly maxRetries retries, attempts that    *)
(* died with the daemon included: neither a crash nor an overlap of two    *)
(* passes costs a retry or grants one (decideRetry, recoverStaleSchedules).*)
THEOREM RetriesExact ==
    ASSUME "runNow" \notin UserOps, ~MidCrash
    PROVE  Spec => ExactlyMaxRetries
<1>1. IInv /\ IInv' /\ ExactInv /\ [Next]_vars => ExactInv' /\ [ExactStep]_vars
    BY NextExact
<1>2. [ExactStep]_vars =>
        [\A j \in {k \in OneShots : Mode[k] # "wake"} :
           /\ row[j].status = "firing" /\ row'[j].status = "cancelled" =>
                fails[j] = MaxRetries
           /\ row[j].status = "firing" /\ row'[j].status = "active" =>
                fails[j] < MaxRetries]_vars
    BY DEF ExactStep, Counted
<1> QED
    BY <1>1, <1>2, ExactInit, Invariance, PTL DEF Spec, ExactlyMaxRetries

=============================================================================
