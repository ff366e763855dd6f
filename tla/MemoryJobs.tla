------------------------------ MODULE MemoryJobs ------------------------------
(***************************************************************************)
(* The assistant's memory jobs: the rows of memory_jobs and the upserts    *)
(* that coalesce triggers into them (jobs-store.ts), the worker that       *)
(* claims and runs them lane by lane (jobs-worker.ts), the breaker that    *)
(* gates the embed lane (qdrant-circuit-breaker.ts) and the cancellation   *)
(* of a wiped conversation's jobs (task-memory-cleanup.ts).                *)
(*                                                                         *)
(* One tick of the worker is under way at a time.  It claims up to a lane's *)
(* cap of ripe rows in each lane; the rows of one type and conversation    *)
(* are handled one after the other, everything else side by side; and the  *)
(* next tick waits for all of them.                                        *)
(*                                                                         *)
(* Abstracted: run_after (a pending row is ripe or not yet), started_at (a *)
(* running row is old or not yet), the order in which the ripe rows of a   *)
(* lane are claimed, back-off delays, payloads, the work of the handlers,  *)
(* and the disk-pressure gate (a tick that claims nothing).                *)
(***************************************************************************)
EXTENDS Naturals, Sequences, FiniteSets

CONSTANTS
  Convs,          \* conversations
  Kinds,          \* which of AllKinds are enqueued
  SlowCap, FastCap, EmbedCap,   \* jobs.*Concurrency: a tick's claims per lane
  MaxAttempts,    \* RETRY_MAX_ATTEMPTS
  MaxDeferrals,   \* MAX_DEFERRALS
  Threshold,      \* FAILURE_THRESHOLD of the breaker
  Wipes,          \* may conversations be wiped
  MaxRows,        \* bound: rows ever inserted
  MaxQueries,     \* bound: Qdrant operations of others
  MaxCrashes,     \* bound: crashes
  NoConv

\* "retro", "analyzeNow" and "analyzeIdle" (one type, two trigger groups) and
\* "extract" are slow and keyed by conversation; "embed" stands for the embed
\* types, "prune" for the maintenance jobs of the fast lane.
AllKinds == {"retro", "analyzeNow", "analyzeIdle", "extract", "embed", "prune"}

ASSUME MemoryJobsAssumption ==
  /\ Kinds \subseteq AllKinds
  /\ SlowCap \in Nat \ {0}
  /\ FastCap \in Nat \ {0}
  /\ EmbedCap \in Nat \ {0}
  /\ MaxAttempts \in Nat \ {0}
  /\ MaxDeferrals \in Nat \ {0}
  /\ Threshold \in Nat \ {0}
  /\ Wipes \in BOOLEAN
  /\ MaxRows \in Nat
  /\ MaxQueries \in Nat
  /\ MaxCrashes \in Nat
  /\ NoConv \notin Convs

Lanes == {"slow", "fast", "embed"}
Lane(kind) ==
  CASE kind = "embed" -> "embed" [] kind = "prune" -> "fast" [] OTHER -> "slow"
Cap(lane) ==
  CASE lane = "slow" -> SlowCap [] lane = "fast" -> FastCap [] OTHER -> EmbedCap
Type(kind) ==
  IF kind \in {"analyzeNow", "analyzeIdle"} THEN "analyze" ELSE kind

VARIABLES
  job,          \* memory_jobs, in the order of insertion
  stage,        \* what the tick under way does with a row: "held" in its group
                \* behind another, "prep" in its handler, "op" in the handler's
                \* Qdrant operation, "off" for the rows it has not claimed
  breaker,      \* the circuit breaker
  queries,      \* Qdrant operations of others in flight
  up,           \* is the worker running
  queriesLeft, crashesLeft,   \* what is left of the bounds
  asked         \* coalesced triggers no handler has started after

vars == <<job, stage, breaker, queries, up, queriesLeft, crashesLeft, asked>>

Ids == 1..MaxRows
Statuses == {"pending", "running", "completed", "failed"}
\* A pending row is "ripe" or "later"; a running one is "old" or "fresh".
Times == {"later", "ripe", "fresh", "old"}
Rows == [kind : Kinds, conv : Convs \cup {NoConv}, status : Statuses,
         time : Times, attempts : Nat, deferrals : Nat, starts : Nat]
Stages == {"off", "held", "prep", "op"}
Breakers == [state : {"closed", "open", "half-open"}, failures : 0..Threshold,
             cooled : BOOLEAN, probe : BOOLEAN]
Closed == [state |-> "closed", failures |-> 0, cooled |-> FALSE, probe |-> FALSE]

Pending(i) == job[i].status = "pending"
Active(i) == job[i].status \in {"pending", "running"}
Live(i) == stage[i] \in {"prep", "op"}
\* The groups of runLanePool: only these kinds carry a conversationId.
Key(i) ==
  <<Type(job[i].kind),
    IF job[i].kind \in {"embed", "prune"} THEN NoConv ELSE job[i].conv>>
Trigger(i) == <<Type(job[i].kind), job[i].conv>>

\* Nobody reads the rest of the row of a job that has ended.
Ended(r, status) ==
  [r EXCEPT !.status = status, !.time = "later",
            !.attempts = 0, !.deferrals = 0, !.starts = 0]

(***************************************************************************)
(* Enqueueing.                                                             *)
(***************************************************************************)
NewRow(kind, c, time) ==
  [kind |-> kind, conv |-> c, status |-> "pending", time |-> time,
   attempts |-> 0, deferrals |-> 0, starts |-> 0]

\* Broken: a row whose handler runs takes the trigger too.
ActiveOf(kind, c) ==
  {i \in DOMAIN job : Active(i) /\ job[i].kind = kind /\ job[i].conv = c}
PendingOf(kind, c) ==
  {i \in DOMAIN job : Pending(i) /\ job[i].kind = kind /\ job[i].conv = c}

Insert(rows, kind, c, time) ==
  /\ Len(rows) < MaxRows
  /\ job' = Append(rows, NewRow(kind, c, time))

\* Update a pending row's time, or insert one; rows is what the same call has
\* made of the table so far.
Upsert(rows, kind, c, time) ==
  LET found == PendingOf(kind, c) IN
  \/ \E i \in found :
       job' = [rows EXCEPT ![i].time = IF Pending(i) THEN time ELSE @]
  \/ found = {} /\ Insert(rows, kind, c, time)

Asks(type, c) ==
  /\ asked' = asked \cup {<<type, c>>}
  /\ UNCHANGED <<stage, breaker, queries, up, queriesLeft, crashesLeft>>

\* upsertMemoryRetrospectiveJob: the earlier of the two times wins.
EnqueueRetro(c, time) ==
  LET ripe == \E i \in PendingOf("retro", c) : job[i].time = "ripe" IN
  /\ "retro" \in Kinds
  /\ Upsert(job, "retro", c, IF ripe THEN "ripe" ELSE time)
  /\ Asks("retro", c)

\* upsertDebouncedJob: the last time wins.
EnqueueExtract(c, time) ==
  /\ "extract" \in Kinds
  /\ Upsert(job, "extract", c, time)
  /\ Asks("extract", c)

\* upsertAutoAnalysisJob of an idle or lifecycle trigger.
EnqueueIdle(c) ==
  /\ "analyzeIdle" \in Kinds
  /\ Upsert(job, "analyzeIdle", c, "later")
  /\ Asks("analyze", c)

\* Of a batch or compaction trigger, which stands in for the idle one.
\* Broken: the idle row is completed whatever its status.
StandsInForAny(c) ==
  [i \in DOMAIN job |->
     IF i \in ActiveOf("analyzeIdle", c)
     THEN Ended(job[i], "completed") ELSE job[i]]
StandsInFor(c) ==
  [i \in DOMAIN job |->
     IF i \in PendingOf("analyzeIdle", c)
     THEN Ended(job[i], "completed") ELSE job[i]]
EnqueueNow(c) ==
  /\ "analyzeNow" \in Kinds
  /\ Upsert(StandsInFor(c), "analyzeNow", c, "ripe")
  /\ Asks("analyze", c)

\* enqueueMemoryJob of an embed type.
EnqueueEmbed(c) ==
  /\ "embed" \in Kinds
  /\ Insert(job, "embed", c, "ripe")
  /\ UNCHANGED <<stage, breaker, queries, up, queriesLeft, crashesLeft, asked>>

\* enqueuePrune*: not beside a pending or running one.
PruneActive == ActiveOf("prune", NoConv)
EnqueuePrune ==
  /\ "prune" \in Kinds
  /\ PruneActive = {}
  /\ Insert(job, "prune", NoConv, "ripe")
  /\ UNCHANGED <<stage, breaker, queries, up, queriesLeft, crashesLeft, asked>>

\* cancelPendingJobsForConversation.
Wipe(c) ==
  /\ Wipes
  /\ \E i \in DOMAIN job : Active(i) /\ job[i].conv = c
  /\ job' = [i \in DOMAIN job |->
               IF Active(i) /\ job[i].conv = c
               THEN IF stage[i] = "off" THEN Ended(job[i], "failed")
                    ELSE [job[i] EXCEPT !.status = "failed"]
               ELSE job[i]]
  /\ asked' = {t \in asked : t[2] # c}
  /\ UNCHANGED <<stage, breaker, queries, up, queriesLeft, crashesLeft>>

(***************************************************************************)
(* The breaker.                                                            *)
(***************************************************************************)
ReadyToProbe == breaker.state = "open" /\ breaker.cooled
Allows ==
  \/ breaker.state = "closed"
  \/ ReadyToProbe
  \/ breaker.state = "half-open" /\ ~breaker.probe
LetThrough ==
  IF breaker.state = "closed" THEN breaker
  ELSE [breaker EXCEPT !.state = "half-open", !.cooled = FALSE, !.probe = TRUE]

\* Broken: a failed probe is forgotten.
FailureForgetsProbe ==
  LET n == IF breaker.failures < Threshold THEN breaker.failures + 1
           ELSE Threshold IN
  [breaker EXCEPT !.failures = n, !.probe = FALSE,
                  !.state = IF @ = "closed" /\ n = Threshold THEN "open" ELSE @]
\* failures beyond the threshold are not told apart.
AfterFailure ==
  LET n == IF breaker.failures < Threshold THEN breaker.failures + 1
           ELSE Threshold IN
  IF n = Threshold \/ breaker.state = "half-open"
  THEN [state |-> "open", failures |-> n, cooled |-> FALSE, probe |-> FALSE]
  ELSE [breaker EXCEPT !.failures = n, !.probe = FALSE]
Recorded(ok) == IF ok THEN Closed ELSE AfterFailure

Cool ==
  /\ breaker.state = "open"
  /\ ~breaker.cooled
  /\ breaker' = [breaker EXCEPT !.cooled = TRUE]
  /\ UNCHANGED <<job, stage, queries, up, queriesLeft, crashesLeft, asked>>

\* Searches, deletions and index runs outside of the worker.
QueryStarts ==
  /\ queriesLeft > 0
  /\ Allows
  /\ breaker' = LetThrough
  /\ queries' = queries + 1
  /\ queriesLeft' = queriesLeft - 1
  /\ UNCHANGED <<job, stage, up, crashesLeft, asked>>

QueryEnds(ok) ==
  /\ queries > 0
  /\ breaker' = Recorded(ok)
  /\ queries' = queries - 1
  /\ UNCHANGED <<job, stage, up, queriesLeft, crashesLeft, asked>>

(***************************************************************************)
(* The worker.                                                             *)
(***************************************************************************)
\* failStalledJobs.
Unstalled ==
  [i \in DOMAIN job |->
     IF job[i].status = "running" /\ job[i].time = "old"
     THEN Ended(job[i], "failed") ELSE job[i]]

Ripe(lane) ==
  {i \in DOMAIN job : Pending(i) /\ job[i].time = "ripe"
                      /\ Lane(job[i].kind) = lane}

\* Broken: the lane waits for the breaker to close.
EmbedLimitIfClosed == IF breaker.state = "closed" THEN EmbedCap ELSE 0
EmbedLimit ==
  IF breaker.state = "closed" THEN EmbedCap
  ELSE IF ReadyToProbe THEN 1 ELSE 0
Limit(lane) == IF lane = "embed" THEN EmbedLimit ELSE Cap(lane)

\* As many of the ripe rows of each lane as its limit allows.
Claims ==
  LET Least(a, b) == IF a < b THEN a ELSE b IN
  {S \in SUBSET DOMAIN job :
     \A lane \in Lanes :
       /\ {i \in S : Lane(job[i].kind) = lane} \subseteq Ripe(lane)
       /\ Cardinality({i \in S : Lane(job[i].kind) = lane})
            = Least(Limit(lane), Cardinality(Ripe(lane)))}

\* One row of each group is handled first.
Firsts(S) ==
  {F \in SUBSET S : \A i \in S : Cardinality({j \in F : Key(j) = Key(i)}) = 1}

\* Broken: a tick begins while another is under way, or after stop().
AnyTime == up
BetweenTicks == up /\ \A i \in Ids : stage[i] = "off"

\* The handlers of S start.
Starting(rows, S) ==
  [i \in DOMAIN rows |->
     IF i \in S THEN [rows[i] EXCEPT !.starts = @ + 1] ELSE rows[i]]

Claimed(S) ==
  [i \in DOMAIN job |->
     IF i \in S THEN [job[i] EXCEPT !.status = "running", !.time = "fresh"]
     ELSE Unstalled[i]]

Tick ==
  /\ BetweenTicks
  /\ \E S \in Claims : \E F \in Firsts(S) :
       /\ job' = Starting(Claimed(S), F)
       /\ stage' = [i \in Ids |-> IF i \in F THEN "prep"
                                  ELSE IF i \in S THEN "held" ELSE stage[i]]
       /\ asked' = asked \ {Trigger(i) : i \in F}
  /\ UNCHANGED <<breaker, queries, up, queriesLeft, crashesLeft>>

\* What becomes of the row: failMemoryJob and deferMemoryJob read it again but
\* do not look at its status.
Retry(r) ==
  LET n == r.attempts + 1 IN
  IF n >= MaxAttempts THEN Ended(r, "failed")
  ELSE [r EXCEPT !.status = "pending", !.time = "later", !.attempts = n]
\* Broken: the deferral is not counted.
DeferUncounted(r) == [r EXCEPT !.status = "pending", !.time = "later"]
Defer(r) ==
  LET n == r.deferrals + 1 IN
  IF n >= MaxDeferrals THEN Ended(r, "failed")
  ELSE [r EXCEPT !.status = "pending", !.time = "later", !.deferrals = n]
\* "lost": handleJobError throws and the row is left as it is.
Outcomes == {"ok", "retryable", "fatal", "unavailable", "lost"}
Handled(r, outcome) ==
  CASE outcome = "ok" -> Ended(r, "completed")
    [] outcome = "retryable" -> Retry(r)
    [] outcome = "fatal" -> Ended(r, "failed")
    [] outcome = "unavailable" -> Defer(r)
    [] outcome = "lost" -> r

\* The handler of i ends and the next of its group starts.
HandlerEnds(i, outcome) ==
  LET rows == [job EXCEPT ![i] = Handled(@, outcome)]
      mates == {j \in DOMAIN job : stage[j] = "held" /\ Key(j) = Key(i)} IN
  IF mates = {}
  THEN /\ job' = rows
       /\ stage' = [stage EXCEPT ![i] = "off"]
       /\ UNCHANGED asked
  ELSE \E j \in mates :
         /\ job' = Starting(rows, {j})
         /\ stage' = [stage EXCEPT ![i] = "off", ![j] = "prep"]
         /\ asked' = asked \ {Trigger(j)}

\* A handler that does not come to a Qdrant operation.
Work(i, outcome) ==
  /\ stage[i] = "prep"
  /\ HandlerEnds(i, outcome)
  /\ UNCHANGED <<breaker, queries, up, queriesLeft, crashesLeft>>

\* withQdrantBreaker: refused, the job is deferred.
CallQdrant(i) ==
  /\ stage[i] = "prep"
  /\ job[i].kind = "embed"
  /\ IF Allows
     THEN /\ breaker' = LetThrough
          /\ stage' = [stage EXCEPT ![i] = "op"]
          /\ UNCHANGED <<job, asked>>
     ELSE /\ HandlerEnds(i, "unavailable")
          /\ UNCHANGED breaker
  /\ UNCHANGED <<queries, up, queriesLeft, crashesLeft>>

QdrantAnswers(i, outcome) ==
  /\ stage[i] = "op"
  /\ outcome # "unavailable"
  /\ breaker' = Recorded(outcome = "ok")
  /\ HandlerEnds(i, outcome)
  /\ UNCHANGED <<queries, up, queriesLeft, crashesLeft>>

\* run_after passes; a running row becomes older than stalledJobTimeoutMs,
\* which is looked at between ticks only.
Elapse(i) ==
  /\ i \in DOMAIN job
  /\ stage[i] = "off"
  /\ \/ Pending(i) /\ job[i].time = "later"
     \/ job[i].status = "running" /\ job[i].time = "fresh"
  /\ job' = [job EXCEPT ![i].time = IF Pending(i) THEN "ripe" ELSE "old"]
  /\ UNCHANGED <<stage, breaker, queries, up, queriesLeft, crashesLeft, asked>>

(***************************************************************************)
(* The daemon dies and comes back.  It serves triggers before its worker   *)
(* starts.  Bound: others query Qdrant before the first crash only, after  *)
(* which the breaker is as in the beginning.                               *)
(***************************************************************************)
Crash ==
  /\ crashesLeft > 0
  /\ up' = FALSE
  /\ crashesLeft' = crashesLeft - 1
  /\ stage' = [i \in Ids |-> "off"]
  /\ breaker' = Closed
  /\ queries' = 0
  /\ queriesLeft' = 0
  /\ UNCHANGED <<job, asked>>

\* resetRunningJobsToPending: run_after is the one the row was claimed by.
Restart ==
  /\ ~up
  /\ up' = TRUE
  /\ job' = [i \in DOMAIN job |->
               IF job[i].status = "running"
               THEN [job[i] EXCEPT !.status = "pending", !.time = "ripe"]
               ELSE job[i]]
  /\ UNCHANGED <<stage, breaker, queries, queriesLeft, crashesLeft, asked>>

(***************************************************************************)
(* The specification.                                                      *)
(***************************************************************************)
Init ==
  /\ job = <<>>
  /\ stage = [i \in Ids |-> "off"]
  /\ breaker = Closed
  /\ queries = 0
  /\ up = TRUE
  /\ queriesLeft = MaxQueries
  /\ crashesLeft = MaxCrashes
  /\ asked = {}

Enqueue ==
  \/ \E c \in Convs : \/ \E time \in {"ripe", "later"} :
                           EnqueueRetro(c, time) \/ EnqueueExtract(c, time)
                      \/ EnqueueIdle(c)
                      \/ EnqueueNow(c)
                      \/ EnqueueEmbed(c)
  \/ EnqueuePrune

WorkOf(i) == \E outcome \in Outcomes : Work(i, outcome)
AnswerTo(i) == \E outcome \in Outcomes : QdrantAnswers(i, outcome)
Handler(i) == WorkOf(i) \/ CallQdrant(i) \/ AnswerTo(i)
QueryDone == \E ok \in BOOLEAN : QueryEnds(ok)

Next ==
  \/ Enqueue
  \/ \E c \in Convs : Wipe(c)
  \/ Tick
  \/ \E i \in Ids : Handler(i) \/ Elapse(i)
  \/ Cool
  \/ QueryStarts
  \/ QueryDone
  \/ Crash
  \/ Restart

Spec == Init /\ [][Next]_vars

\* The timer ticks, time passes, handlers and Qdrant operations return, a dead
\* process is restarted.  Nobody has to trigger, query or wipe.
Fairness ==
  /\ WF_vars(Tick)
  /\ \A i \in Ids : WF_vars(Handler(i)) /\ WF_vars(Elapse(i))
  /\ WF_vars(Cool)
  /\ WF_vars(QueryDone)
  /\ WF_vars(Restart)

FairSpec == Spec /\ Fairness

(***************************************************************************)
(* Properties.                                                             *)
(***************************************************************************)
\* Every variable has its type, and a stopped worker holds no row.
TypeOK ==
  /\ job \in Seq(Rows)
  /\ Len(job) <= MaxRows
  /\ stage \in [Ids -> Stages]
  /\ \A i \in Ids : stage[i] # "off" => i \in DOMAIN job /\ up
  /\ breaker \in Breakers
  /\ queries \in 0..MaxQueries
  /\ up \in BOOLEAN
  /\ queriesLeft \in 0..MaxQueries
  /\ crashesLeft \in 0..MaxCrashes
  /\ asked \subseteq {"retro", "analyze", "extract"} \X Convs

\* No trigger is swallowed: until a handler of its type and conversation has
\* started after it, a pending row or one waiting in its group stands for it.
\* Coalescing into a row whose handler already runs would lose what the
\* handler has read past (upsertDebouncedJob, upsertAutoAnalysisJob,
\* upsertMemoryRetrospectiveJob).
TriggersCovered ==
  up => \A t \in asked :
          \E i \in DOMAIN job : /\ Trigger(i) = t
                                /\ Pending(i) \/ stage[i] = "held"

\* Jobs of one type and conversation never run side by side: they share
\* checkpoints (runLanePool, the tick guard).
Serial ==
  \A i, j \in DOMAIN job : Live(i) /\ Live(j) /\ Key(i) = Key(j) => i = j

\* A maintenance job is not queued or run twice at a time, crashes, retries
\* and lost errors included (enqueuePruneOldConversationsJob).
OnePrune == Cardinality(PruneActive) <= 1

\* Every run of a handler beyond the first is counted, as an attempt or as a
\* deferral, except for one per crash: what bounds the cost of a bad job
\* (failMemoryJob, deferMemoryJob, resetRunningJobsToPending).
RunsCounted ==
  \A i \in DOMAIN job :
    job[i].starts <= job[i].attempts + job[i].deferrals
                     + (MaxCrashes - crashesLeft) + 1

\* A half-open breaker has an operation in flight, which will take it out of
\* that state: otherwise the embed lane is shut for good (allows,
\* recordFailure, claimMemoryJobs).
HalfOpenHasProbe ==
  breaker.state = "half-open" =>
    queries > 0 \/ \E i \in Ids : stage[i] = "op"

\* A completed job is never run again, whatever late result still comes for
\* it (upsertAutoAnalysisJob, handleJobError).
CompletedForGood ==
  [][\A i \in DOMAIN job :
       job[i].status = "completed" => job'[i].status = "completed"]_vars

\* A job that was cancelled with its conversation, or has failed, is not
\* queued again (cancelPendingJobsForConversation, failMemoryJob).
FailedForGood ==
  [][\A i \in DOMAIN job :
       job[i].status = "failed" => ~Active(i)']_vars

\* Every job comes to an end, through retries, deferrals, an open breaker,
\* handlers that leave their row in "running", and crashes.  Debounced rows
\* are put off as long as their triggers come.
JobsEnd ==
  \A i \in Ids :
    i \in DOMAIN job /\ job[i].kind \notin {"extract", "analyzeIdle"} ~>
      i \in DOMAIN job /\ ~Active(i)

=============================================================================
