---------------------------- MODULE ChannelDelivery ----------------------------
(***************************************************************************)
(* Messages from channels (Slack, Telegram, ...): the rows of              *)
(* channel_inbound_events (delivery-crud.ts, delivery-status.ts), the      *)
(* dispatch that runs a message's turn and sends its reply segment by      *)
(* segment (background-dispatch.ts, channel-reply-delivery.ts) and the     *)
(* sweep that retries what failed (channel-retry-sweep.ts).                *)
(*                                                                         *)
(* Each message has a dispatch of its own; there is one sweep, which       *)
(* lists what is due and then works through its lists one by one.          *)
(*                                                                         *)
(* Abstracted: the messages are of one conversation; retry_after (none, a  *)
(* back-off that runs, due); the turn (it ends well with a reply of some   *)
(* segments, or fails); the texts, attachments and threads; the live       *)
(* replies of Slack direct messages.                                       *)
(***************************************************************************)
EXTENDS Naturals, Sequences

CONSTANTS
  Events,         \* messages the channels send
  WithCallback,   \* those whose request names a replyCallbackUrl
  MaxAttempts,    \* RETRY_MAX_ATTEMPTS
  MaxSegments,    \* bound: segments of a reply
  MaxReplays,     \* bound: replays of dead letters
  MaxCrashes,     \* bound: crashes
  Sweep, None

ASSUME ChannelDeliveryAssumption ==
  /\ WithCallback \subseteq Events
  /\ MaxAttempts \in Nat \ {0}
  /\ MaxSegments \in Nat
  /\ MaxReplays \in Nat
  /\ MaxCrashes \in Nat
  /\ Sweep \notin Events
  /\ None \notin Events

Workers == Events \cup {Sweep}

VARIABLES
  processing,     \* processing_status ("none": no row yet)
  delivery,       \* delivery_status
  attempts,       \* processing_attempts
  sends,          \* delivery_attempts
  retryAfter,     \* retry_after
  stored,         \* is raw_payload there
  count,          \* delivered_segment_count
  reply,          \* segments of the reply the row's turn made
  at,             \* where each worker is
  next,           \* segments of the reply a sending worker has behind it
  toRetry,        \* the sweep's list of turns to run again
  toResend,       \* and of replies to send on, with the counts it read
  current,        \* the event in the sweep's hands
  posted,         \* what the channel has shown: segments, and was it heard of
  answered,       \* turns of each message that ended well
  lost,           \* messages a crash left pending
  replaysLeft, crashesLeft   \* what is left of the bounds

row == <<processing, delivery, attempts, sends, retryAfter, stored, count>>
turn == <<reply, answered>>
sweep == <<toRetry, toResend, current>>
bounds == <<replaysLeft, crashesLeft>>
vars == <<row, turn, at, next, sweep, posted, lost, bounds>>

Statuses == {"pending", "processed", "failed", "dead_letter"}
\* "received": recorded, in the inbound handler; "begin": about to run the
\* turn; "awaiting": a segment has been requested of the channel.  "consumed":
\* another stage of the inbound handler took the message.
Places == {"idle", "received", "begin", "turn", "sending", "awaiting", "consumed"}

EventOf(w) == IF w = Sweep THEN current ELSE w
\* Broken: a message that failed is new again when the channel resends it.
KnownUnlessFailed(e) == processing[e] \notin {"none", "failed"}
Known(e) == processing[e] # "none"

Init ==
  /\ processing = [e \in Events |-> "none"]
  /\ delivery = [e \in Events |-> "pending"]
  /\ attempts = [e \in Events |-> 0]
  /\ sends = [e \in Events |-> 0]
  /\ retryAfter = [e \in Events |-> "none"]
  /\ stored = [e \in Events |-> FALSE]
  /\ count = [e \in Events |-> 0]
  /\ reply = [e \in Events |-> 0]
  /\ at = [w \in Workers |-> "idle"]
  /\ next = [w \in Workers |-> 0]
  /\ toRetry = {}
  /\ toResend = {}
  /\ current = None
  /\ posted = [e \in Events |-> <<>>]
  /\ answered = [e \in Events |-> 0]
  /\ lost = {}
  /\ replaysLeft = MaxReplays
  /\ crashesLeft = MaxCrashes

Goto(w, place) == at' = [at EXCEPT ![w] = place]

(***************************************************************************)
(* Marking the row.                                                        *)
(***************************************************************************)
MarkProcessed(e) == processing' = [processing EXCEPT ![e] = "processed"]

\* Fatal, or the last attempt: a dead letter.
Over(tries, fatal) == fatal \/ tries + 1 >= MaxAttempts

ProcessingFails(e, fatal) ==
  /\ attempts' = [attempts EXCEPT ![e] = @ + 1]
  /\ LET over == Over(attempts[e], fatal) IN
     /\ processing' = [processing EXCEPT ![e] =
                         IF over THEN "dead_letter" ELSE "failed"]
     /\ retryAfter' = [retryAfter EXCEPT ![e] =
                         IF over THEN "none" ELSE "backoff"]
  /\ UNCHANGED <<delivery, sends, stored, count>>

\* Broken: counts the segment whose request failed.
DeliveryFailsCounted(e, fatal) ==
  /\ sends' = [sends EXCEPT ![e] = @ + 1]
  /\ count' = [count EXCEPT ![e] = IF @ < reply[e] THEN @ + 1 ELSE @]
  /\ LET over == Over(sends[e], fatal) IN
     /\ delivery' = [delivery EXCEPT ![e] =
                       IF over THEN "dead_letter" ELSE "failed"]
     /\ retryAfter' = [retryAfter EXCEPT ![e] =
                         IF over THEN "none" ELSE "backoff"]
  /\ UNCHANGED <<processing, attempts, stored>>
DeliveryFails(e, fatal) ==
  /\ sends' = [sends EXCEPT ![e] = @ + 1]
  /\ LET over == Over(sends[e], fatal) IN
     /\ delivery' = [delivery EXCEPT ![e] =
                       IF over THEN "dead_letter" ELSE "failed"]
     /\ retryAfter' = [retryAfter EXCEPT ![e] =
                         IF over THEN "none" ELSE "backoff"]
  /\ UNCHANGED <<processing, attempts, stored, count>>

MarkDelivered(e) ==
  /\ delivery' = [delivery EXCEPT ![e] = "delivered"]
  /\ retryAfter' = [retryAfter EXCEPT ![e] = "none"]
  /\ UNCHANGED <<processing, attempts, sends, stored, count>>

(***************************************************************************)
(* A channel sends a message, perhaps again.                               *)
(***************************************************************************)
Receive(e) ==
  /\ ~Known(e)
  /\ processing' = [processing EXCEPT ![e] = "pending"]
  /\ Goto(e, "received")
  /\ UNCHANGED <<delivery, attempts, sends, retryAfter, stored, count, turn,
                 next, sweep, posted, lost, bounds>>

Duplicate(e) == Known(e) /\ UNCHANGED vars

\* Disk pressure, or a secret in the text: the payload must not stay.
Block(e) ==
  /\ at[e] = "received"
  /\ MarkProcessed(e)
  /\ stored' = [stored EXCEPT ![e] = FALSE]
  /\ Goto(e, "idle")
  /\ UNCHANGED <<delivery, attempts, sends, retryAfter, count, turn, next,
                 sweep, posted, lost, bounds>>

Consume(e) ==
  /\ at[e] = "received"
  /\ Goto(e, "consumed")
  /\ UNCHANGED <<row, turn, next, sweep, posted, lost, bounds>>

Dispatch(e) ==
  /\ at[e] = "received"
  /\ stored' = [stored EXCEPT ![e] = TRUE]
  /\ Goto(e, "begin")
  /\ UNCHANGED <<processing, delivery, attempts, sends, retryAfter, count,
                 turn, next, sweep, posted, lost, bounds>>

(***************************************************************************)
(* The turn.                                                               *)
(***************************************************************************)
Busy == \E w \in Workers : at[w] = "turn"

Begin(w) ==
  /\ at[w] = "begin"
  /\ ~Busy
  /\ Goto(w, "turn")
  /\ UNCHANGED <<row, turn, next, sweep, posted, lost, bounds>>

\* "Conversation is already processing a message", to classifyError an unknown
\* error and so a fatal one.
Rejected(w) ==
  /\ at[w] = "begin"
  /\ Busy
  /\ ProcessingFails(EventOf(w), TRUE)
  /\ Goto(w, "idle")
  /\ UNCHANGED <<turn, next, sweep, posted, lost, bounds>>

TurnFails(w, fatal) ==
  /\ at[w] = "turn"
  /\ ProcessingFails(EventOf(w), fatal)
  /\ Goto(w, "idle")
  /\ UNCHANGED <<turn, next, sweep, posted, lost, bounds>>

\* The sweep starts the count of a fresh reply again.
TurnEnds(w, n) ==
  LET e == EventOf(w) IN
  /\ at[w] = "turn"
  /\ MarkProcessed(e)
  /\ answered' = [answered EXCEPT ![e] = @ + 1]
  /\ reply' = [reply EXCEPT ![e] = n]
  /\ next' = [next EXCEPT ![w] = 0]
  /\ IF e \in WithCallback
     THEN /\ Goto(w, "sending")
          /\ count' = IF w = Sweep THEN [count EXCEPT ![e] = 0] ELSE count
     ELSE /\ Goto(w, "idle")
          /\ UNCHANGED count
  /\ UNCHANGED <<delivery, attempts, sends, retryAfter, stored, sweep,
                 posted, lost, bounds>>

(***************************************************************************)
(* The reply, segment by segment.                                          *)
(***************************************************************************)
\* The request for the next segment is out; the channel shows it, or not.
Post(w, shown) ==
  LET e == EventOf(w) IN
  /\ at[w] = "sending"
  /\ next[w] < reply[e]
  /\ posted' = IF shown
               THEN [posted EXCEPT ![e] =
                       Append(@, [segment |-> next[w] + 1, heard |-> FALSE])]
               ELSE posted
  /\ Goto(w, "awaiting")
  /\ UNCHANGED <<row, turn, next, sweep, lost, bounds>>

Shown(w) ==
  LET p == posted[EventOf(w)] IN
  /\ p # <<>>
  /\ p[Len(p)] = [segment |-> next[w] + 1, heard |-> FALSE]

\* Broken: the row's count is not brought up to date.
HeardUncounted(w) ==
  LET e == EventOf(w) IN
  /\ at[w] = "awaiting"
  /\ Shown(w)
  /\ posted' = [posted EXCEPT ![e][Len(posted[e])].heard = TRUE]
  /\ next' = [next EXCEPT ![w] = @ + 1]
  /\ Goto(w, "sending")
  /\ UNCHANGED <<row, turn, sweep, lost, bounds>>
Heard(w) ==
  LET e == EventOf(w) IN
  /\ at[w] = "awaiting"
  /\ Shown(w)
  /\ posted' = [posted EXCEPT ![e][Len(posted[e])].heard = TRUE]
  /\ next' = [next EXCEPT ![w] = @ + 1]
  /\ count' = [count EXCEPT ![e] = next[w] + 1]
  /\ Goto(w, "sending")
  /\ UNCHANGED <<processing, delivery, attempts, sends, retryAfter, stored,
                 turn, sweep, lost, bounds>>

\* Broken: an error of the channel does not reach the caller.
SendFailsUnseen(w, fatal) ==
  /\ at[w] = "awaiting"
  /\ MarkDelivered(EventOf(w))
  /\ Goto(w, "idle")
  /\ UNCHANGED <<turn, next, sweep, posted, lost, bounds>>
SendFails(w, fatal) ==
  /\ at[w] = "awaiting"
  /\ DeliveryFails(EventOf(w), fatal)
  /\ Goto(w, "idle")
  /\ UNCHANGED <<turn, next, sweep, posted, lost, bounds>>

AllSent(w) ==
  /\ at[w] = "sending"
  /\ next[w] >= reply[EventOf(w)]
  /\ MarkDelivered(EventOf(w))
  /\ Goto(w, "idle")
  /\ UNCHANGED <<turn, next, sweep, posted, lost, bounds>>

(***************************************************************************)
(* The sweep.                                                              *)
(***************************************************************************)
Elapse(e) ==
  /\ retryAfter[e] = "backoff"
  /\ retryAfter' = [retryAfter EXCEPT ![e] = "due"]
  /\ UNCHANGED <<processing, delivery, attempts, sends, stored, count, turn,
                 at, next, sweep, posted, lost, bounds>>

Retryable == {e \in Events : processing[e] = "failed" /\ retryAfter[e] = "due"}
RetryableDeliveries ==
  {e \in Events : processing[e] = "processed" /\ delivery[e] = "failed"
                    /\ retryAfter[e] = "due"}

\* The lists are read once; sweepInProgress keeps the next sweep out.
SweepStarts ==
  /\ at[Sweep] = "idle" /\ toRetry = {} /\ toResend = {}
  /\ Retryable \cup RetryableDeliveries # {}
  /\ toRetry' = Retryable
  /\ toResend' = {[event |-> e, from |-> count[e]] : e \in RetryableDeliveries}
  /\ current' = None
  /\ UNCHANGED <<row, turn, at, next, posted, lost, bounds>>

\* A row without its payload would be given up here: there is none (Replayable).
Take(e) ==
  /\ at[Sweep] = "idle"
  /\ e \in toRetry
  /\ toRetry' = toRetry \ {e}
  /\ UNCHANGED <<toResend, turn, posted, lost, bounds>>

SweepRetries(e) ==
  /\ Take(e)
  /\ current' = e
  /\ Goto(Sweep, "begin")
  /\ UNCHANGED <<row, next>>

\* Disk pressure.
SweepBlocks(e) ==
  /\ Take(e)
  /\ stored' = [stored EXCEPT ![e] = FALSE]
  /\ MarkProcessed(e)
  /\ UNCHANGED <<delivery, attempts, sends, retryAfter, count, at, next, current>>

SweepResends(r) ==
  /\ at[Sweep] = "idle" /\ toRetry = {}
  /\ r \in toResend
  /\ toResend' = toResend \ {r}
  /\ current' = r.event
  /\ next' = [next EXCEPT ![Sweep] = r.from]
  /\ Goto(Sweep, "sending")
  /\ UNCHANGED <<row, turn, toRetry, posted, lost, bounds>>

(***************************************************************************)
(* Acknowledgements, replays, crashes.                                     *)
(***************************************************************************)
\* The channel acknowledges a reply it has shown to the end.
Acknowledge(e) ==
  /\ \E i \in DOMAIN posted[e] : posted[e][i].segment = reply[e]
  /\ MarkDelivered(e)
  /\ UNCHANGED <<turn, at, next, sweep, posted, lost, bounds>>

\* Broken: a replayed row has no time to be retried at.
ReplayUntimed(e) ==
  /\ replaysLeft > 0
  /\ replaysLeft' = replaysLeft - 1
  /\ processing[e] = "dead_letter"
  /\ processing' = [processing EXCEPT ![e] = "failed"]
  /\ attempts' = [attempts EXCEPT ![e] = 0]
  /\ UNCHANGED <<delivery, sends, retryAfter, stored, count, turn, at, next,
                 sweep, posted, lost, crashesLeft>>
Replay(e) ==
  /\ replaysLeft > 0
  /\ replaysLeft' = replaysLeft - 1
  /\ retryAfter' = [retryAfter EXCEPT ![e] = "due"]
  /\ \/ /\ processing[e] = "dead_letter"
        /\ processing' = [processing EXCEPT ![e] = "failed"]
        /\ attempts' = [attempts EXCEPT ![e] = 0]
        /\ UNCHANGED <<delivery, sends>>
     \/ /\ processing[e] = "processed" /\ delivery[e] = "dead_letter"
        /\ delivery' = [delivery EXCEPT ![e] = "failed"]
        /\ sends' = [sends EXCEPT ![e] = 0]
        /\ UNCHANGED <<processing, attempts>>
  /\ UNCHANGED <<stored, count, turn, at, next, sweep, posted, lost, crashesLeft>>

\* Nothing goes through the rows at start-up: what was pending stays pending.
Crash ==
  /\ crashesLeft > 0
  /\ crashesLeft' = crashesLeft - 1
  /\ lost' = lost \cup {EventOf(w) : w \in
       {v \in Workers : /\ at[v] \notin {"idle", "consumed"}
                        /\ \/ processing[EventOf(v)] = "pending"
                           \/ /\ processing[EventOf(v)] = "processed"
                              /\ delivery[EventOf(v)] = "pending"}}
  /\ at' = [w \in Workers |-> IF at[w] = "consumed" THEN "consumed" ELSE "idle"]
  /\ next' = [w \in Workers |-> 0]
  /\ toRetry' = {} /\ toResend' = {} /\ current' = None
  /\ UNCHANGED <<row, turn, posted, replaysLeft>>

Next ==
  \/ \E e \in Events :
       \/ Receive(e) \/ Duplicate(e) \/ Block(e) \/ Consume(e) \/ Dispatch(e)
       \/ Elapse(e) \/ SweepRetries(e) \/ SweepBlocks(e)
       \/ Acknowledge(e) \/ Replay(e)
  \/ \E w \in Workers :
       \/ Begin(w) \/ Rejected(w) \/ Heard(w) \/ AllSent(w)
       \/ \E fatal \in BOOLEAN : TurnFails(w, fatal) \/ SendFails(w, fatal)
       \/ \E n \in 0..MaxSegments : TurnEnds(w, n)
       \/ \E shown \in BOOLEAN : Post(w, shown)
  \/ \E r \in toResend : SweepResends(r)
  \/ SweepStarts \/ Crash

Spec == Init /\ [][Next]_vars

Handled(e) == Block(e) \/ Consume(e) \/ Dispatch(e)
Turn(w) ==
  \/ Begin(w) \/ Rejected(w)
  \/ \E n \in 0..MaxSegments : TurnEnds(w, n)
  \/ \E fatal \in BOOLEAN : TurnFails(w, fatal)
Sending(w) ==
  \/ Heard(w) \/ AllSent(w)
  \/ \E shown \in BOOLEAN : Post(w, shown)
  \/ \E fatal \in BOOLEAN : SendFails(w, fatal)
Sweeping ==
  \/ SweepStarts
  \/ \E e \in Events : SweepRetries(e) \/ SweepBlocks(e)
  \/ \E r \in toResend : SweepResends(r)

\* Handlers go on, turns end, requests time out, back-offs run, the sweep's
\* timer fires.
Fairness ==
  /\ \A e \in Events : WF_vars(Handled(e)) /\ WF_vars(Elapse(e))
  /\ \A w \in Workers : WF_vars(Turn(w)) /\ WF_vars(Sending(w))
  /\ WF_vars(Sweeping)

FairSpec == Spec /\ Fairness

(***************************************************************************)
(* Properties.                                                             *)
(***************************************************************************)
\* The rows, the workers and the sweep's lists are well formed; in particular
\* no counter passes RETRY_MAX_ATTEMPTS (recordProcessingFailure,
\* recordDeliveryFailure) and no worker is past its reply.
TypeOK ==
  /\ processing \in [Events -> Statuses \cup {"none"}]
  /\ delivery \in [Events -> {"pending", "delivered", "failed", "dead_letter"}]
  /\ attempts \in [Events -> 0..MaxAttempts]
  /\ sends \in [Events -> 0..MaxAttempts]
  /\ retryAfter \in [Events -> {"none", "backoff", "due"}]
  /\ stored \in [Events -> BOOLEAN]
  /\ count \in [Events -> 0..MaxSegments]
  /\ reply \in [Events -> 0..MaxSegments]
  /\ at \in [Workers -> Places]
  /\ next \in [Workers -> 0..MaxSegments]
  /\ toRetry \subseteq Events
  /\ toResend \subseteq [event : Events, from : 0..MaxSegments]
  /\ current \in Events \cup {None}
  /\ posted \in [Events -> Seq([segment : 1..MaxSegments, heard : BOOLEAN])]
  /\ answered \in [Events -> Nat]
  /\ lost \subseteq Events
  /\ replaysLeft \in 0..MaxReplays
  /\ crashesLeft \in 0..MaxCrashes

\* However often a channel sends a message, and however often it is retried,
\* replayed or cut off by a crash: no second turn once one ended well.
OneAnswer == \A e \in Events : answered[e] <= 1

\* The sweep never works on a message its dispatch still has in hand, although
\* it goes by a list it read some turns ago (sweepFailedEvents).
OneWorker ==
  at[Sweep] # "idle" => at[current] = "idle"

\* The channel shows a reply's segments in order and without gaps, through
\* failures, resumed deliveries and crashes (startFromSegment).
InOrder ==
  \A e \in Events : \A k \in DOMAIN posted[e] :
    posted[e][k].segment > 1 =>
      \E j \in 1..(k - 1) : posted[e][j].segment = posted[e][k].segment - 1

\* A segment is shown twice only when the assistant did not hear of it the
\* first time (updateDeliveredSegmentCount): never one it has counted.
NotShownAgain ==
  \A e \in Events : \A j, k \in DOMAIN posted[e] :
    j < k /\ posted[e][j].heard => posted[e][j].segment # posted[e][k].segment

\* A reply marked delivered has been shown to its last segment.
DeliveredIsShown ==
  \A e \in Events : delivery[e] = "delivered" =>
    \A s \in 1..reply[e] :
      \E k \in DOMAIN posted[e] : posted[e][k].segment = s

\* What waits for a retry or a replay has its payload, without which the sweep
\* gives it up (storePayload: "so dead-lettered events can always be replayed").
Replayable ==
  \A e \in Events :
    \/ processing[e] \in {"failed", "dead_letter"}
    \/ processing[e] = "processed" /\ delivery[e] \in {"failed", "dead_letter"}
    => stored[e]

Owed(e) == e \in WithCallback /\ answered[e] > 0
Ended(e) ==
  \/ at[e] = "consumed"
  \/ processing[e] = "dead_letter"
  \/ processing[e] = "processed" /\ ~Owed(e)
  \/ processing[e] = "processed" /\ delivery[e] \in {"delivered", "dead_letter"}

\* A recorded message comes to its end: taken, blocked, answered and delivered,
\* or a dead letter; also after a replay.  The exception is a crash while its
\* dispatch has not run the turn, or while its reply is sent for the first time:
\* a crash in the retry of a turn or of a delivery loses nothing.
EventsEnd == \A e \in Events : Known(e) ~> (Ended(e) \/ e \in lost)
=============================================================================
