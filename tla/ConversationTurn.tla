-------------------------- MODULE ConversationTurn --------------------------
(***************************************************************************)
(* The turn machinery of one daemon conversation: the processing flag and  *)
(* abort controller of a turn, the backlog of messages that arrive while a *)
(* turn runs, and the drain that turns the backlog into later turns        *)
(* (assistant/src/daemon/conversation-process.ts, conversation-messaging   *)
(* .ts, conversation-queue-manager.ts, conversation-lifecycle.ts, the      *)
(* handlers of handlers/conversations.ts and POST /messages).              *)
(*                                                                         *)
(* Everything runs on one JavaScript thread, so the unit of interleaving   *)
(* is the code between two awaits.  POST of message t starts a chain of    *)
(* continuations: its handler, the turn it starts, the drain that follows  *)
(* the turn, the turn that drain starts, and so on, one after the other.   *)
(* The chain is named after t; a message that finds the conversation busy  *)
(* is queued and its own chain never starts.                               *)
(***************************************************************************)
EXTENDS Integers, Sequences, SequencesExt

CONSTANTS
    N,             \* messages a run may post; message i is the i-th to arrive
    Shapes,        \* what a message may be: [kind, sender, bytes]
    MaxBytes,      \* byte budget of the queue
    SlashIO,       \* kinds whose resolveSlash waits for I/O
    PostOutcomes,  \* how a write of the POST path may end: "ok", "dup", "err"
    DrainOutcomes, \* the same for the writes of the drain path
    Controls       \* controls the user may use: "cancel", "steer", "delete"

Msgs == 1 .. N
None == 0

(* text: ordinary text.  solo: text the drain never batches (verification  *)
(* intent or surface action).  info: a slash command answered with a canned *)
(* text (/model, /models, /status, ...).  compact: /compact and /clean.     *)
Kinds    == {"text", "solo", "info", "compact"}
Outcomes == {"ok", "dup", "err"}

ASSUME NAssumption        == N \in Nat
ASSUME ShapesAssumption   == /\ \A s \in Shapes : s.kind \in Kinds
                             /\ \A s \in Shapes : s.bytes \in Nat
ASSUME MaxBytesAssumption == MaxBytes \in Nat
ASSUME SwitchAssumption   == /\ SlashIO \subseteq Kinds
                             /\ PostOutcomes \subseteq Outcomes
                             /\ DrainOutcomes \subseteq Outcomes

VARIABLES
    shape,             \* what each message is; chosen once, at the start
    posted,            \* number of messages that have arrived
    status,            \* what the client of each message has been told
    queue, queueBytes, \* MessageQueue.items and MessageQueue.currentBytes
    processing,        \* Conversation._processing
    controller,        \* the turn (its first message) whose AbortController
                       \* is Conversation.abortController
    aborted,           \* turns whose controller has been aborted
    currentRequestId,
    steerRepair,       \* Conversation.pendingSteerRepair
    promoted,          \* messages that were steered to
    history,           \* user messages in Conversation.messages
    rows,              \* messages whose user row is in the database
    pc, mode,          \* of each chain: where it waits, and on whose behalf
    work,              \* messages the chain has taken and not yet persisted
    done,              \* messages of the chain's current turn
    ctl, reqId         \* controller and request id runAgentLoop captured

flags   == <<processing, controller, currentRequestId>>
backlog == <<queue, queueBytes, steerRepair, promoted>>
chains  == <<pc, mode, work, done, ctl, reqId>>
vars    == <<shape, posted, status, backlog, flags, aborted, history, rows,
             chains>>

(* "open" is the state of a message that was accepted and whose client has *)
(* no final answer yet; the ones below it are final.                       *)
Settled  == {"replied", "cancelled", "failed", "busy", "duplicate",
             "rejected", "deleted"}
Statuses == {"new", "open"} \cup Settled

PCs == {"none",        \* no continuation pending
        "resolve",     \* in resolveSlash / ensureActorScopedHistory
        "persist",     \* persistUserMessage is writing the row of the head
        "tailResolve", "tailPersist",   \* the same for a batch tail
        "loop",        \* runAgentLoop
        "commit",      \* its finally block, waiting for the turn commit
        "slashPersist", "slashRun",     \* slash command of the POST path
        "exchange", "exchangeReply",    \* slash command of the drain path
        "drain",       \* about to run the synchronous part of drainQueue
        "shift"}       \* buildPassthroughBatch returned []
Modes == {"post", "single", "batch"}

Kind(m)    == shape[m].kind
IsSlash(m) == Kind(m) \in {"info", "compact"}
Cur(t)     == Head(work[t])

-----------------------------------------------------------------------------
(* A continuation of settled promises is a microtask: it runs before any   *)
(* request, timer or I/O completion.  "drain" is not even that: drainQueue *)
(* is called synchronously.                                                *)
SoonIfSynchronous(t) == pc[t] \in {"drain", "shift"}

Soon(t) == \/ pc[t] \in {"drain", "shift"}
           \/ /\ pc[t] \in {"resolve", "tailResolve"}
              /\ Kind(Cur(t)) \notin SlashIO

Quiet == \A u \in Msgs : ~Soon(u)

MayRun(t) == /\ (\E u \in Msgs : pc[u] = "drain") => pc[t] = "drain"
             /\ ~Quiet => Soon(t)
-----------------------------------------------------------------------------
(* Helpers: each fixes the primed values of the variables it names.        *)

Goto(t, p) == pc' = [pc EXCEPT ![t] = p]

Telling(st, S, s) == [m \in Msgs |-> IF m \in S THEN s ELSE st[m]]
Settle(S, s)      == status' = Telling(status, S, s)

ClearTurnKeepsFlag == /\ processing' = processing
                      /\ controller' = None
                      /\ currentRequestId' = None

ClearTurn == /\ processing' = FALSE
             /\ controller' = None
             /\ currentRequestId' = None

PopNothing == history' = history
PopHistory == history' = SubSeq(history, 1, Len(history) - 1)

(* MessageQueue: what leaves the queue gives its bytes back.               *)
EnqueueFirst(q, m) == <<m>> \o q
Enqueue(q, m)      == Append(q, m)

RemoveFromKeeps(q, i) == q
RemoveFrom(q, i)      == SubSeq(q, 1, i - 1) \o SubSeq(q, i + 1, Len(q))

BytesOf(q) ==
    LET sum[n \in 0 .. Len(q)] == IF n = 0 THEN 0 ELSE sum[n - 1] + shape[q[n]].bytes
    IN  sum[Len(q)]

NoRefund(gone)     == queueBytes' = queueBytes
RefundBytes(gone) == queueBytes' = queueBytes - BytesOf(gone)

(* The first n of q can share one turn: plain text of one sender (same     *)
(* interface and same principal).                                          *)
Batchable(q, n) == \A i \in 1 .. n : /\ Kind(q[i]) = "text"
                                     /\ shape[q[i]].sender = shape[q[1]].sender

LongestBatch(q, n) == /\ Batchable(q, n)
                      /\ n < Len(q) => ~Batchable(q, n + 1)

OutcomesOf(t) == IF mode[t] = "post" THEN PostOutcomes ELSE DrainOutcomes

(* The head of the chain's work is finished without a turn.  A POST chain  *)
(* ends there; a drain goes on with the rest of its batch, or drains again. *)
RestIsLost(t) == <<>>
Rest(t)       == Tail(work[t])

ResumeWithoutDrain(t) == IF Rest(t) = <<>> THEN "none" ELSE "resolve"
Resume(t) == CASE mode[t] = "post"                       -> "none"
               [] mode[t] # "post" /\ Rest(t) = <<>>     -> "drain"
               [] mode[t] # "post" /\ Rest(t) # <<>>     -> "resolve"

MoveOn(t) ==
    /\ work' = [work EXCEPT ![t] = Rest(t)]
    /\ mode' = [mode EXCEPT ![t] = IF Len(Rest(t)) > 1 THEN "batch" ELSE "single"]
    /\ Goto(t, Resume(t))
    /\ UNCHANGED <<done, ctl, reqId>>

(* The request id of a turn: of a batch, its last message with a row.      *)
TurnRequest(t, members) == IF mode[t] = "batch" THEN Last(members)
                                                ELSE currentRequestId

(* runAgentLoop up to its first await.  It throws, before its try block,   *)
(* when there is no controller: the chain is over, and only a drain tells  *)
(* the clients of the turn.  told is what the clients have been told by    *)
(* then.                                                                   *)
RunAgentLoop(t, members, told) ==
    LET req == TurnRequest(t, members) IN
    /\ work' = [work EXCEPT ![t] = <<>>]
    /\ currentRequestId' = req
    /\ \/ /\ controller # None
          /\ Goto(t, "loop")
          /\ done' = [done EXCEPT ![t] = members]
          /\ ctl' = [ctl EXCEPT ![t] = controller]
          /\ reqId' = [reqId EXCEPT ![t] = req]
          /\ status' = told
       \/ /\ controller = None
          /\ Goto(t, "none")
          /\ done' = [done EXCEPT ![t] = <<>>]
          /\ status' = IF mode[t] = "post"
                       THEN told ELSE Telling(told, ToSet(members), "failed")
          /\ UNCHANGED <<ctl, reqId>>
    /\ UNCHANGED <<mode, processing, controller>>

(* drainBatch goes to its next message, or to the turn.                    *)
NextInBatch(t, members, stop, told) ==
    \/ /\ Rest(t) # <<>> /\ ~stop
       /\ work' = [work EXCEPT ![t] = Rest(t)]
       /\ done' = [done EXCEPT ![t] = members]
       /\ Goto(t, "tailResolve")
       /\ status' = told
       /\ UNCHANGED <<mode, ctl, reqId, flags>>
    \/ /\ Rest(t) = <<>> \/ stop
       /\ RunAgentLoop(t, members, told)
-----------------------------------------------------------------------------
Init ==
    /\ shape \in [Msgs -> Shapes]
    /\ posted = 0
    /\ status = [m \in Msgs |-> "new"]
    /\ queue = <<>> /\ queueBytes = 0
    /\ processing = FALSE /\ controller = None /\ currentRequestId = None
    /\ aborted = {} /\ steerRepair = FALSE /\ promoted = {}
    /\ history = <<>> /\ rows = {}
    /\ pc = [t \in Msgs |-> "none"]
    /\ mode = [t \in Msgs |-> "post"]
    /\ work = [t \in Msgs |-> <<>>]
    /\ done = [t \in Msgs |-> <<>>]
    /\ ctl = [t \in Msgs |-> None]
    /\ reqId = [t \in Msgs |-> None]

(* POST /messages up to its first await: a busy conversation queues the    *)
(* message or rejects it; an idle one starts a chain.                      *)
PostQueued(m) ==
    /\ processing
    /\ queue = <<>> \/ queueBytes + shape[m].bytes <= MaxBytes
    /\ queue' = Enqueue(queue, m)
    /\ queueBytes' = queueBytes + shape[m].bytes
    /\ Settle({m}, "open")
    /\ UNCHANGED <<steerRepair, promoted, chains>>

PostRejected(m) ==
    /\ processing
    /\ queue # <<>> /\ queueBytes + shape[m].bytes > MaxBytes
    /\ Settle({m}, "rejected")
    /\ UNCHANGED <<backlog, chains>>

PostIdle(m) ==
    /\ ~processing
    /\ Settle({m}, "open")
    /\ Goto(m, "resolve")
    /\ mode' = [mode EXCEPT ![m] = "post"]
    /\ work' = [work EXCEPT ![m] = <<m>>]
    /\ UNCHANGED <<backlog, done, ctl, reqId>>

Post == LET m == posted + 1 IN
    /\ Quiet
    /\ posted < N
    /\ posted' = m
    /\ PostQueued(m) \/ PostRejected(m) \/ PostIdle(m)
    /\ UNCHANGED <<shape, flags, aborted, history, rows>>

MayOpen == ~processing

(* persistUserMessage up to its write: it refuses while a turn runs, else  *)
(* it opens the turn.                                                      *)
RefuseHead(t) ==
    /\ ~MayOpen
    /\ Settle({Cur(t)}, "busy")
    /\ MoveOn(t)
    /\ UNCHANGED <<flags, history>>

OpenTurn(t) ==
    /\ MayOpen
    /\ processing' = TRUE
    /\ controller' = Cur(t)
    /\ currentRequestId' = Cur(t)
    /\ history' = Append(history, Cur(t))
    /\ Goto(t, "persist")
    /\ UNCHANGED <<status, mode, work, done, ctl, reqId>>

(* The chain knows what kind of message it holds.                          *)
ResolveText(t) ==
    /\ pc[t] = "resolve" /\ MayRun(t)
    /\ ~IsSlash(Cur(t))
    /\ RefuseHead(t) \/ OpenTurn(t)
    /\ UNCHANGED <<shape, posted, backlog, aborted, rows>>

LeaveFlag == processing' = processing
RaiseFlag == processing' = TRUE

(* A slash command of the POST path sets the flag, whatever it was, and    *)
(* opens no controller.                                                    *)
ResolvePostSlash(t) ==
    /\ pc[t] = "resolve" /\ MayRun(t)
    /\ IsSlash(Cur(t)) /\ mode[t] = "post"
    /\ RaiseFlag
    /\ history' = Append(history, Cur(t))
    /\ Goto(t, "slashPersist")
    /\ UNCHANGED <<shape, posted, status, backlog, controller, currentRequestId,
                   aborted, rows, mode, work, done, ctl, reqId>>

(* A slash command of the drain path does not touch the flag.              *)
ResolveQueuedSlash(t) ==
    /\ pc[t] = "resolve" /\ MayRun(t)
    /\ IsSlash(Cur(t)) /\ mode[t] = "single"
    /\ Goto(t, "exchange")
    /\ UNCHANGED <<shape, posted, status, backlog, flags, aborted, history,
                   rows, mode, work, done, ctl, reqId>>

(* persistUserMessage after its write.                                     *)
PersistOk(t) ==
    /\ pc[t] = "persist" /\ MayRun(t)
    /\ "ok" \in OutcomesOf(t)
    /\ rows' = rows \cup {Cur(t)}
    /\ NextInBatch(t, <<Cur(t)>>, controller \in aborted, status)
    /\ UNCHANGED <<shape, posted, backlog, aborted, history>>

PersistFails(t, outcome) ==
    /\ pc[t] = "persist" /\ MayRun(t)
    /\ outcome \in OutcomesOf(t) \ {"ok"}
    /\ PopHistory
    /\ ClearTurn
    /\ Settle({Cur(t)}, IF outcome = "dup" THEN "duplicate" ELSE "failed")
    /\ MoveOn(t)
    /\ UNCHANGED <<shape, posted, backlog, aborted, rows>>

(* The tails of a batch: persistQueuedMessageBody, in the turn of the head. *)
ResolveTail(t) ==
    /\ pc[t] = "tailResolve" /\ MayRun(t)
    /\ history' = Append(history, Cur(t))
    /\ Goto(t, "tailPersist")
    /\ UNCHANGED <<shape, posted, status, backlog, flags, aborted, rows,
                   mode, work, done, ctl, reqId>>

TailOk(t) ==
    /\ pc[t] = "tailPersist" /\ MayRun(t)
    /\ "ok" \in DrainOutcomes
    /\ rows' = rows \cup {Cur(t)}
    /\ NextInBatch(t, Append(done[t], Cur(t)), controller \in aborted, status)
    /\ UNCHANGED <<shape, posted, backlog, aborted, history>>

(* A tail that is not written is skipped, and the abort check with it.     *)
TailFails(t, outcome) ==
    /\ pc[t] = "tailPersist" /\ MayRun(t)
    /\ outcome \in DrainOutcomes \ {"ok"}
    /\ PopHistory
    /\ NextInBatch(t, done[t], FALSE,
                   Telling(status, {Cur(t)},
                           IF outcome = "dup" THEN "duplicate" ELSE "failed"))
    /\ UNCHANGED <<shape, posted, backlog, aborted, rows>>

(* The agent loop ends: an aborted turn is cancelled, another one replies  *)
(* (message_complete, or generation_handoff at a checkpoint), and either   *)
(* may fail.  The clients of the whole turn get the same answer.           *)
LoopEnds(t, answer) ==
    /\ pc[t] = "loop" /\ MayRun(t)
    /\ answer = "cancelled" => ctl[t] \in aborted
    /\ answer = "replied" => ctl[t] \notin aborted
    /\ Settle(ToSet(done[t]), answer)
    /\ Goto(t, "commit")
    /\ UNCHANGED <<shape, posted, backlog, flags, aborted, history, rows,
                   mode, work, done, ctl, reqId>>

(* Its finally block after the turn commit.                                *)
TurnFinally(t) ==
    /\ pc[t] = "commit" /\ MayRun(t)
    /\ ClearTurn
    /\ Goto(t, "drain")
    /\ done' = [done EXCEPT ![t] = <<>>]
    /\ ctl' = [ctl EXCEPT ![t] = None]
    /\ reqId' = [reqId EXCEPT ![t] = None]
    /\ UNCHANGED <<shape, posted, status, backlog, aborted, history, rows,
                   mode, work>>

(* drainQueue.  Hand(t, n): the chain takes the first n queued messages.   *)
Hand(t, n) ==
    /\ work' = [work EXCEPT ![t] = SubSeq(queue, 1, n)]
    /\ mode' = [mode EXCEPT ![t] = IF n > 1 THEN "batch" ELSE "single"]
    /\ queue' = SubSeq(queue, n + 1, Len(queue))
    /\ RefundBytes(SubSeq(queue, 1, n))
    /\ Goto(t, "resolve")

DrainNothing(t) ==
    /\ queue = <<>>
    /\ Goto(t, "none")
    /\ UNCHANGED <<queue, queueBytes, mode, work>>

(* After a steer the head is drained alone; otherwise a batch, or nothing  *)
(* yet when the head is not plain text.                                    *)
DrainQueue(t) ==
    /\ pc[t] = "drain" /\ MayRun(t)
    /\ steerRepair' = FALSE
    /\ \/ DrainNothing(t)
       \/ queue # <<>> /\ steerRepair /\ Hand(t, 1)
       \/ /\ queue # <<>> /\ ~steerRepair
          /\ \E n \in 0 .. Len(queue) :
                /\ LongestBatch(queue, n)
                /\ \/ n > 0 /\ Hand(t, n)
                   \/ /\ n = 0
                      /\ Goto(t, "shift")
                      /\ UNCHANGED <<queue, queueBytes, mode, work>>
    /\ UNCHANGED <<shape, posted, status, flags, aborted, promoted, history,
                   rows, done, ctl, reqId>>

DrainShift(t) ==
    /\ pc[t] = "shift" /\ MayRun(t)
    /\ DrainNothing(t) \/ (queue # <<>> /\ Hand(t, 1))
    /\ UNCHANGED <<shape, posted, status, steerRepair, promoted, flags,
                   aborted, history, rows, done, ctl, reqId>>

(* A slash command taken from the queue: its user message is written, then *)
(* (after a compaction, for /compact) the answer; then the queue again.    *)
ExchangeWritten(t) ==
    /\ pc[t] = "exchange" /\ MayRun(t)
    /\ "ok" \in DrainOutcomes
    /\ rows' = rows \cup {Cur(t)}
    /\ history' = Append(history, Cur(t))
    /\ Goto(t, "exchangeReply")
    /\ UNCHANGED <<shape, posted, status, backlog, flags, aborted, mode, work,
                   done, ctl, reqId>>

ExchangeEnds(t, answer) ==
    /\ \/ pc[t] = "exchangeReply" /\ answer = "replied"
       \/ /\ pc[t] \in {"exchange", "exchangeReply"}
          /\ "err" \in DrainOutcomes /\ answer = "failed"
    /\ MayRun(t)
    /\ Settle({Cur(t)}, answer)
    /\ Goto(t, "drain")
    /\ work' = [work EXCEPT ![t] = <<>>]
    /\ UNCHANGED <<shape, posted, backlog, flags, aborted, history, rows,
                   mode, done, ctl, reqId>>

(* A slash command of the POST path.                                       *)
SlashWritten(t) ==
    /\ pc[t] = "slashPersist" /\ MayRun(t)
    /\ "ok" \in PostOutcomes
    /\ rows' = rows \cup {Cur(t)}
    /\ Goto(t, "slashRun")
    /\ UNCHANGED <<shape, posted, status, backlog, flags, aborted, history,
                   mode, work, done, ctl, reqId>>

(* Every exit clears the flag and drains; the error exits of an info       *)
(* command do so only if the flag is still set.                            *)
LeaveSlash(t, answer) ==
    /\ Settle({Cur(t)}, answer)
    /\ work' = [work EXCEPT ![t] = <<>>]
    /\ processing' = FALSE
    /\ Goto(t, IF Kind(Cur(t)) = "info" /\ answer # "replied" /\ ~processing
               THEN "none" ELSE "drain")
    /\ UNCHANGED <<shape, posted, backlog, controller, currentRequestId,
                   aborted, rows, mode, done, ctl, reqId>>

SlashFails(t, outcome) ==
    /\ pc[t] = "slashPersist" /\ MayRun(t)
    /\ outcome \in PostOutcomes \ {"ok"}
    /\ PopHistory
    /\ LeaveSlash(t, IF outcome = "dup" THEN "duplicate" ELSE "failed")

SlashReplies(t, answer) ==
    /\ pc[t] = "slashRun" /\ MayRun(t)
    /\ answer = "failed" => "err" \in PostOutcomes
    /\ LeaveSlash(t, answer)
    /\ UNCHANGED history
-----------------------------------------------------------------------------
(* The user's controls.                                                    *)

AbortTurn == aborted' = IF controller = None THEN aborted
                                             ELSE aborted \cup {controller}

(* cancelGeneration: abortConversation does nothing on an idle one.        *)
Cancel ==
    /\ "cancel" \in Controls /\ Quiet
    /\ processing
    /\ AbortTurn
    /\ Settle(ToSet(queue), "cancelled")
    /\ queue' = <<>> /\ queueBytes' = 0
    /\ UNCHANGED <<shape, posted, flags, steerRepair, promoted, history, rows,
                   chains>>

(* steerToMessage the i-th queued message.                                 *)
Steer == \E i \in 1 .. Len(queue) :
    /\ "steer" \in Controls /\ Quiet
    /\ processing
    /\ queue' = <<queue[i]>> \o RemoveFrom(queue, i)
    /\ promoted' = promoted \cup {queue[i]}
    /\ steerRepair' = TRUE
    /\ AbortTurn
    /\ UNCHANGED <<shape, posted, status, queueBytes, flags, history, rows,
                   chains>>

(* deleteQueuedMessage.                                                    *)
Delete == \E i \in 1 .. Len(queue) :
    /\ "delete" \in Controls /\ Quiet
    /\ queue' = RemoveFrom(queue, i)
    /\ RefundBytes(<<queue[i]>>)
    /\ Settle({queue[i]}, "deleted")
    /\ UNCHANGED <<shape, posted, steerRepair, promoted, flags, aborted,
                   history, rows, chains>>

-----------------------------------------------------------------------------
PostStep(t) == \/ ResolvePostSlash(t)
               \/ SlashWritten(t)
               \/ \E o \in Outcomes : SlashFails(t, o)
               \/ \E a \in {"replied", "failed"} : SlashReplies(t, a)

HeadStep(t) == \/ ResolveText(t)
               \/ PersistOk(t)
               \/ \E o \in Outcomes : PersistFails(t, o)

TailStep(t) == \/ ResolveTail(t)
               \/ TailOk(t)
               \/ \E o \in Outcomes : TailFails(t, o)

TurnStep(t) == \/ \E a \in {"replied", "cancelled", "failed"} : LoopEnds(t, a)
               \/ TurnFinally(t)

DrainStep(t) == \/ DrainQueue(t)
                \/ DrainShift(t)
                \/ ResolveQueuedSlash(t)
                \/ ExchangeWritten(t)
                \/ \E a \in {"replied", "failed"} : ExchangeEnds(t, a)

ChainStep(t) == PostStep(t) \/ HeadStep(t) \/ TailStep(t) \/ TurnStep(t)
                            \/ DrainStep(t)

Next == \/ Post \/ Cancel \/ Steer \/ Delete
        \/ \E t \in Msgs : ChainStep(t)

Spec == Init /\ [][Next]_vars

(* Promises settle: every continuation of the daemon eventually runs.  The *)
(* clients owe nothing.                                                    *)
FairSpec == Spec /\ \A t \in Msgs : WF_vars(ChainStep(t))

-----------------------------------------------------------------------------
MessagesOK ==
    /\ shape \in [Msgs -> Shapes]
    /\ posted \in 0 .. N
    /\ status \in [Msgs -> Statuses]
    /\ aborted \subseteq Msgs
    /\ promoted \subseteq Msgs
    /\ rows \subseteq Msgs

SequencesOK == queue \in Seq(Msgs) /\ history \in Seq(Msgs)

FlagsOK ==
    /\ processing \in BOOLEAN
    /\ steerRepair \in BOOLEAN
    /\ controller \in Msgs \cup {None}
    /\ currentRequestId \in Msgs \cup {None}

ChainsOK ==
    /\ pc \in [Msgs -> PCs]
    /\ mode \in [Msgs -> Modes]
    /\ work \in [Msgs -> Seq(Msgs)]
    /\ done \in [Msgs -> Seq(Msgs)]
    /\ ctl \in [Msgs -> Msgs \cup {None}]
    /\ reqId \in [Msgs -> Msgs \cup {None}]

(* Every variable but queueBytes, which BytesAccounted pins down.  In      *)
(* particular the controller, the request id and the aborted turns are     *)
(* always those of a message, never of "no turn".                          *)
TypeOK == MessagesOK /\ SequencesOK /\ FlagsOK /\ ChainsOK

(* Chains that run a turn, or a slash command that holds the flag.         *)
HoldsTurn(t)  == pc[t] \in {"persist", "tailResolve", "tailPersist", "loop",
                            "commit"}
HoldsSlash(t) == pc[t] \in {"slashPersist", "slashRun"}
HoldsFlag(t)  == HoldsTurn(t) \/ HoldsSlash(t)

(* A chain that names a current message has one, and a batch tail has its  *)
(* head before it.                                                         *)
WithWork  == PCs \ {"none", "loop", "commit", "drain", "shift"}
HandsFull == \A t \in Msgs :
    /\ pc[t] \in WithWork => work[t] # <<>>
    /\ pc[t] \in {"tailResolve", "tailPersist"} => done[t] # <<>>

(* A flag without a controller is that of a slash command.                 *)
SlashBacksFlag == processing /\ controller = None => \E t \in Msgs : HoldsSlash(t)

(* The conversation is never left in queued mode with nobody to end it:    *)
(* while the flag is set, some continuation that will clear it is pending. *)
FlagHasHolder == processing => \E t \in Msgs : HoldsFlag(t)

(* A message is in one place at a time: it is queued once, or in the hands *)
(* of one chain once, and nowhere else.                                    *)
Hands(t)  == work[t] \o done[t]
OnePlace ==
    /\ IsInjective(queue)
    /\ \A t \in Msgs :
          /\ IsInjective(Hands(t))
          /\ ToSet(Hands(t)) \cap ToSet(queue) = {}
          /\ \A u \in Msgs \ {t} : ToSet(Hands(t)) \cap ToSet(Hands(u)) = {}

(* currentBytes is the cost of what is queued, over any order of shift,    *)
(* shiftN, removal, promotion and clear.                                   *)
BytesAccounted == queueBytes = BytesOf(queue)

(* The queue is exact: what is in it is nowhere else, and is what its      *)
(* budget is charged for.                                                  *)
QueueAccounted == OnePlace /\ BytesAccounted

(* A client is told one outcome of its message, once.                      *)
SettledOnce == [][\A m \in Msgs : status[m] \in Settled => status'[m] = status[m]]_vars

(* The properties below are those of a conversation whose slash commands   *)
(* resolve without I/O (SlashIO = {}), or that gets no slash command.      *)

(* At most one turn, or slash command of the POST path, runs at a time.    *)
AtMostOneTurn == \A t, u \in Msgs : HoldsFlag(t) /\ HoldsFlag(u) => t = u

(* While one runs the flag is set, so that messages are queued behind it.  *)
TurnHoldsFlag == \A t \in Msgs : HoldsFlag(t) => processing

(* Stop reaches the turn that runs: the conversation's controller is the   *)
(* one the running agent loop listens to.                                  *)
StopReachesTurn == \A t \in Msgs : pc[t] \in {"loop", "commit"} => controller = ctl[t]

(* The turn that runs owns the conversation: no other runs beside it, what *)
(* arrives is queued behind it, and stop reaches it.                       *)
TurnOwnsConversation == AtMostOneTurn /\ TurnHoldsFlag /\ StopReachesTurn

Writing(t) == pc[t] \in {"persist", "tailPersist", "slashPersist"}

(* When nothing is being written, the messages in memory are the messages  *)
(* in the database, in spite of the ones popped after a failed write.      *)
MemoryMatchesRows ==
    (\A t \in Msgs : ~Writing(t)) => /\ ToSet(history) = rows
                                     /\ IsInjective(history)

(* The transcript keeps the order of arrival: a message precedes an older  *)
(* one only if the user steered to it.                                     *)
InArrivalOrder ==
    \A i, j \in 1 .. Len(history) :
        i < j /\ history[j] < history[i] => history[i] \in promoted

(* A message that was queued is never refused because of a turn that       *)
(* overtook it.                                                            *)
NeverBusy == \A m \in Msgs : status[m] # "busy"

(* As long as no turn was aborted, a message without an outcome is queued  *)
(* or in the hands of a chain that is still going: none is forgotten.  (An *)
(* abort during the writes of a batch drops the ones not yet written.)     *)
NothingForgotten ==
    aborted = {} => \A m \in Msgs : status[m] = "open" =>
        \/ m \in ToSet(queue)
        \/ \E t \in Msgs : pc[t] # "none" /\ m \in ToSet(Hands(t))

(* Every message that was accepted gets an outcome, as long as no turn was *)
(* aborted.                                                                *)
EveryoneSettles ==
    \A m \in Msgs : status[m] = "open" ~> status[m] # "open" \/ aborted # {}
=============================================================================
