------------------------ MODULE ChannelDeliveryProofs ------------------------
(* Theorems about ChannelDelivery for any set of messages, any number of   *)
(* attempts and segments, and any number of replays and crashes.           *)
EXTENDS ChannelDelivery, SequenceTheorems, TLAPS

-----------------------------------------------------------------------------
(* The inductive invariant.                                                *)

(* What the columns of a row say about each other.  An answered message is *)
(* processed for good; every other one still has an attempt in hand, and   *)
(* its payload, as long as it is to be retried.                            *)
RowOK(e) ==
  /\ answered[e] <= 1
  /\ answered[e] = 1 => processing[e] = "processed" /\ stored[e]
  /\ processing[e] \in {"failed", "dead_letter"} => stored[e]
  /\ delivery[e] # "pending" => answered[e] = 1
  /\ processing[e] \in {"none", "pending", "failed"} => attempts[e] < MaxAttempts
  /\ delivery[e] \in {"pending", "failed"} => sends[e] < MaxAttempts

(* The dispatch lets go of a row before anybody else may take it up.       *)
DispatchOK(e) ==
  /\ processing[e] \in {"none", "failed", "dead_letter"} => at[e] = "idle"
  /\ at[e] \in {"received", "begin", "turn", "consumed"} =>
       processing[e] = "pending"
  /\ delivery[e] \in {"failed", "dead_letter"} => at[e] = "idle"

(* What a worker relies on while it has a message in hand: the turn is     *)
(* still to be run, or the reply is sent as far as the row has counted.    *)
WorkerOK(w) ==
  /\ at[w] \in {"begin", "turn"} =>
       /\ answered[EventOf(w)] = 0
       /\ stored[EventOf(w)]
       /\ processing[EventOf(w)] \in {"pending", "failed"}
  /\ at[w] \in {"sending", "awaiting"} =>
       /\ answered[EventOf(w)] = 1
       /\ next[w] = count[EventOf(w)]
       /\ sends[EventOf(w)] < MaxAttempts
  /\ at[w] = "awaiting" => next[w] < reply[EventOf(w)]

(* The sweep has a message to itself, and its lists are still true of the  *)
(* rows, however long ago it read them.                                    *)
SweepOK ==
  /\ at[Sweep] \notin {"received", "consumed"}
  /\ at[Sweep] # "idle" =>
       /\ current \in Events
       /\ at[current] = "idle"
       /\ processing[current] # "none"
       /\ current \notin toRetry
       /\ \A r \in toResend : r.event # current
  /\ at[Sweep] \in {"begin", "turn"} => processing[current] = "failed"

ListsOK ==
  /\ \A e \in toRetry : processing[e] = "failed"
  /\ \A r \in toResend :
       /\ answered[r.event] = 1
       /\ at[r.event] = "idle"
       /\ r.from = count[r.event]
       /\ sends[r.event] < MaxAttempts

(* The count of a row against what the channel has shown.                  *)
IsShown(e, s) == \E k \in DOMAIN posted[e] : posted[e][k].segment = s
CountOK(e) ==
  /\ answered[e] = 0 => posted[e] = <<>> /\ count[e] = 0
  /\ count[e] <= reply[e]
  /\ \A s \in 1..count[e] : IsShown(e, s)
  /\ \A k \in DOMAIN posted[e] :
       /\ posted[e][k].segment <= count[e] + 1
       /\ posted[e][k].segment <= reply[e]
       /\ posted[e][k].heard => posted[e][k].segment <= count[e]
  /\ delivery[e] = "delivered" => \A s \in 1..reply[e] : IsShown(e, s)

(* InOrder and NotShownAgain of one message.                               *)
OrderOK(e) ==
  /\ \A k \in DOMAIN posted[e] :
       posted[e][k].segment > 1 =>
         \E j \in 1..(k - 1) : posted[e][j].segment = posted[e][k].segment - 1
  /\ \A j, k \in DOMAIN posted[e] :
       j < k /\ posted[e][j].heard => posted[e][j].segment # posted[e][k].segment

RowsOK == \A e \in Events : RowOK(e)
DispatchesOK == \A e \in Events : DispatchOK(e)
WorkersOK == \A w \in Workers : WorkerOK(w)
CountsOK == \A e \in Events : CountOK(e) /\ OrderOK(e)

IInv ==
  /\ TypeOK
  /\ RowsOK
  /\ DispatchesOK
  /\ WorkersOK
  /\ SweepOK
  /\ ListsOK
  /\ CountsOK

-----------------------------------------------------------------------------
(* What a step leaves alone.                                               *)

(* Two workers never have the same message in hand, and one that is in     *)
(* hand is on neither list of the sweep.                                   *)
LEMMA HandsApart ==
    ASSUME IInv, NEW w \in Workers, at[w] \notin {"idle", "consumed"}
    PROVE  /\ EventOf(w) \in Events
           /\ \A v \in Workers \ {w} :
                at[v] \notin {"idle", "consumed"} => EventOf(v) # EventOf(w)
           /\ EventOf(w) \notin toRetry
           /\ \A r \in toResend : r.event # EventOf(w)
           /\ w # Sweep => EventOf(w) = w
           /\ w = Sweep => EventOf(w) = current /\ at[current] = "idle"
BY ChannelDeliveryAssumption
DEF IInv, TypeOK, SweepOK, DispatchesOK, DispatchOK, ListsOK, EventOf, Workers

(* What the invariant reads of a message, but for its delivery_status.     *)
Kept(e) ==
  /\ processing'[e] = processing[e]
  /\ attempts'[e] = attempts[e]
  /\ sends'[e] = sends[e]
  /\ stored'[e] = stored[e]
  /\ count'[e] = count[e]
  /\ reply'[e] = reply[e]
  /\ answered'[e] = answered[e]
  /\ posted'[e] = posted[e]

LEMMA KeptShown ==
    ASSUME NEW e \in Events, NEW s, posted'[e] = posted[e]
    PROVE  IsShown(e, s)' <=> IsShown(e, s)
BY DEF IsShown

(* A message whose columns are kept, and not newly marked delivered, stays *)
(* consistent.                                                             *)
LEMMA KeptCount ==
    ASSUME NEW e \in Events, CountOK(e), OrderOK(e),
           answered'[e] = answered[e], count'[e] = count[e],
           reply'[e] = reply[e], posted'[e] = posted[e],
           delivery'[e] = "delivered" => delivery[e] = "delivered"
    PROVE  (CountOK(e) /\ OrderOK(e))'
<1>1. \A s : IsShown(e, s)' <=> IsShown(e, s)
    BY KeptShown
<1>2. CountOK(e)'
    BY <1>1 DEF CountOK
<1>3. OrderOK(e)'
    BY DEF OrderOK
<1> QED
    BY <1>2, <1>3

LEMMA KeptRow ==
    ASSUME NEW e \in Events, RowOK(e), Kept(e), delivery'[e] = delivery[e]
    PROVE  RowOK(e)'
BY DEF RowOK, Kept

(* A worker that stays where it is, with a message that is kept.           *)
LEMMA KeptWorker ==
    ASSUME NEW v \in Workers, WorkerOK(v), at'[v] = at[v], next'[v] = next[v],
           EventOf(v)' = EventOf(v),
           at[v] \notin {"idle", "consumed"} => Kept(EventOf(v))
    PROVE  WorkerOK(v)'
BY DEF WorkerOK, Kept

(* A step of worker w on its message e, which leaves every other message   *)
(* and every other worker alone.                                           *)
StepAt(w, e) ==
  /\ w \in Workers
  /\ at[w] \notin {"idle", "consumed"}
  /\ e = EventOf(w)
  /\ \A f \in Events \ {e} : Kept(f) /\ delivery'[f] = delivery[f]
  /\ \A v \in Workers \ {w} : at'[v] = at[v] /\ next'[v] = next[v]
  /\ UNCHANGED sweep

(* Such a step preserves the invariant if it does so for w and e.          *)
LEMMA StepAtInv ==
    ASSUME IInv, NEW w, NEW e, StepAt(w, e), TypeOK', RowOK(e)', WorkerOK(w)',
           (CountOK(e) /\ OrderOK(e))', DispatchOK(e)',
           at'[w] \notin {"received", "consumed"} \/ w # Sweep,
           at'[w] \in {"begin", "turn"} =>
             w # Sweep \/ (at[w] = "begin" /\ processing'[e] = processing[e]),
           processing'[e] # "none"
    PROVE  IInv'
<1>1. /\ e \in Events
      /\ e \notin toRetry
      /\ \A r \in toResend : r.event # e
      /\ w # Sweep => e = w
      /\ w = Sweep => e = current /\ at[current] = "idle"
      /\ \A v \in Workers \ {w} : at[v] \notin {"idle", "consumed"} => EventOf(v) # e
    BY HandsApart DEF StepAt
<1>2. /\ TypeOK /\ RowsOK /\ DispatchesOK /\ WorkersOK /\ SweepOK /\ ListsOK
      /\ CountsOK
    BY DEF IInv
<1>3. \A v : EventOf(v)' = EventOf(v)
    BY DEF StepAt, EventOf, sweep
<1>4. RowsOK'
    BY <1>2, KeptRow DEF RowsOK, StepAt
<1>5. CountsOK'
    <2>1. \A f \in Events \ {e} : (CountOK(f) /\ OrderOK(f))'
        BY <1>2, KeptCount DEF CountsOK, StepAt, Kept
    <2> QED
        BY <2>1 DEF CountsOK
<1>6. DispatchesOK'
    <2>1. \A f \in Events \ {e} : f # w /\ f \in Workers
        BY <1>1, ChannelDeliveryAssumption DEF Workers
    <2>2. \A f \in Events \ {e} : DispatchOK(f)'
        BY <1>2, <2>1 DEF DispatchesOK, DispatchOK, StepAt, Kept
    <2> QED
        BY <2>2 DEF DispatchesOK
<1>7. WorkersOK'
    <2>1. ASSUME NEW v \in Workers \ {w} PROVE WorkerOK(v)'
        <3>1. at[v] \notin {"idle", "consumed"} => EventOf(v) \in Events \ {e}
            BY <1>1, HandsApart
        <3>2. at[v] \notin {"idle", "consumed"} => Kept(EventOf(v))
            BY <3>1 DEF StepAt
        <3> QED
            BY <1>2, <1>3, <2>1, <3>2, KeptWorker DEF WorkersOK, StepAt
    <2> QED
        BY <2>1 DEF WorkersOK
<1>8. SweepOK'
    <2>1. CASE w = Sweep
        BY <1>1, <1>2, <2>1, ChannelDeliveryAssumption
        DEF SweepOK, StepAt, sweep, Workers
    <2>2. CASE w # Sweep
        <3>1. at'[Sweep] = at[Sweep]
            BY <2>2 DEF StepAt, Workers
        <3>2. CASE at[Sweep] = "idle"
            BY <3>1, <3>2 DEF SweepOK
        <3>3. CASE at[Sweep] # "idle"
            <4>1. current \in Events /\ current # e /\ current # w
                BY <1>1, <1>2, <2>2, <3>3 DEF SweepOK, StepAt
            <4>2. at'[current] = at[current] /\ processing'[current] = processing[current]
                BY <4>1 DEF StepAt, Kept, Workers
            <4> QED
                BY <1>2, <3>1, <4>2 DEF SweepOK, StepAt, sweep
        <3> QED
            BY <3>2, <3>3
    <2> QED
        BY <2>1, <2>2
<1>9. ListsOK'
    <2>1. toRetry' = toRetry /\ toResend' = toResend
        BY DEF StepAt, sweep
    <2>2. \A f \in toRetry : f \in Events \ {e}
        BY <1>1, <1>2 DEF TypeOK
    <2>3. \A r \in toResend : r.event \in Events \ {e}
        BY <1>1, <1>2 DEF TypeOK
    <2>4. \A r \in toResend : r.event # w
        BY <1>1, <1>2, <2>3, ChannelDeliveryAssumption DEF TypeOK
    <2> QED
        BY <1>2, <2>1, <2>2, <2>3, <2>4 DEF ListsOK, StepAt, Kept, Workers
<1> QED
    BY <1>4, <1>5, <1>6, <1>7, <1>8, <1>9 DEF IInv


-----------------------------------------------------------------------------
(* The steps of a worker.                                                  *)

(* What a worker knows of the message in its hand.                         *)
LEMMA InHand ==
    ASSUME IInv, NEW w \in Workers, at[w] \notin {"idle", "consumed"}
    PROVE  /\ EventOf(w) \in Events
           /\ RowOK(EventOf(w)) /\ CountOK(EventOf(w)) /\ OrderOK(EventOf(w))
           /\ DispatchOK(EventOf(w)) /\ WorkerOK(w)
           /\ EventOf(w) = w \/ (w = Sweep /\ at[EventOf(w)] = "idle")
           /\ w = Sweep => at[w] # "received"
           /\ processing[EventOf(w)] # "none"
<1>1. EventOf(w) \in Events
    BY HandsApart
<1>2. EventOf(w) = w \/ (w = Sweep /\ at[EventOf(w)] = "idle")
    <2>1. CASE w = Sweep
        BY <2>1, HandsApart
    <2>2. CASE w # Sweep
        BY <2>2, HandsApart
    <2> QED
        BY <2>1, <2>2
<1>3. processing[EventOf(w)] # "none"
    BY <1>1, <1>2, HandsApart DEF IInv, DispatchesOK, DispatchOK, SweepOK
<1> QED
    BY <1>1, <1>2, <1>3
    DEF IInv, RowsOK, CountsOK, DispatchesOK, WorkersOK, SweepOK

(* A message is blocked, taken by another stage, or dispatched.            *)
LEMMA HandledInv ==
    ASSUME IInv, NEW w \in Events, Handled(w)
    PROVE  IInv'
<1>1. w \in Workers /\ at[w] = "received" /\ EventOf(w) = w /\ w # Sweep
    BY ChannelDeliveryAssumption
    DEF Handled, Block, Consume, Dispatch, Workers, EventOf
<1>2. RowOK(w) /\ CountOK(w) /\ OrderOK(w) /\ DispatchOK(w) /\ WorkerOK(w) /\ TypeOK
    BY <1>1, InHand DEF IInv
<1>3. TypeOK'
    BY <1>1, <1>2
    DEF TypeOK, Handled, Block, Consume, Dispatch, MarkProcessed, Goto, row, turn,
        sweep, bounds, Statuses, Places
<1>4. StepAt(w, w)
    BY <1>1, <1>2
    DEF TypeOK, StepAt, Kept, Handled, Block, Consume, Dispatch, MarkProcessed,
        Goto, row, turn, sweep
<1>5. RowOK(w)' /\ DispatchOK(w)' /\ at'[w] \in {"idle", "begin", "consumed"}
    BY <1>1, <1>2
    DEF TypeOK, RowOK, DispatchOK, Handled, Block, Consume, Dispatch,
        MarkProcessed, Goto, row, turn
<1>6. (CountOK(w) /\ OrderOK(w))'
    <2>1. UNCHANGED <<answered, count, reply, posted, delivery>>
        BY DEF Handled, Block, Consume, Dispatch, MarkProcessed, row, turn
    <2> QED
        BY <1>2, <2>1, KeptCount
<1>7. WorkerOK(w)'
    BY <1>1, <1>2
    DEF TypeOK, RowOK, WorkerOK, EventOf, Handled, Block, Consume, Dispatch,
        DispatchOK, MarkProcessed, Goto, row, turn
<1>8. processing'[w] # "none"
    BY <1>1, <1>2
    DEF TypeOK, DispatchOK, Handled, Block, Consume, Dispatch, MarkProcessed, row
<1>9. w # Sweep /\ RowOK(w)' /\ DispatchOK(w)'
    BY <1>1, <1>5
<1> QED
    BY <1>3, <1>4, <1>6, <1>7, <1>8, <1>9, StepAtInv

(* A turn starts.                                                          *)
LEMMA BeginInv ==
    ASSUME IInv, NEW w \in Workers, Begin(w)
    PROVE  IInv'
<1>1. at[w] = "begin" /\ at' = [at EXCEPT ![w] = "turn"]
    BY DEF Begin, Goto
<1>2. PICK e \in Events :
        /\ e = EventOf(w) /\ RowOK(e) /\ CountOK(e) /\ OrderOK(e) /\ DispatchOK(e)
        /\ WorkerOK(w) /\ processing[e] # "none"
        /\ e = w \/ (w = Sweep /\ at[e] = "idle")
    BY <1>1, InHand
<1>3. /\ UNCHANGED <<row, turn, next, sweep, posted, lost, bounds>>
      /\ TypeOK
    BY DEF Begin, IInv
<1>4. TypeOK'
    BY <1>1, <1>3 DEF TypeOK, row, turn, sweep, bounds, Places
<1>5. StepAt(w, e)
    BY <1>1, <1>2, <1>3 DEF TypeOK, StepAt, Kept, row, turn
<1>6. RowOK(e)' /\ DispatchOK(e)' /\ (CountOK(e) /\ OrderOK(e))'
    <2>1. RowOK(e)'
        BY <1>2, <1>3 DEF RowOK, row, turn
    <2>2. DispatchOK(e)'
        BY <1>1, <1>2, <1>3 DEF TypeOK, DispatchOK, row
    <2>3. (CountOK(e) /\ OrderOK(e))'
        BY <1>2, <1>3, KeptCount DEF row, turn
    <2> QED
        BY <2>1, <2>2, <2>3
<1>7. WorkerOK(w)' /\ at'[w] = "turn" /\ processing'[e] = processing[e]
    BY <1>1, <1>2, <1>3 DEF TypeOK, WorkerOK, EventOf, row, turn, sweep
<1> QED
    BY <1>1, <1>2, <1>4, <1>5, <1>6, <1>7, StepAtInv

(* A turn is refused or fails.                                             *)
LEMMA TurnFailsInv ==
    ASSUME IInv, NEW w \in Workers, NEW fatal \in BOOLEAN,
           Rejected(w) \/ TurnFails(w, fatal)
    PROVE  IInv'
<1>1. at[w] \in {"begin", "turn"} /\ at' = [at EXCEPT ![w] = "idle"]
    BY DEF Rejected, TurnFails, Goto
<1>2. PICK e \in Events :
        /\ e = EventOf(w) /\ RowOK(e) /\ CountOK(e) /\ OrderOK(e) /\ DispatchOK(e)
        /\ WorkerOK(w) /\ processing[e] # "none"
        /\ e = w \/ (w = Sweep /\ at[e] = "idle")
    BY <1>1, InHand
<1>3. PICK f \in BOOLEAN : ProcessingFails(e, f)
    BY <1>2 DEF Rejected, TurnFails
<1>4. /\ UNCHANGED <<turn, next, sweep, posted, lost, bounds>>
      /\ TypeOK
    BY DEF Rejected, TurnFails, IInv
<1>5. /\ answered[e] = 0 /\ stored[e] /\ attempts[e] < MaxAttempts
      /\ attempts[e] \in Nat
    BY <1>1, <1>2, <1>4 DEF TypeOK, WorkerOK, RowOK
<1>6. TypeOK'
    <2>1. attempts' \in [Events -> 0..MaxAttempts]
        BY <1>3, <1>4, <1>5, ChannelDeliveryAssumption DEF TypeOK, ProcessingFails
    <2> QED
        BY <1>1, <1>3, <1>4, <2>1
        DEF TypeOK, ProcessingFails, turn, sweep, bounds, Statuses, Places
<1>7. StepAt(w, e)
    BY <1>1, <1>2, <1>3, <1>4 DEF TypeOK, StepAt, Kept, ProcessingFails, turn
<1>8. RowOK(e)'
    BY <1>2, <1>3, <1>4, <1>5, ChannelDeliveryAssumption
    DEF TypeOK, RowOK, ProcessingFails, Over, turn
<1>9. (CountOK(e) /\ OrderOK(e))'
    BY <1>2, <1>3, <1>4, KeptCount DEF ProcessingFails, turn
<1>10. DispatchOK(e)' /\ WorkerOK(w)' /\ at'[w] = "idle" /\ processing'[e] # "none"
    BY <1>1, <1>2, <1>3, <1>4, <1>5
    DEF TypeOK, DispatchOK, WorkerOK, RowOK, ProcessingFails
<1> QED
    BY <1>6, <1>7, <1>8, <1>9, <1>10, StepAtInv

(* A turn ends well.                                                       *)
LEMMA TurnEndsInv ==
    ASSUME IInv, NEW w \in Workers, NEW n \in 0..MaxSegments, TurnEnds(w, n)
    PROVE  IInv'
<1>1. at[w] = "turn" /\ at' = [at EXCEPT ![w] = IF EventOf(w) \in WithCallback
                                                THEN "sending" ELSE "idle"]
    BY DEF TurnEnds, Goto
<1>2. PICK e \in Events :
        /\ e = EventOf(w) /\ RowOK(e) /\ CountOK(e) /\ OrderOK(e) /\ DispatchOK(e)
        /\ WorkerOK(w) /\ processing[e] # "none"
        /\ e = w \/ (w = Sweep /\ at[e] = "idle")
    BY <1>1, InHand
<1>3. /\ processing' = [processing EXCEPT ![e] = "processed"]
      /\ answered' = [answered EXCEPT ![e] = @ + 1]
      /\ reply' = [reply EXCEPT ![e] = n]
      /\ next' = [next EXCEPT ![w] = 0]
      /\ UNCHANGED <<delivery, attempts, sends, retryAfter, stored, sweep,
                     posted, lost, bounds>>
      /\ TypeOK
    BY <1>2 DEF TurnEnds, MarkProcessed, IInv
<1>4. answered[e] = 0 /\ stored[e] /\ posted[e] = <<>> /\ count[e] = 0
      /\ delivery[e] = "pending" /\ sends[e] < MaxAttempts
    BY <1>1, <1>2 DEF WorkerOK, RowOK, CountOK
<1>5. count' = count
    <2>1. count' = count \/ count' = [count EXCEPT ![e] = 0]
        BY <1>2 DEF TurnEnds
    <2> QED
        BY <1>3, <1>4, <2>1 DEF TypeOK
<1>6. TypeOK'
    <2>1. next' \in [Workers -> 0..MaxSegments] /\ answered' \in [Events -> Nat]
        BY <1>2, <1>3, ChannelDeliveryAssumption DEF TypeOK
    <2> QED
        BY <1>1, <1>3, <1>5, <2>1 DEF TypeOK, sweep, bounds, Statuses, Places
<1>7. StepAt(w, e)
    BY <1>1, <1>2, <1>3, <1>5 DEF TypeOK, StepAt, Kept
<1>8. RowOK(e)'
    BY <1>2, <1>3, <1>4 DEF TypeOK, RowOK
<1>9. (CountOK(e) /\ OrderOK(e))'
    <2>1. posted'[e] = <<>> /\ count'[e] = 0 /\ reply'[e] = n /\ delivery'[e] = "pending"
          /\ answered'[e] = 1
        BY <1>3, <1>4, <1>5 DEF TypeOK
    <2>2. DOMAIN posted'[e] = {}
        BY <2>1
    <2> QED
        BY <2>1, <2>2 DEF CountOK, OrderOK
<1>10. DispatchOK(e)' /\ processing'[e] # "none"
    BY <1>1, <1>2, <1>3, <1>4 DEF TypeOK, DispatchOK
<1>11. WorkerOK(w)' /\ at'[w] \in {"sending", "idle"}
    <2>1. EventOf(w)' = e
        BY <1>2, <1>3 DEF EventOf, sweep
    <2> QED
        BY <1>1, <1>3, <1>4, <1>5, <2>1 DEF TypeOK, WorkerOK
<1> QED
    BY <1>6, <1>7, <1>8, <1>9, <1>10, <1>11, StepAtInv

(* What a channel has shown is a sequence of segments.                     *)
LEMMA PostedType ==
    ASSUME TypeOK, NEW e \in Events
    PROVE  /\ posted[e] \in Seq([segment : 1..MaxSegments, heard : BOOLEAN])
           /\ Len(posted[e]) \in Nat
           /\ DOMAIN posted[e] = 1..Len(posted[e])
           /\ \A i \in 1..Len(posted[e]) :
                /\ posted[e][i] \in [segment : 1..MaxSegments, heard : BOOLEAN]
                /\ posted[e][i].segment \in Nat
<1>1. posted[e] \in Seq([segment : 1..MaxSegments, heard : BOOLEAN])
    BY DEF TypeOK
<1>2. Len(posted[e]) \in Nat /\ DOMAIN posted[e] = 1..Len(posted[e])
    BY <1>1, LenProperties
<1>3. ASSUME NEW i \in 1..Len(posted[e])
      PROVE  posted[e][i] \in [segment : 1..MaxSegments, heard : BOOLEAN]
    BY <1>1, ElementOfSeq
<1>4. 1..MaxSegments \subseteq Nat
    BY ChannelDeliveryAssumption
<1> QED
    BY <1>1, <1>2, <1>3, <1>4

(* A segment is requested of the channel.                                  *)
LEMMA PostInv ==
    ASSUME IInv, NEW w \in Workers, NEW shown \in BOOLEAN, Post(w, shown)
    PROVE  IInv'
<1>1. at[w] = "sending" /\ at' = [at EXCEPT ![w] = "awaiting"]
    BY DEF Post, Goto
<1>2. PICK e \in Events :
        /\ e = EventOf(w) /\ RowOK(e) /\ CountOK(e) /\ OrderOK(e) /\ DispatchOK(e)
        /\ WorkerOK(w) /\ processing[e] # "none"
        /\ e = w \/ (w = Sweep /\ at[e] = "idle")
    BY <1>1, InHand
<1> DEFINE p == [segment |-> count[e] + 1, heard |-> FALSE]
<1>3. /\ UNCHANGED <<row, turn, next, sweep, lost, bounds>>
      /\ TypeOK
    BY DEF Post, IInv
<1>4. /\ answered[e] = 1 /\ next[w] = count[e] /\ sends[e] < MaxAttempts
      /\ count[e] < reply[e] /\ count[e] \in Nat /\ reply[e] \in 0..MaxSegments
    BY <1>1, <1>2, <1>3 DEF Post, WorkerOK, TypeOK
<1>5. \/ posted' = posted
      \/ posted' = [posted EXCEPT ![e] = Append(@, p)]
    BY <1>2, <1>4 DEF Post
<1>6. p \in [segment : 1..MaxSegments, heard : BOOLEAN]
    BY <1>4, ChannelDeliveryAssumption
<1> HIDE DEF p
<1>7. posted' \in [Events -> Seq([segment : 1..MaxSegments, heard : BOOLEAN])]
    <2>1. posted[e] \in Seq([segment : 1..MaxSegments, heard : BOOLEAN])
        BY <1>3 DEF TypeOK
    <2>2. Append(posted[e], p) \in Seq([segment : 1..MaxSegments, heard : BOOLEAN])
        BY <1>6, <2>1, AppendProperties
    <2> QED
        BY <1>3, <1>5, <2>2 DEF TypeOK
<1>8. TypeOK'
    BY <1>1, <1>3, <1>7 DEF TypeOK, row, turn, sweep, bounds, Places
<1>9. StepAt(w, e)
    BY <1>1, <1>2, <1>3, <1>5 DEF TypeOK, StepAt, Kept, row, turn
<1>10. (CountOK(e) /\ OrderOK(e))'
    <2>1. CASE posted' = posted
        BY <1>2, <1>3, <2>1, KeptCount DEF row, turn
    <2>2. CASE posted' = [posted EXCEPT ![e] = Append(@, p)]
        <3> DEFINE s == posted[e]
                   t == posted'[e]
        <3>1. s \in Seq([segment : 1..MaxSegments, heard : BOOLEAN])
            BY <1>3 DEF TypeOK
        <3>2. /\ Len(t) = Len(s) + 1 /\ DOMAIN t = 1..(Len(s) + 1)
              /\ DOMAIN s = 1..Len(s) /\ Len(s) \in Nat
              /\ \A i \in 1..Len(s) : t[i] = s[i]
              /\ t[Len(s) + 1] = p
            BY <1>3, <1>6, <2>2, <3>1, AppendProperties DEF TypeOK
        <3>3. p.segment = count[e] + 1 /\ p.heard = FALSE
            BY DEF p
        <3>4. \A i \in 1..Len(s) : s[i].segment \in Nat
            BY <1>3, PostedType
        <3>5. \A q : IsShown(e, q) => IsShown(e, q)'
            BY <3>2 DEF IsShown
        <3>6. CountOK(e)'
            <4>1. UNCHANGED <<answered, count, reply, delivery>>
                BY <1>3 DEF row, turn
            <4>2. \A k \in DOMAIN t :
                    /\ t[k].segment <= count[e] + 1
                    /\ t[k].segment <= reply[e]
                    /\ t[k].heard => t[k].segment <= count[e]
                <5>1. ASSUME NEW k \in 1..Len(s)
                      PROVE  /\ s[k].segment <= count[e] + 1
                             /\ s[k].segment <= reply[e]
                             /\ s[k].heard => s[k].segment <= count[e]
                    BY <1>2, <3>2, <5>1 DEF CountOK
                <5>2. /\ p.segment <= count[e] + 1
                      /\ p.segment <= reply[e]
                      /\ p.heard => p.segment <= count[e]
                    BY <1>4, <3>3
                <5>3. \A k \in DOMAIN t : k \in 1..Len(s) \/ k = Len(s) + 1
                    BY <3>2
                <5> HIDE DEF s, t
                <5> QED
                    BY <3>2, <5>1, <5>2, <5>3
            <4> QED
                BY <1>2, <1>4, <3>5, <4>1, <4>2 DEF CountOK
        <3>7. OrderOK(e)'
            <4>1. ASSUME NEW k \in DOMAIN t, t[k].segment > 1
                  PROVE  \E j \in 1..(k - 1) : t[j].segment = t[k].segment - 1
                <5>1. CASE k \in 1..Len(s)
                    <6>1. t[k] = s[k] /\ k \in DOMAIN s
                        BY <3>2, <5>1
                    <6>2. PICK j \in 1..(k - 1) : s[j].segment = s[k].segment - 1
                        BY <1>2, <4>1, <6>1 DEF OrderOK
                    <6>3. j \in 1..Len(s)
                        BY <3>2, <5>1
                    <6>4. t[j] = s[j]
                        BY <3>2, <6>3
                    <6> QED
                        BY <6>1, <6>2, <6>4
                <5>2. CASE k = Len(s) + 1
                    <6>1. count[e] \in 1..count[e]
                        BY <1>4, <3>2, <3>3, <4>1, <5>2
                    <6>2. PICK j \in DOMAIN s : s[j].segment = count[e]
                        BY <1>2, <6>1 DEF CountOK, IsShown
                    <6> QED
                        BY <1>4, <3>2, <3>3, <5>2, <6>2
                <5> QED
                    BY <3>2, <5>1, <5>2
            <4>2. ASSUME NEW j \in DOMAIN t, NEW k \in DOMAIN t, j < k, t[j].heard
                  PROVE  t[j].segment # t[k].segment
                <5>1. j \in 1..Len(s) /\ t[j] = s[j]
                    BY <3>2, <4>2
                <5>2. CASE k \in 1..Len(s)
                    BY <1>2, <3>2, <4>2, <5>1, <5>2 DEF OrderOK
                <5>3. CASE k = Len(s) + 1
                    BY <1>2, <1>4, <3>2, <3>3, <3>4, <4>2, <5>1, <5>3 DEF CountOK
                <5> QED
                    BY <3>2, <5>2, <5>3
            <4> QED
                BY <4>1, <4>2 DEF OrderOK
        <3> QED
            BY <3>6, <3>7
    <2> QED
        BY <1>5, <2>1, <2>2
<1>11. RowOK(e)' /\ DispatchOK(e)' /\ WorkerOK(w)' /\ at'[w] = "awaiting"
       /\ processing'[e] # "none"
    <2>1. EventOf(w)' = e
        BY <1>2, <1>3 DEF EventOf, sweep
    <2>2. RowOK(e)' /\ processing'[e] # "none"
        BY <1>2, <1>3 DEF RowOK, row, turn
    <2>3. DispatchOK(e)'
        BY <1>1, <1>2, <1>3 DEF TypeOK, DispatchOK, row
    <2>4. WorkerOK(w)' /\ at'[w] = "awaiting"
        BY <1>1, <1>3, <1>4, <2>1 DEF TypeOK, WorkerOK, row, turn
    <2> QED
        BY <2>2, <2>3, <2>4
<1> QED
    BY <1>8, <1>9, <1>10, <1>11, StepAtInv

(* Noting that a segment was heard of changes neither the segments nor      *)
(* their order.                                                            *)
LEMMA HeardSeq ==
    ASSUME NEW s \in Seq([segment : 1..MaxSegments, heard : BOOLEAN]),
           NEW n \in 1..Len(s), NEW t, t = [s EXCEPT ![n].heard = TRUE]
    PROVE  /\ t \in Seq([segment : 1..MaxSegments, heard : BOOLEAN])
           /\ DOMAIN t = 1..Len(s)
           /\ \A i \in 1..Len(s) : t[i].segment = s[i].segment
           /\ \A i \in 1..Len(s) : i # n => t[i] = s[i]
<1> DEFINE R == [segment : 1..MaxSegments, heard : BOOLEAN]
<1>1. Len(s) \in Nat /\ DOMAIN s = 1..Len(s) /\ n \in DOMAIN s
    BY LenProperties
<1>2. \A i \in 1..Len(s) : s[i] \in R
    BY ElementOfSeq
<1>3. t = [s EXCEPT ![n] = [s[n] EXCEPT !.heard = TRUE]]
    OBVIOUS
<1>4. DOMAIN t = 1..Len(s) /\ t[n] = [s[n] EXCEPT !.heard = TRUE]
    BY <1>1, <1>3
<1>5. \A i \in 1..Len(s) : i # n => t[i] = s[i]
    BY <1>1, <1>3
<1>6. s[n] \in R
    BY <1>2
<1>7. t[n] \in R /\ [s[n] EXCEPT !.heard = TRUE] \in R /\ t[n].segment = s[n].segment
    BY <1>4, <1>6
<1>8. \A i \in 1..Len(s) : t[i] \in R
    BY <1>2, <1>5, <1>7
<1>9. t \in Seq(R)
    BY <1>3, <1>4, <1>7, ExceptSeq
<1> QED
    BY <1>4, <1>5, <1>7, <1>9

(* The channel confirms a segment, and it is counted.                      *)
LEMMA HeardInv ==
    ASSUME IInv, NEW w \in Workers, Heard(w)
    PROVE  IInv'
<1>1. at[w] = "awaiting" /\ at' = [at EXCEPT ![w] = "sending"]
    BY DEF Heard, Goto
<1>2. PICK e \in Events :
        /\ e = EventOf(w) /\ RowOK(e) /\ CountOK(e) /\ OrderOK(e) /\ DispatchOK(e)
        /\ WorkerOK(w) /\ processing[e] # "none"
        /\ e = w \/ (w = Sweep /\ at[e] = "idle")
    BY <1>1, InHand
<1>3. PICK s, t, c : s = posted[e] /\ t = posted'[e] /\ c = count[e]
    OBVIOUS
<1>4. /\ UNCHANGED <<processing, delivery, attempts, sends, retryAfter, stored,
                     turn, sweep, lost, bounds>>
      /\ TypeOK
    BY DEF Heard, IInv
<1>5. /\ answered[e] = 1 /\ next[w] = c /\ sends[e] < MaxAttempts
      /\ c < reply[e] /\ c \in Nat /\ reply[e] \in 0..MaxSegments
    BY <1>1, <1>2, <1>3, <1>4 DEF WorkerOK, TypeOK
<1>6. /\ next' = [next EXCEPT ![w] = c + 1]
      /\ count' = [count EXCEPT ![e] = c + 1]
      /\ c + 1 \in 0..MaxSegments
    BY <1>2, <1>3, <1>4, <1>5, ChannelDeliveryAssumption DEF Heard, TypeOK
<1>7. /\ s \in Seq([segment : 1..MaxSegments, heard : BOOLEAN])
      /\ s # <<>> /\ s[Len(s)] = [segment |-> c + 1, heard |-> FALSE]
      /\ posted' = [posted EXCEPT ![e] = [s EXCEPT ![Len(s)].heard = TRUE]]
    BY <1>2, <1>3, <1>4, <1>5 DEF Heard, Shown, TypeOK
<1>8. Len(s) \in Nat \ {0} /\ DOMAIN s = 1..Len(s)
    <2>1. Len(s) # 0
        BY <1>3, <1>7, EmptySeq
    <2> QED
        BY <1>3, <1>4, <2>1, PostedType
<1>9. \A i \in 1..Len(s) : s[i].segment \in Nat
    BY <1>3, <1>4, PostedType
<1>10. t = [s EXCEPT ![Len(s)].heard = TRUE]
    BY <1>3, <1>4, <1>7 DEF TypeOK
<1>11. Len(s) \in 1..Len(s)
    BY <1>8
<1>12. s \in Seq([segment : 1..MaxSegments, heard : BOOLEAN])
    BY <1>7
<1>13. t \in Seq([segment : 1..MaxSegments, heard : BOOLEAN])
    BY <1>10, <1>11, <1>12, HeardSeq
<1>14. DOMAIN t = 1..Len(s)
    BY <1>10, <1>11, <1>12, HeardSeq
<1>15. \A i \in 1..Len(s) : t[i].segment = s[i].segment
    BY <1>10, <1>11, <1>12, HeardSeq
<1>16. \A i \in 1..Len(s) : i # Len(s) => t[i] = s[i]
    BY <1>10, <1>11, <1>12, HeardSeq
<1>17. t[Len(s)].segment = c + 1 /\ Len(s) \in DOMAIN t
    <2>1. s[Len(s)].segment = c + 1
        BY <1>7
    <2> QED
        BY <1>11, <1>14, <1>15, <2>1
<1>18. posted' \in [Events -> Seq([segment : 1..MaxSegments, heard : BOOLEAN])]
    BY <1>3, <1>4, <1>7, <1>13 DEF TypeOK
<1>19. TypeOK'
    BY <1>1, <1>2, <1>4, <1>6, <1>18 DEF TypeOK, turn, sweep, bounds, Places
<1>20. StepAt(w, e)
    BY <1>1, <1>2, <1>4, <1>6, <1>7 DEF TypeOK, StepAt, Kept, turn
<1>21. IsShown(e, c + 1)'
    BY <1>3, <1>17 DEF IsShown
<1>22. \A q : IsShown(e, q) => IsShown(e, q)'
    BY <1>3, <1>8, <1>14, <1>15 DEF IsShown
<1>23. count'[e] = c + 1 /\ UNCHANGED <<answered, reply, delivery>>
    BY <1>2, <1>3, <1>4, <1>6 DEF TypeOK, turn
<1>24. CountOK(e)'
    <2>1. \A q \in 1..(c + 1) : IsShown(e, q)'
        <3>1. \A q \in 1..c : IsShown(e, q)
            BY <1>2, <1>3 DEF CountOK
        <3> QED
            BY <1>5, <1>21, <1>22, <3>1
    <2>2. \A k \in DOMAIN t :
            /\ t[k].segment <= c + 2
            /\ t[k].segment <= reply[e]
            /\ t[k].heard => t[k].segment <= c + 1
        <3>1. \A k \in DOMAIN s : s[k].segment <= c + 1 /\ s[k].segment <= reply[e]
            BY <1>2, <1>3 DEF CountOK
        <3>2. \A k \in DOMAIN t : k \in DOMAIN s /\ s[k].segment \in Nat
            BY <1>8, <1>9, <1>14
        <3>3. \A k \in DOMAIN t : t[k].segment = s[k].segment
            BY <1>8, <1>14, <1>15
        <3> QED
            BY <1>5, <3>1, <3>2, <3>3
    <2>3. delivery[e] = "delivered" => \A q \in 1..reply[e] : IsShown(e, q)'
        BY <1>2, <1>22 DEF CountOK
    <2> QED
        BY <1>3, <1>5, <1>23, <2>1, <2>2, <2>3 DEF CountOK
<1>25. OrderOK(e)'
    <2>1. ASSUME NEW k \in DOMAIN t, t[k].segment > 1
          PROVE  \E j \in 1..(k - 1) : t[j].segment = t[k].segment - 1
        <3>1. k \in DOMAIN s /\ s[k].segment > 1
            BY <1>8, <1>14, <1>15, <2>1
        <3>2. PICK j \in 1..(k - 1) : s[j].segment = s[k].segment - 1
            BY <1>2, <1>3, <3>1 DEF OrderOK
        <3>3. j \in 1..Len(s) /\ k \in 1..Len(s)
            BY <1>8, <3>1
        <3> QED
            BY <1>15, <3>2, <3>3
    <2>2. ASSUME NEW j \in DOMAIN t, NEW k \in DOMAIN t, j < k, t[j].heard
          PROVE  t[j].segment # t[k].segment
        <3>1. j \in DOMAIN s /\ k \in DOMAIN s /\ j # Len(s)
            BY <1>8, <1>14, <2>2
        <3>2. s[j].heard
            BY <1>8, <1>16, <2>2, <3>1
        <3>3. s[j].segment # s[k].segment
            BY <1>2, <1>3, <2>2, <3>1, <3>2 DEF OrderOK
        <3> QED
            BY <1>8, <1>15, <3>1, <3>3
    <2> QED
        BY <1>3, <2>1, <2>2 DEF OrderOK
<1>26. RowOK(e)' /\ DispatchOK(e)' /\ WorkerOK(w)' /\ at'[w] = "sending"
       /\ processing'[e] # "none"
    <2>1. EventOf(w)' = e
        BY <1>2, <1>4 DEF EventOf, sweep
    <2>2. RowOK(e)' /\ processing'[e] # "none"
        BY <1>2, <1>4 DEF RowOK, turn
    <2>3. DispatchOK(e)'
        BY <1>1, <1>2, <1>4 DEF TypeOK, DispatchOK
    <2>4. WorkerOK(w)' /\ at'[w] = "sending"
        BY <1>1, <1>3, <1>4, <1>5, <1>6, <1>23, <2>1 DEF TypeOK, WorkerOK, turn
    <2> QED
        BY <2>2, <2>3, <2>4
<1> QED
    BY <1>19, <1>20, <1>24, <1>25, <1>26, StepAtInv

(* A request to the channel fails.                                         *)
LEMMA SendFailsInv ==
    ASSUME IInv, NEW w \in Workers, NEW fatal \in BOOLEAN, SendFails(w, fatal)
    PROVE  IInv'
<1>1. at[w] = "awaiting" /\ at' = [at EXCEPT ![w] = "idle"]
    BY DEF SendFails, Goto
<1>2. PICK e \in Events :
        /\ e = EventOf(w) /\ RowOK(e) /\ CountOK(e) /\ OrderOK(e) /\ DispatchOK(e)
        /\ WorkerOK(w) /\ processing[e] # "none"
        /\ e = w \/ (w = Sweep /\ at[e] = "idle")
    BY <1>1, InHand
<1>3. /\ DeliveryFails(e, fatal)
      /\ UNCHANGED <<turn, next, sweep, posted, lost, bounds>>
      /\ TypeOK
    BY <1>2 DEF SendFails, IInv
<1>4. answered[e] = 1 /\ sends[e] < MaxAttempts /\ sends[e] \in Nat
    BY <1>1, <1>2, <1>3 DEF TypeOK, WorkerOK
<1>5. delivery'[e] \in {"failed", "dead_letter"}
    BY <1>3 DEF DeliveryFails, TypeOK
<1>6. TypeOK'
    <2>1. sends' \in [Events -> 0..MaxAttempts]
        BY <1>3, <1>4, ChannelDeliveryAssumption DEF TypeOK, DeliveryFails
    <2> QED
        BY <1>1, <1>3, <2>1
        DEF TypeOK, DeliveryFails, turn, sweep, bounds, Statuses, Places
<1>7. StepAt(w, e)
    BY <1>1, <1>2, <1>3 DEF TypeOK, StepAt, Kept, DeliveryFails, turn
<1>8. RowOK(e)'
    BY <1>2, <1>3, <1>4, ChannelDeliveryAssumption
    DEF TypeOK, RowOK, DeliveryFails, Over, turn
<1>9. (CountOK(e) /\ OrderOK(e))'
    BY <1>2, <1>3, <1>5, KeptCount DEF DeliveryFails, turn
<1>10. DispatchOK(e)' /\ WorkerOK(w)' /\ at'[w] = "idle" /\ processing'[e] # "none"
    BY <1>1, <1>2, <1>3, <1>4 DEF TypeOK, DispatchOK, WorkerOK, DeliveryFails
<1> QED
    BY <1>6, <1>7, <1>8, <1>9, <1>10, StepAtInv

(* A reply has been sent to its end.                                       *)
LEMMA AllSentInv ==
    ASSUME IInv, NEW w \in Workers, AllSent(w)
    PROVE  IInv'
<1>1. at[w] = "sending" /\ at' = [at EXCEPT ![w] = "idle"]
    BY DEF AllSent, Goto
<1>2. PICK e \in Events :
        /\ e = EventOf(w) /\ RowOK(e) /\ CountOK(e) /\ OrderOK(e) /\ DispatchOK(e)
        /\ WorkerOK(w) /\ processing[e] # "none"
        /\ e = w \/ (w = Sweep /\ at[e] = "idle")
    BY <1>1, InHand
<1>3. /\ MarkDelivered(e) /\ next[w] >= reply[e]
      /\ UNCHANGED <<turn, next, sweep, posted, lost, bounds>>
      /\ TypeOK
    BY <1>2 DEF AllSent, IInv
<1>4. answered[e] = 1 /\ count[e] >= reply[e] /\ delivery'[e] = "delivered"
    BY <1>1, <1>2, <1>3 DEF TypeOK, WorkerOK, MarkDelivered
<1>5. TypeOK'
    BY <1>1, <1>3
    DEF TypeOK, MarkDelivered, turn, sweep, bounds, Statuses, Places
<1>6. StepAt(w, e)
    BY <1>1, <1>2, <1>3 DEF TypeOK, StepAt, Kept, MarkDelivered, turn
<1>7. RowOK(e)'
    BY <1>2, <1>3, <1>4 DEF TypeOK, RowOK, MarkDelivered, turn
<1>8. (CountOK(e) /\ OrderOK(e))'
    <2>1. UNCHANGED <<answered, count, reply, posted>>
        BY <1>3 DEF MarkDelivered, turn
    <2>2. \A s : IsShown(e, s)' <=> IsShown(e, s)
        BY <2>1, KeptShown
    <2>3. \A s \in 1..reply[e] : IsShown(e, s)
        BY <1>2, <1>3, <1>4 DEF CountOK, TypeOK
    <2>4. CountOK(e)'
        BY <1>2, <2>1, <2>2, <2>3 DEF CountOK
    <2> QED
        BY <1>2, <2>1, <2>4 DEF OrderOK
<1>9. DispatchOK(e)' /\ WorkerOK(w)' /\ at'[w] = "idle" /\ processing'[e] # "none"
    BY <1>1, <1>2, <1>3, <1>4 DEF TypeOK, DispatchOK, WorkerOK, MarkDelivered
<1> QED
    BY <1>5, <1>6, <1>7, <1>8, <1>9, StepAtInv

-----------------------------------------------------------------------------
(* The steps of channels, of the sweep and of the surroundings.            *)

(* Counts and order survive a step that touches neither what was shown nor *)
(* what was counted.                                                       *)
LEMMA CountsKept ==
    ASSUME CountsOK, UNCHANGED <<answered, count, reply, posted>>,
           \A e \in Events : delivery'[e] = "delivered" => delivery[e] = "delivered"
    PROVE  CountsOK'
BY KeptCount DEF CountsOK

(* A message that waits for its turn is in nobody's hands but its own      *)
(* dispatch's, and has not been answered.                                  *)
LEMMA Unanswered ==
    ASSUME IInv, NEW e \in Events, processing[e] # "processed"
    PROVE  /\ answered[e] = 0
           /\ delivery[e] = "pending"
           /\ \A r \in toResend : r.event # e
           /\ processing[e] \notin {"pending", "failed"} =>
                e \notin toRetry /\ (at[Sweep] # "idle" /\ processing[e] # "none"
                                       => current # e)
BY ChannelDeliveryAssumption
DEF IInv, TypeOK, RowsOK, RowOK, WorkersOK, WorkerOK, ListsOK, SweepOK, EventOf,
    Workers, Places

(* A channel sends a message for the first time.                           *)
LEMMA ReceiveInv ==
    ASSUME IInv, NEW e \in Events, Receive(e)
    PROVE  IInv'
<1>1. /\ processing[e] = "none" /\ at[e] = "idle" /\ e \in Workers /\ e # Sweep
      /\ TypeOK /\ RowsOK /\ DispatchesOK /\ WorkersOK /\ SweepOK /\ ListsOK
      /\ CountsOK
    BY ChannelDeliveryAssumption
    DEF IInv, DispatchesOK, DispatchOK, Receive, Known, Workers
<1>2. /\ processing' = [processing EXCEPT ![e] = "pending"]
      /\ at' = [at EXCEPT ![e] = "received"]
      /\ UNCHANGED <<delivery, attempts, sends, retryAfter, stored, count, turn,
                     next, sweep, posted, lost, bounds>>
    BY DEF Receive, Goto
<1>3. /\ answered[e] = 0
      /\ delivery[e] = "pending"
      /\ e \notin toRetry /\ \A r \in toResend : r.event # e
    BY <1>1, Unanswered
<1>4. at[Sweep] # "idle" => current \in Events /\ current # e
    BY <1>1 DEF SweepOK
<1>5. TypeOK'
    BY <1>1, <1>2 DEF TypeOK, turn, sweep, bounds, Statuses, Places
<1>6. RowsOK'
    BY <1>1, <1>2 DEF TypeOK, RowsOK, RowOK, turn
<1>7. DispatchesOK'
    <2>1. ASSUME NEW f \in Events \ {e} PROVE DispatchOK(f)'
        <3>1. processing'[f] = processing[f] /\ at'[f] = at[f]
            BY <1>1, <1>2 DEF TypeOK, Workers
        <3> QED
            BY <1>1, <1>2, <3>1 DEF DispatchesOK, DispatchOK
    <2>2. DispatchOK(e)'
        BY <1>1, <1>2, <1>3 DEF TypeOK, DispatchOK
    <2> QED
        BY <2>1, <2>2 DEF DispatchesOK
<1>8. WorkersOK'
    <2>1. ASSUME NEW v \in Workers \ {e} PROVE WorkerOK(v)'
        <3>1. at[v] \notin {"idle", "consumed"} => EventOf(v) \in Events \ {e}
            BY <1>1, <1>4, <2>1 DEF EventOf, Workers
        <3>2. at[v] \notin {"idle", "consumed"} => Kept(EventOf(v))
            BY <1>1, <1>2, <3>1 DEF TypeOK, Kept, turn
        <3>3. at'[v] = at[v] /\ next'[v] = next[v] /\ EventOf(v)' = EventOf(v)
            BY <1>1, <1>2 DEF TypeOK, EventOf, sweep
        <3> QED
            BY <1>1, <2>1, <3>2, <3>3, KeptWorker DEF WorkersOK
    <2>2. WorkerOK(e)'
        BY <1>1, <1>2 DEF TypeOK, WorkerOK
    <2> QED
        BY <2>1, <2>2 DEF WorkersOK
<1>9. SweepOK'
    <2>1. at'[Sweep] = at[Sweep]
        BY <1>1, <1>2 DEF TypeOK, Workers
    <2>2. at[Sweep] # "idle" =>
            at'[current] = at[current] /\ processing'[current] = processing[current]
        BY <1>1, <1>2, <1>4 DEF TypeOK, Workers
    <2> QED
        BY <1>1, <1>2, <2>1, <2>2 DEF SweepOK, sweep
<1>10. ListsOK'
    <2>1. \A f \in toRetry : processing'[f] = processing[f]
        BY <1>1, <1>2, <1>3 DEF TypeOK
    <2>2. \A r \in toResend : at'[r.event] = at[r.event]
        BY <1>1, <1>2, <1>3 DEF TypeOK, Workers
    <2> QED
        BY <1>1, <1>2, <2>1, <2>2 DEF ListsOK, sweep, turn
<1>11. CountsOK'
    BY <1>1, <1>2, CountsKept DEF turn
<1> QED
    BY <1>5, <1>6, <1>7, <1>8, <1>9, <1>10, <1>11 DEF IInv

(* A back-off has run.                                                     *)
LEMMA ElapseInv ==
    ASSUME IInv, NEW e \in Events, Elapse(e)
    PROVE  IInv'
<1>1. /\ retryAfter' = [retryAfter EXCEPT ![e] = "due"]
      /\ UNCHANGED <<processing, delivery, attempts, sends, stored, count, turn,
                     at, next, sweep, posted, lost, bounds>>
    BY DEF Elapse
<1>2. TypeOK'
    BY <1>1 DEF IInv, TypeOK, turn, sweep, bounds
<1>3. RowsOK' /\ DispatchesOK'
    BY <1>1 DEF IInv, RowsOK, RowOK, DispatchesOK, DispatchOK, turn
<1>4. WorkersOK'
    BY <1>1 DEF IInv, WorkersOK, WorkerOK, EventOf, turn, sweep
<1>5. SweepOK' /\ ListsOK'
    BY <1>1 DEF IInv, SweepOK, ListsOK, turn, sweep
<1>6. CountsOK'
    BY <1>1, CountsKept DEF IInv, turn
<1> QED
    BY <1>2, <1>3, <1>4, <1>5, <1>6 DEF IInv

(* The sweep reads its lists.                                              *)
LEMMA SweepStartsInv ==
    ASSUME IInv, SweepStarts
    PROVE  IInv'
<1>1. /\ at[Sweep] = "idle"
      /\ toRetry' = Retryable
      /\ toResend' = {[event |-> e, from |-> count[e]] : e \in RetryableDeliveries}
      /\ current' = None
      /\ UNCHANGED <<row, turn, at, next, posted, lost, bounds>>
      /\ TypeOK /\ RowsOK /\ DispatchesOK /\ WorkersOK /\ CountsOK
    BY DEF SweepStarts, IInv
<1>2. \A e \in RetryableDeliveries :
        e \in Events /\ delivery[e] = "failed" /\ count[e] \in 0..MaxSegments
    BY <1>1 DEF RetryableDeliveries, TypeOK
<1>3. Retryable \subseteq Events /\ \A e \in Retryable : processing[e] = "failed"
    BY DEF Retryable
<1>4. \A r \in toResend' :
        \E e \in RetryableDeliveries : r = [event |-> e, from |-> count[e]]
    BY <1>1
<1>5. toResend' \subseteq [event : Events, from : 0..MaxSegments]
    BY <1>2, <1>4
<1>6. TypeOK'
    BY <1>1, <1>3, <1>5 DEF TypeOK, row, turn, bounds
<1>7. RowsOK' /\ DispatchesOK'
    BY <1>1 DEF RowsOK, RowOK, DispatchesOK, DispatchOK, row, turn
<1>8. WorkersOK'
    <2>1. \A v \in Workers : at[v] # "idle" => v # Sweep
        BY <1>1
    <2> QED
        BY <1>1, <2>1 DEF WorkersOK, WorkerOK, EventOf, row, turn
<1>9. SweepOK'
    BY <1>1 DEF SweepOK
<1>10. ListsOK'
    <2>1. \A e \in toRetry' : processing'[e] = "failed"
        BY <1>1, <1>3 DEF row
    <2>2. ASSUME NEW r \in toResend'
          PROVE  /\ answered[r.event] = 1 /\ at[r.event] = "idle"
                 /\ r.from = count[r.event] /\ sends[r.event] < MaxAttempts
        <3>1. PICK e \in RetryableDeliveries : r = [event |-> e, from |-> count[e]]
            BY <1>4, <2>2
        <3>2. r.event = e /\ r.from = count[e] /\ e \in Events /\ delivery[e] = "failed"
            BY <1>2, <3>1
        <3> QED
            BY <1>1, <3>2 DEF RowsOK, RowOK, DispatchesOK, DispatchOK
    <2> QED
        BY <1>1, <2>1, <2>2 DEF ListsOK, row, turn
<1>11. CountsOK'
    BY <1>1, CountsKept DEF row, turn
<1> QED
    BY <1>6, <1>7, <1>8, <1>9, <1>10, <1>11 DEF IInv

(* The sweep takes a message up whose turn failed.                         *)
LEMMA SweepRetriesInv ==
    ASSUME IInv, NEW e \in Events, SweepRetries(e)
    PROVE  IInv'
<1>1. /\ at[Sweep] = "idle" /\ e \in toRetry /\ processing[e] = "failed"
      /\ at[e] = "idle" /\ stored[e] /\ e # Sweep /\ Sweep \in Workers
      /\ TypeOK /\ RowsOK /\ DispatchesOK /\ WorkersOK /\ ListsOK /\ CountsOK
    BY ChannelDeliveryAssumption
    DEF IInv, ListsOK, DispatchesOK, DispatchOK, RowsOK, RowOK, SweepRetries, Take,
        Workers
<1>2. /\ toRetry' = toRetry \ {e}
      /\ current' = e
      /\ at' = [at EXCEPT ![Sweep] = "begin"]
      /\ UNCHANGED <<row, next, toResend, turn, posted, lost, bounds>>
    BY DEF SweepRetries, Take, Goto
<1>3. answered[e] = 0 /\ \A r \in toResend : r.event # e
    BY <1>1, Unanswered
<1>4. \A f \in Events : at'[f] = at[f]
    BY <1>1, <1>2, ChannelDeliveryAssumption DEF TypeOK, Workers
<1>5. at'[Sweep] = "begin"
    BY <1>1, <1>2 DEF TypeOK
<1>6. TypeOK'
    BY <1>1, <1>2 DEF TypeOK, row, turn, bounds, Places
<1>7. RowsOK' /\ DispatchesOK'
    BY <1>1, <1>2, <1>4 DEF RowsOK, RowOK, DispatchesOK, DispatchOK, row, turn
<1>8. WorkersOK'
    <2>1. ASSUME NEW v \in Events PROVE WorkerOK(v)'
        <3>1. v \in Workers /\ EventOf(v) = v /\ EventOf(v)' = v
            BY ChannelDeliveryAssumption DEF Workers, EventOf
        <3>2. WorkerOK(v)
            BY <1>1, <3>1 DEF WorkersOK
        <3>3. Kept(v)
            BY <1>2 DEF Kept, row, turn
        <3> QED
            BY <1>2, <1>4, <3>1, <3>2, <3>3, KeptWorker
    <2>2. WorkerOK(Sweep)'
        BY <1>1, <1>2, <1>3, <1>5 DEF WorkerOK, EventOf, row, turn
    <2> QED
        BY <2>1, <2>2 DEF WorkersOK, Workers
<1>9. SweepOK'
    BY <1>1, <1>2, <1>3, <1>4, <1>5 DEF SweepOK, row
<1>10. ListsOK'
    <2>1. \A r \in toResend : r.event \in Events
        BY <1>1 DEF TypeOK
    <2> QED
        BY <1>1, <1>2, <1>4, <2>1 DEF ListsOK, row, turn
<1>11. CountsOK'
    BY <1>1, <1>2, CountsKept DEF row, turn
<1> QED
    BY <1>6, <1>7, <1>8, <1>9, <1>10, <1>11 DEF IInv

(* The sweep gives a message up under disk pressure.                       *)
LEMMA SweepBlocksInv ==
    ASSUME IInv, NEW e \in Events, SweepBlocks(e)
    PROVE  IInv'
<1>1. /\ at[Sweep] = "idle" /\ e \in toRetry /\ processing[e] = "failed"
      /\ at[e] = "idle"
      /\ TypeOK /\ RowsOK /\ DispatchesOK /\ WorkersOK /\ ListsOK /\ CountsOK
    BY DEF IInv, ListsOK, DispatchesOK, DispatchOK, SweepBlocks, Take
<1>2. /\ toRetry' = toRetry \ {e}
      /\ stored' = [stored EXCEPT ![e] = FALSE]
      /\ processing' = [processing EXCEPT ![e] = "processed"]
      /\ UNCHANGED <<delivery, attempts, sends, retryAfter, count, at, next,
                     current, toResend, turn, posted, lost, bounds>>
    BY DEF SweepBlocks, Take, MarkProcessed
<1>3. answered[e] = 0 /\ delivery[e] = "pending"
    BY <1>1, Unanswered
<1>4. TypeOK'
    BY <1>1, <1>2 DEF TypeOK, turn, bounds, Statuses
<1>5. RowsOK'
    BY <1>1, <1>2, <1>3 DEF TypeOK, RowsOK, RowOK, turn
<1>6. DispatchesOK'
    BY <1>1, <1>2, <1>3 DEF TypeOK, DispatchesOK, DispatchOK
<1>7. WorkersOK'
    <2>1. ASSUME NEW v \in Workers PROVE WorkerOK(v)'
        <3>1. at[v] \notin {"idle", "consumed"} =>
                EventOf(v) \in Events /\ EventOf(v) # e
            BY <1>1, HandsApart
        <3>2. at[v] \notin {"idle", "consumed"} => Kept(EventOf(v))
            BY <1>1, <1>2, <3>1 DEF TypeOK, Kept, turn
        <3> QED
            BY <1>1, <1>2, <2>1, <3>2, KeptWorker DEF WorkersOK, EventOf
    <2> QED
        BY <2>1 DEF WorkersOK
<1>8. SweepOK'
    BY <1>1, <1>2 DEF SweepOK
<1>9. ListsOK'
    BY <1>1, <1>2 DEF TypeOK, ListsOK, turn
<1>10. CountsOK'
    BY <1>1, <1>2, CountsKept DEF turn
<1> QED
    BY <1>4, <1>5, <1>6, <1>7, <1>8, <1>9, <1>10 DEF IInv

(* The sweep sends on a reply whose delivery failed.                       *)
LEMMA SweepResendsInv ==
    ASSUME IInv, NEW r \in toResend, SweepResends(r)
    PROVE  IInv'
<1>1. PICK e \in Events : r.event = e
    BY DEF IInv, TypeOK
<1>2. /\ at[Sweep] = "idle" /\ toRetry = {} /\ Sweep \in Workers /\ e # Sweep
      /\ answered[e] = 1 /\ at[e] = "idle" /\ r.from = count[e]
      /\ sends[e] < MaxAttempts
      /\ TypeOK /\ RowsOK /\ DispatchesOK /\ WorkersOK /\ ListsOK /\ CountsOK
    BY <1>1, ChannelDeliveryAssumption DEF IInv, ListsOK, SweepResends, Workers
<1>3. /\ toResend' = toResend \ {r}
      /\ current' = e
      /\ next' = [next EXCEPT ![Sweep] = count[e]]
      /\ at' = [at EXCEPT ![Sweep] = "sending"]
      /\ UNCHANGED <<row, turn, toRetry, posted, lost, bounds>>
    BY <1>1, <1>2 DEF SweepResends, Goto
<1>4. ASSUME NEW q \in toResend \ {r} PROVE q.event # e
    <2>1. q \in [event : Events, from : 0..MaxSegments]
          /\ r \in [event : Events, from : 0..MaxSegments]
        BY <1>2 DEF TypeOK
    <2>2. q.from = count[q.event]
        BY <1>2 DEF ListsOK
    <2>3. q.event = r.event /\ q.from = r.from => q = r
        BY <2>1
    <2> QED
        BY <1>1, <1>2, <2>2, <2>3
<1>5. \A f \in Events : at'[f] = at[f] /\ next'[f] = next[f]
    BY <1>2, <1>3, ChannelDeliveryAssumption DEF TypeOK, Workers
<1>6. at'[Sweep] = "sending" /\ next'[Sweep] = count[e]
    BY <1>2, <1>3 DEF TypeOK
<1>7. TypeOK'
    <2>1. count[e] \in 0..MaxSegments
        BY <1>2 DEF TypeOK
    <2> QED
        BY <1>2, <1>3, <2>1 DEF TypeOK, row, turn, bounds, Places
<1>8. RowsOK' /\ DispatchesOK'
    BY <1>2, <1>3, <1>5 DEF RowsOK, RowOK, DispatchesOK, DispatchOK, row, turn
<1>9. WorkersOK'
    <2>1. ASSUME NEW v \in Events PROVE WorkerOK(v)'
        <3>1. v \in Workers /\ EventOf(v) = v /\ EventOf(v)' = v
            BY ChannelDeliveryAssumption DEF Workers, EventOf
        <3>2. WorkerOK(v)
            BY <1>2, <3>1 DEF WorkersOK
        <3>3. Kept(v)
            BY <1>3 DEF Kept, row, turn
        <3> QED
            BY <1>5, <3>1, <3>2, <3>3, KeptWorker
    <2>2. WorkerOK(Sweep)'
        BY <1>2, <1>3, <1>6 DEF WorkerOK, EventOf, row, turn
    <2> QED
        BY <2>1, <2>2 DEF WorkersOK, Workers
<1>10. SweepOK'
    <2>1. processing[e] # "none"
        BY <1>2 DEF RowsOK, RowOK
    <2> QED
        BY <1>2, <1>3, <1>4, <1>5, <1>6, <2>1 DEF SweepOK, row
<1>11. ListsOK'
    <2>1. \A q \in toResend : q.event \in Events
        BY <1>2 DEF TypeOK
    <2> QED
        BY <1>2, <1>3, <1>5, <2>1 DEF ListsOK, row, turn
<1>12. CountsOK'
    BY <1>2, <1>3, CountsKept DEF row, turn
<1> QED
    BY <1>7, <1>8, <1>9, <1>10, <1>11, <1>12 DEF IInv

(* The channel acknowledges a reply.  That the last segment was shown      *)
(* means all of them were: nothing is shown beyond the first segment that  *)
(* is not counted.                                                         *)
LEMMA AcknowledgeInv ==
    ASSUME IInv, NEW e \in Events, Acknowledge(e)
    PROVE  IInv'
<1>1. /\ delivery' = [delivery EXCEPT ![e] = "delivered"]
      /\ retryAfter' = [retryAfter EXCEPT ![e] = "none"]
      /\ UNCHANGED <<processing, attempts, sends, stored, count, turn, at, next,
                     sweep, posted, lost, bounds>>
      /\ TypeOK /\ RowsOK /\ DispatchesOK /\ WorkersOK /\ SweepOK /\ ListsOK
      /\ CountsOK
    BY DEF Acknowledge, MarkDelivered, IInv
<1>2. PICK i \in DOMAIN posted[e] : posted[e][i].segment = reply[e]
    BY DEF Acknowledge
<1>3. CountOK(e) /\ count[e] \in Nat /\ reply[e] \in Nat
    BY <1>1, ChannelDeliveryAssumption DEF CountsOK, TypeOK
<1>4. answered[e] = 1
    <2>1. posted[e] # <<>>
        BY <1>2
    <2>2. answered[e] \in Nat /\ answered[e] <= 1
        BY <1>1 DEF TypeOK, RowsOK, RowOK
    <2> QED
        BY <1>3, <2>1, <2>2 DEF CountOK
<1>5. \A s \in 1..reply[e] : IsShown(e, s)
    <2>1. reply[e] <= count[e] + 1
        BY <1>2, <1>3 DEF CountOK
    <2>2. \A s \in 1..reply[e] : s \in 1..count[e] \/ s = reply[e]
        BY <1>3, <2>1
    <2>3. IsShown(e, reply[e])
        BY <1>2 DEF IsShown
    <2> QED
        BY <1>3, <2>2, <2>3 DEF CountOK
<1>6. TypeOK'
    BY <1>1 DEF TypeOK, turn, sweep, bounds
<1>7. RowsOK'
    BY <1>1, <1>4 DEF TypeOK, RowsOK, RowOK, turn
<1>8. DispatchesOK'
    BY <1>1 DEF TypeOK, DispatchesOK, DispatchOK
<1>9. WorkersOK'
    BY <1>1 DEF WorkersOK, WorkerOK, EventOf, turn, sweep
<1>10. SweepOK' /\ ListsOK'
    BY <1>1 DEF SweepOK, ListsOK, turn, sweep
<1>11. CountsOK'
    <2>1. ASSUME NEW f \in Events \ {e} PROVE (CountOK(f) /\ OrderOK(f))'
        BY <1>1, <2>1, KeptCount DEF CountsOK, TypeOK, turn
    <2>2. CountOK(e)'
        <3>1. \A s : IsShown(e, s)' <=> IsShown(e, s)
            BY <1>1, KeptShown
        <3> QED
            BY <1>1, <1>3, <1>5, <3>1 DEF CountOK, turn
    <2>3. OrderOK(e)'
        BY <1>1 DEF CountsOK, OrderOK
    <2> QED
        BY <2>1, <2>2, <2>3 DEF CountsOK
<1> QED
    BY <1>6, <1>7, <1>8, <1>9, <1>10, <1>11 DEF IInv

(* An operator replays a dead letter.                                      *)
LEMMA ReplayInv ==
    ASSUME IInv, NEW e \in Events, Replay(e)
    PROVE  IInv'
<1>1. /\ replaysLeft' = replaysLeft - 1 /\ replaysLeft > 0
      /\ retryAfter' = [retryAfter EXCEPT ![e] = "due"]
      /\ UNCHANGED <<stored, count, turn, at, next, sweep, posted, lost, crashesLeft>>
      /\ TypeOK /\ RowsOK /\ DispatchesOK /\ WorkersOK /\ SweepOK /\ ListsOK
      /\ CountsOK
    BY DEF Replay, IInv
<1>2. 0 \in 0..MaxAttempts /\ 0 < MaxAttempts
    BY ChannelDeliveryAssumption
<1>3. replaysLeft' \in 0..MaxReplays
    BY <1>1, ChannelDeliveryAssumption DEF TypeOK
<1>4. CASE /\ processing[e] = "dead_letter"
           /\ processing' = [processing EXCEPT ![e] = "failed"]
           /\ attempts' = [attempts EXCEPT ![e] = 0]
           /\ UNCHANGED <<delivery, sends>>
    <2>1. answered[e] = 0 /\ e \notin toRetry
          /\ (at[Sweep] # "idle" => current # e)
        BY <1>4, Unanswered
    <2>2. at[e] = "idle" /\ stored[e]
        BY <1>1, <1>4 DEF DispatchesOK, DispatchOK, RowsOK, RowOK
    <2>3. TypeOK'
        BY <1>1, <1>2, <1>3, <1>4 DEF TypeOK, turn, sweep, Statuses
    <2>4. RowsOK'
        BY <1>1, <1>2, <1>4, <2>1, <2>2 DEF TypeOK, RowsOK, RowOK, turn
    <2>5. DispatchesOK'
        BY <1>1, <1>4, <2>2 DEF TypeOK, DispatchesOK, DispatchOK
    <2>6. WorkersOK'
        <3>1. ASSUME NEW v \in Workers PROVE WorkerOK(v)'
            <4>1. at[v] \notin {"idle", "consumed"} =>
                    EventOf(v) \in Events /\ EventOf(v) # e
                BY <1>1, <2>1, <2>2, HandsApart DEF EventOf
            <4>2. at[v] \notin {"idle", "consumed"} => Kept(EventOf(v))
                BY <1>1, <1>4, <4>1 DEF TypeOK, Kept, turn
            <4> QED
                BY <1>1, <3>1, <4>2, KeptWorker DEF WorkersOK, EventOf, sweep
        <3> QED
            BY <3>1 DEF WorkersOK
    <2>7. SweepOK'
        BY <1>1, <1>4, <2>1 DEF TypeOK, SweepOK, sweep
    <2>8. ListsOK'
        BY <1>1, <1>4 DEF TypeOK, ListsOK, sweep, turn
    <2>9. CountsOK'
        BY <1>1, <1>4, CountsKept DEF turn
    <2> QED
        BY <2>3, <2>4, <2>5, <2>6, <2>7, <2>8, <2>9 DEF IInv
<1>5. CASE /\ processing[e] = "processed" /\ delivery[e] = "dead_letter"
           /\ delivery' = [delivery EXCEPT ![e] = "failed"]
           /\ sends' = [sends EXCEPT ![e] = 0]
           /\ UNCHANGED <<processing, attempts>>
    <2>1. TypeOK'
        BY <1>1, <1>2, <1>3, <1>5 DEF TypeOK, turn, sweep
    <2>2. RowsOK'
        BY <1>1, <1>2, <1>5 DEF TypeOK, RowsOK, RowOK, turn
    <2>3. DispatchesOK'
        BY <1>1, <1>5 DEF TypeOK, DispatchesOK, DispatchOK
    <2>4. \A f \in Events : sends[f] < MaxAttempts => sends'[f] < MaxAttempts
        BY <1>1, <1>2, <1>5 DEF TypeOK
    <2>5. WorkersOK'
        <3>1. ASSUME NEW v \in Workers PROVE WorkerOK(v)'
            <4>1. at[v] \notin {"idle", "consumed"} => EventOf(v) \in Events
                BY HandsApart
            <4>2. EventOf(v)' = EventOf(v)
                BY <1>1 DEF EventOf, sweep
            <4> QED
                BY <1>1, <1>5, <2>4, <4>1, <4>2 DEF WorkersOK, WorkerOK, turn
        <3> QED
            BY <3>1 DEF WorkersOK
    <2>6. SweepOK'
        BY <1>1, <1>5 DEF SweepOK, sweep
    <2>7. ListsOK'
        BY <1>1, <1>5, <2>4 DEF TypeOK, ListsOK, sweep, turn
    <2>8. CountsOK'
        <3>1. \A f \in Events : delivery'[f] = "delivered" => delivery[f] = "delivered"
            BY <1>1, <1>5 DEF TypeOK
        <3> QED
            BY <1>1, <3>1, CountsKept DEF turn
    <2> QED
        BY <2>1, <2>2, <2>3, <2>5, <2>6, <2>7, <2>8 DEF IInv
<1> QED
    BY <1>4, <1>5 DEF Replay

(* The daemon crashes and starts again.                                    *)
LEMMA CrashInv ==
    ASSUME IInv, Crash
    PROVE  IInv'
<1>1. /\ crashesLeft > 0 /\ crashesLeft' = crashesLeft - 1
      /\ at' = [w \in Workers |-> IF at[w] = "consumed" THEN "consumed" ELSE "idle"]
      /\ next' = [w \in Workers |-> 0]
      /\ toRetry' = {} /\ toResend' = {} /\ current' = None
      /\ UNCHANGED <<row, turn, posted, replaysLeft>>
      /\ TypeOK /\ RowsOK /\ DispatchesOK /\ SweepOK /\ CountsOK
    BY DEF Crash, IInv
<1>2. TypeOK'
    <2>1. lost' \subseteq Events
        <3>1. \A w \in Workers : at[w] \notin {"idle", "consumed"} => EventOf(w) \in Events
            BY HandsApart
        <3> QED
            BY <1>1, <3>1 DEF Crash, TypeOK
    <2>2. crashesLeft' \in 0..MaxCrashes /\ next' \in [Workers -> 0..MaxSegments]
        BY <1>1, ChannelDeliveryAssumption DEF TypeOK
    <2> QED
        BY <1>1, <2>1, <2>2 DEF TypeOK, row, turn, Places
<1>3. RowsOK'
    BY <1>1 DEF RowsOK, RowOK, row, turn
<1>4. DispatchesOK'
    BY <1>1 DEF DispatchesOK, DispatchOK, row, Workers
<1>5. WorkersOK'
    BY <1>1 DEF WorkersOK, WorkerOK
<1>6. SweepOK'
    BY <1>1 DEF SweepOK, Workers
<1>7. ListsOK'
    BY <1>1 DEF ListsOK
<1>8. CountsOK'
    BY <1>1, CountsKept DEF row, turn
<1> QED
    BY <1>2, <1>3, <1>4, <1>5, <1>6, <1>7, <1>8 DEF IInv

-----------------------------------------------------------------------------
(* The invariant holds in every state.                                     *)

LEMMA InitInv == Init => IInv
<1> SUFFICES ASSUME Init PROVE IInv
    OBVIOUS
<1>1. TypeOK
    <2>1. posted \in [Events -> Seq([segment : 1..MaxSegments, heard : BOOLEAN])]
        BY DEF Init
    <2> QED
        BY <2>1, ChannelDeliveryAssumption DEF Init, TypeOK, Statuses, Places
<1>2. RowsOK /\ DispatchesOK
    BY ChannelDeliveryAssumption
    DEF Init, RowsOK, RowOK, DispatchesOK, DispatchOK, Workers
<1>3. WorkersOK /\ SweepOK /\ ListsOK
    BY DEF Init, WorkersOK, WorkerOK, SweepOK, ListsOK, Workers
<1>4. CountsOK
    <2>1. ASSUME NEW e \in Events PROVE CountOK(e) /\ OrderOK(e)
        <3>1. /\ posted[e] = <<>> /\ count[e] = 0 /\ reply[e] = 0
              /\ answered[e] = 0 /\ delivery[e] = "pending"
            BY DEF Init
        <3>2. DOMAIN posted[e] = {}
            BY <3>1
        <3> QED
            BY <3>1, <3>2 DEF CountOK, OrderOK
    <2> QED
        BY <2>1 DEF CountsOK
<1> QED
    BY <1>1, <1>2, <1>3, <1>4 DEF IInv

LEMMA StutterInv ==
    ASSUME IInv, UNCHANGED vars
    PROVE  IInv'
<1>1. UNCHANGED <<processing, delivery, attempts, sends, retryAfter, stored, count,
                  reply, answered, at, next, toRetry, toResend, current, posted,
                  lost, replaysLeft, crashesLeft>>
    BY DEF vars, row, turn, sweep, bounds
<1>2. TypeOK' /\ RowsOK' /\ DispatchesOK'
    BY <1>1 DEF IInv, TypeOK, RowsOK, RowOK, DispatchesOK, DispatchOK
<1>3. WorkersOK' /\ SweepOK' /\ ListsOK'
    BY <1>1 DEF IInv, WorkersOK, WorkerOK, EventOf, SweepOK, ListsOK
<1>4. CountsOK'
    BY <1>1, CountsKept DEF IInv
<1> QED
    BY <1>2, <1>3, <1>4 DEF IInv

LEMMA NextInv ==
    ASSUME IInv, Next
    PROVE  IInv'
<1>1. ASSUME NEW e \in Events,
             \/ Receive(e) \/ Duplicate(e) \/ Block(e) \/ Consume(e) \/ Dispatch(e)
             \/ Elapse(e) \/ SweepRetries(e) \/ SweepBlocks(e)
             \/ Acknowledge(e) \/ Replay(e)
      PROVE  IInv'
    <2>1. CASE Duplicate(e)
        BY <2>1, StutterInv DEF Duplicate
    <2>2. CASE Block(e) \/ Consume(e) \/ Dispatch(e)
        BY <2>2, HandledInv DEF Handled
    <2> QED
        BY <1>1, <2>1, <2>2, ReceiveInv, ElapseInv, SweepRetriesInv, SweepBlocksInv,
           AcknowledgeInv, ReplayInv
<1>2. ASSUME NEW w \in Workers,
             \/ Begin(w) \/ Rejected(w) \/ Heard(w) \/ AllSent(w)
             \/ \E fatal \in BOOLEAN : TurnFails(w, fatal) \/ SendFails(w, fatal)
             \/ \E n \in 0..MaxSegments : TurnEnds(w, n)
             \/ \E shown \in BOOLEAN : Post(w, shown)
      PROVE  IInv'
    BY <1>2, BeginInv, TurnFailsInv, TurnEndsInv, PostInv, HeardInv, SendFailsInv,
       AllSentInv
<1> QED
    BY <1>1, <1>2, SweepResendsInv, SweepStartsInv, CrashInv DEF Next

THEOREM Invariance == Spec => []IInv
<1>1. IInv /\ [Next]_vars => IInv'
    BY NextInv, StutterInv
<1> QED
    BY InitInv, <1>1, PTL DEF Spec

-----------------------------------------------------------------------------
(* What it gives.                                                          *)

(* Rows, workers and the sweep's lists stay well formed; no row is tried   *)
(* or sent more than RETRY_MAX_ATTEMPTS times (recordProcessingFailure,    *)
(* recordDeliveryFailure).                                                 *)
THEOREM TypeCorrect == Spec => []TypeOK
<1>1. IInv => TypeOK
    BY DEF IInv
<1> QED
    BY Invariance, <1>1, PTL

(* However often a channel sends a message again, and through retries,     *)
(* replays and crashes, at most one of its turns ends well (recordInbound, *)
(* markProcessed).                                                         *)
THEOREM AnsweredOnce == Spec => []OneAnswer
<1>1. IInv => OneAnswer
    BY DEF IInv, RowsOK, RowOK, OneAnswer
<1> QED
    BY Invariance, <1>1, PTL

(* The sweep, which goes by lists it read some turns ago, never works on a *)
(* message its dispatch has in hand (sweepFailedEvents).                   *)
THEOREM OneWorkerAlways == Spec => []OneWorker
<1>1. IInv => OneWorker
    BY DEF IInv, SweepOK, OneWorker
<1> QED
    BY Invariance, <1>1, PTL

(* A channel shows the segments of a reply in order and without gaps,      *)
(* wherever a delivery was cut off and taken up again (startFromSegment).  *)
THEOREM ShownInOrder == Spec => []InOrder
<1>1. IInv => InOrder
    BY DEF IInv, CountsOK, OrderOK, InOrder
<1> QED
    BY Invariance, <1>1, PTL

(* A segment the assistant has heard of is never shown again               *)
(* (updateDeliveredSegmentCount).                                          *)
THEOREM NeverShownAgain == Spec => []NotShownAgain
<1>1. IInv => NotShownAgain
    BY DEF IInv, CountsOK, OrderOK, NotShownAgain
<1> QED
    BY Invariance, <1>1, PTL

(* A reply marked delivered, by the sender or by the channel, has been     *)
(* shown to its last segment (markDelivered, acknowledgeDelivery).         *)
THEOREM DeliveredWasShown == Spec => []DeliveredIsShown
<1>1. IInv => DeliveredIsShown
    BY DEF IInv, CountsOK, CountOK, IsShown, DeliveredIsShown
<1> QED
    BY Invariance, <1>1, PTL

(* What waits for a retry or a replay still has its payload (storePayload, *)
(* clearPayload).                                                          *)
THEOREM AlwaysReplayable == Spec => []Replayable
<1>1. IInv => Replayable
    BY DEF IInv, TypeOK, RowsOK, RowOK, Replayable
<1> QED
    BY Invariance, <1>1, PTL

=============================================================================
