----------------------- MODULE ConversationTurnProofs -----------------------
(* Theorems about ConversationTurn for any number of messages, any shapes, *)
(* any outcomes of the writes and any controls: types, the flag and its    *)
(* holder, the places of every message, the bytes of the queue, and one    *)
(* outcome for each message.                                               *)
EXTENDS ConversationTurn, SequenceTheorems, WellFoundedInduction, TLAPS

(* FlagHasHolder is not inductive: a turn that finds no controller dies    *)
(* without clearing the flag, and only SlashBacksFlag knows that somebody  *)
(* else then holds it.  HandsFull gives every step its current message.    *)
IInv == TypeOK /\ HandsFull /\ FlagHasHolder /\ SlashBacksFlag

(* Taking one message out of the queue leaves a sequence of messages.      *)
LEMMA SubSeqType ==
    ASSUME NEW S, NEW q \in Seq(S), NEW i \in 1 .. Len(q) + 1, NEW j \in 0 .. Len(q)
    PROVE  SubSeq(q, i, j) \in Seq(S)
<1>1. \A k \in i .. j : q[k] \in S
    BY ElementOfSeq, LenProperties
<1> QED
    BY <1>1, SubSeqProperties, LenProperties

LEMMA RemoveFromType ==
    ASSUME NEW q \in Seq(Msgs), NEW i \in 1 .. Len(q)
    PROVE  RemoveFrom(q, i) \in Seq(Msgs)
<1>0. Len(q) \in Nat
    BY LenProperties
<1>1. SubSeq(q, 1, i - 1) \in Seq(Msgs)
    BY <1>0, SubSeqType
<1>2. SubSeq(q, i + 1, Len(q)) \in Seq(Msgs)
    BY <1>0, SubSeqType
<1> QED
    BY <1>1, <1>2, ConcatProperties DEF RemoveFrom

(* The current message of a chain is a message, and the rest a sequence.   *)
LEMMA CurType ==
    ASSUME ChainsOK, HandsFull, NEW t \in Msgs, pc[t] \in WithWork
    PROVE  /\ Cur(t) \in Msgs
           /\ Rest(t) \in Seq(Msgs)
<1>1. work[t] \in Seq(Msgs) /\ work[t] # <<>>
    BY DEF ChainsOK, HandsFull
<1> QED
    BY <1>1, HeadTailProperties DEF Cur, Rest

(* Popping the history leaves a sequence of messages.                      *)
LEMMA PopType ==
    ASSUME history \in Seq(Msgs), PopHistory
    PROVE  history' \in Seq(Msgs)
<1>1. CASE history = <<>>
    BY <1>1, SubSeqEmpty, EmptySeq DEF PopHistory
<1>2. CASE history # <<>>
    BY <1>2, EmptySeq, SubSeqType DEF PopHistory
<1> QED
    BY <1>1, <1>2

(* Telling clients an outcome keeps the type of status.                    *)
LEMMA TellingType ==
    ASSUME NEW st \in [Msgs -> Statuses], NEW S, NEW s \in Statuses
    PROVE  Telling(st, S, s) \in [Msgs -> Statuses]
BY DEF Telling

(* No turn is no message, and so is never the turn of one.                 *)
LEMMA NoneIsNoMsg == None \notin Msgs
BY NAssumption DEF Msgs, None

(* Initially nothing runs and nothing is held.                             *)
LEMMA InitInv == Init => IInv
<1> SUFFICES ASSUME Init PROVE IInv
    OBVIOUS
<1>1. MessagesOK
    BY NAssumption DEF Init, MessagesOK, Statuses
<1>2. SequencesOK /\ FlagsOK
    BY EmptySeq DEF Init, SequencesOK, FlagsOK
<1>3. ChainsOK
    BY EmptySeq DEF Init, ChainsOK, PCs, Modes
<1>4. HandsFull
    BY DEF Init, HandsFull, WithWork, PCs
<1> QED
    BY <1>1, <1>2, <1>3, <1>4 DEF Init, IInv, TypeOK, FlagHasHolder, SlashBacksFlag

(* What a step leaves alone keeps its type.                                *)
LEMMA MessagesStay ==
    ASSUME MessagesOK, UNCHANGED <<shape, posted, status, aborted, promoted, rows>>
    PROVE  MessagesOK'
BY DEF MessagesOK

LEMMA ChainsStay ==
    ASSUME ChainsOK, HandsFull, UNCHANGED chains
    PROVE  ChainsOK' /\ HandsFull'
BY DEF ChainsOK, HandsFull, chains

LEMMA HoldersStay ==
    ASSUME FlagHasHolder, SlashBacksFlag, UNCHANGED <<processing, controller, pc>>
    PROVE  FlagHasHolder' /\ SlashBacksFlag'
BY DEF FlagHasHolder, SlashBacksFlag, HoldsFlag, HoldsTurn, HoldsSlash

(* POST keeps the invariant.                                               *)
LEMMA PostInv == ASSUME IInv, Post PROVE IInv'
<1> DEFINE m == posted + 1
<1> USE DEF IInv, TypeOK
<1>0. m \in Msgs /\ m \in 0 .. N
    BY NAssumption DEF Post, MessagesOK, Msgs
<1>1. MessagesOK'
    BY <1>0, TellingType DEF Post, PostQueued, PostRejected, PostIdle, MessagesOK,
                             Settle, Statuses, Settled, backlog
<1>2. SequencesOK'
    BY <1>0, AppendProperties DEF Post, PostQueued, PostRejected, PostIdle,
                                  SequencesOK, Enqueue, backlog
<1>3. FlagsOK'
    BY DEF Post, PostQueued, PostRejected, PostIdle, FlagsOK, flags, backlog
<1>4. ChainsOK' /\ HandsFull'
    <2>1. CASE UNCHANGED chains
        BY <2>1, ChainsStay
    <2>2. CASE PostIdle(m)
        <3>1. <<m>> \in Seq(Msgs) /\ <<m>> # <<>>
            BY <1>0
        <3> QED
            BY <1>0, <2>2, <3>1 DEF PostIdle, ChainsOK, HandsFull, Goto, PCs, Modes
    <2> QED
        BY <2>1, <2>2 DEF Post, PostQueued, PostRejected
<1>5. FlagHasHolder' /\ SlashBacksFlag'
    <2>1. CASE UNCHANGED chains
        BY <2>1, HoldersStay DEF Post, flags, chains
    <2>2. CASE PostIdle(m)
        BY <2>2 DEF Post, PostIdle, FlagHasHolder, SlashBacksFlag, flags
    <2> QED
        BY <2>1, <2>2 DEF Post, PostQueued, PostRejected
<1> QED
    BY <1>1, <1>2, <1>3, <1>4, <1>5

(* A step that gives chain t another pc, and no flag to anybody, keeps the *)
(* flag backed when t does not hold it.                                    *)
LEMMA BystanderMoves ==
    ASSUME FlagHasHolder, SlashBacksFlag, ChainsOK,
           NEW t \in Msgs, ~HoldsFlag(t), NEW p, Goto(t, p),
           UNCHANGED <<processing, controller>>
    PROVE  FlagHasHolder' /\ SlashBacksFlag'
BY DEF FlagHasHolder, SlashBacksFlag, ChainsOK, HoldsFlag, HoldsTurn, HoldsSlash, Goto

(* The turn of t may move on to p when p also holds the flag.              *)
LEMMA TurnMoves ==
    ASSUME FlagHasHolder, SlashBacksFlag, ChainsOK,
           NEW t \in Msgs, HoldsTurn(t),
           NEW p \in {"persist", "tailResolve", "tailPersist", "loop", "commit"},
           Goto(t, p), UNCHANGED <<processing, controller>>
    PROVE  FlagHasHolder' /\ SlashBacksFlag'
BY DEF FlagHasHolder, SlashBacksFlag, ChainsOK, HoldsFlag, HoldsTurn, HoldsSlash, Goto

(* The turn of t may even die, when there is no controller: the flag is    *)
(* that of somebody else's slash command.                                  *)
LEMMA TurnDies ==
    ASSUME FlagHasHolder, SlashBacksFlag, ChainsOK,
           NEW t \in Msgs, HoldsTurn(t), controller = None,
           Goto(t, "none"), UNCHANGED <<processing, controller>>
    PROVE  FlagHasHolder' /\ SlashBacksFlag'
BY DEF FlagHasHolder, SlashBacksFlag, ChainsOK, HoldsFlag, HoldsTurn, HoldsSlash, Goto

(* A finished head leaves the chain well formed.                           *)
LEMMA MoveOnInv ==
    ASSUME ChainsOK, HandsFull, NEW t \in Msgs, pc[t] \in WithWork, MoveOn(t)
    PROVE  /\ ChainsOK' /\ HandsFull'
           /\ Goto(t, Resume(t))
           /\ Resume(t) \in {"none", "drain", "resolve"}
<1>1. Rest(t) \in Seq(Msgs)
    BY CurType
<1>2. Resume(t) \in {"none", "drain", "resolve"} /\ (Resume(t) = "resolve" => Rest(t) # <<>>)
    BY DEF Resume
<1>3. Goto(t, Resume(t))
    BY DEF MoveOn
<1>4. ChainsOK'
    BY <1>1, <1>2 DEF MoveOn, ChainsOK, Goto, PCs, Modes
<1>5. HandsFull'
    BY <1>2 DEF MoveOn, ChainsOK, HandsFull, Goto, WithWork, PCs
<1> QED
    BY <1>2, <1>3, <1>4, <1>5

(* Entering the agent loop, or dying before it.                            *)
LEMMA RunAgentLoopInv ==
    ASSUME IInv, NEW t \in Msgs, HoldsTurn(t),
           NEW members \in Seq(Msgs), members # <<>>,
           NEW told \in [Msgs -> Statuses],
           RunAgentLoop(t, members, told), UNCHANGED steerRepair
    PROVE  /\ ChainsOK' /\ HandsFull' /\ FlagsOK'
           /\ FlagHasHolder' /\ SlashBacksFlag'
           /\ status' \in [Msgs -> Statuses]
<1> USE DEF IInv, TypeOK
<1> DEFINE req == TurnRequest(t, members)
<1>1. req \in Msgs \cup {None}
    <2>1. Last(members) \in Msgs
        BY LenProperties, ElementOfSeq, EmptySeq DEF Last
    <2> QED
        BY <2>1 DEF TurnRequest, FlagsOK
<1>2. FlagsOK'
    BY <1>1 DEF RunAgentLoop, FlagsOK
<1>3. status' \in [Msgs -> Statuses]
    BY TellingType DEF RunAgentLoop, Statuses, Settled
<1>4. CASE controller # None
    <2> HIDE DEF req
    <2>a. /\ work' = [work EXCEPT ![t] = <<>>]
          /\ pc' = [pc EXCEPT ![t] = "loop"]
          /\ mode' = mode
          /\ done' = [done EXCEPT ![t] = members]
          /\ ctl' = [ctl EXCEPT ![t] = controller]
          /\ reqId' = [reqId EXCEPT ![t] = req]
        BY <1>4 DEF RunAgentLoop, Goto, req
    <2>b. controller \in Msgs \cup {None} /\ <<>> \in Seq(Msgs) /\ "loop" \in PCs
        BY EmptySeq DEF FlagsOK, PCs
    <2>1. ChainsOK'
        BY <1>1, <2>a, <2>b DEF ChainsOK
    <2>2. HandsFull'
        BY <1>4 DEF RunAgentLoop, ChainsOK, HandsFull, Goto, WithWork, PCs
    <2> QED
        BY <1>2, <1>3, <1>4, <2>1, <2>2, TurnMoves DEF RunAgentLoop
<1>5. CASE controller = None
    <2>0. /\ Goto(t, "none")
          /\ work' = [work EXCEPT ![t] = <<>>]
          /\ done' = [done EXCEPT ![t] = <<>>]
          /\ UNCHANGED <<mode, ctl, reqId>>
        BY <1>5 DEF RunAgentLoop
    <2>1. ChainsOK'
        BY <2>0, EmptySeq DEF ChainsOK, Goto, PCs
    <2>2. HandsFull'
        BY <1>5 DEF RunAgentLoop, ChainsOK, HandsFull, Goto, WithWork, PCs
    <2> QED
        BY <1>2, <1>3, <1>5, <2>1, <2>2, TurnDies DEF RunAgentLoop
<1> QED
    BY <1>4, <1>5

(* The next tail of a batch, or the agent loop.                            *)
LEMMA NextInBatchInv ==
    ASSUME IInv, NEW t \in Msgs, pc[t] \in {"persist", "tailPersist"},
           NEW members \in Seq(Msgs), members # <<>>,
           NEW told \in [Msgs -> Statuses], NEW stop,
           NextInBatch(t, members, stop, told), UNCHANGED steerRepair
    PROVE  /\ ChainsOK' /\ HandsFull' /\ FlagsOK'
           /\ FlagHasHolder' /\ SlashBacksFlag'
           /\ status' \in [Msgs -> Statuses]
<1> USE DEF IInv, TypeOK
<1>1. HoldsTurn(t) /\ pc[t] \in WithWork
    BY DEF HoldsTurn, WithWork, PCs
<1>2. Rest(t) \in Seq(Msgs)
    BY <1>1, CurType
<1>3. CASE RunAgentLoop(t, members, told)
    BY <1>1, <1>3, RunAgentLoopInv
<1>4. CASE ~RunAgentLoop(t, members, told)
    <2>1. /\ Rest(t) # <<>> /\ Goto(t, "tailResolve")
          /\ work' = [work EXCEPT ![t] = Rest(t)]
          /\ done' = [done EXCEPT ![t] = members]
          /\ status' = told
          /\ UNCHANGED <<mode, ctl, reqId, flags>>
        BY <1>4 DEF NextInBatch
    <2>2. ChainsOK'
        BY <1>2, <2>1 DEF ChainsOK, Goto, PCs
    <2>3. HandsFull'
        BY <2>1 DEF ChainsOK, HandsFull, Goto, WithWork, PCs
    <2>4. FlagsOK'
        BY <2>1 DEF FlagsOK, flags
    <2>5. FlagHasHolder' /\ SlashBacksFlag'
        BY <1>1, <2>1, TurnMoves DEF flags
    <2> QED
        BY <2>1, <2>2, <2>3, <2>4, <2>5
<1> QED
    BY <1>3, <1>4

(* The head of the work: refused, or the first message of a turn.          *)
LEMMA ResolveTextInv ==
    ASSUME IInv, NEW t \in Msgs, ResolveText(t)
    PROVE  IInv'
<1> USE DEF IInv, TypeOK
<1>0. pc[t] = "resolve" /\ pc[t] \in WithWork /\ ~HoldsFlag(t)
    BY DEF ResolveText, WithWork, PCs, HoldsFlag, HoldsTurn, HoldsSlash
<1>1. Cur(t) \in Msgs
    BY <1>0, CurType
<1>2. CASE RefuseHead(t)
    <2>1. ChainsOK' /\ HandsFull' /\ Goto(t, Resume(t))
        BY <1>0, <1>2, MoveOnInv DEF RefuseHead
    <2>2. MessagesOK'
        BY <1>2, TellingType DEF ResolveText, RefuseHead, MessagesOK, Settle,
                                 Statuses, Settled, backlog
    <2>3. SequencesOK' /\ FlagsOK'
        BY <1>2 DEF ResolveText, RefuseHead, SequencesOK, FlagsOK, backlog, flags
    <2>4. FlagHasHolder' /\ SlashBacksFlag'
        BY <1>0, <1>2, <2>1, BystanderMoves DEF RefuseHead, flags
    <2> QED
        BY <2>1, <2>2, <2>3, <2>4
<1>3. CASE OpenTurn(t)
    <2>1. ChainsOK' /\ HandsFull'
        BY <1>0, <1>3 DEF OpenTurn, ChainsOK, HandsFull, Goto, PCs, WithWork
    <2>2. MessagesOK'
        BY <1>3, MessagesStay DEF ResolveText, OpenTurn, backlog
    <2>3. SequencesOK'
        BY <1>1, <1>3, AppendProperties DEF ResolveText, OpenTurn, SequencesOK, backlog
    <2>4. FlagsOK'
        BY <1>1, <1>3 DEF ResolveText, OpenTurn, FlagsOK, backlog
    <2>5. controller' # None
        BY <1>1, <1>3, NoneIsNoMsg DEF OpenTurn
    <2>6. HoldsFlag(t)'
        BY <1>3 DEF OpenTurn, Goto, ChainsOK, HoldsFlag, HoldsTurn
    <2> QED
        BY <2>1, <2>2, <2>3, <2>4, <2>5, <2>6 DEF FlagHasHolder, SlashBacksFlag
<1> QED
    BY <1>2, <1>3 DEF ResolveText

LEMMA PersistOkInv ==
    ASSUME IInv, NEW t \in Msgs, PersistOk(t)
    PROVE  IInv'
<1> USE DEF IInv, TypeOK
<1>1. Cur(t) \in Msgs
    BY CurType DEF PersistOk, WithWork, PCs
<1>2. <<Cur(t)>> \in Seq(Msgs) /\ <<Cur(t)>> # <<>>
    BY <1>1
<1>3. status \in [Msgs -> Statuses]
    BY DEF MessagesOK
<1>4. /\ ChainsOK' /\ HandsFull' /\ FlagsOK'
      /\ FlagHasHolder' /\ SlashBacksFlag'
      /\ status' \in [Msgs -> Statuses]
    BY <1>2, <1>3, NextInBatchInv DEF PersistOk, backlog
<1>5. MessagesOK' /\ SequencesOK'
    BY <1>1, <1>4 DEF PersistOk, MessagesOK, SequencesOK, backlog
<1> QED
    BY <1>4, <1>5

LEMMA PersistFailsInv ==
    ASSUME IInv, NEW t \in Msgs, NEW outcome, PersistFails(t, outcome)
    PROVE  IInv'
<1> USE DEF IInv, TypeOK
<1>1. ChainsOK' /\ HandsFull'
    BY MoveOnInv DEF PersistFails, WithWork, PCs
<1>2. MessagesOK'
    BY TellingType DEF PersistFails, MessagesOK, Settle, Statuses, Settled, backlog
<1>3. SequencesOK'
    BY PopType DEF PersistFails, SequencesOK, backlog
<1>4. FlagsOK' /\ FlagHasHolder' /\ SlashBacksFlag'
    BY DEF PersistFails, ClearTurn, FlagsOK, backlog, FlagHasHolder, SlashBacksFlag
<1> QED
    BY <1>1, <1>2, <1>3, <1>4

LEMMA HeadStepInv ==
    ASSUME IInv, NEW t \in Msgs, HeadStep(t)
    PROVE  IInv'
BY ResolveTextInv, PersistOkInv, PersistFailsInv DEF HeadStep

(* The tails of a batch.                                                   *)
LEMMA ResolveTailInv ==
    ASSUME IInv, NEW t \in Msgs, ResolveTail(t)
    PROVE  IInv'
<1> USE DEF IInv, TypeOK
<1>1. Cur(t) \in Msgs
    BY CurType DEF ResolveTail, WithWork, PCs
<1>2. ChainsOK' /\ HandsFull'
    BY DEF ResolveTail, ChainsOK, HandsFull, Goto, WithWork, PCs
<1>3. MessagesOK'
    BY MessagesStay DEF ResolveTail, backlog
<1>4. SequencesOK' /\ FlagsOK'
    BY <1>1, AppendProperties DEF ResolveTail, SequencesOK, FlagsOK, backlog, flags
<1>5. HoldsTurn(t)
    BY DEF ResolveTail, HoldsTurn
<1>6. FlagHasHolder' /\ SlashBacksFlag'
    BY <1>5, TurnMoves DEF ResolveTail, flags
<1> QED
    BY <1>2, <1>3, <1>4, <1>6

LEMMA TailOkInv ==
    ASSUME IInv, NEW t \in Msgs, TailOk(t)
    PROVE  IInv'
<1> USE DEF IInv, TypeOK
<1>1. Cur(t) \in Msgs
    BY CurType DEF TailOk, WithWork, PCs
<1>2. Append(done[t], Cur(t)) \in Seq(Msgs) /\ Append(done[t], Cur(t)) # <<>>
    <2>1. done[t] \in Seq(Msgs)
        BY DEF ChainsOK
    <2>2. Len(Append(done[t], Cur(t))) = Len(done[t]) + 1 /\ Len(done[t]) \in Nat
        BY <1>1, <2>1, AppendProperties, LenProperties
    <2> QED
        BY <1>1, <2>1, <2>2, AppendProperties, EmptySeq
<1>3. status \in [Msgs -> Statuses]
    BY DEF MessagesOK
<1>4. /\ ChainsOK' /\ HandsFull' /\ FlagsOK'
      /\ FlagHasHolder' /\ SlashBacksFlag'
      /\ status' \in [Msgs -> Statuses]
    BY <1>2, <1>3, NextInBatchInv DEF TailOk, backlog
<1>5. MessagesOK' /\ SequencesOK'
    BY <1>1, <1>4 DEF TailOk, MessagesOK, SequencesOK, backlog
<1> QED
    BY <1>4, <1>5

LEMMA TailFailsInv ==
    ASSUME IInv, NEW t \in Msgs, NEW outcome, TailFails(t, outcome)
    PROVE  IInv'
<1> USE DEF IInv, TypeOK
<1> DEFINE told == Telling(status, {Cur(t)},
                           IF outcome = "dup" THEN "duplicate" ELSE "failed")
<1>1. done[t] \in Seq(Msgs) /\ done[t] # <<>>
    BY DEF TailFails, ChainsOK, HandsFull
<1>2. told \in [Msgs -> Statuses]
    BY TellingType DEF MessagesOK, Statuses, Settled
<1>3. /\ ChainsOK' /\ HandsFull' /\ FlagsOK'
      /\ FlagHasHolder' /\ SlashBacksFlag'
      /\ status' \in [Msgs -> Statuses]
    <2>1. NextInBatch(t, done[t], FALSE, told) /\ pc[t] = "tailPersist" /\ UNCHANGED steerRepair
        BY DEF TailFails, backlog
    <2> HIDE DEF told
    <2> QED
        BY <1>1, <1>2, <2>1, NextInBatchInv
<1>4. MessagesOK'
    BY <1>3 DEF TailFails, MessagesOK, backlog
<1>5. SequencesOK'
    BY PopType DEF TailFails, SequencesOK, backlog
<1> QED
    BY <1>3, <1>4, <1>5

LEMMA TailStepInv ==
    ASSUME IInv, NEW t \in Msgs, TailStep(t)
    PROVE  IInv'
BY ResolveTailInv, TailOkInv, TailFailsInv DEF TailStep

(* The end of a turn.                                                      *)
LEMMA LoopEndsInv ==
    ASSUME IInv, NEW t \in Msgs, NEW a \in {"replied", "cancelled", "failed"},
           LoopEnds(t, a)
    PROVE  IInv'
<1> USE DEF IInv, TypeOK
<1>1. ChainsOK' /\ HandsFull'
    BY DEF LoopEnds, ChainsOK, HandsFull, Goto, WithWork, PCs
<1>2. MessagesOK'
    BY TellingType DEF LoopEnds, MessagesOK, Settle, Statuses, Settled, backlog
<1>3. SequencesOK' /\ FlagsOK'
    BY DEF LoopEnds, SequencesOK, FlagsOK, backlog, flags
<1>4. HoldsTurn(t)
    BY DEF LoopEnds, HoldsTurn
<1>5. FlagHasHolder' /\ SlashBacksFlag'
    BY <1>4, TurnMoves DEF LoopEnds, flags
<1> QED
    BY <1>1, <1>2, <1>3, <1>5

LEMMA TurnFinallyInv ==
    ASSUME IInv, NEW t \in Msgs, TurnFinally(t)
    PROVE  IInv'
<1> USE DEF IInv, TypeOK
<1>1. ChainsOK'
    BY EmptySeq DEF TurnFinally, ChainsOK, Goto, PCs
<1>2. HandsFull'
    BY DEF TurnFinally, ChainsOK, HandsFull, Goto, WithWork, PCs
<1>3. MessagesOK'
    BY MessagesStay DEF TurnFinally, backlog
<1>4. SequencesOK' /\ FlagsOK' /\ FlagHasHolder' /\ SlashBacksFlag'
    BY DEF TurnFinally, ClearTurn, SequencesOK, FlagsOK, FlagHasHolder,
           SlashBacksFlag, backlog
<1> QED
    BY <1>1, <1>2, <1>3, <1>4

LEMMA TurnStepInv ==
    ASSUME IInv, NEW t \in Msgs, TurnStep(t)
    PROVE  IInv'
BY LoopEndsInv, TurnFinallyInv DEF TurnStep

(* The drain.                                                              *)
LEMMA HandInv ==
    ASSUME ChainsOK, HandsFull, queue \in Seq(Msgs), queue # <<>>,
           NEW t \in Msgs, NEW n \in 1 .. Len(queue), Hand(t, n),
           UNCHANGED <<done, ctl, reqId>>
    PROVE  /\ ChainsOK' /\ HandsFull' /\ queue' \in Seq(Msgs)
           /\ Goto(t, "resolve")
<1>0. Len(queue) \in Nat /\ n \in Nat
    BY LenProperties
<1>1. /\ SubSeq(queue, 1, n) \in Seq(Msgs)
      /\ SubSeq(queue, n + 1, Len(queue)) \in Seq(Msgs)
    BY <1>0, SubSeqType
<1>2. SubSeq(queue, 1, n) # <<>>
    <2>1. Len(SubSeq(queue, 1, n)) = n
        BY <1>0, SubSeqProperties, ElementOfSeq
    <2> QED
        BY <1>0, <2>1, EmptySeq
<1>3. ChainsOK'
    BY <1>1 DEF Hand, ChainsOK, Goto, PCs, Modes
<1>4. HandsFull'
    BY <1>2 DEF Hand, ChainsOK, HandsFull, Goto, WithWork, PCs
<1> QED
    BY <1>1, <1>3, <1>4 DEF Hand

LEMMA DrainNothingInv ==
    ASSUME ChainsOK, HandsFull, NEW t \in Msgs, NEW p \in {"none", "shift"},
           Goto(t, p), UNCHANGED <<mode, work, done, ctl, reqId>>
    PROVE  ChainsOK' /\ HandsFull'
BY DEF ChainsOK, HandsFull, Goto, WithWork, PCs

LEMMA DrainQueueInv ==
    ASSUME IInv, NEW t \in Msgs, DrainQueue(t)
    PROVE  IInv'
<1> USE DEF IInv, TypeOK
<1>1. MessagesOK' /\ FlagsOK' /\ history' \in Seq(Msgs)
    BY MessagesStay DEF DrainQueue, FlagsOK, SequencesOK, flags
<1>2. queue \in Seq(Msgs) /\ ~HoldsFlag(t) /\ UNCHANGED <<done, ctl, reqId, processing, controller>>
    BY DEF DrainQueue, SequencesOK, HoldsFlag, HoldsTurn, HoldsSlash, flags
<1>3. CASE /\ UNCHANGED <<queue, mode, work>>
           /\ \E p \in {"none", "shift"} : Goto(t, p)
    BY <1>1, <1>2, <1>3, DrainNothingInv, BystanderMoves DEF SequencesOK
<1>4. CASE queue # <<>> /\ \E n \in 1 .. Len(queue) : Hand(t, n)
    BY <1>1, <1>2, <1>4, HandInv, BystanderMoves DEF SequencesOK
<1>5. queue # <<>> => 1 \in 1 .. Len(queue)
    BY <1>2, EmptySeq
<1>6. \A n \in 0 .. Len(queue) : n > 0 => n \in 1 .. Len(queue)
    BY <1>2, LenProperties
<1> QED
    BY <1>3, <1>4, <1>5, <1>6 DEF DrainQueue, DrainNothing

LEMMA DrainShiftInv ==
    ASSUME IInv, NEW t \in Msgs, DrainShift(t)
    PROVE  IInv'
<1> USE DEF IInv, TypeOK
<1>1. MessagesOK' /\ FlagsOK' /\ history' \in Seq(Msgs)
    BY MessagesStay DEF DrainShift, FlagsOK, SequencesOK, flags
<1>2. queue \in Seq(Msgs) /\ ~HoldsFlag(t) /\ UNCHANGED <<done, ctl, reqId, processing, controller>>
    BY DEF DrainShift, SequencesOK, HoldsFlag, HoldsTurn, HoldsSlash, flags
<1>3. CASE DrainNothing(t)
    BY <1>1, <1>2, <1>3, DrainNothingInv, BystanderMoves DEF DrainNothing, SequencesOK
<1>4. CASE queue # <<>> /\ Hand(t, 1)
    <2>1. 1 \in 1 .. Len(queue)
        BY <1>2, <1>4, EmptySeq
    <2> QED
        BY <1>1, <1>2, <1>4, <2>1, HandInv, BystanderMoves DEF SequencesOK
<1> QED
    BY <1>3, <1>4 DEF DrainShift

LEMMA ResolveQueuedSlashInv ==
    ASSUME IInv, NEW t \in Msgs, ResolveQueuedSlash(t)
    PROVE  IInv'
<1> USE DEF IInv, TypeOK
<1>1. ChainsOK' /\ HandsFull'
    BY DEF ResolveQueuedSlash, ChainsOK, HandsFull, Goto, WithWork, PCs
<1>2. MessagesOK' /\ SequencesOK' /\ FlagsOK'
    BY MessagesStay DEF ResolveQueuedSlash, SequencesOK, FlagsOK, backlog, flags
<1>3. ~HoldsFlag(t)
    BY DEF ResolveQueuedSlash, HoldsFlag, HoldsTurn, HoldsSlash
<1>4. FlagHasHolder' /\ SlashBacksFlag'
    BY <1>3, BystanderMoves DEF ResolveQueuedSlash, flags
<1> QED
    BY <1>1, <1>2, <1>4

LEMMA ExchangeWrittenInv ==
    ASSUME IInv, NEW t \in Msgs, ExchangeWritten(t)
    PROVE  IInv'
<1> USE DEF IInv, TypeOK
<1>1. Cur(t) \in Msgs
    BY CurType DEF ExchangeWritten, WithWork, PCs
<1>2. ChainsOK' /\ HandsFull'
    BY DEF ExchangeWritten, ChainsOK, HandsFull, Goto, WithWork, PCs
<1>3. MessagesOK' /\ FlagsOK'
    BY <1>1 DEF ExchangeWritten, MessagesOK, FlagsOK, backlog, flags
<1>4. SequencesOK'
    BY <1>1, AppendProperties DEF ExchangeWritten, SequencesOK, backlog
<1>5. ~HoldsFlag(t)
    BY DEF ExchangeWritten, HoldsFlag, HoldsTurn, HoldsSlash
<1>6. FlagHasHolder' /\ SlashBacksFlag'
    BY <1>5, BystanderMoves DEF ExchangeWritten, flags
<1> QED
    BY <1>2, <1>3, <1>4, <1>6

LEMMA ExchangeEndsInv ==
    ASSUME IInv, NEW t \in Msgs, NEW a \in {"replied", "failed"}, ExchangeEnds(t, a)
    PROVE  IInv'
<1> USE DEF IInv, TypeOK
<1>1. ChainsOK' /\ HandsFull'
    BY EmptySeq DEF ExchangeEnds, ChainsOK, HandsFull, Goto, WithWork, PCs
<1>2. MessagesOK'
    BY TellingType DEF ExchangeEnds, MessagesOK, Settle, Statuses, Settled, backlog
<1>3. SequencesOK' /\ FlagsOK'
    BY DEF ExchangeEnds, SequencesOK, FlagsOK, backlog, flags
<1>4. ~HoldsFlag(t)
    BY DEF ExchangeEnds, HoldsFlag, HoldsTurn, HoldsSlash
<1>5. FlagHasHolder' /\ SlashBacksFlag'
    BY <1>4, BystanderMoves DEF ExchangeEnds, flags
<1> QED
    BY <1>1, <1>2, <1>3, <1>5

LEMMA DrainStepInv ==
    ASSUME IInv, NEW t \in Msgs, DrainStep(t)
    PROVE  IInv'
BY DrainQueueInv, DrainShiftInv, ResolveQueuedSlashInv, ExchangeWrittenInv,
   ExchangeEndsInv DEF DrainStep

(* A slash command of the POST path.                                       *)
LEMMA ResolvePostSlashInv ==
    ASSUME IInv, NEW t \in Msgs, ResolvePostSlash(t)
    PROVE  IInv'
<1> USE DEF IInv, TypeOK
<1>1. Cur(t) \in Msgs
    BY CurType DEF ResolvePostSlash, WithWork, PCs
<1>2. ChainsOK' /\ HandsFull'
    BY DEF ResolvePostSlash, ChainsOK, HandsFull, Goto, WithWork, PCs
<1>3. MessagesOK' /\ FlagsOK'
    BY MessagesStay DEF ResolvePostSlash, RaiseFlag, FlagsOK, backlog
<1>4. SequencesOK'
    BY <1>1, AppendProperties DEF ResolvePostSlash, SequencesOK, backlog
<1>5. HoldsSlash(t)'
    BY DEF ResolvePostSlash, ChainsOK, Goto, HoldsSlash
<1> QED
    BY <1>2, <1>3, <1>4, <1>5 DEF FlagHasHolder, SlashBacksFlag, HoldsFlag

LEMMA SlashWrittenInv ==
    ASSUME IInv, NEW t \in Msgs, SlashWritten(t)
    PROVE  IInv'
<1> USE DEF IInv, TypeOK
<1>1. Cur(t) \in Msgs
    BY CurType DEF SlashWritten, WithWork, PCs
<1>2. ChainsOK' /\ HandsFull'
    BY DEF SlashWritten, ChainsOK, HandsFull, Goto, WithWork, PCs
<1>3. MessagesOK' /\ SequencesOK' /\ FlagsOK'
    BY <1>1 DEF SlashWritten, MessagesOK, SequencesOK, FlagsOK, backlog, flags
<1>4. HoldsSlash(t)'
    BY DEF SlashWritten, ChainsOK, Goto, HoldsSlash
<1> QED
    BY <1>2, <1>3, <1>4 DEF FlagHasHolder, SlashBacksFlag, HoldsFlag

LEMMA LeaveSlashInv ==
    ASSUME IInv, NEW t \in Msgs, NEW a \in Statuses, LeaveSlash(t, a),
           history' \in Seq(Msgs)
    PROVE  IInv'
<1> USE DEF IInv, TypeOK
<1>1. ChainsOK'
    BY EmptySeq DEF LeaveSlash, ChainsOK, Goto, PCs
<1>2. HandsFull'
    BY DEF LeaveSlash, ChainsOK, HandsFull, Goto, WithWork, PCs
<1>3. MessagesOK'
    BY TellingType DEF LeaveSlash, MessagesOK, Settle, backlog
<1>4. SequencesOK' /\ FlagsOK' /\ FlagHasHolder' /\ SlashBacksFlag'
    BY DEF LeaveSlash, SequencesOK, FlagsOK, FlagHasHolder, SlashBacksFlag, backlog
<1> QED
    BY <1>1, <1>2, <1>3, <1>4

LEMMA PostStepInv ==
    ASSUME IInv, NEW t \in Msgs, PostStep(t)
    PROVE  IInv'
<1>1. ASSUME NEW o, SlashFails(t, o) PROVE IInv'
    BY <1>1, PopType, LeaveSlashInv
    DEF SlashFails, IInv, TypeOK, SequencesOK, Statuses, Settled
<1>2. ASSUME NEW a \in {"replied", "failed"}, SlashReplies(t, a) PROVE IInv'
    BY <1>2, LeaveSlashInv
    DEF SlashReplies, IInv, TypeOK, SequencesOK, Statuses, Settled
<1> QED
    BY <1>1, <1>2, ResolvePostSlashInv, SlashWrittenInv DEF PostStep

(* The user's controls.                                                    *)
LEMMA AbortType ==
    ASSUME MessagesOK, FlagsOK, AbortTurn
    PROVE  aborted' \subseteq Msgs
BY DEF AbortTurn, MessagesOK, FlagsOK

LEMMA ControlInv ==
    ASSUME IInv, Cancel \/ Steer \/ Delete
    PROVE  IInv'
<1> USE DEF IInv, TypeOK
<1>1. ChainsOK' /\ HandsFull' /\ FlagHasHolder' /\ SlashBacksFlag'
    BY ChainsStay, HoldersStay DEF Cancel, Steer, Delete, flags, chains
<1>2. FlagsOK' /\ history' \in Seq(Msgs)
    BY DEF Cancel, Steer, Delete, FlagsOK, SequencesOK, flags
<1>3. \A i \in 1 .. Len(queue) : queue[i] \in Msgs /\ RemoveFrom(queue, i) \in Seq(Msgs)
    BY ElementOfSeq, RemoveFromType DEF SequencesOK
<1>4. CASE Cancel
    <2>1. MessagesOK'
        BY <1>4, TellingType, AbortType
        DEF Cancel, MessagesOK, Settle, Statuses, Settled
    <2> QED
        BY <1>1, <1>2, <1>4, <2>1, EmptySeq DEF Cancel, SequencesOK
<1>5. CASE Steer
    <2>1. PICK i \in 1 .. Len(queue) :
              /\ queue' = <<queue[i]>> \o RemoveFrom(queue, i)
              /\ promoted' = promoted \cup {queue[i]}
              /\ AbortTurn /\ UNCHANGED <<shape, posted, status, rows>>
        BY <1>5 DEF Steer
    <2>2. <<queue[i]>> \in Seq(Msgs)
        BY <1>3
    <2>3. queue' \in Seq(Msgs)
        BY <1>3, <2>1, <2>2, ConcatProperties
    <2>4. MessagesOK'
        BY <1>3, <2>1, AbortType DEF MessagesOK
    <2> QED
        BY <1>1, <1>2, <2>3, <2>4 DEF SequencesOK
<1>6. CASE Delete
    <2>1. MessagesOK'
        BY <1>6, TellingType DEF Delete, MessagesOK, Settle, Statuses, Settled
    <2> QED
        BY <1>1, <1>2, <1>3, <1>6, <2>1 DEF Delete, SequencesOK
<1> QED
    BY <1>4, <1>5, <1>6

LEMMA StepInv == IInv /\ [Next]_vars => IInv'
<1> SUFFICES ASSUME IInv, [Next]_vars PROVE IInv'
    OBVIOUS
<1>1. CASE Post
    BY <1>1, PostInv
<1>2. CASE Cancel \/ Steer \/ Delete
    BY <1>2, ControlInv
<1>3. ASSUME NEW t \in Msgs, ChainStep(t) PROVE IInv'
    BY <1>3, PostStepInv, HeadStepInv, TailStepInv, TurnStepInv, DrainStepInv
    DEF ChainStep
<1>4. CASE UNCHANGED vars
    BY <1>4, MessagesStay, ChainsStay, HoldersStay
    DEF vars, IInv, TypeOK, SequencesOK, FlagsOK, backlog, flags, chains
<1> QED
    BY <1>1, <1>2, <1>3, <1>4 DEF Next

LEMMA Inductive == Spec => []IInv
BY InitInv, StepInv, PTL DEF Spec

(* Whatever arrives, whatever fails and whatever the user does, the state  *)
(* of the conversation keeps its type: no abort, request id or batch ever  *)
(* refers to "no turn" or to nothing.                                      *)
THEOREM TypeCorrect == Spec => []TypeOK
<1>1. IInv => TypeOK
    BY DEF IInv
<1> QED
    BY <1>1, Inductive, PTL

(* Whatever arrives, whatever fails and whatever the user does, while the  *)
(* processing flag is set a continuation that clears it is pending, so     *)
(* that messages are never queued behind nothing.                          *)
THEOREM FlagAlwaysHeld == Spec => []FlagHasHolder
<1>1. IInv => FlagHasHolder
    BY DEF IInv
<1> QED
    BY <1>1, Inductive, PTL

-----------------------------------------------------------------------------
(* Sequences as sets of messages.                                          *)

(* The elements of a sequence, by position.                                *)
LEMMA ElementsOf ==
    ASSUME NEW s \in Seq(Msgs)
    PROVE  /\ ToSet(s) = {s[i] : i \in 1 .. Len(s)}
           /\ ToSet(s) \subseteq Msgs
           /\ IsInjective(s) <=> \A i, j \in 1 .. Len(s) : s[i] = s[j] => i = j
BY LenProperties, ElementOfSeq DEF ToSet, IsInjective

(* The empty sequence holds nothing, a sequence of one holds that one.     *)
LEMMA EmptyHolds == ToSet(<<>>) = {} /\ IsInjective(<<>>)
BY DEF ToSet, IsInjective

(* A sequence of one message holds that one.                                *)
LEMMA OneHolds ==
    ASSUME NEW m \in Msgs
    PROVE  /\ <<m>> \in Seq(Msgs) /\ Len(<<m>>) = 1
           /\ ToSet(<<m>>) = {m} /\ IsInjective(<<m>>)
BY DEF ToSet, IsInjective

(* What is empty as a set is empty as a sequence.                          *)
LEMMA HoldsNothing ==
    ASSUME NEW s \in Seq(Msgs)
    PROVE  ToSet(s) = {} <=> s = <<>>
<1>1. s # <<>> => 1 \in 1 .. Len(s)
    BY EmptySeq
<1> QED
    BY <1>1, ElementsOf, EmptyHolds

(* A concatenation holds what its parts hold; it repeats nothing when they *)
(* repeat nothing and have nothing in common.                              *)
LEMMA ConcatHolds ==
    ASSUME NEW s \in Seq(Msgs), NEW u \in Seq(Msgs)
    PROVE  /\ s \o u \in Seq(Msgs)
           /\ ToSet(s \o u) = ToSet(s) \cup ToSet(u)
           /\ IsInjective(s \o u) <=> /\ IsInjective(s) /\ IsInjective(u)
                                      /\ ToSet(s) \cap ToSet(u) = {}
<1> DEFINE c == s \o u
<1>1. /\ c \in Seq(Msgs) /\ Len(c) = Len(s) + Len(u)
      /\ Len(s) \in Nat /\ Len(u) \in Nat
      /\ \A i \in 1 .. Len(s) : c[i] = s[i]
      /\ \A i \in 1 .. Len(u) : c[Len(s) + i] = u[i]
    BY ConcatProperties, LenProperties
<1> HIDE DEF c
<1>2. \A i \in 1 .. Len(c) : \/ i \in 1 .. Len(s)
                             \/ \E j \in 1 .. Len(u) : i = Len(s) + j
    <2> TAKE i \in 1 .. Len(c)
    <2>1. i \notin 1 .. Len(s) => i - Len(s) \in 1 .. Len(u) /\ i = Len(s) + (i - Len(s))
        BY <1>1
    <2> QED
        BY <2>1
<1>3. /\ \A i \in 1 .. Len(s) : i \in 1 .. Len(c)
      /\ \A i \in 1 .. Len(u) : Len(s) + i \in 1 .. Len(c) /\ Len(s) + i \notin 1 .. Len(s)
    BY <1>1
<1>e. /\ ToSet(c) = {c[i] : i \in 1 .. Len(c)}
      /\ ToSet(s) = {s[i] : i \in 1 .. Len(s)}
      /\ ToSet(u) = {u[i] : i \in 1 .. Len(u)}
    BY <1>1, ElementsOf
<1>4. ToSet(c) = ToSet(s) \cup ToSet(u)
    <2>1. ASSUME NEW i \in 1 .. Len(c) PROVE c[i] \in ToSet(s) \cup ToSet(u)
        <3>1. CASE i \in 1 .. Len(s)
            BY <1>1, <1>e, <3>1
        <3>2. CASE \E j \in 1 .. Len(u) : i = Len(s) + j
            BY <1>1, <1>e, <3>2
        <3> QED
            BY <1>2, <3>1, <3>2
    <2>2. ToSet(s) \subseteq ToSet(c)
        BY <1>1, <1>3, <1>e
    <2>3. ToSet(u) \subseteq ToSet(c)
        BY <1>1, <1>3, <1>e
    <2> QED
        BY <1>e, <2>1, <2>2, <2>3
<1>5. ASSUME IsInjective(c)
      PROVE  IsInjective(s) /\ IsInjective(u) /\ ToSet(s) \cap ToSet(u) = {}
    <2>0. \A i, j \in 1 .. Len(c) : c[i] = c[j] => i = j
        BY <1>1, <1>5, ElementsOf
    <2>1. IsInjective(s)
        <3>1. \A i, j \in 1 .. Len(s) : s[i] = s[j] => i = j
            BY <1>1, <1>3, <2>0
        <3> QED
            BY <3>1, ElementsOf
    <2>2. IsInjective(u)
        <3>1. ASSUME NEW i \in 1 .. Len(u), NEW j \in 1 .. Len(u), u[i] = u[j] PROVE i = j
            <4>1. Len(s) + i = Len(s) + j
                BY <1>1, <1>3, <2>0, <3>1
            <4> QED
                BY <1>1, <4>1
        <3> QED
            BY <3>1, ElementsOf
    <2>3. ToSet(s) \cap ToSet(u) = {}
        <3>1. ASSUME NEW i \in 1 .. Len(s), NEW j \in 1 .. Len(u) PROVE s[i] # u[j]
            BY <1>1, <1>3, <2>0
        <3> QED
            BY <3>1, ElementsOf
    <2> QED
        BY <2>1, <2>2, <2>3
<1>6. ASSUME IsInjective(s), IsInjective(u), ToSet(s) \cap ToSet(u) = {}
      PROVE  IsInjective(c)
    <2>1. /\ \A i, j \in 1 .. Len(s) : s[i] = s[j] => i = j
          /\ \A i, j \in 1 .. Len(u) : u[i] = u[j] => i = j
        BY <1>6, ElementsOf
    <2>2. \A i \in 1 .. Len(s), j \in 1 .. Len(u) : s[i] # u[j]
        BY <1>6, <1>e
    <2>3. ASSUME NEW i \in 1 .. Len(c), NEW j \in 1 .. Len(c), c[i] = c[j]
          PROVE  i = j
        <3>1. CASE i \in 1 .. Len(s) /\ j \in 1 .. Len(s)
            BY <1>1, <2>1, <2>3, <3>1
        <3>2. CASE i \in 1 .. Len(s) /\ j \notin 1 .. Len(s)
            BY <1>1, <1>2, <2>2, <2>3, <3>2
        <3>3. CASE i \notin 1 .. Len(s) /\ j \in 1 .. Len(s)
            BY <1>1, <1>2, <2>2, <2>3, <3>3
        <3>4. CASE i \notin 1 .. Len(s) /\ j \notin 1 .. Len(s)
            <4>1. PICK k \in 1 .. Len(u) : i = Len(s) + k
                BY <1>2, <3>4
            <4>2. PICK l \in 1 .. Len(u) : j = Len(s) + l
                BY <1>2, <3>4
            <4>3. u[k] = u[l]
                BY <1>1, <2>3, <4>1, <4>2
            <4> QED
                BY <2>1, <4>1, <4>2, <4>3
        <3> QED
            BY <3>1, <3>2, <3>3, <3>4
    <2> QED
        BY <1>1, <2>3, ElementsOf
<1> QED
    BY <1>1, <1>4, <1>5, <1>6 DEF c

(* Appending a message adds it, and repeats nothing if it was not there.   *)
LEMMA AppendHolds ==
    ASSUME NEW s \in Seq(Msgs), NEW m \in Msgs
    PROVE  /\ Append(s, m) \in Seq(Msgs)
           /\ ToSet(Append(s, m)) = ToSet(s) \cup {m}
           /\ IsInjective(s) /\ m \notin ToSet(s) => IsInjective(Append(s, m))
<1>1. Append(s, m) = s \o <<m>>
    BY AppendIsConcat
<1>2. <<m>> \in Seq(Msgs) /\ ToSet(<<m>>) = {m} /\ IsInjective(<<m>>)
    BY OneHolds
<1>3. /\ s \o <<m>> \in Seq(Msgs)
      /\ ToSet(s \o <<m>>) = ToSet(s) \cup ToSet(<<m>>)
      /\ IsInjective(s \o <<m>>) <=> /\ IsInjective(s) /\ IsInjective(<<m>>)
                                     /\ ToSet(s) \cap ToSet(<<m>>) = {}
    BY <1>2, ConcatHolds
<1> QED
    BY <1>1, <1>2, <1>3

(* A sequence is its head and its tail.                                    *)
LEMMA HeadTailHolds ==
    ASSUME NEW s \in Seq(Msgs), s # <<>>
    PROVE  /\ Head(s) \in Msgs /\ Tail(s) \in Seq(Msgs)
           /\ s = <<Head(s)>> \o Tail(s)
           /\ ToSet(s) = {Head(s)} \cup ToSet(Tail(s))
           /\ IsInjective(s) => IsInjective(Tail(s)) /\ Head(s) \notin ToSet(Tail(s))
<1>1. Head(s) \in Msgs /\ Tail(s) \in Seq(Msgs)
    BY HeadTailProperties
<1>2. s = <<Head(s)>> \o Tail(s)
    <2>1. /\ Len(s) \in Nat \ {0} /\ Len(Tail(s)) = Len(s) - 1
          /\ \A i \in 1 .. Len(Tail(s)) : Tail(s)[i] = s[i + 1]
        BY HeadTailProperties, EmptySeq
    <2> DEFINE c == <<Head(s)>> \o Tail(s)
    <2>2. /\ c \in Seq(Msgs) /\ Len(c) = Len(s)
          /\ \A i \in 1 .. Len(s) : c[i] = IF i <= 1 THEN <<Head(s)>>[i] ELSE Tail(s)[i - 1]
        BY <1>1, <2>1, OneHolds, ConcatProperties
    <2> HIDE DEF c
    <2>3. \A i \in 1 .. Len(s) : c[i] = s[i]
        <3> TAKE i \in 1 .. Len(s)
        <3>1. CASE i = 1
            BY <2>2, <3>1 DEF Head
        <3>2. CASE i # 1
            <4>1. i - 1 \in 1 .. Len(Tail(s)) /\ (i - 1) + 1 = i
                BY <2>1, <3>2
            <4> QED
                BY <2>1, <2>2, <3>2, <4>1
        <3> QED
            BY <3>1, <3>2
    <2>4. c = s
        BY <2>2, <2>3, SeqEqual
    <2> QED
        BY <2>4 DEF c
<1>3. ToSet(<<Head(s)>>) = {Head(s)} /\ <<Head(s)>> \in Seq(Msgs)
    BY <1>1, OneHolds
<1>4. /\ ToSet(<<Head(s)>> \o Tail(s)) = ToSet(<<Head(s)>>) \cup ToSet(Tail(s))
      /\ IsInjective(<<Head(s)>> \o Tail(s)) =>
            /\ IsInjective(Tail(s))
            /\ ToSet(<<Head(s)>>) \cap ToSet(Tail(s)) = {}
    BY <1>1, <1>3, ConcatHolds
<1> QED
    BY <1>1, <1>2, <1>3, <1>4

(* A sequence is its first n elements and the others.                      *)
LEMMA CutHolds ==
    ASSUME NEW q \in Seq(Msgs), NEW n \in 0 .. Len(q)
    PROVE  /\ SubSeq(q, 1, n) \in Seq(Msgs) /\ SubSeq(q, n + 1, Len(q)) \in Seq(Msgs)
           /\ Len(SubSeq(q, 1, n)) = n
           /\ q = SubSeq(q, 1, n) \o SubSeq(q, n + 1, Len(q))
<1>0. Len(q) \in Nat /\ n \in Nat
    BY LenProperties
<1>1. /\ \A k \in 1 .. n : q[k] \in Msgs
      /\ \A k \in n + 1 .. Len(q) : q[k] \in Msgs
    BY <1>0, ElementOfSeq
<1>2. SubSeq(q, 1, n) \in Seq(Msgs) /\ Len(SubSeq(q, 1, n)) = n
    BY <1>0, <1>1, SubSeqProperties
<1>3. SubSeq(q, n + 1, Len(q)) \in Seq(Msgs)
    BY <1>0, <1>1, SubSeqProperties
<1>4. SubSeq(q, 1, n) \o SubSeq(q, n + 1, Len(q)) = SubSeq(q, 1, Len(q))
    <2>1. 1 \in 1 .. Len(q) + 1 /\ n \in 1 - 1 .. Len(q) /\ Len(q) \in n .. Len(q)
        BY <1>0
    <2> QED
        BY <2>1, ConcatAdjacentSubSeq
<1> QED
    BY <1>2, <1>3, <1>4, SubSeqFull

(* Removing the i-th leaves what is before and after it.                   *)
LEMMA RemoveHolds ==
    ASSUME NEW q \in Seq(Msgs), NEW i \in 1 .. Len(q)
    PROVE  \E a, b \in Seq(Msgs) : /\ q = a \o (<<q[i]>> \o b)
                                /\ RemoveFrom(q, i) = a \o b
                                /\ q[i] \in Msgs
<1>0. Len(q) \in Nat /\ i - 1 \in 0 .. Len(q) /\ i \in 0 .. Len(q) /\ (i - 1) + 1 = i
    BY LenProperties
<1>1. q[i] \in Msgs
    BY ElementOfSeq
<1>2. /\ SubSeq(q, 1, i - 1) \in Seq(Msgs)
      /\ q = SubSeq(q, 1, i - 1) \o SubSeq(q, i, Len(q))
    BY <1>0, CutHolds
<1>3. SubSeq(q, i + 1, Len(q)) \in Seq(Msgs)
    BY <1>0, CutHolds
<1>4. SubSeq(q, i, Len(q)) = <<q[i]>> \o SubSeq(q, i + 1, Len(q))
    BY <1>0, SubSeqRecursiveFirst
<1> QED
    BY <1>1, <1>2, <1>3, <1>4 DEF RemoveFrom

-----------------------------------------------------------------------------
(* The cost of a sequence of messages.  BytesOf is recursive; what it      *)
(* computes is proved by looking at the least length at which a claim      *)
(* would fail.                                                             *)

(* A set of natural numbers that is not empty has a least element.         *)
LEMMA LeastNat ==
    ASSUME NEW T \in SUBSET Nat, T # {}
    PROVE  \E n \in T : \A m \in T : n <= m
<1> DEFINE R == {ss \in Nat \X Nat : ss[1] < ss[2]}
<1>1. IsWellFoundedOn(R, Nat)
    BY NatLessThanWellFounded DEF OpToRel
<1>2. \A m, n \in Nat : m < n => <<m, n>> \in R
    OBVIOUS
<1> HIDE DEF R
<1>3. PICK n \in T : \A m \in T : ~ (<<m, n>> \in R)
    BY <1>1, WFMin
<1>4. \A m \in T : ~ (m < n)
    BY <1>2, <1>3
<1>5. \A m \in T : n <= m
    BY <1>4
<1> QED
    BY <1>5

(* Every message has one of the shapes.                                     *)
Sized == shape \in [Msgs -> Shapes]

(* f gives the cost of the first n messages of q, for n up to k.           *)
SumsTo(f, q, k) ==
    /\ f[0] = 0
    /\ \A n \in 1 .. k : f[n] = f[n - 1] + shape[q[n]].bytes

(* Messages have a size.                                                   *)
LEMMA SizeType ==
    ASSUME Sized, NEW q \in Seq(Msgs)
    PROVE  \A n \in 1 .. Len(q) : shape[q[n]].bytes \in Nat
BY ElementOfSeq, ShapesAssumption DEF Sized

(* There are such sums up to any length of q.                              *)
LEMMA SumsExist ==
    ASSUME Sized, NEW q \in Seq(Msgs), NEW k \in 0 .. Len(q)
    PROVE  \E f \in [0 .. k -> Int] : SumsTo(f, q, k)
<1> DEFINE T == {n \in 0 .. Len(q) : ~ \E f \in [0 .. n -> Int] : SumsTo(f, q, n)}
<1> SUFFICES ASSUME T # {} PROVE FALSE
    OBVIOUS
<1>0. Len(q) \in Nat
    BY LenProperties
<1>1. PICK n \in T : \A m \in T : n <= m
    <2>1. T \in SUBSET Nat
        BY <1>0
    <2> HIDE DEF T
    <2> QED
        BY <2>1, LeastNat
<1>2. CASE n = 0
    <2>1. SumsTo([i \in 0 .. 0 |-> 0], q, 0) /\ [i \in 0 .. 0 |-> 0] \in [0 .. 0 -> Int]
        BY DEF SumsTo
    <2> QED
        BY <1>1, <1>2, <2>1
<1>3. CASE n # 0
    <2>1. n - 1 \in 0 .. Len(q) /\ n - 1 \notin T /\ n \in 1 .. Len(q)
        BY <1>0, <1>1, <1>3
    <2>2. PICK f \in [0 .. n - 1 -> Int] : SumsTo(f, q, n - 1)
        BY <2>1
    <2>3. f[n - 1] + shape[q[n]].bytes \in Int
        BY <2>1, <2>2, SizeType DEF SumsTo
    <2> DEFINE v == f[n - 1] + shape[q[n]].bytes
               g == [i \in 0 .. n |-> IF i = n THEN v ELSE f[i]]
    <2>4. g \in [0 .. n -> Int]
        <3>1. \A i \in 0 .. n : i # n => i \in 0 .. n - 1
            BY <1>0, <2>1
        <3> QED
            BY <2>2, <2>3, <3>1 DEF SumsTo
    <2>5. g[0] = 0
        BY <1>0, <2>1, <2>2 DEF SumsTo
    <2>6. ASSUME NEW i \in 1 .. n PROVE g[i] = g[i - 1] + shape[q[i]].bytes
        <3>0. i \in 0 .. n /\ i - 1 \in 0 .. n /\ i - 1 # n /\ n \in Nat
            BY <1>0, <2>1
        <3>1. CASE i = n
            BY <3>0, <3>1
        <3>2. CASE i # n
            <4>1. i \in 1 .. n - 1
                BY <3>0, <3>2
            <4>2. g[i] = f[i] /\ g[i - 1] = f[i - 1]
                BY <3>0, <3>2
            <4> QED
                BY <2>2, <4>1, <4>2 DEF SumsTo
        <3> QED
            BY <3>1, <3>2
    <2>8. g \in [0 .. n -> Int]
        BY <2>4
    <2> HIDE DEF g
    <2>7. SumsTo(g, q, n)
        BY <2>4, <2>5, <2>6 DEF SumsTo
    <2> QED
        BY <1>1, <2>8, <2>7
<1> QED
    BY <1>2, <1>3

(* And no other ones.                                                      *)
LEMMA SumsAgree ==
    ASSUME Sized, NEW q \in Seq(Msgs), NEW k \in 0 .. Len(q),
           NEW f, SumsTo(f, q, k), NEW g, SumsTo(g, q, k)
    PROVE  \A n \in 0 .. k : f[n] = g[n]
<1> DEFINE T == {n \in 0 .. k : f[n] # g[n]}
<1> SUFFICES ASSUME T # {} PROVE FALSE
    OBVIOUS
<1>0. Len(q) \in Nat /\ k \in Nat
    BY LenProperties
<1>1. PICK n \in T : \A m \in T : n <= m
    <2>1. T \in SUBSET Nat
        BY <1>0
    <2> HIDE DEF T
    <2> QED
        BY <2>1, LeastNat
<1>2. n # 0
    BY <1>1 DEF SumsTo
<1>3. n \in 1 .. k /\ n - 1 \in 0 .. k /\ n - 1 \notin T
    BY <1>0, <1>1, <1>2
<1>4. f[n - 1] = g[n - 1]
    BY <1>3
<1>5. f[n] = g[n]
    BY <1>3, <1>4 DEF SumsTo
<1> QED
    BY <1>1, <1>5

(* BytesOf is the sum up to the length.                                    *)
LEMMA BytesOfIsSum ==
    ASSUME Sized, NEW q \in Seq(Msgs),
           NEW f \in [0 .. Len(q) -> Int], SumsTo(f, q, Len(q))
    PROVE  BytesOf(q) = f[Len(q)]
<1> DEFINE Is(h) == h = [n \in 0 .. Len(q) |->
                           IF n = 0 THEN 0 ELSE h[n - 1] + shape[q[n]].bytes]
           sum == CHOOSE h : Is(h)
<1>0. Len(q) \in Nat
    BY LenProperties
<1>1. BytesOf(q) = sum[Len(q)]
    BY DEF BytesOf
<1>2. Is(f)
    BY <1>0 DEF SumsTo
<1>3. Is(sum)
    BY <1>2
<1> HIDE DEF sum
<1>4. SumsTo(sum, q, Len(q))
    <2>1. \A n \in 0 .. Len(q) :
             sum[n] = IF n = 0 THEN 0 ELSE sum[n - 1] + shape[q[n]].bytes
        BY <1>3
    <2> QED
        BY <2>1, <1>0 DEF SumsTo
<1> QED
    BY <1>0, <1>1, <1>4, SumsAgree

(* An empty queue costs nothing, a queue of one what its message costs.    *)
LEMMA BytesOfNone ==
    ASSUME Sized
    PROVE  BytesOf(<<>>) = 0
<1>1. <<>> \in Seq(Msgs) /\ Len(<<>>) = 0 /\ 0 \in 0 .. Len(<<>>)
    BY EmptySeq
<1>2. PICK f \in [0 .. 0 -> Int] : SumsTo(f, <<>>, 0)
    BY <1>1, SumsExist
<1>3. BytesOf(<<>>) = f[0]
    BY <1>1, <1>2, BytesOfIsSum
<1> QED
    BY <1>2, <1>3 DEF SumsTo

(* One message costs its bytes.                                             *)
LEMMA BytesOfOne ==
    ASSUME Sized, NEW m \in Msgs
    PROVE  BytesOf(<<m>>) = shape[m].bytes
<1>1. <<m>> \in Seq(Msgs) /\ Len(<<m>>) = 1 /\ <<m>>[1] = m /\ 1 \in 0 .. Len(<<m>>)
    BY OneHolds
<1>2. PICK f \in [0 .. 1 -> Int] : SumsTo(f, <<m>>, 1)
    BY <1>1, SumsExist
<1>3. BytesOf(<<m>>) = f[1]
    BY <1>1, <1>2, BytesOfIsSum
<1>4. f[1] = f[0] + shape[m].bytes /\ f[0] = 0
    BY <1>1, <1>2 DEF SumsTo
<1>5. shape[m].bytes \in Nat
    BY ShapesAssumption DEF Sized
<1> QED
    BY <1>3, <1>4, <1>5

(* The cost of a concatenation is the sum of the costs.                    *)
LEMMA BytesOfConcat ==
    ASSUME Sized, NEW s \in Seq(Msgs), NEW u \in Seq(Msgs)
    PROVE  /\ BytesOf(s \o u) = BytesOf(s) + BytesOf(u)
           /\ BytesOf(s) \in Int /\ BytesOf(u) \in Int
<1> DEFINE c == s \o u
           k == Len(s)
           l == Len(u)
<1>1. /\ c \in Seq(Msgs) /\ Len(c) = k + l
      /\ k \in Nat /\ l \in Nat
      /\ \A i \in 1 .. k : c[i] = s[i]
      /\ \A i \in 1 .. l : c[k + i] = u[i]
    BY ConcatProperties, LenProperties
<1>2. PICK f \in [0 .. k -> Int] : SumsTo(f, s, k)
    BY <1>1, SumsExist
<1>3. PICK g \in [0 .. l -> Int] : SumsTo(g, u, l)
    BY <1>1, SumsExist
<1>4. BytesOf(s) = f[k] /\ BytesOf(u) = g[l] /\ f[k] \in Int /\ g[l] \in Int
    BY <1>1, <1>2, <1>3, BytesOfIsSum
<1> DEFINE h == [i \in 0 .. k + l |-> IF i <= k THEN f[i] ELSE f[k] + g[i - k]]
<1>s. \A j \in 1 .. l : shape[u[j]].bytes \in Int
    BY SizeType
<1> HIDE DEF c, k, l
<1>5. SumsTo(h, c, k + l)
    <2>1. h[0] = 0
        BY <1>1, <1>2 DEF SumsTo
    <2>2. ASSUME NEW i \in 1 .. k + l PROVE h[i] = h[i - 1] + shape[c[i]].bytes
        <3>0. i \in 0 .. k + l /\ i - 1 \in 0 .. k + l
            BY <1>1
        <3>1. CASE i <= k
            <4>1. i \in 1 .. k /\ i - 1 <= k
                BY <1>1, <3>1
            <4>2. h[i] = f[i] /\ h[i - 1] = f[i - 1] /\ c[i] = s[i]
                BY <1>1, <3>0, <3>1, <4>1
            <4> QED
                BY <1>2, <4>1, <4>2 DEF SumsTo
        <3>2. CASE ~(i <= k)
            <4> DEFINE j == i - k
            <4>1. j \in 1 .. l /\ i = k + j /\ j \in 0 .. l /\ j - 1 \in 0 .. l
                BY <1>1, <3>2
            <4>2. h[i] = f[k] + g[j] /\ c[i] = u[j]
                BY <1>1, <3>0, <3>2, <4>1
            <4>3. g[j] = g[j - 1] + shape[u[j]].bytes
                BY <1>3, <4>1 DEF SumsTo
            <4>4. h[i - 1] = f[k] + g[j - 1]
                <5>1. CASE j = 1
                    <6>1. i - 1 <= k /\ i - 1 = k
                        BY <1>1, <4>1, <5>1
                    <6>2. g[j - 1] = 0
                        BY <1>3, <5>1 DEF SumsTo
                    <6> QED
                        BY <1>1, <1>4, <3>0, <6>1, <6>2
                <5>2. CASE j # 1
                    <6>1. ~(i - 1 <= k) /\ (i - 1) - k = j - 1
                        BY <1>1, <4>1, <5>2
                    <6> QED
                        BY <3>0, <6>1
                <5> QED
                    BY <5>1, <5>2
            <4>5. shape[u[j]].bytes \in Int /\ g[j - 1] \in Int /\ g[j] \in Int
                BY <1>3, <1>s, <4>1
            <4> HIDE DEF h, j
            <4> QED
                BY <1>4, <4>2, <4>3, <4>4, <4>5
        <3> QED
            BY <3>1, <3>2
    <2> HIDE DEF h
    <2> QED
        BY <2>1, <2>2 DEF SumsTo
<1>t. h \in [0 .. k + l -> Int]
    <2> SUFFICES ASSUME NEW i \in 0 .. k + l PROVE h[i] \in Int
        OBVIOUS
    <2>1. CASE i <= k
        BY <1>1, <2>1
    <2>2. CASE ~(i <= k)
        <3>1. i - k \in 0 .. l
            BY <1>1, <2>2
        <3> QED
            BY <1>4, <2>2, <3>1
    <2> QED
        BY <2>1, <2>2
<1>6. h[k + l] = f[k] + g[l]
    <2>1. CASE l = 0
        BY <1>1, <1>3, <1>4, <2>1 DEF SumsTo
    <2>2. CASE l # 0
        <3>1. ~(k + l <= k) /\ (k + l) - k = l /\ k + l \in 0 .. k + l
            BY <1>1, <2>2
        <3> QED
            BY <3>1
    <2> QED
        BY <2>1, <2>2
<1> HIDE DEF h
<1>7. BytesOf(c) = h[k + l]
    BY <1>1, <1>5, <1>t, BytesOfIsSum
<1> QED
    BY <1>4, <1>6, <1>7 DEF c

(* Removing a message from a queue takes its cost away.                    *)
LEMMA BytesOfRemove ==
    ASSUME Sized, NEW q \in Seq(Msgs), NEW i \in 1 .. Len(q)
    PROVE  /\ BytesOf(RemoveFrom(q, i)) = BytesOf(q) - BytesOf(<<q[i]>>)
           /\ BytesOf(<<q[i]>> \o RemoveFrom(q, i)) = BytesOf(q)
<1>1. PICK a \in Seq(Msgs), b \in Seq(Msgs) :
          q = a \o (<<q[i]>> \o b) /\ RemoveFrom(q, i) = a \o b /\ q[i] \in Msgs
    BY RemoveHolds
<1> DEFINE o == <<q[i]>>
<1>2. o \in Seq(Msgs)
    BY <1>1, OneHolds
<1>8. q = a \o (o \o b) /\ RemoveFrom(q, i) = a \o b
    BY <1>1
<1> HIDE DEF o
<1>3. o \o b \in Seq(Msgs) /\ a \o b \in Seq(Msgs)
    BY <1>2, ConcatHolds
<1>4. BytesOf(o \o b) = BytesOf(o) + BytesOf(b) /\ BytesOf(o) \in Int /\ BytesOf(b) \in Int
    BY <1>2, BytesOfConcat
<1>5. BytesOf(a \o (o \o b)) = BytesOf(a) + BytesOf(o \o b)
    BY <1>3, BytesOfConcat
<1>6. BytesOf(a \o b) = BytesOf(a) + BytesOf(b) /\ BytesOf(a) \in Int
    BY BytesOfConcat
<1>7. BytesOf(o \o (a \o b)) = BytesOf(o) + BytesOf(a \o b)
    BY <1>2, <1>3, BytesOfConcat
<1>9. BytesOf(q) = BytesOf(a) + (BytesOf(o) + BytesOf(b))
    BY <1>4, <1>5, <1>8
<1>10. BytesOf(RemoveFrom(q, i)) = BytesOf(q) - BytesOf(o)
    BY <1>4, <1>6, <1>8, <1>9
<1>11. BytesOf(o \o RemoveFrom(q, i)) = BytesOf(q)
    BY <1>4, <1>6, <1>7, <1>8, <1>9
<1> QED
    BY <1>10, <1>11 DEF o

-----------------------------------------------------------------------------
(* Where messages are.  A message without an outcome is in one place; a    *)
(* chain has messages in hand only while it works on them, and those of    *)
(* the turn it ends have their outcome.                                    *)

(* The messages posted and without an outcome, and what a chain has in hand.*)
Open    == {m \in Msgs : status[m] = "open"}
Held(t) == ToSet(work[t]) \cup ToSet(done[t])

(* A chain has each message in hand once.                                   *)
HandsApart(t) ==
    /\ IsInjective(work[t]) /\ IsInjective(done[t])
    /\ ToSet(work[t]) \cap ToSet(done[t]) = {}

(* A chain has messages in hand only while it works on them, and several    *)
(* only in a batch.                                                         *)
HandsUsed(t) ==
    /\ pc[t] \in {"none", "loop", "commit", "drain", "shift"} => work[t] = <<>>
    /\ pc[t] \notin {"tailResolve", "tailPersist", "loop", "commit"} => done[t] = <<>>
    /\ mode[t] # "batch" => Len(work[t]) <= 1

(* What a chain works on is open, until its turn is over.                   *)
HandsOpen(t) ==
    /\ ToSet(work[t]) \subseteq Open
    /\ pc[t] # "commit" => ToSet(done[t]) \subseteq Open
    /\ pc[t] = "commit" => \A m \in ToSet(done[t]) : status[m] \in Settled

(* The three together.                                                      *)
ChainPlaced(t) == HandsApart(t) /\ HandsUsed(t) /\ HandsOpen(t)

(* The queue holds open messages, each once.                                *)
QueuePlaced == IsInjective(queue) /\ ToSet(queue) \subseteq Open

(* No message is both queued and in hand, or in two hands.                  *)
Apart == /\ \A t \in Msgs : Held(t) \cap ToSet(queue) = {}
         /\ \A t, u \in Msgs : t # u => Held(t) \cap Held(u) = {}

(* A message not yet posted has no outcome and no chain.                    *)
NewOnes == \A m \in Msgs : m > posted => status[m] = "new" /\ pc[m] = "none"

(* The inductive invariant of the places.                                   *)
PInv == (\A t \in Msgs : ChainPlaced(t)) /\ QueuePlaced /\ Apart /\ NewOnes

(* No client that was told an outcome is told anything else by the step.   *)
Answered == \A m \in Msgs : status[m] \in Settled => status'[m] = status[m]

(* The step is one of chain t: the other chains are where they were, with  *)
(* what they had in hand.                                                  *)
OnlyChain(t) == \A u \in Msgs : u # t =>
    /\ pc'[u] = pc[u] /\ mode'[u] = mode[u]
    /\ work'[u] = work[u] /\ done'[u] = done[u]
    /\ ctl'[u] = ctl[u] /\ reqId'[u] = reqId[u]

(* What a chain holds are messages.                                        *)
LEMMA HeldType ==
    ASSUME ChainsOK, NEW t \in Msgs
    PROVE  /\ work[t] \in Seq(Msgs) /\ done[t] \in Seq(Msgs)
           /\ ToSet(work[t]) \subseteq Msgs /\ ToSet(done[t]) \subseteq Msgs
<1>1. work[t] \in Seq(Msgs) /\ done[t] \in Seq(Msgs)
    BY DEF ChainsOK
<1> QED
    BY <1>1, ElementsOf

(* The outcomes are not "open" and not "new".                              *)
LEMMA OpenIsNotSettled == "open" \notin Settled /\ "new" \notin Settled
BY DEF Settled

(* Initially nothing has arrived.                                          *)
LEMMA PlacesInit == Init => PInv
<1> SUFFICES ASSUME Init PROVE PInv
    OBVIOUS
<1>1. \A t \in Msgs : work[t] = <<>> /\ done[t] = <<>> /\ pc[t] = "none"
    BY DEF Init
<1>2. queue = <<>> /\ \A m \in Msgs : status[m] = "new"
    BY DEF Init
<1>3. \A t \in Msgs : ChainPlaced(t)
    BY <1>1, EmptyHolds, EmptySeq DEF ChainPlaced, HandsApart, HandsUsed, HandsOpen
<1>4. QueuePlaced /\ Apart /\ NewOnes
    BY <1>1, <1>2, EmptyHolds DEF QueuePlaced, Apart, NewOnes, Held
<1> QED
    BY <1>3, <1>4 DEF PInv

(* A step of chain t that lets go of some of its messages, and tells       *)
(* clients of its open ones only, keeps everything in its place.           *)
LEMMA ChainMoves ==
    ASSUME IInv, PInv, NEW t \in Msgs, pc[t] # "none",
           OnlyChain(t), UNCHANGED <<queue, posted>>,
           NEW S, S \subseteq Held(t), S \subseteq Open,
           \A m \in Msgs : m \notin S => status'[m] = status[m],
           ChainPlaced(t)', Held(t)' \subseteq Held(t)
    PROVE  PInv' /\ Answered
<1>0. ChainsOK /\ SequencesOK
    BY DEF IInv, TypeOK
<1>1. \A u \in Msgs : u # t => Held(u)' = Held(u) /\ Held(u) \cap Held(t) = {}
    BY DEF OnlyChain, Held, PInv, Apart
<1>2. \A m \in Msgs : m \notin S => (m \in Open <=> m \in Open')
    BY DEF Open
<1>3. ASSUME NEW u \in Msgs, u # t PROVE ChainPlaced(u)'
    <2>1. /\ work[u]' = work[u] /\ done[u]' = done[u]
          /\ pc[u]' = pc[u] /\ mode[u]' = mode[u]
        BY <1>3 DEF OnlyChain
    <2>2. HandsApart(u) /\ HandsUsed(u) /\ HandsOpen(u)
        BY DEF PInv, ChainPlaced
    <2>3. /\ \A m \in ToSet(work[u]) : m \in Msgs /\ m \notin S
          /\ \A m \in ToSet(done[u]) : m \in Msgs /\ m \notin S
        BY <1>0, <1>1, <1>3, HeldType DEF Held
    <2>4. HandsApart(u)' /\ HandsUsed(u)'
        BY <2>1, <2>2 DEF HandsApart, HandsUsed
    <2>5. HandsOpen(u)'
        BY <1>2, <2>1, <2>2, <2>3 DEF HandsOpen
    <2> QED
        BY <2>4, <2>5 DEF ChainPlaced
<1>4. QueuePlaced'
    <2>1. ToSet(queue) \subseteq Msgs /\ ToSet(queue) \cap S = {}
        BY <1>0, ElementsOf DEF SequencesOK, PInv, Apart
    <2> QED
        BY <1>2, <2>1 DEF QueuePlaced, PInv
<1>5. Apart'
    BY <1>1 DEF Apart, PInv
<1>6. NewOnes'
    BY DEF NewOnes, PInv, OnlyChain, Open
<1>7. Answered
    BY OpenIsNotSettled DEF Answered, Open
<1> QED
    BY <1>3, <1>4, <1>5, <1>6, <1>7 DEF PInv

(* A step of chain t that neither takes nor gives a message.               *)
LEMMA ChainWaits ==
    ASSUME IInv, PInv, NEW t \in Msgs, pc[t] \notin {"none", "commit"},
           NEW p \in PCs, Goto(t, p), p # "commit",
           UNCHANGED <<queue, posted, status, mode, work, done, ctl, reqId>>,
           p \in {"none", "loop", "drain", "shift"} => work[t] = <<>>,
           p \notin {"tailResolve", "tailPersist", "loop"} => done[t] = <<>>
    PROVE  PInv' /\ Answered
<1>0. ChainsOK
    BY DEF IInv, TypeOK
<1>1. pc' = [pc EXCEPT ![t] = p] /\ pc'[t] = p
    BY <1>0 DEF Goto, ChainsOK
<1>2. OnlyChain(t)
    BY <1>0, <1>1 DEF OnlyChain, ChainsOK
<1>3. HandsApart(t)' /\ HandsOpen(t)'
    BY <1>1 DEF PInv, ChainPlaced, HandsApart, HandsOpen, Open
<1>4. HandsUsed(t)'
    BY <1>1 DEF PInv, ChainPlaced, HandsUsed
<1>5. Held(t)' = Held(t)
    BY DEF Held
<1> QED
    BY <1>2, <1>3, <1>4, <1>5, ChainMoves DEF ChainPlaced

(* The head of the work and what follows it.                               *)
LEMMA WorkInHand ==
    ASSUME IInv, PInv, NEW t \in Msgs, pc[t] \in WithWork
    PROVE  /\ Cur(t) \in Msgs /\ Rest(t) \in Seq(Msgs)
           /\ Cur(t) \in Held(t) /\ Cur(t) \in Open
           /\ ToSet(work[t]) = {Cur(t)} \cup ToSet(Rest(t))
           /\ IsInjective(Rest(t)) /\ Cur(t) \notin ToSet(Rest(t))
           /\ Cur(t) \notin ToSet(done[t])
           /\ Len(Rest(t)) = Len(work[t]) - 1 /\ Len(work[t]) \in Nat
           /\ mode[t] # "batch" => Rest(t) = <<>>
<1>1. work[t] \in Seq(Msgs) /\ work[t] # <<>>
    BY DEF IInv, TypeOK, ChainsOK, HandsFull
<1>2. /\ Cur(t) \in Msgs /\ Rest(t) \in Seq(Msgs)
      /\ ToSet(work[t]) = {Cur(t)} \cup ToSet(Rest(t))
      /\ IsInjective(work[t]) => IsInjective(Rest(t)) /\ Cur(t) \notin ToSet(Rest(t))
    BY <1>1, HeadTailHolds DEF Cur, Rest
<1>3. HandsApart(t) /\ HandsOpen(t) /\ HandsUsed(t)
    BY DEF PInv, ChainPlaced
<1>4. Len(Rest(t)) = Len(work[t]) - 1 /\ Len(work[t]) \in Nat
    BY <1>1, HeadTailProperties, LenProperties DEF Rest
<1>5. mode[t] # "batch" => Rest(t) = <<>>
    <2>1. mode[t] # "batch" => Len(Rest(t)) <= 0
        BY <1>3, <1>4 DEF HandsUsed
    <2> QED
        BY <1>2, <2>1, EmptySeq
<1> QED
    BY <1>2, <1>3, <1>4, <1>5 DEF HandsApart, HandsOpen, Held

(* The head is finished without a turn.                                    *)
LEMMA MoveOnPlaces ==
    ASSUME IInv, PInv, NEW t \in Msgs, pc[t] \in {"resolve", "persist"},
           MoveOn(t), NEW s \in Settled, Settle({Cur(t)}, s),
           UNCHANGED <<queue, posted>>
    PROVE  PInv' /\ Answered
<1>0. ChainsOK /\ status \in [Msgs -> Statuses]
    BY DEF IInv, TypeOK, MessagesOK
<1>1. pc[t] \in WithWork
    BY DEF WithWork, PCs
<1>2. /\ work' = [work EXCEPT ![t] = Rest(t)]
      /\ mode' = [mode EXCEPT ![t] = IF Len(Rest(t)) > 1 THEN "batch" ELSE "single"]
      /\ pc' = [pc EXCEPT ![t] = Resume(t)]
      /\ UNCHANGED <<done, ctl, reqId>>
    BY DEF MoveOn, Goto
<1>3. OnlyChain(t)
    BY <1>0, <1>2 DEF OnlyChain, ChainsOK
<1>4. /\ work'[t] = Rest(t) /\ pc'[t] = Resume(t) /\ done'[t] = done[t]
      /\ mode'[t] = IF Len(Rest(t)) > 1 THEN "batch" ELSE "single"
    BY <1>0, <1>2 DEF ChainsOK
<1>5. done[t] = <<>>
    BY DEF PInv, ChainPlaced, HandsUsed
<1>6. Resume(t) \in {"none", "drain", "resolve"} /\ (Resume(t) # "resolve" => Rest(t) = <<>>)
    BY <1>1, WorkInHand DEF Resume
<1>7. \A m \in Msgs : m # Cur(t) => status'[m] = status[m]
    BY DEF Settle, Telling
<1>8. ToSet(Rest(t)) \subseteq Open'
    BY <1>1, <1>7, WorkInHand, ElementsOf DEF PInv, ChainPlaced, HandsOpen, Open
<1>9. HandsApart(t)'
    BY <1>1, <1>4, <1>5, WorkInHand, EmptyHolds DEF HandsApart
<1>10. HandsUsed(t)'
    BY <1>1, <1>4, <1>5, <1>6, WorkInHand DEF HandsUsed
<1>11. HandsOpen(t)'
    BY <1>4, <1>5, <1>6, <1>8, EmptyHolds DEF HandsOpen
<1>12. Held(t)' \subseteq Held(t)
    BY <1>1, <1>4, WorkInHand DEF Held
<1> DEFINE S == {Cur(t)}
<1>13. S \subseteq Held(t) /\ S \subseteq Open
    BY <1>1, WorkInHand
<1>14. \A m \in Msgs : m \notin S => status'[m] = status[m]
    BY <1>7
<1>15. ChainPlaced(t)' /\ pc[t] # "none"
    BY <1>9, <1>10, <1>11 DEF ChainPlaced
<1> HIDE DEF S
<1> QED
    BY <1>3, <1>12, <1>13, <1>14, <1>15, ChainMoves

(* The turn of the members begins, or is not possible.  By then the        *)
(* clients of S, open ones of the chain's messages, have been told, the    *)
(* members not.                                                            *)
LEMMA RunAgentLoopPlaces ==
    ASSUME IInv, PInv, NEW t \in Msgs, pc[t] \in {"persist", "tailPersist"},
           NEW members \in Seq(Msgs), IsInjective(members),
           ToSet(members) \subseteq Held(t), ToSet(members) \subseteq Open,
           NEW S, S \subseteq Held(t), S \subseteq Open,
           S \cap ToSet(members) = {},
           NEW told, \A m \in Msgs : m \notin S => told[m] = status[m],
           RunAgentLoop(t, members, told), UNCHANGED <<queue, posted>>
    PROVE  PInv' /\ Answered
<1>0. ChainsOK /\ mode[t] \in Modes
    BY DEF IInv, TypeOK, ChainsOK
<1>1. OnlyChain(t)
    BY <1>0 DEF RunAgentLoop, Goto, OnlyChain, ChainsOK
<1>2. work'[t] = <<>> /\ mode' = mode
    BY <1>0 DEF RunAgentLoop, ChainsOK
<1>3. CASE controller # None
    <2>1. done'[t] = members /\ pc'[t] = "loop" /\ status' = told
        BY <1>0, <1>3 DEF RunAgentLoop, ChainsOK, Goto
    <2>2. HandsApart(t)'
        BY <1>2, <2>1, EmptyHolds DEF HandsApart
    <2>3. HandsUsed(t)'
        BY <1>2, <2>1, EmptySeq DEF HandsUsed
    <2>4. HandsOpen(t)'
        BY <1>2, <2>1, EmptyHolds DEF HandsOpen, Open
    <2>5. Held(t)' \subseteq Held(t)
        BY <1>2, <2>1, EmptyHolds DEF Held
    <2>6. \A m \in Msgs : m \notin S => status'[m] = status[m]
        BY <2>1
    <2> QED
        BY <1>1, <2>2, <2>3, <2>4, <2>5, <2>6, ChainMoves DEF ChainPlaced
<1>4. CASE controller = None
    <2>1. done'[t] = <<>> /\ pc'[t] = "none"
        BY <1>0, <1>4 DEF RunAgentLoop, ChainsOK, Goto
    <2> DEFINE U == S \cup ToSet(members)
    <2>2. HandsApart(t)'
        BY <1>2, <2>1, EmptyHolds DEF HandsApart
    <2>3. HandsUsed(t)'
        BY <1>2, <2>1, EmptySeq DEF HandsUsed
    <2>4. HandsOpen(t)'
        BY <1>2, <2>1, EmptyHolds DEF HandsOpen
    <2>5. Held(t)' \subseteq Held(t)
        BY <1>2, <2>1, EmptyHolds DEF Held
    <2>6. \A m \in Msgs : m \notin U => status'[m] = status[m]
        BY <1>4 DEF RunAgentLoop, Telling
    <2>7. U \subseteq Held(t) /\ U \subseteq Open
        OBVIOUS
    <2> HIDE DEF U
    <2> QED
        BY <1>1, <2>2, <2>3, <2>4, <2>5, <2>6, <2>7, ChainMoves DEF ChainPlaced
<1> QED
    BY <1>3, <1>4

(* The same with the next tail of the batch.                               *)
LEMMA NextInBatchPlaces ==
    ASSUME IInv, PInv, NEW t \in Msgs, pc[t] \in {"persist", "tailPersist"},
           NEW members \in Seq(Msgs), IsInjective(members),
           ToSet(members) \subseteq Held(t), ToSet(members) \subseteq Open,
           ToSet(members) \cap ToSet(Rest(t)) = {},
           NEW S, S \subseteq {Cur(t)}, S \cap ToSet(members) = {},
           NEW told, \A m \in Msgs : m \notin S => told[m] = status[m],
           NEW stop, NextInBatch(t, members, stop, told),
           UNCHANGED <<queue, posted>>
    PROVE  PInv' /\ Answered
<1>0. ChainsOK /\ pc[t] \in WithWork
    BY DEF IInv, TypeOK, WithWork, PCs
<1>1. S \subseteq Held(t) /\ S \subseteq Open
    BY <1>0, WorkInHand
<1>2. CASE RunAgentLoop(t, members, told)
    BY <1>1, <1>2, RunAgentLoopPlaces
<1>3. CASE /\ work' = [work EXCEPT ![t] = Rest(t)]
           /\ done' = [done EXCEPT ![t] = members]
           /\ Goto(t, "tailResolve")
           /\ status' = told
           /\ UNCHANGED <<mode, ctl, reqId, flags>>
    <2>1. OnlyChain(t)
        BY <1>0, <1>3 DEF OnlyChain, ChainsOK, Goto
    <2>2. /\ work'[t] = Rest(t) /\ done'[t] = members /\ pc'[t] = "tailResolve"
          /\ mode'[t] = mode[t]
        BY <1>0, <1>3 DEF ChainsOK, Goto
    <2>3. HandsApart(t)'
        BY <1>0, <2>2, WorkInHand DEF HandsApart
    <2>4. HandsUsed(t)'
        BY <1>0, <2>2, WorkInHand DEF HandsUsed, PInv, ChainPlaced
    <2>5. \A m \in Msgs : m \notin S => status'[m] = status[m]
        BY <1>3
    <2>6. ToSet(Rest(t)) \subseteq Open /\ ToSet(Rest(t)) \cap S = {} /\ ToSet(Rest(t)) \subseteq Held(t)
        BY <1>0, WorkInHand DEF PInv, ChainPlaced, HandsOpen, Held
    <2>7. HandsOpen(t)'
        BY <2>2, <2>5, <2>6 DEF HandsOpen, Open
    <2>8. Held(t)' \subseteq Held(t)
        BY <2>2, <2>6 DEF Held
    <2> QED
        BY <1>1, <2>1, <2>3, <2>4, <2>5, <2>7, <2>8, ChainMoves DEF ChainPlaced
<1> QED
    BY <1>2, <1>3 DEF NextInBatch

-----------------------------------------------------------------------------
(* The head of the work.                                                   *)
LEMMA HeadStepPlaces ==
    ASSUME IInv, PInv, NEW t \in Msgs, HeadStep(t)
    PROVE  PInv' /\ Answered
<1>1. CASE ResolveText(t)
    <2>0. pc[t] = "resolve" /\ UNCHANGED <<queue, posted>>
        BY <1>1 DEF ResolveText, backlog
    <2>1. CASE RefuseHead(t)
        <3>1. "busy" \in Settled /\ MoveOn(t) /\ Settle({Cur(t)}, "busy")
            BY <2>1 DEF RefuseHead, Settled
        <3> QED
            BY <2>0, <3>1, MoveOnPlaces
    <2>2. CASE OpenTurn(t)
        <3>1. Goto(t, "persist") /\ UNCHANGED <<status, mode, work, done, ctl, reqId>>
            BY <2>2 DEF OpenTurn
        <3>2. "persist" \in PCs /\ done[t] = <<>>
            BY <2>0 DEF PCs, PInv, ChainPlaced, HandsUsed
        <3> QED
            BY <2>0, <3>1, <3>2, ChainWaits
    <2> QED
        BY <1>1, <2>1, <2>2 DEF ResolveText
<1>2. CASE PersistOk(t)
    <2>0. /\ pc[t] = "persist" /\ pc[t] \in WithWork
          /\ NextInBatch(t, <<Cur(t)>>, controller \in aborted, status)
          /\ UNCHANGED <<queue, posted>>
        BY <1>2 DEF PersistOk, backlog, WithWork, PCs
    <2>1. Cur(t) \in Msgs /\ Cur(t) \in Held(t) /\ Cur(t) \in Open /\ Cur(t) \notin ToSet(Rest(t))
        BY <2>0, WorkInHand
    <2> DEFINE members == <<Cur(t)>>
    <2>2. members \in Seq(Msgs) /\ IsInjective(members) /\ ToSet(members) = {Cur(t)}
        BY <2>1, OneHolds
    <2>3. NextInBatch(t, members, controller \in aborted, status)
        BY <2>0
    <2> DEFINE S == {}
    <2>4. S \subseteq {Cur(t)} /\ S \cap ToSet(members) = {}
        OBVIOUS
    <2>5. ToSet(members) \cap ToSet(Rest(t)) = {}
        BY <2>1, <2>2
    <2>6. \A m \in Msgs : m \notin S => status[m] = status[m]
        OBVIOUS
    <2> HIDE DEF members, S
    <2> QED
        BY <2>0, <2>1, <2>2, <2>3, <2>4, <2>5, <2>6, NextInBatchPlaces
<1>3. ASSUME NEW o \in Outcomes, PersistFails(t, o) PROVE PInv' /\ Answered
    <2> DEFINE s == IF o = "dup" THEN "duplicate" ELSE "failed"
    <2>1. /\ pc[t] = "persist" /\ MoveOn(t) /\ Settle({Cur(t)}, s)
          /\ UNCHANGED <<queue, posted>>
        BY <1>3 DEF PersistFails, backlog
    <2>2. s \in Settled
        BY DEF Settled
    <2> HIDE DEF s
    <2> QED
        BY <2>1, <2>2, MoveOnPlaces
<1> QED
    BY <1>1, <1>2, <1>3 DEF HeadStep

(* The tails of a batch.                                                   *)
LEMMA TailStepPlaces ==
    ASSUME IInv, PInv, NEW t \in Msgs, TailStep(t)
    PROVE  PInv' /\ Answered
<1>0. ChainsOK
    BY DEF IInv, TypeOK
<1>d. /\ done[t] \in Seq(Msgs) /\ IsInjective(done[t]) /\ ToSet(done[t]) \subseteq Held(t)
      /\ ToSet(work[t]) \cap ToSet(done[t]) = {}
    BY <1>0 DEF ChainsOK, PInv, ChainPlaced, HandsApart, Held
<1>o. pc[t] # "commit" => ToSet(done[t]) \subseteq Open
    BY DEF PInv, ChainPlaced, HandsOpen
<1>1. CASE ResolveTail(t)
    <2>1. /\ pc[t] = "tailResolve" /\ Goto(t, "tailPersist") /\ "tailPersist" \in PCs
          /\ UNCHANGED <<queue, posted, status, mode, work, done, ctl, reqId>>
        BY <1>1 DEF ResolveTail, PCs, backlog
    <2> QED
        BY <2>1, ChainWaits
<1>2. CASE TailOk(t)
    <2> DEFINE members == Append(done[t], Cur(t))
    <2>0. /\ pc[t] = "tailPersist" /\ pc[t] \in WithWork
          /\ NextInBatch(t, members, controller \in aborted, status)
          /\ UNCHANGED <<queue, posted>>
        BY <1>2 DEF TailOk, backlog, WithWork, PCs
    <2>1. /\ Cur(t) \in Msgs /\ Cur(t) \in Held(t) /\ Cur(t) \in Open
          /\ Cur(t) \notin ToSet(Rest(t)) /\ Cur(t) \notin ToSet(done[t])
          /\ ToSet(work[t]) = {Cur(t)} \cup ToSet(Rest(t))
        BY <2>0, WorkInHand
    <2>2. members \in Seq(Msgs) /\ IsInjective(members) /\ ToSet(members) = ToSet(done[t]) \cup {Cur(t)}
        BY <1>d, <2>1, AppendHolds
    <2> DEFINE S == {}
    <2>4. S \subseteq {Cur(t)} /\ S \cap ToSet(members) = {}
        OBVIOUS
    <2>5. /\ ToSet(members) \cap ToSet(Rest(t)) = {}
          /\ ToSet(members) \subseteq Held(t) /\ ToSet(members) \subseteq Open
        BY <1>d, <1>o, <2>0, <2>1, <2>2
    <2>6. \A m \in Msgs : m \notin S => status[m] = status[m]
        OBVIOUS
    <2> HIDE DEF members, S
    <2> QED
        BY <2>0, <2>1, <2>2, <2>4, <2>5, <2>6, NextInBatchPlaces
<1>3. ASSUME NEW o \in Outcomes, TailFails(t, o) PROVE PInv' /\ Answered
    <2> DEFINE told == Telling(status, {Cur(t)},
                               IF o = "dup" THEN "duplicate" ELSE "failed")
    <2>0. /\ pc[t] = "tailPersist" /\ pc[t] \in WithWork
          /\ NextInBatch(t, done[t], FALSE, told)
          /\ UNCHANGED <<queue, posted>>
        BY <1>3 DEF TailFails, backlog, WithWork, PCs
    <2>1. /\ Cur(t) \notin ToSet(done[t])
          /\ ToSet(work[t]) = {Cur(t)} \cup ToSet(Rest(t))
        BY <2>0, WorkInHand
    <2> DEFINE S == {Cur(t)}
    <2>2. \A m \in Msgs : m \notin S => told[m] = status[m]
        BY DEF Telling
    <2>3. S \subseteq {Cur(t)} /\ S \cap ToSet(done[t]) = {}
        BY <2>1
    <2>4. ToSet(done[t]) \cap ToSet(Rest(t)) = {} /\ ToSet(done[t]) \subseteq Open
        BY <1>d, <1>o, <2>0, <2>1
    <2> HIDE DEF told, S
    <2> QED
        BY <1>d, <2>0, <2>2, <2>3, <2>4, NextInBatchPlaces
<1> QED
    BY <1>1, <1>2, <1>3 DEF TailStep

(* The end of a turn: its messages are answered, then let go.              *)
LEMMA TurnStepPlaces ==
    ASSUME IInv, PInv, NEW t \in Msgs, TurnStep(t)
    PROVE  PInv' /\ Answered
<1>0. ChainsOK /\ status \in [Msgs -> Statuses]
    BY DEF IInv, TypeOK, MessagesOK
<1>p. HandsApart(t) /\ HandsUsed(t) /\ HandsOpen(t)
    BY DEF PInv, ChainPlaced
<1>1. ASSUME NEW a \in {"replied", "cancelled", "failed"}, LoopEnds(t, a)
      PROVE  PInv' /\ Answered
    <2> DEFINE S == ToSet(done[t])
    <2>0. /\ pc[t] = "loop" /\ pc' = [pc EXCEPT ![t] = "commit"]
          /\ status' = Telling(status, S, a)
          /\ UNCHANGED <<queue, posted, mode, work, done, ctl, reqId>>
        BY <1>1 DEF LoopEnds, Goto, Settle, backlog
    <2>1. pc'[t] = "commit" /\ OnlyChain(t)
        BY <1>0, <2>0 DEF OnlyChain, ChainsOK
    <2>2. /\ \A m \in Msgs : m \notin S => status'[m] = status[m]
          /\ \A m \in Msgs : m \in S => status'[m] \in Settled
        BY <2>0 DEF Telling, Settled
    <2>3. S \subseteq Held(t) /\ S \subseteq Open /\ S \subseteq Msgs
        BY <1>0, <1>p, <2>0, HeldType DEF HandsOpen, Held
    <2>4. HandsApart(t)' /\ HandsUsed(t)' /\ Held(t)' \subseteq Held(t)
        BY <1>p, <2>0, <2>1 DEF HandsApart, HandsUsed, Held
    <2>5. HandsOpen(t)'
        <3>1. work'[t] = <<>> /\ done'[t] = done[t]
            BY <1>p, <2>0 DEF HandsUsed
        <3> QED
            BY <2>1, <2>2, <2>3, <3>1, EmptyHolds DEF HandsOpen
    <2> HIDE DEF S
    <2> QED
        BY <2>0, <2>1, <2>2, <2>3, <2>4, <2>5, ChainMoves DEF ChainPlaced
<1>2. CASE TurnFinally(t)
    <2> DEFINE S == {}
    <2>0. /\ pc[t] = "commit" /\ pc' = [pc EXCEPT ![t] = "drain"]
          /\ done' = [done EXCEPT ![t] = <<>>]
          /\ ctl' = [ctl EXCEPT ![t] = None]
          /\ reqId' = [reqId EXCEPT ![t] = None]
          /\ UNCHANGED <<queue, posted, status, mode, work>>
        BY <1>2 DEF TurnFinally, Goto, backlog
    <2>1. /\ pc'[t] = "drain" /\ done'[t] = <<>> /\ work'[t] = <<>> /\ mode'[t] = mode[t]
          /\ OnlyChain(t)
        BY <1>0, <1>p, <2>0 DEF OnlyChain, ChainsOK, HandsUsed
    <2>2. HandsApart(t)' /\ HandsUsed(t)' /\ HandsOpen(t)' /\ Held(t)' \subseteq Held(t)
        BY <1>p, <2>1, EmptyHolds, EmptySeq DEF HandsApart, HandsUsed, HandsOpen, Held
    <2>3. S \subseteq Held(t) /\ S \subseteq Open /\ \A m \in Msgs : m \notin S => status'[m] = status[m]
        BY <2>0
    <2> HIDE DEF S
    <2> QED
        BY <2>0, <2>1, <2>2, <2>3, ChainMoves DEF ChainPlaced
<1> QED
    BY <1>1, <1>2 DEF TurnStep

(* The message in hand is answered, and with it the hand is empty.         *)
LEMMA LeaveHandPlaces ==
    ASSUME IInv, PInv, NEW t \in Msgs,
           pc[t] \in {"slashPersist", "slashRun", "exchange", "exchangeReply"},
           NEW p \in {"none", "drain"}, Goto(t, p),
           NEW s \in Settled, Settle({Cur(t)}, s),
           work' = [work EXCEPT ![t] = <<>>],
           UNCHANGED <<queue, posted, mode, done, ctl, reqId>>
    PROVE  PInv' /\ Answered
<1>0. ChainsOK /\ pc[t] \in WithWork
    BY DEF IInv, TypeOK, WithWork, PCs
<1>p. HandsApart(t) /\ HandsUsed(t) /\ HandsOpen(t)
    BY DEF PInv, ChainPlaced
<1>1. /\ pc'[t] = p /\ done'[t] = <<>> /\ work'[t] = <<>> /\ mode'[t] = mode[t]
      /\ OnlyChain(t)
    BY <1>0, <1>p DEF OnlyChain, ChainsOK, HandsUsed, Goto
<1>2. HandsApart(t)' /\ HandsUsed(t)' /\ HandsOpen(t)' /\ Held(t)' \subseteq Held(t)
    BY <1>p, <1>1, EmptyHolds, EmptySeq DEF HandsApart, HandsUsed, HandsOpen, Held
<1> DEFINE S == {Cur(t)}
<1>3. S \subseteq Held(t) /\ S \subseteq Open
    BY <1>0, WorkInHand
<1>4. \A m \in Msgs : m \notin S => status'[m] = status[m]
    BY DEF Settle, Telling
<1> HIDE DEF S
<1> QED
    BY <1>0, <1>1, <1>2, <1>3, <1>4, ChainMoves DEF ChainPlaced

(* A slash command of the POST path.                                       *)
LEMMA PostStepPlaces ==
    ASSUME IInv, PInv, NEW t \in Msgs, PostStep(t)
    PROVE  PInv' /\ Answered
<1>p. HandsUsed(t)
    BY DEF PInv, ChainPlaced
<1>1. CASE ResolvePostSlash(t)
    <2>1. /\ pc[t] = "resolve" /\ Goto(t, "slashPersist") /\ "slashPersist" \in PCs
          /\ UNCHANGED <<queue, posted, status, mode, work, done, ctl, reqId>>
        BY <1>1 DEF ResolvePostSlash, PCs, backlog
    <2> QED
        BY <1>p, <2>1, ChainWaits DEF HandsUsed
<1>2. CASE SlashWritten(t)
    <2>1. /\ pc[t] = "slashPersist" /\ Goto(t, "slashRun") /\ "slashRun" \in PCs
          /\ UNCHANGED <<queue, posted, status, mode, work, done, ctl, reqId>>
        BY <1>2 DEF SlashWritten, PCs, backlog
    <2> QED
        BY <1>p, <2>1, ChainWaits DEF HandsUsed
<1>3. ASSUME NEW s \in Settled, LeaveSlash(t, s), pc[t] \in {"slashPersist", "slashRun"}
      PROVE  PInv' /\ Answered
    <2> DEFINE p == IF Kind(Cur(t)) = "info" /\ s # "replied" /\ ~processing
                    THEN "none" ELSE "drain"
    <2>1. /\ Goto(t, p) /\ Settle({Cur(t)}, s) /\ work' = [work EXCEPT ![t] = <<>>]
          /\ UNCHANGED <<queue, posted, mode, done, ctl, reqId>>
        BY <1>3 DEF LeaveSlash, backlog
    <2>2. p \in {"none", "drain"}
        OBVIOUS
    <2> HIDE DEF p
    <2> QED
        BY <1>3, <2>1, <2>2, LeaveHandPlaces
<1>4. ASSUME NEW o \in Outcomes, SlashFails(t, o) PROVE PInv' /\ Answered
    BY <1>3, <1>4 DEF SlashFails, Settled
<1>5. ASSUME NEW a \in {"replied", "failed"}, SlashReplies(t, a) PROVE PInv' /\ Answered
    BY <1>3, <1>5 DEF SlashReplies, Settled
<1> QED
    BY <1>1, <1>2, <1>4, <1>5 DEF PostStep

(* The chain takes messages from the queue.                                *)
LEMMA HandPlaces ==
    ASSUME IInv, PInv, NEW t \in Msgs, pc[t] \in {"drain", "shift"},
           NEW n \in 1 .. Len(queue), Hand(t, n),
           UNCHANGED <<posted, status, done, ctl, reqId>>
    PROVE  PInv' /\ Answered
<1>0. ChainsOK /\ queue \in Seq(Msgs)
    BY DEF IInv, TypeOK, SequencesOK
<1>p. HandsApart(t) /\ HandsUsed(t) /\ HandsOpen(t)
    BY DEF PInv, ChainPlaced
<1> DEFINE taken == SubSeq(queue, 1, n)
           left  == SubSeq(queue, n + 1, Len(queue))
<1>1. /\ work' = [work EXCEPT ![t] = taken] /\ queue' = left
      /\ mode' = [mode EXCEPT ![t] = IF n > 1 THEN "batch" ELSE "single"]
      /\ pc' = [pc EXCEPT ![t] = "resolve"]
    BY DEF Hand, Goto
<1>2. n \in 0 .. Len(queue) /\ n \in Nat
    BY <1>0, LenProperties
<1>3. taken \in Seq(Msgs) /\ left \in Seq(Msgs) /\ queue = taken \o left /\ Len(taken) = n
    BY <1>0, <1>2, CutHolds
<1> HIDE DEF taken, left
<1>4. /\ ToSet(queue) = ToSet(taken) \cup ToSet(left)
      /\ IsInjective(queue) <=> /\ IsInjective(taken) /\ IsInjective(left)
                                /\ ToSet(taken) \cap ToSet(left) = {}
    <2>1. /\ ToSet(taken \o left) = ToSet(taken) \cup ToSet(left)
          /\ IsInjective(taken \o left) <=> /\ IsInjective(taken) /\ IsInjective(left)
                                            /\ ToSet(taken) \cap ToSet(left) = {}
        BY <1>3, ConcatHolds
    <2> QED
        BY <1>3, <2>1
<1>5. /\ IsInjective(taken) /\ IsInjective(left) /\ ToSet(taken) \cap ToSet(left) = {}
      /\ ToSet(queue) \subseteq Open
    BY <1>4 DEF PInv, QueuePlaced
<1>6. /\ pc'[t] = "resolve" /\ work'[t] = taken /\ done'[t] = <<>> /\ work[t] = <<>> /\ done[t] = <<>>
      /\ mode'[t] = IF n > 1 THEN "batch" ELSE "single"
      /\ OnlyChain(t)
    BY <1>0, <1>p, <1>1 DEF OnlyChain, ChainsOK, HandsUsed
<1>7. Held(t)' = ToSet(taken) /\ Held(t) = {}
    BY <1>6, EmptyHolds DEF Held
<1>8. \A u \in Msgs : u # t => Held(u)' = Held(u)
    BY <1>6 DEF OnlyChain, Held
<1>9. Open' = Open
    BY DEF Open
<1>10. ChainPlaced(t)'
    <2>1. HandsApart(t)' /\ HandsOpen(t)'
        BY <1>4, <1>5, <1>6, <1>9, EmptyHolds DEF HandsApart, HandsOpen
    <2>2. HandsUsed(t)'
        BY <1>2, <1>3, <1>6 DEF HandsUsed
    <2> QED
        BY <2>1, <2>2 DEF ChainPlaced
<1>11. ASSUME NEW u \in Msgs, u # t PROVE ChainPlaced(u)'
    <2>1. /\ work'[u] = work[u] /\ done'[u] = done[u]
          /\ pc'[u] = pc[u] /\ mode'[u] = mode[u]
        BY <1>6, <1>11 DEF OnlyChain
    <2> QED
        BY <1>9, <2>1 DEF PInv, ChainPlaced, HandsApart, HandsUsed, HandsOpen
<1>12. QueuePlaced'
    BY <1>1, <1>4, <1>5, <1>9 DEF QueuePlaced
<1>13. Apart'
    <2>1. \A u \in Msgs : u # t => Held(u) \cap ToSet(queue) = {}
        BY DEF PInv, Apart
    <2>2. \A u \in Msgs : Held(u)' \cap ToSet(queue)' = {}
        BY <1>1, <1>4, <1>5, <1>7, <1>8, <2>1
    <2>3. \A u, v \in Msgs : u # v => Held(u)' \cap Held(v)' = {}
        BY <1>4, <1>7, <1>8, <2>1 DEF PInv, Apart
    <2> QED
        BY <2>2, <2>3 DEF Apart
<1>14. NewOnes' /\ Answered
    BY <1>6 DEF NewOnes, PInv, OnlyChain, Answered
<1> QED
    BY <1>10, <1>11, <1>12, <1>13, <1>14 DEF PInv

(* Draining moves messages from the queue to a hand.                        *)
LEMMA DrainStepPlaces ==
    ASSUME IInv, PInv, NEW t \in Msgs, DrainStep(t)
    PROVE  PInv' /\ Answered
<1>p. HandsUsed(t)
    BY DEF PInv, ChainPlaced
<1>q. queue \in Seq(Msgs)
    BY DEF IInv, TypeOK, SequencesOK
<1>0. /\ queue # <<>> => 1 \in 1 .. Len(queue)
      /\ \A n \in 0 .. Len(queue) : n > 0 => n \in 1 .. Len(queue)
    BY <1>q, EmptySeq, LenProperties
<1>1. CASE DrainQueue(t) \/ DrainShift(t)
    <2>0. pc[t] \in {"drain", "shift"} /\ UNCHANGED <<posted, status, done, ctl, reqId>>
        BY <1>1 DEF DrainQueue, DrainShift
    <2>1. CASE UNCHANGED <<queue, mode, work>> /\ \E p \in {"none", "shift"} : Goto(t, p)
        <3>1. PICK p \in {"none", "shift"} : Goto(t, p)
            BY <2>1
        <3>2. p \in PCs /\ p # "commit" /\ work[t] = <<>> /\ done[t] = <<>>
            BY <1>p, <2>0 DEF PCs, HandsUsed
        <3> QED
            BY <2>0, <2>1, <3>1, <3>2, ChainWaits
    <2>2. CASE \E n \in 1 .. Len(queue) : Hand(t, n)
        BY <2>0, <2>2, HandPlaces
    <2> QED
        BY <1>0, <1>1, <2>1, <2>2 DEF DrainQueue, DrainShift, DrainNothing
<1>2. CASE ResolveQueuedSlash(t)
    <2>1. /\ pc[t] = "resolve" /\ Goto(t, "exchange") /\ "exchange" \in PCs
          /\ UNCHANGED <<queue, posted, status, mode, work, done, ctl, reqId>>
        BY <1>2 DEF ResolveQueuedSlash, PCs, backlog
    <2> QED
        BY <1>p, <2>1, ChainWaits DEF HandsUsed
<1>3. CASE ExchangeWritten(t)
    <2>1. /\ pc[t] = "exchange" /\ Goto(t, "exchangeReply") /\ "exchangeReply" \in PCs
          /\ UNCHANGED <<queue, posted, status, mode, work, done, ctl, reqId>>
        BY <1>3 DEF ExchangeWritten, PCs, backlog
    <2> QED
        BY <1>p, <2>1, ChainWaits DEF HandsUsed
<1>4. ASSUME NEW a \in {"replied", "failed"}, ExchangeEnds(t, a) PROVE PInv' /\ Answered
    <2>1. /\ pc[t] \in {"exchange", "exchangeReply"} /\ Goto(t, "drain")
          /\ Settle({Cur(t)}, a) /\ work' = [work EXCEPT ![t] = <<>>]
          /\ UNCHANGED <<queue, posted, mode, done, ctl, reqId>>
        BY <1>4 DEF ExchangeEnds, backlog
    <2>2. a \in Settled
        BY DEF Settled
    <2> QED
        BY <2>1, <2>2, LeaveHandPlaces
<1> QED
    BY <1>1, <1>2, <1>3, <1>4 DEF DrainStep

-----------------------------------------------------------------------------
(* A message that arrives is nowhere yet.                                  *)
LEMMA NewIsNowhere ==
    ASSUME IInv, PInv, NEW m \in Msgs, status[m] = "new"
    PROVE  /\ m \notin ToSet(queue)
           /\ \A t \in Msgs : m \notin Held(t)
<1>1. m \notin Open /\ "new" \notin Settled
    BY OpenIsNotSettled DEF Open
<1>2. ASSUME NEW t \in Msgs PROVE m \notin Held(t)
    <2>1. HandsOpen(t)
        BY DEF PInv, ChainPlaced
    <2> QED
        BY <1>1, <2>1 DEF HandsOpen, Held
<1> QED
    BY <1>1, <1>2 DEF PInv, QueuePlaced

(* A message that is posted is queued, in hand, or answered at once.        *)
LEMMA PostPlaces ==
    ASSUME IInv, PInv, Post
    PROVE  PInv' /\ Answered
<1>0. ChainsOK /\ queue \in Seq(Msgs) /\ posted \in Nat /\ status \in [Msgs -> Statuses]
    BY NAssumption DEF IInv, TypeOK, SequencesOK, MessagesOK
<1>m. PICK m \in Msgs : /\ m = posted + 1
                        /\ PostQueued(m) \/ PostRejected(m) \/ PostIdle(m)
    BY <1>0, NAssumption DEF Post, Msgs
<1>1. m \in Msgs /\ posted' = m /\ m > posted
    <2>1. posted' = posted + 1
        BY DEF Post
    <2>2. m = posted + 1
        BY <1>m
    <2>3. posted + 1 > posted
        BY <1>0
    <2> QED
        BY <2>1, <2>2, <2>3
<1>2. status[m] = "new" /\ pc[m] = "none"
    BY <1>1 DEF PInv, NewOnes
<1>3. m \notin ToSet(queue) /\ \A t \in Msgs : m \notin Held(t)
    BY <1>1, <1>2, NewIsNowhere
<1>4. \A k \in Msgs : k > posted' => k > posted /\ k # m
    BY <1>0, <1>1 DEF Msgs
<1>5. PICK s \in {"open", "rejected"} : Settle({m}, s)
    BY <1>m DEF PostQueued, PostRejected, PostIdle
<1>6. status' = [k \in Msgs |-> IF k = m THEN s ELSE status[k]]
    BY <1>5 DEF Settle, Telling
<1>7. Answered
    BY <1>2, <1>6, OpenIsNotSettled DEF Answered
<1>8. \A k \in Msgs : k # m => (k \in Open' <=> k \in Open)
    BY <1>6 DEF Open
<1>9. CASE UNCHANGED chains
    <2>1. \A t \in Msgs : ChainPlaced(t)'
        <3> TAKE t \in Msgs
        <3>1. HandsApart(t) /\ HandsUsed(t) /\ HandsOpen(t)
            BY DEF PInv, ChainPlaced
        <3>2. HandsApart(t)' /\ HandsUsed(t)'
            BY <1>9, <3>1 DEF HandsApart, HandsUsed, chains
        <3>3. \A k \in ToSet(done[t]) : k \in Msgs /\ k # m
            BY <1>0, <1>3, HeldType DEF Held
        <3>4. \A k \in ToSet(work[t]) : k \in Msgs /\ k # m
            BY <1>0, <1>3, HeldType DEF Held
        <3>5. HandsOpen(t)'
            BY <1>6, <1>8, <1>9, <3>1, <3>3, <3>4 DEF HandsOpen, chains
        <3> QED
            BY <3>2, <3>5 DEF ChainPlaced
    <2>2. \A t \in Msgs : Held(t)' = Held(t)
        BY <1>9 DEF Held, chains
    <2>3. NewOnes'
        BY <1>4, <1>6, <1>9 DEF NewOnes, PInv, chains
    <2>4. ToSet(queue) \subseteq Msgs
        BY <1>0, ElementsOf
    <2>5. CASE queue' = Append(queue, m) /\ s = "open"
        <3>1. ToSet(queue') = ToSet(queue) \cup {m} /\ IsInjective(queue')
            BY <1>0, <1>1, <1>3, <2>5, AppendHolds DEF PInv, QueuePlaced
        <3>2. QueuePlaced'
            <4>1. m \in Open'
                BY <1>1, <1>6, <2>5 DEF Open
            <4> QED
                BY <1>3, <1>8, <2>4, <3>1, <4>1 DEF QueuePlaced, PInv
        <3>3. Apart'
            BY <1>3, <2>2, <3>1 DEF Apart, PInv
        <3> QED
            BY <1>7, <2>1, <2>3, <3>2, <3>3 DEF PInv
    <2>6. CASE queue' = queue
        <3>1. QueuePlaced'
            BY <1>3, <1>8, <2>4, <2>6 DEF QueuePlaced, PInv
        <3>2. Apart'
            BY <2>2, <2>6 DEF Apart, PInv
        <3> QED
            BY <1>7, <2>1, <2>3, <3>1, <3>2 DEF PInv
    <2>7. PostQueued(m) \/ PostRejected(m)
        <3>1. PostIdle(m) => work' = [work EXCEPT ![m] = <<m>>] /\ Goto(m, "resolve")
            BY DEF PostIdle
        <3>2. ~PostIdle(m)
            BY <1>0, <1>1, <1>2, <1>9, <3>1 DEF chains, Goto, ChainsOK
        <3> QED
            BY <1>m, <3>2
    <2>8. (queue' = Append(queue, m) /\ s = "open") \/ queue' = queue
        <3>1. CASE PostQueued(m)
            <4>1. Settle({m}, "open") /\ queue' = Append(queue, m)
                BY <3>1 DEF PostQueued, Enqueue
            <4>2. status'[m] = "open" /\ status'[m] = s
                BY <1>1, <1>6, <4>1 DEF Settle, Telling
            <4> QED
                BY <4>1, <4>2
        <3>2. CASE PostRejected(m)
            BY <3>2 DEF PostRejected, backlog
        <3> QED
            BY <2>7, <3>1, <3>2
    <2> QED
        BY <2>5, <2>6, <2>8
<1>10. CASE PostIdle(m)
    <2>0. /\ pc' = [pc EXCEPT ![m] = "resolve"]
          /\ mode' = [mode EXCEPT ![m] = "post"]
          /\ work' = [work EXCEPT ![m] = <<m>>]
          /\ UNCHANGED <<queue, done, ctl, reqId>>
          /\ Settle({m}, "open")
        BY <1>10 DEF PostIdle, Goto, backlog
    <2>1. status'[m] = "open"
        BY <1>1, <2>0 DEF Settle, Telling
    <2>2. /\ pc'[m] = "resolve" /\ work'[m] = <<m>> /\ done'[m] = done[m]
          /\ \A u \in Msgs : u # m => /\ pc'[u] = pc[u] /\ mode'[u] = mode[u]
                                      /\ work'[u] = work[u] /\ done'[u] = done[u]
        BY <1>0, <1>1, <2>0 DEF ChainsOK
    <2>3. done[m] = <<>>
        BY <1>1, <1>2 DEF PInv, ChainPlaced, HandsUsed
    <2>4. /\ ToSet(work'[m]) = {m} /\ IsInjective(work'[m]) /\ Len(work'[m]) = 1
        BY <1>1, <2>2, OneHolds
    <2>5. m \in Open'
        BY <1>1, <2>1 DEF Open
    <2>6. ChainPlaced(m)'
        <3>1. HandsApart(m)' /\ HandsOpen(m)'
            BY <2>2, <2>3, <2>4, <2>5, EmptyHolds DEF HandsApart, HandsOpen
        <3>2. HandsUsed(m)'
            BY <2>2, <2>3, <2>4 DEF HandsUsed
        <3> QED
            BY <3>1, <3>2 DEF ChainPlaced
    <2>7. Held(m)' = {m} /\ \A u \in Msgs : u # m => Held(u)' = Held(u)
        BY <2>2, <2>3, <2>4, EmptyHolds DEF Held
    <2>8. ASSUME NEW t \in Msgs, t # m PROVE ChainPlaced(t)'
        <3>1. HandsApart(t) /\ HandsUsed(t) /\ HandsOpen(t)
            BY DEF PInv, ChainPlaced
        <3>0. /\ pc'[t] = pc[t] /\ mode'[t] = mode[t]
              /\ work'[t] = work[t] /\ done'[t] = done[t]
            BY <2>2, <2>8
        <3>2. HandsApart(t)' /\ HandsUsed(t)'
            BY <3>0, <3>1 DEF HandsApart, HandsUsed
        <3>3. \A k \in ToSet(done[t]) : k \in Msgs /\ k # m
            BY <1>0, <1>3, HeldType DEF Held
        <3>4. \A k \in ToSet(work[t]) : k \in Msgs /\ k # m
            BY <1>0, <1>3, HeldType DEF Held
        <3>5. HandsOpen(t)'
            BY <1>6, <1>8, <3>0, <3>1, <3>3, <3>4 DEF HandsOpen
        <3> QED
            BY <3>2, <3>5 DEF ChainPlaced
    <2>9. QueuePlaced'
        <3>1. ToSet(queue) \subseteq Msgs
            BY <1>0, ElementsOf
        <3> QED
            BY <1>3, <1>8, <2>0, <3>1 DEF QueuePlaced, PInv
    <2>10. Apart'
        BY <1>3, <2>0, <2>7 DEF Apart, PInv
    <2>11. NewOnes'
        BY <1>4, <1>6, <2>2 DEF NewOnes, PInv
    <2> QED
        BY <1>7, <2>6, <2>8, <2>9, <2>10, <2>11 DEF PInv
<1> QED
    BY <1>m, <1>9, <1>10 DEF PostQueued, PostRejected

(* What the user takes out of the queue, or moves in it.                   *)
LEMMA QueueMoves ==
    ASSUME IInv, PInv, UNCHANGED <<chains, posted>>,
           IsInjective(queue'), ToSet(queue') \subseteq ToSet(queue),
           NEW S, S \subseteq ToSet(queue), S \cap ToSet(queue') = {},
           \A m \in Msgs : m \notin S => status'[m] = status[m]
    PROVE  PInv' /\ Answered
<1>0. ChainsOK /\ queue \in Seq(Msgs)
    BY DEF IInv, TypeOK, SequencesOK
<1>1. ToSet(queue) \subseteq Open /\ ToSet(queue) \subseteq Msgs
    BY <1>0, ElementsOf DEF PInv, QueuePlaced
<1>2. \A m \in Msgs : m \notin S => (m \in Open' <=> m \in Open)
    BY DEF Open
<1>3. \A t \in Msgs : Held(t)' = Held(t) /\ Held(t) \cap S = {} /\ Held(t) \cap ToSet(queue) = {}
    BY DEF Held, PInv, Apart, chains
<1>4. ASSUME NEW t \in Msgs PROVE ChainPlaced(t)'
    <2>1. HandsApart(t) /\ HandsUsed(t) /\ HandsOpen(t)
        BY DEF PInv, ChainPlaced
    <2>2. HandsApart(t)' /\ HandsUsed(t)'
        BY <2>1 DEF HandsApart, HandsUsed, chains
    <2>3. \A k \in ToSet(done[t]) : k \in Msgs /\ k \notin S
        BY <1>0, <1>3, HeldType DEF Held
    <2>4. \A k \in ToSet(work[t]) : k \in Msgs /\ k \notin S
        BY <1>0, <1>3, HeldType DEF Held
    <2>5. HandsOpen(t)'
        BY <1>2, <2>1, <2>3, <2>4 DEF HandsOpen, chains
    <2> QED
        BY <2>2, <2>5 DEF ChainPlaced
<1>5. QueuePlaced'
    BY <1>1, <1>2 DEF QueuePlaced
<1>6. Apart'
    BY <1>3 DEF Apart, PInv
<1>7. NewOnes' /\ Answered
    BY <1>1, OpenIsNotSettled DEF NewOnes, PInv, chains, Answered, Open
<1> QED
    BY <1>4, <1>5, <1>6, <1>7 DEF PInv

(* Removing the i-th message of a queue that repeats none.                 *)
LEMMA RemoveApart ==
    ASSUME NEW q \in Seq(Msgs), NEW i \in 1 .. Len(q), IsInjective(q)
    PROVE  /\ q[i] \in Msgs /\ RemoveFrom(q, i) \in Seq(Msgs)
           /\ ToSet(q) = {q[i]} \cup ToSet(RemoveFrom(q, i))
           /\ q[i] \notin ToSet(RemoveFrom(q, i))
           /\ IsInjective(RemoveFrom(q, i))
<1>1. PICK a \in Seq(Msgs), b \in Seq(Msgs) :
          q = a \o (<<q[i]>> \o b) /\ RemoveFrom(q, i) = a \o b /\ q[i] \in Msgs
    BY RemoveHolds
<1> DEFINE o == <<q[i]>>
           k == q[i]
<1>2. o \in Seq(Msgs) /\ ToSet(o) = {k} /\ k \in Msgs
    BY <1>1, OneHolds
<1>3. q = a \o (o \o b)
    BY <1>1
<1> HIDE DEF o, k
<1>4. /\ o \o b \in Seq(Msgs)
      /\ ToSet(o \o b) = ToSet(o) \cup ToSet(b)
      /\ IsInjective(o \o b) <=> IsInjective(o) /\ IsInjective(b) /\ ToSet(o) \cap ToSet(b) = {}
    BY <1>2, ConcatHolds
<1>5. /\ ToSet(a \o (o \o b)) = ToSet(a) \cup ToSet(o \o b)
      /\ IsInjective(a \o (o \o b)) <=>
            IsInjective(a) /\ IsInjective(o \o b) /\ ToSet(a) \cap ToSet(o \o b) = {}
    BY <1>4, ConcatHolds
<1>6. /\ a \o b \in Seq(Msgs)
      /\ ToSet(a \o b) = ToSet(a) \cup ToSet(b)
      /\ IsInjective(a \o b) <=> IsInjective(a) /\ IsInjective(b) /\ ToSet(a) \cap ToSet(b) = {}
    BY ConcatHolds
<1>7. /\ RemoveFrom(q, i) \in Seq(Msgs) /\ ToSet(q) = {k} \cup ToSet(RemoveFrom(q, i))
      /\ k \notin ToSet(RemoveFrom(q, i)) /\ IsInjective(RemoveFrom(q, i))
    BY <1>1, <1>2, <1>3, <1>4, <1>5, <1>6
<1> QED
    BY <1>2, <1>7 DEF k

(* The user's controls answer what they take out of the queue.              *)
LEMMA ControlPlaces ==
    ASSUME IInv, PInv, Cancel \/ Steer \/ Delete
    PROVE  PInv' /\ Answered
<1>0. queue \in Seq(Msgs) /\ IsInjective(queue)
    BY DEF IInv, TypeOK, SequencesOK, PInv, QueuePlaced
<1>u. UNCHANGED <<chains, posted>>
    BY DEF Cancel, Steer, Delete
<1>1. CASE Cancel
    <2> DEFINE S == ToSet(queue)
    <2>1. queue' = <<>> /\ Settle(S, "cancelled")
        BY <1>1 DEF Cancel
    <2>2. \A m \in Msgs : m \notin S => status'[m] = status[m]
        BY <2>1 DEF Settle, Telling
    <2>3. /\ IsInjective(queue') /\ ToSet(queue') \subseteq ToSet(queue)
          /\ S \subseteq ToSet(queue) /\ S \cap ToSet(queue') = {}
        BY <2>1, EmptyHolds
    <2> HIDE DEF S
    <2> QED
        BY <1>u, <2>2, <2>3, QueueMoves
<1>2. CASE Steer
    <2>1. PICK i \in 1 .. Len(queue) :
              queue' = <<queue[i]>> \o RemoveFrom(queue, i) /\ UNCHANGED status
        BY <1>2 DEF Steer
    <2>2. /\ queue[i] \in Msgs /\ RemoveFrom(queue, i) \in Seq(Msgs)
          /\ ToSet(queue) = {queue[i]} \cup ToSet(RemoveFrom(queue, i))
          /\ queue[i] \notin ToSet(RemoveFrom(queue, i))
          /\ IsInjective(RemoveFrom(queue, i))
        BY <1>0, RemoveApart
    <2>3. /\ <<queue[i]>> \in Seq(Msgs) /\ ToSet(<<queue[i]>>) = {queue[i]}
          /\ IsInjective(<<queue[i]>>)
        BY <2>2, OneHolds
    <2>4. /\ ToSet(queue') = ToSet(<<queue[i]>>) \cup ToSet(RemoveFrom(queue, i))
          /\ IsInjective(queue')
        <3> DEFINE o == <<queue[i]>>
                   r == RemoveFrom(queue, i)
        <3>1. o \in Seq(Msgs) /\ r \in Seq(Msgs) /\ queue' = o \o r
            BY <2>1, <2>2, <2>3
        <3>2. IsInjective(o) /\ IsInjective(r) /\ ToSet(o) \cap ToSet(r) = {}
            BY <2>2, <2>3
        <3> HIDE DEF o, r
        <3>3. ToSet(o \o r) = ToSet(o) \cup ToSet(r) /\ IsInjective(o \o r)
            BY <3>1, <3>2, ConcatHolds
        <3> QED
            BY <3>1, <3>3 DEF o, r
    <2> DEFINE S == {}
    <2>5. /\ S \subseteq ToSet(queue) /\ S \cap ToSet(queue') = {}
          /\ \A m \in Msgs : m \notin S => status'[m] = status[m]
        BY <2>1
    <2> HIDE DEF S
    <2> QED
        BY <1>u, <2>2, <2>3, <2>4, <2>5, QueueMoves
<1>3. CASE Delete
    <2>1. PICK i \in 1 .. Len(queue) :
              queue' = RemoveFrom(queue, i) /\ Settle({queue[i]}, "deleted")
        BY <1>3 DEF Delete
    <2>2. /\ queue[i] \in Msgs /\ RemoveFrom(queue, i) \in Seq(Msgs)
          /\ ToSet(queue) = {queue[i]} \cup ToSet(RemoveFrom(queue, i))
          /\ queue[i] \notin ToSet(RemoveFrom(queue, i))
          /\ IsInjective(RemoveFrom(queue, i))
        BY <1>0, RemoveApart
    <2> DEFINE S == {queue[i]}
    <2>3. \A m \in Msgs : m \notin S => status'[m] = status[m]
        BY <2>1 DEF Settle, Telling
    <2>4. S \subseteq ToSet(queue) /\ S \cap ToSet(queue') = {}
        BY <2>1, <2>2
    <2> HIDE DEF S
    <2> QED
        BY <1>u, <2>1, <2>2, <2>3, <2>4, QueueMoves
<1> QED
    BY <1>1, <1>2, <1>3

(* Every step keeps the places, and tells nobody twice.                    *)
LEMMA StepPlaces ==
    ASSUME IInv, PInv, [Next]_vars
    PROVE  PInv' /\ Answered
<1>1. CASE UNCHANGED vars
    BY <1>1 DEF vars, chains, backlog, PInv, ChainPlaced, HandsApart, HandsUsed, HandsOpen,
                QueuePlaced, Apart, NewOnes, Answered, Open, Held
<1>2. ASSUME NEW t \in Msgs, ChainStep(t) PROVE PInv' /\ Answered
    BY <1>2, PostStepPlaces, HeadStepPlaces, TailStepPlaces, TurnStepPlaces,
       DrainStepPlaces DEF ChainStep
<1> QED
    BY <1>1, <1>2, PostPlaces, ControlPlaces DEF Next

-----------------------------------------------------------------------------
(* The budget of the queue.                                                *)

(* The cost of what is left is the cost of the queue less what was taken.  *)
LEMMA RefundExact ==
    ASSUME IInv, BytesAccounted, NEW a \in Seq(Msgs), NEW b \in Seq(Msgs),
           queue = a \o b, queue' = b, RefundBytes(a), UNCHANGED shape
    PROVE  BytesAccounted'
<1>1. Sized
    BY DEF IInv, TypeOK, MessagesOK, Sized
<1>2. BytesOf(queue) = BytesOf(a) + BytesOf(b) /\ BytesOf(a) \in Int /\ BytesOf(b) \in Int
    BY <1>1, BytesOfConcat
<1>3. queueBytes' = BytesOf(b)
    <2>1. queueBytes = BytesOf(a) + BytesOf(b)
        BY <1>2 DEF BytesAccounted
    <2>2. queueBytes' = queueBytes - BytesOf(a)
        BY DEF RefundBytes
    <2> HIDE DEF BytesOf
    <2> QED
        BY <1>2, <2>1, <2>2
<1>4. BytesOf(queue)' = BytesOf(b)
    BY DEF BytesOf
<1> QED
    BY <1>3, <1>4 DEF BytesAccounted

(* What a drain takes is refunded.                                          *)
LEMMA HandBytes ==
    ASSUME IInv, BytesAccounted, NEW t, NEW n \in 0 .. Len(queue), Hand(t, n),
           UNCHANGED shape
    PROVE  BytesAccounted'
<1>1. queue \in Seq(Msgs)
    BY DEF IInv, TypeOK, SequencesOK
<1>2. /\ SubSeq(queue, 1, n) \in Seq(Msgs) /\ SubSeq(queue, n + 1, Len(queue)) \in Seq(Msgs)
      /\ queue = SubSeq(queue, 1, n) \o SubSeq(queue, n + 1, Len(queue))
    BY <1>1, CutHolds
<1>3. queue' = SubSeq(queue, n + 1, Len(queue)) /\ RefundBytes(SubSeq(queue, 1, n))
    BY DEF Hand
<1> QED
    BY <1>2, <1>3, RefundExact

(* A step that leaves the queue alone leaves its budget alone.             *)
LEMMA BytesStay ==
    ASSUME BytesAccounted, UNCHANGED <<shape, queue, queueBytes>>
    PROVE  BytesAccounted'
BY DEF BytesAccounted, BytesOf

(* No step of a chain loses count of the bytes.                             *)
LEMMA ChainStepBytes ==
    ASSUME IInv, BytesAccounted, NEW t \in Msgs, ChainStep(t)
    PROVE  BytesAccounted'
<1>0. queue \in Seq(Msgs)
    BY DEF IInv, TypeOK, SequencesOK
<1>1. CASE DrainQueue(t) \/ DrainShift(t)
    <2>1. UNCHANGED shape
        BY <1>1 DEF DrainQueue, DrainShift
    <2>2. queue # <<>> => 1 \in 0 .. Len(queue)
        BY <1>0, EmptySeq
    <2>3. UNCHANGED <<queue, queueBytes>> \/ \E n \in 0 .. Len(queue) : Hand(t, n)
        BY <1>1, <2>2 DEF DrainQueue, DrainShift, DrainNothing
    <2> QED
        BY <2>1, <2>3, BytesStay, HandBytes
<1>2. CASE ~(DrainQueue(t) \/ DrainShift(t))
    <2>1. CASE PostStep(t)
        BY <2>1, BytesStay DEF PostStep, ResolvePostSlash, SlashWritten, SlashFails,
           SlashReplies, LeaveSlash, backlog
    <2>2. CASE HeadStep(t)
        BY <2>2, BytesStay DEF HeadStep, ResolveText, PersistOk, PersistFails, backlog
    <2>3. CASE TailStep(t)
        BY <2>3, BytesStay DEF TailStep, ResolveTail, TailOk, TailFails, backlog
    <2>4. CASE TurnStep(t)
        BY <2>4, BytesStay DEF TurnStep, LoopEnds, TurnFinally, backlog
    <2>5. CASE DrainStep(t)
        BY <1>2, <2>5, BytesStay DEF DrainStep, ResolveQueuedSlash, ExchangeWritten,
           ExchangeEnds, backlog
    <2> QED
        BY <2>1, <2>2, <2>3, <2>4, <2>5 DEF ChainStep
<1> QED
    BY <1>1, <1>2

(* A post that queues its message charges its cost.                         *)
LEMMA PostBytes ==
    ASSUME IInv, BytesAccounted, Post
    PROVE  BytesAccounted'
<1> DEFINE m == posted + 1
<1>0. Sized /\ queue \in Seq(Msgs) /\ posted \in Nat
    BY NAssumption DEF IInv, TypeOK, SequencesOK, MessagesOK, Sized
<1>1. m \in Msgs /\ UNCHANGED shape
    BY <1>0, NAssumption DEF Post, Msgs
<1>2. CASE PostQueued(m)
    <2>1. queue' = Append(queue, m) /\ queueBytes' = queueBytes + shape[m].bytes
        BY <1>2 DEF PostQueued, Enqueue
    <2> HIDE DEF m
    <2>2. queue' = queue \o <<m>> /\ <<m>> \in Seq(Msgs)
        BY <1>0, <1>1, <2>1, AppendIsConcat, OneHolds
    <2>3. BytesOf(queue \o <<m>>) = BytesOf(queue) + BytesOf(<<m>>) /\ BytesOf(<<m>>) = shape[m].bytes
        BY <1>0, <1>1, <2>2, BytesOfConcat, BytesOfOne
    <2>4. BytesOf(queue)' = BytesOf(queue \o <<m>>)
        BY <1>1, <2>2 DEF BytesOf
    <2> QED
        BY <2>1, <2>3, <2>4 DEF BytesAccounted
<1>3. CASE PostRejected(m) \/ PostIdle(m)
    BY <1>1, <1>3, BytesStay DEF PostRejected, PostIdle, backlog
<1> QED
    BY <1>2, <1>3 DEF Post

(* Steering keeps the sum, deleting and stopping refund.                    *)
LEMMA ControlBytes ==
    ASSUME IInv, BytesAccounted, Cancel \/ Steer \/ Delete
    PROVE  BytesAccounted'
<1>0. Sized /\ Sized' /\ queue \in Seq(Msgs) /\ UNCHANGED shape
    BY DEF IInv, TypeOK, SequencesOK, MessagesOK, Sized, Cancel, Steer, Delete
<1>1. CASE Cancel
    <2>1. queue' = <<>> /\ queueBytes' = 0
        BY <1>1 DEF Cancel
    <2>2. BytesOf(queue)' = BytesOf(<<>>)
        BY <1>0, <2>1 DEF BytesOf
    <2> QED
        BY <1>0, <2>1, <2>2, BytesOfNone DEF BytesAccounted
<1>2. CASE Steer
    <2>1. PICK i \in 1 .. Len(queue) :
              queue' = <<queue[i]>> \o RemoveFrom(queue, i) /\ UNCHANGED queueBytes
        BY <1>2 DEF Steer
    <2>2. BytesOf(<<queue[i]>> \o RemoveFrom(queue, i)) = BytesOf(queue)
        BY <1>0, BytesOfRemove
    <2>3. BytesOf(queue)' = BytesOf(<<queue[i]>> \o RemoveFrom(queue, i))
        BY <1>0, <2>1 DEF BytesOf
    <2> QED
        BY <2>1, <2>2, <2>3 DEF BytesAccounted
<1>3. CASE Delete
    <2>1. PICK i \in 1 .. Len(queue) :
              queue' = RemoveFrom(queue, i) /\ RefundBytes(<<queue[i]>>)
        BY <1>3 DEF Delete
    <2>2. BytesOf(RemoveFrom(queue, i)) = BytesOf(queue) - BytesOf(<<queue[i]>>)
        BY <1>0, BytesOfRemove
    <2>3. BytesOf(queue)' = BytesOf(RemoveFrom(queue, i))
        BY <1>0, <2>1 DEF BytesOf
    <2> QED
        BY <2>1, <2>2, <2>3 DEF BytesAccounted, RefundBytes
<1> QED
    BY <1>1, <1>2, <1>3

(* No step loses count of the bytes.                                        *)
LEMMA StepBytes ==
    ASSUME IInv, BytesAccounted, [Next]_vars
    PROVE  BytesAccounted'
<1>1. CASE UNCHANGED vars
    BY <1>1, BytesStay DEF vars, backlog
<1> QED
    BY <1>1, PostBytes, ControlBytes, ChainStepBytes DEF Next

(* Both together, with the invariant of the chains.                        *)
AccountInv == IInv /\ PInv /\ BytesAccounted

(* The three parts hold in every reachable state.                           *)
LEMMA AccountInductive == Spec => []AccountInv
<1>1. Init => AccountInv
    <2> SUFFICES ASSUME Init PROVE AccountInv
        OBVIOUS
    <2>1. IInv /\ PInv
        BY InitInv, PlacesInit
    <2>2. Sized /\ queue = <<>> /\ queueBytes = 0
        BY DEF Init, Sized
    <2>3. BytesAccounted
        BY <2>2, BytesOfNone DEF BytesAccounted
    <2> QED
        BY <2>1, <2>3 DEF AccountInv
<1>2. AccountInv /\ [Next]_vars => AccountInv'
    BY StepInv, StepPlaces, StepBytes DEF AccountInv
<1> QED
    BY <1>1, <1>2, PTL DEF Spec

(* What PInv says of work and done separately is what OnePlace says of     *)
(* both together.                                                          *)
LEMMA PlacesAreOne ==
    ASSUME IInv, PInv
    PROVE  OnePlace
<1>1. \A t \in Msgs : ToSet(Hands(t)) = Held(t) /\ IsInjective(Hands(t))
    <2> TAKE t \in Msgs
    <2>1. work[t] \in Seq(Msgs) /\ done[t] \in Seq(Msgs)
        BY DEF IInv, TypeOK, ChainsOK
    <2>2. HandsApart(t)
        BY DEF PInv, ChainPlaced
    <2> QED
        BY <2>1, <2>2, ConcatHolds DEF Hands, Held, HandsApart
<1> QED
    BY <1>1 DEF OnePlace, PInv, QueuePlaced, Apart

(* Whatever arrives, whatever fails and whatever the user does, a message  *)
(* is queued once or in the hands of one chain once, never both, and the   *)
(* queue's byte counter is the exact cost of what is queued.               *)
THEOREM QueueExact == Spec => []QueueAccounted
<1>1. AccountInv => QueueAccounted
    BY PlacesAreOne DEF AccountInv, QueueAccounted
<1> QED
    BY <1>1, AccountInductive, PTL

(* Whatever arrives, whatever fails and whatever the user does, no client  *)
(* that was told the outcome of its message is told another one.           *)
THEOREM ToldOnce == Spec => SettledOnce
<1>1. AccountInv /\ [Next]_vars =>
          [\A m \in Msgs : status[m] \in Settled => status'[m] = status[m]]_vars
    BY StepPlaces DEF AccountInv, Answered
<1> QED
    BY <1>1, AccountInductive, PTL DEF Spec, SettledOnce

=============================================================================
