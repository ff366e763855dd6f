----------------------- MODULE ConversationOrderProofs -----------------------
(* Theorems about ConversationTurn that do not hold for every conversation *)
(* the daemon allows, each under a hypothesis on its messages: who owns    *)
(* the conversation and that nothing is forgotten when slash commands do   *)
(* not wait (SlashSync); no refusal, the order of the replies and the      *)
(* agreement of memory and database when all messages are plain text       *)
(* (TextSync).                                                             *)
EXTENDS ConversationTurnProofs

-----------------------------------------------------------------------------
(* A step of chain t.                                                      *)

(* A step of a chain moves that chain only, and only when it may run.      *)
LEMMA OneChainSteps ==
    ASSUME IInv, NEW t \in Msgs, ChainStep(t)
    PROVE  /\ OnlyChain(t) /\ UNCHANGED <<shape, posted>> /\ MayRun(t)
           /\ pc[t] # "none"
<1>0. ChainsOK
    BY DEF IInv, TypeOK
<1>1. CASE PostStep(t)
    BY <1>0, <1>1 DEF PostStep, ResolvePostSlash, SlashWritten, SlashFails, SlashReplies,
                      LeaveSlash, Goto, OnlyChain, ChainsOK
<1>2. CASE HeadStep(t)
    BY <1>0, <1>2 DEF HeadStep, ResolveText, RefuseHead, OpenTurn, PersistOk, PersistFails,
                      NextInBatch, RunAgentLoop, MoveOn, Goto, OnlyChain, ChainsOK
<1>3. CASE TailStep(t)
    BY <1>0, <1>3 DEF TailStep, ResolveTail, TailOk, TailFails,
                      NextInBatch, RunAgentLoop, Goto, OnlyChain, ChainsOK
<1>4. CASE TurnStep(t)
    BY <1>0, <1>4 DEF TurnStep, LoopEnds, TurnFinally, Goto, OnlyChain, ChainsOK
<1>5. CASE DrainStep(t)
    BY <1>0, <1>5 DEF DrainStep, DrainQueue, DrainShift, DrainNothing, Hand,
                      ResolveQueuedSlash, ExchangeWritten, ExchangeEnds, Goto, OnlyChain, ChainsOK
<1> QED
    BY <1>1, <1>2, <1>3, <1>4, <1>5 DEF ChainStep

-----------------------------------------------------------------------------
(* The owner of the conversation, when no slash command waits for I/O.     *)

(* The hypothesis: /compact and the commands that only answer reach their   *)
(* end without an await that lets another step in between.                  *)
SlashSync == \A s \in Shapes : s.kind \in {"info", "compact"} => s.kind \notin SlashIO

(* At most one chain is going to look at the flag next.                     *)
OneSoon        == \A t, u \in Msgs : Soon(t) /\ Soon(u) => t = u

(* A posted command that is resolved finds the conversation free.           *)
SlashFindsFree == \A t \in Msgs :
                      pc[t] = "resolve" /\ mode[t] = "post" /\ IsSlash(Cur(t)) => ~processing

(* A turn in progress has a controller.                                     *)
TurnControlled == \A t \in Msgs : HoldsTurn(t) => controller # None

(* The inductive invariant of the owner.                                    *)
OInv == OneSoon /\ SlashFindsFree /\ TurnControlled /\ TurnOwnsConversation

(* Initially no chain has started.                                         *)
LEMMA OwnerInit == Init => OInv
BY DEF Init, OInv, OneSoon, SlashFindsFree, TurnControlled, TurnOwnsConversation, Soon,
       AtMostOneTurn, TurnHoldsFlag, StopReachesTurn, HoldsTurn, HoldsSlash, HoldsFlag

(* A step of chain t that neither takes the conversation from another one  *)
(* nor leaves it without its flag and controller keeps the owner.          *)
LEMMA OwnerKept ==
    ASSUME SlashSync, IInv, OInv, NEW t \in Msgs,
           MayRun(t), OnlyChain(t), UNCHANGED shape,
           pc'[t] = "resolve" => mode'[t] # "post",
           HoldsFlag(t)' => processing' /\ \A u \in Msgs : HoldsFlag(u) => u = t,
           HoldsTurn(t)' => controller' # None,
           pc'[t] \in {"loop", "commit"} => controller' = ctl'[t],
           \/ UNCHANGED <<processing, controller>>
           \/ \A u \in Msgs : HoldsFlag(u) => u = t
    PROVE  OInv'
<1>0. /\ \A u \in Msgs : u # t =>
            /\ pc'[u] = pc[u] /\ mode'[u] = mode[u] /\ work'[u] = work[u] /\ ctl'[u] = ctl[u]
      /\ ChainsOK /\ HandsFull /\ shape \in [Msgs -> Shapes]
    BY DEF OnlyChain, IInv, TypeOK, MessagesOK
<1>1. \A u \in Msgs : u # t => ~Soon(u)
    BY DEF MayRun, Quiet, OInv, OneSoon
<1>2. \A u \in Msgs : u # t => Soon(u)' = Soon(u) /\ IsSlash(Cur(u))' = IsSlash(Cur(u))
    BY <1>0 DEF Soon, Kind, Cur, IsSlash
<1>3. OneSoon'
    BY <1>1, <1>2 DEF OneSoon
<1>4. SlashFindsFree'
    <2>1. ASSUME NEW u \in Msgs, u # t, pc[u] = "resolve", IsSlash(Cur(u)) PROVE FALSE
        <3>1. Cur(u) \in Msgs
            BY <1>0, <2>1, CurType DEF WithWork, PCs
        <3>2. Kind(Cur(u)) \notin SlashIO
            BY <1>0, <2>1, <3>1 DEF SlashSync, IsSlash, Kind
        <3> QED
            BY <1>1, <2>1, <3>2 DEF Soon
    <2> QED
        BY <1>0, <1>2, <2>1 DEF SlashFindsFree
<1>5. \A u \in Msgs : u # t => /\ HoldsFlag(u)' = HoldsFlag(u)
                               /\ HoldsTurn(u)' = HoldsTurn(u)
    BY <1>0 DEF HoldsFlag, HoldsTurn, HoldsSlash
<1>6. \A u \in Msgs : HoldsTurn(u) \/ pc[u] \in {"loop", "commit"} => HoldsFlag(u)
    BY DEF HoldsFlag, HoldsTurn
<1>7. TurnControlled'
    BY <1>5, <1>6 DEF TurnControlled, OInv
<1>8. AtMostOneTurn'
    BY <1>5 DEF AtMostOneTurn, TurnOwnsConversation, OInv
<1>9. TurnHoldsFlag'
    BY <1>5 DEF TurnHoldsFlag, TurnOwnsConversation, OInv
<1>10. StopReachesTurn'
    BY <1>0, <1>6 DEF StopReachesTurn, TurnOwnsConversation, OInv
<1> QED
    BY <1>3, <1>4, <1>7, <1>8, <1>9, <1>10 DEF OInv, TurnOwnsConversation

(* The turn of chain t goes on to its next tail or to the agent loop,      *)
(* which finds a controller.                                               *)
LEMMA NextInBatchOwns ==
    ASSUME SlashSync, IInv, OInv, NEW t \in Msgs, HoldsTurn(t),
           NEW members, NEW stop, NEW told, NextInBatch(t, members, stop, told),
           MayRun(t), OnlyChain(t), UNCHANGED shape
    PROVE  OInv' /\ pc'[t] # "none"
<1>0. ChainsOK
    BY DEF IInv, TypeOK
<1>1. HoldsFlag(t) /\ processing /\ controller # None /\ \A u \in Msgs : HoldsFlag(u) => u = t
    BY DEF HoldsFlag, OInv, TurnOwnsConversation, TurnHoldsFlag, TurnControlled, AtMostOneTurn
<1>2. UNCHANGED <<processing, controller>>
    BY DEF NextInBatch, RunAgentLoop, flags
<1>3. pc'[t] = "tailResolve" \/ (pc'[t] = "loop" /\ ctl'[t] = controller)
    BY <1>0, <1>1 DEF NextInBatch, RunAgentLoop, Goto, ChainsOK
<1> QED
    BY <1>1, <1>2, <1>3, OwnerKept

(* The steps of the first message of a turn keep one owner.                 *)
LEMMA HeadStepOwns ==
    ASSUME SlashSync, IInv, OInv, NEW t \in Msgs, HeadStep(t)
    PROVE  OInv'
<1>0. ChainsOK /\ HandsFull
    BY DEF IInv, TypeOK
<1>c. OnlyChain(t) /\ UNCHANGED shape /\ MayRun(t)
    BY OneChainSteps DEF ChainStep
<1>1. CASE ResolveText(t)
    <2>1. CASE RefuseHead(t)
        <3>1. /\ mode'[t] # "post" /\ pc'[t] = Resume(t) /\ UNCHANGED <<processing, controller>>
            BY <1>0, <2>1 DEF RefuseHead, MoveOn, Goto, ChainsOK, flags
        <3>2. Resume(t) \in {"none", "drain", "resolve"}
            BY DEF Resume
        <3>3. ~HoldsFlag(t)' /\ ~HoldsTurn(t)' /\ pc'[t] \notin {"loop", "commit"}
            BY <3>1, <3>2 DEF HoldsFlag, HoldsTurn, HoldsSlash
        <3> QED
            BY <1>c, <3>1, <3>3, OwnerKept
    <2>2. CASE OpenTurn(t)
        <3>1. pc[t] = "resolve" /\ pc[t] \in WithWork
            BY <1>1 DEF ResolveText, WithWork, PCs
        <3>2. Cur(t) \in Msgs
            BY <1>0, <3>1, CurType
        <3>3. pc'[t] = "persist" /\ processing' /\ controller' # None /\ ~processing
            BY <1>0, <2>2, <3>2, NoneIsNoMsg DEF OpenTurn, MayOpen, Goto, ChainsOK
        <3>4. \A u \in Msgs : ~HoldsFlag(u)
            BY <3>3 DEF OInv, TurnOwnsConversation, TurnHoldsFlag
        <3> QED
            BY <1>c, <3>3, <3>4, OwnerKept
    <2> QED
        BY <1>1, <2>1, <2>2 DEF ResolveText
<1>2. CASE PersistOk(t)
    <2>1. HoldsTurn(t) /\ NextInBatch(t, <<Cur(t)>>, controller \in aborted, status)
        BY <1>2 DEF PersistOk, HoldsTurn
    <2> QED
        BY <1>c, <2>1, NextInBatchOwns
<1>3. ASSUME NEW o \in Outcomes, PersistFails(t, o) PROVE OInv'
    <2>1. pc[t] = "persist" /\ MoveOn(t)
        BY <1>3 DEF PersistFails
    <2>2. mode'[t] # "post" /\ pc'[t] = Resume(t)
        BY <1>0, <2>1 DEF MoveOn, Goto, ChainsOK
    <2>3. Resume(t) \in {"none", "drain", "resolve"}
        BY DEF Resume
    <2>4. ~HoldsFlag(t)' /\ ~HoldsTurn(t)' /\ pc'[t] \notin {"loop", "commit"}
        BY <2>2, <2>3 DEF HoldsFlag, HoldsTurn, HoldsSlash
    <2>5. \A u \in Msgs : HoldsFlag(u) => u = t
        BY <2>1 DEF HoldsFlag, HoldsTurn, OInv, TurnOwnsConversation, AtMostOneTurn
    <2> QED
        BY <1>c, <2>2, <2>4, <2>5, OwnerKept
<1> QED
    BY <1>1, <1>2, <1>3 DEF HeadStep

(* So do those of the other messages of a batch,                            *)
LEMMA TailStepOwns ==
    ASSUME SlashSync, IInv, OInv, NEW t \in Msgs, TailStep(t)
    PROVE  OInv'
<1>0. ChainsOK
    BY DEF IInv, TypeOK
<1>c. OnlyChain(t) /\ UNCHANGED shape /\ MayRun(t)
    BY OneChainSteps DEF ChainStep
<1>h. HoldsTurn(t)
    BY DEF TailStep, ResolveTail, TailOk, TailFails, HoldsTurn
<1>1. CASE ResolveTail(t)
    <2>1. pc'[t] = "tailPersist" /\ UNCHANGED <<processing, controller>>
        BY <1>0, <1>1 DEF ResolveTail, Goto, ChainsOK, flags
    <2>2. processing /\ controller # None /\ \A u \in Msgs : HoldsFlag(u) => u = t
        BY <1>h DEF HoldsFlag, OInv, TurnOwnsConversation, TurnHoldsFlag, TurnControlled, AtMostOneTurn
    <2> QED
        BY <1>c, <2>1, <2>2, OwnerKept
<1>2. CASE TailOk(t)
    <2>1. NextInBatch(t, Append(done[t], Cur(t)), controller \in aborted, status)
        BY <1>2 DEF TailOk
    <2> QED
        BY <1>c, <1>h, <2>1, NextInBatchOwns
<1>3. ASSUME NEW o \in Outcomes, TailFails(t, o) PROVE OInv'
    <2>1. \E told : NextInBatch(t, done[t], FALSE, told)
        BY <1>3 DEF TailFails
    <2> QED
        BY <1>c, <1>h, <2>1, NextInBatchOwns
<1> QED
    BY <1>1, <1>2, <1>3 DEF TailStep

(* those of the agent loop and of what follows it,                          *)
LEMMA TurnStepOwns ==
    ASSUME SlashSync, IInv, OInv, NEW t \in Msgs, TurnStep(t)
    PROVE  OInv'
<1>0. ChainsOK
    BY DEF IInv, TypeOK
<1>c. OnlyChain(t) /\ UNCHANGED shape /\ MayRun(t)
    BY OneChainSteps DEF ChainStep
<1>h. pc[t] \in {"loop", "commit"} /\ HoldsTurn(t)
    BY DEF TurnStep, LoopEnds, TurnFinally, HoldsTurn
<1>o. /\ processing /\ controller # None /\ controller = ctl[t]
      /\ \A u \in Msgs : HoldsFlag(u) => u = t
    BY <1>h DEF HoldsFlag, OInv, TurnOwnsConversation, TurnHoldsFlag, TurnControlled,
                AtMostOneTurn, StopReachesTurn
<1>1. ASSUME NEW a, LoopEnds(t, a) PROVE OInv'
    <2>1. pc'[t] = "commit" /\ UNCHANGED <<processing, controller>> /\ ctl'[t] = ctl[t]
        BY <1>0, <1>1 DEF LoopEnds, Goto, ChainsOK, flags
    <2> QED
        BY <1>c, <1>o, <2>1, OwnerKept
<1>2. CASE TurnFinally(t)
    <2>1. pc'[t] = "drain"
        BY <1>0, <1>2 DEF TurnFinally, Goto, ChainsOK
    <2>2. ~HoldsFlag(t)' /\ ~HoldsTurn(t)'
        BY <2>1 DEF HoldsFlag, HoldsTurn, HoldsSlash
    <2> QED
        BY <1>c, <1>o, <2>1, <2>2, OwnerKept
<1> QED
    BY <1>1, <1>2 DEF TurnStep

(* those of a drain,                                                        *)
LEMMA DrainStepOwns ==
    ASSUME SlashSync, IInv, OInv, NEW t \in Msgs, DrainStep(t)
    PROVE  OInv'
<1>0. ChainsOK
    BY DEF IInv, TypeOK
<1>c. OnlyChain(t) /\ UNCHANGED shape /\ MayRun(t)
    BY OneChainSteps DEF ChainStep
<1>1. /\ pc'[t] \in {"none", "shift", "resolve", "exchange", "exchangeReply", "drain"}
      /\ pc'[t] = "resolve" => mode'[t] # "post"
      /\ UNCHANGED <<processing, controller>>
    BY <1>0 DEF DrainStep, DrainQueue, DrainShift, DrainNothing, Hand, ResolveQueuedSlash,
                ExchangeWritten, ExchangeEnds, Goto, ChainsOK, flags
<1>2. ~HoldsFlag(t)' /\ ~HoldsTurn(t)' /\ pc'[t] \notin {"loop", "commit"}
    BY <1>1 DEF HoldsFlag, HoldsTurn, HoldsSlash
<1> QED
    BY <1>c, <1>1, <1>2, OwnerKept

(* and those of a command that was posted.                                  *)
LEMMA PostStepOwns ==
    ASSUME SlashSync, IInv, OInv, NEW t \in Msgs, PostStep(t)
    PROVE  OInv'
<1>0. ChainsOK
    BY DEF IInv, TypeOK
<1>c. OnlyChain(t) /\ UNCHANGED shape /\ MayRun(t)
    BY OneChainSteps DEF ChainStep
<1>1. CASE ResolvePostSlash(t)
    <2>1. pc'[t] = "slashPersist" /\ processing' /\ ~processing
        BY <1>0, <1>1 DEF ResolvePostSlash, RaiseFlag, Goto, ChainsOK, OInv, SlashFindsFree
    <2>2. \A u \in Msgs : ~HoldsFlag(u)
        BY <2>1 DEF OInv, TurnOwnsConversation, TurnHoldsFlag
    <2>3. ~HoldsTurn(t)'
        BY <2>1 DEF HoldsTurn
    <2> QED
        BY <1>c, <2>1, <2>2, <2>3, OwnerKept
<1>2. CASE HoldsSlash(t)
    <2>1. processing /\ \A u \in Msgs : HoldsFlag(u) => u = t
        BY <1>2 DEF HoldsFlag, OInv, TurnOwnsConversation, TurnHoldsFlag, AtMostOneTurn
    <2>2. pc'[t] \in {"slashRun", "none", "drain"} /\ (pc'[t] = "slashRun" => processing')
        BY <1>0, <1>2, <2>1 DEF PostStep, ResolvePostSlash, SlashWritten, SlashFails,
           SlashReplies, LeaveSlash, Goto, ChainsOK, flags, HoldsSlash
    <2>3. ~HoldsTurn(t)' /\ (HoldsFlag(t)' => processing')
        BY <2>2 DEF HoldsFlag, HoldsTurn, HoldsSlash
    <2> QED
        BY <1>c, <2>1, <2>2, <2>3, OwnerKept
<1>3. ResolvePostSlash(t) \/ HoldsSlash(t)
    BY DEF PostStep, SlashWritten, SlashFails, SlashReplies, HoldsSlash
<1> QED
    BY <1>1, <1>2, <1>3

(* A message arrives, or the user intervenes, when nothing runs soon.      *)
LEMMA OutsideOwns ==
    ASSUME IInv, PInv, OInv, Post \/ Cancel \/ Steer \/ Delete
    PROVE  OInv'
<1>0. ChainsOK /\ Quiet /\ UNCHANGED <<shape, processing, controller, ctl>>
    BY DEF IInv, TypeOK, Post, PostQueued, PostRejected, PostIdle,
           Cancel, Steer, Delete, flags, chains
<1>1. CASE UNCHANGED chains
    BY <1>0, <1>1 DEF chains, OInv, OneSoon, SlashFindsFree, TurnControlled, TurnOwnsConversation,
       Soon, AtMostOneTurn, TurnHoldsFlag, StopReachesTurn, HoldsTurn, HoldsSlash, HoldsFlag,
       IsSlash, Kind, Cur
<1>2. ASSUME Post, PostIdle(posted + 1) PROVE OInv'
    <2>1. PICK m \in Msgs : m = posted + 1 /\ m > posted
        BY <1>2, NAssumption DEF Post, IInv, TypeOK, MessagesOK, Msgs
    <2>2. pc[m] = "none"
        BY <2>1 DEF PInv, NewOnes
    <2>3. /\ ~processing /\ pc'[m] = "resolve" /\ mode'[m] = "post"
          /\ \A u \in Msgs : u # m => /\ pc'[u] = pc[u] /\ mode'[u] = mode[u]
                                      /\ work'[u] = work[u]
        BY <1>0, <1>2, <2>1 DEF PostIdle, Goto, ChainsOK
    <2>4. \A u \in Msgs : u # m => ~Soon(u)'
        BY <1>0, <2>3 DEF Quiet, Soon, Kind, Cur
    <2>5. \A u \in Msgs : ~HoldsFlag(u)'
        BY <2>3 DEF OInv, TurnOwnsConversation, TurnHoldsFlag, HoldsFlag, HoldsTurn, HoldsSlash
    <2>6. OneSoon' /\ SlashFindsFree'
        BY <1>0, <2>3, <2>4 DEF OneSoon, SlashFindsFree
    <2> QED
        BY <2>5, <2>6 DEF OInv, TurnControlled, TurnOwnsConversation, AtMostOneTurn,
                          TurnHoldsFlag, StopReachesTurn, HoldsFlag, HoldsTurn
<1> QED
    BY <1>1, <1>2 DEF Post, PostQueued, PostRejected, Cancel, Steer, Delete

(* Every step keeps one owner.                                              *)
LEMMA StepOwns ==
    ASSUME SlashSync, IInv, PInv, OInv, [Next]_vars
    PROVE  OInv'
<1>1. CASE UNCHANGED vars
    BY <1>1 DEF vars, flags, chains, OInv, OneSoon, SlashFindsFree, TurnControlled,
       TurnOwnsConversation, Soon, AtMostOneTurn, TurnHoldsFlag, StopReachesTurn, HoldsTurn,
       HoldsSlash, HoldsFlag, IsSlash, Kind, Cur
<1>2. ASSUME NEW t \in Msgs, ChainStep(t) PROVE OInv'
    BY <1>2, PostStepOwns, HeadStepOwns, TailStepOwns, TurnStepOwns, DrainStepOwns DEF ChainStep
<1> QED
    BY <1>1, <1>2, OutsideOwns DEF Next

(* One owner, in every reachable state.                                     *)
LEMMA OwnerInductive ==
    ASSUME SlashSync
    PROVE  Spec => [](IInv /\ PInv /\ OInv)
<1>1. Init => IInv /\ PInv /\ OInv
    BY InitInv, PlacesInit, OwnerInit
<1>2. (IInv /\ PInv /\ OInv) /\ [Next]_vars => (IInv /\ PInv /\ OInv)'
    BY StepInv, StepPlaces, StepOwns
<1> QED
    BY <1>1, <1>2, PTL DEF Spec

(* When no slash command waits for I/O, the turn that runs owns the        *)
(* conversation: whatever fails and whatever the user does, no other turn  *)
(* or slash command runs beside it, what arrives is queued behind it, and  *)
(* stop reaches the agent loop that runs.                                  *)
THEOREM TurnOwns ==
    ASSUME SlashSync
    PROVE  Spec => []TurnOwnsConversation
<1>1. IInv /\ PInv /\ OInv => TurnOwnsConversation
    BY DEF OInv
<1> QED
    BY <1>1, OwnerInductive, PTL

-----------------------------------------------------------------------------
(* Nothing is forgotten.                                                   *)

(* A slash command is never one of a batch.                                *)
SlashAlone == \A t \in Msgs :
    pc[t] \in {"slashPersist", "slashRun", "exchange", "exchangeReply"} => mode[t] # "batch"

(* Where an open message has to be.                                        *)
Remembered(m) == \/ m \in ToSet(queue)
                 \/ \E t \in Msgs : pc[t] # "none" /\ m \in Held(t)

(* The inductive invariant: unless the user stopped something, every open   *)
(* message is where someone will find it.                                   *)
FInv == SlashAlone /\ (aborted = {} => \A m \in Open : Remembered(m))

(* Initially nothing is open.                                               *)
LEMMA ForgetInit == Init => FInv
BY DEF Init, FInv, SlashAlone, Open

(* A step of chain t forgets nothing when it keeps, goes on with or        *)
(* settles the messages it holds.                                          *)
LEMMA ChainForgetsNone ==
    ASSUME FInv, NEW t \in Msgs, OnlyChain(t), aborted' = {} => aborted = {},
           Open' \subseteq Open,
           aborted = {} =>
              /\ \A m \in Open' : m \in ToSet(queue) => m \in ToSet(queue') \cup Held(t)'
              /\ \A m \in Open' : m \in Held(t) => m \in Held(t)'
              /\ Held(t)' \cap Open' # {} => pc'[t] # "none",
           SlashAlone'
    PROVE  FInv'
<1>1. \A u \in Msgs : u # t => pc'[u] = pc[u] /\ Held(u)' = Held(u)
    BY DEF OnlyChain, Held
<1>2. ASSUME aborted = {}, NEW m \in Open' PROVE Remembered(m)'
    <2>1. Remembered(m)
        BY <1>2 DEF FInv
    <2>2. CASE m \in Held(t)'
        BY <1>2, <2>2 DEF Remembered
    <2>3. CASE m \notin Held(t)'
        BY <1>1, <1>2, <2>1, <2>3 DEF Remembered
    <2> QED
        BY <2>2, <2>3
<1> QED
    BY <1>2 DEF FInv

(* Clients are told final answers only, except by POST.                    *)
LEMMA TellingCloses ==
    ASSUME NEW S, NEW s \in Settled, NEW st
    PROVE  \A m \in Msgs : Telling(st, S, s)[m] = "open" => st[m] = "open" /\ m \notin S
BY OpenIsNotSettled DEF Telling

(* The next tail, or the turn: a message in hand stays in hand as long as  *)
(* it is one of the members or follows.                                    *)
LEMMA NextInBatchForgetsNone ==
    ASSUME IInv, PInv, OInv, FInv, NEW t \in Msgs,
           pc[t] \in {"persist", "tailPersist"}, OnlyChain(t), UNCHANGED <<queue, aborted>>,
           NEW members \in Seq(Msgs), NEW stop, aborted = {} => ~stop,
           NEW told, NextInBatch(t, members, stop, told),
           \A m \in Msgs : told[m] = "open" => status[m] = "open",
           \A m \in Msgs : told[m] = "open" =>
              (m = Cur(t) \/ m \in ToSet(done[t]) => m \in ToSet(members)),
           SlashAlone'
    PROVE  FInv'
<1>0. ChainsOK /\ pc[t] \in WithWork /\ HoldsTurn(t)
    BY DEF IInv, TypeOK, WithWork, PCs, HoldsTurn
<1>1. controller # None
    BY <1>0 DEF OInv, TurnControlled
<1>2. /\ ToSet(work[t]) = {Cur(t)} \cup ToSet(Rest(t)) /\ Rest(t) \in Seq(Msgs)
    BY <1>0, WorkInHand
<1>3. status' = told /\ pc'[t] # "none" /\ done'[t] = members
    BY <1>0, <1>1 DEF NextInBatch, RunAgentLoop, Goto, ChainsOK
<1>4. work'[t] = Rest(t) \/ (work'[t] = <<>> /\ (Rest(t) = <<>> \/ stop))
    BY <1>0 DEF NextInBatch, RunAgentLoop, ChainsOK
<1>5. Open' \subseteq Open
    BY <1>3 DEF Open
<1>6. aborted = {} => ToSet(work'[t]) = ToSet(Rest(t))
    BY <1>4, EmptyHolds
<1>7. ASSUME aborted = {}, NEW m \in Open', m \in Held(t) PROVE m \in Held(t)'
    <2>1. told[m] = "open" /\ m \in Msgs
        BY <1>3, <1>7 DEF Open
    <2>2. m = Cur(t) \/ m \in ToSet(Rest(t)) \/ m \in ToSet(done[t])
        BY <1>2, <1>7 DEF Held
    <2> QED
        BY <1>3, <1>6, <1>7, <2>1, <2>2 DEF Held
<1> QED
    BY <1>3, <1>5, <1>7, ChainForgetsNone

(* The head, or the only message, is answered and the chain goes on.       *)
LEMMA MoveOnForgetsNone ==
    ASSUME IInv, PInv, FInv, NEW t \in Msgs, pc[t] \in {"resolve", "persist"},
           OnlyChain(t), UNCHANGED <<queue, aborted>>,
           MoveOn(t), NEW s \in Settled, Settle({Cur(t)}, s), SlashAlone'
    PROVE  FInv'
<1>0. ChainsOK /\ pc[t] \in WithWork
    BY DEF IInv, TypeOK, WithWork, PCs
<1>1. /\ ToSet(work[t]) = {Cur(t)} \cup ToSet(Rest(t)) /\ Rest(t) \in Seq(Msgs)
      /\ mode[t] # "batch" => Rest(t) = <<>>
    BY <1>0, WorkInHand
<1>2. work'[t] = Rest(t) /\ done'[t] = done[t] /\ pc'[t] = Resume(t)
    BY <1>0 DEF MoveOn, Goto, ChainsOK
<1>3. done[t] = <<>>
    BY DEF PInv, ChainPlaced, HandsUsed
<1>4. Open' \subseteq Open /\ Cur(t) \notin Open'
    BY TellingCloses DEF Settle, Open
<1>5. \A m \in Open' : m \in Held(t) => m \in Held(t)'
    BY <1>1, <1>2, <1>4 DEF Held
<1>6. Held(t)' # {} => pc'[t] # "none"
    <2>1. Held(t)' = ToSet(Rest(t))
        BY <1>2, <1>3, EmptyHolds DEF Held
    <2>2. mode[t] = "post" => Rest(t) = <<>>
        BY <1>1
    <2> QED
        BY <1>2, <2>1, <2>2, EmptyHolds DEF Resume
<1> QED
    BY <1>4, <1>5, <1>6, ChainForgetsNone

(* A step that only waits.                                                 *)
LEMMA WaitingForgetsNone ==
    ASSUME FInv, NEW t \in Msgs, OnlyChain(t), UNCHANGED <<queue, aborted, status, work, done>>,
           pc'[t] # "none", SlashAlone'
    PROVE  FInv'
<1>1. Open' = Open /\ Held(t)' = Held(t)
    BY DEF Open, Held
<1> QED
    BY <1>1, ChainForgetsNone

(* The steps of the first message of a turn: it stays in hand, or gets its  *)
(* outcome.                                                                 *)
LEMMA HeadStepForgetsNone ==
    ASSUME IInv, PInv, OInv, FInv, NEW t \in Msgs, HeadStep(t)
    PROVE  FInv'
<1>0. ChainsOK
    BY DEF IInv, TypeOK
<1>c. OnlyChain(t)
    BY OneChainSteps DEF ChainStep
<1>a. SlashAlone'
    <2>1. pc'[t] \notin {"slashPersist", "slashRun", "exchange", "exchangeReply"}
        BY <1>0 DEF HeadStep, ResolveText, RefuseHead, OpenTurn, PersistOk, PersistFails,
                    NextInBatch, RunAgentLoop, MoveOn, Resume, Goto, ChainsOK
    <2> QED
        BY <1>c, <2>1 DEF OnlyChain, SlashAlone, FInv
<1>1. CASE ResolveText(t)
    <2>0. pc[t] = "resolve" /\ UNCHANGED <<queue, aborted>>
        BY <1>1 DEF ResolveText, backlog
    <2>1. CASE RefuseHead(t)
        <3>1. "busy" \in Settled /\ MoveOn(t) /\ Settle({Cur(t)}, "busy")
            BY <2>1 DEF RefuseHead, Settled
        <3> QED
            BY <1>a, <1>c, <2>0, <3>1, MoveOnForgetsNone
    <2>2. CASE OpenTurn(t)
        <3>1. pc'[t] = "persist" /\ UNCHANGED <<status, work, done>>
            BY <1>0, <2>2 DEF OpenTurn, Goto, ChainsOK
        <3> QED
            BY <1>a, <1>c, <2>0, <3>1, WaitingForgetsNone
    <2> QED
        BY <1>1, <2>1, <2>2 DEF ResolveText
<1>2. CASE PersistOk(t)
    <2>0. /\ pc[t] = "persist" /\ pc[t] \in WithWork
          /\ NextInBatch(t, <<Cur(t)>>, controller \in aborted, status)
          /\ UNCHANGED <<queue, aborted>>
        BY <1>2 DEF PersistOk, backlog, WithWork, PCs
    <2>1. <<Cur(t)>> \in Seq(Msgs) /\ ToSet(<<Cur(t)>>) = {Cur(t)} /\ done[t] = <<>>
        BY <2>0, WorkInHand, OneHolds DEF PInv, ChainPlaced, HandsUsed
    <2> DEFINE members == <<Cur(t)>>
               stop == controller \in aborted
    <2>2. \A m \in Msgs : status[m] = "open" =>
              (m = Cur(t) \/ m \in ToSet(done[t]) => m \in ToSet(members))
        BY <2>1, EmptyHolds
    <2>3. (aborted = {} => ~stop) /\ members \in Seq(Msgs) /\ NextInBatch(t, members, stop, status)
        BY <2>0, <2>1
    <2> HIDE DEF members, stop
    <2> QED
        BY <1>a, <1>c, <2>0, <2>2, <2>3, NextInBatchForgetsNone
<1>3. ASSUME NEW o \in Outcomes, PersistFails(t, o) PROVE FInv'
    <2> DEFINE s == IF o = "dup" THEN "duplicate" ELSE "failed"
    <2>1. /\ pc[t] = "persist" /\ MoveOn(t) /\ Settle({Cur(t)}, s)
          /\ UNCHANGED <<queue, aborted>>
        BY <1>3 DEF PersistFails, backlog
    <2>2. s \in Settled
        BY DEF Settled
    <2> HIDE DEF s
    <2> QED
        BY <1>a, <1>c, <2>1, <2>2, MoveOnForgetsNone
<1> QED
    BY <1>1, <1>2, <1>3 DEF HeadStep

(* The steps of the other messages of a batch: the same, one by one.        *)
LEMMA TailStepForgetsNone ==
    ASSUME IInv, PInv, OInv, FInv, NEW t \in Msgs, TailStep(t)
    PROVE  FInv'
<1>0. ChainsOK /\ done[t] \in Seq(Msgs)
    BY DEF IInv, TypeOK, ChainsOK
<1>c. OnlyChain(t)
    BY OneChainSteps DEF ChainStep
<1>a. SlashAlone'
    <2>1. pc'[t] \notin {"slashPersist", "slashRun", "exchange", "exchangeReply"}
        BY <1>0 DEF TailStep, ResolveTail, TailOk, TailFails,
                    NextInBatch, RunAgentLoop, Goto, ChainsOK
    <2> QED
        BY <1>c, <2>1 DEF OnlyChain, SlashAlone, FInv
<1>1. CASE ResolveTail(t)
    <2>1. pc'[t] = "tailPersist" /\ UNCHANGED <<queue, aborted, status, work, done>>
        BY <1>0, <1>1 DEF ResolveTail, Goto, ChainsOK, backlog
    <2> QED
        BY <1>a, <1>c, <2>1, WaitingForgetsNone
<1>2. CASE TailOk(t)
    <2> DEFINE members == Append(done[t], Cur(t))
               stop == controller \in aborted
    <2>0. /\ pc[t] = "tailPersist" /\ pc[t] \in WithWork
          /\ NextInBatch(t, members, stop, status)
          /\ UNCHANGED <<queue, aborted>>
        BY <1>2 DEF TailOk, backlog, WithWork, PCs
    <2>1. Cur(t) \in Msgs
        BY <2>0, WorkInHand
    <2>2. members \in Seq(Msgs) /\ ToSet(members) = ToSet(done[t]) \cup {Cur(t)}
        BY <1>0, <2>1, AppendHolds
    <2>3. \A m \in Msgs : status[m] = "open" =>
              (m = Cur(t) \/ m \in ToSet(done[t]) => m \in ToSet(members))
        BY <2>2
    <2>4. aborted = {} => ~stop
        OBVIOUS
    <2> HIDE DEF members, stop
    <2> QED
        BY <1>a, <1>c, <2>0, <2>2, <2>3, <2>4, NextInBatchForgetsNone
<1>3. ASSUME NEW o \in Outcomes, TailFails(t, o) PROVE FInv'
    <2> DEFINE s == IF o = "dup" THEN "duplicate" ELSE "failed"
               told == Telling(status, {Cur(t)}, s)
    <2>0. /\ pc[t] = "tailPersist" /\ NextInBatch(t, done[t], FALSE, told)
          /\ UNCHANGED <<queue, aborted>>
        BY <1>3 DEF TailFails, backlog
    <2>1. s \in Settled
        BY DEF Settled
    <2> HIDE DEF s
    <2>2. \A m \in Msgs : told[m] = "open" => status[m] = "open" /\ m \notin {Cur(t)}
        BY <2>1, TellingCloses
    <2>3. \A m \in Msgs : told[m] = "open" =>
              (m = Cur(t) \/ m \in ToSet(done[t]) => m \in ToSet(done[t]))
        BY <2>2
    <2>4. \A m \in Msgs : told[m] = "open" => status[m] = "open"
        BY <2>2
    <2> DEFINE stop == FALSE
    <2>5. NextInBatch(t, done[t], stop, told) /\ (aborted = {} => ~stop)
        BY <2>0
    <2> HIDE DEF told, stop
    <2> QED
        BY <1>0, <1>a, <1>c, <2>0, <2>3, <2>4, <2>5, NextInBatchForgetsNone
<1> QED
    BY <1>1, <1>2, <1>3 DEF TailStep

(* The end of a turn: every message it had in hand gets its outcome.        *)
LEMMA TurnStepForgetsNone ==
    ASSUME IInv, PInv, FInv, NEW t \in Msgs, TurnStep(t)
    PROVE  FInv'
<1>0. ChainsOK
    BY DEF IInv, TypeOK
<1>c. OnlyChain(t)
    BY OneChainSteps DEF ChainStep
<1>w. work[t] = <<>> /\ HandsOpen(t)
    BY DEF TurnStep, LoopEnds, TurnFinally, PInv, ChainPlaced, HandsUsed
<1>1. ASSUME NEW a \in {"replied", "cancelled", "failed"}, LoopEnds(t, a) PROVE FInv'
    <2>1. /\ pc'[t] = "commit" /\ status' = Telling(status, ToSet(done[t]), a)
          /\ UNCHANGED <<queue, aborted, work, done>>
        BY <1>0, <1>1 DEF LoopEnds, Goto, Settle, ChainsOK, backlog
    <2>2. a \in Settled
        BY DEF Settled
    <2>3. Open' \subseteq Open
        BY <2>1, <2>2, TellingCloses DEF Open
    <2>4. Held(t)' = Held(t)
        BY <2>1 DEF Held
    <2>5. SlashAlone'
        BY <1>c, <2>1 DEF OnlyChain, SlashAlone, FInv
    <2> QED
        BY <1>c, <2>1, <2>3, <2>4, <2>5, ChainForgetsNone
<1>2. CASE TurnFinally(t)
    <2>1. /\ pc[t] = "commit" /\ pc'[t] = "drain" /\ UNCHANGED <<queue, aborted, status, work>>
        BY <1>0, <1>2 DEF TurnFinally, Goto, ChainsOK, backlog
    <2>2. Open' = Open
        BY <2>1 DEF Open
    <2>3. \A m \in Open : m \notin Held(t)
        BY <1>w, <2>1, EmptyHolds, OpenIsNotSettled DEF HandsOpen, Held, Open
    <2>5. SlashAlone'
        BY <1>c, <2>1 DEF OnlyChain, SlashAlone, FInv
    <2> QED
        BY <1>c, <2>1, <2>2, <2>3, <2>5, ChainForgetsNone
<1> QED
    BY <1>1, <1>2 DEF TurnStep

(* The message in hand, the only one, is answered.                         *)
LEMMA LeaveHandForgetsNone ==
    ASSUME IInv, PInv, FInv, NEW t \in Msgs,
           pc[t] \in {"slashPersist", "slashRun", "exchange", "exchangeReply"},
           OnlyChain(t), UNCHANGED <<queue, aborted, done>>,
           NEW s \in Settled, Settle({Cur(t)}, s), work'[t] = <<>>, SlashAlone'
    PROVE  FInv'
<1>0. pc[t] \in WithWork /\ mode[t] # "batch"
    BY DEF WithWork, PCs, FInv, SlashAlone
<1>1. ToSet(work[t]) = {Cur(t)} \cup ToSet(Rest(t)) /\ Rest(t) = <<>>
    BY <1>0, WorkInHand
<1>2. done[t] = <<>>
    BY DEF PInv, ChainPlaced, HandsUsed
<1>3. Held(t) = {Cur(t)} /\ Held(t)' = {}
    BY <1>1, <1>2, EmptyHolds DEF Held
<1>4. Open' \subseteq Open /\ Cur(t) \notin Open'
    BY TellingCloses DEF Settle, Open
<1> QED
    BY <1>3, <1>4, ChainForgetsNone

(* The steps of a command that was posted.                                  *)
LEMMA PostStepForgetsNone ==
    ASSUME IInv, PInv, FInv, NEW t \in Msgs, PostStep(t)
    PROVE  FInv'
<1>0. ChainsOK
    BY DEF IInv, TypeOK
<1>c. OnlyChain(t)
    BY OneChainSteps DEF ChainStep
<1>a. SlashAlone'
    <2>1. /\ mode' = mode
          /\ pc'[t] = "slashPersist" => mode[t] = "post"
          /\ pc'[t] = "slashRun" => pc[t] = "slashPersist"
          /\ pc'[t] \in {"slashPersist", "slashRun", "none", "drain"}
        BY <1>0 DEF PostStep, ResolvePostSlash, SlashWritten, SlashFails, SlashReplies,
                    LeaveSlash, Goto, ChainsOK
    <2> QED
        BY <1>c, <2>1 DEF OnlyChain, SlashAlone, FInv
<1>1. CASE ResolvePostSlash(t) \/ SlashWritten(t)
    <2>1. pc'[t] # "none" /\ UNCHANGED <<queue, aborted, status, work, done>>
        BY <1>0, <1>1 DEF ResolvePostSlash, SlashWritten, Goto, ChainsOK, backlog
    <2> QED
        BY <1>a, <1>c, <2>1, WaitingForgetsNone
<1>3. ASSUME NEW s \in Settled, LeaveSlash(t, s), pc[t] \in {"slashPersist", "slashRun"}
      PROVE  FInv'
    <2>1. /\ Settle({Cur(t)}, s) /\ work'[t] = <<>> /\ UNCHANGED <<queue, aborted, done>>
        BY <1>0, <1>3 DEF LeaveSlash, ChainsOK, backlog
    <2> QED
        BY <1>3, <1>a, <1>c, <2>1, LeaveHandForgetsNone
<1>4. ASSUME NEW o \in Outcomes, SlashFails(t, o) PROVE FInv'
    BY <1>3, <1>4 DEF SlashFails, Settled
<1>5. ASSUME NEW a \in {"replied", "failed"}, SlashReplies(t, a) PROVE FInv'
    BY <1>3, <1>5 DEF SlashReplies, Settled
<1> QED
    BY <1>1, <1>4, <1>5 DEF PostStep

(* A drain takes messages from the queue into a hand.                       *)
LEMMA DrainStepForgetsNone ==
    ASSUME IInv, PInv, FInv, NEW t \in Msgs, DrainStep(t)
    PROVE  FInv'
<1>0. ChainsOK /\ queue \in Seq(Msgs)
    BY DEF IInv, TypeOK, SequencesOK
<1>c. OnlyChain(t)
    BY OneChainSteps DEF ChainStep
<1>a. SlashAlone'
    <2>1. /\ pc'[t] = "exchange" => mode'[t] = "single"
          /\ pc'[t] = "exchangeReply" => pc[t] = "exchange" /\ mode' = mode
          /\ pc'[t] \in {"none", "shift", "resolve", "exchange", "exchangeReply", "drain"}
        BY <1>0 DEF DrainStep, DrainQueue, DrainShift, DrainNothing, Hand, ResolveQueuedSlash,
                    ExchangeWritten, ExchangeEnds, Goto, ChainsOK
    <2> QED
        BY <1>c, <2>1 DEF OnlyChain, SlashAlone, FInv
<1>1. CASE DrainQueue(t) \/ DrainShift(t)
    <2>0. /\ pc[t] \in {"drain", "shift"} /\ UNCHANGED <<status, done, aborted>>
        BY <1>1 DEF DrainQueue, DrainShift
    <2>1. Held(t) = {} /\ done[t] = <<>>
        BY <2>0, EmptyHolds DEF PInv, ChainPlaced, HandsUsed, Held
    <2>2. Open' = Open
        BY <2>0 DEF Open
    <2>3. CASE UNCHANGED <<queue, work>>
        <3>1. Held(t)' = {}
            BY <2>0, <2>1, <2>3 DEF Held
        <3> QED
            BY <1>a, <1>c, <2>0, <2>1, <2>2, <2>3, <3>1, ChainForgetsNone
    <2>4. ASSUME NEW n \in 0 .. Len(queue), Hand(t, n) PROVE FInv'
        <3> DEFINE taken == SubSeq(queue, 1, n)
                   left  == SubSeq(queue, n + 1, Len(queue))
        <3>1. work'[t] = taken /\ queue' = left /\ pc'[t] = "resolve"
            BY <1>0, <2>4 DEF Hand, Goto, ChainsOK
        <3>2. taken \in Seq(Msgs) /\ left \in Seq(Msgs) /\ queue = taken \o left
            BY <1>0, CutHolds
        <3> HIDE DEF taken, left
        <3>3. ToSet(taken \o left) = ToSet(taken) \cup ToSet(left)
            BY <3>2, ConcatHolds
        <3>4. Held(t)' = ToSet(taken)
            BY <2>0, <2>1, <3>1, EmptyHolds DEF Held
        <3> QED
            BY <1>a, <1>c, <2>0, <2>1, <2>2, <3>1, <3>2, <3>3, <3>4, ChainForgetsNone
    <2>5. queue # <<>> => 1 \in 0 .. Len(queue)
        BY <1>0, EmptySeq
    <2> QED
        BY <1>1, <2>3, <2>4, <2>5 DEF DrainQueue, DrainShift, DrainNothing
<1>2. CASE ResolveQueuedSlash(t) \/ ExchangeWritten(t)
    <2>1. pc'[t] # "none" /\ UNCHANGED <<queue, aborted, status, work, done>>
        BY <1>0, <1>2 DEF ResolveQueuedSlash, ExchangeWritten, Goto, ChainsOK, backlog
    <2> QED
        BY <1>a, <1>c, <2>1, WaitingForgetsNone
<1>3. ASSUME NEW a \in {"replied", "failed"}, ExchangeEnds(t, a) PROVE FInv'
    <2>1. /\ pc[t] \in {"exchange", "exchangeReply"} /\ a \in Settled
          /\ Settle({Cur(t)}, a) /\ work'[t] = <<>> /\ UNCHANGED <<queue, aborted, done>>
        BY <1>0, <1>3 DEF ExchangeEnds, ChainsOK, backlog, Settled
    <2> QED
        BY <1>a, <1>c, <2>1, LeaveHandForgetsNone
<1> QED
    BY <1>1, <1>2, <1>3 DEF DrainStep

(* A message that arrives is queued, in hand or rejected; one that leaves  *)
(* the queue by the user's hand has its outcome.                           *)
LEMMA PostForgetsNone ==
    ASSUME IInv, PInv, FInv, Post
    PROVE  FInv'
<1>0. ChainsOK /\ queue \in Seq(Msgs) /\ posted \in Nat /\ UNCHANGED aborted
    BY NAssumption DEF IInv, TypeOK, SequencesOK, MessagesOK, Post
<1>m. PICK m \in Msgs : /\ m = posted + 1 /\ m > posted
                        /\ PostQueued(m) \/ PostRejected(m) \/ PostIdle(m)
    BY <1>0, NAssumption DEF Post, Msgs
<1>1. pc[m] = "none" /\ \A k \in Msgs : k # m => status'[k] = status[k]
    BY <1>m DEF PInv, NewOnes, PostQueued, PostRejected, PostIdle, Settle, Telling
<1>2. CASE PostQueued(m)
    <2>1. queue' = Append(queue, m) /\ UNCHANGED chains
        BY <1>2 DEF PostQueued, Enqueue
    <2>2. ToSet(queue') = ToSet(queue) \cup {m}
        BY <1>0, <2>1, AppendHolds
    <2> QED
        BY <1>0, <1>1, <2>1, <2>2 DEF FInv, SlashAlone, Remembered, Open, Held, chains
<1>3. CASE PostRejected(m)
    <2>1. status'[m] = "rejected" /\ UNCHANGED <<queue, chains>>
        BY <1>3 DEF PostRejected, Settle, Telling, backlog
    <2> QED
        BY <1>0, <1>1, <2>1 DEF FInv, SlashAlone, Remembered, Open, Held, chains
<1>4. CASE PostIdle(m)
    <2>1. /\ pc'[m] = "resolve" /\ work'[m] = <<m>>
          /\ \A u \in Msgs : u # m => /\ pc'[u] = pc[u] /\ mode'[u] = mode[u]
                                      /\ work'[u] = work[u] /\ done'[u] = done[u]
          /\ queue' = queue
        BY <1>0, <1>4 DEF PostIdle, Goto, ChainsOK, backlog
    <2>2. m \in Held(m)' /\ \A u \in Msgs : u # m => Held(u)' = Held(u)
        BY <2>1, OneHolds DEF Held
    <2> QED
        BY <1>0, <1>1, <2>1, <2>2 DEF FInv, SlashAlone, Remembered, Open
<1> QED
    BY <1>m, <1>2, <1>3, <1>4

(* The user's controls: what leaves the queue has its outcome.              *)
LEMMA ControlForgetsNone ==
    ASSUME IInv, PInv, FInv, Cancel \/ Steer \/ Delete
    PROVE  FInv'
<1>0. queue \in Seq(Msgs) /\ IsInjective(queue) /\ UNCHANGED chains
    BY DEF IInv, TypeOK, SequencesOK, PInv, QueuePlaced, Cancel, Steer, Delete
<1>1. aborted' = {} => aborted = {}
    BY DEF Cancel, Steer, Delete, AbortTurn
<1>2. \A m \in Open' : m \in Open /\ (m \in ToSet(queue) => m \in ToSet(queue'))
    <2>1. CASE Cancel
        <3>1. status' = Telling(status, ToSet(queue), "cancelled") /\ "cancelled" \in Settled
            BY <2>1 DEF Cancel, Settle, Settled
        <3>2. \A m \in Msgs : status'[m] = "open" => status[m] = "open" /\ m \notin ToSet(queue)
            BY <3>1, TellingCloses
        <3> QED
            BY <3>2 DEF Open
    <2>2. CASE Steer
        <3>1. PICK i \in 1 .. Len(queue) :
                  queue' = <<queue[i]>> \o RemoveFrom(queue, i) /\ UNCHANGED status
            BY <2>2 DEF Steer
        <3> DEFINE o == <<queue[i]>>
                   r == RemoveFrom(queue, i)
        <3>2. /\ r \in Seq(Msgs) /\ o \in Seq(Msgs)
              /\ ToSet(queue) = {queue[i]} \cup ToSet(r) /\ ToSet(o) = {queue[i]}
            BY <1>0, RemoveApart, OneHolds
        <3>3. queue' = o \o r
            BY <3>1
        <3> HIDE DEF o, r
        <3>4. ToSet(o \o r) = ToSet(o) \cup ToSet(r)
            BY <3>2, ConcatHolds
        <3> QED
            BY <3>1, <3>2, <3>3, <3>4 DEF Open
    <2>3. CASE Delete
        <3>1. PICK i \in 1 .. Len(queue) :
                  queue' = RemoveFrom(queue, i) /\ Settle({queue[i]}, "deleted")
            BY <2>3 DEF Delete
        <3>2. ToSet(queue) = {queue[i]} \cup ToSet(RemoveFrom(queue, i))
            BY <1>0, RemoveApart
        <3>3. status' = Telling(status, {queue[i]}, "deleted") /\ "deleted" \in Settled
            BY <3>1 DEF Settle, Settled
        <3>4. \A m \in Msgs : status'[m] = "open" => status[m] = "open" /\ m \notin {queue[i]}
            BY <3>3, TellingCloses
        <3> QED
            BY <3>1, <3>2, <3>4 DEF Open
    <2> QED
        BY <2>1, <2>2, <2>3
<1>3. \A t \in Msgs : Held(t)' = Held(t) /\ pc'[t] = pc[t] /\ mode'[t] = mode[t]
    BY <1>0 DEF Held, chains
<1> QED
    BY <1>1, <1>2, <1>3 DEF FInv, SlashAlone, Remembered

(* No step forgets an open message.                                         *)
LEMMA StepForgetsNone ==
    ASSUME IInv, PInv, OInv, FInv, [Next]_vars
    PROVE  FInv'
<1>1. CASE UNCHANGED vars
    BY <1>1 DEF vars, backlog, chains, FInv, SlashAlone, Remembered, Open, Held
<1>2. ASSUME NEW t \in Msgs, ChainStep(t) PROVE FInv'
    BY <1>2, PostStepForgetsNone, HeadStepForgetsNone, TailStepForgetsNone,
       TurnStepForgetsNone, DrainStepForgetsNone DEF ChainStep
<1> QED
    BY <1>1, <1>2, PostForgetsNone, ControlForgetsNone DEF Next

(* When no slash command waits for I/O and no turn was aborted, a message  *)
(* without an outcome is queued or in the hands of a chain that is still   *)
(* going, whatever fails.                                                  *)
THEOREM NobodyForgotten ==
    ASSUME SlashSync
    PROVE  Spec => []NothingForgotten
<1> DEFINE All == IInv /\ PInv /\ OInv /\ FInv
<1>1. Init => All
    BY InitInv, PlacesInit, OwnerInit, ForgetInit
<1>2. All /\ [Next]_vars => All'
    BY StepInv, StepPlaces, StepOwns, StepForgetsNone
<1>3. All => NothingForgotten
    <2> SUFFICES ASSUME IInv, PInv, FInv PROVE NothingForgotten
        OBVIOUS
    <2>2. \A t \in Msgs : ToSet(Hands(t)) = Held(t)
        <3> TAKE t \in Msgs
        <3>1. work[t] \in Seq(Msgs) /\ done[t] \in Seq(Msgs)
            BY DEF IInv, TypeOK, ChainsOK
        <3> QED
            BY <3>1, ConcatHolds DEF Hands, Held
    <2> QED
        BY <2>2 DEF FInv, Remembered, NothingForgotten, Open
<1> HIDE DEF All
<1> QED
    BY <1>1, <1>2, <1>3, PTL DEF Spec

-----------------------------------------------------------------------------
(* A conversation that gets plain text only, and does not wait before a    *)
(* message's turn opens.                                                   *)

(* The hypothesis: plain text only, resolved without waiting.               *)
TextSync == \A s \in Shapes : s.kind \in {"text", "solo"} /\ s.kind \notin SlashIO

(* At most one chain exists, it never runs a command, and it is about to    *)
(* take the conversation only when that is free.                            *)
OneChain == \A t, u \in Msgs : pc[t] # "none" /\ pc[u] # "none" => t = u
NoSlash  == \A t \in Msgs : pc[t] \notin {"slashPersist", "slashRun",
                                          "exchange", "exchangeReply"}
SoonFree == \A t \in Msgs : pc[t] \in {"resolve", "drain", "shift"} => ~processing

(* The inductive invariant of a conversation with text only.                *)
CInv == OneChain /\ NoSlash /\ SoonFree /\ NeverBusy

(* It is a special case of the hypothesis on commands.                      *)
LEMMA TextIsSync == TextSync => SlashSync
BY DEF TextSync, SlashSync

(* Then no message is a slash command, and nobody waits to resolve.        *)
LEMMA TextOnly ==
    ASSUME TextSync, IInv, NEW t \in Msgs, pc[t] \in WithWork
    PROVE  ~IsSlash(Cur(t)) /\ Kind(Cur(t)) \notin SlashIO
<1>1. Cur(t) \in Msgs
    BY CurType DEF IInv, TypeOK
<1>2. shape[Cur(t)] \in Shapes
    BY <1>1 DEF IInv, TypeOK, MessagesOK
<1> QED
    BY <1>2 DEF TextSync, IsSlash, Kind

(* Initially no chain exists.                                               *)
LEMMA OneChainInit == Init => CInv
BY DEF Init, CInv, OneChain, NoSlash, SoonFree, NeverBusy

(* When the flag is clear and nothing runs soon, nothing runs.             *)
LEMMA IdleIsIdle ==
    ASSUME TextSync, IInv, OInv, CInv, Quiet, ~processing, NEW t \in Msgs
    PROVE  pc[t] = "none"
<1>1. pc[t] \in PCs /\ ~Soon(t) /\ ~HoldsFlag(t)
    BY DEF IInv, TypeOK, ChainsOK, Quiet, OInv, TurnOwnsConversation, TurnHoldsFlag
<1>2. pc[t] \notin {"resolve", "tailResolve"}
    BY <1>1, TextOnly DEF Soon, WithWork, PCs
<1> QED
    BY <1>1, <1>2 DEF Soon, HoldsFlag, HoldsTurn, HoldsSlash, PCs, CInv, NoSlash

(* A step of the one chain.                                                *)
LEMMA OneChainMoves ==
    ASSUME CInv, NEW t \in Msgs, OnlyChain(t), pc[t] # "none",
           pc'[t] \notin {"slashPersist", "slashRun", "exchange", "exchangeReply"},
           pc'[t] \in {"resolve", "drain", "shift"} => ~processing',
           NeverBusy'
    PROVE  CInv' /\ \A u \in Msgs : u # t => pc[u] = "none" /\ pc'[u] = "none"
<1>1. \A u \in Msgs : u # t => pc[u] = "none" /\ pc'[u] = "none"
    BY DEF CInv, OneChain, OnlyChain
<1> QED
    BY <1>1 DEF CInv, OneChain, NoSlash, SoonFree

(* No step refuses a message, and the chain never works on a slash command. *)
LEMMA ChainStepText ==
    ASSUME TextSync, IInv, CInv, NEW t \in Msgs, ChainStep(t)
    PROVE  /\ CInv'
           /\ \A u \in Msgs : u # t => pc[u] = "none" /\ pc'[u] = "none"
           /\ \/ ResolveText(t) /\ OpenTurn(t)
              \/ PersistOk(t) \/ ResolveTail(t) \/ TailOk(t)
              \/ \E o \in Outcomes : PersistFails(t, o) \/ TailFails(t, o)
              \/ TurnStep(t) \/ DrainQueue(t) \/ DrainShift(t)
<1>0. ChainsOK /\ OnlyChain(t) /\ pc[t] # "none"
    BY OneChainSteps DEF IInv, TypeOK
<1>1. ~RefuseHead(t) \/ ~ResolveText(t)
    BY DEF RefuseHead, MayOpen, ResolveText, CInv, SoonFree
<1>2. pc[t] = "resolve" => ~IsSlash(Cur(t))
    BY TextOnly DEF WithWork, PCs
<1>3. \/ ResolveText(t) /\ OpenTurn(t)
      \/ PersistOk(t) \/ ResolveTail(t) \/ TailOk(t)
      \/ \E o \in Outcomes : PersistFails(t, o) \/ TailFails(t, o)
      \/ TurnStep(t) \/ DrainQueue(t) \/ DrainShift(t)
    BY <1>1, <1>2 DEF ChainStep, PostStep, HeadStep, TailStep, DrainStep, ResolveText,
       ResolvePostSlash, SlashWritten, SlashFails, SlashReplies, ResolveQueuedSlash,
       ExchangeWritten, ExchangeEnds, CInv, NoSlash
<1>4. ASSUME NEW s, s # "busy", NEW S, NEW st,
             \A m \in Msgs : st[m] # "busy"
      PROVE  \A m \in Msgs : Telling(st, S, s)[m] # "busy"
    BY <1>4 DEF Telling
<1>5. \A m \in Msgs : status[m] # "busy"
    BY DEF CInv, NeverBusy
<1>6. ASSUME NEW members, NEW stop, NEW told, \A m \in Msgs : told[m] # "busy",
             NextInBatch(t, members, stop, told)
      PROVE  pc'[t] \in {"none", "loop", "tailResolve"} /\ NeverBusy'
    <2>1. pc'[t] \in {"none", "loop", "tailResolve"}
        BY <1>0, <1>6 DEF NextInBatch, RunAgentLoop, Goto, ChainsOK
    <2>2. status' = told \/ status' = Telling(told, ToSet(members), "failed")
        BY <1>6 DEF NextInBatch, RunAgentLoop
    <2>3. \A m \in Msgs : Telling(told, ToSet(members), "failed")[m] # "busy"
        BY <1>4, <1>6
    <2> QED
        BY <1>6, <2>1, <2>2, <2>3 DEF NeverBusy
<1> DEFINE Good == /\ pc'[t] \notin {"slashPersist", "slashRun", "exchange", "exchangeReply"}
                   /\ pc'[t] \in {"resolve", "drain", "shift"} => ~processing'
                   /\ NeverBusy'
<1>7. CASE ResolveText(t) /\ OpenTurn(t)
    <2>1. pc'[t] = "persist" /\ status' = status
        BY <1>0, <1>7 DEF OpenTurn, Goto, ChainsOK
    <2> QED
        BY <1>0, <1>3, <1>5, <2>1, OneChainMoves DEF NeverBusy
<1>8. CASE PersistOk(t) \/ TailOk(t)
    <2>1. \E members, stop : NextInBatch(t, members, stop, status)
        BY <1>8 DEF PersistOk, TailOk
    <2> QED
        BY <1>0, <1>3, <1>5, <1>6, <2>1, OneChainMoves
<1>9. ASSUME NEW o, TailFails(t, o) PROVE Good
    <2> DEFINE s == IF o = "dup" THEN "duplicate" ELSE "failed"
               told == Telling(status, {Cur(t)}, s)
    <2>1. NextInBatch(t, done[t], FALSE, told)
        BY <1>9 DEF TailFails
    <2>2. s # "busy"
        OBVIOUS
    <2> HIDE DEF s
    <2>3. \A m \in Msgs : told[m] # "busy"
        BY <1>4, <1>5, <2>2
    <2> HIDE DEF told
    <2> QED
        BY <1>6, <2>1, <2>3
<1>10. ASSUME NEW o, PersistFails(t, o) PROVE Good
    <2> DEFINE s == IF o = "dup" THEN "duplicate" ELSE "failed"
    <2>1. processing' = FALSE /\ status' = Telling(status, {Cur(t)}, s) /\ pc'[t] = Resume(t)
        BY <1>0, <1>10 DEF PersistFails, ClearTurn, Settle, MoveOn, Goto, ChainsOK
    <2>2. s # "busy" /\ Resume(t) \in {"none", "drain", "resolve"}
        BY DEF Resume
    <2> HIDE DEF s
    <2>3. NeverBusy'
        BY <1>4, <1>5, <2>1, <2>2 DEF NeverBusy
    <2> QED
        BY <2>1, <2>2, <2>3
<1>11. CASE ResolveTail(t)
    <2>1. pc'[t] = "tailPersist" /\ status' = status
        BY <1>0, <1>11 DEF ResolveTail, Goto, ChainsOK
    <2> QED
        BY <1>0, <1>3, <1>5, <2>1, OneChainMoves DEF NeverBusy
<1>12. CASE TurnStep(t)
    <2>1. ASSUME NEW a \in {"replied", "cancelled", "failed"}, LoopEnds(t, a) PROVE Good
        <3>1. pc'[t] = "commit" /\ status' = Telling(status, ToSet(done[t]), a)
            BY <1>0, <2>1 DEF LoopEnds, Settle, Goto, ChainsOK
        <3>2. a # "busy"
            OBVIOUS
        <3>3. NeverBusy'
            BY <1>4, <1>5, <3>1, <3>2 DEF NeverBusy
        <3> QED
            BY <3>1, <3>3
    <2>2. ASSUME TurnFinally(t) PROVE Good
        <3>1. pc'[t] = "drain" /\ processing' = FALSE /\ status' = status
            BY <1>0, <2>2 DEF TurnFinally, ClearTurn, Goto, ChainsOK
        <3> QED
            BY <1>5, <3>1 DEF NeverBusy
    <2>3. Good
        <3> HIDE DEF Good
        <3> QED
            BY <1>12, <2>1, <2>2 DEF TurnStep
    <2> QED
        BY <1>0, <1>3, <2>3, OneChainMoves
<1>13. CASE DrainQueue(t) \/ DrainShift(t)
    <2>1. /\ pc[t] \in {"drain", "shift"} /\ status' = status /\ processing' = processing
          /\ pc'[t] \in {"none", "resolve", "shift"}
        BY <1>0, <1>13 DEF DrainQueue, DrainShift, DrainNothing, Hand, Goto, ChainsOK, flags
    <2>2. ~processing
        BY <2>1 DEF CInv, SoonFree
    <2> QED
        BY <1>0, <1>3, <1>5, <2>1, <2>2, OneChainMoves DEF NeverBusy
<1>14. ASSUME Good
       PROVE  CInv' /\ \A u \in Msgs : u # t => pc[u] = "none" /\ pc'[u] = "none"
    BY <1>0, <1>14, OneChainMoves
<1>15. ASSUME NEW o \in Outcomes, PersistFails(t, o) \/ TailFails(t, o) PROVE Good
    <2> HIDE DEF Good
    <2> QED
        BY <1>9, <1>10, <1>15
<1> HIDE DEF Good
<1>16. CInv' /\ \A u \in Msgs : u # t => pc[u] = "none" /\ pc'[u] = "none"
    BY <1>3, <1>7, <1>8, <1>11, <1>12, <1>13, <1>14, <1>15
<1> QED
    BY <1>3, <1>16

(* Messages and controls from outside.                                     *)
LEMMA OutsideText ==
    ASSUME TextSync, IInv, OInv, CInv, Post \/ Cancel \/ Steer \/ Delete
    PROVE  CInv'
<1>0. ChainsOK /\ Quiet /\ processing' = processing /\ posted \in Nat
    <2>1. ChainsOK /\ posted \in Nat
        BY NAssumption DEF IInv, TypeOK, MessagesOK
    <2>2. Quiet
        BY DEF Post, Cancel, Steer, Delete
    <2>3. processing' = processing
        BY DEF Post, Cancel, Steer, Delete, flags
    <2> QED
        BY <2>1, <2>2, <2>3
<1>1. NeverBusy'
    <2>1. status' = status \/ \E S, s : s # "busy" /\ Settle(S, s)
        BY DEF Post, PostQueued, PostRejected, PostIdle, Cancel, Steer, Delete
    <2> QED
        BY <2>1 DEF CInv, NeverBusy, Settle, Telling
<1>2. CASE UNCHANGED chains
    BY <1>0, <1>1, <1>2 DEF chains, CInv, OneChain, NoSlash, SoonFree
<1>3. ASSUME Post, PostIdle(posted + 1) PROVE CInv'
    <2>1. PICK m \in Msgs : m = posted + 1
        BY <1>0, <1>3, NAssumption DEF Post, Msgs
    <2>2. ~processing /\ \A u \in Msgs : pc[u] = "none"
        BY <1>0, <1>3, IdleIsIdle DEF PostIdle
    <2>3. pc'[m] = "resolve" /\ \A u \in Msgs : u # m => pc'[u] = "none"
        BY <1>0, <1>3, <2>1, <2>2 DEF PostIdle, Goto, ChainsOK
    <2> QED
        BY <1>0, <1>1, <2>2, <2>3 DEF CInv, OneChain, NoSlash, SoonFree
<1> QED
    BY <1>2, <1>3 DEF Post, PostQueued, PostRejected, Cancel, Steer, Delete

(* Every step keeps one chain at most.                                      *)
LEMMA StepText ==
    ASSUME TextSync, IInv, OInv, CInv, [Next]_vars
    PROVE  CInv'
<1>1. CASE UNCHANGED vars
    BY <1>1 DEF vars, flags, chains, CInv, OneChain, NoSlash, SoonFree, NeverBusy
<1> QED
    BY <1>1, OutsideText, ChainStepText DEF Next

(* In a conversation that gets plain text only, no message that was queued *)
(* is refused because of a turn that overtook it, whatever fails and       *)
(* whatever the user does: the drain always finds the conversation free.   *)
THEOREM TextNeverBusy ==
    ASSUME TextSync
    PROVE  Spec => []NeverBusy
<1> DEFINE All == IInv /\ PInv /\ OInv /\ CInv
<1>1. Init => All
    BY InitInv, PlacesInit, OwnerInit, OneChainInit
<1>2. All /\ [Next]_vars => All'
    BY TextIsSync, StepInv, StepPlaces, StepOwns, StepText
<1>3. All => NeverBusy
    BY DEF CInv
<1> HIDE DEF All
<1> QED
    BY <1>1, <1>2, <1>3, PTL DEF Spec

-----------------------------------------------------------------------------
(* Memory and database.                                                    *)

(* h is exactly what has a row, each message once.                         *)
Saved(h) == h \in Seq(Msgs) /\ ToSet(h) = rows /\ IsInjective(h)

(* While a chain writes, its message is the last in memory, and the ones   *)
(* before it are saved; otherwise all are.  What is still to be written    *)
(* has no row.                                                             *)
MInv ==
    /\ \A m \in rows : m <= posted
    /\ rows \cap ToSet(queue) = {}
    /\ \A t \in Msgs : rows \cap ToSet(work[t]) = {}
    /\ \A t \in Msgs : Writing(t) => \E h : Saved(h) /\ history = Append(h, Cur(t))
    /\ (\A t \in Msgs : ~Writing(t)) => Saved(history)

(* Initially memory and the database are empty.                             *)
LEMMA MemoryInit == Init => MInv
<1> SUFFICES ASSUME Init PROVE MInv
    OBVIOUS
<1>1. Saved(history)
    BY EmptyHolds, EmptySeq DEF Init, Saved
<1> QED
    BY <1>1 DEF Init, MInv, Writing

(* What a pop leaves of an appended history.                               *)
LEMMA PopAppend ==
    ASSUME NEW h \in Seq(Msgs), NEW m \in Msgs, history = Append(h, m), PopHistory
    PROVE  history' = h
<1>1. history \in Seq(Msgs) /\ Len(history) = Len(h) + 1 /\ Len(h) \in Nat
    BY AppendProperties, LenProperties
<1>2. history = h \o <<m>> /\ <<m>> \in Seq(Msgs)
    BY AppendIsConcat, OneHolds
<1>3. SubSeq(h \o <<m>>, 1, Len(h)) = h
    <2>1. /\ SubSeq(history, 1, Len(h)) \in Seq(Msgs) /\ Len(SubSeq(history, 1, Len(h))) = Len(h)
          /\ \A i \in 1 .. Len(h) : SubSeq(history, 1, Len(h))[i] = history[i]
        <3>1. \A k \in 1 .. Len(h) : history[k] \in Msgs
            BY <1>1, ElementOfSeq
        <3> QED
            BY <1>1, <3>1, SubSeqProperties
    <2>2. \A i \in 1 .. Len(h) : history[i] = h[i]
        BY <1>1, AppendProperties
    <2>3. SubSeq(history, 1, Len(h)) = h
        BY <2>1, <2>2, SeqEqual
    <2> QED
        BY <1>2, <2>3
<1>4. Len(history) - 1 = Len(h)
    BY <1>1
<1> QED
    BY <1>2, <1>3, <1>4 DEF PopHistory

(* In a step of the one chain the others have nothing in hand.             *)
LEMMA OthersHoldNothing ==
    ASSUME PInv', NEW t \in Msgs, \A u \in Msgs : u # t => pc'[u] = "none"
    PROVE  /\ \A u \in Msgs : u # t => work'[u] = <<>>
           /\ \A u \in Msgs : u # t => ~Writing(u)'
<1>1. \A u \in Msgs : HandsUsed(u)'
    BY DEF PInv, ChainPlaced
<1> QED
    BY <1>1 DEF HandsUsed, Writing

(* The one chain writes a message, or does not.                            *)
LEMMA MemoryKept ==
    ASSUME NEW t \in Msgs, PInv', \A u \in Msgs : u # t => pc'[u] = "none",
           posted' = posted, \A m \in rows' : m <= posted,
           rows' \cap ToSet(queue') = {}, rows' \cap ToSet(work'[t]) = {},
           Writing(t)' => \E h : Saved(h)' /\ history' = Append(h, Cur(t)'),
           ~Writing(t)' => Saved(history)'
    PROVE  MInv'
<1>1. /\ \A u \in Msgs : u # t => work'[u] = <<>>
      /\ \A u \in Msgs : u # t => ~Writing(u)'
    BY OthersHoldNothing
<1>2. \A u \in Msgs : rows' \cap ToSet(work'[u]) = {}
    BY <1>1, EmptyHolds
<1>3. \A u \in Msgs : Writing(u)' => \E h : Saved(h)' /\ history' = Append(h, Cur(u)')
    BY <1>1
<1>4. (\A u \in Msgs : ~Writing(u)') => Saved(history)'
    OBVIOUS
<1> QED
    BY <1>2, <1>3, <1>4 DEF MInv

(* The current message opens the write.                                    *)
LEMMA WriteOpens ==
    ASSUME IInv, PInv, PInv', MInv, NEW t \in Msgs, pc[t] \in {"resolve", "tailResolve"},
           \A u \in Msgs : u # t => pc[u] = "none" /\ pc'[u] = "none",
           history' = Append(history, Cur(t)),
           UNCHANGED <<posted, rows, queue, work>>,
           Writing(t)'
    PROVE  MInv'
<1>1. \A u \in Msgs : ~Writing(u)
    BY DEF Writing
<1>2. Saved(history)
    BY <1>1 DEF MInv
<1>4. \E h : Saved(h)' /\ history' = Append(h, Cur(t)')
    BY <1>2 DEF Saved, Cur
<1>5. /\ \A m \in rows' : m <= posted
      /\ rows' \cap ToSet(queue') = {} /\ rows' \cap ToSet(work'[t]) = {}
    BY DEF MInv
<1> QED
    BY <1>4, <1>5, MemoryKept

(* What a message in hand is: it has arrived, it is not queued.            *)
LEMMA CurIsNowhereElse ==
    ASSUME IInv, PInv, NEW t \in Msgs, pc[t] \in WithWork
    PROVE  Cur(t) \in Msgs /\ Cur(t) <= posted /\ Cur(t) \notin ToSet(queue)
<1>1. Cur(t) \in Msgs /\ Cur(t) \in Held(t) /\ Cur(t) \in Open
    BY WorkInHand
<1>2. status[Cur(t)] # "new" /\ posted \in Int /\ Cur(t) \in Int
    BY <1>1, NAssumption DEF Open, IInv, TypeOK, MessagesOK, Msgs
<1>3. ~(Cur(t) > posted)
    BY <1>1, <1>2 DEF PInv, NewOnes
<1> QED
    BY <1>1, <1>2, <1>3 DEF PInv, Apart

(* The write succeeds: the message has its row.                            *)
LEMMA WriteSucceeds ==
    ASSUME IInv, PInv, PInv', MInv, NEW t \in Msgs, pc[t] \in {"persist", "tailPersist"},
           \A u \in Msgs : u # t => pc'[u] = "none",
           rows' = rows \cup {Cur(t)}, UNCHANGED <<posted, queue, history>>,
           ToSet(work'[t]) \subseteq ToSet(Rest(t)), ~Writing(t)'
    PROVE  MInv'
<1>0. pc[t] \in WithWork /\ Writing(t)
    BY DEF WithWork, PCs, Writing
<1>1. Cur(t) \in Msgs /\ Cur(t) <= posted /\ Cur(t) \notin ToSet(queue)
    BY <1>0, CurIsNowhereElse
<1>2. ToSet(work[t]) = {Cur(t)} \cup ToSet(Rest(t)) /\ Cur(t) \notin ToSet(Rest(t))
    BY <1>0, WorkInHand
<1>3. PICK h : Saved(h) /\ history = Append(h, Cur(t))
    BY <1>0 DEF MInv
<1>4. Cur(t) \notin rows
    BY <1>2 DEF MInv
<1>5. history \in Seq(Msgs) /\ ToSet(history) = rows \cup {Cur(t)} /\ IsInjective(history)
    BY <1>1, <1>3, <1>4, AppendHolds DEF Saved
<1>6. Saved(history)'
    BY <1>5 DEF Saved
<1>7. /\ \A m \in rows' : m <= posted
      /\ rows' \cap ToSet(queue') = {} /\ rows' \cap ToSet(work'[t]) = {}
    BY <1>1, <1>2 DEF MInv
<1> QED
    BY <1>6, <1>7, MemoryKept

(* The write fails: the message is popped.                                 *)
LEMMA WriteFails ==
    ASSUME IInv, PInv, PInv', MInv, NEW t \in Msgs, pc[t] \in {"persist", "tailPersist"},
           \A u \in Msgs : u # t => pc'[u] = "none",
           PopHistory, UNCHANGED <<posted, queue, rows>>,
           ToSet(work'[t]) \subseteq ToSet(Rest(t)), ~Writing(t)'
    PROVE  MInv' /\ history = Append(history', Cur(t)) /\ history' \in Seq(Msgs)
<1>0. pc[t] \in WithWork /\ Writing(t)
    BY DEF WithWork, PCs, Writing
<1>1. Cur(t) \in Msgs
    BY <1>0, CurIsNowhereElse
<1>2. ToSet(work[t]) = {Cur(t)} \cup ToSet(Rest(t))
    BY <1>0, WorkInHand
<1>3. PICK h : Saved(h) /\ history = Append(h, Cur(t))
    BY <1>0 DEF MInv
<1>4. history' = h /\ h \in Seq(Msgs)
    BY <1>1, <1>3, PopAppend DEF Saved
<1>5. Saved(history)'
    BY <1>3, <1>4 DEF Saved
<1>6. /\ \A m \in rows' : m <= posted
      /\ rows' \cap ToSet(queue') = {} /\ rows' \cap ToSet(work'[t]) = {}
    BY <1>2 DEF MInv
<1> QED
    BY <1>3, <1>4, <1>5, <1>6, MemoryKept

(* Nothing is written.                                                     *)
LEMMA NothingWritten ==
    ASSUME IInv, PInv', MInv, NEW t \in Msgs, ~Writing(t), ~Writing(t)',
           \A u \in Msgs : u # t => pc[u] = "none" /\ pc'[u] = "none",
           UNCHANGED <<posted, history, rows>>,
           ToSet(queue') \subseteq ToSet(queue),
           ToSet(work'[t]) \subseteq ToSet(queue) \cup ToSet(work[t])
    PROVE  MInv'
<1>1. \A u \in Msgs : ~Writing(u)
    BY DEF Writing
<1>2. Saved(history)'
    BY <1>1 DEF MInv, Saved
<1>3. /\ \A m \in rows' : m <= posted
      /\ rows' \cap ToSet(queue') = {} /\ rows' \cap ToSet(work'[t]) = {}
    BY DEF MInv
<1> QED
    BY <1>2, <1>3, MemoryKept

(* What a step of the one chain does to memory, hand and queue: it opens a *)
(* write, ends it, or writes nothing; messages go from the front of the    *)
(* queue to the hand.                                                      *)
Opens(t) == /\ pc[t] \in {"resolve", "tailResolve"} /\ pc'[t] \in {"persist", "tailPersist"}
            /\ history' = Append(history, Cur(t))
            /\ UNCHANGED <<rows, queue, promoted, work>>

Ends(t) == /\ pc[t] \in {"persist", "tailPersist"}
           /\ pc'[t] \in {"none", "loop", "tailResolve", "drain", "resolve"}
           /\ work'[t] \in {<<>>, Rest(t)}
           /\ \/ rows' = rows \cup {Cur(t)} /\ history' = history
              \/ rows' = rows /\ PopHistory
           /\ pc'[t] = "none" => controller = None \/ \E o \in PostOutcomes : o # "ok"
           /\ UNCHANGED <<queue, promoted>>

Takes(t) == /\ pc[t] \in {"drain", "shift"}
            /\ \E n \in 1 .. Len(queue) :
                   /\ work'[t] = SubSeq(queue, 1, n)
                   /\ queue' = SubSeq(queue, n + 1, Len(queue))
            /\ pc'[t] = "resolve" /\ UNCHANGED <<rows, history, promoted>>

Rests(t) == /\ pc[t] \in {"drain", "shift", "loop", "commit"}
            /\ pc'[t] \in {"none", "shift", "commit", "drain"}
            /\ pc'[t] = "none" => queue = <<>>
            /\ UNCHANGED <<rows, history, promoted, queue, work>>

(* Going on in a batch does not touch memory.                               *)
LEMMA NextInBatchEnds ==
    ASSUME IInv, NEW t \in Msgs, NEW members, NEW stop, NEW told,
           NextInBatch(t, members, stop, told)
    PROVE  /\ pc'[t] \in {"none", "loop", "tailResolve"}
           /\ work'[t] \in {<<>>, Rest(t)}
           /\ pc'[t] = "none" => controller = None
BY DEF NextInBatch, RunAgentLoop, Goto, IInv, TypeOK, ChainsOK

(* A step of a chain has one of the four shapes.                            *)
LEMMA ChainStepShape ==
    ASSUME TextSync, IInv, CInv, NEW t \in Msgs, ChainStep(t)
    PROVE  Opens(t) \/ Ends(t) \/ Takes(t) \/ Rests(t)
<1>0. ChainsOK /\ queue \in Seq(Msgs)
    BY DEF IInv, TypeOK, SequencesOK
<1>1. CASE ResolveText(t) /\ OpenTurn(t)
    BY <1>0, <1>1 DEF ResolveText, OpenTurn, Opens, Goto, ChainsOK, backlog
<1>2. CASE ResolveTail(t)
    BY <1>0, <1>2 DEF ResolveTail, Opens, Goto, ChainsOK, backlog
<1>3. CASE PersistOk(t)
    <2>1. /\ pc[t] = "persist" /\ rows' = rows \cup {Cur(t)} /\ history' = history
          /\ NextInBatch(t, <<Cur(t)>>, controller \in aborted, status)
          /\ UNCHANGED <<queue, promoted>>
        BY <1>3 DEF PersistOk, backlog
    <2>2. /\ pc'[t] \in {"none", "loop", "tailResolve"}
          /\ work'[t] \in {<<>>, Rest(t)}
          /\ pc'[t] = "none" => controller = None
        BY <2>1, NextInBatchEnds
    <2> QED
        BY <2>1, <2>2 DEF Ends
<1>4. CASE TailOk(t)
    <2>1. /\ pc[t] = "tailPersist" /\ rows' = rows \cup {Cur(t)} /\ history' = history
          /\ NextInBatch(t, Append(done[t], Cur(t)), controller \in aborted, status)
          /\ UNCHANGED <<queue, promoted>>
        BY <1>4 DEF TailOk, backlog
    <2>2. /\ pc'[t] \in {"none", "loop", "tailResolve"}
          /\ work'[t] \in {<<>>, Rest(t)}
          /\ pc'[t] = "none" => controller = None
        BY <2>1, NextInBatchEnds
    <2> QED
        BY <2>1, <2>2 DEF Ends
<1>5. ASSUME NEW o \in Outcomes, TailFails(t, o) PROVE Ends(t)
    <2>1. /\ pc[t] = "tailPersist" /\ rows' = rows /\ PopHistory
          /\ \E told : NextInBatch(t, done[t], FALSE, told)
          /\ UNCHANGED <<queue, promoted>>
        BY <1>5 DEF TailFails, backlog
    <2>2. /\ pc'[t] \in {"none", "loop", "tailResolve"}
          /\ work'[t] \in {<<>>, Rest(t)}
          /\ pc'[t] = "none" => controller = None
        BY <2>1, NextInBatchEnds
    <2> QED
        BY <2>1, <2>2 DEF Ends
<1>6. ASSUME NEW o \in Outcomes, PersistFails(t, o) PROVE Ends(t)
    <2>1. /\ pc[t] = "persist" /\ rows' = rows /\ PopHistory
          /\ pc'[t] = Resume(t) /\ work'[t] = Rest(t)
          /\ UNCHANGED <<queue, promoted>>
        BY <1>0, <1>6 DEF PersistFails, MoveOn, Goto, ChainsOK, backlog
    <2>2. mode[t] = "post" => \E x \in PostOutcomes : x # "ok"
        BY <1>6 DEF PersistFails, OutcomesOf
    <2>3. /\ Resume(t) \in {"none", "drain", "resolve"}
          /\ Resume(t) = "none" => mode[t] = "post"
        BY DEF Resume
    <2> QED
        BY <2>1, <2>2, <2>3 DEF Ends
<1>7. CASE TurnStep(t)
    BY <1>0, <1>7 DEF TurnStep, LoopEnds, TurnFinally, Rests, Goto, ChainsOK, backlog
<1>8. ASSUME NEW n \in 1 .. Len(queue), Hand(t, n), pc[t] \in {"drain", "shift"},
             UNCHANGED <<rows, history, promoted>>
      PROVE  Takes(t)
    BY <1>0, <1>8 DEF Hand, Takes, Goto, ChainsOK
<1>9. /\ queue # <<>> => 1 \in 1 .. Len(queue)
      /\ \A n \in 0 .. Len(queue) : n > 0 => n \in 1 .. Len(queue)
    BY <1>0, EmptySeq, LenProperties
<1>10. CASE DrainQueue(t)
    <2>1. pc[t] \in {"drain", "shift"} /\ UNCHANGED <<rows, history, promoted>>
        BY <1>10 DEF DrainQueue
    <2>2. CASE \E n \in 1 .. Len(queue) : Hand(t, n)
        BY <1>8, <2>1, <2>2
    <2>3. CASE DrainNothing(t) \/ (Goto(t, "shift") /\ UNCHANGED <<queue, work>>)
        BY <1>0, <2>1, <2>3 DEF DrainNothing, Rests, Goto, ChainsOK
    <2> QED
        BY <1>9, <1>10, <2>2, <2>3 DEF DrainQueue
<1>11. CASE DrainShift(t)
    <2>1. pc[t] \in {"drain", "shift"} /\ UNCHANGED <<rows, history, promoted>>
        BY <1>11 DEF DrainShift
    <2>2. CASE \E n \in 1 .. Len(queue) : Hand(t, n)
        BY <1>8, <2>1, <2>2
    <2>3. CASE DrainNothing(t)
        BY <1>0, <2>1, <2>3 DEF DrainNothing, Rests, Goto, ChainsOK
    <2> QED
        BY <1>9, <1>11, <2>2, <2>3 DEF DrainShift
<1>12. \/ ResolveText(t) /\ OpenTurn(t)
       \/ PersistOk(t) \/ ResolveTail(t) \/ TailOk(t)
       \/ \E o \in Outcomes : PersistFails(t, o) \/ TailFails(t, o)
       \/ TurnStep(t) \/ DrainQueue(t) \/ DrainShift(t)
    BY ChainStepText
<1> QED
    BY <1>1, <1>2, <1>3, <1>4, <1>5, <1>6, <1>7, <1>10, <1>11, <1>12

(* Every step keeps memory and database together.                          *)
LEMMA ChainStepMemory ==
    ASSUME TextSync, IInv, PInv, CInv, MInv, NEW t \in Msgs, ChainStep(t)
    PROVE  MInv'
<1>0. /\ \A u \in Msgs : u # t => pc[u] = "none" /\ pc'[u] = "none"
      /\ posted' = posted /\ PInv' /\ ChainsOK
    BY ChainStepText, OneChainSteps, StepPlaces DEF Next, IInv, TypeOK
<1>1. CASE Opens(t)
    <2>1. \A u \in Msgs : u # t => work'[u] = <<>> /\ work[u] = <<>>
        BY <1>0 DEF PInv, ChainPlaced, HandsUsed
    <2> QED
        BY <1>0, <1>1, WriteOpens DEF Opens, Writing
<1>2. CASE Ends(t)
    <2>1. pc[t] \in WithWork
        BY <1>2 DEF Ends, WithWork, PCs
    <2>2. ToSet(work'[t]) \subseteq ToSet(Rest(t)) /\ ~Writing(t)'
        BY <1>2, EmptyHolds DEF Ends, Writing
    <2> QED
        BY <1>0, <1>2, <2>2, WriteSucceeds, WriteFails DEF Ends
<1>3. CASE Takes(t)
    <2>1. queue \in Seq(Msgs)
        BY DEF IInv, TypeOK, SequencesOK
    <2>2. PICK n \in 1 .. Len(queue) : /\ work'[t] = SubSeq(queue, 1, n)
                                       /\ queue' = SubSeq(queue, n + 1, Len(queue))
        BY <1>3 DEF Takes
    <2> DEFINE taken == SubSeq(queue, 1, n)
               left  == SubSeq(queue, n + 1, Len(queue))
    <2>3. n \in 0 .. Len(queue)
        BY <2>1, LenProperties
    <2>4. taken \in Seq(Msgs) /\ left \in Seq(Msgs) /\ queue = taken \o left
        BY <2>1, <2>3, CutHolds
    <2>5. work'[t] = taken /\ queue' = left
        BY <2>2
    <2> HIDE DEF taken, left
    <2>6. ToSet(taken \o left) = ToSet(taken) \cup ToSet(left)
        BY <2>4, ConcatHolds
    <2>7. ~Writing(t) /\ ~Writing(t)' /\ UNCHANGED <<history, rows>>
        BY <1>3 DEF Takes, Writing
    <2> QED
        BY <1>0, <2>4, <2>5, <2>6, <2>7, NothingWritten
<1>4. CASE Rests(t)
    BY <1>0, <1>4, NothingWritten DEF Rests, Writing
<1> QED
    BY <1>1, <1>2, <1>3, <1>4, ChainStepShape

(* Requests from outside change neither memory nor the rows.                *)
LEMMA OutsideMemory ==
    ASSUME TextSync, IInv, PInv, OInv, CInv, MInv, Post \/ Cancel \/ Steer \/ Delete
    PROVE  MInv'
<1>0. ChainsOK /\ queue \in Seq(Msgs) /\ posted \in Int /\ UNCHANGED <<history, rows>>
    <2>1. ChainsOK /\ queue \in Seq(Msgs) /\ posted \in Int
        BY NAssumption DEF IInv, TypeOK, SequencesOK, MessagesOK
    <2>2. UNCHANGED <<history, rows>>
        BY DEF Post, Cancel, Steer, Delete
    <2> QED
        BY <2>1, <2>2
<1>1. rows \subseteq Msgs /\ Msgs \subseteq Int
    BY NAssumption DEF IInv, TypeOK, MessagesOK, Msgs
<1>2. CASE UNCHANGED <<chains, posted>> /\ ToSet(queue') \subseteq ToSet(queue)
    BY <1>0, <1>2 DEF MInv, Saved, Writing, Cur, chains
<1>3. CASE Cancel
    BY <1>2, <1>3, EmptyHolds DEF Cancel
<1>4. ASSUME Steer PROVE MInv'
    <2>1. PICK i \in 1 .. Len(queue) : queue' = <<queue[i]>> \o RemoveFrom(queue, i)
        BY <1>4 DEF Steer
    <2> DEFINE o == <<queue[i]>>
               r == RemoveFrom(queue, i)
    <2>2. /\ r \in Seq(Msgs) /\ o \in Seq(Msgs) /\ ToSet(o) = {queue[i]}
          /\ ToSet(queue) = {queue[i]} \cup ToSet(r)
        BY <1>0, RemoveApart, OneHolds DEF PInv, QueuePlaced
    <2>3. queue' = o \o r
        BY <2>1
    <2> HIDE DEF o, r
    <2>4. ToSet(o \o r) = ToSet(o) \cup ToSet(r)
        BY <2>2, ConcatHolds
    <2>5. ToSet(queue') \subseteq ToSet(queue) /\ UNCHANGED <<chains, posted>>
        BY <1>4, <2>2, <2>3, <2>4 DEF Steer
    <2> QED
        BY <1>2, <2>5
<1>5. ASSUME Delete PROVE MInv'
    <2>1. PICK i \in 1 .. Len(queue) : queue' = RemoveFrom(queue, i)
        BY <1>5 DEF Delete
    <2>2. ToSet(queue) = {queue[i]} \cup ToSet(RemoveFrom(queue, i))
        BY <1>0, RemoveApart DEF PInv, QueuePlaced
    <2>3. ToSet(queue') \subseteq ToSet(queue) /\ UNCHANGED <<chains, posted>>
        BY <1>5, <2>1, <2>2 DEF Delete
    <2> QED
        BY <1>2, <2>3
<1>6. ASSUME Post PROVE MInv'
    <2>1. PICK m \in Msgs : /\ m = posted + 1 /\ m > posted /\ posted' = m
                            /\ PostQueued(m) \/ PostRejected(m) \/ PostIdle(m)
        <3>1. posted + 1 \in Msgs /\ posted' = posted + 1 /\ posted + 1 > posted
            BY <1>0, <1>6, NAssumption DEF Post, Msgs, IInv, TypeOK, MessagesOK
        <3>2. PostQueued(posted + 1) \/ PostRejected(posted + 1) \/ PostIdle(posted + 1)
            BY <1>6 DEF Post
        <3> QED
            BY <3>1, <3>2
    <2>2. m \notin rows /\ \A k \in rows : k <= m
        BY <1>0, <1>1, <2>1 DEF MInv
    <2>3. rows \cap ToSet(queue') = {}
        <3>1. queue' = Append(queue, m) \/ queue' = queue
            BY <2>1 DEF PostQueued, PostRejected, PostIdle, Enqueue, backlog
        <3>2. ToSet(Append(queue, m)) = ToSet(queue) \cup {m}
            BY <1>0, AppendHolds
        <3>3. ToSet(queue') = ToSet(queue) \cup {m} \/ ToSet(queue') = ToSet(queue)
            BY <3>1, <3>2
        <3>4. rows \cap ToSet(queue) = {}
            BY DEF MInv
        <3> QED
            BY <2>2, <3>3, <3>4
    <2>4. CASE UNCHANGED chains
        BY <1>0, <2>1, <2>2, <2>3, <2>4 DEF MInv, Saved, Writing, Cur, chains
    <2>5. CASE PostIdle(m)
        <3>1. \A u \in Msgs : pc[u] = "none"
            BY <1>6, <2>5, IdleIsIdle DEF PostIdle, Post
        <3>2. /\ pc'[m] = "resolve" /\ work'[m] = <<m>>
              /\ \A u \in Msgs : u # m => pc'[u] = "none" /\ work'[u] = work[u]
            BY <1>0, <2>5, <3>1 DEF PostIdle, Goto, ChainsOK
        <3>3. \A u \in Msgs : ~Writing(u) /\ ~Writing(u)'
            BY <3>1, <3>2 DEF Writing
        <3>4. Saved(history)'
            BY <1>0, <3>3 DEF MInv, Saved
        <3>5. \A u \in Msgs : rows \cap ToSet(work'[u]) = {}
            <4>1. ToSet(work'[m]) = {m}
                BY <3>2, OneHolds
            <4>2. \A u \in Msgs : rows \cap ToSet(work[u]) = {}
                BY DEF MInv
            <4> QED
                BY <2>2, <3>2, <4>1, <4>2
        <3> QED
            BY <1>0, <2>1, <2>2, <2>3, <3>3, <3>4, <3>5 DEF MInv
    <2> QED
        BY <2>1, <2>4, <2>5 DEF PostQueued, PostRejected
<1> QED
    BY <1>3, <1>4, <1>5, <1>6

(* Every step keeps memory and rows together.                               *)
LEMMA StepMemory ==
    ASSUME TextSync, IInv, PInv, OInv, CInv, MInv, [Next]_vars
    PROVE  MInv'
<1>1. CASE UNCHANGED vars
    BY <1>1 DEF vars, backlog, chains, MInv, Saved, Writing, Cur
<1> QED
    BY <1>1, OutsideMemory, ChainStepMemory DEF Next

(* All that holds of a conversation with text only.                         *)
TextInv == IInv /\ PInv /\ OInv /\ CInv /\ MInv

(* It holds in every reachable state.                                       *)
LEMMA TextInductive ==
    ASSUME TextSync
    PROVE  Spec => []TextInv
<1>1. Init => TextInv
    BY InitInv, PlacesInit, OwnerInit, OneChainInit, MemoryInit DEF TextInv
<1>2. TextInv /\ [Next]_vars => TextInv'
    BY TextIsSync, StepInv, StepPlaces, StepOwns, StepText, StepMemory DEF TextInv
<1> QED
    BY <1>1, <1>2, PTL DEF Spec

(* In a conversation that gets plain text only, when nothing is being      *)
(* written the messages in memory are those in the database, each once, in *)
(* spite of writes that fail, messages that are deduplicated and turns     *)
(* that are aborted in the middle of a batch.                              *)
THEOREM MemoryIsRows ==
    ASSUME TextSync
    PROVE  Spec => []MemoryMatchesRows
<1>1. TextInv => MemoryMatchesRows
    BY DEF TextInv, MInv, Saved, MemoryMatchesRows
<1> QED
    BY <1>1, TextInductive, PTL

-----------------------------------------------------------------------------
(* The order of arrival.                                                   *)

(* m may precede n, given the messages P that the user steered to.         *)
Before(P, m, n)    == m <= n \/ m \in P
AllBefore(P, A, B) == \A m \in A, n \in B : Before(P, m, n)
Ordered(P, s)      == \A i, j \in 1 .. Len(s) : i < j => Before(P, s[i], s[j])

(* What is in memory precedes what is in hand, and this what is queued;    *)
(* nothing is queued unless somebody is going to drain.                    *)
RInv ==
    /\ history \in Seq(Msgs) /\ \A m \in ToSet(history) : m <= posted
    /\ Ordered(promoted, history) /\ Ordered(promoted, queue)
    /\ AllBefore(promoted, ToSet(history), ToSet(queue))
    /\ \A t \in Msgs : /\ Ordered(promoted, work[t])
                       /\ AllBefore(promoted, ToSet(history), ToSet(work[t]))
                       /\ AllBefore(promoted, ToSet(work[t]), ToSet(queue))
    /\ queue # <<>> => \E t \in Msgs : pc[t] # "none"

(* Order by elements rather than by positions.                             *)
LEMMA OrderedEmpty == \A P : Ordered(P, <<>>)
BY DEF Ordered

(* so is one message,                                                       *)
LEMMA OrderedOne ==
    ASSUME NEW P, NEW m \in Msgs
    PROVE  Ordered(P, <<m>>)
BY DEF Ordered

(* and two sequences in order are in order together when the first precedes *)
(* the second.                                                              *)
LEMMA OrderedConcat ==
    ASSUME NEW P, NEW s \in Seq(Msgs), NEW u \in Seq(Msgs)
    PROVE  Ordered(P, s \o u) <=> /\ Ordered(P, s) /\ Ordered(P, u)
                                  /\ AllBefore(P, ToSet(s), ToSet(u))
<1> DEFINE c == s \o u
<1>1. /\ c \in Seq(Msgs) /\ Len(c) = Len(s) + Len(u)
      /\ Len(s) \in Nat /\ Len(u) \in Nat
      /\ \A i \in 1 .. Len(s) : c[i] = s[i]
      /\ \A i \in 1 .. Len(u) : c[Len(s) + i] = u[i]
    BY ConcatProperties, LenProperties
<1> HIDE DEF c
<1>2. \A i \in 1 .. Len(c) : \/ i \in 1 .. Len(s)
                             \/ \E j \in 1 .. Len(u) : i = Len(s) + j
    <2> TAKE i \in 1 .. Len(c)
    <2>1. i \notin 1 .. Len(s) => i - Len(s) \in 1 .. Len(u) /\ i = Len(s) + (i - Len(s))
        BY <1>1
    <2> QED
        BY <2>1
<1>3. /\ ToSet(s) = {s[i] : i \in 1 .. Len(s)}
      /\ ToSet(u) = {u[i] : i \in 1 .. Len(u)}
    BY ElementsOf
<1>4. /\ \A i \in 1 .. Len(s) : i \in 1 .. Len(c)
      /\ \A i \in 1 .. Len(u) : Len(s) + i \in 1 .. Len(c)
      /\ \A i \in 1 .. Len(s), j \in 1 .. Len(u) : i < Len(s) + j
      /\ \A i, j \in 1 .. Len(u) : Len(s) + i < Len(s) + j <=> i < j
    BY <1>1
<1>5. ASSUME Ordered(P, c)
      PROVE  Ordered(P, s) /\ Ordered(P, u) /\ AllBefore(P, ToSet(s), ToSet(u))
    <2>0. \A i, j \in 1 .. Len(c) : i < j => Before(P, c[i], c[j])
        BY <1>5 DEF Ordered
    <2>1. Ordered(P, s)
        BY <1>1, <1>4, <2>0 DEF Ordered
    <2>2. Ordered(P, u)
        <3>1. ASSUME NEW i \in 1 .. Len(u), NEW j \in 1 .. Len(u), i < j
              PROVE  Before(P, u[i], u[j])
            <4>1. Before(P, c[Len(s) + i], c[Len(s) + j])
                BY <1>4, <2>0, <3>1
            <4> QED
                BY <1>1, <4>1
        <3> QED
            BY <3>1 DEF Ordered
    <2>3. AllBefore(P, ToSet(s), ToSet(u))
        <3>1. ASSUME NEW i \in 1 .. Len(s), NEW j \in 1 .. Len(u)
              PROVE  Before(P, s[i], u[j])
            <4>1. Before(P, c[i], c[Len(s) + j])
                BY <1>4, <2>0
            <4> QED
                BY <1>1, <4>1
        <3> QED
            BY <1>3, <3>1 DEF AllBefore
    <2> QED
        BY <2>1, <2>2, <2>3
<1>6. ASSUME Ordered(P, s), Ordered(P, u), AllBefore(P, ToSet(s), ToSet(u))
      PROVE  Ordered(P, c)
    <2>1. /\ \A i, j \in 1 .. Len(s) : i < j => Before(P, s[i], s[j])
          /\ \A i, j \in 1 .. Len(u) : i < j => Before(P, u[i], u[j])
          /\ \A i \in 1 .. Len(s), j \in 1 .. Len(u) : Before(P, s[i], u[j])
        BY <1>3, <1>6 DEF Ordered, AllBefore
    <2>2. ASSUME NEW i \in 1 .. Len(c), NEW j \in 1 .. Len(c), i < j
          PROVE  Before(P, c[i], c[j])
        <3>1. CASE i \in 1 .. Len(s) /\ j \in 1 .. Len(s)
            BY <1>1, <2>1, <2>2, <3>1
        <3>2. CASE i \in 1 .. Len(s) /\ j \notin 1 .. Len(s)
            <4>1. PICK l \in 1 .. Len(u) : j = Len(s) + l
                BY <1>2, <3>2
            <4>2. c[i] = s[i] /\ c[j] = u[l]
                BY <1>1, <3>2, <4>1
            <4> QED
                BY <2>1, <3>2, <4>2
        <3>3. CASE i \notin 1 .. Len(s)
            <4>1. j \notin 1 .. Len(s)
                BY <1>1, <2>2, <3>3
            <4>2. PICK k \in 1 .. Len(u) : i = Len(s) + k
                BY <1>2, <3>3
            <4>3. PICK l \in 1 .. Len(u) : j = Len(s) + l
                BY <1>2, <4>1
            <4>4. k < l /\ c[i] = u[k] /\ c[j] = u[l]
                BY <1>1, <1>4, <2>2, <4>2, <4>3
            <4> QED
                BY <2>1, <4>4
        <3> QED
            BY <3>1, <3>2, <3>3
    <2> QED
        BY <2>2 DEF Ordered
<1> QED
    BY <1>5, <1>6 DEF c

(* Steering to more messages leaves what was in order in order.            *)
LEMMA OrderMonotone ==
    ASSUME NEW P, NEW Q, P \subseteq Q
    PROVE  /\ \A s : Ordered(P, s) => Ordered(Q, s)
           /\ \A A, B : AllBefore(P, A, B) => AllBefore(Q, A, B)
BY DEF Ordered, AllBefore, Before

(* An ordered queue without its i-th message is ordered.                   *)
LEMMA RemoveOrdered ==
    ASSUME NEW P, NEW q \in Seq(Msgs), NEW i \in 1 .. Len(q), Ordered(P, q)
    PROVE  Ordered(P, RemoveFrom(q, i))
<1>1. PICK a \in Seq(Msgs), b \in Seq(Msgs) :
          q = a \o (<<q[i]>> \o b) /\ RemoveFrom(q, i) = a \o b /\ q[i] \in Msgs
    BY RemoveHolds
<1> DEFINE o == <<q[i]>>
<1>2. o \in Seq(Msgs)
    BY <1>1, OneHolds
<1>3. q = a \o (o \o b) /\ RemoveFrom(q, i) = a \o b
    BY <1>1
<1> HIDE DEF o
<1>4. /\ o \o b \in Seq(Msgs) /\ ToSet(o \o b) = ToSet(o) \cup ToSet(b)
      /\ Ordered(P, o \o b) => Ordered(P, b)
    BY <1>2, ConcatHolds, OrderedConcat
<1>5. Ordered(P, a) /\ Ordered(P, o \o b) /\ AllBefore(P, ToSet(a), ToSet(o \o b))
    BY <1>3, <1>4, OrderedConcat
<1>6. AllBefore(P, ToSet(a), ToSet(b))
    BY <1>4, <1>5 DEF AllBefore
<1>7. Ordered(P, a \o b)
    BY <1>4, <1>5, <1>6, OrderedConcat
<1> QED
    BY <1>3, <1>7

(* Initially there is nothing to order.                                     *)
LEMMA OrderInit == Init => RInv
<1> SUFFICES ASSUME Init PROVE RInv
    OBVIOUS
<1>1. history = <<>> /\ queue = <<>> /\ \A t \in Msgs : work[t] = <<>>
    BY DEF Init
<1> QED
    BY <1>1, EmptySeq, EmptyHolds, OrderedEmpty DEF RInv, AllBefore

(* The hand and the queue of a step of the one chain.                      *)
LEMMA OrderKept ==
    ASSUME RInv, PInv', NEW t \in Msgs, \A u \in Msgs : u # t => pc'[u] = "none",
           UNCHANGED <<posted, promoted>>,
           history' \in Seq(Msgs), \A m \in ToSet(history') : m <= posted,
           Ordered(promoted, history'), Ordered(promoted, queue'), Ordered(promoted, work'[t]),
           AllBefore(promoted, ToSet(history'), ToSet(queue')),
           AllBefore(promoted, ToSet(history'), ToSet(work'[t])),
           AllBefore(promoted, ToSet(work'[t]), ToSet(queue')),
           queue' # <<>> => pc'[t] # "none"
    PROVE  RInv'
<1>1. \A u \in Msgs : u # t => work'[u] = <<>>
    BY OthersHoldNothing
<1>2. \A u \in Msgs : /\ Ordered(promoted, work'[u])
                      /\ AllBefore(promoted, ToSet(history'), ToSet(work'[u]))
                      /\ AllBefore(promoted, ToSet(work'[u]), ToSet(queue'))
    BY <1>1, OrderedEmpty, EmptyHolds DEF AllBefore
<1> QED
    BY <1>2 DEF RInv

(* The head precedes what follows it in hand.                              *)
LEMMA HeadFirst ==
    ASSUME IInv, PInv, RInv, NEW t \in Msgs, pc[t] \in WithWork
    PROVE  /\ Ordered(promoted, Rest(t))
           /\ AllBefore(promoted, {Cur(t)}, ToSet(work[t]))
<1>1. work[t] \in Seq(Msgs) /\ work[t] # <<>> /\ Ordered(promoted, work[t])
    BY DEF IInv, TypeOK, ChainsOK, HandsFull, RInv
<1>2. /\ Cur(t) \in Msgs /\ Rest(t) \in Seq(Msgs) /\ work[t] = <<Cur(t)>> \o Rest(t)
      /\ ToSet(work[t]) = {Cur(t)} \cup ToSet(Rest(t))
    BY <1>1, HeadTailHolds DEF Cur, Rest
<1> DEFINE o == <<Cur(t)>>
<1>3. o \in Seq(Msgs) /\ ToSet(o) = {Cur(t)}
    BY <1>2, OneHolds
<1>4. work[t] = o \o Rest(t)
    BY <1>2
<1> HIDE DEF o
<1>5. Ordered(promoted, Rest(t)) /\ AllBefore(promoted, ToSet(o), ToSet(Rest(t)))
    <2>1. Ordered(promoted, o \o Rest(t))
        BY <1>1, <1>4
    <2> QED
        BY <1>2, <1>3, <2>1, OrderedConcat
<1>6. Before(promoted, Cur(t), Cur(t))
    <2>1. Cur(t) \in Int
        BY <1>2, NAssumption DEF Msgs
    <2> QED
        BY <2>1 DEF Before
<1> QED
    BY <1>2, <1>3, <1>5, <1>6 DEF AllBefore

(* A step of a chain keeps the order.                                       *)
LEMMA ChainStepOrder ==
    ASSUME TextSync, PostOutcomes \subseteq {"ok"},
           IInv, PInv, OInv, CInv, MInv, RInv, NEW t \in Msgs, ChainStep(t)
    PROVE  RInv'
<1>0. /\ \A u \in Msgs : u # t => pc[u] = "none" /\ pc'[u] = "none"
      /\ posted' = posted /\ PInv'
      /\ queue \in Seq(Msgs) /\ history \in Seq(Msgs)
    BY ChainStepText, OneChainSteps, StepPlaces DEF Next, IInv, TypeOK, SequencesOK
<1>r. /\ \A m \in ToSet(history) : m <= posted
      /\ Ordered(promoted, history) /\ Ordered(promoted, queue)
      /\ AllBefore(promoted, ToSet(history), ToSet(queue))
      /\ Ordered(promoted, work[t])
      /\ AllBefore(promoted, ToSet(history), ToSet(work[t]))
      /\ AllBefore(promoted, ToSet(work[t]), ToSet(queue))
    BY DEF RInv
<1>1. CASE Opens(t)
    <2>0. /\ pc[t] \in WithWork /\ pc'[t] # "none" /\ history' = Append(history, Cur(t))
          /\ UNCHANGED <<queue, promoted, work>>
        BY <1>1 DEF Opens, WithWork, PCs
    <2>1. Cur(t) \in Msgs /\ Cur(t) <= posted
        BY <2>0, CurIsNowhereElse
    <2>2. Cur(t) \in ToSet(work[t])
        BY <2>0, WorkInHand
    <2> DEFINE o == <<Cur(t)>>
    <2>3. o \in Seq(Msgs) /\ ToSet(o) = {Cur(t)} /\ Ordered(promoted, o)
        BY <2>1, OneHolds, OrderedOne
    <2>4. history' = history \o o
        BY <1>0, <2>0, <2>1, AppendIsConcat
    <2> HIDE DEF o
    <2>5. history' \in Seq(Msgs) /\ ToSet(history') = ToSet(history) \cup {Cur(t)}
        <3>1. history \o o \in Seq(Msgs) /\ ToSet(history \o o) = ToSet(history) \cup ToSet(o)
            BY <1>0, <2>3, ConcatHolds
        <3> QED
            BY <2>3, <2>4, <3>1
    <2>6. Ordered(promoted, history')
        <3>1. AllBefore(promoted, ToSet(history), ToSet(o))
            BY <1>r, <2>2, <2>3 DEF AllBefore
        <3>2. Ordered(promoted, history \o o)
            BY <1>0, <1>r, <2>3, <3>1, OrderedConcat
        <3> QED
            BY <2>4, <3>2
    <2>7. AllBefore(promoted, {Cur(t)}, ToSet(work[t]))
        BY <2>0, HeadFirst
    <2>8. /\ AllBefore(promoted, ToSet(history'), ToSet(work[t]))
          /\ AllBefore(promoted, ToSet(history'), ToSet(queue))
        BY <1>r, <2>2, <2>5, <2>7 DEF AllBefore
    <2>9. \A m \in ToSet(history') : m <= posted
        BY <1>r, <2>1, <2>5
    <2> QED
        BY <1>0, <1>r, <2>0, <2>5, <2>6, <2>8, <2>9, OrderKept
<1>2. CASE Ends(t)
    <2>0. /\ pc[t] \in {"persist", "tailPersist"} /\ pc[t] \in WithWork
          /\ work'[t] \in {<<>>, Rest(t)}
          /\ UNCHANGED <<queue, promoted>>
        BY <1>2 DEF Ends, WithWork, PCs
    <2>1. pc'[t] # "none"
        <3>1. controller # None
            BY <2>0 DEF OInv, TurnControlled, HoldsTurn
        <3> QED
            BY <1>2, <3>1 DEF Ends
    <2>2. ToSet(work'[t]) \subseteq ToSet(work[t]) /\ ToSet(work'[t]) \subseteq ToSet(Rest(t))
        BY <2>0, WorkInHand, EmptyHolds
    <2>3. Ordered(promoted, work'[t])
        BY <2>0, HeadFirst, OrderedEmpty
    <2>4. /\ history' \in Seq(Msgs) /\ ToSet(history') \subseteq ToSet(history)
          /\ Ordered(promoted, history')
        <3>1. CASE history' = history
            BY <1>0, <1>r, <3>1
        <3>2. CASE rows' = rows /\ PopHistory
            <4>1. ~Writing(t)'
                BY <1>2 DEF Ends, Writing
            <4>2. history = Append(history', Cur(t)) /\ history' \in Seq(Msgs)
                BY <1>0, <2>0, <2>2, <3>2, <4>1, WriteFails
            <4>3. Cur(t) \in Msgs
                BY <2>0, CurIsNowhereElse
            <4> DEFINE o == <<Cur(t)>>
                       h == history'
            <4>4. o \in Seq(Msgs) /\ history = h \o o /\ h \in Seq(Msgs)
                BY <4>2, <4>3, OneHolds, AppendIsConcat
            <4> HIDE DEF o, h
            <4>5. ToSet(h \o o) = ToSet(h) \cup ToSet(o)
                BY <4>4, ConcatHolds
            <4>6. Ordered(promoted, h \o o) => Ordered(promoted, h)
                BY <4>4, OrderedConcat
            <4> QED
                BY <1>r, <4>4, <4>5, <4>6 DEF h
        <3> QED
            BY <1>2, <3>1, <3>2 DEF Ends
    <2>5. /\ AllBefore(promoted, ToSet(history'), ToSet(work'[t]))
          /\ AllBefore(promoted, ToSet(history'), ToSet(queue'))
          /\ AllBefore(promoted, ToSet(work'[t]), ToSet(queue'))
        BY <1>r, <2>0, <2>2, <2>4 DEF AllBefore
    <2>6. \A m \in ToSet(history') : m <= posted
        BY <1>r, <2>4
    <2> QED
        BY <1>0, <1>r, <2>0, <2>1, <2>3, <2>4, <2>5, <2>6, OrderKept
<1>3. CASE Takes(t)
    <2>1. PICK n \in 1 .. Len(queue) : /\ work'[t] = SubSeq(queue, 1, n)
                                       /\ queue' = SubSeq(queue, n + 1, Len(queue))
        BY <1>3 DEF Takes
    <2> DEFINE taken == SubSeq(queue, 1, n)
               left  == SubSeq(queue, n + 1, Len(queue))
    <2>2. n \in 0 .. Len(queue)
        BY <1>0, LenProperties
    <2>3. taken \in Seq(Msgs) /\ left \in Seq(Msgs) /\ queue = taken \o left
        BY <1>0, <2>2, CutHolds
    <2>4. work'[t] = taken /\ queue' = left
        BY <2>1
    <2> HIDE DEF taken, left
    <2>5. /\ ToSet(taken \o left) = ToSet(taken) \cup ToSet(left)
          /\ Ordered(promoted, taken \o left) =>
                /\ Ordered(promoted, taken) /\ Ordered(promoted, left)
                /\ AllBefore(promoted, ToSet(taken), ToSet(left))
        BY <2>3, ConcatHolds, OrderedConcat
    <2>6. pc'[t] # "none" /\ UNCHANGED <<history, promoted>>
        BY <1>3 DEF Takes
    <2>7. /\ AllBefore(promoted, ToSet(history), ToSet(taken))
          /\ AllBefore(promoted, ToSet(history), ToSet(left))
        BY <1>r, <2>3, <2>5 DEF AllBefore
    <2>8. /\ Ordered(promoted, taken) /\ Ordered(promoted, left)
          /\ AllBefore(promoted, ToSet(taken), ToSet(left))
        BY <1>r, <2>3, <2>5
    <2> QED
        BY <1>0, <1>r, <2>4, <2>6, <2>7, <2>8, OrderKept
<1>4. CASE Rests(t)
    <2>1. /\ pc'[t] = "none" => queue = <<>>
          /\ UNCHANGED <<history, promoted, queue, work>>
        BY <1>4 DEF Rests
    <2> QED
        BY <1>0, <1>r, <2>1, OrderKept
<1> QED
    BY <1>1, <1>2, <1>3, <1>4, ChainStepShape

(* An open message has been posted.                                         *)
LEMMA Arrived ==
    ASSUME IInv, PInv, NEW m \in Open
    PROVE  m <= posted /\ m \in Msgs
<1>1. m \in Msgs /\ m \in Int /\ posted \in Int /\ status[m] # "new"
    BY NAssumption DEF Open, IInv, TypeOK, MessagesOK, Msgs
<1>2. ~(m > posted)
    BY <1>1 DEF PInv, NewOnes
<1> QED
    BY <1>1, <1>2

(* A message that is posted comes after all that are there.                 *)
LEMMA PostOrder ==
    ASSUME TextSync, IInv, PInv, OInv, CInv, RInv, Post
    PROVE  RInv'
<1>0. /\ ChainsOK /\ queue \in Seq(Msgs) /\ posted \in Int /\ history \in Seq(Msgs)
      /\ Msgs \subseteq Int
    BY NAssumption DEF IInv, TypeOK, SequencesOK, MessagesOK, Msgs
<1>1. PICK m \in Msgs : /\ m > posted /\ posted' = m
                        /\ PostQueued(m) \/ PostRejected(m) \/ PostIdle(m)
    <2>1. posted + 1 \in Msgs /\ posted' = posted + 1 /\ posted + 1 > posted
        BY <1>0, NAssumption DEF Post, Msgs, IInv, TypeOK, MessagesOK
    <2>2. PostQueued(posted + 1) \/ PostRejected(posted + 1) \/ PostIdle(posted + 1)
        BY DEF Post
    <2> QED
        BY <2>1, <2>2
<1>2. history' = history /\ promoted' = promoted
    BY <1>1 DEF Post, PostQueued, PostRejected, PostIdle, backlog
<1>3. \A k \in Msgs : k <= posted => k <= m
    BY <1>0, <1>1
<1>4. ToSet(history) \subseteq Msgs
    BY <1>0, ElementsOf
<1>5. /\ ToSet(queue) \subseteq Open
      /\ \A t \in Msgs : ToSet(work[t]) \subseteq Open
    BY DEF PInv, QueuePlaced, ChainPlaced, HandsOpen
<1>6. /\ AllBefore(promoted, ToSet(history), {m})
      /\ AllBefore(promoted, ToSet(queue), {m})
      /\ \A t \in Msgs : AllBefore(promoted, ToSet(work[t]), {m})
    BY <1>3, <1>4, <1>5, Arrived DEF RInv, AllBefore, Before
<1>7. \A k \in ToSet(history) : k <= m
    BY <1>3, <1>4 DEF RInv
<1>8. CASE PostQueued(m)
    <2>1. queue' = Append(queue, m) /\ UNCHANGED chains /\ processing
        BY <1>8 DEF PostQueued, Enqueue
    <2> DEFINE o == <<m>>
    <2>2. o \in Seq(Msgs) /\ ToSet(o) = {m} /\ Ordered(promoted, o) /\ queue' = queue \o o
        BY <1>0, <2>1, OneHolds, OrderedOne, AppendIsConcat
    <2> HIDE DEF o
    <2>3. /\ ToSet(queue \o o) = ToSet(queue) \cup {m}
          /\ Ordered(promoted, queue \o o) <=> /\ Ordered(promoted, queue) /\ Ordered(promoted, o)
                                               /\ AllBefore(promoted, ToSet(queue), ToSet(o))
        BY <1>0, <2>2, ConcatHolds, OrderedConcat
    <2>4. ToSet(queue') = ToSet(queue) \cup {m} /\ Ordered(promoted, queue')
        BY <1>6, <2>2, <2>3 DEF RInv
    <2>5. /\ AllBefore(promoted, ToSet(history), ToSet(queue'))
          /\ \A t \in Msgs : AllBefore(promoted, ToSet(work[t]), ToSet(queue'))
        BY <1>6, <2>4 DEF RInv, AllBefore
    <2>6. \E t \in Msgs : pc'[t] # "none"
        BY <2>1 DEF IInv, FlagHasHolder, HoldsFlag, HoldsTurn, HoldsSlash, chains
    <2> QED
        BY <1>1, <1>2, <1>7, <2>1, <2>4, <2>5, <2>6 DEF RInv, chains
<1>9. CASE PostRejected(m)
    <2>1. UNCHANGED <<queue, chains>>
        BY <1>9 DEF PostRejected, backlog
    <2> QED
        BY <1>1, <1>2, <1>7, <2>1 DEF RInv, chains
<1>10. CASE PostIdle(m)
    <2>1. \A u \in Msgs : pc[u] = "none"
        BY <1>10, IdleIsIdle DEF PostIdle, Post
    <2>2. queue = <<>> /\ queue' = queue
        BY <1>10, <2>1 DEF RInv, PostIdle, backlog
    <2>3. work'[m] = <<m>> /\ \A u \in Msgs : u # m => work'[u] = work[u]
        BY <1>0, <1>10 DEF PostIdle, ChainsOK
    <2>4. ToSet(work'[m]) = {m} /\ Ordered(promoted, work'[m])
        BY <2>3, OneHolds, OrderedOne
    <2>5. \A u \in Msgs : /\ Ordered(promoted, work'[u])
                          /\ AllBefore(promoted, ToSet(history), ToSet(work'[u]))
        BY <1>6, <2>3, <2>4 DEF RInv
    <2>6. \A u \in Msgs : AllBefore(promoted, ToSet(work'[u]), ToSet(queue'))
        BY <2>2, EmptyHolds DEF AllBefore
    <2> QED
        BY <1>1, <1>2, <1>7, <2>2, <2>5, <2>6 DEF RInv
<1> QED
    BY <1>1, <1>8, <1>9, <1>10

(* The user's controls: a steered message goes first, and may.             *)
LEMMA ControlOrder ==
    ASSUME IInv, PInv, RInv, Cancel \/ Steer \/ Delete
    PROVE  RInv'
<1>0. /\ queue \in Seq(Msgs) /\ UNCHANGED <<chains, history, posted>>
      /\ IsInjective(queue)
    BY DEF IInv, TypeOK, SequencesOK, Cancel, Steer, Delete, PInv, QueuePlaced
<1>1. promoted \subseteq promoted'
    BY DEF Cancel, Steer, Delete
<1>2. ASSUME Ordered(promoted', queue'), ToSet(queue') \subseteq ToSet(queue),
             queue' # <<>> => queue # <<>>
      PROVE  RInv'
    <2>1. /\ Ordered(promoted', history)
          /\ AllBefore(promoted', ToSet(history), ToSet(queue))
          /\ \A t \in Msgs : /\ Ordered(promoted', work[t])
                             /\ AllBefore(promoted', ToSet(history), ToSet(work[t]))
                             /\ AllBefore(promoted', ToSet(work[t]), ToSet(queue))
        BY <1>1, OrderMonotone DEF RInv
    <2>2. /\ AllBefore(promoted', ToSet(history), ToSet(queue'))
          /\ \A t \in Msgs : AllBefore(promoted', ToSet(work[t]), ToSet(queue'))
        BY <1>2, <2>1 DEF AllBefore
    <2> QED
        BY <1>0, <1>2, <2>1, <2>2 DEF RInv, chains
<1>3. CASE Cancel
    BY <1>2, <1>3, EmptyHolds, OrderedEmpty DEF Cancel
<1>4. ASSUME Steer PROVE RInv'
    <2>1. PICK i \in 1 .. Len(queue) : /\ queue' = <<queue[i]>> \o RemoveFrom(queue, i)
                                       /\ promoted' = promoted \cup {queue[i]}
        BY <1>4 DEF Steer
    <2> DEFINE o == <<queue[i]>>
               r == RemoveFrom(queue, i)
    <2>2. /\ r \in Seq(Msgs) /\ o \in Seq(Msgs) /\ ToSet(o) = {queue[i]}
          /\ ToSet(queue) = {queue[i]} \cup ToSet(r) /\ Ordered(promoted', o)
        BY <1>0, RemoveApart, OneHolds, OrderedOne
    <2>3. Ordered(promoted', r)
        <3>1. Ordered(promoted, r)
            BY <1>0, RemoveOrdered DEF RInv
        <3> QED
            BY <1>1, <3>1, OrderMonotone
    <2>4. queue' = o \o r
        BY <2>1
    <2> HIDE DEF o, r
    <2>5. ToSet(o \o r) = ToSet(o) \cup ToSet(r)
        BY <2>2, ConcatHolds
    <2>6. AllBefore(promoted', ToSet(o), ToSet(r))
        BY <2>1, <2>2 DEF AllBefore, Before
    <2>7. Ordered(promoted', o \o r)
        BY <2>2, <2>3, <2>6, OrderedConcat
    <2>8. queue # <<>>
        BY <1>0, <2>2, EmptyHolds
    <2> QED
        BY <1>2, <2>2, <2>4, <2>5, <2>7, <2>8
<1>5. ASSUME Delete PROVE RInv'
    <2>1. PICK i \in 1 .. Len(queue) : queue' = RemoveFrom(queue, i)
        BY <1>5 DEF Delete
    <2>2. /\ ToSet(queue) = {queue[i]} \cup ToSet(RemoveFrom(queue, i))
          /\ Ordered(promoted, RemoveFrom(queue, i))
        BY <1>0, RemoveApart, RemoveOrdered DEF RInv
    <2>3. Ordered(promoted', queue')
        BY <1>1, <2>1, <2>2, OrderMonotone
    <2>4. queue # <<>>
        BY <2>2, EmptyHolds
    <2> QED
        BY <1>2, <2>1, <2>2, <2>3, <2>4
<1> QED
    BY <1>3, <1>4, <1>5

(* Every step keeps the order.                                              *)
LEMMA StepOrder ==
    ASSUME TextSync, PostOutcomes \subseteq {"ok"},
           IInv, PInv, OInv, CInv, MInv, RInv, [Next]_vars
    PROVE  RInv'
<1>1. CASE UNCHANGED vars
    BY <1>1 DEF vars, backlog, chains, RInv
<1> QED
    BY <1>1, PostOrder, ControlOrder, ChainStepOrder DEF Next

(* In a conversation that gets plain text only, and whose first message is *)
(* always written, the transcript keeps the order of arrival, whatever     *)
(* fails in the drain and whatever the user does: a message precedes an    *)
(* older one only if the user steered to it.                               *)
THEOREM ArrivalOrder ==
    ASSUME TextSync, PostOutcomes \subseteq {"ok"}
    PROVE  Spec => []InArrivalOrder
<1> DEFINE All == TextInv /\ RInv
<1>1. Init => All
    BY InitInv, PlacesInit, OwnerInit, OneChainInit, MemoryInit, OrderInit DEF TextInv
<1>2. All /\ [Next]_vars => All'
    BY TextIsSync, StepInv, StepPlaces, StepOwns, StepText, StepMemory, StepOrder DEF TextInv
<1>3. All => InArrivalOrder
    <2> SUFFICES ASSUME RInv, NEW i \in 1 .. Len(history), NEW j \in 1 .. Len(history),
                        i < j, history[j] < history[i]
                 PROVE  history[i] \in promoted
        BY DEF InArrivalOrder
    <2>1. Before(promoted, history[i], history[j])
        BY DEF RInv, Ordered
    <2>2. history[i] \in Int /\ history[j] \in Int
        BY ElementOfSeq, NAssumption DEF RInv, Msgs
    <2> QED
        BY <2>1, <2>2 DEF Before
<1> HIDE DEF All
<1> QED
    BY <1>1, <1>2, <1>3, PTL DEF Spec

==============================================================================
