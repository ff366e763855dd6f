---------------------------- MODULE ApprovalsProofs ----------------------------
(* Theorems about Approvals, for any set of calls of any kinds, any mixes  *)
(* of them and any number of crashes; among them, that it implements       *)
(* OneTimeUse.                                                             *)
EXTENDS Approvals, TLAPS

-----------------------------------------------------------------------------
(* The inductive invariant.                                                *)

(* An entry of the registry, and a prompter's own record of one, is of a   *)
(* call that waits.                                                        *)
PromptsOK ==
  /\ pending \subseteq Open(Prompts)
  /\ owned \subseteq Open(Ownable)

(* A call that has not been made has no row.                               *)
FreshOK ==
  \A c \in Calls : call[c] = "idle" => row[c] = "none" /\ c \notin importing

(* A prompt whose row was denied has no entry that an answer could find.   *)
DenialsOK == \A c \in pending : row[c] # "denied"

(* A grant comes from an approval, after its requester was told of it.     *)
GrantsOK ==
  \A r \in Gated :
    /\ grant[r] # "none" \/ r \in noticing => row[r] = "approved"
    /\ grant[r] # "none" => r \notin noticing

IInv ==
  /\ TypeOK
  /\ PromptsOK
  /\ ConfirmationsReachable
  /\ FreshOK
  /\ DenialsOK
  /\ OneRequest
  /\ GrantsOK
  /\ StampTellsWait

(* How the sets of calls lie to each other.                                *)
LEMMA KindsApart ==
  /\ OfKind({"confirmation"}) = Confirmations \cap Ownable
  /\ Confirmations \subseteq Prompts
  /\ Ownable \subseteq Prompts
  /\ OfKind({"question"}) \subseteq Prompts \ (Confirmations \cup Ownable)
  /\ OfKind({"secret"}) \subseteq Ownable \ Confirmations
  /\ OfKind({"confirmation", "question", "secret"}) =
       OfKind({"confirmation"}) \cup OfKind({"question"}) \cup OfKind({"secret"})
  /\ Gated \subseteq Calls
  /\ Prompts = Calls \ Gated
BY DEF OfKind, Confirmations, Ownable, Prompts, Gated

-----------------------------------------------------------------------------
(* Every step preserves the invariant.                                     *)

(* A prompt is asked.                                                      *)
LEMMA AskInv ==
    ASSUME IInv, NEW c \in Calls, Ask(c)
    PROVE  IInv'
<1>1. TypeOK'
    BY DEF IInv, TypeOK, Outcomes, Statuses, Grants, Ask, Kept, waitVars, life
<1>2. PromptsOK' /\ ConfirmationsReachable' /\ FreshOK' /\ DenialsOK'
    BY KindsApart
    DEF IInv, TypeOK, PromptsOK, Ask, Kept, Open, waitVars, life,
        ConfirmationsReachable, FreshOK, DenialsOK
<1>3. OneRequest' /\ GrantsOK' /\ StampTellsWait'
    BY DEF IInv, TypeOK, FreshOK, OneRequest, Ask, Kept, Open, PendingRows,
           waitVars, life, GrantsOK, StampTellsWait, PromptsOK
<1> QED
    BY <1>1, <1>2, <1>3 DEF IInv

(* A confirmation's row is filed, or its insertion fails.                  *)
LEMMA FileRowInv ==
    ASSUME IInv, NEW c \in Calls, FileRow(c)
    PROVE  IInv'
<1>1. TypeOK'
    BY DEF IInv, TypeOK, Outcomes, Statuses, Grants, FileRow, callVars, waitVars,
           life
<1>2. PromptsOK' /\ ConfirmationsReachable' /\ FreshOK' /\ DenialsOK'
    BY KindsApart
    DEF IInv, TypeOK, PromptsOK, FileRow, Open, callVars, waitVars, life,
        ConfirmationsReachable, FreshOK, DenialsOK
<1>3. OneRequest' /\ GrantsOK' /\ StampTellsWait'
    BY KindsApart
    DEF IInv, TypeOK, FreshOK, OneRequest, FileRow, Open, PendingRows, callVars,
        waitVars, life, GrantsOK, StampTellsWait, PromptsOK
<1> QED
    BY <1>1, <1>2, <1>3 DEF IInv

(* A prompt times out.                                                     *)
LEMMA TimeOutInv ==
    ASSUME IInv, NEW c \in Calls, TimeOut(c)
    PROVE  IInv'
<1>1. TypeOK'
    BY DEF IInv, TypeOK, Outcomes, Statuses, Grants, TimeOut, Armed, Settle,
           waitVars, life
<1>2. PromptsOK' /\ ConfirmationsReachable' /\ FreshOK' /\ DenialsOK'
    BY KindsApart
    DEF IInv, TypeOK, PromptsOK, TimeOut, Armed, Settle, Open, waitVars, life,
        ConfirmationsReachable, FreshOK, DenialsOK
<1>3. c \in Open(Prompts)
    BY DEF IInv, TypeOK, PromptsOK, Armed, Open, OfKind, Gated, Prompts, TimeOut
<1>4. OneRequest' /\ GrantsOK' /\ StampTellsWait'
    BY <1>3, KindsApart
    DEF IInv, TypeOK, FreshOK, OneRequest, TimeOut, Armed, Settle, Open,
        PendingRows, waitVars, life, GrantsOK, StampTellsWait, PromptsOK
<1> QED
    BY <1>1, <1>2, <1>4 DEF IInv

(* The user answers a prompt.                                              *)
LEMMA AnswerInv ==
    ASSUME IInv, NEW c \in Calls, NEW yes \in BOOLEAN, Answer(c, yes)
    PROVE  IInv'
<1>1. TypeOK'
    BY DEF IInv, TypeOK, Outcomes, Statuses, Grants, Answer, Settle, Cas,
           PendingRows, waitVars, life
<1>2. PromptsOK' /\ ConfirmationsReachable' /\ FreshOK' /\ DenialsOK'
    BY KindsApart
    DEF IInv, TypeOK, PromptsOK, Answer, Settle, Cas, Open, PendingRows, waitVars,
        life, ConfirmationsReachable, FreshOK, DenialsOK
<1>3. OneRequest' /\ GrantsOK' /\ StampTellsWait'
    BY KindsApart
    DEF IInv, TypeOK, FreshOK, OneRequest, Answer, Settle, Cas, Open, PendingRows,
        waitVars, life, GrantsOK, StampTellsWait, PromptsOK
<1> QED
    BY <1>1, <1>2, <1>3 DEF IInv

(* A message supersedes confirmations.                                     *)
LEMMA NewMessageInv ==
    ASSUME IInv, NewMessage
    PROVE  IInv'
<1>1. TypeOK'
    BY DEF IInv, TypeOK, Outcomes, Statuses, Grants, NewMessage, Settle, Denied,
           PendingRows, waitVars, life
<1>2. PromptsOK' /\ ConfirmationsReachable' /\ FreshOK' /\ DenialsOK'
    BY KindsApart
    DEF IInv, TypeOK, PromptsOK, NewMessage, Settle, Denied, Open, PendingRows,
        waitVars, life, ConfirmationsReachable, FreshOK, DenialsOK
<1>3. OneRequest' /\ GrantsOK' /\ StampTellsWait'
    BY KindsApart
    DEF IInv, TypeOK, FreshOK, OneRequest, NewMessage, Settle, Denied, Open,
        PendingRows, waitVars, life, GrantsOK, StampTellsWait, PromptsOK
<1> QED
    BY <1>1, <1>2, <1>3 DEF IInv

(* The turn is aborted.                                                    *)
LEMMA StopInv ==
    ASSUME IInv, Stop
    PROVE  IInv'
<1>1. TypeOK'
    BY DEF IInv, TypeOK, Outcomes, Statuses, Grants, Stop, Settle, Open, life
<1>2. PromptsOK' /\ ConfirmationsReachable' /\ FreshOK' /\ DenialsOK'
    BY KindsApart
    DEF IInv, TypeOK, PromptsOK, Stop, Settle, Open, life, ConfirmationsReachable,
        FreshOK, DenialsOK
<1>3. OneRequest' /\ GrantsOK' /\ StampTellsWait'
    BY KindsApart
    DEF IInv, TypeOK, FreshOK, OneRequest, Stop, Settle, Open, PendingRows, life,
        GrantsOK, StampTellsWait, PromptsOK
<1> QED
    BY <1>1, <1>2, <1>3 DEF IInv

(* A gated call uses a grant or files a request.                           *)
LEMMA GateInv ==
    ASSUME IInv, NEW c \in Calls, Gate(c)
    PROVE  IInv'
<1>1. TypeOK'
    BY KindsApart
    DEF IInv, TypeOK, Outcomes, Statuses, Grants, Gate, Usable, Grant, Same,
        PendingRows, life
<1>2. PromptsOK' /\ ConfirmationsReachable' /\ FreshOK' /\ DenialsOK'
    BY KindsApart
    DEF IInv, TypeOK, PromptsOK, Gate, Usable, Grant, Same, Open, PendingRows,
        life, ConfirmationsReachable, FreshOK, DenialsOK
<1>3. OneRequest' /\ GrantsOK' /\ StampTellsWait'
    BY KindsApart
    DEF IInv, TypeOK, FreshOK, OneRequest, Gate, Usable, Grant, Same, Open,
        PendingRows, life, GrantsOK, StampTellsWait, PromptsOK
<1> QED
    BY <1>1, <1>2, <1>3 DEF IInv

(* A gated call is refused at once.                                        *)
LEMMA RefuseInv ==
    ASSUME IInv, NEW c \in Calls, Refuse(c)
    PROVE  IInv'
<1>1. TypeOK'
    BY DEF IInv, TypeOK, Outcomes, Statuses, Grants, Refuse, waitVars, life
<1>2. PromptsOK' /\ ConfirmationsReachable' /\ FreshOK' /\ DenialsOK'
    BY DEF IInv, TypeOK, PromptsOK, Refuse, Open, waitVars, life,
           ConfirmationsReachable, FreshOK, DenialsOK
<1>3. OneRequest' /\ GrantsOK' /\ StampTellsWait'
    BY DEF IInv, TypeOK, FreshOK, OneRequest, Refuse, Open, PendingRows, waitVars,
           life, GrantsOK, StampTellsWait, PromptsOK
<1> QED
    BY <1>1, <1>2, <1>3 DEF IInv

(* A gated call polls.                                                     *)
LEMMA PollInv ==
    ASSUME IInv, NEW c \in Calls, NEW lastRound \in BOOLEAN, Poll(c, lastRound)
    PROVE  IInv'
<1>1. TypeOK'
    BY DEF IInv, TypeOK, Outcomes, Statuses, Grants, Poll, GivenUp, WaitOver,
           Usable, Grant, Open, life
<1>2. PromptsOK' /\ ConfirmationsReachable' /\ FreshOK' /\ DenialsOK'
    BY KindsApart
    DEF IInv, TypeOK, PromptsOK, Poll, GivenUp, WaitOver, Usable, Grant, Open,
        life, ConfirmationsReachable, FreshOK, DenialsOK
<1>3. OneRequest' /\ GrantsOK' /\ StampTellsWait'
    BY KindsApart
    DEF IInv, TypeOK, FreshOK, OneRequest, Poll, GivenUp, WaitOver, Usable, Grant,
        Open, PendingRows, life, GrantsOK, StampTellsWait, PromptsOK
<1> QED
    BY <1>1, <1>2, <1>3 DEF IInv

(* A guardian decides a confirmation.                                      *)
LEMMA DecideConfirmationInv ==
    ASSUME IInv, NEW r \in Calls, NEW yes \in BOOLEAN, DecideConfirmation(r,
    yes)
    PROVE  IInv'
<1>1. TypeOK'
    BY DEF IInv, TypeOK, Outcomes, Statuses, Grants, DecideConfirmation,
           Decidable, Cas, Settle, PendingRows, waitVars, life
<1>2. PromptsOK' /\ ConfirmationsReachable' /\ FreshOK' /\ DenialsOK'
    BY KindsApart
    DEF IInv, TypeOK, PromptsOK, DecideConfirmation, Decidable, Cas, Settle, Open,
        PendingRows, waitVars, life, ConfirmationsReachable, FreshOK, DenialsOK
<1>3. OneRequest' /\ GrantsOK' /\ StampTellsWait'
    BY KindsApart
    DEF IInv, TypeOK, FreshOK, OneRequest, DecideConfirmation, Decidable, Cas,
        Settle, Open, PendingRows, waitVars, life, GrantsOK, StampTellsWait,
        PromptsOK
<1> QED
    BY <1>1, <1>2, <1>3 DEF IInv

(* A guardian decides a request.                                           *)
LEMMA DecideRequestInv ==
    ASSUME IInv, NEW r \in Calls, NEW yes \in BOOLEAN, DecideRequest(r, yes)
    PROVE  IInv'
<1>1. TypeOK'
    BY DEF IInv, TypeOK, Outcomes, Statuses, Grants, DecideRequest, Decidable,
           Cas, Grant, PendingRows, callVars, life
<1>2. PromptsOK' /\ ConfirmationsReachable' /\ FreshOK' /\ DenialsOK'
    BY KindsApart
    DEF IInv, TypeOK, PromptsOK, DecideRequest, Decidable, Cas, Grant, Open,
        PendingRows, callVars, life, ConfirmationsReachable, FreshOK, DenialsOK
<1>3. OneRequest' /\ GrantsOK' /\ StampTellsWait'
    BY KindsApart
    DEF IInv, TypeOK, FreshOK, OneRequest, DecideRequest, Decidable, Cas, Grant,
        Open, PendingRows, callVars, life, GrantsOK, StampTellsWait, PromptsOK
<1> QED
    BY <1>1, <1>2, <1>3 DEF IInv

(* The requester was told, and the grant is minted.                        *)
LEMMA NoticedInv ==
    ASSUME IInv, NEW r \in Calls, Noticed(r)
    PROVE  IInv'
<1>1. TypeOK'
    BY DEF IInv, TypeOK, Outcomes, Statuses, Grants, Noticed, Grant, callVars,
           life
<1>2. PromptsOK' /\ ConfirmationsReachable' /\ FreshOK' /\ DenialsOK'
    BY DEF IInv, TypeOK, PromptsOK, Noticed, Grant, Open, callVars, life,
           ConfirmationsReachable, FreshOK, DenialsOK
<1>3. OneRequest' /\ GrantsOK' /\ StampTellsWait'
    BY DEF IInv, TypeOK, FreshOK, OneRequest, Noticed, Grant, Open, PendingRows,
           callVars, life, GrantsOK, StampTellsWait, PromptsOK
<1> QED
    BY <1>1, <1>2, <1>3 DEF IInv

(* A row passes its time.                                                  *)
LEMMA ExpireInv ==
    ASSUME IInv, NEW r \in Calls, Expire(r)
    PROVE  IInv'
<1>1. TypeOK'
    BY DEF IInv, TypeOK, Outcomes, Statuses, Grants, Expire, callVars, waitVars,
           life
<1>2. PromptsOK' /\ ConfirmationsReachable' /\ FreshOK' /\ DenialsOK'
    BY DEF IInv, TypeOK, PromptsOK, Expire, Open, callVars, waitVars, life,
           ConfirmationsReachable, FreshOK, DenialsOK
<1>3. OneRequest' /\ GrantsOK' /\ StampTellsWait'
    BY DEF IInv, TypeOK, FreshOK, OneRequest, Expire, Open, PendingRows, callVars,
           waitVars, life, GrantsOK, StampTellsWait, PromptsOK
<1> QED
    BY <1>1, <1>2, <1>3 DEF IInv

(* The sweep expires late rows.                                            *)
LEMMA SweepInv ==
    ASSUME IInv, Sweep
    PROVE  IInv'
<1>1. TypeOK'
    BY DEF IInv, TypeOK, Outcomes, Statuses, Grants, Sweep, Late, Cas,
           PendingRows, callVars, waitVars, life
<1>2. PromptsOK' /\ ConfirmationsReachable' /\ FreshOK' /\ DenialsOK'
    BY KindsApart
    DEF IInv, TypeOK, PromptsOK, Sweep, Late, Cas, Open, PendingRows, callVars,
        waitVars, life, ConfirmationsReachable, FreshOK, DenialsOK
<1>3. OneRequest' /\ GrantsOK' /\ StampTellsWait'
    BY KindsApart
    DEF IInv, TypeOK, FreshOK, OneRequest, Sweep, Late, Cas, Open, PendingRows,
        callVars, waitVars, life, GrantsOK, StampTellsWait, PromptsOK
<1> QED
    BY <1>1, <1>2, <1>3 DEF IInv

(* A grant lapses.                                                         *)
LEMMA LapseInv ==
    ASSUME IInv, NEW r \in Calls, Lapse(r)
    PROVE  IInv'
<1>1. TypeOK'
    BY DEF IInv, TypeOK, Outcomes, Statuses, Grants, Lapse, Grant, callVars, life
<1>2. PromptsOK' /\ ConfirmationsReachable' /\ FreshOK' /\ DenialsOK'
    BY DEF IInv, TypeOK, PromptsOK, Lapse, Grant, Open, callVars, life,
           ConfirmationsReachable, FreshOK, DenialsOK
<1>3. OneRequest' /\ GrantsOK' /\ StampTellsWait'
    BY DEF IInv, TypeOK, FreshOK, OneRequest, Lapse, Grant, Open, PendingRows,
           callVars, life, GrantsOK, StampTellsWait, PromptsOK
<1> QED
    BY <1>1, <1>2, <1>3 DEF IInv

(* A stamp ages.                                                           *)
LEMMA AgeInv ==
    ASSUME IInv, NEW r \in Calls, Age(r)
    PROVE  IInv'
<1>1. TypeOK'
    BY DEF IInv, TypeOK, Outcomes, Statuses, Grants, Age, Open, callVars, life
<1>2. PromptsOK' /\ ConfirmationsReachable' /\ FreshOK' /\ DenialsOK'
    BY DEF IInv, TypeOK, PromptsOK, Age, Open, callVars, life,
           ConfirmationsReachable, FreshOK, DenialsOK
<1>3. OneRequest' /\ GrantsOK' /\ StampTellsWait'
    BY DEF IInv, TypeOK, FreshOK, OneRequest, Age, Open, PendingRows, callVars,
           life, GrantsOK, StampTellsWait, PromptsOK
<1> QED
    BY <1>1, <1>2, <1>3 DEF IInv

(* The process ends.                                                       *)
LEMMA CrashInv ==
    ASSUME IInv, Crash
    PROVE  IInv'
<1>1. crashes' \in 0..MaxCrashes
    BY ApprovalsAssumption DEF IInv, TypeOK, Crash
<1>2. TypeOK'
    BY <1>1 DEF IInv, TypeOK, Crash, Outcomes
<1>3. PromptsOK' /\ ConfirmationsReachable' /\ FreshOK' /\ DenialsOK'
    BY KindsApart
    DEF IInv, TypeOK, PromptsOK, Crash, Open, ConfirmationsReachable, FreshOK,
        DenialsOK
<1>4. OneRequest' /\ GrantsOK' /\ StampTellsWait'
    BY DEF IInv, TypeOK, FreshOK, OneRequest, Crash, Open, PendingRows, GrantsOK,
           StampTellsWait, PromptsOK
<1> QED
    BY <1>2, <1>3, <1>4 DEF IInv

(* The assistant starts again.                                             *)
LEMMA RestartInv ==
    ASSUME IInv, Restart
    PROVE  IInv'
<1>1. TypeOK'
    BY DEF IInv, TypeOK, Outcomes, Statuses, Grants, Restart, Late, Cas,
           PendingRows, callVars, waitVars
<1>2. PromptsOK' /\ ConfirmationsReachable' /\ FreshOK' /\ DenialsOK'
    BY KindsApart
    DEF IInv, TypeOK, PromptsOK, Restart, Late, Cas, Open, PendingRows, callVars,
        waitVars, ConfirmationsReachable, FreshOK, DenialsOK
<1>3. OneRequest' /\ GrantsOK' /\ StampTellsWait'
    BY KindsApart
    DEF IInv, TypeOK, FreshOK, OneRequest, Restart, Late, Cas, Open, PendingRows,
        callVars, waitVars, GrantsOK, StampTellsWait, PromptsOK
<1> QED
    BY <1>1, <1>2, <1>3 DEF IInv

LEMMA InitInv == Init => IInv
BY KindsApart, ApprovalsAssumption
DEF Init, IInv, TypeOK, PromptsOK, ConfirmationsReachable, FreshOK, DenialsOK,
    OneRequest, GrantsOK, StampTellsWait, Outcomes, Statuses, Grants, Open,
    PendingRows

LEMMA StutterInv ==
    ASSUME IInv, UNCHANGED vars
    PROVE  IInv'
BY DEF IInv, vars, TypeOK, PromptsOK, ConfirmationsReachable, FreshOK, DenialsOK,
       OneRequest, GrantsOK, StampTellsWait, Open, PendingRows

LEMMA NextInv ==
    ASSUME IInv, [Next]_vars
    PROVE  IInv'
BY StutterInv, AskInv, FileRowInv, TimeOutInv, AnswerInv, NewMessageInv, StopInv,
   GateInv, RefuseInv, PollInv, DecideConfirmationInv, DecideRequestInv,
   NoticedInv, ExpireInv, SweepInv, LapseInv, AgeInv, CrashInv, RestartInv
DEF Next

THEOREM Invariance == Spec => []IInv
BY InitInv, NextInv, PTL DEF Spec

-----------------------------------------------------------------------------
(* Every step is one of OneTimeUse, or none.                               *)

(* A prompt is asked.                                                      *)
LEMMA AskStep ==
    ASSUME IInv, NEW c \in Calls, Ask(c)
    PROVE  [Promise!Next]_(Promise!vars)
<1>1. c \in Calls /\ Promise!Begin(c)
    BY DEF IInv, TypeOK, PromptsOK, FreshOK, GrantsOK, Usable, Outcomes,
           Promise!vars, Promise!Begin, Promise!Allow, Promise!Spend, Promise!End,
           Promise!Becomes, Ask, Kept, Open, PendingRows, callVars, waitVars, life
<1> QED
    BY <1>1 DEF IInv, TypeOK, Promise!Next, Ask

(* A confirmation's row is filed, or its insertion fails.                  *)
LEMMA FileRowStep ==
    ASSUME IInv, NEW c \in Calls, FileRow(c)
    PROVE  [Promise!Next]_(Promise!vars)
BY KindsApart
DEF IInv, TypeOK, PromptsOK, FreshOK, GrantsOK, Usable, Outcomes, Promise!Next,
    Promise!vars, Promise!Begin, Promise!Allow, Promise!Approve, Promise!Spend,
    Promise!End, Promise!Becomes, FileRow, Open, PendingRows, callVars, waitVars,
    life

(* A prompt times out.                                                     *)
LEMMA TimeOutStep ==
    ASSUME IInv, NEW c \in Calls, TimeOut(c)
    PROVE  [Promise!Next]_(Promise!vars)
<1>1. {c} \in SUBSET Calls /\ Promise!End({c}, "refused")
    BY DEF IInv, TypeOK, PromptsOK, FreshOK, GrantsOK, Usable, Outcomes,
           Promise!vars, Promise!Begin, Promise!Allow, Promise!Spend, Promise!End,
           Promise!Becomes, TimeOut, Armed, Settle, Open, PendingRows, callVars,
           waitVars, life
<1> QED
    BY <1>1 DEF IInv, TypeOK, Promise!Next, TimeOut

(* The user answers a prompt.                                              *)
LEMMA AnswerStep ==
    ASSUME IInv, NEW c \in Calls, NEW yes \in BOOLEAN, Answer(c, yes)
    PROVE  [Promise!Next]_(Promise!vars)
<1>1. \/ c \in Calls /\ Promise!Allow(c)
      \/ {c} \in SUBSET Calls /\ Promise!End({c}, "refused")
    BY KindsApart
    DEF IInv, TypeOK, PromptsOK, FreshOK, GrantsOK, Usable, Outcomes,
        Promise!vars, Promise!Begin, Promise!Allow, Promise!Spend, Promise!End,
        Promise!Becomes, Answer, Settle, Cas, Open, PendingRows, callVars,
        waitVars, life
<1> QED
    BY <1>1 DEF IInv, TypeOK, Promise!Next

(* A message supersedes confirmations.                                     *)
LEMMA NewMessageStep ==
    ASSUME IInv, NewMessage
    PROVE  [Promise!Next]_(Promise!vars)
<1> DEFINE S == IF owned \cap OfKind({"confirmation"}) # {}
                THEN Denied(pending) ELSE {}
<1>1. S \subseteq Open(Prompts)
    BY DEF IInv, PromptsOK, Open, Denied
<1>2. call' = [c \in Calls |-> IF c \in S THEN "refused" ELSE call[c]]
    BY DEF IInv, TypeOK, NewMessage, Settle, Denied, Open, PendingRows, waitVars,
           life
<1>3. \A r \in Gated : row'[r] = row[r]
    BY KindsApart
    DEF IInv, TypeOK, NewMessage, Settle, Denied, Open, PendingRows, waitVars,
        life, PendingRows
<1>4. UNCHANGED <<noticing, grant>>
    BY DEF NewMessage, Settle, Denied, Open, PendingRows, waitVars, life, waitVars
<1> HIDE DEF S
<1>5. S \in SUBSET Calls /\ Promise!End(S, "refused")
    BY <1>1, <1>2, <1>3, <1>4, KindsApart
    DEF Open, Usable, Promise!End, Promise!Becomes
<1> QED
    BY <1>5 DEF Promise!Next

(* The turn is aborted.                                                    *)
LEMMA StopStep ==
    ASSUME IInv, Stop
    PROVE  [Promise!Next]_(Promise!vars)
<1> DEFINE S == (owned \cap OfKind({"confirmation"}))
                   \cup Open(OfKind({"question"}))
                   \cup ((owned \cap OfKind({"secret"})) \cap pending)
<1>1. S \subseteq Open(Prompts)
    BY KindsApart DEF IInv, PromptsOK, Open, Denied
<1>2. call' = [c \in Calls |-> IF c \in S THEN "refused" ELSE call[c]]
    BY DEF IInv, TypeOK, Stop, Settle, Open, life
<1>3. \A r \in Gated : row'[r] = row[r]
    BY DEF IInv, TypeOK, Stop, Settle, Open, life
<1>4. UNCHANGED <<noticing, grant>>
    BY DEF Stop, Settle, Open, life
<1> HIDE DEF S
<1>5. S \in SUBSET Calls /\ Promise!End(S, "refused")
    BY <1>1, <1>2, <1>3, <1>4, KindsApart
    DEF Open, Usable, Promise!End, Promise!Becomes
<1> QED
    BY <1>5 DEF Promise!Next

(* A gated call uses a grant or files a request.                           *)
LEMMA GateStep ==
    ASSUME IInv, NEW c \in Calls, Gate(c)
    PROVE  [Promise!Next]_(Promise!vars)
BY KindsApart
DEF IInv, TypeOK, PromptsOK, FreshOK, GrantsOK, Usable, Outcomes, Promise!Next,
    Promise!vars, Promise!Begin, Promise!Allow, Promise!Approve, Promise!Spend,
    Promise!End, Promise!Becomes, Gate, Usable, Grant, Same, Open, PendingRows,
    callVars, waitVars, life

(* A gated call is refused at once.                                        *)
LEMMA RefuseStep ==
    ASSUME IInv, NEW c \in Calls, Refuse(c)
    PROVE  [Promise!Next]_(Promise!vars)
<1>1. {c} \in SUBSET Calls /\ Promise!End({c}, "refused")
    BY DEF IInv, TypeOK, Usable, Outcomes, Promise!vars, Promise!End,
           Promise!Becomes, Refuse, waitVars, life
<1> QED
    BY <1>1 DEF IInv, TypeOK, Promise!Next, Refuse

(* A gated call polls.                                                     *)
LEMMA PollStep ==
    ASSUME IInv, NEW c \in Calls, NEW lastRound \in BOOLEAN, Poll(c, lastRound)
    PROVE  [Promise!Next]_(Promise!vars)
<1>1. \/ \E r \in Calls : Promise!Spend(c, r)
      \/ {c} \in SUBSET Calls /\ Promise!End({c}, "refused")
      \/ UNCHANGED Promise!vars
    BY KindsApart
    DEF IInv, TypeOK, PromptsOK, FreshOK, GrantsOK, Usable, Outcomes,
        Promise!vars, Promise!Begin, Promise!Allow, Promise!Spend, Promise!End,
        Promise!Becomes, Poll, GivenUp, WaitOver, Usable, Grant, Open,
        PendingRows, callVars, waitVars, life
<1> QED
    BY <1>1 DEF IInv, TypeOK, Promise!Next

(* A guardian decides a confirmation.                                      *)
LEMMA DecideConfirmationStep ==
    ASSUME IInv, NEW r \in Calls, NEW yes \in BOOLEAN, DecideConfirmation(r,
    yes)
    PROVE  [Promise!Next]_(Promise!vars)
<1>1. \/ Promise!Allow(r)
      \/ {r} \in SUBSET Calls /\ Promise!End({r}, "refused")
      \/ UNCHANGED Promise!vars
    BY KindsApart
    DEF IInv, TypeOK, PromptsOK, FreshOK, GrantsOK, Usable, Outcomes,
        Promise!vars, Promise!Begin, Promise!Allow, Promise!Spend, Promise!End,
        Promise!Becomes, DecideConfirmation, Decidable, Cas, Settle, Open,
        PendingRows, callVars, waitVars, life
<1> QED
    BY <1>1 DEF IInv, TypeOK, Promise!Next

(* A guardian decides a request.                                           *)
LEMMA DecideRequestStep ==
    ASSUME IInv, NEW r \in Calls, NEW yes \in BOOLEAN, DecideRequest(r, yes)
    PROVE  [Promise!Next]_(Promise!vars)
BY KindsApart
DEF IInv, TypeOK, PromptsOK, FreshOK, GrantsOK, Usable, Outcomes, Promise!Next,
    Promise!vars, Promise!Begin, Promise!Allow, Promise!Approve, Promise!Spend,
    Promise!End, Promise!Becomes, DecideRequest, Decidable, Cas, Grant, Open,
    PendingRows, callVars, waitVars, life

(* The requester was told, and the grant is minted.                        *)
LEMMA NoticedStep ==
    ASSUME IInv, NEW r \in Calls, Noticed(r)
    PROVE  [Promise!Next]_(Promise!vars)
BY DEF IInv, TypeOK, PromptsOK, FreshOK, GrantsOK, Usable, Outcomes, Promise!Next,
       Promise!vars, Promise!Begin, Promise!Allow, Promise!Approve, Promise!Spend,
       Promise!End, Promise!Becomes, Noticed, Grant, Open, PendingRows, callVars,
       waitVars, life

(* A row passes its time.                                                  *)
LEMMA ExpireStep ==
    ASSUME IInv, NEW r \in Calls, Expire(r)
    PROVE  [Promise!Next]_(Promise!vars)
BY DEF IInv, TypeOK, PromptsOK, FreshOK, GrantsOK, Usable, Outcomes, Promise!Next,
       Promise!vars, Promise!Begin, Promise!Allow, Promise!Approve, Promise!Spend,
       Promise!End, Promise!Becomes, Expire, Open, PendingRows, callVars,
       waitVars, life

(* The sweep expires late rows.                                            *)
LEMMA SweepStep ==
    ASSUME IInv, Sweep
    PROVE  [Promise!Next]_(Promise!vars)
BY KindsApart
DEF IInv, TypeOK, PromptsOK, FreshOK, GrantsOK, Usable, Outcomes, Promise!Next,
    Promise!vars, Promise!Begin, Promise!Allow, Promise!Approve, Promise!Spend,
    Promise!End, Promise!Becomes, Sweep, Late, Cas, Open, PendingRows, callVars,
    waitVars, life

(* A grant lapses.                                                         *)
LEMMA LapseStep ==
    ASSUME IInv, NEW r \in Calls, Lapse(r)
    PROVE  [Promise!Next]_(Promise!vars)
<1>1. {} \in SUBSET Calls /\ Promise!End({}, "refused")
    BY DEF IInv, TypeOK, PromptsOK, FreshOK, GrantsOK, Usable, Outcomes,
           Promise!vars, Promise!Begin, Promise!Allow, Promise!Spend, Promise!End,
           Promise!Becomes, Lapse, Grant, Open, PendingRows, callVars, waitVars,
           life
<1> QED
    BY <1>1 DEF IInv, TypeOK, Promise!Next, Lapse

(* A stamp ages.                                                           *)
LEMMA AgeStep ==
    ASSUME IInv, NEW r \in Calls, Age(r)
    PROVE  [Promise!Next]_(Promise!vars)
BY DEF IInv, TypeOK, PromptsOK, FreshOK, GrantsOK, Usable, Outcomes, Promise!Next,
       Promise!vars, Promise!Begin, Promise!Allow, Promise!Approve, Promise!Spend,
       Promise!End, Promise!Becomes, Age, Open, PendingRows, callVars, waitVars,
       life

(* The process ends.                                                       *)
LEMMA CrashStep ==
    ASSUME IInv, Crash
    PROVE  [Promise!Next]_(Promise!vars)
<1>1. Promise!End(Open(Calls), "lost")
    BY DEF IInv, TypeOK, PromptsOK, FreshOK, GrantsOK, Usable, Outcomes,
           Promise!vars, Promise!Begin, Promise!Allow, Promise!Spend, Promise!End,
           Promise!Becomes, Crash, Open, PendingRows, callVars, waitVars, life
<1> QED
    BY <1>1 DEF IInv, TypeOK, Open, Promise!Next

(* The assistant starts again.                                             *)
LEMMA RestartStep ==
    ASSUME IInv, Restart
    PROVE  [Promise!Next]_(Promise!vars)
BY KindsApart
DEF IInv, TypeOK, PromptsOK, FreshOK, GrantsOK, Usable, Outcomes, Promise!Next,
    Promise!vars, Promise!Begin, Promise!Allow, Promise!Approve, Promise!Spend,
    Promise!End, Promise!Becomes, Restart, Late, Cas, Open, PendingRows, callVars,
    waitVars, life

-----------------------------------------------------------------------------
(* What it gives.                                                          *)

(* The registry, the rows, the waits and the grants stay well formed.      *)
THEOREM TypeCorrect == Spec => []TypeOK
<1>1. IInv => TypeOK
    BY DEF IInv
<1> QED
    BY Invariance, <1>1, PTL

(* A confirmation that waits has its entry in the registry and in its      *)
(* prompter, through messages, aborts and decisions (denyAllPending,       *)
(* removeByConversation).                                                  *)
THEOREM AlwaysReachable == Spec => []ConfirmationsReachable
<1>1. IInv => ConfirmationsReachable
    BY DEF IInv
<1> QED
    BY Invariance, <1>1, PTL

(* The same gated call made again, also after a restart, finds the request *)
(* that is pending (createOrReuseToolGrantRequest).                        *)
THEOREM OneRequestAlways == Spec => []OneRequest
<1>1. IInv => OneRequest
    BY DEF IInv
<1> QED
    BY Invariance, <1>1, PTL

(* Until a crash, the stamp of an inline wait is on a request some call    *)
(* waits for (waitForInlineGrant).                                         *)
THEOREM StampIsTrue == Spec => []StampTellsWait
<1>1. IInv => StampTellsWait
    BY DEF IInv
<1> QED
    BY Invariance, <1>1, PTL

(* A call whose row was denied while it waited never runs: neither by a    *)
(* late answer nor by a grant made for another call (waitForInlineGrant,   *)
(* handleUserDecision).                                                    *)
THEOREM DeniedNeverRuns == Spec => NeverAfterDenial
<1> DEFINE Row(c) == IF c \in Gated THEN asks[c] ELSE c
<1>1. ASSUME IInv, Next, NEW d \in Calls, call[d] = "open",
      row[Row(d)] = "denied"
      PROVE  call'[d] # "ran"
    <2>1. /\ TypeOK /\ DenialsOK
          /\ d \in pending => d \notin Gated
        BY <1>1, KindsApart DEF IInv, TypeOK
    <2>2. ASSUME NEW c \in Calls, NEW yes \in BOOLEAN, Answer(c, yes)
          PROVE  call'[d] # "ran"
        BY <1>1, <2>1, <2>2 DEF Answer, Settle, DenialsOK
    <2>3. ASSUME NEW c \in Calls, NEW yes \in BOOLEAN, DecideConfirmation(c,
    yes)
          PROVE  call'[d] # "ran"
        BY <1>1, <2>1, <2>3 DEF DecideConfirmation, Settle, DenialsOK
    <2>4. ASSUME NEW c \in Calls, Gate(c)
          PROVE  call'[d] # "ran"
        <3>1. c # d
            BY <1>1, <2>4 DEF Gate
        <3>2. \E o \in {"open", "ran"} : call' = [call EXCEPT ![c] = o]
            BY <2>4 DEF Gate
        <3> QED
            BY <1>1, <2>1, <3>1, <3>2 DEF TypeOK
    <2>5. ASSUME NEW c \in Calls, NEW last \in BOOLEAN, Poll(c, last)
          PROVE  call'[d] # "ran"
        <3>1. PICK o : /\ call' = [call EXCEPT ![c] = o]
                       /\ c \in Gated
                       /\ row[asks[c]] = "denied" => o = "refused"
            BY <2>5 DEF Poll, Open, GivenUp, WaitOver
        <3> QED
            BY <1>1, <2>1, <3>1 DEF TypeOK
    <2>6. ASSUME NEW c \in Calls,
                 \/ Ask(c) \/ FileRow(c) \/ TimeOut(c) \/ Refuse(c) \/ Noticed(c)
                 \/ Expire(c) \/ Lapse(c) \/ Age(c)
                 \/ \E yes \in BOOLEAN : DecideRequest(c, yes)
          PROVE  call'[d] # "ran"
        BY <1>1, <2>1, <2>6
        DEF TypeOK, Ask, FileRow, TimeOut, Settle, Refuse, Noticed, Expire, Lapse,
            Age, DecideRequest, callVars
    <2>7. CASE NewMessage \/ Stop \/ Sweep \/ Crash \/ Restart
        BY <1>1, <2>1, <2>7
        DEF NewMessage, Stop, Settle, Sweep, Crash, Restart, callVars
    <2> QED
        BY <1>1, <2>2, <2>3, <2>4, <2>5, <2>6, <2>7 DEF Next
<1>2. IInv /\ [Next]_vars =>
        [\A c \in Calls : LET r == IF c \in Gated THEN asks[c] ELSE c
                          IN (call[c] = "open" /\ row[r] = "denied") =>
                               call'[c] # "ran"]_vars
    BY <1>1
<1> QED
    BY Invariance, <1>2, PTL DEF Spec, NeverAfterDenial

(* Approvals implements OneTimeUse: a call has one outcome, and a gated one *)
(* runs only by spending an approval that was given once, and is spent once *)
(* (resolveCanonicalGuardianRequest, mintCanonicalRequestGrant,             *)
(* consumeScopedApprovalGrantByToolSignature).                              *)
THEOREM Refinement == Spec => KeepsPromise
<1>1. Init => Promise!Init
    BY KindsApart DEF Init, Promise!Init, Usable
<1>2. ASSUME IInv, Next PROVE [Promise!Next]_(Promise!vars)
    BY <1>2, AskStep, FileRowStep, TimeOutStep, AnswerStep, NewMessageStep,
       StopStep, GateStep, RefuseStep, PollStep, DecideConfirmationStep,
       DecideRequestStep, NoticedStep, ExpireStep, SweepStep, LapseStep, AgeStep,
       CrashStep, RestartStep
    DEF Next
<1>3. ASSUME UNCHANGED vars PROVE UNCHANGED Promise!vars
    BY <1>3 DEF vars, Promise!vars, Usable
<1>4. IInv /\ [Next]_vars => [Promise!Next]_(Promise!vars)
    BY <1>2, <1>3
<1> QED
    BY Invariance, <1>1, <1>4, PTL DEF Spec, KeepsPromise, Promise!Spec
================================================================================
