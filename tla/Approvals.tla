------------------------------- MODULE Approvals -------------------------------
(***************************************************************************)
(* How tool calls get their answers.  A call of the owner's own turn opens *)
(* a prompt: an entry of the registry of pending interactions              *)
(* (pending-interactions.ts) with the promise its caller waits on, set up  *)
(* by a prompter (prompter.ts, secret-prompter.ts, question-prompter.ts,   *)
(* acp-routes.ts).  A call of a trusted contact's turn is gated            *)
(* (tool-approval-handler.ts): it needs a one-time grant, for which it     *)
(* files a request and waits.  Confirmations and gated calls are mirrored  *)
(* by a row of canonical_guardian_requests, which guardians decide over    *)
(* any channel (guardian-decision-primitive.ts) and which expires.         *)
(*                                                                         *)
(* One conversation.  Every gated call has the same requester, tool and    *)
(* input, so that each may use a grant minted for another.  A row or grant *)
(* has the name of the call that filed the request.  Abstracted: wording,  *)
(* events to clients, request codes, deliveries, decisions by an actor who *)
(* is not the request's guardian (they change nothing), voice calls.       *)
(***************************************************************************)
EXTENDS Naturals, FiniteSets

CONSTANTS
  Calls,        \* tool calls
  Kind,         \* what answers each: see Kinds
  Mixes,        \* which calls are made together
  MaxCrashes,   \* bound: crashes
  None

Kinds == {"confirmation", "secret", "question", "route", "gated"}

ASSUME ApprovalsAssumption ==
  /\ Kind \in [Calls -> Kinds]
  /\ Mixes \subseteq SUBSET Calls
  /\ MaxCrashes \in Nat
  /\ None \notin Calls

OfKind(kinds) == {c \in Calls : Kind[c] \in kinds}
Gated == OfKind({"gated"})
Prompts == Calls \ Gated
\* The entries whose registered kind is "confirmation", in the registry and as
\* rows of kind tool_approval; the rows of gated calls are tool_grant_requests.
Confirmations == OfKind({"confirmation", "route"})
\* The prompts a prompter of the conversation keeps in its ownedIds.
Ownable == OfKind({"confirmation", "secret"})

VARIABLES
  call,       \* what each call has come to
  pending,    \* the registry: calls with an entry
  owned,      \* ownedIds of the permission prompter and of the secret prompter
  importing,  \* confirmations whose row is still to be inserted
  row,        \* canonical_guardian_requests.status; "late" is pending past expires_at
  asks,       \* the request a gated call waits on
  stopped,    \* gated calls whose turn was aborted
  stamped,    \* requests with an inline wait's stamp that counts as fresh
  noticing,   \* approved requests whose resolver is telling the requester
  grant,      \* scoped_approval_grants.status; "over" is consumed or past its TTL
  up,         \* is the assistant running
  crashes     \* crashes so far

vars == <<call, pending, owned, importing, row, asks, stopped,
          stamped, noticing, grant, up, crashes>>
callVars == <<call, pending, owned>>
waitVars == <<asks, stopped, stamped, noticing, grant>>
life == <<up, crashes>>

Outcomes == {"idle", "open", "ran", "refused", "lost"}
Statuses == {"none", "pending", "late", "approved", "denied", "expired"}
Grants == {"none", "active", "over"}

\* Calls outside of the mix were lost with an earlier process.
Init == /\ \E mix \in Mixes :
             call = [c \in Calls |-> IF c \in mix THEN "idle" ELSE "lost"]
        /\ pending = {}
        /\ owned = {}
        /\ importing = {}
        /\ row = [c \in Calls |-> "none"]
        /\ asks = [c \in Calls |-> None]
        /\ stopped = {}
        /\ stamped = {}
        /\ noticing = {}
        /\ grant = [c \in Calls |-> "none"]
        /\ up = TRUE
        /\ crashes = 0

Open(S) == {c \in S : call[c] = "open"}
PendingRows(S) == {r \in S : row[r] \in {"pending", "late"}}

(* The promises of these calls are resolved and their prompter forgets them. *)
Settle(S, outcome) ==
  /\ call' = [c \in Calls |-> IF c \in S THEN outcome ELSE call[c]]
  /\ owned' = owned \ S

(* resolveCanonicalGuardianRequest on each: the first writer wins. *)
Cas(R, status) ==
  row' = [r \in Calls |-> IF r \in PendingRows(R) THEN status ELSE row[r]]

-----------------------------------------------------------------------------
(* Prompts                                                                 *)

(* The registry's timer goes with the entry; a route keeps its own. *)
ArmedWhileListed(c) == c \in pending   \* broken
Armed(c) == IF Kind[c] = "route" THEN call[c] = "open" ELSE c \in pending

(* The prompters of confirmations and secrets keep track of their entries. *)
Kept(c) == {c} \cap Ownable

(* A prompter registers the entry and broadcasts it.  The hub starts to    *)
(* file a confirmation's row, and nobody waits for that.                   *)
Ask(c) ==
  /\ up
  /\ c \in Prompts
  /\ call[c] = "idle"
  /\ call' = [call EXCEPT ![c] = "open"]
  /\ pending' = pending \cup {c}
  /\ owned' = owned \cup Kept(c)
  /\ importing' = importing \cup ({c} \cap Confirmations)
  /\ UNCHANGED <<row, waitVars, life>>

(* The row is inserted, as pending whatever became of the prompt, or the   *)
(* insertion fails.                                                        *)
FileRow(c) ==
  /\ c \in importing
  /\ importing' = importing \ {c}
  /\ row' \in {row, [row EXCEPT ![c] = "pending"]}
  /\ UNCHANGED <<callVars, waitVars, life>>

(* The timer fires; for a route, its client may also have gone. *)
TimeOut(c) ==
  /\ Armed(c)
  /\ Settle({c}, "refused")
  /\ pending' = pending \ {c}
  /\ UNCHANGED <<importing, row, waitVars, life>>

(* An answer reaches /v1/confirm, /v1/secret or /v1/question-response.  A  *)
(* prompter's confirmation takes its row along, a route's does not.        *)
Answer(c, yes) ==
  /\ c \in pending
  /\ Settle({c}, IF yes THEN "ran" ELSE "refused")
  /\ pending' = pending \ {c}
  /\ Cas({c} \cap OfKind({"confirmation"}), IF yes THEN "approved" ELSE "denied")
  /\ UNCHANGED <<importing, waitVars, life>>

(* denyAllPending settles the prompter's confirmations that have an entry. *)
\* Broken: the entries are cleared first, and denyAllPending finds none.
DeniedCleared(entries) == entries \ pending
Denied(entries) == owned \cap OfKind({"confirmation"}) \cap entries

(* A new message.  If the permission prompter waits for an answer, the rows *)
(* of the registered confirmations are denied, the prompter denies its own  *)
(* and removeByConversation clears the conversation's entries and timers,   *)
(* whoever still waits on them.  Then the pending rows that have no entry   *)
(* are expired.                                                             *)
NewMessage ==
  LET supersedes == owned \cap OfKind({"confirmation"}) # {}
      denied == IF supersedes THEN pending ELSE {}
  IN /\ up
     /\ Settle(IF supersedes THEN Denied(pending) ELSE {}, "refused")
     /\ pending' = pending \ denied
     /\ row' = [r \in Calls |->
                  IF r \notin PendingRows(Confirmations) THEN row[r]
                  ELSE IF r \in denied THEN "denied"
                  ELSE IF r \in pending THEN row[r] ELSE "expired"]
     /\ UNCHANGED <<importing, waitVars, life>>

(* The turn is aborted: the abort listeners of confirmations and questions *)
(* deny, dispose rejects the secrets that still have an entry, and gated   *)
(* calls find out at their next poll.  A route listens to its client only. *)
Stop ==
  LET secrets == owned \cap OfKind({"secret"})
  IN /\ up
     /\ Settle((owned \cap OfKind({"confirmation"})) \cup Open(OfKind({"question"}))
                  \cup (secrets \cap pending), "refused")
     /\ owned' = {}
     /\ pending' = pending \ OfKind({"confirmation", "question", "secret"})
     /\ stopped' = stopped \cup Open(Gated)
     /\ UNCHANGED <<importing, row, asks, stamped, noticing, grant, life>>

-----------------------------------------------------------------------------
(* Gated calls                                                             *)

UsableAgain(r) == grant[r] # "none"   \* broken
Usable(r) == grant[r] = "active"
Grant(r, status) == grant' = [grant EXCEPT ![r] = status]

(* The requests a new one would repeat: pending, expired or not.           *)
SameUnexpired == {r \in Gated : row[r] = "pending"}   \* broken
Same == PendingRows(Gated)

(* A gated call uses a grant that is there already, or files a request     *)
(* unless the same one is pending, and stamps it: an inline wait is on.    *)
Gate(c) ==
  /\ up
  /\ c \in Gated
  /\ call[c] = "idle"
  /\ IF \E r \in Gated : Usable(r)
     THEN /\ \E r \in Gated : Usable(r) /\ Grant(r, "over")
          /\ call' = [call EXCEPT ![c] = "ran"]
          /\ UNCHANGED <<row, asks, stamped>>
     ELSE \E r \in IF Same = {} THEN {c} ELSE Same :
            /\ row' = [row EXCEPT ![c] = IF r = c THEN "pending" ELSE @]
            /\ asks' = [asks EXCEPT ![c] = r]
            /\ stamped' = stamped \cup {r}
            /\ call' = [call EXCEPT ![c] = "open"]
            /\ UNCHANGED grant
  /\ UNCHANGED <<pending, owned, importing, stopped, noticing, life>>

(* The requester is unverified, or nobody is bound as the guardian.        *)
Refuse(c) ==
  /\ up
  /\ c \in Gated
  /\ call[c] = "idle"
  /\ ~ \E r \in Gated : Usable(r)
  /\ call' = [call EXCEPT ![c] = "refused"]
  /\ UNCHANGED <<pending, owned, importing, row, waitVars, life>>

(* However the wait ends, it takes its stamp off the request.              *)
WaitOver(c, outcome) ==
  /\ call' = [call EXCEPT ![c] = outcome]
  /\ stamped' = stamped \ {asks[c]}
  /\ asks' = [asks EXCEPT ![c] = None]
  /\ stopped' = stopped \ {c}

\* Broken: the status of the request is read after the grant is tried for.
GivenUpLater(c) == /\ (c \in stopped \/ row[asks[c]] = "denied")
                   /\ ~ \E r \in Gated : Usable(r)
GivenUp(c) == c \in stopped \/ row[asks[c]] = "denied"

(* One round of the wait: an abort ends it, then a denial, then a grant is *)
(* tried for, and after the last round the wait is over.                   *)
Poll(c, lastRound) ==
  /\ c \in Open(Gated)
  /\ IF GivenUp(c)
     THEN WaitOver(c, "refused") /\ UNCHANGED grant
     ELSE IF \E r \in Gated : Usable(r)
     THEN /\ WaitOver(c, "ran")
          /\ \E r \in Gated : Usable(r) /\ Grant(r, "over")
     ELSE lastRound /\ WaitOver(c, "refused") /\ UNCHANGED grant
  /\ UNCHANGED <<pending, owned, importing, row, noticing, life>>

-----------------------------------------------------------------------------
(* Decisions by a guardian                                                 *)

Decidable(r) == row[r] = "pending"

(* The resolver of a tool_approval settles the prompt, if it is still      *)
(* there, in the step that resolves the row.                               *)
DecideConfirmation(r, yes) ==
  /\ up
  /\ r \in Confirmations
  /\ Decidable(r)
  /\ Cas({r}, IF yes THEN "approved" ELSE "denied")
  /\ Settle({r} \cap pending, IF yes THEN "ran" ELSE "refused")
  /\ pending' = pending \ {r}
  /\ UNCHANGED <<importing, waitVars, life>>

(* An approval is minted once its resolver is done.  Unless a wait is on   *)
(* the resolver may first tell the requester to try again.                 *)
DecideRequest(r, yes) ==
  /\ up
  /\ r \in Gated
  /\ Decidable(r)
  /\ Cas({r}, IF yes THEN "approved" ELSE "denied")
  /\ \/ ~yes /\ UNCHANGED <<grant, noticing>>
     \/ yes /\ Grant(r, "active") /\ UNCHANGED noticing
     \/ /\ yes
        /\ r \notin stamped
        /\ noticing' = noticing \cup {r}
        /\ UNCHANGED grant
  /\ UNCHANGED <<callVars, importing, asks, stopped, stamped, life>>

(* The requester was told, or could not be. *)
Noticed(r) ==
  /\ r \in noticing
  /\ noticing' = noticing \ {r}
  /\ Grant(r, "active")
  /\ UNCHANGED <<callVars, importing, row, asks, stopped, stamped, life>>

-----------------------------------------------------------------------------
(* Time, and the end of the process                                        *)

(* A row passes its expires_at. *)
Expire(r) ==
  /\ row[r] = "pending"
  /\ row' = [row EXCEPT ![r] = "late"]
  /\ UNCHANGED <<callVars, importing, waitVars, life>>

(* The periodic sweep expires the rows that are late. *)
LatePrompts == {r \in Confirmations : row[r] = "late"}   \* broken
Late == {r \in Calls : row[r] = "late"}

Sweep ==
  /\ up
  /\ Late # {}
  /\ Cas(Late, "expired")
  /\ UNCHANGED <<callVars, importing, waitVars, life>>

Lapse(r) ==
  /\ grant[r] = "active"
  /\ Grant(r, "over")
  /\ UNCHANGED <<callVars, importing, row, asks, stopped, stamped, noticing, life>>

(* A stamp stops to count 30 s after any wait that could have set it is over. *)
Age(r) ==
  /\ r \in stamped
  /\ ~ \E c \in Open(Gated) : asks[c] = r
  /\ stamped' = stamped \ {r}
  /\ UNCHANGED <<callVars, importing, row, asks, stopped, noticing, grant, life>>

(* The process ends.  Rows, stamps and grants stay. *)
Crash ==
  /\ up
  /\ crashes < MaxCrashes
  /\ up' = FALSE
  /\ crashes' = crashes + 1
  /\ call' = [c \in Calls |-> IF call[c] = "open" THEN "lost" ELSE call[c]]
  /\ pending' = {}
  /\ owned' = {}
  /\ importing' = {}
  /\ stopped' = {}
  /\ asks' = [c \in Calls |-> None]
  /\ noticing' = {}
  /\ UNCHANGED <<row, stamped, grant>>

(* expireAllPendingCanonicalRequests: no prompt survives, a request does.  *)
Restart ==
  /\ ~up
  /\ up' = TRUE
  /\ Cas(Confirmations \cup Late, "expired")
  /\ UNCHANGED <<callVars, importing, waitVars, crashes>>

Next ==
  \/ \E c \in Calls :
       \/ Ask(c) \/ FileRow(c) \/ TimeOut(c)
       \/ Gate(c) \/ Refuse(c)
       \/ Noticed(c) \/ Expire(c) \/ Lapse(c) \/ Age(c)
       \/ \E b \in BOOLEAN : \/ Answer(c, b) \/ Poll(c, b)
                             \/ DecideConfirmation(c, b) \/ DecideRequest(c, b)
  \/ NewMessage \/ Stop \/ Sweep \/ Crash \/ Restart

Spec == Init /\ [][Next]_vars

(* Timers fire, a wait uses up its budget, deliveries return, the sweep runs *)
(* and a dead assistant is started again.  Nobody has to answer.             *)
Fairness ==
  /\ \A c \in Calls : /\ WF_vars(TimeOut(c)) /\ WF_vars(Poll(c, TRUE))
                      /\ WF_vars(FileRow(c)) /\ WF_vars(Noticed(c))
                      /\ WF_vars(Expire(c))
  /\ WF_vars(Sweep)
  /\ WF_vars(Restart)

FairSpec == Spec /\ Fairness

-----------------------------------------------------------------------------
TypeOK == /\ call \in [Calls -> Outcomes]
          /\ pending \subseteq Prompts
          /\ owned \subseteq Ownable
          /\ importing \subseteq Confirmations
          /\ row \in [Calls -> Statuses]
          /\ asks \in [Calls -> Calls \cup {None}]
          /\ stopped \subseteq Gated
          /\ stamped \subseteq Gated
          /\ noticing \subseteq Gated
          /\ grant \in [Calls -> Grants]
          /\ up \in BOOLEAN
          /\ crashes \in 0..MaxCrashes

(* A confirmation that waits can be found by an answer, by its prompter and *)
(* by its timer: no message, abort or decision takes only part of that away. *)
ConfirmationsReachable ==
  \A c \in Open(OfKind({"confirmation"})) : c \in pending \cap owned

(* However often the same call is made, its requester has one request for  *)
(* the guardian to decide (createOrReuseToolGrantRequest).                 *)
OneRequest == \A q, r \in PendingRows(Gated) : q = r

(* The stamp of an inline wait keeps an approval from telling the requester *)
(* to try again.  Only a crash leaves one on a request nobody waits on.    *)
StampTellsWait ==
  crashes = 0 =>
    \A r \in stamped : \E c \in Open(Gated) : asks[c] = r

(* A call whose row was denied while it waited does not run any more: a    *)
(* prompt cannot be answered after a new message denied it, and a gated    *)
(* call takes no grant made for somebody else.                             *)
NeverAfterDenial ==
  [][\A c \in Calls :
       LET r == IF c \in Gated THEN asks[c] ELSE c
       IN (call[c] = "open" /\ row[r] = "denied") => call'[c] # "ran"]_vars

(* Whatever a guardian, a user, a timer, a message or a crash do to it, a  *)
(* call comes to one outcome, and a gated one runs on an approval of its    *)
(* own: it is minted once, after the row is resolved, and consumed once.   *)
Promise == INSTANCE OneTimeUse WITH
  Guarded <- Gated,
  outcome <- call,
  given <- {r \in Gated : row[r] = "approved"},
  unspent <- noticing \cup {r \in Gated : Usable(r)}
KeepsPromise == Promise!Spec

(* Nobody has to answer: a call that waits for a confirmation, for a route's *)
(* approval or for a grant is told an outcome.                              *)
CallsEnd ==
  \A c \in OfKind({"confirmation", "route", "gated"}) :
    call[c] = "open" ~> call[c] # "open"

(* A row whose prompt is gone, or that was filed after its prompt was       *)
(* answered, is not left pending for a later reply to match.                *)
RowsResolved == \A r \in Calls : r \in PendingRows(Calls) ~> r \notin PendingRows(Calls)

(* Every prompt ends, a question and a secret too: what the guard in        *)
(* QuestionPrompter.prompt is there for.                                    *)
PromptsEnd == \A c \in Prompts : call[c] = "open" ~> call[c] # "open"
=============================================================================
