------------------------------- MODULE OneTimeUse -------------------------------
(***************************************************************************)
(* What approvals promise to the tools they guard.  A call is asked about  *)
(* once and gets one outcome.  A guarded call runs only by spending an     *)
(* approval; an approval is given at most once for each request and is     *)
(* spent by at most one call.  Approvals module implements this.           *)
(***************************************************************************)
EXTENDS Naturals

CONSTANTS Calls,     \* the tool calls
          Guarded    \* those of them that need an approval of their own to spend

VARIABLES outcome,   \* what each call has come to
          given,     \* the requests that were approved
          unspent    \* the approvals no call has used, and that still hold

vars == <<outcome, given, unspent>>

Outcomes == {"idle", "open", "ran", "refused", "lost"}

Becomes(S, o) == outcome' = [c \in Calls |-> IF c \in S THEN o ELSE outcome[c]]

Init == /\ outcome \in [Calls -> {"idle", "lost"}]
        /\ given = {}
        /\ unspent = {}

(* A call starts to wait for its answer. *)
Begin(c) == /\ outcome[c] = "idle"
            /\ Becomes({c}, "open")
            /\ UNCHANGED <<given, unspent>>

(* A prompt is answered with yes. *)
Allow(c) == /\ c \in Calls \ Guarded
            /\ outcome[c] = "open"
            /\ Becomes({c}, "ran")
            /\ UNCHANGED <<given, unspent>>

(* The guardian approves a request, once. *)
Approve(r) == /\ r \in Guarded \ given
              /\ given' = given \cup {r}
              /\ unspent' = unspent \cup {r}
              /\ UNCHANGED outcome

(* A guarded call runs on an approval, which is gone after that. *)
Spend(c, r) == /\ c \in Guarded
               /\ outcome[c] \in {"idle", "open"}
               /\ r \in unspent
               /\ Becomes({c}, "ran")
               /\ unspent' = unspent \ {r}
               /\ UNCHANGED given

(* Calls are refused (denied, timed out, stopped) or lost with the process,
   and approvals lapse. *)
End(S, o) == /\ \A c \in S : outcome[c] \in {"idle", "open"}
             /\ Becomes(S, o)
             /\ unspent' \in SUBSET unspent
             /\ UNCHANGED given

Next == \/ \E c \in Calls : Begin(c) \/ Allow(c) \/ Approve(c)
        \/ \E c, r \in Calls : Spend(c, r)
        \/ \E S \in SUBSET Calls, o \in {"refused", "lost"} : End(S, o)

Spec == Init /\ [][Next]_vars
==============================================================================
