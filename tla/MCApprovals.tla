----------------------------- MODULE MCApprovals -----------------------------
(***************************************************************************)
(* Instances of Approvals for TLC: which calls there are, what answers     *)
(* each, and which are made together.                                      *)
(***************************************************************************)
EXTENDS Approvals, TLC

CONSTANTS ask, quiz, spawn, secret, use, again

KindOf == ask :> "confirmation" @@ spawn :> "route" @@ quiz :> "question"
            @@ secret :> "secret" @@ use :> "gated" @@ again :> "gated"
OnlyPrompts == {{ask, quiz, secret}}
General == {{ask, spawn, quiz}, {ask, use, again}, {spawn, quiz, secret}}
==============================================================================
