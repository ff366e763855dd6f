--------------------------- MODULE MCChannelDelivery ---------------------------
(***************************************************************************)
(* Instances of ChannelDelivery for TLC: one message is to be replied to,  *)
(* the other is not.                                                       *)
(***************************************************************************)
EXTENDS ChannelDelivery

CONSTANTS e1, e2

JustOne == {e1}
==============================================================================
