------------------------- MODULE MCConversationTurn -------------------------
(* Instances of ConversationTurn for TLC.                                  *)
EXTENDS ConversationTurn

(* Two senders (two interfaces, or two principals); messages of one or two *)
(* bytes of a queue budget of two or three.                                *)
Msg(kind, sender, bytes) == [kind |-> kind, sender |-> sender, bytes |-> bytes]

Texts     == {Msg("text", "web", 1), Msg("text", "phone", 2)}
Solo      == Msg("solo", "web", 1)
Info      == Msg("info", "web", 1)
Compact   == Msg("compact", "web", 1)

OneSender   == {Msg("text", "web", 1)}
AllShapes   == Texts \cup {Solo, Info, Compact}
TextAndCompact == OneSender \cup {Compact}
TextAndInfo    == OneSender \cup {Info}
SlashShapes == {Msg("text", "web", 1), Info, Compact}
=============================================================================
