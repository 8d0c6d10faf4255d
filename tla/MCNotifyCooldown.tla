--------------------------- MODULE MCNotifyCooldown ---------------------------
(* Model-checking instance of NotifyCooldown: one ordinary key and one SSL *)
(* key over 55 minutes, long enough for the whole ladder (sends at 0, 1, 6 *)
(* and 21) followed by a 30-minute silence and a reset.                    *)
EXTENDS NotifyCooldown

MCMaxTime == 55
=============================================================================
