--------------------------- MODULE MCNotifyPipeline ---------------------------
(* Model-checking instance of NotifyPipeline: three aggregated messages,   *)
(* two of one type (a rule hit) and one of another (an IP ban), so that a *)
(* flush sends a single entry, a merged summary, or both groups; one       *)
(* direct message; a buffer limit of 2 stands for notifyAggMaxBuffer = 100 *)
(* so that Add's inline flush is reached.                                   *)
EXTENDS NotifyPipeline

MCAggMsgs == {"a1", "a2", "a3"}
MCDirectMsgs == {"d1"}
MCMaxBuffer == 2
MCMsgType == [m \in MCAggMsgs |-> IF m = "a3" THEN "ipban" ELSE "rule"]
=============================================================================
