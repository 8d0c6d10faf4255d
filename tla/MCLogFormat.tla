----------------------------- MODULE MCLogFormat -----------------------------
(***************************************************************************)
(* Five of FormatLog's placeholders, in the code's order: src_ip (i), url  *)
(* (u), method (m), referer (r), user_agent (a).  The combined formats     *)
(* keep their placeholders' order with one separator character between.  *)
(* A field is empty, plain text, or text that spells a placeholder.        *)
(***************************************************************************)
EXTENDS LogFormat

MCFields == <<"i", "u", "m", "r", "a">>

Sep(ps) == FoldLeft(LAMBDA acc, f : acc \o <<"x">> \o Placeholder(f),
                    Placeholder(Head(ps)), Tail(ps))

MCNginx == Sep(<<"i", "m", "u", "r", "a">>)
MCApache == MCNginx

MCFormats == {"nginx", "apache", "custom", "Custom", "json"}
MCLower == [f \in MCFormats |-> IF f = "Custom" THEN "custom" ELSE f]

MCCustomTpls == {<<>>, Placeholder("u") \o Placeholder("i")}

MCValues == {<<>>, <<"x">>, Placeholder("a")}
MCLogs == [Range(MCFields) -> MCValues]
=============================================================================
