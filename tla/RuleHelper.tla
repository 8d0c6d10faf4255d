------------------------------ MODULE RuleHelper ------------------------------
(***************************************************************************)
(* RuleHelper of src/utils/rulehelper.go: one knowledge library holding    *)
(* the rules of namespace "Region" version "0.0.1", and the knowledge base *)
(* instance that Exec and Match evaluate.                                 *)
(*                                                                         *)
(* LoadRules removes every entry of the library, builds the concatenated   *)
(* rule text into it, and then, whatever the build returned, sets          *)
(* KnowledgeBase to a new instance of the library; each of the three is a  *)
(* step, since Exec and Match read KnowledgeBase without a lock. LoadRule  *)
(* builds one rule text into the library without clearing it. A rule is a  *)
(* model value; BadRules are texts the grule parser rejects. When a build  *)
(* fails, grule may already have added some of the text's rules to the     *)
(* library (its parser adds entries as it walks the text); which ones is   *)
(* left open.                                                              *)
(***************************************************************************)
EXTENDS FiniteSets, Sequences

CONSTANTS
    Rules,      \* rule texts (one rule each)
    BadRules,   \* the texts that do not compile
    Configs,    \* the []model.Rules lists LoadRules is called with
    Nil

ASSUME BadRules \subseteq Rules /\ Configs \subseteq Seq(Rules)

VARIABLES
    library,    \* the rule entries of knowledgeLibrary for Region/0.0.1
    kb,         \* rulehelper.KnowledgeBase: a snapshot of rules, or Nil
    pc,         \* where the loading goroutine is in LoadRules
    cfg,        \* the list LoadRules was called with
    last        \* the last build: its rules and whether it compiled (history)

vars == <<library, kb, pc, cfg, last>>

GoodRules == Rules \ BadRules

\* InitRuleEngine: an empty library, no knowledge base yet.
InitRuleEngine ==
    /\ library = {}
    /\ kb = Nil
    /\ pc = "idle"
    /\ cfg = <<>>
    /\ last = Nil

Elems(c) == {c[i] : i \in DOMAIN c}

\* BuildRuleFromResource: all rules on success; on a parse error any part
\* of the text's good rules.
Build(lib, text) ==
    IF text \cap BadRules = {}
    THEN {lib \cup text}
    ELSE {lib \cup part : part \in SUBSET (text \cap GoodRules)}

\* LoadRule: build into the library as it is, then instantiate.
LoadRule(r) ==
    /\ pc = "idle"
    /\ \E lib \in Build(library, {r}) :
          /\ library' = lib
          /\ kb' = lib
    /\ last' = [rules |-> {r}, ok |-> r \notin BadRules]
    /\ UNCHANGED <<pc, cfg>>

\* LoadRules, "清除之前的规则": every entry of the library is removed.
LoadRulesClear(c) ==
    /\ pc = "idle"
    /\ library' = {}
    /\ pc' = "cleared"
    /\ cfg' = c
    /\ UNCHANGED <<kb, last>>

\* The rule texts joined and built; an error is only logged.
LoadRulesBuild ==
    /\ pc = "cleared"
    /\ library' \in Build(library, Elems(cfg))
    /\ last' = [rules |-> Elems(cfg), ok |-> Elems(cfg) \cap BadRules = {}]
    /\ pc' = "built"
    /\ UNCHANGED <<kb, cfg>>

\* KnowledgeBase = NewKnowledgeBaseInstance(...), whatever the build returned.
LoadRulesInstantiate ==
    /\ pc = "built"
    /\ kb' = library
    /\ pc' = "idle"
    /\ UNCHANGED <<library, cfg, last>>

\* Match: the rules of the snapshot whose conditions hold for the fact, or
\* the error "没有规则数据" when no snapshot exists.  The conditions are
\* abstracted: fires are the rules whose "when" holds for the fact.
Match(fires) == IF kb = Nil THEN Nil ELSE kb \cap fires

Next ==
    \/ \E r \in Rules : LoadRule(r)
    \/ \E c \in Configs : LoadRulesClear(c)
    \/ LoadRulesBuild
    \/ LoadRulesInstantiate

Spec == InitRuleEngine /\ [][Next]_vars

(***************************************************************************)
(* Properties                                                              *)
(***************************************************************************)

\* Spec section 4.3: a LoadRules compile failure "leaves the previous
\* knowledge base in place (no partial application)".
CompileFailureKeepsKb ==
    [][LoadRulesInstantiate /\ ~last.ok => kb' = kb]_vars

=============================================================================
