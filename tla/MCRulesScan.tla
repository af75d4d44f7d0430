----------------------------- MODULE MCRulesScan -----------------------------
(* RulesScan for a directive of two letters, one of them in both cases. *)
EXTENDS RulesScan

MCLower == [c \in {"s", "r", "R"} |-> IF c = "R" THEN "r" ELSE c]
MCDirective == <<"s", "r">>
=============================================================================
