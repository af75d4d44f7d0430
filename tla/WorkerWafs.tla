---------------------------- MODULE WorkerWafs ----------------------------
(***************************************************************************)
(* From the rules directives of a configuration to the WAFs of a worker:   *)
(* the directives fill the rules arrays, merge_conf() hands them down the  *)
(* tree of configuration contexts, init_process() compiles one WAF for     *)
(* each distinct array after the fork and exit_process() frees them.       *)
(*                                                                         *)
(* Context 1 is http{}.  Every other context is a server or a location,    *)
(* numbered in the order nginx merges them, its parent first.  A handle is *)
(* the number of the context that built it, 1 for the main WAF, 0 for      *)
(* none.  No directive fills mmcf->rules and merge_conf() shares it with   *)
(* nobody, so the main WAF is always the empty one and the test of         *)
(* init_process() for a loc_conf with mmcf->rules never holds.             *)
(***************************************************************************)
EXTENDS Integers, Sequences, FiniteSets, SequencesExt

CONSTANTS
  NumConf,      \* the contexts
  Value,        \* the arguments of coraza_rules and coraza_rules_file
  MaxRules      \* bound on the directives

ASSUME WafAssumption == NumConf \in Nat \ {0} /\ MaxRules \in Nat

Conf    == 1..NumConf
LocConf == 2..NumConf                       \* mmcf->loc_confs
Entry   == [type : {"inline", "file"}, value : Value]
Arrays  == 1..(2 * NumConf)

VARIABLES
  parent,       \* the tree
  pc, i,        \* the step, and its loop over loc_confs
  enable,       \* conf->enable
  has_rules,    \* conf->has_rules
  rules,        \* conf->rules: an array
  array,        \* what the arrays hold
  count,        \* mmcf->rules_inline + mmcf->rules_file
  main,         \* mmcf->waf
  waf,          \* conf->waf
  waf_owner,    \* conf->waf_owner
  engine        \* libcoraza: the rules of each WAF and how often it was freed

vars == <<parent, pc, i, enable, has_rules, rules, array, count, main, waf,
          waf_owner, engine>>
config == <<parent, enable, has_rules, rules, array, count>>

NoWaf == [made |-> FALSE, rules |-> <<>>, frees |-> 0]

\* create_main_conf() and create_conf(): every context has an array of its own
\* (its number; the array merge_conf() may make for it is NumConf higher).
Init ==
  /\ parent \in {p \in [LocConf -> Conf] : \A s \in LocConf : p[s] < s}
  /\ pc = "parse" /\ i = 2
  /\ enable \in [Conf -> {"unset", "on", "off"}]
  /\ has_rules = [s \in Conf |-> FALSE]
  /\ rules = [s \in Conf |-> s]
  /\ array = [a \in Arrays |-> <<>>]
  /\ count = 0
  /\ main = 0 /\ waf = [s \in Conf |-> 0] /\ waf_owner = [s \in Conf |-> FALSE]
  /\ engine = [s \in Conf |-> NoWaf]

-----------------------------------------------------------------------------
(* The configuration *)

\* ngx_conf_set_rules() and ngx_conf_set_rules_file()
SetRules ==
  /\ pc = "parse" /\ count < MaxRules
  /\ \E s \in Conf, e \in Entry :
       /\ array' = [array EXCEPT ![rules[s]] = Append(@, e)]
       /\ has_rules' = [has_rules EXCEPT ![s] = TRUE]
  /\ count' = count + 1
  /\ UNCHANGED <<parent, pc, i, enable, rules, main, waf, waf_owner, engine>>

\* A directive the scan refuses, or an allocation that fails.
Refused ==
  /\ pc \in {"parse", "merge"}
  /\ pc' = "refused"
  /\ UNCHANGED <<config, i, main, waf, waf_owner, engine>>

Parsed ==
  /\ pc = "parse"
  /\ pc' = "merge" /\ i' = 2
  /\ UNCHANGED <<config, main, waf, waf_owner, engine>>

\* Mutant of MergedRules: the parent's rules come last.
MergedRulesLast(p, s) == array[rules[s]] \o array[rules[p]]
\* What the array made for a context with rules and inherited rules holds.
MergedRules(p, s) == array[rules[p]] \o array[rules[s]]

\* Mutant of Inherits: the array is shared and the flag is forgotten.
InheritsArray(p, s) == has_rules[s]
\* If a context that shares its parent's array has rules.
Inherits(p, s) == has_rules[s] \/ has_rules[p]

\* ngx_http_coraza_merge_conf()
MergeConf ==
  /\ pc = "merge" /\ i \in LocConf
  /\ LET p == parent[i] IN
     /\ enable' = [enable EXCEPT ![i] =
          IF @ # "unset" THEN @ ELSE IF enable[p] = "unset" THEN "off" ELSE enable[p]]
     /\ IF array[rules[p]] = <<>> THEN UNCHANGED <<rules, array, has_rules>>
        ELSE IF array[rules[i]] = <<>>
        THEN /\ rules' = [rules EXCEPT ![i] = rules[p]]
             /\ has_rules' = [has_rules EXCEPT ![i] = Inherits(p, i)]
             /\ array' = array
        ELSE /\ array' = [array EXCEPT ![NumConf + i] = MergedRules(p, i)]
             /\ rules' = [rules EXCEPT ![i] = NumConf + i]
             /\ has_rules' = [has_rules EXCEPT ![i] = TRUE]
  /\ i' = i + 1
  /\ UNCHANGED <<parent, pc, count, main, waf, waf_owner, engine>>

\* ngx_http_coraza_validate_rules(), then the fork.
ValidateRules ==
  /\ pc = "merge" /\ i \notin LocConf
  /\ pc' = IF count = 0 /\ \E s \in Conf : enable[s] = "on" THEN "refused" ELSE "fork"
  /\ UNCHANGED <<config, i, main, waf, waf_owner, engine>>

-----------------------------------------------------------------------------
(* ngx_http_coraza_init_process() *)

\* ngx_http_coraza_build_waf() with a result.
Build(h, entries) == engine' = [engine EXCEPT ![h] = [@ EXCEPT !.made = TRUE, !.rules = entries]]

\* libcoraza is loaded and the main WAF is built.
InitMain ==
  /\ pc = "fork"
  /\ Build(1, <<>>) /\ main' = 1
  /\ pc' = "init" /\ i' = 2
  /\ UNCHANGED <<config, waf, waf_owner>>

\* Mutant of RulesEqual: only the pointers are compared.
RulesEqualPointer(a, b) == a = b
\* ngx_http_coraza_rules_equal()
RulesEqual(a, b) == a = b \/ array[a] = array[b]

\* The loc_confs whose WAF fits context s.
Donors(s) == {j \in 2..(s - 1) : waf_owner[j] /\ waf[j] # 0 /\ RulesEqual(rules[j], rules[s])}

InLoop(step) == pc = step /\ i \in LocConf /\ i' = i + 1 /\ pc' = pc
Ruled == has_rules[i] /\ array[rules[i]] # <<>>

\* No WAF of its own: create_ctx() falls back on the main WAF.
InitSkips ==
  /\ InLoop("init") /\ ~Ruled
  /\ UNCHANGED <<config, main, waf, waf_owner, engine>>

\* The first owner with the same rules lends its WAF.
InitBorrows ==
  /\ InLoop("init") /\ Ruled
  /\ \E j \in Donors(i) :
       /\ \A k \in Donors(i) : j <= k
       /\ waf' = [waf EXCEPT ![i] = waf[j]]
  /\ waf_owner' = [waf_owner EXCEPT ![i] = FALSE]
  /\ UNCHANGED <<config, main, engine>>

InitBuilds ==
  /\ InLoop("init") /\ Ruled /\ Donors(i) = {}
  /\ Build(i, array[rules[i]])
  /\ waf' = [waf EXCEPT ![i] = i]
  /\ waf_owner' = [waf_owner EXCEPT ![i] = TRUE]
  /\ UNCHANGED <<config, main>>

\* The library or a WAF cannot be loaded or built: the worker never serves.
InitFails ==
  /\ \/ pc = "fork"
     \/ pc = "init" /\ i \in LocConf /\ Ruled /\ Donors(i) = {}
  /\ pc' = "failed"
  /\ UNCHANGED <<config, i, main, waf, waf_owner, engine>>

InitDone ==
  /\ pc = "init" /\ i \notin LocConf
  /\ pc' = "serve"
  /\ UNCHANGED <<config, i, main, waf, waf_owner, engine>>

\* The WAF of a transaction ngx_http_coraza_create_ctx() creates.
Effective(s) == IF waf[s] # 0 THEN waf[s] ELSE main

-----------------------------------------------------------------------------
(* ngx_http_coraza_exit_process() *)

ExitProcess ==
  /\ pc = "serve"
  /\ pc' = "exit" /\ i' = 2
  /\ UNCHANGED <<config, main, waf, waf_owner, engine>>

\* Mutant of Frees: whoever has a WAF frees it.
FreesAny == waf[i] # 0 /\ waf[i] # main
Frees == waf_owner[i] /\ waf[i] # 0 /\ waf[i] # main

ExitLocConf ==
  /\ InLoop("exit")
  /\ engine' = IF Frees THEN [engine EXCEPT ![waf[i]].frees = @ + 1] ELSE engine
  /\ UNCHANGED <<config, main, waf, waf_owner>>

\* The second loop, and the main WAF.
ExitMain ==
  /\ pc = "exit" /\ i \notin LocConf
  /\ waf' = [s \in Conf |-> IF s \in LocConf THEN 0 ELSE waf[s]]
  /\ waf_owner' = [s \in Conf |-> IF s \in LocConf THEN FALSE ELSE waf_owner[s]]
  /\ engine' = IF main # 0 THEN [engine EXCEPT ![main].frees = @ + 1] ELSE engine
  /\ main' = 0
  /\ pc' = "exited"
  /\ UNCHANGED <<config, i>>

-----------------------------------------------------------------------------
Next == \/ SetRules \/ Refused \/ Parsed \/ MergeConf \/ ValidateRules
        \/ InitMain \/ InitSkips \/ InitBorrows \/ InitBuilds \/ InitFails \/ InitDone
        \/ ExitProcess \/ ExitLocConf \/ ExitMain

Spec == Init /\ [][Next]_vars

-----------------------------------------------------------------------------
(* Properties *)

\* Every variable has its type, and has_rules, which init_process() asks first,
\* agrees with the rules array of the context through every directive, share
\* and merge.
TypeOK ==
  /\ parent \in [LocConf -> Conf] /\ \A s \in LocConf : parent[s] < s
  /\ pc \in {"parse", "merge", "refused", "fork", "init", "failed", "serve",
             "exit", "exited"}
  /\ i \in 2..(NumConf + 1)
  /\ enable \in [Conf -> {"unset", "on", "off"}] /\ has_rules \in [Conf -> BOOLEAN]
  /\ rules \in [Conf -> Arrays] /\ array \in [Arrays -> Seq(Entry)]
  /\ count \in 0..MaxRules
  /\ \A s \in Conf : has_rules[s] <=> array[rules[s]] # <<>>
  /\ main \in {0, 1} /\ waf \in [Conf -> {0} \cup Conf]
  /\ waf_owner \in [Conf -> BOOLEAN]
  /\ engine \in [Conf -> [made : BOOLEAN, rules : Seq(Entry), frees : Nat]]

\* A worker that serves inspects every request with the rules its context
\* declares behind those of the contexts around it, in that order, whichever
\* arrays were shared, merged or found equal on the way.
InForce(s) == IF s = 1 THEN array[1] ELSE engine[Effective(s)].rules
RulesInForce ==
  pc = "serve" => \A s \in LocConf :
    /\ Effective(s) # 0 /\ engine[Effective(s)].made /\ engine[Effective(s)].frees = 0
    /\ InForce(s) = InForce(parent[s]) \o array[s]

\* Every WAF a worker built is freed exactly once by the time it exits.
FreedOnce ==
  \A h \in Conf : /\ engine[h].frees <= 1
                  /\ engine[h].frees = 1 => engine[h].made
                  /\ pc = "exited" /\ engine[h].made => engine[h].frees = 1

\* A worker compiles no ruleset twice.
Deduped ==
  \A g, h \in LocConf : g # h /\ engine[g].made /\ engine[h].made =>
    engine[g].rules # engine[h].rules
=============================================================================
