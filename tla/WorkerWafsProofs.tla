-------------------------- MODULE WorkerWafsProofs --------------------------
(***************************************************************************)
(* Proofs about WorkerWafs, for every tree of contexts and every           *)
(* sequence of directives.                                                 *)
(*                                                                         *)
(* MergeInv says what the arrays hold while merge_conf() works its way     *)
(* through the contexts, WafInv who built and who owns each handle while   *)
(* init_process() and exit_process() do.  Both are stated relative to the  *)
(* loop index, which is what makes them inductive.  That has_rules agrees  *)
(* with the arrays is a part of TypeOK.                                    *)
(***************************************************************************)
EXTENDS WorkerWafs, SequenceTheorems, TLAPS

\* The rules in force in a context once it is merged.
InForceRules(s) == array[rules[s]]

\* The contexts merge_conf() has worked on.
Merged == IF pc = "parse" THEN {}
          ELSE IF pc = "merge" THEN {s \in LocConf : s < i} ELSE LocConf

\* A context that is not merged has its own array; a merged one holds its
\* parent's rules and then its own, in an array no later merge touches.
MergeInv ==
  /\ rules[1] = 1
  /\ \A s \in LocConf : s \notin Merged => rules[s] = s
  /\ \A s \in Conf : rules[s] \in Conf \/ (\E k \in Merged : k <= s /\ rules[s] = NumConf + k)
  /\ pc # "refused" => \A s \in Merged : InForceRules(s) = InForceRules(parent[s]) \o array[s]

\* The contexts init_process() has worked on.
Started == IF pc \in {"parse", "merge", "refused", "fork"} THEN {}
           ELSE IF pc = "init" THEN {s \in LocConf : s < i} ELSE LocConf
\* The contexts exit_process() has worked on.
Gone == IF pc = "exit" THEN {s \in LocConf : s < i}
        ELSE IF pc = "exited" THEN LocConf ELSE {}

\* A context owns the WAF it built and nothing else; a WAF holds the rules in
\* force in every context that refers to it, and no two hold the same; it is
\* freed when exit_process() reaches its owner.
WafInv ==
  /\ waf \in [Conf -> {0} \cup LocConf]
  /\ engine[1].frees = IF pc = "exited" THEN 1 ELSE 0
  /\ pc \in {"init", "serve", "exit"} => main = 1 /\ engine[1].made /\ engine[1].rules = <<>>
  /\ pc = "exited" => engine[1].made
  /\ \A s \in LocConf :
       /\ engine[s].frees = IF s \in Gone /\ engine[s].made THEN 1 ELSE 0
       /\ engine[s].made => s \in Started /\ engine[s].rules = InForceRules(s)
       /\ pc # "exited" => (waf_owner[s] <=> engine[s].made)
       /\ pc # "exited" => (engine[s].made => waf[s] = s)
       /\ pc # "exited" /\ s \notin Started => waf[s] = 0
       /\ pc \notin {"exited", "failed"} /\ s \in Started =>
            IF waf[s] = 0 THEN InForceRules(s) = <<>>
            ELSE engine[waf[s]].made /\ engine[waf[s]].rules = InForceRules(s)
  /\ Deduped

IInv == TypeOK /\ MergeInv /\ WafInv

-----------------------------------------------------------------------------
(* The configuration *)

\* The inductive invariant holds initially.
LEMMA InitIInv == Init => IInv
<1> SUFFICES ASSUME Init PROVE IInv
  OBVIOUS
<1>1. <<>> \in Seq(Entry)
  OBVIOUS
<1>2. TypeOK
  BY <1>1, WafAssumption DEF Init, TypeOK, Conf, LocConf, Arrays, NoWaf
<1>3. MergeInv
  BY WafAssumption DEF Init, MergeInv, Merged, InForceRules, Conf, LocConf, Arrays
<1>4. WafInv
  BY WafAssumption DEF Init, WafInv, Started, Gone, Deduped, NoWaf, Conf, LocConf
<1> QED
  BY <1>2, <1>3, <1>4 DEF IInv

\* While no WAF exists, a step that makes none keeps WafInv.
LEMMA NoWafStep ==
  ASSUME TypeOK, WafInv, pc \in {"parse", "merge"},
         pc' \in {"parse", "merge", "refused", "fork"},
         UNCHANGED <<main, waf, waf_owner, engine>>
  PROVE  WafInv'
<1>1. 1 \in Conf /\ LocConf \subseteq Conf
  BY WafAssumption DEF Conf, LocConf
<1>2. Started = {} /\ Gone = {} /\ Started' = {} /\ Gone' = {}
  BY DEF Started, Gone
<1>3. \A s \in LocConf : ~engine[s].made
  BY <1>2 DEF WafInv
<1> QED
  BY <1>1, <1>2, <1>3 DEF WafInv, Deduped

\* A directive appends to the array of its own context.
LEMMA SetRulesStep == ASSUME IInv, SetRules PROVE IInv'
<1>1. PICK s \in Conf, e \in Entry :
        /\ array' = [array EXCEPT ![rules[s]] = Append(@, e)]
        /\ has_rules' = [has_rules EXCEPT ![s] = TRUE]
  BY DEF SetRules
<1>2. /\ pc = "parse" /\ UNCHANGED <<parent, pc, i, enable, rules, main, waf, waf_owner, engine>>
      /\ count < MaxRules /\ count' = count + 1
  BY DEF SetRules
<1>3. TypeOK /\ MergeInv /\ WafInv
  BY DEF IInv
<1>4. rules[s] \in Arrays /\ array[rules[s]] \in Seq(Entry)
  BY <1>3 DEF TypeOK
<1>5. Append(array[rules[s]], e) \in Seq(Entry)
  BY <1>1, <1>4
<1>6. array' \in [Arrays -> Seq(Entry)] /\ has_rules' \in [Conf -> BOOLEAN]
  BY <1>1, <1>3, <1>4, <1>5 DEF TypeOK
<1>7. count' \in 0..MaxRules
  BY <1>2, <1>3, WafAssumption DEF TypeOK
<1>9. Merged = {} /\ Merged' = {}
  BY <1>2 DEF Merged
<1>10. \A q \in Conf : rules[q] = q
  BY <1>3, <1>9, WafAssumption DEF MergeInv, Conf, LocConf
<1>11. \A q \in Conf : has_rules'[q] <=> array'[rules'[q]] # <<>>
  <2>1. SUFFICES ASSUME NEW q \in Conf
                 PROVE  has_rules'[q] <=> array'[rules[q]] # <<>>
    BY <1>2
  <2>2. CASE q = s
    <3>1. array'[rules[s]] = Append(array[rules[s]], e)
      BY <1>1, <1>3, <1>4 DEF TypeOK
    <3>2. Append(array[rules[s]], e) # <<>>
      BY <1>4
    <3>3. has_rules'[s]
      BY <1>1, <1>3 DEF TypeOK
    <3> QED
      BY <3>1, <3>2, <3>3, <2>2
  <2>3. CASE q # s
    <3>1. array'[rules[q]] = array[rules[q]]
      BY <1>1, <1>3, <1>10, <2>3 DEF TypeOK
    <3>2. has_rules'[q] = has_rules[q]
      BY <1>1, <1>3, <2>3 DEF TypeOK
    <3>3. has_rules[q] <=> array[rules[q]] # <<>>
      BY <1>3 DEF TypeOK
    <3> QED
      BY <3>1, <3>2, <3>3
  <2> QED
    BY <2>2, <2>3
<1>8. TypeOK'
  BY <1>2, <1>3, <1>6, <1>7, <1>11 DEF TypeOK
<1>12. MergeInv'
  BY <1>2, <1>3, <1>9 DEF MergeInv, InForceRules
<1>13. WafInv'
  BY <1>2, <1>3, NoWafStep
<1> QED
  BY <1>8, <1>12, <1>13 DEF IInv

\* The configuration is refused, or its merge begins or ends.
LEMMA MoveConfigStep == ASSUME IInv, Refused \/ Parsed \/ ValidateRules PROVE IInv'
<1>1. TypeOK /\ MergeInv /\ WafInv
  BY DEF IInv
<1>2. /\ UNCHANGED <<config, main, waf, waf_owner, engine>>
      /\ pc \in {"parse", "merge"}
      /\ pc' \in {"merge", "refused", "fork"}
      /\ i' = i \/ i' = 2
  BY DEF Refused, Parsed, ValidateRules
<1>3. TypeOK'
  BY <1>1, <1>2, WafAssumption DEF TypeOK, config
<1>4. WafInv'
  BY <1>1, <1>2, NoWafStep
<1>5. /\ Merged \subseteq Merged'
      /\ pc' # "refused" => Merged' = Merged
  <2>1. CASE Refused
    BY <2>1 DEF Refused, Merged
  <2>2. CASE Parsed
    BY <2>2 DEF Parsed, Merged, LocConf
  <2>3. CASE ValidateRules
    <3>1. pc = "merge" /\ i \notin LocConf /\ i \in 2..(NumConf + 1) /\ pc' \in {"refused", "fork"}
      BY <2>3, <1>1 DEF ValidateRules, TypeOK
    <3>2. i = NumConf + 1
      BY <3>1, WafAssumption DEF LocConf
    <3>3. Merged = LocConf /\ Merged' = LocConf
      BY <3>1, <3>2, WafAssumption DEF Merged, LocConf
    <3> QED
      BY <3>3
  <2> QED
    BY <2>1, <2>2, <2>3
<1>6. MergeInv'
  BY <1>1, <1>2, <1>5 DEF MergeInv, InForceRules, config
<1> QED
  BY <1>3, <1>4, <1>6 DEF IInv

\* A context is merged behind its parent.
LEMMA MergeConfStep == ASSUME IInv, MergeConf PROVE IInv'
<1> DEFINE p == parent[i]
<1>1. TypeOK /\ MergeInv /\ WafInv
  BY DEF IInv
<1>2. /\ pc = "merge" /\ i \in LocConf /\ i' = i + 1
      /\ UNCHANGED <<parent, pc, count, main, waf, waf_owner, engine>>
  BY DEF MergeConf
<1>3. /\ i \in Conf /\ p \in Conf /\ p < i /\ i \in Nat /\ NumConf \in Nat
      /\ NumConf + i \in Arrays /\ NumConf + i \notin Conf
      /\ \A s \in Conf : s \in Arrays /\ s \in Nat
  <2>1. parent[i] \in Conf /\ parent[i] < i
    BY <1>1, <1>2 DEF TypeOK
  <2>2. /\ i \in Conf /\ i \in Nat /\ NumConf \in Nat
        /\ NumConf + i \in Arrays /\ NumConf + i \notin Conf
    BY <1>2, WafAssumption DEF Conf, LocConf, Arrays
  <2>3. \A s \in Conf : s \in Arrays /\ s \in Nat
    BY WafAssumption DEF Conf, Arrays
  <2> QED
    BY <2>1, <2>2, <2>3
<1>4. Merged' = Merged \cup {i} /\ i \notin Merged /\ \A s \in Merged : s < i /\ s \in LocConf
  BY <1>2, WafAssumption DEF Merged, LocConf
<1>5. rules[i] = i
  BY <1>1, <1>2, <1>4 DEF MergeInv
<1>6. \A s \in Conf : rules[s] \in Arrays /\ rules[s] # NumConf + i /\ array[rules[s]] \in Seq(Entry)
  <2>1. SUFFICES ASSUME NEW s \in Conf PROVE rules[s] \in Arrays /\ rules[s] # NumConf + i
    BY <1>1 DEF TypeOK
  <2>2. rules[s] \in Conf \/ \E k \in Merged : k <= s /\ rules[s] = NumConf + k
    BY <1>1 DEF MergeInv
  <2> QED
    BY <2>2, <1>1, <1>3, <1>4, SMTT(30) DEF TypeOK, LocConf
<1>7. array[rules[p]] \in Seq(Entry) /\ array[i] \in Seq(Entry)
  BY <1>6, <1>3, <1>5
\* The three cases of the rules arrays.
<1>8. \/ /\ array[rules[p]] = <<>>
         /\ UNCHANGED <<rules, array, has_rules>>
      \/ /\ array[rules[p]] # <<>> /\ array[i] = <<>>
         /\ rules' = [rules EXCEPT ![i] = rules[p]]
         /\ has_rules' = [has_rules EXCEPT ![i] = has_rules[i] \/ has_rules[p]]
         /\ array' = array
      \/ /\ array[rules[p]] # <<>> /\ array[i] # <<>>
         /\ array' = [array EXCEPT ![NumConf + i] = array[rules[p]] \o array[i]]
         /\ rules' = [rules EXCEPT ![i] = NumConf + i]
         /\ has_rules' = [has_rules EXCEPT ![i] = TRUE]
  BY <1>5 DEF MergeConf, MergedRules, Inherits
<1>9. array[rules[p]] \o array[i] \in Seq(Entry)
  BY <1>7, ConcatProperties
<1>10. /\ rules' \in [Conf -> Arrays] /\ array' \in [Arrays -> Seq(Entry)]
       /\ has_rules' \in [Conf -> BOOLEAN]
       /\ \A s \in Conf \ {i} : rules'[s] = rules[s] /\ has_rules'[s] = has_rules[s]
       /\ \A a \in Arrays \ {NumConf + i} : array'[a] = array[a]
  <2>1. rules \in [Conf -> Arrays] /\ array \in [Arrays -> Seq(Entry)]
        /\ has_rules \in [Conf -> BOOLEAN]
    BY <1>1 DEF TypeOK
  <2>2. \A b \in BOOLEAN : [has_rules EXCEPT ![i] = b] \in [Conf -> BOOLEAN]
                           /\ \A s \in Conf \ {i} : [has_rules EXCEPT ![i] = b][s] = has_rules[s]
    BY <2>1
  <2>3. (has_rules[i] \/ has_rules[p]) \in BOOLEAN
    OBVIOUS
  <2>4. /\ has_rules' \in [Conf -> BOOLEAN]
        /\ \A s \in Conf \ {i} : has_rules'[s] = has_rules[s]
    BY <1>8, <2>1, <2>2, <2>3, Zenon
  <2>5. /\ rules' \in [Conf -> Arrays]
        /\ \A s \in Conf \ {i} : rules'[s] = rules[s]
    BY <1>8, <2>1, <1>3
  <2>6. /\ array' \in [Arrays -> Seq(Entry)]
        /\ \A a \in Arrays \ {NumConf + i} : array'[a] = array[a]
    <3>1. ASSUME NEW v \in Seq(Entry), array' = [array EXCEPT ![NumConf + i] = v]
          PROVE  /\ array' \in [Arrays -> Seq(Entry)]
                 /\ \A a \in Arrays \ {NumConf + i} : array'[a] = array[a]
      BY <3>1, <2>1, <1>3, SMTT(30)
    <3>2. \/ array' = array
          \/ array' = [array EXCEPT ![NumConf + i] = array[rules[p]] \o array[i]]
      BY <1>8
    <3> QED
      BY <3>1, <3>2, <2>1, <1>9
  <2> QED
    BY <2>4, <2>5, <2>6
<1>11. enable' \in [Conf -> {"unset", "on", "off"}]
  BY <1>1, <1>3 DEF MergeConf, TypeOK
<1>12. i' \in 2..(NumConf + 1)
  BY <1>2, WafAssumption DEF LocConf
<1>14. \A s \in Conf \ {i} : array'[rules'[s]] = array[rules[s]]
  BY <1>6, <1>10
<1>15. \A s \in Conf : array'[s] = array[s]
  BY <1>3, <1>10
<1>16. /\ array'[rules'[i]] = array[rules[p]] \o array[i]
       /\ rules'[i] = i \/ rules'[i] = rules[p] \/ rules'[i] = NumConf + i
       /\ has_rules'[i] <=> array'[rules'[i]] # <<>>
  <2>1. CASE array[rules[p]] = <<>>
    <3>1. UNCHANGED <<rules, array, has_rules>>
      BY <1>8, <2>1
    <3>2. <<>> \o array[i] = array[i]
      BY <1>7, ConcatEmptySeq
    <3>3. has_rules[i] <=> array[rules[i]] # <<>>
      BY <1>1, <1>3 DEF TypeOK
    <3> QED
      BY <3>1, <3>2, <3>3, <2>1, <1>5
  <2>2. CASE array[rules[p]] # <<>> /\ array[i] = <<>>
    <3>1. /\ rules' = [rules EXCEPT ![i] = rules[p]]
          /\ has_rules' = [has_rules EXCEPT ![i] = has_rules[i] \/ has_rules[p]]
          /\ array' = array
      BY <1>8, <2>2
    <3>2. array[rules[p]] \o <<>> = array[rules[p]]
      BY <1>7, ConcatEmptySeq
    <3>3. has_rules[p]
      BY <1>1, <1>3, <2>2 DEF TypeOK
    <3>4. rules'[i] = rules[p]
      BY <3>1, <1>1, <1>3 DEF TypeOK
    <3>5. has_rules'[i]
      BY <3>1, <3>3, <1>1, <1>3, Zenon DEF TypeOK
    <3> QED
      BY <3>1, <3>2, <3>4, <3>5, <2>2
  <2>3. CASE array[rules[p]] # <<>> /\ array[i] # <<>>
    <3>1. /\ array' = [array EXCEPT ![NumConf + i] = array[rules[p]] \o array[i]]
          /\ rules' = [rules EXCEPT ![i] = NumConf + i]
          /\ has_rules' = [has_rules EXCEPT ![i] = TRUE]
      BY <1>8, <2>3
    <3>2. rules'[i] = NumConf + i /\ has_rules'[i]
      BY <3>1, <1>1, <1>3 DEF TypeOK
    <3>3. array'[NumConf + i] = array[rules[p]] \o array[i]
      BY <3>1, <1>1, <1>3 DEF TypeOK
    <3>4. array[rules[p]] \o array[i] # <<>>
      <4>1. Len(array[rules[p]]) > 0 /\ Len(array[i]) \in Nat
        BY <2>3, <1>7
      <4>2. Len(array[rules[p]] \o array[i]) = Len(array[rules[p]]) + Len(array[i])
        BY <1>7, ConcatProperties
      <4> QED
        BY <4>1, <4>2
    <3> QED
      BY <3>2, <3>3, <3>4
  <2> QED
    BY <2>1, <2>2, <2>3
<1>13. TypeOK'
  <2>1. ASSUME NEW s \in Conf PROVE has_rules'[s] <=> array'[rules'[s]] # <<>>
    <3>1. CASE s = i
      BY <3>1, <1>16
    <3>2. CASE s # i
      <4>1. has_rules[s] <=> array[rules[s]] # <<>>
        BY <1>1 DEF TypeOK
      <4> QED
        BY <4>1, <3>2, <1>10, <1>14
    <3> QED
      BY <3>1, <3>2
  <2> QED
    BY <1>1, <1>2, <1>10, <1>11, <1>12, <2>1 DEF TypeOK
<1>17. MergeInv'
  <2>1. rules'[1] = 1
    BY <1>1, <1>2, <1>10, WafAssumption DEF MergeInv, Conf, LocConf
  <2>2. \A s \in LocConf : s \notin Merged' => rules'[s] = s
    BY <1>1, <1>4, <1>10 DEF MergeInv, LocConf, Conf
  <2>3. ASSUME NEW s \in Conf
        PROVE  rules'[s] \in Conf \/ \E k \in Merged' : k <= s /\ rules'[s] = NumConf + k
    <3>1. \A q \in Conf : rules[q] \in Conf \/ \E k \in Merged' : k <= q /\ rules[q] = NumConf + k
      BY <1>1, <1>4 DEF MergeInv
    <3>2. CASE s # i
      BY <3>1, <3>2, <1>10
    <3>3. CASE s = i
      <4>1. CASE rules'[i] = i
        BY <4>1, <3>3, <1>3
      <4>2. CASE rules'[i] = rules[p]
        <5>1. ASSUME NEW k \in Merged', k <= p PROVE k <= i
          BY <5>1, <1>3, <1>4 DEF LocConf
        <5> QED
          BY <4>2, <3>3, <3>1, <1>3, <5>1
      <4>3. CASE rules'[i] = NumConf + i
        BY <4>3, <3>3, <1>3, <1>4
      <4> QED
        BY <4>1, <4>2, <4>3, <1>16
    <3> QED
      BY <3>2, <3>3
  <2>4. ASSUME NEW s \in Merged'
        PROVE  array'[rules'[s]] = array'[rules'[parent[s]]] \o array'[s]
    <3>1. parent[s] \in Conf /\ parent[s] # i /\ s \in Conf
      <4>1. s \in LocConf /\ s <= i
        BY <1>2, <1>4 DEF LocConf
      <4>2. parent[s] \in Conf /\ parent[s] < s
        BY <4>1, <1>1 DEF TypeOK
      <4> QED
        BY <4>1, <4>2, <1>3, WafAssumption DEF LocConf, Conf
    <3>2. CASE s = i
      BY <3>1, <3>2, <1>14, <1>15, <1>16
    <3>3. CASE s # i
      <4>1. array[rules[s]] = array[rules[parent[s]]] \o array[s]
        BY <1>1, <1>2, <1>4, <3>3 DEF MergeInv, InForceRules
      <4> QED
        BY <4>1, <3>1, <3>3, <1>14, <1>15
    <3> QED
      BY <3>2, <3>3
  <2> QED
    BY <2>1, <2>2, <2>3, <2>4, <1>2 DEF MergeInv, InForceRules
<1>18. WafInv'
  BY <1>1, <1>2, NoWafStep
<1> QED
  BY <1>13, <1>17, <1>18 DEF IInv

-----------------------------------------------------------------------------
(* The worker *)

\* After the fork no step touches the configuration.
LEMMA ConfigKept ==
  ASSUME MergeInv, UNCHANGED config,
         pc \in {"fork", "init", "serve", "exit"},
         pc' \in {"init", "failed", "serve", "exit", "exited"}
  PROVE  MergeInv'
<1>1. Merged = LocConf /\ Merged' = LocConf
  BY DEF Merged
<1> QED
  BY <1>1 DEF MergeInv, InForceRules, config

\* The main WAF has a handle no loc_conf has.
LEMMA Handles ==
  /\ 1 \in Conf /\ 1 \notin LocConf /\ LocConf \subseteq Conf /\ 0 \notin Conf
  /\ \A s \in LocConf : s \in Nat /\ s >= 2
  BY WafAssumption DEF Conf, LocConf

\* The library is loaded and the main WAF is built.
LEMMA InitMainStep == ASSUME IInv, InitMain PROVE IInv'
<1>1. TypeOK /\ MergeInv /\ WafInv
  BY DEF IInv
<1>2. /\ pc = "fork" /\ pc' = "init" /\ i' = 2 /\ main' = 1
      /\ UNCHANGED <<config, waf, waf_owner>>
      /\ engine' = [engine EXCEPT ![1] = [@ EXCEPT !.made = TRUE, !.rules = <<>>]]
  BY DEF InitMain, Build
<1>3. <<>> \in Seq(Entry)
  OBVIOUS
<1>4. /\ engine' \in [Conf -> [made : BOOLEAN, rules : Seq(Entry), frees : Nat]]
      /\ \A s \in LocConf : engine'[s] = engine[s]
      /\ engine'[1].made /\ engine'[1].rules = <<>> /\ engine'[1].frees = engine[1].frees
  <2> DEFINE W == [made : BOOLEAN, rules : Seq(Entry), frees : Nat]
             e == [engine[1] EXCEPT !.made = TRUE, !.rules = <<>>]
  <2>1. engine \in [Conf -> W] /\ 1 \in Conf /\ 1 \notin LocConf /\ LocConf \subseteq Conf
    BY <1>1, Handles DEF TypeOK
  <2>2. engine' = [engine EXCEPT ![1] = e]
    BY <1>2
  <2>3. engine[1] \in W
    BY <2>1
  <2>4. e \in W /\ e.made /\ e.rules = <<>> /\ e.frees = engine[1].frees
    BY <1>3, <2>3
  <2> HIDE DEF W, e
  <2>5. /\ engine' \in [Conf -> W] /\ engine'[1] = e
        /\ \A s \in LocConf : engine'[s] = engine[s]
    BY <2>1, <2>2, <2>4
  <2>6. QED
    BY <2>4, <2>5 DEF W
<1>5. TypeOK'
  BY <1>1, <1>2, <1>4, WafAssumption, SMTT(30) DEF TypeOK, config
<1>6. MergeInv'
  BY <1>1, <1>2, ConfigKept
<1>7. Started = {} /\ Started' = {} /\ Gone = {} /\ Gone' = {}
  BY <1>2, Handles DEF Started, Gone
<1>8. \A s \in LocConf : ~engine[s].made
  BY <1>1, <1>7 DEF WafInv
<1>9. WafInv'
  BY <1>1, <1>2, <1>4, <1>7, <1>8, ZenonT(60) DEF WafInv, Deduped
<1> QED
  BY <1>5, <1>6, <1>9 DEF IInv

\* What a step of the loop of init_process() starts from.
LEMMA InLoopFacts ==
  ASSUME IInv, InLoop("init")
  PROVE  /\ TypeOK /\ MergeInv /\ WafInv
         /\ pc = "init" /\ pc' = "init" /\ i \in LocConf /\ i' = i + 1 /\ i' \in 2..(NumConf + 1)
         /\ Started' = Started \cup {i} /\ i \notin Started /\ Gone = {} /\ Gone' = {}
         /\ \A s \in Started : s \in LocConf /\ s < i
         /\ ~engine[i].made /\ waf[i] = 0 /\ ~waf_owner[i]
<1>1. TypeOK /\ MergeInv /\ WafInv
  BY DEF IInv
<1>2. pc = "init" /\ pc' = "init" /\ i \in LocConf /\ i' = i + 1
  BY DEF InLoop
<1>3. i' \in 2..(NumConf + 1)
  BY <1>2, WafAssumption DEF LocConf
<1>4. Started' = Started \cup {i} /\ i \notin Started /\ \A s \in Started : s \in LocConf /\ s < i
  BY <1>2, WafAssumption DEF Started, LocConf
<1>5. Gone = {} /\ Gone' = {}
  BY <1>2 DEF Gone
<1>6. ~engine[i].made /\ waf[i] = 0 /\ ~waf_owner[i]
  BY <1>1, <1>2, <1>4 DEF WafInv
<1> QED
  BY <1>1, <1>2, <1>3, <1>4, <1>5, <1>6

\* A context without rules has no WAF of its own.
LEMMA InitSkipsStep == ASSUME IInv, InitSkips PROVE IInv'
<1>1. /\ InLoop("init") /\ ~Ruled
      /\ UNCHANGED <<config, main, waf, waf_owner, engine>>
  BY DEF InitSkips
<1>2. TypeOK'
  BY <1>1, InLoopFacts DEF TypeOK, config
<1>3. MergeInv'
  BY <1>1, InLoopFacts, ConfigKept
<1>4. InForceRules(i) = <<>>
  BY <1>1, InLoopFacts, Handles DEF TypeOK, InForceRules, Ruled
<1>5. \A s \in Conf : InForceRules(s)' = InForceRules(s)
  BY <1>1 DEF InForceRules, config
<1>6. WafInv'
  <2>1. \A s \in LocConf : InForceRules(s)' = InForceRules(s)
    BY <1>5, Handles
  <2> QED
    BY <1>1, <1>4, <2>1, InLoopFacts DEF WafInv, Deduped
<1> QED
  BY <1>2, <1>3, <1>6 DEF IInv

\* A context borrows the WAF of an owner whose rules are the same.
LEMMA InitBorrowsStep == ASSUME IInv, InitBorrows PROVE IInv'
<1>1. /\ InLoop("init")
      /\ UNCHANGED <<config, main, engine>>
      /\ waf_owner' = [waf_owner EXCEPT ![i] = FALSE]
  BY DEF InitBorrows
<1>2. PICK j \in Donors(i) : waf' = [waf EXCEPT ![i] = waf[j]]
  BY DEF InitBorrows
<1>3. TypeOK /\ MergeInv /\ WafInv /\ i \in LocConf /\ i \in Conf
  BY <1>1, InLoopFacts, Handles
<1>4. j \in LocConf /\ waf_owner[j] /\ RulesEqual(rules[j], rules[i])
  BY <1>2, <1>3, WafAssumption DEF Donors, LocConf
<1>5. engine[j].made /\ waf[j] = j /\ engine[j].rules = InForceRules(j) /\ j # 0
  BY <1>1, <1>3, <1>4, InLoopFacts, Handles DEF WafInv
<1>6. InForceRules(j) = InForceRules(i)
  BY <1>4 DEF RulesEqual, InForceRules
<1>7. /\ waf' \in [Conf -> {0} \cup LocConf] /\ waf'[i] = j
      /\ \A s \in LocConf \ {i} : waf'[s] = waf[s]
  BY <1>2, <1>3, <1>4, <1>5, Handles DEF WafInv
<1>8. waf_owner' = waf_owner
  <2>1. waf_owner \in [Conf -> BOOLEAN] /\ ~waf_owner[i] /\ i \in Conf
    BY <1>1, <1>3, InLoopFacts DEF TypeOK
  <2> QED
    BY <2>1, <1>1
<1>9. TypeOK'
  BY <1>1, <1>7, <1>8, InLoopFacts, Handles DEF TypeOK, config
<1>10. MergeInv'
  BY <1>1, InLoopFacts, ConfigKept
<1>11. \A s \in LocConf : InForceRules(s)' = InForceRules(s)
  BY <1>1 DEF InForceRules, config
<1>12. WafInv'
  <2>1. ASSUME NEW s \in LocConf, s \in Started'
        PROVE  IF waf'[s] = 0 THEN InForceRules(s)' = <<>>
               ELSE engine'[waf'[s]].made /\ engine'[waf'[s]].rules = InForceRules(s)'
    <3>1. CASE s = i
      BY <3>1, <1>1, <1>5, <1>6, <1>7, <1>11
    <3>2. CASE s # i
      <4>1. s \in Started /\ pc = "init"
        BY <2>1, <3>2, <1>1, InLoopFacts
      <4>2. IF waf[s] = 0 THEN InForceRules(s) = <<>>
            ELSE engine[waf[s]].made /\ engine[waf[s]].rules = InForceRules(s)
        BY <4>1, <1>3 DEF WafInv
      <4> QED
        BY <4>2, <3>2, <1>1, <1>7, <1>11
    <3> QED
      BY <3>1, <3>2
  <2>2. ASSUME NEW s \in LocConf
        PROVE  /\ engine'[s].frees = IF s \in Gone' /\ engine'[s].made THEN 1 ELSE 0
               /\ engine'[s].made => s \in Started' /\ engine'[s].rules = InForceRules(s)'
               /\ waf_owner'[s] <=> engine'[s].made
               /\ engine'[s].made => waf'[s] = s
               /\ s \notin Started' => waf'[s] = 0
    BY <1>1, <1>3, <1>7, <1>8, <1>11, InLoopFacts DEF WafInv
  <2>3. /\ engine'[1].frees = 0 /\ main' = 1 /\ engine'[1].made /\ engine'[1].rules = <<>>
        /\ Deduped'
    BY <1>1, <1>3, InLoopFacts DEF WafInv, Deduped
  <2> QED
    BY <1>1, <1>7, <2>1, <2>2, <2>3, InLoopFacts DEF WafInv
<1> QED
  BY <1>9, <1>10, <1>12 DEF IInv

\* A context with rules of its own, or the first with these rules, builds a WAF
\* and owns it.
LEMMA InitBuildsStep == ASSUME IInv, InitBuilds PROVE IInv'
<1>1. /\ InLoop("init") /\ Donors(i) = {}
      /\ UNCHANGED <<config, main>>
      /\ engine' = [engine EXCEPT ![i] = [@ EXCEPT !.made = TRUE, !.rules = array[rules[i]]]]
      /\ waf' = [waf EXCEPT ![i] = i]
      /\ waf_owner' = [waf_owner EXCEPT ![i] = TRUE]
  BY DEF InitBuilds, Build
<1>2. TypeOK /\ MergeInv /\ WafInv /\ i \in LocConf /\ i \in Conf
  BY <1>1, InLoopFacts, Handles
<1>3. InForceRules(i) \in Seq(Entry)
  BY <1>2 DEF TypeOK, InForceRules
<1>4. /\ engine' \in [Conf -> [made : BOOLEAN, rules : Seq(Entry), frees : Nat]]
      /\ engine'[i].made /\ engine'[i].rules = InForceRules(i)
      /\ engine'[i].frees = engine[i].frees
      /\ \A s \in Conf \ {i} : engine'[s] = engine[s]
  BY <1>1, <1>2, <1>3 DEF TypeOK, InForceRules
<1>5. /\ waf' \in [Conf -> {0} \cup LocConf] /\ waf'[i] = i
      /\ \A s \in Conf \ {i} : waf'[s] = waf[s]
  BY <1>1, <1>2 DEF WafInv
<1>6. /\ waf_owner' \in [Conf -> BOOLEAN] /\ waf_owner'[i]
      /\ \A s \in Conf \ {i} : waf_owner'[s] = waf_owner[s]
  BY <1>1, <1>2 DEF TypeOK
<1>7. TypeOK'
  BY <1>1, <1>4, <1>5, <1>6, InLoopFacts, Handles DEF TypeOK, config
<1>8. MergeInv'
  BY <1>1, InLoopFacts, ConfigKept
<1>9. \A s \in LocConf : InForceRules(s)' = InForceRules(s)
  BY <1>1 DEF InForceRules, config
<1>10. ASSUME NEW g \in LocConf, g # i, engine[g].made
       PROVE  engine[g].rules # InForceRules(i)
  <2>1. waf_owner[g] /\ waf[g] = g /\ g \in Started /\ engine[g].rules = InForceRules(g)
    BY <1>1, <1>2, <1>10, InLoopFacts DEF WafInv
  <2>2. g \in 2..(i - 1) /\ waf[g] # 0
    <3>1. g < i
      BY <1>1, <2>1, InLoopFacts
    <3> QED
      BY <3>1, <2>1, <1>2, Handles
  <2>3. ~RulesEqual(rules[g], rules[i])
    BY <1>1, <2>1, <2>2 DEF Donors
  <2> QED
    BY <2>1, <2>3 DEF RulesEqual, InForceRules
<1>11. Deduped'
  <2>1. SUFFICES ASSUME NEW g \in LocConf, NEW h \in LocConf, g # h,
                        engine'[g].made, engine'[h].made
                 PROVE  engine'[g].rules # engine'[h].rules
    BY DEF Deduped
  <2>2. CASE g = i
    BY <2>1, <2>2, <1>4, <1>10, Handles
  <2>3. CASE h = i
    BY <2>1, <2>3, <1>4, <1>10, Handles
  <2>4. CASE g # i /\ h # i
    <3>1. engine'[g] = engine[g] /\ engine'[h] = engine[h]
      BY <2>4, <1>4, Handles
    <3>2. Deduped
      BY <1>2 DEF WafInv
    <3> QED
      BY <3>1, <3>2, <2>1 DEF Deduped
  <2> QED
    BY <2>2, <2>3, <2>4
<1>12. WafInv'
  <2>1. ASSUME NEW s \in LocConf, s \in Started'
        PROVE  IF waf'[s] = 0 THEN InForceRules(s)' = <<>>
               ELSE engine'[waf'[s]].made /\ engine'[waf'[s]].rules = InForceRules(s)'
    <3>1. CASE s = i
      BY <3>1, <1>2, <1>4, <1>5, <1>9, Handles
    <3>2. CASE s # i
      <4>1. s \in Started /\ pc = "init" /\ waf'[s] = waf[s] /\ ~engine[i].made
            /\ waf[s] \in {0} \cup LocConf
        BY <2>1, <3>2, <1>1, <1>2, <1>5, InLoopFacts, Handles DEF WafInv
      <4>2. IF waf[s] = 0 THEN InForceRules(s) = <<>>
            ELSE engine[waf[s]].made /\ engine[waf[s]].rules = InForceRules(s)
        BY <4>1, <1>2 DEF WafInv
      <4> QED
        BY <4>1, <4>2, <1>4, <1>9, Handles
    <3> QED
      BY <3>1, <3>2
  <2>2. ASSUME NEW s \in LocConf
        PROVE  /\ engine'[s].frees = IF s \in Gone' /\ engine'[s].made THEN 1 ELSE 0
               /\ engine'[s].made => s \in Started' /\ engine'[s].rules = InForceRules(s)'
               /\ waf_owner'[s] <=> engine'[s].made
               /\ engine'[s].made => waf'[s] = s
               /\ s \notin Started' => waf'[s] = 0
    <3>1. CASE s = i
      BY <3>1, <1>1, <1>2, <1>4, <1>5, <1>6, <1>9, InLoopFacts DEF WafInv
    <3>2. CASE s # i
      BY <3>2, <1>1, <1>2, <1>4, <1>5, <1>6, <1>9, InLoopFacts, Handles DEF WafInv
    <3> QED
      BY <3>1, <3>2
  <2>3. engine'[1].frees = 0 /\ main' = 1 /\ engine'[1].made /\ engine'[1].rules = <<>>
    BY <1>1, <1>2, <1>4, InLoopFacts, Handles DEF WafInv
  <2> QED
    BY <1>1, <1>5, <1>11, <2>1, <2>2, <2>3, InLoopFacts DEF WafInv
<1> QED
  BY <1>7, <1>8, <1>12 DEF IInv

\* The worker does not start, starts to serve or begins to exit.
LEMMA MoveWorkerStep == ASSUME IInv, InitFails \/ InitDone \/ ExitProcess PROVE IInv'
<1>1. TypeOK /\ MergeInv /\ WafInv
  BY DEF IInv
<1>2. /\ UNCHANGED <<config, main, waf, waf_owner, engine>>
      /\ pc \in {"fork", "init", "serve"}
      /\ pc' \in {"failed", "serve", "exit"}
      /\ i' = i \/ i' = 2
      /\ pc' # "failed" => pc \in {"init", "serve"}
  BY DEF InitFails, InitDone, ExitProcess
<1>3. TypeOK'
  BY <1>1, <1>2, WafAssumption DEF TypeOK, config
<1>4. MergeInv'
  BY <1>1, <1>2, ConfigKept
<1>5. Started' = LocConf /\ Gone = {} /\ Gone' = {}
  <2>1. Started' = LocConf /\ Gone = {}
    BY <1>2 DEF Started, Gone
  <2>2. pc' = "exit" => i' = 2
    BY DEF InitFails, InitDone, ExitProcess
  <2> QED
    BY <1>2, <2>1, <2>2, Handles DEF Gone
<1>6. pc' # "failed" => Started = LocConf
  <2>1. CASE InitFails
    BY <2>1 DEF InitFails
  <2>2. CASE ExitProcess
    BY <2>2 DEF ExitProcess, Started
  <2>3. CASE InitDone
    <3>1. pc = "init" /\ i \notin LocConf /\ i \in 2..(NumConf + 1)
      BY <2>3, <1>1 DEF InitDone, TypeOK
    <3> QED
      BY <3>1, WafAssumption DEF Started, LocConf
  <2> QED
    BY <2>1, <2>2, <2>3
<1>7. \A s \in LocConf : InForceRules(s)' = InForceRules(s)
  BY <1>2 DEF InForceRules, config
<1>8. Started \subseteq LocConf
  BY DEF Started
<1>9. WafInv'
  BY <1>1, <1>2, <1>5, <1>6, <1>7, <1>8 DEF WafInv, Deduped
<1> QED
  BY <1>3, <1>4, <1>9 DEF IInv

\* What libcoraza knows of a WAF.
Waf == [made : BOOLEAN, rules : Seq(Entry), frees : Nat]

\* The WAFs of f after coraza_free_waf() on h.
Freed(f, h) == [f EXCEPT ![h].frees = @ + 1]

\* coraza_free_waf() counts on the WAF it is given and on no other.
LEMMA FreeFacts ==
  ASSUME NEW f \in [Conf -> Waf], NEW h \in Conf, NEW g,
         g = Freed(f, h)
  PROVE  /\ g \in [Conf -> Waf]
         /\ \A s \in Conf : (g[s].made <=> f[s].made) /\ g[s].rules = f[s].rules
         /\ \A s \in Conf \ {h} : g[s] = f[s]
         /\ g[h].frees = f[h].frees + 1
<1>1. f[h] \in Waf
  OBVIOUS
<1>2. g[h] = [f[h] EXCEPT !.frees = @ + 1]
  BY DEF Freed
<1>3. g[h] = [made |-> f[h].made, rules |-> f[h].rules, frees |-> f[h].frees + 1]
  BY <1>1, <1>2 DEF Waf
<1>4. g[h] \in Waf
  BY <1>1, <1>3 DEF Waf
<1>5. g[h].made <=> f[h].made
  BY <1>3
<1>6. g[h].rules = f[h].rules /\ g[h].frees = f[h].frees + 1
  BY <1>3
<1>7. \A s \in Conf \ {h} : g[s] = f[s]
  BY DEF Freed
<1>8. g \in [Conf -> Waf]
  BY <1>4, <1>7 DEF Freed
<1> QED
  BY <1>5, <1>6, <1>7, <1>8

\* The loop of exit_process() frees the WAFs their owners hold.
LEMMA ExitLocConfStep == ASSUME IInv, ExitLocConf PROVE IInv'
<1>1. /\ pc = "exit" /\ pc' = "exit" /\ i \in LocConf /\ i' = i + 1
      /\ engine' = IF Frees THEN [engine EXCEPT ![waf[i]].frees = @ + 1] ELSE engine
      /\ UNCHANGED <<config, main, waf, waf_owner>>
  BY DEF ExitLocConf, InLoop
<1>2. TypeOK /\ MergeInv /\ WafInv /\ i \in Conf
  BY <1>1, Handles DEF IInv
<1>3. /\ Started = LocConf /\ Started' = LocConf
      /\ Gone' = Gone \cup {i} /\ i \notin Gone
  BY <1>1, WafAssumption DEF Started, Gone, LocConf
<1>4. Frees <=> engine[i].made
  BY <1>1, <1>2, Handles DEF Frees, WafInv
<1>5. engine[i].made => waf[i] = i /\ engine[i].frees = 0
  BY <1>1, <1>2, <1>3 DEF WafInv
<1>6. /\ engine' \in [Conf -> [made : BOOLEAN, rules : Seq(Entry), frees : Nat]]
      /\ \A s \in Conf : (engine'[s].made <=> engine[s].made) /\ engine'[s].rules = engine[s].rules
      /\ \A s \in Conf \ {i} : engine'[s].frees = engine[s].frees
      /\ engine[i].made => engine'[i].frees = 1
      /\ ~engine[i].made => engine'[i].frees = engine[i].frees
  <2>1. CASE engine[i].made
    <3>1. engine' = Freed(engine, i)
      BY <1>1, <1>4, <1>5, <2>1 DEF Freed
    <3>2. engine \in [Conf -> Waf]
      BY <1>2 DEF TypeOK, Waf
    <3>3. /\ engine' \in [Conf -> Waf]
          /\ \A s \in Conf : (engine'[s].made <=> engine[s].made) /\ engine'[s].rules = engine[s].rules
          /\ \A s \in Conf \ {i} : engine'[s] = engine[s]
          /\ engine'[i].frees = engine[i].frees + 1
      BY <3>1, <3>2, <1>2, FreeFacts
    <3> QED
      BY <3>3, <2>1, <1>5 DEF Waf
  <2>2. CASE ~engine[i].made
    BY <1>1, <1>2, <1>4, <2>2 DEF TypeOK
  <2> QED
    BY <2>1, <2>2
<1>7. i' \in 2..(NumConf + 1)
  BY <1>1, WafAssumption DEF LocConf
<1>8. TypeOK'
  BY <1>1, <1>2, <1>6, <1>7 DEF TypeOK, config
<1>9. MergeInv'
  BY <1>1, <1>2, ConfigKept
<1>10. \A s \in LocConf : InForceRules(s)' = InForceRules(s)
  BY <1>1 DEF InForceRules, config
<1>11. WafInv'
  <2>1. ASSUME NEW s \in LocConf
        PROVE  engine'[s].frees = IF s \in Gone' /\ engine'[s].made THEN 1 ELSE 0
    <3>1. engine[s].frees = IF s \in Gone /\ engine[s].made THEN 1 ELSE 0
      BY <1>2 DEF WafInv
    <3>2. CASE s = i
      BY <3>1, <3>2, <1>3, <1>6, Handles
    <3>3. CASE s # i
      BY <3>1, <3>3, <1>3, <1>6, Handles
    <3> QED
      BY <3>2, <3>3
  <2>2. ASSUME NEW s \in LocConf
        PROVE  /\ engine'[s].made => s \in Started' /\ engine'[s].rules = InForceRules(s)'
               /\ waf_owner'[s] <=> engine'[s].made
               /\ engine'[s].made => waf'[s] = s
               /\ s \notin Started' => waf'[s] = 0
    BY <1>1, <1>2, <1>3, <1>6, <1>10, Handles DEF WafInv
  <2>3. ASSUME NEW s \in LocConf
        PROVE  IF waf'[s] = 0 THEN InForceRules(s)' = <<>>
               ELSE engine'[waf'[s]].made /\ engine'[waf'[s]].rules = InForceRules(s)'
    <3>1. IF waf[s] = 0 THEN InForceRules(s) = <<>>
          ELSE engine[waf[s]].made /\ engine[waf[s]].rules = InForceRules(s)
      BY <1>1, <1>2, <1>3 DEF WafInv
    <3>2. waf[s] \in {0} \cup LocConf
      BY <1>2, Handles DEF WafInv
    <3> QED
      BY <3>1, <3>2, <1>1, <1>6, <1>10, Handles
  <2>4. engine'[1].frees = 0 /\ main' = 1 /\ engine'[1].made /\ engine'[1].rules = <<>>
    BY <1>1, <1>2, <1>6, Handles DEF WafInv
  <2>5. Deduped'
    <3>1. Deduped
      BY <1>2 DEF WafInv
    <3> QED
      BY <3>1, <1>6, Handles DEF Deduped
  <2> QED
    BY <1>1, <1>2, <2>1, <2>2, <2>3, <2>4, <2>5 DEF WafInv
<1> QED
  BY <1>8, <1>9, <1>11 DEF IInv

\* The handles are forgotten and the main WAF is freed.
LEMMA ExitMainStep == ASSUME IInv, ExitMain PROVE IInv'
<1>1. /\ pc = "exit" /\ pc' = "exited" /\ i \notin LocConf
      /\ waf' = [s \in Conf |-> IF s \in LocConf THEN 0 ELSE waf[s]]
      /\ waf_owner' = [s \in Conf |-> IF s \in LocConf THEN FALSE ELSE waf_owner[s]]
      /\ engine' = IF main # 0 THEN [engine EXCEPT ![main].frees = @ + 1] ELSE engine
      /\ main' = 0
      /\ UNCHANGED <<config, i>>
  BY DEF ExitMain
<1>2. TypeOK /\ MergeInv /\ WafInv /\ main = 1
  BY <1>1 DEF IInv, WafInv
<1>3. engine' = Freed(engine, 1)
  BY <1>1, <1>2 DEF Freed
<1>4. engine[1].frees = 0 /\ engine[1].made
  BY <1>1, <1>2 DEF WafInv
<1>5. /\ engine' \in [Conf -> [made : BOOLEAN, rules : Seq(Entry), frees : Nat]]
      /\ \A s \in LocConf : engine'[s] = engine[s]
      /\ engine'[1].frees = 1 /\ engine'[1].made
  <2>1. engine \in [Conf -> Waf] /\ 1 \in Conf
    BY <1>2, Handles DEF TypeOK, Waf
  <2>2. /\ engine' \in [Conf -> Waf]
        /\ \A s \in Conf : (engine'[s].made <=> engine[s].made) /\ engine'[s].rules = engine[s].rules
        /\ \A s \in Conf \ {1} : engine'[s] = engine[s]
        /\ engine'[1].frees = engine[1].frees + 1
    BY <1>3, <2>1, FreeFacts
  <2>3. \A s \in LocConf : s \in Conf \ {1}
    BY WafAssumption DEF Conf, LocConf
  <2> QED
    BY <2>1, <2>2, <2>3, <1>4 DEF Waf
<1>6. waf' \in [Conf -> {0} \cup LocConf]
  BY <1>1, <1>2 DEF WafInv
<1>7. waf_owner' \in [Conf -> BOOLEAN]
  <2>1. \A s \in Conf : waf_owner[s] \in BOOLEAN
    BY <1>2 DEF TypeOK
  <2> QED
    BY <1>1, <2>1
<1>8. TypeOK'
  BY <1>1, <1>2, <1>5, <1>6, <1>7, Handles DEF TypeOK, config
<1>9. MergeInv'
  BY <1>1, <1>2, ConfigKept
<1>10. Started' = LocConf /\ Gone' = LocConf /\ Gone = LocConf
  <2>1. i \in 2..(NumConf + 1)
    BY <1>2 DEF TypeOK
  <2>2. \A s \in LocConf : s < i
    BY <2>1, <1>1, WafAssumption DEF LocConf
  <2> QED
    BY <1>1, <2>2 DEF Started, Gone
<1>11. \A s \in LocConf : InForceRules(s)' = InForceRules(s)
  BY <1>1 DEF InForceRules, config
<1>12. WafInv'
  BY <1>1, <1>2, <1>5, <1>6, <1>10, <1>11 DEF WafInv, Deduped
<1> QED
  BY <1>8, <1>9, <1>12 DEF IInv

-----------------------------------------------------------------------------
(* Theorems *)

\* Every step keeps the inductive invariant.
LEMMA NextIInv == IInv /\ [Next]_vars => IInv'
<1> SUFFICES ASSUME IInv, [Next]_vars PROVE IInv'
  OBVIOUS
<1>1. CASE SetRules
  BY <1>1, SetRulesStep
<1>2. CASE Refused \/ Parsed \/ ValidateRules
  BY <1>2, MoveConfigStep
<1>3. CASE MergeConf
  BY <1>3, MergeConfStep
<1>4. CASE InitMain
  BY <1>4, InitMainStep
<1>5. CASE InitSkips
  BY <1>5, InitSkipsStep
<1>6. CASE InitBorrows
  BY <1>6, InitBorrowsStep
<1>7. CASE InitBuilds
  BY <1>7, InitBuildsStep
<1>8. CASE InitFails \/ InitDone \/ ExitProcess
  BY <1>8, MoveWorkerStep
<1>9. CASE ExitLocConf
  BY <1>9, ExitLocConfStep
<1>10. CASE ExitMain
  BY <1>10, ExitMainStep
<1>11. CASE UNCHANGED vars
  <2>1. UNCHANGED <<parent, pc, i, enable, has_rules, rules, array, count, main, waf,
                    waf_owner, engine>>
    BY <1>11 DEF vars
  <2>2. TypeOK'
    BY <2>1 DEF IInv, TypeOK
  <2>3. MergeInv'
    BY <2>1 DEF IInv, MergeInv, Merged, InForceRules
  <2>4. Started' = Started /\ Gone' = Gone /\ (\A s : InForceRules(s)' = InForceRules(s))
    BY <2>1 DEF Started, Gone, InForceRules
  <2>5. Deduped' <=> Deduped
    BY <2>1 DEF Deduped
  <2>6. WafInv'
    BY <2>1, <2>4, <2>5 DEF IInv, WafInv
  <2> QED
    BY <2>2, <2>3, <2>6 DEF IInv
<1> QED
  BY <1>1, <1>2, <1>3, <1>4, <1>5, <1>6, <1>7, <1>8, <1>9, <1>10, <1>11 DEF Next

\* The invariant holds throughout.
LEMMA Inductive == Spec => []IInv
  BY InitIInv, NextIInv, PTL DEF Spec

\* Configuration and worker are type correct, and for whatever tree of contexts
\* and directives has_rules tells if the array of a context holds any rules.
THEOREM WafTypeCorrect == Spec => []TypeOK
<1>1. IInv => TypeOK
  BY DEF IInv
<1> QED
  BY <1>1, Inductive, PTL

\* exit_process() frees every WAF init_process() built exactly once, however
\* they are shared among the locations.
THEOREM FreedOnceCorrect == Spec => []FreedOnce
<1>1. IInv => FreedOnce
  <2> SUFFICES ASSUME IInv, NEW h \in Conf
               PROVE  /\ engine[h].frees <= 1
                      /\ engine[h].frees = 1 => engine[h].made
                      /\ pc = "exited" /\ engine[h].made => engine[h].frees = 1
    BY DEF FreedOnce
  <2>1. CASE h = 1
    BY <2>1 DEF IInv, WafInv
  <2>2. CASE h # 1
    <3>1. h \in LocConf
      BY <2>2, WafAssumption DEF Conf, LocConf
    <3>2. engine[h].frees = IF h \in Gone /\ engine[h].made THEN 1 ELSE 0
      BY <3>1 DEF IInv, WafInv
    <3>3. pc = "exited" => h \in Gone
      BY <3>1 DEF Gone
    <3> QED
      BY <3>2, <3>3
  <2> QED
    BY <2>1, <2>2
<1> QED
  BY <1>1, Inductive, PTL

\* In a worker that serves, the WAF ngx_http_coraza_create_ctx() picks for a
\* location is live and holds the rules of the enclosing context followed by
\* the location's own.
THEOREM RulesInForceCorrect == Spec => []RulesInForce
<1>1. IInv => RulesInForce
  <2> SUFFICES ASSUME IInv, pc = "serve", NEW s \in LocConf
               PROVE  /\ Effective(s) # 0 /\ engine[Effective(s)].made
                      /\ engine[Effective(s)].frees = 0
                      /\ InForce(s) = InForce(parent[s]) \o array[s]
    BY DEF RulesInForce
  <2>1. TypeOK /\ MergeInv /\ WafInv
    BY DEF IInv
  <2>2. Started = LocConf /\ Merged = LocConf /\ Gone = {}
    BY DEF Started, Merged, Gone
  <2>3. main = 1 /\ engine[1].made /\ engine[1].rules = <<>> /\ engine[1].frees = 0
    BY <2>1 DEF WafInv
  <2>4. ASSUME NEW q \in LocConf
        PROVE  /\ Effective(q) # 0 /\ engine[Effective(q)].made
               /\ engine[Effective(q)].frees = 0
               /\ engine[Effective(q)].rules = InForceRules(q)
    <3>1. IF waf[q] = 0 THEN InForceRules(q) = <<>>
          ELSE engine[waf[q]].made /\ engine[waf[q]].rules = InForceRules(q)
      BY <2>1, <2>2 DEF WafInv
    <3>2. waf[q] \in {0} \cup LocConf
      BY <2>1, Handles DEF WafInv
    <3>3. \A h \in LocConf : engine[h].frees = 0
      BY <2>1, <2>2 DEF WafInv
    <3>4. CASE waf[q] = 0
      BY <3>1, <3>4, <2>3 DEF Effective
    <3>5. CASE waf[q] # 0
      BY <3>1, <3>2, <3>3, <3>5 DEF Effective
    <3> QED
      BY <3>4, <3>5
  <2>5. \A q \in Conf : InForce(q) = InForceRules(q)
    <3>1. \A q \in Conf : q = 1 \/ q \in LocConf
      BY WafAssumption DEF Conf, LocConf
    <3>2. rules[1] = 1
      BY <2>1 DEF MergeInv
    <3> QED
      BY <3>1, <3>2, <2>4, Handles DEF InForce, InForceRules
  <2>6. s \in Conf /\ parent[s] \in Conf
    BY <2>1, Handles DEF TypeOK
  <2>7. InForceRules(s) = InForceRules(parent[s]) \o array[s]
    BY <2>1, <2>2 DEF MergeInv
  <2> QED
    BY <2>4, <2>5, <2>6, <2>7
<1> QED
  BY <1>1, Inductive, PTL

\* init_process() never compiles a ruleset it has compiled for a location
\* already.
THEOREM DedupedCorrect == Spec => []Deduped
<1>1. IInv => Deduped
  BY DEF IInv, WafInv
<1> QED
  BY <1>1, Inductive, PTL
=============================================================================
