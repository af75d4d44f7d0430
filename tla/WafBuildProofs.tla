---------------------------- MODULE WafBuildProofs ----------------------------
(* For every array of rules and every list of symbols: what WafBuild's run     *)
(* checks.  The proof follows the function: what holds at each of its calls.   *)
EXTENDS WafBuild, TLAPS

Control == {"open", "resolve", "config", "entry", "add", "new",
            "failed", "null", "built"}

ConfigType == [made : BOOLEAN, rules : Seq(Entry), frees : Nat]
StringType == [allocs : Nat, frees : Nat]

TypeInv ==
  /\ pc \in Control
  /\ rules \in Seq(Entry)
  /\ k \in Nat \ {0} /\ i \in Nat \ {0}
  /\ dl_handle \in BOOLEAN
  /\ library \in [exports : SUBSET Range(Symbol), current : BOOLEAN]
  /\ config \in ConfigType
  /\ waf \in [made : BOOLEAN, rules : Seq(Entry)]
  /\ cstr \in StringType /\ error \in StringType

\* dl_open(): the symbols before the k-th are resolved.
LoaderInv ==
  /\ pc = "open" => ~dl_handle /\ k = 1
  /\ pc = "failed" => ~dl_handle
  /\ pc \in Control \ {"open", "failed"} =>
       dl_handle /\ \A j \in 1..(k - 1) : j <= Len(Symbol) => Symbol[j] \in dl
  /\ pc \in Control \ {"open", "failed", "resolve"} =>
       library.current /\ k > Len(Symbol)

\* build_waf(): the configuration has the entries before the i-th, and what is
\* allocated at each of its calls.
ConfigInv ==
  /\ i <= Len(rules) + 1
  /\ Len(config.rules) = i - 1
  /\ \A j \in 1..(i - 1) : config.rules[j] = rules[j]
OwnInv ==
  /\ cstr.allocs = cstr.frees + IF pc = "add" THEN 1 ELSE 0
  /\ pc \notin {"new", "null", "built"} => error.allocs = 0 /\ error.frees = 0
  /\ pc = "new" => error.allocs \in {0, 1} /\ error.frees = 0
  /\ error.allocs = error.frees \/ pc = "new"
  /\ pc = "add" => i <= Len(rules)
  /\ pc \in {"open", "resolve", "config", "failed"} => ~config.made
  /\ pc \in {"entry", "add", "new", "built"} => config.made
  /\ config.frees = IF config.made /\ pc \in {"new", "null", "built"} THEN 1 ELSE 0
  /\ waf.made => pc \in {"new", "built"} /\ waf.rules = rules
  /\ pc = "built" => waf.made

IInv == TypeInv /\ LoaderInv /\ ConfigInv /\ OwnInv

-----------------------------------------------------------------------------
\* Two sequences with the same elements are the same.
LEMMA SameSeq ==
  ASSUME NEW a \in Seq(Entry), NEW b \in Seq(Entry), Len(a) = Len(b),
         \A j \in 1..Len(a) : a[j] = b[j]
  PROVE  a = b
OBVIOUS

\* What the calls make of a configuration handle.
LEMMA ConfigTypes ==
  ASSUME NEW x \in ConfigType
  PROVE  /\ \A e \in Entry : [x EXCEPT !.rules = Append(@, e)] \in ConfigType
         /\ [x EXCEPT !.frees = @ + 1] \in ConfigType
         /\ [made |-> TRUE, rules |-> x.rules] \in [made : BOOLEAN, rules : Seq(Entry)]
<1>1. x.frees + 1 \in Nat /\ x.rules \in Seq(Entry)
  BY DEF ConfigType
<1>2. ASSUME NEW e \in Entry PROVE [x EXCEPT !.rules = Append(@, e)] \in ConfigType
  <2>1. Append(x.rules, e) \in Seq(Entry)
    BY <1>1
  <2> QED
    BY <2>1 DEF ConfigType
<1>3. [x EXCEPT !.frees = @ + 1] \in ConfigType
  BY <1>1 DEF ConfigType
<1>4. [made |-> TRUE, rules |-> x.rules] \in [made : BOOLEAN, rules : Seq(Entry)]
  BY <1>1
<1> QED
  BY <1>2, <1>3, <1>4

\* What the calls make of a string's counts.
LEMMA StringTypes ==
  ASSUME NEW x \in StringType
  PROVE  /\ Made(x) \in StringType /\ Freed(x) \in StringType
         /\ Made(x).allocs = x.allocs + 1 /\ Made(x).frees = x.frees
         /\ Freed(x).frees = x.frees + 1 /\ Freed(x).allocs = x.allocs
         /\ x.allocs \in Nat /\ x.frees \in Nat
BY DEF StringType, Made, Freed

LEMMA InitInv == Init => IInv
<1> SUFFICES ASSUME Init PROVE IInv
  OBVIOUS
<1>1. rules \in Seq(Entry)
  <2>1. PICK m \in 0..MaxEntries : rules \in [1..m -> Entry]
    BY BuildAssumption DEF Init, SeqOf
  <2> QED
    BY <2>1, BuildAssumption
<1>2. library \in [exports : SUBSET Range(Symbol), current : BOOLEAN]
  BY DEF Init
<1>0. <<>> \in Seq(Entry)
  OBVIOUS
<1>3. TypeInv
  <2>1. config \in ConfigType
    BY <1>0 DEF Init, ConfigType
  <2>2. waf \in [made : BOOLEAN, rules : Seq(Entry)]
    BY <1>0 DEF Init, NoWaf
  <2>3. dl_handle \in BOOLEAN
    BY DEF Init
  <2>4. pc \in Control /\ k \in Nat \ {0} /\ i \in Nat \ {0}
    BY DEF Init, Control
  <2>5. cstr \in StringType /\ error \in StringType
    BY DEF Init, NoString, StringType
  <2> QED
    BY <1>1, <1>2, <2>1, <2>2, <2>3, <2>4, <2>5 DEF TypeInv, ConfigType
<1>4. LoaderInv
  BY DEF Init, LoaderInv, Control
<1>5. ConfigInv
  BY <1>1 DEF Init, ConfigInv
<1>6. OwnInv
  BY DEF Init, OwnInv, NoWaf, NoString
<1> QED
  BY <1>3, <1>4, <1>5, <1>6 DEF IInv

-----------------------------------------------------------------------------
LEMMA OpenStep == IInv /\ Open => IInv'
<1> SUFFICES ASSUME IInv, Open PROVE IInv'
  OBVIOUS
<1> USE DEF IInv, Open
<1>1. TypeInv'
  BY DEF TypeInv, ConfigType, Control
<1>2. LoaderInv'
  BY DEF TypeInv, ConfigType, LoaderInv, Control
<1>3. ConfigInv'
  BY DEF ConfigInv
<1>4. OwnInv'
  BY DEF TypeInv, ConfigType, OwnInv
<1> QED
  BY <1>1, <1>2, <1>3, <1>4

LEMMA ResolveStep == IInv /\ Resolve => IInv'
<1> SUFFICES ASSUME IInv, Resolve PROVE IInv'
  OBVIOUS
<1> USE DEF IInv, Resolve, CloseLibrary
<1>0. k' \in Nat \ {0} /\ pc' \in Control
  BY DEF TypeInv, ConfigType, Control
<1>1. TypeInv'
  <2>1. dl_handle' \in BOOLEAN
    BY Zenon DEF TypeInv, ConfigType
  <2> QED
    BY <1>0, <2>1 DEF TypeInv, ConfigType
<1>2. LoaderInv'
  <2>1. CASE Symbol[k] \in library.exports
    <3>1. \A j \in 1..(k' - 1) : j <= Len(Symbol) => Symbol[j] \in dl'
      BY <2>1 DEF TypeInv, ConfigType, LoaderInv, Control
    <3> QED
      BY <2>1, <3>1 DEF LoaderInv, Control
  <2>2. CASE Symbol[k] \notin library.exports
    BY <2>2 DEF LoaderInv, Control
  <2> QED
    BY <2>1, <2>2
<1>3. ConfigInv'
  BY DEF ConfigInv
<1>4. OwnInv'
  BY DEF TypeInv, ConfigType, OwnInv
<1> QED
  BY <1>1, <1>2, <1>3, <1>4

LEMMA GateStep == IInv /\ Gate => IInv'
<1> SUFFICES ASSUME IInv, Gate PROVE IInv'
  OBVIOUS
<1> USE DEF IInv, Gate, CloseLibrary
<1>1. TypeInv'
  BY DEF TypeInv, ConfigType, Control
<1>2. LoaderInv'
  BY BuildAssumption DEF TypeInv, ConfigType, LoaderInv, Control
<1>3. ConfigInv'
  BY DEF ConfigInv
<1>4. OwnInv'
  BY DEF TypeInv, ConfigType, OwnInv
<1> QED
  BY <1>1, <1>2, <1>3, <1>4

LEMMA NewConfigStep == IInv /\ NewConfig => IInv'
<1> SUFFICES ASSUME IInv, NewConfig PROVE IInv'
  OBVIOUS
<1> USE DEF IInv, NewConfig, loader
<1>1. TypeInv'
  BY DEF TypeInv, ConfigType, Control
<1>2. LoaderInv'
  BY DEF TypeInv, ConfigType, LoaderInv, Control
<1>3. ConfigInv'
  BY DEF TypeInv, ConfigType, ConfigInv
<1>4. OwnInv'
  BY DEF TypeInv, ConfigType, OwnInv
<1> QED
  BY <1>1, <1>2, <1>3, <1>4

LEMMA CStringStep == IInv /\ CString => IInv'
<1> SUFFICES ASSUME IInv, CString PROVE IInv'
  OBVIOUS
<1> USE DEF IInv, CString, loader, FreedConfig
<1>8. /\ Made(cstr) \in StringType /\ Freed(cstr) \in StringType
      /\ Made(cstr).allocs = cstr.allocs + 1 /\ Made(cstr).frees = cstr.frees
      /\ Freed(cstr).frees = cstr.frees + 1 /\ Freed(cstr).allocs = cstr.allocs
      /\ cstr.allocs \in Nat /\ cstr.frees \in Nat
  BY StringTypes DEF TypeInv
<1>1. TypeInv'
  BY <1>8 DEF TypeInv, ConfigType, Control
<1>2. LoaderInv'
  BY DEF TypeInv, ConfigType, LoaderInv, Control
<1>3. ConfigInv'
  BY DEF TypeInv, ConfigType, ConfigInv
<1>4. OwnInv'
  BY <1>8 DEF TypeInv, ConfigType, OwnInv
<1> QED
  BY <1>1, <1>2, <1>3, <1>4

LEMMA AddEntryStep == IInv /\ AddEntry => IInv'
<1> SUFFICES ASSUME IInv, AddEntry PROVE IInv'
  OBVIOUS
<1> USE DEF IInv, AddEntry, loader
<1>8. /\ Made(cstr) \in StringType /\ Freed(cstr) \in StringType
      /\ Made(cstr).allocs = cstr.allocs + 1 /\ Made(cstr).frees = cstr.frees
      /\ Freed(cstr).frees = cstr.frees + 1 /\ Freed(cstr).allocs = cstr.allocs
      /\ cstr.allocs \in Nat /\ cstr.frees \in Nat
  BY StringTypes DEF TypeInv
<1>1. rules[i] \in Entry /\ i <= Len(rules)
  BY DEF TypeInv, ConfigType, OwnInv
<1>2. TypeInv'
  <2>1. config' \in ConfigType
    BY <1>1, ConfigTypes DEF TypeInv
  <2>2. i' \in Nat \ {0}
    BY DEF TypeInv, ConfigType
  <2> QED
    BY <1>8, <2>1, <2>2 DEF TypeInv, ConfigType, Control
<1>3. LoaderInv'
  BY DEF TypeInv, ConfigType, LoaderInv, Control
<1>4. ConfigInv'
  <2>1. config'.rules = Append(config.rules, rules[i]) /\ config.rules \in Seq(Entry)
    BY DEF TypeInv, ConfigType
  <2>2. Len(config'.rules) = i
    BY <2>1, <1>1 DEF TypeInv, ConfigType, ConfigInv
  <2>3. \A j \in 1..i : config'.rules[j] = rules[j]
    BY <2>1, <1>1, SMTT(30) DEF TypeInv, ConfigType, ConfigInv
  <2> QED
    BY <2>2, <2>3, <1>1, SMTT(30) DEF TypeInv, ConfigType, ConfigInv
<1>5. OwnInv'
  BY <1>8 DEF TypeInv, ConfigType, OwnInv
<1> QED
  BY <1>2, <1>3, <1>4, <1>5

LEMMA AddFailsStep == IInv /\ AddFails => IInv'
<1> SUFFICES ASSUME IInv, AddFails PROVE IInv'
  OBVIOUS
<1> USE DEF IInv, AddFails, loader, FreedConfig, FreeCString
<1>8. /\ Made(cstr) \in StringType /\ Freed(cstr) \in StringType
      /\ Made(cstr).allocs = cstr.allocs + 1 /\ Made(cstr).frees = cstr.frees
      /\ Freed(cstr).frees = cstr.frees + 1 /\ Freed(cstr).allocs = cstr.allocs
      /\ cstr.allocs \in Nat /\ cstr.frees \in Nat
  BY StringTypes DEF TypeInv
<1>0. config' \in ConfigType
  BY ConfigTypes DEF TypeInv
<1>1. TypeInv'
  BY <1>0, <1>8 DEF TypeInv, ConfigType, Control
<1>2. LoaderInv'
  BY DEF TypeInv, ConfigType, LoaderInv, Control
<1>3. ConfigInv'
  BY DEF TypeInv, ConfigType, ConfigInv
<1>4. OwnInv'
  BY <1>8 DEF TypeInv, ConfigType, OwnInv
<1> QED
  BY <1>1, <1>2, <1>3, <1>4

LEMMA NewWafStep == IInv /\ NewWaf => IInv'
<1> SUFFICES ASSUME IInv, NewWaf PROVE IInv'
  OBVIOUS
<1> USE DEF IInv, NewWaf, loader, FreedConfig, AllAdded
<1>8. /\ Made(error) \in StringType /\ Freed(error) \in StringType
      /\ Made(error).allocs = error.allocs + 1 /\ Made(error).frees = error.frees
      /\ Freed(error).frees = error.frees + 1 /\ Freed(error).allocs = error.allocs
      /\ error.allocs \in Nat /\ error.frees \in Nat
  BY StringTypes DEF TypeInv
<1>0. config' \in ConfigType
  BY ConfigTypes DEF TypeInv
<1>9. waf' \in [made : BOOLEAN, rules : Seq(Entry)]
  BY ConfigTypes DEF TypeInv
<1>1. TypeInv'
  BY <1>0, <1>9, <1>8 DEF TypeInv, ConfigType, Control
<1>2. LoaderInv'
  BY DEF TypeInv, ConfigType, LoaderInv, Control
<1>3. ConfigInv'
  BY DEF TypeInv, ConfigType, ConfigInv
<1>4. config.rules = rules
  <2>1. config.rules \in Seq(Entry) /\ rules \in Seq(Entry)
    BY DEF TypeInv, ConfigType
  <2>2. Len(config.rules) = Len(rules) /\ Len(rules) = i - 1
    BY DEF TypeInv, ConfigType, ConfigInv
  <2> QED
    BY <2>1, <2>2, SameSeq DEF ConfigInv
<1>5. OwnInv'
  BY <1>4, <1>8 DEF TypeInv, ConfigType, OwnInv
<1> QED
  BY <1>1, <1>2, <1>3, <1>5

LEMMA FreeErrorStep == IInv /\ FreeError => IInv'
<1> SUFFICES ASSUME IInv, FreeError PROVE IInv'
  OBVIOUS
<1> USE DEF IInv, FreeError, loader
<1>8. /\ Made(error) \in StringType /\ Freed(error) \in StringType
      /\ Made(error).allocs = error.allocs + 1 /\ Made(error).frees = error.frees
      /\ Freed(error).frees = error.frees + 1 /\ Freed(error).allocs = error.allocs
      /\ error.allocs \in Nat /\ error.frees \in Nat
  BY StringTypes DEF TypeInv
<1>1. TypeInv'
  BY <1>8 DEF TypeInv, ConfigType, Control
<1>2. LoaderInv'
  BY DEF TypeInv, ConfigType, LoaderInv, Control
<1>3. ConfigInv'
  BY DEF ConfigInv
<1>4. OwnInv'
  BY <1>8 DEF TypeInv, ConfigType, OwnInv
<1> QED
  BY <1>1, <1>2, <1>3, <1>4

\* The inductive invariant: where each call of dl_open() and build_waf() stands.
THEOREM BuildInvariant == Spec => []IInv
<1>1. Init => IInv
  BY InitInv
<1>2. IInv /\ [Next]_vars => IInv'
  <2> SUFFICES ASSUME IInv, [Next]_vars PROVE IInv'
    OBVIOUS
  <2>1. CASE UNCHANGED vars
    BY <2>1 DEF vars, IInv, TypeInv, LoaderInv, ConfigInv, OwnInv
  <2> QED
    BY <2>1, OpenStep, ResolveStep, GateStep, NewConfigStep, CStringStep,
       AddEntryStep, AddFailsStep, NewWafStep, FreeErrorStep DEF Next
<1> QED
  BY <1>1, <1>2, PTL DEF Spec

\* Whatever a library exports, build_waf() and whoever comes after it find every
\* pointer of dl_open()'s table resolved.
THEOREM CallsResolvedTheorem == Spec => []CallsResolved
<1>1. IInv => CallsResolved
  <2> SUFFICES ASSUME IInv, pc \in {"config", "entry", "add", "new", "null", "built"}
               PROVE  /\ dl_handle /\ library.current
                      /\ (Calls \cup Range(Symbol)) \subseteq dl
    BY DEF CallsResolved
  <2>1. dl_handle /\ library.current /\ k > Len(Symbol)
        /\ \A j \in 1..(k - 1) : j <= Len(Symbol) => Symbol[j] \in dl
    BY DEF IInv, LoaderInv, Control
  <2>2. \A j \in 1..Len(Symbol) : Symbol[j] \in dl
    BY <2>1, BuildAssumption DEF IInv, TypeInv
  <2>3. Range(Symbol) \subseteq dl
    BY <2>2, BuildAssumption DEF Range
  <2> QED
    BY <2>1, <2>3, BuildAssumption
<1> QED
  BY <1>1, BuildInvariant, PTL

\* Whichever call of build_waf() or dl_open() fails, the configuration handle and
\* every string it allocated are freed exactly once.
THEOREM BuildLeavesNothingTheorem == Spec => []BuildLeavesNothing
<1>1. IInv => BuildLeavesNothing
  <2> SUFFICES ASSUME IInv PROVE BuildLeavesNothing
    OBVIOUS
  <2>1. /\ cstr.allocs \in Nat /\ cstr.frees \in Nat
        /\ error.allocs \in Nat /\ error.frees \in Nat
    BY StringTypes DEF IInv, TypeInv
  <2>2. cstr.frees <= cstr.allocs /\ error.frees <= error.allocs
    BY <2>1 DEF IInv, OwnInv
  <2>3. ASSUME Returned
        PROVE  /\ config.frees = IF config.made THEN 1 ELSE 0
               /\ cstr.frees = cstr.allocs /\ error.frees = error.allocs
               /\ dl_handle = (pc # "failed")
    BY <2>1, <2>3 DEF IInv, TypeInv, LoaderInv, OwnInv, Returned, Control
  <2> QED
    BY <2>2, <2>3 DEF BuildLeavesNothing
<1> QED
  BY <1>1, BuildInvariant, PTL

\* A WAF has the rules of its array, all of them and in order, for arrays of any
\* length.
THEOREM WafHasRulesTheorem == Spec => []WafHasRules
<1>1. IInv => WafHasRules
  BY DEF IInv, OwnInv, WafHasRules
<1> QED
  BY <1>1, BuildInvariant, PTL
=============================================================================
