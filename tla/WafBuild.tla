------------------------------- MODULE WafBuild -------------------------------
(***************************************************************************)
(* One WAF of a worker, call by call: libcoraza is opened and its symbols  *)
(* are resolved, then build_waf() makes a configuration handle, adds the   *)
(* entries of a rules array to it and has the engine compile them.  Every  *)
(* call into the library goes through a pointer the loader resolved, and   *)
(* every call may fail.  WorkerWafs has this whole sequence as one step.   *)
(***************************************************************************)
EXTENDS Integers, Sequences, FiniteSets, SequencesExt

CONSTANTS
  Entry,        \* [type, value] of a rules array
  MaxEntries,   \* bound on the array
  Symbol        \* the entry points, in the order they are resolved

\* The entry points build_waf() calls.
Calls == {"new_waf_config", "rules_add", "rules_add_file", "free_waf_config",
          "new_waf", "free_string"}

\* dl_open() resolves each of them, among others.
ASSUME BuildAssumption ==
  MaxEntries \in Nat /\ Symbol \in Seq(STRING) /\ Calls \subseteq Range(Symbol)

VARIABLES
  library,      \* what is installed: the symbols it exports, and if it is >= 1.7
  rules,        \* the array to compile; empty for the main WAF
  pc,
  dl_handle,    \* the library is open
  dl,           \* the pointers that are resolved
  k, i,         \* the symbol, and the entry, the loops are at
  config,       \* coraza_waf_config_t: its rules, and how often it was freed
  cstr, error,  \* the strings build_waf() has to free: how many were made and freed
  waf           \* coraza_waf_t: if there is one, and its rules

vars == <<library, rules, pc, dl_handle, dl, k, i, config, cstr, error, waf>>
loader == <<library, dl_handle, dl, k>>

NoWaf == [made |-> FALSE, rules |-> <<>>]
NoString == [allocs |-> 0, frees |-> 0]

Init ==
  /\ library \in [exports : {Range(Symbol)} \cup {Range(Symbol) \ {s} : s \in Range(Symbol)},
                  current : BOOLEAN]
  /\ rules \in SeqOf(Entry, MaxEntries)
  /\ pc = "open" /\ dl_handle = FALSE /\ dl = {} /\ k = 1 /\ i = 1
  /\ config = [made |-> FALSE, rules |-> <<>>, frees |-> 0]
  /\ cstr = NoString /\ error = NoString /\ waf = NoWaf

-----------------------------------------------------------------------------
\* dl_open().  dynlib_open() may fail.
Open ==
  /\ pc = "open"
  /\ \/ dl_handle' = TRUE /\ pc' = "resolve"
     \/ pc' = "failed" /\ UNCHANGED dl_handle
  /\ UNCHANGED <<library, rules, dl, k, i, config, cstr, error, waf>>

\* dl_open() gives up: the library is closed again.
CloseLibrary == dl_handle' = FALSE /\ pc' = "failed"

\* DL_SYM_OPT where DL_SYM is meant: the pointer stays NULL.
ResolveOpt ==
  /\ pc = "resolve" /\ k <= Len(Symbol)
  /\ dl' = dl \cup ({Symbol[k]} \cap library.exports)
  /\ k' = k + 1 /\ UNCHANGED <<pc, dl_handle>>
  /\ UNCHANGED <<library, rules, i, config, cstr, error, waf>>

\* DL_SYM: the next symbol, or the end of dl_open() if it is not exported.
Resolve ==
  /\ pc = "resolve" /\ k <= Len(Symbol)
  /\ IF Symbol[k] \in library.exports
       THEN dl' = dl \cup {Symbol[k]} /\ k' = k + 1 /\ UNCHANGED <<pc, dl_handle>>
       ELSE CloseLibrary /\ UNCHANGED <<dl, k>>
  /\ UNCHANGED <<library, rules, i, config, cstr, error, waf>>

\* The version gate.
Gate ==
  /\ pc = "resolve" /\ k > Len(Symbol)
  /\ IF library.current THEN pc' = "config" /\ UNCHANGED dl_handle ELSE CloseLibrary
  /\ UNCHANGED <<library, rules, dl, k, i, config, cstr, error, waf>>

-----------------------------------------------------------------------------
\* coraza_new_waf_config(): a handle, or 0 and nothing to free.
NewConfig ==
  /\ pc = "config"
  /\ \/ config' = [config EXCEPT !.made = TRUE] /\ pc' = "entry"
     \/ pc' = "null" /\ UNCHANGED config
  /\ UNCHANGED <<loader, rules, i, cstr, error, waf>>

FreedConfig == [config EXCEPT !.frees = @ + 1]

\* A string is allocated; a string is freed.
Made(str) == [str EXCEPT !.allocs = @ + 1]
Freed(str) == [str EXCEPT !.frees = @ + 1]

\* malloc() of the entry's C string; its failure frees the configuration.
CString ==
  /\ pc = "entry" /\ i <= Len(rules)
  /\ \/ cstr' = Made(cstr) /\ pc' = "add" /\ UNCHANGED config
     \/ config' = FreedConfig /\ pc' = "null" /\ UNCHANGED cstr
  /\ UNCHANGED <<loader, rules, i, error, waf>>

\* The failed call leaving its string behind.
KeepCString == cstr

FreeCString == Freed(cstr)

\* coraza_rules_add() or coraza_rules_add_file() takes the entry.
AddEntry ==
  /\ pc = "add"
  /\ config' = [config EXCEPT !.rules = Append(@, rules[i])]
  /\ cstr' = Freed(cstr) /\ i' = i + 1 /\ pc' = "entry"
  /\ UNCHANGED <<loader, rules, error, waf>>

AddFails ==
  /\ pc = "add"
  /\ cstr' = FreeCString /\ config' = FreedConfig /\ pc' = "null"
  /\ UNCHANGED <<loader, rules, i, error, waf>>

\* The configuration compiled as soon as there is something in it.
FirstEntryOnly == i > Len(rules) \/ i > 1

AllAdded == i > Len(rules)

\* coraza_new_waf() may leave a reason when it fails; the configuration is
\* freed either way.
NewWaf ==
  /\ pc = "entry" /\ AllAdded
  /\ config' = FreedConfig /\ pc' = "new"
  /\ \/ waf' = [made |-> TRUE, rules |-> config.rules] /\ UNCHANGED error
     \/ error' \in {error, Made(error)} /\ UNCHANGED waf
  /\ UNCHANGED <<loader, rules, i, cstr>>

\* coraza_free_string(), which takes NULL, before the function returns.
FreeError ==
  /\ pc = "new"
  /\ error' = IF error.allocs > 0 THEN Freed(error) ELSE error
  /\ pc' = IF waf.made THEN "built" ELSE "null"
  /\ UNCHANGED <<loader, rules, i, config, cstr, waf>>

Next ==
  \/ Open \/ Resolve \/ Gate
  \/ NewConfig \/ CString \/ AddEntry \/ AddFails \/ NewWaf \/ FreeError

Spec == Init /\ [][Next]_vars

-----------------------------------------------------------------------------
Returned == pc \in {"failed", "null", "built"}

\* Once dl_open() returned NGX_OK every entry point of its table is resolved, so
\* that neither the six wrappers build_waf() enters nor those a request enters
\* later call through NULL, and the library is open and not older than 1.7.
CallsResolved ==
  pc \in {"config", "entry", "add", "new", "null", "built"} =>
    dl_handle /\ library.current /\ (Calls \cup Range(Symbol)) \subseteq dl

\* Whichever call fails, the configuration handle, the C string of every entry
\* and the error string are each freed once, and a library that is not usable is
\* closed; no string is ever freed more often than it was made.
BuildLeavesNothing ==
  /\ cstr.frees <= cstr.allocs /\ error.frees <= error.allocs
  /\ Returned => /\ config.frees = IF config.made THEN 1 ELSE 0
                 /\ cstr.frees = cstr.allocs /\ error.frees = error.allocs
                 /\ dl_handle = (pc # "failed")

\* A WAF that build_waf() returns has all the entries of the array, in the
\* order of the directives: one that could not be added leaves no WAF.
WafHasRules ==
  /\ pc = "built" => waf.made
  /\ waf.made => waf.rules = rules
=============================================================================
