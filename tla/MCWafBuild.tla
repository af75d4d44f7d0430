------------------------------ MODULE MCWafBuild ------------------------------
(* WafBuild for arrays of up to three entries; version_num stands for the    *)
(* symbols build_waf() does not call.                                        *)
EXTENDS WafBuild

MCSymbol == <<"new_waf_config", "rules_add", "rules_add_file", "free_waf_config",
              "new_waf", "free_string", "version_num">>
MCEntry == [type : {"inline", "file"}, value : {"v"}]
=============================================================================
