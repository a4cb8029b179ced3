---------------------------- MODULE MCGauntletRun ----------------------------
EXTENDS GauntletRun

\* A tier of two lenses and a tier of one.
MCTiers == <<<<"confidentiality", "integrity">>, <<"distributed">>>>

\* One tier of one lens, for the runs about what lies after the tiers.
MCOneLens == <<<<"confidentiality">>>>

\* The run configs: every optional row and none; every one; none.
MCFullConfig == {[code_recon |-> TRUE, threat_model |-> TRUE, crown_jewels |-> TRUE]}
MCBareConfig == {[code_recon |-> FALSE, threat_model |-> FALSE, crown_jewels |-> FALSE]}
MCConfigs == MCFullConfig \cup MCBareConfig
=============================================================================
