---------------------------- MODULE MCScriptHook ----------------------------
EXTENDS ScriptHook

\* A tuple of a single value, a vector of pairs and another single value.
MCKeys == <<"single", "vector", "single">>
=============================================================================
