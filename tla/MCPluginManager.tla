--------------------------- MODULE MCPluginManager --------------------------
EXTENDS PluginManager
CONSTANTS n1, v1, v2
=============================================================================
