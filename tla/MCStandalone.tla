----------------------------- MODULE MCStandalone -----------------------------
EXTENDS Standalone
TwoConfigs == {{2}, {1, 2}}
=============================================================================
