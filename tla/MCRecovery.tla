----------------------------- MODULE MCRecovery -----------------------------
EXTENDS Recovery

MCFileOrder == <<"blocks", "headers", "horizon", "meta">>
=============================================================================
