--------------------------- MODULE MCTaskRuntime ---------------------------
EXTENDS TaskRuntime
=============================================================================
