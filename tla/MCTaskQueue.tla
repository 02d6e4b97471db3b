----------------------------- MODULE MCTaskQueue -----------------------------
EXTENDS TaskQueue
==============================================================================
