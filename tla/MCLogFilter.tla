----------------------------- MODULE MCLogFilter -----------------------------
EXTENDS LogFilter

CONSTANTS a1, a2, t1, t2, W

\* SetLatestBlock(-1): up to the current block.
LatestHead == -1
=============================================================================
