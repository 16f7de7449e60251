---- MODULE MCDisplayStatus ----
EXTENDS DisplayStatus, TLC
CONSTANTS d1
==============================
