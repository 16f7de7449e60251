---- MODULE MCPlayback ----
EXTENDS Playback, TLC
CONSTANTS d1, c1, c2, flash, p1, p2
==============================
