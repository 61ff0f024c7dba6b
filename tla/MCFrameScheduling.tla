-------------------------- MODULE MCFrameScheduling --------------------------
EXTENDS FrameScheduling

AppTimings == {[workDuration |-> w, readyDuration |-> 1, earliestVsync |-> 0] : w \in {1, 2}}
=============================================================================
