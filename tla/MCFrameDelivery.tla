--------------------------- MODULE MCFrameDelivery ---------------------------
EXTENDS FrameDeliveryInvariants

CONSTANTS LateFrames, TimedFrameNumbers

TwoLayers == [k \in Tokens |-> IF k = OtherToken THEN "other" ELSE "app"]

LateBuffers == ({"app"} \X LateFrames)
    \cup (IF OtherToken \in Tokens THEN {<<"other", 1>>} ELSE {})

TimedBuffers == {"app"} \X TimedFrameNumbers
=============================================================================
