------------------------ MODULE TransactionReadiness ------------------------
(***************************************************************************)
(* Which transactions SurfaceFlinger may apply: its two filters             *)
(* transactionReadyTimelineCheck and transactionReadyBufferCheck            *)
(* (services/surfaceflinger/SurfaceFlinger.cpp), which it registers with    *)
(* the TransactionHandler.  They look at the layers, at acquire fences and  *)
(* at present times.                                                        *)
(***************************************************************************)
EXTENDS Lists

CONSTANTS Tokens,        \* the apply tokens
          None,          \* no token
          Layers,        \* the layers whose buffers the transactions set
          LayerOf,       \* the layer the transactions of a token are about
          BlastLayer,    \* the layer a BLASTBufferQueue feeds
          LateFences,    \* <<layer, frame>> whose acquire fence signals late
          TimedFrames    \* <<layer, frame>> with a desired present time

ASSUME TokensAssumption ==
    /\ IsFiniteSet(Tokens) /\ None \notin Tokens
    /\ LayerOf \in [Tokens -> Layers]

ASSUME LayersAssumption == BlastLayer \in Layers

VARIABLES layers,        \* what RequestedLayerState and Layer hold
          unsignaled,    \* the fences that have not signaled
          early          \* the frames whose present time is to come

\* In all filters s is the state of the flush, t the head of a queue.
Buffer(t) == <<LayerOf[t.token], t.frame>>

transactionReadyTimelineCheck(t) ==
    IF Buffer(t) \in early THEN "NotReady" ELSE "Ready"

WaitsForBarrier(s, t) ==
    LET l == LayerOf[t.token]
    IN /\ layers[l].barrierFrameNumber < t.barrier
       /\ s.bufferLayersReadyToPresent[l] < t.barrier

HasPendingBuffer(s, t) ==
    /\ LayerOf[t.token] = BlastLayer
    /\ s.bufferLayersReadyToPresent[BlastLayer] # 0
    /\ Buffer(t) \notin TimedFrames

\* shouldLatchUnsignaled and isSimpleBufferUpdate.  The transactions of a
\* BLASTBufferQueue set the auto-refresh flag, which is not simple.
AllowLatchUnsignaled(s, t, configEarly) ==
    LayerOf[t.token] # BlastLayer /\ s.firstTransaction /\ ~configEarly

transactionReadyBufferCheck(s, t, configEarly) ==
    IF WaitsForBarrier(s, t) THEN "NotReadyBarrier"
    ELSE IF HasPendingBuffer(s, t) THEN "NotReady"
    ELSE IF Buffer(t) \notin unsignaled THEN "Ready"
    ELSE IF AllowLatchUnsignaled(s, t, configEarly) THEN "NotReadyUnsignaled"
    ELSE "NotReady"

applyFilters(s, t, configEarly) ==
    IF transactionReadyTimelineCheck(t) # "Ready" THEN "NotReady"
    ELSE transactionReadyBufferCheck(s, t, configEarly)
=============================================================================
