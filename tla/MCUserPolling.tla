---------------------------- MODULE MCUserPolling ----------------------------
EXTENDS UserPolling

OneConversation == [m \in Msg |-> 1]

LoopRuns == stopped = None
===============================================================================
