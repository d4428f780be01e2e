------------------------------ MODULE MCSession ------------------------------
(* One session with small queues and a muxer that holds two packets; the    *)
(* caller feeds one frame more than the queues, the encoder, the buffers    *)
(* and a failed write can hold between them.                                *)
EXTENDS Session

MCPcmCap == 2
MCPktCap == 1
MCHoldCap == 2
MCMaxFrames == MCPcmCap + MCPktCap + MCHoldCap + 3
=============================================================================
