----------------------------- MODULE YtBridgeMC -----------------------------
(***************************************************************************)
(* Configurations for checking YtBridge: everything on; and another size    *)
(* and another method of frame generation with the upscaler off.            *)
(***************************************************************************)
EXTENDS YtBridge

MCConfigs == {[dlss |-> 1, vsr |-> 1, fg |-> 1],
              [dlss |-> 2, vsr |-> 0, fg |-> 2]}
=============================================================================
