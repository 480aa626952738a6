----------------------------- MODULE MCRpcChain -----------------------------
(* Chains with streams of one unit and uint32 of four values: the client   *)
(* is started with too long frames, no RPCs, and more than uint32 holds.   *)
EXTENDS RpcChain

MCNRPCs == {-1, 0, 1, 2, 4}
=============================================================================
