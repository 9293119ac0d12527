--------------------------- MODULE MCRpcFailover ---------------------------
(***************************************************************************)
(* RpcFailover with up to three endpoints.                                 *)
(***************************************************************************)
EXTENDS RpcFailover

CONSTANTS u1, u2, u3

MCStarts == {<<u1>>, <<u1, u2>>, <<u1, u2, u3>>}
=============================================================================
