--------------------------- MODULE MCRequestPipeline ---------------------------
(* Instance of RequestPipeline: a call of any kind, and a search that        *)
(* competes with it for the thread.                                          *)
EXTENDS RequestPipeline, TLC

CONSTANTS c1, c2

AnyAndRead == (c1 :> Op) @@ (c2 :> {"read"})
===============================================================================
