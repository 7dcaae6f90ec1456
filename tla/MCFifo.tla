------------------------------- MODULE MCFifo -------------------------------
(* TLC instances of CFifo: two producers and a consumer, or a producer and   *)
(* two consumers.                                                            *)
EXTENDS CFifo, TLC

CONSTANTS p1, p2, c1, c2

OneConsumerOrTwo == {p1, p2, c1} :> 3 @@ {p1, c1, c2} :> 2
TwoConsumers == {p1, c1, c2} :> 3
=============================================================================
