------------------------------ MODULE MCDevRun ------------------------------
(* A small instance of DevRun: a channel of two events, which the changes    *)
(* during one build fill and overflow.                                       *)
EXTENDS DevRun
=============================================================================
