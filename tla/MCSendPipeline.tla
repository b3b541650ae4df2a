--------------------------- MODULE MCSendPipeline ---------------------------
(***************************************************************************)
(* The instance of SendPipeline for TLC: a message to oneself, which is    *)
(* refused, followed by one to a group.                                    *)
(***************************************************************************)
EXTENDS SendPipeline

MCSession == <<1, 2>>
MCSender == <<1, 1>>
MCReceiver == <<1, 3>>

=============================================================================
