--------------------------- MODULE MCPushConsumer ---------------------------
(***************************************************************************)
(* Small instance of PushConsumer for TLC: a push to an iOS user, one to   *)
(* an Android user whose content is no text, one nobody can parse and one  *)
(* to a user without a device.                                             *)
(***************************************************************************)
EXTENDS PushConsumer, TLC

CONSTANTS m1, m2, m3, m4

MCShape == (m1 :> "valid") @@ (m2 :> "contentNotText") @@ (m3 :> "malformed")
           @@ (m4 :> "valid")
MCReceiver == (m1 :> 2002) @@ (m2 :> 3003) @@ (m3 :> 2002) @@ (m4 :> 4004)

=============================================================================
