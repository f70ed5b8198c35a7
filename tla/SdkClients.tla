----------------------------- MODULE SdkClients -----------------------------
(***************************************************************************)
(* The two client libraries side by side.  They share nothing, so a step   *)
(* is a step of one of them.                                               *)
(***************************************************************************)
EXTENDS SdkTs, SdkRust

sdkVars == <<tsVars, rsVars>>

SdkInit == TsInit /\ RsInit

SdkNext ==
    \/ TsNext /\ UNCHANGED rsVars
    \/ RsNext /\ UNCHANGED tsVars

SdkSpec == SdkInit /\ [][SdkNext]_sdkVars

\* What a client writes, it writes once and in the order it was asked to: see
\* TsSentInOrder and RsSentInOrder.
SdkSentInOrder == TsSentInOrder /\ RsSentInOrder
=============================================================================
