----------------------------- MODULE MCChatProxy -----------------------------
(* Small instances of ChatProxy for TLC.                                   *)
EXTENDS ChatProxy, TLC

\* Model values for the pools.
CONSTANTS p1, p2, p3

OneGroup  == p1 :> 100 @@ p2 :> 100
TwoGroups == p1 :> 200 @@ p2 :> 200 @@ p3 :> 100

=============================================================================
