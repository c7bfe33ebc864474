---------------------------- MODULE MCWifiWatchdog ----------------------------
(* WifiWatchdog with three access points of ours and a neighbour's. *)
EXTENDS WifiWatchdog, TLC

Strengths == ("hall" :> 3) @@ ("attic" :> 2) @@ ("shed" :> 1) @@ ("neighbour" :> 4)
=============================================================================
