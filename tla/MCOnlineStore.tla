----------------------------- MODULE MCOnlineStore -----------------------------
(* A small instance of OnlineStore: the resolutions scaled down so that     *)
(* each slides by the size of the one before, as 5 m, 1 h and 24 h do, and  *)
(* a late event re-opens up to two windows of the smallest.                 *)
EXTENDS OnlineStore, TLC

CONSTANTS m5, h1, h24

Resolutions == <<m5, h1, h24>>
ByValue     == <<h1, h24, m5>>
Slides      == m5 :> 1 @@ h1 :> 3 @@ h24 :> 6
Sizes       == m5 :> 3 @@ h1 :> 6 @@ h24 :> 12
=============================================================================
