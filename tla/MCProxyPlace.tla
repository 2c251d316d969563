---------------------------- MODULE MCProxyPlace ----------------------------
(***************************************************************************)
(* ProxyPlace for TLC: a direct connection and a pool of two exits; their  *)
(* zones, another name for the clock of one of them, and coordinates just  *)
(* within and just beyond reach of it.                                     *)
(***************************************************************************)
EXTENDS ProxyPlaceProperties, TLC

CONSTANTS pool, here, berlin, tokyo

MCExits == (None :> {here}) @@ (pool :> {berlin, tokyo})

MCZoneOf == (here :> "UTC") @@ (berlin :> "Europe/Berlin") @@ (tokyo :> "Asia/Tokyo")
MCKmOf == (here :> 0) @@ (berlin :> 300) @@ (tokyo :> 9000)
MCOffset == ("UTC" :> 0) @@ ("Europe/Berlin" :> 1) @@ ("Europe/Paris" :> 1) @@ ("Asia/Tokyo" :> 9)
=============================================================================
