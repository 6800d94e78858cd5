--------------------------- MODULE MC_ReserveLaunch ---------------------------
(* ReserveLaunch on small instances: one wallet, a basket of one or two assets. *)
EXTENDS ReserveLaunch
=============================================================================
