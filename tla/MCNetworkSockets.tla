-------------------------- MODULE MCNetworkSockets --------------------------
(***************************************************************************)
(* An instance of NetworkSockets for TLC: two HAProxy workers and another  *)
(* process, a listener and a connection over IPv4, a connection over IPv6. *)
(***************************************************************************)
EXTENDS NetworkSockets

\* 2001:db8::10:ff01, whose words have four different bytes.
Six == [i \in 1 .. 16 |-> CASE i = 1 -> 32 [] i = 2 -> 1 [] i = 3 -> 13 [] i = 4 -> 184
                            [] i = 14 -> 16 [] i = 15 -> 255 [] i = 16 -> 1 [] OTHER -> 0]
Loopback == [i \in 1 .. 16 |-> IF i = 16 THEN 1 ELSE 0]

LocalOf == [c \in Conns |-> IF c = "v6" THEN Six ELSE <<127, 0, 0, 1>>]
RemoteOf == [c \in Conns |-> IF c = "v6" THEN Loopback ELSE <<10, 1, 2, 200>>]
=============================================================================
