--------------------------- MODULE MCGpRelayFlow ---------------------------
(* Model checking GpRelayFlow: one asset and two controllers, the second   *)
(* of which took the asset over from the first one while that still held   *)
(* its copy: the asset answers only one of them.                           *)
EXTENDS GpRelayFlow

CONSTANTS a1, c1, c2

MCPartner == [c \in Conn |-> IF c = a1 THEN c1 ELSE a1]

\* The asset answers PINGs besides.
MCMaxSends == [c \in Conn |-> 1]
=============================================================================
