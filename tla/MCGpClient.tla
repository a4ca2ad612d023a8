----------------------------- MODULE MCGpClient -----------------------------
(* Model checking GpClient: sockets and None are model values. *)
EXTENDS GpClient
=============================================================================
