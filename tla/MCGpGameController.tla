------------------------ MODULE MCGpGameController ------------------------
(* Model checking GpGameController: two axes of eight values. *)
EXTENDS GpGameController
=============================================================================
