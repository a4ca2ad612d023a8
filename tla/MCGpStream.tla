----------------------------- MODULE MCGpStream -----------------------------
(* Model checking GpStream: messages of two types with up to one byte of    *)
(* payload, and (MCCommands) one with two, behind a header of three bytes.  *)
EXTENDS GpStream

MCMessages == UNION {{<<t, n, 0>> \o p : t \in {1, 2}, p \in [1 .. n -> 0 .. 2]} : n \in 0 .. 1}

MCCommands == {<<1, 0, 0>>, <<2, 2, 0, 0, 1>>}
=============================================================================
