------------------------ MODULE MCGpRelayedMessages ------------------------
(* Model checking GpRelayedMessages: base 2 makes a stamp wrap every 16     *)
(* ticks; payloads of 1 and 2 bytes have sizes that differ in both digits;  *)
(* names and keys are shorter and longer than their fields.                 *)
EXTENDS GpRelayedMessages

MCPayload == {<<1>>, <<0, 1>>}

MCLogin == {[user |-> <<1>>, key |-> <<1, 1>>],
            [user |-> <<0, 1>>, key |-> <<1>>],
            [user |-> <<>>, key |-> <<1, 0, 1>>]}
=============================================================================
