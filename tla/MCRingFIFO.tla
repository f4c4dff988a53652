----------------------------- MODULE MCRingFIFO -----------------------------
(* A buffer small enough that every message length wraps at every offset. *)
EXTENDS RingFIFO

MCMessages == {<<0>>, <<1>>, <<0, 1>>, <<1, 1, 0>>}
=============================================================================
