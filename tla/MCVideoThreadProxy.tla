------------------------ MODULE MCVideoThreadProxy ------------------------
(* Every call of the GBA renderer, for a queue of a few packets. *)
EXTENDS VideoThreadProxy

MCCalls == RendererCalls
=============================================================================
