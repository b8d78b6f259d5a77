--------------------------- MODULE MCStreamRender ---------------------------
(* Every pair of dialects, and text that is cut inside the tags.            *)
EXTENDS StreamRender

MCDeltas == {<<"w", "lt">>, <<"open", "v", "lt">>, <<"close">>}
=============================================================================
