------------------------- MODULE MCGeneratedRuntime -------------------------
(* Instances of GeneratedRuntime for TLC. *)
EXTENDS GeneratedRuntime

\* A constant, which is broadcast; no finite result; one that follows a NaN; and
\* two.  They move the minimum, the maximum, both or neither.
MCSamples == {<<1>>, <<NaN, NaN>>, <<NaN, 0>>, <<3, 0>>}
=============================================================================
