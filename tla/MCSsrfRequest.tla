---------------------------- MODULE MCSsrfRequest ----------------------------
(* Instances of SsrfRequest for TLC. *)
EXTENDS SsrfRequest, TLC

\* Limits a caller may pass to buffer_response(), a senseless one among them.
SomeByteLimits == {-1, 2}

Symmetry == Permutations(Callers)
================================================================================
