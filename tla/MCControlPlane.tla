---------------------------- MODULE MCControlPlane ----------------------------
(***************************************************************************)
(* Constants for TLC's runs of ControlPlane.                               *)
(***************************************************************************)
EXTENDS ControlPlane, TLC

CONSTANTS k1, k2

Config(e, k, h) == [enabled |-> e, keys |-> {k}, hls |-> h]

\* A service is created enabled, with Full HLS, or disabled, with it or without.
\* A PUT enables one under the guard, with Full HLS, or gives a disabled one
\* another bind and Full HLS without the guard.
SomePosts == {Config(TRUE, k1, TRUE), Config(FALSE, k2, TRUE), Config(FALSE, k2, FALSE)}
SomePuts == {Config(TRUE, k2, TRUE), Config(FALSE, k1, TRUE)}

AnyPosts == {Config(TRUE, k1, FALSE), Config(FALSE, k2, FALSE)}
DisablingPuts == {Config(FALSE, k1, FALSE)}

\* Services and requests are interchangeable.
AnyOrder == Permutations(Service) \cup Permutations(Request)
=============================================================================
