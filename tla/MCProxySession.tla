--------------------------- MODULE MCProxySession ---------------------------
(***************************************************************************)
(* Small instances of ProxySession for TLC.  Clients do not compare, so a  *)
(* set of them is symmetric in the runs without liveness properties.       *)
(***************************************************************************)
EXTENDS ProxySession, TLC

CONSTANTS c1, c2, none

OneClient  == {c1}
TwoClients == {c1, c2}

ClientSymmetry == Permutations(TwoClients)

QuietStdin == {"quiet"}
AnyStdin   == {"quiet", "hung_up", "not_pollable"}

=============================================================================
