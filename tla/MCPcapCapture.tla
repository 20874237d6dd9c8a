--------------------------- MODULE MCPcapCapture ----------------------------
(***************************************************************************)
(* Small instances of PcapCapture for TLC.  Two slots per buffer, so a     *)
(* session of five packets fills a, fills b and comes back to a.           *)
(***************************************************************************)
EXTENDS PcapCapture, TLC

CONSTANTS p1, p2

OnePayload  == {p1}
TwoPayloads == {p1, p2}

\* Payloads are compared and copied, nothing else.
PayloadSymmetry == Permutations(TwoPayloads)

=============================================================================
