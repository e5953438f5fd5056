----------------------------- MODULE MCHubParts -----------------------------
EXTENDS HubParts, TLC

\* Nothing tells one address from another; the behaviours of the other parts, those
\* the liveness property is about among them, have no address in them.
IpSymmetry == Permutations(Ip)
=============================================================================
