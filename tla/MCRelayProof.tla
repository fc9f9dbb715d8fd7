---------------------------- MODULE MCRelayProof ----------------------------
\* Three verifications, so that one can start while two others are under way.
EXTENDS RelayProof

CONSTANTS p1, p2, p3
=============================================================================
