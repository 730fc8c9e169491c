------------------------------ MODULE MCReqRep ------------------------------
\* Two of three agents send, to whom they like.  One of the two may exit, and so
\* may the third.
EXTENDS ReqRep

CONSTANTS a1, a2, a3

MCAgents == {a1, a2, a3}
MCCallers == {a1, a2}
MCExiting == {a1, a3}
=============================================================================
