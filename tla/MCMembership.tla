---------------------------- MODULE MCMembership ----------------------------
\* Membership on three agents.  n3 founds the group and n1 is the other
\* publisher, n2 only subscribes.
EXTENDS GroupRefinement, TLC

CONSTANTS n1, n2, n3

MCAgents == {n1, n2, n3}
MCPublishers == {n1, n3}
MCFounders == {n3}
MCNobody == {}
=============================================================================
