---------------------------- MODULE MCTransport ----------------------------
\* Transport with two groups and three peers, two of which publish.
EXTENDS Transport, TLC

CONSTANTS c1, c2, g1, g2, p1, p2, p3

MCCallers == {c1, c2}
MCTopics == {g1, g2}
MCPeers == {p1, p2, p3}
MCPublishers == {p1, p3}

\* No peer is in two groups.
MCApart == {<<g1, p1>>, <<g1, p2>>, <<g2, p3>>}
=============================================================================
