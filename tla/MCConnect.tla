----------------------------- MODULE MCConnect -----------------------------
(* Two or three agents; who is invited by whom differs between the runs. *)
EXTENDS Connect

CONSTANTS n1, n2, n3

MCAgents == {n1, n2, n3}
MCPair == {n1, n2}
MCNobody == {}

\* n1 and n2 take invitations of those who came before them, as joiners of a
\* group do.
MCInOrder == {<<n1, n2>>, <<n1, n3>>, <<n2, n3>>}

\* n1 and n2 invite each other, and n1 does not wait.
MCMutual == {<<n1, n2>>, <<n2, n1>>}
MCHasty == {n1}

MCOneWay == {<<n1, n2>>}
=============================================================================
