------------------------------ MODULE MCSyncer ------------------------------
\* Syncer on three agents and two groups that share the topic name, each plain or
\* ordered.
EXTENDS Syncer, TLC

CONSTANTS a1, a2, a3, g1, g2

MCAgents == {a1, a2, a3}
MCGroups == {g1, g2}

\* Agents are interchangeable, and so are groups: no definition orders or names
\* them.
MCSymmetry == Permutations(MCAgents) \cup Permutations(MCGroups)
=============================================================================
