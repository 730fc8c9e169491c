------------------------------ MODULE Validator ------------------------------
(***************************************************************************)
(* The join-time comparison of group checksums (pubsub/validator/init.go). *)
(*                                                                         *)
(* A checksum is the hash of the members sorted by label, so it depends on *)
(* the set of members and their fields and on nothing else; here it is     *)
(* that set (SHA-256 is taken to be free of collisions).                   *)
(***************************************************************************)
EXTENDS Integers, FiniteSets

\* Verify's inverse map: the members that returned checksum h.
Class(states, h) == {m \in DOMAIN states : states[m] = h}

Classes(states) == {Class(states, states[m]) : m \in DOMAIN states}

\* What Verify returns as ok: `deviated` starts at len(states) and the loop
\* over the classes has not lowered it.
Verify(states) ==
    \A c \in Classes(states) : ~(Cardinality(c) < Cardinality(DOMAIN states))

\* ValidJoin stores the checksum of the set the acceptor returned as the
\* acceptor's, over what the acceptor answered to the subscription.
WithAcceptor(accptr, joinedSet, grpHashes) ==
    [m \in DOMAIN grpHashes \cup {accptr} |->
        IF m = accptr THEN joinedSet ELSE grpHashes[m]]

ValidJoin(accptr, joinedSet, grpHashes) ==
    Verify(WithAcceptor(accptr, joinedSet, grpHashes))
=============================================================================
