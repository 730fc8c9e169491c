------------------------------- MODULE Group -------------------------------
(***************************************************************************)
(* What the membership protocol promises, without its messages: every      *)
(* agent keeps a list of the group, who enters announces itself once to    *)
(* those it lists, who leaves announces that once, an announcement is      *)
(* never lost, repeated or made up, and lists change for no other reason.  *)
(*                                                                         *)
(* A member is an agent whose list is not empty.                           *)
(***************************************************************************)
CONSTANT Agents

VARIABLES known,   \* the list of each agent
          fresh,   \* members that have not yet announced themselves
          news     \* announcements that have not yet been heeded

vars == <<known, fresh, news>>

Entered(j, S) == {[from |-> j, to |-> m, active |-> TRUE] : m \in S}
Left(a, S) == {[from |-> a, to |-> m, active |-> FALSE] : m \in S}

Member(a) == known[a] # {}
Others(a) == known[a] \ {a}

Init ==
    /\ known = [a \in Agents |-> {}]
    /\ fresh = {}
    /\ news = {}

Found(a) ==
    /\ ~Member(a)
    /\ known' = [known EXCEPT ![a] = {a}]
    /\ UNCHANGED <<fresh, news>>

\* j is let in with the list L that a member held when it was asked.
Enter(j, L) ==
    /\ ~Member(j)
    /\ j \notin L /\ \A m \in L : Member(m)
    /\ known' = [known EXCEPT ![j] = L \cup {j}]
    /\ fresh' = fresh \cup {j}
    /\ UNCHANGED news

\* All it lists are told, but for those who know it already.
Announce(j, S) ==
    /\ j \in fresh
    /\ S \subseteq Others(j)
    /\ \A m \in Others(j) \ S : j \in known[m]
    /\ fresh' = fresh \ {j}
    /\ news' = news \cup Entered(j, S)
    /\ UNCHANGED known

\* All it lists are told that a leaves.
Leave(a) ==
    /\ Member(a) /\ a \notin fresh
    /\ known' = [known EXCEPT ![a] = {}]
    /\ news' = news \cup Left(a, Others(a))
    /\ UNCHANGED fresh

\* The receiver lists the sender, or no longer.
Heed(n) ==
    /\ n \in news /\ Member(n.to)
    /\ known' = [known EXCEPT ![n.to] = IF n.active THEN @ \cup {n.from} ELSE @ \ {n.from}]
    /\ news' = news \ {n}
    /\ UNCHANGED fresh

Next == \/ \E a \in Agents : Found(a) \/ Leave(a)
        \/ \E j \in Agents, S \in SUBSET Agents : Enter(j, S) \/ Announce(j, S)
        \/ \E n \in news : Heed(n)

Spec == Init /\ [][Next]_vars
=============================================================================
