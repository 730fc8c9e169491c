-------------------------- MODULE GroupRefinement --------------------------
(***************************************************************************)
(* Membership implements Group: an agent that is about to leave counts as  *)
(* a member until it has published that, and a joiner as one as soon as it *)
(* has stored the list.                                                    *)
(***************************************************************************)
EXTENDS Membership

Listed(a) == IF InGroup(a) /\ pc[a] # "leaveDelete" THEN Members(view[a]) ELSE {}

knownBar == [a \in Agents |-> Listed(a)]
freshBar == {a \in Agents : pc[a] = "wait"}
newsBar == {[from |-> s.from, to |-> s.to, active |-> s.active] : s \in statuses}

G == INSTANCE Group WITH known <- knownBar, fresh <- freshBar, news <- newsBar

\* While no operation overlaps with a leave, the protocol keeps the promises of
\* Group: no list changes but by a status that was published, which is handled
\* once, and every member a joiner lists is told of it unless it knows.
Promised == G!Spec
=============================================================================
