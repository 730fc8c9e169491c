------------------------------- MODULE Syncer -------------------------------
(***************************************************************************)
(* The ordering layer of a group's data messages (pubsub/syncer.go) under  *)
(* the operations of the group agent that drive it: Create and Join start  *)
(* the clock of a topic, Send stamps a message, the data handler parses    *)
(* one, Leave forgets the group but not the stored timestamp.              *)
(*                                                                         *)
(* One topic name is modelled.  Groups are the successive or concurrent    *)
(* groups that use the name.  Every agent keeps the params of its own, of  *)
(* which OrderEnabled matters here: a member that calls Create again       *)
(* changes them for itself only.  Every agent reads a wall clock of its    *)
(* own, in seconds.                                                        *)
(*                                                                         *)
(* Bounds: MaxTime (wall clocks), MaxSends (messages sent in all),         *)
(* MaxStays (times an agent creates or joins a group, in all).             *)
(***************************************************************************)
EXTENDS Integers, FiniteSets

CONSTANTS Agents,    \* the agents; the name stands for the random sender id
          Groups,    \* the groups that share the topic name
          NoGroup,   \* "not in a group of this topic"
          NoStamp,   \* "tsMap holds nothing", and the stamp of a plain message
          MaxTime,
          MaxSends,
          MaxStays

\* type ts struct
Stamps == [SenderId : Agents, LampTs : Nat]

ASSUME SyncerAssumption ==
    /\ NoGroup \notin Groups
    /\ NoStamp \notin Stamps
    /\ MaxTime \in Nat
    /\ MaxSends \in Nat
    /\ MaxStays \in Nat

VARIABLES clock,   \* clock[a]: what time.Now().Unix() returns at a
          group,   \* group[a]: the group a is in
          ordered, \* ordered[a]: OrderEnabled in the params a has of it
          opened,  \* the groups created so far
          stays,   \* how often a group was created or joined
          tsMap,   \* tsMap[a]: syncer.tsMap[topic] of a
          seen,    \* seen[a]: history, the stamps a sent or parsed, and their
                   \* causal pasts, since the last init of its tsMap
          sent,    \* history, every message sent
          net      \* pairs <<receiver, message>> not yet handled

vars == <<clock, group, ordered, opened, stays, tsMap, seen, sent, net>>

\* An entry of a causal past: which message, and its timestamp.
PastEntries == [id : Nat, LampTs : Nat]

\* type groupMsg struct, with the ghost fields id, from, grp, ord, at
\* and past
Messages == [id : Nat, from : Agents, grp : Groups, ord : BOOLEAN, ts : Stamps \cup {NoStamp},
             at : Nat, past : SUBSET PastEntries]

Wrapped(m) == m.ts # NoStamp

TypeOK == /\ clock \in [Agents -> Nat]
          /\ group \in [Agents -> Groups \cup {NoGroup}]
          /\ ordered \in [Agents -> BOOLEAN]
          /\ opened \subseteq Groups
          /\ stays \in Nat
          /\ tsMap \in [Agents -> Stamps \cup {NoStamp}]
          /\ seen \in [Agents -> SUBSET PastEntries]
          /\ sent \subseteq Messages
          /\ net \subseteq Agents \X sent
-----------------------------------------------------------------------------
Init == /\ clock = [a \in Agents |-> 0]
        /\ group = [a \in Agents |-> NoGroup]
        /\ ordered = [a \in Agents |-> FALSE]
        /\ opened = {}
        /\ stays = 0
        /\ tsMap = [a \in Agents |-> NoStamp]
        /\ seen = [a \in Agents |-> {}]
        /\ sent = {}
        /\ net = {}

\* A second passes on the wall clock of a; the clocks are not synchronised.
Tick(a) == /\ clock[a] < MaxTime
           /\ clock' = [clock EXCEPT ![a] = @ + 1]
           /\ UNCHANGED <<group, ordered, opened, stays, tsMap, seen, sent, net>>

\* Slips the properties must notice: a clock started one second early, a
\* received stamp adopted when it is the older one, no counting up when the wall
\* clock lags, and a clock that only the creator of a group starts.
InitTsEarly(a, g, o) ==
    IF o
    THEN /\ tsMap' = [tsMap EXCEPT ![a] = [SenderId |-> a, LampTs |-> clock[a] - 1]]
         /\ seen' = [seen EXCEPT ![a] = {}]
    ELSE UNCHANGED <<tsMap, seen>>
AdoptsOlder(a, m) == tsMap[a].LampTs >= m.ts.LampTs
InitTsCreator(a, g, o) ==
    IF o /\ g \notin opened
    THEN /\ tsMap' = [tsMap EXCEPT ![a] = [SenderId |-> a, LampTs |-> clock[a]]]
         /\ seen' = [seen EXCEPT ![a] = {}]
    ELSE UNCHANGED <<tsMap, seen>>
NextLampTsStuck(a) == IF clock[a] < tsMap[a].LampTs THEN tsMap[a].LampTs
                                                    ELSE clock[a]

\* syncer.init: called only with OrderEnabled, it replaces whatever an earlier
\* stay, or an earlier Create, left in tsMap.
InitTs(a, g, o) ==
    IF o
    THEN /\ tsMap' = [tsMap EXCEPT ![a] = [SenderId |-> a, LampTs |-> clock[a]]]
         /\ seen' = [seen EXCEPT ![a] = {}]
    ELSE UNCHANGED <<tsMap, seen>>

\* Agent.Create does not ask whether the agent is in a group of the topic: if it
\* is, the members stay and the params are replaced.
Create(a, g, o) == /\ g = group[a] \/ (group[a] = NoGroup /\ g \notin opened)
                   /\ stays < MaxStays
                   /\ stays' = stays + 1
                   /\ opened' = opened \cup {g}
                   /\ group' = [group EXCEPT ![a] = g]
                   /\ ordered' = [ordered EXCEPT ![a] = o]
                   /\ InitTs(a, g, o)
                   /\ UNCHANGED <<clock, sent, net>>

\* Agent.Join, seen from the syncer: refused when already in a group of the
\* topic; the OrderEnabled it acts on is the one the acceptor returned.
Join(a, acceptor) == /\ group[a] = NoGroup
                     /\ group[acceptor] # NoGroup
                     /\ stays < MaxStays
                     /\ stays' = stays + 1
                     /\ group' = [group EXCEPT ![a] = group[acceptor]]
                     /\ ordered' = [ordered EXCEPT ![a] = ordered[acceptor]]
                     /\ InitTs(a, group[acceptor], ordered[acceptor])
                     /\ UNCHANGED <<clock, opened, sent, net>>

\* Agent.Leave deletes the topic in the stores; tsMap keeps its entry.
Leave(a) == /\ group[a] # NoGroup
            /\ group' = [group EXCEPT ![a] = NoGroup]
            /\ ordered' = [ordered EXCEPT ![a] = FALSE]
            /\ UNCHANGED <<clock, opened, stays, tsMap, seen, sent, net>>

\* syncer.message, the timestamp of the next message: the wall clock, unless
\* it lags behind the stored one.
NextLampTs(a) == IF clock[a] < tsMap[a].LampTs THEN tsMap[a].LampTs + 1
                                               ELSE clock[a]

\* The stored stamp after syncer.message: LampTs is set in place, SenderId is
\* left as it is in tsMap.
NextStamp(a) == IF tsMap[a] = NoStamp THEN NoStamp
                ELSE [tsMap[a] EXCEPT !.LampTs = NextLampTs(a)]

\* Agent.Send: stamp once, then publish one packed copy per subscriber.
Send(a) ==
    /\ group[a] # NoGroup
    /\ Cardinality(sent) < MaxSends
    /\ LET st == NextStamp(a)
           m  == [id |-> Cardinality(sent) + 1, from |-> a, grp |-> group[a],
                  ord |-> ordered[a], ts |-> st, at |-> clock[a], past |-> seen[a]]
       IN /\ tsMap' = [tsMap EXCEPT ![a] = st]
          /\ seen' = IF st = NoStamp THEN seen
                     ELSE [seen EXCEPT ![a] = @ \cup {[id |-> m.id, LampTs |-> st.LampTs]}]
          /\ sent' = sent \cup {m}
          /\ net' = net \cup ({b \in Agents \ {a} : group[b] = group[a]} \X {m})
    /\ UNCHANGED <<clock, group, ordered, opened, stays>>

\* syncer.parse: a received stamp replaces the stored one, sender id included,
\* unless it is older.
Adopts(a, m) == tsMap[a].LampTs <= m.ts.LampTs

\* processor.data with syncer.parse: a plain text does not unmarshal where a
\* stamp is stored (the message is dropped with an error) and a stamp is
\* ignored where none is.  A handler runs in a goroutine of its own, so
\* messages are parsed in any order, also after the receiver left the group.
Parse(a, m) ==
    /\ <<a, m>> \in net
    /\ net' = net \ {<<a, m>>}
    /\ IF tsMap[a] # NoStamp /\ Wrapped(m) /\ Adopts(a, m)
       THEN tsMap' = [tsMap EXCEPT ![a] = m.ts]
       ELSE UNCHANGED tsMap
    /\ IF tsMap[a] # NoStamp /\ Wrapped(m)
       THEN seen' = [seen EXCEPT ![a] =
                       @ \cup m.past \cup {[id |-> m.id, LampTs |-> m.ts.LampTs]}]
       ELSE UNCHANGED seen
    /\ UNCHANGED <<clock, group, ordered, opened, stays, sent>>

Next == \/ \E a \in Agents : Tick(a) \/ Leave(a) \/ Send(a)
        \/ \E a \in Agents, g \in Groups, o \in BOOLEAN : Create(a, g, o)
        \/ \E a, b \in Agents : Join(a, b)
        \/ \E a \in Agents, m \in sent : Parse(a, m)

Spec == Init /\ [][Next]_vars
-----------------------------------------------------------------------------
\* A message is never stamped earlier than a message its sender had sent or
\* received before it, directly or through others, since its clock was last
\* started (by Join, or by a Create, be it of the group it is in): the causal
\* order syncer.go promises, with ties, for any skew of the clocks.
CausalOrder ==
    \A m \in sent : Wrapped(m) => \A p \in m.past : p.LampTs <= m.ts.LampTs

\* Two causally related messages share a timestamp only if the later one was
\* sent while the clock of its sender showed exactly that second: the one case
\* syncer.message does not count up.
SameSecondOnly ==
    \A m \in sent : Wrapped(m) =>
        \A p \in m.past : p.LampTs = m.ts.LampTs => m.ts.LampTs = m.at

\* Whatever groups of the topic an agent was in before: a message of the group it
\* is in is stamped if and only if the agent expects a stamp, so that it is read
\* as it was sent; unless the two have different params by now, or plain ones and
\* one of them still keeps the clock of an ordered group.
ReadAsSent ==
    \A a \in Agents, m \in sent :
        <<a, m>> \in net /\ group[a] = m.grp /\ ordered[a] = m.ord =>
            \/ Wrapped(m) <=> tsMap[a] # NoStamp
            \/ /\ ~m.ord
               /\ tsMap[a] # NoStamp \/ tsMap[m.from] # NoStamp

\* The comment on type ts: messages with equal timestamps can be sorted by the
\* id of their senders.  So two senders in a group never make the same stamp.
TiesBroken ==
    \A m, n \in sent :
        m.from # n.from /\ m.grp = n.grp /\ Wrapped(m) => m.ts # n.ts
=============================================================================
