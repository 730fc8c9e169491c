---------------------------- MODULE Syncer_proofs ----------------------------
(***************************************************************************)
(* Proofs about Syncer: its types, and that timestamps respect causality   *)
(* within a stay, for every number of agents and groups, every skew of the *)
(* wall clocks and every order of delivery.                                *)
(***************************************************************************)
EXTENDS Syncer, FiniteSetTheorems, TLAPS

\* The stored timestamp is a floor under everything the agent has seen since
\* init.
Floor == \A a \in Agents : tsMap[a] # NoStamp =>
            \A p \in seen[a] : p.LampTs <= tsMap[a].LampTs

\* Nothing is recorded as seen where no clock was started.
SeenStamped == \A a \in Agents : tsMap[a] = NoStamp => seen[a] = {}

IInv == /\ TypeOK
        /\ IsFiniteSet(sent)
        /\ Floor
        /\ SeenStamped
        /\ CausalOrder
        /\ SameSecondOnly
-----------------------------------------------------------------------------
\* A new stamp, if any, is a stamp that is not below the stored one, and equal
\* to it only if it is the reading of the wall clock.
LEMMA NextStampLemma ==
    ASSUME TypeOK, NEW a \in Agents
    PROVE  /\ NextStamp(a) \in Stamps \cup {NoStamp}
           /\ tsMap[a] = NoStamp <=> NextStamp(a) = NoStamp
           /\ tsMap[a] # NoStamp =>
                 /\ tsMap[a].LampTs \in Nat
                 /\ NextStamp(a).LampTs \in Nat
                 /\ tsMap[a].LampTs <= NextStamp(a).LampTs
                 /\ tsMap[a].LampTs = NextStamp(a).LampTs =>
                       NextStamp(a).LampTs = clock[a]
<1>1. CASE tsMap[a] = NoStamp
  BY <1>1 DEF NextStamp
<1>2. CASE tsMap[a] # NoStamp
  <2>1. tsMap[a] \in Stamps /\ clock[a] \in Nat
    BY <1>2 DEF TypeOK
  <2>2. /\ tsMap[a].LampTs \in Nat
        /\ NextLampTs(a) \in Nat
        /\ tsMap[a].LampTs <= NextLampTs(a)
        /\ tsMap[a].LampTs = NextLampTs(a) => NextLampTs(a) = clock[a]
    BY <2>1 DEF NextLampTs, Stamps
  <2>3. /\ NextStamp(a) \in Stamps
        /\ NextStamp(a).LampTs = NextLampTs(a)
    BY <1>2, <2>1, <2>2 DEF NextStamp, Stamps
  <2> QED BY <1>2, <2>2, <2>3, SyncerAssumption
<1> QED BY <1>1, <1>2

\* The message a Send builds.
NewMsg(a) == [id |-> Cardinality(sent) + 1, from |-> a, grp |-> group[a],
              ord |-> ordered[a], ts |-> NextStamp(a), at |-> clock[a], past |-> seen[a]]

LEMMA NewMsgType ==
    ASSUME TypeOK, IsFiniteSet(sent), NEW a \in Agents, group[a] # NoGroup
    PROVE  NewMsg(a) \in Messages
<1>1. Cardinality(sent) + 1 \in Nat
  BY FS_CardinalityType
<1>2. group[a] \in Groups /\ ordered[a] \in BOOLEAN
      /\ clock[a] \in Nat /\ seen[a] \in SUBSET PastEntries
  BY DEF TypeOK
<1>3. NextStamp(a) \in Stamps \cup {NoStamp}
  BY NextStampLemma
<1> QED BY <1>1, <1>2, <1>3 DEF NewMsg, Messages
-----------------------------------------------------------------------------
LEMMA InitIInv == Init => IInv
<1> SUFFICES ASSUME Init PROVE IInv
  OBVIOUS
<1>1. TypeOK
  BY DEF Init, TypeOK
<1>2. IsFiniteSet(sent)
  BY FS_EmptySet DEF Init
<1>3. Floor /\ SeenStamped
  BY DEF Init, Floor, SeenStamped
<1>4. CausalOrder /\ SameSecondOnly
  BY DEF Init, CausalOrder, SameSecondOnly
<1> QED BY <1>1, <1>2, <1>3, <1>4 DEF IInv

\* syncer.init: the stamp it stores is typed, and nothing is seen yet.
LEMMA InitTsPreserves ==
    ASSUME TypeOK, Floor, SeenStamped,
           NEW a \in Agents, NEW g, NEW o \in BOOLEAN, InitTs(a, g, o)
    PROVE  /\ tsMap' \in [Agents -> Stamps \cup {NoStamp}]
           /\ seen' \in [Agents -> SUBSET PastEntries]
           /\ Floor'
           /\ SeenStamped'
<1>1. CASE ~o
  BY <1>1 DEF InitTs, TypeOK, Floor, SeenStamped
<1>2. CASE o
  <2>0. [SenderId |-> a, LampTs |-> clock[a]] \in Stamps
    BY DEF TypeOK, Stamps
  <2>1. /\ tsMap' = [tsMap EXCEPT ![a] = [SenderId |-> a, LampTs |-> clock[a]]]
        /\ seen' = [seen EXCEPT ![a] = {}]
    BY <1>2 DEF InitTs
  <2>2. /\ tsMap' \in [Agents -> Stamps \cup {NoStamp}]
        /\ seen' \in [Agents -> SUBSET PastEntries]
    BY <2>0, <2>1 DEF TypeOK
  <2>3. \A b \in Agents : IF b = a THEN seen'[b] = {}
                          ELSE seen'[b] = seen[b] /\ tsMap'[b] = tsMap[b]
    BY <2>1 DEF TypeOK
  <2> QED BY <2>2, <2>3 DEF Floor, SeenStamped
<1> QED BY <1>1, <1>2

LEMMA SendPreserves ==
    ASSUME IInv, NEW a \in Agents, Send(a)
    PROVE  IInv'
<1> DEFINE m == NewMsg(a)
<1>1. /\ group[a] # NoGroup
      /\ tsMap' = [tsMap EXCEPT ![a] = NextStamp(a)]
      /\ seen' = IF NextStamp(a) = NoStamp THEN seen
                 ELSE [seen EXCEPT ![a] = @ \cup {[id |-> m.id, LampTs |-> NextStamp(a).LampTs]}]
      /\ sent' = sent \cup {m}
      /\ net' = net \cup ({b \in Agents \ {a} : group[b] = group[a]} \X {m})
      /\ UNCHANGED <<clock, group, ordered, opened, stays>>
  BY DEF Send, NewMsg
<1>2. TypeOK /\ IsFiniteSet(sent)
  BY DEF IInv
<1>3. m \in Messages
  BY <1>1, <1>2, NewMsgType
<1>4. /\ m.id \in Nat /\ m.ts = NextStamp(a) /\ m.at = clock[a] /\ m.past = seen[a]
  BY <1>2, FS_CardinalityType DEF NewMsg
<1> HIDE DEF m
<1>5. TypeOK'
  <2>1. tsMap' \in [Agents -> Stamps \cup {NoStamp}]
    BY <1>1, <1>2, NextStampLemma DEF TypeOK
  <2>2. seen' \in [Agents -> SUBSET PastEntries]
    <3>1. CASE NextStamp(a) = NoStamp
      BY <1>1, <1>2, <3>1 DEF TypeOK
    <3>2. CASE NextStamp(a) # NoStamp
      <4>1. [id |-> m.id, LampTs |-> NextStamp(a).LampTs] \in PastEntries
        BY <1>2, <1>4, <3>2, NextStampLemma DEF PastEntries
      <4> QED BY <1>1, <1>2, <3>2, <4>1 DEF TypeOK
    <3> QED BY <3>1, <3>2
  <2>3. sent' \subseteq Messages /\ net' \subseteq Agents \X sent'
    BY <1>1, <1>2, <1>3 DEF TypeOK
  <2> QED BY <1>1, <1>2, <2>1, <2>2, <2>3 DEF TypeOK
<1>6. IsFiniteSet(sent')
  BY <1>1, <1>2, FS_AddElement
<1>7. \A b \in Agents \ {a} : tsMap'[b] = tsMap[b] /\ seen'[b] = seen[b]
  BY <1>1, <1>2 DEF TypeOK
<1>8. tsMap'[a] = NextStamp(a)
  BY <1>1, <1>2 DEF TypeOK
<1>9. \A p \in seen[a] : p.LampTs \in Nat
  BY <1>2 DEF TypeOK, PastEntries
<1>10. Wrapped(m) => \A p \in m.past : /\ p.LampTs <= m.ts.LampTs
                                       /\ p.LampTs = m.ts.LampTs => m.ts.LampTs = m.at
  BY <1>2, <1>4, <1>9, NextStampLemma DEF IInv, Floor, Wrapped
<1>11. Floor'
  <2> SUFFICES ASSUME tsMap'[a] # NoStamp, NEW p \in seen'[a]
               PROVE  p.LampTs <= tsMap'[a].LampTs
    BY <1>7 DEF IInv, Floor
  <2>1. seen'[a] = seen[a] \cup {[id |-> m.id, LampTs |-> NextStamp(a).LampTs]}
    BY <1>1, <1>2, <1>8 DEF TypeOK
  <2>2. NextStamp(a).LampTs \in Nat
    BY <1>2, <1>8, NextStampLemma
  <2>3. CASE p \in seen[a]
    BY <1>4, <1>8, <1>10, <2>3 DEF Wrapped
  <2>4. CASE p \notin seen[a]
    BY <1>8, <2>1, <2>2, <2>4
  <2> QED BY <2>3, <2>4
<1>12. SeenStamped'
  BY <1>1, <1>2, <1>7, <1>8, NextStampLemma DEF IInv, SeenStamped
<1>13. CausalOrder' /\ SameSecondOnly'
  BY <1>1, <1>10 DEF IInv, CausalOrder, SameSecondOnly, Wrapped
<1> QED BY <1>5, <1>6, <1>11, <1>12, <1>13 DEF IInv

LEMMA ParsePreserves ==
    ASSUME IInv, NEW a \in Agents, NEW m \in sent, Parse(a, m)
    PROVE  IInv'
<1> DEFINE entry == [id |-> m.id, LampTs |-> m.ts.LampTs]
<1>1. TypeOK
  BY DEF IInv
<1>2. m \in Messages
  BY <1>1 DEF TypeOK
<1>3. UNCHANGED <<clock, group, ordered, opened, stays, sent>> /\ net' = net \ {<<a, m>>}
  BY DEF Parse
<1>4. CASE tsMap[a] # NoStamp /\ Wrapped(m)
  <2>1. m.ts \in Stamps /\ tsMap[a] \in Stamps
    BY <1>1, <1>2, <1>4 DEF TypeOK, Messages, Wrapped
  <2>2. m.ts.LampTs \in Nat /\ tsMap[a].LampTs \in Nat /\ entry \in PastEntries
    BY <1>2, <2>1 DEF Stamps, Messages, PastEntries
  <2>3. seen' = [seen EXCEPT ![a] = @ \cup m.past \cup {entry}]
    BY <1>4 DEF Parse
  <2>4. tsMap' = [tsMap EXCEPT ![a] = IF tsMap[a].LampTs <= m.ts.LampTs
                                      THEN m.ts ELSE @]
    BY <1>1, <1>4 DEF Parse, TypeOK, Adopts
  <2>5. m.past \subseteq PastEntries
    BY <1>2 DEF Messages
  <2>6. TypeOK'
    <3>1. tsMap' \in [Agents -> Stamps \cup {NoStamp}]
      BY <1>1, <2>1, <2>4 DEF TypeOK
    <3>2. seen' \in [Agents -> SUBSET PastEntries]
      BY <1>1, <2>2, <2>3, <2>5 DEF TypeOK
    <3> QED BY <1>1, <1>3, <3>1, <3>2 DEF TypeOK
  <2>7. \A b \in Agents \ {a} : tsMap'[b] = tsMap[b] /\ seen'[b] = seen[b]
    BY <1>1, <2>3, <2>4 DEF TypeOK
  <2>8. /\ tsMap'[a] = IF tsMap[a].LampTs <= m.ts.LampTs THEN m.ts ELSE tsMap[a]
        /\ seen'[a] = seen[a] \cup m.past \cup {entry}
    BY <1>1, <2>3, <2>4 DEF TypeOK
  <2>9. tsMap[a].LampTs <= tsMap'[a].LampTs /\ m.ts.LampTs <= tsMap'[a].LampTs
        /\ tsMap'[a].LampTs \in Nat
    BY <2>2, <2>8
  <2>10. \A p \in seen'[a] : p.LampTs <= tsMap'[a].LampTs
    <3> SUFFICES ASSUME NEW p \in seen'[a] PROVE p.LampTs <= tsMap'[a].LampTs
      OBVIOUS
    <3>1. CASE p \in seen[a]
      <4>1. p.LampTs <= tsMap[a].LampTs /\ p.LampTs \in Nat
        BY <1>1, <1>4, <3>1 DEF IInv, Floor, TypeOK, PastEntries
      <4> QED BY <2>2, <2>9, <4>1
    <3>2. CASE p \in m.past
      <4>1. p.LampTs <= m.ts.LampTs /\ p.LampTs \in Nat
        BY <1>4, <2>5, <3>2 DEF IInv, CausalOrder, PastEntries
      <4> QED BY <2>2, <2>9, <4>1
    <3>3. CASE p = entry
      BY <2>9, <3>3
    <3> QED BY <2>8, <3>1, <3>2, <3>3
  <2>11. tsMap'[a] # NoStamp
    BY <1>4, <2>8 DEF Wrapped
  <2>12. Floor' /\ SeenStamped'
    BY <2>7, <2>10, <2>11 DEF IInv, Floor, SeenStamped
  <2> QED BY <1>3, <2>6, <2>12 DEF IInv, CausalOrder, SameSecondOnly
<1>5. CASE ~(tsMap[a] # NoStamp /\ Wrapped(m))
  <2>1. UNCHANGED <<tsMap, seen>>
    BY <1>5 DEF Parse
  <2>2. TypeOK'
    BY <1>1, <1>3, <2>1 DEF TypeOK
  <2> QED BY <1>3, <2>1, <2>2 DEF IInv, Floor, SeenStamped, CausalOrder, SameSecondOnly
<1> QED BY <1>4, <1>5

LEMMA NextIInv == IInv /\ [Next]_vars => IInv'
<1> SUFFICES ASSUME IInv, [Next]_vars PROVE IInv'
  OBVIOUS
<1> USE DEF IInv
<1>1. CASE UNCHANGED vars
  BY <1>1 DEF vars, TypeOK, Floor, SeenStamped, CausalOrder, SameSecondOnly, Wrapped
<1>2. ASSUME NEW a \in Agents, Tick(a) PROVE IInv'
  <2>1. UNCHANGED <<group, ordered, opened, stays, tsMap, seen, sent, net>>
    BY <1>2 DEF Tick
  <2>2. TypeOK'
    BY <1>2, <2>1 DEF Tick, TypeOK
  <2> QED BY <2>1, <2>2 DEF Floor, SeenStamped, CausalOrder, SameSecondOnly, Wrapped
<1>3. ASSUME NEW a \in Agents, Leave(a) PROVE IInv'
  <2>1. UNCHANGED <<clock, opened, stays, tsMap, seen, sent, net>>
    BY <1>3 DEF Leave
  <2>2. TypeOK'
    BY <1>3, <2>1 DEF Leave, TypeOK
  <2> QED BY <2>1, <2>2 DEF Floor, SeenStamped, CausalOrder, SameSecondOnly, Wrapped
<1>4. ASSUME NEW a \in Agents, Send(a) PROVE IInv'
  BY <1>4, SendPreserves
<1>5. ASSUME NEW a \in Agents, NEW g \in Groups, NEW o \in BOOLEAN, Create(a, g, o)
      PROVE  IInv'
  <2>1. InitTs(a, g, o) /\ UNCHANGED <<clock, sent, net>>
    BY <1>5 DEF Create
  <2>2. TypeOK'
    BY <1>5, <2>1, InitTsPreserves DEF Create, TypeOK
  <2> QED BY <2>1, <2>2, InitTsPreserves DEF CausalOrder, SameSecondOnly, Wrapped
<1>6. ASSUME NEW a \in Agents, NEW b \in Agents, Join(a, b) PROVE IInv'
  <2>1. InitTs(a, group[b], ordered[b]) /\ UNCHANGED <<clock, opened, sent, net>>
    BY <1>6 DEF Join
  <2>2. group[b] \in Groups /\ ordered[b] \in BOOLEAN
    BY <1>6 DEF Join, TypeOK
  <2>3. TypeOK'
    BY <1>6, <2>1, <2>2, InitTsPreserves DEF Join, TypeOK
  <2> QED BY <2>1, <2>2, <2>3, InitTsPreserves DEF CausalOrder, SameSecondOnly, Wrapped
<1>7. ASSUME NEW a \in Agents, NEW m \in sent, Parse(a, m) PROVE IInv'
  BY <1>7, ParsePreserves
<1> QED BY <1>1, <1>2, <1>3, <1>4, <1>5, <1>6, <1>7 DEF Next

\* The invariant the theorems below rest on.
THEOREM Inductive == Spec => []IInv
BY InitIInv, NextIInv, PTL DEF Spec

\* Every variable keeps its type, for any constants.
THEOREM TypeCorrect == Spec => []TypeOK
<1>1. IInv => TypeOK
  BY DEF IInv
<1> QED BY Inductive, <1>1, PTL

\* Timestamps respect causality within a stay (syncer.parse and
\* syncer.message), whatever the clocks do and however messages overtake.
THEOREM CausalOrderHolds == Spec => []CausalOrder
<1>1. IInv => CausalOrder
  BY DEF IInv
<1> QED BY Inductive, <1>1, PTL

\* Causally related messages tie only within the second the later one was
\* sent in.
THEOREM TiesOnlyInSameSecond == Spec => []SameSecondOnly
<1>1. IInv => SameSecondOnly
  BY DEF IInv
<1> QED BY Inductive, <1>1, PTL
-----------------------------------------------------------------------------
\* Who has params with OrderEnabled has a clock, ...
Started == \A a \in Agents : ordered[a] => tsMap[a] # NoStamp

\* ... and what it sends then has a stamp; who has stamped a message keeps its clock.
OrderedStamped == \A m \in sent : m.ord => Wrapped(m)
SenderKeeps == \A m \in sent : Wrapped(m) => tsMap[m.from] # NoStamp

OInv == Started /\ OrderedStamped /\ SenderKeeps

\* syncer.init starts the clock of an ordered group and stops none.
LEMMA InitTsStarts ==
    ASSUME TypeOK, NEW a \in Agents, NEW g, NEW o \in BOOLEAN, InitTs(a, g, o)
    PROVE  /\ o => tsMap'[a] # NoStamp
           /\ \A b \in Agents : tsMap[b] # NoStamp => tsMap'[b] # NoStamp
<1>1. CASE ~o
  BY <1>1 DEF InitTs
<1>2. CASE o
  <2>1. [SenderId |-> a, LampTs |-> clock[a]] # NoStamp
    BY SyncerAssumption DEF TypeOK, Stamps
  <2>2. tsMap' = [tsMap EXCEPT ![a] = [SenderId |-> a, LampTs |-> clock[a]]]
    BY <1>2 DEF InitTs
  <2> QED BY <2>1, <2>2 DEF TypeOK
<1> QED BY <1>1, <1>2

\* Nothing ever deletes an entry of tsMap.
LEMMA ClocksKept ==
    ASSUME IInv, [Next]_vars
    PROVE  \A b \in Agents : tsMap[b] # NoStamp => tsMap'[b] # NoStamp
<1>0. TypeOK
  BY DEF IInv
<1>1. CASE UNCHANGED vars
  BY <1>1 DEF vars
<1>2. ASSUME NEW a \in Agents, Tick(a) \/ Leave(a) PROVE UNCHANGED tsMap
  BY <1>2 DEF Tick, Leave
<1>3. ASSUME NEW a \in Agents, Send(a)
      PROVE  \A b \in Agents : tsMap[b] # NoStamp => tsMap'[b] # NoStamp
  <2>1. tsMap' = [tsMap EXCEPT ![a] = NextStamp(a)]
    BY <1>3 DEF Send
  <2> QED BY <1>0, <2>1, NextStampLemma DEF TypeOK
<1>4. ASSUME NEW a \in Agents, NEW g \in Groups, NEW o \in BOOLEAN, Create(a, g, o)
      PROVE  \A b \in Agents : tsMap[b] # NoStamp => tsMap'[b] # NoStamp
  BY <1>0, <1>4, InitTsStarts DEF Create
<1>5. ASSUME NEW a \in Agents, NEW c \in Agents, Join(a, c)
      PROVE  \A b \in Agents : tsMap[b] # NoStamp => tsMap'[b] # NoStamp
  <2>1. ordered[c] \in BOOLEAN /\ InitTs(a, group[c], ordered[c])
    BY <1>0, <1>5 DEF Join, TypeOK
  <2> QED BY <1>0, <2>1, InitTsStarts
<1>6. ASSUME NEW a \in Agents, NEW m \in sent, Parse(a, m)
      PROVE  \A b \in Agents : tsMap[b] # NoStamp => tsMap'[b] # NoStamp
  <2>1. \/ UNCHANGED tsMap
        \/ m.ts # NoStamp /\ tsMap' = [tsMap EXCEPT ![a] = m.ts]
    BY <1>6 DEF Parse, Wrapped
  <2> QED BY <1>0, <2>1 DEF TypeOK
<1> QED BY <1>1, <1>2, <1>3, <1>4, <1>5, <1>6 DEF Next

LEMMA NextOInv == IInv /\ OInv /\ [Next]_vars => OInv'
<1> SUFFICES ASSUME IInv, OInv, [Next]_vars PROVE OInv'
  OBVIOUS
<1>0. TypeOK /\ Started /\ OrderedStamped /\ SenderKeeps
  BY DEF IInv, OInv
<1>k. \A b \in Agents : tsMap[b] # NoStamp => tsMap'[b] # NoStamp
  BY ClocksKept
<1>f. \A m \in sent : m.from \in Agents
  BY <1>0 DEF TypeOK, Messages
\* A step that sends nothing, and starts the clock of whom it gives ordered params.
<1>s. ASSUME UNCHANGED sent,
             \A b \in Agents : ordered'[b] => ordered[b] \/ tsMap'[b] # NoStamp
      PROVE  OInv'
  <2>1. Started'
    BY <1>0, <1>k, <1>s DEF Started
  <2>2. OrderedStamped' /\ SenderKeeps'
    BY <1>0, <1>k, <1>f, <1>s DEF OrderedStamped, SenderKeeps, Wrapped
  <2> QED BY <2>1, <2>2 DEF OInv
<1>1. CASE UNCHANGED vars
  BY <1>s, <1>1 DEF vars
<1>2. ASSUME NEW a \in Agents, Tick(a) PROVE OInv'
  BY <1>s, <1>2 DEF Tick
<1>3. ASSUME NEW a \in Agents, Leave(a) PROVE OInv'
  BY <1>s, <1>3, <1>0 DEF Leave, TypeOK
<1>4. ASSUME NEW a \in Agents, Send(a) PROVE OInv'
  <2>1. /\ tsMap' = [tsMap EXCEPT ![a] = NextStamp(a)]
        /\ sent' = sent \cup {NewMsg(a)}
        /\ UNCHANGED ordered
    BY <1>4 DEF Send, NewMsg
  <2>2. /\ NewMsg(a).ts = NextStamp(a) /\ NewMsg(a).ord = ordered[a]
        /\ NewMsg(a).from = a
    BY DEF NewMsg
  <2>3. tsMap'[a] = NextStamp(a) /\ (tsMap[a] = NoStamp <=> NextStamp(a) = NoStamp)
    BY <1>0, <2>1, NextStampLemma DEF TypeOK
  <2>4. Started'
    BY <1>0, <1>k, <2>1 DEF Started
  <2>5. OrderedStamped'
    BY <1>0, <2>1, <2>2, <2>3 DEF OrderedStamped, Started, Wrapped
  <2>6. SenderKeeps'
    BY <1>0, <1>k, <1>f, <2>1, <2>2, <2>3 DEF SenderKeeps, Wrapped
  <2> QED BY <2>4, <2>5, <2>6 DEF OInv
<1>5. ASSUME NEW a \in Agents, NEW g \in Groups, NEW o \in BOOLEAN, Create(a, g, o)
      PROVE  OInv'
  <2>1. InitTs(a, g, o) /\ UNCHANGED sent /\ ordered' = [ordered EXCEPT ![a] = o]
    BY <1>5 DEF Create
  <2>2. o => tsMap'[a] # NoStamp
    BY <1>0, <2>1, InitTsStarts
  <2> QED BY <1>s, <1>0, <2>1, <2>2 DEF TypeOK
<1>6. ASSUME NEW a \in Agents, NEW c \in Agents, Join(a, c) PROVE OInv'
  <2>1. /\ InitTs(a, group[c], ordered[c]) /\ UNCHANGED sent /\ ordered[c] \in BOOLEAN
        /\ ordered' = [ordered EXCEPT ![a] = ordered[c]]
    BY <1>0, <1>6 DEF Join, TypeOK
  <2>2. ordered[c] => tsMap'[a] # NoStamp
    BY <1>0, <2>1, InitTsStarts
  <2> QED BY <1>s, <1>0, <2>1, <2>2 DEF TypeOK
<1>7. ASSUME NEW a \in Agents, NEW m \in sent, Parse(a, m) PROVE OInv'
  BY <1>s, <1>7 DEF Parse
<1> QED BY <1>1, <1>2, <1>3, <1>4, <1>5, <1>6, <1>7 DEF Next

\* A message of the group its receiver is in, sent under the params the receiver
\* has, is read as it was sent, whatever groups of the topic the two were in before
\* (syncer.init with ordered params), unless the params are plain and one of the
\* two kept a clock.
THEOREM ReadAsSentHolds == Spec => []ReadAsSent
<1>1. Init => OInv
  BY SyncerAssumption DEF Init, OInv, Started, OrderedStamped, SenderKeeps
<1>2. OInv => ReadAsSent
  <2> SUFFICES ASSUME OInv, NEW a \in Agents, NEW m \in sent, ordered[a] = m.ord
               PROVE  \/ Wrapped(m) <=> tsMap[a] # NoStamp
                      \/ /\ ~m.ord
                         /\ tsMap[a] # NoStamp \/ tsMap[m.from] # NoStamp
    BY DEF ReadAsSent
  <2> QED BY DEF OInv, Started, OrderedStamped, SenderKeeps
<1> QED BY Inductive, NextOInv, <1>1, <1>2, PTL DEF Spec
=============================================================================
