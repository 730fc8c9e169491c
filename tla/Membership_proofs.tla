-------------------------- MODULE Membership_proofs -------------------------
(***************************************************************************)
(* Proofs about Membership, for every set of agents and every bound.       *)
(*                                                                         *)
(* For any use of Create, Join and Leave: the types, that a joiner is      *)
(* admitted only with the list every member but the acceptor returned, and *)
(* that nobody ever hears of an agent whose joins have failed.             *)
(*                                                                         *)
(* As long as nobody leaves, however many agents join and however their    *)
(* joins interleave: two agents know each other just when one was given    *)
(* the other's name, a joiner waits until all on its list hear it, and     *)
(* Membership implements Group.                                            *)
(***************************************************************************)
EXTENDS GroupRefinement, FiniteSetTheorems, TLAPS

\* A join is valid only if every member but the acceptor returned the very set
\* the acceptor sent with its answer to the join request: the class of a member
\* is as large as the whole, so it is the whole.
THEOREM ValidJoinMeansEqual ==
    ASSUME NEW accptr, NEW joinedSet, NEW grpHashes,
           IsFiniteSet(DOMAIN grpHashes),
           ValidJoin(accptr, joinedSet, grpHashes)
    PROVE  \A m \in DOMAIN grpHashes \ {accptr} : grpHashes[m] = joinedSet
<1> DEFINE states == WithAcceptor(accptr, joinedSet, grpHashes)
           D == DOMAIN states
<1>1. D = DOMAIN grpHashes \cup {accptr} /\ accptr \in D
  BY DEF WithAcceptor
<1>2. IsFiniteSet(D) /\ Cardinality(D) \in Nat
  BY <1>1, FS_AddElement, FS_CardinalityType
<1>3. /\ states[accptr] = joinedSet
      /\ \A m \in DOMAIN grpHashes \ {accptr} : states[m] = grpHashes[m]
  BY DEF WithAcceptor
<1>4. ~(Cardinality(Class(states, joinedSet)) < Cardinality(D))
  BY <1>1, <1>3 DEF ValidJoin, Verify, Classes
<1>5. Class(states, joinedSet) \subseteq D
  BY DEF Class
<1> HIDE DEF D, states
<1>6. /\ Cardinality(Class(states, joinedSet)) <= Cardinality(D)
      /\ Cardinality(Class(states, joinedSet)) \in Nat
      /\ Cardinality(D) = Cardinality(Class(states, joinedSet)) => D = Class(states, joinedSet)
  BY <1>2, <1>5, FS_Subset, FS_CardinalityType
<1>7. Class(states, joinedSet) = D
  BY <1>2, <1>4, <1>6
<1> QED BY <1>1, <1>3, <1>7 DEF Class

\* A record written into a list, or a list merged into a group, makes a list.
LEMMA AddMembrsType ==
    ASSUME TypeOK, NEW a \in Agents, NEW v \in Views, AddMembrs(a, v)
    PROVE  /\ view' \in [Agents -> Views]
           /\ group' \in [Agents -> {"nil", "bare", "full"}]
<1> DEFINE merged == [m \in Agents |-> IF v[m] # 0 THEN v[m] ELSE view[a][m]]
<1>1. view[a] \in Views
  BY DEF TypeOK
<1>2. merged \in Views
  BY <1>1 DEF Views
<1>3. view' = [view EXCEPT ![a] = merged]
  BY DEF AddMembrs, TypeOK
<1> HIDE DEF merged
<1>4. view' \in [Agents -> Views]
  BY <1>2, <1>3 DEF TypeOK
<1>5. group' \in [Agents -> {"nil", "bare", "full"}]
  BY DEF AddMembrs, TypeOK
<1> QED BY <1>4, <1>5

LEMMA RecordType ==
    ASSUME NEW v \in Views, NEW m \in Agents, NEW i \in Nat
    PROVE  [v EXCEPT ![m] = i] \in Views
BY DEF Views

LEMMA EmptyType == Empty \in Views
BY DEF Empty, Views

\* What the helpers of the transport and of notifyAll keep typed.
LEMMA ConnectStateType ==
    ASSUME TypeOK, NEW a \in Agents, NEW m \in Agents, NEW key, ConnectState(a, m, key)
    PROVE  /\ stateConn' \in [Agents -> SUBSET Agents]
           /\ crossed' \subseteq Agents \X Agents
           /\ refs' \in [Agents -> Nat]
BY DEF ConnectState, TypeOK

LEMMA AuthenticateType ==
    ASSUME TypeOK, NEW a \in Agents, NEW m \in Agents, Authenticate(a, m)
    PROVE  /\ keys' \in [Agents -> SUBSET Agents]
           /\ srvKey' \in [Agents -> Agents]
BY DEF Authenticate, TypeOK

LEMMA ConnectDataType ==
    ASSUME TypeOK, NEW a \in Agents, NEW m \in Agents, ConnectData(a, m)
    PROVE  dataConn' \in [Agents -> SUBSET Agents]
BY DEF ConnectData, TypeOK

LEMMA DisconnectStateType ==
    ASSUME TypeOK, NEW a \in Agents, NEW S, DisconnectState(a, S)
    PROVE  /\ stateConn' \in [Agents -> SUBSET Agents]
           /\ links' \subseteq Agents \X Agents
           /\ crossed' \subseteq Agents \X Agents
BY DEF DisconnectState, TypeOK

LEMMA UnsubscribeAllDataType ==
    ASSUME TypeOK, NEW a \in Agents, UnsubscribeAllData(a)
    PROVE  dataConn' \in [Agents -> SUBSET Agents]
BY DEF UnsubscribeAllData, TypeOK

LEMMA NotifyAllType ==
    ASSUME TypeOK, NEW a \in Agents, NEW active \in BOOLEAN, NotifyAll(a, active)
    PROVE  statuses' \subseteq Statuses
<1> SUFFICES ASSUME NEW s \in statuses' \ statuses PROVE s \in Statuses
  BY DEF TypeOK
<1>1. PICK m \in Others(a) :
        s = [from |-> a, to |-> m, active |-> active, inv |-> inv[a], step |-> "sent"]
  BY DEF NotifyAll
<1>2. m \in Agents /\ inv[a] \in Nat
  BY DEF Others, Members, TypeOK
<1> QED BY <1>1, <1>2 DEF Statuses
-----------------------------------------------------------------------------
(* Types *)

LEMMA InitType == Init => TypeOK
<1> SUFFICES ASSUME Init PROVE TypeOK
  OBVIOUS
<1>1. view \in [Agents -> Views] /\ list \in [Agents -> Views]
  BY EmptyType DEF Init
<1> QED BY <1>1 DEF Init, TypeOK, PCs

LEMMA UserType ==
    ASSUME TypeOK, UserStep
    PROVE  TypeOK'
<1> USE DEF store, join, sockets, curve, stuck, PCs, MayStart
<1>1. ASSUME NEW a \in Agents, Create(a) PROVE TypeOK'
  <2>1. view' = [view EXCEPT ![a] = [view[a] EXCEPT ![a] = inv[a] + 1]]
    BY <1>1 DEF Create
  <2>2. inv[a] + 1 \in Nat /\ view[a] \in Views
    BY DEF TypeOK
  <2>3. view' \in [Agents -> Views]
    BY <2>1, <2>2, RecordType DEF TypeOK
  <2> QED BY <1>1, <2>3 DEF Create, TypeOK
<1>2. ASSUME NEW a \in Agents, LeaveState(a) PROVE TypeOK'
  <2>1. refs' \in [Agents -> Nat]
    BY <1>2 DEF LeaveState, Unsubscribe, TypeOK
  <2>2. \E S : DisconnectState(a, S)
    BY <1>2 DEF LeaveState
  <2>3. /\ stateConn' \in [Agents -> SUBSET Agents]
        /\ links' \subseteq Agents \X Agents
        /\ crossed' \subseteq Agents \X Agents
    BY <2>2, DisconnectStateType
  <2>4. /\ pc' \in [Agents -> PCs]
        /\ blocked' \subseteq Agents /\ crashed' \subseteq Agents
    BY <1>2 DEF LeaveState, TypeOK
  <2>5. dataConn' \in [Agents -> SUBSET Agents]
    <3>1. UNCHANGED dataConn \/ UnsubscribeAllData(a)
      BY <1>2 DEF LeaveState
    <3> QED BY <3>1, UnsubscribeAllDataType DEF TypeOK
  <2> QED BY <1>2, <2>1, <2>3, <2>4, <2>5 DEF LeaveState, TypeOK
<1>3. ASSUME NEW a \in Agents, NEW b \in Agents, Join(a, b) PROVE TypeOK'
  BY <1>3 DEF Join, TypeOK
<1> QED BY <1>1, <1>2, <1>3 DEF UserStep

LEMMA JoinType ==
    ASSUME TypeOK, NEW a \in Agents, JoinStep(a)
    PROVE  TypeOK'
<1> USE DEF store, join, sockets, curve, stuck, PCs
<1>1. CASE JoinReqs(a) \/ ReqParams(a) \/ ReqMembers(a)
  <2>1. acceptor[a] \in Agents /\ view[acceptor[a]] \in Views
    BY DEF TypeOK
  <2>2. list' \in [Agents -> Views]
    BY <1>1, <2>1 DEF JoinReqs, ReqParams, ReqMembers, TypeOK
  <2>3. wedged' \subseteq Agents /\ crashed' \subseteq Agents /\ pc' \in [Agents -> PCs]
    BY <1>1, <2>1 DEF JoinReqs, ReqParams, ReqMembers, TypeOK
  <2> QED BY <1>1, <2>2, <2>3 DEF JoinReqs, ReqParams, ReqMembers, TypeOK
<1>2. CASE SetParams(a)
  BY <1>2 DEF SetParams, TypeOK
<1>3. CASE Admit(a)
  <2>1. [list[a] EXCEPT ![a] = inv[a]] \in Views
    BY RecordType DEF TypeOK
  <2>2. view' \in [Agents -> Views] /\ group' \in [Agents -> {"nil", "bare", "full"}]
    <3>1. CASE AddMembrs(a, [list[a] EXCEPT ![a] = inv[a]])
      BY <2>1, <3>1, AddMembrsType
    <3>2. CASE UNCHANGED store
      BY <3>2 DEF TypeOK
    <3> QED BY <1>3, <3>1, <3>2 DEF Admit
  <2>3. pc' \in [Agents -> PCs]
    BY <1>3 DEF Admit, TypeOK
  <2>4. UNCHANGED <<inv, calls, join, sockets, acked, handlers, statuses, stuck>>
    BY <1>3 DEF Admit
  <2> QED BY <2>2, <2>3, <2>4 DEF TypeOK
<1>4. CASE Notify(a)
  <2>1. statuses' \subseteq Statuses
    BY <1>4, NotifyAllType DEF Notify
  <2> QED BY <1>4, <2>1 DEF Notify, TypeOK
<1>5. ASSUME NEW m \in Agents, Subscriptions(m, a) PROVE TypeOK'
  <2>2. handlers' \subseteq Handlers
    BY <1>5 DEF Subscriptions, TypeOK, Handlers
  <2>3. keys' \in [Agents -> SUBSET Agents] /\ srvKey' \in [Agents -> Agents]
    BY <1>5, AuthenticateType DEF Subscriptions
  <2> QED BY <1>5, <2>2, <2>3 DEF Subscriptions, TypeOK
<1>6. ASSUME NEW m \in Agents, ConnectMember(a, m) PROVE TypeOK'
  <2>1. /\ stateConn' \in [Agents -> SUBSET Agents]
        /\ refs' \in [Agents -> Nat]
        /\ crossed' \subseteq Agents \X Agents
        /\ dataConn' \in [Agents -> SUBSET Agents]
        /\ keys' \in [Agents -> SUBSET Agents]
        /\ srvKey' \in [Agents -> Agents]
    BY <1>6, AuthenticateType, ConnectStateType, ConnectDataType DEF ConnectMember
  <2>2. /\ subs' = [subs EXCEPT ![a] = IF a \in Publishers THEN @ \cup {m} ELSE @]
        /\ added' = [added EXCEPT ![a] = @ \cup {m}]
        /\ UNCHANGED <<pc, inv, calls, group, view, acceptor, list, answers, links,
                       acked, handlers, statuses, wedged, blocked, crashed>>
    BY <1>6 DEF ConnectMember
  <2>3. subs' \in [Agents -> SUBSET Agents] /\ added' \in [Agents -> SUBSET Agents]
    BY <2>2 DEF TypeOK
  <2> QED BY <2>1, <2>2, <2>3 DEF TypeOK
<1>7. ASSUME NEW m \in Agents, HelloAck(a, m) PROVE TypeOK'
  BY <1>7 DEF HelloAck, TypeOK
<1> QED BY <1>1, <1>2, <1>3, <1>4, <1>5, <1>6, <1>7 DEF JoinStep

LEMMA LeaveType ==
    ASSUME TypeOK, NEW a \in Agents, LeaveStep(a)
    PROVE  TypeOK'
<1> USE DEF store, join, sockets, curve, stuck, PCs
<1>1. CASE LeaveData(a)
  <2>1. /\ \/ UNCHANGED pc
           \/ pc' = [pc EXCEPT ![a] = "leaveNotify"]
           \/ pc' = [pc EXCEPT ![a] = "idle"]
        /\ UNCHANGED dataConn \/ UnsubscribeAllData(a)
        /\ crashed' \subseteq crashed \cup {a}
        /\ UNCHANGED <<inv, calls, group, view, acceptor, list, answers, added, refs,
                       stateConn, keys, srvKey, crossed, links, subs, acked, handlers,
                       statuses, wedged, blocked>>
    BY <1>1 DEF LeaveData
  <2>2. dataConn' \in [Agents -> SUBSET Agents]
    BY <2>1, UnsubscribeAllDataType DEF TypeOK
  <2>3. pc' \in [Agents -> PCs] /\ crashed' \subseteq Agents
    BY <2>1 DEF TypeOK
  <2> QED BY <2>1, <2>2, <2>3 DEF TypeOK
<1>2. CASE LeaveNotify(a)
  <2>1. statuses' \subseteq Statuses
    BY <1>2, NotifyAllType DEF LeaveNotify, TypeOK
  <2>2. /\ \/ pc' = [pc EXCEPT ![a] = "leaveDelete"]
           \/ pc' = [pc EXCEPT ![a] = "idle"]
        /\ UNCHANGED <<inv, calls, store, join, sockets, acked, handlers, stuck>>
    BY <1>2 DEF LeaveNotify
  <2> QED BY <2>1, <2>2 DEF TypeOK
<1>3. CASE LeaveDelete(a)
  <2>1. /\ subs' \in [Agents -> SUBSET Agents]
        /\ group' \in [Agents -> {"nil", "bare", "full"}]
        /\ view' \in [Agents -> Views]
        /\ pc' \in [Agents -> PCs]
    BY <1>3, EmptyType DEF LeaveDelete, Forget, TypeOK
  <2>2. UNCHANGED <<inv, calls, acceptor, list, answers, added, refs, stateConn,
                    keys, srvKey, crossed, links, dataConn, acked, handlers,
                    statuses, wedged, blocked, crashed>>
    BY <1>3 DEF LeaveDelete
  <2> QED BY <2>1, <2>2 DEF TypeOK
<1> QED BY <1>1, <1>2, <1>3 DEF LeaveStep

LEMMA HandlerType ==
    ASSUME TypeOK, NEW a \in Agents, HandlerStep(a)
    PROVE  TypeOK'
<1> USE DEF store, join, sockets, curve, stuck
<1> PICK h \in handlers : h.at = a /\ (HandlerAnswer(h) \/ HandlerState(h) \/ HandlerData(h))
  BY DEF HandlerStep
<1>1. h \in Handlers /\ h.at \in Agents /\ h.from \in Agents
  BY DEF TypeOK, Handlers
<1>2. CASE HandlerState(h)
  <2>1. [h EXCEPT !.step = "data"] \in Handlers
    BY <1>1 DEF Handlers
  <2>2. /\ stateConn' \in [Agents -> SUBSET Agents]
        /\ crossed' \subseteq Agents \X Agents
        /\ refs' \in [Agents -> Nat]
    BY <1>1, <1>2, ConnectStateType DEF HandlerState
  <2>3. /\ handlers' = (handlers \ {h}) \cup {[h EXCEPT !.step = "data"]}
        /\ UNCHANGED <<pc, inv, calls, group, view, acceptor, list, answers, added,
                       keys, srvKey, links, dataConn, subs, acked, statuses,
                       wedged, blocked, crashed>>
    BY <1>2 DEF HandlerState
  <2> QED BY <2>1, <2>2, <2>3 DEF TypeOK
<1>3. CASE HandlerData(h)
  <2>1. dataConn' \in [Agents -> SUBSET Agents]
    BY <1>1, <1>3, ConnectDataType DEF HandlerData, TypeOK
  <2>2. subs' \in [Agents -> SUBSET Agents]
    <3>1. UNCHANGED subs \/ subs' = [subs EXCEPT ![h.at] = @ \cup {h.from}]
      BY <1>3 DEF HandlerData
    <3>2. CASE UNCHANGED subs
      BY <3>2 DEF TypeOK
    <3>3. CASE subs' = [subs EXCEPT ![h.at] = @ \cup {h.from}]
      BY <1>1, <3>3 DEF TypeOK
    <3> QED BY <3>1, <3>2, <3>3
  <2>3. handlers' \subseteq handlers /\ crashed' \subseteq crashed \cup {h.at}
    BY <1>3 DEF HandlerData
  <2>4. handlers' \subseteq Handlers /\ crashed' \subseteq Agents
    BY <1>1, <2>3 DEF TypeOK
  <2>5. UNCHANGED <<pc, inv, calls, group, view, acceptor, list, answers, added, refs,
                    stateConn, keys, srvKey, crossed, links, acked, statuses, wedged,
                    blocked>>
    BY <1>3 DEF HandlerData
  <2> QED BY <2>1, <2>2, <2>4, <2>5 DEF TypeOK
<1>4. CASE HandlerAnswer(h)
  <2>1. [h EXCEPT !.step = "state"] \in Handlers
    BY <1>1 DEF Handlers
  <2>2. handlers' \subseteq Handlers /\ crashed' \subseteq Agents
    BY <1>1, <1>4, <2>1 DEF HandlerAnswer, TypeOK
  <2>3. answers' \in [Agents -> [Agents -> Views \cup {NoAnswer}]]
    <3>1. /\ view[h.at] \in Views \cup {NoAnswer}
          /\ answers[h.from] \in [Agents -> Views \cup {NoAnswer}]
      BY <1>1 DEF TypeOK
    <3>2. CASE answers' = [answers EXCEPT ![h.from] = [answers[h.from] EXCEPT ![h.at] = view[h.at]]]
      BY <1>1, <3>1, <3>2 DEF TypeOK
    <3>3. CASE UNCHANGED answers
      BY <3>3 DEF TypeOK
    <3> QED BY <1>4, <3>2, <3>3 DEF HandlerAnswer
  <2> QED BY <1>4, <2>2, <2>3 DEF HandlerAnswer, TypeOK
<1> QED BY <1>2, <1>3, <1>4

LEMMA StatusType ==
    ASSUME TypeOK, NEW a \in Agents, StatusStep(a)
    PROVE  TypeOK'
<1> USE DEF store, join, sockets, curve, stuck
<1> PICK s \in statuses : AddMember(s) \/ RemoveState(s) \/ RemoveMember(s)
  BY DEF StatusStep
<1>1. s \in Statuses /\ s.to \in Agents /\ s.from \in Agents /\ s.inv \in Nat
  BY DEF TypeOK, Statuses
<1>2. CASE AddMember(s)
  <2>1. [Empty EXCEPT ![s.from] = s.inv] \in Views
    BY <1>1, EmptyType, RecordType
  <2>2. view' \in [Agents -> Views] /\ group' \in [Agents -> {"nil", "bare", "full"}]
    BY <1>1, <1>2, <2>1, AddMembrsType DEF AddMember
  <2> QED BY <1>2, <2>2 DEF AddMember, TypeOK
<1>3. CASE RemoveState(s)
  <2>1. [s EXCEPT !.step = "disconnected"] \in Statuses
    BY <1>1 DEF Statuses
  <2>2. /\ stateConn' \in [Agents -> SUBSET Agents]
        /\ links' \subseteq Agents \X Agents
        /\ crossed' \subseteq Agents \X Agents
    BY <1>1, <1>3, DisconnectStateType DEF RemoveState, TypeOK
  <2>3. statuses' \subseteq Statuses /\ blocked' \subseteq Agents
    BY <1>1, <1>3, <2>1 DEF RemoveState, TypeOK
  <2> QED BY <1>3, <2>2, <2>3 DEF RemoveState, TypeOK
<1>4. CASE RemoveMember(s)
  <2>1. [view[s.to] EXCEPT ![s.from] = 0] \in Views
    BY <1>1, RecordType DEF TypeOK
  <2>2. view' \in [Agents -> Views]
    BY <1>4, <2>1 DEF RemoveMember, TypeOK
  <2>3. dataConn' \in [Agents -> SUBSET Agents] /\ subs' \in [Agents -> SUBSET Agents]
    <3>1. \/ UNCHANGED <<dataConn, subs>>
          \/ /\ dataConn' = [dataConn EXCEPT ![s.to] = @ \ {s.from}]
             /\ subs' = [subs EXCEPT ![s.to] = @ \ {s.from}]
      BY <1>4 DEF RemoveMember
    <3>2. CASE UNCHANGED <<dataConn, subs>>
      BY <3>2 DEF TypeOK
    <3>3. CASE dataConn' = [dataConn EXCEPT ![s.to] = @ \ {s.from}]
               /\ subs' = [subs EXCEPT ![s.to] = @ \ {s.from}]
      <4>1. dataConn' \in [Agents -> SUBSET Agents]
        BY <1>1, <3>3 DEF TypeOK
      <4>2. subs' \in [Agents -> SUBSET Agents]
        BY <1>1, <3>3 DEF TypeOK
      <4> QED BY <4>1, <4>2
    <3> QED BY <3>1, <3>2, <3>3
  <2>4. statuses' \subseteq Statuses /\ crashed' \subseteq Agents
    BY <1>1, <1>4 DEF RemoveMember, TypeOK
  <2>5. keys' \in [Agents -> SUBSET Agents]
    BY <1>1, <1>4 DEF RemoveMember, TypeOK
  <2> QED BY <1>4, <2>2, <2>3, <2>4, <2>5 DEF RemoveMember, TypeOK
<1> QED BY <1>2, <1>3, <1>4

LEMMA NextType == TypeOK /\ [Next]_vars => TypeOK'
<1> SUFFICES ASSUME TypeOK, [Next]_vars PROVE TypeOK'
  OBVIOUS
<1>1. CASE UNCHANGED vars
  BY <1>1 DEF vars, store, join, sockets, curve, stuck, TypeOK
<1>2. ASSUME NEW a \in Agents, NEW m \in Agents, Establish(a, m) PROVE TypeOK'
  BY <1>2 DEF Establish, store, join, curve, stuck, TypeOK
<1> QED BY <1>1, <1>2, UserType, JoinType, LeaveType, HandlerType, StatusType DEF Next

\* Every variable keeps its type.
THEOREM TypeCorrect == Spec => []TypeOK
BY InitType, NextType, PTL DEF Spec
-----------------------------------------------------------------------------
(* The check of a join *)

\* A server answers one subscription at a time, and as long as it has not the
\* joiner waits for it and connects to nobody.
AnswersDue ==
    /\ \A h \in handlers : h.step = "answer" =>
          /\ pc[h.from] = "subscribe"
          /\ h.at \in Members(list[h.from]) /\ answers[h.from][h.at] = NoAnswer
          /\ \A g \in handlers : g.step = "answer" /\ g.at = h.at => g = h
    /\ \A j \in Agents : pc[j] = "subscribe" /\ added[j] # {} =>
          \A x \in Members(list[j]) : answers[j][x] # NoAnswer

LEMMA InitAnswersDue == Init => AnswersDue
BY DEF Init, AnswersDue

\* A step that leaves the joins alone and starts no handler.
LEMMA AnswersStep ==
    ASSUME TypeOK, AnswersDue, UNCHANGED <<list, answers, added>>,
           \A j \in Agents : pc[j] = "subscribe" <=> pc'[j] = "subscribe",
           \A h \in handlers' : h.step = "answer" => h \in handlers
    PROVE  AnswersDue'
<1>1. \A h \in handlers : h.from \in Agents
  BY DEF TypeOK, Handlers
<1>2. \A h \in handlers' : h.step = "answer" =>
        /\ h \in handlers /\ pc'[h.from] = "subscribe"
        /\ h.at \in Members(list[h.from]) /\ answers[h.from][h.at] = NoAnswer
  BY <1>1 DEF AnswersDue
<1>3. \A h, g \in handlers' : h.step = "answer" /\ g.step = "answer" /\ g.at = h.at => g = h
  BY DEF AnswersDue
<1> QED BY <1>2, <1>3 DEF AnswersDue

LEMMA NextAnswersDue == TypeOK /\ AnswersDue /\ [Next]_vars => AnswersDue'
<1> SUFFICES ASSUME TypeOK, AnswersDue, [Next]_vars PROVE AnswersDue'
  OBVIOUS
<1> USE DEF join
<1>1. CASE UNCHANGED vars
  BY <1>1, AnswersStep DEF vars
<1>2. CASE UserStep
  <2>1. /\ UNCHANGED <<list, answers, added, handlers>>
        /\ \A j \in Agents : pc[j] = "subscribe" <=> pc'[j] = "subscribe"
    BY <1>2 DEF UserStep, Create, Join, LeaveState, MayStart, TypeOK
  <2> QED BY <2>1, AnswersStep
<1>3. ASSUME NEW a \in Agents, JoinStep(a) PROVE AnswersDue'
  <2>1. CASE JoinReqs(a) \/ ReqParams(a) \/ ReqMembers(a)
    <3>1. /\ UNCHANGED <<answers, added, handlers>>
          /\ pc[a] # "subscribe" /\ pc'[a] # "subscribe"
          /\ \A j \in Agents \ {a} : UNCHANGED <<pc[j], list[j]>>
      BY <2>1 DEF JoinReqs, ReqParams, ReqMembers, TypeOK
    <3> QED BY <3>1 DEF AnswersDue, TypeOK, Handlers
  <2>2. CASE SetParams(a)
    <3>1. /\ UNCHANGED <<list, handlers>>
          /\ pc[a] # "subscribe" /\ added'[a] = {}
          /\ \A j \in Agents \ {a} : UNCHANGED <<pc[j], answers[j], added[j]>>
      BY <2>2 DEF SetParams, TypeOK
    <3>2. \A h \in handlers : h.step = "answer" => h.from \in Agents \ {a}
      BY <3>1 DEF AnswersDue, TypeOK, Handlers
    <3> QED BY <3>1, <3>2 DEF AnswersDue
  <2>3. ASSUME NEW m \in Agents, Subscriptions(m, a) PROVE AnswersDue'
    <3>1. /\ UNCHANGED <<pc, list, answers, added>>
          /\ pc[a] = "subscribe" /\ m \in Members(list[a]) /\ answers[a][m] = NoAnswer
          /\ \A h \in handlers : h.step = "answer" => h.at # m
          /\ handlers' \subseteq handlers \cup
                {[at |-> m, from |-> a, inv |-> inv[a], step |-> "answer"]}
      BY <2>3 DEF Subscriptions, Ready
    <3> QED BY <3>1 DEF AnswersDue
  <2>4. ASSUME NEW m \in Agents, ConnectMember(a, m) PROVE AnswersDue'
    <3>1. /\ UNCHANGED <<pc, list, answers, handlers>>
          /\ \A x \in Members(list[a]) : answers[a][x] # NoAnswer
          /\ \A j \in Agents \ {a} : UNCHANGED added[j]
      BY <2>4 DEF ConnectMember, TypeOK
    <3> QED BY <3>1 DEF AnswersDue
  <2>5. CASE Admit(a)
    <3>1. /\ UNCHANGED <<list, answers, added, handlers>>
          /\ pc[a] = "subscribe" /\ added[a] = Members(list[a])
          /\ pc'[a] # "subscribe"
          /\ \A j \in Agents \ {a} : UNCHANGED pc[j]
      BY <2>5 DEF Admit, TypeOK
    <3>2. \A h \in handlers : h.step = "answer" => h.from # a
      BY <3>1 DEF AnswersDue
    <3> QED BY <3>1, <3>2 DEF AnswersDue, TypeOK, Handlers
  <2>6. CASE Notify(a) \/ \E m \in Agents : HelloAck(a, m)
    <3>1. /\ UNCHANGED <<list, answers, added, handlers>>
          /\ \A j \in Agents : pc[j] = "subscribe" <=> pc'[j] = "subscribe"
      BY <2>6 DEF Notify, HelloAck, TypeOK
    <3> QED BY <3>1, AnswersStep
  <2> QED BY <1>3, <2>1, <2>2, <2>3, <2>4, <2>5, <2>6 DEF JoinStep
<1>4. ASSUME NEW a \in Agents, NEW h \in handlers, HandlerAnswer(h) PROVE AnswersDue'
  <2>1. h \in Handlers /\ h.at \in Agents /\ h.from \in Agents
    BY DEF TypeOK, Handlers
  <2>2. /\ UNCHANGED <<pc, list, added>> /\ h.step = "answer"
        /\ \A g \in handlers' : g.step = "answer" => g \in handlers \ {h}
        /\ \A j, x \in Agents : answers'[j][x] # answers[j][x] =>
              j = h.from /\ x = h.at /\ answers'[j][x] = view[x]
    BY <1>4, <2>1 DEF HandlerAnswer, TypeOK, Handlers
  <2>3. \A x \in Agents : view[x] # NoAnswer
    BY MembershipAssumption DEF TypeOK
  <2>4. \A g \in handlers' : g.step = "answer" => g.at # h.at
    BY <2>2 DEF AnswersDue
  <2>5. \A g \in handlers' : g.step = "answer" =>
          /\ g \in handlers /\ g.from \in Agents /\ g.at \in Agents
          /\ answers'[g.from][g.at] = answers[g.from][g.at]
    BY <2>2, <2>4 DEF TypeOK, Handlers
  <2>6. \A j, x \in Agents : answers[j][x] # NoAnswer => answers'[j][x] # NoAnswer
    BY <2>2, <2>3
  <2> QED BY <2>2, <2>5, <2>6 DEF AnswersDue, Members
<1>5. ASSUME NEW a \in Agents, NEW h \in handlers, HandlerState(h) \/ HandlerData(h)
      PROVE  AnswersDue'
  <2>1. h \in Handlers
    BY DEF TypeOK
  <2>2. /\ UNCHANGED <<pc, list, answers, added>>
        /\ \A g \in handlers' : g.step = "answer" => g \in handlers
    BY <1>5, <2>1 DEF HandlerState, HandlerData, Handlers
  <2> QED BY <2>2, AnswersStep
<1>6. ASSUME NEW a \in Agents, LeaveStep(a) \/ StatusStep(a) PROVE AnswersDue'
  <2>1. /\ UNCHANGED <<list, answers, added, handlers>>
        /\ \A j \in Agents : pc[j] = "subscribe" <=> pc'[j] = "subscribe"
    BY <1>6 DEF LeaveStep, LeaveData, LeaveNotify, LeaveDelete, StatusStep, AddMember,
                RemoveState, RemoveMember, TypeOK
  <2> QED BY <2>1, AnswersStep
<1>7. ASSUME NEW a \in Agents, NEW m \in Agents, Establish(a, m) PROVE AnswersDue'
  BY <1>7, AnswersStep DEF Establish
<1> QED BY <1>1, <1>2, <1>3, <1>4, <1>5, <1>6, <1>7 DEF Next, HandlerStep

\* A joiner that passed the check still holds what it checked: nothing touches
\* the arguments of Consistent while it waits for its connections.
Checked == \A j \in Agents : pc[j] = "wait" /\ JoinConsistent => Consistent(j)

LEMMA InitChecked == Init => Checked
BY DEF Init, Checked

LEMMA NextChecked == TypeOK /\ AnswersDue /\ Checked /\ [Next]_vars => Checked'
<1> SUFFICES ASSUME TypeOK, AnswersDue, Checked, [Next]_vars,
                    NEW j \in Agents, pc'[j] = "wait", JoinConsistent
             PROVE  Consistent(j)'
  BY DEF Checked
<1> USE DEF join
<1>1. UNCHANGED <<acceptor[j], list[j], answers[j]>> => Consistent(j)' = Consistent(j)
  BY DEF Consistent
<1>2. CASE pc[j] = "wait"
  <2>1. UNCHANGED <<acceptor[j], list[j], answers[j]>>
    <3>1. CASE UNCHANGED vars
      BY <3>1 DEF vars
    <3>2. CASE UserStep
      BY <1>2, <3>2 DEF UserStep, Create, Join, LeaveState, MayStart, TypeOK
    <3>3. ASSUME NEW a \in Agents, JoinStep(a) PROVE UNCHANGED <<acceptor[j], list[j], answers[j]>>
      <4>1. CASE JoinReqs(a) \/ ReqParams(a) \/ ReqMembers(a)
        BY <1>2, <4>1 DEF JoinReqs, ReqParams, ReqMembers, TypeOK
      <4>2. CASE SetParams(a)
        BY <1>2, <4>2 DEF SetParams, TypeOK
      <4>3. ASSUME NEW m \in Agents, Subscriptions(m, a)
            PROVE  UNCHANGED <<acceptor[j], list[j], answers[j]>>
        BY <4>3 DEF Subscriptions
      <4>4. ASSUME NEW m \in Agents, ConnectMember(a, m)
            PROVE  UNCHANGED <<acceptor[j], list[j], answers[j]>>
        BY <4>4 DEF ConnectMember
      <4>5. CASE Admit(a) \/ Notify(a) \/ \E m \in Agents : HelloAck(a, m)
        BY <4>5 DEF Admit, Notify, HelloAck
      <4> QED BY <3>3, <4>1, <4>2, <4>3, <4>4, <4>5 DEF JoinStep
    <3>4. ASSUME NEW a \in Agents, LeaveStep(a) \/ HandlerStep(a) \/ StatusStep(a)
          PROVE  UNCHANGED <<acceptor[j], list[j], answers[j]>>
      <4>1. ASSUME NEW h \in handlers, HandlerAnswer(h)
            PROVE  UNCHANGED <<acceptor[j], list[j], answers[j]>>
        <5>1. h.from # j
          BY <1>2, <4>1 DEF HandlerAnswer, AnswersDue
        <5> QED BY <4>1, <5>1 DEF HandlerAnswer, TypeOK
      <4> QED BY <3>4, <4>1 DEF LeaveStep, LeaveData, LeaveNotify, LeaveDelete, HandlerStep,
                  HandlerState, HandlerData, StatusStep, AddMember, RemoveState, RemoveMember
    <3>5. ASSUME NEW a \in Agents, NEW m \in Agents, Establish(a, m)
          PROVE  UNCHANGED <<acceptor[j], list[j], answers[j]>>
      BY <3>5 DEF Establish
    <3> QED BY <3>1, <3>2, <3>3, <3>4, <3>5 DEF Next
  <2> QED BY <1>1, <1>2, <2>1 DEF Checked
<1>3. CASE pc[j] # "wait"
  <2>1. Admit(j)
    <3>1. CASE UNCHANGED vars
      BY <1>3, <3>1 DEF vars
    <3>2. CASE UserStep
      BY <1>3, <3>2 DEF UserStep, Create, Join, LeaveState, TypeOK
    <3>3. ASSUME NEW a \in Agents, JoinStep(a) PROVE Admit(j)
      BY <1>3, <3>3 DEF JoinStep, JoinReqs, ReqParams, ReqMembers, SetParams, Subscriptions,
                        ConnectMember, Admit, HelloAck, Notify, TypeOK
    <3>4. ASSUME NEW a \in Agents, LeaveStep(a) \/ HandlerStep(a) \/ StatusStep(a)
          PROVE  FALSE
      BY <1>3, <3>4 DEF LeaveStep, LeaveData, LeaveNotify, LeaveDelete, HandlerStep,
                  HandlerAnswer, HandlerState, HandlerData, StatusStep, AddMember,
                  RemoveState, RemoveMember, TypeOK
    <3>5. ASSUME NEW a \in Agents, NEW m \in Agents, Establish(a, m) PROVE FALSE
      BY <1>3, <3>5 DEF Establish
    <3> QED BY <3>1, <3>2, <3>3, <3>4, <3>5 DEF Next
  <2>2. Consistent(j)
    BY <2>1 DEF Admit, TypeOK
  <2>3. UNCHANGED <<acceptor[j], list[j], answers[j]>>
    BY <2>1 DEF Admit
  <2> QED BY <1>1, <2>2, <2>3
<1> QED BY <1>2, <1>3

LEMMA CheckedMeansEqual == Checked => AdmittedConsistently
<1> SUFFICES ASSUME Checked, NEW j \in Agents, JoinConsistent, pc[j] = "wait",
                    Cardinality(Members(list[j])) > 1
             PROVE  \A m \in Members(list[j]) \ {acceptor[j]} : answers[j][m] = list[j]
  BY DEF AdmittedConsistently
<1> DEFINE grpHashes == [m \in Members(list[j]) |-> answers[j][m]]
<1>1. ValidJoin(acceptor[j], list[j], grpHashes)
  BY DEF Checked, Consistent
<1>2. IsFiniteSet(DOMAIN grpHashes)
  BY MembershipAssumption, FS_Subset DEF Members
<1>3. \A m \in DOMAIN grpHashes \ {acceptor[j]} : grpHashes[m] = list[j]
  BY <1>1, <1>2, ValidJoinMeansEqual
<1> QED BY <1>3

\* Whatever joins and leaves meanwhile, a joiner is admitted with the list
\* every member but the acceptor returned.
THEOREM AdmittedConsistentlyHolds == Spec => []AdmittedConsistently
<1>1. Init => TypeOK /\ AnswersDue /\ Checked
  BY InitType, InitAnswersDue, InitChecked
<1>2. TypeOK /\ AnswersDue /\ Checked /\ [Next]_vars => (TypeOK /\ AnswersDue /\ Checked)'
  BY NextType, NextAnswersDue, NextChecked
<1>3. Spec => [](TypeOK /\ AnswersDue /\ Checked)
  BY <1>1, <1>2, PTL DEF Spec
<1> QED BY <1>3, CheckedMeansEqual, PTL
-----------------------------------------------------------------------------
(* Failed joins *)

\* No call has brought j into the group yet: it made no invitation, or its only
\* one is that of a Join which is under way or has failed.
Before == {"reqState", "reqParams", "reqMembers", "setParams", "subscribe"}

Outside(j) ==
    \/ inv[j] = 0
    \/ /\ inv[j] = 1 /\ ~InGroup(j)
       /\ pc[j] \in Before \/ group[j] = "full"

\* Nobody has heard of such an agent, and it has heard of nobody.
OutsideUnknown ==
    \A j \in Agents : Outside(j) =>
        /\ \A a \in Agents : view[a][j] = 0 /\ list[a][j] = 0 /\ view[j][a] = 0
        /\ \A s \in statuses : s.from # j /\ s.to # j

\* Who joins has made an invitation.
JoinInvited ==
    \A j \in Agents : pc[j] \in Before \cup {"wait"} => inv[j] # 0

\* Nobody sends a status to itself.
StatusToOther == \A s \in statuses : s.from # s.to

UInv == TypeOK /\ OutsideUnknown /\ JoinInvited /\ StatusToOther

LEMMA InitUInv == Init => UInv
<1> SUFFICES ASSUME Init PROVE UInv
  OBVIOUS
<1>1. OutsideUnknown /\ JoinInvited /\ StatusToOther
  BY DEF Init, Empty, OutsideUnknown, JoinInvited, StatusToOther, Before
<1> QED BY <1>1, InitType DEF UInv

\* A step that keeps lists, statuses and invitations, and lets nobody outside.
LEMMA OutsideStep ==
    ASSUME UInv, TypeOK', UNCHANGED <<inv, view, list, statuses>>,
           \A j \in Agents : \/ UNCHANGED <<pc[j], group[j]>>
                             \/ pc[j] = "setParams"
                             \/ /\ UNCHANGED group[j]
                                /\ pc'[j] \notin Before \cup {"wait"}
                             \/ /\ UNCHANGED group[j]
                                /\ pc[j] \in Before /\ pc'[j] \in Before
    PROVE  UInv'
<1>1. \A j \in Agents : Outside(j)' => Outside(j)
  BY DEF Outside, InGroup, Before
<1>2. OutsideUnknown'
  BY <1>1 DEF UInv, OutsideUnknown
<1>3. JoinInvited' /\ StatusToOther'
  BY DEF UInv, JoinInvited, Before, StatusToOther
<1> QED BY <1>2, <1>3 DEF UInv

LEMMA CreateU ==
    ASSUME UInv, TypeOK', NEW a \in Agents, Create(a)
    PROVE  UInv'
<1> USE DEF join
<1>1. /\ UNCHANGED <<pc, list, statuses>>
      /\ \A x \in Agents : inv'[x] = IF x = a THEN inv[a] + 1 ELSE inv[x]
      /\ \A x \in Agents \ {a} : UNCHANGED <<view[x], group[x]>>
      /\ \A m \in Agents : view'[a][m] = IF m = a THEN inv[a] + 1 ELSE view[a][m]
  BY DEF Create, UInv, TypeOK, Views
<1>2. inv[a] \in Nat
  BY DEF UInv, TypeOK
<1>3. \A j \in Agents : Outside(j)' => j # a /\ Outside(j)
  BY <1>1, <1>2 DEF Outside, InGroup, Before
<1>4. \A x, m \in Agents : m # a => view'[x][m] = view[x][m]
  BY <1>1
<1>5. OutsideUnknown'
  BY <1>1, <1>3, <1>4 DEF UInv, OutsideUnknown
<1>6. JoinInvited' /\ StatusToOther'
  BY <1>1, <1>2 DEF UInv, JoinInvited, Before, StatusToOther
<1> QED BY <1>5, <1>6 DEF UInv

\* The first Join comes from outside.
LEMMA JoinU ==
    ASSUME UInv, TypeOK', NEW j \in Agents, NEW c \in Agents, Join(j, c)
    PROVE  UInv'
<1>1. /\ UNCHANGED <<view, group, list, statuses>>
      /\ \A x \in Agents : inv'[x] = IF x = j THEN inv[j] + 1 ELSE inv[x]
      /\ \A x \in Agents \ {j} : pc'[x] = pc[x]
  BY DEF Join, store, UInv, TypeOK
<1>2. inv[j] \in Nat
  BY DEF UInv, TypeOK
<1>3. \A x \in Agents : Outside(x)' => Outside(x)
  BY <1>1, <1>2 DEF Outside, InGroup, Before
<1>4. OutsideUnknown'
  BY <1>1, <1>3 DEF UInv, OutsideUnknown
<1>5. JoinInvited' /\ StatusToOther'
  BY <1>1, <1>2 DEF UInv, JoinInvited, Before, StatusToOther
<1> QED BY <1>4, <1>5 DEF UInv

\* The acceptor knows nobody outside, so its answer names nobody outside.
LEMMA ReqMembersU ==
    ASSUME UInv, TypeOK', NEW j \in Agents, ReqMembers(j)
    PROVE  UInv'
<1>1. /\ UNCHANGED <<inv, view, group, statuses>>
      /\ \A x \in Agents : pc'[x] = pc[x] \/ x = j
      /\ pc[j] = "reqMembers"
  BY DEF ReqMembers, store, UInv, TypeOK
<1>2. acceptor[j] \in Agents
  BY DEF UInv, TypeOK
<1>3. \A x \in Agents : list'[x] = list[x] \/ list'[x] = view[acceptor[j]]
  BY DEF ReqMembers, UInv, TypeOK
<1>4. \A x \in Agents : Outside(x)' => Outside(x)
  BY <1>1 DEF Outside, InGroup, Before
<1>5. OutsideUnknown'
  BY <1>1, <1>2, <1>3, <1>4 DEF UInv, OutsideUnknown
<1>6. JoinInvited' /\ StatusToOther'
  BY <1>1 DEF UInv, JoinInvited, StatusToOther, Before
<1> QED BY <1>5, <1>6 DEF UInv

\* A joiner is outside no more once admitted; one that failed the check still is.
LEMMA AdmitU ==
    ASSUME UInv, TypeOK', NEW j \in Agents, Admit(j)
    PROVE  UInv'
<1>1. /\ UNCHANGED <<inv, list, statuses>> /\ pc[j] = "subscribe"
      /\ \A x \in Agents \ {j} : pc'[x] = pc[x]
  BY DEF Admit, join, UInv, TypeOK
<1>2. inv[j] # 0
  BY <1>1 DEF UInv, JoinInvited, Before
<1>3. JoinInvited' /\ StatusToOther'
  BY <1>1, <1>2 DEF UInv, JoinInvited, Before, StatusToOther
<1>4. CASE UNCHANGED store
  <2>1. \A x \in Agents : Outside(x)' => Outside(x)
    BY <1>1, <1>4 DEF Outside, InGroup, Before, store
  <2> QED BY <1>1, <1>3, <1>4, <2>1 DEF UInv, OutsideUnknown, store
<1>5. CASE AddMembrs(j, [list[j] EXCEPT ![j] = inv[j]])
  <2>1. /\ \A x \in Agents \ {j} : UNCHANGED <<view[x], group[x]>>
        /\ \A m \in Agents : m # j =>
              view'[j][m] = IF list[j][m] # 0 THEN list[j][m] ELSE view[j][m]
        /\ view'[j][j] = inv[j]
    BY <1>2, <1>5 DEF AddMembrs, UInv, TypeOK, Views
  <2>2. \A x \in Agents : Outside(x)' => x # j /\ Outside(x)
    BY <1>1, <1>2, <2>1 DEF Outside, InGroup, Before
  <2>3. \A x \in Agents : x # j /\ Outside(x) => \A a \in Agents : view'[a][x] = 0
    BY <2>1 DEF UInv, OutsideUnknown
  <2>4. OutsideUnknown'
    BY <1>1, <2>1, <2>2, <2>3 DEF UInv, OutsideUnknown
  <2> QED BY <1>3, <2>4 DEF UInv
<1> QED BY <1>4, <1>5 DEF Admit

\* Statuses go to those the sender lists, none of which is outside, and an
\* agent outside lists nobody.
LEMMA NotifyAllU ==
    ASSUME UInv, NEW a \in Agents, NEW active \in BOOLEAN, NotifyAll(a, active)
    PROVE  /\ \A s \in statuses' \ statuses : /\ s.from = a
                                              /\ s.to \in Agents \ {a}
                                              /\ view[a][s.to] # 0
           /\ StatusToOther'
           /\ \A j \in Agents : Outside(j) => \A s \in statuses' : s.from # j /\ s.to # j
<1>1. \A s \in statuses' \ statuses : /\ s.from = a
                                      /\ s.to \in Agents \ {a}
                                      /\ view[a][s.to] # 0
  BY DEF NotifyAll, Others, Members
<1>2. StatusToOther'
  BY <1>1 DEF UInv, StatusToOther
<1>3. \A j \in Agents : Outside(j) => \A s \in statuses' : s.from # j /\ s.to # j
  BY <1>1 DEF UInv, OutsideUnknown
<1> QED BY <1>1, <1>2, <1>3

LEMMA NotifyU ==
    ASSUME UInv, TypeOK', NEW a \in Agents, Notify(a) \/ LeaveNotify(a)
    PROVE  UInv'
<1>1. /\ UNCHANGED <<inv, view, list, group>>
      /\ \A x \in Agents \ {a} : pc'[x] = pc[x]
      /\ pc'[a] \in {"idle", "leaveDelete"}
  <2>1. UNCHANGED <<inv, view, list, group>>
    BY DEF Notify, LeaveNotify, join, store
  <2>2. \E step \in {"idle", "leaveDelete"} : pc' = [pc EXCEPT ![a] = step]
    BY DEF Notify, LeaveNotify
  <2> QED BY <2>1, <2>2 DEF UInv, TypeOK
<1>2. statuses' = statuses \/ \E active \in BOOLEAN : NotifyAll(a, active)
  BY DEF Notify, LeaveNotify
<1>3. /\ StatusToOther'
      /\ \A j \in Agents : Outside(j) => \A s \in statuses' : s.from # j /\ s.to # j
  <2>1. CASE statuses' = statuses
    BY <2>1 DEF UInv, StatusToOther, OutsideUnknown
  <2>2. CASE \E active \in BOOLEAN : NotifyAll(a, active)
    BY <2>2, NotifyAllU
  <2> QED BY <1>2, <2>1, <2>2
<1>4. \A x \in Agents : Outside(x)' => Outside(x)
  BY <1>1 DEF Outside, InGroup, Before
<1>5. OutsideUnknown'
  BY <1>1, <1>3, <1>4 DEF UInv, OutsideUnknown
<1>6. JoinInvited'
  BY <1>1 DEF UInv, JoinInvited, Before
<1> QED BY <1>3, <1>5, <1>6 DEF UInv

\* Who has left has no group any more.
LEMMA LeaveDeleteU ==
    ASSUME UInv, TypeOK', NEW a \in Agents, LeaveDelete(a)
    PROVE  UInv'
<1>1. /\ UNCHANGED <<inv, list, statuses>> /\ pc[a] = "leaveDelete"
      /\ \A x \in Agents \ {a} : UNCHANGED <<view[x], group[x], pc[x]>>
      /\ pc'[a] = "idle" /\ group'[a] = "nil" /\ view'[a] = Empty
  BY DEF LeaveDelete, Forget, join, UInv, TypeOK
<1>2. \A x \in Agents : Outside(x)' => Outside(x)
  BY <1>1 DEF Outside, InGroup, Before
<1>3. \A x, m \in Agents : view'[x][m] # 0 => view[x][m] # 0
  BY <1>1 DEF Empty
<1>4. OutsideUnknown'
  BY <1>1, <1>2, <1>3 DEF UInv, OutsideUnknown
<1>5. JoinInvited' /\ StatusToOther'
  BY <1>1 DEF UInv, JoinInvited, Before, StatusToOther
<1> QED BY <1>4, <1>5 DEF UInv

\* The sender and the receiver of a status are not outside.
LEMMA AddMemberU ==
    ASSUME UInv, TypeOK', NEW s \in statuses, AddMember(s)
    PROVE  UInv'
<1>1. s.to \in Agents /\ s.from \in Agents
  BY DEF UInv, TypeOK, Statuses
<1>2. /\ UNCHANGED <<inv, pc, list>> /\ statuses' \subseteq statuses
      /\ \A x \in Agents \ {s.to} : UNCHANGED <<view[x], group[x]>>
      /\ \A m \in Agents : view'[s.to][m] # 0 => view[s.to][m] # 0 \/ m = s.from
      /\ view'[s.to][s.to] = view[s.to][s.to]
      /\ group'[s.to] = "full" => group[s.to] = "full"
  BY <1>1 DEF AddMember, AddMembrs, Empty, join, UInv, StatusToOther, TypeOK, Views
<1>3. \A x \in Agents : Outside(x)' => Outside(x)
  BY <1>2 DEF Outside, InGroup, Before
<1>4. ~Outside(s.to) /\ ~Outside(s.from)
  BY <1>1 DEF UInv, OutsideUnknown
<1>5. OutsideUnknown'
  BY <1>2, <1>3, <1>4 DEF UInv, OutsideUnknown
<1>6. JoinInvited' /\ StatusToOther'
  BY <1>2 DEF UInv, JoinInvited, Before, StatusToOther
<1> QED BY <1>5, <1>6 DEF UInv

LEMMA RemoveU ==
    ASSUME UInv, TypeOK', NEW s \in statuses, RemoveState(s) \/ RemoveMember(s)
    PROVE  UInv'
<1>1. s.to \in Agents /\ s.from \in Agents /\ s.from # s.to
  BY DEF UInv, TypeOK, Statuses, StatusToOther
<1>2. /\ UNCHANGED <<inv, pc, list, group>>
      /\ \A x, m \in Agents : view'[x][m] # 0 => view[x][m] # 0
      /\ \A x \in Agents : view'[x][x] = view[x][x]
  <2>1. UNCHANGED <<inv, pc, list, group>>
    BY DEF RemoveState, RemoveMember, store, join
  <2>2. view' = view \/ view' = [view EXCEPT ![s.to][s.from] = 0]
    BY DEF RemoveState, RemoveMember, store
  <2>3. view \in [Agents -> [Agents -> Nat]]
    BY DEF UInv, TypeOK, Views
  <2> QED BY <1>1, <2>1, <2>2, <2>3
<1>3. \A t \in statuses' : \E u \in statuses : t.from = u.from /\ t.to = u.to
  <2>1. s \in Statuses
    BY DEF UInv, TypeOK
  <2>2. /\ [s EXCEPT !.step = "disconnected"].from = s.from
        /\ [s EXCEPT !.step = "disconnected"].to = s.to
    BY <2>1 DEF Statuses
  <2>3. statuses' \subseteq statuses \cup {[s EXCEPT !.step = "disconnected"]}
    BY DEF RemoveState, RemoveMember
  <2> QED BY <2>2, <2>3
<1>4. \A x \in Agents : Outside(x)' => Outside(x)
  BY <1>2 DEF Outside, InGroup, Before
<1>5. OutsideUnknown'
  BY <1>2, <1>3, <1>4 DEF UInv, OutsideUnknown
<1>6. JoinInvited' /\ StatusToOther'
  BY <1>2, <1>3 DEF UInv, JoinInvited, Before, StatusToOther
<1> QED BY <1>5, <1>6 DEF UInv

LEMMA NextUInv == UInv /\ [Next]_vars => UInv'
<1> SUFFICES ASSUME UInv, [Next]_vars PROVE UInv'
  OBVIOUS
<1> USE DEF store, join
<1>1. TypeOK'
  BY NextType DEF UInv
<1>2. CASE UNCHANGED vars
  BY <1>1, <1>2, OutsideStep DEF vars
<1>3. CASE UserStep
  <2>1. ASSUME NEW a \in Agents, LeaveState(a) PROVE UInv'
    <3>1. /\ UNCHANGED <<inv, view, list, statuses, group>>
          /\ \A x \in Agents : pc'[x] = pc[x] \/ pc'[x] = "leaveData"
      BY <2>1 DEF LeaveState, UInv, TypeOK
    <3> QED BY <1>1, <3>1, OutsideStep DEF Before
  <2> QED BY <1>1, <1>3, <2>1, CreateU, JoinU DEF UserStep
<1>4. ASSUME NEW a \in Agents, JoinStep(a) PROVE UInv'
  <2>1. CASE SetParams(a)
    <3>1. /\ UNCHANGED <<inv, view, list, statuses>> /\ pc[a] = "setParams"
          /\ \A x \in Agents \ {a} : UNCHANGED <<pc[x], group[x]>>
      BY <2>1 DEF SetParams, UInv, TypeOK
    <3> QED BY <1>1, <3>1, OutsideStep
  <2>3. CASE JoinReqs(a) \/ ReqParams(a)
    <3>1. /\ UNCHANGED <<inv, view, list, statuses, group>> /\ pc[a] \in Before
          /\ \A x \in Agents : pc'[x] = pc[x] \/ (x = a /\ pc'[x] \in Before)
      BY <2>3 DEF JoinReqs, ReqParams, UInv, TypeOK, Before
    <3> QED BY <1>1, <3>1, OutsideStep
  <2>2. ASSUME NEW m \in Agents, Subscriptions(m, a) \/ ConnectMember(a, m) \/ HelloAck(a, m)
        PROVE  UInv'
    <3>1. UNCHANGED <<inv, view, list, statuses, pc, group>>
      BY <2>2 DEF Subscriptions, ConnectMember, HelloAck
    <3> QED BY <1>1, <3>1, OutsideStep
  <2> QED BY <1>1, <1>4, <2>1, <2>2, <2>3, ReqMembersU, AdmitU, NotifyU DEF JoinStep
<1>5. ASSUME NEW a \in Agents, LeaveStep(a) PROVE UInv'
  <2>1. CASE LeaveData(a)
    <3>1. /\ UNCHANGED <<inv, view, list, statuses, group>>
          /\ \A x \in Agents : pc'[x] = pc[x] \/ pc'[x] \in {"leaveNotify", "idle"}
      BY <2>1 DEF LeaveData, UInv, TypeOK
    <3> QED BY <1>1, <3>1, OutsideStep DEF Before
  <2> QED BY <1>1, <1>5, <2>1, NotifyU, LeaveDeleteU DEF LeaveStep
<1>6. ASSUME NEW a \in Agents, HandlerStep(a) PROVE UInv'
  <2>1. UNCHANGED <<inv, view, list, statuses, pc, group>>
    BY <1>6 DEF HandlerStep, HandlerAnswer, HandlerState, HandlerData
  <2> QED BY <1>1, <2>1, OutsideStep
<1>7. ASSUME NEW a \in Agents, StatusStep(a) PROVE UInv'
  BY <1>1, <1>7, AddMemberU, RemoveU DEF StatusStep
<1>8. ASSUME NEW a \in Agents, NEW m \in Agents, Establish(a, m) PROVE UInv'
  <2>1. UNCHANGED <<inv, view, list, statuses, pc, group>>
    BY <1>8 DEF Establish
  <2> QED BY <1>1, <2>1, OutsideStep
<1> QED BY <1>2, <1>3, <1>4, <1>5, <1>6, <1>7, <1>8 DEF Next

\* Whatever joins and leaves meanwhile, an agent whose only Join failed the
\* check is on nobody's list and has no status on its way.
THEOREM FailedJoinUnlistedHolds == Spec => []FailedJoinUnlisted
<1>1. UInv => FailedJoinUnlisted
  BY DEF UInv, OutsideUnknown, Outside, FailedJoinUnlisted
<1>2. UInv /\ [Next]_vars => UInv'
  BY NextUInv
<1> QED BY InitUInv, <1>1, <1>2, PTL DEF Spec
-----------------------------------------------------------------------------
(* Groups nobody leaves *)

\* Nobody is leaving, nor was, and nothing broke.
OnlyJoins == /\ \A a \in Agents : pc[a] \in Before \cup {"idle", "wait"}
             /\ \A s \in statuses : s.active /\ s.step = "sent"
             /\ NoneBroken

\* Who is on a list, in a store or in an answer, is in the group.
ListedInGroup == \A a, m \in Agents : view[a][m] # 0 \/ list[a][m] # 0 => InGroup(m)

\* A group with members has its params.
ParamsSet == \A a \in Agents :
                (\E m \in Agents : view[a][m] # 0) \/ pc[a] \in {"subscribe", "wait"} =>
                    group[a] = "full"

\* A joiner has made its invitation, and is in its own group before it waits.
JoinerKnown == \A a \in Agents : /\ pc[a] # "idle" => inv[a] # 0
                                 /\ pc[a] = "wait" => InGroup(a)

\* A status comes from a member that lists its receiver.
StatusSent == \A s \in statuses : /\ s.from # s.to
                                  /\ s.inv # 0
                                  /\ InGroup(s.from)
                                  /\ view[s.from][s.to] # 0

\* A subscription is finished by a member.
HandlerInGroup == \A h \in handlers : InGroup(h.at)

\* Who has acked a hello keeps hearing the one who sent it.
AckedHear == \A a \in Agents : \A m \in acked[a] : <<m, a>> \in links /\ refs[m] > 0

\* The second part of KnownByList, with the members a waiting joiner has to notify.
MutualOrListed ==
    \A j \in Agents : \A m \in Others(j) :
        \/ InGroup(m) /\ view[m][j] # 0
        \/ \E s \in statuses : s.from = j /\ s.to = m /\ s.active
        \/ pc[j] = "wait" /\ list[j][m] # 0

JInv == /\ TypeOK
        /\ OnlyJoins
        /\ ListedInGroup
        /\ ParamsSet
        /\ JoinerKnown
        /\ StatusSent
        /\ HandlerInGroup
        /\ AckedHear
        /\ MutualOrListed
-----------------------------------------------------------------------------
LEMMA InitJInv == Init => JInv
<1> SUFFICES ASSUME Init PROVE JInv
  OBVIOUS
<1>1. TypeOK
  BY InitType
<1>2. OnlyJoins /\ JoinerKnown /\ StatusSent /\ HandlerInGroup /\ AckedHear
  BY DEF Init, OnlyJoins, Before, NoneBroken, JoinerKnown, StatusSent, HandlerInGroup, AckedHear
<1>3. \A a, m \in Agents : view[a][m] = 0 /\ list[a][m] = 0
  BY DEF Init, Empty
<1>4. ListedInGroup /\ ParamsSet /\ MutualOrListed
  BY <1>3 DEF Init, ListedInGroup, ParamsSet, MutualOrListed, Others, Members
<1> QED BY <1>1, <1>2, <1>4 DEF JInv

\* Steps that only add connections, subscriptions, handlers of members and
\* acks of agents that hear.
LEMMA SocketStep ==
    ASSUME JInv, TypeOK', HandlerInGroup', AckedHear',
           UNCHANGED <<pc, inv, view, group, list, statuses, blocked, crashed>>
    PROVE  JInv'
<1>1. OnlyJoins' /\ ListedInGroup' /\ ParamsSet' /\ JoinerKnown' /\ StatusSent'
  BY DEF JInv, OnlyJoins, Before, NoneBroken, ListedInGroup, ParamsSet, JoinerKnown,
         StatusSent, InGroup
<1>2. MutualOrListed'
  BY DEF JInv, MutualOrListed, Others, Members, InGroup
<1> QED BY <1>1, <1>2 DEF JInv

LEMMA ConnectStateGrows ==
    ASSUME TypeOK, NEW a \in Agents, NEW m \in Agents, NEW key, ConnectState(a, m, key)
    PROVE  \A x \in Agents : refs[x] > 0 => refs'[x] > 0
BY DEF ConnectState, TypeOK

\* Steps that enlarge lists keep who is on one in the group.
Grows == \A a, m \in Agents : view[a][m] # 0 => view'[a][m] # 0

LEMMA CreateJ ==
    ASSUME JInv, TypeOK', NEW a \in Agents, Create(a)
    PROVE  JInv'
<1> USE DEF join, sockets, curve, stuck
<1>1. /\ view' = [view EXCEPT ![a] = [view[a] EXCEPT ![a] = inv[a] + 1]]
      /\ group' = [group EXCEPT ![a] = "full"]
      /\ inv' = [inv EXCEPT ![a] = @ + 1]
      /\ UNCHANGED <<pc, acceptor, list, links, refs, acked, handlers, statuses, blocked, crashed>>
  BY DEF Create
<1>2. TypeOK /\ inv[a] \in Nat
  BY DEF JInv, TypeOK
<1>3. /\ Grows /\ view'[a][a] # 0
      /\ \A x, m \in Agents : x # a \/ m # a => view'[x][m] = view[x][m]
  BY <1>1, <1>2 DEF TypeOK, Views, Grows
<1>4. /\ \A x \in Agents \ {a} : group'[x] = group[x] /\ inv'[x] = inv[x]
      /\ group'[a] = "full" /\ inv'[a] # 0
  BY <1>1, <1>2 DEF TypeOK
<1>5. OnlyJoins' /\ AckedHear'
  BY <1>1 DEF JInv, OnlyJoins, Before, NoneBroken, AckedHear
<1>6. ListedInGroup' /\ JoinerKnown' /\ HandlerInGroup'
  <2>1. \A x \in Agents : InGroup(x) => InGroup(x)'
    BY <1>3 DEF Grows, InGroup
  <2>2. \A h \in handlers : h.at \in Agents
    BY <1>2 DEF TypeOK, Handlers
  <2>3. InGroup(a)'
    BY <1>3 DEF InGroup
  <2> QED BY <1>1, <1>3, <1>4, <2>1, <2>2, <2>3
          DEF JInv, ListedInGroup, JoinerKnown, HandlerInGroup
<1>7. ParamsSet'
  BY <1>1, <1>3, <1>4 DEF JInv, ParamsSet
<1>8. StatusSent'
  BY <1>1, <1>2, <1>3 DEF JInv, StatusSent, InGroup, Grows, TypeOK, Statuses
<1>9. MutualOrListed'
  <2>1. \A j \in Agents : Others(j)' = Others(j)
    BY <1>3 DEF Others, Members
  <2> QED BY <1>1, <1>3, <2>1 DEF JInv, MutualOrListed, InGroup, Grows, Others, Members
<1> QED BY <1>5, <1>6, <1>7, <1>8, <1>9 DEF JInv

LEMMA JoinJ ==
    ASSUME JInv, TypeOK', NEW j \in Agents, NEW accptr \in Agents, Join(j, accptr)
    PROVE  JInv'
<1> USE DEF store, sockets, curve, stuck
<1>1. /\ pc' = [pc EXCEPT ![j] = "reqState"] /\ pc[j] = "idle"
      /\ inv' = [inv EXCEPT ![j] = @ + 1]
      /\ UNCHANGED <<view, group, list, links, refs, acked, handlers, statuses, blocked, crashed>>
  BY DEF Join, MayStart
<1>2. /\ pc'[j] = "reqState" /\ inv'[j] # 0
      /\ \A x \in Agents \ {j} : pc'[x] = pc[x] /\ inv'[x] = inv[x]
  BY <1>1 DEF JInv, TypeOK
<1>3. OnlyJoins' /\ ListedInGroup' /\ StatusSent' /\ HandlerInGroup' /\ AckedHear'
  BY <1>1, <1>2 DEF JInv, OnlyJoins, Before, NoneBroken, ListedInGroup, StatusSent, HandlerInGroup,
                    AckedHear, InGroup
<1>4. ParamsSet' /\ JoinerKnown'
  BY <1>1, <1>2 DEF JInv, ParamsSet, JoinerKnown, InGroup
<1>5. MutualOrListed'
  BY <1>1, <1>2 DEF JInv, MutualOrListed, Others, Members, InGroup
<1> QED BY <1>3, <1>4, <1>5 DEF JInv

\* A step from one stage of the join request to the next.
LEMMA StageStep ==
    ASSUME JInv, TypeOK', NEW j \in Agents,
           pc[j] \in {"reqState", "reqParams", "reqMembers"},
           pc'[j] \in {"reqState", "reqParams", "reqMembers", "setParams"},
           \A x \in Agents \ {j} : pc'[x] = pc[x] /\ list'[x] = list[x],
           ListedInGroup',
           UNCHANGED <<inv, view, group, links, refs, acked, handlers, statuses, blocked,
                       crashed>>
    PROVE  JInv'
<1>1. OnlyJoins' /\ StatusSent' /\ HandlerInGroup' /\ AckedHear'
  BY DEF JInv, OnlyJoins, NoneBroken, StatusSent, HandlerInGroup, AckedHear, InGroup, Before
<1>2. ParamsSet' /\ JoinerKnown'
  BY DEF JInv, ParamsSet, JoinerKnown, InGroup
<1>3. MutualOrListed'
  BY DEF JInv, MutualOrListed, Others, Members, InGroup
<1> QED BY <1>1, <1>2, <1>3 DEF JInv

LEMMA ReqJ ==
    ASSUME JInv, TypeOK', NEW j \in Agents, JoinReqs(j) \/ ReqParams(j),
           pc[j] = "reqParams" => group[acceptor[j]] = "full"
    PROVE  JInv'
<1> USE DEF store, join, sockets, curve
<1>1. /\ pc[j] \in {"reqState", "reqParams"}
      /\ pc'[j] \in {"reqState", "reqParams", "reqMembers"}
      /\ \A x \in Agents \ {j} : pc'[x] = pc[x]
      /\ UNCHANGED <<inv, view, group, list, links, refs, acked, handlers, statuses, blocked,
                     crashed>>
  BY DEF JoinReqs, ReqParams, JInv, TypeOK
<1>2. ListedInGroup'
  BY <1>1 DEF JInv, ListedInGroup, InGroup
<1> QED BY <1>1, <1>2, StageStep

LEMMA ReqMembersJ ==
    ASSUME JInv, TypeOK', NEW j \in Agents, ReqMembers(j)
    PROVE  JInv'
<1> USE DEF store, sockets, curve, stuck
<1>1. acceptor[j] \in Agents
  BY DEF JInv, TypeOK
<1>2. /\ pc[j] = "reqMembers" /\ pc'[j] = "setParams" /\ list'[j] = view[acceptor[j]]
      /\ \A x \in Agents \ {j} : pc'[x] = pc[x] /\ list'[x] = list[x]
      /\ UNCHANGED <<inv, view, group, links, refs, acked, handlers, statuses, blocked,
                     crashed>>
  BY DEF ReqMembers, JInv, TypeOK
<1>3. ListedInGroup'
  BY <1>1, <1>2 DEF JInv, ListedInGroup, InGroup
<1> QED BY <1>2, <1>3, StageStep

LEMMA SetParamsJ ==
    ASSUME JInv, TypeOK', NEW j \in Agents, SetParams(j)
    PROVE  JInv'
<1> USE DEF sockets, curve, stuck
<1>1. /\ pc[j] = "setParams"
      /\ UNCHANGED <<inv, view, list, links, refs, acked, handlers, statuses, blocked, crashed>>
  BY DEF SetParams
<1>2. /\ pc'[j] = "subscribe" /\ group'[j] = "full"
      /\ \A x \in Agents \ {j} : pc'[x] = pc[x] /\ group'[x] = group[x]
  BY DEF SetParams, JInv, TypeOK
<1>3. OnlyJoins' /\ ListedInGroup' /\ StatusSent' /\ HandlerInGroup' /\ AckedHear'
  BY <1>1, <1>2 DEF JInv, OnlyJoins, Before, NoneBroken, ListedInGroup, StatusSent, HandlerInGroup,
                    AckedHear, InGroup
<1>4. ParamsSet' /\ JoinerKnown'
  BY <1>1, <1>2 DEF JInv, ParamsSet, JoinerKnown, InGroup
<1>5. MutualOrListed'
  BY <1>1, <1>2 DEF JInv, MutualOrListed, Others, Members, InGroup
<1> QED BY <1>3, <1>4, <1>5 DEF JInv

LEMMA AdmitJ ==
    ASSUME JInv, TypeOK', NEW j \in Agents, Admit(j)
    PROVE  JInv'
<1> USE DEF join, sockets, curve, stuck
<1>1. /\ pc[j] = "subscribe"
      /\ UNCHANGED <<inv, list, links, refs, acked, handlers, statuses, blocked, crashed>>
  BY DEF Admit
<1>2. group[j] = "full" /\ inv[j] # 0
  BY <1>1 DEF JInv, ParamsSet, JoinerKnown
<1>3. CASE pc' = [pc EXCEPT ![j] = "idle"] /\ UNCHANGED store
  <2>1. /\ UNCHANGED <<view, group>>
        /\ pc'[j] = "idle" /\ \A x \in Agents \ {j} : pc'[x] = pc[x]
    BY <1>3 DEF store, JInv, TypeOK
  <2>2. OnlyJoins' /\ ListedInGroup' /\ StatusSent' /\ HandlerInGroup' /\ AckedHear'
    BY <1>1, <2>1 DEF JInv, OnlyJoins, Before, NoneBroken, ListedInGroup, StatusSent, HandlerInGroup,
                      AckedHear, InGroup
  <2>3. ParamsSet' /\ JoinerKnown'
    BY <1>1, <2>1 DEF JInv, ParamsSet, JoinerKnown, InGroup
  <2>4. MutualOrListed'
    BY <1>1, <2>1 DEF JInv, MutualOrListed, Others, Members, InGroup
  <2> QED BY <2>2, <2>3, <2>4 DEF JInv
<1>4. CASE /\ pc' = [pc EXCEPT ![j] = "wait"]
           /\ AddMembrs(j, [list[j] EXCEPT ![j] = inv[j]])
  <2> DEFINE v == [list[j] EXCEPT ![j] = inv[j]]
  <2>1. v[j] = inv[j] /\ \A m \in Agents \ {j} : v[m] = list[j][m]
    BY DEF JInv, TypeOK, Views
  <2>2. view' = [view EXCEPT ![j] = [m \in Agents |-> IF v[m] # 0 THEN v[m] ELSE view[j][m]]]
    BY <1>4 DEF AddMembrs, JInv, TypeOK
  <2> HIDE DEF v
  <2>3. /\ \A m \in Agents : view'[j][m] = IF v[m] # 0 THEN v[m] ELSE view[j][m]
        /\ \A x \in Agents \ {j} : view'[x] = view[x]
        /\ pc'[j] = "wait" /\ \A x \in Agents \ {j} : pc'[x] = pc[x]
    BY <1>4, <2>2 DEF JInv, TypeOK
  <2>4. group' = group
    BY <1>2, <1>4 DEF AddMembrs, JInv, TypeOK
  <2>5. Grows /\ view'[j][j] # 0
    BY <1>2, <2>1, <2>3 DEF Grows
  <2>6. \A x \in Agents : InGroup(x) => InGroup(x)'
    BY <2>5 DEF Grows, InGroup
  <2>7. OnlyJoins' /\ AckedHear'
    BY <1>1, <2>3 DEF JInv, OnlyJoins, Before, NoneBroken, AckedHear
  <2>8. ListedInGroup'
    <3>1. \A m \in Agents : v[m] # 0 => InGroup(m)'
      BY <2>1, <2>5, <2>6 DEF JInv, ListedInGroup, InGroup
    <3> QED BY <1>1, <2>3, <2>6, <3>1 DEF JInv, ListedInGroup
  <2>9. ParamsSet' /\ JoinerKnown'
    BY <1>1, <1>2, <2>3, <2>4, <2>5, <2>6 DEF JInv, ParamsSet, JoinerKnown, InGroup
  <2>10. StatusSent' /\ HandlerInGroup'
    BY <1>1, <2>5, <2>6 DEF JInv, StatusSent, HandlerInGroup, Grows, TypeOK, Statuses, Handlers
  <2>11. MutualOrListed'
    <3> SUFFICES ASSUME NEW x \in Agents, NEW m \in Others(x)'
                 PROVE  \/ InGroup(m)' /\ view'[m][x] # 0
                        \/ \E s \in statuses' : s.from = x /\ s.to = m /\ s.active
                        \/ pc'[x] = "wait" /\ list'[x][m] # 0
      BY DEF MutualOrListed
    <3>1. m \in Agents /\ m # x
      BY DEF Others, Members
    <3>2. CASE m \in Others(x)
      BY <1>1, <2>3, <2>5, <2>6, <3>1, <3>2 DEF JInv, MutualOrListed, Grows
    <3>3. CASE m \notin Others(x)
      BY <1>1, <2>1, <2>3, <3>1, <3>3 DEF Others, Members
    <3> QED BY <3>2, <3>3
  <2> QED BY <2>7, <2>8, <2>9, <2>10, <2>11 DEF JInv
<1> QED BY <1>3, <1>4 DEF Admit

\* The members that acked hear the status, so each member of the acceptor's
\* list is sent one; the others on the list told j themselves.
LEMMA NotifyJ ==
    ASSUME JInv, TypeOK', NEW j \in Agents, Notify(j)
    PROVE  JInv'
<1> USE DEF store, join, sockets, curve, stuck
<1> DEFINE status(m) == [from |-> j, to |-> m, active |-> TRUE, inv |-> inv[j], step |-> "sent"]
<1>1. /\ pc[j] = "wait" /\ Members(list[j]) \subseteq acked[j]
      /\ statuses' = statuses \cup {status(m) : m \in {x \in Others(j) : Hears(x, j)}}
      /\ UNCHANGED <<inv, view, group, list, links, refs, acked, handlers, blocked, crashed>>
  BY DEF Notify, NotifyAll, AllAcked
<1>2. pc'[j] = "idle" /\ \A x \in Agents \ {j} : pc'[x] = pc[x]
  BY DEF Notify, JInv, TypeOK
<1>3. InGroup(j) /\ inv[j] # 0
  BY <1>1 DEF JInv, JoinerKnown
<1>4. \A m \in Others(j) : /\ status(m).from = j /\ status(m).to = m
                           /\ status(m).active /\ status(m).step = "sent"
                           /\ status(m).inv = inv[j]
                           /\ m \in Agents /\ m # j /\ view[j][m] # 0
  BY DEF Others, Members
<1>5. \A m \in Others(j) : list[j][m] # 0 => status(m) \in statuses'
  <2> SUFFICES ASSUME NEW m \in Others(j), list[j][m] # 0 PROVE Hears(m, j)
    BY <1>1
  <2>1. m \in acked[j]
    BY <1>1, <1>4 DEF Members
  <2> QED BY <2>1 DEF JInv, AckedHear, OnlyJoins, Before, NoneBroken, Hears, Alive
<1> HIDE DEF status
<1>6. OnlyJoins' /\ StatusSent'
  BY <1>1, <1>2, <1>3, <1>4 DEF JInv, OnlyJoins, Before, NoneBroken, StatusSent, InGroup
<1>7. ListedInGroup' /\ ParamsSet' /\ JoinerKnown' /\ HandlerInGroup' /\ AckedHear'
  BY <1>1, <1>2 DEF JInv, ListedInGroup, ParamsSet, JoinerKnown, HandlerInGroup, AckedHear, InGroup
<1>8. MutualOrListed'
  <2> SUFFICES ASSUME NEW x \in Agents, NEW m \in Others(x)
               PROVE  \/ InGroup(m) /\ view[m][x] # 0
                      \/ \E s \in statuses' : s.from = x /\ s.to = m /\ s.active
                      \/ pc'[x] = "wait" /\ list[x][m] # 0
    BY <1>1 DEF MutualOrListed, InGroup, Others, Members
  <2>1. CASE x = j
    BY <1>1, <1>4, <1>5, <2>1 DEF JInv, MutualOrListed
  <2>2. CASE x # j
    BY <1>1, <1>2, <2>2 DEF JInv, MutualOrListed
  <2> QED BY <2>1, <2>2
<1> QED BY <1>6, <1>7, <1>8 DEF JInv

\* The receiver of a status is listed by the sender, so it is in the group and
\* has its params.
LEMMA AddMemberJ ==
    ASSUME JInv, TypeOK', NEW s \in statuses, AddMember(s)
    PROVE  JInv'
<1> USE DEF join, sockets, curve, stuck
<1>1. /\ s.to \in Agents /\ s.from \in Agents /\ s.inv \in Nat
      /\ s.inv # 0 /\ s.from # s.to
      /\ InGroup(s.from) /\ view[s.from][s.to] # 0 /\ InGroup(s.to)
      /\ group[s.to] = "full"
  BY DEF JInv, StatusSent, TypeOK, Statuses, ListedInGroup, ParamsSet, InGroup
<1>2. /\ statuses' = statuses \ {s}
      /\ UNCHANGED <<pc, inv, list, links, refs, acked, handlers, blocked, crashed>>
  BY DEF AddMember
<1> DEFINE v == [Empty EXCEPT ![s.from] = s.inv]
<1>3. v[s.from] = s.inv /\ \A m \in Agents \ {s.from} : v[m] = 0
  BY <1>1 DEF Empty
<1>4. view' = [view EXCEPT ![s.to] = [m \in Agents |-> IF v[m] # 0 THEN v[m] ELSE view[s.to][m]]]
  BY <1>1 DEF AddMember, AddMembrs, JInv, TypeOK
<1>5. group' = group
  BY <1>1 DEF AddMember, AddMembrs, JInv, TypeOK
<1> HIDE DEF v
<1>6. /\ \A x, m \in Agents : x # s.to \/ m # s.from => view'[x][m] = view[x][m]
      /\ view'[s.to][s.from] # 0
  BY <1>1, <1>3, <1>4 DEF JInv, TypeOK
<1>7. Grows /\ \A x \in Agents : InGroup(x)' = InGroup(x)
  BY <1>1, <1>6 DEF Grows, InGroup
<1>8. OnlyJoins' /\ AckedHear'
  BY <1>2 DEF JInv, OnlyJoins, Before, NoneBroken, AckedHear
<1>9. ListedInGroup' /\ ParamsSet' /\ JoinerKnown'
  BY <1>1, <1>2, <1>5, <1>6, <1>7 DEF JInv, ListedInGroup, ParamsSet, JoinerKnown
<1>10. StatusSent' /\ HandlerInGroup'
  <2>1. ASSUME NEW t \in statuses'
        PROVE  t.from # t.to /\ t.inv # 0 /\ InGroup(t.from)' /\ view'[t.from][t.to] # 0
    <3>1. t \in statuses /\ t.from \in Agents /\ t.to \in Agents
      BY <1>2, <2>1 DEF JInv, TypeOK, Statuses
    <3>2. t.from # t.to /\ t.inv # 0 /\ InGroup(t.from) /\ view[t.from][t.to] # 0
      BY <3>1 DEF JInv, StatusSent
    <3> QED BY <1>7, <3>1, <3>2 DEF Grows
  <2>2. HandlerInGroup'
    BY <1>2, <1>7 DEF JInv, HandlerInGroup, TypeOK, Handlers
  <2>3. StatusSent'
    BY <2>1 DEF StatusSent
  <2> QED BY <2>2, <2>3
<1>11. MutualOrListed'
  <2> SUFFICES ASSUME NEW x \in Agents, NEW m \in Others(x)'
               PROVE  \/ InGroup(m)' /\ view'[m][x] # 0
                      \/ \E t \in statuses' : t.from = x /\ t.to = m /\ t.active
                      \/ pc'[x] = "wait" /\ list'[x][m] # 0
    BY DEF MutualOrListed
  <2>1. m \in Agents /\ m # x /\ view'[x][m] # 0
    BY DEF Others, Members
  <2>2. CASE x = s.to /\ m = s.from
    BY <1>1, <1>7, <2>2 DEF Grows
  <2>3. CASE x = s.from /\ m = s.to
    BY <1>1, <1>6, <1>7, <2>3
  <2>4. CASE ~(x = s.to /\ m = s.from) /\ ~(x = s.from /\ m = s.to)
    <3>1. m \in Others(x)
      BY <1>6, <2>1, <2>4 DEF Others, Members
    <3> QED BY <1>2, <1>7, <2>1, <2>4, <3>1 DEF JInv, MutualOrListed, Grows
  <2> QED BY <2>2, <2>3, <2>4
<1> QED BY <1>8, <1>9, <1>10, <1>11 DEF JInv

\* The steps of a join that only touch sockets, handlers and acks.
LEMMA JoinSocketJ ==
    ASSUME JInv, TypeOK', NEW j \in Agents, NEW m \in Agents,
           Subscriptions(m, j) \/ ConnectMember(j, m) \/ HelloAck(j, m)
    PROVE  JInv'
<1> USE DEF store, sockets, curve, stuck
<1>1. UNCHANGED <<pc, inv, view, group, list, statuses, blocked, crashed>>
  BY DEF Subscriptions, ConnectMember, HelloAck, join
<1>2. HandlerInGroup'
  <2>1. \A h \in handlers' \ handlers : h.at = m /\ InGroup(m)
    BY DEF Subscriptions, ConnectMember, HelloAck, InGroup
  <2> QED BY <1>1, <2>1 DEF JInv, HandlerInGroup, InGroup
<1>3. AckedHear'
  <2>1. CASE Subscriptions(m, j)
    BY <2>1 DEF Subscriptions, JInv, AckedHear
  <2>2. CASE ConnectMember(j, m)
    <3>1. UNCHANGED <<links, acked>> /\ ConnectState(j, m, m)
      BY <2>2 DEF ConnectMember
    <3> QED BY <3>1, ConnectStateGrows DEF JInv, AckedHear, TypeOK
  <2>3. CASE HelloAck(j, m)
    <3>1. /\ UNCHANGED <<links, refs>> /\ <<m, j>> \in links /\ refs[m] > 0
          /\ acked' = [acked EXCEPT ![j] = @ \cup {m}]
      BY <2>3 DEF HelloAck, Hears
    <3>2. \A a \in Agents : acked'[a] = IF a = j THEN acked[j] \cup {m} ELSE acked[a]
      BY <3>1 DEF JInv, TypeOK
    <3>3. \A a \in Agents : \A x \in acked'[a] : x \in acked[a] \/ (a = j /\ x = m)
      BY <3>2
    <3> QED BY <3>1, <3>3 DEF JInv, AckedHear
  <2> QED BY <2>1, <2>2, <2>3
<1> QED BY <1>1, <1>2, <1>3, SocketStep

LEMMA HandlerJ ==
    ASSUME JInv, TypeOK', NEW h \in handlers,
           HandlerAnswer(h) \/ HandlerState(h) \/ HandlerData(h)
    PROVE  JInv'
<1> USE DEF store, join, sockets, curve, stuck
<1>1. h \in Handlers /\ h.at \in Agents /\ h.from \in Agents /\ InGroup(h.at)
  BY DEF JInv, HandlerInGroup, TypeOK, Handlers
<1>2. group[h.at] = "full"
  BY <1>1 DEF JInv, ParamsSet, InGroup
<1>3. UNCHANGED <<pc, inv, view, group, list, statuses, links, acked, blocked, crashed>>
  BY <1>2 DEF HandlerAnswer, HandlerState, HandlerData
<1>4. HandlerInGroup'
  <2>1. \A x \in handlers' : x \in handlers \/ x = [h EXCEPT !.step = "state"]
                                                 \/ x = [h EXCEPT !.step = "data"]
    BY DEF HandlerAnswer, HandlerState, HandlerData
  <2>2. [h EXCEPT !.step = "state"].at = h.at /\ [h EXCEPT !.step = "data"].at = h.at
    BY <1>1 DEF Handlers
  <2> QED BY <1>1, <1>3, <2>1, <2>2 DEF JInv, HandlerInGroup, InGroup
<1>5. AckedHear'
  <2>1. \A x \in Agents : refs[x] > 0 => refs'[x] > 0
    BY <1>1, ConnectStateGrows DEF HandlerAnswer, HandlerState, HandlerData, JInv
  <2> QED BY <1>3, <2>1 DEF JInv, AckedHear, TypeOK
<1> QED BY <1>3, <1>4, <1>5, SocketStep

\* The acceptor of a request it has looked into has its params.
AcceptorReady == \A a \in Agents : pc[a] = "reqParams" => group[acceptor[a]] = "full"

\* An agent joins once: before the answer it has been given no list.
NoListYet ==
    \A a \in Agents :
        pc[a] \in {"reqState", "reqParams", "reqMembers"} \/ (pc[a] = "idle" /\ group[a] = "nil") =>
            \A m \in Agents : list[a][m] = 0

\* Of two agents of which one lists the other, one was given the other's name.
OneWasTold == \A a \in Agents : \A m \in Agents \ {a} :
                  view[a][m] # 0 => list[a][m] # 0 \/ list[m][a] # 0

Introduced == AcceptorReady /\ NoListYet /\ OneWasTold

LEMMA InitIntroduced == Init => Introduced
BY DEF Init, Empty, Introduced, AcceptorReady, NoListYet, OneWasTold

\* Steps that change no list, keep every group, and start no request.
LEMMA IntroducedStep ==
    ASSUME TypeOK, Introduced, UNCHANGED <<view, list, acceptor>>,
           \A a \in Agents : /\ group[a] = "full" => group'[a] = "full"
                             /\ group[a] # "nil" => group'[a] # "nil",
           \A a \in Agents : \/ pc'[a] = pc[a]
                             \/ pc'[a] = "reqParams" /\ group[acceptor[a]] = "full"
                                /\ pc[a] = "reqState"
                             \/ pc'[a] = "reqMembers" /\ pc[a] = "reqParams"
                             \/ pc'[a] \in {"subscribe", "wait"}
                             \/ pc'[a] = "idle" /\ group[a] # "nil"
    PROVE  Introduced'
<1>1. AcceptorReady'
  BY DEF Introduced, AcceptorReady, TypeOK
<1>2. NoListYet' /\ OneWasTold'
  BY DEF Introduced, NoListYet, OneWasTold
<1> QED BY <1>1, <1>2 DEF Introduced

LEMMA NextIntroduced ==
    ASSUME Leavers = {}
    PROVE  JInv /\ Introduced /\ [Next]_vars => Introduced'
<1> SUFFICES ASSUME JInv, Introduced, [Next]_vars PROVE Introduced'
  OBVIOUS
<1> USE DEF store, join
<1>1. TypeOK
  BY DEF JInv
<1>2. CASE UNCHANGED vars
  BY <1>1, <1>2, IntroducedStep DEF vars
<1>3. ASSUME NEW a \in Agents, Create(a) PROVE Introduced'
  <2>1. /\ UNCHANGED <<pc, list, acceptor>> /\ group'[a] = "full"
        /\ \A x \in Agents \ {a} : group'[x] = group[x]
    BY <1>1, <1>3 DEF Create, TypeOK
  <2>2. \A x, m \in Agents : x # m => view'[x][m] = view[x][m]
    BY <1>1, <1>3 DEF Create, TypeOK, Views
  <2>3. OneWasTold'
    BY <2>1, <2>2 DEF Introduced, OneWasTold
  <2>4. AcceptorReady' /\ NoListYet'
    BY <1>1, <2>1 DEF Introduced, AcceptorReady, NoListYet, TypeOK
  <2> QED BY <2>3, <2>4 DEF Introduced
<1>4. ASSUME NEW a \in Agents, NEW b \in Agents, Join(a, b) PROVE Introduced'
  <2>1. /\ UNCHANGED <<view, group, list>> /\ pc'[a] = "reqState"
        /\ pc[a] = "idle" /\ group[a] = "nil"
        /\ \A x \in Agents \ {a} : pc'[x] = pc[x] /\ acceptor'[x] = acceptor[x]
    BY <1>1, <1>4 DEF Join, MayStart, TypeOK
  <2> QED BY <2>1 DEF Introduced, AcceptorReady, NoListYet, OneWasTold
<1>5. \A a \in Agents : ~LeaveState(a) /\ ~LeaveStep(a)
  BY DEF JInv, OnlyJoins, Before, LeaveState, LeaveStep, LeaveData, LeaveNotify, LeaveDelete
<1>6. ASSUME NEW a \in Agents, JoinStep(a) PROVE Introduced'
  <2>1. CASE JoinReqs(a)
    <3>1. Members(view[acceptor[a]]) # {} => group[acceptor[a]] = "full"
      BY <1>1 DEF JInv, ParamsSet, Members, TypeOK
    <3>2. /\ UNCHANGED <<view, list, acceptor, group>>
          /\ \A x \in Agents : \/ pc'[x] = pc[x]
                               \/ pc[x] = "reqState" /\ pc'[x] = "reqParams"
                                  /\ group[acceptor[x]] = "full"
      BY <1>1, <2>1, <3>1 DEF JoinReqs, TypeOK
    <3> QED BY <1>1, <3>2, IntroducedStep
  <2>2. CASE ReqParams(a)
    <3>1. /\ UNCHANGED <<view, list, acceptor, group>>
          /\ \A x \in Agents : \/ pc'[x] = pc[x]
                               \/ pc[x] = "reqParams" /\ pc'[x] = "reqMembers"
      BY <1>1, <2>2 DEF ReqParams, TypeOK
    <3> QED BY <1>1, <3>1, IntroducedStep
  <2>3. CASE ReqMembers(a)
    <3>1. /\ UNCHANGED <<view, group, acceptor>>
          /\ pc[a] = "reqMembers" /\ pc'[a] = "setParams"
          /\ \A x \in Agents \ {a} : pc'[x] = pc[x] /\ list'[x] = list[x]
      BY <1>1, <2>3 DEF ReqMembers, TypeOK
    <3>2. \A m \in Agents : list[a][m] = 0
      BY <3>1 DEF Introduced, NoListYet
    <3>3. OneWasTold'
      BY <3>1, <3>2 DEF Introduced, OneWasTold
    <3> QED BY <3>1, <3>3 DEF Introduced, AcceptorReady, NoListYet
  <2>4. CASE SetParams(a)
    <3>1. /\ UNCHANGED <<view, list, acceptor>>
          /\ pc'[a] = "subscribe" /\ group'[a] = "full"
          /\ \A x \in Agents \ {a} : pc'[x] = pc[x] /\ group'[x] = group[x]
      BY <1>1, <2>4 DEF SetParams, TypeOK
    <3> QED BY <1>1, <3>1, IntroducedStep
  <2>5. ASSUME NEW m \in Agents, Subscriptions(m, a) \/ ConnectMember(a, m) \/ HelloAck(a, m)
        PROVE  Introduced'
    <3>1. UNCHANGED <<pc, view, list, acceptor, group>>
      BY <2>5 DEF Subscriptions, ConnectMember, HelloAck
    <3> QED BY <1>1, <3>1, IntroducedStep
  <2>6. CASE Admit(a)
    <3>1. /\ UNCHANGED <<list, acceptor>> /\ pc[a] = "subscribe" /\ group[a] = "full"
          /\ pc'[a] \in {"idle", "wait"}
          /\ \A x \in Agents \ {a} : pc'[x] = pc[x]
      BY <1>1, <2>6 DEF Admit, JInv, ParamsSet, TypeOK
    <3>2. CASE UNCHANGED store
      BY <1>1, <3>1, <3>2, IntroducedStep
    <3>3. CASE AddMembrs(a, [list[a] EXCEPT ![a] = inv[a]])
      <4>1. group' = group
        BY <1>1, <3>1, <3>3 DEF AddMembrs, TypeOK
      <4>2. \A x, m \in Agents : x # m /\ view'[x][m] # 0 =>
                view[x][m] # 0 \/ (x = a /\ list[a][m] # 0)
        BY <1>1, <3>3 DEF AddMembrs, TypeOK, Views
      <4>3. OneWasTold'
        BY <3>1, <4>2 DEF Introduced, OneWasTold
      <4>4. AcceptorReady' /\ NoListYet'
        BY <3>1, <4>1 DEF Introduced, AcceptorReady, NoListYet
      <4> QED BY <4>3, <4>4 DEF Introduced
    <3> QED BY <2>6, <3>2, <3>3 DEF Admit
  <2>7. CASE Notify(a)
    <3>1. /\ UNCHANGED <<view, list, acceptor, group>>
          /\ pc[a] = "wait" /\ pc'[a] = "idle" /\ group[a] = "full"
          /\ \A x \in Agents \ {a} : pc'[x] = pc[x]
      BY <1>1, <2>7 DEF Notify, JInv, ParamsSet, TypeOK
    <3> QED BY <1>1, <3>1, IntroducedStep
  <2> QED BY <1>6, <2>1, <2>2, <2>3, <2>4, <2>5, <2>6, <2>7 DEF JoinStep
<1>7. ASSUME NEW a \in Agents, HandlerStep(a) PROVE Introduced'
  <2>1. UNCHANGED <<pc, view, list, acceptor, group>>
    BY <1>7 DEF HandlerStep, HandlerAnswer, HandlerState, HandlerData
  <2> QED BY <1>1, <2>1, IntroducedStep
<1>8. ASSUME NEW a \in Agents, StatusStep(a) PROVE Introduced'
  <2>1. PICK s \in statuses : AddMember(s)
    BY <1>8 DEF StatusStep, JInv, OnlyJoins, RemoveState, RemoveMember
  <2>2. /\ s.to \in Agents /\ s.from \in Agents
        /\ s.from # s.to /\ view[s.from][s.to] # 0 /\ group[s.to] = "full"
    <3>1. s.to \in Agents /\ s.from \in Agents
      BY <1>1 DEF TypeOK, Statuses
    <3>2. s.from # s.to /\ view[s.from][s.to] # 0
      BY DEF JInv, StatusSent
    <3>3. view[s.to][s.to] # 0
      BY <3>1, <3>2 DEF JInv, ListedInGroup, InGroup
    <3> QED BY <3>1, <3>2, <3>3 DEF JInv, ParamsSet
  <2>3. /\ UNCHANGED <<pc, list, acceptor, group>>
        /\ \A x, m \in Agents : view'[x][m] # 0 =>
              view[x][m] # 0 \/ (x = s.to /\ m = s.from)
    BY <1>1, <2>1, <2>2 DEF AddMember, AddMembrs, Empty, TypeOK, Views
  <2>4. OneWasTold'
    BY <2>2, <2>3 DEF Introduced, OneWasTold
  <2>5. AcceptorReady' /\ NoListYet'
    BY <2>3 DEF Introduced, AcceptorReady, NoListYet
  <2> QED BY <2>4, <2>5 DEF Introduced
<1>9. ASSUME NEW a \in Agents, NEW m \in Agents, Establish(a, m) PROVE Introduced'
  BY <1>1, <1>9, IntroducedStep DEF Establish
<1> QED BY <1>2, <1>3, <1>4, <1>5, <1>6, <1>7, <1>8, <1>9 DEF Next, UserStep

LEMMA NextJInv ==
    ASSUME Leavers = {}
    PROVE  JInv /\ Introduced /\ [Next]_vars => JInv'
<1> SUFFICES ASSUME JInv, Introduced, [Next]_vars PROVE JInv'
  OBVIOUS
<1>1. TypeOK'
  BY NextType DEF JInv
<1>2. CASE UNCHANGED vars
  BY <1>1, <1>2, SocketStep DEF vars, store, join, sockets, curve, stuck, JInv, HandlerInGroup,
                                AckedHear, InGroup
<1>3. CASE UserStep
  <2>1. \A a \in Agents : ~LeaveState(a)
    BY DEF LeaveState
  <2> QED BY <1>1, <1>3, <2>1, CreateJ, JoinJ DEF UserStep
<1>4. ASSUME NEW a \in Agents, JoinStep(a) PROVE JInv'
  BY <1>1, <1>4, ReqJ, ReqMembersJ, SetParamsJ, AdmitJ, NotifyJ, JoinSocketJ
     DEF JoinStep, Introduced, AcceptorReady
<1>5. \A a \in Agents : ~LeaveStep(a)
  BY DEF JInv, OnlyJoins, Before, LeaveStep, LeaveData, LeaveNotify, LeaveDelete
<1>6. ASSUME NEW a \in Agents, HandlerStep(a) PROVE JInv'
  BY <1>1, <1>6, HandlerJ DEF HandlerStep
<1>7. ASSUME NEW a \in Agents, StatusStep(a) PROVE JInv'
  <2>1. PICK s \in statuses : AddMember(s) \/ RemoveState(s) \/ RemoveMember(s)
    BY <1>7 DEF StatusStep
  <2>2. CASE AddMember(s)
    BY <1>1, <2>2, AddMemberJ
  <2>3. CASE RemoveState(s)
    BY <2>3 DEF RemoveState, JInv, OnlyJoins
  <2>4. CASE RemoveMember(s)
    BY <2>4 DEF RemoveMember, JInv, OnlyJoins
  <2> QED BY <2>1, <2>2, <2>3, <2>4
<1>8. ASSUME NEW a \in Agents, NEW m \in Agents, Establish(a, m) PROVE JInv'
  <2>1. UNCHANGED <<pc, inv, view, group, list, statuses, refs, handlers, acked, blocked, crashed>>
    BY <1>8 DEF Establish, store, join, stuck
  <2>2. links \subseteq links'
    BY <1>8 DEF Establish
  <2>3. HandlerInGroup' /\ AckedHear'
    BY <2>1, <2>2 DEF JInv, HandlerInGroup, AckedHear, InGroup
  <2> QED BY <1>1, <2>1, <2>3, SocketStep
<1> QED BY <1>2, <1>3, <1>4, <1>5, <1>6, <1>7, <1>8 DEF Next

THEOREM JoinsInductive ==
    ASSUME Leavers = {}
    PROVE  Spec => [](JInv /\ Introduced)
<1>1. JInv /\ Introduced /\ [Next]_vars => (JInv /\ Introduced)'
  BY NextJInv, NextIntroduced
<1> QED BY InitJInv, InitIntroduced, <1>1, PTL DEF Spec

\* While nobody leaves, however many join at once and in whatever order their
\* messages arrive: an agent lists another only if one of the two was given the
\* other's name when it joined, and whoever it lists lists it or is about to.
\* Two that joined at once on lists without each other never meet.
THEOREM KnownByListHolds ==
    ASSUME Leavers = {}
    PROVE  Spec => []KnownByList
<1>1. JInv /\ Introduced => KnownByList
  BY DEF JInv, MutualOrListed, Introduced, OneWasTold, KnownByList, Others, Members
<1> QED BY JoinsInductive, <1>1, PTL

\* A step that ends a wait is the joiner's own Notify, and every member that
\* acked its hello still hears it.
LEMMA WaitEnds ==
    ASSUME JInv, Next, NEW j \in Agents, pc[j] = "wait", pc'[j] = "idle"
    PROVE  \A m \in Members(list[j]) : Hears(m, j)
<1>1. Notify(j)
  <2>1. ~UserStep
    BY DEF UserStep, Create, LeaveState, Join, JInv, TypeOK
  <2>2. ASSUME NEW a \in Agents, JoinStep(a) PROVE Notify(j)
    <3>1. ~Admit(a)
      BY DEF Admit, JInv, TypeOK
    <3>2. /\ ~JoinReqs(a) /\ ~ReqParams(a) /\ ~ReqMembers(a) /\ ~SetParams(a)
      BY DEF JoinReqs, ReqParams, ReqMembers, SetParams, JInv, TypeOK
    <3>3. \A m \in Agents : ~Subscriptions(m, a) /\ ~ConnectMember(a, m) /\ ~HelloAck(a, m)
      BY DEF Subscriptions, ConnectMember, HelloAck
    <3>4. CASE Notify(a)
      <4>1. a = j
        BY <3>4 DEF Notify, JInv, TypeOK
      <4> QED BY <3>4, <4>1
    <3> QED BY <2>2, <3>1, <3>2, <3>3, <3>4 DEF JoinStep
  <2>3. \A a \in Agents : ~LeaveStep(a)
    BY DEF JInv, OnlyJoins, Before, LeaveStep, LeaveData, LeaveNotify, LeaveDelete
  <2>4. \A a \in Agents : ~HandlerStep(a)
    BY DEF HandlerStep, HandlerAnswer, HandlerState, HandlerData
  <2>5. \A a \in Agents : ~StatusStep(a)
    BY DEF StatusStep, AddMember, RemoveState, RemoveMember
  <2>6. \A a, m \in Agents : ~Establish(a, m)
    BY DEF Establish
  <2> QED BY <2>1, <2>2, <2>3, <2>4, <2>5, <2>6 DEF Next
<1>2. Members(list[j]) \subseteq acked[j]
  BY <1>1 DEF Notify, AllAcked
<1>3. \A m \in Members(list[j]) : m \in Agents /\ m \notin crashed
  BY DEF Members, JInv, OnlyJoins, Before, NoneBroken
<1> QED BY <1>2, <1>3 DEF JInv, AckedHear, Hears, Alive

\* While nobody leaves, every member on the joiner's list hears the joiner when
\* waitForConns ends, as its comment says.
THEOREM HelloMeansConnectedHolds ==
    ASSUME Leavers = {}
    PROVE  Spec => HelloMeansConnected
<1>1. JInv /\ [Next]_vars =>
         [\A j \in Agents : pc[j] = "wait" /\ pc'[j] = "idle" =>
              \A m \in Members(list[j]) : Hears(m, j)]_vars
  BY WaitEnds
<1> QED BY JoinsInductive, <1>1, PTL DEF Spec, HelloMeansConnected
-----------------------------------------------------------------------------
(* The refinement: as long as nobody leaves, every step of Membership maps to   *)
(* a step of Group or to a stutter, under JInv and facts about who is where in  *)
(* a join.                                                                      *)

\* Who still joins is in no group, and whoever lists anybody is in one.
JoinerOutside == \A a \in Agents :
    /\ pc[a] \in Before => ~InGroup(a)
    /\ \A m \in Agents : view[a][m] # 0 => InGroup(a)

\* A status is sent at the end of a join, one to each member.
StatusLast == \A s \in statuses : pc[s.from] = "idle"
StatusUnique == \A s, t \in statuses : s.from = t.from /\ s.to = t.to => s = t

GInv == JInv /\ JoinerOutside /\ StatusLast /\ StatusUnique

\* A status as Group sees it.
News(s) == [from |-> s.from, to |-> s.to, active |-> s.active]
-----------------------------------------------------------------------------
LEMMA InitGInv == Init => GInv
<1> SUFFICES ASSUME Init PROVE GInv
  OBVIOUS
<1>1. \A a, m \in Agents : view[a][m] = 0 /\ pc[a] = "idle"
  BY DEF Init, Empty
<1>2. JoinerOutside /\ StatusLast /\ StatusUnique
  BY <1>1 DEF Init, JoinerOutside, Before, StatusLast, StatusUnique
<1> QED BY <1>2, InitJInv DEF GInv

\* Under OnlyJoins an agent is a member of Group when it is in the group.
LEMMA ListedIsMembers ==
    ASSUME GInv
    PROVE  /\ \A a \in Agents : knownBar[a] = Members(view[a])
           /\ \A a \in Agents : knownBar[a] # {} <=> InGroup(a)
           /\ \A a, m \in Agents : m \in knownBar[a] <=> view[a][m] # 0
<1>1. \A a \in Agents : pc[a] # "leaveDelete"
  BY DEF GInv, JInv, OnlyJoins, Before
<1>2. \A a \in Agents : ~InGroup(a) => Members(view[a]) = {}
  BY DEF GInv, JoinerOutside, Members
<1>3. \A a \in Agents : knownBar[a] = Members(view[a])
  BY <1>1, <1>2 DEF knownBar, Listed
<1>4. \A a \in Agents : InGroup(a) => a \in Members(view[a])
  BY DEF InGroup, Members
<1> QED BY <1>2, <1>3, <1>4 DEF Members

LEMMA ListedIsMembersNext ==
    ASSUME GInv'
    PROVE  \A a \in Agents : knownBar'[a] = Members(view'[a])
<1>1. \A a \in Agents : pc'[a] # "leaveDelete"
  BY DEF GInv, JInv, OnlyJoins, Before
<1>2. \A a \in Agents : ~InGroup(a)' => Members(view'[a]) = {}
  BY DEF GInv, JoinerOutside, Members
<1> QED BY <1>1, <1>2 DEF knownBar, Listed, Members

LEMMA KnownIsFunction ==
    /\ knownBar = [a \in Agents |-> Listed(a)]
    /\ knownBar' = [a \in Agents |-> Listed(a)']
BY DEF knownBar

\* Steps that change no list, no status, and no call that ends in a wait.
LEMMA QuietStep ==
    ASSUME GInv, JInv', NEW j \in Agents,
           pc[j] # "wait", pc'[j] # "wait",
           pc'[j] \in Before => ~InGroup(j),
           \A s \in statuses : s.from = j => pc'[j] = "idle",
           \A x \in Agents \ {j} : pc'[x] = pc[x],
           UNCHANGED <<view, statuses>>
    PROVE  GInv' /\ UNCHANGED <<knownBar, freshBar, newsBar>>
<1>1. JoinerOutside'
  BY DEF GInv, JoinerOutside, Before, InGroup
<1>2. StatusLast' /\ StatusUnique'
  BY DEF GInv, StatusLast, StatusUnique, JInv, TypeOK, Statuses
<1>3. GInv'
  BY <1>1, <1>2 DEF GInv
<1>4. \A a \in Agents : Listed(a)' = Listed(a)
  BY DEF GInv, JInv, OnlyJoins, Before, Listed, InGroup, Members
<1>5. knownBar' = knownBar
  BY <1>4, KnownIsFunction
<1>6. freshBar' = freshBar /\ newsBar' = newsBar
  BY DEF freshBar, newsBar
<1> QED BY <1>3, <1>5, <1>6

\* Steps that change none of the variables Group is about.
LEMMA SameStep ==
    ASSUME GInv, JInv', UNCHANGED <<pc, view, statuses>>
    PROVE  GInv' /\ UNCHANGED <<knownBar, freshBar, newsBar>>
<1>1. JoinerOutside' /\ StatusLast' /\ StatusUnique'
  BY DEF GInv, JoinerOutside, StatusLast, StatusUnique, InGroup
<1>2. \A a \in Agents : Listed(a)' = Listed(a)
  BY DEF Listed, InGroup, Members
<1>3. knownBar' = knownBar
  BY <1>2, KnownIsFunction
<1> QED BY <1>1, <1>3 DEF GInv, freshBar, newsBar
-----------------------------------------------------------------------------
Step == [G!Next]_(G!vars)

LEMMA CreateG ==
    ASSUME GInv, JInv', NEW a \in Agents, Create(a)
    PROVE  GInv' /\ Step
<1> USE DEF join, sockets, curve, stuck
<1>1. /\ pc[a] = "idle"
      /\ view' = [view EXCEPT ![a] = [view[a] EXCEPT ![a] = inv[a] + 1]]
      /\ UNCHANGED <<pc, statuses>>
  BY DEF Create, MayStart
<1>2. inv[a] \in Nat /\ view \in [Agents -> Views]
  BY DEF GInv, JInv, TypeOK
<1>3. /\ view'[a][a] # 0
      /\ \A x, m \in Agents : x # a \/ m # a => view'[x][m] = view[x][m]
  BY <1>1, <1>2 DEF Views
<1>4. JoinerOutside'
  BY <1>1, <1>3 DEF GInv, JoinerOutside, Before, InGroup
<1>5. GInv'
  BY <1>1, <1>4 DEF GInv, StatusLast, StatusUnique
<1>6. freshBar' = freshBar /\ newsBar' = newsBar
  BY <1>1 DEF freshBar, newsBar
<1>7. \A x \in Agents : knownBar'[x] = IF x = a THEN knownBar[a] \cup {a} ELSE knownBar[x]
  <2>1. \A x \in Agents : knownBar[x] = Members(view[x]) /\ knownBar'[x] = Members(view'[x])
    BY <1>5, ListedIsMembers, ListedIsMembersNext
  <2>2. Members(view'[a]) = Members(view[a]) \cup {a}
    BY <1>3 DEF Members
  <2>3. \A x \in Agents \ {a} : Members(view'[x]) = Members(view[x])
    BY <1>3 DEF Members
  <2> QED BY <2>1, <2>2, <2>3
<1>8. CASE InGroup(a)
  <2>1. a \in knownBar[a]
    BY <1>8, ListedIsMembers DEF InGroup
  <2>2. knownBar' = knownBar
    BY <1>7, <2>1, KnownIsFunction
  <2> QED BY <1>5, <1>6, <2>2 DEF Step, G!vars
<1>9. CASE ~InGroup(a)
  <2>1. knownBar[a] = {}
    BY <1>9, ListedIsMembers
  <2>2. knownBar' = [knownBar EXCEPT ![a] = {a}]
    BY <1>7, <2>1, KnownIsFunction
  <2>3. G!Found(a)
    BY <1>6, <2>1, <2>2 DEF G!Found, G!Member
  <2> QED BY <1>5, <2>3 DEF Step, G!Next
<1> QED BY <1>8, <1>9

LEMMA AdmitG ==
    ASSUME GInv, JInv', NEW j \in Agents, Admit(j)
    PROVE  GInv' /\ Step
<1> USE DEF join, sockets, curve, stuck
<1>1. /\ pc[j] = "subscribe" /\ ~InGroup(j)
      /\ UNCHANGED <<inv, list, statuses>>
  BY DEF Admit, GInv, JoinerOutside, Before
<1>2. /\ inv[j] # 0 /\ list[j][j] = 0
      /\ \A s \in statuses : s.from # j
      /\ \A m \in Agents : view[j][m] = 0
  BY <1>1 DEF GInv, JInv, JoinerKnown, ListedInGroup, StatusLast, JoinerOutside
<1>3. CASE pc' = [pc EXCEPT ![j] = "idle"] /\ UNCHANGED store
  <2>1. /\ view' = view
        /\ pc'[j] = "idle" /\ \A x \in Agents \ {j} : pc'[x] = pc[x]
    BY <1>3 DEF store, GInv, JInv, TypeOK
  <2> QED BY <1>1, <2>1, QuietStep DEF Step, G!vars
<1>4. CASE /\ pc' = [pc EXCEPT ![j] = "wait"]
           /\ AddMembrs(j, [list[j] EXCEPT ![j] = inv[j]])
  <2> DEFINE v == [list[j] EXCEPT ![j] = inv[j]]
  <2>1. v[j] = inv[j] /\ \A m \in Agents \ {j} : v[m] = list[j][m]
    BY DEF GInv, JInv, TypeOK, Views
  <2>2. view' = [view EXCEPT ![j] = [m \in Agents |-> IF v[m] # 0 THEN v[m] ELSE view[j][m]]]
    BY <1>4 DEF AddMembrs, GInv, JInv, TypeOK
  <2> HIDE DEF v
  <2>3. /\ \A m \in Agents : view'[j][m] = v[m]
        /\ \A x \in Agents \ {j} : view'[x] = view[x]
        /\ pc'[j] = "wait" /\ \A x \in Agents \ {j} : pc'[x] = pc[x]
    BY <1>2, <1>4, <2>2 DEF GInv, JInv, TypeOK
  <2>4. JoinerOutside'
    BY <1>2, <2>1, <2>3 DEF GInv, JoinerOutside, Before, InGroup
  <2>5. StatusLast' /\ StatusUnique'
    BY <1>1, <1>2, <2>3 DEF GInv, StatusLast, StatusUnique, JInv, TypeOK, Statuses
  <2>6. GInv'
    BY <2>4, <2>5 DEF GInv
  <2> DEFINE L == Members(list[j])
  <2>7. Members(view'[j]) = L \cup {j} /\ j \notin L /\ L \subseteq Agents
    BY <1>2, <2>1, <2>3 DEF Members
  <2>8. knownBar' = [knownBar EXCEPT ![j] = L \cup {j}]
    <3>1. knownBar'[j] = L \cup {j}
      BY <2>6, <2>7, ListedIsMembersNext
    <3>2. \A x \in Agents \ {j} : knownBar'[x] = knownBar[x]
      BY <2>3, <2>6, ListedIsMembers, ListedIsMembersNext
    <3> QED BY <3>1, <3>2, KnownIsFunction
  <2>9. freshBar' = freshBar \cup {j} /\ newsBar' = newsBar
    BY <1>1, <2>3 DEF freshBar, newsBar
  <2>10. knownBar[j] = {} /\ \A m \in L : knownBar[m] # {}
    <3>1. \A m \in L : InGroup(m)
      BY DEF Members, GInv, JInv, ListedInGroup
    <3> QED BY <1>1, <2>7, <3>1, ListedIsMembers
  <2>11. G!Enter(j, L)
    BY <2>7, <2>8, <2>9, <2>10 DEF G!Enter, G!Member
  <2> QED BY <2>6, <2>7, <2>11 DEF Step, G!Next
<1> QED BY <1>3, <1>4 DEF Admit

\* The members that do not hear the status told the joiner themselves, or it
\* would be on the acceptor's list and would have acked the hello.
LEMMA NotifyG ==
    ASSUME GInv, JInv', NEW j \in Agents, Notify(j)
    PROVE  GInv' /\ Step
<1> USE DEF store, join, sockets, curve, stuck
<1> DEFINE status(m) == [from |-> j, to |-> m, active |-> TRUE, inv |-> inv[j], step |-> "sent"]
           S == {x \in Others(j) : Hears(x, j)}
<1>1. /\ pc[j] = "wait" /\ Members(list[j]) \subseteq acked[j]
      /\ statuses' = statuses \cup {status(m) : m \in S}
      /\ UNCHANGED <<view, list>>
  BY DEF Notify, NotifyAll, AllAcked
<1>2. pc'[j] = "idle" /\ \A x \in Agents \ {j} : pc'[x] = pc[x]
  BY DEF Notify, GInv, JInv, TypeOK
<1>3. S \subseteq Agents /\ S \subseteq Others(j) /\ Others(j) \subseteq Agents
  BY DEF Others, Members
<1>4. /\ \A s \in statuses : s.from # j
      /\ \A m \in S : status(m).from = j /\ status(m).to = m /\ status(m).active
  BY <1>1 DEF GInv, StatusLast
<1>5. \A m \in S : News(status(m)) = [from |-> j, to |-> m, active |-> TRUE]
  BY DEF News
<1>6. \A m \in Others(j) \ S : view[m][j] # 0
  <2> SUFFICES ASSUME NEW m \in Others(j), view[m][j] = 0 PROVE Hears(m, j)
    OBVIOUS
  <2>1. list[j][m] # 0
    BY <1>4 DEF GInv, JInv, MutualOrListed
  <2>2. m \in acked[j] /\ m \in Agents
    BY <1>1, <1>3, <2>1 DEF Members
  <2> QED BY <2>2 DEF GInv, JInv, AckedHear, OnlyJoins, Before, NoneBroken, Hears, Alive
<1> HIDE DEF status, S
<1>7. JoinerOutside'
  BY <1>1, <1>2 DEF GInv, JoinerOutside, Before, InGroup
<1>8. StatusLast' /\ StatusUnique'
  BY <1>1, <1>2, <1>4 DEF GInv, StatusLast, StatusUnique, JInv, TypeOK, Statuses
<1>9. GInv'
  BY <1>7, <1>8 DEF GInv
<1>10. knownBar' = knownBar
  <2>1. \A x \in Agents : knownBar'[x] = knownBar[x]
    BY <1>1, <1>9, ListedIsMembers, ListedIsMembersNext
  <2> QED BY <2>1, KnownIsFunction
<1>11. freshBar' = freshBar \ {j} /\ j \in freshBar
  BY <1>1, <1>2 DEF freshBar
<1>12. newsBar' = newsBar \cup G!Entered(j, S)
  <2>1. newsBar = {News(t) : t \in statuses} /\ newsBar' = {News(t) : t \in statuses'}
    BY DEF newsBar, News
  <2>2. G!Entered(j, S) = {News(status(m)) : m \in S}
    BY <1>5 DEF G!Entered
  <2> HIDE DEF News
  <2> QED BY <1>1, <2>1, <2>2
<1>13. G!Others(j) = Others(j)
  BY ListedIsMembers DEF G!Others, Others
<1>14. \A m \in G!Others(j) \ S : j \in knownBar[m]
  BY <1>3, <1>6, <1>13, ListedIsMembers
<1>15. G!Announce(j, S)
  BY <1>3, <1>10, <1>11, <1>12, <1>13, <1>14 DEF G!Announce
<1> QED BY <1>3, <1>9, <1>15 DEF Step, G!Next

LEMMA AddMemberG ==
    ASSUME GInv, JInv', NEW s \in statuses, AddMember(s)
    PROVE  GInv' /\ Step
<1> USE DEF join, sockets, curve, stuck
<1>1. /\ s.to \in Agents /\ s.from \in Agents /\ s.inv # 0 /\ s.active
      /\ InGroup(s.from) /\ InGroup(s.to)
  BY DEF GInv, JInv, StatusSent, TypeOK, Statuses, ListedInGroup, AddMember
<1>2. statuses' = statuses \ {s} /\ pc' = pc
  BY DEF AddMember
<1> DEFINE v == [Empty EXCEPT ![s.from] = s.inv]
<1>3. v[s.from] = s.inv /\ \A m \in Agents \ {s.from} : v[m] = 0
  BY <1>1 DEF Empty
<1>4. view' = [view EXCEPT ![s.to] = [m \in Agents |-> IF v[m] # 0 THEN v[m] ELSE view[s.to][m]]]
  BY <1>1 DEF AddMember, AddMembrs, GInv, JInv, TypeOK
<1> HIDE DEF v
<1>5. /\ \A x, m \in Agents : x # s.to \/ m # s.from => view'[x][m] = view[x][m]
      /\ view'[s.to][s.from] # 0
  BY <1>1, <1>3, <1>4 DEF GInv, JInv, TypeOK
<1>6. JoinerOutside'
  BY <1>1, <1>2, <1>5 DEF GInv, JoinerOutside, Before, InGroup, JInv, StatusSent
<1>7. GInv'
  BY <1>2, <1>6 DEF GInv, StatusLast, StatusUnique
<1>8. knownBar' = [knownBar EXCEPT ![s.to] = @ \cup {s.from}]
  <2>1. Members(view'[s.to]) = Members(view[s.to]) \cup {s.from}
    BY <1>1, <1>5 DEF Members
  <2>2. \A x \in Agents \ {s.to} : Members(view'[x]) = Members(view[x])
    BY <1>5 DEF Members
  <2>3. \A x \in Agents : knownBar'[x] = IF x = s.to THEN knownBar[x] \cup {s.from}
                                                      ELSE knownBar[x]
    BY <1>1, <1>7, <2>1, <2>2, ListedIsMembers, ListedIsMembersNext
  <2> QED BY <2>3, KnownIsFunction
<1>9. freshBar' = freshBar
  BY <1>2 DEF freshBar
<1>10. newsBar' = newsBar \ {News(s)} /\ News(s) \in newsBar
  <2>1. newsBar = {News(t) : t \in statuses} /\ newsBar' = {News(t) : t \in statuses'}
    BY DEF newsBar, News
  <2>2. \A t \in statuses : News(t) = News(s) => t = s
    BY DEF News, GInv, StatusUnique
  <2> HIDE DEF News
  <2> QED BY <1>2, <2>1, <2>2
<1>11. News(s).to = s.to /\ News(s).from = s.from /\ News(s).active
  BY <1>1 DEF News
<1>12. G!Heed(News(s))
  <2>1. knownBar[s.to] # {}
    BY <1>1, ListedIsMembers
  <2> HIDE DEF News
  <2> QED BY <1>8, <1>9, <1>10, <1>11, <2>1 DEF G!Heed, G!Member
<1> QED BY <1>7, <1>10, <1>12 DEF Step, G!Next

LEMMA NextG ==
    ASSUME Leavers = {}
    PROVE  GInv /\ JInv' /\ [Next]_vars => GInv' /\ Step
<1> SUFFICES ASSUME GInv, JInv', [Next]_vars PROVE GInv' /\ Step
  OBVIOUS
<1>1. ASSUME UNCHANGED <<pc, view, statuses>> PROVE GInv' /\ Step
  BY <1>1, SameStep DEF Step, G!vars
<1>2. CASE UNCHANGED vars
  BY <1>1, <1>2 DEF vars, store
<1>3. CASE UserStep
  <2>1. \A a \in Agents : ~LeaveState(a)
    BY DEF LeaveState
  <2>2. ASSUME NEW a \in Agents, NEW b \in Agents, Join(a, b) PROVE GInv' /\ Step
    <3>1. /\ pc[a] = "idle" /\ pc' = [pc EXCEPT ![a] = "reqState"] /\ group[a] = "nil"
          /\ UNCHANGED <<view, statuses>>
      BY <2>2 DEF Join, MayStart, store
    <3>2. ~InGroup(a) /\ \A s \in statuses : s.from # a
      BY <3>1 DEF GInv, JInv, ParamsSet, StatusSent, InGroup
    <3>3. pc'[a] = "reqState" /\ \A x \in Agents \ {a} : pc'[x] = pc[x]
      BY <3>1 DEF GInv, JInv, TypeOK
    <3> QED BY <3>1, <3>2, <3>3, QuietStep DEF Step, G!vars
  <2> QED BY <1>3, <2>1, <2>2, CreateG DEF UserStep
<1>4. ASSUME NEW a \in Agents, JoinStep(a) PROVE GInv' /\ Step
  <2>1. CASE JoinReqs(a) \/ ReqParams(a) \/ ReqMembers(a) \/ SetParams(a)
    <3>1. /\ pc[a] \in Before /\ pc[a] # "wait"
          /\ UNCHANGED <<view, statuses>>
          /\ \/ UNCHANGED pc
             \/ pc' = [pc EXCEPT ![a] = "reqParams"]
             \/ pc' = [pc EXCEPT ![a] = "reqMembers"]
             \/ pc' = [pc EXCEPT ![a] = "setParams"]
             \/ pc' = [pc EXCEPT ![a] = "subscribe"]
      BY <2>1 DEF JoinReqs, ReqParams, ReqMembers, SetParams, store, Before
    <3>2. ~InGroup(a) /\ \A s \in statuses : s.from # a
      BY <3>1 DEF GInv, JoinerOutside, StatusLast, Before
    <3>3. /\ pc'[a] \in Before
          /\ \A x \in Agents \ {a} : pc'[x] = pc[x]
      BY <3>1 DEF GInv, JInv, TypeOK, Before
    <3>4. pc'[a] # "wait"
      BY <3>3 DEF Before
    <3> QED BY <3>1, <3>2, <3>3, <3>4, QuietStep DEF Step, G!vars
  <2>2. CASE \E m \in Agents : Subscriptions(m, a) \/ ConnectMember(a, m) \/ HelloAck(a, m)
    BY <1>1, <2>2 DEF Subscriptions, ConnectMember, HelloAck, store
  <2> QED BY <1>4, <2>1, <2>2, AdmitG, NotifyG DEF JoinStep
<1>5. \A a \in Agents : ~LeaveStep(a)
  BY DEF GInv, JInv, OnlyJoins, Before, LeaveStep, LeaveData, LeaveNotify, LeaveDelete
<1>6. ASSUME NEW a \in Agents, HandlerStep(a) PROVE GInv' /\ Step
  BY <1>1, <1>6 DEF HandlerStep, HandlerAnswer, HandlerState, HandlerData, store
<1>7. ASSUME NEW a \in Agents, StatusStep(a) PROVE GInv' /\ Step
  <2>1. PICK s \in statuses : AddMember(s) \/ RemoveState(s) \/ RemoveMember(s)
    BY <1>7 DEF StatusStep
  <2> QED BY <2>1, AddMemberG DEF GInv, JInv, OnlyJoins, RemoveState, RemoveMember
<1>8. ASSUME NEW a \in Agents, NEW m \in Agents, Establish(a, m) PROVE GInv' /\ Step
  BY <1>1, <1>8 DEF Establish, store
<1> QED BY <1>2, <1>3, <1>4, <1>5, <1>6, <1>7, <1>8 DEF Next

LEMMA InitG == Init => G!Init
<1> SUFFICES ASSUME Init PROVE G!Init
  OBVIOUS
<1>1. \A a \in Agents : ~InGroup(a) /\ pc[a] = "idle"
  BY DEF Init, InGroup, Empty
<1> QED BY <1>1 DEF Init, G!Init, knownBar, Listed, freshBar, newsBar

\* While nobody leaves, the protocol of messages, sockets and connections is a
\* group whose lists change only by announcements, each made and heeded once.
THEOREM PromisedHolds ==
    ASSUME Leavers = {}
    PROVE  Spec => Promised
<1>1. Spec => []JInv
  BY JoinsInductive, PTL
<1>2. GInv /\ JInv' /\ [Next]_vars => GInv' /\ Step
  BY NextG
<1>3. Spec => []GInv
  BY <1>1, <1>2, InitGInv, PTL DEF Spec
<1>4. Spec => [][G!Next]_(G!vars)
  BY <1>1, <1>2, <1>3, PTL DEF Spec, Step
<1> QED BY <1>4, InitG, PTL DEF Spec, Promised, G!Spec
=============================================================================
