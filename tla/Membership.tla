----------------------------- MODULE Membership -----------------------------
(***************************************************************************)
(* How the agents of ZeroComm create, join and leave a group               *)
(* (pubsub/agent.go, pubsub/processor.go, pubsub/stores), with what the    *)
(* ZeroMQ layer under them does to the sockets (pubsub/transport/zmq.go).  *)
(* One topic is modelled, in multiple-queue mode.                          *)
(*                                                                         *)
(* An agent is four kinds of threads, whose steps interleave here: the     *)
(* user's call of Create, Join or Leave (pc), its REP server with the      *)
(* handlers of join and subscribe requests, the goroutines that finish a   *)
(* subscription after the answer was sent (handlers), and one goroutine    *)
(* per received status message (statuses), which is why two messages of    *)
(* one sender may be handled in either order.                              *)
(*                                                                         *)
(* Three ways to get stuck are part of the state.  wedged: a synchronous   *)
(* handler returned without an answer, and the server waits for it for     *)
(* ever.  blocked: a caller gave up after an error of the state socket and *)
(* the data listener waits for ever to hand over its own reply.  crashed:  *)
(* a nil dereference, or another panic, stopped the process.               *)
(*                                                                         *)
(* DIDComm connections are taken as given: connectDIDComm succeeds.        *)
(*                                                                         *)
(* Bounds: MaxInvs (invitations of an agent, hence its Create and Join     *)
(* calls), MaxCalls (calls of Create, Join and Leave by all agents).       *)
(***************************************************************************)
EXTENDS Integers, FiniteSets, Validator

CONSTANTS Agents,
          Publishers,      \* those that create or join as publisher
          Founders,        \* those whose user may create the group
          Leavers,         \* those whose user may leave it
          JoinConsistent,  \* the group parameter of that name
          Serial,          \* users start an operation only when all is quiet
          NoAnswer,        \* no subscribe response yet
          MaxInvs,
          MaxCalls

\* A member list: for each label the invitation its record holds, 0 if there
\* is no record.  Activity and endpoint do not vary, the publisher flag is
\* that of Publishers.
Views == [Agents -> Nat]
Members(v) == {m \in Agents : v[m] # 0}
Empty == [m \in Agents |-> 0]

ASSUME MembershipAssumption ==
    /\ IsFiniteSet(Agents)
    /\ Publishers \subseteq Agents
    /\ Founders \subseteq Agents
    /\ Leavers \subseteq Agents
    /\ JoinConsistent \in BOOLEAN
    /\ Serial \in BOOLEAN
    /\ NoAnswer \notin Views
    /\ MaxInvs \in Nat
    /\ MaxCalls \in Nat

VARIABLES
    pc,         \* where the user's call is
    inv,        \* invs[topic], as the number of invitations made
    calls,      \* number of Create, Join and Leave calls
    group,      \* groups[topic] of the group store: nil, without params, full
    view,       \* its members
    acceptor,   \* Join: the acceptor named by the user
    list,       \* Join: the members the acceptor returned
    answers,    \* Join: the checksums in the subscribe responses
    added,      \* Join: the members connectMember has been called for
    refs,       \* subscriptions of the state socket to the state topic
    stateConn,  \* endpoints the state socket is connected to
    keys,       \* peers whose transport keys are stored and authorised
    srvKey,     \* whose server key the state socket uses for its next connect
    crossed,    \* <<a, b>>: a's state socket tries b with another's server key
    links,      \* <<a, b>>: a's state socket has reached b's PUB socket
    dataConn,   \* publishers the data socket is connected and subscribed to
    subs,       \* the subscriber store
    acked,      \* the endpoints of the peer store: hello acks received
    handlers,   \* subscriptions answered but not finished
    statuses,   \* status messages sent but not fully handled
    wedged, blocked, crashed

store == <<group, view>>
join == <<acceptor, list, answers, added>>
curve == <<keys, srvKey, crossed>>
sockets == <<refs, stateConn, curve, links, dataConn, subs>>
stuck == <<wedged, blocked, crashed>>
vars == <<pc, inv, calls, store, join, sockets, acked, handlers, statuses, stuck>>

PCs == {"idle", "reqState", "reqParams", "reqMembers", "setParams", "subscribe", "wait",
        "leaveData", "leaveNotify", "leaveDelete"}

Handlers == [at : Agents, from : Agents, inv : Nat, step : {"answer", "state", "data"}]

Statuses == [from : Agents, to : Agents, active : BOOLEAN, inv : Nat,
             step : {"sent", "disconnected"}]

TypeOK ==
    /\ pc \in [Agents -> PCs]
    /\ inv \in [Agents -> Nat]
    /\ calls \in Nat
    /\ group \in [Agents -> {"nil", "bare", "full"}]
    /\ view \in [Agents -> Views]
    /\ acceptor \in [Agents -> Agents]
    /\ list \in [Agents -> Views]
    /\ answers \in [Agents -> [Agents -> Views \cup {NoAnswer}]]
    /\ added \in [Agents -> SUBSET Agents]
    /\ refs \in [Agents -> Nat]
    /\ stateConn \in [Agents -> SUBSET Agents]
    /\ keys \in [Agents -> SUBSET Agents]
    /\ srvKey \in [Agents -> Agents]
    /\ crossed \subseteq Agents \X Agents
    /\ links \subseteq Agents \X Agents
    /\ dataConn \in [Agents -> SUBSET Agents]
    /\ subs \in [Agents -> SUBSET Agents]
    /\ acked \in [Agents -> SUBSET Agents]
    /\ handlers \subseteq Handlers
    /\ statuses \subseteq Statuses
    /\ wedged \subseteq Agents
    /\ blocked \subseteq Agents
    /\ crashed \subseteq Agents

Init ==
    /\ pc = [a \in Agents |-> "idle"]
    /\ inv = [a \in Agents |-> 0]
    /\ calls = 0
    /\ group = [a \in Agents |-> "nil"]
    /\ view = [a \in Agents |-> Empty]
    /\ acceptor = [a \in Agents |-> a]
    /\ list = [a \in Agents |-> Empty]
    /\ answers = [a \in Agents |-> [m \in Agents |-> NoAnswer]]
    /\ added = [a \in Agents |-> {}]
    /\ refs = [a \in Agents |-> 0]
    /\ stateConn = [a \in Agents |-> {}]
    /\ keys = [a \in Agents |-> {}]
    /\ srvKey = [a \in Agents |-> a]
    /\ crossed = {}
    /\ links = {}
    /\ dataConn = [a \in Agents |-> {}]
    /\ subs = [a \in Agents |-> {}]
    /\ acked = [a \in Agents |-> {}]
    /\ handlers = {}
    /\ statuses = {}
    /\ wedged = {} /\ blocked = {} /\ crashed = {}
-----------------------------------------------------------------------------
(* Plausible slips in the helpers below, each of which some property notices: *)

\* the group rebuilt from the new members, or its params dropped with it,
AddMembrsReplaced(a, v) ==
    /\ view' = [view EXCEPT ![a] = v]
    /\ group' = [group EXCEPT ![a] = IF @ = "nil" THEN "bare" ELSE @]
AddMembrsNoParams(a, v) ==
    /\ view' = [view EXCEPT ![a] = [m \in Agents |-> IF v[m] # 0 THEN v[m] ELSE @[m]]]
    /\ group' = [group EXCEPT ![a] = "bare"]
\* an off-by-one in topicExists,
ConnectStateOffByOne(a, m, key) ==
    /\ stateConn' = [stateConn EXCEPT ![a] = @ \cup {m}]
    /\ UNCHANGED crossed
    /\ refs' = [refs EXCEPT ![a] = IF Cardinality(Members(view[a])) < 1 THEN @ + 1 ELSE @]
\* a subscription counter without a floor,
UnsubscribeBelowZero(a) == refs' = [refs EXCEPT ![a] = @ - 1]
\* the wrong publisher flag,
ConnectDataOwnFlag(a, m) ==
    dataConn' = [dataConn EXCEPT ![a] = IF a \in Publishers THEN @ \cup {m} ELSE @]
\* every endpoint disconnected,
DisconnectStateAll(a, S) ==
    /\ stateConn' = [stateConn EXCEPT ![a] = {}]
    /\ links' = links \ ({a} \X Agents)
    /\ crossed' = crossed \ ({a} \X Agents)
\* the acceptor not notified,
NotifyAllButAcceptor(a, active) ==
    statuses' = statuses \cup
        {[from |-> a, to |-> m, active |-> active, inv |-> inv[a], step |-> "sent"] :
            m \in {x \in Agents \ {a, acceptor[a]} :
                      view[a][x] # 0 /\ <<x, a>> \in links /\ refs[x] > 0}}
\* a pair of checksums not compared,
ConsistentSkipsPairs(j) ==
    Cardinality(Members(list[j])) > 2 =>
        ValidJoin(acceptor[j], list[j],
                  [m \in Members(list[j]) |-> answers[j][m]])
\* the status published after the first ack,
AllAckedAny(j) == Members(list[j]) \cap acked[j] # {}
\* the subscriber store or the group kept on leaving.
ForgetKeepsSubs(a) ==
    /\ group' = [group EXCEPT ![a] = "nil"]
    /\ view' = [view EXCEPT ![a] = Empty]
    /\ UNCHANGED subs
ForgetKeepsGroup(a) ==
    /\ subs' = [subs EXCEPT ![a] = {}]
    /\ view' = [view EXCEPT ![a] = Empty]
    /\ UNCHANGED group
-----------------------------------------------------------------------------
Alive(a) == a \notin crashed

\* Nothing is under way: no call, no handler, no message, no connection.
Quiet == /\ \A a \in Agents : pc[a] = "idle"
         /\ handlers = {}
         /\ statuses = {}
         /\ \A a \in Agents : \A m \in stateConn[a] : <<a, m>> \in links

\* The user of a starts an operation.
MayStart(a) == /\ Alive(a) /\ pc[a] = "idle"
               /\ Serial => Quiet
               /\ calls < MaxCalls
               /\ calls' = calls + 1

Others(a) == Members(view[a]) \ {a}

\* stores.AddMembrs: creates the group if there is none, without params.
AddMembrs(a, v) ==
    /\ view' = [view EXCEPT ![a] = [m \in Agents |-> IF v[m] # 0 THEN v[m] ELSE @[m]]]
    /\ group' = [group EXCEPT ![a] = IF @ = "nil" THEN "bare" ELSE @]

\* auth.setPeerStateAuthn: the client key of m is authorised, and its server
\* key becomes an option of the whole socket.
Authenticate(a, m) ==
    /\ keys' = [keys EXCEPT ![a] = @ \cup {m}]
    /\ srvKey' = [srvKey EXCEPT ![a] = m]

\* Zmq.connectState with the server key of the socket: a new connection keeps
\* it for good.  The topic is subscribed to unless the store holds two members
\* or more; ZeroMQ counts repeated subscriptions.
ConnectState(a, m, key) ==
    /\ stateConn' = [stateConn EXCEPT ![a] = @ \cup {m}]
    /\ crossed' = IF key = m \/ m \in stateConn[a] THEN crossed
                                                  ELSE crossed \cup {<<a, m>>}
    /\ refs' = [refs EXCEPT ![a] = IF Cardinality(Members(view[a])) < 2 THEN @ + 1 ELSE @]

\* Zmq.unsubscribeState: one of the subscriptions is taken back.
Unsubscribe(a) == refs' = [refs EXCEPT ![a] = IF @ > 0 THEN @ - 1 ELSE 0]

\* Zmq.connectData
ConnectData(a, m) ==
    dataConn' = [dataConn EXCEPT ![a] = IF m \in Publishers THEN @ \cup {m} ELSE @]

\* Socket.Disconnect on the state socket, for every endpoint in S.
DisconnectState(a, S) ==
    /\ stateConn' = [stateConn EXCEPT ![a] = @ \ S]
    /\ links' = links \ ({a} \X S)
    /\ crossed' = crossed \ ({a} \X S)

\* A message a publishes to the state topic reaches m.
Hears(m, a) == <<m, a>> \in links /\ refs[m] > 0 /\ Alive(m)

\* notifyAll: one message with a part for each member of the sender's view.
\* A part is lost unless its member hears the sender.
NotifyAll(a, active) ==
    statuses' = statuses \cup
        {[from |-> a, to |-> m, active |-> active, inv |-> inv[a], step |-> "sent"] :
            m \in {x \in Others(a) : Hears(x, a)}}

\* waitForConns: every member the acceptor listed has answered a hello.
AllAcked(j) == Members(list[j]) \subseteq acked[j]

\* Subscriber.DeleteTopic and Group.DeleteTopic
Forget(a) ==
    /\ subs' = [subs EXCEPT ![a] = {}]
    /\ group' = [group EXCEPT ![a] = "nil"]
    /\ view' = [view EXCEPT ![a] = Empty]

\* External: a connection the state socket of a was told to make is
\* established (TCP and CURVE handshake done, subscription forwarded).  The
\* handshake is tried again until m has authorised a, and always fails with a
\* server key that is not m's.
Establish(a, m) ==
    /\ m \in stateConn[a] /\ <<a, m>> \notin links
    /\ a \in keys[m] /\ <<a, m>> \notin crossed
    /\ Alive(a) /\ Alive(m)
    /\ links' = links \cup {<<a, m>>}
    /\ UNCHANGED <<pc, inv, calls, store, join, refs, stateConn, curve,
                   dataConn, subs, acked, handlers, statuses, stuck>>
-----------------------------------------------------------------------------
(* Create and Join *)

Create(a) ==
    /\ a \in Founders /\ MayStart(a) /\ inv[a] < MaxInvs
    /\ inv' = [inv EXCEPT ![a] = @ + 1]
    /\ view' = [view EXCEPT ![a][a] = inv[a] + 1]
    /\ group' = [group EXCEPT ![a] = "full"]
    /\ UNCHANGED <<pc, join, sockets, acked, handlers, statuses, stuck>>

\* Join up to the request for the group state.
Join(j, accptr) ==
    /\ MayStart(j) /\ inv[j] < MaxInvs
    /\ accptr # j
    /\ group[j] = "nil"
    /\ inv' = [inv EXCEPT ![j] = @ + 1]
    /\ acceptor' = [acceptor EXCEPT ![j] = accptr]
    /\ pc' = [pc EXCEPT ![j] = "reqState"]
    /\ UNCHANGED <<store, list, answers, added, sockets, acked, handlers,
                   statuses, stuck>>

\* The REP server of m takes a request when it has answered the one before, and
\* never again if one got no answer.
Ready(m) == /\ Alive(m) /\ m \notin wedged
            /\ \A j \in Agents : pc[j] \in {"reqParams", "reqMembers"} => acceptor[j] # m
            /\ \A h \in handlers : h.step = "answer" => h.at # m

\* processor.joinReqs at the acceptor reads its store under one lock after
\* another.  Without members there is an error and no answer,
JoinReqs(j) ==
    LET c == acceptor[j] IN
    /\ pc[j] = "reqState" /\ Alive(j) /\ Ready(c)
    /\ \/ /\ Members(view[c]) = {}
          /\ wedged' = wedged \cup {c}
          /\ UNCHANGED pc
       \/ /\ Members(view[c]) # {}
          /\ pc' = [pc EXCEPT ![j] = "reqParams"]
          /\ UNCHANGED wedged
    /\ UNCHANGED <<inv, calls, store, join, sockets, acked, handlers, statuses,
                   blocked, crashed>>

\* without a group or its params reading OrderEnabled, JoinConsistent or Mode is
\* a nil dereference,
ReqParams(j) ==
    LET c == acceptor[j] IN
    /\ pc[j] = "reqParams" /\ Alive(c)
    /\ \/ /\ group[c] = "full"
          /\ pc' = [pc EXCEPT ![j] = "reqMembers"]
          /\ UNCHANGED crashed
       \/ /\ group[c] # "full"
          /\ crashed' = crashed \cup {c}
          /\ UNCHANGED pc
    /\ UNCHANGED <<inv, calls, store, join, sockets, acked, handlers, statuses,
                   wedged, blocked>>

\* and the members are read again for the answer: there may be none by now.
ReqMembers(j) ==
    LET c == acceptor[j] IN
    /\ pc[j] = "reqMembers" /\ Alive(c)
    /\ list' = [list EXCEPT ![j] = view[c]]
    /\ pc' = [pc EXCEPT ![j] = "setParams"]
    /\ UNCHANGED <<inv, calls, store, acceptor, answers, added, sockets, acked,
                   handlers, statuses, stuck>>

\* Join with the acceptor's answer: from here on Joined(topic) is true.
SetParams(j) ==
    /\ pc[j] = "setParams" /\ Alive(j)
    /\ group' = [group EXCEPT ![j] = "full"]
    /\ answers' = [answers EXCEPT ![j] = [m \in Agents |-> NoAnswer]]
    /\ added' = [added EXCEPT ![j] = {}]
    /\ pc' = [pc EXCEPT ![j] = "subscribe"]
    /\ UNCHANGED <<inv, calls, view, acceptor, list, sockets, acked, handlers,
                   statuses, stuck>>

\* processor.subscriptions at m, up to the check that m is a member; the requests
\* to different members run in parallel.  A blocked data listener never answers
\* sendAuth, a node that is not a member returns an error: both leave the server
\* waiting.  The state socket has the keys by then.
\* An agent listed by the acceptor to itself cannot connect to itself.
Subscriptions(m, j) ==
    /\ pc[j] = "subscribe" /\ Alive(j)
    /\ m \in Members(list[j]) \ {j} /\ answers[j][m] = NoAnswer
    /\ Ready(m)
    /\ Authenticate(m, j)
    /\ \/ /\ m \in blocked \/ view[m][m] = 0
          /\ wedged' = wedged \cup {m}
          /\ UNCHANGED handlers
       \/ /\ m \notin blocked /\ view[m][m] # 0
          /\ handlers' = handlers \cup
                {[at |-> m, from |-> j, inv |-> inv[j], step |-> "answer"]}
          /\ UNCHANGED wedged
    /\ UNCHANGED <<pc, inv, calls, store, join, refs, stateConn, crossed, links,
                   dataConn, subs, acked, statuses, blocked, crashed>>

\* sendSubscribeRes: the checksum is read later, a nil dereference if the agent
\* has left since it was found to be a member.
HandlerAnswer(h) ==
    /\ h \in handlers /\ h.step = "answer" /\ Alive(h.at)
    /\ \/ /\ group[h.at] = "nil"
          /\ crashed' = crashed \cup {h.at}
          /\ handlers' = handlers \ {h}
          /\ UNCHANGED answers
       \/ /\ group[h.at] # "nil"
          /\ answers' = [answers EXCEPT ![h.from][h.at] = view[h.at]]
          /\ handlers' = (handlers \ {h}) \cup {[h EXCEPT !.step = "state"]}
          /\ UNCHANGED crashed
    /\ UNCHANGED <<pc, inv, calls, store, acceptor, list, added, sockets, acked,
                   statuses, wedged, blocked>>

\* processor.subscriptions after its answer: sendConnect at the state listener.
HandlerState(h) ==
    /\ h \in handlers /\ h.step = "state" /\ Alive(h.at)
    /\ ConnectState(h.at, h.from, srvKey[h.at])
    /\ handlers' = (handlers \ {h}) \cup {[h EXCEPT !.step = "data"]}
    /\ UNCHANGED <<pc, inv, calls, store, join, keys, srvKey, links, dataConn, subs,
                   acked, statuses, stuck>>

\* sendConnect at the data listener, then subs.Add.  DataTopic reads the mode
\* of the group: a nil dereference if the agent has left meanwhile.
HandlerData(h) ==
    /\ h \in handlers /\ h.step = "data" /\ Alive(h.at) /\ h.at \notin blocked
    /\ handlers' = handlers \ {h}
    /\ \/ /\ h.from \in Publishers /\ group[h.at] # "full"
          /\ crashed' = crashed \cup {h.at}
          /\ UNCHANGED <<dataConn, subs>>
       \/ /\ h.from \notin Publishers \/ group[h.at] = "full"
          /\ ConnectData(h.at, h.from)
          /\ subs' = [subs EXCEPT ![h.at] = @ \cup {h.from}]
          /\ UNCHANGED crashed
    /\ UNCHANGED <<pc, inv, calls, store, join, refs, stateConn, curve, links,
                   acked, statuses, wedged, blocked>>

\* Join after wg.Wait: connectMember for the members in turn.  Its messages are
\* one step: no handler uses the sockets in between, since who still joins is
\* on no list but one that is out of date.
ConnectMember(j, m) ==
    /\ pc[j] = "subscribe" /\ Alive(j) /\ j \notin blocked
    /\ \A x \in Members(list[j]) : answers[j][x] # NoAnswer
    /\ m \in Members(list[j]) \ added[j]
    /\ Authenticate(j, m)
    /\ ConnectState(j, m, m)
    /\ ConnectData(j, m)
    /\ subs' = [subs EXCEPT ![j] = IF j \in Publishers THEN @ \cup {m} ELSE @]
    /\ added' = [added EXCEPT ![j] = @ \cup {m}]
    /\ UNCHANGED <<pc, inv, calls, store, acceptor, list, answers, links, acked,
                   handlers, statuses, stuck>>

\* The checksums are compared only if the acceptor listed two members or more.
Consistent(j) ==
    Cardinality(Members(list[j])) > 1 =>
        ValidJoin(acceptor[j], list[j],
                  [m \in Members(list[j]) |-> answers[j][m]])

\* Join: verification, then AddMembrs of the list and the joiner itself.  A
\* failed join undoes nothing.
Admit(j) ==
    /\ pc[j] = "subscribe" /\ Alive(j)
    /\ added[j] = Members(list[j])
    /\ \/ /\ JoinConsistent /\ ~Consistent(j)
          /\ pc' = [pc EXCEPT ![j] = "idle"]
          /\ UNCHANGED store
       \/ /\ JoinConsistent => Consistent(j)
          /\ AddMembrs(j, [list[j] EXCEPT ![j] = inv[j]])
          /\ pc' = [pc EXCEPT ![j] = "wait"]
    /\ UNCHANGED <<inv, calls, join, sockets, acked, handlers, statuses, stuck>>

\* waitForConns: a hello j publishes reaches m, whose state handler answers
\* with an ack.  The hello is repeated until all have answered; the peer store
\* keeps an ack for ever.
HelloAck(j, m) ==
    /\ pc[j] = "wait" /\ Alive(j) /\ j \notin wedged
    /\ m \in Members(list[j]) \ acked[j]
    /\ Hears(m, j)
    /\ acked' = [acked EXCEPT ![j] = @ \cup {m}]
    /\ UNCHANGED <<pc, inv, calls, store, join, sockets, handlers, statuses, stuck>>

\* Join: the loop of waitForConns ends, and the status is published.
Notify(j) ==
    /\ pc[j] = "wait" /\ Alive(j)
    /\ AllAcked(j)
    /\ NotifyAll(j, TRUE)
    /\ pc' = [pc EXCEPT ![j] = "idle"]
    /\ UNCHANGED <<inv, calls, store, join, sockets, acked, handlers, stuck>>
-----------------------------------------------------------------------------
(* processor.state, for the status of a joined or a left member *)

AddMember(s) ==
    /\ s \in statuses /\ s.active /\ Alive(s.to)
    /\ AddMembrs(s.to, [Empty EXCEPT ![s.from] = s.inv])
    /\ statuses' = statuses \ {s}
    /\ UNCHANGED <<pc, inv, calls, join, sockets, acked, handlers, stuck>>

\* removeMember at the state listener.  Disconnecting an endpoint that is not
\* connected is an error, after which nobody takes the data listener's reply.
RemoveState(s) ==
    /\ s \in statuses /\ ~s.active /\ s.step = "sent" /\ Alive(s.to)
    /\ \/ /\ s.from \in stateConn[s.to]
          /\ DisconnectState(s.to, {s.from})
          /\ statuses' = (statuses \ {s}) \cup {[s EXCEPT !.step = "disconnected"]}
          /\ UNCHANGED blocked
       \/ /\ s.from \notin stateConn[s.to]
          /\ statuses' = statuses \ {s}
          /\ blocked' = blocked \cup {s.to}
          /\ UNCHANGED <<stateConn, crossed, links>>
    /\ UNCHANGED <<pc, inv, calls, store, join, refs, keys, srvKey, dataConn, subs,
                   acked, handlers, wedged, crashed>>

\* removeMember from there on: the data socket is disconnected from a
\* publisher (DataTopic needs the group; an unknown endpoint is an error that
\* ends the handler), then the stores are updated and its keys removed.  The
\* checksum of a list that has become empty cannot be calculated, a panic.
RemoveMember(s) ==
    LET a == s.to
        b == s.from
        publisher == b \in Publishers
    IN
    /\ s \in statuses /\ s.step = "disconnected" /\ Alive(a) /\ a \notin blocked
    /\ statuses' = statuses \ {s}
    /\ \/ /\ publisher /\ group[a] # "full"
          /\ crashed' = crashed \cup {a}
          /\ UNCHANGED <<dataConn, subs, view, keys>>
       \/ /\ publisher /\ group[a] = "full" /\ b \notin dataConn[a]
          /\ UNCHANGED <<dataConn, subs, view, keys, crashed>>
       \/ /\ publisher => group[a] = "full" /\ b \in dataConn[a]
          /\ dataConn' = [dataConn EXCEPT ![a] = @ \ {b}]
          /\ subs' = [subs EXCEPT ![a] = @ \ {b}]
          /\ view' = [view EXCEPT ![a][b] = 0]
          /\ \/ /\ group[a] = "nil" \/ Members(view[a]) \ {b} # {}
                /\ keys' = [keys EXCEPT ![a] = @ \ {b}]
                /\ UNCHANGED crashed
             \/ /\ group[a] # "nil" /\ Members(view[a]) \ {b} = {}
                /\ crashed' = crashed \cup {a}
                /\ UNCHANGED keys
    /\ UNCHANGED <<pc, inv, calls, group, join, refs, stateConn, srvKey, crossed,
                   links, acked, handlers, wedged, blocked>>
-----------------------------------------------------------------------------
(* Leave *)

\* unsubscribeAllData: the data socket is disconnected from the publishers in
\* the order of a map, up to one it is not connected to (DataTopic needs the
\* group).
Pubs(a) == Others(a) \cap Publishers
NoTopic(a) == Pubs(a) # {} /\ group[a] # "full"
Disconnected(a) ==
    IF Pubs(a) \subseteq dataConn[a] THEN {Pubs(a)} ELSE SUBSET (Pubs(a) \cap dataConn[a])
UnsubscribeAllData(a) ==
    \E S \in Disconnected(a) : dataConn' = [dataConn EXCEPT ![a] = @ \ S]

\* unsubscribeState: one subscription is taken back, then the endpoints of the
\* members are disconnected in the order of a map, up to an error.  After an
\* error Leave has returned when the data listener, which does its part all the
\* same, waits to hand over its reply.
LeaveState(a) ==
    /\ a \in Leavers /\ MayStart(a)
    /\ Unsubscribe(a)
    /\ \/ /\ Others(a) \subseteq stateConn[a]
          /\ DisconnectState(a, Others(a))
          /\ pc' = [pc EXCEPT ![a] = "leaveData"]
          /\ UNCHANGED <<dataConn, blocked, crashed>>
       \/ /\ ~(Others(a) \subseteq stateConn[a])
          /\ \E S \in SUBSET (Others(a) \cap stateConn[a]) : DisconnectState(a, S)
          /\ \/ /\ NoTopic(a)
                /\ crashed' = crashed \cup {a}
                /\ UNCHANGED <<dataConn, blocked>>
             \/ /\ ~NoTopic(a)
                /\ a \notin blocked => UnsubscribeAllData(a)
                /\ a \in blocked => UNCHANGED dataConn
                /\ blocked' = blocked \cup {a}
                /\ UNCHANGED crashed
          /\ UNCHANGED pc
    /\ UNCHANGED <<inv, store, join, keys, srvKey, subs, acked, handlers, statuses,
                   wedged>>

\* The same with Leave waiting for the reply.
LeaveData(a) ==
    /\ pc[a] = "leaveData" /\ Alive(a) /\ a \notin blocked
    /\ \/ /\ NoTopic(a)
          /\ crashed' = crashed \cup {a}
          /\ UNCHANGED <<pc, dataConn>>
       \/ /\ ~NoTopic(a)
          /\ UnsubscribeAllData(a)
          /\ pc' = [pc EXCEPT ![a] = IF Pubs(a) \subseteq dataConn[a]
                                     THEN "leaveNotify" ELSE "idle"]
          /\ UNCHANGED crashed
    /\ UNCHANGED <<inv, calls, store, join, refs, stateConn, curve, links, subs,
                   acked, handlers, statuses, wedged, blocked>>

LeaveNotify(a) ==
    /\ pc[a] = "leaveNotify" /\ Alive(a)
    /\ \/ /\ Members(view[a]) = {}
          /\ pc' = [pc EXCEPT ![a] = "idle"]
          /\ UNCHANGED statuses
       \/ /\ Members(view[a]) # {}
          /\ NotifyAll(a, FALSE)
          /\ pc' = [pc EXCEPT ![a] = "leaveDelete"]
    /\ UNCHANGED <<inv, calls, store, join, sockets, acked, handlers, stuck>>

LeaveDelete(a) ==
    /\ pc[a] = "leaveDelete" /\ Alive(a)
    /\ Forget(a)
    /\ pc' = [pc EXCEPT ![a] = "idle"]
    /\ UNCHANGED <<inv, calls, join, refs, stateConn, curve, links, dataConn, acked,
                   handlers, statuses, stuck>>
-----------------------------------------------------------------------------
\* What the users do.
UserStep == \E a \in Agents : \/ Create(a)
                              \/ LeaveState(a)
                              \/ \E b \in Agents : Join(a, b)

\* What agent a does, its peers and the network permitting.
JoinStep(a) == \/ JoinReqs(a) \/ ReqParams(a) \/ ReqMembers(a)
               \/ SetParams(a) \/ Admit(a) \/ Notify(a)
               \/ \E m \in Agents : \/ Subscriptions(m, a)
                                    \/ ConnectMember(a, m)
                                    \/ HelloAck(a, m)

LeaveStep(a) == LeaveData(a) \/ LeaveNotify(a) \/ LeaveDelete(a)

HandlerStep(a) == \E h \in {x \in handlers : x.at = a} :
                     HandlerAnswer(h) \/ HandlerState(h) \/ HandlerData(h)

StatusStep(a) == \E s \in {x \in statuses : x.to = a} :
                    AddMember(s) \/ RemoveState(s) \/ RemoveMember(s)

Next == \/ UserStep
        \/ \E a \in Agents : JoinStep(a) \/ LeaveStep(a) \/ HandlerStep(a) \/ StatusStep(a)
        \/ \E a, m \in Agents : Establish(a, m)

\* Every thread is scheduled and every connection comes up in the end; no user
\* has to do anything.  Each step of a call or handler is taken at most once
\* for a call, so fairness for their union is fairness for each.
Fairness ==
    /\ \A a \in Agents : /\ WF_vars(JoinStep(a)) /\ WF_vars(LeaveStep(a))
                         /\ WF_vars(HandlerStep(a)) /\ WF_vars(StatusStep(a))
    /\ \A a, m \in Agents : WF_vars(Establish(a, m))

Spec == Init /\ [][Next]_vars

FairSpec == Spec /\ Fairness
-----------------------------------------------------------------------------
(* Properties *)

\* The agent is in the group, as far as it knows itself.
InGroup(a) == view[a][a] # 0

\* Who knows whom when nobody leaves, however many joins run at once.  An agent
\* lists another only if one of the two was given the other's name when it
\* joined: nobody else ever tells it, so two agents that joined at once, each on
\* a list without the other, do not learn of each other.  And if j lists m, then
\* m lists j, or j's status is on its way to m, or j has not yet published it.
KnownByList ==
    \A j \in Agents : \A m \in Others(j) :
        /\ list[j][m] # 0 \/ list[m][j] # 0
        /\ \/ InGroup(m) /\ view[m][j] # 0
           \/ \E s \in statuses : s.from = j /\ s.to = m /\ s.active
           \/ pc[j] = "wait"

\* An idle agent's state socket is connected to every member it lists, unless
\* it is just removing that member: so Leave will not fail half way
\* (unsubscribeState) and take the data listener with it.
ViewsConnected ==
    \A a \in Agents : pc[a] = "idle" => \A m \in Others(a) :
        \/ m \in stateConn[a]
        \/ \E s \in statuses : s.to = a /\ s.from = m /\ s.step = "disconnected"

\* Joined, which refuses a second Join, means what its comment says: the
\* agent has joined the group, not merely tried to.
JoinedMeansMember ==
    \A a \in Agents : pc[a] = "idle" /\ group[a] # "nil" => InGroup(a)

\* When all is quiet, the agents in the group have the same list, and it holds
\* them and nobody else.
Agreement ==
    Quiet => \A a \in Agents : InGroup(a) =>
                /\ Members(view[a]) = {m \in Agents : InGroup(m)}
                /\ \A m \in Members(view[a]) : view[a] = view[m]

\* When all is quiet, what a publisher sends reaches every other member: the
\* publisher holds its key and the member's data socket is subscribed.
DataReachesMembers ==
    Quiet => \A a \in Publishers : InGroup(a) =>
                \A m \in Others(a) : m \in subs[a] /\ a \in dataConn[m]

\* When all is quiet, an agent that is in no group has no connection to
\* anybody, and nobody has one to it.
NoResidue ==
    Quiet => \A a \in Agents : group[a] = "nil" =>
                /\ stateConn[a] = {} /\ dataConn[a] = {} /\ subs[a] = {}
                /\ \A m \in Agents : /\ a \notin stateConn[m] /\ a \notin dataConn[m]
                                     /\ a \notin subs[m]

\* With JoinConsistent, a joiner admitted to a group of two or more holds the
\* very list each member held when it answered the subscription, whatever
\* joined or left meanwhile; only the acceptor's answer is not looked at.
AdmittedConsistently ==
    \A j \in Agents :
        JoinConsistent /\ pc[j] = "wait" /\ Cardinality(Members(list[j])) > 1 =>
            \A m \in Members(list[j]) \ {acceptor[j]} : answers[j][m] = list[j]

\* An agent whose Join failed the check is on nobody's list, and no message
\* that would put it there is on its way.
FailedJoinUnlisted ==
    \A j \in Agents :
        inv[j] = 1 /\ pc[j] = "idle" /\ group[j] = "full" /\ ~InGroup(j) =>
            /\ \A a \in Agents : view[a][j] = 0
            /\ \A s \in statuses : s.from # j

\* No agent loses its data listener and none dies of a nil dereference or of the
\* checksum of an empty list.
NoneBroken == blocked = {} /\ crashed = {}

\* The comment in waitForConns: it waits till the pub-sub connections are
\* established.  So when it ends, every member hears the joiner.
HelloMeansConnected ==
    [][\A j \in Agents : pc[j] = "wait" /\ pc'[j] = "idle" =>
          \A m \in Members(list[j]) : Hears(m, j)]_vars

\* A call of Join returns, unless a server was left waiting for an answer, a
\* process died, or a member connected to this very joiner with the server key
\* of another, as two subscriptions handled at once may make it do.
JoinReturns ==
    \A j \in Agents : pc[j] = "reqState" ~>
        \/ pc[j] = "idle" \/ wedged # {} \/ crashed # {}
        \/ \E m \in Agents : <<m, j>> \in crossed

\* Whoever leaves is forgotten by everybody.
LeaverForgotten ==
    \A a \in Agents : pc[a] = "leaveDelete" ~> \A m \in Agents : view[m][a] = 0
=============================================================================
