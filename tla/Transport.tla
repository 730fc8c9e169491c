------------------------------ MODULE Transport ------------------------------
(***************************************************************************)
(* The threads under one group agent (pubsub/transport/zmq.go, auth.go,    *)
(* the send functions of pubsub/processor.go).                             *)
(*                                                                         *)
(* A caller is a goroutine that works for the agent: a handler of a        *)
(* subscription or of a status, or the user's call.  Its requests go over  *)
(* an unbuffered channel to the connector, which registers the two reply   *)
(* channels and publishes the request to two listeners.  The state and the *)
(* data listener each own a SUB socket, act on every request in turn and   *)
(* block on the reply until its caller takes it.  The caller takes the     *)
(* reply of the state listener first, and gives up if it is an error.      *)
(*                                                                         *)
(* Membership lets operations on one member overlap in every way, with     *)
(* the threads left out.  Here the threads are in, and operations overlap  *)
(* only if they concern different members, or different groups with        *)
(* members in common.  The server key of a socket, which authenticate sets *)
(* for the connect that follows, is in Membership and not here.            *)
(*                                                                         *)
(* Bound: MaxOps, the number of operations started.                        *)
(***************************************************************************)
EXTENDS Integers, Sequences

CONSTANTS Callers,
          Topics,
          Peers,
          Publishers,     \* peers that publish
          Joinable,       \* pairs of a topic and a peer that may join it
          MayClose,       \* whether the agent is closed at some time
          Nobody,         \* no peer, no request, no reply
          MaxOps

Sides == {"state", "data"}
Kinds == {"add", "remove", "leave", "send"}
Ops == {"auth", "connect", "disconnect", "unsub", "unsubAll"}
Tasks == [kind : Kinds, g : Topics, p : Peers \cup {Nobody}]
Requests == [op : Ops, g : Topics, p : Peers \cup {Nobody}, t : Callers, n : Nat]
Replies == [t : Callers, n : Nat, err : BOOLEAN]

ASSUME TransportAssumption ==
    /\ Publishers \subseteq Peers
    /\ Joinable \subseteq Topics \X Peers
    /\ MayClose \in BOOLEAN
    /\ Nobody \notin Peers \cup Tasks \cup Requests \cup Replies
    /\ MaxOps \in Nat

VARIABLES
    ops,        \* number of operations started
    task,       \* what each caller works on
    todo,       \* the requests it has still to make, the current one first
    wait,       \* what it waits for
    sent,       \* how many requests it has made: with the caller, a reply id
    conn,       \* the request the connector has taken and not published
    repChans,   \* ReplyChans: the ids registered, for each side
    queue,      \* requests published to a listener and not handled
    reply,      \* the reply a listener blocks on
    open,       \* the internal publisher, the publisher of the agent
    joined,     \* topics with a group in the store
    members,    \* the other members in it
    asked,      \* pairs of a topic and a peer that subscribed and did not leave
    refs,       \* subscriptions of the state socket to the state topic
    stateConn, dataConn,  \* peers each socket is connected to
    dataSubs,   \* data topics the data socket is subscribed to
    keys        \* peers whose transport keys are stored and authorised

calls == <<ops, task, todo, wait, sent>>
threads == <<conn, repChans, queue, reply>>
store == <<joined, members, asked>>
sockets == <<refs, stateConn, dataConn, dataSubs, keys>>
vars == <<calls, threads, open, store, sockets>>

TypeOK ==
    /\ ops \in 0..MaxOps
    /\ task \in [Callers -> Tasks \cup {Nobody}]
    /\ todo \in [Callers -> Seq(Ops \cup {"publish"})]
    /\ wait \in [Callers -> {"idle", "send"} \cup Sides]
    /\ \A t \in Callers : wait[t] # "idle" => task[t] # Nobody /\ todo[t] # <<>>
    /\ sent \in [Callers -> Nat]
    /\ conn \in Requests \cup {Nobody}
    /\ repChans \subseteq Sides \X Callers \X Nat
    /\ queue \in [Sides -> Seq(Requests)]
    /\ reply \in [Sides -> Replies \cup {Nobody}]
    /\ open \in [{"internal", "external"} -> BOOLEAN]
    /\ joined \subseteq Topics
    /\ members \in [Topics -> SUBSET Peers]
    /\ asked \subseteq Joinable
    /\ refs \in [Topics -> Nat]
    /\ stateConn \subseteq Peers
    /\ dataConn \subseteq Publishers
    /\ dataSubs \subseteq Topics \X Publishers
    /\ keys \subseteq Peers

Init ==
    /\ ops = 0
    /\ task = [t \in Callers |-> Nobody]
    /\ todo = [t \in Callers |-> <<>>]
    /\ wait = [t \in Callers |-> "idle"]
    /\ sent = [t \in Callers |-> 0]
    /\ conn = Nobody
    /\ repChans = {}
    /\ queue = [s \in Sides |-> <<>>]
    /\ reply = [s \in Sides |-> Nobody]
    /\ open = [x \in {"internal", "external"} |-> TRUE]
    /\ joined = {}
    /\ members = [g \in Topics |-> {}]
    /\ asked = {}
    /\ refs = [g \in Topics |-> 0]
    /\ stateConn = {}
    /\ dataConn = {}
    /\ dataSubs = {}
    /\ keys = {}
-----------------------------------------------------------------------------
(* Operations *)

Busy(g, p) == \E t \in Callers : wait[t] # "idle" /\ task[t].g = g
                                 /\ task[t].p \in {p, Nobody} /\ task[t].kind # "send"

\* Caller t starts an operation that makes the requests rs.
Start(t, kind, g, p, rs) ==
    /\ wait[t] = "idle" /\ ops < MaxOps
    /\ ops' = ops + 1
    /\ task' = [task EXCEPT ![t] = [kind |-> kind, g |-> g, p |-> p]]
    /\ todo' = [todo EXCEPT ![t] = rs]
    /\ wait' = [wait EXCEPT ![t] = "send"]
    /\ UNCHANGED <<sent, threads, open, joined, members, sockets>>

\* Agent.Create, or Agent.Join once the acceptor has answered.
Enter(g) ==
    /\ g \notin joined /\ \A t \in Callers : wait[t] # "idle" => task[t].g # g
    /\ joined' = joined \cup {g}
    /\ UNCHANGED <<calls, threads, open, members, asked, sockets>>

\* processor.subscriptions or Agent.connectMember: p is to be connected for g.
Add(t, g, p) ==
    /\ g \in joined /\ <<g, p>> \in Joinable \ asked /\ ~Busy(g, p)
    /\ asked' = asked \cup {<<g, p>>}
    /\ Start(t, "add", g, p, <<"auth", "connect">>)

\* processor.state: p has published its status, which the state socket heard.
Learn(g, p) ==
    /\ g \in joined /\ <<g, p>> \in asked /\ p \notin members[g]
    /\ p \in stateConn /\ refs[g] > 0
    /\ members' = [members EXCEPT ![g] = @ \cup {p}]
    /\ UNCHANGED <<calls, threads, open, joined, asked, sockets>>

\* processor.removeMember: p has published that it left g.
Remove(t, g, p) ==
    /\ g \in joined /\ p \in members[g] /\ ~Busy(g, p)
    /\ Start(t, "remove", g, p, IF p \in Publishers THEN <<"disconnect", "unsub">>
                                                   ELSE <<"disconnect">>)
    /\ UNCHANGED asked

Leave(t, g) ==
    /\ g \in joined
    /\ \A u \in Callers : wait[u] # "idle" => task[u].g # g
    /\ Start(t, "leave", g, Nobody, <<"unsubAll", "publish">>)
    /\ UNCHANGED asked

Send(t, g) ==
    /\ g \in joined
    /\ Start(t, "send", g, Nobody, <<"publish">>)
    /\ UNCHANGED asked

\* What an operation does after its last request.
Finish(t) ==
    LET g == task[t].g
        p == task[t].p
    IN
    CASE task[t].kind = "remove" ->
            /\ members' = [members EXCEPT ![g] = @ \ {p}]
            /\ asked' = asked \ {<<g, p>>}
            /\ keys' = keys \ {p}
            /\ UNCHANGED joined
      [] task[t].kind = "leave" ->
            /\ members' = [members EXCEPT ![g] = {}]
            /\ asked' = {x \in asked : x[1] # g}
            /\ joined' = joined \ {g}
            /\ UNCHANGED keys
      [] OTHER -> UNCHANGED <<store, keys>>
-----------------------------------------------------------------------------
(* The caller and the connector *)

\* Mutant: only the channel of the state listener is registered.
RegisterState(t) == repChans' = repChans \cup {<<"state", t, sent[t] + 1>>}

\* sendAuth, sendConnect or sendSubscribe hands its request over, and the
\* connector registers the reply channels of both sides (addRepChan).
Register(t) == repChans' = repChans \cup {<<s, t, sent[t] + 1>> : s \in Sides}

Take(t) ==
    /\ wait[t] = "send" /\ Head(todo[t]) # "publish" /\ conn = Nobody
    /\ sent' = [sent EXCEPT ![t] = @ + 1]
    /\ conn' = [op |-> Head(todo[t]), g |-> task[t].g, p |-> task[t].p,
                t |-> t, n |-> sent[t] + 1]
    /\ Register(t)
    /\ wait' = [wait EXCEPT ![t] = "state"]
    /\ UNCHANGED <<ops, task, todo, queue, reply, open, store, sockets>>

\* The connector publishes the request.  After Close this is an error that is
\* logged, and nobody replies.
Publish ==
    /\ conn # Nobody
    /\ queue' = IF open["internal"] THEN [s \in Sides |-> Append(queue[s], conn)]
                                    ELSE queue
    /\ conn' = Nobody
    /\ UNCHANGED <<calls, repChans, reply, open, store, sockets>>

Idle(t) == /\ wait' = [wait EXCEPT ![t] = "idle"]
           /\ task' = [task EXCEPT ![t] = Nobody]

\* The caller goes on after its current request: with the next, or it is done.
Proceed(t) ==
    /\ todo' = [todo EXCEPT ![t] = Tail(@)]
    /\ IF Len(todo[t]) > 1
       THEN wait' = [wait EXCEPT ![t] = "send"] /\ UNCHANGED <<task, store, keys>>
       ELSE Idle(t) /\ Finish(t)

\* It returns with an error, and the rest of its operation is not done.
GiveUp(t) ==
    /\ todo' = [todo EXCEPT ![t] = <<>>]
    /\ Idle(t)
    /\ UNCHANGED <<store, keys>>

\* sendPublish: the publisher replies at once, with an error after Close.
SendPublish(t) ==
    /\ wait[t] = "send" /\ Head(todo[t]) = "publish"
    /\ IF open["external"] THEN Proceed(t) ELSE GiveUp(t)
    /\ UNCHANGED <<ops, sent, threads, open, refs, stateConn, dataConn,
                   dataSubs>>

\* replyErr meets its caller: the listener of side s is free again, and the
\* caller turns to the other reply, goes on or gives up.
Answer(s, t) ==
    /\ reply[s] # Nobody /\ reply[s].t = t /\ reply[s].n = sent[t]
    /\ wait[t] = s /\ <<s, t, sent[t]>> \in repChans
    /\ reply' = [reply EXCEPT ![s] = Nobody]
    /\ CASE reply[s].err -> GiveUp(t)
         [] ~reply[s].err /\ s = "state" ->
               wait' = [wait EXCEPT ![t] = "data"] /\ UNCHANGED <<task, todo, store, keys>>
         [] ~reply[s].err /\ s = "data" -> Proceed(t)
    /\ UNCHANGED <<ops, sent, conn, repChans, queue, open, refs, stateConn, dataConn,
                   dataSubs>>
-----------------------------------------------------------------------------
(* The listeners *)

\* The listener of side s takes request m and comes to its reply.
Serve(s, m, err) ==
    /\ queue' = [queue EXCEPT ![s] = Tail(@)]
    /\ reply' = [reply EXCEPT ![s] = [t |-> m.t, n |-> m.n, err |-> err]]
    /\ UNCHANGED <<calls, conn, repChans, open, store>>

\* ZeroMQ's Disconnect from each peer in S, in the order of a map, up to the
\* first that is not connected: what remains of C.
Disconnected(C, S) == IF S \subseteq C THEN {C \ S} ELSE {C \ X : X \in SUBSET (S \cap C)}

\* setPeerStateAuthn
StateAuth(m) ==
    /\ m.op = "auth"
    /\ keys' = keys \cup {m.p}
    /\ Serve("state", m, FALSE)
    /\ UNCHANGED <<refs, stateConn, dataConn, dataSubs>>

\* connectState, subscribeStatus
StateConnect(m) ==
    /\ m.op = "connect"
    /\ stateConn' = stateConn \cup {m.p}
    /\ refs' = [refs EXCEPT ![m.g] = IF members[m.g] = {} THEN @ + 1 ELSE @]
    /\ Serve("state", m, FALSE)
    /\ UNCHANGED <<dataConn, dataSubs, keys>>

\* disconnectStatus
StateDisconnect(m) ==
    /\ m.op = "disconnect"
    /\ stateConn' = stateConn \ {m.p}
    /\ Serve("state", m, m.p \notin stateConn)
    /\ UNCHANGED <<refs, dataConn, dataSubs, keys>>

\* Mutant: what is not for the state socket is an error.
StateUnsubFails(m) ==
    /\ m.op = "unsub"
    /\ Serve("state", m, TRUE)
    /\ UNCHANGED sockets

\* A request to unsubscribe from the data of a peer is none for the state socket.
StateUnsub(m) ==
    /\ m.op = "unsub"
    /\ Serve("state", m, FALSE)
    /\ UNCHANGED sockets

\* Mutant: it is counted below zero.
UnsubscribeBelowZero(n) == n - 1

\* ZeroMQ's unsubscribe without a subscription does nothing.
Unsubscribe(n) == IF n > 0 THEN n - 1 ELSE 0

\* unsubscribeState
StateUnsubAll(m) ==
    /\ m.op = "unsubAll"
    /\ refs' = [refs EXCEPT ![m.g] = Unsubscribe(@)]
    /\ stateConn' \in Disconnected(stateConn, members[m.g])
    /\ Serve("state", m, ~(members[m.g] \subseteq stateConn))
    /\ UNCHANGED <<dataConn, dataSubs, keys>>

\* setPeerDataAuthn sets the server key of the socket, and nothing else.
DataAuth(m) ==
    /\ m.op = "auth"
    /\ Serve("data", m, FALSE)
    /\ UNCHANGED sockets

\* Mutant: the data topic is subscribed to as the state topic is, once.
DataConnectOnce(m) ==
    /\ m.op = "connect"
    /\ dataConn' = dataConn \cup ({m.p} \cap Publishers)
    /\ dataSubs' = IF members[m.g] = {}
                   THEN dataSubs \cup ({m.g} \X ({m.p} \cap Publishers)) ELSE dataSubs
    /\ Serve("data", m, FALSE)
    /\ UNCHANGED <<refs, stateConn, keys>>

\* connectData, subscribeData
DataConnect(m) ==
    /\ m.op = "connect"
    /\ dataConn' = dataConn \cup ({m.p} \cap Publishers)
    /\ dataSubs' = dataSubs \cup ({m.g} \X ({m.p} \cap Publishers))
    /\ Serve("data", m, FALSE)
    /\ UNCHANGED <<refs, stateConn, keys>>

\* A request to disconnect the state socket is none for the data socket.
DataDisconnect(m) ==
    /\ m.op = "disconnect"
    /\ Serve("data", m, FALSE)
    /\ UNCHANGED sockets

\* unsubscribeData
DataUnsub(m) ==
    /\ m.op = "unsub"
    /\ dataSubs' = dataSubs \ {<<m.g, m.p>>}
    /\ dataConn' = dataConn \ {m.p}
    /\ Serve("data", m, m.p \notin dataConn)
    /\ UNCHANGED <<refs, stateConn, keys>>

\* unsubscribeAllData: unsubscribes from each publisher, then disconnects it.
DataUnsubAll(m) ==
    LET pubs == members[m.g] \cap Publishers IN
    /\ m.op = "unsubAll"
    /\ dataConn' \in Disconnected(dataConn, pubs)
    /\ IF pubs \subseteq dataConn
       THEN dataSubs' = dataSubs \ ({m.g} \X pubs)
       ELSE \E p \in pubs \ dataConn :
                dataSubs' = dataSubs \ ({m.g} \X ((dataConn \ dataConn') \cup {p}))
    /\ Serve("data", m, ~(pubs \subseteq dataConn))
    /\ UNCHANGED <<refs, stateConn, keys>>

StateHandle == \E m \in {Head(queue["state"])} :
    StateAuth(m) \/ StateConnect(m) \/ StateDisconnect(m) \/ StateUnsub(m) \/ StateUnsubAll(m)

DataHandle == \E m \in {Head(queue["data"])} :
    DataAuth(m) \/ DataConnect(m) \/ DataDisconnect(m) \/ DataUnsub(m) \/ DataUnsubAll(m)

\* listenState and listenData
Listen(s) ==
    /\ reply[s] = Nobody /\ queue[s] # <<>>
    /\ \/ s = "state" /\ StateHandle
       \/ s = "data" /\ DataHandle
-----------------------------------------------------------------------------
(* Zmq.Close: the connector, then the publisher.  The request it publishes to
   the listeners has one frame and the wrong topic: they ignore it. *)

CloseConnector ==
    /\ MayClose /\ open["internal"] /\ conn = Nobody
    /\ open' = [open EXCEPT !["internal"] = FALSE]
    /\ UNCHANGED <<calls, threads, store, sockets>>

ClosePublisher ==
    /\ ~open["internal"] /\ open["external"]
    /\ open' = [open EXCEPT !["external"] = FALSE]
    /\ UNCHANGED <<calls, threads, store, sockets>>
-----------------------------------------------------------------------------
UserStep == \/ \E g \in Topics : Enter(g)
            \/ \E t \in Callers, g \in Topics : Leave(t, g) \/ Send(t, g)
            \/ CloseConnector

PeerStep == \E g \in Topics, p \in Peers :
               \/ Learn(g, p)
               \/ \E t \in Callers : Add(t, g, p) \/ Remove(t, g, p)

CallerStep(t) == Take(t) \/ SendPublish(t) \/ \E s \in Sides : Answer(s, t)

Next == \/ UserStep \/ PeerStep \/ Publish \/ ClosePublisher
        \/ \E t \in Callers : CallerStep(t)
        \/ \E s \in Sides : Listen(s)

Spec == Init /\ [][Next]_vars

\* Go runs every goroutine that can go on.  Operations are finitely many, so a
\* select does not pass over a caller for ever.
Fairness == /\ WF_vars(Publish) /\ WF_vars(ClosePublisher)
            /\ \A t \in Callers : WF_vars(CallerStep(t))
            /\ \A s \in Sides : WF_vars(Listen(s))

FairSpec == Spec /\ Fairness
-----------------------------------------------------------------------------
(* Properties *)

\* Everything under way, a request or a reply, is awaited: its caller has not
\* given up or gone on.  So no listener blocks on a reply nobody takes
\* (replyErr), and a call returns only when both sockets have been changed.
Awaits(t, n) == wait[t] \in Sides /\ n = sent[t]

Awaited ==
    /\ conn # Nobody => Awaits(conn.t, conn.n) /\ wait[conn.t] = "state"
    /\ \A s \in Sides :
        /\ \A i \in 1..Len(queue[s]) : Awaits(queue[s][i].t, queue[s][i].n)
        /\ reply[s] # Nobody => Awaits(reply[s].t, reply[s].n)
    /\ \A i \in 1..Len(queue["state"]) : wait[queue["state"][i].t] = "state"
    /\ reply["state"] # Nobody => wait[reply["state"].t] = "state"

\* When no operation is under way and the agent is not closed, the peers that
\* subscribed and have not left are authorised, and connected on both sides.
Quiet == \A t \in Callers : wait[t] = "idle"

MembersConnected ==
    Quiet /\ open["internal"] => \A x \in asked : LET p == x[2] IN
        /\ p \in stateConn /\ p \in keys
        /\ p \in Publishers => p \in dataConn /\ x \in dataSubs

\* Every operation returns, unless the agent is closed.
Returns == \A t \in Callers :
    wait[t] # "idle" ~> wait[t] = "idle" \/ ~open["internal"]
=============================================================================
