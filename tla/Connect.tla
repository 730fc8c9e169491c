------------------------------ MODULE Connect ------------------------------
(***************************************************************************)
(* How two agents of ZeroComm get a DIDComm connection from an invitation  *)
(* (prober/agent.go, with the stores and the services it uses), over the   *)
(* request-reply transport (reqrep/zmq).                                   *)
(*                                                                         *)
(* An agent has one goroutine per invitation it is accepting (call), the   *)
(* listen goroutine that processes requests and responses one at a time    *)
(* (listen), and the goroutines of SyncService (polls).  They share the    *)
(* stores of keys, DID documents, peers and channels, and take each access *)
(* to one of these as a step.                                              *)
(*                                                                         *)
(* client.Send returns when the server of the receiver has handed the      *)
(* message to its listen goroutine, so an agent whose listen goroutine     *)
(* sends a response waits for that of the receiver.                        *)
(*                                                                         *)
(* Requests are sealed with the invitation key, which does not change;     *)
(* responses with the key of the requester's DID document, which does:     *)
(* an agent keeps only its latest key pair per peer.                       *)
(*                                                                         *)
(* Accept and SyncAccept may be called at any time and concurrently, as    *)
(* the mock server does; only an agent that is not in Hasty leaves an      *)
(* exchange with a peer to its end before it begins another.               *)
(*                                                                         *)
(* Bounds: MaxExchs (calls of Accept and SyncAccept by all agents),        *)
(* MaxJoins (SyncService calls per pair).                                  *)
(***************************************************************************)
EXTENDS Integers

CONSTANTS Agents,
          Invited,    \* <<a, b>>: a may be given an invitation of b
          Joiners,    \* those whose user may name an acceptor to join with
          Hasty,      \* those that accept while they already do so
          Patient,    \* processConnRes outwaits a sender that is slow to return
          MaxExchs,
          MaxJoins

ASSUME ConnectAssumption ==
    /\ Invited \subseteq {p \in Agents \X Agents : p[1] # p[2]}
    /\ Joiners \subseteq Agents
    /\ Hasty \subseteq Agents
    /\ Patient \in BOOLEAN
    /\ MaxExchs \in Nat
    /\ MaxJoins \in Nat

VARIABLES
    call,      \* call[x]: the Accept or SyncAccept that began exchange x
    joins,     \* joins[a][b]: calls of SyncService by a for b
    key,       \* key[a][b]: the number of a's latest key pair for b, 0 if none
    doc,       \* doc[a][b]: the key in a's DID document for b
    peers,     \* peers[a][b]: what a knows of b
    chan,      \* chan[a][b]: syncCons, a channel as the exchange it was made for
    wire,      \* messages that are being sent
    listen,    \* what the listen goroutine is doing
    polls,     \* SyncService goroutines
    crashed

vars == <<call, joins, key, doc, peers, chan, wire, listen, polls, crashed>>

\* Exchanges are numbered in the order in which they begin; 0 is no exchange.
Exchs == 1..MaxExchs

\* A connection request or response: the exchange, the key in the sender's DID
\* document, for a response the key it is sealed with, and whether the sender
\* read its two keys from one pair.
Messages == [typ : {"req", "res"}, exch : Exchs, key : Nat, seal : Nat, whole : BOOLEAN]

\* A peer record; exch = 0 means there is none.  A record without services
\* (svc = 0) is what Accept stores before the response arrives.
Peers == [exch : Exchs \cup {0}, svc : Nat]
NoPeer == [exch |-> 0, svc |-> 0]

SetUps == {"generate", "public", "private", "doc", "send"}

Calls == [step : {"new"}]
         \cup [step : SetUps \cup {"sent", "add", "store", "wait", "done"},
               from : Agents, to : Agents, sync : BOOLEAN, pub : Nat, prv : Nat]
New == [step |-> "new"]

Listens == [step : {"idle"}]
           \cup [step : SetUps \cup {"got", "sent", "add", "ownPublic", "ownPrivate",
                                     "open", "signal", "blocked"},
                 msg : Messages, pub : Nat, prv : Nat]
Idle == [step |-> "idle"]

PerPair(S) == [Agents -> [Agents -> S]]

TypeOK ==
    /\ call \in [Exchs -> Calls]
    /\ joins \in PerPair(Nat)
    /\ key \in PerPair(Nat)
    /\ doc \in PerPair(Nat)
    /\ peers \in PerPair(Peers)
    /\ chan \in PerPair(Exchs \cup {0})
    /\ wire \subseteq Messages
    /\ listen \in [Agents -> Listens]
    /\ polls \subseteq Agents \X Agents
    /\ crashed \subseteq Agents

Init ==
    /\ call = [x \in Exchs |-> New]
    /\ joins = [a \in Agents |-> [b \in Agents |-> 0]]
    /\ key = [a \in Agents |-> [b \in Agents |-> 0]]
    /\ doc = [a \in Agents |-> [b \in Agents |-> 0]]
    /\ peers = [a \in Agents |-> [b \in Agents |-> NoPeer]]
    /\ chan = [a \in Agents |-> [b \in Agents |-> 0]]
    /\ wire = {}
    /\ listen = [a \in Agents |-> Idle]
    /\ polls = {}
    /\ crashed = {}
-----------------------------------------------------------------------------
(* The parties of an exchange and of its messages *)

Begun(x) == call[x].step # "new"
Requester(x) == call[x].from
Inviter(x) == call[x].to
Between(x, a, b) == Begun(x) /\ Requester(x) = a /\ Inviter(x) = b
Sender(m) == IF m.typ = "req" THEN Requester(m.exch) ELSE Inviter(m.exch)
\* A plausible slip: the response goes to the responder's own endpoint.
ReceiverOwn(m) == Inviter(m.exch)

Receiver(m) == IF m.typ = "req" THEN Inviter(m.exch) ELSE Requester(m.exch)

Alive(a) == a \notin crashed
-----------------------------------------------------------------------------
(* Plausible slips in the helpers below: a response that does not name its  *)
(* exchange, the services of a response not kept, those of a known          *)
(* requester not updated, of a new one not kept, the wrong key tried on a   *)
(* response, nobody signalled.                                              *)

ConnResNoThread(t, k) ==
    [typ |-> "res", exch |-> 0, key |-> k, seal |-> t.msg.key, whole |-> t.pub = t.prv]
ResPeerNoServices(m) == [exch |-> m.exch, svc |-> 0]
ReqPeerOnce(b, m) == IF peers[b][Sender(m)].svc # 0 THEN peers[b][Sender(m)]
                     ELSE [exch |-> m.exch, svc |-> m.key]
ReqPeerNoServices(b, m) == [exch |-> m.exch, svc |-> 0]
OpensNever(t) == t.msg.seal # t.pub
SignalNobody(a) ==
    /\ Alive(a) /\ listen[a].step = "signal"
    /\ listen' = [listen EXCEPT ![a] = Idle]
    /\ UNCHANGED <<call, joins, key, doc, peers, chan, wire, polls, crashed>>
-----------------------------------------------------------------------------
(* What the threads are made of *)

\* Prober.listen: which stream a message arrives on.
IsReq(m) == m.typ = "req"

\* setConnPrereqs for the peer b, by a thread t of a: a new key pair replaces
\* the old one, its halves are read one by one, which need not be those just
\* made, and so the DID document is replaced.
SetUp(a, b, t) ==
    /\ t.step \in SetUps \ {"send"}
    /\ key' = [key EXCEPT ![a][b] = IF t.step = "generate" THEN @ + 1 ELSE @]
    /\ doc' = [doc EXCEPT ![a][b] = IF t.step = "doc" THEN t.pub ELSE @]

\* The thread after it.
AfterSetUp(a, b, t) ==
    CASE t.step = "generate" -> [t EXCEPT !.step = "public"]
      [] t.step = "public"   -> [t EXCEPT !.step = "private", !.pub = key[a][b]]
      [] t.step = "private"  -> [t EXCEPT !.step = "doc", !.prv = key[a][b]]
      [] t.step = "doc"      -> [t EXCEPT !.step = "send"]

\* The request and the response, with the DID document of the moment.
ConnReq(x, k) ==
    [typ |-> "req", exch |-> x, key |-> k, seal |-> 0,
     whole |-> call[x].pub = call[x].prv]

ConnRes(t, k) ==
    [typ |-> "res", exch |-> t.msg.exch, key |-> k, seal |-> t.msg.key,
     whole |-> t.pub = t.prv]

\* peers.add at the end of processConnReq and of processConnRes.
ReqPeer(b, m) == [exch |-> m.exch, svc |-> m.key]

ResPeer(m) == [exch |-> m.exch, svc |-> m.key]

\* peerByExchId finds the sender of a response.
Known(m) == peers[Requester(m.exch)][Inviter(m.exch)].exch = m.exch

\* Unpack succeeds if both keys tried belong to the pair the response was
\* sealed for.
Opens(t) == t.msg.whole /\ t.msg.seal = t.pub /\ t.msg.seal = t.prv

\* client.Send up to the channel of a sender goroutine.
Put(m) == wire' = wire \cup {m}

\* Exchange x is not over, but for a SyncAccept that waits.
Active(x) == \/ call[x].step \notin {"wait", "done"}
             \/ \E m \in wire : m.exch = x
             \/ \E a \in Agents : /\ listen[a].step \notin {"idle", "blocked"}
                                  /\ listen[a].msg.exch = x
UnderWay(a, b) == \E x \in Exchs : Between(x, a, b) /\ Active(x)
-----------------------------------------------------------------------------
(* Accept and SyncAccept *)

Accept(a, b, sync) ==
    /\ Alive(a) /\ <<a, b>> \in Invited
    /\ a \notin Hasty => ~UnderWay(a, b)
    /\ \E x \in Exchs :
          /\ ~Begun(x) /\ \A y \in 1..(x - 1) : Begun(y)
          /\ call' = [call EXCEPT ![x] = [step |-> "generate", from |-> a, to |-> b,
                                          sync |-> sync, pub |-> 0, prv |-> 0]]
    /\ UNCHANGED <<joins, key, doc, peers, chan, wire, listen, polls, crashed>>

SetUpReq(x) ==
    /\ Begun(x) /\ Alive(Requester(x))
    /\ SetUp(Requester(x), Inviter(x), call[x])
    /\ call' = [call EXCEPT ![x] = AfterSetUp(Requester(x), Inviter(x), @)]
    /\ UNCHANGED <<joins, peers, chan, wire, listen, polls, crashed>>

SendReq(x) ==
    /\ call[x].step = "send" /\ Alive(Requester(x))
    /\ Put(ConnReq(x, doc[Requester(x)][Inviter(x)]))
    /\ call' = [call EXCEPT ![x].step = "sent"]
    /\ UNCHANGED <<joins, key, doc, peers, chan, listen, polls, crashed>>

\* Accept after client.Send: the record has no services yet, and replaces one
\* that may have had some.
AddInviter(x) ==
    /\ call[x].step = "add" /\ Alive(Requester(x))
    /\ peers' = [peers EXCEPT ![Requester(x)][Inviter(x)] = [exch |-> x, svc |-> 0]]
    /\ call' = [call EXCEPT ![x].step = IF call[x].sync THEN "store" ELSE "done"]
    /\ UNCHANGED <<joins, key, doc, chan, wire, listen, polls, crashed>>

\* SyncAccept after Accept: only now is there a channel to wait on, which
\* replaces an earlier one.
StoreChan(x) ==
    /\ call[x].step = "store" /\ Alive(Requester(x))
    /\ chan' = [chan EXCEPT ![Requester(x)][Inviter(x)] = x]
    /\ call' = [call EXCEPT ![x].step = "wait"]
    /\ UNCHANGED <<joins, key, doc, peers, wire, listen, polls, crashed>>
-----------------------------------------------------------------------------
(* The transport *)

\* The receiver's server hands a message to the listen goroutine and
\* acknowledges it, and client.Send returns at the sender.
HandOver(m) ==
    LET got == [listen EXCEPT ![Receiver(m)] = [step |-> "got", msg |-> m,
                                                pub |-> 0, prv |-> 0]]
    IN
    /\ m \in wire /\ Alive(Receiver(m)) /\ listen[Receiver(m)].step = "idle"
    /\ wire' = wire \ {m}
    /\ \/ /\ m.typ = "req"
          /\ call' = [call EXCEPT ![m.exch].step = "add"]
          /\ listen' = got
       \/ /\ m.typ = "res"
          /\ listen' = [got EXCEPT ![Sender(m)].step = "add"]
          /\ UNCHANGED call
    /\ UNCHANGED <<joins, key, doc, peers, chan, polls, crashed>>
-----------------------------------------------------------------------------
(* processConnReq *)

\* The request is unpacked with the invitation keys.
OpenReq(b) ==
    LET m == listen[b].msg IN
    /\ Alive(b) /\ listen[b].step = "got" /\ IsReq(m)
    /\ listen' = [listen EXCEPT ![b] = IF m.whole THEN [@ EXCEPT !.step = "generate"]
                                       ELSE Idle]
    /\ UNCHANGED <<call, joins, key, doc, peers, chan, wire, polls, crashed>>

SetUpRes(b) ==
    LET a == Sender(listen[b].msg) IN
    /\ Alive(b) /\ listen[b].step # "idle"
    /\ SetUp(b, a, listen[b])
    /\ listen' = [listen EXCEPT ![b] = AfterSetUp(b, a, @)]
    /\ UNCHANGED <<call, joins, peers, chan, wire, polls, crashed>>

SendRes(b) ==
    /\ Alive(b) /\ listen[b].step = "send"
    /\ Put(ConnRes(listen[b], doc[b][Sender(listen[b].msg)]))
    /\ listen' = [listen EXCEPT ![b].step = "sent"]
    /\ UNCHANGED <<call, joins, key, doc, peers, chan, polls, crashed>>

AddRequester(b) ==
    LET m == listen[b].msg IN
    /\ Alive(b) /\ listen[b].step = "add"
    /\ peers' = [peers EXCEPT ![b][Sender(m)] = ReqPeer(b, m)]
    /\ listen' = [listen EXCEPT ![b] = Idle]
    /\ UNCHANGED <<call, joins, key, doc, chan, wire, polls, crashed>>
-----------------------------------------------------------------------------
(* processConnRes *)

\* The exchange is looked up, or stays unknown for all retries.  Accept may be
\* about to add the record: a patient listener retries until then.
FindPeer(a) ==
    LET m == listen[a].msg IN
    /\ Alive(a) /\ listen[a].step = "got" /\ ~IsReq(m)
    /\ \/ /\ Known(m)
          /\ listen' = [listen EXCEPT ![a].step = "ownPublic"]
       \/ /\ ~Known(m)
          /\ Patient => call[m.exch].step # "add"
          /\ listen' = [listen EXCEPT ![a] = Idle]
    /\ UNCHANGED <<call, joins, key, doc, peers, chan, wire, polls, crashed>>

ReadKeys(a) ==
    LET b == Sender(listen[a].msg) IN
    /\ Alive(a)
    /\ \/ /\ listen[a].step = "ownPublic"
          /\ listen' = [listen EXCEPT ![a].step = "ownPrivate", ![a].pub = key[a][b]]
       \/ /\ listen[a].step = "ownPrivate"
          /\ listen' = [listen EXCEPT ![a].step = "open", ![a].prv = key[a][b]]
    /\ UNCHANGED <<call, joins, key, doc, peers, chan, wire, polls, crashed>>

\* The services of a response that opens are stored, over whatever record is
\* there by now.
OpenRes(a) ==
    LET m == listen[a].msg IN
    /\ Alive(a) /\ listen[a].step = "open"
    /\ \/ /\ Opens(listen[a])
          /\ peers' = [peers EXCEPT ![a][Sender(m)] = ResPeer(m)]
          /\ listen' = [listen EXCEPT ![a].step = "signal"]
       \/ /\ ~Opens(listen[a])
          /\ listen' = [listen EXCEPT ![a] = Idle]
          /\ UNCHANGED peers
    /\ UNCHANGED <<call, joins, key, doc, chan, wire, polls, crashed>>

\* The end of processConnRes: a channel in syncCons is sent on, whether or not
\* the SyncAccept that stored it is still waiting.
Signal(a) ==
    LET x == chan[a][Sender(listen[a].msg)] IN
    /\ Alive(a) /\ listen[a].step = "signal"
    /\ \/ /\ x = 0
          /\ listen' = [listen EXCEPT ![a] = Idle]
          /\ UNCHANGED call
       \/ /\ x # 0 /\ call[x].step = "wait"
          /\ listen' = [listen EXCEPT ![a] = Idle]
          /\ call' = [call EXCEPT ![x].step = "done"]
       \/ /\ x # 0 /\ call[x].step # "wait"
          /\ listen' = [listen EXCEPT ![a].step = "blocked"]
          /\ UNCHANGED call
    /\ UNCHANGED <<joins, key, doc, peers, chan, wire, polls, crashed>>
-----------------------------------------------------------------------------
(* SyncService, called by Join (reqState) for the acceptor.  Its goroutine    *)
(* keeps on asking after the caller's timeout.                                *)

SyncService(a, b) ==
    /\ a \in Joiners /\ a # b /\ Alive(a) /\ joins[a][b] < MaxJoins
    /\ joins' = [joins EXCEPT ![a][b] = @ + 1]
    /\ polls' = polls \cup {<<a, b>>}
    /\ UNCHANGED <<call, key, doc, peers, chan, wire, listen, crashed>>

\* Service: an error if there is no record, a nil dereference if the record
\* has no services.
Poll(a, b) ==
    /\ Alive(a) /\ <<a, b>> \in polls
    /\ peers[a][b] # NoPeer
    /\ polls' = polls \ {<<a, b>>}
    /\ crashed' = IF peers[a][b].svc = 0 THEN crashed \cup {a} ELSE crashed
    /\ UNCHANGED <<call, joins, key, doc, peers, chan, wire, listen>>
-----------------------------------------------------------------------------
UserStep(a, b) == (\E sync \in BOOLEAN : Accept(a, b, sync)) \/ SyncService(a, b)

CallStep(x) == SetUpReq(x) \/ SendReq(x) \/ AddInviter(x) \/ StoreChan(x)

Deliver(x) == \E m \in {n \in wire : n.exch = x} : HandOver(m)

ListenStep(a) == \/ OpenReq(a) \/ SetUpRes(a) \/ SendRes(a) \/ AddRequester(a)
                 \/ FindPeer(a) \/ ReadKeys(a) \/ OpenRes(a) \/ Signal(a)

Next == \/ \E a, b \in Agents : UserStep(a, b) \/ Poll(a, b)
        \/ \E x \in Exchs : CallStep(x) \/ Deliver(x)
        \/ \E a \in Agents : ListenStep(a)

Spec == Init /\ [][Next]_vars

\* Goroutines are scheduled, the transport delivers, the servers serve; no
\* user has to do anything.  Messages are finitely many, so a receiver that is
\* busy now and then does not starve a sender under weak fairness.
Fairness == /\ \A x \in Exchs : WF_vars(CallStep(x)) /\ WF_vars(Deliver(x))
            /\ \A a, b \in Agents : WF_vars(Poll(a, b))
            /\ \A a \in Agents : WF_vars(ListenStep(a))

FairSpec == Spec /\ Fairness
-----------------------------------------------------------------------------
(* Properties *)

\* The listen goroutine of b waits for that of a to take its response.
WaitsFor(b, a) ==
    /\ listen[b].step = "sent"
    /\ \E m \in wire : m.typ = "res" /\ Sender(m) = b /\ Receiver(m) = a

\* The listen goroutines never wait for each other in a circle, in which case
\* none of them would process anything any more.  Nothing in the code prevents
\* it: it holds as long as invitations are not accepted in a circle.
NoCircularWait ==
    \A S \in SUBSET Agents :
        S # {} => \E b \in S : \A a \in S : ~WaitsFor(b, a)

\* An accepted invitation ends in a connection with services at both ends,
\* unless a listen goroutine is blocked on a channel nobody receives from.
Connected ==
    \A x \in Exchs : call[x].step = "sent" ~>
        \/ \E a, b \in Agents :
              Between(x, a, b) /\ peers[a][b].svc # 0 /\ peers[b][a].svc # 0
        \/ \E a \in Agents : listen[a].step = "blocked"

\* A SyncAccept that has begun to wait before its response opens is woken by it.
\* If the response is faster, there is no channel yet and nobody wakes it.
Woken ==
    \A x \in Exchs :
        call[x].step = "wait" /\ peers[Requester(x)][Inviter(x)] = [exch |-> x, svc |-> 0]
            ~> call[x].step = "done" \/ \E a \in Agents : listen[a].step = "blocked"

\* Whoever knows an inviter's services is known by it, or about to be: the
\* inviter records the requester after its response was handed over, whatever
\* calls overlap.  Not so where it accepts invitations of the requester itself,
\* which makes it forget the services for a while.
HalfOpen ==
    \A a, b \in Agents :
        /\ peers[a][b].svc # 0
        /\ \A x \in Exchs : ~Between(x, b, a)
        => \/ peers[b][a].svc # 0
           \/ listen[b].step \in {"sent", "add"} /\ Sender(listen[b].msg) = a

\* SyncAccept returns only when the services of the peer are known: its caller
\* goes on with Service, which would not survive a record without them.  Only
\* for agents that do one exchange with a peer at a time: the record of a second
\* one, without services, may replace the one just completed.
SyncMeansConnected ==
    [][\A x \in Exchs :
          call[x].step = "wait" /\ call'[x].step = "done" /\ Requester(x) \notin Hasty =>
              peers'[Requester(x)][Inviter(x)].svc # 0]_vars

\* When nothing is under way between a and b, and only a, which does one exchange
\* at a time, has accepted invitations of the other, then what one seals with the
\* key it knows the other can open (SendMessage, ReadMessage).
Readable ==
    \A a, b \in Agents :
        /\ a \notin Hasty
        /\ \A x \in Exchs : ~Between(x, b, a)
        /\ ~UnderWay(a, b)
        => /\ peers[a][b].svc # 0 => peers[a][b].svc = key[b][a]
           /\ peers[b][a].svc # 0 => peers[b][a].svc = key[a][b]

\* The comment on SyncService: it blocks until the service information or the
\* timeout is received.  So asking for it never ends the process.
SyncServiceBlocks == crashed = {}
=============================================================================
