# ZeroComm in TLA+

ZeroComm (Go) lets agents exchange messages without a broker: two agents get a
DIDComm connection from an invitation, and agents form groups whose messages
travel over ZeroMQ PUB/SUB sockets. There is no server and no coordinator: every
member keeps its own list of the group, and the protocol has to keep the lists
the same while members join and leave. These modules model that protocol, the
connection protocol and the request-reply transport under it, the way of the data
messages, the timestamps of ordered groups, and the comparison of checksums a
joiner relies on.

## The system

| Part | Code | State it keeps | Operations |
|---|---|---|---|
| Group agent | `pubsub/agent.go`, `pubsub/processor.go` | `invs` (own invitation per topic) | `Create`, `Join`, `Leave`, `Send`; handlers `joinReqs`, `subscriptions`, `state`, `data` |
| Stores | `pubsub/stores` | `groups` (params, members, checksum), `subs` (keys of subscribers) | `SetParams`, `AddMembrs`, `DeleteMembr`, `DeleteTopic`, `Add`, `Delete` |
| Syncer | `pubsub/syncer.go` | `tsMap` (a Lamport timestamp per topic) | `init`, `message`, `parse` |
| Validator | `pubsub/validator` | none | `Calculate`, `ValidJoin`, `Verify` |
| Group transport | `pubsub/transport` | state and data SUB sockets, PUB socket, CURVE keys, reply channels, hello acks | connect, subscribe, authenticate, publish, close |
| Prober | `prober` | peers, DIDs, `syncCons` | `Invite`, `Accept`, `SyncAccept`, `processConnReq`, `processConnRes`, `Service`, `SyncService`, `SendMessage`, `ReadMessage` |
| Request-reply | `reqrep/zmq` | a sender goroutine per endpoint, handlers per message type | `Send`, `Close`, `Start`, `AddHandler` |
| Mock server | `reqrep/mock` | a goroutine, a count and a timer per callback | `initCallback`; otherwise passes HTTP requests on |
| DIDComm builders, discovery, crypto | `didcomm`, `crypto` | key pairs per peer | build and parse messages, `GenerateKeys`, `Pack`, `Unpack` |
| The rest | `cli`, `reqrep/http`, `log`, `domain`, `bootstrap.go`, `scripts` | none that matters here | user input, wiring |

How they interact. A user's `Join` asks an acceptor for the group
(request-reply, answered synchronously by `joinReqs`), accepts the invitations of
the listed members (prober), subscribes to each of them (request-reply, answered
by `subscriptions` with a checksum), connects its SUB sockets to theirs through
messages to the listener goroutines, compares the checksums, stores the list,
publishes hellos until every member has acknowledged one, and publishes its
status, which members handle in `state`. `Leave` disconnects, publishes a status
and deletes the stores.

What is hard. Every handler runs in a goroutine of its own, so statuses of one
sender are handled in any order. Requests of a join run in parallel with other
joins. Answers are sent before the work they announce is done. A synchronous
handler that returns an error leaves the REP server waiting. A caller that
returns after the first of two replies leaves a listener blocked. Nothing is
undone when an operation fails half way, and some state (hello acks, timestamps,
channels of `SyncAccept`) is never removed. Nothing is persisted, so a crash is
the end of an agent. `PROJECT.json` lists each hazard at its line, with the
properties that cover it.

What makes each part correct:

- membership: whom a joiner lists comes to list it; when operations do not overlap
  all lists are, at rest, equal to the set of members, leavers are forgotten,
  connections and subscriptions match the lists and no listener or process is lost;
  a consistent join adopts the list the members answered with; a call of `Join`
  returns;
- syncer: timestamps respect causality; whoever expects a stamp gets one; ties can
  be broken by sender id;
- request-reply: a message is handled at most once and where it was sent, a call
  returns its own answer, and a server that never answers does not hold up calls
  to servers whose handlers end;
- data: a message reaches who was a subscriber when it was sent; callbacks count
  right;
- validator: agreement is recognised, whatever the order of the map;
- connections: an exchange ends in records with services at both ends, and, made
  in one direction and one at a time, with each other's latest key; a caller that
  waits is woken when the services are there; listen goroutines do not stop each
  other. Calls of `SyncAccept` may overlap in any way (the mock server makes them
  from its HTTP handlers), and then less of this is true: see `Connect` below.

## Modules

| Module | Models | Extends |
|---|---|---|
| `Validator` | `Verify` and `ValidJoin` as operators on maps from member to checksum | |
| `VerifyLoop` | the loop of `Verify`, with the map walked in any order | `Validator` |
| `VerifyLoop_proofs` | theorems of `VerifyLoop`, and what `Verify` computes | `VerifyLoop` |
| `Membership` | create, join and leave: agents, stores, sockets, handlers, statuses | `Validator` |
| `Group` | what membership promises: lists, announcements, no messages | |
| `GroupRefinement` | how the state of `Membership` is a state of `Group` | `Membership`, instance of `Group` |
| `Membership_proofs` | theorems of `Membership` for any use of it; those that need that nobody leaves, among them that it implements `Group` | `GroupRefinement` |
| `Serial_proofs` | theorems of `Membership`, with leaves, when operations do not overlap, among them that it implements `Group` | `Membership_proofs` |
| `Transport` | the threads under one agent: callers, connector, listeners, publisher | |
| `Transport_proofs` | theorems of `Transport` | `Transport` |
| `Syncer` | timestamps of group messages | |
| `Syncer_proofs` | theorems of `Syncer` | `Syncer` |
| `Rpc` | what request-reply promises to the callers of `Send` | |
| `ReqRep` | clients, senders, servers, handlers, and the end of a process | instance of `Rpc` |
| `ReqRep_proofs` | theorems of `ReqRep`, among them that it implements `Rpc` | `ReqRep` |
| `Delivery` | `Send` through the map of subscribers, the data handler, callbacks | |
| `Delivery_proofs` | theorems of `Delivery` | `Delivery` |
| `Connect` | the DID exchange over request-reply | |
| `Connect_proofs` | theorems of `Connect` | `Connect` |
| `MC...` | the instances TLC checks | the module of that name |

### Membership

An action is what one thread does between two points where others can be seen to
have acted. The user's call of `Join` is the sequence `Join` (invitation),
`JoinReqs`, `ReqParams`, `ReqMembers` (the handler at the acceptor, which reads its
store under one lock after another, and its answer), `SetParams`,
`Subscriptions` and `HandlerAnswer` once per member (the handler at the member up
to its answer), `ConnectMember` once per member, `Admit` (checksums, `AddMembrs`),
`HelloAck` once per member, `Notify`. A server takes a request when it has answered
the one before (`Ready`). What a handler does after its answer are actions of
their own (`HandlerState`, `HandlerData`), and so is each received status
(`AddMember`; `RemoveState`, `RemoveMember`). `Leave` is `LeaveState`,
`LeaveData`, `LeaveNotify`, `LeaveDelete`; when the state listener fails, `Leave`
returns, and the data listener, which does its part all the same, is lost with it
(`LeaveState`). Removing the last member of a list is a panic, as its checksum
cannot be calculated (`RemoveMember`). `Establish` is external: ZeroMQ
brings a connection up some time after `Connect` was called on a socket, and
what is published before that is lost.

`view[a]` is the member list of agent `a`, as the number of the invitation in
each record; `group[a]` tells a group that does not exist from one without
params (created by `AddMembrs` after `DeleteTopic`) and a full one. `refs[a]`
counts the subscriptions to the state topic, as ZeroMQ does. `wedged`, `blocked`
and `crashed` are the three ways in which the code loses a server, the data
listener or the process.

Abstractions: one topic in multiple-queue mode; a member record is the label
and its invitation (activity, endpoint and publisher flag do not vary between
copies); a checksum is the list it is computed from; DIDComm connections come up
when asked for (that is `Connect`'s subject); the steps of the state and the
data listener for one message are taken in this order, since their caller waits
for both. A hello and its ack are one step, repeated hellos have no further
effect.

CURVE keys. `Authenticate` stores the peer's keys (`keys`) and sets the server
key of the whole state socket (`srvKey`), which is used by whatever connect
comes next. `crossed` holds the connections made with another peer's key: they
never come up. ZeroMQ retries a handshake, so one that the peer refuses because
it has not stored the client key yet succeeds later: `Establish` waits for it.
`JoinReturns` excuses the joiner to whom such a connection leads, and no other.

### Group

The abstract specification of membership has, per agent, the list it keeps
(`known`), the members that have not announced themselves yet (`fresh`) and the
announcements under way (`news`). Agents found a group, enter it with the list of a
member, announce that to everybody listed who does not know, leave with one
announcement, and heed an announcement once. There are no requests, checksums,
sockets, keys or hellos. `GroupRefinement` maps `Membership` to it: `known` is the
list in the store, `fresh` are the joiners that wait for their hellos, `news` the
statuses. `Promised` says that every behaviour of `Membership` is one of `Group`: no
list changes otherwise than by a published status, no status is made up, repeated
or lost by a member that should hear it. It does not promise that two agents that
join at once learn of each other: `Enter` takes any list of members. With
leaves that overlap other operations it does not hold (a status reaches an agent that
has left), so `Promised` is checked, and proved, with joins that overlap and with
serial leaves.

### Transport

`Membership` lets operations on one member overlap in every way and has no
threads. `Transport` has the threads of one agent and lets operations overlap
when they concern different members, or groups with members in common. A caller
(`subscriptions`, `state`, the user's `Leave` or `Send`) makes a list of
requests (`todo`). It hands one to the connector (`Take`, an unbuffered channel),
which registers both reply channels and publishes to the listeners (`Publish`).
Each listener handles its queue in order (`Listen`) and blocks on its reply until
the caller takes it (`Answer`): that of the state listener first, then that of
the data listener, unless the first was an error (`GiveUp`). `SendPublish` is
the publisher, which answers at once. `CloseConnector` and `ClosePublisher` are
`Zmq.Close`; the listeners go on, since the message meant to end them is none
they know. `members` is read by a listener when it comes to a request, not by
the caller, as in the code. What the sockets are connected to is `stateConn`,
`dataConn`, `dataSubs` and `refs`. Left out are hellos, the handling of group
messages, and which server key a connection is made with (see `Membership`).

### Syncer

Every agent has a clock of its own, in seconds, that `Tick` advances, so clocks
differ by any amount. `Send` takes a stamp (`NextStamp`), `Parse` handles any
message sent in the agent's group, in any order and however late.
`CausalOrder` is stated with a history variable, `seen`: the timestamps of what an
agent has sent or parsed since its clock was last started, and of what they depend
on. `ordered` is the flag in the params that each agent has of its group: `Create`
does not ask whether the agent is in a group of the topic, so a member may call it
again, which changes its params, and if they are ordered starts its clock again, for
itself only.

`ReadAsSent` is about what an agent keeps from one stay to the next: the clock of
an ordered group outlives `Leave`.

### ReqRep

An agent has a client and a server. `Send` looks a sender up (`Sendr`) or starts one,
which stores itself a step later (`InitSendr`), so that first sends made at once
start several. A sender takes one message at a time (`HandOver`), and goes back to
its channel when it has the answer (`Receive`). The loop of a server is `Accept`,
`Take` (the one goroutine of the async handlers takes the message) and `Answer`;
`Finish` ends that goroutine's work, if it ends: the listen goroutine of the prober
does a blocking `Send` of its own and sends on the channel of a `SyncAccept`
(`prober/agent.go:232, 285`), so no fairness is assumed of `Finish`. A synchronous
handler that ends without an answer, as `joinReqs` may, leaves the loop waiting for
ever. `Send` may also be called after `Close` has begun. `Container.Stop` is
`Close`, then per sender `Visit` and `Terminate` (a blocking send each), then
`Exit`, which ends callers, senders and server of that agent; requests on their way
to it are lost. `Rpc` keeps of this only which endpoint a call went to, how often it
was handled and what it returned.

### Delivery

`Send` of the agent goes through the very map that `Add` and `Delete` change, so it
may or may not meet a subscriber that comes meanwhile and does not meet one that is
gone (`Publish`, `Return`). A copy is handled by a goroutine at the member: `Check`
and `Fetch` are the two reads of `ackChans`, `Ack` the send on the channel. A
callback of the mock server is `Ask`, `Register`, `Timeout`, `Unregister`. The map
of subscribers is read, and `ackChans` read and changed, without a lock; the Go
runtime may then end the process (`RaceInSend`, `RaceInData`).

### Connect

Every access to a shared store is a step, since calls of `Accept` and `SyncAccept`
may overlap in any way: the mock server makes them from HTTP handlers, whatever
records exist (`reqrep/mock/mocker.go:86`). An exchange is `Accept` (it begins),
`SetUpReq` (four steps: a key pair is generated, its halves are read one by one, the
DID document is stored), `SendReq`, `HandOver` (the server of the receiver passes
the message to its listen goroutine and acknowledges), `AddInviter` and, for
`SyncAccept`, `StoreChan`. `processConnReq` is `OpenReq`, `SetUpRes`, `SendRes`,
`HandOver`, `AddRequester`; `processConnRes` is `FindPeer`, `ReadKeys` (twice),
`OpenRes`, `Signal`. `SyncService` starts a goroutine that `Poll`s, and goes on
after the timeout. Key pairs are numbered per peer; a response opens only if both
keys tried are of the pair it was sealed for (`whole`, `seal`). `wire` holds the
messages that `Send` is busy with, in no order, since two first sends may use two
sockets (`ReqRep`).

The agents outside `Hasty` leave an exchange with a peer to its end before they begin
another. Some of what one would like to say is true of them only, and false
of a hasty one: its second `Accept` may fall between the look-up and the store of
`processConnRes`, is overwritten by the older exchange, and has its response dropped.
`SyncMeansConnected` and `Readable` say so in their hypotheses; `HalfOpen` holds
whatever overlaps.
`Patient` says that ten retries of 50 ms are enough for `Accept` to store its
record; the run that checks liveness assumes it, the others do not.

## Runs

| Run | Checks | Shows |
|---|---|---|
| `joins` | `KnownByList`, `HelloMeansConnected`, `JoinReturns`, `Promised` | joins that overlap, through the founder or through each other: who knows whom, and that the joins return |
| `serial` | `ViewsConnected`, `JoinedMeansMember`, `Agreement`, `DataReachesMembers`, `NoResidue`, `NoneBroken`, `LeaverForgotten`, `Promised` | joins and leaves one after the other, with everything settled in between |
| `churn` | `TypeOK`, `AdmittedConsistently`, `FailedJoinUnlisted` | what remains true when joins and leaves overlap in any way, and agents come back |
| `transport` | `TypeOK`, `Awaited`, `MembersConnected`, `Returns` | requests of two callers through connector, listeners and publisher, and `Close` at any time |
| `verify` | `TypeOK`, `OkMeansEqual`, `NamesTheFewest` | the loop of `Verify`, all maps of up to five members to three checksums |
| `syncer` | `TypeOK`, `CausalOrder`, `SameSecondOnly`, `ReadAsSent` | stamps under skewed clocks and any order of delivery, in ordered and plain groups of one name, with members that call `Create` again |
| `ties` | `TiesBroken`, violated | two senders make the same stamp with the same id |
| `connect` | `TypeOK`, `NoCircularWait`, `Connected`, `Woken` | two exchanges among three agents, invitations accepted in order |
| `mutual` | `HalfOpen`, `Readable`, `SyncMeansConnected` | two exchanges of two agents, begun by either or both, one of which does not wait for the one before; both ask for services meanwhile |
| `reqrep` | `TypeOK`, `CallsKept`, `Contained`, `CloseReturns` | two calls of `Send` among three agents, two of which may be told to stop |
| `delivery` | `TypeOK`, `CountRight`, `Delivered` | two messages to two members, one of which joins or leaves, and two callbacks |
| `service` | `SyncServiceBlocks`, violated | asking for a service before the response dies of a nil dereference |

The violated ones state what a comment of the code says, and are findings in
`PROJECT.json`. More disagreements between a comment and the code are in the
models, without a run of their own:

- `agent.go:309` ("wait till zmq pub-sub socket connections are established"):
  hello acks are stored for ever (`transport/peers.go:54`), so an agent that joins
  again does not wait, and may publish its status to sockets that are not
  connected. `HelloMeansConnected` fails with `MaxInvs = 2` and leaves; so does
  `Agreement` of `serial`, without any overlap.
- The same comment, with two joins at once: a member may connect to one joiner with
  the server key of the other (`auth.go:84` sets it for the whole socket); that
  `Join` never ends. `JoinReturns` fails without its last disjunct.
- `transport/zmq.go:485-486` (disconnecting is right "since the function is called
  only when removing an inactive member"): the sockets are shared by all groups, so
  a peer that leaves one of two common groups is disconnected for both
  (`processor.go:249`). `MembersConnected` fails with one peer in two groups.
- `processor.go:24-25`: `ackChans` is said to be read by one goroutine, but every data
  message has a goroutine of its own that reads it (`Delivery`).
- `syncer.go:79-80` (stamped only if syncing is enabled for the topic): an agent
  that has left an ordered group stamps the messages of a plain one of the same
  topic. This is the exception in `ReadAsSent`.
- `stores/group.go:86-87`: after a `Join` that failed the check, `Joined` is true
  (`agent.go:245`).

Bounds. Three agents (founder, two joiners, one of them not a publisher) are the
fewest in which a member learns of a joiner from a third party and checksums can
disagree. Up to six calls let every agent create, join and leave; an agent makes
one invitation (`MaxInvs = 1`) and does not come back after it left, except in
`churn`. With overlapping leaves most properties of `serial` and `joins` are
false of the code (a status handled after the receiver has left, a leave while a
connection is missing); `churn` therefore states only what survives. `Serial`
restricts the start of operations, not their steps. In `syncer` two seconds,
three messages and three stays give ties, adoption from a fast clock and a
change of group, or a second `Create`; agents and groups are symmetric. In `connect`
and `mutual` two exchanges (`MaxExchs`) meet in every way two can: of one requester,
with one inviter or two, of two with one inviter, or in opposite directions; each has
some fifteen steps that interleave freely, and a third makes the runs too large. What is proved of `Connect`
needs no such bound.
`transport` has two callers, two groups and three peers, of which two publish and
none is in two groups, and three operations, enough to add two members and
remove one or leave. In `reqrep` two calls race for a first sender, follow each
other, or go to each other's server, with the endpoint gone, waiting or well; a third
would only repeat what one of them does, and `CallsKeptHolds` needs no bound. In `delivery` two
messages, two callbacks that wait for up to two, and one join or leave let a
callback be replaced, time out and be served, in each order, while a
subscriber comes or goes during `Send`.
Deadlock is not checked: an agent at rest is not a fault, and what may get stuck
is stated by the properties.

Fairness. `FairSpec` of `Membership` is weak fairness of the steps of each
agent's call, handlers and statuses and of each connection; of `Connect`, of
each call, each listen goroutine, each hand-over and each poll; of `Transport`, of
the connector, the publisher, each caller and each listener; of `ReqRep`, of each
sender, hand-over, server loop and closing agent, but not of the asynchronous
handlers: `Contained` takes their end as a hypothesis, per server; of `Delivery`, of `Send`,
each goroutine of a data message, each change of the map of subscribers and each
callback, but not of timeouts. Go schedules
runnable goroutines and ZeroMQ retries connections, and nothing more is assumed;
users need not do anything. Weak fairness suffices for hand-overs and for the
selects of the connector since messages are finitely many. `Syncer` and `VerifyLoop` have no liveness property.

## Proofs

TLAPS checks these for every value of the constants, so for any number of
agents, groups, calls and messages. The assumptions on the constants are the
named ones of each module (`SyncerAssumption`, `MembershipAssumption`,
`VerifyLoopAssumption`, `ConnectAssumption`, `ReqRepAssumption`,
`TransportAssumption`, `DeliveryAssumption`), which TLC evaluates in the runs.

| Theorem | Says | Beyond the module's assumption |
|---|---|---|
| `VerifyLoop_proofs!VerifyIsUnanimous` | `Verify` returns true exactly when all checksums are equal | finitely many members |
| `VerifyLoop_proofs!TypeCorrect` | types, among them that no more deviate than there are members | |
| `VerifyLoop_proofs!OkMeansEqualHolds` | the loop says ok exactly when all checksums are equal, in any order of the map | |
| `VerifyLoop_proofs!NamesTheFewestHolds` | the members it names are a smallest class of agreeing members | |
| `Membership_proofs!ValidJoinMeansEqual` | after `ValidJoin`, every member but the acceptor returned the acceptor's set | finitely many members |
| `Membership_proofs!TypeCorrect` | types | |
| `Membership_proofs!AdmittedConsistentlyHolds` | a joiner is admitted with the list every member but the acceptor returned | |
| `Membership_proofs!FailedJoinUnlistedHolds` | nobody lists or hears of an agent whose only `Join` failed | |
| `Membership_proofs!KnownByListHolds` | one agent lists another only if one was given the other's name when it joined; then both do, up to statuses under way | nobody leaves |
| `Membership_proofs!HelloMeansConnectedHolds` | every member listed hears the joiner when it stops waiting | nobody leaves |
| `Membership_proofs!PromisedHolds` | `Membership` implements `Group` | nobody leaves |
| `Serial_proofs!ViewsConnectedHolds` | an idle agent is connected to all it lists | `OneAtATime` |
| `Serial_proofs!JoinedMeansMemberHolds` | `Joined` is true of members only | `OneAtATime` |
| `Serial_proofs!AgreementHolds` | at rest, the members have the same list, themselves | `OneAtATime` |
| `Serial_proofs!DataReachesMembersHolds` | at rest, publishers hold the keys of the members, which listen | `OneAtATime` |
| `Serial_proofs!NoResidueHolds` | at rest, an agent in no group has no connection or subscriber, and is nobody's | `OneAtATime` |
| `Serial_proofs!NoneBrokenHolds` | joins and leaves never make an agent lose its data listener or die | `OneAtATime` |
| `Serial_proofs!PromisedWithLeaves` | `Membership` implements `Group`, leaves included | `OneAtATime` |
| `Syncer_proofs!TypeCorrect` | types | |
| `Syncer_proofs!CausalOrderHolds` | stamps respect causality from the start of a clock on | |
| `Syncer_proofs!TiesOnlyInSameSecond` | causally related stamps tie only within a second | |
| `Syncer_proofs!ReadAsSentHolds` | of agents with the same params, who expects a stamp gets one, and who does not gets none, unless the group is plain and one of them kept an older clock | |
| `ReqRep_proofs!TypeCorrect` | types | |
| `ReqRep_proofs!CallsKeptHolds` | `ReqRep` implements `Rpc` | |
| `Transport_proofs!TypeCorrect` | types, among them that only peers are connected and no subscription is counted below zero | |
| `Transport_proofs!AwaitedHolds` | every request and reply under way is awaited by its caller | no peer is in two groups (`OneGroupEach`) |
| `Transport_proofs!MembersConnectedHolds` | between operations every peer that subscribed and has not left is authorised and connected on both sockets | no peer is in two groups |
| `Delivery_proofs!TypeCorrect` | types, among them that a callback counts no more than it waits for | |
| `Delivery_proofs!CountRightHolds` | no message is counted twice or before it came, and each tester is told right | |
| `Connect_proofs!TypeCorrect` | types, among them that a listen goroutine that goes on has a message | |
| `Connect_proofs!NoCircularWaitHolds` | listen goroutines do not wait for each other in a circle | invitations are accepted in no circle (`Invited` is well founded) |
| `Connect_proofs!SyncMeansConnectedHolds` | `SyncAccept` returns from its wait only when the services of the peer are known | of callers that leave an exchange with a peer to its end (in the property) |
| `Connect_proofs!HalfOpenHolds` | who knows an inviter's services is known by it, or about to be, whatever overlaps | |

**Validator.** The code compares the sizes of the classes of equal checksums
with the number of members. A class that is no smaller than a finite set that
contains it is the set, so all checksums are that of any member. The loop keeps
that `deviated` is the size of a class it has seen and that no class it has seen
is smaller, which at its end is a statement about all classes; that needs no
induction over the map, only the set of the members still to come.

**Membership, any use.** `AdmittedConsistently` is not inductive, since it does
not say why the answers are equal. `Checked` does: a waiting joiner passed
`Consistent`. It is kept because the arguments of `Consistent` (acceptor, list,
answers) are written only by steps of the joiner's own call before it waits,
although answers of other joins arrive meanwhile; `ValidJoinMeansEqual` turns it
into the property. `FailedJoinUnlisted` needs a notion of its own, `Outside`: an agent
that has made no invitation, or one whose only `Join` has not passed the check. Only a
step of its own call leads out of this state, and while it lasts no list, stored or
returned by an acceptor, and no status can name the agent (`UInv`).

**Membership, nobody leaves.** `KnownByList` allows a waiting joiner not to be
known yet; when it publishes its status it must be sent to everybody it lists
who does not know it. `MutualOrListed` says who they are: members of the
acceptor's list, since all others on its list told it of themselves. `AckedHear`
says that they hear it: who acked a hello is connected and subscribed, which is
true only as long as nobody leaves. That the
status finds a group to be added to needs `StatusSent`, `ListedInGroup` and
`ParamsSet`: a receiver is listed by the sender, who is listed is in the group,
and a group with members has params; the last two also rule out each nil
dereference. `Introduced` is the other half of the property: names come only from
the list of an acceptor and from statuses of agents whose list named the receiver.
So two agents that join at once through the founder, each on a list without the
other, never meet; that is what the code does, and the property says no more than
what is true. `OnlyJoins` excludes the steps of `Leave` and of its statuses.
`JInv` is the conjunction; TLC found it true on the instance of `joins`, with
two invitations per agent as well. `HelloMeansConnected` follows from `AckedHear`
at the step that ends the wait.

**Group.** `PromisedHolds` uses `JInv`: the list a joiner enters with is held by
members (`ListedInGroup`), and the status it publishes reaches all it lists who do
not know it (`AckedHear`, `MutualOrListed`), which is what `Announce` of `Group`
asks for. Each action of `Membership` is then a step of `Group` (`Create`, `Admit`,
`Notify`, `AddMember`) or leaves the mapped state as it is. `PromisedWithLeaves` does the
same from the invariant below, with `LeaveNotify` and `RemoveMember` as further steps.

**Membership, one operation at a time.** `OneAtATime` says three things. `Serial`: users
start an operation when all is quiet, which is what agents in a test do and what the
protocol cannot enforce; the steps of an operation still interleave with its handlers
and statuses in any order. `MaxInvs = 1`: an agent does not come back, since the
acks of its earlier stay make it publish its status too early. One founder: two agents
that create a group of one name each have two groups. With either of the last two dropped,
`Agreement` is false. `SInv` rests on `OneBusy`: one agent is the source of all that
is under way. Its other parts say what each structure must be given what that agent is
doing, so that both directions follow at rest: lists hold members, or who has just
left and whose status is on its way (`ListsMembers`), and lack a member only
if its status is on its way or it is about to publish or delete (`AllListed`); the
acceptor's list stays exact during a join (`ListExact`), so no check fails
(`AnswersFit`); sockets are connected to whoever is listed, announced or being added
(`StateFits`, `DataFits`) and to nobody else (`NothingElse`); a server key is that of
the only joiner (`HandlersFit`), so no connection is crossed and nobody breaks
(`Sound`, which has `NoneBroken`); who acked hears
the joiner and all listed hear a leaver (`AckedHears`, `LeaverHeard`), so no status is
lost. TLC found `SInv` true on the instance of `serial`, and on four agents as far as
it got.

**Syncer.** `Floor`: the stored stamp is not below any stamp seen in this stay.
`SeenStamped`: nothing is seen where no clock was started. With them a new stamp
is above all that its message depends on, or equal within the second.
`ReadAsSent` needs that an agent whose params are ordered has a clock (`Started`) and
every message sent with them a stamp (`OrderedStamped`), and that who sent one with a
stamp still has a clock (`SenderKeeps`).

**ReqRep.** A caller may only be handed the answer to its own message. `RInv` says where
that answer is at each moment: a sender works for one call, which waits (`JobsFit`);
while its message is on the way or at a server, no answer is at its socket
(`ArrivedFit`, `ServingFit`); an answer at the socket is for that call and tells
whether a handler had the message (`AnswersFit`); a message is handled at its own
endpoint and once (`HandledFit`). The case of a process that exits is why all of
these are stated for senders that live.

**Transport.** A caller that got an error would give up while its request is
still with the other listener, whose reply then nobody takes. So `Awaited` rests
on the absence of errors, which rests on the sockets: an error is what ZeroMQ
says of a disconnect from a peer it is not connected to. `SocketsFit` says that
whoever subscribed is connected on a side unless an operation on it has not yet
reached that side or has already left it (`Off`), or the closed connector
dropped its request (`Broken`). A request to disconnect that a listener comes to
is one whose operation has not reached the side, and no other operation is on
that member (`Exclusive`), so the peer is connected. `ConnFits`, `QueueFits` and
`ReplyFits` say that what is under way is the current request of its caller, with
the connector, or unhandled in a queue, once. Two groups with a common member
share one connection: leaving one of them cuts it for the other, the next
disconnect fails, and none of this holds; that is what `OneGroupEach` excludes.

**Connect.** A goroutine waits only for the sender of a request it answers
(`ListenFor`), who was invited by it (`CallsInvited`, `WireBegun`); so a
circle of waits would be a circle of invitations, which a well founded relation
does not have (`WFMin` of the library). `ResOnWire` says that a response on the
wire is the only one of its sender, who is waiting for it to be taken: without
it, handing over a response would wake a listen goroutine that is not waiting.
Most of the proof is one lemma per action that says what it changes (`AcceptDoes`,
`OpenResDoes`, ...), so that each invariant is argued about effects.

`HalfOpen` needs that keys in messages and documents are keys that were made
(`CallKeys`, `ListenKeys`, `WireKeys`): a record has services only if its key is not 0.
With that, an agent that never asks another, and has answered it, knows its services
or is about to store them (`HInv`): nothing makes it forget.

`SyncMeansConnected` is about an agent that does one exchange with a peer at a time
(`OneAtATime`): then a response that arrives belongs to the exchange its record is of
(`Recorded`, `ResPast`), a response is signalled only after its services are stored
(`Signalled`), and the channel it finds was made for an exchange with that peer
(`ChanOwn`).

**Delivery.** `Told` gives, per step of a callback, what it has counted and told. A
message printed raises the count of one callback at most, the one whose channel its
goroutine found (`ChansFit`), so counts and printed messages stay in proportion
(`CountsFit`); no goroutine begins with a message that is still to be sent
(`NotYetSent`).

Left to TLC: every liveness property (`JoinReturns`, `LeaverForgotten`, `Connected`, `Woken`, `Returns`, `Contained`, `CloseReturns`, `Delivered`), since
ENABLED and fairness are out of this prover's reach. Every safety property of a
passing run has a theorem but `Readable`: since keys are read and stored in steps of
their own, its invariant has to follow every message through the overlapping exchanges
of a pair, and that proof is not written. Neither proved nor checked, because false of the code, are
the properties of `joins` and `serial` when leaves overlap other operations.

## Not modelled, and why

- `pack`, zstd, JSON, base64, cryptographic arithmetic: stateless conversions.
- Single-queue mode, in which a copy reaches everybody and opens for one: what does
  not open changes nothing.
- Errors of sockets and of encodings in the request-reply transport, and
  `Server.Stop`, which nothing calls.
- Feature discovery: a pure function of a query and a fixed table; its handler is one of the
  synchronous handlers of `ReqRep`.
- Internal messages that do not parse, and operations on one member that overlap
  at the listeners: `Transport` has neither. `Membership` has the latter with
  the listeners abstracted.
- Data races inside a store method: below the grain of the actions.
- A second call of `Container.Stop` while the first runs.
- Command line, the HTTP transport (which `bootstrap.go` does not use), the requests the mock server passes on, scripts, logging, wiring: no protocol.

## Plan

1. Done: `Validator`, `VerifyLoop`, `Membership` and its refinement of `Group`,
   `Syncer`, `Connect`, `Transport`, `ReqRep` and its refinement of `Rpc`, `Delivery`.
2. For `Transport`, an abstract specification of what a caller is promised (a
   request changes both sockets, then the call returns) and its implementation.
3. Proofs: done for every safety property the passing runs check but `Readable`,
   which is next. Then which parts of `SInv` survive when joins overlap and only leaves are serial; how late an
   announcement may be heeded when leaves overlap.
