------------------------------- MODULE ReqRep -------------------------------
(***************************************************************************)
(* The request-reply transport: Client.Send and Client.Close of            *)
(* reqrep/zmq/client.go, the loop of Server.Start of reqrep/zmq/server.go, *)
(* and how the program ends (domain/container).                            *)
(*                                                                         *)
(* Every agent has a client and a server.  A call of Send runs in the      *)
(* goroutine of its caller.  The client keeps for each endpoint a          *)
(* goroutine with a REQ socket, the sender; a call looks it up or starts   *)
(* one, which stores itself only later, so that calls made at once may     *)
(* start several.  A sender is named by the call that started it.  A       *)
(* server has one loop, which hands messages to the goroutines that        *)
(* registered for their type.                                              *)
(*                                                                         *)
(* The type of a message is chosen when the server reads it, which is the  *)
(* first time it matters.  There are four: with an async handler, which is *)
(* acknowledged when its one goroutine takes the message; with a sync      *)
(* handler that answers; with a sync handler that ends without an answer,  *)
(* as joinReqs of an agent that is no member; and without a handler, as of *)
(* a peer of a newer version.                                              *)
(*                                                                         *)
(* Handlers that send themselves are in Connect.  The branches of the code *)
(* for errors of the sockets and of the encoding are left out, and so is   *)
(* Server.Stop, which nothing calls.                                       *)
(*                                                                         *)
(* Bounds: MaxSends, the number of calls of Send, numbered in the order in *)
(* which they are made; one call of Close for each agent.                  *)
(***************************************************************************)
EXTENDS Integers

CONSTANTS Agents,     \* also the endpoints of their servers
          Callers,    \* the agents that send
          Exiting,    \* the agents that may be told to stop
          Nowhere,    \* the endpoint of a call that was not made yet
          MaxSends

Requests == 1..MaxSends
Nobody == 0    \* no call

Types == {"async", "sync", "unanswered", "unknown"}

ASSUME ReqRepAssumption ==
    /\ Callers \subseteq Agents
    /\ Exiting \subseteq Agents
    /\ Nowhere \notin Agents
    /\ MaxSends \in Nat

VARIABLES
    pc,        \* where each call of Send is
    from, to,  \* its agent and endpoint
    sender,    \* the sender it hands its message to
    result,    \* what it returned
    chanMap,   \* the sender each client has stored for an endpoint
    sndr,      \* where each sender is
    job,       \* the call it works for
    inbox,     \* the answer that arrived at its socket
    arrived,   \* messages at the socket of a server
    serving,   \* the message the loop of a server is at
    type,      \* its type
    handling,  \* the message the goroutine of the async handlers is at
    handled,   \* how often a server handed a message to a handler
    closing,   \* agents in Client.Close
    todo,      \* the endpoints it has still to visit
    visit,     \* the sender it wants to stop
    down       \* agents that have exited

calls == <<pc, from, to, sender, result>>
client == <<chanMap, sndr, job, inbox>>
server == <<arrived, serving, type, handling, handled>>
exit == <<closing, todo, visit, down>>
vars == <<calls, client, server, exit>>

Answers == [of : Requests, failed : BOOLEAN]
NoAnswer == [of |-> Nobody, failed |-> FALSE]

TypeOK ==
    /\ pc \in [Requests -> {"new", "offer", "wait", "done"}]
    /\ from \in [Requests -> Agents \cup {Nowhere}]
    /\ to \in [Requests -> Agents \cup {Nowhere}]
    /\ sender \in [Requests -> Requests]
    /\ result \in [Requests -> Answers \cup {NoAnswer}]
    /\ chanMap \in [Agents -> [Agents -> Requests \cup {Nobody}]]
    /\ sndr \in [Requests -> {"none", "starting", "ready", "busy", "ended"}]
    /\ job \in [Requests -> Requests \cup {Nobody}]
    /\ inbox \in [Requests -> Answers \cup {NoAnswer}]
    /\ arrived \subseteq Requests
    /\ serving \in [Agents -> Requests \cup {Nobody}]
    /\ type \in [Agents -> Types]
    /\ handling \in [Agents -> Requests \cup {Nobody}]
    /\ handled \in [Agents -> [Requests -> Nat]]
    /\ closing \subseteq Agents
    /\ todo \in [Agents -> SUBSET Agents]
    /\ visit \in [Agents -> Requests \cup {Nobody}]
    /\ down \subseteq Agents

Init ==
    /\ pc = [r \in Requests |-> "new"]
    /\ from = [r \in Requests |-> Nowhere]
    /\ to = [r \in Requests |-> Nowhere]
    /\ sender = [r \in Requests |-> r]
    /\ result = [r \in Requests |-> NoAnswer]
    /\ chanMap = [a \in Agents |-> [e \in Agents |-> Nobody]]
    /\ sndr = [r \in Requests |-> "none"]
    /\ job = [r \in Requests |-> Nobody]
    /\ inbox = [r \in Requests |-> NoAnswer]
    /\ arrived = {}
    /\ serving = [a \in Agents |-> Nobody]
    /\ type = [a \in Agents |-> "unknown"]
    /\ handling = [a \in Agents |-> Nobody]
    /\ handled = [a \in Agents |-> [r \in Requests |-> 0]]
    /\ closing = {}
    /\ todo = [a \in Agents |-> {}]
    /\ visit = [a \in Agents |-> Nobody]
    /\ down = {}
-----------------------------------------------------------------------------
Alive(a) == a \notin down

(* Plausible slips: *)

\* one sender for all endpoints,
SendrAny(a, e) == LET stored == {chanMap[a][x] : x \in Agents} \ {Nobody}
                  IN  IF stored = {} THEN Nobody ELSE CHOOSE s \in stored : TRUE
\* a sender that does not wait for its answer,
FreeOrBusy(s) == sndr[s] \in {"ready", "busy"}
\* an answer that does not say whose it is,
AnswerToNobody(r, t) == [of |-> Nobody, failed |-> t = "unknown"]
\* return for continue after a failure.
ReceiveEnds(s) ==
    /\ sndr[s] = "busy" /\ inbox[s] # NoAnswer /\ Alive(from[s])
    /\ result' = [result EXCEPT ![job[s]] = inbox[s]]
    /\ pc' = [pc EXCEPT ![job[s]] = "done"]
    /\ inbox' = [inbox EXCEPT ![s] = NoAnswer]
    /\ job' = [job EXCEPT ![s] = Nobody]
    /\ sndr' = [sndr EXCEPT ![s] = IF inbox[s].failed THEN "ended" ELSE "ready"]
    /\ UNCHANGED <<from, to, sender, chanMap, server, exit>>
-----------------------------------------------------------------------------
\* Client.sendr: the sender stored for the endpoint, if there is one.
Sendr(a, e) == chanMap[a][e]

\* A sender takes a message when it is back at its channel.
Free(s) == sndr[s] = "ready"

\* The endpoint the socket of a sender is connected to.
Endpoint(s) == to[s]

\* Server.sendAck and sendRes answer the message received last.
AnswerTo(r, t) == [of |-> r, failed |-> t = "unknown"]

\* The message has gone through Server.Start up to the answer.
Answerable(e) == \/ type[e] = "unknown"
                 \/ type[e] \in {"async", "sync"} /\ handled[e][serving[e]] > 0
-----------------------------------------------------------------------------
(* Client.Send, which may also be called after Client.Close has begun *)

Send(r, a, e) ==
    /\ pc[r] = "new" /\ Alive(a) /\ e # a
    /\ \A x \in 1..(r - 1) : pc[x] # "new"
    /\ pc' = [pc EXCEPT ![r] = "offer"]
    /\ from' = [from EXCEPT ![r] = a]
    /\ to' = [to EXCEPT ![r] = e]
    /\ \/ /\ Sendr(a, e) # Nobody
          /\ sender' = [sender EXCEPT ![r] = Sendr(a, e)]
          /\ UNCHANGED sndr
       \/ /\ Sendr(a, e) = Nobody
          /\ sender' = [sender EXCEPT ![r] = r]
          /\ sndr' = [sndr EXCEPT ![r] = "starting"]
    /\ UNCHANGED <<result, chanMap, job, inbox, server, exit>>

\* Client.initSendr before its loop.  A Range of Close that is under way may or
\* may not come to an endpoint that is new in the map.
InitSendr(s) ==
    LET a == from[s] IN
    /\ sndr[s] = "starting" /\ Alive(a)
    /\ chanMap' = [chanMap EXCEPT ![a][to[s]] = s]
    /\ sndr' = [sndr EXCEPT ![s] = "ready"]
    /\ \/ UNCHANGED todo
       \/ /\ a \in closing /\ chanMap[a][to[s]] = Nobody
          /\ todo' = [todo EXCEPT ![a] = @ \cup {to[s]}]
    /\ UNCHANGED <<calls, job, inbox, server, closing, visit, down>>

\* The sender takes the message of r and sends it.
HandOver(r) ==
    LET s == sender[r] IN
    /\ pc[r] = "offer" /\ Free(s) /\ Alive(from[r])
    /\ pc' = [pc EXCEPT ![r] = "wait"]
    /\ sndr' = [sndr EXCEPT ![s] = "busy"]
    /\ job' = [job EXCEPT ![s] = r]
    /\ arrived' = arrived \cup {r}
    /\ UNCHANGED <<from, to, sender, result, chanMap, inbox, serving, type, handling,
                   handled, exit>>

\* The sender receives the answer and hands it to its caller, who waits for it.
Receive(s) ==
    /\ sndr[s] = "busy" /\ inbox[s] # NoAnswer /\ Alive(from[s])
    /\ result' = [result EXCEPT ![job[s]] = inbox[s]]
    /\ pc' = [pc EXCEPT ![job[s]] = "done"]
    /\ inbox' = [inbox EXCEPT ![s] = NoAnswer]
    /\ job' = [job EXCEPT ![s] = Nobody]
    /\ sndr' = [sndr EXCEPT ![s] = "ready"]
    /\ UNCHANGED <<from, to, sender, chanMap, server, exit>>
-----------------------------------------------------------------------------
(* Server.Start *)

\* The loop reads a message.  The goroutine of a sync handler is always there to
\* take it.
Accept(e) ==
    /\ Alive(e) /\ serving[e] = Nobody
    /\ \E r \in {x \in arrived : Endpoint(sender[x]) = e}, t \in Types :
          /\ serving' = [serving EXCEPT ![e] = r]
          /\ type' = [type EXCEPT ![e] = t]
          /\ arrived' = arrived \ {r}
          /\ handled' = IF t \in {"sync", "unanswered"}
                        THEN [handled EXCEPT ![e][r] = @ + 1] ELSE handled
    /\ UNCHANGED <<calls, client, handling, exit>>

\* The goroutine of the async handlers takes a message when it is done with the
\* one before.
Take(e) ==
    LET r == serving[e] IN
    /\ Alive(e) /\ r # Nobody /\ type[e] = "async" /\ handled[e][r] = 0
    /\ handling[e] = Nobody
    /\ handling' = [handling EXCEPT ![e] = r]
    /\ handled' = [handled EXCEPT ![e][r] = @ + 1]
    /\ UNCHANGED <<calls, client, arrived, serving, type, exit>>

\* The acknowledgement of an async message, the reply of a sync handler, or
\* the failure that there is no handler.
Answer(e) ==
    LET r == serving[e] IN
    /\ Alive(e) /\ r # Nobody /\ Answerable(e)
    /\ inbox' = IF Alive(from[r])
                THEN [inbox EXCEPT ![sender[r]] = AnswerTo(r, type[e])] ELSE inbox
    /\ serving' = [serving EXCEPT ![e] = Nobody]
    /\ type' = [type EXCEPT ![e] = "unknown"]
    /\ UNCHANGED <<calls, chanMap, sndr, job, arrived, handling, handled, exit>>

\* The goroutine of the async handlers is done with its message.
Finish(e) ==
    /\ Alive(e) /\ handling[e] # Nobody
    /\ handling' = [handling EXCEPT ![e] = Nobody]
    /\ UNCHANGED <<calls, client, arrived, serving, type, handled, exit>>
-----------------------------------------------------------------------------
(* container.Stop and Client.Close *)

Close(a) ==
    /\ Alive(a) /\ a \notin closing
    /\ closing' = closing \cup {a}
    /\ todo' = [todo EXCEPT ![a] = {e \in Agents : chanMap[a][e] # Nobody}]
    /\ UNCHANGED <<calls, client, server, visit, down>>

Visit(a) ==
    /\ a \in closing /\ Alive(a) /\ visit[a] = Nobody
    /\ \E e \in todo[a] : /\ visit' = [visit EXCEPT ![a] = chanMap[a][e]]
                          /\ todo' = [todo EXCEPT ![a] = @ \ {e}]
    /\ UNCHANGED <<calls, client, server, closing, down>>

Terminate(a) ==
    /\ a \in closing /\ Alive(a) /\ visit[a] # Nobody
    /\ Free(visit[a])
    /\ sndr' = [sndr EXCEPT ![visit[a]] = "ended"]
    /\ visit' = [visit EXCEPT ![a] = Nobody]
    /\ UNCHANGED <<calls, chanMap, job, inbox, server, closing, todo, down>>

\* The process exits, and with it its callers, senders and server.
Exit(a) ==
    LET own == {s \in Requests : from[s] = a} IN
    /\ a \in closing /\ Alive(a) /\ visit[a] = Nobody /\ todo[a] = {}
    /\ down' = down \cup {a}
    /\ chanMap' = [chanMap EXCEPT ![a] = [e \in Agents |-> Nobody]]
    /\ sndr' = [s \in Requests |-> IF s \in own THEN "ended" ELSE sndr[s]]
    /\ job' = [s \in Requests |-> IF s \in own THEN Nobody ELSE job[s]]
    /\ inbox' = [s \in Requests |-> IF s \in own THEN NoAnswer ELSE inbox[s]]
    /\ arrived' = {r \in arrived : to[r] # a}
    /\ serving' = [serving EXCEPT ![a] = Nobody]
    /\ type' = [type EXCEPT ![a] = "unknown"]
    /\ handling' = [handling EXCEPT ![a] = Nobody]
    /\ UNCHANGED <<calls, handled, closing, todo, visit>>
-----------------------------------------------------------------------------
UserStep == \/ \E r \in Requests, a \in Callers, e \in Agents : Send(r, a, e)
            \/ \E a \in Exiting : Close(a)

SenderStep(s) == InitSendr(s) \/ Receive(s)
ServerStep(e) == Accept(e) \/ Take(e) \/ Answer(e)
CloseStep(a) == Visit(a) \/ Terminate(a) \/ Exit(a)

Next == \/ UserStep
        \/ \E r \in Requests : HandOver(r) \/ SenderStep(r)
        \/ \E a \in Agents : ServerStep(a) \/ Finish(a) \/ CloseStep(a)

Spec == Init /\ [][Next]_vars

\* Every goroutine is scheduled, messages between agents that run arrive.  Nobody
\* has to send or to stop an agent, and an async handler need not end: the one of
\* the prober sends a message itself, and waits for who has called SyncAccept.
Fairness ==
    /\ \A r \in Requests : WF_vars(HandOver(r)) /\ WF_vars(SenderStep(r))
    /\ \A a \in Agents : WF_vars(ServerStep(a)) /\ WF_vars(CloseStep(a))

FairSpec == Spec /\ Fairness
-----------------------------------------------------------------------------
(* Properties *)

R == INSTANCE Rpc WITH
        Endpoints <- Agents,
        called <- to,
        taken <- handled,
        returned <- result

\* Whatever senders were started at once, whoever exits and whatever waits for
\* ever: a message is handled at most once, at its endpoint, and a call returns
\* the answer to its own message, and a failure only if it was not handled.
CallsKept == R!Spec

\* Endpoints that answer no more: the agent has exited, or its server waits for
\* a sync handler that ended without an answer.
Silent == down \cup {e \in Agents : serving[e] # Nobody /\ type[e] = "unanswered"}

\* The async handlers of e end.
HandlersEnd(e) == WF_vars(Finish(e))

\* A server that waits for ever, be it for an answer or for the goroutine of the
\* async handlers, holds up only those who send to it: if the handlers of e end,
\* every call of Send to e returns, unless e answers no more or the caller is
\* told to stop, whatever becomes of the other servers.
Contained ==
    \A e \in Agents : HandlersEnd(e) =>
        \A r \in Requests :
            pc[r] = "offer" /\ to[r] = e ~> \/ pc[r] = "done"
                                           \/ e \in Silent
                                           \/ from[r] \in closing

\* An agent told to stop exits, whoever still calls Send, unless one of the
\* endpoints it sends to answers no more or is at an async handler time and again.
CloseReturns ==
    \A a \in Agents :
        a \in closing ~>
            \/ ~Alive(a)
            \/ \E e \in Agents : /\ chanMap[a][e] # Nobody
                                 /\ e \in Silent \/ handling[e] # Nobody
=============================================================================
