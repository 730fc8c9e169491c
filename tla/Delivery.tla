------------------------------ MODULE Delivery ------------------------------
(***************************************************************************)
(* The way of a data message: Agent.Send goes through the subscribers of   *)
(* the topic and publishes a packed copy for each; at a member a goroutine *)
(* of its own handles the copy (processor.data): it looks for an ack       *)
(* channel of the sender, sends the text on it if there is one, and prints *)
(* the text.  Ack channels are registered and read by the callbacks of the *)
(* mock server (reqrep/mock), which count messages for a tester.           *)
(*                                                                         *)
(* One publisher and its group are modelled.  Its map of subscribers is    *)
(* changed by the goroutines that handle subscriptions and statuses, while *)
(* Send goes through that same map.  How a member comes to hear the        *)
(* publisher is in Membership, what is stamped in Syncer.  The copies of   *)
(* others, which a single queue carries to everybody, do not open and      *)
(* change nothing.                                                         *)
(*                                                                         *)
(* Neither the map of subscribers nor that of ack channels is locked by    *)
(* who reads it.  The Go runtime may end a process in which a map is       *)
(* changed while another goroutine goes through it or reads it.            *)
(*                                                                         *)
(* Bounds: MaxSends, MaxChanges (joins and leaves), and the Callbacks.     *)
(***************************************************************************)
EXTENDS Integers, Sequences, FiniteSets

CONSTANTS Members,      \* the agents that join and leave the group
          First,        \* those that are in it at first
          Mocked,       \* those started with the mock server
          Publisher,
          Nowhere,      \* the agent of a callback not asked for yet
          MaxCallbacks, \* callbacks asked for in all
          MaxCount,     \* the largest number of messages one waits for
          MaxSends,
          MaxChanges

Callbacks == 1..MaxCallbacks
NoChan == 0                    \* a nil channel
Msgs == 1..MaxSends

ASSUME DeliveryAssumption ==
    /\ Publisher \notin Members
    /\ First \subseteq Members /\ Mocked \subseteq Members
    /\ Nowhere \notin Members
    /\ MaxCallbacks \in Nat /\ MaxCount \in Nat
    /\ MaxSends \in Nat /\ MaxChanges \in Nat

VARIABLES
    subs,      \* the map of the topic in the subscriber store
    pending,   \* changes of it that goroutines are about to make
    listening, \* the members that hear the publisher
    changes,   \* how often a member joined or left
    sent,      \* the number of messages sent
    sending,   \* where Send is: the subscribers at its start, those seen
    matching,  \* messages with the text the callbacks wait for
    step,      \* what the goroutine of a member does with its copy
    chan,      \* the channel it sends the text on
    ackChans,  \* the channel registered for the publisher
    callback,  \* the goroutines of the callbacks
    down       \* agents whose process has died

store == <<subs, pending, listening, changes>>
publish == <<sent, sending, matching>>
handlers == <<step, chan>>
acks == <<ackChans, callback>>
vars == <<store, publish, handlers, acks, down>>

Idle == [going |-> FALSE, start |-> {}, seen |-> {}]

NoCallback == [at |-> Nowhere, count |-> 0, wanted |-> 0, step |-> "none",
               timed |-> FALSE, told |-> <<>>]

TypeOK ==
    /\ subs \subseteq Members
    /\ pending \subseteq {"add", "delete"} \X Members
    /\ listening \subseteq Members
    /\ changes \in Nat
    /\ sent \in 0..MaxSends
    /\ sending \in [going : BOOLEAN, start : SUBSET Members, seen : SUBSET Members]
    /\ matching \subseteq Msgs
    /\ step \in [Members -> [Msgs -> {"none", "read", "found", "ack", "printed"}]]
    /\ chan \in [Members -> [Msgs -> Callbacks \cup {NoChan}]]
    /\ ackChans \in [Members -> Callbacks \cup {NoChan}]
    /\ callback \in [Callbacks ->
         [at : Members \cup {Nowhere}, count : 0..MaxCount, wanted : 0..MaxCount,
          step : {"none", "register", "wait", "unregister", "ended"},
          timed : BOOLEAN, told : Seq(0..MaxCount)]]
    /\ down \subseteq Members \cup {Publisher}

Init ==
    /\ subs = First
    /\ pending = {}
    /\ listening = First
    /\ changes = 0
    /\ sent = 0
    /\ sending = Idle
    /\ matching = {}
    /\ step = [m \in Members |-> [n \in Msgs |-> "none"]]
    /\ chan = [m \in Members |-> [n \in Msgs |-> NoChan]]
    /\ ackChans = [m \in Members |-> NoChan]
    /\ callback = [i \in Callbacks |-> NoCallback]
    /\ down = {}

Alive(a) == a \notin down
-----------------------------------------------------------------------------
(* Plausible slips: Send ends after the first subscriber, a callback counts    *)
(* whatever comes, or counts it twice.                                        *)

FinishedEarly == sending.seen # {} \/ sending.start \cap subs = {}
CountedAll(i, n) == callback[i].count + 1
CountedTwice(i, n) == IF n \in matching THEN callback[i].count + 2 ELSE callback[i].count
-----------------------------------------------------------------------------
(* The subscriber store *)

\* A member asks to be a subscriber and hears the publisher, or leaves: it
\* stops hearing the publisher and says so.
Join(m) ==
    /\ Alive(m) /\ m \notin listening /\ changes < MaxChanges
    /\ listening' = listening \cup {m}
    /\ pending' = pending \cup {<<"add", m>>}
    /\ changes' = changes + 1
    /\ UNCHANGED <<subs, publish, handlers, acks, down>>

Leave(m) ==
    /\ Alive(m) /\ m \in listening /\ changes < MaxChanges
    /\ listening' = listening \ {m}
    /\ pending' = pending \cup {<<"delete", m>>}
    /\ changes' = changes + 1
    /\ UNCHANGED <<subs, publish, handlers, acks, down>>

\* Subscriber.Add and Delete, in the order their goroutines come to them.
Add(m) ==
    /\ Alive(Publisher) /\ <<"add", m>> \in pending
    /\ subs' = subs \cup {m}
    /\ pending' = pending \ {<<"add", m>>}
    /\ UNCHANGED <<listening, changes, publish, handlers, acks, down>>

Delete(m) ==
    /\ Alive(Publisher) /\ <<"delete", m>> \in pending
    /\ subs' = subs \ {m}
    /\ pending' = pending \ {<<"delete", m>>}
    /\ UNCHANGED <<listening, changes, publish, handlers, acks, down>>
-----------------------------------------------------------------------------
(* Agent.Send *)

Send ==
    /\ Alive(Publisher) /\ ~sending.going /\ sent < MaxSends
    /\ sent' = sent + 1
    /\ sending' = [going |-> TRUE, start |-> subs, seen |-> {}]
    /\ \E match \in SUBSET {sent + 1} : matching' = matching \cup match
    /\ UNCHANGED <<store, handlers, acks, down>>

\* The next subscriber of the map as it is now: who is deleted is not met any
\* more, who is added may or may not be.
Publish(m) ==
    /\ Alive(Publisher) /\ sending.going /\ m \in subs \ sending.seen
    /\ sending' = [sending EXCEPT !.seen = @ \cup {m}]
    /\ step' = IF m \in listening /\ Alive(m)
               THEN [step EXCEPT ![m][sent] = "read"] ELSE step
    /\ UNCHANGED <<store, sent, matching, chan, acks, down>>

\* The loop has met all that were in the map when it began and still are.
Finished == sending.start \cap subs \subseteq sending.seen

Return ==
    /\ Alive(Publisher) /\ sending.going /\ Finished
    /\ sending' = Idle
    /\ UNCHANGED <<store, sent, matching, handlers, acks, down>>
-----------------------------------------------------------------------------
(* processor.data *)

\* ackChans is read twice: to see whether there is a channel (without one the
\* text is printed, which the command line always does),
Check(m, n) ==
    /\ Alive(m) /\ step[m][n] = "read"
    /\ step' = [step EXCEPT ![m][n] = IF ackChans[m] = NoChan THEN "printed" ELSE "found"]
    /\ UNCHANGED <<store, publish, chan, acks, down>>

\* and to send on it, when it may be another one or none.
Fetch(m, n) ==
    /\ Alive(m) /\ step[m][n] = "found"
    /\ chan' = [chan EXCEPT ![m][n] = ackChans[m]]
    /\ step' = [step EXCEPT ![m][n] = "ack"]
    /\ UNCHANGED <<store, publish, acks, down>>

\* What a callback has counted when n has come.
Counted(i, n) == IF n \in matching THEN callback[i].count + 1 ELSE callback[i].count

\* The callback takes the text, and the goroutine prints it.  With the last text
\* it waited for the callback tells the tester and ends.
Ack(m, n) ==
    LET i == chan[m][n]
        c == callback[i]
        count == Counted(i, n)
        full == count # c.count /\ count = c.wanted
    IN
    /\ Alive(m) /\ step[m][n] = "ack" /\ i # NoChan /\ c.step = "wait"
    /\ step' = [step EXCEPT ![m][n] = "printed"]
    /\ chan' = [chan EXCEPT ![m][n] = NoChan]
    /\ callback' = [callback EXCEPT ![i] =
          [c EXCEPT !.count = count,
                    !.told = IF full THEN Append(c.told, count) ELSE c.told,
                    !.step = IF full THEN "unregister" ELSE "wait"]]
    /\ UNCHANGED <<store, publish, ackChans, down>>
-----------------------------------------------------------------------------
(* mocker.initCallback *)

\* A tester asks for a callback.
Ask(i, m, count) ==
    /\ Alive(m) /\ callback[i].step = "none"
    /\ \A j \in 1..(i - 1) : callback[j].step # "none"
    /\ callback' = [callback EXCEPT ![i] =
                       [NoCallback EXCEPT !.at = m, !.wanted = count, !.step = "register"]]
    /\ UNCHANGED <<store, publish, handlers, ackChans, down>>

\* RegisterAck replaces the channel of a callback that is still waiting.
Register(i) ==
    /\ Alive(callback[i].at) /\ callback[i].step = "register"
    /\ ackChans' = [ackChans EXCEPT ![callback[i].at] = i]
    /\ callback' = [callback EXCEPT ![i] = [@ EXCEPT !.step = "wait"]]
    /\ UNCHANGED <<store, publish, handlers, down>>

\* The time of the callback is over: it tells the tester and waits on.
Timeout(i) ==
    /\ Alive(callback[i].at) /\ callback[i].step = "wait" /\ ~callback[i].timed
    /\ LET c == callback[i] IN
       callback' = [callback EXCEPT ![i] =
                       [c EXCEPT !.timed = TRUE, !.told = Append(c.told, c.count)]]
    /\ UNCHANGED <<store, publish, handlers, ackChans, down>>

\* UnregisterAck removes whichever channel is registered for the peer.
Unregister(i) ==
    /\ Alive(callback[i].at) /\ callback[i].step = "unregister"
    /\ ackChans' = [ackChans EXCEPT ![callback[i].at] = NoChan]
    /\ callback' = [callback EXCEPT ![i] = [@ EXCEPT !.step = "ended"]]
    /\ UNCHANGED <<store, publish, handlers, down>>
-----------------------------------------------------------------------------
(* The Go runtime *)

\* Send goes through the map of subscribers, and another goroutine changes it.
RaceInSend ==
    /\ Alive(Publisher) /\ sending.going /\ pending # {}
    /\ down' = down \cup {Publisher}
    /\ subs' = {} /\ pending' = {} /\ sending' = Idle
    /\ UNCHANGED <<listening, changes, sent, matching, handlers, acks>>

Writing(m) == {i \in Callbacks : callback[i].at = m /\ callback[i].step \in {"register", "unregister"}}
Reading(m) == {n \in Msgs : step[m][n] \in {"read", "found"}}

\* A callback that died with its process.
Lost(m) == [NoCallback EXCEPT !.at = m, !.step = "ended"]

\* A callback changes ackChans, and another goroutine reads or changes it.
RaceInData(m) ==
    /\ Alive(m)
    /\ \E i \in Writing(m) : Reading(m) # {} \/ Writing(m) # {i}
    /\ down' = down \cup {m}
    /\ listening' = listening \ {m}
    /\ step' = [step EXCEPT ![m] = [n \in Msgs |-> "none"]]
    /\ chan' = [chan EXCEPT ![m] = [n \in Msgs |-> NoChan]]
    /\ ackChans' = [ackChans EXCEPT ![m] = NoChan]
    /\ callback' = [i \in Callbacks |-> IF callback[i].at = m THEN Lost(m) ELSE callback[i]]
    /\ UNCHANGED <<subs, pending, changes, publish>>
-----------------------------------------------------------------------------
UserStep == \/ Send
            \/ \E m \in Members : Join(m) \/ Leave(m)
            \/ \E i \in Callbacks, m \in Mocked, count \in 1..MaxCount : Ask(i, m, count)

DataStep(m, n) == Check(m, n) \/ Fetch(m, n) \/ Ack(m, n)
CallbackStep(i) == Register(i) \/ Unregister(i)

Next == \/ UserStep
        \/ \E m \in Members : Add(m) \/ Delete(m) \/ Publish(m) \/ RaceInData(m)
        \/ Return \/ RaceInSend
        \/ \E m \in Members, n \in Msgs : DataStep(m, n)
        \/ \E i \in Callbacks : CallbackStep(i) \/ Timeout(i)

Spec == Init /\ [][Next]_vars

\* Goroutines are scheduled, testers take what they are told.  Nobody has to
\* send, join, leave or ask, and nothing forces a timeout.
Fairness ==
    /\ WF_vars(Return)
    /\ \A m \in Members : WF_vars(Publish(m)) /\ WF_vars(Add(m)) /\ WF_vars(Delete(m))
    /\ \A m \in Members, n \in Msgs : WF_vars(DataStep(m, n))
    /\ \A i \in Callbacks : WF_vars(CallbackStep(i))

FairSpec == Spec /\ Fairness
-----------------------------------------------------------------------------
(* Properties *)

\* A callback at m has had all it waited for.
Served(m) == \E i \in Callbacks :
    callback[i].at = m /\ callback[i].step # "register" /\ callback[i].count = callback[i].wanted

\* A message that is sent while m is a subscriber and hears the publisher is
\* printed by m, whatever other members join and leave meanwhile, unless m is
\* removed before its turn or a process dies, or a callback at m has been
\* served: from then on goroutines may wait for ever on a channel that nobody
\* reads, or on none.  A callback that runs out of time does no harm.
Delivered ==
    \A m \in Members, n \in Msgs :
        sending.going /\ sent = n /\ m \in listening \cap (sending.start \ sending.seen) ~>
            \/ step[m][n] = "printed"
            \/ m \notin listening \/ m \notin subs
            \/ ~Alive(Publisher) \/ ~Alive(m)
            \/ Served(m)

\* What the callbacks at m have counted: the first, second, ... of each.
CountsAt(m) == {c \in Callbacks \X (1..MaxCount) :
                  callback[c[1]].at = m /\ c[2] <= callback[c[1]].count}

PrintedAt(m) == {n \in matching : step[m][n] = "printed"}

\* However many callbacks a tester asks for, and however they replace each
\* other, no message is counted twice and none before it came; a callback tells
\* the tester twice at most, the number asked for last and once.
CountRight ==
    /\ \A m \in Members : Cardinality(CountsAt(m)) <= Cardinality(PrintedAt(m))
    /\ \A i \in Callbacks :
          /\ Len(callback[i].told) <= 2
          /\ \A k \in 1..Len(callback[i].told) :
                callback[i].told[k] = callback[i].wanted <=>
                    /\ k = Len(callback[i].told)
                    /\ callback[i].step \in {"unregister", "ended"}
=============================================================================
