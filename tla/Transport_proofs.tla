-------------------------- MODULE Transport_proofs --------------------------
(***************************************************************************)
(* Proofs about Transport: its types, and, if no peer is in two groups,    *)
(* that every request and reply is awaited and that the sockets match the  *)
(* subscriptions when nothing is under way; for any number of callers,     *)
(* groups, peers and operations.                                           *)
(***************************************************************************)
EXTENDS Transport, TLAPS

Working(t) == wait[t] # "idle"
Request(t) == Head(todo[t])

(***************************************************************************)
(* Types.  What a request connects must be a peer, so the types rest on    *)
(* the requests each kind of operation makes.                              *)
(***************************************************************************)

\* What an operation of a kind has still to do, and for whom.
Scripted(k, p, rs) ==
    \/ k = "add" /\ p \in Peers /\ rs \in {<<"auth", "connect">>, <<"connect">>}
    \/ k = "remove" /\ p \in Publishers /\ rs \in {<<"disconnect", "unsub">>, <<"unsub">>}
    \/ k = "remove" /\ p \in Peers \ Publishers /\ rs = <<"disconnect">>
    \/ k = "leave" /\ p = Nobody /\ rs \in {<<"unsubAll", "publish">>, <<"publish">>}
    \/ k = "send" /\ p = Nobody /\ rs = <<"publish">>

Script(t) == Scripted(task[t].kind, task[t].p, todo[t])

Scripts == \A t \in Callers : Working(t) =>
              Script(t) /\ (wait[t] \in Sides => Request(t) # "publish")

Addressed(m) == m.op \in {"auth", "connect"} => m.p \in Peers

AllAddressed == /\ conn # Nobody => Addressed(conn)
                /\ \A s \in Sides : \A i \in 1..Len(queue[s]) : Addressed(queue[s][i])

TypeInv == TypeOK /\ Scripts /\ AllAddressed

LEMMA Tuples == /\ Head(<<"auth", "connect">>) = "auth"
                /\ Tail(<<"auth", "connect">>) = <<"connect">>
                /\ Len(<<"auth", "connect">>) = 2
                /\ Head(<<"disconnect", "unsub">>) = "disconnect"
                /\ Tail(<<"disconnect", "unsub">>) = <<"unsub">>
                /\ Len(<<"disconnect", "unsub">>) = 2
                /\ Head(<<"unsubAll", "publish">>) = "unsubAll"
                /\ Tail(<<"unsubAll", "publish">>) = <<"publish">>
                /\ Len(<<"unsubAll", "publish">>) = 2
                /\ Head(<<"connect">>) = "connect" /\ Len(<<"connect">>) = 1
                /\ Head(<<"disconnect">>) = "disconnect" /\ Len(<<"disconnect">>) = 1
                /\ Head(<<"unsub">>) = "unsub" /\ Len(<<"unsub">>) = 1
                /\ Head(<<"publish">>) = "publish" /\ Len(<<"publish">>) = 1
                /\ Len(<<>>) = 0
OBVIOUS

LEMMA TailFacts ==
    ASSUME NEW R, NEW q \in Seq(R), q # <<>>
    PROVE  /\ Tail(q) \in Seq(R) /\ Len(q) \in Nat \ {0} /\ Head(q) = q[1]
           /\ Head(q) \in R /\ Len(Tail(q)) = Len(q) - 1
           /\ \A i \in 1..Len(Tail(q)) : i + 1 \in 1..Len(q) /\ Tail(q)[i] = q[i + 1]
OBVIOUS

LEMMA AppendFacts ==
    ASSUME NEW R, NEW q \in Seq(R), NEW r \in R
    PROVE  /\ Append(q, r) \in Seq(R) /\ Len(Append(q, r)) = Len(q) + 1
           /\ Len(q) \in Nat /\ Append(q, r)[Len(q) + 1] = r
           /\ \A i \in 1..Len(q) : Append(q, r)[i] = q[i]
OBVIOUS

\* The request a caller is at tells what it works on.
LEMMA ScriptFacts ==
    ASSUME NEW t \in Callers, Script(t)
    PROVE  /\ todo[t] # <<>>
           /\ Request(t) \in Ops \cup {"publish"}
           /\ Request(t) = "auth" => task[t].kind = "add" /\ todo[t] = <<"auth", "connect">>
           /\ Request(t) = "connect" => task[t].kind = "add" /\ todo[t] = <<"connect">>
           /\ Request(t) = "disconnect" =>
                 /\ task[t].kind = "remove"
                 /\ \/ task[t].p \in Publishers /\ todo[t] = <<"disconnect", "unsub">>
                    \/ task[t].p \notin Publishers /\ todo[t] = <<"disconnect">>
           /\ Request(t) = "unsub" => /\ task[t].kind = "remove" /\ todo[t] = <<"unsub">>
                                      /\ task[t].p \in Publishers
           /\ Request(t) = "unsubAll" => task[t].kind = "leave" /\ todo[t] = <<"unsubAll", "publish">>
           /\ Request(t) = "publish" => task[t].kind \in {"leave", "send"} /\ todo[t] = <<"publish">>
           /\ task[t].kind \in {"add", "remove"} => task[t].p \in Peers
           /\ task[t].kind \in {"leave", "send"} => task[t].p = Nobody
           /\ task[t].kind = "send" => Request(t) = "publish"
BY Tuples, TransportAssumption DEF Script, Scripted, Request, Ops
-----------------------------------------------------------------------------
LEMMA TypeInit == Init => TypeInv
BY TransportAssumption DEF Init, TypeInv, TypeOK, Scripts, AllAddressed, Working, Sides, Requests, Replies

\* Which operation makes a request, and for whom.
LEMMA OpKinds ==
    ASSUME NEW t \in Callers, Script(t)
    PROVE  /\ Request(t) = "unsubAll" => task[t].kind = "leave"
           /\ Request(t) \in {"disconnect", "unsub"} => task[t].kind = "remove"
           /\ Request(t) \in {"auth", "connect"} => task[t].p \in Peers
           /\ Request(t) = "unsub" => task[t].p \in Publishers
BY ScriptFacts

\* An operation starts with a script of its kind.
LEMMA TypeStart ==
    ASSUME TypeInv, NEW t \in Callers, NEW kind \in Kinds, NEW g \in Topics,
           NEW p \in Peers \cup {Nobody}, NEW rs \in Seq(Ops \cup {"publish"}),
           Start(t, kind, g, p, rs), asked' \subseteq Joinable, Scripted(kind, p, rs)
    PROVE  TypeInv'
<1> USE DEF TypeInv
<1>1. /\ task' = [task EXCEPT ![t] = [kind |-> kind, g |-> g, p |-> p]]
      /\ todo' = [todo EXCEPT ![t] = rs]
      /\ wait' = [wait EXCEPT ![t] = "send"]
      /\ ops' \in 0..MaxOps
  BY TransportAssumption DEF Start, TypeOK
<1>2. [kind |-> kind, g |-> g, p |-> p] \in Tasks /\ rs # <<>>
  BY Tuples DEF Tasks, Scripted
<1>3. TypeOK'
  <2>1. /\ task' \in [Callers -> Tasks \cup {Nobody}]
        /\ todo' \in [Callers -> Seq(Ops \cup {"publish"})]
        /\ wait' \in [Callers -> {"idle", "send"} \cup Sides]
    BY <1>1, <1>2 DEF TypeOK
  <2>2. \A u \in Callers : wait'[u] # "idle" => task'[u] # Nobody /\ todo'[u] # <<>>
    BY <1>1, <1>2, TransportAssumption DEF TypeOK
  <2>3. QED
    BY <1>1, <2>1, <2>2 DEF TypeOK, Start, threads, sockets
<1>4. Scripts'
  <2> SUFFICES ASSUME NEW u \in Callers, Working(u)'
               PROVE  Script(u)' /\ (wait'[u] \in Sides => Request(u)' # "publish")
    BY DEF Scripts
  <2>1. CASE u = t
    <3>1. task'[t].kind = kind /\ task'[t].p = p /\ todo'[t] = rs /\ wait'[t] = "send"
      BY <1>1 DEF TypeOK
    <3>2. QED
      BY <2>1, <3>1 DEF Script, Sides
  <2>2. CASE u # t
    <3>1. task'[u] = task[u] /\ todo'[u] = todo[u] /\ wait'[u] = wait[u]
      BY <1>1, <2>2 DEF TypeOK
    <3>2. QED
      BY <3>1 DEF Scripts, Script, Working, Request
  <2>3. QED
    BY <2>1, <2>2
<1>5. AllAddressed'
  BY DEF AllAddressed, Addressed, Start, threads
<1>6. QED
  BY <1>3, <1>4, <1>5

LEMMA TypeTake == ASSUME TypeInv, NEW t \in Callers, Take(t) PROVE TypeInv'
<1> USE DEF TypeInv
<1> DEFINE m == [op |-> Head(todo[t]), g |-> task[t].g, p |-> task[t].p,
                 t |-> t, n |-> sent[t] + 1]
<1>1. Working(t) /\ Script(t) /\ Request(t) # "publish" /\ task[t] \in Tasks
  BY DEF Take, Working, Scripts, Request, TypeOK
<1>2. m \in Requests /\ Addressed(m)
  BY <1>1, ScriptFacts DEF Requests, Tasks, Addressed, Request, TypeOK
<1>3. /\ sent' = [sent EXCEPT ![t] = @ + 1] /\ conn' = m
      /\ wait' = [wait EXCEPT ![t] = "state"]
  BY DEF Take
<1>4. TypeOK'
  <2>1. sent' \in [Callers -> Nat] /\ conn' \in Requests \cup {Nobody}
    BY <1>2, <1>3 DEF TypeOK
  <2>2. repChans' \subseteq Sides \X Callers \X Nat
    BY DEF TypeOK, Take, Register
  <2>3. wait' \in [Callers -> {"idle", "send"} \cup Sides]
    BY <1>3 DEF TypeOK, Sides
  <2>4. \A u \in Callers : wait'[u] # "idle" => task'[u] # Nobody /\ todo'[u] # <<>>
    BY <1>3 DEF TypeOK, Take
  <2>5. QED
    BY <2>1, <2>2, <2>3, <2>4 DEF TypeOK, Take, store, sockets
<1>5. Scripts'
  <2> SUFFICES ASSUME NEW u \in Callers, Working(u)'
               PROVE  Script(u)' /\ (wait'[u] \in Sides => Request(u)' # "publish")
    BY DEF Scripts
  <2>1. task' = task /\ todo' = todo /\ Working(u) /\ (u # t => wait'[u] = wait[u])
    BY <1>3 DEF Take, TypeOK, Working
  <2>2. QED
    BY <1>1, <2>1 DEF Scripts, Script, Request
<1>6. AllAddressed'
  BY <1>2, <1>3 DEF AllAddressed, Take, Addressed
<1>7. QED
  BY <1>4, <1>5, <1>6

LEMMA TypePublish == ASSUME TypeInv, Publish PROVE TypeInv'
<1> USE DEF TypeInv
<1>1. conn \in Requests /\ conn' = Nobody /\ Addressed(conn)
  BY DEF Publish, TypeOK, AllAddressed
<1>2. /\ queue' \in [Sides -> Seq(Requests)]
      /\ \A s \in Sides : \A i \in 1..Len(queue'[s]) : Addressed(queue'[s][i])
  <2>1. CASE open["internal"]
    <3>1. queue' = [s \in Sides |-> Append(queue[s], conn)]
      BY <2>1 DEF Publish
    <3>2. ASSUME NEW s \in Sides
          PROVE  /\ queue'[s] \in Seq(Requests)
                 /\ \A i \in 1..Len(queue'[s]) : Addressed(queue'[s][i])
      <4>1. queue[s] \in Seq(Requests) /\ \A i \in 1..Len(queue[s]) : Addressed(queue[s][i])
        BY DEF TypeOK, AllAddressed
      <4>2. queue'[s] = Append(queue[s], conn)
        BY <3>1
      <4>3. QED
        BY <1>1, <4>1, <4>2, AppendFacts
    <3>3. QED
      BY <3>1, <3>2
  <2>2. CASE ~open["internal"]
    BY <2>2 DEF Publish, TypeOK, AllAddressed, Addressed
  <2>3. QED
    BY <2>1, <2>2
<1>3. TypeOK'
  BY <1>1, <1>2 DEF TypeOK, Publish, calls, store, sockets
<1>4. Scripts'
  BY DEF Scripts, Script, Working, Request, Publish, calls
<1>5. AllAddressed'
  BY <1>1, <1>2 DEF AllAddressed, Addressed
<1>6. QED
  BY <1>3, <1>4, <1>5

\* What a caller has still to do after its current request is of its kind.
LEMMA ScriptTail ==
    ASSUME NEW k, NEW p, NEW rs, Scripted(k, p, rs)
    PROVE  /\ rs # <<>> /\ Len(rs) \in {1, 2}
           /\ Len(rs) > 1 => Scripted(k, p, Tail(rs)) /\ Tail(rs) # <<>>
<1>1. CASE rs = <<"auth", "connect">>
  <2>1. Tail(rs) = <<"connect">> /\ Len(rs) = 2 /\ Head(rs) = "auth"
    BY <1>1, Tuples
  <2>2. k = "add" /\ p \in Peers
    BY <2>1, Tuples DEF Scripted
  <2>3. Scripted(k, p, Tail(rs)) /\ Tail(rs) # <<>>
    BY <2>1, <2>2, Tuples DEF Scripted
  <2>4. QED
    BY <1>1, <2>1, <2>3
<1>2. CASE rs = <<"disconnect", "unsub">>
  <2>1. Tail(rs) = <<"unsub">> /\ Len(rs) = 2 /\ Head(rs) = "disconnect"
    BY <1>2, Tuples
  <2>2. k = "remove" /\ p \in Publishers
    BY <2>1, <1>2, Tuples DEF Scripted
  <2>3. Scripted(k, p, Tail(rs)) /\ Tail(rs) # <<>>
    BY <2>1, <2>2, Tuples DEF Scripted
  <2>4. QED
    BY <1>2, <2>1, <2>3
<1>3. CASE rs = <<"unsubAll", "publish">>
  <2>1. Tail(rs) = <<"publish">> /\ Len(rs) = 2 /\ Head(rs) = "unsubAll"
    BY <1>3, Tuples
  <2>2. k = "leave" /\ p = Nobody
    BY <2>1, Tuples DEF Scripted
  <2>3. Scripted(k, p, Tail(rs)) /\ Tail(rs) # <<>>
    BY <2>1, <2>2, Tuples DEF Scripted
  <2>4. QED
    BY <1>3, <2>1, <2>3
<1>4. CASE rs \in {<<"connect">>, <<"unsub">>, <<"disconnect">>, <<"publish">>}
  <2>1. Len(rs) = 1
    BY <1>4, Tuples
  <2>2. QED
    BY <2>1, Tuples
<1>5. QED
  BY <1>1, <1>2, <1>3, <1>4 DEF Scripted

\* A caller that goes on or gives up: what is left of its operation is typed.
LEMMA TypeStep ==
    ASSUME TypeInv, NEW t \in Callers, Working(t), Proceed(t) \/ GiveUp(t)
    PROVE  /\ task' \in [Callers -> Tasks \cup {Nobody}]
           /\ todo' \in [Callers -> Seq(Ops \cup {"publish"})]
           /\ wait' \in [Callers -> {"idle", "send"} \cup Sides]
           /\ \A u \in Callers : wait'[u] # "idle" => task'[u] # Nobody /\ todo'[u] # <<>>
           /\ joined' \subseteq Topics /\ members' \in [Topics -> SUBSET Peers]
           /\ asked' \subseteq Joinable /\ keys' \subseteq Peers
           /\ Scripts'
<1> USE DEF TypeInv
<1>1. /\ Script(t) /\ task[t] \in Tasks /\ todo[t] \in Seq(Ops \cup {"publish"})
      /\ todo[t] # <<>>
  BY DEF Scripts, TypeOK, Working
<1>2. Tail(todo[t]) \in Seq(Ops \cup {"publish"}) /\ <<>> \in Seq(Ops \cup {"publish"})
  BY <1>1, TailFacts
<1>3. /\ todo' = [todo EXCEPT ![t] = Tail(todo[t])] \/ todo' = [todo EXCEPT ![t] = <<>>]
      /\ \/ /\ wait' = [wait EXCEPT ![t] = "send"] /\ task' = task
            /\ todo' = [todo EXCEPT ![t] = Tail(todo[t])] /\ Len(todo[t]) > 1
         \/ wait' = [wait EXCEPT ![t] = "idle"] /\ task' = [task EXCEPT ![t] = Nobody]
  BY DEF Proceed, GiveUp, Idle
<1>4. /\ task' \in [Callers -> Tasks \cup {Nobody}]
      /\ todo' \in [Callers -> Seq(Ops \cup {"publish"})]
      /\ wait' \in [Callers -> {"idle", "send"} \cup Sides]
  <2>1. task' \in [Callers -> Tasks \cup {Nobody}]
    BY <1>3 DEF TypeOK
  <2>2. todo' \in [Callers -> Seq(Ops \cup {"publish"})]
    BY <1>2, <1>3 DEF TypeOK
  <2>3. wait' \in [Callers -> {"idle", "send"} \cup Sides]
    BY <1>3 DEF TypeOK
  <2>4. QED
    BY <2>1, <2>2, <2>3
<1>5. ASSUME NEW u \in Callers, Working(u)'
      PROVE  /\ wait'[u] # "idle" /\ task'[u] # Nobody /\ todo'[u] # <<>>
             /\ Script(u)' /\ (wait'[u] \in Sides => Request(u)' # "publish")
  <2>1. CASE u = t
    <3>1. /\ wait'[t] = "send" /\ task'[t] = task[t] /\ todo'[t] = Tail(todo[t])
          /\ Len(todo[t]) > 1
      BY <1>3, <1>5, <2>1 DEF TypeOK, Working
    <3>2. Scripted(task[t].kind, task[t].p, Tail(todo[t])) /\ Tail(todo[t]) # <<>>
      BY <1>1, <3>1, ScriptTail DEF Script
    <3>3. QED
      BY <1>1, <2>1, <3>1, <3>2, TransportAssumption DEF Script, Sides
  <2>2. CASE u # t
    <3>1. wait'[u] = wait[u] /\ task'[u] = task[u] /\ todo'[u] = todo[u]
      BY <1>3, <2>2 DEF TypeOK
    <3>2. QED
      BY <1>5, <3>1 DEF Scripts, Script, Working, Request, TypeOK
  <2>3. QED
    BY <2>1, <2>2
<1>6. Scripts' /\ \A u \in Callers : wait'[u] # "idle" => task'[u] # Nobody /\ todo'[u] # <<>>
  BY <1>5 DEF Scripts, Working
<1>7. /\ joined' \subseteq Topics /\ members' \in [Topics -> SUBSET Peers]
      /\ asked' \subseteq Joinable /\ keys' \subseteq Peers
  <2>1. CASE UNCHANGED <<store, keys>>
    BY <2>1 DEF store, TypeOK
  <2>2. CASE Finish(t)
    <3> DEFINE g == task[t].g
               p == task[t].p
    <3>1. g \in Topics
      BY <1>1 DEF Tasks
    <3>2. CASE task[t].kind = "remove"
      <4>1. /\ members' = [members EXCEPT ![g] = @ \ {p}] /\ asked' = asked \ {<<g, p>>}
            /\ keys' = keys \ {p} /\ joined' = joined
        BY <2>2, <3>2 DEF Finish
      <4>2. QED
        BY <3>1, <4>1 DEF TypeOK
    <3>3. CASE task[t].kind = "leave"
      <4>1. /\ members' = [members EXCEPT ![g] = {}] /\ asked' = {x \in asked : x[1] # g}
            /\ joined' = joined \ {g} /\ keys' = keys
        BY <2>2, <3>3 DEF Finish
      <4>2. QED
        BY <3>1, <4>1 DEF TypeOK
    <3>4. CASE task[t].kind \notin {"remove", "leave"}
      BY <2>2, <3>4 DEF Finish, TypeOK, store
    <3>5. QED
      BY <3>2, <3>3, <3>4
  <2>3. QED
    BY <2>1, <2>2 DEF Proceed, GiveUp
<1>8. QED
  BY <1>4, <1>6, <1>7

LEMMA TypeSendPublish == ASSUME TypeInv, NEW t \in Callers, SendPublish(t) PROVE TypeInv'
<1>1. Working(t) /\ (Proceed(t) \/ GiveUp(t))
  BY DEF SendPublish, Working
<1>2. TypeOK' /\ Scripts'
  BY <1>1, TypeStep DEF TypeInv, TypeOK, SendPublish, threads
<1>3. AllAddressed'
  BY DEF TypeInv, AllAddressed, Addressed, SendPublish, threads
<1>4. QED
  BY <1>2, <1>3 DEF TypeInv

LEMMA TypeAnswer ==
    ASSUME TypeInv, NEW s \in Sides, NEW t \in Callers, Answer(s, t) PROVE TypeInv'
<1>1. wait[t] = s /\ Working(t) /\ reply' = [reply EXCEPT ![s] = Nobody]
  BY DEF Answer, Working, Sides
<1>2. reply' \in [Sides -> Replies \cup {Nobody}]
  BY <1>1 DEF TypeInv, TypeOK
<1>3. AllAddressed'
  BY DEF TypeInv, AllAddressed, Addressed, Answer
<1>4. CASE Proceed(t) \/ GiveUp(t)
  <2>1. TypeOK' /\ Scripts'
    BY <1>1, <1>2, <1>4, TypeStep DEF TypeInv, TypeOK, Answer
  <2>2. QED
    BY <2>1, <1>3 DEF TypeInv
<1>5. CASE wait' = [wait EXCEPT ![t] = "data"] /\ UNCHANGED <<task, todo, store, keys>>
  <2>1. \A u \in Callers : wait'[u] = IF u = t THEN "data" ELSE wait[u]
    BY <1>5 DEF TypeInv, TypeOK
  <2>2. wait' \in [Callers -> {"idle", "send"} \cup Sides]
    BY <1>5 DEF TypeInv, TypeOK, Sides
  <2>3. \A u \in Callers : wait'[u] # "idle" => task'[u] # Nobody /\ todo'[u] # <<>>
    BY <1>1, <1>5, <2>1 DEF TypeInv, TypeOK, Working
  <2>4. TypeOK'
    BY <1>2, <1>5, <2>2, <2>3 DEF TypeInv, TypeOK, Answer, store
  <2>5. Scripts'
    BY <1>1, <1>5, <2>1 DEF TypeInv, Scripts, Script, Working, Request, Sides
  <2>6. QED
    BY <1>3, <2>4, <2>5 DEF TypeInv
<1>6. QED
  BY <1>4, <1>5 DEF Answer, Sides

\* A listener takes the first request and replies.
LEMMA TypeServe ==
    ASSUME TypeInv, NEW s \in Sides, NEW m, m = Head(queue[s]), queue[s] # <<>>,
           NEW err \in BOOLEAN, Serve(s, m, err),
           refs' \in [Topics -> Nat], stateConn' \subseteq Peers,
           dataConn' \subseteq Publishers, dataSubs' \subseteq Topics \X Publishers,
           keys' \subseteq Peers
    PROVE  TypeInv'
<1>1. queue[s] \in Seq(Requests)
  BY DEF TypeInv, TypeOK
<1>2. m \in Requests /\ Tail(queue[s]) \in Seq(Requests)
  BY <1>1, TailFacts
<1>3. queue' = [queue EXCEPT ![s] = Tail(queue[s])] /\ queue' \in [Sides -> Seq(Requests)]
  BY <1>2 DEF Serve, TypeInv, TypeOK
<1>4. reply' \in [Sides -> Replies \cup {Nobody}]
  <2>1. [t |-> m.t, n |-> m.n, err |-> err] \in Replies
    BY <1>2 DEF Requests, Replies
  <2>2. QED
    BY <2>1 DEF Serve, TypeInv, TypeOK
<1>5. TypeOK'
  BY <1>3, <1>4 DEF TypeInv, TypeOK, Serve, calls, store
<1>6. Scripts'
  BY DEF TypeInv, Scripts, Script, Working, Request, Serve, calls
<1>7. AllAddressed'
  <2>1. ASSUME NEW r \in Sides, NEW i \in 1..Len(queue'[r]) PROVE Addressed(queue'[r][i])
    <3>1. CASE r = s
      <4>1. queue'[r] = Tail(queue[s])
        BY <1>3, <3>1 DEF TypeInv, TypeOK
      <4>2. i + 1 \in 1..Len(queue[s]) /\ queue'[r][i] = queue[s][i + 1]
        BY <1>1, <2>1, <4>1, TailFacts
      <4>3. QED
        BY <4>2 DEF TypeInv, AllAddressed
    <3>2. CASE r # s
      BY <1>3, <2>1, <3>2 DEF TypeInv, TypeOK, AllAddressed
    <3>3. QED
      BY <3>1, <3>2
  <2>2. QED
    BY <2>1 DEF TypeInv, AllAddressed, Addressed, Serve
<1>8. QED
  BY <1>5, <1>6, <1>7 DEF TypeInv

LEMMA TypeListen == ASSUME TypeInv, NEW s \in Sides, Listen(s) PROVE TypeInv'
<1> DEFINE m == Head(queue[s])
<1>1. /\ queue[s] # <<>> /\ queue[s] \in Seq(Requests) /\ Addressed(queue[s][1])
      /\ m \in Requests /\ m = queue[s][1]
  <2>1. queue[s] # <<>> /\ queue[s] \in Seq(Requests)
    BY DEF TypeInv, TypeOK, Listen
  <2>2. m \in Requests /\ m = queue[s][1] /\ 1 \in 1..Len(queue[s])
    BY <2>1, TailFacts
  <2>3. QED
    BY <2>1, <2>2 DEF TypeInv, AllAddressed
<1>2. Addressed(m)
  BY <1>1
<1>3. /\ refs \in [Topics -> Nat] /\ stateConn \subseteq Peers /\ dataConn \subseteq Publishers
      /\ dataSubs \subseteq Topics \X Publishers /\ keys \subseteq Peers
  BY DEF TypeInv, TypeOK
<1>4. m.g \in Topics
  BY <1>1 DEF Requests
<1> HIDE DEF m
<1> DEFINE Typed == /\ refs' \in [Topics -> Nat] /\ stateConn' \subseteq Peers
                    /\ dataConn' \subseteq Publishers /\ dataSubs' \subseteq Topics \X Publishers
                    /\ keys' \subseteq Peers
<1>5. ASSUME NEW err \in BOOLEAN, Serve(s, m, err), Typed PROVE TypeInv'
  BY <1>1, <1>5, TypeServe DEF m
<1> HIDE DEF Typed
<1>6. CASE s = "state" /\ StateHandle
  <2>1. \/ StateAuth(m) \/ StateConnect(m) \/ StateDisconnect(m) \/ StateUnsub(m)
        \/ StateUnsubAll(m)
    BY <1>6 DEF StateHandle, m
  <2>2. CASE StateAuth(m)
    <3>1. Typed
      BY <1>2, <1>3, <2>2 DEF StateAuth, Addressed, Typed
    <3>2. QED
      BY <1>5, <1>6, <2>2, <3>1 DEF StateAuth
  <2>3. CASE StateConnect(m)
    <3>1. Typed
      BY <1>2, <1>3, <1>4, <2>3 DEF StateConnect, Addressed, Typed
    <3>2. QED
      BY <1>5, <1>6, <2>3, <3>1 DEF StateConnect
  <2>4. CASE StateDisconnect(m)
    <3>1. Typed
      BY <1>3, <2>4 DEF StateDisconnect, Typed
    <3>2. (m.p \notin stateConn) \in BOOLEAN
      OBVIOUS
    <3>3. QED
      BY <1>5, <1>6, <2>4, <3>1, <3>2 DEF StateDisconnect
  <2>5. CASE StateUnsub(m)
    <3>1. Typed
      BY <1>3, <2>5 DEF StateUnsub, sockets, Typed
    <3>2. QED
      BY <1>5, <1>6, <2>5, <3>1 DEF StateUnsub
  <2>6. CASE StateUnsubAll(m)
    <3>1. refs' \in [Topics -> Nat]
      BY <1>3, <1>4, <2>6 DEF StateUnsubAll, Unsubscribe
    <3>2. Typed
      BY <1>3, <2>6, <3>1 DEF StateUnsubAll, Disconnected, Typed
    <3>3. (~(members[m.g] \subseteq stateConn)) \in BOOLEAN
      OBVIOUS
    <3>4. QED
      BY <1>5, <1>6, <2>6, <3>2, <3>3 DEF StateUnsubAll
  <2>7. QED
    BY <2>1, <2>2, <2>3, <2>4, <2>5, <2>6
<1>7. CASE s = "data" /\ DataHandle
  <2>1. DataAuth(m) \/ DataConnect(m) \/ DataDisconnect(m) \/ DataUnsub(m) \/ DataUnsubAll(m)
    BY <1>7 DEF DataHandle, m
  <2>2. CASE DataAuth(m)
    <3>1. Typed
      BY <1>3, <2>2 DEF DataAuth, sockets, Typed
    <3>2. QED
      BY <1>5, <1>7, <2>2, <3>1 DEF DataAuth
  <2>3. CASE DataConnect(m)
    <3>1. Typed
      BY <1>3, <1>4, <2>3 DEF DataConnect, Typed
    <3>2. QED
      BY <1>5, <1>7, <2>3, <3>1 DEF DataConnect
  <2>4. CASE DataDisconnect(m)
    <3>1. Typed
      BY <1>3, <2>4 DEF DataDisconnect, sockets, Typed
    <3>2. QED
      BY <1>5, <1>7, <2>4, <3>1 DEF DataDisconnect
  <2>5. CASE DataUnsub(m)
    <3>1. Typed
      BY <1>3, <2>5 DEF DataUnsub, Typed
    <3>2. (m.p \notin dataConn) \in BOOLEAN
      OBVIOUS
    <3>3. QED
      BY <1>5, <1>7, <2>5, <3>1, <3>2 DEF DataUnsub
  <2>6. CASE DataUnsubAll(m)
    <3>1. Typed
      BY <1>3, <2>6 DEF DataUnsubAll, Disconnected, Typed
    <3>2. (~(members[m.g] \cap Publishers \subseteq dataConn)) \in BOOLEAN
      OBVIOUS
    <3>3. QED
      BY <1>5, <1>7, <2>6, <3>1, <3>2 DEF DataUnsubAll
  <2>7. QED
    BY <2>1, <2>2, <2>3, <2>4, <2>5, <2>6
<1>8. QED
  BY <1>6, <1>7 DEF Listen

\* A step that leaves the callers, the threads and the sockets alone.
LEMMA TypeStore ==
    ASSUME TypeInv, UNCHANGED <<calls, threads, asked, sockets>>,
           open' \in [{"internal", "external"} -> BOOLEAN],
           joined' \subseteq Topics, members' \in [Topics -> SUBSET Peers]
    PROVE  TypeInv'
<1>1. TypeOK'
  BY DEF TypeInv, TypeOK, calls, threads, sockets
<1>2. Scripts' /\ AllAddressed'
  BY DEF TypeInv, Scripts, Script, Working, Request, AllAddressed, Addressed, calls, threads
<1>3. QED
  BY <1>1, <1>2 DEF TypeInv

LEMMA TypeNext == TypeInv /\ [Next]_vars => TypeInv'
<1> SUFFICES ASSUME TypeInv, [Next]_vars PROVE TypeInv'
  OBVIOUS
<1>1. /\ open \in [{"internal", "external"} -> BOOLEAN] /\ joined \subseteq Topics
      /\ members \in [Topics -> SUBSET Peers] /\ asked \subseteq Joinable
  BY DEF TypeInv, TypeOK
<1>2. ASSUME NEW g \in Topics, Enter(g) PROVE TypeInv'
  BY <1>1, <1>2, TypeStore DEF Enter, store
<1>3. ASSUME NEW t \in Callers, NEW g \in Topics, Leave(t, g) PROVE TypeInv'
  <2>1. <<"unsubAll", "publish">> \in Seq(Ops \cup {"publish"}) /\ "leave" \in Kinds
    BY DEF Ops, Kinds
  <2>2. Scripted("leave", Nobody, <<"unsubAll", "publish">>)
    BY DEF Scripted
  <2>3. QED
    BY <1>1, <1>3, <2>1, <2>2, TypeStart DEF Leave
<1>4. ASSUME NEW t \in Callers, NEW g \in Topics, Send(t, g) PROVE TypeInv'
  <2>1. <<"publish">> \in Seq(Ops \cup {"publish"}) /\ "send" \in Kinds
    BY DEF Ops, Kinds
  <2>2. Scripted("send", Nobody, <<"publish">>)
    BY DEF Scripted
  <2>3. QED
    BY <1>1, <1>4, <2>1, <2>2, TypeStart DEF Send
<1>5. ASSUME CloseConnector \/ ClosePublisher PROVE TypeInv'
  BY <1>1, <1>5, TypeStore DEF CloseConnector, ClosePublisher, store
<1>6. ASSUME NEW g \in Topics, NEW p \in Peers, Learn(g, p) PROVE TypeInv'
  <2>1. members' \in [Topics -> SUBSET Peers]
    BY <1>1, <1>6 DEF Learn
  <2>2. QED
    BY <1>1, <1>6, <2>1, TypeStore DEF Learn, store
<1>7. ASSUME NEW t \in Callers, NEW g \in Topics, NEW p \in Peers, Add(t, g, p) PROVE TypeInv'
  <2>1. <<"auth", "connect">> \in Seq(Ops \cup {"publish"}) /\ "add" \in Kinds
    BY DEF Ops, Kinds
  <2>2. Scripted("add", p, <<"auth", "connect">>) /\ asked' \subseteq Joinable
    BY <1>1, <1>7 DEF Scripted, Add
  <2>3. QED
    BY <1>7, <2>1, <2>2, TypeStart DEF Add
<1>8. ASSUME NEW t \in Callers, NEW g \in Topics, NEW p \in Peers, Remove(t, g, p)
      PROVE  TypeInv'
  <2> DEFINE rs == IF p \in Publishers THEN <<"disconnect", "unsub">> ELSE <<"disconnect">>
  <2>1. rs \in Seq(Ops \cup {"publish"}) /\ "remove" \in Kinds
    <3>1. /\ <<"disconnect", "unsub">> \in Seq(Ops \cup {"publish"})
          /\ <<"disconnect">> \in Seq(Ops \cup {"publish"})
      BY DEF Ops
    <3>2. QED
      BY <3>1 DEF Kinds
  <2>2. Scripted("remove", p, rs)
    BY DEF Scripted
  <2>3. Start(t, "remove", g, p, rs) /\ asked' = asked
    BY <1>8 DEF Remove
  <2> HIDE DEF rs
  <2>4. QED
    BY <1>1, <2>1, <2>2, <2>3, TypeStart
<1>9. CASE UNCHANGED vars
  BY <1>1, <1>9, TypeStore DEF vars, store
<1>10. CASE Next
  BY <1>10, <1>2, <1>3, <1>4, <1>5, <1>6, <1>7, <1>8, TypeTake, TypePublish, TypeSendPublish,
     TypeAnswer, TypeListen DEF Next, UserStep, PeerStep, CallerStep
<1>11. QED
  BY <1>9, <1>10

\* The state of every behaviour has its type (TypeOK): a socket is connected to
\* peers only, no count of subscriptions is below zero, and a caller at work
\* has a request to make.
THEOREM TypeCorrect == Spec => []TypeOK
<1>1. TypeInv => TypeOK
  BY DEF TypeInv
<1>2. QED
  BY <1>1, TypeInit, TypeNext, PTL DEF Spec
-----------------------------------------------------------------------------
(***************************************************************************)
(* Requests and replies.  If no peer is in two groups no listener ever     *)
(* replies with an error, so no caller gives up while a request of its own *)
(* is still with a listener.  That no listener does rests on the sockets:  *)
(* until an operation has reached a side, they have what it takes away.    *)
(***************************************************************************)
OneGroupEach == \A g, h \in Topics, p \in Peers :
                    <<g, p>> \in Joinable /\ <<h, p>> \in Joinable => g = h

\* The listener of side s is done with the current request of t.
Handled(s, t) == /\ wait[t] \in Sides
                 /\ \/ reply[s] # Nobody /\ reply[s].t = t
                    \/ s = "state" /\ wait[t] = "data"

\* m is the current request of its caller.
Current(m) == /\ wait[m.t] \in Sides /\ m.n = sent[m.t]
              /\ m.op = Request(m.t)
              /\ m.g = task[m.t].g /\ m.p = task[m.t].p

\* A request is with the connector, or with a listener that has not handled it.
ConnFits ==
    conn # Nobody => /\ Current(conn) /\ wait[conn.t] = "state"
                     /\ \A s \in Sides : /\ ~Handled(s, conn.t)
                                         /\ \A i \in 1..Len(queue[s]) : queue[s][i].t # conn.t

QueueFits == \A s \in Sides : \A i \in 1..Len(queue[s]) :
                /\ Current(queue[s][i]) /\ ~Handled(s, queue[s][i].t)
                /\ \A j \in 1..Len(queue[s]) : i # j => queue[s][i].t # queue[s][j].t

\* No listener replies with an error.
ReplyFits == \A s \in Sides : reply[s] # Nobody =>
                /\ ~reply[s].err
                /\ wait[reply[s].t] \in Sides /\ reply[s].n = sent[reply[s].t]
                /\ s = "state" => wait[reply[s].t] = "state"

Flow == ConnFits /\ QueueFits /\ ReplyFits

\* A call of Leave is alone in its group, and no two calls change one member.
Exclusive ==
    \A t, u \in Callers :
        Working(t) /\ Working(u) /\ t # u /\ task[t].g = task[u].g =>
            \/ task[t].kind = "send" \/ task[u].kind = "send"
            \/ /\ task[t].kind # "leave" /\ task[u].kind # "leave"
               /\ task[t].p # task[u].p

\* Who is added or removed has subscribed, and who is removed is a member.
Targets == \A t \in Callers : Working(t) =>
    /\ task[t].kind \in {"add", "remove"} => <<task[t].g, task[t].p>> \in asked
    /\ task[t].kind = "remove" => task[t].p \in members[task[t].g]

MembersAsked == \A g \in Topics : \A p \in members[g] : <<g, p>> \in asked

Order == Exclusive /\ Targets /\ MembersAsked

\* The connector is closed and has left no request about g.
Broken(g) == /\ ~open["internal"]
             /\ \A s \in Sides : \A i \in 1..Len(queue[s]) : queue[s][i].g # g

\* Caller t has not yet connected p for g on side s, or has disconnected it.
Off(s, t, g, p) ==
    /\ Working(t) /\ task[t].g = g
    /\ \/ /\ task[t].kind = "add" /\ task[t].p = p
          /\ ~(Request(t) = "connect" /\ Handled(s, t))
       \/ /\ task[t].kind = "remove" /\ task[t].p = p
          /\ \/ s = "state" /\ (Request(t) = "unsub" \/ Handled(s, t))
             \/ s = "data" /\ Request(t) = "unsub" /\ Handled(s, t)
       \/ /\ task[t].kind = "leave"
          /\ Request(t) = "publish" \/ Handled(s, t)

On(s, g, p) == \/ s = "state" /\ p \in stateConn
               \/ s = "data" /\ (p \in Publishers => p \in dataConn /\ <<g, p>> \in dataSubs)

SocketsFit ==
    \A g \in Topics, p \in Peers : <<g, p>> \in asked =>
        \A s \in Sides : On(s, g, p) \/ Broken(g) \/ \E t \in Callers : Off(s, t, g, p)

\* Caller t has still to store the keys of p.
Unkeyed(t, g, p) == /\ Working(t) /\ task[t].kind = "add" /\ task[t].g = g /\ task[t].p = p
                    /\ Request(t) = "auth" /\ ~Handled("state", t)

KeysFit == \A g \in Topics, p \in Peers : <<g, p>> \in asked =>
               p \in keys \/ \E t \in Callers : Unkeyed(t, g, p)

\* The publisher is closed last.
ClosedInOrder == open["internal"] => open["external"]

IInv == TypeInv /\ Flow /\ Order /\ SocketsFit /\ KeysFit /\ ClosedInOrder

LEMMA InvInit == Init => IInv
<1> SUFFICES ASSUME Init PROVE IInv
  OBVIOUS
<1>1. TypeInv
  BY TypeInit
<1>2. Flow
  BY DEF Init, Flow, ConnFits, QueueFits, ReplyFits, Sides
<1>3. Order
  BY DEF Init, Order, Exclusive, Targets, MembersAsked, Working
<1>4. SocketsFit /\ KeysFit /\ ClosedInOrder
  BY DEF Init, SocketsFit, KeysFit, ClosedInOrder
<1>5. QED
  BY <1>1, <1>2, <1>3, <1>4 DEF IInv

\* Nothing of caller t is under way.
Clear(t) == /\ conn # Nobody => conn.t # t
            /\ \A s \in Sides : /\ \A i \in 1..Len(queue[s]) : queue[s][i].t # t
                                /\ reply[s] # Nobody => reply[s].t # t

LEMMA QueueTyped == ASSUME TypeInv, NEW s \in Sides, NEW i \in 1..Len(queue[s])
                    PROVE  queue[s][i] \in Requests
<1>1. queue[s] \in Seq(Requests)
  BY DEF TypeInv, TypeOK
<1>2. QED
  BY <1>1

\* Only callers at a request have something under way.
LEMMA Others ==
    ASSUME TypeInv, Flow, NEW t \in Callers, wait[t] \notin Sides
    PROVE  Clear(t) /\ \A s \in Sides : ~Handled(s, t)
BY DEF Flow, ConnFits, QueueFits, ReplyFits, Current, Clear, Handled

\* A step of caller t that leaves nothing of its own under way.
StepOf(t) == \A u \in Callers : u # t =>
    wait'[u] = wait[u] /\ task'[u] = task[u] /\ todo'[u] = todo[u] /\ sent'[u] = sent[u]

LEMMA FlowStep ==
    ASSUME TypeInv, TypeInv', Flow, NEW t \in Callers, StepOf(t),
           conn' = conn, queue' = queue,
           \A s \in Sides : \/ reply'[s] = reply[s]
                            \/ reply'[s] = Nobody /\ reply[s] # Nobody /\ reply[s].t = t,
           conn # Nobody => conn.t # t,
           \A s \in Sides : /\ \A i \in 1..Len(queue[s]) : queue[s][i].t # t
                            /\ reply'[s] # Nobody => reply'[s].t # t
    PROVE  /\ Flow'
           /\ \A s \in Sides, u \in Callers : u # t => (Handled(s, u)' <=> Handled(s, u))
           /\ \A s \in Sides, u \in Callers, g \in Topics, p \in Peers :
                  u # t => /\ Off(s, u, g, p)' <=> Off(s, u, g, p)
                           /\ Unkeyed(u, g, p)' <=> Unkeyed(u, g, p)
<1>1. ASSUME NEW u \in Callers, u # t
      PROVE  /\ wait'[u] = wait[u] /\ task'[u] = task[u] /\ todo'[u] = todo[u]
             /\ sent'[u] = sent[u]
  BY <1>1 DEF StepOf
<1>2. ASSUME NEW s \in Sides, NEW u \in Callers, u # t
      PROVE  Handled(s, u)' <=> Handled(s, u)
  BY <1>1, <1>2 DEF Handled
<1>3. ASSUME NEW m \in Requests, m.t # t, Current(m) PROVE Current(m)'
  <2>1. m.t \in Callers
    BY DEF Requests
  <2>2. QED
    BY <1>1, <1>3, <2>1 DEF Current, Request
<1>4. ConnFits'
  <2> SUFFICES ASSUME conn # Nobody
               PROVE  /\ Current(conn)' /\ wait'[conn.t] = "state"
                      /\ \A s \in Sides : /\ ~Handled(s, conn.t)'
                                          /\ \A i \in 1..Len(queue[s]) : queue[s][i].t # conn.t
    BY DEF ConnFits, Current, Handled, Request
  <2>1. conn \in Requests /\ conn.t \in Callers /\ conn.t # t
    BY DEF TypeInv, TypeOK, Requests
  <2>2. QED
    BY <1>1, <1>2, <1>3, <2>1 DEF Flow, ConnFits
<1>5. QueueFits'
  <2> SUFFICES ASSUME NEW s \in Sides, NEW i \in 1..Len(queue[s])
               PROVE  /\ Current(queue[s][i])' /\ ~Handled(s, queue[s][i].t)'
                      /\ \A j \in 1..Len(queue[s]) : i # j => queue[s][i].t # queue[s][j].t
    BY DEF QueueFits, Current, Handled, Request
  <2>1. queue[s][i] \in Requests
    BY QueueTyped
  <2>2. queue[s][i].t \in Callers /\ queue[s][i].t # t
    BY <2>1 DEF Requests
  <2>3. QED
    BY <1>2, <1>3, <2>1, <2>2 DEF Flow, QueueFits
<1>6. ReplyFits'
  <2> SUFFICES ASSUME NEW s \in Sides, reply'[s] # Nobody
               PROVE  /\ ~reply'[s].err
                      /\ wait'[reply'[s].t] \in Sides /\ reply'[s].n = sent'[reply'[s].t]
                      /\ s = "state" => wait'[reply'[s].t] = "state"
    BY DEF ReplyFits
  <2>1. reply'[s] = reply[s] /\ reply[s] \in Replies /\ reply[s].t \in Callers /\ reply[s].t # t
    BY DEF TypeInv, TypeOK, Replies
  <2>2. QED
    BY <1>1, <2>1 DEF Flow, ReplyFits
<1>7. ASSUME NEW s \in Sides, NEW u \in Callers, NEW g \in Topics, NEW p \in Peers, u # t
      PROVE  /\ Off(s, u, g, p)' <=> Off(s, u, g, p)
             /\ Unkeyed(u, g, p)' <=> Unkeyed(u, g, p)
  <2>1. (Handled(s, u)' <=> Handled(s, u)) /\ (Handled("state", u)' <=> Handled("state", u))
    BY <1>2, <1>7 DEF Sides
  <2>2. (Request(u)' = Request(u)) /\ (Working(u)' <=> Working(u)) /\ task'[u] = task[u]
    BY <1>1, <1>7 DEF Request, Working
  <2>3. QED
    BY <2>1, <2>2 DEF Off, Unkeyed
<1>8. QED
  BY <1>2, <1>4, <1>5, <1>6, <1>7 DEF Flow

\* A step that leaves callers, threads and subscriptions alone.
LEMMA InvStore ==
    ASSUME IInv, TypeInv', UNCHANGED <<calls, threads, asked, sockets>>,
           open["internal"]' => open["internal"], open["internal"]' => open["external"]',
           \A g \in Topics : /\ \A p \in members'[g] : <<g, p>> \in asked
                             /\ members[g] \subseteq members'[g]
    PROVE  IInv'
<1>1. Flow'
  BY DEF IInv, Flow, ConnFits, QueueFits, ReplyFits, Current, Handled, Request, calls, threads
<1>2. Order'
  <2>1. Exclusive' /\ MembersAsked'
    BY DEF IInv, Order, Exclusive, MembersAsked, Working, calls
  <2>2. ASSUME NEW t \in Callers, Working(t)'
        PROVE  /\ task'[t].kind \in {"add", "remove"} => <<task'[t].g, task'[t].p>> \in asked'
               /\ task'[t].kind = "remove" => task'[t].p \in members'[task'[t].g]
    <3>1. Working(t) /\ task' = task /\ asked' = asked /\ task[t].g \in Topics
      BY <2>2 DEF Working, calls, IInv, TypeInv, TypeOK, Tasks
    <3>2. QED
      BY <3>1 DEF IInv, Order, Targets
  <2>3. QED
    BY <2>1, <2>2 DEF Order, Targets
<1>3. SocketsFit'
  <2>1. ASSUME NEW s \in Sides, NEW g \in Topics, NEW p \in Peers, On(s, g, p) \/ Broken(g)
        PROVE  On(s, g, p)' \/ Broken(g)'
    BY <2>1 DEF On, Broken, threads, sockets
  <2>2. ASSUME NEW s \in Sides, NEW t \in Callers, NEW g \in Topics, NEW p \in Peers,
               Off(s, t, g, p)
        PROVE  Off(s, t, g, p)'
    BY <2>2 DEF Off, Handled, Request, Working, calls, threads
  <2>3. QED
    BY <2>1, <2>2 DEF IInv, SocketsFit
<1>4. KeysFit'
  BY DEF IInv, KeysFit, Unkeyed, Handled, Request, Working, calls, threads, sockets
<1>5. QED
  BY <1>1, <1>2, <1>3, <1>4 DEF IInv, ClosedInOrder

\* A caller starts an operation that no other at work gets in the way of.
LEMMA InvStart ==
    ASSUME IInv, TypeInv', NEW t \in Callers, NEW kind \in Kinds, NEW g \in Topics,
           NEW p \in Peers \cup {Nobody}, NEW rs \in Seq(Ops \cup {"publish"}),
           Start(t, kind, g, p, rs),
           kind = "add" => /\ asked' = asked \cup {<<g, p>>}
                           /\ Head(rs) = "auth",
           kind # "add" => asked' = asked,
           kind = "remove" => p \in members[g],
           \A u \in Callers : kind # "send" /\ Working(u) /\ task[u].g = g =>
               \/ task[u].kind = "send"
               \/ kind # "leave" /\ task[u].kind # "leave" /\ task[u].p # p
    PROVE  IInv'
<1>1. /\ task' = [task EXCEPT ![t] = [kind |-> kind, g |-> g, p |-> p]]
      /\ todo' = [todo EXCEPT ![t] = rs]
      /\ wait' = [wait EXCEPT ![t] = "send"]
      /\ wait[t] = "idle" /\ sent' = sent
      /\ conn' = conn /\ queue' = queue /\ reply' = reply /\ open' = open /\ members' = members
      /\ stateConn' = stateConn /\ dataConn' = dataConn /\ dataSubs' = dataSubs /\ keys' = keys
  BY DEF Start, threads, sockets
<1>2. /\ StepOf(t) /\ ~Working(t) /\ wait'[t] = "send" /\ todo'[t] = rs
      /\ task'[t] = [kind |-> kind, g |-> g, p |-> p]
  BY <1>1 DEF IInv, TypeInv, TypeOK, StepOf, Working
<1>3. Clear(t)
  BY <1>1, Others DEF IInv, Sides
<1>4. /\ Flow'
      /\ \A s \in Sides, u \in Callers, h \in Topics, q \in Peers :
             u # t => /\ Off(s, u, h, q)' <=> Off(s, u, h, q)
                      /\ Unkeyed(u, h, q)' <=> Unkeyed(u, h, q)
  BY <1>1, <1>2, <1>3, FlowStep DEF IInv, Clear
<1>5. Order'
  <2>1. \A u \in Callers : u # t => task'[u] = task[u] /\ (Working(u)' <=> Working(u))
    BY <1>2 DEF StepOf, Working
  <2>2. Exclusive'
    BY <1>2, <2>1 DEF IInv, Order, Exclusive
  <2>3. Targets'
    <3> SUFFICES ASSUME NEW u \in Callers, Working(u)'
                 PROVE  /\ task'[u].kind \in {"add", "remove"} => <<task'[u].g, task'[u].p>> \in asked'
                        /\ task'[u].kind = "remove" => task'[u].p \in members'[task'[u].g]
      BY DEF Targets
    <3>1. asked \subseteq asked'
      OBVIOUS
    <3>2. CASE u # t
      BY <1>1, <2>1, <3>1, <3>2 DEF IInv, Order, Targets
    <3>3. CASE u = t
      BY <1>1, <1>2, <3>3 DEF IInv, Order, MembersAsked
    <3>4. QED
      BY <3>2, <3>3
  <2>4. MembersAsked'
    BY <1>1 DEF IInv, Order, MembersAsked
  <2>5. QED
    BY <2>2, <2>3, <2>4 DEF Order
<1>6. ASSUME kind = "add"
      PROVE  (\A s \in Sides : Off(s, t, g, p)') /\ Unkeyed(t, g, p)'
  <2>1. /\ Working(t)' /\ Request(t)' = "auth" /\ task'[t].kind = "add" /\ task'[t].g = g
        /\ task'[t].p = p /\ \A s \in Sides : ~Handled(s, t)'
    BY <1>2, <1>6 DEF Working, Request, Handled, Sides
  <2>2. QED
    BY <2>1 DEF Off, Unkeyed, Sides
<1>7. ASSUME NEW s \in Sides, NEW u \in Callers, NEW h \in Topics, NEW q \in Peers
      PROVE  /\ Off(s, u, h, q) => Off(s, u, h, q)'
             /\ Unkeyed(u, h, q) => Unkeyed(u, h, q)'
  <2>1. CASE u = t
    BY <1>2, <2>1 DEF Off, Unkeyed
  <2>2. CASE u # t
    BY <1>4, <2>2
  <2>3. QED
    BY <2>1, <2>2
<1>8. SocketsFit' /\ KeysFit'
  <2>1. ASSUME NEW h \in Topics, NEW q \in Peers, <<h, q>> \in asked'
        PROVE  /\ \A s \in Sides : \/ On(s, h, q)' \/ Broken(h)'
                                   \/ \E u \in Callers : Off(s, u, h, q)'
               /\ q \in keys' \/ \E u \in Callers : Unkeyed(u, h, q)'
    <3>1. CASE <<h, q>> \in asked
      <4>1. \A s \in Sides : (On(s, h, q) => On(s, h, q)') /\ (Broken(h) => Broken(h)')
        BY <1>1 DEF On, Broken
      <4>2. ASSUME NEW s \in Sides
            PROVE  \/ On(s, h, q)' \/ Broken(h)' \/ \E u \in Callers : Off(s, u, h, q)'
        BY <1>7, <3>1, <4>1 DEF IInv, SocketsFit
      <4>3. q \in keys' \/ \E u \in Callers : Unkeyed(u, h, q)'
        BY <1>1, <1>7, <3>1 DEF IInv, KeysFit, Sides
      <4>4. QED
        BY <4>2, <4>3
    <3>2. CASE <<h, q>> \notin asked
      BY <1>6, <2>1, <3>2
    <3>3. QED
      BY <3>1, <3>2
  <2>2. QED
    BY <2>1 DEF SocketsFit, KeysFit
<1>9. QED
  BY <1>1, <1>4, <1>5, <1>8 DEF IInv, ClosedInOrder

\* A step that leaves operations and subscriptions alone.
LEMMA OrderKept ==
    ASSUME Order, UNCHANGED <<task, members, asked>>,
           \A t \in Callers : Working(t)' <=> Working(t)
    PROVE  Order'
BY DEF Order, Exclusive, Targets, MembersAsked

LEMMA InvTake == ASSUME IInv, TypeInv', NEW t \in Callers, Take(t) PROVE IInv'
<1>1. /\ wait[t] = "send" /\ conn = Nobody /\ wait' = [wait EXCEPT ![t] = "state"]
      /\ sent' = [sent EXCEPT ![t] = @ + 1]
      /\ conn' = [op |-> Request(t), g |-> task[t].g, p |-> task[t].p, t |-> t, n |-> sent[t] + 1]
      /\ task' = task /\ todo' = todo /\ queue' = queue /\ reply' = reply /\ open' = open
      /\ members' = members /\ asked' = asked
      /\ stateConn' = stateConn /\ dataConn' = dataConn /\ dataSubs' = dataSubs /\ keys' = keys
  BY DEF Take, Request, store, sockets
<1>2. Clear(t) /\ \A s \in Sides : ~Handled(s, t)
  BY <1>1, Others DEF IInv, Sides
<1>3. /\ wait'[t] = "state" /\ sent'[t] = sent[t] + 1
      /\ \A u \in Callers : u # t => wait'[u] = wait[u] /\ sent'[u] = sent[u]
  BY <1>1 DEF IInv, TypeInv, TypeOK
<1>4. ASSUME NEW u \in Callers
      PROVE  /\ \A s \in Sides : Handled(s, u)' <=> Handled(s, u)
             /\ Working(u)' <=> Working(u)
             /\ Request(u)' = Request(u)
  <2>1. CASE u = t
    BY <1>1, <1>2, <1>3, <2>1 DEF Handled, Working, Request, Clear
  <2>2. CASE u # t
    BY <1>1, <1>3, <2>2 DEF Handled, Working, Request
  <2>3. QED
    BY <2>1, <2>2
<1>5. ConnFits'
  <2> SUFFICES ASSUME NEW m, m = conn'
               PROVE  /\ Current(m)' /\ wait'[m.t] = "state"
                      /\ \A s \in Sides : /\ ~Handled(s, m.t)'
                                          /\ \A i \in 1..Len(queue'[s]) : queue'[s][i].t # m.t
    BY DEF ConnFits, Current, Handled, Request
  <2>1. /\ m.t = t /\ m.n = sent[t] + 1 /\ m.op = Request(t) /\ m.g = task[t].g
        /\ m.p = task[t].p
    BY <1>1
  <2>2. Current(m)' /\ wait'[m.t] = "state"
    BY <1>1, <1>3, <1>4, <2>1 DEF Current, Sides
  <2>3. QED
    BY <1>1, <1>2, <1>4, <2>1, <2>2 DEF Clear
<1>6. QueueFits'
  <2> SUFFICES ASSUME NEW s \in Sides, NEW i \in 1..Len(queue[s]), NEW m, m = queue[s][i]
               PROVE  /\ Current(m)' /\ ~Handled(s, m.t)'
                      /\ \A j \in 1..Len(queue[s]) : i # j => m.t # queue[s][j].t
    BY <1>1 DEF QueueFits, Current, Handled, Request
  <2>1. m.t \in Callers /\ m.t # t
    BY <1>2, QueueTyped DEF IInv, Clear, Requests
  <2>2. /\ Current(m) /\ ~Handled(s, m.t)
        /\ \A j \in 1..Len(queue[s]) : i # j => m.t # queue[s][j].t
    BY DEF IInv, Flow, QueueFits
  <2>3. Current(m)'
    BY <1>1, <1>3, <1>4, <2>1, <2>2 DEF Current
  <2>4. QED
    BY <1>4, <2>1, <2>2, <2>3
<1>7. ReplyFits'
  <2> SUFFICES ASSUME NEW s \in Sides, reply[s] # Nobody
               PROVE  /\ ~reply[s].err
                      /\ wait'[reply[s].t] \in Sides /\ reply[s].n = sent'[reply[s].t]
                      /\ s = "state" => wait'[reply[s].t] = "state"
    BY <1>1 DEF ReplyFits
  <2>1. reply[s].t \in Callers /\ reply[s].t # t
    BY <1>2 DEF IInv, TypeInv, TypeOK, Replies, Clear
  <2>2. QED
    BY <1>3, <2>1 DEF IInv, Flow, ReplyFits
<1>8. Order'
  BY <1>1, <1>4, OrderKept DEF IInv
<1>9. SocketsFit'
  <2>1. ASSUME NEW s \in Sides, NEW u \in Callers, NEW g \in Topics, NEW p \in Peers
        PROVE  Off(s, u, g, p) => Off(s, u, g, p)'
    BY <1>1, <1>4 DEF Off
  <2>2. ASSUME NEW s \in Sides, NEW g \in Topics, NEW p \in Peers
        PROVE  (On(s, g, p) => On(s, g, p)') /\ (Broken(g) => Broken(g)')
    BY <1>1 DEF On, Broken
  <2>3. QED
    BY <1>1, <2>1, <2>2 DEF IInv, SocketsFit
<1>10. KeysFit'
  <2>1. ASSUME NEW u \in Callers, NEW g \in Topics, NEW p \in Peers
        PROVE  Unkeyed(u, g, p) => Unkeyed(u, g, p)'
    BY <1>1, <1>4 DEF Unkeyed, Sides
  <2>2. QED
    BY <1>1, <2>1 DEF IInv, KeysFit
<1>11. QED
  BY <1>1, <1>5, <1>6, <1>7, <1>8, <1>9, <1>10 DEF IInv, Flow, ClosedInOrder

LEMMA InvPublish == ASSUME IInv, TypeInv', Publish PROVE IInv'
<1>1. /\ conn # Nobody /\ conn' = Nobody
      /\ queue' = IF open["internal"] THEN [s \in Sides |-> Append(queue[s], conn)] ELSE queue
      /\ task' = task /\ todo' = todo /\ wait' = wait /\ sent' = sent /\ reply' = reply
      /\ open' = open /\ members' = members /\ asked' = asked
      /\ stateConn' = stateConn /\ dataConn' = dataConn /\ dataSubs' = dataSubs /\ keys' = keys
  BY DEF Publish, calls, store, sockets
<1>2. conn \in Requests /\ conn.t \in Callers
  BY <1>1 DEF IInv, TypeInv, TypeOK, Requests
<1>3. \A s \in Sides, u \in Callers : /\ Handled(s, u)' <=> Handled(s, u)
                                      /\ Working(u)' <=> Working(u)
                                      /\ Request(u)' = Request(u)
  BY <1>1 DEF Handled, Working, Request
<1>4. ConnFits'
  BY <1>1 DEF ConnFits
<1>5. QueueFits'
  <2>1. CASE ~open["internal"]
    BY <1>1, <2>1 DEF IInv, Flow, QueueFits, Current, Handled, Request
  <2>2. CASE open["internal"]
    <3> SUFFICES ASSUME NEW s \in Sides, NEW i \in 1..Len(queue'[s]), NEW m, m = queue'[s][i]
                 PROVE  /\ Current(m)' /\ ~Handled(s, m.t)'
                        /\ \A j \in 1..Len(queue'[s]) : i # j => m.t # queue'[s][j].t
      BY DEF QueueFits, Current, Handled, Request
    <3>1. queue'[s] = Append(queue[s], conn) /\ queue[s] \in Seq(Requests)
      BY <1>1, <2>2 DEF IInv, TypeInv, TypeOK
    <3>2. /\ Len(queue'[s]) = Len(queue[s]) + 1 /\ Len(queue[s]) \in Nat
          /\ queue'[s][Len(queue[s]) + 1] = conn
          /\ \A j \in 1..Len(queue[s]) : queue'[s][j] = queue[s][j]
      BY <1>2, <3>1, AppendFacts
    <3>3. /\ Current(conn) /\ ~Handled(s, conn.t)
          /\ \A j \in 1..Len(queue[s]) : queue[s][j].t # conn.t
      BY <1>1 DEF IInv, Flow, ConnFits
    <3>4. Current(m) => Current(m)'
      BY <1>1 DEF Current, Request
    <3>5. CASE i = Len(queue[s]) + 1
      <4>1. m = conn
        BY <3>2, <3>5
      <4>2. Current(m)' /\ ~Handled(s, m.t)'
        BY <1>2, <1>3, <3>3, <3>4, <4>1
      <4>3. \A j \in 1..Len(queue'[s]) : i # j => j \in 1..Len(queue[s])
        BY <3>2, <3>5
      <4>4. QED
        BY <3>2, <3>3, <4>1, <4>2, <4>3
    <3>6. CASE i \in 1..Len(queue[s])
      <4>1. m.t \in Callers /\ m = queue[s][i]
        <5>1. m = queue[s][i]
          BY <3>2, <3>6
        <5>2. TypeInv
          BY DEF IInv
        <5>3. queue[s][i] \in Requests
          BY <3>6, <5>2, QueueTyped
        <5>4. QED
          BY <5>1, <5>3 DEF Requests
      <4>2. /\ Current(m) /\ ~Handled(s, m.t)
            /\ \A j \in 1..Len(queue[s]) : i # j => m.t # queue[s][j].t
        BY <3>6, <4>1 DEF IInv, Flow, QueueFits
      <4>3. \A j \in 1..Len(queue'[s]) : i # j => m.t # queue'[s][j].t
        <5>1. ASSUME NEW j \in 1..Len(queue'[s]), i # j PROVE m.t # queue'[s][j].t
          <6>1. CASE j = Len(queue[s]) + 1
            BY <3>2, <3>3, <3>6, <4>1, <6>1
          <6>2. CASE j \in 1..Len(queue[s])
            BY <3>2, <4>2, <5>1, <6>2
          <6>3. QED
            BY <3>2, <6>1, <6>2
        <5>2. QED
          BY <5>1
      <4>4. QED
        BY <1>3, <3>4, <4>1, <4>2, <4>3
    <3>7. QED
      BY <3>2, <3>5, <3>6
  <2>3. QED
    BY <2>1, <2>2
<1>6. ReplyFits'
  BY <1>1 DEF IInv, Flow, ReplyFits
<1>7. Order'
  BY <1>1, <1>3, OrderKept DEF IInv, Sides
<1>8. SocketsFit'
  <2>1. ASSUME NEW s \in Sides, NEW u \in Callers, NEW g \in Topics, NEW p \in Peers
        PROVE  Off(s, u, g, p) => Off(s, u, g, p)'
    BY <1>1, <1>3 DEF Off
  <2>2. ASSUME NEW s \in Sides, NEW g \in Topics, NEW p \in Peers
        PROVE  (On(s, g, p) => On(s, g, p)') /\ (Broken(g) => Broken(g)')
    BY <1>1 DEF On, Broken
  <2>3. QED
    BY <1>1, <2>1, <2>2 DEF IInv, SocketsFit
<1>9. KeysFit'
  BY <1>1 DEF IInv, KeysFit, Unkeyed, Handled, Working, Request
<1>10. QED
  BY <1>1, <1>4, <1>5, <1>6, <1>7, <1>8, <1>9 DEF IInv, Flow, ClosedInOrder

\* A caller whose current request is done goes on with its operation.
LEMMA InvProceed ==
    ASSUME OneGroupEach, IInv, TypeInv', NEW t \in Callers, Working(t), Proceed(t),
           sent' = sent, conn' = conn, queue' = queue, open' = open,
           stateConn' = stateConn, dataConn' = dataConn, dataSubs' = dataSubs,
           \A s \in Sides : \/ reply'[s] = reply[s]
                            \/ reply'[s] = Nobody /\ reply[s] # Nobody /\ reply[s].t = t,
           conn # Nobody => conn.t # t,
           \A s \in Sides : /\ \A i \in 1..Len(queue[s]) : queue[s][i].t # t
                            /\ reply'[s] # Nobody => reply'[s].t # t,
           Request(t) = "publish" \/ \A s \in Sides : Handled(s, t)
    PROVE  IInv'
<1> DEFINE g == task[t].g
           p == task[t].p
           k == task[t].kind
<1>1. Script(t) /\ g \in Topics /\ k \in Kinds
  BY DEF IInv, TypeInv, TypeOK, Scripts, Working, Tasks
<1>2. /\ todo' = [todo EXCEPT ![t] = Tail(todo[t])]
      /\ \/ /\ Len(todo[t]) > 1 /\ wait' = [wait EXCEPT ![t] = "send"]
            /\ task' = task /\ UNCHANGED <<store, keys>>
         \/ /\ ~(Len(todo[t]) > 1) /\ wait' = [wait EXCEPT ![t] = "idle"]
            /\ task' = [task EXCEPT ![t] = Nobody] /\ Finish(t)
  BY DEF Proceed, Idle
<1>3. StepOf(t) /\ todo'[t] = Tail(todo[t])
  BY <1>2 DEF StepOf, IInv, TypeInv, TypeOK
<1>4. /\ Flow'
      /\ \A s \in Sides, u \in Callers, h \in Topics, q \in Peers :
             u # t => /\ Off(s, u, h, q)' <=> Off(s, u, h, q)
                      /\ Unkeyed(u, h, q)' <=> Unkeyed(u, h, q)
  BY <1>3, FlowStep DEF IInv
<1>5. \A h \in Topics, q \in Peers, s \in Sides :
          (On(s, h, q) => On(s, h, q)') /\ (Broken(h) => Broken(h)')
  BY DEF On, Broken
<1>6. \A h \in Topics, q \in Peers : ~Unkeyed(t, h, q)
  BY DEF Unkeyed, Sides
<1>7. CASE Len(todo[t]) > 1
  <2>1. /\ wait'[t] = "send" /\ UNCHANGED <<task, members, asked, keys>>
        /\ wait' = [wait EXCEPT ![t] = "send"]
    BY <1>2, <1>7 DEF IInv, TypeInv, TypeOK, store
  <2>2. Order'
    <3>1. \A u \in Callers : Working(u)' <=> Working(u)
      BY <1>3, <2>1 DEF Working, StepOf
    <3>2. QED
      BY <2>1, <3>1, OrderKept DEF IInv
  <2>3. ASSUME NEW s \in Sides, NEW h \in Topics, NEW q \in Peers, Off(s, t, h, q)
        PROVE  Off(s, t, h, q)'
    <3>1. Working(t)' /\ ~Handled(s, t)' /\ Request(t)' = Head(Tail(todo[t]))
      BY <1>3, <2>1 DEF Working, Handled, Sides, Request
    <3>2. CASE k = "add"
      BY <2>1, <2>3, <3>1, <3>2 DEF Off
    <3>3. CASE k = "remove"
      <4>1. Request(t) = "disconnect" /\ Request(t)' = "unsub"
        BY <1>1, <1>7, <3>1, <3>3, ScriptFacts, Tuples DEF Ops
      <4>2. s = "state"
        BY <2>3, <3>3, <4>1 DEF Off
      <4>3. QED
        BY <2>1, <2>3, <3>1, <3>3, <4>1, <4>2 DEF Off
    <3>4. CASE k = "leave"
      <4>1. Request(t)' = "publish"
        BY <1>1, <1>7, <3>1, <3>4, ScriptFacts, Tuples DEF Ops
      <4>2. QED
        BY <2>1, <2>3, <3>1, <3>4, <4>1 DEF Off
    <3>5. QED
      BY <2>3, <3>2, <3>3, <3>4 DEF Off
  <2>4. SocketsFit'
    BY <1>4, <1>5, <2>1, <2>3 DEF IInv, SocketsFit
  <2>5. KeysFit'
    BY <1>4, <1>6, <2>1 DEF IInv, KeysFit, Sides
  <2>6. QED
    BY <1>4, <2>2, <2>4, <2>5 DEF IInv, ClosedInOrder
<1>8. CASE ~(Len(todo[t]) > 1)
  <2>1. /\ wait'[t] = "idle" /\ ~Working(t)' /\ Finish(t)
        /\ wait' = [wait EXCEPT ![t] = "idle"] /\ task' = [task EXCEPT ![t] = Nobody]
    BY <1>2, <1>8 DEF IInv, TypeInv, TypeOK, Working
  <2>2. \A u \in Callers : u # t => task'[u] = task[u] /\ (Working(u)' <=> Working(u))
    BY <1>3 DEF StepOf, Working
  <2>3. \/ k = "remove" /\ asked' = asked \ {<<g, p>>} /\ keys' = keys \ {p}
             /\ members' = [members EXCEPT ![g] = @ \ {p}]
        \/ k = "leave" /\ asked' = {x \in asked : x[1] # g} /\ keys' = keys
             /\ members' = [members EXCEPT ![g] = {}]
        \/ k \in {"add", "send"} /\ asked' = asked /\ keys' = keys /\ members' = members
    BY <1>1, <2>1 DEF Finish, store, Kinds
  <2>4. ASSUME NEW s \in Sides, NEW h \in Topics, NEW q \in Peers, Off(s, t, h, q)
        PROVE  <<h, q>> \notin asked'
    <3>1. CASE k = "add"
      <4>1. Request(t) = "connect"
        BY <1>1, <1>8, <3>1, ScriptFacts, Tuples DEF Ops
      <4>2. QED
        BY <2>4, <3>1, <4>1 DEF Off
    <3>2. CASE k = "remove"
      BY <2>3, <2>4, <3>2 DEF Off
    <3>3. CASE k = "leave"
      BY <2>3, <2>4, <3>3 DEF Off
    <3>4. QED
      BY <2>4, <3>1, <3>2, <3>3 DEF Off
  <2>5. asked' \subseteq asked
    BY <2>3
  <2>6. SocketsFit'
    BY <1>4, <1>5, <2>4, <2>5 DEF IInv, SocketsFit
  <2>7. KeysFit'
    <3>1. ASSUME NEW h \in Topics, NEW q \in Peers, <<h, q>> \in asked', q \in keys
          PROVE  q \in keys'
      <4>1. CASE k = "remove" /\ q = p
        <5>1. <<g, p>> \in asked /\ <<h, p>> \in asked /\ h # g
          BY <2>3, <3>1, <4>1 DEF IInv, Order, Targets
        <5>2. QED
          BY <1>1, <3>1, <4>1, <5>1 DEF OneGroupEach, IInv, TypeInv, TypeOK
      <4>2. CASE ~(k = "remove" /\ q = p)
        BY <2>3, <3>1, <4>2
      <4>3. QED
        BY <4>1, <4>2
    <3>2. QED
      BY <1>4, <1>6, <2>5, <3>1 DEF IInv, KeysFit, Sides
  <2>8. Exclusive'
    BY <2>1, <2>2 DEF IInv, Order, Exclusive
  <2>9. MembersAsked'
    <3>1. members \in [Topics -> SUBSET Peers] /\ g \in Topics
      BY <1>1 DEF IInv, TypeInv, TypeOK
    <3>2. ASSUME NEW h \in Topics, NEW q, q \in members'[h] PROVE <<h, q>> \in asked'
      <4>1. CASE k = "remove"
        <5>1. members'[h] = IF h = g THEN members[g] \ {p} ELSE members[h]
          BY <2>3, <3>1, <4>1
        <5>2. q \in members[h] /\ ~(h = g /\ q = p)
          BY <3>2, <5>1
        <5>3. <<h, q>> \in asked
          BY <5>2 DEF IInv, Order, MembersAsked
        <5>4. <<h, q>> # <<g, p>>
          BY <5>2
        <5>5. QED
          BY <2>3, <4>1, <5>3, <5>4
      <4>2. CASE k = "leave"
        <5>1. members'[h] = IF h = g THEN {} ELSE members[h]
          BY <2>3, <3>1, <4>2
        <5>2. q \in members[h] /\ h # g
          BY <3>2, <5>1
        <5>3. <<h, q>> \in asked
          BY <5>2 DEF IInv, Order, MembersAsked
        <5>4. QED
          BY <2>3, <4>2, <5>2, <5>3
      <4>3. CASE k \in {"add", "send"}
        <5>1. members' = members /\ asked' = asked
          BY <2>3, <4>3
        <5>2. QED
          BY <3>2, <5>1 DEF IInv, Order, MembersAsked
      <4>4. QED
        BY <2>3, <4>1, <4>2, <4>3
    <3>3. QED
      BY <3>2 DEF MembersAsked
  <2>10. Targets'
    <3> SUFFICES ASSUME NEW u \in Callers, Working(u)'
                 PROVE  /\ task'[u].kind \in {"add", "remove"} => <<task'[u].g, task'[u].p>> \in asked'
                        /\ task'[u].kind = "remove" => task'[u].p \in members'[task'[u].g]
      BY DEF Targets
    <3>1. u # t /\ Working(u) /\ task'[u] = task[u] /\ task[u].g \in Topics
      BY <2>1, <2>2 DEF Working, IInv, TypeInv, TypeOK, Tasks
    <3>2. /\ task[u].kind \in {"add", "remove"} => <<task[u].g, task[u].p>> \in asked
          /\ task[u].kind = "remove" => task[u].p \in members[task[u].g]
      BY <3>1 DEF IInv, Order, Targets
    <3>3. task[u].kind \in {"add", "remove"} /\ task[u].g = g /\ k \in {"remove", "leave"}
             => k = "remove" /\ task[u].p # p
      BY <3>1 DEF IInv, Order, Exclusive
    <3>4. CASE k = "remove"
      <4>1. members' = [members EXCEPT ![g] = members[g] \ {p}] /\ asked' = asked \ {<<g, p>>}
        BY <2>3, <3>4
      <4>2. members \in [Topics -> SUBSET Peers]
        BY DEF IInv, TypeInv, TypeOK
      <4>3. task[u].kind \in {"add", "remove"} => ~(task[u].g = g /\ task[u].p = p)
        BY <3>3, <3>4
      <4>4. task[u].kind \in {"add", "remove"} => <<task[u].g, task[u].p>> # <<g, p>>
        BY <4>3
      <4>5. task[u].kind \in {"add", "remove"} => <<task[u].g, task[u].p>> \in asked'
        BY <3>2, <4>1, <4>4
      <4>6. \A h \in Topics : members'[h] = IF h = g THEN members[g] \ {p} ELSE members[h]
        BY <4>1, <4>2
      <4>7. task[u].kind = "remove" => task[u].p \in members'[task[u].g]
        <5>1. CASE task[u].g = g
          BY <3>1, <3>2, <4>3, <4>6, <5>1
        <5>2. CASE task[u].g # g
          BY <3>1, <3>2, <4>6, <5>2
        <5>3. QED
          BY <5>1, <5>2
      <4>8. QED
        BY <3>1, <4>5, <4>7
    <3>5. CASE k = "leave"
      <4>1. task[u].kind \in {"add", "remove"} => task[u].g # g
        BY <3>3, <3>5
      <4>2. task[u].kind = "remove" => members'[task[u].g] = members[task[u].g]
        BY <2>3, <3>1, <3>5, <4>1 DEF IInv, TypeInv, TypeOK
      <4>3. task[u].g # g /\ <<task[u].g, task[u].p>> \in asked
               => <<task[u].g, task[u].p>> \in asked'
        BY <2>3, <3>5
      <4>4. QED
        BY <3>1, <3>2, <4>1, <4>2, <4>3
    <3>6. QED
      BY <2>3, <3>1, <3>2, <3>4, <3>5
  <2>11. QED
    BY <1>4, <2>6, <2>7, <2>8, <2>9, <2>10 DEF IInv, Order, ClosedInOrder
<1>9. QED
  BY <1>7, <1>8

LEMMA InvSendPublish ==
    ASSUME OneGroupEach, IInv, TypeInv', NEW t \in Callers, SendPublish(t) PROVE IInv'
<1>1. /\ wait[t] = "send" /\ Working(t) /\ Request(t) = "publish" /\ sent' = sent /\ conn' = conn
      /\ queue' = queue /\ reply' = reply /\ open' = open
      /\ stateConn' = stateConn /\ dataConn' = dataConn /\ dataSubs' = dataSubs
  BY DEF SendPublish, threads, Working, Request
<1>2. Clear(t)
  BY <1>1, Others DEF IInv, Sides
<1>3. CASE Proceed(t)
  BY <1>1, <1>2, <1>3, InvProceed DEF Clear
<1>4. CASE ~open["external"] /\ GiveUp(t)
  <2>1. /\ wait' = [wait EXCEPT ![t] = "idle"] /\ task' = [task EXCEPT ![t] = Nobody]
        /\ todo' = [todo EXCEPT ![t] = <<>>]
        /\ asked' = asked /\ keys' = keys /\ members' = members
    BY <1>4 DEF GiveUp, Idle, store
  <2>2. StepOf(t) /\ ~Working(t)'
    BY <1>1, <2>1 DEF StepOf, Working, IInv, TypeInv, TypeOK
  <2>3. /\ Flow'
        /\ \A s \in Sides, u \in Callers, h \in Topics, q \in Peers :
               u # t => /\ Off(s, u, h, q)' <=> Off(s, u, h, q)
                        /\ Unkeyed(u, h, q)' <=> Unkeyed(u, h, q)
    BY <1>1, <1>2, <2>2, FlowStep DEF IInv, Clear
  <2>4. \A u \in Callers : u # t => task'[u] = task[u] /\ (Working(u)' <=> Working(u))
    BY <2>2 DEF StepOf, Working
  <2>5. Order'
    <3>1. Exclusive' /\ MembersAsked'
      BY <2>1, <2>2, <2>4 DEF IInv, Order, Exclusive, MembersAsked
    <3>2. Targets'
      BY <2>1, <2>2, <2>4 DEF IInv, Order, Targets
    <3>3. QED
      BY <3>1, <3>2 DEF Order
  <2>6. ASSUME NEW s \in Sides, NEW h \in Topics, NEW q \in Peers, Off(s, t, h, q)
        PROVE  Broken(h)
    <3>1. task[t].kind = "leave" /\ task[t].g = h
      <4>1. task[t].kind \in {"leave", "send"}
        BY <1>1, ScriptFacts DEF IInv, TypeInv, Scripts
      <4>2. QED
        BY <2>6, <4>1 DEF Off
    <3>2. ASSUME NEW r \in Sides, NEW i \in 1..Len(queue[r]), queue[r][i].g = h
          PROVE  FALSE
      <4> DEFINE u == queue[r][i].t
      <4>1. u \in Callers /\ u # t
        BY <1>2, QueueTyped DEF IInv, Requests, Clear
      <4>2. Working(u) /\ wait[u] \in Sides /\ task[u].g = h
        BY <3>2, TransportAssumption DEF IInv, Flow, QueueFits, Current, Working, Sides
      <4>3. task[u].kind # "send"
        BY <4>1, <4>2, ScriptFacts DEF IInv, TypeInv, Scripts
      <4>4. QED
        BY <1>1, <3>1, <4>1, <4>2, <4>3 DEF IInv, Order, Exclusive
    <3>3. ~open["internal"]
      BY <1>4 DEF IInv, ClosedInOrder
    <3>4. QED
      BY <3>2, <3>3 DEF Broken
  <2>7. \A h \in Topics, q \in Peers, s \in Sides :
            (On(s, h, q) => On(s, h, q)') /\ (Broken(h) => Broken(h)')
    BY <1>1 DEF On, Broken
  <2>8. SocketsFit'
    BY <2>1, <2>3, <2>6, <2>7 DEF IInv, SocketsFit
  <2>9. KeysFit'
    <3>1. \A h \in Topics, q \in Peers : ~Unkeyed(t, h, q)
      BY <1>1 DEF Unkeyed
    <3>2. QED
      BY <2>1, <2>3, <3>1 DEF IInv, KeysFit, Sides
  <2>10. QED
    BY <1>1, <2>3, <2>5, <2>8, <2>9 DEF IInv, ClosedInOrder
<1>5. QED
  BY <1>3, <1>4 DEF SendPublish

LEMMA InvAnswer ==
    ASSUME OneGroupEach, IInv, TypeInv', NEW s \in Sides, NEW t \in Callers, Answer(s, t)
    PROVE  IInv'
<1>1. /\ reply[s] # Nobody /\ reply[s].t = t /\ wait[t] = s /\ Working(t) /\ Handled(s, t)
      /\ reply' = [reply EXCEPT ![s] = Nobody] /\ ~reply[s].err
      /\ sent' = sent /\ conn' = conn /\ queue' = queue /\ open' = open
      /\ stateConn' = stateConn /\ dataConn' = dataConn /\ dataSubs' = dataSubs
  BY DEF Answer, Working, Handled, Sides, IInv, Flow, ReplyFits
<1>2. reply'[s] = Nobody /\ \A r \in Sides : r # s => reply'[r] = reply[r]
  BY <1>1 DEF IInv, TypeInv, TypeOK
<1>3. CASE s = "data"
  <2>1. Proceed(t)
    BY <1>1, <1>3 DEF Answer
  <2>2. \A r \in Sides : Handled(r, t)
    BY <1>1, <1>3 DEF Handled, Sides
  <2>3. /\ conn # Nobody => conn.t # t
        /\ \A r \in Sides : \A i \in 1..Len(queue[r]) : queue[r][i].t # t
    BY <1>1, <2>2 DEF IInv, Flow, ConnFits, QueueFits
  <2>4. reply["state"] # Nobody => reply["state"].t # t
    BY <1>1, <1>3 DEF IInv, Flow, ReplyFits, Sides
  <2>5. \A r \in Sides : /\ reply'[r] # Nobody => reply'[r].t # t
                         /\ \/ reply'[r] = reply[r]
                            \/ reply'[r] = Nobody /\ reply[r] # Nobody /\ reply[r].t = t
    BY <1>1, <1>2, <1>3, <2>4 DEF Sides
  <2>6. QED
    BY <1>1, <2>1, <2>2, <2>3, <2>5, InvProceed
<1>4. CASE s = "state"
  <2>1. /\ wait' = [wait EXCEPT ![t] = "data"] /\ task' = task /\ todo' = todo
        /\ members' = members /\ asked' = asked /\ keys' = keys
    BY <1>1, <1>4 DEF Answer, store
  <2>2. wait'[t] = "data" /\ \A u \in Callers : u # t => wait'[u] = wait[u]
    BY <2>1 DEF IInv, TypeInv, TypeOK
  <2>3. ASSUME NEW u \in Callers
        PROVE  /\ \A r \in Sides : Handled(r, u)' <=> Handled(r, u)
               /\ Working(u)' <=> Working(u)
               /\ Request(u)' = Request(u)
               /\ wait[u] \in Sides => wait'[u] \in Sides
    <3>1. CASE u = t
      BY <1>1, <1>2, <1>4, <2>1, <2>2, <3>1 DEF Handled, Working, Request, Sides
    <3>2. CASE u # t
      BY <1>1, <1>2, <1>4, <2>1, <2>2, <3>2 DEF Handled, Working, Request, Sides
    <3>3. QED
      BY <3>1, <3>2
  <2>4. ASSUME NEW m, m.t \in Callers, Current(m) PROVE Current(m)'
    BY <1>1, <2>1, <2>3, <2>4 DEF Current
  <2>5. ConnFits'
    <3> SUFFICES ASSUME NEW m, m = conn, conn # Nobody
                 PROVE  /\ Current(m)' /\ wait'[m.t] = "state"
                        /\ \A r \in Sides : /\ ~Handled(r, m.t)'
                                            /\ \A i \in 1..Len(queue[r]) : queue[r][i].t # m.t
      BY <1>1 DEF ConnFits, Current, Handled, Request
    <3>1. /\ m.t \in Callers /\ Current(m) /\ wait[m.t] = "state"
          /\ \A r \in Sides : /\ ~Handled(r, m.t)
                              /\ \A i \in 1..Len(queue[r]) : queue[r][i].t # m.t
      BY DEF IInv, TypeInv, TypeOK, Requests, Flow, ConnFits
    <3>2. QED
      BY <1>1, <2>2, <2>3, <2>4, <3>1
  <2>6. QueueFits'
    <3> SUFFICES ASSUME NEW r \in Sides, NEW i \in 1..Len(queue[r]), NEW m, m = queue[r][i]
                 PROVE  /\ Current(m)' /\ ~Handled(r, m.t)'
                        /\ \A j \in 1..Len(queue[r]) : i # j => m.t # queue[r][j].t
      BY <1>1 DEF QueueFits, Current, Handled, Request
    <3>1. /\ m.t \in Callers /\ Current(m) /\ ~Handled(r, m.t)
          /\ \A j \in 1..Len(queue[r]) : i # j => m.t # queue[r][j].t
      BY QueueTyped DEF IInv, Requests, Flow, QueueFits
    <3>2. QED
      BY <2>3, <2>4, <3>1
  <2>7. ReplyFits'
    <3> SUFFICES ASSUME NEW r \in Sides, reply'[r] # Nobody
                 PROVE  /\ ~reply'[r].err
                        /\ wait'[reply'[r].t] \in Sides /\ reply'[r].n = sent'[reply'[r].t]
                        /\ r = "state" => wait'[reply'[r].t] = "state"
      BY DEF ReplyFits
    <3>1. reply'[r] = reply[r] /\ r # "state" /\ reply[r].t \in Callers
      BY <1>2, <1>4 DEF IInv, TypeInv, TypeOK, Replies
    <3>2. QED
      BY <1>1, <2>3, <3>1 DEF IInv, Flow, ReplyFits
  <2>8. Order'
    BY <2>1, <2>3, OrderKept DEF IInv
  <2>9. SocketsFit'
    <3>1. ASSUME NEW r \in Sides, NEW u \in Callers, NEW g \in Topics, NEW p \in Peers
          PROVE  Off(r, u, g, p) => Off(r, u, g, p)'
      BY <2>1, <2>3 DEF Off
    <3>2. ASSUME NEW r \in Sides, NEW g \in Topics, NEW p \in Peers
          PROVE  (On(r, g, p) => On(r, g, p)') /\ (Broken(g) => Broken(g)')
      BY <1>1 DEF On, Broken
    <3>3. QED
      BY <2>1, <3>1, <3>2 DEF IInv, SocketsFit
  <2>10. KeysFit'
    <3>1. ASSUME NEW u \in Callers, NEW g \in Topics, NEW p \in Peers
          PROVE  Unkeyed(u, g, p) => Unkeyed(u, g, p)'
      BY <2>1, <2>3 DEF Unkeyed, Sides
    <3>2. QED
      BY <2>1, <3>1 DEF IInv, KeysFit
  <2>11. QED
    BY <1>1, <2>5, <2>6, <2>7, <2>8, <2>9, <2>10 DEF IInv, Flow, ClosedInOrder
<1>5. QED
  BY <1>3, <1>4 DEF Sides

\* What holds of the request a listener takes.
LEMMA Served ==
    ASSUME IInv, NEW s \in Sides, NEW m, m = Head(queue[s]), queue[s] # <<>>
    PROVE  /\ m \in Requests /\ m.t \in Callers /\ Current(m) /\ ~Handled(s, m.t)
           /\ Working(m.t) /\ Script(m.t) /\ ~Broken(m.g)
           /\ s = "state" => wait[m.t] = "state"
           /\ Request(m.t) # "publish" /\ m.g \in Topics
<1>1. queue[s] \in Seq(Requests)
  BY DEF IInv, TypeInv, TypeOK
<1>2. m \in Requests /\ m = queue[s][1] /\ 1 \in 1..Len(queue[s])
  BY <1>1, TailFacts
<1>3. m.t \in Callers /\ m.g \in Topics /\ Current(m) /\ ~Handled(s, m.t)
  BY <1>2 DEF Requests, IInv, Flow, QueueFits
<1>4. wait[m.t] \in Sides /\ Working(m.t)
  BY <1>3 DEF Current, Working, Sides
<1>5. Script(m.t) /\ Request(m.t) # "publish"
  BY <1>3, <1>4 DEF IInv, TypeInv, Scripts
<1>6. ~Broken(m.g)
  BY <1>2 DEF Broken
<1>7. s = "state" => wait[m.t] = "state"
  BY <1>3, <1>4 DEF Handled, Sides
<1>8. QED
  BY <1>2, <1>3, <1>4, <1>5, <1>6, <1>7

\* What a request takes away on a side is there when its listener comes to it.
LEMMA StillOn ==
    ASSUME IInv, NEW s \in Sides, NEW m, m = Head(queue[s]), queue[s] # <<>>,
           NEW p \in Peers, p \in members[m.g],
           \/ m.op = "unsubAll"
           \/ m.op = "disconnect" /\ s = "state" /\ m.p = p
           \/ m.op = "unsub" /\ s = "data" /\ m.p = p
    PROVE  On(s, m.g, p)
<1> DEFINE t == m.t
<1>1. /\ t \in Callers /\ Working(t) /\ ~Handled(s, t) /\ ~Broken(m.g) /\ m.g \in Topics
      /\ m.op = Request(t) /\ task[t].g = m.g /\ task[t].p = m.p /\ Script(t)
  BY Served DEF Current
<1>2. <<m.g, p>> \in asked
  BY <1>1 DEF IInv, Order, MembersAsked
<1>3. /\ m.op = "unsubAll" => task[t].kind = "leave"
      /\ m.op \in {"disconnect", "unsub"} => task[t].kind = "remove"
  BY <1>1, OpKinds
<1>4. ASSUME NEW u \in Callers PROVE ~Off(s, u, m.g, p)
  <2>1. CASE u = t
    BY <1>1, <1>3, <2>1 DEF Off
  <2>2. CASE u # t
    BY <1>1, <1>3, <2>2 DEF Off, IInv, Order, Exclusive
  <2>3. QED
    BY <2>1, <2>2
<1>5. QED
  BY <1>1, <1>2, <1>4 DEF IInv, SocketsFit

\* A listener switches off no more than the request it handles asks for.
SwitchesOff(s, m) ==
    \A r \in Sides, g \in Topics, p \in Peers : <<g, p>> \in asked /\ On(r, g, p) =>
        \/ On(r, g, p)'
        \/ r = s /\ g = m.g /\ m.op = "unsubAll"
        \/ r = s /\ g = m.g /\ p = m.p /\ s = "state" /\ m.op = "disconnect"
        \/ r = s /\ g = m.g /\ p = m.p /\ s = "data" /\ m.op = "unsub"

\* A listener acts on a request as it should, and replies without an error.
LEMMA InvServe ==
    ASSUME IInv, TypeInv', NEW s \in Sides, NEW m, m = Head(queue[s]), queue[s] # <<>>,
           reply[s] = Nobody, Serve(s, m, FALSE),
           SwitchesOff(s, m),
           m.op = "connect" => On(s, m.g, m.p)',
           keys \subseteq keys', s = "state" /\ m.op = "auth" => m.p \in keys'
    PROVE  IInv'
<1> DEFINE t == m.t
<1>1. /\ m \in Requests /\ t \in Callers /\ Current(m) /\ ~Handled(s, t) /\ Working(t) /\ Script(t)
      /\ (s = "state" => wait[t] = "state") /\ Request(t) # "publish" /\ m.g \in Topics
  BY Served
<1>2. /\ m.op = Request(t) /\ task[t].g = m.g /\ task[t].p = m.p /\ wait[t] \in Sides
      /\ m.n = sent[t]
  BY <1>1 DEF Current
<1>3. /\ queue' = [queue EXCEPT ![s] = Tail(queue[s])]
      /\ reply' = [reply EXCEPT ![s] = [t |-> m.t, n |-> m.n, err |-> FALSE]]
      /\ task' = task /\ todo' = todo /\ wait' = wait /\ sent' = sent /\ conn' = conn
      /\ open' = open /\ members' = members /\ asked' = asked
  BY DEF Serve, calls, store
<1>4. /\ reply'[s] = [t |-> m.t, n |-> m.n, err |-> FALSE]
      /\ \A r \in Sides : r # s => reply'[r] = reply[r] /\ queue'[r] = queue[r]
      /\ queue'[s] = Tail(queue[s]) /\ reply'[s] # Nobody
  <2>1. [t |-> m.t, n |-> m.n, err |-> FALSE] \in Replies
    BY <1>1 DEF Requests, Replies
  <2>2. queue \in [Sides -> Seq(Requests)] /\ reply \in [Sides -> Replies \cup {Nobody}]
    BY DEF IInv, TypeInv, TypeOK
  <2>3. /\ reply'[s] = [t |-> m.t, n |-> m.n, err |-> FALSE]
        /\ \A r \in Sides : r # s => reply'[r] = reply[r]
    BY <1>3, <2>2
  <2>4. /\ queue'[s] = Tail(queue[s])
        /\ \A r \in Sides : r # s => queue'[r] = queue[r]
    <3> DEFINE rest == Tail(queue[s])
    <3>1. queue' = [queue EXCEPT ![s] = rest] /\ queue \in [Sides -> Seq(Requests)]
      BY <1>3, <2>2
    <3> HIDE DEF rest
    <3>2. queue'[s] = rest /\ \A r \in Sides : r # s => queue'[r] = queue[r]
      BY <3>1
    <3>3. QED
      BY <3>2 DEF rest
  <2>5. reply'[s] # Nobody
    BY <2>1, <2>3, TransportAssumption
  <2>6. QED
    BY <2>3, <2>4, <2>5
<1>5. queue[s] \in Seq(Requests) /\ m = queue[s][1] /\ 1 \in 1..Len(queue[s])
      /\ \A i \in 1..Len(Tail(queue[s])) : /\ i + 1 \in 1..Len(queue[s])
                                           /\ Tail(queue[s])[i] = queue[s][i + 1]
  <2>1. queue[s] \in Seq(Requests)
    BY DEF IInv, TypeInv, TypeOK
  <2>2. QED
    BY <2>1, TailFacts
<1>6. \A r \in Sides : \A i \in 1..Len(queue'[r]) :
          \E j \in 1..Len(queue[r]) : /\ queue'[r][i] = queue[r][j]
                                      /\ r = s => j = i + 1
                                      /\ r # s => j = i
  <2>1. ASSUME NEW i \in 1..Len(queue'[s])
        PROVE  i + 1 \in 1..Len(queue[s]) /\ queue'[s][i] = queue[s][i + 1]
    BY <1>4, <1>5
  <2>2. ASSUME NEW r \in Sides, r # s PROVE queue'[r] = queue[r]
    BY <1>4, <2>2
  <2>3. QED
    BY <2>1, <2>2
<1>7. ASSUME NEW u \in Callers
      PROVE  /\ \A r \in Sides : r # s \/ u # t => (Handled(r, u)' <=> Handled(r, u))
             /\ Working(u)' <=> Working(u)
             /\ Request(u)' = Request(u)
  BY <1>3, <1>4 DEF Handled, Working, Request
<1>8. Handled(s, t)'
  BY <1>2, <1>3, <1>4 DEF Handled
<1>9. ASSUME NEW c, Current(c) PROVE Current(c)'
  BY <1>3, <1>9 DEF Current, Request
<1>10. ConnFits'
  <2> SUFFICES ASSUME NEW c, c = conn', conn' # Nobody
               PROVE  /\ Current(c)' /\ wait'[c.t] = "state"
                      /\ \A r \in Sides : /\ ~Handled(r, c.t)'
                                          /\ \A i \in 1..Len(queue'[r]) : queue'[r][i].t # c.t
    BY DEF ConnFits, Current, Handled, Request
  <2>0. c = conn /\ conn # Nobody /\ wait' = wait
    BY <1>3
  <2>1. /\ c.t \in Callers /\ Current(c) /\ wait[c.t] = "state"
        /\ \A r \in Sides : /\ ~Handled(r, c.t)
                            /\ \A i \in 1..Len(queue[r]) : queue[r][i].t # c.t
    BY <2>0 DEF IInv, TypeInv, TypeOK, Requests, Flow, ConnFits
  <2>2. c.t # t
    BY <1>5, <2>1
  <2>3. Current(c)' /\ wait'[c.t] = "state"
    BY <1>9, <2>0, <2>1
  <2>4. \A r \in Sides : ~Handled(r, c.t)'
    BY <1>7, <2>1, <2>2
  <2>5. \A r \in Sides : \A i \in 1..Len(queue'[r]) : queue'[r][i].t # c.t
    BY <1>6, <2>1
  <2>6. QED
    BY <2>3, <2>4, <2>5
<1>11. QueueFits'
  <2> SUFFICES ASSUME NEW r \in Sides, NEW i \in 1..Len(queue'[r]), NEW c, c = queue'[r][i]
               PROVE  /\ Current(c)' /\ ~Handled(r, c.t)'
                      /\ \A j \in 1..Len(queue'[r]) : i # j => c.t # queue'[r][j].t
    BY DEF QueueFits, Current, Handled, Request
  <2>1. PICK k \in 1..Len(queue[r]) : /\ c = queue[r][k] /\ (r = s => k = i + 1)
                                      /\ (r # s => k = i)
    BY <1>6
  <2>2. /\ c.t \in Callers /\ Current(c) /\ ~Handled(r, c.t)
        /\ \A j \in 1..Len(queue[r]) : k # j => c.t # queue[r][j].t
    <3>1. c \in Requests
      BY <2>1, QueueTyped DEF IInv
    <3>2. QED
      BY <2>1, <3>1 DEF Requests, IInv, Flow, QueueFits
  <2>3. r = s => c.t # t
    BY <1>5, <2>1, <2>2
  <2>4. ASSUME NEW j \in 1..Len(queue'[r]), i # j PROVE c.t # queue'[r][j].t
    <3>1. PICK l \in 1..Len(queue[r]) : /\ queue'[r][j] = queue[r][l] /\ (r = s => l = j + 1)
                                        /\ (r # s => l = j)
      BY <1>6
    <3>2. k # l
      BY <2>1, <2>4, <3>1
    <3>3. QED
      BY <2>2, <3>1, <3>2
  <2>5. QED
    BY <1>7, <1>9, <2>2, <2>3, <2>4
<1>12. ReplyFits'
  <2> SUFFICES ASSUME NEW r \in Sides, reply'[r] # Nobody
               PROVE  /\ ~reply'[r].err
                      /\ wait[reply'[r].t] \in Sides /\ reply'[r].n = sent[reply'[r].t]
                      /\ r = "state" => wait[reply'[r].t] = "state"
    BY <1>3 DEF ReplyFits
  <2>1. CASE r = s
    <3>1. reply'[r].t = t /\ reply'[r].n = m.n /\ reply'[r].err = FALSE
      BY <1>4, <2>1
    <3>2. QED
      BY <1>1, <1>2, <2>1, <3>1
  <2>2. CASE r # s
    BY <1>4, <2>2 DEF IInv, Flow, ReplyFits
  <2>3. QED
    BY <2>1, <2>2
<1>13. Order'
  BY <1>3, <1>7, OrderKept DEF IInv
<1>14. ASSUME NEW r \in Sides, NEW u \in Callers, NEW g \in Topics, NEW p \in Peers,
              Off(r, u, g, p)
       PROVE  Off(r, u, g, p)' \/ On(r, g, p)'
  <2>1. CASE r # s \/ u # t
    BY <1>3, <1>7, <1>14, <2>1 DEF Off
  <2>2. CASE r = s /\ u = t
    <3>1. Working(t) /\ Working(t)' /\ Request(t)' = Request(t) /\ task'[t] = task[t]
          /\ task[t].g = g
      BY <1>1, <1>3, <1>7, <1>14, <2>2 DEF Off
    <3>2. CASE task[t].kind = "add"
      BY <1>2, <1>14, <2>2, <3>1, <3>2 DEF Off
    <3>3. CASE task[t].kind = "remove"
      BY <1>8, <1>14, <2>2, <3>1, <3>3 DEF Off
    <3>4. CASE task[t].kind = "leave"
      BY <1>8, <2>2, <3>1, <3>4 DEF Off
    <3>5. QED
      BY <1>14, <2>2, <3>2, <3>3, <3>4 DEF Off
  <2>3. QED
    BY <2>1, <2>2
<1>15. ASSUME NEW g \in Topics, Broken(g) PROVE Broken(g)'
  BY <1>3, <1>6, <1>15 DEF Broken
<1>16. ASSUME NEW r \in Sides, NEW g \in Topics, NEW p \in Peers, <<g, p>> \in asked, On(r, g, p)
       PROVE  On(r, g, p)' \/ Off(r, t, g, p)'
  <2>0. \/ On(r, g, p)'
        \/ /\ r = s /\ g = m.g
           /\ \/ m.op = "unsubAll"
              \/ p = m.p /\ s = "state" /\ m.op = "disconnect"
              \/ p = m.p /\ s = "data" /\ m.op = "unsub"
    BY <1>16 DEF SwitchesOff
  <2>1. SUFFICES ASSUME r = s, g = m.g,
                        \/ m.op = "unsubAll"
                        \/ p = m.p /\ s = "state" /\ m.op = "disconnect"
                        \/ p = m.p /\ s = "data" /\ m.op = "unsub"
                 PROVE  Off(s, t, g, p)'
    BY <2>0
  <2>2. /\ m.op = "unsubAll" => task[t].kind = "leave"
        /\ m.op \in {"disconnect", "unsub"} => task[t].kind = "remove"
    BY <1>1, <1>2, OpKinds
  <2>3. Working(t)' /\ Request(t)' = m.op /\ task'[t] = task[t]
    BY <1>1, <1>2, <1>3, <1>7
  <2>4. QED
    BY <1>2, <1>8, <2>1, <2>2, <2>3 DEF Off
<1>17. SocketsFit'
  BY <1>1, <1>3, <1>14, <1>15, <1>16 DEF IInv, SocketsFit
<1>18. KeysFit'
  <2>1. ASSUME NEW u \in Callers, NEW g \in Topics, NEW p \in Peers, Unkeyed(u, g, p)
        PROVE  Unkeyed(u, g, p)' \/ p \in keys'
    <3>1. CASE s # "state" \/ u # t
      BY <1>3, <1>7, <2>1, <3>1 DEF Unkeyed, Sides
    <3>2. CASE s = "state" /\ u = t
      BY <1>2, <2>1, <3>2 DEF Unkeyed
    <3>3. QED
      BY <3>1, <3>2
  <2>2. QED
    BY <1>3, <2>1 DEF IInv, KeysFit
<1>19. QED
  BY <1>3, <1>10, <1>11, <1>12, <1>13, <1>17, <1>18 DEF IInv, Flow, ClosedInOrder

LEMMA InvListen ==
    ASSUME OneGroupEach, IInv, TypeInv', NEW s \in Sides, Listen(s) PROVE IInv'
<1>1. queue[s] # <<>> /\ reply[s] = Nobody
  BY DEF Listen
<1>2. PICK m : m = Head(queue[s])
  OBVIOUS
<1>3. m \in Requests /\ m.t \in Callers /\ Current(m) /\ Working(m.t) /\ Script(m.t) /\ m.g \in Topics
  BY <1>1, <1>2, Served
<1>4. m.op = Request(m.t) /\ task[m.t].g = m.g /\ task[m.t].p = m.p
  BY <1>3 DEF Current
<1>5. asked \subseteq Joinable /\ members \in [Topics -> SUBSET Peers]
  BY DEF IInv, TypeInv, TypeOK
\* Who is in the group of the request is in no other.
<1>6. ASSUME NEW g \in Topics, NEW p \in Peers, <<g, p>> \in asked, p \in members[m.g]
      PROVE  g = m.g
  BY <1>3, <1>5, <1>6 DEF OneGroupEach, IInv, Order, MembersAsked
<1>7. m.op \in {"disconnect", "unsub"} => m.p \in members[m.g] /\ m.p \in Peers
  <2>1. m.op \in {"disconnect", "unsub"} => task[m.t].kind = "remove"
    BY <1>3, <1>4, OpKinds
  <2>2. QED
    BY <1>3, <1>4, <1>5, <2>1 DEF IInv, Order, Targets
<1>8. m.op \in {"auth", "connect"} => m.p \in Peers
  BY <1>3, <1>4, OpKinds
<1>9. m.op = "unsub" => m.p \in Publishers
  BY <1>3, <1>4, OpKinds
<1>10. \A p \in Peers : /\ On("state", m.g, p) <=> p \in stateConn
                        /\ p \in Publishers /\ On("data", m.g, p) => p \in dataConn
  BY DEF On
<1>11. CASE s = "state" /\ StateHandle
  <2>1. \/ StateAuth(m) \/ StateConnect(m) \/ StateDisconnect(m) \/ StateUnsub(m)
        \/ StateUnsubAll(m)
    BY <1>11, <1>2 DEF StateHandle
  <2>2. CASE StateAuth(m)
    <3>1. m.op = "auth" /\ Serve(s, m, FALSE) /\ keys' = keys \cup {m.p}
          /\ stateConn' = stateConn /\ dataConn' = dataConn /\ dataSubs' = dataSubs
      BY <1>11, <2>2 DEF StateAuth
    <3>2. \A r \in Sides, g \in Topics, p \in Peers : On(r, g, p) => On(r, g, p)'
      BY <3>1 DEF On
    <3>3. SwitchesOff(s, m)
      BY <3>2 DEF SwitchesOff
    <3>4. QED
      BY <1>1, <1>2, <3>1, <3>3, InvServe
  <2>3. CASE StateConnect(m)
    <3>1. m.op = "connect" /\ Serve(s, m, FALSE) /\ keys' = keys
          /\ stateConn' = stateConn \cup {m.p} /\ dataConn' = dataConn /\ dataSubs' = dataSubs
      BY <1>11, <2>3 DEF StateConnect
    <3>2. \A r \in Sides, g \in Topics, p \in Peers : On(r, g, p) => On(r, g, p)'
      BY <3>1 DEF On
    <3>3. On(s, m.g, m.p)'
      BY <1>11, <3>1 DEF On
    <3>4. SwitchesOff(s, m)
      BY <3>2 DEF SwitchesOff
    <3>5. QED
      BY <1>1, <1>2, <3>1, <3>3, <3>4, InvServe
  <2>4. CASE StateDisconnect(m)
    <3>1. m.op = "disconnect" /\ Serve(s, m, m.p \notin stateConn) /\ keys' = keys
          /\ stateConn' = stateConn \ {m.p} /\ dataConn' = dataConn /\ dataSubs' = dataSubs
      BY <1>11, <2>4 DEF StateDisconnect
    <3>2. m.p \in stateConn
      BY <1>1, <1>2, <1>7, <1>10, <1>11, <3>1, StillOn
    <3>3. (m.p \notin stateConn) = FALSE
      BY <3>2
    <3>4. Serve(s, m, FALSE)
      BY <3>1, <3>3
    <3>5. ASSUME NEW r \in Sides, NEW g \in Topics, NEW p \in Peers, <<g, p>> \in asked, On(r, g, p)
          PROVE  \/ On(r, g, p)'
                 \/ r = s /\ g = m.g /\ p = m.p /\ s = "state" /\ m.op = "disconnect"
      <4>1. On(r, g, p)' \/ (r = "state" /\ p = m.p)
        BY <3>1, <3>5 DEF On
      <4>2. p = m.p => g = m.g
        BY <1>6, <1>7, <3>1, <3>5
      <4>3. QED
        BY <1>11, <3>1, <4>1, <4>2
    <3>6. m.op # "connect" /\ m.op # "auth"
      BY <3>1
    <3>7. SwitchesOff(s, m)
      BY <3>5 DEF SwitchesOff
    <3>8. QED
      BY <1>1, <1>2, <3>1, <3>4, <3>6, <3>7, InvServe
  <2>5. CASE StateUnsub(m)
    <3>1. m.op = "unsub" /\ Serve(s, m, FALSE) /\ keys' = keys
          /\ stateConn' = stateConn /\ dataConn' = dataConn /\ dataSubs' = dataSubs
      BY <1>11, <2>5 DEF StateUnsub, sockets
    <3>2. \A r \in Sides, g \in Topics, p \in Peers : On(r, g, p) => On(r, g, p)'
      BY <3>1 DEF On
    <3>3. SwitchesOff(s, m)
      BY <3>2 DEF SwitchesOff
    <3>4. QED
      BY <1>1, <1>2, <3>1, <3>3, InvServe
  <2>6. CASE StateUnsubAll(m)
    <3>1. m.op = "unsubAll" /\ Serve(s, m, ~(members[m.g] \subseteq stateConn)) /\ keys' = keys
          /\ stateConn' \in Disconnected(stateConn, members[m.g])
          /\ dataConn' = dataConn /\ dataSubs' = dataSubs
      BY <1>11, <2>6 DEF StateUnsubAll
    <3>2. members[m.g] \subseteq stateConn
      <4>1. ASSUME NEW p \in members[m.g] PROVE p \in stateConn
        <5>1. p \in Peers
          BY <1>3, <1>5
        <5>2. QED
          BY <1>1, <1>2, <1>10, <1>11, <3>1, <5>1, StillOn
      <4>2. QED
        BY <4>1
    <3>3. (~(members[m.g] \subseteq stateConn)) = FALSE
      BY <3>2
    <3>4. Serve(s, m, FALSE) /\ stateConn' = stateConn \ members[m.g]
      BY <3>1, <3>2, <3>3 DEF Disconnected
    <3>5. \A r \in Sides, g \in Topics, p \in Peers : <<g, p>> \in asked /\ On(r, g, p) =>
              On(r, g, p)' \/ (r = s /\ g = m.g /\ m.op = "unsubAll")
      BY <1>6, <1>11, <3>1, <3>4 DEF On
    <3>6. m.op # "connect" /\ m.op # "auth"
      BY <3>1
    <3>7. SwitchesOff(s, m)
      BY <3>5 DEF SwitchesOff
    <3>8. QED
      BY <1>1, <1>2, <3>1, <3>4, <3>6, <3>7, InvServe
  <2>7. QED
    BY <2>1, <2>2, <2>3, <2>4, <2>5, <2>6
<1>12. CASE s = "data" /\ DataHandle
  <2>1. DataAuth(m) \/ DataConnect(m) \/ DataDisconnect(m) \/ DataUnsub(m) \/ DataUnsubAll(m)
    BY <1>12, <1>2 DEF DataHandle
  <2>2. CASE DataAuth(m) \/ DataDisconnect(m)
    <3>1. m.op \in {"auth", "disconnect"} /\ Serve(s, m, FALSE) /\ keys' = keys
          /\ stateConn' = stateConn /\ dataConn' = dataConn /\ dataSubs' = dataSubs
      BY <1>12, <2>2 DEF DataAuth, DataDisconnect, sockets
    <3>2. \A r \in Sides, g \in Topics, p \in Peers : On(r, g, p) => On(r, g, p)'
      BY <3>1 DEF On
    <3>3. SwitchesOff(s, m)
      BY <3>2 DEF SwitchesOff
    <3>4. QED
      BY <1>1, <1>2, <1>12, <3>1, <3>3, InvServe
  <2>3. CASE DataConnect(m)
    <3>1. m.op = "connect" /\ Serve(s, m, FALSE) /\ keys' = keys /\ stateConn' = stateConn
          /\ dataConn' = dataConn \cup ({m.p} \cap Publishers)
          /\ dataSubs' = dataSubs \cup ({m.g} \X ({m.p} \cap Publishers))
      BY <1>12, <2>3 DEF DataConnect
    <3>2. \A r \in Sides, g \in Topics, p \in Peers : On(r, g, p) => On(r, g, p)'
      BY <3>1 DEF On
    <3>3. On(s, m.g, m.p)'
      BY <1>12, <3>1 DEF On
    <3>4. SwitchesOff(s, m)
      BY <3>2 DEF SwitchesOff
    <3>5. QED
      BY <1>1, <1>2, <3>1, <3>3, <1>12, <3>4, InvServe
  <2>4. CASE DataUnsub(m)
    <3>1. m.op = "unsub" /\ Serve(s, m, m.p \notin dataConn) /\ keys' = keys
          /\ stateConn' = stateConn
          /\ dataConn' = dataConn \ {m.p} /\ dataSubs' = dataSubs \ {<<m.g, m.p>>}
      BY <1>12, <2>4 DEF DataUnsub
    <3>2. m.p \in dataConn
      <4>1. On("data", m.g, m.p)
        BY <1>1, <1>2, <1>7, <1>12, <3>1, StillOn
      <4>2. QED
        BY <1>7, <1>9, <1>10, <3>1, <4>1
    <3>3. (m.p \notin dataConn) = FALSE
      BY <3>2
    <3>4. Serve(s, m, FALSE)
      BY <3>1, <3>3
    <3>5. ASSUME NEW r \in Sides, NEW g \in Topics, NEW p \in Peers, <<g, p>> \in asked, On(r, g, p)
          PROVE  On(r, g, p)' \/ (r = s /\ g = m.g /\ p = m.p /\ s = "data" /\ m.op = "unsub")
      <4>1. CASE p = m.p
        <5>1. g = m.g
          BY <1>6, <1>7, <3>1, <3>5, <4>1
        <5>2. QED
          BY <1>12, <3>1, <3>5, <4>1, <5>1 DEF On
      <4>2. CASE p # m.p
        <5>1. <<g, p>> # <<m.g, m.p>>
          BY <4>2
        <5>2. QED
          BY <3>1, <3>5, <4>2, <5>1 DEF On
      <4>3. QED
        BY <4>1, <4>2
    <3>6. m.op # "connect" /\ m.op # "auth"
      BY <3>1
    <3>7. SwitchesOff(s, m)
      BY <3>5 DEF SwitchesOff
    <3>8. QED
      BY <1>1, <1>2, <3>1, <3>4, <3>6, <3>7, InvServe
  <2>5. CASE DataUnsubAll(m)
    <3> DEFINE pubs == members[m.g] \cap Publishers
    <3>1. /\ m.op = "unsubAll" /\ Serve(s, m, ~(pubs \subseteq dataConn)) /\ keys' = keys
          /\ stateConn' = stateConn /\ dataConn' \in Disconnected(dataConn, pubs)
          /\ pubs \subseteq dataConn => dataSubs' = dataSubs \ ({m.g} \X pubs)
      BY <1>12, <2>5 DEF DataUnsubAll
    <3>2. pubs \subseteq dataConn
      <4>1. ASSUME NEW p \in pubs PROVE p \in dataConn
        <5>1. p \in Peers /\ p \in members[m.g] /\ p \in Publishers
          BY <1>3, <1>5
        <5>2. On("data", m.g, p)
          BY <1>1, <1>2, <1>12, <3>1, <5>1, StillOn
        <5>3. QED
          BY <1>10, <5>1, <5>2
      <4>2. QED
        BY <4>1
    <3> HIDE DEF pubs
    <3>3. (~(pubs \subseteq dataConn)) = FALSE
      BY <3>2
    <3>4. /\ Serve(s, m, FALSE) /\ dataConn' = dataConn \ pubs
          /\ dataSubs' = dataSubs \ ({m.g} \X pubs)
      BY <3>1, <3>2, <3>3 DEF Disconnected
    <3>5. ASSUME NEW r \in Sides, NEW g \in Topics, NEW p \in Peers, <<g, p>> \in asked, On(r, g, p)
          PROVE  On(r, g, p)' \/ (r = s /\ g = m.g /\ m.op = "unsubAll")
      <4>1. CASE p \in members[m.g]
        <5>1. g = m.g
          BY <1>6, <3>5, <4>1
        <5>2. QED
          BY <1>12, <3>1, <3>5, <5>1 DEF On
      <4>2. CASE p \notin members[m.g]
        BY <3>1, <3>4, <3>5, <4>2 DEF On, pubs
      <4>3. QED
        BY <4>1, <4>2
    <3>6. SwitchesOff(s, m)
      BY <3>5 DEF SwitchesOff
    <3>7. QED
      BY <1>1, <1>2, <3>1, <3>4, <3>6, InvServe
  <2>6. QED
    BY <2>1, <2>2, <2>3, <2>4, <2>5
<1>13. QED
  BY <1>11, <1>12 DEF Listen

LEMMA InvNext == ASSUME OneGroupEach PROVE IInv /\ [Next]_vars => IInv'
<1> SUFFICES ASSUME IInv, [Next]_vars PROVE IInv'
  OBVIOUS
<1>1. TypeInv'
  BY TypeNext DEF IInv
<1>2. /\ members \in [Topics -> SUBSET Peers]
      /\ \A g \in Topics : \A p \in members[g] : <<g, p>> \in asked
      /\ open \in [{"internal", "external"} -> BOOLEAN]
      /\ open["internal"] => open["external"]
  BY DEF IInv, TypeInv, TypeOK, Order, MembersAsked, ClosedInOrder
\* An operation on one member, or on all, that is under way.
<1>3. ASSUME NEW t \in Callers, Working(t)
      PROVE  task[t].kind = "leave" => task[t].p = Nobody
  BY <1>3, ScriptFacts DEF IInv, TypeInv, Scripts
<1>4. ASSUME NEW g \in Topics, Enter(g) PROVE IInv'
  BY <1>1, <1>2, <1>4, InvStore DEF Enter
<1>5. ASSUME NEW t \in Callers, NEW g \in Topics, Leave(t, g) PROVE IInv'
  <2> DEFINE rs == <<"unsubAll", "publish">>
  <2>1. rs \in Seq(Ops \cup {"publish"}) /\ "leave" \in Kinds
    BY DEF Ops, Kinds
  <2>2. \A u \in Callers : ~(Working(u) /\ task[u].g = g)
    BY <1>5 DEF Leave, Working
  <2>3. Start(t, "leave", g, Nobody, rs) /\ asked' = asked
    BY <1>5 DEF Leave
  <2> HIDE DEF rs
  <2>4. QED
    BY <1>1, <2>1, <2>2, <2>3, InvStart
<1>6. ASSUME NEW t \in Callers, NEW g \in Topics, Send(t, g) PROVE IInv'
  <2>1. <<"publish">> \in Seq(Ops \cup {"publish"}) /\ "send" \in Kinds
    BY DEF Ops, Kinds
  <2>2. QED
    BY <1>1, <1>6, <2>1, InvStart DEF Send
<1>7. ASSUME CloseConnector PROVE IInv'
  BY <1>1, <1>2, <1>7, InvStore DEF CloseConnector, store
<1>8. ASSUME ClosePublisher PROVE IInv'
  BY <1>1, <1>2, <1>8, InvStore DEF ClosePublisher, store
<1>9. ASSUME NEW g \in Topics, NEW p \in Peers, Learn(g, p) PROVE IInv'
  <2>1. \A h \in Topics : /\ \A q \in members'[h] : <<h, q>> \in asked
                          /\ members[h] \subseteq members'[h]
    BY <1>2, <1>9 DEF Learn
  <2>2. QED
    BY <1>1, <1>2, <1>9, <2>1, InvStore DEF Learn
<1>10. ASSUME NEW t \in Callers, NEW g \in Topics, NEW p \in Peers, Add(t, g, p) PROVE IInv'
  <2> DEFINE rs == <<"auth", "connect">>
  <2>1. rs \in Seq(Ops \cup {"publish"}) /\ "add" \in Kinds
    BY DEF Ops, Kinds
  <2>2. \A u \in Callers : Working(u) /\ task[u].g = g =>
            task[u].kind = "send" \/ (task[u].kind # "leave" /\ task[u].p # p)
    BY <1>3, <1>10 DEF Add, Busy, Working
  <2>3. Start(t, "add", g, p, rs) /\ asked' = asked \cup {<<g, p>>}
        /\ Head(rs) = "auth"
    BY <1>10, Tuples DEF Add
  <2> HIDE DEF rs
  <2>4. QED
    BY <1>1, <2>1, <2>2, <2>3, InvStart
<1>11. ASSUME NEW t \in Callers, NEW g \in Topics, NEW p \in Peers, Remove(t, g, p) PROVE IInv'
  <2> DEFINE rs == IF p \in Publishers THEN <<"disconnect", "unsub">> ELSE <<"disconnect">>
  <2>1. rs \in Seq(Ops \cup {"publish"}) /\ "remove" \in Kinds
    <3>1. /\ <<"disconnect", "unsub">> \in Seq(Ops \cup {"publish"})
          /\ <<"disconnect">> \in Seq(Ops \cup {"publish"})
      BY DEF Ops
    <3>2. QED
      BY <3>1 DEF Kinds
  <2>2. \A u \in Callers : Working(u) /\ task[u].g = g =>
            task[u].kind = "send" \/ (task[u].kind # "leave" /\ task[u].p # p)
    BY <1>3, <1>11 DEF Remove, Busy, Working
  <2>3. Start(t, "remove", g, p, rs) /\ asked' = asked /\ p \in members[g]
    BY <1>11 DEF Remove
  <2> HIDE DEF rs
  <2>4. QED
    BY <1>1, <2>1, <2>2, <2>3, InvStart
<1>12. CASE UNCHANGED vars
  BY <1>1, <1>2, <1>12, InvStore DEF vars, store
<1>13. CASE Next
  BY <1>1, <1>4, <1>5, <1>6, <1>7, <1>8, <1>9, <1>10, <1>11, <1>13, InvTake, InvPublish,
     InvSendPublish, InvAnswer, InvListen DEF Next, UserStep, PeerStep, CallerStep
<1>14. QED
  BY <1>12, <1>13

\* If no peer is in two groups, everything under way is awaited (Awaited): no
\* caller gives up or goes on while a request of its own is with a listener, so
\* no listener blocks on a reply that nobody takes (replyErr).
THEOREM AwaitedHolds == ASSUME OneGroupEach PROVE Spec => []Awaited
<1>1. IInv => Awaited
  <2> SUFFICES ASSUME IInv PROVE Awaited
    OBVIOUS
  <2>1. \A s \in Sides : \A i \in 1..Len(queue[s]) :
            /\ Awaits(queue[s][i].t, queue[s][i].n)
            /\ s = "state" => wait[queue[s][i].t] = "state"
    BY DEF IInv, Flow, QueueFits, Current, Handled, Awaits, Sides
  <2>2. QED
    BY <2>1 DEF IInv, Flow, ConnFits, Current, ReplyFits, Awaited, Awaits, Sides
<1>2. QED
  BY <1>1, InvInit, InvNext, PTL DEF Spec

\* If no peer is in two groups, then, when no operation is under way and the
\* agent is not closed, the peers that subscribed and have not left are
\* authorised and connected on both sides (MembersConnected).
THEOREM MembersConnectedHolds == ASSUME OneGroupEach PROVE Spec => []MembersConnected
<1>1. IInv => MembersConnected
  <2> SUFFICES ASSUME IInv, Quiet, open["internal"], NEW x \in asked
               PROVE  /\ x[2] \in stateConn /\ x[2] \in keys
                      /\ x[2] \in Publishers => x[2] \in dataConn /\ x \in dataSubs
    BY DEF MembersConnected
  <2>1. PICK g \in Topics, p \in Peers : x = <<g, p>>
    BY TransportAssumption DEF IInv, TypeInv, TypeOK
  <2>2. \A t \in Callers : ~Working(t)
    BY DEF Quiet, Working
  <2>3. p \in keys /\ \A s \in Sides : On(s, g, p)
    BY <2>1, <2>2 DEF IInv, SocketsFit, KeysFit, Broken, Off, Unkeyed
  <2>4. QED
    BY <2>1, <2>3 DEF On, Sides
<1>2. QED
  BY <1>1, InvInit, InvNext, PTL DEF Spec
=============================================================================
