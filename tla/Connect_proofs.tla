--------------------------- MODULE Connect_proofs ---------------------------
(***************************************************************************)
(* Proofs about Connect, for every set of agents and however their calls   *)
(* overlap: its types; that the listen goroutines cannot wait for each     *)
(* other in a circle as long as invitations are not accepted in one; that  *)
(* who knows an inviter is known by it, or about to be; and, for agents    *)
(* that do one exchange with a peer at a time, that SyncAccept returns     *)
(* only when the services of the peer are known.                           *)
(***************************************************************************)
EXTENDS Connect, WellFoundedInduction, TLAPS

\* Exchanges come from invitations.
CallsInvited == \A x \in Exchs : Begun(x) => <<Requester(x), Inviter(x)>> \in Invited

\* Messages belong to exchanges that have begun.
WireBegun == \A m \in wire : Begun(m.exch)

\* What a listen goroutine has was sent to its agent.
ListenFor == \A a \in Agents : listen[a].step # "idle" =>
                /\ Begun(listen[a].msg.exch)
                /\ Receiver(listen[a].msg) = a
                /\ listen[a].step \in SetUps \cup {"sent", "add"} => listen[a].msg.typ = "req"
                /\ listen[a].step \in {"ownPublic", "ownPrivate", "open", "signal", "blocked"}
                      => listen[a].msg.typ = "res"

\* Responses are sent by the listen goroutine, which waits for each.
ResOnWire == \A m \in wire : m.typ = "res" =>
                /\ listen[Inviter(m.exch)].step = "sent"
                /\ listen[Inviter(m.exch)].msg.exch = m.exch
                /\ \A n \in wire : n.typ = "res" /\ Inviter(n.exch) = Inviter(m.exch) => n = m

IInv == /\ TypeOK
        /\ CallsInvited
        /\ WireBegun
        /\ ListenFor
        /\ ResOnWire
-----------------------------------------------------------------------------
(* Records and tables *)

\* The entry of one pair changes.
LEMMA PairUpdate ==
    ASSUME NEW S, NEW f \in PerPair(S), NEW a \in Agents, NEW b \in Agents, NEW v \in S,
           NEW g, g = [f EXCEPT ![a][b] = v]
    PROVE  /\ g \in PerPair(S) /\ g[a][b] = v
           /\ \A p, q \in Agents : p # a \/ q # b => g[p][q] = f[p][q]
BY DEF PerPair

\* What is known of a call that has begun.
LEMMA CallFields ==
    ASSUME TypeOK, CallsInvited, NEW x \in Exchs, Begun(x)
    PROVE  /\ Requester(x) \in Agents /\ Inviter(x) \in Agents /\ Requester(x) # Inviter(x)
           /\ call[x].step \in SetUps \cup {"sent", "add", "store", "wait", "done"}
           /\ call[x].sync \in BOOLEAN /\ call[x].pub \in Nat /\ call[x].prv \in Nat
           /\ call[x] = [step |-> call[x].step, from |-> Requester(x), to |-> Inviter(x),
                         sync |-> call[x].sync, pub |-> call[x].pub, prv |-> call[x].prv]
<1>1. call[x] \in [step : SetUps \cup {"sent", "add", "store", "wait", "done"},
                   from : Agents, to : Agents, sync : BOOLEAN, pub : Nat, prv : Nat]
  BY DEF TypeOK, Calls, Begun
<1>2. Requester(x) # Inviter(x)
  BY ConnectAssumption DEF CallsInvited
<1> QED BY <1>1, <1>2 DEF Requester, Inviter

\* Call x takes a step that changes nothing but where it is.
LEMMA CallGoes ==
    ASSUME TypeOK, CallsInvited, NEW x \in Exchs, Begun(x),
           NEW st \in {"sent", "add", "store", "wait", "done"},
           call' = [call EXCEPT ![x].step = st]
    PROVE  /\ call' \in [Exchs -> Calls] /\ call'[x].step = st
           /\ call'[x].from = Requester(x) /\ call'[x].to = Inviter(x)
           /\ call'[x].pub = call[x].pub /\ call'[x].prv = call[x].prv
           /\ call'[x].sync = call[x].sync
           /\ \A y \in Exchs \ {x} : call'[y] = call[y]
<1> DEFINE new == [step |-> st, from |-> Requester(x), to |-> Inviter(x),
                   sync |-> call[x].sync, pub |-> call[x].pub, prv |-> call[x].prv]
<1>1. call[x] \in [step : SetUps \cup {"sent", "add", "store", "wait", "done"},
                   from : Agents, to : Agents, sync : BOOLEAN, pub : Nat, prv : Nat]
  BY DEF TypeOK, Calls, Begun
<1>2. [call[x] EXCEPT !.step = st] = new
  BY <1>1 DEF Requester, Inviter
<1>3. new \in Calls
  BY CallFields DEF Calls
<1>4. call' = [call EXCEPT ![x] = new]
  BY <1>2
<1>5. /\ new.step = st /\ new.from = Requester(x) /\ new.to = Inviter(x)
      /\ new.pub = call[x].pub /\ new.prv = call[x].prv /\ new.sync = call[x].sync
  OBVIOUS
<1> HIDE DEF new
<1> QED BY <1>3, <1>4, <1>5 DEF TypeOK

\* What the listen goroutine holds while it is not idle.
LEMMA ListenFields ==
    ASSUME TypeOK, NEW a \in Agents, listen[a].step # "idle"
    PROVE  /\ listen[a].msg \in Messages
           /\ listen[a].step \in SetUps \cup {"got", "sent", "add", "ownPublic", "ownPrivate",
                                              "open", "signal", "blocked"}
           /\ listen[a].pub \in Nat /\ listen[a].prv \in Nat
           /\ listen[a] = [step |-> listen[a].step, msg |-> listen[a].msg,
                           pub |-> listen[a].pub, prv |-> listen[a].prv]
BY DEF TypeOK, Listens

\* The listen goroutine of a goes on with the message it has.
LEMMA ListenGoes ==
    ASSUME TypeOK, NEW a \in Agents, listen[a].step # "idle",
           NEW st \in SetUps \cup {"got", "sent", "add", "ownPublic", "ownPrivate",
                                   "open", "signal", "blocked"},
           listen' = [listen EXCEPT ![a].step = st]
    PROVE  /\ listen' \in [Agents -> Listens] /\ listen'[a].step = st
           /\ listen'[a].msg = listen[a].msg
           /\ listen'[a].pub = listen[a].pub /\ listen'[a].prv = listen[a].prv
           /\ \A p \in Agents \ {a} : listen'[p] = listen[p]
<1> DEFINE new == [step |-> st, msg |-> listen[a].msg,
                   pub |-> listen[a].pub, prv |-> listen[a].prv]
<1>1. [listen[a] EXCEPT !.step = st] = new
  BY DEF TypeOK, Listens
<1>2. new \in Listens
  BY ListenFields DEF Listens
<1>3. listen' = [listen EXCEPT ![a] = new]
  BY <1>1
<1> QED BY <1>2, <1>3 DEF TypeOK

\* It is done with it.
LEMMA ListenEnds ==
    ASSUME TypeOK, NEW a \in Agents, listen' = [listen EXCEPT ![a] = Idle]
    PROVE  /\ listen' \in [Agents -> Listens] /\ listen'[a].step = "idle"
           /\ \A p \in Agents \ {a} : listen'[p] = listen[p]
BY DEF TypeOK, Listens, Idle

\* A key pair is made for the peer b of a, or a's document for it replaced.
LEMMA SetUpTables ==
    ASSUME TypeOK, NEW a \in Agents, NEW b \in Agents, NEW t, t.pub \in Nat, SetUp(a, b, t)
    PROVE  /\ t.step \in {"generate", "public", "private", "doc"}
           /\ key' \in PerPair(Nat) /\ doc' \in PerPair(Nat)
           /\ \A p, q \in Agents :
                 p # a \/ q # b => key'[p][q] = key[p][q] /\ doc'[p][q] = doc[p][q]
           /\ key'[a][b] = IF t.step = "generate" THEN key[a][b] + 1 ELSE key[a][b]
           /\ doc'[a][b] = IF t.step = "doc" THEN t.pub ELSE doc[a][b]
<1>1. t.step \in {"generate", "public", "private", "doc"}
  BY DEF SetUp, SetUps
<1>2. key[a][b] \in Nat /\ doc[a][b] \in Nat
  BY DEF TypeOK, PerPair
<1> DEFINE k == IF t.step = "generate" THEN key[a][b] + 1 ELSE key[a][b]
           d == IF t.step = "doc" THEN t.pub ELSE doc[a][b]
<1>3. k \in Nat /\ d \in Nat
  BY <1>2
<1>4. key' = [key EXCEPT ![a][b] = k] /\ doc' = [doc EXCEPT ![a][b] = d]
  BY DEF SetUp
<1>5. key \in PerPair(Nat) /\ doc \in PerPair(Nat)
  BY DEF TypeOK
<1> HIDE DEF k, d
<1>6. /\ key' \in PerPair(Nat) /\ key'[a][b] = k
      /\ \A p, q \in Agents : p # a \/ q # b => key'[p][q] = key[p][q]
  BY <1>3, <1>4, <1>5 DEF PerPair
<1>7. /\ doc' \in PerPair(Nat) /\ doc'[a][b] = d
      /\ \A p, q \in Agents : p # a \/ q # b => doc'[p][q] = doc[p][q]
  BY <1>3, <1>4, <1>5 DEF PerPair
<1> QED BY <1>1, <1>6, <1>7 DEF k, d

\* What AfterSetUp does, as seen in the parts of a thread.
SetUpDone(t, u, k) ==
    /\ u.step = CASE t.step = "generate" -> "public"
                  [] t.step = "public"   -> "private"
                  [] t.step = "private"  -> "doc"
                  [] t.step = "doc"      -> "send"
    /\ u.pub = IF t.step = "public" THEN k ELSE t.pub
    /\ u.prv = IF t.step = "private" THEN k ELSE t.prv

LEMMA CallSetUp ==
    ASSUME TypeOK, CallsInvited, NEW x \in Exchs, Begun(x),
           call[x].step \in {"generate", "public", "private", "doc"},
           call' = [call EXCEPT ![x] = AfterSetUp(Requester(x), Inviter(x), @)]
    PROVE  /\ call' \in [Exchs -> Calls]
           /\ SetUpDone(call[x], call'[x], key[Requester(x)][Inviter(x)])
           /\ call'[x].from = Requester(x) /\ call'[x].to = Inviter(x)
           /\ call'[x].sync = call[x].sync
           /\ \A y \in Exchs \ {x} : call'[y] = call[y]
<1> DEFINE R == [step : SetUps \cup {"sent", "add", "store", "wait", "done"},
                 from : Agents, to : Agents, sync : BOOLEAN, pub : Nat, prv : Nat]
           u == AfterSetUp(Requester(x), Inviter(x), call[x])
           k == key[Requester(x)][Inviter(x)]
<1>1. call[x] \in R
  BY DEF TypeOK, Calls, Begun
<1>2. k \in Nat
  BY CallFields DEF TypeOK, PerPair
<1>3. u \in R /\ SetUpDone(call[x], u, k) /\ u.from = call[x].from /\ u.to = call[x].to
      /\ u.sync = call[x].sync
  <2>1. CASE call[x].step = "generate"
    BY <1>1, <2>1 DEF AfterSetUp, SetUpDone, SetUps
  <2>2. CASE call[x].step = "public"
    BY <1>1, <1>2, <2>2 DEF AfterSetUp, SetUpDone, SetUps
  <2>3. CASE call[x].step = "private"
    BY <1>1, <1>2, <2>3 DEF AfterSetUp, SetUpDone, SetUps
  <2>4. CASE call[x].step = "doc"
    BY <1>1, <2>4 DEF AfterSetUp, SetUpDone, SetUps
  <2> QED BY <2>1, <2>2, <2>3, <2>4
<1>4. u \in Calls
  BY <1>3 DEF Calls
<1>5. call' = [call EXCEPT ![x] = u]
  OBVIOUS
<1> HIDE DEF u
<1>6. call' \in [Exchs -> Calls] /\ call'[x] = u /\ \A y \in Exchs \ {x} : call'[y] = call[y]
  BY <1>4, <1>5 DEF TypeOK
<1> QED BY <1>3, <1>6 DEF Requester, Inviter

LEMMA ListenSetUp ==
    ASSUME TypeOK, NEW b \in Agents, NEW a \in Agents,
           listen[b].step \in {"generate", "public", "private", "doc"},
           listen' = [listen EXCEPT ![b] = AfterSetUp(b, a, @)]
    PROVE  /\ listen' \in [Agents -> Listens]
           /\ SetUpDone(listen[b], listen'[b], key[b][a])
           /\ listen'[b].msg = listen[b].msg
           /\ \A p \in Agents \ {b} : listen'[p] = listen[p]
<1> DEFINE R == [step : SetUps \cup {"got", "sent", "add", "ownPublic", "ownPrivate",
                                     "open", "signal", "blocked"},
                 msg : Messages, pub : Nat, prv : Nat]
           u == AfterSetUp(b, a, listen[b])
           k == key[b][a]
<1>1. listen[b] \in R
  BY DEF TypeOK, Listens
<1>2. k \in Nat
  BY DEF TypeOK, PerPair
<1>3. u \in R /\ SetUpDone(listen[b], u, k) /\ u.msg = listen[b].msg
  <2>1. CASE listen[b].step = "generate"
    BY <1>1, <2>1 DEF AfterSetUp, SetUpDone, SetUps
  <2>2. CASE listen[b].step = "public"
    BY <1>1, <1>2, <2>2 DEF AfterSetUp, SetUpDone, SetUps
  <2>3. CASE listen[b].step = "private"
    BY <1>1, <1>2, <2>3 DEF AfterSetUp, SetUpDone, SetUps
  <2>4. CASE listen[b].step = "doc"
    BY <1>1, <2>4 DEF AfterSetUp, SetUpDone, SetUps
  <2> QED BY <2>1, <2>2, <2>3, <2>4
<1>4. u \in Listens
  BY <1>3 DEF Listens
<1>5. listen' = [listen EXCEPT ![b] = u]
  OBVIOUS
<1> HIDE DEF u
<1>6. listen' \in [Agents -> Listens] /\ listen'[b] = u
      /\ \A p \in Agents \ {b} : listen'[p] = listen[p]
  BY <1>4, <1>5 DEF TypeOK
<1> QED BY <1>3, <1>6
-----------------------------------------------------------------------------
(* What each step does, as seen in the tables and records *)

\* Calls keep their parties.
KeepsParties == \A y \in Exchs : Begun(y) => /\ call'[y].step # "new"
                                             /\ call'[y].from = call[y].from
                                             /\ call'[y].to = call[y].to

LEMMA AcceptDoes ==
    ASSUME IInv, NEW a \in Agents, NEW b \in Agents, NEW sync \in BOOLEAN, Accept(a, b, sync)
    PROVE  \E x \in Exchs :
              /\ ~Begun(x) /\ <<a, b>> \in Invited
              /\ a \notin Hasty => ~UnderWay(a, b)
              /\ call' \in [Exchs -> Calls] /\ call'[x].step = "generate"
              /\ call'[x].from = a /\ call'[x].to = b
              /\ \A y \in Exchs \ {x} : call'[y] = call[y]
              /\ KeepsParties
              /\ UNCHANGED <<joins, key, doc, peers, chan, wire, listen, polls, crashed>>
<1> DEFINE new == [step |-> "generate", from |-> a, to |-> b,
                   sync |-> sync, pub |-> 0, prv |-> 0]
<1>1. PICK x \in Exchs : ~Begun(x) /\ call' = [call EXCEPT ![x] = new]
  BY DEF Accept
<1>2. new \in Calls /\ new.step = "generate" /\ new.from = a /\ new.to = b
  BY DEF Calls, SetUps
<1> HIDE DEF new
<1>3. call' \in [Exchs -> Calls] /\ call'[x] = new /\ \A y \in Exchs \ {x} : call'[y] = call[y]
  BY <1>1, <1>2 DEF IInv, TypeOK
<1>4. KeepsParties
  BY <1>1, <1>3 DEF KeepsParties, Begun
<1> QED BY <1>1, <1>2, <1>3, <1>4 DEF Accept

LEMMA SetUpReqDoes ==
    ASSUME IInv, NEW x \in Exchs, SetUpReq(x)
    PROVE  /\ Begun(x) /\ call[x].step \in {"generate", "public", "private", "doc"}
           /\ call' \in [Exchs -> Calls]
           /\ SetUpDone(call[x], call'[x], key[Requester(x)][Inviter(x)])
           /\ \A y \in Exchs \ {x} : call'[y] = call[y]
           /\ KeepsParties
           /\ key' \in PerPair(Nat) /\ doc' \in PerPair(Nat)
           /\ \A p, q \in Agents : p # Requester(x) \/ q # Inviter(x) =>
                 key'[p][q] = key[p][q] /\ doc'[p][q] = doc[p][q]
           /\ key'[Requester(x)][Inviter(x)] =
                 IF call[x].step = "generate" THEN key[Requester(x)][Inviter(x)] + 1
                 ELSE key[Requester(x)][Inviter(x)]
           /\ doc'[Requester(x)][Inviter(x)] =
                 IF call[x].step = "doc" THEN call[x].pub ELSE doc[Requester(x)][Inviter(x)]
           /\ UNCHANGED <<joins, peers, chan, wire, listen, polls, crashed>>
<1>1. TypeOK /\ CallsInvited /\ Begun(x)
  BY DEF IInv, SetUpReq
<1>2. Requester(x) \in Agents /\ Inviter(x) \in Agents /\ call[x].pub \in Nat
  BY <1>1, CallFields
<1>3. SetUp(Requester(x), Inviter(x), call[x])
  BY DEF SetUpReq
<1>4. /\ call[x].step \in {"generate", "public", "private", "doc"}
      /\ key' \in PerPair(Nat) /\ doc' \in PerPair(Nat)
      /\ \A p, q \in Agents : p # Requester(x) \/ q # Inviter(x) =>
            key'[p][q] = key[p][q] /\ doc'[p][q] = doc[p][q]
      /\ key'[Requester(x)][Inviter(x)] =
            IF call[x].step = "generate" THEN key[Requester(x)][Inviter(x)] + 1
            ELSE key[Requester(x)][Inviter(x)]
      /\ doc'[Requester(x)][Inviter(x)] =
            IF call[x].step = "doc" THEN call[x].pub ELSE doc[Requester(x)][Inviter(x)]
  BY <1>1, <1>2, <1>3, SetUpTables
<1>5. /\ call' \in [Exchs -> Calls]
      /\ SetUpDone(call[x], call'[x], key[Requester(x)][Inviter(x)])
      /\ call'[x].from = Requester(x) /\ call'[x].to = Inviter(x)
      /\ \A y \in Exchs \ {x} : call'[y] = call[y]
  BY <1>1, <1>4, CallSetUp DEF SetUpReq
<1>6. KeepsParties
  <2>1. call'[x].step # "new"
    BY <1>4, <1>5 DEF SetUpDone
  <2> QED BY <1>5, <2>1 DEF KeepsParties, Begun, Requester, Inviter
<1> QED BY <1>1, <1>4, <1>5, <1>6 DEF SetUpReq

LEMMA SendReqDoes ==
    ASSUME IInv, NEW x \in Exchs, SendReq(x)
    PROVE  /\ Begun(x) /\ call[x].step = "send"
           /\ call' \in [Exchs -> Calls] /\ call'[x].step = "sent"
           /\ \A y \in Exchs \ {x} : call'[y] = call[y]
           /\ KeepsParties
           /\ \E m \in Messages : /\ m.typ = "req" /\ m.exch = x
                                  /\ m.key = doc[Requester(x)][Inviter(x)]
                                  /\ m.whole = (call[x].pub = call[x].prv)
                                  /\ wire' = wire \cup {m}
           /\ UNCHANGED <<joins, key, doc, peers, chan, listen, polls, crashed>>
<1>1. TypeOK /\ CallsInvited /\ Begun(x) /\ call[x].step = "send"
  BY DEF IInv, SendReq, Begun
<1>2. /\ Requester(x) \in Agents /\ Inviter(x) \in Agents
      /\ call[x].pub \in Nat /\ call[x].prv \in Nat
  BY <1>1, CallFields
<1>3. /\ call' \in [Exchs -> Calls] /\ call'[x].step = "sent"
      /\ call'[x].from = Requester(x) /\ call'[x].to = Inviter(x)
      /\ \A y \in Exchs \ {x} : call'[y] = call[y]
  BY <1>1, CallGoes DEF SendReq
<1>4. KeepsParties
  BY <1>3 DEF KeepsParties, Begun, Requester, Inviter
<1> DEFINE k == doc[Requester(x)][Inviter(x)]
           m == ConnReq(x, k)
<1>5. k \in Nat
  BY <1>1, <1>2 DEF TypeOK, PerPair
<1>6. /\ m \in Messages /\ m.typ = "req" /\ m.exch = x /\ m.key = k
      /\ m.whole = (call[x].pub = call[x].prv)
  BY <1>2, <1>5 DEF ConnReq, Messages
<1>7. wire' = wire \cup {m}
  BY DEF SendReq, Put
<1> HIDE DEF m
<1> QED BY <1>1, <1>3, <1>4, <1>6, <1>7 DEF SendReq

LEMMA AddInviterDoes ==
    ASSUME IInv, NEW x \in Exchs, AddInviter(x)
    PROVE  /\ Begun(x) /\ call[x].step = "add"
           /\ call' \in [Exchs -> Calls] /\ call'[x].step \in {"store", "done"}
           /\ \A y \in Exchs \ {x} : call'[y] = call[y]
           /\ KeepsParties
           /\ peers' \in PerPair(Peers)
           /\ peers'[Requester(x)][Inviter(x)] = [exch |-> x, svc |-> 0]
           /\ \A p, q \in Agents : p # Requester(x) \/ q # Inviter(x) =>
                 peers'[p][q] = peers[p][q]
           /\ UNCHANGED <<joins, key, doc, chan, wire, listen, polls, crashed>>
<1>1. TypeOK /\ CallsInvited /\ Begun(x) /\ call[x].step = "add"
  BY DEF IInv, AddInviter, Begun
<1>2. Requester(x) \in Agents /\ Inviter(x) \in Agents
  BY <1>1, CallFields
<1>3. PICK st \in {"store", "done"} : call' = [call EXCEPT ![x].step = st]
  BY DEF AddInviter
<1>4. /\ call' \in [Exchs -> Calls] /\ call'[x].step = st
      /\ call'[x].from = Requester(x) /\ call'[x].to = Inviter(x)
      /\ \A y \in Exchs \ {x} : call'[y] = call[y]
  BY <1>1, <1>3, CallGoes
<1>5. KeepsParties
  BY <1>3, <1>4 DEF KeepsParties, Begun, Requester, Inviter
<1> DEFINE p0 == [exch |-> x, svc |-> 0]
<1>6. p0 \in Peers
  BY DEF Peers
<1>7. peers' = [peers EXCEPT ![Requester(x)][Inviter(x)] = p0] /\ peers \in PerPair(Peers)
  BY <1>1 DEF AddInviter, TypeOK
<1> HIDE DEF p0
<1>8. /\ peers' \in PerPair(Peers) /\ peers'[Requester(x)][Inviter(x)] = p0
      /\ \A p, q \in Agents : p # Requester(x) \/ q # Inviter(x) => peers'[p][q] = peers[p][q]
  BY <1>2, <1>6, <1>7 DEF PerPair
<1> QED BY <1>1, <1>3, <1>4, <1>5, <1>8 DEF AddInviter, p0

LEMMA StoreChanDoes ==
    ASSUME IInv, NEW x \in Exchs, StoreChan(x)
    PROVE  /\ Begun(x) /\ call[x].step = "store"
           /\ call' \in [Exchs -> Calls] /\ call'[x].step = "wait"
           /\ \A y \in Exchs \ {x} : call'[y] = call[y]
           /\ KeepsParties
           /\ chan' \in PerPair(Exchs \cup {0})
           /\ chan'[Requester(x)][Inviter(x)] = x
           /\ \A p, q \in Agents : p # Requester(x) \/ q # Inviter(x) =>
                 chan'[p][q] = chan[p][q]
           /\ UNCHANGED <<joins, key, doc, peers, wire, listen, polls, crashed>>
<1>1. TypeOK /\ CallsInvited /\ Begun(x) /\ call[x].step = "store"
  BY DEF IInv, StoreChan, Begun
<1>2. Requester(x) \in Agents /\ Inviter(x) \in Agents
  BY <1>1, CallFields
<1>3. /\ call' \in [Exchs -> Calls] /\ call'[x].step = "wait"
      /\ call'[x].from = Requester(x) /\ call'[x].to = Inviter(x)
      /\ \A y \in Exchs \ {x} : call'[y] = call[y]
  BY <1>1, CallGoes DEF StoreChan
<1>4. KeepsParties
  BY <1>3 DEF KeepsParties, Begun, Requester, Inviter
<1>5. chan' = [chan EXCEPT ![Requester(x)][Inviter(x)] = x] /\ chan \in PerPair(Exchs \cup {0})
  BY <1>1 DEF StoreChan, TypeOK
<1>6. /\ chan' \in PerPair(Exchs \cup {0}) /\ chan'[Requester(x)][Inviter(x)] = x
      /\ \A p, q \in Agents : p # Requester(x) \/ q # Inviter(x) => chan'[p][q] = chan[p][q]
  BY <1>2, <1>5 DEF PerPair
<1> QED BY <1>1, <1>3, <1>4, <1>6 DEF StoreChan

\* A request is taken by the listen goroutine of the inviter.
LEMMA HandReqDoes ==
    ASSUME IInv, NEW m, HandOver(m), m.typ = "req"
    PROVE  /\ m \in wire /\ m \in Messages /\ Begun(m.exch)
           /\ listen[Inviter(m.exch)].step = "idle"
           /\ call' \in [Exchs -> Calls] /\ call'[m.exch].step = "add"
           /\ \A y \in Exchs \ {m.exch} : call'[y] = call[y]
           /\ KeepsParties
           /\ wire' = wire \ {m}
           /\ listen' \in [Agents -> Listens]
           /\ listen'[Inviter(m.exch)].step = "got" /\ listen'[Inviter(m.exch)].msg = m
           /\ \A p \in Agents \ {Inviter(m.exch)} : listen'[p] = listen[p]
           /\ UNCHANGED <<joins, key, doc, peers, chan, polls, crashed>>
<1>1. TypeOK /\ CallsInvited /\ m \in wire /\ m \in Messages /\ Begun(m.exch)
      /\ m.exch \in Exchs
  BY DEF IInv, HandOver, WireBegun, TypeOK, Messages
<1>2. Requester(m.exch) \in Agents /\ Inviter(m.exch) \in Agents
  BY <1>1, CallFields
<1> DEFINE x == m.exch
           t == [step |-> "got", msg |-> m, pub |-> 0, prv |-> 0]
<1>3. /\ call' = [call EXCEPT ![x].step = "add"]
      /\ listen' = [listen EXCEPT ![Inviter(x)] = t]
      /\ wire' = wire \ {m} /\ listen[Inviter(x)].step = "idle"
  BY DEF HandOver, Receiver
<1>4. t \in Listens /\ t.step = "got" /\ t.msg = m
  BY <1>1 DEF Listens
<1> HIDE DEF t
<1>5. /\ listen' \in [Agents -> Listens] /\ listen'[Inviter(x)] = t
      /\ \A p \in Agents \ {Inviter(x)} : listen'[p] = listen[p]
  BY <1>1, <1>2, <1>3, <1>4 DEF TypeOK
<1>6. /\ call' \in [Exchs -> Calls] /\ call'[x].step = "add"
      /\ call'[x].from = Requester(x) /\ call'[x].to = Inviter(x)
      /\ \A y \in Exchs \ {x} : call'[y] = call[y]
  BY <1>1, <1>3, CallGoes
<1>7. KeepsParties
  BY <1>6 DEF KeepsParties, Begun, Requester, Inviter
<1> QED BY <1>1, <1>3, <1>4, <1>5, <1>6, <1>7 DEF HandOver

\* A response is taken by that of the requester; the inviter's goes on.
LEMMA HandResDoes ==
    ASSUME IInv, NEW m, HandOver(m), m.typ # "req"
    PROVE  /\ m \in wire /\ m \in Messages /\ m.typ = "res" /\ Begun(m.exch)
           /\ Requester(m.exch) # Inviter(m.exch)
           /\ listen[Requester(m.exch)].step = "idle"
           /\ listen[Inviter(m.exch)].step = "sent"
           /\ wire' = wire \ {m}
           /\ listen' \in [Agents -> Listens]
           /\ listen'[Requester(m.exch)].step = "got" /\ listen'[Requester(m.exch)].msg = m
           /\ listen'[Inviter(m.exch)].step = "add"
           /\ listen'[Inviter(m.exch)].msg = listen[Inviter(m.exch)].msg
           /\ \A p \in Agents \ {Requester(m.exch), Inviter(m.exch)} : listen'[p] = listen[p]
           /\ UNCHANGED <<call, joins, key, doc, peers, chan, polls, crashed>>
<1>1. TypeOK /\ CallsInvited /\ m \in wire /\ m \in Messages /\ m.typ = "res"
      /\ Begun(m.exch) /\ m.exch \in Exchs
  BY DEF IInv, HandOver, WireBegun, TypeOK, Messages
<1>2. /\ Requester(m.exch) \in Agents /\ Inviter(m.exch) \in Agents
      /\ Requester(m.exch) # Inviter(m.exch)
  BY <1>1, CallFields
<1> DEFINE a == Requester(m.exch)
           b == Inviter(m.exch)
           t == [step |-> "got", msg |-> m, pub |-> 0, prv |-> 0]
           u == [step |-> "add", msg |-> listen[b].msg,
                 pub |-> listen[b].pub, prv |-> listen[b].prv]
<1>3. listen[b].step = "sent" /\ listen[a].step = "idle" /\ wire' = wire \ {m}
  BY <1>1 DEF IInv, ResOnWire, HandOver, Receiver
<1>4. [listen[b] EXCEPT !.step = "add"] = u
  BY <1>1, <1>2, <1>3 DEF TypeOK, Listens
<1>5. t \in Listens /\ t.step = "got" /\ t.msg = m
  BY <1>1 DEF Listens
<1>6. u \in Listens /\ u.step = "add" /\ u.msg = listen[b].msg
  BY <1>1, <1>2, <1>3, ListenFields DEF Listens
<1>7. listen' = [[listen EXCEPT ![a] = t] EXCEPT ![b].step = "add"]
  BY <1>1, <1>2 DEF HandOver, Receiver, Sender
<1> HIDE DEF t
<1>8. listen' = [[listen EXCEPT ![a] = t] EXCEPT ![b] = u]
  <2>1. [listen EXCEPT ![a] = t][b] = listen[b]
    BY <1>1, <1>2 DEF TypeOK
  <2> QED BY <1>4, <1>7, <2>1
<1> HIDE DEF u
<1>9. /\ listen' \in [Agents -> Listens] /\ listen'[a] = t /\ listen'[b] = u
      /\ \A p \in Agents \ {a, b} : listen'[p] = listen[p]
  BY <1>1, <1>2, <1>5, <1>6, <1>8 DEF TypeOK
<1> QED BY <1>1, <1>2, <1>3, <1>5, <1>6, <1>9 DEF HandOver

\* What ListenFor gives of an agent whose listen goroutine is busy.
LEMMA Busy ==
    ASSUME IInv, NEW b \in Agents, listen[b].step # "idle"
    PROVE  /\ TypeOK /\ listen[b].msg \in Messages /\ listen[b].msg.exch \in Exchs
           /\ Begun(listen[b].msg.exch)
           /\ Requester(listen[b].msg.exch) \in Agents /\ Inviter(listen[b].msg.exch) \in Agents
           /\ Requester(listen[b].msg.exch) # Inviter(listen[b].msg.exch)
           /\ listen[b].msg.typ = "req" => /\ b = Inviter(listen[b].msg.exch)
                                           /\ Sender(listen[b].msg) = Requester(listen[b].msg.exch)
           /\ listen[b].msg.typ # "req" => /\ listen[b].msg.typ = "res"
                                           /\ b = Requester(listen[b].msg.exch)
                                           /\ Sender(listen[b].msg) = Inviter(listen[b].msg.exch)
           /\ Sender(listen[b].msg) \in Agents
           /\ listen[b].pub \in Nat /\ listen[b].prv \in Nat
<1>1. /\ TypeOK /\ CallsInvited /\ listen[b].msg \in Messages /\ Begun(listen[b].msg.exch)
      /\ Receiver(listen[b].msg) = b /\ listen[b].pub \in Nat /\ listen[b].prv \in Nat
  BY ListenFields DEF IInv, ListenFor
<1>2. /\ listen[b].msg.exch \in Exchs /\ listen[b].msg.typ \in {"req", "res"}
  BY <1>1 DEF Messages
<1>3. /\ Requester(listen[b].msg.exch) \in Agents /\ Inviter(listen[b].msg.exch) \in Agents
      /\ Requester(listen[b].msg.exch) # Inviter(listen[b].msg.exch)
  BY <1>1, <1>2, CallFields
<1> QED BY <1>1, <1>2, <1>3 DEF Receiver, Sender

LEMMA OpenReqDoes ==
    ASSUME IInv, NEW b \in Agents, OpenReq(b)
    PROVE  /\ listen[b].step = "got" /\ listen[b].msg.typ = "req"
           /\ listen' \in [Agents -> Listens]
           /\ \/ listen'[b].step = "generate" /\ listen'[b].msg = listen[b].msg
              \/ listen'[b].step = "idle" /\ ~listen[b].msg.whole
           /\ \A p \in Agents \ {b} : listen'[p] = listen[p]
           /\ UNCHANGED <<call, joins, key, doc, peers, chan, wire, polls, crashed>>
<1>1. TypeOK /\ listen[b].step = "got" /\ listen[b].msg.typ = "req"
  BY DEF IInv, OpenReq, IsReq
<1>2. CASE listen[b].msg.whole
  <2>1. listen' = [listen EXCEPT ![b].step = "generate"]
    BY <1>2 DEF OpenReq
  <2> QED BY <1>1, <2>1, ListenGoes DEF OpenReq, SetUps
<1>3. CASE ~listen[b].msg.whole
  <2>1. listen' = [listen EXCEPT ![b] = Idle]
    BY <1>3 DEF OpenReq
  <2> QED BY <1>1, <1>3, <2>1, ListenEnds DEF OpenReq
<1> QED BY <1>2, <1>3

LEMMA SetUpResDoes ==
    ASSUME IInv, NEW b \in Agents, NEW a, a = Sender(listen[b].msg), SetUpRes(b)
    PROVE  /\ listen[b].step \in {"generate", "public", "private", "doc"}
           /\ listen[b].msg.typ = "req" /\ a \in Agents
           /\ listen' \in [Agents -> Listens]
           /\ SetUpDone(listen[b], listen'[b], key[b][a])
           /\ listen'[b].msg = listen[b].msg
           /\ \A p \in Agents \ {b} : listen'[p] = listen[p]
           /\ key' \in PerPair(Nat) /\ doc' \in PerPair(Nat)
           /\ \A p, q \in Agents :
                 p # b \/ q # a => key'[p][q] = key[p][q] /\ doc'[p][q] = doc[p][q]
           /\ key'[b][a] = IF listen[b].step = "generate" THEN key[b][a] + 1 ELSE key[b][a]
           /\ doc'[b][a] = IF listen[b].step = "doc" THEN listen[b].pub ELSE doc[b][a]
           /\ UNCHANGED <<call, joins, peers, chan, wire, polls, crashed>>
<1>1. listen[b].step # "idle" /\ SetUp(b, a, listen[b])
      /\ listen' = [listen EXCEPT ![b] = AfterSetUp(b, a, @)]
  BY DEF SetUpRes
<1>2. TypeOK /\ a \in Agents /\ listen[b].pub \in Nat
  BY <1>1, Busy
<1>3. /\ listen[b].step \in {"generate", "public", "private", "doc"}
      /\ key' \in PerPair(Nat) /\ doc' \in PerPair(Nat)
      /\ \A p, q \in Agents :
            p # b \/ q # a => key'[p][q] = key[p][q] /\ doc'[p][q] = doc[p][q]
      /\ key'[b][a] = IF listen[b].step = "generate" THEN key[b][a] + 1 ELSE key[b][a]
      /\ doc'[b][a] = IF listen[b].step = "doc" THEN listen[b].pub ELSE doc[b][a]
  BY <1>1, <1>2, SetUpTables
<1>4. listen[b].msg.typ = "req"
  BY <1>1, <1>3 DEF IInv, ListenFor, SetUps
<1>5. /\ listen' \in [Agents -> Listens]
      /\ SetUpDone(listen[b], listen'[b], key[b][a])
      /\ listen'[b].msg = listen[b].msg
      /\ \A p \in Agents \ {b} : listen'[p] = listen[p]
  BY <1>1, <1>2, <1>3, ListenSetUp
<1> QED BY <1>2, <1>3, <1>4, <1>5 DEF SetUpRes

LEMMA SendResDoes ==
    ASSUME IInv, NEW b \in Agents, NEW a, a = Sender(listen[b].msg), SendRes(b)
    PROVE  /\ listen[b].step = "send" /\ listen[b].msg.typ = "req" /\ a \in Agents
           /\ listen' \in [Agents -> Listens]
           /\ listen'[b].step = "sent" /\ listen'[b].msg = listen[b].msg
           /\ \A p \in Agents \ {b} : listen'[p] = listen[p]
           /\ \E m \in Messages : /\ m.typ = "res" /\ m.exch = listen[b].msg.exch
                                  /\ m.key = doc[b][a] /\ m.seal = listen[b].msg.key
                                  /\ m.whole = (listen[b].pub = listen[b].prv)
                                  /\ wire' = wire \cup {m}
           /\ UNCHANGED <<call, joins, key, doc, peers, chan, polls, crashed>>
<1>1. listen[b].step = "send" /\ listen' = [listen EXCEPT ![b].step = "sent"]
  BY DEF SendRes
<1>2. /\ TypeOK /\ a \in Agents /\ listen[b].msg \in Messages
      /\ listen[b].pub \in Nat /\ listen[b].prv \in Nat
  BY <1>1, Busy
<1>3. listen[b].msg.typ = "req"
  BY <1>1 DEF IInv, ListenFor, SetUps
<1>4. /\ listen' \in [Agents -> Listens]
      /\ listen'[b].step = "sent" /\ listen'[b].msg = listen[b].msg
      /\ \A p \in Agents \ {b} : listen'[p] = listen[p]
  BY <1>1, <1>2, ListenGoes
<1> DEFINE m == ConnRes(listen[b], doc[b][a])
<1>5. doc[b][a] \in Nat
  BY <1>2 DEF TypeOK, PerPair
<1>6. /\ m \in Messages /\ m.typ = "res" /\ m.exch = listen[b].msg.exch
      /\ m.key = doc[b][a] /\ m.seal = listen[b].msg.key
      /\ m.whole = (listen[b].pub = listen[b].prv)
  BY <1>2, <1>5 DEF ConnRes, Messages
<1>7. wire' = wire \cup {m}
  BY DEF SendRes, Put
<1> HIDE DEF m
<1> QED BY <1>1, <1>2, <1>3, <1>4, <1>6, <1>7 DEF SendRes

LEMMA AddRequesterDoes ==
    ASSUME IInv, NEW b \in Agents, NEW a, a = Sender(listen[b].msg), AddRequester(b)
    PROVE  /\ listen[b].step = "add" /\ listen[b].msg.typ = "req" /\ a \in Agents
           /\ listen' \in [Agents -> Listens] /\ listen'[b].step = "idle"
           /\ \A p \in Agents \ {b} : listen'[p] = listen[p]
           /\ peers' \in PerPair(Peers)
           /\ peers'[b][a] = [exch |-> listen[b].msg.exch, svc |-> listen[b].msg.key]
           /\ \A p, q \in Agents : p # b \/ q # a => peers'[p][q] = peers[p][q]
           /\ UNCHANGED <<call, joins, key, doc, chan, wire, polls, crashed>>
<1>1. listen[b].step = "add" /\ listen' = [listen EXCEPT ![b] = Idle]
  BY DEF AddRequester
<1>2. TypeOK /\ a \in Agents /\ listen[b].msg \in Messages /\ listen[b].msg.exch \in Exchs
  BY <1>1, Busy
<1>3. listen[b].msg.typ = "req"
  BY <1>1 DEF IInv, ListenFor
<1>4. /\ listen' \in [Agents -> Listens] /\ listen'[b].step = "idle"
      /\ \A p \in Agents \ {b} : listen'[p] = listen[p]
  BY <1>1, <1>2, ListenEnds
<1> DEFINE r == [exch |-> listen[b].msg.exch, svc |-> listen[b].msg.key]
<1>5. r \in Peers
  BY <1>2 DEF Peers, Messages
<1>6. peers' = [peers EXCEPT ![b][a] = r] /\ peers \in PerPair(Peers)
  BY <1>2 DEF AddRequester, ReqPeer, TypeOK
<1> HIDE DEF r
<1>7. /\ peers' \in PerPair(Peers) /\ peers'[b][a] = r
      /\ \A p, q \in Agents : p # b \/ q # a => peers'[p][q] = peers[p][q]
  BY <1>2, <1>5, <1>6 DEF PerPair
<1> QED BY <1>1, <1>2, <1>3, <1>4, <1>7 DEF AddRequester, r

LEMMA FindPeerDoes ==
    ASSUME IInv, NEW a \in Agents, FindPeer(a)
    PROVE  /\ listen[a].step = "got" /\ listen[a].msg.typ = "res"
           /\ listen' \in [Agents -> Listens]
           /\ \/ /\ listen'[a].step = "ownPublic" /\ listen'[a].msg = listen[a].msg
                 /\ Known(listen[a].msg)
              \/ listen'[a].step = "idle" /\ ~Known(listen[a].msg)
           /\ \A p \in Agents \ {a} : listen'[p] = listen[p]
           /\ UNCHANGED <<call, joins, key, doc, peers, chan, wire, polls, crashed>>
<1>1. TypeOK /\ listen[a].step = "got" /\ listen[a].msg.typ = "res"
  BY Busy DEF IInv, FindPeer, IsReq
<1>2. CASE Known(listen[a].msg)
  <2>1. listen' = [listen EXCEPT ![a].step = "ownPublic"]
    BY <1>2 DEF FindPeer
  <2> QED BY <1>1, <1>2, <2>1, ListenGoes DEF FindPeer
<1>3. CASE ~Known(listen[a].msg)
  <2>1. listen' = [listen EXCEPT ![a] = Idle]
    BY <1>3 DEF FindPeer
  <2> QED BY <1>1, <1>3, <2>1, ListenEnds DEF FindPeer
<1> QED BY <1>2, <1>3

LEMMA ReadKeysDoes ==
    ASSUME IInv, NEW a \in Agents, NEW b, b = Sender(listen[a].msg), ReadKeys(a)
    PROVE  /\ listen[a].step \in {"ownPublic", "ownPrivate"} /\ listen[a].msg.typ = "res"
           /\ listen' \in [Agents -> Listens]
           /\ listen'[a].step = IF listen[a].step = "ownPublic" THEN "ownPrivate" ELSE "open"
           /\ listen'[a].msg = listen[a].msg
           /\ listen'[a].pub = IF listen[a].step = "ownPublic" THEN key[a][b] ELSE listen[a].pub
           /\ listen'[a].prv = IF listen[a].step = "ownPublic" THEN listen[a].prv ELSE key[a][b]
           /\ \A p \in Agents \ {a} : listen'[p] = listen[p]
           /\ UNCHANGED <<call, joins, key, doc, peers, chan, wire, polls, crashed>>
<1>1. listen[a].step \in {"ownPublic", "ownPrivate"}
  BY DEF ReadKeys
<1>2. TypeOK /\ b \in Agents
  BY <1>1, Busy
<1>3. listen[a].msg.typ = "res"
  BY <1>1 DEF IInv, ListenFor
<1>4. key[a][b] \in Nat
  BY <1>2 DEF TypeOK, PerPair
<1> DEFINE u == [step |-> IF listen[a].step = "ownPublic" THEN "ownPrivate" ELSE "open",
                 msg |-> listen[a].msg,
                 pub |-> IF listen[a].step = "ownPublic" THEN key[a][b] ELSE listen[a].pub,
                 prv |-> IF listen[a].step = "ownPublic" THEN listen[a].prv ELSE key[a][b]]
<1>5. u \in Listens
  BY <1>1, <1>2, <1>4, ListenFields DEF Listens
<1>6. listen' = [listen EXCEPT ![a] = u]
  <2>1. listen[a] \in [step : SetUps \cup {"got", "sent", "add", "ownPublic", "ownPrivate",
                                           "open", "signal", "blocked"},
                       msg : Messages, pub : Nat, prv : Nat]
    BY <1>1, <1>2 DEF TypeOK, Listens
  <2>2. CASE listen[a].step = "ownPublic"
    <3>1. listen' = [listen EXCEPT ![a].step = "ownPrivate", ![a].pub = key[a][b]]
      BY <2>2 DEF ReadKeys
    <3>2. [listen[a] EXCEPT !.step = "ownPrivate"] =
             [step |-> "ownPrivate", msg |-> listen[a].msg,
              pub |-> listen[a].pub, prv |-> listen[a].prv]
      BY <2>1
    <3>3. [[step |-> "ownPrivate", msg |-> listen[a].msg,
            pub |-> listen[a].pub, prv |-> listen[a].prv] EXCEPT !.pub = key[a][b]] = u
      BY <2>2
    <3>4. [[listen[a] EXCEPT !.step = "ownPrivate"] EXCEPT !.pub = key[a][b]] = u
      BY <3>2, <3>3
    <3> HIDE DEF u
    <3> QED BY <1>2, <3>1, <3>4 DEF TypeOK
  <2>3. CASE listen[a].step = "ownPrivate"
    <3>1. listen' = [listen EXCEPT ![a].step = "open", ![a].prv = key[a][b]]
      BY <2>3 DEF ReadKeys
    <3>2. [listen[a] EXCEPT !.step = "open"] =
             [step |-> "open", msg |-> listen[a].msg,
              pub |-> listen[a].pub, prv |-> listen[a].prv]
      BY <2>1
    <3>3. [[step |-> "open", msg |-> listen[a].msg,
            pub |-> listen[a].pub, prv |-> listen[a].prv] EXCEPT !.prv = key[a][b]] = u
      BY <2>3
    <3>4. [[listen[a] EXCEPT !.step = "open"] EXCEPT !.prv = key[a][b]] = u
      BY <3>2, <3>3
    <3> HIDE DEF u
    <3> QED BY <1>2, <3>1, <3>4 DEF TypeOK
  <2> QED BY <1>1, <2>2, <2>3
<1>7. /\ u.step = IF listen[a].step = "ownPublic" THEN "ownPrivate" ELSE "open"
      /\ u.msg = listen[a].msg
      /\ u.pub = IF listen[a].step = "ownPublic" THEN key[a][b] ELSE listen[a].pub
      /\ u.prv = IF listen[a].step = "ownPublic" THEN listen[a].prv ELSE key[a][b]
  OBVIOUS
<1> HIDE DEF u
<1>8. /\ listen' \in [Agents -> Listens] /\ listen'[a] = u
      /\ \A p \in Agents \ {a} : listen'[p] = listen[p]
  BY <1>2, <1>5, <1>6 DEF TypeOK
<1> QED BY <1>1, <1>3, <1>7, <1>8 DEF ReadKeys

LEMMA OpenResDoes ==
    ASSUME IInv, NEW a \in Agents, NEW b, b = Sender(listen[a].msg), OpenRes(a)
    PROVE  /\ listen[a].step = "open" /\ listen[a].msg.typ = "res" /\ b \in Agents
           /\ listen' \in [Agents -> Listens]
           /\ \A p \in Agents \ {a} : listen'[p] = listen[p]
           /\ peers' \in PerPair(Peers)
           /\ \A p, q \in Agents : p # a \/ q # b => peers'[p][q] = peers[p][q]
           /\ \/ /\ listen'[a].step = "signal" /\ listen'[a].msg = listen[a].msg
                 /\ peers'[a][b] = [exch |-> listen[a].msg.exch, svc |-> listen[a].msg.key]
              \/ /\ listen'[a].step = "idle" /\ peers'[a][b] = peers[a][b]
                 /\ ~Opens(listen[a])
           /\ UNCHANGED <<call, joins, key, doc, chan, wire, polls, crashed>>
<1>1. listen[a].step = "open"
  BY DEF OpenRes
<1>2. TypeOK /\ b \in Agents /\ listen[a].msg \in Messages /\ listen[a].msg.exch \in Exchs
  BY <1>1, Busy
<1>3. listen[a].msg.typ = "res"
  BY <1>1 DEF IInv, ListenFor
<1>4. CASE Opens(listen[a])
  <2> DEFINE r == [exch |-> listen[a].msg.exch, svc |-> listen[a].msg.key]
  <2>1. listen' = [listen EXCEPT ![a].step = "signal"]
    BY <1>4 DEF OpenRes
  <2>2. /\ listen' \in [Agents -> Listens]
        /\ listen'[a].step = "signal" /\ listen'[a].msg = listen[a].msg
        /\ \A p \in Agents \ {a} : listen'[p] = listen[p]
    BY <1>1, <1>2, <2>1, ListenGoes
  <2>3. r \in Peers
    BY <1>2 DEF Peers, Messages
  <2>4. peers' = [peers EXCEPT ![a][b] = r] /\ peers \in PerPair(Peers)
    BY <1>2, <1>4 DEF OpenRes, ResPeer, TypeOK
  <2> HIDE DEF r
  <2>5. /\ peers' \in PerPair(Peers) /\ peers'[a][b] = r
        /\ \A p, q \in Agents : p # a \/ q # b => peers'[p][q] = peers[p][q]
    BY <1>2, <2>3, <2>4 DEF PerPair
  <2> QED BY <1>1, <1>2, <1>3, <2>2, <2>5 DEF OpenRes, r
<1>5. CASE ~Opens(listen[a])
  <2>1. listen' = [listen EXCEPT ![a] = Idle] /\ peers' = peers
    BY <1>5 DEF OpenRes
  <2>2. /\ listen' \in [Agents -> Listens] /\ listen'[a].step = "idle"
        /\ \A p \in Agents \ {a} : listen'[p] = listen[p]
    BY <1>2, <2>1, ListenEnds
  <2> QED BY <1>1, <1>2, <1>3, <1>5, <2>1, <2>2 DEF OpenRes, TypeOK
<1> QED BY <1>4, <1>5

LEMMA SignalDoes ==
    ASSUME IInv, NEW a \in Agents, NEW b, b = Sender(listen[a].msg), Signal(a)
    PROVE  /\ listen[a].step = "signal" /\ listen[a].msg.typ = "res" /\ b \in Agents
           /\ listen' \in [Agents -> Listens]
           /\ \A p \in Agents \ {a} : listen'[p] = listen[p]
           /\ call' \in [Exchs -> Calls] /\ KeepsParties
           /\ \/ listen'[a].step = "idle" /\ call' = call
              \/ /\ listen'[a].step = "blocked" /\ listen'[a].msg = listen[a].msg
                 /\ call' = call
              \/ /\ listen'[a].step = "idle"
                 /\ \E x \in Exchs : /\ chan[a][b] = x
                                     /\ call[x].step = "wait" /\ call'[x].step = "done"
                                     /\ \A y \in Exchs \ {x} : call'[y] = call[y]
           /\ UNCHANGED <<joins, key, doc, peers, chan, wire, polls, crashed>>
<1>1. listen[a].step = "signal"
  BY DEF Signal
<1>2. TypeOK /\ CallsInvited /\ b \in Agents
  BY <1>1, Busy DEF IInv
<1>3. listen[a].msg.typ = "res"
  BY <1>1 DEF IInv, ListenFor
<1> DEFINE x == chan[a][b]
<1>4. x \in Exchs \cup {0}
  BY <1>2 DEF TypeOK, PerPair
<1>5. UNCHANGED <<joins, key, doc, peers, chan, wire, polls, crashed>>
  BY DEF Signal
<1>6. call' = call => call' \in [Exchs -> Calls] /\ KeepsParties
  BY <1>2 DEF TypeOK, KeepsParties, Begun
<1>7. listen' = [listen EXCEPT ![a] = Idle] =>
          /\ listen' \in [Agents -> Listens] /\ listen'[a].step = "idle"
          /\ \A p \in Agents \ {a} : listen'[p] = listen[p]
  BY <1>2, ListenEnds
<1>8. CASE x = 0
  <2>1. listen' = [listen EXCEPT ![a] = Idle] /\ call' = call
    BY <1>8 DEF Signal
  <2> QED BY <1>1, <1>2, <1>3, <1>5, <1>6, <1>7, <2>1
<1>9. CASE x # 0 /\ call[x].step = "wait"
  <2>1. listen' = [listen EXCEPT ![a] = Idle] /\ call' = [call EXCEPT ![x].step = "done"]
    BY <1>9 DEF Signal
  <2>2. x \in Exchs /\ Begun(x)
    BY <1>4, <1>9 DEF Begun
  <2>3. /\ call' \in [Exchs -> Calls] /\ call'[x].step = "done"
        /\ call'[x].from = Requester(x) /\ call'[x].to = Inviter(x)
        /\ \A y \in Exchs \ {x} : call'[y] = call[y]
    BY <1>2, <2>1, <2>2, CallGoes
  <2>4. KeepsParties
    BY <2>3 DEF KeepsParties, Begun, Requester, Inviter
  <2> QED BY <1>1, <1>2, <1>3, <1>5, <1>7, <1>9, <2>1, <2>2, <2>3, <2>4
<1>10. CASE x # 0 /\ call[x].step # "wait"
  <2>1. listen' = [listen EXCEPT ![a].step = "blocked"] /\ call' = call
    BY <1>10 DEF Signal
  <2>2. /\ listen' \in [Agents -> Listens]
        /\ listen'[a].step = "blocked" /\ listen'[a].msg = listen[a].msg
        /\ \A p \in Agents \ {a} : listen'[p] = listen[p]
    BY <1>1, <1>2, <2>1, ListenGoes
  <2> QED BY <1>1, <1>2, <1>3, <1>5, <1>6, <2>1, <2>2
<1> QED BY <1>8, <1>9, <1>10
-----------------------------------------------------------------------------
(* The invariant *)

LEMMA InitIInv == Init => IInv
<1> SUFFICES ASSUME Init PROVE IInv
  OBVIOUS
<1>1. TypeOK
  <2>1. New \in Calls /\ Idle \in Listens /\ NoPeer \in Peers
    BY DEF New, Calls, Idle, Listens, NoPeer, Peers
  <2> QED BY <2>1 DEF Init, TypeOK, PerPair
<1>2. CallsInvited /\ WireBegun /\ ListenFor /\ ResOnWire
  BY DEF Init, CallsInvited, Begun, New, WireBegun, ListenFor, ResOnWire, Idle
<1> QED BY <1>1, <1>2 DEF IInv

\* Exchanges, messages and listen goroutines keep their parties.
LEMMA PartiesKept ==
    ASSUME IInv, KeepsParties
    PROVE  /\ \A x \in Exchs : Begun(x) => /\ Begun(x)' /\ Requester(x)' = Requester(x)
                                           /\ Inviter(x)' = Inviter(x)
           /\ \A m \in Messages : Begun(m.exch) => /\ Begun(m.exch)'
                                                   /\ Sender(m)' = Sender(m)
                                                   /\ Receiver(m)' = Receiver(m)
<1>1. \A x \in Exchs : Begun(x) => /\ Begun(x)' /\ Requester(x)' = Requester(x)
                                   /\ Inviter(x)' = Inviter(x)
  BY DEF KeepsParties, Begun, Requester, Inviter
<1>2. \A m \in Messages : m.exch \in Exchs
  BY DEF Messages
<1> QED BY <1>1, <1>2 DEF Sender, Receiver

LEMMA NobodyMoves == IInv /\ call' = call => KeepsParties
BY DEF KeepsParties, Begun

LEMMA AcceptPreserves ==
    ASSUME IInv, NEW a \in Agents, NEW b \in Agents, NEW sync \in BOOLEAN, Accept(a, b, sync)
    PROVE  IInv'
<1>1. PICK x \in Exchs :
         /\ ~Begun(x) /\ <<a, b>> \in Invited
         /\ call' \in [Exchs -> Calls] /\ call'[x].step = "generate"
         /\ call'[x].from = a /\ call'[x].to = b
         /\ \A y \in Exchs \ {x} : call'[y] = call[y]
         /\ KeepsParties
         /\ UNCHANGED <<joins, key, doc, peers, chan, wire, listen, polls, crashed>>
  BY AcceptDoes
<1>2. TypeOK'
  BY <1>1 DEF IInv, TypeOK
<1>3. CallsInvited'
  BY <1>1 DEF IInv, CallsInvited, Begun, Requester, Inviter
<1>4. (WireBegun /\ ListenFor /\ ResOnWire)'
  <2>1. \A m \in wire : m \in Messages /\ m.exch \in Exchs
    BY DEF IInv, TypeOK, Messages
  <2>2. \A p \in Agents : listen[p].step # "idle" => listen[p].msg \in Messages
    BY ListenFields DEF IInv
  <2>3. WireBegun'
    BY <1>1, <2>1, PartiesKept DEF IInv, WireBegun
  <2>4. ListenFor'
    BY <1>1, <2>2, PartiesKept DEF IInv, ListenFor
  <2>5. ResOnWire'
    BY <1>1, <2>1, PartiesKept DEF IInv, ResOnWire, WireBegun
  <2> QED BY <2>3, <2>4, <2>5
<1> QED BY <1>2, <1>3, <1>4 DEF IInv

\* A step that leaves the listen goroutines and the wire alone.
LEMMA CallPreserves ==
    ASSUME IInv, TypeOK', KeepsParties, wire' = wire, listen' = listen,
           \A y \in Exchs : Begun(y)' => Begun(y)
    PROVE  IInv'
<1>1. \A m \in wire : m \in Messages /\ m.exch \in Exchs
  BY DEF IInv, TypeOK, Messages
<1>2. \A p \in Agents : listen[p].step # "idle" => listen[p].msg \in Messages
  BY ListenFields DEF IInv
<1>3. CallsInvited'
  BY PartiesKept DEF IInv, CallsInvited
<1>4. WireBegun'
  BY <1>1, PartiesKept DEF IInv, WireBegun
<1>5. ListenFor'
  BY <1>2, PartiesKept DEF IInv, ListenFor
<1>6. ResOnWire'
  BY <1>1, PartiesKept DEF IInv, ResOnWire, WireBegun
<1> QED BY <1>3, <1>4, <1>5, <1>6 DEF IInv

LEMMA CallStepPreserves ==
    ASSUME IInv, NEW x \in Exchs, CallStep(x)
    PROVE  IInv'
<1>1. CASE SetUpReq(x)
  <2>1. TypeOK'
    BY <1>1, SetUpReqDoes DEF IInv, TypeOK
  <2>2. KeepsParties /\ wire' = wire /\ listen' = listen
        /\ \A y \in Exchs : Begun(y)' => Begun(y)
    BY <1>1, SetUpReqDoes DEF Begun
  <2> QED BY <2>1, <2>2, CallPreserves
<1>2. CASE SendReq(x)
  <2>1. PICK m \in Messages : m.typ = "req" /\ m.exch = x /\ wire' = wire \cup {m}
    BY <1>2, SendReqDoes
  <2>2. TypeOK'
    BY <1>2, <2>1, SendReqDoes DEF IInv, TypeOK
  <2>3. KeepsParties /\ listen' = listen /\ Begun(x) /\ \A y \in Exchs : Begun(y)' => Begun(y)
    BY <1>2, SendReqDoes DEF Begun
  <2>4. \A n \in wire : n \in Messages /\ n.exch \in Exchs
    BY DEF IInv, TypeOK, Messages
  <2>5. \A p \in Agents : listen[p].step # "idle" => listen[p].msg \in Messages
    BY ListenFields DEF IInv
  <2>6. CallsInvited'
    BY <2>3, PartiesKept DEF IInv, CallsInvited
  <2>7. WireBegun'
    BY <2>1, <2>3, <2>4, PartiesKept DEF IInv, WireBegun
  <2>8. ListenFor'
    BY <2>3, <2>5, PartiesKept DEF IInv, ListenFor
  <2>9. ResOnWire'
    BY <2>1, <2>3, <2>4, PartiesKept DEF IInv, ResOnWire, WireBegun
  <2> QED BY <2>2, <2>6, <2>7, <2>8, <2>9 DEF IInv
<1>3. CASE AddInviter(x)
  <2>1. TypeOK'
    BY <1>3, AddInviterDoes DEF IInv, TypeOK
  <2>2. KeepsParties /\ wire' = wire /\ listen' = listen
        /\ \A y \in Exchs : Begun(y)' => Begun(y)
    BY <1>3, AddInviterDoes DEF Begun
  <2> QED BY <2>1, <2>2, CallPreserves
<1>4. CASE StoreChan(x)
  <2>1. TypeOK'
    BY <1>4, StoreChanDoes DEF IInv, TypeOK
  <2>2. KeepsParties /\ wire' = wire /\ listen' = listen
        /\ \A y \in Exchs : Begun(y)' => Begun(y)
    BY <1>4, StoreChanDoes DEF Begun
  <2> QED BY <2>1, <2>2, CallPreserves
<1> QED BY <1>1, <1>2, <1>3, <1>4 DEF CallStep

LEMMA HandOverPreserves ==
    ASSUME IInv, NEW m, HandOver(m)
    PROVE  IInv'
<1>1. \A n \in wire : n \in Messages /\ n.exch \in Exchs
  BY DEF IInv, TypeOK, Messages
<1>2. \A p \in Agents : listen[p].step # "idle" => listen[p].msg \in Messages
  BY ListenFields DEF IInv
<1>3. CASE m.typ = "req"
  <2>1. TypeOK'
    BY <1>3, HandReqDoes DEF IInv, TypeOK
  <2>2. KeepsParties /\ m.exch \in Exchs /\ \A y \in Exchs : Begun(y)' => Begun(y)
    BY <1>1, <1>3, HandReqDoes DEF Begun
  <2>3. CallsInvited'
    BY <2>2, PartiesKept DEF IInv, CallsInvited
  <2>4. WireBegun'
    BY <1>1, <1>3, <2>2, HandReqDoes, PartiesKept DEF IInv, WireBegun
  <2>5. ListenFor'
    <3> SUFFICES ASSUME NEW p \in Agents, listen'[p].step # "idle"
                 PROVE  /\ Begun(listen[p].msg.exch)'
                        /\ Receiver(listen[p].msg)' = p
                        /\ listen'[p].step \in SetUps \cup {"sent", "add"}
                              => listen'[p].msg.typ = "req"
                        /\ listen'[p].step \in {"ownPublic", "ownPrivate", "open",
                                                "signal", "blocked"}
                              => listen'[p].msg.typ = "res"
      BY DEF ListenFor
    <3>1. CASE p = Inviter(m.exch)
      <4>1. listen'[p].step = "got" /\ listen'[p].msg = m /\ m \in Messages /\ Begun(m.exch)
        BY <1>3, <3>1, HandReqDoes
      <4>2. Receiver(m) = p
        BY <1>3, <3>1 DEF Receiver
      <4>3. Receiver(m)' = p /\ Begun(m.exch)'
        BY <2>2, <4>1, <4>2, PartiesKept
      <4> QED BY <4>1, <4>3 DEF SetUps, Receiver, Begun, Requester, Inviter
    <3>2. CASE p # Inviter(m.exch)
      <4>1. listen'[p] = listen[p]
        BY <1>3, <3>2, HandReqDoes
      <4> QED BY <1>2, <2>2, <4>1, PartiesKept DEF IInv, ListenFor
    <3> QED BY <3>1, <3>2
  <2>6. ResOnWire'
    <3>1. \A n \in wire' : n.typ = "res" => Inviter(n.exch) # Inviter(m.exch)
      BY <1>1, <1>3, HandReqDoes DEF IInv, ResOnWire
    <3>2. \A n \in wire' : n.typ = "res" => listen'[Inviter(n.exch)] = listen[Inviter(n.exch)]
      <4>1. \A n \in wire : Inviter(n.exch) \in Agents
        BY <1>1, CallFields DEF IInv, WireBegun
      <4> QED BY <1>3, <3>1, <4>1, HandReqDoes
    <3> QED BY <1>1, <1>3, <2>2, <3>2, HandReqDoes, PartiesKept DEF IInv, ResOnWire, WireBegun
  <2> QED BY <2>1, <2>3, <2>4, <2>5, <2>6 DEF IInv
<1>4. CASE m.typ # "req"
  <2>1. TypeOK'
    BY <1>4, HandResDoes DEF IInv, TypeOK
  <2>2. call' = call
    BY <1>4, HandResDoes
  <2>3. CallsInvited'
    BY <2>2 DEF IInv, CallsInvited, Begun, Requester, Inviter
  <2>4. KeepsParties
    BY <2>2, NobodyMoves
  <2>5. WireBegun'
    BY <1>1, <1>4, <2>4, HandResDoes, PartiesKept DEF IInv, WireBegun
  <2>6. ListenFor'
    <3> SUFFICES ASSUME NEW p \in Agents, listen'[p].step # "idle"
                 PROVE  /\ Begun(listen[p].msg.exch)'
                        /\ Receiver(listen[p].msg)' = p
                        /\ listen'[p].step \in SetUps \cup {"sent", "add"}
                              => listen'[p].msg.typ = "req"
                        /\ listen'[p].step \in {"ownPublic", "ownPrivate", "open",
                                                "signal", "blocked"}
                              => listen'[p].msg.typ = "res"
      BY DEF ListenFor
    <3>1. CASE p = Requester(m.exch)
      <4>1. listen'[p].step = "got" /\ listen'[p].msg = m /\ m \in Messages /\ Begun(m.exch)
        BY <1>4, <3>1, HandResDoes
      <4>2. Receiver(m) = p
        BY <1>4, <3>1 DEF Receiver
      <4>3. Receiver(m)' = p /\ Begun(m.exch)'
        BY <2>4, <4>1, <4>2, PartiesKept
      <4> QED BY <4>1, <4>3 DEF SetUps, Receiver, Begun, Requester, Inviter
    <3>2. CASE p = Inviter(m.exch)
      <4>1. /\ listen'[p].step = "add" /\ listen'[p].msg = listen[p].msg
            /\ listen[p].step = "sent"
        BY <1>4, <3>2, HandResDoes
      <4> QED BY <1>2, <2>4, <4>1, PartiesKept DEF IInv, ListenFor
    <3>3. CASE p # Requester(m.exch) /\ p # Inviter(m.exch)
      <4>1. listen'[p] = listen[p]
        BY <1>4, <3>3, HandResDoes
      <4> QED BY <1>2, <2>4, <4>1, PartiesKept DEF IInv, ListenFor
    <3> QED BY <3>1, <3>2, <3>3
  <2>7. ResOnWire'
    <3>1. \A n \in wire' : n.typ = "res" => /\ Inviter(n.exch) # Inviter(m.exch)
                                            /\ Inviter(n.exch) # Requester(m.exch)
      BY <1>1, <1>4, HandResDoes DEF IInv, ResOnWire
    <3>2. \A n \in wire' : n.typ = "res" => listen'[Inviter(n.exch)] = listen[Inviter(n.exch)]
      <4>1. \A n \in wire : Inviter(n.exch) \in Agents
        BY <1>1, CallFields DEF IInv, WireBegun
      <4> QED BY <1>4, <3>1, <4>1, HandResDoes
    <3> QED BY <1>1, <1>4, <2>4, <3>2, HandResDoes, PartiesKept DEF IInv, ResOnWire, WireBegun
  <2> QED BY <2>1, <2>3, <2>5, <2>6, <2>7 DEF IInv
<1> QED BY <1>3, <1>4

\* A step of a listen goroutine that sends nothing.
LEMMA ListenPreserves ==
    ASSUME IInv, TypeOK', KeepsParties, \A y \in Exchs : Begun(y)' => Begun(y), wire' = wire,
           NEW b \in Agents, listen[b].step \notin {"idle", "sent"},
           \A p \in Agents \ {b} : listen'[p] = listen[p],
           \/ listen'[b].step = "idle"
           \/ /\ listen'[b].msg = listen[b].msg
              /\ \/ listen[b].msg.typ = "req" /\ listen'[b].step \in SetUps
                 \/ /\ listen[b].msg.typ = "res"
                    /\ listen'[b].step \in {"ownPublic", "ownPrivate", "open",
                                            "signal", "blocked"}
    PROVE  IInv'
<1>1. \A n \in wire : n \in Messages /\ n.exch \in Exchs
  BY DEF IInv, TypeOK, Messages
<1>2. \A p \in Agents : listen[p].step # "idle" => listen[p].msg \in Messages
  BY ListenFields DEF IInv
<1>3. CallsInvited'
  BY PartiesKept DEF IInv, CallsInvited
<1>4. WireBegun'
  BY <1>1, PartiesKept DEF IInv, WireBegun
<1>5. ListenFor'
  BY <1>2, PartiesKept DEF IInv, ListenFor, SetUps
<1>6. ResOnWire'
  <2>1. \A n \in wire : n.typ = "res" => listen'[Inviter(n.exch)] = listen[Inviter(n.exch)]
    <3>1. \A n \in wire : Inviter(n.exch) \in Agents
      BY <1>1, CallFields DEF IInv, WireBegun
    <3> QED BY <3>1 DEF IInv, ResOnWire
  <2> QED BY <1>1, <2>1, PartiesKept DEF IInv, ResOnWire, WireBegun
<1> QED BY <1>3, <1>4, <1>5, <1>6 DEF IInv

LEMMA SendResPreserves ==
    ASSUME IInv, NEW b \in Agents, SendRes(b)
    PROVE  IInv'
<1> DEFINE x == listen[b].msg.exch
<1>1. PICK m \in Messages : m.typ = "res" /\ m.exch = x /\ wire' = wire \cup {m}
  BY SendResDoes
<1>2. /\ call' = call /\ listen[b].step = "send" /\ listen[b].msg.typ = "req"
      /\ listen' \in [Agents -> Listens]
      /\ listen'[b].step = "sent" /\ listen'[b].msg = listen[b].msg
      /\ \A p \in Agents \ {b} : listen'[p] = listen[p]
      /\ UNCHANGED <<joins, key, doc, peers, chan, polls, crashed>>
  BY SendResDoes
<1>3. x \in Exchs /\ Begun(x) /\ Inviter(x) = b
  BY <1>2, Busy
<1>4. KeepsParties /\ \A y \in Exchs : Begun(y)' => Begun(y)
  BY <1>2, NobodyMoves DEF Begun
<1>5. \A n \in wire : n \in Messages /\ n.exch \in Exchs
  BY DEF IInv, TypeOK, Messages
<1>6. \A p \in Agents : listen[p].step # "idle" => listen[p].msg \in Messages
  BY ListenFields DEF IInv
<1>7. TypeOK'
  BY <1>1, <1>2 DEF IInv, TypeOK
<1>8. CallsInvited'
  BY <1>4, PartiesKept DEF IInv, CallsInvited
<1>9. WireBegun'
  BY <1>1, <1>3, <1>4, <1>5, PartiesKept DEF IInv, WireBegun
<1>10. ListenFor'
  BY <1>2, <1>4, <1>6, PartiesKept DEF IInv, ListenFor
<1>11. ResOnWire'
  <2>1. \A n \in wire : n.typ = "res" => /\ Inviter(n.exch) # b
                                         /\ listen'[Inviter(n.exch)] = listen[Inviter(n.exch)]
    <3>1. \A n \in wire : Inviter(n.exch) \in Agents
      BY <1>5, CallFields DEF IInv, WireBegun
    <3> QED BY <1>2, <3>1 DEF IInv, ResOnWire
  <2>2. \A n \in wire : Inviter(n.exch)' = Inviter(n.exch)
    BY <1>4, <1>5, PartiesKept DEF IInv, WireBegun
  <2>3. Inviter(m.exch)' = b
    BY <1>1, <1>2, <1>3 DEF Inviter
  <2> QED BY <1>1, <1>2, <2>1, <2>2, <2>3 DEF IInv, ResOnWire
<1> QED BY <1>7, <1>8, <1>9, <1>10, <1>11 DEF IInv

LEMMA ListenStepPreserves ==
    ASSUME IInv, NEW b \in Agents, ListenStep(b)
    PROVE  IInv'
<1>1. call' = call => KeepsParties /\ \A y \in Exchs : Begun(y)' => Begun(y)
  BY NobodyMoves DEF Begun
<1>2. CASE OpenReq(b)
  <2>1. TypeOK'
    BY <1>2, OpenReqDoes DEF IInv, TypeOK
  <2> QED BY <1>1, <1>2, <2>1, OpenReqDoes, ListenPreserves DEF SetUps
<1>3. CASE SetUpRes(b)
  <2>1. TypeOK'
    BY <1>3, SetUpResDoes DEF IInv, TypeOK
  <2>2. listen'[b].step \in SetUps
    BY <1>3, SetUpResDoes DEF SetUpDone, SetUps
  <2> QED BY <1>1, <1>3, <2>1, <2>2, SetUpResDoes, ListenPreserves
<1>4. CASE SendRes(b)
  BY <1>4, SendResPreserves
<1>5. CASE AddRequester(b)
  <2>1. TypeOK'
    BY <1>5, AddRequesterDoes DEF IInv, TypeOK
  <2> QED BY <1>1, <1>5, <2>1, AddRequesterDoes, ListenPreserves
<1>6. CASE FindPeer(b)
  <2>1. TypeOK'
    BY <1>6, FindPeerDoes DEF IInv, TypeOK
  <2> QED BY <1>1, <1>6, <2>1, FindPeerDoes, ListenPreserves
<1>7. CASE ReadKeys(b)
  <2>1. TypeOK'
    BY <1>7, ReadKeysDoes DEF IInv, TypeOK
  <2> QED BY <1>1, <1>7, <2>1, ReadKeysDoes, ListenPreserves
<1>8. CASE OpenRes(b)
  <2>1. TypeOK'
    BY <1>8, OpenResDoes DEF IInv, TypeOK
  <2> QED BY <1>1, <1>8, <2>1, OpenResDoes, ListenPreserves
<1>9. CASE Signal(b)
  <2>1. TypeOK'
    BY <1>9, SignalDoes DEF IInv, TypeOK
  <2>2. \A y \in Exchs : Begun(y)' => Begun(y)
    BY <1>9, SignalDoes DEF Begun
  <2> QED BY <1>9, <2>1, <2>2, SignalDoes, ListenPreserves
<1> QED BY <1>2, <1>3, <1>4, <1>5, <1>6, <1>7, <1>8, <1>9 DEF ListenStep

\* SyncService and its goroutines leave the exchanges alone.
LEMMA ServiceDoes ==
    ASSUME NEW a, NEW b, SyncService(a, b) \/ Poll(a, b)
    PROVE  UNCHANGED <<call, key, doc, chan, wire, listen, peers>>
BY DEF SyncService, Poll

LEMMA ServicePreserves ==
    ASSUME IInv, NEW a \in Agents, NEW b \in Agents, SyncService(a, b) \/ Poll(a, b)
    PROVE  IInv'
<1>1. joins' \in PerPair(Nat) /\ polls' \subseteq Agents \X Agents /\ crashed' \subseteq Agents
  <2>1. CASE SyncService(a, b)
    <3>1. joins \in PerPair(Nat) /\ joins[a][b] + 1 \in Nat
      BY DEF IInv, TypeOK, PerPair
    <3>2. joins' = [joins EXCEPT ![a][b] = joins[a][b] + 1]
      BY <2>1 DEF SyncService
    <3>3. joins' \in PerPair(Nat)
      BY <3>1, <3>2 DEF PerPair
    <3> QED BY <2>1, <3>3 DEF SyncService, IInv, TypeOK
  <2>2. CASE Poll(a, b)
    BY <2>2 DEF Poll, IInv, TypeOK
  <2> QED BY <2>1, <2>2
<1>2. TypeOK'
  BY <1>1, ServiceDoes DEF IInv, TypeOK
<1>3. KeepsParties /\ \A y \in Exchs : Begun(y)' => Begun(y)
  BY ServiceDoes, NobodyMoves DEF Begun
<1> QED BY <1>2, <1>3, ServiceDoes, CallPreserves

\* What the steps of one kind have in common.
LEMMA CallStepDoes ==
    ASSUME IInv, NEW x \in Exchs, CallStep(x)
    PROVE  /\ Begun(x) /\ call[x].step \notin {"wait", "done"}
           /\ \A y \in Exchs \ {x} : call'[y] = call[y]
           /\ KeepsParties /\ \A y \in Exchs : Begun(y)' => Begun(y)
           /\ wire' = wire \/ \E m \in Messages : m.exch = x /\ wire' = wire \cup {m}
           /\ UNCHANGED <<listen, joins, polls, crashed>>
<1>1. CASE SetUpReq(x)
  BY <1>1, SetUpReqDoes DEF Begun
<1>2. CASE SendReq(x)
  BY <1>2, SendReqDoes DEF Begun
<1>3. CASE AddInviter(x)
  BY <1>3, AddInviterDoes DEF Begun
<1>4. CASE StoreChan(x)
  BY <1>4, StoreChanDoes DEF Begun
<1> QED BY <1>1, <1>2, <1>3, <1>4 DEF CallStep

LEMMA ListenStepDoes ==
    ASSUME IInv, NEW b \in Agents, ListenStep(b)
    PROVE  /\ listen[b].step \notin {"idle", "sent", "blocked"}
           /\ \A p \in Agents \ {b} : listen'[p] = listen[p]
           /\ \/ listen'[b].step = "idle"
              \/ /\ listen'[b].msg = listen[b].msg
                 /\ listen'[b].step # "got"
                 /\ listen'[b].step \in {"sent", "add"} => listen[b].step = "send"
           /\ KeepsParties /\ \A y \in Exchs : Begun(y)' => Begun(y)
           /\ \A y \in Exchs : \/ call'[y] = call[y]
                               \/ call[y].step = "wait" /\ call'[y].step = "done"
           /\ \/ wire' = wire
              \/ \E m \in Messages : /\ m.typ = "res" /\ m.exch = listen[b].msg.exch
                                     /\ wire' = wire \cup {m}
           /\ UNCHANGED <<chan, joins, polls, crashed>>
<1>1. call' = call => KeepsParties /\ \A y \in Exchs : Begun(y)' => Begun(y)
  BY NobodyMoves DEF Begun
<1>2. CASE OpenReq(b)
  BY <1>1, <1>2, OpenReqDoes
<1>3. CASE SetUpRes(b)
  <2>1. listen'[b].step \in {"public", "private", "doc", "send"}
    BY <1>3, SetUpResDoes DEF SetUpDone
  <2> QED BY <1>1, <1>3, <2>1, SetUpResDoes
<1>4. CASE SendRes(b)
  BY <1>1, <1>4, SendResDoes
<1>5. CASE AddRequester(b)
  BY <1>1, <1>5, AddRequesterDoes
<1>6. CASE FindPeer(b)
  BY <1>1, <1>6, FindPeerDoes
<1>7. CASE ReadKeys(b)
  BY <1>1, <1>7, ReadKeysDoes
<1>8. CASE OpenRes(b)
  BY <1>1, <1>8, OpenResDoes
<1>9. CASE Signal(b)
  <2>1. \A y \in Exchs : \/ call'[y] = call[y]
                         \/ call[y].step = "wait" /\ call'[y].step = "done"
    BY <1>9, SignalDoes
  <2>2. \A y \in Exchs : Begun(y)' => Begun(y)
    BY <2>1 DEF Begun
  <2> QED BY <1>9, <2>1, <2>2, SignalDoes
<1> QED BY <1>2, <1>3, <1>4, <1>5, <1>6, <1>7, <1>8, <1>9 DEF ListenStep

LEMMA HandOverDoes ==
    ASSUME IInv, NEW m, HandOver(m)
    PROVE  /\ m \in wire /\ m \in Messages /\ m.exch \in Exchs /\ Begun(m.exch)
           /\ wire' = wire \ {m}
           /\ KeepsParties /\ \A y \in Exchs : Begun(y)' => Begun(y)
           /\ \A y \in Exchs : \/ call'[y] = call[y]
                               \/ /\ m.typ = "req" /\ y = m.exch /\ call'[y].step = "add"
           /\ \A p \in Agents : \/ listen'[p] = listen[p]
                                \/ /\ listen[p].step = "idle"
                                   /\ listen'[p].step = "got" /\ listen'[p].msg = m
                                \/ /\ listen[p].step = "sent" /\ listen'[p].step = "add"
                                   /\ listen'[p].msg = listen[p].msg
           /\ UNCHANGED <<joins, key, doc, peers, chan, polls, crashed>>
<1>1. m.exch \in Exchs /\ m \in Messages
  BY DEF IInv, HandOver, TypeOK, Messages
<1>2. CASE m.typ = "req"
  BY <1>1, <1>2, HandReqDoes DEF Begun
<1>3. CASE m.typ # "req"
  BY <1>1, <1>3, HandResDoes, NobodyMoves DEF Begun
<1> QED BY <1>2, <1>3

LEMMA NextIInv == IInv /\ [Next]_vars => IInv'
<1> SUFFICES ASSUME IInv, [Next]_vars PROVE IInv'
  OBVIOUS
<1>1. CASE \E a, b \in Agents : UserStep(a, b) \/ Poll(a, b)
  BY <1>1, AcceptPreserves, ServicePreserves DEF UserStep
<1>2. CASE \E x \in Exchs : CallStep(x) \/ Deliver(x)
  BY <1>2, CallStepPreserves, HandOverPreserves DEF Deliver
<1>3. CASE \E a \in Agents : ListenStep(a)
  BY <1>3, ListenStepPreserves
<1>4. CASE UNCHANGED vars
  <2>1. TypeOK' /\ UNCHANGED <<call, wire, listen>>
    BY <1>4 DEF vars, IInv, TypeOK
  <2> QED BY <2>1, NobodyMoves, CallPreserves DEF Begun
<1> QED BY <1>1, <1>2, <1>3, <1>4 DEF Next

LEMMA Inductive == Spec => []IInv
BY InitIInv, NextIInv, PTL DEF Spec

\* The stores, the messages and the goroutines of Connect have their types.
THEOREM TypeCorrect == Spec => []TypeOK
<1>1. IInv => TypeOK
  BY DEF IInv
<1> QED BY Inductive, <1>1, PTL

\* If invitations are accepted in no circle, whatever the number of agents, then
\* no circle of listen goroutines has each waiting in client.Send for the next.
THEOREM NoCircularWaitHolds ==
    ASSUME IsWellFoundedOn(Invited, Agents)
    PROVE  Spec => []NoCircularWait
<1>1. IInv => NoCircularWait
  <2> SUFFICES ASSUME IInv, NEW S \in SUBSET Agents, S # {}
               PROVE  \E b \in S : \A a \in S : ~WaitsFor(b, a)
    BY DEF NoCircularWait
  <2>1. \E b \in S : \A a \in S : <<a, b>> \notin Invited
    BY WFMin
  <2>2. \A a, b \in Agents : WaitsFor(b, a) => <<a, b>> \in Invited
    BY DEF WaitsFor, IInv, TypeOK, Messages, WireBegun, CallsInvited, Sender, Receiver
  <2> QED BY <2>1, <2>2
<1> QED BY Inductive, <1>1, PTL
-----------------------------------------------------------------------------
(* Keys are made before they are sent *)

\* A thread t that is past making a key pair for the peer has one, its parts
\* are those of a pair, and so is the key in the document it sends.
Made(t, k, d) ==
    /\ t.step \in {"public", "private", "doc", "send"} => k # 0
    /\ t.step \in {"private", "doc", "send"} => t.pub # 0
    /\ t.step = "send" => d # 0

CallKeys == \A x \in Exchs : Begun(x) =>
               Made(call[x], key[Requester(x)][Inviter(x)], doc[Requester(x)][Inviter(x)])

ListenKeys == \A b \in Agents : listen[b].step # "idle" =>
                 /\ listen[b].msg.key # 0
                 /\ Made(listen[b], key[b][Sender(listen[b].msg)], doc[b][Sender(listen[b].msg)])

WireKeys == \A m \in wire : m.key # 0

KInv == IInv /\ CallKeys /\ ListenKeys /\ WireKeys

\* No pair loses its keys.
TablesGrow == \A p, q \in Agents : /\ key[p][q] # 0 => key'[p][q] # 0
                                   /\ doc[p][q] # 0 => doc'[p][q] # 0

LEMMA SetUpMade ==
    ASSUME NEW t, NEW u, NEW k \in Nat, NEW d, t.pub \in Nat,
           t.step \in {"generate", "public", "private", "doc"}, Made(t, k, d),
           SetUpDone(t, u, k)
    PROVE  /\ Made(u, IF t.step = "generate" THEN k + 1 ELSE k,
                      IF t.step = "doc" THEN t.pub ELSE d)
           /\ t.step = "doc" => t.pub # 0
BY DEF Made, SetUpDone

LEMMA InitKInv == Init => KInv
BY InitIInv DEF KInv, Init, CallKeys, ListenKeys, WireKeys, Begun, New, Idle

\* Calls and listen goroutines that go on as they were.
LEMMA KeysKept ==
    ASSUME KInv, IInv', KeepsParties, TablesGrow
    PROVE  /\ \A x \in Exchs : Begun(x) /\ call'[x] = call[x] =>
                 Made(call[x], key[Requester(x)][Inviter(x)], doc[Requester(x)][Inviter(x)])'
           /\ \A b \in Agents : listen[b].step # "idle" /\ listen'[b] = listen[b] =>
                 /\ listen'[b].msg.key # 0
                 /\ Made(listen[b], key[b][Sender(listen[b].msg)],
                                    doc[b][Sender(listen[b].msg)])'
<1>1. ASSUME NEW x \in Exchs, Begun(x), call'[x] = call[x]
      PROVE  Made(call[x], key[Requester(x)][Inviter(x)], doc[Requester(x)][Inviter(x)])'
  <2>1. /\ Requester(x) \in Agents /\ Inviter(x) \in Agents
        /\ Requester(x)' = Requester(x) /\ Inviter(x)' = Inviter(x)
    BY <1>1, CallFields, PartiesKept DEF KInv, IInv
  <2> QED BY <1>1, <2>1 DEF KInv, CallKeys, Made, TablesGrow
<1>2. ASSUME NEW b \in Agents, listen[b].step # "idle", listen'[b] = listen[b]
      PROVE  /\ listen'[b].msg.key # 0
             /\ Made(listen[b], key[b][Sender(listen[b].msg)], doc[b][Sender(listen[b].msg)])'
  <2>1. /\ Sender(listen[b].msg) \in Agents
        /\ Sender(listen[b].msg)' = Sender(listen[b].msg)
    BY <1>2, Busy, PartiesKept DEF KInv
  <2> QED BY <1>2, <2>1 DEF KInv, ListenKeys, Made, TablesGrow
<1> QED BY <1>1, <1>2

\* A step that sets nothing up and takes and sends no message.
LEMMA QuietKeys ==
    ASSUME KInv, IInv', KeepsParties, \A y \in Exchs : Begun(y)' => Begun(y),
           UNCHANGED <<key, doc, wire>>,
           \A x \in Exchs : call'[x].step # call[x].step => call'[x].step \notin SetUps,
           \A x \in Exchs : call'[x].step = call[x].step => call'[x] = call[x],
           \A b \in Agents : listen'[b].step = "idle" \/ listen'[b] = listen[b]
                             \/ /\ listen[b].step # "idle" /\ listen'[b].msg = listen[b].msg
                                /\ listen'[b].step \notin SetUps \ {"generate"}
    PROVE  KInv'
<1>1. TablesGrow
  BY DEF TablesGrow
<1>2. CallKeys'
  <2> SUFFICES ASSUME NEW x \in Exchs, Begun(x)'
               PROVE  Made(call[x], key[Requester(x)][Inviter(x)], doc[Requester(x)][Inviter(x)])'
    BY DEF CallKeys
  <2>1. CASE call'[x].step = call[x].step
    BY <1>1, <2>1, KeysKept
  <2>2. CASE call'[x].step # call[x].step
    BY <2>2 DEF Made, SetUps
  <2> QED BY <2>1, <2>2
<1>3. ListenKeys'
  <2> SUFFICES ASSUME NEW b \in Agents, listen'[b].step # "idle"
               PROVE  /\ listen'[b].msg.key # 0
                      /\ Made(listen[b], key[b][Sender(listen[b].msg)],
                                         doc[b][Sender(listen[b].msg)])'
    BY DEF ListenKeys
  <2>1. CASE listen'[b] = listen[b]
    BY <1>1, <2>1, KeysKept
  <2>2. CASE /\ listen[b].step # "idle" /\ listen'[b].msg = listen[b].msg
             /\ listen'[b].step \notin SetUps \ {"generate"}
    BY <2>2 DEF KInv, ListenKeys, Made, SetUps
  <2> QED BY <2>1, <2>2
<1> QED BY <1>2, <1>3 DEF KInv, WireKeys

LEMMA SetUpReqKeys ==
    ASSUME KInv, NEW x \in Exchs, SetUpReq(x)
    PROVE  KInv'
<1> DEFINE a == Requester(x)
           b == Inviter(x)
<1>1. IInv /\ IInv'
  BY CallStepPreserves DEF KInv, CallStep
<1>2. /\ Begun(x) /\ call[x].step \in {"generate", "public", "private", "doc"}
      /\ SetUpDone(call[x], call'[x], key[a][b])
      /\ \A y \in Exchs \ {x} : call'[y] = call[y]
      /\ KeepsParties
      /\ \A p, q \in Agents : p # a \/ q # b =>
            key'[p][q] = key[p][q] /\ doc'[p][q] = doc[p][q]
      /\ key'[a][b] = IF call[x].step = "generate" THEN key[a][b] + 1 ELSE key[a][b]
      /\ doc'[a][b] = IF call[x].step = "doc" THEN call[x].pub ELSE doc[a][b]
      /\ UNCHANGED <<joins, peers, chan, wire, listen, polls, crashed>>
  BY <1>1, SetUpReqDoes
<1>3. a \in Agents /\ b \in Agents /\ call[x].pub \in Nat /\ key[a][b] \in Nat
  BY <1>1, <1>2, CallFields DEF IInv, TypeOK, PerPair
<1>4. Made(call[x], key[a][b], doc[a][b])
  BY <1>2 DEF KInv, CallKeys
<1>5. Made(call'[x], key'[a][b], doc'[a][b]) /\ (call[x].step = "doc" => call[x].pub # 0)
  BY <1>2, <1>3, <1>4, SetUpMade
<1>6. TablesGrow
  BY <1>2, <1>3, <1>5 DEF TablesGrow
<1>7. CallKeys'
  <2> SUFFICES ASSUME NEW y \in Exchs, Begun(y)'
               PROVE  Made(call[y], key[Requester(y)][Inviter(y)], doc[Requester(y)][Inviter(y)])'
    BY DEF CallKeys
  <2>1. CASE y # x
    <3>1. Begun(y) /\ call'[y] = call[y]
      BY <1>2, <2>1 DEF Begun
    <3> QED BY <1>1, <1>2, <1>6, <3>1, KeysKept
  <2>2. CASE y = x
    <3>1. Requester(y)' = a /\ Inviter(y)' = b
      BY <1>2, <1>1, <2>2, PartiesKept
    <3> QED BY <1>5, <2>2, <3>1
  <2> QED BY <2>1, <2>2
<1>8. ListenKeys'
  BY <1>2, <1>1, <1>6, KeysKept DEF ListenKeys
<1> QED BY <1>1, <1>2, <1>7, <1>8 DEF KInv, WireKeys

LEMMA SetUpResKeys ==
    ASSUME KInv, NEW b \in Agents, SetUpRes(b)
    PROVE  KInv'
<1> DEFINE m == listen[b].msg
<1>1. IInv /\ IInv'
  BY ListenStepPreserves DEF KInv, ListenStep
<1>2. PICK a \in Agents : a = Sender(m)
  BY <1>1, SetUpResDoes
<1>3. /\ listen[b].step \in {"generate", "public", "private", "doc"}
      /\ SetUpDone(listen[b], listen'[b], key[b][a])
      /\ listen'[b].msg = m
      /\ \A p \in Agents \ {b} : listen'[p] = listen[p]
      /\ \A p, q \in Agents :
            p # b \/ q # a => key'[p][q] = key[p][q] /\ doc'[p][q] = doc[p][q]
      /\ key'[b][a] = IF listen[b].step = "generate" THEN key[b][a] + 1 ELSE key[b][a]
      /\ doc'[b][a] = IF listen[b].step = "doc" THEN listen[b].pub ELSE doc[b][a]
      /\ UNCHANGED <<call, joins, peers, chan, wire, polls, crashed>>
  BY <1>1, <1>2, SetUpResDoes
<1>4. listen[b].pub \in Nat /\ key[b][a] \in Nat /\ m \in Messages /\ Begun(m.exch)
  BY <1>1, <1>2, <1>3, Busy DEF TypeOK, PerPair
<1>5. KeepsParties
  BY <1>1, <1>3, NobodyMoves
<1>6. Made(listen[b], key[b][a], doc[b][a]) /\ m.key # 0
  BY <1>2, <1>3 DEF KInv, ListenKeys
<1>7. Made(listen'[b], key'[b][a], doc'[b][a]) /\ (listen[b].step = "doc" => listen[b].pub # 0)
  BY <1>3, <1>4, <1>6, SetUpMade
<1>8. TablesGrow
  BY <1>2, <1>3, <1>4, <1>7 DEF TablesGrow
<1>9. CallKeys'
  BY <1>1, <1>3, <1>5, <1>8, KeysKept DEF CallKeys, Begun
<1>10. ListenKeys'
  <2> SUFFICES ASSUME NEW p \in Agents, listen'[p].step # "idle"
               PROVE  /\ listen'[p].msg.key # 0
                      /\ Made(listen[p], key[p][Sender(listen[p].msg)],
                                         doc[p][Sender(listen[p].msg)])'
    BY DEF ListenKeys
  <2>1. CASE p # b
    BY <1>1, <1>3, <1>5, <1>8, <2>1, KeysKept
  <2>2. CASE p = b
    <3>1. Sender(listen[p].msg)' = a
      BY <1>2, <1>3, <2>2 DEF Sender, Requester, Inviter
    <3> QED BY <1>3, <1>6, <1>7, <2>2, <3>1
  <2> QED BY <2>1, <2>2
<1> QED BY <1>1, <1>3, <1>9, <1>10 DEF KInv, WireKeys

LEMMA SendReqKeys ==
    ASSUME KInv, NEW x \in Exchs, SendReq(x)
    PROVE  KInv'
<1>1. IInv /\ IInv'
  BY CallStepPreserves DEF KInv, CallStep
<1>2. /\ Begun(x) /\ call[x].step = "send" /\ call'[x].step = "sent"
      /\ \A y \in Exchs \ {x} : call'[y] = call[y]
      /\ KeepsParties
      /\ UNCHANGED <<joins, key, doc, peers, chan, listen, polls, crashed>>
  BY <1>1, SendReqDoes
<1>3. PICK m \in Messages : m.key = doc[Requester(x)][Inviter(x)] /\ wire' = wire \cup {m}
  BY <1>1, SendReqDoes
<1>4. TablesGrow
  BY <1>2 DEF TablesGrow
<1>5. CallKeys'
  <2> SUFFICES ASSUME NEW y \in Exchs, Begun(y)'
               PROVE  Made(call[y], key[Requester(y)][Inviter(y)], doc[Requester(y)][Inviter(y)])'
    BY DEF CallKeys
  <2>1. CASE y # x
    BY <1>1, <1>2, <1>4, <2>1, KeysKept DEF Begun
  <2>2. CASE y = x
    BY <1>2, <2>2 DEF Made
  <2> QED BY <2>1, <2>2
<1>6. ListenKeys'
  BY <1>1, <1>2, <1>4, KeysKept DEF ListenKeys
<1>7. WireKeys'
  BY <1>2, <1>3 DEF KInv, CallKeys, Made, WireKeys
<1> QED BY <1>1, <1>5, <1>6, <1>7 DEF KInv

LEMMA HandOverKeys ==
    ASSUME KInv, NEW m, HandOver(m)
    PROVE  KInv'
<1>1. IInv /\ IInv'
  BY HandOverPreserves DEF KInv
<1>2. /\ UNCHANGED <<joins, key, doc, peers, chan, polls, crashed>>
      /\ m \in wire /\ wire' = wire \ {m} /\ m.key # 0
  BY DEF HandOver, KInv, WireKeys
<1>3. TablesGrow /\ WireKeys'
  BY <1>2 DEF TablesGrow, KInv, WireKeys
<1>4. KeepsParties
  BY <1>1, HandOverDoes
<1>5. CallKeys'
  <2> SUFFICES ASSUME NEW y \in Exchs, Begun(y)'
               PROVE  Made(call[y], key[Requester(y)][Inviter(y)], doc[Requester(y)][Inviter(y)])'
    BY DEF CallKeys
  <2>1. call'[y] = call[y] \/ call'[y].step = "add"
    BY <1>1, HandReqDoes, HandResDoes
  <2>2. CASE call'[y].step = "add"
    BY <2>2 DEF Made
  <2>3. CASE call'[y] = call[y]
    BY <1>1, <1>3, <1>4, <2>3, KeysKept DEF Begun
  <2> QED BY <2>1, <2>2, <2>3
<1>6. ListenKeys'
  <2> SUFFICES ASSUME NEW p \in Agents, listen'[p].step # "idle"
               PROVE  /\ listen'[p].msg.key # 0
                      /\ Made(listen[p], key[p][Sender(listen[p].msg)],
                                         doc[p][Sender(listen[p].msg)])'
    BY DEF ListenKeys
  <2>1. \/ listen'[p] = listen[p]
        \/ listen'[p].step = "got" /\ listen'[p].msg = m
        \/ /\ listen'[p].step = "add" /\ listen'[p].msg = listen[p].msg
           /\ listen[p].step = "sent"
    BY <1>1, HandReqDoes, HandResDoes
  <2>2. CASE listen'[p] = listen[p]
    BY <1>1, <1>3, <1>4, <2>2, KeysKept
  <2>3. CASE listen'[p].step = "got" /\ listen'[p].msg = m
    BY <1>2, <2>3 DEF Made
  <2>4. CASE /\ listen'[p].step = "add" /\ listen'[p].msg = listen[p].msg
             /\ listen[p].step = "sent"
    BY <2>4 DEF Made, KInv, ListenKeys
  <2> QED BY <2>1, <2>2, <2>3, <2>4
<1> QED BY <1>1, <1>3, <1>5, <1>6 DEF KInv

LEMMA SendResKeys ==
    ASSUME KInv, NEW b \in Agents, SendRes(b)
    PROVE  KInv'
<1>1. IInv /\ IInv'
  BY ListenStepPreserves DEF KInv, ListenStep
<1>2. PICK a \in Agents : a = Sender(listen[b].msg)
  BY <1>1, SendResDoes
<1>3. /\ listen[b].step = "send" /\ listen'[b].step = "sent" /\ listen'[b].msg = listen[b].msg
      /\ \A p \in Agents \ {b} : listen'[p] = listen[p]
      /\ UNCHANGED <<call, joins, key, doc, peers, chan, polls, crashed>>
  BY <1>1, <1>2, SendResDoes
<1>4. PICK m \in Messages : m.key = doc[b][a] /\ wire' = wire \cup {m}
  BY <1>1, <1>2, SendResDoes
<1>5. KeepsParties /\ TablesGrow
  BY <1>1, <1>3, NobodyMoves DEF TablesGrow
<1>6. CallKeys'
  BY <1>1, <1>3, <1>5, KeysKept DEF CallKeys, Begun
<1>7. ListenKeys'
  <2> SUFFICES ASSUME NEW p \in Agents, listen'[p].step # "idle"
               PROVE  /\ listen'[p].msg.key # 0
                      /\ Made(listen[p], key[p][Sender(listen[p].msg)],
                                         doc[p][Sender(listen[p].msg)])'
    BY DEF ListenKeys
  <2>1. CASE p # b
    BY <1>1, <1>3, <1>5, <2>1, KeysKept
  <2>2. CASE p = b
    BY <1>3, <2>2 DEF Made, KInv, ListenKeys
  <2> QED BY <2>1, <2>2
<1>8. WireKeys'
  BY <1>2, <1>3, <1>4 DEF KInv, ListenKeys, Made, WireKeys
<1> QED BY <1>1, <1>6, <1>7, <1>8 DEF KInv

LEMMA ListenStepKeys ==
    ASSUME KInv, NEW b \in Agents, ListenStep(b)
    PROVE  KInv'
<1>1. IInv /\ IInv'
  BY ListenStepPreserves DEF KInv
<1>2. call' = call => KeepsParties /\ \A y \in Exchs : Begun(y)' => Begun(y)
  BY <1>1, NobodyMoves DEF Begun
<1>3. CASE OpenReq(b)
  BY <1>1, <1>2, <1>3, OpenReqDoes, QuietKeys DEF SetUps
<1>4. CASE SetUpRes(b)
  BY <1>4, SetUpResKeys
<1>5. CASE SendRes(b)
  BY <1>5, SendResKeys
<1>6. CASE AddRequester(b)
  BY <1>1, <1>2, <1>6, AddRequesterDoes, QuietKeys
<1>7. CASE FindPeer(b)
  BY <1>1, <1>2, <1>7, FindPeerDoes, QuietKeys DEF SetUps
<1>8. CASE ReadKeys(b)
  BY <1>1, <1>2, <1>8, ReadKeysDoes, QuietKeys DEF SetUps
<1>9. CASE OpenRes(b)
  BY <1>1, <1>2, <1>9, OpenResDoes, QuietKeys DEF SetUps
<1>10. CASE Signal(b)
  <2>1. /\ \A y \in Exchs : Begun(y)' => Begun(y)
        /\ \A x \in Exchs : call'[x].step # call[x].step => call'[x].step \notin SetUps
        /\ \A x \in Exchs : call'[x].step = call[x].step => call'[x] = call[x]
    BY <1>1, <1>10, SignalDoes DEF Begun, SetUps
  <2>2. listen'[b].step = "idle" \/ /\ listen[b].step # "idle" /\ listen'[b].msg = listen[b].msg
                                    /\ listen'[b].step \notin SetUps \ {"generate"}
    BY <1>1, <1>10, SignalDoes DEF SetUps
  <2> QED BY <1>1, <1>10, <2>1, <2>2, SignalDoes, QuietKeys
<1> QED BY <1>3, <1>4, <1>5, <1>6, <1>7, <1>8, <1>9, <1>10 DEF ListenStep

LEMMA AcceptKeys ==
    ASSUME KInv, NEW a \in Agents, NEW b \in Agents, NEW sync \in BOOLEAN, Accept(a, b, sync)
    PROVE  KInv'
<1>1. IInv /\ IInv'
  BY AcceptPreserves DEF KInv
<1>2. PICK x \in Exchs :
         /\ call'[x].step = "generate" /\ \A y \in Exchs \ {x} : call'[y] = call[y]
         /\ KeepsParties
         /\ UNCHANGED <<joins, key, doc, peers, chan, wire, listen, polls, crashed>>
  BY <1>1, AcceptDoes
<1>3. TablesGrow
  BY <1>2 DEF TablesGrow
<1>4. CallKeys'
  <2> SUFFICES ASSUME NEW y \in Exchs, Begun(y)'
               PROVE  Made(call[y], key[Requester(y)][Inviter(y)], doc[Requester(y)][Inviter(y)])'
    BY DEF CallKeys
  <2>1. CASE y # x
    BY <1>1, <1>2, <1>3, <2>1, KeysKept DEF Begun
  <2>2. CASE y = x
    BY <1>2, <2>2 DEF Made
  <2> QED BY <2>1, <2>2
<1>5. ListenKeys'
  BY <1>1, <1>2, <1>3, KeysKept DEF ListenKeys
<1> QED BY <1>1, <1>2, <1>4, <1>5 DEF KInv, WireKeys

LEMMA NextKInv == KInv /\ [Next]_vars => KInv'
<1> SUFFICES ASSUME KInv, [Next]_vars PROVE KInv'
  OBVIOUS
<1>1. IInv /\ IInv'
  BY NextIInv DEF KInv
<1>2. call' = call => KeepsParties /\ \A y \in Exchs : Begun(y)' => Begun(y)
  BY <1>1, NobodyMoves DEF Begun
<1>3. ASSUME NEW a \in Agents, NEW b \in Agents, UserStep(a, b) \/ Poll(a, b) PROVE KInv'
  BY <1>1, <1>2, <1>3, AcceptKeys, ServiceDoes, QuietKeys DEF UserStep
<1>4. ASSUME NEW x \in Exchs, CallStep(x) PROVE KInv'
  <2>1. CASE AddInviter(x)
    <3>1. \A y \in Exchs : Begun(y)' => Begun(y)
      BY <1>1, <2>1, AddInviterDoes DEF Begun
    <3> QED BY <1>1, <2>1, <3>1, AddInviterDoes, QuietKeys DEF SetUps
  <2>2. CASE StoreChan(x)
    <3>1. \A y \in Exchs : Begun(y)' => Begun(y)
      BY <1>1, <2>2, StoreChanDoes DEF Begun
    <3> QED BY <1>1, <2>2, <3>1, StoreChanDoes, QuietKeys DEF SetUps
  <2> QED BY <1>4, <2>1, <2>2, SetUpReqKeys, SendReqKeys DEF CallStep
<1>5. CASE UNCHANGED vars
  BY <1>1, <1>2, <1>5, QuietKeys DEF vars
<1> QED BY <1>3, <1>4, <1>5, HandOverKeys, ListenStepKeys DEF Next, Deliver
-----------------------------------------------------------------------------
(* Connections that are half open *)

\* b never accepts an invitation of a.
NeverAsks(b, a) == \A x \in Exchs : ~Between(x, b, a)

\* b has recorded a, or will before it processes another message.
Answered(b, a) == \/ peers[b][a].svc # 0
                  \/ listen[b].step \in {"sent", "add"} /\ Sender(listen[b].msg) = a

\* a has the services of b, or a response it may get them from.
Gets(a, b) == \/ peers[a][b].svc # 0
              \/ /\ listen[a].step # "idle" /\ listen[a].msg.typ = "res"
                 /\ Sender(listen[a].msg) = b

HInv == /\ KInv
        /\ \A a, b \in Agents : NeverAsks(b, a) /\ Gets(a, b) => Answered(b, a)

\* A step that leaves what listen goroutines sent and took, and peer records.
LEMMA QuietHalf ==
    ASSUME IInv, KeepsParties, NEW a \in Agents, NEW b \in Agents, peers' = peers,
           \A p \in Agents : \/ listen'[p] = listen[p]
                             \/ listen'[p].step = "idle" /\ listen[p].step \notin {"sent", "add"}
                             \/ /\ listen[p].step \notin {"idle", "sent", "add"}
                                /\ listen'[p].msg = listen[p].msg
    PROVE  (Gets(a, b)' => Gets(a, b)) /\ (Answered(b, a) => Answered(b, a)')
<1>1. \A p \in Agents : listen[p].step # "idle" => Sender(listen[p].msg)' =
         IF listen'[p].msg = listen[p].msg THEN Sender(listen[p].msg) ELSE Sender(listen[p].msg)'
  BY Busy, PartiesKept
<1>2. Gets(a, b)' => Gets(a, b)
  BY <1>1 DEF Gets
<1>3. Answered(b, a) => Answered(b, a)'
  BY <1>1 DEF Answered
<1> QED BY <1>2, <1>3

LEMMA HandOverHalf ==
    ASSUME KInv, NEW a \in Agents, NEW b \in Agents, NEW m, HandOver(m)
    PROVE  /\ Gets(a, b)' => Gets(a, b) \/ Answered(b, a)'
           /\ Answered(b, a) => Answered(b, a)'
<1>1. IInv /\ m \in Messages /\ m \in wire /\ Begun(m.exch) /\ m.exch \in Exchs
  BY DEF KInv, IInv, HandOver, TypeOK, WireBegun, Messages
<1>2. KeepsParties
  BY <1>1, HandOverDoes
<1>3. peers' = peers
  BY DEF HandOver
<1>4. Sender(m)' = Sender(m)
  BY <1>1, <1>2, PartiesKept
<1>5. \A p \in Agents : listen[p].step # "idle" /\ listen'[p].msg = listen[p].msg =>
                           Sender(listen[p].msg)' = Sender(listen[p].msg)
  BY <1>1, <1>2, Busy, PartiesKept
<1>6. CASE m.typ = "req"
  <2>1. \A p \in Agents : \/ listen'[p] = listen[p]
                          \/ /\ listen[p].step = "idle" /\ listen'[p].step = "got"
                             /\ listen'[p].msg = m
    BY <1>1, <1>6, HandReqDoes
  <2> QED BY <1>3, <1>5, <1>6, <2>1 DEF Gets, Answered
<1>7. CASE m.typ # "req"
  <2>1. /\ listen'[Requester(m.exch)].step = "got" /\ listen'[Requester(m.exch)].msg = m
        /\ listen[Requester(m.exch)].step = "idle"
        /\ listen[Inviter(m.exch)].step = "sent" /\ listen'[Inviter(m.exch)].step = "add"
        /\ listen'[Inviter(m.exch)].msg = listen[Inviter(m.exch)].msg
        /\ \A p \in Agents \ {Requester(m.exch), Inviter(m.exch)} : listen'[p] = listen[p]
        /\ m.typ = "res"
    BY <1>1, <1>7, HandResDoes
  <2>2. Requester(m.exch) \in Agents /\ Inviter(m.exch) \in Agents
    BY <1>1, CallFields DEF IInv
  <2>3. Answered(b, a) => Answered(b, a)'
    BY <1>3, <1>5, <2>1 DEF Answered
  <2>4. CASE a # Requester(m.exch)
    BY <1>3, <1>5, <2>1, <2>3, <2>4 DEF Gets
  <2>5. CASE a = Requester(m.exch) /\ b # Inviter(m.exch)
    <3>1. Sender(listen[a].msg)' # b
      BY <1>1, <1>4, <1>7, <2>1, <2>5 DEF Sender, Inviter
    <3> QED BY <1>3, <2>3, <3>1 DEF Gets
  <2>6. CASE a = Requester(m.exch) /\ b = Inviter(m.exch)
    <3>1. listen[b].msg.exch = m.exch /\ listen[b].msg.typ = "req"
      BY <1>1, <2>1, <2>2, <2>6 DEF IInv, ResOnWire, ListenFor
    <3>2. Sender(listen[b].msg) = a
      BY <2>6, <3>1 DEF Sender
    <3>3. Sender(listen[b].msg)' = a
      BY <1>5, <2>1, <2>6, <3>2
    <3> QED BY <2>1, <2>3, <2>6, <3>3 DEF Answered
  <2> QED BY <2>4, <2>5, <2>6
<1> QED BY <1>6, <1>7

LEMMA ListenStepHalf ==
    ASSUME KInv, NEW a \in Agents, NEW b \in Agents, NeverAsks(b, a),
           NEW p \in Agents, ListenStep(p)
    PROVE  /\ Gets(a, b)' => Gets(a, b) \/ Answered(b, a)'
           /\ Answered(b, a) => Answered(b, a)'
<1>1. IInv
  BY DEF KInv
<1>2. KeepsParties
  BY <1>1, ListenStepDoes
<1>3. \A q \in Agents : listen[q].step # "idle" /\ listen'[q].msg = listen[q].msg =>
                           Sender(listen[q].msg)' = Sender(listen[q].msg)
  BY <1>1, <1>2, Busy, PartiesKept
<1>4. CASE OpenReq(p)
  BY <1>1, <1>2, <1>4, OpenReqDoes, QuietHalf
<1>5. CASE SetUpRes(p)
  BY <1>1, <1>2, <1>5, SetUpResDoes, QuietHalf
<1>6. CASE SendRes(p)
  BY <1>1, <1>2, <1>6, SendResDoes, QuietHalf
<1>7. CASE AddRequester(p)
  <2> DEFINE q == Sender(listen[p].msg)
  <2>1. /\ listen[p].step = "add" /\ listen[p].msg.typ = "req" /\ q \in Agents
        /\ listen'[p].step = "idle" /\ \A o \in Agents \ {p} : listen'[o] = listen[o]
        /\ peers'[p][q] = [exch |-> listen[p].msg.exch, svc |-> listen[p].msg.key]
        /\ \A n, o \in Agents : n # p \/ o # q => peers'[n][o] = peers[n][o]
    BY <1>1, <1>7, AddRequesterDoes
  <2>2. peers'[p][q].svc # 0
    BY <2>1 DEF KInv, ListenKeys
  <2>3. Between(listen[p].msg.exch, q, p) /\ listen[p].msg.exch \in Exchs
    BY <1>1, <2>1, Busy DEF Between
  <2>4. Answered(b, a) => Answered(b, a)'
    BY <1>3, <2>1, <2>2 DEF Answered
  <2>5. p # a \/ q # b
    BY <2>3 DEF NeverAsks
  <2>6. Gets(a, b)' => Gets(a, b)
    BY <1>3, <2>1, <2>5 DEF Gets
  <2> QED BY <2>4, <2>6
<1>8. CASE FindPeer(p)
  BY <1>1, <1>2, <1>8, FindPeerDoes, QuietHalf
<1>9. CASE ReadKeys(p)
  BY <1>1, <1>2, <1>9, ReadKeysDoes, QuietHalf
<1>10. CASE OpenRes(p)
  <2> DEFINE q == Sender(listen[p].msg)
  <2>1. /\ listen[p].step = "open" /\ listen[p].msg.typ = "res" /\ q \in Agents
        /\ \A o \in Agents \ {p} : listen'[o] = listen[o]
        /\ \A n, o \in Agents : n # p \/ o # q => peers'[n][o] = peers[n][o]
        /\ \/ /\ listen'[p].step = "signal" /\ listen'[p].msg = listen[p].msg
              /\ peers'[p][q] = [exch |-> listen[p].msg.exch, svc |-> listen[p].msg.key]
           \/ listen'[p].step = "idle" /\ peers'[p][q] = peers[p][q]
    BY <1>1, <1>10, OpenResDoes
  <2>2. listen[p].msg.key # 0
    BY <2>1 DEF KInv, ListenKeys
  <2>3. Answered(b, a) => Answered(b, a)'
    BY <1>3, <2>1, <2>2 DEF Answered
  <2>4. Gets(a, b)' => Gets(a, b)
    BY <1>3, <2>1 DEF Gets
  <2> QED BY <2>3, <2>4
<1>11. CASE Signal(p)
  BY <1>1, <1>2, <1>11, SignalDoes, QuietHalf
<1> QED BY <1>4, <1>5, <1>6, <1>7, <1>8, <1>9, <1>10, <1>11 DEF ListenStep

LEMMA NextHInv == HInv /\ [Next]_vars => HInv'
<1> SUFFICES ASSUME HInv, [Next]_vars PROVE HInv'
  OBVIOUS
<1>1. IInv /\ KInv /\ KInv'
  BY NextKInv DEF HInv, KInv
<1> SUFFICES ASSUME NEW a \in Agents, NEW b \in Agents, NeverAsks(b, a)', Gets(a, b)'
             PROVE  Answered(b, a)'
  BY <1>1 DEF HInv
<1>2. KeepsParties => NeverAsks(b, a)
  BY DEF NeverAsks, KeepsParties, Between, Begun, Requester, Inviter
<1>3. call' = call => KeepsParties
  BY <1>1, NobodyMoves
<1>4. NeverAsks(b, a) /\ Gets(a, b) => Answered(b, a)
  BY DEF HInv
<1>5. ASSUME NEW p \in Agents, NEW q \in Agents, UserStep(p, q) \/ Poll(p, q)
      PROVE  Answered(b, a)'
  <2>1. KeepsParties /\ peers' = peers /\ listen' = listen
    BY <1>1, <1>3, <1>5, AcceptDoes, ServiceDoes DEF UserStep
  <2> QED BY <1>1, <1>2, <1>4, <2>1, QuietHalf
<1>6. ASSUME NEW x \in Exchs, CallStep(x)
      PROVE  Answered(b, a)'
  <2>1. CASE AddInviter(x)
    <3>1. /\ KeepsParties /\ listen' = listen /\ Begun(x)
          /\ peers'[Requester(x)][Inviter(x)] = [exch |-> x, svc |-> 0]
          /\ \A p, q \in Agents : p # Requester(x) \/ q # Inviter(x) =>
                peers'[p][q] = peers[p][q]
      BY <1>1, <2>1, AddInviterDoes
    <3>2. peers'[b][a] = peers[b][a]
      BY <1>2, <3>1 DEF NeverAsks, Between
    <3>3. \A p \in Agents : listen[p].step # "idle" =>
                               Sender(listen[p].msg)' = Sender(listen[p].msg)
      BY <1>1, <3>1, Busy, PartiesKept
    <3>4. peers'[a][b].svc # 0 => peers[a][b].svc # 0
      BY <3>1
    <3> QED BY <1>2, <1>4, <3>1, <3>2, <3>3, <3>4 DEF Gets, Answered
  <2>2. ~AddInviter(x) => KeepsParties /\ peers' = peers /\ listen' = listen
    BY <1>1, <1>6, SetUpReqDoes, SendReqDoes, StoreChanDoes DEF CallStep
  <2> QED BY <1>1, <1>2, <1>4, <2>1, <2>2, QuietHalf
<1>7. ASSUME NEW m, HandOver(m)
      PROVE  Answered(b, a)'
  <2>1. KeepsParties
    BY <1>1, <1>7, HandOverDoes
  <2> QED BY <1>1, <1>2, <1>4, <1>7, <2>1, HandOverHalf
<1>8. ASSUME NEW p \in Agents, ListenStep(p)
      PROVE  Answered(b, a)'
  <2>1. KeepsParties
    BY <1>1, <1>8, ListenStepDoes
  <2> QED BY <1>1, <1>2, <1>4, <1>8, <2>1, ListenStepHalf
<1>9. CASE UNCHANGED vars
  <2>1. KeepsParties /\ peers' = peers /\ listen' = listen
    BY <1>3, <1>9 DEF vars
  <2> QED BY <1>1, <1>2, <1>4, <2>1, QuietHalf
<1> QED BY <1>5, <1>6, <1>7, <1>8, <1>9 DEF Next, Deliver

\* Whoever knows an inviter's services is known by it, or about to be, whatever
\* calls of Accept and SyncAccept overlap, unless the inviter accepts invitations
\* of the other as well.
THEOREM HalfOpenHolds == Spec => []HalfOpen
<1>1. Init => HInv
  BY InitKInv DEF HInv, Init, Gets, NoPeer, Idle
<1>2. HInv => HalfOpen
  BY DEF HInv, HalfOpen, NeverAsks, Gets, Answered
<1> QED BY <1>1, NextHInv, <1>2, PTL DEF Spec
-----------------------------------------------------------------------------
(* Agents that do one exchange with a peer at a time *)

\* Accept has stored the record of exchange x.
PastAdd(x) == call[x].step \in {"store", "wait", "done"}

OneAtATime == \A a \in Agents \ Hasty : \A b \in Agents : \A x, y \in Exchs :
                 /\ Between(x, a, b) /\ Active(x)
                 /\ Between(y, a, b) /\ Active(y)
                 => x = y

\* A request is on its way until it is handed over, once.
ReqOnWire == \A m \in wire : m.typ = "req" =>
                /\ call[m.exch].step = "sent"
                /\ \A n \in wire : n.typ = "req" /\ n.exch = m.exch => n = m

\* A record of a requester names an exchange whose Accept has stored one.
Recorded == \A a, b \in Agents : \A x \in Exchs :
               peers[a][b].exch = x => /\ Begun(x)
                                       /\ Requester(x) = a => PastAdd(x)

\* A response is looked at further only after that.
ResPast == \A a \in Agents :
              listen[a].step \in {"ownPublic", "ownPrivate", "open", "signal"} =>
                  PastAdd(listen[a].msg.exch)

ChanOwn == \A a, b \in Agents : \A x \in Exchs : chan[a][b] = x => Between(x, a, b)

\* Before SyncAccept is woken the services are known.
Signalled == \A a \in Agents \ Hasty :
                listen[a].step = "signal" => peers[a][Sender(listen[a].msg)].svc # 0

SInv == /\ KInv
        /\ OneAtATime
        /\ ReqOnWire
        /\ Recorded
        /\ ResPast
        /\ ChanOwn
        /\ Signalled

\* No step takes up an exchange again that is over.
LEMMA ActiveBefore ==
    ASSUME IInv, [Next]_vars, NEW x \in Exchs, Begun(x), Active(x)'
    PROVE  Active(x)
<1> SUFFICES ASSUME ~Active(x) PROVE FALSE
  OBVIOUS
<1>1. /\ call[x].step \in {"wait", "done"}
      /\ \A m \in wire : m.exch # x
      /\ \A a \in Agents : listen[a].step \notin {"idle", "blocked"} => listen[a].msg.exch # x
  BY DEF Active
<1> SUFFICES /\ call'[x].step \in {"wait", "done"}
             /\ \A m \in wire' : m.exch # x
             /\ \A a \in Agents : listen'[a].step \notin {"idle", "blocked"} =>
                                     listen'[a].msg.exch # x
  BY DEF Active
<1>2. ASSUME NEW p \in Agents, NEW q \in Agents, NEW sync \in BOOLEAN, Accept(p, q, sync)
      PROVE  call'[x] = call[x] /\ UNCHANGED <<wire, listen>>
  <2>1. PICK z \in Exchs :
        /\ ~Begun(z) /\ <<p, q>> \in Invited
        /\ p \notin Hasty => ~UnderWay(p, q)
        /\ call' \in [Exchs -> Calls] /\ call'[z].step = "generate"
        /\ call'[z].from = p /\ call'[z].to = q
        /\ \A o \in Exchs \ {z} : call'[o] = call[o]
        /\ KeepsParties
        /\ UNCHANGED <<joins, key, doc, peers, chan, wire, listen, polls, crashed>>
    BY <1>2, AcceptDoes
  <2> QED BY <2>1
<1>3. ASSUME NEW y \in Exchs, CallStep(y)
      PROVE  call'[x] = call[x] /\ listen' = listen /\ \A m \in wire' : m.exch # x
  <2>1. y # x
    BY <1>1, <1>3, CallStepDoes
  <2> QED BY <1>1, <1>3, <2>1, CallStepDoes
<1>4. ASSUME NEW m, HandOver(m)
      PROVE  /\ call'[x].step \in {"wait", "done"}
             /\ \A n \in wire' : n.exch # x
             /\ \A a \in Agents : listen'[a].step \notin {"idle", "blocked"} =>
                                     listen'[a].msg.exch # x
  BY <1>1, <1>4, HandOverDoes
<1>5. ASSUME NEW p \in Agents, ListenStep(p)
      PROVE  /\ call'[x].step \in {"wait", "done"}
             /\ \A n \in wire' : n.exch # x
             /\ \A a \in Agents : listen'[a].step \notin {"idle", "blocked"} =>
                                     listen'[a].msg.exch # x
  BY <1>1, <1>5, ListenStepDoes
<1> QED BY <1>1, <1>2, <1>3, <1>4, <1>5, ServiceDoes DEF Next, UserStep, Deliver, vars

LEMMA NextOneAtATime ==
    ASSUME IInv, OneAtATime, [Next]_vars
    PROVE  OneAtATime'
<1> SUFFICES ASSUME NEW a \in Agents \ Hasty, NEW b \in Agents, NEW x \in Exchs, NEW y \in Exchs,
                    Between(x, a, b)', Active(x)', Between(y, a, b)', Active(y)'
             PROVE  x = y
  BY DEF OneAtATime
<1>1. ASSUME KeepsParties, \A z \in Exchs : Begun(z)' => Begun(z)
      PROVE  x = y
  <2>1. Between(x, a, b) /\ Between(y, a, b)
    BY <1>1, PartiesKept DEF Between
  <2> QED BY <2>1, ActiveBefore DEF OneAtATime, Between
<1>2. ASSUME NEW p \in Agents, NEW q \in Agents, NEW sync \in BOOLEAN, Accept(p, q, sync)
      PROVE  x = y
  <2>1. PICK z \in Exchs :
        /\ ~Begun(z) /\ <<p, q>> \in Invited
        /\ p \notin Hasty => ~UnderWay(p, q)
        /\ call' \in [Exchs -> Calls] /\ call'[z].step = "generate"
        /\ call'[z].from = p /\ call'[z].to = q
        /\ \A o \in Exchs \ {z} : call'[o] = call[o]
        /\ KeepsParties
        /\ UNCHANGED <<joins, key, doc, peers, chan, wire, listen, polls, crashed>>
    BY <1>2, AcceptDoes
  <2>2. \A o \in Exchs \ {z} : Between(o, a, b)' /\ Active(o)' => Between(o, a, b) /\ Active(o)
    <3> SUFFICES ASSUME NEW o \in Exchs \ {z}, Between(o, a, b)', Active(o)'
                 PROVE  Between(o, a, b) /\ Active(o)
      OBVIOUS
    <3>1. Between(o, a, b)
      BY <2>1 DEF Between, Begun, Requester, Inviter
    <3> QED BY <3>1, ActiveBefore DEF Between
  <2>3. Between(z, a, b)' => p = a /\ q = b
    BY <2>1 DEF Between, Requester, Inviter
  <2>4. Between(z, a, b)' => \A o \in Exchs \ {z} : ~(Between(o, a, b)' /\ Active(o)')
    BY <2>1, <2>2, <2>3 DEF UnderWay
  <2> QED BY <2>2, <2>4 DEF OneAtATime
<1>3. call' = call => x = y
  BY <1>1, NobodyMoves DEF Begun
<1>4. ASSUME NEW z \in Exchs, CallStep(z) PROVE x = y
  BY <1>1, <1>4, CallStepDoes
<1>5. ASSUME NEW m, HandOver(m) PROVE x = y
  BY <1>1, <1>5, HandOverDoes
<1>6. ASSUME NEW p \in Agents, ListenStep(p) PROVE x = y
  BY <1>1, <1>6, ListenStepDoes
<1> QED BY <1>2, <1>3, <1>4, <1>5, <1>6, ServiceDoes DEF Next, UserStep, Deliver, vars

LEMMA PastKept ==
    ASSUME IInv, ReqOnWire, [Next]_vars, NEW x \in Exchs, PastAdd(x)
    PROVE  PastAdd(x)'
<1>1. ASSUME NEW p \in Agents, NEW q \in Agents, NEW sync \in BOOLEAN, Accept(p, q, sync)
      PROVE  PastAdd(x)'
  <2>1. PICK z \in Exchs :
            /\ ~Begun(z) /\ <<p, q>> \in Invited
            /\ p \notin Hasty => ~UnderWay(p, q)
            /\ call' \in [Exchs -> Calls] /\ call'[z].step = "generate"
            /\ call'[z].from = p /\ call'[z].to = q
            /\ \A o \in Exchs \ {z} : call'[o] = call[o]
            /\ KeepsParties
            /\ UNCHANGED <<joins, key, doc, peers, chan, wire, listen, polls, crashed>>
    BY <1>1, AcceptDoes
  <2> QED BY <2>1 DEF PastAdd, Begun
<1>2. ASSUME NEW y \in Exchs, CallStep(y)
      PROVE  PastAdd(x)'
  <2>1. CASE x # y
    BY <1>2, <2>1, CallStepDoes DEF PastAdd
  <2>2. CASE x = y
    <3>1. StoreChan(x)
      BY <1>2, <2>2, SetUpReqDoes, SendReqDoes, AddInviterDoes DEF PastAdd, CallStep
    <3> QED BY <3>1, StoreChanDoes DEF PastAdd
  <2> QED BY <2>1, <2>2
<1>3. ASSUME NEW m, HandOver(m)
      PROVE  PastAdd(x)'
  BY <1>3, HandOverDoes DEF PastAdd, ReqOnWire
<1>4. ASSUME NEW p \in Agents, ListenStep(p)
      PROVE  PastAdd(x)'
  BY <1>4, ListenStepDoes DEF PastAdd
<1> QED BY <1>1, <1>2, <1>3, <1>4, ServiceDoes DEF Next, UserStep, Deliver, vars, PastAdd

LEMMA NextReqOnWire ==
    ASSUME IInv, ReqOnWire, [Next]_vars
    PROVE  ReqOnWire'
<1>1. \A m \in wire : m.exch \in Exchs /\ Begun(m.exch)
  BY DEF IInv, TypeOK, Messages, WireBegun
<1>2. ASSUME NEW p \in Agents, NEW q \in Agents, NEW sync \in BOOLEAN, Accept(p, q, sync)
      PROVE  ReqOnWire'
  <2>1. PICK z \in Exchs :
            /\ ~Begun(z) /\ <<p, q>> \in Invited
            /\ p \notin Hasty => ~UnderWay(p, q)
            /\ call' \in [Exchs -> Calls] /\ call'[z].step = "generate"
            /\ call'[z].from = p /\ call'[z].to = q
            /\ \A o \in Exchs \ {z} : call'[o] = call[o]
            /\ KeepsParties
            /\ UNCHANGED <<joins, key, doc, peers, chan, wire, listen, polls, crashed>>
    BY <1>2, AcceptDoes
  <2> QED BY <1>1, <2>1 DEF ReqOnWire
<1>3. ASSUME NEW x \in Exchs, CallStep(x)
      PROVE  ReqOnWire'
  <2>1. call[x].step # "sent" /\ \A m \in wire : m.typ = "req" => m.exch # x
    BY <1>3, SetUpReqDoes, SendReqDoes, AddInviterDoes, StoreChanDoes DEF CallStep, ReqOnWire
  <2>2. CASE SendReq(x)
    <3>1. PICK m \in Messages : m.typ = "req" /\ m.exch = x /\ wire' = wire \cup {m}
      BY <2>2, SendReqDoes
    <3>2. call'[x].step = "sent" /\ \A y \in Exchs \ {x} : call'[y] = call[y]
      BY <2>2, SendReqDoes
    <3> QED BY <1>1, <2>1, <3>1, <3>2 DEF ReqOnWire
  <2>3. CASE ~SendReq(x)
    <3>1. wire' = wire /\ \A y \in Exchs \ {x} : call'[y] = call[y]
      BY <1>3, <2>3, SetUpReqDoes, AddInviterDoes, StoreChanDoes DEF CallStep
    <3> QED BY <1>1, <2>1, <3>1 DEF ReqOnWire
  <2> QED BY <2>2, <2>3
<1>4. ASSUME NEW m, HandOver(m)
      PROVE  ReqOnWire'
  <2>1. /\ m \in wire /\ wire' = wire \ {m}
        /\ \A y \in Exchs : call'[y] = call[y] \/ (m.typ = "req" /\ y = m.exch)
    BY <1>4, HandOverDoes
  <2> QED BY <1>1, <2>1 DEF ReqOnWire
<1>5. ASSUME NEW p \in Agents, ListenStep(p)
      PROVE  ReqOnWire'
  <2>1. /\ \A y \in Exchs : call'[y] = call[y] \/ call[y].step = "wait"
        /\ \A m \in wire' : m.typ = "req" => m \in wire
    BY <1>5, ListenStepDoes
  <2>2. \A m \in wire' : m.typ = "req" => call'[m.exch].step = "sent"
    BY <1>1, <2>1 DEF ReqOnWire
  <2> QED BY <2>1, <2>2 DEF ReqOnWire
<1> QED BY <1>2, <1>3, <1>4, <1>5, ServiceDoes
        DEF Next, UserStep, Deliver, vars, ReqOnWire

\* A step that stores no record.
LEMMA SameRecords ==
    ASSUME IInv, ReqOnWire, Recorded, [Next]_vars, KeepsParties, peers' = peers
    PROVE  Recorded'
<1> SUFFICES ASSUME NEW a \in Agents, NEW b \in Agents, NEW x \in Exchs, peers[a][b].exch = x
             PROVE  Begun(x)' /\ (Requester(x)' = a => PastAdd(x)')
  BY DEF Recorded
<1>1. Begun(x) /\ (Requester(x) = a => PastAdd(x))
  BY DEF Recorded
<1> QED BY <1>1, PartiesKept, PastKept

\* A step that stores one record does so for an exchange it may name.
LEMMA NewRecord ==
    ASSUME IInv, ReqOnWire, Recorded, [Next]_vars, KeepsParties,
           NEW a \in Agents, NEW b \in Agents, NEW x \in Exchs,
           \A p, q \in Agents : p # a \/ q # b => peers'[p][q] = peers[p][q],
           peers'[a][b].exch \in {x, peers[a][b].exch},
           Begun(x), Requester(x) = a => PastAdd(x)'
    PROVE  Recorded'
<1> SUFFICES ASSUME NEW p \in Agents, NEW q \in Agents, NEW y \in Exchs, peers'[p][q].exch = y
             PROVE  Begun(y)' /\ (Requester(y)' = p => PastAdd(y)')
  BY DEF Recorded
<1>1. CASE peers[p][q].exch = y
  BY <1>1, PartiesKept, PastKept DEF Recorded
<1>2. CASE p = a /\ q = b /\ y = x
  BY <1>2, PartiesKept
<1> QED BY <1>1, <1>2

LEMMA NextRecorded ==
    ASSUME IInv, ReqOnWire, Recorded, ResPast, [Next]_vars
    PROVE  Recorded'
<1>1. ASSUME NEW p \in Agents, NEW q \in Agents, UserStep(p, q) \/ Poll(p, q)
      PROVE  Recorded'
  BY <1>1, AcceptDoes, ServiceDoes, NobodyMoves, SameRecords DEF UserStep
<1>2. ASSUME NEW x \in Exchs, CallStep(x)
      PROVE  Recorded'
  <2>1. CASE AddInviter(x)
    <3>1. /\ Begun(x) /\ KeepsParties /\ PastAdd(x)'
          /\ peers'[Requester(x)][Inviter(x)] = [exch |-> x, svc |-> 0]
          /\ \A p, q \in Agents : p # Requester(x) \/ q # Inviter(x) =>
                peers'[p][q] = peers[p][q]
      BY <2>1, AddInviterDoes DEF PastAdd
    <3>2. Requester(x) \in Agents /\ Inviter(x) \in Agents
      BY <3>1, CallFields DEF IInv
    <3>3. peers'[Requester(x)][Inviter(x)].exch = x
      BY <3>1
    <3> QED BY <3>1, <3>2, <3>3, NewRecord
  <2>2. CASE ~AddInviter(x)
    BY <1>2, <2>2, SetUpReqDoes, SendReqDoes, StoreChanDoes, SameRecords DEF CallStep
  <2> QED BY <2>1, <2>2
<1>3. ASSUME NEW m, HandOver(m)
      PROVE  Recorded'
  BY <1>3, HandOverDoes, SameRecords
<1>4. ASSUME NEW p \in Agents, ListenStep(p)
      PROVE  Recorded'
  <2> DEFINE x == listen[p].msg.exch
             q == Sender(listen[p].msg)
  <2>1. KeepsParties
    BY <1>4, ListenStepDoes
  <2>2. CASE AddRequester(p)
    <3>1. /\ q \in Agents /\ listen[p].step = "add" /\ listen[p].msg.typ = "req"
          /\ peers'[p][q] = [exch |-> x, svc |-> listen[p].msg.key]
          /\ \A n, o \in Agents : n # p \/ o # q => peers'[n][o] = peers[n][o]
      BY <2>2, AddRequesterDoes
    <3>2. x \in Exchs /\ Begun(x) /\ Requester(x) # p
      BY <3>1, Busy
    <3>3. peers'[p][q].exch = x
      BY <3>1
    <3> QED BY <2>1, <3>1, <3>2, <3>3, NewRecord
  <2>3. CASE OpenRes(p)
    <3>1. /\ q \in Agents /\ listen[p].step = "open"
          /\ \A n, o \in Agents : n # p \/ o # q => peers'[n][o] = peers[n][o]
          /\ \/ peers'[p][q] = [exch |-> x, svc |-> listen[p].msg.key]
             \/ peers'[p][q] = peers[p][q]
      BY <2>3, OpenResDoes
    <3>2. PICK y \in Exchs : y = x
      BY <3>1, Busy
    <3>3. Begun(y) /\ PastAdd(y)
      BY <3>1, <3>2, Busy DEF ResPast
    <3>4. PastAdd(y)'
      BY <3>3, PastKept
    <3>5. peers'[p][q].exch \in {y, peers[p][q].exch}
      BY <3>1, <3>2
    <3> QED BY <2>1, <3>1, <3>3, <3>4, <3>5, NewRecord
  <2>4. CASE ~AddRequester(p) /\ ~OpenRes(p)
    <3>1. peers' = peers
      BY <1>4, <2>4, OpenReqDoes, SetUpResDoes, SendResDoes, FindPeerDoes, ReadKeysDoes,
         SignalDoes DEF ListenStep
    <3> QED BY <2>1, <3>1, SameRecords
  <2> QED BY <2>2, <2>3, <2>4
<1>5. CASE UNCHANGED vars
  BY <1>5, NobodyMoves, SameRecords DEF vars
<1> QED BY <1>1, <1>2, <1>3, <1>4, <1>5 DEF Next, Deliver

LEMMA NextResPast ==
    ASSUME IInv, ReqOnWire, Recorded, ResPast, [Next]_vars
    PROVE  ResPast'
<1> DEFINE Steps == {"ownPublic", "ownPrivate", "open", "signal"}
<1> SUFFICES ASSUME NEW a \in Agents, listen'[a].step \in Steps
             PROVE  PastAdd(listen[a].msg.exch)'
  BY DEF ResPast
<1>1. ASSUME NEW x \in Exchs, listen'[a].msg.exch = x, PastAdd(x)
      PROVE  PastAdd(listen[a].msg.exch)'
  BY <1>1, PastKept DEF PastAdd
<1>2. ASSUME listen'[a].msg = listen[a].msg, listen[a].step \in Steps
      PROVE  PastAdd(listen[a].msg.exch)'
  <2>1. listen[a].msg.exch \in Exchs
    BY <1>2, Busy
  <2> QED BY <1>1, <1>2, <2>1 DEF ResPast
<1>3. ASSUME NEW m, HandOver(m)
      PROVE  PastAdd(listen[a].msg.exch)'
  <2>1. listen'[a] = listen[a]
    BY <1>3, HandOverDoes
  <2> QED BY <1>2, <2>1
<1>4. ASSUME NEW p \in Agents, ListenStep(p)
      PROVE  PastAdd(listen[a].msg.exch)'
  <2>1. CASE a # p
    BY <1>2, <1>4, <2>1, ListenStepDoes
  <2>2. CASE a = p /\ FindPeer(p)
    <3> DEFINE m == listen[a].msg
    <3>1. Known(m) /\ listen'[a].msg = m /\ m.typ = "res" /\ listen[a].step # "idle"
      BY <2>2, FindPeerDoes
    <3>2. /\ m.exch \in Exchs /\ Requester(m.exch) = a /\ Inviter(m.exch) \in Agents
          /\ peers[a][Inviter(m.exch)].exch = m.exch
      BY <3>1, Busy DEF Known
    <3>3. PastAdd(m.exch)
      BY <3>2 DEF Recorded
    <3> QED BY <1>1, <3>1, <3>2, <3>3
  <2>3. CASE a = p /\ ~FindPeer(p)
    <3>1. listen'[a].step \notin SetUps \cup {"sent", "add"}
      BY DEF SetUps
    <3>2. listen[a].step \in Steps /\ listen'[a].msg = listen[a].msg
      <4>1. ~OpenReq(a) /\ ~SetUpRes(a) /\ ~SendRes(a) /\ ~AddRequester(a)
        BY OpenReqDoes, SetUpResDoes, SendResDoes, AddRequesterDoes DEF SetUpDone
      <4> QED BY <1>4, <2>3, <4>1, ReadKeysDoes, OpenResDoes, SignalDoes DEF ListenStep
    <3> QED BY <1>2, <3>2
  <2> QED BY <2>1, <2>2, <2>3
<1>5. listen' = listen => PastAdd(listen[a].msg.exch)'
  BY <1>2
<1>6. ASSUME NEW p \in Agents, NEW q \in Agents, UserStep(p, q) \/ Poll(p, q)
      PROVE  listen' = listen
  BY <1>6, AcceptDoes, ServiceDoes DEF UserStep
<1> QED BY <1>3, <1>4, <1>5, <1>6, CallStepDoes DEF Next, Deliver, vars

LEMMA NextChanOwn ==
    ASSUME IInv, ChanOwn, [Next]_vars
    PROVE  ChanOwn'
<1>1. KeepsParties /\ chan' = chan => ChanOwn'
  BY PartiesKept DEF ChanOwn, Between
<1>2. ASSUME NEW x \in Exchs, CallStep(x)
      PROVE  ChanOwn'
  <2>1. CASE StoreChan(x)
    <3>1. /\ Begun(x) /\ KeepsParties
          /\ chan'[Requester(x)][Inviter(x)] = x
          /\ \A p, q \in Agents : p # Requester(x) \/ q # Inviter(x) => chan'[p][q] = chan[p][q]
      BY <2>1, StoreChanDoes
    <3>2. Begun(x)' /\ Requester(x)' = Requester(x) /\ Inviter(x)' = Inviter(x)
      BY <3>1, PartiesKept
    <3> SUFFICES ASSUME NEW p \in Agents, NEW q \in Agents, NEW y \in Exchs, chan'[p][q] = y
                 PROVE  Between(y, p, q)'
      BY DEF ChanOwn
    <3>3. CASE chan[p][q] = y
      BY <3>1, <3>3, PartiesKept DEF ChanOwn, Between
    <3>4. CASE y = x /\ p = Requester(x) /\ q = Inviter(x)
      BY <3>2, <3>4 DEF Between
    <3> QED BY <3>1, <3>3, <3>4
  <2>2. CASE ~StoreChan(x)
    BY <1>1, <1>2, <2>2, SetUpReqDoes, SendReqDoes, AddInviterDoes DEF CallStep
  <2> QED BY <2>1, <2>2
<1>3. ASSUME NEW m, HandOver(m) PROVE ChanOwn'
  BY <1>1, <1>3, HandOverDoes
<1>4. ASSUME NEW p \in Agents, ListenStep(p) PROVE ChanOwn'
  BY <1>1, <1>4, ListenStepDoes
<1>5. ASSUME NEW p \in Agents, NEW q \in Agents, UserStep(p, q) \/ Poll(p, q) PROVE ChanOwn'
  BY <1>1, <1>5, AcceptDoes, ServiceDoes, NobodyMoves DEF UserStep
<1>6. CASE UNCHANGED vars
  BY <1>1, <1>6, NobodyMoves DEF vars
<1> QED BY <1>2, <1>3, <1>4, <1>5, <1>6 DEF Next, Deliver

\* A step that leaves the records of a alone.
LEMMA SignalKept ==
    ASSUME IInv, Signalled, KeepsParties, NEW a \in Agents \ Hasty, listen[a].step = "signal",
           listen'[a] = listen[a], peers'[a] = peers[a]
    PROVE  peers'[a][Sender(listen[a].msg)'].svc # 0
<1>1. Sender(listen[a].msg)' = Sender(listen[a].msg)
  BY Busy, PartiesKept
<1> QED BY <1>1 DEF Signalled

\* A step of a listen goroutine leaves the records of the other agents alone.
LEMMA OthersRecords ==
    ASSUME IInv, NEW p \in Agents, ListenStep(p), NEW n \in Agents, n # p
    PROVE  \A q \in Agents : peers'[n][q] = peers[n][q]
<1> DEFINE s == Sender(listen[p].msg)
<1>1. CASE AddRequester(p)
  <2>1. /\ s \in Agents /\ listen[p].step = "add" /\ listen[p].msg.typ = "req"
        /\ peers'[p][s] = [exch |-> listen[p].msg.exch, svc |-> listen[p].msg.key]
        /\ \A r, q \in Agents : r # p \/ q # s => peers'[r][q] = peers[r][q]
    BY <1>1, AddRequesterDoes
  <2> QED BY <2>1
<1>2. CASE OpenRes(p)
  <2>1. /\ s \in Agents /\ listen[p].step = "open"
        /\ \A r, q \in Agents : r # p \/ q # s => peers'[r][q] = peers[r][q]
        /\ \/ peers'[p][s] = [exch |-> listen[p].msg.exch, svc |-> listen[p].msg.key]
           \/ peers'[p][s] = peers[p][s]
    BY <1>2, OpenResDoes
  <2> QED BY <2>1
<1>3. CASE ~AddRequester(p) /\ ~OpenRes(p)
  BY <1>3, OpenReqDoes, SetUpResDoes, SendResDoes, FindPeerDoes, ReadKeysDoes, SignalDoes
     DEF ListenStep
<1> QED BY <1>1, <1>2, <1>3

LEMMA NextSignalled ==
    ASSUME SInv, [Next]_vars
    PROVE  Signalled'
<1> SUFFICES ASSUME NEW a \in Agents \ Hasty, listen'[a].step = "signal"
             PROVE  peers'[a][Sender(listen[a].msg)'].svc # 0
  BY DEF Signalled
<1>1. KInv /\ IInv /\ Signalled
  BY DEF SInv, KInv
<1>2. peers' \in PerPair(Peers)
  BY <1>1, NextIInv DEF IInv, TypeOK
<1>3. ASSUME NEW p \in Agents, NEW q \in Agents, UserStep(p, q) \/ Poll(p, q)
      PROVE  peers'[a][Sender(listen[a].msg)'].svc # 0
  <2>1. KeepsParties /\ listen' = listen /\ peers' = peers
    BY <1>1, <1>3, AcceptDoes, ServiceDoes, NobodyMoves DEF UserStep
  <2> QED BY <1>1, <2>1, SignalKept
<1>4. ASSUME NEW x \in Exchs, CallStep(x)
      PROVE  peers'[a][Sender(listen[a].msg)'].svc # 0
  <2>1. listen' = listen /\ KeepsParties
    BY <1>1, <1>4, CallStepDoes
  <2>2. CASE ~AddInviter(x)
    <3>1. peers' = peers
      BY <1>1, <1>4, <2>2, SetUpReqDoes, SendReqDoes, StoreChanDoes DEF CallStep
    <3> QED BY <1>1, <2>1, <3>1, SignalKept
  <2>3. CASE AddInviter(x)
    <3> DEFINE z == listen[a].msg.exch
               b == Sender(listen[a].msg)
    <3>1. /\ Begun(x) /\ call[x].step = "add"
          /\ \A p, q \in Agents : p # Requester(x) \/ q # Inviter(x) => peers'[p][q] = peers[p][q]
      BY <1>1, <2>3, AddInviterDoes
    <3>2. /\ z \in Exchs /\ Begun(z) /\ Requester(z) = a /\ Inviter(z) = b /\ b \in Agents
          /\ Sender(listen[a].msg)' = b
      <4>1. listen[a].step = "signal" /\ listen'[a].msg = listen[a].msg
        BY <2>1
      <4>2. listen[a].msg.typ = "res"
        BY <1>1, <4>1 DEF IInv, ListenFor
      <4> QED BY <1>1, <2>1, <4>1, <4>2, Busy, PartiesKept
    <3>3. PastAdd(z)
      BY <2>1 DEF SInv, ResPast
    <3>4. z # x
      BY <3>1, <3>3 DEF PastAdd
    <3>5. ~Between(x, a, b)
      <4>1. Active(z)
        BY <2>1 DEF Active
      <4>2. Active(x)
        BY <3>1 DEF Active
      <4> QED BY <3>2, <3>4, <4>1, <4>2 DEF SInv, OneAtATime, Between
    <3>6. peers'[a][b] = peers[a][b]
      BY <3>1, <3>2, <3>5 DEF Between
    <3> QED BY <1>1, <2>1, <3>2, <3>6 DEF Signalled
  <2> QED BY <2>2, <2>3
<1>5. ASSUME NEW m, HandOver(m)
      PROVE  peers'[a][Sender(listen[a].msg)'].svc # 0
  <2>1. KeepsParties /\ listen'[a] = listen[a] /\ peers' = peers
    BY <1>1, <1>5, HandOverDoes
  <2> QED BY <1>1, <2>1, SignalKept
<1>6. ASSUME NEW p \in Agents, ListenStep(p)
      PROVE  peers'[a][Sender(listen[a].msg)'].svc # 0
  <2>1. KeepsParties
    BY <1>1, <1>6, ListenStepDoes
  <2>2. CASE a # p
    <3>1. listen'[a] = listen[a]
      BY <1>1, <1>6, <2>2, ListenStepDoes
    <3>2. \A q \in Agents : peers'[a][q] = peers[a][q]
      BY <1>1, <1>6, <2>2, OthersRecords
    <3>3. peers'[a] = peers[a]
      BY <1>1, <1>2, <3>2 DEF PerPair, IInv, TypeOK
    <3> QED BY <1>1, <2>1, <3>1, <3>3, SignalKept
  <2>3. CASE a = p
    <3>1. OpenRes(a)
      <4>1. ~SetUpRes(a)
        BY <1>1, SetUpResDoes DEF SetUpDone
      <4>2. ~OpenReq(a) /\ ~SendRes(a) /\ ~AddRequester(a)
        BY <1>1, OpenReqDoes, SendResDoes, AddRequesterDoes
      <4>3. ~FindPeer(a) /\ ~ReadKeys(a) /\ ~Signal(a)
        BY <1>1, FindPeerDoes, ReadKeysDoes, SignalDoes
      <4> QED BY <1>6, <2>3, <4>1, <4>2, <4>3 DEF ListenStep
    <3> DEFINE b == Sender(listen[a].msg)
    <3>2. /\ listen[a].step = "open" /\ listen'[a].msg = listen[a].msg
          /\ peers'[a][b] = [exch |-> listen[a].msg.exch, svc |-> listen[a].msg.key]
      BY <1>1, <3>1, OpenResDoes
    <3>3. listen[a].msg.key # 0
      BY <1>1, <3>2 DEF KInv, ListenKeys
    <3>4. Sender(listen[a].msg)' = b
      BY <1>1, <2>1, <3>2, Busy, PartiesKept
    <3> QED BY <3>2, <3>3, <3>4
  <2> QED BY <2>2, <2>3
<1>7. CASE UNCHANGED vars
  <2>1. KeepsParties /\ listen' = listen /\ peers' = peers
    BY <1>1, <1>7, NobodyMoves DEF vars
  <2> QED BY <1>1, <2>1, SignalKept
<1> QED BY <1>3, <1>4, <1>5, <1>6, <1>7 DEF Next, Deliver

LEMMA InitSInv == Init => SInv
<1> SUFFICES ASSUME Init PROVE SInv
  OBVIOUS
<1>1. KInv
  BY InitKInv
<1>2. \A x \in Exchs : ~Begun(x) /\ x # 0
  BY DEF Init, Begun, New, Exchs
<1> QED BY <1>1, <1>2, ConnectAssumption DEF SInv, OneAtATime, Between, ReqOnWire, Recorded,
        ResPast, ChanOwn, Signalled, Init, Idle, NoPeer

LEMMA NextSInv == SInv /\ [Next]_vars => SInv'
<1> SUFFICES ASSUME SInv, [Next]_vars PROVE SInv'
  OBVIOUS
<1>1. /\ IInv /\ KInv /\ OneAtATime /\ ReqOnWire /\ Recorded /\ ResPast /\ ChanOwn
  BY DEF SInv, KInv
<1> QED BY <1>1, NextKInv, NextOneAtATime, NextReqOnWire, NextRecorded, NextResPast,
        NextChanOwn, NextSignalled DEF SInv

\* A SyncAccept is woken by the listen goroutine, on the channel it has stored.
LEMMA WaitEnds ==
    ASSUME SInv, [Next]_vars, NEW x \in Exchs, call[x].step = "wait", call'[x].step = "done",
           Requester(x) \notin Hasty
    PROVE  peers'[Requester(x)][Inviter(x)].svc # 0
<1>1. IInv /\ Begun(x)
  BY DEF SInv, KInv, Begun
<1>2. PICK p \in Agents : Signal(p)
  <2>1. call'[x] # call[x]
    OBVIOUS
  <2>2. ~\E y \in Exchs : CallStep(y)
    <3> SUFFICES ASSUME NEW y \in Exchs, CallStep(y) PROVE FALSE
      OBVIOUS
    <3> QED BY <1>1, <2>1, CallStepDoes
  <2>3. ~\E m : HandOver(m)
    <3> SUFFICES ASSUME NEW m, HandOver(m) PROVE FALSE
      OBVIOUS
    <3> QED BY <1>1, <2>1, HandOverDoes
  <2>4. ~\E p, q \in Agents : UserStep(p, q) \/ Poll(p, q)
    <3> SUFFICES ASSUME NEW p \in Agents, NEW q \in Agents, UserStep(p, q) \/ Poll(p, q)
                 PROVE  FALSE
      OBVIOUS
    <3>1. ~(SyncService(p, q) \/ Poll(p, q))
      BY <2>1, ServiceDoes
    <3>2. PICK sync \in BOOLEAN : Accept(p, q, sync)
      BY <3>1 DEF UserStep
    <3>3. PICK z \in Exchs :
            /\ ~Begun(z) /\ <<p, q>> \in Invited
            /\ p \notin Hasty => ~UnderWay(p, q)
            /\ call' \in [Exchs -> Calls] /\ call'[z].step = "generate"
            /\ call'[z].from = p /\ call'[z].to = q
            /\ \A o \in Exchs \ {z} : call'[o] = call[o]
            /\ KeepsParties
            /\ UNCHANGED <<joins, key, doc, peers, chan, wire, listen, polls, crashed>>
      BY <1>1, <3>2, AcceptDoes
    <3> QED BY <1>1, <2>1, <3>3
  <2>5. PICK p \in Agents : ListenStep(p)
    BY <2>1, <2>2, <2>3, <2>4 DEF Next, Deliver, vars
  <2>6. Signal(p)
    BY <1>1, <2>1, <2>5, OpenReqDoes, SetUpResDoes, SendResDoes, AddRequesterDoes,
       FindPeerDoes, ReadKeysDoes, OpenResDoes DEF ListenStep
  <2> QED BY <2>6
<1> DEFINE b == Sender(listen[p].msg)
<1>3. /\ listen[p].step = "signal" /\ b \in Agents /\ chan[p][b] = x
      /\ KeepsParties /\ peers' = peers
  BY <1>1, <1>2, SignalDoes
<1>4. Between(x, p, b)
  BY <1>3 DEF SInv, ChanOwn
<1>5. peers[p][b].svc # 0
  BY <1>3, <1>4 DEF SInv, Signalled, Between
<1> QED BY <1>3, <1>4, <1>5 DEF Between

\* SyncAccept returns only when the services of the peer are known, to an agent
\* that does one exchange with a peer at a time, whatever the others do.
THEOREM SyncMeansConnectedHolds == Spec => SyncMeansConnected
<1>1. SInv /\ [Next]_vars => [\A x \in Exchs :
          call[x].step = "wait" /\ call'[x].step = "done" /\ Requester(x) \notin Hasty =>
              peers'[Requester(x)][Inviter(x)].svc # 0]_vars
  <2> SUFFICES ASSUME SInv, [Next]_vars, NEW x \in Exchs, call[x].step = "wait",
                      call'[x].step = "done", Requester(x) \notin Hasty
               PROVE  peers'[Requester(x)][Inviter(x)].svc # 0
    OBVIOUS
  <2> QED BY WaitEnds
<1> QED BY InitSInv, NextSInv, <1>1, PTL DEF Spec, SyncMeansConnected
=============================================================================
