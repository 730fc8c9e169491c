---------------------------- MODULE ReqRep_proofs ---------------------------
(***************************************************************************)
(* Proofs about ReqRep: the type invariant, and that it implements Rpc,    *)
(* for any agents, any number of calls and whoever exits.                  *)
(***************************************************************************)
EXTENDS ReqRep, TLAPS

\* A call that was made has a sender of its own agent for its endpoint, and so
\* has every entry of the map.
SendersFit ==
    /\ \A r \in Requests : pc[r] = "new" <=> to[r] = Nowhere
    /\ \A r \in Requests : pc[r] = "new" <=> from[r] = Nowhere
    /\ \A r \in Requests : pc[r] = "new" => sndr[r] = "none"
    /\ \A r \in Requests : pc[r] # "new" => /\ from[sender[r]] = from[r]
                                            /\ to[sender[r]] = to[r]
                                            /\ pc[sender[r]] # "new"
    /\ \A a, e \in Agents : chanMap[a][e] # Nobody => /\ from[chanMap[a][e]] = a
                                                      /\ to[chanMap[a][e]] = e
                                                      /\ pc[chanMap[a][e]] # "new"

\* A sender is busy with one call, which waits.
JobsFit == \A s \in Requests :
    /\ sndr[s] = "busy" <=> job[s] # Nobody
    /\ job[s] # Nobody => sender[job[s]] = s /\ pc[job[s]] = "wait" /\ Alive(from[s])

\* The sender of a message that is at a server waits for its answer, unless its
\* process has exited.
Awaited(r) == /\ pc[r] = "wait"
              /\ Alive(from[r]) => job[sender[r]] = r /\ inbox[sender[r]] = NoAnswer

ArrivedFit == \A r \in arrived : /\ Awaited(r)
                                 /\ \A e \in Agents : serving[e] # r /\ handled[e][r] = 0

ServingFit == \A e \in Agents : serving[e] # Nobody =>
    /\ Awaited(serving[e]) /\ to[serving[e]] = e
    /\ type[e] = "unknown" => handled[e][serving[e]] = 0

\* An answer is for the call its sender works for, and tells whether the
\* message was handled.
AnswersFit == \A s \in Requests : inbox[s] # NoAnswer =>
    /\ job[s] # Nobody
    /\ inbox[s] = [of |-> job[s], failed |-> handled[to[s]][job[s]] = 0]
    /\ \A e \in Agents : serving[e] # job[s]

\* Messages are handled at their endpoint, once.
HandledFit == \A e \in Agents, r \in Requests : handled[e][r] # 0 =>
    /\ handled[e][r] = 1 /\ to[r] = e
    /\ pc[r] \in {"wait", "done"}

ResultsFit == \A r \in Requests : pc[r] = "done" <=> result[r] # NoAnswer

RInv == /\ TypeOK
        /\ SendersFit
        /\ JobsFit
        /\ ArrivedFit
        /\ ServingFit
        /\ AnswersFit
        /\ HandledFit
        /\ ResultsFit
-----------------------------------------------------------------------------
LEMMA NobodyIsNone == Nobody \notin Requests
BY ReqRepAssumption DEF Requests, Nobody

LEMMA InitType == Init => TypeOK
BY ReqRepAssumption DEF Init, TypeOK, Requests, Nobody, NoAnswer, Answers, Types

LEMMA NextType ==
    ASSUME TypeOK, SendersFit, [Next]_vars
    PROVE  TypeOK'
<1> USE NobodyIsNone DEF TypeOK
<1>1. CASE UNCHANGED vars
  BY <1>1 DEF vars, calls, client, server, exit
<1>2. ASSUME NEW r \in Requests, NEW a \in Callers, NEW e \in Agents, Send(r, a, e)
      PROVE  TypeOK'
  <2>1. a \in Agents
    BY ReqRepAssumption
  <2>2. UNCHANGED <<result, chanMap, job, inbox, server, exit>>
    BY <1>2 DEF Send
  <2>3. /\ pc' = [pc EXCEPT ![r] = "offer"]
        /\ from' = [from EXCEPT ![r] = a] /\ to' = [to EXCEPT ![r] = e]
    BY <1>2 DEF Send
  <2>4. chanMap[a][e] \in Requests \cup {Nobody}
    BY <2>1
  <2>5. \/ /\ chanMap[a][e] # Nobody
           /\ sender' = [sender EXCEPT ![r] = chanMap[a][e]] /\ sndr' = sndr
        \/ sender' = [sender EXCEPT ![r] = r] /\ sndr' = [sndr EXCEPT ![r] = "starting"]
    BY <1>2 DEF Send, Sendr
  <2>6. sender' \in [Requests -> Requests]
    BY <2>4, <2>5
  <2>7. sndr' \in [Requests -> {"none", "starting", "ready", "busy", "ended"}]
    BY <2>5
  <2> QED BY <2>1, <2>2, <2>3, <2>6, <2>7 DEF server, exit
<1>3. ASSUME NEW a \in Exiting, Close(a) PROVE TypeOK'
  BY <1>3, ReqRepAssumption DEF Close, calls, client, server
<1>4. ASSUME NEW r \in Requests, HandOver(r) PROVE TypeOK'
  BY <1>4 DEF HandOver, exit
<1>5. ASSUME NEW s \in Requests, InitSendr(s) PROVE TypeOK'
  <2>1. from[s] \in Agents /\ to[s] \in Agents
    BY <1>5 DEF InitSendr, SendersFit
  <2>2. chanMap' \in [Agents -> [Agents -> Requests \cup {Nobody}]]
    BY <1>5, <2>1 DEF InitSendr
  <2>3. sndr' \in [Requests -> {"none", "starting", "ready", "busy", "ended"}]
    BY <1>5 DEF InitSendr
  <2>4. todo' \in [Agents -> SUBSET Agents]
    <3> DEFINE more == todo[from[s]] \cup {to[s]}
    <3>1. todo' = todo \/ todo' = [todo EXCEPT ![from[s]] = more]
      BY <1>5 DEF InitSendr
    <3>2. more \in SUBSET Agents
      BY <2>1
    <3>3. todo \in [Agents -> SUBSET Agents]
      OBVIOUS
    <3> HIDE DEF more
    <3>4. CASE todo' = todo
      BY <3>3, <3>4
    <3>5. CASE todo' = [todo EXCEPT ![from[s]] = more]
      BY <2>1, <3>2, <3>3, <3>5
    <3> QED BY <3>1, <3>4, <3>5
  <2>5. UNCHANGED <<calls, job, inbox, server, closing, visit, down>>
    BY <1>5 DEF InitSendr
  <2> QED BY <2>2, <2>3, <2>4, <2>5 DEF calls, server
<1>6. ASSUME NEW s \in Requests, Receive(s) PROVE TypeOK'
  BY <1>6 DEF Receive, server, exit
<1>7. ASSUME NEW e \in Agents, Accept(e) PROVE TypeOK'
  BY <1>7 DEF Accept, calls, client, exit
<1>8. ASSUME NEW e \in Agents, Take(e) PROVE TypeOK'
  BY <1>8 DEF Take, calls, client, exit
<1>9. ASSUME NEW e \in Agents, Answer(e) PROVE TypeOK'
  BY <1>9 DEF Answer, AnswerTo, Answers, Types, calls, exit
<1>10. ASSUME NEW e \in Agents, Finish(e) PROVE TypeOK'
  BY <1>10 DEF Finish, calls, client, exit
<1>11. ASSUME NEW a \in Agents, Visit(a) PROVE TypeOK'
  BY <1>11 DEF Visit, calls, client, server
<1>12. ASSUME NEW a \in Agents, Terminate(a) PROVE TypeOK'
  BY <1>12 DEF Terminate, calls, server
<1>13. ASSUME NEW a \in Agents, Exit(a) PROVE TypeOK'
  BY <1>13 DEF Exit, calls, Types
<1> QED BY <1>1, <1>2, <1>3, <1>4, <1>5, <1>6, <1>7, <1>8, <1>9, <1>10, <1>11, <1>12, <1>13
        DEF Next, UserStep, SenderStep, ServerStep, CloseStep

LEMMA InitRInv == Init => RInv
<1> SUFFICES ASSUME Init PROVE RInv
  OBVIOUS
<1>1. Nowhere \notin Agents /\ Nobody \notin Requests
  BY ReqRepAssumption, NobodyIsNone
<1> QED BY <1>1, InitType DEF Init, RInv, SendersFit, JobsFit, ArrivedFit, ServingFit,
                              AnswersFit, HandledFit, ResultsFit

Step == [R!Next]_(R!vars)

\* Steps that touch nothing but handlers and the book-keeping of Close.
LEMMA OtherStep ==
    ASSUME RInv, TypeOK', UNCHANGED <<calls, client, arrived, serving, type, handled, down>>
    PROVE  RInv' /\ Step
<1> USE DEF calls, client, Alive
<1>2. \A r \in Requests : Awaited(r) => Awaited(r)'
  BY DEF Awaited
<1>3. SendersFit' /\ JobsFit' /\ AnswersFit' /\ HandledFit' /\ ResultsFit'
  BY DEF RInv, SendersFit, JobsFit, AnswersFit, HandledFit, ResultsFit
<1>4. ArrivedFit' /\ ServingFit'
  BY <1>2 DEF RInv, TypeOK, ArrivedFit, ServingFit
<1> QED BY <1>3, <1>4 DEF RInv, Step, R!vars

LEMMA SendR ==
    ASSUME RInv, TypeOK', NEW r \in Requests, NEW a \in Agents, NEW e \in Agents, Send(r, a, e)
    PROVE  RInv' /\ Step
<1> USE NobodyIsNone DEF server, exit
<1>1. /\ pc[r] = "new" /\ to[r] = Nowhere /\ sndr[r] = "none" /\ Nowhere \notin Agents
      /\ UNCHANGED <<result, chanMap, job, inbox, arrived, serving, type, handled, down>>
  BY ReqRepAssumption DEF Send, RInv, SendersFit
<1>2. /\ pc'[r] = "offer" /\ from'[r] = a /\ to'[r] = e
      /\ \A x \in Requests \ {r} : /\ pc'[x] = pc[x] /\ from'[x] = from[x] /\ to'[x] = to[x]
                                   /\ sender'[x] = sender[x] /\ sndr'[x] = sndr[x]
  BY DEF Send, RInv, TypeOK
<1>3. \/ /\ chanMap[a][e] # Nobody /\ sender'[r] = chanMap[a][e] /\ sndr'[r] = "none"
      \/ sender'[r] = r /\ sndr'[r] = "starting"
  BY <1>1 DEF Send, Sendr, RInv, TypeOK
<1>4. /\ chanMap[a][e] \in Requests \cup {Nobody} /\ sender \in [Requests -> Requests]
      /\ \A x, y \in Agents : chanMap[x][y] \in Requests \cup {Nobody}
      /\ job \in [Requests -> Requests \cup {Nobody}]
      /\ serving \in [Agents -> Requests \cup {Nobody}] /\ arrived \subseteq Requests
  BY DEF RInv, TypeOK
<1>5. SendersFit'
  <2> USE <1>1, <1>2, <1>3, <1>4
  <2>6. SendersFit
    BY DEF RInv
  <2>1. \A x \in Requests : pc'[x] = "new" <=> to'[x] = Nowhere
    BY <1>1, <1>2 DEF RInv, SendersFit
  <2>2. \A x \in Requests : pc'[x] = "new" <=> from'[x] = Nowhere
    BY <1>1, <1>2 DEF RInv, SendersFit
  <2>3. \A x \in Requests : pc'[x] = "new" => sndr'[x] = "none"
    BY <1>1, <1>2 DEF RInv, SendersFit
  <2>4. \A x \in Requests : pc'[x] # "new" => /\ from'[sender'[x]] = from'[x]
                                              /\ to'[sender'[x]] = to'[x]
                                              /\ pc'[sender'[x]] # "new"
    <3>1. CASE sender'[r] = r
      BY <2>6, <3>1 DEF SendersFit
    <3>2. CASE chanMap[a][e] # Nobody /\ sender'[r] = chanMap[a][e]
      BY <2>6, <3>2 DEF SendersFit
    <3> QED BY <3>1, <3>2
  <2>5. ASSUME NEW x \in Agents, NEW y \in Agents, chanMap'[x][y] # Nobody
        PROVE  /\ from'[chanMap'[x][y]] = x
               /\ to'[chanMap'[x][y]] = y
               /\ pc'[chanMap'[x][y]] # "new"
    <3>1. chanMap[x][y] \in Requests \ {r}
      BY <2>5, <2>6 DEF SendersFit
    <3> QED BY <2>5, <2>6, <3>1 DEF SendersFit
  <2> QED BY <2>1, <2>2, <2>3, <2>4, <2>5 DEF SendersFit
<1>6. JobsFit'
  BY <1>1, <1>2, <1>3, <1>4 DEF RInv, JobsFit, Alive
<1>7. \A x \in Requests : Awaited(x) => x # r /\ Awaited(x)'
  BY <1>1, <1>2 DEF Awaited, Alive
<1>8. ArrivedFit' /\ ServingFit'
  BY <1>1, <1>2, <1>4, <1>7 DEF RInv, ArrivedFit, ServingFit
<1>9. AnswersFit' /\ HandledFit' /\ ResultsFit'
  <2>1. \A s \in Requests : job[s] # Nobody => s # r
    BY <1>1 DEF RInv, JobsFit
  <2>2. AnswersFit'
    <3> SUFFICES ASSUME NEW s \in Requests, inbox[s] # NoAnswer
                 PROVE  /\ job[s] # Nobody
                        /\ inbox[s] = [of |-> job[s], failed |-> handled[to'[s]][job[s]] = 0]
                        /\ \A x \in Agents : serving[x] # job[s]
      BY <1>1 DEF AnswersFit, NoAnswer
    <3>1. job[s] # Nobody /\ \A x \in Agents : serving[x] # job[s]
      BY DEF RInv, AnswersFit
    <3>2. inbox[s] = [of |-> job[s], failed |-> handled[to[s]][job[s]] = 0]
      BY DEF RInv, AnswersFit
    <3>3. to'[s] = to[s]
      BY <1>2, <2>1, <3>1
    <3> QED BY <3>1, <3>2, <3>3
  <2>3. HandledFit'
    BY <1>1, <1>2 DEF RInv, HandledFit
  <2>4. ResultsFit'
    BY <1>1, <1>2 DEF RInv, ResultsFit
  <2> QED BY <2>2, <2>3, <2>4
<1>10. R!Call(r, e)
  BY <1>1 DEF R!Call, Send
<1> QED BY <1>5, <1>6, <1>8, <1>9, <1>10 DEF RInv, Step, R!Next

LEMMA InitSendrR ==
    ASSUME RInv, TypeOK', NEW s \in Requests, InitSendr(s)
    PROVE  RInv' /\ Step
<1> USE NobodyIsNone DEF calls, server
<1>1. /\ sndr[s] = "starting" /\ pc[s] # "new" /\ from[s] \in Agents /\ to[s] \in Agents
      /\ UNCHANGED <<pc, from, to, sender, result, job, inbox, arrived, serving, type, handled, down>>
  BY DEF InitSendr, RInv, TypeOK, SendersFit
<1>2. /\ sndr'[s] = "ready" /\ \A x \in Requests \ {s} : sndr'[x] = sndr[x]
      /\ \A a, e \in Agents : chanMap'[a][e] = IF a = from[s] /\ e = to[s] THEN s ELSE chanMap[a][e]
  BY <1>1 DEF InitSendr, RInv, TypeOK
<1>3. \A a, e \in Agents : chanMap[a][e] \in Requests \cup {Nobody}
  BY DEF RInv, TypeOK
<1>4. SendersFit'
  <2>1. \A a, e \in Agents : chanMap'[a][e] # Nobody => /\ from[chanMap'[a][e]] = a
                                                        /\ to[chanMap'[a][e]] = e
                                                        /\ pc[chanMap'[a][e]] # "new"
    BY <1>1, <1>2, <1>3 DEF RInv, SendersFit
  <2> QED BY <1>1, <1>2, <2>1 DEF RInv, SendersFit
<1>5. JobsFit'
  BY <1>1, <1>2 DEF RInv, JobsFit, Alive
<1>6. \A x \in Requests : Awaited(x) => Awaited(x)'
  BY <1>1 DEF Awaited, Alive
<1>7. ArrivedFit' /\ ServingFit'
  BY <1>1, <1>6 DEF RInv, TypeOK, ArrivedFit, ServingFit
<1>8. AnswersFit' /\ HandledFit' /\ ResultsFit'
  BY <1>1 DEF RInv, AnswersFit, HandledFit, ResultsFit
<1>9. UNCHANGED R!vars
  BY <1>1 DEF R!vars
<1> QED BY <1>4, <1>5, <1>7, <1>8, <1>9 DEF RInv, Step

\* The sender is free, so no other message it sent is under way.
LEMMA HandOverR ==
    ASSUME RInv, TypeOK', NEW r \in Requests, HandOver(r)
    PROVE  RInv' /\ Step
<1> USE NobodyIsNone
<1> DEFINE s == sender[r]
<1>1. /\ pc[r] = "offer" /\ s \in Requests /\ sndr[s] = "ready" /\ Alive(from[r])
      /\ UNCHANGED <<from, to, sender, result, chanMap, inbox, serving, type, handled, down>>
      /\ arrived' = arrived \cup {r}
  BY DEF HandOver, Free, exit, RInv, TypeOK
<1>2. /\ pc'[r] = "wait" /\ \A x \in Requests \ {r} : pc'[x] = pc[x]
      /\ sndr'[s] = "busy" /\ \A x \in Requests \ {s} : sndr'[x] = sndr[x]
      /\ job'[s] = r /\ \A x \in Requests \ {s} : job'[x] = job[x]
  BY <1>1 DEF HandOver, RInv, TypeOK
<1>3. job[s] = Nobody /\ inbox[s] = NoAnswer
  BY <1>1 DEF RInv, JobsFit, AnswersFit
<1>4. from[s] = from[r]
  BY <1>1 DEF RInv, SendersFit
<1>5. \A x \in Requests : Awaited(x) => x # r /\ (Alive(from[x]) => sender[x] # s)
  BY <1>1, <1>3 DEF Awaited
<1>6. \A x \in Requests : Awaited(x) => Awaited(x)'
  <2>1. sender \in [Requests -> Requests]
    BY DEF RInv, TypeOK
  <2> QED BY <1>1, <1>2, <1>5, <2>1 DEF Awaited, Alive
<1>7. Awaited(r)'
  BY <1>1, <1>2, <1>3 DEF Awaited
<1>8. SendersFit'
  <2>1. \A a, e \in Agents : chanMap[a][e] \in Requests \cup {Nobody}
    BY DEF RInv, TypeOK
  <2>2. sender \in [Requests -> Requests]
    BY DEF RInv, TypeOK
  <2> QED BY <1>1, <1>2, <2>1, <2>2 DEF RInv, SendersFit
<1>9. JobsFit'
  <2>1. job \in [Requests -> Requests \cup {Nobody}]
    BY DEF RInv, TypeOK
  <2> QED BY <1>1, <1>2, <1>3, <1>4, <2>1 DEF RInv, JobsFit, Alive
<1>10. \A e \in Agents : serving[e] # r /\ handled[e][r] = 0
  BY <1>1 DEF RInv, ServingFit, HandledFit, Awaited
<1>11. ArrivedFit'
  BY <1>1, <1>6, <1>7, <1>10 DEF RInv, TypeOK, ArrivedFit
<1>12. ServingFit'
  BY <1>1, <1>6 DEF RInv, TypeOK, ServingFit
<1>13. AnswersFit'
  <2> SUFFICES ASSUME NEW x \in Requests, inbox[x] # NoAnswer
               PROVE  /\ job'[x] # Nobody
                      /\ inbox[x] = [of |-> job'[x], failed |-> handled[to[x]][job'[x]] = 0]
                      /\ \A e \in Agents : serving[e] # job'[x]
    BY <1>1 DEF AnswersFit, NoAnswer
  <2>1. job'[x] = job[x]
    BY <1>2, <1>3
  <2> QED BY <2>1 DEF RInv, AnswersFit
<1>14. HandledFit'
  BY <1>1, <1>2 DEF RInv, HandledFit
<1>15. ResultsFit'
  BY <1>1, <1>2 DEF RInv, ResultsFit, NoAnswer
<1>16. UNCHANGED R!vars
  BY <1>1 DEF R!vars
<1> QED BY <1>8, <1>9, <1>11, <1>12, <1>13, <1>14, <1>15, <1>16 DEF RInv, Step

\* The answer in the inbox is for the call the sender works for.
LEMMA ReceiveR ==
    ASSUME RInv, TypeOK', NEW s \in Requests, Receive(s)
    PROVE  RInv' /\ Step
<1> USE NobodyIsNone DEF server, exit
<1> DEFINE r == job[s]
<1>1. /\ sndr[s] = "busy" /\ inbox[s] # NoAnswer /\ r \in Requests /\ r # Nobody
      /\ pc[r] = "wait" /\ sender[r] = s
      /\ UNCHANGED <<from, to, sender, chanMap, arrived, serving, type, handled, down>>
  BY DEF Receive, RInv, TypeOK, JobsFit
<1>2. /\ pc'[r] = "done" /\ \A x \in Requests \ {r} : pc'[x] = pc[x]
      /\ result'[r] = inbox[s] /\ \A x \in Requests \ {r} : result'[x] = result[x]
      /\ sndr'[s] = "ready" /\ \A x \in Requests \ {s} : sndr'[x] = sndr[x]
      /\ job'[s] = Nobody /\ \A x \in Requests \ {s} : job'[x] = job[x]
      /\ inbox'[s] = NoAnswer /\ \A x \in Requests \ {s} : inbox'[x] = inbox[x]
  BY <1>1 DEF Receive, RInv, TypeOK
<1>3. to[s] = to[r] /\ from[s] = from[r] /\ to[r] # Nowhere
  BY <1>1 DEF RInv, SendersFit
<1>4. /\ inbox[s] = [of |-> r, failed |-> handled[to[r]][r] = 0]
      /\ \A e \in Agents : serving[e] # r
  BY <1>1, <1>3 DEF RInv, AnswersFit
<1>5. Alive(from[r])
  BY <1>3 DEF Receive
<1>6. r \notin arrived
  BY <1>1, <1>5 DEF RInv, ArrivedFit, Awaited
<1>7. \A x \in Requests \ {r} : Awaited(x) => Awaited(x)'
  <2> SUFFICES ASSUME NEW x \in Requests \ {r}, Awaited(x) PROVE Awaited(x)'
    OBVIOUS
  <2>1. sender[x] \in Requests
    BY DEF RInv, TypeOK
  <2>2. Alive(from[x]) => sender[x] # s
    BY DEF Awaited
  <2> QED BY <1>1, <1>2, <2>1, <2>2 DEF Awaited, Alive
<1>8. SendersFit'
  <2>1. \A a, e \in Agents : chanMap[a][e] \in Requests \cup {Nobody}
    BY DEF RInv, TypeOK
  <2>2. sender \in [Requests -> Requests]
    BY DEF RInv, TypeOK
  <2> QED BY <1>1, <1>2, <2>1, <2>2 DEF RInv, SendersFit
<1>9. JobsFit'
  <2>1. job \in [Requests -> Requests \cup {Nobody}]
    BY DEF RInv, TypeOK
  <2>2. \A x \in Requests \ {s} : job[x] # r
    BY <1>1 DEF RInv, JobsFit
  <2> QED BY <1>1, <1>2, <2>1, <2>2 DEF RInv, JobsFit, Alive
<1>10. ArrivedFit'
  BY <1>1, <1>6, <1>7 DEF RInv, TypeOK, ArrivedFit
<1>11. ServingFit'
  BY <1>1, <1>4, <1>7 DEF RInv, TypeOK, ServingFit
<1>12. AnswersFit'
  <2> SUFFICES ASSUME NEW x \in Requests, inbox'[x] # NoAnswer
               PROVE  /\ job'[x] # Nobody
                      /\ inbox'[x] = [of |-> job'[x], failed |-> handled[to[x]][job'[x]] = 0]
                      /\ \A e \in Agents : serving[e] # job'[x]
    BY <1>1 DEF AnswersFit, NoAnswer
  <2>1. job'[x] = job[x] /\ inbox'[x] = inbox[x]
    BY <1>2
  <2> QED BY <2>1 DEF RInv, AnswersFit
<1>13. HandledFit'
  BY <1>1, <1>2 DEF RInv, HandledFit
<1>14. ResultsFit'
  <2>1. ASSUME NEW x \in Requests, x # r PROVE pc'[x] = "done" <=> result'[x] # NoAnswer
    <3>1. pc'[x] = pc[x] /\ result'[x] = result[x]
      BY <1>2, <2>1
    <3> QED BY <3>1 DEF RInv, ResultsFit
  <2>2. pc'[r] = "done" /\ result'[r] # NoAnswer
    BY <1>1, <1>2
  <2> QED BY <2>1, <2>2 DEF ResultsFit
<1>15. R!Return(r)
  <2>1. result[r] = NoAnswer
    BY <1>1 DEF RInv, ResultsFit
  <2>2. result' = [result EXCEPT ![r] = R!Answer(r, handled[to[r]][r] = 0)]
    BY <1>4 DEF Receive, R!Answer
  <2> QED BY <1>1, <1>3, <2>1, <2>2 DEF R!Return
<1> QED BY <1>1, <1>8, <1>9, <1>10, <1>11, <1>12, <1>13, <1>14, <1>15 DEF RInv, Step, R!Next
\* The message was on its way, so no server has it and it was not handled.
LEMMA AcceptR ==
    ASSUME RInv, TypeOK', NEW e \in Agents, Accept(e)
    PROVE  RInv' /\ Step
<1> USE NobodyIsNone DEF calls, client, exit
<1>1. PICK r \in arrived, t \in Types :
         /\ to[sender[r]] = e
         /\ serving' = [serving EXCEPT ![e] = r]
         /\ type' = [type EXCEPT ![e] = t]
         /\ arrived' = arrived \ {r}
         /\ handled' = IF t \in {"sync", "unanswered"}
                       THEN [handled EXCEPT ![e][r] = @ + 1] ELSE handled
  BY DEF Accept, Endpoint
<1>2. /\ serving[e] = Nobody
      /\ UNCHANGED <<pc, from, to, sender, result, chanMap, sndr, job, inbox, down>>
  BY DEF Accept
<1>3. r \in Requests /\ pc[r] = "wait" /\ Awaited(r) /\ to[r] = e
  BY <1>1 DEF RInv, TypeOK, ArrivedFit, Awaited, SendersFit
<1>4. \A x \in Agents : serving[x] # r /\ handled[x][r] = 0
  BY <1>1 DEF RInv, ArrivedFit
<1>5. /\ serving'[e] = r /\ \A x \in Agents \ {e} : serving'[x] = serving[x]
      /\ type'[e] = t /\ \A x \in Agents \ {e} : type'[x] = type[x]
  BY <1>1 DEF RInv, TypeOK
<1>6. /\ handled'[e][r] = IF t \in {"sync", "unanswered"} THEN 1 ELSE 0
      /\ \A x \in Agents \ {e} : handled'[x] = handled[x]
      /\ \A x \in Requests \ {r} : handled'[e][x] = handled[e][x]
  BY <1>1, <1>3, <1>4 DEF RInv, TypeOK
<1>7. \A x \in Requests : Awaited(x) => Awaited(x)'
  BY <1>2 DEF Awaited, Alive
<1>8. SendersFit' /\ JobsFit' /\ ResultsFit'
  <2>1. SendersFit'
    BY <1>2 DEF RInv, SendersFit
  <2>2. JobsFit'
    BY <1>2 DEF RInv, JobsFit, Alive
  <2>3. ResultsFit'
    BY <1>2 DEF RInv, ResultsFit
  <2> QED BY <2>1, <2>2, <2>3
<1>9. ArrivedFit'
  <2> SUFFICES ASSUME NEW x \in arrived, x # r
               PROVE  /\ Awaited(x)'
                      /\ \A y \in Agents : serving'[y] # x /\ handled'[y][x] = 0
    BY <1>1 DEF ArrivedFit
  <2>1. x \in Requests /\ Awaited(x)
    BY DEF RInv, TypeOK, ArrivedFit
  <2>2. \A y \in Agents : serving[y] # x /\ handled[y][x] = 0
    BY DEF RInv, ArrivedFit
  <2> QED BY <1>5, <1>6, <1>7, <2>1, <2>2
<1>10. ServingFit'
  <2> SUFFICES ASSUME NEW y \in Agents, NEW x, x = serving'[y], x # Nobody
               PROVE  /\ Awaited(x)' /\ to[x] = y
                      /\ type'[y] = "unknown" => handled'[y][x] = 0
    BY <1>2 DEF ServingFit, Awaited, Alive
  <2>1. CASE y = e
    BY <1>3, <1>5, <1>6, <1>7, <2>1
  <2>2. CASE y # e
    <3>1. x = serving[y] /\ type'[y] = type[y] /\ handled'[y] = handled[y]
      BY <1>5, <1>6, <2>2
    <3>2. x \in Requests /\ Awaited(x) /\ to[x] = y
      BY <3>1 DEF RInv, TypeOK, ServingFit
    <3>3. type[y] = "unknown" => handled[y][x] = 0
      BY <3>1 DEF RInv, ServingFit
    <3> QED BY <1>7, <3>1, <3>2, <3>3
  <2> QED BY <2>1, <2>2
<1>11. AnswersFit'
  <2> SUFFICES ASSUME NEW x \in Requests, inbox[x] # NoAnswer
               PROVE  /\ job[x] # Nobody
                      /\ inbox[x] = [of |-> job[x], failed |-> handled'[to[x]][job[x]] = 0]
                      /\ \A y \in Agents : serving'[y] # job[x]
    BY <1>2 DEF AnswersFit, NoAnswer
  <2>1. /\ job[x] # Nobody
        /\ inbox[x] = [of |-> job[x], failed |-> handled[to[x]][job[x]] = 0]
        /\ \A y \in Agents : serving[y] # job[x]
    BY DEF RInv, AnswersFit
  <2>2. job[x] \in Requests /\ sender[job[x]] = x /\ Alive(from[x]) /\ pc[job[x]] # "new"
    BY <2>1 DEF RInv, TypeOK, JobsFit
  <2>3. job[x] # r
    <3>1. job[x] = r => from[r] = from[x]
      BY <1>3, <2>2 DEF RInv, SendersFit
    <3> QED BY <1>3, <2>2, <3>1 DEF Awaited
  <2>4. to[x] \in Agents
    BY <2>2 DEF RInv, TypeOK, SendersFit
  <2>5. handled'[to[x]][job[x]] = handled[to[x]][job[x]]
    BY <1>6, <2>2, <2>3, <2>4
  <2> QED BY <1>5, <2>1, <2>3, <2>5
<1>12. HandledFit'
  <2> SUFFICES ASSUME NEW y \in Agents, NEW x \in Requests, handled'[y][x] # 0
               PROVE  handled'[y][x] = 1 /\ to[x] = y /\ pc[x] \in {"wait", "done"}
    BY <1>2 DEF HandledFit
  <2>1. CASE y = e /\ x = r
    BY <1>3, <1>6, <2>1
  <2>2. CASE ~(y = e /\ x = r)
    <3>1. handled'[y][x] = handled[y][x]
      BY <1>6, <2>2
    <3> QED BY <3>1 DEF RInv, HandledFit
  <2> QED BY <2>1, <2>2
<1>13. CASE t \in {"sync", "unanswered"}
  <2>1. result[r] = NoAnswer /\ to[r] # Nowhere
    BY <1>3 DEF RInv, ResultsFit, SendersFit
  <2>2. handled' = [handled EXCEPT ![to[r]][r] = 1]
    <3>1. handled[e][r] + 1 = 1
      BY <1>4
    <3>2. handled' = [handled EXCEPT ![e][r] = 1]
      BY <1>1, <1>13, <3>1
    <3> QED BY <1>3, <3>2
  <2>3. R!Take(r)
    BY <1>2, <1>3, <1>4, <2>1, <2>2 DEF R!Take
  <2> QED BY <1>3, <1>8, <1>9, <1>10, <1>11, <1>12, <2>3 DEF RInv, Step, R!Next
<1>14. CASE t \notin {"sync", "unanswered"}
  <2>1. UNCHANGED R!vars
    BY <1>1, <1>2, <1>14 DEF R!vars
  <2> QED BY <1>8, <1>9, <1>10, <1>11, <1>12, <2>1 DEF RInv, Step
<1> QED BY <1>13, <1>14
\* The message the server is at was not handled before, and not answered.
LEMMA TakeR ==
    ASSUME RInv, TypeOK', NEW e \in Agents, Take(e)
    PROVE  RInv' /\ Step
<1> USE NobodyIsNone DEF calls, client, exit
<1> DEFINE r == serving[e]
<1>1. /\ r \in Requests /\ r # Nobody /\ type[e] = "async" /\ handled[e][r] = 0
      /\ UNCHANGED <<pc, from, to, sender, result, chanMap, sndr, job, inbox, arrived, serving,
                     type, down>>
  BY DEF Take, RInv, TypeOK
<1>2. Awaited(r) /\ pc[r] = "wait" /\ to[r] = e
  BY <1>1 DEF RInv, ServingFit, Awaited
<1>3. /\ handled'[e][r] = 1 /\ handled' = [handled EXCEPT ![e][r] = 1]
      /\ \A x \in Agents \ {e} : handled'[x] = handled[x]
      /\ \A x \in Requests \ {r} : handled'[e][x] = handled[e][x]
  <2>1. handled[e][r] + 1 = 1
    BY <1>1
  <2>2. handled' = [handled EXCEPT ![e][r] = 1]
    BY <2>1 DEF Take
  <2> QED BY <1>1, <2>2 DEF RInv, TypeOK
<1>4. \A x \in Requests : Awaited(x) => Awaited(x)'
  BY <1>1 DEF Awaited, Alive
<1>5. SendersFit' /\ JobsFit' /\ ResultsFit'
  <2>1. SendersFit'
    BY <1>1 DEF RInv, SendersFit
  <2>2. JobsFit'
    BY <1>1 DEF RInv, JobsFit, Alive
  <2>3. ResultsFit'
    BY <1>1 DEF RInv, ResultsFit
  <2> QED BY <2>1, <2>2, <2>3
<1>6. ArrivedFit'
  BY <1>1, <1>3, <1>4 DEF RInv, TypeOK, ArrivedFit
<1>7. ServingFit'
  <2> SUFFICES ASSUME NEW y \in Agents, NEW x, x = serving[y], x # Nobody
               PROVE  /\ Awaited(x)' /\ to[x] = y
                      /\ type[y] = "unknown" => handled'[y][x] = 0
    BY <1>1 DEF ServingFit, Awaited, Alive
  <2>1. x \in Requests /\ Awaited(x) /\ to[x] = y
    BY DEF RInv, TypeOK, ServingFit
  <2>2. type[y] = "unknown" => handled[y][x] = 0 /\ y # e
    BY <1>1 DEF RInv, ServingFit
  <2> QED BY <1>3, <1>4, <2>1, <2>2
<1>8. AnswersFit'
  <2> SUFFICES ASSUME NEW x \in Requests, inbox[x] # NoAnswer
               PROVE  /\ job[x] # Nobody
                      /\ inbox[x] = [of |-> job[x], failed |-> handled'[to[x]][job[x]] = 0]
                      /\ \A y \in Agents : serving[y] # job[x]
    BY <1>1 DEF AnswersFit, NoAnswer
  <2>1. /\ job[x] # Nobody
        /\ inbox[x] = [of |-> job[x], failed |-> handled[to[x]][job[x]] = 0]
        /\ \A y \in Agents : serving[y] # job[x]
    BY DEF RInv, AnswersFit
  <2>2. job[x] \in Requests /\ Alive(from[x])
    BY <2>1 DEF RInv, TypeOK, JobsFit
  <2>3. to[x] \in Agents
    BY <2>1, <2>2 DEF RInv, TypeOK, SendersFit, JobsFit
  <2>4. handled'[to[x]][job[x]] = handled[to[x]][job[x]]
    BY <1>3, <2>1, <2>2, <2>3
  <2> QED BY <2>1, <2>4
<1>9. HandledFit'
  <2> SUFFICES ASSUME NEW y \in Agents, NEW x \in Requests, handled'[y][x] # 0
               PROVE  handled'[y][x] = 1 /\ to[x] = y /\ pc[x] \in {"wait", "done"}
    BY <1>1 DEF HandledFit
  <2>1. CASE y = e /\ x = r
    BY <1>2, <1>3, <2>1
  <2>2. CASE ~(y = e /\ x = r)
    <3>1. handled'[y][x] = handled[y][x]
      BY <1>3, <2>2
    <3> QED BY <3>1 DEF RInv, HandledFit
  <2> QED BY <2>1, <2>2
<1>10. R!Take(r)
  <2>1. result[r] = NoAnswer /\ to[r] # Nowhere
    BY <1>1, <1>2 DEF RInv, ResultsFit, SendersFit
  <2> QED BY <1>1, <1>2, <1>3, <2>1 DEF R!Take
<1> QED BY <1>1, <1>5, <1>6, <1>7, <1>8, <1>9, <1>10 DEF RInv, Step, R!Next

\* The sender waits for this answer, and no other message of it is at a server.
LEMMA AnswerR ==
    ASSUME RInv, TypeOK', NEW e \in Agents, Answer(e)
    PROVE  RInv' /\ Step
<1> USE NobodyIsNone DEF calls, exit
<1> DEFINE r == serving[e]
           s == sender[r]
<1>1. /\ r \in Requests /\ r # Nobody /\ s \in Requests
      /\ UNCHANGED <<pc, from, to, sender, result, chanMap, sndr, job, arrived, handled, down>>
  BY DEF Answer, RInv, TypeOK
<1>2. Awaited(r) /\ pc[r] = "wait" /\ to[r] = e
  BY <1>1 DEF RInv, ServingFit, Awaited
<1>3. from[s] = from[r] /\ to[s] = e
  BY <1>1, <1>2 DEF RInv, SendersFit
<1>4. /\ serving'[e] = Nobody /\ \A y \in Agents \ {e} : serving'[y] = serving[y]
      /\ \A y \in Agents \ {e} : type'[y] = type[y]
  BY DEF Answer, RInv, TypeOK
<1>5. \A y \in Agents : serving'[y] # r
  BY <1>1, <1>2, <1>4 DEF RInv, ServingFit
<1>6. ASSUME ~Alive(from[r])
      PROVE  AnswersFit' /\ \A x \in Requests : Awaited(x) => Awaited(x)'
  <2>1. inbox' = inbox
    BY <1>6 DEF Answer
  <2>2. \A x \in Requests : Awaited(x) => Awaited(x)'
    BY <1>1, <2>1 DEF Awaited, Alive
  <2>3. AnswersFit'
    BY <1>1, <1>4, <2>1 DEF RInv, AnswersFit, NoAnswer
  <2> QED BY <2>2, <2>3
<1>7. ASSUME Alive(from[r])
      PROVE  AnswersFit' /\ \A x \in Requests : x # r /\ Awaited(x) => Awaited(x)'
  <2>1. /\ job[s] = r /\ inbox[s] = NoAnswer
        /\ inbox' = [inbox EXCEPT ![s] = [of |-> r, failed |-> type[e] = "unknown"]]
    BY <1>2, <1>7 DEF Answer, AnswerTo, Awaited
  <2>2. /\ inbox'[s] = [of |-> r, failed |-> type[e] = "unknown"]
        /\ \A x \in Requests \ {s} : inbox'[x] = inbox[x]
    BY <1>1, <2>1 DEF RInv, TypeOK
  <2>3. type[e] = "unknown" <=> handled[e][r] = 0
    BY <1>1 DEF Answer, Answerable, RInv, TypeOK, ServingFit
  <2>4. \A x \in Requests : x # r /\ Awaited(x) => Awaited(x)'
    <3> SUFFICES ASSUME NEW x \in Requests, x # r, Awaited(x) PROVE Awaited(x)'
      OBVIOUS
    <3>1. sender[x] \in Requests /\ (Alive(from[x]) => sender[x] # s)
      BY <2>1 DEF RInv, TypeOK, Awaited
    <3> QED BY <1>1, <2>2, <3>1 DEF Awaited, Alive, NoAnswer
  <2>5. AnswersFit'
    <3> SUFFICES ASSUME NEW x \in Requests, inbox'[x] # NoAnswer
                 PROVE  /\ job[x] # Nobody
                        /\ inbox'[x] = [of |-> job[x], failed |-> handled[to[x]][job[x]] = 0]
                        /\ \A y \in Agents : serving'[y] # job[x]
      BY <1>1 DEF AnswersFit, NoAnswer
    <3>1. CASE x = s
      BY <1>1, <1>3, <1>5, <2>1, <2>2, <2>3, <3>1
    <3>2. CASE x # s
      <4>1. inbox[x] # NoAnswer /\ inbox'[x] = inbox[x]
        BY <2>2, <3>2
      <4>2. /\ job[x] # Nobody
            /\ inbox[x] = [of |-> job[x], failed |-> handled[to[x]][job[x]] = 0]
            /\ \A y \in Agents : serving[y] # job[x]
        BY <4>1 DEF RInv, AnswersFit
      <4> QED BY <1>4, <4>1, <4>2
    <3> QED BY <3>1, <3>2
  <2> QED BY <2>4, <2>5
<1>8. AnswersFit' /\ \A x \in Requests : x # r /\ Awaited(x) => Awaited(x)'
  BY <1>6, <1>7
<1>9. SendersFit' /\ JobsFit' /\ HandledFit' /\ ResultsFit'
  <2>1. SendersFit'
    BY <1>1 DEF RInv, SendersFit
  <2>2. JobsFit'
    BY <1>1 DEF RInv, JobsFit, Alive
  <2>3. HandledFit'
    BY <1>1 DEF RInv, HandledFit
  <2>4. ResultsFit'
    BY <1>1 DEF RInv, ResultsFit
  <2> QED BY <2>1, <2>2, <2>3, <2>4
<1>10. ArrivedFit'
  <2> SUFFICES ASSUME NEW x \in arrived
               PROVE  /\ Awaited(x)'
                      /\ \A y \in Agents : serving'[y] # x /\ handled[y][x] = 0
    BY <1>1 DEF ArrivedFit
  <2>1. x \in Requests /\ Awaited(x) /\ x # r
    BY DEF RInv, TypeOK, ArrivedFit
  <2>2. \A y \in Agents : serving[y] # x /\ handled[y][x] = 0
    BY DEF RInv, ArrivedFit
  <2> QED BY <1>4, <1>8, <2>1, <2>2
<1>11. ServingFit'
  <2> SUFFICES ASSUME NEW y \in Agents, NEW x, x = serving'[y], x # Nobody
               PROVE  /\ Awaited(x)' /\ to[x] = y
                      /\ type'[y] = "unknown" => handled[y][x] = 0
    BY <1>1 DEF ServingFit, Awaited, Alive
  <2>1. y # e /\ x = serving[y] /\ type'[y] = type[y] /\ x # r
    BY <1>4, <1>5
  <2>2. x \in Requests /\ Awaited(x) /\ to[x] = y
    BY <2>1 DEF RInv, TypeOK, ServingFit
  <2>3. type[y] = "unknown" => handled[y][x] = 0
    BY <2>1 DEF RInv, ServingFit
  <2> QED BY <1>8, <2>1, <2>2, <2>3
<1>12. UNCHANGED R!vars
  BY <1>1 DEF R!vars
<1> QED BY <1>8, <1>9, <1>10, <1>11, <1>12 DEF RInv, Step

\* A sender that is free works for nobody.
LEMMA TerminateR ==
    ASSUME RInv, TypeOK', NEW a \in Agents, Terminate(a)
    PROVE  RInv' /\ Step
<1> USE NobodyIsNone DEF calls, server
<1> DEFINE s == visit[a]
<1>1. /\ s \in Requests /\ sndr[s] = "ready"
      /\ UNCHANGED <<pc, from, to, sender, result, chanMap, job, inbox, arrived, serving, type,
                     handled, down>>
  BY DEF Terminate, Free, RInv, TypeOK
<1>2. sndr'[s] = "ended" /\ \A x \in Requests \ {s} : sndr'[x] = sndr[x]
  BY <1>1 DEF Terminate, RInv, TypeOK
<1>3. SendersFit'
  <2>1. \A x \in Requests : pc[x] = "new" => sndr'[x] = "none"
    BY <1>1, <1>2 DEF RInv, SendersFit
  <2> QED BY <1>1, <2>1 DEF RInv, SendersFit
<1>4. JobsFit'
  BY <1>1, <1>2 DEF RInv, JobsFit, Alive
<1>5. \A x \in Requests : Awaited(x) => Awaited(x)'
  BY <1>1 DEF Awaited, Alive
<1>6. ArrivedFit' /\ ServingFit'
  BY <1>1, <1>5 DEF RInv, TypeOK, ArrivedFit, ServingFit
<1>7. AnswersFit'
  BY <1>1 DEF RInv, AnswersFit, NoAnswer
<1>8. HandledFit' /\ ResultsFit'
  BY <1>1 DEF RInv, HandledFit, ResultsFit
<1>9. UNCHANGED R!vars
  BY <1>1 DEF R!vars
<1> QED BY <1>3, <1>4, <1>6, <1>7, <1>8, <1>9 DEF RInv, Step

\* Nobody waits for answers any more in a process that has exited.
LEMMA ExitR ==
    ASSUME RInv, TypeOK', NEW a \in Agents, Exit(a)
    PROVE  RInv' /\ Step
<1> USE NobodyIsNone DEF calls
<1>1. /\ UNCHANGED <<pc, from, to, sender, result, handled>>
      /\ arrived' \subseteq arrived
      /\ \A x : Alive(x)' <=> Alive(x) /\ x # a
  BY DEF Exit, Alive
<1>2. \A x \in Requests : IF from[x] = a
         THEN sndr'[x] = "ended" /\ job'[x] = Nobody /\ inbox'[x] = NoAnswer
         ELSE sndr'[x] = sndr[x] /\ job'[x] = job[x] /\ inbox'[x] = inbox[x]
  BY DEF Exit
<1>3. /\ serving'[a] = Nobody
      /\ \A y \in Agents \ {a} : serving'[y] = serving[y] /\ type'[y] = type[y]
  BY DEF Exit, RInv, TypeOK
<1>4. \A x \in Requests : Awaited(x) => Awaited(x)'
  <2> SUFFICES ASSUME NEW x \in Requests, Awaited(x) PROVE Awaited(x)'
    OBVIOUS
  <2>1. sender[x] \in Requests /\ from[sender[x]] = from[x]
    BY DEF Awaited, RInv, TypeOK, SendersFit
  <2> QED BY <1>1, <1>2, <2>1 DEF Awaited, NoAnswer
<1>5. SendersFit'
  <2>1. \A x, y \in Agents : chanMap'[x][y] # Nobody => chanMap'[x][y] = chanMap[x][y]
    BY DEF Exit, RInv, TypeOK
  <2>2. \A x \in Requests : pc[x] = "new" => sndr'[x] = "none"
    BY <1>2, ReqRepAssumption DEF RInv, SendersFit
  <2>3. \A x, y \in Agents : chanMap'[x][y] # Nobody => /\ from[chanMap'[x][y]] = x
                                                        /\ to[chanMap'[x][y]] = y
                                                        /\ pc[chanMap'[x][y]] # "new"
    BY <2>1 DEF RInv, SendersFit
  <2> QED BY <1>1, <2>2, <2>3 DEF RInv, SendersFit
<1>6. JobsFit'
  BY <1>1, <1>2 DEF RInv, JobsFit
<1>7. ArrivedFit'
  <2> SUFFICES ASSUME NEW x \in arrived
               PROVE  /\ Awaited(x)'
                      /\ \A y \in Agents : serving'[y] # x /\ handled[y][x] = 0
    BY <1>1 DEF ArrivedFit
  <2>1. x \in Requests /\ Awaited(x)
    BY DEF RInv, TypeOK, ArrivedFit
  <2>2. \A y \in Agents : serving[y] # x /\ handled[y][x] = 0
    BY DEF RInv, ArrivedFit
  <2> QED BY <1>3, <1>4, <2>1, <2>2
<1>8. ServingFit'
  <2> SUFFICES ASSUME NEW y \in Agents, NEW x, x = serving'[y], x # Nobody
               PROVE  /\ Awaited(x)' /\ to[x] = y
                      /\ type'[y] = "unknown" => handled[y][x] = 0
    BY <1>1 DEF ServingFit, Awaited
  <2>1. x = serving[y] /\ type'[y] = type[y]
    BY <1>3
  <2>2. x \in Requests /\ Awaited(x) /\ to[x] = y
    BY <2>1 DEF RInv, TypeOK, ServingFit
  <2>3. type[y] = "unknown" => handled[y][x] = 0
    BY <2>1 DEF RInv, ServingFit
  <2> QED BY <1>4, <2>1, <2>2, <2>3
<1>9. AnswersFit'
  <2> SUFFICES ASSUME NEW x \in Requests, inbox'[x] # NoAnswer
               PROVE  /\ job'[x] # Nobody
                      /\ inbox'[x] = [of |-> job'[x], failed |-> handled[to[x]][job'[x]] = 0]
                      /\ \A y \in Agents : serving'[y] # job'[x]
    BY <1>1 DEF AnswersFit, NoAnswer
  <2>1. inbox'[x] = inbox[x] /\ job'[x] = job[x]
    BY <1>2
  <2>2. /\ job[x] # Nobody
        /\ inbox[x] = [of |-> job[x], failed |-> handled[to[x]][job[x]] = 0]
        /\ \A y \in Agents : serving[y] # job[x]
    BY <2>1 DEF RInv, AnswersFit
  <2> QED BY <1>3, <2>1, <2>2
<1>10. HandledFit'
  BY <1>1 DEF RInv, HandledFit
<1>11. ResultsFit'
  BY <1>1 DEF RInv, ResultsFit, NoAnswer
<1>12. UNCHANGED R!vars
  BY <1>1 DEF R!vars
<1> QED BY <1>5, <1>6, <1>7, <1>8, <1>9, <1>10, <1>11, <1>12 DEF RInv, Step

LEMMA NextR ==
    ASSUME RInv, [Next]_vars
    PROVE  RInv' /\ Step
<1>1. TypeOK'
  BY NextType DEF RInv
<1>2. CASE UNCHANGED vars
  BY <1>1, <1>2, OtherStep DEF vars, server, exit
<1>3. ASSUME NEW r \in Requests, NEW a \in Callers, NEW e \in Agents, Send(r, a, e)
      PROVE  RInv' /\ Step
  <2>1. a \in Agents
    BY ReqRepAssumption
  <2> QED BY <1>1, <1>3, <2>1, SendR
<1>4. ASSUME NEW a \in Exiting, Close(a) PROVE RInv' /\ Step
  BY <1>1, <1>4, OtherStep DEF Close, server
<1>5. ASSUME NEW r \in Requests, HandOver(r) PROVE RInv' /\ Step
  BY <1>1, <1>5, HandOverR
<1>6. ASSUME NEW s \in Requests, SenderStep(s) PROVE RInv' /\ Step
  BY <1>1, <1>6, InitSendrR, ReceiveR DEF SenderStep
<1>7. ASSUME NEW e \in Agents, ServerStep(e) PROVE RInv' /\ Step
  BY <1>1, <1>7, AcceptR, TakeR, AnswerR DEF ServerStep
<1>8. ASSUME NEW e \in Agents, Finish(e) PROVE RInv' /\ Step
  BY <1>1, <1>8, OtherStep DEF Finish, exit
<1>9. ASSUME NEW a \in Agents, Visit(a) PROVE RInv' /\ Step
  BY <1>1, <1>9, OtherStep DEF Visit, server
<1>10. ASSUME NEW a \in Agents, Terminate(a) \/ Exit(a) PROVE RInv' /\ Step
  BY <1>1, <1>10, TerminateR, ExitR
<1> QED BY <1>2, <1>3, <1>4, <1>5, <1>6, <1>7, <1>8, <1>9, <1>10 DEF Next, UserStep, CloseStep

LEMMA InitR == Init => R!Init
BY DEF Init, R!Init

LEMMA SpecR == Spec => []RInv
<1>1. RInv /\ [Next]_vars => RInv'
  BY NextR
<1> QED BY <1>1, InitRInv, PTL DEF Spec

\* In every reachable state the variables have their types.
THEOREM TypeCorrect == Spec => []TypeOK
<1>1. RInv => TypeOK
  BY DEF RInv
<1> QED BY <1>1, SpecR, PTL

\* The request-reply transport keeps the promise of Rpc: a message is handled
\* at its endpoint at most once, and a call returns its own answer.
THEOREM CallsKeptHolds == Spec => CallsKept
<1>1. RInv /\ [Next]_vars => [R!Next]_(R!vars)
  BY NextR DEF Step
<1> QED BY <1>1, SpecR, InitR, PTL DEF Spec, CallsKept, R!Spec
=============================================================================
