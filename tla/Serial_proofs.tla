---------------------------- MODULE Serial_proofs ----------------------------
(***************************************************************************)
(* Proofs about groups whose operations do not overlap, however many       *)
(* agents join, leave and send: whoever is in the group knows, and is      *)
(* connected to, exactly the others; whoever is not has no connection      *)
(* left; no agent breaks; and lists change as Group says, leaves included. *)
(***************************************************************************)
EXTENDS Membership_proofs

\* Operations do not overlap, one agent may found the group, and nobody comes
\* back after it left: the acks of an earlier stay would be taken for new ones.
OneAtATime == Serial /\ MaxInvs = 1 /\ \A f, g \in Founders : f = g

\* Something a has started is under way.
Busy(a) == \/ pc[a] # "idle"
           \/ \E h \in handlers : h.from = a
           \/ \E s \in statuses : s.from = a

OneBusy == \A a, b \in Agents : Busy(a) /\ Busy(b) => a = b

Joining(a) == pc[a] \in {"setParams", "subscribe", "wait"}
Leaving(a) == pc[a] \in {"leaveData", "leaveNotify", "leaveDelete"}

Handling(m, j) == \E h \in handlers : h.at = m /\ h.from = j
Adding(m, j) == \E s \in statuses : s.to = m /\ s.from = j /\ s.active
Removing(m, b) == \E s \in statuses : s.to = m /\ s.from = b /\ ~s.active
Dropping(m, b) == \E s \in statuses : s.to = m /\ s.from = b /\ ~s.active
                                      /\ s.step = "disconnected"

\* Nothing broke, and a link needs a connection.
Sound == /\ NoneBroken
         /\ crossed = {}
         /\ \A a, m \in Agents : <<a, m>> \in links => m \in stateConn[a]

\* An agent makes one invitation, which is what lists and messages hold.
OneInv ==
    /\ \A a \in Agents : inv[a] \in {0, 1}
    /\ \A a, m \in Agents : view[a][m] \in {0, 1} /\ list[a][m] \in {0, 1}
    /\ \A h \in handlers : h.inv = 1
    /\ \A s \in statuses : s.inv = 1

\* Who has no invitation has joined nothing, and a joiner is in the group from
\* when it waits for its connections.
NotYetIn ==
    \A a \in Agents :
        /\ inv[a] = 0 => pc[a] \in {"idle", "leaveData", "leaveNotify"}
        /\ inv[a] = 0 \/ pc[a] \in {"reqState", "reqParams", "reqMembers", "setParams",
                                   "subscribe"} =>
              ~InGroup(a) /\ acked[a] = {}
        /\ pc[a] = "wait" => InGroup(a)

\* Somebody founded the group first.
Founded ==
    \A a \in Agents : InGroup(a) \/ Joining(a) => \E f \in Founders : inv[f] # 0

\* Only members keep lists, of members and of those that left just now.
ListsMembers ==
    \A a, b \in Agents : a # b /\ view[a][b] # 0 =>
        /\ InGroup(a)
        /\ InGroup(b) \/ Removing(a, b)
        /\ pc[b] = "leaveDelete" => Removing(a, b)

\* A member that is missing from a list is joining or leaving.
AllListed ==
    \A a, b \in Agents : a # b /\ InGroup(a) /\ InGroup(b) /\ view[a][b] = 0 =>
        pc[b] = "wait" \/ pc[b] = "leaveDelete" \/ Adding(a, b)

GroupFits ==
    \A a \in Agents :
        group[a] = IF InGroup(a) \/ pc[a] = "subscribe" THEN "full" ELSE "nil"

\* The acceptor's list stays exact while the joiner is busy.
ListExact ==
    \A j \in Agents : Joining(j) =>
        \A m \in Agents : list[j][m] # 0 <=> InGroup(m) /\ m # j

\* What the subscriptions returned is the acceptor's list.
AnswersFit ==
    \A j \in Agents : pc[j] = "subscribe" =>
        /\ \A m \in Agents : answers[j][m] # NoAnswer =>
              list[j][m] # 0 /\ answers[j][m] = list[j]
        /\ added[j] \subseteq Members(list[j])
        /\ added[j] # {} => \A m \in Members(list[j]) : answers[j][m] # NoAnswer

HandlersFit ==
    \A h \in handlers :
        /\ h.at # h.from /\ InGroup(h.at)
        /\ \/ pc[h.from] \in {"subscribe", "wait"} /\ list[h.from][h.at] # 0
           \/ pc[h.from] = "idle" /\ InGroup(h.from)
        /\ h.step = "answer" => /\ pc[h.from] = "subscribe"
                                /\ answers[h.from][h.at] = NoAnswer
        /\ h.step # "data" => srvKey[h.at] = h.from

StatusesFit ==
    \A s \in statuses :
        /\ s.from # s.to
        /\ s.active => /\ s.step = "sent"
                       /\ pc[s.from] = "idle" /\ InGroup(s.from)
                       /\ InGroup(s.to)
        /\ ~s.active => /\ \/ pc[s.from] = "leaveDelete"
                           \/ pc[s.from] = "idle" /\ ~InGroup(s.from)
                        /\ view[s.to][s.from] # 0
                        /\ s.step = "sent" <=> s.from \in stateConn[s.to]

\* a has reason to be connected to b's PUB socket.
Reaches(a, b) == \/ a # b /\ view[a][b] # 0
                 \/ Adding(a, b)
                 \/ pc[a] = "subscribe" /\ b \in added[a]

\* The state socket is connected, and its subscription has not been taken back.
StateFits ==
    \A a, b \in Agents : Reaches(a, b) /\ ~Leaving(a) =>
        /\ b \in stateConn[a] \/ Dropping(a, b)
        /\ refs[a] > 0

\* Who acked the hello heard it.
AckedHears ==
    \A j \in Agents : pc[j] = "wait" =>
        \A m \in acked[j] : <<m, j>> \in links /\ refs[m] > 0

\* Everybody listed hears an agent that is leaving.
LeaverHeard ==
    \A a \in Agents : pc[a] \in {"leaveData", "leaveNotify"} =>
        \A m \in Others(a) : <<m, a>> \in links /\ refs[m] > 0

\* The data sockets follow, but for handlers that are not done.
Subscribed(a, b) == \/ Reaches(a, b)
                    \/ pc[b] = "subscribe" /\ answers[b][a] # NoAnswer
                    \/ pc[b] = "wait" /\ list[b][a] # 0

DataFits ==
    \A a, b \in Agents : Subscribed(a, b) =>
        \/ Handling(a, b)
        \/ /\ b \in Publishers => b \in dataConn[a] \/ pc[a] \in {"leaveNotify", "leaveDelete"}
           /\ a \in Publishers => b \in subs[a]

\* There is nothing else.
Known(a, b) == \/ view[a][b] # 0
               \/ Adding(a, b)
               \/ pc[a] = "subscribe" /\ list[a][b] # 0
               \/ pc[b] \in {"subscribe", "wait"} /\ list[b][a] # 0

NothingElse ==
    /\ \A a \in Agents : \A b \in stateConn[a] : a # b /\ Known(a, b) /\ ~Leaving(a)
    /\ \A a \in Agents : \A b \in dataConn[a] :
          /\ a # b /\ Known(a, b) /\ b \in Publishers
          /\ pc[a] \notin {"leaveNotify", "leaveDelete"}
    /\ \A a \in Agents : \A b \in subs[a] : a # b /\ Known(a, b)

SInv == /\ TypeOK
        /\ OneBusy /\ Sound /\ OneInv /\ NotYetIn /\ Founded
        /\ ListsMembers /\ AllListed /\ GroupFits
        /\ ListExact /\ AnswersFit
        /\ HandlersFit /\ StatusesFit
        /\ StateFits /\ AckedHears /\ LeaverHeard
        /\ DataFits /\ NothingElse

\* The acceptor that is answering is in the group.
AcceptorIn ==
    \A j \in Agents : pc[j] \in {"reqParams", "reqMembers"} => InGroup(acceptor[j])
-----------------------------------------------------------------------------
(* What each part of the invariant depends on, and who is busy *)

LEMMA Frames ==
    /\ OneBusy /\ UNCHANGED <<pc, handlers, statuses>> => OneBusy'
    /\ Sound /\ UNCHANGED <<blocked, crashed, crossed, links, stateConn>> => Sound'
    /\ OneInv /\ UNCHANGED <<inv, view, list, handlers, statuses>> => OneInv'
    /\ NotYetIn /\ UNCHANGED <<inv, pc, view, acked>> => NotYetIn'
    /\ Founded /\ UNCHANGED <<inv, pc, view>> => Founded'
    /\ ListsMembers /\ UNCHANGED <<view, pc, statuses>> => ListsMembers'
    /\ AllListed /\ UNCHANGED <<view, pc, statuses>> => AllListed'
    /\ GroupFits /\ UNCHANGED <<view, pc, group>> => GroupFits'
    /\ ListExact /\ UNCHANGED <<view, pc, list>> => ListExact'
    /\ AnswersFit /\ UNCHANGED <<pc, list, answers, added>> => AnswersFit'
    /\ HandlersFit /\ UNCHANGED <<handlers, view, pc, list, answers, srvKey>> => HandlersFit'
    /\ StatusesFit /\ UNCHANGED <<statuses, view, pc, stateConn>> => StatusesFit'
    /\ StateFits /\ UNCHANGED <<view, statuses, pc, added, stateConn, refs>> => StateFits'
    /\ AckedHears /\ UNCHANGED <<pc, acked, links, refs>> => AckedHears'
    /\ LeaverHeard /\ UNCHANGED <<pc, view, links, refs>> => LeaverHeard'
    /\ DataFits /\ UNCHANGED <<view, statuses, pc, added, answers, list, handlers,
                               dataConn, subs>> => DataFits'
    /\ NothingElse /\ UNCHANGED <<view, statuses, pc, list, stateConn, dataConn, subs>>
          => NothingElse'
<1> USE DEF InGroup, Adding, Removing, Dropping, Leaving
<1>1. OneBusy /\ UNCHANGED <<pc, handlers, statuses>> => OneBusy'
  BY DEF OneBusy, Busy
<1>2. Sound /\ UNCHANGED <<blocked, crashed, crossed, links, stateConn>> => Sound'
  BY DEF Sound, NoneBroken
<1>3. OneInv /\ UNCHANGED <<inv, view, list, handlers, statuses>> => OneInv'
  BY DEF OneInv
<1>4. NotYetIn /\ UNCHANGED <<inv, pc, view, acked>> => NotYetIn'
  BY DEF NotYetIn
<1>5. Founded /\ UNCHANGED <<inv, pc, view>> => Founded'
  BY DEF Founded, Joining
<1>6. ListsMembers /\ UNCHANGED <<view, pc, statuses>> => ListsMembers'
  BY DEF ListsMembers
<1>7. AllListed /\ UNCHANGED <<view, pc, statuses>> => AllListed'
  BY DEF AllListed
<1>8. GroupFits /\ UNCHANGED <<view, pc, group>> => GroupFits'
  BY DEF GroupFits
<1>9. ListExact /\ UNCHANGED <<view, pc, list>> => ListExact'
  BY DEF ListExact, Joining
<1>10. AnswersFit /\ UNCHANGED <<pc, list, answers, added>> => AnswersFit'
  BY DEF AnswersFit, Members
<1>11. HandlersFit /\ UNCHANGED <<handlers, view, pc, list, answers, srvKey>> => HandlersFit'
  BY DEF HandlersFit
<1>12. StatusesFit /\ UNCHANGED <<statuses, view, pc, stateConn>> => StatusesFit'
  BY DEF StatusesFit
<1>13. StateFits /\ UNCHANGED <<view, statuses, pc, added, stateConn, refs>> => StateFits'
  BY DEF StateFits, Reaches
<1>14. AckedHears /\ UNCHANGED <<pc, acked, links, refs>> => AckedHears'
  BY DEF AckedHears
<1>15. LeaverHeard /\ UNCHANGED <<pc, view, links, refs>> => LeaverHeard'
  BY DEF LeaverHeard, Others, Members
<1>16. DataFits /\ UNCHANGED <<view, statuses, pc, added, answers, list, handlers,
                               dataConn, subs>> => DataFits'
  BY DEF DataFits, Subscribed, Reaches, Handling
<1>17. NothingElse /\ UNCHANGED <<view, statuses, pc, list, stateConn, dataConn, subs>>
          => NothingElse'
  BY DEF NothingElse, Known
<1> QED BY <1>1, <1>2, <1>3, <1>4, <1>5, <1>6, <1>7, <1>8, <1>9, <1>10, <1>11, <1>12,
           <1>13, <1>14, <1>15, <1>16, <1>17

LEMMA BusyAlone ==
    ASSUME SInv, NEW j \in Agents, Busy(j)
    PROVE  /\ \A b \in Agents : b # j => pc[b] = "idle"
           /\ \A h \in handlers : h.from = j /\ h.at # j /\ h.at \in Agents
           /\ \A s \in statuses : s.from = j /\ s.to # j /\ s.to \in Agents
           /\ pc[j] \in {"reqState", "reqParams", "reqMembers", "setParams",
                        "leaveData", "leaveNotify", "leaveDelete"} => handlers = {}
           /\ pc[j] \notin {"idle", "leaveDelete"} => statuses = {}
<1>1. \A b \in Agents : Busy(b) => b = j
  BY DEF SInv, OneBusy
<1>2. \A b \in Agents : b # j => pc[b] = "idle"
  BY <1>1 DEF Busy
<1>3. \A h \in handlers : h.from = j /\ h.at # j /\ h.at \in Agents
  <2> SUFFICES ASSUME NEW h \in handlers PROVE h.from = j /\ h.at # j /\ h.at \in Agents
    OBVIOUS
  <2>1. h.from \in Agents /\ h.at \in Agents
    BY DEF SInv, TypeOK, Handlers
  <2>2. Busy(h.from)
    BY DEF Busy
  <2> QED BY <1>1, <2>1, <2>2 DEF SInv, HandlersFit
<1>4. \A s \in statuses : s.from = j /\ s.to # j /\ s.to \in Agents
  <2> SUFFICES ASSUME NEW s \in statuses PROVE s.from = j /\ s.to # j /\ s.to \in Agents
    OBVIOUS
  <2>1. s.from \in Agents /\ s.to \in Agents
    BY DEF SInv, TypeOK, Statuses
  <2>2. Busy(s.from)
    BY DEF Busy
  <2> QED BY <1>1, <2>1, <2>2 DEF SInv, StatusesFit
<1>5. pc[j] \in {"reqState", "reqParams", "reqMembers", "setParams",
                "leaveData", "leaveNotify", "leaveDelete"} => handlers = {}
  BY <1>3 DEF SInv, HandlersFit
<1>6. pc[j] \notin {"idle", "leaveDelete"} => statuses = {}
  BY <1>4 DEF SInv, StatusesFit
<1> QED BY <1>2, <1>3, <1>4, <1>5, <1>6

\* While an agent joins, a list holds the members, itself among them.
LEMMA ViewsExact ==
    ASSUME SInv, NEW j \in Agents,
           pc[j] \in {"reqState", "reqParams", "reqMembers", "setParams", "subscribe"},
           NEW a \in Agents, InGroup(a), NEW m \in Agents
    PROVE  view[a][m] # 0 <=> InGroup(m)
<1>1. statuses = {} /\ ~InGroup(j) /\ \A b \in Agents : b # j => pc[b] = "idle"
  BY BusyAlone DEF Busy, SInv, NotYetIn
<1> QED BY <1>1 DEF SInv, ListsMembers, AllListed, Adding, Removing, InGroup

\* When all is quiet, everybody knows and is connected to everybody.
LEMMA QuietFits ==
    ASSUME SInv, Quiet
    PROVE  /\ \A a, b \in Agents : InGroup(a) => (view[a][b] # 0 <=> InGroup(b))
           /\ \A a, b \in Agents : a # b /\ view[a][b] # 0 =>
                 /\ InGroup(a) /\ InGroup(b)
                 /\ b \in stateConn[a] /\ <<a, b>> \in links /\ refs[a] > 0
                 /\ b \in Publishers => b \in dataConn[a]
                 /\ a \in Publishers => b \in subs[a]
           /\ \A a \in Agents : /\ stateConn[a] \subseteq Others(a)
                                /\ dataConn[a] \subseteq Others(a) \cap Publishers
                                /\ subs[a] \subseteq Others(a)
<1>1. /\ \A a \in Agents : pc[a] = "idle"
      /\ handlers = {} /\ statuses = {}
  BY DEF Quiet
<1>2. \A a, b \in Agents : a # b /\ view[a][b] # 0 => InGroup(a) /\ InGroup(b)
  BY <1>1 DEF SInv, ListsMembers, Removing
<1>3. \A a, b \in Agents : InGroup(a) => (view[a][b] # 0 <=> InGroup(b))
  BY <1>1, <1>2 DEF SInv, AllListed, Adding, InGroup
<1>4. \A a, b \in Agents : a # b /\ view[a][b] # 0 =>
         b \in stateConn[a] /\ <<a, b>> \in links /\ refs[a] > 0
  BY <1>1 DEF SInv, StateFits, Reaches, Dropping, Leaving, Quiet
<1>5. \A a, b \in Agents : a # b /\ view[a][b] # 0 =>
         /\ b \in Publishers => b \in dataConn[a]
         /\ a \in Publishers => b \in subs[a]
  BY <1>1 DEF SInv, DataFits, Subscribed, Reaches, Handling
<1>6. \A a, b \in Agents : Known(a, b) => view[a][b] # 0
  BY <1>1 DEF Known, Adding
<1>7. \A a \in Agents : stateConn[a] \subseteq Agents /\ dataConn[a] \subseteq Agents
                        /\ subs[a] \subseteq Agents
  BY DEF SInv, TypeOK
<1>8. \A a \in Agents : /\ stateConn[a] \subseteq Others(a)
                        /\ dataConn[a] \subseteq Others(a) \cap Publishers
                        /\ subs[a] \subseteq Others(a)
  BY <1>6, <1>7 DEF SInv, NothingElse, Others, Members
<1> QED BY <1>2, <1>3, <1>4, <1>5, <1>8

LEMMA InitSInv == Init => SInv
<1> SUFFICES ASSUME Init PROVE SInv
  OBVIOUS
<1>1. /\ \A a \in Agents : pc[a] = "idle" /\ inv[a] = 0 /\ acked[a] = {} /\ group[a] = "nil"
      /\ \A a, m \in Agents : view[a][m] = 0 /\ list[a][m] = 0
      /\ handlers = {} /\ statuses = {} /\ links = {} /\ crossed = {}
      /\ \A a \in Agents : stateConn[a] = {} /\ dataConn[a] = {} /\ subs[a] = {}
      /\ blocked = {} /\ crashed = {}
  BY DEF Init, Empty
<1>2. OneBusy /\ Sound /\ OneInv /\ NotYetIn /\ Founded
  BY <1>1 DEF OneBusy, Busy, Sound, NoneBroken, OneInv, NotYetIn, Founded, InGroup, Joining
<1>3. ListsMembers /\ AllListed /\ GroupFits /\ ListExact /\ AnswersFit
  BY <1>1 DEF ListsMembers, AllListed, GroupFits, ListExact, AnswersFit, InGroup, Joining
<1>4. HandlersFit /\ StatusesFit /\ StateFits /\ AckedHears /\ LeaverHeard
  BY <1>1 DEF HandlersFit, StatusesFit, StateFits, Reaches, Adding, AckedHears, LeaverHeard
<1>5. DataFits /\ NothingElse
  BY <1>1 DEF DataFits, Subscribed, Reaches, Adding, NothingElse
<1> QED BY <1>2, <1>3, <1>4, <1>5, InitType DEF SInv
-----------------------------------------------------------------------------
(* Starting an operation *)

LEMMA CreateS ==
    ASSUME OneAtATime, SInv, TypeOK', NEW a \in Agents, Create(a)
    PROVE  SInv'
<1> USE DEF join, sockets, curve, stuck, OneAtATime
<1>1. /\ a \in Founders /\ inv[a] < 1 /\ Quiet
      /\ inv' = [inv EXCEPT ![a] = @ + 1]
      /\ view' = [view EXCEPT ![a] = [view[a] EXCEPT ![a] = inv[a] + 1]]
      /\ group' = [group EXCEPT ![a] = "full"]
      /\ UNCHANGED <<pc, acceptor, list, answers, added, refs, stateConn, srvKey,
                     crossed, links, dataConn, subs, acked, handlers, statuses, stuck>>
  BY DEF Create, MayStart
<1>2. /\ inv[a] = 0 /\ \A f \in Founders : f = a
      /\ \A x \in Agents : ~InGroup(x)
  BY <1>1 DEF SInv, OneInv, Founded, TypeOK
<1>3. /\ inv'[a] = 1 /\ \A x \in Agents : x # a => inv'[x] = inv[x]
      /\ view'[a][a] = 1
      /\ \A x, m \in Agents : x # a \/ m # a => view'[x][m] = view[x][m]
      /\ group'[a] = "full" /\ \A x \in Agents : x # a => group'[x] = group[x]
  BY <1>1, <1>2 DEF SInv, TypeOK, Views
<1>4. \A x, m \in Agents : view[x][m] = 0
  BY <1>1, <1>2, QuietFits DEF InGroup
<1>5. \A x \in Agents : pc[x] = "idle"
  BY <1>1 DEF Quiet
<1>6. /\ OneBusy' /\ Sound' /\ AnswersFit' /\ AckedHears'
  BY <1>1, Frames DEF SInv
<1>7. OneInv'
  BY <1>1, <1>3 DEF SInv, OneInv
<1>8. NotYetIn'
  BY <1>1, <1>3, <1>5 DEF SInv, NotYetIn, InGroup
<1>9. Founded'
  BY <1>1, <1>3 DEF SInv, Founded
<1>10. ListsMembers' /\ AllListed' /\ GroupFits' /\ ListExact'
  BY <1>1, <1>2, <1>3, <1>4, <1>5
     DEF SInv, ListsMembers, AllListed, GroupFits, ListExact, InGroup, Joining
<1>11. HandlersFit' /\ StatusesFit'
  BY <1>1 DEF Quiet, HandlersFit, StatusesFit
<1>12. StateFits' /\ DataFits'
  <2>1. \A x, y \in Agents : ~Subscribed(x, y)'
    BY <1>1, <1>3, <1>4, <1>5 DEF Subscribed, Reaches, Adding, Quiet
  <2> QED BY <2>1 DEF StateFits, DataFits, Subscribed
<1>13. LeaverHeard'
  BY <1>1, <1>5 DEF LeaverHeard
<1>14. NothingElse'
  <2>1. \A x \in Agents : stateConn[x] = {} /\ dataConn[x] = {} /\ subs[x] = {}
    BY <1>1, <1>4, QuietFits DEF Others, Members
  <2> QED BY <1>1, <2>1 DEF NothingElse
<1> QED BY <1>6, <1>7, <1>8, <1>9, <1>10, <1>11, <1>12, <1>13, <1>14 DEF SInv

LEMMA JoinS ==
    ASSUME OneAtATime, SInv, TypeOK', NEW j \in Agents, NEW c \in Agents, Join(j, c)
    PROVE  SInv'
<1> USE DEF store, sockets, curve, stuck, OneAtATime
<1>1. /\ inv[j] < 1 /\ Quiet
      /\ inv' = [inv EXCEPT ![j] = @ + 1]
      /\ pc' = [pc EXCEPT ![j] = "reqState"]
      /\ UNCHANGED <<store, list, answers, added, sockets, acked, handlers, statuses, stuck>>
  BY DEF Join, MayStart
<1>2. /\ inv[j] = 0 /\ ~InGroup(j) /\ acked[j] = {}
      /\ inv'[j] = 1 /\ \A x \in Agents : x # j => inv'[x] = inv[x]
      /\ pc'[j] = "reqState" /\ \A x \in Agents : x # j => pc'[x] = "idle"
      /\ \A x \in Agents : pc[x] = "idle"
      /\ handlers = {} /\ statuses = {}
  BY <1>1 DEF SInv, OneInv, NotYetIn, TypeOK, Quiet
<1>3. OneBusy'
  BY <1>1, <1>2 DEF OneBusy, Busy
<1>4. Sound'
  BY <1>1, Frames DEF SInv
<1>5. OneInv'
  BY <1>1, <1>2 DEF SInv, OneInv
<1>6. NotYetIn' /\ Founded'
  BY <1>1, <1>2 DEF SInv, NotYetIn, Founded, InGroup, Joining
<1>7. ListsMembers' /\ AllListed' /\ GroupFits'
  BY <1>1, <1>2 DEF SInv, ListsMembers, AllListed, GroupFits, InGroup, Adding, Removing
<1>8. ListExact' /\ AnswersFit' /\ AckedHears' /\ LeaverHeard'
  BY <1>1, <1>2 DEF ListExact, AnswersFit, AckedHears, LeaverHeard, Joining
<1>9. HandlersFit' /\ StatusesFit'
  BY <1>1, <1>2 DEF HandlersFit, StatusesFit
<1>10. StateFits' /\ DataFits'
  <2>1. \A x, y \in Agents : Subscribed(x, y)' => Reaches(x, y)' /\ x # y /\ view[x][y] # 0
    BY <1>1, <1>2 DEF Subscribed, Reaches, Adding
  <2>2. StateFits'
    BY <1>1, <2>1, QuietFits DEF StateFits, Subscribed
  <2>3. DataFits'
    BY <1>1, <2>1, QuietFits DEF DataFits
  <2> QED BY <2>2, <2>3
<1>11. NothingElse'
  <2>1. \A x \in Agents : ~Leaving(x)' /\ pc'[x] \notin {"leaveNotify", "leaveDelete"}
    BY <1>2 DEF Leaving
  <2> QED BY <1>1, <2>1, QuietFits DEF NothingElse, Known, Others, Members
<1> QED BY <1>3, <1>4, <1>5, <1>6, <1>7, <1>8, <1>9, <1>10, <1>11 DEF SInv

\* Everybody listed is connected, so the loop over the members does not fail,
\* and nothing is connected but members.
LEMMA LeaveStateS ==
    ASSUME OneAtATime, SInv, TypeOK', NEW a \in Agents, LeaveState(a)
    PROVE  SInv'
<1> USE DEF join, stuck, OneAtATime
<1>1. /\ Quiet /\ Unsubscribe(a)
      /\ UNCHANGED <<inv, store, join, keys, srvKey, subs, acked, handlers, statuses,
                     wedged>>
  BY DEF LeaveState, MayStart
<1>2. Others(a) \subseteq stateConn[a] /\ stateConn[a] \subseteq Others(a)
  BY <1>1, QuietFits DEF Others, Members
<1>3. /\ DisconnectState(a, Others(a))
      /\ pc' = [pc EXCEPT ![a] = "leaveData"]
      /\ UNCHANGED <<dataConn, blocked, crashed>>
  BY <1>2 DEF LeaveState
<1>4. /\ \A x \in Agents : pc[x] = "idle"
      /\ handlers = {} /\ statuses = {}
  BY <1>1 DEF Quiet
<1>5. pc'[a] = "leaveData" /\ \A x \in Agents : x # a => pc'[x] = "idle"
  BY <1>3, <1>4 DEF SInv, TypeOK
<1>6. /\ stateConn'[a] = {} /\ \A x \in Agents : x # a => stateConn'[x] = stateConn[x]
      /\ \A x \in Agents : x # a => refs'[x] = refs[x]
      /\ \A x, y \in Agents : <<x, y>> \in links' <=> <<x, y>> \in links /\ (x = a => y \notin Others(a))
      /\ crossed' = {}
  <2>1. stateConn' = [stateConn EXCEPT ![a] = @ \ Others(a)]
    BY <1>3 DEF DisconnectState
  <2>2. stateConn'[a] = {} /\ \A x \in Agents : x # a => stateConn'[x] = stateConn[x]
    BY <1>2, <2>1 DEF SInv, TypeOK
  <2>3. \A x \in Agents : x # a => refs'[x] = refs[x]
    BY <1>1 DEF Unsubscribe, SInv, TypeOK
  <2>4. \A x, y \in Agents : <<x, y>> \in links' <=> <<x, y>> \in links /\ (x = a => y \notin Others(a))
    BY <1>3 DEF DisconnectState
  <2>5. crossed' = {}
    BY <1>3 DEF DisconnectState, SInv, Sound
  <2> QED BY <2>2, <2>3, <2>4, <2>5
<1>7. OneBusy'
  BY <1>1, <1>4, <1>5 DEF OneBusy, Busy
<1>8. Sound'
  BY <1>1, <1>2, <1>3, <1>6 DEF SInv, Sound, NoneBroken
<1>9. OneInv'
  BY <1>1, Frames DEF SInv, store
<1>10. NotYetIn' /\ Founded' /\ GroupFits'
  BY <1>1, <1>4, <1>5 DEF SInv, NotYetIn, Founded, GroupFits, InGroup, Joining, store
<1>11. ListsMembers' /\ AllListed'
  BY <1>1, <1>4, <1>5 DEF SInv, ListsMembers, AllListed, InGroup, Adding, Removing, store
<1>12. ListExact' /\ AnswersFit' /\ AckedHears'
  BY <1>5 DEF ListExact, AnswersFit, AckedHears, Joining
<1>13. HandlersFit' /\ StatusesFit'
  BY <1>1, <1>4 DEF HandlersFit, StatusesFit
<1>14. \A x, y \in Agents : Subscribed(x, y)' => Reaches(x, y)' /\ x # y /\ view[x][y] # 0
  BY <1>1, <1>4, <1>5 DEF Subscribed, Reaches, Adding, store
<1>15. StateFits'
  BY <1>1, <1>5, <1>6, <1>14, QuietFits DEF StateFits, Subscribed, Leaving
<1>16. DataFits'
  BY <1>1, <1>3, <1>14, QuietFits DEF DataFits
<1>17. LeaverHeard'
  <2>1. \A m \in Others(a) : m \in Agents /\ m # a /\ <<m, a>> \in links /\ refs[m] > 0
    <3> SUFFICES ASSUME NEW m \in Others(a)
                 PROVE  m \in Agents /\ m # a /\ <<m, a>> \in links /\ refs[m] > 0
      OBVIOUS
    <3>1. m \in Agents /\ m # a /\ view[a][m] # 0
      BY DEF Others, Members
    <3>2. view[m][a] # 0
      BY <1>1, <3>1, QuietFits
    <3> QED BY <1>1, <3>1, <3>2, QuietFits
  <2>2. Others(a)' = Others(a)
    BY <1>1 DEF Others, Members, store
  <2> QED BY <1>5, <1>6, <2>1, <2>2 DEF LeaverHeard
<1>18. NothingElse'
  <2>1. \A x \in Agents : stateConn'[x] \subseteq stateConn[x]
    BY <1>6
  <2>2. \A x, m \in Agents : m \in Others(x) => m # x /\ Known(x, m)'
    BY <1>1 DEF Others, Members, Known, store
  <2>3. \A x \in Agents : Others(x) \subseteq Agents
    BY DEF Others, Members
  <2>4. \A x \in Agents : \A b \in stateConn'[x] : x # b /\ Known(x, b)' /\ ~Leaving(x)'
    BY <1>1, <1>5, <1>6, <2>2, <2>3, QuietFits DEF Leaving
  <2>5. \A x \in Agents : \A b \in dataConn'[x] :
           /\ x # b /\ Known(x, b)' /\ b \in Publishers
           /\ pc'[x] \notin {"leaveNotify", "leaveDelete"}
    BY <1>1, <1>3, <1>5, <2>2, <2>3, QuietFits
  <2>6. \A x \in Agents : \A b \in subs'[x] : x # b /\ Known(x, b)'
    BY <1>1, <2>2, <2>3, QuietFits
  <2> QED BY <2>4, <2>5, <2>6 DEF NothingElse
<1> QED BY <1>7, <1>8, <1>9, <1>10, <1>11, <1>12, <1>13, <1>15, <1>16, <1>17, <1>18 DEF SInv
-----------------------------------------------------------------------------
(* Join *)

\* A step of the acceptor that only reads.
LEMMA AskingS ==
    ASSUME SInv, TypeOK', NEW j \in Agents, NEW p \in {"reqParams", "reqMembers"},
           pc[j] \in {"reqState", "reqParams"}, pc' = [pc EXCEPT ![j] = p],
           UNCHANGED <<inv, store, list, answers, added, sockets, acked, handlers,
                       statuses, blocked, crashed>>
    PROVE  SInv'
<1> USE DEF store, sockets, curve
<1>1. handlers = {} /\ statuses = {} /\ \A x \in Agents : x # j => pc[x] = "idle"
  BY BusyAlone DEF Busy
<1>2. pc'[j] = p /\ \A x \in Agents : x # j => pc'[x] = "idle"
  BY <1>1 DEF SInv, TypeOK
<1>3. Sound' /\ OneInv'
  BY Frames DEF SInv
<1>4. OneBusy'
  BY <1>1, <1>2 DEF OneBusy, Busy
<1>5. NotYetIn' /\ Founded' /\ GroupFits'
  <2>1. NotYetIn'
    BY <1>1, <1>2 DEF SInv, NotYetIn, InGroup
  <2>2. Founded'
    BY <1>1, <1>2 DEF SInv, Founded, InGroup, Joining
  <2>3. GroupFits'
    BY <1>1, <1>2 DEF SInv, GroupFits, InGroup
  <2> QED BY <2>1, <2>2, <2>3
<1>6. ListsMembers' /\ AllListed'
  BY <1>1, <1>2 DEF SInv, ListsMembers, AllListed, InGroup, Adding, Removing
<1>7. ListExact' /\ AnswersFit' /\ AckedHears' /\ LeaverHeard'
  BY <1>2 DEF ListExact, AnswersFit, AckedHears, LeaverHeard, Joining
<1>8. HandlersFit' /\ StatusesFit'
  BY <1>1 DEF HandlersFit, StatusesFit
<1>9. \A x, y \in Agents : Reaches(x, y)' => Reaches(x, y)
  BY <1>1, <1>2 DEF Reaches, Adding
<1>10. StateFits'
  BY <1>1, <1>2, <1>9 DEF SInv, StateFits, Leaving, Dropping
<1>11. DataFits'
  <2>1. \A x, y \in Agents : Subscribed(x, y)' => Subscribed(x, y)
    BY <1>2, <1>9 DEF Subscribed
  <2> QED BY <1>1, <1>2, <2>1 DEF SInv, DataFits, Handling
<1>12. NothingElse'
  <2>1. \A x, y \in Agents : Known(x, y) => Known(x, y)'
    BY <1>1, <1>2 DEF Known, Adding
  <2>2. \A x \in Agents : stateConn[x] \subseteq Agents /\ dataConn[x] \subseteq Agents
                          /\ subs[x] \subseteq Agents
    BY DEF SInv, TypeOK
  <2>3. \A x \in Agents : ~Leaving(x)' /\ pc'[x] \notin {"leaveNotify", "leaveDelete"}
    BY <1>2 DEF Leaving
  <2> QED BY <2>1, <2>2, <2>3 DEF SInv, NothingElse
<1> QED BY <1>3, <1>4, <1>5, <1>6, <1>7, <1>8, <1>10, <1>11, <1>12 DEF SInv

LEMMA JoinReqsS ==
    ASSUME SInv, TypeOK', NEW j \in Agents, JoinReqs(j)
    PROVE  SInv'
<1> USE DEF join, sockets, store, curve
<1>1. CASE UNCHANGED pc
  BY <1>1, Frames DEF SInv, JoinReqs
<1>2. CASE pc' = [pc EXCEPT ![j] = "reqParams"]
  BY <1>2, AskingS DEF JoinReqs
<1> QED BY <1>1, <1>2 DEF JoinReqs

\* An acceptor in the group has its params.
LEMMA ReqParamsS ==
    ASSUME SInv, AcceptorIn, TypeOK', NEW j \in Agents, ReqParams(j)
    PROVE  SInv'
<1>1. pc[j] = "reqParams" /\ acceptor[j] \in Agents /\ InGroup(acceptor[j])
  BY DEF ReqParams, AcceptorIn, SInv, TypeOK
<1>2. group[acceptor[j]] = "full"
  BY <1>1 DEF SInv, GroupFits
<1>3. /\ pc' = [pc EXCEPT ![j] = "reqMembers"]
      /\ UNCHANGED <<inv, store, join, sockets, acked, handlers, statuses, blocked, crashed>>
  BY <1>2 DEF ReqParams
<1> QED BY <1>1, <1>3, AskingS DEF join

\* The list of a member holds the group.
LEMMA ReqMembersS ==
    ASSUME SInv, AcceptorIn, TypeOK', NEW j \in Agents, ReqMembers(j)
    PROVE  SInv'
<1> USE DEF join, sockets, curve, store, stuck
<1> DEFINE c == acceptor[j]
<1>1. pc[j] = "reqMembers" /\ c \in Agents /\ ~InGroup(j) /\ InGroup(c)
  BY DEF ReqMembers, AcceptorIn, SInv, TypeOK, NotYetIn
<1>2. UNCHANGED <<inv, view, group, answers, added, sockets, acked, handlers, statuses,
                  blocked, crashed>>
  BY DEF ReqMembers
<1>3. handlers = {} /\ statuses = {} /\ \A x \in Agents : x # j => pc[x] = "idle"
  BY <1>1, BusyAlone DEF Busy
<1>4. /\ InGroup(c)
      /\ list' = [list EXCEPT ![j] = view[c]]
      /\ pc' = [pc EXCEPT ![j] = "setParams"]
  BY <1>1 DEF ReqMembers
<1>5. /\ list'[j] = view[c] /\ \A x \in Agents : x # j => list'[x] = list[x]
      /\ pc'[j] = "setParams" /\ \A x \in Agents : x # j => pc'[x] = "idle"
  BY <1>3, <1>4 DEF SInv, TypeOK
<1>6. OneBusy'
  BY <1>2, <1>3, <1>5 DEF OneBusy, Busy
<1>7. Sound'
  BY <1>2, Frames DEF SInv
<1>8. OneInv'
  BY <1>1, <1>2, <1>5 DEF SInv, OneInv
<1>9. NotYetIn' /\ Founded' /\ GroupFits'
  <2>1. inv[j] # 0
    BY <1>1 DEF SInv, NotYetIn
  <2>2. NotYetIn'
    BY <1>1, <1>2, <1>3, <1>5, <2>1 DEF SInv, NotYetIn, InGroup
  <2>3. Founded'
    BY <1>1, <1>2, <1>4, <1>5 DEF SInv, Founded, InGroup, Joining
  <2>4. GroupFits'
    BY <1>1, <1>2, <1>3, <1>5 DEF SInv, GroupFits, InGroup
  <2> QED BY <2>2, <2>3, <2>4
<1>10. ListsMembers' /\ AllListed'
  BY <1>1, <1>2, <1>3, <1>5 DEF SInv, ListsMembers, AllListed, InGroup, Adding, Removing
<1>11. ListExact'
  <2>1. \A m \in Agents : view[c][m] # 0 <=> InGroup(m)
    BY <1>1, <1>4, ViewsExact
  <2> QED BY <1>1, <1>2, <1>5, <2>1 DEF ListExact, Joining, InGroup
<1>12. AnswersFit' /\ AckedHears' /\ LeaverHeard'
  BY <1>5 DEF AnswersFit, AckedHears, LeaverHeard
<1>13. HandlersFit' /\ StatusesFit'
  BY <1>2, <1>3 DEF HandlersFit, StatusesFit
<1>14. \A x, y \in Agents : Reaches(x, y)' => Reaches(x, y)
  BY <1>2, <1>3, <1>5 DEF Reaches, Adding
<1>15. StateFits'
  BY <1>1, <1>2, <1>3, <1>5, <1>14 DEF SInv, StateFits, Leaving, Dropping
<1>16. DataFits'
  <2>1. \A x, y \in Agents : Subscribed(x, y)' => Subscribed(x, y)
    BY <1>5, <1>14 DEF Subscribed
  <2> QED BY <1>1, <1>2, <1>3, <1>5, <2>1 DEF SInv, DataFits, Handling
<1>17. NothingElse'
  <2>1. \A x, y \in Agents : Known(x, y) => Known(x, y)'
    BY <1>1, <1>2, <1>3, <1>5 DEF Known, Adding
  <2>2. \A x \in Agents : stateConn[x] \subseteq Agents /\ dataConn[x] \subseteq Agents
                          /\ subs[x] \subseteq Agents
    BY DEF SInv, TypeOK
  <2>3. \A x \in Agents : ~Leaving(x)' /\ pc'[x] \notin {"leaveNotify", "leaveDelete"}
    BY <1>5 DEF Leaving
  <2> QED BY <1>2, <2>1, <2>2, <2>3 DEF SInv, NothingElse
<1> QED BY <1>6, <1>7, <1>8, <1>9, <1>10, <1>11, <1>12, <1>13, <1>15, <1>16, <1>17 DEF SInv

LEMMA SetParamsS ==
    ASSUME SInv, TypeOK', NEW j \in Agents, SetParams(j)
    PROVE  SInv'
<1> USE DEF sockets, curve, stuck
<1>1. /\ pc[j] = "setParams" /\ pc' = [pc EXCEPT ![j] = "subscribe"]
      /\ group' = [group EXCEPT ![j] = "full"]
      /\ answers' = [answers EXCEPT ![j] = [m \in Agents |-> NoAnswer]]
      /\ added' = [added EXCEPT ![j] = {}]
      /\ UNCHANGED <<inv, view, acceptor, list, sockets, acked, handlers, statuses, stuck>>
  BY DEF SetParams
<1>2. handlers = {} /\ statuses = {} /\ \A x \in Agents : x # j => pc[x] = "idle"
  BY <1>1, BusyAlone DEF Busy
<1>3. /\ pc'[j] = "subscribe" /\ \A x \in Agents : x # j => pc'[x] = "idle"
      /\ group'[j] = "full" /\ \A x \in Agents : x # j => group'[x] = group[x]
      /\ \A m \in Agents : answers'[j][m] = NoAnswer
      /\ added'[j] = {}
  BY <1>1, <1>2 DEF SInv, TypeOK
<1>4. OneBusy'
  BY <1>1, <1>2, <1>3 DEF OneBusy, Busy
<1>5. Sound' /\ OneInv'
  BY <1>1, Frames DEF SInv
<1>6. NotYetIn' /\ Founded' /\ GroupFits'
  <2>1. NotYetIn'
    BY <1>1, <1>2, <1>3 DEF SInv, NotYetIn, InGroup
  <2>2. Founded'
    BY <1>1, <1>2, <1>3 DEF SInv, Founded, InGroup, Joining
  <2>3. GroupFits'
    BY <1>1, <1>2, <1>3 DEF SInv, GroupFits, InGroup
  <2> QED BY <2>1, <2>2, <2>3
<1>7. ListsMembers' /\ AllListed'
  BY <1>1, <1>2, <1>3 DEF SInv, ListsMembers, AllListed, InGroup, Adding, Removing
<1>8. ListExact'
  BY <1>1, <1>3 DEF SInv, ListExact, Joining, InGroup
<1>9. AnswersFit' /\ AckedHears' /\ LeaverHeard'
  BY <1>3 DEF AnswersFit, AckedHears, LeaverHeard
<1>10. HandlersFit' /\ StatusesFit'
  BY <1>1, <1>2 DEF HandlersFit, StatusesFit
<1>11. \A x, y \in Agents : Reaches(x, y)' => Reaches(x, y)
  BY <1>1, <1>2, <1>3 DEF Reaches, Adding
<1>12. StateFits'
  BY <1>1, <1>2, <1>3, <1>11 DEF SInv, StateFits, Leaving, Dropping
<1>13. DataFits'
  <2>1. \A x, y \in Agents : Subscribed(x, y)' => Subscribed(x, y)
    BY <1>3, <1>11 DEF Subscribed
  <2> QED BY <1>1, <1>2, <1>3, <2>1 DEF SInv, DataFits, Handling
<1>14. NothingElse'
  <2>1. \A x, y \in Agents : Known(x, y) => Known(x, y)'
    BY <1>1, <1>2, <1>3 DEF Known, Adding
  <2>2. \A x \in Agents : stateConn[x] \subseteq Agents /\ dataConn[x] \subseteq Agents
                          /\ subs[x] \subseteq Agents
    BY DEF SInv, TypeOK
  <2>3. \A x \in Agents : ~Leaving(x)' /\ pc'[x] \notin {"leaveNotify", "leaveDelete"}
    BY <1>3 DEF Leaving
  <2> QED BY <1>1, <2>1, <2>2, <2>3 DEF SInv, NothingElse
<1> QED BY <1>4, <1>5, <1>6, <1>7, <1>8, <1>9, <1>10, <1>12, <1>13, <1>14 DEF SInv

\* A member on the acceptor's list takes the subscription.
LEMMA SubscriptionsS ==
    ASSUME SInv, TypeOK', NEW j \in Agents, NEW m \in Agents, Subscriptions(m, j)
    PROVE  SInv'
<1> USE DEF store, join, stuck
<1> DEFINE new == [at |-> m, from |-> j, inv |-> inv[j], step |-> "answer"]
<1>1. /\ pc[j] = "subscribe" /\ m # j /\ list[j][m] # 0 /\ answers[j][m] = NoAnswer
      /\ srvKey' = [srvKey EXCEPT ![m] = j]
      /\ UNCHANGED <<pc, inv, store, join, refs, stateConn, crossed, links, dataConn,
                     subs, acked, statuses, blocked, crashed>>
  BY DEF Subscriptions, Authenticate, Members
<1>2. /\ statuses = {} /\ \A x \in Agents : x # j => pc[x] = "idle"
      /\ \A h \in handlers : h.from = j /\ h.at \in Agents
  BY <1>1, BusyAlone DEF Busy
<1>3. InGroup(m) /\ m \notin blocked
  BY <1>1 DEF SInv, ListExact, Joining, Sound, NoneBroken
<1>4. handlers' = handlers \cup {new}
  BY <1>3 DEF Subscriptions, InGroup
<1>5. srvKey'[m] = j /\ \A x \in Agents : x # m => srvKey'[x] = srvKey[x]
  BY <1>1 DEF SInv, TypeOK
<1>6. new.at = m /\ new.from = j /\ new.inv = 1 /\ new.step = "answer"
  BY <1>1 DEF SInv, OneInv, NotYetIn
<1> HIDE DEF new
<1>7. /\ Sound' /\ NotYetIn' /\ Founded' /\ ListsMembers' /\ AllListed' /\ GroupFits'
      /\ ListExact' /\ AnswersFit' /\ StatusesFit' /\ StateFits' /\ AckedHears'
      /\ LeaverHeard' /\ NothingElse'
  BY <1>1, Frames DEF SInv
<1>8. OneBusy'
  BY <1>1, <1>4, <1>6 DEF SInv, OneBusy, Busy
<1>9. OneInv'
  BY <1>1, <1>4, <1>6 DEF SInv, OneInv
<1>10. HandlersFit'
  BY <1>1, <1>2, <1>3, <1>4, <1>5, <1>6 DEF SInv, HandlersFit, InGroup
<1>11. DataFits'
  <2>1. \A x, y \in Agents : Handling(x, y) => Handling(x, y)'
    BY <1>4 DEF Handling
  <2>2. \A x, y \in Agents : Subscribed(x, y)' => Subscribed(x, y)
    BY <1>1 DEF Subscribed, Reaches, Adding
  <2> QED BY <1>1, <2>1, <2>2 DEF SInv, DataFits
<1> QED BY <1>7, <1>8, <1>9, <1>10, <1>11 DEF SInv

\* It answers with the acceptor's list.
LEMMA HandlerAnswerS ==
    ASSUME SInv, TypeOK', NEW h \in handlers, HandlerAnswer(h)
    PROVE  SInv'
<1> USE DEF store, sockets, curve, stuck
<1> DEFINE j == h.from
           m == h.at
           next == [h EXCEPT !.step = "state"]
<1>1. /\ j \in Agents /\ m \in Agents /\ h \in Handlers /\ h.step = "answer"
      /\ pc[j] = "subscribe" /\ answers[j][m] = NoAnswer
      /\ m # j /\ list[j][m] # 0 /\ InGroup(m) /\ h.inv = 1 /\ srvKey[m] = j
  BY DEF HandlerAnswer, SInv, TypeOK, Handlers, HandlersFit, OneInv
<1>2. /\ statuses = {} /\ \A x \in Agents : x # j => pc[x] = "idle"
      /\ \A x \in handlers : x.from = j /\ x.at \in Agents
  BY <1>1, BusyAlone DEF Busy
<1>3. group[m] = "full"
  BY <1>1 DEF SInv, GroupFits
<1>4. /\ answers' = [answers EXCEPT ![j] = [answers[j] EXCEPT ![m] = view[m]]]
      /\ handlers' = (handlers \ {h}) \cup {next}
      /\ UNCHANGED <<pc, inv, store, list, added, sockets, acked, statuses, blocked, crashed>>
  BY <1>3 DEF HandlerAnswer
<1>5. /\ answers'[j][m] = view[m]
      /\ \A x, y \in Agents : x # j \/ y # m => answers'[x][y] = answers[x][y]
  BY <1>1, <1>4 DEF SInv, TypeOK
<1>6. next.at = m /\ next.from = j /\ next.inv = 1 /\ next.step = "state"
  BY <1>1 DEF Handlers
<1> HIDE DEF next
<1>7. view[m] = list[j]
  <2>1. \A x \in Agents : view[m][x] # 0 <=> list[j][x] # 0
    <3> SUFFICES ASSUME NEW x \in Agents PROVE view[m][x] # 0 <=> list[j][x] # 0
      OBVIOUS
    <3>1. view[m][x] # 0 <=> InGroup(x)
      BY <1>1, ViewsExact
    <3>2. list[j][x] # 0 <=> InGroup(x) /\ x # j
      BY <1>1 DEF SInv, ListExact, Joining
    <3>3. ~InGroup(j)
      BY <1>1 DEF SInv, NotYetIn
    <3> QED BY <3>1, <3>2, <3>3
  <2>2. \A x \in Agents : view[m][x] = list[j][x]
    BY <1>1, <2>1 DEF SInv, OneInv
  <2> QED BY <1>1, <2>2 DEF SInv, TypeOK, Views
<1>8. /\ Sound' /\ NotYetIn' /\ Founded' /\ ListsMembers' /\ AllListed' /\ GroupFits'
      /\ ListExact' /\ StatusesFit' /\ StateFits' /\ AckedHears' /\ LeaverHeard'
      /\ NothingElse'
  BY <1>4, Frames DEF SInv
<1>9. OneBusy'
  BY <1>4, <1>6 DEF SInv, OneBusy, Busy
<1>10. OneInv'
  BY <1>4, <1>6 DEF SInv, OneInv
<1>11. AnswersFit'
  <2>1. added[j] = {}
    BY <1>1 DEF SInv, AnswersFit, Members
  <2> SUFFICES ASSUME NEW x \in Agents, pc'[x] = "subscribe"
               PROVE  /\ \A y \in Agents : answers'[x][y] # NoAnswer =>
                            list'[x][y] # 0 /\ answers'[x][y] = list'[x]
                      /\ added'[x] = {}
    BY DEF AnswersFit
  <2>2. x = j
    BY <1>2, <1>4
  <2>3. \A y \in Agents : answers'[j][y] # NoAnswer => list[j][y] # 0 /\ answers'[j][y] = list[j]
    BY <1>1, <1>5, <1>7 DEF SInv, AnswersFit
  <2> QED BY <1>4, <2>1, <2>2, <2>3
<1>12. HandlersFit'
  <2>1. \A x \in handlers : x # h /\ x.step = "answer" => x.at # m
    <3> SUFFICES ASSUME NEW x \in handlers, x.step = "answer", x.at = m PROVE x = h
      OBVIOUS
    <3>1. x \in Handlers /\ x.from = j /\ x.inv = 1
      BY <1>2 DEF SInv, TypeOK, OneInv
    <3> QED BY <1>1, <3>1 DEF Handlers
  <2>2. \A x \in handlers : /\ x.at # x.from /\ InGroup(x.at)
                            /\ list[j][x.at] # 0
                            /\ x.step = "answer" => answers[j][x.at] = NoAnswer
                            /\ x.step # "data" => srvKey[x.at] = j
    BY <1>1, <1>2 DEF SInv, HandlersFit
  <2>3. \A x \in Agents : InGroup(x)' <=> InGroup(x)
    BY <1>4 DEF InGroup
  <2> SUFFICES ASSUME NEW x \in handlers'
               PROVE  /\ x.from = j /\ x.at \in Agents /\ x.at # x.from /\ InGroup(x.at)
                      /\ list[j][x.at] # 0
                      /\ x.step = "answer" => answers'[j][x.at] = NoAnswer
                      /\ x.step # "data" => srvKey[x.at] = j
    BY <1>1, <1>4, <2>3 DEF HandlersFit
  <2>4. CASE x = next
    BY <1>1, <1>6, <2>4
  <2>5. CASE x \in handlers /\ x # h
    BY <1>1, <1>2, <1>5, <2>1, <2>2, <2>5
  <2> QED BY <1>4, <2>4, <2>5
<1>13. DataFits'
  <2>1. Handling(m, j)' /\ \A x, y \in Agents : Handling(x, y) => Handling(x, y)'
    BY <1>4, <1>6 DEF Handling
  <2>2. \A x, y \in Agents : Subscribed(x, y)' => Subscribed(x, y) \/ (x = m /\ y = j)
    BY <1>1, <1>4, <1>5 DEF Subscribed, Reaches, Adding
  <2> QED BY <1>4, <2>1, <2>2 DEF SInv, DataFits
<1> QED BY <1>8, <1>9, <1>10, <1>11, <1>12, <1>13 DEF SInv

LEMMA ConnectMemberS ==
    ASSUME SInv, TypeOK', NEW j \in Agents, NEW m \in Agents, ConnectMember(j, m)
    PROVE  SInv'
<1> USE DEF store, stuck
<1>1. /\ pc[j] = "subscribe"
      /\ \A x \in Members(list[j]) : answers[j][x] # NoAnswer
      /\ m \in Members(list[j])
      /\ srvKey' = [srvKey EXCEPT ![j] = m]
      /\ stateConn' = [stateConn EXCEPT ![j] = @ \cup {m}]
      /\ crossed' = crossed
      /\ dataConn' = [dataConn EXCEPT ![j] = IF m \in Publishers THEN @ \cup {m} ELSE @]
      /\ subs' = [subs EXCEPT ![j] = IF j \in Publishers THEN @ \cup {m} ELSE @]
      /\ added' = [added EXCEPT ![j] = @ \cup {m}]
      /\ UNCHANGED <<pc, inv, group, view, list, answers, links, acked, handlers,
                     statuses, blocked, crashed>>
  BY DEF ConnectMember, Authenticate, ConnectState, ConnectData
<1>2. /\ statuses = {} /\ \A x \in Agents : x # j => pc[x] = "idle"
      /\ \A h \in handlers : h.from = j /\ h.at # j
  BY <1>1, BusyAlone DEF Busy
<1>3. list[j][m] # 0 /\ m # j /\ ~InGroup(j)
  BY <1>1 DEF Members, SInv, ListExact, Joining, NotYetIn
<1>4. \A x \in Agents : view[j][x] = 0
  BY <1>3 DEF SInv, ListsMembers, InGroup
<1>5. refs' = [refs EXCEPT ![j] = @ + 1]
  <2>1. Members(view[j]) = {}
    BY <1>4 DEF Members
  <2>2. Cardinality(Members(view[j])) < 2
    BY <2>1, FS_EmptySet
  <2> QED BY <2>2 DEF ConnectMember, ConnectState
<1>6. /\ m \in stateConn'[j] /\ stateConn'[j] = stateConn[j] \cup {m}
      /\ \A x \in Agents : x # j => stateConn'[x] = stateConn[x]
      /\ refs'[j] > 0 /\ \A x \in Agents : x # j => refs'[x] = refs[x]
      /\ dataConn'[j] = IF m \in Publishers THEN dataConn[j] \cup {m} ELSE dataConn[j]
      /\ \A x \in Agents : x # j => dataConn'[x] = dataConn[x]
      /\ subs'[j] = IF j \in Publishers THEN subs[j] \cup {m} ELSE subs[j]
      /\ \A x \in Agents : x # j => subs'[x] = subs[x]
      /\ added'[j] = added[j] \cup {m}
  BY <1>1, <1>5 DEF SInv, TypeOK
<1>7. \A x \in Agents : x # j => srvKey'[x] = srvKey[x]
  BY <1>1 DEF SInv, TypeOK
<1>8. /\ OneBusy' /\ OneInv' /\ NotYetIn' /\ Founded' /\ ListsMembers' /\ AllListed'
      /\ GroupFits' /\ ListExact'
  BY <1>1, Frames DEF SInv
<1>9. Sound'
  BY <1>1, <1>6 DEF SInv, Sound, NoneBroken
<1>10. AnswersFit'
  BY <1>1, <1>2, <1>6 DEF SInv, AnswersFit
<1>11. HandlersFit'
  <2>1. \A h \in handlers : h.at \in Agents /\ h.from \in Agents
    BY DEF SInv, TypeOK, Handlers
  <2> QED BY <1>1, <1>2, <1>7, <2>1 DEF SInv, HandlersFit, InGroup
<1>12. StatusesFit'
  BY <1>1, <1>2 DEF StatusesFit
<1>13. \A x, y \in Agents : Reaches(x, y)' => Reaches(x, y) \/ (x = j /\ y = m)
  BY <1>1, <1>2, <1>6 DEF Reaches, Adding
<1>14. StateFits'
  <2>1. \A x \in Agents : stateConn[x] \subseteq stateConn'[x]
    BY <1>6
  <2> QED BY <1>1, <1>2, <1>6, <1>13, <2>1 DEF SInv, StateFits, Leaving, Dropping
<1>15. AckedHears' /\ LeaverHeard'
  BY <1>1, <1>2 DEF AckedHears, LeaverHeard
<1>16. DataFits'
  <2>1. \A x, y \in Agents : Subscribed(x, y)' => Subscribed(x, y) \/ (x = j /\ y = m)
    BY <1>1, <1>13 DEF Subscribed
  <2>2. \A x \in Agents : dataConn[x] \subseteq dataConn'[x] /\ subs[x] \subseteq subs'[x]
    BY <1>6
  <2>3. /\ m \in Publishers => m \in dataConn'[j]
        /\ j \in Publishers => m \in subs'[j]
    BY <1>6
  <2>4. \A x, y \in Agents : Handling(x, y)' <=> Handling(x, y)
    BY <1>1 DEF Handling
  <2> QED BY <1>1, <2>1, <2>2, <2>3, <2>4 DEF SInv, DataFits
<1>17. NothingElse'
  <2>1. Known(j, m)' /\ \A x, y \in Agents : Known(x, y)' <=> Known(x, y)
    BY <1>1, <1>3 DEF Known, Adding
  <2>2. \A x \in Agents : stateConn[x] \subseteq Agents /\ dataConn[x] \subseteq Agents
                          /\ subs[x] \subseteq Agents
    BY DEF SInv, TypeOK
  <2>3. \A x \in Agents : ~Leaving(x)' /\ pc'[x] \notin {"leaveNotify", "leaveDelete"}
    BY <1>1, <1>2 DEF Leaving
  <2>4. \A x \in Agents : \A b \in stateConn'[x] : x # b /\ Known(x, b)' /\ ~Leaving(x)'
    BY <1>3, <1>6, <2>1, <2>2, <2>3 DEF SInv, NothingElse
  <2>5. \A x \in Agents : \A b \in dataConn'[x] :
           /\ x # b /\ Known(x, b)' /\ b \in Publishers
           /\ pc'[x] \notin {"leaveNotify", "leaveDelete"}
    BY <1>3, <1>6, <2>1, <2>2, <2>3 DEF SInv, NothingElse
  <2>6. \A x \in Agents : \A b \in subs'[x] : x # b /\ Known(x, b)'
    BY <1>3, <1>6, <2>1, <2>2 DEF SInv, NothingElse
  <2> QED BY <2>4, <2>5, <2>6 DEF NothingElse
<1> QED BY <1>8, <1>9, <1>10, <1>11, <1>12, <1>14, <1>15, <1>16, <1>17 DEF SInv
\* Equal answers pass the check.
LEMMA EqualIsConsistent ==
    ASSUME NEW j \in Agents,
           \A m \in Members(list[j]) : answers[j][m] = list[j]
    PROVE  Consistent(j)
<1> DEFINE hashes == [m \in Members(list[j]) |-> answers[j][m]]
           states == WithAcceptor(acceptor[j], list[j], hashes)
<1>1. \A m \in DOMAIN states : states[m] = list[j]
  BY DEF WithAcceptor
<1> HIDE DEF states
<1>2. \A m \in DOMAIN states : Class(states, states[m]) = DOMAIN states
  BY <1>1 DEF Class
<1>3. \A c \in Classes(states) : c = DOMAIN states
  BY <1>2 DEF Classes
<1>5. Members(list[j]) \subseteq Agents /\ IsFiniteSet(Agents)
  BY MembershipAssumption DEF Members
<1>6. DOMAIN states = Members(list[j]) \cup {acceptor[j]}
  BY DEF states, WithAcceptor
<1>7. IsFiniteSet(DOMAIN states)
  BY <1>5, <1>6, FS_Subset, FS_AddElement
<1>8. Cardinality(DOMAIN states) \in Nat
  BY <1>7, FS_CardinalityType
<1>9. Verify(states)
  BY <1>3, <1>8 DEF Verify
<1> QED BY <1>9 DEF Consistent, ValidJoin, states

LEMMA AdmitS ==
    ASSUME SInv, TypeOK', NEW j \in Agents, Admit(j)
    PROVE  SInv'
<1> USE DEF join, sockets, curve, stuck
<1> DEFINE v == [list[j] EXCEPT ![j] = inv[j]]
<1>1. /\ pc[j] = "subscribe" /\ added[j] = Members(list[j])
      /\ UNCHANGED <<inv, join, sockets, acked, handlers, statuses, stuck>>
  BY DEF Admit
<1>2. /\ statuses = {} /\ \A x \in Agents : x # j => pc[x] = "idle"
      /\ \A h \in handlers : h.from = j /\ h.at # j /\ h.at \in Agents
  BY <1>1, BusyAlone DEF Busy
<1>3. \A m \in Members(list[j]) : answers[j][m] # NoAnswer /\ answers[j][m] = list[j]
  BY <1>1 DEF Members, SInv, AnswersFit
<1>4. AddMembrs(j, v) /\ pc' = [pc EXCEPT ![j] = "wait"]
  BY <1>3, EqualIsConsistent DEF Admit
<1>5. /\ inv[j] = 1 /\ ~InGroup(j) /\ acked[j] = {}
      /\ group[j] = "full"
      /\ \A x \in Agents : view[j][x] = 0
  <2>1. ~InGroup(j) /\ acked[j] = {} /\ inv[j] = 1
    BY <1>1 DEF SInv, NotYetIn, OneInv
  <2>2. \A x \in Agents : view[j][x] = 0
    BY <2>1 DEF SInv, ListsMembers, InGroup
  <2>3. group[j] = "full"
    BY <1>1 DEF SInv, GroupFits
  <2> QED BY <2>1, <2>2, <2>3
<1>6. /\ v[j] = 1 /\ \A x \in Agents : x # j => v[x] = list[j][x]
  BY <1>5 DEF SInv, TypeOK, Views
<1>7. /\ view' = [view EXCEPT ![j] = [x \in Agents |-> IF v[x] # 0 THEN v[x] ELSE view[j][x]]]
      /\ group' = group
  BY <1>4, <1>5 DEF AddMembrs, SInv, TypeOK
<1> HIDE DEF v
<1>8. /\ \A x \in Agents : view'[j][x] = v[x]
      /\ \A x \in Agents : x # j => view'[x] = view[x]
      /\ pc'[j] = "wait" /\ \A x \in Agents : x # j => pc'[x] = "idle"
  BY <1>2, <1>4, <1>5, <1>7 DEF SInv, TypeOK
<1>9. \A x, y \in Agents : view'[x][y] # 0 <=>
         view[x][y] # 0 \/ (x = j /\ (y = j \/ list[j][y] # 0))
  BY <1>5, <1>6, <1>8
<1>10. \A x \in Agents : list[j][x] # 0 <=> InGroup(x) /\ x # j
  BY <1>1 DEF SInv, ListExact, Joining
<1>11. \A x \in Agents : InGroup(x)' <=> InGroup(x) \/ x = j
  BY <1>9, <1>10 DEF InGroup
<1>12. OneBusy'
  BY <1>1, <1>2, <1>8 DEF OneBusy, Busy
<1>13. Sound'
  BY <1>1, Frames DEF SInv
<1>14. OneInv'
  BY <1>1, <1>6, <1>8 DEF SInv, OneInv
<1>15. NotYetIn' /\ Founded'
  <2>1. NotYetIn'
    BY <1>1, <1>2, <1>5, <1>8, <1>11 DEF SInv, NotYetIn
  <2>2. Founded'
    BY <1>1, <1>2, <1>8, <1>11 DEF SInv, Founded, Joining
  <2> QED BY <2>1, <2>2
<1>16. ListsMembers'
  BY <1>1, <1>2, <1>8, <1>9, <1>10, <1>11 DEF SInv, ListsMembers, Removing
<1>17. AllListed'
  <2> SUFFICES ASSUME NEW x \in Agents, NEW y \in Agents,
                      x # y, InGroup(x)', InGroup(y)', view'[x][y] = 0
               PROVE  pc'[y] = "wait"
    BY DEF AllListed
  <2>1. CASE y = j
    BY <1>8, <2>1
  <2>2. CASE x = j
    BY <1>9, <1>10, <1>11, <2>2
  <2>3. CASE x # j /\ y # j
    BY <1>2, <1>9, <1>11, <2>3 DEF SInv, AllListed, Adding
  <2> QED BY <2>1, <2>2, <2>3
<1>18. GroupFits'
  BY <1>1, <1>2, <1>5, <1>7, <1>8, <1>11 DEF SInv, GroupFits
<1>19. ListExact'
  BY <1>1, <1>8, <1>10, <1>11 DEF ListExact, Joining
<1>20. AnswersFit' /\ LeaverHeard'
  BY <1>8 DEF AnswersFit, LeaverHeard
<1>21. HandlersFit'
  <2>1. \A h \in handlers : list[j][h.at] # 0 /\ h.step # "answer"
    BY <1>1, <1>2, <1>3 DEF SInv, HandlersFit, Members
  <2> QED BY <1>1, <1>2, <1>8, <1>11, <2>1 DEF SInv, HandlersFit
<1>22. StatusesFit'
  BY <1>1, <1>2 DEF StatusesFit
<1>23. \A x, y \in Agents : Reaches(x, y)' => Reaches(x, y)
  BY <1>1, <1>2, <1>8, <1>9 DEF Reaches, Adding, Members
<1>24. StateFits'
  BY <1>1, <1>2, <1>8, <1>23 DEF SInv, StateFits, Leaving, Dropping
<1>25. AckedHears'
  BY <1>1, <1>5, <1>8 DEF AckedHears
<1>26. DataFits'
  <2>1. \A x, y \in Agents : Subscribed(x, y)' => Subscribed(x, y)
    BY <1>1, <1>3, <1>8, <1>23 DEF Subscribed, Members
  <2> QED BY <1>1, <1>2, <1>8, <2>1 DEF SInv, DataFits, Handling
<1>27. NothingElse'
  <2>1. \A x, y \in Agents : Known(x, y) => Known(x, y)'
    BY <1>1, <1>2, <1>8, <1>9 DEF Known, Adding
  <2>2. \A x \in Agents : stateConn[x] \subseteq Agents /\ dataConn[x] \subseteq Agents
                          /\ subs[x] \subseteq Agents
    BY DEF SInv, TypeOK
  <2>3. \A x \in Agents : ~Leaving(x)' /\ pc'[x] \notin {"leaveNotify", "leaveDelete"}
    BY <1>8 DEF Leaving
  <2> QED BY <1>1, <2>1, <2>2, <2>3 DEF SInv, NothingElse
<1> QED BY <1>12, <1>13, <1>14, <1>15, <1>16, <1>17, <1>18, <1>19, <1>20, <1>21, <1>22,
           <1>24, <1>25, <1>26, <1>27 DEF SInv

LEMMA HelloAckS ==
    ASSUME SInv, TypeOK', NEW j \in Agents, NEW m \in Agents, HelloAck(j, m)
    PROVE  SInv'
<1> USE DEF store, join, sockets, curve, stuck
<1>1. /\ pc[j] = "wait" /\ <<m, j>> \in links /\ refs[m] > 0
      /\ acked' = [acked EXCEPT ![j] = @ \cup {m}]
      /\ UNCHANGED <<pc, inv, store, join, sockets, handlers, statuses, stuck>>
  BY DEF HelloAck, Hears
<1>2. acked'[j] = acked[j] \cup {m} /\ \A x \in Agents : x # j => acked'[x] = acked[x]
  BY <1>1 DEF SInv, TypeOK
<1>3. NotYetIn'
  BY <1>1, <1>2 DEF SInv, NotYetIn, InGroup
<1>4. AckedHears'
  BY <1>1, <1>2 DEF SInv, AckedHears
<1> QED BY <1>1, <1>3, <1>4, Frames DEF SInv

\* Every member hears a joiner that has all its acks.
LEMMA AllHear ==
    ASSUME SInv, NEW j \in Agents, pc[j] = "wait", Members(list[j]) \subseteq acked[j]
    PROVE  /\ InGroup(j)
           /\ {x \in Others(j) : Hears(x, j)} = {x \in Agents : x # j /\ InGroup(x)}
           /\ Others(j) = {x \in Agents : x # j /\ InGroup(x)}
<1>1. statuses = {} /\ \A x \in Agents : x # j => pc[x] = "idle"
  BY BusyAlone DEF Busy
<1>2. InGroup(j)
  BY DEF SInv, NotYetIn
<1>3. \A x \in Agents : list[j][x] # 0 <=> InGroup(x) /\ x # j
  BY DEF SInv, ListExact, Joining
<1>4. \A x \in Agents : x # j /\ InGroup(x) => view[j][x] # 0
  BY <1>1, <1>2 DEF SInv, AllListed, Adding
<1>5. \A x \in Agents : x # j /\ InGroup(x) => Hears(x, j)
  BY <1>3 DEF Members, Hears, Alive, SInv, AckedHears, Sound, NoneBroken
<1>6. \A x \in Agents : x # j /\ view[j][x] # 0 => InGroup(x)
  BY <1>1 DEF SInv, ListsMembers, Removing
<1> QED BY <1>2, <1>4, <1>5, <1>6 DEF Others, Members

\* Every other member is told of the joiner.
LEMMA NotifyS ==
    ASSUME SInv, TypeOK', NEW j \in Agents, Notify(j)
    PROVE  SInv'
<1> USE DEF store, join, sockets, curve, stuck
<1> DEFINE status(m) == [from |-> j, to |-> m, active |-> TRUE, inv |-> inv[j], step |-> "sent"]
           S == {x \in Others(j) : Hears(x, j)}
<1>1. /\ pc[j] = "wait" /\ Members(list[j]) \subseteq acked[j]
      /\ statuses' = statuses \cup {status(m) : m \in S}
      /\ pc' = [pc EXCEPT ![j] = "idle"]
      /\ UNCHANGED <<inv, store, join, sockets, acked, handlers, stuck>>
  BY DEF Notify, NotifyAll, AllAcked
<1>2. /\ statuses = {} /\ \A x \in Agents : x # j => pc[x] = "idle"
      /\ \A h \in handlers : h.from = j /\ h.at # j /\ h.at \in Agents
  BY <1>1, BusyAlone DEF Busy
<1>3. \A x \in Agents : pc'[x] = "idle"
  BY <1>1, <1>2 DEF SInv, TypeOK
<1>4. inv[j] = 1
  BY <1>1 DEF SInv, NotYetIn, OneInv
<1>5. S = {x \in Agents : x # j /\ InGroup(x)} /\ InGroup(j)
  BY <1>1, AllHear
<1>6. \A m \in S : /\ status(m).from = j /\ status(m).to = m /\ status(m).active
                   /\ status(m).inv = 1 /\ status(m).step = "sent"
  BY <1>4
<1> HIDE DEF status, S
<1>7. \A s \in statuses' : /\ s.from = j /\ s.to \in S /\ s.active
                           /\ s.inv = 1 /\ s.step = "sent"
  BY <1>1, <1>2, <1>6
<1>8. \A x, y \in Agents : Adding(x, y)' <=> y = j /\ x # j /\ InGroup(x)
  BY <1>1, <1>2, <1>5, <1>6, <1>7 DEF Adding
<1>9. \A x, y \in Agents : ~Removing(x, y)' /\ ~Dropping(x, y)'
                           /\ ~Adding(x, y) /\ ~Removing(x, y) /\ ~Dropping(x, y)
  BY <1>2, <1>7 DEF Adding, Removing, Dropping
<1>10. OneBusy'
  BY <1>1, <1>2, <1>3, <1>7 DEF OneBusy, Busy
<1>11. Sound'
  BY <1>1, Frames DEF SInv
<1>12. OneInv'
  BY <1>1, <1>7 DEF SInv, OneInv
<1>13. NotYetIn' /\ Founded' /\ GroupFits'
  BY <1>1, <1>2, <1>3, <1>5 DEF SInv, NotYetIn, Founded, GroupFits, InGroup, Joining
<1>14. ListsMembers'
  BY <1>1, <1>3, <1>9 DEF SInv, ListsMembers, InGroup
<1>15. AllListed'
  BY <1>1, <1>2, <1>8, <1>9 DEF SInv, AllListed, InGroup
<1>16. ListExact' /\ AnswersFit' /\ AckedHears' /\ LeaverHeard'
  BY <1>3 DEF ListExact, AnswersFit, AckedHears, LeaverHeard, Joining
<1>17. HandlersFit'
  BY <1>1, <1>2, <1>3, <1>5 DEF SInv, HandlersFit, InGroup
<1>18. StatusesFit'
  <2>1. \A s \in statuses' : s.to \in Agents /\ s.to # j /\ InGroup(s.to)
    BY <1>5, <1>7
  <2> QED BY <1>1, <1>3, <1>5, <1>7, <2>1 DEF StatusesFit, InGroup
<1>19. \A x \in Agents : x # j /\ InGroup(x) =>
          <<x, j>> \in links /\ refs[x] > 0 /\ j \in stateConn[x] /\ list[j][x] # 0
  <2>1. \A x \in Agents : x # j /\ InGroup(x) => list[j][x] # 0
    BY <1>1 DEF SInv, ListExact, Joining
  <2>2. \A x \in Agents : list[j][x] # 0 => x \in acked[j]
    BY <1>1 DEF Members
  <2> QED BY <1>1, <2>1, <2>2 DEF SInv, AckedHears, Sound
<1>20. StateFits'
  <2>1. \A x, y \in Agents : Reaches(x, y)' => Reaches(x, y) \/ Adding(x, y)'
    BY <1>1 DEF Reaches
  <2>2. \A x \in Agents : ~Leaving(x)
    BY <1>1, <1>2 DEF Leaving
  <2>3. \A x, y \in Agents : Reaches(x, y) => y \in stateConn[x] /\ refs[x] > 0
    BY <1>9, <2>2 DEF SInv, StateFits
  <2>4. \A x, y \in Agents : Adding(x, y)' => y \in stateConn[x] /\ refs[x] > 0
    BY <1>8, <1>19
  <2>5. \A x, y \in Agents : Reaches(x, y)' => y \in stateConn[x] /\ refs[x] > 0
    BY <2>1, <2>3, <2>4
  <2> QED BY <1>1, <2>5 DEF StateFits
<1>21. DataFits'
  <2>1. \A x, y \in Agents : Subscribed(x, y)' => Subscribed(x, y)
    BY <1>1, <1>3, <1>8, <1>19 DEF Subscribed, Reaches
  <2>2. \A x \in Agents : pc[x] \notin {"leaveNotify", "leaveDelete"}
    BY <1>1, <1>2
  <2> QED BY <1>1, <2>1, <2>2 DEF SInv, DataFits, Handling
<1>22. NothingElse'
  <2>1. \A x, y \in Agents : Known(x, y) => Known(x, y)'
    <3> SUFFICES ASSUME NEW x \in Agents, NEW y \in Agents, Known(x, y) PROVE Known(x, y)'
      OBVIOUS
    <3>1. CASE view[x][y] # 0
      BY <1>1, <3>1 DEF Known
    <3>2. CASE pc[y] \in {"subscribe", "wait"} /\ list[y][x] # 0
      <4>1. y = j /\ x # j /\ InGroup(x)
        BY <1>1, <1>2, <3>2 DEF SInv, ListExact, Joining
      <4> QED BY <1>8, <4>1 DEF Known
    <3> QED BY <1>1, <1>2, <1>9, <3>1, <3>2 DEF Known
  <2>2. \A x \in Agents : stateConn[x] \subseteq Agents /\ dataConn[x] \subseteq Agents
                          /\ subs[x] \subseteq Agents
    BY DEF SInv, TypeOK
  <2>3. \A x \in Agents : ~Leaving(x)' /\ pc'[x] \notin {"leaveNotify", "leaveDelete"}
    BY <1>3 DEF Leaving
  <2> QED BY <1>1, <2>1, <2>2, <2>3 DEF SInv, NothingElse
<1> QED BY <1>10, <1>11, <1>12, <1>13, <1>14, <1>15, <1>16, <1>17, <1>18, <1>20, <1>21,
           <1>22 DEF SInv
-----------------------------------------------------------------------------
(* Handlers and connections *)

\* The server key of the socket is still the joiner's.
LEMMA HandlerStateS ==
    ASSUME SInv, TypeOK', NEW h \in handlers, HandlerState(h)
    PROVE  SInv'
<1> USE DEF store, join, stuck
<1> DEFINE m == h.at
           j == h.from
           done == [h EXCEPT !.step = "data"]
<1>1. /\ m \in Agents /\ j \in Agents /\ m # j /\ InGroup(m)
      /\ done.at = m /\ done.from = j /\ done.inv = 1 /\ done.step = "data"
  BY DEF SInv, TypeOK, Handlers, HandlersFit, OneInv
<1>2. Busy(j) /\ pc[m] = "idle"
  <2>1. Busy(j)
    BY DEF Busy
  <2> QED BY <1>1, <2>1, BusyAlone
<1>3. \A s \in statuses : s.active
  <2>1. \A s \in statuses : s.from = j
    BY <1>1, <1>2, BusyAlone
  <2>2. pc[j] \in {"subscribe", "wait"} \/ (pc[j] = "idle" /\ InGroup(j))
    BY DEF SInv, HandlersFit
  <2> QED BY <2>1, <2>2 DEF SInv, StatusesFit
<1>4. /\ stateConn' = [stateConn EXCEPT ![m] = @ \cup {j}]
      /\ handlers' = (handlers \ {h}) \cup {done}
      /\ crossed' = crossed
      /\ refs' = [refs EXCEPT ![m] = IF Cardinality(Members(view[m])) < 2 THEN @ + 1 ELSE @]
      /\ UNCHANGED <<pc, inv, store, join, srvKey, links, dataConn, subs, acked, statuses,
                     stuck>>
  BY DEF HandlerState, ConnectState, SInv, HandlersFit
<1>5. /\ stateConn'[m] = stateConn[m] \cup {j}
      /\ \A x \in Agents : x # m => stateConn'[x] = stateConn[x]
  BY <1>1, <1>4 DEF SInv, TypeOK
<1>6. \A x \in Agents : refs[x] > 0 => refs'[x] > 0
  <2>1. \A x \in Agents : refs[x] \in Nat
    BY DEF SInv, TypeOK
  <2>2. \A x \in Agents : refs'[x] = refs[x] \/ refs'[x] = refs[x] + 1
    BY <1>1, <1>4 DEF SInv, TypeOK
  <2> QED BY <2>1, <2>2
<1> HIDE DEF done
<1>7. \A x, y \in Agents : Handling(x, y)' <=> Handling(x, y)
  BY <1>1, <1>4 DEF Handling
<1>8. /\ NotYetIn' /\ Founded' /\ ListsMembers' /\ AllListed' /\ GroupFits' /\ ListExact'
      /\ AnswersFit'
  BY <1>4, Frames DEF SInv
<1>9. OneBusy'
  <2>1. \A x \in Agents : (\E g \in handlers' : g.from = x) => \E g \in handlers : g.from = x
    BY <1>1, <1>4
  <2> QED BY <1>4, <2>1 DEF SInv, OneBusy, Busy
<1>10. Sound'
  BY <1>4, <1>5 DEF SInv, Sound, NoneBroken
<1>11. OneInv'
  BY <1>1, <1>4 DEF SInv, OneInv
<1>12. HandlersFit'
  BY <1>1, <1>4 DEF SInv, HandlersFit, InGroup
<1>13. StatusesFit'
  BY <1>3, <1>4 DEF SInv, StatusesFit, InGroup
<1>14. StateFits'
  <2>1. \A x \in Agents : stateConn[x] \subseteq stateConn'[x]
    BY <1>5
  <2> QED BY <1>4, <1>6, <2>1 DEF SInv, StateFits, Reaches, Adding, Dropping, Leaving
<1>15. AckedHears' /\ LeaverHeard'
  <2>1. \A x \in Agents : acked[x] \subseteq Agents /\ Others(x) \subseteq Agents
    BY DEF SInv, TypeOK, Others, Members
  <2>2. \A x \in Agents : Others(x)' = Others(x)
    BY <1>4 DEF Others, Members
  <2> QED BY <1>4, <1>6, <2>1, <2>2 DEF SInv, AckedHears, LeaverHeard
<1>16. DataFits'
  BY <1>4, <1>7 DEF SInv, DataFits, Subscribed, Reaches, Adding
<1>17. NothingElse'
  <2>1. \A x, y \in Agents : Known(x, y)' <=> Known(x, y)
    BY <1>4 DEF Known, Adding
  <2>2. \A x \in Agents : stateConn[x] \subseteq Agents /\ dataConn[x] \subseteq Agents
                          /\ subs[x] \subseteq Agents
    BY DEF SInv, TypeOK
  <2>3. Known(m, j)
    <3>1. CASE pc[j] \in {"subscribe", "wait"}
      BY <3>1 DEF Known, SInv, HandlersFit
    <3>2. CASE pc[j] = "idle" /\ InGroup(j)
      BY <1>1, <3>2 DEF Known, SInv, AllListed
    <3> QED BY <3>1, <3>2 DEF SInv, HandlersFit
  <2>4. ~Leaving(m)'
    BY <1>2, <1>4 DEF Leaving
  <2>5. \A x \in Agents : \A b \in stateConn'[x] : x # b /\ Known(x, b)' /\ ~Leaving(x)'
    BY <1>1, <1>4, <1>5, <2>1, <2>2, <2>3, <2>4 DEF SInv, NothingElse, Leaving
  <2> QED BY <1>4, <2>1, <2>2, <2>5 DEF SInv, NothingElse
<1> QED BY <1>8, <1>9, <1>10, <1>11, <1>12, <1>13, <1>14, <1>15, <1>16, <1>17 DEF SInv

LEMMA HandlerDataS ==
    ASSUME SInv, TypeOK', NEW h \in handlers, HandlerData(h)
    PROVE  SInv'
<1> USE DEF store, join, stuck, curve
<1> DEFINE m == h.at
           j == h.from
<1>1. m \in Agents /\ j \in Agents /\ m # j /\ InGroup(m)
  BY DEF SInv, TypeOK, Handlers, HandlersFit
<1>2. pc[m] = "idle"
  <2>1. Busy(j)
    BY DEF Busy
  <2> QED BY <1>1, <2>1, BusyAlone
<1>3. group[m] = "full"
  BY <1>1 DEF SInv, GroupFits
<1>4. /\ handlers' = handlers \ {h}
      /\ dataConn' = [dataConn EXCEPT ![m] = IF j \in Publishers THEN @ \cup {j} ELSE @]
      /\ subs' = [subs EXCEPT ![m] = @ \cup {j}]
      /\ UNCHANGED <<pc, inv, store, join, refs, stateConn, srvKey, crossed, links,
                     acked, statuses, stuck>>
  BY <1>3 DEF HandlerData, ConnectData
<1>5. /\ dataConn'[m] = IF j \in Publishers THEN dataConn[m] \cup {j} ELSE dataConn[m]
      /\ \A x \in Agents : x # m => dataConn'[x] = dataConn[x]
      /\ subs'[m] = subs[m] \cup {j}
      /\ \A x \in Agents : x # m => subs'[x] = subs[x]
  <2>1. dataConn \in [Agents -> SUBSET Agents] /\ subs \in [Agents -> SUBSET Agents]
    BY DEF SInv, TypeOK
  <2>2. /\ dataConn'[m] = IF j \in Publishers THEN dataConn[m] \cup {j} ELSE dataConn[m]
        /\ \A x \in Agents : x # m => dataConn'[x] = dataConn[x]
    BY <1>1, <1>4, <2>1
  <2>3. /\ subs'[m] = subs[m] \cup {j}
        /\ \A x \in Agents : x # m => subs'[x] = subs[x]
    BY <1>1, <1>4, <2>1
  <2> QED BY <2>2, <2>3
<1>6. /\ Sound' /\ NotYetIn' /\ Founded' /\ ListsMembers' /\ AllListed' /\ GroupFits'
      /\ ListExact' /\ AnswersFit' /\ StatusesFit' /\ StateFits' /\ AckedHears'
      /\ LeaverHeard'
  BY <1>4, Frames DEF SInv
<1>7. OneBusy'
  BY <1>4 DEF SInv, OneBusy, Busy
<1>8. OneInv'
  BY <1>4 DEF SInv, OneInv
<1>9. HandlersFit'
  BY <1>4 DEF SInv, HandlersFit, InGroup
<1>10. DataFits'
  <2>1. \A x, y \in Agents : Subscribed(x, y)' <=> Subscribed(x, y)
    BY <1>4 DEF Subscribed, Reaches, Adding
  <2>2. \A x, y \in Agents : Handling(x, y) => Handling(x, y)' \/ (x = m /\ y = j)
    BY <1>4 DEF Handling
  <2>3. \A x \in Agents : dataConn[x] \subseteq dataConn'[x] /\ subs[x] \subseteq subs'[x]
    BY <1>5
  <2>4. j \in subs'[m] /\ (j \in Publishers => j \in dataConn'[m])
    BY <1>5
  <2> QED BY <1>4, <2>1, <2>2, <2>3, <2>4 DEF SInv, DataFits
<1>11. NothingElse'
  <2>1. \A x, y \in Agents : Known(x, y)' <=> Known(x, y)
    BY <1>4 DEF Known, Adding
  <2>2. \A x \in Agents : stateConn[x] \subseteq Agents /\ dataConn[x] \subseteq Agents
                          /\ subs[x] \subseteq Agents
    BY DEF SInv, TypeOK
  <2>3. Known(m, j)
    <3>1. CASE pc[j] \in {"subscribe", "wait"}
      BY <3>1 DEF Known, SInv, HandlersFit
    <3>2. CASE pc[j] = "idle" /\ InGroup(j)
      BY <1>1, <3>2 DEF Known, SInv, AllListed
    <3> QED BY <3>1, <3>2 DEF SInv, HandlersFit
  <2>4. \A x \in Agents : \A b \in dataConn'[x] :
           /\ x # b /\ Known(x, b)' /\ b \in Publishers
           /\ pc'[x] \notin {"leaveNotify", "leaveDelete"}
    BY <1>1, <1>2, <1>4, <1>5, <2>1, <2>2, <2>3 DEF SInv, NothingElse
  <2>5. \A x \in Agents : \A b \in subs'[x] : x # b /\ Known(x, b)'
    BY <1>1, <1>5, <2>1, <2>2, <2>3 DEF SInv, NothingElse
  <2>6. \A x \in Agents : \A b \in stateConn'[x] : x # b /\ Known(x, b)' /\ ~Leaving(x)'
    BY <1>4, <2>1, <2>2 DEF SInv, NothingElse, Leaving
  <2> QED BY <2>4, <2>5, <2>6 DEF NothingElse
<1> QED BY <1>6, <1>7, <1>8, <1>9, <1>10, <1>11 DEF SInv

LEMMA EstablishS ==
    ASSUME SInv, TypeOK', NEW a \in Agents, NEW m \in Agents, Establish(a, m)
    PROVE  SInv'
<1> USE DEF store, join, stuck, curve
<1>1. /\ m \in stateConn[a] /\ links' = links \cup {<<a, m>>}
      /\ UNCHANGED <<pc, inv, store, join, refs, stateConn, srvKey, crossed, dataConn, subs,
                     acked, handlers, statuses, stuck>>
  BY DEF Establish
<1>2. Sound'
  BY <1>1 DEF SInv, Sound, NoneBroken
<1>3. AckedHears' /\ LeaverHeard'
  BY <1>1 DEF SInv, AckedHears, LeaverHeard, Others, Members
<1> QED BY <1>1, <1>2, <1>3, Frames DEF SInv
-----------------------------------------------------------------------------
(* Statuses *)

LEMMA AddMemberEffect ==
    ASSUME SInv, NEW s \in statuses, AddMember(s)
    PROVE  /\ s.to \in Agents /\ s.from \in Agents /\ s.to # s.from
           /\ InGroup(s.to) /\ InGroup(s.from) /\ s.active
           /\ view'[s.to][s.from] = 1
           /\ \A x, y \in Agents : x # s.to \/ y # s.from => view'[x][y] = view[x][y]
           /\ \A x \in Agents : InGroup(x)' <=> InGroup(x)
           /\ \A x \in Agents : pc[x] = "idle"
           /\ \A t \in statuses : t.active /\ t.from = s.from
           /\ statuses' = statuses \ {s}
           /\ UNCHANGED <<pc, inv, group, join, sockets, acked, handlers, stuck>>
<1> DEFINE m == s.to
           j == s.from
           v == [Empty EXCEPT ![j] = s.inv]
<1>1. /\ m \in Agents /\ j \in Agents /\ m # j /\ InGroup(m) /\ InGroup(j)
      /\ s.active /\ s.inv = 1 /\ pc[j] = "idle" /\ group[m] = "full"
  BY DEF AddMember, SInv, TypeOK, Statuses, StatusesFit, OneInv, GroupFits
<1>2. /\ v[j] = 1 /\ \A x \in Agents : x # j => v[x] = 0
  BY <1>1 DEF Empty
<1>3. /\ view' = [view EXCEPT ![m] = [x \in Agents |-> IF v[x] # 0 THEN v[x] ELSE view[m][x]]]
      /\ group' = group
      /\ statuses' = statuses \ {s}
      /\ UNCHANGED <<pc, inv, join, sockets, acked, handlers, stuck>>
  BY <1>1 DEF AddMember, AddMembrs, SInv, TypeOK
<1> HIDE DEF v
<1>4. /\ view'[m][j] = 1
      /\ \A x, y \in Agents : x # m \/ y # j => view'[x][y] = view[x][y]
  BY <1>1, <1>2, <1>3 DEF SInv, TypeOK
<1>5. \A x \in Agents : InGroup(x)' <=> InGroup(x)
  BY <1>1, <1>4 DEF InGroup
<1>6. /\ \A x \in Agents : pc[x] = "idle"
      /\ \A t \in statuses : t.from = j
  <2>1. Busy(j)
    BY DEF Busy
  <2> QED BY <1>1, <2>1, BusyAlone
<1>7. \A t \in statuses : t.active
  BY <1>1, <1>6 DEF SInv, StatusesFit
<1> QED BY <1>1, <1>3, <1>4, <1>5, <1>6, <1>7

LEMMA AddMemberS ==
    ASSUME SInv, TypeOK', NEW s \in statuses, AddMember(s)
    PROVE  SInv'
<1> USE DEF join, sockets, curve, stuck
<1> DEFINE m == s.to
           j == s.from
<1>1. /\ m \in Agents /\ j \in Agents /\ m # j /\ InGroup(m) /\ InGroup(j)
      /\ s.active /\ pc[j] = "idle"
  BY AddMemberEffect
<1>2. /\ statuses' = statuses \ {s}
      /\ UNCHANGED <<pc, inv, group, join, sockets, acked, handlers, stuck>>
  BY AddMemberEffect
<1>3. /\ view'[m][j] = 1
      /\ \A x, y \in Agents : x # m \/ y # j => view'[x][y] = view[x][y]
  BY AddMemberEffect
<1>4. /\ \A x \in Agents : InGroup(x)' <=> InGroup(x)
      /\ \A x \in Agents : pc[x] = "idle"
      /\ \A t \in statuses : t.active /\ t.from = j
  BY AddMemberEffect
<1>5. \A x, y \in Agents : /\ Adding(x, y)' => Adding(x, y)
                           /\ Adding(x, y) => Adding(x, y)' \/ (x = m /\ y = j)
                           /\ ~Removing(x, y) /\ ~Dropping(x, y)
                           /\ ~Removing(x, y)' /\ ~Dropping(x, y)'
  BY <1>2, <1>4 DEF Adding, Removing, Dropping
<1>6. Sound' /\ ListExact' /\ AnswersFit' /\ AckedHears' /\ LeaverHeard'
  <2>1. Sound' /\ AnswersFit' /\ AckedHears'
    BY <1>2, Frames DEF SInv
  <2>2. ListExact' /\ LeaverHeard'
    BY <1>2, <1>4 DEF ListExact, LeaverHeard, Joining
  <2> QED BY <2>1, <2>2
<1>7. OneBusy'
  BY <1>2 DEF SInv, OneBusy, Busy
<1>8. OneInv'
  BY <1>2, <1>3 DEF SInv, OneInv
<1>9. NotYetIn' /\ Founded' /\ GroupFits'
  BY <1>2, <1>4 DEF SInv, NotYetIn, Founded, GroupFits, Joining
<1>10. ListsMembers' /\ AllListed'
  <2>1. ListsMembers'
    BY <1>1, <1>2, <1>3, <1>4, <1>5 DEF SInv, ListsMembers
  <2>2. AllListed'
    BY <1>1, <1>2, <1>3, <1>4, <1>5 DEF SInv, AllListed
  <2> QED BY <2>1, <2>2
<1>11. HandlersFit'
  <2>1. \A h \in handlers : h.at \in Agents /\ h.from \in Agents
    BY DEF SInv, TypeOK, Handlers
  <2> QED BY <1>2, <1>4, <2>1 DEF SInv, HandlersFit
<1>12. StatusesFit'
  <2>1. \A t \in statuses : t.to \in Agents /\ t.from \in Agents
    BY DEF SInv, TypeOK, Statuses
  <2> QED BY <1>2, <1>4, <2>1 DEF SInv, StatusesFit
<1>13. \A x, y \in Agents : Reaches(x, y)' => Reaches(x, y)
  <2>1. Adding(m, j)
    BY <1>1 DEF Adding
  <2> QED BY <1>2, <1>3, <1>5, <2>1 DEF Reaches
<1>14. StateFits'
  BY <1>2, <1>5, <1>13 DEF SInv, StateFits, Leaving
<1>15. DataFits'
  BY <1>2, <1>13 DEF SInv, DataFits, Subscribed, Handling
<1>16. NothingElse'
  <2>1. \A x, y \in Agents : Known(x, y) => Known(x, y)'
    BY <1>2, <1>3, <1>5 DEF Known
  <2>2. \A x \in Agents : stateConn[x] \subseteq Agents /\ dataConn[x] \subseteq Agents
                          /\ subs[x] \subseteq Agents
    BY DEF SInv, TypeOK
  <2> QED BY <1>2, <2>1, <2>2 DEF SInv, NothingElse, Leaving
<1> QED BY <1>6, <1>7, <1>8, <1>9, <1>10, <1>11, <1>12, <1>14, <1>15, <1>16 DEF SInv

\* The receiver is connected to the leaver until it handles its status.
LEMMA RemoveStateS ==
    ASSUME SInv, TypeOK', NEW s \in statuses, RemoveState(s)
    PROVE  SInv'
<1> USE DEF store, join
<1> DEFINE m == s.to
           b == s.from
           done == [s EXCEPT !.step = "disconnected"]
<1>1. /\ m \in Agents /\ b \in Agents /\ m # b /\ ~s.active /\ s.step = "sent"
      /\ pc[b] = "leaveDelete" \/ (pc[b] = "idle" /\ ~InGroup(b))
      /\ view[m][b] # 0
      /\ b \in stateConn[m]
      /\ done.from = b /\ done.to = m /\ ~done.active /\ done.inv = 1
      /\ done.step = "disconnected"
  BY DEF RemoveState, SInv, TypeOK, Statuses, StatusesFit, OneInv
<1>2. /\ handlers = {} /\ \A x \in Agents : x # b => pc[x] = "idle"
      /\ \A t \in statuses : t.from = b /\ t.to \in Agents /\ ~t.active
  <2>1. Busy(b)
    BY DEF Busy
  <2>2. /\ \A x \in Agents : x # b => pc[x] = "idle"
        /\ \A t \in statuses : t.from = b /\ t.to \in Agents
        /\ \A h \in handlers : h.from = b
    BY <1>1, <2>1, BusyAlone
  <2>3. \A t \in statuses : ~t.active
    BY <1>1, <2>2 DEF SInv, StatusesFit
  <2>4. handlers = {}
    BY <1>1, <2>2 DEF SInv, HandlersFit
  <2> QED BY <2>2, <2>3, <2>4
<1>3. /\ stateConn' = [stateConn EXCEPT ![m] = @ \ {b}]
      /\ links' = links \ ({m} \X {b})
      /\ crossed' = {}
      /\ statuses' = (statuses \ {s}) \cup {done}
      /\ UNCHANGED <<pc, inv, store, join, refs, srvKey, dataConn, subs,
                     acked, handlers, blocked, crashed>>
  BY <1>1 DEF RemoveState, DisconnectState, SInv, Sound
<1>4. /\ stateConn'[m] = stateConn[m] \ {b}
      /\ \A x \in Agents : x # m => stateConn'[x] = stateConn[x]
  BY <1>1, <1>3 DEF SInv, TypeOK
<1> HIDE DEF done
<1>5. \A x, y \in Agents : /\ ~Adding(x, y) /\ ~Adding(x, y)'
                           /\ Removing(x, y)' <=> Removing(x, y)
                           /\ Dropping(x, y) => Dropping(x, y)'
  BY <1>1, <1>2, <1>3 DEF Adding, Removing, Dropping
<1>6. Dropping(m, b)'
  BY <1>1, <1>3 DEF Dropping
<1>7. /\ NotYetIn' /\ Founded' /\ GroupFits' /\ ListExact' /\ AnswersFit' /\ HandlersFit'
  BY <1>3, Frames DEF SInv
<1>8. OneBusy'
  <2>1. \A x \in Agents : (\E t \in statuses' : t.from = x) => \E t \in statuses : t.from = x
    BY <1>1, <1>3
  <2> QED BY <1>3, <2>1 DEF SInv, OneBusy, Busy
<1>9. Sound'
  BY <1>1, <1>3, <1>4 DEF SInv, Sound, NoneBroken
<1>10. OneInv'
  BY <1>1, <1>3 DEF SInv, OneInv
<1>11. ListsMembers' /\ AllListed'
  BY <1>3, <1>5 DEF SInv, ListsMembers, AllListed, InGroup
<1>12. StatusesFit'
  <2> SUFFICES ASSUME NEW t \in statuses'
               PROVE  /\ t.from # t.to /\ ~t.active
                      /\ pc'[t.from] = "leaveDelete" \/ (pc'[t.from] = "idle" /\ ~InGroup(t.from)')
                      /\ view'[t.to][t.from] # 0
                      /\ t.step = "sent" <=> t.from \in stateConn'[t.to]
    BY DEF StatusesFit
  <2>1. CASE t = done
    BY <1>1, <1>3, <1>4, <2>1 DEF InGroup
  <2>2. CASE t \in statuses /\ t # s
    <3>1. /\ t.from = b /\ t.to \in Agents /\ ~t.active /\ t.inv = 1 /\ t.from # t.to
          /\ view[t.to][b] # 0 /\ (t.step = "sent" <=> b \in stateConn[t.to])
      BY <1>2, <2>2 DEF SInv, StatusesFit, OneInv
    <3>2. t.to # m
      <4>1. t \in Statuses /\ s \in Statuses
        BY <2>2 DEF SInv, TypeOK
      <4>2. s.inv = 1
        BY DEF SInv, OneInv
      <4> QED BY <1>1, <2>2, <3>1, <4>1, <4>2 DEF Statuses
    <3>3. stateConn'[t.to] = stateConn[t.to]
      BY <1>4, <3>1, <3>2
    <3>4. view'[t.to][b] # 0 /\ pc'[b] = pc[b] /\ (InGroup(b)' <=> InGroup(b))
      BY <1>3, <3>1 DEF InGroup
    <3> QED BY <1>1, <3>1, <3>3, <3>4
  <2> QED BY <1>3, <2>1, <2>2
<1>13. StateFits'
  <2>1. \A x, y \in Agents : Reaches(x, y)' => Reaches(x, y)
    BY <1>3, <1>5 DEF Reaches
  <2> QED BY <1>3, <1>4, <1>5, <1>6, <2>1 DEF SInv, StateFits, Leaving
<1>14. AckedHears' /\ LeaverHeard'
  BY <1>1, <1>2, <1>3 DEF AckedHears, LeaverHeard
<1>15. DataFits'
  <2>1. \A x, y \in Agents : Subscribed(x, y)' => Subscribed(x, y)
    BY <1>3, <1>5 DEF Subscribed, Reaches
  <2> QED BY <1>3, <2>1 DEF SInv, DataFits, Handling
<1>16. NothingElse'
  <2>1. \A x, y \in Agents : Known(x, y)' <=> Known(x, y)
    BY <1>3, <1>5 DEF Known
  <2>2. \A x \in Agents : stateConn'[x] \subseteq stateConn[x]
    BY <1>4
  <2>3. \A x \in Agents : stateConn[x] \subseteq Agents /\ dataConn[x] \subseteq Agents
                          /\ subs[x] \subseteq Agents
    BY DEF SInv, TypeOK
  <2>4. \A x \in Agents : \A y \in stateConn'[x] : x # y /\ Known(x, y)' /\ ~Leaving(x)'
    BY <1>3, <2>1, <2>2, <2>3 DEF SInv, NothingElse, Leaving
  <2> QED BY <1>3, <2>1, <2>3, <2>4 DEF SInv, NothingElse
<1> QED BY <1>7, <1>8, <1>9, <1>10, <1>11, <1>12, <1>13, <1>14, <1>15, <1>16 DEF SInv

LEMMA RemoveMemberEffect ==
    ASSUME SInv, NEW s \in statuses, RemoveMember(s)
    PROVE  /\ s.to \in Agents /\ s.from \in Agents /\ s.to # s.from
           /\ ~s.active /\ InGroup(s.to)
           /\ pc[s.from] = "leaveDelete" \/ (pc[s.from] = "idle" /\ ~InGroup(s.from))
           /\ s.from \notin stateConn[s.to]
           /\ handlers = {} /\ \A x \in Agents : x # s.from => pc[x] = "idle"
           /\ \A t \in statuses : t.from = s.from /\ t.to \in Agents /\ ~t.active
           /\ \A t \in statuses : t.to = s.to => t = s
           /\ statuses' = statuses \ {s}
           /\ view'[s.to][s.from] = 0
           /\ \A x, y \in Agents : x # s.to \/ y # s.from => view'[x][y] = view[x][y]
           /\ \A x \in Agents :
                 /\ dataConn'[x] = IF x = s.to THEN dataConn[x] \ {s.from} ELSE dataConn[x]
                 /\ subs'[x] = IF x = s.to THEN subs[x] \ {s.from} ELSE subs[x]
           /\ \A x \in Agents : InGroup(x)' <=> InGroup(x)
           /\ UNCHANGED <<pc, inv, group, join, refs, stateConn, srvKey, crossed, links,
                          acked, handlers, blocked, crashed>>
<1> USE DEF join, stuck, curve
<1> DEFINE m == s.to
           b == s.from
<1>1. /\ m \in Agents /\ b \in Agents /\ m # b /\ ~s.active /\ s.step = "disconnected"
      /\ pc[b] = "leaveDelete" \/ (pc[b] = "idle" /\ ~InGroup(b))
      /\ view[m][b] # 0 /\ b \notin stateConn[m] /\ s.inv = 1
  <2>1. ~s.active
    BY DEF RemoveMember, SInv, StatusesFit
  <2> QED BY <2>1 DEF RemoveMember, SInv, TypeOK, Statuses, StatusesFit, OneInv
<1>2. /\ handlers = {} /\ \A x \in Agents : x # b => pc[x] = "idle"
      /\ \A t \in statuses : t.from = b /\ t.to \in Agents /\ ~t.active
  <2>1. Busy(b)
    BY DEF Busy
  <2>2. /\ \A x \in Agents : x # b => pc[x] = "idle"
        /\ \A t \in statuses : t.from = b /\ t.to \in Agents
        /\ \A h \in handlers : h.from = b
    BY <1>1, <2>1, BusyAlone
  <2>3. \A t \in statuses : ~t.active
    BY <1>1, <2>2 DEF SInv, StatusesFit
  <2>4. handlers = {}
    BY <1>1, <2>2 DEF SInv, HandlersFit
  <2> QED BY <2>2, <2>3, <2>4
<1>3. /\ group[m] = "full" /\ InGroup(m) /\ Members(view[m]) \ {b} # {}
      /\ b \in Publishers => b \in dataConn[m]
  <2>1. InGroup(m)
    BY <1>1 DEF SInv, ListsMembers
  <2>2. Subscribed(m, b) /\ ~Handling(m, b) /\ pc[m] = "idle"
    BY <1>1, <1>2 DEF Subscribed, Reaches, Handling
  <2>3. m \in Members(view[m]) \ {b}
    BY <1>1, <2>1 DEF Members, InGroup
  <2> QED BY <1>1, <2>1, <2>2, <2>3 DEF SInv, GroupFits, DataFits
<1>4. /\ statuses' = statuses \ {s}
      /\ dataConn' = [dataConn EXCEPT ![m] = @ \ {b}]
      /\ subs' = [subs EXCEPT ![m] = @ \ {b}]
      /\ view' = [view EXCEPT ![m] = [view[m] EXCEPT ![b] = 0]]
      /\ UNCHANGED <<pc, inv, group, join, refs, stateConn, srvKey, crossed,
                     links, acked, handlers, blocked, crashed>>
  BY <1>3 DEF RemoveMember
<1>5. /\ view'[m][b] = 0
      /\ \A x, y \in Agents : x # m \/ y # b => view'[x][y] = view[x][y]
      /\ \A x \in Agents : /\ dataConn'[x] = IF x = m THEN dataConn[x] \ {b} ELSE dataConn[x]
                           /\ subs'[x] = IF x = m THEN subs[x] \ {b} ELSE subs[x]
      /\ \A x \in Agents : InGroup(x)' <=> InGroup(x)
  <2>1. /\ view'[m][b] = 0
        /\ \A x, y \in Agents : x # m \/ y # b => view'[x][y] = view[x][y]
    BY <1>1, <1>4 DEF SInv, TypeOK, Views
  <2>2. \A x \in Agents : /\ dataConn'[x] = IF x = m THEN dataConn[x] \ {b} ELSE dataConn[x]
                          /\ subs'[x] = IF x = m THEN subs[x] \ {b} ELSE subs[x]
    <3>1. \A x \in Agents : dataConn'[x] = IF x = m THEN dataConn[x] \ {b} ELSE dataConn[x]
      BY <1>1, <1>4 DEF SInv, TypeOK
    <3>2. \A x \in Agents : subs'[x] = IF x = m THEN subs[x] \ {b} ELSE subs[x]
      <4>1. subs \in [Agents -> SUBSET Agents]
        BY DEF SInv, TypeOK
      <4> QED BY <1>1, <1>4, <4>1
    <3> QED BY <3>1, <3>2
  <2>3. \A x \in Agents : InGroup(x)' <=> InGroup(x)
    BY <1>1, <2>1 DEF InGroup
  <2> QED BY <2>1, <2>2, <2>3
<1>6. \A t \in statuses : t.to = m => t = s
  <2> SUFFICES ASSUME NEW t \in statuses, t.to = m PROVE t = s
    OBVIOUS
  <2>1. t \in Statuses /\ s \in Statuses
    BY DEF SInv, TypeOK
  <2>2. t.from = b /\ ~t.active /\ t.inv = 1 /\ t.step # "sent"
    BY <1>1, <1>2 DEF SInv, StatusesFit, OneInv
  <2> QED BY <1>1, <2>1, <2>2 DEF Statuses
<1> QED BY <1>1, <1>2, <1>3, <1>4, <1>5, <1>6

LEMMA RemoveMemberS ==
    ASSUME SInv, TypeOK', NEW s \in statuses, RemoveMember(s)
    PROVE  SInv'
<1> USE DEF join, stuck, curve
<1> DEFINE m == s.to
           b == s.from
<1>1. /\ m \in Agents /\ b \in Agents /\ m # b /\ ~s.active
      /\ pc[b] = "leaveDelete" \/ (pc[b] = "idle" /\ ~InGroup(b))
      /\ b \notin stateConn[m]
  BY RemoveMemberEffect
<1>2. /\ handlers = {} /\ \A x \in Agents : x # b => pc[x] = "idle"
      /\ \A t \in statuses : t.from = b /\ t.to \in Agents /\ ~t.active
  BY RemoveMemberEffect
<1>3. \A t \in statuses : t.to = m => t = s
  BY RemoveMemberEffect
<1>4. /\ statuses' = statuses \ {s}
      /\ UNCHANGED <<pc, inv, group, join, refs, stateConn, srvKey, crossed,
                     links, acked, handlers, blocked, crashed>>
  BY RemoveMemberEffect
<1>5. /\ view'[m][b] = 0
      /\ \A x, y \in Agents : x # m \/ y # b => view'[x][y] = view[x][y]
      /\ \A x \in Agents : /\ dataConn'[x] = IF x = m THEN dataConn[x] \ {b} ELSE dataConn[x]
                           /\ subs'[x] = IF x = m THEN subs[x] \ {b} ELSE subs[x]
      /\ \A x \in Agents : InGroup(x)' <=> InGroup(x)
  BY RemoveMemberEffect
<1>6. \A x, y \in Agents : /\ ~Adding(x, y) /\ ~Adding(x, y)'
                           /\ x # m => (Removing(x, y) <=> Removing(x, y)')
                           /\ x # m => (Dropping(x, y) <=> Dropping(x, y)')
                           /\ y # b => ~Removing(x, y) /\ ~Dropping(x, y)
  BY <1>1, <1>2, <1>4 DEF Adding, Removing, Dropping
<1>7. /\ Sound' /\ AnswersFit' /\ AckedHears'
  BY <1>4, Frames DEF SInv
<1>8. OneBusy'
  BY <1>4 DEF SInv, OneBusy, Busy
<1>9. OneInv'
  BY <1>4, <1>5 DEF SInv, OneInv
<1>10. NotYetIn' /\ Founded' /\ GroupFits'
  BY <1>4, <1>5 DEF SInv, NotYetIn, Founded, GroupFits, Joining
<1>11. ListsMembers'
  BY <1>1, <1>4, <1>5, <1>6 DEF SInv, ListsMembers
<1>12. AllListed'
  BY <1>1, <1>4, <1>5, <1>6 DEF SInv, AllListed
<1>13. ListExact' /\ LeaverHeard'
  BY <1>1, <1>2, <1>4 DEF ListExact, LeaverHeard, Joining
<1>14. HandlersFit'
  BY <1>2, <1>4 DEF HandlersFit
<1>15. StatusesFit'
  <2> SUFFICES ASSUME NEW t \in statuses, t # s
               PROVE  /\ t.from # t.to /\ ~t.active
                      /\ pc'[t.from] = "leaveDelete" \/ (pc'[t.from] = "idle" /\ ~InGroup(t.from)')
                      /\ view'[t.to][t.from] # 0
                      /\ t.step = "sent" <=> t.from \in stateConn'[t.to]
    BY <1>4 DEF StatusesFit
  <2>1. /\ t.from = b /\ t.to \in Agents /\ ~t.active /\ t.from # t.to
        /\ view[t.to][b] # 0 /\ (t.step = "sent" <=> b \in stateConn[t.to])
    BY <1>2 DEF SInv, StatusesFit
  <2>2. t.to # m
    BY <1>3
  <2>3. view'[t.to][b] # 0 /\ pc'[b] = pc[b] /\ (InGroup(b)' <=> InGroup(b))
    BY <1>1, <1>4, <1>5, <2>1, <2>2
  <2> QED BY <1>1, <1>4, <2>1, <2>3
<1>16. \A x, y \in Agents : Reaches(x, y)' => Reaches(x, y) /\ (x # m \/ y # b)
  BY <1>1, <1>2, <1>4, <1>5, <1>6 DEF Reaches
<1>17. StateFits'
  BY <1>4, <1>6, <1>16 DEF SInv, StateFits, Leaving
<1>18. DataFits'
  <2>1. \A x, y \in Agents : Subscribed(x, y)' => Subscribed(x, y) /\ (x # m \/ y # b)
    BY <1>1, <1>4, <1>16 DEF Subscribed
  <2> QED BY <1>4, <1>5, <2>1 DEF SInv, DataFits, Handling
<1>19. NothingElse'
  <2>1. \A x, y \in Agents : Known(x, y) => Known(x, y)' \/ (x = m /\ y = b)
    BY <1>4, <1>5, <1>6 DEF Known
  <2>2. \A x \in Agents : stateConn[x] \subseteq Agents /\ dataConn[x] \subseteq Agents
                          /\ subs[x] \subseteq Agents
    BY DEF SInv, TypeOK
  <2>3. \A x \in Agents : \A y \in stateConn'[x] : x # y /\ Known(x, y)' /\ ~Leaving(x)'
    BY <1>1, <1>4, <2>1, <2>2 DEF SInv, NothingElse, Leaving
  <2>4. \A x \in Agents : \A y \in dataConn'[x] :
           /\ x # y /\ Known(x, y)' /\ y \in Publishers
           /\ pc'[x] \notin {"leaveNotify", "leaveDelete"}
    <3> SUFFICES ASSUME NEW x \in Agents, NEW y \in dataConn'[x]
                 PROVE  /\ x # y /\ Known(x, y)' /\ y \in Publishers
                        /\ pc'[x] \notin {"leaveNotify", "leaveDelete"}
      OBVIOUS
    <3>1. y \in dataConn[x] /\ y \in Agents /\ (x # m \/ y # b)
      BY <1>5, <2>2
    <3> QED BY <1>4, <2>1, <3>1 DEF SInv, NothingElse
  <2>5. \A x \in Agents : \A y \in subs'[x] : x # y /\ Known(x, y)'
    <3> SUFFICES ASSUME NEW x \in Agents, NEW y \in subs'[x]
                 PROVE  x # y /\ Known(x, y)'
      OBVIOUS
    <3>1. y \in subs[x] /\ y \in Agents /\ (x # m \/ y # b)
      BY <1>5, <2>2
    <3> QED BY <2>1, <3>1 DEF SInv, NothingElse
  <2> QED BY <2>3, <2>4, <2>5 DEF NothingElse
<1> QED BY <1>7, <1>8, <1>9, <1>10, <1>11, <1>12, <1>13, <1>14, <1>15, <1>17, <1>18,
           <1>19 DEF SInv
-----------------------------------------------------------------------------
(* Leave *)

LEMMA LeaveDataS ==
    ASSUME SInv, TypeOK', NEW a \in Agents, LeaveData(a)
    PROVE  SInv'
<1> USE DEF store, join, curve
<1> DEFINE pubs == Pubs(a)
<1>1. /\ pc[a] = "leaveData"
      /\ UNCHANGED <<inv, store, join, refs, stateConn, curve, links, subs, acked,
                     handlers, statuses, wedged, blocked>>
  BY DEF LeaveData
<1>2. handlers = {} /\ statuses = {} /\ \A x \in Agents : x # a => pc[x] = "idle"
  BY <1>1, BusyAlone DEF Busy
<1>3. \A x \in pubs : x \in Agents /\ x # a /\ view[a][x] # 0 /\ x \in Publishers
  BY DEF Pubs, Others, Members
<1>4. pubs # {} => group[a] = "full"
  BY <1>3 DEF SInv, ListsMembers, GroupFits
<1>5. pubs \subseteq dataConn[a]
  <2> SUFFICES ASSUME NEW x \in pubs PROVE x \in dataConn[a]
    OBVIOUS
  <2>1. Subscribed(a, x) /\ ~Handling(a, x)
    BY <1>2, <1>3 DEF Subscribed, Reaches, Handling
  <2> QED BY <1>1, <1>3, <2>1 DEF SInv, DataFits
<1>6. dataConn[a] \subseteq pubs
  <2> SUFFICES ASSUME NEW x \in dataConn[a] PROVE x \in pubs
    OBVIOUS
  <2>1. x \in Agents /\ x # a /\ Known(a, x) /\ x \in Publishers
    BY DEF SInv, TypeOK, NothingElse
  <2>2. view[a][x] # 0
    BY <1>1, <1>2, <2>1 DEF Known, Adding
  <2> QED BY <2>1, <2>2 DEF Pubs, Others, Members
<1>7. /\ dataConn' = [dataConn EXCEPT ![a] = @ \ pubs]
      /\ pc' = [pc EXCEPT ![a] = "leaveNotify"]
      /\ UNCHANGED crashed
  BY <1>4, <1>5 DEF LeaveData, NoTopic, UnsubscribeAllData, Disconnected
<1>8. /\ dataConn'[a] = {} /\ \A x \in Agents : x # a => dataConn'[x] = dataConn[x]
      /\ pc'[a] = "leaveNotify" /\ \A x \in Agents : x # a => pc'[x] = "idle"
  <2>1. dataConn'[a] = {} /\ \A x \in Agents : x # a => dataConn'[x] = dataConn[x]
    BY <1>6, <1>7 DEF SInv, TypeOK
  <2>2. pc'[a] = "leaveNotify" /\ \A x \in Agents : x # a => pc'[x] = "idle"
    BY <1>2, <1>7 DEF SInv, TypeOK
  <2> QED BY <2>1, <2>2
<1> HIDE DEF pubs
<1>9. OneBusy'
  BY <1>1, <1>2, <1>8 DEF OneBusy, Busy
<1>10. Sound' /\ OneInv'
  BY <1>1, <1>7, Frames DEF SInv
<1>11. NotYetIn' /\ Founded' /\ GroupFits'
  <2>1. NotYetIn'
    BY <1>1, <1>2, <1>8 DEF SInv, NotYetIn, InGroup
  <2>2. Founded'
    BY <1>1, <1>8 DEF SInv, Founded, InGroup, Joining
  <2>3. GroupFits'
    BY <1>1, <1>2, <1>8 DEF SInv, GroupFits, InGroup
  <2> QED BY <2>1, <2>2, <2>3
<1>12. ListsMembers' /\ AllListed'
  BY <1>1, <1>2, <1>8 DEF SInv, ListsMembers, AllListed, InGroup, Adding, Removing
<1>13. ListExact' /\ AnswersFit' /\ AckedHears'
  BY <1>8 DEF ListExact, AnswersFit, AckedHears, Joining
<1>14. HandlersFit' /\ StatusesFit'
  BY <1>1, <1>2 DEF HandlersFit, StatusesFit
<1>15. \A x, y \in Agents : Reaches(x, y)' => Reaches(x, y)
  BY <1>1, <1>8 DEF Reaches, Adding
<1>16. StateFits'
  BY <1>1, <1>2, <1>8, <1>15 DEF SInv, StateFits, Leaving, Dropping
<1>17. LeaverHeard'
  <2>1. Others(a)' = Others(a)
    BY <1>1 DEF Others, Members
  <2> QED BY <1>1, <1>8, <2>1 DEF SInv, LeaverHeard
<1>18. DataFits'
  <2>1. \A x, y \in Agents : Subscribed(x, y)' => Subscribed(x, y)
    BY <1>8, <1>15 DEF Subscribed
  <2> QED BY <1>1, <1>2, <1>8, <2>1 DEF SInv, DataFits, Handling
<1>19. NothingElse'
  <2>1. \A x, y \in Agents : Known(x, y) => Known(x, y)'
    BY <1>1, <1>2 DEF Known, Adding
  <2>2. \A x \in Agents : stateConn[x] \subseteq Agents /\ dataConn[x] \subseteq Agents
                          /\ subs[x] \subseteq Agents
    BY DEF SInv, TypeOK
  <2>3. \A x \in Agents : \A y \in stateConn'[x] : x # y /\ Known(x, y)' /\ ~Leaving(x)'
    BY <1>1, <1>8, <2>1, <2>2 DEF SInv, NothingElse, Leaving
  <2>4. \A x \in Agents : \A y \in dataConn'[x] :
           /\ x # y /\ Known(x, y)' /\ y \in Publishers
           /\ pc'[x] \notin {"leaveNotify", "leaveDelete"}
    BY <1>8, <2>1, <2>2 DEF SInv, NothingElse
  <2> QED BY <1>1, <2>1, <2>2, <2>3, <2>4 DEF SInv, NothingElse
<1> QED BY <1>9, <1>10, <1>11, <1>12, <1>13, <1>14, <1>16, <1>17, <1>18, <1>19 DEF SInv

LEMMA LeaverIsHeard ==
    ASSUME SInv, NEW a \in Agents, pc[a] = "leaveNotify"
    PROVE  /\ {x \in Others(a) : Hears(x, a)} = Others(a)
           /\ \A x \in Others(a) :
                 x \in Agents /\ x # a /\ view[a][x] # 0 /\ a \in stateConn[x]
<1>1. \A x \in Others(a) : x \in Agents /\ x # a /\ view[a][x] # 0
  BY DEF Others, Members
<1>2. \A x \in Others(a) : <<x, a>> \in links /\ refs[x] > 0
  BY DEF SInv, LeaverHeard
<1> QED BY <1>1, <1>2 DEF Hears, Alive, SInv, Sound, NoneBroken

\* Everybody listed is told, and nobody else lists the leaver.
LEMMA LeaveNotifyS ==
    ASSUME SInv, TypeOK', NEW a \in Agents, LeaveNotify(a)
    PROVE  SInv'
<1> USE DEF store, join, sockets, curve, stuck
<1> DEFINE status(m) == [from |-> a, to |-> m, active |-> FALSE, inv |-> inv[a], step |-> "sent"]
           S == {x \in Others(a) : Hears(x, a)}
<1>1. /\ pc[a] = "leaveNotify"
      /\ UNCHANGED <<inv, store, join, sockets, acked, handlers, stuck>>
  BY DEF LeaveNotify
<1>2. handlers = {} /\ statuses = {} /\ \A x \in Agents : x # a => pc[x] = "idle"
  BY <1>1, BusyAlone DEF Busy
<1>3. \A x, y \in Agents : /\ ~Adding(x, y) /\ ~Removing(x, y) /\ ~Dropping(x, y)
                           /\ ~Handling(x, y) /\ ~Handling(x, y)'
  BY <1>1, <1>2 DEF Adding, Removing, Dropping, Handling
<1>4. Sound'
  BY <1>1, Frames DEF SInv
<1>5. \A x, y \in Agents : x # y =>
         /\ view[x][y] # 0 => InGroup(x) /\ InGroup(y)
         /\ InGroup(x) /\ InGroup(y) => view[x][y] # 0
  <2>1. \A x \in Agents : pc[x] \notin {"wait", "leaveDelete"}
    BY <1>1, <1>2
  <2> QED BY <1>3, <2>1 DEF SInv, ListsMembers, AllListed
<1>6. CASE Members(view[a]) = {} /\ pc' = [pc EXCEPT ![a] = "idle"] /\ UNCHANGED statuses
  <2>1. \A x \in Agents : pc'[x] = "idle"
    BY <1>2, <1>6 DEF SInv, TypeOK
  <2>2. \A x \in Agents : view[a][x] = 0
    BY <1>6 DEF Members
  <2>3. OneBusy'
    BY <1>1, <1>2, <1>6, <2>1 DEF OneBusy, Busy
  <2>4. OneInv'
    BY <1>1, <1>6, Frames DEF SInv
  <2>5. NotYetIn' /\ Founded' /\ GroupFits'
    <3>1. NotYetIn'
      BY <1>1, <2>1 DEF SInv, NotYetIn, InGroup
    <3>2. Founded'
      BY <1>1, <2>1 DEF SInv, Founded, InGroup, Joining
    <3>3. GroupFits'
      BY <1>1, <1>2, <2>1 DEF SInv, GroupFits, InGroup
    <3> QED BY <3>1, <3>2, <3>3
  <2>6. ListsMembers' /\ AllListed'
    BY <1>1, <1>5, <2>1 DEF ListsMembers, AllListed, InGroup
  <2>7. ListExact' /\ AnswersFit' /\ AckedHears' /\ LeaverHeard'
    BY <2>1 DEF ListExact, AnswersFit, AckedHears, LeaverHeard, Joining
  <2>8. HandlersFit' /\ StatusesFit'
    BY <1>1, <1>2, <1>6 DEF HandlersFit, StatusesFit
  <2>9. \A x, y \in Agents : Reaches(x, y)' => Reaches(x, y) /\ x # a
    BY <1>1, <1>2, <1>6, <2>1, <2>2 DEF Reaches, Adding
  <2>10. StateFits'
    BY <1>1, <1>2, <1>3, <1>6, <2>9 DEF SInv, StateFits, Leaving
  <2>11. DataFits'
    <3>1. \A x, y \in Agents : Subscribed(x, y)' => Subscribed(x, y) /\ x # a
      BY <2>1, <2>9 DEF Subscribed
    <3> QED BY <1>1, <1>2, <1>3, <3>1 DEF SInv, DataFits
  <2>12. NothingElse'
    <3>1. \A x, y \in Agents : Known(x, y) => Known(x, y)'
      BY <1>1, <1>2, <1>6 DEF Known, Adding
    <3>2. \A x \in Agents : stateConn[x] \subseteq Agents /\ dataConn[x] \subseteq Agents
                            /\ subs[x] \subseteq Agents
      BY DEF SInv, TypeOK
    <3>3. \A x \in Agents : ~Leaving(x)' /\ pc'[x] \notin {"leaveNotify", "leaveDelete"}
      BY <2>1 DEF Leaving
    <3> QED BY <1>1, <3>1, <3>2, <3>3 DEF SInv, NothingElse
  <2> QED BY <1>4, <2>3, <2>4, <2>5, <2>6, <2>7, <2>8, <2>10, <2>11, <2>12 DEF SInv
<1>7. CASE /\ Members(view[a]) # {} /\ pc' = [pc EXCEPT ![a] = "leaveDelete"]
           /\ statuses' = statuses \cup {status(m) : m \in S}
  <2>1. pc'[a] = "leaveDelete" /\ \A x \in Agents : x # a => pc'[x] = "idle"
    BY <1>2, <1>7 DEF SInv, TypeOK
  <2>2. InGroup(a)
    BY <1>5, <1>7 DEF Members, InGroup
  <2>3. inv[a] = 1
    BY <2>2 DEF SInv, NotYetIn, OneInv
  <2>4. /\ S = Others(a)
        /\ \A x \in Others(a) : x \in Agents /\ x # a /\ view[a][x] # 0 /\ a \in stateConn[x]
    BY <1>1, LeaverIsHeard
  <2>5. \A m \in S : /\ status(m).from = a /\ status(m).to = m /\ ~status(m).active
                     /\ status(m).inv = 1 /\ status(m).step = "sent"
    BY <2>3
  <2> HIDE DEF status, S
  <2>6. \A s \in statuses' : /\ s.from = a /\ s.to \in Others(a) /\ ~s.active
                             /\ s.inv = 1 /\ s.step = "sent"
    BY <1>2, <1>7, <2>4, <2>5
  <2>7. \A x, y \in Agents : /\ ~Adding(x, y)' /\ ~Dropping(x, y)'
                             /\ y = a /\ x \in Others(a) => Removing(x, y)'
    BY <1>7, <2>4, <2>5, <2>6 DEF Adding, Removing, Dropping
  <2>8. OneBusy'
    BY <1>1, <1>2, <2>1, <2>6 DEF OneBusy, Busy
  <2>9. OneInv'
    BY <1>1, <1>2, <2>6 DEF SInv, OneInv
  <2>10. NotYetIn' /\ Founded' /\ GroupFits'
    <3>1. NotYetIn'
      BY <1>1, <1>2, <2>1, <2>3 DEF SInv, NotYetIn, InGroup
    <3>2. Founded'
      BY <1>1, <2>1 DEF SInv, Founded, InGroup, Joining
    <3>3. GroupFits'
      BY <1>1, <1>2, <2>1 DEF SInv, GroupFits, InGroup
    <3> QED BY <3>1, <3>2, <3>3
  <2>11. ListsMembers'
    <3>1. \A x \in Agents : x # a /\ view[x][a] # 0 => x \in Others(a)
      BY <1>5 DEF Others, Members
    <3> QED BY <1>1, <1>5, <2>1, <2>7, <3>1 DEF ListsMembers, InGroup
  <2>12. AllListed'
    BY <1>1, <1>5 DEF AllListed, InGroup
  <2>13. ListExact' /\ AnswersFit' /\ AckedHears' /\ LeaverHeard'
    BY <2>1 DEF ListExact, AnswersFit, AckedHears, LeaverHeard, Joining
  <2>14. HandlersFit'
    BY <1>1, <1>2 DEF HandlersFit
  <2>15. StatusesFit'
    <3>1. \A x \in Others(a) : view[x][a] # 0
      BY <1>5, <2>2, <2>4
    <3> QED BY <1>1, <2>1, <2>4, <2>6, <3>1 DEF StatusesFit
  <2>16. \A x, y \in Agents : Reaches(x, y)' => Reaches(x, y)
    BY <1>1, <2>1, <2>7 DEF Reaches
  <2>17. StateFits'
    BY <1>1, <1>2, <1>3, <2>1, <2>16 DEF SInv, StateFits, Leaving
  <2>18. DataFits'
    <3>1. \A x, y \in Agents : Subscribed(x, y)' => Subscribed(x, y)
      BY <2>1, <2>16 DEF Subscribed
    <3> QED BY <1>1, <1>2, <1>3, <2>1, <3>1 DEF SInv, DataFits
  <2>19. NothingElse'
    <3>1. \A x, y \in Agents : Known(x, y) => Known(x, y)'
      BY <1>1, <1>2, <1>3 DEF Known
    <3>2. \A x \in Agents : stateConn[x] \subseteq Agents /\ dataConn[x] \subseteq Agents
                            /\ subs[x] \subseteq Agents
      BY DEF SInv, TypeOK
    <3>3. stateConn[a] = {} /\ dataConn[a] = {}
      BY <1>1 DEF SInv, NothingElse, Leaving
    <3>4. \A x \in Agents : x # a =>
             ~Leaving(x)' /\ pc'[x] \notin {"leaveNotify", "leaveDelete"}
      BY <2>1 DEF Leaving
    <3> QED BY <1>1, <3>1, <3>2, <3>3, <3>4 DEF SInv, NothingElse
  <2> QED BY <1>4, <2>8, <2>9, <2>10, <2>11, <2>12, <2>13, <2>14, <2>15, <2>17, <2>18,
             <2>19 DEF SInv
<1> QED BY <1>6, <1>7 DEF LeaveNotify, NotifyAll

LEMMA LeaveDeleteS ==
    ASSUME SInv, TypeOK', NEW a \in Agents, LeaveDelete(a)
    PROVE  SInv'
<1> USE DEF join, curve, stuck
<1>1. /\ pc[a] = "leaveDelete" /\ pc' = [pc EXCEPT ![a] = "idle"]
      /\ subs' = [subs EXCEPT ![a] = {}]
      /\ group' = [group EXCEPT ![a] = "nil"]
      /\ view' = [view EXCEPT ![a] = Empty]
      /\ UNCHANGED <<inv, join, refs, stateConn, srvKey, crossed, links, dataConn, acked,
                     handlers, statuses, stuck>>
  BY DEF LeaveDelete, Forget
<1>2. /\ handlers = {} /\ \A x \in Agents : x # a => pc[x] = "idle"
      /\ \A s \in statuses : s.from = a /\ s.to # a /\ s.to \in Agents
  BY <1>1, BusyAlone DEF Busy
<1>3. \A s \in statuses : ~s.active
  BY <1>1, <1>2 DEF SInv, StatusesFit
<1>4. /\ \A x \in Agents : pc'[x] = "idle"
      /\ \A x \in Agents : view'[a][x] = 0
      /\ \A x \in Agents : x # a => view'[x] = view[x] /\ group'[x] = group[x] /\ subs'[x] = subs[x]
      /\ group'[a] = "nil" /\ subs'[a] = {}
  <2>1. \A x \in Agents : pc'[x] = "idle"
    BY <1>1, <1>2 DEF SInv, TypeOK
  <2>2. /\ \A x \in Agents : view'[a][x] = 0
        /\ \A x \in Agents : x # a => view'[x] = view[x]
    BY <1>1 DEF SInv, TypeOK, Empty
  <2>3. group'[a] = "nil" /\ \A x \in Agents : x # a => group'[x] = group[x]
    BY <1>1 DEF SInv, TypeOK
  <2>4. subs'[a] = {} /\ \A x \in Agents : x # a => subs'[x] = subs[x]
    BY <1>1 DEF SInv, TypeOK
  <2> QED BY <2>1, <2>2, <2>3, <2>4
<1>5. stateConn[a] = {} /\ dataConn[a] = {}
  BY <1>1 DEF SInv, NothingElse, Leaving
<1>6. \A x, y \in Agents : /\ ~Adding(x, y) /\ ~Adding(x, y)'
                           /\ Removing(x, y)' <=> Removing(x, y)
                           /\ Dropping(x, y)' <=> Dropping(x, y)
  BY <1>1, <1>3 DEF Adding, Removing, Dropping
<1>7. \A x \in Agents : InGroup(x)' <=> InGroup(x) /\ x # a
  BY <1>4 DEF InGroup
<1>8. OneBusy'
  BY <1>1, <1>2, <1>4 DEF OneBusy, Busy
<1>9. Sound'
  BY <1>1, Frames DEF SInv
<1>10. OneInv'
  BY <1>1, <1>4 DEF SInv, OneInv
<1>11. NotYetIn' /\ Founded' /\ GroupFits'
  <2>1. NotYetIn'
    BY <1>1, <1>4, <1>7 DEF SInv, NotYetIn
  <2>2. Founded'
    BY <1>1, <1>4, <1>7 DEF SInv, Founded, Joining
  <2>3. GroupFits'
    BY <1>2, <1>4, <1>7 DEF SInv, GroupFits
  <2> QED BY <2>1, <2>2, <2>3
<1>12. ListsMembers' /\ AllListed'
  <2>1. \A x, y \in Agents : view'[x][y] # 0 => x # a /\ view[x][y] # 0
    BY <1>4
  <2>2. ListsMembers'
    BY <1>1, <1>4, <1>6, <1>7, <2>1 DEF SInv, ListsMembers
  <2>3. AllListed'
    BY <1>1, <1>2, <1>4, <1>6, <1>7 DEF SInv, AllListed
  <2> QED BY <2>2, <2>3
<1>13. ListExact' /\ AnswersFit' /\ AckedHears' /\ LeaverHeard'
  BY <1>4 DEF ListExact, AnswersFit, AckedHears, LeaverHeard, Joining
<1>14. HandlersFit'
  BY <1>1, <1>2 DEF HandlersFit
<1>15. StatusesFit'
  BY <1>1, <1>2, <1>3, <1>4, <1>7 DEF SInv, StatusesFit
<1>16. \A x, y \in Agents : Reaches(x, y)' => Reaches(x, y) /\ x # a
  BY <1>1, <1>4, <1>6 DEF Reaches
<1>17. StateFits'
  BY <1>1, <1>2, <1>6, <1>16 DEF SInv, StateFits, Leaving
<1>18. DataFits'
  <2>1. \A x, y \in Agents : Subscribed(x, y)' => Subscribed(x, y) /\ x # a
    BY <1>4, <1>16 DEF Subscribed
  <2> QED BY <1>1, <1>2, <1>4, <2>1 DEF SInv, DataFits, Handling
<1>19. NothingElse'
  <2>1. \A x, y \in Agents : x # a /\ Known(x, y) => Known(x, y)'
    BY <1>1, <1>2, <1>4, <1>6 DEF Known
  <2>2. \A x \in Agents : stateConn[x] \subseteq Agents /\ dataConn[x] \subseteq Agents
                          /\ subs[x] \subseteq Agents
    BY DEF SInv, TypeOK
  <2>3. \A x \in Agents : ~Leaving(x)' /\ pc'[x] \notin {"leaveNotify", "leaveDelete"}
    BY <1>4 DEF Leaving
  <2>4. \A x \in Agents : \A y \in stateConn'[x] : x # y /\ Known(x, y)' /\ ~Leaving(x)'
    BY <1>1, <1>5, <2>1, <2>2, <2>3 DEF SInv, NothingElse
  <2>5. \A x \in Agents : \A y \in dataConn'[x] :
           /\ x # y /\ Known(x, y)' /\ y \in Publishers
           /\ pc'[x] \notin {"leaveNotify", "leaveDelete"}
    BY <1>1, <1>5, <2>1, <2>2, <2>3 DEF SInv, NothingElse
  <2>6. \A x \in Agents : \A y \in subs'[x] : x # y /\ Known(x, y)'
    BY <1>4, <2>1, <2>2 DEF SInv, NothingElse
  <2> QED BY <2>4, <2>5, <2>6 DEF NothingElse
<1> QED BY <1>8, <1>9, <1>10, <1>11, <1>12, <1>13, <1>14, <1>15, <1>17, <1>18, <1>19
        DEF SInv
-----------------------------------------------------------------------------
LEMMA NextSInv ==
    ASSUME OneAtATime
    PROVE  SInv /\ AcceptorIn /\ [Next]_vars => SInv'
<1> SUFFICES ASSUME SInv, AcceptorIn, [Next]_vars PROVE SInv'
  OBVIOUS
<1>1. TypeOK'
  BY NextType DEF SInv
<1>2. CASE UNCHANGED vars
  BY <1>1, <1>2, Frames DEF SInv, vars, store, join, sockets, curve, stuck
<1>3. CASE UserStep
  BY <1>1, <1>3, CreateS, JoinS, LeaveStateS DEF UserStep
<1>4. ASSUME NEW a \in Agents, JoinStep(a) PROVE SInv'
  BY <1>1, <1>4, JoinReqsS, ReqParamsS, ReqMembersS, SetParamsS, SubscriptionsS,
     ConnectMemberS, AdmitS, HelloAckS, NotifyS DEF JoinStep
<1>5. ASSUME NEW a \in Agents, LeaveStep(a) PROVE SInv'
  BY <1>1, <1>5, LeaveDataS, LeaveNotifyS, LeaveDeleteS DEF LeaveStep
<1>6. ASSUME NEW a \in Agents, HandlerStep(a) PROVE SInv'
  BY <1>1, <1>6, HandlerAnswerS, HandlerStateS, HandlerDataS DEF HandlerStep
<1>7. ASSUME NEW a \in Agents, StatusStep(a) PROVE SInv'
  BY <1>1, <1>7, AddMemberS, RemoveStateS, RemoveMemberS DEF StatusStep
<1>8. ASSUME NEW a \in Agents, NEW m \in Agents, Establish(a, m) PROVE SInv'
  BY <1>1, <1>8, EstablishS
<1> QED BY <1>2, <1>3, <1>4, <1>5, <1>6, <1>7, <1>8 DEF Next

\* The acceptor's reads do not overlap anything else.
LEMMA NextAcceptorIn ==
    ASSUME OneAtATime
    PROVE  SInv /\ AcceptorIn /\ [Next]_vars => AcceptorIn'
<1> SUFFICES ASSUME SInv, AcceptorIn, [Next]_vars,
                    NEW j \in Agents, pc'[j] \in {"reqParams", "reqMembers"}
             PROVE  InGroup(acceptor[j])'
  BY DEF AcceptorIn
<1> USE DEF store, join
<1>1. pc \in [Agents -> PCs] /\ acceptor[j] \in Agents
  BY DEF SInv, TypeOK
<1>2. CASE JoinReqs(j)
  <2>1. Members(view[acceptor[j]]) # {} \/ pc[j] \in {"reqParams", "reqMembers"}
    BY <1>2 DEF JoinReqs
  <2>2. InGroup(acceptor[j])
    BY <1>1, <2>1 DEF AcceptorIn, Members, SInv, ListsMembers, InGroup
  <2> QED BY <1>2, <2>2 DEF JoinReqs, InGroup
<1>3. CASE UNCHANGED <<pc, view, acceptor>>
  BY <1>3 DEF AcceptorIn, InGroup
<1>4. CASE ReqParams(j)
  BY <1>4 DEF ReqParams, AcceptorIn, InGroup
<1>5. pc[j] \in {"reqParams", "reqMembers"} =>
         /\ handlers = {} /\ statuses = {} /\ ~Quiet
         /\ \A x \in Agents : x # j => pc[x] = "idle"
  BY BusyAlone DEF Busy, Quiet
<1>6. CASE UserStep
  <2>1. pc[j] \in {"reqParams", "reqMembers"}
    BY <1>1, <1>6 DEF UserStep, Create, Join, LeaveState
  <2> QED BY <1>5, <1>6, <2>1 DEF OneAtATime, UserStep, Create, Join, LeaveState, MayStart
<1>7. ASSUME NEW a \in Agents, JoinStep(a) PROVE InGroup(acceptor[j])'
  <2>1. CASE JoinReqs(a) \/ ReqParams(a) \/ ReqMembers(a)
    <3>1. a = j
      BY <1>1, <1>5, <2>1 DEF JoinReqs, ReqParams, ReqMembers
    <3>2. ~ReqMembers(j)
      BY <1>1 DEF ReqMembers
    <3> QED BY <1>2, <1>4, <2>1, <3>1, <3>2
  <2>2. CASE SetParams(a) \/ Admit(a) \/ Notify(a)
    BY <1>1, <1>5, <2>2 DEF SetParams, Admit, Notify
  <2>3. ASSUME NEW m \in Agents, Subscriptions(m, a) \/ ConnectMember(a, m) \/ HelloAck(a, m)
        PROVE  InGroup(acceptor[j])'
    BY <1>3, <2>3 DEF Subscriptions, ConnectMember, HelloAck
  <2> QED BY <1>7, <2>1, <2>2, <2>3 DEF JoinStep
<1>8. ASSUME NEW a \in Agents, LeaveStep(a) PROVE InGroup(acceptor[j])'
  BY <1>1, <1>5, <1>8 DEF LeaveStep, LeaveData, LeaveNotify, LeaveDelete
<1>9. ASSUME NEW a \in Agents, HandlerStep(a) PROVE InGroup(acceptor[j])'
  BY <1>3, <1>9 DEF HandlerStep, HandlerAnswer, HandlerState, HandlerData
<1>10. ASSUME NEW a \in Agents, StatusStep(a) PROVE InGroup(acceptor[j])'
  BY <1>5, <1>10 DEF StatusStep, AddMember, RemoveState, RemoveMember
<1>11. ASSUME NEW a \in Agents, NEW m \in Agents, Establish(a, m)
       PROVE  InGroup(acceptor[j])'
  BY <1>3, <1>11 DEF Establish
<1> QED BY <1>3, <1>6, <1>7, <1>8, <1>9, <1>10, <1>11 DEF Next, vars

LEMMA SerialInductive ==
    ASSUME OneAtATime
    PROVE  Spec => []SInv
<1>1. Init => SInv /\ AcceptorIn
  <2>1. Init => AcceptorIn
    BY DEF Init, AcceptorIn
  <2> QED BY <2>1, InitSInv
<1>2. SInv /\ AcceptorIn /\ [Next]_vars => (SInv /\ AcceptorIn)'
  BY NextSInv, NextAcceptorIn
<1> QED BY <1>1, <1>2, PTL DEF Spec
-----------------------------------------------------------------------------
(* What follows *)

\* No listener is lost and nobody dies, though agents leave: Leave and the
\* removal of a member find every endpoint connected and every group in place.
THEOREM NoneBrokenHolds ==
    ASSUME OneAtATime
    PROVE  Spec => []NoneBroken
<1>1. SInv => NoneBroken
  BY DEF SInv, Sound
<1> QED BY <1>1, SerialInductive, PTL

\* Leave does not fail half way: an idle agent is connected to all it lists.
THEOREM ViewsConnectedHolds ==
    ASSUME OneAtATime
    PROVE  Spec => []ViewsConnected
<1>1. SInv => ViewsConnected
  <2> SUFFICES ASSUME SInv, NEW a \in Agents, pc[a] = "idle", NEW m \in Others(a)
               PROVE  m \in stateConn[a] \/ Dropping(a, m)
    BY DEF ViewsConnected, Dropping
  <2>1. m \in Agents /\ Reaches(a, m) /\ ~Leaving(a)
    BY DEF Others, Members, Reaches, Leaving
  <2> QED BY <2>1 DEF SInv, StateFits
<1> QED BY <1>1, SerialInductive, PTL

\* Joined tells whether the agent is in the group.
THEOREM JoinedMeansMemberHolds ==
    ASSUME OneAtATime
    PROVE  Spec => []JoinedMeansMember
<1>1. SInv => JoinedMeansMember
  BY DEF SInv, GroupFits, JoinedMeansMember
<1> QED BY <1>1, SerialInductive, PTL

\* When all is quiet, the members have the same list: themselves.
THEOREM AgreementHolds ==
    ASSUME OneAtATime
    PROVE  Spec => []Agreement
<1>1. SInv => Agreement
  <2> SUFFICES ASSUME SInv, Quiet, NEW a \in Agents, InGroup(a)
               PROVE  /\ Members(view[a]) = {m \in Agents : InGroup(m)}
                      /\ \A m \in Members(view[a]) : view[a] = view[m]
    BY DEF Agreement
  <2>1. Members(view[a]) = {m \in Agents : InGroup(m)}
    BY QuietFits DEF Members
  <2>2. ASSUME NEW m \in Agents, InGroup(m) PROVE view[a] = view[m]
    <3>1. \A x \in Agents : view[a][x] = view[m][x]
      BY <2>2, QuietFits DEF SInv, OneInv
    <3> QED BY <2>2, <3>1 DEF SInv, TypeOK, Views
  <2> QED BY <2>1, <2>2
<1> QED BY <1>1, SerialInductive, PTL

\* When all is quiet, publishers hold the keys of all members, which listen.
THEOREM DataReachesMembersHolds ==
    ASSUME OneAtATime
    PROVE  Spec => []DataReachesMembers
<1>1. SInv => DataReachesMembers
  <2> SUFFICES ASSUME SInv, Quiet, NEW a \in Publishers, InGroup(a), NEW m \in Others(a)
               PROVE  m \in subs[a] /\ a \in dataConn[m]
    BY DEF DataReachesMembers
  <2>1. a \in Agents /\ m \in Agents /\ a # m /\ view[a][m] # 0
    BY MembershipAssumption DEF Others, Members
  <2>2. view[m][a] # 0
    BY <2>1, QuietFits
  <2> QED BY <2>1, <2>2, QuietFits
<1> QED BY <1>1, SerialInductive, PTL

\* When all is quiet, who is in no group has no connection, and nobody has one
\* to it.
THEOREM NoResidueHolds ==
    ASSUME OneAtATime
    PROVE  Spec => []NoResidue
<1>1. SInv => NoResidue
  <2> SUFFICES ASSUME SInv, Quiet, NEW a \in Agents, group[a] = "nil"
               PROVE  /\ stateConn[a] = {} /\ dataConn[a] = {} /\ subs[a] = {}
                      /\ \A m \in Agents : /\ a \notin stateConn[m] /\ a \notin dataConn[m]
                                           /\ a \notin subs[m]
    BY DEF NoResidue
  <2>1. ~InGroup(a)
    BY DEF SInv, GroupFits
  <2>2. \A m \in Agents : m \notin Others(a) /\ a \notin Others(m)
    BY <2>1, QuietFits DEF Others, Members
  <2>3. Others(a) = {}
    BY <2>2 DEF Others, Members
  <2> QED BY <2>2, <2>3, QuietFits
<1> QED BY <1>1, SerialInductive, PTL
-----------------------------------------------------------------------------
(* Membership implements Group, leaves included *)

\* Who is on the list that Group sees.
LEMMA ListedS ==
    ASSUME SInv
    PROVE  /\ \A a, m \in Agents : m \in knownBar[a] <=>
                 view[a][m] # 0 /\ InGroup(a) /\ pc[a] # "leaveDelete"
           /\ \A a \in Agents : /\ knownBar[a] \subseteq Agents
                                /\ knownBar[a] # {} <=> InGroup(a) /\ pc[a] # "leaveDelete"
BY DEF knownBar, Listed, Members, InGroup

\* Steps that change no list, no status, and neither a call that waits nor one
\* that is deleting its group.
LEMMA QuietStepS ==
    ASSUME \A x, m \in Agents : view'[x][m] = view[x][m],
           newsBar' = newsBar,
           \A x \in Agents : pc'[x] = "wait" <=> pc[x] = "wait",
           \A x \in Agents : InGroup(x) => (pc'[x] = "leaveDelete" <=> pc[x] = "leaveDelete")
    PROVE  Step
<1>1. \A x \in Agents : Listed(x)' = Listed(x)
  BY DEF Listed, InGroup, Members
<1>2. knownBar' = knownBar
  BY <1>1, KnownIsFunction
<1>3. freshBar' = freshBar
  BY DEF freshBar
<1> QED BY <1>2, <1>3 DEF Step, G!vars

\* What Group sees when one list changes.
LEMMA KnownChange ==
    ASSUME NEW a \in Agents, NEW L,
           Listed(a)' = L,
           \A x \in Agents : x # a => Listed(x)' = Listed(x)
    PROVE  knownBar' = [knownBar EXCEPT ![a] = L]
<1>1. \A x \in Agents : knownBar'[x] = IF x = a THEN L ELSE knownBar[x]
  BY DEF knownBar
<1> QED BY <1>1, KnownIsFunction

LEMMA CreateSG ==
    ASSUME OneAtATime, SInv, NEW a \in Agents, Create(a)
    PROVE  Step
<1> USE DEF join, sockets, curve, stuck, OneAtATime
<1>1. /\ a \in Founders /\ inv[a] < 1 /\ Quiet
      /\ view' = [view EXCEPT ![a] = [view[a] EXCEPT ![a] = inv[a] + 1]]
      /\ UNCHANGED <<pc, statuses>>
  BY DEF Create, MayStart
<1>2. inv[a] = 0 /\ \A x \in Agents : ~InGroup(x) /\ pc[x] = "idle"
  BY <1>1 DEF SInv, OneInv, Founded, TypeOK, Quiet
<1>3. \A x, m \in Agents : view[x][m] = 0
  BY <1>1, <1>2, QuietFits DEF InGroup
<1>4. /\ view'[a][a] = 1
      /\ \A x, m \in Agents : x # a \/ m # a => view'[x][m] = 0
  BY <1>1, <1>2, <1>3 DEF SInv, TypeOK, Views
<1>5. Listed(a)' = {a} /\ Listed(a) = {}
  BY <1>1, <1>2, <1>4 DEF Listed, InGroup, Members
<1>6. \A x \in Agents : x # a => Listed(x)' = Listed(x)
  BY <1>1, <1>2, <1>4 DEF Listed, InGroup, Members
<1>7. knownBar' = [knownBar EXCEPT ![a] = {a}] /\ knownBar[a] = {}
  BY <1>5, <1>6, KnownChange DEF knownBar
<1>8. freshBar' = freshBar /\ newsBar' = newsBar
  BY <1>1 DEF freshBar, newsBar
<1> QED BY <1>7, <1>8 DEF Step, G!Next, G!Found, G!Member

LEMMA AdmitSG ==
    ASSUME SInv, NEW j \in Agents, Admit(j)
    PROVE  Step
<1> USE DEF join, sockets, curve, stuck
<1> DEFINE v == [list[j] EXCEPT ![j] = inv[j]]
           L == Members(list[j])
<1>1. pc[j] = "subscribe" /\ UNCHANGED statuses
  BY DEF Admit
<1>2. \A m \in L : answers[j][m] # NoAnswer /\ answers[j][m] = list[j]
  BY <1>1 DEF Admit, Members, SInv, AnswersFit
<1>3. AddMembrs(j, v) /\ pc' = [pc EXCEPT ![j] = "wait"]
  BY <1>2, EqualIsConsistent DEF Admit
<1>4. /\ inv[j] = 1 /\ ~InGroup(j) /\ \A x \in Agents : view[j][x] = 0
      /\ \A x \in Agents : list[j][x] # 0 <=> InGroup(x) /\ x # j
      /\ \A x \in Agents : x # j => pc[x] = "idle"
  <2>1. ~InGroup(j) /\ inv[j] = 1
    BY <1>1 DEF SInv, NotYetIn, OneInv
  <2>2. \A x \in Agents : view[j][x] = 0
    BY <2>1 DEF SInv, ListsMembers, InGroup
  <2>3. \A x \in Agents : list[j][x] # 0 <=> InGroup(x) /\ x # j
    BY <1>1 DEF SInv, ListExact, Joining
  <2>4. \A x \in Agents : x # j => pc[x] = "idle"
    BY <1>1, BusyAlone DEF Busy
  <2> QED BY <2>1, <2>2, <2>3, <2>4
<1>5. /\ v[j] = 1 /\ \A x \in Agents : x # j => v[x] = list[j][x]
  BY <1>4 DEF SInv, TypeOK, Views
<1>6. view' = [view EXCEPT ![j] = [x \in Agents |-> IF v[x] # 0 THEN v[x] ELSE view[j][x]]]
  BY <1>3 DEF AddMembrs, SInv, TypeOK
<1> HIDE DEF v
<1>7. /\ \A x \in Agents : view'[j][x] = v[x]
      /\ \A x \in Agents : x # j => view'[x] = view[x]
      /\ pc'[j] = "wait" /\ \A x \in Agents : x # j => pc'[x] = pc[x]
  BY <1>3, <1>4, <1>6 DEF SInv, TypeOK
<1>8. Listed(j)' = L \cup {j} /\ j \notin L /\ L \subseteq Agents
  BY <1>4, <1>5, <1>7 DEF Listed, InGroup, Members
<1>9. \A x \in Agents : x # j => Listed(x)' = Listed(x)
  BY <1>7 DEF Listed, InGroup, Members
<1>10. knownBar' = [knownBar EXCEPT ![j] = L \cup {j}]
  BY <1>8, <1>9, KnownChange
<1>11. knownBar[j] = {} /\ \A m \in L : knownBar[m] # {}
  <2>1. knownBar[j] = {}
    BY <1>4, ListedS
  <2>2. \A m \in L : m \in Agents /\ InGroup(m) /\ pc[m] = "idle"
    BY <1>4 DEF Members
  <2> QED BY <2>1, <2>2, ListedS
<1>12. freshBar' = freshBar \cup {j} /\ newsBar' = newsBar
  BY <1>1, <1>7 DEF freshBar, newsBar
<1> HIDE DEF L
<1>13. G!Enter(j, L)
  BY <1>8, <1>10, <1>11, <1>12 DEF G!Enter, G!Member
<1> QED BY <1>8, <1>13 DEF Step, G!Next

\* Lists as Group sees them do not change with the lists of Membership alone.
LEMMA SameLists ==
    ASSUME \A x, m \in Agents : view'[x][m] = view[x][m],
           \A x \in Agents : InGroup(x) => (pc'[x] = "leaveDelete" <=> pc[x] = "leaveDelete")
    PROVE  knownBar' = knownBar
<1>1. \A x \in Agents : Listed(x)' = Listed(x)
  BY DEF Listed, InGroup, Members
<1> QED BY <1>1, KnownIsFunction

\* What Group sees of the statuses.
LEMMA NewsIs ==
    /\ newsBar = {News(t) : t \in statuses}
    /\ newsBar' = {News(t) : t \in statuses'}
BY DEF newsBar, News

LEMMA NotifySG ==
    ASSUME SInv, NEW j \in Agents, Notify(j)
    PROVE  Step
<1> USE DEF store, join, sockets, curve, stuck
<1> DEFINE status(m) == [from |-> j, to |-> m, active |-> TRUE, inv |-> inv[j], step |-> "sent"]
           S == {x \in Others(j) : Hears(x, j)}
<1>1. /\ pc[j] = "wait" /\ Members(list[j]) \subseteq acked[j]
      /\ statuses' = statuses \cup {status(m) : m \in S}
      /\ pc' = [pc EXCEPT ![j] = "idle"]
      /\ UNCHANGED view
  BY DEF Notify, NotifyAll, AllAcked
<1>2. /\ S = Others(j) /\ Others(j) \subseteq Agents /\ InGroup(j)
      /\ pc'[j] = "idle" /\ \A x \in Agents : x # j => pc'[x] = pc[x]
  BY <1>1, AllHear DEF SInv, TypeOK, Others, Members
<1>3. \A m \in S : News(status(m)) = [from |-> j, to |-> m, active |-> TRUE]
  BY DEF News
<1> HIDE DEF status, S
<1>4. knownBar' = knownBar
  <2>1. pc[j] # "leaveDelete"
    BY <1>1
  <2> QED BY <1>1, <1>2, <2>1, SameLists
<1>5. freshBar' = freshBar \ {j} /\ j \in freshBar
  BY <1>1, <1>2 DEF freshBar
<1>6. newsBar' = newsBar \cup G!Entered(j, S)
  <2>1. G!Entered(j, S) = {News(status(m)) : m \in S}
    BY <1>3 DEF G!Entered
  <2> HIDE DEF News
  <2> QED BY <1>1, <2>1, NewsIs
<1>7. G!Others(j) = S
  <2>1. pc[j] # "leaveDelete"
    BY <1>1
  <2>2. knownBar[j] = Members(view[j])
    BY <1>2, <2>1 DEF knownBar, Listed
  <2> QED BY <1>2, <2>2 DEF G!Others, Others
<1>8. G!Announce(j, S)
  BY <1>4, <1>5, <1>6, <1>7 DEF G!Announce
<1> QED BY <1>2, <1>8 DEF Step, G!Next

\* One status is heeded at a time, and each agent has at most one of them.
LEMMA AddMemberSG ==
    ASSUME SInv, NEW s \in statuses, AddMember(s)
    PROVE  Step
<1> DEFINE m == s.to
           j == s.from
<1>1. /\ m \in Agents /\ j \in Agents /\ m # j /\ InGroup(m) /\ s.active
      /\ view'[m][j] = 1
      /\ \A x, y \in Agents : x # m \/ y # j => view'[x][y] = view[x][y]
      /\ \A x \in Agents : (InGroup(x)' <=> InGroup(x)) /\ pc[x] = "idle"
      /\ \A t \in statuses : t.active /\ t.from = j
      /\ statuses' = statuses \ {s} /\ UNCHANGED pc
  BY AddMemberEffect
<1>2. Listed(m)' = Listed(m) \cup {j}
  BY <1>1 DEF Listed, Members
<1>3. \A x \in Agents : x # m => Listed(x)' = Listed(x)
  <2> SUFFICES ASSUME NEW x \in Agents, x # m PROVE Listed(x)' = Listed(x)
    OBVIOUS
  <2>1. \A y \in Agents : view'[x][y] = view[x][y]
    BY <1>1
  <2>2. Members(view[x])' = Members(view[x])
    BY <2>1 DEF Members
  <2>3. InGroup(x)' <=> InGroup(x)
    BY <1>1
  <2> QED BY <1>1, <2>2, <2>3 DEF Listed
<1>4. /\ knownBar' = [knownBar EXCEPT ![m] = knownBar[m] \cup {j}]
      /\ knownBar[m] # {}
  <2>1. knownBar[m] = Listed(m)
    BY <1>1 DEF knownBar
  <2>2. Listed(m) # {}
    BY <1>1 DEF Listed, Members, InGroup
  <2> QED BY <1>1, <1>2, <1>3, <2>1, <2>2, KnownChange
<1>5. freshBar' = freshBar
  BY <1>1 DEF freshBar
<1>6. \A t \in statuses : News(t) = News(s) => t = s
  <2> SUFFICES ASSUME NEW t \in statuses, News(t) = News(s) PROVE t = s
    OBVIOUS
  <2>1. t \in Statuses /\ s \in Statuses
    BY DEF SInv, TypeOK
  <2>2. t.from = s.from /\ t.to = s.to /\ t.active = s.active
    BY DEF News
  <2>3. t.step = "sent" /\ s.step = "sent" /\ t.inv = 1 /\ s.inv = 1
    BY <1>1 DEF SInv, StatusesFit, OneInv
  <2> QED BY <2>1, <2>2, <2>3 DEF Statuses
<1>7. News(s).to = m /\ News(s).from = j /\ News(s).active
  BY <1>1 DEF News
<1> HIDE DEF News
<1>8. newsBar' = newsBar \ {News(s)} /\ News(s) \in newsBar
  BY <1>1, <1>6, NewsIs
<1>9. G!Heed(News(s))
  BY <1>4, <1>5, <1>7, <1>8 DEF G!Heed, G!Member
<1> QED BY <1>8, <1>9 DEF Step, G!Next

LEMMA RemoveMemberSG ==
    ASSUME SInv, NEW s \in statuses, RemoveMember(s)
    PROVE  Step
<1> DEFINE m == s.to
           b == s.from
<1>1. /\ m \in Agents /\ b \in Agents /\ m # b /\ InGroup(m) /\ ~s.active
      /\ pc[m] = "idle"
      /\ view'[m][b] = 0
      /\ \A x, y \in Agents : x # m \/ y # b => view'[x][y] = view[x][y]
      /\ \A x \in Agents : InGroup(x)' <=> InGroup(x)
      /\ \A t \in statuses : t.to = m => t = s
      /\ statuses' = statuses \ {s} /\ UNCHANGED pc
  BY RemoveMemberEffect
<1>2. Listed(m)' = Listed(m) \ {b}
  BY <1>1 DEF Listed, Members
<1>3. \A x \in Agents : x # m => Listed(x)' = Listed(x)
  <2> SUFFICES ASSUME NEW x \in Agents, x # m PROVE Listed(x)' = Listed(x)
    OBVIOUS
  <2>1. \A y \in Agents : view'[x][y] = view[x][y]
    BY <1>1
  <2>2. Members(view[x])' = Members(view[x])
    BY <2>1 DEF Members
  <2>3. InGroup(x)' <=> InGroup(x)
    BY <1>1
  <2> QED BY <1>1, <2>2, <2>3 DEF Listed
<1>4. /\ knownBar' = [knownBar EXCEPT ![m] = knownBar[m] \ {b}]
      /\ knownBar[m] # {}
  <2>1. knownBar[m] = Listed(m)
    BY <1>1 DEF knownBar
  <2>2. Listed(m) # {}
    BY <1>1 DEF Listed, Members, InGroup
  <2> QED BY <1>1, <1>2, <1>3, <2>1, <2>2, KnownChange
<1>5. freshBar' = freshBar
  BY <1>1 DEF freshBar
<1>6. \A t \in statuses : News(t) = News(s) => t = s
  BY <1>1 DEF News
<1>7. News(s).to = m /\ News(s).from = b /\ ~News(s).active
  BY <1>1 DEF News
<1> HIDE DEF News
<1>8. newsBar' = newsBar \ {News(s)} /\ News(s) \in newsBar
  BY <1>1, <1>6, NewsIs
<1>9. G!Heed(News(s))
  BY <1>4, <1>5, <1>7, <1>8 DEF G!Heed, G!Member
<1> QED BY <1>8, <1>9 DEF Step, G!Next

LEMMA RemoveStateSG ==
    ASSUME SInv, NEW s \in statuses, RemoveState(s)
    PROVE  Step
<1> DEFINE done == [s EXCEPT !.step = "disconnected"]
<1>1. s.from \in stateConn[s.to]
  BY DEF RemoveState, SInv, StatusesFit
<1>2. /\ statuses' = (statuses \ {s}) \cup {done}
      /\ UNCHANGED <<pc, view>>
  BY <1>1 DEF RemoveState, store
<1>3. News(done) = News(s)
  <2>1. s \in Statuses
    BY DEF SInv, TypeOK
  <2> QED BY <2>1 DEF News, Statuses
<1> HIDE DEF News, done
<1>4. newsBar' = newsBar
  BY <1>2, <1>3, NewsIs
<1> QED BY <1>2, <1>4, QuietStepS

LEMMA LeaveNotifySG ==
    ASSUME SInv, NEW a \in Agents, LeaveNotify(a)
    PROVE  Step
<1> USE DEF store, join, sockets, curve, stuck
<1> DEFINE status(m) == [from |-> a, to |-> m, active |-> FALSE, inv |-> inv[a], step |-> "sent"]
           S == {x \in Others(a) : Hears(x, a)}
<1>1. pc[a] = "leaveNotify" /\ UNCHANGED view
  BY DEF LeaveNotify
<1>2. handlers = {} /\ statuses = {} /\ \A x \in Agents : x # a => pc[x] = "idle"
  BY <1>1, BusyAlone DEF Busy
<1>3. CASE Members(view[a]) = {} /\ pc' = [pc EXCEPT ![a] = "idle"] /\ UNCHANGED statuses
  <2>1. pc'[a] = "idle" /\ \A x \in Agents : x # a => pc'[x] = pc[x]
    BY <1>3 DEF SInv, TypeOK
  <2>2. newsBar' = newsBar
    BY <1>3 DEF newsBar
  <2> QED BY <1>1, <2>1, <2>2, QuietStepS
<1>4. CASE /\ Members(view[a]) # {} /\ pc' = [pc EXCEPT ![a] = "leaveDelete"]
           /\ statuses' = statuses \cup {status(m) : m \in S}
  <2>1. pc'[a] = "leaveDelete" /\ \A x \in Agents : x # a => pc'[x] = pc[x]
    BY <1>4 DEF SInv, TypeOK
  <2>2. InGroup(a)
    BY <1>1, <1>2, <1>4 DEF Members, InGroup, SInv, ListsMembers
  <2>3. S = Others(a)
    BY <1>1, LeaverIsHeard
  <2>4. \A m \in S : News(status(m)) = [from |-> a, to |-> m, active |-> FALSE]
    BY DEF News
  <2>5. Listed(a)' = {} /\ \A x \in Agents : x # a => Listed(x)' = Listed(x)
    BY <1>1, <2>1 DEF Listed, InGroup, Members
  <2>6. knownBar' = [knownBar EXCEPT ![a] = {}]
    BY <2>5, KnownChange
  <2>7. knownBar[a] = Members(view[a])
    BY <1>1, <2>2 DEF knownBar, Listed
  <2> HIDE DEF status, S
  <2>8. freshBar' = freshBar /\ a \notin freshBar
    BY <1>1, <2>1 DEF freshBar
  <2>9. newsBar' = newsBar \cup G!Left(a, S)
    <3>1. G!Left(a, S) = {News(status(m)) : m \in S}
      BY <2>4 DEF G!Left
    <3> HIDE DEF News
    <3> QED BY <1>4, <3>1, NewsIs
  <2>10. G!Others(a) = S
    BY <2>3, <2>7 DEF G!Others, Others
  <2>11. G!Leave(a)
    BY <1>4, <2>6, <2>7, <2>8, <2>9, <2>10 DEF G!Leave, G!Member
  <2> QED BY <2>11 DEF Step, G!Next
<1> QED BY <1>3, <1>4 DEF LeaveNotify, NotifyAll

\* The stores are emptied after Group has forgotten the leaver.
LEMMA LeaveDeleteSG ==
    ASSUME SInv, NEW a \in Agents, LeaveDelete(a)
    PROVE  Step
<1>1. /\ pc[a] = "leaveDelete" /\ pc' = [pc EXCEPT ![a] = "idle"]
      /\ view' = [view EXCEPT ![a] = Empty] /\ UNCHANGED statuses
  BY DEF LeaveDelete, Forget
<1>2. /\ \A x \in Agents : view'[a][x] = 0
      /\ \A x \in Agents : x # a => view'[x] = view[x]
      /\ pc'[a] = "idle" /\ \A x \in Agents : x # a => pc'[x] = pc[x]
  BY <1>1 DEF SInv, TypeOK, Empty
<1>3. \A x \in Agents : Listed(x)' = Listed(x)
  BY <1>1, <1>2 DEF Listed, InGroup, Members
<1>4. knownBar' = knownBar
  BY <1>3, KnownIsFunction
<1>5. freshBar' = freshBar /\ newsBar' = newsBar
  BY <1>1, <1>2 DEF freshBar, newsBar
<1> QED BY <1>4, <1>5 DEF Step, G!vars

\* Calls that begin, or go on, without a list or a message.
LEMMA CallSG ==
    ASSUME SInv, NEW j \in Agents,
           pc[j] \notin {"wait", "leaveDelete"}, pc'[j] \notin {"wait", "leaveDelete"},
           \A x \in Agents : x # j => pc'[x] = pc[x],
           UNCHANGED <<view, statuses>>
    PROVE  Step
<1>1. newsBar' = newsBar
  BY DEF newsBar
<1>2. \A x \in Agents : /\ pc'[x] = "wait" <=> pc[x] = "wait"
                        /\ pc'[x] = "leaveDelete" <=> pc[x] = "leaveDelete"
  OBVIOUS
<1> QED BY <1>1, <1>2, QuietStepS

LEMMA CallsSG ==
    ASSUME SInv, NEW a \in Agents,
           \/ \E c \in Agents : Join(a, c)
           \/ JoinReqs(a) \/ ReqParams(a) \/ ReqMembers(a) \/ SetParams(a)
           \/ LeaveState(a) \/ LeaveData(a)
    PROVE  Step
<1> USE DEF store
<1>0. pc \in [Agents -> PCs]
  BY DEF SInv, TypeOK
<1>1. CASE \E c \in Agents : Join(a, c)
  <2>1. pc[a] = "idle" /\ pc' = [pc EXCEPT ![a] = "reqState"] /\ UNCHANGED <<view, statuses>>
    BY <1>1 DEF Join, MayStart
  <2>2. pc'[a] = "reqState" /\ \A x \in Agents : x # a => pc'[x] = pc[x]
    BY <1>0, <2>1
  <2> QED BY <2>1, <2>2, CallSG
<1>2. CASE LeaveState(a)
  <2>1. /\ pc[a] = "idle" /\ UNCHANGED <<view, statuses>>
        /\ pc' = [pc EXCEPT ![a] = "leaveData"] \/ UNCHANGED pc
    BY <1>2 DEF LeaveState, MayStart
  <2>2. pc'[a] \in {"leaveData", "idle"} /\ \A x \in Agents : x # a => pc'[x] = pc[x]
    BY <1>0, <2>1
  <2> QED BY <2>1, <2>2, CallSG
<1>3. CASE JoinReqs(a) \/ ReqParams(a) \/ ReqMembers(a)
  <2>1. /\ pc[a] \in {"reqState", "reqParams", "reqMembers"} /\ UNCHANGED <<view, statuses>>
        /\ \/ \E p \in {"reqParams", "reqMembers", "setParams"} : pc' = [pc EXCEPT ![a] = p]
           \/ UNCHANGED pc
    BY <1>3 DEF JoinReqs, ReqParams, ReqMembers
  <2>2. /\ pc'[a] \in {"reqState", "reqParams", "reqMembers", "setParams"}
        /\ \A x \in Agents : x # a => pc'[x] = pc[x]
    BY <1>0, <2>1
  <2> QED BY <2>1, <2>2, CallSG
<1>4. CASE SetParams(a)
  <2>1. /\ pc[a] = "setParams" /\ pc' = [pc EXCEPT ![a] = "subscribe"]
        /\ UNCHANGED <<view, statuses>>
    BY <1>4 DEF SetParams
  <2>2. pc'[a] = "subscribe" /\ \A x \in Agents : x # a => pc'[x] = pc[x]
    BY <1>0, <2>1
  <2> QED BY <2>1, <2>2, CallSG
<1>5. CASE LeaveData(a)
  <2>1. /\ pc[a] = "leaveData" /\ UNCHANGED <<view, statuses>>
        /\ \/ pc' = [pc EXCEPT ![a] = "leaveNotify"]
           \/ pc' = [pc EXCEPT ![a] = "idle"]
           \/ UNCHANGED pc
    BY <1>5 DEF LeaveData
  <2>2. /\ pc'[a] \in {"leaveNotify", "idle", "leaveData"}
        /\ \A x \in Agents : x # a => pc'[x] = pc[x]
    BY <1>0, <2>1
  <2> QED BY <2>1, <2>2, CallSG
<1> QED BY <1>1, <1>2, <1>3, <1>4, <1>5

LEMMA NextSG ==
    ASSUME OneAtATime
    PROVE  SInv /\ [Next]_vars => Step
<1> SUFFICES ASSUME SInv, [Next]_vars PROVE Step
  OBVIOUS
<1>1. ASSUME UNCHANGED <<pc, view, statuses>> PROVE Step
  <2>1. newsBar' = newsBar
    BY <1>1 DEF newsBar
  <2> QED BY <1>1, <2>1, QuietStepS
<1>2. CASE UNCHANGED vars
  BY <1>1, <1>2 DEF vars, store
<1>3. CASE UserStep
  BY <1>3, CreateSG, CallsSG DEF UserStep
<1>4. ASSUME NEW a \in Agents, JoinStep(a) PROVE Step
  <2>1. ASSUME NEW m \in Agents, Subscriptions(m, a) \/ ConnectMember(a, m) \/ HelloAck(a, m)
        PROVE  Step
    BY <1>1, <2>1 DEF Subscriptions, ConnectMember, HelloAck, store
  <2> QED BY <1>4, <2>1, CallsSG, AdmitSG, NotifySG DEF JoinStep
<1>5. ASSUME NEW a \in Agents, LeaveStep(a) PROVE Step
  BY <1>5, CallsSG, LeaveNotifySG, LeaveDeleteSG DEF LeaveStep
<1>6. ASSUME NEW a \in Agents, HandlerStep(a) PROVE Step
  BY <1>1, <1>6 DEF HandlerStep, HandlerAnswer, HandlerState, HandlerData, store
<1>7. ASSUME NEW a \in Agents, StatusStep(a) PROVE Step
  BY <1>7, AddMemberSG, RemoveStateSG, RemoveMemberSG DEF StatusStep
<1>8. ASSUME NEW a \in Agents, NEW m \in Agents, Establish(a, m) PROVE Step
  BY <1>1, <1>8 DEF Establish, store
<1> QED BY <1>2, <1>3, <1>4, <1>5, <1>6, <1>7, <1>8 DEF Next

\* With leaves as well, lists change only by announcements, each made once,
\* to all that are listed, and heeded once.
THEOREM PromisedWithLeaves ==
    ASSUME OneAtATime
    PROVE  Spec => Promised
<1>1. SInv /\ [Next]_vars => Step
  BY NextSG
<1>2. Spec => []SInv
  BY SerialInductive
<1>3. Spec => [][G!Next]_(G!vars)
  BY <1>1, <1>2, PTL DEF Spec, Step
<1> QED BY <1>3, InitG, PTL DEF Spec, Promised, G!Spec
=============================================================================
