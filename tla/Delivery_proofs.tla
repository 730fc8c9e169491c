-------------------------- MODULE Delivery_proofs ---------------------------
(***************************************************************************)
(* Proofs about Delivery, for any members, callbacks and messages: its     *)
(* types, and that callbacks count every message once at most and tell the *)
(* tester the number it waits for last and once.                           *)
(***************************************************************************)
EXTENDS Delivery, SequenceTheorems, FiniteSetTheorems, TLAPS

Steps == {"none", "read", "found", "ack", "printed"}

CallbackStates == [at : Members \cup {Nowhere}, count : 0..MaxCount, wanted : 0..MaxCount,
                   step : {"none", "register", "wait", "unregister", "ended"},
                   timed : BOOLEAN, told : Seq(0..MaxCount)]

\* No member has begun with a message that is still to be sent, or with the one
\* Send is at if Send has not come to that member.
NotYetSent ==
    /\ \A m \in Members, n \in Msgs : n > sent => step[m][n] = "none"
    /\ sending.going => sent \in Msgs
    /\ sending.going => \A m \in Members \ sending.seen : step[m][sent] = "none"

\* A channel belongs to a callback at the member that has it.
ChansFit ==
    \A m \in Members :
        /\ ackChans[m] # NoChan => callback[ackChans[m]].at = m
        /\ \A n \in Msgs : chan[m][n] # NoChan => callback[chan[m][n]].at = m

\* What a callback has told by now: nothing, or what it had counted when its
\* time was over; and once it has all it waited for, that number.
Told(c) ==
    /\ c.step = "none" => c.at = Nowhere
    /\ c.step \in {"none", "register"} => c.count = 0 /\ Len(c.told) = 0 /\ ~c.timed
    /\ c.step = "register" => c.wanted > 0
    /\ c.step = "wait" =>
          /\ c.count < c.wanted
          /\ \/ Len(c.told) = 0 /\ ~c.timed
             \/ Len(c.told) = 1 /\ c.told[1] # c.wanted /\ c.timed
    /\ c.step \in {"unregister", "ended"} =>
          \/ Len(c.told) = 0 /\ c.step = "ended"
          \/ Len(c.told) = 1 /\ c.told[1] = c.wanted
          \/ Len(c.told) = 2 /\ c.told[1] # c.wanted /\ c.told[2] = c.wanted

CallbacksFit == \A i \in Callbacks : Told(callback[i])

CountsFit == \A m \in Members : Cardinality(CountsAt(m)) <= Cardinality(PrintedAt(m))

IInv == TypeOK /\ NotYetSent /\ ChansFit /\ CallbacksFit /\ CountsFit
-----------------------------------------------------------------------------
(* Counting *)

LEMMA MsgsFinite == IsFiniteSet(Msgs) /\ IsFiniteSet(Callbacks \X (1..MaxCount))
<1>1. IsFiniteSet(Msgs) /\ IsFiniteSet(Callbacks) /\ IsFiniteSet(1..MaxCount)
  BY FS_Interval, DeliveryAssumption DEF Msgs, Callbacks
<1> QED BY <1>1, FS_Product

LEMMA PrintedFinite ==
    ASSUME TypeOK, NEW m \in Members
    PROVE  IsFiniteSet(PrintedAt(m)) /\ Cardinality(PrintedAt(m)) \in Nat
<1>1. PrintedAt(m) \subseteq Msgs
  BY DEF PrintedAt, TypeOK
<1>2. IsFiniteSet(PrintedAt(m))
  BY <1>1, MsgsFinite, FS_Subset
<1> QED BY <1>2, FS_CardinalityType

LEMMA CountsFinite ==
    ASSUME NEW m \in Members
    PROVE  IsFiniteSet(CountsAt(m)) /\ Cardinality(CountsAt(m)) \in Nat
<1>1. CountsAt(m) \subseteq Callbacks \X (1..MaxCount)
  BY DEF CountsAt
<1>2. IsFiniteSet(CountsAt(m))
  BY <1>1, MsgsFinite, FS_Subset
<1> QED BY <1>2, FS_CardinalityType

\* A part of a finite set is no larger.
LEMMA SubsetCard ==
    ASSUME NEW S, NEW T, IsFiniteSet(T), S \subseteq T
    PROVE  Cardinality(S) <= Cardinality(T)
BY FS_Subset

\* Printing what no callback counts, or sending more, does no harm.
LEMMA CountsKept ==
    ASSUME IInv, TypeOK',
           \A m \in Members : CountsAt(m)' = CountsAt(m) /\ PrintedAt(m) \subseteq PrintedAt(m)'
    PROVE  CountsFit'
<1> SUFFICES ASSUME NEW m \in Members
             PROVE  Cardinality(CountsAt(m))' <= Cardinality(PrintedAt(m))'
  BY DEF CountsFit
<1>1. /\ Cardinality(CountsAt(m)) \in Nat /\ Cardinality(PrintedAt(m)) \in Nat
      /\ Cardinality(CountsAt(m)) <= Cardinality(PrintedAt(m))
  BY CountsFinite, PrintedFinite DEF IInv, CountsFit
<1>2. IsFiniteSet(PrintedAt(m))' /\ Cardinality(PrintedAt(m))' \in Nat
  <2>1. PrintedAt(m)' \subseteq Msgs
    BY DEF PrintedAt, TypeOK
  <2>2. IsFiniteSet(PrintedAt(m)')
    BY <2>1, MsgsFinite, FS_Subset
  <2> QED BY <2>2, FS_CardinalityType
<1>3. Cardinality(PrintedAt(m)) <= Cardinality(PrintedAt(m)')
  BY <1>2, SubsetCard
<1>4. Cardinality(CountsAt(m)') = Cardinality(CountsAt(m))
  OBVIOUS
<1> QED BY <1>1, <1>2, <1>3, <1>4

\* What CountsAt depends on.
LEMMA CountsSame ==
    ASSUME \A i \in Callbacks : /\ callback'[i].at = callback[i].at
                                /\ callback'[i].count = callback[i].count
    PROVE  \A m \in Members : CountsAt(m)' = CountsAt(m)
BY DEF CountsAt
-----------------------------------------------------------------------------
(* Every step keeps the types. *)

LEMMA InitIInv == Init => IInv
<1> SUFFICES ASSUME Init PROVE IInv
  OBVIOUS
<1>1. NoCallback \in CallbackStates
  BY DeliveryAssumption DEF NoCallback, CallbackStates
<1>2. TypeOK
  BY <1>1, DeliveryAssumption DEF Init, TypeOK, Idle, CallbackStates
<1>3. NotYetSent /\ ChansFit
  BY DEF Init, NotYetSent, ChansFit, Idle
<1>4. CallbacksFit
  BY DEF Init, CallbacksFit, Told, NoCallback
<1>5. ASSUME NEW m \in Members PROVE Cardinality(CountsAt(m)) <= Cardinality(PrintedAt(m))
  <2>1. CountsAt(m) = {} /\ PrintedAt(m) = {}
    BY DEF Init, CountsAt, PrintedAt, NoCallback
  <2> QED BY <2>1, FS_EmptySet
<1> QED BY <1>2, <1>3, <1>4, <1>5 DEF IInv, CountsFit

\* The callback i changes to c.
LEMMA CallbackType ==
    ASSUME TypeOK, NEW i \in Callbacks, NEW c \in CallbackStates,
           callback' = [callback EXCEPT ![i] = c]
    PROVE  /\ callback' \in [Callbacks -> CallbackStates]
           /\ callback'[i] = c /\ \A j \in Callbacks : j # i => callback'[j] = callback[j]
<1>1. callback \in [Callbacks -> CallbackStates]
  BY DEF TypeOK, CallbackStates
<1> QED BY <1>1

-----------------------------------------------------------------------------
(* What a step does to the callback it is about. *)

LEMMA CallbackOf ==
    ASSUME TypeOK, NEW i \in Callbacks
    PROVE  /\ callback \in [Callbacks -> CallbackStates]
           /\ callback[i] \in CallbackStates
           /\ callback[i].at \in Members \cup {Nowhere}
           /\ callback[i].count \in 0..MaxCount /\ callback[i].wanted \in 0..MaxCount
           /\ callback[i].timed \in BOOLEAN /\ callback[i].told \in Seq(0..MaxCount)
<1>1. callback \in [Callbacks -> CallbackStates]
  BY DEF TypeOK, CallbackStates
<1>2. callback[i] \in CallbackStates
  BY <1>1
<1> QED BY <1>1, <1>2 DEF CallbackStates

LEMMA AppendTold ==
    ASSUME NEW told \in Seq(0..MaxCount), NEW k \in 0..MaxCount
    PROVE  /\ Append(told, k) \in Seq(0..MaxCount) /\ Len(told) \in Nat
           /\ Len(Append(told, k)) = Len(told) + 1
           /\ Append(told, k)[Len(told) + 1] = k
           /\ \A j \in 1..Len(told) : Append(told, k)[j] = told[j]
BY AppendProperties, LenProperties

\* callback[i] becomes c.
Becomes(i, c) ==
    /\ callback' \in [Callbacks -> CallbackStates]
    /\ callback'[i] = c /\ Told(c)
    /\ \A j \in Callbacks \ {i} : callback'[j] = callback[j]

LEMMA CallbackUpdate ==
    ASSUME TypeOK, NEW i \in Callbacks, NEW c \in CallbackStates, Told(c),
           callback' = [callback EXCEPT ![i] = c]
    PROVE  Becomes(i, c)
BY CallbackOf DEF Becomes

LEMMA BecomesFit ==
    ASSUME IInv, NEW i \in Callbacks, NEW c, Becomes(i, c)
    PROVE  CallbacksFit'
<1>1. ASSUME NEW j \in Callbacks, NEW d, d = callback'[j] PROVE Told(d)
  <2>1. CASE j = i
    BY <1>1, <2>1 DEF Becomes
  <2>2. CASE j # i
    BY <1>1, <2>2 DEF Becomes, IInv, CallbacksFit
  <2> QED BY <2>1, <2>2
<1> QED BY <1>1 DEF CallbacksFit, Told

LEMMA AckBecomes ==
    ASSUME IInv, NEW m \in Members, NEW n \in Msgs, Ack(m, n)
    PROVE  \E i \in Callbacks, c \in CallbackStates :
              /\ i = chan[m][n] /\ callback[i].at = m
              /\ callback[i].count \in Nat /\ callback[i].count + 1 <= MaxCount
              /\ Becomes(i, c) /\ c.at = m /\ c.count = Counted(i, n)
<1> DEFINE i == chan[m][n]
           old == callback[i]
           count == Counted(i, n)
           full == count # old.count /\ count = old.wanted
           told == IF full THEN Append(old.told, count) ELSE old.told
           next == IF full THEN "unregister" ELSE "wait"
           c == [old EXCEPT !.count = count, !.told = told, !.step = next]
<1>1. /\ i # NoChan /\ old.step = "wait" /\ callback' = [callback EXCEPT ![i] = c]
  BY DEF Ack
<1>2. i \in Callbacks /\ old.at = m
  BY <1>1 DEF IInv, TypeOK, ChansFit
<1> HIDE DEF i
<1>3. /\ TypeOK /\ old \in CallbackStates
      /\ old.count \in 0..MaxCount /\ old.wanted \in 0..MaxCount
      /\ old.told \in Seq(0..MaxCount)
  BY <1>2, CallbackOf DEF IInv
<1>4. Told(old)
  BY <1>2 DEF IInv, CallbacksFit
<1>5. /\ old.count < old.wanted
      /\ \/ Len(old.told) = 0 /\ ~old.timed
         \/ Len(old.told) = 1 /\ old.told[1] # old.wanted /\ old.timed
  BY <1>1, <1>4 DEF Told
<1>6. /\ count = old.count \/ count = old.count + 1
      /\ old.count \in Nat /\ old.count + 1 <= MaxCount
  BY <1>3, <1>5, DeliveryAssumption DEF Counted
<1>7. count \in 0..MaxCount /\ (~full => count < old.wanted)
  BY <1>3, <1>5, <1>6, DeliveryAssumption
<1> HIDE DEF old, count
<1>8. told \in Seq(0..MaxCount)
  BY <1>3, <1>7, AppendTold
<1>9. next \in {"unregister", "wait"}
  OBVIOUS
<1>10. /\ c \in CallbackStates /\ c.at = old.at /\ c.count = count /\ c.told = told
       /\ c.step = next /\ c.timed = old.timed /\ c.wanted = old.wanted
  <2> HIDE DEF told, next
  <2> QED BY <1>3, <1>7, <1>8, <1>9 DEF CallbackStates
<1> HIDE DEF c
<1>11. Told(c)
  <2>1. CASE full
    <3>1. /\ count = c.wanted /\ c.step = "unregister" /\ c.told = Append(old.told, count)
      BY <1>10, <2>1
    <3>2. /\ Len(c.told) = Len(old.told) + 1 /\ c.told[Len(old.told) + 1] = c.wanted
          /\ \A j \in 1..Len(old.told) : c.told[j] = old.told[j]
      BY <1>3, <1>7, <3>1, AppendTold
    <3> QED BY <1>5, <1>10, <3>1, <3>2 DEF Told
  <2>2. CASE ~full
    <3>1. c.step = "wait" /\ c.count < c.wanted /\ c.told = old.told /\ c.timed = old.timed
          /\ c.wanted = old.wanted
      BY <1>7, <1>10, <2>2
    <3> QED BY <1>5, <3>1 DEF Told
  <2> QED BY <2>1, <2>2
<1>12. Becomes(i, c)
  BY <1>1, <1>2, <1>3, <1>10, <1>11, CallbackUpdate
<1>13. c.at = m /\ c.count = Counted(i, n) /\ callback[i].at = m
       /\ callback[i].count \in Nat /\ callback[i].count + 1 <= MaxCount
  BY <1>2, <1>6, <1>10 DEF old, count
<1> QED BY <1>2, <1>10, <1>12, <1>13 DEF i

LEMMA AskBecomes ==
    ASSUME IInv, NEW i \in Callbacks, NEW m \in Mocked, NEW count \in 1..MaxCount, Ask(i, m, count)
    PROVE  \E c \in CallbackStates : Becomes(i, c) /\ c.count = callback[i].count
                                     /\ callback[i].at = Nowhere /\ c.count = 0
<1> DEFINE c == [NoCallback EXCEPT !.at = m, !.wanted = count, !.step = "register"]
<1>1. callback[i].step = "none"
  BY DEF Ask
<1>2. callback' = [callback EXCEPT ![i] = c]
  BY DEF Ask
<1>3. callback[i].at = Nowhere /\ callback[i].count = 0
  BY <1>1 DEF IInv, CallbacksFit, Told
<1>4. <<>> \in Seq(0..MaxCount) /\ Len(<<>>) = 0
  BY EmptySeq
<1>5. /\ NoCallback \in CallbackStates /\ NoCallback.count = 0 /\ NoCallback.timed = FALSE
      /\ NoCallback.told = <<>>
  BY <1>4, DeliveryAssumption DEF CallbackStates, NoCallback
<1>6. m \in Members /\ count \in 0..MaxCount /\ count > 0
  BY DeliveryAssumption
<1>7. /\ c \in CallbackStates /\ c.step = "register" /\ c.count = 0 /\ c.wanted = count
      /\ c.timed = FALSE /\ c.told = <<>>
  BY <1>5, <1>6 DEF CallbackStates
<1> HIDE DEF c
<1>9. Told(c)
  BY <1>4, <1>6, <1>7 DEF Told
<1>8. Becomes(i, c)
  BY <1>2, <1>7, <1>9, CallbackUpdate DEF IInv
<1> QED BY <1>3, <1>7, <1>8

\* The callbacks of Register, Unregister and Timeout count nothing.
LEMMA OtherBecomes ==
    ASSUME IInv, NEW i \in Callbacks, Register(i) \/ Unregister(i) \/ Timeout(i)
    PROVE  \E c \in CallbackStates : Becomes(i, c) /\ c.at = callback[i].at
                                                   /\ c.count = callback[i].count
<1> DEFINE old == callback[i]
<1>1. /\ TypeOK /\ old \in CallbackStates
      /\ old.count \in 0..MaxCount /\ old.told \in Seq(0..MaxCount)
  BY CallbackOf DEF IInv
<1>2. Told(old)
  BY DEF IInv, CallbacksFit
<1>3. CASE Register(i)
  <2> DEFINE c == [old EXCEPT !.step = "wait"]
  <2>1. old.step = "register" /\ callback' = [callback EXCEPT ![i] = c]
    BY <1>3 DEF Register
  <2> HIDE DEF old
  <2>2. /\ c \in CallbackStates /\ c.step = "wait" /\ c.at = old.at /\ c.count = old.count
        /\ c.wanted = old.wanted /\ c.told = old.told /\ c.timed = old.timed
    BY <1>1 DEF CallbackStates
  <2> HIDE DEF c
  <2>3. Told(c)
    BY <1>2, <2>1, <2>2 DEF Told
  <2>4. Becomes(i, c)
    BY <1>1, <2>1, <2>2, <2>3, CallbackUpdate
  <2> QED BY <2>2, <2>4 DEF old
<1>4. CASE Unregister(i)
  <2> DEFINE c == [old EXCEPT !.step = "ended"]
  <2>1. old.step = "unregister" /\ callback' = [callback EXCEPT ![i] = c]
    BY <1>4 DEF Unregister
  <2> HIDE DEF old
  <2>2. /\ c \in CallbackStates /\ c.step = "ended" /\ c.at = old.at /\ c.count = old.count
        /\ c.wanted = old.wanted /\ c.told = old.told
    BY <1>1 DEF CallbackStates
  <2> HIDE DEF c
  <2>3. Told(c)
    BY <1>2, <2>1, <2>2 DEF Told
  <2>4. Becomes(i, c)
    BY <1>1, <2>1, <2>2, <2>3, CallbackUpdate
  <2> QED BY <2>2, <2>4 DEF old
<1>5. CASE Timeout(i)
  <2> DEFINE told == Append(old.told, old.count)
             c == [old EXCEPT !.timed = TRUE, !.told = told]
  <2>1. old.step = "wait" /\ ~old.timed /\ callback' = [callback EXCEPT ![i] = c]
    BY <1>5 DEF Timeout
  <2> HIDE DEF old
  <2>2. Len(old.told) = 0 /\ old.count < old.wanted
    BY <1>2, <2>1 DEF Told
  <2>3. told \in Seq(0..MaxCount) /\ Len(told) = 1 /\ told[1] = old.count
    BY <1>1, <2>2, AppendTold
  <2> HIDE DEF told
  <2>4. /\ c \in CallbackStates /\ c.step = old.step /\ c.at = old.at /\ c.count = old.count
        /\ c.wanted = old.wanted /\ c.told = told /\ c.timed = TRUE
    BY <1>1, <2>3 DEF CallbackStates
  <2> HIDE DEF c
  <2>5. c.told[1] # c.wanted
    BY <1>1, <2>2, <2>3, <2>4
  <2>6. Told(c)
    BY <2>1, <2>2, <2>3, <2>4, <2>5 DEF Told
  <2>7. Becomes(i, c)
    BY <1>1, <2>1, <2>4, <2>6, CallbackUpdate
  <2> QED BY <2>4, <2>7 DEF old
<1> QED BY <1>3, <1>4, <1>5
-----------------------------------------------------------------------------
(* Types *)

LEMMA LostFacts ==
    ASSUME NEW m \in Members
    PROVE  /\ Lost(m) \in CallbackStates /\ Told(Lost(m))
           /\ Lost(m).at = m /\ Lost(m).count = 0
<1> DEFINE c == [NoCallback EXCEPT !.at = m, !.step = "ended"]
<1>1. <<>> \in Seq(0..MaxCount) /\ Len(<<>>) = 0
  BY EmptySeq
<1>2. NoCallback \in CallbackStates /\ NoCallback.count = 0 /\ NoCallback.told = <<>>
  BY <1>1, DeliveryAssumption DEF CallbackStates, NoCallback
<1>3. /\ c \in CallbackStates /\ c.at = m /\ c.count = 0 /\ c.step = "ended"
      /\ c.told = <<>>
  BY <1>2 DEF CallbackStates
<1>4. Lost(m) = c
  BY DEF Lost
<1> HIDE DEF c
<1>5. Told(c)
  BY <1>1, <1>3 DEF Told
<1> QED BY <1>3, <1>4, <1>5

LEMMA NextType ==
    ASSUME IInv, [Next]_vars
    PROVE  TypeOK'
<1> USE DEF IInv
<1>0. /\ TypeOK /\ callback \in [Callbacks -> CallbackStates]
      /\ step \in [Members -> [Msgs -> Steps]]
  BY DEF TypeOK, CallbackStates, Steps
<1>1. CASE UNCHANGED vars
  BY <1>1 DEF TypeOK, vars, store, publish, handlers, acks
<1>2. CASE Send
  <2>1. sent + 1 \in Msgs
    BY <1>2, DeliveryAssumption DEF TypeOK, Send, Msgs
  <2>2. sent' \in 0..MaxSends /\ matching' \subseteq Msgs
    BY <1>2, <2>1 DEF TypeOK, Send, Msgs
  <2>3. sending' \in [going : BOOLEAN, start : SUBSET Members, seen : SUBSET Members]
    BY <1>2 DEF TypeOK, Send
  <2> QED BY <1>2, <2>2, <2>3 DEF TypeOK, Send, store, handlers, acks
<1>3. ASSUME NEW m \in Members, Join(m) \/ Leave(m) PROVE TypeOK'
  BY <1>3 DEF TypeOK, Join, Leave, publish, handlers, acks
<1>4. ASSUME NEW m \in Members, Add(m) \/ Delete(m) PROVE TypeOK'
  BY <1>4 DEF TypeOK, Add, Delete, publish, handlers, acks
<1>5. ASSUME NEW m \in Members, Publish(m) PROVE TypeOK'
  <2>1. sent \in Msgs
    BY <1>5 DEF Publish, NotYetSent
  <2>2. step' \in [Members -> [Msgs -> Steps]]
    BY <1>0, <1>5, <2>1 DEF Publish, Steps
  <2>3. sending' \in [going : BOOLEAN, start : SUBSET Members, seen : SUBSET Members]
    BY <1>5 DEF Publish, TypeOK
  <2> QED BY <1>5, <2>2, <2>3 DEF TypeOK, Publish, store, acks, Steps
<1>6. CASE Return
  BY <1>6 DEF TypeOK, Return, store, handlers, acks, Idle
<1>7. CASE RaceInSend
  BY <1>7 DEF TypeOK, RaceInSend, handlers, acks, Idle
<1>8. ASSUME NEW m \in Members, NEW n \in Msgs, Check(m, n) PROVE TypeOK'
  <2>1. step' \in [Members -> [Msgs -> Steps]]
    BY <1>0, <1>8 DEF Check, Steps
  <2> QED BY <1>8, <2>1 DEF TypeOK, Check, store, publish, acks, Steps
<1>9. ASSUME NEW m \in Members, NEW n \in Msgs, Fetch(m, n) PROVE TypeOK'
  <2>1. step' \in [Members -> [Msgs -> Steps]]
    BY <1>0, <1>9 DEF Fetch, Steps
  <2>2. chan' \in [Members -> [Msgs -> Callbacks \cup {NoChan}]]
    BY <1>9 DEF Fetch, TypeOK
  <2> QED BY <1>9, <2>1, <2>2 DEF TypeOK, Fetch, store, publish, acks, Steps
<1>10. ASSUME NEW m \in Members, NEW n \in Msgs, Ack(m, n) PROVE TypeOK'
  <2>1. step' \in [Members -> [Msgs -> Steps]]
    BY <1>0, <1>10 DEF Ack, Steps
  <2>2. chan' \in [Members -> [Msgs -> Callbacks \cup {NoChan}]]
    BY <1>10 DEF Ack, TypeOK
  <2>3. callback' \in [Callbacks -> CallbackStates]
    BY <1>10, AckBecomes DEF Becomes
  <2>4. UNCHANGED <<store, publish, ackChans, down>>
    BY <1>10 DEF Ack
  <2> QED BY <2>1, <2>2, <2>3, <2>4 DEF TypeOK, store, publish, Steps, CallbackStates
<1>11. ASSUME NEW i \in Callbacks, NEW m \in Mocked, NEW count \in 1..MaxCount, Ask(i, m, count)
       PROVE  TypeOK'
  <2>1. callback' \in [Callbacks -> CallbackStates]
    BY <1>11, AskBecomes DEF Becomes
  <2>2. UNCHANGED <<store, publish, handlers, ackChans, down>>
    BY <1>11 DEF Ask
  <2> QED BY <2>1, <2>2 DEF TypeOK, store, publish, handlers, CallbackStates
<1>12. ASSUME NEW i \in Callbacks, Register(i) \/ Unregister(i) \/ Timeout(i) PROVE TypeOK'
  <2>1. callback' \in [Callbacks -> CallbackStates]
    BY <1>12, OtherBecomes DEF Becomes
  <2>2. UNCHANGED <<store, publish, handlers, down>>
    BY <1>12 DEF Register, Unregister, Timeout
  <2>3. ackChans' \in [Members -> Callbacks \cup {NoChan}]
    <3>1. ackChans \in [Members -> Callbacks \cup {NoChan}]
      BY DEF TypeOK
    <3>2. CASE Register(i)
      BY <3>1, <3>2 DEF Register
    <3>3. CASE Unregister(i)
      BY <3>1, <3>3 DEF Unregister
    <3>4. CASE Timeout(i)
      BY <3>1, <3>4 DEF Timeout
    <3> QED BY <1>12, <3>2, <3>3, <3>4
  <2> QED BY <2>1, <2>2, <2>3 DEF TypeOK, store, publish, handlers, CallbackStates
<1>13. ASSUME NEW m \in Members, RaceInData(m) PROVE TypeOK'
  <2>1. /\ callback' = [i \in Callbacks |-> IF callback[i].at = m THEN Lost(m) ELSE callback[i]]
        /\ step' = [step EXCEPT ![m] = [n \in Msgs |-> "none"]]
        /\ chan' = [chan EXCEPT ![m] = [n \in Msgs |-> NoChan]]
        /\ ackChans' = [ackChans EXCEPT ![m] = NoChan]
        /\ down' = down \cup {m} /\ listening' = listening \ {m}
        /\ UNCHANGED <<subs, pending, changes, publish>>
    BY <1>13 DEF RaceInData
  <2>2. Lost(m) \in CallbackStates
    BY LostFacts
  <2>3. callback' \in [Callbacks -> CallbackStates]
    BY <1>0, <2>1, <2>2
  <2>4. step' \in [Members -> [Msgs -> Steps]]
    BY <1>0, <2>1 DEF Steps
  <2>5. /\ chan' \in [Members -> [Msgs -> Callbacks \cup {NoChan}]]
        /\ ackChans' \in [Members -> Callbacks \cup {NoChan}]
    BY <2>1 DEF TypeOK
  <2> QED BY <2>1, <2>3, <2>4, <2>5 DEF TypeOK, publish, Steps, CallbackStates
<1> QED BY <1>1, <1>2, <1>3, <1>4, <1>5, <1>6, <1>7, <1>8, <1>9, <1>10, <1>11, <1>12, <1>13
        DEF Next, UserStep, DataStep, CallbackStep
-----------------------------------------------------------------------------
(* The rest of the invariant, action by action. *)

\* Callbacks and what is printed stay as they are, the loop of Send may end.
LEMMA StoreStep ==
    ASSUME IInv, TypeOK',
           UNCHANGED <<sent, step, chan, ackChans, callback, matching>>,
           sending' \in {sending, Idle}
    PROVE  IInv'
<1>1. NotYetSent'
  BY DEF IInv, NotYetSent, Idle
<1>2. ChansFit' /\ CallbacksFit'
  BY DEF IInv, ChansFit, CallbacksFit
<1>3. CountsFit'
  BY DEF IInv, CountsFit, CountsAt, PrintedAt
<1> QED BY <1>1, <1>2, <1>3 DEF IInv

LEMMA SendStep ==
    ASSUME IInv, TypeOK', Send
    PROVE  IInv'
<1>1. /\ sent' = sent + 1 /\ sending'.going /\ sending'.seen = {} /\ sent \in Nat
      /\ sent < MaxSends /\ matching \subseteq matching'
      /\ step' = step /\ chan' = chan /\ ackChans' = ackChans /\ callback' = callback
  BY DEF Send, handlers, acks, IInv, TypeOK
<1>2. sent' \in Msgs
  BY <1>1, DeliveryAssumption DEF Msgs
<1>3. \A m \in Members, n \in Msgs : n > sent => step[m][n] = "none"
  BY DEF IInv, NotYetSent
<1>4. NotYetSent'
  <2>1. \A m \in Members, n \in Msgs : n > sent' => step'[m][n] = "none"
    BY <1>1, <1>3 DEF Msgs
  <2>2. \A m \in Members : step'[m][sent'] = "none"
    BY <1>1, <1>2, <1>3
  <2> QED BY <1>2, <2>1, <2>2 DEF NotYetSent
<1>5. ChansFit' /\ CallbacksFit'
  BY <1>1 DEF IInv, ChansFit, CallbacksFit
<1>6. \A m \in Members : CountsAt(m)' = CountsAt(m) /\ PrintedAt(m) \subseteq PrintedAt(m)'
  BY <1>1 DEF CountsAt, PrintedAt
<1> QED BY <1>4, <1>5, <1>6, CountsKept DEF IInv

LEMMA PublishStep ==
    ASSUME IInv, TypeOK', NEW m \in Members, Publish(m)
    PROVE  IInv'
<1>1. /\ sending.going /\ m \notin sending.seen
      /\ step' = step \/ step' = [step EXCEPT ![m][sent] = "read"]
      /\ sending'.seen = sending.seen \cup {m}
      /\ UNCHANGED <<sent, chan, ackChans, callback, matching>>
  BY DEF Publish, store, acks, IInv, TypeOK
<1>2. /\ sent \in Msgs /\ step[m][sent] = "none"
      /\ \A x \in Members \ sending.seen : step[x][sent] = "none"
      /\ \A x \in Members, n \in Msgs : n > sent => step[x][n] = "none"
  BY <1>1 DEF IInv, NotYetSent
<1>3. \A x \in Members, n \in Msgs : x # m \/ n # sent => step'[x][n] = step[x][n]
  BY <1>1 DEF IInv, TypeOK
<1>4. NotYetSent'
  <2>1. \A x \in Members, n \in Msgs : n > sent' => step'[x][n] = "none"
    BY <1>1, <1>2, <1>3 DEF Msgs
  <2>2. \A x \in Members \ sending'.seen : step'[x][sent'] = "none"
    BY <1>1, <1>2, <1>3
  <2> QED BY <1>1, <1>2, <2>1, <2>2 DEF NotYetSent
<1>5. ChansFit' /\ CallbacksFit'
  BY <1>1 DEF IInv, ChansFit, CallbacksFit
<1>6. \A x \in Members : CountsAt(x)' = CountsAt(x)
  BY <1>1 DEF CountsAt
<1>7. \A x \in Members : PrintedAt(x) \subseteq PrintedAt(x)'
  <2> SUFFICES ASSUME NEW x \in Members, NEW n \in PrintedAt(x) PROVE n \in PrintedAt(x)'
    OBVIOUS
  <2>1. n \in matching /\ n \in Msgs /\ step[x][n] = "printed"
    BY DEF PrintedAt, IInv, TypeOK
  <2>2. x # m \/ n # sent
    BY <1>2, <2>1
  <2>3. step'[x][n] = "printed"
    BY <1>3, <2>1, <2>2
  <2> QED BY <1>1, <2>1, <2>3 DEF PrintedAt
<1> QED BY <1>4, <1>5, <1>6, <1>7, CountsKept DEF IInv

\* A goroutine that handles its copy of n has begun with it before.
LEMMA HandlerStep ==
    ASSUME IInv, NEW m \in Members, NEW n \in Msgs, step[m][n] # "none",
           \A x \in Members, k \in Msgs : x # m \/ k # n => step'[x][k] = step[x][k],
           sent' = sent, sending' = sending
    PROVE  NotYetSent'
<1>1. \A x \in Members, k \in Msgs : k > sent' => step'[x][k] = "none"
  BY DEF IInv, NotYetSent
<1>2. ASSUME sending'.going PROVE \A x \in Members \ sending'.seen : step'[x][sent'] = "none"
  BY <1>2 DEF IInv, NotYetSent
<1> QED BY <1>1, <1>2 DEF IInv, NotYetSent

LEMMA PrintedGrows ==
    ASSUME IInv, NEW m \in Members, NEW n \in Msgs, step[m][n] # "printed",
           \A x \in Members, k \in Msgs : x # m \/ k # n => step'[x][k] = step[x][k],
           matching' = matching
    PROVE  \A x \in Members : PrintedAt(x) \subseteq PrintedAt(x)'
<1> SUFFICES ASSUME NEW x \in Members, NEW k \in PrintedAt(x) PROVE k \in PrintedAt(x)'
  OBVIOUS
<1>1. k \in matching /\ k \in Msgs /\ step[x][k] = "printed"
  BY DEF PrintedAt, IInv, TypeOK
<1>2. step'[x][k] = "printed"
  BY <1>1
<1> QED BY <1>1, <1>2 DEF PrintedAt

LEMMA CheckStep ==
    ASSUME IInv, TypeOK', NEW m \in Members, NEW n \in Msgs, Check(m, n)
    PROVE  IInv'
<1>1. /\ step[m][n] = "read"
      /\ \A x \in Members, k \in Msgs : x # m \/ k # n => step'[x][k] = step[x][k]
      /\ UNCHANGED <<sent, sending, matching, chan, ackChans, callback>>
  BY DEF Check, publish, acks, IInv, TypeOK
<1>2. NotYetSent'
  BY <1>1, HandlerStep
<1>3. ChansFit' /\ CallbacksFit'
  BY <1>1 DEF IInv, ChansFit, CallbacksFit
<1>4. \A x \in Members : CountsAt(x)' = CountsAt(x)
  BY <1>1 DEF CountsAt
<1>5. \A x \in Members : PrintedAt(x) \subseteq PrintedAt(x)'
  BY <1>1, PrintedGrows
<1> QED BY <1>2, <1>3, <1>4, <1>5, CountsKept DEF IInv

LEMMA FetchStep ==
    ASSUME IInv, TypeOK', NEW m \in Members, NEW n \in Msgs, Fetch(m, n)
    PROVE  IInv'
<1>1. /\ step[m][n] = "found"
      /\ \A x \in Members, k \in Msgs : x # m \/ k # n => step'[x][k] = step[x][k]
      /\ chan' = [chan EXCEPT ![m][n] = ackChans[m]]
      /\ UNCHANGED <<sent, sending, matching, ackChans, callback>>
  BY DEF Fetch, publish, acks, IInv, TypeOK
<1>2. NotYetSent'
  BY <1>1, HandlerStep
<1>3. /\ chan'[m][n] = ackChans[m]
      /\ \A x \in Members, k \in Msgs : x # m \/ k # n => chan'[x][k] = chan[x][k]
  BY <1>1 DEF IInv, TypeOK
<1>4. ChansFit' /\ CallbacksFit'
  BY <1>1, <1>3 DEF IInv, ChansFit, CallbacksFit
<1>5. \A x \in Members : CountsAt(x)' = CountsAt(x)
  BY <1>1 DEF CountsAt
<1>6. \A x \in Members : PrintedAt(x) \subseteq PrintedAt(x)'
  BY <1>1, PrintedGrows
<1> QED BY <1>2, <1>4, <1>5, <1>6, CountsKept DEF IInv

\* What is counted by Ack is printed by it.
LEMMA AckStep ==
    ASSUME IInv, TypeOK', NEW m \in Members, NEW n \in Msgs, Ack(m, n)
    PROVE  IInv'
<1>1. /\ step[m][n] = "ack" /\ step' = [step EXCEPT ![m][n] = "printed"]
      /\ chan' = [chan EXCEPT ![m][n] = NoChan]
      /\ UNCHANGED <<sent, sending, matching, ackChans>>
  BY DEF Ack, publish
<1>2. /\ step'[m][n] = "printed" /\ chan'[m][n] = NoChan
      /\ \A x \in Members, k \in Msgs : x # m \/ k # n =>
            step'[x][k] = step[x][k] /\ chan'[x][k] = chan[x][k]
  BY <1>1 DEF IInv, TypeOK
<1>3. PICK i \in Callbacks, c \in CallbackStates :
         /\ callback[i].at = m /\ callback[i].count \in Nat
         /\ callback[i].count + 1 <= MaxCount
         /\ Becomes(i, c) /\ c.at = m /\ c.count = Counted(i, n)
  BY AckBecomes
<1>4. /\ callback'[i].at = m /\ callback'[i].count = Counted(i, n)
      /\ \A j \in Callbacks \ {i} : callback'[j] = callback[j]
      /\ \A j \in Callbacks : callback'[j].at = callback[j].at
  BY <1>3 DEF Becomes
<1>5. NotYetSent'
  BY <1>1, <1>2, HandlerStep
<1>6. ChansFit'
  <2>1. ASSUME NEW x \in Members, ackChans'[x] # NoChan PROVE callback'[ackChans'[x]].at = x
    BY <1>1, <1>4, <2>1 DEF IInv, ChansFit, TypeOK
  <2>2. ASSUME NEW x \in Members, NEW k \in Msgs, chan'[x][k] # NoChan
        PROVE  callback'[chan'[x][k]].at = x
    <3>1. chan'[x][k] = chan[x][k] /\ chan[x][k] \in Callbacks
      BY <1>2, <2>2 DEF IInv, TypeOK
    <3> QED BY <1>4, <2>2, <3>1 DEF IInv, ChansFit
  <2> QED BY <2>1, <2>2 DEF ChansFit
<1>7. CallbacksFit'
  BY <1>3, BecomesFit
<1>8. \A x \in Members : PrintedAt(x) \subseteq PrintedAt(x)'
  BY <1>1, <1>2, PrintedGrows
<1>9. CASE n \notin matching
  <2>1. \A j \in Callbacks : callback'[j].at = callback[j].at /\ callback'[j].count = callback[j].count
    BY <1>4, <1>9 DEF Counted
  <2>2. CountsFit'
    BY <1>8, <2>1, CountsSame, CountsKept
  <2> QED BY <1>5, <1>6, <1>7, <2>2 DEF IInv
<1>10. CASE n \in matching
  <2> DEFINE k == callback[i].count + 1
  <2>1. callback'[i].count = k /\ k \in 1..MaxCount
    BY <1>3, <1>4, <1>10 DEF Counted
  <2>2. CountsAt(m)' = CountsAt(m) \cup {<<i, k>>}
    <3>1. ASSUME NEW x \in Callbacks \X (1..MaxCount)
          PROVE  x \in CountsAt(m)' <=> x \in CountsAt(m) \/ x = <<i, k>>
      <4>1. x = <<x[1], x[2]>> /\ x[1] \in Callbacks /\ x[2] \in 1..MaxCount
        OBVIOUS
      <4>2. CASE x[1] # i
        BY <1>4, <4>1, <4>2 DEF CountsAt
      <4>3. CASE x[1] = i
        <5>1. x[2] <= k <=> x[2] <= callback[i].count \/ x[2] = k
          BY <1>3, <4>1
        <5>2. x = <<i, k>> <=> x[2] = k
          BY <4>1, <4>3
        <5> QED BY <1>3, <1>4, <2>1, <4>1, <4>3, <5>1, <5>2 DEF CountsAt
      <4> QED BY <4>2, <4>3
    <3>2. <<i, k>> \in Callbacks \X (1..MaxCount)
      BY <2>1
    <3>3. CountsAt(m)' \subseteq Callbacks \X (1..MaxCount)
          /\ CountsAt(m) \subseteq Callbacks \X (1..MaxCount)
      BY DEF CountsAt
    <3> HIDE DEF k
    <3> QED BY <3>1, <3>2, <3>3
  <2>3. PrintedAt(m)' = PrintedAt(m) \cup {n}
    <3>1. ASSUME NEW x \in PrintedAt(m)' PROVE x \in PrintedAt(m) \cup {n}
      <4>1. x \in matching /\ x \in Msgs /\ step'[m][x] = "printed"
        BY <1>1 DEF PrintedAt, IInv, TypeOK
      <4> QED BY <1>2, <4>1 DEF PrintedAt
    <3>2. n \in PrintedAt(m)'
      BY <1>1, <1>2, <1>10 DEF PrintedAt
    <3> QED BY <1>8, <3>1, <3>2
  <2>4. n \notin PrintedAt(m)
    BY <1>1 DEF PrintedAt
  <2>5. <<i, k>> \notin CountsAt(m)
    BY <1>3 DEF CountsAt
  <2>6. /\ Cardinality(CountsAt(m)') = Cardinality(CountsAt(m)) + 1
        /\ Cardinality(PrintedAt(m)') = Cardinality(PrintedAt(m)) + 1
        /\ Cardinality(CountsAt(m)) \in Nat /\ Cardinality(PrintedAt(m)) \in Nat
    <3> HIDE DEF k
    <3>1. IsFiniteSet(CountsAt(m)) /\ IsFiniteSet(PrintedAt(m))
      BY CountsFinite, PrintedFinite DEF IInv
    <3>2. Cardinality(CountsAt(m) \cup {<<i, k>>}) = Cardinality(CountsAt(m)) + 1
      BY <2>5, <3>1, FS_AddElement
    <3>3. Cardinality(PrintedAt(m) \cup {n}) = Cardinality(PrintedAt(m)) + 1
      BY <2>4, <3>1, FS_AddElement
    <3>4. Cardinality(CountsAt(m)) \in Nat /\ Cardinality(PrintedAt(m)) \in Nat
      BY CountsFinite, PrintedFinite DEF IInv
    <3> QED BY <2>2, <2>3, <3>2, <3>3, <3>4
  <2>7. Cardinality(CountsAt(m)') <= Cardinality(PrintedAt(m)')
    BY <2>6 DEF IInv, CountsFit
  <2>8. ASSUME NEW x \in Members, x # m
        PROVE  CountsAt(x)' = CountsAt(x) /\ PrintedAt(x)' = PrintedAt(x)
    <3>1. CountsAt(x)' = CountsAt(x)
      <4>1. ASSUME NEW y \in Callbacks \X (1..MaxCount)
            PROVE  y \in CountsAt(x)' <=> y \in CountsAt(x)
        <5>1. y[1] \in Callbacks
          OBVIOUS
        <5>2. CASE y[1] = i
          BY <1>3, <1>4, <2>8, <5>2 DEF CountsAt
        <5>3. CASE y[1] # i
          BY <1>4, <5>1, <5>3 DEF CountsAt
        <5> QED BY <5>2, <5>3
      <4> QED BY <4>1 DEF CountsAt
    <3>2. \A y \in Msgs : step'[x][y] = step[x][y]
      BY <1>2, <2>8
    <3>3. PrintedAt(x)' = PrintedAt(x)
      BY <1>1, <3>2 DEF PrintedAt, IInv, TypeOK
    <3> QED BY <3>1, <3>3
  <2>9. CountsFit'
    <3>1. ASSUME NEW x \in Members PROVE Cardinality(CountsAt(x)') <= Cardinality(PrintedAt(x)')
      <4>1. CASE x = m
        BY <2>7, <4>1
      <4>2. CASE x # m
        <5>1. CountsAt(x)' = CountsAt(x) /\ PrintedAt(x)' = PrintedAt(x)
          BY <2>8, <4>2
        <5>2. Cardinality(CountsAt(x)) <= Cardinality(PrintedAt(x))
          BY DEF IInv, CountsFit
        <5> QED BY <5>1, <5>2
      <4> QED BY <4>1, <4>2
    <3> QED BY <3>1 DEF CountsFit
  <2> QED BY <1>5, <1>6, <1>7, <2>9 DEF IInv
<1> QED BY <1>9, <1>10

\* A new callback has counted nothing, and no channel is its own yet.
LEMMA AskStep ==
    ASSUME IInv, TypeOK', NEW i \in Callbacks, NEW m \in Mocked, NEW count \in 1..MaxCount,
           Ask(i, m, count)
    PROVE  IInv'
<1>1. UNCHANGED <<sent, sending, matching, step, chan, ackChans>>
  BY DEF Ask, publish, handlers
<1>2. PICK c \in CallbackStates : /\ Becomes(i, c) /\ c.count = callback[i].count
                                  /\ callback[i].at = Nowhere /\ c.count = 0
  BY AskBecomes
<1>3. /\ callback'[i].count = 0 /\ callback[i].count = 0
      /\ \A j \in Callbacks \ {i} : callback'[j] = callback[j]
  BY <1>2 DEF Becomes
<1>4. NotYetSent'
  BY <1>1 DEF IInv, NotYetSent
<1>5. \A x \in Members : /\ ackChans[x] # i
                         /\ \A n \in Msgs : chan[x][n] # i
  BY <1>2, DeliveryAssumption DEF IInv, ChansFit, Callbacks, NoChan
<1>6. ChansFit'
  <2>1. ASSUME NEW x \in Members, ackChans'[x] # NoChan PROVE callback'[ackChans'[x]].at = x
    BY <1>1, <1>3, <1>5, <2>1 DEF IInv, ChansFit, TypeOK
  <2>2. ASSUME NEW x \in Members, NEW n \in Msgs, chan'[x][n] # NoChan
        PROVE  callback'[chan'[x][n]].at = x
    <3>1. chan'[x][n] = chan[x][n] /\ chan[x][n] \in Callbacks /\ chan[x][n] # i
      BY <1>1, <1>5, <2>2 DEF IInv, TypeOK
    <3> QED BY <1>3, <2>2, <3>1 DEF IInv, ChansFit
  <2> QED BY <2>1, <2>2 DEF ChansFit
<1>7. CallbacksFit'
  BY <1>2, BecomesFit
<1>8. \A x \in Members : CountsAt(x)' = CountsAt(x)
  <2> SUFFICES ASSUME NEW x \in Members, NEW y \in Callbacks \X (1..MaxCount)
               PROVE  y \in CountsAt(x)' <=> y \in CountsAt(x)
    BY DEF CountsAt
  <2>1. y[1] \in Callbacks /\ y[2] \in Nat /\ y[2] > 0
    OBVIOUS
  <2>2. CASE y[1] = i
    BY <1>3, <2>1, <2>2 DEF CountsAt
  <2>3. CASE y[1] # i
    BY <1>3, <2>1, <2>3 DEF CountsAt
  <2> QED BY <2>2, <2>3
<1>9. \A x \in Members : PrintedAt(x) \subseteq PrintedAt(x)'
  BY <1>1 DEF PrintedAt
<1> QED BY <1>4, <1>6, <1>7, <1>8, <1>9, CountsKept DEF IInv

LEMMA CallbackStepKeeps ==
    ASSUME IInv, TypeOK', NEW i \in Callbacks, Register(i) \/ Unregister(i) \/ Timeout(i)
    PROVE  IInv'
<1>1. UNCHANGED <<sent, sending, matching, step, chan>>
  BY DEF Register, Unregister, Timeout, publish, handlers
<1>2. PICK c \in CallbackStates : /\ Becomes(i, c) /\ c.at = callback[i].at
                                  /\ c.count = callback[i].count
  BY OtherBecomes
<1>3. \A j \in Callbacks : callback'[j].at = callback[j].at /\ callback'[j].count = callback[j].count
  BY <1>2 DEF Becomes
<1>4. NotYetSent'
  BY <1>1 DEF IInv, NotYetSent
<1>5. \A x \in Members : \/ ackChans'[x] = ackChans[x]
                         \/ ackChans'[x] = NoChan
                         \/ ackChans'[x] = i /\ callback[i].at = x
  <2>1. ackChans \in [Members -> Callbacks \cup {NoChan}]
    BY DEF IInv, TypeOK
  <2>2. \/ ackChans' = ackChans
        \/ \E v \in {i, NoChan} : ackChans' = [ackChans EXCEPT ![callback[i].at] = v]
    BY DEF Register, Unregister, Timeout
  <2> QED BY <2>1, <2>2
<1>6. ChansFit'
  <2>1. ASSUME NEW x \in Members, ackChans'[x] # NoChan PROVE callback'[ackChans'[x]].at = x
    <3>1. CASE ackChans'[x] = ackChans[x]
      <4>1. ackChans[x] \in Callbacks /\ callback[ackChans[x]].at = x
        BY <2>1, <3>1 DEF IInv, ChansFit, TypeOK
      <4> QED BY <1>3, <3>1, <4>1
    <3>2. CASE ackChans'[x] = i /\ callback[i].at = x
      BY <1>3, <3>2
    <3> QED BY <1>5, <2>1, <3>1, <3>2
  <2>2. ASSUME NEW x \in Members, NEW n \in Msgs, chan'[x][n] # NoChan
        PROVE  callback'[chan'[x][n]].at = x
    <3>1. chan'[x][n] = chan[x][n] /\ chan[x][n] \in Callbacks
      BY <1>1, <2>2 DEF IInv, TypeOK
    <3> QED BY <1>3, <2>2, <3>1 DEF IInv, ChansFit
  <2> QED BY <2>1, <2>2 DEF ChansFit
<1>7. CallbacksFit'
  BY <1>2, BecomesFit
<1>8. \A x \in Members : PrintedAt(x) \subseteq PrintedAt(x)'
  BY <1>1 DEF PrintedAt
<1> QED BY <1>3, <1>4, <1>6, <1>7, <1>8, CountsSame, CountsKept DEF IInv

\* With the process die what its callbacks counted and what its goroutines did.
LEMMA RaceInDataStep ==
    ASSUME IInv, TypeOK', NEW m \in Members, RaceInData(m)
    PROVE  IInv'
<1>1. /\ step' = [step EXCEPT ![m] = [n \in Msgs |-> "none"]]
      /\ chan' = [chan EXCEPT ![m] = [n \in Msgs |-> NoChan]]
      /\ ackChans' = [ackChans EXCEPT ![m] = NoChan]
      /\ callback' = [i \in Callbacks |-> IF callback[i].at = m THEN Lost(m) ELSE callback[i]]
      /\ UNCHANGED <<sent, sending, matching>>
  BY DEF RaceInData, publish
<1>2. /\ \A n \in Msgs : step'[m][n] = "none" /\ chan'[m][n] = NoChan
      /\ ackChans'[m] = NoChan
      /\ \A x \in Members \ {m} : step'[x] = step[x] /\ chan'[x] = chan[x]
                                  /\ ackChans'[x] = ackChans[x]
  BY <1>1 DEF IInv, TypeOK
<1>3. \A j \in Callbacks : /\ callback[j].at = m => callback'[j] = Lost(m)
                           /\ callback[j].at # m => callback'[j] = callback[j]
  BY <1>1
<1>4. \A j \in Callbacks : /\ callback'[j].at = callback[j].at
                           /\ callback[j].at = m => callback'[j].count = 0
                           /\ callback[j].at # m => callback'[j].count = callback[j].count
  BY <1>3, LostFacts
<1>5. NotYetSent'
  <2>1. ASSUME NEW x \in Members, NEW n \in Msgs PROVE step'[x][n] \in {step[x][n], "none"}
    BY <1>2
  <2> QED BY <1>1, <2>1 DEF IInv, NotYetSent
<1>6. ChansFit'
  <2>1. ASSUME NEW x \in Members, ackChans'[x] # NoChan PROVE callback'[ackChans'[x]].at = x
    <3>1. x # m /\ ackChans'[x] = ackChans[x]
      BY <1>2, <2>1
    <3>2. ackChans[x] \in Callbacks /\ callback[ackChans[x]].at = x
      BY <2>1, <3>1 DEF IInv, ChansFit, TypeOK
    <3> QED BY <1>4, <3>1, <3>2
  <2>2. ASSUME NEW x \in Members, NEW n \in Msgs, chan'[x][n] # NoChan
        PROVE  callback'[chan'[x][n]].at = x
    <3>1. chan'[x][n] = chan[x][n] /\ chan[x][n] \in Callbacks
      <4>1. x # m
        BY <1>2, <2>2
      <4>2. chan'[x] = chan[x] /\ chan[x][n] \in Callbacks \cup {NoChan}
        BY <1>2, <4>1 DEF IInv, TypeOK
      <4> QED BY <2>2, <4>2
    <3> QED BY <1>4, <2>2, <3>1 DEF IInv, ChansFit
  <2> QED BY <2>1, <2>2 DEF ChansFit
<1>7. CallbacksFit'
  <2>1. ASSUME NEW j \in Callbacks, NEW c, c = callback'[j] PROVE Told(c)
    <3>1. CASE callback[j].at = m
      BY <1>3, <2>1, <3>1, LostFacts
    <3>2. CASE callback[j].at # m
      BY <1>3, <2>1, <3>2 DEF IInv, CallbacksFit
    <3> QED BY <3>1, <3>2
  <2> QED BY <2>1 DEF CallbacksFit, Told
<1>8. CountsFit'
  <2> SUFFICES ASSUME NEW x \in Members
               PROVE  Cardinality(CountsAt(x)') <= Cardinality(PrintedAt(x)')
    BY DEF CountsFit
  <2>1. CASE x = m
    <3>1. CountsAt(x)' = {}
      <4> SUFFICES ASSUME NEW y \in CountsAt(x)' PROVE FALSE
        OBVIOUS
      <4>1. /\ y[1] \in Callbacks /\ y[2] \in Nat /\ y[2] > 0
            /\ callback'[y[1]].at = x /\ y[2] <= callback'[y[1]].count
        BY DEF CountsAt
      <4> QED BY <1>4, <2>1, <4>1
    <3>2. PrintedAt(x)' = {}
      BY <1>1, <1>2, <2>1 DEF PrintedAt, IInv, TypeOK
    <3> QED BY <3>1, <3>2, FS_EmptySet
  <2>2. CASE x # m
    <3>1. CountsAt(x)' = CountsAt(x)
      BY <1>4, <2>2 DEF CountsAt
    <3>2. PrintedAt(x)' = PrintedAt(x)
      BY <1>1, <1>2, <2>2 DEF PrintedAt
    <3> QED BY <3>1, <3>2 DEF IInv, CountsFit
  <2> QED BY <2>1, <2>2
<1> QED BY <1>5, <1>6, <1>7, <1>8 DEF IInv
-----------------------------------------------------------------------------
LEMMA NextIInv == IInv /\ [Next]_vars => IInv'
<1> SUFFICES ASSUME IInv, [Next]_vars PROVE IInv'
  OBVIOUS
<1>1. TypeOK'
  BY NextType
<1>2. CASE UNCHANGED vars
  BY <1>1, <1>2, StoreStep DEF vars, publish, handlers, acks
<1>3. ASSUME NEW m \in Members, Join(m) \/ Leave(m) \/ Add(m) \/ Delete(m) PROVE IInv'
  BY <1>1, <1>3, StoreStep DEF Join, Leave, Add, Delete, publish, handlers, acks
<1>4. ASSUME Return \/ RaceInSend PROVE IInv'
  BY <1>1, <1>4, StoreStep DEF Return, RaceInSend, handlers, acks
<1> QED BY <1>1, <1>2, <1>3, <1>4, SendStep, PublishStep, CheckStep, FetchStep, AckStep, AskStep,
           CallbackStepKeeps, RaceInDataStep
        DEF Next, UserStep, DataStep, CallbackStep

LEMMA SpecIInv == Spec => []IInv
<1> QED BY InitIInv, NextIInv, PTL DEF Spec

\* Every behaviour keeps the types: a callback counts no more than it waits
\* for, and Send is at a message that exists.
THEOREM TypeCorrect == Spec => []TypeOK
<1>1. IInv => TypeOK
  BY DEF IInv
<1> QED BY <1>1, SpecIInv, PTL

LEMMA CountRightOf == IInv => CountRight
<1> SUFFICES ASSUME IInv PROVE CountRight
  OBVIOUS
<1>1. ASSUME NEW i \in Callbacks
      PROVE  /\ Len(callback[i].told) <= 2
             /\ \A k \in 1..Len(callback[i].told) :
                   callback[i].told[k] = callback[i].wanted <=>
                       /\ k = Len(callback[i].told)
                       /\ callback[i].step \in {"unregister", "ended"}
  <2> DEFINE c == callback[i]
  <2>1. Told(c)
    BY DEF IInv, CallbacksFit
  <2>2. /\ Len(c.told) \in Nat
        /\ c.step \in {"none", "register", "wait", "unregister", "ended"}
    BY CallbackOf, LenProperties DEF IInv, CallbackStates
  <2> HIDE DEF c
  <2>3. CASE Len(c.told) = 0
    BY <2>3 DEF c
  <2>4. CASE Len(c.told) = 1
    BY <2>1, <2>2, <2>4 DEF Told, c
  <2>5. CASE Len(c.told) = 2
    BY <2>1, <2>2, <2>5 DEF Told, c
  <2> QED BY <2>1, <2>2, <2>3, <2>4, <2>5 DEF Told
<1> QED BY <1>1 DEF CountRight, IInv, CountsFit

\* However many callbacks a tester asks for, and however they replace each
\* other, no message is counted twice and none before it came; a callback tells
\* the tester twice at most, the number asked for last and once.
THEOREM CountRightHolds == Spec => []CountRight
BY SpecIInv, CountRightOf, PTL
=============================================================================
