-------------------------------- MODULE Rpc --------------------------------
(***************************************************************************)
(* What the request-reply transport promises to the callers of Send: a     *)
(* message is handed to a handler of the endpoint it was sent to, at most  *)
(* once, and nowhere else; a call returns at most once, with the answer to *)
(* its own message if a handler took it; if a call fails no handler has    *)
(* its message, nor ever will.                                             *)
(***************************************************************************)
EXTENDS Naturals

CONSTANTS Requests,   \* the calls of Send
          Endpoints,
          Nowhere,    \* the endpoint of a call before it is made
          NoAnswer    \* what a call has before it returns

VARIABLES called,     \* the endpoint of each call
          taken,      \* how often an endpoint handed a message to a handler
          returned    \* what each call returned

vars == <<called, taken, returned>>

\* An answer belongs to the message it answers.
Answer(r, failed) == [of |-> r, failed |-> failed]

Init ==
    /\ called = [r \in Requests |-> Nowhere]
    /\ taken = [e \in Endpoints |-> [r \in Requests |-> 0]]
    /\ returned = [r \in Requests |-> NoAnswer]

Call(r, e) ==
    /\ called[r] = Nowhere
    /\ called' = [called EXCEPT ![r] = e]
    /\ UNCHANGED <<taken, returned>>

Take(r) ==
    /\ called[r] # Nowhere /\ returned[r] = NoAnswer
    /\ taken[called[r]][r] = 0
    /\ taken' = [taken EXCEPT ![called[r]][r] = 1]
    /\ UNCHANGED <<called, returned>>

Return(r) ==
    /\ called[r] # Nowhere /\ returned[r] = NoAnswer
    /\ returned' = [returned EXCEPT ![r] = Answer(r, taken[called[r]][r] = 0)]
    /\ UNCHANGED <<called, taken>>

Next == \E r \in Requests : Take(r) \/ Return(r) \/ \E e \in Endpoints : Call(r, e)

Spec == Init /\ [][Next]_vars
=============================================================================
