-------------------------- MODULE RequestResponse --------------------------
(***************************************************************************)
(* What Http::Server promises its browsers: the requests of a connection   *)
(* are answered one by one, in order.  A connection may fall out of step,  *)
(* for ever; nothing is promised about its answers then.                   *)
(***************************************************************************)
EXTENDS Naturals, Sequences

CONSTANTS Connection, Target

VARIABLES asked,     \* the requests of a connection
          answered,  \* what its answers are about
          inStep     \* the connections that the promise holds for

Init ==
    /\ asked = [c \in Connection |-> <<>>]
    /\ answered = [c \in Connection |-> <<>>]
    /\ inStep = [c \in Connection |-> TRUE]

Ask(c) ==
    /\ \E t \in Target : asked' = [asked EXCEPT ![c] = Append(@, t)]
    /\ UNCHANGED <<answered, inStep>>

\* The next request that has no answer gets one.
Answer(c) ==
    /\ inStep[c]
    /\ Len(answered[c]) < Len(asked[c])
    /\ answered' = [answered EXCEPT ![c] = Append(@, asked[c][Len(@) + 1])]
    /\ UNCHANGED <<asked, inStep>>

FallOutOfStep(c) ==
    /\ inStep' = [inStep EXCEPT ![c] = FALSE]
    /\ UNCHANGED <<asked, answered>>

\* Any answer, on a connection that is out of step only.
StrayAnswer(c) ==
    /\ ~inStep[c]
    /\ \A d \in Connection \ {c} : answered'[d] = answered[d]
    /\ UNCHANGED <<asked, inStep>>

Next == \E c \in Connection : Ask(c) \/ Answer(c) \/ FallOutOfStep(c) \/ StrayAnswer(c)

Spec == Init /\ [][Next]_<<asked, answered, inStep>>

=============================================================================
