------------------------------ MODULE MsysRpc -------------------------------
(***************************************************************************)
(* What the SYS channel promises to the callers of rda_msys_send_cmd: a    *)
(* remote procedure call into the baseband processor.  A call is known to  *)
(* the BP only by its key (the client device and the message id, which are *)
(* the fields the reply repeats), so the promise is about keys: a caller   *)
(* that returns a status was given an answer of the BP to a request with   *)
(* its key, an answer is given to one caller at most, and nobody else is   *)
(* disturbed.  Every request has a number, which only this specification   *)
(* sees.                                                                   *)
(***************************************************************************)
EXTENDS Integers

CONSTANTS Threads, Keys, Statuses,
          Numbers       \* of the requests

VARIABLES
    client,     \* per thread: what it waits for and what it was given
    asked,      \* requests the BP has not answered
    answers     \* answers on their way back

vars == <<client, asked, answers>>

Idle == [key |-> 0, call |-> 0, answer |-> 0, status |-> "none"]

Init == client = [t \in Threads |-> Idle] /\ asked = {} /\ answers = {}

\* A thread starts to wait for an answer to its key.
Begin(t) == \E k \in Keys, c \in Numbers :
    /\ client[t] = Idle
    /\ client' = [client EXCEPT ![t] =
                    [key |-> k, call |-> c, answer |-> 0, status |-> "none"]]
    /\ UNCHANGED <<asked, answers>>

\* Its request leaves for the BP.
Ask(t) ==
    /\ client[t] # Idle
    /\ asked' = asked \cup {[call |-> client[t].call, key |-> client[t].key]}
    /\ UNCHANGED <<client, answers>>

\* The BP answers a request; the request is gone.
Reply == \E r \in asked, s \in Statuses :
    /\ asked' = asked \ {r}
    /\ answers' = answers \cup {[call |-> r.call, key |-> r.key, status |-> s]}
    /\ UNCHANGED client

Waiting(a) == {t \in Threads : /\ client[t] # Idle /\ client[t].answer = 0
                               /\ client[t].key = a.key}

\* The answer goes to one thread that waits for its key, or to nobody when no
\* thread does.
Deliver == \E a \in answers :
    /\ answers' = answers \ {a}
    /\ IF Waiting(a) = {} THEN UNCHANGED client
       ELSE \E t \in Waiting(a) :
               client' = [client EXCEPT ![t].answer = a.call, ![t].status = a.status]
    /\ UNCHANGED asked

\* A thread returns, with an answer or (timeout) without one.
Return(t) ==
    /\ client[t] # Idle
    /\ client' = [client EXCEPT ![t] = Idle]
    /\ UNCHANGED <<asked, answers>>

Next ==
    \/ \E t \in Threads : Begin(t) \/ Ask(t) \/ Return(t)
    \/ Reply \/ Deliver

Spec == Init /\ [][Next]_vars
=============================================================================
