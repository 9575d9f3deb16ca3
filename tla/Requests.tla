------------------------------ MODULE Requests ------------------------------
(***************************************************************************)
(* What McpClient promises its callers (runner/src/mcpclient.ts): one      *)
(* request at a time is awaited, every request is settled exactly once,    *)
(* and a request that names an id is settled with data only by the answer  *)
(* to that very request, however late other answers arrive.  A raw frame   *)
(* without an id takes whatever the target says next.                      *)
(***************************************************************************)
CONSTANTS Keys,      \* requests a caller may make
          Raw,       \* the ones sent as raw frames without an id
          Answers,   \* outcomes that carry data of the target
          Failures,  \* outcomes that carry none
          NoOne      \* no request: of an outcome that answers none

VARIABLE call        \* the last one: [key, res, by]; res = "wait" while awaited

Init == call = [key |-> NoOne, res |-> "idle", by |-> NoOne]

\* A request is made; it may fail at once.
Ask == /\ call.res # "wait"
       /\ call' \in [key : Keys, res : Failures \cup {"wait"}, by : {NoOne}]

\* Data arrives: for a request with an id in the answer to that id.  Which frame
\* settles a raw one nobody can tell.
Answer(a) ==
    /\ call.res = "wait"
    /\ call' = [call EXCEPT !.res = a, !.by = IF call.key \in Raw THEN NoOne ELSE call.key]

Fail(f) == call.res = "wait" /\ call' = [call EXCEPT !.res = f]

Settle == (\E a \in Answers : Answer(a)) \/ (\E f \in Failures : Fail(f))

Next == Ask \/ Settle

Spec == Init /\ [][Next]_call /\ WF_call(Settle)
=============================================================================
