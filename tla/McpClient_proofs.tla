-------------------------- MODULE McpClient_proofs --------------------------
(***************************************************************************)
(* Proofs about McpClient, for every value of its constants: TypeOK,       *)
(* CrashCountedOnce, FuzzedAfterHandshake and the safety part of its       *)
(* refinement of Requests.  The inductive invariant says, beside the types *)
(* (Typed):                                                                *)
(*                                                                         *)
(*  - Awaiting: the pending map holds the awaited request and nothing      *)
(*    else, and keys nobody remembers can always be found;                 *)
(*  - Control: the driver is in a phase its program counter belongs to;    *)
(*  - Supervised: a server that starts or runs has restarts left, and a    *)
(*    connection that reads as up was made to a target that died since     *)
(*    or runs;                                                             *)
(*  - Counted: what was counted before a connection came up is at most     *)
(*    the deaths before it;                                                *)
(*  - Shaken: a connection that is up while surfaces are listed or tools   *)
(*    fuzzed is to the incarnation that shook hands.                       *)
(***************************************************************************)
EXTENDS McpClient, FiniteSetTheorems, TLAPS

Passes == {"fuzz", "proto", "benign", "active"}
Lists == {"tools", "prompts", "resources"}
Waits == {"initW", "listW", "caseW"}

Pcs == {"start", "init", "initW", "sleep", "reconn", "rec", "list", "listW",
        "gate", "case", "caseW", "closed"}
Drivers == [pc : Pcs, ph : Phases, n : Nat, tools : 0..NTools, ver : 1..2, tries : 0..MaxTries]
Calls == [key : Keys \cup {NoOne}, res : {"idle", "wait"} \cup Answers \cup Failures,
          by : Keys \cup {NoOne}]
Conns == [st : {"none", "up", "lost", "closed"}, inc : -1..MaxRestarts]

\* TypeOK, with its sets named.
Typed ==
    /\ kind \in Kinds
    /\ tgt \in {"starting", "up", "down", "halted"}
    /\ deaths \in 0..MaxRestarts /\ noise \in 0..MaxNoise
    /\ work \subseteq Keys /\ pending \subseteq Keys
    /\ tr \in Conns /\ stale \in BOOLEAN
    /\ rawWaiters \in Seq(Keys) /\ crashEvents \in Nat
    /\ shook \in -1..MaxRestarts
    /\ call \in Calls /\ drv \in Drivers

\* What the client waits for.
Awaiting ==
    /\ IsFiniteSet(work)
    /\ \A i \in DOMAIN rawWaiters : IsRaw(rawWaiters[i])
    /\ pending = IF call.res = "wait" THEN {call.key} ELSE {}
    /\ call.res = "wait" => call.key \in Keys /\ call.by = NoOne /\ drv.pc \in Waits

\* A program counter and the phases it occurs in.
Fits(d) ==
    /\ d.n > 0
    /\ d.pc = "start" => d.ph = "ensure"
    /\ d.pc \in {"init", "initW", "sleep", "reconn"} => d.ph \in Passes \cup {"ensure"}
    /\ d.pc \in {"rec", "case", "caseW"} => d.ph \in Passes
    /\ d.pc \in {"list", "listW"} => d.ph \in Lists
    /\ d.pc = "gate" => d.ph \in {"fuzz", "benign", "end"}

Control == Fits(drv)

Supervised ==
    /\ tgt \in {"starting", "up"} => deaths < MaxRestarts
    /\ tr.st = "up" => tr.inc <= deaths /\ (tr.inc = deaths => tgt = "up")

Counted ==
    kind # "sse" => /\ ~stale
                    /\ crashEvents <= deaths
                    /\ tr.st = "up" => crashEvents <= tr.inc

\* The driver is where a handshake is behind it and no recovery under way.
Past(d) == d.ph \in Lists \/ (d.ph = "fuzz" /\ d.pc \in {"gate", "case", "caseW"})

Shaken ==
    /\ Past(drv) /\ tr.st = "up" => shook = tr.inc
    /\ FuzzedAfterHandshake

IInv == Typed /\ Awaiting /\ Control /\ Supervised /\ Counted /\ Shaken
-----------------------------------------------------------------------------
(***************************************************************************)
(* Keys, records and the driver's passes.                                  *)
(***************************************************************************)

\* The numbers among the constants.
LEMMA Bounds ==
    /\ MaxRestarts \in Nat /\ NTools \in Nat /\ NFuzz \in Nat /\ NActive \in Nat
    /\ NProtocol \in Nat /\ MaxTries \in Nat /\ MaxNoise \in Nat
    /\ RawCases \subseteq 1..NProtocol
  BY ClientAssumption

\* A sequence has finitely many values.
LEMMA FiniteRange ==
    ASSUME NEW S, NEW s \in Seq(S)
    PROVE  IsFiniteSet(Range(s))
  <1> DEFINE D == 1..Len(s)
  <1>1. DOMAIN s = D /\ Len(s) \in Nat
    OBVIOUS
  <1>2. IsFiniteSet(D)
    BY <1>1, FS_Interval
  <1> DEFINE f == [x \in D |-> s[x]]
  <1>3. f \in Surjection(D, Range(s))
    BY <1>1 DEF Surjection, Range
  <1> QED
    BY <1>2, <1>3, FS_Surjection

\* Among one key more than are used there is one that is not.
LEMMA UnusedKey ==
    ASSUME NEW used, IsFiniteSet(used), NEW c
    PROVE  \E k \in [c : {c}, n : 1..(Cardinality(used) + 1)] : k \notin used
  <1> DEFINE m == Cardinality(used) + 1
  <1>1. m \in Nat /\ Cardinality(used) \in Nat
    BY FS_CardinalityType
  <1> SUFFICES ASSUME \A k \in [c : {c}, n : 1..m] : k \in used
               PROVE  FALSE
    OBVIOUS
  <1> DEFINE f == [i \in 1..m |-> [c |-> c, n |-> i]]
  <1>2. \A i \in 1..m : [c |-> c, n |-> i] \in used
    OBVIOUS
  <1>3. f \in [1..m -> used]
    BY <1>2
  <1>4. IsFiniteSet(1..m) /\ Cardinality(1..m) = m
    <2> HIDE DEF m
    <2> QED BY <1>1, FS_Interval
  <1>5. Cardinality(used) < Cardinality(1..m)
    BY <1>1, <1>4
  <1>6. PICK i, j \in 1..m : i # j /\ f[i] = f[j]
    <2> HIDE DEF m, f
    <2> QED BY <1>3, <1>4, <1>5, FS_PigeonHole
  <1> QED
    BY <1>6

\* An id that is given out is new to the target and to the client.
LEMMA FreshKey ==
    ASSUME Typed, Awaiting, NEW c \in {"id", "raw"}
    PROVE  Fresh(c) \in Keys /\ Fresh(c).c = c /\ Fresh(c) \notin work
  <1> DEFINE used == work \cup pending \cup Range(rawWaiters)
  <1>1. IsFiniteSet(pending)
    BY FS_EmptySet, FS_Singleton DEF Awaiting
  <1>2. IsFiniteSet(Range(rawWaiters))
    BY FiniteRange DEF Typed
  <1>3. IsFiniteSet(used)
    <2>1. IsFiniteSet(work \cup pending)
      BY <1>1, FS_Union DEF Awaiting
    <2> QED BY <2>1, <1>2, FS_Union
  <1>4. Cardinality(used) \in Nat
    BY <1>3, FS_CardinalityType
  <1>5. \E k \in [c : {c}, n : 1..(Cardinality(used) + 1)] : k \notin used
    BY <1>3, UnusedKey
  <1>6. Fresh(c) \in [c : {c}, n : 1..(Cardinality(used) + 1)] /\ Fresh(c) \notin used
    BY <1>5 DEF Fresh
  <1> HIDE DEF used
  <1>7. Fresh(c) \in Keys /\ Fresh(c).c = c
    BY <1>4, <1>6 DEF Keys
  <1> QED
    BY <1>6, <1>7 DEF used

\* The fields of a pass that is entered.
LEMMA EnterFields ==
    ASSUME Typed, NEW pc \in {"list", "gate", "case"}, NEW ph \in Phases
    PROVE  /\ Enter(pc, ph) \in Drivers
           /\ Enter(pc, ph).pc = pc /\ Enter(pc, ph).ph = ph /\ Enter(pc, ph).n = 1
  <1>1. drv \in Drivers
    BY DEF Typed
  <1>2. 0 \in 0..MaxTries
    BY Bounds
  <1>3. pc \in Pcs
    BY DEF Pcs
  <1>4. /\ Enter(pc, ph).pc = pc /\ Enter(pc, ph).ph = ph /\ Enter(pc, ph).n = 1
    BY <1>1 DEF Enter, Drivers
  <1>5. Enter(pc, ph) \in Drivers
    <2>1. drv.tools \in 0..NTools
      BY <1>1 DEF Drivers
    <2>2. 1 \in Nat /\ 1 \in 1..2
      OBVIOUS
    <2> QED
      BY <1>2, <1>3, <2>1, <2>2 DEF Enter, Drivers
  <1> QED
    BY <1>4, <1>5

\* Where a phase leads fits; only a list leads to where the handshake counts.
LEMMA AfterFits ==
    ASSUME Typed, NEW ph \in Phases
    PROVE  /\ After(ph) \in Drivers /\ Fits(After(ph))
           /\ After(ph).pc \in {"list", "gate", "case"}
           /\ Past(After(ph)) => ph \in Lists
  <1>1. PICK pc \in {"list", "gate", "case"}, q \in Phases :
             /\ After(ph) = Enter(pc, q)
             /\ pc = "list" => q \in Lists
             /\ pc = "gate" => q \in {"fuzz", "benign", "end"}
             /\ pc = "case" => q \in {"proto", "active"}
             /\ q \in Lists \cup {"fuzz"} => ph \in Lists
    BY Zenon DEF After, Phases, Lists
  <1> DEFINE e == Enter(pc, q)
  <1>2. e \in Drivers /\ e.pc = pc /\ e.ph = q /\ e.n = 1
    BY EnterFields
  <1> HIDE DEF e
  <1>3. Fits(e) /\ (Past(e) => ph \in Lists)
    BY <1>1, <1>2 DEF Fits, Past, Lists, Passes
  <1> QED
    BY <1>1, <1>2, <1>3 DEF e

\* So does what recover() leaves behind when it gives up.
LEMMA GiveUpFits ==
    ASSUME Typed, Control, drv.ph \in Passes
    PROVE  /\ GiveUp \in Drivers /\ Fits(GiveUp)
           /\ GiveUp.pc \in {"list", "gate", "case"} /\ ~Past(GiveUp)
  <1>0. drv \in Drivers /\ drv.n \in Nat /\ drv.n > 0 /\ drv.tools \in Nat /\ drv.ph \in Phases
    BY Bounds DEF Typed, Drivers, Control, Fits
  <1>1. CASE drv.ph = "active" /\ drv.n <= NActive * (drv.tools - 1)
    <2> DEFINE m == ((drv.n - 1) \div NActive + 1) * NActive + 1
               e == Enter("case", "active")
    <2>1. NActive \in Nat /\ NActive > 0
      BY <1>0, <1>1, Bounds
    <2>2. m \in Nat /\ m > 0
      <3> DEFINE q == (drv.n - 1) \div NActive
      <3>1. q \in Nat
        BY <1>0, <2>1
      <3> HIDE DEF q
      <3>2. (q + 1) * NActive \in Nat
        BY <3>1, <2>1
      <3> QED BY <3>2 DEF q
    <2>3. e \in Drivers /\ e.pc = "case" /\ e.ph = "active"
      BY EnterFields DEF Phases
    <2>4. GiveUp = [e EXCEPT !.n = m]
      BY <1>1 DEF GiveUp
    <2> HIDE DEF m, e
    <2>5. GiveUp \in Drivers /\ GiveUp.pc = "case" /\ GiveUp.ph = "active" /\ GiveUp.n = m
      BY <2>2, <2>3, <2>4 DEF Drivers
    <2> QED
      BY <2>2, <2>5 DEF Fits, Past, Passes, Lists
  <1>2. CASE ~(drv.ph = "active" /\ drv.n <= NActive * (drv.tools - 1))
    <2>1. GiveUp = After(drv.ph)
      BY <1>2 DEF GiveUp
    <2> QED
      BY <1>0, <2>1, AfterFits DEF Passes, Lists
  <1> QED
    BY <1>1, <1>2
-----------------------------------------------------------------------------
(***************************************************************************)
(* The kinds of steps.                                                     *)
(***************************************************************************)

\* Only the driver moves on, after a settled request; handles may be closed.
LEMMA DriverStep ==
    ASSUME IInv, call.res # "wait",
           UNCHANGED <<target, stale, rawWaiters, crashEvents, call, shook>>,
           pending' \in {pending, {}},
           tr' = tr \/ (tr' \in Conns /\ tr'.st # "up"),
           drv' \in Drivers, Fits(drv'), drv'.pc \notin Waits,
           Past(drv') => Past(drv)
    PROVE  IInv'
  <1> USE DEF IInv, target
  <1>1. Typed'
    BY DEF Typed
  <1>2. Awaiting'
    BY DEF Awaiting
  <1>3. Control'
    BY DEF Control
  <1>4. Supervised' /\ Counted'
    BY DEF Supervised, Counted
  <1>5. Shaken'
    BY DEF Shaken, FuzzedAfterHandshake, At, Waits, Past
  <1> QED
    BY <1>1, <1>2, <1>3, <1>4, <1>5

\* A request is sent, or fails at once.
LEMMA DispatchStep ==
    ASSUME IInv, call.res # "wait", NEW k \in Keys,
           k \notin work \/ drv'.ph # "fuzz",
           dispatch(k),
           UNCHANGED <<kind, tgt, deaths, noise, stale, shook>>,
           drv' \in Drivers, Fits(drv'), drv'.pc \in Waits,
           Past(drv') => Past(drv)
    PROVE  IInv'
  <1> USE DEF IInv
  <1>0. /\ deaths \in Int /\ crashEvents \in Nat /\ tr.inc \in Int /\ tr \in Conns
        /\ deaths <= MaxRestarts /\ MaxRestarts \in Nat
        /\ pending = {} /\ NoOne \notin Keys
    BY Bounds DEF Typed, Conns, Awaiting, NoOne, Keys
  <1>1. CASE tr.st # "up"
    <2>1. /\ call' = [key |-> k, res |-> "unavail", by |-> NoOne]
          /\ rawWaiters' = IF IsRaw(k) THEN Append(rawWaiters, k) ELSE rawWaiters
          /\ UNCHANGED <<tr, crashEvents, pending, work>>
      BY <1>1 DEF dispatch
    <2>2. call' \in Calls /\ call'.res = "unavail" /\ call'.key = k
      BY <2>1 DEF Calls, Failures
    <2>3. Typed'
      BY <2>1, <2>2 DEF Typed
    <2>4. Awaiting'
      BY <2>1, <2>2, <1>0 DEF Awaiting, Typed
    <2>5. Control' /\ Supervised' /\ Counted'
      BY <2>1 DEF Control, Supervised, Counted
    <2>6. Shaken'
      BY <2>1, <2>2, <1>1 DEF Shaken, FuzzedAfterHandshake, At
    <2> QED
      BY <2>3, <2>4, <2>5, <2>6
  <1>2. CASE tr.st = "up" /\ ~Reachable
    <2>1. /\ tr' = [tr EXCEPT !.st = "lost"]
          /\ crashEvents' = crashEvents + 1
          /\ pending' = {} /\ rawWaiters' = <<>>
          /\ call' = [key |-> k, res |-> "crash", by |-> NoOne]
          /\ UNCHANGED work
      BY <1>2 DEF dispatch
    <2>2. call' \in Calls /\ call'.res = "crash" /\ call'.key = k
      BY <2>1 DEF Calls, Failures
    <2>3. tr' \in Conns /\ tr'.st = "lost"
      BY <2>1, <1>0 DEF Conns
    <2>4. Typed'
      BY <2>1, <2>2, <2>3, <1>0 DEF Typed
    <2>5. Awaiting'
      BY <2>1, <2>2, <1>0 DEF Awaiting
    <2>6. kind # "sse" => crashEvents + 1 <= deaths
      BY <1>0, <1>2 DEF Reachable, Supervised, Counted
    <2>7. Control' /\ Supervised' /\ Counted'
      BY <2>1, <2>3, <2>6 DEF Control, Supervised, Counted
    <2>8. Shaken'
      BY <2>1, <2>2, <2>3 DEF Shaken, FuzzedAfterHandshake, At
    <2> QED
      BY <2>4, <2>5, <2>7, <2>8
  <1>3. CASE tr.st = "up" /\ Reachable
    <2>1. /\ call' = [key |-> k, res |-> "wait", by |-> NoOne]
          /\ pending' = {k}
          /\ rawWaiters' = IF IsRaw(k) THEN Append(rawWaiters, k) ELSE rawWaiters
          /\ work' = work \cup {k}
          /\ UNCHANGED <<tr, crashEvents>>
      BY <1>3, <1>0 DEF dispatch
    <2>2. call' \in Calls /\ call'.res = "wait" /\ call'.key = k /\ call'.by = NoOne
      BY <2>1 DEF Calls
    <2>3. Typed'
      BY <2>1, <2>2 DEF Typed
    <2>4. Awaiting'
      <3>1. IsFiniteSet(work')
        BY <2>1, FS_AddElement DEF Awaiting
      <3>2. \A i \in DOMAIN rawWaiters' : IsRaw(rawWaiters'[i])
        BY <2>1 DEF Awaiting, Typed
      <3> QED
        BY <2>1, <2>2, <3>1, <3>2 DEF Awaiting, IsRaw
    <2>5. Control' /\ Supervised' /\ Counted'
      BY <2>1 DEF Control, Supervised, Counted
    <2>6. Shaken'
      BY <2>1, <2>2, <1>3 DEF Shaken, FuzzedAfterHandshake, At, Reachable, Past
    <2> QED
      BY <2>3, <2>4, <2>5, <2>6
  <1> QED
    BY <1>1, <1>2, <1>3

\* The awaited request, if any, goes on waiting or is settled.
Settled ==
    \/ UNCHANGED <<pending, call>>
    \/ /\ call.res = "wait" /\ pending' = {}
       /\ call' \in Calls /\ call'.key = call.key /\ call'.res \in Answers \cup Failures

\* Raw waiters stay raw waiters.
Waiters == rawWaiters' \in Seq(Keys) /\ \A i \in DOMAIN rawWaiters' : IsRaw(rawWaiters'[i])

\* The transport notices the end of its connection, rightly.
Noticed ==
    /\ tr.st = "up" /\ tr' = [tr EXCEPT !.st = "lost"]
    /\ crashEvents' = crashEvents + 1
    /\ kind # "sse" => crashEvents < deaths

\* A handler runs while the driver waits.
LEMMA HandlerStep ==
    ASSUME IInv, UNCHANGED <<kind, tgt, deaths, shook, drv>>,
           noise' \in 0..MaxNoise, work' \subseteq work, stale' \in {stale, FALSE},
           Waiters, Settled, UNCHANGED <<tr, crashEvents>> \/ Noticed
    PROVE  IInv'
  <1> USE DEF IInv
  <1>0. /\ deaths \in Int /\ crashEvents \in Nat /\ tr.inc \in Int /\ tr \in Conns
    BY Bounds DEF Typed, Conns
  <1>1. /\ call' \in Calls /\ pending' \subseteq Keys /\ call'.key = call.key
        /\ pending' = IF call'.res = "wait" THEN {call'.key} ELSE {}
        /\ call'.res = "wait" => call' = call
    BY DEF Settled, Awaiting, Typed, Answers, Failures
  <1>2. /\ tr' \in Conns /\ crashEvents' \in Nat
        /\ tr'.st = "up" => UNCHANGED <<tr, crashEvents>>
        /\ UNCHANGED <<tr, crashEvents>> \/ (kind # "sse" => crashEvents' <= deaths)
    BY <1>0 DEF Noticed, Conns
  <1>3. Typed'
    BY <1>1, <1>2 DEF Typed, Waiters
  <1>4. Awaiting'
    <2>1. IsFiniteSet(work')
      BY FS_Subset DEF Awaiting
    <2> QED
      BY <1>1, <2>1 DEF Awaiting, Waiters
  <1>5. Control' /\ Supervised'
    BY <1>2 DEF Control, Supervised
  <1>6. Counted'
    BY <1>0, <1>2 DEF Counted
  <1>7. Shaken'
    BY <1>1, <1>2 DEF Shaken, FuzzedAfterHandshake, At
  <1> QED
    BY <1>3, <1>4, <1>5, <1>6, <1>7

\* The target dies or is started again: the client hears nothing of it.
LEMMA TargetStep ==
    ASSUME IInv, UNCHANGED <<kind, noise, tr, client, shook, drv>>,
           tgt' \in {"starting", "up", "down", "halted"},
           \/ /\ deaths' = deaths + 1 /\ deaths < MaxRestarts /\ tgt' = "down"
              /\ work' \subseteq work /\ (kind # "http" => work' = {})
           \/ UNCHANGED <<deaths, work>> /\ tgt # "up",
           tgt' \in {"starting", "up"} => deaths' < MaxRestarts,
           stale' \in {stale, FALSE}
    PROVE  IInv'
  <1> USE DEF IInv, client
  <1>0. /\ deaths \in Nat /\ crashEvents \in Nat /\ tr.inc \in Int /\ MaxRestarts \in Nat
        /\ deaths' \in Nat /\ deaths <= deaths' /\ work' \subseteq work
    BY Bounds DEF Typed, Conns
  <1>1. Typed'
    <2>1. deaths' \in 0..MaxRestarts
      BY <1>0 DEF Typed
    <2>2. stale' \in BOOLEAN
      BY DEF Typed
    <2> QED
      BY <1>0, <2>1, <2>2 DEF Typed
  <1>2. Awaiting'
    <2>1. IsFiniteSet(work')
      BY <1>0, FS_Subset DEF Awaiting
    <2> QED
      BY <2>1 DEF Awaiting
  <1>3. Control' /\ Supervised' /\ Counted'
    <2>1. Control'
      BY DEF Control
    <2>2. Supervised'
      BY <1>0 DEF Supervised
    <2>3. kind # "sse" => ~stale'
      BY Zenon DEF Counted
    <2>4. Counted'
      BY <1>0, <2>3 DEF Counted
    <2> QED
      BY <2>1, <2>2, <2>4
  <1>4. Shaken'
    BY DEF Shaken, FuzzedAfterHandshake, At, Past
  <1> QED
    BY <1>1, <1>2, <1>3, <1>4
-----------------------------------------------------------------------------
(***************************************************************************)
(* What a handler does to the awaited request.                             *)
(***************************************************************************)

\* Keys of requests and no request.
LEMMA AwaitedKey ==
    ASSUME IInv, call.res = "wait"
    PROVE  /\ call \in Calls /\ call.key \in Keys /\ pending = {call.key} /\ call.by = NoOne
           /\ IsRaw(call.key) <=> call.key \in [c : {"raw"}, n : Nat]
  <1>1. call \in Calls /\ call.key \in Keys /\ pending = {call.key} /\ call.by = NoOne
    BY DEF IInv, Typed, Awaiting
  <1> QED
    BY <1>1 DEF Keys, IsRaw

\* A request is settled with what the target sent for it.
LEMMA AnswerCall ==
    ASSUME IInv, call.res = "wait", NEW a \in Answers, pending' = {},
           call' = [call EXCEPT !.res = a, !.by = IF IsRaw(call.key) THEN NoOne ELSE call.key]
    PROVE  Settled /\ Promise!Next
  <1>1. Settled
    BY AwaitedKey DEF Settled, Calls
  <1>2. Promise!Answer(a)
    BY AwaitedKey DEF Promise!Answer
  <1> QED
    BY <1>1, <1>2 DEF Promise!Next, Promise!Settle

\* A request fails.
LEMMA FailCall ==
    ASSUME IInv, call.res = "wait", NEW f \in Failures, pending' = {},
           call' = [call EXCEPT !.res = f]
    PROVE  Settled /\ Promise!Next
  <1>1. Settled
    BY AwaitedKey DEF Settled, Calls
  <1>2. Promise!Fail(f)
    BY DEF Promise!Fail
  <1> QED
    BY <1>1, <1>2 DEF Promise!Next, Promise!Settle

\* A request is made.
LEMMA AskCall ==
    ASSUME call.res # "wait", NEW k \in Keys, dispatch(k)
    PROVE  Promise!Next
  <1>1. PICK r \in Failures \cup {"wait"} : call' = [key |-> k, res |-> r, by |-> NoOne]
    BY Zenon DEF dispatch, Failures
  <1>2. Promise!Ask
    BY <1>1 DEF Promise!Ask
  <1> QED
    BY <1>2 DEF Promise!Next

\* A frame for the raw waiters.
LEMMA RawWaiterCall ==
    ASSUME IInv, NEW v \in Answers, resolveRawWaiter(v)
    PROVE  Waiters /\ Settled /\ [Promise!Next]_call
  <1>0. rawWaiters \in Seq(Keys) /\ \A i \in DOMAIN rawWaiters : IsRaw(rawWaiters[i])
    BY DEF IInv, Typed, Awaiting
  <1>1. CASE rawWaiters = <<>>
    BY <1>0, <1>1 DEF resolveRawWaiter, Waiters, Settled
  <1>2. CASE rawWaiters # <<>>
    <2> DEFINE k == Head(rawWaiters)
               r == IF v = "error" THEN "error" ELSE "ok"
    <2>1. IsRaw(k) /\ r \in Answers
      BY <1>0, <1>2 DEF Answers
    <2>2. /\ rawWaiters' = Tail(rawWaiters) /\ pending' = pending \ {k}
          /\ call' = IF k \in pending /\ call.key = k THEN [call EXCEPT !.res = r] ELSE call
      BY <1>2 DEF resolveRawWaiter
    <2> HIDE DEF k, r
    <2>3. Waiters
      BY <1>0, <1>2, <2>2 DEF Waiters
    <2>4. CASE k \in pending
      <3>1. call.res = "wait" /\ call.key = k /\ pending' = {}
        BY <2>2, <2>4 DEF IInv, Awaiting
      <3>2. call' = [call EXCEPT !.res = r, !.by = IF IsRaw(call.key) THEN NoOne ELSE call.key]
        <4>1. call \in Calls /\ call.by = NoOne
          BY <3>1, AwaitedKey
        <4> QED
          BY <2>1, <2>2, <2>4, <3>1, <4>1 DEF Calls
      <3> QED
        BY <2>1, <2>3, <3>1, <3>2, AnswerCall
    <2>5. CASE k \notin pending
      <3>1. UNCHANGED <<pending, call>>
        BY <2>2, <2>5
      <3> QED
        BY <2>3, <3>1 DEF Settled
    <2> QED
      BY <2>4, <2>5
  <1> QED
    BY <1>1, <1>2

\* An answer of the target.
LEMMA ResponseCall ==
    ASSUME IInv, NEW k, NEW v \in Answers, handleResponse(k, v)
    PROVE  Waiters /\ Settled /\ [Promise!Next]_call
  <1>1. CASE k \in pending /\ ~IsRaw(k)
    <2>1. call.res = "wait" /\ call.key = k
      BY <1>1 DEF IInv, Awaiting
    <2>2. pending' = {} /\ UNCHANGED rawWaiters
      BY <1>1, <2>1, AwaitedKey DEF handleResponse
    <2>3. call' = [call EXCEPT !.res = v, !.by = IF IsRaw(call.key) THEN NoOne ELSE call.key]
      BY <1>1, <2>1 DEF handleResponse
    <2>4. Waiters
      BY <2>2 DEF Waiters, IInv, Typed, Awaiting
    <2> QED
      BY <2>1, <2>2, <2>3, <2>4, AnswerCall
  <1>2. CASE ~(k \in pending /\ ~IsRaw(k))
    BY <1>2, RawWaiterCall DEF handleResponse
  <1> QED
    BY <1>1, <1>2

\* The end of a connection, where a death is not yet counted.
LEMMA CrashCall ==
    ASSUME IInv, handleCrash, tr.st = "up" /\ kind # "sse" => crashEvents < deaths
    PROVE  /\ Waiters /\ Settled /\ [Promise!Next]_call
           /\ UNCHANGED <<tr, crashEvents>> \/ Noticed
           /\ call.res # "wait" => UNCHANGED call
  <1>1. CASE tr.st # "up"
    BY <1>1 DEF handleCrash, Waiters, Settled, IInv, Typed, Awaiting
  <1>2. CASE tr.st = "up"
    <2>1. /\ tr' = [tr EXCEPT !.st = "lost"] /\ crashEvents' = crashEvents + 1
          /\ pending' = {} /\ rawWaiters' = <<>>
          /\ call' = IF call.res = "wait" /\ call.key \in pending
                     THEN [call EXCEPT !.res = "crash"] ELSE call
      BY <1>2 DEF handleCrash, handleClose
    <2>2. Noticed /\ Waiters
      BY <1>2, <2>1 DEF Noticed, Waiters
    <2>3. CASE call.res = "wait"
      <3>1. call' = [call EXCEPT !.res = "crash"]
        BY <2>1, <2>3, AwaitedKey
      <3> QED
        BY <2>1, <2>2, <2>3, <3>1, FailCall DEF Failures
    <2>4. CASE call.res # "wait"
      <3>1. UNCHANGED <<pending, call>>
        BY <2>1, <2>4 DEF IInv, Awaiting
      <3> QED
        BY <2>2, <3>1 DEF Settled
    <2> QED
      BY <2>3, <2>4
  <1> QED
    BY <1>1, <1>2

\* A connection to a target that is gone is to one that died since.
LEMMA LostIsDead ==
    ASSUME IInv, tr.st = "up", ~Reachable, kind # "sse"
    PROVE  crashEvents < deaths
  BY DEF IInv, Typed, Conns, Supervised, Counted, Reachable

\* The key of a request that timed out is taken from the raw waiters.
LEMMA Spliced ==
    ASSUME NEW s \in Seq(Keys), \A i \in DOMAIN s : IsRaw(s[i]), NEW i \in DOMAIN s
    PROVE  RemoveAt(s, i) \in Seq(Keys) /\ \A j \in DOMAIN RemoveAt(s, i) : IsRaw(RemoveAt(s, i)[j])
  <1> DEFINE a == SubSeq(s, 1, i - 1)
             b == SubSeq(s, i + 1, Len(s))
  <1>1. i \in 1..Len(s) /\ Len(s) \in Nat /\ RemoveAt(s, i) = a \o b
    BY DEF RemoveAt
  <1>2. a \in Seq(Keys) /\ \A j \in DOMAIN a : IsRaw(a[j])
    BY <1>1
  <1>3. b \in Seq(Keys) /\ \A j \in DOMAIN b : IsRaw(b[j])
    BY <1>1
  <1> HIDE DEF a, b
  <1>4. a \o b \in Seq(Keys) /\ \A j \in DOMAIN (a \o b) : IsRaw((a \o b)[j])
    BY <1>2, <1>3
  <1> QED
    BY <1>1, <1>4
-----------------------------------------------------------------------------
(***************************************************************************)
(* The actions: each keeps the invariant, and what it does to the awaited  *)
(* request is a step of Requests.                                          *)
(***************************************************************************)

\* The handlers of frames.
LEMMA FrameSteps ==
    ASSUME IInv, (\E k \in work : Response(k)) \/ MalformedFrame
    PROVE  IInv' /\ [Promise!Next]_call
  <1>0. noise \in 0..MaxNoise /\ MaxNoise \in Nat
    BY Bounds DEF IInv, Typed
  <1>1. CASE \E k \in work : Response(k)
    <2>1. PICK k \in work : Response(k)
      BY <1>1
    <2>2. PICK v \in Replies : handleResponse(k, v)
      BY <2>1 DEF Response
    <2>3. v \in Answers
      BY DEF Replies, Answers
    <2>4. /\ UNCHANGED <<kind, tgt, deaths, noise, tr, stale, crashEvents, shook, drv>>
          /\ work' \subseteq work
      BY <2>1 DEF Response
    <2>5. Waiters /\ Settled /\ [Promise!Next]_call
      BY <2>2, <2>3, ResponseCall
    <2>6. IInv'
      BY <1>0, <2>4, <2>5, HandlerStep
    <2> QED
      BY <2>5, <2>6
  <1>2. CASE MalformedFrame
    <2>1. /\ UNCHANGED <<kind, tgt, deaths, work, tr, stale, crashEvents, shook, drv>>
          /\ noise > 0 /\ noise' = noise - 1 /\ resolveRawWaiter("ok")
      BY <1>2 DEF MalformedFrame
    <2>2. Waiters /\ Settled /\ [Promise!Next]_call
      BY <2>1, RawWaiterCall DEF Answers
    <2>3. noise' \in 0..MaxNoise
      BY <1>0, <2>1
    <2>4. IInv'
      BY <2>1, <2>2, <2>3, HandlerStep
    <2> QED
      BY <2>2, <2>4
  <1> QED
    BY <1>1, <1>2

\* The timer of a request.
LEMMA TimeoutStep ==
    ASSUME IInv, Timeout
    PROVE  IInv' /\ [Promise!Next]_call
  <1> DEFINE f == IF IsRaw(call.key) THEN "silent" ELSE "hang"
  <1>1. /\ call.res = "wait" /\ pending' = pending \ {call.key}
        /\ call' = [call EXCEPT !.res = f] /\ f \in Failures
        /\ work' \subseteq work
        /\ UNCHANGED <<kind, tgt, deaths, noise, tr, stale, crashEvents, shook, drv>>
    BY DEF Timeout, Failures
  <1>2. pending' = {}
    BY <1>1, AwaitedKey
  <1>3. Waiters
    <2>1. rawWaiters \in Seq(Keys) /\ \A i \in DOMAIN rawWaiters : IsRaw(rawWaiters[i])
      BY DEF IInv, Typed, Awaiting
    <2>2. CASE call.key \in Range(rawWaiters)
      <3> DEFINE i == CHOOSE i \in DOMAIN rawWaiters : rawWaiters[i] = call.key
      <3>1. i \in DOMAIN rawWaiters
        BY <2>2 DEF Range
      <3>2. rawWaiters' = RemoveAt(rawWaiters, i)
        BY <2>2 DEF Timeout
      <3> HIDE DEF i
      <3> QED
        BY <2>1, <3>1, <3>2, Spliced DEF Waiters
    <2>3. CASE call.key \notin Range(rawWaiters)
      BY <2>1, <2>3 DEF Timeout, Waiters
    <2> QED
      BY <2>2, <2>3
  <1> HIDE DEF f
  <1>4. Settled /\ Promise!Next
    BY <1>1, <1>2, FailCall
  <1>5. noise' \in 0..MaxNoise /\ stale' \in {stale, FALSE}
    BY <1>1 DEF IInv, Typed
  <1>6. IInv'
    BY <1>1, <1>3, <1>4, <1>5, HandlerStep
  <1> QED
    BY <1>4, <1>6

\* A POST breaks off after its headers.
LEMMA BodyStep ==
    ASSUME IInv, NEW k \in work, BodyBreaks(k)
    PROVE  IInv' /\ [Promise!Next]_call
  <1>1. /\ pending' = pending \ {k} /\ work' \subseteq work
        /\ call' = IF k \in pending /\ call.key = k THEN [call EXCEPT !.res = "unavail"] ELSE call
        /\ UNCHANGED <<kind, tgt, deaths, noise, tr, stale, rawWaiters, crashEvents, shook, drv>>
    BY DEF BodyBreaks
  <1>2. Waiters
    BY <1>1 DEF Waiters, IInv, Typed, Awaiting
  <1>3. noise' \in 0..MaxNoise /\ stale' \in {stale, FALSE}
    BY <1>1 DEF IInv, Typed
  <1>4. pending = IF call.res = "wait" THEN {call.key} ELSE {}
    BY DEF IInv, Awaiting
  <1>5. CASE k \in pending
    <2>1. call.res = "wait" /\ call.key = k /\ pending' = {}
      BY <1>1, <1>4, <1>5
    <2>2. call' = [call EXCEPT !.res = "unavail"] /\ "unavail" \in Failures
      BY <1>1, <1>5, <2>1 DEF Failures
    <2>3. Settled /\ Promise!Next
      BY <2>1, <2>2, FailCall
    <2> QED
      BY <1>1, <1>2, <1>3, <2>3, HandlerStep
  <1>6. CASE k \notin pending
    <2>1. UNCHANGED <<pending, call>>
      BY <1>1, <1>6
    <2>2. Settled
      BY <2>1 DEF Settled
    <2> QED
      BY <1>1, <1>2, <1>3, <2>1, <2>2, HandlerStep
  <1> QED
    BY <1>5, <1>6

\* The handlers of streams that end.
LEMMA StreamSteps ==
    ASSUME IInv, StreamEnds \/ StaleStreamEnds \/ (\E k \in work : AbortPost(k))
    PROVE  IInv' /\ [Promise!Next]_call
  <1>0. noise \in 0..MaxNoise
    BY DEF IInv, Typed
  <1>1. CASE StreamEnds
    <2>1. /\ handleCrash /\ work' = {} /\ tgt # "up"
          /\ UNCHANGED <<kind, tgt, deaths, noise, stale, shook, drv>>
      BY <1>1 DEF StreamEnds
    <2>2. tr.st = "up" /\ kind # "sse" => crashEvents < deaths
      BY <2>1, LostIsDead DEF Reachable
    <2>3. Waiters /\ Settled /\ [Promise!Next]_call /\ (UNCHANGED <<tr, crashEvents>> \/ Noticed)
      BY <2>1, <2>2, CrashCall
    <2>4. IInv'
      BY <1>0, <2>1, <2>3, HandlerStep
    <2> QED
      BY <2>3, <2>4
  <1>2. CASE StaleStreamEnds
    <2>1. stale /\ stale' = FALSE /\ handleCrash /\ UNCHANGED <<target, shook, drv>>
      BY <1>2 DEF StaleStreamEnds
    <2>2. kind = "sse"
      BY <2>1 DEF IInv, Counted
    <2>3. Waiters /\ Settled /\ [Promise!Next]_call /\ (UNCHANGED <<tr, crashEvents>> \/ Noticed)
      BY <2>1, <2>2, CrashCall
    <2>4. UNCHANGED <<kind, tgt, deaths, noise, work>>
      BY <2>1 DEF target
    <2>5. IInv'
      BY <1>0, <2>1, <2>3, <2>4, HandlerStep
    <2> QED
      BY <2>3, <2>5
  <1>3. CASE \E k \in work : AbortPost(k)
    <2>1. /\ UNCHANGED <<kind, tgt, deaths, noise, tr, stale, client, shook, drv>>
          /\ work' \subseteq work
      BY <1>3 DEF AbortPost
    <2>2. UNCHANGED <<pending, rawWaiters, crashEvents, call>>
      BY <2>1 DEF client
    <2>3. Waiters /\ Settled
      BY <2>2 DEF Waiters, Settled, IInv, Typed, Awaiting
    <2>4. IInv'
      BY <1>0, <2>1, <2>2, <2>3, HandlerStep
    <2> QED
      BY <2>2, <2>4
  <1> QED
    BY <1>1, <1>2, <1>3

\* The target and its supervisor.
LEMMA TargetSteps ==
    ASSUME IInv, TargetDies \/ Restart \/ Serve
    PROVE  IInv' /\ [Promise!Next]_call
  <1>0. deaths \in Nat /\ MaxRestarts \in Nat
    BY Bounds DEF IInv, Typed
  <1>1. UNCHANGED <<kind, noise, tr, client, shook, drv>>
    BY DEF TargetDies, Restart, Serve
  <1>2. CASE TargetDies
    <2>1. /\ deaths' = deaths + 1 /\ tgt' = "down" /\ stale' = FALSE
          /\ work' \subseteq work /\ (kind # "http" => work' = {})
      BY <1>2 DEF TargetDies
    <2>2. deaths < MaxRestarts
      BY <1>2 DEF TargetDies, IInv, Supervised
    <2> QED
      BY <1>1, <2>1, <2>2, TargetStep DEF client
  <1>3. CASE Restart \/ Serve
    <2>1. UNCHANGED <<deaths, work, stale>> /\ tgt # "up"
      BY <1>3 DEF Restart, Serve
    <2>2. tgt' \in {"starting", "up", "halted"} /\ (tgt' # "halted" => deaths < MaxRestarts)
      BY <1>0, <1>3 DEF Restart, Serve, NextStart, IInv, Supervised
    <2> QED
      BY <1>1, <2>1, <2>2, TargetStep DEF client
  <1> QED
    BY <1>2, <1>3

\* The driver awaits nothing where it is about to act by itself.
LEMMA NotWaiting ==
    ASSUME IInv, drv.pc \notin Waits \/ call.res # "wait"
    PROVE  call.res # "wait" /\ drv \in Drivers /\ Fits(drv) /\ Typed /\ Control
  BY DEF IInv, Awaiting, Typed, Control

\* The driver moves to another place of the same phase.
LEMMA GotoFields ==
    ASSUME NEW d \in Drivers, NEW pc \in Pcs
    PROVE  /\ [d EXCEPT !.pc = pc] \in Drivers
           /\ [d EXCEPT !.pc = pc].pc = pc /\ [d EXCEPT !.pc = pc].ph = d.ph
           /\ [d EXCEPT !.pc = pc].n = d.n
  BY DEF Drivers

\* Steps of the driver that send nothing.
LEMMA QuietSteps ==
    ASSUME IInv, ConnectFail \/ InitializeExpired \/ Wake \/ PassEnds
    PROVE  IInv' /\ [Promise!Next]_call
  <1>1. UNCHANGED <<target, tr, stale, client, shook>>
    BY DEF ConnectFail, InitializeExpired, Wake, PassEnds
  <1>2. drv.pc \in {"start", "reconn", "rec", "init", "sleep", "case"}
    BY DEF ConnectFail, InitializeExpired, Wake, PassEnds, Connecting, At
  <1>3. call.res # "wait" /\ drv \in Drivers /\ Fits(drv) /\ Typed /\ Control
    BY <1>2, NotWaiting DEF Waits
  <1>4. drv.ph \in Phases
    BY <1>3 DEF Drivers
  <1>5. drv' \in Drivers /\ Fits(drv') /\ drv'.pc \notin Waits /\ (Past(drv') => Past(drv))
    <2>1. CASE ConnectFail
      <3>1. CASE At("start")
        <4>1. drv' = Enter("gate", "end")
          BY <2>1, <3>1 DEF ConnectFail, At
        <4>2. drv' \in Drivers /\ drv'.pc = "gate" /\ drv'.ph = "end" /\ drv'.n = 1
          BY <1>3, <4>1, EnterFields DEF Phases
        <4> QED
          BY <4>2 DEF Fits, Past, Lists, Waits
      <3>2. CASE At("reconn")
        <4>1. drv' = [drv EXCEPT !.pc = "init"]
          BY <2>1, <3>2 DEF ConnectFail, At
        <4> QED
          BY <1>3, <3>2, <4>1, GotoFields, ZenonT(30) DEF Pcs, Fits, Past, Lists, Passes, Waits, At
      <3>3. CASE At("rec")
        <4>1. drv' = GiveUp
          BY <2>1, <3>3 DEF ConnectFail, At
        <4>2. drv.ph \in Passes
          BY <1>3, <3>3 DEF Fits, At
        <4> QED
          BY <1>3, <4>1, <4>2, GiveUpFits DEF Waits
      <3> QED
        BY <2>1, <3>1, <3>2, <3>3 DEF ConnectFail, Connecting, At
    <2>2. CASE InitializeExpired
      <3>1. CASE drv.ph = "ensure"
        <4>1. drv' = Enter("gate", "end")
          BY <2>2, <3>1 DEF InitializeExpired
        <4>2. drv' \in Drivers /\ drv'.pc = "gate" /\ drv'.ph = "end" /\ drv'.n = 1
          BY <1>3, <4>1, EnterFields DEF Phases
        <4> QED
          BY <4>2 DEF Fits, Past, Lists, Waits
      <3>2. CASE drv.ph # "ensure"
        <4>1. drv' = GiveUp /\ drv.ph \in Passes
          BY <1>3, <2>2, <3>2 DEF InitializeExpired, Fits, At
        <4> QED
          BY <1>3, <4>1, GiveUpFits DEF Waits
      <3> QED
        BY <3>1, <3>2
    <2>3. CASE Wake
      <3>1. drv.pc = "sleep" /\ drv' = [drv EXCEPT !.pc = "init"]
        BY <2>3 DEF Wake, Goto, At
      <3> QED
        BY <1>3, <3>1, GotoFields, ZenonT(30) DEF Pcs, Fits, Past, Lists, Passes, Waits
    <2>4. CASE PassEnds
      <3>1. /\ drv' = After(drv.ph) \/ drv' = After("proto")
            /\ drv.ph \in Passes /\ drv.ph \in Phases /\ "proto" \in Phases
        BY <1>3, <1>4, <2>4 DEF PassEnds, At, Fits, Phases
      <3> QED
        BY <1>3, <3>1, AfterFits DEF Passes, Lists, Waits
    <2> QED
      BY <2>1, <2>2, <2>3, <2>4
  <1> QED
    BY <1>1, <1>3, <1>5, DriverStep DEF client

\* Steps of the driver that close handles or the client.
LEMMA ClosingSteps ==
    ASSUME IInv, InitializeFailed \/ CaseDone \/ Proceed
    PROVE  IInv' /\ [Promise!Next]_call
  <1>1. UNCHANGED <<target, stale, rawWaiters, crashEvents, call, shook>> /\ pending' \in {pending, {}}
    BY DEF InitializeFailed, CaseDone, Proceed, client
  <1>2. drv.pc \notin Waits \/ call.res # "wait"
    BY DEF InitializeFailed, CaseDone, Proceed, Waits, At
  <1>3. call.res # "wait" /\ drv \in Drivers /\ Fits(drv)
    BY <1>2, NotWaiting
  <1>4. tr \in Conns
    BY DEF IInv, Typed
  <1>5. tr' = tr \/ (tr' \in Conns /\ tr'.st # "up")
    <2>1. \/ tr' = tr
          \/ tr' = [tr EXCEPT !.st = "none"]
          \/ tr' = [tr EXCEPT !.st = "closed"]
      BY Zenon DEF InitializeFailed, CaseDone, Proceed, teardownHandles
    <2> QED
      BY <1>4, <2>1 DEF Conns
  <1>6. drv' \in Drivers /\ Fits(drv') /\ drv'.pc \notin Waits /\ (Past(drv') => Past(drv))
    <2>1. CASE InitializeFailed
      <3>1. PICK pc \in {"reconn", "sleep"} : drv' = [drv EXCEPT !.pc = pc]
        BY <2>1, Zenon DEF InitializeFailed, Goto
      <3>2. drv.pc = "initW"
        BY <2>1 DEF InitializeFailed, At
      <3>3. drv' \in Drivers /\ drv'.pc = pc /\ drv'.ph = drv.ph /\ drv'.n = drv.n
        <4>1. pc \in Pcs
          BY DEF Pcs
        <4> QED
          BY <1>3, <3>1, <4>1, GotoFields
      <3> QED
        BY <1>3, <3>2, <3>3 DEF Fits, Past, Lists, Passes, Waits
    <2>2. CASE CaseDone
      <3>1. PICK pc \in {"rec", "case"} : drv' = [drv EXCEPT !.pc = pc, !.n = @ + 1]
        BY <2>2, Zenon DEF CaseDone
      <3>2. drv.pc = "caseW" /\ drv.n \in Nat
        BY <1>3, <2>2 DEF CaseDone, At, Drivers
      <3>3. drv' \in Drivers /\ drv'.pc = pc /\ drv'.ph = drv.ph /\ drv'.n = drv.n + 1
        <4>1. pc \in Pcs /\ drv.n + 1 \in Nat
          BY <3>2 DEF Pcs
        <4>2. PICK m \in Nat : m = drv.n + 1
          BY <4>1
        <4>3. drv' = [drv EXCEPT !.pc = pc, !.n = m]
          BY <1>3, <3>1, <4>2 DEF Drivers
        <4>4. drv' \in Drivers /\ drv'.pc = pc /\ drv'.ph = drv.ph /\ drv'.n = m
          BY <1>3, <4>1, <4>3 DEF Drivers
        <4> QED
          BY <4>2, <4>4
      <3> QED
        BY <1>3, <3>2, <3>3 DEF Fits, Past, Lists, Passes, Waits
    <2>3. CASE Proceed
      <3>1. PICK pc \in {"closed", "case"} :
                 /\ drv' = [drv EXCEPT !.pc = pc]
                 /\ pc = "case" => drv.ph # "end"
        BY <2>3, Zenon DEF Proceed
      <3>2. drv.pc = "gate"
        BY <2>3 DEF Proceed, At
      <3>3. drv' \in Drivers /\ drv'.pc = pc /\ drv'.ph = drv.ph /\ drv'.n = drv.n
        <4>1. pc \in Pcs
          BY DEF Pcs
        <4> QED
          BY <1>3, <3>1, <4>1, GotoFields
      <3> QED
        BY <1>3, <3>1, <3>2, <3>3 DEF Fits, Past, Lists, Passes, Waits
    <2> QED
      BY <2>1, <2>2, <2>3
  <1> QED
    BY <1>1, <1>3, <1>5, <1>6, DriverStep

\* A page of a list arrives, or none.
LEMMA ListPageStep ==
    ASSUME IInv, ListPageDone
    PROVE  IInv' /\ [Promise!Next]_call
  <1>1. UNCHANGED <<target, tr, stale, client, shook>> /\ drv.pc = "listW" /\ call.res # "wait"
    BY DEF ListPageDone, At
  <1>2. drv \in Drivers /\ Fits(drv) /\ Typed
    BY <1>1, NotWaiting
  <1>3. drv.ph \in Lists /\ drv.ph \in Phases /\ drv.tools \in 0..NTools /\ drv.n \in Nat
    BY <1>1, <1>2 DEF Fits, Drivers
  <1>4. \/ drv' = [drv EXCEPT !.pc = "list", !.n = @ + 1]
        \/ \E tools \in 0..NTools : drv' = [After(drv.ph) EXCEPT !.tools = tools]
    <2>1. 0 \in 0..NTools
      BY Bounds
    <2> QED
      BY <1>3, <2>1, Zenon DEF ListPageDone
  <1>5. drv' \in Drivers /\ Fits(drv') /\ drv'.pc \notin Waits
    <2>1. CASE drv' = [drv EXCEPT !.pc = "list", !.n = @ + 1]
      <3>1. drv' \in Drivers /\ drv'.pc = "list" /\ drv'.ph = drv.ph /\ drv'.n = drv.n + 1
        <4>1. "list" \in Pcs /\ drv.n + 1 \in Nat
          BY <1>3 DEF Pcs
        <4>2. PICK m \in Nat : m = drv.n + 1
          BY <4>1
        <4>3. drv' = [drv EXCEPT !.pc = "list", !.n = m]
          BY <1>2, <2>1, <4>2 DEF Drivers
        <4>4. drv' \in Drivers /\ drv'.pc = "list" /\ drv'.ph = drv.ph /\ drv'.n = m
          BY <1>2, <4>1, <4>3 DEF Drivers
        <4> QED
          BY <4>2, <4>4
      <3> QED
        BY <1>3, <3>1 DEF Fits, Waits
    <2>2. CASE \E tools \in 0..NTools : drv' = [After(drv.ph) EXCEPT !.tools = tools]
      <3> DEFINE e == After(drv.ph)
      <3>1. e \in Drivers /\ Fits(e) /\ e.pc \notin Waits
        BY <1>2, <1>3, AfterFits DEF Waits
      <3>2. \E tools \in 0..NTools : drv' = [e EXCEPT !.tools = tools]
        BY <2>2
      <3> HIDE DEF e
      <3>3. drv' \in Drivers /\ drv'.pc = e.pc /\ drv'.ph = e.ph /\ drv'.n = e.n
        BY <3>1, <3>2 DEF Drivers
      <3> QED
        BY <3>1, <3>3 DEF Fits
    <2> QED
      BY <1>4, <2>1, <2>2
  <1>6. Past(drv)
    BY <1>3 DEF Past
  <1> QED
    BY <1>1, <1>5, <1>6, DriverStep DEF client

\* Steps of the driver that send a request.
LEMMA SendingSteps ==
    ASSUME IInv, Initialize \/ InitializeNextVersion \/ ListPage \/ Case
    PROVE  IInv' /\ [Promise!Next]_call
  <1>1. UNCHANGED <<kind, tgt, deaths, noise, stale, shook>>
    BY DEF Initialize, InitializeNextVersion, ListPage, Case
  <1>2. drv.pc \notin Waits \/ call.res # "wait"
    BY DEF Initialize, InitializeNextVersion, ListPage, Case, At, Waits
  <1>3. call.res # "wait" /\ drv \in Drivers /\ Fits(drv) /\ Typed /\ Awaiting
    BY <1>2, NotWaiting DEF IInv
  <1>4. Fresh("id") \in Keys /\ Fresh("id") \notin work
    BY <1>3, FreshKey
  <1>5. ASSUME drv' \in Drivers, Fits(drv'), drv'.pc \in Waits, Past(drv') => Past(drv), request
        PROVE  IInv' /\ [Promise!Next]_call
    <2>1. dispatch(Fresh("id"))
      BY <1>5 DEF request
    <2> QED
      BY <1>1, <1>3, <1>4, <1>5, <2>1, DispatchStep, AskCall
  <1>6. drv.n \in Nat /\ drv.tries \in Int /\ MaxTries \in Nat
    BY <1>3, Bounds DEF Drivers
  <1>7. CASE Initialize
    <2>1. /\ request /\ drv.pc = "init" /\ drv.tries < MaxTries
          /\ drv' = [drv EXCEPT !.pc = "initW", !.tries = @ + 1, !.ver = 1]
      BY <1>7 DEF Initialize, At
    <2>2. PICK t \in 0..MaxTries : t = drv.tries + 1
      BY <1>3, <1>6, <2>1 DEF Drivers
    <2>3. drv' = [drv EXCEPT !.pc = "initW", !.tries = t, !.ver = 1]
      BY <1>3, <2>1, <2>2 DEF Drivers
    <2>4. "initW" \in Pcs /\ 1 \in 1..2
      BY DEF Pcs
    <2>5. drv' \in Drivers /\ drv'.pc = "initW" /\ drv'.ph = drv.ph /\ drv'.n = drv.n
      BY <1>3, <2>3, <2>4 DEF Drivers
    <2> QED
      BY <1>3, <1>5, <2>1, <2>5 DEF Fits, Past, Passes, Lists, Waits
  <1>8. CASE InitializeNextVersion
    <2>1. request /\ drv.pc = "initW" /\ drv' = [drv EXCEPT !.ver = 2]
      BY <1>8 DEF InitializeNextVersion, At
    <2>2. drv' \in Drivers /\ drv'.pc = "initW" /\ drv'.ph = drv.ph /\ drv'.n = drv.n
      BY <1>3, <2>1 DEF Drivers
    <2> QED
      BY <1>3, <1>5, <2>1, <2>2 DEF Fits, Past, Passes, Lists, Waits
  <1>9. CASE ListPage
    <2>1. request /\ drv.pc = "list" /\ drv' = [drv EXCEPT !.pc = "listW"]
      BY <1>9 DEF ListPage, At, Goto
    <2>2. drv' \in Drivers /\ drv'.pc = "listW" /\ drv'.ph = drv.ph /\ drv'.n = drv.n
      <3>1. "listW" \in Pcs
        BY DEF Pcs
      <3> QED
        BY <1>3, <2>1, <3>1, GotoFields
    <2> QED
      BY <1>3, <1>5, <2>1, <2>2 DEF Fits, Past, Passes, Lists, Waits
  <1>10. CASE Case
    <2>1. /\ drv.pc = "case" /\ drv' = [drv EXCEPT !.pc = "caseW"]
          /\ IF drv.ph = "proto" THEN sendRaw(drv.n) ELSE request
      BY <1>10 DEF Case, At, Goto
    <2>2. drv' \in Drivers /\ drv'.pc = "caseW" /\ drv'.ph = drv.ph /\ drv'.n = drv.n
      <3>1. "caseW" \in Pcs
        BY DEF Pcs
      <3> QED
        BY <1>3, <2>1, <3>1, GotoFields
    <2>3. Fits(drv') /\ drv'.pc \in Waits /\ (Past(drv') => Past(drv))
      BY <1>3, <2>1, <2>2 DEF Fits, Past, Passes, Lists, Waits
    <2>4. CASE drv.ph = "proto"
      <3> DEFINE k == IF drv.n \in RawCases THEN Fresh("raw") ELSE [c |-> "x", n |-> drv.n]
      <3>1. Fresh("raw") \in Keys
        BY <1>3, FreshKey
      <3>2. k \in Keys /\ dispatch(k)
        BY <1>6, <2>1, <2>4, <3>1 DEF Keys, sendRaw
      <3> HIDE DEF k
      <3> QED
        BY <1>1, <1>3, <2>2, <2>3, <2>4, <3>2, DispatchStep, AskCall
    <2>5. CASE drv.ph # "proto"
      BY <1>5, <2>1, <2>2, <2>3, <2>5
    <2> QED
      BY <2>4, <2>5
  <1> QED
    BY <1>7, <1>8, <1>9, <1>10

\* A connection comes up, or an attempt is abandoned.
LEMMA ConnectSteps ==
    ASSUME IInv, ConnectOk \/ EndpointTimeout
    PROVE  IInv' /\ [Promise!Next]_call
  <1>0. drv.pc \in {"start", "reconn", "rec"}
    BY DEF ConnectOk, EndpointTimeout, Connecting
  <1>1. call.res # "wait" /\ drv \in Drivers /\ Fits(drv) /\ Typed
    BY <1>0, NotWaiting DEF Waits
  <1>2. /\ deaths \in Nat /\ MaxRestarts \in Nat /\ deaths <= MaxRestarts /\ crashEvents \in Nat
        /\ noise \in 0..MaxNoise /\ MaxNoise \in Nat /\ MaxTries \in Nat /\ tr.inc \in Int
    BY <1>1, Bounds DEF Typed, Conns
  <1>3. CASE ConnectOk
    <2>1. /\ UNCHANGED <<kind, deaths, work, noise, stale, client, shook>>
          /\ tgt \in {"starting", "up"} /\ tgt' = "up"
          /\ tr' = [st |-> "up", inc |-> deaths]
      BY <1>3 DEF ConnectOk
    <2>2. UNCHANGED <<pending, rawWaiters, crashEvents, call>>
      BY <2>1 DEF client
    <2>3. tr' \in Conns /\ tr'.st = "up" /\ tr'.inc = deaths
      BY <1>2, <2>1 DEF Conns
    <2>4. PICK t \in 0..MaxTries : drv' = [drv EXCEPT !.pc = "init", !.tries = t]
      <3>1. drv.tries \in 0..MaxTries /\ 0 \in 0..MaxTries
        BY <1>1, <1>2 DEF Drivers
      <3>2. drv' = [drv EXCEPT !.pc = "init", !.tries = IF At("reconn") THEN drv.tries ELSE 0]
        BY <1>3, <1>1 DEF ConnectOk, Drivers
      <3> QED
        BY <3>1, <3>2, Zenon
    <2>5. drv' \in Drivers /\ drv'.pc = "init" /\ drv'.ph = drv.ph /\ drv'.n = drv.n
      <3>1. "init" \in Pcs
        BY DEF Pcs
      <3> QED
        BY <1>1, <2>4, <3>1 DEF Drivers
    <2>6. Fits(drv') /\ ~Past(drv')
      BY <1>0, <1>1, <2>5 DEF Fits, Past, Passes, Lists
    <2>7. Typed'
      BY <1>1, <2>1, <2>2, <2>3, <2>5 DEF Typed
    <2>8. Awaiting' /\ Control'
      BY <1>1, <2>1, <2>2, <2>6 DEF IInv, Awaiting, Control
    <2>9. Supervised' /\ Counted'
      BY <1>2, <2>1, <2>2, <2>3 DEF IInv, Supervised, Counted
    <2>10. Shaken'
      BY <2>5, <2>6 DEF Shaken, FuzzedAfterHandshake, At
    <2> QED
      BY <2>2, <2>7, <2>8, <2>9, <2>10 DEF IInv
  <1>4. CASE EndpointTimeout
    <2>1. /\ UNCHANGED <<kind, tgt, deaths, work, tr, client, shook, drv>>
          /\ kind = "sse" /\ noise > 0 /\ noise' = noise - 1 /\ stale' = TRUE
      BY <1>4 DEF EndpointTimeout
    <2>2. UNCHANGED <<pending, rawWaiters, crashEvents, call>>
      BY <2>1 DEF client
    <2>3. noise' \in 0..MaxNoise
      BY <1>2, <2>1
    <2>4. Typed'
      BY <1>1, <2>1, <2>2, <2>3 DEF Typed
    <2>5. Awaiting' /\ Control' /\ Supervised' /\ Counted'
      BY <2>1, <2>2 DEF IInv, Awaiting, Control, Supervised, Counted
    <2>6. Shaken'
      BY <2>1, <2>2 DEF IInv, Shaken, FuzzedAfterHandshake, At
    <2> QED
      BY <2>2, <2>4, <2>5, <2>6 DEF IInv
  <1> QED
    BY <1>3, <1>4

\* The handshake is completed; the notification may tell of a death.
LEMMA InitializedStep ==
    ASSUME IInv, Initialized
    PROVE  IInv' /\ [Promise!Next]_call
  <1>1. /\ drv.pc = "initW" /\ call.res = "ok" /\ UNCHANGED <<target, stale>>
        /\ shook' = IF tr.st = "up" THEN tr.inc ELSE shook
        /\ IF Reachable THEN UNCHANGED <<tr, crashEvents, pending, rawWaiters, call>> ELSE handleCrash
    BY DEF Initialized, At
  <1>2. /\ drv \in Drivers /\ Fits(drv) /\ Typed /\ tr \in Conns /\ crashEvents \in Nat
        /\ deaths \in Nat /\ pending = {}
    BY <1>1, NotWaiting, Bounds DEF IInv, Awaiting, Typed
  <1>3. Waiters /\ Settled /\ UNCHANGED call /\ (UNCHANGED <<tr, crashEvents>> \/ Noticed)
    <2>1. CASE Reachable
      BY <1>1, <2>1 DEF Waiters, Settled, IInv, Typed, Awaiting
    <2>2. CASE ~Reachable
      BY <1>1, <2>2, CrashCall, LostIsDead
    <2> QED
      BY <2>1, <2>2
  <1>4. UNCHANGED <<pending, call, kind, tgt, deaths, work, noise, stale>>
    BY <1>1, <1>3 DEF Settled, target
  <1>5. /\ tr' \in Conns /\ crashEvents' \in Nat
        /\ tr'.st = "up" => UNCHANGED <<tr, crashEvents>>
        /\ UNCHANGED <<tr, crashEvents>> \/ (kind # "sse" => crashEvents' <= deaths)
    BY <1>2, <1>3 DEF Noticed, Conns
  <1>6. drv' \in Drivers /\ Fits(drv') /\ drv'.pc # "caseW"
    <2>1. CASE drv.ph = "ensure"
      <3>1. drv' = Enter("list", "tools")
        BY <2>1 DEF Initialized
      <3>2. drv' \in Drivers /\ drv'.pc = "list" /\ drv'.ph = "tools" /\ drv'.n = 1
        BY <1>2, <3>1, EnterFields DEF Phases
      <3> QED
        BY <3>2 DEF Fits, Lists
    <2>2. CASE drv.ph # "ensure"
      <3>1. drv' = [drv EXCEPT !.pc = "case", !.ver = 1, !.tries = 0]
        BY <2>2 DEF Initialized
      <3>2. "case" \in Pcs /\ 1 \in 1..2 /\ 0 \in 0..MaxTries
        BY Bounds DEF Pcs
      <3>3. drv' \in Drivers /\ drv'.pc = "case" /\ drv'.ph = drv.ph /\ drv'.n = drv.n
        BY <1>2, <3>1, <3>2 DEF Drivers
      <3> QED
        BY <1>1, <1>2, <2>2, <3>3 DEF Fits
    <2> QED
      BY <2>1, <2>2
  <1>7. shook' \in -1..MaxRestarts
    BY <1>1, <1>2 DEF Typed, Conns
  <1>8. Typed'
    BY <1>2, <1>3, <1>4, <1>5, <1>6, <1>7 DEF Typed, Waiters
  <1>9. Awaiting' /\ Control'
    BY <1>1, <1>3, <1>4, <1>6 DEF IInv, Awaiting, Waiters, Control
  <1>10. Supervised' /\ Counted'
    <2>1. Supervised'
      BY <1>4, <1>5 DEF IInv, Supervised
    <2>2. Counted'
      BY <1>4, <1>5 DEF IInv, Counted
    <2> QED
      BY <2>1, <2>2
  <1>11. Shaken'
    BY <1>1, <1>5, <1>6 DEF Shaken, FuzzedAfterHandshake, At
  <1> QED
    BY <1>4, <1>8, <1>9, <1>10, <1>11 DEF IInv
-----------------------------------------------------------------------------
(***************************************************************************)
(* The results.                                                            *)
(***************************************************************************)

\* The client starts in the invariant.
LEMMA Start == Init => IInv
  <1> SUFFICES ASSUME Init PROVE IInv
    OBVIOUS
  <1>1. Typed
    <2>1. tr \in Conns /\ tr.st = "none"
      BY Bounds DEF Init, Conns
    <2>2. call \in Calls
      BY DEF Init, Calls
    <2>3. drv \in Drivers
      <3>1. /\ 0 \in 0..NTools /\ 0 \in 0..MaxTries /\ 1 \in 1..2 /\ "start" \in Pcs
            /\ "ensure" \in Phases /\ 1 \in Nat
        BY Bounds DEF Pcs, Phases
      <3> QED
        BY <3>1 DEF Init, Drivers
    <2>4. tgt \in {"starting", "up", "down", "halted"}
      BY DEF Init, NextStart
    <2>5. deaths \in 0..MaxRestarts /\ noise \in 0..MaxNoise /\ shook \in -1..MaxRestarts
      BY Bounds DEF Init
    <2>6. /\ kind \in Kinds /\ work \subseteq Keys /\ pending \subseteq Keys
          /\ rawWaiters \in Seq(Keys) /\ crashEvents \in Nat
      BY DEF Init
    <2>7. stale \in BOOLEAN
      BY DEF Init
    <2> QED
      BY <2>1, <2>2, <2>3, <2>4, <2>5, <2>6, <2>7, Zenon DEF Typed
  <1>2. Awaiting
    BY FS_EmptySet DEF Init, Awaiting
  <1>3. Control
    BY DEF Init, Control, Fits
  <1>4. Supervised /\ Counted
    BY Bounds DEF Init, Supervised, Counted, NextStart
  <1>5. Shaken
    BY DEF Init, Shaken, FuzzedAfterHandshake, At
  <1> QED
    BY <1>1, <1>2, <1>3, <1>4, <1>5 DEF IInv

\* Every step keeps the invariant and the promise.
LEMMA Steps == IInv /\ [Next]_vars => IInv' /\ [Promise!Next]_call
  <1> SUFFICES ASSUME IInv, [Next]_vars PROVE IInv' /\ [Promise!Next]_call
    OBVIOUS
  <1>1. CASE UNCHANGED vars
    <2>1. UNCHANGED <<kind, tgt, deaths, work, noise, tr, stale, pending, rawWaiters,
                      crashEvents, shook, call, drv>>
      BY <1>1 DEF vars
    <2>2. Typed' /\ Awaiting' /\ Control' /\ Supervised' /\ Counted' /\ Shaken'
      BY <2>1 DEF IInv, Typed, Awaiting, Control, Supervised, Counted, Shaken,
                  FuzzedAfterHandshake, At
    <2> QED
      BY <2>1, <2>2 DEF IInv
  <1>2. CASE Driver
    BY <1>2, ConnectSteps, QuietSteps, SendingSteps, InitializedStep, ClosingSteps, ListPageStep
       DEF Driver
  <1>3. CASE Handler
    BY <1>3, FrameSteps, TimeoutStep, BodyStep, StreamSteps DEF Handler
  <1>4. CASE Supervisor \/ TargetDies
    BY <1>4, TargetSteps DEF Supervisor
  <1> QED
    BY <1>1, <1>2, <1>3, <1>4 DEF Next

\* The invariant holds throughout.
LEMMA Invariance == Spec => []IInv
  <1>1. IInv /\ [Next]_vars => IInv'
    BY Steps
  <1> QED
    BY <1>1, Start, PTL DEF Spec

\* Every reachable state is typed: the supervisor starts the server no more
\* often than MAX_RESTARTS allows and initializeWithRetry stops at its deadline.
THEOREM TypeCorrect == Spec => []TypeOK
  <1>1. IInv => TypeOK
    BY Zenon DEF IInv, Typed, TypeOK, Conns, Calls, Drivers, Pcs
  <1> QED
    BY <1>1, Invariance, PTL

\* handleCrash counts a death once, whichever of the end of a stream, a failed
\* write and reset POSTs tell of it, around any reconnects, for any number of
\* restarts and of requests.
THEOREM CrashesCounted == Spec => []CrashCountedOnce
  <1>1. IInv => CrashCountedOnce
    BY DEF IInv, Counted, CrashCountedOnce
  <1> QED
    BY <1>1, Invariance, PTL

\* A tools/call of runFuzz is only ever with an incarnation of the target that
\* completed the handshake, however often it dies while recover() runs.
THEOREM HandshakeFirst == Spec => []FuzzedAfterHandshake
  <1>1. IInv => FuzzedAfterHandshake
    BY DEF IInv, Shaken
  <1> QED
    BY <1>1, Invariance, PTL

\* The client implements the safety part of Requests: a request is settled at
\* most once, and one with an id only with the answer to that id.  (That every
\* request is settled, the fairness part of RequestsKept, is left to TLC.)
THEOREM PromiseKept == Spec => Promise!Init /\ [][Promise!Next]_call
  <1>1. Init => Promise!Init
    BY DEF Init, Promise!Init
  <1>2. IInv /\ [Next]_vars => [Promise!Next]_call
    BY Steps
  <1> QED
    BY <1>1, <1>2, Invariance, PTL DEF Spec
=============================================================================
