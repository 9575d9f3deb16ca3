------------------------ MODULE ServerSchedule_proofs ------------------------
(***************************************************************************)
(* Proofs about ServerSchedule, for every value of its constants.          *)
(* FiresKept alone has a hypothesis: that a reconcile's copy of the server *)
(* is fewer fires behind than isDue walks over (CopyRecent).               *)
(***************************************************************************)
EXTENDS ServerSchedule, Iteration, TLAPS

\* Between the uncached list and the creation nothing becomes active: only this
\* controller creates runs, and it reconciles a server once at a time.
ClearToCreate ==
    rec.pc = "create" => \A k \in RunIds : runs[k].st = "active" => runs[k].del

RecIsRecord == DOMAIN rec = {"pc", "at", "fire", "last", "mirror", "todo"}

RunsAreRecords == runs \in [RunIds -> RunObj]

\* The inductive invariant of the theorem.
CreateInv == RunsAreRecords /\ RecIsRecord /\ ClearToCreate

\* The initial state satisfies the inductive invariant.
LEMMA CreateInvInit == Init => CreateInv
<1> SUFFICES ASSUME Init PROVE CreateInv
  OBVIOUS
<1>1. RunsAreRecords
  BY DEF Init, RunsAreRecords, RunObj, RunStates, NoRun
<1>2. ClearToCreate
  BY DEF Init, ClearToCreate, IdleRec
<1>3. RecIsRecord
  BY DEF Init, RecIsRecord, IdleRec
<1> QED BY <1>1, <1>2, <1>3 DEF CreateInv

\* Every write to a run leaves a record, makes none active but a new one, and takes
\* back no deletion of an active one.
LEMMA RunsTyped ==
    ASSUME RunsAreRecords, Next
    PROVE  RunsAreRecords'
<1> USE DEF RunsAreRecords
<1>1. CASE RecSchedule \/ RecUnschedulable
  BY <1>1 DEF RecSchedule, RecUnschedulable
<1>2. CASE ListUncached \/ ClearTriggerAnnotation \/ PatchStatus \/ RecAbort
  BY <1>2 DEF ListUncached, ClearTriggerAnnotation, PatchStatus, RecAbort
<1>3. CASE CreateRun
  <2>1. \A c \in BOOLEAN : [st |-> "active", cron |-> c, del |-> FALSE] \in RunObj
    BY DEF RunObj, RunStates
  <2> QED BY <1>3, <2>1 DEF CreateRun
<1>4. CASE PruneRun
  BY <1>4 DEF PruneRun, RunObj
<1>5. CASE SyncServer \/ SyncRuns \/ Tick \/ SetTrigger \/ EditSpec \/ EditAgents
  BY <1>5 DEF SyncServer, SyncRuns, Tick, SetTrigger, EditSpec, EditAgents
<1>6. ASSUME NEW i \in RunIds, FinishRun(i) \/ ReopenRun(i) \/ DeleteRun(i) \/ RunGone(i)
      PROVE  RunsAreRecords'
  <2>1. Outcomes \subseteq RunStates
    BY ScheduleAssumption DEF RunStates
  <2>2. [NoRun EXCEPT !.st = "gone"] \in RunObj
    BY DEF NoRun, RunObj, RunStates
  <2>3. \A s \in RunStates, r \in RunObj : [r EXCEPT !.st = s] \in RunObj
    BY DEF RunObj
  <2>4. \A r \in RunObj : [r EXCEPT !.del = TRUE] \in RunObj
    BY DEF RunObj
  <2>5. "reopened" \in RunStates
    BY DEF RunStates
  <2> QED BY <1>6, <2>1, <2>2, <2>3, <2>4, <2>5 DEF FinishRun, ReopenRun, DeleteRun, RunGone
<1> QED BY <1>1, <1>2, <1>3, <1>4, <1>5, <1>6 DEF Next, Reconcile, Continue

\* Every step leaves a reconcile record.
LEMMA RecTyped ==
    ASSUME RecIsRecord, Next
    PROVE  RecIsRecord'
<1> USE DEF RecIsRecord
<1>1. CASE RecSchedule \/ RecUnschedulable
  BY <1>1 DEF RecSchedule, RecUnschedulable, IdleRec, Skip
<1>2. CASE ListUncached \/ ClearTriggerAnnotation
  BY <1>2 DEF ListUncached, ClearTriggerAnnotation, Skip
<1>3. CASE RecAbort \/ PatchStatus \/ PruneRun
  BY <1>3 DEF PatchStatus, RecAbort, PruneRun, IdleRec
<1>4. CASE CreateRun
  BY <1>4 DEF CreateRun, IdleRec
<1>5. CASE SyncServer \/ SyncRuns \/ Tick \/ SetTrigger \/ EditSpec \/ EditAgents
  BY <1>5 DEF SyncServer, SyncRuns, Tick, SetTrigger, EditSpec, EditAgents
<1>6. ASSUME NEW i \in RunIds, FinishRun(i) \/ ReopenRun(i) \/ DeleteRun(i) \/ RunGone(i)
      PROVE  RecIsRecord'
  BY <1>6 DEF FinishRun, ReopenRun, DeleteRun, RunGone, world
<1> QED BY <1>1, <1>2, <1>3, <1>4, <1>5, <1>6 DEF Next, Reconcile, Continue

\* Every step preserves ClearToCreate: the list is checked just before, and only
\* CreateRun adds an active run.
LEMMA ClearNext ==
    ASSUME RunsAreRecords, RecIsRecord, ClearToCreate, Next
    PROVE  ClearToCreate'
<1> USE DEF RunsAreRecords, ClearToCreate
<1>1. CASE RecSchedule \/ RecUnschedulable
  BY <1>1 DEF RecSchedule, RecUnschedulable, IdleRec, Skip
<1>2. CASE ListUncached
  <2>1. findActiveRun(runs) = {} => \A k \in RunIds : runs[k].st = "active" => runs[k].del
    BY DEF findActiveRun, InFlight
  <2> QED BY <1>2, <2>1 DEF ListUncached, Skip
<1>3. CASE ClearTriggerAnnotation \/ PatchStatus \/ RecAbort \/ CreateRun \/ PruneRun
  <2>1. \A x : [rec EXCEPT !.pc = x].pc = x
    BY DEF RecIsRecord
  <2>2. \A x, y : [rec EXCEPT !.pc = x, !.last = y].pc = x
    BY DEF RecIsRecord
  <2>3. \A x : [rec EXCEPT !.todo = x].pc = rec.pc
    BY DEF RecIsRecord
  <2>4. IdleRec.pc = "idle"
    BY DEF IdleRec
  <2>5. CASE ClearTriggerAnnotation \/ PatchStatus \/ RecAbort
    BY <2>1, <2>4, <2>5 DEF ClearTriggerAnnotation, PatchStatus, RecAbort
  <2>6. CASE CreateRun
    <3> DEFINE p == IF srvC.trig THEN "clear" ELSE "patch"
               l == IF srvC.trig THEN rec.at ELSE rec.fire
    <3>1. rec' = IdleRec \/ rec' = [rec EXCEPT !.pc = p, !.last = l]
      BY <2>6 DEF CreateRun
    <3>2. p # "create"
      OBVIOUS
    <3> HIDE DEF p, l
    <3>3. [rec EXCEPT !.pc = p, !.last = l].pc = p
      BY <2>2
    <3>4. rec'.pc # "create"
      BY <2>4, <3>1, <3>2, <3>3
    <3> QED BY <3>4
  <2>7. CASE PruneRun
    BY <2>3, <2>4, <2>7 DEF PruneRun
  <2> QED BY <1>3, <2>5, <2>6, <2>7
<1>4. CASE SyncServer \/ SyncRuns \/ Tick \/ SetTrigger \/ EditSpec \/ EditAgents
  BY <1>4 DEF SyncServer, SyncRuns, Tick, SetTrigger, EditSpec, EditAgents
<1>5. ASSUME NEW i \in RunIds, FinishRun(i) \/ ReopenRun(i) \/ DeleteRun(i) \/ RunGone(i)
      PROVE  ClearToCreate'
  <2>1. "active" \notin Outcomes
    BY ScheduleAssumption
  <2>2. UNCHANGED rec
    BY <1>5 DEF FinishRun, ReopenRun, DeleteRun, RunGone, world
  <2>3. \A k \in RunIds : runs'[k].st = "active" => /\ runs[k].st = "active"
                                                    /\ runs[k].del => runs'[k].del
    <3>1. CASE FinishRun(i) \/ ReopenRun(i)
      BY <2>1, <3>1 DEF FinishRun, ReopenRun, RunObj
    <3>2. CASE DeleteRun(i)
      BY <3>2 DEF DeleteRun, RunObj
    <3>3. CASE RunGone(i)
      BY <3>3 DEF RunGone, NoRun, RunObj
    <3> QED BY <1>5, <3>1, <3>2, <3>3
  <2> QED BY <2>2, <2>3
<1> QED BY <1>1, <1>2, <1>3, <1>4, <1>5 DEF Next, Reconcile, Continue

\* Every step preserves CreateInv.
LEMMA CreateInvNext == CreateInv /\ [Next]_vars => CreateInv'
<1>1. CASE UNCHANGED vars
  BY <1>1 DEF CreateInv, RunsAreRecords, RecIsRecord, ClearToCreate, vars
<1> QED BY <1>1, RunsTyped, RecTyped, ClearNext DEF CreateInv

\* Only CreateRun makes a run active.
LEMMA OnlyCreateRun ==
    ASSUME RunsAreRecords, Next, NEW i \in RunIds, runs[i].st = "none", runs'[i].st = "active"
    PROVE  rec.pc = "create"
<1> USE DEF RunsAreRecords
<1>1. CASE RecSchedule \/ RecUnschedulable
  BY <1>1 DEF RecSchedule, RecUnschedulable
<1>2. CASE ListUncached \/ ClearTriggerAnnotation \/ PatchStatus \/ RecAbort
  BY <1>2 DEF ListUncached, ClearTriggerAnnotation, PatchStatus, RecAbort
<1>3. CASE CreateRun
  BY <1>3 DEF CreateRun
<1>4. CASE PruneRun
  BY <1>4 DEF PruneRun
<1>5. CASE SyncServer \/ SyncRuns \/ Tick \/ SetTrigger \/ EditSpec \/ EditAgents
  BY <1>5 DEF SyncServer, SyncRuns, Tick, SetTrigger, EditSpec, EditAgents
<1>6. ASSUME NEW k \in RunIds, FinishRun(k) \/ ReopenRun(k) \/ DeleteRun(k) \/ RunGone(k)
      PROVE  FALSE
  <2>1. "active" \notin Outcomes
    BY ScheduleAssumption
  <2>2. CASE FinishRun(k) \/ ReopenRun(k)
    BY <2>1, <2>2 DEF FinishRun, ReopenRun, RunObj, InFlight
  <2>3. CASE DeleteRun(k)
    BY <2>3 DEF DeleteRun, RunObj
  <2>4. CASE RunGone(k)
    BY <2>4 DEF RunGone, NoRun, RunObj
  <2> QED BY <1>6, <2>2, <2>3, <2>4
<1> QED BY <1>1, <1>2, <1>3, <1>4, <1>5, <1>6 DEF Next, Reconcile, Continue

\* The uncached list at fire time is enough: whatever the caches show, no run is
\* created while an earlier one is still in its first life.
THEOREM UncachedListPreventsOverlap == Spec => NoOverlap
<1>1. CreateInv /\ [Next]_vars
        => [\A i \in RunIds : runs[i].st = "none" /\ runs'[i].st = "active"
              => \A k \in RunIds : runs[k].st = "active" => runs[k].del]_runs
  <2> SUFFICES ASSUME CreateInv, Next, NEW i \in RunIds,
                      runs[i].st = "none", runs'[i].st = "active"
               PROVE  \A k \in RunIds : runs[k].st = "active" => runs[k].del
    BY DEF vars
  <2> QED BY OnlyCreateRun DEF CreateInv, ClearToCreate
<1> QED BY <1>1, CreateInvInit, CreateInvNext, PTL DEF Spec, NoOverlap

-----------------------------------------------------------------------------
(***************************************************************************)
(* The schedule.                                                           *)
(***************************************************************************)

\* Division by the period.
LEMMA Fires ==
    ASSUME NEW x \in Nat
    PROVE  /\ x \div Period \in Nat
           /\ NextFire(x) \in Nat /\ NextFire(x) > x
           /\ NextFire(x) \div Period = x \div Period + 1
           /\ \A y \in Nat : x <= y => x \div Period <= y \div Period
           /\ \A y \in Nat : NextFire(x) > y => x \div Period >= y \div Period
<1> DEFINE P == Period
           k == x \div P
<1>0. P \in Nat \ {0}
  BY ScheduleAssumption
<1> HIDE DEF P
<1>1. k \in Nat /\ x < P * (k + 1)
  BY <1>0
<1>2. \A y \in Nat : x <= y => x \div P <= y \div P
  BY <1>0
<1>3. \A y \in Nat : y \div P \in Nat /\ P * (y \div P) <= y
  BY <1>0
<1> HIDE DEF k
<1>4. P * (k + 1) \in Nat /\ (P * (k + 1)) \div P = k + 1
  BY <1>0, <1>1
<1>5. ASSUME NEW y \in Nat, P * (k + 1) > y PROVE k >= y \div P
  <2>1. PICK m \in Nat : m = y \div P /\ P * m <= y
    BY <1>3
  <2>2. ASSUME k < m PROVE FALSE
    <3>1. k + 1 <= m /\ P * (k + 1) <= P * m
      BY <1>0, <1>1, <2>2
    <3> QED BY <1>0, <1>1, <1>4, <1>5, <2>1, <3>1
  <2> QED BY <1>1, <2>1, <2>2
<1>6. NextFire(x) = P * (k + 1)
  BY DEF NextFire, P, k
<1> QED BY <1>1, <1>2, <1>4, <1>5, <1>6 DEF k, P

\* What isDue finds: no fire after t; and one in the same period as t, or MaxWalk
\* fires on from last when the walk is cut short.
LEMMA DueFire ==
    ASSUME NEW last \in Nat, NEW t \in Nat
    PROVE  /\ isDue(last, t) \in Nat /\ isDue(last, t) <= t
           /\ isDue(last, t) # 0
                => \/ isDue(last, t) \div Period >= t \div Period
                   \/ isDue(last, t) \div Period >= last \div Period + MaxWalk
<1> DEFINE N == MaxWalk
           Onward(w) == LET fire == NextFire(w) IN IF fire > t THEN w ELSE fire
           walk[i \in 0..N] == IF i = 0 THEN last ELSE Onward(walk[i - 1])
           F == [p \in Nat \X (1..N) |-> Onward(p[1])]
<1>0. N \in Nat /\ Period \in Nat \ {0}
  BY ScheduleAssumption
<1>1. \A w \in Nat : Onward(w) \in Nat
  BY Fires
<1>2. F \in [Nat \X (1..N) -> Nat]
  <2> HIDE DEF Onward
  <2> QED BY <1>1
<1>3. \E g \in [0..N -> Nat] : History(g, last, N, F)
  <2> HIDE DEF F, N
  <2> QED BY <1>0, <1>2, Iterates, Zenon
<1>4. PICK g \in [0..N -> Nat] : g[0] = last /\ \A n \in 1..N : g[n] = F[<<g[n - 1], n>>]
  BY <1>3, Zenon DEF History
<1>5. \A n \in 1..N : n - 1 \in 0..N /\ g[n] = Onward(g[n - 1])
  <2> SUFFICES ASSUME NEW n \in 1..N PROVE n - 1 \in 0..N /\ g[n] = Onward(g[n - 1])
    OBVIOUS
  <2> HIDE DEF Onward
  <2>1. n - 1 \in 0..N
    BY <1>0
  <2>2. <<g[n - 1], n>> \in Nat \X (1..N)
    BY <2>1
  <2> QED BY <1>4, <2>1, <2>2
<1> HIDE DEF F, Onward
<1>6. g = [i \in 0..N |-> IF i = 0 THEN last ELSE Onward(g[i - 1])]
  <2>1. ASSUME NEW i \in 0..N PROVE g[i] = IF i = 0 THEN last ELSE Onward(g[i - 1])
    <3>1. i # 0 => i \in 1..N
      BY <1>0
    <3> QED BY <1>4, <1>5, <3>1
  <2>2. g = [i \in 0..N |-> g[i]]
    OBVIOUS
  <2> QED BY <2>1, <2>2, Zenon
<1>7. walk = CHOOSE f : f = [i \in 0..N |-> IF i = 0 THEN last ELSE Onward(f[i - 1])]
  BY DEF walk
<1>8. walk = [i \in 0..N |-> IF i = 0 THEN last ELSE Onward(walk[i - 1])]
  BY <1>6, <1>7, Zenon
<1>9. isDue(last, t) = IF walk[N] > last THEN walk[N] ELSE 0
  BY Zenon DEF isDue, walk, Onward
<1> HIDE DEF walk
<1>10. \A i \in 0..N : walk[i] = IF i = 0 THEN last ELSE Onward(walk[i - 1])
  BY <1>8, Zenon
<1>l. PICK l \in Nat : l = last \div Period
  BY Fires
<1> DEFINE Good(n) == /\ walk[n] \in Nat
                      /\ walk[n] > last => walk[n] <= t
                      /\ walk[n] \div Period >= t \div Period \/ walk[n] \div Period >= l + n
           S == {n \in 0..N : Good(n)}
<1>11. 0 \in S
  <2>1. walk[0] = last /\ 0 \in 0..N
    BY <1>0, <1>10
  <2> QED BY <1>l, <2>1
<1>12. ASSUME NEW n \in 1..N, n - 1 \in S PROVE n \in S
  <2>1. n \in 0..N /\ n # 0 /\ n \in Nat
    BY <1>0
  <2>2. Good(n - 1)
    BY <1>12
  <2>3. PICK w \in Nat : w = walk[n - 1]
    BY <2>2
  <2>4. walk[n] = IF NextFire(w) > t THEN w ELSE NextFire(w)
    BY <1>10, <2>1, <2>3 DEF Onward
  <2>5. /\ w \div Period \in Nat /\ t \div Period \in Nat
        /\ NextFire(w) \in Nat /\ NextFire(w) \div Period = w \div Period + 1
        /\ NextFire(w) > t => w \div Period >= t \div Period
    BY Fires
  <2>6. Good(n)
    <3>1. CASE NextFire(w) > t
      <4>1. walk[n] = w /\ w \div Period >= t \div Period
        BY <2>4, <2>5, <3>1
      <4> QED BY <2>2, <2>3, <4>1
    <3>2. CASE ~(NextFire(w) > t)
      <4>1. walk[n] = NextFire(w) /\ NextFire(w) <= t
        BY <2>4, <2>5, <3>2
      <4>2. PICK a \in Nat, b \in Nat, c \in Nat : a = w \div Period /\ b = t \div Period /\ c = walk[n] \div Period
        BY <2>5, <4>1
      <4>3. c = a + 1 /\ (a >= b \/ a >= l + (n - 1))
        BY <2>2, <2>3, <2>5, <4>1, <4>2
      <4>4. c >= b \/ c >= l + n
        BY <2>1, <4>3
      <4> QED BY <2>5, <4>1, <4>2, <4>4
    <3> QED BY <3>1, <3>2
  <2> QED BY <2>1, <2>6
<1>13. 0..N \subseteq S
  <2> HIDE DEF S, N
  <2> QED BY <1>0, <1>11, <1>12, BoundedInduction
<1>14. Good(N)
  <2>1. N \in 0..N
    BY <1>0
  <2> QED BY <1>13, <2>1
<1> QED BY <1>9, <1>14, <1>l DEF N

-----------------------------------------------------------------------------
(***************************************************************************)
(* What the steps do to the reconcile and to the server, field by field.   *)
(***************************************************************************)
RecIs(r, pc, at, fire, last, mirror, todo) ==
    /\ r \in Rec
    /\ r.pc = pc /\ r.at = at /\ r.fire = fire /\ r.last = last /\ r.mirror = mirror /\ r.todo = todo

ServerIs(s, spec, trig, last, mirror) ==
    /\ s \in Server
    /\ s.spec = spec /\ s.trig = trig /\ s.last = last /\ s.mirror = mirror

Runs0 == {0} \union RunIds
Specs == {"ok", "paused", "badcron"}

\* The ways a reconcile is changed.
LEMMA RecForms ==
    ASSUME NEW r \in Rec, NEW pc \in RecStates, NEW last \in Times, NEW todo \in SUBSET RunIds
    PROVE  /\ RecIs([r EXCEPT !.pc = pc], pc, r.at, r.fire, r.last, r.mirror, r.todo)
           /\ RecIs([r EXCEPT !.pc = pc, !.last = last], pc, r.at, r.fire, last, r.mirror, r.todo)
           /\ RecIs([r EXCEPT !.todo = todo], r.pc, r.at, r.fire, r.last, r.mirror, todo)
  BY DEF Rec, RecIs

\* The fields of a typed reconcile have their types.
LEMMA RecTypes ==
    ASSUME NEW r \in Rec
    PROVE  /\ r.pc \in RecStates /\ r.at \in Times /\ r.fire \in Times /\ r.last \in Times
           /\ r.mirror \in Runs0 /\ r.todo \in SUBSET RunIds
  BY DEF Rec, Runs0

\* The fields of a typed server have their types.
LEMMA ServerTypes ==
    ASSUME NEW s \in Server
    PROVE  s.spec \in Specs /\ s.trig \in BOOLEAN /\ s.last \in Times /\ s.mirror \in Runs0
  BY DEF Server, Runs0, Specs

\* The ways a server is changed.
LEMMA ServerForms ==
    ASSUME NEW s \in Server, NEW spec \in Specs, NEW trig \in BOOLEAN, NEW last \in Times, NEW mirror \in Runs0
    PROVE  /\ ServerIs([s EXCEPT !.spec = spec], spec, s.trig, s.last, s.mirror)
           /\ ServerIs([s EXCEPT !.trig = trig], s.spec, trig, s.last, s.mirror)
           /\ ServerIs([s EXCEPT !.last = last, !.mirror = mirror], s.spec, s.trig, last, mirror)
  BY DEF Server, ServerIs, Runs0, Specs

\* Between reconciles nothing is remembered.
LEMMA IdleForm ==
    /\ RecIs(IdleRec, "idle", 0, 0, 0, 0, {})
    /\ 0 \in Times /\ 0 \in Runs0 /\ \A p \in {"idle", "list", "create", "clear", "patch", "prune"} : p \in RecStates
<1>1. 0 \in Times /\ 0 \in Runs0 /\ \A p \in {"idle", "list", "create", "clear", "patch", "prune"} : p \in RecStates
  BY ScheduleAssumption DEF RecStates, Times, Runs0
<1>2. RecIs(IdleRec, "idle", 0, 0, 0, 0, {})
  BY <1>1 DEF RecIs, IdleRec, Rec, Runs0
<1> QED BY <1>1, <1>2

\* A reconcile begins with a record of its own.
LEMMA FreshForms ==
    ASSUME NEW at \in Times, NEW fire \in Times, NEW last \in Times, NEW mirror \in Runs0, NEW todo \in SUBSET RunIds
    PROVE  /\ RecIs([IdleRec EXCEPT !.at = at, !.fire = fire, !.last = last, !.mirror = mirror, !.todo = todo],
                    "idle", at, fire, last, mirror, todo)
           /\ RecIs([IdleRec EXCEPT !.pc = "patch", !.last = last, !.mirror = mirror],
                    "patch", 0, 0, last, mirror, {})
<1>1. 0 \in Times /\ "idle" \in RecStates /\ "patch" \in RecStates
  BY IdleForm
<1> QED BY <1>1 DEF RecIs, IdleRec, Rec, Runs0

Mirror == syncLatestRunResult(runsC, srvC.mirror)
Verdict == {"completed", "mal"}
Verdicts == {i \in RunIds : runsC[i].st \in Verdict}

\* What the status should show: the newest run with a verdict.
LEMMA MirrorIs ==
    /\ Verdicts = {} => Mirror = srvC.mirror
    /\ Verdicts # {} => Mirror \in Verdicts /\ \A i \in Verdicts : Mirror >= i
<1>0. 1 \in Int /\ MaxRuns \in Int /\ Verdicts \subseteq 1..MaxRuns
  BY ScheduleAssumption DEF Verdicts, RunIds
<1>1. Mirror = IF Verdicts = {} THEN srvC.mirror ELSE Max(Verdicts)
  BY Zenon DEF Mirror, syncLatestRunResult, Verdicts, Verdict
<1> QED BY <1>0, <1>1, MaxWithin

\* A reconcile begins: it patches at once, having consumed the fire or not, or it
\* looks for active runs first.
LEMMA BeginForm ==
    ASSUME now \in Times, srvC \in Server, RecUnschedulable \/ RecSchedule
    PROVE  /\ rec.pc = "idle" /\ UNCHANGED <<now, srv, srvC, runs, runsC, agents, budget>>
           /\ \/ RecIs(rec', "patch", 0, 0, srvC.last, Mirror, {})
              \/ \E pc, last :
                   /\ RecIs(rec', pc, now, isDue(srvC.last, now), last, Mirror, pruneRuns(runsC))
                   /\ \/ pc = "patch" /\ last = srvC.last
                      \/ pc = "patch" /\ last = isDue(srvC.last, now) /\ isDue(srvC.last, now) # 0
                      \/ pc = "list" /\ last = srvC.last /\ (isDue(srvC.last, now) # 0 \/ srvC.trig)
           /\ RecUnschedulable => RecIs(rec', "patch", 0, 0, srvC.last, Mirror, {})
<1>0. srvC.last \in Times /\ srvC.mirror \in Runs0
  BY ServerTypes
<1>1. Mirror \in Runs0
  BY <1>0, MirrorIs DEF Verdicts, Runs0
<1>2. CASE RecUnschedulable
  <2>1. rec' = [IdleRec EXCEPT !.pc = "patch", !.last = srvC.last, !.mirror = Mirror]
    BY <1>2, Zenon DEF RecUnschedulable, Mirror
  <2>2. RecIs(rec', "patch", 0, 0, srvC.last, Mirror, {})
    <3>1. 0 \in Times /\ {} \in SUBSET RunIds
      BY IdleForm
    <3> QED BY <1>0, <1>1, <2>1, <3>1, FreshForms, Zenon
  <2> QED BY <1>2, <2>2 DEF RecUnschedulable
<1>3. CASE RecSchedule
  <2>1. PICK fire \in Times : fire = isDue(srvC.last, now)
    <3>1. srvC.last \in Nat /\ now \in Nat /\ MaxTime \in Nat
      BY <1>0, ScheduleAssumption DEF Times
    <3>2. isDue(srvC.last, now) \in Nat /\ isDue(srvC.last, now) <= now
      BY <3>1, DueFire
    <3>3. isDue(srvC.last, now) \in Times
      BY <3>1, <3>2 DEF Times
    <3> QED BY <3>3
  <2>2. PICK todo \in SUBSET RunIds : todo = pruneRuns(runsC)
    <3>1. pruneRuns(runsC) \in SUBSET RunIds
      BY DEF pruneRuns
    <3> QED BY <3>1
  <2>3. PICK last \in Times : last = srvC.last
    BY <1>0
  <2> DEFINE r == [IdleRec EXCEPT !.at = now, !.fire = fire, !.last = last, !.mirror = Mirror, !.todo = todo]
  <2>4. RecIs(r, "idle", now, fire, last, Mirror, todo)
    BY <1>1, FreshForms, Zenon
  <2>5. rec' = IF r.fire = 0 /\ ~srvC.trig THEN [r EXCEPT !.pc = "patch"]
               ELSE IF findActiveRun(runsC) # {} THEN Skip(r)
               ELSE [r EXCEPT !.pc = "list"]
    BY <1>3, <2>1, <2>2, <2>3, Zenon DEF RecSchedule, Mirror
  <2> HIDE DEF r
  <2>6. r \in Rec /\ r.at = now /\ r.fire = fire /\ r.last = last /\ r.mirror = Mirror /\ r.todo = todo
    BY <2>4 DEF RecIs
  <2>7. "patch" \in RecStates /\ "list" \in RecStates
    BY IdleForm
  <2>8. \A p \in RecStates, l \in Times : /\ RecIs([r EXCEPT !.pc = p], p, now, fire, last, Mirror, todo)
                                          /\ RecIs([r EXCEPT !.pc = p, !.last = l], p, now, fire, l, Mirror, todo)
    BY <2>2, <2>6, RecForms, Zenon
  <2>9. Skip(r) = [r EXCEPT !.pc = "patch", !.last = IF fire # 0 THEN fire ELSE last]
    BY <2>6, Zenon DEF Skip
  <2>10. RecIs(Skip(r), "patch", now, fire, IF fire # 0 THEN fire ELSE last, Mirror, todo)
    BY <2>7, <2>8, <2>9
  <2>11. \/ RecIs(rec', "patch", now, fire, last, Mirror, todo)
         \/ RecIs(rec', "patch", now, fire, fire, Mirror, todo) /\ fire # 0
         \/ RecIs(rec', "list", now, fire, last, Mirror, todo) /\ (fire # 0 \/ srvC.trig)
    BY <2>5, <2>6, <2>7, <2>8, <2>10
  <2>12. rec.pc = "idle" /\ UNCHANGED <<now, srv, srvC, runs, runsC, agents, budget>>
    BY <1>3 DEF RecSchedule
  <2>13. ~RecUnschedulable
    BY <1>3 DEF RecSchedule, RecUnschedulable
  <2> QED BY <2>1, <2>2, <2>3, <2>11, <2>12, <2>13
<1> QED BY <1>2, <1>3

\* The uncached list is looked at.
LEMMA ListForm ==
    ASSUME rec \in Rec, ListUncached
    PROVE  /\ rec.pc = "list" /\ UNCHANGED <<now, srv, srvC, runs, runsC, agents, budget>>
           /\ \E pc, last :
                /\ RecIs(rec', pc, rec.at, rec.fire, last, rec.mirror, rec.todo)
                /\ \/ pc = "patch" /\ last = rec.last
                   \/ pc = "patch" /\ last = rec.fire /\ rec.fire # 0
                   \/ pc = "create" /\ last = rec.last
<1>0. rec.fire \in Times /\ rec.last \in Times /\ rec.todo \in SUBSET RunIds /\ "create" \in RecStates /\ "patch" \in RecStates
  BY RecTypes, IdleForm
<1>1. rec.pc = "list" /\ UNCHANGED <<now, srv, srvC, runs, runsC, agents, budget>>
  BY DEF ListUncached
<1>2. rec' = Skip(rec) \/ rec' = [rec EXCEPT !.pc = "create"]
  BY DEF ListUncached
<1>3. PICK l \in Times : l = IF rec.fire # 0 THEN rec.fire ELSE rec.last
  BY <1>0
<1>4. Skip(rec) = [rec EXCEPT !.pc = "patch", !.last = l]
  BY <1>3, Zenon DEF Skip
<1>5. RecIs(Skip(rec), "patch", rec.at, rec.fire, l, rec.mirror, rec.todo)
  BY <1>0, <1>4, RecForms, Zenon
<1>6. RecIs([rec EXCEPT !.pc = "create"], "create", rec.at, rec.fire, rec.last, rec.mirror, rec.todo)
  BY <1>0, RecForms, Zenon
<1> QED BY <1>1, <1>2, <1>3, <1>5, <1>6

\* A run is created, or the call fails.
LEMMA CreateForm ==
    ASSUME rec \in Rec, CreateRun
    PROVE  /\ rec.pc = "create" /\ UNCHANGED <<now, srv, srvC, runsC, agents, budget>>
           /\ \/ rec' = IdleRec
              \/ \E pc \in {"clear", "patch"}, last \in Times :
                   /\ RecIs(rec', pc, rec.at, rec.fire, last, rec.mirror, rec.todo)
                   /\ last = IF srvC.trig THEN rec.at ELSE rec.fire
<1>0. rec.fire \in Times /\ rec.at \in Times /\ rec.todo \in SUBSET RunIds
  BY RecTypes
<1>1. rec.pc = "create" /\ UNCHANGED <<now, srv, srvC, runsC, agents, budget>>
  BY DEF CreateRun
<1>2. PICK p \in {"clear", "patch"} : p = IF srvC.trig THEN "clear" ELSE "patch"
  OBVIOUS
<1>3. PICK l \in Times : l = IF srvC.trig THEN rec.at ELSE rec.fire
  BY <1>0
<1>4. rec' = IdleRec \/ rec' = [rec EXCEPT !.pc = p, !.last = l]
  BY <1>2, <1>3, Zenon DEF CreateRun
<1>5. p \in RecStates
  BY IdleForm
<1>6. RecIs([rec EXCEPT !.pc = p, !.last = l], p, rec.at, rec.fire, l, rec.mirror, rec.todo)
  BY <1>0, <1>5, RecForms, Zenon
<1> QED BY <1>1, <1>3, <1>4, <1>6

\* The annotation is cleared.
LEMMA ClearForm ==
    ASSUME rec \in Rec, srv \in Server, ClearTriggerAnnotation
    PROVE  /\ rec.pc = "clear" /\ UNCHANGED <<now, srvC, runs, runsC, agents, budget>>
           /\ RecIs(rec', "patch", rec.at, rec.fire, rec.last, rec.mirror, rec.todo)
           /\ ServerIs(srv', srv.spec, FALSE, srv.last, srv.mirror)
<1>1. "patch" \in RecStates /\ FALSE \in BOOLEAN /\ rec.last \in Times /\ rec.todo \in SUBSET RunIds
  BY IdleForm, RecTypes
<1>2. rec.pc = "clear" /\ UNCHANGED <<now, srvC, runs, runsC, agents, budget>>
      /\ srv' = [srv EXCEPT !.trig = FALSE] /\ rec' = [rec EXCEPT !.pc = "patch"]
  BY DEF ClearTriggerAnnotation
<1>3. RecIs([rec EXCEPT !.pc = "patch"], "patch", rec.at, rec.fire, rec.last, rec.mirror, rec.todo)
  BY <1>1, RecForms, Zenon
<1>4. ServerIs([srv EXCEPT !.trig = FALSE], srv.spec, FALSE, srv.last, srv.mirror)
  BY <1>1, ServerForms, ServerTypes, Zenon
<1> QED BY <1>2, <1>3, <1>4

\* The status is patched.
LEMMA PatchForm ==
    ASSUME rec \in Rec, srv \in Server, PatchStatus
    PROVE  /\ rec.pc = "patch" /\ UNCHANGED <<now, srvC, runs, runsC, agents, budget>>
           /\ \/ rec' = IdleRec
              \/ RecIs(rec', "prune", rec.at, rec.fire, rec.last, rec.mirror, rec.todo)
           /\ \E last, mirror :
                /\ ServerIs(srv', srv.spec, srv.trig, last, mirror)
                /\ last = IF rec.last # srvC.last THEN rec.last ELSE srv.last
                /\ mirror = IF rec.mirror # srvC.mirror THEN rec.mirror ELSE srv.mirror
<1>0. /\ rec.last \in Times /\ rec.mirror \in Runs0 /\ srv.last \in Times /\ srv.mirror \in Runs0
      /\ rec.todo \in SUBSET RunIds /\ "prune" \in RecStates /\ srv.spec \in Specs /\ srv.trig \in BOOLEAN
  BY RecTypes, ServerTypes, IdleForm
<1>1. PICK l \in Times : l = MergeField(srv.last, srvC.last, rec.last)
  BY <1>0 DEF MergeField
<1>2. PICK m \in Runs0 : m = MergeField(srv.mirror, srvC.mirror, rec.mirror)
  BY <1>0 DEF MergeField
<1>3. rec.pc = "patch" /\ UNCHANGED <<now, srvC, runs, runsC, agents, budget>> /\ srv' = [srv EXCEPT !.last = l, !.mirror = m]
  BY <1>1, <1>2, Zenon DEF PatchStatus
<1>4. rec' = IdleRec \/ rec' = [rec EXCEPT !.pc = "prune"]
  BY DEF PatchStatus
<1>5. RecIs([rec EXCEPT !.pc = "prune"], "prune", rec.at, rec.fire, rec.last, rec.mirror, rec.todo)
  BY <1>0, RecForms, Zenon
<1>6. ServerIs([srv EXCEPT !.last = l, !.mirror = m], srv.spec, srv.trig, l, m)
  BY <1>0, ServerForms, Zenon
<1> QED BY <1>1, <1>2, <1>3, <1>4, <1>5, <1>6 DEF MergeField

\* A run is pruned.
LEMMA PruneForm ==
    ASSUME rec \in Rec, PruneRun
    PROVE  /\ rec.pc = "prune" /\ UNCHANGED <<now, srv, srvC, runsC, agents, budget>>
           /\ \/ rec' = IdleRec
              \/ \E todo : RecIs(rec', "prune", rec.at, rec.fire, rec.last, rec.mirror, todo)
<1>0. rec.last \in Times /\ rec.todo \in SUBSET RunIds /\ rec.pc \in RecStates
  BY RecTypes
<1>1. rec.pc = "prune" /\ UNCHANGED <<now, srv, srvC, runsC, agents, budget>>
  BY DEF PruneRun
<1>2. PICK t \in SUBSET RunIds : t = rec.todo \ {Min(rec.todo)}
  <2>1. rec.todo \ {Min(rec.todo)} \in SUBSET RunIds
    BY <1>0
  <2> QED BY <2>1
<1>3. rec' = IdleRec \/ rec' = [rec EXCEPT !.todo = t]
  BY <1>2, Zenon DEF PruneRun
<1>4. RecIs([rec EXCEPT !.todo = t], rec.pc, rec.at, rec.fire, rec.last, rec.mirror, t)
  BY <1>0, RecForms, Zenon
<1> QED BY <1>1, <1>3, <1>4

-----------------------------------------------------------------------------
(***************************************************************************)
(* The dates: what a reconcile writes is not in the future.                *)
(***************************************************************************)
Before == {"list", "create"}
Writing == {"clear", "patch"}

\* Before a run is created the date is the cached one, and there is a reason to
\* create it; after that the date is the reconcile's own.
Timed ==
    /\ rec.pc \in Before => /\ rec.last = srvC.last /\ (rec.fire # 0 \/ srvC.trig)
                            /\ srv.last <= rec.at /\ rec.at <= now /\ rec.fire <= rec.at
    /\ rec.pc \in Writing => rec.last = srvC.last \/ rec.last <= now

DateInv == TypeOK /\ Timed

\* Names of pcs.
LEMMA PcNames ==
    /\ "list" \in Before /\ "create" \in Before /\ "clear" \in Writing /\ "patch" \in Writing
    /\ \A p \in {"idle", "prune"} : p \notin Before /\ p \notin Writing
    /\ "clear" \notin Before /\ "patch" \notin Before /\ "list" \notin Writing /\ "create" \notin Writing
  BY DEF Before, Writing

\* Times are numbers.
LEMMA TimesAre == MaxTime \in Nat /\ \A x \in Times : x \in Nat /\ x <= MaxTime
  BY ScheduleAssumption DEF Times

\* The initial state satisfies the invariant.
LEMMA DateInit == Init => DateInv
<1> SUFFICES ASSUME Init PROVE DateInv
  OBVIOUS
<1>1. RunsAreRecords /\ runsC = runs /\ srvC = srv /\ now = 0 /\ agents = TRUE /\ rec = IdleRec
  BY CreateInvInit DEF CreateInv, Init
<1>2. srv \in Server /\ srv.last = 0
  <2>1. 0 \in Times /\ 0 \in Runs0
    BY IdleForm
  <2> QED BY <2>1 DEF Init, FreshServer, Server, Runs0
<1>3. budget \in [faults : 0..MaxFaults, triggers : 0..MaxTriggers]
  BY ScheduleAssumption DEF Init
<1>4. rec \in Rec /\ rec.pc = "idle"
  BY <1>1, IdleForm DEF RecIs
<1>5. now \in Times /\ srv.last <= now
  BY <1>1, <1>2, IdleForm
<1>6. agents \in BOOLEAN
  BY <1>1
<1>7. TypeOK
  BY <1>1, <1>2, <1>3, <1>4, <1>5, <1>6, Zenon DEF TypeOK, RunsAreRecords
<1>8. Timed
  BY <1>4, PcNames DEF Timed
<1> QED BY <1>7, <1>8 DEF DateInv

\* What the types say of the dates.
LEMMA Dates ==
    ASSUME TypeOK
    PROVE  /\ now \in Nat /\ srv.last \in Nat /\ srvC.last \in Nat /\ srv.last <= now /\ now <= MaxTime
           /\ rec.at \in Nat /\ rec.fire \in Nat /\ rec.last \in Nat
<1>1. now \in Times /\ srv.last \in Times /\ srvC.last \in Times
  BY ServerTypes DEF TypeOK
<1>2. rec.at \in Times /\ rec.fire \in Times /\ rec.last \in Times
  BY RecTypes DEF TypeOK
<1> QED BY <1>1, <1>2, TimesAre DEF TypeOK

\* A fault is counted.
LEMMA FaultTyped ==
    ASSUME TypeOK, Fault PROVE budget' \in [faults : 0..MaxFaults, triggers : 0..MaxTriggers]
<1>1. budget \in [faults : 0..MaxFaults, triggers : 0..MaxTriggers] /\ MaxFaults \in Nat
  BY ScheduleAssumption DEF TypeOK
<1>2. PICK f \in 0..MaxFaults : f = budget.faults - 1
  BY <1>1 DEF Fault
<1>3. budget' = [budget EXCEPT !.faults = f]
  BY <1>2, Zenon DEF Fault
<1> QED BY <1>1, <1>3

\* The steps of a reconcile keep the dates.
LEMMA DateReconcile == ASSUME DateInv, Reconcile \/ Continue PROVE DateInv'
<1>0. TypeOK /\ Timed /\ now \in Times /\ srv \in Server /\ srvC \in Server /\ rec \in Rec
      /\ RunsAreRecords /\ runsC \in [RunIds -> RunObj]
  BY DEF DateInv, TypeOK, RunsAreRecords
<1>1. /\ now \in Nat /\ srv.last \in Nat /\ srvC.last \in Nat /\ srv.last <= now
      /\ rec.at \in Nat /\ rec.fire \in Nat /\ rec.last \in Nat
  BY <1>0, Dates
<1>2. RunsAreRecords'
  BY <1>0, RunsTyped DEF Next
<1>3. IdleRec \in Rec /\ IdleRec.pc = "idle"
  BY IdleForm DEF RecIs
<1>4. ASSUME rec' \in Rec, srv' \in Server, UNCHANGED <<now, srvC, runsC, agents, budget>>, srv'.last <= now
      PROVE  TypeOK'
  BY <1>0, <1>2, <1>4 DEF TypeOK, RunsAreRecords
<1>5. CASE RecUnschedulable \/ RecSchedule
  <2>1. rec.pc = "idle" /\ UNCHANGED <<now, srv, srvC, runs, runsC, agents, budget>>
    BY <1>0, <1>5, BeginForm
  <2>2. isDue(srvC.last, now) \in Nat /\ isDue(srvC.last, now) <= now
    BY <1>1, DueFire
  <2>3. CASE RecIs(rec', "patch", 0, 0, srvC.last, Mirror, {})
    <3>1. rec' \in Rec /\ rec'.pc = "patch" /\ rec'.last = srvC.last
      BY <2>3 DEF RecIs
    <3>2. Timed'
      BY <2>1, <3>1, PcNames DEF Timed
    <3> QED BY <1>0, <1>1, <1>4, <2>1, <3>1, <3>2 DEF DateInv
  <2>4. ASSUME NEW pc, NEW last,
               RecIs(rec', pc, now, isDue(srvC.last, now), last, Mirror, pruneRuns(runsC)),
               \/ pc = "patch" /\ last = srvC.last
               \/ pc = "patch" /\ last = isDue(srvC.last, now) /\ isDue(srvC.last, now) # 0
               \/ pc = "list" /\ last = srvC.last /\ (isDue(srvC.last, now) # 0 \/ srvC.trig)
        PROVE  DateInv'
    <3>1. rec' \in Rec /\ rec'.pc = pc /\ rec'.last = last /\ rec'.at = now /\ rec'.fire = isDue(srvC.last, now)
      BY <2>4 DEF RecIs
    <3>2. Timed'
      BY <1>1, <2>1, <2>2, <2>4, <3>1, PcNames DEF Timed
    <3> QED BY <1>0, <1>1, <1>4, <2>1, <3>1, <3>2 DEF DateInv
  <2> QED BY <1>0, <1>5, <2>3, <2>4, BeginForm
<1>6. CASE ListUncached
  <2>1. rec.pc = "list" /\ UNCHANGED <<now, srv, srvC, runs, runsC, agents, budget>>
    BY <1>0, <1>6, ListForm
  <2>2. PICK pc, last :
          /\ RecIs(rec', pc, rec.at, rec.fire, last, rec.mirror, rec.todo)
          /\ \/ pc = "patch" /\ last = rec.last
             \/ pc = "patch" /\ last = rec.fire /\ rec.fire # 0
             \/ pc = "create" /\ last = rec.last
    BY <1>0, <1>6, ListForm
  <2>3. rec' \in Rec /\ rec'.pc = pc /\ rec'.last = last /\ rec'.at = rec.at /\ rec'.fire = rec.fire
    BY <2>2 DEF RecIs
  <2>4. Timed'
    BY <1>0, <1>1, <2>1, <2>2, <2>3, PcNames DEF Timed
  <2> QED BY <1>0, <1>1, <1>4, <2>1, <2>3, <2>4 DEF DateInv
<1>7. CASE CreateRun
  <2>1. rec.pc = "create" /\ UNCHANGED <<now, srv, srvC, runsC, agents, budget>>
    BY <1>0, <1>7, CreateForm
  <2>2. rec' \in Rec /\ Timed'
    <3>1. CASE rec' = IdleRec
      BY <1>3, <3>1, PcNames DEF Timed
    <3>2. ASSUME NEW pc \in {"clear", "patch"}, NEW last,
                 RecIs(rec', pc, rec.at, rec.fire, last, rec.mirror, rec.todo),
                 last = IF srvC.trig THEN rec.at ELSE rec.fire
          PROVE  rec' \in Rec /\ Timed'
      <4>1. rec' \in Rec /\ rec'.pc = pc /\ rec'.last = last
        BY <3>2 DEF RecIs
      <4> QED BY <1>0, <1>1, <2>1, <3>2, <4>1, PcNames DEF Timed
    <3> QED BY <1>0, <1>7, <3>1, <3>2, CreateForm
  <2> QED BY <1>0, <1>1, <1>4, <2>1, <2>2 DEF DateInv
<1>8. CASE ClearTriggerAnnotation
  <2>1. /\ rec.pc = "clear" /\ UNCHANGED <<now, srvC, runs, runsC, agents, budget>>
        /\ RecIs(rec', "patch", rec.at, rec.fire, rec.last, rec.mirror, rec.todo)
        /\ ServerIs(srv', srv.spec, FALSE, srv.last, srv.mirror)
    BY <1>0, <1>8, ClearForm
  <2>2. rec' \in Rec /\ rec'.pc = "patch" /\ rec'.last = rec.last /\ srv' \in Server /\ srv'.last = srv.last
    BY <2>1 DEF RecIs, ServerIs
  <2>3. Timed'
    BY <1>0, <2>1, <2>2, PcNames DEF Timed
  <2> QED BY <1>1, <1>4, <2>1, <2>2, <2>3 DEF DateInv
<1>9. CASE PatchStatus
  <2>1. /\ rec.pc = "patch" /\ UNCHANGED <<now, srvC, runs, runsC, agents, budget>>
        /\ \/ rec' = IdleRec
           \/ RecIs(rec', "prune", rec.at, rec.fire, rec.last, rec.mirror, rec.todo)
    BY <1>0, <1>9, PatchForm
  <2>2. PICK last, mirror :
          /\ ServerIs(srv', srv.spec, srv.trig, last, mirror)
          /\ last = IF rec.last # srvC.last THEN rec.last ELSE srv.last
    BY <1>0, <1>9, PatchForm
  <2>3. rec' \in Rec /\ rec'.pc \in {"idle", "prune"}
    BY <1>3, <2>1 DEF RecIs
  <2>4. srv' \in Server /\ srv'.last <= now
    BY <1>0, <1>1, <2>1, <2>2, PcNames DEF ServerIs, Timed
  <2>5. Timed'
    BY <2>3, PcNames DEF Timed
  <2> QED BY <1>4, <2>1, <2>3, <2>4, <2>5 DEF DateInv
<1>10. CASE PruneRun
  <2>1. rec.pc = "prune" /\ UNCHANGED <<now, srv, srvC, runsC, agents, budget>>
    BY <1>0, <1>10, PruneForm
  <2>2. rec' \in Rec /\ rec'.pc \in {"idle", "prune"}
    BY <1>0, <1>3, <1>10, PruneForm DEF RecIs
  <2>3. Timed'
    BY <2>2, PcNames DEF Timed
  <2> QED BY <1>0, <1>1, <1>4, <2>1, <2>2, <2>3 DEF DateInv
<1> QED BY <1>5, <1>6, <1>7, <1>8, <1>9, <1>10 DEF Reconcile, Continue

\* The other steps keep the dates.
LEMMA DateOthers ==
    ASSUME DateInv, Next, ~(Reconcile \/ Continue)
    PROVE  DateInv'
<1>0. /\ TypeOK /\ Timed /\ now \in Times /\ srv \in Server /\ srvC \in Server /\ rec \in Rec
      /\ RunsAreRecords /\ runsC \in [RunIds -> RunObj] /\ agents \in BOOLEAN
      /\ budget \in [faults : 0..MaxFaults, triggers : 0..MaxTriggers]
  BY DEF DateInv, TypeOK, RunsAreRecords
<1>1. /\ now \in Nat /\ srv.last \in Nat /\ srvC.last \in Nat /\ srv.last <= now /\ now <= MaxTime
      /\ rec.at \in Nat /\ rec.fire \in Nat /\ rec.last \in Nat
  BY <1>0, Dates
<1>2. RunsAreRecords'
  BY <1>0, RunsTyped
<1>3. IdleRec \in Rec /\ IdleRec.pc = "idle"
  BY IdleForm DEF RecIs
<1>4. CASE RecAbort
  <2>1. rec' = IdleRec /\ UNCHANGED <<now, srv, srvC, runs, runsC, agents>>
    BY <1>4 DEF RecAbort
  <2>2. budget' \in [faults : 0..MaxFaults, triggers : 0..MaxTriggers]
    BY <1>0, <1>4, FaultTyped DEF RecAbort
  <2>3. TypeOK'
    BY <1>0, <1>2, <1>3, <2>1, <2>2 DEF TypeOK, RunsAreRecords
  <2>4. Timed'
    BY <1>3, <2>1, PcNames DEF Timed
  <2> QED BY <2>3, <2>4 DEF DateInv
<1>5. CASE SyncServer \/ SyncRuns
  <2>1. /\ rec.pc = "idle" /\ UNCHANGED <<now, srv, runs, agents, rec, budget>>
        /\ srvC' \in {srv, srvC} /\ runsC' \in {runs, runsC}
    BY <1>5 DEF SyncServer, SyncRuns
  <2>2. TypeOK'
    BY <1>0, <2>1 DEF TypeOK, RunsAreRecords
  <2>3. Timed'
    BY <2>1, PcNames DEF Timed
  <2> QED BY <2>2, <2>3 DEF DateInv
<1>6. CASE Tick
  <2>1. now < MaxTime /\ now' = now + 1 /\ UNCHANGED <<srv, srvC, runs, runsC, agents, rec, budget>>
    BY <1>6 DEF Tick
  <2>2. now' \in Times /\ srv.last <= now'
    BY <1>1, <2>1, TimesAre DEF Times
  <2>3. TypeOK'
    BY <1>0, <2>1, <2>2 DEF TypeOK
  <2>4. Timed'
    BY <1>0, <1>1, <2>1 DEF Timed
  <2> QED BY <2>3, <2>4 DEF DateInv
<1>7. CASE SetTrigger \/ EditSpec
  <2>1. UNCHANGED <<now, srvC, runs, runsC, agents, rec>>
    BY <1>7 DEF SetTrigger, EditSpec
  <2>2. srv' \in Server /\ srv'.last = srv.last
    <3>0. srv.spec \in Specs /\ srv.trig \in BOOLEAN /\ srv.last \in Times /\ srv.mirror \in Runs0
      BY <1>0, ServerTypes
    <3>1. \A b \in BOOLEAN : ServerIs([srv EXCEPT !.trig = b], srv.spec, b, srv.last, srv.mirror)
      BY <1>0, <3>0, ServerForms, Zenon
    <3>2. \A s \in Specs : ServerIs([srv EXCEPT !.spec = s], s, srv.trig, srv.last, srv.mirror)
      BY <1>0, <3>0, ServerForms, Zenon
    <3>3. (\E b \in BOOLEAN : srv' = [srv EXCEPT !.trig = b]) \/ \E s \in Specs : srv' = [srv EXCEPT !.spec = s]
      BY <1>7 DEF SetTrigger, EditSpec, Specs
    <3> QED BY <3>1, <3>2, <3>3 DEF ServerIs
  <2>3. budget' \in [faults : 0..MaxFaults, triggers : 0..MaxTriggers]
    <3>1. CASE Fault
      BY <1>0, <3>1, FaultTyped
    <3>2. CASE budget.triggers > 0 /\ budget' = [budget EXCEPT !.triggers = budget.triggers - 1]
      <4>1. PICK f \in 0..MaxTriggers : f = budget.triggers - 1
        BY <1>0, <3>2, ScheduleAssumption
      <4>2. budget' = [budget EXCEPT !.triggers = f]
        BY <3>2, <4>1, Zenon
      <4> QED BY <1>0, <4>2
    <3> QED BY <1>7, <3>1, <3>2 DEF SetTrigger, EditSpec
  <2>4. TypeOK'
    BY <1>0, <1>1, <2>1, <2>2, <2>3 DEF TypeOK, RunsAreRecords
  <2>5. Timed'
    BY <1>0, <2>1, <2>2 DEF Timed
  <2> QED BY <2>4, <2>5 DEF DateInv
<1>8. CASE EditAgents
  <2>1. UNCHANGED <<now, srv, srvC, runs, runsC, rec>> /\ agents' = ~agents
    BY <1>8 DEF EditAgents
  <2>2. agents' \in BOOLEAN
    BY <1>0, <2>1, Zenon
  <2>3. budget' \in [faults : 0..MaxFaults, triggers : 0..MaxTriggers]
    BY <1>0, <1>8, FaultTyped DEF EditAgents
  <2>4. TypeOK'
    BY <1>0, <2>1, <2>2, <2>3 DEF TypeOK
  <2>5. Timed'
    BY <1>0, <2>1 DEF Timed
  <2> QED BY <2>4, <2>5 DEF DateInv
<1>9. ASSUME NEW i \in RunIds, FinishRun(i) \/ ReopenRun(i) \/ DeleteRun(i) \/ RunGone(i)
      PROVE  DateInv'
  <2>1. UNCHANGED <<now, srv, srvC, runsC, agents, rec>>
    BY <1>9 DEF FinishRun, ReopenRun, DeleteRun, RunGone, world
  <2>2. budget' \in [faults : 0..MaxFaults, triggers : 0..MaxTriggers]
    <3>1. CASE FinishRun(i) \/ RunGone(i)
      BY <1>0, <3>1 DEF FinishRun, RunGone
    <3>2. CASE ReopenRun(i) \/ DeleteRun(i)
      BY <1>0, <3>2, FaultTyped DEF ReopenRun, DeleteRun
    <3> QED BY <1>9, <3>1, <3>2
  <2>3. TypeOK'
    BY <1>0, <1>2, <2>1, <2>2 DEF TypeOK, RunsAreRecords
  <2>4. Timed'
    BY <1>0, <2>1 DEF Timed
  <2> QED BY <2>3, <2>4 DEF DateInv
<1> QED BY <1>4, <1>5, <1>6, <1>7, <1>8, <1>9 DEF Next

\* Every step preserves DateInv.
LEMMA DateNext == DateInv /\ [Next]_vars => DateInv'
<1>1. CASE UNCHANGED vars
  BY <1>1 DEF DateInv, TypeOK, Timed, vars
<1> QED BY <1>1, DateReconcile, DateOthers

\* The status never claims an evaluation in the future, and everything is typed.
THEOREM TypeCorrect == Spec => []TypeOK
<1>1. DateInv => TypeOK
  BY DEF DateInv
<1> QED BY <1>1, DateInit, DateNext, PTL DEF Spec

-----------------------------------------------------------------------------
(***************************************************************************)
(* The fires: what a reconcile writes is never before what is stored.  A   *)
(* walk that is cut short ends MaxWalk fires (1000 in the code) after the  *)
(* date in the reconcile's copy of the server, so that copy must not be    *)
(* that far behind; how old either date is does not matter.                *)
(***************************************************************************)
CopyRecent == srv.last \div Period <= srvC.last \div Period + MaxWalk

\* Reconciles that look at the schedule work from such a copy.
FromRecentCopy == RecSchedule => CopyRecent

Kept ==
    /\ rec.pc \in Before => (rec.fire # 0 => rec.fire \div Period >= srv.last \div Period)
    /\ rec.pc \in Writing => rec.last = srvC.last \/ rec.last \div Period >= srv.last \div Period

\* Later dates are in later periods, or in the same.
LEMMA Later == \A x, y \in Nat : x \div Period \in Nat /\ (x <= y => x \div Period <= y \div Period)
  BY Fires

\* A fire that is due is not in a period before that of the stored date.
LEMMA DueKept ==
    ASSUME TypeOK, CopyRecent, isDue(srvC.last, now) # 0
    PROVE  isDue(srvC.last, now) \div Period >= srv.last \div Period
<1>1. now \in Nat /\ srv.last \in Nat /\ srvC.last \in Nat /\ srv.last <= now /\ MaxWalk \in Nat
  BY Dates, ScheduleAssumption
<1>2. /\ isDue(srvC.last, now) \in Nat
      /\ \/ isDue(srvC.last, now) \div Period >= now \div Period
         \/ isDue(srvC.last, now) \div Period >= srvC.last \div Period + MaxWalk
  BY <1>1, DueFire
<1>3. PICK a \in Nat, b \in Nat, c \in Nat, d \in Nat :
         /\ a = isDue(srvC.last, now) \div Period /\ b = now \div Period
         /\ c = srv.last \div Period /\ d = srvC.last \div Period
  BY <1>1, <1>2, Later
<1>4. c <= b
  BY <1>1, <1>3, Later
<1>5. (a >= b \/ a >= d + MaxWalk) /\ c <= d + MaxWalk
  BY <1>2, <1>3 DEF CopyRecent
<1> QED BY <1>1, <1>3, <1>4, <1>5

\* Every step keeps this, and no step takes a fire back.
LEMMA KeptNext ==
    ASSUME DateInv, FromRecentCopy, Kept, Next
    PROVE  Kept' /\ srv'.last \div Period >= srv.last \div Period
<1>0. TypeOK /\ Timed /\ now \in Times /\ srv \in Server /\ srvC \in Server /\ rec \in Rec
  BY DEF DateInv, TypeOK
<1>1. /\ now \in Nat /\ srv.last \in Nat /\ srvC.last \in Nat /\ srv.last <= now
      /\ rec.at \in Nat /\ rec.fire \in Nat /\ rec.last \in Nat
  BY <1>0, Dates
<1>2. PICK s \in Nat : s = srv.last \div Period
  BY <1>1, Later
<1>3. IdleRec.pc = "idle"
  BY IdleForm DEF RecIs
<1>4. CASE RecUnschedulable \/ RecSchedule
  <2>1. rec.pc = "idle" /\ UNCHANGED <<now, srv, srvC, runs, runsC, agents, budget>>
    BY <1>0, <1>4, BeginForm
  <2>2. Kept'
    <3>1. CASE RecIs(rec', "patch", 0, 0, srvC.last, Mirror, {})
      <4>1. rec'.pc = "patch" /\ rec'.last = srvC.last
        BY <3>1 DEF RecIs
      <4> QED BY <2>1, <4>1, PcNames DEF Kept
    <3>2. ASSUME NEW pc, NEW last, CopyRecent,
                 RecIs(rec', pc, now, isDue(srvC.last, now), last, Mirror, pruneRuns(runsC)),
                 \/ pc = "patch" /\ last = srvC.last
                 \/ pc = "patch" /\ last = isDue(srvC.last, now) /\ isDue(srvC.last, now) # 0
                 \/ pc = "list" /\ last = srvC.last /\ (isDue(srvC.last, now) # 0 \/ srvC.trig)
          PROVE  Kept'
      <4>1. rec'.pc = pc /\ rec'.last = last /\ rec'.at = now /\ rec'.fire = isDue(srvC.last, now)
        BY <3>2 DEF RecIs
      <4> QED BY <1>0, <2>1, <3>2, <4>1, DueKept, PcNames DEF Kept
    <3>3. ~CopyRecent => RecUnschedulable
      BY <1>4 DEF FromRecentCopy
    <3> QED BY <1>0, <1>4, <3>1, <3>2, <3>3, BeginForm
  <2> QED BY <1>2, <2>1, <2>2
<1>5. CASE ListUncached
  <2>1. rec.pc = "list" /\ UNCHANGED <<now, srv, srvC, runs, runsC, agents, budget>>
    BY <1>0, <1>5, ListForm
  <2>2. PICK pc, last :
          /\ RecIs(rec', pc, rec.at, rec.fire, last, rec.mirror, rec.todo)
          /\ \/ pc = "patch" /\ last = rec.last
             \/ pc = "patch" /\ last = rec.fire /\ rec.fire # 0
             \/ pc = "create" /\ last = rec.last
    BY <1>0, <1>5, ListForm
  <2>3. rec'.pc = pc /\ rec'.last = last /\ rec'.at = rec.at /\ rec'.fire = rec.fire
    BY <2>2 DEF RecIs
  <2>4. srv.last <= rec.at /\ rec.last = srvC.last
    BY <1>0, <2>1, PcNames DEF Timed
  <2>5. rec.fire # 0 => rec.fire \div Period >= srv.last \div Period
    BY <2>1, PcNames DEF Kept
  <2>6. Kept'
    BY <2>1, <2>2, <2>3, <2>4, <2>5, PcNames DEF Kept
  <2> QED BY <1>2, <2>1, <2>6
<1>6. CASE CreateRun
  <2>1. rec.pc = "create" /\ UNCHANGED <<now, srv, srvC, runsC, agents, budget>>
    BY <1>0, <1>6, CreateForm
  <2>2. srv.last <= rec.at /\ rec.last = srvC.last /\ (rec.fire # 0 \/ srvC.trig)
    BY <1>0, <2>1, PcNames DEF Timed
  <2>3. PICK a \in Nat, f \in Nat : a = rec.at \div Period /\ f = rec.fire \div Period
    BY <1>1, Later
  <2>4. s <= a /\ (rec.fire # 0 => f >= s)
    BY <1>1, <1>2, <2>1, <2>2, <2>3, Later, PcNames DEF Kept
  <2>5. Kept'
    <3>1. CASE rec' = IdleRec
      BY <1>3, <3>1, PcNames DEF Kept
    <3>2. ASSUME NEW pc \in {"clear", "patch"}, NEW last,
                 RecIs(rec', pc, rec.at, rec.fire, last, rec.mirror, rec.todo),
                 last = IF srvC.trig THEN rec.at ELSE rec.fire
          PROVE  Kept'
      <4>1. rec'.pc = pc /\ rec'.last = last
        BY <3>2 DEF RecIs
      <4>2. last \div Period >= s
        BY <2>2, <2>3, <2>4, <3>2
      <4> QED BY <1>2, <2>1, <3>2, <4>1, <4>2, PcNames DEF Kept
    <3> QED BY <1>0, <1>6, <3>1, <3>2, CreateForm
  <2> QED BY <1>2, <2>1, <2>5
<1>7. CASE ClearTriggerAnnotation
  <2>1. /\ rec.pc = "clear" /\ UNCHANGED <<now, srvC, runs, runsC, agents, budget>>
        /\ RecIs(rec', "patch", rec.at, rec.fire, rec.last, rec.mirror, rec.todo)
        /\ ServerIs(srv', srv.spec, FALSE, srv.last, srv.mirror)
    BY <1>0, <1>7, ClearForm
  <2>2. rec'.pc = "patch" /\ rec'.last = rec.last /\ srv'.last = srv.last
    BY <2>1 DEF RecIs, ServerIs
  <2>3. Kept'
    BY <2>1, <2>2, PcNames DEF Kept
  <2> QED BY <1>2, <2>2, <2>3
<1>8. CASE PatchStatus
  <2>1. /\ rec.pc = "patch" /\ UNCHANGED <<now, srvC, runs, runsC, agents, budget>>
        /\ \/ rec' = IdleRec
           \/ RecIs(rec', "prune", rec.at, rec.fire, rec.last, rec.mirror, rec.todo)
    BY <1>0, <1>8, PatchForm
  <2>2. PICK last, mirror :
          /\ ServerIs(srv', srv.spec, srv.trig, last, mirror)
          /\ last = IF rec.last # srvC.last THEN rec.last ELSE srv.last
    BY <1>0, <1>8, PatchForm
  <2>3. rec'.pc \in {"idle", "prune"}
    BY <1>3, <2>1 DEF RecIs
  <2>4. srv'.last \div Period >= s
    BY <1>2, <2>1, <2>2, PcNames DEF ServerIs, Kept
  <2>5. Kept'
    BY <2>3, PcNames DEF Kept
  <2> QED BY <1>2, <2>4, <2>5
<1>9. CASE PruneRun \/ RecAbort
  <2>1. UNCHANGED srv
    BY <1>9 DEF PruneRun, RecAbort
  <2>2. rec'.pc \in {"idle", "prune"}
    BY <1>0, <1>3, <1>9, PruneForm DEF RecIs, RecAbort
  <2>3. Kept'
    BY <2>2, PcNames DEF Kept
  <2> QED BY <1>2, <2>1, <2>3
<1>10. CASE SyncServer \/ SyncRuns
  <2>1. rec.pc = "idle" /\ UNCHANGED <<srv, rec>>
    BY <1>10 DEF SyncServer, SyncRuns
  <2>2. Kept'
    BY <2>1, PcNames DEF Kept
  <2> QED BY <1>2, <2>1, <2>2
<1>11. CASE SetTrigger \/ EditSpec
  <2>1. UNCHANGED <<srvC, rec>>
    BY <1>11 DEF SetTrigger, EditSpec
  <2>2. srv'.last = srv.last
    BY <1>0, <1>11 DEF SetTrigger, EditSpec, Server
  <2>3. Kept'
    BY <2>1, <2>2 DEF Kept
  <2> QED BY <1>2, <2>2, <2>3
<1>12. CASE Tick \/ EditAgents
  <2>1. UNCHANGED <<srv, srvC, rec>>
    BY <1>12 DEF Tick, EditAgents
  <2>2. Kept'
    BY <2>1 DEF Kept
  <2> QED BY <1>2, <2>1, <2>2
<1>13. ASSUME NEW i \in RunIds, FinishRun(i) \/ ReopenRun(i) \/ DeleteRun(i) \/ RunGone(i)
       PROVE  Kept' /\ srv'.last \div Period >= srv.last \div Period
  <2>1. UNCHANGED <<srv, srvC, rec>>
    BY <1>13 DEF FinishRun, ReopenRun, DeleteRun, RunGone, world
  <2>2. Kept'
    BY <2>1 DEF Kept
  <2> QED BY <1>2, <2>1, <2>2
<1> QED BY <1>4, <1>5, <1>6, <1>7, <1>8, <1>9, <1>10, <1>11, <1>12, <1>13 DEF Next, Reconcile, Continue

\* However stale the copy of the server a reconcile works from, the fires the status
\* counts as evaluated are never given back, as long as that copy is fewer fires behind
\* the stored status than isDue walks over.
THEOREM FiresKept == Spec /\ [][FromRecentCopy]_vars => FiresNeverForgotten
<1>1. Init => DateInv /\ Kept
  <2>1. Init => Kept
    <3>1. Init => rec.pc = "idle"
      BY IdleForm DEF Init, RecIs
    <3> QED BY <3>1, PcNames DEF Kept
  <2> QED BY <2>1, DateInit
<1>2. DateInv /\ Kept /\ [Next]_vars /\ [FromRecentCopy]_vars => (DateInv /\ Kept)'
  <2>1. ASSUME DateInv, Kept, UNCHANGED vars PROVE Kept'
    BY <2>1 DEF Kept, vars
  <2> QED BY <2>1, DateNext, KeptNext
<1>3. DateInv /\ Kept /\ [Next]_vars /\ [FromRecentCopy]_vars => [srv'.last \div Period >= srv.last \div Period]_srv
  <2>1. UNCHANGED vars => UNCHANGED srv
    BY DEF vars
  <2> QED BY <2>1, KeptNext
<1> QED BY <1>1, <1>2, <1>3, PTL DEF Spec, FiresNeverForgotten

-----------------------------------------------------------------------------
(***************************************************************************)
(* The verdicts: none is pruned that the status does not show.             *)
(***************************************************************************)
Settled == Verdict \union {"gone"}
Active == Before \union Writing

\* The list shows no verdict that the runs do not have, or had before they went.
Aged == \A i \in RunIds : /\ runsC[i].st \in Verdict => runs[i].st \in Settled
                          /\ runsC[i].st = "gone" => runs[i].st = "gone"

\* What is shown, or about to be, has or had a verdict in the list.
Shown == \A i \in RunIds : srv.mirror = i \/ srvC.mirror = i \/ (rec.pc \in Active /\ rec.mirror = i)
                           => runsC[i].st \in Settled

\* The stored status is not behind the cached one in what the list still has.
NotBehind == \A i \in RunIds : runsC[i].st \in Verdict /\ srvC.mirror = i => srv.mirror >= i

\* A reconcile shows the newest verdict of its list.
Newest == rec.pc \in Active =>
              \A i \in RunIds : runsC[i].st \in Verdict => rec.mirror \in Verdicts /\ rec.mirror >= i

\* When it prunes, the status shows that verdict or a newer one.
Mirrored == rec.pc = "prune" => \A i \in RunIds : runsC[i].st \in Verdict => srv.mirror >= i

ShownInv == Aged /\ Shown /\ NotBehind /\ Newest /\ Mirrored

\* A verdict is final, and a run that is gone stays away.
LEMMA RunsSettle ==
    ASSUME RunsAreRecords, Next, NEW k \in RunIds
    PROVE  /\ runs[k].st \in Settled => runs'[k].st \in Settled
           /\ runs[k].st = "gone" => runs'[k].st = "gone"
<1> USE DEF RunsAreRecords
<1>1. CASE RecSchedule \/ RecUnschedulable
  BY <1>1 DEF RecSchedule, RecUnschedulable
<1>2. CASE ListUncached \/ ClearTriggerAnnotation \/ PatchStatus \/ RecAbort
  BY <1>2 DEF ListUncached, ClearTriggerAnnotation, PatchStatus, RecAbort
<1>3. CASE CreateRun
  <2>1. CASE UNCHANGED runs
    BY <2>1
  <2>2. CASE Unused # {}
    <3>1. Min(Unused) \in Unused
      <4>1. Unused \subseteq Nat
        BY DEF Unused, RunIds
      <4>2. \E x \in Unused : \A y \in Unused : x <= y
        BY <2>2, <4>1, LeastOf
      <4> QED BY <4>2, Zenon DEF Min
    <3>2. PICK x \in RunIds : x = Min(Unused) /\ runs[x].st = "none"
      BY <3>1 DEF Unused
    <3>3. runs[k].st \in Settled \/ runs[k].st = "gone" => k # x
      BY <3>2 DEF Settled, Verdict
    <3>4. \A r : k # x => [runs EXCEPT ![x] = r][k] = runs[k]
      OBVIOUS
    <3>5. UNCHANGED runs \/ \E r : runs' = [runs EXCEPT ![x] = r]
      BY <1>3, <3>2, Zenon DEF CreateRun
    <3> QED BY <3>3, <3>4, <3>5
  <2> QED BY <1>3, <2>1, <2>2 DEF CreateRun
<1>4. CASE PruneRun
  BY <1>4 DEF PruneRun, RunObj
<1>5. CASE SyncServer \/ SyncRuns \/ Tick \/ SetTrigger \/ EditSpec \/ EditAgents
  BY <1>5 DEF SyncServer, SyncRuns, Tick, SetTrigger, EditSpec, EditAgents
<1>6. ASSUME NEW i \in RunIds, FinishRun(i) \/ ReopenRun(i) \/ DeleteRun(i) \/ RunGone(i)
      PROVE  /\ runs[k].st \in Settled => runs'[k].st \in Settled
             /\ runs[k].st = "gone" => runs'[k].st = "gone"
  <2>1. CASE FinishRun(i) \/ ReopenRun(i)
    BY <2>1 DEF FinishRun, ReopenRun, InFlight, RunObj, Settled, Verdict
  <2>2. CASE DeleteRun(i)
    BY <2>2 DEF DeleteRun, RunObj
  <2>3. CASE RunGone(i)
    BY <2>3 DEF RunGone, NoRun, Settled
  <2> QED BY <1>6, <2>1, <2>2, <2>3
<1> QED BY <1>1, <1>2, <1>3, <1>4, <1>5, <1>6 DEF Next, Reconcile, Continue

\* The list keeps pace with the runs.
LEMMA AgedNext ==
    ASSUME RunsAreRecords, Aged, Next, runsC' \in {runs, runsC}, runsC' = runsC \/ UNCHANGED runs
    PROVE  Aged'
<1>1. \A k \in RunIds : /\ runs[k].st \in Settled => runs'[k].st \in Settled
                        /\ runs[k].st = "gone" => runs'[k].st = "gone"
  BY RunsSettle
<1> QED BY <1>1 DEF Aged, Settled

\* Nothing that is shown changes.
LEMMA ShownSame ==
    ASSUME ShownInv, Aged', UNCHANGED <<srvC, runsC, rec>>, srv'.mirror = srv.mirror
    PROVE  ShownInv'
  BY DEF ShownInv, Shown, NotBehind, Newest, Mirrored, Verdicts

\* The steps of a reconcile.
LEMMA ShownReconcile ==
    ASSUME TypeOK, ShownInv, Reconcile \/ Continue \/ RecAbort, Aged'
    PROVE  ShownInv'
<1>0. now \in Times /\ srv \in Server /\ srvC \in Server /\ rec \in Rec /\ Shown /\ NotBehind /\ Newest /\ Mirrored
  BY DEF TypeOK, ShownInv
<1>1. IdleRec.pc = "idle" /\ "idle" \notin Active /\ "prune" \notin Active /\ "patch" \in Active
      /\ "list" \in Active /\ "create" \in Active /\ "clear" \in Active
  BY IdleForm DEF RecIs, Active, Before, Writing
<1>2. ASSUME UNCHANGED <<srvC, runsC>>, srv'.mirror = srv.mirror, rec'.pc = "idle"
      PROVE  ShownInv'
  BY <1>0, <1>1, <1>2 DEF ShownInv, Shown, NotBehind, Newest, Mirrored, Verdicts
<1>3. ASSUME UNCHANGED <<srvC, runsC>>, srv'.mirror = srv.mirror, rec.pc \in Active, rec'.pc \in Active,
             rec'.mirror = rec.mirror
      PROVE  ShownInv'
  BY <1>0, <1>1, <1>3 DEF ShownInv, Shown, NotBehind, Newest, Mirrored, Verdicts
<1>4. CASE RecUnschedulable \/ RecSchedule
  <2>1. rec.pc = "idle" /\ UNCHANGED <<now, srv, srvC, runs, runsC, agents, budget>>
    BY <1>0, <1>4, BeginForm
  <2>2. rec'.mirror = Mirror /\ rec'.pc \in Active
    BY <1>0, <1>1, <1>4, BeginForm DEF RecIs
  <2>3. \A i \in RunIds : Mirror = i => runsC[i].st \in Settled
    BY <1>0, MirrorIs DEF Shown, Verdicts, Settled
  <2>4. \A i \in RunIds : runsC[i].st \in Verdict => Mirror \in Verdicts /\ Mirror >= i
    BY MirrorIs DEF Verdicts
  <2>5. Shown' /\ NotBehind'
    BY <1>0, <2>1, <2>2, <2>3 DEF Shown, NotBehind
  <2>6. Newest' /\ Mirrored'
    BY <1>1, <2>1, <2>2, <2>4 DEF Newest, Mirrored, Verdicts
  <2> QED BY <2>5, <2>6 DEF ShownInv
<1>5. CASE ListUncached
  <2>1. UNCHANGED <<srv, srvC, runsC>> /\ rec.pc \in Active
    BY <1>0, <1>1, <1>5, ListForm
  <2>2. rec'.mirror = rec.mirror /\ rec'.pc \in Active
    BY <1>0, <1>1, <1>5, ListForm DEF RecIs
  <2> QED BY <1>3, <2>1, <2>2
<1>6. CASE CreateRun
  <2>1. UNCHANGED <<srv, srvC, runsC>> /\ rec.pc \in Active
    BY <1>0, <1>1, <1>6, CreateForm
  <2>2. rec' = IdleRec \/ (rec'.mirror = rec.mirror /\ rec'.pc \in Active)
    BY <1>0, <1>1, <1>6, CreateForm DEF RecIs
  <2> QED BY <1>1, <1>2, <1>3, <2>1, <2>2
<1>7. CASE ClearTriggerAnnotation
  <2>1. UNCHANGED <<srvC, runsC>> /\ rec.pc \in Active /\ srv'.mirror = srv.mirror
    BY <1>0, <1>1, <1>7, ClearForm DEF ServerIs
  <2>2. rec'.mirror = rec.mirror /\ rec'.pc \in Active
    BY <1>0, <1>1, <1>7, ClearForm DEF RecIs
  <2> QED BY <1>3, <2>1, <2>2
<1>8. CASE PatchStatus
  <2>1. /\ rec.pc = "patch" /\ UNCHANGED <<now, srvC, runs, runsC, agents, budget>>
        /\ \/ rec' = IdleRec
           \/ RecIs(rec', "prune", rec.at, rec.fire, rec.last, rec.mirror, rec.todo)
    BY <1>0, <1>8, PatchForm
  <2>2. rec'.pc \in {"idle", "prune"}
    BY <1>1, <2>1 DEF RecIs
  <2>3. srv'.mirror = IF rec.mirror # srvC.mirror THEN rec.mirror ELSE srv.mirror
    BY <1>0, <1>8, PatchForm DEF ServerIs
  <2>4. rec.mirror \in Nat /\ srv.mirror \in Nat /\ srvC.mirror \in Nat /\ RunIds \subseteq Nat
    <3>1. rec.mirror \in Runs0 /\ srv.mirror \in Runs0 /\ srvC.mirror \in Runs0
      BY <1>0, RecTypes, ServerTypes
    <3> QED BY <3>1 DEF Runs0, RunIds
  <2>5. ASSUME NEW i \in RunIds, runsC[i].st \in Verdict PROVE srv'.mirror >= i
    <3>1. rec.mirror \in Verdicts /\ rec.mirror >= i
      BY <1>0, <1>1, <2>1, <2>5 DEF Newest
    <3>2. CASE rec.mirror # srvC.mirror
      BY <2>3, <3>1, <3>2
    <3>3. CASE rec.mirror = srvC.mirror
      <4>1. srv.mirror >= rec.mirror
        BY <1>0, <3>1, <3>3 DEF NotBehind, Verdicts
      <4> QED BY <2>3, <2>4, <3>1, <3>3, <4>1
    <3> QED BY <3>2, <3>3
  <2>6. Shown'
    BY <1>0, <1>1, <2>1, <2>2, <2>3 DEF Shown
  <2>7. NotBehind' /\ Newest' /\ Mirrored'
    BY <1>1, <2>1, <2>2, <2>5 DEF NotBehind, Newest, Mirrored
  <2> QED BY <2>6, <2>7 DEF ShownInv
<1>9. CASE PruneRun
  <2>1. rec.pc = "prune" /\ UNCHANGED <<now, srv, srvC, runsC, agents, budget>>
    BY <1>0, <1>9, PruneForm
  <2>2. rec'.pc \in {"idle", "prune"}
    BY <1>0, <1>1, <1>9, PruneForm DEF RecIs
  <2> QED BY <1>0, <1>1, <2>1, <2>2 DEF ShownInv, Shown, NotBehind, Newest, Mirrored, Verdicts
<1>10. CASE RecAbort
  <2>1. UNCHANGED <<srv, srvC, runsC>> /\ rec' = IdleRec
    BY <1>10 DEF RecAbort
  <2> QED BY <1>1, <1>2, <2>1
<1> QED BY <1>4, <1>5, <1>6, <1>7, <1>8, <1>9, <1>10 DEF Reconcile, Continue

\* Every step keeps ShownInv.
LEMMA ShownNext == ASSUME TypeOK, ShownInv, Next PROVE ShownInv'
<1>0. RunsAreRecords /\ Aged /\ Shown /\ NotBehind /\ Newest /\ Mirrored /\ srv \in Server
  BY DEF TypeOK, RunsAreRecords, ShownInv
<1>1. CASE SyncRuns
  <2>1. rec.pc = "idle" /\ runsC' = runs /\ UNCHANGED <<srv, srvC, runs, rec>>
    BY <1>1 DEF SyncRuns
  <2>2. Aged'
    BY <1>0, <2>1, AgedNext
  <2>3. "idle" \notin Active
    BY DEF Active, Before, Writing
  <2>4. Shown'
    BY <1>0, <2>1, <2>3 DEF Shown, Aged, Settled
  <2>5. NotBehind'
    <3> SUFFICES ASSUME NEW i \in RunIds, runs[i].st \in Verdict, srvC.mirror = i PROVE srv.mirror >= i
      BY <2>1 DEF NotBehind
    <3>1. runsC[i].st \in Verdict
      BY <1>0 DEF Shown, Aged, Settled, Verdict
    <3> QED BY <1>0, <3>1 DEF NotBehind
  <2> QED BY <2>1, <2>2, <2>3, <2>4, <2>5 DEF ShownInv, Newest, Mirrored
<1>2. CASE ~SyncRuns
  <2>1. UNCHANGED runsC
    BY <1>2 DEF Next, Reconcile, Continue, RecUnschedulable, RecSchedule, ListUncached, CreateRun, ClearTriggerAnnotation,
                PatchStatus, PruneRun, RecAbort, SyncServer, Tick, SetTrigger, EditSpec, EditAgents,
                FinishRun, ReopenRun, DeleteRun, RunGone, world
  <2>2. Aged'
    BY <1>0, <2>1, AgedNext
  <2>3. CASE Reconcile \/ Continue \/ RecAbort
    BY <2>2, <2>3, ShownReconcile
  <2>4. CASE SyncServer
    <3>1. rec.pc = "idle" /\ srvC' = srv /\ UNCHANGED <<srv, runs, rec>>
      BY <2>4 DEF SyncServer
    <3>2. "idle" \notin Active /\ RunIds \subseteq Int
      BY DEF Active, Before, Writing, RunIds
    <3>3. Shown'
      BY <1>0, <2>1, <3>1, <3>2 DEF Shown
    <3>4. NotBehind'
      BY <3>1, <3>2 DEF NotBehind
    <3> QED BY <2>2, <3>1, <3>2, <3>3, <3>4 DEF ShownInv, Newest, Mirrored
  <2>5. CASE SetTrigger \/ EditSpec
    <3>1. UNCHANGED <<srvC, rec>>
      BY <2>5 DEF SetTrigger, EditSpec
    <3>2. srv'.mirror = srv.mirror
      BY <1>0, <2>5 DEF SetTrigger, EditSpec, Server
    <3> QED BY <2>1, <2>2, <3>1, <3>2, ShownSame
  <2>6. CASE Tick \/ EditAgents \/ \E i \in RunIds : FinishRun(i) \/ ReopenRun(i) \/ DeleteRun(i) \/ RunGone(i)
    <3>1. UNCHANGED <<srv, srvC, rec>>
      BY <2>6 DEF Tick, EditAgents, FinishRun, ReopenRun, DeleteRun, RunGone, world
    <3> QED BY <2>1, <2>2, <3>1, ShownSame
  <2> QED BY <1>2, <2>3, <2>4, <2>5, <2>6 DEF Next
<1> QED BY <1>1, <1>2

\* A run the list shows with a verdict is pruned only once the server's status shows
\* that verdict or a newer one: whatever copies of the server and of the list a
\* reconcile works from, and whatever was deleted meanwhile (syncLatestRunResult,
\* patchStatus, pruneRuns).
THEOREM VerdictsOutlive == Spec => VerdictOutlivesRun
<1>1. Init => ShownInv
  <2> SUFFICES ASSUME Init PROVE ShownInv
    OBVIOUS
  <2>1. rec.pc = "idle" /\ "idle" \notin Active /\ 0 \notin RunIds
    BY IdleForm DEF Init, RecIs, Active, Before, Writing, RunIds
  <2>2. srv.mirror = 0 /\ srvC = srv /\ runsC = runs
    BY DEF Init, FreshServer
  <2>3. \A i \in RunIds : runs[i].st = "none"
    BY DEF Init, NoRun
  <2> QED BY <2>1, <2>2, <2>3 DEF ShownInv, Aged, Shown, NotBehind, Newest, Mirrored, Verdict, Verdicts, Settled
<1>2. DateInv /\ ShownInv /\ [Next]_vars => (DateInv /\ ShownInv)'
  <2>1. ASSUME ShownInv, UNCHANGED vars PROVE ShownInv'
    BY <2>1 DEF ShownInv, Aged, Shown, NotBehind, Newest, Mirrored, Verdicts, vars
  <2> QED BY <2>1, DateNext, ShownNext DEF DateInv
<1>3. ShownInv => [\A i \in RunIds : /\ rec.pc = "prune" /\ ~runs[i].del /\ runs'[i].del
                                     /\ runsC[i].st \in {"completed", "mal"}
                     => srv.mirror >= i]_vars
  BY DEF ShownInv, Mirrored, Verdict
<1> QED BY <1>1, <1>2, <1>3, DateInit, PTL DEF Spec, VerdictOutlivesRun
=============================================================================
