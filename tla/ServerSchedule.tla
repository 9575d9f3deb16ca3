---------------------------- MODULE ServerSchedule ----------------------------
(***************************************************************************)
(* The MCPServer controller (internal/controller/mcpserver_controller.go): *)
(* one MCPServer, its cron schedule and trigger annotation, and the        *)
(* MCPEvaluationRuns it creates, mirrors into its status and prunes.       *)
(*                                                                         *)
(* What is kept.  A reconcile works from cached copies of the server       *)
(* (srvC) and of the list of runs (runsC), held to its end, asks the API   *)
(* server itself for the runs once, before it creates one, and writes with *)
(* merge patches against the cached copy.  Every write, and that list, is  *)
(* a step of its own; a fault may end the reconcile before any of them.    *)
(* The copies are taken at the start, so caches that catch up during a     *)
(* reconcile and caches that do so after it cannot be told apart: they     *)
(* catch up between reconciles.                                            *)
(*                                                                         *)
(* What is abstracted.  Time is a number of ticks; the schedule fires      *)
(* every Period ticks; runs are numbered in the order of their creation    *)
(* (creationTimestamp).  Of a run, its phase and verdict are kept; how it  *)
(* gets there is module EvalRun.  The mirrored score and risk are          *)
(* represented by the run they come from.  Conditions, nextScheduledTime,  *)
(* lastRunRef and events drive nothing and are left out, so that a         *)
(* reconcile with missing agents, which writes only those, is no step.     *)
(***************************************************************************)
EXTENDS Naturals, FiniteSets, FiniteSetsExt

CONSTANTS
    Period,      \* ticks between two fires of the cron schedule
    MaxWalk,     \* fires isDue walks over at most (1000 in the code)
    Limit,       \* spec.runHistoryLimit
    MaxTime,     \* bound: ticks in a behaviour
    MaxRuns,     \* bound: runs created in a behaviour
    MaxFaults,   \* bound: faults, edits of the spec and further triggers in a behaviour
    MaxTriggers, \* bound: trigger-now annotations in a behaviour besides those
    Outcomes     \* bound: the ways in which runs end in a behaviour

ASSUME ScheduleAssumption == /\ Period \in Nat \ {0} /\ MaxWalk \in Nat \ {0}
                             /\ Limit \in Nat /\ MaxTime \in Nat
                             /\ MaxRuns \in Nat \ {0}
                             /\ MaxFaults \in Nat /\ MaxTriggers \in Nat
                             /\ Outcomes \subseteq {"completed", "failed", "mal"}

VARIABLES
    now,         \* the wall clock
    srv, srvC,   \* the MCPServer and the cached copy
    runs, runsC, \* its runs and the cached list
    agents,      \* every OpenCodeAgent of the suite exists
    rec,         \* the reconcile in progress
    budget       \* faults and triggers left

vars == <<now, srv, srvC, runs, runsC, agents, rec, budget>>

-----------------------------------------------------------------------------
RunIds == 1..MaxRuns
Times  == 0..MaxTime

\* "reopened": Failed, then not terminal again: an evaluator that outlived the
\* controller's fail() patched its phase (see EvalRun).  "mal": Failed with the
\* risk category Malicious.
RunStates == {"none", "active", "reopened", "completed", "failed", "mal", "gone"}

\* cron: created for a fire of the schedule, not for a trigger; del: being deleted.
RunObj == [st : RunStates, cron : BOOLEAN, del : BOOLEAN]

NoRun == [st |-> "none", cron |-> FALSE, del |-> FALSE]

Exists(r)   == r.st \notin {"none", "gone"}
InFlight(r) == r.st \in {"active", "reopened"}
Terminal(r) == r.st \in {"completed", "failed", "mal"}

\* spec: schedulable, spec.active = false, or a cron expression that does not parse;
\* last: status.lastEvaluationDate, 0 being the creation of the server;
\* mirror: the run whose score and risk the status shows, 0 if none.
Server == [spec : {"ok", "paused", "badcron"}, trig : BOOLEAN, last : Times,
           mirror : {0} \union RunIds]

FreshServer == [spec |-> "ok", trig |-> FALSE, last |-> 0, mirror |-> 0]

RecStates == {"idle", "list", "create", "clear", "patch", "prune"}

\* at: time.Now() of this reconcile; fire: the fire that is due, 0 if none; last,
\* mirror: what the status should become; todo: runs still to be pruned.
Rec == [pc : RecStates, at : Times, fire : Times, last : Times,
        mirror : {0} \union RunIds, todo : SUBSET RunIds]

IdleRec == [pc |-> "idle", at |-> 0, fire |-> 0, last |-> 0, mirror |-> 0, todo |-> {}]

-----------------------------------------------------------------------------
(***************************************************************************)
(* What a reconcile computes                                               *)
(***************************************************************************)

\* schedule.Next: the first fire strictly after t.
NextFire(t) == Period * (t \div Period + 1)

\* Mutant: the walk stops at the first fire that elapsed.
isDueFirst(last, t) == IF NextFire(last) > t THEN 0 ELSE NextFire(last)

\* Mutant: a fire is due only at its own time, so a missed one is never caught up.
isDueExact(last, t) == IF t > last /\ t % Period = 0 THEN t ELSE 0

\* The most recent fire elapsed since the last evaluation, walking forward over at
\* most MaxWalk of them; 0 if none did.
isDue(last, t) ==
    LET walk[i \in 0..MaxWalk] ==
            IF i = 0 THEN last
            ELSE LET fire == NextFire(walk[i - 1])
                 IN  IF fire > t THEN walk[i - 1] ELSE fire
    IN  IF walk[MaxWalk] > last THEN walk[MaxWalk] ELSE 0

findActiveRun(list) == {i \in RunIds : InFlight(list[i]) /\ ~list[i].del}

\* Mutant: only Completed runs count as verdicts.
syncCompletedOnly(list, old) ==
    LET verdicts == {i \in RunIds : list[i].st = "completed"}
    IN  IF verdicts = {} THEN old ELSE Max(verdicts)

\* The newest run with a verdict; without any, what the status shows stands.
syncLatestRunResult(list, old) ==
    LET verdicts == {i \in RunIds : list[i].st \in {"completed", "mal"}}
    IN  IF verdicts = {} THEN old ELSE Max(verdicts)

\* Mutant: one terminal run too many is kept.
pruneOneLess(list) ==
    LET terminal == {i \in RunIds : Terminal(list[i]) /\ ~list[i].del}
    IN  {i \in terminal : Cardinality({k \in terminal : k > i}) > Limit}

\* The oldest terminal runs beyond the limit.
pruneRuns(list) ==
    LET terminal == {i \in RunIds : Terminal(list[i]) /\ ~list[i].del}
    IN  {i \in terminal : Cardinality({k \in terminal : k > i}) >= Limit}

\* Status().Patch with MergeFrom(original): a field that equals the cached one is
\* not sent.
MergeField(stored, cached, want) == IF want # cached THEN want ELSE stored

-----------------------------------------------------------------------------
Init ==
    /\ now = 0
    /\ srv = FreshServer /\ srvC = srv
    /\ runs = [i \in RunIds |-> NoRun] /\ runsC = runs
    /\ agents = TRUE
    /\ rec = IdleRec
    /\ budget = [faults |-> MaxFaults, triggers |-> MaxTriggers]

Fault == budget.faults > 0 /\ budget' = [budget EXCEPT !.faults = budget.faults - 1]

-----------------------------------------------------------------------------
(***************************************************************************)
(* Reconcile                                                               *)
(***************************************************************************)

\* Mutant: the trigger is taken back although no run was created.
SkipClearing(r) == [r EXCEPT !.pc = IF srvC.trig THEN "clear" ELSE "patch",
                             !.last = IF r.fire # 0 THEN r.fire ELSE r.last]

\* A run is still active: the fire is consumed, a trigger waits.
Skip(r) == [r EXCEPT !.pc = "patch", !.last = IF r.fire # 0 THEN r.fire ELSE r.last]

\* Mutant: a paused server does not look at its runs at all.
RecUnschedulableBlind ==
    /\ rec.pc = "idle" /\ agents /\ srvC.spec = "badcron"
    /\ rec' = [IdleRec EXCEPT !.pc = "patch", !.last = srvC.last,
                              !.mirror = syncLatestRunResult(runsC, srvC.mirror)]
    /\ UNCHANGED <<now, srv, srvC, runs, runsC, agents, budget>>

\* Paused, or no valid schedule: the latest result is mirrored and nothing else.
RecUnschedulable ==
    /\ rec.pc = "idle" /\ agents /\ srvC.spec # "ok"
    /\ rec' = [IdleRec EXCEPT !.pc = "patch", !.last = srvC.last,
                              !.mirror = syncLatestRunResult(runsC, srvC.mirror)]
    /\ UNCHANGED <<now, srv, srvC, runs, runsC, agents, budget>>

RecSchedule ==
    /\ rec.pc = "idle" /\ agents /\ srvC.spec = "ok"
    /\ LET r == [IdleRec EXCEPT !.at = now, !.fire = isDue(srvC.last, now), !.last = srvC.last,
                                !.mirror = syncLatestRunResult(runsC, srvC.mirror),
                                !.todo = pruneRuns(runsC)]
       IN  rec' = IF r.fire = 0 /\ ~srvC.trig THEN [r EXCEPT !.pc = "patch"]
                  ELSE IF findActiveRun(runsC) # {} THEN Skip(r)
                  ELSE [r EXCEPT !.pc = "list"]
    /\ UNCHANGED <<now, srv, srvC, runs, runsC, agents, budget>>

\* Mutant: the cached list is trusted at fire time.
ListCached ==
    /\ rec.pc = "list"
    /\ rec' = [rec EXCEPT !.pc = "create"]
    /\ UNCHANGED <<now, srv, srvC, runs, runsC, agents, budget>>

\* listRunsUncached: the API server's own list, at fire time.
ListUncached ==
    /\ rec.pc = "list"
    /\ rec' = IF findActiveRun(runs) # {} THEN Skip(rec) ELSE [rec EXCEPT !.pc = "create"]
    /\ UNCHANGED <<now, srv, srvC, runs, runsC, agents, budget>>

Unused == {i \in RunIds : runs[i].st = "none"}

\* Mutant: the next fire is recorded as evaluated.
CreateRunAhead ==
    /\ rec.pc = "create" /\ Unused # {}
    /\ runs' = [runs EXCEPT ![Min(Unused)] =
                    [st |-> "active", cron |-> ~srvC.trig, del |-> FALSE]]
    /\ rec' = [rec EXCEPT !.pc = IF srvC.trig THEN "clear" ELSE "patch",
                          !.last = NextFire(rec.at)]
    /\ UNCHANGED <<now, srv, srvC, runsC, agents, budget>>

\* At the bound on runs the call fails like any other (RecAbort's step, without a fault).
CreateRun ==
    /\ rec.pc = "create"
    /\ \/ /\ Unused # {}
          /\ runs' = [runs EXCEPT ![Min(Unused)] =
                          [st |-> "active", cron |-> ~srvC.trig, del |-> FALSE]]
          /\ rec' = [rec EXCEPT !.pc = IF srvC.trig THEN "clear" ELSE "patch",
                                !.last = IF srvC.trig THEN rec.at ELSE rec.fire]
       \/ Unused = {} /\ rec' = IdleRec /\ UNCHANGED runs
    /\ UNCHANGED <<now, srv, srvC, runsC, agents, budget>>

ClearTriggerAnnotation ==
    /\ rec.pc = "clear"
    /\ srv' = [srv EXCEPT !.trig = FALSE]
    /\ rec' = [rec EXCEPT !.pc = "patch"]
    /\ UNCHANGED <<now, srvC, runs, runsC, agents, budget>>

\* (After clearTriggerAnnotation the patch carries a resourceVersion and may conflict:
\* that is an error like any other, RecAbort's step.)
PatchStatus ==
    /\ rec.pc = "patch"
    /\ srv' = [srv EXCEPT !.last = MergeField(srv.last, srvC.last, rec.last),
                          !.mirror = MergeField(srv.mirror, srvC.mirror, rec.mirror)]
    /\ rec' = IF rec.todo = {} THEN IdleRec ELSE [rec EXCEPT !.pc = "prune"]
    /\ UNCHANGED <<now, srvC, runs, runsC, agents, budget>>

\* One Delete after the other, oldest first; a run that is gone is passed over.
PruneRun ==
    /\ rec.pc = "prune"
    /\ LET i == Min(rec.todo)
       IN  /\ runs' = IF Exists(runs[i]) THEN [runs EXCEPT ![i].del = TRUE] ELSE runs
           /\ rec' = IF rec.todo = {i} THEN IdleRec ELSE [rec EXCEPT !.todo = rec.todo \ {i}]
    /\ UNCHANGED <<now, srv, srvC, runsC, agents, budget>>

\* An API error or a crash of the operator.
RecAbort ==
    /\ rec.pc # "idle" /\ Fault
    /\ rec' = IdleRec
    /\ UNCHANGED <<now, srv, srvC, runs, runsC, agents>>

Reconcile == RecUnschedulable \/ RecSchedule
Continue == \/ ListUncached \/ CreateRun \/ ClearTriggerAnnotation \/ PatchStatus \/ PruneRun

-----------------------------------------------------------------------------
SyncServer == /\ rec.pc = "idle" /\ srvC # srv /\ srvC' = srv
              /\ UNCHANGED <<now, srv, runs, runsC, agents, rec, budget>>

SyncRuns == /\ rec.pc = "idle" /\ runsC # runs /\ runsC' = runs
            /\ UNCHANGED <<now, srv, srvC, runs, agents, rec, budget>>

-----------------------------------------------------------------------------
(***************************************************************************)
(* Time, users, and the runs themselves (EvalRun)                          *)
(***************************************************************************)
Tick == /\ now < MaxTime /\ now' = now + 1
        /\ UNCHANGED <<srv, srvC, runs, runsC, agents, rec, budget>>

SetTrigger ==
    /\ ~srv.trig
    /\ srv' = [srv EXCEPT !.trig = TRUE]
    /\ \/ budget.triggers > 0 /\ budget' = [budget EXCEPT !.triggers = budget.triggers - 1]
       \/ Fault
    /\ UNCHANGED <<now, srvC, runs, runsC, agents, rec>>

EditSpec ==
    /\ Fault
    /\ \E s \in {"ok", "paused", "badcron"} \ {srv.spec} : srv' = [srv EXCEPT !.spec = s]
    /\ UNCHANGED <<now, srvC, runs, runsC, agents, rec>>

EditAgents == Fault /\ agents' = ~agents /\ UNCHANGED <<now, srv, srvC, runs, runsC, rec>>

world == <<now, srv, srvC, runsC, agents, rec>>

FinishRun(i) ==
    /\ InFlight(runs[i])
    /\ \E s \in Outcomes : runs' = [runs EXCEPT ![i].st = s]
    /\ UNCHANGED <<world, budget>>

ReopenRun(i) ==
    /\ runs[i].st = "failed" /\ Fault
    /\ runs' = [runs EXCEPT ![i].st = "reopened"]
    /\ UNCHANGED world

DeleteRun(i) ==
    /\ Exists(runs[i]) /\ ~runs[i].del /\ Fault
    /\ runs' = [runs EXCEPT ![i].del = TRUE]
    /\ UNCHANGED world

\* The run controller drops its finalizer.
RunGone(i) ==
    /\ runs[i].del
    /\ runs' = [runs EXCEPT ![i] = [NoRun EXCEPT !.st = "gone"]]
    /\ UNCHANGED <<world, budget>>

Next == \/ Reconcile \/ Continue \/ RecAbort \/ SyncServer \/ SyncRuns
        \/ Tick \/ SetTrigger \/ EditSpec \/ EditAgents
        \/ \E i \in RunIds : FinishRun(i) \/ ReopenRun(i) \/ DeleteRun(i) \/ RunGone(i)

Spec == Init /\ [][Next]_vars

\* A reconcile is requeued for the next fire at the latest, by an event of a run, or
\* within a minute while a trigger waits, and comes to its end; watches deliver
\* (strong: only the model holds them back during a reconcile); runs come to a
\* terminal phase and, once deleted, go away (EvalRun's liveness).  Nothing is
\* assumed of time, users or faults.
Fairness ==
    /\ WF_vars(Reconcile \/ Continue)
    /\ SF_vars(SyncServer \/ SyncRuns)
    /\ WF_vars(\E i \in RunIds : FinishRun(i) \/ RunGone(i))

FairSpec == Spec /\ Fairness

-----------------------------------------------------------------------------
(***************************************************************************)
(* Safety                                                                  *)
(***************************************************************************)

\* Every variable holds a value of its kind, and the status never claims an
\* evaluation in the future, which would swallow the fires up to it.
TypeOK ==
    /\ now \in Times
    /\ srv \in Server /\ srvC \in Server
    /\ runs \in [RunIds -> RunObj] /\ runsC \in [RunIds -> RunObj]
    /\ agents \in BOOLEAN
    /\ rec \in Rec
    /\ budget \in [faults : 0..MaxFaults, triggers : 0..MaxTriggers]
    /\ srv.last <= now

\* The uncached list at fire time does what it is for: no run is created while one
\* the controller created earlier still runs, however stale its caches.  (A run that
\* was Failed and reopened behind the list is the exception.)
NoOverlap ==
    [][\A i \in RunIds : runs[i].st = "none" /\ runs'[i].st = "active"
         => \A k \in RunIds : runs[k].st = "active" => runs[k].del]_runs

\* Whatever copy of the server a reconcile works from, the fires its status counts as
\* evaluated are never given back.  (isDue's walk must span what that copy is behind:
\* CopyRecent in ServerSchedule_proofs.)
FiresNeverForgotten == [][srv'.last \div Period >= srv.last \div Period]_srv

\* A run the list shows with a verdict is pruned only once the server's status shows
\* that verdict or a newer one.
VerdictOutlivesRun ==
    [][\A i \in RunIds : /\ rec.pc = "prune" /\ ~runs[i].del /\ runs'[i].del
                         /\ runsC[i].st \in {"completed", "mal"}
         => srv.mirror >= i]_vars

-----------------------------------------------------------------------------
(***************************************************************************)
(* Liveness (of FairSpec)                                                  *)
(***************************************************************************)
Schedulable == srv.spec = "ok" /\ agents

\* A run is to be created and the bound on runs refuses it; what would follow is not
\* modelled.
OutOfRuns == rec.pc = "create" /\ Unused = {}

\* Runs created so far.
Created == Cardinality({i \in RunIds : runs[i].st # "none"})

\* Every fire that elapses is eventually counted: it started a run, or one was active.
\* The status catches up with the clock again and again.
FireServed == []<>(srv.last \div Period >= now \div Period \/ ~Schedulable \/ OutOfRuns)

\* A trigger is served by a run created after it was set: one set while a run is active
\* waits for its end, and none is taken back without a run.  Only one that is set between
\* a reconcile's create and its clear goes with the run just created.
TriggerServed ==
    \A n \in 0..(MaxRuns - 1) :
        (srv.trig /\ rec.pc # "clear" /\ Created = n) ~> (Created > n \/ ~Schedulable \/ OutOfRuns)

\* The verdicts there are reach the server's status even if it is paused meanwhile.
VerdictMirrored ==
    []<>(~agents \/ OutOfRuns
         \/ \A i \in RunIds : runs[i].st \in {"completed", "mal"} /\ ~runs[i].del => srv.mirror >= i)

\* In the end no more than runHistoryLimit finished runs are kept.
HistoryBounded ==
    \/ []<>OutOfRuns
    \/ <>[](Schedulable => Cardinality({i \in RunIds : Terminal(runs[i])}) <= Limit)

-----------------------------------------------------------------------------
\* "correct after operator restart/failover; missed fires fire once on catch-up"
\* (ARCHITECTURE.md:150): there are never more scheduled runs than fires.
FiresOnce == Cardinality({i \in RunIds : runs[i].cron}) <= now \div Period
=============================================================================
