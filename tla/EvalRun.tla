------------------------------- MODULE EvalRun -------------------------------
(***************************************************************************)
(* One MCPEvaluationRun, from its creation to its removal: the run         *)
(* controller (internal/controller/mcpevaluationrun_controller.go), the    *)
(* API server objects it reads and writes, and the evaluator that patches  *)
(* the same status from inside the Job's pod.                              *)
(*                                                                         *)
(* What is kept.  The controller never sees the API server: it reads       *)
(* informer caches (runC, jobC, podC, policyC), each behind by an          *)
(* arbitrary amount, and it writes with lock-free merge patches computed   *)
(* against the cached object.  A reconcile is a sequence of API calls      *)
(* (rec.pc says which comes next) and every call is a step of its own, so  *)
(* the evaluator, the Job controller, the kubelet, a deletion or a crash   *)
(* can fall between any two of them.  controller-runtime never reconciles  *)
(* one key twice at a time, hence a single rec.  What a reconcile does     *)
(* between two API calls (cached reads, decisions) belongs to the step of  *)
(* the first, and a call that cannot change anything (an empty patch, a    *)
(* policy the cache already has) is no step.  How far a cache may fall     *)
(* behind is bounded by RunLag and KubeLag, in versions of the cached      *)
(* object; the caches catch up between reconciles.                         *)
(*                                                                         *)
(* What is abstracted.  Of the status, the fields that drive control:      *)
(* phase, whether currentAgent is set, retries, and whether anything was   *)
(* recorded (`results': agentResults, scoring or finalScore).  The verdict *)
(* itself, messages, times, conditions, events and the trace annotation    *)
(* are left out.                                                           *)
(***************************************************************************)
EXTENDS Naturals

CONSTANTS
    MaxRetries,   \* maxJobRetries (2 in the code)
    MaxJobs,      \* bound: Jobs created for the run in a behaviour
    NAgents,      \* personas in spec.agents
    RunLag,       \* bound: versions of the run its cache has not seen
    KubeLag,      \* bound: the same, for the Job and for the newest pod
    MaxFaults     \* bound: faults of the environment in a behaviour

ASSUME BoundsAssumption == /\ MaxRetries \in Nat
                           /\ MaxJobs \in Nat \ {0}
                           /\ NAgents \in Nat \ {0}
                           /\ RunLag \in Nat \ {0} /\ KubeLag \in Nat \ {0}
                           /\ MaxFaults \in Nat

VARIABLES
    run, runC,        \* the MCPEvaluationRun and the controller's cached copy
    job, jobC,        \* the Job: how many were created and the newest one's state;
                      \* the state the cache shows
    pods, podC,       \* the pod of each Job; the newest pod as the cache lists it
    policy, policyC,  \* does <run>-evaluate-egress exist; does the cache say so
    refs,             \* the MCPServer and every OpenCodeAgent of the run exist
    rec,              \* the reconcile in progress
    lag,              \* versions each cache is behind
    faults,           \* faults the environment may still inject
    hist              \* history: evaluator success, policy torn down by the controller

vars == <<run, runC, job, jobC, pods, podC, policy, policyC, refs, rec, lag,
          faults, hist>>

-----------------------------------------------------------------------------
Phases == {"", "Pending", "Cloning", "Running", "Evaluating", "Completed", "Failed"}

IsTerminal(p) == p \in {"Completed", "Failed"}

Rank(p) == CASE p = "Pending"    -> 1
             [] p = "Cloning"    -> 2
             [] p = "Running"    -> 3
             [] p = "Evaluating" -> 4
             [] IsTerminal(p)    -> 5
             [] OTHER            -> 0

\* The CRD schema caps retries at the bound the controller enforces.
Status == [phase : Phases, agent : BOOLEAN, retries : 0..MaxRetries,
           results : BOOLEAN]

FreshStatus == [phase |-> "", agent |-> FALSE, retries |-> 0,
                results |-> FALSE]

\* The stored object: does it exist, is it being deleted, has it the finalizer.
Run == [live : BOOLEAN, del : BOOLEAN, fin : BOOLEAN, st : Status]

GoneRun == [live |-> FALSE, del |-> FALSE, fin |-> FALSE, st |-> FreshStatus]

JobStates == {"none", "active", "failed", "complete", "deleting"}

(***************************************************************************)
(* What the statuses of a pod and of its containers amount to:             *)
(*   pending   not scheduled, or containers created for less than 5 minutes*)
(*   stuck     Pending for 5 minutes and no container ever started         *)
(*   init      the cloner runs                                             *)
(*   initfail  the cloner failed                                           *)
(*   run       init containers done, the evaluator runs                    *)
(*   exit0, exit1, oom    the evaluator container terminated               *)
(*   evicted   Failed, reason Evicted, the evaluator recorded as terminated*)
(*   lost      Failed, reason NodeLost, container states not recorded      *)
(***************************************************************************)
PodStates == {"none", "pending", "stuck", "init", "initfail", "run",
              "exit0", "exit1", "oom", "evicted", "lost"}

PodPending(s) == s \in {"pending", "stuck", "init"}
EvaluatorTerminated(s) == s \in {"exit0", "exit1", "oom", "evicted"}

\* What the controller can see of a pod: its net-phase label (evl), another
\* container OOMKilled (side), and the evaluator's termination message (tm).
PodView == [n : Nat, s : PodStates, evl : BOOLEAN, side : BOOLEAN,
            tm : BOOLEAN]

NoPodView == [n |-> 0, s |-> "none", evl |-> FALSE, side |-> FALSE,
              tm |-> FALSE]

EvStates == {"boot", "ready", "agent", "ok", "bad"}

\* The pod itself adds that it is terminating (del) and the evaluator's progress:
\* where it is (ev) and how many personas are left to run (left).
Pod == [s : PodStates, evl : BOOLEAN, side : BOOLEAN, tm : BOOLEAN,
        del : BOOLEAN, ev : EvStates, left : 0..NAgents]

NoPod == [s |-> "none", evl |-> FALSE, side |-> FALSE, tm |-> FALSE,
          del |-> FALSE, ev |-> "boot", left |-> NAgents]

JobIds == 1..MaxJobs

\* The API call that comes next, and the one after it.
RecStates == {"idle", "ensure", "create", "look", "flip", "delJob", "delPolicy",
              "patch", "unfin"}

\* orig and want: the status as read and as it should become; n: the pod to flip.
Rec == [pc : RecStates, next : RecStates, orig : Status, want : Status, n : Nat]

IdleRec == [pc |-> "idle", next |-> "idle", orig |-> FreshStatus, want |-> FreshStatus,
            n |-> 0]

-----------------------------------------------------------------------------
(***************************************************************************)
(* Status arithmetic of the controller                                     *)
(***************************************************************************)

\* Mutant: the whole status is written back, as an Update of the cached copy would.
WholeUpdate(cur, orig, want) == want

\* Status().Patch(run, MergeFrom(original)): only fields that differ from the
\* cached original are sent; the stored value of every other field stands.
MergePatch(cur, orig, want) ==
    [phase   |-> IF want.phase   # orig.phase   THEN want.phase   ELSE cur.phase,
     agent   |-> IF want.agent   # orig.agent   THEN want.agent   ELSE cur.agent,
     retries |-> IF want.retries # orig.retries THEN want.retries ELSE cur.retries,
     results |-> IF want.results # orig.results THEN want.results ELSE cur.results]

Accepted(s) == IF s.phase = "" THEN [s EXCEPT !.phase = "Pending"] ELSE s

FailedStatus(s) == [s EXCEPT !.phase = "Failed", !.agent = FALSE]

\* A reconcile that read o, wants w and has the calls pc and next before it.
Step(o, w, pc, next) == [IdleRec EXCEPT !.orig = o, !.want = w, !.pc = pc, !.next = next]

\* patchStatus at the end of a reconcile; an empty patch changes nothing.
Finish(o, w) == IF w = o THEN IdleRec ELSE Step(o, w, "patch", "idle")

fail(o, w) == Step(o, FailedStatus(w), "delPolicy", "patch")

\* Mutant: the bound is checked one retry late.
retryJobLate(o, w) ==
    IF w.retries > MaxRetries
    THEN fail(o, w)
    ELSE Step(o, [w EXCEPT !.retries = w.retries + 1], "delJob", "patch")

retryJob(o, w) ==
    IF w.retries >= MaxRetries
    THEN fail(o, w)
    ELSE Step(o, [w EXCEPT !.retries = w.retries + 1], "delJob", "patch")

complete(o, w, p) ==
    IF p.tm /\ p.s # "exit0"                        THEN fail(o, w)
    ELSE IF ~p.tm /\ ~w.results                     THEN fail(o, w)
    ELSE Step(o, [w EXCEPT !.phase = "Completed", !.agent = FALSE], "delPolicy", "patch")

infraTransientFailure(p) ==
    /\ p.n # 0
    /\ p.s \in {"evicted", "lost", "oom"} \/ PodPending(p.s) \/ p.side

derivePhaseFromPod(p) ==
    IF p.n = 0 \/ p.s \in {"pending", "stuck"} THEN "Pending"
    ELSE IF p.s = "init" THEN "Cloning"
    ELSE "Running"

\* The in-flight phase the controller would like: the pod's, or Evaluating once
\* the runner has named a current agent; written only when it ranks higher.
RaisePhase(w, derived) ==
    LET d == IF w.agent /\ Rank(derived) < Rank("Evaluating") THEN "Evaluating" ELSE derived
    IN  IF Rank(d) > Rank(w.phase) THEN [w EXCEPT !.phase = d] ELSE w

\* Mutant: a failed Job is completed from whatever results were recorded.
DecideFromResults(o, w, c, p) ==
    IF c = "failed" THEN complete(o, w, p)
    ELSE Finish(o, RaisePhase(w, derivePhaseFromPod(p)))

\* Mutant: the Failed condition of the Job is not looked at.
DecideWithoutJob(o, w, c, p) ==
    IF p.n # 0 /\ p.s = "exit0" THEN complete(o, w, p)
    ELSE IF p.n # 0 /\ EvaluatorTerminated(p.s) THEN fail(o, w)
    ELSE Finish(o, RaisePhase(w, derivePhaseFromPod(p)))

\* What the reconcile does once it has seen the Job condition c and the newest pod p.
Decide(o, w, c, p) ==
    IF p.n # 0 /\ p.s = "stuck" THEN retryJob(o, w)
    ELSE IF c = "failed"
         THEN IF infraTransientFailure(p) THEN retryJob(o, w) ELSE fail(o, w)
    ELSE IF c = "complete" THEN complete(o, w, p)
    ELSE IF p.n # 0 /\ EvaluatorTerminated(p.s)
         THEN IF p.s = "exit0" THEN complete(o, w, p)
              ELSE IF p.s = "oom" THEN retryJob(o, w)
              ELSE fail(o, w)
    ELSE Finish(o, RaisePhase(w, derivePhaseFromPod(p)))

\* ensureEvaluateNetPhase comes before the evaluator's exit is looked at, and
\* only when no earlier branch of the reconcile has returned.
NeedsFlip(c, p) ==
    /\ p.n # 0 /\ p.s # "stuck" /\ c = "active"
    /\ derivePhaseFromPod(p) = "Running" /\ ~p.evl

LookAtPod(o, w) ==
    LET d == Decide(o, w, jobC, podC)
    IN  IF NeedsFlip(jobC, podC)
        THEN [Step(o, d.want, "flip", d.pc) EXCEPT !.n = podC.n] ELSE d

-----------------------------------------------------------------------------
Init ==
    /\ run = [GoneRun EXCEPT !.live = TRUE]
    /\ runC = run
    /\ job = [n |-> 0, st |-> "none"]
    /\ jobC = "none"
    /\ pods = [i \in JobIds |-> NoPod]
    /\ podC = NoPodView
    /\ policy = FALSE
    /\ policyC = FALSE
    /\ refs = TRUE
    /\ rec = IdleRec
    /\ lag = [run |-> 0, job |-> 0, pod |-> 0]
    /\ faults = MaxFaults
    /\ hist = [won |-> FALSE, torn |-> FALSE]

Fault == faults > 0 /\ faults' = faults - 1

cluster == <<job, pods, policy, refs, faults>>
caches  == <<runC, jobC, podC, policyC>>

-----------------------------------------------------------------------------
(***************************************************************************)
(* Reconcile                                                               *)
(***************************************************************************)

\* Mutant: the egress policy is only ensured once the Job exists.
StartWithoutPolicy(s) ==
    LET w == Accepted(s)
    IN  IF IsTerminal(s.phase) THEN IdleRec
        ELSE IF ~refs THEN fail(s, w)
        ELSE IF jobC = "deleting" THEN IdleRec
        ELSE IF jobC = "none" THEN Step(s, w, "create", "patch")
        ELSE IF ~policyC THEN Step(s, w, "ensure", "look")
        ELSE LookAtPod(s, w)

\* The reconcile of a run that carries the finalizer and is not being deleted,
\* up to its first API call; s is the status it works from.
StartFrom(s) ==
    LET w == Accepted(s)
    IN  IF IsTerminal(s.phase) THEN IdleRec
        ELSE IF ~refs THEN fail(s, w)
        ELSE IF jobC = "deleting" THEN IdleRec
        ELSE IF ~policyC THEN Step(s, w, "ensure", IF jobC = "none" THEN "create" ELSE "look")
        ELSE IF jobC = "none" THEN Step(s, w, "create", "patch")
        ELSE LookAtPod(s, w)

\* The finalizer patch returns the stored object, and the reconcile goes on with
\* that one instead of the cached copy; patching a run that is gone is an error.
RecAdopt ==
    /\ rec.pc = "idle" /\ runC.live /\ ~runC.del /\ ~runC.fin
    /\ IF run.live
       THEN run' = [run EXCEPT !.fin = TRUE] /\ rec' = StartFrom(run.st)
       ELSE UNCHANGED <<run, rec>>
    /\ UNCHANGED <<cluster, caches, hist>>

RecRead ==
    /\ rec.pc = "idle" /\ runC.live /\ ~runC.del /\ runC.fin
    /\ rec' = StartFrom(runC.st)
    /\ UNCHANGED <<run, cluster, caches, hist>>

\* Mutant: the finalizer is dropped without deleting the Job first.
RecFinalizeKeepJob ==
    /\ rec.pc = "idle" /\ runC.live /\ runC.del /\ runC.fin
    /\ rec' = [IdleRec EXCEPT !.pc = "unfin"]
    /\ UNCHANGED <<run, cluster, caches, hist>>

\* Mutant: terminal runs return early, before the deletion is looked at.
RecFinalizeLive ==
    /\ rec.pc = "idle" /\ runC.live /\ runC.del /\ runC.fin
    /\ ~IsTerminal(runC.st.phase)
    /\ rec' = [IdleRec EXCEPT !.pc = "delJob", !.next = "unfin"]
    /\ UNCHANGED <<run, cluster, caches, hist>>

RecFinalize ==
    /\ rec.pc = "idle" /\ runC.live /\ runC.del /\ runC.fin
    /\ rec' = [IdleRec EXCEPT !.pc = "delJob", !.next = "unfin"]
    /\ UNCHANGED <<run, cluster, caches, hist>>

\* ensureEvaluateNetworkPolicy found no policy in its cache; creating one that
\* exists after all is fine.
EnsurePolicy ==
    /\ rec.pc = "ensure"
    /\ policy' = TRUE
    /\ rec' = IF rec.next = "create" THEN [rec EXCEPT !.pc = "create", !.next = "patch"]
              ELSE LookAtPod(rec.orig, rec.want)
    /\ UNCHANGED <<run, job, pods, refs, faults, caches, hist>>

\* Create(job): a new Job, AlreadyExists (requeue), or a permanent rejection.  At
\* the bound on Jobs the call fails as a transient error would, and is retried.
CreateJob ==
    /\ rec.pc = "create"
    /\ \/ /\ job.st = "none" /\ job.n < MaxJobs
          /\ job' = [n |-> job.n + 1, st |-> "active"]
          /\ rec' = Finish(rec.orig, rec.want)
          /\ UNCHANGED faults
       \/ /\ job.st # "none" \/ job.n = MaxJobs
          /\ rec' = IdleRec
          /\ UNCHANGED <<job, faults>>
       \/ /\ Fault
          /\ rec' = fail(rec.orig, rec.want)
          /\ UNCHANGED job
    /\ UNCHANGED <<run, pods, policy, refs, caches, hist>>

\* The label patch of a pod that is gone is ignored.
FlipNetPhase ==
    /\ rec.pc = "flip"
    /\ pods' = [i \in JobIds |-> IF i = rec.n /\ pods[i].s # "none"
                                 THEN [pods[i] EXCEPT !.evl = TRUE] ELSE pods[i]]
    /\ rec' = IF rec.next = "idle" THEN IdleRec
              ELSE Step(rec.orig, rec.want, rec.next,
                        IF rec.next = "patch" THEN "idle" ELSE "patch")
    /\ UNCHANGED <<run, job, policy, refs, faults, caches, hist>>

\* Background propagation: the Job object goes at once, its pod later.
DeleteJob ==
    /\ rec.pc = "delJob"
    /\ job' = [job EXCEPT !.st = "none"]
    /\ rec' = [rec EXCEPT !.pc = rec.next, !.next = "idle"]
    /\ UNCHANGED <<run, pods, policy, refs, faults, caches, hist>>

\* Best effort: an error is logged and the reconcile goes on.
DeletePolicy ==
    /\ rec.pc = "delPolicy"
    /\ \/ policy' = FALSE /\ hist' = [hist EXCEPT !.torn = TRUE] /\ UNCHANGED faults
       \/ Fault /\ UNCHANGED <<policy, hist>>
    /\ rec' = [rec EXCEPT !.pc = rec.next, !.next = "idle"]
    /\ UNCHANGED <<run, job, pods, refs, caches>>

PatchStatus ==
    /\ rec.pc = "patch"
    /\ run' = IF run.live
              THEN [run EXCEPT !.st = MergePatch(run.st, rec.orig, rec.want)] ELSE run
    /\ rec' = IdleRec
    /\ UNCHANGED <<cluster, caches, hist>>

\* Dropping the last finalizer of an object that is being deleted removes it.
RemoveFinalizer ==
    /\ rec.pc = "unfin"
    /\ run' = IF run.live /\ run.del THEN GoneRun ELSE [run EXCEPT !.fin = FALSE]
    /\ rec' = IdleRec
    /\ UNCHANGED <<cluster, caches, hist>>

\* Any API call may fail with an error that ends the reconcile, and the operator
\* may crash: either way the next reconcile starts again from the caches.
RecAbort ==
    /\ rec.pc # "idle" /\ Fault
    /\ rec' = IdleRec
    /\ UNCHANGED <<run, job, pods, policy, refs, caches, hist>>

Reconcile == RecAdopt \/ RecRead \/ RecFinalize
Continue == \/ EnsurePolicy \/ CreateJob \/ FlipNetPhase
            \/ DeleteJob \/ DeletePolicy \/ PatchStatus \/ RemoveFinalizer

-----------------------------------------------------------------------------
(***************************************************************************)
(* The informers: each cache catches up on its own                         *)
(***************************************************************************)
others == <<run, job, pods, policy, refs, rec, faults, hist>>

SyncRun == runC # run /\ runC' = run /\ UNCHANGED <<others, jobC, podC, policyC>>

SyncJob == jobC # job.st /\ jobC' = job.st /\ UNCHANGED <<others, runC, podC, policyC>>

SyncPolicy == policyC # policy /\ policyC' = policy /\ UNCHANGED <<others, runC, jobC, podC>>

ViewOf(i) == [n |-> i, s |-> pods[i].s, evl |-> pods[i].evl, side |-> pods[i].side,
              tm |-> pods[i].tm]

\* findPod: the newest pod that carries the run's label, whichever Job owns it.
newestPod ==
    LET there == {i \in JobIds : pods[i].s # "none"}
    IN  IF there = {} THEN NoPodView
        ELSE ViewOf(CHOOSE i \in there : \A k \in there : k <= i)

SyncPod == podC # newestPod /\ podC' = newestPod /\ UNCHANGED <<others, runC, jobC, policyC>>

Sync == rec.pc = "idle" /\ (SyncRun \/ SyncJob \/ SyncPolicy \/ SyncPod)


-----------------------------------------------------------------------------
(***************************************************************************)
(* Users, the Job controller, the garbage collector and the kubelet        *)
(***************************************************************************)
control == <<rec, hist, refs>>

\* A user, or the server controller pruning its history, deletes the run.
DeleteRun ==
    /\ run.live /\ ~run.del /\ Fault
    /\ run' = IF run.fin THEN [run EXCEPT !.del = TRUE] ELSE GoneRun
    /\ UNCHANGED <<job, pods, policy, refs, caches, rec, hist>>

\* The MCPServer or an OpenCodeAgent of the run is deleted.
LoseRefs ==
    /\ refs /\ Fault /\ refs' = FALSE
    /\ UNCHANGED <<run, job, pods, policy, caches, rec, hist>>

\* Owner references: a Job and a policy whose run is gone are collected.
CollectOrphans ==
    /\ ~run.live /\ (job.st # "none" \/ policy)
    /\ job' = [job EXCEPT !.st = "none"] /\ policy' = FALSE
    /\ UNCHANGED <<run, pods, faults, caches, control>>

SetPod(i, p) == pods' = [pods EXCEPT ![i] = p]

\* The evaluator of pod p is no more; how far it had come is forgotten with it.
Ended(p, s, tm) == [p EXCEPT !.s = s, !.tm = tm, !.ev = "boot", !.left = NAgents]

\* backoffLimit 0: a Job has one pod, and what ends the pod ends the Job.
StartPod(i) ==
    /\ job.n = i /\ job.st = "active" /\ pods[i] = NoPod
    /\ SetPod(i, [NoPod EXCEPT !.s = "pending"])
    /\ UNCHANGED <<run, job, policy, faults, caches, control>>

JobFinish(i) ==
    /\ job.n = i /\ job.st = "active"
    /\ pods[i].s \in {"exit0", "exit1", "oom", "evicted", "lost", "initfail"}
    /\ job' = [job EXCEPT !.st = IF pods[i].s = "exit0" /\ ~pods[i].side
                                 THEN "complete" ELSE "failed"]
    /\ UNCHANGED <<run, pods, policy, faults, caches, control>>

\* activeDeadlineSeconds: the Job fails and its pod is deleted.
JobDeadline(i) ==
    /\ job.n = i /\ job.st = "active" /\ Fault
    /\ job' = [job EXCEPT !.st = "failed"]
    /\ SetPod(i, [pods[i] EXCEPT !.del = (pods[i].s # "none")])
    /\ UNCHANGED <<run, policy, caches, control>>

\* ttlSecondsAfterFinished deletes with foreground propagation: the Job shows a
\* deletion timestamp until its pod is gone.
JobTTL ==
    /\ job.st \in {"failed", "complete"} /\ Fault
    /\ job' = [job EXCEPT !.st = "deleting"]
    /\ UNCHANGED <<run, pods, policy, caches, control>>

JobReap ==
    /\ job.st = "deleting" /\ \A i \in JobIds : job.n = i => pods[i].s = "none"
    /\ job' = [job EXCEPT !.st = "none"]
    /\ UNCHANGED <<run, pods, policy, faults, caches, control>>

OrphanPod(i) ==
    /\ pods[i].s # "none" /\ ~pods[i].del
    /\ job.n # i \/ job.st \in {"none", "deleting"}
    /\ SetPod(i, [pods[i] EXCEPT !.del = TRUE])
    /\ UNCHANGED <<run, job, policy, faults, caches, control>>

PodGone(i) ==
    /\ pods[i].del
    /\ SetPod(i, NoPod)
    /\ UNCHANGED <<run, job, policy, faults, caches, control>>

\* pending -> init -> run, and the ways a pod can go wrong.  The kubelet starts no
\* container of a terminating pod, but lets a running evaluator use its grace period.
PodStep(i) ==
    /\ ~pods[i].del
    /\ \/ pods[i].s \in {"pending", "stuck"} /\ SetPod(i, [pods[i] EXCEPT !.s = "init"])
       \/ pods[i].s = "init" /\ SetPod(i, [pods[i] EXCEPT !.s = "run"])
    /\ UNCHANGED <<run, job, policy, faults, caches, control>>

PodFault(i) ==
    /\ ~pods[i].del /\ Fault
    /\ \/ pods[i].s = "pending" /\ SetPod(i, [pods[i] EXCEPT !.s = "stuck"])
       \/ pods[i].s = "init" /\ SetPod(i, [pods[i] EXCEPT !.s = "initfail"])
       \/ pods[i].s = "run" /\ \E x \in {"oom", "evicted", "lost"} :
                                   SetPod(i, Ended(pods[i], x, FALSE))
       \/ pods[i].s = "run" /\ SetPod(i, [pods[i] EXCEPT !.side = TRUE])
    /\ UNCHANGED <<run, job, policy, caches, control>>

-----------------------------------------------------------------------------
(***************************************************************************)
(* The evaluator in the pod of Job i.  Its status patches write the fields *)
(* they name whatever the stored value is, and never throw: a patch whose  *)
(* retries are exhausted is dropped.                                       *)
(***************************************************************************)
EvPatch(new) ==
    \/ run' = (IF run.live THEN [run EXCEPT !.st = new] ELSE run) /\ UNCHANGED faults
    \/ Fault /\ UNCHANGED run

EvAt(i, e) == pods[i].s = "run" /\ pods[i].ev = e

evRest == <<job, policy, refs, rec, caches>>

EvStart(i) ==
    /\ EvAt(i, "boot")
    /\ EvPatch([run.st EXCEPT !.phase = "Running"])
    /\ SetPod(i, [pods[i] EXCEPT !.ev = "ready"])
    /\ UNCHANGED <<evRest, hist>>

\* Bound: the pod of an earlier Job (30 s of grace) is gone before a later pod has
\* cloned, booted and come to its first persona.
EarlierPodsGone(i) == \A k \in JobIds : k < i => pods[k].s = "none"

\* recordAgent: announce the persona, run it, record its result or its error.
EvAgent(i) ==
    /\ EvAt(i, "ready") /\ pods[i].left > 0 /\ EarlierPodsGone(i)
    /\ EvPatch([run.st EXCEPT !.phase = "Evaluating", !.agent = TRUE])
    /\ SetPod(i, [pods[i] EXCEPT !.ev = "agent", !.left = pods[i].left - 1])
    /\ UNCHANGED <<evRest, hist>>

EvResult(i) ==
    /\ EvAt(i, "agent")
    /\ EvPatch([run.st EXCEPT !.results = TRUE])
    /\ SetPod(i, [pods[i] EXCEPT !.ev = "ready"])
    /\ UNCHANGED <<evRest, hist>>

EvComplete(i) ==
    /\ EvAt(i, "ready") /\ pods[i].left = 0
    /\ EvPatch([run.st EXCEPT !.phase = "Completed", !.agent = FALSE])
    /\ SetPod(i, [pods[i] EXCEPT !.ev = "ok"])
    /\ hist' = [hist EXCEPT !.won = TRUE]
    /\ UNCHANGED evRest

\* evaluate() threw (a CR is missing, Vigil aborted or is unreachable, SIGTERM, no
\* persona succeeded), or fatalCrash caught a stray error: the failure is recorded.
EvFail(i) ==
    /\ EvAt(i, "ready") \/ EvAt(i, "agent")
    /\ EvPatch([run.st EXCEPT !.phase = "Failed", !.agent = FALSE])
    /\ SetPod(i, [pods[i] EXCEPT !.ev = "bad"])
    /\ UNCHANGED <<evRest, hist>>

\* The process ends: exit code 0 exactly when the report says Completed; the
\* termination message may fail to be written.  An invalid environment or a mesh
\* that never comes up ends it before the first patch.
EvExit(i) ==
    /\ \/ EvAt(i, "ok") \/ EvAt(i, "bad") \/ EvAt(i, "boot")
    /\ LET s == IF pods[i].ev = "ok" THEN "exit0" ELSE "exit1"
       IN  \/ SetPod(i, Ended(pods[i], s, TRUE)) /\ UNCHANGED faults
           \/ SetPod(i, Ended(pods[i], s, FALSE)) /\ Fault
    /\ UNCHANGED <<run, evRest, hist>>

-----------------------------------------------------------------------------
EvStep(i) == \/ EvStart(i) \/ EvAgent(i) \/ EvResult(i)
             \/ EvComplete(i) \/ EvFail(i) \/ EvExit(i)

KubeStep(i) == \/ StartPod(i) \/ JobFinish(i) \/ JobDeadline(i) \/ OrphanPod(i)
               \/ PodGone(i) \/ PodStep(i) \/ PodFault(i)

Controller == Reconcile \/ Continue \/ RecAbort

Environment == \/ DeleteRun \/ LoseRefs \/ CollectOrphans \/ JobTTL \/ JobReap
               \/ \E i \in JobIds : EvStep(i) \/ KubeStep(i)

Behind(old, bound, changed, fresh) ==
    IF fresh THEN 0 ELSE IF changed /\ old < bound THEN old + 1 ELSE old

CountLag ==
    lag' = [run |-> Behind(lag.run, RunLag, run' # run, run' = runC'),
            job |-> Behind(lag.job, KubeLag, job' # job, job'.st = jobC'),
            pod |-> Behind(lag.pod, KubeLag, newestPod' # newestPod, podC' = newestPod')]

\* The environment does not outrun a cache by more than the bound.
Paced == /\ run' # run => lag.run < RunLag
         /\ job' # job => lag.job < KubeLag
         /\ newestPod' # newestPod => lag.pod < KubeLag

Next == /\ Controller \/ Sync \/ (Environment /\ Paced)
        /\ CountLag

Spec == Init /\ [][Next]_vars

\* What the evaluator, the kubelet, the Job controller and the garbage collector
\* do when nothing goes wrong.
Progress == \/ CollectOrphans \/ JobReap
            \/ \E i \in JobIds : \/ EvStep(i) \/ PodStep(i) \/ StartPod(i)
                                 \/ JobFinish(i) \/ OrphanPod(i) \/ PodGone(i)

\* Fairness.  The work queue keeps reconciling and a reconcile comes to its end;
\* watches deliver; something that can progress does.  Strong for the last two
\* only because the model, not the system, stops them while a reconcile is under
\* way (Sync) or a cache is behind (Paced).  Nothing is assumed of deletions, of
\* faults or of the Job's deadline and TTL.
Fairness ==
    /\ WF_vars(Reconcile /\ CountLag)
    /\ WF_vars(Continue /\ CountLag)
    /\ SF_vars(Sync /\ CountLag)
    /\ SF_vars(Progress /\ Paced /\ CountLag)

FairSpec == Spec /\ Fairness

-----------------------------------------------------------------------------
(***************************************************************************)
(* Safety                                                                  *)
(***************************************************************************)

\* Every variable holds a value of its kind.  Status.retries is the part that takes
\* work: whatever the caches show, retryJob never writes a count the CRD schema
\* (maximum 2) would reject, which would leave the run unpatchable.
TypeOK ==
    /\ run \in Run /\ runC \in Run
    /\ job \in [n : 0..MaxJobs, st : JobStates] /\ jobC \in JobStates
    /\ pods \in [JobIds -> Pod] /\ podC \in PodView
    /\ policy \in BOOLEAN /\ policyC \in BOOLEAN /\ refs \in BOOLEAN
    /\ rec \in Rec
    /\ lag \in [run : 0..RunLag, job : 0..KubeLag, pod : 0..KubeLag]
    /\ faults \in 0..MaxFaults
    /\ hist \in [won : BOOLEAN, torn : BOOLEAN]

\* The retry budget only ever shrinks: no reconcile from a stale copy of the run,
\* no crash and no patch of the evaluator gives a retry back (status.retries is
\* incremented from the cached value and written without a version check).
RetriesNeverForgotten ==
    [][run.live /\ run'.live => run'.st.retries >= run.st.retries]_run

\* A run is Completed only if an evaluator finished its personas: neither a stale
\* pod, nor a Job condition of an earlier attempt, nor results left over by an
\* attempt that failed makes complete() report a success.
CompletedIsEarned == run.st.phase = "Completed" => hist.won

\* The finalizer's promise: the run object goes away only after its Job, even if
\* it is deleted while a reconcile is creating or recreating that Job.
JobDeletedBeforeRun == [][run.live /\ ~run'.live => job.st = "none"]_run

\* The egress policy exists before the Job, and before any pod is labelled
\* evaluate, until fail() or complete() takes it down.
CoveredUntilTeardown ==
    run.live /\ ~hist.torn =>
        /\ job.st # "none" => policy
        /\ \A i \in JobIds : pods[i].evl => policy

-----------------------------------------------------------------------------
(***************************************************************************)
(* Liveness (of FairSpec)                                                  *)
(***************************************************************************)

\* The bound on Jobs was reached; what would follow is not modelled.
OutOfJobs == job.n = MaxJobs /\ job.st = "none"

\* A run comes to rest in a terminal phase (or is deleted), although terminal
\* phases can be overwritten on the way, by a reconcile that works from a stale
\* copy (so that the phase does go down, against types.go:48) or by an evaluator
\* that outlives a fail().
RunSettles == <>[](IsTerminal(run.st.phase) \/ ~run.live \/ OutOfJobs)

NothingLeft == /\ ~run.live /\ job.st = "none" /\ ~policy
               /\ \A i \in JobIds : pods[i].s = "none"

\* Deleting a run, at any moment, leaves no Job, pod or policy behind, although a
\* reconcile that has not seen the deletion may still create them.
DeletedRunLeavesNothing == run.del ~> []NothingLeft

-----------------------------------------------------------------------------
(***************************************************************************)
(* What the repository says and the code does not do                       *)
(***************************************************************************)

\* "per-run NetworkPolicy ... is deleted when the run turns terminal"
\* (ARCHITECTURE.md:637).
PolicyGoneOnceTerminal == IsTerminal(run.st.phase) ~> (~policy \/ ~IsTerminal(run.st.phase))

\* "Pod evicted ...: run controller recreates the Job, bounded by status.retries"
\* (README.md:266): the controller does not fail a run over an evicted pod while
\* it has a retry left.
EvictionIsRetried ==
    [][rec.pc = "idle" /\ rec'.pc # "idle" /\ refs /\ podC.s = "evicted"
         /\ rec'.want.phase = "Failed"
         => rec'.want.retries >= MaxRetries]_rec
=============================================================================
