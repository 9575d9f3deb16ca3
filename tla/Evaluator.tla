------------------------------ MODULE Evaluator ------------------------------
(***************************************************************************)
(* The evaluator process of one pod (runner/src/evaluator.ts) and its      *)
(* status writer (runner/src/k8s.ts).  One Node process: main, which       *)
(* awaits, and two handlers that run while it does: onSignal and           *)
(* fatalCrash.  main.pc names the await main is at; the code up to the     *)
(* next await belongs to the step that ends it.                            *)
(*                                                                         *)
(* What is kept.  The status fields the evaluator writes (st), its report  *)
(* (rep), the terminal patch that could not be written (pend), the         *)
(* termination message (tm), which text of the target there is (ev): what  *)
(* a gate is given (the advertised surface, fuzz and probe responses) and  *)
(* whether Vigil has cleared it, and what no gate is given (aside); the    *)
(* flag of the signal handler.                                             *)
(* A status patch is in flight for any time; it lands, is answered 404     *)
(* because the run is gone, or is given up after its retries, in which     *)
(* case the last attempt may have been applied all the same.               *)
(*                                                                         *)
(* What is abstracted.  The suite is any assignment of kinds to NAgents    *)
(* personas.  Prompts, findings, scores and texts are left out, and with   *)
(* them patches of findings alone; of the scoring block, where it comes    *)
(* from is kept (risk: "Malicious" is Vigil's verdict, "rated" any         *)
(* category of a synthesis persona) and whether the final score is zero.   *)
(* Writes to local files succeed.  A SIGKILL only cuts a behaviour short;  *)
(* what the controller makes of it, and other writers of the status, are   *)
(* in module EvalRun.                                                      *)
(***************************************************************************)
EXTENDS Naturals, FiniteSets

CONSTANTS
    NAgents,     \* personas of the suite
    MaxFaults    \* bound: failed calls, stray errors and deletions in a behaviour

ASSUME EvaluatorAssumption == NAgents \in Nat \ {0} /\ MaxFaults \in Nat

VARIABLES
    kind, mode,  \* the personas' kinds; Vigil off, strict or monitor
    st,          \* the run's status; st.live: the run exists
    rep,         \* report: phase, risk, score (finalScore # 0), agents
    ev,          \* text of the target and whether it was scanned; the target's state
    main,        \* where main is
    crash,       \* where fatalCrash is
    sig,         \* state.terminated; personas begun after it (history)
    pend,        \* pendingTerminalPatch
    tm,          \* the termination message
    cm,          \* the ConfigMap of the report
    proc,        \* the process: up, or its exit code
    hist         \* bound on faults; history: patches given up, a strict detection
vars == <<kind, mode, st, rep, ev, main, crash, sig, pend, tm, cm, proc, hist>>

Agents == 1..NAgents
Kinds  == {"static", "dynamic", "adversarial", "synthesis", "generic"}

\* "-": the patch does not name the field; who: the persona of agentResults.
Body == [phase : {"-", "Running", "Evaluating", "Completed", "Failed"},
         agent : {"-", "set", "clear"}, who : 0..NAgents, what : {"-", "ok", "err"},
         risk : {"-", "Unknown", "rated", "Malicious"}]

NoBody == [phase |-> "-", agent |-> "-", who |-> 0, what |-> "-", risk |-> "-"]

TerminalBody(b) == b.phase \in {"Completed", "Failed"}

Apply(s, b) ==
    [s EXCEPT !.phase = IF b.phase = "-" THEN @ ELSE b.phase,
              !.agent = IF b.agent = "-" THEN @ ELSE b.agent = "set",
              !.res   = [i \in Agents |-> IF i = b.who THEN b.what ELSE s.res[i]],
              !.risk  = IF b.risk = "-" THEN @ ELSE b.risk]

Init ==
    /\ kind \in [Agents -> Kinds]
    /\ mode \in {"off", "strict", "monitor"}
    /\ st = [live |-> TRUE, phase |-> "", agent |-> FALSE,
             res |-> [i \in Agents |-> "-"], risk |-> "-"]
    /\ rep = [phase |-> "Running", risk |-> "Unknown", score |-> FALSE,
              agents |-> [i \in Agents |-> "none"]]
    /\ ev = [static |-> FALSE, target |-> "new", surface |-> "none", fuzz |-> "none",
             probes |-> "none", aside |-> "none"]
    /\ main = [pc |-> "boot", then |-> "-", body |-> NoBody, idx |-> 1, code |-> 0]
    /\ crash = "no"
    /\ sig = [on |-> FALSE, after |-> 0]
    /\ pend = NoBody
    /\ tm = [phase |-> "none", risk |-> "Unknown"]
    /\ proc = "up"
    /\ cm = "none"
    /\ hist = [faults |-> MaxFaults, lost |-> 0, mal |-> FALSE]

suite == <<kind, mode>>

-----------------------------------------------------------------------------
(***************************************************************************)
(* The status writer                                                       *)
(***************************************************************************)
FaultIn(h) == h.faults > 0

Faulted(h) == [h EXCEPT !.faults = h.faults - 1]

\* Mutant: a 404 is retried like any other error.
patchUntilLanded(b) ==
    \/ /\ st.live /\ st' = Apply(st, b)
       /\ pend' = IF TerminalBody(b) THEN NoBody ELSE pend
       /\ hist' = hist
    \/ /\ FaultIn(hist) /\ st.live
       /\ st' \in {st, Apply(st, b)}
       /\ pend' = IF TerminalBody(b) THEN b ELSE pend
       /\ hist' = [Faulted(hist) EXCEPT !.lost = hist.lost + 1]

\* patchStatus: lands (or 404), or is given up; never throws.
patchStatus(b) ==
    \/ /\ st' = IF st.live THEN Apply(st, b) ELSE st
       /\ pend' = IF st.live /\ TerminalBody(b) THEN NoBody ELSE pend
       /\ hist' = hist
    \/ /\ FaultIn(hist) /\ st.live
       /\ st' \in {st, Apply(st, b)}
       /\ pend' = IF TerminalBody(b) THEN b ELSE pend
       /\ hist' = [Faulted(hist) EXCEPT !.lost = hist.lost + 1]

\* main goes to await the patch b, and then to pc.
PatchThen(m, b, pc) == [m EXCEPT !.pc = "patch", !.body = b, !.then = pc]

At(pc) == proc = "up" /\ main.pc = pc

MainPatch ==
    /\ At("patch")
    /\ patchStatus(main.body)
    /\ main' = [main EXCEPT !.pc = main.then, !.then = "-", !.body = NoBody]
    /\ UNCHANGED <<suite, rep, ev, crash, sig, tm, cm, proc>>

-----------------------------------------------------------------------------
(***************************************************************************)
(* main and evaluate                                                       *)
(***************************************************************************)
\* Mutant: the failure patch carries an empty scoring block.
FailedPatchScored == [NoBody EXCEPT !.phase = "Failed", !.agent = "clear", !.risk = "Unknown"]

RunningPatch   == [NoBody EXCEPT !.phase = "Running"]
AnnouncePatch  == [NoBody EXCEPT !.phase = "Evaluating", !.agent = "set"]
ResultPatch(i, r) == [NoBody EXCEPT !.who = i, !.what = r]
FailedPatch    == [NoBody EXCEPT !.phase = "Failed", !.agent = "clear"]
CompletedPatch == [NoBody EXCEPT !.phase = "Completed", !.agent = "clear"]

writeTerminationMessage(phase, risk) == tm' = [phase |-> phase, risk |-> risk]

\* Configuration, status writer and mesh bridge; a failure ends the process with a
\* termination message and no status patch.  The handlers are not installed yet.
Boot ==
    /\ At("boot")
    /\ \/ /\ main' = PatchThen(main, RunningPatch, "fetch") /\ UNCHANGED <<tm, proc>>
       \/ /\ writeTerminationMessage("Failed", "Unknown")
          /\ proc' = "exit1" /\ UNCHANGED main
    /\ UNCHANGED <<suite, st, rep, ev, crash, sig, pend, cm, hist>>

\* evaluate() throws: main's catch records the failure.
Throw ==
    /\ rep' = [rep EXCEPT !.phase = "Failed"]
    /\ main' = PatchThen([main EXCEPT !.code = 1], FailedPatch, "finally")

rest == <<suite, st, crash, pend, tm, cm, proc>>

\* getWithRetry: the object; or an error, after the retries or at once for a 404.
getWithRetry(Got, Failed) ==
    \/ Got /\ UNCHANGED hist
    \/ FaultIn(hist) /\ hist' = Faulted(hist) /\ Failed

FetchCRs ==
    /\ At("fetch")
    /\ getWithRetry(main' = [main EXCEPT !.pc = "loop"] /\ UNCHANGED rep, Throw)
    /\ UNCHANGED <<rest, ev, sig>>

announce(m) == PatchThen(m, AnnouncePatch, "begin")

\* On to the next persona.
NextPersona(m) == [m EXCEPT !.idx = m.idx + 1]

current == kind[main.idx]

\* Mutant: a signal is only seen by the persona it interrupts.
LoopHeadDeaf ==
    /\ At("loop") /\ main.idx <= NAgents
    /\ main' = IF current \in {"dynamic", "adversarial"} THEN [main EXCEPT !.pc = "target"]
               ELSE IF current = "static" /\ ~ev.static THEN [main EXCEPT !.pc = "collect"]
               ELSE announce(main)
    /\ UNCHANGED <<rest, rep, ev, sig, hist>>

\* The head of the loop over the personas.
LoopHead ==
    /\ At("loop") /\ main.idx <= NAgents
    /\ \/ sig.on /\ Throw
       \/ /\ ~sig.on
          /\ main' = IF current \in {"dynamic", "adversarial"} THEN [main EXCEPT !.pc = "target"]
                     ELSE IF current = "static" /\ ~ev.static THEN [main EXCEPT !.pc = "collect"]
                     ELSE announce(main)
          /\ UNCHANGED rep
    /\ UNCHANGED <<rest, ev, sig, hist>>

\* The persona failed: recordAgent has it in the record already and patches the status.
PersonaFails == main' = PatchThen(NextPersona(main), ResultPatch(main.idx, "err"), "loop")

\* collectStaticEvidence, once; its failure costs the persona, not the run.
Collect ==
    /\ At("collect")
    /\ \/ ev' = [ev EXCEPT !.static = TRUE] /\ main' = announce(main)
       \/ PersonaFails /\ UNCHANGED ev
    /\ UNCHANGED <<rest, rep, sig, hist>>

\* ensureTarget, once, and whether the advertised surface is still to be scanned.  It
\* leaves text that surfaceSegments does not pick: the capabilities and the protocol
\* version of a handshake that succeeded, or initError, which quotes the server when
\* the server rejected the handshake.
EnsureTarget ==
    /\ At("target")
    /\ \E t \in IF ev.target = "new" THEN {"up", "down"} ELSE {ev.target},
          a \in IF ev.target = "new" THEN {"none", "raw"} ELSE {ev.aside} :
         LET scan == t = "up" /\ ev.surface = "none"
         IN  /\ t = "up" => a = "raw"
             /\ ev' = [ev EXCEPT !.target = t, !.surface = IF scan THEN "raw" ELSE @, !.aside = a]
             /\ main' = [main EXCEPT !.pc = IF scan THEN "scanSurface" ELSE "exercise"]
    /\ UNCHANGED <<rest, rep, sig, hist>>

\* runFuzz or runProbes on a live target: fresh evidence, or none from this attempt.
\* What there is goes to the scanner, except the methods of unsolicited requests, which
\* join what is aside already.
Exercise ==
    /\ At("exercise")
    /\ LET f == IF current = "dynamic" THEN "fuzz" ELSE "probes"
       IN  \E e \in IF ev.target = "up" THEN {"raw", ev[f]} ELSE {ev[f]} :
             /\ ev' = [ev EXCEPT ![f] = e]
             /\ main' = IF e = "none" THEN announce(main)
                        ELSE [main EXCEPT !.pc = IF f = "fuzz" THEN "scanFuzz" ELSE "scanProbes"]
    /\ UNCHANGED <<rest, rep, sig, hist>>

MaliciousPatch == [FailedPatch EXCEPT !.risk = "Malicious"]

Scanned(pc) == CASE pc = "scanSurface" -> "surface"
                 [] pc = "scanFuzz"    -> "fuzz"
                 [] pc = "scanProbes"  -> "probes"

AfterScan(m) == IF m.pc = "scanSurface" THEN [m EXCEPT !.pc = "exercise"] ELSE announce(m)

\* Mutant: an unreachable scanner never stops the evaluation.
scanOpen ==
    /\ \E pc \in {"scanSurface", "scanFuzz", "scanProbes"} : At(pc)
    /\ \/ /\ mode # "off" /\ ev' = [ev EXCEPT ![Scanned(main.pc)] = "clean"]
          /\ main' = AfterScan(main) /\ UNCHANGED <<rep, hist>>
       \/ /\ main' = AfterScan(main) /\ UNCHANGED <<rep, ev, hist>>
       \/ /\ mode = "strict"
          /\ rep' = [rep EXCEPT !.risk = "Malicious", !.score = FALSE]
          /\ main' = PatchThen(main, MaliciousPatch, "abort")
          /\ hist' = [hist EXCEPT !.mal = TRUE] /\ UNCHANGED ev
    /\ UNCHANGED <<rest, sig>>

\* scanUntrusted.  Clean; or a detection, or no answer: both stop a strict run and
\* are only recorded in monitor mode; or any other error, which stops both.
scanUntrusted ==
    /\ \E pc \in {"scanSurface", "scanFuzz", "scanProbes"} : At(pc)
    /\ \/ /\ mode # "off" /\ ev' = [ev EXCEPT ![Scanned(main.pc)] = "clean"]
          /\ main' = AfterScan(main) /\ UNCHANGED <<rep, hist>>
       \/ /\ mode # "strict" /\ main' = AfterScan(main) /\ UNCHANGED <<rep, ev, hist>>
       \/ /\ mode = "strict"
          /\ rep' = [rep EXCEPT !.risk = "Malicious", !.score = FALSE]
          /\ main' = PatchThen(main, MaliciousPatch, "abort")
          /\ hist' = [hist EXCEPT !.mal = TRUE] /\ UNCHANGED ev
       \/ mode # "off" /\ Throw /\ UNCHANGED <<ev, hist>>
    /\ UNCHANGED <<rest, sig>>

\* VigilInjectionError, after the verdict's patch.
Abort == At("abort") /\ Throw /\ UNCHANGED <<rest, ev, sig, hist>>

\* recordAgent: the persona starts, with a fresh AbortController.
Begin ==
    /\ At("begin")
    /\ rep' = [rep EXCEPT !.agents[main.idx] = "failed"]
    /\ main' = [main EXCEPT !.pc = "open"]
    /\ sig' = [sig EXCEPT !.after = IF sig.on THEN sig.after + 1 ELSE 0]
    /\ UNCHANGED <<rest, ev, hist>>

\* OpenCode starts with every tool denied; or it does not, or is aborted.
bootOpencode ==
    /\ At("open")
    /\ \/ main' = [main EXCEPT !.pc = "prompt"]
       \/ PersonaFails
    /\ UNCHANGED <<rest, rep, ev, sig, hist>>

\* Mutant: a synthesis persona advances the loop here and again when it is parsed.
AnswerAdvances ==
    /\ At("prompt")
    /\ \/ /\ rep' = [rep EXCEPT !.agents[main.idx] = "ok"]
          /\ main' = PatchThen(NextPersona(main), ResultPatch(main.idx, "ok"),
                               IF current = "synthesis" THEN "synth" ELSE "loop")
       \/ PersonaFails /\ UNCHANGED rep
    /\ UNCHANGED <<rest, ev, sig, hist>>

\* The persona answers, or fails, times out or is aborted; either is recorded.
Answer ==
    /\ At("prompt")
    /\ \/ /\ rep' = [rep EXCEPT !.agents[main.idx] = "ok"]
          /\ main' = IF current = "synthesis"
                     THEN PatchThen(main, ResultPatch(main.idx, "ok"), "synth")
                     ELSE PatchThen(NextPersona(main), ResultPatch(main.idx, "ok"), "loop")
       \/ PersonaFails /\ UNCHANGED rep
    /\ UNCHANGED <<rest, ev, sig, hist>>

\* parseSynthesis, of an answer with scores: a category that is none of the known
\* ones reads Unknown, and a score may be zero.
parseSynthesis == [risk : {"rated", "Unknown"}, score : BOOLEAN]

\* The synthesis persona's verdict; or its answer has no scores, which is only noted.
Synthesize ==
    /\ At("synth")
    /\ \/ \E v \in parseSynthesis :
             /\ rep' = [rep EXCEPT !.risk = v.risk, !.score = v.score]
             /\ main' = PatchThen(NextPersona(main), [NoBody EXCEPT !.risk = v.risk], "loop")
       \/ main' = [NextPersona(main) EXCEPT !.pc = "loop"] /\ UNCHANGED rep
    /\ UNCHANGED <<rest, ev, sig, hist>>

okAgents == {i \in Agents : rep.agents[i] = "ok"}

\* Mutant: a run in which every persona failed completes.
ScoreAnything ==
    /\ At("loop") /\ main.idx > NAgents
    /\ main' = [main EXCEPT !.pc = "complete"]
    /\ UNCHANGED <<rest, rep, ev, sig, hist>>

\* After the last persona: nothing usable, a score derived from the personas' own
\* when there is none, or straight on.
Score ==
    /\ At("loop") /\ main.idx > NAgents
    /\ \/ okAgents = {} /\ Throw
       \/ /\ okAgents # {} /\ rep.risk = "Unknown" /\ ~rep.score
          /\ \E s \in BOOLEAN : rep' = [rep EXCEPT !.score = s]
          /\ main' = PatchThen(main, [NoBody EXCEPT !.risk = "Unknown"], "complete")
       \/ okAgents # {} /\ main' = [main EXCEPT !.pc = "complete"] /\ UNCHANGED rep
    /\ UNCHANGED <<rest, ev, sig, hist>>

Complete ==
    /\ At("complete")
    /\ rep' = [rep EXCEPT !.phase = "Completed"]
    /\ main' = PatchThen(main, CompletedPatch, "finally")
    /\ UNCHANGED <<rest, ev, sig, hist>>

\* The client and the bridge are closed, the sentinel and the report file written.
Finally == /\ At("finally") /\ main' = [main EXCEPT !.pc = "flush"]
           /\ UNCHANGED <<rest, rep, ev, sig, hist>>

\* Mutant: no last attempt.
flushNever == /\ At("flush") /\ main' = [main EXCEPT !.pc = "persist"]
              /\ UNCHANGED <<rest, rep, ev, sig, hist>>

\* flushTerminalPatch: the patch that was given up, once more.
flushTerminalPatch ==
    /\ At("flush")
    /\ \/ pend = NoBody /\ UNCHANGED <<st, pend, hist>>
       \/ /\ pend # NoBody /\ st.live
          /\ st' = Apply(st, pend) /\ pend' = NoBody /\ UNCHANGED hist
       \/ /\ pend # NoBody /\ ~st.live /\ UNCHANGED <<st, pend, hist>>
       \/ /\ pend # NoBody /\ st.live /\ FaultIn(hist)
          /\ hist' = [Faulted(hist) EXCEPT !.lost = hist.lost + 1]
          /\ st' \in {st, Apply(st, pend)} /\ UNCHANGED pend
    /\ main' = [main EXCEPT !.pc = "persist"]
    /\ UNCHANGED <<suite, rep, ev, crash, sig, tm, cm, proc>>

\* persistReport (a report whose run is gone or cannot be read has no owner), then the
\* termination message from the report as it is by then.
Persist ==
    /\ At("persist")
    /\ \/ cm' = (IF st.live THEN "owned" ELSE "orphan") /\ UNCHANGED hist
       \/ FaultIn(hist) /\ hist' = Faulted(hist) /\ cm' \in {cm, "orphan"}
    /\ writeTerminationMessage(IF rep.phase = "Completed" THEN "Completed" ELSE "Failed", rep.risk)
    /\ main' = [main EXCEPT !.pc = "return"]
    /\ UNCHANGED <<suite, st, rep, ev, crash, sig, pend, proc>>

Return ==
    /\ At("return")
    /\ proc' = IF main.code = 0 THEN "exit0" ELSE "exit1"
    /\ UNCHANGED <<suite, st, rep, ev, main, crash, sig, pend, tm, cm, hist>>

Main == \/ Boot \/ MainPatch \/ FetchCRs \/ LoopHead \/ Collect \/ EnsureTarget
        \/ Exercise \/ scanUntrusted \/ Abort \/ Begin \/ bootOpencode \/ Answer \/ Synthesize
        \/ Score \/ Complete \/ Finally \/ flushTerminalPatch \/ Persist \/ Return

-----------------------------------------------------------------------------
(***************************************************************************)
(* The handlers, and the user                                              *)
(***************************************************************************)

\* onSignal.  Its abort makes a persona that is being prompted fail, unless the answer
\* is in already: both are outcomes of Answer.
Signal ==
    /\ proc = "up" /\ main.pc # "boot" /\ ~sig.on
    /\ sig' = [sig EXCEPT !.on = TRUE]
    /\ UNCHANGED <<suite, st, rep, ev, main, crash, pend, tm, cm, proc, hist>>

\* fatalCrash: report and message say Failed, the patch is sent; main goes on
\* meanwhile.
Crash ==
    /\ proc = "up" /\ main.pc # "boot" /\ crash = "no" /\ FaultIn(hist)
    /\ crash' = "patch"
    /\ hist' = Faulted(hist)
    /\ rep' = [rep EXCEPT !.phase = "Failed"]
    /\ writeTerminationMessage("Failed", rep.risk)
    /\ UNCHANGED <<suite, st, ev, main, sig, pend, cm, proc>>

CrashPatch ==
    /\ proc = "up" /\ crash = "patch"
    /\ patchStatus(FailedPatch)
    /\ crash' = "exit"
    /\ UNCHANGED <<suite, rep, ev, main, sig, tm, cm, proc>>

\* After the patch, or after eight seconds without it.
CrashExit ==
    /\ proc = "up" /\ crash # "no"
    /\ proc' = "exit1"
    /\ UNCHANGED <<suite, st, rep, ev, main, crash, sig, pend, tm, cm, hist>>

DeleteRun ==
    /\ proc = "up" /\ st.live /\ FaultIn(hist)
    /\ st' = [st EXCEPT !.live = FALSE]
    /\ hist' = Faulted(hist)
    /\ UNCHANGED <<suite, rep, ev, main, crash, sig, pend, tm, cm, proc>>

Next == Main \/ Signal \/ Crash \/ CrashPatch \/ CrashExit \/ DeleteRun

Spec == Init /\ [][Next]_vars

\* Every await of main ends: calls have timeouts, patches and fetches bounded
\* retries, personas and targets deadlines.  Nothing is assumed of signals, errors
\* or deletions.
FairSpec == Spec /\ WF_vars(Main)

-----------------------------------------------------------------------------
(***************************************************************************)
(* Properties                                                              *)
(***************************************************************************)
MainPcs == {"boot", "patch", "fetch", "loop", "collect", "target", "scanSurface",
            "exercise", "scanFuzz", "scanProbes", "abort", "begin", "open", "prompt", "synth",
            "complete", "finally", "flush", "persist", "return"}

\* Every variable holds a value of its kind; the loop ends with the last persona.
TypeOK ==
    /\ kind \in [Agents -> Kinds] /\ mode \in {"off", "strict", "monitor"}
    /\ st \in [live : BOOLEAN, phase : {"", "Running", "Evaluating", "Completed", "Failed"},
               agent : BOOLEAN, res : [Agents -> {"-", "ok", "err"}],
               risk : {"-", "Unknown", "rated", "Malicious"}]
    /\ rep \in [phase : {"Running", "Completed", "Failed"},
                risk : {"Unknown", "rated", "Malicious"}, score : BOOLEAN,
                agents : [Agents -> {"none", "failed", "ok"}]]
    /\ ev \in [static : BOOLEAN, target : {"new", "up", "down"},
               surface : {"none", "raw", "clean"}, fuzz : {"none", "raw", "clean"},
               probes : {"none", "raw", "clean"}, aside : {"none", "raw"}]
    /\ main \in [pc : MainPcs, then : MainPcs \union {"-"}, body : Body,
                 idx : 1..(NAgents + 1), code : {0, 1}]
    /\ crash \in {"no", "patch", "exit"}
    /\ sig \in [on : BOOLEAN, after : 0..NAgents]
    /\ pend \in Body
    /\ tm \in [phase : {"none", "Completed", "Failed"}, risk : {"Unknown", "rated", "Malicious"}]
    /\ proc \in {"up", "exit0", "exit1"}
    /\ hist \in [faults : 0..MaxFaults, lost : 0..MaxFaults, mal : BOOLEAN]
    /\ cm \in {"none", "owned", "orphan"}

\* Fail closed, for what the gates are given: with VIGIL_ENFORCE=strict no persona is
\* prompted while there is an advertised surface or a fuzz or probe response that Vigil
\* has not cleared, in whatever order the personas come and however often responses are
\* collected again.  (Not all text of the target goes to a gate: see PayloadsScanned.)
GatedTextCleared ==
    mode = "strict" /\ main.pc = "prompt" => \A f \in {"surface", "fuzz", "probes"} : ev[f] # "raw"

\* SIGTERM is seen at the head of the loop: the persona whose preparation it hit may
\* still start, but none after it.
OneAfterSignal == sig.after <= 1

\* A run that reads Completed has a persona that succeeded, and its status accounts
\* for every persona unless a patch was given up (degraded continuation).
CompletedIsUsable ==
    st.phase = "Completed" => /\ okAgents # {}
                              /\ hist.lost = 0 => \A i \in Agents : st.res[i] # "-"

\* A process that ends by itself leaves the status, the termination message and the
\* exit code in agreement although one patch was given up, wherever it was: the flush
\* at the end makes up for a terminal one.
ExitTellsStatus ==
    proc \in {"exit0", "exit1"} /\ main.pc = "return" /\ crash = "no" =>
        /\ (proc = "exit0") = (tm.phase = "Completed")
        /\ st.live /\ hist.lost <= 1 => st.phase = tm.phase

\* Vigil's Malicious verdict, once stored, is final: neither main's catch, nor
\* fatalCrash, nor a flush takes it back or turns the run Completed.
MaliciousSticks ==
    [][st.risk = "Malicious" => st'.risk = "Malicious" /\ st'.phase = "Failed"]_st

\* The process ends, whatever fails and although patches are retried.
ProcessEnds == <>(proc # "up")

\* The text of the target that buildDynamicMessage, buildAdversarialMessage,
\* buildSynthesisMessage and buildGenericMessage put into the prompt of a persona of kind
\* k; the telemetry has the protocol version.
Formatted(k) ==
    LET telemetry == IF ev.target = "up" THEN {"aside"} ELSE {}
    IN  CASE k = "static" -> {}
          [] k = "dynamic" -> {"aside", "surface", "fuzz"}
          [] k = "adversarial" -> {"surface", "probes"} \cup telemetry
          [] OTHER -> telemetry

\* "The evaluator POSTs every untrusted MCP payload ... to the Vigil REST API BEFORE the
\* content is formatted into any LLM prompt" (vigil.ts:4): in strict mode a prompt has no
\* text of the target that Vigil has not cleared.
PayloadsScanned ==
    mode = "strict" /\ main.pc = "prompt" => \A f \in Formatted(current) : ev[f] # "raw"

\* "if even those are exhausted the patch is remembered and re-attempted by
\* flushTerminalPatch() from the shutdown path" (k8s.ts:227): a Malicious verdict whose
\* patch was given up is in the status when the process ends, if that was the only one.
VerdictSurvivesOutage ==
    proc = "exit1" /\ main.pc = "return" /\ crash = "no" /\ st.live /\ hist.lost <= 1
        => (hist.mal => st.risk = "Malicious")
=============================================================================
