-------------------------- MODULE Evaluator_proofs --------------------------
(***************************************************************************)
(* Proofs about Evaluator, for every number of personas, every suite, and  *)
(* any number of failed calls, stray errors and deletions.                 *)
(***************************************************************************)
EXTENDS Evaluator, TLAPS

\* Where main is, or will be once the patch it awaits has ended.
Place == IF main.pc = "patch" THEN main.then ELSE main.pc

\* A persona's evidence is being prepared; a persona is current; main is done.
Preparing == {"boot", "fetch", "collect", "target", "scanSurface", "exercise", "scanFuzz",
              "scanProbes", "begin"}
Working   == (Preparing \ {"boot", "fetch"}) \union {"open", "prompt", "synth"}
Closing   == {"finally", "flush", "persist", "return"}

\* Both of main's ways out: the last patch, and what the report says.
Succeeds == Place \in Closing /\ main.code = 0
Fails    == Place \in Closing /\ main.code = 1

RiskPatch(r) == [NoBody EXCEPT !.risk = r]

\* The patches main awaits, and where it goes from each.
Sent(m) ==
    \/ m.then = "fetch" /\ m.body = RunningPatch
    \/ m.then = "begin" /\ m.body = AnnouncePatch
    \/ m.then = "synth" /\ m.body = ResultPatch(m.idx, "ok")
    \/ m.then = "loop" /\ m.idx > 1 /\ \E r \in {"ok", "err"} : m.body = ResultPatch(m.idx - 1, r)
    \/ m.then = "loop" /\ \E r \in {"rated", "Unknown"} : m.body = RiskPatch(r)
    \/ m.then = "abort" /\ m.body = MaliciousPatch
    \/ m.then = "complete" /\ m.body = RiskPatch("Unknown")
    \/ m.then = "finally" /\ m.code = 0 /\ m.body = CompletedPatch
    \/ m.then = "finally" /\ m.code = 1 /\ m.body = FailedPatch

Shape == /\ main.pc = "patch" => Sent(main)
         /\ main.pc # "patch" => main.body = NoBody

\* The loop over the personas, and the bound on the faults.
Bounds == /\ Place \in Working => main.idx <= NAgents
          /\ Place = "complete" \/ Succeeds => main.idx = NAgents + 1
          /\ main.code = 1 => Place \in Closing
          /\ hist.faults + hist.lost <= MaxFaults

\* In strict mode, gated text that is not cleared is being scanned or ends the run.
ScanInv ==
    mode = "strict" =>
        /\ ev.surface = "raw" => Place \in {"scanSurface", "abort"} \union Closing
        /\ ev.fuzz = "raw"    => Place \in {"scanFuzz", "abort"} \union Closing
        /\ ev.probes = "raw"  => Place \in {"scanProbes", "abort"} \union Closing

\* After the persona that a signal let through, none is prepared.
SignalInv == /\ sig.after \in {0, 1}
             /\ sig.after = 1 => sig.on /\ Place \notin Preparing

\* What can be remembered for the flush.
PendInv == /\ pend \in {NoBody, FailedPatch, MaliciousPatch, CompletedPatch}
           /\ pend # NoBody => hist.lost > 0
           /\ pend = CompletedPatch => Succeeds
           /\ pend = FailedPatch => crash # "no" \/ Fails
           /\ pend = MaliciousPatch => hist.mal

\* A verdict of Vigil: main is on its way out, and the status can only stay Failed.
VerdictInv == /\ hist.mal => Place = "abort" \/ Fails
              /\ Place = "abort" => hist.mal
              /\ st.risk = "Malicious" => hist.mal /\ st.phase = "Failed"

\* What is in the status while no patch was given up.
Landed(i) == st.res[i] # "-"
UsableInv ==
    /\ Place = "complete" \/ Succeeds => okAgents # {}
    /\ st.phase = "Completed" => Succeeds
    /\ hist.lost = 0 /\ st.live =>
         \A i \in Agents : i < main.idx => Landed(i) \/ (main.pc = "patch" /\ main.body.who = i)
    /\ hist.lost = 0 /\ st.live /\ main.pc = "synth" => Landed(main.idx)
    /\ hist.lost = 0 /\ st.phase = "Completed" => \A i \in Agents : Landed(i)

\* What the report, the status and the message say while no stray error interferes.
OutcomeInv ==
    crash = "no" =>
        /\ Succeeds => rep.phase = "Completed"
        /\ Fails => rep.phase = "Failed"
        /\ main.pc = "return" => tm.phase = rep.phase
        /\ st.live /\ hist.lost <= 1 =>
             /\ main.pc \in {"finally", "flush"} /\ pend = NoBody => st.phase = rep.phase
             /\ main.pc \in {"persist", "return"} => st.phase = rep.phase
        /\ main.pc = "return" => proc \in {"up", IF main.code = 0 THEN "exit0" ELSE "exit1"}

-----------------------------------------------------------------------------
(***************************************************************************)
(* What the operators of the model return                                  *)
(***************************************************************************)
Statuses == [live : BOOLEAN, phase : {"", "Running", "Evaluating", "Completed", "Failed"},
             agent : BOOLEAN, res : [Agents -> {"-", "ok", "err"}],
             risk : {"-", "Unknown", "rated", "Malicious"}]
Mains    == [pc : MainPcs, then : MainPcs \union {"-"}, body : Body, idx : 1..(NAgents + 1),
             code : {0, 1}]
Hists    == [faults : 0..MaxFaults, lost : 0..MaxFaults, mal : BOOLEAN]

\* The bodies of the patches, field by field.
LEMMA BodyFields ==
    /\ NoBody \in Body /\ NoBody.phase = "-" /\ NoBody.who = 0 /\ NoBody.risk = "-"
    /\ RunningPatch \in Body /\ RunningPatch.phase = "Running" /\ RunningPatch.who = 0
       /\ RunningPatch.risk = "-"
    /\ AnnouncePatch \in Body /\ AnnouncePatch.phase = "Evaluating" /\ AnnouncePatch.who = 0
       /\ AnnouncePatch.risk = "-"
    /\ FailedPatch \in Body /\ FailedPatch.phase = "Failed" /\ FailedPatch.who = 0
       /\ FailedPatch.risk = "-"
    /\ CompletedPatch \in Body /\ CompletedPatch.phase = "Completed" /\ CompletedPatch.who = 0
       /\ CompletedPatch.risk = "-"
    /\ MaliciousPatch \in Body /\ MaliciousPatch.phase = "Failed" /\ MaliciousPatch.who = 0
       /\ MaliciousPatch.risk = "Malicious"
<1>1. 0 \in 0..NAgents
  BY EvaluatorAssumption
<1>2. NoBody \in Body /\ NoBody.phase = "-" /\ NoBody.who = 0 /\ NoBody.risk = "-"
  BY <1>1 DEF Body, NoBody
<1>3. /\ RunningPatch \in Body /\ RunningPatch.phase = "Running" /\ RunningPatch.who = 0
      /\ RunningPatch.risk = "-"
  BY <1>2 DEF Body, RunningPatch
<1>4. /\ AnnouncePatch \in Body /\ AnnouncePatch.phase = "Evaluating" /\ AnnouncePatch.who = 0
      /\ AnnouncePatch.risk = "-"
  BY <1>2 DEF Body, AnnouncePatch
<1>5. /\ FailedPatch \in Body /\ FailedPatch.phase = "Failed" /\ FailedPatch.who = 0
      /\ FailedPatch.risk = "-"
  BY <1>2 DEF Body, FailedPatch
<1>6. /\ CompletedPatch \in Body /\ CompletedPatch.phase = "Completed" /\ CompletedPatch.who = 0
      /\ CompletedPatch.risk = "-"
  BY <1>2 DEF Body, CompletedPatch
<1>7. /\ MaliciousPatch \in Body /\ MaliciousPatch.phase = "Failed" /\ MaliciousPatch.who = 0
      /\ MaliciousPatch.risk = "Malicious"
  BY <1>5 DEF Body, MaliciousPatch
<1> QED BY <1>2, <1>3, <1>4, <1>5, <1>6, <1>7

\* The patch of one persona's result.
LEMMA ResultFields ==
    ASSUME NEW i \in 1..NAgents, NEW r \in {"ok", "err"}
    PROVE  /\ ResultPatch(i, r) \in Body /\ ResultPatch(i, r).phase = "-"
           /\ ResultPatch(i, r).who = i /\ ResultPatch(i, r).what = r
           /\ ResultPatch(i, r).risk = "-"
<1>1. i \in 0..NAgents
  BY EvaluatorAssumption
<1> QED BY <1>1, BodyFields DEF Body, ResultPatch

\* The patch of a scoring block.
LEMMA RiskFields ==
    ASSUME NEW r \in {"rated", "Unknown"}
    PROVE  /\ RiskPatch(r) \in Body /\ RiskPatch(r).phase = "-" /\ RiskPatch(r).who = 0
           /\ RiskPatch(r).risk = r
BY BodyFields DEF Body, RiskPatch

\* A patch that lands sets the fields it names and leaves the others.
LEMMA ApplyFields ==
    ASSUME NEW s \in Statuses, NEW b \in Body
    PROVE  /\ Apply(s, b) \in Statuses
           /\ Apply(s, b).live = s.live
           /\ Apply(s, b).phase = IF b.phase = "-" THEN s.phase ELSE b.phase
           /\ Apply(s, b).risk = IF b.risk = "-" THEN s.risk ELSE b.risk
           /\ \A i \in Agents : Apply(s, b).res[i] = IF i = b.who THEN b.what ELSE s.res[i]
<1> DEFINE p == IF b.phase = "-" THEN s.phase ELSE b.phase
           a == IF b.agent = "-" THEN s.agent ELSE b.agent = "set"
           r == [i \in Agents |-> IF i = b.who THEN b.what ELSE s.res[i]]
           k == IF b.risk = "-" THEN s.risk ELSE b.risk
<1>1. p \in {"", "Running", "Evaluating", "Completed", "Failed"}
  BY DEF Statuses, Body
<1>2. a \in BOOLEAN
  BY DEF Statuses, Body
<1>3. /\ r \in [Agents -> {"-", "ok", "err"}]
      /\ \A i \in Agents : r[i] = IF i = b.who THEN b.what ELSE s.res[i]
  BY DEF Statuses, Body
<1>4. k \in {"-", "Unknown", "rated", "Malicious"}
  BY DEF Statuses, Body
<1>5. Apply(s, b) = [s EXCEPT !.phase = p, !.agent = a, !.res = r, !.risk = k]
  BY DEF Apply
<1>6. Apply(s, b).live = s.live /\ Apply(s, b).phase = p /\ Apply(s, b).risk = k
      /\ Apply(s, b).res = r
  <2> HIDE DEF p, a, r, k
  <2> QED BY <1>5 DEF Statuses
<1>7. Apply(s, b) \in Statuses
  <2> HIDE DEF p, a, r, k
  <2> QED BY <1>1, <1>2, <1>3, <1>4, <1>5 DEF Statuses
<1> QED BY <1>3, <1>6, <1>7

\* main goes to await a patch.
LEMMA PatchThenFields ==
    ASSUME NEW m \in Mains, NEW b \in Body, NEW pc \in MainPcs
    PROVE  /\ PatchThen(m, b, pc) \in Mains
           /\ PatchThen(m, b, pc).pc = "patch" /\ PatchThen(m, b, pc).then = pc
           /\ PatchThen(m, b, pc).body = b /\ PatchThen(m, b, pc).idx = m.idx
           /\ PatchThen(m, b, pc).code = m.code
BY DEF PatchThen, Mains, MainPcs

\* main goes somewhere, without a patch.
LEMMA GotoFields ==
    ASSUME NEW m \in Mains, NEW pc \in MainPcs
    PROVE  /\ [m EXCEPT !.pc = pc] \in Mains
           /\ [m EXCEPT !.pc = pc].pc = pc /\ [m EXCEPT !.pc = pc].then = m.then
           /\ [m EXCEPT !.pc = pc].body = m.body /\ [m EXCEPT !.pc = pc].idx = m.idx
           /\ [m EXCEPT !.pc = pc].code = m.code
BY DEF Mains

\* On to the next persona.
LEMMA NextPersonaFields ==
    ASSUME NEW m \in Mains, m.idx <= NAgents
    PROVE  /\ NextPersona(m) \in Mains /\ NextPersona(m).idx = m.idx + 1
           /\ NextPersona(m).pc = m.pc /\ NextPersona(m).then = m.then
           /\ NextPersona(m).body = m.body /\ NextPersona(m).code = m.code
BY EvaluatorAssumption DEF Mains, NextPersona

\* A fault is spent.
LEMMA FaultedFields ==
    ASSUME NEW h \in Hists, FaultIn(h), h.faults + h.lost <= MaxFaults
    PROVE  /\ Faulted(h) \in Hists /\ Faulted(h).mal = h.mal /\ Faulted(h).lost = h.lost
           /\ Faulted(h).faults + Faulted(h).lost <= MaxFaults
           /\ [Faulted(h) EXCEPT !.lost = h.lost + 1] \in Hists
           /\ [Faulted(h) EXCEPT !.lost = h.lost + 1].mal = h.mal
           /\ [Faulted(h) EXCEPT !.lost = h.lost + 1].lost = h.lost + 1
           /\ [Faulted(h) EXCEPT !.lost = h.lost + 1].faults
                 + [Faulted(h) EXCEPT !.lost = h.lost + 1].lost <= MaxFaults
<1> DEFINE g == Faulted(h)
           f == h.faults - 1
           l == h.lost + 1
<1>1. f \in 0..MaxFaults /\ l \in 0..MaxFaults /\ f + h.lost <= MaxFaults /\ f + l <= MaxFaults
  BY EvaluatorAssumption DEF Hists, FaultIn
<1>2. g = [h EXCEPT !.faults = f]
  BY DEF Faulted
<1> HIDE DEF f, l
<1>3. g \in Hists /\ g.faults = f /\ g.lost = h.lost /\ g.mal = h.mal
  BY <1>1, <1>2 DEF Hists
<1> HIDE DEF g
<1>4. /\ [g EXCEPT !.lost = l] \in Hists /\ [g EXCEPT !.lost = l].faults = f
      /\ [g EXCEPT !.lost = l].lost = l /\ [g EXCEPT !.lost = l].mal = h.mal
  BY <1>1, <1>3 DEF Hists
<1> QED BY <1>1, <1>3, <1>4 DEF g, l

Reports  == [phase : {"Running", "Completed", "Failed"}, risk : {"Unknown", "rated", "Malicious"},
             score : BOOLEAN, agents : [Agents -> {"none", "failed", "ok"}]]
Evidence == [static : BOOLEAN, target : {"new", "up", "down"}, surface : {"none", "raw", "clean"},
             fuzz : {"none", "raw", "clean"}, probes : {"none", "raw", "clean"}, aside : {"none", "raw"}]
Messages == [phase : {"none", "Completed", "Failed"}, risk : {"Unknown", "rated", "Malicious"}]

\* The type invariant with the sets named.
Typed == /\ kind \in [Agents -> Kinds] /\ mode \in {"off", "strict", "monitor"}
         /\ st \in Statuses /\ rep \in Reports /\ ev \in Evidence /\ main \in Mains
         /\ crash \in {"no", "patch", "exit"} /\ sig \in [on : BOOLEAN, after : 0..NAgents]
         /\ pend \in Body /\ tm \in Messages /\ proc \in {"up", "exit0", "exit1"}
         /\ hist \in Hists /\ cm \in {"none", "owned", "orphan"}

\* The invariant apart from the type invariant.
Facts == Shape /\ Bounds /\ ScanInv /\ SignalInv /\ PendInv /\ VerdictInv /\ UsableInv /\ OutcomeInv

\* The named sets are those of TypeOK.
LEMMA TypedIsTypeOK == TypeOK <=> Typed
BY DEF TypeOK, Typed, Statuses, Reports, Evidence, Mains, Messages, Hists

-----------------------------------------------------------------------------
(***************************************************************************)
(* Steps of main that leave the status alone                               *)
(***************************************************************************)

\* Where main is when it awaits no patch.
LEMMA HereFields ==
    ASSUME Typed, Facts, NEW pc \in MainPcs \ {"patch"}, At(pc)
    PROVE  /\ Place = pc /\ main \in Mains /\ main.pc = pc /\ main.body = NoBody /\ proc = "up"
           /\ pc \notin Closing => main.code = 0
           /\ pc \in Working => main.idx \in Agents
           /\ main.idx \in 1..(NAgents + 1)
BY EvaluatorAssumption DEF At, Place, Typed, Facts, Bounds, Shape, Mains, Agents

\* evaluate() throws: whatever it was doing, main's catch leads to its failure.
LEMMA ThrowStep ==
    ASSUME Typed, Facts, Throw, UNCHANGED <<rest, ev, sig>>,
           main.pc \in MainPcs \ (Closing \union {"patch"}), proc = "up",
           hist' \in Hists, hist'.mal = hist.mal, hist'.lost = hist.lost,
           hist'.faults + hist'.lost <= MaxFaults
    PROVE  Typed' /\ Facts'
<1>1. /\ Place = main.pc /\ main \in Mains /\ main.body = NoBody /\ main.code = 0
      /\ Place \notin Closing /\ main.pc # "patch"
  BY HereFields DEF At
<1>2. "finally" \in MainPcs /\ FailedPatch \in Body
  BY BodyFields DEF MainPcs
<1> DEFINE m == [main EXCEPT !.code = 1]
<1>3. m \in Mains /\ m.idx = main.idx /\ m.code = 1 /\ main' = PatchThen(m, FailedPatch, "finally")
  BY <1>1 DEF Mains, Throw
<1> HIDE DEF m
<1>4. /\ main' \in Mains /\ main'.pc = "patch" /\ main'.then = "finally"
      /\ main'.body = FailedPatch /\ main'.idx = main.idx /\ main'.code = 1
  BY <1>2, <1>3, PatchThenFields
<1>5. rep' \in Reports /\ rep'.phase = "Failed"
  BY DEF Throw, Typed, Reports
<1>6. UNCHANGED <<kind, mode, st, crash, pend, tm, cm, proc, ev, sig>>
  BY DEF rest, suite
<1>7. Place' = "finally" /\ Fails' /\ ~Succeeds'
  BY <1>4 DEF Place, Fails, Succeeds, Closing
<1>8. Typed'
  BY <1>4, <1>5, <1>6 DEF Typed
<1>9. Shape' /\ Bounds'
  BY <1>4, <1>7 DEF Shape, Sent, Bounds, Working, Preparing, Closing
<1>10. ScanInv' /\ SignalInv'
  BY <1>6, <1>7 DEF Facts, ScanInv, SignalInv, Closing, Preparing
<1>11. PendInv' /\ VerdictInv'
  BY <1>1, <1>6, <1>7 DEF Facts, PendInv, VerdictInv, Succeeds
<1>12. UsableInv'
  BY <1>1, <1>4, <1>6, <1>7 DEF Facts, UsableInv, Succeeds, Landed
<1>13. OutcomeInv'
  BY <1>4, <1>5, <1>6, <1>7 DEF OutcomeInv
<1> QED BY <1>8, <1>9, <1>10, <1>11, <1>12, <1>13 DEF Facts

\* main goes on with its work: nothing that is said of its end changes.
LEMMA WorkStep ==
    ASSUME Typed, Facts, UNCHANGED <<rest, hist>>, proc = "up",
           main.pc \in MainPcs \ (Closing \union {"patch", "abort"}),
           main' \in Mains, rep' \in Reports, ev' \in Evidence,
           sig' \in [on : BOOLEAN, after : 0..NAgents],
           main'.code = main.code, Place' \notin Closing \union {"abort", "complete"},
           main'.pc # "synth",
           \A i \in Agents : i < main'.idx => \/ i < main.idx
                                              \/ main'.pc = "patch" /\ main'.body.who = i
                                              \/ main.pc = "synth" /\ i = main.idx
    PROVE  Typed' /\ PendInv' /\ VerdictInv' /\ UsableInv' /\ OutcomeInv'
<1>1. /\ Place = main.pc /\ main.code = 0 /\ Place \notin Closing /\ Place # "abort"
      /\ main.pc # "patch" /\ ~Succeeds /\ ~Fails /\ ~Succeeds' /\ ~Fails'
  BY HereFields DEF At, Succeeds, Fails
<1>2. UNCHANGED <<kind, mode, st, crash, pend, tm, cm, proc, hist>>
  BY DEF rest, suite
<1>3. Typed'
  BY <1>2 DEF Typed
<1>4. PendInv' /\ VerdictInv'
  BY <1>1, <1>2 DEF Facts, PendInv, VerdictInv
<1>5. UsableInv'
  BY <1>1, <1>2 DEF Facts, UsableInv, Landed
<1>6. OutcomeInv'
  <2>1. main'.pc \notin Closing
    BY DEF Place, Closing
  <2> QED BY <1>1, <1>2, <2>1 DEF OutcomeInv, Closing
<1> QED BY <1>3, <1>4, <1>5, <1>6

\* Going to announce a persona.
LEMMA AnnounceFields ==
    ASSUME NEW m \in Mains
    PROVE  /\ announce(m) \in Mains /\ announce(m).pc = "patch" /\ announce(m).then = "begin"
           /\ announce(m).body = AnnouncePatch /\ announce(m).idx = m.idx
           /\ announce(m).code = m.code
<1>1. "begin" \in MainPcs
  BY DEF MainPcs
<1> QED BY <1>1, BodyFields, PatchThenFields DEF announce

\* The result of a persona is patched, and the loop goes on with the next one.
LEMMA ResultStep ==
    ASSUME Typed, Facts, NEW pc \in {"collect", "open", "prompt"}, At(pc), NEW r \in {"ok", "err"},
           main' = PatchThen(NextPersona(main), ResultPatch(main.idx, r), "loop"),
           rep' \in Reports, UNCHANGED <<rest, ev, sig, hist>>
    PROVE  Typed' /\ Facts'
<1>1. /\ pc \in MainPcs \ (Closing \union {"patch", "abort"})
      /\ pc \in Working /\ "loop" \in MainPcs
  BY DEF MainPcs, Closing, Working, Preparing
<1>2. /\ Place = pc /\ main \in Mains /\ main.pc = pc /\ proc = "up" /\ main.code = 0
      /\ main.idx \in 1..NAgents /\ main.idx <= NAgents
  BY <1>1, HereFields, EvaluatorAssumption DEF Agents
<1>3. ResultPatch(main.idx, r) \in Body /\ ResultPatch(main.idx, r).who = main.idx
  BY <1>2, ResultFields
<1>4. NextPersona(main) \in Mains /\ NextPersona(main).idx = main.idx + 1
      /\ NextPersona(main).code = main.code
  BY <1>2, NextPersonaFields
<1>5. /\ main' \in Mains /\ main'.pc = "patch" /\ main'.then = "loop"
      /\ main'.body = ResultPatch(main.idx, r) /\ main'.body.who = main.idx
      /\ main'.idx = main.idx + 1 /\ main'.code = main.code
  BY <1>1, <1>3, <1>4, PatchThenFields
<1>6. Place' = "loop"
  BY <1>5 DEF Place
<1>7. ev' \in Evidence /\ sig' \in [on : BOOLEAN, after : 0..NAgents]
  BY DEF Typed
<1>8. /\ Place' \notin Closing \union {"abort", "complete"} /\ main'.pc # "synth"
      /\ \A i \in Agents : i < main'.idx => i < main.idx \/ (main'.pc = "patch" /\ main'.body.who = i)
  BY <1>2, <1>5, <1>6 DEF Closing, Agents
<1>9. Typed' /\ PendInv' /\ VerdictInv' /\ UsableInv' /\ OutcomeInv'
  BY <1>1, <1>2, <1>5, <1>7, <1>8, WorkStep
<1>10. Shape'
  BY <1>2, <1>5 DEF Shape, Sent
<1>11. Bounds' /\ ScanInv' /\ SignalInv'
  BY <1>1, <1>2, <1>5, <1>6 DEF Facts, Bounds, ScanInv, SignalInv, Working, Preparing, Closing,
       Succeeds, rest, suite
<1> QED BY <1>9, <1>10, <1>11 DEF Facts

\* A persona that fails: its record says so already.
LEMMA PersonaFailsStep ==
    ASSUME Typed, Facts, NEW pc \in {"collect", "open", "prompt"}, At(pc), PersonaFails,
           UNCHANGED <<rest, rep, ev, sig, hist>>
    PROVE  Typed' /\ Facts'
<1>1. rep' \in Reports
  BY DEF Typed
<1> QED BY <1>1, ResultStep DEF PersonaFails

\* main goes from one place of the loop to another, with the same persona.
LEMMA SamePersonaStep ==
    ASSUME Typed, Facts, UNCHANGED <<rest, hist>>, proc = "up",
           main.pc \in MainPcs \ (Closing \union {"patch", "abort", "complete"}),
           main' \in Mains, rep' \in Reports, ev' \in Evidence,
           sig' \in [on : BOOLEAN, after : 0..NAgents],
           main'.code = main.code, main'.idx = main.idx,
           Place' \in Working \union {"loop"}, main'.pc # "synth",
           Place' \in Working => main.idx <= NAgents,
           main'.pc = "patch" => Sent(main'), main'.pc # "patch" => main'.body = NoBody,
           ScanInv', SignalInv'
    PROVE  Typed' /\ Facts'
<1>1. main.code = 0
  BY HereFields DEF At
<1>2. Place' \notin Closing \union {"abort", "complete"}
  BY DEF Working, Preparing, Closing
<1>3. Typed' /\ PendInv' /\ VerdictInv' /\ UsableInv' /\ OutcomeInv'
  BY <1>2, WorkStep
<1>4. Shape' /\ Bounds'
  BY <1>1, <1>2 DEF Shape, Facts, Bounds, Succeeds
<1> QED BY <1>3, <1>4 DEF Facts

\* The CRs are fetched, or evaluate() throws.
LEMMA FetchStep ==
    ASSUME Typed, Facts, FetchCRs
    PROVE  Typed' /\ Facts'
<1>1. {"fetch", "loop"} \subseteq MainPcs \ (Closing \union {"patch", "abort", "complete"})
  BY DEF MainPcs, Closing
<1>2. /\ Place = "fetch" /\ main \in Mains /\ main.pc = "fetch" /\ proc = "up" /\ main.code = 0
      /\ main.body = NoBody /\ UNCHANGED <<rest, ev, sig>>
  BY <1>1, HereFields DEF FetchCRs
<1>3. CASE main' = [main EXCEPT !.pc = "loop"] /\ UNCHANGED <<rep, hist>>
  <2>1. /\ main' \in Mains /\ main'.pc = "loop" /\ main'.body = NoBody /\ main'.idx = main.idx
        /\ main'.code = main.code
    BY <1>1, <1>2, <1>3, GotoFields
  <2>2. Place' = "loop"
    BY <2>1 DEF Place
  <2>3. rep' \in Reports /\ ev' \in Evidence /\ sig' \in [on : BOOLEAN, after : 0..NAgents]
    BY <1>2, <1>3 DEF Typed
  <2>4. ScanInv' /\ SignalInv'
    BY <1>2, <2>2 DEF Facts, ScanInv, SignalInv, Closing, Preparing, rest, suite
  <2>5. Place' \notin Working
    BY <2>2 DEF Working, Preparing
  <2> QED BY <1>1, <1>2, <1>3, <2>1, <2>2, <2>3, <2>4, <2>5, SamePersonaStep
<1>4. CASE FaultIn(hist) /\ hist' = Faulted(hist) /\ Throw
  BY <1>1, <1>2, <1>4, FaultedFields, ThrowStep DEF Typed, Facts, Bounds
<1> QED BY <1>3, <1>4 DEF FetchCRs, getWithRetry

\* The head of the loop: a signal that came since is seen.
LEMMA LoopHeadStep ==
    ASSUME Typed, Facts, LoopHead
    PROVE  Typed' /\ Facts'
<1>1. {"loop", "target", "collect"} \subseteq MainPcs \ (Closing \union {"patch", "abort", "complete"})
  BY DEF MainPcs, Closing
<1>2. /\ Place = "loop" /\ main \in Mains /\ main.pc = "loop" /\ proc = "up" /\ main.code = 0
      /\ main.body = NoBody /\ main.idx <= NAgents /\ UNCHANGED <<rest, ev, sig, hist>>
  BY <1>1, HereFields DEF LoopHead
<1>3. CASE sig.on /\ Throw
  BY <1>1, <1>2, <1>3, ThrowStep DEF Typed, Facts, Bounds
<1>4. CASE ~sig.on /\ UNCHANGED rep
           /\ main' = IF current \in {"dynamic", "adversarial"} THEN [main EXCEPT !.pc = "target"]
                      ELSE IF current = "static" /\ ~ev.static THEN [main EXCEPT !.pc = "collect"]
                      ELSE announce(main)
  <2>1. /\ main' \in Mains /\ main'.idx = main.idx /\ main'.code = main.code
        /\ \/ main'.pc \in {"target", "collect"} /\ main'.body = NoBody
           \/ main'.pc = "patch" /\ main'.then = "begin" /\ main'.body = AnnouncePatch
    BY <1>1, <1>2, <1>4, GotoFields, AnnounceFields
  <2>2. Place' \in {"target", "collect", "begin"} /\ Place' \in Working
    BY <2>1 DEF Place, Working, Preparing
  <2>3. rep' \in Reports /\ ev' \in Evidence /\ sig' \in [on : BOOLEAN, after : 0..NAgents]
    BY <1>2, <1>4 DEF Typed
  <2>4. ScanInv' /\ SignalInv'
    BY <1>2, <1>4, <2>2 DEF Facts, ScanInv, SignalInv, Closing, Preparing, rest, suite
  <2>5. /\ main'.pc = "patch" => Sent(main')
        /\ main'.pc # "patch" => main'.body = NoBody
        /\ main'.pc # "synth"
    BY <2>1 DEF Sent
  <2> QED BY <1>1, <1>2, <1>4, <2>1, <2>2, <2>3, <2>4, <2>5, SamePersonaStep
<1> QED BY <1>3, <1>4 DEF LoopHead

\* The static evidence is collected, or costs the persona.
LEMMA CollectStep ==
    ASSUME Typed, Facts, Collect
    PROVE  Typed' /\ Facts'
<1>1. "collect" \in MainPcs \ (Closing \union {"patch", "abort", "complete"}) /\ "collect" \in Working
  BY DEF MainPcs, Closing, Working, Preparing
<1>2. /\ Place = "collect" /\ main \in Mains /\ main.pc = "collect" /\ proc = "up" /\ main.code = 0
      /\ main.body = NoBody /\ main.idx \in Agents /\ UNCHANGED <<rest, rep, sig, hist>>
  BY <1>1, HereFields DEF Collect
<1>3. CASE ev' = [ev EXCEPT !.static = TRUE] /\ main' = announce(main)
  <2>1. /\ main' \in Mains /\ main'.idx = main.idx /\ main'.code = main.code
        /\ main'.pc = "patch" /\ main'.then = "begin" /\ main'.body = AnnouncePatch
    BY <1>2, <1>3, AnnounceFields
  <2>2. Place' = "begin" /\ Place' \in Working
    BY <2>1 DEF Place, Working, Preparing
  <2>3. /\ ev' \in Evidence /\ ev'.surface = ev.surface /\ ev'.fuzz = ev.fuzz
        /\ ev'.probes = ev.probes
    BY <1>3 DEF Typed, Evidence
  <2>4. rep' \in Reports /\ sig' \in [on : BOOLEAN, after : 0..NAgents]
    BY <1>2 DEF Typed
  <2>5. ScanInv' /\ SignalInv'
    BY <1>2, <2>2, <2>3 DEF Facts, ScanInv, SignalInv, Closing, Preparing, rest, suite
  <2>6. Sent(main') /\ main.idx <= NAgents
    BY <1>2, <2>1 DEF Sent, Agents
  <2> QED BY <1>1, <1>2, <2>1, <2>2, <2>3, <2>4, <2>5, <2>6, SamePersonaStep
<1>4. CASE PersonaFails /\ UNCHANGED ev
  BY <1>2, <1>4, PersonaFailsStep DEF Collect
<1> QED BY <1>3, <1>4 DEF Collect

\* The target is connected, once, and its surface goes to the scanner.
LEMMA EnsureTargetStep ==
    ASSUME Typed, Facts, EnsureTarget
    PROVE  Typed' /\ Facts'
<1>1. /\ {"target", "scanSurface", "exercise"} \subseteq
            MainPcs \ (Closing \union {"patch", "abort", "complete"})
      /\ {"target", "scanSurface", "exercise"} \subseteq Working
  BY DEF MainPcs, Closing, Working, Preparing
<1>2. /\ Place = "target" /\ main \in Mains /\ main.pc = "target" /\ proc = "up" /\ main.code = 0
      /\ main.body = NoBody /\ main.idx \in Agents /\ UNCHANGED <<rest, rep, sig, hist>>
  BY <1>1, HereFields DEF EnsureTarget
<1>3. PICK t \in IF ev.target = "new" THEN {"up", "down"} ELSE {ev.target},
           a \in IF ev.target = "new" THEN {"none", "raw"} ELSE {ev.aside} :
         LET scan == t = "up" /\ ev.surface = "none"
         IN  /\ ev' = [ev EXCEPT !.target = t, !.surface = IF scan THEN "raw" ELSE @, !.aside = a]
             /\ main' = [main EXCEPT !.pc = IF scan THEN "scanSurface" ELSE "exercise"]
  BY DEF EnsureTarget
<1> DEFINE scan == t = "up" /\ ev.surface = "none"
           sur == IF scan THEN "raw" ELSE ev.surface
           pc == IF scan THEN "scanSurface" ELSE "exercise"
<1>4. t \in {"new", "up", "down"} /\ sur \in {"none", "raw", "clean"} /\ a \in {"none", "raw"}
  BY <1>3 DEF Typed, Evidence
<1>5. ev' = [ev EXCEPT !.target = t, !.surface = sur, !.aside = a] /\ main' = [main EXCEPT !.pc = pc]
  BY <1>3
<1>6. pc \in {"scanSurface", "exercise"} /\ (pc = "exercise" => sur = ev.surface)
  OBVIOUS
<1> HIDE DEF pc, sur, scan
<1>7. /\ main' \in Mains /\ main'.pc = pc /\ main'.body = NoBody /\ main'.idx = main.idx
      /\ main'.code = main.code
  BY <1>1, <1>2, <1>5, <1>6, GotoFields
<1>8. ev' \in Evidence /\ ev'.surface = sur /\ ev'.fuzz = ev.fuzz /\ ev'.probes = ev.probes
  BY <1>4, <1>5 DEF Typed, Evidence
<1>9. Place' = pc /\ Place' \in Working /\ pc # "patch" /\ pc # "synth"
  BY <1>1, <1>6, <1>7 DEF Place
<1>10. rep' \in Reports /\ sig' \in [on : BOOLEAN, after : 0..NAgents]
  BY <1>2 DEF Typed
<1>11. ScanInv'
  BY <1>2, <1>6, <1>8, <1>9 DEF Facts, ScanInv, Closing, rest, suite
<1>12. SignalInv' /\ main.idx <= NAgents
  BY <1>2, <1>6, <1>9 DEF Facts, SignalInv, Preparing, Agents
<1> QED BY <1>1, <1>2, <1>7, <1>8, <1>9, <1>10, <1>11, <1>12, SamePersonaStep

\* The target is exercised: what came of it goes to the scanner before anything else.
LEMMA ExerciseStep ==
    ASSUME Typed, Facts, Exercise
    PROVE  Typed' /\ Facts'
<1>1. /\ {"exercise", "scanFuzz", "scanProbes"} \subseteq
            MainPcs \ (Closing \union {"patch", "abort", "complete"})
      /\ {"exercise", "scanFuzz", "scanProbes", "begin"} \subseteq Working
  BY DEF MainPcs, Closing, Working, Preparing
<1>2. /\ Place = "exercise" /\ main \in Mains /\ main.pc = "exercise" /\ proc = "up"
      /\ main.code = 0 /\ main.body = NoBody /\ main.idx \in Agents /\ main.idx <= NAgents
      /\ UNCHANGED <<rest, rep, sig, hist>>
  BY <1>1, HereFields DEF Exercise, Agents
<1> DEFINE f == IF current = "dynamic" THEN "fuzz" ELSE "probes"
           scan == IF f = "fuzz" THEN "scanFuzz" ELSE "scanProbes"
<1>3. PICK e \in IF ev.target = "up" THEN {"raw", ev[f]} ELSE {ev[f]} :
             /\ ev' = [ev EXCEPT ![f] = e]
             /\ main' = IF e = "none" THEN announce(main) ELSE [main EXCEPT !.pc = scan]
  BY DEF Exercise
<1>4. f \in {"fuzz", "probes"} /\ scan \in {"scanFuzz", "scanProbes"}
      /\ (scan = "scanFuzz" <=> f = "fuzz")
  OBVIOUS
<1> HIDE DEF f, scan
<1>5. e \in {"none", "raw", "clean"}
  BY <1>3, <1>4 DEF Typed, Evidence
<1>6. /\ ev' \in Evidence /\ ev'.surface = ev.surface
      /\ f = "fuzz" => ev'.fuzz = e /\ ev'.probes = ev.probes
      /\ f = "probes" => ev'.probes = e /\ ev'.fuzz = ev.fuzz
  <2>1. CASE f = "fuzz"
    BY <1>3, <1>5, <2>1 DEF Typed, Evidence
  <2>2. CASE f = "probes"
    BY <1>3, <1>5, <2>2 DEF Typed, Evidence
  <2> QED BY <1>4, <2>1, <2>2
<1>7. /\ main' \in Mains /\ main'.idx = main.idx /\ main'.code = main.code
      /\ \/ e # "none" /\ main'.pc = scan /\ main'.body = NoBody
         \/ /\ e = "none" /\ main'.pc = "patch" /\ main'.then = "begin"
            /\ main'.body = AnnouncePatch
  BY <1>1, <1>2, <1>3, <1>4, GotoFields, AnnounceFields
<1>8. Place' \in {"scanFuzz", "scanProbes", "begin"} /\ Place' \in Working
      /\ (e # "none" => Place' = scan)
  BY <1>1, <1>4, <1>7 DEF Place
<1>9. rep' \in Reports /\ sig' \in [on : BOOLEAN, after : 0..NAgents]
  BY <1>2 DEF Typed
<1>10. ScanInv'
  BY <1>2, <1>4, <1>5, <1>6, <1>8 DEF Facts, ScanInv, Closing, rest, suite
<1>11. SignalInv'
  BY <1>2, <1>8 DEF Facts, SignalInv, Preparing
<1>12. /\ main'.pc = "patch" => Sent(main')
       /\ main'.pc # "patch" => main'.body = NoBody
       /\ main'.pc # "synth"
  BY <1>4, <1>7 DEF Sent
<1> QED BY <1>1, <1>2, <1>6, <1>7, <1>8, <1>9, <1>10, <1>11, <1>12, SamePersonaStep

\* A scan that lets the run go on.
LEMMA ScannedStep ==
    ASSUME Typed, Facts, NEW pc \in {"scanSurface", "scanFuzz", "scanProbes"}, At(pc),
           \/ ev' = [ev EXCEPT ![Scanned(main.pc)] = "clean"]
           \/ mode # "strict" /\ UNCHANGED ev,
           main' = AfterScan(main), UNCHANGED <<rep, hist, rest, sig>>
    PROVE  Typed' /\ Facts'
<1>1. /\ {"scanSurface", "scanFuzz", "scanProbes", "exercise"} \subseteq
            MainPcs \ (Closing \union {"patch", "abort", "complete"})
      /\ {"scanSurface", "scanFuzz", "scanProbes", "exercise", "begin"} \subseteq Working
  BY DEF MainPcs, Closing, Working, Preparing
<1>2. /\ Place = pc /\ main \in Mains /\ main.pc = pc /\ proc = "up"
      /\ main.code = 0 /\ main.body = NoBody /\ main.idx \in Agents /\ main.idx <= NAgents
  BY <1>1, HereFields DEF Agents
<1>3. /\ main' \in Mains /\ main'.idx = main.idx /\ main'.code = main.code
      /\ \/ main'.pc = "exercise" /\ main'.body = NoBody
         \/ main'.pc = "patch" /\ main'.then = "begin" /\ main'.body = AnnouncePatch
  BY <1>1, <1>2, GotoFields, AnnounceFields DEF AfterScan
<1>4. Place' \in {"exercise", "begin"} /\ Place' \in Working
  BY <1>1, <1>3 DEF Place
<1>5. /\ ev' \in Evidence
      /\ mode = "strict" =>
           /\ ev'.surface = "raw" => ev.surface = "raw" /\ pc # "scanSurface"
           /\ ev'.fuzz = "raw" => ev.fuzz = "raw" /\ pc # "scanFuzz"
           /\ ev'.probes = "raw" => ev.probes = "raw" /\ pc # "scanProbes"
  <2>1. CASE pc = "scanSurface"
    <3>1. Scanned(main.pc) = "surface"
      BY <1>2, <2>1 DEF Scanned
    <3> QED BY <2>1, <3>1 DEF Typed, Evidence
  <2>2. CASE pc = "scanFuzz"
    <3>1. Scanned(main.pc) = "fuzz"
      BY <1>2, <2>2 DEF Scanned
    <3> QED BY <2>2, <3>1 DEF Typed, Evidence
  <2>3. CASE pc = "scanProbes"
    <3>1. Scanned(main.pc) = "probes"
      BY <1>2, <2>3 DEF Scanned
    <3> QED BY <2>3, <3>1 DEF Typed, Evidence
  <2> QED BY <2>1, <2>2, <2>3
<1>6. rep' \in Reports /\ sig' \in [on : BOOLEAN, after : 0..NAgents]
  BY DEF Typed
<1>7. ScanInv'
  BY <1>2, <1>5 DEF Facts, ScanInv, Closing, rest, suite
<1>8. SignalInv'
  BY <1>2, <1>4 DEF Facts, SignalInv, Preparing
<1>9. /\ main'.pc = "patch" => Sent(main')
      /\ main'.pc # "patch" => main'.body = NoBody
      /\ main'.pc # "synth"
  BY <1>3 DEF Sent
<1> QED BY <1>1, <1>2, <1>3, <1>4, <1>5, <1>6, <1>7, <1>8, <1>9, SamePersonaStep

\* A detection in strict mode: the verdict's patch is sent, and the run is aborted.
LEMMA DetectedStep ==
    ASSUME Typed, Facts, NEW pc \in {"scanSurface", "scanFuzz", "scanProbes"}, At(pc),
           rep' = [rep EXCEPT !.risk = "Malicious", !.score = FALSE],
           main' = PatchThen(main, MaliciousPatch, "abort"),
           hist' = [hist EXCEPT !.mal = TRUE], UNCHANGED <<ev, rest, sig>>
    PROVE  Typed' /\ Facts'
<1>1. pc \in MainPcs \ (Closing \union {"patch"}) /\ "abort" \in MainPcs
      /\ MaliciousPatch \in Body
  BY BodyFields DEF MainPcs, Closing
<1>2. /\ Place = pc /\ main \in Mains /\ main.pc = pc /\ proc = "up"
      /\ main.code = 0 /\ main.body = NoBody
  BY <1>1, HereFields
<1>3. /\ main' \in Mains /\ main'.pc = "patch" /\ main'.then = "abort"
      /\ main'.body = MaliciousPatch /\ main'.idx = main.idx /\ main'.code = main.code
  BY <1>1, <1>2, PatchThenFields
<1>4. hist' \in Hists /\ hist'.mal /\ hist'.lost = hist.lost /\ hist'.faults = hist.faults
  BY DEF Typed, Hists
<1>5. rep' \in Reports
  BY DEF Typed, Reports
<1>6. UNCHANGED <<kind, mode, st, ev, crash, sig, pend, tm, cm, proc>>
  BY DEF rest, suite
<1>7. Place' = "abort" /\ ~Succeeds /\ ~Fails /\ ~Succeeds' /\ ~Fails'
  BY <1>2, <1>3 DEF Place, Succeeds, Fails, Closing
<1>8. Typed'
  BY <1>3, <1>4, <1>5, <1>6 DEF Typed
<1>9. Shape' /\ Bounds'
  BY <1>2, <1>3, <1>4, <1>7 DEF Facts, Shape, Sent, Bounds, Working, Preparing, Closing
<1>10. ScanInv' /\ SignalInv'
  BY <1>6, <1>7 DEF Facts, ScanInv, SignalInv, Closing, Preparing
<1>11. PendInv' /\ VerdictInv'
  BY <1>4, <1>6, <1>7 DEF Facts, PendInv, VerdictInv
<1>12. UsableInv'
  BY <1>2, <1>3, <1>4, <1>6, <1>7 DEF Facts, UsableInv, Landed
<1>13. OutcomeInv'
  BY <1>3, <1>7 DEF OutcomeInv
<1> QED BY <1>8, <1>9, <1>10, <1>11, <1>12, <1>13 DEF Facts

\* A scan ends.
LEMMA ScanStep ==
    ASSUME Typed, Facts, scanUntrusted
    PROVE  Typed' /\ Facts'
<1>1. PICK pc \in {"scanSurface", "scanFuzz", "scanProbes"} : At(pc)
  BY DEF scanUntrusted
<1>2. pc \in MainPcs \ (Closing \union {"patch"}) /\ main.pc = pc /\ proc = "up"
  BY <1>1 DEF At, MainPcs, Closing
<1>3. CASE ev' = [ev EXCEPT ![Scanned(main.pc)] = "clean"] /\ main' = AfterScan(main) /\ UNCHANGED <<rep, hist>>
  BY <1>1, <1>3, ScannedStep DEF scanUntrusted
<1>4. CASE mode # "strict" /\ main' = AfterScan(main) /\ UNCHANGED <<rep, ev, hist>>
  BY <1>1, <1>4, ScannedStep DEF scanUntrusted
<1>5. CASE /\ rep' = [rep EXCEPT !.risk = "Malicious", !.score = FALSE]
           /\ main' = PatchThen(main, MaliciousPatch, "abort")
           /\ hist' = [hist EXCEPT !.mal = TRUE] /\ UNCHANGED ev
  BY <1>1, <1>5, DetectedStep DEF scanUntrusted
<1>6. CASE Throw /\ UNCHANGED <<ev, hist>>
  BY <1>2, <1>6, ThrowStep DEF scanUntrusted, Typed, Facts, Bounds
<1> QED BY <1>3, <1>4, <1>5, <1>6 DEF scanUntrusted

\* The detection ends evaluate().
LEMMA AbortStep ==
    ASSUME Typed, Facts, Abort
    PROVE  Typed' /\ Facts'
<1>1. main.pc \in MainPcs \ (Closing \union {"patch"}) /\ proc = "up"
  BY DEF Abort, At, MainPcs, Closing
<1> QED BY <1>1, ThrowStep DEF Abort, Typed, Facts, Bounds

\* A persona begins; if the signal is there already, no other one will.
LEMMA BeginStep ==
    ASSUME Typed, Facts, Begin
    PROVE  Typed' /\ Facts'
<1>1. /\ {"begin", "open"} \subseteq MainPcs \ (Closing \union {"patch", "abort", "complete"})
      /\ {"begin", "open"} \subseteq Working
  BY DEF MainPcs, Closing, Working, Preparing
<1>2. /\ Place = "begin" /\ main \in Mains /\ main.pc = "begin" /\ proc = "up"
      /\ main.code = 0 /\ main.body = NoBody /\ main.idx \in Agents /\ main.idx <= NAgents
      /\ UNCHANGED <<rest, ev, hist>>
  BY <1>1, HereFields DEF Begin, Agents
<1>3. /\ main' \in Mains /\ main'.pc = "open" /\ main'.body = NoBody
      /\ main'.idx = main.idx /\ main'.code = main.code
  BY <1>1, <1>2, GotoFields DEF Begin
<1>4. rep' \in Reports
  BY <1>2 DEF Begin, Typed, Reports
<1>5. /\ sig' \in [on : BOOLEAN, after : 0..NAgents] /\ sig'.on = sig.on /\ sig'.after \in {0, 1}
      /\ sig'.after = 1 => sig.on
  BY <1>2, EvaluatorAssumption DEF Begin, Typed, Facts, SignalInv, Preparing
<1>6. Place' = "open" /\ Place' \in Working
  BY <1>1, <1>3 DEF Place
<1>7. ScanInv'
  BY <1>2 DEF Facts, ScanInv, Closing, rest, suite
<1>8. SignalInv'
  BY <1>5, <1>6 DEF SignalInv, Preparing
<1>9. ev' \in Evidence
  BY <1>2 DEF Typed
<1> QED BY <1>1, <1>2, <1>3, <1>4, <1>5, <1>6, <1>7, <1>8, <1>9, SamePersonaStep

\* OpenCode starts, or the persona fails.
LEMMA OpenStep ==
    ASSUME Typed, Facts, bootOpencode
    PROVE  Typed' /\ Facts'
<1>1. /\ {"open", "prompt"} \subseteq MainPcs \ (Closing \union {"patch", "abort", "complete"})
      /\ {"open", "prompt"} \subseteq Working
  BY DEF MainPcs, Closing, Working, Preparing
<1>2. /\ Place = "open" /\ main \in Mains /\ main.pc = "open" /\ proc = "up"
      /\ main.code = 0 /\ main.body = NoBody /\ main.idx \in Agents /\ main.idx <= NAgents
      /\ UNCHANGED <<rest, rep, ev, sig, hist>>
  BY <1>1, HereFields DEF bootOpencode, Agents
<1>3. CASE main' = [main EXCEPT !.pc = "prompt"]
  <2>1. /\ main' \in Mains /\ main'.pc = "prompt" /\ main'.body = NoBody
        /\ main'.idx = main.idx /\ main'.code = main.code
    BY <1>1, <1>2, <1>3, GotoFields
  <2>2. Place' = "prompt" /\ Place' \in Working
    BY <1>1, <2>1 DEF Place
  <2>3. ScanInv'
    BY <1>2 DEF Facts, ScanInv, Closing, rest, suite
  <2>4. SignalInv'
    BY <1>2, <2>2 DEF Facts, SignalInv, Preparing
  <2>5. rep' \in Reports /\ ev' \in Evidence /\ sig' \in [on : BOOLEAN, after : 0..NAgents]
    BY <1>2 DEF Typed
  <2> QED BY <1>1, <1>2, <2>1, <2>2, <2>3, <2>4, <2>5, SamePersonaStep
<1>4. CASE PersonaFails
  BY <1>2, <1>4, PersonaFailsStep DEF bootOpencode
<1> QED BY <1>3, <1>4 DEF bootOpencode

\* A persona answers or fails.
LEMMA AnswerStep ==
    ASSUME Typed, Facts, Answer
    PROVE  Typed' /\ Facts'
<1>1. /\ {"prompt", "synth"} \subseteq MainPcs \ (Closing \union {"patch", "abort", "complete"})
      /\ {"prompt", "synth"} \subseteq Working
  BY DEF MainPcs, Closing, Working, Preparing
<1>2. /\ Place = "prompt" /\ main \in Mains /\ main.pc = "prompt" /\ proc = "up"
      /\ main.code = 0 /\ main.body = NoBody /\ main.idx \in 1..NAgents /\ main.idx <= NAgents
      /\ UNCHANGED <<rest, ev, sig, hist>>
  BY <1>1, HereFields, EvaluatorAssumption DEF Answer, Agents
<1>3. ASSUME rep' = [rep EXCEPT !.agents[main.idx] = "ok"]
      PROVE  rep' \in Reports
  BY <1>2, <1>3 DEF Typed, Reports, Agents
<1>4. CASE /\ rep' = [rep EXCEPT !.agents[main.idx] = "ok"]
           /\ main' = PatchThen(main, ResultPatch(main.idx, "ok"), "synth")
  <2>1. ResultPatch(main.idx, "ok") \in Body
    BY <1>2, ResultFields
  <2>2. /\ main' \in Mains /\ main'.pc = "patch" /\ main'.then = "synth"
        /\ main'.body = ResultPatch(main.idx, "ok")
        /\ main'.idx = main.idx /\ main'.code = main.code
    BY <1>1, <1>2, <1>4, <2>1, PatchThenFields
  <2>3. Place' = "synth" /\ Place' \in Working
    BY <1>1, <2>2 DEF Place
  <2>4. ScanInv' /\ SignalInv'
    BY <1>2, <2>3 DEF Facts, ScanInv, SignalInv, Closing, Preparing, rest, suite
  <2>5. ev' \in Evidence /\ sig' \in [on : BOOLEAN, after : 0..NAgents]
    BY <1>2 DEF Typed
  <2>6. Sent(main')
    BY <2>2 DEF Sent
  <2> QED BY <1>1, <1>2, <1>3, <1>4, <2>2, <2>3, <2>4, <2>5, <2>6, SamePersonaStep
<1>5. CASE /\ rep' = [rep EXCEPT !.agents[main.idx] = "ok"]
           /\ main' = PatchThen(NextPersona(main), ResultPatch(main.idx, "ok"), "loop")
  BY <1>2, <1>3, <1>5, ResultStep DEF Answer
<1>6. CASE PersonaFails /\ UNCHANGED rep
  BY <1>2, <1>6, PersonaFailsStep DEF Answer
<1> QED BY <1>4, <1>5, <1>6 DEF Answer

\* The verdict of a synthesis persona, or none: the result of that persona is in the
\* status by now, so the loop may go on.
LEMMA SynthesizeStep ==
    ASSUME Typed, Facts, Synthesize
    PROVE  Typed' /\ Facts'
<1>1. /\ {"synth", "loop"} \subseteq MainPcs \ (Closing \union {"patch", "abort"})
      /\ "synth" \in Working
  BY DEF MainPcs, Closing, Working, Preparing
<1>2. /\ Place = "synth" /\ main \in Mains /\ main.pc = "synth" /\ proc = "up"
      /\ main.code = 0 /\ main.body = NoBody /\ main.idx \in 1..NAgents /\ main.idx <= NAgents
      /\ UNCHANGED <<rest, ev, sig, hist>>
  <2>1. At("synth") /\ UNCHANGED <<rest, ev, sig, hist>>
    BY DEF Synthesize
  <2> QED BY <1>1, <2>1, HereFields, EvaluatorAssumption DEF Agents
<1>3. /\ NextPersona(main) \in Mains /\ NextPersona(main).idx = main.idx + 1
      /\ NextPersona(main).code = main.code /\ NextPersona(main).body = NoBody
  BY <1>2, NextPersonaFields
<1>4. /\ main' \in Mains /\ rep' \in Reports /\ main'.idx = main.idx + 1 /\ main'.code = main.code
      /\ \/ main'.pc = "loop" /\ main'.body = NoBody
         \/ /\ main'.pc = "patch" /\ main'.then = "loop"
            /\ \E r \in {"rated", "Unknown"} : main'.body = RiskPatch(r)
  <2>1. ASSUME NEW v \in parseSynthesis,
               rep' = [rep EXCEPT !.risk = v.risk, !.score = v.score],
               main' = PatchThen(NextPersona(main), [NoBody EXCEPT !.risk = v.risk], "loop")
        PROVE  main' \in Mains /\ rep' \in Reports /\ main'.idx = main.idx + 1 /\ main'.code = main.code
               /\ main'.pc = "patch" /\ main'.then = "loop" /\ main'.body = RiskPatch(v.risk)
               /\ v.risk \in {"rated", "Unknown"}
    <3>1. v.risk \in {"rated", "Unknown"} /\ v.score \in BOOLEAN
      BY DEF parseSynthesis
    <3>2. rep' \in Reports
      BY <2>1, <3>1 DEF Typed, Reports
    <3>3. RiskPatch(v.risk) \in Body /\ main' = PatchThen(NextPersona(main), RiskPatch(v.risk), "loop")
      BY <2>1, <3>1, RiskFields DEF RiskPatch
    <3> QED BY <1>1, <1>3, <3>1, <3>2, <3>3, PatchThenFields
  <2>2. ASSUME main' = [NextPersona(main) EXCEPT !.pc = "loop"], UNCHANGED rep
        PROVE  /\ main' \in Mains /\ rep' \in Reports /\ main'.idx = main.idx + 1
               /\ main'.code = main.code /\ main'.pc = "loop" /\ main'.body = NoBody
    BY <1>1, <1>3, <2>2, GotoFields DEF Typed
  <2> QED BY <2>1, <2>2 DEF Synthesize
<1>5. Place' = "loop"
  BY <1>4 DEF Place
<1>6. ev' \in Evidence /\ sig' \in [on : BOOLEAN, after : 0..NAgents]
  BY <1>2 DEF Typed
<1>7. /\ Place' \notin Closing \union {"abort", "complete"} /\ main'.pc # "synth"
      /\ \A i \in Agents : i < main'.idx => i < main.idx \/ (main.pc = "synth" /\ i = main.idx)
  BY <1>2, <1>4, <1>5 DEF Closing, Agents
<1>8. Typed' /\ PendInv' /\ VerdictInv' /\ UsableInv' /\ OutcomeInv'
  BY <1>1, <1>2, <1>4, <1>6, <1>7, WorkStep
<1>9. Shape'
  BY <1>4 DEF Shape, Sent
<1>10. Bounds' /\ ScanInv' /\ SignalInv'
  BY <1>2, <1>4, <1>5 DEF Facts, Bounds, ScanInv, SignalInv, Working, Preparing, Closing,
       Succeeds, rest, suite
<1> QED BY <1>8, <1>9, <1>10 DEF Facts

\* The last persona is behind: without a usable one evaluate() throws.
LEMMA ScoreStep ==
    ASSUME Typed, Facts, Score
    PROVE  Typed' /\ Facts'
<1>1. "loop" \in MainPcs \ (Closing \union {"patch", "abort"}) /\ "complete" \in MainPcs
  BY DEF MainPcs, Closing
<1>2. /\ Place = "loop" /\ main \in Mains /\ main.pc = "loop" /\ proc = "up"
      /\ main.code = 0 /\ main.body = NoBody /\ main.idx = NAgents + 1
      /\ UNCHANGED <<rest, ev, sig, hist>>
  <2>1. At("loop") /\ main.idx > NAgents /\ UNCHANGED <<rest, ev, sig, hist>>
    BY DEF Score
  <2> QED BY <1>1, <2>1, HereFields, EvaluatorAssumption
<1>3. CASE Throw
  BY <1>1, <1>2, <1>3, ThrowStep DEF Typed, Facts, Bounds
<1>4. ASSUME okAgents # {}, rep' \in Reports, rep'.agents = rep.agents,
             main' \in Mains, main'.idx = main.idx, main'.code = main.code,
             \/ main'.pc = "complete" /\ main'.body = NoBody
             \/ main'.pc = "patch" /\ main'.then = "complete" /\ main'.body = RiskPatch("Unknown")
      PROVE  Typed' /\ Facts'
  <2>1. Place' = "complete" /\ ~Succeeds /\ ~Fails /\ ~Succeeds' /\ ~Fails'
    BY <1>2, <1>4 DEF Place, Succeeds, Fails, Closing
  <2>2. UNCHANGED <<kind, mode, st, crash, pend, tm, cm, proc, hist, ev, sig>>
    BY <1>2 DEF rest, suite
  <2>3. Typed'
    BY <1>4, <2>2 DEF Typed
  <2>4. Shape' /\ Bounds'
    BY <1>2, <1>4, <2>1, <2>2 DEF Facts, Shape, Sent, Bounds, Working, Preparing
  <2>5. ScanInv' /\ SignalInv'
    BY <1>2, <2>1, <2>2 DEF Facts, ScanInv, SignalInv, Preparing, Closing
  <2>6. PendInv' /\ VerdictInv'
    BY <1>2, <2>1, <2>2 DEF Facts, PendInv, VerdictInv
  <2>7. okAgents' = okAgents
    BY <1>4 DEF okAgents
  <2>8. UsableInv'
    BY <1>2, <1>4, <2>1, <2>2, <2>7 DEF Facts, UsableInv, Landed
  <2>9. OutcomeInv'
    BY <1>4, <2>1 DEF OutcomeInv
  <2> QED BY <2>3, <2>4, <2>5, <2>6, <2>8, <2>9 DEF Facts
<1>5. CASE /\ okAgents # {} /\ \E s \in BOOLEAN : rep' = [rep EXCEPT !.score = s]
           /\ main' = PatchThen(main, [NoBody EXCEPT !.risk = "Unknown"], "complete")
  <2>1. rep' \in Reports /\ rep'.agents = rep.agents
    BY <1>5 DEF Typed, Reports
  <2>2. RiskPatch("Unknown") \in Body /\ main' = PatchThen(main, RiskPatch("Unknown"), "complete")
    BY <1>5, RiskFields DEF RiskPatch
  <2>3. /\ main' \in Mains /\ main'.pc = "patch" /\ main'.then = "complete"
        /\ main'.body = RiskPatch("Unknown") /\ main'.idx = main.idx /\ main'.code = main.code
    BY <1>1, <1>2, <2>2, PatchThenFields
  <2> QED BY <1>4, <1>5, <2>1, <2>3
<1>6. CASE okAgents # {} /\ main' = [main EXCEPT !.pc = "complete"] /\ UNCHANGED rep
  <2>1. rep' \in Reports /\ rep'.agents = rep.agents
    BY <1>6 DEF Typed
  <2>2. /\ main' \in Mains /\ main'.pc = "complete"
        /\ main'.body = NoBody /\ main'.idx = main.idx /\ main'.code = main.code
    BY <1>1, <1>2, <1>6, GotoFields
  <2> QED BY <1>4, <1>6, <2>1, <2>2
<1> QED BY <1>3, <1>5, <1>6 DEF Score

\* The run completes: every persona is accounted for in a status that no patch missed.
LEMMA CompleteStep ==
    ASSUME Typed, Facts, Complete
    PROVE  Typed' /\ Facts'
<1>1. /\ "complete" \in MainPcs \ (Closing \union {"patch"}) /\ "finally" \in MainPcs
      /\ CompletedPatch \in Body
  BY BodyFields DEF MainPcs, Closing
<1>2. /\ Place = "complete" /\ main \in Mains /\ main.pc = "complete" /\ proc = "up"
      /\ main.code = 0 /\ main.body = NoBody
  BY <1>1, HereFields DEF Complete
<1>3. /\ main' \in Mains /\ main'.pc = "patch" /\ main'.then = "finally"
      /\ main'.body = CompletedPatch /\ main'.idx = main.idx /\ main'.code = 0
  BY <1>1, <1>2, PatchThenFields DEF Complete
<1>4. rep' \in Reports /\ rep'.phase = "Completed" /\ rep'.agents = rep.agents
  BY DEF Complete, Typed, Reports
<1>5. UNCHANGED <<kind, mode, st, crash, pend, tm, cm, proc, hist, ev, sig>>
  BY DEF Complete, rest, suite
<1>6. Place' = "finally" /\ ~Succeeds /\ ~Fails /\ Succeeds' /\ ~Fails'
  BY <1>2, <1>3 DEF Place, Succeeds, Fails, Closing
<1>7. Typed'
  BY <1>3, <1>4, <1>5 DEF Typed
<1>8. Shape' /\ Bounds'
  BY <1>2, <1>3, <1>5, <1>6 DEF Facts, Shape, Sent, Bounds, Working, Preparing
<1>9. ScanInv' /\ SignalInv'
  BY <1>2, <1>5, <1>6 DEF Facts, ScanInv, SignalInv, Preparing, Closing
<1>10. PendInv' /\ VerdictInv'
  BY <1>2, <1>5, <1>6 DEF Facts, PendInv, VerdictInv
<1>11. okAgents' = okAgents
  BY <1>4 DEF okAgents
<1>12. UsableInv'
  BY <1>2, <1>3, <1>5, <1>6, <1>11 DEF Facts, UsableInv, Landed
<1>13. OutcomeInv'
  BY <1>3, <1>4, <1>6 DEF OutcomeInv
<1> QED BY <1>7, <1>8, <1>9, <1>10, <1>12, <1>13 DEF Facts

\* main's finally changes nothing that is said of the outcome.
LEMMA FinallyStep ==
    ASSUME Typed, Facts, Finally
    PROVE  Typed' /\ Facts'
<1>1. {"finally", "flush"} \subseteq MainPcs \ {"patch"}
  BY DEF MainPcs
<1>2. /\ Place = "finally" /\ main \in Mains /\ main.pc = "finally" /\ proc = "up"
      /\ main.body = NoBody
  BY <1>1, HereFields DEF Finally
<1>3. /\ main' \in Mains /\ main'.pc = "flush" /\ main'.body = NoBody /\ main'.idx = main.idx
      /\ main'.code = main.code
  BY <1>1, <1>2, GotoFields DEF Finally
<1>4. UNCHANGED <<kind, mode, st, rep, crash, pend, tm, cm, proc, hist, ev, sig>>
  BY DEF Finally, rest, suite
<1>5. /\ Place' = "flush" /\ Place \in Closing /\ Place' \in Closing
      /\ (Succeeds' <=> Succeeds) /\ (Fails' <=> Fails)
  BY <1>2, <1>3 DEF Place, Succeeds, Fails, Closing
<1>6. Typed'
  BY <1>3, <1>4 DEF Typed
<1>7. Shape' /\ Bounds'
  BY <1>2, <1>3, <1>4, <1>5 DEF Facts, Shape, Bounds, Working, Preparing
<1>8. ScanInv' /\ SignalInv'
  BY <1>4, <1>5 DEF Facts, ScanInv, SignalInv, Preparing
<1>9. PendInv' /\ VerdictInv'
  BY <1>2, <1>4, <1>5 DEF Facts, PendInv, VerdictInv
<1>10. UsableInv'
  BY <1>2, <1>3, <1>4, <1>5 DEF Facts, UsableInv, Landed, okAgents
<1>11. OutcomeInv'
  BY <1>2, <1>3, <1>4, <1>5 DEF Facts, OutcomeInv
<1> QED BY <1>6, <1>7, <1>8, <1>9, <1>10, <1>11 DEF Facts

\* The report is stored and the termination message written.
LEMMA PersistStep ==
    ASSUME Typed, Facts, Persist
    PROVE  Typed' /\ Facts'
<1>1. {"persist", "return"} \subseteq MainPcs \ {"patch"}
  BY DEF MainPcs
<1>2. /\ At("persist") /\ main' = [main EXCEPT !.pc = "return"]
      /\ UNCHANGED <<kind, mode, st, rep, crash, pend, proc, ev, sig>>
  BY DEF Persist, suite
<1>3. /\ Place = "persist" /\ main \in Mains /\ main.pc = "persist" /\ proc = "up"
      /\ main.body = NoBody
  BY <1>1, <1>2, HereFields
<1>4. /\ main' \in Mains /\ main'.pc = "return" /\ main'.body = NoBody /\ main'.idx = main.idx
      /\ main'.code = main.code
  BY <1>1, <1>2, <1>3, GotoFields
<1>5. /\ hist' \in Hists /\ hist'.mal = hist.mal /\ hist'.lost = hist.lost
      /\ hist'.faults + hist'.lost <= MaxFaults
  <2>1. hist \in Hists /\ hist.faults + hist.lost <= MaxFaults
    BY DEF Typed, Facts, Bounds
  <2>2. hist' = hist \/ (FaultIn(hist) /\ hist' = Faulted(hist))
    BY DEF Persist
  <2> QED BY <2>1, <2>2, FaultedFields
<1>6. tm' \in Messages /\ tm'.phase = IF rep.phase = "Completed" THEN "Completed" ELSE "Failed"
  BY DEF Persist, writeTerminationMessage, Typed, Reports, Messages
<1>7. cm' \in {"none", "owned", "orphan"}
  BY DEF Persist, Typed
<1>8. /\ Place' = "return" /\ Place \in Closing /\ Place' \in Closing
      /\ (Succeeds' <=> Succeeds) /\ (Fails' <=> Fails)
  BY <1>3, <1>4 DEF Place, Succeeds, Fails, Closing
<1>9. Typed'
  BY <1>2, <1>4, <1>5, <1>6, <1>7 DEF Typed
<1>10. Shape' /\ Bounds'
  BY <1>3, <1>4, <1>5, <1>8 DEF Facts, Shape, Bounds, Working, Preparing
<1>11. ScanInv' /\ SignalInv'
  BY <1>2, <1>8 DEF Facts, ScanInv, SignalInv, Preparing
<1>12. PendInv' /\ VerdictInv'
  BY <1>2, <1>3, <1>5, <1>8 DEF Facts, PendInv, VerdictInv
<1>13. UsableInv'
  BY <1>2, <1>3, <1>4, <1>5, <1>8 DEF Facts, UsableInv, Landed, okAgents
<1>14. main.code \in {0, 1} /\ (Succeeds \/ Fails)
  BY <1>3, <1>8 DEF Mains, Succeeds, Fails
<1>15. OutcomeInv'
  BY <1>2, <1>3, <1>4, <1>5, <1>6, <1>8, <1>14 DEF Facts, OutcomeInv
<1> QED BY <1>9, <1>10, <1>11, <1>12, <1>13, <1>15 DEF Facts

-----------------------------------------------------------------------------
(***************************************************************************)
(* Steps of the status writer                                              *)
(***************************************************************************)

\* What main may be waiting to have written.
LEMMA SentFields ==
    ASSUME Typed, Facts, main.pc = "patch"
    PROVE  /\ main.body \in Body /\ Place = main.then
           /\ main.then \in MainPcs \ {"boot", "patch", "flush", "persist", "return"}
           /\ main.body.who # 0 => main.body.what \in {"ok", "err"}
           /\ main.then = "synth" => main.body.who = main.idx /\ main.idx \in Agents
           /\ main.then = "abort" => main.body = MaliciousPatch
           /\ main.then = "finally" => \/ main.code = 0 /\ main.body = CompletedPatch
                                       \/ main.code = 1 /\ main.body = FailedPatch
           /\ TerminalBody(main.body) => main.then \in {"abort", "finally"}
           /\ main.body.risk = "Malicious" => main.then = "abort"
<1>1. main \in Mains /\ Sent(main) /\ Place = main.then
  BY DEF Typed, Facts, Shape, Place
<1>2. {"fetch", "begin", "synth", "loop", "abort", "complete", "finally"}
          \subseteq MainPcs \ {"boot", "patch", "flush", "persist", "return"}
  BY DEF MainPcs
<1>3. CASE main.then = "fetch" /\ main.body = RunningPatch
  BY <1>1, <1>2, <1>3, BodyFields DEF TerminalBody
<1>4. CASE main.then = "begin" /\ main.body = AnnouncePatch
  BY <1>1, <1>2, <1>4, BodyFields DEF TerminalBody
<1>5. CASE main.then = "synth" /\ main.body = ResultPatch(main.idx, "ok")
  <2>1. main.idx \in 1..NAgents /\ main.idx \in Agents
    BY <1>1, <1>5, EvaluatorAssumption DEF Facts, Bounds, Working, Preparing, Mains, Agents
  <2> QED BY <1>1, <1>2, <1>5, <2>1, ResultFields DEF TerminalBody
<1>6. CASE main.then = "loop" /\ main.idx > 1
           /\ \E r \in {"ok", "err"} : main.body = ResultPatch(main.idx - 1, r)
  <2>1. main.idx - 1 \in 1..NAgents
    BY <1>1, <1>6, EvaluatorAssumption DEF Mains
  <2>2. PICK r \in {"ok", "err"} : main.body = ResultPatch(main.idx - 1, r)
    BY <1>6
  <2> QED BY <1>1, <1>2, <1>6, <2>1, <2>2, ResultFields DEF TerminalBody
<1>7. CASE main.then \in {"loop", "complete"} /\ \E r \in {"rated", "Unknown"} : main.body = RiskPatch(r)
  BY <1>1, <1>2, <1>7, RiskFields DEF TerminalBody
<1>8. CASE main.then = "abort" /\ main.body = MaliciousPatch
  BY <1>1, <1>2, <1>8, BodyFields
<1>9. CASE main.then = "finally" /\ \/ main.code = 0 /\ main.body = CompletedPatch
                                    \/ main.code = 1 /\ main.body = FailedPatch
  BY <1>1, <1>2, <1>9, BodyFields
<1> QED BY <1>1, <1>3, <1>4, <1>5, <1>6, <1>7, <1>8, <1>9 DEF Sent

\* patchStatus: the patch lands, or the run is gone, or it is given up, when it may
\* have been applied all the same and is remembered if it is terminal.
LEMMA PatchOutcome ==
    ASSUME Typed, Facts, NEW b \in Body, patchStatus(b)
    PROVE  /\ st' \in Statuses /\ st'.live = st.live /\ (st' = st \/ st' = Apply(st, b))
           /\ hist' \in Hists /\ hist'.mal = hist.mal /\ hist'.faults + hist'.lost <= MaxFaults
           /\ pend' \in Body
           /\ \/ /\ hist'.lost = hist.lost /\ st' = IF st.live THEN Apply(st, b) ELSE st
                 /\ pend' = IF st.live /\ TerminalBody(b) THEN NoBody ELSE pend
              \/ /\ hist'.lost = hist.lost + 1 /\ pend' = IF TerminalBody(b) THEN b ELSE pend
<1>1. st \in Statuses /\ hist \in Hists /\ pend \in Body /\ hist.faults + hist.lost <= MaxFaults
  BY DEF Typed, Facts, Bounds
<1>2. Apply(st, b) \in Statuses /\ Apply(st, b).live = st.live
  BY <1>1, ApplyFields
<1>3. CASE /\ st' = IF st.live THEN Apply(st, b) ELSE st
           /\ pend' = IF st.live /\ TerminalBody(b) THEN NoBody ELSE pend
           /\ hist' = hist
  BY <1>1, <1>2, <1>3, BodyFields
<1>4. CASE /\ FaultIn(hist) /\ st' \in {st, Apply(st, b)}
           /\ pend' = IF TerminalBody(b) THEN b ELSE pend
           /\ hist' = [Faulted(hist) EXCEPT !.lost = hist.lost + 1]
  <2>1. /\ hist' \in Hists /\ hist'.mal = hist.mal /\ hist'.lost = hist.lost + 1
        /\ hist'.faults + hist'.lost <= MaxFaults
    BY <1>1, <1>4, FaultedFields
  <2> QED BY <1>1, <1>2, <1>4, <2>1
<1> QED BY <1>3, <1>4 DEF patchStatus

\* The patch that main awaits has ended, one way or the other.
LEMMA MainPatchStep ==
    ASSUME Typed, Facts, MainPatch
    PROVE  Typed' /\ Facts'
<1> DEFINE b == main.body
<1>1. /\ main.pc = "patch" /\ proc = "up" /\ patchStatus(b) /\ main \in Mains
      /\ main' = [main EXCEPT !.pc = main.then, !.then = "-", !.body = NoBody]
      /\ UNCHANGED <<kind, mode, rep, ev, crash, sig, tm, cm, proc>>
  BY DEF MainPatch, At, Typed, suite
<1>2. /\ b \in Body /\ Place = main.then
      /\ main.then \in MainPcs \ {"boot", "patch", "flush", "persist", "return"}
      /\ b.who # 0 => b.what \in {"ok", "err"}
      /\ main.then = "synth" => b.who = main.idx /\ main.idx \in Agents
      /\ main.then = "abort" => b = MaliciousPatch
      /\ main.then = "finally" => \/ main.code = 0 /\ b = CompletedPatch
                                  \/ main.code = 1 /\ b = FailedPatch
      /\ TerminalBody(b) => main.then \in {"abort", "finally"}
      /\ b.risk = "Malicious" => main.then = "abort"
  BY <1>1, SentFields
<1>3. /\ main' \in Mains /\ main'.pc = main.then /\ main'.body = NoBody /\ main'.idx = main.idx
      /\ main'.code = main.code
  BY <1>1, <1>2, BodyFields DEF Mains
<1>4. Place' = Place /\ (Succeeds' <=> Succeeds) /\ (Fails' <=> Fails)
  BY <1>2, <1>3 DEF Place, Succeeds, Fails
<1> HIDE DEF b
<1>5. /\ st' \in Statuses /\ st'.live = st.live /\ (st' = st \/ st' = Apply(st, b))
      /\ hist' \in Hists /\ hist'.mal = hist.mal /\ hist'.faults + hist'.lost <= MaxFaults
      /\ pend' \in Body
      /\ \/ /\ hist'.lost = hist.lost /\ st' = IF st.live THEN Apply(st, b) ELSE st
            /\ pend' = IF st.live /\ TerminalBody(b) THEN NoBody ELSE pend
         \/ /\ hist'.lost = hist.lost + 1 /\ pend' = IF TerminalBody(b) THEN b ELSE pend
  BY <1>1, <1>2, PatchOutcome
<1>6. /\ Apply(st, b).phase = IF b.phase = "-" THEN st.phase ELSE b.phase
      /\ Apply(st, b).risk = IF b.risk = "-" THEN st.risk ELSE b.risk
      /\ \A i \in Agents : Apply(st, b).res[i] = IF i = b.who THEN b.what ELSE st.res[i]
  BY <1>2, ApplyFields DEF Typed
<1>7. hist.lost \in Nat /\ hist'.lost \in Nat
  BY <1>5 DEF Typed, Hists
<1>8. Typed'
  BY <1>1, <1>3, <1>5 DEF Typed
<1>9. Shape' /\ Bounds'
  BY <1>2, <1>3, <1>4, <1>5 DEF Facts, Shape, Bounds
<1>10. ScanInv' /\ SignalInv'
  BY <1>1, <1>4 DEF Facts, ScanInv, SignalInv
<1>11. PendInv'
  <2>1. CASE pend' = NoBody
    BY <2>1, BodyFields DEF PendInv
  <2>2. CASE pend' = pend
    BY <1>1, <1>4, <1>5, <1>7, <2>2 DEF Facts, PendInv
  <2>3. CASE pend' = b /\ TerminalBody(b) /\ hist'.lost = hist.lost + 1
    BY <1>2, <1>4, <1>5, <1>7, <2>3, BodyFields DEF Facts, PendInv, VerdictInv, Succeeds, Fails, Closing
  <2> QED BY <1>5, <2>1, <2>2, <2>3
<1>12. VerdictInv'
  <2>1. ASSUME st'.risk = "Malicious"
        PROVE  hist.mal /\ st'.phase = "Failed"
    BY <1>2, <1>4, <1>5, <1>6, <2>1, BodyFields DEF Facts, VerdictInv, Fails, Closing
  <2> QED BY <1>4, <1>5, <2>1 DEF Facts, VerdictInv
<1>13. UsableInv'
  <2>1. st'.phase = "Completed" => Succeeds
    BY <1>2, <1>5, <1>6, BodyFields DEF Facts, UsableInv, Succeeds, Closing, TerminalBody
  <2>2. ASSUME hist'.lost = 0, st.live
        PROVE  /\ \A i \in Agents : i < main.idx => Landed(i)'
               /\ main.then = "synth" => Landed(main.idx)'
    <3>1. hist.lost = 0 /\ st' = Apply(st, b)
      BY <1>5, <1>7, <2>2
    <3>2. \A i \in Agents : i < main.idx => Landed(i) \/ b.who = i
      BY <1>1, <2>2, <3>1 DEF Facts, UsableInv, b
    <3>3. \A i \in Agents : i # 0
      BY EvaluatorAssumption DEF Agents
    <3> QED BY <1>2, <1>3, <1>6, <3>1, <3>2, <3>3 DEF Landed
  <2>3. ASSUME hist'.lost = 0, st'.phase = "Completed"
        PROVE  \A i \in Agents : Landed(i)'
    <3>1. CASE st.live
      <4>1. main.idx = NAgents + 1
        BY <2>1, <2>3 DEF Facts, Bounds
      <4> QED BY <2>2, <2>3, <3>1, <4>1, EvaluatorAssumption DEF Agents
    <3>2. CASE ~st.live
      <4>1. st' = st /\ hist.lost = 0
        BY <1>5, <1>7, <2>3, <3>2
      <4> QED BY <2>3, <4>1 DEF Facts, UsableInv, Landed
    <3> QED BY <3>1, <3>2
  <2>4. okAgents' = okAgents
    BY <1>1 DEF okAgents
  <2> QED BY <1>3, <1>4, <1>5, <2>1, <2>2, <2>3, <2>4 DEF Facts, UsableInv
<1>14. OutcomeInv'
  <2>1. ASSUME main.then = "finally", crash = "no", st.live, pend' = NoBody
        PROVE  st'.phase = rep.phase
    BY <1>2, <1>4, <1>5, <1>6, <2>1, BodyFields DEF Facts, OutcomeInv, Succeeds, Fails, Closing,
         TerminalBody
  <2> QED BY <1>1, <1>2, <1>3, <1>4, <1>5, <2>1 DEF Facts, OutcomeInv
<1> QED BY <1>8, <1>9, <1>10, <1>11, <1>12, <1>13, <1>14 DEF Facts

\* The failure patch of fatalCrash has ended, whatever main is doing.
LEMMA CrashPatchStep ==
    ASSUME Typed, Facts, CrashPatch
    PROVE  Typed' /\ Facts'
<1> DEFINE b == FailedPatch
<1>1. /\ patchStatus(b) /\ crash' = "exit"
      /\ UNCHANGED <<kind, mode, rep, ev, main, sig, tm, cm, proc>>
  BY DEF CrashPatch, suite
<1>2. b \in Body /\ b.phase = "Failed" /\ b.who = 0 /\ b.risk = "-" /\ b # NoBody
      /\ b # CompletedPatch /\ b # MaliciousPatch
  BY BodyFields
<1>3. /\ st' \in Statuses /\ st'.live = st.live /\ (st' = st \/ st' = Apply(st, b))
      /\ hist' \in Hists /\ hist'.mal = hist.mal /\ hist'.faults + hist'.lost <= MaxFaults
      /\ pend' \in Body
      /\ \/ hist'.lost = hist.lost /\ pend' \in {NoBody, pend}
         \/ hist'.lost = hist.lost + 1 /\ pend' \in {b, pend}
  BY <1>1, <1>2, PatchOutcome
<1>4. /\ Apply(st, b).phase = "Failed" /\ Apply(st, b).risk = st.risk
      /\ \A i \in Agents : Apply(st, b).res[i] = st.res[i]
  <2>1. \A i \in Agents : i # 0
    BY EvaluatorAssumption DEF Agents
  <2> QED BY <1>2, <2>1, ApplyFields DEF Typed
<1>5. hist.lost \in Nat /\ hist'.lost \in Nat
  BY <1>3 DEF Typed, Hists
<1>6. Place' = Place /\ (Succeeds' <=> Succeeds) /\ (Fails' <=> Fails)
  BY <1>1 DEF Place, Succeeds, Fails
<1>7. Typed'
  BY <1>1, <1>3 DEF Typed
<1>8. Shape' /\ Bounds'
  BY <1>1, <1>3, <1>6 DEF Facts, Shape, Sent, Bounds
<1>9. ScanInv' /\ SignalInv'
  BY <1>1, <1>6 DEF Facts, ScanInv, SignalInv
<1>10. PendInv'
  <2>1. CASE pend' = NoBody
    BY <2>1, BodyFields DEF PendInv
  <2>2. CASE pend' = pend
    BY <1>1, <1>3, <1>5, <1>6, <2>2 DEF Facts, PendInv
  <2>3. CASE pend' = b /\ hist'.lost = hist.lost + 1
    BY <1>1, <1>2, <1>5, <2>3 DEF PendInv
  <2> QED BY <1>3, <2>1, <2>2, <2>3
<1>11. VerdictInv'
  BY <1>3, <1>4, <1>6 DEF Facts, VerdictInv
<1>12. UsableInv'
  <2>1. \A i \in Agents : Landed(i)' <=> Landed(i)
    BY <1>3, <1>4 DEF Landed
  <2>2. main.pc = "synth" => main.idx \in Agents
    BY EvaluatorAssumption DEF Typed, Facts, Bounds, Place, Working, Mains, Agents
  <2>3. okAgents' = okAgents
    BY <1>1 DEF okAgents
  <2>4. st'.phase = "Completed" => st' = st
    BY <1>3, <1>4
  <2>5. hist'.lost = 0 => hist.lost = 0
    BY <1>3, <1>5
  <2>6. main.pc = "synth" => (Landed(main.idx)' <=> Landed(main.idx))
    BY <1>1, <2>2, <1>3, <1>4 DEF Landed
  <2> QED BY <1>1, <1>3, <1>6, <2>1, <2>2, <2>3, <2>4, <2>5, <2>6 DEF Facts, UsableInv
<1>13. OutcomeInv'
  BY <1>1 DEF OutcomeInv
<1> QED BY <1>7, <1>8, <1>9, <1>10, <1>11, <1>12, <1>13 DEF Facts

\* The last attempt at a terminal patch that was given up.
LEMMA FlushStep ==
    ASSUME Typed, Facts, flushTerminalPatch
    PROVE  Typed' /\ Facts'
<1>1. /\ At("flush") /\ main' = [main EXCEPT !.pc = "persist"]
      /\ UNCHANGED <<kind, mode, rep, ev, crash, sig, tm, cm, proc>>
  BY DEF flushTerminalPatch, suite
<1>2. {"flush", "persist"} \subseteq MainPcs \ {"patch"}
  BY DEF MainPcs
<1>3. /\ Place = "flush" /\ main \in Mains /\ main.pc = "flush" /\ proc = "up"
      /\ main.body = NoBody
  BY <1>1, <1>2, HereFields
<1>4. /\ main' \in Mains /\ main'.pc = "persist" /\ main'.body = NoBody /\ main'.idx = main.idx
      /\ main'.code = main.code
  BY <1>1, <1>2, <1>3, GotoFields
<1>5. /\ Place' = "persist" /\ Place \in Closing /\ Place' \in Closing
      /\ (Succeeds' <=> Succeeds) /\ (Fails' <=> Fails)
  BY <1>3, <1>4 DEF Place, Succeeds, Fails, Closing
<1>6. /\ pend \in Body /\ pend.who = 0 /\ (pend = NoBody \/ TerminalBody(pend))
      /\ pend.risk \in {"-", "Malicious"}
      /\ pend.phase = "Completed" => Succeeds
      /\ pend.phase = "Failed" => crash # "no" \/ Fails
      /\ pend.risk = "Malicious" => hist.mal /\ pend.phase = "Failed"
  BY <1>3, BodyFields DEF Facts, PendInv, VerdictInv, TerminalBody
<1>7. /\ Apply(st, pend) \in Statuses /\ Apply(st, pend).live = st.live
      /\ Apply(st, pend).phase = IF pend.phase = "-" THEN st.phase ELSE pend.phase
      /\ Apply(st, pend).risk = IF pend.risk = "-" THEN st.risk ELSE pend.risk
      /\ \A i \in Agents : Apply(st, pend).res[i] = st.res[i]
  <2>1. \A i \in Agents : i # 0
    BY EvaluatorAssumption DEF Agents
  <2> QED BY <1>6, <2>1, ApplyFields DEF Typed
<1>8. /\ hist \in Hists /\ hist.faults + hist.lost <= MaxFaults /\ hist.lost \in Nat
      /\ pend # NoBody => hist.lost > 0
  BY DEF Typed, Hists, Facts, Bounds, PendInv
<1>9. /\ hist' \in Hists /\ hist'.mal = hist.mal /\ hist'.faults + hist'.lost <= MaxFaults
      /\ hist'.lost \in {hist.lost, hist.lost + 1} /\ hist'.lost \in Nat
      /\ st' \in {st, Apply(st, pend)} /\ pend' \in {pend, NoBody}
      /\ hist'.lost <= 1 /\ st.live => st' = IF pend = NoBody THEN st ELSE Apply(st, pend)
  <2>1. CASE hist' = hist /\ (\/ pend = NoBody /\ UNCHANGED <<st, pend>>
                              \/ pend # NoBody /\ st' = Apply(st, pend) /\ pend' = NoBody
                              \/ pend # NoBody /\ ~st.live /\ UNCHANGED <<st, pend>>)
    BY <1>8, <2>1
  <2>2. CASE /\ pend # NoBody /\ FaultIn(hist)
             /\ hist' = [Faulted(hist) EXCEPT !.lost = hist.lost + 1]
             /\ st' \in {st, Apply(st, pend)} /\ UNCHANGED pend
    <3>1. /\ hist' \in Hists /\ hist'.mal = hist.mal /\ hist'.lost = hist.lost + 1
          /\ hist'.faults + hist'.lost <= MaxFaults
      BY <1>8, <2>2, FaultedFields
    <3> QED BY <1>8, <2>2, <3>1
  <2> QED BY <2>1, <2>2 DEF flushTerminalPatch
<1>10. Typed'
  BY <1>1, <1>4, <1>6, <1>7, <1>9, BodyFields DEF Typed
<1>11. Shape' /\ Bounds'
  BY <1>3, <1>4, <1>5, <1>9 DEF Facts, Shape, Bounds, Working, Preparing
<1>12. ScanInv' /\ SignalInv'
  BY <1>1, <1>5 DEF Facts, ScanInv, SignalInv, Preparing
<1>13. PendInv'
  <2>1. CASE pend' = NoBody
    BY <2>1, BodyFields DEF PendInv
  <2>2. CASE pend' = pend
    BY <1>1, <1>5, <1>8, <1>9, <2>2 DEF Facts, PendInv
  <2> QED BY <1>9, <2>1, <2>2
<1>14. VerdictInv'
  <2>1. ASSUME st'.risk = "Malicious"
        PROVE  hist.mal /\ st'.phase = "Failed"
    <3>1. CASE st' = st
      BY <2>1, <3>1 DEF Facts, VerdictInv
    <3>2. CASE st' = Apply(st, pend)
      <4>1. hist.mal
        BY <1>6, <1>7, <2>1, <3>2 DEF Facts, VerdictInv
      <4>2. Fails /\ ~Succeeds
        BY <1>3, <4>1 DEF Facts, VerdictInv, Fails, Succeeds
      <4> QED BY <1>6, <1>7, <2>1, <3>2, <4>1, <4>2, BodyFields DEF Facts, VerdictInv, TerminalBody
    <3> QED BY <1>9, <3>1, <3>2
  <2> QED BY <1>3, <1>5, <1>9, <2>1 DEF Facts, VerdictInv
<1>15. UsableInv'
  <2>1. st'.phase = "Completed" => Succeeds
    BY <1>6, <1>7, <1>9 DEF Facts, UsableInv
  <2>2. hist'.lost = 0 => hist.lost = 0 /\ pend = NoBody /\ (st.live => st' = st)
    BY <1>8, <1>9
  <2>3. \A i \in Agents : Landed(i)' <=> Landed(i)
    BY <1>7, <1>9 DEF Landed
  <2>4. hist'.lost = 0 => st'.phase = st.phase /\ st'.live = st.live
    BY <1>7, <1>9, <2>2, BodyFields
  <2>5. okAgents' = okAgents
    BY <1>1 DEF okAgents
  <2> QED BY <1>3, <1>4, <1>5, <2>1, <2>2, <2>3, <2>4, <2>5 DEF Facts, UsableInv
<1>16. OutcomeInv'
  <2>1. ASSUME crash = "no", st'.live, hist'.lost <= 1
        PROVE  st'.phase = rep.phase
    <3>1. st.live /\ hist.lost <= 1
      BY <1>7, <1>8, <1>9, <2>1
    <3>2. CASE pend = NoBody
      BY <1>3, <1>9, <2>1, <3>1, <3>2 DEF Facts, OutcomeInv
    <3>3. CASE pend # NoBody
      <4>1. st'.phase = pend.phase /\ pend.phase \in {"Completed", "Failed"}
        BY <1>6, <1>7, <1>9, <2>1, <3>1, <3>3 DEF TerminalBody
      <4> QED BY <1>6, <2>1, <4>1 DEF Facts, OutcomeInv
    <3> QED BY <3>2, <3>3
  <2> QED BY <1>1, <1>4, <1>5, <2>1 DEF Facts, OutcomeInv
<1> QED BY <1>10, <1>11, <1>12, <1>13, <1>14, <1>15, <1>16 DEF Facts

-----------------------------------------------------------------------------
(***************************************************************************)
(* The start and the end of the process, the handlers and the user         *)
(***************************************************************************)

\* main starts, or ends with its configuration.
LEMMA BootStep ==
    ASSUME Typed, Facts, Boot
    PROVE  Typed' /\ Facts'
<1>1. /\ At("boot") /\ UNCHANGED <<kind, mode, st, rep, ev, crash, sig, pend, cm, hist>>
  BY DEF Boot, suite
<1>2. /\ "boot" \in MainPcs \ (Closing \union {"patch"}) /\ "fetch" \in MainPcs
      /\ RunningPatch \in Body
  BY BodyFields DEF MainPcs, Closing
<1>3. Place = "boot" /\ main \in Mains /\ main.pc = "boot" /\ main.body = NoBody /\ main.code = 0
  BY <1>1, <1>2, HereFields
<1>4. CASE main' = PatchThen(main, RunningPatch, "fetch") /\ UNCHANGED <<tm, proc>>
  <2>1. /\ main' \in Mains /\ main'.pc = "patch" /\ main'.then = "fetch"
        /\ main'.body = RunningPatch /\ main'.idx = main.idx /\ main'.code = 0
    BY <1>2, <1>3, <1>4, PatchThenFields
  <2>2. Place' = "fetch" /\ ~Succeeds /\ ~Fails /\ ~Succeeds' /\ ~Fails'
    BY <1>3, <2>1 DEF Place, Succeeds, Fails, Closing
  <2>3. Typed'
    BY <1>1, <1>4, <2>1 DEF Typed
  <2>4. Shape' /\ Bounds'
    BY <1>1, <1>3, <2>1, <2>2 DEF Facts, Shape, Sent, Bounds, Working, Preparing
  <2>5. ScanInv' /\ SignalInv'
    BY <1>1, <1>3, <2>2 DEF Facts, ScanInv, SignalInv, Preparing, Closing
  <2>6. PendInv' /\ VerdictInv'
    BY <1>1, <1>3, <2>2 DEF Facts, PendInv, VerdictInv
  <2>7. UsableInv' /\ OutcomeInv'
    BY <1>1, <1>3, <2>1, <2>2 DEF Facts, UsableInv, OutcomeInv, Landed, okAgents
  <2> QED BY <2>3, <2>4, <2>5, <2>6, <2>7 DEF Facts
<1>5. CASE writeTerminationMessage("Failed", "Unknown") /\ proc' = "exit1" /\ UNCHANGED main
  <2>1. tm' \in Messages
    BY <1>5 DEF writeTerminationMessage, Messages
  <2>2. Place' = Place /\ (Succeeds' <=> Succeeds) /\ (Fails' <=> Fails)
    BY <1>5 DEF Place, Succeeds, Fails
  <2>3. Typed'
    BY <1>1, <1>5, <2>1 DEF Typed
  <2>4. Shape' /\ Bounds' /\ ScanInv' /\ SignalInv'
    BY <1>1, <1>5, <2>2 DEF Facts, Shape, Sent, Bounds, ScanInv, SignalInv
  <2>5. PendInv' /\ VerdictInv' /\ UsableInv'
    BY <1>1, <1>5, <2>2 DEF Facts, PendInv, VerdictInv, UsableInv, Landed, okAgents
  <2>6. OutcomeInv'
    BY <1>1, <1>3, <1>5, <2>2 DEF Facts, OutcomeInv, Succeeds, Fails, Closing
  <2> QED BY <2>3, <2>4, <2>5, <2>6 DEF Facts
<1> QED BY <1>4, <1>5 DEF Boot

\* Steps that leave main, the status and what is remembered alone.
LEMMA AsideStep ==
    ASSUME Typed, Facts, UNCHANGED <<kind, mode, ev, main, pend, cm>>,
           rep' \in Reports, rep'.agents = rep.agents, tm' \in Messages,
           crash' \in {"no", "patch", "exit"}, crash' = "no" => crash = "no",
           crash' = "no" => UNCHANGED <<rep, tm>>,
           sig' \in [on : BOOLEAN, after : 0..NAgents], sig'.after = sig.after, sig.on => sig'.on,
           st' \in Statuses, st'.phase = st.phase, st'.res = st.res, st'.risk = st.risk,
           st'.live => st.live,
           hist' \in Hists, hist'.lost = hist.lost, hist'.mal = hist.mal,
           hist'.faults + hist'.lost <= MaxFaults,
           proc' \in {"up", "exit0", "exit1"},
           crash' = "no" /\ main.pc = "return" =>
               proc' \in {proc, IF main.code = 0 THEN "exit0" ELSE "exit1"}
    PROVE  Typed' /\ Facts'
<1>1. Place' = Place /\ (Succeeds' <=> Succeeds) /\ (Fails' <=> Fails)
  BY DEF Place, Succeeds, Fails
<1>2. Typed'
  BY DEF Typed
<1>3. Shape' /\ Bounds'
  BY <1>1 DEF Facts, Shape, Sent, Bounds
<1>4. ScanInv' /\ SignalInv'
  BY <1>1 DEF Facts, ScanInv, SignalInv
<1>5. PendInv' /\ VerdictInv'
  BY <1>1 DEF Facts, PendInv, VerdictInv
<1>6. UsableInv'
  BY <1>1 DEF Facts, UsableInv, Landed, okAgents
<1>7. OutcomeInv'
  BY <1>1 DEF Facts, OutcomeInv
<1> QED BY <1>2, <1>3, <1>4, <1>5, <1>6, <1>7 DEF Facts

\* The process ends, a signal comes, a stray error comes and ends it, the run is
\* deleted.
LEMMA AsideSteps ==
    ASSUME Typed, Facts, Return \/ Signal \/ Crash \/ CrashExit \/ DeleteRun
    PROVE  Typed' /\ Facts'
<1>1. /\ st \in Statuses /\ rep \in Reports /\ tm \in Messages /\ hist \in Hists
      /\ sig \in [on : BOOLEAN, after : 0..NAgents] /\ crash \in {"no", "patch", "exit"}
      /\ hist.faults + hist.lost <= MaxFaults /\ proc \in {"up", "exit0", "exit1"}
  BY DEF Typed, Facts, Bounds
<1>2. CASE Return
  <2>1. UNCHANGED <<kind, mode, st, rep, ev, main, crash, sig, pend, tm, cm, hist>>
    BY <1>2 DEF Return, suite
  <2>2. proc' = IF main.code = 0 THEN "exit0" ELSE "exit1"
    BY <1>2 DEF Return
  <2> QED BY <1>1, <2>1, <2>2, AsideStep
<1>3. CASE Signal
  <2>1. UNCHANGED <<kind, mode, st, rep, ev, main, crash, pend, tm, cm, hist, proc>>
    BY <1>3 DEF Signal, suite
  <2>2. sig' \in [on : BOOLEAN, after : 0..NAgents] /\ sig'.after = sig.after /\ sig'.on
    BY <1>1, <1>3 DEF Signal
  <2> QED BY <1>1, <2>1, <2>2, AsideStep
<1>4. CASE Crash
  <2>1. UNCHANGED <<kind, mode, st, ev, main, sig, pend, cm, proc>> /\ crash' = "patch"
    BY <1>4 DEF Crash, suite
  <2>2. rep' \in Reports /\ rep'.agents = rep.agents
    BY <1>1, <1>4 DEF Crash, Reports
  <2>3. tm' \in Messages
    BY <1>1, <1>4 DEF Crash, writeTerminationMessage, Messages, Reports
  <2>4. FaultIn(hist) /\ hist' = Faulted(hist)
    BY <1>4 DEF Crash
  <2>5. /\ hist' \in Hists /\ hist'.lost = hist.lost /\ hist'.mal = hist.mal
        /\ hist'.faults + hist'.lost <= MaxFaults
    BY <1>1, <2>4, FaultedFields
  <2> QED BY <1>1, <2>1, <2>2, <2>3, <2>5, AsideStep
<1>5. CASE CrashExit
  <2>1. UNCHANGED <<kind, mode, st, rep, ev, main, crash, sig, pend, tm, cm, hist>>
        /\ crash # "no" /\ proc' = "exit1"
    BY <1>5 DEF CrashExit, suite
  <2> QED BY <1>1, <2>1, AsideStep
<1>6. CASE DeleteRun
  <2>1. UNCHANGED <<kind, mode, rep, ev, main, crash, sig, pend, tm, cm, proc>> /\ st.live
    BY <1>6 DEF DeleteRun, suite
  <2>2. /\ st' \in Statuses /\ st'.phase = st.phase /\ st'.res = st.res /\ st'.risk = st.risk
    BY <1>1, <1>6 DEF DeleteRun, Statuses
  <2>3. FaultIn(hist) /\ hist' = Faulted(hist)
    BY <1>6 DEF DeleteRun
  <2>4. /\ hist' \in Hists /\ hist'.lost = hist.lost /\ hist'.mal = hist.mal
        /\ hist'.faults + hist'.lost <= MaxFaults
    BY <1>1, <2>3, FaultedFields
  <2> QED BY <1>1, <2>1, <2>2, <2>4, AsideStep
<1> QED BY <1>2, <1>3, <1>4, <1>5, <1>6

-----------------------------------------------------------------------------
(***************************************************************************)
(* The inductive invariant                                                 *)
(***************************************************************************)

\* It holds before main has done anything.
LEMMA InitFacts == Init => Typed /\ Facts
<1> SUFFICES ASSUME Init PROVE Typed /\ Facts
  OBVIOUS
<1>1. "boot" \in MainPcs /\ 1 \in 1..(NAgents + 1) /\ 0 \in 0..NAgents /\ 0 \in 0..MaxFaults
      /\ MaxFaults \in 0..MaxFaults /\ MaxFaults + 0 <= MaxFaults
  BY EvaluatorAssumption DEF MainPcs
<1>2. /\ main \in Mains /\ main.pc = "boot" /\ main.body = NoBody /\ main.idx = 1 /\ main.code = 0
  BY <1>1, BodyFields DEF Init, Mains
<1>3. /\ hist \in Hists /\ hist.faults = MaxFaults /\ hist.lost = 0 /\ ~hist.mal
  BY <1>1 DEF Init, Hists
<1>4. /\ st \in Statuses /\ st.phase = "" /\ st.risk = "-"
  BY DEF Init, Statuses
<1>5. /\ ev \in Evidence /\ ev.surface = "none" /\ ev.fuzz = "none" /\ ev.probes = "none"
  BY DEF Init, Evidence
<1>6. rep \in Reports /\ tm \in Messages
  BY DEF Init, Reports, Messages
<1>7. sig \in [on : BOOLEAN, after : 0..NAgents] /\ sig.after = 0
  BY <1>1 DEF Init
<1>8. pend = NoBody /\ crash = "no" /\ proc = "up" /\ cm = "none"
      /\ kind \in [Agents -> Kinds] /\ mode \in {"off", "strict", "monitor"}
  BY DEF Init
<1>9. Place = "boot" /\ ~Succeeds /\ ~Fails
  BY <1>2 DEF Place, Succeeds, Fails, Closing
<1>10. Typed
  BY <1>2, <1>3, <1>4, <1>5, <1>6, <1>7, <1>8, BodyFields DEF Typed
<1>11. Shape /\ Bounds
  BY <1>1, <1>2, <1>3, <1>9 DEF Shape, Bounds, Working, Preparing
<1>12. ScanInv /\ SignalInv
  BY <1>5, <1>7 DEF ScanInv, SignalInv
<1>13. PendInv /\ VerdictInv
  BY <1>3, <1>4, <1>8, <1>9, BodyFields DEF PendInv, VerdictInv
<1>14. \A i \in Agents : ~(i < main.idx)
  BY <1>2, EvaluatorAssumption DEF Agents
<1>15. UsableInv /\ OutcomeInv
  BY <1>2, <1>4, <1>9, <1>14 DEF UsableInv, OutcomeInv
<1> QED BY <1>10, <1>11, <1>12, <1>13, <1>15 DEF Facts

\* Every step of main, of the handlers and of the user preserves it.
LEMMA NextFacts == Typed /\ Facts /\ [Next]_vars => Typed' /\ Facts'
<1> SUFFICES ASSUME Typed, Facts, [Next]_vars PROVE Typed' /\ Facts'
  OBVIOUS
<1>1. CASE Main
  BY <1>1, BootStep, MainPatchStep, FetchStep, LoopHeadStep, CollectStep, EnsureTargetStep,
     ExerciseStep, ScanStep, AbortStep, BeginStep, OpenStep, AnswerStep, SynthesizeStep, ScoreStep,
     CompleteStep, FinallyStep, FlushStep, PersistStep, AsideSteps DEF Main
<1>2. CASE Signal \/ Crash \/ CrashExit \/ DeleteRun
  BY <1>2, AsideSteps
<1>3. CASE CrashPatch
  BY <1>3, CrashPatchStep
<1>4. CASE UNCHANGED vars
  <2>1. UNCHANGED <<kind, mode, st, rep, ev, main, crash, sig, pend, tm, cm, proc, hist>>
    BY <1>4 DEF vars
  <2>2. Typed'
    BY <2>1 DEF Typed
  <2>3. Facts'
    BY <2>1 DEF Facts, Shape, Sent, Bounds, ScanInv, SignalInv, PendInv, VerdictInv, UsableInv,
         OutcomeInv, Place, Succeeds, Fails, Landed, okAgents
  <2> QED BY <2>2, <2>3
<1> QED BY <1>1, <1>2, <1>3, <1>4 DEF Next

\* The inductive invariant is an invariant.
LEMMA AlwaysFacts == Spec => [](Typed /\ Facts)
BY InitFacts, NextFacts, PTL DEF Spec

-----------------------------------------------------------------------------
(***************************************************************************)
(* What it gives                                                           *)
(***************************************************************************)

\* The variables keep their types; in particular the loop over the personas ends
\* with the last one, and a fault is never spent that was not there.
THEOREM TypeCorrect == Spec => []TypeOK
<1>1. Typed => TypeOK
  BY TypedIsTypeOK
<1> QED BY <1>1, AlwaysFacts, PTL

\* The gates fail closed for every suite: in strict mode scanUntrusted has cleared the
\* advertised surface and every fuzz and probe response there is before a persona is
\* prompted.  It says nothing of the text that no gate is given (ev.aside).
THEOREM GatesFailClosed == Spec => []GatedTextCleared
<1>1. Typed /\ Facts => GatedTextCleared
  BY DEF Facts, ScanInv, GatedTextCleared, Place, Closing, Typed, Evidence
<1> QED BY <1>1, AlwaysFacts, PTL

\* After SIGTERM at most one more persona is begun, for every suite.
THEOREM SignalHeeded == Spec => []OneAfterSignal
<1>1. Facts => OneAfterSignal
  BY DEF Facts, SignalInv, OneAfterSignal
<1> QED BY <1>1, AlwaysFacts, PTL

\* A status that reads Completed has a usable persona behind it and, unless a patch
\* was given up, a result for each persona, however many there are.
THEOREM CompletedBacked == Spec => []CompletedIsUsable
<1>1. Facts => CompletedIsUsable
  BY DEF Facts, UsableInv, CompletedIsUsable, Landed
<1> QED BY <1>1, AlwaysFacts, PTL

\* A process that ends by itself has told the same by its exit code, its termination
\* message and, with at most one patch given up, the status.
THEOREM ExitAgrees == Spec => []ExitTellsStatus
<1>1. Typed /\ Facts => ExitTellsStatus
  <2> SUFFICES ASSUME Typed, Facts, proc \in {"exit0", "exit1"}, main.pc = "return", crash = "no"
               PROVE  /\ (proc = "exit0") <=> (tm.phase = "Completed")
                      /\ st.live /\ hist.lost <= 1 => st.phase = tm.phase
    BY DEF ExitTellsStatus
  <2>1. main.code \in {0, 1} /\ Place = "return" /\ Place \in Closing
    BY DEF Typed, Mains, Place, Closing
  <2>2. CASE main.code = 0
    BY <2>1, <2>2 DEF Facts, OutcomeInv, Succeeds
  <2>3. CASE main.code = 1
    BY <2>1, <2>3 DEF Facts, OutcomeInv, Fails
  <2> QED BY <2>1, <2>2, <2>3
<1> QED BY <1>1, AlwaysFacts, PTL

\* A Malicious verdict in the status is never taken back, and the run stays Failed:
\* not by main's catch, nor by fatalCrash, nor by the flush of an older patch.
THEOREM VerdictFinal == Spec => MaliciousSticks
<1>1. ASSUME Typed, Facts, [Next]_vars, st.risk = "Malicious", Typed', Facts'
      PROVE  st'.risk = "Malicious" /\ st'.phase = "Failed"
  <2>1. hist.mal /\ (Place = "abort" \/ Fails) /\ ~Succeeds
    BY <1>1 DEF Facts, VerdictInv, Fails, Succeeds, Closing
  <2>2. SUFFICES st'.risk = "Malicious"
    BY <1>1 DEF Facts, VerdictInv
  <2>3. CASE MainPatch
    <3>1. main.pc = "patch" /\ patchStatus(main.body)
      BY <2>3 DEF MainPatch, At
    <3>2. main.body \in {MaliciousPatch, FailedPatch} /\ main.body \in Body
      BY <1>1, <2>1, <3>1, SentFields DEF Fails, Closing
    <3>3. st' = st \/ st' = Apply(st, main.body)
      BY <1>1, <3>1, <3>2, PatchOutcome
    <3>4. Apply(st, main.body).risk = IF main.body.risk = "-" THEN st.risk ELSE main.body.risk
      BY <1>1, <3>2, ApplyFields DEF Typed
    <3> QED BY <1>1, <3>2, <3>3, <3>4, BodyFields
  <2>4. CASE CrashPatch
    <3>1. st' = st \/ st' = Apply(st, FailedPatch)
      BY <1>1, <2>4, BodyFields, PatchOutcome DEF CrashPatch
    <3>2. FailedPatch \in Body /\ FailedPatch.risk = "-"
      BY BodyFields
    <3>3. Apply(st, FailedPatch).risk = st.risk
      BY <1>1, <3>2, ApplyFields DEF Typed
    <3> QED BY <1>1, <3>1, <3>3
  <2>5. CASE flushTerminalPatch
    <3>1. st' = st \/ st' = Apply(st, pend)
      BY <2>5 DEF flushTerminalPatch
    <3>2. pend \in Body /\ pend.risk \in {"-", "Malicious"}
      BY <1>1, BodyFields DEF Facts, PendInv
    <3> QED BY <1>1, <3>1, <3>2, ApplyFields DEF Typed
  <2>6. CASE DeleteRun
    BY <1>1, <2>6 DEF DeleteRun, Typed, Statuses
  <2>7. CASE UNCHANGED st
    BY <1>1, <2>7
  <2>8. MainPatch \/ CrashPatch \/ flushTerminalPatch \/ DeleteRun \/ UNCHANGED st
    <3>1. CASE Main
      BY <3>1 DEF Main, Boot, FetchCRs, LoopHead, Collect, EnsureTarget, Exercise, scanUntrusted, Abort,
           Begin, bootOpencode, Answer, Synthesize, Score, Complete, Finally, Persist, Return, rest
    <3>2. CASE Signal \/ Crash \/ CrashExit
      BY <3>2 DEF Signal, Crash, CrashExit
    <3>3. CASE UNCHANGED vars
      BY <3>3 DEF vars
    <3> QED BY <1>1, <3>1, <3>2, <3>3 DEF Next
  <2> QED BY <2>3, <2>4, <2>5, <2>6, <2>7, <2>8
<1>2. Typed /\ Facts /\ [Next]_vars /\ Typed' /\ Facts'
         => [st.risk = "Malicious" => st'.risk = "Malicious" /\ st'.phase = "Failed"]_st
  BY <1>1
<1> QED BY <1>2, AlwaysFacts, NextFacts, PTL DEF Spec, MaliciousSticks
=============================================================================
