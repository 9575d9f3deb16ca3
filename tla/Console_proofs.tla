--------------------------- MODULE Console_proofs ---------------------------
(***************************************************************************)
(* Proofs about Console, for every number of panels, questions, runs and   *)
(* servers and every limit: the types, SessionOfRun, HopsComplete and      *)
(* SlotsBalanced of the chat, StoreMirrored and LogExact of the live view. *)
(* The inductive invariant of the chat (IInv) says, beside the types:      *)
(*                                                                         *)
(*  - Asking: for every question, where its handler is, which session it   *)
(*    uses, and what that session was told;                                *)
(*  - Entries: an entry of sessionRun never contradicts what the session   *)
(*    was told, nor what it is about to be told;                           *)
(*  - Given: a browser has only sessions of answered questions, told of a  *)
(*    run exactly if the panel asks about runs;                            *)
(*  - Ring: the journal is the last entries, without a hole, and all of    *)
(*    them while it is not full; no cursor is ahead of it;                 *)
(*  - SlotsBalanced itself.                                                *)
(*                                                                         *)
(* That of the live view (LiveInv) says, beside the types:                 *)
(*                                                                         *)
(*  - Reading: what each LogFollower has read of which run;                *)
(*  - LogsAhead: after each of the messages on the socket, and not only    *)
(*    after the last, the browser's logs are beginnings of the evaluators': *)
(*    a loss of the socket can leave the browser with any of them;         *)
(*  - BatchesAddUp: what was sent, and will be handled, is all a follower  *)
(*    has read but what is pending;                                        *)
(*  - StoreMirrored itself.                                                *)
(***************************************************************************)
EXTENDS Console, Iteration, FiniteSetTheorems, SequenceTheorems, TLAPS

Early == {"none", "body", "cursor", "session"}
Late == {"answer", "journal"}
Admitted == {"cursor", "session", "answer", "journal"}

Asks == [pc : {"none", "body", "cursor", "session", "answer", "journal", "done"},
         p : Panels \cup {Nobody}, run : Topics \cup {Plain}, req : 0..MaxQuestions,
         ctx : BOOLEAN, cur : Nat, ses : 0..MaxQuestions]
Jobs == [st : {"none", "running", "done", "refused", "lost"}, calls : Nat,
         run : Topics \cup {Plain}, ses : 0..MaxQuestions]
Served == {x \in Callers : gw[x] \in {"serving", "replied"}}

\* The types of the chat's state.
Typed ==
    /\ saved \in [Panels -> SUBSET Questions]
    /\ ask \in [Questions -> Asks] /\ busy \in BOOLEAN
    /\ sessionRun \in Seq(Questions \X Topics) /\ Len(sessionRun) <= MaxSessions
    /\ known \subseteq Questions
    /\ told \in [Questions -> SUBSET Topics]
    /\ job \in [Questions -> Jobs] /\ outages \in Nat
    /\ gw \in [Callers -> {"none", "arrived", "serving", "replied", "refused"}]
    /\ used \in Nat /\ journal \in Seq(Nat) /\ last \in Nat

\* A handler of question q in state a, and the session it uses.
Sound(q, a) ==
    /\ a.pc \in {"none", "done"} => a.req = 0
    /\ a.pc \notin {"none", "done"} => a.p \in Panels /\ (a.run = Plain <=> a.p \in PlainPanels)
    /\ a.req # 0 => /\ a.req # q /\ ask[a.req].pc = "done"
                    /\ a.run = Plain => told[a.req] = {}
                    /\ a.run # Plain /\ a.pc = "body" => told[a.req] # {}
                    /\ a.run # Plain /\ a.pc # "body" => told[a.req] = {a.run}
    /\ a.pc = "session" => a.req = 0
    /\ a.pc \in Late => a.ses = IF a.req = 0 THEN q ELSE a.req
    /\ a.pc \in Admitted => (a.ctx <=> a.run # Plain /\ a.req = 0)
    /\ a.pc \in Early => told[q] = {} /\ job[q].st = "none"
    /\ a.pc \in Late /\ a.req = 0 =>
         /\ a.run = Plain \/ job[q].st = "none" => told[q] = {}
         /\ a.run # Plain /\ job[q].st \in {"running", "done"} => told[q] = {a.run}
    /\ a.pc = "journal" => job[q].st = "done"

Asking == \A q \in Questions : Sound(q, ask[q])

\* What sessionRun says of session s.
Entry(s, r) ==
    /\ told[s] \subseteq {r}
    /\ ask[s].pc \in Late \cup {"done"}
    /\ ask[s].pc \in Late => ask[s].run = r

Entries == \A i \in DOMAIN sessionRun : Entry(sessionRun[i][1], sessionRun[i][2])

Given == \A p \in Panels : \A s \in saved[p] :
             ask[s].pc = "done" /\ (p \in PlainPanels <=> told[s] = {})

Ring ==
    /\ \A i \in DOMAIN journal : journal[i] = last - Len(journal) + i
    /\ Len(journal) <= last /\ Len(journal) <= JournalSize
    /\ Len(journal) < JournalSize => Len(journal) = last

Cursors == \A q \in Questions : ask[q].cur <= last

IInv == Typed /\ Asking /\ Entries /\ Given /\ SessionOfRun /\ Ring /\ Cursors /\ SlotsBalanced
-----------------------------------------------------------------------------
(***************************************************************************)
(* Sessions.                                                               *)
(***************************************************************************)
Sessions == Asking /\ Entries /\ Given /\ SessionOfRun

\* The numbers among the constants.
LEMMA Limits ==
    /\ MaxQuestions \in Nat /\ MaxSessions \in Nat /\ JournalSize \in Nat /\ MaxInflight \in Nat
    /\ MaxCalls \in Nat /\ MaxOutages \in Nat
    /\ PlainPanels \subseteq Panels /\ Plain \notin Topics /\ Nobody \notin Topics
  BY ChatAssumption

\* An entry of sessionRun after a step of question q's handler to v: an old one,
\* or the one of the session v uses.
Remembered(q, v, e) ==
    \/ \E j \in DOMAIN sessionRun : e = sessionRun[j]
    \/ /\ e = <<v.ses, v.run>> /\ v.pc \in Late
       /\ told[v.ses] \subseteq {v.run}
       /\ v.ses = q \/ ask[v.ses].pc = "done"

\* A session in a browser after the step: an old one, or that of an answer.
Handed(q, v, p, s) ==
    \/ s \in saved[p]
    \/ /\ (s = q /\ v.pc = "done") \/ ask[s].pc = "done"
       /\ p \in PlainPanels <=> told[s] = {}

\* A handler goes on from a to v: it does not start over, and its run stays.
Moves(a, v) ==
    /\ a.pc # "done"
    /\ v.pc \in Early => a.pc \in Early
    /\ v.pc \in Late => v.run = a.run

\* A step of a handler keeps what is known of sessions.
LEMMA AskStep ==
    ASSUME Typed, Sessions, NEW q \in Questions, NEW v \in Asks,
           ask' = [ask EXCEPT ![q] = v], UNCHANGED <<told, job>>,
           Moves(ask[q], v), Sound(q, v),
           sessionRun' \in Seq(Questions \X Topics),
           \A i \in DOMAIN sessionRun' : Remembered(q, v, sessionRun'[i]),
           saved' \in [Panels -> SUBSET Questions],
           \A p \in Panels : \A s \in saved'[p] : Handed(q, v, p, s)
    PROVE  Sessions'
  <1>0. /\ ask \in [Questions -> Asks] /\ ask'[q] = v
        /\ \A x \in Questions : x # q => ask'[x] = ask[x]
        /\ \A x \in Questions : ask[x].pc = "done" => ask'[x] = ask[x]
    BY DEF Typed, Moves
  <1>1. Asking'
    <2> SUFFICES ASSUME NEW x \in Questions PROVE Sound(x, ask[x])'
      BY DEF Asking
    <2>1. Sound(x, ask'[x])
      <3>1. CASE x = q
        BY <1>0, <3>1
      <3>2. CASE x # q
        BY <1>0, <3>2 DEF Sessions, Asking
      <3> QED
        BY <3>1, <3>2
    <2>2. ask'[x] \in Asks
      BY <1>0
    <2>3. ask'[x].req # 0 => ask'[ask'[x].req] = ask[ask'[x].req]
      <3>1. ask'[x].req # 0 => ask'[x].req \in Questions
        BY <2>2, Limits DEF Asks, Questions
      <3>2. ask'[x].req # 0 => ask[ask'[x].req].pc = "done"
        BY <2>1 DEF Sound
      <3> QED
        BY <3>1, <3>2, <1>0
    <2> QED
      BY <2>1, <2>3 DEF Sound
  <1>2. Entries'
    <2> SUFFICES ASSUME NEW i \in DOMAIN sessionRun'
                 PROVE  Entry(sessionRun[i][1], sessionRun[i][2])'
      BY DEF Entries
    <2> DEFINE s == sessionRun'[i][1]
               r == sessionRun'[i][2]
    <2>1. s \in Questions /\ r \in Topics
      <3>1. sessionRun'[i] \in Questions \X Topics
        BY ElementOfSeq
      <3> QED
        BY <3>1
    <2>2. Remembered(q, v, sessionRun'[i])
      OBVIOUS
    <2>3. CASE \E j \in DOMAIN sessionRun : sessionRun'[i] = sessionRun[j]
      <3>1. Entry(s, r)
        BY <2>3 DEF Sessions, Entries
      <3>2. CASE s = q
        BY <1>0, <3>1, <3>2 DEF Entry, Moves, Late, Early, Asks
      <3>3. CASE s # q
        BY <1>0, <2>1, <3>1, <3>3 DEF Entry
      <3> QED
        BY <3>2, <3>3
    <2>4. CASE /\ sessionRun'[i] = <<v.ses, v.run>> /\ v.pc \in Late
               /\ told[v.ses] \subseteq {v.run}
               /\ v.ses = q \/ ask[v.ses].pc = "done"
      <3>1. s = v.ses /\ r = v.run
        BY <2>4
      <3> QED
        BY <1>0, <2>1, <2>4, <3>1 DEF Entry, Late
    <2> QED
      BY <2>2, <2>3, <2>4 DEF Remembered
  <1>3. Given'
    <2> SUFFICES ASSUME NEW p \in Panels, NEW s \in saved'[p]
                 PROVE  ask'[s].pc = "done" /\ (p \in PlainPanels <=> told[s] = {})
      BY DEF Given
    <2>1. s \in Questions
      OBVIOUS
    <2>2. CASE s \in saved[p]
      BY <1>0, <2>1, <2>2 DEF Sessions, Given
    <2>3. CASE s \notin saved[p]
      BY <1>0, <2>1, <2>3 DEF Handed
    <2> QED
      BY <2>2, <2>3
  <1>4. SessionOfRun'
    BY DEF Sessions, SessionOfRun
  <1> QED
    BY <1>1, <1>2, <1>3, <1>4 DEF Sessions

\* A handler goes to another place.
LEMMA GotoFields ==
    ASSUME NEW a \in Asks, NEW pc \in {"none", "body", "cursor", "session", "answer", "journal", "done"}
    PROVE  /\ [a EXCEPT !.pc = pc] \in Asks
           /\ [a EXCEPT !.pc = pc].pc = pc /\ [a EXCEPT !.pc = pc].p = a.p
           /\ [a EXCEPT !.pc = pc].run = a.run /\ [a EXCEPT !.pc = pc].req = a.req
           /\ [a EXCEPT !.pc = pc].ctx = a.ctx /\ [a EXCEPT !.pc = pc].cur = a.cur
           /\ [a EXCEPT !.pc = pc].ses = a.ses
  BY DEF Asks

\* No question.
LEMMA NoAskFields ==
    /\ NoAsk \in Asks /\ NoAsk.pc = "none" /\ NoAsk.req = 0 /\ NoAsk.cur = 0 /\ NoAsk.ses = 0
    /\ NoAsk.run = Plain /\ NoAsk.p = Nobody /\ NoAsk.ctx = FALSE
  <1>1. 0 \in 0..MaxQuestions /\ 0 \in Nat /\ FALSE \in BOOLEAN
    BY Limits
  <1>2. NoAsk \in Asks
    BY <1>1, Zenon DEF Asks, NoAsk
  <1> QED
    BY <1>2 DEF NoAsk

\* A handler ends with a reply.
LEMMA ReplyStep ==
    ASSUME Typed, Sessions, NEW q \in Questions, ask[q].pc \notin {"none", "done"},
           NEW status \in {200, 409, 429, 502}, Reply(q, status),
           UNCHANGED <<told, job, sessionRun>>, status = 200 => ask[q].pc = "journal"
    PROVE  /\ Sessions' /\ ask' \in [Questions -> Asks] /\ saved' \in [Panels -> SUBSET Questions]
           /\ \A x \in Questions : ask'[x].cur \in {ask[x].cur, 0}
  <1> DEFINE a == ask[q]
             v == [NoAsk EXCEPT !.pc = "done"]
  <1>0. a \in Asks /\ Sound(q, a) /\ a.p \in Panels /\ (a.run = Plain <=> a.p \in PlainPanels)
    <2>1. a \in Asks /\ Sound(q, a)
      BY DEF Typed, Sessions, Asking
    <2> QED
      BY <2>1 DEF Sound
  <1>1. v \in Asks /\ v.pc = "done" /\ v.req = 0 /\ v.cur = 0
    BY NoAskFields, GotoFields, ZenonT(30)
  <1>2. ask' = [ask EXCEPT ![q] = v]
    BY Zenon DEF Reply, SetAsk
  <1>3. Sound(q, v) /\ Moves(a, v)
    <2> HIDE DEF v, a
    <2> QED BY <1>1 DEF Sound, Moves, Early, Late, Admitted, a
  <1>4. saved' = CASE status = 200 -> [saved EXCEPT ![a.p] = @ \cup {a.ses}]
                   [] status = 409 -> [saved EXCEPT ![a.p] = @ \ {a.req}]
                   [] OTHER -> saved
    BY DEF Reply
  <1>5. status = 200 => /\ a.ses \in Questions /\ (a.ses = q \/ ask[a.ses].pc = "done")
                        /\ a.p \in PlainPanels <=> told[a.ses] = {}
    <2> SUFFICES ASSUME status = 200
                 PROVE  /\ a.ses \in Questions /\ (a.ses = q \/ ask[a.ses].pc = "done")
                        /\ a.p \in PlainPanels <=> told[a.ses] = {}
      OBVIOUS
    <2>1. a.pc = "journal" /\ job[q].st = "done" /\ a.ses = IF a.req = 0 THEN q ELSE a.req
      BY <1>0 DEF Sound, Late
    <2>2. a.req \in 0..MaxQuestions
      BY <1>0 DEF Asks
    <2> HIDE DEF a
    <2>3. CASE a.req = 0
      BY <1>0, <2>1, <2>3 DEF Sound, Late
    <2>4. CASE a.req # 0
      BY <1>0, <2>1, <2>2, <2>4, Limits DEF Sound, Late, Questions
    <2> QED
      BY <2>3, <2>4
  <1> HIDE DEF v, a
  <1>6. /\ saved' \in [Panels -> SUBSET Questions]
        /\ \A p \in Panels : \A s \in saved'[p] : Handed(q, v, p, s)
    <2>0. saved \in [Panels -> SUBSET Questions]
      BY DEF Typed
    <2>1. CASE status = 200
      <3>1. saved' = [saved EXCEPT ![a.p] = @ \cup {a.ses}]
        BY <1>4, <2>1
      <3> QED
        BY <1>0, <1>1, <1>5, <2>0, <2>1, <3>1 DEF Handed
    <2>2. CASE status = 409
      <3>1. saved' = [saved EXCEPT ![a.p] = @ \ {a.req}]
        BY <1>4, <2>2
      <3> QED
        BY <1>0, <2>0, <3>1 DEF Handed
    <2>3. CASE status \notin {200, 409}
      <3>1. saved' = saved
        BY <1>4, <2>3
      <3> QED
        BY <2>0, <3>1 DEF Handed
    <2> QED
      BY <2>1, <2>2, <2>3
  <1>7. /\ sessionRun' \in Seq(Questions \X Topics)
        /\ \A i \in DOMAIN sessionRun' : Remembered(q, v, sessionRun'[i])
    BY DEF Typed, Remembered
  <1>8. Sessions'
    BY <1>1, <1>2, <1>3, <1>6, <1>7, AskStep DEF a
  <1>9. ask' \in [Questions -> Asks] /\ \A x \in Questions : ask'[x].cur \in {ask[x].cur, 0}
    BY <1>1, <1>2 DEF Typed
  <1> QED
    BY <1>6, <1>8, <1>9

\* A handler goes on, and the browser learns nothing.
LEMMA QuietAskStep ==
    ASSUME Typed, Sessions, NEW q \in Questions, NEW v \in Asks,
           ask' = [ask EXCEPT ![q] = v], UNCHANGED <<told, job, sessionRun, saved>>,
           Moves(ask[q], v), Sound(q, v)
    PROVE  Sessions' /\ ask' \in [Questions -> Asks]
  <1>1. /\ sessionRun' \in Seq(Questions \X Topics)
        /\ \A i \in DOMAIN sessionRun' : Remembered(q, v, sessionRun'[i])
        /\ saved' \in [Panels -> SUBSET Questions]
        /\ \A p \in Panels : \A s \in saved'[p] : Handed(q, v, p, s)
    BY DEF Typed, Remembered, Handed
  <1> QED
    BY <1>1, AskStep DEF Typed

\* ask of useChat.
LEMMA AskSessions ==
    ASSUME Typed, Sessions, NEW p \in Panels, Ask(p)
    PROVE  /\ Sessions' /\ ask' \in [Questions -> Asks]
           /\ \A x \in Questions : ask'[x].cur \in {ask[x].cur, 0}
  <1>1. PICK q \in Questions, r \in Topics \cup {Plain}, s \in saved[p] \cup {0} :
             /\ r = Plain <=> p \in PlainPanels
             /\ ask[q].pc = "none" /\ \A k \in 1..(q - 1) : ask[k].pc # "none"
             /\ ask' = [ask EXCEPT ![q] = [NoAsk EXCEPT !.pc = "body", !.p = p, !.run = r, !.req = s]]
    BY Zenon DEF Ask
  <1> DEFINE v == [NoAsk EXCEPT !.pc = "body", !.p = p, !.run = r, !.req = s]
  <1>2. s \in 0..MaxQuestions /\ (s # 0 => s \in Questions /\ s \in saved[p])
    <2>1. saved[p] \subseteq Questions
      BY DEF Typed
    <2> QED
      BY <2>1, Limits DEF Questions
  <1>3. v \in Asks /\ v.pc = "body" /\ v.p = p /\ v.run = r /\ v.req = s /\ v.cur = 0
    <2>1. NoAsk \in Asks /\ NoAsk.cur = 0
      BY NoAskFields
    <2> HIDE DEF NoAsk
    <2> QED
      BY <1>2, <2>1 DEF Asks
  <1> HIDE DEF v
  <1>4. ask' = [ask EXCEPT ![q] = v]
    BY <1>1 DEF v
  <1>5. Sound(q, v) /\ Moves(ask[q], v)
    <2>1. told[q] = {} /\ job[q].st = "none"
      BY <1>1 DEF Sessions, Asking, Sound, Early
    <2>2. s # 0 => ask[s].pc = "done" /\ (p \in PlainPanels <=> told[s] = {})
      BY <1>2 DEF Sessions, Given
    <2>3. s # 0 => s # q
      BY <1>1, <2>2
    <2> QED
      BY <1>1, <1>3, <2>1, <2>2, <2>3 DEF Sound, Moves, Early, Late, Admitted
  <1>6. UNCHANGED <<told, job, sessionRun, saved>>
    BY DEF Ask, opencode
  <1>7. Sessions' /\ ask' \in [Questions -> Asks]
    BY <1>3, <1>4, <1>5, <1>6, QuietAskStep
  <1>8. \A x \in Questions : ask'[x].cur \in {ask[x].cur, 0}
    BY <1>3, <1>4 DEF Typed
  <1> QED
    BY <1>7, <1>8

\* What sessionRun remembers of a session is what the session was told of.
LEMMA RunOfEntry ==
    ASSUME Typed, Sessions, NEW s \in Questions, NEW r \in Topics, RunOf(s) = r
    PROVE  told[s] \subseteq {r}
  <1>1. \E i \in DOMAIN sessionRun : sessionRun[i][1] = s
    BY Limits DEF RunOf
  <1>2. PICK i \in DOMAIN sessionRun : sessionRun[i][1] = s /\ sessionRun[i][2] = r
    <2> DEFINE k == CHOOSE i \in DOMAIN sessionRun : sessionRun[i][1] = s
    <2>1. k \in DOMAIN sessionRun /\ sessionRun[k][1] = s
      BY <1>1
    <2>2. sessionRun[k][2] = r
      BY <1>1 DEF RunOf
    <2> QED
      BY <2>1, <2>2
  <1> QED
    BY <1>2 DEF Sessions, Entries, Entry

\* A question is let in or turned away.
LEMMA AdmitSessions ==
    ASSUME Typed, Sessions, NEW q \in Questions, Admit(q)
    PROVE  /\ Sessions' /\ ask' \in [Questions -> Asks] /\ saved' \in [Panels -> SUBSET Questions]
           /\ \A x \in Questions : ask'[x].cur \in {ask[x].cur, 0}
           /\ busy' \in BOOLEAN
  <1> DEFINE a == ask[q]
             req == IF a.run # Plain /\ RunOf(a.req) # a.run THEN 0 ELSE a.req
             ctx == a.run # Plain /\ req = 0
             v == [a EXCEPT !.pc = "cursor", !.req = req, !.ctx = ctx]
  <1>0. UNCHANGED <<told, job, sessionRun>> /\ a.pc = "body"
    BY DEF Admit, opencode
  <1>1. a \in Asks /\ Sound(q, a)
    BY DEF Typed, Sessions, Asking
  <1>2. CASE ~busy /\ busy' = TRUE /\ SetAsk(q, v) /\ UNCHANGED saved
    <2>1. req \in 0..MaxQuestions /\ ctx \in BOOLEAN
      BY <1>1, Limits DEF Asks
    <2>2. v \in Asks
      <3> HIDE DEF a, req, ctx
      <3>1. a \in [pc : {"none", "body", "cursor", "session", "answer", "journal", "done"},
                   p : Panels \cup {Nobody}, run : Topics \cup {Plain}, req : 0..MaxQuestions,
                   ctx : BOOLEAN, cur : Nat, ses : 0..MaxQuestions]
        BY <1>1 DEF Asks
      <3> QED
        BY <2>1, <3>1, Zenon DEF Asks
    <2>3. v.pc = "cursor" /\ v.req = req /\ v.ctx = ctx /\ v.run = a.run /\ v.p = a.p /\ v.cur = a.cur
      <3> HIDE DEF a, req, ctx
      <3> QED
        BY <1>1 DEF Asks
    <2>4. req # 0 => /\ req = a.req /\ req # q /\ ask[req].pc = "done"
                     /\ a.run = Plain => told[req] = {}
                     /\ a.run # Plain => told[req] = {a.run}
      <3> SUFFICES ASSUME req # 0
                   PROVE  /\ req = a.req /\ req # q /\ ask[req].pc = "done"
                          /\ a.run = Plain => told[req] = {}
                          /\ a.run # Plain => told[req] = {a.run}
        OBVIOUS
      <3>1. req = a.req /\ (a.run # Plain => RunOf(req) = a.run)
        OBVIOUS
      <3>2. /\ req # q /\ ask[req].pc = "done" /\ (a.run = Plain => told[req] = {})
            /\ a.run # Plain => told[req] # {}
        BY <1>0, <1>1, <3>1 DEF Sound
      <3>3. req \in Questions /\ a.run \in Topics \cup {Plain}
        BY <1>1, <3>1, Limits DEF Asks, Questions
      <3>4. a.run # Plain => told[req] \subseteq {a.run}
        BY <3>1, <3>3, RunOfEntry
      <3> QED
        BY <3>1, <3>2, <3>4
    <2>5. told[q] = {} /\ job[q].st = "none" /\ a.p \in Panels /\ (a.run = Plain <=> a.p \in PlainPanels)
      BY <1>0, <1>1 DEF Sound, Early
    <2>6. ctx <=> a.run # Plain /\ req = 0
      OBVIOUS
    <2>7. ask' = [ask EXCEPT ![q] = v]
      BY <1>2 DEF SetAsk
    <2> HIDE DEF v, req, ctx
    <2>8. Sound(q, v) /\ Moves(ask[q], v)
      BY <1>0, <2>3, <2>4, <2>5, <2>6 DEF Sound, Moves, Early, Late, Admitted
    <2>9. Sessions' /\ ask' \in [Questions -> Asks]
      BY <1>0, <1>2, <2>2, <2>7, <2>8, QuietAskStep
    <2>10. \A x \in Questions : ask'[x].cur \in {ask[x].cur, 0}
      BY <2>3, <2>7 DEF Typed
    <2>11. saved' \in [Panels -> SUBSET Questions] /\ busy' \in BOOLEAN
      BY <1>2 DEF Typed
    <2> QED
      BY <2>9, <2>10, <2>11
  <1>3. CASE UNCHANGED busy /\ Reply(q, 429)
    <2>1. ask[q].pc \notin {"none", "done"}
      BY <1>0
    <2>2. busy' \in BOOLEAN
      BY <1>3 DEF Typed
    <2> QED
      BY <1>0, <1>3, <2>1, <2>2, ReplyStep
  <1> QED
    BY <1>2, <1>3 DEF Admit

\* rememberSession adds an entry or rewrites that of the session, and stays within
\* the limit.
LEMMA RememberSession ==
    ASSUME Typed, NEW s \in Questions, NEW r \in Topics
    PROVE  /\ rememberSession(s, r) \in Seq(Questions \X Topics)
           /\ Len(rememberSession(s, r)) <= MaxSessions
           /\ \A i \in DOMAIN rememberSession(s, r) :
                 \/ \E j \in DOMAIN sessionRun : rememberSession(s, r)[i] = sessionRun[j]
                 \/ rememberSession(s, r)[i] = <<s, r>>
  <1> DEFINE E == Questions \X Topics
             e == <<s, r>>
             set == IF RunOf(s) = Nobody THEN Append(sessionRun, e)
                    ELSE [i \in DOMAIN sessionRun |-> IF sessionRun[i][1] = s THEN e ELSE sessionRun[i]]
             Old(x) == \/ \E j \in DOMAIN sessionRun : x = sessionRun[j]
                       \/ x = e
  <1>1. sessionRun \in Seq(E) /\ e \in E /\ Len(sessionRun) <= MaxSessions /\ Len(sessionRun) \in Nat
    BY LenProperties DEF Typed
  <1>2. set \in Seq(E) /\ Len(set) <= MaxSessions + 1 /\ \A i \in 1..Len(set) : Old(set[i])
    <2>1. CASE RunOf(s) = Nobody
      <3>1. set = Append(sessionRun, e)
        BY <2>1
      <3> HIDE DEF E, e, set
      <3>2. /\ set \in Seq(E) /\ Len(set) = Len(sessionRun) + 1 /\ set[Len(sessionRun) + 1] = e
            /\ \A i \in 1..Len(sessionRun) : set[i] = sessionRun[i]
        BY <1>1, <3>1, AppendProperties
      <3>3. DOMAIN sessionRun = 1..Len(sessionRun)
        BY <1>1
      <3> QED
        BY <1>1, <3>2, <3>3, Limits
    <2>2. CASE RunOf(s) # Nobody
      <3>1. set = [i \in 1..Len(sessionRun) |-> IF sessionRun[i][1] = s THEN e ELSE sessionRun[i]]
        BY <1>1, <2>2
      <3> HIDE DEF E, e, set
      <3>2. DOMAIN sessionRun = 1..Len(sessionRun) /\ \A i \in 1..Len(sessionRun) : sessionRun[i] \in E
        BY <1>1, ElementOfSeq
      <3>3. set \in [1..Len(sessionRun) -> E] /\ \A i \in 1..Len(sessionRun) : Old(set[i])
        BY <1>1, <3>1, <3>2
      <3>4. set \in Seq(E) /\ Len(set) = Len(sessionRun)
        BY <1>1, <3>3
      <3> QED
        BY <1>1, <3>3, <3>4, Limits
    <2> QED
      BY <2>1, <2>2
  <1>3. rememberSession(s, r) = IF Len(set) > MaxSessions THEN Tail(set) ELSE set
    BY DEF rememberSession
  <1> HIDE DEF E, set, Old
  <1>4. /\ rememberSession(s, r) \in Seq(E) /\ Len(rememberSession(s, r)) <= MaxSessions
        /\ \A i \in 1..Len(rememberSession(s, r)) : Old(rememberSession(s, r)[i])
    <2>1. CASE Len(set) > MaxSessions
      <3>1. set # <<>>
        BY <1>2, <2>1, Limits
      <3>2. /\ Tail(set) \in Seq(E) /\ Len(Tail(set)) = Len(set) - 1 /\ Len(set) \in Nat
            /\ \A i \in 1..Len(Tail(set)) : Tail(set)[i] = set[i + 1]
        BY <1>2, <3>1
      <3> QED
        BY <1>2, <1>3, <2>1, <3>2, Limits
    <2>2. CASE ~(Len(set) > MaxSessions)
      <3>1. Len(set) \in Nat
        BY <1>2, LenProperties
      <3> QED
        BY <1>2, <1>3, <2>2, <3>1, Limits
    <2> QED
      BY <2>1, <2>2
  <1>5. DOMAIN rememberSession(s, r) = 1..Len(rememberSession(s, r))
    BY <1>4
  <1> QED
    BY <1>4, <1>5 DEF E, Old

\* The message is posted in the session v.ses.
LEMMA PostSessions ==
    ASSUME Typed, Sessions, NEW q \in Questions, NEW v \in Asks,
           ask[q].pc \in {"cursor", "session"}, Post(q, v), UNCHANGED <<saved, told, job>>,
           v.p = ask[q].p, v.run = ask[q].run, v.req = ask[q].req, v.ctx = ask[q].ctx,
           v.ses = IF v.req = 0 THEN q ELSE v.req
    PROVE  /\ Sessions' /\ ask' \in [Questions -> Asks]
           /\ sessionRun' \in Seq(Questions \X Topics) /\ Len(sessionRun') <= MaxSessions
           /\ \A x \in Questions : ask'[x].cur \in {ask[x].cur, v.cur}
  <1> DEFINE w == [v EXCEPT !.pc = "answer"]
  <1>1. /\ w \in Asks /\ w.pc = "answer" /\ w.p = v.p /\ w.run = v.run /\ w.req = v.req
        /\ w.ctx = v.ctx /\ w.cur = v.cur /\ w.ses = v.ses
    BY GotoFields
  <1>2. ask' = [ask EXCEPT ![q] = w]
    BY DEF Post, SetAsk
  <1> HIDE DEF w
  <1>3. Sound(q, ask[q]) /\ ask[q] \in Asks
    BY DEF Typed, Sessions, Asking
  <1>4. Sound(q, w) /\ Moves(ask[q], w)
    BY <1>1, <1>3 DEF Sound, Moves, Early, Late, Admitted
  <1>5. /\ v.ses \in Questions
        /\ v.run # Plain => told[v.ses] \subseteq {v.run}
        /\ v.ses = q \/ ask[v.ses].pc = "done"
    <2>1. CASE v.req = 0
      BY <1>3, <2>1 DEF Sound, Early
    <2>2. CASE v.req # 0
      <3>1. v.ses = v.req /\ v.req \in Questions
        BY <2>2, Limits DEF Asks, Questions
      <3> QED
        BY <1>3, <2>2, <3>1 DEF Sound
    <2> QED
      BY <2>1, <2>2
  <1>6. /\ sessionRun' \in Seq(Questions \X Topics) /\ Len(sessionRun') <= MaxSessions
        /\ \A i \in DOMAIN sessionRun' : Remembered(q, w, sessionRun'[i])
    <2>1. CASE v.run = Plain
      <3>1. sessionRun' = sessionRun
        BY <2>1 DEF Post
      <3> QED
        BY <3>1 DEF Typed, Remembered
    <2>2. CASE v.run # Plain
      <3>1. sessionRun' = rememberSession(v.ses, v.run) /\ v.run \in Topics
        BY <2>2 DEF Post, Asks
      <3> HIDE DEF rememberSession
      <3>2. /\ sessionRun' \in Seq(Questions \X Topics) /\ Len(sessionRun') <= MaxSessions
            /\ \A i \in DOMAIN sessionRun' : \/ \E j \in DOMAIN sessionRun : sessionRun'[i] = sessionRun[j]
                                             \/ sessionRun'[i] = <<v.ses, v.run>>
        BY <1>5, <3>1, RememberSession
      <3> QED
        BY <1>1, <1>5, <2>2, <3>2 DEF Remembered, Late
    <2> QED
      BY <2>1, <2>2
  <1>7. /\ saved' \in [Panels -> SUBSET Questions]
        /\ \A p \in Panels : \A s \in saved'[p] : Handed(q, w, p, s)
    BY DEF Typed, Handed
  <1>8. Sessions'
    BY <1>1, <1>2, <1>4, <1>6, <1>7, AskStep
  <1>9. ask' \in [Questions -> Asks] /\ \A x \in Questions : ask'[x].cur \in {ask[x].cur, v.cur}
    BY <1>1, <1>2 DEF Typed
  <1> QED
    BY <1>6, <1>8, <1>9

\* The cursor of the journal is taken.
LEMMA CursorSessions ==
    ASSUME Typed, Sessions, NEW q \in Questions, journalCursor(q)
    PROVE  /\ Sessions' /\ ask' \in [Questions -> Asks]
           /\ sessionRun' \in Seq(Questions \X Topics) /\ Len(sessionRun') <= MaxSessions
           /\ \A x \in Questions : ask'[x].cur \in {ask[x].cur, last, 0}
           /\ outages' \in Nat
  <1> DEFINE a == ask[q]
  <1>0. a.pc = "cursor" /\ UNCHANGED <<saved, told, job>>
    BY DEF journalCursor, opencode
  <1>1. a \in Asks /\ Sound(q, a) /\ last \in Nat /\ outages \in Nat
    BY DEF Typed, Sessions, Asking
  <1>2. PICK cur \in {last, 0} :
             /\ IF cur = last THEN UNCHANGED outages ELSE Fails
             /\ IF a.req = 0 THEN SetAsk(q, [a EXCEPT !.pc = "session", !.cur = cur]) /\ UNCHANGED sessionRun
                ELSE Post(q, [a EXCEPT !.cur = cur, !.ses = a.req])
    BY Zenon DEF journalCursor
  <1>3. outages' \in Nat
    BY <1>1, <1>2 DEF Fails
  <1>4. CASE a.req = 0
    <2> DEFINE v == [a EXCEPT !.pc = "session", !.cur = cur]
    <2>1. ask' = [ask EXCEPT ![q] = v] /\ sessionRun' = sessionRun
      BY <1>2, <1>4 DEF SetAsk
    <2>2. /\ v \in Asks /\ v.pc = "session" /\ v.p = a.p /\ v.run = a.run /\ v.req = a.req
          /\ v.ctx = a.ctx /\ v.cur = cur
      <3>1. cur \in Nat
        BY <1>1
      <3> HIDE DEF a
      <3> QED
        BY <1>1, <3>1 DEF Asks
    <2> HIDE DEF v
    <2>3. Sound(q, v) /\ Moves(ask[q], v)
      BY <1>0, <1>1, <1>4, <2>2 DEF Sound, Moves, Early, Late, Admitted
    <2>4. Sessions' /\ ask' \in [Questions -> Asks]
      BY <1>0, <2>1, <2>2, <2>3, QuietAskStep
    <2>5. \A x \in Questions : ask'[x].cur \in {ask[x].cur, last, 0}
      BY <2>1, <2>2 DEF Typed
    <2> QED
      BY <1>3, <2>1, <2>4, <2>5 DEF Typed
  <1>5. CASE a.req # 0
    <2> DEFINE v == [a EXCEPT !.cur = cur, !.ses = a.req]
    <2>1. Post(q, v)
      BY <1>2, <1>5
    <2>2. /\ v \in Asks /\ v.p = a.p /\ v.run = a.run /\ v.req = a.req
          /\ v.ctx = a.ctx /\ v.cur = cur /\ v.ses = a.req
      <3>1. cur \in Nat
        BY <1>1
      <3> HIDE DEF a
      <3> QED
        BY <1>1, <3>1 DEF Asks
    <2> HIDE DEF v
    <2> QED
      BY <1>0, <1>3, <1>5, <2>1, <2>2, PostSessions
  <1> QED
    BY <1>4, <1>5

\* A session is created, or not.
LEMMA NewSessionSessions ==
    ASSUME Typed, Sessions, NEW q \in Questions, newSession(q)
    PROVE  /\ Sessions' /\ ask' \in [Questions -> Asks] /\ saved' \in [Panels -> SUBSET Questions]
           /\ sessionRun' \in Seq(Questions \X Topics) /\ Len(sessionRun') <= MaxSessions
           /\ \A x \in Questions : ask'[x].cur \in {ask[x].cur, 0}
           /\ outages' \in Nat /\ busy' \in BOOLEAN /\ known' \subseteq Questions
  <1> DEFINE a == ask[q]
  <1>0. a.pc = "session" /\ UNCHANGED <<told, job>>
    BY DEF newSession
  <1>1. /\ a \in Asks /\ Sound(q, a) /\ outages \in Nat /\ busy \in BOOLEAN /\ known \subseteq Questions
        /\ ask \in [Questions -> Asks] /\ saved \in [Panels -> SUBSET Questions]
    BY DEF Typed, Sessions, Asking
  <1>2. CASE known' = known \cup {q} /\ Post(q, [a EXCEPT !.ses = q]) /\ UNCHANGED <<saved, busy, outages>>
    <2> DEFINE v == [a EXCEPT !.ses = q]
    <2>1. Post(q, v)
      BY <1>2
    <2>2. /\ v \in Asks /\ v.p = a.p /\ v.run = a.run /\ v.req = a.req
          /\ v.ctx = a.ctx /\ v.cur = a.cur /\ v.ses = q
      <3>1. q \in 0..MaxQuestions
        BY Limits DEF Questions
      <3> HIDE DEF a
      <3> QED
        BY <1>1, <3>1 DEF Asks
    <2>3. v.req = 0
      BY <1>0, <1>1, <2>2 DEF Sound
    <2> HIDE DEF v
    <2>4. /\ Sessions' /\ ask' \in [Questions -> Asks]
          /\ sessionRun' \in Seq(Questions \X Topics) /\ Len(sessionRun') <= MaxSessions
          /\ \A x \in Questions : ask'[x].cur \in {ask[x].cur, v.cur}
      BY <1>0, <1>2, <2>1, <2>2, <2>3, PostSessions
    <2>5. \A x \in Questions : ask'[x].cur \in {ask[x].cur, 0}
      <3>1. Post(q, v) => \A x \in Questions : x # q => ask'[x] = ask[x]
        BY <1>1 DEF Post, SetAsk
      <3>2. ask'[q].cur \in {ask[q].cur, 0}
        BY <2>2, <2>4
      <3> QED
        BY <2>1, <3>1, <3>2
    <2> QED
      BY <1>1, <1>2, <2>4, <2>5
  <1>3. CASE Fails /\ busy' = FALSE /\ Reply(q, 502) /\ UNCHANGED <<known, sessionRun>>
    <2>1. ask[q].pc \notin {"none", "done"}
      BY <1>0
    <2>2. outages' \in Nat /\ known' \subseteq Questions
      BY <1>1, <1>3 DEF Fails
    <2>4. busy' \in BOOLEAN
      BY <1>3, Zenon
    <2>3. sessionRun' \in Seq(Questions \X Topics) /\ Len(sessionRun') <= MaxSessions
      BY <1>3 DEF Typed
    <2> QED
      BY <1>0, <1>3, <2>1, <2>2, <2>3, <2>4, ReplyStep
  <1> QED
    BY <1>2, <1>3 DEF newSession

\* OpenCode answers, the answer is given up, or it is sent on.
LEMMA AnswerSessions ==
    ASSUME Typed, Sessions, NEW q \in Questions, Answered(q) \/ AnswerFails(q) \/ ReadJournal(q)
    PROVE  /\ Sessions' /\ ask' \in [Questions -> Asks] /\ saved' \in [Panels -> SUBSET Questions]
           /\ \A x \in Questions : ask'[x].cur \in {ask[x].cur, 0}
           /\ busy' \in BOOLEAN
  <1> DEFINE a == ask[q]
  <1>0. a.pc \notin {"none", "done"} /\ UNCHANGED <<told, job, sessionRun>>
    BY DEF Answered, AnswerFails, ReadJournal, opencode
  <1>1. a \in Asks /\ Sound(q, a) /\ busy \in BOOLEAN
    BY DEF Typed, Sessions, Asking
  <1>2. CASE Answered(q) /\ job[q].st = "refused" /\ busy' = FALSE /\ Reply(q, IF a.req # 0 THEN 409 ELSE 502)
    <2>1. PICK st \in {200, 409, 429, 502} : st = IF a.req # 0 THEN 409 ELSE 502
      OBVIOUS
    <2>2. Reply(q, st) /\ st # 200
      BY <1>2, <2>1
    <2>3. busy' \in BOOLEAN
      BY <1>2, Zenon
    <2> QED
      BY <1>0, <2>2, <2>3, ReplyStep
  <1>3. CASE /\ Answered(q) /\ job[q].st = "done" /\ SetAsk(q, [a EXCEPT !.pc = "journal"])
             /\ UNCHANGED <<saved, busy>>
    <2> DEFINE v == [a EXCEPT !.pc = "journal"]
    <2>1. a.pc = "answer" /\ ask' = [ask EXCEPT ![q] = v]
      BY <1>3 DEF Answered, SetAsk
    <2>2. /\ v \in Asks /\ v.pc = "journal" /\ v.p = a.p /\ v.run = a.run /\ v.req = a.req
          /\ v.ctx = a.ctx /\ v.cur = a.cur /\ v.ses = a.ses
      BY <1>1, GotoFields
    <2> HIDE DEF v
    <2>3. Sound(q, v) /\ Moves(ask[q], v)
      BY <1>1, <1>3, <2>1, <2>2 DEF Sound, Moves, Early, Late, Admitted
    <2>4. Sessions' /\ ask' \in [Questions -> Asks]
      BY <1>0, <1>3, <2>1, <2>2, <2>3, QuietAskStep
    <2>5. \A x \in Questions : ask'[x].cur \in {ask[x].cur, 0}
      BY <2>1, <2>2 DEF Typed
    <2> QED
      BY <1>3, <2>4, <2>5 DEF Typed
  <1>4. CASE AnswerFails(q)
    <2>1. /\ Reply(q, 502) /\ busy' \in BOOLEAN
          /\ ask[q].pc = "answer"
      BY <1>4, Zenon DEF AnswerFails
    <2> QED
      BY <1>0, <2>1, ReplyStep
  <1>5. CASE ReadJournal(q)
    <2>1. /\ Reply(q, 200) /\ busy' \in BOOLEAN
          /\ ask[q].pc = "journal"
      BY <1>5, Zenon DEF ReadJournal
    <2> QED
      BY <1>0, <2>1, ReplyStep
  <1> QED
    BY <1>2, <1>3, <1>4, <1>5 DEF Answered

\* How OpenCode's work on question x may change while nothing is told.
Works(x, v) ==
    /\ v.st = "none" => job[x].st = "none"
    /\ v.st # "none" /\ job[x].st = "none" => ask[x].pc = "answer" /\ v.st = "refused"
    /\ v.st \in {"running", "done"} => job[x].st \in {"running", "done"}
    /\ v.st = "running" => job[x].st = "running" /\ v.run = job[x].run /\ v.ses = job[x].ses
    /\ job[x].st = "done" => v.st = "done"

\* Such a step of OpenCode keeps what is known of sessions.
LEMMA JobStep ==
    ASSUME Typed, Sessions, UNCHANGED <<ask, saved, sessionRun, told>>,
           \A x \in Questions : Works(x, job'[x])
    PROVE  Sessions'
  <1>1. Asking'
    <2> SUFFICES ASSUME NEW x \in Questions PROVE Sound(x, ask[x])'
      BY DEF Asking
    <2>1. Sound(x, ask[x]) /\ Works(x, job'[x])
      BY DEF Sessions, Asking
    <2> QED
      BY <2>1 DEF Sound, Works, Early, Late, Admitted
  <1>2. Entries' /\ Given'
    BY DEF Sessions, Entries, Entry, Given
  <1>3. SessionOfRun'
    BY DEF Sessions, SessionOfRun, Works
  <1> QED
    BY <1>1, <1>2, <1>3 DEF Sessions

\* A job without work.
LEMMA JobFields ==
    ASSUME NEW st \in {"none", "running", "done", "refused", "lost"}
    PROVE  Job(st) \in Jobs /\ Job(st).st = st
  <1>1. 0 \in 0..MaxQuestions /\ 0 \in Nat
    BY Limits
  <1>2. Job(st) \in Jobs
    BY <1>1, Zenon DEF Job, Jobs
  <1> QED
    BY <1>2 DEF Job

\* The message arrives at OpenCode, in a session it knows or has forgotten.
LEMMA ReceiveSessions ==
    ASSUME Typed, Sessions, NEW q \in Questions, Receive(q)
    PROVE  Sessions' /\ told' \in [Questions -> SUBSET Topics] /\ job' \in [Questions -> Jobs]
  <1> DEFINE a == ask[q]
  <1>0. a.pc = "answer" /\ job[q].st = "none" /\ UNCHANGED <<ask, saved, sessionRun>>
    BY DEF Receive
  <1>1. /\ a \in Asks /\ Sound(q, a) /\ job \in [Questions -> Jobs]
        /\ told \in [Questions -> SUBSET Topics] /\ ask \in [Questions -> Asks]
    BY DEF Typed, Sessions, Asking
  <1>2. CASE a.ses \in known
    <2> DEFINE j == [st |-> "running", calls |-> MaxCalls, run |-> a.run, ses |-> a.ses]
    <2>1. /\ job' = [job EXCEPT ![q] = j]
          /\ told' = IF a.ctx THEN [told EXCEPT ![a.ses] = @ \cup {a.run}] ELSE told
      BY <1>2 DEF Receive
    <2>2. j \in Jobs /\ j.st = "running" /\ j.run = a.run /\ j.ses = a.ses
      BY <1>1, Limits DEF Asks, Jobs
    <2> HIDE DEF j
    <2>3. a.ctx <=> a.run # Plain /\ a.req = 0
      BY <1>0, <1>1 DEF Sound, Admitted
    <2>4. a.ses = (IF a.req = 0 THEN q ELSE a.req) /\ (a.req = 0 => told[q] = {})
      BY <1>0, <1>1 DEF Sound, Late
    <2>5. a.run \in Topics \cup {Plain} /\ a.req \in 0..MaxQuestions
      BY <1>1 DEF Asks
    <2> DEFINE fresh == a.run # Plain /\ a.req = 0
    <2>6. /\ told' \in [Questions -> SUBSET Topics]
          /\ \A s \in Questions : told'[s] = IF fresh /\ s = q THEN {a.run} ELSE told[s]
      <3>1. CASE fresh
        <4>1. told' = [told EXCEPT ![q] = @ \cup {a.run}]
          BY <2>1, <2>3, <2>4, <3>1
        <4> QED
          BY <1>1, <2>4, <2>5, <3>1, <4>1
      <3>2. CASE ~fresh
        BY <1>1, <2>1, <2>3, <3>2
      <3> QED
        BY <3>1, <3>2
    <2>7. /\ job' \in [Questions -> Jobs] /\ job'[q] = j
          /\ \A x \in Questions : x # q => job'[x] = job[x]
      BY <1>1, <2>1, <2>2
    <2>8. \A s \in Questions : ask[s].pc = "done" => told'[s] = told[s]
      BY <1>0, <2>6
    <2>9. Asking'
      <3> SUFFICES ASSUME NEW x \in Questions PROVE Sound(x, ask[x])'
        BY DEF Asking
      <3>1. Sound(x, ask[x]) /\ ask'[x] = ask[x]
        BY <1>0 DEF Sessions, Asking
      <3>2. /\ ask[x].req # 0 => told'[ask[x].req] = told[ask[x].req]
            /\ ask'[ask[x].req] = ask[ask[x].req]
        <4>1. ask[x].req # 0 => ask[x].req \in Questions
          BY <1>1, Limits DEF Asks, Questions
        <4>2. ask[x].req # 0 => ask[ask[x].req].pc = "done"
          BY <3>1 DEF Sound
        <4> QED
          BY <1>0, <2>8, <4>1, <4>2
      <3>3. CASE x # q
        <4>1. told'[x] = told[x] /\ job'[x] = job[x]
          BY <2>6, <2>7, <3>3
        <4> QED
          BY <3>1, <3>2, <4>1 DEF Sound
      <3>4. CASE x = q
        <4>1. job'[q].st = "running" /\ told'[q] = IF fresh THEN {a.run} ELSE told[q]
          BY <2>2, <2>6, <2>7
        <4> QED
          BY <1>0, <2>4, <3>1, <3>2, <3>4, <4>1 DEF Sound, Early, Late, Admitted
      <3> QED
        BY <3>3, <3>4
    <2>10. Entries'
      <3> SUFFICES ASSUME NEW i \in DOMAIN sessionRun
                   PROVE  Entry(sessionRun[i][1], sessionRun[i][2])'
        BY <1>0 DEF Entries
      <3>1. Entry(sessionRun[i][1], sessionRun[i][2])
        BY DEF Sessions, Entries
      <3>2. sessionRun[i][1] \in Questions
        <4>1. sessionRun[i] \in Questions \X Topics
          BY ElementOfSeq DEF Typed
        <4> QED
          BY <4>1
      <3> QED
        BY <1>0, <2>6, <3>1, <3>2 DEF Entry, Late
    <2>11. Given'
      BY <1>0, <2>8 DEF Sessions, Given, Typed
    <2>12. SessionOfRun'
      <3> SUFFICES ASSUME NEW x \in Questions, job'[x].st = "running", job'[x].run # Plain
                   PROVE  told'[job'[x].ses] = {job'[x].run}
        BY DEF SessionOfRun
      <3>1. CASE x = q
        <4>1. job'[x].run = a.run /\ job'[x].ses = a.ses /\ a.run # Plain
          BY <2>2, <2>7, <3>1
        <4>2. CASE a.req = 0
          BY <2>4, <2>6, <4>1, <4>2
        <4>3. CASE a.req # 0
          <5>1. told[a.req] = {a.run} /\ a.req \in Questions
            BY <1>0, <1>1, <2>5, <4>1, <4>3, Limits DEF Sound, Questions
          <5> QED
            BY <2>4, <2>6, <4>1, <4>3, <5>1
        <4> QED
          BY <4>2, <4>3
      <3>2. CASE x # q
        <4>1. job'[x] = job[x] /\ told[job[x].ses] = {job[x].run}
          BY <2>7, <3>2 DEF Sessions, SessionOfRun
        <4>2. fresh => job[x].ses # q
          BY <2>4, <4>1
        <4>3. told'[job[x].ses] = told[job[x].ses]
          <5>1. CASE fresh
            <6>1. told' = [told EXCEPT ![q] = @ \cup {a.run}]
              BY <2>1, <2>3, <2>4, <5>1
            <6> QED
              BY <1>1, <4>2, <5>1, <6>1, <2>6, <4>1
          <5>2. CASE ~fresh
            BY <2>1, <2>3, <5>2
          <5> QED
            BY <5>1, <5>2
        <4> QED
          BY <4>1, <4>3
      <3> QED
        BY <3>1, <3>2
    <2> QED
      BY <2>6, <2>7, <2>9, <2>10, <2>11, <2>12 DEF Sessions
  <1>3. CASE a.ses \notin known
    <2>1. job' = [job EXCEPT ![q] = Job("refused")] /\ told' = told
      BY <1>3 DEF Receive
    <2>2. Job("refused") \in Jobs /\ Job("refused").st = "refused"
      BY JobFields
    <2> HIDE DEF Job
    <2>3. job' \in [Questions -> Jobs] /\ \A x \in Questions : Works(x, job'[x])
      BY <1>0, <1>1, <2>1, <2>2 DEF Works
    <2> QED
      BY <1>0, <1>1, <2>1, <2>3, JobStep
  <1> QED
    BY <1>2, <1>3

\* OpenCode calls the model, finishes, or restarts.
LEMMA WorkSessions ==
    ASSUME Typed, Sessions,
           (\E q \in Questions : CallModel(q) \/ Finish(q)) \/ RestartOpenCode
    PROVE  Sessions' /\ job' \in [Questions -> Jobs] /\ outages' \in Nat /\ known' \subseteq Questions
  <1>0. job \in [Questions -> Jobs] /\ outages \in Nat /\ known \subseteq Questions
    BY DEF Typed
  <1>1. ASSUME NEW q \in Questions, CallModel(q)
        PROVE  Sessions' /\ job' \in [Questions -> Jobs] /\ outages' \in Nat /\ known' \subseteq Questions
    <2>1. /\ job[q] \in Jobs /\ job[q].calls \in Nat \ {0}
          /\ job' = [job EXCEPT ![q].calls = @ - 1] /\ UNCHANGED <<ask, saved, sessionRun, told, outages, known>>
      BY <1>0, <1>1 DEF CallModel, Jobs
    <2>2. PICK n \in Nat : n = job[q].calls - 1
      BY <2>1
    <2> DEFINE v == [job[q] EXCEPT !.calls = n]
    <2>3. job' = [job EXCEPT ![q] = v]
      BY <1>0, <2>1, <2>2
    <2>4. v \in Jobs /\ v.st = job[q].st /\ v.run = job[q].run /\ v.ses = job[q].ses
      BY <2>1 DEF Jobs
    <2> HIDE DEF v
    <2>5. job[q].st = "running"
      BY <1>1 DEF CallModel
    <2>6. job' \in [Questions -> Jobs] /\ \A x \in Questions : Works(x, job'[x])
      BY <1>0, <2>3, <2>4, <2>5 DEF Works
    <2> QED
      BY <1>0, <2>1, <2>6, JobStep
  <1>2. ASSUME NEW q \in Questions, Finish(q)
        PROVE  Sessions' /\ job' \in [Questions -> Jobs] /\ outages' \in Nat /\ known' \subseteq Questions
    <2>1. /\ job[q].st = "running" /\ job' = [job EXCEPT ![q] = Job("done")]
          /\ UNCHANGED <<ask, saved, sessionRun, told, outages, known>>
      BY <1>2 DEF Finish
    <2>2. Job("done") \in Jobs /\ Job("done").st = "done"
      BY JobFields
    <2> HIDE DEF Job
    <2>3. job' \in [Questions -> Jobs] /\ \A x \in Questions : Works(x, job'[x])
      BY <1>0, <2>1, <2>2 DEF Works
    <2> QED
      BY <1>0, <2>1, <2>3, JobStep
  <1>3. ASSUME RestartOpenCode
        PROVE  Sessions' /\ job' \in [Questions -> Jobs] /\ outages' \in Nat /\ known' \subseteq Questions
    <2>1. /\ job' = [q \in Questions |-> IF job[q].st = "running" THEN Job("lost") ELSE job[q]]
          /\ UNCHANGED <<ask, saved, sessionRun, told>> /\ known' = {} /\ outages' = outages - 1 /\ outages > 0
      BY <1>3 DEF RestartOpenCode, Fails
    <2>2. Job("lost") \in Jobs /\ Job("lost").st = "lost"
      BY JobFields
    <2> HIDE DEF Job
    <2>3. job' \in [Questions -> Jobs] /\ \A x \in Questions : Works(x, job'[x])
      BY <1>0, <2>1, <2>2 DEF Works
    <2> QED
      BY <1>0, <2>1, <2>3, JobStep
  <1> QED
    BY <1>1, <1>2, <1>3
-----------------------------------------------------------------------------
(***************************************************************************)
(* The journal.                                                            *)
(***************************************************************************)

\* The ring after an entry is added.
LEMMA AddRing ==
    ASSUME Typed, Ring, journal' = add(last + 1), last' = last + 1
    PROVE  Ring' /\ journal' \in Seq(Nat)
  <1> DEFINE all == Append(journal, last + 1)
             n == Len(journal)
  <1>0. journal \in Seq(Nat) /\ last \in Nat /\ last + 1 \in Nat /\ n \in Nat /\ JournalSize \in Nat
    BY LenProperties, Limits DEF Typed
  <1>1. /\ n <= last /\ n <= JournalSize /\ (n < JournalSize => n = last)
        /\ \A i \in 1..n : journal[i] = last - n + i
    BY <1>0 DEF Ring
  <1>2. /\ all \in Seq(Nat) /\ Len(all) = n + 1 /\ all[n + 1] = last + 1
        /\ \A i \in 1..n : all[i] = journal[i]
    BY <1>0, AppendProperties
  <1>3. journal' = IF Len(all) > JournalSize THEN Tail(all) ELSE all
    BY DEF add
  <1> HIDE DEF all, n
  <1>4. \A i \in 1..(n + 1) : all[i] = last - n + i
    BY <1>0, <1>1, <1>2
  <1>5. CASE n + 1 > JournalSize
    <2>1. all # <<>>
      BY <1>0, <1>2
    <2>2. /\ Tail(all) \in Seq(Nat) /\ Len(Tail(all)) = n
          /\ \A i \in 1..n : Tail(all)[i] = all[i + 1]
      BY <1>0, <1>2, <2>1
    <2>3. journal' = Tail(all) /\ DOMAIN journal' = 1..n
      BY <1>2, <1>3, <1>5, <2>2
    <2>4. \A i \in 1..n : journal'[i] = (last + 1) - n + i
      <3> SUFFICES ASSUME NEW i \in 1..n PROVE journal'[i] = (last + 1) - n + i
        OBVIOUS
      <3>1. i + 1 \in 1..(n + 1) /\ journal'[i] = all[i + 1]
        <4>1. i + 1 \in 1..(n + 1)
          BY <1>0
        <4>2. Tail(all)[i] = all[i + 1]
          BY <2>2, Zenon
        <4> QED
          BY <2>3, <4>1, <4>2, Zenon
      <3>2. all[i + 1] = last - n + (i + 1)
        BY <1>4, <3>1
      <3> QED
        BY <1>0, <3>1, <3>2
    <2>5. Len(journal') = n /\ n <= last + 1 /\ ~(n < JournalSize)
      BY <1>0, <1>1, <1>5, <2>2, <2>3
    <2> QED
      BY <1>1, <2>2, <2>3, <2>4, <2>5 DEF Ring
  <1>6. CASE n + 1 <= JournalSize
    <2>1. journal' = all /\ DOMAIN all = 1..(n + 1)
      BY <1>0, <1>2, <1>3, <1>6
    <2> QED
      BY <1>0, <1>1, <1>2, <1>4, <1>6, <2>1 DEF Ring
  <1> QED
    BY <1>0, <1>5, <1>6

\* The ring and the cursors while no entry is added.
LEMMA QuietJournal ==
    ASSUME Typed, Ring, Cursors, UNCHANGED <<journal, last>>,
           \A x \in Questions : ask'[x].cur \in {ask[x].cur, last, 0}
    PROVE  Ring' /\ Cursors'
  <1>1. Ring'
    BY DEF Ring
  <1>2. Cursors'
    BY DEF Cursors, Typed
  <1> QED
    BY <1>1, <1>2

\* The entries after a cursor.
LEMMA SinceCursor ==
    ASSUME IInv
    PROVE  HopsComplete
  <1> SUFFICES ASSUME NEW q \in Questions, Cardinality(since(ask[q].cur)) < JournalSize
               PROVE  since(ask[q].cur) = (ask[q].cur + 1)..last
    BY DEF HopsComplete
  <1> DEFINE n == Len(journal)
             c == ask[q].cur
  <1>0. journal \in Seq(Nat) /\ last \in Nat /\ n \in Nat /\ JournalSize \in Nat /\ c \in Nat /\ c <= last
    BY LenProperties, Limits DEF IInv, Typed, Asks, Cursors
  <1>1. /\ n <= last /\ n <= JournalSize /\ (n < JournalSize => n = last)
        /\ DOMAIN journal = 1..n /\ \A i \in 1..n : journal[i] = last - n + i
    BY <1>0 DEF IInv, Ring
  <1> HIDE DEF n, c
  <1>2. Range(journal) = (last - n + 1)..last
    <2>1. \A e \in (last - n + 1)..last : e - (last - n) \in 1..n /\ journal[e - (last - n)] = e
      BY <1>0, <1>1
    <2>2. \A i \in 1..n : journal[i] \in (last - n + 1)..last
      BY <1>0, <1>1
    <2>3. Range(journal) = {journal[i] : i \in 1..n}
      BY <1>1 DEF Range
    <2> QED
      BY <2>1, <2>2, <2>3
  <1>3. since(c) = {e \in (last - n + 1)..last : e > c}
    BY <1>2 DEF since
  <1>4. CASE c >= last - n
    BY <1>0, <1>1, <1>3, <1>4 DEF c
  <1>5. CASE c < last - n
    <2>1. since(c) = (last - n + 1)..last
      BY <1>0, <1>1, <1>3, <1>5
    <2>2. Cardinality(since(c)) = n
      <3>1. last - n + 1 \in Int /\ last \in Int
        BY <1>0
      <3>2. Cardinality((last - n + 1)..last) = IF last - n + 1 > last THEN 0 ELSE last - (last - n + 1) + 1
        BY <3>1, FS_Interval
      <3> QED
        BY <1>0, <1>1, <2>1, <3>2
    <2> QED
      BY <1>0, <1>1, <1>5, <2>2 DEF c
  <1> QED
    BY <1>0, <1>4, <1>5
-----------------------------------------------------------------------------
(***************************************************************************)
(* The gateway.                                                            *)
(***************************************************************************)
GwStates == {"none", "arrived", "serving", "replied", "refused"}

\* A caller in the gateway goes from one state to another.
LEMMA SlotStep ==
    ASSUME Typed, SlotsBalanced, NEW x \in Callers, NEW s \in GwStates, gw' = [gw EXCEPT ![x] = s],
           used' = IF s \in {"serving", "replied"}
                   THEN IF gw[x] \in {"serving", "replied"} THEN used ELSE used + 1
                   ELSE IF gw[x] \in {"serving", "replied"} THEN used - 1 ELSE used,
           s = "serving" => used < MaxInflight, s = "replied" => gw[x] = "serving"
    PROVE  SlotsBalanced' /\ used' \in Nat /\ gw' \in [Callers -> GwStates]
  <1>0. gw \in [Callers -> GwStates] /\ used \in Nat /\ MaxInflight \in Nat
    BY Limits DEF Typed, GwStates
  <1>1. IsFiniteSet(Served)
    <2>1. Callers = 0..MaxQuestions
      BY Limits DEF Callers, Questions, Evaluation
    <2>2. IsFiniteSet(0..MaxQuestions)
      <3>1. 0 \in Int /\ MaxQuestions \in Int
        BY Limits
      <3> QED
        BY <3>1, FS_Interval
    <2>3. Served \in SUBSET Callers
      BY DEF Served
    <2> QED
      BY <2>1, <2>2, <2>3, FS_Subset
  <1>2. used = Cardinality(Served) /\ used <= MaxInflight
    BY DEF SlotsBalanced, Served
  <1>3. /\ gw' \in [Callers -> GwStates] /\ gw'[x] = s
        /\ \A y \in Callers : y # x => gw'[y] = gw[y]
    BY <1>0
  <1>4. Served' = IF s \in {"serving", "replied"} THEN Served \cup {x} ELSE Served \ {x}
    BY <1>3 DEF Served
  <1>5. x \in Served <=> gw[x] \in {"serving", "replied"}
    BY DEF Served
  <1> HIDE DEF Served
  <1>6. /\ Cardinality(Served \cup {x}) = IF x \in Served THEN used ELSE used + 1
        /\ Cardinality(Served \ {x}) = IF x \in Served THEN used - 1 ELSE used
    BY <1>1, <1>2, FS_AddElement, FS_RemoveElement
  <1>7. used' = Cardinality(Served')
    BY <1>4, <1>5, <1>6
  <1>8. used' \in Nat /\ used' <= MaxInflight
    <2>1. x \in Served => used > 0
      <3>1. Cardinality(Served \ {x}) \in Nat
        BY <1>1, FS_RemoveElement, FS_CardinalityType
      <3> QED
        BY <1>0, <1>6, <3>1
    <2>2. CASE s = "serving"
      BY <1>0, <1>2, <1>5, <2>2
    <2>3. CASE s = "replied"
      BY <1>0, <1>2, <1>5, <2>3
    <2>4. CASE s \notin {"serving", "replied"}
      BY <1>0, <1>2, <1>5, <2>1, <2>4
    <2> QED
      BY <2>2, <2>3, <2>4
  <1> QED
    BY <1>3, <1>7, <1>8 DEF SlotsBalanced, Served
-----------------------------------------------------------------------------
(***************************************************************************)
(* The invariant.                                                          *)
(***************************************************************************)
\* The console starts in the invariant.
LEMMA InitHolds == ChatInit => IInv
  <1> SUFFICES ASSUME ChatInit PROVE IInv
    OBVIOUS
  <1>0. NoAsk \in Asks /\ NoAsk.pc = "none" /\ NoAsk.req = 0 /\ NoAsk.cur = 0
    BY NoAskFields
  <1>1. Job("none") \in Jobs /\ Job("none").st = "none"
    BY JobFields
  <1> HIDE DEF NoAsk, Job
  <1>2. Typed
    <2>1. busy \in BOOLEAN
      BY Zenon DEF ChatInit
    <2>2. sessionRun \in Seq(Questions \X Topics) /\ Len(sessionRun) <= MaxSessions /\ journal \in Seq(Nat)
      BY Limits, EmptySeq DEF ChatInit
    <2> QED
      BY <1>0, <1>1, <2>1, <2>2, Limits DEF ChatInit, Typed
  <1>3. Asking
    BY <1>0, <1>1 DEF ChatInit, Asking, Sound, Early, Late, Admitted
  <1>4. Entries /\ Given
    BY DEF ChatInit, Entries, Given
  <1>5. SessionOfRun
    BY <1>1 DEF ChatInit, SessionOfRun
  <1>6. Ring /\ Cursors
    BY <1>0, Limits DEF ChatInit, Ring, Cursors
  <1>7. SlotsBalanced
    <2>1. Served = {}
      BY DEF ChatInit, Served
    <2>2. used = Cardinality(Served) /\ used <= MaxInflight
      BY <2>1, FS_EmptySet, Limits DEF ChatInit
    <2> QED
      BY <2>2, Zenon DEF SlotsBalanced, Served
  <1> QED
    BY <1>2, <1>3, <1>4, <1>5, <1>6, <1>7 DEF IInv

\* A step that changes nothing of the gateway.
LEMMA OutsideGateway ==
    ASSUME IInv, UNCHANGED gateway,
           saved' \in [Panels -> SUBSET Questions], ask' \in [Questions -> Asks], busy' \in BOOLEAN,
           sessionRun' \in Seq(Questions \X Topics), Len(sessionRun') <= MaxSessions,
           known' \subseteq Questions, told' \in [Questions -> SUBSET Topics], job' \in [Questions -> Jobs],
           outages' \in Nat, Sessions',
           \A x \in Questions : ask'[x].cur \in {ask[x].cur, last, 0}
    PROVE  IInv'
  <1>1. UNCHANGED <<gw, used, journal, last>>
    BY DEF gateway
  <1>2. Typed'
    BY <1>1 DEF Typed, IInv
  <1>3. Ring' /\ Cursors'
    BY <1>1, QuietJournal DEF IInv
  <1>4. SlotsBalanced'
    BY <1>1 DEF IInv, SlotsBalanced
  <1> QED
    BY <1>2, <1>3, <1>4 DEF IInv, Sessions

\* A step of the gateway.
LEMMA InsideGateway ==
    ASSUME IInv, NEW x \in Callers, Arrive \/ acquire(x) \/ proxy(x) \/ Leave(x)
    PROVE  IInv'
  <1>0. /\ gw \in [Callers -> GwStates] /\ used \in Nat /\ last \in Nat
        /\ Typed /\ SlotsBalanced /\ Ring /\ Cursors /\ Sessions
    BY DEF IInv, Typed, GwStates, Sessions
  <1>1. UNCHANGED <<saved, ask, busy, sessionRun, known, told, job, outages>>
    BY DEF Arrive, acquire, proxy, Leave, opencode
  <1>2. Sessions'
    BY <1>0, <1>1, SMTT(30) DEF Sessions, Asking, Sound, Entries, Entry, Given, SessionOfRun
  <1>3. SlotsBalanced' /\ used' \in Nat /\ gw' \in [Callers -> GwStates]
    <2>1. CASE Arrive
      <3>1. Evaluation \in Callers /\ gw[Evaluation] = "none" /\ used' = used
        BY <2>1 DEF Arrive, Callers
      <3> QED
        BY <1>0, <2>1, <3>1, SlotStep DEF Arrive, GwStates
    <2>2. CASE acquire(x)
      BY <1>0, <2>2, SlotStep DEF acquire, GwStates
    <2>3. CASE proxy(x)
      BY <1>0, <2>3, SlotStep DEF proxy, GwStates
    <2>4. CASE Leave(x)
      BY <1>0, <2>4, SlotStep DEF Leave, GwStates
    <2> QED
      BY <2>1, <2>2, <2>3, <2>4
  <1>4. Ring' /\ Cursors' /\ journal' \in Seq(Nat) /\ last' \in Nat
    <2>1. CASE UNCHANGED <<journal, last>>
      <3>1. journal' \in Seq(Nat) /\ last' \in Nat
        BY <1>0, <2>1 DEF Typed
      <3> QED
        BY <1>0, <1>1, <2>1, <3>1, QuietJournal
    <2>2. CASE journal' = add(last + 1) /\ last' = last + 1
      <3>1. Ring' /\ journal' \in Seq(Nat)
        BY <1>0, <2>2, AddRing
      <3>2. Cursors'
        BY <1>0, <1>1, <2>2 DEF Cursors, Typed, Asks
      <3> QED
        BY <1>0, <2>2, <3>1, <3>2
    <2> QED
      BY <2>1, <2>2 DEF Arrive, acquire, proxy, Leave
  <1>5. Typed'
    BY <1>0, <1>1, <1>3, <1>4 DEF Typed, GwStates
  <1> QED
    BY <1>2, <1>3, <1>4, <1>5 DEF IInv, Sessions

\* A model call of a question arrives at the gateway.
LEMMA CallModelStep ==
    ASSUME IInv, NEW q \in Questions, CallModel(q)
    PROVE  IInv'
  <1>0. /\ gw \in [Callers -> GwStates] /\ used \in Nat /\ q \in Callers
        /\ Typed /\ SlotsBalanced /\ Ring /\ Cursors /\ Sessions
    BY DEF IInv, Typed, GwStates, Sessions, Callers
  <1>1. /\ UNCHANGED <<saved, ask, busy, sessionRun, known, told, outages, used, journal, last>>
        /\ gw[q] = "none" /\ gw' = [gw EXCEPT ![q] = "arrived"]
    BY DEF CallModel
  <1>2. Sessions' /\ job' \in [Questions -> Jobs]
    BY <1>0, WorkSessions
  <1>3. SlotsBalanced' /\ used' \in Nat /\ gw' \in [Callers -> GwStates]
    BY <1>0, <1>1, SlotStep DEF GwStates
  <1>4. Ring' /\ Cursors'
    BY <1>0, <1>1, QuietJournal
  <1>5. Typed'
    BY <1>0, <1>1, <1>2, <1>3 DEF Typed, GwStates
  <1> QED
    BY <1>2, <1>3, <1>4, <1>5 DEF IInv, Sessions

\* The chat's next-state relation, whatever else is there.
LEMMA ChattingStep ==
    ASSUME IInv, Chatting
    PROVE  IInv'
  <1>0. Typed /\ Sessions
    BY DEF IInv, Sessions
  <1>1. ASSUME NEW p \in Panels, Ask(p) PROVE IInv'
    <2>1. UNCHANGED <<saved, busy, sessionRun, known, told, job, outages, gateway>>
      BY <1>1 DEF Ask, opencode
    <2>2. /\ Sessions' /\ ask' \in [Questions -> Asks]
          /\ \A x \in Questions : ask'[x].cur \in {ask[x].cur, 0}
      BY <1>0, <1>1, AskSessions
    <2> QED
      BY <1>0, <2>1, <2>2, OutsideGateway DEF Typed
  <1>2. ASSUME NEW q \in Questions, Admit(q) \/ Answered(q) \/ AnswerFails(q) \/ ReadJournal(q) PROVE IInv'
    <2>1. UNCHANGED <<sessionRun, known, told, job, outages, gateway>>
      BY <1>2 DEF Admit, Answered, AnswerFails, ReadJournal, opencode
    <2>2. /\ Sessions' /\ ask' \in [Questions -> Asks] /\ saved' \in [Panels -> SUBSET Questions]
          /\ \A x \in Questions : ask'[x].cur \in {ask[x].cur, 0}
          /\ busy' \in BOOLEAN
      BY <1>0, <1>2, AdmitSessions, AnswerSessions
    <2> QED
      BY <1>0, <2>1, <2>2, OutsideGateway DEF Typed
  <1>3. ASSUME NEW q \in Questions, journalCursor(q) PROVE IInv'
    <2>1. UNCHANGED <<saved, busy, known, told, job, gateway>>
      BY <1>3 DEF journalCursor, opencode
    <2>2. /\ Sessions' /\ ask' \in [Questions -> Asks]
          /\ sessionRun' \in Seq(Questions \X Topics) /\ Len(sessionRun') <= MaxSessions
          /\ \A x \in Questions : ask'[x].cur \in {ask[x].cur, last, 0}
          /\ outages' \in Nat
      BY <1>0, <1>3, CursorSessions
    <2> QED
      BY <1>0, <2>1, <2>2, OutsideGateway DEF Typed
  <1>4. ASSUME NEW q \in Questions, newSession(q) PROVE IInv'
    <2>1. UNCHANGED <<told, job, gateway>>
      BY <1>4 DEF newSession
    <2>2. /\ Sessions' /\ ask' \in [Questions -> Asks] /\ saved' \in [Panels -> SUBSET Questions]
          /\ sessionRun' \in Seq(Questions \X Topics) /\ Len(sessionRun') <= MaxSessions
          /\ \A x \in Questions : ask'[x].cur \in {ask[x].cur, 0}
          /\ outages' \in Nat /\ busy' \in BOOLEAN /\ known' \subseteq Questions
      BY <1>0, <1>4, NewSessionSessions
    <2> QED
      BY <1>0, <2>1, <2>2, OutsideGateway DEF Typed
  <1>5. ASSUME NEW q \in Questions, Receive(q) PROVE IInv'
    <2>1. UNCHANGED <<saved, ask, busy, sessionRun, known, outages, gateway>>
      BY <1>5 DEF Receive
    <2>2. Sessions' /\ told' \in [Questions -> SUBSET Topics] /\ job' \in [Questions -> Jobs]
      BY <1>0, <1>5, ReceiveSessions
    <2> QED
      BY <1>0, <2>1, <2>2, OutsideGateway DEF Typed
  <1>6. ASSUME (\E q \in Questions : Finish(q)) \/ RestartOpenCode PROVE IInv'
    <2>1. UNCHANGED <<saved, ask, busy, sessionRun, told, gateway>>
      BY <1>6 DEF Finish, RestartOpenCode
    <2>2. Sessions' /\ job' \in [Questions -> Jobs] /\ outages' \in Nat /\ known' \subseteq Questions
      BY <1>0, <1>6, WorkSessions
    <2> QED
      BY <1>0, <2>1, <2>2, OutsideGateway DEF Typed
  <1>7. ASSUME Arrive PROVE IInv'
    BY <1>7, InsideGateway DEF Callers
  <1>8. ASSUME NEW x \in Callers, acquire(x) \/ proxy(x) \/ Leave(x) PROVE IInv'
    BY <1>8, InsideGateway
  <1> QED
    BY <1>1, <1>2, <1>3, <1>4, <1>5, <1>6, <1>7, <1>8, CallModelStep DEF Chatting, Talk

\* The invariant is inductive: the stream's steps leave the chat alone.
LEMMA NextHolds == IInv /\ [Next]_vars => IInv'
  <1> SUFFICES ASSUME IInv, [Next]_vars PROVE IInv'
    OBVIOUS
  <1>1. CASE UNCHANGED chatVars
    <2>1. UNCHANGED <<saved, ask, busy, sessionRun, known, told, job, outages, gw, used, journal, last>>
      BY <1>1 DEF chatVars, opencode, gateway
    <2>2. Typed'
      BY <2>1 DEF IInv, Typed
    <2>3. Asking'
      BY <2>1 DEF IInv, Asking, Sound
    <2>4. Entries' /\ Given' /\ SessionOfRun'
      BY <2>1 DEF IInv, Entries, Entry, Given, SessionOfRun
    <2>5. Ring' /\ Cursors'
      BY <2>1 DEF IInv, Ring, Cursors
    <2>6. SlotsBalanced'
      BY <2>1 DEF IInv, SlotsBalanced
    <2> QED
      BY <2>2, <2>3, <2>4, <2>5, <2>6 DEF IInv
  <1>2. CASE Cluster \/ Server \/ Browser
    <2>1. UNCHANGED chatVars
      BY <1>2, Zenon DEF Cluster, Server, Browser, Stream
    <2> QED
      BY <1>1, <2>1
  <1>3. CASE Chatting
    BY <1>3, ChattingStep
  <1>4. CASE UNCHANGED vars
    BY <1>1, <1>4 DEF vars
  <1> QED
    BY <1>2, <1>3, <1>4 DEF Next

\* The invariant is inductive, so it holds always.
LEMMA Inductive == Spec => []IInv
  <1>1. Init => IInv
    BY InitHolds DEF Init
  <1> QED
    BY <1>1, NextHolds, PTL DEF Spec
-----------------------------------------------------------------------------
(***************************************************************************)
(* The live view.                                                          *)
(***************************************************************************)
States == {"absent", "live", "over"}
Batches == [lines : Seq(Nat), reset : BOOLEAN]
Messages == [type : {"snapshot"}, n : {NoRun}, v : [Objects -> States]]
            \cup [type : {"upsert", "delete"}, n : Objects, v : States]
            \cup [type : {"report"}, n : Runs, v : {""}]
            \cup [type : {"log"}, n : Runs, v : Batches]
            \cup [type : {"error"}, n : {NoRun}, v : {""}]
Browsers == [objs : [Objects -> States], reports : SUBSET Runs, logs : [Runs -> Seq(Nat)],
             connection : {"connecting", "open", "error"}]
Pods == [st : {"none", "waiting", "running", "ended"}, lines : 0..MaxLines]
Fetches == [st : {"none", "reading", "asleep"}, n : 0..ReportAttempts]
FollowerStates == {"off", "listing", "opening", "streaming", "waiting", "ended"}
LogFollowers == [run : Runs \cup {NoRun}, st : FollowerStates, pos : Nat, pending : Nat,
                 reset : BOOLEAN, first : BOOLEAN]

\* The types of the cluster and of the server's copy of it.
ClusterTyped ==
    /\ cluster \in [Objects -> States] /\ configMap \in [Runs -> {"none", "whole", "cut"}]
    /\ pod \in [Runs -> Pods]
    /\ watch \in [Resources -> {"init", "up", "down", "dead"}]
    /\ store \in [Objects -> States] /\ lastError \in BOOLEAN
    /\ reports \subseteq Runs /\ IsFiniteSet(reports)
    /\ fetch \in [Runs -> Fetches]
    /\ \A r \in Runs : fetch[r].st = "asleep" => fetch[r].n < ReportAttempts
    /\ action.op # "none" => action.s \in Servers

\* The types of the socket and of its two ends.
SocketTyped ==
    /\ ws \in BOOLEAN /\ down \in Seq(Messages) /\ up \in Seq(Runs \cup {NoRun})
    /\ follower \in [Followers -> LogFollowers]
    /\ strayed \subseteq Runs /\ following \in Runs \cup {NoRun}
    /\ browser \in Browsers
    /\ ~ws => down = <<>> /\ up = <<>> /\ \A f \in Followers : follower[f].st = "off"

\* What LogFollower f, in state v, has read and sent.  One that streams without a
\* stop has sent what the browser will have.
Reads(f, v) ==
    /\ v.st # "off" => v.run \in Runs
    /\ v.st # "streaming" => v.pos = 0 /\ v.pending = 0
    /\ v.st = "opening" => v.reset
    /\ v.st = "streaming" => /\ v.pending <= v.pos /\ v.pos <= pod[v.run].lines
                             /\ v.reset => v.pending = v.pos
                             /\ f = "stray" => v.run \in strayed

Reading == \A f \in Followers : Reads(f, follower[f])

\* Browser b's logs are beginnings of those of pods p, except of the runs in s.
TrueLogs(b, s, p) == \A r \in Runs \ s : \E k \in 0..p[r].lines : b.logs[r] = Log(k)

\* Whatever the browser has after the next messages, its logs are true.
LogsAhead == \A i \in 0..Len(down) : TrueLogs(Replay(browser, down)[i], strayed, pod)

\* The batches that were sent, and will be handled, are all the follower has read
\* but what is pending.
SentLog(v) == v.st = "streaming" /\ ~v.reset /\ v.run \notin strayed
                  => Ahead.logs[v.run] = Log(v.pos - v.pending)
BatchesAddUp == SentLog(follower["current"])

LiveInv == ClusterTyped /\ SocketTyped /\ Reading /\ LogsAhead /\ BatchesAddUp /\ StoreMirrored
-----------------------------------------------------------------------------
\* The numbers among the constants of the live view.
LEMMA LiveLimits ==
    /\ ReportAttempts \in Nat /\ ReportAttempts # 0 /\ MaxChanges \in Nat /\ MaxBreaks \in Nat
    /\ MaxLines \in Nat /\ MaxFollows \in Nat /\ MaxQueue \in Nat
    /\ Runs \subseteq Objects /\ Servers \subseteq Objects
  BY LiveAssumption DEF Objects

\* What each message makes of a browser.
LEMMA Handled ==
    ASSUME NEW b \in Browsers, NEW m \in Messages
    PROVE  /\ handle(b, m) \in Browsers
           /\ m.type = "snapshot" => /\ handle(b, m).objs = m.v
                                     /\ handle(b, m).reports = b.reports /\ handle(b, m).logs = b.logs
           /\ m.type \in {"upsert", "delete"} =>
                /\ handle(b, m).objs = [b.objs EXCEPT ![m.n] = IF m.type = "upsert" THEN m.v ELSE "absent"]
                /\ handle(b, m).reports = b.reports /\ handle(b, m).logs = b.logs
           /\ m.type = "report" => /\ handle(b, m).reports = b.reports \cup {m.n}
                                   /\ handle(b, m).objs = b.objs /\ handle(b, m).logs = b.logs
           /\ m.type = "log" =>
                /\ handle(b, m).logs = [b.logs EXCEPT ![m.n] = (IF m.v.reset THEN <<>> ELSE b.logs[m.n]) \o m.v.lines]
                /\ handle(b, m).objs = b.objs /\ handle(b, m).reports = b.reports
           /\ m.type = "error" => /\ handle(b, m).objs = b.objs /\ handle(b, m).reports = b.reports
                                  /\ handle(b, m).logs = b.logs
  <1>0. /\ b.objs \in [Objects -> States] /\ b.reports \subseteq Runs /\ b.logs \in [Runs -> Seq(Nat)]
        /\ b.connection \in {"connecting", "open", "error"}
    BY DEF Browsers
  <1>1. CASE m \in [type : {"snapshot"}, n : {NoRun}, v : [Objects -> States]]
    <2>1. handle(b, m) = [b EXCEPT !.objs = m.v, !.connection = "open"] /\ m.type = "snapshot"
      BY <1>1 DEF handle
    <2> QED
      BY <1>0, <1>1, <2>1 DEF Browsers
  <1>2. CASE m \in [type : {"upsert", "delete"}, n : Objects, v : States]
    <2> DEFINE x == IF m.type = "upsert" THEN m.v ELSE "absent"
    <2>1. x \in States /\ m.n \in Objects /\ m.type \in {"upsert", "delete"}
      BY <1>2 DEF States
    <2>2. handle(b, m) = [b EXCEPT !.objs = [b.objs EXCEPT ![m.n] = x]]
      <3>1. CASE m.type = "upsert"
        BY <1>2, <3>1 DEF handle, Browsers
      <3>2. CASE m.type = "delete"
        BY <1>2, <3>2 DEF handle, Browsers
      <3> QED
        BY <2>1, <3>1, <3>2
    <2>3. [b.objs EXCEPT ![m.n] = x] \in [Objects -> States]
      BY <1>0, <2>1
    <2> QED
      BY <1>0, <2>1, <2>2, <2>3 DEF Browsers
  <1>3. CASE m \in [type : {"report"}, n : Runs, v : {""}]
    <2>1. handle(b, m) = [b EXCEPT !.reports = b.reports \cup {m.n}] /\ m.type = "report"
      BY <1>3 DEF handle
    <2> DEFINE x == b.reports \cup {m.n}
    <2>2. x \in SUBSET Runs
      BY <1>0, <1>3
    <2> HIDE DEF x
    <2>3. /\ handle(b, m) \in Browsers /\ handle(b, m).reports = x
          /\ handle(b, m).objs = b.objs /\ handle(b, m).logs = b.logs
      BY <1>0, <2>1, <2>2 DEF Browsers, x
    <2> QED
      BY <2>1, <2>3 DEF x
  <1>4. CASE m \in [type : {"log"}, n : Runs, v : Batches]
    <2> DEFINE x == (IF m.v.reset THEN <<>> ELSE b.logs[m.n]) \o m.v.lines
    <2>1. m.n \in Runs /\ m.type = "log" /\ m.v.lines \in Seq(Nat)
      BY <1>4 DEF Batches
    <2>2. x \in Seq(Nat)
      <3>1. (IF m.v.reset THEN <<>> ELSE b.logs[m.n]) \in Seq(Nat)
        BY <1>0, <2>1, EmptySeq
      <3> QED
        BY <2>1, <3>1, ConcatProperties
    <2>3. handle(b, m) = [b EXCEPT !.logs = [b.logs EXCEPT ![m.n] = x]]
      <3>1. handle(b, m) = [b EXCEPT !.logs[m.n] = (IF m.v.reset THEN <<>> ELSE @) \o m.v.lines]
        BY <2>1, Zenon DEF handle
      <3> QED
        BY <3>1, Zenon
    <2> HIDE DEF x
    <2>4. [b.logs EXCEPT ![m.n] = x] \in [Runs -> Seq(Nat)]
      BY <1>0, <2>1, <2>2
    <2>5. /\ handle(b, m) \in Browsers /\ handle(b, m).logs = [b.logs EXCEPT ![m.n] = x]
          /\ handle(b, m).objs = b.objs /\ handle(b, m).reports = b.reports
      BY <1>0, <2>3, <2>4 DEF Browsers
    <2> QED
      BY <2>1, <2>5 DEF x
  <1>5. CASE m \in [type : {"error"}, n : {NoRun}, v : {""}]
    <2>1. handle(b, m) = [b EXCEPT !.connection = "error"] /\ m.type = "error"
      BY <1>5 DEF handle
    <2> QED
      BY <1>0, <1>5, <2>1 DEF Browsers
  <1> QED
    BY <1>1, <1>2, <1>3, <1>4, <1>5 DEF Messages

\* Message by message: a snapshot replaces the objects,
LEMMA SnapshotHandled ==
    ASSUME NEW b \in Browsers, NEW m \in Messages, NEW c, c = handle(b, m), m.type = "snapshot"
    PROVE  c \in Browsers /\ c.objs = m.v /\ c.reports = b.reports /\ c.logs = b.logs
  BY Handled

\* a report or an error leaves objects and logs,
LEMMA NoteHandled ==
    ASSUME NEW b \in Browsers, NEW m \in Messages, NEW c, c = handle(b, m),
           m.type \in {"report", "error"}
    PROVE  /\ c \in Browsers /\ c.objs = b.objs /\ c.logs = b.logs /\ b.reports \subseteq c.reports
           /\ m.type = "report" => m.n \in c.reports
  BY Handled, ZenonT(30)

\* a change of an object changes that one,
LEMMA ChangeHandled ==
    ASSUME NEW b \in Browsers, NEW m \in Messages, NEW c, c = handle(b, m),
           m.type \in {"upsert", "delete"}, m.type = "delete" => m.v = "absent"
    PROVE  c \in Browsers /\ c.objs = [b.objs EXCEPT ![m.n] = m.v] /\ c.reports = b.reports /\ c.logs = b.logs
  <1>1. CASE m.type = "upsert"
    BY <1>1, Handled
  <1>2. CASE m.type = "delete"
    <2>1. (IF m.type = "upsert" THEN m.v ELSE "absent") = m.v
      BY <1>2
    <2>2. /\ c \in Browsers /\ c.reports = b.reports /\ c.logs = b.logs
          /\ c.objs = [b.objs EXCEPT ![m.n] = IF m.type = "upsert" THEN m.v ELSE "absent"]
      BY Handled, Zenon
    <2> QED
      BY <2>1, <2>2, Zenon
  <1> QED
    BY <1>1, <1>2

LogsAfter(b, m) == [b.logs EXCEPT ![m.n] = (IF m.v.reset THEN <<>> ELSE b.logs[m.n]) \o m.v.lines]

\* and a batch of lines the log of its run.
LEMMA BatchHandled ==
    ASSUME NEW b \in Browsers, NEW m \in Messages, NEW c, c = handle(b, m), m.type = "log"
    PROVE  /\ c \in Browsers /\ c.objs = b.objs /\ c.reports = b.reports
           /\ c.logs = LogsAfter(b, m)
  BY Handled, Zenon DEF LogsAfter

\* Replay is the loop over the messages.
LEMMA Replayed ==
    ASSUME NEW b \in Browsers, NEW s \in Seq(Messages)
    PROVE  /\ Replay(b, s) \in [0..Len(s) -> Browsers]
           /\ Replay(b, s)[0] = b
           /\ \A n \in 1..Len(s) : Replay(b, s)[n] = handle(Replay(b, s)[n - 1], s[n])
  <1> DEFINE N == Len(s)
             after[i \in 0..N] == IF i = 0 THEN b ELSE handle(after[i - 1], s[i])
             F == [p \in Browsers \X (1..N) |-> handle(p[1], s[p[2]])]
  <1>0. N \in Nat /\ \A n \in 1..N : s[n] \in Messages
    BY LenProperties, ElementOfSeq
  <1>1. F \in [Browsers \X (1..N) -> Browsers]
    BY <1>0, Handled
  <1>2. \E g \in [0..N -> Browsers] : History(g, b, N, F)
    <2> HIDE DEF F, N
    <2> QED BY <1>0, <1>1, Iterates, Zenon
  <1>3. PICK g \in [0..N -> Browsers] : g[0] = b /\ \A n \in 1..N : g[n] = F[<<g[n - 1], n>>]
    BY <1>2, Zenon DEF History
  <1>4. \A n \in 1..N : g[n] = handle(g[n - 1], s[n])
    <2> SUFFICES ASSUME NEW n \in 1..N PROVE g[n] = handle(g[n - 1], s[n])
      OBVIOUS
    <2>1. n - 1 \in 0..N
      BY <1>0
    <2>2. <<g[n - 1], n>> \in Browsers \X (1..N)
      BY <2>1
    <2> QED
      BY <1>3, <2>2
  <1> HIDE DEF F
  <1>5. g = [i \in 0..N |-> IF i = 0 THEN b ELSE handle(g[i - 1], s[i])]
    <2>1. \A n \in 0..N : g[n] = IF n = 0 THEN b ELSE handle(g[n - 1], s[n])
      <3> SUFFICES ASSUME NEW n \in 0..N PROVE g[n] = IF n = 0 THEN b ELSE handle(g[n - 1], s[n])
        OBVIOUS
      <3>1. n # 0 => n \in 1..N
        BY <1>0
      <3> QED
        BY <1>3, <1>4, <3>1
    <2> HIDE DEF N
    <2> QED
      BY <2>1, Zenon
  <1>6. after = CHOOSE h : h = [i \in 0..N |-> IF i = 0 THEN b ELSE handle(h[i - 1], s[i])]
    BY DEF after
  <1>7. after = [i \in 0..N |-> IF i = 0 THEN b ELSE handle(after[i - 1], s[i])]
    BY <1>5, <1>6, Zenon
  <1> HIDE DEF after
  <1>8. \A n \in 0..N : after[n] = IF n = 0 THEN b ELSE handle(after[n - 1], s[n])
    BY <1>7, Zenon
  <1> DEFINE S == {n \in 0..N : after[n] = g[n]}
  <1>9. 0 \in S
    BY <1>0, <1>3, <1>8
  <1>10. ASSUME NEW n \in 1..N, n - 1 \in S PROVE n \in S
    <2>1. n \in 0..N /\ n # 0
      BY <1>0
    <2>2. after[n - 1] = g[n - 1]
      BY <1>10
    <2> QED
      BY <1>4, <1>8, <2>1, <2>2
  <1>11. 0..N \subseteq S
    <2> HIDE DEF S
    <2> QED BY <1>0, <1>9, <1>10, BoundedInduction
  <1>12. \A n \in 0..N : after[n] = g[n]
    BY <1>11
  <1>13. after \in [0..N -> Browsers]
    <2>1. DOMAIN after = 0..N
      BY <1>7
    <2>2. \A n \in 0..N : after[n] \in Browsers
      BY <1>12
    <2> HIDE DEF N
    <2> QED
      BY <1>7, <2>1, <2>2, Zenon
  <1>14. Replay(b, s) = after
    BY Zenon DEF Replay, after
  <1>15. \A n \in 1..N : n \in 0..N /\ n # 0
    BY <1>0
  <1>16. 0 \in 0..N
    BY <1>0
  <1> QED
    BY <1>8, <1>13, <1>14, <1>15, <1>16

\* One message more leaves what the earlier ones made.
LEMMA ReplayAppend ==
    ASSUME NEW b \in Browsers, NEW s \in Seq(Messages), NEW m \in Messages
    PROVE  /\ \A n \in 0..Len(s) : Replay(b, Append(s, m))[n] = Replay(b, s)[n]
           /\ Replay(b, Append(s, m))[Len(s) + 1] = handle(Replay(b, s)[Len(s)], m)
  <1> DEFINE N == Len(s)
             t == Append(s, m)
             f == Replay(b, s)
             g == Replay(b, t)
             S == {n \in 0..N : g[n] = f[n]}
  <1>1. N \in Nat /\ t \in Seq(Messages) /\ Len(t) = N + 1 /\ t[N + 1] = m /\ \A n \in 1..N : t[n] = s[n]
    BY LenProperties, AppendProperties
  <1>2. f[0] = b /\ \A n \in 1..N : f[n] = handle(f[n - 1], s[n])
    BY Replayed
  <1>3. g[0] = b /\ \A n \in 1..(N + 1) : g[n] = handle(g[n - 1], t[n])
    <2> HIDE DEF t
    <2> QED BY <1>1, Replayed, SMTT(30)
  <1> HIDE DEF f, g, t
  <1>4. 0 \in S
    BY <1>1, <1>2, <1>3
  <1>5. ASSUME NEW n \in 1..N, n - 1 \in S PROVE n \in S
    <2>1. n \in 0..N /\ n \in 1..(N + 1)
      BY <1>1
    <2> QED
      BY <1>1, <1>2, <1>3, <1>5, <2>1
  <1>6. 0..N \subseteq S
    <2> HIDE DEF S
    <2> QED BY <1>1, <1>4, <1>5, BoundedInduction
  <1>7. \A n \in 0..N : g[n] = f[n]
    BY <1>6
  <1>8. g[N + 1] = handle(f[N], m)
    <2>1. N + 1 \in 1..(N + 1) /\ (N + 1) - 1 = N /\ N \in 0..N
      BY <1>1
    <2> QED
      BY <1>1, <1>3, <1>7, <2>1
  <1> QED
    BY <1>7, <1>8 DEF f, g, t

\* Once the first message is handled the others make what they would have made.
LEMMA ReplayTail ==
    ASSUME NEW b \in Browsers, NEW s \in Seq(Messages), s # <<>>
    PROVE  /\ handle(b, Head(s)) \in Browsers /\ Tail(s) \in Seq(Messages) /\ Len(Tail(s)) = Len(s) - 1
           /\ \A n \in 0..(Len(s) - 1) : Replay(handle(b, Head(s)), Tail(s))[n] = Replay(b, s)[n + 1]
  <1> DEFINE N == Len(s) - 1
             t == Tail(s)
             c == handle(b, Head(s))
             f == Replay(b, s)
             g == Replay(c, t)
             S == {n \in 0..N : g[n] = f[n + 1]}
  <1>1. /\ N \in Nat /\ Len(s) = N + 1 /\ t \in Seq(Messages) /\ Len(t) = N
        /\ \A n \in 1..N : t[n] = s[n + 1]
    BY LenProperties, HeadTailProperties, EmptySeq
  <1>2. Head(s) = s[1] /\ s[1] \in Messages
    BY <1>1, HeadTailProperties
  <1>3. c \in Browsers
    BY <1>2, Handled
  <1>4. f[0] = b /\ \A n \in 1..(N + 1) : f[n] = handle(f[n - 1], s[n])
    BY <1>1, Replayed
  <1>5. g[0] = c /\ \A n \in 1..N : g[n] = handle(g[n - 1], t[n])
    <2> HIDE DEF t, c
    <2> QED BY <1>1, <1>3, Replayed
  <1>6. c = handle(b, s[1])
    BY <1>2
  <1> HIDE DEF f, g, t, c
  <1>7. 0 \in S
    <2>1. 1 \in 1..(N + 1) /\ 1 - 1 = 0 /\ 0 + 1 = 1 /\ 0 \in 0..N
      BY <1>1
    <2> QED
      BY <1>4, <1>5, <1>6, <2>1
  <1>8. ASSUME NEW n \in 1..N, n - 1 \in S PROVE n \in S
    <2>1. n \in 0..N /\ n + 1 \in 1..(N + 1) /\ (n - 1) + 1 = n /\ (n + 1) - 1 = n
      BY <1>1
    <2>2. g[n - 1] = f[n]
      BY <1>8, <2>1
    <2> QED
      BY <1>1, <1>4, <1>5, <2>1, <2>2
  <1>9. 0..N \subseteq S
    <2> HIDE DEF S
    <2> QED BY <1>1, <1>7, <1>8, BoundedInduction
  <1> QED
    BY <1>1, <1>3, <1>9 DEF f, g, t, c

\* SetToSeq lists a finite set.
LEMMA Listed ==
    ASSUME NEW E, NEW S \in SUBSET E, IsFiniteSet(S)
    PROVE  SetToSeq(S) \in Seq(E) /\ \A x \in S : \E i \in 1..Len(SetToSeq(S)) : SetToSeq(S)[i] = x
  <1> DEFINE C == Cardinality(S)
  <1>1. C \in Nat /\ Bijection(1..C, S) # {}
    BY FS_CardinalityType DEF ExistsBijection
  <1>2. \E f \in [1..C -> S] : IsInjective(f)
    <2>1. PICK f \in Bijection(1..C, S) : TRUE
      BY <1>1
    <2> QED
      BY <2>1 DEF Bijection, Injection
  <1>3. SetToSeq(S) \in [1..C -> S] /\ IsInjective(SetToSeq(S))
    BY <1>2, Zenon DEF SetToSeq
  <1> DEFINE f == SetToSeq(S)
  <1> HIDE DEF f
  <1>4. f \in Injection(1..C, S)
    BY <1>3 DEF Injection, f
  <1>5. Cardinality(1..C) = C
    BY <1>1, FS_Interval
  <1>6. f \in Surjection(1..C, S)
    BY <1>4, <1>5, FS_Injection
  <1>7. f \in Seq(S) /\ Len(f) = C
    BY <1>1, <1>3, LenProperties DEF f
  <1>8. f \in Seq(E)
    BY <1>1, <1>3, <1>7 DEF f
  <1> QED
    BY <1>6, <1>7, <1>8 DEF Surjection, f

\* The first lines of a log, and what is added to them.
LEMMA Lines ==
    ASSUME NEW a \in Nat, NEW b \in Nat, a <= b
    PROVE  /\ Log(a) \in Seq(Nat) /\ Log(0) = <<>>
           /\ SubSeq(Log(b), a + 1, b) \in Seq(Nat)
           /\ Log(a) \o SubSeq(Log(b), a + 1, b) = Log(b)
           /\ IsPrefix(Log(a), Log(b))
  <1>1. \A n \in Nat : Log(n) \in Seq(Nat) /\ Len(Log(n)) = n /\ \A i \in 1..n : Log(n)[i] = i
    BY DEF Log
  <1>2. Log(0) = <<>>
    BY <1>1, EmptySeq
  <1> DEFINE s == SubSeq(Log(b), a + 1, b)
  <1>3. /\ s \in Seq(Nat) /\ Len(s) = b - a
        /\ \A i \in 1..(b - a) : s[i] = a + i
    BY <1>1, SubSeqProperties
  <1>4. Log(a) \o s = Log(b)
    <2> HIDE DEF s
    <2>0. Log(a) \in Seq(Nat) /\ Len(Log(a)) = a /\ Len(s) = b - a /\ s \in Seq(Nat)
      BY <1>1, <1>3
    <2>1. /\ Log(a) \o s \in Seq(Nat) /\ Len(Log(a) \o s) = Len(Log(a)) + Len(s)
          /\ \A i \in 1..(Len(Log(a)) + Len(s)) : (Log(a) \o s)[i] = IF i <= Len(Log(a)) THEN Log(a)[i] ELSE s[i - Len(Log(a))]
      BY <2>0, ConcatProperties
    <2>2. Len(Log(a) \o s) = b
      BY <2>0, <2>1
    <2>3. ASSUME NEW i \in 1..b PROVE (Log(a) \o s)[i] = i
      <3>1. (Log(a) \o s)[i] = IF i <= a THEN Log(a)[i] ELSE s[i - a]
        BY <2>0, <2>1
      <3>2. CASE i <= a
        BY <1>1, <3>1, <3>2
      <3>3. CASE ~(i <= a)
        BY <1>3, <3>1, <3>3
      <3> QED
        BY <3>2, <3>3
    <2> QED
      BY <1>1, <2>1, <2>2, <2>3, SeqEqual
  <1>5. IsPrefix(Log(a), Log(b))
    <2>1. SubSeq(Log(a), 1, a) = SubSeq(Log(b), 1, a)
      BY <1>1, SubSeqProperties, SeqEqual
    <2> QED
      BY <1>1, <2>1 DEF IsPrefix
  <1> QED
    BY <1>1, <1>2, <1>3, <1>4, <1>5

\* What the messages of a new Client make of the browser: the objects of the
\* snapshot, every report of the list, and no change to the logs.
LEMMA ReplayClient ==
    ASSUME NEW b \in Browsers, NEW d \in Seq(Messages), Len(d) >= 1, d[1].type = "snapshot",
           \A i \in 2..Len(d) : d[i].type \in {"report", "error"}
    PROVE  /\ \A i \in 0..Len(d) : Replay(b, d)[i].logs = b.logs
           /\ Replay(b, d)[Len(d)].objs = d[1].v
           /\ \A j \in 1..Len(d) : d[j].type = "report" => d[j].n \in Replay(b, d)[Len(d)].reports
  <1> DEFINE N == Len(d)
             f == Replay(b, d)
             P(i) == /\ f[i].logs = b.logs
                     /\ i # 0 => f[i].objs = d[1].v
                     /\ \A j \in 1..i : d[j].type = "report" => d[j].n \in f[i].reports
             S == {i \in 0..N : P(i)}
  <1>1. N \in Nat /\ N >= 1 /\ \A i \in 1..N : d[i] \in Messages
    BY LenProperties, ElementOfSeq
  <1>2. f \in [0..N -> Browsers] /\ f[0] = b /\ \A i \in 1..N : f[i] = handle(f[i - 1], d[i])
    BY Replayed
  <1> HIDE DEF f
  <1>3. 0 \in S
    BY <1>1, <1>2
  <1>4. ASSUME NEW i \in 1..N, i - 1 \in S PROVE i \in S
    <2>1. i \in 0..N /\ i - 1 \in 0..N /\ i # 0
      BY <1>1
    <2>2. f[i - 1] \in Browsers /\ f[i] = handle(f[i - 1], d[i]) /\ d[i] \in Messages
      BY <1>1, <1>2, <2>1
    <2>3. f[i - 1].logs = b.logs
      BY <1>4
    <2>4. i - 1 # 0 => f[i - 1].objs = d[1].v
      BY <1>4
    <2>5. \A j \in 1..(i - 1) : d[j].type = "report" => d[j].n \in f[i - 1].reports
      BY <1>4
    <2>6. CASE i = 1
      <3>1. f[i].logs = b.logs /\ f[i].objs = d[1].v
        BY <2>2, <2>3, <2>6, SnapshotHandled
      <3> QED
        BY <2>1, <2>6, <3>1
    <2>7. CASE i # 1
      <3>1. i \in 2..N /\ i - 1 # 0 /\ \A j \in 1..i : j \in 1..(i - 1) \/ j = i
        BY <1>1, <2>7
      <3>2. d[i].type \in {"report", "error"}
        BY <3>1
      <3>3. f[i].logs = b.logs /\ f[i].objs = d[1].v
        BY <2>2, <2>3, <2>4, <3>1, <3>2, NoteHandled
      <3>4. f[i - 1].reports \subseteq f[i].reports /\ (d[i].type = "report" => d[i].n \in f[i].reports)
        BY <2>2, <3>2, NoteHandled
      <3>5. \A j \in 1..i : d[j].type = "report" => d[j].n \in f[i].reports
        BY <2>5, <3>1, <3>4
      <3> QED
        BY <2>1, <3>3, <3>5
    <2> QED
      BY <2>6, <2>7
  <1>5. 0..N \subseteq S
    <2> HIDE DEF S
    <2> QED BY <1>1, <1>3, <1>4, BoundedInduction
  <1>6. \A i \in 0..N : P(i)
    BY <1>5
  <1>7. N \in 0..N /\ N # 0
    BY <1>1
  <1> QED
    BY <1>6, <1>7 DEF f

\* The messages a new Client sends.
Greeting == <<snapshotMessage(store)>>
            \o SetToSeq({Msg("report", r, "") : r \in reports})
            \o (IF lastError THEN <<Msg("error", NoRun, "")>> ELSE <<>>)

\* They are messages: the store, then the reports, then the error.
LEMMA Greets ==
    ASSUME store \in [Objects -> States], reports \subseteq Runs, IsFiniteSet(reports)
    PROVE  /\ Greeting \in Seq(Messages) /\ Len(Greeting) >= 1
           /\ Greeting[1].type = "snapshot" /\ Greeting[1].v = store
           /\ \A i \in 2..Len(Greeting) : Greeting[i].type \in {"report", "error"}
           /\ \A r \in reports : \E i \in 1..Len(Greeting) : Greeting[i].type = "report" /\ Greeting[i].n = r
  <1> DEFINE E == [type : {"report"}, n : Runs, v : {""}]
             R == {Msg("report", r, "") : r \in reports}
             a == <<snapshotMessage(store)>>
             l == SetToSeq(R)
             e == IF lastError THEN <<Msg("error", NoRun, "")>> ELSE <<>>
  <1>0. ASSUME NEW r \in Runs
        PROVE  Msg("report", r, "") \in E /\ Msg("report", r, "").type = "report" /\ Msg("report", r, "").n = r
    BY DEF Msg
  <1>1. R \in SUBSET E
    <2> HIDE DEF E
    <2> QED BY <1>0, Zenon
  <1>2. IsFiniteSet(R)
    <2> DEFINE f == [r \in reports |-> Msg("report", r, "")]
    <2>1. f \in Surjection(reports, R)
      BY DEF Surjection
    <2> HIDE DEF f, R
    <2> QED
      BY <2>1, FS_Surjection
  <1>3. l \in Seq(E) /\ \A x \in R : \E i \in 1..Len(l) : l[i] = x
    <2> HIDE DEF R, E
    <2> QED BY <1>1, <1>2, Listed
  <1>4. snapshotMessage(store) \in Messages /\ snapshotMessage(store).type = "snapshot" /\ snapshotMessage(store).v = store
    BY DEF snapshotMessage, Msg, Messages
  <1>5. a \in Seq(Messages) /\ Len(a) = 1 /\ a[1] = snapshotMessage(store)
    BY <1>4
  <1>6. Msg("error", NoRun, "") \in Messages /\ Msg("error", NoRun, "").type = "error"
    BY DEF Msg, Messages
  <1>7. e \in Seq(Messages) /\ Len(e) \in Nat /\ \A i \in 1..Len(e) : e[i].type = "error"
    <2>1. CASE lastError
      <3> DEFINE m == Msg("error", NoRun, "")
      <3>1. e = <<m>>
        BY <2>1
      <3> HIDE DEF m, e
      <3>2. m \in Messages /\ m.type = "error"
        BY <1>6 DEF m
      <3>3. e \in Seq(Messages) /\ Len(e) = 1 /\ e[1] = m
        BY <3>1, <3>2
      <3>4. \A i \in 1..1 : i = 1
        OBVIOUS
      <3> QED
        BY <3>2, <3>3, <3>4
    <2>2. CASE ~lastError
      BY <2>2
    <2> QED
      BY <2>1, <2>2
  <1>8. E \subseteq Messages /\ \A m \in E : m.type = "report"
    BY DEF Messages
  <1> HIDE DEF a, l, e
  <1>9. l \in Seq(Messages) /\ Len(l) \in Nat /\ \A i \in 1..Len(l) : l[i].type = "report"
    <2>1. Len(l) \in Nat /\ \A i \in 1..Len(l) : l[i] \in E
      <3> HIDE DEF E
      <3> QED BY <1>3, LenProperties, ElementOfSeq
    <2>2. l \in Seq(Messages)
      <3>1. \A n : n \in 1..Len(l) => l[n] \in Messages
        BY <1>8, <2>1
      <3>2. l \in [1..Len(l) -> Messages]
        <4>1. l \in [1..Len(l) -> E]
          <5> HIDE DEF E
          <5> QED BY <1>3, LenProperties
        <4> QED
          BY <3>1, <4>1
      <3>3. PICK n \in Nat : n = Len(l)
        BY <2>1
      <3> QED
        BY <3>2, <3>3
    <2> QED
      BY <1>8, <2>1, <2>2
  <1>10. Greeting = (a \o l) \o e
    BY DEF Greeting, a, l, e
  <1> DEFINE al == a \o l
  <1>11. /\ al \in Seq(Messages) /\ Len(al) = 1 + Len(l) /\ al[1] = a[1]
         /\ \A i \in 2..Len(al) : al[i].type = "report"
         /\ \A i \in 1..Len(l) : al[i + 1] = l[i]
    <2> DEFINE p == Len(l)
    <2>1. /\ al \in Seq(Messages) /\ Len(al) = Len(a) + Len(l)
          /\ \A i \in 1..(Len(a) + Len(l)) : al[i] = IF i <= Len(a) THEN a[i] ELSE l[i - Len(a)]
      BY <1>5, <1>9, ConcatProperties
    <2>2. p \in Nat /\ Len(al) = 1 + p /\ \A i \in 1..(1 + p) : al[i] = IF i <= 1 THEN a[i] ELSE l[i - 1]
      BY <1>5, <1>9, <2>1
    <2>3. \A i \in 1..p : l[i].type = "report"
      BY <1>9
    <2> HIDE DEF p, al
    <2>4. al[1] = a[1] /\ \A i \in 1..p : al[i + 1] = l[i]
      BY <2>2
    <2>5. \A i \in 2..(1 + p) : i - 1 \in 1..p /\ al[i] = l[i - 1]
      BY <2>2
    <2> QED
      BY <2>1, <2>2, <2>3, <2>4, <2>5 DEF p
  <1> HIDE DEF al
  <1>12. /\ Greeting \in Seq(Messages) /\ Len(Greeting) = Len(al) + Len(e)
         /\ \A i \in 1..Len(al) : Greeting[i] = al[i]
         /\ \A i \in 1..Len(Greeting) : i > Len(al) => Greeting[i] = e[i - Len(al)] /\ i - Len(al) \in 1..Len(e)
    <2>1. /\ Greeting \in Seq(Messages) /\ Len(Greeting) = Len(al) + Len(e)
          /\ \A i \in 1..(Len(al) + Len(e)) : Greeting[i] = IF i <= Len(al) THEN al[i] ELSE e[i - Len(al)]
      <3>1. Greeting = al \o e
        BY <1>10 DEF al
      <3>2. al \in Seq(Messages) /\ e \in Seq(Messages)
        BY <1>7, <1>11
      <3> QED
        BY <3>1, <3>2, ConcatProperties
    <2>2. Len(al) \in Nat /\ Len(e) \in Nat
      BY <1>7, <1>9, <1>11
    <2> QED
      BY <2>1, <2>2
  <1>13. Len(Greeting) >= 1 /\ Greeting[1] = a[1]
    BY <1>7, <1>9, <1>11, <1>12
  <1>14. \A i \in 2..Len(Greeting) : Greeting[i].type \in {"report", "error"}
    <2> SUFFICES ASSUME NEW i \in 2..Len(Greeting) PROVE Greeting[i].type \in {"report", "error"}
      OBVIOUS
    <2>1. CASE i <= Len(al)
      BY <1>7, <1>9, <1>11, <1>12, <2>1
    <2>2. CASE ~(i <= Len(al))
      BY <1>7, <1>9, <1>11, <1>12, <2>2
    <2> QED
      BY <2>1, <2>2
  <1>15. ASSUME NEW r \in reports
         PROVE  \E i \in 1..Len(Greeting) : Greeting[i].type = "report" /\ Greeting[i].n = r
    <2>1. Msg("report", r, "") \in R
      OBVIOUS
    <2>2. PICK i \in 1..Len(l) : l[i] = Msg("report", r, "")
      BY <1>3, <2>1
    <2>3. i + 1 \in 1..Len(Greeting) /\ Greeting[i + 1] = l[i]
      BY <1>7, <1>9, <1>11, <1>12
    <2>4. Greeting[i + 1].type = "report" /\ Greeting[i + 1].n = r
      <3>1. r \in Runs
        OBVIOUS
      <3>2. Msg("report", r, "").type = "report" /\ Msg("report", r, "").n = r
        BY <1>0, <3>1
      <3> QED
        BY <2>2, <2>3, <3>2, Zenon
    <2> QED
      BY <2>3, <2>4
  <1> QED
    BY <1>4, <1>5, <1>12, <1>13, <1>14, <1>15
-----------------------------------------------------------------------------
\* The initial state.
LEMMA LiveInitHolds == LiveInit => LiveInv
  <1> SUFFICES ASSUME LiveInit PROVE LiveInv
    OBVIOUS
  <1>0. 0 \in 0..MaxLines /\ 0 \in 0..ReportAttempts
    BY LiveLimits
  <1>1. Absent \in [Objects -> States]
    BY DEF Absent, States
  <1>2. browser \in Browsers /\ browser.logs = [r \in Runs |-> <<>>]
    <2>1. [r \in Runs |-> <<>>] \in [Runs -> Seq(Nat)]
      BY EmptySeq
    <2> QED
      BY <1>1, <2>1 DEF LiveInit, emptySnapshot, Browsers
  <1>3. Off \in LogFollowers /\ Off.st = "off" /\ Off.pos = 0 /\ Off.pending = 0
    BY DEF Off, LogFollowers, FollowerStates
  <1>4. pod \in [Runs -> Pods] /\ \A r \in Runs : pod[r].lines = 0
    BY <1>0 DEF LiveInit, Pods
  <1>5. fetch \in [Runs -> Fetches] /\ \A r \in Runs : fetch[r].st = "none"
    BY <1>0 DEF LiveInit, Fetches
  <1>6. ClusterTyped
    BY <1>1, <1>4, <1>5, FS_EmptySet DEF LiveInit, ClusterTyped
  <1>7. /\ ws = FALSE /\ down = <<>> /\ Len(down) = 0 /\ down \in Seq(Messages)
        /\ \A f \in Followers : follower[f] = Off
    BY EmptySeq DEF LiveInit
  <1>8. SocketTyped
    <2>1. follower \in [Followers -> LogFollowers]
      BY <1>3 DEF LiveInit
    <2> QED
      BY <1>2, <1>3, <1>7, <2>1, EmptySeq DEF LiveInit, SocketTyped
  <1>9. Reading
    BY <1>3, <1>7 DEF Reading, Reads
  <1>10. LogsAhead
    <2>1. \A i \in 0..Len(down) : Replay(browser, down)[i] = browser
      <3>1. Replay(browser, down)[0] = browser
        BY <1>2, <1>7, Replayed
      <3>2. \A i \in 0..Len(down) : i = 0
        BY <1>7
      <3> QED
        BY <3>1, <3>2
    <2>2. TrueLogs(browser, strayed, pod)
      <3>0. 0 \in Nat /\ 0 <= 0
        OBVIOUS
      <3>1. Log(0) = <<>>
        BY <3>0, Lines, Zenon
      <3>2. ASSUME NEW r \in Runs \ strayed PROVE \E k \in 0..pod[r].lines : browser.logs[r] = Log(k)
        BY <1>2, <1>4, <3>1
      <3> QED
        BY <3>2 DEF TrueLogs
    <2> QED
      BY <2>1, <2>2 DEF LogsAhead
  <1>11. BatchesAddUp
    BY <1>3, <1>7 DEF BatchesAddUp, SentLog, Followers
  <1>12. StoreMirrored
    BY <1>7 DEF StoreMirrored
  <1> QED
    BY <1>6, <1>8, <1>9, <1>10, <1>11, <1>12 DEF LiveInv

\* A first attempt to read a report is typed.
LEMMA FetchTyped ==
    ASSUME ClusterTyped, NEW r \in Runs, NEW v, NEW g, g = maybeFetchReport(r, v)
    PROVE  g \in [Runs -> Fetches] /\ \A x \in Runs : g[x].st = "asleep" => g[x].n < ReportAttempts
  <1> DEFINE a == [st |-> "reading", n |-> 1]
  <1>1. a \in Fetches /\ a.st = "reading"
    BY LiveLimits DEF Fetches
  <1>2. fetch \in [Runs -> Fetches] /\ \A x \in Runs : fetch[x].st = "asleep" => fetch[x].n < ReportAttempts
    BY DEF ClusterTyped
  <1>3. g = fetch \/ g = [fetch EXCEPT ![r] = a]
    BY DEF maybeFetchReport
  <1> HIDE DEF a
  <1> QED
    BY <1>1, <1>2, <1>3

\* No step of the stream spoils the types of the cluster and of the store.
LEMMA ClusterStep ==
    ASSUME LiveInv, Cluster \/ Server \/ Browser
    PROVE  ClusterTyped'
  <1>0. ClusterTyped /\ SocketTyped
    BY DEF LiveInv
  <1>1. ASSUME NEW n \in Objects, ClusterChanges(n) PROVE ClusterTyped'
    BY <1>0, <1>1 DEF ClusterTyped, ClusterChanges, States, srv
  <1>2. ASSUME NEW r \in Runs, ReportStored(r) PROVE ClusterTyped'
    BY <1>0, <1>2 DEF ClusterTyped, ReportStored, srv
  <1>3. ASSUME NEW r \in Runs, PodRuns(r) PROVE ClusterTyped'
    <2>0. pod \in [Runs -> Pods] /\ pod[r].lines \in 0..MaxLines
      BY <1>0 DEF ClusterTyped, Pods
    <2>1. PICK q \in Pods : pod' = [pod EXCEPT ![r] = q]
      <3>1. ASSUME NEW s \in {"none", "waiting", "running", "ended"}, NEW p \in Pods
            PROVE  [p EXCEPT !.st = s] \in Pods
        BY DEF Pods
      <3>2. pod[r] \in Pods
        BY <2>0
      <3>3. pod[r].lines < MaxLines => [pod[r] EXCEPT !.lines = @ + 1] \in Pods
        BY <3>2, LiveLimits DEF Pods
      <3>4. \/ \E s \in {"none", "waiting", "running", "ended"} : pod' = [pod EXCEPT ![r].st = s]
            \/ pod[r].lines < MaxLines /\ pod' = [pod EXCEPT ![r].lines = @ + 1]
        BY <1>3, Zenon DEF PodRuns
      <3> QED
        BY <3>1, <3>2, <3>3, <3>4
    <2>2. pod' \in [Runs -> Pods]
      BY <2>0, <2>1
    <2> QED
      BY <1>0, <1>3, <2>2 DEF ClusterTyped, PodRuns, srv
  <1>4. CASE ActionDone
    <2>1. action.s \in Objects
      BY <1>0, <1>4, LiveLimits DEF ClusterTyped, ActionDone
    <2>2. serverStore(action.op, cluster[action.s]) \in States
      BY <1>0, <2>1 DEF ClusterTyped, serverStore, States
    <2>3. cluster' = [cluster EXCEPT ![action.s] = serverStore(action.op, cluster[action.s])]
      BY <1>4, Zenon DEF ActionDone
    <2>4. cluster' \in [Objects -> States] /\ action'.op = "none"
      BY <1>0, <1>4, <2>1, <2>2, <2>3 DEF ClusterTyped, ActionDone
    <2> QED
      BY <1>0, <1>4, <2>4 DEF ClusterTyped, ActionDone
  <1>5. ASSUME NEW n \in Objects, upsert(n) PROVE ClusterTyped'
    <2>1. store' \in [Objects -> States]
      BY <1>0, <1>5 DEF ClusterTyped, upsert
    <2>2. fetch' \in [Runs -> Fetches] /\ \A x \in Runs : fetch'[x].st = "asleep" => fetch'[x].n < ReportAttempts
      <3>1. CASE n \in Runs
        BY <1>0, <1>5, <3>1, FetchTyped DEF upsert
      <3>2. CASE n \notin Runs
        BY <1>0, <1>5, <3>2 DEF upsert, ClusterTyped
      <3> QED
        BY <3>1, <3>2
    <2> QED
      BY <1>0, <1>5, <2>1, <2>2 DEF ClusterTyped, upsert, cl
  <1>6. ASSUME NEW res \in Resources, WatchFails(res) \/ WatchStarts(res) \/ WatchDies(res) PROVE ClusterTyped'
    <2>1. watch' \in [Resources -> {"init", "up", "down", "dead"}]
      BY <1>0, <1>6 DEF ClusterTyped, WatchFails, WatchStarts, WatchDies
    <2>2. lastError' \in BOOLEAN
      BY <1>0, <1>6, Zenon DEF ClusterTyped, WatchFails, WatchStarts, WatchDies
    <2>3. UNCHANGED <<cl, store, reports, fetch, action>>
      BY <1>6, Zenon DEF WatchFails, WatchStarts, WatchDies
    <2> QED
      BY <1>0, <2>1, <2>2, <2>3 DEF ClusterTyped, cl
  <1>7. ASSUME NEW r \in Runs, ReportRead(r) PROVE ClusterTyped'
    <2> DEFINE a == [st |-> "none", n |-> 0]
               s == [fetch[r] EXCEPT !.st = "asleep"]
    <2>0. fetch \in [Runs -> Fetches] /\ fetch[r] \in Fetches
      BY <1>0 DEF ClusterTyped
    <2>1. a \in Fetches /\ a.st = "none"
      BY LiveLimits DEF Fetches
    <2>2. s \in Fetches /\ s.n = fetch[r].n
      BY <2>0 DEF Fetches
    <2>3. fetch' = [fetch EXCEPT ![r] = a] \/ (fetch[r].n < ReportAttempts /\ fetch' = [fetch EXCEPT ![r] = s])
      BY <1>7, Zenon DEF ReportRead
    <2> HIDE DEF a, s
    <2>4. fetch' \in [Runs -> Fetches] /\ \A x \in Runs : fetch'[x].st = "asleep" => fetch'[x].n < ReportAttempts
      BY <1>0, <2>0, <2>1, <2>2, <2>3 DEF ClusterTyped
    <2>5. reports' \subseteq Runs /\ IsFiniteSet(reports')
      <3>1. reports' = reports \/ reports' = reports \cup {r}
        BY <1>7, Zenon DEF ReportRead
      <3>2. reports \subseteq Runs /\ IsFiniteSet(reports)
        BY <1>0 DEF ClusterTyped
      <3> QED
        BY <3>1, <3>2, FS_AddElement
    <2> QED
      BY <1>0, <1>7, <2>4, <2>5 DEF ClusterTyped, ReportRead, cl
  <1>8. ASSUME NEW r \in Runs, ReportAgain(r) PROVE ClusterTyped'
    <2> DEFINE a == [st |-> "reading", n |-> fetch[r].n + 1]
    <2>0. fetch \in [Runs -> Fetches] /\ fetch[r].n \in 0..ReportAttempts /\ fetch[r].n < ReportAttempts
      BY <1>0, <1>8 DEF ClusterTyped, ReportAgain, Fetches
    <2>1. a \in Fetches /\ a.st = "reading"
      BY <2>0, LiveLimits DEF Fetches
    <2>2. fetch' = [fetch EXCEPT ![r] = a]
      BY <1>8, Zenon DEF ReportAgain
    <2> HIDE DEF a
    <2> QED
      BY <1>0, <1>8, <2>1, <2>2 DEF ClusterTyped, ReportAgain, cl
  <1>9. ASSUME NEW s \in Servers, NEW op \in {"create", "pause", "resume", "remove"}, handleAction(op, s)
        PROVE  ClusterTyped'
    BY <1>0, <1>9 DEF ClusterTyped, handleAction, cl
  <1>10. ASSUME NEW f \in Followers,
                PodsListed(f) \/ LogOpened(f) \/ attach(f) \/ push(f) \/ flush(f) \/ StreamEnds(f)
         PROVE  ClusterTyped'
    <2>1. UNCHANGED <<cl, srv>>
      BY <1>10, Zenon DEF PodsListed, LogOpened, attach, push, flush, StreamEnds, Rest
    <2> QED
      BY <1>0, <2>1 DEF ClusterTyped, cl, srv
  <1>11. CASE follow
    <2>1. Head(up) \in Runs \cup {NoRun}
      BY <1>0, <1>11, HeadTailProperties DEF SocketTyped, follow
    <2>2. fetch' = fetch \/ (Head(up) \in Runs /\ fetch' = maybeFetchReport(Head(up), store[Head(up)]))
      BY <1>11, <2>1, Zenon DEF follow
    <2>3. fetch' \in [Runs -> Fetches] /\ \A x \in Runs : fetch'[x].st = "asleep" => fetch'[x].n < ReportAttempts
      <3>1. CASE fetch' = fetch
        BY <1>0, <3>1 DEF ClusterTyped
      <3>2. CASE Head(up) \in Runs /\ fetch' = maybeFetchReport(Head(up), store[Head(up)])
        BY <1>0, <3>2, FetchTyped
      <3> QED
        BY <2>2, <3>1, <3>2
    <2> QED
      BY <1>0, <1>11, <2>3 DEF ClusterTyped, follow, cl
  <1>12. CASE Browser
    <2>1. UNCHANGED <<cl, srv>>
      BY <1>12, Zenon DEF Browser, Stream, connect, onclose, onmessage, Show
    <2> QED
      BY <1>0, <2>1 DEF ClusterTyped, cl, srv
  <1>13. CASE Cluster
    BY <1>1, <1>2, <1>3, <1>4, <1>13 DEF Cluster, Stream
  <1>14. CASE Server
    BY <1>5, <1>6, <1>7, <1>8, <1>9, <1>10, <1>11, <1>14, Zenon DEF Server, Stream
  <1> QED
    BY <1>12, <1>13, <1>14
-----------------------------------------------------------------------------
(***************************************************************************)
(* The socket.  What is on it changes by a message at its end, by its      *)
(* first message being handled, and by a new socket.                       *)
(***************************************************************************)

\* The browser ahead is a browser.
LEMMA AheadTyped ==
    ASSUME SocketTyped
    PROVE  /\ Len(down) \in Nat /\ Ahead \in Browsers
           /\ \A i \in 0..Len(down) : Replay(browser, down)[i] \in Browsers
  <1>1. browser \in Browsers /\ down \in Seq(Messages) /\ Len(down) \in Nat
    BY LenProperties DEF SocketTyped
  <1>2. Replay(browser, down) \in [0..Len(down) -> Browsers]
    BY <1>1, Replayed
  <1>3. Len(down) \in 0..Len(down)
    BY <1>1
  <1> QED
    BY <1>1, <1>2, <1>3 DEF Ahead

\* broadcast puts a message at the end.
LEMMA Broadcasts ==
    ASSUME SocketTyped
    PROVE  /\ \A m \in Messages : broadcast(<<m>>) => down' = IF ws THEN Append(down, m) ELSE down
           /\ broadcast(<<>>) => down' = down
  <1>1. down \in Seq(Messages)
    BY DEF SocketTyped
  <1>2. ASSUME NEW m \in Messages, broadcast(<<m>>) PROVE down' = IF ws THEN Append(down, m) ELSE down
    <2>1. Append(down, m) = down \o <<m>>
      BY <1>1, AppendIsConcat
    <2> QED
      BY <1>2, <2>1 DEF broadcast
  <1>3. down \o <<>> = down
    BY <1>1, ConcatEmptySeq
  <1> QED
    BY <1>2, <1>3 DEF broadcast

\* A message at the end is handled last.
LEMMA Sends ==
    ASSUME SocketTyped, NEW m \in Messages, browser' = browser, down' = Append(down, m)
    PROVE  /\ down' \in Seq(Messages) /\ Len(down') = Len(down) + 1
           /\ Ahead' = handle(Ahead, m)
           /\ \A i \in 0..Len(down) : Replay(browser', down')[i] = Replay(browser, down)[i]
  <1>1. browser \in Browsers /\ down \in Seq(Messages)
    BY DEF SocketTyped
  <1>2. Append(down, m) \in Seq(Messages) /\ Len(Append(down, m)) = Len(down) + 1
    BY <1>1, AppendProperties
  <1>3. /\ \A n \in 0..Len(down) : Replay(browser, Append(down, m))[n] = Replay(browser, down)[n]
        /\ Replay(browser, Append(down, m))[Len(down) + 1] = handle(Replay(browser, down)[Len(down)], m)
    BY <1>1, ReplayAppend
  <1> QED
    BY <1>2, <1>3, Zenon DEF Ahead

\* Evaluators go on logging, and followers go astray; nothing else changes what a
\* log may be.
Grows == strayed \subseteq strayed' /\ \A r \in Runs : pod[r].lines <= pod'[r].lines

\* A browser with true logs keeps them.
LEMMA LogsStayTrue ==
    ASSUME ClusterTyped, ClusterTyped', Grows, NEW b, TrueLogs(b, strayed, pod)
    PROVE  TrueLogs(b, strayed', pod')
  <1> SUFFICES ASSUME NEW r \in Runs \ strayed' PROVE \E k \in 0..pod'[r].lines : b.logs[r] = Log(k)
    BY DEF TrueLogs
  <1>1. r \in Runs \ strayed /\ pod[r].lines <= pod'[r].lines
    BY DEF Grows
  <1>2. PICK k \in 0..pod[r].lines : b.logs[r] = Log(k)
    BY <1>1 DEF TrueLogs
  <1>3. pod[r].lines \in Nat /\ pod'[r].lines \in Nat
    BY <1>1, LiveLimits DEF ClusterTyped, Pods
  <1>4. k \in 0..pod'[r].lines
    BY <1>1, <1>3
  <1> QED
    BY <1>2, <1>4

\* LogsAhead holds on if nothing is sent, or a message that leaves true logs.
LEMMA LogsStep ==
    ASSUME ClusterTyped, ClusterTyped', SocketTyped, LogsAhead, Grows, browser' = browser,
           \/ down' = down
           \/ \E m \in Messages : down' = Append(down, m) /\ TrueLogs(handle(Ahead, m), strayed', pod')
    PROVE  LogsAhead'
  <1>0. Len(down) \in Nat
    BY AheadTyped
  <1>1. \A i \in 0..Len(down) : TrueLogs(Replay(browser, down)[i], strayed', pod')
    BY LogsStayTrue DEF LogsAhead
  <1>2. CASE down' = down
    BY <1>1, <1>2 DEF LogsAhead
  <1>3. ASSUME NEW m \in Messages, down' = Append(down, m), TrueLogs(handle(Ahead, m), strayed', pod')
        PROVE  LogsAhead'
    <2>1. /\ Len(down') = Len(down) + 1 /\ Ahead' = handle(Ahead, m)
          /\ \A i \in 0..Len(down) : Replay(browser', down')[i] = Replay(browser, down)[i]
      BY <1>3, Sends
    <2>2. TrueLogs(Replay(browser', down')[Len(down')], strayed', pod')
      BY <1>3, <2>1 DEF Ahead
    <2>3. ASSUME NEW i \in 0..Len(down') PROVE TrueLogs(Replay(browser', down')[i], strayed', pod')
      <3>1. CASE i \in 0..Len(down)
        BY <1>1, <2>1, <3>1
      <3>2. CASE i \notin 0..Len(down)
        <4>1. i = Len(down')
          BY <1>0, <2>1, <3>2
        <4> QED
          BY <2>2, <4>1
      <3> QED
        BY <3>1, <3>2
    <2> QED
      BY <2>3 DEF LogsAhead
  <1> QED
    BY <1>2, <1>3
-----------------------------------------------------------------------------
(***************************************************************************)
(* The kinds of steps.                                                     *)
(***************************************************************************)

\* A step that leaves the followers, the socket and the logs.
LEMMA QuietStep ==
    ASSUME LiveInv, ClusterTyped', UNCHANGED <<pod, store, reports, ws, down, follower, strayed, browser>>,
           up' \in Seq(Runs \cup {NoRun}), ~ws => up' = <<>>, following' \in Runs \cup {NoRun}
    PROVE  LiveInv'
  <1>0. ClusterTyped /\ SocketTyped /\ Reading /\ LogsAhead /\ BatchesAddUp /\ StoreMirrored
    BY DEF LiveInv
  <1>1. SocketTyped'
    BY <1>0 DEF SocketTyped
  <1>2. Reading'
    BY <1>0 DEF Reading, Reads
  <1>3. LogsAhead' /\ Ahead' = Ahead
    BY <1>0 DEF LogsAhead, Ahead
  <1>4. BatchesAddUp'
    BY <1>0, <1>3 DEF BatchesAddUp, SentLog
  <1>5. StoreMirrored'
    BY <1>0, <1>3 DEF StoreMirrored
  <1> QED
    BY <1>1, <1>2, <1>3, <1>4, <1>5 DEF LiveInv

\* An evaluator logs.
LEMMA PodStep ==
    ASSUME LiveInv, ClusterTyped', \A r \in Runs : pod[r].lines <= pod'[r].lines,
           UNCHANGED <<store, reports, ws, down, up, follower, strayed, following, browser>>
    PROVE  LiveInv'
  <1>0. ClusterTyped /\ SocketTyped /\ Reading /\ LogsAhead /\ BatchesAddUp /\ StoreMirrored
    BY DEF LiveInv
  <1>1. SocketTyped'
    BY <1>0 DEF SocketTyped
  <1>2. Reading'
    <2> SUFFICES ASSUME NEW f \in Followers PROVE Reads(f, follower[f])'
      BY DEF Reading
    <2> DEFINE v == follower[f]
    <2>1. Reads(f, v) /\ v \in LogFollowers /\ follower'[f] = v
      BY <1>0 DEF Reading, SocketTyped
    <2> HIDE DEF v
    <2>2. v.run \in Runs => pod[v.run].lines \in Nat /\ pod'[v.run].lines \in Nat /\ pod[v.run].lines <= pod'[v.run].lines
      BY <1>0, LiveLimits DEF ClusterTyped, Pods
    <2>3. v.pos \in Nat
      BY <2>1 DEF LogFollowers
    <2> QED
      BY <2>1, <2>2, <2>3 DEF Reads
  <1>3. LogsAhead' /\ Ahead' = Ahead
    <2>1. Grows
      BY DEF Grows
    <2> QED
      BY <1>0, <2>1, LogsStep DEF Ahead
  <1>4. BatchesAddUp'
    BY <1>0, <1>3 DEF BatchesAddUp, SentLog
  <1>5. StoreMirrored'
    BY <1>0, <1>3 DEF StoreMirrored
  <1> QED
    BY <1>1, <1>2, <1>3, <1>4, <1>5 DEF LiveInv

\* The server sends a message that is no batch of lines.
LEMMA NoteStep ==
    ASSUME LiveInv, ClusterTyped', NEW m \in Messages, m.type # "log",
           down' = IF ws THEN Append(down, m) ELSE down,
           UNCHANGED <<pod, ws, up, follower, strayed, following, browser>>,
           ws => handle(Ahead, m).objs = store' /\ reports' \subseteq handle(Ahead, m).reports
    PROVE  LiveInv'
  <1>0. ClusterTyped /\ SocketTyped /\ Reading /\ LogsAhead /\ BatchesAddUp /\ StoreMirrored
    BY DEF LiveInv
  <1>1. Reading'
    BY <1>0 DEF Reading, Reads
  <1>2. CASE ws
    <2>0. down' = Append(down, m) /\ browser' = browser
      BY <1>2
    <2>1. down' \in Seq(Messages) /\ Ahead' = handle(Ahead, m)
      BY <1>0, <2>0, Sends
    <2>2. SocketTyped'
      BY <1>0, <1>2, <2>1 DEF SocketTyped
    <2> DEFINE b == Ahead
               c == handle(Ahead, m)
    <2>3. c.logs = b.logs
      <3>1. b \in Browsers
        BY <1>0, AheadTyped
      <3>2. m.type \in {"snapshot", "upsert", "delete", "report", "error"}
        BY DEF Messages
      <3> HIDE DEF b
      <3>3. handle(b, m).logs = b.logs
        BY <3>1, <3>2, Handled
      <3> QED
        BY <3>3 DEF b
    <2>4. TrueLogs(b, strayed, pod)
      <3>1. Len(down) \in 0..Len(down)
        BY <1>0, AheadTyped
      <3> QED
        BY <1>0, <3>1 DEF LogsAhead, Ahead
    <2>5. TrueLogs(c, strayed', pod')
      BY <2>3, <2>4 DEF TrueLogs
    <2>6. LogsAhead'
      <3>1. Grows
        BY <1>0, LiveLimits DEF Grows, ClusterTyped, Pods
      <3> QED
        BY <1>0, <2>0, <2>5, <3>1, LogsStep
    <2>7. BatchesAddUp'
      BY <1>0, <2>1, <2>3 DEF BatchesAddUp, SentLog
    <2>8. StoreMirrored'
      BY <1>2, <2>1 DEF StoreMirrored
    <2> QED
      BY <1>1, <2>2, <2>6, <2>7, <2>8 DEF LiveInv
  <1>3. CASE ~ws
    <2>0. down' = down
      BY <1>3
    <2>1. SocketTyped'
      BY <1>0, <2>0 DEF SocketTyped
    <2>2. LogsAhead' /\ Ahead' = Ahead
      BY <1>0, <2>0 DEF LogsAhead, Ahead
    <2>3. BatchesAddUp'
      BY <1>0, <2>2 DEF BatchesAddUp, SentLog
    <2>4. StoreMirrored'
      BY <1>3 DEF StoreMirrored
    <2> QED
      BY <1>1, <2>1, <2>2, <2>3, <2>4 DEF LiveInv
  <1> QED
    BY <1>2, <1>3

\* A follower goes on without sending.
LEMMA FollowerStep ==
    ASSUME LiveInv, ClusterTyped', NEW f \in Followers, NEW v \in LogFollowers,
           follower' = [follower EXCEPT ![f] = v], follower[f].st # "off",
           UNCHANGED <<pod, store, reports, ws, down, up, following, browser>>,
           strayed \subseteq strayed', strayed' \subseteq Runs,
           Reads(f, v)', f = "current" => SentLog(v)
    PROVE  LiveInv'
  <1>0. ClusterTyped /\ SocketTyped /\ Reading /\ LogsAhead /\ BatchesAddUp /\ StoreMirrored
    BY DEF LiveInv
  <1>1. ws
    BY <1>0 DEF SocketTyped
  <1>2. /\ follower \in [Followers -> LogFollowers] /\ follower'[f] = v
        /\ \A g \in Followers : g # f => follower'[g] = follower[g]
        /\ follower' \in [Followers -> LogFollowers]
    BY <1>0 DEF SocketTyped
  <1>3. SocketTyped'
    BY <1>0, <1>1, <1>2 DEF SocketTyped
  <1>4. Reading'
    <2> SUFFICES ASSUME NEW g \in Followers PROVE Reads(g, follower[g])'
      BY DEF Reading
    <2>1. CASE g = f
      BY <1>2, <2>1
    <2>2. CASE g # f
      <3>1. Reads(g, follower[g]) /\ follower'[g] = follower[g]
        BY <1>0, <1>2, <2>2 DEF Reading
      <3> QED
        BY <3>1 DEF Reads
    <2> QED
      BY <2>1, <2>2
  <1>5. LogsAhead' /\ Ahead' = Ahead
    <2>1. Grows
      BY <1>0, LiveLimits DEF Grows, ClusterTyped, Pods
    <2> QED
      BY <1>0, <2>1, LogsStep DEF Ahead
  <1>6. BatchesAddUp'
    <2>1. SentLog(follower'["current"])
      BY <1>0, <1>2 DEF BatchesAddUp, Followers
    <2> QED
      BY <1>5, <2>1 DEF BatchesAddUp, SentLog
  <1>7. StoreMirrored'
    BY <1>0, <1>5 DEF StoreMirrored
  <1> QED
    BY <1>3, <1>4, <1>5, <1>6, <1>7 DEF LiveInv

\* A follower sends what is pending, and goes on or ends.
LEMMA BatchStep ==
    ASSUME LiveInv, ClusterTyped', NEW f \in Followers, NEW u \in LogFollowers, NEW v \in LogFollowers,
           u = follower[f], u.st = "streaming", u.pending # 0, broadcast(Batch(u)),
           follower' = [follower EXCEPT ![f] = v],
           UNCHANGED <<pod, store, reports, ws, up, strayed, following, browser>>,
           Reads(f, v), v.st = "streaming" => v.run = u.run /\ v.pos = u.pos /\ v.pending = 0
    PROVE  LiveInv'
  <1>0. ClusterTyped /\ SocketTyped /\ Reading /\ LogsAhead /\ BatchesAddUp /\ StoreMirrored
    BY DEF LiveInv
  <1>1. ws
    BY <1>0 DEF SocketTyped
  <1>2. /\ u.run \in Runs /\ u.pos \in Nat /\ u.pending \in Nat /\ u.reset \in BOOLEAN
        /\ u.pending <= u.pos /\ u.pos <= pod[u.run].lines
        /\ u.reset => u.pending = u.pos
        /\ f = "stray" => u.run \in strayed
    <2>1. Reads(f, u)
      BY <1>0 DEF Reading
    <2> QED
      BY <2>1 DEF Reads, LogFollowers
  <1>3. PICK a \in Nat, p \in Nat, r \in Runs : a = u.pos - u.pending /\ p = u.pos /\ r = u.run /\ a <= p
    <2>1. u.pos - u.pending \in Nat /\ u.pos - u.pending <= u.pos
      BY <1>2
    <2> QED
      BY <1>2, <2>1, Zenon
  <1>4. u.reset => a = 0
    BY <1>2, <1>3
  <1>5. PICK l \in Seq(Nat) : l = SubSeq(Log(p), a + 1, p) /\ Log(a) \o l = Log(p)
    BY <1>3, Lines
  <1>6. PICK y \in Batches : y = [lines |-> l, reset |-> u.reset]
    BY <1>2 DEF Batches
  <1>7. y.lines = l /\ y.reset = u.reset
    BY <1>6
  <1>8. PICK m \in Messages : m = Msg("log", r, y)
    BY DEF Msg, Messages
  <1>9. m.type = "log" /\ m.n = r /\ m.v = y
    BY <1>8 DEF Msg
  <1>10. Batch(u) = <<m>>
    BY <1>3, <1>5, <1>6, <1>8, Zenon DEF Batch
  <1>11. down' = Append(down, m) /\ browser' = browser
    <2>1. broadcast(<<m>>)
      BY <1>10
    <2> QED
      BY <1>0, <1>1, <2>1, Broadcasts
  <1>12. PICK b \in Browsers : b = Ahead
    BY <1>0, AheadTyped
  <1>13. PICK c \in Browsers : c = handle(b, m)
    BY Handled
  <1>14. down' \in Seq(Messages) /\ Ahead' = c
    BY <1>0, <1>11, <1>12, <1>13, Sends
  <1>15. /\ c.objs = b.objs /\ c.reports = b.reports
         /\ c.logs = [b.logs EXCEPT ![r] = (IF u.reset THEN <<>> ELSE b.logs[r]) \o l]
    <2>1. /\ c.objs = b.objs /\ c.reports = b.reports
          /\ c.logs = LogsAfter(b, m)
      BY <1>9, <1>13, BatchHandled
    <2> QED
      BY <1>7, <1>9, <2>1, Zenon DEF LogsAfter
  <1>16. b.logs \in [Runs -> Seq(Nat)]
    BY DEF Browsers
  <1>17. /\ c.logs[r] = (IF u.reset THEN <<>> ELSE b.logs[r]) \o l
         /\ \A x \in Runs : x # r => c.logs[x] = b.logs[x]
    BY <1>15, <1>16
  <1>18. r \notin strayed => f = "current" /\ c.logs[r] = Log(p)
    <2> SUFFICES ASSUME r \notin strayed PROVE f = "current" /\ c.logs[r] = Log(p)
      OBVIOUS
    <2>1. f = "current"
      BY <1>2, <1>3 DEF Followers
    <2>2. CASE u.reset
      <3>1. Log(a) = <<>>
        BY <1>4, <2>2, Lines
      <3> QED
        BY <1>5, <1>17, <2>1, <2>2, <3>1
    <2>3. CASE ~u.reset
      <3>1. SentLog(u)
        BY <1>0, <2>1 DEF BatchesAddUp
      <3>2. b.logs[r] = Log(a)
        BY <1>3, <1>12, <2>3, <3>1 DEF SentLog
      <3> QED
        BY <1>5, <1>17, <2>1, <2>3, <3>2
    <2> QED
      BY <2>2, <2>3
  <1>19. TrueLogs(c, strayed', pod')
    <2>1. TrueLogs(b, strayed, pod)
      <3>1. Len(down) \in 0..Len(down)
        BY <1>0, AheadTyped
      <3> QED
        BY <1>0, <1>12, <3>1 DEF LogsAhead, Ahead
    <2> SUFFICES ASSUME NEW x \in Runs \ strayed PROVE \E k \in 0..pod[x].lines : c.logs[x] = Log(k)
      BY DEF TrueLogs
    <2>2. CASE x = r
      <3>1. p \in 0..pod[x].lines
        <4>1. pod[r].lines \in Nat
          BY <1>0, LiveLimits DEF ClusterTyped, Pods
        <4> QED
          BY <1>2, <1>3, <2>2, <4>1
      <3> QED
        BY <1>18, <2>2, <3>1
    <2>3. CASE x # r
      BY <1>17, <2>1, <2>3 DEF TrueLogs
    <2> QED
      BY <2>2, <2>3
  <1>20. LogsAhead'
    <2>1. Grows
      BY <1>0, LiveLimits DEF Grows, ClusterTyped, Pods
    <2>2. TrueLogs(handle(Ahead, m), strayed', pod')
      BY <1>12, <1>13, <1>19
    <2> QED
      BY <1>0, <1>11, <2>1, <2>2, LogsStep
  <1>21. /\ follower \in [Followers -> LogFollowers] /\ follower'[f] = v
         /\ \A g \in Followers : g # f => follower'[g] = follower[g]
         /\ follower' \in [Followers -> LogFollowers]
    BY <1>0 DEF SocketTyped
  <1>22. SocketTyped'
    BY <1>0, <1>1, <1>14, <1>21 DEF SocketTyped
  <1>23. Reading'
    <2> SUFFICES ASSUME NEW g \in Followers PROVE Reads(g, follower[g])'
      BY DEF Reading
    <2>1. Reads(g, follower'[g])
      BY <1>0, <1>21 DEF Reading
    <2> QED
      BY <2>1 DEF Reads
  <1>24. BatchesAddUp'
    <2>1. CASE f = "current"
      <3>1. v.st = "streaming" => v.run = r /\ v.pos - v.pending = p
        BY <1>3
      <3>2. follower'["current"] = v
        BY <1>21, <2>1
      <3> QED
        BY <1>14, <1>18, <3>1, <3>2 DEF BatchesAddUp, SentLog
    <2>2. CASE f # "current"
      <3>1. r \in strayed /\ follower'["current"] = follower["current"]
        BY <1>2, <1>3, <1>21, <2>2 DEF Followers
      <3>2. PICK w \in LogFollowers : w = follower["current"] /\ Reads("current", w)
        BY <1>0, <1>21 DEF Followers, Reading
      <3>3. w.st = "streaming" => w.run \in Runs
        BY <3>2 DEF Reads
      <3>4. SentLog(w)
        BY <1>0, <3>2 DEF BatchesAddUp
      <3>5. w.st = "streaming" /\ ~w.reset /\ w.run \notin strayed => c.logs[w.run] = Log(w.pos - w.pending)
        BY <1>12, <1>17, <3>1, <3>3, <3>4 DEF SentLog
      <3> QED
        BY <1>14, <3>1, <3>2, <3>5 DEF BatchesAddUp, SentLog
    <2> QED
      BY <2>1, <2>2
  <1>25. StoreMirrored'
    BY <1>0, <1>12, <1>14, <1>15 DEF StoreMirrored
  <1> QED
    BY <1>20, <1>22, <1>23, <1>24, <1>25 DEF LiveInv
-----------------------------------------------------------------------------
(***************************************************************************)
(* The actions.                                                            *)
(***************************************************************************)

\* What retry makes of a follower.
LEMMA Retried ==
    ASSUME LiveInv, NEW f \in Followers
    PROVE  /\ retry(f) \in LogFollowers
           /\ retry(f).st # "streaming" /\ retry(f).st # "opening"
           /\ retry(f).pos = 0 /\ retry(f).pending = 0
           /\ follower[f].run \in Runs /\ retry(f).st # "off" => retry(f).run \in Runs
  <1>1. PICK u \in LogFollowers : u = follower[f]
    BY DEF LiveInv, SocketTyped
  <1>2. Off \in LogFollowers /\ Off.st = "off" /\ Off.pos = 0 /\ Off.pending = 0
    BY DEF Off, LogFollowers, FollowerStates
  <1>3. CASE f = "stray"
    BY <1>2, <1>3 DEF retry
  <1>4. CASE f # "stray"
    <2>1. PICK s \in {"ended", "waiting"} : s = IF isTerminal(store[follower[f].run]) /\ ~follower[f].first THEN "ended" ELSE "waiting"
      BY Zenon
    <2> DEFINE v == [u EXCEPT !.pos = 0, !.pending = 0, !.st = s]
    <2>2. retry(f) = v
      BY <1>1, <1>4, <2>1, Zenon DEF retry
    <2>3. v \in LogFollowers /\ v.st = s /\ v.pos = 0 /\ v.pending = 0 /\ v.run = u.run
      BY <2>1 DEF LogFollowers, FollowerStates
    <2> HIDE DEF v
    <2> QED
      BY <1>1, <2>1, <2>2, <2>3
  <1> QED
    BY <1>3, <1>4

\* A follower that does not stream has nothing to answer for.
LEMMA Idle ==
    ASSUME NEW f, NEW v, v.st # "streaming", v.pos = 0, v.pending = 0,
           v.st # "off" => v.run \in Runs, v.st = "opening" => v.reset
    PROVE  Reads(f, v) /\ Reads(f, v)' /\ SentLog(v)
  BY DEF Reads, SentLog

\* Steps of the followers.
LEMMA FollowerSteps ==
    ASSUME LiveInv, ClusterTyped', NEW f \in Followers,
           PodsListed(f) \/ LogOpened(f) \/ attach(f) \/ push(f) \/ flush(f) \/ StreamEnds(f)
    PROVE  LiveInv'
  <1>0. ClusterTyped /\ SocketTyped /\ Reading
    BY DEF LiveInv
  <1>1. PICK u \in LogFollowers : u = follower[f] /\ Reads(f, u)
    BY <1>0 DEF SocketTyped, Reading
  <1>2. /\ u.run \in Runs \cup {NoRun} /\ u.st \in FollowerStates /\ u.pos \in Nat /\ u.pending \in Nat
        /\ u.reset \in BOOLEAN /\ u.first \in BOOLEAN /\ (u.st # "off" => u.run \in Runs)
    BY <1>1 DEF LogFollowers, Reads
  <1>3. PICK w \in LogFollowers : /\ w = retry(f) /\ w.st # "streaming" /\ w.st # "opening" /\ w.pos = 0
                                  /\ w.pending = 0 /\ (u.st # "off" => (w.st # "off" => w.run \in Runs))
    BY <1>1, <1>2, Retried
  <1>4. u.st # "off" => Reads(f, w) /\ Reads(f, w)' /\ SentLog(w)
    BY <1>3, Idle
  <1>5. CASE PodsListed(f)
    <2>1. u.st = "listing" /\ UNCHANGED <<pod, store, reports, ws, down, up, following, browser, strayed>>
      BY <1>1, <1>5 DEF PodsListed, Rest, cl, srv
    <2>2. PICK v \in LogFollowers : v = [u EXCEPT !.st = "opening", !.reset = TRUE]
      BY DEF LogFollowers, FollowerStates
    <2>3. v.st = "opening" /\ v.reset /\ v.run = u.run /\ v.pos = 0 /\ v.pending = 0
      BY <1>1, <2>1, <2>2 DEF LogFollowers, Reads
    <2>4. Reads(f, v)' /\ SentLog(v)
      BY <1>2, <2>1, <2>3, Idle
    <2>5. follower' = [follower EXCEPT ![f] = v] \/ follower' = [follower EXCEPT ![f] = w]
      BY <1>1, <1>3, <1>5, <2>2, Zenon DEF PodsListed, SetFollower
    <2>6. strayed' \subseteq Runs /\ strayed \subseteq strayed' /\ follower[f].st # "off"
      BY <1>0, <1>1, <2>1 DEF SocketTyped
    <2> QED
      BY <1>1, <1>4, <2>1, <2>4, <2>5, <2>6, FollowerStep
  <1>6. CASE LogOpened(f)
    <2>1. u.st = "opening" /\ UNCHANGED <<pod, store, reports, ws, down, up, following, browser>>
      BY <1>1, <1>6 DEF LogOpened, Rest, cl, srv
    <2>2. PICK v \in LogFollowers : v = [u EXCEPT !.st = "streaming", !.first = FALSE]
      BY DEF LogFollowers, FollowerStates
    <2>3. v.st = "streaming" /\ v.reset /\ v.run = u.run /\ v.run \in Runs /\ v.pos = 0 /\ v.pending = 0
      BY <1>1, <1>2, <2>1, <2>2 DEF LogFollowers, Reads
    <2>4. \/ follower' = [follower EXCEPT ![f] = w] /\ strayed' = strayed
          \/ /\ follower' = [follower EXCEPT ![f] = v]
             /\ strayed' = IF f = "stray" THEN strayed \cup {v.run} ELSE strayed
      BY <1>1, <1>3, <1>6, <2>2, <2>3, Zenon DEF LogOpened, SetFollower
    <2>5. strayed \subseteq Runs /\ follower[f].st # "off"
      BY <1>0, <1>1, <2>1 DEF SocketTyped
    <2>6. CASE follower' = [follower EXCEPT ![f] = w] /\ strayed' = strayed
      BY <1>1, <1>4, <2>1, <2>5, <2>6, FollowerStep
    <2>7. CASE /\ follower' = [follower EXCEPT ![f] = v]
               /\ strayed' = IF f = "stray" THEN strayed \cup {v.run} ELSE strayed
      <3>1. strayed \subseteq strayed' /\ strayed' \subseteq Runs /\ (f = "stray" => v.run \in strayed')
        BY <2>3, <2>5, <2>7
      <3>2. pod'[v.run].lines \in Nat
        BY <2>3, LiveLimits DEF ClusterTyped, Pods
      <3>3. Reads(f, v)' /\ SentLog(v)
        BY <2>3, <3>1, <3>2 DEF Reads, SentLog
      <3> QED
        BY <2>1, <2>5, <2>7, <3>1, <3>3, FollowerStep
    <2> QED
      BY <2>4, <2>6, <2>7
  <1>7. CASE attach(f)
    <2>1. u.st = "waiting" /\ UNCHANGED <<pod, store, reports, ws, down, up, following, browser, strayed>>
      BY <1>1, <1>7 DEF attach, Rest, cl, srv
    <2>2. PICK v \in LogFollowers : v = [u EXCEPT !.st = "listing"]
      BY DEF LogFollowers, FollowerStates
    <2>3. v.st = "listing" /\ v.run = u.run /\ v.pos = 0 /\ v.pending = 0
      BY <1>1, <2>1, <2>2 DEF LogFollowers, Reads
    <2>4. Reads(f, v)' /\ SentLog(v)
      BY <1>2, <2>1, <2>3, Idle
    <2>5. follower' = [follower EXCEPT ![f] = v]
      BY <1>1, <1>7, <2>2, Zenon DEF attach, SetFollower
    <2>6. strayed' \subseteq Runs /\ strayed \subseteq strayed' /\ follower[f].st # "off"
      BY <1>0, <1>1, <2>1 DEF SocketTyped
    <2> QED
      BY <2>1, <2>4, <2>5, <2>6, FollowerStep
  <1>8. CASE push(f)
    <2>1. /\ u.st = "streaming" /\ u.pos < pod[u.run].lines
          /\ UNCHANGED <<pod, store, reports, ws, down, up, following, browser, strayed>>
      BY <1>1, <1>8 DEF push, Rest, cl, srv
    <2>a. PICK i \in Nat, j \in Nat : i = u.pos + 1 /\ j = u.pending + 1
      <3>1. u.pos + 1 \in Nat /\ u.pending + 1 \in Nat
        BY <1>2
      <3> QED
        BY <3>1, Zenon
    <2>2. PICK v \in LogFollowers : v = [u EXCEPT !.pos = i, !.pending = j]
      BY DEF LogFollowers
    <2>3. /\ v.st = "streaming" /\ v.run = u.run /\ v.reset = u.reset
          /\ v.pos = u.pos + 1 /\ v.pending = u.pending + 1
      BY <2>1, <2>2, <2>a DEF LogFollowers
    <2>4. pod[u.run].lines \in Nat /\ u.run \in Runs
      BY <1>0, <1>2, <2>1, LiveLimits DEF ClusterTyped, Pods
    <2>5. Reads(f, v)'
      <3>1. Reads(f, v)
        BY <1>1, <1>2, <2>1, <2>3, <2>4 DEF Reads
      <3> QED
        BY <2>1, <3>1 DEF Reads
    <2>6. f = "current" => SentLog(v)
      <3>1. v.pos - v.pending = u.pos - u.pending
        BY <1>2, <2>3
      <3> QED
        BY <1>1, <2>1, <2>3, <3>1 DEF LiveInv, BatchesAddUp, SentLog
    <2>7. follower' = [follower EXCEPT ![f] = v]
      BY <1>1, <1>8, <2>2, <2>a, Zenon DEF push, SetFollower
    <2>8. strayed' \subseteq Runs /\ strayed \subseteq strayed' /\ follower[f].st # "off"
      BY <1>0, <1>1, <2>1 DEF SocketTyped
    <2> QED
      BY <2>1, <2>5, <2>6, <2>7, <2>8, FollowerStep
  <1>9. CASE flush(f)
    <2>1. /\ u.st = "streaming" /\ u.pending # 0 /\ broadcast(Batch(u))
          /\ UNCHANGED <<pod, store, reports, ws, up, following, browser, strayed>>
      BY <1>1, <1>2, <1>9 DEF flush, Rest, cl, srv
    <2>2. PICK v \in LogFollowers : v = [u EXCEPT !.pending = 0, !.reset = FALSE]
      BY DEF LogFollowers
    <2>3. v.st = "streaming" /\ v.run = u.run /\ v.reset = FALSE /\ v.pos = u.pos /\ v.pending = 0
      BY <2>1, <2>2 DEF LogFollowers
    <2>4. Reads(f, v)
      BY <1>1, <1>2, <2>1, <2>3 DEF Reads
    <2>5. follower' = [follower EXCEPT ![f] = v]
      BY <1>1, <1>9, <2>2, Zenon DEF flush, SetFollower
    <2> QED
      BY <1>1, <2>1, <2>3, <2>4, <2>5, BatchStep
  <1>10. CASE StreamEnds(f)
    <2>1. /\ u.st = "streaming" /\ broadcast(Batch(u))
          /\ UNCHANGED <<pod, store, reports, ws, up, following, browser, strayed>>
      BY <1>1, <1>10 DEF StreamEnds, cl, srv
    <2>2. follower' = [follower EXCEPT ![f] = w] /\ Reads(f, w) /\ Reads(f, w)' /\ SentLog(w)
      BY <1>3, <1>4, <1>10, <2>1, Zenon DEF StreamEnds, SetFollower
    <2>3. CASE u.pending = 0
      <3>1. broadcast(<<>>)
        BY <2>1, <2>3 DEF Batch
      <3>2. down' = down
        BY <1>0, <3>1, Broadcasts
      <3>3. strayed' \subseteq Runs /\ strayed \subseteq strayed' /\ follower[f].st # "off"
        BY <1>0, <1>1, <2>1 DEF SocketTyped
      <3> QED
        BY <2>1, <2>2, <3>2, <3>3, FollowerStep
    <2>4. CASE u.pending # 0
      BY <1>1, <1>3, <2>1, <2>2, <2>4, BatchStep
    <2> QED
      BY <2>3, <2>4
  <1> QED
    BY <1>5, <1>6, <1>7, <1>8, <1>9, <1>10

\* Steps of the cluster and of the informers.
LEMMA ServerSteps ==
    ASSUME LiveInv, ClusterTyped', Cluster \/ Server
    PROVE  LiveInv'
  <1>0. ClusterTyped /\ SocketTyped /\ StoreMirrored
    BY DEF LiveInv
  <1>1. PICK b \in Browsers : b = Ahead
    BY <1>0, AheadTyped
  <1>2. ws => b.objs = store /\ reports \subseteq b.reports
    BY <1>0, <1>1 DEF StoreMirrored
  <1>3. /\ UNCHANGED <<pod, store, reports, ws, down, up, follower, strayed, following, browser>> => LiveInv'
        /\ UNCHANGED <<pod, store, reports, ws, down, follower, strayed, browser>>
             /\ up' \in Seq(Runs \cup {NoRun}) /\ following' \in Runs \cup {NoRun} /\ (~ws => up' = <<>>)
           => LiveInv'
    <2>1. up \in Seq(Runs \cup {NoRun}) /\ following \in Runs \cup {NoRun} /\ (~ws => up = <<>>)
      BY <1>0 DEF SocketTyped
    <2> QED
      BY <2>1, QuietStep
  <1>4. ASSUME NEW n \in Objects, ClusterChanges(n) PROVE LiveInv'
    BY <1>3, <1>4 DEF ClusterChanges, srv
  <1>5. ASSUME NEW r \in Runs, ReportStored(r) PROVE LiveInv'
    BY <1>3, <1>5 DEF ReportStored, srv
  <1>6. ASSUME NEW r \in Runs, PodRuns(r) PROVE LiveInv'
    <2>1. \A x \in Runs : pod[x].lines <= pod'[x].lines
      <3> SUFFICES ASSUME NEW x \in Runs PROVE pod[x].lines <= pod'[x].lines
        OBVIOUS
      <3>1. pod[x].lines \in Nat /\ pod \in [Runs -> Pods] /\ pod[r] \in Pods
        BY <1>0, LiveLimits DEF ClusterTyped, Pods
      <3>2. \/ \E s \in {"none", "waiting", "running", "ended"} : pod' = [pod EXCEPT ![r].st = s]
            \/ pod' = [pod EXCEPT ![r].lines = @ + 1]
        BY <1>6, Zenon DEF PodRuns
      <3>3. pod'[x].lines = pod[x].lines \/ pod'[x].lines = pod[x].lines + 1
        BY <3>1, <3>2 DEF Pods
      <3> QED
        BY <3>1, <3>3
    <2> QED
      BY <1>6, <2>1, PodStep DEF PodRuns, srv
  <1>7. CASE ActionDone
    BY <1>3, <1>7 DEF ActionDone
  <1>8. ASSUME NEW n \in Objects, upsert(n) PROVE LiveInv'
    <2>1. PICK x \in States : x = cluster[n]
      BY <1>0 DEF ClusterTyped
    <2>2. PICK t \in {"upsert", "delete"} : t = IF x = "absent" THEN "delete" ELSE "upsert"
      BY Zenon
    <2>3. PICK m \in Messages : m = Msg(t, n, x)
      BY DEF Msg, Messages
    <2>4. m.type = t /\ m.n = n /\ m.v = x /\ (t = "delete" => x = "absent")
      BY <2>2, <2>3 DEF Msg
    <2>5. broadcast(<<m>>)
      BY <1>8, <2>1, <2>2, <2>3, Zenon DEF upsert
    <2>6. down' = IF ws THEN Append(down, m) ELSE down
      BY <1>0, <2>5, Broadcasts
    <2>7. PICK c \in Browsers : c = handle(b, m)
      BY Handled
    <2>8. c.objs = [b.objs EXCEPT ![n] = x] /\ c.reports = b.reports
      BY <2>2, <2>4, <2>7, ChangeHandled
    <2>9. store' = [store EXCEPT ![n] = x] /\ UNCHANGED <<pod, reports, ws, up, follower, strayed, following, browser>>
      BY <1>8, <2>1 DEF upsert, cl
    <2>10. ws => handle(Ahead, m).objs = store' /\ reports' \subseteq handle(Ahead, m).reports
      BY <1>1, <1>2, <2>7, <2>8, <2>9
    <2>11. m.type # "log"
      BY <2>2, <2>4
    <2> QED
      BY <2>6, <2>9, <2>10, <2>11, NoteStep
  <1>9. ASSUME NEW res \in Resources, WatchFails(res) PROVE LiveInv'
    <2>1. PICK m \in Messages : m = Msg("error", NoRun, "")
      BY DEF Msg, Messages
    <2>2. m.type = "error"
      BY <2>1 DEF Msg
    <2>3. down' = IF ws THEN Append(down, m) ELSE down
      BY <1>0, <1>9, <2>1, Broadcasts DEF WatchFails
    <2>4. PICK c \in Browsers : c = handle(b, m)
      BY Handled
    <2>5. c.objs = b.objs /\ b.reports \subseteq c.reports
      BY <2>2, <2>4, NoteHandled
    <2>6. UNCHANGED <<pod, store, reports, ws, up, follower, strayed, following, browser>>
      BY <1>9 DEF WatchFails, cl
    <2>7. ws => handle(Ahead, m).objs = store' /\ reports' \subseteq handle(Ahead, m).reports
      BY <1>1, <1>2, <2>4, <2>5, <2>6
    <2>8. m.type # "log"
      BY <2>2
    <2> QED
      BY <2>3, <2>6, <2>7, <2>8, NoteStep
  <1>10. ASSUME NEW res \in Resources, WatchStarts(res) PROVE LiveInv'
    <2>1. PICK m \in Messages : m = snapshotMessage(store)
      BY <1>0 DEF snapshotMessage, Msg, Messages, ClusterTyped
    <2>2. m.type = "snapshot" /\ m.v = store
      BY <2>1 DEF snapshotMessage, Msg
    <2>3. UNCHANGED <<pod, store, reports, ws, up, follower, strayed, following, browser>>
      BY <1>10 DEF WatchStarts, cl
    <2>4. CASE lastError
      <3>1. broadcast(<<m>>)
        BY <1>10, <2>1, <2>4 DEF WatchStarts
      <3>2. down' = IF ws THEN Append(down, m) ELSE down
        BY <1>0, <3>1, Broadcasts
      <3>3. PICK c \in Browsers : c = handle(b, m)
        BY Handled
      <3>4. c.objs = store /\ c.reports = b.reports
        BY <2>2, <3>3, SnapshotHandled
      <3>5. ws => handle(Ahead, m).objs = store' /\ reports' \subseteq handle(Ahead, m).reports
        BY <1>1, <1>2, <2>3, <3>3, <3>4
      <3>6. m.type # "log"
        BY <2>2
      <3> QED
        BY <2>3, <3>2, <3>5, <3>6, NoteStep
    <2>5. CASE ~lastError
      <3>1. broadcast(<<>>)
        BY <1>10, <2>5 DEF WatchStarts
      <3>2. down' = down
        BY <1>0, <3>1, Broadcasts
      <3> QED
        BY <1>3, <2>3, <3>2
    <2> QED
      BY <2>4, <2>5
  <1>11. ASSUME NEW res \in Resources, WatchDies(res) PROVE LiveInv'
    BY <1>3, <1>11 DEF WatchDies, cl
  <1>12. ASSUME NEW r \in Runs, ReportRead(r) PROVE LiveInv'
    <2>1. PICK m \in Messages : m = Msg("report", r, "")
      BY DEF Msg, Messages
    <2>2. m.type = "report" /\ m.n = r
      BY <2>1 DEF Msg
    <2>3. UNCHANGED <<pod, store, ws, up, follower, strayed, following, browser>>
      BY <1>12 DEF ReportRead, cl
    <2>4. (reports' = reports \cup {r} /\ broadcast(<<m>>)) \/ UNCHANGED <<reports, down>>
      BY <1>12, <2>1, Zenon DEF ReportRead
    <2>5. CASE reports' = reports \cup {r} /\ broadcast(<<m>>)
      <3>1. down' = IF ws THEN Append(down, m) ELSE down
        BY <1>0, <2>5, Broadcasts
      <3>2. PICK c \in Browsers : c = handle(b, m)
        BY Handled
      <3>3. c.objs = b.objs /\ b.reports \subseteq c.reports /\ r \in c.reports
        BY <2>2, <3>2, NoteHandled
      <3>4. ws => handle(Ahead, m).objs = store' /\ reports' \subseteq handle(Ahead, m).reports
        BY <1>1, <1>2, <2>3, <2>5, <3>2, <3>3
      <3>5. m.type # "log"
        BY <2>2
      <3> QED
        BY <2>3, <3>1, <3>4, <3>5, NoteStep
    <2>6. CASE UNCHANGED <<reports, down>>
      BY <1>3, <2>3, <2>6
    <2> QED
      BY <2>4, <2>5, <2>6
  <1>13. ASSUME NEW r \in Runs, ReportAgain(r) PROVE LiveInv'
    BY <1>3, <1>13 DEF ReportAgain, cl
  <1>14. ASSUME NEW s \in Servers, NEW op \in {"create", "pause", "resume", "remove"}, handleAction(op, s)
         PROVE  LiveInv'
    BY <1>3, <1>14 DEF handleAction, cl
  <1>15. CASE follow
    <2>1. PICK r \in Runs \cup {NoRun} : r = Head(up)
      BY <1>0, <1>15, HeadTailProperties DEF SocketTyped, follow
    <2>2. up' \in Seq(Runs \cup {NoRun}) /\ up # <<>> /\ UNCHANGED <<pod, store, reports, ws, down, strayed, following, browser>>
      BY <1>0, <1>15, HeadTailProperties DEF SocketTyped, follow, cl
    <2>3. ws
      BY <1>0, <2>2 DEF SocketTyped
    <2>4. PICK v \in LogFollowers : v = IF r = NoRun THEN Off ELSE [Off EXCEPT !.run = r, !.st = "listing"]
      <3>1. Off \in LogFollowers
        BY DEF Off, LogFollowers, FollowerStates
      <3>2. r # NoRun => [Off EXCEPT !.run = r, !.st = "listing"] \in LogFollowers
        BY <3>1 DEF LogFollowers, FollowerStates
      <3> QED
        BY <3>1, <3>2, Zenon
    <2>5. /\ v.st \in {"off", "listing"} /\ v.pos = 0 /\ v.pending = 0 /\ (v.st # "off" => v.run \in Runs)
      BY <2>4 DEF Off
    <2>6. PICK u \in LogFollowers : u = follower["current"] /\ Reads("current", u)
      BY DEF LiveInv, SocketTyped, Reading, Followers
    <2>7. PICK s \in LogFollowers : s = follower["stray"] /\ Reads("stray", s)
      BY DEF LiveInv, SocketTyped, Reading, Followers
    <2>8. PICK w \in LogFollowers : w = IF u.st \in {"listing", "opening"} THEN u ELSE s
      BY Zenon
    <2>9. follower' = [current |-> v, stray |-> w]
      BY <1>15, <2>1, <2>4, <2>6, <2>7, <2>8, Zenon DEF follow
    <2>10. /\ follower' \in [Followers -> LogFollowers]
           /\ follower'["current"] = v /\ follower'["stray"] = w
      BY <2>9 DEF Followers
    <2>11. SocketTyped'
      BY <1>0, <2>2, <2>3, <2>10 DEF SocketTyped
    <2>12. Reads("stray", w)
      <3>1. CASE u.st \in {"listing", "opening"}
        BY <2>6, <2>8, <3>1 DEF Reads
      <3>2. CASE u.st \notin {"listing", "opening"}
        BY <2>7, <2>8, <3>2
      <3> QED
        BY <3>1, <3>2
    <2>13. Reads("current", v) /\ SentLog(v)
      BY <2>5, Idle
    <2>14. Reading'
      BY <2>2, <2>10, <2>12, <2>13 DEF Reading, Reads, Followers
    <2>15. LogsAhead' /\ Ahead' = Ahead
      BY <2>2 DEF LiveInv, LogsAhead, Ahead
    <2>16. BatchesAddUp'
      BY <2>2, <2>10, <2>13, <2>15 DEF BatchesAddUp, SentLog
    <2>17. StoreMirrored'
      BY <1>0, <2>2, <2>15 DEF StoreMirrored
    <2> QED
      BY <2>11, <2>14, <2>15, <2>16, <2>17 DEF LiveInv
  <1>16. CASE Cluster
    BY <1>4, <1>5, <1>6, <1>7, <1>16 DEF Cluster, Stream
  <1>17. CASE Server
    BY <1>8, <1>9, <1>10, <1>11, <1>12, <1>13, <1>14, <1>15, <1>17, FollowerSteps, Zenon DEF Server, Stream
  <1> QED
    BY <1>16, <1>17

\* Steps of the browser and of the socket.
LEMMA BrowserSteps ==
    ASSUME LiveInv, ClusterTyped', Browser
    PROVE  LiveInv'
  <1>0. ClusterTyped /\ SocketTyped /\ Reading /\ LogsAhead /\ BatchesAddUp /\ StoreMirrored
    BY DEF LiveInv
  <1>1. browser \in Browsers /\ down \in Seq(Messages) /\ Len(down) \in Nat
    BY <1>0, AheadTyped DEF SocketTyped
  <1>2. TrueLogs(browser, strayed, pod)
    <2>1. Replay(browser, down)[0] = browser /\ 0 \in 0..Len(down)
      BY <1>1, Replayed
    <2> QED
      BY <1>0, <2>1 DEF LogsAhead
  <1>3. ASSUME NEW s \in {"open", "error"}
        PROVE  [browser EXCEPT !.connection = s] \in Browsers /\ [browser EXCEPT !.connection = s].logs = browser.logs
    BY <1>1 DEF Browsers
  <1>4. CASE connect
    <2>1. /\ ~ws /\ ws' = TRUE /\ down' = Greeting
          /\ UNCHANGED <<pod, store, reports, follower, strayed, following>>
      BY <1>4 DEF connect, Greeting, cl, srv
    <2>2. /\ Greeting \in Seq(Messages) /\ Len(Greeting) >= 1
          /\ Greeting[1].type = "snapshot" /\ Greeting[1].v = store
          /\ \A i \in 2..Len(Greeting) : Greeting[i].type \in {"report", "error"}
          /\ \A r \in reports : \E i \in 1..Len(Greeting) : Greeting[i].type = "report" /\ Greeting[i].n = r
      BY <1>0, Greets DEF ClusterTyped
    <2>3. PICK b \in Browsers : b = browser' /\ b.logs = browser.logs
      BY <1>3, <1>4 DEF connect
    <2>4. PICK d \in Seq(Messages) : d = Greeting
      BY <2>2
    <2>5. /\ \A i \in 0..Len(d) : Replay(b, d)[i].logs = b.logs
          /\ Replay(b, d)[Len(d)].objs = d[1].v
          /\ \A j \in 1..Len(d) : d[j].type = "report" => d[j].n \in Replay(b, d)[Len(d)].reports
      BY <2>2, <2>4, ReplayClient
    <2>6. Ahead' = Replay(b, d)[Len(d)]
      BY <2>1, <2>3, <2>4 DEF Ahead
    <2>7. /\ \A f \in Followers : follower[f].st = "off"
          /\ up' \in Seq(Runs \cup {NoRun})
      <3>1. following \in Runs \cup {NoRun}
        BY <1>0 DEF SocketTyped
      <3>2. <<following>> \in Seq(Runs \cup {NoRun}) /\ <<>> \in Seq(Runs \cup {NoRun})
        BY <3>1
      <3> QED
        BY <1>0, <1>4, <2>1, <3>2 DEF connect, SocketTyped
    <2>8. SocketTyped'
      BY <1>0, <2>1, <2>3, <2>4, <2>7 DEF SocketTyped
    <2>9. Reading'
      BY <1>0, <2>1 DEF Reading, Reads
    <2>10. LogsAhead'
      BY <1>2, <2>1, <2>3, <2>4, <2>5 DEF LogsAhead, TrueLogs
    <2>11. BatchesAddUp'
      BY <2>1, <2>7 DEF BatchesAddUp, SentLog, Followers
    <2>12. StoreMirrored'
      BY <2>1, <2>2, <2>4, <2>5, <2>6 DEF StoreMirrored
    <2> QED
      BY <2>8, <2>9, <2>10, <2>11, <2>12 DEF LiveInv
  <1>5. CASE onclose
    <2>1. /\ ws' = FALSE /\ down' = <<>> /\ up' = <<>> /\ follower' = [f \in Followers |-> Off]
          /\ UNCHANGED <<pod, store, reports, strayed, following>>
      BY <1>5 DEF onclose, cl, srv
    <2>2. PICK b \in Browsers : b = browser' /\ b.logs = browser.logs
      BY <1>3, <1>5 DEF onclose
    <2>3. Off \in LogFollowers /\ Off.st = "off" /\ Off.pos = 0 /\ Off.pending = 0
      BY DEF Off, LogFollowers, FollowerStates
    <2>4. /\ follower' \in [Followers -> LogFollowers] /\ \A f \in Followers : follower'[f] = Off
      BY <2>1, <2>3
    <2>5. SocketTyped'
      BY <1>0, <2>1, <2>2, <2>3, <2>4, EmptySeq DEF SocketTyped
    <2>6. Reading'
      BY <2>3, <2>4 DEF Reading, Reads
    <2>7. LogsAhead'
      <3>1. down' \in Seq(Messages) /\ Len(down') = 0
        BY <2>1, EmptySeq
      <3>2. Replay(b, down')[0] = b
        BY <3>1, Replayed
      <3>3. \A i \in 0..Len(down') : i = 0
        BY <3>1
      <3>4. TrueLogs(b, strayed', pod')
        BY <1>2, <2>1, <2>2 DEF TrueLogs
      <3> QED
        BY <2>2, <3>2, <3>3, <3>4 DEF LogsAhead
    <2>8. BatchesAddUp'
      BY <2>3, <2>4 DEF BatchesAddUp, SentLog, Followers
    <2>9. StoreMirrored'
      BY <2>1 DEF StoreMirrored
    <2> QED
      BY <2>5, <2>6, <2>7, <2>8, <2>9 DEF LiveInv
  <1>6. CASE onmessage
    <2>1. /\ down # <<>> /\ browser' = handle(browser, Head(down)) /\ down' = Tail(down)
          /\ UNCHANGED <<pod, store, reports, ws, up, follower, strayed, following>>
      BY <1>6 DEF onmessage, cl, srv
    <2>2. /\ browser' \in Browsers /\ down' \in Seq(Messages) /\ Len(down') = Len(down) - 1
          /\ \A n \in 0..(Len(down) - 1) : Replay(browser', down')[n] = Replay(browser, down)[n + 1]
      BY <1>1, <2>1, ReplayTail
    <2>3. Len(down) \in Nat \ {0} /\ Len(down') \in 0..(Len(down) - 1) /\ Len(down') + 1 = Len(down)
      BY <1>1, <2>1, <2>2, EmptySeq
    <2>4. Ahead' = Ahead
      BY <2>2, <2>3 DEF Ahead
    <2>5. SocketTyped'
      BY <1>0, <2>1, <2>2 DEF SocketTyped
    <2>6. Reading'
      BY <1>0, <2>1 DEF Reading, Reads
    <2>7. LogsAhead'
      <3> SUFFICES ASSUME NEW i \in 0..Len(down')
                   PROVE  TrueLogs(Replay(browser', down')[i], strayed', pod')
        BY DEF LogsAhead
      <3>1. i \in 0..(Len(down) - 1) /\ i + 1 \in 0..Len(down)
        BY <2>2, <2>3
      <3> QED
        BY <1>0, <2>1, <2>2, <3>1 DEF LogsAhead
    <2>8. BatchesAddUp'
      BY <1>0, <2>1, <2>4 DEF BatchesAddUp, SentLog
    <2>9. StoreMirrored'
      BY <1>0, <2>1, <2>4 DEF StoreMirrored
    <2> QED
      BY <2>5, <2>6, <2>7, <2>8, <2>9 DEF LiveInv
  <1>7. ASSUME NEW r \in Runs \cup {NoRun}, Show(r) PROVE LiveInv'
    <2>1. /\ following' = r /\ up' = (IF ws THEN Append(up, r) ELSE up)
          /\ UNCHANGED <<pod, store, reports, ws, down, follower, strayed, browser>>
      BY <1>7 DEF Show, cl, srv
    <2>2. up \in Seq(Runs \cup {NoRun}) /\ (~ws => up = <<>>)
      BY <1>0 DEF SocketTyped
    <2>3. up' \in Seq(Runs \cup {NoRun}) /\ (~ws => up' = <<>>)
      BY <2>1, <2>2, AppendProperties
    <2> QED
      BY <2>1, <2>3, QuietStep
  <1> QED
    BY <1>4, <1>5, <1>6, <1>7, Zenon DEF Browser, Stream

\* Every step keeps the invariant of the live view.
LEMMA LiveNext == LiveInv /\ [Next]_vars => LiveInv'
  <1> SUFFICES ASSUME LiveInv, [Next]_vars PROVE LiveInv'
    OBVIOUS
  <1>1. CASE Cluster \/ Server \/ Browser
    <2>1. ClusterTyped'
      BY <1>1, ClusterStep
    <2> QED
      BY <1>1, <2>1, ServerSteps, BrowserSteps
  <1>2. CASE UNCHANGED liveVars
    <2>1. UNCHANGED <<cluster, configMap, pod, watch, store, lastError, reports, fetch, action,
                      ws, down, up, follower, strayed, following, browser>>
      BY <1>2 DEF liveVars, cl, srv
    <2>2. ClusterTyped'
      BY <2>1 DEF LiveInv, ClusterTyped
    <2>3. up \in Seq(Runs \cup {NoRun}) /\ (~ws => up = <<>>) /\ following \in Runs \cup {NoRun}
      BY DEF LiveInv, SocketTyped
    <2> QED
      BY <2>1, <2>2, <2>3, QuietStep
  <1>3. CASE Chatting
    <2>1. UNCHANGED liveVars
      BY <1>3, Zenon DEF Chatting, Talk
    <2> QED
      BY <1>2, <2>1
  <1>4. CASE UNCHANGED vars
    BY <1>2, <1>4 DEF vars
  <1> QED
    BY <1>1, <1>3, <1>4 DEF Next

\* So it holds always.
LEMMA LiveInductive == Spec => []LiveInv
  <1>1. Init => LiveInv
    BY LiveInitHolds DEF Init
  <1> QED
    BY <1>1, LiveNext, PTL DEF Spec

\* What the browser will have of a log is a beginning of it.
LEMMA LogsTrue == LiveInv => LogExact
  <1> SUFFICES ASSUME LiveInv, NEW r \in Runs \ strayed
               PROVE  IsPrefix(Ahead.logs[r], Log(pod[r].lines))
    BY DEF LogExact
  <1>1. Len(down) \in 0..Len(down)
    BY AheadTyped DEF LiveInv
  <1>2. PICK k \in 0..pod[r].lines : Ahead.logs[r] = Log(k)
    BY <1>1 DEF LiveInv, LogsAhead, TrueLogs, Ahead
  <1>3. pod[r].lines \in Nat
    BY LiveLimits DEF LiveInv, ClusterTyped, Pods
  <1>4. k \in Nat /\ k <= pod[r].lines
    BY <1>2, <1>3
  <1> QED
    BY <1>2, <1>3, <1>4, Lines

\* The types of the live view follow from its invariant.
LEMMA LiveTypes == LiveInv => LiveTypeOK
  <1> SUFFICES ASSUME LiveInv PROVE LiveTypeOK
    OBVIOUS
  <1>1. \A f \in Followers : follower[f].pending <= follower[f].pos
    <2> SUFFICES ASSUME NEW f \in Followers PROVE follower[f].pending <= follower[f].pos
      OBVIOUS
    <2> QED
      BY DEF LiveInv, Reading, Reads
  <1>2. browser.connection \in {"connecting", "open", "error"}
    BY DEF LiveInv, SocketTyped, Browsers
  <1> QED
    BY <1>1, <1>2 DEF LiveInv, ClusterTyped, SocketTyped, LiveTypeOK, States, Pods, Fetches
-----------------------------------------------------------------------------
(***************************************************************************)
(* Theorems.                                                               *)
(***************************************************************************)

\* A question about a run is worked on only in a session that was given that run's
\* context and no other's, for any number of panels, questions and remembered
\* sessions: the check of handleChat against sessionRun is enough, although entries
\* are evicted, OpenCode forgets sessions, and it may work on a question whose
\* handler has given up.
THEOREM OneRunPerSession == Spec => []SessionOfRun
  <1>1. IInv => SessionOfRun
    BY DEF IInv
  <1> QED
    BY <1>1, Inductive, PTL

\* Every slot of the gateway's limiter is held by a request that is being served,
\* and the limit is kept, for any number of callers and any limit.
THEOREM SlotsGivenBack == Spec => []SlotsBalanced
  <1>1. IInv => SlotsBalanced
    BY DEF IInv
  <1> QED
    BY <1>1, Inductive, PTL

\* The hops after the cursor have no hole while they are fewer than the journal
\* holds, for any size of the ring: a failed read of the cursor (0) and a ring that
\* turned over included.
THEOREM HopsWithoutHole == Spec => []HopsComplete
  <1> QED
    BY SinceCursor, Inductive, PTL

\* While the socket is open, the browser and what is on its way to it add up to the
\* server's store and reports, for any cluster, any number of messages on the
\* socket, and through every failure of a watch and every new socket.
THEOREM StoreKept == Spec => []StoreMirrored
  <1>1. LiveInv => StoreMirrored
    BY DEF LiveInv
  <1> QED
    BY <1>1, LiveInductive, PTL

\* A log in the browser is a beginning of the evaluator's log, for logs of any
\* length and any batching: reset, the batches of flush and the log of the browser
\* agree through every end of a stream, new attachment and lost socket, unless a
\* stopped LogFollower went on sending.
THEOREM LogsKept == Spec => []LogExact
  <1> QED
    BY LogsTrue, LiveInductive, PTL

\* The state of the console server and of its browsers stays well typed: sessionRun
\* and the journal within their limits, a follower's pending lines among those it
\* read, the attempts of a report within ReportAttempts.
THEOREM TypeCorrect == Spec => []TypeOK
  <1>1. IInv => ChatTypeOK
    BY DEF IInv, Typed, Asks, Ring, ChatTypeOK
  <1>2. Init => part \in {"stream", "chat"}
    BY DEF Init
  <1>3. part \in {"stream", "chat"} /\ [Next]_vars => (part \in {"stream", "chat"})'
    <2> SUFFICES ASSUME part \in {"stream", "chat"}, [Next]_vars PROVE part' \in {"stream", "chat"}
      OBVIOUS
    <2>1. CASE Next
      <3>1. UNCHANGED part
        BY <2>1, Zenon DEF Next, Cluster, Server, Browser, Chatting, Stream, Talk
      <3> QED
        BY <3>1
    <2>2. CASE UNCHANGED vars
      BY <2>2 DEF vars
    <2> QED
      BY <2>1, <2>2
  <1>4. IInv /\ LiveInv /\ part \in {"stream", "chat"} => TypeOK
    BY <1>1, LiveTypes DEF TypeOK
  <1> QED
    BY <1>2, <1>3, <1>4, Inductive, LiveInductive, PTL DEF Spec
=============================================================================
