-------------------------------- MODULE Chat --------------------------------
(***************************************************************************)
(* The console's chat and what answers it: useChat in the browsers         *)
(* (frontend/src/data/useChat.ts), POST /api/chat (frontend/server/        *)
(* chat.ts), the OpenCode server with its sessions, and the Occludra       *)
(* gateway (images/occludra-gateway/main.go, journal.go) every model call  *)
(* passes, next to the calls of evaluations.                               *)
(*                                                                         *)
(* A question is followed from the browser through the awaits of           *)
(* handleChat.  OpenCode may restart, which forgets its sessions; it may   *)
(* answer after the handler has given the question up; it may not answer.  *)
(* What the chat reads of the rest of the console is the context of a run, *)
(* or that the server does not know the run.                               *)
(***************************************************************************)
EXTENDS Integers, Sequences, FiniteSets, SequencesExt

CONSTANTS Panels,          \* mounted AskPanels and the panel of HowItWorks
          PlainPanels,     \* those that ask about no run
          Topics,          \* runs asked about
          MaxQuestions,    \* bound: questions
          MaxSessions,     \* MAX_SESSIONS (200 in the code)
          JournalSize,     \* journalSize (100 in the code)
          MaxInflight,     \* OCCLUDRA_MAX_INFLIGHT
          MaxCalls,        \* bound: model calls for one question
          MaxOutages       \* bound: failed calls of the chat server, restarts of OpenCode

Plain == "plain"      \* no run
Nobody == "nobody"    \* no panel, and the run of a session nobody remembers

ASSUME ChatAssumption ==
    /\ PlainPanels \subseteq Panels
    /\ {Plain, Nobody} \cap Topics = {}
    /\ \A n \in {MaxQuestions, MaxSessions, JournalSize, MaxInflight, MaxCalls, MaxOutages} : n \in Nat

Questions == 1..MaxQuestions
Evaluation == 0       \* a model call that no question caused
Callers == {Evaluation} \cup Questions

VARIABLES
    saved,       \* panel -> sessions it was given; a session is named by its first question
    ask,         \* question -> its handler: [pc, p, run, req, ctx, cur, ses]
    busy,
    sessionRun,  \* sessions and their runs, oldest first
    known,       \* sessions OpenCode knows
    told,        \* session -> runs whose context it was given
    job,         \* question -> OpenCode's work on it: [st, calls, run, ses]
    outages,
    gw,          \* caller -> its goroutine in the gateway: "none" | "arrived" | "serving" | "replied" | "refused"
    used,        \* slots of the inflight limiter
    journal,     \* ids of the entries, oldest first
    last         \* id of the last entry

gateway == <<gw, used, journal, last>>
opencode == <<known, told, job>>
chatVars == <<saved, ask, busy, sessionRun, opencode, outages, gateway>>

NoAsk == [pc |-> "none", p |-> Nobody, run |-> Plain, req |-> 0, ctx |-> FALSE, cur |-> 0, ses |-> 0]
Job(st) == [st |-> st, calls |-> 0, run |-> Plain, ses |-> 0]

ChatTypeOK ==
    /\ saved \in [Panels -> SUBSET Questions]
    /\ \A q \in Questions : ask[q].pc \in {"none", "body", "cursor", "session", "answer", "journal", "done"}
    /\ busy \in BOOLEAN
    /\ Len(sessionRun) <= MaxSessions
    /\ known \subseteq Questions
    /\ gw \in [Callers -> {"none", "arrived", "serving", "replied", "refused"}]
    /\ Len(journal) <= JournalSize
-----------------------------------------------------------------------------
(***************************************************************************)
(* ask of useChat: one question of a panel at a time.  The session sent is *)
(* the one in the panel's ref, which outlives a change of the run shown,   *)
(* or the one stored for the run, or none after restart.                   *)
(***************************************************************************)
Ask(p) ==
    /\ \A q \in Questions : ask[q].p = p => ask[q].pc = "done"
    /\ \E q \in Questions, r \in Topics \cup {Plain}, s \in saved[p] \cup {0} :
         /\ r = Plain <=> p \in PlainPanels
         /\ ask[q].pc = "none" /\ \A k \in 1..(q - 1) : ask[k].pc # "none"
         /\ ask' = [ask EXCEPT ![q] = [NoAsk EXCEPT !.pc = "body", !.p = p, !.run = r, !.req = s]]
    /\ UNCHANGED <<saved, busy, sessionRun, opencode, outages, gateway>>
-----------------------------------------------------------------------------
(***************************************************************************)
(* handleChat.                                                             *)
(***************************************************************************)
RunOf(s) == IF \E i \in DOMAIN sessionRun : sessionRun[i][1] = s
            THEN sessionRun[CHOOSE i \in DOMAIN sessionRun : sessionRun[i][1] = s][2] ELSE Nobody

\* Mutant: no session is ever dropped.
rememberSessionForever(s, r) ==
    IF RunOf(s) = Nobody THEN Append(sessionRun, <<s, r>>)
    ELSE [i \in DOMAIN sessionRun |-> IF sessionRun[i][1] = s THEN <<s, r>> ELSE sessionRun[i]]

\* A Map keeps the place of a key that is set again; the oldest is dropped at the
\* limit.
rememberSession(s, r) ==
    LET set == IF RunOf(s) = Nobody THEN Append(sessionRun, <<s, r>>)
               ELSE [i \in DOMAIN sessionRun |-> IF sessionRun[i][1] = s THEN <<s, r>> ELSE sessionRun[i]]
    IN  IF Len(set) > MaxSessions THEN Tail(set) ELSE set

SetAsk(q, v) == ask' = [ask EXCEPT ![q] = v]

\* A reply is sent and the handler ends; useChat takes the session of an answer and
\* forgets its own when told to.
Reply(q, status) ==
    LET a == ask[q] IN
    /\ SetAsk(q, [NoAsk EXCEPT !.pc = "done"])
    /\ saved' = CASE status = 200 -> [saved EXCEPT ![a.p] = @ \cup {a.ses}]
                  [] status = 409 -> [saved EXCEPT ![a.p] = @ \ {a.req}]
                  [] OTHER -> saved

\* Mutant: the session is not compared with the run.
AdmitAnySession(q) ==
    LET a == ask[q] IN
    /\ a.pc = "body" /\ ~busy
    /\ busy' = TRUE
    /\ SetAsk(q, [a EXCEPT !.pc = "cursor", !.ctx = a.run # Plain /\ a.req = 0])
    /\ UNCHANGED <<saved, sessionRun, opencode, outages, gateway>>

\* The body was read: a malformed question gets 400, one about a run the server
\* does not know 404, one that finds the model busy 429.  A session of another
\* run is not used, and a new one starts with the run's context.
Admit(q) ==
    LET a == ask[q]
        req == IF a.run # Plain /\ RunOf(a.req) # a.run THEN 0 ELSE a.req
    IN  /\ a.pc = "body"
        /\ \/ /\ ~busy /\ busy' = TRUE
              /\ SetAsk(q, [a EXCEPT !.pc = "cursor", !.req = req, !.ctx = a.run # Plain /\ req = 0])
              /\ UNCHANGED saved
           \/ UNCHANGED busy /\ Reply(q, 429)
        /\ UNCHANGED <<sessionRun, opencode, outages, gateway>>

\* The message is on its way to OpenCode.
Post(q, v) ==
    /\ SetAsk(q, [v EXCEPT !.pc = "answer"])
    /\ sessionRun' = IF v.run = Plain THEN sessionRun ELSE rememberSession(v.ses, v.run)

\* A call of the chat server fails.
Fails == outages > 0 /\ outages' = outages - 1

\* Mutant: a failed journal read ends the handler without giving the model back.
journalCursorThrows(q) ==
    /\ ask[q].pc = "cursor"
    /\ Fails /\ Reply(q, 502)
    /\ UNCHANGED <<busy, sessionRun, opencode, gateway>>

\* The id of the last entry, or 0 when there is none or the journal cannot be read.
journalCursor(q) ==
    LET a == ask[q] IN
    /\ a.pc = "cursor"
    /\ \E cur \in {last, 0} :
         /\ IF cur = last THEN UNCHANGED outages ELSE Fails
         /\ IF a.req = 0 THEN SetAsk(q, [a EXCEPT !.pc = "session", !.cur = cur]) /\ UNCHANGED sessionRun
            ELSE Post(q, [a EXCEPT !.cur = cur, !.ses = a.req])
    /\ UNCHANGED <<saved, busy, opencode, gateway>>

\* A session is created, or 502.
newSession(q) ==
    /\ ask[q].pc = "session"
    /\ \/ /\ known' = known \cup {q}
          /\ Post(q, [ask[q] EXCEPT !.ses = q])
          /\ UNCHANGED <<saved, busy, outages>>
       \/ /\ Fails /\ busy' = FALSE /\ Reply(q, 502)
          /\ UNCHANGED <<known, sessionRun>>
    /\ UNCHANGED <<told, job, gateway>>

\* OpenCode answers: 404 for a session it has forgotten (409 to the browser when
\* the browser sent it), an error, or the message; then the journal is read.
Answered(q) ==
    /\ ask[q].pc = "answer"
    /\ \/ /\ job[q].st = "refused"
          /\ busy' = FALSE
          /\ Reply(q, IF ask[q].req # 0 THEN 409 ELSE 502)
       \/ /\ job[q].st = "done"
          /\ SetAsk(q, [ask[q] EXCEPT !.pc = "journal"])
          /\ UNCHANGED <<saved, busy>>
    /\ UNCHANGED <<sessionRun, opencode, outages, gateway>>

\* The call fails or ANSWER_TIMEOUT_MS is over: 502.  OpenCode works on.
AnswerFails(q) ==
    /\ ask[q].pc = "answer"
    /\ busy' = FALSE /\ Reply(q, 502)
    /\ UNCHANGED <<sessionRun, opencode, outages, gateway>>

\* Entries after a given id.  (The filter by client is left out: only the chat
\* names itself, and only its calls are modelled.)
since(after) == {e \in Range(journal) : e > after}

\* The journal is read, or not; the answer goes to the browser.
ReadJournal(q) ==
    /\ ask[q].pc = "journal"
    /\ busy' = FALSE /\ Reply(q, 200)
    /\ UNCHANGED <<sessionRun, opencode, outages, gateway>>
-----------------------------------------------------------------------------
(***************************************************************************)
(* OpenCode.                                                               *)
(***************************************************************************)
Receive(q) ==
    /\ ask[q].pc = "answer" /\ job[q].st = "none"
    /\ IF ask[q].ses \in known
       THEN /\ job' = [job EXCEPT ![q] = [st |-> "running", calls |-> MaxCalls, run |-> ask[q].run,
                                                   ses |-> ask[q].ses]]
            /\ told' = IF ask[q].ctx THEN [told EXCEPT ![ask[q].ses] = @ \cup {ask[q].run}] ELSE told
       ELSE job' = [job EXCEPT ![q] = Job("refused")] /\ UNCHANGED told
    /\ UNCHANGED <<saved, ask, busy, sessionRun, known, outages, gateway>>

CallModel(q) ==
    /\ job[q].st = "running" /\ job[q].calls > 0 /\ gw[q] = "none"
    /\ job' = [job EXCEPT ![q].calls = @ - 1]
    /\ gw' = [gw EXCEPT ![q] = "arrived"]
    /\ UNCHANGED <<saved, ask, busy, sessionRun, known, told, outages, used, journal, last>>

\* The work is done once the last call was answered.
Finish(q) ==
    /\ job[q].st = "running" /\ gw[q] \notin {"arrived", "serving"}
    /\ job' = [job EXCEPT ![q] = Job("done")]
    /\ UNCHANGED <<saved, ask, busy, sessionRun, known, told, outages, gateway>>

RestartOpenCode ==
    /\ Fails
    /\ known' = {}
    /\ job' = [q \in Questions |-> IF job[q].st = "running" THEN Job("lost") ELSE job[q]]
    /\ UNCHANGED <<saved, ask, busy, sessionRun, told, gateway>>
-----------------------------------------------------------------------------
(***************************************************************************)
(* Occludra: serveChatCompletions.                                         *)
(***************************************************************************)
Arrive ==
    /\ gw[Evaluation] = "none"
    /\ gw' = [gw EXCEPT ![Evaluation] = "arrived"]
    /\ UNCHANGED <<saved, ask, busy, sessionRun, opencode, outages, used, journal, last>>

\* acquire, or 503 after two seconds.
acquire(x) ==
    /\ gw[x] = "arrived"
    /\ \/ used < MaxInflight /\ used' = used + 1 /\ gw' = [gw EXCEPT ![x] = "serving"]
       \/ used >= MaxInflight /\ gw' = [gw EXCEPT ![x] = "refused"] /\ UNCHANGED used
    /\ UNCHANGED <<saved, ask, busy, sessionRun, opencode, outages, journal, last>>

\* The response of the primary or the fallback upstream, or a refusal (413, 400,
\* 403, 500), is written: one step for all of them, as the slot is held throughout
\* and given back by the same deferred release.
proxy(x) ==
    /\ gw[x] = "serving"
    /\ gw' = [gw EXCEPT ![x] = "replied"]
    /\ UNCHANGED <<saved, ask, busy, sessionRun, opencode, outages, used, journal, last>>

\* Mutant: the ring drops the oldest entry when it is full, and the new one too.
addShort(e) == IF Len(journal) = JournalSize THEN Tail(journal) ELSE Append(journal, e)

\* journal.add.
add(e) == LET all == Append(journal, e) IN IF Len(all) > JournalSize THEN Tail(all) ELSE all

\* Mutant: the slot is given back on every way out.
LeaveReleasing(x) ==
    /\ gw[x] \in {"replied", "refused"}
    /\ gw' = [gw EXCEPT ![x] = "none"]
    /\ used' = used - 1
    /\ IF x = Evaluation THEN UNCHANGED <<journal, last>>
       ELSE journal' = add(last + 1) /\ last' = last + 1
    /\ UNCHANGED <<saved, ask, busy, sessionRun, opencode, outages>>

\* What is deferred: the slot is given back, and a client that named itself is
\* journaled (evaluations do not name themselves).
Leave(x) ==
    /\ gw[x] \in {"replied", "refused"}
    /\ gw' = [gw EXCEPT ![x] = "none"]
    /\ used' = IF gw[x] = "replied" THEN used - 1 ELSE used
    /\ IF x = Evaluation THEN UNCHANGED <<journal, last>>
       ELSE journal' = add(last + 1) /\ last' = last + 1
    /\ UNCHANGED <<saved, ask, busy, sessionRun, opencode, outages>>
-----------------------------------------------------------------------------
ChatInit ==
    /\ saved = [p \in Panels |-> {}]
    /\ ask = [q \in Questions |-> NoAsk]
    /\ busy = FALSE /\ sessionRun = <<>>
    /\ known = {} /\ told = [s \in Questions |-> {}]
    /\ job = [q \in Questions |-> Job("none")]
    /\ outages = MaxOutages
    /\ gw = [x \in Callers |-> "none"] /\ used = 0 /\ journal = <<>> /\ last = 0

handleChat(q) == \/ Admit(q) \/ journalCursor(q) \/ newSession(q) \/ Answered(q) \/ AnswerFails(q)
                 \/ ReadJournal(q)
-----------------------------------------------------------------------------
\* The model works on a question about a run only in a session that was given that
\* run's context and no other's, whatever session the browser sends, and across the
\* eviction of sessions from sessionRun and restarts of OpenCode.
SessionOfRun ==
    \A q \in Questions : job[q].st = "running" /\ job[q].run # Plain => told[job[q].ses] = {job[q].run}

\* A slot of the gateway's limiter is held by a request being served and by nothing
\* else, on every way out of serveChatCompletions, and there are no more of them
\* than the limit.
SlotsBalanced ==
    /\ used = Cardinality({x \in Callers : gw[x] \in {"serving", "replied"}})
    /\ used <= MaxInflight

\* The hops that the answer to a question gets have no hole: when they are fewer
\* than the journal holds, they are all the calls that were journaled after the
\* cursor, also while the ring turned over.
HopsComplete ==
    \A q \in Questions : ask[q].pc = "journal" /\ Cardinality(since(ask[q].cur)) < JournalSize
                             => since(ask[q].cur) = (ask[q].cur + 1)..last

\* Every question is replied to and the model given back, whatever OpenCode, the
\* journal and the gateway do: again and again none is waiting and nobody is busy.
AskSettles == []<>(~busy /\ \A q \in Questions : ask[q].pc \in {"none", "done"})
=============================================================================
