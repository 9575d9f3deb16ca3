------------------------------ MODULE Console -------------------------------
(***************************************************************************)
(* The console server: the live view of Live and the chat of Chat behind   *)
(* one HTTP server.  All they share is that the chat looks a run up in the *)
(* server's store, whose every outcome Chat!Admit allows; so a behaviour   *)
(* is one of the stream or one of the chat, and their interleavings, which *)
(* would only multiply the states, are left out.                           *)
(***************************************************************************)
EXTENDS Live, Chat

VARIABLE part

vars == <<part, liveVars, chatVars>>

TypeOK == LiveTypeOK /\ ChatTypeOK /\ part \in {"stream", "chat"}

Stream(A) == part = "stream" /\ A /\ UNCHANGED <<part, chatVars>>
Talk(A) == part = "chat" /\ A /\ UNCHANGED <<part, liveVars>>

Init == LiveInit /\ ChatInit /\ part \in {"stream", "chat"}

Cluster ==
    \/ \E n \in Objects : Stream(ClusterChanges(n))
    \/ \E r \in Runs : Stream(ReportStored(r)) \/ Stream(PodRuns(r))
    \/ Stream(ActionDone)

Server ==
    \/ \E n \in Objects : Stream(upsert(n))
    \/ \E res \in Resources : Stream(WatchFails(res)) \/ Stream(WatchStarts(res)) \/ Stream(WatchDies(res))
    \/ \E r \in Runs : Stream(ReportRead(r)) \/ Stream(ReportAgain(r))
    \/ \E s \in Servers, op \in {"create", "pause", "resume", "remove"} : Stream(handleAction(op, s))
    \/ \E f \in Followers :
         \/ Stream(PodsListed(f)) \/ Stream(LogOpened(f)) \/ Stream(attach(f))
         \/ Stream(push(f)) \/ Stream(flush(f)) \/ Stream(StreamEnds(f))
    \/ Stream(follow)

Browser ==
    \/ Stream(connect) \/ Stream(onclose) \/ Stream(onmessage)
    \/ \E r \in Runs \cup {NoRun} : Stream(Show(r))

Chatting ==
    \/ \E p \in Panels : Talk(Ask(p))
    \/ \E q \in Questions :
         \/ Talk(Admit(q)) \/ Talk(journalCursor(q)) \/ Talk(newSession(q))
         \/ Talk(Answered(q)) \/ Talk(AnswerFails(q)) \/ Talk(ReadJournal(q))
         \/ Talk(Receive(q)) \/ Talk(CallModel(q)) \/ Talk(Finish(q))
    \/ Talk(RestartOpenCode) \/ Talk(Arrive)
    \/ \E x \in Callers : Talk(acquire(x)) \/ Talk(proxy(x)) \/ Talk(Leave(x))

Next == Cluster \/ Server \/ Browser \/ Chatting

\* What the runtime sees to.  Informers deliver, timers fire, calls of the API
\* server return, and the browser connects again and handles its messages.  Every
\* await of handleChat has a timer.
Fairness ==
    /\ \A n \in Objects : WF_vars(Stream(upsert(n)))
    /\ \A res \in Resources : WF_vars(Stream(WatchStarts(res)))
    /\ \A r \in Runs : WF_vars(Stream(ReportRead(r) \/ ReportAgain(r)))
    /\ WF_vars(Stream(connect)) /\ WF_vars(Stream(onmessage))
    /\ \A q \in Questions : WF_vars(Talk(handleChat(q)))

Spec == Init /\ [][Next]_vars /\ Fairness
=============================================================================
