-------------------------------- MODULE Live --------------------------------
(***************************************************************************)
(* The console's live view: the cluster, the server that watches it        *)
(* (frontend/server/live.ts, actions.ts) and a browser that mirrors it     *)
(* over one WebSocket (frontend/src/data/live.ts).                         *)
(*                                                                         *)
(*  - an informer per resource copies the cluster into the store and       *)
(*    broadcasts every change; it fails and is restarted, or is not;       *)
(*  - the report of a finished run is fetched with retries;                *)
(*  - one follower per client streams the evaluator's log of the run the   *)
(*    browser shows, and attaches again when the stream ends;              *)
(*  - the browser connects again after each loss and keeps what it has.    *)
(*                                                                         *)
(* The server is one event loop: a step is what it does between two        *)
(* awaits.  An informer delivers the latest state of an object.            *)
(***************************************************************************)
EXTENDS Integers, Sequences, FiniteSets, SequencesExt

CONSTANTS Runs, Servers,    \* names of runs and of MCPServers
          ReportAttempts,   \* REPORT_ATTEMPTS (6 in the code)
          MaxUiServers,     \* MAX_UI_SERVERS (20 in the code)
          MaxChanges,       \* bound: changes in the cluster
          MaxBreaks,        \* bound: failures of watches, calls, streams and sockets
          MaxLines,         \* bound: lines an evaluator logs
          MaxFollows,       \* bound: changes of the run the browser shows
          MaxQueue          \* bound: messages on the WebSocket when a batch of lines is added

ASSUME LiveAssumption ==
    /\ Runs \cap Servers = {} /\ ReportAttempts # 0
    /\ \A n \in {ReportAttempts, MaxUiServers, MaxChanges, MaxBreaks, MaxLines, MaxFollows, MaxQueue} :
           n \in Nat

VARIABLES
    cluster,    \* object -> "absent" | "live" | "over" (a terminal run, a paused server)
    configMap,  \* run -> its report's ConfigMap: "none" | "whole" | "cut" (too large: a summary and a prefix)
    pod,        \* run -> its evaluator container: [st, lines]
    breaks, changes, follows,   \* left of the bounds
    watch,      \* resource -> "init" | "up" | "down" | "dead"
    store,      \* the server's copy of the cluster
    lastError,
    reports,    \* runs whose report the server has
    fetch,      \* run -> [st, n]: attempt n is "reading" or "asleep"; "none": not pending
    action,     \* a request to change a server that passed its checks, or "none"
    ws,         \* the WebSocket is open
    down, up,   \* messages on it, to and from the browser
    follower,   \* "current" | "stray" -> a LogFollower
    strayed,    \* runs whose log a follower kept on sending after its stop
    following,  \* the run the browser shows, or NoRun
    browser     \* its Snapshot: [objs, reports, logs, connection]

cl == <<cluster, configMap, pod>>
srv == <<watch, store, lastError, reports, fetch, action>>
liveVars == <<cl, breaks, changes, follows, srv, ws, down, up, follower, strayed, following, browser>>

NoRun == "none"
Objects == Runs \cup Servers
\* What LiveCluster watches.  (Its third informer, for agents, is left out, and with
\* it the 503 of createServer when no agent is installed.)
Resources == {"servers", "runs"}
Followers == {"current", "stray"}
Resource(n) == IF n \in Runs THEN "runs" ELSE "servers"
Absent == [n \in Objects |-> "absent"]
isTerminal(phase) == phase = "over"

\* The first i lines of a log.
Log(i) == [k \in 1..i |-> k]

\* A LogFollower.  st: "off" | "listing" | "opening" | "streaming" | "waiting" |
\* "ended"; pos lines were read since it attached, pending of them not flushed.
Off == [run |-> NoRun, st |-> "off", pos |-> 0, pending |-> 0, reset |-> FALSE, first |-> TRUE]

LiveTypeOK ==
    /\ cluster \in [Objects -> {"absent", "live", "over"}]
    /\ configMap \in [Runs -> {"none", "whole", "cut"}] /\ reports \subseteq Runs /\ strayed \subseteq Runs
    /\ pod \in [Runs -> [st : {"none", "waiting", "running", "ended"}, lines : 0..MaxLines]]
    /\ watch \in [Resources -> {"init", "up", "down", "dead"}]
    /\ store \in [Objects -> {"absent", "live", "over"}]
    /\ fetch \in [Runs -> [st : {"none", "reading", "asleep"}, n : 0..ReportAttempts]]
    /\ lastError \in BOOLEAN /\ ws \in BOOLEAN
    /\ following \in Runs \cup {NoRun}
    /\ \A f \in Followers : follower[f].pending <= follower[f].pos
    /\ browser.connection \in {"connecting", "open", "error"}
-----------------------------------------------------------------------------
(***************************************************************************)
(* Messages.                                                               *)
(***************************************************************************)
Msg(type, n, v) == [type |-> type, n |-> n, v |-> v]
snapshotMessage(s) == Msg("snapshot", NoRun, s)

\* broadcast: to the client, when its socket is open.
broadcast(msgs) == down' = IF ws THEN down \o msgs ELSE down
Room == Len(down) < MaxQueue

\* LiveSource.handle.
handle(b, m) ==
    CASE m.type = "snapshot" -> [b EXCEPT !.objs = m.v, !.connection = "open"]
      [] m.type = "upsert" -> [b EXCEPT !.objs[m.n] = m.v]
      [] m.type = "delete" -> [b EXCEPT !.objs[m.n] = "absent"]
      [] m.type = "report" -> [b EXCEPT !.reports = @ \cup {m.n}]
      [] m.type = "log" -> [b EXCEPT !.logs[m.n] = (IF m.v.reset THEN <<>> ELSE @) \o m.v.lines]
      [] m.type = "error" -> [b EXCEPT !.connection = "error"]
-----------------------------------------------------------------------------
(***************************************************************************)
(* The cluster.                                                            *)
(***************************************************************************)

\* A run is created, ends or is deleted, with its report; a server is changed by
\* someone else.
ClusterChanges(n) ==
    /\ changes > 0 /\ changes' = changes - 1
    /\ \E v \in {"absent", "live", "over"} \ {cluster[n]} :
         /\ n \in Runs => <<cluster[n], v>> \notin {<<"over", "live">>, <<"absent", "over">>}
         /\ cluster' = [cluster EXCEPT ![n] = v]
         /\ configMap' = IF n \in Runs /\ v = "absent" THEN [configMap EXCEPT ![n] = "none"] ELSE configMap
    /\ UNCHANGED <<pod, breaks, follows, srv, ws, down, up, follower, strayed, following, browser>>

\* The evaluator stores the report after its last status patch: under report.json, or,
\* when it is too large for a ConfigMap, a summary and a prefix of it that is no JSON
\* (report.truncated.json).
ReportStored(r) ==
    /\ cluster[r] = "over" /\ configMap[r] = "none"
    /\ \E form \in {"whole", "cut"} : configMap' = [configMap EXCEPT ![r] = form]
    /\ UNCHANGED <<cluster, pod, breaks, changes, follows, srv, ws, down, up, follower, strayed, following, browser>>

PodRuns(r) ==
    /\ \/ pod[r].st = "none" /\ cluster[r] = "live" /\ pod' = [pod EXCEPT ![r].st = "waiting"]
       \/ pod[r].st = "waiting" /\ pod' = [pod EXCEPT ![r].st = "running"]
       \/ pod[r].st = "running" /\ pod[r].lines < MaxLines /\ pod' = [pod EXCEPT ![r].lines = @ + 1]
       \/ pod[r].st = "running" /\ pod' = [pod EXCEPT ![r].st = "ended"]
    /\ UNCHANGED <<cluster, configMap, breaks, changes, follows, srv, ws, down, up, follower, strayed, following, browser>>
-----------------------------------------------------------------------------
(***************************************************************************)
(* watch and maybeFetchReport.                                             *)
(***************************************************************************)

\* maybeFetchReport, first attempt, for a run in state v.
maybeFetchReport(r, v) ==
    IF isTerminal(v) /\ r \notin reports /\ fetch[r].st = "none"
    THEN [fetch EXCEPT ![r] = [st |-> "reading", n |-> 1]] ELSE fetch

\* Mutant: a change is stored and not broadcast.
upsertQuiet(n) ==
    /\ watch[Resource(n)] = "up" /\ store[n] # cluster[n]
    /\ store' = [store EXCEPT ![n] = cluster[n]]
    /\ fetch' = IF n \in Runs THEN maybeFetchReport(n, cluster[n]) ELSE fetch
    /\ UNCHANGED <<cl, breaks, changes, follows, watch, lastError, reports, action, ws, down, up, follower, strayed, following, browser>>

\* ADD, UPDATE or DELETE of an informer.
upsert(n) ==
    /\ watch[Resource(n)] = "up" /\ store[n] # cluster[n]
    /\ store' = [store EXCEPT ![n] = cluster[n]]
    /\ broadcast(<<Msg(IF cluster[n] = "absent" THEN "delete" ELSE "upsert", n, cluster[n])>>)
    /\ fetch' = IF n \in Runs THEN maybeFetchReport(n, cluster[n]) ELSE fetch
    /\ UNCHANGED <<cl, breaks, changes, follows, watch, lastError, reports, action, ws, up, follower, strayed, following, browser>>

\* ERROR of an informer: announced, and restarted after RETRY_MS.
WatchFails(res) ==
    /\ watch[res] = "up" /\ breaks > 0
    /\ breaks' = breaks - 1
    /\ watch' = [watch EXCEPT ![res] = "down"]
    /\ lastError' = TRUE
    /\ broadcast(<<Msg("error", NoRun, "")>>)
    /\ UNCHANGED <<cl, changes, follows, store, reports, fetch, action, ws, up, follower, strayed, following, browser>>

\* CONNECT of an informer: the first one after an error, of whichever resource,
\* takes the error back and sends the store anew.
WatchStarts(res) ==
    /\ watch[res] \in {"init", "down"}
    /\ watch' = [watch EXCEPT ![res] = "up"]
    /\ lastError' = FALSE
    /\ broadcast(IF lastError THEN <<snapshotMessage(store)>> ELSE <<>>)
    /\ UNCHANGED <<cl, breaks, changes, follows, store, reports, fetch, action, ws, up, follower, strayed, following, browser>>

\* informer.start() is rejected: it is not tried again.  Only the first start
\* leaves an error.
WatchDies(res) ==
    /\ watch[res] \in {"init", "down"} /\ breaks > 0
    /\ breaks' = breaks - 1
    /\ watch' = [watch EXCEPT ![res] = "dead"]
    /\ lastError' = (lastError \/ watch[res] = "init")
    /\ UNCHANGED <<cl, changes, follows, store, reports, fetch, action, ws, down, up, follower, strayed, following, browser>>

\* The read of a report's ConfigMap returns.  It fails when there is none, when the
\* call breaks, and when what is stored is the prefix, which JSON.parse rejects.  Every
\* ConfigMap the evaluator writes has one of the two texts, so "if (!raw) return" is
\* not taken.
ReportRead(r) ==
    /\ fetch[r].st = "reading"
    /\ \/ /\ configMap[r] = "whole"
          /\ reports' = reports \cup {r}
          /\ fetch' = [fetch EXCEPT ![r] = [st |-> "none", n |-> 0]]
          /\ broadcast(<<Msg("report", r, "")>>)
          /\ UNCHANGED breaks
       \/ /\ configMap[r] # "whole" \/ breaks > 0
          /\ breaks' = IF configMap[r] = "whole" THEN breaks - 1 ELSE breaks
          /\ fetch' = [fetch EXCEPT ![r] = IF @.n < ReportAttempts THEN [@ EXCEPT !.st = "asleep"]
                                           ELSE [st |-> "none", n |-> 0]]
          /\ UNCHANGED <<reports, down>>
    /\ UNCHANGED <<cl, changes, follows, watch, store, lastError, action, ws, up, follower, strayed, following, browser>>

\* Mutant: the next attempt is not made.
ReportAgainNever(r) ==
    /\ fetch[r].st = "asleep"
    /\ fetch' = [fetch EXCEPT ![r] = [st |-> "none", n |-> 0]]
    /\ UNCHANGED <<cl, breaks, changes, follows, watch, store, lastError, reports, action, ws, down, up, follower, strayed, following, browser>>

\* RETRY_MS later.
ReportAgain(r) ==
    /\ fetch[r].st = "asleep"
    /\ fetch' = [fetch EXCEPT ![r] = [st |-> "reading", n |-> @.n + 1]]
    /\ UNCHANGED <<cl, breaks, changes, follows, watch, store, lastError, reports, action, ws, down, up, follower, strayed, following, browser>>
-----------------------------------------------------------------------------
(***************************************************************************)
(* handleAction: the checks read the store, the change is made later.      *)
(* Every server here is one created from the UI.  "evaluate now" sets an   *)
(* annotation that nothing in this view depends on.                        *)
(***************************************************************************)
validateServerForm(s) == store[s] = "absent"

createServer(s) ==
    /\ validateServerForm(s)
    /\ Cardinality({t \in Servers : store[t] # "absent"}) < MaxUiServers

Checked(op, s) == IF op = "create" THEN createServer(s) ELSE store[s] # "absent"

handleAction(op, s) ==
    /\ action.op = "none" /\ changes > 0 /\ Checked(op, s)
    /\ changes' = changes - 1
    /\ action' = [op |-> op, s |-> s]
    /\ UNCHANGED <<cl, breaks, follows, watch, store, lastError, reports, fetch, ws, down, up, follower, strayed, following, browser>>

\* serverStore: what a call makes of a server in state v.  The API server rejects
\* (502) to create what exists and to change what does not.
serverStore(op, v) ==
    CASE op = "create" /\ v = "absent" -> "live"
      [] op = "pause" /\ v # "absent" -> "over"
      [] op = "resume" /\ v # "absent" -> "live"
      [] op = "remove" -> "absent"
      [] OTHER -> v

\* The call returns, and the request is answered.
ActionDone ==
    /\ action.op # "none"
    /\ action' = [op |-> "none", s |-> NoRun]
    /\ cluster' = [cluster EXCEPT ![action.s] = serverStore(action.op, @)]
    /\ UNCHANGED <<configMap, pod, breaks, changes, follows, watch, store, lastError, reports, fetch, ws, down, up, follower, strayed, following, browser>>
-----------------------------------------------------------------------------
(***************************************************************************)
(* LogFollower.  f is "current", or "stray": stopped while it was          *)
(* attaching, when stop() had nothing to abort.                            *)
(***************************************************************************)
SetFollower(f, v) == follower' = [follower EXCEPT ![f] = v]
Rest == <<cl, breaks, changes, follows, srv, ws, up, following, browser>>

\* retry: a stopped follower, or one of a finished run that was attached, ends.
retry(f) == LET v == follower[f]
            IN  IF f = "stray" THEN Off
                ELSE [v EXCEPT !.pos = 0, !.pending = 0,
                          !.st = IF isTerminal(store[v.run]) /\ ~v.first THEN "ended" ELSE "waiting"]

\* attach: the pods of the run are listed; the container of the newest has started, or
\* it has not, or the call failed.  (A run has one pod here: a retry starts a new log.)
PodsListed(f) ==
    /\ follower[f].st = "listing"
    /\ \/ /\ pod[follower[f].run].st \in {"running", "ended"}
          /\ SetFollower(f, [follower[f] EXCEPT !.st = "opening", !.reset = TRUE])
       \/ SetFollower(f, retry(f))
    /\ UNCHANGED <<Rest, down, strayed>>

\* logApi.log is answered, a stopped follower streams on; or it fails.
LogOpened(f) ==
    /\ follower[f].st = "opening"
    /\ \/ /\ SetFollower(f, [follower[f] EXCEPT !.st = "streaming", !.first = FALSE])
          /\ strayed' = IF f = "stray" THEN strayed \cup {follower[f].run} ELSE strayed
       \/ SetFollower(f, retry(f)) /\ UNCHANGED strayed
    /\ UNCHANGED <<Rest, down>>

\* push.
push(f) ==
    /\ follower[f].st = "streaming" /\ follower[f].pos < pod[follower[f].run].lines
    /\ SetFollower(f, [follower[f] EXCEPT !.pos = @ + 1, !.pending = @ + 1])
    /\ UNCHANGED <<Rest, down, strayed>>

\* The log message for what is pending.
Batch(v) == IF v.pending = 0 THEN <<>>
            ELSE <<Msg("log", v.run, [lines |-> SubSeq(Log(v.pos), v.pos - v.pending + 1, v.pos),
                                      reset |-> v.reset])>>

\* Mutant: a stream that is attached again is appended to the copy.
flushNoReset(f) ==
    /\ follower[f].st = "streaming" /\ follower[f].pending > 0 /\ Room
    /\ broadcast(<<[Batch(follower[f])[1] EXCEPT !.v.reset = FALSE]>>)
    /\ SetFollower(f, [follower[f] EXCEPT !.pending = 0, !.reset = FALSE])
    /\ UNCHANGED <<Rest, strayed>>

\* flush, LOG_BATCH_MS after the first pending line.
flush(f) ==
    /\ follower[f].st = "streaming" /\ follower[f].pending > 0 /\ Room
    /\ broadcast(Batch(follower[f]))
    /\ SetFollower(f, [follower[f] EXCEPT !.pending = 0, !.reset = FALSE])
    /\ UNCHANGED <<Rest, strayed>>

\* The stream ends, with the container or before: flush and retry.  (pipe forwards no
\* error: a stream that errs only delivers nothing more, and is not attached again.)
StreamEnds(f) ==
    /\ follower[f].st = "streaming" /\ Room
    /\ \/ pod[follower[f].run].st = "ended" /\ follower[f].pos = pod[follower[f].run].lines /\ UNCHANGED breaks
       \/ breaks > 0 /\ breaks' = breaks - 1
    /\ broadcast(Batch(follower[f]))
    /\ SetFollower(f, retry(f))
    /\ UNCHANGED <<cl, changes, follows, srv, ws, up, strayed, following, browser>>

\* RETRY_MS later.
attach(f) ==
    /\ follower[f].st = "waiting"
    /\ SetFollower(f, [follower[f] EXCEPT !.st = "listing"])
    /\ UNCHANGED <<Rest, down, strayed>>

\* Client.follow: the follower is stopped and another one starts.
follow ==
    /\ up # <<>> /\ up' = Tail(up)
    /\ LET r == Head(up)
           attaching == follower["current"].st \in {"listing", "opening"}
       IN  /\ attaching => follower["stray"].st = "off"   \* bound: one of them
           /\ follower' = [current |-> IF r = NoRun THEN Off ELSE [Off EXCEPT !.run = r, !.st = "listing"],
                           stray |-> IF attaching THEN follower["current"] ELSE follower["stray"]]
           /\ fetch' = IF r = NoRun THEN fetch ELSE maybeFetchReport(r, store[r])
    /\ UNCHANGED <<cl, breaks, changes, follows, watch, store, lastError, reports, action, ws, down, strayed, following, browser>>
-----------------------------------------------------------------------------
(***************************************************************************)
(* LiveSource and Client.                                                  *)
(***************************************************************************)

\* A WebSocket opens: the new Client sends all it has, the browser what it shows.
connect ==
    /\ ~ws /\ ws' = TRUE
    /\ down' = <<snapshotMessage(store)>>
               \o SetToSeq({Msg("report", r, "") : r \in reports})
               \o (IF lastError THEN <<Msg("error", NoRun, "")>> ELSE <<>>)
    /\ up' = IF following = NoRun THEN <<>> ELSE <<following>>
    /\ browser' = [browser EXCEPT !.connection = "open"]
    /\ UNCHANGED <<cl, breaks, changes, follows, srv, follower, strayed, following>>

\* It is lost, with what was on it; the followers send to nobody.
onclose ==
    /\ ws /\ breaks > 0
    /\ ws' = FALSE /\ breaks' = breaks - 1
    /\ down' = <<>> /\ up' = <<>>
    /\ follower' = [f \in Followers |-> Off]
    /\ browser' = [browser EXCEPT !.connection = "error"]
    /\ UNCHANGED <<cl, changes, follows, srv, strayed, following>>

onmessage ==
    /\ down # <<>>
    /\ browser' = handle(browser, Head(down))
    /\ down' = Tail(down)
    /\ UNCHANGED <<cl, breaks, changes, follows, srv, ws, up, follower, strayed, following>>

\* The page shows a run, or none; told to the server when the socket is open.
Show(r) ==
    /\ follows > 0 /\ follows' = follows - 1 /\ r # following
    /\ r # NoRun => browser.objs[r] # "absent"
    /\ following' = r
    /\ up' = IF ws THEN Append(up, r) ELSE up
    /\ UNCHANGED <<cl, breaks, changes, srv, ws, down, follower, strayed, browser>>
-----------------------------------------------------------------------------
emptySnapshot(connection) ==
    [objs |-> Absent, reports |-> {}, logs |-> [r \in Runs |-> <<>>], connection |-> connection]

LiveInit ==
    /\ cluster = Absent /\ configMap = [r \in Runs |-> "none"]
    /\ pod = [r \in Runs |-> [st |-> "none", lines |-> 0]]
    /\ breaks = MaxBreaks /\ changes = MaxChanges /\ follows = MaxFollows
    /\ watch = [res \in Resources |-> "init"] /\ store = Absent /\ lastError = FALSE
    /\ reports = {} /\ fetch = [r \in Runs |-> [st |-> "none", n |-> 0]]
    /\ action = [op |-> "none", s |-> NoRun]
    /\ ws = FALSE /\ down = <<>> /\ up = <<>>
    /\ follower = [f \in Followers |-> Off] /\ strayed = {}
    /\ following = NoRun
    /\ browser = emptySnapshot("connecting")

-----------------------------------------------------------------------------
\* Browser b after the first i of the messages msgs.
Replay(b, msgs) ==
    LET after[i \in 0..Len(msgs)] == IF i = 0 THEN b ELSE handle(after[i - 1], msgs[i])
    IN  after

\* The browser as it will be once everything on the socket is handled.
Ahead == Replay(browser, down)[Len(down)]

\* While the socket is open, the snapshot of the Client and every broadcast of the
\* informers add up: with what is on its way the browser has the server's store
\* and every report the server has, whatever was lost with earlier sockets.
StoreMirrored == ws => Ahead.objs = store /\ reports \subseteq Ahead.reports

\* A log in the browser is a beginning of the evaluator's log, through flushes, ends
\* of the stream, new attachments and new sockets, unless a LogFollower that was
\* stopped while it attached went on sending.
LogExact == \A r \in Runs \ strayed : IsPrefix(Ahead.logs[r], Log(pod[r].lines))

\* A fetch of r's report is under way with more attempts left than calls can break.
AttemptsLeft(r) == fetch[r].st # "none" /\ fetch[r].n + breaks < ReportAttempts

\* If the informers stay up, the browser ends up showing the cluster; and a report
\* that is stored whole while attempts to read it are left is shown.  Not so for an
\* oversized one, although maybeFetchReport falls back to its prefix (live.ts:151-152):
\* JSON.parse rejects it at each of the REPORT_ATTEMPTS, and it is given up.
CatchesUp ==
    /\ <>[](\A res \in Resources : watch[res] = "up") => <>[](browser.objs = cluster)
    /\ \A r \in Runs : (configMap[r] = "whole" /\ AttemptsLeft(r)) ~> (r \in browser.reports \/ configMap[r] = "none")
=============================================================================
