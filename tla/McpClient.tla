------------------------------ MODULE McpClient ------------------------------
(***************************************************************************)
(* The evaluator's MCP client and what it is connected to                  *)
(* (runner/src/mcpclient.ts, fuzz.ts, probes.ts, the target session of     *)
(* evaluator.ts and images/target/entrypoint.sh):                          *)
(*                                                                         *)
(*  - the target, restarted by its supervisor after each crash, at most    *)
(*    MaxRestarts times; it answers late, out of order, or never, sends    *)
(*    garbage and requests of its own, and dies at any point;              *)
(*  - the transport: FIFOs ("stdio"), an SSE stream with POSTs ("sse") or  *)
(*    streamable HTTP ("http"), which has no stream that tells of a death; *)
(*  - the client: pending requests, raw waiters, timers, crash counting,   *)
(*    the handshake with retry and recover();                              *)
(*  - the driver: ensureTarget, enumerateSurface, runFuzz and runProbes,   *)
(*    one sequential program.                                              *)
(*                                                                         *)
(* The evaluator is one event loop: a handler (frame, timer, end of a      *)
(* stream) runs only while the driver awaits something (Parked), and the   *)
(* driver goes on before the next handler.  A frame is read in the step in *)
(* which the target writes it: a frame that waits in the pipe is a target  *)
(* that answers later.  The end of a stream is noticed before the          *)
(* supervisor's restart delay is over.                                     *)
(***************************************************************************)
EXTENDS Integers, Sequences, FiniteSets, SequencesExt

CONSTANTS Kinds,       \* transports
          MaxRestarts, \* crashes after which the supervisor stops restarting
          NTools,      \* bound: tools the target advertises
          NFuzz,       \* fuzz cases per tool
          NActive,     \* active probes per tool
          NProtocol,   \* protocol cases of runFuzz
          RawCases,    \* the ones among them without an id the client could wait for
          MaxPages,    \* pages read of a list (50 in the code)
          MaxTries,    \* bound: handshakes that fit in one deadline
          MaxNoise,    \* bound: malformed frames and endpoint events that do not come
          MaxLate      \* bound: requests that timed out and may still be answered

ASSUME ClientAssumption ==
    /\ Kinds \subseteq {"stdio", "sse", "http"}
    /\ \A c \in {MaxRestarts, NTools, NFuzz, NActive, NProtocol, MaxPages, MaxTries,
              MaxNoise, MaxLate} : c \in Nat
    /\ MaxPages > 0
    /\ RawCases \subseteq 1..NProtocol

VARIABLES
    kind,        \* the transport of this run
    tgt,         \* "starting" | "up" | "down" | "halted"
    deaths,      \* crashes so far; the incarnation that runs is the deaths-th
    work,        \* keys received and not answered; with HTTP, POSTs still open
    noise,       \* malformed frames and silent endpoints it is still good for
    tr,          \* transport: [st, inc]: st "none" | "up" | "lost" | "closed"; inc connected to
    stale,       \* an SSE stream of an abandoned connection attempt is still open
    pending,     \* keys in the client's pending map
    rawWaiters,  \* keys waiting for any frame, oldest first
    crashEvents,
    shook,       \* incarnation with which the handshake was completed, or -1
    call,        \* the last request (see Requests)
    drv          \* driver: [pc, ph, n, tools, ver, tries]

vars == <<kind, tgt, deaths, work, noise, tr, stale, pending, rawWaiters, crashEvents,
          shook, call, drv>>
target == <<kind, tgt, deaths, work, noise>>
client == <<pending, rawWaiters, crashEvents, call>>

NoOne == [c |-> "none", n |-> 0]
Answers == {"ok", "more", "version", "error"}
Failures == {"hang", "silent", "crash", "unavail"}
Keys == [c : {"id", "raw", "x"}, n : Nat]
Phases == {"ensure", "tools", "prompts", "resources", "fuzz", "proto", "benign", "active", "end"}

TypeOK ==
    /\ kind \in Kinds
    /\ tgt \in {"starting", "up", "down", "halted"}
    /\ deaths \in 0..MaxRestarts /\ noise \in 0..MaxNoise
    /\ work \subseteq Keys /\ pending \subseteq Keys
    /\ tr \in [st : {"none", "up", "lost", "closed"}, inc : -1..MaxRestarts]
    /\ stale \in BOOLEAN
    /\ rawWaiters \in Seq(Keys)
    /\ crashEvents \in Nat
    /\ shook \in -1..MaxRestarts
    /\ call \in [key : Keys \cup {NoOne}, res : {"idle", "wait"} \cup Answers \cup Failures,
                by : Keys \cup {NoOne}]
    /\ drv \in [pc : {"start", "init", "initW", "sleep", "reconn", "rec", "list", "listW",
                      "gate", "case", "caseW", "closed"},
                ph : Phases, n : Nat, tools : 0..NTools, ver : 1..2, tries : 0..MaxTries]
-----------------------------------------------------------------------------
(***************************************************************************)
(* Transports.                                                             *)
(***************************************************************************)

\* The incarnation at the other end of the connection is alive.
Reachable == tgt = "up" /\ (kind = "http" \/ tr.inc = deaths)

IsRaw(k) == k.c = "raw"

\* Mutant: the crash is counted again after it was noticed.
handleCrashAgain ==
    /\ tr' = IF tr.st = "up" THEN [tr EXCEPT !.st = "lost"] ELSE tr
    /\ crashEvents' = crashEvents + 1
    /\ pending' = {} /\ rawWaiters' = <<>>
    /\ call' = IF call.res = "wait" THEN [call EXCEPT !.res = "crash"] ELSE call

\* The client hears that the connection is lost: every pending request ends as
\* crashed.
handleClose ==
    /\ pending' = {} /\ rawWaiters' = <<>>
    /\ call' = IF call.res = "wait" /\ call.key \in pending THEN [call EXCEPT !.res = "crash"] ELSE call

\* handleCrash of the transport: counted and noticed once per connection.
handleCrash ==
    IF tr.st # "up" THEN UNCHANGED <<tr, crashEvents, pending, rawWaiters, call>>
    ELSE /\ tr' = [tr EXCEPT !.st = "lost"]
         /\ crashEvents' = crashEvents + 1
         /\ handleClose

\* The handles of a connection are closed, so that no event of theirs is heard.
teardownHandles == tr' = [tr EXCEPT !.st = "none"]

\* McpClient.dispatch with the transport's send: k is pending, then the write
\* fails at once when the connection is known lost (the raw waiter stays),
\* fails with a crash when nobody reads, or reaches the target.
dispatch(k) ==
    IF tr.st # "up"
    THEN /\ call' = [key |-> k, res |-> "unavail", by |-> NoOne]
         /\ rawWaiters' = IF IsRaw(k) THEN Append(rawWaiters, k) ELSE rawWaiters
         /\ UNCHANGED <<tr, crashEvents, pending, work>>
    ELSE IF ~Reachable
    THEN /\ tr' = [tr EXCEPT !.st = "lost"]
         /\ crashEvents' = crashEvents + 1
         /\ pending' = {} /\ rawWaiters' = <<>>
         /\ call' = [key |-> k, res |-> "crash", by |-> NoOne]
         /\ UNCHANGED work
    ELSE /\ call' = [key |-> k, res |-> "wait", by |-> NoOne]
         /\ pending' = pending \cup {k}
         /\ rawWaiters' = IF IsRaw(k) THEN Append(rawWaiters, k) ELSE rawWaiters
         /\ work' = work \cup {k}
         /\ UNCHANGED <<tr, crashEvents>>

\* Ids are counted up and never used twice: one nobody remembers is as good as new.
Fresh(c) == LET used == work \cup pending \cup Range(rawWaiters)
            IN  CHOOSE k \in [c : {c}, n : 1..(Cardinality(used) + 1)] : k \notin used

\* requestUntraced: a request with the next id.
request == dispatch(Fresh("id"))

\* sendRaw of the n-th protocol case: with an id of its own, or a raw waiter.
sendRaw(n) == dispatch(IF n \in RawCases THEN Fresh("raw") ELSE [c |-> "x", n |-> n])
-----------------------------------------------------------------------------
(***************************************************************************)
(* The target and its supervisor.                                          *)
(***************************************************************************)

\* The driver awaits a settlement, a timer, an open or an unrelated scan: only
\* then does the event loop run a handler, and only then does time pass.
Parked == \/ drv.pc \in {"start", "sleep", "reconn", "rec", "gate", "closed"}
          \/ drv.pc \in {"initW", "listW", "caseW"} /\ call.res = "wait"

TargetDies ==
    /\ tgt = "up"
    /\ tgt' = "down" /\ deaths' = deaths + 1
    /\ work' = IF kind = "http" THEN work ELSE {}
    /\ stale' = FALSE
    /\ UNCHANGED <<kind, noise, tr, client, shook, drv>>

\* The head of the supervisor's loop: start the server or, at the limit, wait
\* for the evaluator to finish.
NextStart == IF deaths >= MaxRestarts THEN "halted" ELSE "starting"

\* The crash is recorded and the loop goes on.
Restart ==
    /\ tgt = "down" /\ Parked
    /\ IF kind = "http" THEN work = {} ELSE tr.st # "up"
    /\ tgt' = NextStart
    /\ UNCHANGED <<kind, deaths, work, noise, tr, stale, client, shook, drv>>

\* The server runs: an HTTP one listens by itself; a stdio one once its FIFOs
\* are open at the other end, by a connection being opened (ConnectOk) or by
\* handles of a lost connection that nobody closed.
Serve ==
    /\ tgt = "starting" /\ Parked
    /\ kind # "stdio" \/ tr.st = "lost"
    /\ tgt' = "up"
    /\ UNCHANGED <<kind, deaths, work, noise, tr, stale, client, shook, drv>>
-----------------------------------------------------------------------------
(***************************************************************************)
(* Handlers of the client.                                                 *)
(***************************************************************************)

\* What the target may answer.  A list has a next page, the handshake may be
\* refused for its protocol version; a malformed result is an error.
Replies    == {"ok", "error"}
              \cup (IF drv.pc = "initW" THEN {"version"} ELSE {})
              \cup (IF drv.pc = "listW" THEN {"more"} ELSE {})

\* resolveRawWaiter: the oldest waiter takes the frame; a waiter whose request
\* is settled already is dropped, and the frame with it.
resolveRawWaiter(v) ==
    IF rawWaiters = <<>> THEN UNCHANGED <<pending, rawWaiters, call>>
    ELSE LET k == Head(rawWaiters)
         IN  /\ rawWaiters' = Tail(rawWaiters)
             /\ pending' = pending \ {k}
             /\ call' = IF k \in pending /\ call.key = k
                        THEN [call EXCEPT !.res = IF v = "error" THEN "error" ELSE "ok"]
                        ELSE call

\* Mutant: an answer with an unknown id is taken for that of the awaited request.
handleResponseAny(k, v) ==
    /\ pending' = {}
    /\ call' = IF call.res = "wait" THEN [call EXCEPT !.res = v, !.by = k] ELSE call
    /\ UNCHANGED rawWaiters

\* handleMessage for a response: a pending id is settled, anything else goes to
\* a raw waiter.  The answer to a raw frame carries no id the client knows.
handleResponse(k, v) ==
    IF k \in pending /\ ~IsRaw(k)
    THEN /\ pending' = pending \ {k}
         /\ call' = IF call.key = k THEN [call EXCEPT !.res = v, !.by = k] ELSE call
         /\ UNCHANGED rawWaiters
    ELSE resolveRawWaiter(v)

\* The connection delivers: drainBuffer hands a frame over.
Arrives == Parked /\ tr.st = "up" /\ Reachable

\* A response of the target is read.
Response(k) ==
    /\ k \in work /\ Arrives
    /\ work' = work \ {k}
    /\ \E v \in Replies : handleResponse(k, v)
    /\ UNCHANGED <<kind, tgt, deaths, noise, tr, stale, crashEvents, shook, drv>>

\* A malformed frame resolves a raw waiter.  (Notifications and requests of the
\* server are only counted; a request is answered with an error nobody awaits.)
MalformedFrame ==
    /\ noise > 0 /\ Arrives /\ rawWaiters # <<>>
    /\ noise' = noise - 1
    /\ resolveRawWaiter("ok")
    /\ UNCHANGED <<kind, tgt, deaths, work, tr, stale, crashEvents, shook, drv>>

\* Mutant: raw frames have no timer.
TimeoutOfIds ==
    /\ drv.pc \in {"initW", "listW", "caseW"} /\ call.res = "wait" /\ ~IsRaw(call.key)
    /\ pending' = pending \ {call.key}
    /\ call' = [call EXCEPT !.res = "hang"]
    /\ UNCHANGED <<target, tr, stale, rawWaiters, crashEvents, shook, drv>>

\* The timer of the awaited request: silence after a raw frame is an answer,
\* after a request with an id a hang.
Timeout ==
    /\ drv.pc \in {"initW", "listW", "caseW"} /\ call.res = "wait"
    /\ pending' = pending \ {call.key}
    /\ rawWaiters' = IF call.key \in Range(rawWaiters)
                    THEN RemoveAt(rawWaiters, CHOOSE i \in DOMAIN rawWaiters : rawWaiters[i] = call.key)
                    ELSE rawWaiters
    /\ call' = [call EXCEPT !.res = IF IsRaw(call.key) THEN "silent" ELSE "hang"]
    /\ work' = IF Cardinality(work) > MaxLate THEN work \ {call.key} ELSE work
    /\ UNCHANGED <<kind, tgt, deaths, noise, tr, stale, crashEvents, shook, drv>>

\* End of the FIFO or of the SSE stream; with HTTP every POST without an answer
\* yet is reset.
StreamEnds ==
    /\ Parked /\ tgt # "up"
    /\ IF kind = "http" THEN work # {} ELSE tr.st = "up"
    /\ work' = {}
    /\ handleCrash
    /\ UNCHANGED <<kind, tgt, deaths, noise, stale, shook, drv>>

\* SseTransport.send gives an unanswered POST up after 30 s, when its request
\* has timed out; nobody hears of the failure.
AbortPost(k) ==
    /\ kind = "http" /\ Parked /\ k \in work \ pending
    /\ work' = work \ {k}
    /\ UNCHANGED <<kind, tgt, deaths, noise, tr, stale, client, shook, drv>>

\* A POST breaks off after its headers: consumeStream or text() throws a plain
\* error, which settles the request but is no crash (the raw waiter stays).
BodyBreaks(k) ==
    /\ kind = "http" /\ Parked /\ tgt # "up" /\ k \in work
    /\ work' = work \ {k}
    /\ pending' = pending \ {k}
    /\ call' = IF k \in pending /\ call.key = k THEN [call EXCEPT !.res = "unavail"] ELSE call
    /\ UNCHANGED <<kind, tgt, deaths, noise, tr, stale, rawWaiters, crashEvents, shook, drv>>

\* The stream of an abandoned attempt ends: there is no generation guard, so
\* the live connection is taken for lost.
StaleStreamEnds ==
    /\ stale /\ Parked
    /\ stale' = FALSE
    /\ handleCrash
    /\ UNCHANGED <<target, shook, drv>>
-----------------------------------------------------------------------------
(***************************************************************************)
(* Connecting and the handshake.                                           *)
(***************************************************************************)

At(pc) == drv.pc = pc
Goto(pc) == drv' = [drv EXCEPT !.pc = pc]

\* A pass moves to the given phase, from its first case.
Enter(pc, ph) == [pc |-> pc, ph |-> ph, n |-> 1, tools |-> drv.tools, ver |-> 1, tries |-> 0]

\* The phase after the one that ends: runFuzz's tool cases are followed by its
\* protocol cases, its end by the gates and personas that separate it from
\* runProbes.
After(ph) == CASE ph = "tools" -> Enter("list", "prompts")
               [] ph = "prompts" -> Enter("list", "resources")
               [] ph = "resources" -> Enter("gate", "fuzz")
               [] ph = "fuzz" -> Enter("case", "proto")
               [] ph = "proto" -> Enter("gate", "benign")
               [] ph = "benign" -> Enter("case", "active")
               [] ph = "active" -> Enter("gate", "end")
               [] OTHER -> Enter("gate", "end")

\* recover() returned false: runFuzz goes on with the protocol cases, the
\* active probes with the next tool, every other pass ends.
GiveUp == IF drv.ph = "active" /\ drv.n <= NActive * (drv.tools - 1)
          THEN [Enter("case", "active") EXCEPT !.n = ((drv.n - 1) \div NActive + 1) * NActive + 1]
          ELSE After(drv.ph)

Connecting == drv.pc \in {"start", "reconn", "rec"}

\* Mutant: recover() reconnects and skips the handshake.
ConnectOkUnshaken ==
    /\ Connecting
    /\ IF kind = "stdio" THEN tgt = "starting" ELSE tgt = "up"
    /\ tgt' = "up"
    /\ tr' = [st |-> "up", inc |-> deaths]
    /\ drv' = [drv EXCEPT !.pc = IF At("rec") THEN "case" ELSE "init"]
    /\ UNCHANGED <<kind, deaths, work, noise, stale, client, shook>>

\* transport.start / reconnect succeeds: the FIFOs meet their other ends, or
\* the server answers the GET with an endpoint event or with 404 or 405.
ConnectOk ==
    /\ Connecting
    /\ IF kind = "stdio" THEN tgt = "starting" ELSE tgt = "up"
    /\ tgt' = "up"
    /\ tr' = [st |-> "up", inc |-> deaths]
    /\ drv' = [drv EXCEPT !.pc = "init", !.tries = IF At("reconn") THEN @ ELSE 0]
    /\ UNCHANGED <<kind, deaths, work, noise, stale, client, shook>>

\* The FIFOs are missing at the start, nobody opens them in time, or the server
\* does not listen, or sends no endpoint event, before the deadline.
ConnectFail ==
    /\ Connecting
    /\ At("start") \/ tgt = "halted" \/ stale \/ (kind # "stdio" /\ tgt # "up")
    /\ drv' = CASE At("start") -> Enter("gate", "end")
                [] At("reconn") -> [drv EXCEPT !.pc = "init"]
                [] OTHER -> GiveUp
    /\ UNCHANGED <<target, tr, stale, client, shook>>

\* An SSE attempt gets no endpoint event within 15 s and is retried; its stream
\* is left open.
EndpointTimeout ==
    /\ Connecting /\ kind = "sse" /\ tgt = "up" /\ noise > 0
    /\ stale' = TRUE /\ noise' = noise - 1
    /\ UNCHANGED <<kind, tgt, deaths, work, tr, client, shook, drv>>

\* Mutant: the deadline of the handshake is not looked at.
InitializeForever ==
    /\ At("init")
    /\ request
    /\ drv' = [drv EXCEPT !.pc = "initW", !.tries = @ + 1, !.ver = 1]
    /\ UNCHANGED <<kind, tgt, deaths, noise, stale, shook>>

\* initializeWithRetry: the next attempt, unless the deadline has passed.
Initialize ==
    /\ At("init") /\ drv.tries < MaxTries
    /\ request
    /\ drv' = [drv EXCEPT !.pc = "initW", !.tries = @ + 1, !.ver = 1]
    /\ UNCHANGED <<kind, tgt, deaths, noise, stale, shook>>

InitializeExpired ==
    /\ At("init")
    /\ drv' = IF drv.ph = "ensure" THEN Enter("gate", "end") ELSE GiveUp
    /\ UNCHANGED <<target, tr, stale, client, shook>>

\* The server refused the first protocol version: try the second.
InitializeNextVersion ==
    /\ At("initW") /\ call.res = "version" /\ drv.ver = 1
    /\ request
    /\ drv' = [drv EXCEPT !.ver = 2]
    /\ UNCHANGED <<kind, tgt, deaths, noise, stale, shook>>

\* initialize succeeded and notify was sent; a failure of the notification is
\* swallowed, the crash it tells of is counted.
Initialized ==
    /\ At("initW") /\ call.res = "ok"
    /\ IF Reachable THEN UNCHANGED <<tr, crashEvents, pending, rawWaiters, call>> ELSE handleCrash
    /\ shook' = IF tr.st = "up" THEN tr.inc ELSE shook
    /\ drv' = IF drv.ph = "ensure" THEN Enter("list", "tools") ELSE [drv EXCEPT !.pc = "case", !.ver = 1, !.tries = 0]
    /\ UNCHANGED <<target, stale>>

\* The attempt failed: only a crash reconnects (the old handles are closed
\* first), anything else sleeps.
InitializeFailed ==
    /\ At("initW") /\ call.res \notin {"wait", "ok"}
    /\ call.res = "version" => drv.ver = 2
    /\ Goto(IF call.res = "crash" THEN "reconn" ELSE "sleep")
    /\ IF call.res = "crash" THEN teardownHandles ELSE UNCHANGED tr
    /\ UNCHANGED <<target, stale, client, shook>>

Wake == At("sleep") /\ Goto("init") /\ UNCHANGED <<target, tr, stale, client, shook>>
-----------------------------------------------------------------------------
(***************************************************************************)
(* enumerateSurface, runFuzz and runProbes.                                *)
(***************************************************************************)

\* paginate: the next page of the list; n counts pages.
ListPage ==
    /\ At("list")
    /\ request
    /\ Goto("listW")
    /\ UNCHANGED <<kind, tgt, deaths, noise, stale, shook>>

\* A page arrived with a cursor: read on, up to the limit.  Otherwise the list
\* ends; a crash throws away what was read, and enumerateSurface goes on with
\* the next list without reconnecting.
ListPageDone ==
    /\ At("listW") /\ call.res # "wait"
    /\ \E found \in 0..NTools :
         LET tools == IF drv.ph # "tools" \/ call.res = "crash" THEN drv.tools
                      ELSE IF drv.n = 1 /\ call.res \notin {"ok", "more"} THEN 0 ELSE found
         IN  drv' = IF call.res = "more" /\ drv.n < MaxPages
                    THEN [drv EXCEPT !.pc = "list", !.n = @ + 1]
                    ELSE [After(drv.ph) EXCEPT !.tools = tools]
    /\ UNCHANGED <<target, tr, stale, client, shook>>

\* The gates, prompts and other personas between two passes end.
Proceed ==
    /\ At("gate")
    /\ drv' = IF drv.ph = "end" THEN [drv EXCEPT !.pc = "closed"] ELSE [drv EXCEPT !.pc = "case"]
    /\ IF drv.ph = "end"
       THEN /\ tr' = [tr EXCEPT !.st = "closed"]
            /\ pending' = {}
            /\ UNCHANGED <<rawWaiters, crashEvents, call>>
       ELSE UNCHANGED <<tr, client>>
    /\ UNCHANGED <<target, stale, shook>>

Cases(ph) == CASE ph = "fuzz" -> NFuzz * drv.tools
               [] ph = "proto" -> NProtocol
               [] ph = "benign" -> drv.tools
               [] ph = "active" -> NActive * drv.tools

\* The next case of a pass.
Case ==
    /\ At("case") /\ drv.n <= Cases(drv.ph)
    /\ IF drv.ph = "proto" THEN sendRaw(drv.n) ELSE request
    /\ Goto("caseW")
    /\ UNCHANGED <<kind, tgt, deaths, noise, stale, shook>>

\* The pass has no case left, or its time budget is spent (runFuzz then skips
\* its protocol cases too).
PassEnds ==
    /\ At("case")
    /\ \/ drv.n > Cases(drv.ph) /\ drv' = After(drv.ph)
       \/ drv.n <= Cases(drv.ph) /\ drv' = IF drv.ph = "fuzz" THEN After("proto") ELSE After(drv.ph)
    /\ UNCHANGED <<target, tr, stale, client, shook>>

\* The outcome of a case is recorded.  After a crash the target is recovered:
\* the old handles are closed and the transport reconnects.
CaseDone ==
    /\ At("caseW") /\ call.res # "wait"
    /\ drv' = [drv EXCEPT !.pc = IF call.res = "crash" THEN "rec" ELSE "case", !.n = @ + 1]
    /\ IF call.res = "crash" THEN teardownHandles ELSE UNCHANGED tr
    /\ UNCHANGED <<target, stale, client, shook>>
-----------------------------------------------------------------------------
Init ==
    /\ kind \in Kinds
    /\ deaths = 0 /\ tgt = NextStart /\ work = {} /\ noise = MaxNoise
    /\ tr = [st |-> "none", inc |-> -1] /\ stale = FALSE
    /\ pending = {} /\ rawWaiters = <<>> /\ crashEvents = 0 /\ shook = -1
    /\ call = [key |-> NoOne, res |-> "idle", by |-> NoOne]
    /\ drv = [pc |-> "start", ph |-> "ensure", n |-> 1, tools |-> 0, ver |-> 1, tries |-> 0]

Driver == \/ ConnectOk \/ ConnectFail \/ EndpointTimeout
          \/ Initialize \/ InitializeExpired \/ InitializeNextVersion \/ Initialized
          \/ InitializeFailed \/ Wake
          \/ ListPage \/ ListPageDone \/ Proceed \/ Case \/ PassEnds \/ CaseDone

Handler == \/ \E k \in work : Response(k) \/ AbortPost(k) \/ BodyBreaks(k)
           \/ MalformedFrame \/ Timeout \/ StreamEnds \/ StaleStreamEnds

Supervisor == Restart \/ Serve

Next == Driver \/ Handler \/ Supervisor \/ TargetDies

Spec == Init /\ [][Next]_vars

\* The event loop runs what is ready, timers fire and the supervisor restarts;
\* the target owes nothing.
FairSpec == Spec /\ WF_vars(Driver) /\ WF_vars(Timeout) /\ WF_vars(Restart)
-----------------------------------------------------------------------------
\* The client keeps its promise to its callers (module Requests): whatever the
\* target sends, handleMessage, the timers of dispatch and handleClose settle
\* every request once, and never with the answer to another one.
Promise == INSTANCE Requests WITH Raw <- [c : {"raw"}, n : Nat]
RequestsKept == Promise!Spec

\* crashCount never exceeds the deaths of the target: a death is counted once
\* by handleCrash, however many of end of stream, failed writes and reset POSTs
\* tell of it.  (On SSE, the end of an abandoned stream is counted as one too.)
CrashCountedOnce == kind # "sse" => crashEvents <= deaths

\* runFuzz's tools/call reaches only an incarnation of the target that recover()
\* or ensureTarget completed the handshake with.  (With streamable HTTP a
\* restart between two calls goes unnoticed.)
FuzzedAfterHandshake ==
    At("caseW") /\ drv.ph = "fuzz" /\ call.key \in work /\ kind # "http" => shook = deaths

\* enumerateSurface, runFuzz and runProbes come to their end whatever the target
\* does: hang, die, send garbage, offer pages without end, or stay away.
DriverEnds == <>(At("closed"))
=============================================================================
