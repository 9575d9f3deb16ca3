-------------------------------- MODULE Mesh --------------------------------
(***************************************************************************)
(* The evaluator's way out of its pod (runner/src/meshhttp.ts) and the     *)
(* Vigil client that uses it (vigil.ts, vigilsegments.ts):                 *)
(*                                                                         *)
(*  - main waits for the proxy of the NetBird sidecar and starts the       *)
(*    bridge, a local HTTP proxy for the OpenCode child;                   *)
(*  - a gate sends its scan units one by one to the GPU scanner, and to    *)
(*    the CPU scanner when that one is unavailable, with retries;          *)
(*  - while a persona is prompted, OpenCode's requests pass the bridge, as *)
(*    absolute-form requests or CONNECT tunnels;                           *)
(*  - at the end main closes the bridge, which waits for its connections.  *)
(*                                                                         *)
(* Every request dials a socket: through SOCKS5, through an HTTP proxy, or *)
(* directly.  Peers may answer, refuse, fall silent or go away at any      *)
(* point.  OpenCode is prompted only after its gate, so one gate followed  *)
(* by bridge traffic stands for the run.                                   *)
(***************************************************************************)
EXTENDS Chunks

CONSTANTS Schemes,     \* of MESH_PROXY: "socks5", "http", "direct" (no proxy)
          Conns,       \* connections of OpenCode to the bridge
          Lens,        \* bound: lengths of the untrusted text
          MaxOdd,      \* bound: white space units in it, and surrogate pairs
          GpuRetries,  \* 1 in the code
          CpuRetries,  \* 3 in the code
          MaxPolls     \* bound: dials of waitForSocks5Proxy before its deadline

ASSUME MeshAssumption ==
    /\ Schemes \subseteq {"socks5", "http", "direct"}
    /\ \A n \in Lens \cup {MaxOdd, GpuRetries, CpuRetries, MaxPolls} : n \in Nat
    /\ "vigil" \notin Conns

VARIABLES
    scheme,    \* proxy.scheme of this run
    boot,      \* "wait" | "listen" | "gate" | "serve" | "closing" | "closed" | "failed"
    polls,     \* dials of waitForSocks5Proxy
    dial,      \* socket -> stage of its dial
    evidence,  \* untrusted texts: [text, own]; own: our input echoed back
    gate,      \* [pc, units, i, ep, att]
    answered,  \* pieces Vigil gave a verdict on
    warnings,  \* pieces with a verdict of warn
    faults,    \* attempts at the CPU scanner that failed
    conn       \* bridge connection -> [k, st, cl]

vars == <<scheme, boot, polls, dial, evidence, gate, answered, warnings, faults, conn>>
gates == <<evidence, gate, answered, warnings, faults>>

Socks == {"vigil"} \cup Conns

\* Stages of a dial.  "refused": the promise is rejected, the socket still
\* open; "hung": the socket is gone and the promise never settles.
Handshake == {"tcp", "greeting", "auth", "connect", "chain"}
Held(s) == dial[s] \in Handshake \cup {"open", "refused"}

Letters == <<"a", "b", "c", "d", "e", "f", "g", "h", "i", "j">>

\* Texts with white space at S and surrogate pairs from P.
Text(n, S, P) == [i \in 1..n |-> CASE i \in P -> "H" [] i - 1 \in P -> "L"
                                   [] i \in S -> " " [] OTHER -> Letters[i]]
Few(n) == {X \in SUBSET (1..n) : Cardinality(X) <= MaxOdd}
Texts == UNION {{Text(n, S, P) : S \in Few(n),
                     P \in {Q \in Few(n - 1) : \A i \in Q : i + 1 \notin Q}} : n \in Lens}

IdleGate == [pc |-> "none", units |-> <<>>, i |-> 1, ep |-> "gpu", att |-> 0]

TypeOK ==
    /\ scheme \in Schemes
    /\ boot \in {"wait", "listen", "gate", "serve", "closing", "closed", "failed"}
    /\ polls \in 0..MaxPolls
    /\ dial \in [Socks -> Handshake \cup {"none", "open", "refused", "hung", "dead"}]
    /\ gate.pc \in {"none", "send", "dial", "asked", "sleep", "passed", "abort", "unavailable"}
    /\ gate.pc \in {"send", "dial", "asked", "sleep"} => gate.i \in DOMAIN gate.units
    /\ gate.ep \in {"gpu", "cpu"}
    /\ gate.att \in 0..(IF gate.ep = "gpu" THEN GpuRetries ELSE CpuRetries)
    /\ warnings \subseteq answered
    /\ faults \in 0..(CpuRetries + 1)
    /\ conn \in [Conns -> [k : {"abs", "tun"}, cl : BOOLEAN,
                           st : {"idle", "dial", "sent", "body", "stuck", "pipe", "over"}]]
-----------------------------------------------------------------------------
(***************************************************************************)
(* Dialling: socks5Connect and the dials through an HTTP proxy.  A stage   *)
(* is left by the peer's reply, or to "dead" by a bad reply, an error, the *)
(* end of the connection or the timer; a dead dial has rejected its        *)
(* promise and destroyed its socket.                                       *)
(***************************************************************************)
SetDial(s, stage) == dial' = [dial EXCEPT ![s] = stage]

IsTunnel(s) == s \in Conns /\ conn[s].k = "tun"

\* TCP is up.  A proxy is greeted or asked to CONNECT; an absolute-form request
\* to an HTTP proxy, and a direct one, can be sent at once.
AfterConnect(s) == CASE scheme = "socks5" -> "greeting"
                     [] scheme = "http" /\ IsTunnel(s) -> "chain"
                     [] OTHER -> "open"

\* Stages the peer's reply leads to.
AfterReply(stage) == CASE stage = "greeting" -> {"connect", "auth"}
                       [] stage = "auth" -> {"connect"}
                       [] stage = "connect" -> {"open"}
                       [] stage = "chain" -> {"open", "refused"}

socks5Connect(s) ==
    /\ dial[s] \in Handshake
    /\ IF dial[s] = "tcp" THEN SetDial(s, AfterConnect(s))
       ELSE \E stage \in AfterReply(dial[s]) : SetDial(s, stage)
    /\ UNCHANGED <<scheme, boot, polls, gates, conn>>

\* The dial fails: error, timer, bad version, authentication, reply or address
\* type, or the proxy ends the connection.
DialFails(s) ==
    /\ dial[s] \in Handshake
    /\ SetDial(s, "dead")
    /\ UNCHANGED <<scheme, boot, polls, gates, conn>>

\* CONNECT through an HTTP proxy listens to errors only: when the proxy ends
\* the connection before it has answered, the dial is never settled.
ChainHangs(s) ==
    /\ dial[s] = "chain"
    /\ SetDial(s, "hung")
    /\ UNCHANGED <<scheme, boot, polls, gates, conn>>

\* The socket of a refused CONNECT is destroyed by its inactivity timer.
RefusedTimesOut(s) ==
    /\ dial[s] = "refused"
    /\ SetDial(s, "dead")
    /\ UNCHANGED <<scheme, boot, polls, gates, conn>>
-----------------------------------------------------------------------------
(***************************************************************************)
(* main: waiting for the proxy, starting and closing the bridge.           *)
(***************************************************************************)

\* Mutant: the deadline is not looked at.
waitForSocks5ProxyForever ==
    /\ boot = "wait"
    /\ \/ boot' = "listen" /\ UNCHANGED polls
       \/ polls' = (polls + 1) % (MaxPolls + 1) /\ UNCHANGED boot
    /\ UNCHANGED <<scheme, dial, gates, conn>>

\* waitForSocks5Proxy: one plain TCP dial; the deadline is looked at after a
\* failed one.
waitForSocks5Proxy ==
    /\ boot = "wait"
    /\ \/ boot' = "listen" /\ UNCHANGED polls
       \/ IF polls = MaxPolls THEN boot' = "failed" /\ UNCHANGED polls
                              ELSE polls' = polls + 1 /\ UNCHANGED boot
    /\ UNCHANGED <<scheme, dial, gates, conn>>

\* The bridge listens, on another port when the wanted one is taken, or fails.
startMeshProxyBridge ==
    /\ boot = "listen"
    /\ boot' \in {"gate", "failed"}
    /\ UNCHANGED <<scheme, polls, dial, gates, conn>>

\* The gate lets the run go on: personas are prompted, the bridge serves.
Prompt ==
    /\ boot = "gate" /\ gate.pc = "passed"
    /\ boot' = IF scheme = "direct" THEN "closed" ELSE "serve"
    /\ evidence' = <<>> /\ gate' = IdleGate /\ answered' = {} /\ warnings' = {} /\ faults' = 0
    /\ UNCHANGED <<scheme, polls, dial, conn>>

\* main's finally: bridge.close(), after OpenCode was told to stop.
Close ==
    /\ \/ boot = "serve"
       \/ boot = "gate" /\ gate.pc \in {"abort", "unavailable"}
    /\ boot' = IF scheme = "direct" THEN "closed" ELSE "closing"
    /\ UNCHANGED <<scheme, polls, dial, gates, conn>>

\* The bridge's end of a connection is open.  The HTTP server closes it when the
\* client leaves and, idle, when it is closed itself; a tunnel has left the HTTP
\* server and stays half open until both ends are closed.
IsOpen(c) == /\ conn[c].st # "idle"
             /\ IF conn[c].k = "abs" THEN conn[c].cl /\ conn[c].st # "over"
                ELSE conn[c].cl \/ conn[c].st # "over"

\* server.close calls back once no connection is open.
CloseDone ==
    /\ boot = "closing" /\ \A c \in Conns : ~IsOpen(c)
    /\ boot' = "closed"
    /\ UNCHANGED <<scheme, polls, dial, gates, conn>>
-----------------------------------------------------------------------------
(***************************************************************************)
(* The gate: scanGate over VigilClient.analyze over createMeshFetch.       *)
(***************************************************************************)
Retries(ep) == IF ep = "gpu" THEN GpuRetries ELSE CpuRetries
Gate(pc) == gate' = [gate EXCEPT !.pc = pc]

\* The units of the evidence (see Init) are sent one by one; an empty gate passes.
scanGate ==
    /\ boot = "gate" /\ gate.pc = "none"
    /\ Gate(IF gate.units = <<>> THEN "passed" ELSE "send")
    /\ UNCHANGED <<scheme, boot, polls, dial, evidence, answered, warnings, faults, conn>>

\* analyzeAt: the next attempt dials.
Send ==
    /\ gate.pc = "send"
    /\ Gate("dial")
    /\ SetDial("vigil", "tcp")
    /\ UNCHANGED <<scheme, boot, polls, evidence, answered, warnings, faults, conn>>

\* The socket is there and carries the request.
Request ==
    /\ gate.pc = "dial" /\ dial["vigil"] = "open"
    /\ Gate("asked")
    /\ UNCHANGED <<scheme, boot, polls, dial, evidence, answered, warnings, faults, conn>>

\* Mutant: the CPU scanner inherits the attempts made at the GPU scanner.
EndpointUnavailableKeepsCount == IF gate.ep = "gpu" THEN [gate EXCEPT !.ep = "cpu", !.pc = "send"]
                                 ELSE [gate EXCEPT !.pc = "unavailable"]

\* VigilUnavailableError from analyzeAt: the CPU scanner is next, or the gate fails.
\* (Without a GPU endpoint a gate behaves as it does once the GPU scanner failed.)
EndpointUnavailable == IF gate.ep = "gpu" THEN [gate EXCEPT !.ep = "cpu", !.att = 0, !.pc = "send"]
                       ELSE [gate EXCEPT !.pc = "unavailable"]

\* An attempt fails: the dial or the transfer breaks, the timer of
\* collectResponse fires, the body is too large, or the status is 5xx.
AttemptFails ==
    /\ \/ gate.pc = "dial" /\ dial["vigil"] = "dead"
       \/ gate.pc = "asked"
    /\ SetDial("vigil", "dead")
    /\ faults' = IF gate.ep = "cpu" THEN faults + 1 ELSE faults
    /\ gate' = IF gate.att < Retries(gate.ep) THEN [gate EXCEPT !.pc = "sleep", !.att = @ + 1]
               ELSE EndpointUnavailable
    /\ UNCHANGED <<scheme, boot, polls, evidence, answered, warnings, conn>>

Backoff ==
    /\ gate.pc = "sleep"
    /\ Gate("send")
    /\ UNCHANGED <<scheme, boot, polls, dial, evidence, answered, warnings, faults, conn>>

\* A 4xx, a body that is not JSON or a verdict of unknown shape: no retry.
Refused ==
    /\ gate.pc = "asked"
    /\ SetDial("vigil", "dead")
    /\ faults' = IF gate.ep = "cpu" THEN CpuRetries + 1 ELSE faults
    /\ gate' = EndpointUnavailable
    /\ UNCHANGED <<scheme, boot, polls, evidence, answered, warnings, conn>>

\* combineScannerResults: the transformer together with YARA or the vector
\* store stops the gate, any other match warns.  (The other verdict shapes
\* know only detected, which stops it, and not detected.)
Level(hits) == IF "transformer" \in hits /\ hits \cap {"yara", "vectordb"} # {} THEN "abort"
               ELSE IF hits # {} THEN "warn" ELSE "clean"

\* Mutant: the end of the units is noticed one too late.
AnsweredPast(level) ==
    gate' = IF level = "abort" THEN [gate EXCEPT !.pc = "abort"]
            ELSE IF gate.i > Len(gate.units) THEN [gate EXCEPT !.pc = "passed"]
            ELSE [gate EXCEPT !.pc = "send", !.i = @ + 1, !.ep = "gpu", !.att = 0]

\* After a verdict: stop at an abort, else go on with the next unit.
Answered(level) ==
    gate' = IF level = "abort" THEN [gate EXCEPT !.pc = "abort"]
            ELSE IF gate.i = Len(gate.units) THEN [gate EXCEPT !.pc = "passed"]
            ELSE [gate EXCEPT !.pc = "send", !.i = @ + 1, !.ep = "gpu", !.att = 0]

Verdict ==
    /\ gate.pc = "asked"
    /\ \E level \in {Level(hits) : hits \in SUBSET {"transformer", "yara", "vectordb", "other"}} :
         /\ Answered(level)
         /\ warnings' = IF level = "warn" THEN warnings \cup {gate.units[gate.i]} ELSE warnings
    /\ answered' = answered \cup {gate.units[gate.i]}
    /\ faults' = 0
    /\ SetDial("vigil", "none")
    /\ UNCHANGED <<scheme, boot, polls, evidence, conn>>
-----------------------------------------------------------------------------
(***************************************************************************)
(* The bridge.                                                             *)
(***************************************************************************)
SetConn(c, st) == conn' = [conn EXCEPT ![c].st = st]

\* A request arrives; a target that cannot be parsed gets a 400.
Accept(c) ==
    /\ boot = "serve" /\ conn[c].st = "idle"
    /\ \E k \in {"abs", "tun"} : \/ /\ conn' = [conn EXCEPT ![c] = [k |-> k, st |-> "dial", cl |-> TRUE]]
                                    /\ SetDial(c, "tcp")
                                 \/ /\ conn' = [conn EXCEPT ![c] = [k |-> k, st |-> "over", cl |-> TRUE]]
                                    /\ UNCHANGED dial
    /\ UNCHANGED <<scheme, boot, polls, gates>>

\* The dial is settled: the request is forwarded, the tunnel is piped, or the
\* client gets a 502.
Dialled(c) ==
    /\ conn[c].st = "dial" /\ dial[c] \in {"open", "dead", "refused"}
    /\ SetConn(c, IF dial[c] # "open" THEN "over" ELSE IF conn[c].k = "abs" THEN "sent" ELSE "pipe")
    /\ UNCHANGED <<scheme, boot, polls, dial, gates>>

\* Headers of the upstream's response arrive and are sent on.
Headers(c) ==
    /\ conn[c].st = "sent"
    /\ SetConn(c, "body")
    /\ UNCHANGED <<scheme, boot, polls, dial, gates>>

\* The response, or the tunnel, ends; or the upstream fails: a 502 before the
\* headers, a destroyed response after them.
UpstreamEnds(c) ==
    /\ conn[c].st \in {"sent", "body", "pipe"}
    /\ SetConn(c, "over")
    /\ SetDial(c, "dead")
    /\ UNCHANGED <<scheme, boot, polls, gates>>

\* The upstream ends the connection in mid-body: no error reaches ureq, and
\* the response is not ended.
BodyCut(c) ==
    /\ conn[c].st = "body"
    /\ SetConn(c, IF conn[c].cl THEN "stuck" ELSE "over")
    /\ SetDial(c, "dead")
    /\ UNCHANGED <<scheme, boot, polls, gates>>

\* Mutant: requests in absolute form have no inactivity bound.
IdleTimeoutOfTunnels(c) ==
    /\ conn[c].st = "pipe"
    /\ SetConn(c, "over")
    /\ SetDial(c, "dead")
    /\ UNCHANGED <<scheme, boot, polls, gates>>

\* TUNNEL_IDLE_TIMEOUT_MS without data, of ureq or of pipeSockets.
IdleTimeout(c) ==
    /\ conn[c].st \in {"sent", "body", "pipe"}
    /\ SetConn(c, "over")
    /\ SetDial(c, "dead")
    /\ UNCHANGED <<scheme, boot, polls, gates>>

\* OpenCode closes its end: a tunnel is torn down and a stuck response dropped.
\* A forwarded request goes on: its body has been read.
ClientLeaves(c) ==
    /\ conn[c].cl
    /\ conn' = [conn EXCEPT ![c].cl = FALSE, ![c].st = IF @ \in {"pipe", "stuck"} THEN "over" ELSE @]
    /\ dial' = IF conn[c].st = "pipe" THEN [dial EXCEPT ![c] = "dead"] ELSE dial
    /\ UNCHANGED <<scheme, boot, polls, gates>>
-----------------------------------------------------------------------------
\* What of the evidence the gate scans: not the echo of our own input, not
\* blank texts (surfaceSegments, fuzzSegments, probeSegments, push).  The texts are
\* those of the fields these functions pick; what else a prompt may carry is
\* Evaluator's matter (PayloadsScanned).
Segments(texts) ==
    FlattenSeq([i \in DOMAIN texts |-> IF texts[i].own \/ Blank(texts[i].text) THEN <<>> ELSE <<texts[i].text>>])

Init ==
    /\ scheme \in Schemes
    /\ boot = IF scheme = "direct" THEN "gate" ELSE "wait"
    /\ polls = 0
    /\ dial = [s \in Socks |-> "none"]
    /\ \E t \in Texts, own \in BOOLEAN :
           LET second == IF own THEN <<"z">> ELSE t   \* an echo, or the same again
           IN  evidence = <<[text |-> t, own |-> FALSE], [text |-> second, own |-> own]>>
    /\ gate = [IdleGate EXCEPT !.units = scanUnits(Segments(evidence))]
    /\ answered = {} /\ warnings = {} /\ faults = 0
    /\ conn = [c \in Conns |-> [k |-> "abs", st |-> "idle", cl |-> FALSE]]

Main == waitForSocks5Proxy \/ startMeshProxyBridge \/ Prompt \/ Close \/ CloseDone
Dial == \E s \in Socks : socks5Connect(s) \/ DialFails(s) \/ ChainHangs(s) \/ RefusedTimesOut(s)
GateStep == scanGate \/ Send \/ Request \/ AttemptFails \/ Backoff \/ Refused \/ Verdict
Bridge == \E c \in Conns : \/ Accept(c) \/ Dialled(c) \/ Headers(c) \/ UpstreamEnds(c)
                           \/ BodyCut(c) \/ IdleTimeout(c) \/ ClientLeaves(c)

Next == Main \/ Dial \/ GateStep \/ Bridge

\* main goes on, every dial, attempt and idle connection has a timer, and
\* OpenCode, told to stop, closes its connections.
Spec ==
    /\ Init /\ [][Next]_vars
    /\ WF_vars(Main) /\ WF_vars(GateStep)
    /\ \A s \in Socks : WF_vars(DialFails(s)) /\ WF_vars(RefusedTimesOut(s))
    /\ \A c \in Conns : WF_vars(Dialled(c)) /\ WF_vars(IdleTimeout(c))
                        /\ WF_vars(boot = "closing" /\ ClientLeaves(c))
-----------------------------------------------------------------------------
\* A gate passes only if every stretch of untrusted text up to the overlap, blank
\* ones and echoes of our own input aside, was inside one text that Vigil gave a
\* verdict on: cutting (chunkSpans), dropping and deduplicating (scanUnits), the
\* fallback and the retries (analyze, analyzeAt) leave no gap.
ScannedWhole ==
    gate.pc = "passed" =>
        \A e \in {evidence[i] : i \in DOMAIN evidence} : e.own \/
            \A i, j \in DOMAIN e.text :
                LET w == SubSeq(e.text, i, j)
                IN  i <= j /\ j < i + Overlap /\ ~Blank(w) => SeenWhole(w, answered)

\* A gate is given up (VigilUnavailableError) only when the CPU scanner itself
\* refused a text or failed CpuRetries + 1 times in a row, whatever the GPU
\* scanner did before.
FaultsTolerated == gate.pc = "unavailable" => faults = CpuRetries + 1

\* No socket is held for ever: whoever leaves, falls silent or refuses, the
\* timers of socks5Connect, collectResponse, ureq and pipeSockets release it.
SocketsReleased == \A s \in Socks : Held(s) ~> ~Held(s)

\* The security layer comes to its end: the wait for the proxy, the gate, and
\* bridge.close(), which main awaits before it writes the report.  (Through an
\* HTTP proxy a CONNECT whose proxy hangs up keeps the bridge open for ever.)
LayerEnds == scheme # "http" => <>(boot \in {"closed", "failed"})
=============================================================================
