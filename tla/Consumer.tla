------------------------------ MODULE Consumer ------------------------------
(***************************************************************************)
(* `tmeet event consume` (cmd/event/consume.go, consume_runner.go): the    *)
(* checks before the start, the handshake, the main loop with its reader   *)
(* goroutine, the signal watcher and the --timeout timer, and the way out. *)
(*                                                                         *)
(* The main goroutine handles a frame without looking at the other ones,   *)
(* so handleFrame is one step, unless a write to stdout blocks: that has   *)
(* no deadline, and nothing the loop waits for is looked at before it      *)
(* returns.  The reader, the watcher and the two writes of the timer       *)
(* callback interleave with both.  The bus end of the connection and who   *)
(* reads stdout are the environment.  A frame keeps its kind and, for an   *)
(* event, the number of lines --jq makes of it (1 without --jq).           *)
(***************************************************************************)
EXTENDS Integers, Sequences, SequencesExt, FiniteSetsExt

CONSTANTS
  FrameChCap,  \* capacity of frameCh (8 in the code)
  MaxEvents,   \* bound: the values of --max-events, 0 for no limit
  LineCounts,       \* bound: the numbers of lines --jq makes of one event
  Kinds,       \* the kinds of frame the bus writes
  MaxFrames    \* bound: frames the bus writes after the ack

ASSUME ConsumerAssumption ==
  /\ FrameChCap \in Nat \ {0}
  /\ MaxEvents \subseteq Nat
  /\ LineCounts \subseteq Nat
  /\ MaxFrames \in Nat
  /\ Kinds \subseteq {"event", "source_status", "dropped", "auth_expired",
                      "subscribe_error", "bye", "malformed"}

VARIABLES
  max,           \* --max-events
  stage,         \* where runLoop is
  outcome,       \* how the process ended: exit code and reason
  sent,          \* history: the frames the bus wrote
  fetched,       \* how many of them ReadFrame has returned
  link,          \* the connection, as the consumer meets it
  reader,        \* the reader goroutine and the packet it holds
  frameCh,
  signalled,     \* a signal was delivered: "no", in sigCh, or past the watcher
  timer,         \* the --timeout callback; one that never fires stands for
                 \*   a command without --timeout
  loopDone,      \* loopCtx is cancelled
  stdout,        \* the complete lines written, each <<frame, line>>
  pipe,          \* what became of stdout
  writing,       \* the write that blocks: of lines 1..to of frame, those from
                 \*   from + 1 on are still to be written
  delivered

busEndVars == <<sent, link>>
readerVars == <<fetched, reader, frameCh>>
stopVars == <<signalled, timer, loopDone>>
outputVars == <<stdout, pipe, writing, delivered>>
consumerVars == <<max, stage, outcome, sent, fetched, link, reader,
                  frameCh, signalled, timer, loopDone, stdout, pipe, writing, delivered>>

\* source_status, dropped and frames of no known kind end with a line on
\* stderr; so does an event whose --jq fails, which counts as one of no lines.
Ignored == {"source_status", "dropped"}
Fatal == {"auth_expired", "subscribe_error"}
Frames == [kind : Kinds \ {"event"}, lines : {0}]
            \union [kind : Kinds \intersect {"event"}, lines : LineCounts]

\* What the reader hands over: a frame by its position, or an error that
\* isExpectedReadErr does or does not take for a clean end.
Packet(n) == [is |-> "frame", n |-> n]
CleanEnd == [is |-> "clean_end", n |-> 0]
Broken == [is |-> "broken", n |-> 0]

NoWrite == [frame |-> 0, from |-> 0, to |-> 0]

\* The reader of stdout does not read and the main goroutine is inside Write.
Stalled == writing.from < writing.to

ConsumerInit ==
  /\ max = 0
  /\ stage = "idle" /\ outcome = [code |-> 0, reason |-> "none"]
  /\ sent = <<>> /\ fetched = 0 /\ link = "none"
  /\ reader = [at |-> "off", pkt |-> CleanEnd] /\ frameCh = <<>>
  /\ signalled = "no" /\ timer = "armed" /\ loopDone = FALSE
  /\ stdout = <<>> /\ pipe = "ok" /\ writing = NoWrite /\ delivered = 0

-----------------------------------------------------------------------------
\* Run: the checks, in their order.

Checks == <<"key", "param", "jq", "bounds", "dir", "mkdir", "user", "bus">>

\* One invocation with --max-events m: of the checks in bad, which the flags
\* and the machine make fail, the first one ends it.
Run(m, bad) ==
  /\ stage = "idle"
  /\ max' = m
  /\ LET failing == {i \in 1..Len(Checks) : Checks[i] \in bad} IN
       IF failing = {}
       THEN stage' = "dial" /\ UNCHANGED outcome
       ELSE /\ stage' = "exit"
            /\ outcome' = [code |-> 1, reason |-> Checks[Min(failing)]]
  /\ UNCHANGED <<busEndVars, readerVars, stopVars, outputVars>>

-----------------------------------------------------------------------------
\* runLoop: Dial, Hello and HelloAck.

Exit(code, reason) ==
  /\ stage' = "exit"
  /\ outcome' = [code |-> code, reason |-> reason]

\* Dial and the Hello, whose write has a deadline of its own.
SendHello ==
  /\ stage = "dial"
  /\ \/ stage' = "ack" /\ link' = "open" /\ UNCHANGED outcome
     \/ Exit(1, "dial") /\ UNCHANGED link
  /\ UNCHANGED <<max, sent, readerVars, stopVars, outputVars>>

\* The ack, or no usable one before the deadline of 5 seconds: an IO error,
\* another frame, or a HelloAck that carries an error.
ReadHelloAck ==
  /\ stage = "ack"
  /\ \/ stage' = "ready" /\ UNCHANGED <<outcome, link>>
     \/ Exit(1, "ack") /\ link' = "closed"
  /\ UNCHANGED <<max, sent, readerVars, stopVars, outputVars>>

\* Behind the ready marker: signal.Notify, the watcher, the timer, the reader.
Arm ==
  /\ stage = "ready"
  /\ stage' = "loop"
  /\ reader' = [reader EXCEPT !.at = "read"]
  /\ UNCHANGED <<max, outcome, busEndVars, fetched, frameCh, stopVars,
                 outputVars>>

-----------------------------------------------------------------------------
\* The bus end of the connection.

BusWrites(f) ==
  /\ stage \in {"ready", "loop"} /\ link = "open" /\ Len(sent) < MaxFrames
  /\ sent' = Append(sent, f)
  /\ UNCHANGED <<max, stage, outcome, link, readerVars, stopVars,
                 outputVars>>

\* The bus closes: what it wrote before is still readable, unless the socket
\* was reset.
BusCloses(how) ==
  /\ stage \in {"ready", "loop"} /\ link = "open"
  /\ link' = how
  /\ UNCHANGED <<max, stage, outcome, sent, readerVars, stopVars,
                 outputVars>>

-----------------------------------------------------------------------------
\* Signals and the timeout.

\* Before signal.Notify the default action ends the process on the spot.
Signal ==
  /\ signalled = "no"
  /\ IF stage \in {"loop", "leave", "drain"}
     THEN /\ signalled' = "queued"
          /\ UNCHANGED <<stage, outcome>>
     ELSE /\ stage \in {"dial", "ack", "ready"}
          /\ Exit(143, "killed")
          /\ signalled' = "fatal"
  /\ UNCHANGED <<max, busEndVars, readerVars, timer, loopDone,
                 outputVars>>

\* The watcher goroutine waits for sigCh or for loopCtx.
WatcherCancels ==
  /\ signalled = "queued" /\ ~loopDone
  /\ signalled' = "seen" /\ loopDone' = TRUE
  /\ UNCHANGED <<max, stage, outcome, busEndVars, readerVars, timer,
                 outputVars>>

\* The callback of AfterFunc: timeoutFired.Store(true), then loopCancel().
\* A version that cancels first:
TimerCancelsFirst ==
  /\ stage = "loop"
  /\ \/ timer = "armed" /\ timer' = "cancelled" /\ loopDone' = TRUE
     \/ timer = "cancelled" /\ timer' = "fired" /\ UNCHANGED loopDone
  /\ UNCHANGED <<max, stage, outcome, busEndVars, readerVars,
                 signalled, outputVars>>

TimerFires ==
  /\ stage = "loop"
  /\ \/ timer = "armed" /\ timer' = "stored" /\ UNCHANGED loopDone
     \/ timer = "stored" /\ timer' = "fired" /\ loopDone' = TRUE
  /\ UNCHANGED <<max, stage, outcome, busEndVars, readerVars,
                 signalled, outputVars>>

TimeoutFired == timer \in {"stored", "fired"}

-----------------------------------------------------------------------------
\* The reader goroutine.

\* ReadFrame and Decode.  The bufio.Reader may hold frames the socket no
\* longer has, so after a reset or our own Close either can come next.
ReaderReads ==
  /\ reader.at = "read"
  /\ \/ /\ fetched < Len(sent)
        /\ fetched' = fetched + 1
        /\ reader' = [at |-> "send",
                      pkt |-> IF sent[fetched'].kind = "malformed" THEN Broken
                              ELSE Packet(fetched')]
     \/ /\ link # "open" /\ (link = "eof" => fetched = Len(sent))
        /\ reader' = [at |-> "send", pkt |-> CleanEnd]
        /\ UNCHANGED fetched
     \/ /\ link = "open" /\ fetched = Len(sent) /\ stage = "loop"
        /\ reader' = [at |-> "send", pkt |-> Broken]    \* a frame over 1 MiB
        /\ UNCHANGED fetched
  /\ UNCHANGED <<max, stage, outcome, busEndVars, frameCh, stopVars,
                 outputVars>>

\* A version whose send does not block:
ReaderSendsAnyway ==
  /\ reader.at = "send"
  /\ frameCh' = Append(frameCh, reader.pkt)
  /\ reader' = [reader EXCEPT !.at = IF reader.pkt.is = "frame" THEN "read" ELSE "done"]
  /\ UNCHANGED <<max, stage, outcome, fetched, busEndVars, stopVars, outputVars>>

\* The send on frameCh blocks while it is full; an error packet is the last.
ReaderSends ==
  /\ reader.at = "send" /\ Len(frameCh) < FrameChCap
  /\ frameCh' = Append(frameCh, reader.pkt)
  /\ reader' = [reader EXCEPT !.at = IF reader.pkt.is = "frame" THEN "read" ELSE "done"]
  /\ UNCHANGED <<max, stage, outcome, fetched, busEndVars, stopVars,
                 outputVars>>

-----------------------------------------------------------------------------
\* The main loop.

\* sendBye, then the return with its deferred calls: nobody reads frameCh any
\* more.
Fail(reason) ==
  /\ link' = "closed"
  /\ Exit(1, reason)

\* break loop: the way out is still to come.
Leave(reason) ==
  /\ stage' = "leave"
  /\ outcome' = [outcome EXCEPT !.reason = reason]
  /\ UNCHANGED link

GoOn == UNCHANGED <<stage, outcome, link>>

LoopCancelled ==
  /\ stage = "loop" /\ ~Stalled /\ loopDone
  /\ Leave(IF TimeoutFired THEN "timeout" ELSE "signal")
  /\ UNCHANGED <<max, sent, readerVars, stopVars, outputVars>>

\* The quota is compared after the whole event.
QuotaPerEvent(n) == n

\* writeEventToStdout or emitEventViaJQ: at most the lines --max-events still
\* allows.
Wanted(n) ==
  IF max = 0 THEN n ELSE Min({n, max - delivered})

\* Lines from + 1 to to of frame n are written one after the other, until one
\* blocks or fails.  A broken pipe is an error of the write if SIGPIPE is
\* ignored in the process; otherwise Go's runtime lets the signal kill it.
WriteLines(n, from, to) ==
  \E k \in 0..(to - from) :
    /\ stdout' = stdout \o [i \in 1..k |-> <<n, from + i>>]
    /\ delivered' = delivered + k
    /\ \/ /\ k = to - from
          /\ writing' = NoWrite /\ UNCHANGED pipe
          /\ IF k > 0 /\ max > 0 /\ delivered' >= max
             THEN Leave("limit") ELSE GoOn
       \/ /\ k < to - from
          /\ writing' = NoWrite
          /\ \/ pipe' = "epipe" /\ Leave("signal")
             \/ pipe' = "epipe" /\ Exit(141, "killed") /\ link' = "closed"
             \/ pipe' = "error" /\ Fail("handle_error")
       \/ /\ k < to - from
          /\ writing' = [frame |-> n, from |-> from + k, to |-> to]
          /\ GoOn /\ UNCHANGED pipe

EmitEvent(n) == WriteLines(n, 0, Wanted(sent[n].lines))

\* The reader of stdout takes up what was written, or goes away.
WriteGoesOn ==
  /\ stage = "loop" /\ Stalled
  /\ WriteLines(writing.frame, writing.from, writing.to)
  /\ UNCHANGED <<max, sent, readerVars, stopVars>>

\* handleFrame for the packet at the head of frameCh.
HandleFrame ==
  /\ stage = "loop" /\ ~Stalled /\ frameCh # <<>>
  /\ frameCh' = Tail(frameCh)
  /\ LET pkt == Head(frameCh)
         kind == IF pkt.is = "frame" THEN sent[pkt.n].kind ELSE pkt.is
     IN \/ kind = "event" /\ EmitEvent(pkt.n)
        \/ kind \in Ignored /\ GoOn /\ UNCHANGED outputVars
        \/ kind \in Fatal /\ Fail("handle_error") /\ UNCHANGED outputVars
        \/ kind = "broken" /\ Fail("read_error") /\ UNCHANGED outputVars
        \/ kind \in {"bye", "clean_end"} /\ Leave("shutdown") /\ UNCHANGED outputVars
  /\ UNCHANGED <<max, sent, fetched, reader, stopVars>>

-----------------------------------------------------------------------------
\* The way out.

\* A version that leaves the closing of the socket to the deferred call:
GoodbyeOnly ==
  /\ stage = "leave"
  /\ stage' = "drain"
  /\ UNCHANGED <<max, outcome, sent, link, readerVars, stopVars, outputVars>>

GoodbyeAndClose ==
  /\ stage = "leave"
  /\ stage' = "drain"
  /\ link' = "closed"
  /\ UNCHANGED <<max, outcome, sent, readerVars, stopVars, outputVars>>

\* for range frameCh, then the exit line.
Drain ==
  /\ stage = "drain"
  /\ \/ /\ frameCh # <<>>
        /\ frameCh' = Tail(frameCh)
        /\ UNCHANGED stage
     \/ /\ frameCh = <<>> /\ reader.at = "done"
        /\ stage' = "exit"
        /\ UNCHANGED frameCh
  /\ UNCHANGED <<max, outcome, busEndVars, fetched, reader, stopVars,
                 outputVars>>

-----------------------------------------------------------------------------
MainNext == SendHello \/ ReadHelloAck \/ Arm \/ LoopCancelled \/ HandleFrame
              \/ GoodbyeAndClose \/ Drain
ReaderNext == ReaderReads \/ ReaderSends

ConsumerNext ==
  \/ \E m \in MaxEvents, bad \in SUBSET Range(Checks) : Run(m, bad)
  \/ MainNext \/ ReaderNext \/ TimerFires \/ WatcherCancels \/ Signal
  \/ WriteGoesOn
  \/ \E f \in Frames : BusWrites(f)
  \/ \E how \in {"eof", "reset"} : BusCloses(how)

\* The Go scheduler runs every goroutine, and the socket calls of the
\* handshake have deadlines.  Nothing is assumed of the bus, of signals, of
\* when the timer starts its callback (once started it ends), or of who reads
\* stdout: WriteGoesOn has no fairness.  The lines on stderr are not modelled,
\* which assumes that somebody reads them.
ConsumerFairness ==
  /\ WF_consumerVars(MainNext)
  /\ WF_consumerVars(ReaderReads /\ link # "open")
  /\ WF_consumerVars(ReaderSends)
  /\ WF_consumerVars(WatcherCancels)
  /\ WF_consumerVars(timer = "stored" /\ TimerFires)

ConsumerSpec == ConsumerInit /\ [][ConsumerNext]_consumerVars /\ ConsumerFairness

-----------------------------------------------------------------------------
\* Properties.

Packets == [is : {"frame"}, n : 1..MaxFrames] \union {CleanEnd, Broken}
ExitReasons == Range(Checks) \union {"none", "dial", "ack", "killed", "limit",
  "signal", "timeout", "shutdown", "handle_error", "read_error"}

\* The types of the variables.
ConsumerTypeOK ==
  /\ max \in MaxEvents \union {0}
  /\ stage \in {"idle", "dial", "ack", "ready", "loop", "leave", "drain", "exit"}
  /\ outcome \in [code : {0, 1, 141, 143}, reason : ExitReasons]
  /\ sent \in Seq(Frames) /\ Len(sent) <= MaxFrames
  /\ fetched \in 0..Len(sent)
  /\ link \in {"none", "open", "eof", "reset", "closed"}
  /\ reader \in [at : {"off", "read", "send", "done"}, pkt : Packets]
  /\ frameCh \in Seq(Packets) /\ Len(frameCh) <= FrameChCap
  /\ signalled \in {"no", "queued", "seen", "fatal"}
  /\ timer \in {"armed", "stored", "fired"}
  /\ loopDone \in BOOLEAN
  /\ delivered \in Nat
  /\ pipe \in {"ok", "epipe", "error"}
  /\ writing \in [frame : Nat, from : Nat, to : Nat]

\* The lines of the frames the reader has read, each <<frame, line>>, and
\* their order.
LinesRead == UNION {{n} \X (1..sent[n].lines) : n \in 1..fetched}
ComesBefore(a, b) == a[1] < b[1] \/ (a[1] = b[1] /\ a[2] < b[2])

\* stdout is a prefix of the lines of the frames the bus wrote, in their order,
\* none twice and none left out, whatever else was going on; the count of the
\* exit line is the number of those lines; and --max-events is never exceeded,
\* not even by an event of which --jq makes several lines.
OutputIsAPrefix ==
  /\ Range(stdout) \subseteq LinesRead
  /\ \A i, j \in DOMAIN stdout : i < j => ComesBefore(stdout[i], stdout[j])
  /\ \A line \in LinesRead, i \in DOMAIN stdout :
       ComesBefore(line, stdout[i]) => line \in Range(stdout)
  /\ delivered = Len(stdout)
  /\ max > 0 => delivered <= max

\* The exit line tells the truth: a timeout only if the timer fired, a signal
\* only if one came or the reader of stdout went away, the limit only if it
\* was reached, a shutdown only if the bus ended the stream; exit code 0 is given
\* for these four and no other end, and never before the reader has ended,
\* though it may have been blocked in ReadFrame or on a full frameCh.
ExitSaysWhy ==
  stage = "exit" =>
    /\ outcome.reason = "timeout" => TimeoutFired
    /\ outcome.reason = "signal" => signalled = "seen" \/ pipe = "epipe"
    /\ outcome.reason = "limit" => delivered = max
    /\ outcome.reason = "shutdown" =>
         \/ \E i \in 1..fetched : sent[i].kind = "bye"
         \/ reader.at = "done"
    /\ outcome.code = 0 <=> outcome.reason \in {"limit", "signal", "timeout", "shutdown"}
    /\ outcome.code = 0 => reader.at = "done"

\* Once the loop is told to stop, by a signal, the timer or the end of the
\* connection, the process ends: unless stdout's reader has stopped reading for
\* good, which neither --timeout nor a signal gets past (writeEventToStdout,
\* emitEventViaJQ); no other wait, of the main loop, its reader or the bus, can
\* keep it.
ConsumerStops ==
  []<>~Stalled =>
    (stage = "loop" /\ (loopDone \/ link # "open") ~> stage = "exit")
=============================================================================
