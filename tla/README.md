# A TLA+ model of lightstep-tracer-go

The repository is a Go client library: an application starts and finishes
spans, the tracer buffers the finished ones and a background goroutine reports
them to a LightStep collector (a "satellite") over gRPC, HTTP or a custom
transport.  What is hard in it is not any one function but that many
goroutines finish spans, flush, disable and close while reports fail, are
retried, are split and are answered late.  This directory models that part of
the program, checks it with TLC and proves its central invariants with TLAPS.

## 1. Inventory

| component | source | state | operations |
|---|---|---|---|
| report buffer | `report_buffer.go` | spans, dropped / reported-dropped counts, the same for encoder errors, report window | `addSpan`, `mergeFrom`, `clear`, `setCurrent`, `setFlushing`, `reportDroppedSpanCount`, ... |
| tracer | `tracer.go` | two buffers, `flushingLock`, `reportInFlight`, `disabled`, `connection`, `lastReportAttempt`, channels of the loop | `RecordSpan`, `Flush` (`preFlush`, `FlushSingle`, `postFlush`), `Disable`, `Close`, `reportLoop`, `reconnectClient` |
| collector clients | `collector_client*.go` | a connection and when it was made | `ConnectClient`, `Translate`, `Report`, `ShouldReconnect`, `SplitByParts` |
| conversion | `proto_converter.go`, `proto_logencoder.go` | none of its own; counts encoder errors into a buffer | `toReportRequest`, `toSpan`, log encoding |
| span | `span.go` | operation, tags, baggage, circular log buffer, `finished` | setters, `LogFields`, `FinishWithOptions` |
| span context | `raw_span.go` | IDs, sampling, baggage | `WithBaggageItem`, `Len` |
| propagators | `propagation*.go` | none (a stack of propagators has a list) | `Inject`, `Extract` |
| system metrics | `tracer.go`, `internal/metrics/` | last stored sample, intervals since success | `systemMetricsLoop`, `Measure`, `send` |
| events | `events.go`, `event_handlers.go` | a global handler; the channel of `NewEventChannel` | `SetGlobalEventHandler`, `emitEvent`, the handlers |
| options | `options.go` | a record | `Initialize`, `Validate` |
| random identifiers | `util.go`, `lightstep/rand/` | a pool of locked generators, a counter | `NewPool`, `Pick`, `Int63`, `TwoInt63`, ... |
| OpenCensus exporter | `lightstepoc/` | a tracer | `ExportSpan`, `Flush`, `Close` |

**Interaction.**  `FinishWithOptions` calls `tracer.RecordSpan` once, which
appends to `tracer.buffer` under `tracer.lock`.  `Flush`, called by the report
loop, by `Close` and by the application, takes `flushingLock`, swaps the two
buffers under `tracer.lock` (`preFlush`), and without that lock converts the
flushing buffer, sends it through the client and handles the answer, which may
command `Disable`.  `postFlush` takes `tracer.lock` again and either clears the
flushing buffer or merges it back.  The report loop also replaces the
connection; `Close` waits for the loop through a channel, flushes and closes
the connection.  The metrics loop shares only `disabled`.  Every part of the
tracer emits events, which the goroutine that emits them hands to the global
handler and waits for, those of `Flush` before it gives up `flushingLock`.
Starting a span draws its identifiers from the random pool, in any goroutine.
The OpenCensus exporter starts and finishes spans that are already over.

**Hard behaviours.**  Flushes racing with each other, with `Disable` in the
middle of a report, and with the closing or replacing of the connection; a
report that fails after the collector accepted it; several failures in a row,
with counts told in part; a buffer that fills while a report is in flight; a
report in several parts, one of which fails; waiting of `Close` on a loop that
may have returned; an event handler that runs under a lock; a counter that
wraps while goroutines use it to share generators.  `PROJECT.json` lists them under `hazards`, each at its line.

**What makes the components correct.**

- buffer and tracer: capacity is never exceeded; no span is lost or doubled
  except by a counted drop; no drop is told twice or forgotten, no span with an
  encoder error is missed; report windows tile time; flushes exclude each other; connections do
  not leak and are not closed under a report; `Flush` and `Close` return; every
  span leaves in the end;
- clients: what is counted as sent was received;
- span: the logs of a finished span are the oldest and newest ones around an
  exact summary; a recorded span does not change;
- metrics: windows of the counters tile over failures; durations state the
  windows up to the cut to whole seconds; retries end; the loop stops;
- span context and propagators: over any number of hops a child joins the
  trace of the span that caused it and inherits its baggage and its sampling
  decision; a context handed out does not change;
- OpenCensus exporter: spans that were parent and child stay so;
- events: handlers see status reports in the order of their windows, and a
  channel nobody reads does not stop the tracer;
- random identifiers: no number of a generator is given out twice or skipped,
  the generators are used evenly, and no call waits forever.

## 2. Modules

| module | models |
|---|---|
| `ReportBuffer` | `reportBuffer`, each method an operator on a record |
| `ReportRequest` | number of parts, `SplitByParts`, encoder errors of a conversion |
| `Tracer` | `tracerImpl` with the clients, the report loop, callers and the collector; properties and refinement |
| `SpanStore` | abstract specification: a bounded store of spans |
| `MCTracer` | span sizes and symmetry for TLC |
| `EventHandlers` | events, `emitEvent`, the global handler and the handlers of the package |
| `TracerEvents` | composition of `Tracer` and `EventHandlers`; the properties about progress |
| `MCTracerEvents` | the composition for TLC |
| `Span` | `spanImpl` |
| `Propagation` | `Inject` and `Extract` of the propagators and of stacks of them, as operators |
| `TraceContext` | `newSpan`, `SpanContext`, baggage, contexts that travel between processes, and the OpenCensus exporter |
| `MCTraceContext` | stacks, identifiers, exported spans and the lower case of keys for TLC |
| `RandomPool` | `rand.Pool`, `LockedRand` and the generating of identifiers |
| `MCRandomPool` | the rounding to a power of two against its definition |
| `SystemMetrics` | `systemMetricsLoop` and `metrics.Reporter` |
| `TracerProofs`, `SpanFateProofs`, `TracerEventsProofs`, `SpanProofs`, `PropagationProofs`, `TraceContextProofs`, `RandomPoolProofs`, `SystemMetricsProofs` | proofs, see section 4 |

`Tracer` extends `ReportBuffer` and `ReportRequest` and is shown to implement
`SpanStore`.  `TracerEvents` extends `Tracer` and `EventHandlers`.
`TraceContext` extends `Propagation`.  `Span`, `SystemMetrics` and `RandomPool`
stand alone: a span meets the tracer in the single `RecordSpan` call, the
metrics loop shares only `disabled` with the tracer, which it reads, and the
pool is called and returns.

### Tracer

The goroutines are the report loop and a set of `Callers`, each at a place
`pc[p]`; spans are finished by whoever, so `RecordSpan` has no goroutine.  A
critical section of `tracer.lock` is one action; `flushingLock` is a variable
since it is held over many.  `Flush` is `PreFlush` (or `PreFlushRefused`), the
optional `MetaCreate`, `Translate` or `TranslateFails`, for each part `Report`
followed by `Respond` or `ReportFails`, `DisableCommand` where the answer says
so, and `PostFlush`.  Between any two of these every other goroutine may step.

- *Answers.*  `ReportFails` stands for every error of the transport: nothing
  sent, a lost answer (`delivered`), a timeout, a refusal, a connection closed
  underneath.  `Respond` has an answer with or without errors, the disable
  command, and the dev mode command.
- *Clients.*  They differ in what `Translate` can do, in whether a request can
  be split (an HTTP request has no `protoRequest`), in `ShouldReconnect`, and in
  whether closing a connection breaks a report that uses it.
- *Time.*  `clock` is what `time.Now()` last returned in `preFlush`.  Each
  `preFlush` reads one more, until `MaxClock` is reached; from then on it reads the
  same time again, as a clock of finite resolution may.  `Tick` is the ticker of
  `MinReportingPeriod`, `age` the ticks since the last attempt.
- *Data.*  A span is a model value; its size (`SpanBytes`), whether it is
  sampled and whether its logs can be encoded are parameters.
- *Reconnection.*  `ConnectClient`, the swap and the closing of the old
  connection are three actions.  A connection's identity is reused once it is
  closed and nothing is sent on it any more.
- *Counts.*  `ledger` keeps what became of drops and encoder errors: told in a
  status event, told to the collector, cleared (`forfeited` for what the collector
  will not hear of), and which spans met an encoder error (`rejected`) and how often
  one of these was converted again (`repeats`).
- *History.*  `fate`, `received`, `ledger`, `covered`, `beforeClose` and
  `closeResult` record what happened.  No guard reads them, except that a span
  finishes once (`fate[s] = "new"`), which `Span` shows (`RecordedForGood`).

### EventHandlers and TracerEvents

`emitting[p]` holds the events that goroutine `p` has still to hand over, and `p`
takes no other step before it is empty (`quiet`).  A composite step such as
`FlushStepE` is the whole step of `Tracer` together with the events that the code
emits there, read off the step itself: the tags and logs that the conversion could
not encode, a
refused or failed flush, the status report of `postFlush`, a failed reconnection,
a `Close` of a closed gRPC connection, the call of `Disable` that disables.
`Tracer` frees `flushing` in `PostFlush`; the code unlocks in a `defer`, after the
events, so `flushReturned` keeps the next `Flush` out until they are handed over.
The handler's load and its call are one step: nothing tells them apart.  The
channel is its length, with a `select` that drops when it is full.

`TracerEvents` states `StatusReportsInOrder` and `FlushReturns`, and it is in this
module that `CloseReturns` and `SpansLeave` of `Tracer` are checked, so that no
progress is claimed that leaves out the handlers.

### Span

One span under its own mutex, so that every method is one action.  A log record
is its number in the order of arrival; the log buffer's index arithmetic, its
circular overwriting and the in-place rotation of `FinishWithOptions` are
translated as they are.  `MaxLogsPerSpan` is chosen in `Init`, so that one run
covers all limits.

### TraceContext and Propagation

Processes differ only in their propagators, so there is one set of spans, and
every `Inject` and `Extract` may use any stack of `Propagators`.  Contexts that
were handed out and carriers that were written stay in sets: they may be used
later, several times or never.  Go maps are references: a context holds an index
into `maps`, 0 for nil, and `SetBaggageItem` on a span must not be seen through
a context handed out before it (`ContextsStable`).

Numbers in headers are sequences of digits.  `FormatUint` writes no leading
zeros and `ParseUint` refuses an empty or too large number; the code's 16 digits
to the base 16 become `Digits` to the base `Base`, so that the cutting of B3
trace IDs at 15, 16 and 32 is kept as `Digits - 1`, `Digits` and `2 * Digits`.
The text propagators read baggage keys in lower case, and of two keys that
differ in case either may win, as a Go map is iterated in any order.

`origin` goes with a context and with a carrier: the span that first handed the
context out, as it was then.  With `seen`, `cause` and `own` it is history, which
no guard reads.  Another library's B3 headers, padded, wide, of a wrong length or
without a span ID, are written by `PeerInject`.  Generated identifiers are taken
never to collide, and base64 and protobuf to be exact.

`ExportSpan` is the exporter as one step: it starts a span with the IDs of a
finished OpenCensus span, of which the trace ID is cut to its last 8 bytes
(`ConvertTraceID`, a pair of halves of which the second is kept), sets the
`Tracestate` as baggage, adds the first child link as a reference, which wins over
the trace the span was given, and finishes.  `ExportedConnected` is about spans
that are linked or parented to an exported span without a child link of its own.

### SystemMetrics

Counters are abstracted to the time of their sample, so a report is a window of
time.  The clock counts the ticks of the ticker, one in each period; the frequency
of the ticker, which is chosen in `Init` and never changes, the timeout and the sleeps are in
units of which `SecondInMillis` make a second (1000 in the code).  The duration of a
report and the test for windows that are too long multiply the intervals by the
frequency cut to whole seconds (`wholeSeconds`), as `addFloat` and `Measure` do.

A measurement may take longer than a period.  Its context ends after `limit`, the
shorter of the timeout and the period, but the sleep between two retries does
not look at the context: the requests and sleeps before the last sleep take at most
`limit`, and `waited` at most three times that and two seconds (`SendGivesUp`).  `Tick`
therefore may find the loop in a measurement once `waited` and `limit` reach a period
(`mayOverrun`), or when the tick before was late already; a tick that finds the ticker's
channel full is dropped.  With the default options (a timeout of five seconds, a period of
30) a measurement takes at most 22 seconds and no tick is dropped.  `multiplier` is the
`1 << retries` of `calculateBackoff`.

### RandomPool

A generator of `math/rand` is its position in the sequence that its seed
determines.  A draw reads the position and then writes it: what makes it atomic
is the mutex of `LockedRand`, and not the model.  `DrawCounts` stands for the
methods (`Int63` draws once, `TwoInt63` twice under one lock).  The words of the
pool have `Width` bits in the place of 64; the shifts and the ors of
`nextNearestPow2uint64`, in the code's order, and the masking of the counter are
translated to sets of bits, and the counter wraps.

## 3. Runs

`tlc -workers 2 -config <cfg> <module>`; `PROJECT.json` names the files.

| run | result | what it shows |
|---|---|---|
| `accounting` | holds | `TypeOK`, `DropsAccounted`, `EncoderErrorsAccounted`, `CollectorToldOfDropsOnce`, `SentWereReceived`, `FlushingEmptyBetweenFlushes`, `WindowsTile` over HTTP with failing translations and reports; `ImplementsSpanStore`, the refinement |
| `close` | holds | `FlushExclusive`, `HeldExactlyOnce`, `ConnectionsOwned`, `CloseFlushes`, `ClosedForGood` with two callers, the loop and a reconnecting gRPC client whose reports are split |
| `live` | holds | the tracer with its events under fairness: `FlushReturns`, `CloseReturns`, `SpansLeave`, although nobody has to read the channel that events go to; and `StatusReportsInOrder` |
| `pool` | holds | `TypeOK`, `NumbersGivenOnce`, `EvenLoad`, `CallsReturn`, over the wrap of the counter; and, as assumptions of `MCRandomPool`, that the rounding yields the least power of two not below its argument, and 0 for 0 |
| `span_logs` | holds | `TypeOK`, `LogsSummarised`, `RecordedForGood` |
| `trace_context` | holds | `TypeOK`, `TraceConnected`, `ExportedConnected`, `BaggageInherited`, `ContextsStable`, `UnsampledNotRecorded` (the last where no process reads B3 headers) |
| `metrics` | holds | `TypeOK`, `WindowsTile`, `DurationCoversWindow`, `SendGivesUp`, `StopsWhenDisabled` |
| `close_disabled` | violated | `CloseTerminates` |
| `close_in_use` | violated | `NoReportOnClosedConnection` |
| `split` | violated | `SentWereReceived`, here for reports in two parts |
| `b3_sampled` | violated | `SamplingPropagated`: the same as `UnsampledNotRecorded` over B3 headers |
| `metrics_close` | violated | `ClosedMeansStopped` |

Every property of a run that holds has a mutant in `PROJECT.json`: a definition
with a plausible bug (operators named `Mut...`), under which TLC finds the
property violated.

**Bounds and why they are enough.**

- Buffers of two spans and up to five spans: a failed report can be put back
  whole, in part, or not at all, while the buffer is empty, half full or full.
- Two failures in `accounting`: the second meets counts that were already told
  in part.  One in `close`, which is about interleavings.
- `accounting` has no caller besides the loop: `close` checks, and
  `FlushExclusion` proves, that flushes exclude each other, so that a second
  flusher adds nothing to the counts.  `close` has two callers and the loop, so
  that `Flush`, `Close`, a second `Close` and a reconnection meet.  `Close` touches
  the buffers only through its `Flush`, so that `accounting` does without it.
- Three connections in `close`: one in use, one being connected, one on which a
  report is still waiting.
- `CollectorToldOfDropsOnce`, `SentWereReceived` and the refinement are stated
  for reports in one part; for several parts `SentWereReceived` fails, see
  `split`, and the drop count is sent with every part.
- `MaxClock` is 4 where windows matter and 1 elsewhere.
- Log limits 1 to 6 and 16 records: every limit's circular part wraps at least
  three times, with even and odd limits.
- `trace_context`: two spans, three contexts and two carriers, so that a context
  can cross two hops, through a process that starts no span, and two children
  can meet the same context; `SetBaggageItem` while there are fewer than two maps;
  identifiers of three binary digits, with and without leading zeros, and trace
  IDs of three, five and six digits; LightStep, B3, binary, and a stack of B3 over
  LightStep; OpenCensus spans with and without a parent and links.
- `live` has one caller, one span besides the meta span, one failure and two
  readings of the clock: liveness is checked on the product with the fairness
  conditions.  The caller may flush, disable and close, the loop flushes by itself,
  and the channel of one event is full after the first.  The handler is set once,
  before, between or during flushes: setting it again only repeats this.
- `pool`: words of 3 bits, so that 9 picks go past the wrap; pools of one, two and
  four, one of them rounded up; two goroutines, which meet at one source.
- Metrics, in half seconds: frequencies of 0.5, 2.5, 6.5 and 7 seconds with a timeout
  of one.  The first is cut to 0; a measurement may overrun the first two, and it
  fits in the others (`measurementFits`), of which one has a fraction.  Windows of up to
  two periods in five, so that several become too long; two retries before the
  timeout.  For 0.5 seconds no window is ever too long, and the loop goes on counting:
  the model stops counting at `MaxIntervals`, where the stated duration is 0 anyway.

Deadlock is not an error in any run: a closed or disabled tracer stops, as does a
finished span, and a `Close` of a disabled tracer hangs by itself.

**Fairness** (`FairSpecE` of the tracer with its events; `FairSpec` of `Tracer` is the
same without them).  The Go scheduler runs every goroutine that can run
(weak fairness of each goroutine's steps).  A `sync.Mutex` hands the lock to a
goroutine that has waited for a millisecond, so a waiting `Flush` is not passed
over forever (strong fairness of taking the lock).  `select` picks at random
among ready cases, so the loop sees the closed channel although ticks go on
(strong fairness of `LoopClosed`).  A report ends, by the timeout of
`FlushSingle` if by nothing else, so awaiting an answer is part of a goroutine's
steps.  A handler that is called returns: those of the package log, or send to a
channel in a `select` with a `default`, which is why `EmitE` may be part of a
goroutine's steps.  (A handler of the application that calls `Flush` itself does
not return, see section 5.)  The tickers tick.  Nothing forces the application to
read the channel or the application to record, flush,
close or disable, nor a context to be cancelled: `CloseReturns` holds for
contexts without a deadline.  Failures are bounded by `MaxFailures`, and so
`SpansLeave` is about a collector that recovers.

`pool` (`FairSpec` of `RandomPool`) has the same two conditions: goroutines run, and
a mutex is not kept from one that waits forever.  Nobody has to call `Pick`.

## 4. Proofs

`tlapm <module>.tla` for each of the eight modules.  Nothing is assumed but the
named assumptions on the constants, which TLC evaluates in the runs, and the
hypotheses that a theorem states itself; no set of goroutines, spans or connections
is assumed finite, and no bound small.  `PropagationAssumption` and `PoolAssumption`
spell out what the powers of their base are, since the provers have no
arithmetic for `^`.  Every safety property of a run that holds has a theorem, and
the invariants were tried with TLC on small instances before they were proved.

| module | theorem | states |
|---|---|---|
| `TracerProofs` | `TypeCorrect` | `TypeOK`, with the capacity of both buffers |
| | `DropAccounting` | `DropsAccounted` |
| | `FlushExclusion` | `FlushExclusive` |
| | `FlushingEmpty` | `FlushingEmptyBetweenFlushes` |
| | `WindowTiling` | `WindowsTile` |
| | `ConnectionOwnership` | `ConnectionsOwned` |
| | `ClosingIsFinal` | `ClosedForGood`, an action property |
| `SpanFateProofs` | `SpansHeldOnce` | `HeldExactlyOnce` |
| | `CloseLeavesNothing` | `CloseFlushes` |
| | `EncoderErrorAccounting` | `EncoderErrorsAccounted` |
| | `SentReceived` | `SentWereReceived`, if no report is split |
| | `DropsToldOnce` | `CollectorToldOfDropsOnce`, if no report is split |
| | `TracerImplementsSpanStore` | `ImplementsSpanStore`, if no report is split |
| `TracerEventsProofs` | `StatusInOrder` | `StatusReportsInOrder`, an action property |
| `SpanProofs` | `SpanTyped`, `SummaryExact`, `RecordedOnceForGood` | `TypeOK`, `LogsSummarised`, `RecordedForGood` |
| `PropagationProofs` | `RoundTrip` | `ParseUint` reads what `FormatUint` wrote |
| `TraceContextProofs` | `ContextsTyped`, `HandedOutStable`, `UnsampledStaysOut` | `TypeOK`, `ContextsStable`, `UnsampledNotRecorded` |
| | `TraceStaysConnected` | `TraceConnected` |
| | `BaggageArrives` | `BaggageInherited`, if lower case is idempotent |
| | `ExportConnects` | `ExportedConnected`, if the exported identifiers are not 0 |
| `RandomPoolProofs` | `DrawsAtomic` | `NumbersGivenOnce` |
| | `RoundsUpToPow2` | `nextNearestPow2uint64` gives the least power of two |
| | `PoolTyped`, `LoadEven` | `TypeOK`, `EvenLoad` |
| `SystemMetricsProofs` | `MetricsTyped`, `MetricsTile`, `DurationsCover`, `RetriesBounded` | `TypeOK`, `WindowsTile`, `DurationCoversWindow`, `SendGivesUp` |

**TracerProofs** begins with what each buffer operation does to the two counts and
to the capacity; `MergeFromCounts` is the main one: a merge respects the
capacity, adds the untold counts of both buffers, and adds exactly the spans it
could not move to the drops.

The inductive invariant `IInv` conjoins five properties, and the sum of the encoder
errors that were told, wait or were cleared (`EncoderErrorsTold`), with
two parts that make them inductive.  `RequestPending`: the goroutine that awaits an answer
has a part to take off the request.  `WindowsOrdered`: no window ends in the future,
without which the minimum and maximum that `mergeFrom` takes of two windows could be
the wrong ones.  The others also need each other: swapping the buffers preserves the
windows only if the flushing buffer is empty (`FlushingEmptyBetweenFlushes`); it
is empty only if no second goroutine is in flight (`FlushExclusive`); the counters
stay natural numbers only while no buffer has told more than it counted
(`DropsAccounted`).  There is one lemma per conjunct that goes through the actions
that can disturb it (`ControlStep`, `RestStep`, `LockStep`, `CountStep`,
`RequestStep`, `EmptyStep`, `WindowStep`), and `StepInv` combines them.

The last section is about connections (`ConnInv`).  Who owns one depends on where
`Close` is: `OneCloser` (the once lets one goroutine in), `CloserWaited` (it is past its
wait only when the report loop has returned, so nobody reconnects any more) and
`GivenUp` (the connection is taken away before it is closed).

**SpanFateProofs.**  `SpansInv` says where spans are: the two buffers share none and
hold none twice (`Apart`), the fate of a span in a buffer is still open
(`FateOfHeld`), and the meta span is recorded once (`MetaOnce`).  The work is in
`postFlush`, where `mergeFrom` moves some spans, drops others and keeps the order.
`CloseInv` follows the spans that were held when `Close` was called: they were recorded
before and are not recorded again (`ClosedOver`), and while the closer's own flush is
in flight none of them is in the buffer that records (`CloserTookAll`).

`ErrorsPerSpan` says that the errors counted are one for each span of `rejected` and one
for each repeat.  That one conversion counts a span once needs `Apart`: no buffer holds
a span twice.  With `EncoderErrorsTold` it gives `EncoderErrorsAccounted`.

What follows on delivery has a hypothesis on constants, `OnePart`: no report is split.
Two lemmas say when that is so: over HTTP (`HTTPNeverSplits`), and over gRPC if
a full buffer fits into a message (`SmallReportsNeverSplit`).  Without it the
properties are false, see `split`.  `DeliveryInv` follows a report: the request that
is under way holds the flushing buffer's spans (`Asked`), and an answer without an
error means that the collector got them (`Answered`).  `CollectorToldOfDropsOnce` then
is the sum that `DropsAccounted` speaks of, read on the collector's side.  The
refinement goes action by action: recording, the swap, the answer, the merge and
`Disable` are steps of `SpanStore`, and every other step of any goroutine is a stutter.

**TracerEventsProofs.**  With the events taken away a step of the composition is a step
of `Tracer` or none (`EventsRefine`), so that `IInv` holds here too.  `StatusInv` says
that every window that may still be told starts at or after the last one handed over:
that of the report in flight, that of the buffer while the tracer is not disabled,
and that of the one status report a goroutine may be emitting, while which no
report is in flight.  `preFlush` and `postFlush` are the two steps that move windows
(`Begins`, `Ends`), all others keep them (`KeepingSteps`); that the second `Flush` waits
for the events of the first (`flushReturned`) is used in `BeginStep`.

**Recursion and induction.**  The library's induction theorems take the induction
hypothesis as an operator, which no installed prover can instantiate.  Induction is
over a set of numbers instead: `LeastNumber` gives the least element of a set
(from `WFMin` of `WellFoundedInduction`), and `UpTo` says that a set with its base and
closed under successor holds every number up to the bound.  For a recursive function
the set holds the numbers up to which a function with its equations exists, or the
closed form is shown to satisfy the equations.

**SpanProofs.**  `bufferOf(m, t)` is in closed form what `t` records leave in a buffer of
`m`: all of them, or the oldest and then, from the place after the one written last and
round, the newest.  `AppendBuffer` shows that one more record takes it to
`bufferOf(m, t + 1)`, and `AppendedBuffer` that a call with several does.  `Rotates` is about
the loop of `FinishWithOptions` that turns the circular part in place by swapping:
after each round (`AfterRounds`) the slots done are final and the others hold what is left of the
rotation.  `SummaryOfBuffer` puts these together, and `SpanInv` says that the buffer
is `bufferOf` until `Finish` and its summary from then on.

**PropagationProofs.**  The value of the first `k` digits of a number is a quotient by a
power of the base (`FirstDigits`), so that reading all of them gives the number.
`B3RoundTrip` and `PeerTraceID` are the same for trace IDs that are cut in two halves,
padded, or written by another library.

**TraceContextProofs.**  Spans, maps and carriers have elements without types of their
own; `Shapes` says what they are.  Maps are only ever appended (`MapsGrow`), from which
`ContextsStable` follows; `DecisionCarried` follows the decision not to sample from
span to context, to carrier and back, and `HandedOn` the baggage.  `InjectWrites` and
`ExtractReads` are what the propagators do to both, for every stack.  `TraceInv` follows
the identifiers in the same way: a carrier holds, in each family of headers that it
has, digits that read as those of its origin (`CarriesIDs`), whichever family the reading
stack tries first; and no span and no origin has trace ID 0, which `newSpan` would take
for a missing one.
`LowerTwice`, that `ToLower(ToLower(k)) = ToLower(k)`, is needed for a context that
crosses two hops.  `ValidIDs`: for an OpenCensus span whose kept half of the trace ID
is 0, `newSpan` generates identifiers of its own, which connect to nothing.

**RandomPoolProofs.**  The invariant of the draws says who holds which mutex, that a
goroutine between reading and writing a generator's position holds it, and hence that
the position it read is still the current one.  It does not depend on how the pool picks.

That a word is the sum of its bits is shown by induction over the bits
(`SumsOfBits`, `BitsOfWord`), from which masking with `2^i - 1` is the remainder
by `2^i` (`AndIsRemainder`) and a right shift drops the low bits.  After the shifts by
1, 2, ..., `2^(k-1)` every bit is set that had a set bit less than `2^k` places above it,
so that in the end all bits below the highest are, and adding one gives a power of two
(`RoundsUpToPow2`).  `RobinInv` then needs no bits: the size divides the number of
words, so that the remainder goes round over the wrap of the counter too, and the
sources up to the one picked last have been picked once more than the others.

**SystemMetricsProofs.**  `Tiled` is `WindowsTile` with the base of the tiling.
`Sent` and `Punctual` relate the intervals that have passed to the time of the last
sample; `Punctual`, that the loop takes each tick before the next one is due, holds for the
frequencies with `measurementFits`, since `Slept`, which bounds the time slept by the
doubling multiplier, shows that such a measurement never overruns (`NoOverrun`).  The
fraction of a second that `wholeSeconds` cuts off is put back in `CutSeconds`.

**Checked by TLC only.**  Liveness under fairness (`FlushReturns`, `CloseReturns`,
`SpansLeave`, `CallsReturn`, `StopsWhenDisabled`), which the prover cannot express, and the
five properties that the code violates.

## 5. Where the code does not do what it says

1. `split`: `SplitByParts` (`collector_client.go:59`) copies a struct whose
   protobuf request is a pointer; all parts carry the last slice, the others are
   never sent and are counted as sent.
2. `close_disabled`: the report loop of a disabled tracer returns without closing
   the channel `Close` waits on (`tracer.go:519`).
3. `close_in_use`: "now its safe to close the connection" (`tracer.go:270`), but
   another goroutine's report may be using it; the same after a reconnection.
4. `b3_sampled`: `b3Propagator.Inject` (`propagation_b3.go:53`) never reads the
   context's sampling decision and writes "1"; children of an unsampled span are
   recorded by the process that reads the headers.
5. `metrics_close`: the channel that should stop the metrics loop is never made.

Seen while modelling, and followed by the models where they reach:

- `droppedSpanCount` is said to grow until it is "attached to a report that doesn't return
  an error" (`report_buffer.go:15-17`), but a translation error clears it with the spans
  (`tracer.go:452`), as does `Disable`: the collector never hears of those drops.
  `CollectorToldOfDropsOnce` therefore says that no drop is told twice, and that all are
  told or kept as long as nothing was given up in this way (`forfeited`);
- `logEncoderErrorCount` is said to be "the total number of spans that have been rejected because
  of a log encoder error" (`report_buffer.go:27-28`).  No span is rejected: it is sent with a placeholder for the
  value.  The count goes up once for each value (`proto_logencoder.go:116`; in the
  model a span has at most one such value), and again each time that the span is converted
  after a failed report.  `EncoderErrorsAccounted` therefore says that the count is at least
  the number of such spans, and exactly that number while none was converted again;
- the duration of a metrics report cuts the measurement frequency, which is an option
  (`options.go:119`), to whole seconds (`internal/metrics/reporter.go:134`, `188`): with 1.5
  seconds each interval is stated as one, below one second every duration is 0 and no
  window is ever too long to be sent.  `DurationCoversWindow` allows for the fraction.  It
  is stated for frequencies of more than two seconds and four times the timeout
  (`measurementFits`): with shorter ones ticks are dropped while a measurement sleeps, the
  loop counts too few intervals, and the duration is understated by whole periods;
- `formatTraceID` (`propagation_b3.go:37`) writes the halves of a 128-bit trace ID without
  padding, so that they read as another ID unless the lower half has all its digits, and a
  child keeps only the lower half (`span.go:56`).  `TraceConnected` is about trace IDs
  without an upper half;
- `RecordSpan` takes only "false" as not sampled (`tracer.go:290`): a span under a context that a text
  propagator read with a sampled header of "0" is recorded, and `UnsampledNotRecorded` does not
  speak of it;
- the collector's dev mode command sets a flag that nobody reads (`tracer.go:82`,
  `Respond`);
- `FinishWithOptions` keeps the logs it is given in spite of `DropSpanLogs`
  (`options.go:172`, `Span`);
- `b3TraceIDParser` (`propagation_b3.go:25`) reads 15 of the 16 digits of a trace
  ID's upper half (`Propagation`);
- the metrics status event "occurs every time metrics are sent successfully"
  (`events.go:176`), but it is emitted after failures and too long windows as well;
- an event handler of the application that calls `Flush` waits for the lock that
  its own goroutine holds (`tracer.go:373`);
- the options are a copy (`options.go:227`), but the `Tags` map in them is shared
  with the caller;
- the retry of a metrics report sends a request whose body was read by the attempt
  before (`internal/metrics/reporter.go:221`);
- methods of `LockedRand` whose generator panics on a bad argument leave the mutex
  locked, as they unlock without a `defer`;
- an OpenCensus span with a child link moves to the trace of the link and leaves
  its own children behind (`lightstepoc/exporter.go:59`).

## 6. Not modelled

- The wording and encoding of requests, events and headers; TLS, access tokens,
  dial options; the tracer's attributes and hostname.
- `meta_events.go` and the meta spans other than `tracer_create`, which is a span
  like others and modelled because `Flush` records it after the swap.  It is
  recorded through the global tracer, here taken to be this one.
- The optional `Recorder` of `RecordSpan`, which belongs to the application.
- Data races other than their outcomes: `disabled` read without the lock by the
  metrics loop, encoder errors counted without the lock into a buffer that only
  the flushing goroutine touches.
- Text carriers with two headers that differ only in case.  `Extract` counts the
  headers it recognises (`requiredFieldCount`, `propagation_text.go:67-100`), so that two
  spellings of one field would stand in for a missing one; the carriers of the model
  have each field at most once.
- The second delivery of metrics whose answer was lost: `acked` holds the windows that
  `Measure` knows were accepted.
- Carriers of the wrong Go type and unsupported formats, which are refused; the
  base64 and protobuf encodings of the binary carrier.
- Options: reading and validating a record; the other modules take as parameters
  the values they lead to.  Of `tracer_helpers.go` the `Flush` and `Close` helpers are
  calls of the tracer; those that read a value are left out.  The truncation of keys, values and logs in the
  encoder: it shortens data that no property looks at.
- `Seed` of the pool and of `LockedRand`, which is documented as not concurrent with
  the other methods; what `math/rand` computes.
- The exporter's conversion of annotations, message events and attributes.
- Event handlers that the application writes.
- Commands, examples, fakes, generated protobuf and thrift code.

## 7. Plan

Done: (1) `ReportBuffer`, `ReportRequest`, `Tracer` with `Close` and reconnection,
`SpanStore`; (2) `Span`, `SystemMetrics`; (3) `Propagation` and `TraceContext`;
(4) the proofs of section 4; (5) `EventHandlers` and `TracerEvents`; (6) the random
pool; (7) the OpenCensus exporter.

(8) the proofs about connections, the fate of spans, delivery and the refinement,
the metrics loop, the draws of the pool, contexts, baggage and the exporter;
(9) the proofs about digits and traces, the log buffer, the rounding and the round robin
of the pool, and the order of the status reports.

Next:

1. That no step but the report loop's reconnection and `Close` closes a connection that a
   report uses: what remains true of `NoReportOnClosedConnection`.
2. `SentWereReceived` for split reports, restricted to the part that the code does send.
3. What a 128-bit trace ID keeps on its way (its lower half), as a theorem beside
   `TraceStaysConnected`.
