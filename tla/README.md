# Verification of sederial

sederial is a DNS forwarder: it receives queries over UDP and TCP, selects a
group of upstream servers (or a local record) by the longest matching suffix,
forwards, and relays the answer. This directory models its concurrent and
stateful core in TLA+, checks the models with TLC on small instances and proves
their invariants with TLAPS for every value of the constants.
Source paths below are relative to `src/src/`.

## The system

| Component | State | Operations | Interacts with |
|---|---|---|---|
| worker pool, `server/pool.rs` | job queue and `closed` under a mutex, a condition variable, the atomics `stop` and `failed`, the completion channel, `pending` | `new`, `submit`, `close`, `shutdown`, `drop`; the worker loop and `next_job` | one listener thread owns each pool; `stop` is shared by the whole process |
| service, `server.rs` | the two sockets, two pools, the completion channel of the TCP listener, the shutdown deadlines | `run`, `receive_udp`, `accept_clients`, `serve_tcp` | submits to the pools; a wake connection ends `accept`; signals store `stop` |
| forwarder, `upstream.rs` | one cached TCP stream, the entropy source; per request the walk over a group, the deadlines, the query in flight | `forward`, `finish_badcookie`, `udp_exchange`, `tcp_exchange`, `expire_idle` | owned by one worker; upstream servers; `stop` |
| framing and deadlines, `transport.rs` | offsets inside a frame | `Deadline`, `read_frame`, `write_frame` | used by `serve_tcp` and the forwarder |
| logging, `logging.rs` | two bounded channels, the writer thread, its `stop`, the warning window | `info`, `error`, `warn`, the writer loop, the guard's `drop` | every thread emits, `main` flushes |
| routing, `routing.rs`, `config.rs` | the listener's address, groups of endpoints, two sorted lists of rules | `Config::parse`, `UpstreamGroup::new`, `RoutingTable::new`, `select` | built once, then shared read-only |
| request handler, `forwarding.rs` | none besides its forwarder | `respond` | composes parsing, routing, forwarder and replies |
| DNS messages, `dns/` | none | parsing, validation, cookies, replies | pure functions of the bytes |

What is hard to test here: the hand-over of jobs between threads that sleep on
a condition variable while `stop` is set outside the mutex; shutdown with stuck
workers, a listener that nothing wakes, and two overlapping deadlines; panics at
every point; streams reused across requests with IDs that may repeat; chains of
truncation, cookie challenges, reconnections and fail-over under one deadline;
frames cut anywhere by the network; what may be said to a client whose message
did not parse, and how long and with which code; the last log line of a process
that is about to exit. `PROJECT.json` lists these
hazards at their lines, with the properties that cover them.

## Modules

- `JobDelivery` — what a pool promises its listener: a job is accepted or
  refused, an accepted one is run at most once or, after `stop`, discarded, and
  the verdict of shutdown is truthful.
- `Pool` (`MCPool`) — the pool. One action per critical section or atomic access:
  `submit` is a step under the mutex and a separate `notify_one`; `next_job` is
  split where a worker holds the mutex after it found the queue empty, because a
  panicking worker stores `stop` and notifies without the mutex; a worker's last
  look at `stop` and the start of its handler are two steps, between which the
  queue may be closed; the tail of the
  thread (store `failed`, store `stop`, notify, send completion) is one step
  each. Spurious wake-ups, time-outs and panics in `maintain`, `handle` and the
  drop of the worker may happen at any time. A poisoned mutex is unreachable,
  since nothing can unwind while it is held. `fate` and `panicked` are history.
- `Service` — `Server::run` over two pools of which it knows only `JobDelivery`:
  start-up and its failures, `receive_udp`, the accept loop, the wake
  connection, both shutdown deadlines, the combination of the results.
- `Forwarder` (`MCForwarder`) — one worker's forwarder: the walk over the group,
  both exchanges, the cookie retry, the cached stream. A response is reduced to
  code, cookie, TC, ID and whether it parses and matches otherwise. Servers
  answer late, never, with any ID, code and cookie, or hang up. On a stream they
  send at most one frame for each they get and none unasked, which
  `AnswersThisQuery` and `CachedStreamClean` rest on: the code could not tell an
  unasked frame with the right ID and question from the answer. Datagrams are
  arbitrary; there a response that matches is the answer.
- `Logging` — the lanes, the writer, the flush.
- `WarningWindow` — the rate limit of `warn`.
- `Upstreams` — addresses as they are written (spelling, scope, port or none),
  the endpoints made of them, and groups of endpoints.
- `Routing` (`MCRouting`) — `Config::parse` in its order: listener, default group,
  routes, local records; refusal of duplicates, sorting, `select`, with labels
  compared without regard to case. The group of a route is checked by the same
  `ParseGroup` as the default group.
- `Session` — `serve_tcp` with `read_exact`, `read_frame` and `write_frame`: each
  step is one socket call that moves some bytes, or its failure. The client sends
  any bytes, shuts down or resets; `respond` replies or not before its deadline.
  Lengths are two digits of a small base.
- `NameDecode` — `DomainName::decode`: its loop as a function of its local
  variables, octets of four tags and a small value; beside it a definition of the
  same names, the walk from offset to offset, that knows neither visited targets
  nor a moving cursor.
- `Message` — the fields of a message that are told apart, `validate_query`,
  `udp_limit`, cookies in OPT, and the replies made here with code and length.
  An `Option` is a set with at most one element.
- `RequestHandler` (`MCRequestHandler`) — `respond`: the parser reads the request
  record by record, choosing it as it goes, keeps question and OPT for a possible
  FORMERR, then validation, selection, forwarding, truncation or relay, and the
  last look at deadline and `stop`. Parsing takes no time, so ticks and `stop`
  happen where the code looks at them.
- `PoolProofs`, `ServiceProofs`, `SessionProofs`, `ForwarderProofs`,
  `RequestHandlerProofs` (with `NameDecode`), `RoutingProofs`, `LoggingProofs`
  (with `WarningWindow`) — the theorems about each module; `SequenceFacts` — what
  several of them need of sequences and of induction.

`Service` instantiates `JobDelivery` twice and `Pool` is shown to implement it,
so what `Service` shows rests on the pool as it is. `RequestHandler` uses of the
forwarder what `forwarder_safety` and `forwarder_live` check (responses are
validated, it returns, cancellation only after `stop`), of routing that some
selection is made; `Session` uses of `respond` that there is no reply after the
deadline, which `AnswersEveryQuery` implies.

## Runs

| Run | Shows | Instance |
|---|---|---|
| `pool_safety` | ownership of jobs, no lost wake-up, nobody sleeps after close, Ok is the truth, joins do not block, after close only workers already past their last look at `stop` start a handler, every step one of `JobDelivery` | 3 workers, queue of 2, 3 jobs |
| `pool_live` | shutdown and drop return with workers that hang for ever; if handlers return, accepted jobs leave the queue and a panic ends every thread | 2 workers, queue of 1, 2 jobs |
| `forwarder_safety` | what `forward` returns, which answers it accepts, what it sends, when it ends | 2 servers, 2 IDs, cookies of two lengths |
| `forwarder_live` | every call returns | 2 servers, 1 ID, 1 cookie |
| `forwarder_id_failure` | finding 1 (violation) | |
| `logging_lanes` | lanes are bounded FIFOs; if stderr takes lines, lifecycle lines get through; the flush ends on a blocked stderr | 2 lifecycle lines in a lane of 1, 3 routine lines in a lane of 2 |
| `logging_flush` | finding 2 (violation) | |
| `warning_limit` | accounting, the limit that holds | burst 2, interval 3, clock and calls to 10 |
| `routing_select` | accepted groups name distinct places and never the listener, whatever the spelling; `select` is the most specific rule, by an independent definition that walks up the query name | 13 written addresses, lists of up to 3 for groups of at most 2; names of up to 2 labels, 3 rules |
| `session` | no byte of a frame lost or used twice, replies whole and in order, a bounded time per frame, the worker gets free | 8 bytes, lengths of 0 to 3, headers of 2, replies of 2 and 3 bytes |
| `request_handler` | names decode right; who gets no reply; what local replies may contain; extended codes survive; datagrams fit | names in up to 3 pieces or 4 chained pointers, 2 records, 2 ticks |
| `service_shutdown` | shutdown is truthful, bounded and orderly if possible; trouble ends `run` | timeout of 3 ticks |

Bounds. Three workers are needed for two sleepers beside a woken worker, and a
queue of two for a second `notify_one` before the first sleeper has run; three
jobs also fill it and are refused. Two servers in a group show fail-over and a
stream cached for the other server; two IDs, one of them repeated, confuse a
late answer with a new one; two cookie lengths separate rewriting in place from
the TCP fallback; the request timeout is longer than one attempt and shorter
than two, so that the second is capped. Eight bytes are two of the shortest frames, or one of the longest and a
part of another. For names, the octets inside labels also read as tags, so that
a pointer into a label meets every case, and chains of pointers reach one more
than allowed; header, name limit and tags are scaled down together (1, 5, 4
instead of 12, 255, 64), as are the UDP limits: the largest local reply of the
instance just fits the smaller one, which `MessageAssumption` also demands of
the real numbers. Response lengths lie on both sides of both limits. Two records
are an OPT and another in either order, or two OPTs. The addresses are
two IPv4 hosts in both spellings, one IPv6 host on two links, three ports with
the missing one, and three that are no endpoints. In `warning_limit` ten calls in ten
ticks span more than two windows. Time is in ticks; a tick is longer than
`IO_POLL`, so polled waits notice `stop` within it. Symmetry is used for
workers, jobs and IDs only in runs without liveness properties.

Fairness. Threads are scheduled, blocking calls with a timeout time out, and
time passes. The stronger assumptions are premises of the properties that need
them: that handlers return (`WorkersProceed`, the contract of `trait Worker`) in
`AcceptedJobLeavesQueue` and `PanicStopsPool`, that stderr takes lines
(`StderrAccepts`) in `ImportantLineWritten`. `ShutdownReturns`, `DropReturns`
and `TroubleEndsRun` do without. `ReleasesWorker` assumes that the worker runs
and the clock advances, and nothing of the client; that `respond` returns is
`ForwardReturns`. The bound on the client's bytes stands for a client that stops
sending complete frames: one that goes on may keep its worker, by design. No server has to answer, no client has to
connect, no socket has to fail. The owner of a pool calls `shutdown` after
`stop`, which is what both listener loops do.

## Proofs

All proofs are checked by TLAPS from the named assumptions on constants. These
ask only for what the code has: finitely many workers and at least one
(`PoolAssumption`), positive timeouts, burst and interval, groups that are
non-empty sequences of servers (`UpstreamGroup::new` refuses an empty one),
messages that are sequences of octets and at least as long as a header, lengths
that are naturals, written addresses that are IPv4 or IPv6 ones, with a scope only
in the latter, or no addresses at all (`AddressAssumption`), and limits between which the largest local reply fits
(`MessageAssumption`, 326 and 512 octets in the code). TLC evaluates them on
every instance. In the table, "invariant" is the inductive one, which TLC also
checked on the instance of the run before it was proved.

| Module | Theorems about | Invariant |
|---|---|---|
| `PoolProofs` | `TypeOK`, `JobOwnedOnce`, `NoSleeperAfterClose`, `OkMeansCleanStop`, `NotDrained`, `NoLostWakeup`, `JoinNeverBlocks`, `ImplementsDelivery` | `Inv`, `Counted`, `LookedAndSawNothing` |
| `ServiceProofs` | `OkMeansAllDown`, `ShutdownBounded`, `OrderlyIfPossible` | `Inv` |
| `SessionProofs` | `FramesInOrder`, `RepliesWhole`, `ExchangeBounded` | `Inv` |
| `ForwarderProofs` | `ForwardOutcome`, `AnswersThisQuery`, `CachedStreamClean`, `DeadlineKept`, `CancelledInTime`, `SendsBounded`, `NoCookieDowngrade` | `Inv` |
| `RequestHandlerProofs` | `AnswersEveryQuery`, `LocalReplySafe`, `CodeSurvives`, `ReplyFits`, `DecodeCorrect`; that `decode` ends | `Inv` |
| `RoutingProofs` | `GroupsSound`, `SelectsMostSpecific`; that the sort is a stable permutation | `GroupInv`, `TableInv` |
| `LoggingProofs` | `LanesInOrder`; `Accounted`, `WindowsDisjoint`, `SpanBound` | `Inv`; `WindowInv` |

*Pool.* `JobOwnedOnce` and `OkMeansCleanStop` are not inductive. `Inv` adds `Hands` (a worker holds a job exactly between popping and
finishing it), `Closing` (what is true from each point of `close` on; in
particular that a closed queue is empty and the mutex is not held by somebody
about to sleep), `Blame` (a panic is recorded in `failed` or its thread has yet
to record it) and `Joined` (after the joins nobody is left to set `failed`).
Each part has its own step lemma; `PoolInvariant` combines them and the
properties follow. `NotDrained` needs of it that a closed queue means `stop`, so
that no further worker passes its last look; one that has passed it may start its
handler at any time, also after `close`. Two properties count threads. `Counted` is the balance of the
completion channel: what `shutdown` expects is the messages in it plus the
threads that will still send one, so that with nothing left to expect every
thread has sent, and a join does not block. `NoLostWakeup` becomes inductive
with `LookedAndSawNothing`: whoever holds the mutex on the way to sleep has seen
an empty queue, and `submit` cannot have changed that. `PoolImplementsDelivery`
shows that every step is one of the contract or a stutter: popping is invisible,
the second look at `stop` is where a job begins or is discarded (that its
handler starts later is invisible too), and a thread
that can still panic has not been joined, so that a verdict of ok is never
contradicted later.

*Service.* Time stands still while `main` can move, so from the moment it starts
its clock the time since `stop` and the time left add up to the timeout
(`MainPlace`), and the listener's clock starts no earlier (`ListenerPlace`). A
verdict of timeout therefore means that the whole timeout has passed, and
workers that end after it are on record as late (`Reports`).

*Session.* The bytes sent and the bytes received are compared as sequences, cut
at arbitrary places by reads and writes. `FramesInOrder` and `RepliesWhole`
enter the invariant with what each place of the loops knows of its buffer, and
with `Budgets`: the time spent on a frame and the time left never exceed the
budgets together, which is `ExchangeBounded` when nothing is left.

*Forwarder.* `Synchronised` is the heart of stream reuse: at each place of an
exchange, what the stream in hand may still carry; a stream gets into the cache
only from the place where it carries nothing, and every other way out drops it.
From it follow `CachedStreamClean` and, since an answer read on a synchronised
stream belongs to the only query on it, `AnswersThisQuery`, no matter whether
IDs repeat. `Clocks` orders the three clocks, `Budget` counts sends by stage,
`Challenges` says from when a server cookie is demanded, and `Walk` relates the
servers tried to the place in the group and to the latest failure, so that
`ForwardOutcome` can be read off when `forward` returns.

*Request handler.* What a reply may be depends on things read several steps
earlier. `Stages` and `Solicited` keep what is known of them: past the parser
the query is intact, a response corresponds to it. `Due` says that what is about
to leave is not made up for a client with a server cookie. Every way to make a
reply is then shown to make a `Sound` one. Its length needs that the name of the
question is within the limits, that is, that `decode` ends: its loop is a
recursive function, for which `LoopExists` shows that the equation has a
solution at all (the value where the loop ends, anything where it does not), and
`DecodeEnds`, by induction over what is left of name length and pointers, that
it ends on every message with a result within the limits.

*Names.* `DecodeFollowsWalk` is `DecodesWell` for every message, offset and limit.
While the loop goes on, it is where the walk is after as many steps, with the
labels and the pointers that the walk has passed and the cursor behind the first
pointer (`Tracks`, kept by `PointerTracks` and `LabelTracks`). `StepKinds` lists
how it can stop. At a root octet the walk ends too. A refusal (`Blocked`) is for
a reason that stays: the pointers and the length of a name only grow along a walk
(`WalkGrows`), so no legal end lies further on. A target seen before makes the
walk repeat itself, so it has no end at all (`WalkReturns`): no name is
blamed for a loop that it does not have. That the reference need only look
`Len(wire)` steps far is proved as well: a walk that ends passes no offset twice,
and there are only `Len(wire)` offsets (`WalkShort`, by the pigeonhole principle).
`NamesAreDecoded` applies this to what the parser reads.

*Routing.* Two endpoints at the same place are equal, so that comparing endpoints
is enough to find duplicates (`PlaceIdentifies`): this needs that the addresses
kept are canonical, mapped IPv4 addresses in particular. `GroupInv` says that a group
is what `ParseGroup` made of its list and of the listener, for which
`ParsedGroupSound` holds. For `select`, the sort is first shown to be a
permutation: the rank of a rule (how many are longer, or as long and before it)
is injective and thus, on a finite list, surjective. In the sorted list the first
match is as long as any match; two rules that match at one length have the same
labels up to case, which `RoutingTable::new` refused in either list and across
both (`TableInv`). So what `select` finds is the only entry at the level where the
reference stops.

*Logging.* A line is in the channel, in the writer's hand or written; the two
lanes pass each other only in that hand, so the invariant follows the lane of
what is written together with what is in hand.

*Warning window.* `Link` says that the last `emitted` warnings written are those
of the current window. With it `WindowsDisjoint` is inductive. `SpanBound`
follows: a warning is the first of its window, then BURST places further another
window has begun, INTERVAL later; or it shares it with its predecessor, then
2 * BURST - 1 places further lies the next window but one.

*Induction.* The induction theorems of the library take a predicate as a
parameter, which the provers cannot instantiate. Where induction is needed
(`FlattenSeq` in `SequenceFacts`, the loop of `decode` and the walk it follows),
the proofs take the least counterexample instead (`LeastNatural`, from
well-foundedness).

Only model-checked: the liveness properties, since fairness and ENABLED are
outside TLAPS as used here (`ShutdownReturns`, `DropReturns`,
`AcceptedJobLeavesQueue`, `PanicStopsPool`, `ForwardReturns`,
`ImportantLineWritten`, `TroubleEndsRun`, `ReleasesWorker`). Every invariant that
a passing run checks, and the refinement of `JobDelivery`, is also a theorem.

## Findings

1. `upstream.rs:113`: the documentation of `forward` promises that failure to
   obtain a transaction ID aborts; when it happens in the cookie retry the walk
   continues with the next server.
2. `logging.rs:43`: the fatal error line can be lost although the flush ended in
   time, when it is sent between the writer's poll of the important lane and its
   load of `stop`.

Also noted: `logging.rs:124` says at most twenty warnings per five seconds, but
the limit is per window: up to 39 can fall into one span of five seconds, and not
more (`SpanBound`, proved as `BurstLimit`). `server.rs:143` logs "shutdown complete" when the TCP side ended
well, whatever the UDP workers did; the result of `run` is nevertheless right
(`OkMeansAllDown`).

## Status

All components that keep state or decide something are modelled and checked. The
invariants and the refinement are proved, the liveness properties rest on the
instances of the runs. A change of the code that alters a mapped definition is
first tried with the run of its module, then with the proofs: the invariant of
the table above is where a new field or a new place of a loop has to be entered.

## Not modelled

- Argument parsing and startup messages (`main.rs`): straight lines without state.
- The TOML syntax and the types of its values (the toml crate and `required_string`):
  one error among others in `BadEntry`.
- `DomainName::from_str`, `Display`, error texts, log lines: presentation.
- The bytes of replies and of a rewritten cookie, beyond their lengths and the
  decision between rewriting and TCP; the layouts of record data, of which the
  parser only learns whether they are well formed.
- A second question: the parser reads it only for other opcodes, which are
  answered NOTIMP whatever it says.
- Packaging and release scripts.
