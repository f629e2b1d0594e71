# Verification of the AUEC reference runtime and gateway

This directory specifies the concurrent, durable and ordering-sensitive parts of the AUEC reference
implementation (`src/reference-runtime`) in TLA+, checks the specifications on small instances with TLC, and proves
the properties that matter most for every instance with TLAPS. `PROJECT.json` relates every definition that models
code to the lines it stands for, and lists runs, mutants, findings, hazards and theorems.

Contents: 1 the system, 2 the modules, 3 the runs and their bounds, 4 fairness, 5 what the runs found,
6 the proofs, 7 what is only model-checked, 8 what is not modelled, 9 the plan.

## 1. The system

AUEC executes *manifests*: acyclic graphs of pure operations over classified resources, under the policy of the host.
A runtime (`aiew_uc`) validates and executes them, seals the result with a chain of receipts, and can keep results in
an SQLite file. A gateway (`aiew_gateway`) offers the runtime and a set of fixtures over HTTP as an MCP server (legacy
and modern revisions) and as an A2A agent (JSON-RPC and REST).

| Component | State it keeps | Operations | Hard behaviour | What makes it correct |
|---|---|---|---|---|
| A2A task store, `core.py` 1327-1867 | `_tasks`, `_task_inflight`, `_task_id_sequence`, one `RLock` | SendMessage (create, replay, follow-up), GetTask, ListTasks, CancelTask | one thread per connection; work between two critical sections; single flight of an idempotency key; failing and late creators; pages cut anew on every call | one execution per key; a key keeps its first binding; answers agree with it; no waiter is lost; a terminal task stays terminal; accepted messages stay; a walk over the pages misses nothing that did not change |
| MCP requests to the client, `core.py` 1161-1256, `server.py` 1032-1181 | `_mcp_sessions`, `_mcp_pending`, `_mcp_request_counter` | initialize, DELETE, streaming tool call, posted response | a tool call blocks while its answer comes on another connection; sessions end, streams break and waits time out meanwhile | an answer reaches the call that asked, once, from the session it was asked of; nobody sleeps on a request that is gone |
| MCP list-change subscriptions, `core.py` 479-534, `server.py` 959-1030 | `_mcp_stream_subscriptions` and a bounded queue each | listen, publish, close | publication to a snapshot; full queues; broken streams; a deadline under load | queues stay bounded, subscriptions are closed, a change is not missed |
| MCP input-required tools, `core.py` 397-477, 536-685 | none: a signed token tells the round | tool calls of several rounds | rounds repeated, skipped, crossed between tools or lost on the way | a round is only reached through the one before; a client that answers what it is asked finishes |
| MCP tools, resources, prompts | log level, resource subscriptions (written, never read) | list, read, get, call | none | - |
| Order of a manifest's nodes, `model.py` 172-215 | local: in-degrees, heap | Kahn's algorithm | boundary of the counts; cycles; determinism | references run first; cycles are reported exactly; the order depends on the graph alone |
| U0 execution, `model.py` 218-375, `runtime.py` 231-374 | local: outputs, total output, receipts | validate, order, run each node, egress, seal | classes flow over chains of nodes; two sets of budgets; failure after part of the work | nothing classified too high is exported; the host's bounds hold; every outcome is a sealed result or a rejection |
| Receipts and verification, `runtime.py` 317-374, `verification.py` | the result itself | seal, `verify_result` | the chain and three digests that bind each other | sealed results verify, damaged ones do not |
| Durable store, `store.py`, `cli.py` | an SQLite file | open and migrate, `execute_once`, `verify` | processes that race for the file and are killed at any statement | one result per manifest identifier, told only once it is durable |
| HTTP front end, `server.py` 116-377, 839-850, 1184-1780 | per connection: the unread bytes, the request being handled, `close_connection` | receive, gate, read or drain the body, check, operate, answer, stream | requests sent before the last one is answered; bodies that stay away, or are left unread; answers that cannot be encoded or written | every kept connection starts at the head of a request; answers in order; an effect only after every check, and told |
| Authority predicate, `authority.py` | none | one pure predicate | none | it authorizes what the repository's enumeration expects; a consent is for one action |
| U0 operations, canonical JSON, bindings | none | pure functions | none | they compute what they say |
| Source offer, release scripts | none that outlives a run | report | none | - |

How they interact. The HTTP server gives every connection a thread; all threads share one `GatewayState`, whose lock
guards each dictionary but is released between the steps of one request. SendMessage and the tool
`aiew.execute_manifest` call `UniversalRuntime.execute`, which keeps all state in locals, so executions do not disturb
one another. The command line calls the runtime directly or through `DurableExecutionStore`, whose processes share
nothing but the file. The gateway keeps nothing across a restart.

The hazards that follow from this, each at its line and with the properties that would catch it, are in
`PROJECT.json`.

## 2. The modules

| Module | Role | Code |
|---|---|---|
| `A2ATasks` | the task store under concurrent handlers | `core.py` `send_message`, `cancel_task`, `_build_generic_task`; `server.py` `_handle_a2a` |
| `TaskListing` | extends it with times, the order of the dictionary and a client that walks pages | `core.py` `_next_task_timestamp`, `list_tasks` |
| `IdempotentCreation` | abstract: what an idempotency key promises | - |
| `ExecutionStore` | processes over one SQLite file, with kills | `store.py`, `cli.py` |
| `DurableOnce` | abstract: a durable once-only record | - |
| `ManifestOrder` | the order of the nodes | `model.py` `_extract_node_refs`, `_topological` |
| `Receipts` | receipts, sealed results, `verify_result` | `runtime.py`, `verification.py`, `canonical.py` `digest_json` |
| `U0Execution` | one execution, composed of `ManifestOrder` and `Receipts` | `model.py` `validate_manifest`, `runtime.py` |
| `McpClientRequests` | requests to clients and their answers | `core.py` 1161-1256, `server.py` 1032-1181 |
| `ReplySlots` | abstract: numbered slots filled by their owner, told once | - |
| `McpSubscriptions` | subscriptions, their queues and publications | `core.py` 479-534, `server.py` 999-1030 |
| `McpInputRounds` | the rounds of the input-required tools, their clients and the network | `core.py` 397-477, 536-685 |
| `HttpConnection` | one persistent connection and its thread, over all routes | `server.py` 116-377, 839-850, 1184-1780 |
| `Authority` | the authority predicate, with its theorems | `authority.py`, `run_bounded_models.py` 116-126 |
| `MC...` | small instances for TLC | - |
| `..._proofs` | theorems and their proofs | - |

**State and actions.** A variable carries the name of the attribute it models, or a comment names it. Where threads
run concurrently, one action is one critical section of `GatewayState._lock`, or a stretch of code between two of them
that touches nothing shared; the thread's place in its handler is `pc`, and what it holds in locals are per-thread
variables. In `ExecutionStore` an action is one SQL statement, and `Crash` may come before any of them.
`U0Execution` and `ManifestOrder` are sequential; their actions are the stages and loop bodies of the code.

**A2ATasks.** `TakeSequence`/`StoreFresh` are the keyless create; `FindTask`, `ClaimKey` and `JoinKey` are the three
outcomes of the first critical section under a key (the task exists, nobody is creating it, somebody is); `Build`,
`Publish` and `Release` are the creator's way, with the `finally` clause in every path; `WaitTimeout` and `ReadPublished`
are the waiter's; `ReadForAppend`/`StoreAppend` and `ReadForCancel`/`StoreCancel` are the read and the write of the two
updates, which the code makes in separate critical sections. `GetTask` changes nothing and is covered by what the
responses are compared with. A task is its request, context, state and accepted follow-ups; digests are injective.

**TaskListing.** `Handle` is a step of a handler of `A2ATasks` together with the time it stores. The code reads the clock outside
the lock, so that time is any reading between the section that gave the handler its number or its copy (or the begin of its
build) and the section that stores (`Times`). `Tick` is the wall clock, which is assumed not to be set back although
`core.py` 1467 reads `datetime.now`; `BeginWalk` and `ListTasks` are the calls of a client that passes on
the offset it was given. The clock moves on its own, so two changes may carry one time. A page is described, not sorted:
the tasks whose `Position`, counted with `Before`, lies in it.

**ExecutionStore.** `Open` starts a process under a policy of its own; `CreateTable`, `InspectColumns` and `AlterTable`
are the schema set-up, each a transaction by itself; `BeginImmediate`, `Lookup`, `Execute`, `Insert`, `Commit` and
`Return` are `execute_once`; `ExecuteUnstored` is a manifest without an identifier; `BusyTimeout` is the wait for a
lock that SQLite gives up. A file may hold rows that an older version left without a digest; `Verify` reports them as
tampered with (`VerifyTellsOrigin`). SQLite is taken at its word: one writer, atomic and durable commits, rollback when the
connection goes. What a manifest's execution yields is any status its policy allows.

**U0Execution.** A node's value is abstracted to the set of resources it was computed from: an operation sees its
resolved inputs and nothing else (`Resolved`, `ValueOf`), which is all the rules on classification are about. What an
operation rejects and how long its output is are data of the manifest. Checks that do not interact with anything
else are a manifest's `defect` and a node's `flaw`; the checks that do (operations, placements, epistemic kinds, both
budgets, references, classes, egress) are spelt out. The wall-clock budget may run out before any node.

**McpClientRequests.** `Call` is the lookup of the session when the tool call arrives; `CheckSession` and `AddPending` are the
two critical sections of `create_mcp_client_request`; `WaitTimesOut` and `Expire` are the two steps of a time-out, and
`WaitReturns` and `Collect` those of an answer. `Resolve` is a posted response, for any request number under any
session identifier. `Initialize` and `Unregister` happen at any time.

**McpSubscriptions.** `BeginStream`, `Acknowledge` and `WriteHint` may each break; `Expire` is the clock. `Publish` takes
the snapshot and `Put` serves one subscriber of it, so that subscriptions come, go and drain in between. A wait of the
queue that returns empty changes nothing and is a stutter.

**McpInputRounds.** The gateway has no variable of its own: `ToolAnswer` is the whole handler, a function of the call.
`issued`, `answered` and `completed` are what has been seen from outside, and the properties are about them. Tokens are
pairs of a tool and a round: their secret is a constant and they do not expire. `ServeAnother` lets any other client send
any answers with any token that was seen, so a replay, a skipped round and a token of another tool are all there.

**HttpConnection.** A route is a record: what it looks at before the body (`gate`), what it does with the body, the checks it
makes then, in their order, and how it goes on. One table per method and protocol lists the routes, so that a check that is
missing, or comes after the operation, is one entry. A request is its route, the framing of its body and the set of checks it
would fail. `Gate`, `SkipBody`/`DiscardBody`/`ReadJson`, `Pass`/`Reject`, `Operate`/`FailOperation`, `Reply`/`RefuseRoute` and
`BeginStream`/`EndStream` are the stretches of a handler between two effects on the stream; `Finish` is every answer, with
the two ways in which it raises instead (the client is gone, or the id that is echoed cannot be encoded). A client reads, has
stopped reading (`StopReading`), or is gone; a write to one that has stopped reading may return, because buffers have room, or
never return (`MayBlock`). A result that repeats arguments which cannot be encoded is refused after its operation (`Reply`);
the operations that repeat any only read. `ReadJson` refuses a body that cannot be parsed, or is ended by what `json.loads` raises
besides `JSONDecodeError` (a body nested too deeply, a number with too many digits). `Receive`, `Misread` and
`EndOfInput` are the loop of `http.server`, which is external. What an operation does to the gateway's state is in the modules
above; here it either has its effect or raises.

**Authority** is a predicate without state: the set of reasons against an action, each with its condition.

**How the modules compose.** `U0Execution` extends `ManifestOrder` and uses `Receipts`; `TaskListing` extends `A2ATasks`;
`A2ATasks`, `ExecutionStore` and `McpClientRequests` are shown to implement `IdempotentCreation`, `DurableOnce` and
`ReplySlots`. `HttpConnection` stands around them: one of its connections is one handler of `A2ATasks`, one thread of
`McpClientRequests` or one subscriber of `McpSubscriptions` at a time, and what those take from it is that a handler runs on
its own thread, answers at most once, and may find its client gone at any write.

## 3. The runs and their bounds

| Run | Instance | Distinct states | Question |
|---|---|---|---|
| `a2a_race` | 3 handlers, 1 key, 3 creates (one keeps the task open, one differs and executes, one cannot be built), follow-ups, cancels | 217,039 | Is there ever a second creator, a second execution, a waiter nobody will release, or an answer that contradicts the key's binding? |
| `a2a_live` | 2 handlers, 2 keys, keyless creates | 169,653 | Is every request answered, without relying on the waiter's time-out? Are fresh identifiers owned? |
| `a2a_listing` | 1 handler, 3 tasks, 4 filters, pages of 1, 2 readings of the clock | 2,022,226 | Served one after another, do requests respect terminal states and keep accepted messages, and does a client that walks the pages between them miss a task that did not change? |
| `a2a_terminal` | 2 handlers, 1 key, a create and a follow-up that leave the task open, a cancel | violation | Do terminal states still hold with concurrent handlers? (finding 1) |
| `store` | 2 processes, 2 identifiers, 4 manifests, 2 policies, new and legacy files | 183,936 | Is the store a durable once-only record, does `verify` reject exactly the files that held rows of an older version, and does every process end? |
| `u0` | 3 nodes, every graph without loops and graphs with loops and dangling references, every classification, deviations of every kind, 11 policies | 224,408 | Is the order sound, exact about cycles and canonical? Does anything leak, exceed a bound or fail to verify? Does every execution return? It also evaluates the authority predicate on every input over two digests. |
| `mcp_requests` | 2 tool calls, 2 sessions, 2 answers | 34,349 | Do answers reach their calls, once, whatever ends meanwhile? |
| `mcp_subscriptions` | 2 subscribers, 1 publisher, 2 kinds, queues of 2 | 219,133 | Are queues bounded and subscriptions closed, and is a single kind never missed? |
| `mcp_drops` | 1 subscriber, 1 publisher, 2 kinds | violation | Is a dropped hint always redundant? (finding 2) |
| `mcp_inputs` | 1 client that answers what it is asked, any number of others, 5 tools | 27,290 | Do rounds keep their order without state in the gateway, and does the client finish although calls are lost? |
| `http` | 2 requests on a connection, out of the passing request and every single failure of each of 26 routes (the two that stream make the checks of `modernCall`), all framings, ids, progress tokens and results that cannot be encoded, a client that stops reading or goes | 346,942 | Does the second request start at its head, do answers keep their order, and is an effect always earned and told? Does every request settle? |
| `http_framing` | bodies where no route looks for one, or whose length is not stated | violation | Is every body drained before the connection is reused? (finding 3) |

*Why the bounds are enough to show what can go wrong.* Three handlers are a creator, a waiter, and a third that changes
or cancels the task or replays after it; keys do not interact, so one key carries the race, and the second of
`a2a_live` shows that waiting for one key does not hold up another. `MaxFresh` bounds the tasks created without a key.
Each message is followed up at most once per kind because accepted duplicates are answered without a change. Two
processes are all that the write lock lets interact at a time, and a third is a second with another number; two
manifests that share an identifier, one with its own and one with none are the four cases of the lookup. Three nodes
admit a chain against the order of the identifiers, a join, a fork and a cycle beside a ready node, and are the least
where a class has to pass through a node that is neither its source nor exported. Two tool calls on one session
or on two are every way in which answers could be crossed. The code's queues hold 16 hints; the properties compare a full queue with its contents, and a
queue of two already holds two kinds or one kind twice. Pages of one task are the worst case of a page's boundary, and three
tasks let one be passed by another on either side of it. The tools of `mcp_inputs` are one without a token, one with a token and
a single round, one with three inputs in a round, the one with two rounds, and the one that asks for ever. On a connection
nothing is carried over from a request to the next but the unread bytes and the decision to keep it, so two requests show
every influence. The theorems of section 6 hold without these bounds.

`CHECK_DEADLOCK FALSE` is set where the system stops by design: a connection closes. `U0Execution` has an
explicit `Returned` step instead, and the other systems always accept another request.

Every property of a passing run has a mutant in `PROJECT.json`: a change to a mapped definition of the kind a slip in
that code would be (an event popped without being set, a lookup by number alone, an answer given before its row is committed), under
which TLC finds the property violated in the same run.

## 4. Fairness

| Module | Assumption | Why the code justifies it |
|---|---|---|
| `A2ATasks` | weak fairness of each handler's own steps | threads are scheduled, the lock is held for bounded work, an execution ends (the `u0` run); the 30 s time-out is *not* assumed, so waiters must be released by their creators |
| `ExecutionStore` | weak fairness of a process's steps or its busy time-out | the operating system runs it, and SQLite gives up waiting after the configured time |
| `U0Execution` | weak fairness of the next step | one thread that never blocks |
| `McpClientRequests` | weak fairness of each thread, its 8 s wait included, but not of the write of the request to the client | `Event.wait(timeout)` returns; no client has to answer, or to read |
| `McpSubscriptions` | weak fairness of each subscriber, but not of its writes, and of the clock | `monotonic()` reaches the deadline; nobody has to publish, and a write may block |
| `McpInputRounds` | weak fairness of the client's calls, strong fairness of serving and receiving them | the client wants its answer, and a network that loses calls does not lose every one of them |
| `HttpConnection` | weak fairness of the connection's thread, but not of its writes once the client has stopped reading (`MayBlock`) | threads are scheduled and streams have deadlines; a read of a body may block for ever, and then that step is not enabled; a write (`server.py` 190) may too, because the handler's socket has no timeout |

But for the client of `McpInputRounds` nothing is assumed of clients: requests, responses, broken streams, clients that
stop reading, kills and restarts may or may not happen. What a client can hold up by staying connected and neither sending
nor reading is excepted, by name, in the liveness property that it would break: `EveryRequestSettles`, `EveryCallEnds` and
`EverySubscriptionEnds`.

## 5. What the runs found

1. **A terminal task can be reopened** (`a2a_terminal`, `core.py` 1623). `send_message` and `cancel_task` read a private copy
   in one critical section and store it in another without looking again. A message read before a cancel and stored
   after it takes the task from CANCELED back to WORKING. `core.py:1601` says "terminal tasks cannot accept messages".
2. **A dropped hint need not be redundant** (`mcp_drops`, `core.py` 530). A subscriber to two kinds whose queue is full of hints
   about one is not told of a change to the other; `core.py:531-532` calls the dropped hint "already-redundant". For
   subscribers to one kind the comment is right (`OneKindMissesNothing`).
3. **A body can be left on a connection that is kept** (`http_framing`, `server.py` 370). `_read_json` refuses a body without a usable
   `Content-Length` and neither reads it nor closes the connection, and GET and DELETE never read one. The next request line
   is then made of the body, and the connection is lost with an answer that belongs to no request. `server.py:336-341` and
   `1412-1413` say that a body is drained before the connection is reused, or the connection closed.

Further observations, without a run of their own:

- The same overlap would lose one of two appended messages. No run shows it; what is proved is that overlapping updates are
  the only cause (`HistoryGrowsUnlessUpdatesOverlap`).
- A client that stays connected and does not read keeps a thread for as long as it likes: the handler's socket has no timeout,
  so `wfile.write` blocks once the buffers are full. That includes a stream past its deadline and a tool call past its 8 s.
- `verify` rejects a file that an older version left rows in, and goes on rejecting it: the migration adds the column and
  nothing ever fills it for those rows (`VerifyTellsOrigin`).
- A result that repeats arguments which cannot be encoded (`core.py` 1061, for one) is refused after its operation was carried
  out. The operations that repeat any change nothing.
- A body that is nested too deeply or holds too long a number makes `json.loads` raise what `server.py` 84 and 1451 do not
  catch, and the connection ends without an answer.
- A stream that breaks after `AddPending` leaves its request in `_mcp_pending` until the session is deleted (the exception in
  `PendingIsTaken`), and a subscription whose stream fails to begin is never closed (the place `unbegun`, excepted in
  `OpenIsServed`), because `open_mcp_subscription` is outside the `try` that closes it.
- A replay is answered with the task as it is now (`core.py` 1699), while `core.py:275-277` says that replays observe "one immutable
  result". One execution does hold (`OneExecution`).
- The store records rejections like results (`store.py` 82), those that depended on the moment included, and replays them for
  ever; the technical report speaks of completed results.
- The sequence that `core.py:1462-1463` says breaks ties in ListTasks is counted and never stored; ties stay in the order of the
  dictionary. `NothingUnchangedIsMissed` holds all the same, because insertion order does not change. Under a filter by state it
  does not: a task that leaves the filter moves the others up by one.
- An `id` that cannot be encoded (a lone surrogate) raises again in the handler that reports the error, so the connection ends
  without an answer; a progress token that cannot be encoded raises inside the stream, and a second HTTP head is written there
  (`EndStream`).
- The tool `capabilities` asks a client that declares a capability again whatever it answers (`Endless`).

## 6. The proofs

All theorems are proved by TLAPS from the named assumptions on the constants in the modules they are about, which
state the types of the data and that null values are not data. Apart from the hypotheses that a theorem states itself,
nothing else is assumed; the number of handlers, keys,
processes, nodes, resources, sessions, subscribers and requests is arbitrary (nodes and handlers are finitely many).

**A2ATasks_proofs.** The inductive invariant `IndInv` joins the four safety invariants of the runs with what they rest
on: `JobsInv` (a handler's locals are defined and its target is its request's key), `CopiesKeepBinding` (a copy that will
be stored has the request and context of the task it replaces), `PublishedCopies` and `ContextsMatch`. `SingleFlight` alone
is not inductive: it needs to know that a creator's target is its own key. Results: `TypeCorrect`, `SingleFlightHolds`,
`OneExecutionHolds`, `WaitersHaveCreators`, `FreshIdsHaveOwners`, `BindingsAreKept` (a stored task never changes its request
or context, although stale copies are written back: the damage of finding 1 is confined to state and history), and
`StoreKeepsPromise`: `Spec` implements `IdempotentCreation`, step by step.

The converse of finding 1 is proved too: overlapping updates are its only cause. `OneUpdater` says that no two handlers are between
the read and the store of an update of the same task. `TerminalStaysUnlessUpdatesOverlap` and `HistoryGrowsUnlessUpdatesOverlap`
have `[]OneUpdater` as their hypothesis, for any number of handlers, so updates of different tasks, creates, waiters and
replays may interleave at will; the code does not guarantee it, and a single handler does (`OneThreadKeepsTasks`, the instance of
`a2a_listing`). The invariant they need is `CopyIsCurrent`: what an updater holds is the stored task with its change on top.

The same file treats `TaskListing`. `NothingIsMissedUnlessUpdatesOverlap` holds for any number of tasks and handlers, any filters and any
page size. Its invariant is `DueIsAhead`: a task that has not changed since the walk began still matches, and has been seen
or stands no higher than the next page. That takes three facts. The tasks stand in one strict order (`BeforeIsAnOrder`), so
positions count without gaps and a page is no larger than its bound (`Positions`, `PageIsSmall`). An update stores a time that is
no earlier than the one it replaces (`Stamps`; this is where `OneUpdater` is needed). And so a change moves its own
task up and no other (`PositionsOnlyRise`: the positions of the others do not fall). Without the hypothesis the theorem is false: a stale copy
brings its older time back, its task moves down, and the tasks behind it move up past the page a client has reached.

**ExecutionStore_proofs.** `IndInv` adds `ProcInv`: inside a transaction a process has a manifest with an identifier, and one
that is about to answer holds what the committed row says. `RowsInv` says where rows come from: one that the file came with
stays as it was, without a digest, and every other has one. With it `VerifyTellsOriginHolds` says what a verdict means: over any
number of processes, migrations, replays and kills, `verify` rejects a file exactly if it came with rows of an older version. `StoreIsDurableOnce` shows that `Spec` implements
`DurableOnce`: `Commit` is `Record`, `Return` is `Tell`, a collision in `Lookup` is `Refuse`, and kills are `Lose` or stutters.

**U0Execution_proofs**, on `ManifestOrder`. `GraphInv` says what the counters mean: the in-degree of a node is the number of its references
that are not placed (`Counted`), and the heap holds the nodes that have none left (`Ready`). A set of nodes each of which
refers into the set is never entered (`CyclesStayOut`); when the heap runs dry, what is left is such a set. So
`CyclesAreExact`. `OrderIsFirst` compares the order with any other that respects the references at the first place
where they differ: the other's node is ready there, and the heap gave the least.

The same file, on `U0Execution`. `U0Inv` extends `GraphInv` along the execution: the nodes that have run are those with an output
(`Recorded`); each carries the class its manifest declares (`Declared`), and that class bounds every resource the node
reaches through the graph (`Flows`), by induction over the run: a node's class bounds its inputs, which bound theirs.
With `Concluded` (exports passed the egress rules) this gives `NothingLeaksHolds` for any graph and any length of chain.
`Traces` gives `ValuesFollowTheGraphHolds` in the same way. On top, `ReceiptInv` says that receipt *i* is linked to receipt
*i - 1* and names what node *i* did (`Linked`), which gives `ResultsVerifyHolds` and, with the budgets,
`HostBoundsAlwaysHold`.

`SealPinsResult` says why a seal is worth checking: two results that verify and bear the same terminal digest agree in their
manifest, in every receipt and in their exports. The digest fixes the number of receipts and the last of them, and each receipt fixes the
one before it, so there is no last place where they differ. From it `DamageAlwaysShows`: each kind of damage in `Damaged` keeps the
seal (`DamageKeepsSeal`), so a damaged result that still verified would be the undamaged one. Digests are
taken to be injective, as in `Receipts`.

`ExecutionsAreShort` is the part of `EveryExecutionEnds` that is not about fairness: every step leaves `StepsLeft` smaller, and
that is never more than twice the number of nodes and six. What is left to TLC is that some step is always possible.

**McpClientRequests_proofs.** `PendingIsTaken` is about a table keyed by session and number, and says nothing about two calls that
hold one number. `NumberInv` supplies it: numbers are handed out once and the counter is the number of calls that have asked.
`ThreadInv` says what a thread's locals are at each place, and `SignalInv` that a waiter whose request is gone has been signalled.
From these `WaitersCanAlwaysBeWoken`, `PendingIsAlwaysTaken`, `MissingAlwaysMeansEnded`, and `RequestsImplementSlots`: the table of requests
implements `ReplySlots`, in which a slot is filled only by its owner and told once. The proof assumes that the values that stand
for no response are no responses (`NullsAssumption`).

**McpSubscriptions_proofs.** `OneKindMissesNothing` needs that a queue holds only kinds its subscriber asked for (`QueueHoldsWanted`); and
`IdleAskedNothing` says that a thread that has no subscription has no filter that a publisher could see.

**McpInputRounds_proofs.** `RoundsPrecede` needs that a call carries only a token that was seen (`Seen`) and that a client is asked for
rounds of its own tool (`OwnTool`); then a signed token for a later round is evidence that the earlier one was
answered, which is all that a gateway without state has to go by.

**HttpConnection_proofs.** The invariant has a part for each thing a handler must not lose: `BodyInv` (the body is in the stream exactly
until it is taken), `PlaceInv` (an answer is in the place of its request, and only the last may be otherwise, before the end),
`PassInv` (where a handler stands, its request has passed everything that comes before) and `EffectInv` (what was told is what
was done, but for the request in hand). The theorems hold for any requests and any number of them. `OperationsAreAlwaysEarned`
has the hypothesis that a request has no fault that its route does not look for, as the requests of the run have.

**Authority.** `AuthorizedExactly` compares the predicate with the expectation of `run_bounded_models.py` for any digests, which that
script enumerates for two; `OneConsentOneAction` is what binding a consent to a digest is for.

## 7. What is only model-checked

- Liveness (`EveryRequestAnswered`, `EveryProcessEnds`, `EveryExecutionEnds`, `EveryCallEnds`, `EverySubscriptionEnds`,
  `ObedientClientsFinish`, `EveryRequestSettles`): fairness is
  outside what the prover's backends treat.
- That `TerminalStays`, `HistoryGrows` and `NothingUnchangedIsMissed` need their hypothesis: `a2a_terminal` shows it for the first.

Every other invariant and action property of a passing run is a theorem, and so are the three refinements.

Induction over recursive definitions is beyond the prover; no module uses any.

## 8. What is not modelled

- **The projection of a history** in `get_task` and `list_tasks` (`historyLength`, artifacts): a cut of a sequence in an answer,
  without a change of state.
- **MCP tools, resources and prompts**: fixtures that answer from constants; the log level and the set of resource
  subscriptions are written and never read. The elicitation fixtures that stream (`server.py` 867-957) send the
  requests of `McpClientRequests` and differ in their wording.
- **U0 operations and canonical JSON**: pure functions on values. The models take from them that an operation computes
  from its inputs alone, may reject them and has an output of some length, and that canonical encoding is injective. What
  they compute for every value is induction over data, which neither TLC's bounds nor the provers reach.
- **Parsing, the text of errors and agent cards** of the HTTP front end, the bindings (pure envelopes) and the source offer (reads
  the environment once).
- **Release gates and other scripts**: sequential programs over the files of a checkout; nothing they keep outlives them.
- Time is a choice: a time-out, a deadline or a wall-clock budget may or may not pass. A wall clock that is set back is not
  modelled. Memory and the number of threads
  are not bounded, as in the code.

## 9. What could follow

The system's concurrent, durable and ordering-sensitive parts are covered. What would add most next:

1. Variants like `StepsLeft` for the handlers of `A2ATasks`, `McpClientRequests` and `HttpConnection`: what of their liveness is not
   about fairness can be proved in the same way.
2. A composition of `HttpConnection` with `A2ATasks` in which a client that lost its connection repeats a keyed request on a new one,
   which would show end to end that retries are answered once.
