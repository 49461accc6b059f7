# A TLA+ model of the Claude Code messaging proxy

The repository is a Python program with two faces. As a *bot*, it receives
messages from Telegram or Discord, keeps one tree per conversation, runs a
Claude CLI subprocess per message and edits a status message while the CLI
prints events. As a *proxy*, it serves the Anthropic `/v1/messages` API to those
CLI processes and streams answers from other providers. This directory holds
TLA+ modules of the parts whose correctness depends on the order in which things
happen, the TLC configurations that check them and theorems checked by TLAPS.

## 1. Inventory

| Part | State it keeps | Operations | Interacts with |
|---|---|---|---|
| Message trees (`messaging/trees/*`) | `MessageTree`: nodes, parent/children links, node states, session ids, queue, busy flag, current node and task; `TreeRepository`: tree by root, root by node | create tree, add to tree, enqueue, process node, process next, mark error, cancel tree / node / branch / all, remove branch, restore, cleanup of stale nodes | handler (callbacks for queue position and start), session store (snapshots) |
| Handler and commands (`messaging/handler.py`, `commands.py`, `event_parser.py`) | the `TreeQueueManager` in use, per-task locals (tree, captured session id, transcript) | handle message, process node, handle CLI events, /stop, /clear (reply or standalone), /stats | trees, CLI sessions, store, platform |
| Session store (`messaging/session.py`) | trees, node-to-tree map, message log with its id set, dirty flag, debounce timer, a JSON file | save tree, register node, remove mappings, remove tree, record message id, clear all, flush, load | handler, lifespan of the API app; worker threads of the timers |
| Messaging rate limiter (`messaging/limiter.py`) | sliding window of send times, queue of dedup keys, map from key to task and futures, pause, shutdown flag | enqueue, fire and forget (with retries), worker loop, shutdown | platforms |
| Provider rate limiter (`providers/rate_limit.py`) | request times, blocked-until, semaphore | wait if blocked, set blocked, execute with retry, concurrency slot | providers |
| CLI sessions (`cli/*`) | sessions by id, pending sessions, temp-to-real ids; per session the process, its busy flag and id; set of pids | get or create, register real id, remove, stop all; start task, stop | handler |
| Platform adapters (`messaging/platforms/*`, `transcription.py`) | connection, pending voice notes in two maps | send / edit / delete (queued), voice notes: register, cancel, complete | limiter, handler |
| Transcript and rendering (`messaging/transcript.py`, `rendering/*`) | ordered segments, open blocks, subagent stack | apply event, render | handler |
| Antigravity provider (`providers/antigravity/*`, `manage_accounts.py`) | accounts, active index, rate limits per model, an accounts file | rotate, refresh tokens, mark limited / invalid, stream with rotation | provider limiter, file shared with the command line tool |
| Streaming to SSE (`providers/common/*`, `openai_compat.py`) | block indices, open thinking / text / tool blocks, parser buffers | emit block events, feed / flush think tags and heuristic tool calls, recover from errors | provider streams |
| HTTP API (`api/*`) | the app's lifespan objects | start (restore trees), shutdown (flush), routes, fast paths | everything above |
| Configuration (`config/*`, `server.py`) | settings | read once | - |

### What is hard here

* **One event loop, many suspension points.** The handler awaits the send of a
  status message between looking a conversation up and adding to it, commands
  await deletions between cancelling and removing, tasks are cancelled between
  their creation and their first step or while their subprocess dies.
* **Threads and a file.** The session store is written by debounce timers on
  their own threads; the accounts file is written by two programs.
* **Time.** Two rate limiters, blocks that overlap, retries that meet newer work.
* **Streams.** Providers interleave text, thinking and tool calls; the client
  requires a strict block protocol.

### What makes each part correct

* Trees: messages of a conversation are processed one at a time, in order, none
  is forgotten; a reply forks a session that is final; what is stopped stays
  stopped; what is cleared is gone.
* Store: the file ends up with the last state; a cleared store stays cleared;
  ids are logged once.
* Limiters: never more than the limit in a window; the newest edit wins; nobody
  is blocked for ever.
* CLI sessions: a session is found under its real id, a stopped one has no
  process left.
* Accounts: a valid account is found if there is one; limits are respected.
* Streaming: blocks are opened, filled and closed in the order the API demands;
  no text is lost.

## 2. Modules

| Module | Models | Kind |
|---|---|---|
| `MessageTree` | the pure helpers of trees and queue | operators |
| `TreeQueue` | one conversation: messages, queue, tasks, commands | state machine |
| `OrderedService` | what the queue promises | abstract specification |
| `SessionStore` | the store, its timer threads and its file | state machine |
| `SlidingWindow` | the strict sliding window that both limiters keep | operators |
| `MessagingLimiter` | the queue of chat calls: compaction, worker, pause, retries | state machine |
| `ProviderLimiter` | provider requests: slot, block, window, backoff | state machine |
| `BlockProtocol` | what a client of the Messages API may receive | abstract specification |
| `SSEStream` | one streamed answer: the builder and both streaming loops | state machine |
| `StreamParsers` | think tags and tool calls in streamed text | operators and state machine |
| `AccountRotation` | accounts, tokens, rotation, accounts file, account tool | state machine |
| `CliSessions` | CLI processes: manager, sessions, registry, shutdown | state machine |
| `Transcript` | event parser, transcript buffer, truncating renderer | operators |
| `NodeOutput` | the handler's event loop over `Transcript`, with the CLI | state machine |
| `MCTreeQueue`, `MCSessionStore`, `MCMessagingLimiter`, `MCProviderLimiter`, `MCSSEStream`, `MCStreamParsers`, `MCAccountRotation`, `MCCliSessions`, `MCNodeOutput` | instances for TLC | model checking |
| `TreeQueueProofs` | theorems about conversations | proofs |
| `MessagingLimiterProofs`, `ProviderLimiterProofs` | theorems about the limiters and the window they share | proofs |
| `SessionStoreProofs` | theorems about the store | proofs |
| `AccountRotationProofs` | theorems about accounts and tokens | proofs |
| `CliSessionsProofs` | theorems about CLI processes | proofs |
| `SSEStreamProofs` | the streams implement the protocol | proofs |
| `NodeOutputProofs` | theorems about what a run shows | proofs |

`TreeQueue` and `CliSessions` are two views of the same task: the first follows
its bookkeeping in the tree and takes the CLI run as one suspension, the second
follows its process and takes the tree as the environment that starts and cancels
tasks. `NodeOutput` is a third, of what the task writes. `SSEStream` takes from the
parsers a list of parts in any order; `StreamParsers` says which parts a text has.

A definition that is called *mutant of X* is a plausible bug in the code that `X`
models: with it in place of `X`, the property it is paired with in
`PROJECT.json` fails. Specifications do not use it.

### TreeQueue and the code

A step is the code between two places where a coroutine really suspends. An
asyncio lock held over code that never suspends is never contended, so
`MessageTree.with_lock` and the manager's lock need no variable: the critical
sections are inside one action. The suspensions kept are the send of the status
message (`_handle_message_impl`), the deletes of `/clear`, reading the CLI,
waiting for a subprocess to die (`CLISession`), `remove_session` and the first
step of a created task. Telegram hands updates to the bot one after the other;
Discord and the HTTP `/stop` route do not, so the model lets commands and
messages overlap freely.

| Variable | Code |
|---|---|
| `nodes`, `parent`, `children`, `state`, `session` | `MessageTree._nodes` and the fields of `MessageNode` |
| `queue`, `isProcessing`, `currentNode`, `currentTask` | the fields of the same names of `MessageTree` |
| `known` | the handler's `TreeQueueManager` has the tree (`replace_tree_queue`, `remove_tree`) |
| `pc`, `cancelled`, `hasTree`, `captured` | the asyncio task of a node: where it is, whether `cancel()` was called, whether `_process_node_impl` found the tree, `captured_session_id` |
| `msg`, `clearing`, `wiping` | the coroutines of `handle_message` and `/clear` that are suspended |
| `stamp`, `arrivals`, `lastStarted`, `stopped` | auxiliary; only properties read them |

A node that leaves its tree keeps its fields, since its task still holds it.
`Launch` is the common part of a start at once and of `_process_next`; the second
disjunct is the dequeued id whose node is gone (`create_task` is skipped but the
tree stays busy). `ProcessNext` is inside `SkipNode` and `FinishNode`, as in the
code's `finally`. `CancelTree` is inside `StopAll`, `WipeBegin` and the last
part of a `/clear` of the root.

### SessionStore and the code

Everything under `_lock` is one step. `_write_data` runs without it, so the `open`
that truncates the file (`OpenFile`) and the write that fills it (`CloseFile`)
are steps of their own; two writers that are open at the same time share one
file. The methods are called by the event loop's thread; each
`threading.Timer` is a thread that fires (`TimerFires`), takes its snapshot under
the lock (`TimerSnapshots`, `_save_from_timer`) and writes. `Timer.cancel` only
stops a timer that has not fired. A write may fail at either step; the process
may die at any moment (`Crash`), and the next one loads what the file holds.
`trees`, `nodeToTree`, `log`, `logIds`, `dirty`, `saveTimer` are the fields of
the same names. A stored tree is the set of its node ids, a logged message its
id, and the log is that of one chat.

### The limiters and the code

A grant is known by its age in ticks, so `times` is `_times` (or
`_request_times`) with the clock subtracted. Ages stop at `Window`, which is as
far as the code looks. `HasRoom` and `WithGrant` are the two outcomes of a look
at the window: how long a caller sleeps before it looks again only matters for
when it looks, and a step may be taken at any time.

`MessagingLimiter`: `queueList` is `_queue_list`; `func` and `futures` are the two
halves of the pairs in `_queue_map`. A call is numbered when it first reaches the
queue, so a higher number is a newer version. `_condition` is never held over
code that suspends, so it needs no variable. The worker is `Take`, `Acquire`
(the sleep for `_paused_until`, which only the worker sets, and the limiter) and
`CallReturns` or `CallRaises`; what each caller does with the exception is part
of the latter, since the callers only wake up. `Shutdown` leaves the futures
unresolved, as the code does.

`ProviderLimiter`: a request of `openai_compat.py` takes a slot, waits for the
block and the window, calls, perhaps backs off, streams and leaves. `informed`
is auxiliary: the requests that looked at the block since it was set last.
`WaitIfBlocked` looks once, as the code does. `Cancel` is a client that goes away
at any suspension; `asyncio.Semaphore` hands a released slot to the first in
line. The Antigravity client uses the slot only, without window and backoff.

### SSEStream and the code

A step is the code between two `yield`s, since the client may be slow to read.
`provider` tells which loop runs, that of `openai_compat.py` or that of
`antigravity/client.py`; they share `SSEBuilder`. `nextIndex`, `thinkingIndex`,
`textIndex`, `thinkingStarted`, `textStarted` and `tools` are the fields of
`ContentBlockManager`. A part (thinking, text, a whole tool call, a native tool
call delta, an error) is handled in several steps, which are the events it makes;
`part` and `step` say how far it has come. `ensure_thinking_block` and
`ensure_text_block` are `StopTextBlock` or `StopThinkingBlock` followed by a start.
A tool name comes in fragments (`Merged`), the arguments of the Task tool are
buffered until they are an object (`BufferTaskArgs`) and flushed as `{}` otherwise
(`FlushTaskArgs`). `Fails` is the handler of exceptions: whatever is open in prose
is closed, an error block is written and the stream is finished like any other.
The fallback to the real API (`Relay...`) passes lines on, and is therefore kept out
of the protocol (`FallenBack`). `event`, `blocks` and `closed` are the client; they
are the variables of `BlockProtocol`.

### StreamParsers and the code

Text is a sequence of tokens; a tag has several, so a chunk may end inside it.
`ThinkFeed` and `ToolFeed` are the `feed` methods, one turn of the loop per
application of a fold. `Flush` is what the streaming loop does at the end. The
reference is `ExpectedText`, `ExpectedThought` and `ExpectedCalls`, which read the
segments of the answer and know nothing of chunks. The parsers do not keep their
promise for every cut. `CutsControl`, `JoinsCalls` and `SkipsBullet` name the cuts
they do not cope with, from the positions in the answer alone; the auxiliary variable
`cuts` notes which of them the provider has made. `SplitDoesNotMatter` says that these
are all, and that each of them does harm (`<=>`). The segments leave out what is lost
however the answer is cut: a bulleted text too short to be given up before the end,
text after a call that begins with `<`, blanks between a tag and its parameters (see
Behaviour).

### AccountRotation and the code

A step is the code between two awaits: after a failure the next account is picked
in the same step (`NextAttempt`), which is `pick_account` and the first part of
`get_access_token`. `accounts`, `active`, `invalid`, `limits` and `cached` are the
fields of `AccountManager`; `req` is a request in `_try_stream_with_rotation`.
Google (`valid`, `minted`) may replace a refresh token when it answers, and the
answer may be lost. `file` is written by the server (`Saves`) and by
`manage_accounts.py` (`tool`), each from its own memory. A crash may tear the file;
`Start` reads back accounts and active index and nothing else. `sound` is
auxiliary: the accounts whose newest token has reached this server. The key of a manual
account (`IsManual`) was typed in: nobody knows when Google issued it, and caching it
again (`TypedIn`) makes it no newer, so `TokensAreFresh` is about the other accounts. The
`RuntimeError` for an account without credentials (`account_manager.py:152`) is left
out: both ways to add an account store a token.

### CliSessions and the code

The handler asks for a session with `session_id=None`, so a session, its process
and the task of the node are one to one: a *run*. `manager` has the three
dictionaries of `CLISessionManager`, `lock` its lock (held across `await stop()`
in `remove_session` and `stop_all`, so here it is a variable), `pids` is the
process registry. `pc` is where the task is suspended: in the spawn, reading
stdout, handling an event, reading stderr and the exit code, in its own `stop`, in
the handler's clean-up. `CancelledTo` says where a cancellation lands for each of
them. A generator that is left at a `yield` is closed by the loop (`Finalize`), with
`GeneratorExit`. `StopAll...` is `/stop` and the shutdown of `api/app.py` with its
timeout; `Exit` and `Interrupt` kill what is registered. `abandoned` is auxiliary:
the runs whose process nobody is left to stop.

### Transcript, NodeOutput and the code

`ParseCliEvent` is `parse_cli_event`, `Apply` is `TranscriptBuffer.apply` with the
stack of subagents (`Alike` has the pairs of ids that the code takes for one, since
it compares beginnings), `Render` is `render` with its truncation to the newest
segments: what is shown is a function from the positions of segments, so that the
oldest can be dropped; of a segment only its size is kept. `NodeOutput` is the loop of
`_process_node_impl` with `_process_parsed_event` and `update_ui`: an event of the
CLI becomes parsed events, each is applied and followed by an edit that is awaited
(`await`). `ui.status` is `last_status`, that of the latest event that has one, whether
it was shown or not. The generator may raise at any wait for an event (`RunFails`): the
spawn fails, or a line of output is JSON but no object. The CLI is the environment; it keeps what the conversation has said and
which subagents run (`cli`), and the properties compare the transcript with it.
It may run a subagent in another, reports the innermost first and gives tools
other than Task ids; ids in use at the same time do not begin alike.

## 3. Runs

| Run | Bounds | Shows |
|---|---|---|
| `TreeQueueAll` | 3 messages, every command, 2 of them | `QueueInv`, `TreeLinked`, `CancelSticks`, the refinement `StartsInOrder` |
| `TreeQueueBranch` | 4 messages, `/stop` and `/clear` of a node, 1 of them | `OneTaskAtATime`, `ParentSettledFirst`, `StoppedIsError`, `ForkIsFinal` |
| `TreeQueueEnds` | 3 messages, standalone `/stop` twice | a cancelled task returns even if the CLI never ends (`CancelledEnds`); if it does, the queue drains (`QueueDrains`) |
| `Store` | 1 node, 2 logged messages, cap 1, 2 timers, every method, 1 crash | `DirtyHasTimer`, `SettledIsSaved`, `LogMatchesIds`, `SavesEventually` |
| `Messages` | 2 keys, 3 calls, 2 retries, limit 1 in 2 ticks, flood pause of 2 | `ListMatchesMap`, `WaitsOnce`, `WindowHolds`, `NewestShown`, `CallsEnd` |
| `Providers` | 3 requests, 2 slots, 1 retry, limit 2 in 2 ticks, block of 2 | `WindowHolds`, `SlotsAccounted`, `BlockRespected`, `RequestsEnd` |
| `Stream` | both providers, 2 tools, 14 kinds of tool call deltas, 3 parts and the end | builder and client agree (`StreamInv`), the refinement `FollowsProtocol`, no empty message (`SomethingShown`), the answer ends (`StreamCompletes`) |
| `Parsers` | all answers of up to 3 of 10 segments (an unclosed tag is the last), every way to cut them | thinking is the same for every cut, prose and calls for exactly the cuts that are none of three kinds (`SplitDoesNotMatter`) |
| `Accounts` | 2 accounts, 2 requests, 1 model, 2 refresh tokens per account, 1 tick, 1 crash (after the first request has begun), 1 edit | `ListsAreSane`, `NewestTokenKept`, `NobodySkipped`, `TokensAreFresh`, `FailuresRotate` |
| `Sessions` | 2 runs, each cancelled once, 1 `stop_all`, shutdown | dictionaries, registry and lock agree (`SessionsInv`), no process runs on (`NothingRunsOn`), cancelled tasks end (`CancelledRunsEnd`) |
| `Transcript` | 4 events and the exit, full messages or streamed blocks, 3 ids of which 2 begin alike | subagents' text stays out, the conversation's is kept (`TranscriptInv`); the message ends with a final status and the newest text (`EndIsShown`) |
| `FailedCompletes` | 2 events | a violation, see Findings |

Why the bounds are enough. Three messages give every shape of a tree that
matters, one that runs, one that waits and one that arrives, and the fourth adds
a grandchild next to a sibling. Two timers let one write while the next is armed;
a second logged message goes over the cap. Three calls let one be in the
worker's hands, one wait and one replace it, for one key or for two. Three
requests on two slots make a line, and a window that is shorter than the run is
passed several times. Three parts let two tools be open beside prose that closes
and opens, or one Task call come in three pieces. Three segments put every kind
of text before and after a call, and all cuts are tried. Two requests refresh one account at a time
while the other account is limited; two tokens let Google rotate once, and one
crash and one edit may fall between any two steps. Two runs fight for the
manager's lock, with `stop_all` as a third. Four events open a subagent, let it
speak, close it and let the conversation go on. The proofs of section 4 do not
depend on these bounds.

Deadlock is not checked (`CHECK_DEADLOCK FALSE`) where the system rests when
its work is done: users send finitely many messages, timers and accounts' edits
are bounded, an answer, a text and a run have an end. In the limiters time always
passes, and deadlock is checked.

Fairness: the event loop runs every ready task and time passes (`WF` of `Task`,
of `Tick`, of the worker's and the requests' own steps); the send of a status
message ends; a subprocess dies because `stop()` kills it after 5 s; a thread
that has fired goes on; the HTTP clients of chat platform and provider have
timeouts, so every call ends. In `SSEStream` the provider's read times out and
the client reads, so `Next` as a whole is fair. In `CliSessions` the event loop
resumes what can be resumed, the 5 s of `stop()` and the timeout of the shutdown
pass, and `asyncio.Lock` is handed out in turn; weak fairness is enough because
each run asks for the lock a few times only. Nothing is assumed of the
callers, of users, or of a process that nobody stops. That a CLI run ends by itself is an
assumption about the CLI, so it is a premise of `QueueDrains` (`CliFairness`) and
not part of `FairSpec`.

### Findings

`FailedCompletes`: an exit code that is not zero is parsed into an error and a
complete event. `handler.py:422` marks the node (and its waiting replies) ERROR
at the first, ignores the status "failed" of the second, and ends with the node
COMPLETED and the message at "Complete", although `event_parser.py:152` says
"Non-zero exit is an error".

`Parsers`: pieces of a control token are shown when it is cut and nothing precedes it
in the parser's buffer, as in `Hello <|tool`, `_call`, `_end|>`: the held tail is
then the whole buffer, the prefix is empty, and `heuristic_tool_parser.py:96` emits
it, although line 54 says of the method "This prevents leaking raw sentinel fragments
to the user when streaming." The run passes: `SplitDoesNotMatter` has the cut as part
of the exact condition under which the prose differs.

### Behaviour

The models show more that a maintainer should know.

Conversations: `cancel_tree` frees the tree while the cancelled task is still
cleaning up; the next message starts at once and the old task's `finally` then
takes over the new one's bookkeeping. A task cancelled before its first step never
runs its `finally`; the queue behind it stalls. A removed branch can leave an id in
the queue; dequeuing it marks the tree busy for ever. A message in flight during a
standalone `/clear` starts in the tree that is being thrown away. A run without a
session id leaves its node IN_PROGRESS.

Store: a timer that took its snapshot before `clear_all` writes it afterwards,
and the next start loads it. Two writers can leave a file that is no JSON, which
the next start treats as no data. `remove_tree` leaves mappings that were
registered for status messages.

Limiters: a retry of `fire_and_forget` queues the function of an older call after
a newer one for its key. A request that waits for the window does not see a block
that begins meanwhile; a later 429 can shorten a block. The callers whose tasks
are queued when the messaging limiter shuts down wait for ever.

Streams: a tool's block is announced with the first fragment of its name. A tool
with an empty name can end in a message without a block. Task arguments that are
JSON but no object raise `AttributeError`, which becomes an error block. An answer
of inline tool calls only still gets a text block with a space. The fallback sends
a second `message_start` (`antigravity/client.py:154`).

Parsers: `flush` drops text held in MATCHING_FUNCTION or as an incomplete control
token; a whitespace chunk between the function tag and its parameters ends the
call early; text after a call that begins with `<` is dropped at the end; a
bulleted text followed by a call loses what is between, unless it is given up before
the function tag has arrived; two calls become one when the second one's first
parameter comes with what closes the first; what the think parser holds at the end
bypasses the tool parser. A control token shows in pieces when it is cut
at the wrong place (see Findings), also when it comes with a text that ends a call
(line 171).

Accounts: a manual account's key is never refreshed; it is cached again whenever the
interval is over (`account_manager.py:125-128`) and used until Google answers with a 401,
as `manage_accounts.py:103` warns. Any failure of a refresh, also a passing one, marks the account invalid
until a restart, and a 401 is forgotten when another refresh of the account
succeeds. Limits and marks are not read back. Server and `manage_accounts.py`
overwrite each other's file; a crash during a save leaves a file that is read as no
accounts. A client that goes away during a refresh can lose a rotated token.
A 429 with `Retry-After: 0` sets a limit that `is_available` counts as over at once, so
`pick_account` keeps the account that has just failed, although `client.py:421` says
that failures "automatically rotate to the next account" (they do for every positive
delay, `FailuresAlwaysRotate`). The active index is shared by all requests and models:
with three accounts, two requests can move it for each other until one has failed six
times on two of them and is refused with "All accounts rate-limited" (`client.py:497`),
though it never tried the third. A request that is refused earlier, because no account
can be used, has met all of them (`NobodyIsSkipped`).

CLI: `stop_all` during a spawn drops the session, and the process runs on
unmanaged. `stop_all` cancels no task, so the queue begins new runs during the
shutdown. A task cancelled while it handles an event leaves its generator to be closed
by the loop, which unregisters the process before anybody has stopped it. A task
cancelled inside `remove_session` leaves session and process behind
(`abandoned`). The timeout of the shutdown is as long as one `stop()`, so a
stubborn process may only be killed at the exit. `get_or_create_session` never
meets its limit, as no call of the handler passes an id.

Transcript: with Tasks that run in parallel, the result of an outer one closes all
above it, and a subagent's text is then shown as the conversation's. Ids are
compared by their beginnings. A tool result without an id closes a subagent
without one. A failed run whose stderr is not empty shows its error twice. A
second cancellation during the clean-up loses the final edit.

## 4. Proofs

`TreeQueueProofs` begins with the operators of `MessageTree`: for every queue,
`Without` is the subsequence of the ids that are kept (through `RankEnumerates`, a
counting argument with the library's finite-set theorems), and what appending and
dequeuing do to the ids and their order. It then proves the safety of `TreeQueue` for
every set of messages, every set of commands and any number of them. None of the properties is
inductive alone: that a dequeued node is fresh needs the queue to be ordered by
`stamp`, that needs messages which have not joined to be nowhere (`NotJoined`),
that no waiting message is lost needs `cancel_current_task` to hit the task of
the node that was put into ERROR (`CurrentIsTask`), and so on. `QueueInv` is
their conjunction. The actions fall into six groups by what they do to the
queue, each with a lemma (`QuietStep`, `TaskStep`, `NextFromQueue`,
`CancelTreeStep`, `CancelSomeStep`, `JoinStep`); `QueueInvStep` only sorts the
actions into the groups. From it follow `QueueFresh`, `IdleMeansEmpty`,
`PendingAccounted`, the refinement `StartsInOrder` and, with `TreeShape`,
`TreeLinked`.

What a `/stop` of the whole tree breaks (see Behaviour) is proved under the
assumption that no command cancels the whole tree (`BranchCommandsOnly`): one
task at a time, replies after their parents, final forks, stopped stays stopped.
The inductive part is `AliveIsCurrent`. The proofs use the assumptions on the
constants only: the root is a message, `NoNode` is not, commands are known ones
and their number is finite.

Both limiters rest on `SlidingWindow`; `MessagingLimiterProofs` and
`ProviderLimiterProofs` begin with the same lemmas about it. That at most `RateLimit`
of all grants ever made lie within a window does not follow from `times` alone,
which forgets; the inductive invariant adds `LatestGrants`: `times` are the
latest grants and every grant that was forgotten is out of the window. A grant
(`WindowGrant`), a tick (`WindowTick`) and the start (`WindowInit`) keep it. That
the loop of `popleft` stops at the right place (`ExpiredStops`) needs a least
element (`LeastElement`, from well-foundedness of the naturals).

`ProviderLimiterProofs` and `MessagingLimiterProofs` sort their actions by what
they do to the grants (`GrantCases`) and conclude `WindowIsKept`. For the block,
`BlockInv` says what a request that looked knows: one that is held sleeps exactly
as long as the block lasts, one at the window knows that there is none; hence
`BlockIsKept`. For the slots, `SlotInv` counts requests with slots and takes the
line entry by entry; each action is one of five moves (`TakesSlot`, `JoinsLine`,
`KeepsSlot`, `ReturnsSlot`, `GivesUp`), with the library's cardinality theorems;
hence `SlotsAreReturned`. For the messaging queue, `QueueInv` of that module is
`ListMatchesMap` and `WaitsOnce` call by call, with one more fact that makes it
inductive: a worker about to take a job holds none. Hence `QueueMatches` and
`EveryoneWaitsOnce`. That a settled message shows its newest edit (`NewestIsKept`)
needs to know where the newest call of a key is while it has not ended: `ShownInv`
says, as long as nothing was tried again for the key, that what is queued is its newest
call, that all calls newer than the one in the worker's hands are still queued, and that the
newest call is shown once it has succeeded.
The types of both limiters (`TypesAreKept`) use all of these; `SlotsAccounted` includes
those of its module. The assumptions are those
on the constants: a positive limit, window and number of slots, finitely many
requests, and at least one key.

`SessionStoreProofs`, for any nodes, any cap and any number of timers: the types,
also of what a restart reads (`TypeCorrect`); `TimerInv` (`DirtyIsSaved`);
`LogInv`, which adds to the log in memory those in the snapshots and in the file,
because a crash brings them back (`LogIsKept`). That a settled store is saved
(`SettledStoreIsSaved`) needs `SavedInv`: while no two threads had the file at the
same time, at most one has it, the one that opened it last wrote into an empty
file, and what it writes is what memory has, unless the flag says that memory
changed since. Steps are sorted by what they do to the file: nobody moves
(`WritersStay`), a thread takes its snapshot (`WriterTakes`), and so on.

`CliSessionsProofs`, for any number of runs, cancellations and calls of
`stop_all`: that no process outlives its task is not inductive, since the task
must find its session again under the id that its handler holds. `RunInv` says
for each run where it is listed (`HeldId`), that a live process has a task that
will find it or is stopping it (`Accounted`), and that `stop_all`, which drops
everything at the end, has on its list all that it drops (`StopperKnows`). Most
steps are of one run and leave the others alone (`RunStep`); cancellations
(`CancelInv`) and the end of `stop_all` (`DropAllInv`) are not.

`SSEStreamProofs`, for any tools, names, calls and any number of parts: types and
control state come first (`Basics`). `Core` is what relates the builder to the client:
the same number of blocks (`CountsMatch`), open blocks are those that a flag, a
tool or a block written in one go refers to (`OpenMatch`), each reference is to a
block of its kind (`KindsHold`), no two are the same (`IndicesDistinct`). It is
claimed while no line of the fallback was relayed. Actions that begin a block
share `IndicesGrow`, those that end one `MatchStops`, the others `MatchStays`. From
the invariant follow `StreamInv` (`BuilderAgrees`) and, event by event
(`StartFollows`, `DeltaFollows`, `StopFollows`, `MessageFollows`), that the stream
implements `BlockProtocol` (`StreamImplementsProtocol`).

`SSEStreamProofs` also proves that no message is empty (`SomethingIsShown`): when the
ensured space is due, no block has begun and no tool has, or one of them stays.

`AccountRotationProofs`, for any accounts, requests, models, delays and any number
of edits and crashes. `Inv` relates the three lists of accounts to the indices
(`ListInv`) and says what a request may hold at each of its places (`Holds`); an
attempt is one lemma (`AttemptDoes`), since five actions end in it. Hence `ListsStaySane`.
`PickFinds` says of the search that it goes once around all accounts (arithmetic
of the remainder, `AroundAll`), and `RequestMoves` that every step of a request is an attempt or
leaves what it has been through; hence `NobodyIsSkipped` and, if no delay is
0, `FailuresAlwaysRotate`. `FreshInv` says that a token is at least as new as it is
taken for, in the cache of every account but the manual ones and in an answer on its way;
hence `TokensStayFresh`.

That the newest token of an account is never lost (`NewestTokenStays`) is not inductive.
`TokenInv` adds that no list and no request has a token that is not minted yet
(`KnownInv`, `CarryInv`) and that a token on its way is known to nobody but
Google (`SoleInv`): neither a list nor another refresh has it, so nobody
else can use it up before it arrives. Most steps bring no request a token
(`Calm`, `CalmStep`); Google's rotation (`RotationCarries`), the arrival (`ArrivalCarries`), a restart
and the account tool do, each with a lemma of its own. The assumptions are those on the constants: the
first accounts have different emails and either the first token or the key of a manual
account, the refresh interval is positive.

`NodeOutputProofs`, for any ids, indexes, sizes and any number of events. That the
transcript has what the conversation said (`TranscriptInv`) is claimed while nothing
waits to be handled, so `Inv` looks ahead: either transcript and CLI are in step, or
they will be when the one event that waits is applied (`SyncInv`). In step (`InStep`)
means more than the property says. The stack has the Tasks of the CLI entry
by entry, the result that the CLI is going to send for one finds its entry and none
that is older, and the result of another tool finds none (`SubagentsAgree`); the block
that streams is the last text of the transcript (`BlockAgrees`), or its next delta
would land elsewhere; the texts are those that were said, by an order-preserving map
of positions (`TextsAre`). Each kind of event has a lemma about `Apply` (`ChunkApplied`,
`StartApplied`, `DeltaApplied`, `StopApplied`, `TaskApplied`, `ToolApplied`,
`TaskResultApplied`, `ToolResultApplied`, `ErrorApplied`), which begins with what the
operations of the buffer keep (`AddsSegment`, `PartAdded`, `BlockStopped`, `Pushed`,
`PopsLast`, `PopsNone`), and each action of the CLI one that cites it. Hence
`TranscriptStaysInStep`.

What is sent at the end (`EndOfRunIsShown`) is one lemma about `Render` and an
invariant about the order of steps. `RenderFits`: for every transcript the result has
the status that was asked for, is within the limit and, where there is room for it,
has the newest segment; dropping the oldest keeps the newest (`NewestKept`), and the
smallest cut that fits exists (`LeastElement`). `EndInv`: a process that has exited leaves
an error and a complete event, or the latter alone, and once both are handled the message
shows "complete" for the transcript as it is (`ExitShown`); afterwards, or after a failure or a
cancellation, nothing moves (`OverShown`). The assumptions are those on the
constants: the entry for a Task without an id is no id, which holds as far as the CLI
makes ids of its own kind, and a status fits into a message, since it is one line
and the limits are 3900 and 1900 characters.

Only model-checked: all liveness (`QueueDrains`, `CancelledEnds`,
`SavesEventually`, `CallsEnd`, `RequestsEnd`, `StreamCompletes`,
`CancelledRunsEnd`), which is beyond the prover under fairness; and
`SplitDoesNotMatter`, which is about what recursive functions compute and would need
induction over texts.

## 5. Plan

Modelled: conversations, session store, both limiters, streams and their
parsers, accounts, CLI processes, transcript. All of their safety properties but
`SplitDoesNotMatter` are proved. Left:

1. `Restart`: handler, store and trees composed, with a crash between any two
   steps and `from_dict` with `cleanup_stale_nodes` afterwards.

## 6. Not modelled

* Platform adapters: wrappers around the chat libraries. What they send goes
  through the messaging limiter, which is modelled. The maps of pending voice
  notes are the only state of their own; their lock is never held across an await, so
  each operation on them is one step.
* Restoring trees at the start: `from_dict` and `cleanup_stale_nodes` are one pass over
  data, before any task runs; what the file can hold then is in `SessionStore`.
* Markdown rendering, status wording, logging: text without state. Of a rendered segment
  `Transcript` keeps the size.
* Request conversion and the HTTP fast paths: pure functions of one request.
* The other providers: subclasses of the loop in `openai_compat.py` that override
  the request only.
* Configuration: read once.
