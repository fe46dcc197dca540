# A TLA+ model of aidea

aidea is a privately deployed coding assistant: a decision core in Rust
(`src/crates/core`), a completion backend (`src/crates/probe`), a command line
(`src/crates/cli`), and a desktop application in Tauri and React (`src/gui`).
This directory models the parts of it whose correctness depends on order,
interleaving or failure, checks them with TLC on small instances, and proves
the properties that matter most with TLAPS for every value of the constants.

1. [Inventory](#1-inventory)
2. [Modules](#2-modules)
3. [Runs](#3-runs)
4. [Where the code and its documents disagree](#4-where-the-code-and-its-documents-disagree)
5. [Bounds, fairness, abstractions](#5-bounds-fairness-abstractions)
6. [Proofs](#6-proofs)
7. [What is not modelled](#7-what-is-not-modelled)
8. [What could come next](#8-what-could-come-next)

## 1. Inventory

| Component | State | Operations | Interacts with |
|---|---|---|---|
| Authority (`permissions.rs`, `principal.rs`) | six permission bits of a principal | classify a tool name, check a bit | everything that acts |
| Quest engine (`quest.rs`) | subtask statuses, tallies, pending approvals | run, execute_subtask, the approval gate | the planner, through a tool executor of its own |
| ReAct planner (`planner.rs`, `validator.rs`, `tool_executor.rs`) | steps of a loop, counters | think, plan, authorize_and_record, run, validate | language model, audit sink, host |
| Self-healing (`self_heal.rs`, `engineering.rs`) | repairs made | run, suggest_patch | the base executor, which may start commands |
| Audit trail (`audit.rs`, `migrations/*.sql`) | a table of rows chained by hash | record, log_audit, the insert trigger, audit_verify_chain | spawned by the agent server, awaited by planner, chat and craft |
| Craft mode (`craft.rs`, `host/`) | proposals and their states, sessions | propose, mark_pending, confirm, confirm_all, reject, reject_all | host documents, audit sink |
| Craft page (`gui/.../CraftPage.tsx`, `domain/craft.rs`, `domain/fs_host.rs`) | one proposal on a page; files on disk | craft_propose, craft_confirm, craft_reject, FsHost::apply_edit | commands run in parallel, the page comes and goes |
| Completion (`probe/src/ollama.rs`) | cache (queue and map), a semaphore per batch | complete, run_batch | a model over HTTP with timeouts and retries |
| Agent server (`agent.rs`, `auth.rs`, `security.rs`) | a map of chat sessions under one async mutex | nes_complete, run_agent, chat, run_quest | all of the above, per request |
| Chat (`chat.rs`, `context_manager.rs`) | history, context window | reply, push, budget_trim, compress | language model, audit |
| Collaboration (`collab.rs`, `gui/.../domain/collab.rs`, `CollabPage.tsx`) | a table of comments, the desktop's locks, what a page lists | add, list_for_file, resolve, acquire, release | Postgres or memory, the command line |
| Desktop shell (`gui/src-tauri/src`, `ChatPage.tsx`) | the processes of the stack, the handle, the clients, the phase, abort tokens | bootstrap, restart_with_vendor, register/cancel abort, run_chat, run_agent | child processes that outlive it, the agent server |
| Configuration (`model_backend.rs`, `config.rs`, `agent.rs`) | environment variables of a serve process | to_serve_env, from_map, build_llm | the desktop writes them, the server reads them |
| Code graph and retrieval (`ckg.rs`, `retrieval.rs`) | a mirror in memory, two tables | parse_source, ingest_file, load, query, rank | Postgres, the context manager |
| Metrics, health, administration, the rest of the command line, packaging | counters, text | print | |

**What is hard.** One quest is a single sequential task, but it nests four loops
(subtasks, attempts, steps, repairs), each with a bound of its own, around a
language model that may answer anything. Around it everything is concurrent: an
RPC handler is a task, the agent server spawns a task per audit event, a desktop
command outlives the page that started it, a batch has a task per item, and the
processes the desktop starts outlive the desktop. State is
read on one side of an await and used on the other (the previous hash of an
audit row, the text of a file, a cache lookup, a proposal's state). Failures are
mostly swallowed on purpose: an audit record that fails is logged, a host that
refuses an edit ends one proposal of a batch, a model that times out is retried
and then replaced by rules.

**What makes each component correct.**

* Authority and quest: nothing runs that the principal is not permitted, on any
  path, patched re-runs included; no granted risky action is lost between the
  gate and the report; the work of a quest is bounded and the quest ends; its
  report agrees with its subtasks.
* Audit: the table verifies, no chain runs into another tenant's, no event is
  stored twice or reported stored and missing, an awaited caller's rows are in
  order, and the chain is linear where its writers allow it to be.
* Craft: a proposal reads Applied exactly if it took effect, each effect has a
  granted audit event before it, the results of a batch are true, and the
  user's own text survives.
* Craft page: each proposal is written at most once, the page tells the truth,
  and what was written stays.
* Chat: no exchange enters a session between what the model saw of it and what is
  appended; a session remembers whole exchanges of its own; its two memories
  agree; the one mutex over all sessions is never stranded, and each chat gets it.
* Desktop: a command that answers Ok has switched the backend, in both clients of
  the server that is reached; a stream can be stopped, and then stays quiet; the page
  knows whether it waits; every task ends.
* Collaboration: what a caller was told to be stored stays there as it was given; no
  tenant sees another's comments; a page lists a comment once and shows only locks
  that are held.
* Code graph and context: an answer tells every fact the files hold about a needle, of
  this tenant's files only, across restarts; every file with such a fact is named in it; a trim drops the worst chunks and no more.
* Completion: the cache is consistent under overlapping calls, holds model
  answers only, evicts first in first out; every call returns in bounded time
  with an answer that fits; a batch respects its width, keeps its order, returns.

`PROJECT.json` lists the hazards of the code at their lines, with the properties
that watch each of them, and says of the rest why none does.

## 2. Modules

| Module | Models | Uses |
|---|---|---|
| `Governance` | permission bits, the classification of tool names, the check (`permissions.rs`, `principal.rs`) | |
| `GovernedActions` | **abstract**: a tool takes effect only under a ticket the boundary issued, for a bounded number of tries | `Governance` |
| `Quest` | one quest: decomposition, attempts, the ReAct loop, boundary, approval gate, breaker, validator | `Governance`, instantiates `GovernedActions` |
| `AuditChain` | the audit table and its writers, the SQL trigger and the verification | `Governance` |
| `TextEdits` | `contains` and `replacen(old, new, 1)` on texts that are sequences of fragments | |
| `Craft` | proposals, the engine, sessions and batches over `CliHost` | `TextEdits` |
| `CraftDesk` | the page, its stateless commands and `FsHost` on disk | `TextEdits` |
| `Nes` | `NesClient::complete` of many calls: cache, retries, backoff, degradation | |
| `NesBatch` | `run_batch`: permits, spawned tasks, joining | |
| `ChatService` | the handlers `chat` and `nes_complete`, the session map under its mutex, `ChatEngine::reply`, `ChatSession` and its window | `Governance` |
| `CoreConfig` | how a `VendorConfig` becomes environment variables, and these the two clients of a server | |
| `DesktopStack` | the bootstrap with its second attempt, the switch of the backend, the serve processes, exit and start of the application | `CoreConfig` |
| `Desktop` | the stack, the streams on top of it with their abort tokens, and the chat page | `DesktopStack` |
| `CommentBoard` | **abstract**: a comment is written once under an id of its own, and at most resolved | |
| `Collab` | comment and lock stores under the commands of the page and of other programs | instantiates `CommentBoard` |
| `CodeParser` | the line scanner: what `parse_source` makes of a file | |
| `CodeGraph` | the neighbourhood query, and the store: mirror, tables, load, ingest; what the parser makes of each source is its constant `Parsed` | |
| `ContextWindow` | chunks, budget_trim, compress, enrich_from_ckg, rank and retrieve_with_ckg | `CodeGraph` |
| `MCAuditChain`, `MCCraft`, `MCCraftDesk`, `MCChatService`, `MCDesktop`, `MCCollab`, `MCContextWindow`, `MCNes` | values of constants for TLC, and the constraints of three runs; `MCContextWindow` gives `Parsed` the graphs of `CodeParser`; `MCNes` explores the calls of `Nes` or a batch of `NesBatch` | |
| `QuestProofs`, `TableProofs` (of `AuditChain` and `Collab`), `CraftProofs` (with `CraftDesk`), `NesProofs` (with `NesBatch`), `ChatProofs`, `DesktopProofs`, `CodeGraphProofs` (with `ContextWindow`) | theorems | `TLAPS` |
| `Induction` | induction over the naturals, least elements and functions defined by recursion, as lemmas of sets and functions | `TLAPS` |

An operator whose name ends in an underscore and a phrase
(`NoticesCancel_Never`) is not part of a model: it is a plausible mistake in
the code behind the operator of the same stem, kept so that each property can be
shown to notice one.

**Quest.** `pc` is the await (or the point between two of them) the task stands
at. `Decompose`, `SelectSubtask`, `RetrySubtask`, `SubtaskSucceeds`,
`SubtaskFails` and `Report` are the loops of `Quest::run`; `Think`, `PlanAction`,
`Authorize`, `Refuse`, `Observe` and `StepsSpent` are `Planner::run` with
`authorize_and_record`; `DeferAction` and `PassGate` are `QuestToolExecutor::run`;
`RunTool` and `SuggestPatch` are `SelfHeal::run`. An observation is told apart by
its terminal flag, by whether its text is `task finished`, and by whether the
boundary authorized it. The language model is nondeterministic: it plans any
tool, and may fail at any call. What the engineering executor runs for a tool
name is modelled as it is: `ShellCommands` are the names it maps to a command,
and none of them is classified by the boundary.

**AuditChain.** Each event passes through `select`, `insert` and then `stored`,
`dropped` or `lost`; `SelectPrev` and `Insert` are the two statements of
`PgAuditSink::record`, and other records act between them. A caller in `Inline`
awaits each record before it goes on (planner, chat), any other spawns it
(agent server). The digest is free of collisions: a hash *is* the list of
payloads it digests. `HelperInsert` is `log_audit` with the trigger, `Restart` a
process that stops. `SeesRows` says whether row-level security lets the sink's
role read.

**Craft.** `stage` is where the confirm of a proposal stands: between the audit
record and the host it may be overtaken by confirms of other proposals and by
the user's typing. `Free` and `SessionFree` are Rust's exclusive borrows. A text
is a sequence of fragments, an edit a splice of the first occurrence of its old
text, as `replacen(.., 1)`.

**CraftDesk.** The commands keep nothing, so the module's state is the page, the
commands under way (each with the text it has read and is going to write), and
the disk. `Leave` unmounts the page and leaves its command running. A file is any
sequence of `Words`.

**Nes, NesBatch.** A call is `idle`, in a `request`, in `backoff`, `done` or
`dropped`; an answer is told by who produced it and for which context. `fills`
and `filledAt` are history: they number the insertions of new keys. In the batch
the backend is one step per item, ok or error, since `Nes` says it ends.

**ChatService.** Each request is a task. `Unauthenticated`, `Denied` and `Admitted`
are the lines every handler begins with. A chat is then `queued` for tokio's fair
mutex, and holds it while its audit event is `recording`, its thought `thinking` and
its plan `planning`; `Reply` appends both turns, frees the mutex and audits the turn a
second time. `LlmFails` and `Dropped` free it on the way of an error and of a client
that goes away. A turn is told by its request and role. `budget_trim` drops chunks
only, and a session has none, so nothing of a window is ever trimmed by tokens.

**CoreConfig, DesktopStack, Desktop.** A task (`boot`, or a command that changes the
backend) stands at a place of `pc`; each action is what it does up to its next await
or lock. `StartPg` to `AwaitLlama` are the parts of `bootstrap_stack` before serve, whose
failures are fatal or tolerated as in the code; `ReadVendor`, `Spawn`, `KeepHandle`,
`AwaitServe` and `Connect` are `start_with_vendor` and `ensure_connected`, for both kinds of
task. A serve process carries the environment it was started with, and `mute` is one
that holds the port and answers nothing. `Quit` ends the tasks and the memory of the
application, and no process. `Desktop` adds the streams: `request`, `streaming`, `emit`,
and three ways to end, of which `failed` is the one no event tells of. `orderly` and
`steady` are history: they mark the runs of which the code can promise something.

**CommentBoard, Collab.** Each call makes a store of its own, as the commands do: a
connection, or the empty memory of a fallback. The id of a comment is its millisecond;
a transaction is one step, which may be refused, or applied with its answer lost. `page`
and `listed` are the state of `CollabPage.tsx`, and `by` who is waiting for a call when the
page may have gone on. `acquire` and `release` of `InMemoryLockStore` have no failure.

**CodeParser, CodeGraph, ContextWindow.** A line is the sequence of its words and marks, so that
`decl_name` and its neighbours are what the scanner does: the first occurrence of each keyword anywhere
on the line, and no brace. The store does nothing with a source but append what it was parsed
to, which is why its module takes the parser as a parameter. `tables` has the rows of the
store's tenant and `others` those of another one, which a session that is not pinned
reads as well (`Visible`). An ingest extends the mirror and then inserts row after row
(`Insert`, `InsertFails`), beside other ingests and until a `Restart`; `Connect`, `LoadSymbols` and
`LoadEdges` are three steps of `connect`, each of which may fail. A token is
one of the first bytes of a chunk, its tail, or the mark of a truncation. Sorting, filtering and
removing repetitions are all `Ordered`, the entries of a sequence at the places of a set in
an order given by what is ahead of each; `Selected` is the case of the order they stand in.

## 3. Runs

Each passing run has for each of its properties a mutant in `PROJECT.json`: a
mistake in one mapped operator under which TLC finds the property violated. What
is proved for every value of the constants (section 6) is run as well where a
mistake in the code could break it; the type invariants are only proved.

| Run | Question | Shows |
|---|---|---|
| `quest_gated` | Gate closed, a principal without `Execute` | `EffectsGoverned`, `ApprovalsAccountForGrants`, `SubtasksInOrder` |
| `quest_engineering` | Real commands that fail and are repaired, gate open | `RunsCoveredByGrants`, `WorkBounded`, `QuestReturns`, `ImplementsContract` |
| `audit_concurrent` | Awaited and spawned records of one tenant, `log_audit` of another, failures, restarts | `ChainRooted`, `OneRowEach`, `InlineInOrder` |
| `craft_review` | Single and batched review of dependent edits, a command and a commit without its bit, a second confirm, a typing user | `AppliedIffEffect`, `BatchTruthful`, `UserTextKept` |
| `desk_page` | The page against its commands, with failures, misread files, tab changes and other programs | `PageTellsTruth`, `WrittenStays` |
| `nes_service` | Overlapping calls on a cache of two: what is cached, which answer after which tries, in what time, and that there is one; or a batch of more items than permits, with failing items and a caller that leaves | `CacheConsistent`, `AnswersFit`, `SpendingBounded`, `CallsReturn`, `BatchReturns` |
| `chat_sessions` | Chats that overfill the window of a session, a refused caller, failing models, clients that leave, a completion beside them | `PromptUpToDate`, `WholeExchanges`, `ChatsAnswered` |
| `desktop_app` | The bootstrap and its second attempt, a command that switches the backend, serves that fail or hang, an exit and a new start, the chat page with streams that replace each other | `OrderlySwitchTakesEffect`, `ReadyIsUsable`, `StoppedStaysQuiet`, `BusyTracksStream`, `StoppableUntilStopped`, `TasksEnd`, `StopTakesEffect` |
| `collab_page` | Comments and locks of the page and of other programs, two tenants, one millisecond, a database that refuses, loses answers or is gone | `ToldIsKept`, `TenantsApart`, `ListedOnce`, `LockShownIsHeld`, `ImplementsBoard` |
| `code_context` | The graph and its tables across restarts, overlapping ingests, refused rows and cut loads, another tenant's rows; the context and the retrieval that draw on it | `AnswersMatchGraph`, `OnlyOwnCode`, `NothingForgotten`, `BestHitsAndAllNeighbours`, `TrimKeepsBest` |
| `audit_forked` | Is the chain of a tenant linear? (section 4) | `ChainLinear` violated |
| `same_names` | Does every file with a fact to tell contribute to an answer? (section 4) | `EveryFileContributes` violated |

## 4. Where the code and its documents disagree

`audit_forked` is a counterexample TLC finds to what `0005_v20.sql:213` and
`audit.rs:88` say, that a row chains to the previous row of its tenant: two
overlapping records read the same previous row, and both chain to it.

`same_names` is one to the test `query_groups_by_file_and_dedups` (`ckg.rs:844`). It ingests one text
as `a.rs` and as `z.rs`, says that "both files contribute" to the answer about `process`, and
asserts a row of `z.rs`; `ckg.rs:495` says that a query returns the "symbols connected to any symbol
whose name contains" the needle. But `query` finds the other end of an edge by its name, and
`symbol_by_name` (`ckg.rs:491`) returns the first symbol of that name in any file, so that every row
has the file that was ingested first and the assertion fails. `AnswersMatchGraph` and
`BestHitsAndAllNeighbours` are about what is told, names and relations, and hold; they leave open
which of several symbols of one name is told. `AnswersTellTheFirst` proves which, and
`FilesApartContribute` that the claim holds while no two files define one name.

The models have the following as the code has it, without a run of their own.
Where a property comes near one of them, its statement says on which side it stays.

*Quest and authority.*

* `quest.rs:384` tells success by the text `task finished`: a goal reached by another
  terminal observation ends the loop, counts as failed, and is retried, with what it
  executed executed again. `WorkBounded` bounds the repetition.
* `validator.rs:3-5` says that a disallowed action stops the loop; `Refuse` makes
  it an observation like others, and the loop goes on.
* `principal.rs:148-152` does not classify the tool names `ShellTool` runs commands for
  (git, cargo, sh, test): they need no bit and pass the gate. `EffectsGoverned` speaks
  of what is classified.
* `principal.rs:114` and `0001_init.sql:39` document `perm_bit` as an index 0..5;
  `BitValue` is the value of the bit, up to 32.

*Audit.*

* `audit_verify_chain` (`0005_v20.sql:291`) recomputes each row from its own `prev_hash` and
  never compares it with the row before it: a row that is gone is not reported.
* `0001_init.sql:214` has a policy for INSERT only, and `0003_v10.sql:75` gives the sink a
  role that may only INSERT; with `SeesRows` false every row then starts a chain of
  its own.
* A chat turn is audited by `ChatEngine` (`chat.rs:220`) and again by the handler
  (`agent.rs:542`).

*Craft.*

* `confirm` does not read the state of a proposal, so that one that was rejected is
  applied by a later `confirm_all` of its session.
* `fs_host.rs:31` takes a file it cannot read as UTF-8 for an empty one, and
  appending to it replaces it (`ReadMayFail`, `misread`).
* `fs_host.rs:33` requires the old text "so that nothing is changed by mistake", of a
  text read before another command's write: a confirm that outlives its page can undo
  the next one. `WrittenStays` claims it only of a page the user stays on.

*Chat and completion.*

* `chat.rs:81` says that `budget_tokens` caps the working memory of a session;
  `budget_trim` drops chunks, which a session has none of, so that only the number of
  turns is capped, and `chat.rs:82` caps the history while the prompt is composed of a
  window four times as long.
* `metrics.rs` counts as `llm_calls` of a chat its complete replies: two calls each, and
  none for a chat that failed (`Reply`, `LlmFails`).
* `ollama.rs:12` speaks of a budget of 300 ms; with the default settings
  `SpendingBounded` allows, and a call whose requests time out takes, 990 ms.
* `openai.rs:7` says both backends answer for (prefix, suffix, language); the cache
  of `NesClient` leaves the suffix out, so `AnswersFit` claims it only of calls
  that asked the model.

*Desktop.*

* `client.rs:27` speaks of a total time limit; the clock is read between two questions
  only, and one to a serve that hangs has no limit (`Stuck`).
* `emit_progress(Ready)` comes before the connection (`bootstrap/mod.rs:97`), whose failure
  is ignored: `ReadyIsUsable` claims clients only of a run whose serves do not fail.
* A handle is overwritten by a second attempt (`bootstrap/serve.rs:35`), and the processes survive
  the application: the old serve keeps the port, the new one exits, and a switch is
  answered Ok by the old one. `OrderlySwitchTakesEffect` is about runs without this.
* The configuration a user saved is not read at the next start (`state.rs:62`), so serve
  is started with the default one.
* The settings page stores the key of an online vendor with `secret_set`, which writes it
  to PostgreSQL (`domain/collab.rs:122`), and serve is given what the keyring holds
  (`bootstrap/serve.rs:20`): in `Desktop` the key is a constant no command changes.
* A stream whose request fails emits no event (`stream.rs:34`): the page stays busy.

*Collaboration.*

* `SET LOCAL app.tenant_id = $1` (`collab.rs:30`) takes no parameter in PostgreSQL either, and
  `add` binds an `i64` to the INTEGER columns `line_start` and `line_end` (`collab.rs:226`,
  `0005_v20.sql:108`), which `list` reads as `i64` again: with the schema as it is, no transaction of
  a `PgCommentStore` succeeds, and a comment call that has its connection ends in an error.
  `Collab` lets the database refuse any transaction or none, so it has this behaviour and the
  intended one.
* A comment that cannot reach the database is added to a memory that ends with its
  command (`domain/collab.rs:31`), and the page shows it as added.
* `release` asks nobody who holds the lock, and `acquire` takes over any.

*Code graph and context.*

* `impl<T> Foo` is named after `T`, a method after the last `impl` of the file wherever it
  ended (`current_impl` is never cleared), and `use a::b as c` has the target `b as c`.
* Repetitions are dropped only where the sort made them neighbours, and only with the same
  relation: an answer may name one place twice, where the documents say "de-duplicated"
  (`ckg.rs:497`) and "no duplicate (file,line,name)" (`ckg.rs:849`).
* The columns `line` are INTEGER (`0004_v15.sql:16`) and the code binds an `i64`, which the
  driver refuses; `SET app.tenant_id = $1` (`ckg.rs:612`) takes no parameter in
  PostgreSQL. Both failures are logged or ignored. The model leaves open whether a row is
  taken and a session pinned, so it has this behaviour and the intended one.
* `compress` keeps the first of two equal texts whatever their priorities, and cuts at
  a byte that may be inside a character, which panics; bytes end on a character in
  the model.

## 5. Bounds, fairness, abstractions

**Bounds.** Constants of the code are constants of the modules, and the runs give
them small values at which their comparisons bite: a subtask over the budget, a
validator limit on either side of the planner's, a breaker of one and of two, a
retry, a cache of two with three keys, more items than permits. The proofs of `Nes` and
`NesBatch` also cover the zero that the code lifts to one. Bounds that are the model's alone are named in the
CONSTANTS of each module and commented there:

* `Quest`: `MaxParsed` (three subtasks, one over a budget of two). Nothing else
  is bounded: the code's own bounds make the state space finite.
* `AuditChain`: `MaxEvents` (two per caller: a record can overlap with the next
  of its own caller and with both of the other) and `MaxHelper`. `Restart` may
  happen at any time and any number of times.
* `Craft`: `MaxConfirms` (two for the second edit, which may then fail before or
  after it took effect; one for the others), `MaxTyped`.
* `CraftDesk`: `MaxProposals`, `MaxLeaves` and `MaxSaves`, enough for two commands
  on one file, one of a page that is gone, and a save between a read and a write.
* `Nes`: each call of `Calls` calls once. Three calls for three keys let two miss on
  one key and insert it over each other, and a third fill evict the oldest. Every request takes
  all of its `Timeout`. `Horizon` stops the stopwatch of a call far
  above the worst case, so that a call that never ends has finitely many states.
* `NesBatch`: more items than permits. A batch asks the backend directly and shares nothing with the
  calls of `Nes`; `MCNes` explores either, whichever begins first, and `BatchReturns` says that a
  batch that has begun returns or is dropped.
* `ChatService`: `max_turns` is 2, so that a history holds one exchange and a window
  four; five chats of one session make both evict, in any order and with any of them
  failing. Each request is made once, and one of them comes from any caller, so that
  refusals happen without multiplying the states by callers. That sessions do not
  mix is proved (`OwnReplies`) rather than run.
* `Desktop`: `Attempts` is the code's 2. `MaxServes` (two processes ever spawned), `MaxFaults`
  (one fails while it serves) and `MaxStarts` (two runs of the application) let an old serve
  meet a new one in each of the three ways the code allows: through a second attempt,
  an exit, or a command. One command is given at a time; with two at once the invariants
  hold as well, and their proofs are for any number. The constraint `Scope` of `MCDesktop`
  explores the stack through everything with the page closed, and the page and its streams
  in a first run whose bootstrap is done: two streams before any command (agents of one of the
  two sessions, and a serve that fails beside one stream only), and one chat across a command. The stack reads nothing of the streams, so that what
  `Scope` leaves out are combinations of streams with a failing stack.
* `Collab`: two calls at once, two tenants and files, two milliseconds and `MaxAdds` of two:
  both comments in one millisecond, or in two. `Scope` of `MCCollab` explores comments and locks one
  after the other, since they share only the page's file, and gives an impatient user one comment.
* `CodeGraph`, `ContextWindow`: two ingests of three sources (`MaxIngests`), one restart, one refused
  row, another tenant's rows or none; `MaxPushes` and `MaxChunks` go past `MaxItems` and the
  budget. Three needles find one symbol by its name, several by a letter, and an `impl` whose
  edges lead back to it. `same_names` takes two ingests of one text as two files. `ScopedSpec` of `MCContextWindow` is the specification within
  `Scope`: the context on the graphs of a store without a database, as it reads the mirror alone,
  and overlapping inserts while no row is refused. No step leads back into it from outside.

**Fairness.** Only five modules claim anything eventual. A quest is one task the
runtime polls, `WF_vars(Next)`: its requests have timeouts, a host edit is local,
and a command it starts is *assumed* to exit (nothing in the code bounds it). In
`Nes` a call that has begun goes on, `WF_vars(Resume(c))`, since a request ends at
its timeout and a backoff is a timer; nothing says that a call is ever made, or
that a caller stays. In `ChatService` an admitted request goes
on, `WF_vars(Proceed(r))`: requests to the language model time out after 120 s
(`llm.rs:145`, `llm.rs:241`), the mutex serves its queue in order, and an audit record is *assumed*
to return, as nothing bounds it. In `NesBatch` the batch and each of its tasks are polled.
In `Desktop` the bootstrap, each command that has begun and each stream go on: every wait
of the stack is for a bounded time (the action is not enabled while a question to a serve
that hangs has none), and a server that does not hang is *assumed* to send an
item, an end or an error. Nothing is assumed of the user and of the serve processes, which may
never listen. Under `Scope` TLC checks `TasksEnd` and `StopTakesEffect` of the behaviours that stay
within it; for `TasksEnd` that loses nothing of the stack by itself, since no step of the stack
leaves the part of `Scope` whose page is closed.
`AuditChain`, `Craft`, `CraftDesk`, `Collab` and `ContextWindow` state safety only, and assume nothing.

**Deadlock.** `CHECK_DEADLOCK FALSE` is set where the system may stop: a quest
that has reported, bounded events, confirms, calls, items, starts or ingests that are
all spent.

**Abstractions.** Texts are sequences of fragments, digests are what they digest,
prompts and model answers are left out (any plan may follow any prompt), time is
left out except for the stopwatch of a completion call and the milliseconds that become
ids of comments, the similarity of two texts is a number, a scan of a table is *assumed* to
return its rows in the order they were inserted, and printing, logging and
tracing are left out. The audit counter of a quest moves as the metric does,
whether or not the record succeeds; `AuditChain` models what becomes of it.

## 6. Proofs

`tlapm` checks every proof to its leaves, from the assumptions named in the
modules (`BudgetAssumption`, `PolicyAssumption`, `CallerAssumption`,
`CraftAssumption`, `DeskAssumption`, `NesAssumption`, `BatchAssumption`, `ChatAssumption`,
`DesktopAssumption`, `StreamsAssumption`, `CollabAssumption`, `CodeGraphAssumption`,
`ContextWindowAssumption`), which say that
bounds are naturals and that masks, tenants, documents, edits, configurations, chunks and the graphs
a parser makes have their types; that a request takes its timeout at most (`NesAssumption`), as the
HTTP client cuts it there; and that no similarity is below zero (`ContextWindowAssumption`), as
it is a product of vectors of counts. TLC evaluates each of them in the runs, and has checked
the strengthenings below as invariants of the runs before they were proved.

Three things the models compute by recursion or by sorting are proved about through
`Induction`: a set of numbers that has a least element, a set that has 0 and every successor,
and the function over the naturals a recursive definition describes, which exists (`Recursion`).
Stated of sets and functions, they can be cited by any proof.

**`QuestProofs`**, for any tools, principal and budgets. `TypeCorrect` needs
`Position`, where cur and repairs may stand at each await (in particular that a
repair is under way only below the breaker's bound). `Governed` carries what the boundary
decided along the pipeline: past it the tool is permitted, past the gate it may
run. `Implements` maps the steps between the boundary and the observation to an
open ticket whose tries the patched re-runs count down, and shows that each step
is one of the contract's or a stutter. `ApprovalsAccounted` and `BreakerHolds`
count: a granted risky action is at the gate or in the list, and the runs of
the open grant are those its repairs allow.

`OrderAlways` splits the order of the subtasks into a statement about each of them
(`InOrder`: done before the current one, untouched after it, skipped exactly over the
budget) and one about the moments between two (`Settled`). Each step then moves at
most one status and one tally, so that the tallies remain cardinalities
(`TalliesMatchStatuses`), and the report comes when nothing is left pending
(`ReportComplete`). `WorkStaysBounded` counts in attempts: `Over` is the number of those
that ended, over all subtasks, and `Asked` what the current one may have asked the
model for, and each step asks within the attempt, ends it, or goes on to a later
one (`WorkMove`). `LoopBounded` has the two bounds on the steps of an attempt, the
planner's and the validator's, of which the second lets the first step pass.

**`TableProofs`** is about the two tables. `AuditChain`, for any callers, events, tenants and
failures: the invariant says
that a hash which a record holds between its two statements is that of a row of its
own tenant already in the table (rows are only appended, so it stays so), that an event
has a row only once its INSERT was tried, and that an awaiting caller has at most its last
event in flight. From it follow `ChainAlwaysRooted`, `RecordedOnce` and `InlineKeepsOrder`.
`AwaitedChainLinear` is what remains of the claim `audit_forked` refutes: the chain of a tenant that
one caller alone writes, that awaits each of its records and whose role may read the table, never
forks. There the hash a record holds between its two statements is still the newest of
its tenant when it inserts (`StillNewest`).

`Collab`, for any tenants, files, commands and milliseconds: `TableInv` says what the
stage of a call tells of its other parts (`CallShape`), that a comment whose answer is on its
way is in the table as it was given (`Answered`), and that what a list has found for the page
exists and is the page's tenant's (`FoundHere`). Each transaction then maps to `add` or `resolve`
of the board, or changes nothing (`TableIsBoard`). `PatientInv` is about the user who waits: one
call at a time is the page's, the comment it is about to be told is not listed yet, the file of
an acquire that was served is locked, and only between a lock's step and its answer
does the page show what is not so.

**`CraftProofs`**, for any proposals, documents and mask. `Structure` says that a
session names no proposal twice and that while a batch runs only the proposal the
loop has come to is not idle; without it `BatchTellsTruth` is not inductive, since
a result could be pushed for another proposal than the one that took effect.
`UserTextSurvives` rests on lemmas about splices: a fragment outside the replaced
part keeps standing somewhere, and the replaced part is exactly the old text.

The same module has `CraftDesk`, for any files, words, edits and failures. `PageInv`
joins the page to the commands it started and has perhaps forgotten: at most one command is awaited,
for the proposal shown and while the page is busy (`OneAwaited`); a proposal is known to one visit of
the page only (`OwnProposal`); a file edit was written if and only if a command for it is done
(`WrittenByCommand`); and the state shown says so (`PageAgrees`). `ThePageTellsTruth`
is what these say together. `WhatIsWrittenStays` needs `NothingUndone` beside them:
while the user stays on the page and the disk works, the words of every edit written, but those a
later edit may remove, stand in the file *and* in the text a command has computed and
not yet written. That is inductive only because no second command can be between its
read and its write then, which is `OneAwaited` again.

**`NesProofs`**, for any calls, keys, capacity and retries. The invariant `Queue`
places each queued key by the number of the fill that put it there
(`filledAt[order[i]] = fills - Len(order) + i`) and says of every other key that it
was never filled or has seen as many fills since as the cache has places. Both
`CacheStaysConsistent` (no key is queued twice) and `FirstInFirstOut` follow from
it by arithmetic. `AnswersAlwaysFit` adds that a call on its way was not
answered by the cache. `SpendingAlwaysBounded` follows the stopwatch of a call (`SpentSoFar`): with n
retries made it has spent n timeouts and the n backoffs before them, `Paused[n]`, which never decreases
with n; the cap of the shift at 30 can only make a backoff shorter.

For `NesBatch`, with any batch and width, the items with a task are those spawned, and the permits
left and the running tasks make up the semaphore (`BatchIInv`).

**`ChatProofs`**, for any requests, callers, sessions and `max_turns`. `ChatMutexAccounted`
goes through the queue as a sequence: appended to, served from its head, and left from
the middle (`UnqueuedSpec`). With one chat at a time in the critical section
`ChatPromptUpToDate` follows, although the prompt is composed two awaits before the
append. `PushAgrees` describes one push of either memory in the same way (`Pushed`) and
shows that a window with room for all the history keeps never falls behind it;
`ChatMemoriesAgree` iterates it. `ChatTurnsAuthorized` joins `Admission`, what each await
tells of rights and grants, with `OwnReplies`, whose turns a session holds.
`ChatWholeExchanges` adds `Whole`: a memory is a sequence of pairs, user before
assistant and of one request. Two pushes append a pair and evict none or one from the front
of a memory with an even capacity (`PairPushed`); of a history with an odd one nothing of the
kind is claimed, since there it is not true.

**`DesktopProofs`**, for any vendors, names, key, attempts, commands, processes, streams and
sessions, in two halves, each with an invariant about its own variables. `StreamInv` is about the
streams: a stream that has shown a token after its stop waits for the item that makes it
look, or has ended (`Quiet`), and the last message of a steady page has a chat of the page's
session, which no other living chat is for (`Tracked`); with them `StoppableUntilStopped` and
`BusyTracksStream` are inductive. `StackInv` is about the stack: a task holds a process
exactly between spawning and storing it (`Owning`), and in an orderly run `InOrder`: one task
is at work, the handle is free when serve is spawned, no living process escapes the handle,
the environment a task has read is that of the configuration in force, and every living serve
was started with one that works for it, unless a local backend could not be restarted or a
command is about to stop it. Without these `OrderlySwitchTakesEffect` is not inductive: a
command could find its process unstored, or started with an older configuration. That an environment works is
`ServeEnvWorks`: from the pairs `to_serve_env` sets, through `from_map`, to both clients, for every
configuration (`LocalEnvWorks`, `OnlineEnvWorks`).

**`CodeGraphProofs`**, for any sources, parser, concurrent ingests, restarts and refused rows, beside
whatever the context does (the theorems are about the specification of `ContextWindow`, which
includes the store). The invariant follows a row: from the file it was parsed from (`ingested`) to
the task that inserts it, the tables, and the mirror that a load fills from them.
`OwnRows` says that nothing else gets into tables and tasks, `OwnMirror` that a load
reads no other tenant's rows where every session could be pinned; with `Kept`, as long as nothing was
refused or cut short, every row is in the tables or still with its task, and a store that
is up has all of them in its mirror. That needs `Quiet`: a store that is not up has no rows
to insert, or a load would miss those still on their way. `AnswersAreOwn` and `AnswersKeepEverything`
follow, as a neighbourhood only grows with the graph (`MoreRowsMoreFacts`).

What queries, trims and retrievals compute is proved for every graph and every context, whatever led
to it. `OrderedPlaces` is behind all of it: if of any two places one is ahead of the other, and what is
ahead of that too, then as many places are ahead of each as come before it, so that
`Ordered` has every entry once, by a count of finite sets. Sorting (`SortedAnswers`), filtering
(`SelectedEntries`, `SelectedRange`) and the removal of repetitions (`DedupAnswers`: an entry that goes
equals the one before it, so the first of its kind stays, by `Least`) are instances. `QueryFinds` adds
that seeds and edges make every pair once (`RowAndColumn`), so that an answer is the `Neighbourhood`:
of each name an edge joins to the needle the first symbol, with the relation. `AnswersTellTheGraph`
and `AnswersTellTheFirst` are its two halves, what is told and of which symbol; and where names are of one
file only, the first symbol of a name is of the file that tells it (`FilesApartContribute`, by
`PartWithin`).

`TrimsKeepTheBest` iterates one step of the loop (`TrimStep`): what is kept is always `Best`, and a step
drops a chunk or is `Settled`, so that as many steps as there are chunks end the trim
(`TrimmedKeeps`). The worst chunk of what is left goes, its first of the lowest priority (`WorstOne`), and
removing an entry is selecting one place less (`SelectedWithout`). `ContextInv` says of the chunks
that each has a priority and an estimate, also those a query found, whose symbols are of
known files (`KnownRows`). `RetrievalsFindTheBest` needs it for the scores: the order of the hits
is one only where scores are numbers. The first places of that order are the best hits (`RawRanks`), and
every fact of the graph is behind them (`RelatedAfter`). The run checks it for up
to two chunks asked for, the lemma `Retrieves` is for any number.

**Only model-checked.** Liveness (`QuestReturns`, `CallsReturn`, `BatchReturns`, `ChatsAnswered`,
`TasksEnd`, `StopTakesEffect`) is out of the prover's reach. What the scanner of `CodeParser` makes
of a file is evaluated in the run `code_context` only; to the proofs it is any graph. Every
other property of a passing run is a theorem; `PROJECT.json` names it.

## 7. What is not modelled

* `run_with_context` of the planner: the same loop over a seeded context.
* The remote host (`host/grpc_host_client.rs`): it passes the host's operations
  over the wire; the core loop never calls the one that waits for a person.
* `CachedCompletionBackend` and `DegradingBackend`: the two parts of `NesClient`,
  one at a time; the OpenAI-compatible backend, one request without state;
  ranking, rules and the speed harness, which are sequential and pure.
* Of the agent server, `run_agent` and `run_quest` (the admission of `ChatService` before
  a `Quest`), the verification of tokens and the secret store.
* Of the desktop, the commands that only read, and the pages of quest, console and
  settings, which show what one command answers.
* Of collaboration, the lock store of an invocation of `cmd_lock`, which ends with it.
* Settings that no choice of the desktop touches, metrics formats, health and administration
  endpoints, the rest of the command line and packaging: sequential, data, or plumbing.

## 8. What could come next

1. `run_agent` and `run_quest` behind the admission of `ChatService`, as a
   composition with `Quest`; per-request principals against the planner's own.
2. Composition of `Quest` and `Craft` with `AuditChain`: what an auditor may
   conclude from the rows about what ran, records dropped on the way included.
3. Proofs: that each grant is run at most once per ticket when the engineering tools need no
   repair; what `compress` keeps of a context; that an edge `CodeParser` makes names a symbol of its file
   or a name the file mentions.
