# Isabelle-MCP in TLA+

Isabelle-MCP is a Model Context Protocol server through which an agent drives
the Isabelle theorem prover. A Python asyncio process (`src/isabelle_mcp/*.py`)
serves the tools; it launches one Isabelle/Scala language server (the fork under
`src/isabelle_mcp/scala/Isabelle2026`) and speaks LSP plus `PIDE/*` extensions
with it over two pipes; the Scala process drives Poly/ML. What makes the system
hard is what it does *between* those three: several tool calls share one
evaluation, pictures of the documents arrive asynchronously, everything can be
cancelled at every await, and every wait has a bound after which something else
must still be right.

This directory models that. Paths below are relative to `src/src/isabelle_mcp/`.

## The modules

| module | what it is |
|---|---|
| `EvaluationRun` | the shared evaluation: `EvaluationState`, `evaluate_to`, the wait loop, status, footer, query guard, cancel, teardowns |
| `MCEvaluationRun` | its instances |
| `EvaluationRunProofs` | its inductive invariant and its theorems, one for each safety property |
| `Freshness` | when a picture of a document may be believed: client and server halves, the two pipes |
| `PictureTrust` | the abstract promise of the decoration cache, which `Freshness` implements |
| `MCFreshness` | its instances |
| `FreshnessProofs` | its invariants and six theorems, the step refinement of `PictureTrust` among them |
| `DocumentSync` | how the text of an open file follows the disk: openings, the two syncs, the ASCII guard, the write lock, lost and rejected changes, precompiled files, the server's models |
| `MCDocumentSync` | its instances |
| `DocumentSyncProofs` | its three invariants and seven theorems |
| `DebuggerAdapter` | evaluations at a breakpoint: the callers and their fence, the adapter's pending table, debts and backstops, the debugger loop as it sees it |
| `OneReply` | what each evaluation is promised, which `DebuggerAdapter` implements |
| `MCDebuggerAdapter` | its instances |
| `DebuggerAdapterProofs` | its invariant and five theorems, the step refinement of `OneReply` among them |
| `BreakpointRegistry` | the agent's breakpoints against the prover's sites: set, delete, enable and disable all, the reconciliation, edits, retirements, teardowns |
| `MCBreakpointRegistry` | its instance |
| `BreakpointRegistryProofs` | its invariant and five theorems |
| `DebugSession` | launch, terminate, catastrophe and the hit table: pushes, continue, step, the hit report, a cancel's attribution |
| `MCDebugSession` | its instance |
| `DebugSessionProofs` | its invariant and four theorems |
| `CancelRetire` | the server half of a cancellation: stanch, probe, retract, retire, against every other writer of the document |
| `MCCancelRetire` | its instance |
| `CancelRetireProofs` | its invariant and four theorems |
| `DataLemmas` | facts about least and greatest numbers and about the places of a queue, which several proofs cite |

## Inventory

| component | state | operations | who it talks to |
|---|---|---|---|
| Evaluation runs (`evaluation.py`) | `EvaluationState`: active, file, target line, current `Evaluation` (outcome, riders); the evaluation lock | `evaluate_to`, `evaluation_status`, footer, `check_evaluation_guard`, `cancel_evaluation` | reads pictures, sends carets and cancels, sweeps breakpoints |
| Freshness (`processing.py`, `lsp_client.py`) | newest version, content counters, one `ProcessingTracker` per open file | fold a push, flush, wait until fresh | server output, every reader of a picture |
| Document synchronisation (`lsp_client.py`, `document_diff.py`, `unicode_guard.py`) | `DocumentState`: content, version, stat signature, needs_full_sync, target mark | open, sync dirty files, backstop, unified close | disk, watcher, freshness |
| File watcher (`file_watcher.py`, `MCP_File_Watcher`) | watched directories, debounce | dispatch, add/remove watch | document synchronisation |
| JSON-RPC client | pending requests, write lock, process | request, notify, read loop, shutdown, teardown | everything |
| Session lifecycle (`server.py`) | the one client, middleware | launch, terminate, catastrophe | teardown, evaluation lock |
| Breakpoint registry (`debugger.py`) | entries, dirty files, the registry lock | set, delete, enable all, disable all, reconcile, a cancellation's wrap-up | language server (listing, toggling), evaluation |
| Hit table (`debugger.py`) | live and retired hits, notices, what of the pushes is folded | fold, continue, step, report, attribute an ending | debugger adapter, middleware |
| Debugger adapter (`debugger.scala`) | one pending request per thread, debts, timers | eval, step, state and output handlers, exit | ML debugger |
| Document output (`vscode_resources.scala`, `vscode_model.scala`) | models, pending input, published baselines, update serial | change, close, flush input, flush output, resync | session, client |
| Cancellation, server half (`language_server.scala`, `mcp_prelude.ML`) | strikes, retraction | stanch, retract, retire | session, output |
| Positional queries (`query.py`, `query.scala`) | one print function per query | query, cancel | overlays |
| Query tools, formatting, install, panels, symbols | none that lasts | render | not modelled |

What makes each correct, and where it could go wrong:

* **Runs.** A run ends once, with one outcome; one call's giving up never ends
  the run under another; nobody says COMPLETED of a run that was not; after a
  confirmed cancel the prover is not driven on. Every await in `evaluate_to`
  is a place where the run may have been finished, replaced or torn down.
* **Freshness.** A reader believes a picture only if it is whole and of the text
  last written; a wait for one ends. Pushes, versions and replies cross edits,
  closings and reopenings.
* **Synchronisation.** Disk, document and prover come to agree; what the client
  committed is what the server gets; a diff meets the text it was taken of.
  Files move under every read, sends are cut off, the server rejects.
* **Registry.** What is shown as armed is on, what is on is shown, and the death of
  a site reaches its entry, although calls await the prover at every switch and
  edits do not wait for them.
* **Adapter.** Each debugger request gets exactly one answer, its own.
* **Hit table.** One hit per halt; none passes the agent by; none outlives its thread.
* **Server cancel.** "Retired" only when nothing runs and nothing was given back.
* **Lifecycle.** Whoever finds the session's lock free finds a settled session.

The hazards of the code, each with its line and the properties that cover it, or
why none does, are in `PROJECT.json`.

## EvaluationRun

Every asyncio request runs undisturbed from one await to the next, so **an
action is the code between two awaits**, and a request's `pc` names the await it
is parked at. `lock` is `_evaluation_state_lock`.

* `Evaluators` are calls of `evaluate_to`. The run a call starts (an
  `Evaluation` object, identified by reference) is named after the call.
  `EvalEnters` → `EvalJoins` (under the lock: reopen, `join_or_start`, caret) →
  `EvalCaretSent`/`EvalCaretFails` → `EvalFresh` → `EvalChecks` / `EvalDecides` /
  `EvalTimesOut` → a reply, or `EvalAborts` at any await.
* `Readers` are calls that look at a run: the status tool, the footer, and the
  guard of a query, which may *ride* (`join_only`) until its line is served.
* `Cancellers` are calls of `cancel_evaluation`: the local shortcut, the request
  under the lock, its success, failure, and its being dropped by the caller,
  after which the server carries it out all the same (`LateCancel`).
* `Teardown` is `IsabelleLSPClient.teardown`, which terminate, launch and the
  catastrophe handler run and which fails every pending wait.
* The prover is what the client sees of it: a frontier advancing towards the
  caret, forked proofs joining, the picture going stale and fresh again, a
  breakpoint hit blocking it, an edit pushing the frontier back.

`swept`, `stranded` and `peak` are history variables no guard reads.

### Runs of EvaluationRun

| run | instance | asks |
|---|---|---|
| `shared` | two evaluations, one reader, one file of two lines | `TypeOK`; the prover is driven to the target (`DrivenToTarget`), which never retreats (`TargetNeverRetreats`); a stamp is earned (`CompletionIsEarned`) and a progress report current (`ProgressIsCurrent`) |
| `cancel` | the same with a canceller and the teardowns, one line, breakpoint hits | `Bookkeeping` (riders, flag and stamps agree), `AbortSparesSharedRun`, `CompletedIsStamped`, `NoCaretAfterCancel`, `OutcomeWrittenOnce` |
| `live` | one evaluation, one reader, one canceller, two files, one a changed precompiled theory, no breakpoints, with fairness | every request is answered (`EveryRequestAnswered`); a cancel ends the run (`CancelEndsTheRun`) |

Two files (`live`) bring the refusals of another file's call and of a precompiled theory
that was changed; breakpoint hits are in `cancel`. Two evaluations are enough for a run to be shared, replaced and outlived; two
lines (`shared`) for a target to advance and for an older, smaller one to exist; one
reader for a rider that is not an evaluation. `MaxLine` and the request sets are
the only bounds: every request is made at most once, and every variable is
finite. Evaluations and readers are interchangeable, so the safety runs use
symmetry; the live run does not. `CHECK_DEADLOCK FALSE`: when every request is
answered the system rests.

Fairness (`FairSpec`): every wait in the code carries a bound (send and
freshness timeouts, poll interval, cancel budget), so a request always takes its
next step (weak fairness); asyncio's lock is granted in order of asking, so a
step that needs the lock is not passed over for ever (strong fairness). Nothing
is assumed of the prover, the editor, or anyone's wish to cancel.

## Freshness

The client numbers nothing; the server's versions are positions in `history`
(real ids tick downward, which `AtLeastAsNew` and `NewerOf` hide exactly as
`at_least_as_new` and `newer_of` do). `up` and `down` are the two FIFO pipes. An
action of the server is one stay in the monitor of `VSCode_Resources`, or one
read outside it; this is why `flush_output` is three actions (`OutputStarts`
reads the update serial, `OutputReads` the document state, `OutputFlushed`
revalidates and publishes) and `PIDE/flush` is three (`FlushAbsorbs`,
`FlushAwaits`, `FlushReplies`).

* `disk`, `text`: the text on disk and the text the client last wrote for the
  file, numbered. A send reads the disk off the event loop, so it may be behind.
* `sends`, `flushed`, `newest`: `FreshnessState`. `tracker`: `ProcessingTracker`,
  with two ghosts, the picture (`whole`) and text a push stood for.
* `base`: a model's published baseline. `publish` sends all types on an empty
  one, the changed types otherwise, an acknowledgement when nothing changed but
  the version did, and nothing when this version was pushed already.
* `model`, `shown`, `pending`, `history`, `stable`, `serial`: the models, which
  are visible, which have unflushed edits, the versions and which are assigned.
* A wait (`wait_until_fresh`) asks its flush, parks, and re-arms when content
  landed past its snapshot. The waits modelled want every open file, the widest
  set the code asks for.

**Promise.** `PictureTrust` knows for each file either nothing or its very text;
an edit of any file makes it forget all of them. `TrustImplemented` checks that
each step of `Freshness` is such a step, with `seen[f]` the text of `f`'s picture
while `Fresh(f)` and unknown otherwise.

### Runs of Freshness

| run | instance | asks |
|---|---|---|
| `fresh` | one file, two texts, two sends, two pictures of two types, one wait | `TypeOK`, `TrustIsSound` (with it that a cover is honest), `WaitReturnsFresh`, `TrustImplemented` |
| `freshlive` | one picture, three versions, one wait that may give up, closings whose send times out after its bytes | `WaitEnds` |
| `stall` | as `fresh`, closings may time out before or after their bytes, **violated** | see Findings |

Two pictures that differ in one of two types are the least in which a push is a
slice. Two sends (`MaxSends`) allow an edit or a close and reopening; two texts
(`MaxText`) make one newer; `MaxVersion` stops versions nobody's edit asks for,
and leaves the live run one consolidation after the text is published;
`MaxPushes` stops a busy prover signalling while replies wait. `GivesUp` and
`Stalls` switch two failures on: a wait may give up in `freshlive` only (it
doubles the state space and touches nothing the safety properties read; with it
on, `fresh` passes too). A didClose may time out in `freshlive` after its bytes
went out, and in `stall` either way. In `fresh` it does not: `TrustIsSound` is shown
under that assumption, because the code does not keep it otherwise. A close that
was not written at all also defeats `WaitEnds` (the full push is dropped, and only
differences come after it), so `freshlive` leaves that one out. A wait that
overlaps another is within the specification, but its instances are too large
for two pictures.

Fairness: both pipes are drained, started delays fire (`Delay.first`), the
prover assigns what it is given, pending edits are flushed, parked coroutines
whose condition holds run. Nothing obliges an edit, an opening, a closing, a
consolidation or a giving up.

Assumed and not checked here: a send is written when it is counted
(`DocumentSync` has the send that is not); an open that follows a close
is read after it, which `_write_lock`, held over the drain, gives.

## DocumentSync

`disk[f]` has a text, a stat signature and whether it holds glyphs the ASCII
guard converts. A write makes the file's next signature, which also names its
text, so that a touch is a new signature on an old text and a deletion the text 0.
Reading and stat'ing happen on other threads: the actions `OpenReads`,
`SyncReads`, `EntryStats` are the moments a thread looks, and the disk moves in
between.

* `sync` is whoever holds `_evaluation_state_lock`: the watcher's sink
  (`SinkStarts`), a tool call's stat backstop (`EntryStarts`, `EntryStats`), the
  unified close. Teardown and launch take the same lock, so they are guarded by
  `sync.phase = "idle"`; that the document under a sync stays registered is part
  of `TypeOK`. `opener` are the calls of `open_document`, which take no lock.
* `queue` is `_write_lock`'s queue: its first element writes (`Write`), drains,
  and leaves. A send may be cut off by its timeout or its caller's cancellation,
  after its bytes were written or, with `CutsBeforeBytes`, before (`Cut`).
* `doc` is `DocumentState`: the content *committed before the send*, the
  signature taken *after* it, `needs_full_sync`, the evaluation-target mark.
* `model` and `up` are the server: `change_model` applies a whole text or a diff;
  a diff of another text than the model's garbles it or is rejected. A rejection
  (`RejectionRead`) drops all signatures and demands whole texts.
* `events` are the files of which a sink is scheduled. Sinks for one file that
  are scheduled together count as one: the second reads what the first read. A sink
  that finds no process drops its event (`SinkFindsNoProcess`); one that looked
  before a teardown and got the lock after it commits a text that it cannot send
  (`SyncCommits` with `~alive`).

`lost` and `slipped` are history variables no guard reads. `lost[f]`: the last
text queued for `f` was cut off before its bytes, or registered or committed with
no process to send it to, and no whole text was queued since. `slipped[f]`: the text of
`f`'s didOpen was out of date when the file was stat'ed.

### Runs of DocumentSync

| run | instance | asks |
|---|---|---|
| `sync` | a theory file and a precompiled one, two openings, one edit each, a teardown and a relaunch; sends cut off anywhere | `TypeOK`, `PushedTextArrives`, `TargetsStay` |
| `arrive` | one watched file, edited twice besides the guard's rewrites, with fairness; sends cut off after their bytes | `HiddenEditsAreSeen`, `EditsArrive` |

Two openings race for one file; one edit is enough for a diff, and with the text
of a didOpen cut off before its bytes, for a diff without its base; two edits and
a rewrite (`arrive`) put one edit before and one after any stat. `MaxPipe` is 1 in
`sync`, where the next message waits in `queue` instead. `MaxOpens` and `MaxStarts`
bound documents and sessions.

`PushedTextArrives` says nothing of a file that is `lost`: the code has no repair
for that except a rejection (see Findings), and the property says that this is
the *only* way content and prover part. `EditsArrive` likewise spares what
`slipped`, and is checked for a directory that stays watched.

Fairness: threads return, the pipe is drained, an opening goes on (weak); a
scheduled sink gets the lock, which `asyncio.Lock` hands on in order of asking
(strong). No tool call, edit, opening or closing is obliged to happen: edits
arrive by the watcher alone.

## DebuggerAdapter

A tool's evaluation travels from the client (`debugger.py`) through the
language server's main loop to `debugger.scala`, which hands it to Pure's
debugger loop in the stopped ML thread, and back. Three queues make it hard.

* `up` and `down` are the connection. The main loop acts on resumptions and
  aborts as it reads them, but *posts* an evaluation's check-register-send, so a
  resumption overtakes an evaluation sent before it.
* `posted` and `out` are what the session dispatcher works off: closures posted to
  it (evaluation starts, fired backstops) and the prover's messages. Each is in
  order; between the two there is none. An action of the adapter is one such
  item: `handle_state`, `handle_output`, `prover_exit`, a start, a backstop.
* `inputs[t]` is what Pure keeps for thread `t` *by name*, stopped or not.

The prover answers with states only: one when a thread stops and one after each
input. That a state completes a request rather than announces a stop is the
adapter's inference from `pending` and `debt`; the part of `OwnReply` about debts says
that it infers right. The client's half is the fence: `task[t]` is `hit.eval_task` while it is not
done. `Fetches` are the implicit listing of locals in a hit report, which asks no
fence. An evaluation may end at any moment of its own, by its deadline or by an
abort; the abort flag only hastens it and is not a variable.

`answer`, `said`, `owed` and `astray` are history variables no guard reads.
`astray` is the poisoning the code's comment at `debugger.scala:430` and the
design's section 7.4 describe: a thread that resumes between the adapter's check
and the prover's dequeue keeps the evaluation in its queue and takes it at its
next stop. `OwnReply` is claimed of threads to which
that has not happened; `PromiseKept`, `NoneForgotten` and `StateBeforeReply` of all.

`OneReply` has one owner per thread and one reply per evaluation, and knows
neither queues nor timers: an evaluation keeps its thread until its end even
if its caller was told to wait no longer.

### Runs of DebuggerAdapter

| run | instance | asks |
|---|---|---|
| `debug` | one thread stopping twice, two evaluations (one a fetch), one resumption, one abort; the prover may exit | `TypeOK`, `OwnReply`, `StateBeforeReply`, `NoneForgotten`, `PromiseKept` |

The tables are keyed by thread and threads meet only in the map of a
notification, so one thread is enough for what they owe; two stops let an
evaluation outlive its stop; two evaluations, the second past the fence, are what
the adapter's own busy check is for. `MaxOut`
and `MaxDown` bound `out` and `down` as a pipe's back-pressure does: who would
write waits. Two states may be on their way from the prover; to the client, one
state and its reply.

## BreakpointRegistry

A call of a tool that switches sites holds `registry.lock` and awaits the prover
at every switch; an action is again the code between two awaits. `wire` is the
FIFO of switches, which the prover applies and answers one by one
(`ProverToggles`). The prover numbers its sites as they are compiled (`Compile`);
a site dies with an edit of its file or of a file it depends on, with a
retirement (`Retire`) or with the process (`TeardownBegins`, `TeardownEnds`); a
statement compiled again has a new serial.

An edit and the dirty mark that reports it are steps of their own (`due` holds
the edits whose mark is still to come):

* `EditPushed`: `sync_dirty_files` commits the text and writes the didChange; the
  file is marked when the send returns (`MarkSet`), or never, if the send is cut off
  after its bytes (`MarkLost`: the send bound, a cancelled caller).
  `EditReaches`: the prover has the edit, and the sites downstream die with it.
  Until then (`coming`) the edited file's own listings answer `outdated` and are
  asked again, but a listing of a file downstream still shows its old sites, and a
  reconciliation that popped the mark meanwhile believes it.
  A flush hands over every edit pending before it, so the steps of a flush
  (`EditReread`, `EditAbsorbed`, `Retire`) come after the `EditReaches` of each
  push, and a statement of the edited file is compiled only then.
* `EditReread`: a flush re-reads the files that are not open; those that changed
  are marked when its answer is read (`MarkSet`), or not, if the flush fails
  (`MarkLost`).
* `EditAbsorbed`: the server's own watcher re-read the file first, or an opening
  or a closing brought another text; no flush names the file and nobody marks it.

* `SetLists` → `SetAnswered` → `SetAbandoned` per entry that is rebound → the
  record. `DeleteStarts`, `DeleteAnswered`. `DisableStarts`, `DisableAnswered` per
  armed entry. `EnableCollects` (no write) → `EnableReopens` (outside the lock) →
  `EnableFlags` → per file `EnableLists`, per entry `EnableAnswered` → the merge.
* Every successful call ends in the middleware's `reconcile_dirty` (`After`,
  `ReconcileTargets`, `ReconcileVerifies` per file).
* `ToggleFails` is a caller's deadline, after which the prover may still obey;
  `Cut` is a call cancelled at an await. `SweepDemotes` and `SweepSkipped` are a
  cancellation's wrap-up with and without the lock, `SweepDropped` is the wrap-up
  that its own cancelled caller never reaches.

Abstractions: a statement is a model value with a text it is recognised by and
a line, one statement to a line, so `at_text` never has to choose; a listing is
the prover's answer at one moment; the entries of a file are resolved when its
listing arrives, not each before its switch. That the edited file's own snapshot is
outdated until the prover has the edit, and that of another file is not, is
Isabelle's doing and external. `delete` takes one reference at a time; a call
that waits for the lock has done nothing yet, so a call begins when it gets it.
While a cancellation has retired but not yet demoted nothing is compiled or
pushed and nothing is torn down, and no cancellation or teardown begins while a
push waits for its send: all of them hold the evaluation lock.

`unsure`, `doubled`, `stale` and `untold` are history variables no guard reads, the
exceptions of the properties. `unsure`: no finished call vouches for the site's
switch (unanswered, or its call was cut short). `doubled`: two entries
stood on the site between calls, the second armed outside the merge or its call
cut before it. `stale`: an entry was armed on the serial after its site had died (a
new prover may give the serial to another site). `untold`: the entry's site died
and nothing will report it, because the mark was lost with a cut send or a failed
flush, was never due, or was popped before the edit reached the files downstream,
or because the wrap-up was skipped or dropped. Each is a gap of the code, listed
below. `FlagMatchesSite` and `NoStrayBreakpoint` exempt `unsure` and `stale` (the
first also `doubled`), `SiteDeathIsNoticed` exempts `stale` and `untold`: apart from
these, the model has no way for entry and site to part.

### Runs of BreakpointRegistry

| run | instance | asks |
|---|---|---|
| `sites` | a theory and an ML file it loads, a breakable statement in each, two lines; two calls at once, three in all, two troubles | `TypeOK`, `FlagMatchesSite`, `NoStrayBreakpoint`, `SiteDeathIsNoticed`, `LiveEntryKeepsItsSite` |

Two entries are needed for a merge, a rebinding and a half-way failure; two
serials (`MaxSerial`) for a statement to be compiled again under an entry that
knows its old one; the ML file for an edit that kills sites of another file, later
than its own. The
third call is the one that meets what two others left. `MaxTrouble` is a common
budget for edits, failed requests, cancelled calls, retirements and teardowns:
two of them in any order. The state space ends where the budgets do, hence
`CHECK_DEADLOCK FALSE`.

## DebugSession

The life of the prover process and the threads that halt in it.

* `process`, `shaken`, `logic` are the client's; `living` is the operating system's. A
  launch holds `_evaluation_state_lock` through `LaunchStarts` (a teardown first
  if there is something) → `Spawns` → `Shakes` → `Launched`, or `LaunchFails` →
  `Reaps`. `Terminate` and the catastrophe handler (`CancelFails`) wait for that
  lock, then run `TeardownStarts`, `TeardownEnds`.
* A thread that halts or resumes pushes the whole map (`Push`); `Receive` replaces
  the client's map and appends to the history. The hit table is folded from that
  history, push by push (`Synced`), by whatever call looks next.
* `table` is the hit table with its retired hits and the notice buffer. A call
  *takes* a notice when its own result leads with the hit (`Consumed`); the
  middleware hands over the rest (`Returns`).
* Continue and step attribute the ending of a hit before or after the fact:
  `ContinueSends` marks each hit and sends its verb, `ContinueEnds` takes the mark
  back from those still live; a step marks the hit stepping, so that a push
  without its thread does not retire it, and ends in `StepStops` or `StepLeaves`.
* `isabelle_evaluate_to` refuses over live hits (`EvaluateRefused`) or reports
  those that end its wait (`ReportStarts`, `ReportEnds`). A cancel attributes
  before the interrupt and takes it back when nothing was running.

Abstractions: a stack is the number of the halt it belongs to; `news` stands for
"the history is longer than when the wait last looked"; Pure keeps verbs by thread
name (`inbox`), stopped or not; nothing halts while a launch holds the lock, since
nothing is evaluated. `told` (hits named to the agent) and `cut` (hits whose step was
cancelled, or failed unacknowledged) are history variables no guard reads.

### Runs of DebugSession

| run | instance | asks |
|---|---|---|
| `hits` | two threads, two calls at once and three in all, two kinds of session, three halts, two processes, two troubles | `TypeOK`, `HitPerHalt`, `EveryHitIsTold`, `SettledWhenFree` |

Two threads, since one push is about all of them; three halts, so that one
thread stops again while the other's hit lives; two processes, so that what was
said of the first can be mistaken for the second. `MaxTrouble` is the common
budget of crashes, deadlines, failed requests and cancelled calls. Threads,
calls and sessions are interchangeable (symmetry).

`SettledWhenFree` was worth its run: a launch that is cancelled while it collects
its killed process has `shaken` and the pushes of that process left behind, and
it is only because the process is forgotten in every branch (`Reaps`) and the
next `Spawns` resets the handshake that nobody mistakes them for a session.

## CancelRetire

One `PIDE/cancel_evaluation` request against the document of one theory.

* A version (`history`) is its sequence of commands and whether its perspective
  asks for work. A command's id is the version that minted it and its place
  there; an exec is a command and the version that created it. So *re-minted*
  and *reassigned* are inequality of ids, as in Isabelle.
* `doc` is what the monitor of `VSCode_Resources` protects: pending edits, the
  queue, caret, overlay table, and the two serials that count updates and real
  overlay changes. `Edit`, `InsertOverlay`, `RemoveOverlay` and `FlushInput` write it.
* `toML` and `fromML` are the channels of the prover; `MLCancels` reports, fails, or loses
  its report; `Receive` applies assignments in order.
* The request: `ReadsState` → `Sends` → `ChecksReport`/`ChecksPong` → `Retracts` →
  rounds of `ReadsSerial` (under the monitor), `ReadsAgain` (outside it), and
  `RoundRetaken`, `RoundFlushes` or `RoundRetires` (under it again) → `Lands` →
  `AssertsRetracted`. `GivesUp` is every bounded wait running out.

Assumed, as `docs/CANCELLATION.md` section 8 argues: an exec runs only once Scala was
told of its assignment, so what is interrupted is among the probed. The caret does
not move, since the client sends it under the evaluation lock, which it holds for
the whole cancel. An abort ends the model: the client kills the prover then.
*Gone* and *given another exec* are one exclusion here.

### Runs of CancelRetire

| run | instance | asks |
|---|---|---|
| `retire` | two commands, two events | `TypeOK`, `RetiredAreGone`, `NoWorkGivenBack`, `EditsHitTheirTargets` |

`MaxEvents` is one joint budget: edits, overlays, versions the prover makes of its
own, lost or failed reports, edits that miss their command, waits given up. Two of
them in any order are what an edit *and* a query, or an edit between two rounds
of a retire that missed, take. Two commands, since an edit in front of the
second moves it; with three events the state space is beyond the time a run
should take. The request ends, hence `CHECK_DEADLOCK FALSE`.

## What is proved

TLC checks a property on small instances; the theorems below state the same
property for every value of the constants that the module's `ASSUME`s admit. Each
proof module has one inductive invariant, `IInv`, and the same outline: `Init`
gives it, a lemma per conjunct says that a step keeps it, and a property follows
from it. Where the pieces of an invariant need each other, the lemmas say which.

### EvaluationRunProofs

For any number of requests, files and lines. Assumed: the request sets are
finite and disjoint, `NoRun`, `NoFile` and `Free` are none of their members, a file
has at least one line.

* `Requests`: a request at an await has what its code there needs (a run, a
  file, a line), and a reply only when done.
* `Locking`: who is at an await inside the lock holds it; a run is active only in
  a living session.
* `Ledger`: the flag and the stamps agree (`RunLedger`), and a call that has not
  started a run has left no trace of one — this is what makes *starting* a run safe.
* `Counting`: `RidersCounted` and `AbortSparesSharedRun` need each other: the last
  to leave is known by the count. `Bookkeeping` is `RidersCounted` and `RunLedger`.
* `Driving`: while someone is between advancing the target and having sent the
  caret, it is that someone's caret that will reach the target; otherwise the
  caret is there, unless it was lost.
* `Peaking`: nothing was ever quiet further than `peak`, so a stamp taken on an
  old verdict is still earned.
* `Completions`: who replied complete has a run stamped so.

Theorems: `TypeCorrect`, `BooksAreKept`, `AbortSparesOthers`, `CompletedOnlyIfStamped`,
`CancelIsNotUndone`, `ProverIsDriven`, and the action properties `StampedOnce`,
`TargetOnlyAdvances`, `CompletedWhenReached`, `ProgressIsOfCurrentRun`. The last rests
on `Waited`, what the end of a wait may do: it answers progress of a run without
a stamp, and the ledger says that such a run is the current one.

### FreshnessProofs

For any finite set of files, any pictures and waiters, with every bound. `IInv`
is about texts and holds whatever stalls:

* `Tracked`: the text the client last wrote for an open file is what the server's
  model has, or the last message on its way that names the file.
* `Synced`: a model without pending edits is in the newest version as it stands.
* `Counters`, `OneFlush`: a waiter has one flush out, asked, worked on or answered.
* `Covers`: a flush asked behind the last text covers all texts at every stage of
  its way. This is what lets `wait_until_fresh` believe the version in its reply.
* `SerialStands`, `PushesTrue`, `TrackersTrue`: while the update serial stands, the
  versions since the one a rendering read have its texts; so what is pushed, and
  what a tracker holds, has the text of the version it names.

`Pictured` adds the pictures: along the pushes on their way, each names every type
in which it differs from the one before (`Painted`), from the tracker's cache to the
server's published baseline. A didClose cut off by the client breaks that chain,
which the run `stall` shows, so the theorems that need it assume `Stalls = {}`,
the instance in which closes are not cut off; the run `fresh` checks the same.

Theorems: `TypeCorrect`, `CoverHonest`, `TextTrust` and `WaitFresh` with stalls or without;
`TrustHolds` and `CacheRefines` (every step is a step of `PictureTrust` or changes
nothing of it) without.

### DebuggerAdapterProofs

For any threads, any resumptions and aborts, and any finite set of evaluations.

* `Stages` and `Tables`: where an evaluation is on its way, and what the adapter's
  pending table, debts and timers say of it. `Owner`, whose work a thread does, is
  what the adapter's and the prover's side agree on.
* `Told`: a completion comes right behind a state that agrees with it.
* `Waited`: who waits has its request or its reply on the way, or a backstop.
* `Gone`, `Ones`, `Marks`: the prover's messages about one thread come in the
  order of what happened to it, and each end of an evaluation is reported once.
* `Prints`, `SaidOwn`: what was printed between two ends belongs to the second.

Theorems: `TypeCorrect`, `NobodyForgotten`, `StateGoesFirst`, `RepliesAreOwn`, and
`KeepsPromise` (every step is a step of `OneReply` or leaves it alone).

### DebugSessionProofs

For any finite set of threads, any calls, and any number of processes and halts.
The hit table's operators come first: `Folded` is a recursive function over the
backlog, which the lemma `Least` of `DataLemmas` (a set of numbers has a least
one) lets the proof reason about without induction on data. `Folds` says
what folding any backlog keeps, `Adjusts` what a tool's own change keeps. `IInv` is

* `Typed`: ids are live or retired once minted and never both, and a thread has
  one live hit at most;
* `Current`: the table is behind the live map by the backlog only, so that folding
  it brings the table up to date, but for the hits whose step was cut short;
* `Held` and `Steps`: a call's hits, as far as they live, are its threads', and a
  stepping hit is some call's;
* `Session`: who launches or tears down holds the lock, over a prover that has
  not halted anywhere;
* `EveryHitIsTold`, which needs the others: a notice is only taken away by the call
  that reports its hit.

TLC found this invariant to hold in all 1237792 states of the instance before it was
proved. Theorems: `TypeCorrect`, `HitsPerHalt`, `NoHitPassesBy`, `SettledSession`.

### BreakpointRegistryProofs

For any number of calls, files, statements, entries and serials, with every bound.
The registry's operators are taken one by one: `Kept` and `Fresh` are what the step of
a call makes of an armed entry, `Aside` and `Told` what a step of the prover leaves of
the registry. `IInv` is

* `Bound`: an armed entry stands on its statement, in file and line, for as long as
  its site lives. Edits move both.
* `Locking`: who awaits an answer, or is between two files of an enable, holds the
  lock. `HandsOK` is what a call still knows of a site it was listed before an await:
  where it lives, it is where it was listed, and no entry there is bound elsewhere.
* `StagesOK`, `RepliesOK`, `WireOK`: what a call at an await knows of the entries it is
  about, what its answer says of the site, and that a switch on the wire is the
  one its call waits for, or nothing vouches for its site. A late switch of a call that
  gave up is the case that makes these three need each other.
* `Deaths`: an armed entry without its site has a mark to come or is in reach of one
  (`Noticed`), and a mark to come leads to the entries of the sites that died with
  its edit (`Reports`). The entries stand where the sites stood (`Bound`), which is why.
* `OneEach`, `Strays`, `Flags`: the two sides agree, but for the sites a call under way is
  switching (`InFlux`) and the entries of an enable (`Enabling`), which have their flags
  before their sites are on; at the merge these exceptions end. `FlagMatchesSite`
  and `NoStrayBreakpoint` are what is left when nobody holds the lock.

Proving it corrected the model's exceptions. A call cut at an await leaves two entries
on one site without a merge, which `doubled` did not record; and an enable
that spans a teardown and a relaunch arms an entry on a serial of the old prover, which
the new one gives to another site, so that a serial in `stale` can be alive. TLC
showed the second on an instance larger than the run's.

Theorems: `TypeCorrect`, `DeathsAreNoticed`, `SitesAreListed`, `FlagsAreTrue`, and the action
property `LiveEntriesStay`.

### DocumentSyncProofs

For any files, openings, edits and sessions, with every bound. Three invariants, each
checked by TLC before it was proved.

* `Typed`: the types, that the document under a sync stays registered, and that an
  editor's signatures leave room for the guard's rewrite. `TypeCorrect` and
  `TargetsAreKept` follow from it.
* `PushInv`: only the head of the queue can have been written (`HeadWrites`), and the
  messages written and waiting, taken together, *lead* from the server's model to
  the content the client has committed (`Arriving`, `Leads`): after the last whole
  text there are only diffs, each of the text it will meet, and where there is no
  whole text the model has been the client's all along. This is not inductive of
  either half: a write moves a message from the queue to the pipe, a cut takes one
  out of the middle, and what it takes must be excused by `lost`. What appending,
  removing and reading does to `Meets` and `Leads` is proved for any sequence.
  Theorems: `PushedTexts`, and `DrainedIsEqual`: with nothing on its way, the server has
  the client's text as the client's.
* `WatchInv`: what a sync has read is what the disk has, or the file has an event again
  (`ReadIsCurrent`); a sink has one file, and unlike a tool call's own sync it is not
  cancelled while it reads (`OneSink`); an edit that a signature hides has an event
  or such a sink (`Seen`). Theorems: `WatchedEdits`, for every behaviour in which the
  directory stays watched, and `HiddenEdits`, that one session does so where another
  document of the directory stays open: the constants of the run `arrive`. After a
  relaunch the watch starts only when the first didOpen is out; an edit made before
  that has no event, so the assumption cannot be dropped.

`SyncedFilesAreEqual` puts the two halves together, from the disk to the prover: at
rest, a file that the stat backstop would skip has the disk's text in the server.

Proving it corrected the model: a sink looks at the process before it asks for the lock,
and a sync without a process commits and raises.

### CancelRetireProofs

For a theory of any length and any number of events: `QueuesOK` numbers the
versions on the two channels; `Asked`, that the probe is asked and answered once;
`Ages` and `NeverBack`, that an exec which a version dropped is on no later one, whence
`Gone`; `SameText`, the text under a standing serial; `Stillness`, that no version
since the retraction wants work while the overlay table's serial stands. Theorems:
`TypeCorrect`, `NothingInterruptedIsAssigned`, `CancelStaysQuiet`, and the action property
`RetireHitsOnlyTargets`.

### Only model-checked

* Liveness (`EveryRequestAnswered`, `CancelEndsTheRun`, `WaitEnds`, `EditsArrive`): fairness
  and ENABLED are beyond the prover.

Every safety invariant and action property of the passing runs has a theorem.

## Findings

* `stall` — a didClose cut off by the unified close's five-second bound leaves
  the file's tracker behind, and, if it was cut off before its bytes, the
  server's baseline too. Pushes in between are dropped; after a reopening the
  client believes a picture that missed one. The docstrings say that every
  reopening starts with a full push and that closing drops the tracker.

Gaps the models carry without a run of their own; each is an action, or an
exception named by a property.

Evaluation runs:

* `evaluate_to` advances the run's target before it sends the caret
  (`evaluation.py:1325`, `1337`) and does not take it back when the send fails. A
  riding query keeps such a run active with a target the prover was never told;
  the comment at `evaluation.py:1346` calls it honest.

Synchronisation:

* The signature recorded for a document is taken after its text was read and sent
  (`lsp_client.py:1602`). A file written in between counts as synchronised with a
  text nobody read, and the stat backstop skips it, although `unicode_guard.py:63` says
  that signatures taken afterwards stay coherent. `HiddenEditsAreSeen` shows what
  saves it: the write's own event, where there is one.
* `sync_dirty_files` commits content and version before the send
  (`lsp_client.py:1586`); a send cut off while it waits for `_write_lock` leaves
  client and server apart with nothing to notice it (`lost`). A didOpen cut off
  there leaves a registered document the server never heard of, against the
  comment at `lsp_client.py:1254`.
* A rejection read while a sync drains its own didChange is undone when that sync
  ends: `needs_full_sync` and the dropped signature are overwritten
  (`SyncSent` after `RejectionRead`).
* `open_document` can be overtaken by a teardown: it registers its document with
  no process, and the next launch does not clear it, though teardown's docstring
  counts on that (`OpenRegisters` with `~alive`; `Launch` clears nothing). A sink
  that waited for the lock across the teardown then commits a text of that document,
  and raises (`SyncCommits` with `~alive`).
* After a rejection a precompiled document is pushed whole, too, against the
  comment "never pushed"; its text is the same.

Debugger adapter:

* An abort takes *any* reply to its target for the target's end
  (`debugger.py:2171`). When that reply is the backstop's timeout, the evaluation
  is still running, and the agent is told that it has ended.
* An abort is answered on the main loop, past the closures posted: one sent right
  behind an evaluation may be told that there is none (`MainReadsAbort` before
  `RunsPosted`).
* In the debt case the abort is sent again and again until nothing is owed. The
  evaluation it was meant for may have ended in between and the thread have
  accepted another, which it then ends.

Breakpoints (`unsure`, `doubled`, `stale`, `untold` of `BreakpointRegistry`):

* `enable_all` arms two entries on one site when the one that is switched off is
  outside its scope or was bound there meanwhile: the merge looks at its own
  entries only (`debugger.py:1459`), so a disabled entry can stand over a live
  site, which the docstring at `debugger.py:1309` excludes.
* A `disable_all` or `enable_all` cancelled at a switch has written the flag and
  not learnt the site's state.
* Deleting an entry whose state is unknown leaves its site as it is: the serial
  went with the demotion.
* `sync_dirty_files` marks a file after its send has returned (`lsp_client.py:1601`),
  and it committed the text before (`1587`): a send cut off after its bytes kills the
  sites and no later comparison finds a difference to mark (`MarkLost`).
* A mark is popped by the next successful call (`debugger.py:1944`), which may be before
  the server's input delay has passed (`language_server.scala:193`): what is listed
  downstream then is about to die, and nothing is left to say so (`EditReaches`).
* A dependency that the server's own watcher re-reads (`vscode_resources.scala:520`)
  is not among the files the next flush names, so it is never marked (`EditAbsorbed`).
* A reconciliation that finds nothing armed drops the marks it popped
  (`debugger.py:1944`); an arming under way at that moment is recorded on a site that
  may be dead.
* A cancellation's wrap-up gives up on a lock that is held (`debugger.py:2127`), and
  the entries it meant stay armed until the next listing, as its comment accepts;
  a caller cancelled on the way there leaves them so, too (`SweepDropped`).

Hits and sessions (`DebugSession`):

* `step_at_breakpoint` ends its wait at any push that still has its thread in the
  map (`debugger.py:1714`): another thread's push ends it before the step was taken,
  and "stopped again" is said of the old position.
* A step cancelled in its wait leaves its hit stepping, which no push retires any
  more; one whose request failed though the prover had taken the verb leaves a
  hit that a push without its thread ends, and another for its next stop (`cut`).
* The prover queues a verb for any thread name (`debugger.scala:430`): a second
  continue is taken by the next halt.
* The catastrophe handler and `isabelle_terminate` look at the client before they
  wait for the lock (`server.py:219`, `572`), and may tear down a session that was
  launched meanwhile (`TeardownStarts` after `Launched`).

Cancellation, server half:

* The wait looks at the report first and at the pong after; both can arrive
  between the two reads, and a cancel that succeeded then fails as "report lost"
  (`language_server.scala:1073`; `ChecksReport`, `Receive`, `Receive`, `ChecksPong`).

## Merged steps

Some actions are one step where the code has two or three; no property of their
runs turns on what could come between.

* `EvaluationRun`: `Teardown` merges the awaits of `IsabelleLSPClient.teardown`, which
  `DebugSession` splits; `QueryJudges` leaves out the branch that reopens a held
  theory and judges again, `EvalChecks` the re-stat under
  the lock; a cancel
  carried out late is a dropped caller's only, not a timed-out request's.
* `Freshness`: `ReadClose` merges `close_model` and `sync_models`, `FlushAbsorbs` the three
  stays in the monitor with which `flush_body` begins.
* `DebuggerAdapter`: `MainReadsAbort` reads `pending` and `debt` at once; the code reads one
  after the other, off the dispatcher.
* `DocumentSync`: `EntryStats` is the batch of stats and the comparison of its result,
  `Terminate` a whole teardown.
* `BreakpointRegistry`: see its abstractions.

## Plan

In order of importance.

1. `EvaluationRun` — modelled, proved; left to TLC: liveness.
2. `Freshness`, `PictureTrust` — modelled, proved; left to TLC: `WaitEnds`.
3. `DebuggerAdapter`, `OneReply` — modelled, proved.
4. `BreakpointRegistry` — modelled, proved.
5. `DebugSession` — modelled, proved.
6. `CancelRetire` — modelled, proved.
7. `DocumentSync` — modelled, proved; left to TLC: `EditsArrive`.
8. Composing: the cancel of `EvaluationRun` with the record that the local shortcut
   of `cancel_evaluation` reads (`Freshness`). `document_diff` and dependency closure as
   functions checked against reference definitions.

## Not modelled

* Report texts, LSP encodings, renderings and the editor panels; component
  registration and installation: sequential input and output, or text.
* The ML side beyond its visible answers: when a command is compiled, what runs,
  where it halts are choices of the prover in every module.
* The theory_status record, left out of `Freshness`: its stamp moves the newest
  version as the push of a closed file does. `command_status`, which renders it.
* How `set_breakpoint` picks a site among those of a line, the loader pointers, the
  warning about forgotten armings, and the wording of notices: pure functions of a
  listing, of which the registry keeps only the outcome.
* Several theories in one cancellation, and its refusals over required theories
  and load commands: the retire loop treats each theory alike.
* Positional queries (`query.scala`): the overlays they hold are in `CancelRetire`,
  their own replies are not.
* The inotify limits of the watcher: what falls out of it is picked up by the stat
  backstop, which `DocumentSync` has.
