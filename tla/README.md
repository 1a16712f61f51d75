# VANGUARD-X: a formal model

TLA+ modules for the core of VANGUARD-X (`src/src/vanguard_x`), TLC
configurations that check them on small instances, and TLAPS proofs of the
properties that matter most for every instance. Paths below are relative to the
repository root `src/`, so `src/vanguard_x/agents/recon.py` is the recon agent.

## 1. Inventory

VANGUARD-X is an asyncio program. A command (`scan`, `attack`, `pipeline`,
`analyze`, `monitor`) builds agents over one database and one notifier and awaits
them; several commands may run at once against the same database, and `monitor`
runs one recon job per target in a single event loop.

| Part | State it keeps | Operations | Interacts with |
|---|---|---|---|
| `db/database.py`, `db/schema.py` (scan store) | tables `scans`, `assets`, `findings`, `analysis_reports` | `create_scan`, `mark_*`, `persist_*`, `save_attack_result`, `save_analysis_report`, queries; each opens its own transaction | every agent |
| `agents/recon.py` (`ReconAgent`) | locals of `run`: scan id, tool tasks, results | scope check, create, gather over the tools, persist, finalise, diff, notify, two except handlers | store, tools, `ChangeDetector`, notifier |
| `core/changes.py` (`ChangeDetector`) | locals of `detect` | three reads in three transactions, set differences | store |
| `agents/attack.py` (`AttackAgent`) | locals of `run` | like recon for a list of targets; findings then assets; a message per urgent finding | store, tools, notifier |
| `agents/analyze.py` (`AnalyzeAgent`) | locals of `run`, batches | fetch findings, one call or batches of 50 plus a synthesis, save the report | store, language model, notifier |
| `pipeline.py` (`PipelineOrchestrator`) | locals of `run` | recon, extract targets, attack, optionally analyze | the three agents, store |
| `scheduler.py` (`ContinuousMonitor`) | the scheduler's jobs | `start`, `_scan_once`, `shutdown` | APScheduler, `ReconAgent` |
| `tools/__init__.py` (`BaseTool`) | none | scope check, run the command, parse; a parser failure is an empty result | runner, scope |
| `core/runners.py` | the subprocess | `LocalRunner.run` with its timeout, `DockerExecRunner` | operating system |
| `core/scope.py` (`ScopeEnforcer`) | immutable rules | `is_authorized`, `assert_authorized` | agents, tools |
| `notifications/telegram.py` | HTTP client | `send_*`: render, cut at 4096 characters, then deliver, lose, or raise what is not an `httpx.HTTPError` | Telegram |
| `tools/*.py` wrappers | none | `parse`: the tool's output to assets and findings | `BaseTool` |
| `models.py`, `config.py`, `logging_setup.py`, `__main__.py` | none of their own | validation, settings, wiring | |

What is hard here:

* **Interleaving.** Every `await` lets other runs of the same process step, and
  other processes step at any time. `ChangeDetector.detect` reads the store in
  several transactions; two runs of one target may overlap when two commands are
  started (the monitor alone never overlaps a target with itself).
* **gather.** The tools of a run are concurrent tasks. `asyncio.gather` without
  `return_exceptions` hands on the first exception and leaves the other tasks
  running, so results can arrive after the run is over.
* **Partial failure.** A tool that fails is a missing result, a tool that times out
  is an empty one; a refused target stops everything; the database or the HTTP
  client may raise at every call.
* **Handlers.** A scan is marked done before it is summarised and reported, and
  the handler for whatever raises afterwards marks it failed.
* **Subprocesses.** A call of a tool is a task and a process with lives of their own: a
  timeout kills the process, a cancellation does not, and with `docker exec` the
  process is only the client of the tool.
* **Text.** A verdict of the scope or a parser depends on single characters: a dot
  before a suffix, a letter's case, one line that does not validate.
* **Crashes.** `except Exception` sees neither the death of the process nor a
  cancellation; a row may stay pending or running for ever.

What makes each part correct: a row belongs to one run and follows its lifecycle
(store); a done scan holds everything its tools returned and nothing is added to it
later (agents); an alert is true of the stored rows and no change is passed over
(change detection); one refusal stops all work, and a name or an address is refused
unless an entry really covers it (scope); a tool's result is of the output of a process
that has ended, never of one that was cut short (tool calls); everything that starts
settles when nothing crashes (liveness). `PROJECT.json` lists, under `hazards`, the
lines where each can go wrong and the properties that cover them.

## 2. Modules

| Module | What it is |
|---|---|
| `ScanStore` | tables and the operations of `ScanRepository`, one transaction each; no specification of its own |
| `ReconAgent` | `ReconAgent.run` with `ChangeDetector.detect`, for a set of concurrent runs over one store |
| `AttackAgent` | `AttackAgent.run`, for a set of concurrent runs over lists of targets |
| `AnalyzeAgent` | `AnalyzeAgent.run`, for a set of concurrent runs, with or without a scan id |
| `Pipeline` | composes the three agents over one store: `PipelineOrchestrator.run`, beside scans and analyses started on their own |
| `Monitor` | `ContinuousMonitor` with the command that starts and stops it |
| `Scope` | `ScopeEnforcer` and the entries it is built from, with a reference definition of its verdict; operators only |
| `Parsers` | `parse` of the seven wrappers; operators only |
| `ToolCall` | one `BaseTool.run`: scope check, runner, process, timeout, cancellation, parse |
| `ChangeAlert` | one `TelegramNotifier.send_change_alert`: the rendered length, the cap, the cut, the request |
| `OutsideCalls` | composes the two: the calls by which an agent reaches outside its process |
| `ScanHistory` | the abstract specification the agents implement: a log of scans with a lifecycle, and rows recorded only while a scan runs |
| `MCReconAgent`, `MCAttackAgent`, `MCAnalyzeAgent`, `MCPipeline`, `MCOutsideCalls` | small instances for TLC |
| `ScanStoreProofs` | lemmas about the store: what each operation adds, and that it touches the rows of one scan only |
| `ReconAgentProofs`, `AttackAgentProofs`, `AnalyzeAgentProofs` | the theorems about each agent, alone and as far as they hold beside the others |
| `PipelineProofs` | the theorems about the agents together, from instances of those three |
| `MonitorProofs` | the theorems about the monitor |
| `ScopeProofs` | what the operators of `Scope` compute: cuts and labels, powers of two, and that the verdict is the one it should be |
| `OutsideCallsProofs` | what the folds of `Parsers` and `ChangeAlert` compute, and the theorems about tool calls and alerts |

### How state and actions correspond to the code

`ScanStore`. `scans` is the table in id order: ids are assigned by the database in
the order rows are inserted and no row is ever deleted, so the id of a scan is its
position. `assets` and `findings` are sets of rows. An operation is one atomic step,
because each method of `ScanRepository` opens exactly one session and
`Database.session` commits at its end or rolls back (`database.py` 95-104); a method
that raises changes nothing. `Index(id)` is what `changes._index` computes, and
`KeyOf` is `Asset.dedupe_key`: two spellings of a host are two assets with one key.
`FirstOfEachKey` is the `setdefault` loop over the flattened results (recon's own
`_dedupe` runs before the one in `persist_assets` and is idempotent with it).

`ReconAgent`. `pc[r]` names the await run `r` is at; the code between two awaits
cannot be interrupted and is one action. `LaunchTools` runs the first step of every
task: the event loop starts all tasks that `gather` creates before the agent is
resumed, and the scope check of a tool happens before its first await.
`GatherReturns` and `GatherRaises` are the two ways `gather` ends. `FinishTool` is a
task that ends by itself, also after its run is over. `ReadCurrent`, `FindPrevious`
and `Compare` are `detect`; its `get_scan` is part of `ReadCurrent`, because it
reads nothing but the immutable target. Each call to the store or the notifier has a
branch that raises, enabled by `Faults`; a notifier can also lose a message
silently, which is what it does with transport errors. `Interrupt` is a cancellation
or the death of the process; for a crash of the process it is taken by each of its
runs in turn. A run whose last write fails, the one that closes its row, ends as
`abandoned`. `ToolScope` gives the scopes each tool may have, of which a run meets one: a tool
whose own scope differs from the agent's stands for a wrapper that raises `ScopeViolation` after the row exists, the case the
code's inner handler and `tests/test_recon_agent.py` (150-170) are for; as wired by
`__main__.py` the agent and its tools share one enforcer.

`AttackAgent` has the same shape. A job is a pair of a target and a tool, in the
order of the list comprehension; `save_attack_result` is two actions because it is
two transactions; `SendCriticalAlert` takes the urgent findings in list order.

`AnalyzeAgent`. `Begin` takes the argument `scan_id`; `Lookup` and `Fetch` are the two
transactions of `_fetch_findings`. `TriageBatch` is one turn of the loop over
batches, `ProduceReport` the only call for a small set or the synthesis for a large
one, with `_build_report`, which follows without an await. The model answers a prompt with any
list of items (`Answers`), none, fewer or more than the prompt has findings, because
that is what the code takes; or the call raises. An item that is not `Sound` is one
`_build_report` raises on, which is after all batches. `asked` is not in the code: it keeps
the findings of the prompts that were answered, so that a report can be compared with what the
model was shown. The reports' table
is a variable of this module, the only one that writes to it.

`Pipeline` instantiates the three agents over the same `scans`, `assets` and
`findings`. `stage[p]` is the agent a command awaits. `Extract` is
`_extract_targets` with the attack agent's scope checks, and `HandOver` passes the
attack's scan id on. Every step is a step of one agent or one of these, so
what is checked of the agents alone is met here with the other agents' rows
around. `NameOf` says which assets are subdomains; one of them is a name that
`ScopeEnforcer` refuses as malformed although it lies under an authorised domain (its
regular expression admits no underscore, `core/scope.py`). `Rank` is the order of
`sorted`: a name's place in the attack's list is the number of names up to it. Two assets
that are one identity have one name (`NamesFollowKeys`), because both wrappers that return
subdomains return them in lower case (`subfinder.py` 64, `harvester.py` 70) and an identity is a
type and a lower-cased value (`models.py` 98); `MCPipeline` has such a pair, of which only
the first is stored. Interrupts are left to the agents' own modules.

`Monitor`. `due[t]` and `run[t]` are the scheduler's view of a job; `Tick`, `Fire` and
`Skip` are the interval, a firing and a firing that finds `max_instances` runs. `OpenRow`,
`ScanReturns`, `ScanRaises`, `CallbackEnds` are `_scan_once`, which keeps of a recon run
only its row: the effect of `max_instances` on the runs themselves is
`ReconAgent` with `Overlap = FALSE`. APScheduler's own behaviour is external: its
`shutdown` is executed by the event loop in a later turn, and its asyncio executor
cancels the futures in flight, as it has no way to wait for them.

`Scope`. A text is a sequence of characters, of which six kinds matter: `"a"` and `"b"`
are `[a-z0-9]` (two, so that names can differ), `"A"` is an upper-case letter, `"-"` and
`"."` are themselves, `"_"` is what the expression for host names leaves out and `"/"` what
refuses a target outright. `IsHostName` says of a text's characters and their neighbours
what `_HOSTNAME_RE` says. What Python's `ipaddress` reads as an address or a network is
given as a number with its family and prefix; a target keeps the text it was written as besides,
because the wrappers look at that text whatever it reads as. `LabelMax` and `NameMax` are the
63 and 253 of `_HOSTNAME_RE`. `Constructs`, `Rules`, `IsClassified` and
`IsAuthorized` are the constructor, `_parse_rule`, `_classify_target` and
`is_authorized`; the order of rules is not there because `any` over them has none.
`Permitted` is the reference: it cuts names into labels, compares the ends of those
lists, and asks whether an address lies between the first and last of a network. The
labels of a text are what stands between its cuts (before it, behind it, and each dot), the
`k`-th cut being the one with `k` cuts up to it; `SizeOf` takes the size of a network from
the function `PowerOfTwo`. Both are without recursive operators, so that they can be proved about.

`Parsers`. An output is a list of records of what a wrapper looks at in a line, a JSON
record or an XML host; `ParseLine` is one turn of a wrapper's loop and `Parse` the
loop, which the first exception ends. Building an `Asset` or a `Finding` validates it
(`IsValid`), so one empty or overlong value raises and, through `BaseTool.run`, the whole
output is dropped. Results are sets: the agents go through all of them, and recon
deduplicates. The seven wrappers check differently what they are given, and the model keeps
that: a JSON line that is no object is skipped by whatweb and raises in subfinder and
nuclei; text that is no document is read line by line by whatweb, and yields nothing
in nmap and wafw00f. `OutputsOf` is all a tool can write, of any length. The cases of
a line are written to exclude each other: the value of a `CASE` with two true guards is not
determined, and what TLC takes, the first, is not what a proof may.

`ToolCall`. `pc` names the await the call is at: `spawning` is
`create_subprocess_exec`, `communicate` is `wait_for(communicate())`, `expired` the
turn between the timer and the task's resumption, `reap` the `proc.wait()`
after the kill. `Spawn` has forked when it first waits. `Kill` is `except TimeoutError`;
the process may have exited between the timer and the kill, and `ProcessLookupError` then
leaves the call, as nothing catches it. `Cancel` is a cancellation of the task, at any
await: while the process is being connected asyncio closes the transport and kills it, at
`communicate` the process stays, and at `reap` `suppress(BaseException)` swallows the
cancellation, so that the call returns a result after all. `process` is the life of
the process, `inside` that of the tool in a container, whose client is the process
when `docker` holds; the kill reaches only the client. `ReconAgent` and
`AttackAgent` know of all this an outcome per tool: `Outputs` there is what can be
returned here, `ToolScope` the refusal, and that a tool always ends is
`EveryCallEnds`. A process exits with 0, with 1, or with -1, which stands for a signal from
outside (`runners.py` 131 returns the code as it is, with the output parsed), and also for what
the runner reports after a timeout; `timedOut` tells these apart. A client of `docker exec` that a
signal ends leaves the tool in the container running, as one that is killed does.

`ChangeAlert`. Only lengths are kept: a section is a group per asset type, each with
a count and the width of a value after `html.escape`. The line lengths are those of the
longest line of each kind, so `message` is an upper bound; `Cap` and `MessageCap` have the
code's own values, 25 and 4096, in the run. The cap counts the assets of a
section over its types, as `_render_asset_lines` does: a message has two sections, so up
to 50 assets.

`OutsideCalls` puts a tool call and an alert into one specification: a behaviour has
one or the other, as an agent awaits the one before it makes the other.

`ScanHistory` knows `scans` and a set `records`; recon maps `records` to `assets`,
attack to `assets` and `findings` together, and the pipeline to these and `reports`. Its lifecycle has an edge from done to
failed (`Revoke`), because that is what the handlers do.

## 3. Runs

| Run | Instance | What it shows |
|---|---|---|
| `recon_overlap` | 2 overlapping runs of one target, 2 tools of which one may refuse it, 2 outputs (none, or both spellings of a host and a port), all faults, fairness; 295k states | rows stay apart; one row per identity; alerts stay true; done means every tool ran; rows agree with outcomes; every row settles; closed scans are frozen; refinement of `ScanHistory` |
| `recon_sequential` | 3 runs of one target that do not overlap, one of a target nobody authorised, 1 tool, 3 outputs, database faults and interrupts, symmetric runs; 1.46M states | an alert is true and compares with the immediate predecessor; no difference goes untold |
| `recon_violation` | 3 targets (in scope, refused by a tool, refused by the agent), 2 tools, no faults | **expected violation**: siblings of a tool that refuses run on |
| `attack_faults` | 3 runs: one works, one is refused at its second target, one meets a tool that refuses; all faults; 54k states | the attack agent's safety, and its refinement of `ScanHistory` |
| `attack_pages` | as above without faults | **expected violation**: urgent findings are sent after the scan is done |
| `analyze_faults` | 2 overlapping runs, with no scan id or one of another target, of a cut-off scan or of none; batches of 2, scans with 5, 2, 1 and 0 findings; answers of no item, one, three, and one that is not sound; all faults; 420k states | a stored report rests on prompts that held every finding once, whatever the batches and the answers; the report is stored before the scan is done; the scan chosen had completed |
| `analyze_twice` | 2 runs left to choose, no faults | **expected violation**: the second takes the first for the scan to analyse |
| `pipeline_shared` | a pipeline beside a scan, or a full one beside an analysis, of the same target, 1 tool each, a refused name among the subdomains, database faults; 590k states | what passes from phase to phase is the pipeline's own; phases rest on completed ones; alerts stay exact; refinement of `ScanHistory` with all three agents |
| `pipeline_changes` | a pipeline and a scan of the same target, no faults | **expected violation**: the scan compares with the pipeline's attack |
| `monitor_schedule` | 2 targets, `max_instances` 1 and places for 2 runs each, fairness; 26k states | nothing runs on after the end; every target is scanned again and again |
| `monitor_shutdown` | as above without fairness | **expected violation**: a scan is cut off with its row open |
| `outside_calls` | every name of up to 3 characters (up to 5 over two letters and the dot, 6 over one), limits of 3 and 5 for labels and names, every address, each against every entry alone and some lists; every tool, for a name and for an address, with every output of up to two lines, with and without docker; alerts around the cap; fairness; 643k states | a process starts only for what an entry covers; what runs on has a named cause; a result is of all its output, or of none after a timeout; subdomains stay below the target; the alert adds up; every call ends |

Bounds. Two overlapping runs are enough for every race of a pair: a run reads rows
of at most one other scan. Three sequential runs are needed to have a scan that
could wrongly be passed over. Two tools give a sibling; three outputs give an empty
result, a duplicate under another spelling and a difference in both directions.
Batches of 2 and 5 findings give two full batches and a short one, 2 findings the
boundary at which no batch is made. In the pipeline, one tool per agent is enough, as
the siblings of a tool are the agents' own runs; its list stands for the lists of
all; the outputs are nothing, a subdomain reported twice and a refused subdomain, and for the
attack nothing or an asset with a finding. Each run or command happens once and the monitored process ends, so the
systems stop and deadlock is not checked.

In `outside_calls`, five characters give a name, a dot and a domain of two labels, and the
names that only end like it; with labels of 3 and names of 5, four letters in a row and six
characters are one too many; address spaces of 2 and 3 bits give every prefix from the
whole space to one address, and two families whose numbers coincide. Two lines of
output are enough for the only effects one line has on another: a duplicate,
and an exception that drops both. Sections of 24, 25 and 26 assets, in one type or over
two or seven, surround the cap; a width of 512, the largest a value may have, makes messages
longer than 4096 characters. A call is
cancelled at most once.

Fairness, in `recon_overlap`. Weak fairness of a run's own steps: the event loop
runs every ready task, and the database driver and the HTTP client
(`request_timeout`) return. Weak fairness of each tool: a subprocess ends or is
killed when its timeout expires (`core/runners.py` 109-115). Nothing is assumed
about a run being started, and nothing about failures: `EveryRowSettles` says that whatever fails
every run with a row ends, and that its row is settled unless the run was
interrupted or the database refused the write that settles it.

Fairness, in `outside_calls`. Weak fairness of the call's own steps, of the timer of
`wait_for` and of the death of a process that was killed; nothing makes a process exit
by itself, and nothing makes a tool in a container end. `ReconAgent`'s fairness of tools
is thereby not assumed of the tools but shown of the calls.

Fairness, in `monitor_schedule`. Weak fairness of the command's own steps and of the
scheduler's (the event loop executes what is ready), of the interval passing, and of
a run, whose calls return for the reasons above. No signal is promised: the property
is that until one comes every target is scanned again.

The expected violations disagree with what the repository says of itself:

* `recon.py` 11-12 and 89-90: a violation "cancels the other tasks". `gather` only
  stops waiting for them.
* `__main__.py` 438: the command analyses "scan findings for a target". The query
  behind it does not ask for the agent, so after one analysis the next one is about
  that analysis, which has no findings.
* `README.md` 152 and 160-168: messages about high and critical findings go out "immediately",
  "without waiting for the full scan to complete". `attack.py` sends them after all tools of all
  targets have ended and the scan is marked done.
* `core/changes.py` 3-5: an alert shows "a fresh subdomain that wasn't there
  yesterday". The query for the previous scan does not ask for the agent either, so
  after a pipeline every known subdomain is announced as new.
* `scheduler.py` 17-18: `shutdown(wait=True)` "lets in-flight scans finish". Nothing
  waits for them.

Met on the way, disclosed here and asserted by no property, so that no passing run
depends on which side is right:

* `telegram.py` 303: "a per-message cap to stay under 4 KiB". The cap of 25 is per section, of which
  a message has two, and values wider than about 46 characters make the message longer than 4096;
  it is then cut where it may be inside a tag. `AlertAddsUp` is about one section.
* `nmap.py` 81-82: "missing fields, or unexpected schemas result in an empty / partial list rather
  than an exception"; `subfinder.py` 10-12: "a malformed line is skipped, not fatal". A value that is
  empty or too long for an `Asset`, and a line of JSON that is no object, raise, and
  `BaseTool.run` then drops every other line's results. `Parsers` does the same;
  `ResultIsOfItsOutput` leaves open what a line that raises costs.
* `subfinder.py` 67, "stay strictly in scope": below an address as target, 10.0.0.1, the line
  x.10.0.0.1 is stored as a subdomain, which reads as a host name and which the scope refuses.
  `SubdomainsStayInScope` asks for a permitted name below host names only.
* No agent looks at a tool's return code or at `timed_out`, so a timeout or an exit with an error is, to
  an agent, a tool that found nothing or what it wrote.

Every property of a passing run has a mutant in `PROJECT.json`: a plausible mistake
in a mapped definition ("Mistake: ..." in the modules) that makes TLC find the
property violated.

## 4. Proofs

Everything here holds for every set of runs, targets, tools and outputs, every batch
size and any combination of faults, from the assumptions named below and nothing else.

### What is proved

* **Recon** (`ReconAgentProofs`): `TypeCorrectness`, `RowsAreOwned`, `NoDuplicateAssets`,
  `AlertsAreExact`, `DoneScansAreComplete`, `OutcomeIsRecorded`, `HistoryIsFrozen`,
  `DoneScansHoldTheResults` (a done scan lists, in order and one row per identity, exactly
  what its own tools returned) and `ReconImplementsHistory`. Where the runs of a target do not
  overlap, also `AlertsPassOverNoScan` and `ChangesAreTold`. That hypothesis is `~Overlap`,
  the guard `MayBegin` of the model; for a monitor it is what APScheduler does with
  `max_instances` 1 (`scheduler.py` 90).
* **Attack** (`AttackAgentProofs`): `TypeCorrectness`, `RowsAreOwned`, `RefusalsStopTheRun`,
  `DoneScansAreComplete`, `PagesCanBeLookedUp`, `NoUrgentFindingIsSkipped`,
  `AttackImplementsHistory`.
* **Analyze** (`AnalyzeAgentProofs`): `TypeCorrectness`, `StoredReportsCoverTheirScan`,
  `DoneScansHaveAReport`, `ChosenScansHadCompleted`.
* **The agents together** (`PipelineProofs`): `TypeCorrectness`, `AttacksOwnFinds`,
  `PhasesFollowCompletedOnes`, `ReportsAreOfOwnAttack` (the model was asked about exactly what the
  attack's tools returned), `AlertsAreExact`, `PipelineImplementsHistory`.
* **Monitor** (`MonitorProofs`): `TypeCorrectness`, `NothingOutlivesTheProcess`.
* **The scope** (`ScopeProofs`): `VerdictIsPermitted`: for every list of entries, every
  target and addresses of any width, what `is_authorized` answers is what the entries permit by
  labels and ranges. It rests on `LabelsDecide` (the suffix test with its dot is a suffix test
  on labels), `LabelsSpellNames` (the expression for host names says that every label is well
  formed and the name not too long, for any limits) and `NetworksAreRanges`. `BelowIsPermitted`: a
  host name below a permitted host name is permitted.
* **Tool calls and alerts** (`OutsideCallsProofs`): `TypeCorrect`, `AuthorizedOnly`,
  `OrphansAreExplained`, `ResultsAreOfTheirOutput`, `SubdomainsInScope`, `AlertsAddUp`, and, without a
  property of the run, `NothingStartsUnasked` and `ResultsAreOfFinalOutput` (a call that
  returned has parsed all of the output of a process that exited before the timeout, and was not
  cancelled, or it timed out and parsed none). They hold for every tool, every output of any number of lines, every
  moment of a timeout or a cancellation, and comparisons with any counts and widths.

`PROJECT.json` says which of them state a property of a run.

### From which assumptions

They are the named `ASSUME`s of the modules, which TLC evaluates in every run. Most are types
of constants. Those that say something of the code:

* `OutputsType`: a tool may return nothing, which is what a tool that times out does.
* `ReconIsAnAgent`, `AttackIsAnAgent`, `AnalyzeIsAnAgent`, `AgentsType`: the agents have
  names to file scans under. `"unknown"` is a target: an attack without targets is filed
  under it (`attack.py`).
* `BatchSizeType`: the batch size is positive; it is 50 in the code.
* `PastType`: analyses that run alone find a table of earlier scans and a finite set of findings.
* `RankType`: names that differ sort differently. `NamesFollowKeys`: see `Pipeline` above.
* `SlotsType`: `max_instances` is positive and there is room for that many runs.
* `CallsType`, `OutputsOfTools`, `ComparisonsType`, `BitsType`: calls, outputs and comparisons are of the
  shapes of `Scope`, `Parsers` and `ChangeAlert`; the first two give no bound on texts or lines.
* `AnswersType`: the model answers with lists of items, of any length.
* `LimitsType`, `CapsArePositive`: the limits on labels, names and sections are positive.
* `LettersAreStrings`, `WordsAreStrings`: `"a"`, `"b"`, `"@"` and `"WAF:"` are strings. This is true of
  any literal, but no installed prover knows it of one.

### Along which argument

*An agent.* None of the invariants is inductive. An alert is exact because what `detect`
read in earlier transactions is still true; a done attack is complete because the results
`gather` returned are still those stored two transactions ago. The inductive invariant
says of each run, by its `pc`, the status of its row (`RowFollowsPc`), what the tools
returned (`ResultsByPc`), which of it is stored (`StoredByPc`, for recon also `RowsByPc`) and
what was read or handled (`ReadsAreCurrent`, `HandledByPc`). For analyze, `MaterialByPc` says that
the prompts answered so far held the first `sent` findings, with `sent` a multiple of
the batch size up to the last batch, so that after the last they held all; `ReportByPc` has
the report in the table before the row can be done; `SourceFollowsPc` is the scan
taken. One lemma per part goes through the actions of the run that steps.

*Several runs.* A step of run `r` touches the rows of `r`'s scan only (`Touches`,
`TouchesOwnScan`) and no other run's locals (`LocalFrameHolds`), and no scan has two runs
(`OwnRow`), so the others keep their part (`OthersKept`). Rows of a scan that is done or failed
are written by nobody, so a comparison of two of them stays true (`ComparisonKept`).

*Several agents.* The part of each invariant that survives the other agents is its
`SharedInv`; the proof modules of the agents show of it `InitShared`, `SharedStep` (what a step
guarantees the others: `Touches` of a scan of its own) and `SharedKept` (what a step of another
agent that gives this guarantee leaves true). `PipelineProofs` instantiates the three modules over
one set of tables and proves no step of an agent again. What it adds is `Phases`: the
attack begins only when recon has returned, with just the names its scan holds, and
the analysis only when the attack has, with its scan; the ids ascend. `SourceIsOver` needs it: an
analysis may rely on the findings being all there because their attack is over.
`AttacksOwnFinds` needs `DoneScansHoldTheResults` beside other agents, that the deduplication
keeps one asset of each identity, and that an identity has one name (`SubdomainsAreReturned`).
The refinement is put together from the agents' own (`StepRefines`): a step of the log for the
rows of one agent is a step for the rows of all, as the others' rows stay.

*Recon in sequence.* `Sequential` orders the runs of a target: of two with rows, the
earlier is over. So the last completed scan `detect` finds stays the last completed before the
run's own (`ComparesWithLast`) while the run goes on, and afterwards, as later rows have
greater ids and earlier ones do not change any more.

*Monitor.* That nothing runs on needs what the command and the scheduler
know of each other (`StoppingIsOrdered`): after the signal the scheduler runs exactly
until it has executed the shutdown, and the command cannot exit before that.

*Tool calls.* `ProcessByPlace` says what is known of the process at each place of the call; in
particular that none survives the two ends that have no process to answer for
(`invalid`, `refused`) and that a call that returned has one that exited or was killed.
`ResultByPlace` says from what the result was made, `StartedWhenAllowed` that a process owes its
start to the verdict, and `GivenAndWritten` that its output is one its tool can write; `AlertInv` says the
same of the posted message and its comparison. The invariant is about control; what its
conjuncts are worth comes from the lemmas about operators.

*Numbers.* The library's induction takes an operator as a parameter, which no backend can
instantiate. `AllNumbers` states induction over a *set* instead: a set that has 0, and with each
number the next, has all. It follows from the library's facts that `<` on `Nat` is
well-founded and that a well-founded relation has minimal elements, which take sets; the
lemmas below define the set of numbers for which they hold and cite it.

*Labels.* Between two cuts that follow one another there is no dot (`BetweenCuts`), and the places of
cuts rise with them (`CutsInOrder`, `CutsRise`). If a host ends with a dot and the domain, its last
cuts are those of the domain moved by what comes before (`DomainsAlign`), so its last labels are
the domain's; if the last labels agree, the cuts before them have the same distances, counted from the end
(`LabelsAlign`), so the characters between them agree too.

*Folds.* `FoldLeft` of the community modules is a fold over the set of positions, chosen as the function
that satisfies its own recursion. `FoldsExist` shows by induction on the length that there is
one for any steps; so `ParseAccumulates` and `RenderAccumulates` may go through a list item by item. Each wrapper's
turn adds to what was found exactly what it yields from nothing, and raises exactly if it does then
(`AddsUp`, one lemma per tool). From this `ParseAddsUp` gets, by induction on the prefixes, that an output
yields the union of its lines or raises because one of them does. That lines do not interfere is
not obvious: subfinder skips what it has seen, and an exception ends the loop in the middle.
`SectionAddsUp` counts what is listed, what is left out and what it takes in the same way.

TLC checked the inductive invariants of recon and of the pipeline on `recon_overlap` and
`pipeline_shared`, and those of the other modules on their runs, before they were proved.

### Only model-checked

Liveness under fairness, which is out of the prover's reach: `EveryRowSettles`,
`EveryTargetIsRescanned`, `EveryCallEnds`. Every invariant and every action property that a passing
run checks is stated by a theorem.

## 5. Plan

Done: every module of section 2, and the proofs above.

What could be added: the other messages of the notifier in the manner of `ChangeAlert`.

## 6. Not modelled

* Processes that a killed tool leaves behind with its pipes open: how long `proc.wait()`
  waits for them differs between versions of asyncio.
* The expressions by which theHarvester's and gobuster's wrappers find their matches in
  a line: a match is given.
* Messages other than the change alert, as far as their length goes, and
  `send_report_file`: what they do for an agent (deliver, lose, raise) is in the agents.
* Settings other than the authorised entries, logging, the console and the queries that
  only feed it, `CommandResult.display_command` and the `stdin` of a command, which no
  wrapper uses.
