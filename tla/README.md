# TLA+ models of the self-correcting code agent

This directory models the parts of the repository in which something can go
wrong between steps: the correction loop and its LangGraph wiring, the sandbox
that runs generated code, the demo server with its rate limiter, daily budget
and run slot, the keys calls are made with and the scopes they are charged to,
the way from a model's answer to a program past the static gate, and the
evaluation harness with what the analysis makes of its rows. TLC checks each
model on small instances; TLAPS proves every safety property the runs check for
every value of the constants. `PROJECT.json` lists the
runs, the mutants that show each property can fail, the source lines behind
every definition, the hazards, the findings and the theorems.

Source paths below are relative to the repository root.

## 1. The system

| Part | State | Operations | Interacts with | What is hard |
|---|---|---|---|---|
| Agent graph (`agent/graph.py`, `agent/state.py`, `agent/nodes/*`) | `AgentState`: attempt number, code, tests, two results, reflection, history, status | five nodes, two routers, `run_agent` | model (`llm`), static gate, sandbox; called by server, harness, `solve.py` | partial updates merged into one state, two nodes that may end an attempt, a ceiling tested in two places, LangGraph's recursion limit, exceptions out of any node |
| Static gate (`agent/nodes/static_check.py`) | none | `run_static_check` over `_check_syntax`, `_check_v1_antipatterns`, `_check_pyflakes` | a node of the graph | three separate filters over issue kinds |
| Sandbox (`agent/sandbox.py`) | a scratch directory, a child process | `run_tests_in_sandbox`, `verify_sandbox_health` | executor, baselines, `partial_credit`, server start-up | wall clock against CPU limit, helper processes holding the pipes, bytes and text, clean-up |
| LLM clients and keys (`agent/llm.py`) | LRU cache of clients, a `ContextVar` key | `get_llm`, `get_cached_llm`, `use_api_key`, `strip_code_fences` | every node that asks the model; server | a key must reach all calls of one request and no other |
| Usage accounting (`agent/usage.py`) | thread-local `Usage` | `track_usage` (nests), `record` | the client proxy records, server and harness read | scopes on reused threads, calls that raise |
| Rate limiter (`serve/app.py:152-161`) | a deque of stamps per address | `_rate_limited` | first step of `solve()` | clock read outside the lock |
| Budget, slot, solve endpoint (`serve/app.py`) | `_budget`, `_run_slot`, `_BOOT_ID` | `solve`, `status`, `_budget_remaining`, `_spend` | limiter, agent run, key scope | check and charge a whole run apart, midnight, restart, queue timeout, errors |
| Evaluation harness and baselines (`eval/run_eval.py`, `baselines/*`, `solve.py`) | a JSONL file, row by row | three methods per problem, start-up probes | all of the agent | exceptions turned into rows, interruption in the middle |
| Analysis (`eval/analyze.py`, `eval/partial_credit.py`) | none (a function of a row file) | aggregates, paired comparison, partial credit | row files, sandbox | rows without code, denominators |
| Demo page (`serve/static/index.html`, `docs/try.html`) | page variables | polls `/api/status`, posts `/api/solve` | server | retries against a sleeping host |
| Problems, recorded results, build and deployment files | files | none | read by the rest | none |

What makes each part correct:

- *Agent graph*: it terminates within its budget; one record an attempt; only
  code that passed the gate runs; one suite for all attempts; prompts and
  diagnoses speak of the attempt that has just failed; the report is of the last
  attempt; nothing is spent after the verdict; cost follows from the history.
- *Sandbox*: a pass is an end with code 0, seen in time; a timeout is only called
  so after the whole wall clock; a result is given up only for a cause; the
  program's process is gone when the call returns, and the call returns.
- *Rate limiter*: no more than the limit in a window; nobody refused early.
- *Server*: one run at a time, slot never leaked; the account exceeds what was
  billed by one run at most, and the ceiling by a bounded amount; every request is
  answered.
- *Keys and usage*: a call is made with the key, and charged to the scope, of the
  request it belongs to.
- *Answers and gate*: what a model fenced in its answer is what is checked and
  run, and the gate stops the program that cannot run.
- *Harness and analysis*: a row for every problem and method; the three methods
  compared over the same rows.

## 2. Plan

Written, in this order: `CorrectionLoop`, `AgentGraph` (with `MCAgentGraph`,
`AgentGraphProofs`, `AgentStoryProofs`), `RateLimiter` (`RateLimiterProofs`),
`Server` (`ServerProofs`), `Sandbox` (`SandboxProofs`), `EvalHarness`
(`MCEvalHarness`, `EvalHarnessProofs`), `CallLedger`, `CallAccounting`
(`MCCallAccounting`, `CallAccountingProofs`), `CodeExtraction`, `StaticGate`,
`AnswerPipeline` (`MCAnswerPipeline`, `AnswerPipelineProofs`).

What composes what: `AgentGraph` implements `CorrectionLoop`; `CallAccounting`
implements `CallLedger`; `Server` has an instance of `RateLimiter` and relies on
`AgentGraph!Terminates` for its fairness; `AnswerPipeline` extends
`CodeExtraction` and `StaticGate`.

Next: in `EvalHarness`, the table by category and the counts
`partial_credit.py` reads from pytest's summary line; in `Server`, the start-up
probes of `_lifespan`. Each comes with its invariant proved beside the others.

## 3. The modules

### CorrectionLoop

The abstract promise of one agent run: a sequence of verdicts, at most
`MaxAttempts` long, and an outcome decided by the last of them. It states the
docstring of `agent/graph.py` and the `Status` type.

### AgentGraph

One action per node, `pc` being the node LangGraph runs next.

| Code | Model |
|---|---|
| `AgentState` fields | variables of the same names; `canonical_tests` is the content of `problem.canonical_tests_path`, `None` for an ad-hoc prompt |
| `test_generator_node`, `generator_node` | `TestGen`, `Generate` (`prompt` observes the retry prompt, built before the results are cleared) |
| `static_check_node` | `StaticCheckPasses`, `StaticCheckRejects` |
| `executor_node`, `reflector_node` | `Execute`, `Reflect` |
| `_route_after_static_check`, `_route_after_execute` | operators of the same names, applied in the node's action to the state it leaves |
| `recursion_limit`, supersteps | `RecursionLimit`, `steps` |
| an exception out of a node | `NodeRaises`: the node's update is lost, a call it made is not |
| `usage.record` | `calls` |

A program is a model value with the constant set of issues the scanners find in
it (`Flaws`); the text of prompts is reduced to what they quote. The two nodes
quote a failure differently, and each has its operator: the generator
(`FailureEvidence`) heads pytest's output with a remark and leaves stderr out, the
reflector (`Evidence`) shows both streams bare. The model's answers and the
sandbox's outcome are free, so a flaky suite, a slow host and a run that fails
without writing anything (`wrote`) are included. `Diagnosis` identifies a
reflection by what the reflector was shown.

The refinement of `CorrectionLoop` reads the verdicts off `history` and the
outcome off `status` and `pc`; the other fields are forgotten.

### RateLimiter

`_rate_limited` in two actions, as the code reads `time.monotonic()` before it
takes the lock: `ReadClock`, then `Refuse` or `Admit`, each of which prunes
(`Live`), tests (`Full`) and, for `Admit`, appends. `admitted` is an observation:
when each admission really happened. `MaxLag` is how long a thread may be held up
between clock and lock; nothing in the code bounds it, so all statements have it
as a parameter.

### Server

One worker's path through `solve()`:
`rate_check -> budget_check -> queue -> running -> spending -> reporting ->
finally -> answer`, with an exception out of the run (`RunRaises`) or, after the
charge, out of the building of the response (`ReportRaises`); the limiter is an
instance of `RateLimiter` whose `ReadClock` is done on arrival. Each critical section under `_state_lock` is one
action. An agent run is reduced to its calls of the model: one for the tests, two
an attempt less one, or an exception at any time. `Midnight` changes `_today()`;
`Restart` resets every global and drops open requests. `bill` observes what the
provider answered on the shared key today.

`budget.day = 0` is the code's `None` before the first look. `StatusPoll` is
`GET /api/status`, which may be what starts a new day's account.

### Sandbox

`run_tests_in_sandbox` on POSIX. The caller: `Start` (directory, files, fork),
`Finish` (both pipes closed in time; output decoded strictly), `TimeoutExpired`
(kill and await the child, build the timed-out result, with the `TypeError` and
the validation error its byte strings can cause), `Cleanup` (leaving the `with`).
The program: it uses up to `Cores` CPU ticks a tick, writes, ends with a code of
its own choice (it shares pytest's process, so code 0 need not be pytest's), and
starts helpers that hold its pipes or do not. The kernel enforces the CPU limit within
the tick that reaches it. A program that closes its own pipes before it ends is
left out, as pytest does not.

### CallLedger

The abstract promise of key scoping and usage accounting together: a request opens
and closes scopes, and every call the provider answers is billed to the request's
key and counted in its innermost open scope, with its tokens or as a call whose
tokens are not known. It states the docstrings of `track_usage` and
`use_api_key` and the "honesty constraint" at the head of `agent/usage.py`.

### CallAccounting

The same from threads, contexts, clients and a cache. A worker takes up a request
in a fresh copy of the context, sets the key, opens scopes, asks for clients,
calls them, leaves the scopes one by one and resets the key; `Raise` sends it out
from anywhere.

| Code | Model |
|---|---|
| `_request_api_key` (a `ContextVar`) | `contextKey`, by worker; `Begin` is the fresh copy, `UseApiKey` and `End` the two ends of `use_api_key` |
| `_state.usage` (a `threading.local`) | `active`, by worker |
| `previous` in each open `track_usage` | `saved`, outermost first |
| `Usage` objects | `usages`, by request and depth; tokens are counted as one a call |
| `get_cached_llm` with a key, without one, `lru_cache` on a miss | `GetOwnClient`, `GetCachedClient`, `BuildClient` (without the cache's lock; the first to come back inserts) |
| `get_llm` for `best_of_n` and the start-up probe | `GetUncachedClient`, of requests that bring no key |
| `_TrackedLLM.invoke`, `record` | `Invoke` |

The cache has the one entry that temperature 0 and the default model give. The
workers run side by side, although the run slot of the server lets one at a time
through, so that in the server two cannot miss the cache at once: the module's
claims do not rest on the slot. A request opens one
scope at each depth. The refinement reads depths off the stacks of saved scopes
and accounts off the `Usage` objects.

### CodeExtraction, StaticGate and AnswerPipeline

Operators without state, and a two-step machine that applies them to an answer of
the model. An answer is a sequence of lines, each of one of the kinds the code
tells apart: three kinds of fence, prose, and lines of Python in which the
scanners find nothing, v1 code, an undefined name, a star import or an unused
import.

| Code | Model |
|---|---|
| `strip_code_fences` | `Findall` (left to right, without state), `Largest`, `StripCodeFences` |
| `_check_syntax`, `_check_pyflakes`, `_check_v1_antipatterns` | `Parses` and `FirstBadLine`, `CheckPyflakes`, `CheckV1Antipatterns` |
| `"undefined name" in msg` | `SaysUndefinedName`, over pyflakes' messages (`Message`) |
| `run_static_check` | `RunStaticCheck` |
| `generator_node`, `static_check_node` | `Generate`, `StaticCheck` |

`FencedBlocks` and `IntendedCode` are the reference: fences read in pairs, an
opening and a bare closing one, and of the blocks that may be Python the
largest, the first of them where several are equally large. The size of a block is its number of lines, so programs that differ in
characters alone are equally large; indentation, names and whitespace are left out.

### EvalHarness

`main()` of `run_eval.py` with the two baselines and the agent. `cell` counts the
(problem, method) pairs in the order of the two loops; `judged` is what the
current method has had answered and how the sandbox judged it; `usage` is the
pair's own `track_usage()` scope and `answered` an observation of all calls.

| Code | Model |
|---|---|
| `verify_sandbox_health`, `verify_llm_available` | `SandboxCheck`, `LLMCheck` |
| one sample, or one attempt with its judgement | `Generate` |
| `reflector_node` between two attempts | `Reflect` |
| the `record.update`, the write and the flush | `RecordResult` |
| `except Exception` | `CellRaises`, before or after a call is answered |
| an interrupt, or a suite that cannot be read | `Interrupt` |
| `merged`, `fixed`, `broke`, `delta`, the cost table | `Merged`, `Fixed`, `Broken`, `Delta`, `CostRows` |
| attempts, terminal states and errors | `AttemptsSeen`, `SolvedOn`, `UnsolvedAs`, `Errored` |
| the sample level of `best_of_n` | `SampledRows`, `SamplesPassed`, `SamplesDrawn` |
| `.sum()` of a column, and of the rows' usage | `Total`, `TotalUsage` |
| `partial_credit.py`'s filter and its tests-only count | `PartialRows`, `FullMarks` |

A program works or does not: it does if a run of its tests ends with code 0, which
is all the sandbox goes by. One that works may be failed all the same: the
sandbox may time it out, the agent's static gate may reject it. One that does not
never passes. `hostSec` is how long the host takes for known-good code: the probe
compares it with a timeout of its own, a test run with another, and
`partial_credit.py` is taken to run on a host with time enough. The `--methods` are taken without repeats (argparse would allow
them), tokens are counted in calls, a program is never the empty string, and a
row is written whole.

## 4. The runs

| Run | Instance | What it shows |
|---|---|---|
| `agent_graph` | 3 attempts; a clean, a v1 and an unparseable program; two suites | all of the graph's properties, termination, and that it implements `CorrectionLoop` |
| `rate_limiter` | 2 threads, 1 address, limit 2, window 2, lag 1, clock to 7 | `WindowBound`, `RefusalIsDeserved`, `LimiterInv` |
| `server` | 2 workers, 2 days, 2 boots, budget 3, runs of 2 calls | `ServerInv`, `SlotAccounting`, `OvershootIsBounded`, `OverchargeIsBounded`, `RefusalIsJustified` |
| `server_answers` | 2 workers, one day, visitors bring their own key | every accepted request is answered |
| `sandbox` | timeout 2, 2 cores, 2 helpers, clock to 3 | `SandboxInv`, `ResultIsFinal`, `TimeoutIsTrue`, `RaisesOnlyForCause`, `ChildIsContained`, `CallerReturns` |
| `eval_harness` | 2 problems, 3 methods, 2 attempts, 2 programs, 3 hosts | `HarnessInv`, `CostIsMeasured`, `SuccessesReproduce`, `DeltaIsExplained`, `TablesAddUp` |
| `call_accounting` | 2 workers, 3 requests, one with a key of its own, nesting 0 to 2, 2 calls on each key | `AccountingInv`, `KeysStayApart`, and that it implements `CallLedger` |
| `answer_pipeline` | all answers of up to 7 lines of fences, clean and v1 code, and of up to 4 lines of any kind | `StripsToIntendedCode`, `GateJudgesIntendedCode`, `GuaranteedCrashIsRejected` |
| `server_cost`, `sandbox_report`, `answer_fences`, `answer_star` | small instances | a statement of the repository's that the code does not keep (section 6) |

Why these bounds are enough:

- *Agent graph*: three attempts are the default of the program, and the first
  number with a first, a middle and a last one, so a record, a diagnosis or a
  result can be stale by one and by two. The three programs take the three ways
  through the gate; two suites let a change of suite show.
- *Rate limiter*: addresses never share a deque, so one suffices; two threads can
  disagree about the time; eight ticks fill and empty a window of two twice, so
  that stamps leave the deque in an order other than they came.
- *Server*: two workers are the fewest with a check between another's check and
  charge. The rate limit of two an address and a boot, with a window of no
  length and a clock of two ticks, caps admissions at four a boot. With runs of
  two calls and a budget of three, one run leaves budget for the next and two do
  not. Two days and two boots give a run spanning midnight and one cut off by a
  restart. The bill is counted exactly; the admissions bound it.
- *Sandbox*: a timeout of two ticks has a time before, at and after it, and two
  cores reach the CPU limit before the wall clock and at it. Of two helpers one
  can hold the pipe while another does not.
- *Harness*: two problems make a pair that follows the last method of another
  problem, and let the loop fix one problem and break the other. Two attempts are
  the fewest with a reflection and with a sample after one that passed. The three
  hosts are fast enough, too slow for a test run, and too slow for the probe.
- *Call accounting*: two workers are enough for one to use what the other left,
  and for any two steps of different requests to meet (more than the server's run
  slot admits); with three requests one worker
  serves two. The nesting of two has a scope restored to another scope and one
  to none. Two calls on a key let a scope count both kinds.
- *Answers*: seven lines hold two closed blocks of unequal size with something
  between them, or three of which one is empty.

Fairness, and why the code has it:

- `AgentGraph`: `WF(Next)`. `graph.invoke` runs nodes until `END`; every node
  returns or raises (the sandbox has its timeout, the client its own).
- `Server`: `WF(Handle(t))` for each worker `t`: a request that is being handled
  is scheduled; a wait for the slot ends by `acquire(timeout=...)`; a run ends, as
  `AgentGraph!Terminates` says. None for arrivals, polls, midnight and restarts.
- `Sandbox`: `WF` for the caller, the clock and the kernel's CPU limit, none for
  the program: it need not write, end, or have its helpers end.
- `EvalHarness` (one thread in a bounded loop), `CallAccounting`, `AnswerPipeline`
  and `RateLimiter` state safety alone.

Deadlock is not checked (`CHECK_DEADLOCK FALSE`): agent runs, sandbox calls and
evaluation runs end, and the clock of the other models stops at its bound.

Every property of a passing run has a mutant in `PROJECT.json`: a variant of one
definition, next to it in the module and named `Definition_Variant`, under which
TLC finds the property violated.

## 5. The proofs

Assumptions: `MaxAttemptsAssumption` (at least one attempt, as `solve.py` and
`run_eval.py` enforce), `FlawsAssumption`, `NoneAssumption` (`None` is no value of
the data), `LimitAssumption` (a limit of at least one), `WindowAssumption`,
`NoStampAssumption`, `ServerAssumption` (finitely many workers, a budget and
bounds that are numbers), `SandboxAssumption` (timeout and cores at least one),
`AccountingAssumption` (a visitor's key is not the shared one, nesting is
bounded), `HarnessAssumption` (methods without repeats, at least one attempt,
timeouts that are numbers), `AnswersAssumption` (answers are sequences of the
kinds of line). TLC evaluates each of them.

- **AgentGraphProofs.** `GraphInvariant` proves `IInv`, the conjunction of
  `TypeOK`, `OneRecordPerAttempt`, `NodeContract` and `Continuity`. The bookkeeping is not
  inductive by itself: whether a failing attempt may be followed by another
  depends on a ceiling tested before the number is increased, in a node that is
  two steps away. `NodeContract` says what each node relies on: which fields are
  set, that after a failure below the ceiling `attempt_number < MaxAttempts`, and
  how many supersteps the run can have taken (four an attempt). From it follow
  `TypeCorrect`, `AttemptBudget` and `NoRecursionError`: the recursion limit is
  never reached, for any `max_attempts`, since `4n + 1` supersteps at most are
  taken and `4n + 10` allowed. `GraphImplementsLoop` shows that every step is an
  attempt, an abort or a stutter of `CorrectionLoop`: committing a record is the
  attempt, and the invariant gives that the number it carries is the length of
  the history. It covers the safety part; liveness is TLC's.
- **AgentStoryProofs.** What a run tells of itself. `Continuity` is what the nodes
  hand on from one attempt to the next: the suite, the diagnosis of the last
  record, that all behind has failed, and the calls made so far, by node. With
  it, and since only two nodes touch the history and each appends one copy of
  the state it leaves (`HistoryStep`), the story properties are invariants relative
  to `IInv`: `GatedCodeRuns`, `OneSuite`, `EvidenceIsFresh`,
  `DiagnosisIsOfAttemptBefore`, `PromptsTellOneStory`, `ReportIsOfLastAttempt` and
  `HistoryGivesCost`. `EvidenceIsFresh` has one exception in it, the run that failed
  without writing anything. `VerdictIsFinal` is the action property: a status other than
  `in_progress` is written by no node that leads to another.
- **RateLimiterProofs.** `LimiterInvariant` proves `LimiterInv`: stamps are at most
  `MaxLag` old when used, the deque is exactly the stamps of the latest
  admissions in the order of the lock, and every admission no longer in it is
  more than `Window - MaxLag` old. Without the last part nothing links a deque
  with room to the admissions it forgot. `LimitHolds` concludes `WindowBound`: at
  an admission fewer than `Limit` stamps are left, so the admission `Limit` places
  back was dropped. `RefusalsAreDeserved` reads the same correspondence the other
  way: a full deque is `Limit` admissions, none of them out of the window.
- **ServerProofs.** The inductive invariant `ServerInv` is the types, the limiter's
  invariant, the server's three safety properties and `AccountInv`. The slot carries
  the argument: one run at most is between acquire and release (`SlotAccounting`),
  so one run at most has calls the account does not show (`Uncharged`), and one
  at most can span midnight; `AccountInv` holds the account against the bill with
  that run's calls counted in, without which `OverchargeIsBounded` is not inductive.
  The overshoot is bounded by moving workers in and out of `InFlight` and counting:
  a check that lets a worker in has seen an account below the ceiling.
  `RefusalsAreJustified` is the action property that follows. `LimitHoldsInServer`
  takes the limiter's theorem into the server: each of its steps drives the
  limiter's instance by a step of `RateLimiter`, stutters, or starts it anew.
- **EvalHarnessProofs.** `HarnessInv` with `PairInv`, which says what a method has
  done so far within a pair and what a row keeps of it (`RowKept`), is inductive.
  The order of the run is division: row `n` is for problem `(n-1) div m + 1` and
  method `(n-1) mod m + 1` of `m`, and back (`CellAt`, `CellOf`), so on a completed
  file each problem has one row a method; `DeltaExplained` counts problems instead
  of rows by these bijections. The sum of a column is a recursive function; its
  existence and its growth by a row are proved from the well-founded order of the
  naturals, with a set of numbers in place of a predicate (`InductiveSet`), and
  give `CostsAreMeasured` and the sample half of `TablesComplete`.
  `ReportedSuccessesReproduce` is the invariant read at the row.
- **AnswerPipelineProofs.** `strip_code_fences` searches from left to right with no
  memory of pairs, the reference reads pairs. Both are recursive functions of the
  place in the answer; where all fences are Python's and come in pairs they
  find the same blocks from every place outside a block (`ScansAgree`, by going
  backwards from the end), and taking the largest then takes the same one
  (`TakesIntended`): `TakesIntendedCode`, for answers of any length.
  `GateVerdict` reads the union of the scanners' issues back as one condition on the
  lines, from which `GateJudgesIntended` and `CrashesAreRejected` follow: where a
  star import blurs an undefined name, the import itself is what blocks.
- **SandboxProofs.** `SandboxInvariant` proves `SandboxInv`: what each stage leaves
  to the next. What an answer says of the run it is of (`Truthful`) holds when
  the caller stops reading, and lasts: a process that has ended starts no helpers,
  and a helper that does not hold the pipes never comes to. From it follow
  `ResultsAreFinal`, `TimeoutsAreTrue` and `LossesHaveACause`, and
  `ProgramIsContained` from `SandboxInv`, for every timeout, number of cores and set
  of helpers. What they leave open, as the code does: whether code 0 is pytest's
  own, and an early end behind a helper's open pipe, which is called a timeout.
- **CallAccountingProofs.** The inductive invariant is `AccountingInv` together
  with `KeysStayApart`: that a client in hand has the right key follows from what
  is in the context when it is asked for, so neither is inductive without
  the other. `AccountingInv` says which request each thread serves (no two the same),
  what its context holds at each stage, and that its stack of saved scopes is that
  of its request from the outside in; the last makes the scope `record` finds the
  request's own. `ScopesAreOwn` and `KeysAreSeparate` are its two parts.
  `LedgerImplemented` concludes `ImplementsLedger`, as a whole: `CallLedger` has no
  fairness. A request's depth is found by choosing the thread that serves it, which
  the invariant makes unique.

Only model-checked: liveness (`Terminates`, `EveryRequestIsAnswered`,
`CallerReturns`, and the fairness part of `ImplementsLoop`), which
is out of the prover's reach.

## 6. What the code does not keep

Each of these is a run that ends in a counterexample.

- **A timed-out run may raise instead of being reported** (`sandbox_report`).
  `subprocess.TimeoutExpired` carries bytes on POSIX even with `text=True`, and
  `agent/sandbox.py:187` adds a string to them. A looping program that has
  written to stderr loses the whole agent run to a `TypeError`.
- **Failed runs are not charged** (`server_cost`). `_spend` is skipped by an
  exception (`serve/app.py:236`), while the calls were made on the shared key;
  `serve/app.py:10` says "Cost is capped".
- **A block in another language shifts the fences** (`answer_fences`).
  The expression at `agent/llm.py:123` knows no state, so the closing fence of a
  block marked `bash` opens one for it, and the prose up to the next fence is
  taken for the program; the docstring (lines 116-119) promises the largest
  fenced block.
- **Star imports are rejected** (`answer_star`). `static_check.py:64` looks for
  "undefined name" in pyflakes' message, and the one it gives of every star import
  ("unable to detect undefined names") has it. The module's docstring says that of
  pyflakes' findings only undefined names block, as certain crashes.

## 7. What is not modelled

- Regular expressions character by character, pyflakes itself, prompts and
  rendering: text. Lines have kinds in `StaticGate` and `CodeExtraction`; in
  `AgentGraph` a program's issues are the constant `Flaws`.
- The choice between the two providers, temperatures, and retries inside the
  provider's client.
- The table of `analyze.py` by category, and the parsing of pytest's counts.
- The start-up of the server: `_lifespan` runs both probes before the first
  request and records what they say for `/api/status`, on which nothing depends.
- The sandbox's memory limit as a number, and the Windows branch, which has the
  wall clock alone.
- Behaviour seen in the models without a run of its own. The budget is checked
  before the wait for the slot and charged after the run, so runs start past the
  ceiling of `serve/app.py:10-12`; `OvershootIsBounded` says how far. The rate
  limit is tested before a request's key is looked at, so a key of one's own does
  not bypass it, as `serve/app.py:204` says. The row of an exception has no
  program and no call count, so its tests leave the denominator of partial credit
  (`eval/partial_credit.py:85`, against the comment at lines 96-98) and its tokens
  are in no total of the cost table (`eval/analyze.py:159`). The health probe has a timeout of 60
  seconds and test runs have 10, and the harness drops the duration it returns
  (`eval/run_eval.py:115`), so on a host between the two every method reports
  zero; `partial_credit.py` reruns programs with 30 seconds, so what it prints as
  blocked by the gate may have been a timeout. With no shared key a
  keyless request is run and fails instead of being asked for a key
  (`serve/README.md:35`); the CPU limit equals the wall-clock timeout, so which of
  them ends a busy loop is a race (`tests/test_sandbox_posix.py:113`); helper
  processes outlive the wall clock, as only the direct child is killed. A pass is
  the exit code of a process the program under test shares with pytest
  (`agent/sandbox.py:194`), so a program that ends it with code 0 is reported as
  passed before its tests have ended; an early end whose helper holds a pipe is
  reported as a timeout. Of a run that failed without writing anything (killed with
  its output still in a buffer, say) the reflector is shown the empty string, and
  not `(no evidence captured)`, as `agent/nodes/reflector.py:57` appends stdout
  without looking at it. The account lives in memory, so each boot has a whole
  day's budget.
- Fork safety of `preexec_fn`: it depends on interpreter locks held at the fork.
- The growth of `_ip_hits`, one deque for every address ever seen: no bound is
  claimed for it.
- The demo page, the problems, recorded results, build and deployment files.
