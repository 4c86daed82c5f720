# RelayAI in TLA+

RelayAI records a task on a bank's screens once, with a model, and replays it many
times without one. Replay confirms irreversible steps in a core system that has no
API, and hands the browser to a person when it may not, or cannot, go on. This
directory models how a capability is recorded, approved, replayed and governed, and
the bank console it is replayed against, and checks them: TLA+ modules, TLC
configurations, and proofs checked by TLAPS. Paths below are relative to the
repository; all references are to code as it stands, not to the documents.

## 1. Inventory

| Component | State | Operations | Interacts with |
|---|---|---|---|
| Intervention lifecycle (`src/escalation/lifecycle.ts`) | one record per request: state, stamps, operator, disposition | `createIntervention`, `transition` (throws on a step `ALLOWED` does not list), `holderOf` | called by the control plane, the console and `finish()` |
| Control plane (`src/escalation/control.ts`) | `surfaceHeld` (process-wide), `lastIntervention`, a timer per request | `escalate`, the handle (`claim`, `takeControl`, `return`, `abort`), `finish` | pauses and resumes the browser; waits for the console or a script; called by replay and discovery |
| Operator console (`src/escalation/operator.ts`) | slots, one HTTP server shared by all planes | `POST /claim`, `/return`, `/abort`, auto-resume, close | people; the planes' handles |
| Replay engine (`src/replay/engine.ts`) | locals of `run()`: step, retry counters, approval, `reauthed` | `run`: start checks, step loop, final checks, `complete` | browser, exception classes, handoff, ledger, policy |
| Exception classes (`src/replay/classifier.ts`) | none | `handleException` for six classes | engine, control plane |
| Handoff (`src/replay/handoff.ts`) | none | `afterRiskyHandback`, `escalateToHuman` | engine, control plane |
| Ledger (`src/replay/ledger.ts`) | append-only file | `find`, `append`, `idempotencyKeyFor` | all runs, also of other processes |
| Bank console (`apps/bank-console`) | teller sessions, form tokens, cards, disputes, the tables `filings`, `sub_accounts`, `card_actions` | one route per page and form; a POST awaits its body in the middle | the browsers; one process serves all |
| Governance (`src/policy/runtime.ts`) | two files, each read and rewritten whole: kill switch, rate stamps | `isKilled`, `RateLimiter.assert`, `kill` | the start of every run, in every process |
| Policy (`policy.ts`, `routes.ts`) | none at run time | `assertAction`, `assertRequest`, `proposeRisk` | discovery, each request of the browser |
| Composition (`src/replay/compose.ts`) | the fields of one engine object, shared by a run and the runs it uses | `runUsed` | engine, ledger |
| Drift (`src/replay/drift.ts`) | none | `driftScore` over the last rows | ledger |
| Discovery (`src/agent`) | transcript of turns, page, stuck counter | the model loop, `assist`, `rediscover` | browser, policy, control plane, compiler |
| Artifacts (`src/artifact`) | one JSON file per capability | compile, save, load with migration, review, approve | discovery, command line, replay |
| Overlays (`src/overlay`) | vendor pack and tenant overlay, YAML | read, refuse, lay over a capability | replay |
| Evidence, redaction, locators, markup, CLI output | files and strings | I/O and rendering | everything |

What is hard, and what makes each component correct:

* **Control plane.** Several runs share one process, one console server and perhaps
  one browser session. A person, a script, the TTL, the auto-resume timer and the
  closing server race to settle a request; any await may throw. Correct: a session
  is held by the call that pauses it and by no other, the person drives it only
  then, the record agrees with the decision the run acts on, an approval is used
  only when it was given, and every request is answered.
* **Replay.** A Confirm may be late, answered by a login screen or by a popup, or
  followed by a crash; it may be retried, or handed to a person who does it, half
  does it, or leaves the page. Correct: nothing is confirmed without approval, by
  a dry run, or after a success with the same key; a step takes effect once; a
  reported success is real; the loop ends.
* **Bank.** A handler is cut in two by the `await` of its body, so two posts of one
  page, a reset, a logout or the clock come between what it looked up and what it
  does. A token is consumed on the first use, whatever follows; uniqueness is the
  core's for disputes and reissues, and nobody's for sub-accounts. Correct: every
  row was reviewed, confirmed once, and is told by the pages; what was confirmed and
  accepted is done; tables and page objects agree; what stops half-way can be finished.
* **Governance.** Several processes read, decide and rewrite two files without a lock,
  and may die while a file is empty. Correct: no hour holds more runs than the caps,
  and a capability that was switched off stays off, except in gaps that can be named.
* **Composition.** A used run overwrites fields of its parent's engine. Correct: each
  ledger row tells of the run that wrote it, no run is judged by another's data, a
  capability reached twice confirms once, cycles end.
* **Authoring.** A model proposes, people help, a file is recorded, approved,
  replaced and bound to overlays by processes that do not know of each other.
  Correct: what is replayed is what two people approved, and what is recorded was seen
  on pages the policy allows.

`PROJECT.json` lists all components with their sources, and every hazard with its
line and the properties that cover it, or why none does.

## 2. Modules

    Intervention            abstract: the lifecycle of each request
      ^ implemented by
    ControlPlane            escalate(), console, timers, the runs' use of them
      MCControlPlane, ControlPlaneProofs
    Replay                  step loop, exceptions, handoff, ledger, bank forms as a run meets them
      MCReplay, ReplayProofs, OnceProofs
    RateWindow              abstract: at most so many runs in any hour
      ^ implemented by
    Governance              kill switch and rate limiter, their files, processes, commands
      MCGovernance, GovernanceProofs
    BankConsole             sessions, tokens, forms, tables
      BankPages             what each page says of them
        MCBank
      BankProofs
    Subsequence             operator: the elements of a sequence that a test keeps
      SubsequenceProofs     what it returns; recursion and induction over the naturals
      ^ used by BankPages, Composition, Overlays, Authoring
    Composition             run() on the engine of another run; ledger rows, drift
      MCComposition, CompositionProofs
    Policy, Overlays        operators: routes, risky names; layers over a capability
      ^ extended by
    Authoring               discovery, compilation, approval, binding, rediscovery
      MCAuthoring, AuthoringProofs

`MC*` modules hold the instances for TLC, `*Proofs` modules theorems.

The parts meet at calls, and each module models its neighbours by what those calls
may return. `ControlPlane` has of the run only what it does with an answer; `Replay`
has of the control plane only the answers (`abort`, which the TTL gives as well,
`not_done`, `completed`) after any number of steps of the person, and of governance a
verdict; `Governance` has of a run that it starts and ends; `Composition` takes the
steps of a capability as one action; `Authoring` ends where a replay has passed
its gate. The forms of the bank appear twice: in full, with every client, in
`BankConsole`, and in `Replay` as one page object with the faults a run meets.

### Intervention and ControlPlane

`Intervention` has one variable, the states each request has passed; a step moves one
request along `ALLOWED`, by one or more transitions, and never past an end.

`ControlPlane` keeps the records (`state`, `stamps`, `operatorId`, `disposition`,
`planeOf`), per request its timer (`signal`) and console slot (`slot`, `answer`),
and what the process shares: `server`, `held` (`surfaceHeld`) and `owner` (who may act
on each session). For each plane it has a program counter of `escalate()` and its caller.
One action is the code between two awaits:

| Code | Actions |
|---|---|
| `escalate` 63-174 | `Escalate` (with the SESSION_HELD refusal), `CaptureBefore`, `CaptureFails`, `CaptureAfter`, `Throw`, `Leave` |
| `raceWaiter` 218-255, `applyDecision` 257-289 | `Decide`, `WaitTooLate`, `TtlFires`, `ApplyDecision` |
| `operator.ts` 27-121 | `OpenConsole`, `ServerBound`, `BindFails`, `Settle`, `ServerClosed`, `AutoResumes` |
| `operator.ts` 123-208 | `PostClaim`, `PostReturn` |
| scripted waiters | `StartScript`, `ScriptClaims`, `ScriptTakesControl`, `ScriptReturns`, `ScriptThrows` |
| `handoff.ts` 47-148, `classifier.ts` 122-180, `discover.ts` | `Raise`, `RunAborted`, `Reconcile`, `HandbackClean`, `HandbackEscalates`, `HandbackStops`, `HandbackThrows`, `Skip`, `EntryLost`, `Execute`, `ExceptionHandled`, `DiscoveryResumes` |

A nested escalation, raised while a handback is reconciled, is part of the model.

### Replay

A capability is `N` steps; page `k` is the screen step `k` leads to and the form of step
`k + 1`. A page is its number, its view (the form, a dialog over it, one of the exceptional
screens, login, an unknown or a forbidden screen) and whether its form still has an
unused token. `run` holds the locals of `run()`, `ledger` the rows, `effects` what the core has
recorded by key and step. `hist` is history for the properties; no action reads it.

| Code | Actions |
|---|---|
| `engine.ts` 100-204 | `Gated`, `Refused`, `Conflicts`, `Begins` |
| 211-319, top of the loop | `TopStops`, `TopDismisses`, `TopWaits`, `TopSkips`, `TopDecides` |
| 321-425, the action | `PolicyStops`, `Acts`, `TimesOut`, `Misses` |
| 427-498, the checkpoint | `Misreads`, `Passes`, `Fails` |
| 501-583, the end | `Finishes`, `Throws`; `Crashes` for the process |
| `handoff.ts` 47-148 | `HandsBack` with `Reconciles` |
| `classifier.ts` 92-230 | `Stops`, `Recovers` inside the actions above; `Restores`, `Supervises` |
| bank routes, `tokens.ts`, `filings.ts` | `Loads`, `Replies`, `Shown`, `Consumed`, `Records`; the person's `PersonPosts`, `PersonGoes` |

A timeout of `act()` has three outcomes: the request was not sent; it was handled and the
browser still shows the old form; it was handled and the new page is there. A reply may
be the page asked for, or the gate's 503, expired or login page, before the handler (no
effect) or after its redirect (effect recorded).

### RateWindow and Governance

`RateWindow` admits runs in the order of their times, each while the hour that ends with
it holds fewer than the caps, and nothing else, until something spoils it.

`Governance` has the two files (`store`, `switch`: whole or emptied), the processes
with the place at which the start of their run stands, and the commands. `writeFileSync`
empties a file before it fills it, and a reader that finds it so sees nothing disabled, the
default limits, or no stamps at all. History: `admitted`, `spoilt` (two asserts
overlapped, a process died while writing, limits were read from a broken file), `muddled` and
`acked` for the switch.

| Code | Actions |
|---|---|
| `cli.ts` 142-179, 290-314; `compose.ts` 47-57 | `Launches`, `StartsUsed`, `Ends`, `Dies` |
| `engine.ts` 585-611 | `ChecksSwitch` |
| `runtime.ts` 109-176 | `CountsCapability`, `CountsTenant`, `Records`, `Writes` |
| `cli.ts` 417-445 | `Loads`, `Empties`, `Saves`, `Aborts` |

`escalate-demo`, `stability`, `rediscover` and the desktop replay pass no limiter
(`limited = FALSE` in `Launches`). The switch is read once for each `run()`, so also for a used
capability, and never again while it runs.

### BankConsole and BankPages

`sess` by cookie, `tokens` with their action and time, `reviews` (history: the action each
token was issued for), `disputes`, `cards`, and the tables `filings`, `subAccounts`, `cardActions`
with the sequence `seq` of SQLite's AUTOINCREMENT. `req` holds the posts that wait for
their body, with the card object they looked up: the current one, or, after a reset put
fresh objects there, the old one as it was.

A restricted member is denied on the pages about one member. The lists of results name
whoever a search finds, restricted members with their id, name and link included
(`html.ts` 204-232), and the model says so (`FoundOne`, `Named`).

| Code | Actions and operators |
|---|---|
| `session.ts`, `server.ts` 351-364 | `Login`, `Logout`, `Gate` with `AfterHit`, `Refused` |
| `tokens.ts` | `Issue`, `Valid`, `Consume` |
| `server.ts` 546-562, 615-652, 684-700, 786-876 | `Review…` for the GET of each form, `Arrive` for the first half of a POST; then `InvalidToken`, `OpenSubAccount`, `FileDispute`, `BlockCard`, `BlockIdle`, `ReissueCard`, `ReissueIdle` |
| `reset()` of the server, 977-983 | `Reset`: tables, objects, tokens; not `seq` |
| every GET | the operators of `BankPages`, one per route, in each state of the core |

### Composition

`stack` is the chain of `run()` calls, `engine` the fields of the one engine object (inputs,
capability, audit, ledger), `ledger` the rows, `effects` what was confirmed.

| Code | Actions |
|---|---|
| `engine.ts` 70-176, start of `run()` | `Calls`, `VaultThrows`, `RefusesInputs`, `GovernanceStops`, `SessionStops`, `Registers`, `LedgerThrows`, `Conflicts`, `NotApplicable`, `Cycles`, `Begins` |
| `compose.ts` 26-70 | `LoadFails`, `Skips`, `Uses`, `Resumes`, `Halts`, `Catches` |
| the steps, `complete()` | `Steps`, `Completes`; `NeedsRediscovery` for `driftScore`, in integers |

What the model shows of the code, and the properties leave room for: the inputs, the
capability and the session credential of the engine are not put back after a child; a child
that governance stops writes its row under the name of its parent, and a parent that
catches what a child threw writes under the name of the child; at the outermost level a run
that governance stops, or whose inputs are invalid, leaves no row; locator hits of
a child are counted in both rows; a refused session counts as a missed checkpoint; children
inherit `approveRisky`.

### Authoring, Policy, Overlays

One capability file (`stored`), the file of a rediscovery (`draft`), one discovery, one
approval and one replay in progress.

| Code | Actions |
|---|---|
| `discover.ts` 40-227 | `Discovers`, `UrlThrows`, `Stuck`, `ModelEscalates`, `PolicyAsks`, `ModelActs`, `RiskyAnswered`, `Acts`, `OutOfSteps`, `ModelFinishes` |
| `assist` 229-265, `inferHumanAction` | `Assisted`, `LimitAnswered` |
| `compile.ts`, `store.ts` | `CompileArtifact` inside the last two |
| `review.ts`, `cli.ts` 406-415 | `ApproveReads`, `ApproveWrites`: an await lies between |
| `cli.ts` 290-314 with `overlay/` | `Replays` with `BindTenant` |
| `rediscover.ts` 50-82 | `Discovers` (`again`), `ReplaysDraft` |

What the model shows here: a Confirm that a person did for a stuck discovery is recorded as
safe, so that a capability with no other risky step is declared without side effects and
replayed without the approval gate (`DECISIONS.md:166` leaves a step that is marked wrong to
the review, which runs only when somebody asks for it);
a tenant's copy can give a safe step the name of an irreversible control, since
`assertUnchangedSafety` compares id, action and risk only; a form answered in place leaves
a url that only a POST may ask for, and the url check of the next turn throws out of the
discovery; a recording in which a step was done by somebody who gave no name is refused
by the schema and not written; discovery without a control plane performs risky actions unasked; a
rediscovered version has no approval, and its replay is refused when it is risky.

Pages of no host (`about:`, `data:`, `blob:`) pass the policy whatever its rules say
(`IsUncheckedOrigin`). Of the browser the model takes what `web.ts` 63-87 goes by: the route
handler is asked about the url a request starts with, and not about where a server redirects
it (`Redirects`), and a request that it blocks leaves the browser's own error page
(`ErrorPage`). So any page may be *shown* to a discovery that a redirect leads to
(`Loaded`), a denied one too; the check at the head of the next turn then throws. After the
last turn no such check comes, so the pages after the last step are in the recording
whatever they are (`late`).

### Slips

Operators whose comment starts with "A slip" (and `TakeUnclaimed`, `NeverHeld` and so on in
`ControlPlane`) are not used by the specifications. They are plausible mistakes in
the code; `PROJECT.json` names, for each property of each run, one that breaks it.

## 3. What TLC checks

| Run | Instance | Shows |
|---|---|---|
| `shared_session` | one session, two runs (console, script), 3 requests, 1 operator, symmetry; 850,967 states | types, `HeldByItsCall`, `HumanDrivesWhilePaused`, `RecordAgreesWithDecision`, `RunsOnlyWhenHandedBack`, and `Lifecycle`: the plane implements `Intervention` |
| `console` | two sessions, replay with auto-resume and discovery, 2 requests, two tellers and a blank name; 143,172 states | `OpenSlotIsAwaited`, `OneHolderAtConsole`, `OperatorIsKept` |
| `liveness` | as the first, 2 requests, no symmetry; 125,295 states | `EveryRequestAnswered`, `SessionComesBack` |
| `sub_account` | 2 runs with one key, 2 steps, one Confirm, budget 1, 2 faults; 1,405,010 states | types, `NoActionAfterSuccess`, `SuccessIsReal`, `OnceUnlessMoved` |
| `card_block` | 1 run, navigation and two Confirms, budget 2, 3 faults; 51,498 states | `ApprovedOnly` over two risky steps, `EndsOrAsks` |
| `bank` | two members (one restricted), two disputes, three cards, one session, 3 tokens, two posts waiting; 371,326 states | types, `TablesAgree`, `EffectsWereReviewed`, `OneRowPerReview`, `HalfDoneIsFinishable`, `EffectSpendsItsReview`; `AcceptedIsDone`; of the pages `PagesTellTheCore` |
| `governance` | two processes, two commands, 3 starts, clock to 3 with an hour of 1; 937,104 states, symmetry | types, `NoHourOverflows`, `KillStands`, `KilledPassesOnlyInTheGap`, and `LimiterKeepsPromise`: the limiter implements `RateWindow` |
| `composition` | three capabilities in three catalogs, with a cycle, with missing inputs and with a name that is not there, 2 runs; 387,420 states | `RowsAreOwn`, `NoForeignInputs`, `ConfirmsOnce`, `DriftHasACause`, `CallsNestNoDeeper`, `CallsAreAnswered` |
| `authoring` | files of three schema versions, approved by two, by one, by a blank or not at all, seven bindings, one discovery of 2 turns over five pages (a denied one, one of no host, two redirects, the error page), one operator and the blank name, symmetry of the two approvers; 595,657 states | `RunsAsApproved`, `MisjudgedOnlyByHand`, `RecordedWhereAllowed`, `FixNamesTheFile` |

Bounds. Three requests are one more than a nested escalation needs, so a second
escalation of the same run, or a refused one, falls between the two. Two runs are what
every conflict here is between (one key, one session, one console). Two faults let
a timeout be followed by an expired session or a popup; three do so for one run
with two Confirms. `Many = 2` counts effects as none, one, several. The entry checkpoint
is a path comparison by inclusion, so the next page may satisfy it: `EntryHeld` allows both.

`bank`: two slots are what a double post needs, three tokens let an old page, a new one and
one after a reset be alive; the clock passes the life of a token and of a session at its first
tick. Three tokens are one reissue: that two of them never share a case number, also
after a reset, is shown by the theorem alone. `governance`: three starts
reach both caps (1 for the capability, 2 for the tenant) and a run at the limit; four
values of the clock let an hour pass and stamps be forgotten (`Keep` is 2 here, 48 hours in
the code). States in which the caps or the switch are void are not explored further,
since no property speaks of them. `composition`: a run that succeeds and the next with its key are two;
`MaxDepth` is a guard that no behaviour reaches: `CallsNestNoDeeper` bounds the chain of callers
by the capabilities of the catalog and one more, and is proved for any of them.
The second outcome of a step is exactly 15% fallbacks, the threshold of drift.
`authoring`: two turns let a step be proposed and another be done by a person, or the
second find a page that a redirect led to; the end, by the model or by the limit, is a turn
without a step. The stuck limit is 1 instead of 3, since only reaching it matters.

Fairness. `ControlPlane`: weak fairness of the calls' own steps, of timers and of the
server; none of operators or scripts. `Replay`: weak fairness of the engine's steps, which
include the answer that the TTL gives when nobody comes; none of the person.
`Composition`: weak fairness of the engine's steps, none of callers. That is
what the event loop, `setTimeout` and the timeouts of the browser calls provide. It is not
assumed that a process survives: `Crashes` and `Throws` are always possible.

`EndsOrAsks` stops at the person. A session handed back still expired is escalated
again with no cap (`engine.ts` 259-263), so a person who always answers and never
signs in keeps a run for ever, and the model agrees.

`OnceUnlessMoved` and `SuccessIsReal` except runs whose person has left the page of the handoff.
Both exceptions are needed. A person who goes back to the form after a Confirm whose
answer was an expired session gives automation a fresh token and it confirms
again, since the approval of the step is still set; and receipts
(`/opened`, `/receipt`, `/done`) are served to whoever asks, so a page that was opened by
hand satisfies the success checkpoint without any record in the core.

### What the exemptions leave out

A property that excepts something does not catch what goes wrong inside the exception.
`moved` (`OnceUnlessMoved`, `SuccessIsReal`): a run whose person has left the page, above.
`spoilt` (`NoHourOverflows`, `LimiterKeepsPromise`): from the first overlap of two asserts, death
in a write or half-read switch file on, the limiter promises nothing. `muddled` (`KillStands`,
`KilledPassesOnlyInTheGap`): the same of overlapping, dead or misled `kill` commands; and a run
that reads the switch while it is rewritten passes, which the second property allows by
name. `late` (`RecordedWhereAllowed`): pages after the last step. The searches that `lost`
names (`SearchFinds`): the "Next" of a result always asks for a last name (`html.ts:226`,
`legacy.ts:144`), so the rest of a result that was found by a part of an id or name, and
has more than one page, is lost. A run whose outputs cannot be read fails after its
effect; no property speaks of that either. In each case the code has no guard that a property could
state, and the hazard in `PROJECT.json` says so.

### Where documents and code disagree

| Run | The document | The code |
|---|---|---|
| `holder_bypassed` | `lifecycle.ts:103`, at most one operator holds the live console | only `/claim` asks `holderOf`; `/return` on an unclaimed request and auto-resume do not |
| `retry_safe` | `DECISIONS.md:137`, a retry with the key of an ambiguous run is safe | `find()` returns rows with status success only; the retry confirms again |
| `not_knowing` | `REPORT.md:287`, Confirm ok and checkpoint missed gives `ambiguous: true` | an exceptional state on that page is handled first, and its result has no flag |

Two more are visible in the model and need no run of their own: `operator.ts:202` answers
"Control returned to automation" although the last answer still waits for the server to close and
the TTL may win; and `REPORT.md:405` says that returned leads to resolved, while
`finish()` reaches the last request of a plane only, so that the outer of two nested ones stays
returned. `README.md:257` promises the cap of runs in an hour without the three exceptions that
`spoilt` names.

## 4. What is proved

All theorems hold for every value of the constants that satisfies the assumptions the
modules state; nothing is bounded. Every safety invariant and every action property that a
passing run checks is a theorem, and so are the two refinements; TLC has only what speaks of
fairness (at the end).

**`ControlPlaneProofs`** (from `SurfaceAssumption`, `PlaneSubsets`, `NoneAssumption`: planes
have a session, scripted and other kinds of planes are planes, `None` is none of the values).

* `Lock`: `LockInv` is inductive. The claim of interest is `HeldByItsCall`, but
  alone it is not preserved: a call that leaves has to know that the session it releases is
  its own. `CallsOwnTheirRecord` ties the call to one record of its plane,
  `TimersBelongToCalls` lets a TTL fire only for the call in progress, and
  `SlotsBelongToWaits` makes an answer of the console reach a call that waits.
  From it: `TypeCorrect`, `SessionLock` (`HeldByItsCall`), `HumanLock`
  (`HumanDrivesWhilePaused`), `SlotsAreAwaited` (`OpenSlotIsAwaited`).
* `LifecycleRefined`: `ControlPlane` implements `Intervention`. `LifeInv` adds to `LockInv`
  that the stamps of a record are a path of the lifecycle to its state
  (`StampsArePaths`) and that a record is unanswered while its race is open
  (`OpenRaceUnanswered`), without which a late answer could move a record that is over.
  Each action is then shown to be a step along `ALLOWED`, or a stutter. `StateStamped`
  (a record's state is one it has stamped, and final once a final one is stamped) follows.
* `HandInv` adds to `LifeInv` what the handback goes by. `LocalOf` binds a plane's decision
  to its record from the moment the race is settled until the caller is done; a record
  whose handback a second escalation interrupted stays returned and is not the plane's current
  one (`OuterReturned`); and a record for which a step was run cannot move any more (`Over`):
  alone, `RunsOnlyWhenHandedBack` would not survive an abort that comes after the step.
  `RecordTellsDecision` and `RunWhenHandedBack` follow.
* `ConsoleInv` adds that a request of the console is still just raised when its slot opens
  (`NewAreRaised`), so that a second holder can only come by `POST /claim`, which asks;
  and that a request nobody claimed names nobody (`RaisedUnnamed`). From it `OneHolder`
  (`OneHolderAtConsole`) and `OperatorStays` (`OperatorIsKept`).

**`ReplayProofs`** (from `RunAssumption`, `PlanAssumption`, `OptionAssumption`,
`BoundAssumption`, `NoneAssumption`: each run has a key, risky steps are recorded with a
checkpoint and a navigation is not risky, option sets are sets of runs).

* `Invariant`: `Inv` is inductive. `LocalOf` speaks of one run: at each label, by what
  right it is there. A run acts on a risky step only when it is not dry and has
  the approval of the options or the person's answer for that step; the answer survives a
  second escalation (`restoring`), and no approval survives the step it was given for.
  `SharedOf` relates runs: a success has its row; runs that were over before a run
  began stay over; and if one was a success with its key, the run is dry or over and has done
  nothing. `StepKeeps` shows once that a step of one run keeps what is said of the others,
  so each action has only its own run to account for.
* `Approval` (`ApprovedOnly`), `NoSecondAction` (`NoActionAfterSuccess`) and `TypesHold`
  (`TypeOK`) follow. The second is about runs that *start* after a success: two runs that
  overlap may both confirm, in the code and in the model.

**`OnceProofs`** (extends `ReplayProofs`, the same assumptions; `OnceInv` was checked with
TLC on the instances of `sub_account` and `card_block` first).

* `OnceInvariant`: `OnceInv` says, of each run whose person has not left the page of the
  handoff, what its page tells of the core (`Tells`): every Confirm behind the page is on record;
  a step that the run or its person has done lies behind the page or is its form, and then
  the form has no token. The token alone is not inductive: signing in after a POST
  shows the form again with a fresh one. That this happens only on the card screens, whose
  effect makes the bank show the "already blocked" screen instead, is the last part of
  `Tells`. `Knows` adds that a person who is asked about the session has no form to post,
  and that nothing is done before a run has left its recorded navigation, which would bring it
  back to a fresh form. `RepliesTell` is the core of it: each answer of the bank, in time or
  late, leaves a page that tells the truth.
* `OneEffect` (`OnceUnlessMoved`) and `RealSuccess` (`SuccessIsReal`) follow. The first counts what
  automation and the person do together; a request has an effect only with the token
  of a form that was not spent (`HitsOnce`).

**`GovernanceProofs`** (from `GovernanceAssumption`: window, time of keeping and caps are
numbers, stamps are kept longer than the window, orders are orders).

* `LimiterImplementsRateWindow`: `Governance` implements `RateWindow`. The invariant is
  `LimiterInv`: unless spoilt, at most one process is between its first count and its last
  write; the file is whole when that process is not writing, and then holds every admitted stamp
  younger than `Keep`; and at each place of the process, `StageOf` says that what it has
  counted bounds what the last hour holds. Time only moves forward, so an old count stays a
  bound. `NumbersInv` (runs are numbered apart, no stamp is from the future) makes the
  admitted stamp a new one.
* `CapsHold` (`NoHourOverflows`): the property speaks of the hours that end with a run, but that
  is not inductive across tenants; `HoursInv` speaks of every integer as the end of an hour.
* `KillSwitchStands`, `KilledIsStopped` (`KillStands`, `KilledPassesOnlyInTheGap`): `SwitchInv`
  says that, until muddled, one command edits at a time and what it holds is its own edit
  of what the file says.
* `TypeCorrect`.

**`BankProofs`** (from `MembersAssumption`, `TablesAssumption`, `BoundsAssumption`,
`PostsAssumption`, `NoneAssumption`, `PagesAssumption`: disputes and cards belong to members,
limits are numbers, a page of a list has room, the roster lists each member once, posts are
forms, `None` is none of the values).

* `TokenInv`: a live token was issued since the reset, for an action whose page was on offer to a
  member who is not restricted; a post whose card object is the old one has lost its
  token. From it `EffectsReviewed`, `OneRowEach`, `EffectsSpend`: the counting of rows against
  spent tokens takes one token out of the live ones in the step that adds the row.
* `IdsInv` and `CasesFollowIds`: ids come from the sequence, a case is at most its row's id, so the
  next case, `max(id) + 1`, is above all others though it may be behind the
  sequence. `TablesDoAgree` and `TypeCorrect` need it, the latter because the largest id is a
  `CHOOSE`; `LastOne` shows that it exists, by well-foundedness of finite sets.
* `BlockedAreReady` gives `HalfDoneCanFinish`.
* `AcceptedAreDone` (`AcceptedIsDone`): `OffersInv` says of each live token that its form can still
  be carried out or has been: the card of a reissue is reissued, or blocked and ready for it.
  `CardsGoOn` shows that no request takes that back, and a reset drops the tokens; so what an
  accepted post leaves undone was done before it (`BodyDone`). A reissue on offer before
  its block would spend its token on nothing.
* `PagesDoTell` (`PagesTellTheCore`), from the invariants above. The pages of a list are sums over
  rows: `CeilBounds` and `PaginateCuts` show that page `n` is what lies between two cuts of the
  list, the last of which is its end; `PagesJoin`, by induction on the pages, that one page
  after the other is the list, with no row lost or shown twice; and `PagesClamped` that a page
  number outside the list, negative ones included, is that of the nearest page. For
  `SearchFinds`, `ShortLists` shows that a list of one row is one page and `PagesShow` that the pages
  together name whom the list names, some of them not on the first when there are more;
  `SearchesFind` then follows the links of either skin.
* `SearchShowsEachOnce`, a fact about the search that no run states: each member it is for stands at
  one place of one page of the result, and nobody else is on any page. `SearchLists` has it of
  the whole list, `RowStandsOnce` finds the page as the first whose cut is not before the row.

**`SubsequenceProofs`** (from nothing) is what the other modules take for recursive definitions.
The library's induction theorems are stated for an operator, which the provers cannot
instantiate, so `LeastElement` takes a least element from the well-founded order of the naturals
and `Induction` and `Recursion` follow for sets and functions: the numbers with a property form
a set, of whose complement there is no least one; and a function given by its first value and
its steps exists, as the union of its beginnings. With them `Picking` unfolds `Picked`, the
`filter` of the source, element by element, `PickedKept` says that what it returns was kept,
`PickedFirst` that its first element is the first one kept, and `PickedWhole` that it is all that
was kept, in order.

**`CompositionProofs`** (from `CatalogAssumption`, `HitsAssumption`, `WindowAssumption`: the catalog is
finite, hits are counted, the window is a number).

* `EngineIsOwn`: `CallInv` is inductive. A call that waits for one it uses has saved its own audit
  and ledger (`Waiters`), and each call got its inputs from the one below it; a run that goes on
  finds its own audit and ledger in the engine, and inputs that are part of its own
  (`EngineTells`): the inputs are never put back, so the engine keeps those of the last
  call, which are a part of those of every call under it. `OwnRows` (`RowsAreOwn`) and
  `OwnInputs` (`NoForeignInputs`) follow; without `Waiters` the first fails as soon as a child
  returns.
* `OnceHolds`: `OnceInv` adds that a call past its checks is none of its callers again
  (`Callers`), that for such a call, if it confirms and has a ledger, no success with its key is
  there yet (`NoneBefore`), that what the run has done has its row as long as it goes on
  (`EffectsTell`), and that a success has the name of the run it is of. From it `ConfirmedOnce`
  (`ConfirmsOnce`): two calls with one key in one run need the second to begin after the
  first has ended, and then the first has its row, or its run is stopped.
* `NestingIsBounded` (`CallsNestNoDeeper`), from `Callers`: the calls that wait are an injection of
  their places into the catalog.
* `SlipsAreTold` and `DriftIsCaused` (`DriftHasACause`): hits of a child are added to those of its
  parents on the way up, so the invariant follows them through results, calls and rows
  (`SlipsTell`); `SumCounts` (by `Induction`) finds a row with a fallback when the sum over
  the window is not zero, and the thresholds of the score leave no way to reach it without one or a
  missed checkpoint, an empty window included. `SumsCompare` is the other way round: rows that
  are each at the threshold are so together, and the report says so.

**`AuthoringProofs`** (from `FilesAssumption`, `PathsAssumption`, `HandsAssumption`: a file the repository
holds, if two people approved it, is as it was when they did, and says who helped if a
person did a step of it; patterns and paths are sequences of segments, redirects
lead from page to page; an operator who is named has a name, and the risky names are names).

* `ReplaysRunAsApproved` (`RunsAsApproved`): `AuthoringInv` says of the stored file, of the draft
  and of the content that an approval in progress is about to write, that an approval by two
  is one of the file's own steps (`ApprovedAsIs`). A recording has no approval, reading an old file
  changes neither steps nor approval, and what `AssertUnchangedSafety` lets through of an overlay
  has the risks of the file (`BoundKeeps`); the gate does the rest (`GatedRun`).
* `HandsAreTold` (`MisjudgedOnlyByHand`): a step called safe on a control with a risky name was done
  by a person, and the file says who helped. `DiscoveryInv` carries the risk a name was
  given from the proposal to the action, over whatever a person was asked in between;
  `MisjudgedInv` says the same of the files, also of the one an approval is about to write.
  `CompiledFrom` shows that compilation adds only the entry step, and `PickedFirst` that the helper
  it names is there when any step was a person's.
* `RecordingsStayAllowed` (`RecordedWhereAllowed`). The policy's matcher is a recursion from the end of
  the pattern; the property asks for a way to lay the pattern over the path. `MatchesLay` shows,
  by induction on the tokens, that they agree for every pattern and every path,
  `**` in the middle, at the end and more than once included, so `RoutesCover` says the same of
  the rules. The page a discovery is on may be any (a redirect), but what it has `seen` is
  checked except the page it is on (`SeenInv`): each turn checks that one before it goes on, or throws.
* `FixIsRight` (`FixNamesTheFile`): the overlay file a person is told to edit is the one whose
  words the run goes by, the tenant's copy being laid over the vendor's.

TLC alone checks the liveness properties: `EveryRequestAnswered`, `SessionComesBack`, `EndsOrAsks`
and `CallsAreAnswered`, since fairness and ENABLED are out of the prover's reach.

## 5. What is not modelled

The strings: what is matched on a page is its view, a phrase of an overlay is a whole name, a
locator is a control. Coercion of outputs, ranking of locators, canonical urls, hashes,
rendering and skins, evidence files, redaction, logging. The loading of YAML beyond whether it
parses. `couldReach`, which only a report asks. `promoteHits`, which only scripts call.
Scripts, the verification script and the reports (stability, portability, round trip) are
sequences of calls of the parts above. Models and scripts that decide are free choices.

In `Replay`: overlays, `uses`, the switch and the limiter are verdicts (`Gated`); the modules
of those parts have them. A person's typed URL is any page of the plan; other screens of
the bank are `other`. A late answer that replaces a page after the next action has begun is
not modelled apart from the page it leaves. Two runs are not modelled on one browser in `Replay`
(`ControlPlane` does). Clocks of the control plane are timers that may fire at any moment.

In `BankConsole`: `pendingMemberId`, a member that clients of the work frames share, which only
decides what a frame shows. The branch of the reissue for `DuplicateCardActionError` cannot be
reached: the card's own state is asked first, in the same step. In `Authoring`: the check of
`whoHasControl` at the head of a turn, which nothing in a discovery alone can make fail; the
policy's check of a `navigate` is where the page lands, since the model has no such action.

A hazard that no property covers is in `PROJECT.json` with the reason.

## 6. Plan

Done: `ControlPlane`, `Intervention`, `Replay`, `Governance`, `BankConsole` with its pages,
`Composition`, `Authoring` with policy and overlays; proofs of every safety property of their
runs and of both refinements.

Left, in this order:

1. `Replay` against `BankConsole` instead of its own page object: the forms, tokens and sessions
   are there, the faults (`503`, late answers) would be actions of the pair.
2. Proofs of what that pair keeps, from `TokenInv` and `OnceInv`, which say the same of a form's
   token from either side.
