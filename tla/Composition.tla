------------------------------ MODULE Composition ------------------------------
(***************************************************************************)
(* A run that uses other capabilities (src/replay/compose.ts, run() of     *)
(* src/replay/engine.ts).  A used capability runs on the same engine       *)
(* object: run() overwrites the engine's inputs, capability, audit and     *)
(* ledger, and runUsed restores the last two only.  Each run() that gets   *)
(* as far as complete() leaves one ledger row, under the name the audit    *)
(* then has; drift is scored over the rows.  The steps of a capability     *)
(* are one action here; Replay takes them apart.                           *)
(***************************************************************************)
EXTENDS Integers, Sequences, FiniteSets, Subsequence

CONSTANTS Capabilities,
          Catalogs,     \* what each capability uses: sequences of [id, pass]
          Params,       \* per capability, the names of its parameters
          KeyFrom,      \* per capability, the names its idempotency key is made of
          Numeric,      \* the names of type number
          Mutating,     \* capabilities with sideEffects.kind # "none"
          Given,        \* the inputs a caller may pass
          Choices,      \* the options a caller may choose
          Blank, Digits, \* the value that is missing, and the one that looks like a number
          Hits,         \* located targets of the steps: [targeted, fallback]
          Window,       \* rows a drift report looks at
          MaxRuns,      \* bound: runs started from outside
          MaxDepth      \* bound: run() calls in progress; CallsNestNoDeeper says when none reach it

\* The catalog is a directory of files; steps are counted, and a report looks at a number of rows.
ASSUME CatalogAssumption == IsFiniteSet(Capabilities)
ASSUME HitsAssumption == Hits \subseteq [targeted : Nat, fallback : Nat]
ASSUME WindowAssumption == Window \in Nat

VARIABLES uses,     \* the catalog
          stack,    \* the run() calls in progress, the outermost first
          engine,   \* the fields of the engine that run() sets
          options,  \* options that nested runs inherit: ledger, dryRun, probe
          result,   \* what the last run() has returned or thrown, until it is looked at
          ledger,   \* runs/ledger.jsonl
          effects,  \* history: what the core has done
          slipped,  \* history: where a locator fell back or a checkpoint was missed
          runs      \* number of outermost runs

vars == <<uses, stack, engine, options, result, ledger, effects, slipped, runs>>

None == "none"
NoAudit == [cap |-> "unknown", key |-> <<>>]
NoResult == [status |-> None, code |-> None, hits |-> [targeted |-> 0, fallback |-> 0]]
Fresh == [inputs |-> <<>>, capability |-> None, audit |-> NoAudit, ledger |-> FALSE]
NoOptions == [ledger |-> FALSE, dryRun |-> FALSE, probe |-> FALSE]

Top == stack[Len(stack)]
Nested == Len(stack) > 1
Popped == SubSeq(stack, 1, Len(stack) - 1)
WithTop(f) == [stack EXCEPT ![Len(stack)] = f]
At(pc) == stack # <<>> /\ Len(stack) < MaxDepth /\ result = NoResult /\ Top.pc = pc

Call(c, inputs, seen) ==
    [cap |-> c, inputs |-> inputs, seen |-> seen, pc |-> "enter", next |-> 1,
     hits |-> [targeted |-> 0, fallback |-> 0], saved |-> NoAudit, savedLedger |-> FALSE]

Key(c, inputs) == [n \in KeyFrom[c] |-> IF n \in DOMAIN inputs THEN inputs[n] ELSE Blank]

\* No unknown name, none missing or blank, and numbers look like numbers.
Valid(c, inputs) ==
    /\ DOMAIN inputs \subseteq Params[c]
    /\ \A n \in Params[c] : n \in DOMAIN inputs /\ inputs[n] # Blank
    /\ \A n \in Params[c] \cap Numeric : inputs[n] = Digits

Add(h, k) == [targeted |-> h.targeted + k.targeted, fallback |-> h.fallback + k.fallback]

---------------------------------------------------------------------------
(* The ledger and the drift report over it.                                *)

Misses(code) == code \in {"CHECKPOINT_FAILED", "PRECONDITION_FAILED"}

Row(e, f, status, code) ==
    [cap |-> e.audit.cap, key |-> e.audit.key, status |-> status,
     code |-> code, hits |-> f.hits, miss |-> Misses(code), by |-> f.cap, run |-> runs]

\* A slip: the ledger is asked for the outermost capability only.
PriorOutermost(c, key) == ~Nested /\ \E i \in DOMAIN ledger :
    ledger[i].cap = c /\ ledger[i].key = key /\ ledger[i].status = "success"

Prior(c, key) == \E i \in DOMAIN ledger :
    ledger[i].cap = c /\ ledger[i].key = key /\ ledger[i].status = "success"

Last(rows, n) == SubSeq(rows, IF Len(rows) > n THEN Len(rows) - n + 1 ELSE 1, Len(rows))
Total(rows, field) ==
    LET sum[i \in 0..Len(rows)] == IF i = 0 THEN 0 ELSE sum[i - 1] + rows[i].hits[field]
    IN sum[Len(rows)]

Recent(c) == Last(Picked(ledger, {i \in DOMAIN ledger : ledger[i].cap = c}), Window)

\* A slip: a rate that is just the threshold does not count.
Above(part, percent, whole) == whole > 0 /\ 100 * part > percent * whole

AtLeast(part, percent, whole) == whole > 0 /\ 100 * part >= percent * whole

\* driftScore: a rate of 15% fallbacks or of 10% missed checkpoints, or 60 and 40 parts of
\* the two adding up to 12%, over the last rows of the capability.
NeedsRediscovery(c) ==
    LET rows == Recent(c)
        n == Len(rows)
        located == Total(rows, "targeted")  fallbacks == Total(rows, "fallback")
        missed == Cardinality({i \in DOMAIN rows : rows[i].miss})
    IN /\ n > 0
       /\ \/ AtLeast(fallbacks, 15, located)
          \/ AtLeast(missed, 10, n)
          \/ located = 0 /\ 40 * missed >= 12 * n
          \/ located > 0 /\ 60 * fallbacks * n + 40 * missed * located >= 12 * located * n

---------------------------------------------------------------------------
(* How a run() call ends.                                                  *)

Sinks(f, status, code) ==
    /\ result' = [status |-> status, code |-> code, hits |-> f.hits]
    /\ stack' = Popped

\* complete(): a row, if a ledger is set on the engine, under the name the engine has.
Completes(e, f, status, code) ==
    /\ Sinks(f, status, code)
    /\ ledger' = IF e.ledger THEN Append(ledger, Row(e, f, status, code)) ELSE ledger

Rejects == Sinks(Top, "thrown", None) /\ UNCHANGED ledger

---------------------------------------------------------------------------
(* The start of a run().                                                   *)

Init ==
    /\ uses \in Catalogs
    /\ stack = <<>> /\ engine = Fresh /\ options = NoOptions /\ result = NoResult
    /\ ledger = <<>> /\ effects = <<>> /\ slipped = {} /\ runs = 0

\* The command line makes a new engine for each run.
Calls ==
    /\ stack = <<>> /\ result = NoResult /\ runs < MaxRuns
    /\ runs' = runs + 1
    /\ \E c \in Capabilities, inputs \in Given : stack' = <<Call(c, inputs, {})>>
    /\ options' \in Choices
    /\ engine' = Fresh
    /\ UNCHANGED <<uses, result, ledger, effects, slipped>>

Entered == [engine EXCEPT !.inputs = Top.inputs, !.capability = Top.cap]
Registered == [Entered EXCEPT !.ledger = options.ledger,
                              !.audit = [cap |-> Top.cap, key |-> Key(Top.cap, Top.inputs)]]

\* resolveCredentialRef throws out of run().
VaultThrows ==
    /\ At("enter")
    /\ engine' = Entered
    /\ Rejects
    /\ UNCHANGED <<uses, options, effects, slipped, runs>>

\* Invalid inputs are answered without a row.
RefusesInputs ==
    /\ At("enter") /\ ~Valid(Top.cap, Top.inputs)
    /\ engine' = Entered
    /\ Sinks(Top, "invalid_input", "INVALID_INPUT")
    /\ UNCHANGED <<uses, options, ledger, effects, slipped, runs>>

\* Governance comes before the engine has the audit and the ledger of this run; GOVERNANCE
\* stands for KILL_SWITCH, RATE_LIMIT and APPROVAL_REQUIRED.
GovernanceStops ==
    /\ At("enter") /\ Valid(Top.cap, Top.inputs)
    /\ engine' = Entered
    /\ Completes(Entered, Top, "failed", "GOVERNANCE")
    /\ UNCHANGED <<uses, options, effects, slipped, runs>>

\* A session that is not signed in, or has another role, counts as a missed checkpoint.
SessionStops ==
    /\ At("enter") /\ Valid(Top.cap, Top.inputs)
    /\ engine' = Registered
    /\ Completes(Registered, Top, "failed", "PRECONDITION_FAILED")
    /\ slipped' = slipped \union {[run |-> runs, cap |-> Top.cap]}
    /\ UNCHANGED <<uses, options, effects, runs>>

Registers ==
    /\ At("enter") /\ Valid(Top.cap, Top.inputs)
    /\ engine' = Registered
    /\ stack' = WithTop([Top EXCEPT !.pc = "checks"])
    /\ UNCHANGED <<uses, options, result, ledger, effects, slipped, runs>>

AsksLedger == Top.cap \in Mutating /\ options.ledger /\ ~options.dryRun

\* find() parses every line of the file; one that does not parse throws out of run().
LedgerThrows ==
    /\ At("checks") /\ AsksLedger
    /\ Rejects
    /\ UNCHANGED <<uses, engine, options, effects, slipped, runs>>

Conflicts ==
    /\ At("checks") /\ AsksLedger /\ Prior(Top.cap, Key(Top.cap, Top.inputs))
    /\ Completes(engine, Top, "failed", "IDEMPOTENCY_CONFLICT")
    /\ UNCHANGED <<uses, engine, options, effects, slipped, runs>>

Goes == At("checks") /\ ~(AsksLedger /\ Prior(Top.cap, Key(Top.cap, Top.inputs)))

NotApplicable ==
    /\ Goes /\ options.probe /\ ~Nested
    /\ Completes(engine, Top, "failed", "NOT_APPLICABLE")
    /\ UNCHANGED <<uses, engine, options, effects, slipped, runs>>

Cycles ==
    /\ Goes /\ Top.cap \in Top.seen
    /\ Completes(engine, Top, "failed", "COMPOSE_CYCLE")
    /\ UNCHANGED <<uses, engine, options, effects, slipped, runs>>

\* A slip: the chain of callers is not remembered.
SeenNothing(f) == {}

Seen(f) == f.seen \union {f.cap}

Begins ==
    /\ Goes /\ Top.cap \notin Top.seen
    /\ stack' = WithTop([Top EXCEPT !.pc = "uses", !.seen = Seen(Top)])
    /\ UNCHANGED <<uses, engine, options, result, ledger, effects, slipped, runs>>

---------------------------------------------------------------------------
(* runUsed.                                                                *)

Left == Top.next <= Len(uses[Top.cap])
Use == uses[Top.cap][Top.next]
Loaded == Use.id \in Capabilities

\* The catalog has no such capability, or the browser does not answer.
LoadFails ==
    /\ At("uses") /\ Left
    /\ Completes(engine, Top, "failed", "UNCAUGHT")
    /\ UNCHANGED <<uses, engine, options, effects, slipped, runs>>

\* Its success checkpoint already holds on the screen.
Skips ==
    /\ At("uses") /\ Left /\ Loaded
    /\ stack' = WithTop([Top EXCEPT !.next = @ + 1])
    /\ UNCHANGED <<uses, engine, options, result, ledger, effects, slipped, runs>>

\* A slip: every input the child has a parameter for comes from wherever there is one.
PassedWithDefaults(f, use) == [n \in use.pass |-> IF n \in DOMAIN f.inputs THEN f.inputs[n] ELSE Digits]

Passed(f, use) == [n \in use.pass \cap DOMAIN f.inputs |-> f.inputs[n]]

Uses ==
    /\ At("uses") /\ Left /\ Loaded
    /\ stack' = Append(WithTop([Top EXCEPT !.saved = engine.audit, !.savedLedger = engine.ledger]),
                       Call(Use.id, Passed(Top, Use), Top.seen))
    /\ UNCHANGED <<uses, engine, options, result, ledger, effects, slipped, runs>>

\* A slip: the audit of the child stays.
RestoredLedgerOnly(f) == [engine EXCEPT !.ledger = f.savedLedger]

Restored(f) == [engine EXCEPT !.audit = f.saved, !.ledger = f.savedLedger]
Answered == stack # <<>> /\ result # NoResult

\* The child has succeeded: outputs and hits are merged.
Resumes ==
    /\ Answered /\ result.status = "success"
    /\ engine' = Restored(Top)
    /\ stack' = WithTop([Top EXCEPT !.next = @ + 1, !.hits = Add(@, result.hits)])
    /\ result' = NoResult
    /\ UNCHANGED <<uses, options, ledger, effects, slipped, runs>>

\* It has not: run() returns the child's result as its own, without a row.
Halts ==
    /\ Answered /\ result.status \notin {"success", "thrown"}
    /\ engine' = Restored(Top)
    /\ stack' = Popped
    /\ UNCHANGED <<uses, options, result, ledger, effects, slipped, runs>>

\* It has thrown: nothing is restored, and run() fails with the fields of the child.
Catches ==
    /\ Answered /\ result.status = "thrown"
    /\ Completes(engine, Top, "failed", "UNCAUGHT")
    /\ UNCHANGED <<uses, engine, options, effects, slipped, runs>>

---------------------------------------------------------------------------
(* The steps, and the end.                                                 *)

\* From the entry checkpoint to the result; what fails may have acted already.  The other
\* results that are neither a success nor a missed checkpoint leave what SESSION_EXPIRED leaves.
Steps ==
    /\ At("uses") /\ ~Left
    /\ \E h \in Hits, acts \in BOOLEAN,
          end \in {<<"success", None>>, <<"failed", "CHECKPOINT_FAILED">>, <<"dry_run", None>>,
                   <<"needs_human", "SESSION_EXPIRED">>} :
         /\ acts => Top.cap \in Mutating /\ ~options.dryRun
         /\ end[1] = "success" => (acts <=> Top.cap \in Mutating)
         /\ end[1] = "dry_run" => options.dryRun /\ Top.cap \in Mutating /\ ~acts
         /\ Completes(engine, [Top EXCEPT !.hits = Add(@, h)], end[1], end[2])
         /\ effects' = IF acts THEN Append(effects, [run |-> runs, cap |-> Top.cap,
                                                     key |-> Key(Top.cap, Top.inputs),
                                                     ledger |-> options.ledger])
                       ELSE effects
         /\ slipped' = IF h.fallback > 0 \/ end[2] = "CHECKPOINT_FAILED"
                       THEN slipped \union {[run |-> runs, cap |-> Top.cap]} ELSE slipped
    /\ UNCHANGED <<uses, engine, options, runs>>

Answers ==
    /\ stack = <<>> /\ result # NoResult
    /\ result' = NoResult /\ engine' = Fresh /\ options' = NoOptions
    /\ UNCHANGED <<uses, stack, ledger, effects, slipped, runs>>

---------------------------------------------------------------------------
EngineStep ==
    \/ VaultThrows \/ RefusesInputs \/ GovernanceStops \/ SessionStops \/ Registers
    \/ LedgerThrows \/ Conflicts \/ NotApplicable \/ Cycles \/ Begins
    \/ LoadFails \/ Skips \/ Uses \/ Resumes \/ Halts \/ Catches
    \/ Steps \/ Answers

Next == Calls \/ EngineStep

Spec == Init /\ [][Next]_vars
LiveSpec == Spec /\ WF_vars(EngineStep)

---------------------------------------------------------------------------
(* Properties.                                                             *)

\* The audit of a run is its own (engine.ts 119-127, 1038-1053; compose.ts 40-58): each row
\* tells of the run() call that wrote it, whatever ran on the same engine before.  A child
\* that governance stops writes its row under the name of its parent, and a parent whose
\* child throws under the name of the child: only those two may be wrong, and never a
\* success, which the next run with the key depends on.
RowsAreOwn ==
    \A i \in DOMAIN ledger :
        \/ ledger[i].cap = ledger[i].by
        \/ ledger[i].code \in {"GOVERNANCE", "UNCAUGHT"}

\* Checkpoints are expanded with the inputs of the engine, which after a child are the
\* child's (engine.ts 72, 950): they may have fewer names than the run's own, but never
\* another value, so no step of a run is judged by another member's data.
NoForeignInputs ==
    At("uses") => /\ DOMAIN engine.inputs \subseteq DOMAIN Top.inputs
                  /\ \A n \in DOMAIN engine.inputs : engine.inputs[n] = Top.inputs[n]

\* With a ledger, a capability reached twice in one run, or used by one run and called by
\* the next, confirms once: what follows an effect with the same key in the same run, or
\* after a success, is stopped (engine.ts 682-709, compose.ts 62).
ConfirmsOnce ==
    \A i, j \in DOMAIN effects :
        i < j /\ effects[i].ledger /\ effects[j].ledger
              /\ effects[i].cap = effects[j].cap /\ effects[i].key = effects[j].key =>
            /\ effects[i].run # effects[j].run
            /\ \A k \in DOMAIN ledger :
                 ledger[k].status = "success" /\ ledger[k].run = effects[i].run =>
                    <<ledger[k].by, ledger[k].key>> # <<effects[i].cap, effects[i].key>>

\* A capability is sent to rediscovery only if, in a run that one of its last rows is about,
\* a locator fell back, a checkpoint was missed, or the session was refused: neither an
\* empty window nor another failure makes a drift.  And one that fell back for 15% of its
\* locators in each of its last rows is sent, older rows being no excuse (drift.ts 34-60, 86-94).
DriftHasACause ==
    \A c \in Capabilities :
        /\ NeedsRediscovery(c) =>
             \E s \in slipped : \E i \in DOMAIN Recent(c) : Recent(c)[i].run = s.run
        /\ /\ \A i \in DOMAIN Recent(c) :
                100 * Recent(c)[i].hits.fallback >= 15 * Recent(c)[i].hits.targeted
           /\ \E i \in DOMAIN Recent(c) : Recent(c)[i].hits.targeted > 0
           => NeedsRediscovery(c)

\* However capabilities use each other, no more calls are in progress than there are
\* capabilities, but for the one that finds itself among its callers and stops (engine.ts 155-170,
\* compose.ts 50-57).
CallsNestNoDeeper == Len(stack) <= Cardinality(Capabilities) + 1

\* Capabilities that use each other, or themselves, do not run for ever: each call from
\* outside is answered (engine.ts 155-168).
CallsAreAnswered == stack # <<>> ~> (stack = <<>> /\ result = NoResult)
=============================================================================
