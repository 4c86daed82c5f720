-------------------------------- MODULE Replay --------------------------------
(***************************************************************************)
(* Replay of a mutating capability: the step loop of src/replay/engine.ts  *)
(* with the exception classes of src/replay/classifier.ts and the          *)
(* reconciliation of src/replay/handoff.ts, the idempotency ledger of      *)
(* src/replay/ledger.ts, and the pages, form tokens and core tables of     *)
(* apps/bank-console that a Confirm reaches.  Runs are concurrent, each    *)
(* has a browser of its own; the ledger and the core are shared.           *)
(*                                                                         *)
(* A recorded capability is N steps.  Page k is the screen step k leads    *)
(* to, and the form of step k + 1.  An action is what happens between two  *)
(* awaits on the browser; a page changes only by its own run, or by the    *)
(* person the run is handed to.                                            *)
(***************************************************************************)
EXTENDS Naturals, FiniteSets

CONSTANTS
  Runs,       \* replay runs
  Keys,       \* idempotency keys
  KeyOf,      \* the key of each run: idempotencyKeyFor(capability, inputs)
  N,          \* number of recorded steps
  Navigates,  \* step 1 is a "navigate" (otherwise every step clicks)
  Confirms,   \* the risky steps: each posts a form to the core
  Checked,    \* steps recorded with a checkpoint
  Unique,     \* risky steps that the core refuses a second time
  CardForms,  \* of these, the card screens: the form posts to its own address,
              \* and the checkpoint of the step is an address
  MissStops,  \* steps whose locator miss is a business outcome
  Budget,     \* retryBudget of every step
  Approved,   \* runs with options.approveRisky
  Attended,   \* runs with a control plane
  MayBeDry,   \* runs that may be called with options.dryRun
  MaxFaults,  \* bound: faults of the bank, the network and the screens
  Many,       \* bound: effects are counted up to Many
  None

Steps == 1..N

ASSUME RunAssumption == KeyOf \in [Runs -> Keys]
ASSUME PlanAssumption ==
  /\ N \in Nat \ {0} /\ Navigates \in BOOLEAN
  /\ Confirms \subseteq Checked /\ Checked \subseteq Steps
  /\ Unique \subseteq Confirms /\ CardForms \subseteq Unique
  /\ MissStops \subseteq Steps
  /\ Navigates => 1 \notin Confirms
ASSUME OptionAssumption ==
  Approved \subseteq Runs /\ Attended \subseteq Runs /\ MayBeDry \subseteq Runs
ASSUME BoundAssumption ==
  Budget \in Nat /\ MaxFaults \in Nat /\ Many \in Nat \ {0, 1}

VARIABLES
  run,      \* the locals of run(), for each run
  page,     \* the page in each run's browser
  ledger,   \* the rows of runs/ledger.jsonl
  effects,  \* what the core has recorded, by key and risky step
  faults,   \* faults still to come
  hist      \* what has happened in each run; no action reads it

vars == <<run, page, ledger, effects, faults, hist>>

-------------------------------------------------------------------------------
(* Pages and results. *)

\* What an observation tells apart: the step's form, a dialog over it, the four
\* other exceptional states, the login screen (relogin: where only a POST leads),
\* a screen nothing recognises (400, 405) and an anti-checkpoint.
Exceptional == {"notice", "unavailable", "expired", "supervisor", "refused"}
Views == Exceptional \cup {"form", "login", "relogin", "other", "wrong"}
Faults == {"notice", "unavailable", "expired", "supervisor", "login", "wrong"}
Gates == {"unavailable", "expired", "login", "relogin"}
Pages == [at : 0..N, view : Views, token : BOOLEAN]

\* A dialog does not hide the text below it.
Readable == {"form", "notice"}

\* A page with a risky form carries a fresh single-use token.
Page(k, v) == [at |-> k, view |-> v, token |-> v \in Readable /\ k + 1 \in Confirms]

\* The screen of page k is there to be read, and worked with.
Shows(k, p) == p.at = k /\ p.view \in Readable

\* checkpointHolds for step n: a text on the page, or its address.
Holds(n, p) == IF n \in CardForms THEN p.at = n ELSE Shows(n, p)

\* The entry checkpoint looks for the path of page e, the page the run paused
\* on; the path of the next page may include it.
EntryHeld(e, p) == {p.at = e, p.at \in {e, e + 1}}

EntryPage == IF Navigates THEN 1 ELSE 0

Codes == {"success", "conflict", "gated", "precondition", "wrong_screen", "business",
          "needs_human", "escalated", "aborted", "dry_run", "blocked", "policy",
          "locator_miss", "transient_exhausted", "recoverable_exhausted", "ambiguous",
          "checkpoint", "output_invalid", "precondition_lost", "uncaught"}

ASSUME NoneAssumption == None \notin Codes \cup {"observe", "handback", "final"}

Status(code) ==
  CASE code \in {"success", "dry_run"} -> code
    [] code = "business" -> "business_outcome"
    [] code \in {"escalated", "aborted", "blocked"} -> "escalated"
    [] code \in {"needs_human", "recoverable_exhausted", "precondition_lost"} -> "needs_human"
    [] OTHER -> "failed"

Rows == [key : Keys, status : {Status(c) : c \in Codes}]

Idle == [pc |-> "idle", step |-> 1, recoveries |-> 0, transients |-> 0, pending |-> FALSE,
         dry |-> FALSE, reauthed |-> FALSE, approved |-> FALSE,
         back |-> None, entry |-> None, answer |-> None, result |-> None]

NoHistory == [before |-> {}, autos |-> [n \in Confirms |-> 0], byHand |-> {},
              asked |-> {}, moved |-> FALSE, unsure |-> FALSE]

Init ==
  /\ run = [r \in Runs |-> Idle]
  /\ page = [r \in Runs |-> Page(0, "form")]
  /\ ledger = {}
  /\ effects = [k \in Keys |-> [n \in Confirms |-> 0]]
  /\ faults = MaxFaults
  /\ hist = [r \in Runs |-> NoHistory]

-------------------------------------------------------------------------------
(* The ledger. *)

\* RunLedger.find: only a row with status "success" counts.
Find(r) == \E e \in ledger : e.key = KeyOf[r] /\ e.status = "success"

Unstarted == {r \in Runs : run[r].pc = "idle"}
Ended     == {r \in Runs : run[r].pc = "ended"}
Live      == {r \in Runs : run[r].pc \notin {"idle", "ended", "crashed"}}

\* complete(): the result, and the row that is appended with it.  The locals go.
End(r, code) ==
  /\ run' = [run EXCEPT ![r] = [Idle EXCEPT !.pc = "ended", !.dry = run[r].dry, !.result = code]]
  /\ ledger' = ledger \cup {[key |-> KeyOf[r], status |-> Status(code)]}

-------------------------------------------------------------------------------
(* The bank. *)

\* The screen that a GET of page k shows; a form whose effect is on record and
\* unique is replaced by the "already filed" or "already blocked" screen.
Shown(r, k) ==
  IF k + 1 \in Unique /\ effects[KeyOf[r]][k + 1] > 0 THEN "refused" ELSE "form"

Loads(r, k) ==
  {Page(k, Shown(r, k))} \cup IF faults > 0 THEN {Page(k, v) : v \in Faults} ELSE {}

\* A slip: FormTokenStore.consume leaves the token in the map.
TokenKept(p) == p

\* FormTokenStore.consume: the token of the form is gone once it was posted.
Consumed(p) == [p EXCEPT !.token = FALSE]

\* What the bank may make of the request of step n from page p: the page it
\* answers with, the page the browser keeps if that answer is late, and whether
\* the core recorded an effect.  The session gate and the 503 come before the
\* handler of a POST; the GET it redirects to may meet them again.
Replies(r, n, p) ==
  LET reply(to, keep, hit) == [to |-> to, keep |-> keep, hit |-> hit]
      asks   == IF n \in CardForms THEN "login" ELSE "relogin"
      gated  == IF faults > 0 THEN {Page(n - 1, v) : v \in {"unavailable", "expired", asks}} ELSE {}
      denied == reply(Page(n - 1, "other"), Consumed(p), FALSE)
  IN  IF n \notin Confirms
      THEN {reply(q, p, FALSE) : q \in Loads(r, n)}
      ELSE {reply(q, p, FALSE) : q \in gated} \cup {denied} \cup
           IF ~ p.token THEN {}
           ELSE IF n \in Unique /\ effects[KeyOf[r]][n] > 0
           THEN {reply(Page(n - 1, "refused"), Consumed(p), FALSE)}
           ELSE {reply(q, Consumed(p), TRUE) : q \in Loads(r, n)}

Up(x) == IF x < Many THEN x + 1 ELSE x

\* The core records the effect of step n, once per request.
Records(r, n, hit) ==
  effects' = IF hit THEN [effects EXCEPT ![KeyOf[r]][n] = Up(@)] ELSE effects

\* Automation posts the form.
AutoPosts(r, n, hit) ==
  /\ Records(r, n, hit)
  /\ hist' = IF hit THEN [hist EXCEPT ![r].autos[n] = Up(@)] ELSE hist

Spend(p) == faults' = IF p.view \in Faults \cup Gates THEN faults - 1 ELSE faults

-------------------------------------------------------------------------------
(* Starting a run. *)

\* A slip: an approved run is not asked for a prior success.
ApprovedIsEnough(r, dry) == dry \/ r \in Approved \/ ~ Find(r)

\* assertIdempotent; a dry run does not ask.
MayRun(r, dry) == dry \/ ~ Find(r)

\* Locals of step n, and of the code after the loop.
Locals(r, n, approved) ==
  [run[r] EXCEPT !.step = n, !.recoveries = 0, !.transients = 0, !.pending = FALSE,
                 !.approved = approved, !.pc = IF n > N THEN "final" ELSE "observe"]

\* A slip: the approval of a step is kept for the next one.
ApprovalKept(r, n) == Locals(r, n, run[r].approved \/ r \in Approved)

\* Each step starts from the approval in the options.
AtStep(r, n) == Locals(r, n, r \in Approved)

Remember(r) == hist' = [hist EXCEPT ![r].before = Ended]

\* Validation, kill switch, rate limit or approval say no before the ledger is
\* attached: nothing is written to it.
Gated(r) ==
  /\ r \in Unstarted
  /\ run' = [run EXCEPT ![r] = [Idle EXCEPT !.pc = "ended", !.result = "gated"]]
  /\ UNCHANGED <<page, ledger, effects, faults, hist>>

\* assertSession or the probe says no: a row, and nothing else.
Refused(r) ==
  /\ r \in Unstarted
  /\ End(r, "precondition")
  /\ UNCHANGED <<page, effects, faults, hist>>

Conflicts(r) ==
  /\ r \in Unstarted /\ ~ MayRun(r, FALSE)
  /\ End(r, "conflict") /\ Remember(r)
  /\ UNCHANGED <<page, effects, faults>>

\* The landing page holds the entry checkpoint, and a recorded navigation is
\* skipped; or it does not, and only a navigation can follow.
Begins(r, dry) ==
  /\ r \in Unstarted /\ (dry => r \in MayBeDry) /\ MayRun(r, dry)
  /\ Remember(r)
  /\ \E q \in Loads(r, EntryPage) \cup {Page(0, "other")} :
       /\ page' = [page EXCEPT ![r] = q]
       /\ Spend(q)
       /\ \/ /\ Shows(EntryPage, q)
             /\ run' = [run EXCEPT ![r] = [AtStep(r, EntryPage + 1) EXCEPT !.dry = dry]]
             /\ UNCHANGED ledger
          \/ /\ ~ Shows(EntryPage, q) /\ Navigates
             /\ run' = [run EXCEPT ![r] = [AtStep(r, 1) EXCEPT !.dry = dry]]
             /\ UNCHANGED ledger
          \/ ~ Shows(EntryPage, q) /\ ~ Navigates /\ End(r, "precondition")
  /\ UNCHANGED effects

-------------------------------------------------------------------------------
(* Exceptional states. *)

\* The classes of handleException that end the run or hand it to a person; the
\* answer comes back to "back".
Stops(r, p, back) ==
  \/ p.view = "refused" /\ End(r, "business")
  \/ p.view \in {"expired", "supervisor"} /\ r \notin Attended /\ End(r, "needs_human")
  \/ /\ p.view \in {"expired", "supervisor"} /\ r \in Attended
     /\ run' = [run EXCEPT ![r].back = back,
                           ![r].pc = IF p.view = "expired" THEN "restoring" ELSE "supervised"]
     /\ UNCHANGED ledger

\* The page after the recover action of a class that is retried: the dialog is
\* dismissed, or back at once, or the run has waited; "spent" faults are gone.
Recovers(r, p, spent) ==
  \/ /\ page' = [page EXCEPT ![r] = IF p.view = "notice" THEN [p EXCEPT !.view = "form"] ELSE p]
     /\ faults' = faults - spent
  \/ /\ p.view = "notice" /\ faults > spent
     /\ page' = [page EXCEPT ![r] = p]
     /\ faults' = faults - spent - 1

\* maybeSignIn: from the login screen to the page that was asked for, which
\* after a POST may not be a page one can ask for. Signing in may fail.
Seen(r) ==
  LET p == page[r] IN
  IF p.view \notin {"login", "relogin"} THEN {p}
  ELSE {IF p.view = "login" THEN Page(p.at, Shown(r, p.at)) ELSE Page(p.at, "other")}
       \cup IF faults > 0 THEN {p} ELSE {}

-------------------------------------------------------------------------------
(* The top of the step loop: observe, classify, then decide. *)

Observes(r, p) == run[r].pc = "observe" /\ p \in Seen(r)

\* A class that applies: the flag of a transient wait lets the step act once.
Classified(r, p) == p.view \in Exceptional /\ ~ run[r].pending

Calm(r, p) == p.view # "wrong" /\ ~ Classified(r, p)

TopStops(r, p) ==
  /\ Observes(r, p)
  /\ \/ p.view = "wrong" /\ End(r, "wrong_screen")
     \/ Classified(r, p) /\ Stops(r, p, "observe")
  /\ page' = [page EXCEPT ![r] = p]
  /\ UNCHANGED <<effects, faults, hist>>

\* recoverable: the same step is observed again, up to the budget.
TopDismisses(r, p) ==
  /\ Observes(r, p) /\ Classified(r, p) /\ p.view = "notice"
  /\ Recovers(r, p, 0)
  /\ IF run[r].recoveries + 1 > Budget
     THEN End(r, "recoverable_exhausted")
     ELSE run' = [run EXCEPT ![r].recoveries = @ + 1] /\ UNCHANGED ledger
  /\ UNCHANGED <<effects, hist>>

\* A slip: the cap is compared before the wait is counted.
OneWaitMore(r) ==
  IF run[r].transients > Budget
  THEN End(r, "transient_exhausted")
  ELSE /\ run' = [run EXCEPT ![r].transients = @ + 1, ![r].pending = TRUE, ![r].pc = "observe"]
       /\ UNCHANGED ledger

\* A slip: the waits of a step are not counted.
WaitsForEver(r) ==
  run' = [run EXCEPT ![r].pending = TRUE, ![r].pc = "observe"] /\ UNCHANGED ledger

\* transient: wait, then try the step again, up to the budget.
Waits(r) ==
  IF run[r].transients + 1 > Budget
  THEN End(r, "transient_exhausted")
  ELSE /\ run' = [run EXCEPT ![r].transients = @ + 1, ![r].pending = TRUE, ![r].pc = "observe"]
       /\ UNCHANGED ledger

TopWaits(r, p) ==
  /\ Observes(r, p) /\ Classified(r, p) /\ p.view = "unavailable"
  /\ Waits(r)
  /\ page' = [page EXCEPT ![r] = p]
  /\ UNCHANGED <<effects, faults, hist>>

\* After a restored session a step whose checkpoint holds is taken as done.
Skippable(r, p) ==
  LET n == run[r].step IN run[r].reauthed /\ n \in Checked /\ Holds(n, p)

TopSkips(r, p) ==
  /\ Observes(r, p) /\ Calm(r, p) /\ Skippable(r, p)
  /\ run' = [run EXCEPT ![r] = [AtStep(r, run[r].step + 1) EXCEPT !.reauthed = FALSE]]
  /\ page' = [page EXCEPT ![r] = p]
  /\ UNCHANGED <<ledger, effects, faults, hist>>

\* A slip: a dry run stops only when nobody has approved the step.
DryIsApproved(r) == run[r].step \in Confirms /\ run[r].dry /\ ~ run[r].approved

\* A dry run stops at the first risky step, whoever has approved it.
DryStops(r) == run[r].step \in Confirms /\ run[r].dry

NeedsApproval(r) == run[r].step \in Confirms /\ ~ run[r].approved

\* A dry run stops; an unapproved risky step goes to a person, or nowhere; any
\* other step acts.
TopDecides(r, p) ==
  /\ Observes(r, p) /\ Calm(r, p) /\ ~ Skippable(r, p)
  /\ \/ DryStops(r) /\ End(r, "dry_run")
     \/ ~ DryStops(r) /\ NeedsApproval(r) /\ r \notin Attended /\ End(r, "blocked")
     \/ /\ ~ DryStops(r) /\ NeedsApproval(r) /\ r \in Attended
        /\ run' = [run EXCEPT ![r].pc = "handoff", ![r].pending = FALSE, ![r].entry = p.at]
        /\ UNCHANGED ledger
     \/ /\ ~ DryStops(r) /\ ~ NeedsApproval(r)
        /\ run' = [run EXCEPT ![r].pc = "act", ![r].pending = FALSE]
        /\ UNCHANGED ledger
  /\ page' = [page EXCEPT ![r] = p]
  /\ UNCHANGED <<effects, faults, hist>>

-------------------------------------------------------------------------------
(* Acting, and what follows. *)

\* The locator of step n matches on page p; a navigation needs none.
Matches(n, p) == (Navigates /\ n = 1) \/ Shows(n - 1, p)

\* The policy says no, before the act or from the browser's route filter.
PolicyStops(r) ==
  /\ run[r].pc = "act"
  /\ End(r, "policy")
  /\ UNCHANGED <<page, effects, faults, hist>>

\* act() answers in time. A navigation that meets a 503 is retried.
Acts(r) ==
  LET n == run[r].step IN
  /\ run[r].pc = "act" /\ Matches(n, page[r])
  /\ \E reply \in Replies(r, n, page[r]) :
       /\ page' = [page EXCEPT ![r] = reply.to]
       /\ AutoPosts(r, n, reply.hit)
       /\ Spend(reply.to)
       /\ IF Navigates /\ n = 1 /\ reply.to.view = "unavailable"
          THEN Waits(r)
          ELSE run' = [run EXCEPT ![r].pc = "check"] /\ UNCHANGED ledger

\* act() times out: the request was not sent, or the answer is late, or the new
\* page is there and only the wait for it failed. The result is retryable.
TimesOut(r) ==
  LET n == run[r].step IN
  /\ run[r].pc = "act" /\ Matches(n, page[r])
  /\ faults > 0 /\ faults' = faults - 1
  /\ \/ UNCHANGED <<page, effects, hist>>
     \/ \E reply \in Replies(r, n, page[r]) :
          /\ page' = [page EXCEPT ![r] = reply.keep] \/ page' = [page EXCEPT ![r] = reply.to]
          /\ AutoPosts(r, n, reply.hit)
  /\ Waits(r)

\* No locator matches, for good or because the screen has drifted: the miss may
\* be an answer, an exceptional state explains it, or the run fails. A retry
\* from here is not counted.
Misses(r) ==
  LET n == run[r].step
      p == page[r]
  IN
  /\ run[r].pc = "act"
  /\ IF Matches(n, p) THEN faults > 0 /\ Recovers(r, p, 1) ELSE Recovers(r, p, 0)
  /\ \/ n \in MissStops /\ p.at = n - 1 /\ End(r, "business")
     \/ ~ (n \in MissStops /\ p.at = n - 1) /\ Stops(r, p, "observe")
     \/ /\ p.view \in {"notice", "unavailable"}
        /\ run' = [run EXCEPT ![r].pc = "observe"] /\ UNCHANGED ledger
     \/ p.view \notin Exceptional /\ End(r, "locator_miss")
  /\ UNCHANGED <<effects, hist>>

\* What a step has extracted does not parse as its output.
Misreads(r) ==
  /\ run[r].pc = "check" /\ run[r].step \notin Confirms
  /\ End(r, "output_invalid")
  /\ UNCHANGED <<page, effects, faults, hist>>

\* act() was ok: the next step, when there is no checkpoint or it holds.
Passes(r, p) ==
  LET n == run[r].step IN
  /\ run[r].pc = "check"
  /\ \/ n \notin Checked /\ p = page[r]
     \/ n \in Checked /\ p \in Seen(r) /\ p.view # "wrong" /\ Holds(n, p)
  /\ run' = [run EXCEPT ![r] = AtStep(r, n + 1)]
  /\ page' = [page EXCEPT ![r] = p]
  /\ UNCHANGED <<ledger, effects, faults, hist>>

\* The checkpoint does not hold: a lost screen, an exceptional state (a retry
\* is not counted here either), or a failure, ambiguous after a risky step.
Fails(r, p) ==
  LET n == run[r].step IN
  /\ run[r].pc = "check" /\ n \in Checked /\ p \in Seen(r)
  /\ p.view # "wrong" => ~ Holds(n, p)
  /\ \/ p.view = "wrong" /\ End(r, IF n \in Confirms THEN "ambiguous" ELSE "wrong_screen")
     \/ Stops(r, p, "observe")
     \/ /\ p.view \in {"notice", "unavailable"}
        /\ run' = [run EXCEPT ![r].pc = "observe"] /\ UNCHANGED ledger
     \/ /\ p.view \notin Exceptional \cup {"wrong"}
        /\ End(r, IF n \in Confirms THEN "ambiguous" ELSE "checkpoint")
  /\ Recovers(r, p, 0)
  /\ hist' = [hist EXCEPT ![r].unsure = @ \/ n \in Confirms]
  /\ UNCHANGED effects

\* A slip: a run that has come to its last step is a success.
TrustsTheSteps(r) ==
  /\ run[r].pc = "final"
  /\ End(r, "success")
  /\ UNCHANGED <<page, effects, faults, hist>>

\* After the last step: an exceptional state may still stop the run, else the
\* success checkpoint decides, and the outputs have to parse.
Finishes(r) ==
  LET p == page[r] IN
  /\ run[r].pc = "final"
  /\ \/ p.view = "wrong" /\ End(r, "wrong_screen")
     \/ Stops(r, p, "final")
     \/ /\ p.view \notin {"refused", "expired", "supervisor", "wrong"}
        /\ \/ ~ Shows(N, p) /\ End(r, "checkpoint")
           \/ Shows(N, p) /\ End(r, "success")
           \/ Shows(N, p) /\ End(r, "output_invalid")
  /\ Recovers(r, p, 0)
  /\ UNCHANGED <<effects, hist>>

-------------------------------------------------------------------------------
(* The person a run is handed to (ControlPlane answers within its TTL). *)

WithPerson == {"handoff", "restoring", "supervised"}
Answers    == {"abort", "not_done", "completed"}

\* The person confirms the form on the page.
PersonPosts(r) ==
  LET p == page[r]
      n == p.at + 1
  IN
  /\ run[r].pc \in WithPerson /\ n \in Confirms /\ Shows(n - 1, p)
  /\ \E reply \in Replies(r, n, p) :
       /\ page' = [page EXCEPT ![r] = reply.to]
       /\ Records(r, n, reply.hit)
       /\ Spend(reply.to)
       /\ hist' = IF reply.hit THEN [hist EXCEPT ![r].byHand = @ \cup {n}] ELSE hist
  /\ UNCHANGED <<run, ledger>>

\* The person signs in or goes to another page. The second card form is shown
\* once the first is on record; a receipt is shown to whoever asks for it.
PersonGoes(r, k) ==
  /\ run[r].pc \in WithPerson
  /\ {k, k + 1} \subseteq CardForms => effects[KeyOf[r]][k] > 0
  /\ page' = [page EXCEPT ![r] = Page(k, Shown(r, k))]
  /\ hist' = [hist EXCEPT ![r].moved = TRUE]
  /\ UNCHANGED <<run, ledger, effects, faults>>

\* The risky step is skipped when its checkpoint holds on page p or the person
\* has done it; without the page the run paused on it is not executed.
Reconciles(r, p, answer, held) ==
  LET n == run[r].step
      skip == (n \in Checked /\ Holds(n, p)) \/ answer = "completed"
  IN
  \/ skip /\ run' = [run EXCEPT ![r] = AtStep(r, n + 1)] /\ UNCHANGED ledger
  \/ ~ skip /\ ~ held /\ End(r, "precondition_lost")
  \/ /\ ~ skip /\ held
     /\ run' = [run EXCEPT ![r].pc = "act", ![r].approved = TRUE]
     /\ UNCHANGED ledger

\* A slip: an abort, or the TTL, falls through to the reconciliation.
AbortIgnored(r, answer) == FALSE

\* An abort, and the TTL, end the run.
Abandons(r, answer) == answer = "abort"

Ask(r, answer) ==
  hist' = IF answer = "not_done" THEN [hist EXCEPT ![r].asked = @ \cup {run[r].step}] ELSE hist

\* afterRiskyHandback. A state that needs a person escalates again, and the
\* page that was observed before that is the one that is reconciled.
HandsBack(r, answer) ==
  LET p == page[r] IN
  /\ run[r].pc = "handoff"
  /\ Ask(r, answer)
  /\ \/ Abandons(r, answer) /\ End(r, "aborted") /\ UNCHANGED <<page, faults>>
     \/ /\ ~ Abandons(r, answer) /\ p.view \in {"refused", "expired", "supervisor"}
        /\ IF p.view = "expired"
           THEN /\ run' = [run EXCEPT ![r].pc = "restoring", ![r].back = "handback",
                                      ![r].answer = answer, ![r].entry = p.at]
                /\ UNCHANGED ledger
           ELSE Stops(r, p, "handback")
        /\ UNCHANGED <<page, faults>>
     \/ /\ ~ Abandons(r, answer) /\ p.view \notin {"refused", "expired", "supervisor"}
        /\ \E held \in EntryHeld(run[r].entry, p) : Reconciles(r, p, answer, held)
        /\ Recovers(r, p, 0)
  /\ UNCHANGED effects

\* The session is restored. In the loop the step is observed again; a handback
\* goes on with the answer it had and the expired page it was handed, whose path
\* the nested request has made its entry checkpoint; after the last step the page
\* seen before decides. What the person says about the step is not read.
Restores(r, answer) ==
  /\ run[r].pc = "restoring"
  /\ \/ answer = "abort" /\ End(r, "aborted")
     \/ /\ answer # "abort" /\ run[r].back = "observe"
        /\ run' = [run EXCEPT ![r].pc = "observe", ![r].reauthed = TRUE]
        /\ UNCHANGED ledger
     \/ /\ answer # "abort" /\ run[r].back = "handback"
        /\ Reconciles(r, Page(run[r].entry, "expired"), run[r].answer, TRUE)
     \/ answer # "abort" /\ run[r].back = "final" /\ End(r, "checkpoint")
  /\ UNCHANGED <<page, effects, faults, hist>>

\* Any other state that needs a person ends the run, whatever the answer.
Supervises(r) ==
  /\ run[r].pc = "supervised"
  /\ End(r, "escalated")
  /\ UNCHANGED <<page, effects, faults, hist>>

-------------------------------------------------------------------------------
(* An await rejects, or the process dies. *)

Throws(r) ==
  /\ r \in Live
  /\ End(r, "uncaught")
  /\ UNCHANGED <<page, effects, faults, hist>>

\* No row is written; the rows and the core stay.
Crashes(r) ==
  /\ r \in Live
  /\ run' = [run EXCEPT ![r] = [Idle EXCEPT !.pc = "crashed", !.dry = run[r].dry]]
  /\ UNCHANGED <<page, ledger, effects, faults, hist>>

Done ==
  /\ Unstarted = {} /\ Live = {}
  /\ UNCHANGED vars

Starts(r) == Gated(r) \/ Refused(r) \/ Conflicts(r) \/ \E dry \in BOOLEAN : Begins(r, dry)

EngineStep(r) ==
  \/ \E p \in Seen(r) \cup {page[r]} :
       \/ TopStops(r, p) \/ TopDismisses(r, p) \/ TopWaits(r, p)
       \/ TopSkips(r, p) \/ TopDecides(r, p)
       \/ Passes(r, p) \/ Fails(r, p)
  \/ PolicyStops(r) \/ Acts(r) \/ TimesOut(r) \/ Misses(r) \/ Misreads(r)
  \/ Finishes(r)
  \/ \E answer \in Answers : HandsBack(r, answer) \/ Restores(r, answer)
  \/ Supervises(r)

PersonStep(r) == PersonPosts(r) \/ \E k \in 0..N : PersonGoes(r, k)

Next ==
  \/ \E r \in Runs : Starts(r) \/ EngineStep(r) \/ PersonStep(r) \/ Throws(r) \/ Crashes(r)
  \/ Done

\* Browser calls settle, waits end, and the TTL answers for a person who does not.
Fairness == \A r \in Runs : WF_vars(EngineStep(r))

Spec == Init /\ [][Next]_vars
FairSpec == Spec /\ Fairness
-------------------------------------------------------------------------------
(* Properties. *)

RunType ==
  [pc : {"idle", "observe", "act", "check", "final", "ended", "crashed"} \cup WithPerson,
   step : 1..(N + 1), recoveries : 0..Budget, transients : 0..Budget,
   pending : BOOLEAN, dry : BOOLEAN, reauthed : BOOLEAN, approved : BOOLEAN,
   back : {"observe", "handback", "final", None}, entry : 0..N \cup {None},
   answer : Answers \cup {None}, result : Codes \cup {None}]

HistType ==
  [before : SUBSET Runs, autos : [Confirms -> 0..Many], byHand : SUBSET Confirms,
   asked : SUBSET Confirms, moved : BOOLEAN, unsure : BOOLEAN]

\* The locals, pages, rows and effects are of their types.
TypeOK ==
  /\ run \in [Runs -> RunType]
  /\ page \in [Runs -> Pages]
  /\ ledger \subseteq Rows
  /\ effects \in [Keys -> [Confirms -> 0..Many]]
  /\ faults \in 0..MaxFaults
  /\ hist \in [Runs -> HistType]

\* A run that starts after a success with its key does nothing to the core,
\* approved or not (assertIdempotent over the rows of complete(); REPORT.md 207).
NoActionAfterSuccess ==
  \A r \in Runs : \A q \in hist[r].before :
    KeyOf[q] = KeyOf[r] /\ run[q].result = "success" =>
      \A n \in Confirms : hist[r].autos[n] = 0

\* A success is real: whoever did them, each Confirm of the key is recorded by
\* the core, unless the person has gone to other pages, of which a receipt needs
\* no record (the success checkpoint reads the page; the word of a person who
\* says that a step is done is not enough for it).
SuccessIsReal ==
  \A r \in Runs : run[r].result = "success" /\ ~ hist[r].moved =>
    \A n \in Confirms : effects[KeyOf[r]][n] > 0

\* One run and its person never make the core act twice for one step, unless
\* the person has left the page of the handoff: a retry after a timeout, and a
\* Confirm after the person's, find the form's token consumed.
OnceUnlessMoved ==
  \A r \in Runs : ~ hist[r].moved =>
    \A n \in Confirms : hist[r].autos[n] + (IF n \in hist[r].byHand THEN 1 ELSE 0) <= 1

\* Automation confirms only what was approved: never in a dry run, and without
\* options.approveRisky only a step that a person has handed back to be done.
ApprovedOnly ==
  \A r \in Runs, n \in Confirms : hist[r].autos[n] > 0 =>
    ~ run[r].dry /\ (r \in Approved \/ n \in hist[r].asked)

\* A run that has started ends, or asks a person: the retries of the loop do not
\* go on for ever once the bank and the network have no more faults for it.
EndsOrAsks ==
  \A r \in Runs : run[r].pc # "idle" ~> run[r].pc \in {"ended", "crashed"} \cup WithPerson

\* What DECISIONS.md 137-138 (D-010) says of the key of an ambiguous result: a
\* retry with that key is safe, it does not confirm again what was recorded.
RetryIsSafe ==
  \A r \in Runs : \A q \in hist[r].before :
    KeyOf[q] = KeyOf[r] /\ run[q].result = "ambiguous" =>
      \A n \in Confirms : hist[q].autos[n] > 0 => hist[r].autos[n] = 0

\* What REPORT.md 287-289 says of a risky click that was ok and a checkpoint that
\* did not hold: it returns "ambiguous". So an unattended run that has changed the
\* core and has met such a checkpoint does not end with another failure.
AdmitsNotKnowing ==
  \A r \in Runs \ Attended :
    run[r].pc = "ended" /\ hist[r].unsure /\ (\E n \in Confirms : hist[r].autos[n] > 0) =>
      run[r].result \in {"ambiguous", "success", "uncaught"}
===============================================================================
