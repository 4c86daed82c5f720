----------------------------- MODULE ReplayProofs -----------------------------
(***************************************************************************)
(* TLAPS proofs about Replay, for every plan, budget and number of runs:   *)
(* the types, ApprovedOnly and NoActionAfterSuccess.                       *)
(***************************************************************************)
EXTENDS Replay, TLAPS

USE RunAssumption, PlanAssumption, OptionAssumption, BoundAssumption, NoneAssumption

-------------------------------------------------------------------------------
(* The inductive invariant. *)

\* What holds of the locals v and the history h of run r, whatever other runs do.
\* A risky step is acted on by a run that is not dry and has the approval of the
\* options or of the person for that very step.
LocalOf(r, v, h) ==
  /\ v.pc \in {"observe", "act", "check", "handoff"} => v.step \in Steps
  /\ v.pc = "restoring" /\ v.back # "final" => v.step \in Steps
  /\ v.approved => r \in Approved \/ v.step \in h.asked
  /\ v.pc = "handoff" => v.step \in Confirms /\ ~ v.dry
  /\ v.pc = "restoring" /\ v.back = "handback" =>
       /\ v.step \in Confirms /\ ~ v.dry
       /\ v.answer = "completed" \/ (v.answer = "not_done" /\ v.step \in h.asked)
  /\ v.pc = "act" /\ v.step \in Confirms => ~ v.dry /\ v.approved
  /\ v.result # None => v.pc = "ended"
  /\ v.pc = "idle" => h.before = {} /\ \A n \in Confirms : h.autos[n] = 0
  /\ \A n \in Confirms : h.autos[n] > 0 => ~ v.dry /\ (r \in Approved \/ n \in h.asked)

\* A success has its row; the runs that were over before run r began stay over;
\* and when one of them was a success with the same key, run r is dry or over,
\* and has done nothing.
SharedOf(r) ==
  /\ run[r].result = "success" => Find(r)
  /\ \A q \in hist[r].before :
       /\ run[q].pc = "ended"
       /\ KeyOf[q] = KeyOf[r] /\ run[q].result = "success" =>
            /\ \A n \in Confirms : hist[r].autos[n] = 0
            /\ run[r].dry \/ run[r].pc \in {"ended", "crashed"}

Inv ==
  /\ TypeOK
  /\ \A r \in Runs : LocalOf(r, run[r], hist[r])
  /\ \A r \in Runs : SharedOf(r)

-------------------------------------------------------------------------------
(* What a step of run r may do. *)

Over == {"ended", "crashed"}

\* Only the locals and the history of r move, and they move as LocalOf and
\* SharedOf need.
Moves(r) ==
  /\ run' = [run EXCEPT ![r] = run'[r]] /\ run'[r] \in RunType
  /\ hist' = [hist EXCEPT ![r] = hist'[r]] /\ hist'[r] \in HistType
  /\ LocalOf(r, run'[r], hist'[r])
  /\ run'[r].result = "success" => [key |-> KeyOf[r], status |-> "success"] \in ledger'
  /\ run[r].pc \notin Over
  /\ run[r].pc # "idle" =>
       /\ hist'[r].before = hist[r].before /\ run'[r].dry = run[r].dry
       /\ hist'[r].autos = hist[r].autos \/ ~ run[r].dry
  /\ run[r].pc = "idle" =>
       /\ hist'[r].autos = hist[r].autos
       /\ \/ hist'[r].before = {}
          \/ hist'[r].before = Ended /\ (run'[r].dry \/ run'[r].pc = "ended" \/ ~ Find(r))

\* The shared data keeps its types, and no row is lost.
DataMoves ==
  /\ page' \in [Runs -> Pages]
  /\ ledger \subseteq ledger' /\ ledger' \subseteq Rows
  /\ effects' \in [Keys -> [Confirms -> 0..Many]]
  /\ faults' \in 0..MaxFaults

\* Steps of one run keep the invariant: the others' successes and ends stand.
LEMMA StepKeeps ==
  ASSUME Inv, NEW r \in Runs, Moves(r), DataMoves
  PROVE  Inv'
<1>1. TypeOK'
  BY DEF Inv, TypeOK, Moves, DataMoves
<1>2. \A q \in Runs : q # r => run'[q] = run[q] /\ hist'[q] = hist[q]
  BY DEF Inv, TypeOK, Moves
<1>3. ASSUME NEW q \in Runs PROVE LocalOf(q, run[q], hist[q])'
  <2>1. CASE q = r
    BY <2>1 DEF Moves, LocalOf
  <2>2. CASE q # r
    BY <1>2, <2>2 DEF Inv, LocalOf
  <2> QED BY <2>1, <2>2
<1>4. \A q \in Runs : Find(q) => Find(q)'
  BY DEF Find, DataMoves
<1>5. ASSUME NEW q \in Runs PROVE run'[q].result = "success" => Find(q)'
  <2>1. CASE q = r
    BY <2>1 DEF Moves, Find
  <2>2. CASE q # r
    BY <1>2, <1>4, <2>2 DEF Inv, SharedOf
  <2> QED BY <2>1, <2>2
<1>6. ASSUME NEW q \in Runs, run[q].pc = "ended"
      PROVE  q # r /\ run'[q] = run[q]
  BY <1>2, <1>6 DEF Moves, Over
<1>7. ASSUME NEW q \in Runs, q # r PROVE SharedOf(q)'
  BY <1>2, <1>5, <1>6, <1>7 DEF Inv, SharedOf, TypeOK, HistType
<1>8. SharedOf(r)'
  <2>1. CASE run[r].pc # "idle"
    BY <1>5, <1>6, <2>1 DEF Inv, SharedOf, LocalOf, TypeOK, HistType, Moves, Over
  <2>2. CASE run[r].pc = "idle"
    <3>1. CASE hist'[r].before = {}
      BY <1>5, <3>1 DEF SharedOf
    <3>2. CASE hist'[r].before = Ended /\ (run'[r].dry \/ run'[r].pc = "ended" \/ ~ Find(r))
      <4>1. ASSUME NEW q \in Ended PROVE q \in Runs /\ run[q].pc = "ended" /\ run'[q] = run[q]
        BY <1>6 DEF Ended
      <4>2. \A n \in Confirms : hist'[r].autos[n] = 0
        BY <2>2 DEF Inv, LocalOf, Moves
      <4>3. ASSUME NEW q \in Ended, KeyOf[q] = KeyOf[r], run[q].result = "success" PROVE Find(r)
        BY <4>1, <4>3 DEF Inv, SharedOf, Find
      <4> QED
        BY <1>5, <3>2, <4>1, <4>2, <4>3 DEF SharedOf, Over
    <3> QED BY <2>2, <3>1, <3>2 DEF Moves
  <2> QED BY <2>1, <2>2
<1> QED
  BY <1>1, <1>3, <1>7, <1>8 DEF Inv

-------------------------------------------------------------------------------
(* Pages, replies, results. *)

\* Every page that is built is a page.
LEMMA PageIsPage ==
  ASSUME NEW k \in 0..N, NEW v \in Views
  PROVE  Page(k, v) \in Pages
  BY DEF Page, Pages

\* A GET shows a page, and a fault only while there is one to come.
LEMMA LoadsArePages ==
  ASSUME NEW r \in Runs, NEW k \in 0..N, NEW q \in Loads(r, k)
  PROVE  q \in Pages /\ (q.view \in Faults \cup Gates => faults > 0)
<1>1. Shown(r, k) \in {"form", "refused"}
  BY DEF Shown
<1>2. Shown(r, k) \in Views /\ Faults \subseteq Views
  BY <1>1 DEF Views, Faults, Exceptional
<1>3. q = Page(k, Shown(r, k)) \/ (faults > 0 /\ \E v \in Faults : q = Page(k, v))
  BY DEF Loads
<1> QED
  BY <1>1, <1>2, <1>3, PageIsPage DEF Page, Faults, Gates

\* Whatever the bank answers is a page, and only a Confirm has an effect.
LEMMA RepliesAreTyped ==
  ASSUME NEW r \in Runs, NEW n \in Steps, NEW p \in Pages, NEW reply \in Replies(r, n, p)
  PROVE  /\ reply.to \in Pages /\ reply.keep \in Pages /\ reply.hit \in BOOLEAN
         /\ reply.hit => n \in Confirms
         /\ reply.to.view \in Faults \cup Gates => faults > 0
<1>1. n \in 0..N /\ n - 1 \in 0..N
  BY DEF Steps
<1>2. Consumed(p) \in Pages
  BY DEF Consumed, Pages
<1>3. {"unavailable", "expired", "login", "relogin", "other", "refused"} \subseteq Views
  BY DEF Views, Exceptional
<1>4. \A v \in {"unavailable", "expired", "login", "relogin", "other", "refused"} :
         Page(n - 1, v) \in Pages /\ Page(n - 1, v).view = v
  BY <1>1, <1>3, PageIsPage DEF Page
<1>5. \A q \in Loads(r, n) : q \in Pages /\ (q.view \in Faults \cup Gates => faults > 0)
  BY <1>1, LoadsArePages
<1>6. CASE n \notin Confirms
  <2>1. PICK q \in Loads(r, n) : reply = [to |-> q, keep |-> p, hit |-> FALSE]
    BY <1>6 DEF Replies
  <2> QED BY <1>5, <2>1
<1>7. CASE n \in Confirms
  <2>1. \/ \E v \in {"unavailable", "expired", "login", "relogin"} :
             faults > 0 /\ reply = [to |-> Page(n - 1, v), keep |-> p, hit |-> FALSE]
        \/ reply = [to |-> Page(n - 1, "other"), keep |-> Consumed(p), hit |-> FALSE]
        \/ reply = [to |-> Page(n - 1, "refused"), keep |-> Consumed(p), hit |-> FALSE]
        \/ \E q \in Loads(r, n) : reply = [to |-> q, keep |-> Consumed(p), hit |-> TRUE]
    BY <1>7 DEF Replies
  <2>2. CASE \E v \in {"unavailable", "expired", "login", "relogin"} :
               faults > 0 /\ reply = [to |-> Page(n - 1, v), keep |-> p, hit |-> FALSE]
    BY <1>4, <2>2
  <2>3. CASE \E v \in {"other", "refused"} :
               reply = [to |-> Page(n - 1, v), keep |-> Consumed(p), hit |-> FALSE]
    BY <1>2, <1>4, <2>3 DEF Faults, Gates
  <2>4. CASE \E q \in Loads(r, n) : reply = [to |-> q, keep |-> Consumed(p), hit |-> TRUE]
    BY <1>2, <1>5, <1>7, <2>4
  <2> QED BY <2>1, <2>2, <2>3, <2>4
<1> QED BY <1>6, <1>7

\* What is observed is a page, also after signing in.
LEMMA SeenArePages ==
  ASSUME Inv, NEW r \in Runs, NEW p \in Seen(r) \cup {page[r]}
  PROVE  p \in Pages
<1>1. page[r] \in Pages /\ page[r].at \in 0..N
  BY DEF Inv, TypeOK, Pages
<1>2. Shown(r, page[r].at) \in Views /\ "other" \in Views
  BY DEF Shown, Views, Exceptional
<1> QED
  BY <1>1, <1>2, PageIsPage DEF Seen

\* A class that is retried leaves a page, and no more faults than there were.
LEMMA RecoversTyped ==
  ASSUME Inv, NEW r \in Runs, NEW p \in Pages, NEW s \in 0..1, s <= faults, Recovers(r, p, s)
  PROVE  page' \in [Runs -> Pages] /\ faults' \in 0..MaxFaults
<1>1. [p EXCEPT !.view = "form"] \in Pages
  BY DEF Pages, Views
<1>2. page \in [Runs -> Pages] /\ faults \in 0..MaxFaults
  BY DEF Inv, TypeOK
<1>3. CASE /\ page' = [page EXCEPT ![r] = IF p.view = "notice" THEN [p EXCEPT !.view = "form"] ELSE p]
           /\ faults' = faults - s
  BY <1>1, <1>2, <1>3
<1>4. CASE faults > s /\ page' = [page EXCEPT ![r] = p] /\ faults' = faults - s - 1
  BY <1>2, <1>4
<1> QED BY <1>3, <1>4 DEF Recovers

\* Showing a fault spends it.
LEMMA SpendTyped ==
  ASSUME Inv, NEW p \in Pages, p.view \in Faults \cup Gates => faults > 0, Spend(p)
  PROVE  faults' \in 0..MaxFaults
  BY DEF Inv, TypeOK, Spend

\* The core counts its effects up to the bound.
LEMMA RecordsTyped ==
  ASSUME Inv, NEW r \in Runs, NEW n \in Steps, NEW hit \in BOOLEAN, hit => n \in Confirms,
         Records(r, n, hit)
  PROVE  effects' \in [Keys -> [Confirms -> 0..Many]]
<1>1. \A x \in 0..Many : Up(x) \in 0..Many
  BY DEF Up
<1>2. effects \in [Keys -> [Confirms -> 0..Many]] /\ KeyOf[r] \in Keys
  BY DEF Inv, TypeOK
<1>3. CASE ~ hit
  BY <1>2, <1>3 DEF Records
<1>4. CASE hit
  <2>1. [effects[KeyOf[r]] EXCEPT ![n] = Up(@)] \in [Confirms -> 0..Many]
    BY <1>1, <1>2, <1>4
  <2>2. effects' = [effects EXCEPT ![KeyOf[r]] = [effects[KeyOf[r]] EXCEPT ![n] = Up(@)]]
    BY <1>2, <1>4 DEF Records
  <2> QED BY <1>2, <2>1, <2>2
<1> QED BY <1>3, <1>4

\* Every result has a status, and only a success is one.
LEMMA StatusTyped ==
  ASSUME NEW r \in Runs, NEW code \in Codes
  PROVE  /\ [key |-> KeyOf[r], status |-> Status(code)] \in Rows
         /\ code = "success" => Status(code) = "success"
  BY DEF Rows, Status

-------------------------------------------------------------------------------
(* Steps that end a run, and steps that go on. *)

\* The history of r keeps what it has on record, and may learn more: an answer of
\* the person, or a Confirm of a run that may confirm.
HistoryGrows(r) ==
  /\ hist' = [hist EXCEPT ![r] = hist'[r]] /\ hist'[r] \in HistType
  /\ hist[r].asked \subseteq hist'[r].asked
  /\ hist'[r].autos # hist[r].autos =>
       /\ run[r].pc # "idle" /\ ~ run[r].dry
       /\ \A n \in Confirms : hist'[r].autos[n] > 0 =>
            hist[r].autos[n] > 0 \/ r \in Approved \/ n \in hist'[r].asked
  /\ run[r].pc # "idle" => hist'[r].before = hist[r].before

\* A step that leaves the history alone is such a step.
LEMMA SameHistory ==
  ASSUME Inv, NEW r \in Runs, UNCHANGED hist
  PROVE  HistoryGrows(r)
  BY DEF Inv, TypeOK, HistoryGrows

\* The locals of a run that has not begun are of their type.
LEMMA IdleTyped ==
  Idle \in RunType /\ ~ Idle.approved /\ ~ Idle.dry /\ Idle.pc = "idle" /\ Idle.result = None
  BY DEF Idle, RunType

\* The counts of a run that was within its rights stay within them.
LEMMA WithinRights ==
  ASSUME Inv, NEW r \in Runs, HistoryGrows(r), NEW n \in Confirms, hist'[r].autos[n] > 0
  PROVE  ~ run[r].dry /\ (r \in Approved \/ n \in hist'[r].asked)
  BY DEF Inv, LocalOf, HistoryGrows

\* complete() and fail() end the run with their row, whatever the code.
LEMMA EndMoves ==
  ASSUME Inv, NEW r \in Runs, NEW code \in Codes, End(r, code), run[r].pc \notin Over,
         HistoryGrows(r), run[r].pc = "idle" => hist'[r].before \in {{}, Ended}
  PROVE  Moves(r) /\ ledger \subseteq ledger' /\ ledger' \subseteq Rows
<1> DEFINE v == [Idle EXCEPT !.pc = "ended", !.dry = run[r].dry, !.result = code]
<1>1. run[r] \in RunType /\ run \in [Runs -> RunType] /\ hist[r] \in HistType
  BY DEF Inv, TypeOK
<1>2. run' = [run EXCEPT ![r] = v] /\ run'[r] = v
  BY <1>1 DEF End
<1>3. v \in RunType /\ v.pc = "ended" /\ v.dry = run[r].dry /\ v.result = code /\ ~ v.approved
  BY <1>1, IdleTyped, ZenonT(60) DEF RunType
<1> HIDE DEF v
<1>4. ledger' = ledger \cup {[key |-> KeyOf[r], status |-> Status(code)]} /\ ledger \subseteq Rows
  BY DEF End, Inv, TypeOK
<1>5. LocalOf(r, v, hist'[r])
  BY <1>3, WithinRights DEF LocalOf
<1>6. code = "success" => [key |-> KeyOf[r], status |-> "success"] \in ledger'
  BY <1>4, StatusTyped
<1>7. run[r].pc = "idle" => hist'[r].autos = hist[r].autos
  BY DEF HistoryGrows
<1>8. Moves(r)
  BY <1>1, <1>2, <1>3, <1>5, <1>6, <1>7 DEF Moves, HistoryGrows
<1> QED BY <1>4, <1>8, StatusTyped

\* A step that ends no run and writes no row.
LEMMA GoesOn ==
  ASSUME Inv, NEW r \in Runs, NEW v \in RunType, run' = [run EXCEPT ![r] = v],
         run[r].pc \notin Over \cup {"idle"}, v.dry = run[r].dry, v.result = None,
         LocalOf(r, v, hist'[r]), HistoryGrows(r), UNCHANGED ledger
  PROVE  Moves(r) /\ ledger \subseteq ledger' /\ ledger' \subseteq Rows
<1>1. run \in [Runs -> RunType] /\ ledger \subseteq Rows
  BY DEF Inv, TypeOK
<1>2. run'[r] = v
  BY <1>1
<1>3. None # "success"
  BY DEF Codes
<1>4. hist'[r].autos = hist[r].autos \/ ~ run[r].dry
  BY DEF HistoryGrows
<1> QED
  BY <1>1, <1>2, <1>3, <1>4 DEF Moves, HistoryGrows

\* What a step has to establish.
LEMMA StepOfRun ==
  ASSUME Inv, NEW r \in Runs, Moves(r), ledger \subseteq ledger', ledger' \subseteq Rows,
         page' \in [Runs -> Pages], faults' \in 0..MaxFaults,
         effects' \in [Keys -> [Confirms -> 0..Many]]
  PROVE  Inv'
  BY StepKeeps DEF DataMoves

\* The types that a step which leaves a variable alone keeps.
LEMMA Typed ==
  ASSUME Inv
  PROVE  /\ run \in [Runs -> RunType] /\ hist \in [Runs -> HistType]
         /\ page \in [Runs -> Pages] /\ faults \in 0..MaxFaults
         /\ effects \in [Keys -> [Confirms -> 0..Many]]
  BY DEF Inv, TypeOK

-------------------------------------------------------------------------------
(* The start of a run. *)

\* A run that a gate refuses leaves no trace.
LEMMA GatedKeeps ==
  ASSUME Inv, NEW r \in Runs, Gated(r)
  PROVE  Inv'
<1> DEFINE v == [Idle EXCEPT !.pc = "ended", !.result = "gated"]
<1>1. run[r].pc = "idle" /\ run' = [run EXCEPT ![r] = v] /\ run'[r] = v
  BY Typed DEF Gated, Unstarted
<1>2. /\ v \in RunType /\ v.pc = "ended" /\ v.result = "gated" /\ ~ v.approved
  BY IdleTyped DEF RunType, Codes
<1> HIDE DEF v
<1>3. LocalOf(r, v, hist[r]) /\ hist[r].before = {}
  BY <1>1, <1>2 DEF LocalOf, Inv
<1>4. Moves(r)
  BY <1>1, <1>2, <1>3, Typed DEF Gated, Moves, Over
<1> QED BY <1>4, StepOfRun, Typed DEF Gated, Inv, TypeOK

\* A session or a probe that says no.
LEMMA RefusedKeeps ==
  ASSUME Inv, NEW r \in Runs, Refused(r)
  PROVE  Inv'
<1>1. run[r].pc = "idle" /\ hist'[r].before = {} /\ "precondition" \in Codes
  BY DEF Refused, Unstarted, Inv, LocalOf, Codes
<1>2. HistoryGrows(r)
  BY SameHistory DEF Refused
<1> QED
  BY <1>1, <1>2, EndMoves, StepOfRun, Typed DEF Refused, Over

\* Starting remembers the runs that are over.
LEMMA Remembers ==
  ASSUME Inv, NEW r \in Runs, Remember(r), run[r].pc = "idle"
  PROVE  /\ HistoryGrows(r) /\ hist'[r].before = Ended
         /\ hist'[r].autos = hist[r].autos /\ hist'[r].asked = hist[r].asked
<1>1. Ended \subseteq Runs
  BY DEF Ended
<1>2. hist' = [hist EXCEPT ![r] = [hist[r] EXCEPT !.before = Ended]]
  BY Typed DEF Remember
<1>3. hist[r] \in HistType
  BY Typed
<1>4. [hist[r] EXCEPT !.before = Ended] \in HistType
  BY <1>1, <1>3 DEF HistType
<1> QED BY <1>2, <1>4, Typed DEF HistoryGrows, HistType

\* A conflict ends the run before its first step.
LEMMA ConflictsKeeps ==
  ASSUME Inv, NEW r \in Runs, Conflicts(r)
  PROVE  Inv'
<1>1. run[r].pc = "idle" /\ "conflict" \in Codes
  BY DEF Conflicts, Unstarted, Codes
<1> QED
  BY <1>1, Remembers, EndMoves, StepOfRun, Typed DEF Conflicts, Over

\* The locals that a step starts with.
LEMMA LocalsTyped ==
  ASSUME Inv, NEW r \in Runs, NEW n \in 1..(N + 1), NEW b \in BOOLEAN
  PROVE  /\ Locals(r, n, b) \in RunType
         /\ Locals(r, n, b).step = n /\ Locals(r, n, b).approved = b
         /\ Locals(r, n, b).dry = run[r].dry /\ Locals(r, n, b).result = run[r].result
         /\ Locals(r, n, b).pc \in {"observe", "final"}
         /\ Locals(r, n, b).pc = "observe" => n \in Steps
<1> DEFINE label == IF n > N THEN "final" ELSE "observe"
<1>1. run[r] \in RunType
  BY Typed
<1>2. label \in {"final", "observe"} /\ (label = "observe" => n \in Steps)
  BY DEF Steps
<1> HIDE DEF label
<1>3. Locals(r, n, b) = [run[r] EXCEPT !.step = n, !.recoveries = 0, !.transients = 0,
                                       !.pending = FALSE, !.approved = b, !.pc = label]
  BY DEF Locals, label
<1>4. label \in {"idle", "observe", "act", "check", "final", "ended", "crashed"} \cup WithPerson /\ 0 \in 0..Budget
  BY <1>2
<1>5. Locals(r, n, b) \in RunType
  BY <1>1, <1>3, <1>4, ZenonT(60) DEF RunType
<1>6. /\ Locals(r, n, b).step = n /\ Locals(r, n, b).approved = b /\ Locals(r, n, b).pc = label
      /\ Locals(r, n, b).dry = run[r].dry /\ Locals(r, n, b).result = run[r].result
  BY <1>1, <1>3 DEF RunType
<1> QED
  BY <1>2, <1>5, <1>6

\* Between steps only the approval of the options is kept.
LEMMA AtStepTyped ==
  ASSUME Inv, NEW r \in Runs, NEW n \in 1..(N + 1)
  PROVE  /\ AtStep(r, n) \in RunType
         /\ AtStep(r, n).step = n /\ (AtStep(r, n).approved => r \in Approved)
         /\ AtStep(r, n).dry = run[r].dry /\ AtStep(r, n).result = run[r].result
         /\ AtStep(r, n).pc \in {"observe", "final"}
         /\ AtStep(r, n).pc = "observe" => n \in Steps
<1> DEFINE b == r \in Approved
<1>1. b \in BOOLEAN /\ AtStep(r, n) = Locals(r, n, b)
  BY DEF AtStep
<1>2. b => r \in Approved
  OBVIOUS
<1> HIDE DEF b
<1> QED BY <1>1, <1>2, LocalsTyped

\* A run that begins has found no success with its key, or is dry.
LEMMA BeginsKeeps ==
  ASSUME Inv, NEW r \in Runs, NEW dry \in BOOLEAN, Begins(r, dry)
  PROVE  Inv'
<1>1. run[r].pc = "idle" /\ Remember(r) /\ MayRun(r, dry) /\ "precondition" \in Codes
  BY DEF Begins, Unstarted, Codes
<1>2. EntryPage \in 0..N /\ EntryPage + 1 \in 1..(N + 1)
  BY DEF EntryPage
<1>3. PICK q \in Loads(r, EntryPage) \cup {Page(0, "other")} :
        /\ page' = [page EXCEPT ![r] = q]
        /\ Spend(q)
        /\ \/ /\ UNCHANGED ledger
              /\ \E n \in {1, EntryPage + 1} : run' = [run EXCEPT ![r] = [AtStep(r, n) EXCEPT !.dry = dry]]
           \/ End(r, "precondition")
  BY DEF Begins
<1>4. q \in Pages /\ (q.view \in Faults \cup Gates => faults > 0)
  <2>1. "other" \in Views /\ 0 \in 0..N /\ Page(0, "other").view \notin Faults \cup Gates
    BY DEF Page, Views, Exceptional, Faults, Gates
  <2>2. CASE q \in Loads(r, EntryPage)
    BY <1>2, <2>2, LoadsArePages
  <2>3. CASE q = Page(0, "other")
    BY <2>1, <2>3, PageIsPage
  <2> QED BY <2>2, <2>3
<1>5. page' \in [Runs -> Pages] /\ faults' \in 0..MaxFaults
  BY <1>3, <1>4, SpendTyped, Typed
<1>6. CASE End(r, "precondition")
  BY <1>1, <1>5, <1>6, Remembers, EndMoves, StepOfRun, Typed DEF Begins, Over
<1>7. ASSUME NEW n \in {1, EntryPage + 1}, UNCHANGED ledger,
             run' = [run EXCEPT ![r] = [AtStep(r, n) EXCEPT !.dry = dry]]
      PROVE  Moves(r)
  <2> DEFINE v == [AtStep(r, n) EXCEPT !.dry = dry]
  <2>1. run'[r] = v /\ n \in 1..(N + 1)
    BY <1>2, <1>7, Typed
  <2>2. /\ v \in RunType /\ v.step = n /\ (v.approved => r \in Approved) /\ v.dry = dry
        /\ v.result = run[r].result /\ v.pc \in {"observe", "final"}
        /\ v.pc = "observe" => n \in Steps
    BY <2>1, AtStepTyped DEF RunType
  <2>3. run[r].result = None /\ None # "success"
    BY <1>1 DEF Inv, LocalOf, Codes
  <2> HIDE DEF v
  <2>4. \A m \in Confirms : hist'[r].autos[m] = 0
    BY <1>1, Remembers DEF LocalOf, Inv
  <2>5. LocalOf(r, v, hist'[r])
    BY <2>2, <2>3, <2>4 DEF LocalOf
  <2> QED
    BY <1>1, <1>7, <2>1, <2>2, <2>3, <2>5, Remembers DEF Moves, MayRun, Over, HistoryGrows
<1> QED
  BY <1>3, <1>5, <1>6, <1>7, StepOfRun, Typed DEF Begins, Inv, TypeOK

-------------------------------------------------------------------------------
(* The step loop. *)

Working == {"observe", "act", "check", "final"} \cup WithPerson

\* A run that is at work has no result yet.
LEMMA AtWork ==
  ASSUME Inv, NEW r \in Runs, run[r].pc \in Working
  PROVE  /\ run[r] \in RunType /\ run[r].result = None
         /\ run[r].pc \notin Over \cup {"idle"}
         /\ run[r].pc \in {"observe", "act", "check", "handoff"} => run[r].step \in Steps
<1>1. run[r].pc \notin {"ended", "crashed", "idle"}
  BY DEF Working, WithPerson
<1> QED BY <1>1, Typed DEF Inv, LocalOf, Over

\* A run that is at work goes on with the same step.
LEMMA StaysOnStep ==
  ASSUME Inv, NEW r \in Runs, NEW v \in RunType, run' = [run EXCEPT ![r] = v],
         run[r].pc \in Working, v.pc \in {"observe", "check"},
         v.step = run[r].step, run[r].step \in Steps, v.dry = run[r].dry,
         v.approved = run[r].approved, v.result = run[r].result,
         HistoryGrows(r), UNCHANGED ledger
  PROVE  Moves(r) /\ ledger \subseteq ledger' /\ ledger' \subseteq Rows
<1>1. run[r].pc \notin Over \cup {"idle"} /\ v.result = None
  BY AtWork
<1>2. v.approved => r \in Approved \/ v.step \in hist'[r].asked
  BY DEF Inv, LocalOf, HistoryGrows
<1>3. LocalOf(r, v, hist'[r])
  BY <1>1, <1>2, WithinRights DEF LocalOf
<1> QED BY <1>1, <1>3, GoesOn

\* A run that is at work goes on with the next step, or comes to its end.
LEMMA GoesToStep ==
  ASSUME Inv, NEW r \in Runs, NEW v \in RunType, run' = [run EXCEPT ![r] = v],
         run[r].pc \in Working, v.pc \in {"observe", "final"},
         v.pc = "observe" => v.step \in Steps, v.approved => r \in Approved,
         v.dry = run[r].dry, v.result = run[r].result,
         HistoryGrows(r), UNCHANGED ledger
  PROVE  Moves(r) /\ ledger \subseteq ledger' /\ ledger' \subseteq Rows
<1>1. run[r].pc \notin Over \cup {"idle"} /\ v.result = None
  BY AtWork
<1>2. LocalOf(r, v, hist'[r])
  BY <1>1, WithinRights DEF LocalOf
<1> QED BY <1>1, <1>2, GoesOn

\* A run that is at work ends.
LEMMA Ends ==
  ASSUME Inv, NEW r \in Runs, NEW code \in Codes, End(r, code), run[r].pc \in Working,
         HistoryGrows(r)
  PROVE  Moves(r) /\ ledger \subseteq ledger' /\ ledger' \subseteq Rows
  BY AtWork, EndMoves

\* The exceptional states that end the run or go to a person.
LEMMA StopsMoves ==
  ASSUME Inv, NEW r \in Runs, NEW p, NEW back \in {"observe", "handback", "final"},
         Stops(r, p, back), run[r].pc \in Working, HistoryGrows(r),
         back # "final" => run[r].step \in Steps, back = "handback" => p.view # "expired"
  PROVE  Moves(r) /\ ledger \subseteq ledger' /\ ledger' \subseteq Rows
<1>1. CASE End(r, "business") \/ End(r, "needs_human")
  BY <1>1, Ends DEF Codes
<1>2. CASE /\ run' = [run EXCEPT ![r].back = back,
                           ![r].pc = IF p.view = "expired" THEN "restoring" ELSE "supervised"]
           /\ UNCHANGED ledger
  <2> DEFINE l == IF p.view = "expired" THEN "restoring" ELSE "supervised"
             v == [run[r] EXCEPT !.back = back, !.pc = l]
  <2>1. l \in {"restoring", "supervised"} /\ (l = "restoring" => back # "handback")
    OBVIOUS
  <2>2. run' = [run EXCEPT ![r] = v]
    BY <1>2, Typed
  <2> HIDE DEF l
  <2>3. l \in WithPerson /\ run[r] \in RunType
    BY <2>1, AtWork DEF WithPerson
  <2>4. /\ v \in RunType /\ v.pc = l /\ v.back = back /\ v.step = run[r].step
        /\ v.dry = run[r].dry /\ v.approved = run[r].approved /\ v.result = run[r].result
    BY <2>3 DEF RunType
  <2> HIDE DEF v
  <2>5. v.approved => r \in Approved \/ v.step \in hist'[r].asked
    BY <2>4 DEF Inv, LocalOf, HistoryGrows
  <2>6. LocalOf(r, v, hist'[r])
    BY <2>1, <2>4, <2>5, AtWork, WithinRights DEF LocalOf
  <2> QED BY <1>2, <2>2, <2>4, <2>6, AtWork, GoesOn
<1> QED BY <1>1, <1>2 DEF Stops

\* A wait is counted, or ends the run.
LEMMA WaitsMoves ==
  ASSUME Inv, NEW r \in Runs, Waits(r), run[r].pc \in {"observe", "act"}, HistoryGrows(r)
  PROVE  Moves(r) /\ ledger \subseteq ledger' /\ ledger' \subseteq Rows
<1>1. run[r].pc \in Working
  BY DEF Working
<1>2. CASE run[r].transients + 1 > Budget
  BY <1>1, <1>2, Ends DEF Waits, Codes
<1>3. CASE ~ (run[r].transients + 1 > Budget)
  <2> DEFINE v == [run[r] EXCEPT !.transients = @ + 1, !.pending = TRUE, !.pc = "observe"]
  <2>1. run' = [run EXCEPT ![r] = v] /\ UNCHANGED ledger
    BY <1>3, Typed DEF Waits
  <2>2. run[r].transients + 1 \in 0..Budget
    BY <1>1, <1>3, AtWork DEF RunType
  <2>3. run[r] \in RunType
    BY <1>1, AtWork
  <2>4. /\ v \in RunType /\ v.pc = "observe" /\ v.step = run[r].step
        /\ v.dry = run[r].dry /\ v.approved = run[r].approved /\ v.result = run[r].result
    BY <2>2, <2>3 DEF RunType
  <2> HIDE DEF v
  <2> QED BY <1>1, <2>1, <2>4, AtWork, StaysOnStep
<1> QED BY <1>2, <1>3

\* What the top of the loop observes.
LEMMA Observed ==
  ASSUME Inv, NEW r \in Runs, NEW p, Observes(r, p)
  PROVE  /\ p \in Pages /\ [page EXCEPT ![r] = p] \in [Runs -> Pages]
         /\ run[r].pc = "observe" /\ run[r].pc \in Working /\ run[r].step \in Steps
<1>1. run[r].pc = "observe" /\ run[r].pc \in Working
  BY DEF Observes, Working
<1> QED BY <1>1, SeenArePages, AtWork, Typed DEF Observes

\* A forbidden screen, or a state that stops the run.
LEMMA TopStopsKeeps ==
  ASSUME Inv, NEW r \in Runs, NEW p, TopStops(r, p)
  PROVE  Inv'
<1>1. HistoryGrows(r) /\ Observes(r, p)
  BY SameHistory DEF TopStops
<1>2. Moves(r) /\ ledger \subseteq ledger' /\ ledger' \subseteq Rows
  BY <1>1, Observed, Ends, StopsMoves DEF TopStops, Codes
<1> QED BY <1>1, <1>2, Observed, StepOfRun, Typed DEF TopStops

\* A dismissed dialog.
LEMMA TopDismissesKeeps ==
  ASSUME Inv, NEW r \in Runs, NEW p, TopDismisses(r, p)
  PROVE  Inv'
<1>1. HistoryGrows(r) /\ Observes(r, p) /\ 0 \in 0..1 /\ 0 <= faults
  BY SameHistory, Typed DEF TopDismisses
<1>2. page' \in [Runs -> Pages] /\ faults' \in 0..MaxFaults
  BY <1>1, Observed, RecoversTyped DEF TopDismisses
<1>3. CASE run[r].recoveries + 1 > Budget
  <2>1. End(r, "recoverable_exhausted") /\ "recoverable_exhausted" \in Codes
    BY <1>3 DEF TopDismisses, Codes
  <2> QED BY <1>1, <1>2, <2>1, Observed, Ends, StepOfRun, Typed DEF TopDismisses
<1>4. CASE ~ (run[r].recoveries + 1 > Budget)
  <2> DEFINE v == [run[r] EXCEPT !.recoveries = @ + 1]
  <2>1. run' = [run EXCEPT ![r] = v] /\ UNCHANGED ledger
    BY <1>4, Typed DEF TopDismisses
  <2>2. run[r].recoveries + 1 \in 0..Budget
    BY <1>1, <1>4, Observed, AtWork DEF RunType
  <2>3. /\ v \in RunType /\ v.pc = run[r].pc /\ v.step = run[r].step
        /\ v.dry = run[r].dry /\ v.approved = run[r].approved /\ v.result = run[r].result
    BY <1>1, <2>2, Observed, AtWork DEF RunType
  <2> HIDE DEF v
  <2>4. Moves(r) /\ ledger \subseteq ledger' /\ ledger' \subseteq Rows
    BY <1>1, <2>1, <2>3, Observed, StaysOnStep
  <2> QED BY <1>2, <2>4, StepOfRun, Typed DEF TopDismisses
<1> QED BY <1>3, <1>4

\* A wait.
LEMMA TopWaitsKeeps ==
  ASSUME Inv, NEW r \in Runs, NEW p, TopWaits(r, p)
  PROVE  Inv'
<1>1. HistoryGrows(r) /\ Observes(r, p)
  BY SameHistory DEF TopWaits
<1>2. Moves(r) /\ ledger \subseteq ledger' /\ ledger' \subseteq Rows
  BY <1>1, Observed, WaitsMoves DEF TopWaits
<1> QED BY <1>1, <1>2, Observed, StepOfRun, Typed DEF TopWaits

\* A step whose checkpoint holds already.
LEMMA TopSkipsKeeps ==
  ASSUME Inv, NEW r \in Runs, NEW p, TopSkips(r, p)
  PROVE  Inv'
<1> DEFINE n == run[r].step + 1
           v == [AtStep(r, n) EXCEPT !.reauthed = FALSE]
<1>1. HistoryGrows(r) /\ Observes(r, p) /\ UNCHANGED ledger
  BY SameHistory DEF TopSkips
<1>2. n \in 1..(N + 1)
  BY <1>1, Observed DEF Steps
<1>3. run' = [run EXCEPT ![r] = v]
  BY DEF TopSkips
<1> HIDE DEF n
<1>4. /\ v \in RunType /\ v.step = n /\ (v.approved => r \in Approved)
      /\ v.dry = run[r].dry /\ v.result = run[r].result
      /\ v.pc \in {"observe", "final"} /\ (v.pc = "observe" => n \in Steps)
  <2> DEFINE u == AtStep(r, n)
  <2>1. /\ u \in RunType /\ u.step = n /\ (u.approved => r \in Approved)
        /\ u.dry = run[r].dry /\ u.result = run[r].result
        /\ u.pc \in {"observe", "final"} /\ (u.pc = "observe" => n \in Steps)
    BY <1>2, AtStepTyped
  <2> HIDE DEF u
  <2>2. v = [u EXCEPT !.reauthed = FALSE]
    BY DEF u
  <2> HIDE DEF v
  <2> QED BY <2>1, <2>2 DEF RunType
<1> HIDE DEF v
<1>5. Moves(r) /\ ledger \subseteq ledger' /\ ledger' \subseteq Rows
  BY <1>1, <1>3, <1>4, Observed, GoesToStep
<1> QED BY <1>1, <1>5, Observed, StepOfRun, Typed DEF TopSkips

\* The decision what to do with a step: nothing risky without approval.
LEMMA TopDecidesKeeps ==
  ASSUME Inv, NEW r \in Runs, NEW p, TopDecides(r, p)
  PROVE  Inv'
<1>1. HistoryGrows(r) /\ Observes(r, p)
  BY SameHistory DEF TopDecides
<1>2. run[r] \in RunType /\ p.at \in 0..N
  BY <1>1, Observed, Typed DEF Pages
<1>3. CASE End(r, "dry_run") \/ End(r, "blocked")
  BY <1>1, <1>3, Observed, Ends, StepOfRun, Typed DEF TopDecides, Codes
<1>4. CASE /\ ~ DryStops(r) /\ NeedsApproval(r) /\ UNCHANGED ledger
           /\ run' = [run EXCEPT ![r].pc = "handoff", ![r].pending = FALSE, ![r].entry = p.at]
  <2> DEFINE v == [run[r] EXCEPT !.pc = "handoff", !.pending = FALSE, !.entry = p.at]
  <2>1. run' = [run EXCEPT ![r] = v] /\ "handoff" \in WithPerson
    BY <1>4, Typed DEF WithPerson
  <2>2. /\ v \in RunType /\ v.pc = "handoff" /\ v.step = run[r].step
        /\ v.dry = run[r].dry /\ v.approved = run[r].approved /\ v.result = run[r].result
    BY <1>2, <2>1 DEF RunType
  <2> HIDE DEF v
  <2>3. v.step \in Confirms /\ ~ v.dry
    BY <1>4, <2>2 DEF DryStops, NeedsApproval
  <2>4. LocalOf(r, v, hist'[r])
    BY <1>1, <2>2, <2>3, Observed, AtWork, WithinRights DEF LocalOf, Inv, HistoryGrows
  <2>5. Moves(r) /\ ledger \subseteq ledger' /\ ledger' \subseteq Rows
    BY <1>1, <1>4, <2>1, <2>2, <2>4, Observed, AtWork, GoesOn
  <2> QED BY <1>1, <2>5, Observed, StepOfRun, Typed DEF TopDecides
<1>5. CASE /\ ~ DryStops(r) /\ ~ NeedsApproval(r) /\ UNCHANGED ledger
           /\ run' = [run EXCEPT ![r].pc = "act", ![r].pending = FALSE]
  <2> DEFINE v == [run[r] EXCEPT !.pc = "act", !.pending = FALSE]
  <2>1. run' = [run EXCEPT ![r] = v]
    BY <1>5, Typed
  <2>2. /\ v \in RunType /\ v.pc = "act" /\ v.step = run[r].step
        /\ v.dry = run[r].dry /\ v.approved = run[r].approved /\ v.result = run[r].result
    BY <1>2 DEF RunType
  <2> HIDE DEF v
  <2>3. v.step \in Confirms => ~ v.dry /\ v.approved
    BY <1>5, <2>2 DEF DryStops, NeedsApproval
  <2>4. LocalOf(r, v, hist'[r])
    BY <1>1, <2>2, <2>3, Observed, AtWork, WithinRights DEF LocalOf, Inv, HistoryGrows
  <2>5. Moves(r) /\ ledger \subseteq ledger' /\ ledger' \subseteq Rows
    BY <1>1, <1>5, <2>1, <2>2, <2>4, Observed, AtWork, GoesOn
  <2> QED BY <1>1, <2>5, Observed, StepOfRun, Typed DEF TopDecides
<1> QED BY <1>3, <1>4, <1>5 DEF TopDecides

-------------------------------------------------------------------------------
(* Acting, and what follows. *)

\* Automation that posts the form of its step is within its rights.
LEMMA AutoPostsGrows ==
  ASSUME Inv, NEW r \in Runs, run[r].pc = "act", NEW n \in Steps, n = run[r].step,
         NEW hit \in BOOLEAN, hit => n \in Confirms, AutoPosts(r, n, hit)
  PROVE  HistoryGrows(r) /\ effects' \in [Keys -> [Confirms -> 0..Many]]
<1>1. effects' \in [Keys -> [Confirms -> 0..Many]]
  BY RecordsTyped DEF AutoPosts
<1>2. CASE ~ hit
  BY <1>1, <1>2, SameHistory DEF AutoPosts
<1>3. CASE hit
  <2> DEFINE autos == [hist[r].autos EXCEPT ![n] = Up(@)]
             h == [hist[r] EXCEPT !.autos = autos]
  <2>1. hist[r] \in HistType /\ hist' = [hist EXCEPT ![r] = h]
    BY <1>3, Typed DEF AutoPosts
  <2>2. hist[r].autos \in [Confirms -> 0..Many]
    BY <2>1 DEF HistType
  <2>3. autos \in [Confirms -> 0..Many]
    BY <1>3, <2>2 DEF Up
  <2>4. \A m \in Confirms : m # n => autos[m] = hist[r].autos[m]
    BY <1>3, <2>2
  <2> HIDE DEF autos
  <2>5. /\ h \in HistType /\ h.autos = autos
        /\ h.asked = hist[r].asked /\ h.before = hist[r].before
    BY <2>1, <2>3 DEF HistType
  <2> HIDE DEF h
  <2>6. hist'[r] = h
    BY <2>1, Typed
  <2>7. ~ run[r].dry /\ (r \in Approved \/ n \in hist[r].asked)
    BY <1>3 DEF Inv, LocalOf
  <2> QED BY <1>1, <2>1, <2>4, <2>5, <2>6, <2>7 DEF HistoryGrows
<1> QED BY <1>2, <1>3

\* A run that acts is at work on a step.
LEMMA Acting ==
  ASSUME Inv, NEW r \in Runs, run[r].pc \in {"act", "check"}
  PROVE  /\ run[r].pc \in Working /\ run[r].step \in Steps
         /\ page[r] \in Pages /\ run[r] \in RunType
  BY AtWork, Typed DEF Working

\* The policy ends the run.
LEMMA PolicyStopsKeeps ==
  ASSUME Inv, NEW r \in Runs, PolicyStops(r)
  PROVE  Inv'
<1>1. HistoryGrows(r) /\ run[r].pc = "act" /\ "policy" \in Codes
  BY SameHistory DEF PolicyStops, Codes
<1> QED BY <1>1, Acting, Ends, StepOfRun, Typed DEF PolicyStops

\* The step has acted: its checkpoint is next, or a wait.
LEMMA ActsKeeps ==
  ASSUME Inv, NEW r \in Runs, Acts(r)
  PROVE  Inv'
<1> DEFINE n == run[r].step
<1>1. run[r].pc = "act" /\ n \in Steps /\ page[r] \in Pages /\ run[r] \in RunType
  BY Acting DEF Acts
<1>2. PICK reply \in Replies(r, n, page[r]) :
        /\ page' = [page EXCEPT ![r] = reply.to]
        /\ AutoPosts(r, n, reply.hit)
        /\ Spend(reply.to)
        /\ Waits(r) \/ (run' = [run EXCEPT ![r].pc = "check"] /\ UNCHANGED ledger)
  BY DEF Acts
<1>3. /\ reply.to \in Pages /\ reply.hit \in BOOLEAN /\ (reply.hit => n \in Confirms)
      /\ reply.to.view \in Faults \cup Gates => faults > 0
  BY <1>1, RepliesAreTyped
<1>4. HistoryGrows(r) /\ effects' \in [Keys -> [Confirms -> 0..Many]]
  BY <1>1, <1>2, <1>3, AutoPostsGrows
<1>5. page' \in [Runs -> Pages] /\ faults' \in 0..MaxFaults
  BY <1>2, <1>3, SpendTyped, Typed
<1>6. ASSUME run' = [run EXCEPT ![r].pc = "check"], UNCHANGED ledger
      PROVE  Moves(r) /\ ledger \subseteq ledger' /\ ledger' \subseteq Rows
  <2> DEFINE v == [run[r] EXCEPT !.pc = "check"]
  <2>1. run' = [run EXCEPT ![r] = v]
    BY <1>6, Typed
  <2>2. /\ v \in RunType /\ v.pc = "check" /\ v.step = run[r].step
        /\ v.dry = run[r].dry /\ v.approved = run[r].approved /\ v.result = run[r].result
    BY <1>1 DEF RunType
  <2> HIDE DEF v
  <2> QED BY <1>1, <1>4, <1>6, <2>1, <2>2, Acting, StaysOnStep
<1>7. Moves(r) /\ ledger \subseteq ledger' /\ ledger' \subseteq Rows
  BY <1>1, <1>2, <1>4, <1>6, WaitsMoves
<1> QED BY <1>4, <1>5, <1>7, StepOfRun

\* A timeout: whatever became of the request, the run waits.
LEMMA TimesOutKeeps ==
  ASSUME Inv, NEW r \in Runs, TimesOut(r)
  PROVE  Inv'
<1> DEFINE n == run[r].step
<1>1. run[r].pc = "act" /\ n \in Steps /\ page[r] \in Pages /\ Waits(r)
  BY Acting DEF TimesOut
<1>2. faults' \in 0..MaxFaults
  BY Typed DEF TimesOut
<1>3. /\ HistoryGrows(r) /\ effects' \in [Keys -> [Confirms -> 0..Many]]
      /\ page' \in [Runs -> Pages]
  <2>1. CASE UNCHANGED <<page, effects, hist>>
    BY <2>1, SameHistory, Typed
  <2>2. CASE \E reply \in Replies(r, n, page[r]) :
               /\ page' = [page EXCEPT ![r] = reply.keep] \/ page' = [page EXCEPT ![r] = reply.to]
               /\ AutoPosts(r, n, reply.hit)
    <3>1. PICK reply \in Replies(r, n, page[r]) :
               /\ page' = [page EXCEPT ![r] = reply.keep] \/ page' = [page EXCEPT ![r] = reply.to]
               /\ AutoPosts(r, n, reply.hit)
      BY <2>2
    <3>2. /\ reply.to \in Pages /\ reply.keep \in Pages
          /\ reply.hit \in BOOLEAN /\ (reply.hit => n \in Confirms)
      BY <1>1, RepliesAreTyped
    <3>3. HistoryGrows(r) /\ effects' \in [Keys -> [Confirms -> 0..Many]]
      BY <1>1, <3>1, <3>2, AutoPostsGrows
    <3>4. page' \in [Runs -> Pages]
      BY <3>1, <3>2, Typed
    <3> QED BY <3>3, <3>4
  <2> QED BY <2>1, <2>2 DEF TimesOut
<1> QED BY <1>1, <1>2, <1>3, WaitsMoves, StepOfRun

\* A retry that is not counted.
LEMMA ObservesAgain ==
  ASSUME Inv, NEW r \in Runs, run[r].pc \in {"act", "check"}, HistoryGrows(r),
         run' = [run EXCEPT ![r].pc = "observe"], UNCHANGED ledger
  PROVE  Moves(r) /\ ledger \subseteq ledger' /\ ledger' \subseteq Rows
<1> DEFINE v == [run[r] EXCEPT !.pc = "observe"]
<1>1. run' = [run EXCEPT ![r] = v] /\ run[r] \in RunType
  BY Typed
<1>2. /\ v \in RunType /\ v.pc = "observe" /\ v.step = run[r].step
      /\ v.dry = run[r].dry /\ v.approved = run[r].approved /\ v.result = run[r].result
  BY <1>1 DEF RunType
<1> HIDE DEF v
<1> QED BY <1>1, <1>2, Acting, StaysOnStep

\* A locator that matches nothing.
LEMMA MissesKeeps ==
  ASSUME Inv, NEW r \in Runs, Misses(r)
  PROVE  Inv'
<1>1. /\ HistoryGrows(r) /\ run[r].pc = "act" /\ UNCHANGED effects
      /\ "business" \in Codes /\ "locator_miss" \in Codes
  BY SameHistory DEF Misses, Codes
<1>2. \E s \in 0..1 : s <= faults /\ Recovers(r, page[r], s)
  BY Typed DEF Misses
<1>3. page' \in [Runs -> Pages] /\ faults' \in 0..MaxFaults
  BY <1>1, <1>2, Acting, RecoversTyped
<1>4. \/ End(r, "business") \/ Stops(r, page[r], "observe") \/ End(r, "locator_miss")
      \/ run' = [run EXCEPT ![r].pc = "observe"] /\ UNCHANGED ledger
  BY DEF Misses
<1>5. Moves(r) /\ ledger \subseteq ledger' /\ ledger' \subseteq Rows
  BY <1>1, <1>4, Acting, Ends, StopsMoves, ObservesAgain
<1> QED BY <1>1, <1>3, <1>5, StepOfRun, Typed

\* An output that does not parse.
LEMMA MisreadsKeeps ==
  ASSUME Inv, NEW r \in Runs, Misreads(r)
  PROVE  Inv'
<1>1. HistoryGrows(r) /\ run[r].pc = "check" /\ "output_invalid" \in Codes
  BY SameHistory DEF Misreads, Codes
<1> QED BY <1>1, Acting, Ends, StepOfRun, Typed DEF Misreads

\* On to the next step, with the approval of the options.
LEMMA NextStepMoves ==
  ASSUME Inv, NEW r \in Runs, run[r].pc \in Working, run[r].step \in Steps, HistoryGrows(r),
         run' = [run EXCEPT ![r] = AtStep(r, run[r].step + 1)], UNCHANGED ledger
  PROVE  Moves(r) /\ ledger \subseteq ledger' /\ ledger' \subseteq Rows
<1>1. run[r].step + 1 \in 1..(N + 1)
  BY DEF Steps
<1> QED BY <1>1, AtStepTyped, GoesToStep, ZenonT(60)

\* The checkpoint holds.
LEMMA PassesKeeps ==
  ASSUME Inv, NEW r \in Runs, NEW p, Passes(r, p)
  PROVE  Inv'
<1>1. HistoryGrows(r) /\ run[r].pc = "check"
  BY SameHistory DEF Passes
<1>2. p \in Seen(r) \cup {page[r]}
  BY DEF Passes
<1>3. page' \in [Runs -> Pages]
  BY <1>2, SeenArePages, Typed DEF Passes
<1>4. Moves(r) /\ ledger \subseteq ledger' /\ ledger' \subseteq Rows
  BY <1>1, Acting, NextStepMoves DEF Passes
<1> QED BY <1>3, <1>4, StepOfRun, Typed DEF Passes

\* A note in the history that is no answer and no Confirm.
LEMMA Notes ==
  ASSUME Inv, NEW r \in Runs, NEW h \in HistType, hist' = [hist EXCEPT ![r] = h],
         h.autos = hist[r].autos, h.asked = hist[r].asked, h.before = hist[r].before
  PROVE  HistoryGrows(r)
<1>1. hist'[r] = h
  BY Typed
<1> QED BY <1>1 DEF HistoryGrows

\* The checkpoint does not hold.
LEMMA FailsKeeps ==
  ASSUME Inv, NEW r \in Runs, NEW p, Fails(r, p)
  PROVE  Inv'
<1> DEFINE b == hist[r].unsure \/ run[r].step \in Confirms
           h == [hist[r] EXCEPT !.unsure = b]
<1>1. run[r].pc = "check" /\ UNCHANGED effects
  BY DEF Fails
<1>2. b \in BOOLEAN /\ hist[r] \in HistType /\ hist' = [hist EXCEPT ![r] = h]
  BY Typed DEF Fails
<1> HIDE DEF b
<1>3. /\ h \in HistType /\ h.autos = hist[r].autos
      /\ h.asked = hist[r].asked /\ h.before = hist[r].before
  BY <1>2 DEF HistType
<1> HIDE DEF h
<1>4. HistoryGrows(r)
  BY <1>2, <1>3, Notes
<1>5. p \in Pages /\ 0 \in 0..1 /\ 0 <= faults
  BY SeenArePages, Typed DEF Fails
<1>6. page' \in [Runs -> Pages] /\ faults' \in 0..MaxFaults
  BY <1>5, RecoversTyped DEF Fails
<1>7. {"ambiguous", "wrong_screen", "checkpoint"} \subseteq Codes
  BY DEF Codes
<1>8. \/ \E code \in {"ambiguous", "wrong_screen", "checkpoint"} : End(r, code)
      \/ Stops(r, p, "observe")
      \/ run' = [run EXCEPT ![r].pc = "observe"] /\ UNCHANGED ledger
  BY DEF Fails
<1>9. Moves(r) /\ ledger \subseteq ledger' /\ ledger' \subseteq Rows
  BY <1>1, <1>4, <1>7, <1>8, Acting, Ends, StopsMoves, ObservesAgain
<1> QED BY <1>1, <1>6, <1>9, StepOfRun, Typed

\* The end of the plan.
LEMMA FinishesKeeps ==
  ASSUME Inv, NEW r \in Runs, Finishes(r)
  PROVE  Inv'
<1>1. HistoryGrows(r) /\ run[r].pc \in Working /\ page[r] \in Pages
  BY SameHistory, Typed DEF Finishes, Working
<1>2. 0 \in 0..1 /\ 0 <= faults
  BY Typed
<1>3. page' \in [Runs -> Pages] /\ faults' \in 0..MaxFaults
  BY <1>1, <1>2, RecoversTyped DEF Finishes
<1>4. {"wrong_screen", "checkpoint", "success", "output_invalid"} \subseteq Codes
  BY DEF Codes
<1>5. \/ \E code \in {"wrong_screen", "checkpoint", "success", "output_invalid"} : End(r, code)
      \/ Stops(r, page[r], "final")
  BY DEF Finishes
<1>6. Moves(r) /\ ledger \subseteq ledger' /\ ledger' \subseteq Rows
  BY <1>1, <1>4, <1>5, Ends, StopsMoves
<1> QED BY <1>3, <1>6, StepOfRun, Typed DEF Finishes

-------------------------------------------------------------------------------
(* The person, and the way back. *)

\* The person's steps leave the run where it is.
LEMMA Stands ==
  ASSUME Inv, NEW r \in Runs, run[r].pc \in WithPerson, HistoryGrows(r), UNCHANGED <<run, ledger>>
  PROVE  Moves(r) /\ ledger \subseteq ledger' /\ ledger' \subseteq Rows
<1>1. run[r].pc \in Working /\ run' = [run EXCEPT ![r] = run[r]]
  BY Typed DEF Working
<1>2. LocalOf(r, run[r], hist[r])
  BY DEF Inv
<1>3. LocalOf(r, run[r], hist'[r])
  BY <1>1, <1>2, AtWork, WithinRights DEF LocalOf, HistoryGrows
<1> QED BY <1>1, <1>3, AtWork, GoesOn

\* The person posts a form.
LEMMA PersonPostsKeeps ==
  ASSUME Inv, NEW r \in Runs, PersonPosts(r)
  PROVE  Inv'
<1> DEFINE n == page[r].at + 1
<1>1. /\ run[r].pc \in WithPerson /\ n \in Confirms /\ n \in Steps /\ page[r] \in Pages
      /\ UNCHANGED <<run, ledger>>
  BY Typed DEF PersonPosts
<1>2. PICK reply \in Replies(r, n, page[r]) :
        /\ page' = [page EXCEPT ![r] = reply.to]
        /\ Records(r, n, reply.hit)
        /\ Spend(reply.to)
        /\ hist' = IF reply.hit THEN [hist EXCEPT ![r].byHand = @ \cup {n}] ELSE hist
  BY DEF PersonPosts
<1>3. /\ reply.to \in Pages /\ reply.hit \in BOOLEAN /\ (reply.hit => n \in Confirms)
      /\ reply.to.view \in Faults \cup Gates => faults > 0
  BY <1>1, RepliesAreTyped
<1>4. effects' \in [Keys -> [Confirms -> 0..Many]]
  BY <1>1, <1>2, <1>3, RecordsTyped
<1>5. page' \in [Runs -> Pages] /\ faults' \in 0..MaxFaults
  BY <1>2, <1>3, SpendTyped, Typed
<1>6. HistoryGrows(r)
  <2>1. CASE ~ reply.hit
    BY <1>2, <2>1, SameHistory
  <2>2. CASE reply.hit
    <3> DEFINE h == [hist[r] EXCEPT !.byHand = @ \cup {n}]
    <3>1. hist[r] \in HistType /\ hist' = [hist EXCEPT ![r] = h]
      BY <1>2, <2>2, Typed
    <3>2. /\ h \in HistType /\ h.autos = hist[r].autos
          /\ h.asked = hist[r].asked /\ h.before = hist[r].before
      BY <1>1, <3>1 DEF HistType
    <3> HIDE DEF h
    <3> QED BY <3>1, <3>2, Notes
  <2> QED BY <2>1, <2>2
<1> QED BY <1>1, <1>4, <1>5, <1>6, Stands, StepOfRun

\* The person goes to another page.
LEMMA PersonGoesKeeps ==
  ASSUME Inv, NEW r \in Runs, NEW k \in 0..N, PersonGoes(r, k)
  PROVE  Inv'
<1> DEFINE h == [hist[r] EXCEPT !.moved = TRUE]
<1>1. hist[r] \in HistType /\ hist' = [hist EXCEPT ![r] = h]
  BY Typed DEF PersonGoes
<1>2. /\ h \in HistType /\ h.autos = hist[r].autos
      /\ h.asked = hist[r].asked /\ h.before = hist[r].before
  BY <1>1 DEF HistType
<1> HIDE DEF h
<1>3. HistoryGrows(r)
  BY <1>1, <1>2, Notes
<1>4. Shown(r, k) \in Views
  BY DEF Shown, Views, Exceptional
<1>5. page' \in [Runs -> Pages]
  BY <1>4, PageIsPage, Typed DEF PersonGoes
<1> QED BY <1>3, <1>5, Stands, StepOfRun, Typed DEF PersonGoes

\* After a handback the step is skipped, lost or done; it is done only when the
\* person has said that it was not.
LEMMA ReconcilesMoves ==
  ASSUME Inv, NEW r \in Runs, NEW p, NEW answer, NEW held,
         Reconciles(r, p, answer, held), run[r].pc \in {"handoff", "restoring"},
         run[r].step \in Confirms, ~ run[r].dry, HistoryGrows(r),
         answer = "completed" \/ (answer = "not_done" /\ run[r].step \in hist'[r].asked)
  PROVE  Moves(r) /\ ledger \subseteq ledger' /\ ledger' \subseteq Rows
<1>1. run[r].pc \in Working /\ run[r].step \in Steps /\ run[r] \in RunType
  BY AtWork DEF Working, WithPerson
<1>2. CASE run' = [run EXCEPT ![r] = AtStep(r, run[r].step + 1)] /\ UNCHANGED ledger
  BY <1>1, <1>2, NextStepMoves
<1>3. CASE End(r, "precondition_lost")
  BY <1>1, <1>3, Ends DEF Codes
<1>4. CASE /\ answer # "completed" /\ UNCHANGED ledger
           /\ run' = [run EXCEPT ![r].pc = "act", ![r].approved = TRUE]
  <2> DEFINE v == [run[r] EXCEPT !.pc = "act", !.approved = TRUE]
  <2>1. run' = [run EXCEPT ![r] = v]
    BY <1>4, Typed
  <2>2. /\ v \in RunType /\ v.pc = "act" /\ v.step = run[r].step
        /\ v.dry = run[r].dry /\ v.approved /\ v.result = run[r].result
    BY <1>1 DEF RunType
  <2> HIDE DEF v
  <2>3. LocalOf(r, v, hist'[r])
    BY <1>1, <1>4, <2>2, AtWork, WithinRights DEF LocalOf
  <2> QED BY <1>1, <1>4, <2>1, <2>2, <2>3, AtWork, GoesOn
<1> QED BY <1>2, <1>3, <1>4 DEF Reconciles

\* The answer is noted.
LEMMA AskGrows ==
  ASSUME Inv, NEW r \in Runs, NEW answer, Ask(r, answer), run[r].step \in Confirms
  PROVE  HistoryGrows(r) /\ (answer = "not_done" => run[r].step \in hist'[r].asked)
<1>1. CASE answer # "not_done"
  BY <1>1, SameHistory DEF Ask
<1>2. CASE answer = "not_done"
  <2> DEFINE h == [hist[r] EXCEPT !.asked = @ \cup {run[r].step}]
  <2>1. hist[r] \in HistType /\ hist' = [hist EXCEPT ![r] = h]
    BY <1>2, Typed DEF Ask
  <2>2. /\ h \in HistType /\ h.autos = hist[r].autos
        /\ h.asked = hist[r].asked \cup {run[r].step} /\ h.before = hist[r].before
    BY <2>1 DEF HistType
  <2> HIDE DEF h
  <2>3. hist'[r] = h
    BY <2>1, Typed
  <2> QED BY <2>1, <2>2, <2>3 DEF HistoryGrows
<1> QED BY <1>1, <1>2

\* The step comes back from the person.
LEMMA HandsBackKeeps ==
  ASSUME Inv, NEW r \in Runs, NEW answer \in Answers, HandsBack(r, answer)
  PROVE  Inv'
<1>1. /\ run[r].pc = "handoff" /\ run[r].pc \in Working /\ run[r] \in RunType
      /\ run[r].step \in Confirms /\ ~ run[r].dry /\ page[r] \in Pages
  BY AtWork, Typed DEF HandsBack, Working, WithPerson, Inv, LocalOf
<1>2. HistoryGrows(r) /\ (answer = "not_done" => run[r].step \in hist'[r].asked)
  BY <1>1, AskGrows DEF HandsBack
<1>3. answer # "abort" =>
        answer = "completed" \/ (answer = "not_done" /\ run[r].step \in hist'[r].asked)
  BY <1>2 DEF Answers
<1>4. CASE Abandons(r, answer) /\ End(r, "aborted") /\ UNCHANGED <<page, faults>>
  BY <1>1, <1>2, <1>4, Ends, StepOfRun, Typed DEF HandsBack, Codes
<1>5. CASE /\ answer # "abort" /\ UNCHANGED <<page, faults, ledger>>
           /\ run' = [run EXCEPT ![r].pc = "restoring", ![r].back = "handback",
                                 ![r].answer = answer, ![r].entry = page[r].at]
  <2> DEFINE v == [run[r] EXCEPT !.pc = "restoring", !.back = "handback", !.answer = answer,
                                 !.entry = page[r].at]
  <2>1. run' = [run EXCEPT ![r] = v] /\ "restoring" \in WithPerson
    BY <1>5, Typed DEF WithPerson
  <2>2. /\ v \in RunType /\ v.pc = "restoring" /\ v.back = "handback" /\ v.answer = answer
        /\ v.step = run[r].step /\ v.dry = run[r].dry /\ v.approved = run[r].approved
        /\ v.result = run[r].result
    <3>1. page[r].at \in 0..N
      BY <1>1 DEF Pages
    <3>2. PICK e \in 0..N : e = page[r].at
      BY <3>1
    <3> QED BY <1>1, <3>2 DEF RunType, WithPerson
  <2> HIDE DEF v
  <2>3. v.approved => r \in Approved \/ v.step \in hist'[r].asked
    BY <1>2, <2>2 DEF Inv, LocalOf, HistoryGrows
  <2>4. LocalOf(r, v, hist'[r])
    BY <1>1, <1>2, <1>3, <1>5, <2>2, <2>3, AtWork, WithinRights DEF LocalOf
  <2>5. Moves(r) /\ ledger \subseteq ledger' /\ ledger' \subseteq Rows
    BY <1>1, <1>2, <1>5, <2>1, <2>2, <2>4, AtWork, GoesOn
  <2> QED BY <1>5, <2>5, StepOfRun, Typed DEF HandsBack
<1>6. CASE page[r].view # "expired" /\ Stops(r, page[r], "handback") /\ UNCHANGED <<page, faults>>
  <2>1. Moves(r) /\ ledger \subseteq ledger' /\ ledger' \subseteq Rows
    BY <1>1, <1>2, <1>6, AtWork, StopsMoves
  <2> QED BY <1>6, <2>1, StepOfRun, Typed DEF HandsBack
<1>7. CASE /\ answer # "abort" /\ Recovers(r, page[r], 0)
           /\ \E held \in EntryHeld(run[r].entry, page[r]) : Reconciles(r, page[r], answer, held)
  <2>1. PICK held : Reconciles(r, page[r], answer, held)
    BY <1>7
  <2>2. Moves(r) /\ ledger \subseteq ledger' /\ ledger' \subseteq Rows
    BY <1>1, <1>2, <1>3, <1>7, <2>1, ReconcilesMoves
  <2>3. 0 \in 0..1 /\ 0 <= faults
    BY Typed
  <2>4. page' \in [Runs -> Pages] /\ faults' \in 0..MaxFaults
    BY <1>1, <1>7, <2>3, RecoversTyped
  <2> QED BY <2>2, <2>4, StepOfRun, Typed DEF HandsBack
<1> QED
  BY <1>4, <1>5, <1>6, <1>7 DEF HandsBack, Abandons

\* The session is restored: an earlier answer still stands.
LEMMA RestoresKeeps ==
  ASSUME Inv, NEW r \in Runs, NEW answer \in Answers, Restores(r, answer)
  PROVE  Inv'
<1>1. /\ run[r].pc = "restoring" /\ run[r].pc \in Working /\ run[r] \in RunType
      /\ HistoryGrows(r) /\ {"aborted", "checkpoint"} \subseteq Codes
  BY AtWork, SameHistory DEF Restores, Working, WithPerson, Codes
<1>2. CASE End(r, "aborted") \/ End(r, "checkpoint")
  BY <1>1, <1>2, Ends, StepOfRun, Typed DEF Restores
<1>3. CASE /\ run[r].back = "observe" /\ UNCHANGED ledger
           /\ run' = [run EXCEPT ![r].pc = "observe", ![r].reauthed = TRUE]
  <2> DEFINE v == [run[r] EXCEPT !.pc = "observe", !.reauthed = TRUE]
  <2>1. run' = [run EXCEPT ![r] = v]
    BY <1>3, Typed
  <2>2. /\ v \in RunType /\ v.pc = "observe" /\ v.step = run[r].step
        /\ v.dry = run[r].dry /\ v.approved = run[r].approved /\ v.result = run[r].result
    BY <1>1 DEF RunType
  <2> HIDE DEF v
  <2>3. run[r].step \in Steps
    BY <1>1, <1>3 DEF Inv, LocalOf
  <2>4. Moves(r) /\ ledger \subseteq ledger' /\ ledger' \subseteq Rows
    BY <1>1, <1>3, <2>1, <2>2, <2>3, StaysOnStep
  <2> QED BY <2>4, StepOfRun, Typed DEF Restores
<1>4. CASE /\ run[r].back = "handback"
           /\ Reconciles(r, Page(run[r].entry, "expired"), run[r].answer, TRUE)
  <2>1. /\ run[r].step \in Confirms /\ ~ run[r].dry
        /\ \/ run[r].answer = "completed"
           \/ run[r].answer = "not_done" /\ run[r].step \in hist'[r].asked
    BY <1>1, <1>4 DEF Inv, LocalOf, HistoryGrows
  <2>2. Moves(r) /\ ledger \subseteq ledger' /\ ledger' \subseteq Rows
    BY <1>1, <1>4, <2>1, ReconcilesMoves
  <2> QED BY <2>2, StepOfRun, Typed DEF Restores
<1> QED BY <1>2, <1>3, <1>4 DEF Restores

\* Another state that needs a person ends the run.
LEMMA SupervisesKeeps ==
  ASSUME Inv, NEW r \in Runs, Supervises(r)
  PROVE  Inv'
<1>1. run[r].pc \in Working /\ HistoryGrows(r) /\ "escalated" \in Codes
  BY SameHistory DEF Supervises, Working, WithPerson, Codes
<1> QED BY <1>1, Ends, StepOfRun, Typed DEF Supervises

-------------------------------------------------------------------------------
(* Exceptions and crashes; the theorems. *)

\* A live run is at work.
LEMMA LiveWorks ==
  ASSUME Inv, NEW r \in Live
  PROVE  r \in Runs /\ run[r].pc \in Working
  BY Typed DEF Live, Working, RunType

\* An await that rejects ends the run.
LEMMA ThrowsKeeps ==
  ASSUME Inv, NEW r \in Runs, Throws(r)
  PROVE  Inv'
<1>1. run[r].pc \in Working /\ HistoryGrows(r) /\ "uncaught" \in Codes
  BY LiveWorks, SameHistory DEF Throws, Codes
<1> QED BY <1>1, Ends, StepOfRun, Typed DEF Throws

\* A crash leaves no row.
LEMMA CrashesKeeps ==
  ASSUME Inv, NEW r \in Runs, Crashes(r)
  PROVE  Inv'
<1> DEFINE v == [Idle EXCEPT !.pc = "crashed", !.dry = run[r].dry]
<1>1. run[r].pc \in Working /\ HistoryGrows(r) /\ run' = [run EXCEPT ![r] = v]
  BY LiveWorks, SameHistory DEF Crashes
<1>2. run[r] \in RunType
  BY Typed
<1>3. /\ v \in RunType /\ v.pc = "crashed" /\ v.dry = run[r].dry
      /\ ~ v.approved /\ v.result = None
  BY <1>2, IdleTyped DEF RunType
<1> HIDE DEF v
<1>4. LocalOf(r, v, hist'[r])
  BY <1>1, <1>3, WithinRights DEF LocalOf
<1>5. Moves(r) /\ ledger \subseteq ledger' /\ ledger' \subseteq Rows
  BY <1>1, <1>3, <1>4, AtWork, GoesOn DEF Crashes
<1> QED BY <1>5, StepOfRun, Typed DEF Crashes

\* The first state has the invariant.
LEMMA InitInv == Init => Inv
<1> SUFFICES ASSUME Init PROVE Inv
  OBVIOUS
<1>1. NoHistory \in HistType
  BY DEF NoHistory, HistType
<1>2. "form" \in Views /\ 0 \in 0..N
  BY DEF Views
<1>3. [n \in Confirms |-> 0] \in [Confirms -> 0..Many]
  OBVIOUS
<1>4. TypeOK
  BY <1>1, <1>2, <1>3, IdleTyped, PageIsPage DEF Init, TypeOK
<1>5. ASSUME NEW r \in Runs PROVE LocalOf(r, run[r], hist[r])
  BY IdleTyped DEF Init, LocalOf, NoHistory
<1>6. ASSUME NEW r \in Runs PROVE SharedOf(r)
  BY IdleTyped DEF Init, SharedOf, NoHistory, Codes
<1> QED BY <1>4, <1>5, <1>6 DEF Inv

\* Every step keeps the invariant.
LEMMA NextInv == Inv /\ [Next]_vars => Inv'
<1> SUFFICES ASSUME Inv, [Next]_vars PROVE Inv'
  OBVIOUS
<1>1. CASE UNCHANGED vars
  BY <1>1 DEF vars, Inv, TypeOK, LocalOf, SharedOf, Find
<1>2. ASSUME NEW r \in Runs, Starts(r) PROVE Inv'
  BY <1>2, GatedKeeps, RefusedKeeps, ConflictsKeeps, BeginsKeeps DEF Starts
<1>3. ASSUME NEW r \in Runs, EngineStep(r) PROVE Inv'
  <2>1. ASSUME NEW p, TopStops(r, p) \/ TopDismisses(r, p) \/ TopWaits(r, p)
               \/ TopSkips(r, p) \/ TopDecides(r, p) \/ Passes(r, p) \/ Fails(r, p)
        PROVE  Inv'
    BY <2>1, TopStopsKeeps, TopDismissesKeeps, TopWaitsKeeps, TopSkipsKeeps, TopDecidesKeeps,
       PassesKeeps, FailsKeeps
  <2>2. CASE PolicyStops(r) \/ Acts(r) \/ TimesOut(r) \/ Misses(r) \/ Misreads(r)
             \/ Finishes(r) \/ Supervises(r)
    BY <2>2, PolicyStopsKeeps, ActsKeeps, TimesOutKeeps, MissesKeeps, MisreadsKeeps,
       FinishesKeeps, SupervisesKeeps
  <2>3. ASSUME NEW answer \in Answers, HandsBack(r, answer) \/ Restores(r, answer) PROVE Inv'
    BY <2>3, HandsBackKeeps, RestoresKeeps
  <2> QED BY <1>3, <2>1, <2>2, <2>3 DEF EngineStep
<1>4. ASSUME NEW r \in Runs, PersonStep(r) PROVE Inv'
  BY <1>4, PersonPostsKeeps, PersonGoesKeeps DEF PersonStep
<1>5. ASSUME NEW r \in Runs, Throws(r) \/ Crashes(r) PROVE Inv'
  BY <1>5, ThrowsKeeps, CrashesKeeps
<1> QED BY <1>1, <1>2, <1>3, <1>4, <1>5 DEF Next, Done

\* The invariant holds in every state of the replay engine.
THEOREM Invariant == Spec => []Inv
  BY InitInv, NextInv, PTL DEF Spec

\* The locals of run(), the pages, the rows of the ledger and the core's records
\* have their types.
THEOREM TypesHold == Spec => []TypeOK
<1>1. Inv => TypeOK
  BY DEF Inv
<1> QED BY <1>1, Invariant, PTL

\* Automation confirms only what was approved: never in a dry run, and without
\* options.approveRisky only a step that a person has handed back to be done.
THEOREM Approval == Spec => []ApprovedOnly
<1>1. Inv => ApprovedOnly
  BY DEF Inv, LocalOf, ApprovedOnly
<1> QED BY <1>1, Invariant, PTL

\* A run that starts after a success with its key does nothing to the core, in
\* whatever process it runs, approved or not (assertIdempotent, complete()).
THEOREM NoSecondAction == Spec => []NoActionAfterSuccess
<1>1. Inv => NoActionAfterSuccess
  BY DEF Inv, SharedOf, NoActionAfterSuccess
<1> QED BY <1>1, Invariant, PTL

===============================================================================
