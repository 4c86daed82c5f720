-------------------------- MODULE ControlPlaneProofs --------------------------
(***************************************************************************)
(* TLAPS proofs about ControlPlane, for every number of sessions, runs,    *)
(* operators and requests: the types, the session lock (HeldByItsCall,     *)
(* HumanDrivesWhilePaused), the console slots (OpenSlotIsAwaited), the     *)
(* refinement of Intervention; then what a run does with the answer it was *)
(* given, and who holds a request at the console.                          *)
(***************************************************************************)
EXTENDS ControlPlane, TLAPS

USE SurfaceAssumption, PlaneSubsets, NoneAssumption

-------------------------------------------------------------------------------
(* What a handler may do to the records. *)

\* The records keep their types and no record goes back to "none".
RecordsMove ==
  /\ state' \in [Ids -> Life!States \cup {"none"}]
  /\ stamps' \in [Ids -> SUBSET Life!States]
  /\ operatorId' \in [Ids -> Who]
  /\ disposition' \in [Ids -> Dispositions \cup {None}]
  /\ planeOf' = planeOf
  /\ \A i \in Ids : state'[i] = "none" => state[i] = "none" /\ stamps'[i] = {}

\* The variables of the lock stay as they are.
LockKept == UNCHANGED <<signal, console, session>>

\* transition() keeps the types of the record it moves (lifecycle.ts).
LEMMA VisitMoves ==
  ASSUME LockInv, NEW i, NEW S \in SUBSET Life!States, NEW final \in Life!States,
         Visit(i, S, final)
  PROVE  /\ state' \in [Ids -> Life!States \cup {"none"}]
         /\ stamps' \in [Ids -> SUBSET Life!States]
         /\ \A j \in Ids : state'[j] = "none" => state[j] = "none" /\ stamps'[j] = {}
<1>1. /\ state \in [Ids -> Life!States \cup {"none"}]
      /\ stamps \in [Ids -> SUBSET Life!States]
      /\ \A j \in Ids : state[j] = "none" => stamps[j] = {}
  BY DEF LockInv, TypeOK, CallsOwnTheirRecord
<1>2. final # "none"
  BY DEF Life!States
<1> QED
  BY <1>1, <1>2 DEF Visit

\* claim() and takeControl() keep the records' types.
LEMMA ClaimMoves ==
  ASSUME LockInv, NEW i \in Ids, NEW who \in Who, ClaimAndTake(i, who),
         UNCHANGED <<disposition, planeOf>>
  PROVE  RecordsMove
<1>1. CASE state[i] \in Unanswered
  <2>1. ToControl[state[i]] \in SUBSET Life!States /\ "in_control" \in Life!States
    BY <1>1 DEF Unanswered, ToControl, Life!States
  <2>2. operatorId' \in [Ids -> Who] /\ disposition' \in [Ids -> Dispositions \cup {None}]
    BY <1>1 DEF ClaimAndTake, LockInv, TypeOK
  <2> QED
    BY <1>1, <2>1, <2>2, VisitMoves DEF ClaimAndTake, RecordsMove
<1>2. CASE state[i] \notin Unanswered
  BY <1>2 DEF ClaimAndTake, RecordsMove, LockInv, TypeOK, CallsOwnTheirRecord
<1> QED BY <1>1, <1>2

\* applyDecision() keeps the records' types.
LEMMA DecisionMoves ==
  ASSUME LockInv, NEW i \in Ids, NEW d \in Decisions, ApplyDecision(i, d), planeOf' = planeOf
  PROVE  RecordsMove
<1>1. d.disposition \in Dispositions /\ d.by \in Who
  BY DEF Decisions
<1>2. operatorId' \in [Ids -> Who] /\ disposition' \in [Ids -> Dispositions \cup {None}]
  BY <1>1 DEF ApplyDecision, LockInv, TypeOK, Who, Dispositions
<1>3. CASE d.action = "abort"
  BY <1>2, <1>3, VisitMoves DEF ApplyDecision, RecordsMove, Life!States
<1>4. CASE d.action # "abort" /\ state[i] \in Unanswered
  <2>1. ToControl[state[i]] \cup {"returned"} \in SUBSET Life!States
    BY <1>4 DEF Unanswered, ToControl, Life!States
  <2>2. "returned" \in Life!States
    BY DEF Life!States
  <2> QED
    BY <1>2, <1>4, <2>1, <2>2, VisitMoves DEF ApplyDecision, RecordsMove
<1>5. CASE d.action # "abort" /\ state[i] \notin Unanswered
  BY <1>2, <1>5 DEF ApplyDecision, RecordsMove, LockInv, TypeOK, CallsOwnTheirRecord
<1> QED BY <1>3, <1>4, <1>5

\* finish() keeps the records' types.
LEMMA FinishMoves ==
  ASSUME LockInv, NEW p \in Planes, NEW outcome \in Life!Terminal, Finish(p, outcome),
         UNCHANGED <<operatorId, disposition, planeOf>>
  PROVE  RecordsMove
<1>1. outcome \in Life!States /\ {outcome} \in SUBSET Life!States
  BY DEF Life!States, Life!Terminal
<1>2. CASE state[mine[p]] \in Life!Terminal
  BY <1>2 DEF Finish, RecordsMove, LockInv, TypeOK, CallsOwnTheirRecord
<1>3. CASE state[mine[p]] \notin Life!Terminal
  BY <1>1, <1>3, VisitMoves DEF Finish, RecordsMove, LockInv, TypeOK
<1> QED BY <1>2, <1>3

\* A handler that only moves records keeps the lock.
LEMMA RecordStep ==
  ASSUME LockInv, RecordsMove, LockKept, UNCHANGED <<calls, ran>>
  PROVE  LockInv'
<1> USE DEF RecordsMove, LockKept, calls, console, session
<1>1. TypeOK'
  BY DEF LockInv, TypeOK
<1>2. CallsOwnTheirRecord'
  BY DEF LockInv, CallsOwnTheirRecord, TypeOK
<1>3. TimersBelongToCalls'
  BY DEF LockInv, TimersBelongToCalls
<1>4. SlotsBelongToWaits'
  BY DEF LockInv, SlotsBelongToWaits
<1>5. HeldByItsCall' /\ HumanDrivesWhilePaused'
  BY DEF LockInv, HeldByItsCall, HumanDrivesWhilePaused
<1> QED BY <1>1, <1>2, <1>3, <1>4, <1>5 DEF LockInv

-------------------------------------------------------------------------------
(* Calls that move between their own labels. *)

Human == {"pausing", "waiting", "decided"}

\* A call that stays active keeps the hold.
LEMMA StaysHeld ==
  ASSUME LockInv, NEW p \in Planes, NEW l \in Active, pc[p] \in Active,
         pc' = [pc EXCEPT ![p] = l], UNCHANGED <<mine, held>>
  PROVE  HeldByItsCall'
  BY DEF LockInv, HeldByItsCall, TypeOK

\* A call that stays with the human keeps the session with the human.
LEMMA StaysHuman ==
  ASSUME LockInv, NEW p \in Planes, NEW l \in Human \cup {"failed"}, pc[p] \in Human,
         pc' = [pc EXCEPT ![p] = l], UNCHANGED owner
  PROVE  HumanDrivesWhilePaused'
  BY DEF LockInv, HumanDrivesWhilePaused, TypeOK, Human

\* No two calls are active on one session.
LEMMA OneCallPerSession ==
  ASSUME LockInv, NEW p \in Planes, NEW q \in Planes, pc[p] \in Active, pc[q] \in Active,
         SurfaceOf[p] = SurfaceOf[q]
  PROVE  p = q
  BY DEF LockInv, HeldByItsCall, CallsOwnTheirRecord

\* raceWaiter settles: the records move and the call goes to "decided".
LEMMA DecideMoves ==
  ASSUME LockInv, NEW p \in Planes, NEW d \in Decisions, Decide(p, d), mine[p] # None
  PROVE  /\ RecordsMove
         /\ pc' = [pc EXCEPT ![p] = "decided"]
         /\ pc' \in [Planes -> PCs] /\ decision' \in [Planes -> Decisions \cup {None}]
         /\ UNCHANGED <<mine, kind, outer>>
<1>1. mine[p] \in Ids
  BY DEF LockInv, TypeOK
<1>2. RecordsMove
  BY <1>1, DecisionMoves DEF Decide
<1> QED
  BY <1>2 DEF Decide, LockInv, TypeOK, PCs, Active

\* Escalating keeps the lock: a held session is refused, a free one is taken.
LEMMA EscalateKeeps ==
  ASSUME LockInv, NEW p \in Planes, NEW i \in Ids, NEW k \in Kinds,
         NEW from \in Ids \cup {None}, pc[p] \in {"idle", "returned"}, Escalate(p, i, k, from)
  PROVE  LockInv'
<1>1. /\ state[i] = "none" /\ planeOf[i] = None /\ signal[i] = "unset" /\ slot[i] = "none"
      /\ i # None
  BY DEF Escalate, Fresh, LockInv, CallsOwnTheirRecord
<1>2. /\ state' \in [Ids -> Life!States \cup {"none"}]
      /\ stamps' \in [Ids -> SUBSET Life!States]
      /\ \A j \in Ids : state'[j] = "none" => state[j] = "none" /\ stamps'[j] = {}
  BY VisitMoves DEF Escalate, Life!States
<1>3. \A j \in Ids : state'[j] = "none" => j # i
  BY <1>1 DEF Escalate, Visit, LockInv, TypeOK
<1>4. TypeOK'
  <2>1. decision' \in [Planes -> Decisions \cup {None}]
    BY DEF LockInv, TypeOK, Escalate, HeldDecision, Decisions, Dispositions, Actions, Codes, Who
  <2>2. pc' \in [Planes -> PCs] /\ signal' \in [Ids -> {"unset", "armed", "aborted"}]
        /\ held' \in [Surfaces -> Ids \cup {None}]
    BY DEF LockInv, TypeOK, PCs, Active, Escalate
  <2> QED
    BY <1>2, <2>1, <2>2 DEF LockInv, TypeOK, Escalate, console
<1>5. \A q \in Planes : mine[q] # i
  BY <1>1 DEF LockInv, CallsOwnTheirRecord, TypeOK
<1>6. CallsOwnTheirRecord'
  BY <1>1, <1>2, <1>3, <1>5 DEF LockInv, TypeOK, CallsOwnTheirRecord, Escalate, console, Active
<1>7. TimersBelongToCalls'
  BY <1>1, <1>5 DEF LockInv, TypeOK, TimersBelongToCalls, CallsOwnTheirRecord, Escalate, Active
<1>8. SlotsBelongToWaits'
  BY <1>1 DEF LockInv, TypeOK, SlotsBelongToWaits, Escalate, console
<1>9. HeldByItsCall'
  BY <1>1, <1>5 DEF LockInv, TypeOK, HeldByItsCall, Escalate, SessionIsHeld, Active
<1>10. HumanDrivesWhilePaused'
  BY DEF LockInv, TypeOK, HumanDrivesWhilePaused, Escalate
<1> QED BY <1>4, <1>6, <1>7, <1>8, <1>9, <1>10 DEF LockInv

\* Pausing hands the session to the human.
LEMMA CaptureBeforeKeeps ==
  ASSUME LockInv, NEW p \in Planes, CaptureBefore(p)
  PROVE  LockInv'
<1> USE DEF CaptureBefore, records, console
<1>1. TypeOK'
  BY DEF LockInv, TypeOK, PCs, Active
<1>2. CallsOwnTheirRecord' /\ TimersBelongToCalls'
  BY DEF LockInv, TypeOK, CallsOwnTheirRecord, TimersBelongToCalls, Active
<1>3. SlotsBelongToWaits'
  BY DEF LockInv, TypeOK, SlotsBelongToWaits
<1>4. HeldByItsCall'
  BY StaysHeld DEF Active
<1>5. HumanDrivesWhilePaused'
  BY OneCallPerSession DEF LockInv, TypeOK, HumanDrivesWhilePaused, Active
<1> QED BY <1>1, <1>2, <1>3, <1>4, <1>5 DEF LockInv

\* The slot of an open race is one its plane waits for.
LEMMA NoOpenSlotElsewhere ==
  ASSUME LockInv, NEW p \in Planes, mine[p] # None, pc[p] # "waiting" \/ p \in Scripted
  PROVE  slot[mine[p]] # "open"
  BY DEF LockInv, SlotsBelongToWaits, CallsOwnTheirRecord, TypeOK

\* The finally block gives the hold back.
LEMMA ReleaseKeeps ==
  ASSUME LockInv, NEW p \in Planes, pc[p] \in Active, pc[p] # "waiting" \/ p \in Scripted,
         NEW l \in {"failed", "returned"}, ReleaseHold(p), pc' = [pc EXCEPT ![p] = l],
         UNCHANGED <<records, console, mine, decision, kind, outer, ran>>
  PROVE  /\ TypeOK' \/ owner' # owner
         /\ CallsOwnTheirRecord' /\ TimersBelongToCalls' /\ SlotsBelongToWaits'
         /\ HeldByItsCall'
<1> USE DEF records, console, ReleaseHold
<1>1. mine[p] \in Ids /\ mine[p] # None /\ planeOf[mine[p]] = p /\ held[SurfaceOf[p]] = mine[p]
  BY DEF LockInv, CallsOwnTheirRecord, HeldByItsCall, TypeOK
<1>2. TypeOK' \/ owner' # owner
  BY DEF LockInv, TypeOK, PCs, Active
<1>3. CallsOwnTheirRecord'
  BY <1>1 DEF LockInv, TypeOK, CallsOwnTheirRecord, Active
<1>4. TimersBelongToCalls'
  BY <1>1 DEF LockInv, TypeOK, TimersBelongToCalls, CallsOwnTheirRecord, Active
<1>5. SlotsBelongToWaits'
  BY <1>1, NoOpenSlotElsewhere DEF LockInv, TypeOK, SlotsBelongToWaits
<1>6. HeldByItsCall'
  BY <1>1, OneCallPerSession DEF LockInv, TypeOK, HeldByItsCall, Active
<1> QED BY <1>2, <1>3, <1>4, <1>5, <1>6

\* A call that throws gives the hold back and leaves the session as it is.
LEMMA ThrowKeeps ==
  ASSUME LockInv, NEW p \in Planes, pc[p] \in Active, pc[p] # "waiting" \/ p \in Scripted,
         Throw(p), UNCHANGED <<records, console, owner, ran>>
  PROVE  LockInv'
<1>1. TypeOK' /\ CallsOwnTheirRecord' /\ TimersBelongToCalls' /\ SlotsBelongToWaits'
      /\ HeldByItsCall'
  BY ReleaseKeeps DEF Throw
<1>2. HumanDrivesWhilePaused'
  BY DEF LockInv, TypeOK, HumanDrivesWhilePaused, Throw
<1> QED BY <1>1, <1>2 DEF LockInv

\* The TTL and the held answers are decisions, and so is what the console makes.
LEMMA DecisionTypes ==
  /\ TtlDecision \in Decisions
  /\ \A d \in Dispositions, op \in Operators \cup {Bot} : ConsoleAnswer(d, op) \in Decisions
  /\ \A raw \in RawAnswers, by \in {Bot, None} : NormalizeDecision(raw, by) \in Decisions
<1> USE DEF Decisions, Actions, Dispositions, Codes, Who
<1>1. TtlDecision \in Decisions
  BY DEF TtlDecision
<1>2. \A d \in Dispositions, op \in Operators \cup {Bot} : ConsoleAnswer(d, op) \in Decisions
  BY DEF ConsoleAnswer
<1>3. \A raw \in RawAnswers, by \in {Bot, None} : NormalizeDecision(raw, by) \in Decisions
  BY DEF NormalizeDecision
<1> QED BY <1>1, <1>2, <1>3

\* A race settled without the console: the signal had fired, or a script answered.
LEMMA DecideKeeps ==
  ASSUME LockInv, NEW p \in Planes, NEW d \in Decisions, Decide(p, d),
         pc[p] = "pausing" \/ (pc[p] = "waiting" /\ p \in Scripted),
         UNCHANGED <<signal, console, session, ran>>
  PROVE  LockInv'
<1> USE DEF console, session
<1>1. mine[p] \in Ids /\ mine[p] # None /\ planeOf[mine[p]] = p
  BY DEF LockInv, CallsOwnTheirRecord, TypeOK, Active
<1>2. /\ RecordsMove
      /\ pc' = [pc EXCEPT ![p] = "decided"]
      /\ pc' \in [Planes -> PCs] /\ decision' \in [Planes -> Decisions \cup {None}]
      /\ UNCHANGED <<mine, kind, outer>>
  BY <1>1, DecideMoves
<1> USE DEF RecordsMove
<1>3. TypeOK'
  BY <1>2 DEF LockInv, TypeOK
<1>4. CallsOwnTheirRecord' /\ TimersBelongToCalls'
  BY <1>1, <1>2 DEF LockInv, TypeOK, CallsOwnTheirRecord, TimersBelongToCalls, Active
<1>5. SlotsBelongToWaits'
  BY <1>1, <1>2 DEF LockInv, TypeOK, SlotsBelongToWaits
<1>6. HeldByItsCall'
  BY <1>2, StaysHeld DEF Active
<1>7. HumanDrivesWhilePaused'
  BY <1>2, StaysHuman DEF Human
<1> QED BY <1>3, <1>4, <1>5, <1>6, <1>7 DEF LockInv

\* A waiter that is called: a slot opens, waits for the server, or the waiter throws.
LEMMA OpenConsoleKeeps ==
  ASSUME LockInv, NEW p \in Planes, OpenConsole(p)
  PROVE  LockInv'
<1>1. /\ mine[p] \in Ids /\ mine[p] # None /\ planeOf[mine[p]] = p
      /\ pc[p] = "pausing" /\ p \notin Scripted
      /\ signal[mine[p]] = "armed"
  BY DEF OpenConsole, Aborted, LockInv, CallsOwnTheirRecord, TimersBelongToCalls, TypeOK, Active
<1>2. CASE server = "broken"
  BY <1>1, <1>2, ThrowKeeps DEF OpenConsole, console, Active
<1>3. CASE server # "broken"
  <2>1. /\ pc' = [pc EXCEPT ![p] = "waiting"]
        /\ \/ server = "up" /\ server' = "up" /\ slot' = [slot EXCEPT ![mine[p]] = "open"]
           \/ /\ server # "up" /\ server' = "binding"
              /\ slot' = [slot EXCEPT ![mine[p]] = "binding"]
        /\ UNCHANGED <<records, signal, answer, session, mine, decision, kind, outer, ran>>
    BY <1>3 DEF OpenConsole, session
  <2> USE DEF records, session
  <2>2. TypeOK'
    BY <2>1 DEF LockInv, TypeOK, PCs, Active
  <2>3. CallsOwnTheirRecord' /\ TimersBelongToCalls'
    BY <1>1, <2>1 DEF LockInv, TypeOK, CallsOwnTheirRecord, TimersBelongToCalls, Active
  <2>4. SlotsBelongToWaits'
    BY <1>1, <2>1 DEF LockInv, TypeOK, SlotsBelongToWaits
  <2>5. HeldByItsCall' /\ HumanDrivesWhilePaused'
    BY <1>1, <2>1, StaysHeld, StaysHuman DEF Active, Human
  <2> QED BY <2>2, <2>3, <2>4, <2>5 DEF LockInv
<1> QED BY <1>2, <1>3

\* A scripted waiter is called.
LEMMA StartScriptKeeps ==
  ASSUME LockInv, NEW p \in Planes, StartScript(p)
  PROVE  LockInv'
<1> USE DEF StartScript, records, console, session
<1>1. TypeOK'
  BY DEF LockInv, TypeOK, PCs, Active
<1>2. CallsOwnTheirRecord' /\ TimersBelongToCalls' /\ SlotsBelongToWaits'
  BY DEF LockInv, TypeOK, CallsOwnTheirRecord, TimersBelongToCalls, SlotsBelongToWaits, Active
<1>3. HeldByItsCall' /\ HumanDrivesWhilePaused'
  BY StaysHeld, StaysHuman DEF Active, Human
<1> QED BY <1>1, <1>2, <1>3 DEF LockInv

-------------------------------------------------------------------------------
(* The console. *)

\* The console server is up: the waiting calls get their slots.
LEMMA ServerBoundKeeps ==
  ASSUME LockInv, ServerBound
  PROVE  LockInv'
<1> USE DEF ServerBound, records, calls, session
<1>1. TypeOK'
  BY DEF LockInv, TypeOK
<1>2. CallsOwnTheirRecord' /\ TimersBelongToCalls'
  BY DEF LockInv, TypeOK, CallsOwnTheirRecord, TimersBelongToCalls
<1>3. \A i \in Ids : slot[i] = "binding" => signal[i] # "unset"
  BY DEF LockInv, SlotsBelongToWaits
<1>4. SlotsBelongToWaits'
  <2> SUFFICES ASSUME NEW i \in Ids
               PROVE  /\ slot'[i] # "none" => planeOf[i] # None /\ planeOf[i] \notin Scripted /\ signal[i] # "unset"
                      /\ slot'[i] \in {"binding", "open"} /\ signal[i] = "armed" => pc[planeOf[i]] = "waiting"
                      /\ slot'[i] = "open" => server' = "up" /\ signal[i] = "armed"
                      /\ slot'[i] # "binding"
                      /\ slot'[i] = "closing" => answer[i] \in Decisions
    BY DEF SlotsBelongToWaits
  <2>1. CASE slot[i] = "binding"
    BY <1>3, <2>1 DEF LockInv, TypeOK, SlotsBelongToWaits, OpenSlots, Aborted
  <2>2. CASE slot[i] # "binding"
    BY <2>2 DEF LockInv, TypeOK, SlotsBelongToWaits, OpenSlots
  <2> QED BY <2>1, <2>2
<1>5. HeldByItsCall' /\ HumanDrivesWhilePaused'
  BY DEF LockInv, HeldByItsCall, HumanDrivesWhilePaused
<1> QED BY <1>1, <1>2, <1>4, <1>5 DEF LockInv

\* The console server cannot listen: every call that waits for it throws.
LEMMA BindFailsKeeps ==
  ASSUME LockInv, BindFails
  PROVE  LockInv'
<1> DEFINE hit == {p \in Planes : pc[p] = "waiting" /\ mine[p] # None /\ slot[mine[p]] = "binding"}
<1>1. /\ server = "binding" /\ server' = "broken"
      /\ slot' = [i \in Ids |-> IF slot[i] = "binding" THEN "none" ELSE slot[i]]
      /\ pc' = [p \in Planes |-> IF p \in hit THEN "failed" ELSE pc[p]]
      /\ signal' = [i \in Ids |-> IF \E p \in hit : mine[p] = i THEN "aborted" ELSE signal[i]]
      /\ held' = [s \in Surfaces |-> IF \E p \in hit : SurfaceOf[p] = s /\ mine[p] = held[s]
                                     THEN None ELSE held[s]]
      /\ UNCHANGED <<records, answer, owner, mine, decision, kind, outer, ran>>
  BY DEF BindFails
<1>2. \A p \in hit : p \in Planes /\ pc[p] = "waiting" /\ mine[p] \in Ids /\ mine[p] # None
  BY DEF LockInv, TypeOK
<1> HIDE DEF hit
<1> USE DEF records
<1>3. TypeOK'
  BY <1>1 DEF LockInv, TypeOK, PCs
<1>4. CallsOwnTheirRecord'
  <2>1. \A i \in Ids : state[i] = "none" => \A p \in hit : mine[p] # i
    BY <1>2 DEF LockInv, CallsOwnTheirRecord
  <2> QED
    BY <1>1, <2>1 DEF LockInv, TypeOK, CallsOwnTheirRecord, Active
<1>5. TimersBelongToCalls'
  BY <1>1, <1>2 DEF LockInv, TypeOK, TimersBelongToCalls, CallsOwnTheirRecord, Active
<1>6. SlotsBelongToWaits'
  BY <1>1 DEF LockInv, TypeOK, SlotsBelongToWaits
<1>7. HeldByItsCall'
  <2>1. ASSUME NEW p \in Planes, pc'[p] \in Active
        PROVE  held'[SurfaceOf[p]] = mine[p] /\ mine[p] # None
    <3>1. p \notin hit /\ pc[p] \in Active
      BY <1>1, <2>1 DEF Active
    <3>2. \A q \in hit : SurfaceOf[q] # SurfaceOf[p]
      BY <1>2, <3>1, OneCallPerSession DEF Active
    <3> QED
      BY <1>1, <3>1, <3>2 DEF LockInv, TypeOK, HeldByItsCall
  <2>2. ASSUME NEW s \in Surfaces, held'[s] # None
        PROVE  \E p \in Planes : SurfaceOf[p] = s /\ pc'[p] \in Active /\ mine[p] = held'[s]
    <3>1. held'[s] = held[s] /\ \A q \in hit : ~ (SurfaceOf[q] = s /\ mine[q] = held[s])
      BY <1>1, <2>2
    <3>2. PICK p \in Planes : SurfaceOf[p] = s /\ pc[p] \in Active /\ mine[p] = held[s]
      BY <2>2, <3>1 DEF LockInv, HeldByItsCall
    <3> QED
      BY <1>1, <3>1, <3>2
  <2> QED
    BY <1>1, <2>1, <2>2 DEF HeldByItsCall
<1>8. HumanDrivesWhilePaused'
  <2>1. ASSUME NEW p \in Planes, pc'[p] \in {"pausing", "waiting", "decided"}
        PROVE  owner'[SurfaceOf[p]] = "human"
    BY <1>1, <2>1 DEF LockInv, HumanDrivesWhilePaused
  <2>2. ASSUME NEW s \in Surfaces, owner'[s] = "human"
        PROVE  \E p \in Planes : SurfaceOf[p] = s
                                /\ pc'[p] \in {"pausing", "waiting", "decided", "failed"}
    BY <1>1, <2>2 DEF LockInv, HumanDrivesWhilePaused
  <2> QED
    BY <2>1, <2>2 DEF HumanDrivesWhilePaused
<1> QED BY <1>3, <1>4, <1>5, <1>6, <1>7, <1>8 DEF LockInv

\* The records of an answered slot keep their types.
LEMMA AnswerMoves ==
  ASSUME LockInv, NEW i \in Ids, NEW who \in Who, NEW d \in Decisions,
         ClaimedThen(i, who, d), planeOf' = planeOf
  PROVE  RecordsMove
<1>1. d.disposition \in Dispositions /\ d.by \in Who
  BY DEF Decisions
<1>2. CASE OpenSlots = {i}
  BY <1>2, ClaimMoves DEF ClaimedThen
<1>3. CASE OpenSlots # {i} /\ state[i] = "raised"
  <2> DEFINE final == IF d.action = "abort" THEN "abandoned" ELSE "returned"
  <2>1. ToControl["raised"] \cup {final} \in SUBSET Life!States /\ final \in Life!States
    BY DEF ToControl, Life!States
  <2>2. operatorId' \in [Ids -> Who] /\ disposition' \in [Ids -> Dispositions \cup {None}]
    BY <1>1, <1>3 DEF ClaimedThen, LockInv, TypeOK
  <2>3. Visit(i, ToControl["raised"] \cup {final}, final)
    BY <1>3 DEF ClaimedThen
  <2> HIDE DEF final
  <2> QED BY <2>1, <2>2, <2>3, VisitMoves DEF RecordsMove
<1>4. CASE OpenSlots # {i} /\ state[i] # "raised"
  BY <1>4, DecisionMoves DEF ClaimedThen
<1> QED BY <1>2, <1>3, <1>4

\* An open slot that is answered: the call goes on, or the server closes first.
LEMMA SettleKeeps ==
  ASSUME LockInv, RecordsMove, NEW i \in Ids, slot[i] = "open", NEW d \in Decisions, Settle(i, d),
         UNCHANGED <<signal, session, mine, kind, outer, ran>>
  PROVE  LockInv'
<1> USE DEF RecordsMove, session
<1>1. /\ planeOf[i] \in Planes /\ mine[planeOf[i]] = i /\ pc[planeOf[i]] = "waiting"
      /\ planeOf[i] \notin Scripted /\ i # None
  BY DEF LockInv, TypeOK, SlotsBelongToWaits, TimersBelongToCalls
<1> DEFINE p == planeOf[i]
<1>2. CASE OpenSlots # {i}
  <2>1. /\ slot' = [slot EXCEPT ![i] = "none"] /\ pc' = [pc EXCEPT ![p] = "decided"]
        /\ decision' = [decision EXCEPT ![p] = d] /\ UNCHANGED <<answer, server>>
    BY <1>2 DEF Settle
  <2>2. TypeOK'
    BY <2>1 DEF LockInv, TypeOK, PCs, Active
  <2>3. CallsOwnTheirRecord' /\ TimersBelongToCalls'
    BY <1>1, <2>1 DEF LockInv, TypeOK, CallsOwnTheirRecord, TimersBelongToCalls, Active
  <2>4. SlotsBelongToWaits'
    BY <1>1, <2>1 DEF LockInv, TypeOK, SlotsBelongToWaits, TimersBelongToCalls
  <2>5. HeldByItsCall' /\ HumanDrivesWhilePaused'
    BY <1>1, <2>1, StaysHeld, StaysHuman DEF Active, Human
  <2> QED BY <2>2, <2>3, <2>4, <2>5 DEF LockInv
<1>3. CASE OpenSlots = {i}
  <2>1. /\ slot' = [slot EXCEPT ![i] = "closing"] /\ answer' = [answer EXCEPT ![i] = d]
        /\ server' = "down" /\ UNCHANGED <<pc, decision>>
    BY <1>3 DEF Settle
  <2>2. TypeOK'
    BY <2>1 DEF LockInv, TypeOK
  <2>3. CallsOwnTheirRecord' /\ TimersBelongToCalls'
    BY <1>1, <2>1 DEF LockInv, TypeOK, CallsOwnTheirRecord, TimersBelongToCalls
  <2>4. \A j \in Ids : slot[j] # "binding" /\ (j # i => slot[j] # "open")
    BY <1>3 DEF LockInv, SlotsBelongToWaits, OpenSlots
  <2>5. SlotsBelongToWaits'
    BY <1>1, <2>1, <2>4 DEF LockInv, TypeOK, SlotsBelongToWaits
  <2>6. HeldByItsCall' /\ HumanDrivesWhilePaused'
    BY <2>1 DEF LockInv, HeldByItsCall, HumanDrivesWhilePaused
  <2> QED BY <2>2, <2>3, <2>5, <2>6 DEF LockInv
<1> QED BY <1>2, <1>3

\* The race is settled by the server that has closed or by the timer; both empty
\* the slot, the timer only when it is open.
LEMMA RaceSettled ==
  ASSUME LockInv, NEW i \in Ids,
         NEW d,
         \/ slot' = [slot EXCEPT ![i] = "none"]
         \/ slot[i] # "open" /\ UNCHANGED <<slot, answer>> /\ signal[i] = "armed",
         server' = IF slot[i] = "open" /\ OpenSlots = {i} THEN "down" ELSE server,
         answer' \in [Ids -> Decisions \cup {None}],
         \A j \in Ids : j # i => answer'[j] = answer[j],
         \/ signal' = [signal EXCEPT ![i] = "aborted"] /\ signal[i] = "armed"
         \/ UNCHANGED signal /\ slot[i] = "closing",
         IF pc[planeOf[i]] = "waiting" /\ mine[planeOf[i]] = i
         THEN Decide(planeOf[i], d) ELSE UNCHANGED <<records, calls>>,
         planeOf[i] \in Planes, d \in Decisions,
         UNCHANGED <<session, ran>>
  PROVE  LockInv'
<1> USE DEF session
<1> DEFINE p == planeOf[i]
<1>1. \A j \in Ids : slot[i] = "open" /\ OpenSlots = {i} =>
        slot[j] # "binding" /\ (j # i => slot[j] # "open")
  BY DEF LockInv, SlotsBelongToWaits, OpenSlots
<1>2. signal' \in [Ids -> {"unset", "armed", "aborted"}] /\ slot' \in [Ids -> {"none", "binding", "open", "closing"}]
      /\ server' \in {"down", "binding", "up", "broken"}
  BY DEF LockInv, TypeOK
<1>3. CASE pc[p] = "waiting" /\ mine[p] = i
  <2>1. /\ RecordsMove
        /\ pc' = [pc EXCEPT ![p] = "decided"]
        /\ pc' \in [Planes -> PCs] /\ decision' \in [Planes -> Decisions \cup {None}]
        /\ UNCHANGED <<mine, kind, outer>>
    BY <1>3, DecideMoves
  <2> USE DEF RecordsMove
  <2>2. TypeOK'
    BY <1>2, <2>1 DEF LockInv, TypeOK
  <2>3. CallsOwnTheirRecord'
    BY <1>3, <2>1 DEF LockInv, TypeOK, CallsOwnTheirRecord, Active
  <2>4. TimersBelongToCalls'
    BY <1>3, <2>1 DEF LockInv, TypeOK, TimersBelongToCalls, CallsOwnTheirRecord, Active
  <2>5. SlotsBelongToWaits'
    <3> SUFFICES ASSUME NEW j \in Ids
                 PROVE  /\ slot'[j] # "none" => planeOf[j] # None /\ planeOf[j] \notin Scripted /\ signal'[j] # "unset"
                        /\ slot'[j] \in {"binding", "open"} /\ signal'[j] = "armed" => pc'[planeOf[j]] = "waiting"
                        /\ slot'[j] = "open" => server' = "up" /\ signal'[j] = "armed"
                        /\ slot'[j] = "binding" => server' = "binding"
                        /\ slot'[j] = "closing" => answer'[j] \in Decisions
      BY <2>1 DEF SlotsBelongToWaits
    <3>1. CASE j = i
      BY <3>1 DEF LockInv, TypeOK, SlotsBelongToWaits
    <3>2. CASE j # i
      <4>1. slot'[j] = slot[j] /\ signal'[j] = signal[j] /\ answer'[j] = answer[j]
        BY <3>2 DEF LockInv, TypeOK
      <4>2. signal[j] = "armed" => planeOf[j] # p
        BY <1>3, <3>2 DEF LockInv, TimersBelongToCalls
      <4> QED
        BY <1>1, <2>1, <3>2, <4>1, <4>2 DEF LockInv, TypeOK, SlotsBelongToWaits
    <3> QED BY <3>1, <3>2
  <2>6. HeldByItsCall' /\ HumanDrivesWhilePaused'
    BY <1>3, <2>1, StaysHeld, StaysHuman DEF Active, Human
  <2> QED BY <2>2, <2>3, <2>4, <2>5, <2>6 DEF LockInv
<1>4. CASE ~ (pc[p] = "waiting" /\ mine[p] = i)
  <2>1. UNCHANGED <<records, calls>>
    BY <1>4
  <2> USE <2>1 DEF records, calls
  <2>2. TypeOK'
    BY <1>2 DEF LockInv, TypeOK
  <2>3. CallsOwnTheirRecord'
    BY DEF LockInv, TypeOK, CallsOwnTheirRecord
  <2>4. TimersBelongToCalls'
    BY DEF LockInv, TypeOK, TimersBelongToCalls, CallsOwnTheirRecord
  <2>5. SlotsBelongToWaits'
    <3> SUFFICES ASSUME NEW j \in Ids
                 PROVE  /\ slot'[j] # "none" => planeOf[j] # None /\ planeOf[j] \notin Scripted /\ signal'[j] # "unset"
                        /\ slot'[j] \in {"binding", "open"} /\ signal'[j] = "armed" => pc[planeOf[j]] = "waiting"
                        /\ slot'[j] = "open" => server' = "up" /\ signal'[j] = "armed"
                        /\ slot'[j] = "binding" => server' = "binding"
                        /\ slot'[j] = "closing" => answer'[j] \in Decisions
      BY DEF SlotsBelongToWaits
    <3>1. CASE j = i
      BY <3>1 DEF LockInv, TypeOK, SlotsBelongToWaits
    <3>2. CASE j # i
      <4>1. slot'[j] = slot[j] /\ signal'[j] = signal[j] /\ answer'[j] = answer[j]
        BY <3>2 DEF LockInv, TypeOK
      <4> QED
        BY <1>1, <3>2, <4>1 DEF LockInv, TypeOK, SlotsBelongToWaits
    <3> QED BY <3>1, <3>2
  <2>6. HeldByItsCall' /\ HumanDrivesWhilePaused'
    BY DEF LockInv, HeldByItsCall, HumanDrivesWhilePaused
  <2> QED BY <2>2, <2>3, <2>4, <2>5, <2>6 DEF LockInv
<1> QED BY <1>3, <1>4

\* The answer that waited for the server to close arrives, or is too late.
LEMMA ServerClosedKeeps ==
  ASSUME LockInv, NEW i \in Ids, ServerClosed(i)
  PROVE  LockInv'
<1>1. planeOf[i] \in Planes /\ answer[i] \in Decisions
  BY DEF ServerClosed, LockInv, TypeOK, SlotsBelongToWaits
<1>2. answer' \in [Ids -> Decisions \cup {None}]
  BY DEF ServerClosed, LockInv, TypeOK
<1> QED
  BY <1>1, <1>2, RaceSettled DEF ServerClosed, LockInv, TypeOK

\* The timer settles the race of its own call and no other.
LEMMA TtlFiresKeeps ==
  ASSUME LockInv, NEW i \in Ids, TtlFires(i)
  PROVE  LockInv'
<1>1. planeOf[i] \in Planes
  BY DEF TtlFires, LockInv, TypeOK, TimersBelongToCalls
<1>2. answer' \in [Ids -> Decisions \cup {None}] /\ answer' = answer
  BY DEF TtlFires, LockInv, TypeOK
<1>3. /\ signal[i] = "armed" /\ signal' = [signal EXCEPT ![i] = "aborted"]
      /\ IF pc[planeOf[i]] = "waiting" /\ mine[planeOf[i]] = i
         THEN Decide(planeOf[i], TtlDecision) ELSE UNCHANGED <<records, calls>>
      /\ UNCHANGED <<session, ran>>
  BY DEF TtlFires
<1>4. CASE slot[i] = "open"
  <2>1. /\ slot' = [slot EXCEPT ![i] = "none"]
        /\ server' = IF slot[i] = "open" /\ OpenSlots = {i} THEN "down" ELSE server
    BY <1>4 DEF TtlFires
  <2> QED
    BY <1>1, <1>2, <1>3, <2>1, DecisionTypes, RaceSettled
<1>5. CASE slot[i] # "open"
  <2>1. /\ UNCHANGED <<slot, answer>>
        /\ server' = IF slot[i] = "open" /\ OpenSlots = {i} THEN "down" ELSE server
    BY <1>5, <1>2 DEF TtlFires
  <2> QED
    BY <1>1, <1>2, <1>3, <1>5, <2>1, DecisionTypes, RaceSettled
<1> QED BY <1>4, <1>5

\* A click, or the auto-resume timer, answers an open slot.
LEMMA AnswersKeep ==
  ASSUME LockInv, NEW i \in Ids,
         \/ \E op \in Operators, d \in Dispositions : PostReturn(i, op, d)
         \/ AutoResumes(i)
  PROVE  LockInv'
<1>1. PICK who \in Who, d \in Decisions :
        /\ slot[i] = "open" /\ ClaimedThen(i, who, d) /\ Settle(i, d)
        /\ UNCHANGED <<planeOf, signal, session, mine, kind, outer, ran>>
  <2>1. CASE AutoResumes(i)
    <3>1. Bot \in Who /\ ConsoleAnswer("not_done", Bot) \in Decisions
      BY DecisionTypes DEF Who, Dispositions
    <3> QED BY <2>1, <3>1 DEF AutoResumes
  <2>2. ASSUME NEW op \in Operators, NEW d \in Dispositions, PostReturn(i, op, d)
        PROVE  \E who \in Who, e \in Decisions :
                 /\ slot[i] = "open" /\ ClaimedThen(i, who, e) /\ Settle(i, e)
                 /\ UNCHANGED <<planeOf, signal, session, mine, kind, outer, ran>>
    <3> DEFINE who == IF op = Blank THEN Unknown ELSE op
    <3>1. who \in Who /\ ConsoleAnswer(d, op) \in Decisions
      BY DecisionTypes DEF Who
    <3>2. /\ slot[i] = "open" /\ ClaimedThen(i, who, ConsoleAnswer(d, op))
          /\ Settle(i, ConsoleAnswer(d, op))
          /\ UNCHANGED <<planeOf, signal, session, mine, kind, outer, ran>>
      BY <2>2 DEF PostReturn
    <3> HIDE DEF who
    <3> QED BY <3>1, <3>2
  <2> QED BY <2>1, <2>2
<1> QED
  BY <1>1, AnswerMoves, SettleKeeps

\* A claim at the console, or by a script, only moves the record.
LEMMA ClaimsKeep ==
  ASSUME LockInv,
         \/ \E i \in Ids, op \in Operators : PostClaim(i, op)
         \/ \E p \in Planes : ScriptClaims(p) \/ ScriptTakesControl(p)
  PROVE  LockInv'
<1>1. ASSUME NEW i \in Ids, NEW op \in Operators, PostClaim(i, op)
      PROVE  LockInv'
  BY <1>1, ClaimMoves, RecordStep DEF PostClaim, LockKept, Who
<1>2. ASSUME NEW p \in Planes, ScriptClaims(p)
      PROVE  LockInv'
  <2>1. /\ state' \in [Ids -> Life!States \cup {"none"}]
        /\ stamps' \in [Ids -> SUBSET Life!States]
        /\ \A j \in Ids : state'[j] = "none" => state[j] = "none" /\ stamps'[j] = {}
    BY <1>2, VisitMoves DEF ScriptClaims, Life!States
  <2>2. operatorId' \in [Ids -> Who]
    BY <1>2 DEF ScriptClaims, LockInv, TypeOK, Who
  <2> QED
    BY <1>2, <2>1, <2>2, RecordStep DEF ScriptClaims, LockKept, RecordsMove, LockInv, TypeOK
<1>3. ASSUME NEW p \in Planes, ScriptTakesControl(p)
      PROVE  LockInv'
  <2>1. mine[p] \in Ids /\ Unknown \in Who
    BY <1>3 DEF ScriptTakesControl, LockInv, TypeOK, CallsOwnTheirRecord, Active, Who
  <2> QED
    BY <1>3, <2>1, ClaimMoves, RecordStep DEF ScriptTakesControl, LockKept
<1> QED BY <1>1, <1>2, <1>3

-------------------------------------------------------------------------------
(* Leaving escalate() and what the caller does. *)

\* The after-capture gives the session back to automation.
LEMMA CaptureAfterKeeps ==
  ASSUME LockInv, NEW p \in Planes, CaptureAfter(p)
  PROVE  LockInv'
<1> USE DEF CaptureAfter, records, console
<1>1. TypeOK'
  BY DEF LockInv, TypeOK, PCs, Active
<1>2. CallsOwnTheirRecord' /\ TimersBelongToCalls'
  BY DEF LockInv, TypeOK, CallsOwnTheirRecord, TimersBelongToCalls, Active
<1>3. SlotsBelongToWaits'
  BY DEF LockInv, TypeOK, SlotsBelongToWaits
<1>4. HeldByItsCall'
  BY StaysHeld DEF Active
<1>5. HumanDrivesWhilePaused'
  BY OneCallPerSession DEF LockInv, TypeOK, HumanDrivesWhilePaused, Active
<1> QED BY <1>1, <1>2, <1>3, <1>4, <1>5 DEF LockInv

\* escalate() returns and its finally block releases the hold.
LEMMA LeaveKeeps ==
  ASSUME LockInv, NEW p \in Planes, Leave(p)
  PROVE  LockInv'
<1>1. TypeOK' /\ CallsOwnTheirRecord' /\ TimersBelongToCalls' /\ SlotsBelongToWaits'
      /\ HeldByItsCall'
  BY ReleaseKeeps DEF Leave, Active
<1>2. HumanDrivesWhilePaused'
  BY DEF LockInv, TypeOK, HumanDrivesWhilePaused, Leave
<1> QED BY <1>1, <1>2 DEF LockInv

\* A call that has returned touches nothing of the lock.
LEMMA CallerKeeps ==
  ASSUME LockInv, RecordsMove, NEW p \in Planes, pc[p] \in {"returned", "reconciling"},
         EndCall(p, "idle") \/ EndCall(p, "over") \/ Reconcile(p), ran' \subseteq Ids
  PROVE  LockInv'
<1> USE DEF EndCall, Reconcile, RecordsMove, console, session
<1>1. TypeOK'
  BY SMTT(30) DEF LockInv, TypeOK, PCs, Active
<1>2. CallsOwnTheirRecord' /\ TimersBelongToCalls'
  BY SMTT(30) DEF LockInv, TypeOK, CallsOwnTheirRecord, TimersBelongToCalls, Active
<1>3. SlotsBelongToWaits'
  BY SMTT(30) DEF LockInv, TypeOK, SlotsBelongToWaits
<1>4. HeldByItsCall' /\ HumanDrivesWhilePaused'
  BY SMTT(30) DEF LockInv, TypeOK, HeldByItsCall, HumanDrivesWhilePaused, Active
<1> QED BY <1>1, <1>2, <1>3, <1>4 DEF LockInv

\* The steps of a caller: it may close the record and the run goes on or ends.
CallerStep(p) ==
  \/ RunAborted(p) \/ DiscoveryResumes(p) \/ ExceptionHandled(p)
  \/ HandbackClean(p) \/ HandbackStops(p) \/ HandbackThrows(p)
  \/ Skip(p) \/ EntryLost(p) \/ Execute(p)

\* What the caller does with a decision keeps the lock.
LEMMA CallerMoves ==
  ASSUME LockInv, NEW p \in Planes, CallerStep(p)
  PROVE  /\ RecordsMove /\ pc[p] \in {"returned", "reconciling"}
         /\ EndCall(p, "idle") \/ EndCall(p, "over") \/ Reconcile(p)
         /\ ran' \subseteq Ids
<1>1. EndCall(p, "idle") \/ EndCall(p, "over") \/ Reconcile(p)
  BY DEF CallerStep, RunAborted, DiscoveryResumes, ExceptionHandled, HandbackClean,
         HandbackStops, HandbackThrows, Skip, EntryLost, Execute
<1>2. pc[p] \in {"returned", "reconciling"}
  BY DEF CallerStep, RunAborted, DiscoveryResumes, ExceptionHandled, HandbackClean,
         HandbackStops, HandbackThrows, HandedBack, Skip, EntryLost, Execute
<1>3. UNCHANGED <<operatorId, disposition, planeOf>>
  BY <1>1 DEF EndCall, Reconcile
<1>4. \/ UNCHANGED <<state, stamps>> \/ \E o \in Life!Terminal : Finish(p, o)
  BY DEF CallerStep, RunAborted, DiscoveryResumes, ExceptionHandled, HandbackClean,
         HandbackStops, HandbackThrows, Skip, EntryLost, Execute, Life!Terminal
<1>5. RecordsMove
  <2>1. CASE UNCHANGED <<state, stamps>>
    BY <1>3, <2>1 DEF RecordsMove, LockInv, TypeOK, CallsOwnTheirRecord
  <2> QED
    BY <1>3, <1>4, <2>1, FinishMoves
<1>6. ran' \subseteq Ids
  <2>1. CASE UNCHANGED ran
    BY <2>1 DEF LockInv, TypeOK
  <2>2. CASE Execute(p)
    <3>1. mine[p] \in Ids /\ outer[p] \in Ids \cup {None}
      BY <1>2 DEF LockInv, TypeOK, CallsOwnTheirRecord
    <3> QED BY <2>2, <3>1 DEF Execute, Risky, LockInv, TypeOK
  <2> QED
    BY <2>1, <2>2 DEF CallerStep, RunAborted, DiscoveryResumes, ExceptionHandled, HandbackClean,
         HandbackStops, HandbackThrows, Skip, EntryLost
<1> QED BY <1>1, <1>2, <1>5, <1>6

-------------------------------------------------------------------------------
(* The session lock. *)

\* Nothing is held before the first escalation.
LEMMA LockInit == Init => LockInv
<1> SUFFICES ASSUME Init PROVE LockInv
  OBVIOUS
<1>1. TypeOK
  BY DEF Init, TypeOK, PCs, Active, Who
<1>2. CallsOwnTheirRecord /\ TimersBelongToCalls /\ SlotsBelongToWaits
  BY DEF Init, CallsOwnTheirRecord, TimersBelongToCalls, SlotsBelongToWaits, Active
<1>3. HeldByItsCall /\ HumanDrivesWhilePaused
  BY DEF Init, HeldByItsCall, HumanDrivesWhilePaused, Active
<1> QED BY <1>1, <1>2, <1>3 DEF LockInv

\* Every step of the runs, the operators, the timers and the server keeps the lock.
LEMMA LockStep == LockInv /\ [Next]_vars => LockInv'
<1> SUFFICES ASSUME LockInv, [Next]_vars PROVE LockInv'
  OBVIOUS
<1>1. ASSUME NEW p \in Planes, NEW i \in Ids, NEW k \in Kinds, Raise(p, i, k)
      PROVE  LockInv'
  BY <1>1, EscalateKeeps DEF Raise
<1>2. ASSUME NEW p \in Planes, PlaneStep(p)
      PROVE  LockInv'
  <2>1. CASE CaptureBefore(p)
    BY <2>1, CaptureBeforeKeeps
  <2>2. CASE CaptureFails(p)
    BY <2>2, ThrowKeeps DEF CaptureFails, Active
  <2>3. CASE WaitTooLate(p)
    BY <2>3, DecideKeeps, DecisionTypes DEF WaitTooLate
  <2>4. CASE OpenConsole(p)
    BY <2>4, OpenConsoleKeeps
  <2>5. CASE StartScript(p)
    BY <2>5, StartScriptKeeps
  <2>6. CASE CaptureAfter(p)
    BY <2>6, CaptureAfterKeeps
  <2>7. CASE Leave(p)
    BY <2>7, LeaveKeeps
  <2>8. CASE CallerStep(p)
    BY <2>8, CallerMoves, CallerKeeps
  <2>9. ASSUME NEW i \in Ids, NEW k \in Kinds, HandbackEscalates(p, i, k)
        PROVE  LockInv'
    <3>1. mine[p] \in Ids \cup {None}
      BY DEF LockInv, TypeOK
    <3> QED BY <2>9, <3>1, EscalateKeeps DEF HandbackEscalates, HandedBack
  <2> QED
    BY <1>2, <2>1, <2>2, <2>3, <2>4, <2>5, <2>6, <2>7, <2>8, <2>9 DEF PlaneStep, CallerStep
<1>3. ASSUME NEW p \in Planes, ScriptStep(p)
      PROVE  LockInv'
  <2>1. CASE ScriptClaims(p) \/ ScriptTakesControl(p)
    BY <2>1, ClaimsKeep
  <2>2. ASSUME NEW raw \in RawAnswers, ScriptReturns(p, raw)
        PROVE  LockInv'
    BY <2>2, DecideKeeps, DecisionTypes DEF ScriptReturns
  <2>3. CASE ScriptThrows(p)
    BY <2>3, ThrowKeeps DEF ScriptThrows, Active
  <2> QED BY <1>3, <2>1, <2>2, <2>3 DEF ScriptStep
<1>4. ASSUME NEW i \in Ids, OperatorStep(i) \/ TimerStep(i)
      PROVE  LockInv'
  BY <1>4, ClaimsKeep, AnswersKeep, TtlFiresKeeps DEF OperatorStep, TimerStep
<1>5. CASE ServerStep
  BY <1>5, ServerBoundKeeps, BindFailsKeeps, ServerClosedKeeps DEF ServerStep
<1>6. CASE Done \/ UNCHANGED vars
  <2>1. UNCHANGED vars
    BY <1>6 DEF Done
  <2>2. RecordsMove
    BY <2>1 DEF vars, records, RecordsMove, LockInv, TypeOK, CallsOwnTheirRecord
  <2> QED
    BY <2>1, <2>2, RecordStep DEF vars, LockKept
<1> QED
  BY <1>1, <1>2, <1>3, <1>4, <1>5, <1>6 DEF Next

\* The inductive invariant holds in every behaviour.
THEOREM Lock == Spec => []LockInv
  BY LockInit, LockStep, PTL DEF Spec

\* Every variable keeps its type.
THEOREM TypeCorrect == Spec => []TypeOK
<1>1. LockInv => TypeOK
  BY DEF LockInv
<1> QED BY <1>1, Lock, PTL

\* Whatever the runs, the operators and the timers do, a session is held exactly
\* by the escalation that pauses it (surfaceHeld in control.ts).
THEOREM SessionLock == Spec => []HeldByItsCall
<1>1. LockInv => HeldByItsCall
  BY DEF LockInv
<1> QED BY <1>1, Lock, PTL

\* The human drives a session only while it is paused, or after a throw.
THEOREM HumanLock == Spec => []HumanDrivesWhilePaused
<1>1. LockInv => HumanDrivesWhilePaused
  BY DEF LockInv
<1> QED BY <1>1, Lock, PTL

\* An operator never sees a slot whose wait is over (slots in operator.ts).
THEOREM SlotsAreAwaited == Spec => []OpenSlotIsAwaited
<1>1. LockInv => OpenSlotIsAwaited
  BY DEF LockInv, TypeOK, OpenSlotIsAwaited, OpenSlots, SlotsBelongToWaits, TimersBelongToCalls
<1> QED BY <1>1, Lock, PTL

-------------------------------------------------------------------------------
(* The lifecycle: ControlPlane implements Intervention. *)

Racing == {"capturing", "pausing", "waiting"}

\* Record i goes on along its path, to q or, from q, to "abandoned".
Advances(i) ==
  /\ state[i] \notin Life!Terminal
  /\ \E q \in DOMAIN Path \ {"none"} :
       /\ Path[state[i]] \subseteq Path[q]
       /\ \/ /\ state' = [state EXCEPT ![i] = q]
             /\ stamps' = [stamps EXCEPT ![i] = Path[q]]
          \/ /\ q # "resolved"
             /\ state' = [state EXCEPT ![i] = "abandoned"]
             /\ stamps' = [stamps EXCEPT ![i] = Path[q] \cup {"abandoned"}]

\* What one step does to the records: nothing, or one of them goes on.
OneAdvances == UNCHANGED <<state, stamps>> \/ \E i \in Ids : Advances(i)

\* A record that goes on along its path keeps to the paths and refines a step of
\* the lifecycle.
LEMMA AdvanceRefines ==
  ASSUME LifeInv, NEW i \in Ids, Advances(i)
  PROVE  StampsArePaths' /\ Life!Advance(i)
<1>1. /\ state \in [Ids -> Life!States \cup {"none"}] /\ stamps \in [Ids -> SUBSET Life!States]
      /\ stamps[i] = Path[state[i]]
  BY DEF LifeInv, LockInv, TypeOK, StampsArePaths, Advances, Life!Terminal
<1>2. PICK q \in DOMAIN Path \ {"none"} :
        /\ Path[state[i]] \subseteq Path[q]
        /\ \/ /\ state' = [state EXCEPT ![i] = q]
              /\ stamps' = [stamps EXCEPT ![i] = Path[q]]
           \/ /\ q # "resolved"
              /\ state' = [state EXCEPT ![i] = "abandoned"]
              /\ stamps' = [stamps EXCEPT ![i] = Path[q] \cup {"abandoned"}]
  BY DEF Advances
<1>3. q \in {"raised", "claimed", "in_control", "returned", "resolved"}
  BY DEF Path
<1>4. StampsArePaths'
  <2> SUFFICES ASSUME NEW j \in Ids
               PROVE  \/ state'[j] # "abandoned" /\ stamps'[j] = Path[state'[j]]
                      \/ state'[j] = "abandoned" /\ \E r \in Unanswered \cup {"returned"} :
                                                       stamps'[j] = Path[r] \cup {"abandoned"}
    BY DEF StampsArePaths
  <2>1. CASE j = i
    BY <1>1, <1>2, <1>3, <2>1 DEF Unanswered, ToControl
  <2>2. CASE j # i
    BY <1>1, <1>2, <2>2 DEF LifeInv, StampsArePaths
  <2> QED BY <2>1, <2>2
<1>5. ~ Life!Ended(stamps[i])
  <2>1. state[i] \in {"none", "raised", "claimed", "in_control", "returned"}
    BY <1>1 DEF Advances, Life!States, Life!Terminal
  <2> QED
    BY <1>1, <2>1 DEF Life!Ended, Life!Terminal, Path
<1>6. Life!Legal(Path[q]) /\ (q # "resolved" => Life!Legal(Path[q] \cup {"abandoned"}))
  BY <1>3 DEF Life!Legal, Life!States, Life!Allowed, Life!Terminal, Path
<1>7. Life!Legal(stamps'[i]) /\ stamps[i] \subseteq stamps'[i]
      /\ stamps' = [stamps EXCEPT ![i] = stamps'[i]]
  BY <1>1, <1>2, <1>6
<1> QED BY <1>4, <1>5, <1>7 DEF Life!Advance

\* A step that leaves every other record alone, and the raced record unanswered,
\* keeps the open races unanswered.
LEMMA RaceKept ==
  ASSUME LifeInv, NEW i \in Ids,
         \A j \in Ids : j # i => state'[j] = state[j],
         UNCHANGED mine,
         \A q \in Planes : pc'[q] \in Racing => pc[q] \in Racing,
         \A q \in Planes : pc'[q] \in Racing /\ mine[q] = i => state'[i] \in Unanswered
  PROVE  OpenRaceUnanswered'
<1>1. \A q \in Planes : pc[q] \in Racing => mine[q] \in Ids
  BY DEF LifeInv, LockInv, TypeOK, CallsOwnTheirRecord, Racing, Active
<1> QED
  BY <1>1 DEF LifeInv, OpenRaceUnanswered, Racing

\* A step that moves no record and opens no race.
LEMMA NoRecordMoves ==
  ASSUME LifeInv, UNCHANGED <<state, stamps, mine>>,
         \A q \in Planes : pc'[q] \in Racing => pc[q] \in Racing
  PROVE  OneAdvances /\ OpenRaceUnanswered'
  BY DEF LifeInv, OneAdvances, OpenRaceUnanswered, Racing

\* Escalating raises a fresh record.
LEMMA EscalateLives ==
  ASSUME LifeInv, NEW p \in Planes, NEW i \in Ids, NEW k, NEW from, Escalate(p, i, k, from)
  PROVE  OneAdvances /\ OpenRaceUnanswered'
<1>1. state[i] = "none" /\ stamps[i] = {} /\ planeOf[i] = None
  BY DEF Escalate, Fresh, LifeInv, LockInv, CallsOwnTheirRecord
<1>2. Advances(i)
  <2>1. CASE SessionIsHeld(p)
    <3>1. Path[state[i]] \subseteq Path["raised"] /\ "raised" \in DOMAIN Path \ {"none"}
      BY <1>1 DEF Path
    <3>2. /\ state' = [state EXCEPT ![i] = "abandoned"]
          /\ stamps' = [stamps EXCEPT ![i] = Path["raised"] \cup {"abandoned"}]
      BY <1>1, <2>1 DEF Escalate, Visit, Path, LifeInv, LockInv, TypeOK
    <3> QED BY <1>1, <3>1, <3>2 DEF Advances, Life!Terminal
  <2>2. CASE ~ SessionIsHeld(p)
    <3>1. Path[state[i]] \subseteq Path["raised"] /\ "raised" \in DOMAIN Path \ {"none"}
      BY <1>1 DEF Path
    <3>2. /\ state' = [state EXCEPT ![i] = "raised"]
          /\ stamps' = [stamps EXCEPT ![i] = Path["raised"]]
      BY <1>1, <2>2 DEF Escalate, Visit, Path, LifeInv, LockInv, TypeOK
    <3> QED BY <1>1, <3>1, <3>2 DEF Advances, Life!Terminal
  <2> QED BY <2>1, <2>2
<1>3. OpenRaceUnanswered'
  <2> SUFFICES ASSUME NEW q \in Planes, pc'[q] \in Racing
               PROVE  state'[mine'[q]] \in Unanswered
    BY DEF OpenRaceUnanswered, Racing
  <2>1. CASE q = p
    BY <2>1 DEF Escalate, Visit, LifeInv, LockInv, TypeOK, Racing, Unanswered, ToControl
  <2>2. CASE q # p
    <3>1. pc[q] \in Racing /\ mine'[q] = mine[q] /\ mine[q] \in Ids /\ mine[q] # i
      BY <1>1, <2>2 DEF Escalate, LifeInv, LockInv, TypeOK, CallsOwnTheirRecord, Racing, Active
    <3>2. state'[mine[q]] = state[mine[q]]
      BY <3>1 DEF Escalate, Visit, LifeInv, LockInv, TypeOK
    <3> QED
      BY <3>1, <3>2 DEF LifeInv, OpenRaceUnanswered, Racing
  <2> QED BY <2>1, <2>2
<1> QED BY <1>2, <1>3 DEF OneAdvances

\* claim() and takeControl() go on to "in_control" and leave the race open.
LEMMA ClaimLives ==
  ASSUME LifeInv, NEW i \in Ids, NEW who, ClaimAndTake(i, who), UNCHANGED <<pc, mine>>
  PROVE  OneAdvances /\ OpenRaceUnanswered'
<1>1. CASE state[i] \in Unanswered
  <2>1. /\ state[i] \in {"raised", "claimed", "in_control"} /\ stamps[i] = Path[state[i]]
        /\ Visit(i, ToControl[state[i]], "in_control")
    BY <1>1 DEF Unanswered, ToControl, LifeInv, StampsArePaths, ClaimAndTake
  <2>2. /\ state' = [state EXCEPT ![i] = "in_control"]
        /\ stamps' = [stamps EXCEPT ![i] = Path["in_control"]]
        /\ Path[state[i]] \subseteq Path["in_control"]
    <3>1. /\ Path[state[i]] \cup ToControl[state[i]] = Path["in_control"]
          /\ Path[state[i]] \subseteq Path["in_control"]
      BY <2>1 DEF Path, ToControl
    <3> QED BY <2>1, <3>1 DEF Visit
  <2>3. Advances(i)
    BY <2>1, <2>2 DEF Advances, Path, Life!Terminal
  <2>4. OpenRaceUnanswered'
    BY <2>2, RaceKept DEF LifeInv, LockInv, TypeOK, Unanswered, ToControl
  <2> QED BY <2>3, <2>4 DEF OneAdvances
<1>2. CASE state[i] \notin Unanswered
  BY <1>2, NoRecordMoves DEF ClaimAndTake
<1> QED BY <1>1, <1>2

\* applyDecision() on an unanswered record returns or abandons it.
LEMMA DecisionAdvances ==
  ASSUME LifeInv, NEW i \in Ids, NEW d, ApplyDecision(i, d), state[i] \in Unanswered
  PROVE  Advances(i)
<1>1. state[i] \in {"raised", "claimed", "in_control"} /\ stamps[i] = Path[state[i]]
  BY DEF Unanswered, ToControl, LifeInv, StampsArePaths
<1>2. CASE d.action = "abort"
  <2>1. /\ state' = [state EXCEPT ![i] = "abandoned"]
        /\ stamps' = [stamps EXCEPT ![i] = Path[state[i]] \cup {"abandoned"}]
    BY <1>1, <1>2 DEF ApplyDecision, Visit
  <2>2. state[i] \in DOMAIN Path \ {"none"} /\ state[i] # "resolved"
        /\ state[i] \notin Life!Terminal
    BY <1>1 DEF Path, Life!Terminal
  <2> QED BY <2>1, <2>2 DEF Advances
<1>3. CASE d.action # "abort"
  <2>1. /\ state' = [state EXCEPT ![i] = "returned"]
        /\ stamps' = [stamps EXCEPT ![i] = Path["returned"]]
        /\ Path[state[i]] \subseteq Path["returned"]
    BY <1>1, <1>3 DEF ApplyDecision, Visit, Path, ToControl, LifeInv, LockInv, TypeOK
  <2>2. "returned" \in DOMAIN Path \ {"none"} /\ state[i] \notin Life!Terminal
    BY <1>1 DEF Path, Life!Terminal
  <2> QED BY <2>1, <2>2 DEF Advances
<1> QED BY <1>2, <1>3

\* An advance changes no other record.
LEMMA AdvanceFrame ==
  ASSUME LifeInv, NEW i \in Ids, Advances(i)
  PROVE  \A j \in Ids : j # i => state'[j] = state[j]
  BY DEF LifeInv, LockInv, TypeOK, Advances

\* A race that is settled answers its record and is no longer open.
LEMMA DecideLives ==
  ASSUME LifeInv, NEW p \in Planes, NEW d, Decide(p, d), pc[p] \in {"pausing", "waiting"}
  PROVE  OneAdvances /\ OpenRaceUnanswered'
<1>1. mine[p] \in Ids /\ state[mine[p]] \in Unanswered /\ planeOf[mine[p]] = p
  BY DEF LifeInv, LockInv, TypeOK, CallsOwnTheirRecord, OpenRaceUnanswered, Active
<1>2. Advances(mine[p])
  BY <1>1, DecisionAdvances DEF Decide
<1>3. /\ \A q \in Planes : pc'[q] \in Racing => pc[q] \in Racing
      /\ \A q \in Planes : pc'[q] \in Racing => mine[q] # mine[p]
  BY <1>1 DEF Decide, LifeInv, LockInv, TypeOK, CallsOwnTheirRecord, Racing
<1>4. OpenRaceUnanswered'
  BY <1>1, <1>2, <1>3, AdvanceFrame, RaceKept DEF Decide
<1> QED BY <1>1, <1>2, <1>4 DEF OneAdvances

\* finish() closes the record of a call that is over.
LEMMA CallerLives ==
  ASSUME LifeInv, NEW p \in Planes, CallerStep(p)
  PROVE  OneAdvances /\ OpenRaceUnanswered'
<1>1. /\ pc[p] \in {"returned", "reconciling"}
      /\ EndCall(p, "idle") \/ EndCall(p, "over") \/ Reconcile(p)
  BY CallerMoves DEF LifeInv
<1>2. UNCHANGED mine /\ \A q \in Planes : pc'[q] \in Racing => pc[q] \in Racing /\ q # p
  BY <1>1 DEF EndCall, Reconcile, LifeInv, LockInv, TypeOK, Racing
<1>3. \/ UNCHANGED <<state, stamps>> \/ \E o \in Life!Terminal : Finish(p, o)
  BY DEF CallerStep, RunAborted, DiscoveryResumes, ExceptionHandled, HandbackClean,
         HandbackStops, HandbackThrows, Skip, EntryLost, Execute, Life!Terminal
<1>4. CASE UNCHANGED <<state, stamps>>
  BY <1>2, <1>4, NoRecordMoves
<1>5. ASSUME NEW o \in Life!Terminal, Finish(p, o), state[mine[p]] \notin Life!Terminal
      PROVE  OneAdvances /\ OpenRaceUnanswered'
  <2> DEFINE i == mine[p]
  <2>1. i \in Ids /\ planeOf[i] = p /\ state[i] # "none" /\ state[i] \in Life!States
    BY <1>1 DEF LifeInv, LockInv, TypeOK, CallsOwnTheirRecord
  <2>2. state[i] \in {"raised", "claimed", "in_control", "returned"} /\ stamps[i] = Path[state[i]]
    BY <1>5, <2>1 DEF Life!States, Life!Terminal, LifeInv, StampsArePaths
  <2>3. /\ o \in Life!Allowed[state[i]] /\ state' = [state EXCEPT ![i] = o]
        /\ stamps' = [stamps EXCEPT ![i] = @ \cup {o}]
    BY <1>5 DEF Finish, Visit
  <2>4. Advances(i)
    <3>1. CASE o = "abandoned"
      <4>1. state[i] \in DOMAIN Path \ {"none"} /\ state[i] # "resolved"
        BY <2>2 DEF Path
      <4>2. stamps' = [stamps EXCEPT ![i] = Path[state[i]] \cup {"abandoned"}]
        BY <2>2, <2>3, <3>1
      <4> QED BY <1>5, <2>3, <3>1, <4>1, <4>2 DEF Advances
    <3>2. CASE o = "resolved"
      <4>1. state[i] = "returned"
        BY <2>2, <2>3, <3>2 DEF Life!Allowed
      <4>2. /\ stamps' = [stamps EXCEPT ![i] = Path["resolved"]]
            /\ Path[state[i]] \subseteq Path["resolved"]
            /\ "resolved" \in DOMAIN Path \ {"none"}
        BY <2>2, <2>3, <3>2, <4>1 DEF Path, LifeInv, LockInv, TypeOK
      <4> QED BY <1>5, <2>3, <3>2, <4>2 DEF Advances
    <3> QED BY <1>5, <3>1, <3>2 DEF Life!Terminal
  <2>5. \A q \in Planes : pc'[q] \in Racing => mine[q] # i
    BY <1>2, <2>1 DEF LifeInv, LockInv, TypeOK, CallsOwnTheirRecord, Racing, Active
  <2>6. OpenRaceUnanswered'
    BY <1>2, <2>1, <2>4, <2>5, AdvanceFrame, RaceKept
  <2> QED BY <2>1, <2>4, <2>6 DEF OneAdvances
<1>6. ASSUME NEW o \in Life!Terminal, Finish(p, o), state[mine[p]] \in Life!Terminal
      PROVE  OneAdvances /\ OpenRaceUnanswered'
  BY <1>2, <1>6, NoRecordMoves DEF Finish
<1> QED BY <1>3, <1>4, <1>5, <1>6

\* An answer at the console: claimed on the way, and answered unless it waits.
LEMMA AnswersLive ==
  ASSUME LifeInv, NEW i \in Ids, NEW who, NEW d, slot[i] = "open",
         ClaimedThen(i, who, d), Settle(i, d), UNCHANGED mine
  PROVE  OneAdvances /\ OpenRaceUnanswered'
<1>1. /\ planeOf[i] \in Planes /\ mine[planeOf[i]] = i /\ pc[planeOf[i]] = "waiting"
      /\ state[i] \in Unanswered
  BY DEF LifeInv, LockInv, TypeOK, SlotsBelongToWaits, TimersBelongToCalls, OpenRaceUnanswered
<1>2. CASE OpenSlots = {i}
  BY <1>2, ClaimLives DEF ClaimedThen, Settle
<1>3. CASE OpenSlots # {i}
  <2>1. pc' = [pc EXCEPT ![planeOf[i]] = "decided"]
    BY <1>3 DEF Settle
  <2>2. Advances(i)
    <3>1. CASE state[i] = "raised"
      <4>1. /\ stamps[i] = Path["raised"] /\ state[i] \notin Life!Terminal
            /\ Path["raised"] \cup ToControl["raised"] = Path["in_control"]
        BY <3>1 DEF LifeInv, StampsArePaths, Path, ToControl, Life!Terminal
      <4>2. CASE d.action = "abort"
        <5>1. /\ state' = [state EXCEPT ![i] = "abandoned"]
              /\ stamps' = [stamps EXCEPT ![i] = Path["in_control"] \cup {"abandoned"}]
          BY <1>3, <3>1, <4>1, <4>2 DEF ClaimedThen, Visit
        <5>2. /\ "in_control" \in DOMAIN Path \ {"none"} /\ "in_control" # "resolved"
              /\ Path["raised"] \subseteq Path["in_control"]
          BY DEF Path
        <5> QED BY <3>1, <4>1, <5>1, <5>2 DEF Advances
      <4>3. CASE d.action # "abort"
        <5>1. /\ "returned" \in DOMAIN Path \ {"none"} /\ Path["raised"] \subseteq Path["returned"]
              /\ Path["returned"] = Path["in_control"] \cup {"returned"}
          BY DEF Path
        <5>2. /\ state' = [state EXCEPT ![i] = "returned"]
              /\ stamps' = [stamps EXCEPT ![i] = Path["returned"]]
          BY <1>3, <3>1, <4>1, <4>3, <5>1 DEF ClaimedThen, Visit
        <5> QED BY <3>1, <4>1, <5>1, <5>2 DEF Advances
      <4> QED BY <4>2, <4>3
    <3>2. CASE state[i] # "raised"
      BY <1>1, <1>3, <3>2, DecisionAdvances DEF ClaimedThen
    <3> QED BY <3>1, <3>2
  <2>3. \A q \in Planes : pc'[q] \in Racing => pc[q] \in Racing /\ mine[q] # i
    BY <1>1, <2>1 DEF LifeInv, LockInv, TypeOK, CallsOwnTheirRecord, Racing, Active
  <2>4. OpenRaceUnanswered'
    BY <2>2, <2>3, AdvanceFrame, RaceKept
  <2> QED BY <2>2, <2>4 DEF OneAdvances
<1> QED BY <1>2, <1>3

\* A claim by a script moves the record along its path.
LEMMA ScriptClaimLives ==
  ASSUME LifeInv, NEW p \in Planes, ScriptClaims(p)
  PROVE  OneAdvances /\ OpenRaceUnanswered'
<1> DEFINE i == mine[p]
<1>1. i \in Ids /\ state[i] = "raised" /\ stamps[i] = Path["raised"]
  BY DEF ScriptClaims, LifeInv, LockInv, TypeOK, CallsOwnTheirRecord, StampsArePaths, Active
<1>2. /\ Path["raised"] \cup {"claimed"} = Path["claimed"] /\ Path["raised"] \subseteq Path["claimed"]
      /\ "claimed" \in DOMAIN Path \ {"none"} /\ state[i] \notin Life!Terminal
  BY <1>1 DEF Path, Life!Terminal
<1>3. /\ state' = [state EXCEPT ![i] = "claimed"] /\ stamps' = [stamps EXCEPT ![i] = Path["claimed"]]
  BY <1>1, <1>2 DEF ScriptClaims, Visit
<1>4. Advances(i)
  BY <1>1, <1>2, <1>3 DEF Advances
<1>5. OpenRaceUnanswered'
  BY <1>1, <1>3, RaceKept DEF ScriptClaims, calls, LifeInv, LockInv, TypeOK, Unanswered, ToControl
<1> QED BY <1>1, <1>4, <1>5 DEF OneAdvances

\* Every step keeps the records on their paths.
LEMMA LifeStep ==
  ASSUME LifeInv, [Next]_vars
  PROVE  OneAdvances /\ OpenRaceUnanswered'
<1>1. ASSUME NEW p \in Planes, NEW i \in Ids, NEW k \in Kinds, Raise(p, i, k)
      PROVE  OneAdvances /\ OpenRaceUnanswered'
  BY <1>1, EscalateLives DEF Raise
<1>2. ASSUME NEW p \in Planes, PlaneStep(p)
      PROVE  OneAdvances /\ OpenRaceUnanswered'
  <2>1. CASE CaptureBefore(p) \/ CaptureFails(p) \/ OpenConsole(p) \/ StartScript(p)
             \/ CaptureAfter(p) \/ Leave(p)
    <3>1. UNCHANGED <<state, stamps, mine>>
      BY <2>1 DEF CaptureBefore, CaptureFails, OpenConsole, StartScript, CaptureAfter, Leave,
                  Throw, records
    <3>2. \A q \in Planes : pc'[q] \in Racing => pc[q] \in Racing
      BY <2>1 DEF CaptureBefore, CaptureFails, OpenConsole, StartScript, CaptureAfter, Leave,
                  Throw, LifeInv, LockInv, TypeOK, Racing
    <3> QED BY <3>1, <3>2, NoRecordMoves
  <2>2. CASE WaitTooLate(p)
    BY <2>2, DecideLives DEF WaitTooLate
  <2>3. CASE CallerStep(p)
    BY <2>3, CallerLives
  <2>4. ASSUME NEW i \in Ids, NEW k \in Kinds, HandbackEscalates(p, i, k)
        PROVE  OneAdvances /\ OpenRaceUnanswered'
    BY <2>4, EscalateLives DEF HandbackEscalates
  <2> QED
    BY <1>2, <2>1, <2>2, <2>3, <2>4 DEF PlaneStep, CallerStep
<1>3. ASSUME NEW p \in Planes, ScriptStep(p)
      PROVE  OneAdvances /\ OpenRaceUnanswered'
  <2>1. CASE ScriptClaims(p)
    BY <2>1, ScriptClaimLives
  <2>2. CASE ScriptTakesControl(p)
    <3>1. mine[p] \in Ids
      BY <2>2 DEF ScriptTakesControl, LifeInv, LockInv, TypeOK, CallsOwnTheirRecord, Active
    <3> QED BY <2>2, <3>1, ClaimLives DEF ScriptTakesControl, calls
  <2>3. ASSUME NEW raw \in RawAnswers, ScriptReturns(p, raw)
        PROVE  OneAdvances /\ OpenRaceUnanswered'
    BY <2>3, DecideLives DEF ScriptReturns
  <2>4. CASE ScriptThrows(p)
    BY <2>4, NoRecordMoves DEF ScriptThrows, Throw, records, LifeInv, LockInv, TypeOK, Racing
  <2> QED BY <1>3, <2>1, <2>2, <2>3, <2>4 DEF ScriptStep
<1>4. ASSUME NEW i \in Ids, OperatorStep(i) \/ TimerStep(i)
      PROVE  OneAdvances /\ OpenRaceUnanswered'
  <2>1. ASSUME NEW op \in Operators, PostClaim(i, op)
        PROVE  OneAdvances /\ OpenRaceUnanswered'
    BY <2>1, ClaimLives DEF PostClaim, calls
  <2>2. ASSUME NEW op \in Operators, NEW d \in Dispositions, PostReturn(i, op, d)
        PROVE  OneAdvances /\ OpenRaceUnanswered'
    BY <2>2, AnswersLive DEF PostReturn
  <2>3. CASE AutoResumes(i)
    BY <2>3, AnswersLive DEF AutoResumes
  <2>4. CASE TtlFires(i)
    <3>1. planeOf[i] \in Planes
      BY <2>4 DEF TtlFires, LifeInv, LockInv, TypeOK, TimersBelongToCalls
    <3> QED BY <2>4, <3>1, DecideLives, NoRecordMoves DEF TtlFires, records, calls
  <2> QED BY <1>4, <2>1, <2>2, <2>3, <2>4 DEF OperatorStep, TimerStep
<1>5. CASE ServerStep
  <2>1. CASE ServerBound
    BY <2>1, NoRecordMoves DEF ServerBound, records, calls
  <2>2. CASE BindFails
    BY <2>2, NoRecordMoves DEF BindFails, records, Racing
  <2>3. ASSUME NEW i \in Ids, ServerClosed(i)
        PROVE  OneAdvances /\ OpenRaceUnanswered'
    <3>1. planeOf[i] \in Planes
      BY <2>3 DEF ServerClosed, LifeInv, LockInv, TypeOK, SlotsBelongToWaits
    <3> QED BY <2>3, <3>1, DecideLives, NoRecordMoves DEF ServerClosed, records, calls
  <2> QED BY <1>5, <2>1, <2>2, <2>3 DEF ServerStep
<1>6. CASE Done \/ UNCHANGED vars
  BY <1>6, NoRecordMoves DEF Done, vars, records, calls
<1> QED
  BY <1>1, <1>2, <1>3, <1>4, <1>5, <1>6 DEF Next

\* Nothing but the step of one record is a step of the lifecycle.
LEMMA LifeInvStep == LifeInv /\ [Next]_vars => LifeInv' /\ [Life!Next]_stamps
<1> SUFFICES ASSUME LifeInv, [Next]_vars PROVE LifeInv' /\ [Life!Next]_stamps
  OBVIOUS
<1>1. LockInv' /\ OneAdvances /\ OpenRaceUnanswered'
  BY LockStep, LifeStep DEF LifeInv
<1>2. CASE UNCHANGED <<state, stamps>>
  BY <1>1, <1>2 DEF LifeInv, StampsArePaths
<1>3. ASSUME NEW i \in Ids, Advances(i)
      PROVE  StampsArePaths' /\ Life!Next
  BY <1>3, AdvanceRefines DEF Life!Next
<1> QED BY <1>1, <1>2, <1>3 DEF LifeInv, OneAdvances

\* No record has a stamp at the start.
LEMMA LifeInit == Init => LifeInv /\ Life!Init
<1> SUFFICES ASSUME Init PROVE LifeInv /\ Life!Init
  OBVIOUS
<1>1. StampsArePaths /\ OpenRaceUnanswered
  BY DEF Init, StampsArePaths, OpenRaceUnanswered, Path
<1> QED BY <1>1, LockInit DEF LifeInv, Init, Life!Init

\* The control plane implements the lifecycle of lifecycle.ts: whatever the
\* operators, scripts and timers do, every record keeps a legal history and never
\* moves again once it is resolved or abandoned.
THEOREM LifecycleRefined == Spec => Lifecycle
<1>1. Spec => Life!Init
  BY LifeInit DEF Spec
<1>2. Spec => []LifeInv
  BY LifeInit, LifeInvStep, PTL DEF Spec
<1>3. LifeInv /\ [Next]_vars => [Life!Next]_stamps
  BY LifeInvStep
<1>4. Spec => [][Life!Next]_stamps
  BY <1>2, <1>3, PTL DEF Spec
<1> QED BY <1>1, <1>4, PTL DEF Lifecycle, Life!Spec

\* The persisted state is one the record has stamped, and the final one once a
\* final one is stamped: what the console and finish() read (state) and what
\* the evidence shows (the stamps) tell the same story.
StateIsLastStamp ==
  \A i \in Ids :
    /\ state[i] = "none" <=> stamps[i] = {}
    /\ state[i] # "none" => state[i] \in stamps[i]
    /\ stamps[i] \cap Life!Terminal # {} => state[i] \in Life!Terminal

\* The persisted state and the stamps tell the same story.
THEOREM StateStamped == Spec => []StateIsLastStamp
<1>1. LifeInv => StateIsLastStamp
  <2> SUFFICES ASSUME LifeInv, NEW i \in Ids
               PROVE  /\ state[i] = "none" <=> stamps[i] = {}
                      /\ state[i] # "none" => state[i] \in stamps[i]
                      /\ stamps[i] \cap Life!Terminal # {} => state[i] \in Life!Terminal
    BY DEF StateIsLastStamp
  <2>1. CASE state[i] = "abandoned"
    BY <2>1 DEF LifeInv, StampsArePaths, Life!Terminal
  <2>2. CASE state[i] # "abandoned"
    <3>1. state[i] \in {"none", "raised", "claimed", "in_control", "returned", "resolved"}
          /\ stamps[i] = Path[state[i]]
      BY <2>2 DEF LifeInv, LockInv, TypeOK, StampsArePaths, Life!States
    <3> QED BY <3>1 DEF Path, Life!Terminal
  <2> QED BY <2>1, <2>2
<1>2. Spec => []LifeInv
  BY LifeInit, LifeInvStep, PTL DEF Spec
<1> QED BY <1>1, <1>2, PTL

-------------------------------------------------------------------------------
(* The handback: the record agrees with the decision the caller acts on, and a *)
(* risky step is run only for a record that was returned as not done. *)

Settled == {"decided", "leaving", "returned"}

\* RecordAgreesWithDecision, of one plane.
Agrees(p) ==
  IF decision[p].action = "abort"
  THEN state[mine[p]] = "abandoned"
  ELSE state[mine[p]] = "returned" /\ disposition[mine[p]] = decision[p].disposition

\* The record of a handback that a second escalation interrupted: it was returned, and
\* nobody's call is about it any more.
OuterReturned(p) ==
  /\ kind[p] = "risky" => outer[p] = None
  /\ outer[p] # None =>
       planeOf[outer[p]] = p /\ outer[p] # mine[p] /\ state[outer[p]] = "returned"

\* What is true of plane p wherever its run is.
LocalOf(p) ==
  /\ pc[p] \in Settled => Agrees(p)
  /\ OuterReturned(p)
  /\ pc[p] = "reconciling" /\ outer[p] = None => state[mine[p]] = "returned"

\* The answer a risky step was run for cannot change any more: its record is resolved, or
\* returned and no longer the one its plane works on.
Over(i) ==
  /\ disposition[i] = "not_done" /\ planeOf[i] \in Planes
  /\ state[i] = "resolved" \/ (state[i] = "returned" /\ mine[planeOf[i]] # i)

\* The inductive invariant of the handback.
HandInv ==
  /\ LifeInv
  /\ \A p \in Planes : LocalOf(p)
  /\ \A i \in ran : Over(i)


-------------------------------------------------------------------------------
(* What a step may touch. *)

\* No record changes but a fresh one and the one plane p works on, unless that is resolved.
RecordsOfOthersKept(p) ==
  \A j \in Ids : state[j] # "none" /\ (planeOf[j] # p \/ mine[p] # j \/ state[j] = "resolved") =>
    state'[j] = state[j] /\ disposition'[j] = disposition[j]

\* A raised record stays with its plane.
PlanesKept == \A j \in Ids : state[j] # "none" => planeOf'[j] = planeOf[j]

\* A step of plane p.
StepOf(p) ==
  /\ RecordsOfOthersKept(p) /\ PlanesKept
  /\ \A q \in Planes : q # p =>
       /\ pc'[q] = pc[q] /\ mine'[q] = mine[q] /\ decision'[q] = decision[q]
       /\ kind'[q] = kind[q] /\ outer'[q] = outer[q]
  /\ mine'[p] = mine[p] \/ state[mine'[p]] = "none"

\* The records that what is said of a plane speaks of were raised, for that plane.
LEMMA RecordsOfPlane ==
  ASSUME HandInv, NEW p \in Planes
  PROVE  /\ pc[p] \in Settled \cup {"reconciling"} => mine[p] \in Ids
         /\ mine[p] \in Ids => planeOf[mine[p]] = p /\ state[mine[p]] # "none"
         /\ outer[p] # None => outer[p] \in Ids
  BY DEF HandInv, LifeInv, LockInv, TypeOK, CallsOwnTheirRecord, Settled, Active

\* A step of one plane keeps what is said of the others, and of what was run before.
LEMMA StepKeeps ==
  ASSUME HandInv, NEW p \in Planes, StepOf(p), LocalOf(p)',
         \A i \in ran' : i \in ran \/ Over(i)'
  PROVE  /\ \A q \in Planes : LocalOf(q)'
         /\ \A i \in ran' : Over(i)'
<1>1. ASSUME NEW q \in Planes, q # p
      PROVE  LocalOf(q)'
  <2>1. /\ pc'[q] = pc[q] /\ mine'[q] = mine[q] /\ decision'[q] = decision[q]
        /\ kind'[q] = kind[q] /\ outer'[q] = outer[q]
    BY <1>1 DEF StepOf
  <2>2. pc[q] \in Settled \cup {"reconciling"} =>
          state'[mine[q]] = state[mine[q]] /\ disposition'[mine[q]] = disposition[mine[q]]
    BY <1>1, RecordsOfPlane DEF StepOf, RecordsOfOthersKept
  <2>3. outer[q] # None /\ planeOf[outer[q]] = q /\ state[outer[q]] = "returned" =>
          state'[outer[q]] = state[outer[q]] /\ planeOf'[outer[q]] = q
    BY <1>1, RecordsOfPlane DEF StepOf, RecordsOfOthersKept, PlanesKept
  <2>4. LocalOf(q)
    BY DEF HandInv
  <2> QED
    BY <2>1, <2>2, <2>3, <2>4 DEF LocalOf, Agrees, OuterReturned
<1>2. ASSUME NEW i \in ran
      PROVE  Over(i)'
  <2>1. i \in Ids /\ Over(i) /\ state[i] # "none" /\ planeOf'[i] = planeOf[i]
    BY <1>2 DEF HandInv, LifeInv, LockInv, TypeOK, Over, StepOf, PlanesKept
  <2>2. state'[i] = state[i] /\ disposition'[i] = disposition[i]
    BY <2>1 DEF Over, StepOf, RecordsOfOthersKept
  <2>3. mine[planeOf[i]] # i => mine'[planeOf[i]] # i
    BY <2>1 DEF Over, StepOf
  <2> QED BY <2>1, <2>2, <2>3 DEF Over
<1> QED BY <1>1, <1>2

\* A step that moves no record and gets no answer.
LEMMA QuietKeeps ==
  ASSUME HandInv, UNCHANGED <<state, disposition, planeOf, mine, decision, kind, outer, ran>>,
         \A q \in Planes : pc'[q] \in Settled => pc[q] \in Settled,
         \A q \in Planes : pc'[q] = "reconciling" => pc[q] = "reconciling"
  PROVE  /\ \A q \in Planes : LocalOf(q)'
         /\ \A i \in ran' : Over(i)'
  BY DEF HandInv, LocalOf, Agrees, OuterReturned, Over

\* Plane p works on an unanswered record; nothing else moves in this step.
Moves(p) ==
  /\ \A j \in Ids : j # mine[p] => state'[j] = state[j] /\ disposition'[j] = disposition[j]
  /\ \A q \in Planes : q # p => pc'[q] = pc[q] /\ decision'[q] = decision[q]
  /\ UNCHANGED <<planeOf, mine, kind, outer, ran>>

\* While the race is open the call has a record that is not answered.
LEMMA RacesAreUnanswered ==
  ASSUME HandInv, NEW p \in Planes, pc[p] \in {"pausing", "waiting"}
  PROVE  mine[p] \in Ids /\ state[mine[p]] \in Unanswered /\ planeOf[mine[p]] = p
  BY DEF HandInv, LifeInv, LockInv, TypeOK, CallsOwnTheirRecord, OpenRaceUnanswered, Active

\* A claim, or an answer the record agrees with, while the race is open.
LEMMA RaceKeeps ==
  ASSUME HandInv, NEW p \in Planes, pc[p] \in {"pausing", "waiting"}, Moves(p),
         pc'[p] \in {"waiting", "decided"},
         pc'[p] = "decided" => Agrees(p)'
  PROVE  /\ \A q \in Planes : LocalOf(q)'
         /\ \A i \in ran' : Over(i)'
<1>1. mine[p] \in Ids /\ state[mine[p]] \in {"raised", "claimed", "in_control"}
      /\ planeOf[mine[p]] = p
  BY RacesAreUnanswered DEF Unanswered, ToControl
<1>2. StepOf(p)
  BY <1>1 DEF StepOf, Moves, RecordsOfOthersKept, PlanesKept
<1>3. OuterReturned(p)'
  <2>1. OuterReturned(p) /\ (outer[p] # None => outer[p] \in Ids)
    BY RecordsOfPlane DEF HandInv, LocalOf
  <2> QED BY <2>1 DEF OuterReturned, Moves
<1>4. LocalOf(p)'
  BY <1>3 DEF LocalOf, Settled
<1> QED BY <1>2, <1>4, StepKeeps DEF Moves

\* applyDecision() moves the record to where the decision says (control.ts).
LEMMA DecisionAgrees ==
  ASSUME HandInv, NEW p \in Planes, pc[p] \in {"pausing", "waiting"}, NEW d, Decide(p, d),
         UNCHANGED ran
  PROVE  /\ \A q \in Planes : LocalOf(q)'
         /\ \A i \in ran' : Over(i)'
<1>1. mine[p] \in Ids /\ state[mine[p]] \in Unanswered
  BY RacesAreUnanswered
<1>2. /\ state \in [Ids -> Life!States \cup {"none"}]
      /\ disposition \in [Ids -> Dispositions \cup {None}]
      /\ pc \in [Planes -> PCs] /\ decision \in [Planes -> Decisions \cup {None}]
  BY DEF HandInv, LifeInv, LockInv, TypeOK
<1>3. /\ pc'[p] = "decided" /\ decision'[p] = d /\ mine' = mine
      /\ ApplyDecision(mine[p], d)
  BY <1>2 DEF Decide
<1>4. Agrees(p)'
  <2>1. CASE d.action = "abort"
    BY <1>1, <1>2, <1>3, <2>1 DEF ApplyDecision, Visit, Agrees
  <2>2. CASE d.action # "abort"
    BY <1>1, <1>2, <1>3, <2>2 DEF ApplyDecision, Visit, Agrees
  <2> QED BY <2>1, <2>2
<1>5. Moves(p)
  BY <1>1, <1>2 DEF Moves, Decide, ApplyDecision, Visit
<1> QED BY <1>3, <1>4, <1>5, RaceKeeps

\* claim() and takeControl() answer nothing.
LEMMA ClaimAgrees ==
  ASSUME HandInv, NEW p \in Planes, pc[p] = "waiting", NEW i, i = mine[p], NEW who, ClaimAndTake(i, who),
         UNCHANGED <<disposition, planeOf, calls, ran>>
  PROVE  /\ \A q \in Planes : LocalOf(q)'
         /\ \A j \in ran' : Over(j)'
<1>1. i \in Ids /\ state \in [Ids -> Life!States \cup {"none"}]
  BY RacesAreUnanswered DEF HandInv, LifeInv, LockInv, TypeOK
<1>2. Moves(p)
  BY <1>1 DEF Moves, ClaimAndTake, Visit, calls
<1> QED BY <1>2, RaceKeeps DEF calls

\* An open slot that is answered: claimed on the way, and answered unless it waits for the
\* server to close.
LEMMA AnswerAgrees ==
  ASSUME HandInv, NEW i \in Ids, NEW who, NEW d, slot[i] = "open",
         ClaimedThen(i, who, d), Settle(i, d), UNCHANGED <<planeOf, mine, kind, outer, ran>>
  PROVE  /\ \A q \in Planes : LocalOf(q)'
         /\ \A j \in ran' : Over(j)'
<1>1. PICK p \in Planes :
        p = planeOf[i] /\ mine[p] = i /\ pc[p] = "waiting" /\ state[i] \in Unanswered
  BY DEF HandInv, LifeInv, LockInv, TypeOK, SlotsBelongToWaits, TimersBelongToCalls,
         OpenRaceUnanswered
<1>2. /\ state \in [Ids -> Life!States \cup {"none"}]
      /\ disposition \in [Ids -> Dispositions \cup {None}]
      /\ pc \in [Planes -> PCs] /\ decision \in [Planes -> Decisions \cup {None}]
  BY DEF HandInv, LifeInv, LockInv, TypeOK
<1>3. CASE OpenSlots = {i}
  <2>1. ClaimAndTake(i, who) /\ UNCHANGED <<disposition, calls>>
    BY <1>3 DEF ClaimedThen, Settle, calls
  <2> QED BY <1>1, <2>1, ClaimAgrees
<1>4. CASE OpenSlots # {i}
  <2>1. pc' = [pc EXCEPT ![p] = "decided"] /\ decision' = [decision EXCEPT ![p] = d]
    BY <1>1, <1>4 DEF Settle
  <2>2. /\ \A j \in Ids : j # i => state'[j] = state[j] /\ disposition'[j] = disposition[j]
        /\ IF d.action = "abort" THEN state'[i] = "abandoned"
           ELSE state'[i] = "returned" /\ disposition'[i] = d.disposition
    <3>1. CASE state[i] = "raised"
      BY <1>2, <1>4, <3>1 DEF ClaimedThen, Visit
    <3>2. CASE state[i] # "raised"
      <4>1. ApplyDecision(i, d)
        BY <1>4, <3>2 DEF ClaimedThen
      <4> QED BY <1>1, <1>2, <4>1 DEF ApplyDecision, Visit
    <3> QED BY <3>1, <3>2
  <2>3. Moves(p) /\ pc'[p] = "decided" /\ Agrees(p)'
    BY <1>1, <1>2, <2>1, <2>2 DEF Moves, Agrees
  <2> QED BY <1>1, <2>3, RaceKeeps
<1> QED BY <1>3, <1>4

\* Escalating: a fresh record, refused on the spot or raised; the record of the handback that
\* is interrupted was returned.
LEMMA EscalateAgrees ==
  ASSUME HandInv, NEW p \in Planes, NEW i \in Ids, NEW k, NEW from, Escalate(p, i, k, from),
         k = "risky" => from = None,
         from # None => from = mine[p] /\ mine[p] \in Ids /\ state[mine[p]] = "returned"
  PROVE  /\ \A q \in Planes : LocalOf(q)'
         /\ \A j \in ran' : Over(j)'
<1>1. /\ state \in [Ids -> Life!States \cup {"none"}] /\ planeOf \in [Ids -> Planes \cup {None}]
      /\ mine \in [Planes -> Ids \cup {None}] /\ kind \in [Planes -> Kinds \cup {None}]
      /\ outer \in [Planes -> Ids \cup {None}]
      /\ pc \in [Planes -> PCs] /\ decision \in [Planes -> Decisions \cup {None}]
  BY DEF HandInv, LifeInv, LockInv, TypeOK
<1>2. state[i] = "none"
  BY DEF Escalate, Fresh
<1>3. /\ mine' = [mine EXCEPT ![p] = i] /\ planeOf' = [planeOf EXCEPT ![i] = p]
      /\ kind' = [kind EXCEPT ![p] = k] /\ outer' = [outer EXCEPT ![p] = from]
      /\ UNCHANGED <<disposition, ran>>
  BY DEF Escalate
<1>4. /\ \A j \in Ids : j # i => state'[j] = state[j]
      /\ \A q \in Planes : q # p => pc'[q] = pc[q] /\ decision'[q] = decision[q]
      /\ \/ /\ pc'[p] = "returned" /\ state'[i] = "abandoned"
            /\ decision'[p] = HeldDecision
         \/ pc'[p] = "capturing"
  BY <1>1 DEF Escalate, Visit
<1>5. StepOf(p)
  BY <1>1, <1>2, <1>3, <1>4 DEF StepOf, RecordsOfOthersKept, PlanesKept
<1>6. OuterReturned(p)'
  <2>1. kind'[p] = k /\ outer'[p] = from /\ mine'[p] = i
    BY <1>1, <1>3
  <2>2. CASE from # None
    <3>1. mine[p] # i /\ planeOf[mine[p]] = p
      BY <1>2, <2>2, RecordsOfPlane
    <3>2. planeOf'[mine[p]] = p /\ state'[mine[p]] = "returned"
      BY <1>1, <1>3, <1>4, <2>2, <3>1
    <3> QED BY <2>1, <2>2, <3>1, <3>2 DEF OuterReturned
  <2>3. CASE from = None
    BY <2>1, <2>3 DEF OuterReturned
  <2> QED BY <2>2, <2>3
<1>7. pc'[p] \in Settled => Agrees(p)'
  BY <1>1, <1>3, <1>4 DEF Agrees, HeldDecision, Settled
<1>8. pc'[p] # "reconciling"
  BY <1>4
<1> QED BY <1>3, <1>5, <1>6, <1>7, <1>8, StepKeeps DEF LocalOf

-------------------------------------------------------------------------------
(* The caller. *)

\* finish() touches the record of its call, and only if that is not closed.
LEMMA FinishFrame ==
  ASSUME HandInv, NEW p \in Planes, NEW o, Finish(p, o) \/ UNCHANGED <<state, stamps>>
  PROVE  \A j \in Ids : j # mine[p] \/ state[j] = "resolved" => state'[j] = state[j]
  BY DEF Finish, Visit, HandInv, LifeInv, LockInv, TypeOK, Life!Terminal

\* A run that goes on or ends forgets the call.
LEMMA EndCallKeeps ==
  ASSUME HandInv, NEW p \in Planes, NEW o, Finish(p, o) \/ UNCHANGED <<state, stamps>>,
         NEW l \in {"idle", "over"}, EndCall(p, l),
         \A i \in ran' : i \in ran \/ Over(i)'
  PROVE  /\ \A q \in Planes : LocalOf(q)'
         /\ \A i \in ran' : Over(i)'
<1>1. /\ pc' = [pc EXCEPT ![p] = l] /\ UNCHANGED <<disposition, planeOf, mine>>
      /\ decision' = [decision EXCEPT ![p] = None] /\ kind' = [kind EXCEPT ![p] = None]
      /\ outer' = [outer EXCEPT ![p] = None]
  BY DEF EndCall
<1>2. /\ pc \in [Planes -> PCs] /\ kind \in [Planes -> Kinds \cup {None}]
      /\ outer \in [Planes -> Ids \cup {None}]
  BY DEF HandInv, LifeInv, LockInv, TypeOK
<1>3. StepOf(p)
  <2>1. \A j \in Ids : planeOf[j] # p => j # mine[p]
    BY RecordsOfPlane
  <2> QED BY <1>1, <2>1, FinishFrame DEF StepOf, RecordsOfOthersKept, PlanesKept
<1>4. kind'[p] = None /\ outer'[p] = None /\ pc'[p] = l
  BY <1>1, <1>2
<1>5. LocalOf(p)'
  BY <1>4 DEF LocalOf, OuterReturned, Settled
<1> QED BY <1>3, <1>5, StepKeeps

\* A handback whose record was returned, or that goes on after a second escalation, is reconciled.
LEMMA ReconcileKeeps ==
  ASSUME HandInv, NEW p \in Planes, NEW o, Finish(p, o) \/ UNCHANGED <<state, stamps>>,
         Reconcile(p), UNCHANGED ran,
         outer[p] = None => UNCHANGED <<state, stamps>> /\ state[mine[p]] = "returned"
  PROVE  /\ \A q \in Planes : LocalOf(q)'
         /\ \A i \in ran' : Over(i)'
<1>1. /\ pc' = [pc EXCEPT ![p] = "reconciling"]
      /\ UNCHANGED <<disposition, planeOf, mine, decision, kind, outer>>
  BY DEF Reconcile
<1>2. pc'[p] = "reconciling"
  BY <1>1 DEF HandInv, LifeInv, LockInv, TypeOK
<1>3. StepOf(p)
  <2>1. \A j \in Ids : planeOf[j] # p => j # mine[p]
    BY RecordsOfPlane
  <2> QED BY <1>1, <2>1, FinishFrame DEF StepOf, RecordsOfOthersKept, PlanesKept
<1>4. OuterReturned(p)'
  <2>1. OuterReturned(p) /\ (outer[p] # None => outer[p] \in Ids)
    BY RecordsOfPlane DEF HandInv, LocalOf
  <2> QED BY <1>1, <2>1, FinishFrame DEF OuterReturned
<1>5. LocalOf(p)'
  BY <1>1, <1>2, <1>4 DEF LocalOf, Settled
<1> QED BY <1>3, <1>5, StepKeeps

\* The run lets the step be done: the record it goes by was returned as not done, and with
\* this step it is over.
LEMMA ExecuteKeeps ==
  ASSUME HandInv, NEW p \in Planes, Execute(p)
  PROVE  /\ \A q \in Planes : LocalOf(q)'
         /\ \A i \in ran' : Over(i)'
<1>1. /\ pc[p] = "reconciling" /\ disposition[Risky(p)] = "not_done"
      /\ Finish(p, "resolved") /\ ran' = ran \cup {Risky(p)} /\ EndCall(p, "idle")
  BY DEF Execute
<1>2. LocalOf(p) /\ mine[p] \in Ids /\ planeOf[mine[p]] = p /\ UNCHANGED <<disposition, planeOf, mine>>
  BY <1>1, RecordsOfPlane DEF HandInv, EndCall
<1>3. ASSUME NEW r, r = Risky(p)
      PROVE  Over(r)'
  <2>1. CASE outer[p] = None
    <3>1. r = mine[p] /\ state[r] = "returned"
      BY <1>1, <1>2, <1>3, <2>1 DEF Risky, LocalOf
    <3>2. state'[r] = "resolved"
      BY <1>1, <1>2, <3>1 DEF Finish, Visit, Life!Terminal, HandInv, LifeInv, LockInv, TypeOK
    <3> QED BY <1>1, <1>2, <1>3, <3>1, <3>2 DEF Over
  <2>2. CASE outer[p] # None
    <3>1. /\ r = outer[p] /\ r \in Ids /\ planeOf[r] = p
          /\ r # mine[p] /\ state[r] = "returned"
      BY <1>2, <1>3, <2>2, RecordsOfPlane DEF Risky, LocalOf, OuterReturned
    <3>2. state'[r] = "returned"
      BY <1>1, <3>1, FinishFrame
    <3> QED BY <1>1, <1>2, <1>3, <3>1, <3>2 DEF Over
  <2> QED BY <2>1, <2>2
<1> QED BY <1>1, <1>3, EndCallKeeps

\* What the caller does with a decision.
LEMMA CallerAgrees ==
  ASSUME HandInv, NEW p \in Planes, CallerStep(p)
  PROVE  /\ \A q \in Planes : LocalOf(q)'
         /\ \A i \in ran' : Over(i)'
<1>1. CASE RunAborted(p)
  BY <1>1, EndCallKeeps DEF RunAborted
<1>2. CASE DiscoveryResumes(p)
  BY <1>2, EndCallKeeps DEF DiscoveryResumes
<1>3. CASE ExceptionHandled(p)
  <2>1. Finish(p, "resolved") /\ UNCHANGED ran
    BY <1>3 DEF ExceptionHandled
  <2>2. CASE EndCall(p, "over") \/ EndCall(p, "idle")
    BY <2>1, <2>2, EndCallKeeps
  <2>3. CASE outer[p] # None /\ Reconcile(p)
    BY <2>1, <2>3, ReconcileKeeps
  <2> QED BY <1>3, <2>2, <2>3 DEF ExceptionHandled
<1>4. CASE HandbackClean(p)
  <2>1. state[mine[p]] = "returned"
    BY <1>4 DEF HandbackClean, HandedBack, HandInv, LocalOf, Agrees, Settled
  <2> QED BY <1>4, <2>1, ReconcileKeeps DEF HandbackClean
<1>5. CASE HandbackStops(p)
  BY <1>5, EndCallKeeps DEF HandbackStops
<1>6. CASE HandbackThrows(p)
  BY <1>6, EndCallKeeps DEF HandbackThrows
<1>7. CASE Skip(p)
  BY <1>7, EndCallKeeps DEF Skip
<1>8. CASE EntryLost(p)
  BY <1>8, EndCallKeeps DEF EntryLost
<1>9. CASE Execute(p)
  BY <1>9, ExecuteKeeps
<1> QED BY <1>1, <1>2, <1>3, <1>4, <1>5, <1>6, <1>7, <1>8, <1>9 DEF CallerStep

-------------------------------------------------------------------------------
(* Every step. *)

Kept == /\ \A q \in Planes : LocalOf(q)'
        /\ \A i \in ran' : Over(i)'

LEMMA HandStep ==
  ASSUME HandInv, [Next]_vars
  PROVE  Kept
<1> USE DEF Kept
<1>1. ASSUME NEW p \in Planes, NEW i \in Ids, NEW k \in Kinds, Raise(p, i, k)
      PROVE  Kept
  BY <1>1, EscalateAgrees DEF Raise
<1>2. ASSUME NEW p \in Planes, PlaneStep(p)
      PROVE  Kept
  <2>1. CASE CaptureBefore(p) \/ CaptureFails(p) \/ OpenConsole(p) \/ StartScript(p)
             \/ CaptureAfter(p) \/ Leave(p)
    <3>1. UNCHANGED <<state, disposition, planeOf, mine, decision, kind, outer, ran>>
      BY <2>1 DEF CaptureBefore, CaptureFails, OpenConsole, StartScript, CaptureAfter, Leave,
                  Throw, records
    <3>2. \A q \in Planes : /\ pc'[q] \in Settled => pc[q] \in Settled
                            /\ pc'[q] = "reconciling" => pc[q] = "reconciling"
      BY <2>1 DEF CaptureBefore, CaptureFails, OpenConsole, StartScript, CaptureAfter, Leave,
                  Throw, HandInv, LifeInv, LockInv, TypeOK, Settled
    <3> QED BY <3>1, <3>2, QuietKeeps
  <2>2. CASE WaitTooLate(p)
    BY <2>2, DecisionAgrees DEF WaitTooLate
  <2>3. CASE CallerStep(p)
    BY <2>3, CallerAgrees
  <2>4. ASSUME NEW i \in Ids, NEW k \in Kinds, HandbackEscalates(p, i, k)
        PROVE  Kept
    <3>1. k # "risky" /\ Escalate(p, i, k, mine[p])
      BY <2>4 DEF HandbackEscalates
    <3>2. state[mine[p]] = "returned" /\ mine[p] \in Ids
      BY <2>4, RecordsOfPlane DEF HandbackEscalates, HandedBack, HandInv, LocalOf, Agrees, Settled
    <3> QED BY <3>1, <3>2, EscalateAgrees
  <2> QED
    BY <1>2, <2>1, <2>2, <2>3, <2>4 DEF PlaneStep, CallerStep
<1>3. ASSUME NEW p \in Planes, ScriptStep(p)
      PROVE  Kept
  <2>1. CASE ScriptClaims(p)
    <3>1. /\ pc[p] = "waiting" /\ Visit(mine[p], {"claimed"}, "claimed")
          /\ UNCHANGED <<disposition, planeOf, calls, ran>>
      BY <2>1 DEF ScriptClaims
    <3>2. Moves(p)
      BY <3>1, RacesAreUnanswered DEF Moves, Visit, calls, HandInv, LifeInv, LockInv, TypeOK
    <3> QED BY <3>1, <3>2, RaceKeeps DEF calls
  <2>2. CASE ScriptTakesControl(p)
    BY <2>2, ClaimAgrees DEF ScriptTakesControl
  <2>3. ASSUME NEW raw \in RawAnswers, ScriptReturns(p, raw)
        PROVE  Kept
    BY <2>3, DecisionAgrees DEF ScriptReturns
  <2>4. CASE ScriptThrows(p)
    BY <2>4, QuietKeeps DEF ScriptThrows, Throw, records, HandInv, LifeInv, LockInv, TypeOK, Settled
  <2> QED BY <1>3, <2>1, <2>2, <2>3, <2>4 DEF ScriptStep
<1>4. ASSUME NEW i \in Ids, OperatorStep(i) \/ TimerStep(i)
      PROVE  Kept
  <2>1. ASSUME NEW op \in Operators, PostClaim(i, op)
        PROVE  Kept
    <3>1. planeOf[i] \in Planes /\ mine[planeOf[i]] = i /\ pc[planeOf[i]] = "waiting"
      BY <2>1 DEF PostClaim, HandInv, LifeInv, LockInv, TypeOK, SlotsBelongToWaits, TimersBelongToCalls
    <3> QED BY <2>1, <3>1, ClaimAgrees DEF PostClaim
  <2>2. ASSUME NEW op \in Operators, NEW d \in Dispositions, PostReturn(i, op, d)
        PROVE  Kept
    BY <2>2, AnswerAgrees DEF PostReturn
  <2>3. CASE AutoResumes(i)
    BY <2>3, AnswerAgrees DEF AutoResumes
  <2>4. CASE TtlFires(i)
    <3>1. planeOf[i] \in Planes
      BY <2>4 DEF TtlFires, HandInv, LifeInv, LockInv, TypeOK, TimersBelongToCalls
    <3> QED BY <2>4, <3>1, DecisionAgrees, QuietKeeps DEF TtlFires, records, calls
  <2> QED BY <1>4, <2>1, <2>2, <2>3, <2>4 DEF OperatorStep, TimerStep
<1>5. CASE ServerStep
  <2>1. CASE ServerBound
    BY <2>1, QuietKeeps DEF ServerBound, records, calls
  <2>2. CASE BindFails
    BY <2>2, QuietKeeps DEF BindFails, records, Settled
  <2>3. ASSUME NEW i \in Ids, ServerClosed(i)
        PROVE  Kept
    <3>1. planeOf[i] \in Planes
      BY <2>3 DEF ServerClosed, HandInv, LifeInv, LockInv, TypeOK, SlotsBelongToWaits
    <3> QED BY <2>3, <3>1, DecisionAgrees, QuietKeeps DEF ServerClosed, records, calls
  <2> QED BY <1>5, <2>1, <2>2, <2>3 DEF ServerStep
<1>6. CASE Done \/ UNCHANGED vars
  BY <1>6, QuietKeeps DEF Done, vars, records, calls
<1> QED
  BY <1>1, <1>2, <1>3, <1>4, <1>5, <1>6 DEF Next

LEMMA HandInvStep == HandInv /\ [Next]_vars => HandInv'
  BY HandStep, LifeInvStep DEF HandInv, Kept

\* No run has escalated at the start.
LEMMA HandInit == Init => HandInv
<1> SUFFICES ASSUME Init PROVE HandInv
  OBVIOUS
<1>1. LifeInv
  BY LifeInit
<1>2. \A p \in Planes : LocalOf(p)
  BY DEF Init, LocalOf, OuterReturned, Settled
<1> QED BY <1>1, <1>2 DEF Init, HandInv

LEMMA Handback == Spec => []HandInv
  BY HandInit, HandInvStep, PTL DEF Spec

\* Whoever wins the race between the operator, the script, the timer and the closing server,
\* the record says what the caller acts on, so finish() never asks for a transition that
\* lifecycle.ts refuses.
THEOREM RecordTellsDecision == Spec => []RecordAgreesWithDecision
<1>1. HandInv => RecordAgreesWithDecision
  BY DEF HandInv, LocalOf, Agrees, Settled, RecordAgreesWithDecision
<1> QED BY <1>1, Handback, PTL

\* A risky step is let run only for a record that was returned as not done and that neither
\* the timer nor an abort ever ends, also when a second escalation interrupts the handback.
THEOREM RunWhenHandedBack == Spec => []RunsOnlyWhenHandedBack
<1>1. ASSUME HandInv, NEW i \in ran
      PROVE  /\ "returned" \in stamps[i] /\ "abandoned" \notin stamps[i]
             /\ disposition[i] = "not_done"
  <2>1. i \in Ids /\ Over(i) /\ StampsArePaths
    BY <1>1 DEF HandInv, LifeInv, LockInv, TypeOK
  <2>2. state[i] \in {"returned", "resolved"} /\ stamps[i] = Path[state[i]]
    BY <2>1 DEF Over, StampsArePaths
  <2> QED BY <2>1, <2>2 DEF Over, Path
<1>2. HandInv => RunsOnlyWhenHandedBack
  BY <1>1 DEF RunsOnlyWhenHandedBack
<1> QED BY <1>2, Handback, PTL

-------------------------------------------------------------------------------
(* The console: at most one open request is held, and the operator on record *)
(* stays on record. *)

\* A request at the console is raised, and nothing else, until its slot opens: nobody can
\* claim it before an operator sees it.
NewAreRaised ==
  /\ \A p \in Planes \ Scripted : pc[p] \in {"capturing", "pausing"} => state[mine[p]] = "raised"
  /\ \A i \in Ids : slot[i] = "binding" /\ signal[i] = "armed" => state[i] = "raised"

\* A request that nobody has claimed has no operator.
RaisedUnnamed == \A i \in Ids : state[i] \in {"none", "raised"} => operatorId[i] = None

\* The inductive invariant of the console.
ConsoleInv == LifeInv /\ NewAreRaised /\ RaisedUnnamed /\ OneHolderAtConsole

-------------------------------------------------------------------------------
(* What a step may do to the requests and the slots. *)

\* OperatorIsKept, of one step.
NamesKept ==
  \A i \in Ids : operatorId[i] # None /\ operatorId'[i] # operatorId[i]
    => state'[i] = "abandoned" /\ state[i] # "abandoned"

Good == NewAreRaised' /\ RaisedUnnamed' /\ OneHolderAtConsole' /\ NamesKept

Early == {"capturing", "pausing"}

\* A step that moves no record: a slot opens only for a request that is just raised.
LEMMA QuietIsGood ==
  ASSUME ConsoleInv, UNCHANGED <<state, operatorId, mine>>,
         \A q \in Planes : pc'[q] \in Early => pc[q] \in Early,
         \A i \in Ids : slot'[i] = "binding" /\ signal'[i] = "armed" =>
           (slot[i] = "binding" /\ signal[i] = "armed") \/ state[i] = "raised",
         \A i \in Ids : slot'[i] = "open" => slot[i] = "open" \/ state[i] = "raised"
  PROVE  Good
<1>1. NewAreRaised' /\ RaisedUnnamed' /\ NamesKept
  BY DEF ConsoleInv, NewAreRaised, RaisedUnnamed, NamesKept, Early
<1>2. OneHolderAtConsole'
  BY DEF ConsoleInv, OneHolderAtConsole, OpenSlots, Holding
<1> QED BY <1>1, <1>2 DEF Good

\* A step that moves record k on from where it was raised.
LEMMA MoveIsGood ==
  ASSUME ConsoleInv, NEW k \in Ids,
         \A j \in Ids : j # k => state'[j] = state[j] /\ operatorId'[j] = operatorId[j],
         UNCHANGED mine,
         \A q \in Planes : pc'[q] \in Early => pc[q] \in Early /\ (mine[q] # k \/ q \in Scripted),
         \A j \in Ids : slot'[j] = "binding" /\ signal'[j] = "armed" =>
           slot[j] = "binding" /\ signal[j] = "armed" /\ j # k,
         \A j \in Ids : slot'[j] = "open" => slot[j] = "open",
         state'[k] \notin {"none", "raised"},
         slot'[k] = "open" /\ state'[k] \in Holding =>
           state[k] \in Holding \/ \A j \in OpenSlots : state[j] \notin Holding,
         operatorId[k] # None /\ operatorId'[k] # operatorId[k]
           => state'[k] = "abandoned" /\ state[k] # "abandoned"
  PROVE  Good
<1>1. NewAreRaised'
  <2>1. \A q \in Planes : pc[q] \in Early => mine[q] \in Ids
    BY DEF ConsoleInv, LifeInv, LockInv, TypeOK, CallsOwnTheirRecord, Early, Active
  <2> QED BY <2>1 DEF ConsoleInv, NewAreRaised, Early
<1>2. RaisedUnnamed' /\ NamesKept
  BY DEF ConsoleInv, RaisedUnnamed, NamesKept
<1>3. OneHolderAtConsole'
  BY DEF ConsoleInv, OneHolderAtConsole, OpenSlots
<1> QED BY <1>1, <1>2, <1>3 DEF Good

\* The record of a call belongs to its plane alone.
LEMMA RecordOfCall ==
  ASSUME ConsoleInv, NEW p \in Planes, pc[p] \in Active \cup {"returned", "reconciling"}
  PROVE  /\ mine[p] \in Ids /\ planeOf[mine[p]] = p /\ state[mine[p]] # "none"
         /\ \A q \in Planes : q # p => mine[q] # mine[p]
         /\ slot[mine[p]] \in {"binding", "open"} /\ signal[mine[p]] = "armed" => pc[p] = "waiting"
         /\ slot[mine[p]] = "open" => signal[mine[p]] = "armed"
         /\ slot[mine[p]] # "none" => p \notin Scripted
  BY DEF ConsoleInv, LifeInv, LockInv, TypeOK, CallsOwnTheirRecord, SlotsBelongToWaits

\* An open slot is that of a call that waits for it.
LEMMA CallOfSlot ==
  ASSUME ConsoleInv, NEW i \in Ids, slot[i] = "open"
  PROVE  /\ planeOf[i] \in Planes /\ mine[planeOf[i]] = i /\ pc[planeOf[i]] = "waiting"
         /\ state[i] \in Unanswered
  BY DEF ConsoleInv, LifeInv, LockInv, TypeOK, SlotsBelongToWaits, TimersBelongToCalls,
         OpenRaceUnanswered

\* claim() and takeControl() name the operator of an unclaimed record, and no other.
LEMMA ClaimNames ==
  ASSUME ConsoleInv, NEW k \in Ids, NEW who, ClaimAndTake(k, who)
  PROVE  /\ \A j \in Ids : j # k => state'[j] = state[j] /\ operatorId'[j] = operatorId[j]
         /\ state[k] \in Unanswered => state'[k] = "in_control"
         /\ operatorId[k] # None => operatorId'[k] = operatorId[k]
  BY DEF ClaimAndTake, Visit, ConsoleInv, LifeInv, LockInv, TypeOK, RaisedUnnamed

\* applyDecision() keeps the name of whoever holds a record that is returned.
LEMMA DecisionNames ==
  ASSUME ConsoleInv, NEW k \in Ids, NEW d, ApplyDecision(k, d), state[k] \in Unanswered
  PROVE  /\ \A j \in Ids : j # k => state'[j] = state[j] /\ operatorId'[j] = operatorId[j]
         /\ state'[k] \in {"abandoned", "returned"}
         /\ operatorId[k] # None /\ operatorId'[k] # operatorId[k]
              => state'[k] = "abandoned" /\ state[k] # "abandoned"
<1>1. state[k] \in {"raised", "claimed", "in_control"}
  BY DEF Unanswered, ToControl
<1>2. /\ state \in [Ids -> Life!States \cup {"none"}] /\ operatorId \in [Ids -> Who]
      /\ state[k] = "raised" => operatorId[k] = None
  BY DEF ConsoleInv, LifeInv, LockInv, TypeOK, RaisedUnnamed
<1>3. CASE d.action = "abort"
  BY <1>1, <1>2, <1>3 DEF ApplyDecision, Visit
<1>4. CASE d.action # "abort"
  BY <1>1, <1>2, <1>4 DEF ApplyDecision, Visit
<1> QED BY <1>3, <1>4

\* The race is settled.
LEMMA DecideIsGood ==
  ASSUME ConsoleInv, NEW p \in Planes, pc[p] \in {"pausing", "waiting"}, NEW d, Decide(p, d),
         \A j \in Ids : slot'[j] = "binding" /\ signal'[j] = "armed" =>
           slot[j] = "binding" /\ signal[j] = "armed" /\ j # mine[p],
         \A j \in Ids : slot'[j] = "open" => slot[j] = "open"
  PROVE  Good
<1>1. /\ mine[p] \in Ids /\ state[mine[p]] \in Unanswered
      /\ \A q \in Planes : q # p => mine[q] # mine[p]
  BY RecordOfCall DEF ConsoleInv, LifeInv, OpenRaceUnanswered, Active
<1>2. /\ ApplyDecision(mine[p], d) /\ mine' = mine
      /\ \A q \in Planes : pc'[q] \in Early => pc[q] \in Early /\ q # p
  BY DEF Decide, Early, ConsoleInv, LifeInv, LockInv, TypeOK
<1>3. /\ \A j \in Ids : j # mine[p] => state'[j] = state[j] /\ operatorId'[j] = operatorId[j]
      /\ state'[mine[p]] \in {"abandoned", "returned"}
      /\ operatorId[mine[p]] # None /\ operatorId'[mine[p]] # operatorId[mine[p]]
           => state'[mine[p]] = "abandoned" /\ state[mine[p]] # "abandoned"
  BY <1>1, <1>2, DecisionNames
<1> QED BY <1>1, <1>2, <1>3, MoveIsGood DEF Holding

\* A claim while the race is open.
LEMMA ClaimIsGood ==
  ASSUME ConsoleInv, NEW p \in Planes, pc[p] = "waiting", NEW k, k = mine[p], NEW who,
         ClaimAndTake(k, who), UNCHANGED <<pc, mine, slot, signal>>,
         slot[k] # "binding" \/ signal[k] # "armed",
         slot[k] = "open" => state[k] \in Holding \/ \A j \in OpenSlots : state[j] \notin Holding
  PROVE  Good
<1>1. /\ k \in Ids /\ state[k] \in Unanswered
      /\ \A q \in Planes : q # p => mine[q] # k
  BY RecordOfCall DEF ConsoleInv, LifeInv, OpenRaceUnanswered, Active
<1>2. \A q \in Planes : pc[q] \in Early => q # p
  BY DEF Early
<1> QED BY <1>1, <1>2, ClaimNames, MoveIsGood

\* An open slot that is answered is no longer open.
LEMMA AnswerIsGood ==
  ASSUME ConsoleInv, NEW i \in Ids, NEW who, NEW d, slot[i] = "open",
         ClaimedThen(i, who, d), Settle(i, d), UNCHANGED <<mine, signal>>
  PROVE  Good
<1>1. PICK p \in Planes : p = planeOf[i] /\ mine[p] = i /\ pc[p] = "waiting"
  BY CallOfSlot
<1>2. state[i] \in Unanswered /\ \A q \in Planes : q # p => mine[q] # i
  BY <1>1, CallOfSlot, RecordOfCall DEF Active
<1>3. /\ slot'[i] \in {"none", "closing"} /\ \A j \in Ids : j # i => slot'[j] = slot[j]
      /\ \A q \in Planes : pc'[q] \in Early => pc[q] \in Early /\ q # p
  BY <1>1 DEF Settle, Early, ConsoleInv, LifeInv, LockInv, TypeOK
<1>4. /\ \A j \in Ids : j # i => state'[j] = state[j] /\ operatorId'[j] = operatorId[j]
      /\ state'[i] \notin {"none", "raised"}
      /\ operatorId[i] # None /\ operatorId'[i] # operatorId[i]
           => state'[i] = "abandoned" /\ state[i] # "abandoned"
  <2>1. CASE OpenSlots = {i}
    BY <1>2, <2>1, ClaimNames DEF ClaimedThen
  <2>2. CASE OpenSlots # {i} /\ state[i] = "raised"
    BY <2>2 DEF ClaimedThen, Visit, ConsoleInv, LifeInv, LockInv, TypeOK, RaisedUnnamed
  <2>3. CASE OpenSlots # {i} /\ state[i] # "raised"
    <3>1. ApplyDecision(i, d)
      BY <2>3 DEF ClaimedThen
    <3> QED BY <1>2, <3>1, DecisionNames
  <2> QED BY <2>1, <2>2, <2>3
<1> QED BY <1>2, <1>3, <1>4, MoveIsGood

\* Escalating raises a record that nobody holds.
LEMMA EscalateIsGood ==
  ASSUME ConsoleInv, NEW p \in Planes, NEW i \in Ids, NEW k, NEW from, Escalate(p, i, k, from)
  PROVE  Good
<1>1. /\ state[i] = "none" /\ slot[i] = "none" /\ planeOf[i] = None /\ signal[i] = "unset"
  BY DEF Escalate, Fresh, ConsoleInv, LifeInv, LockInv, CallsOwnTheirRecord
<1>2. \A q \in Planes : mine[q] # i
  BY <1>1 DEF ConsoleInv, LifeInv, LockInv, CallsOwnTheirRecord
<1>3. /\ \A j \in Ids : j # i => state'[j] = state[j] /\ signal'[j] = signal[j]
      /\ state'[i] \in {"raised", "abandoned"}
      /\ pc'[p] \in Early => state'[i] = "raised"
      /\ mine'[p] = i /\ \A q \in Planes : q # p => pc'[q] = pc[q] /\ mine'[q] = mine[q]
      /\ UNCHANGED <<operatorId, slot>>
  BY DEF Escalate, Visit, console, Early, ConsoleInv, LifeInv, LockInv, TypeOK
<1>4. NewAreRaised'
  <2>1. \A q \in Planes : pc[q] \in Early => mine[q] \in Ids
    BY DEF ConsoleInv, LifeInv, LockInv, TypeOK, CallsOwnTheirRecord, Early, Active
  <2> QED BY <1>1, <1>2, <1>3, <2>1 DEF ConsoleInv, NewAreRaised, Early
<1>5. RaisedUnnamed' /\ NamesKept
  BY <1>1, <1>3 DEF ConsoleInv, RaisedUnnamed, NamesKept
<1>6. OneHolderAtConsole'
  BY <1>1, <1>3 DEF ConsoleInv, OneHolderAtConsole, OpenSlots
<1> QED BY <1>4, <1>5, <1>6 DEF Good

\* finish() ends a record whose slot is gone.
LEMMA CallerIsGood ==
  ASSUME ConsoleInv, NEW p \in Planes, CallerStep(p)
  PROVE  Good
<1>1. /\ pc[p] \in {"returned", "reconciling"}
      /\ EndCall(p, "idle") \/ EndCall(p, "over") \/ Reconcile(p)
  BY CallerMoves DEF ConsoleInv, LifeInv
<1>2. /\ UNCHANGED <<operatorId, mine, slot, signal>>
      /\ \A q \in Planes : pc'[q] \in Early => pc[q] \in Early /\ q # p
  BY <1>1 DEF EndCall, Reconcile, console, ConsoleInv, LifeInv, LockInv, TypeOK, Early
<1>3. \/ UNCHANGED <<state, stamps>> \/ \E o \in Life!Terminal : Finish(p, o)
  BY DEF CallerStep, RunAborted, DiscoveryResumes, ExceptionHandled, HandbackClean,
         HandbackStops, HandbackThrows, Skip, EntryLost, Execute, Life!Terminal
<1>4. CASE UNCHANGED state
  BY <1>2, <1>4, QuietIsGood
<1>5. ASSUME NEW o \in Life!Terminal, Finish(p, o), state[mine[p]] \notin Life!Terminal
      PROVE  Good
  <2>1. /\ mine[p] \in Ids /\ \A q \in Planes : q # p => mine[q] # mine[p]
        /\ slot[mine[p]] # "open" /\ ~ (slot[mine[p]] = "binding" /\ signal[mine[p]] = "armed")
    BY <1>1, RecordOfCall
  <2>2. /\ \A j \in Ids : j # mine[p] => state'[j] = state[j]
        /\ state'[mine[p]] \in {"resolved", "abandoned"}
    BY <1>5, <2>1 DEF Finish, Visit, Life!Terminal, ConsoleInv, LifeInv, LockInv, TypeOK
  <2> QED BY <1>2, <2>1, <2>2, MoveIsGood
<1>6. ASSUME NEW o \in Life!Terminal, Finish(p, o), state[mine[p]] \in Life!Terminal
      PROVE  Good
  BY <1>4, <1>6 DEF Finish
<1> QED BY <1>3, <1>4, <1>5, <1>6

-------------------------------------------------------------------------------
(* Every step. *)

LEMMA ConsoleStep ==
  ASSUME ConsoleInv, [Next]_vars
  PROVE  Good
<1>1. ASSUME NEW p \in Planes, NEW i \in Ids, NEW k \in Kinds, Raise(p, i, k)
      PROVE  Good
  BY <1>1, EscalateIsGood DEF Raise
<1>2. ASSUME NEW p \in Planes, PlaneStep(p)
      PROVE  Good
  <2>1. CASE CaptureBefore(p) \/ CaptureFails(p) \/ StartScript(p) \/ CaptureAfter(p) \/ Leave(p)
    <3>1. /\ UNCHANGED <<state, operatorId, mine, slot>>
          /\ \A i \in Ids : signal'[i] = "armed" => signal[i] = "armed"
      BY <2>1 DEF CaptureBefore, CaptureFails, StartScript, CaptureAfter, Leave, Throw,
                  ReleaseHold, records, console, ConsoleInv, LifeInv, LockInv, TypeOK
    <3>2. \A q \in Planes : pc'[q] \in Early => pc[q] \in Early
      BY <2>1 DEF CaptureBefore, CaptureFails, StartScript, CaptureAfter, Leave, Throw,
                  ConsoleInv, LifeInv, LockInv, TypeOK, Early
    <3> QED BY <3>1, <3>2, QuietIsGood
  <2>2. CASE OpenConsole(p)
    <3>1. mine[p] \in Ids /\ state[mine[p]] = "raised"
      BY <2>2, RecordOfCall DEF OpenConsole, ConsoleInv, NewAreRaised, Active
    <3>2. /\ UNCHANGED <<state, operatorId, mine>>
          /\ \A q \in Planes : pc'[q] \in Early => pc[q] \in Early
      BY <2>2 DEF OpenConsole, Throw, records, ConsoleInv, LifeInv, LockInv, TypeOK, Early
    <3>3. /\ \A j \in Ids : j # mine[p] => slot'[j] = slot[j]
          /\ \A j \in Ids : signal'[j] = "armed" => signal[j] = "armed"
      BY <2>2, <3>1 DEF OpenConsole, Throw, ReleaseHold, ConsoleInv, LifeInv, LockInv, TypeOK
    <3> QED BY <3>1, <3>2, <3>3, QuietIsGood
  <2>3. CASE WaitTooLate(p)
    <3>1. pc[p] = "pausing" /\ Decide(p, TtlDecision) /\ UNCHANGED <<slot, signal>>
      BY <2>3 DEF WaitTooLate, console
    <3>2. ~ (slot[mine[p]] = "binding" /\ signal[mine[p]] = "armed")
      BY <3>1, RecordOfCall DEF Active
    <3> QED BY <3>1, <3>2, DecideIsGood
  <2>4. CASE CallerStep(p)
    BY <2>4, CallerIsGood
  <2>5. ASSUME NEW i \in Ids, NEW k \in Kinds, HandbackEscalates(p, i, k)
        PROVE  Good
    BY <2>5, EscalateIsGood DEF HandbackEscalates
  <2> QED
    BY <1>2, <2>1, <2>2, <2>3, <2>4, <2>5 DEF PlaneStep, CallerStep
<1>3. ASSUME NEW p \in Planes, ScriptStep(p)
      PROVE  Good
  <2>1. /\ pc[p] = "waiting" /\ p \in Scripted /\ slot' = slot
        /\ \A i \in Ids : signal'[i] = "armed" => signal[i] = "armed"
    BY <1>3 DEF ScriptStep, ScriptClaims, ScriptTakesControl, ScriptReturns, ScriptThrows, Throw,
                ReleaseHold, console, ConsoleInv, LifeInv, LockInv, TypeOK
  <2>2. /\ mine[p] \in Ids /\ slot[mine[p]] = "none"
        /\ \A q \in Planes : q # p => mine[q] # mine[p]
    BY <2>1, RecordOfCall DEF Active
  <2>3. CASE ScriptClaims(p)
    <3>1. /\ Visit(mine[p], {"claimed"}, "claimed") /\ state[mine[p]] = "raised"
          /\ operatorId' = [operatorId EXCEPT ![mine[p]] = Bot]
          /\ UNCHANGED <<pc, mine, signal>>
      BY <2>3 DEF ScriptClaims, calls
    <3>2. /\ \A j \in Ids : j # mine[p] => state'[j] = state[j] /\ operatorId'[j] = operatorId[j]
          /\ state'[mine[p]] = "claimed" /\ operatorId[mine[p]] = None
      BY <2>2, <3>1 DEF Visit, ConsoleInv, LifeInv, LockInv, TypeOK, RaisedUnnamed
    <3> QED BY <2>1, <2>2, <3>1, <3>2, MoveIsGood DEF Early
  <2>4. CASE ScriptTakesControl(p)
    BY <2>1, <2>2, <2>4, ClaimIsGood DEF ScriptTakesControl, calls, console
  <2>5. ASSUME NEW raw \in RawAnswers, ScriptReturns(p, raw)
        PROVE  Good
    BY <2>1, <2>2, <2>5, DecideIsGood DEF ScriptReturns
  <2>6. CASE ScriptThrows(p)
    <3>1. UNCHANGED <<state, operatorId, mine>> /\ \A q \in Planes : pc'[q] \in Early => pc[q] \in Early
      BY <2>6 DEF ScriptThrows, Throw, records, ConsoleInv, LifeInv, LockInv, TypeOK, Early
    <3> QED BY <2>1, <3>1, QuietIsGood
  <2> QED BY <1>3, <2>3, <2>4, <2>5, <2>6 DEF ScriptStep
<1>4. ASSUME NEW i \in Ids, OperatorStep(i) \/ TimerStep(i)
      PROVE  Good
  <2>1. ASSUME NEW op \in Operators, PostClaim(i, op)
        PROVE  Good
    <3>1. PICK p \in Planes : mine[p] = i /\ pc[p] = "waiting"
      BY <2>1, CallOfSlot DEF PostClaim
    <3> QED BY <2>1, <3>1, ClaimIsGood DEF PostClaim, calls, console
  <2>2. ASSUME NEW op \in Operators, NEW d \in Dispositions, PostReturn(i, op, d)
        PROVE  Good
    BY <2>2, AnswerIsGood DEF PostReturn
  <2>3. CASE AutoResumes(i)
    BY <2>3, AnswerIsGood DEF AutoResumes
  <2>4. CASE TtlFires(i)
    <3>1. /\ planeOf[i] \in Planes
          /\ \A j \in Ids : slot'[j] = "open" => slot[j] = "open"
          /\ \A j \in Ids : slot'[j] = "binding" /\ signal'[j] = "armed" =>
                slot[j] = "binding" /\ signal[j] = "armed" /\ j # i
      BY <2>4 DEF TtlFires, ConsoleInv, LifeInv, LockInv, TypeOK, TimersBelongToCalls
    <3>2. CASE pc[planeOf[i]] = "waiting" /\ mine[planeOf[i]] = i
      BY <2>4, <3>1, <3>2, DecideIsGood DEF TtlFires
    <3>3. CASE ~ (pc[planeOf[i]] = "waiting" /\ mine[planeOf[i]] = i)
      BY <2>4, <3>1, <3>3, QuietIsGood DEF TtlFires, records, calls
    <3> QED BY <3>2, <3>3
  <2> QED BY <1>4, <2>1, <2>2, <2>3, <2>4 DEF OperatorStep, TimerStep
<1>5. CASE ServerStep
  <2>1. CASE ServerBound
    <3>1. \A i \in Ids : signal[i] \in {"unset", "armed", "aborted"} /\
                         (slot[i] = "binding" => signal[i] # "unset")
      BY DEF ConsoleInv, LifeInv, LockInv, TypeOK, SlotsBelongToWaits
    <3>2. /\ UNCHANGED <<state, operatorId, mine, pc, signal>>
          /\ \A i \in Ids : slot'[i] # "binding"
          /\ \A i \in Ids : slot'[i] = "open" => slot[i] = "open" \/ (slot[i] = "binding" /\ ~ Aborted(i))
      BY <2>1 DEF ServerBound, records, calls
    <3>3. \A i \in Ids : slot'[i] = "open" => slot[i] = "open" \/ state[i] = "raised"
      BY <3>1, <3>2 DEF Aborted, ConsoleInv, NewAreRaised
    <3> QED BY <3>2, <3>3, QuietIsGood
  <2>2. CASE BindFails
    <3>1. /\ UNCHANGED <<state, operatorId, mine>>
          /\ \A i \in Ids : slot'[i] # "binding" /\ (slot'[i] = "open" => slot[i] = "open")
          /\ \A q \in Planes : pc'[q] \in Early => pc[q] \in Early
      BY <2>2 DEF BindFails, records, Early
    <3> QED BY <3>1, QuietIsGood
  <2>3. ASSUME NEW i \in Ids, ServerClosed(i)
        PROVE  Good
    <3>1. /\ planeOf[i] \in Planes /\ signal' = signal
          /\ \A j \in Ids : slot'[j] = "open" => slot[j] = "open"
          /\ \A j \in Ids : slot'[j] = "binding" => slot[j] = "binding" /\ j # i
      BY <2>3 DEF ServerClosed, ConsoleInv, LifeInv, LockInv, TypeOK, SlotsBelongToWaits
    <3>2. CASE pc[planeOf[i]] = "waiting" /\ mine[planeOf[i]] = i
      BY <2>3, <3>1, <3>2, DecideIsGood DEF ServerClosed
    <3>3. CASE ~ (pc[planeOf[i]] = "waiting" /\ mine[planeOf[i]] = i)
      BY <2>3, <3>1, <3>3, QuietIsGood DEF ServerClosed, records, calls
    <3> QED BY <3>2, <3>3
  <2> QED BY <1>5, <2>1, <2>2, <2>3 DEF ServerStep
<1>6. CASE Done \/ UNCHANGED vars
  BY <1>6, QuietIsGood DEF Done, vars, records, calls, console
<1> QED
  BY <1>1, <1>2, <1>3, <1>4, <1>5, <1>6 DEF Next

LEMMA ConsoleInvStep == ConsoleInv /\ [Next]_vars => ConsoleInv' /\ NamesKept
  BY ConsoleStep, LifeInvStep DEF ConsoleInv, Good

\* No slot is open and no request raised at the start.
LEMMA ConsoleInit == Init => ConsoleInv
<1> SUFFICES ASSUME Init PROVE ConsoleInv
  OBVIOUS
<1>1. LifeInv
  BY LifeInit
<1>2. NewAreRaised /\ RaisedUnnamed /\ OneHolderAtConsole
  BY DEF Init, NewAreRaised, RaisedUnnamed, OneHolderAtConsole, OpenSlots
<1> QED BY <1>1, <1>2 DEF ConsoleInv

\* Among the open requests of the console at most one is held: a slot opens only for a
\* request nobody has claimed, and POST /claim asks for the holder (operator.ts holderOf).
THEOREM OneHolder == Spec => []OneHolderAtConsole
<1>1. ConsoleInv => OneHolderAtConsole
  BY DEF ConsoleInv
<1> QED BY <1>1, ConsoleInit, ConsoleInvStep, PTL DEF Spec

\* Once an operator is on record, another name replaces it only when the request is
\* abandoned (claim() and applyDecision() of control.ts).
THEOREM OperatorStays == Spec => OperatorIsKept
<1>1. ConsoleInv /\ [Next]_vars =>
        [\A i \in Ids : operatorId[i] # None /\ operatorId'[i] # operatorId[i]
           => state'[i] = "abandoned" /\ state[i] # "abandoned"]_vars
  BY ConsoleInvStep DEF NamesKept
<1> QED BY <1>1, ConsoleInit, ConsoleInvStep, PTL DEF Spec, OperatorIsKept
===============================================================================
