----------------------------- MODULE ControlPlane -----------------------------
(***************************************************************************)
(* The human handoff: src/escalation/control.ts (one ControlPlane per run),*)
(* src/escalation/operator.ts (the operator console shared by the process) *)
(* and the callers that act on the answer (src/replay/handoff.ts,          *)
(* src/replay/classifier.ts, src/agent/discover.ts).                       *)
(*                                                                         *)
(* JavaScript runs one callback at a time, so an action is what happens    *)
(* between two awaits that really wait (browser, network, timer); chains   *)
(* of already-settled promises belong to the action that starts them.      *)
(***************************************************************************)
CONSTANTS
  Surfaces,    \* live browser sessions
  Planes,      \* control planes, one per run
  SurfaceOf,   \* the session each plane pauses
  Discovering, \* planes of discovery runs; the others are of replay runs
  Scripted,    \* planes whose waiter is a script; the others use the console
  AutoResume,  \* planes with RELAY_AUTO_RESUME_MS set
  Ids,         \* intervention ids, enough for the run
  Operators,   \* what people type as their name at the console, Blank included
  None

ASSUME SurfaceAssumption == SurfaceOf \in [Planes -> Surfaces]
ASSUME PlaneSubsets ==
  Discovering \subseteq Planes /\ Scripted \subseteq Planes /\ AutoResume \subseteq Planes
ASSUME NoneAssumption == None \notin Ids \cup Operators \cup Planes

VARIABLES
  \* per intervention: the persisted record
  state,        \* "none" before it is raised, then the record's state
  stamps,       \* the states it has passed
  operatorId,   \* who is on record as the operator
  disposition,  \* what the operator said about the step
  planeOf,      \* the plane whose handle the record's console slot uses
  \* per intervention: timer, console slot, answer still on its way
  signal,       \* its AbortController: "unset", "armed", "aborted" (by the timer or at the end)
  slot,         \* "none", "binding", "open", "closing"
  answer,       \* the decision of a slot that waits for the server to close
  \* shared by the process
  server,       \* the console's HTTP server
  held,         \* surfaceHeld: the intervention that holds each session
  owner,        \* who drives each session
  \* per plane: the escalate() call in progress and its caller
  \* (mine is both the id local to the call and the plane's lastIntervention)
  pc, mine, decision, kind, outer,
  ran           \* interventions after which the risky step was let run

records == <<state, stamps, operatorId, disposition, planeOf>>
console == <<slot, answer, server>>
session == <<held, owner>>
calls   == <<pc, mine, decision, kind, outer>>
vars    == <<records, signal, console, session, calls, ran>>

Life == INSTANCE Intervention WITH Ids <- Ids, stamps <- stamps

\* Why the caller escalates: a risky step, an expired session, another state
\* that needs a human, or discovery.
Kinds == {"risky", "expired", "needs_human", "discover"}
Bot     == "ci-bot"
Unknown == "unknown"
Blank   == ""
Who     == Operators \cup {Bot, Unknown, None}

Actions      == {"resume", "abort"}
Dispositions == {"completed_by_human", "not_done", "abort"}
Codes        == {"INTERVENTION_TTL", "SESSION_HELD", "ANSWERED"}
Decisions    == [action : Actions, disposition : Dispositions, by : Who, code : Codes]

\* What a waiter may hand back before normalisation: the disposition may be
\* missing and the older stepCompletedByHuman flag set instead.
RawAnswers == [action : Actions, disposition : Dispositions \cup {None}, completed : BOOLEAN]

NormalizeDecision(raw, by) ==
  IF raw.action = "abort" \/ raw.disposition = "abort"
  THEN [action |-> "abort", disposition |-> "abort", by |-> by, code |-> "ANSWERED"]
  ELSE [action |-> "resume", by |-> by, code |-> "ANSWERED",
        disposition |-> IF raw.disposition = "completed_by_human" \/ raw.completed
                        THEN "completed_by_human" ELSE "not_done"]

\* A slip: the disposition is passed on as the action.
UnparsedAnswer(d, by) ==
  [action |-> d, disposition |-> d, by |-> by, code |-> "ANSWERED"]

\* The answer POST /return makes of a disposition.
ConsoleAnswer(d, by) ==
  [action |-> IF d = "abort" THEN "abort" ELSE "resume",
   disposition |-> d, by |-> by, code |-> "ANSWERED"]

TtlDecision ==
  [action |-> "abort", disposition |-> "abort", by |-> None, code |-> "INTERVENTION_TTL"]
HeldDecision ==
  [action |-> "abort", disposition |-> "abort", by |-> None, code |-> "SESSION_HELD"]

\* A slip: control is taken without a claim.
TakeUnclaimed ==
  [raised |-> {"in_control"}, claimed |-> {"in_control"}, in_control |-> {}]

\* The states from which a record is still to be answered, with the path a
\* claim or a return walks from each.
ToControl ==
  [raised |-> {"claimed", "in_control"}, claimed |-> {"in_control"}, in_control |-> {}]
Unanswered == DOMAIN ToControl
Holding    == {"claimed", "in_control"}

Fresh      == {i \in Ids : state[i] = "none"}
OpenSlots  == {i \in Ids : slot[i] = "open"}
Aborted(i) == signal[i] = "aborted"

-------------------------------------------------------------------------------
Init ==
  /\ state = [i \in Ids |-> "none"]
  /\ stamps = [i \in Ids |-> {}]
  /\ operatorId = [i \in Ids |-> None]
  /\ disposition = [i \in Ids |-> None]
  /\ planeOf = [i \in Ids |-> None]
  /\ signal = [i \in Ids |-> "unset"]
  /\ slot = [i \in Ids |-> "none"]
  /\ answer = [i \in Ids |-> None]
  /\ server = "down"
  /\ held = [s \in Surfaces |-> None]
  /\ owner = [s \in Surfaces |-> "automation"]
  /\ pc = [p \in Planes |-> "idle"]
  /\ mine = [p \in Planes |-> None]
  /\ decision = [p \in Planes |-> None]
  /\ kind = [p \in Planes |-> None]
  /\ outer = [p \in Planes |-> None]
  /\ ran = {}

\* transition(): record i passes the states S and ends in "final".
Visit(i, S, final) ==
  /\ state' = [state EXCEPT ![i] = final]
  /\ stamps' = [stamps EXCEPT ![i] = @ \cup S]

\* A slip: claim() without its early return replaces the name of the holder.
ClaimOver(i, who) ==
  IF state[i] \in Unanswered
  THEN /\ Visit(i, ToControl[state[i]], "in_control")
       /\ operatorId' = [operatorId EXCEPT ![i] = who]
  ELSE UNCHANGED <<state, stamps, operatorId>>

\* handle.claim then handle.takeControl on record i by "who".
ClaimAndTake(i, who) ==
  IF state[i] \in Unanswered
  THEN /\ Visit(i, ToControl[state[i]], "in_control")
       /\ operatorId' = [operatorId EXCEPT ![i] = IF state[i] = "raised" THEN who ELSE @]
  ELSE UNCHANGED <<state, stamps, operatorId>>

\* A slip: the check of surfaceHeld is left out.
NeverHeld(p) == FALSE

\* surfaceHeld.get(surface)
SessionIsHeld(p) == held[SurfaceOf[p]] # None

\* persist of a new record, the hold and the timer, up to the first await.
\* A session someone else holds is refused on the spot.
Escalate(p, i, k, from) ==
  /\ i \in Fresh
  /\ mine' = [mine EXCEPT ![p] = i]
  /\ planeOf' = [planeOf EXCEPT ![i] = p]
  /\ kind' = [kind EXCEPT ![p] = k]
  /\ outer' = [outer EXCEPT ![p] = from]
  /\ IF SessionIsHeld(p)
     THEN /\ Visit(i, {"raised", "abandoned"}, "abandoned")
          /\ decision' = [decision EXCEPT ![p] = HeldDecision]
          /\ pc' = [pc EXCEPT ![p] = "returned"]
          /\ UNCHANGED <<held, signal>>
     ELSE /\ Visit(i, {"raised"}, "raised")
          /\ held' = [held EXCEPT ![SurfaceOf[p]] = i]
          /\ signal' = [signal EXCEPT ![i] = "armed"]
          /\ decision' = [decision EXCEPT ![p] = None]
          /\ pc' = [pc EXCEPT ![p] = "capturing"]
  /\ UNCHANGED <<operatorId, disposition, console, owner, ran>>

\* A run escalates from its step loop (or from discovery).
Raise(p, i, k) ==
  /\ pc[p] = "idle"
  /\ (k = "discover") <=> (p \in Discovering)
  /\ Escalate(p, i, k, None)

\* captureSide("handoff-before"), then surface.pause() flips the owner before
\* its own await.
CaptureBefore(p) ==
  /\ pc[p] = "capturing"
  /\ owner' = [owner EXCEPT ![SurfaceOf[p]] = "human"]
  /\ pc' = [pc EXCEPT ![p] = "pausing"]
  /\ UNCHANGED <<records, signal, console, held, mine, decision, kind, outer, ran>>

\* The finally block of escalate(): the timer goes, the hold goes if it is ours.
ReleaseHold(p) ==
  /\ signal' = [signal EXCEPT ![mine[p]] = "aborted"]
  /\ held' = [held EXCEPT ![SurfaceOf[p]] = IF @ = mine[p] THEN None ELSE @]

\* An await inside escalate() rejects: finally runs and the run ends UNCAUGHT.
\* Nothing gives the session back to automation.
Throw(p) ==
  /\ ReleaseHold(p)
  /\ pc' = [pc EXCEPT ![p] = "failed"]
  /\ UNCHANGED <<mine, decision, kind, outer>>

CaptureFails(p) ==
  /\ pc[p] \in {"capturing", "decided"}
  /\ Throw(p)
  /\ UNCHANGED <<records, console, owner, ran>>

\* applyDecision: an abort abandons the record, a resume walks it to
\* "returned" however far the operator had taken it.
ApplyDecision(i, d) ==
  LET who == IF d.by # None THEN d.by ELSE operatorId[i] IN
  IF d.action = "abort"
  THEN /\ Visit(i, {"abandoned"}, "abandoned")
       /\ operatorId' = [operatorId EXCEPT ![i] = who]
       /\ disposition' = [disposition EXCEPT ![i] = "abort"]
  ELSE IF state[i] \in Unanswered
  THEN /\ Visit(i, ToControl[state[i]] \cup {"returned"}, "returned")
       /\ operatorId' = [operatorId EXCEPT ![i] =
            IF state[i] # "raised" THEN @ ELSE IF who = None THEN Unknown ELSE who]
       /\ disposition' = [disposition EXCEPT ![i] = d.disposition]
  ELSE UNCHANGED <<state, stamps, operatorId, disposition>>

\* The race is settled for plane p: the record moves and the after-capture starts.
Decide(p, d) ==
  /\ pc' = [pc EXCEPT ![p] = "decided"]
  /\ decision' = [decision EXCEPT ![p] = d]
  /\ ApplyDecision(mine[p], d)
  /\ UNCHANGED <<planeOf, mine, kind, outer>>

\* raceWaiter on a signal that already fired: the waiter is never called.
WaitTooLate(p) ==
  /\ pc[p] = "pausing"
  /\ Aborted(mine[p])
  /\ Decide(p, TtlDecision)
  /\ UNCHANGED <<signal, console, session, ran>>

\* raceWaiter calls the console waiter: ensureServer, then a slot.
OpenConsole(p) ==
  /\ pc[p] = "pausing" /\ p \notin Scripted
  /\ ~ Aborted(mine[p])
  /\ \/ /\ server = "up"
        /\ slot' = [slot EXCEPT ![mine[p]] = "open"]
        /\ pc' = [pc EXCEPT ![p] = "waiting"]
        /\ UNCHANGED <<server, signal, held, mine, decision, kind, outer>>
     \/ /\ server \in {"down", "binding"}
        /\ slot' = [slot EXCEPT ![mine[p]] = "binding"]
        /\ server' = "binding"
        /\ pc' = [pc EXCEPT ![p] = "waiting"]
        /\ UNCHANGED <<signal, held, mine, decision, kind, outer>>
     \/ /\ server = "broken"
        /\ Throw(p)
        /\ UNCHANGED <<slot, server>>
  /\ UNCHANGED <<records, answer, owner, ran>>

\* raceWaiter calls a scripted waiter.
StartScript(p) ==
  /\ pc[p] = "pausing" /\ p \in Scripted
  /\ ~ Aborted(mine[p])
  /\ pc' = [pc EXCEPT ![p] = "waiting"]
  /\ UNCHANGED <<records, signal, console, session, mine, decision, kind, outer, ran>>

\* handle.claim by the script.
ScriptClaims(p) ==
  /\ pc[p] = "waiting" /\ p \in Scripted
  /\ state[mine[p]] = "raised"
  /\ Visit(mine[p], {"claimed"}, "claimed")
  /\ operatorId' = [operatorId EXCEPT ![mine[p]] = Bot]
  /\ UNCHANGED <<disposition, planeOf, signal, console, session, calls, ran>>

\* handle.takeControl by the script, which claims an unclaimed record for nobody.
ScriptTakesControl(p) ==
  /\ pc[p] = "waiting" /\ p \in Scripted
  /\ state[mine[p]] \in {"raised", "claimed"}
  /\ ClaimAndTake(mine[p], Unknown)
  /\ UNCHANGED <<disposition, planeOf, signal, console, session, calls, ran>>

ScriptReturns(p, raw) ==
  /\ pc[p] = "waiting" /\ p \in Scripted
  /\ \E by \in {Bot, None} : Decide(p, NormalizeDecision(raw, by))
  /\ UNCHANGED <<signal, console, session, ran>>

ScriptThrows(p) ==
  /\ pc[p] = "waiting" /\ p \in Scripted
  /\ Throw(p)
  /\ UNCHANGED <<records, console, owner, ran>>

-------------------------------------------------------------------------------
(* The operator console. *)

\* listen() succeeds: every waiter that was waiting for it gets a slot; one
\* whose timer has fired meanwhile opens and closes it at once.
ServerBound ==
  LET stay == {i \in Ids : slot[i] = "binding" /\ ~ Aborted(i)} IN
  /\ server = "binding"
  /\ slot' = [i \in Ids |-> IF slot[i] # "binding" THEN slot[i]
                            ELSE IF i \in stay THEN "open" ELSE "none"]
  /\ server' = IF OpenSlots \cup stay = {} THEN "down" ELSE "up"
  /\ UNCHANGED <<records, signal, answer, session, calls, ran>>

\* listen() fails (the port is taken): every waiter on it rejects, and the
\* rejected promise stays in listenWait.
BindFails ==
  LET hit == {p \in Planes : pc[p] = "waiting" /\ mine[p] # None /\ slot[mine[p]] = "binding"} IN
  /\ server = "binding"
  /\ server' = "broken"
  /\ slot' = [i \in Ids |-> IF slot[i] = "binding" THEN "none" ELSE slot[i]]
  /\ pc' = [p \in Planes |-> IF p \in hit THEN "failed" ELSE pc[p]]
  /\ signal' = [i \in Ids |-> IF \E p \in hit : mine[p] = i THEN "aborted" ELSE signal[i]]
  /\ held' = [s \in Surfaces |-> IF \E p \in hit : SurfaceOf[p] = s /\ mine[p] = held[s]
                                 THEN None ELSE held[s]]
  /\ UNCHANGED <<records, answer, owner, mine, decision, kind, outer, ran>>

\* slot.resolve: the slot leaves the map. With other slots still open the
\* answer reaches escalate() at once; the last one first waits for the server
\* to close.
Settle(i, d) ==
  IF OpenSlots # {i}
  THEN /\ slot' = [slot EXCEPT ![i] = "none"]
       /\ pc' = [pc EXCEPT ![planeOf[i]] = "decided"]
       /\ decision' = [decision EXCEPT ![planeOf[i]] = d]
       /\ UNCHANGED <<answer, server>>
  ELSE /\ slot' = [slot EXCEPT ![i] = "closing"]
       /\ answer' = [answer EXCEPT ![i] = d]
       /\ server' = "down"
       /\ UNCHANGED <<pc, decision>>

\* The record of slot i, claimed for "who" on the way if nobody has, and then
\* answered unless the answer has to wait: one callback does both.
ClaimedThen(i, who, d) ==
  LET final == IF d.action = "abort" THEN "abandoned" ELSE "returned" IN
  IF OpenSlots = {i}
  THEN ClaimAndTake(i, who) /\ UNCHANGED disposition
  ELSE IF state[i] = "raised"
  THEN /\ Visit(i, ToControl["raised"] \cup {final}, final)
       /\ operatorId' = [operatorId EXCEPT ![i] = IF final = "abandoned" THEN d.by ELSE who]
       /\ disposition' = [disposition EXCEPT ![i] = d.disposition]
  ELSE ApplyDecision(i, d)

\* A slip: nobody asks for the holder.
ClaimAnother(i, op) ==
  /\ slot[i] = "open" /\ state[i] = "raised" /\ op # Blank
  /\ ClaimAndTake(i, op)
  /\ UNCHANGED <<disposition, planeOf, signal, console, session, calls, ran>>

\* POST /claim: refused while another open slot is held, or without a name.
PostClaim(i, op) ==
  /\ slot[i] = "open" /\ state[i] = "raised" /\ op # Blank
  /\ \A j \in OpenSlots : state[j] \notin Holding
  /\ ClaimAndTake(i, op)
  /\ UNCHANGED <<disposition, planeOf, signal, console, session, calls, ran>>

\* POST /return: an unclaimed record is claimed for the caller first; nobody
\* compares the caller with the holder, and the name may be left blank.
PostReturn(i, op, d) ==
  /\ slot[i] = "open"
  /\ ClaimedThen(i, IF op = Blank THEN Unknown ELSE op, ConsoleAnswer(d, op))
  /\ Settle(i, ConsoleAnswer(d, op))
  /\ UNCHANGED <<planeOf, signal, session, mine, kind, outer, ran>>

\* The autoResumeMs timer of the slot.
AutoResumes(i) ==
  /\ slot[i] = "open" /\ planeOf[i] \in AutoResume
  /\ ClaimedThen(i, Bot, ConsoleAnswer("not_done", Bot))
  /\ Settle(i, ConsoleAnswer("not_done", Bot))
  /\ UNCHANGED <<planeOf, signal, session, mine, kind, outer, ran>>

\* A slip: the race has no "settled" flag, so a late answer wins.
LateAnswer(i) ==
  /\ slot[i] = "closing"
  /\ slot' = [slot EXCEPT ![i] = "none"]
  /\ answer' = [answer EXCEPT ![i] = None]
  /\ IF mine[planeOf[i]] = i
     THEN Decide(planeOf[i], answer[i])
     ELSE UNCHANGED <<records, calls>>
  /\ UNCHANGED <<signal, server, session, ran>>

\* The server the last slot waited for has closed: its answer arrives, unless
\* the timer was faster.
ServerClosed(i) ==
  /\ slot[i] = "closing"
  /\ slot' = [slot EXCEPT ![i] = "none"]
  /\ answer' = [answer EXCEPT ![i] = None]
  /\ IF pc[planeOf[i]] = "waiting" /\ mine[planeOf[i]] = i
     THEN Decide(planeOf[i], answer[i])
     ELSE UNCHANGED <<records, calls>>
  /\ UNCHANGED <<signal, server, session, ran>>

\* A slip: the slot does not listen to the abort signal.
SlotIgnoresTtl(i) ==
  /\ signal[i] = "armed"
  /\ signal' = [signal EXCEPT ![i] = "aborted"]
  /\ IF pc[planeOf[i]] = "waiting" /\ mine[planeOf[i]] = i
     THEN Decide(planeOf[i], TtlDecision)
     ELSE UNCHANGED <<records, calls>>
  /\ UNCHANGED <<console, session, ran>>

\* A slip: only the console hears the timer, raceWaiter does not.
RaceIgnoresTtl(i) ==
  /\ signal[i] = "armed"
  /\ signal' = [signal EXCEPT ![i] = "aborted"]
  /\ IF slot[i] = "open"
     THEN /\ slot' = [slot EXCEPT ![i] = "none"]
          /\ server' = IF OpenSlots = {i} THEN "down" ELSE server
          /\ Decide(planeOf[i], TtlDecision)
     ELSE UNCHANGED <<slot, server, records, calls>>
  /\ UNCHANGED <<answer, session, ran>>

\* The TTL timer: it wins the race if nobody has, and empties an open slot.
TtlFires(i) ==
  /\ signal[i] = "armed"
  /\ signal' = [signal EXCEPT ![i] = "aborted"]
  /\ IF slot[i] = "open"
     THEN /\ slot' = [slot EXCEPT ![i] = "none"]
          /\ server' = IF OpenSlots = {i} THEN "down" ELSE server
     ELSE UNCHANGED <<slot, server>>
  /\ IF pc[planeOf[i]] = "waiting" /\ mine[planeOf[i]] = i
     THEN Decide(planeOf[i], TtlDecision)
     ELSE UNCHANGED <<records, calls>>
  /\ UNCHANGED <<answer, session, ran>>

-------------------------------------------------------------------------------
(* Leaving escalate(). *)

\* A slip: an abort leaves the session with the human.
NoRelease(p) ==
  /\ pc[p] = "decided"
  /\ owner' = [owner EXCEPT ![SurfaceOf[p]] =
                 IF decision[p].action = "resume" THEN "automation" ELSE @]
  /\ pc' = [pc EXCEPT ![p] = "leaving"]
  /\ UNCHANGED <<records, signal, console, held, mine, decision, kind, outer, ran>>

\* captureSide("handoff-after"), then resume() or releaseSession().
CaptureAfter(p) ==
  /\ pc[p] = "decided"
  /\ owner' = [owner EXCEPT ![SurfaceOf[p]] = "automation"]
  /\ pc' = [pc EXCEPT ![p] = "leaving"]
  /\ UNCHANGED <<records, signal, console, held, mine, decision, kind, outer, ran>>

Leave(p) ==
  /\ pc[p] = "leaving"
  /\ ReleaseHold(p)
  /\ pc' = [pc EXCEPT ![p] = "returned"]
  /\ UNCHANGED <<records, console, owner, mine, decision, kind, outer, ran>>

-------------------------------------------------------------------------------
(* What the caller does with the decision. *)

\* finish(): closes the plane's last record, unless it is closed.
Finish(p, outcome) ==
  LET i == mine[p] IN
  IF state[i] \in Life!Terminal
  THEN UNCHANGED <<state, stamps>>
  ELSE /\ outcome \in Life!Allowed[state[i]]
       /\ Visit(i, {outcome}, outcome)

\* The locals of the call go with it.
EndCall(p, label) ==
  /\ pc' = [pc EXCEPT ![p] = label]
  /\ decision' = [decision EXCEPT ![p] = None]
  /\ kind' = [kind EXCEPT ![p] = None]
  /\ outer' = [outer EXCEPT ![p] = None]
  /\ UNCHANGED <<operatorId, disposition, planeOf, signal, console, session, mine>>

Reconcile(p) ==
  /\ pc' = [pc EXCEPT ![p] = "reconciling"]
  /\ UNCHANGED <<operatorId, disposition, planeOf, signal, console, session,
                 mine, decision, kind, outer>>

\* An abort ends the run; replay closes the record, discovery leaves it.
RunAborted(p) ==
  /\ pc[p] = "returned" /\ decision[p].action = "abort"
  /\ IF kind[p] = "discover" THEN UNCHANGED <<state, stamps>> ELSE Finish(p, "abandoned")
  /\ EndCall(p, "over")
  /\ UNCHANGED ran

\* Discovery goes on with its loop and never closes the record.
DiscoveryResumes(p) ==
  /\ pc[p] = "returned" /\ kind[p] = "discover" /\ decision[p].action = "resume"
  /\ EndCall(p, "idle")
  /\ UNCHANGED <<state, stamps, ran>>

\* handleException after an escalation of its own: the record is resolved. A
\* restored session goes back to the step loop, or to the risky handback it
\* interrupted; any other state stops the run.
ExceptionHandled(p) ==
  /\ pc[p] = "returned" /\ kind[p] \in {"expired", "needs_human"}
  /\ decision[p].action = "resume"
  /\ Finish(p, "resolved")
  /\ \/ kind[p] = "needs_human" /\ EndCall(p, "over")
     \/ kind[p] = "expired" /\ outer[p] = None /\ EndCall(p, "idle")
     \/ kind[p] = "expired" /\ outer[p] # None /\ Reconcile(p)
  /\ UNCHANGED ran

\* afterRiskyHandback observes the page. A clean page, or a state that is
\* handled without a person, leads to the reconciliation.
HandedBack(p) ==
  pc[p] = "returned" /\ kind[p] = "risky" /\ decision[p].action = "resume"

HandbackClean(p) ==
  /\ HandedBack(p)
  /\ Reconcile(p)
  /\ UNCHANGED <<state, stamps, ran>>

\* A state that needs a human escalates again on the same plane.
HandbackEscalates(p, i, k) ==
  /\ HandedBack(p)
  /\ k \in {"expired", "needs_human"}
  /\ Escalate(p, i, k, mine[p])

\* A business outcome or a hard failure stops the run.
HandbackStops(p) ==
  /\ HandedBack(p)
  /\ Finish(p, "abandoned")
  /\ EndCall(p, "over")
  /\ UNCHANGED ran

\* The observation rejects: the run ends UNCAUGHT with the record as it is.
HandbackThrows(p) ==
  /\ HandedBack(p)
  /\ EndCall(p, "over")
  /\ UNCHANGED <<state, stamps, ran>>

\* The intervention whose disposition the handback still goes by.
Risky(p) == IF outer[p] # None THEN outer[p] ELSE mine[p]

\* The checkpoint holds, or the operator completed the step: skip it.
Skip(p) ==
  /\ pc[p] = "reconciling"
  /\ Finish(p, "resolved")
  /\ EndCall(p, "idle")
  /\ UNCHANGED ran

\* The page the run paused on is gone: PRECONDITION_LOST.
EntryLost(p) ==
  /\ pc[p] = "reconciling" /\ disposition[Risky(p)] = "not_done"
  /\ Finish(p, "abandoned")
  /\ EndCall(p, "over")
  /\ UNCHANGED ran

\* A slip: the answer of the operator is not read.
ExecuteAnyway(p) ==
  /\ pc[p] = "reconciling"
  /\ Finish(p, "resolved")
  /\ ran' = ran \cup {Risky(p)}
  /\ EndCall(p, "idle")

\* Nobody did it and the page is still there: the step will execute once.
Execute(p) ==
  /\ pc[p] = "reconciling" /\ disposition[Risky(p)] = "not_done"
  /\ Finish(p, "resolved")
  /\ ran' = ran \cup {Risky(p)}
  /\ EndCall(p, "idle")

-------------------------------------------------------------------------------
\* No call of escalate() is in progress: the runs may go on without a human.
Done ==
  /\ \A p \in Planes : pc[p] \in {"idle", "over", "failed"}
  /\ \A i \in Ids : slot[i] \notin {"binding", "open", "closing"}
  /\ UNCHANGED vars

PlaneStep(p) ==
  \/ CaptureBefore(p) \/ CaptureFails(p)
  \/ WaitTooLate(p) \/ OpenConsole(p) \/ StartScript(p)
  \/ CaptureAfter(p) \/ Leave(p)
  \/ RunAborted(p) \/ DiscoveryResumes(p) \/ ExceptionHandled(p)
  \/ HandbackClean(p) \/ HandbackStops(p) \/ HandbackThrows(p)
  \/ \E i \in Ids, k \in Kinds : HandbackEscalates(p, i, k)
  \/ Skip(p) \/ EntryLost(p) \/ Execute(p)

ScriptStep(p) ==
  \/ ScriptClaims(p) \/ ScriptTakesControl(p)
  \/ \E raw \in RawAnswers : ScriptReturns(p, raw)
  \/ ScriptThrows(p)

OperatorStep(i) ==
  \/ \E op \in Operators : PostClaim(i, op)
  \/ \E op \in Operators, d \in Dispositions : PostReturn(i, op, d)

TimerStep(i) == TtlFires(i) \/ AutoResumes(i)
ServerStep == ServerBound \/ BindFails \/ \E i \in Ids : ServerClosed(i)

Next ==
  \/ \E p \in Planes, i \in Ids, k \in Kinds : Raise(p, i, k)
  \/ \E p \in Planes : PlaneStep(p) \/ ScriptStep(p)
  \/ \E i \in Ids : OperatorStep(i) \/ TimerStep(i)
  \/ ServerStep
  \/ Done

\* Timers fire, browser awaits settle and the HTTP server answers listen and
\* close; nothing obliges an operator or a script to answer.
Fairness ==
  /\ \A p \in Planes : WF_vars(PlaneStep(p))
  /\ \A i \in Ids : WF_vars(TtlFires(i))
  /\ WF_vars(ServerBound \/ BindFails)
  /\ \A i \in Ids : WF_vars(ServerClosed(i))

Spec == Init /\ [][Next]_vars
FairSpec == Spec /\ Fairness

-------------------------------------------------------------------------------
(* Correctness. *)

Active == {"capturing", "pausing", "waiting", "decided", "leaving"}
PCs    == Active \cup {"idle", "returned", "reconciling", "over", "failed"}

\* Every variable keeps its type.
TypeOK ==
  /\ state \in [Ids -> Life!States \cup {"none"}]
  /\ stamps \in [Ids -> SUBSET Life!States]
  /\ operatorId \in [Ids -> Who]
  /\ disposition \in [Ids -> Dispositions \cup {None}]
  /\ planeOf \in [Ids -> Planes \cup {None}]
  /\ signal \in [Ids -> {"unset", "armed", "aborted"}]
  /\ slot \in [Ids -> {"none", "binding", "open", "closing"}]
  /\ answer \in [Ids -> Decisions \cup {None}]
  /\ server \in {"down", "binding", "up", "broken"}
  /\ held \in [Surfaces -> Ids \cup {None}]
  /\ owner \in [Surfaces -> {"automation", "human"}]
  /\ pc \in [Planes -> PCs]
  /\ mine \in [Planes -> Ids \cup {None}]
  /\ decision \in [Planes -> Decisions \cup {None}]
  /\ kind \in [Planes -> Kinds \cup {None}]
  /\ outer \in [Planes -> Ids \cup {None}]
  /\ ran \subseteq Ids

\* A session is held exactly by the call of escalate() that pauses it, so two
\* runs on one session never wait for a human at the same time (surfaceHeld,
\* the SESSION_HELD refusal and the finally block).
HeldByItsCall ==
  /\ \A p \in Planes : pc[p] \in Active => held[SurfaceOf[p]] = mine[p] /\ mine[p] # None
  /\ \A s \in Surfaces : held[s] # None =>
       \E p \in Planes : SurfaceOf[p] = s /\ pc[p] \in Active /\ mine[p] = held[s]

\* The human drives a session from the pause until the after-capture, and at
\* no other time unless a call of escalate() threw and left the session behind
\* (pause(), resume(), releaseSession() on every path, the refused one too).
HumanDrivesWhilePaused ==
  /\ \A p \in Planes : pc[p] \in {"pausing", "waiting", "decided"} => owner[SurfaceOf[p]] = "human"
  /\ \A s \in Surfaces : owner[s] = "human" =>
       \E p \in Planes : SurfaceOf[p] = s
                          /\ pc[p] \in {"pausing", "waiting", "decided", "failed"}

\* A console slot that an operator can still answer belongs to a call that
\* waits for it, with its timer running and the server up (slots, clients,
\* closeServer): a page never outlives the wait it answers.
OpenSlotIsAwaited ==
  \A i \in OpenSlots :
    /\ server = "up" /\ signal[i] = "armed"
    /\ planeOf[i] # None /\ pc[planeOf[i]] = "waiting" /\ mine[planeOf[i]] = i

\* Among the open slots at most one record is held (holderOf and the 409 of
\* POST /claim): nobody claims a second session while one is out.
OneHolderAtConsole ==
  \A i, j \in OpenSlots : state[i] \in Holding /\ state[j] \in Holding => i = j

\* The record agrees with the decision the caller acts on, whoever won the
\* race between the operator, the timer and the closing server: an abort is
\* abandoned, a resume is returned with the same disposition. finish() then
\* never asks for a transition that lifecycle.ts would throw on.
RecordAgreesWithDecision ==
  \A p \in Planes : pc[p] \in {"decided", "leaving", "returned"} =>
    LET i == mine[p] IN
    IF decision[p].action = "abort"
    THEN state[i] = "abandoned"
    ELSE state[i] = "returned" /\ disposition[i] = decision[p].disposition

\* The risky step is let run only for a record that a person or a script
\* returned as not done and that the timer or an abort never abandoned, a
\* nested escalation in between included.
RunsOnlyWhenHandedBack ==
  \A i \in ran :
    /\ "returned" \in stamps[i] /\ "abandoned" \notin stamps[i]
    /\ disposition[i] = "not_done"

\* Once an operator is on record, another name replaces it only when the
\* request is abandoned: no claim, return or auto-resume takes over a held
\* request in somebody else's name.
OperatorIsKept ==
  [][\A i \in Ids : operatorId[i] # None /\ operatorId'[i] # operatorId[i]
       => state'[i] = "abandoned" /\ state[i] # "abandoned"]_vars

\* Each record moves along the lifecycle of lifecycle.ts and no further once
\* it has ended: the control plane implements Intervention.
Lifecycle == Life!Spec

\* Every request is answered, by a person, a script or the timer, unless its
\* call threw: nobody waits for an operator for ever.
EveryRequestAnswered ==
  \A i \in Ids :
    state[i] \in Unanswered ~>
      \/ state[i] \in {"returned", "resolved", "abandoned"}
      \/ planeOf[i] # None /\ pc[planeOf[i]] = "failed"

\* A session given to a human goes back to automation, unless the call threw.
SessionComesBack ==
  \A p \in Planes : pc[p] \in Active ~>
    \/ pc[p] = "failed"
    \/ pc[p] \notin Active /\ owner[SurfaceOf[p]] = "automation"

-------------------------------------------------------------------------------
(* What makes the invariants inductive. *)

\* The id a call works on is a raised record of its own plane.
CallsOwnTheirRecord ==
  /\ \A p \in Planes : pc[p] \in Active \cup {"returned", "reconciling"} => mine[p] # None
  /\ \A p \in Planes : mine[p] # None => planeOf[mine[p]] = p
  /\ \A i \in Ids : state[i] = "none" =>
       planeOf[i] = None /\ signal[i] = "unset" /\ slot[i] = "none" /\ stamps[i] = {}

\* A timer runs only for the call in progress of its plane, and every call has one.
TimersBelongToCalls ==
  /\ \A p \in Planes : pc[p] \in Active => signal[mine[p]] # "unset"
  /\ \A i \in Ids : signal[i] = "armed" =>
       planeOf[i] # None /\ mine[planeOf[i]] = i /\ pc[planeOf[i]] \in Active

\* A slot belongs to a console plane; while its timer runs, the plane waits for it.
SlotsBelongToWaits ==
  \A i \in Ids :
    /\ slot[i] # "none" => planeOf[i] # None /\ planeOf[i] \notin Scripted /\ signal[i] # "unset"
    /\ slot[i] \in {"binding", "open"} /\ signal[i] = "armed" => pc[planeOf[i]] = "waiting"
    /\ slot[i] = "open" => server = "up" /\ signal[i] = "armed"
    /\ slot[i] = "binding" => server = "binding"
    /\ slot[i] = "closing" => answer[i] \in Decisions

\* The inductive invariant of the session lock.
LockInv ==
  /\ TypeOK
  /\ CallsOwnTheirRecord /\ TimersBelongToCalls /\ SlotsBelongToWaits
  /\ HeldByItsCall /\ HumanDrivesWhilePaused

\* The stamps of a record that has not been abandoned, by its state.
Path ==
  [ none       |-> {},
    raised     |-> {"raised"},
    claimed    |-> {"raised", "claimed"},
    in_control |-> {"raised", "claimed", "in_control"},
    returned   |-> {"raised", "claimed", "in_control", "returned"},
    resolved   |-> {"raised", "claimed", "in_control", "returned", "resolved"} ]

\* The stamps are a path of the lifecycle that ends at the state.
StampsArePaths ==
  \A i \in Ids :
    \/ state[i] # "abandoned" /\ stamps[i] = Path[state[i]]
    \/ state[i] = "abandoned" /\
         \E q \in Unanswered \cup {"returned"} : stamps[i] = Path[q] \cup {"abandoned"}

\* While the race is open the record is still to be answered.
OpenRaceUnanswered ==
  \A p \in Planes : pc[p] \in {"capturing", "pausing", "waiting"} => state[mine[p]] \in Unanswered

\* The inductive invariant of the refinement.
LifeInv == LockInv /\ StampsArePaths /\ OpenRaceUnanswered

-------------------------------------------------------------------------------
(* What the repository says and the code does not do (violation runs). *)

\* "At most one operator may hold the live console. Claimed and in_control both
\* count as holding." (lifecycle.ts:103): no open request is taken into control
\* while another open request is held.  POST /return on an unclaimed request,
\* and auto-resume, claim without asking holderOf.
OneHolderEver ==
  [][\A i, j \in OpenSlots :
       i # j /\ state[i] \in Holding /\ "in_control" \notin stamps[j]
         => "in_control" \notin stamps'[j]]_vars
===============================================================================
