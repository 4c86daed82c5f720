---------------------------- MODULE AuthoringProofs ----------------------------
(***************************************************************************)
(* That a replay runs what two people approved, for every policy, every    *)
(* overlay, every set of files and any number of discoveries.              *)
(***************************************************************************)
EXTENDS Authoring, SubsequenceProofs

\* A file that is there is a record with the fields of a capability, approved as it is.
Sound(file) == file # NoFile => DOMAIN file = Fields /\ ApprovedAsIs(file)

\* RunsAsApproved is about the run alone; a step can only keep it if every file that may be
\* written to the repository, or run, is sound already.
AuthoringInv ==
    /\ Sound(stored)
    /\ Sound(draft)
    /\ Sound(approving)
    /\ RunsAsApproved

\* Reading an older file fills in its side effects, and neither its steps nor its approval.
LEMMA MigratedIsSound ==
    ASSUME NEW file, file # NoFile, Sound(file)
    PROVE  /\ DOMAIN Migrated(file) = Fields
           /\ ApprovedAsIs(Migrated(file))
  BY DEF Sound, Migrated, Fields, ApprovedAsIs, Risks

\* What two people approve is the file as it was read.
LEMMA ApproveIsSound ==
    ASSUME NEW file, DOMAIN file = Fields, NEW a, NEW b
    PROVE  Sound(Approve(file, a, b))
  BY DEF Sound, Approve, Fields, ApprovedAsIs, Risks

\* A new recording has no approval.
LEMMA RecordingIsSound ==
    ASSUME NEW recorded, NEW seen, NEW late
    PROVE  Sound(Saved(CompileArtifact(recorded, seen, late)))
  BY DEF Sound, Saved, CompileArtifact, Fields, ApprovedAsIs

\* Detectors and an entry checkpoint touch neither the steps nor the approval.
LEMMA MergeKeeps ==
    ASSUME NEW base, DOMAIN base = Fields, NEW file
    PROVE  /\ DOMAIN MergeDetectors(base, file) = Fields
           /\ MergeDetectors(base, file).steps = base.steps
           /\ MergeDetectors(base, file).approval = base.approval
  BY DEF MergeDetectors, Fields

\* Overlays rename controls: the approval stays, and the steps are as many as they were.
LEMMA ResolvedKeeps ==
    ASSUME NEW base, DOMAIN base = Fields, NEW vendor, NEW tenant
    PROVE  /\ Resolved(base, vendor, tenant).approval = base.approval
           /\ DOMAIN Resolved(base, vendor, tenant).steps = DOMAIN base.steps
<1> DEFINE copied == ApplyCopy(base, Copy(vendor, tenant))
           first == MergeDetectors(copied, vendor)
<1>1. /\ DOMAIN copied = Fields
      /\ copied.approval = base.approval
      /\ DOMAIN copied.steps = DOMAIN base.steps
  BY DEF ApplyCopy, Fields
<1>2. /\ DOMAIN first = Fields
      /\ first.steps = copied.steps
      /\ first.approval = copied.approval
  <2> HIDE DEF copied
  <2> QED BY <1>1, MergeKeeps
<1>3. /\ MergeDetectors(first, tenant).steps = first.steps
      /\ MergeDetectors(first, tenant).approval = first.approval
  <2> HIDE DEF first
  <2> QED BY <1>2, MergeKeeps
<1> QED BY <1>1, <1>2, <1>3 DEF Resolved

\* A capability that was bound carries the approval of the file, and the risks it was given for.
LEMMA BoundKeeps ==
    ASSUME NEW base, DOMAIN base = Fields, NEW vendor, NEW tenant,
           BindTenant(base, vendor, tenant) # NoFile
    PROVE  /\ BindTenant(base, vendor, tenant).approval = base.approval
           /\ Risks(BindTenant(base, vendor, tenant).steps) = Risks(base.steps)
<1> DEFINE applies == Applying(tenant, base)
           resolved == Resolved(base, vendor, applies)
<1>1. /\ BindTenant(base, vendor, tenant) = resolved
      /\ AssertUnchangedSafety(base, resolved)
  BY DEF BindTenant
<1>2. /\ resolved.approval = base.approval
      /\ DOMAIN resolved.steps = DOMAIN base.steps
  BY ResolvedKeeps
<1>3. Risks(resolved.steps) = Risks(base.steps)
  <2> HIDE DEF resolved
  <2> QED BY <1>1, <1>2 DEF AssertUnchangedSafety, Risks
<1> QED BY <1>1, <1>2, <1>3

\* What passes the gate and is approved as it is runs as approved.
LEMMA GatedRuns ==
    ASSUME NEW capability, AssertTwoPersonApproval(capability), ApprovedAsIs(capability),
           Risky(capability.steps)
    PROVE  /\ capability.approval # NoFile
           /\ capability.approval.requestedBy # capability.approval.approvedBy
           /\ capability.approval.of = Risks(capability.steps)
  BY DEF AssertTwoPersonApproval, NeedsTwo, ApprovedAsIs

LEMMA GatedRun ==
    ASSUME NEW capability, NEW b, run' = Running(capability, b),
           AssertTwoPersonApproval(capability), ApprovedAsIs(capability)
    PROVE  RunsAsApproved'
<1>1. run'.steps = capability.steps /\ run'.approval = capability.approval
  BY DEF Running
<1>2. Risky(run'.steps) <=> Risky(capability.steps)
  BY <1>1 DEF Risky
<1>3. CASE Risky(capability.steps)
  BY <1>1, <1>3, GatedRuns DEF RunsAsApproved
<1>4. CASE ~Risky(capability.steps)
  BY <1>2, <1>4 DEF RunsAsApproved, Risky
<1> QED BY <1>3, <1>4

LEMMA NoRunRuns ==
    ASSUME run' = NoRun
    PROVE  RunsAsApproved'
  BY DEF RunsAsApproved, Risky, NoRun

\* What is written at the end of a discovery is the recording, in one place, or nothing.
LEMMA FinishesWrites ==
    ASSUME NEW recorded, NEW seen, NEW late, Finishes(recorded, seen, late)
    PROVE  LET file == Saved(CompileArtifact(recorded, seen, late)) IN
           \/ UNCHANGED <<stored, draft>>
           \/ Parses(file) /\ draft' = file /\ stored' = stored
           \/ Parses(file) /\ stored' = file /\ draft' = draft
  BY DEF Finishes

LEMMA FinishesKeeps ==
    ASSUME AuthoringInv, NEW recorded, NEW seen, NEW late, Finishes(recorded, seen, late),
           UNCHANGED <<approving, run>>
    PROVE  AuthoringInv'
<1> DEFINE capability == Saved(CompileArtifact(recorded, seen, late))
<1>1. Sound(capability)
  BY RecordingIsSound
<1>2. \/ UNCHANGED <<stored, draft>>
      \/ draft' = capability /\ stored' = stored
      \/ stored' = capability /\ draft' = draft
  BY FinishesWrites
<1> HIDE DEF capability
<1> QED BY <1>1, <1>2 DEF AuthoringInv, RunsAsApproved, Risky, Sound, ApprovedAsIs, Risks

---------------------------------------------------------------------------

LEMMA AuthoringInit == Init => AuthoringInv
<1> SUFFICES ASSUME Init PROVE AuthoringInv
  OBVIOUS
<1>1. Sound(stored)
  BY FilesAssumption DEF Init, Sound
<1>2. Sound(draft) /\ Sound(approving)
  BY DEF Init, Sound
<1>3. RunsAsApproved
  BY DEF Init, RunsAsApproved, Risky, NoRun
<1> QED BY <1>1, <1>2, <1>3 DEF AuthoringInv

\* A step that leaves the files and the run alone.
Leaves4 == UNCHANGED <<stored, draft, approving, run>>

LEMMA AuthoringStutter ==
    ASSUME AuthoringInv, Leaves4
    PROVE  AuthoringInv'
  BY DEF AuthoringInv, Leaves4, RunsAsApproved, Risky, Sound, ApprovedAsIs, Risks

LEMMA AuthoringStep == AuthoringInv /\ [Next]_vars => AuthoringInv'
<1> SUFFICES ASSUME AuthoringInv, [Next]_vars PROVE AuthoringInv'
  OBVIOUS
<1> USE DEF AuthoringInv
<1>1. CASE ApproveReads
  <2>1. PICK a \in People, b \in People : approving' = Approve(Migrated(stored), a, b)
    BY <1>1 DEF ApproveReads
  <2>2. DOMAIN Migrated(stored) = Fields
    BY <1>1, MigratedIsSound DEF ApproveReads, Loads
  <2>3. Sound(Approve(Migrated(stored), a, b))
    BY <2>2, ApproveIsSound
  <2>4. Sound(approving')
    BY <2>1, <2>3
  <2> QED BY <1>1, <2>4 DEF ApproveReads, RunsAsApproved, Risky, Sound, ApprovedAsIs, Risks
<1>2. CASE ApproveWrites
  BY <1>2 DEF ApproveWrites, RunsAsApproved, Risky, Sound, ApprovedAsIs, Risks
<1>3. CASE \/ Discovers \/ UrlThrows \/ Stuck \/ ModelEscalates \/ PolicyAsks \/ ModelActs
           \/ RiskyAnswered \/ Acts \/ Assisted \/ OutOfSteps
  <2>1. Leaves4
    BY <1>3 DEF Leaves4, Discovers, UrlThrows, Stuck, ModelEscalates, PolicyAsks, ModelActs,
                RiskyAnswered, Acts, Assisted, OutOfSteps
  <2> QED BY <2>1, AuthoringStutter
<1>4. CASE ModelFinishes
  BY <1>4, FinishesKeeps DEF ModelFinishes
<1>5. CASE LimitAnswered
  <2>1. CASE UNCHANGED <<stored, draft>>
    BY <1>5, <2>1, AuthoringStutter DEF LimitAnswered, Leaves4
  <2>2. ASSUME NEW recorded, NEW seen, NEW late, Finishes(recorded, seen, late) PROVE AuthoringInv'
    BY <1>5, <2>2, FinishesKeeps DEF LimitAnswered
  <2> QED BY <1>5, <2>1, <2>2 DEF LimitAnswered
<1>6. CASE Replays
  <2> DEFINE base == Migrated(stored)
  <2>1. PICK b \in Bindings :
          /\ BindTenant(base, b.vendor, b.tenant) # NoFile
          /\ AssertTwoPersonApproval(BindTenant(base, b.vendor, b.tenant))
          /\ run' = Running(BindTenant(base, b.vendor, b.tenant), b)
    BY <1>6 DEF Replays
  <2>2. DOMAIN base = Fields /\ ApprovedAsIs(base)
    BY <1>6, MigratedIsSound DEF Replays, Loads
  <2> HIDE DEF base
  <2> DEFINE bound == BindTenant(base, b.vendor, b.tenant)
  <2>3. bound.approval = base.approval /\ Risks(bound.steps) = Risks(base.steps)
    BY <2>1, <2>2, BoundKeeps
  <2>4. ApprovedAsIs(bound)
    <3> HIDE DEF bound
    <3> QED BY <2>2, <2>3 DEF ApprovedAsIs
  <2>5. RunsAsApproved'
    <3> HIDE DEF bound
    <3>1. AssertTwoPersonApproval(bound) /\ run' = Running(bound, b)
      BY <2>1 DEF bound
    <3> QED BY <2>4, <3>1, GatedRun
  <2> QED BY <1>6, <2>5 DEF Replays, Sound, ApprovedAsIs, Risks
<1>7. CASE ReplaysDraft
  <2>1. PICK b : run' = Running(draft, b)
    BY <1>7 DEF ReplaysDraft
  <2>2. RunsAsApproved'
    BY <1>7, <2>1, GatedRun DEF ReplaysDraft, Loads, Sound
  <2> QED BY <1>7, <2>2 DEF ReplaysDraft, Sound, ApprovedAsIs, Risks
<1>8. CASE RunEnds
  <2>1. RunsAsApproved'
    BY <1>8, NoRunRuns DEF RunEnds
  <2> QED BY <1>8, <2>1 DEF RunEnds, Sound, ApprovedAsIs, Risks
<1>9. CASE UNCHANGED vars
  BY <1>9, AuthoringStutter DEF vars, Leaves4
<1> QED BY <1>1, <1>2, <1>3, <1>4, <1>5, <1>6, <1>7, <1>8, <1>9 DEF Next

\* Whatever a recording, an approval that is written late or an overlay does to the files,
\* a replay with a risky step was approved by two different people who looked at these very
\* steps with these risks (review.ts 34-74, compile.ts 264, resolve.ts 164-187).
THEOREM ReplaysRunAsApproved == Spec => []RunsAsApproved
<1>1. AuthoringInv => RunsAsApproved
  BY DEF AuthoringInv
<1> QED BY <1>1, AuthoringInit, AuthoringStep, PTL DEF Spec

---------------------------------------------------------------------------
(* The overlay that a person is told to edit.                              *)

\* The file that is named is the one whose words the run uses: the tenant's if it renames the
\* control, else the vendor's, for the copy of a tenant is laid over the vendor's.
LEMMA FixDecides ==
    ASSUME NEW name, NEW vendor, NEW tenant,
           DescribeConfirmFix(name, vendor, tenant).layer # NoFile
    PROVE  /\ name \in DOMAIN Copy(vendor, tenant)
           /\ Copy(vendor, tenant)[name] = DescribeConfirmFix(name, vendor, tenant).change
<1> DEFINE layers == <<[layer |-> "tenant", file |-> tenant], [layer |-> "vendor", file |-> vendor]>>
           Says == {i \in DOMAIN layers : name \in DOMAIN CopyOf(layers[i].file)}
           said == Picked(layers, Says)
<1>1. /\ layers \in Seq({layers[1], layers[2]}) /\ Len(layers) = 2
      /\ layers[1].file = tenant /\ layers[2].file = vendor
  OBVIOUS
<1>2. said # <<>> /\ DescribeConfirmFix(name, vendor, tenant).change = said[1].file.copy[name]
  <2>1. Remapping(name, vendor, tenant) = said
    BY Zenon DEF Remapping
  <2> HIDE DEF said
  <2>2. said # <<>> /\ DescribeConfirmFix(name, vendor, tenant).change = Head(said).file.copy[name]
    BY <2>1 DEF DescribeConfirmFix
  <2>3. Head(said) = said[1]
    OBVIOUS
  <2> QED BY <2>2, <2>3
<1>3. \E j \in 1..2 : /\ j \in Says /\ said[1] = layers[j]
                      /\ \A i \in 1..j - 1 : i \notin Says
  <2> HIDE DEF layers, Says
  <2> QED BY <1>1, <1>2, PickedFirst
<1>4. \/ 1 \in Says /\ said[1] = layers[1]
      \/ 1 \notin Says /\ 2 \in Says /\ said[1] = layers[2]
  BY <1>3
<1>5. (1 \in Says <=> name \in DOMAIN CopyOf(tenant)) /\ (2 \in Says <=> name \in DOMAIN CopyOf(vendor))
  BY <1>1
<1>6. ASSUME NEW file, name \in DOMAIN CopyOf(file) PROVE CopyOf(file) = file.copy
  BY <1>6 DEF CopyOf
<1> HIDE DEF layers, Says, said
<1>7. CASE 1 \in Says /\ said[1] = layers[1]
  BY <1>1, <1>2, <1>5, <1>6, <1>7 DEF Copy, Over
<1>8. CASE 1 \notin Says /\ 2 \in Says /\ said[1] = layers[2]
  BY <1>1, <1>2, <1>5, <1>6, <1>8 DEF Copy, Over
<1> QED BY <1>4, <1>7, <1>8

LEMMA RunNamesTheFile ==
    ASSUME NEW capability, NEW b, run' = Running(capability, b)
    PROVE  FixNamesTheFile'
<1> DEFINE applies == Applying(b.tenant, capability)
<1>1. /\ run'.fix = DescribeConfirmFix("confirm", b.vendor, applies)
      /\ run'.copy = Copy(b.vendor, applies) /\ run'.wanted = b.baseUrl
      /\ run'.base = BaseUrlFrom(b.baseUrl, b.vendor, applies)
  BY DEF Running
<1> HIDE DEF applies
<1>2. run'.wanted # NoFile => run'.base = <<"run", run'.wanted>>
  BY <1>1 DEF BaseUrlFrom
<1> QED BY <1>1, <1>2, FixDecides DEF FixNamesTheFile

\* The file an operator is told to edit is the one that decides, and the base url that the
\* run asks for wins over every layer (resolve.ts 87-120, 189-201).
THEOREM FixIsRight == Spec => []FixNamesTheFile
<1>1. Init => FixNamesTheFile
  BY DEF Init, NoRun, FixNamesTheFile
<1>2. ASSUME FixNamesTheFile, [Next]_vars PROVE FixNamesTheFile'
  <2>1. CASE run' = run
    BY <1>2, <2>1 DEF FixNamesTheFile
  <2>2. CASE run' = NoRun
    BY <2>2 DEF NoRun, FixNamesTheFile
  <2>3. CASE Replays
    BY <2>3, RunNamesTheFile DEF Replays
  <2>4. CASE ReplaysDraft
    BY <2>4, RunNamesTheFile DEF ReplaysDraft
  <2>5. run' = run \/ run' = NoRun \/ Replays \/ ReplaysDraft
    BY <1>2 DEF Next, vars, ApproveReads, ApproveWrites, Discovers, UrlThrows, Stuck,
                ModelEscalates, PolicyAsks, ModelActs, RiskyAnswered, Acts, Assisted,
                OutOfSteps, ModelFinishes, LimitAnswered, RunEnds
  <2> QED BY <2>1, <2>2, <2>3, <2>4, <2>5
<1> QED BY <1>1, <1>2, PTL DEF Spec

---------------------------------------------------------------------------
(* Who did what a recording says.                                          *)

\* A step that is called safe though its control has a risky name was done by a person.
Judged(step) == step.risk = "safe" /\ step.control \in RiskyNames => step.by # None
RecordedSteps ==
    {step \in [action : Actions \cup {"click"}, control : Controls,
               out : Names \cup {None}, risk : {"safe", "risky"}, by : Helpers \cup {None}] : Judged(step)}

Discoveries ==
    [pc : {"loop", "assist", "risky", "act", "limit"}, again : BOOLEAN, control : BOOLEAN,
     page : Pages, last : Pages \cup {NoFile}, stuck : Nat, i : Nat,
     recorded : Seq(RecordedSteps), seen : SUBSET Pages,
     action : Actions \cup {None}, name : Controls \cup {None}, out : Names \cup {None},
     risk : {"safe", "risky"}]

\* What is being done has the risk that its name was given when the model proposed it,
\* whatever a person has been asked meanwhile.
DiscoveryInv ==
    disc # Idle =>
        /\ disc \in Discoveries
        /\ disc.pc \in {"risky", "act"} => /\ disc.action \in Actions /\ disc.name \in Controls
                                           /\ disc.risk = ProposeRisk(disc.name)

JudgedFile(file) ==
    \A i \in Review(file) : file.steps[i].by # None \/ file.steps[i].control \notin RiskyNames

\* MisjudgedOnlyByHand passes over the files that the repository holds; what two people
\* approve of one of them is no such file any more, and the review found nothing in it.
MisjudgedInv ==
    /\ DiscoveryInv
    /\ \A file \in {stored, draft, approving} :
         file # NoFile => DOMAIN file = Fields /\ SaysWhoHelped(file)
    /\ MisjudgedOnlyByHand
    /\ approving # NoFile => JudgedFile(approving)

LEMMA LoadedPages == Loaded \subseteq Pages
  BY PathsAssumption DEF Loaded

\* What a discovery becomes, part by part.
LEMMA DiscoveryParts ==
    ASSUME NEW d \in Discoveries
    PROVE  /\ d # Idle
           /\ \A pc \in {"loop", "assist", "risky", "act", "limit"} : [d EXCEPT !.pc = pc] \in Discoveries
           /\ [d EXCEPT !.stuck = 0] \in Discoveries
           /\ Turned(d) \in Discoveries
           /\ \A e \in Lands(d) : e \in Discoveries
           /\ \A step \in RecordedSteps : Records(d, step) \in Discoveries
<1> USE DEF Discoveries
<1>1. d # Idle
  BY DEF Idle
<1>2. \A pc \in {"loop", "assist", "risky", "act", "limit"} : [d EXCEPT !.pc = pc] \in Discoveries
  OBVIOUS
<1>3. [d EXCEPT !.stuck = 0] \in Discoveries
  OBVIOUS
<1>4. Turned(d) \in Discoveries
  <2> PICK n : n = d.i + 1
    OBVIOUS
  <2>1. /\ n \in Nat /\ None \in Actions \cup {None} /\ None \in Controls \cup {None}
        /\ None \in Names \cup {None}
    OBVIOUS
  <2>2. [d EXCEPT !.pc = "loop", !.i = n, !.action = None, !.name = None, !.out = None,
                  !.risk = "safe"] \in Discoveries
    BY <2>1
  <2>3. Turned(d) = [d EXCEPT !.pc = "loop", !.i = n, !.action = None, !.name = None, !.out = None,
                              !.risk = "safe"]
    BY DEF Turned
  <2> QED BY <2>2, <2>3
<1>5. \A e \in Lands(d) : e \in Discoveries
  BY LoadedPages DEF Lands
<1>6. \A step \in RecordedSteps : Records(d, step) \in Discoveries
  <2> SUFFICES ASSUME NEW step \in RecordedSteps PROVE Records(d, step) \in Discoveries
    OBVIOUS
  <2>1. Append(d.recorded, step) \in Seq(RecordedSteps) /\ d.seen \cup {d.page} \in SUBSET Pages
    OBVIOUS
  <2> QED BY <2>1 DEF Records
<1> QED BY <1>1, <1>2, <1>3, <1>4, <1>5, <1>6

LEMMA ObservedParts ==
    ASSUME disc \in Discoveries
    PROVE  /\ Observed \in Discoveries /\ [Observed EXCEPT !.stuck = 0] \in Discoveries
           /\ \A action \in Actions, name \in Controls, out \in Names \cup {None} :
                Proposed(action, name, out) \in Discoveries
<1>1. Observed \in Discoveries
  <2> PICK n : n = IF disc.page = disc.last THEN disc.stuck + 1 ELSE 0
    OBVIOUS
  <2> PICK pages : pages = disc.seen \cup {disc.page}
    OBVIOUS
  <2>1. n \in Nat /\ disc.page \in Pages /\ pages \in SUBSET Pages
    BY DEF Discoveries
  <2>2. [disc EXCEPT !.stuck = n, !.last = disc.page, !.seen = pages] \in Discoveries
    BY <2>1 DEF Discoveries
  <2>3. Observed = [disc EXCEPT !.stuck = n, !.last = disc.page, !.seen = pages]
    BY DEF Observed
  <2> QED BY <2>2, <2>3
<1>2. ProposeRisk(disc.name) \in {"safe", "risky"} /\ \A name \in Controls : ProposeRisk(name) \in {"safe", "risky"}
  BY DEF ProposeRisk
<1>3. \A action \in Actions, name \in Controls, out \in Names \cup {None} :
        Proposed(action, name, out) \in Discoveries
  <2> HIDE DEF Observed
  <2> QED BY <1>1, <1>2 DEF Proposed, Discoveries
<1> QED BY <1>1, <1>3, DiscoveryParts

\* Where a discovery is asked a question of, nothing is being done.
LEMMA AskedStands ==
    ASSUME NEW d \in Discoveries, NEW pc \in {"assist", "limit"}, Asks(d, pc)
    PROVE  DiscoveryInv'
<1>1. CASE disc' = Idle
  BY <1>1 DEF DiscoveryInv
<1>2. CASE disc' = [d EXCEPT !.pc = pc]
  <2>1. disc' \in Discoveries
    BY <1>2, DiscoveryParts
  <2>2. disc'.pc = pc
    BY <1>2 DEF Discoveries
  <2> QED BY <2>1, <2>2 DEF DiscoveryInv
<1> QED BY <1>1, <1>2 DEF Asks, Ends

\* A step that is recorded is judged, and leads back to the loop.
LEMMA RecordedStands ==
    ASSUME NEW d \in Discoveries, NEW step \in RecordedSteps, Goes(Records(d, step))
    PROVE  DiscoveryInv'
<1>1. Records(d, step) \in Discoveries
  BY DiscoveryParts
<1> PICK e : e = Records(d, step)
  OBVIOUS
<1>2. e \in Discoveries /\ disc' = Turned(e)
  BY <1>1 DEF Goes
<1>3. disc' \in Discoveries /\ disc'.pc = "loop"
  <2>1. Turned(e) \in Discoveries
    BY <1>2, DiscoveryParts
  <2>2. Turned(e).pc = "loop"
    BY <1>2 DEF Turned, Discoveries
  <2> QED BY <1>2, <2>1, <2>2
<1> QED BY <1>3 DEF DiscoveryInv

LEMMA DoneSteps ==
    ASSUME disc \in Discoveries, disc.action \in Actions, disc.name \in Controls,
           disc.risk = ProposeRisk(disc.name), NEW by \in Helpers \cup {None}
    PROVE  Done(disc, by) \in RecordedSteps
  BY DEF Done, Step, RecordedSteps, Judged, ProposeRisk, Discoveries

LEMMA HelpedSteps ==
    ASSUME NEW name \in Controls, NEW who \in Helpers
    PROVE  Click(name, who) \in RecordedSteps
  BY HandsAssumption DEF Click, Step, RecordedSteps, Judged, Helpers

LEMMA DiscoveryStep == DiscoveryInv /\ [Next]_vars => DiscoveryInv'
<1> SUFFICES ASSUME DiscoveryInv, [Next]_vars PROVE DiscoveryInv'
  OBVIOUS
<1>1. CASE disc' = disc
  BY <1>1 DEF DiscoveryInv
<1>2. CASE disc' = Idle
  BY <1>2 DEF DiscoveryInv
<1>3. CASE Discovers
  <2>1. disc' \in Discoveries /\ disc'.pc = "loop"
    BY <1>3, LoadedPages DEF Discovers, Discoveries
  <2> QED BY <2>1 DEF DiscoveryInv
<1>4. CASE Stuck \/ ModelEscalates \/ PolicyAsks
  <2>1. disc \in Discoveries
    BY <1>4 DEF DiscoveryInv, Stuck, ModelEscalates, PolicyAsks, Decides, Observes, Looping, At, Idle
  <2>2. Asks(Observed, "assist") \/ Asks([Observed EXCEPT !.stuck = 0], "assist")
    BY <1>4 DEF Stuck, ModelEscalates, PolicyAsks
  <2> QED BY <2>1, <2>2, ObservedParts, AskedStands
<1>5. CASE OutOfSteps
  <2>1. disc \in Discoveries /\ Asks(disc, "limit")
    BY <1>5 DEF DiscoveryInv, OutOfSteps, At, Idle
  <2> QED BY <2>1, AskedStands
<1>6. CASE ModelActs
  <2>1. disc \in Discoveries
    BY <1>6 DEF DiscoveryInv, ModelActs, Decides, Observes, Looping, At, Idle
  <2>2. PICK action \in Actions, name \in Controls, out \in Names \cup {None}, pc \in {"risky", "act"} :
          disc' = [Proposed(action, name, out) EXCEPT !.pc = pc]
    BY <1>6 DEF ModelActs
  <2>3. Proposed(action, name, out) \in Discoveries
    BY <2>1, ObservedParts
  <2>4. Observed \in Discoveries
    BY <2>1, ObservedParts
  <2>5. /\ Proposed(action, name, out).action = action /\ Proposed(action, name, out).name = name
        /\ Proposed(action, name, out).risk = ProposeRisk(name)
    <3> HIDE DEF Observed
    <3> QED BY <2>4 DEF Proposed, Discoveries
  <2>6. disc' \in Discoveries
    BY <2>2, <2>3, DiscoveryParts
  <2>7. disc'.action = action /\ disc'.name = name /\ disc'.risk = ProposeRisk(name)
    BY <2>2, <2>3, <2>5 DEF Discoveries
  <2> QED BY <2>6, <2>7 DEF DiscoveryInv
<1>7. CASE RiskyAnswered \/ Acts
  <2>1. /\ disc \in Discoveries /\ disc.action \in Actions /\ disc.name \in Controls
        /\ disc.risk = ProposeRisk(disc.name)
    BY <1>7 DEF DiscoveryInv, RiskyAnswered, Acts, At, Idle
  <2>2. \A by \in Helpers \cup {None} : Done(disc, by) \in RecordedSteps
    BY <2>1, DoneSteps
  <2>3. \A e \in Lands(disc) : e \in Discoveries
    BY <2>1, DiscoveryParts
  <2>4. ASSUME NEW e \in Lands(disc), disc' = [e EXCEPT !.pc = "act"]
        PROVE  DiscoveryInv'
    <3>1. disc' \in Discoveries
      BY <2>3, <2>4, DiscoveryParts
    <3>2. disc'.action = disc.action /\ disc'.name = disc.name /\ disc'.risk = disc.risk
      BY <2>1, <2>4 DEF Lands, Discoveries
    <3> QED BY <2>1, <3>1, <3>2 DEF DiscoveryInv
  <2>5. ASSUME NEW e \in Lands(disc), NEW by \in Helpers \cup {None},
               Goes(Records(e, Done(disc, by)))
        PROVE  DiscoveryInv'
    BY <2>2, <2>3, <2>5, RecordedStands
  <2> QED BY <1>2, <1>7, <2>4, <2>5 DEF RiskyAnswered, Acts, Ends
<1>8. CASE Assisted
  <2>1. disc \in Discoveries
    BY <1>8 DEF DiscoveryInv, Assisted, At, Idle
  <2>2. CASE Helped(disc)
    <3>1. PICK e \in Lands(disc), name \in Controls, who \in Helpers :
            Goes(Records(e, Click(name, who)))
      BY <2>2 DEF Helped
    <3>2. e \in Discoveries /\ Click(name, who) \in RecordedSteps
      BY <2>1, DiscoveryParts, HelpedSteps
    <3> QED BY <3>1, <3>2, RecordedStands
  <2> QED BY <1>2, <1>8, <2>2 DEF Assisted, Ends
<1> QED BY <1>1, <1>2, <1>3, <1>4, <1>5, <1>6, <1>7, <1>8
        DEF Next, vars, ApproveReads, ApproveWrites, UrlThrows, ModelFinishes, LimitAnswered,
            Replays, ReplaysDraft, RunEnds, Ends

\* A recording is compiled step by step.
CompilesOneByOne(steps, recorded) ==
    /\ steps[0] = <<Entry>>
    /\ \A n \in 1..Len(recorded) :
         steps[n] = IF Leaves(steps[n - 1], recorded[n]) THEN Append(steps[n - 1], recorded[n])
                    ELSE steps[n - 1]
    /\ Compiled(recorded) = steps[Len(recorded)]

LEMMA Compiling ==
    ASSUME NEW S, Entry \in S, NEW recorded \in Seq(S)
    PROVE  \E steps \in [0..Len(recorded) -> Seq(S)] : CompilesOneByOne(steps, recorded)
<1> DEFINE After(n, t) == IF Leaves(t, recorded[n]) THEN Append(t, recorded[n]) ELSE t
           step == [n \in 1..Len(recorded) |-> [t \in Seq(S) |-> After(n, t)]]
           Equation(f) == f = [n \in 0..Len(recorded) |->
               IF n = 0 THEN <<Entry>>
               ELSE IF Leaves(f[n - 1], recorded[n]) THEN Append(f[n - 1], recorded[n]) ELSE f[n - 1]]
           steps == CHOOSE f : Equation(f)
           T == {n \in 0..Len(recorded) : steps[n] \in Seq(S)}
<1>1. Len(recorded) \in Nat /\ \A n \in 1..Len(recorded) : recorded[n] \in S
  OBVIOUS
<1>2. <<Entry>> \in Seq(S)
  OBVIOUS
<1>3. ASSUME NEW n \in 1..Len(recorded), NEW t \in Seq(S) PROVE Append(t, recorded[n]) \in Seq(S)
  BY <1>1
<1>4. \E f : Equation(f)
  <2>1. ASSUME NEW n \in 1..Len(recorded), NEW t \in Seq(S)
        PROVE  step[n][t] = After(n, t) /\ step[n][t] \in Seq(S)
    BY <1>3
  <2> HIDE DEF step
  <2>2. \E f \in [0..Len(recorded) -> Seq(S)] : Stepwise(f, Len(recorded), <<Entry>>, step)
    <3> DEFINE X == Seq(S)
               k == Len(recorded)
    <3>1. (\A n \in 1..k : \A t \in X : step[n][t] \in X) /\ <<Entry>> \in X /\ k \in Nat
      BY <1>1, <1>2, <2>1, Zenon
    <3> HIDE DEF X, k
    <3>2. \E f \in [0..k -> X] : Stepwise(f, k, <<Entry>>, step)
      BY ONLY <3>1, Recursion
    <3> QED BY <3>2 DEF X, k
  <2>3. PICK f \in [0..Len(recorded) -> Seq(S)] :
          f[0] = <<Entry>> /\ \A n \in 1..Len(recorded) : f[n] = step[n][f[n - 1]]
    BY <2>2 DEF Stepwise
  <2>4. ASSUME NEW n \in 0..Len(recorded)
        PROVE  f[n] = IF n = 0 THEN <<Entry>>
                      ELSE IF Leaves(f[n - 1], recorded[n]) THEN Append(f[n - 1], recorded[n]) ELSE f[n - 1]
    <3>1. n # 0 => n \in 1..Len(recorded) /\ f[n - 1] \in Seq(S)
      BY <1>1, <2>3
    <3> QED BY <3>1, <2>1, <2>3
  <2>5. Equation(f)
    BY <2>3, <2>4
  <2> QED BY <2>5
<1>5. Equation(steps)
  BY <1>4, Zenon
<1>6. Compiled(recorded) = steps[Len(recorded)]
  BY Zenon DEF Compiled
<1> HIDE DEF steps
<1>7. steps[0] = <<Entry>> /\ \A n \in 1..Len(recorded) :
        steps[n] = IF Leaves(steps[n - 1], recorded[n]) THEN Append(steps[n - 1], recorded[n])
                   ELSE steps[n - 1]
  <2>1. \A n \in 0..Len(recorded) : steps[n] = IF n = 0 THEN <<Entry>>
          ELSE IF Leaves(steps[n - 1], recorded[n]) THEN Append(steps[n - 1], recorded[n]) ELSE steps[n - 1]
    BY <1>5, Zenon
  <2>2. 0 \in 0..Len(recorded) /\ \A n \in 1..Len(recorded) : n \in 0..Len(recorded) /\ n # 0
    BY <1>1
  <2> QED BY <2>1, <2>2
<1>8. 0 \in T /\ \A n \in 1..Len(recorded) : n - 1 \in T => n \in T
  <2>1. 0 \in 0..Len(recorded) /\ \A n \in 1..Len(recorded) : n \in 0..Len(recorded)
    BY <1>1
  <2> QED BY <1>2, <1>3, <1>7, <2>1
<1> HIDE DEF T
<1>9. \A n \in 0..Len(recorded) : n \in T
  BY <1>1, <1>8, Induction, Zenon
<1>10. steps \in [0..Len(recorded) -> Seq(S)]
  <2>1. \A n \in 0..Len(recorded) : steps[n] \in Seq(S)
    BY <1>9 DEF T
  <2>2. steps = [n \in 0..Len(recorded) |-> steps[n]]
    BY <1>5
  <2> QED BY <2>1, <2>2
<1>11. CompilesOneByOne(steps, recorded)
  BY <1>6, <1>7, Zenon DEF CompilesOneByOne
<1> QED BY <1>10, <1>11

\* What is compiled is the way to the first page, and then steps of the recording.
LEMMA CompiledFrom ==
    ASSUME NEW S, Entry \in S, NEW recorded \in Seq(S)
    PROVE  /\ Compiled(recorded) \in Seq(S)
           /\ \A i \in 1..Len(Compiled(recorded)) :
                \/ Compiled(recorded)[i] = Entry
                \/ \E j \in 1..Len(recorded) : Compiled(recorded)[i] = recorded[j]
<1> DEFINE Good(t) == /\ t \in Seq(S)
                      /\ \A i \in 1..Len(t) : \/ t[i] = Entry
                                              \/ \E j \in 1..Len(recorded) : t[i] = recorded[j]
<1>1. Len(recorded) \in Nat /\ \A n \in 1..Len(recorded) : recorded[n] \in S
  OBVIOUS
<1>2. PICK steps \in [0..Len(recorded) -> Seq(S)] : CompilesOneByOne(steps, recorded)
  BY Compiling, Zenon
<1>3. /\ steps[0] = <<Entry>>
      /\ \A n \in 1..Len(recorded) :
           steps[n] = IF Leaves(steps[n - 1], recorded[n]) THEN Append(steps[n - 1], recorded[n])
                      ELSE steps[n - 1]
      /\ Compiled(recorded) = steps[Len(recorded)]
  BY <1>2, Zenon DEF CompilesOneByOne
<1>4. Good(<<Entry>>)
  OBVIOUS
<1>5. ASSUME NEW t, Good(t), NEW n \in 1..Len(recorded)
      PROVE  Good(Append(t, recorded[n]))
  BY <1>1, <1>5
<1> HIDE DEF Good
<1> DEFINE T == {n \in 0..Len(recorded) : Good(steps[n])}
<1>6. 0 \in T /\ \A n \in 1..Len(recorded) : n - 1 \in T => n \in T
  <2>1. ASSUME NEW n \in 1..Len(recorded), Good(steps[n - 1]) PROVE Good(steps[n])
    BY <1>3, <1>5, <2>1
  <2>2. Good(steps[0])
    BY <1>3, <1>4
  <2>3. 0 \in 0..Len(recorded) /\ \A n \in 1..Len(recorded) : n \in 0..Len(recorded)
    BY <1>1
  <2> QED BY <2>1, <2>2, <2>3, Zenon
<1> HIDE DEF T
<1>7. \A n \in 0..Len(recorded) : n \in T
  BY <1>1, <1>6, Induction, Zenon
<1>8. Len(recorded) \in T
  BY <1>1, <1>7
<1> QED BY <1>3, <1>8 DEF Good, T

\* A new recording: every step of it is judged, and if one was done by hand it says by whom.
LEMMA RecordingJudged ==
    ASSUME NEW recorded \in Seq(RecordedSteps), NEW seen, NEW late,
           Parses(Saved(CompileArtifact(recorded, seen, late)))
    PROVE  LET file == Saved(CompileArtifact(recorded, seen, late)) IN
           DOMAIN file = Fields /\ SaysWhoHelped(file) /\ JudgedFile(file)
<1> DEFINE file == Saved(CompileArtifact(recorded, seen, late))
           S == RecordedSteps \cup {Entry}
           GotHelp(i) == recorded[i].by \notin {None, Blank}
           who == Picked(recorded, {i \in DOMAIN recorded : GotHelp(i)})
<1>1. /\ DOMAIN file = Fields /\ file.steps = Compiled(recorded)
      /\ file.assistedBy = AssistedBy(recorded)
  BY DEF Saved, CompileArtifact, Fields
<1>2. AssistedBy(recorded) = IF who = <<>> THEN None ELSE who[1].by
  BY DEF AssistedBy, Assistants
<1>3. /\ Compiled(recorded) \in Seq(S)
      /\ \A i \in 1..Len(Compiled(recorded)) :
           \/ Compiled(recorded)[i] = Entry
           \/ \E j \in 1..Len(recorded) : Compiled(recorded)[i] = recorded[j]
  <2>1. Entry \in S /\ recorded \in Seq(S)
    OBVIOUS
  <2> HIDE DEF S
  <2> QED BY <2>1, CompiledFrom
<1>4. \A i \in DOMAIN Compiled(recorded) : i \in 1..Len(Compiled(recorded))
  BY <1>3
<1>5. Entry.by = None /\ Entry.control = None
  BY DEF Entry, Step
<1>6. \A j \in 1..Len(recorded) : Judged(recorded[j]) /\ j \in DOMAIN recorded
  BY DEF RecordedSteps
<1>9. \A i \in DOMAIN Compiled(recorded) : Compiled(recorded)[i].by # Blank
  BY <1>1 DEF Parses
<1> HIDE DEF file, S, who
<1>7. SaysWhoHelped(file)
  <2> SUFFICES ASSUME NEW i \in DOMAIN Compiled(recorded), Compiled(recorded)[i].by # None
               PROVE  AssistedBy(recorded) # None
    BY <1>1 DEF SaysWhoHelped
  <2>1. PICK j \in 1..Len(recorded) : GotHelp(j)
    BY <1>3, <1>4, <1>5, <1>9
  <2>2. IF who = <<>> THEN \A k \in 1..Len(recorded) : k \notin {i_1 \in DOMAIN recorded : GotHelp(i_1)}
        ELSE \E k \in 1..Len(recorded) : /\ k \in {i_1 \in DOMAIN recorded : GotHelp(i_1)}
                                         /\ who[1] = recorded[k]
    BY PickedFirst DEF who
  <2> QED BY <1>2, <1>6, <2>1, <2>2
<1>8. JudgedFile(file)
  <2> SUFFICES ASSUME NEW i \in DOMAIN Compiled(recorded), Compiled(recorded)[i].risk = "safe",
                      Compiled(recorded)[i].control \in RiskyNames
               PROVE  Compiled(recorded)[i].by # None
    BY <1>1 DEF JudgedFile, Review
  <2>1. Compiled(recorded)[i] # Entry
    BY <1>5, HandsAssumption
  <2>2. PICK j \in 1..Len(recorded) : Compiled(recorded)[i] = recorded[j]
    BY <1>3, <1>4, <2>1
  <2> QED BY <1>6, <2>2 DEF Judged
<1> QED BY <1>1, <1>7, <1>8 DEF file

LEMMA MisjudgedInit == Init => MisjudgedInv
<1> SUFFICES ASSUME Init PROVE MisjudgedInv
  OBVIOUS
<1>1. stored # NoFile => stored \in Files /\ DOMAIN stored = Fields /\ SaysWhoHelped(stored)
  BY FilesAssumption, HandsAssumption DEF Init
<1> QED BY <1>1 DEF Init, MisjudgedInv, DiscoveryInv, MisjudgedOnlyByHand

\* Nothing but the files matters to what is said of them.
LEMMA FilesStand ==
    ASSUME MisjudgedInv, DiscoveryInv', UNCHANGED <<stored, draft, approving>>
    PROVE  MisjudgedInv'
  BY DEF MisjudgedInv, MisjudgedOnlyByHand, JudgedFile, SaysWhoHelped, Review

\* A file that is judged takes the place of the capability or of the draft.
LEMMA JudgedWrite ==
    ASSUME MisjudgedInv, DiscoveryInv', NEW file,
           file # NoFile => DOMAIN file = Fields /\ SaysWhoHelped(file) /\ JudgedFile(file),
           \/ stored' = file /\ draft' = draft
           \/ draft' = file /\ stored' = stored,
           approving' = approving \/ approving' = NoFile
    PROVE  MisjudgedInv'
<1>1. \A f \in {stored, draft, approving, file} : f # NoFile => DOMAIN f = Fields /\ SaysWhoHelped(f)
  BY DEF MisjudgedInv
<1>2. \A f \in ({stored, draft} \ Files) \cup {file} : f # NoFile => JudgedFile(f)
  BY DEF MisjudgedInv, MisjudgedOnlyByHand, JudgedFile
<1>3. stored' \in {stored, file} /\ draft' \in {draft, file} /\ approving' \in {approving, NoFile}
  OBVIOUS
<1>4. \A f \in {stored', draft', approving'} : f # NoFile => DOMAIN f = Fields /\ SaysWhoHelped(f)
  BY <1>1, <1>3
<1>5. \A f \in {stored', draft'} \ Files : f # NoFile => JudgedFile(f) /\ SaysWhoHelped(f)
  BY <1>1, <1>2, <1>3
<1>6. approving' # NoFile => JudgedFile(approving')
  BY <1>3 DEF MisjudgedInv
<1> QED BY <1>4, <1>5, <1>6 DEF MisjudgedInv, MisjudgedOnlyByHand, JudgedFile, SaysWhoHelped, Review

\* The review found nothing in the file that two people approve.
LEMMA ApprovedJudged ==
    ASSUME MisjudgedInv, DiscoveryInv', ApproveReads
    PROVE  MisjudgedInv'
<1> DEFINE file == Migrated(stored)
<1>1. PICK a \in People, b \in People : approving' = Approve(file, a, b)
  BY DEF ApproveReads
<1>2. /\ stored # NoFile /\ DOMAIN stored = Fields /\ SaysWhoHelped(stored)
      /\ Review(file) = {} /\ UNCHANGED <<stored, draft>>
  BY DEF ApproveReads, MisjudgedInv, Loads
<1>3. DOMAIN file = Fields /\ file.steps = stored.steps /\ file.assistedBy = stored.assistedBy
  BY <1>2 DEF Migrated, Fields
<1> HIDE DEF file
<1>4. /\ DOMAIN approving' = Fields /\ approving'.steps = file.steps
      /\ approving'.assistedBy = file.assistedBy
  BY <1>1, <1>3 DEF Approve, Fields
<1> PICK new : new = approving'
  OBVIOUS
<1>5. SaysWhoHelped(new) /\ JudgedFile(new) /\ DOMAIN new = Fields
  BY <1>2, <1>3, <1>4 DEF SaysWhoHelped, JudgedFile, Review
<1>6. \A f \in {stored', draft', approving'} : f # NoFile => DOMAIN f = Fields /\ SaysWhoHelped(f)
  BY <1>2, <1>5 DEF MisjudgedInv
<1>7. \A f \in {stored', draft'} \ Files : f # NoFile => JudgedFile(f) /\ SaysWhoHelped(f)
  BY <1>2 DEF MisjudgedInv, MisjudgedOnlyByHand, JudgedFile
<1> QED BY <1>5, <1>6, <1>7 DEF MisjudgedInv, MisjudgedOnlyByHand, JudgedFile, SaysWhoHelped, Review

LEMMA MisjudgedStep == MisjudgedInv /\ [Next]_vars => MisjudgedInv'
<1> SUFFICES ASSUME MisjudgedInv, [Next]_vars PROVE MisjudgedInv'
  OBVIOUS
<1>1. DiscoveryInv'
  BY DiscoveryStep DEF MisjudgedInv
<1>2. CASE UNCHANGED <<stored, draft, approving>>
  BY <1>1, <1>2, FilesStand
<1>3. CASE ApproveReads
  BY <1>1, <1>3, ApprovedJudged
<1>4. CASE ApproveWrites
  <2>1. approving # NoFile => DOMAIN approving = Fields /\ SaysWhoHelped(approving) /\ JudgedFile(approving)
    BY DEF MisjudgedInv
  <2> QED BY <1>1, <1>4, <2>1, JudgedWrite DEF ApproveWrites
<1>5. ASSUME NEW recorded \in Seq(RecordedSteps), NEW seen, NEW late,
             Finishes(recorded, seen, late), UNCHANGED approving
      PROVE  MisjudgedInv'
  <2> PICK file : file = Saved(CompileArtifact(recorded, seen, late))
    OBVIOUS
  <2>1. Parses(file) => DOMAIN file = Fields /\ SaysWhoHelped(file) /\ JudgedFile(file)
    BY RecordingJudged
  <2>2. \/ UNCHANGED <<stored, draft>>
        \/ Parses(file) /\ draft' = file /\ stored' = stored
        \/ Parses(file) /\ stored' = file /\ draft' = draft
    BY <1>5, FinishesWrites
  <2> QED BY <1>1, <1>2, <1>5, <2>1, <2>2, JudgedWrite
<1>6. CASE ModelFinishes
  <2>1. disc \in Discoveries
    BY <1>6 DEF MisjudgedInv, DiscoveryInv, ModelFinishes, Decides, Observes, Looping, At, Idle
  <2>2. disc.recorded \in Seq(RecordedSteps)
    BY <2>1 DEF Discoveries
  <2> QED BY <1>5, <1>6, <2>2 DEF ModelFinishes
<1>7. CASE LimitAnswered
  <2>1. CASE UNCHANGED <<stored, draft>>
    BY <1>2, <1>7, <2>1 DEF LimitAnswered
  <2>2. ASSUME NEW e \in Lands(disc), NEW name \in Controls, NEW who \in Helpers, NEW seen, NEW late,
               Finishes(Records(e, Click(name, who)).recorded, seen, late)
        PROVE  MisjudgedInv'
    <3>1. disc \in Discoveries
      BY <1>7 DEF MisjudgedInv, DiscoveryInv, LimitAnswered, At, Idle
    <3>2. Records(e, Click(name, who)) \in Discoveries
      BY <3>1, HelpedSteps, DiscoveryParts
    <3>3. Records(e, Click(name, who)).recorded \in Seq(RecordedSteps)
      BY <3>2 DEF Discoveries
    <3> QED BY <1>5, <1>7, <2>2, <3>3 DEF LimitAnswered
  <2> QED BY <1>7, <2>1, <2>2 DEF LimitAnswered
<1> QED BY <1>2, <1>3, <1>4, <1>6, <1>7
        DEF Next, vars, Discovers, UrlThrows, Stuck, ModelEscalates, PolicyAsks, ModelActs,
            RiskyAnswered, Acts, Assisted, OutOfSteps, Replays, ReplaysDraft, RunEnds

\* A control with a risky name is safe in a new file only if a person did the step, and the
\* file says whose hand it was (discover.ts 147-173, 229-265, compile.ts 141-227, 287-296).
THEOREM HandsAreTold == Spec => []MisjudgedOnlyByHand
<1>1. MisjudgedInv => MisjudgedOnlyByHand
  BY DEF MisjudgedInv
<1> QED BY <1>1, MisjudgedInit, MisjudgedStep, PTL DEF Spec

---------------------------------------------------------------------------
(* The route patterns.                                                     *)

\* The pattern's tokens from i on are laid over the path's segments from j on by c, which
\* says for each token where its segments end.
Laid(pat, path, i, c) ==
    \A h \in i..Len(pat) :
      /\ IF pat[h] = "**" THEN c[h] >= c[h - 1] ELSE c[h] = c[h - 1] + 1
      /\ pat[h] \notin {"*", "**"} => pat[h] = path[c[h]]
Lays(pat, path, i, j) ==
    \E c \in [i - 1..Len(pat) -> 0..Len(path)] :
      c[i - 1] = j - 1 /\ c[Len(pat)] = Len(path) /\ Laid(pat, path, i, c)

\* Token i may take the segments from j on up to the one before k.
Takes(pat, path, i, j, k) ==
    /\ IF pat[i] = "**" THEN k >= j ELSE k = j + 1
    /\ pat[i] \notin {"*", "**"} => pat[i] = path[k - 1]

LEMMA LaysEnd ==
    ASSUME NEW S, NEW pat \in Seq(S), NEW path \in Seq(S), NEW j \in 1..Len(path) + 1
    PROVE  Lays(pat, path, Len(pat) + 1, j) <=> j = Len(path) + 1
<1>1. Len(pat) \in Nat /\ Len(path) \in Nat
  OBVIOUS
<1>2. ASSUME j = Len(path) + 1 PROVE Lays(pat, path, Len(pat) + 1, j)
  <2> DEFINE c == [h \in Len(pat)..Len(pat) |-> Len(path)]
  <2>1. c \in [(Len(pat) + 1) - 1..Len(pat) -> 0..Len(path)]
    BY <1>1
  <2>2. c[(Len(pat) + 1) - 1] = j - 1 /\ c[Len(pat)] = Len(path)
    BY <1>1, <1>2
  <2>3. Laid(pat, path, Len(pat) + 1, c)
    BY <1>1 DEF Laid
  <2> HIDE DEF c
  <2> QED BY <2>1, <2>2, <2>3 DEF Lays
<1>3. ASSUME Lays(pat, path, Len(pat) + 1, j) PROVE j = Len(path) + 1
  BY <1>1, <1>3 DEF Lays
<1> QED BY <1>2, <1>3

LEMMA LaysStep ==
    ASSUME NEW S, NEW pat \in Seq(S), NEW path \in Seq(S),
           NEW i \in 1..Len(pat), NEW j \in 1..Len(path) + 1
    PROVE  Lays(pat, path, i, j)
           <=> \E k \in 1..Len(path) + 1 : Takes(pat, path, i, j, k) /\ Lays(pat, path, i + 1, k)
<1>1. Len(pat) \in Nat /\ Len(path) \in Nat
  OBVIOUS
<1>2. ASSUME Lays(pat, path, i, j)
      PROVE  \E k \in 1..Len(path) + 1 : Takes(pat, path, i, j, k) /\ Lays(pat, path, i + 1, k)
  <2>1. PICK c \in [i - 1..Len(pat) -> 0..Len(path)] :
          c[i - 1] = j - 1 /\ c[Len(pat)] = Len(path) /\ Laid(pat, path, i, c)
    BY <1>2 DEF Lays
  <2> DEFINE d == [h \in i..Len(pat) |-> c[h]]
  <2>2. /\ i \in i..Len(pat) /\ Len(pat) \in i..Len(pat)
        /\ \A h \in i..Len(pat) : h \in i - 1..Len(pat) /\ h - 1 \in i - 1..Len(pat) /\ c[h] \in 0..Len(path)
    BY <1>1
  <2>3. d \in [(i + 1) - 1..Len(pat) -> 0..Len(path)]
    BY <1>1, <2>2
  <2>4. \A h \in i..Len(pat) : d[h] = c[h]
    OBVIOUS
  <2> HIDE DEF d
  <2>5. Takes(pat, path, i, j, c[i] + 1)
    <3>1. /\ IF pat[i] = "**" THEN c[i] >= c[i - 1] ELSE c[i] = c[i - 1] + 1
          /\ pat[i] \notin {"*", "**"} => pat[i] = path[c[i]]
      BY <2>1, <2>2 DEF Laid
    <3>2. c[i] \in Int /\ j \in Int /\ (c[i] + 1) - 1 = c[i]
      BY <1>1, <2>2
    <3> QED BY <2>1, <3>1, <3>2 DEF Takes
  <2>6. Laid(pat, path, i + 1, d)
    <3> SUFFICES ASSUME NEW h \in i + 1..Len(pat)
                 PROVE  /\ IF pat[h] = "**" THEN d[h] >= d[h - 1] ELSE d[h] = d[h - 1] + 1
                        /\ pat[h] \notin {"*", "**"} => pat[h] = path[d[h]]
      BY DEF Laid
    <3>1. h \in i..Len(pat) /\ h - 1 \in i..Len(pat)
      BY <1>1
    <3>2. /\ IF pat[h] = "**" THEN c[h] >= c[h - 1] ELSE c[h] = c[h - 1] + 1
          /\ pat[h] \notin {"*", "**"} => pat[h] = path[c[h]]
      BY <2>1, <3>1, Zenon DEF Laid
    <3>3. d[h] = c[h] /\ d[h - 1] = c[h - 1]
      BY <2>4, <3>1, Zenon
    <3> QED BY <3>2, <3>3, Zenon
  <2>7. d[(i + 1) - 1] = (c[i] + 1) - 1 /\ d[Len(pat)] = Len(path)
    <3>1. (i + 1) - 1 = i /\ (c[i] + 1) - 1 = c[i]
      BY <1>1, <2>2
    <3>2. d[i] = c[i] /\ d[Len(pat)] = c[Len(pat)]
      BY <2>2, <2>4, Zenon
    <3> QED BY <2>1, <3>1, <3>2, Zenon
  <2>8. Lays(pat, path, i + 1, c[i] + 1)
    BY <2>3, <2>6, <2>7 DEF Lays
  <2>9. c[i] + 1 \in 1..Len(path) + 1
    BY <1>1, <2>2
  <2> QED BY <2>5, <2>8, <2>9
<1>3. ASSUME NEW k \in 1..Len(path) + 1, Takes(pat, path, i, j, k), Lays(pat, path, i + 1, k)
      PROVE  Lays(pat, path, i, j)
  <2>1. PICK d \in [(i + 1) - 1..Len(pat) -> 0..Len(path)] :
          d[(i + 1) - 1] = k - 1 /\ d[Len(pat)] = Len(path) /\ Laid(pat, path, i + 1, d)
    BY <1>3 DEF Lays
  <2>2. (i + 1) - 1 = i /\ d[i] = k - 1
    BY <1>1, <2>1
  <2> DEFINE c == [h \in i - 1..Len(pat) |-> IF h = i - 1 THEN j - 1 ELSE d[h]]
  <2>3. c \in [i - 1..Len(pat) -> 0..Len(path)] /\ c[i - 1] = j - 1
    BY <1>1, <2>2
  <2>4. \A h \in i..Len(pat) : c[h] = d[h] /\ h \in i - 1..Len(pat)
    BY <1>1
  <2> HIDE DEF c
  <2>5. c[Len(pat)] = Len(path)
    BY <1>1, <2>1, <2>4
  <2>6. Laid(pat, path, i, c)
    <3> SUFFICES ASSUME NEW h \in i..Len(pat)
                 PROVE  /\ IF pat[h] = "**" THEN c[h] >= c[h - 1] ELSE c[h] = c[h - 1] + 1
                        /\ pat[h] \notin {"*", "**"} => pat[h] = path[c[h]]
      BY DEF Laid
    <3>1. CASE h = i
      <4>1. c[h] = k - 1 /\ c[h - 1] = j - 1
        BY <2>2, <2>3, <2>4, <3>1
      <4> QED BY <1>1, <1>3, <3>1, <4>1 DEF Takes
    <3>2. CASE h # i
      <4>1. h \in i + 1..Len(pat) /\ h - 1 \in i..Len(pat)
        BY <1>1, <3>2
      <4> QED BY <2>1, <2>4, <4>1 DEF Laid
    <3> QED BY <3>1, <3>2
  <2> QED BY <2>3, <2>5, <2>6 DEF Lays
<1> QED BY <1>2, <1>3

\* The segments from which the pattern matches from token i on, by those from which it
\* matches from the token after it.
FromHere(pat, segs, i, after) ==
    {j \in 1..Len(segs) + 1 :
       \/ j = Len(segs) + 1 /\ \A k \in i..Len(pat) : pat[k] = "**"
       \/ /\ j < Len(segs) + 1 /\ i <= Len(pat) /\ pat[i] = "**"
          /\ i = Len(pat) \/ \E k \in j..Len(segs) + 1 : k \in after
       \/ /\ j < Len(segs) + 1 /\ i <= Len(pat) /\ pat[i] # "**"
          /\ pat[i] \in {"*", segs[j]} /\ j + 1 \in after}

LEMMA MatchesBackwards ==
    ASSUME NEW S, NEW pat \in Seq(S), NEW segs \in Seq(S)
    PROVE  \E from : /\ \A i \in 1..Len(pat) + 1 : from[i] = FromHere(pat, segs, i, from[i + 1])
                     /\ MatchSegs(pat, segs) <=> 1 \in from[1]
<1> DEFINE L == Len(pat)
           X == SUBSET (1..Len(segs) + 1)
           Equation(f) == f = [i \in 1..Len(pat) + 1 |->
             {j \in 1..Len(segs) + 1 :
                \/ j = Len(segs) + 1 /\ \A k \in i..Len(pat) : pat[k] = "**"
                \/ /\ j < Len(segs) + 1 /\ i <= Len(pat) /\ pat[i] = "**"
                   /\ i = Len(pat) \/ \E k \in j..Len(segs) + 1 : k \in f[i + 1]
                \/ /\ j < Len(segs) + 1 /\ i <= Len(pat) /\ pat[i] # "**"
                   /\ pat[i] \in {"*", segs[j]} /\ j + 1 \in f[i + 1]}]
           from == CHOOSE f : Equation(f)
           step == [n \in 1..L |-> [x \in X |-> FromHere(pat, segs, L + 1 - n, x)]]
           base == FromHere(pat, segs, L + 1, {})
<1>1. L \in Nat
  OBVIOUS
<1>2. \A i, after : FromHere(pat, segs, i, after) \in X
  BY DEF FromHere
<1>3. \E g \in [0..L -> X] : Stepwise(g, L, base, step)
  <2>1. ASSUME NEW n \in 1..L, NEW x \in X PROVE step[n][x] \in X
    BY <1>2
  <2>2. base \in X
    BY <1>2
  <2> HIDE DEF L, X, step, base
  <2> QED BY <1>1, <2>1, <2>2, Recursion
<1>4. \E f : Equation(f)
  <2>1. PICK g \in [0..L -> X] : g[0] = base /\ \A n \in 1..L : g[n] = step[n][g[n - 1]]
    BY <1>3 DEF Stepwise
  <2> DEFINE f == [i \in 1..L + 1 |-> g[L + 1 - i]]
  <2>2. ASSUME NEW i \in 1..L + 1 PROVE f[i] = FromHere(pat, segs, i, f[i + 1])
    <3>1. CASE i = L + 1
      <4>1. \A after : FromHere(pat, segs, L + 1, after) = base
        BY <1>1 DEF FromHere
      <4>2. f[i] = g[0]
        BY <1>1, <3>1
      <4> HIDE DEF f, base
      <4> QED BY <2>1, <3>1, <4>1, <4>2
    <3>2. CASE i # L + 1
      <4> PICK n : n = L + 1 - i
        OBVIOUS
      <4>1. n \in 1..L /\ n - 1 = L + 1 - (i + 1) /\ i + 1 \in 1..L + 1 /\ n - 1 \in 0..L /\ L + 1 - n = i
        BY <1>1, <3>2
      <4>2. f[i] = g[n] /\ f[i + 1] = g[n - 1] /\ g[n - 1] \in X
        BY <2>1, <4>1
      <4>3. step[n][g[n - 1]] = FromHere(pat, segs, i, g[n - 1])
        BY <4>1, <4>2
      <4> HIDE DEF f, step, X
      <4> QED BY <2>1, <4>1, <4>2, <4>3
    <3> QED BY <3>1, <3>2
  <2>3. f = [i \in 1..L + 1 |-> f[i]]
    OBVIOUS
  <2> HIDE DEF f
  <2>4. f = [i \in 1..Len(pat) + 1 |-> FromHere(pat, segs, i, f[i + 1])]
    BY <2>2, <2>3
  <2>5. Equation(f)
    BY <2>4, Zenon DEF FromHere
  <2> QED BY <2>5
<1>5. Equation(from)
  BY <1>4, Zenon
<1>6. MatchSegs(pat, segs) <=> 1 \in from[1]
  BY Zenon DEF MatchSegs
<1> HIDE DEF from
<1>7. \A i \in 1..Len(pat) + 1 : from[i] = FromHere(pat, segs, i, from[i + 1])
  BY <1>5, Zenon DEF FromHere
<1> QED BY <1>6, <1>7

\* A pattern matches a path exactly if it can be laid over it.
LEMMA MatchesLay ==
    ASSUME NEW S, NEW pat \in Seq(S), NEW path \in Seq(S)
    PROVE  MatchSegs(pat, path) <=> Lays(pat, path, 1, 1)
<1> PICK L : L = Len(pat)
  OBVIOUS
<1> PICK end : end = Len(path) + 1
  OBVIOUS
<1>1. L \in Nat /\ end \in Nat \ {0}
  OBVIOUS
<1>2. PICK from : /\ \A i \in 1..L + 1 : from[i] = FromHere(pat, path, i, from[i + 1])
                  /\ MatchSegs(pat, path) <=> 1 \in from[1]
  BY MatchesBackwards
<1> DEFINE AllStars(i) == \A k \in i..L : pat[k] = "**"
           Same(i) == \A j \in 1..end : j \in from[i] <=> Lays(pat, path, i, j)
           T == {n \in 0..L : Same(L + 1 - n)}
<1>3. ASSUME NEW i \in 1..L + 1 PROVE end \in from[i] <=> AllStars(i)
  <2>1. from[i] = FromHere(pat, path, i, from[i + 1]) /\ end \in 1..end
    BY <1>1, <1>2
  <2> QED BY <2>1, <1>1, SMTT(30) DEF FromHere
<1>4. Same(L + 1)
  <2>1. ASSUME NEW j \in 1..end PROVE j \in from[L + 1] <=> j = end
    <3>1. from[L + 1] = FromHere(pat, path, L + 1, from[(L + 1) + 1])
      BY <1>1, <1>2
    <3> QED BY <1>1, <3>1 DEF FromHere
  <2>2. ASSUME NEW j \in 1..end PROVE Lays(pat, path, L + 1, j) <=> j = end
    BY LaysEnd
  <2> QED BY <2>1, <2>2
<1>5. ASSUME NEW i \in 1..L, Same(i + 1) PROVE Same(i)
  <2> SUFFICES ASSUME NEW j \in 1..end PROVE j \in from[i] <=> Lays(pat, path, i, j)
    OBVIOUS
  <2>1. Lays(pat, path, i, j) <=> \E k \in 1..end : Takes(pat, path, i, j, k) /\ k \in from[i + 1]
    <3>1. Lays(pat, path, i, j) <=> \E k \in 1..end : Takes(pat, path, i, j, k) /\ Lays(pat, path, i + 1, k)
      BY LaysStep
    <3> QED BY <1>5, <3>1
  <2>2. from[i] = FromHere(pat, path, i, from[i + 1])
    BY <1>1, <1>2
  <2>3. i + 1 \in 1..L + 1 /\ i \in 1..L + 1 /\ j \in Int /\ end \in 1..end
    BY <1>1
  <2>4. end \in from[i + 1] <=> AllStars(i + 1)
    BY <1>3, <2>3
  <2>5. CASE j = end
    <3>1. j \in from[i] <=> AllStars(i)
      BY <1>3, <2>3, <2>5
    <3>2. AllStars(i) <=> pat[i] = "**" /\ AllStars(i + 1)
      BY <1>1
    <3>3. (\E k \in 1..end : Takes(pat, path, i, j, k) /\ k \in from[i + 1])
          <=> pat[i] = "**" /\ end \in from[i + 1]
      <4>1. \A k \in 1..end : Takes(pat, path, i, j, k) <=> pat[i] = "**" /\ k = end
        BY <1>1, <2>5 DEF Takes
      <4> QED BY <2>3, <4>1
    <3> QED BY <2>1, <2>4, <3>1, <3>2, <3>3
  <2>6. CASE j # end /\ pat[i] = "**"
    <3>1. \A k \in 1..end : Takes(pat, path, i, j, k) <=> k \in j..end
      BY <1>1, <2>6 DEF Takes
    <3>2. j \in from[i] <=> i = L \/ \E k \in j..end : k \in from[i + 1]
      BY <1>1, <2>2, <2>6 DEF FromHere
    <3>3. i = L => end \in from[i + 1] /\ end \in j..end
      BY <1>1, <2>4
    <3> QED BY <2>1, <3>1, <3>2, <3>3
  <2>7. CASE j # end /\ pat[i] # "**"
    <3>1. \A k \in 1..end : Takes(pat, path, i, j, k) <=> k = j + 1 /\ pat[i] \in {"*", path[j]}
      <4> SUFFICES ASSUME NEW k \in 1..end
                   PROVE  Takes(pat, path, i, j, k) <=> k = j + 1 /\ pat[i] \in {"*", path[j]}
        OBVIOUS
      <4>1. k = j + 1 => k - 1 = j
        BY <1>1
      <4> QED BY <2>7, <4>1 DEF Takes
    <3>2. j \in from[i] <=> pat[i] \in {"*", path[j]} /\ j + 1 \in from[i + 1]
      BY <1>1, <2>2, <2>7 DEF FromHere
    <3>3. j + 1 \in 1..end
      BY <1>1, <2>7
    <3> QED BY <2>1, <3>1, <3>2, <3>3
  <2> QED BY <2>5, <2>6, <2>7
<1> HIDE DEF Same
<1>6. 0 \in T /\ \A n \in 1..L : n - 1 \in T => n \in T
  <2>1. Same(L + 1 - 0)
    BY <1>1, <1>4
  <2>2. ASSUME NEW n \in 1..L, Same(L + 1 - (n - 1)) PROVE Same(L + 1 - n)
    <3> PICK i : i = L + 1 - n
      OBVIOUS
    <3>1. i \in 1..L /\ L + 1 - (n - 1) = i + 1
      BY <1>1
    <3> QED BY <1>5, <2>2, <3>1
  <2>3. 0 \in 0..L /\ \A n \in 1..L : n \in 0..L
    BY <1>1
  <2> QED BY <2>1, <2>2, <2>3, Zenon
<1> HIDE DEF T
<1>7. \A n \in 0..L : n \in T
  BY <1>1, <1>6, Induction, Zenon
<1>8. Same(1)
  <2>1. L \in T /\ L + 1 - L = 1
    BY <1>1, <1>7
  <2> QED BY <2>1 DEF T
<1>9. 1 \in 1..end
  BY <1>1
<1> QED BY <1>2, <1>8, <1>9 DEF Same

\* A rule is one for a request exactly if its pattern is said to mean the path.
LEMMA RoutesCover ==
    ASSUME NEW rule \in AllowedRoutes \cup DeniedRoutes, NEW page \in Pages, NEW method
    PROVE  MatchRoute(rule, method, page.url.path) <=> Covers(rule, method, page.url.path)
<1> PICK pat : pat = rule.path
  OBVIOUS
<1> PICK path : path = page.url.path
  OBVIOUS
<1>1. pat \in Seq(STRING) /\ path \in Seq(STRING)
  BY PathsAssumption
<1>2. DOMAIN pat = 1..Len(pat) /\ 1 - 1 = 0
  BY <1>1
<1>3. MatchSegs(pat, path) <=> Lays(pat, path, 1, 1)
  BY <1>1, MatchesLay
<1>4. Lays(pat, path, 1, 1)
      <=> \E c \in Cuts(pat, path) : \A i \in DOMAIN pat :
            pat[i] \notin {"*", "**"} => pat[i] = path[c[i]]
  <2>1. Lays(pat, path, 1, 1)
        <=> \E c \in [0..Len(pat) -> 0..Len(path)] :
              c[0] = 0 /\ c[Len(pat)] = Len(path) /\ Laid(pat, path, 1, c)
    BY <1>2 DEF Lays
  <2>2. ASSUME NEW c \in [0..Len(pat) -> 0..Len(path)]
        PROVE  c[0] = 0 /\ c[Len(pat)] = Len(path) /\ Laid(pat, path, 1, c)
               <=> /\ c \in Cuts(pat, path)
                   /\ \A i \in DOMAIN pat : pat[i] \notin {"*", "**"} => pat[i] = path[c[i]]
    BY <1>2 DEF Laid, Cuts
  <2>3. \A c \in Cuts(pat, path) : c \in [0..Len(pat) -> 0..Len(path)]
    BY DEF Cuts
  <2> QED BY <2>1, <2>2, <2>3, Zenon
<1> QED BY <1>3, <1>4 DEF MatchRoute, MatchMethod, Covers

\* What a turn lets pass is what may be read.
LEMMA TurnsRead == \A page \in Pages : AssertUrl(page.url) => page \in MayBeRead
<1> SUFFICES ASSUME NEW page \in Pages, AssertUrl(page.url) PROVE page \in MayBeRead
  OBVIOUS
<1>1. \A rule \in AllowedRoutes \cup DeniedRoutes :
        MatchRoute(rule, "GET", page.url.path) <=> Covers(rule, "GET", page.url.path)
  BY RoutesCover
<1> QED BY <1>1 DEF AssertUrl, AssertRequest, MayBeRead

Checked(pages) == \A page \in pages : AssertUrl(page.url)
ReadFrom(file) == file # NoFile => file.seen \ file.late \subseteq MayBeRead

\* What a discovery has been shown passed the check of a turn, but for the page of the last
\* step until the next turn; and so a file that may yet be written was made where it may read.
SeenInv ==
    /\ disc # Idle =>
         Checked(IF disc.pc \in {"loop", "limit"} THEN disc.seen \ {disc.page} ELSE disc.seen)
    /\ ReadFrom(stored) /\ ReadFrom(draft) /\ ReadFrom(approving)

\* A turn goes on only if the page it observes passes.
LEMMA TurnChecks ==
    ASSUME SeenInv, DiscoveryInv, Observes
    PROVE  /\ disc \in Discoveries
           /\ Checked(Observed.seen) /\ Observed.seen \in SUBSET Pages
<1>1. disc \in Discoveries /\ disc # Idle /\ disc.pc = "loop" /\ AssertUrl(disc.page.url)
  BY DEF DiscoveryInv, Observes, Looping, At, Idle
<1>2. Observed.seen = disc.seen \cup {disc.page}
  BY <1>1 DEF Observed, Discoveries
<1>3. Observed.seen \in SUBSET Pages
  BY <1>1, <1>2 DEF Discoveries
<1> QED BY <1>1, <1>2, <1>3 DEF SeenInv, Checked

\* Recording a step adds the page that is shown after it, and a turn begins there.
LEMMA RecordedSeen ==
    ASSUME NEW d \in Discoveries, NEW e \in Lands(d), NEW step \in RecordedSteps
    PROVE  /\ Records(e, step).seen = d.seen \cup {e.page}
           /\ Goes(Records(e, step)) =>
                disc'.pc = "loop" /\ disc'.page = e.page /\ disc'.seen = d.seen \cup {e.page}
<1>1. e \in Discoveries /\ e.seen = d.seen
  <2>1. e \in Discoveries
    BY DiscoveryParts
  <2>2. e.seen = d.seen
    BY DEF Lands, Discoveries
  <2> QED BY <2>1, <2>2
<1> PICK f : f = Records(e, step)
  OBVIOUS
<1>2. f \in Discoveries
  BY <1>1, DiscoveryParts
<1>3. f.seen = d.seen \cup {e.page} /\ f.page = e.page
  BY <1>1 DEF Records, Discoveries
<1>4. Turned(f).pc = "loop" /\ Turned(f).page = f.page /\ Turned(f).seen = f.seen
  BY <1>2 DEF Turned, Discoveries
<1> QED BY <1>3, <1>4 DEF Goes

LEMMA FileReads ==
    ASSUME NEW recorded, NEW seen, NEW late
    PROVE  LET file == Saved(CompileArtifact(recorded, seen, late)) IN
           file.seen = seen /\ file.late = late
  BY DEF Saved, CompileArtifact

\* Whatever is written of a discovery was made from pages that passed a turn, or are late.
LEMMA WrittenReads ==
    ASSUME SeenInv, NEW recorded, NEW seen, NEW late, Finishes(recorded, seen, late),
           seen \ late \subseteq MayBeRead
    PROVE  ReadFrom(stored') /\ ReadFrom(draft')
<1> PICK file : file = Saved(CompileArtifact(recorded, seen, late))
  OBVIOUS
<1>1. ReadFrom(file)
  BY FileReads DEF ReadFrom
<1>2. stored' \in {stored, file} /\ draft' \in {draft, file}
  BY FinishesWrites
<1> QED BY <1>1, <1>2 DEF SeenInv, ReadFrom

LEMMA SeenInit == Init => SeenInv
<1> SUFFICES ASSUME Init PROVE SeenInv
  OBVIOUS
<1>1. ReadFrom(stored)
  BY FilesAssumption DEF Init, ReadFrom
<1> QED BY <1>1 DEF Init, SeenInv, ReadFrom

LEMMA SeenStep == AuthoringInv /\ DiscoveryInv /\ SeenInv /\ [Next]_vars => SeenInv'
<1> SUFFICES ASSUME AuthoringInv, DiscoveryInv, SeenInv, [Next]_vars PROVE SeenInv'
  OBVIOUS
<1>1. ASSUME UNCHANGED <<stored, draft, approving>>,
             \/ disc' = disc \/ disc' = Idle
             \/ Checked(disc'.seen)
             \/ disc'.pc \in {"loop", "limit"} /\ Checked(disc'.seen \ {disc'.page})
      PROVE  SeenInv'
  BY <1>1 DEF SeenInv, ReadFrom, Checked, AssertUrl, AssertRequest
<1>3. CASE ApproveReads
  <2>1. PICK a \in People, b \in People : approving' = Approve(Migrated(stored), a, b)
    BY <1>3 DEF ApproveReads
  <2>2. stored # NoFile /\ DOMAIN stored = Fields
    BY <1>3 DEF ApproveReads, Loads, AuthoringInv, Sound
  <2>3. DOMAIN Migrated(stored) = Fields /\ Migrated(stored).seen = stored.seen
        /\ Migrated(stored).late = stored.late
    BY <2>2 DEF Migrated, Fields
  <2>4. approving'.seen = stored.seen /\ approving'.late = stored.late
    BY <2>1, <2>3 DEF Approve, Fields
  <2>5. ReadFrom(approving')
    BY <2>2, <2>4 DEF SeenInv, ReadFrom
  <2> QED BY <1>3, <2>5 DEF ApproveReads, SeenInv, ReadFrom, Checked, AssertUrl, AssertRequest
<1>4. CASE ApproveWrites
  BY <1>4 DEF ApproveWrites, SeenInv, ReadFrom, Checked, AssertUrl, AssertRequest
<1>5. CASE Discovers
  <2>1. disc'.seen = {}
    BY <1>5 DEF Discovers
  <2> QED BY <1>1, <1>5, <2>1 DEF Discovers, Checked
<1>6. CASE Stuck \/ ModelEscalates \/ PolicyAsks \/ ModelActs
  <2>1. Observes
    BY <1>6 DEF Stuck, ModelEscalates, PolicyAsks, ModelActs, Decides
  <2>2. disc \in Discoveries /\ Checked(Observed.seen)
    BY <2>1, TurnChecks
  <2>3. Observed \in Discoveries
    BY <2>2, ObservedParts
  <2> DEFINE rested == [Observed EXCEPT !.stuck = 0]
  <2>4. rested.seen = Observed.seen /\ rested \in Discoveries
    BY <2>3, DiscoveryParts DEF Discoveries
  <2>5. ASSUME NEW d \in Discoveries, d.seen = Observed.seen, Asks(d, "assist")
        PROVE  disc' = Idle \/ disc'.seen = Observed.seen
    BY <2>5 DEF Asks, Ends, Discoveries
  <2>6. CASE Stuck \/ ModelEscalates \/ PolicyAsks
    <3> HIDE DEF rested
    <3>1. disc' = Idle \/ disc'.seen = Observed.seen
      <4>1. Asks(Observed, "assist") \/ Asks(rested, "assist")
        BY <2>6 DEF Stuck, ModelEscalates, PolicyAsks, rested
      <4> QED BY <2>3, <2>4, <2>5, <4>1
    <3>2. UNCHANGED <<stored, draft, approving>>
      BY <2>6 DEF Stuck, ModelEscalates, PolicyAsks
    <3> QED BY <1>1, <2>2, <3>1, <3>2
  <2>7. CASE ModelActs
    <3>1. PICK action \in Actions, name \in Controls, out \in Names \cup {None}, pc \in {"risky", "act"} :
            disc' = [Proposed(action, name, out) EXCEPT !.pc = pc]
      BY <2>7 DEF ModelActs
    <3>2. Proposed(action, name, out) \in Discoveries
      BY <2>2, ObservedParts
    <3>3. Proposed(action, name, out).seen = Observed.seen
      <4> HIDE DEF Observed
      <4> QED BY <2>3 DEF Proposed, Discoveries
    <3>4. disc'.seen = Observed.seen
      BY <3>1, <3>2, <3>3 DEF Discoveries
    <3> QED BY <1>1, <2>2, <2>7, <3>4 DEF ModelActs
  <2> QED BY <1>6, <2>6, <2>7
<1>7. CASE OutOfSteps
  <2>1. disc \in Discoveries /\ disc # Idle /\ disc.pc = "loop" /\ Asks(disc, "limit")
    BY <1>7 DEF DiscoveryInv, OutOfSteps, At, Idle
  <2>2. Checked(disc.seen \ {disc.page})
    BY <2>1 DEF SeenInv
  <2>3. \/ disc' = Idle
        \/ disc'.pc = "limit" /\ disc'.seen = disc.seen /\ disc'.page = disc.page
    BY <2>1 DEF Asks, Ends, Discoveries
  <2> QED BY <1>1, <1>7, <2>2, <2>3 DEF OutOfSteps
<1>8. CASE RiskyAnswered \/ Acts \/ Assisted
  <2>1. disc \in Discoveries /\ disc # Idle /\ disc.pc \in {"risky", "act", "assist"}
    BY <1>8 DEF DiscoveryInv, RiskyAnswered, Acts, Assisted, At, Idle
  <2>2. Checked(disc.seen) /\ UNCHANGED <<stored, draft, approving>>
    BY <1>8, <2>1 DEF SeenInv, RiskyAnswered, Acts, Assisted
  <2>3. ASSUME NEW e \in Lands(disc), NEW step \in RecordedSteps, Goes(Records(e, step))
        PROVE  SeenInv'
    <3>1. disc'.pc = "loop" /\ disc'.page = e.page /\ disc'.seen = disc.seen \cup {e.page}
      BY <2>1, <2>3, RecordedSeen
    <3>2. Checked(disc'.seen \ {disc'.page})
      BY <2>2, <3>1 DEF Checked
    <3> QED BY <1>1, <2>2, <3>1, <3>2
  <2>4. CASE RiskyAnswered \/ Acts
    <3>1. disc.action \in Actions /\ disc.name \in Controls /\ disc.risk = ProposeRisk(disc.name)
      BY <2>1, <2>4 DEF DiscoveryInv, RiskyAnswered, Acts, At
    <3>2. \A by \in Helpers \cup {None} : Done(disc, by) \in RecordedSteps
      BY <2>1, <3>1, DoneSteps
    <3>3. ASSUME NEW e \in Lands(disc), disc' = [e EXCEPT !.pc = "act"] PROVE SeenInv'
      <4>1. disc'.seen = disc.seen
        BY <2>1, <3>3 DEF Lands, Discoveries
      <4> QED BY <1>1, <2>2, <4>1
    <3> QED BY <1>1, <2>2, <2>3, <2>4, <3>2, <3>3 DEF RiskyAnswered, Acts, Ends
  <2>5. CASE Assisted
    <3>1. \A name \in Controls, who \in Helpers : Click(name, who) \in RecordedSteps
      BY HelpedSteps
    <3> QED BY <1>1, <2>2, <2>3, <2>5, <3>1 DEF Assisted, Ends, Helped
  <2> QED BY <1>8, <2>4, <2>5
<1>9. ASSUME disc' = Idle, ReadFrom(stored'), ReadFrom(draft'), approving' = approving
      PROVE  SeenInv'
  BY <1>9 DEF SeenInv, ReadFrom
<1>10. CASE ModelFinishes
  <2>1. Observed.seen \ {} \subseteq MayBeRead
    BY <1>10, TurnChecks, TurnsRead DEF ModelFinishes, Decides, Checked
  <2>2. ReadFrom(stored') /\ ReadFrom(draft')
    BY <1>10, <2>1, WrittenReads DEF ModelFinishes
  <2> QED BY <1>9, <1>10, <2>2 DEF ModelFinishes, Ends
<1>11. CASE LimitAnswered
  <2>1. disc \in Discoveries /\ disc # Idle /\ disc.pc = "limit"
    BY <1>11 DEF DiscoveryInv, LimitAnswered, At, Idle
  <2>2. Checked(disc.seen \ {disc.page}) /\ disc.seen \in SUBSET Pages
    BY <2>1 DEF SeenInv, Discoveries
  <2>3. ASSUME NEW e \in Lands(disc), NEW name \in Controls, NEW who \in Helpers,
               Finishes(Records(e, Click(name, who)).recorded,
                        Records(e, Click(name, who)).seen \cup {disc.page}, {disc.page, e.page})
        PROVE  ReadFrom(stored') /\ ReadFrom(draft')
    <3>1. Records(e, Click(name, who)).seen = disc.seen \cup {e.page}
      BY <2>1, HelpedSteps, RecordedSeen
    <3>2. (disc.seen \cup {e.page} \cup {disc.page}) \ {disc.page, e.page} \subseteq MayBeRead
      BY <2>2, TurnsRead DEF Checked
    <3> QED BY <2>3, <3>1, <3>2, WrittenReads
  <2>4. ReadFrom(stored') /\ ReadFrom(draft')
    BY <1>11, <2>3 DEF LimitAnswered, SeenInv, ReadFrom
  <2> QED BY <1>9, <1>11, <2>4 DEF LimitAnswered, Ends
<1>12. CASE Replays \/ ReplaysDraft \/ RunEnds \/ UNCHANGED vars
  BY <1>1, <1>12 DEF Replays, ReplaysDraft, RunEnds, vars
<1>13. CASE UrlThrows
  BY <1>1, <1>13 DEF UrlThrows, Ends
<1> QED BY <1>3, <1>4, <1>5, <1>6, <1>7, <1>8, <1>10, <1>11, <1>12, <1>13 DEF Next

\* However a discovery is redirected and whatever people do in it, every page that a new
\* recording was made from may be read, but for those after its last step
\* (discover.ts 56-82, 221-227, policy.ts 108-129, routes.ts 12-55).
THEOREM RecordingsStayAllowed == Spec => []RecordedWhereAllowed
<1>1. Init => AuthoringInv /\ DiscoveryInv /\ SeenInv
  BY AuthoringInit, SeenInit DEF Init, DiscoveryInv
<1>2. SeenInv => RecordedWhereAllowed
  BY DEF SeenInv, ReadFrom, RecordedWhereAllowed
<1> QED BY <1>1, <1>2, AuthoringStep, DiscoveryStep, SeenStep, PTL DEF Spec
================================================================================
