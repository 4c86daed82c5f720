------------------------------- MODULE Authoring -------------------------------
(***************************************************************************)
(* The way of a recording: discovered (src/agent/discover.ts) under the    *)
(* policy, compiled (src/artifact/compile.ts), stored, reviewed and        *)
(* approved by two people (src/artifact/review.ts, `approve` of cli.ts),   *)
(* bound to overlays and replayed, and recorded again                      *)
(* (src/agent/rediscover.ts).  One capability file; discovery, approvals   *)
(* and replays are processes of their own.  What a replay does with its    *)
(* steps is in Replay; here it is gated and then ends.                     *)
(***************************************************************************)
EXTENDS Policy, Overlays, FiniteSets

CONSTANTS Controls,       \* names of controls
          Buttons,        \* those with role button
          Irreversible,   \* those the review's pattern finds: confirm, delete, approve, wire, transfer
          Actions,        \* what the model may ask for
          Names,          \* names of outputs that an extract may give
          Pages,          \* [method, url]: what a control may ask for or a server show
          Redirects,      \* <<asked, shown>>: where servers send a request on to
          ErrorPage,      \* what a browser shows of a request that was blocked
          Operators,      \* who may take a discovery over, if a name is given
          People, Blank,  \* names an approver may give, and none
          Files,          \* capability files the repository may hold
          Bindings,       \* [vendor, tenant, baseUrl] of a replay
          MaxSteps, MaxStuck,   \* 12 and 3 in the code
          MaxDiscoveries        \* bound: discoveries

VARIABLES stored,     \* capabilities/<id>.json
          draft,      \* the file a rediscovery writes, in its evidence directory
          disc,       \* the discovery in progress
          approving,  \* the approval in progress: content that was read, and two names
          run,        \* the replay in progress: what passed governance
          discoveries

vars == <<stored, draft, disc, approving, run, discoveries>>

None == "none"
NoRun == [steps |-> <<>>, approval |-> NoFile, fix |-> [layer |-> NoFile, change |-> NoFile],
          copy |-> <<>>, base |-> <<"run", NoFile>>, wanted |-> NoFile]
Idle == [pc |-> "idle", recorded |-> <<>>]

---------------------------------------------------------------------------
(* Compile, store, load.                                                   *)

\* `control` stands for the whole target of a step, `out` for its outputName.
Step(action, control, out, risk, by) ==
    [action |-> action, control |-> control, out |-> out, risk |-> risk, by |-> by]
Entry == Step("navigate", None, None, "safe", None)

\* An extract from a button, or the same extract twice in a row, leaves no step.
Leaves(steps, rec) ==
    rec.action = "extract" =>
        /\ rec.control \notin Buttons
        /\ LET last == steps[Len(steps)] IN
           <<last.action, last.control, last.out>> # <<"extract", rec.control, rec.out>>

Compiled(recorded) ==
    LET steps[i \in 0..Len(recorded)] ==
        IF i = 0 THEN <<Entry>>
        ELSE IF Leaves(steps[i - 1], recorded[i]) THEN Append(steps[i - 1], recorded[i])
        ELSE steps[i - 1]
    IN steps[Len(recorded)]

Risky(steps) == \E i \in DOMAIN steps : steps[i].risk = "risky"
SideEffects(steps) == IF Risky(steps) THEN "irreversible" ELSE "none"

Assistants(recorded) == Picked(recorded, {i \in DOMAIN recorded : recorded[i].by \notin {None, Blank}})

\* A slip: only the first step says who helped.
AssistedByFirst(recorded) == IF recorded = <<>> THEN None ELSE recorded[1].by

AssistedBy(recorded) == LET who == Assistants(recorded) IN IF who = <<>> THEN None ELSE who[1].by

\* `seen` and `late` are history: the pages a recording was made from, and those of them
\* that no turn followed.
CompileArtifact(recorded, seen, late) ==
    LET steps == Compiled(recorded)
    IN [schema |-> "1.1", id |-> "capability", vendorId |-> "relay-core", steps |-> steps,
        sideEffects |-> SideEffects(steps), approval |-> NoFile, assistedBy |-> AssistedBy(recorded),
        detectors |-> <<"vendor">>, entry |-> "landing", seen |-> seen, late |-> late]

\* The schema has no empty name in a step.
Parses(capability) == \A i \in DOMAIN capability.steps : capability.steps[i].by # Blank

\* A slip: a new recording takes over the approval of the file it replaces.
SavedWithApproval(capability) ==
    IF stored = NoFile THEN capability ELSE [capability EXCEPT !.approval = stored.approval]

Saved(capability) == capability

\* 1.0 is filled in, 1.1 is read, anything else is refused.
Migrated(file) ==
    IF file.schema = "1.0" THEN [file EXCEPT !.schema = "1.1",
        !.sideEffects = IF @ = None THEN SideEffects(file.steps) ELSE @]
    ELSE file
Loads(file) == file # NoFile /\ file.schema \in {"1.0", "1.1"}

---------------------------------------------------------------------------
(* Review and approval.                                                    *)

Review(capability) ==
    {i \in DOMAIN capability.steps :
        capability.steps[i].control \in Irreversible /\ capability.steps[i].risk = "safe"}

NeedsTwo(capability) == Risky(capability.steps) \/ capability.sideEffects = "irreversible"

AssertTwoPersonApproval(capability) ==
    NeedsTwo(capability) =>
        /\ capability.approval # NoFile
        /\ Blank \notin {capability.approval.requestedBy, capability.approval.approvedBy}
        /\ capability.approval.requestedBy # capability.approval.approvedBy

Risks(steps) == [i \in DOMAIN steps |-> <<steps[i].action, steps[i].risk>>]

\* `of` is history: what the two people looked at.
Approve(capability, requestedBy, approvedBy) ==
    [capability EXCEPT !.approval = [requestedBy |-> requestedBy, approvedBy |-> approvedBy,
                                     of |-> Risks(capability.steps)]]

\* The approval of a file, if two people gave it, is of the file's own steps.
ApprovedAsIs(file) ==
    /\ file.approval # NoFile
    /\ Blank \notin {file.approval.requestedBy, file.approval.approvedBy}
    /\ file.approval.requestedBy # file.approval.approvedBy
    => file.approval.of = Risks(file.steps)

Fields == {"schema", "id", "vendorId", "steps", "sideEffects", "approval", "assistedBy",
           "detectors", "entry", "seen", "late"}

\* A capability file that the repository holds was approved, if at all, by way of approve;
\* what it was recorded from is not told.
ASSUME FilesAssumption ==
    \A file \in Files : file # NoFile =>
        DOMAIN file = Fields /\ ApprovedAsIs(file) /\ file.seen = {}

\* Patterns and paths are sequences of segments, and redirects lead from page to page.
ASSUME PathsAssumption ==
    /\ \A rule \in AllowedRoutes \cup DeniedRoutes : rule.path \in Seq(STRING)
    /\ \A page \in Pages : page.url.path \in Seq(STRING)
    /\ ErrorPage \in Pages /\ Redirects \subseteq Pages \X Pages

\* A step by hand is somebody's, which a file in the repository says, and no policy
\* speaks of a control without a name.
SaysWhoHelped(file) ==
    (\E i \in DOMAIN file.steps : file.steps[i].by # None) => file.assistedBy # None
ASSUME HandsAssumption ==
    /\ None \notin Operators \cup RiskyNames \cup {Blank}
    /\ \A file \in Files : file # NoFile => SaysWhoHelped(file)

\* approve: the file is read, ...  (A blank name is refused by the schema at the write.)
ApproveReads ==
    /\ approving = NoFile /\ Loads(stored)
    /\ \E requestedBy, approvedBy \in People :
         /\ requestedBy # approvedBy
         /\ Review(Migrated(stored)) = {}
         /\ approving' = Approve(Migrated(stored), requestedBy, approvedBy)
    /\ UNCHANGED <<stored, draft, disc, run, discoveries>>

\* ... and written after an await.
ApproveWrites ==
    /\ approving # NoFile
    /\ stored' = approving /\ approving' = NoFile
    /\ UNCHANGED <<draft, disc, run, discoveries>>

---------------------------------------------------------------------------
(* Discovery.                                                              *)

\* The browser asks for nothing that the policy refuses; where a server sends a request on
\* to is not asked about.
LetThrough(page) == AssertRequest(page.method, page.url)
Loaded == {page \in Pages : LetThrough(page)}
          \cup {way[2] : way \in {w \in Redirects : LetThrough(w[1])}}
          \cup {ErrorPage}

\* A person is asked only if the run has a control plane; rediscovery always has.  What
\* comes of the first navigation is not looked at.
Discovers ==
    /\ disc = Idle /\ discoveries < MaxDiscoveries
    /\ discoveries' = discoveries + 1
    /\ \E target \in Pages : target.method = "GET" /\ AssertUrl(target.url)
    /\ \E page \in Loaded, again, control \in BOOLEAN :
         /\ again => control /\ Loads(stored)
         /\ disc' = [pc |-> "loop", again |-> again, control |-> control, page |-> page,
                     last |-> NoFile, stuck |-> 0, i |-> 0, recorded |-> <<>>, seen |-> {},
                     action |-> None, name |-> None, out |-> None, risk |-> "safe"]
    /\ UNCHANGED <<stored, draft, approving, run>>

Ends == disc' = Idle
Turned(d) == [d EXCEPT !.pc = "loop", !.i = @ + 1, !.action = None, !.name = None, !.out = None,
                       !.risk = "safe"]
Goes(d) == disc' = Turned(d)

At(pc) == disc.pc = pc
Looping == At("loop") /\ disc.i < MaxSteps

\* A form that is answered in place leaves a url that only a post may ask for, and a redirect
\* any url: the check of it throws out of run().
UrlThrows ==
    /\ Looping /\ ~AssertUrl(disc.page.url)
    /\ Ends
    /\ UNCHANGED <<stored, draft, approving, run, discoveries>>

Observed == LET stuck == IF disc.page = disc.last THEN disc.stuck + 1 ELSE 0
            IN [disc EXCEPT !.stuck = stuck, !.last = disc.page, !.seen = @ \cup {disc.page}]

\* A slip: only the page a discovery starts from is checked.
ObservesFirstChecked == Looping /\ (disc.i = 0 => AssertUrl(disc.page.url))

Observes == Looping /\ AssertUrl(disc.page.url)

\* Nobody to ask: the run is escalated and nothing is compiled.
Asks(d, pc) == IF d.control THEN disc' = [d EXCEPT !.pc = pc] ELSE Ends

Stuck ==
    /\ Observes /\ Observed.stuck >= MaxStuck
    /\ Asks([Observed EXCEPT !.stuck = 0], "assist")
    /\ UNCHANGED <<stored, draft, approving, run, discoveries>>

Decides == Observes /\ Observed.stuck < MaxStuck

ModelEscalates ==
    /\ Decides
    /\ Asks([Observed EXCEPT !.stuck = 0], "assist")
    /\ UNCHANGED <<stored, draft, approving, run, discoveries>>

PolicyAsks ==
    /\ Decides
    /\ \E action \in Actions : ~AssertAction(action, disc.page.url)
    /\ Asks(Observed, "assist")
    /\ UNCHANGED <<stored, draft, approving, run, discoveries>>

Proposed(action, name, out) ==
    [Observed EXCEPT !.action = action, !.name = name, !.out = out, !.risk = ProposeRisk(name)]

\* A risky control is put to a person first, if there is one to ask.
ModelActs ==
    /\ Decides
    /\ \E action \in Actions, name \in Controls, out \in Names \cup {None} :
         /\ AssertAction(action, disc.page.url)
         /\ action = "extract" \/ out = None
         /\ disc' = [Proposed(action, name, out) EXCEPT !.pc =
                        IF ProposeRisk(name) = "risky" /\ disc.control THEN "risky" ELSE "act"]
    /\ UNCHANGED <<stored, draft, approving, run, discoveries>>

\* Whatever is done on a page, it stays, or another page is shown.
Lands(d) == {[d EXCEPT !.page = page] : page \in Loaded \cup {d.page}}

\* A step is recorded with the page that is observed after it.
Records(d, step) == [d EXCEPT !.recorded = Append(@, step), !.seen = @ \cup {d.page}]
Done(d, by) == Step(d.action, d.name, d.out, d.risk, by)

\* What a console that sends no name with its answer leaves.
Helpers == Operators \cup {Blank}

\* The person aborts, has done the step, or lets the automation do it.
RiskyAnswered ==
    /\ At("risky")
    /\ \/ Ends
       \/ \E after \in Lands(disc), who \in Helpers : Goes(Records(after, Done(disc, who)))
       \/ \E after \in Lands(disc) : disc' = [after EXCEPT !.pc = "act"]
    /\ UNCHANGED <<stored, draft, approving, run, discoveries>>

\* The element is there, and the step is recorded; or it is not, and the run has failed.
Acts ==
    /\ At("act")
    /\ \/ Ends
       \/ \E after \in Lands(disc) : Goes(Records(after, Done(disc, None)))
    /\ UNCHANGED <<stored, draft, approving, run, discoveries>>

\* What the person clicked is inferred from the two screens, and counts as safe.
Click(name, who) == Step("click", name, None, "safe", who)
Helped(d) == \E after \in Lands(d), name \in Controls, who \in Helpers :
                 Goes(Records(after, Click(name, who)))

Assisted ==
    /\ At("assist")
    /\ Ends \/ Helped(disc)
    /\ UNCHANGED <<stored, draft, approving, run, discoveries>>

\* After the last step a person is asked once more; then the recording is compiled.
OutOfSteps ==
    /\ At("loop") /\ disc.i = MaxSteps
    /\ Asks(disc, "limit")
    /\ UNCHANGED <<stored, draft, approving, run, discoveries>>

\* compileAndFinish: the store of a rediscovery is its evidence directory, and nothing is
\* written of a capability that the schema refuses.
Finishes(recorded, seen, late) ==
    LET capability == Saved(CompileArtifact(recorded, seen, late)) IN
    CASE ~Parses(capability) -> UNCHANGED <<stored, draft>>
      [] Parses(capability) /\ disc.again -> draft' = capability /\ UNCHANGED stored
      [] OTHER -> stored' = capability /\ UNCHANGED draft

ModelFinishes ==
    /\ Decides
    /\ Finishes(disc.recorded, Observed.seen, {})
    /\ Ends
    /\ UNCHANGED <<approving, run, discoveries>>

\* Neither the page of the last step nor the one the person leaves is checked any more.
LimitAnswered ==
    /\ At("limit")
    /\ \/ UNCHANGED <<stored, draft>>
       \/ \E after \in Lands(disc), name \in Controls, who \in Helpers :
            LET e == Records(after, Click(name, who)) IN
            Finishes(e.recorded, e.seen \cup {disc.page}, {disc.page, after.page})
    /\ Ends
    /\ UNCHANGED <<approving, run, discoveries>>

---------------------------------------------------------------------------
(* Replays.                                                                *)

Running(capability, b) ==
    LET applies == Applying(b.tenant, capability) IN
    [steps |-> capability.steps, approval |-> capability.approval,
     fix |-> DescribeConfirmFix("confirm", b.vendor, applies),
     copy |-> Copy(b.vendor, applies), base |-> BaseUrlFrom(b.baseUrl, b.vendor, applies),
     wanted |-> b.baseUrl]

\* replay, capabilities invoke: the file is read once, bound, and gated.
Replays ==
    /\ run = NoRun /\ Loads(stored)
    /\ \E b \in Bindings :
         LET bound == BindTenant(Migrated(stored), b.vendor, b.tenant) IN
         /\ bound # NoFile
         /\ AssertTwoPersonApproval(bound)
         /\ run' = Running(bound, b)
    /\ UNCHANGED <<stored, draft, disc, approving, discoveries>>

\* A rediscovery replays what it has recorded as it is, approved in its options.
ReplaysDraft ==
    /\ run = NoRun /\ Loads(draft)
    /\ AssertTwoPersonApproval(draft)
    /\ run' = Running(draft, [vendor |-> NoFile, tenant |-> NoFile, baseUrl |-> NoFile])
    /\ UNCHANGED <<stored, draft, disc, approving, discoveries>>

RunEnds ==
    /\ run # NoRun
    /\ run' = NoRun
    /\ UNCHANGED <<stored, draft, disc, approving, discoveries>>

---------------------------------------------------------------------------
Init ==
    /\ stored \in Files \union {NoFile}
    /\ draft = NoFile /\ disc = Idle /\ approving = NoFile /\ run = NoRun /\ discoveries = 0

Next ==
    \/ ApproveReads \/ ApproveWrites
    \/ Discovers \/ UrlThrows \/ Stuck \/ ModelEscalates \/ PolicyAsks \/ ModelActs
    \/ RiskyAnswered \/ Acts \/ Assisted \/ OutOfSteps \/ ModelFinishes \/ LimitAnswered
    \/ Replays \/ ReplaysDraft \/ RunEnds

Spec == Init /\ [][Next]_vars

---------------------------------------------------------------------------
(* Properties.                                                             *)

\* A replay that has a risky step was approved by two different people who looked at these
\* very steps with these risks: not a capability that a new recording has replaced since, nor
\* what an overlay made of it, nor a second version nobody has seen (review.ts 34-74,
\* compile.ts 264, resolve.ts 164-187, cli.ts 407-413, rediscover.ts 76).
RunsAsApproved ==
    Risky(run.steps) =>
        /\ run.approval # NoFile
        /\ run.approval.requestedBy # run.approval.approvedBy
        /\ run.approval.of = Risks(run.steps)

\* A control that the review would find irreversible is recorded as safe only if a person
\* did it for a run that had asked for help, or if its name is not exactly a risky name; and
\* a file with a step by hand says whose hand it was (discover.ts 147-173, 229-265).
\* Whoever reads assistedBy therefore finds every misjudged Confirm of a risky name.
MisjudgedOnlyByHand ==
    \A file \in {stored, draft} \ Files : file # NoFile =>
        /\ \A i \in Review(file) :
             file.steps[i].by # None \/ file.steps[i].control \notin RiskyNames
        /\ SaysWhoHelped(file)

\* The ways to lay a pattern over a path: "**" takes any number of segments, anything else one.
Cuts(pat, path) == {c \in [0..Len(pat) -> 0..Len(path)] :
    /\ c[0] = 0 /\ c[Len(pat)] = Len(path)
    /\ \A i \in DOMAIN pat : IF pat[i] = "**" THEN c[i] >= c[i - 1] ELSE c[i] = c[i - 1] + 1}
Covers(rule, method, path) ==
    /\ rule.method \in {"*", "ANY", method}
    /\ \E c \in Cuts(rule.path, path) : \A i \in DOMAIN rule.path :
         rule.path[i] \notin {"*", "**"} => rule.path[i] = path[c[i]]

\* The pages that may be asked for and read: of no host, or of an allowed one, and then a
\* rule allows it and none denies it, by what the patterns are said to mean.
MayBeRead == {page \in Pages :
    \/ IsUncheckedOrigin(page.url)
    \/ /\ page.url.host \in AllowedHosts
       /\ \E rule \in AllowedRoutes : Covers(rule, "GET", page.url.path)
       /\ \A rule \in DeniedRoutes : ~Covers(rule, "GET", page.url.path)}

\* A redirect or a person may lead a discovery anywhere, but not on: every page that a new
\* recording was made from is one that may be read, except that nothing checks the pages
\* after the last step (discover.ts 56-82, 221-227, policy.ts 108-129, routes.ts 12-55).
RecordedWhereAllowed ==
    \A file \in {stored, draft} \ Files : file # NoFile => file.seen \ file.late \subseteq MayBeRead

\* When a Confirm has another name, the file an operator is told to edit is the one that
\* decides: its line is what the run uses, and the base url is that of the last layer that
\* has one (resolve.ts 87-120, 189-201).
FixNamesTheFile ==
    /\ run.fix.layer # NoFile =>
         "confirm" \in DOMAIN run.copy /\ run.copy["confirm"] = run.fix.change
    /\ run.wanted # NoFile => run.base = <<"run", run.wanted>>
================================================================================
