------------------------------- MODULE Governance -------------------------------
(***************************************************************************)
(* The start of a run in several processes (`npm run replay`, `npm run     *)
(* capabilities -- invoke` and the used capabilities of each): the kill    *)
(* switch of policy/runtime.yaml and the rate limiter over                 *)
(* data/rate-limit.json, with the commands that edit the switch            *)
(* (src/policy/runtime.ts, assertGovernance of src/replay/engine.ts, `kill`*)
(* of src/cli.ts).  Both files are read and rewritten whole and without a  *)
(* lock; writeFileSync empties a file before it fills it, and a file that  *)
(* does not parse counts as one that says nothing.                         *)
(***************************************************************************)
EXTENDS Integers, FiniteSets

CONSTANTS Processes,      \* processes that start runs
          Commands,       \* invocations of `kill`
          Caps, Tenants,
          Window,         \* 3600_000 ms, in ticks
          Keep,           \* 48 hours, in ticks
          Limits,         \* blastRadius of the file as it is edited by the operators
          DefaultLimits,  \* DEFAULT_RUNTIME.blastRadius
          Orders,         \* what a command may be asked to do
          MaxTime, MaxStarts  \* bounds: the clock, and the runs started

LimitsType == [perCap: Nat, perTenant: Nat]

ASSUME GovernanceAssumption ==
    /\ Window \in Nat /\ Keep \in Nat /\ Keep > Window
    /\ Limits \in LimitsType /\ DefaultLimits \in LimitsType
    /\ Orders \subseteq [clear: BOOLEAN, caps: SUBSET Caps, tenants: SUBSET Tenants]
    /\ MaxTime \in Nat /\ MaxStarts \in Nat

VARIABLES now,       \* Date.now(), in ticks
          store,     \* data/rate-limit.json
          switch,    \* policy/runtime.yaml
          proc,      \* per process: where the start of its run stands
          cmd,       \* per command: where it stands
          started,   \* number of runs started, for MaxStarts and to tell stamps apart
          admitted,  \* history: the stamps of the runs let through
          spoilt,    \* history: something happened that voids the caps
          acked,     \* history: what the finished commands have switched off
          muddled    \* history: something happened that voids the switch

vars == <<now, store, switch, proc, cmd, started, admitted, spoilt, acked, muddled>>

Stamp == [n: Nat, at: Int, cap: Caps, tenant: Tenants]
Disabled == [caps: SUBSET Caps, tenants: SUBSET Tenants]
Runtime == [disabled: Disabled, limits: LimitsType]
Nothing == [caps |-> {}, tenants |-> {}]

\* What a read makes of each file: one that is being written parses as nothing.
ReadStore == IF store.whole THEN store.stamps ELSE {}
LoadRuntime == IF switch.whole THEN switch.runtime
               ELSE [disabled |-> Nothing, limits |-> DefaultLimits]

\* A slip: only the capability is looked up.
IsKilledCapabilityOnly(config, t, c) == c \in config.disabled.caps

IsKilled(config, t, c) == t \in config.disabled.tenants \/ c \in config.disabled.caps

\* A slip: a stamp exactly an hour old is left out.
CountedAfter(S, caps, t, since) == {s \in S : s.at > since /\ s.tenant = t /\ s.cap \in caps}

\* The filter of count(): stamps from `since` on, of one tenant, or of one of its capabilities.
Counted(S, caps, t, since) == {s \in S : s.at >= since /\ s.tenant = t /\ s.cap \in caps}

Idle == [pc |-> "idle"]
Pcs == {"launched", "counting", "tenant", "record", "write", "running"}
Start == [pc: Pcs, n: Nat, tenant: Tenants, cap: Caps, limited: BOOLEAN, limits: LimitsType,
          at: Int, held: SUBSET Stamp]

\* Inside RateLimiter.assert, from its first read to its write.
InAssert(p) == proc[p].pc \in {"tenant", "record", "write"}
Contended(p) == \E q \in Processes \ {p} : InAssert(q)

Waiting == [pc |-> "waiting"]
Editing(k) == cmd[k].pc \in {"loaded", "emptied"}

TypeOK ==
    /\ now \in 0..MaxTime
    /\ store \in [whole: BOOLEAN, stamps: SUBSET Stamp]
    /\ switch \in [whole: BOOLEAN, runtime: Runtime]
    /\ proc \in [Processes -> {Idle} \union Start]
    /\ cmd \in [Commands -> {Waiting, [pc |-> "done"]}
                   \union [pc: {"loaded", "emptied"}, order: Orders, runtime: Runtime]]
    /\ started \in 0..MaxStarts
    /\ admitted \in SUBSET Stamp
    /\ spoilt \in BOOLEAN /\ muddled \in BOOLEAN
    /\ acked \in Disabled

Init ==
    /\ now = 0
    /\ store = [whole |-> TRUE, stamps |-> {}]
    /\ switch = [whole |-> TRUE, runtime |-> [disabled |-> Nothing, limits |-> Limits]]
    /\ proc = [p \in Processes |-> Idle]
    /\ cmd = [k \in Commands |-> Waiting]
    /\ started = 0
    /\ admitted = {}
    /\ spoilt = FALSE /\ muddled = FALSE
    /\ acked = Nothing

---------------------------------------------------------------------------
(* Runs.                                                                   *)

\* The command line builds the limiter, which reads its limits once, and starts the
\* engine.  escalate-demo, stability, rediscover and desktop-replay pass no limiter.
Launches(p) ==
    /\ proc[p].pc = "idle" /\ started < MaxStarts
    /\ started' = started + 1
    /\ \E t \in Tenants, c \in Caps, limited \in BOOLEAN :
         proc' = [proc EXCEPT ![p] =
             [pc |-> "launched", n |-> started', tenant |-> t, cap |-> c, limited |-> limited,
              limits |-> LoadRuntime.limits, at |-> 0, held |-> {}]]
    /\ spoilt' = (spoilt \/ LoadRuntime.limits # Limits)
    /\ UNCHANGED <<now, store, switch, cmd, admitted, acked, muddled>>

\* assertGovernance reads the switch, once per run() and so once per used capability.
ChecksSwitch(p) ==
    /\ proc[p].pc = "launched"
    /\ proc' = [proc EXCEPT ![p] =
         IF IsKilled(LoadRuntime, @.tenant, @.cap) THEN Idle
         ELSE [@ EXCEPT !.pc = IF proc[p].limited THEN "counting" ELSE "running"] ]
    /\ UNCHANGED <<now, store, switch, cmd, started, admitted, spoilt, acked, muddled>>

\* RateLimiter.assert: the capability's count, the tenant's, and the record, each with a
\* read of the file of its own.
CountsCapability(p) ==
    /\ proc[p].pc = "counting"
    /\ LET s == proc[p]  since == now - Window
           full == Cardinality(Counted(ReadStore, {s.cap}, s.tenant, since)) >= s.limits.perCap
       IN /\ proc' = [proc EXCEPT ![p] = IF full THEN Idle
                                         ELSE [@ EXCEPT !.pc = "tenant", !.at = since]]
          /\ spoilt' = (spoilt \/ (~full /\ Contended(p)))
    /\ UNCHANGED <<now, store, switch, cmd, started, admitted, acked, muddled>>

CountsTenant(p) ==
    /\ proc[p].pc = "tenant"
    /\ LET s == proc[p]
           full == Cardinality(Counted(ReadStore, Caps, s.tenant, s.at)) >= s.limits.perTenant
       IN proc' = [proc EXCEPT ![p] = IF full THEN Idle ELSE [@ EXCEPT !.pc = "record"]]
    /\ UNCHANGED <<now, store, switch, cmd, started, admitted, spoilt, acked, muddled>>

\* A slip: the rows of an hour ago are cleaned up, not those of two days ago.
KeptAnHour(S) == {s \in S : s.at >= now}

StampOf(s, at) == [n |-> s.n, at |-> at, cap |-> s.cap, tenant |-> s.tenant]

\* record() reads again, drops what is older than two days, and empties the file.
Kept(S) == {s \in S : s.at > now - Keep}
Records(p) ==
    /\ proc[p].pc = "record"
    /\ proc' = [proc EXCEPT ![p] = [@ EXCEPT !.pc = "write", !.at = now,
                                             !.held = Kept(ReadStore) \union {StampOf(proc[p], now)}]]
    /\ store' = [store EXCEPT !.whole = FALSE]
    /\ UNCHANGED <<now, switch, cmd, started, admitted, spoilt, acked, muddled>>

\* The file is filled and assert returns.
Writes(p) ==
    /\ proc[p].pc = "write"
    /\ store' = [whole |-> TRUE, stamps |-> proc[p].held]
    /\ admitted' = admitted \union {StampOf(proc[p], proc[p].at)}
    /\ proc' = [proc EXCEPT ![p] = [@ EXCEPT !.pc = "running", !.at = 0, !.held = {}]]
    /\ UNCHANGED <<now, switch, cmd, started, spoilt, acked, muddled>>

\* compose.ts: a used capability starts on the same engine, with the same limiter, be it
\* the one that just ran; which may use which is Composition's.
StartsUsed(p) ==
    /\ proc[p].pc = "running" /\ started < MaxStarts
    /\ started' = started + 1
    /\ \E c \in Caps :
         proc' = [proc EXCEPT ![p] = [@ EXCEPT !.pc = "launched", !.cap = c, !.n = started']]
    /\ UNCHANGED <<now, store, switch, cmd, admitted, spoilt, acked, muddled>>

Ends(p) ==
    /\ proc[p].pc = "running"
    /\ proc' = [proc EXCEPT ![p] = Idle]
    /\ UNCHANGED <<now, store, switch, cmd, started, admitted, spoilt, acked, muddled>>

\* The process dies; between the two halves of a write it leaves an empty file.
Dies(p) ==
    /\ proc[p].pc # "idle"
    /\ proc' = [proc EXCEPT ![p] = Idle]
    /\ spoilt' = (spoilt \/ proc[p].pc = "write")
    /\ UNCHANGED <<now, store, switch, cmd, started, admitted, acked, muddled>>

---------------------------------------------------------------------------
(* The command `kill`.                                                     *)

\* A slip: a missing --tenant is pushed like a present one.
EditedUndefined(config, o) ==
    [config EXCEPT !.disabled = [caps |-> (IF o.clear THEN {} ELSE @.caps) \union o.caps,
                                 tenants |-> @.tenants \union (IF o.tenants = {} THEN {"undefined"}
                                                                ELSE o.tenants)]]

\* A slip: --clear with a capability does not clear what was off before.
EditedAdds(config, o) ==
    [config EXCEPT !.disabled = [caps |-> @.caps \union o.caps, tenants |-> @.tenants \union o.tenants]]

Edited(config, o) ==
    [config EXCEPT !.disabled = [caps |-> (IF o.clear THEN {} ELSE @.caps) \union o.caps,
                                 tenants |-> (IF o.clear THEN {} ELSE @.tenants) \union o.tenants]]

Loads(k) ==
    /\ cmd[k].pc = "waiting"
    /\ \E o \in Orders :
         /\ o.clear \/ o.caps # {} \/ o.tenants # {}
         /\ cmd' = [cmd EXCEPT ![k] = [pc |-> "loaded", order |-> o, runtime |-> Edited(LoadRuntime, o)]]
    /\ muddled' = (muddled \/ ~switch.whole \/ \E j \in Commands \ {k} : Editing(j))
    /\ UNCHANGED <<now, store, switch, proc, started, admitted, spoilt, acked>>

\* saveRuntime: writeFileSync empties the file, then fills it, and the command says so.
Empties(k) ==
    /\ cmd[k].pc = "loaded"
    /\ cmd' = [cmd EXCEPT ![k].pc = "emptied"]
    /\ switch' = [switch EXCEPT !.whole = FALSE]
    /\ UNCHANGED <<now, store, proc, started, admitted, spoilt, acked, muddled>>

Saves(k) ==
    /\ cmd[k].pc = "emptied"
    /\ switch' = [whole |-> TRUE, runtime |-> cmd[k].runtime]
    /\ acked' = LET o == cmd[k].order  before == IF o.clear THEN Nothing ELSE acked
                IN [caps |-> before.caps \union o.caps, tenants |-> before.tenants \union o.tenants]
    /\ cmd' = [cmd EXCEPT ![k] = [pc |-> "done"]]
    /\ UNCHANGED <<now, store, proc, started, admitted, spoilt, muddled>>

Aborts(k) ==
    /\ Editing(k)
    /\ cmd' = [cmd EXCEPT ![k] = [pc |-> "done"]]
    /\ muddled' = (muddled \/ cmd[k].pc = "emptied")
    /\ UNCHANGED <<now, store, switch, proc, started, admitted, spoilt, acked>>

Tick ==
    /\ now < MaxTime
    /\ now' = now + 1
    /\ UNCHANGED <<store, switch, proc, cmd, started, admitted, spoilt, acked, muddled>>

---------------------------------------------------------------------------
RunStep(p) ==
    \/ Launches(p) \/ ChecksSwitch(p) \/ CountsCapability(p) \/ CountsTenant(p)
    \/ Records(p) \/ Writes(p) \/ StartsUsed(p) \/ Ends(p) \/ Dies(p)
CommandStep(k) == Loads(k) \/ Empties(k) \/ Saves(k) \/ Aborts(k)

Next == (\E p \in Processes : RunStep(p)) \/ (\E k \in Commands : CommandStep(k)) \/ Tick

Spec == Init /\ [][Next]_vars

---------------------------------------------------------------------------
(* Properties.                                                             *)

Promise == INSTANCE RateWindow WITH PerCap <- Limits.perCap, PerTenant <- Limits.perTenant

\* The limiter keeps what RateWindow promises (runtime.ts 160-176 over 130-158): what it
\* counts in its file is what was admitted, although it reads the file three times and
\* forgets rows.  Only three things void it: two asserts that overlap, a process that dies
\* in the middle of a write, and a switch file that does not parse when the limits are read.
LimiterKeepsPromise == Promise!Spec

\* No hour that ends with a run holds more runs than the caps allow, for any capability
\* or tenant, unless one of those three things has happened (README 257).
NoHourOverflows == Promise!NoHourOverflows

\* What a finished `kill` command said is what the file says, until the next one (cli.ts
\* 420-443 with runtime.ts 35-80): commands lose each other's edits only when they overlap,
\* die while they write, or start from a file that does not parse.
KillStands ==
    ~muddled /\ switch.whole =>
        /\ switch.runtime.disabled.caps = acked.caps
        /\ switch.runtime.disabled.tenants = acked.tenants

\* A run passes the switch with a capability or tenant that has been switched off only
\* while the file is being rewritten, or when a command was lost (runtime.ts 35-59, 85-93).
KilledPassesOnlyInTheGap ==
    [][\A p \in Processes :
         proc[p].pc = "launched" /\ proc'[p].pc \in {"counting", "running"} =>
             \/ proc[p].tenant \notin acked.tenants /\ proc[p].cap \notin acked.caps
             \/ ~switch.whole
             \/ muddled]_vars
=============================================================================
