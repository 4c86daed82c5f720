---------------------------- MODULE GovernanceProofs ----------------------------
(***************************************************************************)
(* Proofs about Governance: its types, the limiter as an implementation of *)
(* RateWindow, the hours that do not overflow, and the kill switch.        *)
(***************************************************************************)
EXTENDS Governance, TLAPS, FiniteSetTheorems

---------------------------------------------------------------------------
(* Types.                                                                  *)

LEMMA InitTypes == Init => TypeOK
<1> SUFFICES ASSUME Init PROVE TypeOK
  OBVIOUS
<1>1. now \in 0..MaxTime /\ started \in 0..MaxStarts
  BY GovernanceAssumption DEF Init
<1>2. store \in [whole: BOOLEAN, stamps: SUBSET Stamp] /\ admitted \in SUBSET Stamp
  BY DEF Init
<1>3. acked \in Disabled
  BY DEF Init, Nothing, Disabled
<1>4. switch \in [whole: BOOLEAN, runtime: Runtime]
  BY GovernanceAssumption DEF Init, Nothing, Runtime, Disabled
<1>5. /\ proc \in [Processes -> {Idle} \union Start]
      /\ cmd \in [Commands -> {Waiting, [pc |-> "done"]}
                       \union [pc: {"loaded", "emptied"}, order: Orders, runtime: Runtime]]
  BY DEF Init
<1>6. spoilt \in BOOLEAN /\ muddled \in BOOLEAN
  BY DEF Init
<1>q. QED BY <1>1, <1>2, <1>3, <1>4, <1>5, <1>6 DEF TypeOK

\* What a read makes of either file has the type of the file.
LEMMA ReadsTyped ==
  ASSUME TypeOK
  PROVE  /\ ReadStore \in SUBSET Stamp
         /\ LoadRuntime \in Runtime
  BY GovernanceAssumption DEF TypeOK, ReadStore, LoadRuntime, Nothing, Runtime, Disabled

\* One process moves to another well-typed state.
LEMMA ProcTyped ==
  ASSUME TypeOK, NEW p \in Processes, NEW s \in {Idle} \union Start,
         proc' = [proc EXCEPT ![p] = s]
  PROVE  proc' \in [Processes -> {Idle} \union Start]
  BY DEF TypeOK

LEMMA RunTypes ==
  ASSUME TypeOK, NEW p \in Processes, RunStep(p)
  PROVE  TypeOK'
<1>l. CASE Launches(p)
  <2>1. /\ started' \in 0..MaxStarts /\ started' \in Nat
    BY <1>l, GovernanceAssumption DEF Launches, TypeOK
  <2>2. PICK t \in Tenants, c \in Caps, l \in BOOLEAN :
          proc' = [proc EXCEPT ![p] =
             [pc |-> "launched", n |-> started', tenant |-> t, cap |-> c, limited |-> l,
              limits |-> LoadRuntime.limits, at |-> 0, held |-> {}]]
    BY <1>l DEF Launches
  <2>3. LoadRuntime.limits \in LimitsType
    BY ReadsTyped DEF Runtime
  <2>4. [pc |-> "launched", n |-> started', tenant |-> t, cap |-> c, limited |-> l,
         limits |-> LoadRuntime.limits, at |-> 0, held |-> {}] \in Start
    BY <2>1, <2>3 DEF Start, Pcs
  <2>5. proc' \in [Processes -> {Idle} \union Start]
    BY <2>2, <2>4, ProcTyped
  <2>q. QED BY <1>l, <2>1, <2>5 DEF Launches, TypeOK
<1>c. CASE ChecksSwitch(p)
  <2>1. proc[p] \in Start
    BY <1>c DEF ChecksSwitch, TypeOK, Idle
  <2>2. \A pc \in {"counting", "running"} : [proc[p] EXCEPT !.pc = pc] \in Start
    BY <2>1 DEF Start, Pcs
  <2>3. PICK s \in {Idle} \union Start : proc' = [proc EXCEPT ![p] = s]
    BY <1>c, <2>2 DEF ChecksSwitch
  <2>q. QED BY <1>c, <2>3, ProcTyped DEF ChecksSwitch, TypeOK
<1>k. CASE CountsCapability(p)
  <2>1. proc[p] \in Start /\ now - Window \in Int
    BY <1>k, GovernanceAssumption DEF CountsCapability, TypeOK, Idle
  <2>2. [proc[p] EXCEPT !.pc = "tenant", !.at = now - Window] \in Start
    BY <2>1 DEF Start, Pcs
  <2>3. PICK s \in {Idle} \union Start : proc' = [proc EXCEPT ![p] = s]
    BY <1>k, <2>2 DEF CountsCapability
  <2>q. QED BY <1>k, <2>3, ProcTyped DEF CountsCapability, TypeOK
<1>t. CASE CountsTenant(p)
  <2>1. proc[p] \in Start
    BY <1>t DEF CountsTenant, TypeOK, Idle
  <2>2. [proc[p] EXCEPT !.pc = "record"] \in Start
    BY <2>1 DEF Start, Pcs
  <2>3. PICK s \in {Idle} \union Start : proc' = [proc EXCEPT ![p] = s]
    BY <1>t, <2>2 DEF CountsTenant
  <2>q. QED BY <1>t, <2>3, ProcTyped DEF CountsTenant, TypeOK
<1>r. CASE Records(p)
  <2>1. proc[p] \in Start /\ now \in Int
    BY <1>r DEF Records, TypeOK, Idle
  <2>2. Kept(ReadStore) \union {StampOf(proc[p], now)} \in SUBSET Stamp
    BY <2>1, ReadsTyped DEF Kept, StampOf, Start, Stamp
  <2>3. [proc[p] EXCEPT !.pc = "write", !.at = now,
                        !.held = Kept(ReadStore) \union {StampOf(proc[p], now)}] \in Start
    BY <2>1, <2>2 DEF Start, Pcs
  <2>4. proc' \in [Processes -> {Idle} \union Start]
    BY <1>r, <2>3, ProcTyped DEF Records
  <2>5. store' \in [whole: BOOLEAN, stamps: SUBSET Stamp]
    BY <1>r DEF Records, TypeOK
  <2>q. QED BY <1>r, <2>4, <2>5 DEF Records, TypeOK
<1>w. CASE Writes(p)
  <2>1. proc[p] \in Start
    BY <1>w DEF Writes, TypeOK, Idle
  <2> DEFINE none == {}
  <2>x. none \in SUBSET Stamp /\ 0 \in Int
    OBVIOUS
  <2> HIDE DEF none
  <2>y. [proc[p] EXCEPT !.pc = "running", !.at = 0, !.held = none] \in Start
    BY <2>1, <2>x DEF Start, Pcs
  <2>2. [proc[p] EXCEPT !.pc = "running", !.at = 0, !.held = {}] \in Start
    BY <2>y DEF none
  <2>3. proc' \in [Processes -> {Idle} \union Start]
    BY <1>w, <2>2, ProcTyped DEF Writes
  <2>4. StampOf(proc[p], proc[p].at) \in Stamp /\ proc[p].held \in SUBSET Stamp
    BY <2>1 DEF StampOf, Start, Stamp
  <2>5. store' \in [whole: BOOLEAN, stamps: SUBSET Stamp] /\ admitted' \in SUBSET Stamp
    BY <1>w, <2>4 DEF Writes, TypeOK
  <2>q. QED BY <1>w, <2>3, <2>5 DEF Writes, TypeOK
<1>u. CASE StartsUsed(p)
  <2>1. proc[p] \in Start /\ started' \in 0..MaxStarts /\ started' \in Nat
    BY <1>u, GovernanceAssumption DEF StartsUsed, TypeOK, Idle
  <2>2. \A c \in Caps : [proc[p] EXCEPT !.pc = "launched", !.cap = c, !.n = started'] \in Start
    BY <2>1 DEF Start, Pcs
  <2>3. PICK s \in {Idle} \union Start : proc' = [proc EXCEPT ![p] = s]
    BY <1>u, <2>2 DEF StartsUsed
  <2>q. QED BY <1>u, <2>1, <2>3, ProcTyped DEF StartsUsed, TypeOK
<1>e. CASE Ends(p)
  BY <1>e DEF Ends, TypeOK
<1>d. CASE Dies(p)
  BY <1>d DEF Dies, TypeOK
<1>q. QED BY <1>l, <1>c, <1>k, <1>t, <1>r, <1>w, <1>u, <1>e, <1>d DEF RunStep

LEMMA CommandTypes ==
  ASSUME TypeOK, NEW k \in Commands, CommandStep(k)
  PROVE  TypeOK'
<1>l. CASE Loads(k)
  <2>1. PICK o \in Orders :
          cmd' = [cmd EXCEPT ![k] = [pc |-> "loaded", order |-> o, runtime |-> Edited(LoadRuntime, o)]]
    BY <1>l DEF Loads
  <2>2. Edited(LoadRuntime, o) \in Runtime
    BY ReadsTyped, GovernanceAssumption DEF Edited, Runtime, Disabled
  <2>q. QED BY <1>l, <2>1, <2>2 DEF Loads, TypeOK
<1>e. CASE Empties(k)
  <2>1. cmd[k] \in [pc: {"loaded", "emptied"}, order: Orders, runtime: Runtime]
    BY <1>e DEF Empties, TypeOK, Waiting
  <2>2. [cmd[k] EXCEPT !.pc = "emptied"] \in [pc: {"loaded", "emptied"}, order: Orders, runtime: Runtime]
    BY <2>1
  <2>q. QED BY <1>e, <2>2 DEF Empties, TypeOK
<1>s. CASE Saves(k)
  <2>1. cmd[k] \in [pc: {"loaded", "emptied"}, order: Orders, runtime: Runtime]
    BY <1>s DEF Saves, TypeOK, Waiting
  <2>2. cmd[k].order.caps \in SUBSET Caps /\ cmd[k].order.tenants \in SUBSET Tenants
    BY <2>1, GovernanceAssumption
  <2>3. acked' \in Disabled
    BY <1>s, <2>2 DEF Saves, TypeOK, Disabled, Nothing
  <2>4. switch' \in [whole: BOOLEAN, runtime: Runtime]
    BY <1>s, <2>1 DEF Saves
  <2>q. QED BY <1>s, <2>3, <2>4 DEF Saves, TypeOK
<1>a. CASE Aborts(k)
  BY <1>a DEF Aborts, TypeOK
<1>q. QED BY <1>l, <1>e, <1>s, <1>a DEF CommandStep

LEMMA StepTypes == TypeOK /\ [Next]_vars => TypeOK'
<1> SUFFICES ASSUME TypeOK, [Next]_vars PROVE TypeOK'
  OBVIOUS
<1>1. ASSUME NEW p \in Processes, RunStep(p) PROVE TypeOK'
  BY <1>1, RunTypes
<1>2. ASSUME NEW k \in Commands, CommandStep(k) PROVE TypeOK'
  BY <1>2, CommandTypes
<1>3. CASE Tick
  BY <1>3, GovernanceAssumption DEF Tick, TypeOK
<1>4. CASE UNCHANGED vars
  BY <1>4 DEF vars, TypeOK
<1>q. QED BY <1>1, <1>2, <1>3, <1>4 DEF Next

\* The files, the processes and the commands keep their shapes, whatever dies and
\* whichever file does not parse (runtime.ts 22-80, 109-176; cli.ts 420-443).
THEOREM TypeCorrect == Spec => []TypeOK
  BY InitTypes, StepTypes, PTL DEF Spec

---------------------------------------------------------------------------
(* The kill switch.                                                        *)

Agrees(disabled) == disabled.caps = acked.caps /\ disabled.tenants = acked.tenants

\* Until something voids the switch, one command edits at a time, it holds its own edit of
\* what the file says or, emptied, said last, and that is what the commands have said.
SwitchInv ==
  ~muddled =>
    /\ \A j, k \in Commands : Editing(j) /\ Editing(k) => j = k
    /\ \A k \in Commands : Editing(k) => cmd[k].runtime = Edited(switch.runtime, cmd[k].order)
    /\ Agrees(switch.runtime.disabled)

LEMMA SwitchStep ==
  ASSUME TypeOK, SwitchInv, [Next]_vars
  PROVE  SwitchInv'
<1> SUFFICES ASSUME ~muddled' PROVE SwitchInv'
  BY DEF SwitchInv
<1>1. ASSUME NEW k \in Commands, Loads(k) PROVE SwitchInv'
  <2>1. /\ ~muddled /\ switch.whole /\ \A j \in Commands \ {k} : ~Editing(j)
        /\ UNCHANGED <<switch, acked>>
    BY <1>1 DEF Loads
  <2>2. PICK o \in Orders :
          cmd' = [cmd EXCEPT ![k] = [pc |-> "loaded", order |-> o, runtime |-> Edited(LoadRuntime, o)]]
    BY <1>1 DEF Loads
  <2>3. cmd'[k] = [pc |-> "loaded", order |-> o, runtime |-> Edited(switch.runtime, o)]
    BY <2>1, <2>2 DEF TypeOK, LoadRuntime
  <2>4. \A j \in Commands \ {k} : cmd'[j] = cmd[j]
    BY <2>2 DEF TypeOK
  <2>5. \A j \in Commands \ {k} : ~Editing(j)'
    BY <2>1, <2>4 DEF Editing
  <2>q. QED BY <2>1, <2>3, <2>5 DEF SwitchInv, Agrees, Editing
<1>2. ASSUME NEW k \in Commands, Empties(k) PROVE SwitchInv'
  <2>1. /\ ~muddled /\ switch'.runtime = switch.runtime /\ UNCHANGED acked
        /\ cmd' = [cmd EXCEPT ![k].pc = "emptied"] /\ Editing(k)
    BY <1>2 DEF Empties, TypeOK, Editing
  <2>2. cmd[k] \in [pc: {"loaded", "emptied"}, order: Orders, runtime: Runtime]
    BY <2>1 DEF Editing, TypeOK, Waiting
  <2>3. cmd'[k].order = cmd[k].order /\ cmd'[k].runtime = cmd[k].runtime
    BY <2>1, <2>2 DEF TypeOK
  <2>4. \A j \in Commands \ {k} : cmd'[j] = cmd[j]
    BY <2>1 DEF TypeOK
  <2>5. \A j \in Commands : Editing(j)' => Editing(j)
    BY <2>1, <2>4 DEF Editing
  <2>q. QED BY <2>1, <2>3, <2>4, <2>5 DEF SwitchInv, Agrees
<1>3. ASSUME NEW k \in Commands, Saves(k) PROVE SwitchInv'
  <2>1. ~muddled /\ Editing(k) /\ switch'.runtime = cmd[k].runtime
    BY <1>3 DEF Saves, Editing
  <2>2. /\ \A j \in Commands \ {k} : ~Editing(j)
        /\ switch'.runtime = Edited(switch.runtime, cmd[k].order)
        /\ Agrees(switch.runtime.disabled)
    BY <2>1 DEF SwitchInv
  <2>3. \A j \in Commands : ~Editing(j)'
    <3>1. cmd' = [cmd EXCEPT ![k] = [pc |-> "done"]]
      BY <1>3 DEF Saves
    <3>2. cmd'[k].pc = "done" /\ \A j \in Commands \ {k} : cmd'[j] = cmd[j]
      BY <3>1 DEF TypeOK
    <3>q. QED BY <2>2, <3>2 DEF Editing
  <2>4. switch.runtime \in Runtime
    BY DEF TypeOK
  <2>5. Agrees(switch.runtime.disabled)'
    <3> DEFINE o == cmd[k].order
               d == [caps |-> (IF o.clear THEN {} ELSE switch.runtime.disabled.caps) \union o.caps,
                     tenants |-> (IF o.clear THEN {} ELSE switch.runtime.disabled.tenants)
                                   \union o.tenants]
    <3>1. switch'.runtime.disabled = d
      BY <2>2, <2>4 DEF Edited, Runtime
    <3>2. CASE o.clear
      BY <1>3, <3>1, <3>2 DEF Saves, Agrees, Nothing
    <3>3. CASE ~o.clear
      BY <1>3, <2>2, <3>1, <3>3 DEF Saves, Agrees
    <3>q. QED BY <3>2, <3>3
  <2>q. QED BY <2>3, <2>5 DEF SwitchInv
<1>4. ASSUME NEW k \in Commands, Aborts(k) PROVE SwitchInv'
  <2>1. ~muddled /\ UNCHANGED <<switch, acked>> /\ cmd' = [cmd EXCEPT ![k] = [pc |-> "done"]]
    BY <1>4 DEF Aborts
  <2>2. cmd'[k].pc = "done" /\ \A j \in Commands \ {k} : cmd'[j] = cmd[j]
    BY <2>1 DEF TypeOK
  <2>3. \A j \in Commands : Editing(j)' => Editing(j) /\ cmd'[j] = cmd[j]
    BY <2>2 DEF Editing
  <2>q. QED BY <2>1, <2>3 DEF SwitchInv, Agrees
<1>5. CASE UNCHANGED <<switch, cmd, acked, muddled>>
  BY <1>5 DEF SwitchInv, Agrees, Editing
<1>6. ASSUME NEW p \in Processes, RunStep(p) PROVE UNCHANGED <<switch, cmd, acked, muddled>>
  BY <1>6 DEF RunStep, Launches, ChecksSwitch, CountsCapability, CountsTenant, Records, Writes,
              StartsUsed, Ends, Dies
<1>q. QED BY <1>1, <1>2, <1>3, <1>4, <1>5, <1>6 DEF Next, CommandStep, Tick, vars

LEMMA SwitchStands == Spec => [](TypeOK /\ SwitchInv)
<1>1. Init => SwitchInv
  BY DEF Init, SwitchInv, Agrees, Editing, Waiting, Nothing
<1>q. QED BY <1>1, InitTypes, StepTypes, SwitchStep, PTL DEF Spec

\* What the finished `kill` commands said is what the file says, for any number of
\* commands and processes (cli.ts 420-443, runtime.ts 35-80).
THEOREM KillSwitchStands == Spec => []KillStands
<1>1. SwitchInv => KillStands
  BY DEF SwitchInv, KillStands, Agrees
<1>q. QED BY <1>1, SwitchStands, PTL

\* A run with a capability or a tenant that is off passes only while the file is being
\* rewritten, or when a command was lost (runtime.ts 35-59, 85-93; engine.ts 86-98).
THEOREM KilledIsStopped == Spec => KilledPassesOnlyInTheGap
<1> DEFINE Gap(p) ==
       proc[p].pc = "launched" /\ proc'[p].pc \in {"counting", "running"} =>
         \/ proc[p].tenant \notin acked.tenants /\ proc[p].cap \notin acked.caps
         \/ ~switch.whole
         \/ muddled
<1>1. ASSUME TypeOK, SwitchInv, [Next]_vars, NEW p \in Processes PROVE Gap(p)
  <2> SUFFICES ASSUME proc[p].pc = "launched", proc'[p].pc \in {"counting", "running"},
                      switch.whole, ~muddled
               PROVE  proc[p].tenant \notin acked.tenants /\ proc[p].cap \notin acked.caps
    OBVIOUS
  <2>1. proc'[p] # proc[p]
    OBVIOUS
  <2>2. ChecksSwitch(p)
    <3>1. ASSUME NEW q \in Processes, RunStep(q) PROVE q = p
      <4>1. \E s : proc' = [proc EXCEPT ![q] = s]
        BY <3>1 DEF RunStep, Launches, ChecksSwitch, CountsCapability, CountsTenant, Records,
                    Writes, StartsUsed, Ends, Dies
      <4>q. QED BY <1>1, <2>1, <4>1 DEF TypeOK
    <3>a. ASSUME NEW k \in Commands, CommandStep(k) PROVE proc' = proc
      BY <3>a DEF CommandStep, Loads, Empties, Saves, Aborts
    <3>b. Tick \/ UNCHANGED vars => proc' = proc
      BY DEF Tick, vars
    <3>2. RunStep(p)
      BY <1>1, <2>1, <3>1, <3>a, <3>b DEF Next
    <3>d. Dies(p) => proc' = [proc EXCEPT ![p] = Idle]
      BY DEF Dies
    <3>3. ~Dies(p)
      BY <1>1, <3>d DEF TypeOK, Idle
    <3>q. QED BY <3>2, <3>3 DEF RunStep, Launches, CountsCapability, CountsTenant, Records,
                                Writes, StartsUsed, Ends
  <2>3. ~IsKilled(LoadRuntime, proc[p].tenant, proc[p].cap)
    BY <1>1, <2>2 DEF ChecksSwitch, TypeOK, Idle
  <2>4. LoadRuntime = switch.runtime
    BY DEF LoadRuntime
  <2>5. Agrees(switch.runtime.disabled)
    BY <1>1 DEF SwitchInv
  <2>q. QED BY <2>3, <2>4, <2>5 DEF IsKilled, Agrees
<1>2. TypeOK /\ SwitchInv /\ [Next]_vars => [\A p \in Processes : Gap(p)]_vars
  BY <1>1
<1>q. QED BY <1>2, SwitchStands, PTL DEF Spec, KilledPassesOnlyInTheGap

---------------------------------------------------------------------------
(* The rate limiter.                                                       *)

\* A run that has a number and has not been let through yet.
Pending(p) == proc[p].pc \in {"launched", "counting", "tenant", "record", "write"}

\* Runs are numbered apart, and no stamp is from the future.
NumbersInv ==
  /\ \A r \in admitted : r.n <= started /\ r.at <= now
  /\ \A p \in Processes : Pending(p) =>
       /\ proc[p].n <= started
       /\ \A r \in admitted : r.n # proc[p].n
       /\ \A q \in Processes \ {p} : Pending(q) => proc[q].n # proc[p].n
  /\ \A p \in Processes : proc[p].pc = "write" => proc[p].at <= now

LEMMA NumbersStep ==
  ASSUME TypeOK, NumbersInv, [Next]_vars
  PROVE  NumbersInv'
<1>1. ASSUME NEW p \in Processes, UNCHANGED admitted, now' = now, started' = started + 1,
             proc'[p].pc = "launched", proc'[p].n = started',
             \A q \in Processes \ {p} : proc'[q] = proc[q]
      PROVE  NumbersInv'
  <2>1. started \in Nat /\ started' > started
    BY <1>1, GovernanceAssumption DEF TypeOK
  <2>2. \A r \in admitted : r.n \in Nat /\ r.n <= started
    BY DEF TypeOK, NumbersInv, Stamp
  <2>3. \A q \in Processes \ {p} : Pending(q)' => Pending(q) /\ proc'[q] = proc[q]
    BY <1>1 DEF Pending
  <2>4. \A q \in Processes : Pending(q) => proc[q].n \in Nat /\ proc[q].n <= started
    BY DEF Pending, TypeOK, NumbersInv, Start, Idle
  <2>5. \A r \in admitted' : r.n <= started' /\ r.at <= now'
    BY <1>1, <2>1, <2>2 DEF NumbersInv
  <2>6. \A q \in Processes \ {p} : Pending(q)' =>
          proc'[q].n # started' /\ proc'[q].n <= started' /\ \A r \in admitted' : r.n # proc'[q].n
    BY <1>1, <2>1, <2>3, <2>4 DEF NumbersInv
  <2>7. \A r \in admitted' : r.n # started'
    BY <1>1, <2>1, <2>2
  <2>8. \A q \in Processes : proc'[q].pc = "write" => proc'[q].at <= now'
    BY <1>1 DEF NumbersInv
  <2>9. \A q, o \in Processes \ {p} : Pending(q)' /\ Pending(o)' /\ o # q => proc'[q].n # proc'[o].n
    BY <2>3 DEF NumbersInv
  <2>a. started' <= started'
    BY <1>1, <2>1
  <2>q. QED BY <1>1, <2>5, <2>6, <2>7, <2>8, <2>9, <2>a DEF NumbersInv
<1>2. ASSUME NEW p \in Processes, UNCHANGED <<admitted, now, started>>,
             Pending(p)' => Pending(p) /\ proc'[p].n = proc[p].n,
             proc'[p].pc = "write" => proc'[p].at <= now,
             \A q \in Processes \ {p} : proc'[q] = proc[q]
      PROVE  NumbersInv'
  BY <1>2 DEF NumbersInv, Pending
<1>3. ASSUME NEW p \in Processes, RunStep(p) PROVE NumbersInv'
  <2>1. \A q \in Processes \ {p} : proc'[q] = proc[q]
    BY <1>3 DEF RunStep, Launches, ChecksSwitch, CountsCapability, CountsTenant, Records,
                Writes, StartsUsed, Ends, Dies, TypeOK
  <2>2. CASE Launches(p) \/ StartsUsed(p)
    <3>1. /\ started' = started + 1 /\ proc'[p].n = started' /\ proc'[p].pc = "launched"
          /\ UNCHANGED <<admitted, now>>
      <4>1. CASE Launches(p)
        BY <4>1 DEF Launches, TypeOK
      <4>2. CASE StartsUsed(p)
        BY <4>2 DEF StartsUsed, TypeOK, Start, Idle
      <4>q. QED BY <2>2, <4>1, <4>2
    <3>q. QED BY <1>1, <2>1, <3>1
  <2>3. CASE Writes(p)
    <3>1. proc[p] \in Start /\ proc[p].pc = "write"
      BY <2>3 DEF Writes, TypeOK, Idle
    <3>2. proc'[p].pc = "running" /\ UNCHANGED <<now, started>>
      BY <2>3, <3>1 DEF Writes, TypeOK
    <3>3. admitted' = admitted \union {StampOf(proc[p], proc[p].at)}
      BY <2>3 DEF Writes
    <3>4. Pending(p) /\ ~Pending(p)' /\ \A q \in Processes \ {p} : Pending(q)' => Pending(q)
      BY <2>1, <3>1, <3>2 DEF Pending
    <3>5. \A r \in admitted' : r \in admitted \/ (r.n = proc[p].n /\ r.at = proc[p].at)
      BY <3>3 DEF StampOf
    <3>6. \A r \in admitted' : r.n <= started' /\ r.at <= now'
      BY <3>1, <3>2, <3>4, <3>5 DEF NumbersInv
    <3>7. \A q \in Processes : Pending(q)' => \A r \in admitted' : r.n # proc'[q].n
      BY <2>1, <3>4, <3>5 DEF NumbersInv
    <3>q. QED BY <2>1, <3>2, <3>4, <3>6, <3>7 DEF NumbersInv
  <2>4. CASE ChecksSwitch(p) \/ CountsCapability(p) \/ CountsTenant(p) \/ Records(p)
    <3>1. proc[p] \in Start /\ Pending(p) /\ UNCHANGED <<admitted, now, started>>
      BY <2>4 DEF ChecksSwitch, CountsCapability, CountsTenant, Records, TypeOK, Idle, Pending
    <3> DEFINE Fine == /\ proc'[p].pc = "idle" \/ proc'[p].n = proc[p].n
                       /\ proc'[p].pc = "write" => proc'[p].at <= now
    <3>c. ASSUME ChecksSwitch(p) PROVE Fine
      BY <3>1, <3>c DEF ChecksSwitch, TypeOK, Idle, Start
    <3>k. ASSUME CountsCapability(p) PROVE Fine
      BY <3>1, <3>k DEF CountsCapability, TypeOK, Idle, Start
    <3>t. ASSUME CountsTenant(p) PROVE Fine
      BY <3>1, <3>t DEF CountsTenant, TypeOK, Idle, Start
    <3>r. ASSUME Records(p) PROVE Fine
      BY <3>1, <3>r DEF Records, TypeOK, Start
    <3>2. Fine
      BY <2>4, <3>c, <3>k, <3>t, <3>r
    <3>q. QED BY <1>2, <2>1, <3>1, <3>2 DEF Pending
  <2>5. CASE Ends(p) \/ Dies(p)
    <3>1. proc'[p].pc = "idle" /\ UNCHANGED <<admitted, now, started>>
      BY <2>5 DEF Ends, Dies, TypeOK, Idle
    <3>q. QED BY <1>2, <2>1, <3>1 DEF Pending
  <2>q. QED BY <1>3, <2>2, <2>3, <2>4, <2>5 DEF RunStep
<1>4. ASSUME NEW k \in Commands, CommandStep(k)
      PROVE  UNCHANGED <<proc, admitted, now, started>>
  BY <1>4 DEF CommandStep, Loads, Empties, Saves, Aborts
<1>5. CASE UNCHANGED <<proc, admitted, now, started>>
  BY <1>5 DEF NumbersInv, Pending
<1>6. CASE Tick
  <2>1. now \in Int /\ now' = now + 1 /\ UNCHANGED <<proc, admitted, started>>
    BY <1>6 DEF Tick, TypeOK
  <2>2. \A r \in admitted' : r.n <= started' /\ r.at <= now'
    BY <2>1 DEF TypeOK, NumbersInv, Stamp
  <2>3. \A p \in Processes : proc'[p].pc = "write" => proc'[p].at <= now'
    BY <2>1 DEF TypeOK, NumbersInv, Start, Idle
  <2>q. QED BY <2>1, <2>2, <2>3 DEF NumbersInv, Pending
<1>q. QED BY <1>3, <1>4, <1>5, <1>6 DEF Next, vars

\* A finite set with fewer than max members, and its subsets.
Room(S, max) == IsFiniteSet(S) /\ Cardinality(S) < max

LEMMA RoomShrinks ==
  ASSUME NEW T, NEW S \in SUBSET T, NEW max \in Nat, Room(T, max)
  PROVE  Room(S, max)
<1>1. IsFiniteSet(S) /\ Cardinality(S) <= Cardinality(T)
  BY FS_Subset DEF Room
<1>2. Cardinality(S) \in Nat /\ Cardinality(T) \in Nat
  BY <1>1, FS_CardinalityType DEF Room
<1>q. QED BY <1>1, <1>2 DEF Room

LEMMA LimitsTyped == Limits.perCap \in Nat /\ Limits.perTenant \in Nat
  BY GovernanceAssumption DEF LimitsType

CapRoom(p, since) == Room(Counted(admitted, {proc[p].cap}, proc[p].tenant, since), Limits.perCap)
TenantRoom(p, since) == Room(Counted(admitted, Caps, proc[p].tenant, since), Limits.perTenant)

\* What a process in the middle of an assert knows: the counts it has made stand, and what
\* it is about to write has every stamp that a later count could ask for.
StageOf(p) ==
  /\ proc[p].pc \in {"tenant", "record"} => proc[p].at <= now - Window /\ CapRoom(p, now - Window)
  /\ proc[p].pc = "record" => TenantRoom(p, now - Window)
  /\ proc[p].pc = "write" =>
       /\ CapRoom(p, proc[p].at - Window) /\ TenantRoom(p, proc[p].at - Window)
       /\ \A r \in admitted : r.at <= proc[p].at
       /\ IsFiniteSet(proc[p].held)
       /\ StampOf(proc[p], proc[p].at) \in proc[p].held
       /\ \A r \in admitted : r.at > now - Keep => r \in proc[p].held

Sound ==
  /\ \A p, q \in Processes : InAssert(p) /\ InAssert(q) => p = q
  /\ \A p \in Processes : proc[p].pc # "idle" => proc[p].limits = Limits
  /\ IsFiniteSet(store.stamps)
  /\ ~store.whole => \E p \in Processes : proc[p].pc = "write"
  /\ store.whole => \A r \in admitted : r.at > now - Keep => r \in store.stamps
  /\ \A p \in Processes : StageOf(p)

\* Until something voids the caps, one process asserts at a time and the file, when it is
\* whole, has every stamp that a count could ask for.
LimiterInv == ~spoilt => Sound

\* A step of p that leaves the file and the stamps alone and ends outside the assert.
LEMMA OutsideStep ==
  ASSUME Sound, NEW p \in Processes, UNCHANGED <<now, store, admitted>>,
         \A q \in Processes \ {p} : proc'[q] = proc[q],
         proc[p].pc # "write", ~InAssert(p)',
         proc'[p].pc # "idle" => proc'[p].limits = Limits
  PROVE  Sound'
<1>1. \A q \in Processes : InAssert(q)' => q # p /\ InAssert(q)
  BY DEF InAssert
<1>2. \A q \in Processes \ {p} : StageOf(q)'
  BY DEF Sound, StageOf, CapRoom, TenantRoom
<1>3. StageOf(p)'
  BY DEF StageOf, InAssert
<1>q. QED BY <1>1, <1>2, <1>3 DEF Sound

\* A step of p inside the assert, alone there, that leaves the file and the stamps alone.
LEMMA InsideStep ==
  ASSUME Sound, NEW p \in Processes, UNCHANGED <<now, store, admitted>>,
         \A q \in Processes \ {p} : proc'[q] = proc[q] /\ ~InAssert(q),
         proc[p].pc # "write", StageOf(p)', proc'[p].limits = Limits
  PROVE  Sound'
<1>1. \A q \in Processes : InAssert(q)' => q = p
  BY DEF InAssert
<1>2. \A q \in Processes \ {p} : StageOf(q)'
  BY DEF Sound, StageOf, CapRoom, TenantRoom
<1>q. QED BY <1>1, <1>2 DEF Sound

\* What a count finds in a whole file, from an hour ago or from before that, bounds what
\* the last hour holds.
LEMMA CountBounds ==
  ASSUME TypeOK, Sound, store.whole, NEW caps, NEW t, NEW max \in Nat,
         NEW since \in Int, since <= now - Window,
         ~(Cardinality(Counted(ReadStore, caps, t, since)) >= max)
  PROVE  Room(Counted(admitted, caps, t, now - Window), max)
<1>1. ReadStore = store.stamps
  BY DEF ReadStore
<1>2. IsFiniteSet(Counted(ReadStore, caps, t, since))
  BY <1>1, FS_Subset DEF Sound, Counted
<1>3. Room(Counted(ReadStore, caps, t, since), max)
  BY <1>2, FS_CardinalityType DEF Room
<1>4. now \in Int /\ Window \in Int /\ Keep \in Int /\ Keep > Window
  BY GovernanceAssumption DEF TypeOK
<1>5. \A r \in admitted : r.at \in Int
  BY DEF TypeOK, Stamp
<1>6. Counted(admitted, caps, t, now - Window) \subseteq Counted(ReadStore, caps, t, since)
  BY <1>1, <1>4, <1>5 DEF Sound, Counted
<1>q. QED BY <1>3, <1>6, RoomShrinks

\* The process that asserts alone finds the file whole unless it is the one that writes.
LEMMA AloneFindsWhole ==
  ASSUME Sound, NEW p \in Processes, proc[p].pc # "write",
         \A q \in Processes \ {p} : ~InAssert(q)
  PROVE  store.whole
  BY DEF Sound, InAssert

LEMMA LimiterStep ==
  ASSUME TypeOK, NumbersInv, LimiterInv, [Next]_vars
  PROVE  LimiterInv'
<1> SUFFICES ASSUME ~spoilt' PROVE Sound'
  BY DEF LimiterInv
<1>n. now \in Int /\ Window \in Nat /\ Keep \in Nat
  BY GovernanceAssumption DEF TypeOK
<1>a. \A r \in admitted : r.at \in Int
  BY DEF TypeOK, Stamp
<1>p. \A p \in Processes : proc[p].pc # "idle" => proc[p] \in Start
  BY DEF TypeOK, Idle
<1>1. ASSUME NEW p \in Processes, RunStep(p) PROVE Sound'
  <2>1. Sound
    BY <1>1 DEF LimiterInv, RunStep, Launches, ChecksSwitch, CountsCapability, CountsTenant,
                Records, Writes, StartsUsed, Ends, Dies
  <2>2. \A q \in Processes \ {p} : proc'[q] = proc[q]
    BY <1>1 DEF RunStep, Launches, ChecksSwitch, CountsCapability, CountsTenant, Records,
                Writes, StartsUsed, Ends, Dies, TypeOK
  <2>3. InAssert(p) => \A q \in Processes \ {p} : ~InAssert(q)
    BY <2>1 DEF Sound
  <2>4. proc[p].pc # "idle" => proc[p].limits = Limits
    BY <2>1 DEF Sound
  <2>l. CASE Launches(p)
    <3>1. LoadRuntime.limits = Limits /\ UNCHANGED <<now, store, admitted>> /\ proc[p].pc = "idle"
      BY <2>l DEF Launches
    <3>2. proc'[p].pc = "launched" /\ proc'[p].limits = Limits
      BY <2>l, <3>1 DEF Launches, TypeOK
    <3>q. QED BY <2>1, <2>2, <3>1, <3>2, OutsideStep DEF InAssert
  <2>c. CASE ChecksSwitch(p)
    <3>1. UNCHANGED <<now, store, admitted>> /\ proc[p].pc = "launched" /\ proc[p] \in Start
      BY <2>c, <1>p DEF ChecksSwitch
    <3>2. /\ proc'[p].pc \in {"idle", "counting", "running"}
          /\ proc'[p].pc # "idle" => proc'[p].limits = proc[p].limits
      BY <2>c, <3>1 DEF ChecksSwitch, TypeOK, Start, Idle
    <3>q. QED BY <2>1, <2>2, <2>4, <3>1, <3>2, OutsideStep DEF InAssert
  <2>k. CASE CountsCapability(p)
    <3> DEFINE full == Cardinality(Counted(ReadStore, {proc[p].cap}, proc[p].tenant, now - Window))
                         >= proc[p].limits.perCap
    <3>1. UNCHANGED <<now, store, admitted>> /\ proc[p].pc = "counting" /\ proc[p] \in Start
      BY <2>k, <1>p DEF CountsCapability
    <3>2. CASE full
      <4>1. proc'[p].pc = "idle"
        BY <2>k, <3>1, <3>2 DEF CountsCapability, TypeOK, Idle
      <4>q. QED BY <2>1, <2>2, <3>1, <4>1, OutsideStep DEF InAssert
    <3>3. CASE ~full
      <4>1. ~Contended(p)
        BY <2>k, <3>3 DEF CountsCapability
      <4>2. \A q \in Processes \ {p} : ~InAssert(q)
        BY <4>1 DEF Contended
      <4>3. Room(Counted(admitted, {proc[p].cap}, proc[p].tenant, now - Window), Limits.perCap)
        BY <1>n, <2>1, <2>4, <3>1, <3>3, <4>2, AloneFindsWhole, CountBounds, LimitsTyped
      <4> HIDE DEF full
      <4>4. proc' = [proc EXCEPT ![p] = [@ EXCEPT !.pc = "tenant", !.at = now - Window]]
        BY <2>k, <3>3 DEF CountsCapability, full
      <4>5. /\ proc'[p].pc = "tenant" /\ proc'[p].at = now - Window
            /\ proc'[p].cap = proc[p].cap /\ proc'[p].tenant = proc[p].tenant
            /\ proc'[p].limits = proc[p].limits
        BY <3>1, <4>4 DEF TypeOK, Start
      <4>6. StageOf(p)'
        BY <1>n, <3>1, <4>3, <4>5 DEF StageOf, CapRoom
      <4>q. QED BY <2>1, <2>2, <2>4, <3>1, <4>2, <4>5, <4>6, InsideStep
    <3>q. QED BY <3>2, <3>3
  <2>t. CASE CountsTenant(p)
    <3> DEFINE full == Cardinality(Counted(ReadStore, Caps, proc[p].tenant, proc[p].at))
                         >= proc[p].limits.perTenant
    <3>1. UNCHANGED <<now, store, admitted>> /\ proc[p].pc = "tenant" /\ proc[p] \in Start
      BY <2>t, <1>p DEF CountsTenant
    <3>2. CASE full
      <4>1. proc'[p].pc = "idle"
        BY <2>t, <3>1, <3>2 DEF CountsTenant, TypeOK, Idle
      <4>q. QED BY <2>1, <2>2, <3>1, <4>1, OutsideStep DEF InAssert
    <3>3. CASE ~full
      <4>2. \A q \in Processes \ {p} : ~InAssert(q)
        BY <2>3, <3>1 DEF InAssert
      <4>3. TenantRoom(p, now - Window)
        <5>1. proc[p].at \in Int /\ proc[p].at <= now - Window
          BY <2>1, <3>1 DEF Start, Sound, StageOf
        <5>q. QED BY <2>1, <2>4, <3>1, <3>3, <4>2, <5>1, AloneFindsWhole, CountBounds, LimitsTyped
                  DEF TenantRoom
      <4> HIDE DEF full
      <4>4. proc' = [proc EXCEPT ![p] = [@ EXCEPT !.pc = "record"]]
        BY <2>t, <3>3 DEF CountsTenant, full
      <4>5. /\ proc'[p].pc = "record" /\ proc'[p].at = proc[p].at
            /\ proc'[p].cap = proc[p].cap /\ proc'[p].tenant = proc[p].tenant
            /\ proc'[p].limits = proc[p].limits
        BY <3>1, <4>4 DEF TypeOK, Start
      <4>6. StageOf(p)'
        BY <2>1, <3>1, <4>3, <4>5 DEF Sound, StageOf, CapRoom, TenantRoom
      <4>q. QED BY <2>1, <2>2, <2>4, <3>1, <4>2, <4>5, <4>6, InsideStep
    <3>q. QED BY <3>2, <3>3
  <2>r. CASE Records(p)
    <3> DEFINE held == Kept(ReadStore) \union {StampOf(proc[p], now)}
    <3>1. /\ UNCHANGED <<now, admitted>> /\ proc[p].pc = "record" /\ proc[p] \in Start
          /\ proc' = [proc EXCEPT ![p] = [@ EXCEPT !.pc = "write", !.at = now, !.held = held]]
      BY <2>r, <1>p DEF Records
    <3>2. \A q \in Processes \ {p} : ~InAssert(q)
      BY <2>3, <3>1 DEF InAssert
    <3>3. ReadStore = store.stamps
      BY <2>1, <3>1, <3>2, AloneFindsWhole DEF ReadStore
    <3>4. IsFiniteSet(held)
      <4>1. IsFiniteSet(Kept(ReadStore))
        BY <2>1, <3>3, FS_Subset DEF Sound, Kept
      <4>q. QED BY <4>1, FS_AddElement
    <3>5. \A r \in admitted : r.at > now - Keep => r \in held
      BY <2>1, <3>1, <3>2, <3>3, AloneFindsWhole DEF Sound, Kept
    <3>6. StampOf(proc[p], now) \in held
      OBVIOUS
    <3> HIDE DEF held
    <3>7. /\ proc'[p].pc = "write" /\ proc'[p].at = now /\ proc'[p].held = held
          /\ proc'[p].cap = proc[p].cap /\ proc'[p].tenant = proc[p].tenant
          /\ proc'[p].n = proc[p].n /\ proc'[p].limits = proc[p].limits
      BY <3>1 DEF TypeOK, Start
    <3>8. CapRoom(p, now - Window) /\ TenantRoom(p, now - Window)
      BY <2>1, <3>1 DEF Sound, StageOf
    <3>9. StampOf(proc[p], now) = StampOf(proc'[p], now)
      BY <3>7 DEF StampOf
    <3>e. CapRoom(p, now - Window)' /\ TenantRoom(p, now - Window)'
      BY <3>1, <3>7, <3>8 DEF CapRoom, TenantRoom
    <3>f. \A r \in admitted : r.at <= now
      BY DEF NumbersInv
    <3>a. StageOf(p)'
      BY <3>1, <3>4, <3>5, <3>6, <3>7, <3>9, <3>e, <3>f DEF StageOf, CapRoom, TenantRoom
    <3>b. \A q \in Processes : InAssert(q)' => q = p
      BY <2>2, <3>2 DEF InAssert
    <3>c. \A q \in Processes \ {p} : StageOf(q)'
      BY <3>b DEF StageOf, InAssert
    <3>d. store'.stamps = store.stamps /\ ~store'.whole
      BY <2>r DEF Records, TypeOK
    <3>q. QED BY <2>1, <2>2, <2>4, <3>1, <3>7, <3>a, <3>b, <3>c, <3>d DEF Sound
  <2>w. CASE Writes(p)
    <3>1. /\ now' = now /\ proc[p].pc = "write" /\ proc[p] \in Start
          /\ store' = [whole |-> TRUE, stamps |-> proc[p].held]
          /\ admitted' = admitted \union {StampOf(proc[p], proc[p].at)}
      BY <2>w, <1>p DEF Writes
    <3>2. \A q \in Processes \ {p} : ~InAssert(q)
      BY <2>3, <3>1 DEF InAssert
    <3>3. proc'[p].pc = "running" /\ proc'[p].limits = proc[p].limits
      BY <2>w, <3>1 DEF Writes, TypeOK, Start
    <3>4. \A q \in Processes : ~InAssert(q)'
      BY <2>2, <3>2, <3>3 DEF InAssert
    <3>5. \A q \in Processes : StageOf(q)'
      BY <3>4 DEF StageOf, InAssert
    <3>6. IsFiniteSet(store'.stamps) /\ store'.whole
      BY <2>1, <3>1 DEF Sound, StageOf
    <3>7. \A r \in admitted' : r.at > now - Keep => r \in store'.stamps
      BY <2>1, <3>1 DEF Sound, StageOf
    <3>q. QED BY <2>1, <2>2, <2>4, <3>1, <3>3, <3>4, <3>5, <3>6, <3>7 DEF Sound
  <2>u. CASE StartsUsed(p)
    <3>1. UNCHANGED <<now, store, admitted>> /\ proc[p].pc = "running" /\ proc[p] \in Start
      BY <2>u, <1>p DEF StartsUsed
    <3>2. proc'[p].pc = "launched" /\ proc'[p].limits = proc[p].limits
      BY <2>u, <3>1 DEF StartsUsed, TypeOK, Start
    <3>q. QED BY <2>1, <2>2, <2>4, <3>1, <3>2, OutsideStep DEF InAssert
  <2>e. CASE Ends(p) \/ Dies(p)
    <3>1. UNCHANGED <<now, store, admitted>> /\ proc' = [proc EXCEPT ![p] = Idle]
      BY <2>e DEF Ends, Dies
    <3>2. proc[p].pc # "write"
      BY <2>e DEF Ends, Dies
    <3>3. proc'[p].pc = "idle"
      BY <3>1 DEF TypeOK, Idle
    <3>q. QED BY <2>1, <2>2, <3>1, <3>2, <3>3, OutsideStep DEF InAssert
  <2>q. QED BY <1>1, <2>l, <2>c, <2>k, <2>t, <2>r, <2>w, <2>u, <2>e DEF RunStep
<1>2. ASSUME NEW k \in Commands, CommandStep(k) PROVE UNCHANGED <<now, store, proc, admitted, spoilt>>
  BY <1>2 DEF CommandStep, Loads, Empties, Saves, Aborts
<1>3. CASE UNCHANGED <<now, store, proc, admitted, spoilt>>
  BY <1>3 DEF LimiterInv, Sound, StageOf, InAssert, CapRoom, TenantRoom
<1>4. CASE Tick
  <2>1. now' = now + 1 /\ UNCHANGED <<store, proc, admitted>> /\ Sound
    BY <1>4 DEF Tick, LimiterInv
  <2>2. ASSUME NEW p \in Processes, NEW caps
        PROVE  Counted(admitted, caps, proc[p].tenant, now' - Window)
                 \subseteq Counted(admitted, caps, proc[p].tenant, now - Window)
    BY <1>n, <1>a, <2>1 DEF Counted
  <2>3. \A p \in Processes : /\ CapRoom(p, now - Window) => CapRoom(p, now - Window)'
                             /\ TenantRoom(p, now - Window) => TenantRoom(p, now - Window)'
    BY <2>1, <2>2, RoomShrinks, LimitsTyped DEF CapRoom, TenantRoom
  <2>4. \A r \in admitted : r.at > now' - Keep => r.at > now - Keep
    BY <1>n, <1>a, <2>1
  <2>5. ASSUME NEW p \in Processes PROVE StageOf(p)'
    <3>1. StageOf(p)
      BY <2>1 DEF Sound
    <3>2. CASE proc[p].pc \in {"tenant", "record"}
      <4>1. proc[p].at <= now' - Window
        BY <1>n, <1>p, <2>1, <3>1, <3>2 DEF StageOf, Start
      <4>q. QED BY <2>1, <2>3, <3>1, <3>2, <4>1 DEF StageOf
    <3>3. CASE proc[p].pc = "write"
      BY <2>1, <2>4, <3>1, <3>3 DEF StageOf, CapRoom, TenantRoom
    <3>q. QED BY <2>1, <3>2, <3>3 DEF StageOf
  <2>q. QED BY <2>1, <2>4, <2>5 DEF Sound, InAssert
<1>q. QED BY <1>1, <1>2, <1>3, <1>4 DEF Next, vars

LEMMA LimiterStands == Spec => [](TypeOK /\ NumbersInv /\ LimiterInv)
<1>1. Init => NumbersInv
  BY DEF Init, NumbersInv, Pending, Idle
<1>2. Init => LimiterInv
  <2>1. IsFiniteSet({})
    BY FS_EmptySet
  <2>q. QED BY <2>1 DEF Init, LimiterInv, Sound, StageOf, InAssert, Idle
<1>q. QED BY <1>1, <1>2, InitTypes, StepTypes, NumbersStep, LimiterStep, PTL DEF Spec

---------------------------------------------------------------------------
(* The limiter implements RateWindow.                                      *)

\* RateWindow counts as Governance does.
LEMMA SameCardinality == ASSUME NEW S PROVE Promise!Cardinality(S) = Cardinality(S)
  BY Zenon DEF Promise!Cardinality, Cardinality

\* A count is a set of RateWindow.
LEMMA CountsMatch ==
  ASSUME TypeOK, NEW t, NEW c, NEW since
  PROVE  /\ Counted(admitted, {c}, t, since) = Promise!OfCap(admitted, c, t, since)
         /\ Counted(admitted, Caps, t, since) = Promise!OfTenant(admitted, t, since)
  BY DEF TypeOK, Stamp, Counted, Promise!OfCap, Promise!OfTenant

LEMMA WritesAdmits ==
  ASSUME TypeOK, NumbersInv, LimiterInv, NEW p \in Processes, Writes(p), ~spoilt
  PROVE  Promise!Admit
<1> DEFINE s == StampOf(proc[p], proc[p].at)
<1>1. proc[p] \in Start /\ proc[p].pc = "write" /\ Pending(p)
  BY DEF Writes, TypeOK, Idle, Pending
<1>2. /\ s \in Promise!Stamp
      /\ s.n = proc[p].n /\ s.at = proc[p].at /\ s.cap = proc[p].cap /\ s.tenant = proc[p].tenant
  BY <1>1 DEF StampOf, Start, Promise!Stamp
<1>3. \A r \in admitted : r.at <= s.at /\ r.n # s.n
  BY <1>1, <1>2 DEF LimiterInv, Sound, StageOf, NumbersInv
<1>4. CapRoom(p, s.at - Window) /\ TenantRoom(p, s.at - Window)
  BY <1>1, <1>2 DEF LimiterInv, Sound, StageOf
<1>5. /\ Promise!Below(Promise!OfCap(admitted, s.cap, s.tenant, s.at - Window), Limits.perCap)
      /\ Promise!Below(Promise!OfTenant(admitted, s.tenant, s.at - Window), Limits.perTenant)
  BY <1>2, <1>4, CountsMatch, SameCardinality DEF CapRoom, TenantRoom, Room, Promise!Below
<1>6. admitted' = admitted \union {s} /\ UNCHANGED spoilt
  BY DEF Writes
<1> HIDE DEF s
<1>7. s \in admitted' \ admitted
  BY <1>3, <1>6
<1>q. QED BY <1>2, <1>3, <1>5, <1>6, <1>7, Zenon DEF Promise!Admit

LEMMA StepKeepsPromise ==
  ASSUME TypeOK, NumbersInv, LimiterInv, [Next]_vars
  PROVE  [Promise!Next]_(Promise!vars)
<1>1. ASSUME NEW p \in Processes, Writes(p) PROVE Promise!Next
  <2>1. CASE spoilt
    BY <1>1, <2>1 DEF Writes, Promise!Next, Promise!Overrun
  <2>2. CASE ~spoilt
    BY <1>1, <2>2, WritesAdmits DEF Promise!Next
  <2>q. QED BY <2>1, <2>2
<1>2. ASSUME NEW p \in Processes, RunStep(p), ~Writes(p)
      PROVE  UNCHANGED admitted /\ (spoilt => spoilt')
  <2>1. CASE Launches(p)
    BY <2>1, Zenon DEF Launches
  <2>2. CASE ChecksSwitch(p) \/ CountsTenant(p) \/ Records(p) \/ StartsUsed(p) \/ Ends(p)
    <3>1. UNCHANGED <<admitted, spoilt>>
      BY <2>2 DEF ChecksSwitch, CountsTenant, Records, StartsUsed, Ends
    <3>q. QED BY <3>1, Zenon
  <2>3. CASE CountsCapability(p)
    BY <2>3, Zenon DEF CountsCapability
  <2>4. CASE Dies(p)
    BY <2>4, Zenon DEF Dies
  <2>q. QED BY <1>2, <2>1, <2>2, <2>3, <2>4 DEF RunStep
<1>3. CASE UNCHANGED <<admitted, spoilt>>
  BY <1>3 DEF Promise!vars
<1>4. ASSUME NEW k \in Commands, CommandStep(k) PROVE UNCHANGED <<admitted, spoilt>>
  BY <1>4 DEF CommandStep, Loads, Empties, Saves, Aborts
<1>5. ASSUME UNCHANGED admitted, spoilt => spoilt' PROVE [Promise!Next]_(Promise!vars)
  <2>1. spoilt \in BOOLEAN /\ spoilt' \in BOOLEAN
    BY StepTypes DEF TypeOK
  <2>2. CASE spoilt' = spoilt
    BY <1>5, <2>2 DEF Promise!vars
  <2>3. CASE spoilt' = TRUE
    BY <1>5, <2>3 DEF Promise!Next, Promise!Spoil
  <2>q. QED BY <1>5, <2>1, <2>2, <2>3
<1>q. QED BY <1>1, <1>2, <1>3, <1>4, <1>5 DEF Next, Tick, vars

\* The limiter, which reads its file three times and forgets rows after two days, keeps what
\* RateWindow promises, for any number of processes, caps and tenants, any clock and any
\* limits (runtime.ts 109-176).
THEOREM LimiterImplementsRateWindow == Spec => LimiterKeepsPromise
<1>1. Init => Promise!Init
  BY DEF Init, Promise!Init
<1>q. QED BY <1>1, StepKeepsPromise, LimiterStands, PTL DEF Spec, LimiterKeepsPromise, Promise!Spec

---------------------------------------------------------------------------
(* What the promise is for.                                                *)

InHour(t, e) == Promise!OfTenant(Promise!Hour(admitted, e), t, e - Window)
InHourOf(c, t, e) == Promise!OfCap(Promise!Hour(admitted, e), c, t, e - Window)

\* Every hour that there is, and not only one that ends with a run, is within the caps:
\* with the ends of runs alone a run of one tenant would say nothing of another's.
HoursInv ==
  ~spoilt =>
    /\ IsFiniteSet(admitted)
    /\ \A e \in Int, t \in Tenants :
         /\ Cardinality(InHour(t, e)) <= Limits.perTenant
         /\ \A c \in Caps : Cardinality(InHourOf(c, t, e)) <= Limits.perCap

\* A set below its cap takes one more.
LEMMA OneMore ==
  ASSUME NEW T, IsFiniteSet(T), NEW max \in Nat, Cardinality(T) < max, NEW x,
         NEW S \in SUBSET (T \union {x})
  PROVE  Cardinality(S) <= max
<1>1. /\ IsFiniteSet(T \union {x}) /\ Cardinality(T) \in Nat
      /\ Cardinality(T \union {x}) <= Cardinality(T) + 1
  BY FS_AddElement, FS_CardinalityType
<1>2. IsFiniteSet(S) /\ Cardinality(S) <= Cardinality(T \union {x})
  BY <1>1, FS_Subset
<1>3. Cardinality(S) \in Nat /\ Cardinality(T \union {x}) \in Nat
  BY <1>1, <1>2, FS_CardinalityType
<1>q. QED BY <1>1, <1>2, <1>3

LEMMA HoursStep ==
  ASSUME TypeOK, TypeOK', HoursInv, [Promise!Next]_(Promise!vars)
  PROVE  HoursInv'
<1>1. CASE Promise!Admit
  <2> SUFFICES ASSUME ~spoilt' PROVE HoursInv'
    BY DEF HoursInv
  <2>1. PICK s \in admitted' \ admitted :
          /\ admitted' = admitted \union {s}
          /\ s \in Promise!Stamp
          /\ \A r \in admitted : r.at <= s.at /\ r.n # s.n
          /\ Promise!Below(Promise!OfCap(admitted, s.cap, s.tenant, s.at - Window), Limits.perCap)
          /\ Promise!Below(Promise!OfTenant(admitted, s.tenant, s.at - Window), Limits.perTenant)
          /\ UNCHANGED spoilt
    BY <1>1 DEF Promise!Admit
  <2>2. /\ IsFiniteSet(admitted)
        /\ \A e \in Int, t \in Tenants :
             /\ Cardinality(InHour(t, e)) <= Limits.perTenant
             /\ \A c \in Caps : Cardinality(InHourOf(c, t, e)) <= Limits.perCap
    BY <2>1 DEF HoursInv
  <2>3. IsFiniteSet(admitted')
    BY <2>1, <2>2, FS_AddElement
  <2>4. s.at \in Int /\ Window \in Int /\ \A r \in admitted : r.at \in Int
    BY <2>1, GovernanceAssumption DEF TypeOK, Stamp, Promise!Stamp
  <2>5. ASSUME NEW e \in Int, NEW t \in Tenants
        PROVE  Cardinality(InHour(t, e)') <= Limits.perTenant
    <3> DEFINE T == Promise!OfTenant(admitted, s.tenant, s.at - Window)
    <3>1. CASE e < s.at \/ t # s.tenant
      <4>1. InHour(t, e)' = InHour(t, e)
        BY <2>1, <2>4, <3>1 DEF InHour, Promise!OfTenant, Promise!Hour
      <4>q. QED BY <2>2, <4>1
    <3>2. CASE e >= s.at /\ t = s.tenant
      <4>1. InHour(t, e)' \subseteq T \union {s}
        BY <2>1, <2>4, <3>2 DEF InHour, Promise!OfTenant, Promise!Hour
      <4>2. IsFiniteSet(T) /\ Cardinality(T) < Limits.perTenant
        BY <2>1, <2>2, FS_Subset, SameCardinality DEF Promise!OfTenant, Promise!Below
      <4> DEFINE S == InHour(t, e)'
      <4>3. S \in SUBSET (T \union {s})
        BY <4>1
      <4> HIDE DEF S, T
      <4>4. Cardinality(S) <= Limits.perTenant
        BY <4>2, <4>3, OneMore, LimitsTyped
      <4>q. QED BY <4>4 DEF S
    <3>q. QED BY <2>4, <3>1, <3>2
  <2>6. ASSUME NEW e \in Int, NEW t \in Tenants, NEW c \in Caps
        PROVE  Cardinality(InHourOf(c, t, e)') <= Limits.perCap
    <3> DEFINE T == Promise!OfCap(admitted, s.cap, s.tenant, s.at - Window)
    <3>1. CASE e < s.at \/ t # s.tenant \/ c # s.cap
      <4>1. InHourOf(c, t, e)' = InHourOf(c, t, e)
        BY <2>1, <2>4, <3>1 DEF InHourOf, Promise!OfCap, Promise!OfTenant, Promise!Hour
      <4>q. QED BY <2>2, <4>1
    <3>2. CASE e >= s.at /\ t = s.tenant /\ c = s.cap
      <4>1. InHourOf(c, t, e)' \subseteq T \union {s}
        BY <2>1, <2>4, <3>2 DEF InHourOf, Promise!OfCap, Promise!OfTenant, Promise!Hour
      <4>2. IsFiniteSet(T) /\ Cardinality(T) < Limits.perCap
        BY <2>1, <2>2, FS_Subset, SameCardinality DEF Promise!OfCap, Promise!OfTenant, Promise!Below
      <4> DEFINE S == InHourOf(c, t, e)'
      <4>3. S \in SUBSET (T \union {s})
        BY <4>1
      <4> HIDE DEF S, T
      <4>4. Cardinality(S) <= Limits.perCap
        BY <4>2, <4>3, OneMore, LimitsTyped
      <4>q. QED BY <4>4 DEF S
    <3>q. QED BY <2>4, <3>1, <3>2
  <2>q. QED BY <2>3, <2>5, <2>6 DEF HoursInv
<1>2. CASE Promise!Spoil \/ Promise!Overrun
  BY <1>2 DEF Promise!Spoil, Promise!Overrun, HoursInv
<1>3. CASE UNCHANGED Promise!vars
  BY <1>3 DEF Promise!vars, HoursInv, InHour, InHourOf
<1>q. QED BY <1>1, <1>2, <1>3 DEF Promise!Next

\* No hour holds more runs than the caps allow, for any capability or tenant, unless two
\* asserts overlapped, a process died while it wrote, or the limits came from a file that
\* did not parse (README 257; runtime.ts 109-176).
THEOREM CapsHold == Spec => []NoHourOverflows
<1>1. Init => HoursInv
  <2> SUFFICES ASSUME Init PROVE HoursInv
    OBVIOUS
  <2>1. admitted = {} /\ IsFiniteSet({}) /\ Cardinality({}) = 0
    BY FS_EmptySet DEF Init
  <2>2. \A e, t, c : InHour(t, e) = {} /\ InHourOf(c, t, e) = {}
    BY <2>1 DEF InHour, InHourOf, Promise!OfCap, Promise!OfTenant, Promise!Hour
  <2>q. QED BY <2>1, <2>2, LimitsTyped DEF HoursInv
<1>2. TypeOK /\ NumbersInv /\ LimiterInv /\ HoursInv /\ [Next]_vars => HoursInv'
  BY StepTypes, StepKeepsPromise, HoursStep
<1>3. TypeOK /\ HoursInv => NoHourOverflows
  <2> SUFFICES ASSUME TypeOK, HoursInv, ~spoilt PROVE NoHourOverflows
    BY DEF NoHourOverflows, Promise!NoHourOverflows
  <2>1. \A r \in admitted : r.at \in Int
    BY DEF TypeOK, Stamp
  <2>2. \A e \in Int, t \in Tenants :
          /\ Cardinality(InHour(t, e)) <= Limits.perTenant
          /\ \A c \in Caps : Cardinality(InHourOf(c, t, e)) <= Limits.perCap
    BY DEF HoursInv
  <2>q. QED BY <2>1, <2>2, SameCardinality
            DEF NoHourOverflows, Promise!NoHourOverflows, InHour, InHourOf
<1>q. QED BY <1>1, <1>2, <1>3, LimiterStands, PTL DEF Spec
=============================================================================
