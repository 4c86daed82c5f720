-------------------------- MODULE CompositionProofs --------------------------
(***************************************************************************)
(* TLAPS proofs about Composition, for every catalog and any depth of      *)
(* calls: whose data a run works with (RowsAreOwn, NoForeignInputs), that  *)
(* a confirmation is not repeated (ConfirmsOnce), and what drift is made   *)
(* of (DriftHasACause).                                                    *)
(***************************************************************************)
EXTENDS Composition, SubsequenceProofs, FiniteSetTheorems

USE HitsAssumption, WindowAssumption

Tally == [targeted : Nat, fallback : Nat]

\* A sequence, of whatever elements.
IsSeq(s) == s \in Seq({s[i] : i \in 1..Len(s)})

IsCall(f) ==
  /\ DOMAIN f = {"cap", "inputs", "seen", "pc", "next", "hits", "saved", "savedLedger"}
  /\ f.pc \in {"enter", "checks", "uses"}
  /\ f.hits \in Tally

\* What there is: calls in progress, rows and effects in sequences, and counts that count.
StackShape == IsSeq(stack) /\ \A i \in 1..Len(stack) : IsCall(stack[i])
LedgerShape == IsSeq(ledger) /\ \A i \in 1..Len(ledger) : ledger[i].hits \in Tally
EngineShape == DOMAIN engine = {"inputs", "capability", "audit", "ledger"}
Shapes ==
  /\ StackShape /\ LedgerShape /\ IsSeq(effects) /\ EngineShape
  /\ result.hits \in Tally /\ runs \in Nat

OwnAudit(f) == [cap |-> f.cap, key |-> Key(f.cap, f.inputs)]

\* g is a part of h.
Within(g, h) == DOMAIN g \subseteq DOMAIN h /\ \A n \in DOMAIN g : g[n] = h[n]

\* The calls that wait for a capability they use: all but the one on top, which waits too
\* while its used capability's result is not yet looked at.
Waiting == IF result = NoResult THEN 1..Len(stack) - 1 ELSE 1..Len(stack)

\* A call that waits has saved its own audit, and the one it waits for got its inputs from it.
Waiters ==
  /\ \A i \in Waiting : /\ stack[i].pc = "uses"
                        /\ stack[i].saved = OwnAudit(stack[i])
                        /\ stack[i].savedLedger = options.ledger
  /\ \A i \in 1..Len(stack) - 1 : Within(stack[i + 1].inputs, stack[i].inputs)

\* What the fields of the engine say of the call on top.
EngineTells ==
  stack # <<>> =>
    /\ result = NoResult /\ Top.pc # "enter" =>
         engine.audit = OwnAudit(Top) /\ engine.ledger = options.ledger
    /\ result # NoResult \/ Top.pc # "enter" => Within(engine.inputs, Top.inputs)

\* The inductive invariant of RowsAreOwn and NoForeignInputs.
CallInv == Shapes /\ Waiters /\ EngineTells /\ RowsAreOwn

-----------------------------------------------------------------------------
(* The inductive invariant of ConfirmsOnce. *)

\* A call that uses others is none of its callers again.
Callers ==
  \A i \in 1..Len(stack) :
    /\ \A j \in 1..i - 1 : stack[j].cap \in stack[i].seen
    /\ stack[i].pc = "uses" => stack[i].cap \in stack[i].seen
    /\ \A j \in 1..i - 1 : stack[i].pc = "uses" => stack[i].cap # stack[j].cap

\* There is a success with this key among the rows.
HasSuccess(rows, c, key) ==
  \E i \in 1..Len(rows) : rows[i].cap = c /\ rows[i].key = key /\ rows[i].status = "success"

Guarded(f) == f.cap \in Mutating /\ options.ledger /\ ~options.dryRun

\* While a guarded call is past its checks, there is no success with its key.
NoneBefore ==
  \A i \in 1..Len(stack) :
    stack[i].pc = "uses" /\ Guarded(stack[i]) =>
      ~HasSuccess(ledger, stack[i].cap, OwnAudit(stack[i]).key)

SuccessIsOwn ==
  \A i \in 1..Len(ledger) : /\ ledger[i].status = "success" => ledger[i].cap = ledger[i].by
                            /\ ledger[i].run \in 0..runs

\* The run of the last call from outside can still go on to other steps.
GoesOn == stack # <<>> /\ (result = NoResult \/ result.status = "success")

\* Effects are those of this run and of earlier ones; while this run goes on, what it has
\* done with a ledger has its row.
EffectsTell ==
  /\ \A i \in 1..Len(effects) : effects[i].run \in 0..runs
  /\ \A i, j \in 1..Len(effects) : i < j => effects[i].run <= effects[j].run
  /\ GoesOn => \A i \in 1..Len(effects) :
       effects[i].run = runs /\ effects[i].ledger => HasSuccess(ledger, effects[i].cap, effects[i].key)

OnceInv == CallInv /\ Callers /\ NoneBefore /\ SuccessIsOwn /\ EffectsTell /\ ConfirmsOnce

-----------------------------------------------------------------------------
(* What DriftHasACause needs, with CallInv. *)

SlippedIn(slips, n) == \E s \in slips : s.run = n

SlipsTell ==
  /\ \A i \in 1..Len(ledger) :
       ledger[i].hits.fallback > 0 \/ ledger[i].miss => SlippedIn(slipped, ledger[i].run)
  /\ \A i \in 1..Len(stack) : stack[i].hits.fallback > 0 => SlippedIn(slipped, runs)
  /\ result.hits.fallback > 0 => SlippedIn(slipped, runs)

-----------------------------------------------------------------------------
(* Sequences. *)

LEMMA Appended ==
  ASSUME NEW s, IsSeq(s), NEW e
  PROVE  /\ IsSeq(Append(s, e))
         /\ Len(Append(s, e)) = Len(s) + 1
         /\ Append(s, e)[Len(s) + 1] = e
         /\ \A i \in 1..Len(s) : Append(s, e)[i] = s[i]
<1> DEFINE S == {s[i] : i \in 1..Len(s)}
           T == S \cup {e}
           t == Append(s, e)
<1>1. s \in Seq(T)
  BY DEF IsSeq
<1>2. /\ t \in Seq(T)
      /\ Len(t) = Len(s) + 1 /\ t[Len(s) + 1] = e
      /\ \A i \in 1..Len(s) : t[i] = s[i]
  BY <1>1
<1> HIDE DEF t, T
<1>3. t \in Seq({t[i] : i \in 1..Len(t)})
  BY <1>2
<1> QED BY <1>2, <1>3 DEF IsSeq, t

\* s with e for its last element.
Put(s, e) == [s EXCEPT ![Len(s)] = e]

LEMMA Replaced ==
  ASSUME NEW s, IsSeq(s), s # <<>>, NEW e, NEW t, t = Put(s, e)
  PROVE  /\ IsSeq(t) /\ t # <<>>
         /\ Len(t) = Len(s) /\ t[Len(s)] = e
         /\ \A i \in 1..Len(s) - 1 : t[i] = s[i]
<1> DEFINE S == {s[i] : i \in 1..Len(s)}
           T == S \cup {e}
<1>1. s \in Seq(T) /\ Len(s) \in Nat \ {0}
  BY DEF IsSeq
<1>2. /\ t \in Seq(T) /\ t # <<>>
      /\ Len(t) = Len(s) /\ t[Len(s)] = e
      /\ \A i \in 1..Len(s) - 1 : t[i] = s[i]
  BY <1>1 DEF Put
<1> HIDE DEF T
<1>3. t \in Seq({t[i] : i \in 1..Len(t)})
  BY ONLY <1>2
<1> QED BY <1>2, <1>3 DEF IsSeq

LEMMA Shortened ==
  ASSUME NEW s, IsSeq(s), s # <<>>, NEW t, t = SubSeq(s, 1, Len(s) - 1)
  PROVE  /\ IsSeq(t) /\ Len(t) = Len(s) - 1
         /\ t # <<>> <=> Len(s) > 1
         /\ \A i \in 1..Len(s) - 1 : t[i] = s[i]
<1> DEFINE S == {s[i] : i \in 1..Len(s)}
<1>1. s \in Seq(S) /\ Len(s) \in Nat \ {0}
  BY DEF IsSeq
<1>2. /\ t \in Seq(S) /\ Len(t) = Len(s) - 1
      /\ \A i \in 1..Len(s) - 1 : t[i] = s[i]
  <2>1. 1 \in 1..Len(s) + 1 /\ Len(s) - 1 \in 1 - 1..Len(s)
    BY <1>1
  <2> HIDE DEF S
  <2>2. /\ SubSeq(s, 1, Len(s) - 1) \in Seq(S)
        /\ Len(SubSeq(s, 1, Len(s) - 1)) = (Len(s) - 1) - 1 + 1
        /\ \A i \in 1..(Len(s) - 1) - 1 + 1 : SubSeq(s, 1, Len(s) - 1)[i] = s[1 + i - 1]
    BY <1>1, <2>1, Slice
  <2> QED BY <1>1, <2>2
<1> HIDE DEF S
<1>3. t \in Seq({t[i] : i \in 1..Len(t)})
  BY ONLY <1>2
<1>4. t # <<>> <=> Len(s) > 1
  BY ONLY <1>1, <1>2
<1> QED BY <1>2, <1>3, <1>4 DEF IsSeq

LEMMA Lengths ==
  ASSUME NEW s, IsSeq(s)
  PROVE  /\ Len(s) \in Nat /\ DOMAIN s = 1..Len(s)
         /\ s # <<>> <=> Len(s) > 0
BY DEF IsSeq

-----------------------------------------------------------------------------
(* The stack of calls. *)

LEMMA TopIsCall ==
  ASSUME StackShape, stack # <<>>
  PROVE  Len(stack) \in Nat \ {0} /\ IsCall(Top)
BY Lengths DEF StackShape, Top

LEMMA Pops ==
  ASSUME StackShape, stack # <<>>, stack' = Popped
  PROVE  /\ StackShape'
         /\ Len(stack') = Len(stack) - 1
         /\ \A i \in 1..Len(stack') : stack'[i] = stack[i]
<1>1. /\ IsSeq(stack') /\ Len(stack') = Len(stack) - 1
      /\ \A i \in 1..Len(stack) - 1 : stack'[i] = stack[i]
  BY Shortened DEF StackShape, Popped
<1> QED BY <1>1, TopIsCall DEF StackShape

LEMMA Puts ==
  ASSUME StackShape, stack # <<>>, NEW f, IsCall(f), stack' = WithTop(f)
  PROVE  /\ StackShape' /\ stack' # <<>>
         /\ Len(stack') = Len(stack) /\ stack'[Len(stack)] = f
         /\ \A i \in 1..Len(stack) - 1 : stack'[i] = stack[i]
<1>1. IsSeq(stack) /\ stack' = Put(stack, f)
  BY DEF StackShape, WithTop, Put
<1>2. /\ IsSeq(stack') /\ stack' # <<>>
      /\ Len(stack') = Len(stack) /\ stack'[Len(stack)] = f
      /\ \A i \in 1..Len(stack) - 1 : stack'[i] = stack[i]
  BY <1>1, Replaced
<1> QED BY <1>2, TopIsCall DEF StackShape

LEMMA Pushes ==
  ASSUME StackShape, stack # <<>>, NEW f, IsCall(f), NEW g, IsCall(g),
         stack' = Append(WithTop(f), g)
  PROVE  /\ StackShape' /\ stack' # <<>>
         /\ Len(stack') = Len(stack) + 1
         /\ stack'[Len(stack) + 1] = g /\ stack'[Len(stack)] = f
         /\ \A i \in 1..Len(stack) - 1 : stack'[i] = stack[i]
<1> DEFINE mid == WithTop(f)
<1>1. /\ IsSeq(mid)
      /\ Len(mid) = Len(stack) /\ mid[Len(stack)] = f
      /\ \A i \in 1..Len(stack) - 1 : mid[i] = stack[i]
  <2>1. IsSeq(stack) /\ mid = Put(stack, f)
    BY DEF StackShape, WithTop, Put
  <2> HIDE DEF mid
  <2> QED BY <2>1, Replaced
<1>2. stack' = Append(mid, g)
  OBVIOUS
<1> HIDE DEF mid
<1>3. /\ IsSeq(stack')
      /\ Len(stack') = Len(mid) + 1 /\ stack'[Len(mid) + 1] = g
      /\ \A i \in 1..Len(mid) : stack'[i] = mid[i]
  BY <1>1, <1>2, Appended
<1>4. Len(stack') = Len(stack) + 1
  BY <1>1, <1>3
<1>5. stack' # <<>>
  BY <1>3, <1>4, Lengths, TopIsCall
<1> QED BY <1>1, <1>3, <1>4, <1>5, TopIsCall DEF StackShape

\* A run() call that ends gives its result, and the one that waits for it is on top.
LEMMA Ends ==
  ASSUME Shapes, stack # <<>>, NEW f, f.hits \in Tally, NEW status, NEW code,
         Sinks(f, status, code)
  PROVE  /\ StackShape' /\ result'.hits \in Tally
         /\ Len(stack') = Len(stack) - 1
         /\ \A i \in 1..Len(stack') : stack'[i] = stack[i]
         /\ result' = [status |-> status, code |-> code, hits |-> f.hits]
BY Pops DEF Shapes, Sinks

\* It leaves at most its own row.
LEMMA Writes ==
  ASSUME Shapes, NEW e, NEW f, f.hits \in Tally, NEW status, NEW code,
         Completes(e, f, status, code)
  PROVE  /\ LedgerShape'
         /\ \/ ledger' = ledger
            \/ /\ e.ledger /\ Len(ledger') = Len(ledger) + 1
               /\ ledger'[Len(ledger) + 1] = Row(e, f, status, code)
               /\ \A i \in 1..Len(ledger) : ledger'[i] = ledger[i]
         /\ e.ledger => Len(ledger') = Len(ledger) + 1
<1>1. CASE ~e.ledger
  BY <1>1 DEF Completes, Shapes, LedgerShape
<1>2. CASE e.ledger
  <2>1. /\ IsSeq(ledger')
        /\ Len(ledger') = Len(ledger) + 1 /\ ledger'[Len(ledger) + 1] = Row(e, f, status, code)
        /\ \A i \in 1..Len(ledger) : ledger'[i] = ledger[i]
    BY <1>2, Appended DEF Completes, Shapes, LedgerShape
  <2>2. Row(e, f, status, code).hits = f.hits
    BY DEF Row
  <2>3. Len(ledger) \in Nat
    BY Lengths DEF Shapes, LedgerShape
  <2> QED BY <1>2, <2>1, <2>2, <2>3 DEF Shapes, LedgerShape
<1> QED BY <1>1, <1>2

LEMMA EnteredTells ==
  ASSUME EngineShape
  PROVE  /\ DOMAIN Entered = DOMAIN engine
         /\ Entered.inputs = Top.inputs
         /\ Entered.audit = engine.audit /\ Entered.ledger = engine.ledger
BY DEF EngineShape, Entered

LEMMA RegisteredTells ==
  ASSUME EngineShape
  PROVE  /\ DOMAIN Registered = DOMAIN engine
         /\ Registered.inputs = Top.inputs
         /\ Registered.audit = OwnAudit(Top) /\ Registered.ledger = options.ledger
BY EnteredTells DEF EngineShape, Registered, OwnAudit

LEMMA RestoredTells ==
  ASSUME EngineShape, NEW f
  PROVE  /\ DOMAIN Restored(f) = DOMAIN engine
         /\ Restored(f).inputs = engine.inputs
         /\ Restored(f).audit = f.saved /\ Restored(f).ledger = f.savedLedger
BY DEF EngineShape, Restored

LEMMA Counted ==
  ASSUME NEW k \in Tally, NEW h \in Tally
  PROVE  Add(k, h) \in Tally /\ (Add(k, h).fallback > 0 => k.fallback > 0 \/ h.fallback > 0)
BY DEF Tally, Add

LEMMA NewCall ==
  ASSUME NEW c, NEW inputs, NEW seen
  PROVE  IsCall(Call(c, inputs, seen))
BY DEF IsCall, Call, Tally

LEMMA NothingCounted == NoResult.hits \in Tally /\ NoResult.hits.fallback = 0 /\ NoResult.status = None
BY DEF NoResult, Tally

-----------------------------------------------------------------------------
(* What each action does to the call on top. *)

LEMMA WithinTrans ==
  ASSUME NEW f, NEW g, NEW h, Within(f, g), Within(g, h)
  PROVE  Within(f, h)
BY DEF Within

LEMMA WithinSelf == \A f : Within(f, f)
BY DEF Within

LEMMA PassedWithin == \A f, use : Within(Passed(f, use), f.inputs)
BY DEF Within, Passed

\* The call on top ends, in whatever way: the one below it waits for the result.
LEMMA EndKeeps ==
  ASSUME Shapes, Waiters, stack # <<>>, NEW f, f.hits \in Tally,
         NEW status, status # None, NEW code, Sinks(f, status, code),
         options' = options, Within(engine'.inputs, Top.inputs)
  PROVE  Waiters' /\ EngineTells'
<1>1. /\ StackShape' /\ Len(stack') = Len(stack) - 1
      /\ \A i \in 1..Len(stack') : stack'[i] = stack[i]
      /\ Len(stack) \in Nat \ {0}
  BY Ends, TopIsCall DEF Shapes
<1>2. result' # NoResult
  BY DEF Sinks, NoResult
<1>3. Waiting' = 1..Len(stack) - 1 /\ Waiting' \subseteq Waiting
  BY <1>1, <1>2 DEF Waiting
<1>4. Waiters'
  <2>1. \A i \in Waiting' : OwnAudit(stack[i])' = OwnAudit(stack[i])
    BY <1>1, <1>3 DEF OwnAudit, Key
  <2>2. \A i \in 1..Len(stack') - 1 : i \in 1..Len(stack) - 1 /\ i + 1 \in 1..Len(stack')
    BY <1>1
  <2> QED BY <1>1, <1>3, <2>1, <2>2 DEF Waiters
<1>5. ASSUME stack' # <<>> PROVE Within(engine'.inputs, Top'.inputs)
  <2>1. Len(stack') > 0
    BY <1>1, <1>5, Lengths DEF StackShape
  <2>2. Top' = stack[Len(stack) - 1] /\ Len(stack) - 1 \in 1..Len(stack) - 1
    BY <1>1, <2>1 DEF Top
  <2>3. Within(Top.inputs, Top'.inputs)
    BY <1>1, <2>2 DEF Waiters, Top
  <2> QED BY <2>3, WithinTrans
<1> QED BY <1>2, <1>4, <1>5 DEF EngineTells

\* The call on top goes on, with its own audit and inputs on the engine.
LEMMA PutKeeps ==
  ASSUME Shapes, Waiters, stack # <<>>, NEW g, IsCall(g), g.inputs = Top.inputs,
         stack' = WithTop(g), options' = options, result' = NoResult,
         engine'.audit = OwnAudit(g), engine'.ledger = options.ledger,
         Within(engine'.inputs, g.inputs)
  PROVE  Waiters' /\ EngineTells'
<1>1. /\ StackShape' /\ stack' # <<>> /\ Len(stack') = Len(stack)
      /\ stack'[Len(stack)] = g /\ Len(stack) \in Nat \ {0}
      /\ \A i \in 1..Len(stack) - 1 : stack'[i] = stack[i]
  BY Puts, TopIsCall DEF Shapes
<1>2. Waiting' = 1..Len(stack) - 1 /\ Waiting' \subseteq Waiting
  BY <1>1 DEF Waiting
<1>3. Top' = g
  BY <1>1 DEF Top
<1>4. Waiters'
  <2>1. \A i \in Waiting' : OwnAudit(stack[i])' = OwnAudit(stack[i])
    BY <1>1, <1>2 DEF OwnAudit, Key
  <2>2. ASSUME NEW i \in 1..Len(stack') - 1
        PROVE  Within(stack'[i + 1].inputs, stack'[i].inputs)
    <3>1. i \in 1..Len(stack) - 1 /\ stack'[i] = stack[i]
      BY <1>1
    <3>2. stack'[i + 1].inputs = stack[i + 1].inputs
      <4>1. CASE i + 1 = Len(stack)
        BY <4>1, <1>1 DEF Top
      <4>2. CASE i + 1 # Len(stack)
        BY <4>2, <1>1, <3>1
      <4> QED BY <4>1, <4>2
    <3> QED BY <3>1, <3>2 DEF Waiters
  <2> QED BY <1>1, <1>2, <2>1, <2>2 DEF Waiters
<1>5. OwnAudit(Top)' = OwnAudit(g)
  BY <1>3 DEF OwnAudit, Key
<1> QED BY <1>3, <1>4, <1>5 DEF EngineTells

\* A row that names its own call, or tells of a failure of the two kinds, keeps the ledger true.
LEMMA RowIsOwn ==
  ASSUME Shapes, RowsAreOwn, NEW e, NEW f, f.hits \in Tally, NEW status, NEW code,
         Completes(e, f, status, code),
         e.audit.cap = f.cap \/ code \in {"GOVERNANCE", "UNCAUGHT"}
  PROVE  RowsAreOwn'
<1>1. /\ LedgerShape'
      /\ \/ ledger' = ledger
         \/ /\ Len(ledger') = Len(ledger) + 1
            /\ ledger'[Len(ledger) + 1] = Row(e, f, status, code)
            /\ \A i \in 1..Len(ledger) : ledger'[i] = ledger[i]
  BY Writes
<1>2. /\ Row(e, f, status, code).cap = e.audit.cap
      /\ Row(e, f, status, code).by = f.cap
      /\ Row(e, f, status, code).code = code
  BY DEF Row
<1>3. Len(ledger) \in Nat /\ DOMAIN ledger = 1..Len(ledger) /\ DOMAIN ledger' = 1..Len(ledger')
  BY <1>1, Lengths DEF Shapes, LedgerShape
<1>4. ASSUME NEW i \in 1..Len(ledger')
      PROVE  \/ ledger'[i].cap = ledger'[i].by
             \/ ledger'[i].code \in {"GOVERNANCE", "UNCAUGHT"}
  <2>1. CASE i \in 1..Len(ledger) /\ ledger'[i] = ledger[i]
    BY <2>1, <1>3 DEF RowsAreOwn
  <2>2. CASE ledger'[i] = Row(e, f, status, code)
    BY <2>2, <1>2
  <2>3. CASE ledger' = ledger
    BY <2>1, <2>3
  <2>4. CASE Len(ledger') = Len(ledger) + 1
    <3>1. i \in 1..Len(ledger) \/ i = Len(ledger) + 1
      BY ONLY <2>4, <1>3, i \in 1..Len(ledger')
    <3>2. ledger' # ledger
      BY <2>4, <1>3
    <3> QED BY <2>1, <2>2, <3>1, <3>2, <1>1
  <2> QED BY <2>3, <2>4, <1>1
<1> QED BY <1>3, <1>4 DEF RowsAreOwn

-----------------------------------------------------------------------------
(* Whose data a run works with. *)

\* complete() at the end of the call on top, with whatever has been counted.
LEMMA CompleteKeeps ==
  ASSUME CallInv, stack # <<>>, NEW e, NEW f, f.hits \in Tally, f.cap = Top.cap,
         NEW status, status # None, NEW code, Completes(e, f, status, code),
         e.audit.cap = f.cap \/ code \in {"GOVERNANCE", "UNCAUGHT"},
         UNCHANGED <<options, runs>>, IsSeq(effects'),
         DOMAIN engine' = DOMAIN engine, Within(engine'.inputs, Top.inputs)
  PROVE  CallInv'
<1>1. Sinks(f, status, code)
  BY DEF Completes
<1>2. StackShape' /\ result'.hits \in Tally /\ LedgerShape'
  BY <1>1, Ends, Writes DEF CallInv
<1>3. Waiters' /\ EngineTells'
  BY <1>1, EndKeeps DEF CallInv
<1>4. RowsAreOwn'
  BY RowIsOwn DEF CallInv
<1> QED BY <1>2, <1>3, <1>4 DEF CallInv, Shapes, EngineShape

\* run() that throws or is refused leaves no row.
LEMMA LeaveKeeps ==
  ASSUME CallInv, stack # <<>>, NEW status, status # None, NEW code, Sinks(Top, status, code),
         UNCHANGED <<options, runs, ledger, effects>>,
         DOMAIN engine' = DOMAIN engine, Within(engine'.inputs, Top.inputs)
  PROVE  CallInv'
<1>1. Top.hits \in Tally
  BY TopIsCall DEF CallInv, Shapes, IsCall
<1>2. StackShape' /\ result'.hits \in Tally
  BY <1>1, Ends DEF CallInv
<1>3. Waiters' /\ EngineTells'
  BY <1>1, EndKeeps DEF CallInv
<1>4. RowsAreOwn' /\ LedgerShape'
  BY DEF CallInv, RowsAreOwn, Shapes, LedgerShape
<1> QED BY <1>2, <1>3, <1>4 DEF CallInv, Shapes, EngineShape

LEMMA GoOnKeeps ==
  ASSUME CallInv, stack # <<>>, NEW g, IsCall(g), g.inputs = Top.inputs,
         stack' = WithTop(g), UNCHANGED <<options, runs, ledger, effects>>, result' = NoResult,
         DOMAIN engine' = DOMAIN engine, engine'.audit = OwnAudit(g),
         engine'.ledger = options.ledger, Within(engine'.inputs, g.inputs)
  PROVE  CallInv'
<1>1. StackShape'
  BY Puts DEF CallInv, Shapes
<1>2. Waiters' /\ EngineTells'
  BY PutKeeps DEF CallInv
<1>3. RowsAreOwn' /\ LedgerShape'
  BY DEF CallInv, RowsAreOwn, Shapes, LedgerShape
<1> QED BY <1>1, <1>2, <1>3, NothingCounted DEF CallInv, Shapes, EngineShape

\* The actions in which the call on top ends with complete().
Completing ==
  \/ GovernanceStops \/ SessionStops \/ Conflicts \/ NotApplicable \/ Cycles \/ LoadFails
  \/ Steps \/ Catches

\* Each leaves the row of the call on top; only the steps add to what it has counted.
LEMMA CompletingIs ==
  ASSUME CallInv, Completing
  PROVE  /\ stack # <<>> /\ UNCHANGED <<options, runs>>
         /\ \E e, f, status, code :
              /\ f.hits \in Tally /\ f.cap = Top.cap /\ f.inputs = Top.inputs
              /\ status \in {"success", "failed", "dry_run", "needs_human"} /\ (status = "success" => Steps)
              /\ Steps \/ effects' = effects
              /\ Completes(e, f, status, code)
              /\ e.audit.cap = f.cap \/ code \in {"GOVERNANCE", "UNCAUGHT"}
              /\ status = "success" => e.ledger = options.ledger /\ e.audit = OwnAudit(f)
         /\ DOMAIN engine' = DOMAIN engine /\ Within(engine'.inputs, Top.inputs)
         /\ IsSeq(effects')
<1>1. ASSUME stack # <<>>
      PROVE  Top.hits \in Tally
  BY <1>1, TopIsCall DEF CallInv, Shapes, IsCall
<1>2. CASE GovernanceStops
  <2>1. Completes(Entered, Top, "failed", "GOVERNANCE") /\ engine' = Entered /\ stack # <<>>
        /\ UNCHANGED <<options, runs, effects>>
    BY <1>2 DEF GovernanceStops, At
  <2>2. DOMAIN engine' = DOMAIN engine /\ Within(engine'.inputs, Top.inputs)
    BY <2>1, EnteredTells, WithinSelf DEF CallInv, Shapes
  <2> QED BY <2>1, <2>2, <1>1 DEF CallInv, Shapes
<1>3. CASE SessionStops
  <2>1. Completes(Registered, Top, "failed", "PRECONDITION_FAILED") /\ engine' = Registered
        /\ stack # <<>> /\ UNCHANGED <<options, runs, effects>>
    BY <1>3 DEF SessionStops, At
  <2>2. DOMAIN engine' = DOMAIN engine /\ Within(engine'.inputs, Top.inputs)
        /\ Registered.audit.cap = Top.cap
    BY <2>1, RegisteredTells, WithinSelf DEF CallInv, Shapes, OwnAudit
  <2> QED BY <2>1, <2>2, <1>1 DEF CallInv, Shapes
<1>4. CASE Conflicts \/ NotApplicable \/ Cycles \/ LoadFails
  <2>1. /\ \E code : Completes(engine, Top, "failed", code)
        /\ engine' = engine /\ stack # <<>> /\ UNCHANGED <<options, runs, effects>>
        /\ result = NoResult /\ Top.pc # "enter"
    BY <1>4 DEF Conflicts, NotApplicable, Cycles, LoadFails, Goes, At
  <2>2. Within(engine'.inputs, Top.inputs) /\ engine.audit.cap = Top.cap
    BY <2>1 DEF CallInv, EngineTells, OwnAudit
  <2> QED BY <2>1, <2>2, <1>1 DEF CallInv, Shapes
<1>5. CASE Catches
  <2>1. /\ Completes(engine, Top, "failed", "UNCAUGHT")
        /\ engine' = engine /\ stack # <<>> /\ UNCHANGED <<options, runs, effects>>
        /\ result # NoResult
    BY <1>5 DEF Catches, Answered
  <2>2. Within(engine'.inputs, Top.inputs)
    BY <2>1 DEF CallInv, EngineTells
  <2> QED BY <2>1, <2>2, <1>1 DEF CallInv, Shapes
<1>6. CASE Steps
  <2>1. /\ engine' = engine /\ stack # <<>> /\ UNCHANGED <<options, runs>>
        /\ result = NoResult /\ Top.pc = "uses"
    BY <1>6 DEF Steps, At
  <2>2. PICK h \in Hits, end \in {<<"success", None>>, <<"failed", "CHECKPOINT_FAILED">>,
                                 <<"dry_run", None>>, <<"needs_human", "SESSION_EXPIRED">>} :
          /\ Completes(engine, [Top EXCEPT !.hits = Add(@, h)], end[1], end[2])
          /\ \/ effects' = effects
             \/ effects' = Append(effects, [run |-> runs, cap |-> Top.cap,
                                            key |-> Key(Top.cap, Top.inputs),
                                            ledger |-> options.ledger])
    BY <1>6 DEF Steps
  <2> DEFINE f == [Top EXCEPT !.hits = Add(@, h)]
  <2>3. f.cap = Top.cap /\ f.inputs = Top.inputs /\ f.hits = Add(Top.hits, h)
    BY <2>1, TopIsCall DEF CallInv, Shapes, IsCall
  <2>4. f.hits \in Tally
    BY <2>1, <2>3, <1>1, Counted DEF Tally
  <2>5. IsSeq(effects')
    <3>1. \E r : effects' = effects \/ effects' = Append(effects, r)
      BY <2>2, Zenon
    <3>2. IsSeq(effects)
      BY DEF CallInv, Shapes
    <3> QED BY ONLY <3>1, <3>2, Appended
  <2>6. /\ Within(engine'.inputs, Top.inputs)
        /\ engine.audit = OwnAudit(Top) /\ engine.ledger = options.ledger
    BY <2>1 DEF CallInv, EngineTells
  <2>7. OwnAudit(f) = OwnAudit(Top) /\ OwnAudit(f).cap = f.cap
    BY <2>3 DEF OwnAudit
  <2>8. end[1] \in {"success", "failed", "dry_run", "needs_human"}
    OBVIOUS
  <2> HIDE DEF f
  <2>9. Completes(engine, f, end[1], end[2])
    BY <2>2 DEF f
  <2> QED BY <2>1, <2>3, <2>4, <2>5, <2>6, <2>7, <2>8, <2>9, <1>6
<1> QED BY <1>2, <1>3, <1>4, <1>5, <1>6 DEF Completing

LEMMA CompletingKeepsCalls ==
  ASSUME CallInv, Completing
  PROVE  CallInv'
<1>1. /\ stack # <<>> /\ UNCHANGED <<options, runs>>
      /\ DOMAIN engine' = DOMAIN engine /\ Within(engine'.inputs, Top.inputs)
      /\ IsSeq(effects')
  BY CompletingIs
<1>2. PICK e, f, status, code :
        /\ f.hits \in Tally /\ f.cap = Top.cap
        /\ status \in {"success", "failed", "dry_run", "needs_human"}
        /\ Completes(e, f, status, code)
        /\ e.audit.cap = f.cap \/ code \in {"GOVERNANCE", "UNCAUGHT"}
  BY CompletingIs, Zenon
<1>3. status # None
  BY <1>2 DEF None
<1> QED BY <1>1, <1>2, <1>3, CompleteKeeps

LEMMA LeavingKeepsCalls ==
  ASSUME CallInv, VaultThrows \/ RefusesInputs \/ LedgerThrows
  PROVE  CallInv'
<1>1. CASE VaultThrows \/ RefusesInputs
  <2>1. /\ stack # <<>> /\ engine' = Entered /\ UNCHANGED <<options, runs, ledger, effects>>
        /\ Sinks(Top, "thrown", None) \/ Sinks(Top, "invalid_input", "INVALID_INPUT")
    BY <1>1 DEF VaultThrows, RefusesInputs, At, Rejects
  <2>2. DOMAIN engine' = DOMAIN engine /\ Within(engine'.inputs, Top.inputs)
    BY <2>1, EnteredTells, WithinSelf DEF CallInv, Shapes
  <2>3. "thrown" # None /\ "invalid_input" # None
    BY DEF None
  <2> QED BY <2>1, <2>2, <2>3, LeaveKeeps
<1>2. CASE LedgerThrows
  <2>1. /\ stack # <<>> /\ engine' = engine /\ UNCHANGED <<options, runs, ledger, effects>>
        /\ Sinks(Top, "thrown", None) /\ result = NoResult /\ Top.pc # "enter"
    BY <1>2 DEF LedgerThrows, At, Rejects
  <2>2. Within(engine'.inputs, Top.inputs)
    BY <2>1 DEF CallInv, EngineTells
  <2>3. "thrown" # None
    BY DEF None
  <2> QED BY <2>1, <2>2, <2>3, LeaveKeeps
<1> QED BY <1>1, <1>2

LEMMA GoingOnKeepsCalls ==
  ASSUME CallInv, Registers \/ Begins \/ Skips \/ Resumes
  PROVE  CallInv'
<1>1. stack # <<>> => IsCall(Top) /\ OwnAudit(Top) = [cap |-> Top.cap, key |-> Key(Top.cap, Top.inputs)]
  BY TopIsCall DEF CallInv, Shapes, OwnAudit
<1>2. CASE Registers
  <2> DEFINE g == [Top EXCEPT !.pc = "checks"]
  <2>1. /\ stack # <<>> /\ engine' = Registered /\ stack' = WithTop(g) /\ result' = NoResult
        /\ UNCHANGED <<options, runs, ledger, effects>>
    BY <1>2 DEF Registers, At
  <2>2. IsCall(g) /\ g.inputs = Top.inputs /\ g.cap = Top.cap
    BY <2>1, <1>1 DEF IsCall
  <2> HIDE DEF g
  <2>3. OwnAudit(g) = OwnAudit(Top)
    BY <2>2 DEF OwnAudit
  <2>4. /\ DOMAIN engine' = DOMAIN engine /\ Within(engine'.inputs, g.inputs)
        /\ engine'.audit = OwnAudit(g) /\ engine'.ledger = options.ledger
    BY <2>1, <2>2, <2>3, RegisteredTells, WithinSelf DEF CallInv, Shapes
  <2> QED BY <2>1, <2>2, <2>4, GoOnKeeps
<1>3. CASE Begins \/ Skips
  <2>1. /\ stack # <<>> /\ engine' = engine /\ result' = NoResult
        /\ UNCHANGED <<options, runs, ledger, effects>> /\ result = NoResult /\ Top.pc # "enter"
    BY <1>3 DEF Begins, Skips, Goes, At
  <2>2. PICK g : /\ stack' = WithTop(g) /\ IsCall(g) /\ g.inputs = Top.inputs /\ g.cap = Top.cap
    <3>1. CASE Begins
      <4> DEFINE g == [Top EXCEPT !.pc = "uses", !.seen = Seen(Top)]
      <4>1. stack' = WithTop(g) /\ IsCall(g) /\ g.inputs = Top.inputs /\ g.cap = Top.cap
        BY <3>1, <2>1, <1>1 DEF IsCall, Begins
      <4> QED BY <4>1
    <3>2. CASE Skips
      <4> DEFINE g == [Top EXCEPT !.next = @ + 1]
      <4>1. stack' = WithTop(g) /\ IsCall(g) /\ g.inputs = Top.inputs /\ g.cap = Top.cap
        BY <3>2, <2>1, <1>1 DEF IsCall, Skips
      <4> QED BY <4>1
    <3> QED BY <1>3, <3>1, <3>2
  <2>3. OwnAudit(g) = OwnAudit(Top)
    BY <2>2 DEF OwnAudit
  <2>4. /\ Within(engine'.inputs, g.inputs)
        /\ engine'.audit = OwnAudit(g) /\ engine'.ledger = options.ledger
    BY <2>1, <2>2, <2>3 DEF CallInv, EngineTells
  <2> QED BY <2>1, <2>2, <2>4, GoOnKeeps
<1>4. CASE Resumes
  <2> DEFINE g == [Top EXCEPT !.next = @ + 1, !.hits = Add(@, result.hits)]
  <2>1. /\ stack # <<>> /\ engine' = Restored(Top) /\ stack' = WithTop(g) /\ result' = NoResult
        /\ UNCHANGED <<options, runs, ledger, effects>> /\ result # NoResult
    BY <1>4 DEF Resumes, Answered
  <2>2. Add(Top.hits, result.hits) \in Tally
    BY <2>1, <1>1, Counted DEF IsCall, CallInv, Shapes
  <2>3. IsCall(g) /\ g.inputs = Top.inputs /\ g.cap = Top.cap
    BY <2>1, <2>2, <1>1 DEF IsCall
  <2> HIDE DEF g
  <2>4. OwnAudit(g) = OwnAudit(Top)
    BY <2>3 DEF OwnAudit
  <2>5. Top.saved = OwnAudit(Top) /\ Top.savedLedger = options.ledger
    <3>1. Len(stack) \in Waiting
      BY <2>1, TopIsCall DEF Waiting, CallInv, Shapes
    <3> QED BY <3>1 DEF CallInv, Waiters, Top
  <2>6. Within(engine.inputs, Top.inputs)
    BY <2>1 DEF CallInv, EngineTells
  <2>7. /\ DOMAIN engine' = DOMAIN engine /\ Within(engine'.inputs, g.inputs)
        /\ engine'.audit = OwnAudit(g) /\ engine'.ledger = options.ledger
    BY <2>1, <2>3, <2>4, <2>5, <2>6, RestoredTells DEF CallInv, Shapes
  <2> QED BY <2>1, <2>3, <2>7, GoOnKeeps
<1> QED BY <1>2, <1>3, <1>4

\* The frame of a call: what the call that uses another puts on the stack.
LEMMA UsesIs ==
  ASSUME CallInv, Uses
  PROVE  /\ stack # <<>> /\ result = NoResult /\ Top.pc = "uses" /\ Len(stack) \in Nat \ {0}
         /\ UNCHANGED <<uses, engine, options, result, ledger, effects, slipped, runs>>
         /\ \E f, g :
              /\ IsCall(f) /\ f.cap = Top.cap /\ f.inputs = Top.inputs /\ f.pc = Top.pc
              /\ f.seen = Top.seen /\ f.hits = Top.hits
              /\ f.saved = engine.audit /\ f.savedLedger = engine.ledger
              /\ IsCall(g) /\ Within(g.inputs, f.inputs) /\ g.pc = "enter" /\ g.seen = Top.seen
              /\ g.hits = NoResult.hits /\ g.cap \in Capabilities
              /\ Len(stack') = Len(stack) + 1
              /\ stack'[Len(stack) + 1] = g /\ stack'[Len(stack)] = f
              /\ \A i \in 1..Len(stack) - 1 : stack'[i] = stack[i]
              /\ StackShape' /\ stack' # <<>>
<1> DEFINE f == [Top EXCEPT !.saved = engine.audit, !.savedLedger = engine.ledger]
           g == Call(Use.id, Passed(Top, Use), Top.seen)
<1>1. /\ stack # <<>> /\ result = NoResult /\ Top.pc = "uses" /\ stack' = Append(WithTop(f), g)
      /\ UNCHANGED <<uses, engine, options, result, ledger, effects, slipped, runs>>
      /\ Use.id \in Capabilities
  BY DEF Uses, At, Loaded
<1>2. Len(stack) \in Nat \ {0} /\ IsCall(Top)
  BY <1>1, TopIsCall DEF CallInv, Shapes
<1>3. /\ IsCall(f) /\ f.cap = Top.cap /\ f.inputs = Top.inputs /\ f.pc = Top.pc
      /\ f.seen = Top.seen /\ f.hits = Top.hits
      /\ f.saved = engine.audit /\ f.savedLedger = engine.ledger
  BY <1>2 DEF IsCall
<1> HIDE DEF f
<1>4. /\ IsCall(g) /\ g.inputs = Passed(Top, Use) /\ g.pc = "enter" /\ g.seen = Top.seen
      /\ g.hits = NoResult.hits /\ g.cap \in Capabilities
  BY <1>1, NewCall DEF Call, NoResult
<1>5. Within(g.inputs, f.inputs)
  BY <1>3, <1>4, PassedWithin
<1> HIDE DEF g
<1>6. /\ Len(stack') = Len(stack) + 1
      /\ stack'[Len(stack) + 1] = g /\ stack'[Len(stack)] = f
      /\ \A i \in 1..Len(stack) - 1 : stack'[i] = stack[i]
      /\ StackShape' /\ stack' # <<>>
  BY <1>1, <1>3, <1>4, Pushes DEF CallInv, Shapes
<1> QED BY <1>1, <1>2, <1>3, <1>4, <1>5, <1>6

LEMMA UsesKeepsCalls ==
  ASSUME CallInv, Uses
  PROVE  CallInv'
<1>1. /\ stack # <<>> /\ result = NoResult /\ Top.pc = "uses" /\ Len(stack) \in Nat \ {0}
      /\ UNCHANGED <<engine, options, result, ledger, effects, runs>>
  BY UsesIs
<1>2. PICK f, g :
        /\ f.cap = Top.cap /\ f.inputs = Top.inputs /\ f.pc = Top.pc
        /\ f.saved = engine.audit /\ f.savedLedger = engine.ledger
        /\ Within(g.inputs, f.inputs) /\ g.pc = "enter"
        /\ Len(stack') = Len(stack) + 1
        /\ stack'[Len(stack) + 1] = g /\ stack'[Len(stack)] = f
        /\ \A i \in 1..Len(stack) - 1 : stack'[i] = stack[i]
        /\ StackShape' /\ stack' # <<>>
  BY UsesIs, Zenon
<1>3. Waiting = 1..Len(stack) - 1 /\ Waiting' = 1..Len(stack)
  BY <1>1, <1>2 DEF Waiting
<1>4. Waiters'
  <2>1. ASSUME NEW i \in Waiting'
        PROVE  /\ stack'[i].pc = "uses" /\ stack'[i].saved = OwnAudit(stack[i])'
               /\ stack'[i].savedLedger = options'.ledger
    <3>1. CASE i = Len(stack)
      <4>1. f.saved = OwnAudit(Top) /\ f.savedLedger = options.ledger
        BY <1>1, <1>2 DEF CallInv, EngineTells
      <4>2. OwnAudit(f) = OwnAudit(Top)
        BY <1>2 DEF OwnAudit
      <4> QED BY <1>1, <1>2, <3>1, <4>1, <4>2
    <3>2. CASE i # Len(stack)
      <4>1. i \in Waiting /\ i \in 1..Len(stack) - 1
        BY <1>1, <1>3, <3>2
      <4> QED BY <1>1, <1>2, <4>1 DEF CallInv, Waiters
    <3> QED BY <3>1, <3>2
  <2>2. ASSUME NEW i \in 1..Len(stack') - 1
        PROVE  Within(stack'[i + 1].inputs, stack'[i].inputs)
    <3>1. CASE i = Len(stack)
      BY <1>2, <3>1
    <3>2. CASE i # Len(stack)
      <4>1. i \in 1..Len(stack) - 1 /\ stack'[i] = stack[i]
        BY <1>1, <1>2, <3>2
      <4>2. stack'[i + 1].inputs = stack[i + 1].inputs
        <5>1. CASE i + 1 = Len(stack)
          BY <5>1, <1>2 DEF Top
        <5>2. CASE i + 1 # Len(stack)
          BY <5>2, <1>1, <1>2, <4>1
        <5> QED BY <5>1, <5>2
      <4> QED BY <4>1, <4>2 DEF CallInv, Waiters
    <3> QED BY <3>1, <3>2
  <2> QED BY <2>1, <2>2 DEF Waiters
<1>5. EngineTells'
  <2>1. Top' = g
    BY <1>2 DEF Top
  <2> QED BY <1>1, <1>2, <2>1 DEF EngineTells
<1>6. RowsAreOwn' /\ LedgerShape'
  BY <1>1 DEF CallInv, RowsAreOwn, Shapes, LedgerShape
<1> QED BY <1>1, <1>2, <1>4, <1>5, <1>6 DEF CallInv, Shapes, EngineShape

LEMMA HaltsKeepsCalls ==
  ASSUME CallInv, Halts
  PROVE  CallInv'
<1>1. /\ stack # <<>> /\ result # NoResult /\ engine' = Restored(Top) /\ stack' = Popped
      /\ UNCHANGED <<options, result, ledger, effects, runs>>
  BY DEF Halts, Answered
<1>2. /\ StackShape' /\ Len(stack') = Len(stack) - 1 /\ Len(stack) \in Nat \ {0}
      /\ \A i \in 1..Len(stack') : stack'[i] = stack[i]
  BY <1>1, Pops, TopIsCall DEF CallInv, Shapes
<1>3. Waiting' = 1..Len(stack) - 1 /\ Waiting' \subseteq Waiting
  BY <1>1, <1>2 DEF Waiting
<1>4. Waiters'
  <2>1. \A i \in Waiting' : OwnAudit(stack[i])' = OwnAudit(stack[i])
    BY <1>2, <1>3 DEF OwnAudit, Key
  <2>2. \A i \in 1..Len(stack') - 1 : i \in 1..Len(stack) - 1 /\ i + 1 \in 1..Len(stack')
    BY <1>2
  <2> QED BY <1>1, <1>2, <1>3, <2>1, <2>2 DEF CallInv, Waiters
<1>5. EngineTells'
  <2>1. ASSUME stack' # <<>> PROVE Within(engine'.inputs, Top'.inputs)
    <3>1. Len(stack') > 0
      BY <1>2, <2>1, Lengths DEF StackShape
    <3>2. Top' = stack[Len(stack) - 1] /\ Len(stack) - 1 \in 1..Len(stack) - 1
      BY <1>2, <3>1 DEF Top
    <3>3. Within(Top.inputs, Top'.inputs)
      BY <1>2, <3>2 DEF CallInv, Waiters, Top
    <3>4. engine'.inputs = engine.inputs /\ Within(engine.inputs, Top.inputs)
      BY <1>1, RestoredTells DEF CallInv, Shapes, EngineTells
    <3> QED BY <3>3, <3>4, WithinTrans
  <2> QED BY <1>1, <2>1 DEF EngineTells
<1>6. RowsAreOwn' /\ LedgerShape'
  BY <1>1 DEF CallInv, RowsAreOwn, Shapes, LedgerShape
<1>7. DOMAIN engine' = DOMAIN engine
  BY <1>1, RestoredTells DEF CallInv, Shapes
<1> QED BY <1>1, <1>2, <1>4, <1>5, <1>6, <1>7 DEF CallInv, Shapes, EngineShape

\* Nothing runs: a stack without calls tells nothing.
LEMMA Idle == stack = <<>> => StackShape /\ Waiting = {} /\ Len(stack) = 0
BY DEF StackShape, IsSeq, Waiting

LEMMA CallIs ==
  ASSUME Calls
  PROVE  /\ stack = <<>> /\ result = NoResult /\ runs' = runs + 1 /\ engine' = Fresh
         /\ UNCHANGED <<uses, result, ledger, effects, slipped>>
         /\ StackShape' /\ stack' # <<>> /\ Len(stack') = 1
         /\ Top'.pc = "enter" /\ Top'.hits = NoResult.hits
<1>1. PICK c \in Capabilities, inputs \in Given : stack' = <<Call(c, inputs, {})>>
  BY DEF Calls
<1> DEFINE g == Call(c, inputs, {})
<1>2. IsCall(g) /\ g.pc = "enter" /\ g.hits = NoResult.hits
  BY NewCall DEF Call, NoResult
<1> HIDE DEF g
<1>3. stack' = <<g>> /\ stack' # <<>> /\ Len(stack') = 1 /\ stack'[1] = g
  BY <1>1 DEF g
<1>4. StackShape'
  BY <1>2, <1>3 DEF StackShape, IsSeq
<1>5. Top' = g
  BY <1>3 DEF Top
<1> QED BY <1>2, <1>3, <1>4, <1>5 DEF Calls

LEMMA StartKeepsCalls ==
  ASSUME CallInv, Calls \/ Answers
  PROVE  CallInv'
<1>1. DOMAIN Fresh = {"inputs", "capability", "audit", "ledger"}
  BY DEF Fresh
<1>2. CASE Calls
  <2>1. EngineShape' /\ runs' \in Nat
    BY <1>1, <1>2, CallIs DEF EngineShape, CallInv, Shapes
  <2>2. Waiting' = {} /\ 1..Len(stack') - 1 = {}
    <3>1. Len(stack') = 1 /\ result' = NoResult
      BY <1>2, CallIs
    <3>2. 1..Len(stack') - 1 = {}
      BY ONLY <3>1
    <3> QED BY <3>1, <3>2 DEF Waiting
  <2>3. Waiters' /\ EngineTells'
    BY <1>2, <2>2, CallIs DEF Waiters, EngineTells
  <2>4. RowsAreOwn' /\ LedgerShape'
    BY <1>2, CallIs DEF CallInv, RowsAreOwn, Shapes, LedgerShape
  <2> QED BY <1>2, <2>1, <2>3, <2>4, CallIs DEF CallInv, Shapes
<1>3. CASE Answers
  <2>1. /\ stack' = <<>> /\ engine' = Fresh /\ result' = NoResult
        /\ UNCHANGED <<ledger, effects, runs>>
    BY <1>3 DEF Answers
  <2>2. StackShape' /\ Waiting' = {} /\ Len(stack') = 0
    BY <2>1 DEF StackShape, IsSeq, Waiting
  <2>3. Waiters' /\ EngineTells'
    BY <2>1, <2>2 DEF Waiters, EngineTells
  <2>4. RowsAreOwn' /\ LedgerShape'
    BY <2>1 DEF CallInv, RowsAreOwn, Shapes, LedgerShape
  <2> QED BY <1>1, <2>1, <2>2, <2>3, <2>4, NothingCounted DEF CallInv, Shapes, EngineShape
<1> QED BY <1>2, <1>3

LEMMA CallInit == Init => CallInv
<1> SUFFICES ASSUME Init PROVE CallInv
  OBVIOUS
<1>1. StackShape /\ Waiting = {} /\ Len(stack) = 0
  BY Idle DEF Init
<1>2. IsSeq(ledger) /\ IsSeq(effects) /\ Len(ledger) = 0 /\ DOMAIN ledger = {}
  BY DEF Init, IsSeq
<1>3. EngineShape /\ result.hits \in Tally
  BY NothingCounted DEF Init, EngineShape, Fresh
<1>4. Waiters /\ EngineTells /\ RowsAreOwn /\ LedgerShape
  BY <1>1, <1>2 DEF Waiters, EngineTells, RowsAreOwn, LedgerShape, Init
<1> QED BY <1>1, <1>2, <1>3, <1>4 DEF CallInv, Shapes, Init

LEMMA CallStep ==
  ASSUME CallInv, [Next]_vars
  PROVE  CallInv'
<1>1. CASE Completing
  BY <1>1, CompletingKeepsCalls
<1>2. CASE VaultThrows \/ RefusesInputs \/ LedgerThrows
  BY <1>2, LeavingKeepsCalls
<1>3. CASE Registers \/ Begins \/ Skips \/ Resumes
  BY <1>3, GoingOnKeepsCalls
<1>4. CASE Uses
  BY <1>4, UsesKeepsCalls
<1>5. CASE Halts
  BY <1>5, HaltsKeepsCalls
<1>6. CASE Calls \/ Answers
  BY <1>6, StartKeepsCalls
<1>7. CASE UNCHANGED vars
  BY <1>7 DEF vars, CallInv, Shapes, StackShape, LedgerShape, EngineShape, Waiters, Waiting,
     EngineTells, RowsAreOwn, Top, OwnAudit, Key
<1> QED BY <1>1, <1>2, <1>3, <1>4, <1>5, <1>6, <1>7 DEF Next, EngineStep, Completing

\* The fields of the engine, the audits that waiting calls have saved and the inputs they
\* passed on fit together in every state (run() and runUsed share one engine object).
THEOREM EngineIsOwn == Spec => []CallInv
BY CallInit, CallStep, PTL DEF Spec

\* Each row tells of the call that wrote it, but for the two kinds of failure that are
\* written under another audit (engine.ts complete(), compose.ts runUsed).
THEOREM OwnRows == Spec => []RowsAreOwn
<1>1. CallInv => RowsAreOwn
  BY DEF CallInv
<1> QED BY <1>1, EngineIsOwn, PTL

\* No step of a call is judged with a value that is not among its own inputs (engine.ts 72).
THEOREM OwnInputs == Spec => []NoForeignInputs
<1>1. CallInv => NoForeignInputs
  BY DEF CallInv, EngineTells, NoForeignInputs, At, Within
<1> QED BY <1>1, EngineIsOwn, PTL

-----------------------------------------------------------------------------
(* A confirmation is not repeated. *)

LEMMA RowsAfter ==
  ASSUME Shapes, NEW e, NEW f, f.hits \in Tally, NEW status, NEW code,
         Completes(e, f, status, code)
  PROVE  /\ \A c, key : HasSuccess(ledger, c, key) => HasSuccess(ledger', c, key)
         /\ \A c, key : HasSuccess(ledger', c, key) =>
              \/ HasSuccess(ledger, c, key)
              \/ status = "success" /\ c = e.audit.cap /\ key = e.audit.key
         /\ status = "success" /\ e.ledger => HasSuccess(ledger', e.audit.cap, e.audit.key)
         /\ \A i \in 1..Len(ledger') : \/ i \in 1..Len(ledger) /\ ledger'[i] = ledger[i]
                                       \/ ledger'[i] = Row(e, f, status, code)
<1>1. /\ \/ ledger' = ledger
         \/ /\ e.ledger /\ Len(ledger') = Len(ledger) + 1
            /\ ledger'[Len(ledger) + 1] = Row(e, f, status, code)
            /\ \A i \in 1..Len(ledger) : ledger'[i] = ledger[i]
      /\ e.ledger => Len(ledger') = Len(ledger) + 1
      /\ Len(ledger) \in Nat
  BY Writes, Lengths DEF Shapes, LedgerShape
<1>2. /\ Row(e, f, status, code).cap = e.audit.cap
      /\ Row(e, f, status, code).key = e.audit.key
      /\ Row(e, f, status, code).status = status
  BY DEF Row
<1>3. CASE ledger' = ledger
  BY <1>1, <1>3
<1>4. CASE ledger' # ledger
  <2>1. /\ Len(ledger') = Len(ledger) + 1 /\ ledger'[Len(ledger) + 1] = Row(e, f, status, code)
        /\ \A i \in 1..Len(ledger) : i \in 1..Len(ledger') /\ ledger'[i] = ledger[i]
        /\ Len(ledger) + 1 \in 1..Len(ledger')
    BY <1>1, <1>4
  <2>2. \A i \in 1..Len(ledger') : \/ i \in 1..Len(ledger) /\ ledger'[i] = ledger[i]
                                   \/ ledger'[i] = Row(e, f, status, code)
    BY <1>1, <2>1
  <2> QED BY <1>2, <2>1, <2>2 DEF HasSuccess
<1> QED BY <1>3, <1>4

\* The call on top ends: the callers of the others are as they were.
LEMMA PopKeepsCallers ==
  ASSUME Callers, Len(stack) \in Nat, Len(stack') = Len(stack) - 1,
         \A i \in 1..Len(stack') : stack'[i] = stack[i]
  PROVE  Callers'
BY DEF Callers

\* A failure says nothing of a success.
LEMMA FailingKeepsOnce ==
  ASSUME OnceInv, Completing, ~Steps
  PROVE  Callers' /\ NoneBefore' /\ SuccessIsOwn' /\ EffectsTell' /\ ConfirmsOnce'
<1>1. stack # <<>> /\ UNCHANGED <<options, runs>>
  BY CompletingIs DEF OnceInv
<1>2. PICK e, f, status, code :
        /\ f.hits \in Tally /\ status \in {"failed", "dry_run", "needs_human"}
        /\ effects' = effects /\ Completes(e, f, status, code)
  <2>1. PICK e, f, status, code :
          /\ f.hits \in Tally /\ status \in {"success", "failed", "dry_run", "needs_human"}
          /\ status = "success" => Steps
          /\ Steps \/ effects' = effects
          /\ Completes(e, f, status, code)
    BY CompletingIs, Zenon DEF OnceInv
  <2> QED BY <2>1
<1>3. /\ Len(stack) \in Nat \ {0} /\ Len(stack') = Len(stack) - 1
      /\ \A i \in 1..Len(stack') : stack'[i] = stack[i]
      /\ result'.status = status
  BY <1>1, <1>2, Ends, TopIsCall DEF OnceInv, CallInv, Shapes, Completes
<1>4. /\ \A c, key : HasSuccess(ledger', c, key) <=> HasSuccess(ledger, c, key)
      /\ \A i \in 1..Len(ledger') : \/ i \in 1..Len(ledger) /\ ledger'[i] = ledger[i]
                                    \/ ledger'[i] = Row(e, f, status, code)
  BY <1>2, RowsAfter DEF OnceInv, CallInv
<1>5. Callers'
  BY <1>3, PopKeepsCallers DEF OnceInv
<1>6. NoneBefore'
  BY <1>1, <1>3, <1>4 DEF OnceInv, NoneBefore, Guarded
<1>7. SuccessIsOwn'
  <2>1. Row(e, f, status, code).status # "success" /\ Row(e, f, status, code).run = runs
    BY <1>2 DEF Row
  <2> QED BY <1>1, <1>4, <2>1 DEF OnceInv, SuccessIsOwn, CallInv, Shapes
<1>8. EffectsTell'
  <2>1. ~GoesOn'
    BY <1>2, <1>3, NothingCounted DEF GoesOn, None
  <2> QED BY <1>1, <1>2, <2>1 DEF OnceInv, EffectsTell
<1>9. ConfirmsOnce'
  <2>1. Row(e, f, status, code).status # "success"
    BY <1>2 DEF Row
  <2>2. DOMAIN ledger = 1..Len(ledger) /\ DOMAIN ledger' = 1..Len(ledger')
    BY <1>2, Writes, Lengths DEF OnceInv, CallInv, Shapes, LedgerShape
  <2> QED BY <1>2, <1>4, <2>1, <2>2 DEF OnceInv, ConfirmsOnce
<1> QED BY <1>5, <1>6, <1>7, <1>8, <1>9

\* What the steps of the call on top leave: its row, and what they have done in the core.
LEMMA StepsIs ==
  ASSUME CallInv, Steps
  PROVE  /\ stack # <<>> /\ result = NoResult /\ Top.pc = "uses" /\ UNCHANGED <<options, runs>>
         /\ engine.audit = OwnAudit(Top) /\ engine.ledger = options.ledger
         /\ \E f, acts, done, status, code :
              /\ f.hits \in Tally /\ f.cap = Top.cap
              /\ status \in {"success", "failed", "dry_run", "needs_human"}
              /\ acts => Top.cap \in Mutating /\ ~options.dryRun
              /\ Completes(engine, f, status, code)
              /\ done.run = runs /\ done.cap = Top.cap /\ done.key = OwnAudit(Top).key
              /\ done.ledger = options.ledger
              /\ effects' = IF acts THEN Append(effects, done) ELSE effects
<1>1. /\ stack # <<>> /\ result = NoResult /\ Top.pc = "uses" /\ UNCHANGED <<options, runs>>
  BY DEF Steps, At
<1>2. engine.audit = OwnAudit(Top) /\ engine.ledger = options.ledger
  BY <1>1 DEF CallInv, EngineTells
<1>3. PICK h \in Hits, acts \in BOOLEAN,
           end \in {<<"success", None>>, <<"failed", "CHECKPOINT_FAILED">>,
                    <<"dry_run", None>>, <<"needs_human", "SESSION_EXPIRED">>} :
        /\ acts => Top.cap \in Mutating /\ ~options.dryRun
        /\ Completes(engine, [Top EXCEPT !.hits = Add(@, h)], end[1], end[2])
        /\ effects' = IF acts THEN Append(effects, [run |-> runs, cap |-> Top.cap,
                                                    key |-> Key(Top.cap, Top.inputs),
                                                    ledger |-> options.ledger])
                      ELSE effects
  BY DEF Steps
<1> DEFINE f == [Top EXCEPT !.hits = Add(@, h)]
           done == [run |-> runs, cap |-> Top.cap, key |-> Key(Top.cap, Top.inputs),
                    ledger |-> options.ledger]
<1>4. f.cap = Top.cap /\ f.hits = Add(Top.hits, h) /\ Top.hits \in Tally
  BY <1>1, TopIsCall DEF CallInv, Shapes, IsCall
<1>5. f.hits \in Tally
  BY <1>4, Counted DEF Tally
<1>6. /\ done.run = runs /\ done.cap = Top.cap /\ done.key = OwnAudit(Top).key
      /\ done.ledger = options.ledger
  BY DEF OwnAudit
<1>7. end[1] \in {"success", "failed", "dry_run", "needs_human"}
  OBVIOUS
<1>8. /\ Completes(engine, f, end[1], end[2])
      /\ effects' = IF acts THEN Append(effects, done) ELSE effects
  BY <1>3
<1> HIDE DEF f, done
<1> QED BY <1>1, <1>2, <1>3, <1>4, <1>5, <1>6, <1>7, <1>8

\* A call that confirms does so once for its key: before it no success was found.
LEMMA StepsKeepOnce ==
  ASSUME OnceInv, Steps
  PROVE  Callers' /\ NoneBefore' /\ SuccessIsOwn' /\ EffectsTell' /\ ConfirmsOnce'
<1>1. /\ stack # <<>> /\ result = NoResult /\ Top.pc = "uses" /\ UNCHANGED <<options, runs>>
      /\ engine.audit = OwnAudit(Top) /\ engine.ledger = options.ledger
  BY StepsIs DEF OnceInv
<1>2. PICK f, acts, done, status, code :
        /\ f.hits \in Tally /\ f.cap = Top.cap
        /\ status \in {"success", "failed", "dry_run", "needs_human"}
        /\ acts => Top.cap \in Mutating /\ ~options.dryRun
        /\ Completes(engine, f, status, code)
        /\ done.run = runs /\ done.cap = Top.cap /\ done.key = OwnAudit(Top).key
        /\ done.ledger = options.ledger
        /\ effects' = IF acts THEN Append(effects, done) ELSE effects
  BY StepsIs, Zenon DEF OnceInv
<1> DEFINE row == Row(engine, f, status, code)
           key == OwnAudit(Top).key
<1>3. /\ row.status = status /\ row.by = Top.cap /\ row.cap = Top.cap /\ row.run = runs
  BY <1>1, <1>2 DEF Row, OwnAudit
<1>4. /\ Len(stack) \in Nat \ {0} /\ Len(stack') = Len(stack) - 1
      /\ \A i \in 1..Len(stack') : stack'[i] = stack[i]
      /\ result'.status = status
  BY <1>1, <1>2, Ends, TopIsCall DEF OnceInv, CallInv, Shapes, Completes
<1>5. /\ \A c, k : HasSuccess(ledger, c, k) => HasSuccess(ledger', c, k)
      /\ \A c, k : HasSuccess(ledger', c, k) => HasSuccess(ledger, c, k) \/ c = Top.cap
      /\ status = "success" /\ options.ledger => HasSuccess(ledger', Top.cap, key)
      /\ \A i \in 1..Len(ledger') : \/ i \in 1..Len(ledger) /\ ledger'[i] = ledger[i]
                                    \/ ledger'[i] = row
  <2>1. engine.audit.cap = Top.cap /\ engine.audit.key = key
    BY <1>1 DEF OwnAudit
  <2> HIDE DEF row, key
  <2>2. /\ \A c, k : HasSuccess(ledger, c, k) => HasSuccess(ledger', c, k)
        /\ \A c, k : HasSuccess(ledger', c, k) =>
             \/ HasSuccess(ledger, c, k)
             \/ status = "success" /\ c = engine.audit.cap /\ k = engine.audit.key
        /\ status = "success" /\ engine.ledger
             => HasSuccess(ledger', engine.audit.cap, engine.audit.key)
        /\ \A i \in 1..Len(ledger') : \/ i \in 1..Len(ledger) /\ ledger'[i] = ledger[i]
                                      \/ ledger'[i] = Row(engine, f, status, code)
    BY <1>2, RowsAfter DEF OnceInv, CallInv
  <2> QED BY <1>1, <2>1, <2>2 DEF row
<1> HIDE DEF row, key
<1>6. /\ Len(effects) \in Nat /\ DOMAIN effects = 1..Len(effects)
      /\ \/ ~acts /\ effects' = effects
         \/ /\ acts /\ Len(effects') = Len(effects) + 1 /\ effects'[Len(effects) + 1] = done
            /\ DOMAIN effects' = 1..Len(effects')
            /\ \A i \in 1..Len(effects) : effects'[i] = effects[i]
  <2>1. IsSeq(effects)
    BY DEF OnceInv, CallInv, Shapes
  <2>2. CASE ~acts
    BY <1>2, <2>1, <2>2, Lengths
  <2>3. CASE acts
    BY <1>2, <2>1, <2>3, Appended, Lengths
  <2> QED BY <2>2, <2>3
<1>7. \A i \in 1..Len(effects') :
        \/ i \in 1..Len(effects) /\ effects'[i] = effects[i]
        \/ acts /\ i = Len(effects) + 1 /\ effects'[i] = done
  BY <1>6
<1>8. runs \in Nat
  BY DEF OnceInv, CallInv, Shapes
<1>9. Callers'
  BY <1>4, PopKeepsCallers DEF OnceInv
<1>10. NoneBefore'
  <2>1. ASSUME NEW i \in 1..Len(stack'), stack[i].pc = "uses", Guarded(stack[i])
        PROVE  ~HasSuccess(ledger', stack[i].cap, OwnAudit(stack[i]).key)
    <3>1. i \in 1..Len(stack) - 1 /\ i \in 1..Len(stack) /\ Len(stack) \in 1..Len(stack)
      BY <1>4
    <3>2. ~HasSuccess(ledger, stack[i].cap, OwnAudit(stack[i]).key)
      BY <2>1, <3>1 DEF OnceInv, NoneBefore
    <3>3. stack[i].cap # Top.cap
      BY <1>1, <3>1 DEF OnceInv, Callers, Top
    <3> QED BY <1>5, <3>2, <3>3
  <2> QED BY <1>1, <1>4, <2>1 DEF NoneBefore, Guarded
<1>11. SuccessIsOwn'
  BY <1>1, <1>3, <1>5, <1>8 DEF OnceInv, SuccessIsOwn
<1>12. EffectsTell'
  <2>1. \A i \in 1..Len(effects') : effects'[i].run \in 0..runs'
    BY <1>1, <1>2, <1>7, <1>8 DEF OnceInv, EffectsTell
  <2>2. \A i, j \in 1..Len(effects') : i < j => effects'[i].run <= effects'[j].run
    <3> SUFFICES ASSUME NEW i \in 1..Len(effects'), NEW j \in 1..Len(effects'), i < j
                 PROVE  effects'[i].run <= effects'[j].run
      OBVIOUS
    <3>1. CASE j \in 1..Len(effects) /\ effects'[j] = effects[j]
      <4>1. i \in 1..Len(effects) /\ effects'[i] = effects[i]
        BY <3>1, <1>6, <1>7
      <4> QED BY <3>1, <4>1 DEF OnceInv, EffectsTell
    <3>2. CASE effects'[j] = done
      BY <3>2, <2>1, <1>1, <1>2, <1>8
    <3> QED BY <3>1, <3>2, <1>7
  <2>3. ASSUME GoesOn', NEW i \in 1..Len(effects'), effects'[i].run = runs', effects'[i].ledger
        PROVE  HasSuccess(ledger', effects'[i].cap, effects'[i].key)
    <3>1. status = "success"
      BY <2>3, <1>2, <1>4, NothingCounted DEF GoesOn, None
    <3>2. CASE i \in 1..Len(effects) /\ effects'[i] = effects[i]
      <4>1. GoesOn
        BY <1>1 DEF GoesOn
      <4>2. HasSuccess(ledger, effects[i].cap, effects[i].key)
        BY <2>3, <3>2, <4>1, <1>1 DEF OnceInv, EffectsTell
      <4> QED BY <3>2, <4>2, <1>5
    <3>3. CASE effects'[i] = done
      BY <2>3, <3>1, <3>3, <1>2, <1>5 DEF key
    <3> QED BY <3>2, <3>3, <1>7
  <2> QED BY <2>1, <2>2, <2>3 DEF EffectsTell
<1>13. ConfirmsOnce'
  <2>1. DOMAIN ledger = 1..Len(ledger) /\ DOMAIN ledger' = 1..Len(ledger')
    BY <1>2, Writes, Lengths DEF OnceInv, CallInv, Shapes, LedgerShape
  <2>2. DOMAIN effects' = 1..Len(effects')
    BY <1>6
  <2> SUFFICES ASSUME NEW i \in 1..Len(effects'), NEW j \in 1..Len(effects'), i < j,
                      effects'[i].ledger, effects'[j].ledger,
                      effects'[i].cap = effects'[j].cap, effects'[i].key = effects'[j].key
               PROVE  /\ effects'[i].run # effects'[j].run
                      /\ \A k \in 1..Len(ledger') :
                           ledger'[k].status = "success" /\ ledger'[k].run = effects'[i].run =>
                             <<ledger'[k].by, ledger'[k].key>> # <<effects'[i].cap, effects'[i].key>>
    BY <2>1, <2>2 DEF ConfirmsOnce
  <2>3. i \in 1..Len(effects) /\ effects'[i] = effects[i]
    BY <1>6, <1>7
  <2>4. effects[i].run \in 0..runs
    BY <2>3 DEF OnceInv, EffectsTell
  <2>5. CASE j \in 1..Len(effects) /\ effects'[j] = effects[j]
    <3>1. /\ effects[i].run # effects[j].run
          /\ \A k \in 1..Len(ledger) :
               ledger[k].status = "success" /\ ledger[k].run = effects[i].run =>
                 <<ledger[k].by, ledger[k].key>> # <<effects[i].cap, effects[i].key>>
      BY <2>1, <2>3, <2>5, <1>6 DEF OnceInv, ConfirmsOnce
    <3>2. effects[i].run <= effects[j].run /\ effects[j].run \in 0..runs
      BY <2>3, <2>5 DEF OnceInv, EffectsTell
    <3>3. effects[i].run # runs
      BY <3>1, <3>2, <2>4, <1>8
    <3> QED BY <3>1, <3>3, <2>3, <2>5, <1>3, <1>5
  <2>6. CASE acts /\ effects'[j] = done
    <3>1. options.ledger /\ Guarded(Top) /\ effects[i].cap = Top.cap /\ effects[i].key = key
      BY <2>3, <2>6, <1>2 DEF Guarded, key
    <3>2. ~HasSuccess(ledger, Top.cap, key)
      BY <3>1, <1>1, <1>4 DEF OnceInv, NoneBefore, Top, key
    <3>3. effects[i].run # runs
      <4>1. GoesOn
        BY <1>1 DEF GoesOn
      <4> QED BY <4>1, <3>1, <3>2, <2>3 DEF OnceInv, EffectsTell
    <3>4. ASSUME NEW k \in 1..Len(ledger), ledger[k].status = "success", ledger[k].by = Top.cap,
                 ledger[k].key = key
          PROVE  FALSE
      BY <3>4, <3>2 DEF OnceInv, SuccessIsOwn, HasSuccess
    <3>5. effects'[i].run # effects'[j].run
      BY <3>3, <2>3, <2>6, <1>2
    <3>6. ASSUME NEW k \in 1..Len(ledger'), ledger'[k].status = "success",
                 ledger'[k].run = effects'[i].run
          PROVE  <<ledger'[k].by, ledger'[k].key>> # <<effects'[i].cap, effects'[i].key>>
      BY <3>1, <3>3, <3>4, <3>6, <2>3, <1>3, <1>5, SMTT(30)
    <3> QED BY <3>5, <3>6
  <2> QED BY <2>5, <2>6, <1>7
<1> QED BY <1>9, <1>10, <1>11, <1>12, <1>13

\* A call that ends without a success and without a row ends the run, or the part of it that
\* could go on.
LEMMA LeavingKeepsOnce ==
  ASSUME OnceInv, VaultThrows \/ RefusesInputs \/ LedgerThrows \/ Halts
  PROVE  Callers' /\ NoneBefore' /\ SuccessIsOwn' /\ EffectsTell' /\ ConfirmsOnce'
<1>1. /\ stack # <<>> /\ UNCHANGED <<options, ledger, effects, runs>> /\ stack' = Popped
      /\ result' # NoResult /\ result'.status # "success"
  <2>1. CASE VaultThrows \/ LedgerThrows
    BY <2>1 DEF VaultThrows, LedgerThrows, At, Rejects, Sinks, NoResult, None
  <2>2. CASE RefusesInputs
    BY <2>2 DEF RefusesInputs, At, Sinks, NoResult, None
  <2>3. CASE Halts
    BY <2>3 DEF Halts, Answered
  <2> QED BY <2>1, <2>2, <2>3
<1>2. /\ Len(stack) \in Nat \ {0} /\ Len(stack') = Len(stack) - 1
      /\ \A i \in 1..Len(stack') : stack'[i] = stack[i]
  BY <1>1, Pops, TopIsCall DEF OnceInv, CallInv, Shapes
<1>3. Callers'
  BY <1>2, PopKeepsCallers DEF OnceInv
<1>4. NoneBefore'
  BY <1>1, <1>2 DEF OnceInv, NoneBefore, Guarded
<1>5. SuccessIsOwn' /\ ConfirmsOnce'
  BY <1>1 DEF OnceInv, SuccessIsOwn, ConfirmsOnce
<1>6. EffectsTell'
  BY <1>1 DEF OnceInv, EffectsTell, GoesOn
<1> QED BY <1>3, <1>4, <1>5, <1>6

\* The call on top goes on: it is past its checks already, or has just passed them.
LEMMA PutKeepsOnce ==
  ASSUME OnceInv, GoesOn, NEW g, IsCall(g), g.cap = Top.cap, g.inputs = Top.inputs,
         stack' = WithTop(g), UNCHANGED <<options, ledger, effects, runs>>,
         Top.seen \subseteq g.seen,
         g.pc = "uses" =>
           \/ Top.pc = "uses"
           \/ /\ Top.cap \notin Top.seen /\ Top.cap \in g.seen
              /\ Guarded(Top) => ~HasSuccess(ledger, Top.cap, OwnAudit(Top).key)
  PROVE  Callers' /\ NoneBefore' /\ SuccessIsOwn' /\ EffectsTell' /\ ConfirmsOnce'
<1>1. /\ stack # <<>> /\ Len(stack) \in Nat \ {0} /\ Len(stack') = Len(stack)
      /\ stack'[Len(stack)] = g /\ stack[Len(stack)] = Top
      /\ \A i \in 1..Len(stack) - 1 : stack'[i] = stack[i]
  BY Puts, TopIsCall DEF GoesOn, OnceInv, CallInv, Shapes, Top
<1>2. \A i \in 1..Len(stack) :
        \/ i \in 1..Len(stack) - 1 /\ stack'[i] = stack[i]
        \/ i = Len(stack) /\ stack'[i] = g
  BY <1>1
<1>3. \A i \in 1..Len(stack) : stack'[i].cap = stack[i].cap /\ OwnAudit(stack'[i]) = OwnAudit(stack[i])
  BY <1>1, <1>2 DEF OwnAudit
<1>4. OwnAudit(g) = OwnAudit(Top) /\ (Guarded(g) <=> Guarded(Top))
  BY DEF OwnAudit, Guarded
<1>5. Callers'
  <2> SUFFICES ASSUME NEW i \in 1..Len(stack)
               PROVE  /\ \A j \in 1..i - 1 : stack'[j].cap \in stack'[i].seen
                      /\ stack'[i].pc = "uses" => stack'[i].cap \in stack'[i].seen
                      /\ \A j \in 1..i - 1 : stack'[i].pc = "uses" => stack'[i].cap # stack'[j].cap
    BY <1>1 DEF Callers
  <2>1. /\ \A j \in 1..i - 1 : j \in 1..Len(stack) /\ stack'[j].cap = stack[j].cap
                                 /\ stack[j].cap \in stack[i].seen
        /\ stack[i].pc = "uses" => stack[i].cap \in stack[i].seen
        /\ \A j \in 1..i - 1 : stack[i].pc = "uses" => stack[i].cap # stack[j].cap
    BY <1>1, <1>3 DEF OnceInv, Callers
  <2>2. CASE stack'[i] = stack[i]
    BY <2>1, <2>2
  <2>3. CASE stack[i] = Top /\ stack'[i] = g
    BY <2>1, <2>3
  <2> QED BY <1>1, <1>2, <2>2, <2>3
<1>6. NoneBefore'
  <2> SUFFICES ASSUME NEW i \in 1..Len(stack), stack'[i].pc = "uses", Guarded(stack'[i])
               PROVE  ~HasSuccess(ledger, stack'[i].cap, OwnAudit(stack'[i]).key)
    BY <1>1 DEF NoneBefore, Guarded
  <2>1. CASE stack'[i] = stack[i]
    BY <2>1 DEF OnceInv, NoneBefore
  <2>2. CASE stack[i] = Top /\ stack'[i] = g
    BY <2>2, <1>4 DEF OnceInv, NoneBefore
  <2> QED BY <1>1, <1>2, <2>1, <2>2
<1>7. SuccessIsOwn' /\ ConfirmsOnce' /\ EffectsTell'
  BY DEF OnceInv, SuccessIsOwn, ConfirmsOnce, EffectsTell
<1> QED BY <1>5, <1>6, <1>7

LEMMA GoingOnKeepsOnce ==
  ASSUME OnceInv, Registers \/ Begins \/ Skips \/ Resumes
  PROVE  Callers' /\ NoneBefore' /\ SuccessIsOwn' /\ EffectsTell' /\ ConfirmsOnce'
<1>1. GoesOn /\ IsCall(Top) /\ UNCHANGED <<options, ledger, effects, runs>>
  <2>1. GoesOn /\ UNCHANGED <<options, ledger, effects, runs>>
    BY DEF Registers, Begins, Skips, Resumes, Goes, At, Answered, GoesOn
  <2> QED BY <2>1, TopIsCall DEF GoesOn, OnceInv, CallInv, Shapes
<1>2. CASE Registers
  <2> DEFINE g == [Top EXCEPT !.pc = "checks"]
  <2>1. /\ IsCall(g) /\ g.cap = Top.cap /\ g.inputs = Top.inputs /\ g.seen = Top.seen
        /\ g.pc # "uses" /\ stack' = WithTop(g)
    BY <1>1, <1>2 DEF IsCall, Registers
  <2> HIDE DEF g
  <2> QED BY <1>1, <2>1, PutKeepsOnce
<1>3. CASE Begins
  <2> DEFINE g == [Top EXCEPT !.pc = "uses", !.seen = Seen(Top)]
  <2>1. /\ IsCall(g) /\ g.cap = Top.cap /\ g.inputs = Top.inputs /\ g.seen = Top.seen \union {Top.cap}
        /\ stack' = WithTop(g) /\ Top.cap \notin Top.seen
    BY <1>1, <1>3 DEF IsCall, Begins, Seen
  <2>2. Guarded(Top) => ~HasSuccess(ledger, Top.cap, OwnAudit(Top).key)
    <3>1. Guarded(Top) => ~Prior(Top.cap, Key(Top.cap, Top.inputs))
      BY <1>3 DEF Begins, Goes, Guarded, AsksLedger
    <3>2. DOMAIN ledger = 1..Len(ledger)
      BY Lengths DEF OnceInv, CallInv, Shapes, LedgerShape
    <3>3. OwnAudit(Top).key = Key(Top.cap, Top.inputs)
      BY DEF OwnAudit
    <3> QED BY <3>1, <3>2, <3>3 DEF Prior, HasSuccess
  <2> HIDE DEF g
  <2> QED BY <1>1, <2>1, <2>2, PutKeepsOnce
<1>4. CASE Skips
  <2> DEFINE g == [Top EXCEPT !.next = @ + 1]
  <2>1. /\ IsCall(g) /\ g.cap = Top.cap /\ g.inputs = Top.inputs /\ g.seen = Top.seen
        /\ Top.pc = "uses" /\ stack' = WithTop(g)
    BY <1>1, <1>4 DEF IsCall, Skips, At
  <2> HIDE DEF g
  <2> QED BY <1>1, <2>1, PutKeepsOnce
<1>5. CASE Resumes
  <2> DEFINE g == [Top EXCEPT !.next = @ + 1, !.hits = Add(@, result.hits)]
  <2>1. stack # <<>> /\ result # NoResult /\ stack' = WithTop(g)
    BY <1>5 DEF Resumes, Answered
  <2>2. Add(Top.hits, result.hits) \in Tally
    BY <1>1, Counted DEF IsCall, OnceInv, CallInv, Shapes
  <2>3. /\ IsCall(g) /\ g.cap = Top.cap /\ g.inputs = Top.inputs /\ g.seen = Top.seen
    BY <1>1, <2>2 DEF IsCall
  <2>4. Top.pc = "uses"
    <3>1. Len(stack) \in Waiting
      BY <2>1, TopIsCall DEF Waiting, OnceInv, CallInv, Shapes
    <3> QED BY <3>1 DEF OnceInv, CallInv, Waiters, Top
  <2> HIDE DEF g
  <2> QED BY <1>1, <2>1, <2>3, <2>4, PutKeepsOnce
<1> QED BY <1>2, <1>3, <1>4, <1>5

\* A used capability starts with all that its caller has seen, the caller included.
LEMMA UsesKeepsOnce ==
  ASSUME OnceInv, Uses
  PROVE  Callers' /\ NoneBefore' /\ SuccessIsOwn' /\ EffectsTell' /\ ConfirmsOnce'
<1>1. /\ stack # <<>> /\ result = NoResult /\ Top.pc = "uses" /\ Len(stack) \in Nat \ {0}
      /\ UNCHANGED <<options, result, ledger, effects, runs>>
  BY UsesIs DEF OnceInv
<1>2. PICK f, g :
        /\ f.cap = Top.cap /\ f.inputs = Top.inputs /\ f.pc = Top.pc /\ f.seen = Top.seen
        /\ g.pc = "enter" /\ g.seen = Top.seen
        /\ Len(stack') = Len(stack) + 1
        /\ stack'[Len(stack) + 1] = g /\ stack'[Len(stack)] = f
        /\ \A i \in 1..Len(stack) - 1 : stack'[i] = stack[i]
        /\ StackShape' /\ stack' # <<>>
  BY UsesIs, Zenon DEF OnceInv
<1>3. \A i \in 1..Len(stack) :
        /\ stack'[i].cap = stack[i].cap /\ stack'[i].pc = stack[i].pc
        /\ stack'[i].seen = stack[i].seen
        /\ OwnAudit(stack'[i]) = OwnAudit(stack[i])
  <2>1. \A i \in 1..Len(stack) :
          \/ i \in 1..Len(stack) - 1 /\ stack'[i] = stack[i]
          \/ i = Len(stack) /\ stack'[i] = f /\ stack[i] = Top
    BY <1>1, <1>2 DEF Top
  <2>2. OwnAudit(f) = OwnAudit(Top)
    BY <1>2 DEF OwnAudit
  <2> QED BY <1>2, <2>1, <2>2
<1>4. Callers'
  <2> SUFFICES ASSUME NEW i \in 1..Len(stack) + 1
               PROVE  /\ \A j \in 1..i - 1 : stack'[j].cap \in stack'[i].seen
                      /\ stack'[i].pc = "uses" => stack'[i].cap \in stack'[i].seen
                      /\ \A j \in 1..i - 1 : stack'[i].pc = "uses" => stack'[i].cap # stack'[j].cap
    BY <1>2 DEF Callers
  <2>1. CASE i \in 1..Len(stack)
    <3>1. \A j \in 1..i - 1 : j \in 1..Len(stack)
      BY <1>1, <2>1
    <3> QED BY <1>3, <2>1, <3>1 DEF OnceInv, Callers
  <2>2. CASE i = Len(stack) + 1
    <3>1. /\ \A j \in 1..Len(stack) - 1 : stack[j].cap \in Top.seen
          /\ Top.cap \in Top.seen
      BY <1>1 DEF OnceInv, Callers, Top
    <3>2. \A j \in 1..i - 1 : j \in 1..Len(stack) /\ (j \in 1..Len(stack) - 1 \/ stack[j] = Top)
      BY <1>1, <2>2 DEF Top
    <3> QED BY <1>2, <1>3, <2>2, <3>1, <3>2
  <2> QED BY <1>1, <2>1, <2>2
<1>5. NoneBefore'
  <2> SUFFICES ASSUME NEW i \in 1..Len(stack) + 1, stack'[i].pc = "uses", Guarded(stack'[i])
               PROVE  ~HasSuccess(ledger, stack'[i].cap, OwnAudit(stack'[i]).key)
    BY <1>1, <1>2 DEF NoneBefore, Guarded
  <2>1. i \in 1..Len(stack)
    BY <1>1, <1>2
  <2>2. stack[i].pc = "uses" /\ Guarded(stack[i])
    BY <1>3, <2>1 DEF Guarded
  <2> QED BY <1>3, <2>1, <2>2 DEF OnceInv, NoneBefore
<1>6. SuccessIsOwn' /\ ConfirmsOnce' /\ EffectsTell'
  BY <1>1, <1>2 DEF OnceInv, SuccessIsOwn, ConfirmsOnce, EffectsTell, GoesOn
<1> QED BY <1>4, <1>5, <1>6

\* A run begins with nothing done in it, and ends with nothing left to do.
LEMMA StartKeepsOnce ==
  ASSUME OnceInv, Calls \/ Answers
  PROVE  Callers' /\ NoneBefore' /\ SuccessIsOwn' /\ EffectsTell' /\ ConfirmsOnce'
<1>1. runs \in Nat
  BY DEF OnceInv, CallInv, Shapes
<1>2. CASE Calls
  <2>1. /\ runs' = runs + 1 /\ UNCHANGED <<ledger, effects>> /\ Len(stack') = 1
        /\ Top'.pc = "enter"
    BY <1>2, CallIs
  <2>2. \A i \in 1..Len(stack') : stack'[i].pc = "enter" /\ 1..i - 1 = {}
    BY <2>1 DEF Top
  <2>3. Callers' /\ NoneBefore'
    BY <2>2 DEF Callers, NoneBefore
  <2>4. SuccessIsOwn' /\ ConfirmsOnce'
    BY <1>1, <2>1 DEF OnceInv, SuccessIsOwn, ConfirmsOnce
  <2>5. \A i \in 1..Len(effects) : effects[i].run \in 0..runs /\ effects[i].run # runs'
    BY <1>1, <2>1 DEF OnceInv, EffectsTell
  <2>6. EffectsTell'
    BY <1>1, <2>1, <2>5 DEF OnceInv, EffectsTell
  <2> QED BY <2>3, <2>4, <2>6
<1>3. CASE Answers
  <2>1. stack' = <<>> /\ UNCHANGED <<ledger, effects, runs>>
    BY <1>3 DEF Answers
  <2>2. Len(stack') = 0
    BY <2>1
  <2>3. Callers' /\ NoneBefore'
    BY <2>2 DEF Callers, NoneBefore
  <2> QED BY <2>1, <2>3 DEF OnceInv, SuccessIsOwn, ConfirmsOnce, EffectsTell, GoesOn
<1> QED BY <1>2, <1>3

LEMMA OnceInit == Init => OnceInv
<1> SUFFICES ASSUME Init PROVE OnceInv
  OBVIOUS
<1>1. Len(stack) = 0 /\ Len(ledger) = 0 /\ Len(effects) = 0 /\ DOMAIN effects = {} /\ stack = <<>>
  BY DEF Init
<1>2. Callers /\ NoneBefore /\ SuccessIsOwn /\ EffectsTell /\ ConfirmsOnce
  BY <1>1 DEF Callers, NoneBefore, SuccessIsOwn, EffectsTell, ConfirmsOnce, GoesOn
<1> QED BY <1>2, CallInit DEF OnceInv

LEMMA OnceStep ==
  ASSUME OnceInv, [Next]_vars
  PROVE  OnceInv'
<1>1. CallInv'
  BY CallStep DEF OnceInv
<1>2. CASE Steps
  BY <1>2, <1>1, StepsKeepOnce DEF OnceInv
<1>3. CASE Completing /\ ~Steps
  BY <1>3, <1>1, FailingKeepsOnce DEF OnceInv
<1>4. CASE VaultThrows \/ RefusesInputs \/ LedgerThrows \/ Halts
  BY <1>4, <1>1, LeavingKeepsOnce DEF OnceInv
<1>5. CASE Registers \/ Begins \/ Skips \/ Resumes
  BY <1>5, <1>1, GoingOnKeepsOnce DEF OnceInv
<1>6. CASE Uses
  BY <1>6, <1>1, UsesKeepsOnce DEF OnceInv
<1>7. CASE Calls \/ Answers
  BY <1>7, <1>1, StartKeepsOnce DEF OnceInv
<1>8. CASE UNCHANGED vars
  BY <1>8, <1>1 DEF vars, OnceInv, Callers, NoneBefore, SuccessIsOwn, EffectsTell, ConfirmsOnce,
     GoesOn, Guarded, OwnAudit, Key
<1> QED BY <1>2, <1>3, <1>4, <1>5, <1>6, <1>7, <1>8 DEF Next, EngineStep, Completing

\* While a call that confirms is past its checks, no success with its key is in the ledger,
\* and none of its callers is the same capability (engine.ts 682-709, compose.ts 62).
THEOREM OnceHolds == Spec => []OnceInv
BY OnceInit, OnceStep, PTL DEF Spec

\* With a ledger, what has the key of an earlier effect is neither done again in the same
\* run nor after a success (engine.ts 682-709, compose.ts 62).
THEOREM ConfirmedOnce == Spec => []ConfirmsOnce
<1>1. OnceInv => ConfirmsOnce
  BY DEF OnceInv
<1> QED BY <1>1, OnceHolds, PTL

-----------------------------------------------------------------------------
(* How deep calls nest. *)

InCatalog == \A i \in 1..Len(stack) : stack[i].cap \in Capabilities

LEMMA InCatalogStep ==
  ASSUME CallInv, InCatalog, [Next]_vars
  PROVE  InCatalog'
<1>1. CASE stack # <<>> /\ stack' = Popped
  BY <1>1, Pops, TopIsCall DEF CallInv, Shapes, InCatalog
<1>2. CASE Completing
  <2>1. PICK e, f, status, code : Completes(e, f, status, code)
    BY <1>2, CompletingIs, Zenon
  <2> QED BY <1>1, <1>2, <2>1, CompletingIs DEF Completes, Sinks
<1>3. CASE VaultThrows \/ RefusesInputs \/ LedgerThrows \/ Halts
  BY <1>1, <1>3 DEF VaultThrows, RefusesInputs, LedgerThrows, Halts, Rejects, Sinks, At, Answered
<1>4. CASE Registers \/ Begins \/ Skips \/ Resumes
  <2>1. stack # <<>>
    BY <1>4 DEF Registers, Begins, Skips, Resumes, Goes, At, Answered
  <2>2. IsCall(Top) /\ Len(stack) \in Nat \ {0}
    BY <2>1, TopIsCall DEF CallInv, Shapes
  <2>3. PICK g : stack' = WithTop(g) /\ IsCall(g) /\ g.cap = Top.cap
    <3>1. CASE Registers
      <4>1. LET g == [Top EXCEPT !.pc = "checks"]
            IN stack' = WithTop(g) /\ IsCall(g) /\ g.cap = Top.cap
        BY <2>2, <3>1 DEF IsCall, Registers
      <4> QED BY <4>1
    <3>2. CASE Begins
      <4>1. LET g == [Top EXCEPT !.pc = "uses", !.seen = Seen(Top)]
            IN stack' = WithTop(g) /\ IsCall(g) /\ g.cap = Top.cap
        BY <2>2, <3>2 DEF IsCall, Begins
      <4> QED BY <4>1
    <3>3. CASE Skips
      <4>1. LET g == [Top EXCEPT !.next = @ + 1]
            IN stack' = WithTop(g) /\ IsCall(g) /\ g.cap = Top.cap
        BY <2>2, <3>3 DEF IsCall, Skips
      <4> QED BY <4>1
    <3>4. CASE Resumes
      <4>1. Add(Top.hits, result.hits) \in Tally
        BY <2>2, Counted DEF IsCall, CallInv, Shapes
      <4>2. LET g == [Top EXCEPT !.next = @ + 1, !.hits = Add(@, result.hits)]
            IN stack' = WithTop(g) /\ IsCall(g) /\ g.cap = Top.cap
        BY <2>2, <3>4, <4>1 DEF IsCall, Resumes
      <4> QED BY <4>2
    <3> QED BY <1>4, <3>1, <3>2, <3>3, <3>4
  <2>4. /\ Len(stack') = Len(stack) /\ stack'[Len(stack)] = g
        /\ \A i \in 1..Len(stack) - 1 : stack'[i] = stack[i]
    BY <2>1, <2>3, Puts DEF CallInv, Shapes
  <2>5. g.cap \in Capabilities
    BY <2>2, <2>3 DEF InCatalog, Top
  <2> QED BY <2>2, <2>4, <2>5 DEF InCatalog
<1>5. CASE Uses
  <2>1. PICK f, g : /\ f.cap = Top.cap /\ g.cap \in Capabilities
                    /\ Len(stack') = Len(stack) + 1
                    /\ stack'[Len(stack) + 1] = g /\ stack'[Len(stack)] = f
                    /\ \A i \in 1..Len(stack) - 1 : stack'[i] = stack[i]
    BY <1>5, UsesIs, Zenon
  <2>2. Len(stack) \in Nat \ {0} /\ f.cap \in Capabilities
    BY <1>5, <2>1, UsesIs DEF InCatalog, Top
  <2> QED BY <2>1, <2>2 DEF InCatalog
<1>6. CASE Calls
  <2>1. PICK c \in Capabilities, inputs \in Given : stack' = <<Call(c, inputs, {})>>
    BY <1>6 DEF Calls
  <2> QED BY <2>1 DEF InCatalog, Call
<1>7. CASE Answers
  <2>1. Len(stack') = 0
    BY <1>7 DEF Answers
  <2> QED BY <2>1 DEF InCatalog
<1>8. CASE UNCHANGED vars
  BY <1>8 DEF vars, InCatalog
<1> QED BY <1>2, <1>3, <1>4, <1>5, <1>6, <1>7, <1>8 DEF Next, EngineStep, Completing

\* The calls that wait for a used one are of different capabilities, each in the catalog.
LEMMA WaitersAreFew ==
  ASSUME OnceInv, InCatalog
  PROVE  CallsNestNoDeeper
<1>1. Len(stack) \in Nat /\ Cardinality(Capabilities) \in Nat
  BY CatalogAssumption, FS_CardinalityType, Lengths DEF OnceInv, CallInv, Shapes, StackShape
<1> DEFINE n == Len(stack) - 1
           caps == [i \in 1..n |-> stack[i].cap]
<1>2. CASE Len(stack) = 0
  BY <1>1, <1>2 DEF CallsNestNoDeeper
<1>3. CASE Len(stack) # 0
  <2>1. n \in Nat /\ 1..n \subseteq Waiting /\ 1..n \subseteq 1..Len(stack)
    BY <1>1, <1>3 DEF Waiting
  <2>2. \A i \in 1..n : stack[i].pc = "uses" /\ stack[i].cap \in Capabilities
    BY <2>1 DEF OnceInv, CallInv, Waiters, InCatalog
  <2>3. ASSUME NEW i \in 1..n, NEW j \in 1..n, stack[i].cap = stack[j].cap
        PROVE  i = j
    <3>1. ~(j < i) /\ ~(i < j)
      BY <2>1, <2>2, <2>3 DEF OnceInv, Callers
    <3> QED BY <2>1, <3>1
  <2>4. caps \in Injection(1..n, Capabilities)
    BY <2>2, <2>3 DEF Injection, IsInjective
  <2>5. Cardinality(1..n) <= Cardinality(Capabilities)
    BY <2>4, FS_Injection, CatalogAssumption
  <2>6. Cardinality(1..n) = n
    BY <2>1, FS_Interval
  <2> QED BY <1>1, <2>5, <2>6 DEF CallsNestNoDeeper
<1> QED BY <1>2, <1>3

\* Whatever uses whatever, no more run() calls are in progress than there are capabilities, but
\* for one that stops (engine.ts 155-170, compose.ts 50-57).
THEOREM NestingIsBounded == Spec => []CallsNestNoDeeper
<1>1. Init => OnceInv /\ InCatalog
  <2>1. Init => Len(stack) = 0
    BY DEF Init
  <2> QED BY <2>1, OnceInit DEF InCatalog
<1>2. OnceInv /\ InCatalog /\ [Next]_vars => (OnceInv /\ InCatalog)'
  BY OnceStep, InCatalogStep DEF OnceInv
<1>3. OnceInv /\ InCatalog => CallsNestNoDeeper
  BY WaitersAreFew
<1> QED BY <1>1, <1>2, <1>3, PTL DEF Spec

-----------------------------------------------------------------------------
(* What drift is made of. *)

\* What the recursive function of Total is to be, for the counts v.
IsSum(sum, v, k) == sum = [i \in 0..k |-> IF i = 0 THEN 0 ELSE sum[i - 1] + v[i]]

LEMMA SumExists ==
  ASSUME NEW k \in Nat, NEW v, \A i \in 1..k : v[i] \in Nat
  PROVE  \E sum : IsSum(sum, v, k)
<1> DEFINE step == [n \in 1..k |-> [x \in Nat |-> x + v[n]]]
<1>1. \A n \in 1..k : \A x \in Nat : step[n][x] = x + v[n] /\ step[n][x] \in Nat
  OBVIOUS
<1> HIDE DEF step
<1>2. PICK f \in [0..k -> Nat] : Stepwise(f, k, 0, step)
  BY <1>1, Recursion
<1>3. ASSUME NEW i \in 0..k PROVE f[i] = IF i = 0 THEN 0 ELSE f[i - 1] + v[i]
  <2>1. CASE i = 0
    BY <1>2, <2>1 DEF Stepwise
  <2>2. CASE i # 0
    <3>1. i \in 1..k /\ f[i - 1] \in Nat
      BY <2>2
    <3> QED BY <2>2, <3>1, <1>1, <1>2 DEF Stepwise
  <2> QED BY <2>1, <2>2
<1>4. IsSum(f, v, k)
  BY <1>3 DEF IsSum
<1> QED BY <1>4

\* A sum of counts is a count, and nothing in it adds up to nothing.
LEMMA SumCounts ==
  ASSUME NEW k \in Nat, NEW v, NEW sum, IsSum(sum, v, k), \A i \in 1..k : v[i] \in Nat
  PROVE  sum[k] \in Nat /\ ((\A i \in 1..k : v[i] = 0) => sum[k] = 0)
<1> DEFINE T == {n \in 0..k : sum[n] \in Nat /\ ((\A i \in 1..k : v[i] = 0) => sum[n] = 0)}
<1>1. \A n \in 0..k : sum[n] = IF n = 0 THEN 0 ELSE sum[n - 1] + v[n]
  BY DEF IsSum
<1>2. 0 \in T
  BY <1>1
<1>3. \A n \in 1..k : n - 1 \in T => n \in T
  BY <1>1
<1> HIDE DEF T
<1>4. \A n \in 0..k : n \in T
  BY <1>2, <1>3, Induction, Zenon
<1> QED BY <1>4 DEF T

\* Sums compare as what they add up.
LEMMA SumsCompare ==
  ASSUME NEW k \in Nat, NEW v, NEW w, NEW sum, NEW all, IsSum(sum, v, k), IsSum(all, w, k),
         \A i \in 1..k : v[i] \in Nat /\ w[i] \in Nat /\ 100 * v[i] >= 15 * w[i]
  PROVE  100 * sum[k] >= 15 * all[k] /\ ((\E i \in 1..k : w[i] > 0) => all[k] > 0)
<1> DEFINE Good(n) == /\ sum[n] \in Nat /\ all[n] \in Nat /\ 100 * sum[n] >= 15 * all[n]
                      /\ (\E i \in 1..n : w[i] > 0) => all[n] > 0
           T == {n \in 0..k : Good(n)}
<1>1. \A n \in 0..k : /\ sum[n] = IF n = 0 THEN 0 ELSE sum[n - 1] + v[n]
                      /\ all[n] = IF n = 0 THEN 0 ELSE all[n - 1] + w[n]
  BY DEF IsSum
<1>2. 0 \in T
  BY <1>1
<1>3. ASSUME NEW n \in 1..k, Good(n - 1) PROVE Good(n)
  <2>1. sum[n] = sum[n - 1] + v[n] /\ all[n] = all[n - 1] + w[n]
    BY <1>1
  <2>2. ASSUME NEW i \in 1..n, w[i] > 0 PROVE all[n] > 0
    <3>1. CASE i = n
      BY <1>3, <2>1, <2>2, <3>1
    <3>2. CASE i # n
      <4>1. i \in 1..n - 1
        BY <3>2
      <4> QED BY <1>3, <2>1, <2>2, <4>1
    <3> QED BY <3>1, <3>2
  <2> QED BY <1>3, <2>1, <2>2
<1>4. \A n \in 1..k : n - 1 \in T => n \in T
  BY <1>3
<1> HIDE DEF T
<1>5. \A n \in 0..k : n \in T
  BY <1>2, <1>4, Induction, Zenon
<1> QED BY <1>5 DEF T

\* What a total adds up.
Counts(rows, field) == [i \in 1..Len(rows) |-> rows[i].hits[field]]
IsCounted(rows, field) == \A i \in 1..Len(rows) : rows[i].hits[field] \in Nat

LEMMA TotalIs ==
  ASSUME NEW rows, Len(rows) \in Nat, NEW field, IsCounted(rows, field)
  PROVE  \E sum : /\ IsSum(sum, Counts(rows, field), Len(rows))
                  /\ Total(rows, field) = sum[Len(rows)]
<1> DEFINE v == [i \in 1..Len(rows) |-> rows[i].hits[field]]
           sum == CHOOSE f : f = [i \in 0..Len(rows) |->
                                   IF i = 0 THEN 0 ELSE f[i - 1] + rows[i].hits[field]]
<1>0. \A i \in 1..Len(rows) : v[i] \in Nat
  BY DEF IsCounted
<1>1. \A f : IsSum(f, v, Len(rows)) <=>
             f = [i \in 0..Len(rows) |-> IF i = 0 THEN 0 ELSE f[i - 1] + rows[i].hits[field]]
  <2>1. ASSUME NEW f, NEW i \in 0..Len(rows)
        PROVE  (IF i = 0 THEN 0 ELSE f[i - 1] + v[i])
                 = (IF i = 0 THEN 0 ELSE f[i - 1] + rows[i].hits[field])
    OBVIOUS
  <2>2. ASSUME NEW f
        PROVE  [i \in 0..Len(rows) |-> IF i = 0 THEN 0 ELSE f[i - 1] + v[i]]
                 = [i \in 0..Len(rows) |-> IF i = 0 THEN 0 ELSE f[i - 1] + rows[i].hits[field]]
    BY <2>1
  <2> HIDE DEF v
  <2> QED BY <2>2 DEF IsSum
<1>2. IsSum(sum, v, Len(rows))
  <2>1. \E f : IsSum(f, v, Len(rows))
    BY <1>0, SumExists
  <2>2. sum = [i \in 0..Len(rows) |-> IF i = 0 THEN 0 ELSE sum[i - 1] + rows[i].hits[field]]
    BY <1>1, <2>1, Zenon
  <2> HIDE DEF sum, v
  <2> QED BY <1>1, <2>2
<1>3. Total(rows, field) = sum[Len(rows)]
  BY Zenon DEF Total
<1> HIDE DEF sum
<1>4. v = Counts(rows, field)
  BY DEF Counts
<1> HIDE DEF v
<1> QED BY <1>2, <1>3, <1>4

LEMMA Totals ==
  ASSUME NEW rows, Len(rows) \in Nat, NEW field, IsCounted(rows, field)
  PROVE  /\ Total(rows, field) \in Nat
         /\ (\A i \in 1..Len(rows) : rows[i].hits[field] = 0) => Total(rows, field) = 0
<1>1. PICK sum : /\ IsSum(sum, Counts(rows, field), Len(rows))
                 /\ Total(rows, field) = sum[Len(rows)]
  BY TotalIs
<1>2. \A i \in 1..Len(rows) : /\ Counts(rows, field)[i] = rows[i].hits[field]
                              /\ Counts(rows, field)[i] \in Nat
  BY DEF Counts, IsCounted
<1> QED BY <1>1, <1>2, SumCounts

LEMMA TotalsCompare ==
  ASSUME NEW rows, Len(rows) \in Nat, NEW part, IsCounted(rows, part),
         NEW whole, IsCounted(rows, whole),
         \A i \in 1..Len(rows) : 100 * rows[i].hits[part] >= 15 * rows[i].hits[whole]
  PROVE  /\ 100 * Total(rows, part) >= 15 * Total(rows, whole)
         /\ (\E i \in 1..Len(rows) : rows[i].hits[whole] > 0) => Total(rows, whole) > 0
<1>1. PICK sum : /\ IsSum(sum, Counts(rows, part), Len(rows))
                 /\ Total(rows, part) = sum[Len(rows)]
  BY TotalIs
<1>2. PICK all : /\ IsSum(all, Counts(rows, whole), Len(rows))
                 /\ Total(rows, whole) = all[Len(rows)]
  BY TotalIs
<1>3. \A i \in 1..Len(rows) :
        /\ Counts(rows, part)[i] \in Nat /\ Counts(rows, whole)[i] \in Nat
        /\ 100 * Counts(rows, part)[i] >= 15 * Counts(rows, whole)[i]
        /\ Counts(rows, whole)[i] = rows[i].hits[whole]
  BY DEF Counts, IsCounted
<1> QED BY <1>1, <1>2, <1>3, SumsCompare

\* A report looks at rows of the ledger.
LEMMA RecentIs ==
  ASSUME LedgerShape, NEW c
  PROVE  /\ Len(Recent(c)) \in Nat /\ DOMAIN Recent(c) = 1..Len(Recent(c))
         /\ \A i \in 1..Len(Recent(c)) : \E j \in 1..Len(ledger) : Recent(c)[i] = ledger[j]
<1> DEFINE S == {ledger[i] : i \in 1..Len(ledger)}
           I == {i \in DOMAIN ledger : ledger[i].cap = c}
           own == Picked(ledger, I)
           first == IF Len(own) > Window THEN Len(own) - Window + 1 ELSE 1
<1>1. ledger \in Seq(S)
  BY DEF LedgerShape, IsSeq
<1>2. /\ own \in Seq(S) /\ Recent(c) = SubSeq(own, first, Len(own))
  <2> HIDE DEF S
  <2>1. own \in Seq(S)
    BY <1>1, PickedKept
  <2> QED BY <2>1 DEF Recent, Last
<1>3. Len(own) \in Nat /\ first \in 1..Len(own) + 1 /\ Len(own) \in first - 1..Len(own)
  <2>1. Len(own) \in Nat
    BY <1>2
  <2> HIDE DEF own
  <2> QED BY <2>1
<1> HIDE DEF own, first, S
<1>4. Recent(c) \in Seq(S)
  BY <1>2, <1>3, Slice
<1> QED BY <1>4 DEF S

LEMMA SlipNoted ==
  ASSUME NEW slips, NEW n, NEW c
  PROVE  SlippedIn(slips \union {[run |-> n, cap |-> c]}, n)
<1> DEFINE s == [run |-> n, cap |-> c]
<1>1. s \in slips \union {s} /\ s.run = n
  OBVIOUS
<1> HIDE DEF s
<1>2. SlippedIn(slips \union {s}, n)
  BY <1>1 DEF SlippedIn
<1> QED BY <1>2 DEF s

LEMMA CompletingKeepsSlips ==
  ASSUME CallInv, SlipsTell, Completing
  PROVE  SlipsTell'
<1>1. /\ stack # <<>> /\ UNCHANGED <<options, runs>>
      /\ Len(stack) \in Nat \ {0} /\ Top.hits \in Tally /\ slipped \subseteq slipped'
  <2>1. slipped \subseteq slipped'
    BY DEF Completing, GovernanceStops, SessionStops, Conflicts, NotApplicable, Cycles,
       LoadFails, Steps, Catches
  <2> QED BY <2>1, CompletingIs, TopIsCall DEF CallInv, Shapes, IsCall
<1>2. Top.hits.fallback > 0 => SlippedIn(slipped, runs)
  BY <1>1 DEF SlipsTell, Top
<1>3. \A n : SlippedIn(slipped, n) => SlippedIn(slipped', n)
  BY <1>1 DEF SlippedIn
<1>4. \E e, f, status, code :
        /\ f.hits \in Tally /\ Completes(e, f, status, code)
        /\ f.hits.fallback > 0 \/ Misses(code) => SlippedIn(slipped', runs)
  <2>1. CASE GovernanceStops \/ Conflicts \/ NotApplicable \/ Cycles \/ LoadFails \/ Catches
    <3>1. \E e, code : Completes(e, Top, "failed", code) /\ ~Misses(code)
      BY <2>1 DEF GovernanceStops, Conflicts, NotApplicable, Cycles, LoadFails, Catches, Misses
    <3> QED BY <3>1, <1>1, <1>2, <1>3
  <2>2. CASE SessionStops
    <3>1. Completes(Registered, Top, "failed", "PRECONDITION_FAILED")
          /\ slipped' = slipped \union {[run |-> runs, cap |-> Top.cap]}
      BY <2>2 DEF SessionStops
    <3>2. SlippedIn(slipped', runs)
      BY <3>1, SlipNoted
    <3> QED BY <3>1, <3>2, <1>1
  <2>3. CASE Steps
    <3>1. PICK h \in Hits, end \in {<<"success", None>>, <<"failed", "CHECKPOINT_FAILED">>,
                                   <<"dry_run", None>>, <<"needs_human", "SESSION_EXPIRED">>} :
            /\ Completes(engine, [Top EXCEPT !.hits = Add(@, h)], end[1], end[2])
            /\ slipped' = IF h.fallback > 0 \/ end[2] = "CHECKPOINT_FAILED"
                          THEN slipped \union {[run |-> runs, cap |-> Top.cap]} ELSE slipped
      BY <2>3 DEF Steps
    <3> DEFINE f == [Top EXCEPT !.hits = Add(@, h)]
    <3>2. f.hits = Add(Top.hits, h)
      BY <1>1, TopIsCall DEF CallInv, Shapes, IsCall
    <3>3. f.hits \in Tally /\ (f.hits.fallback > 0 => Top.hits.fallback > 0 \/ h.fallback > 0)
      BY <1>1, <3>2, Counted DEF Tally
    <3>4. h.fallback > 0 \/ end[2] = "CHECKPOINT_FAILED" => SlippedIn(slipped', runs)
      BY <3>1, SlipNoted
    <3>5. Misses(end[2]) => end[2] = "CHECKPOINT_FAILED"
      BY DEF Misses, None
    <3> HIDE DEF f
    <3>6. Completes(engine, f, end[1], end[2])
      BY <3>1 DEF f
    <3> QED BY <3>3, <3>4, <3>5, <3>6, <1>2, <1>3
  <2> QED BY <2>1, <2>2, <2>3 DEF Completing
<1>5. PICK e, f, status, code :
        /\ f.hits \in Tally /\ Completes(e, f, status, code)
        /\ f.hits.fallback > 0 \/ Misses(code) => SlippedIn(slipped', runs)
  BY <1>4, Zenon
<1>6. /\ Len(stack') = Len(stack) - 1 /\ \A i \in 1..Len(stack') : stack'[i] = stack[i]
      /\ result'.hits = f.hits
  BY <1>1, <1>5, Ends DEF CallInv, Completes
<1>7. \A i \in 1..Len(ledger') : \/ i \in 1..Len(ledger) /\ ledger'[i] = ledger[i]
                                 \/ ledger'[i] = Row(e, f, status, code)
  BY <1>5, RowsAfter DEF CallInv
<1>8. /\ Row(e, f, status, code).hits = f.hits
      /\ Row(e, f, status, code).miss = Misses(code)
      /\ Row(e, f, status, code).run = runs
  BY DEF Row
<1>9. ASSUME NEW i \in 1..Len(ledger'), ledger'[i].hits.fallback > 0 \/ ledger'[i].miss
      PROVE  SlippedIn(slipped', ledger'[i].run)
  <2>1. CASE i \in 1..Len(ledger) /\ ledger'[i] = ledger[i]
    BY <1>3, <1>9, <2>1 DEF SlipsTell
  <2>2. CASE ledger'[i] = Row(e, f, status, code)
    BY <1>1, <1>5, <1>8, <1>9, <2>2
  <2> QED BY <1>7, <2>1, <2>2
<1>10. \A i \in 1..Len(stack') : stack'[i].hits.fallback > 0 => SlippedIn(slipped', runs)
  BY <1>1, <1>3, <1>6 DEF SlipsTell
<1> QED BY <1>1, <1>5, <1>6, <1>9, <1>10 DEF SlipsTell

LEMMA SlipsStep ==
  ASSUME CallInv, SlipsTell, [Next]_vars
  PROVE  SlipsTell'
<1>1. CASE Completing
  BY <1>1, CompletingKeepsSlips
<1>2. CASE VaultThrows \/ RefusesInputs \/ LedgerThrows
  <2>1. /\ stack # <<>> /\ UNCHANGED <<ledger, slipped, runs>>
        /\ Sinks(Top, "thrown", None) \/ Sinks(Top, "invalid_input", "INVALID_INPUT")
    BY <1>2 DEF VaultThrows, RefusesInputs, LedgerThrows, At, Rejects
  <2>2. Len(stack) \in Nat \ {0} /\ Top.hits \in Tally
    BY <2>1, TopIsCall DEF CallInv, Shapes, IsCall
  <2>3. /\ Len(stack') = Len(stack) - 1 /\ result'.hits = Top.hits
        /\ \A i \in 1..Len(stack') : stack'[i] = stack[i]
    BY <2>1, <2>2, Ends DEF CallInv
  <2>4. Top.hits.fallback > 0 => SlippedIn(slipped, runs)
    BY <2>2 DEF SlipsTell, Top
  <2> QED BY <2>1, <2>2, <2>3, <2>4 DEF SlipsTell
<1>3. CASE Registers \/ Begins \/ Skips \/ Resumes
  <2>1. /\ stack # <<>> /\ UNCHANGED <<ledger, slipped, runs>> /\ result' = NoResult
    BY <1>3 DEF Registers, Begins, Skips, Resumes, Goes, At, Answered
  <2>2. Len(stack) \in Nat \ {0} /\ IsCall(Top) /\ result.hits \in Tally
    BY <2>1, TopIsCall DEF CallInv, Shapes
  <2>3. \E g : /\ IsCall(g) /\ stack' = WithTop(g)
               /\ g.hits.fallback > 0 => Top.hits.fallback > 0 \/ result.hits.fallback > 0
    <3>1. CASE Registers
      <4> DEFINE g == [Top EXCEPT !.pc = "checks"]
      <4>1. IsCall(g) /\ g.hits = Top.hits /\ stack' = WithTop(g)
        BY <3>1, <2>2 DEF IsCall, Registers
      <4> HIDE DEF g
      <4> QED BY <4>1
    <3>2. CASE Begins
      <4> DEFINE g == [Top EXCEPT !.pc = "uses", !.seen = Seen(Top)]
      <4>1. IsCall(g) /\ g.hits = Top.hits /\ stack' = WithTop(g)
        BY <3>2, <2>2 DEF IsCall, Begins
      <4> HIDE DEF g
      <4> QED BY <4>1
    <3>3. CASE Skips
      <4> DEFINE g == [Top EXCEPT !.next = @ + 1]
      <4>1. IsCall(g) /\ g.hits = Top.hits /\ stack' = WithTop(g)
        BY <3>3, <2>2 DEF IsCall, Skips
      <4> HIDE DEF g
      <4> QED BY <4>1
    <3>4. CASE Resumes
      <4> DEFINE g == [Top EXCEPT !.next = @ + 1, !.hits = Add(@, result.hits)]
      <4>1. /\ Add(Top.hits, result.hits) \in Tally
            /\ Add(Top.hits, result.hits).fallback > 0
                 => Top.hits.fallback > 0 \/ result.hits.fallback > 0
        BY <2>2, Counted DEF IsCall
      <4>2. IsCall(g) /\ g.hits = Add(Top.hits, result.hits) /\ stack' = WithTop(g)
        BY <3>4, <2>2, <4>1 DEF IsCall, Resumes
      <4> HIDE DEF g
      <4> QED BY <4>1, <4>2
    <3> QED BY <1>3, <3>1, <3>2, <3>3, <3>4
  <2>4. PICK g : /\ IsCall(g) /\ stack' = WithTop(g)
                 /\ g.hits.fallback > 0 => Top.hits.fallback > 0 \/ result.hits.fallback > 0
    BY <2>3, Zenon
  <2>5. /\ Len(stack') = Len(stack) /\ stack'[Len(stack)] = g
        /\ \A i \in 1..Len(stack) - 1 : stack'[i] = stack[i]
    BY <2>1, <2>4, Puts DEF CallInv, Shapes
  <2>6. g.hits.fallback > 0 => SlippedIn(slipped, runs)
    BY <2>2, <2>4 DEF SlipsTell, Top
  <2>7. \A i \in 1..Len(stack') : \/ i \in 1..Len(stack) /\ stack'[i] = stack[i]
                                  \/ stack'[i] = g
    BY <2>2, <2>5
  <2> QED BY <2>1, <2>6, <2>7, NothingCounted DEF SlipsTell
<1>4. CASE Uses
  <2>1. UNCHANGED <<ledger, slipped, runs, result>> /\ Len(stack) \in Nat \ {0}
    BY <1>4, UsesIs
  <2>2. PICK f, g :
          /\ f.hits = Top.hits /\ g.hits = NoResult.hits
          /\ Len(stack') = Len(stack) + 1
          /\ stack'[Len(stack) + 1] = g /\ stack'[Len(stack)] = f
          /\ \A i \in 1..Len(stack) - 1 : stack'[i] = stack[i]
    BY <1>4, UsesIs, Zenon
  <2>3. Top.hits.fallback > 0 => SlippedIn(slipped, runs)
    BY <2>1 DEF SlipsTell, Top
  <2>4. \A i \in 1..Len(stack') : \/ i \in 1..Len(stack) /\ stack'[i] = stack[i]
                                  \/ stack'[i] = f \/ stack'[i] = g
    BY <2>1, <2>2
  <2> QED BY <2>1, <2>2, <2>3, <2>4, NothingCounted DEF SlipsTell
<1>5. CASE Halts
  <2>1. /\ stack # <<>> /\ stack' = Popped /\ UNCHANGED <<result, ledger, slipped, runs>>
    BY <1>5 DEF Halts, Answered
  <2>2. /\ Len(stack') = Len(stack) - 1 /\ Len(stack) \in Nat \ {0}
        /\ \A i \in 1..Len(stack') : stack'[i] = stack[i]
    BY <2>1, Pops, TopIsCall DEF CallInv, Shapes
  <2> QED BY <2>1, <2>2 DEF SlipsTell
<1>6. CASE Calls
  <2>1. /\ UNCHANGED <<ledger, slipped, result>> /\ Len(stack') = 1 /\ result = NoResult
        /\ Top'.hits = NoResult.hits
    BY <1>6, CallIs
  <2>2. \A i \in 1..Len(stack') : stack'[i].hits = NoResult.hits
    BY <2>1 DEF Top
  <2> QED BY <2>1, <2>2, NothingCounted DEF SlipsTell
<1>7. CASE Answers
  <2>1. stack' = <<>> /\ result' = NoResult /\ UNCHANGED <<ledger, slipped, runs>>
    BY <1>7 DEF Answers
  <2> QED BY <2>1, NothingCounted DEF SlipsTell
<1>8. CASE UNCHANGED vars
  BY <1>8 DEF vars, SlipsTell
<1> QED BY <1>1, <1>2, <1>3, <1>4, <1>5, <1>6, <1>7, <1>8 DEF Next, EngineStep, Completing

\* Where a row counts a fallback or a missed checkpoint, its run had one (engine.ts
\* complete(), drift.ts): what is counted is never another run's.
THEOREM SlipsAreTold == Spec => [](CallInv /\ SlipsTell)
<1>1. Init => CallInv /\ SlipsTell
  <2> SUFFICES ASSUME Init PROVE SlipsTell
    BY CallInit
  <2>1. Len(ledger) = 0 /\ Len(stack) = 0 /\ result = NoResult
    BY DEF Init
  <2> QED BY <2>1, NothingCounted DEF SlipsTell
<1>2. CallInv /\ SlipsTell /\ [Next]_vars => (CallInv /\ SlipsTell)'
  BY CallStep, SlipsStep
<1> QED BY <1>1, <1>2, PTL DEF Spec

\* A report without a fallback and without a missed checkpoint asks for nothing.
LEMMA DriftNeedsOne ==
  ASSUME LedgerShape, NEW c, NeedsRediscovery(c)
  PROVE  \E i \in 1..Len(Recent(c)) : Recent(c)[i].hits.fallback > 0 \/ Recent(c)[i].miss
<1> DEFINE rows == Recent(c)
           n == Len(rows)
           located == Total(rows, "targeted")
           fallbacks == Total(rows, "fallback")
           missed == Cardinality({i \in DOMAIN rows : rows[i].miss})
<1>1. /\ n > 0
      /\ \/ located > 0 /\ 100 * fallbacks >= 15 * located
         \/ 100 * missed >= 10 * n
         \/ located = 0 /\ 40 * missed >= 12 * n
         \/ located > 0 /\ 60 * fallbacks * n + 40 * missed * located >= 12 * located * n
  BY DEF NeedsRediscovery, AtLeast
<1>2. /\ n \in Nat /\ DOMAIN rows = 1..n
      /\ \A i \in 1..n : rows[i].hits \in Tally
  BY RecentIs DEF LedgerShape
<1>3. \A i \in 1..n : rows[i].hits.targeted \in Nat /\ rows[i].hits.fallback \in Nat
  BY <1>2 DEF Tally
<1> HIDE DEF rows
<1> SUFFICES ASSUME \A i \in 1..n : rows[i].hits.fallback = 0 /\ ~rows[i].miss
             PROVE  FALSE
  BY <1>3 DEF rows
<1>4. located \in Nat /\ fallbacks = 0
  <2>1. IsCounted(rows, "targeted") /\ IsCounted(rows, "fallback")
    BY <1>3 DEF IsCounted
  <2> QED BY <1>2, <2>1, Totals
<1>5. missed = 0
  <2>1. {i \in DOMAIN rows : rows[i].miss} = {}
    BY <1>2
  <2> QED BY <2>1, FS_EmptySet
<1> HIDE DEF located, fallbacks, missed, n
<1>6. located > 0 => located * n > 0
  BY <1>1, <1>2, <1>4
<1> QED BY <1>1, <1>2, <1>4, <1>5, <1>6

\* What fell back often in each row fell back often in all of them together.
LEMMA DriftIsSeen ==
  ASSUME LedgerShape, NEW c,
         \A i \in DOMAIN Recent(c) :
           100 * Recent(c)[i].hits.fallback >= 15 * Recent(c)[i].hits.targeted,
         NEW j \in DOMAIN Recent(c), Recent(c)[j].hits.targeted > 0
  PROVE  NeedsRediscovery(c)
<1> DEFINE rows == Recent(c)
           n == Len(rows)
<1>1. /\ n \in Nat /\ DOMAIN rows = 1..n
      /\ \A i \in 1..n : rows[i].hits \in Tally
  BY RecentIs DEF LedgerShape
<1>2. \A i \in 1..n : rows[i].hits.targeted \in Nat /\ rows[i].hits.fallback \in Nat
  BY <1>1 DEF Tally
<1>3. /\ \A i \in 1..n : 100 * rows[i].hits.fallback >= 15 * rows[i].hits.targeted
      /\ j \in 1..n /\ rows[j].hits.targeted > 0
  BY <1>1
<1> HIDE DEF rows
<1>4. /\ 100 * Total(rows, "fallback") >= 15 * Total(rows, "targeted")
      /\ Total(rows, "targeted") > 0
  <2>1. IsCounted(rows, "targeted") /\ IsCounted(rows, "fallback")
    BY <1>2 DEF IsCounted
  <2> QED BY <1>1, <1>3, <2>1, TotalsCompare
<1>5. n > 0 /\ AtLeast(Total(rows, "fallback"), 15, Total(rows, "targeted"))
  BY <1>1, <1>3, <1>4 DEF AtLeast
<1> QED BY <1>5 DEF NeedsRediscovery, rows

\* A capability is sent to rediscovery for what happened in a run that the report is about,
\* and is sent when each of those rows is at the threshold (drift.ts 34-60, 86-94).
THEOREM DriftIsCaused == Spec => []DriftHasACause
<1>1. CallInv /\ SlipsTell => DriftHasACause
  <2> SUFFICES ASSUME CallInv, SlipsTell, NEW c \in Capabilities
               PROVE  /\ NeedsRediscovery(c) =>
                           \E s \in slipped : \E i \in DOMAIN Recent(c) : Recent(c)[i].run = s.run
                      /\ /\ \A i \in DOMAIN Recent(c) :
                              100 * Recent(c)[i].hits.fallback >= 15 * Recent(c)[i].hits.targeted
                         /\ \E i \in DOMAIN Recent(c) : Recent(c)[i].hits.targeted > 0
                         => NeedsRediscovery(c)
    BY DEF DriftHasACause
  <2>1. LedgerShape
    BY DEF CallInv, Shapes
  <2>2. ASSUME NeedsRediscovery(c)
        PROVE  \E s \in slipped : \E i \in DOMAIN Recent(c) : Recent(c)[i].run = s.run
    <3>1. PICK i \in 1..Len(Recent(c)) : Recent(c)[i].hits.fallback > 0 \/ Recent(c)[i].miss
      BY <2>1, <2>2, DriftNeedsOne
    <3>2. PICK j \in 1..Len(ledger) : Recent(c)[i] = ledger[j]
      BY <2>1, RecentIs
    <3>3. SlippedIn(slipped, Recent(c)[i].run)
      BY <3>1, <3>2 DEF SlipsTell
    <3>4. i \in DOMAIN Recent(c)
      BY <2>1, RecentIs
    <3> QED BY <3>3, <3>4 DEF SlippedIn
  <2> QED BY <2>1, <2>2, DriftIsSeen
<1> QED BY <1>1, SlipsAreTold, PTL
=============================================================================
