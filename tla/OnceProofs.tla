------------------------------- MODULE OnceProofs -------------------------------
(***************************************************************************)
(* TLAPS proofs about Replay, for every plan, budget and number of runs:   *)
(* OnceUnlessMoved and SuccessIsReal.  Both follow from what the page of a *)
(* run tells of the core as long as the person has not left it: every      *)
(* Confirm behind the page is on record, and the form of a Confirm that    *)
(* was made carries no token.                                              *)
(***************************************************************************)
EXTENDS ReplayProofs

USE RunAssumption, PlanAssumption, OptionAssumption, BoundAssumption, NoneAssumption

-------------------------------------------------------------------------------
(* The inductive invariant. *)

\* The run or its person has made the core record step n.
Did(h, n) == h.autos[n] > 0 \/ n \in h.byHand

Once(h) == \A n \in Confirms : h.autos[n] + (IF n \in h.byHand THEN 1 ELSE 0) <= 1

\* What page p tells of the history h and of the core's records e of the key. The
\* form of a step that was done is spent; behind a login screen it is not shown
\* again, as the step is one that the core refuses a second time.
Tells(p, h, e) ==
  /\ \A n \in Confirms : n <= p.at => e[n] > 0
  /\ \A n \in Confirms : Did(h, n) =>
       /\ n <= p.at + 1 /\ e[n] > 0
       /\ n = p.at + 1 => ~ p.token /\ (p.view = "login" => n \in Unique)

\* What the locals v tell: a person who is asked about the session or to supervise
\* has no form to post, nothing is done before a run has left its recorded
\* navigation, and a success is real.
Knows(v, p, h, e) ==
  /\ v.pc \in {"restoring", "supervised"} => p.view \notin Readable
  /\ v.pc = "idle" \/ (Navigates /\ v.step = 1 /\ v.pc \notin Over) =>
       \A n \in Confirms : ~ Did(h, n)
  /\ v.result = "success" => \A n \in Confirms : e[n] > 0

Sound(r) ==
  ~ hist[r].moved =>
    /\ Once(hist[r])
    /\ Tells(page[r], hist[r], effects[KeyOf[r]])
    /\ Knows(run[r], page[r], hist[r], effects[KeyOf[r]])

OnceInv == Inv /\ \A r \in Runs : Sound(r)

-------------------------------------------------------------------------------
(* What a step of run r may do. *)

\* The other runs keep what is theirs, and the core forgets nothing.
Alone(r) ==
  /\ \A s \in Runs \ {r} : run'[s] = run[s] /\ page'[s] = page[s] /\ hist'[s] = hist[s]
  /\ \A k \in Keys, n \in Confirms : effects[k][n] > 0 => effects'[k][n] > 0

\* The run ends without a success or goes on: to a person who is asked about a
\* page without a form, or to this step or a later one.
Proceeds(r, q) ==
  /\ \A s \in Runs \ {r} : run'[s] = run[s]
  /\ run'[r].pc # "idle" /\ run'[r].result # "success"
  /\ run'[r].pc \in {"restoring", "supervised"} => q.view \notin Readable
  /\ run'[r].pc \in Over \/ run[r].pc = "idle" \/ (run'[r].step = 1 => run[r].step = 1)

\* The other runs stay sound.
LEMMA OthersSound ==
  ASSUME OnceInv, NEW r \in Runs, Alone(r), Sound(r)'
  PROVE  \A s \in Runs : Sound(s)'
<1> SUFFICES ASSUME NEW s \in Runs, s # r PROVE Sound(s)'
  OBVIOUS
<1>1. run'[s] = run[s] /\ page'[s] = page[s] /\ hist'[s] = hist[s]
  BY DEF Alone
<1>2. \A n \in Confirms : effects[KeyOf[s]][n] > 0 => effects'[KeyOf[s]][n] > 0
  BY DEF Alone
<1> QED BY <1>1, <1>2 DEF OnceInv, Sound, Tells, Knows

\* A run that goes on, on a page that tells the truth, is sound.
LEMMA GoesOnSound ==
  ASSUME OnceInv, NEW r \in Runs, Alone(r), Proceeds(r, page'[r]), run[r].pc \in Working,
         hist'[r].moved = hist[r].moved,
         ~ hist[r].moved => /\ Once(hist'[r])
                            /\ Tells(page'[r], hist'[r], effects'[KeyOf[r]]),
         Navigates /\ run[r].step = 1 => \A n \in Confirms : Did(hist'[r], n) => Did(hist[r], n)
  PROVE  \A s \in Runs : Sound(s)'
<1>1. run[r].pc \notin Over \cup {"idle"}
  BY AtWork DEF OnceInv
<1>2. ASSUME ~ hist[r].moved
      PROVE  Knows(run'[r], page'[r], hist'[r], effects'[KeyOf[r]])
  <2>1. Knows(run[r], page[r], hist[r], effects[KeyOf[r]])
    BY <1>2 DEF OnceInv, Sound
  <2> QED BY <1>1, <2>1 DEF Knows, Proceeds
<1>3. Sound(r)'
  BY <1>2 DEF Sound
<1> QED BY <1>3, OthersSound

-------------------------------------------------------------------------------
(* Pages. *)

\* A page at the same place tells as much, when it shows no form that was spent
\* and asks for no login that was not asked for.
LEMMA SamePlace ==
  ASSUME NEW p, NEW q, NEW h, NEW e, Tells(p, h, e), q.at = p.at,
         q.token => p.token, q.view = "login" => p.view = "login"
  PROVE  Tells(q, h, e)
  BY DEF Tells

\* What is observed, also after signing in, tells the truth.
LEMMA SeenTells ==
  ASSUME Inv, NEW r \in Runs, NEW h, NEW q \in Seen(r) \cup {page[r]},
         Tells(page[r], h, effects[KeyOf[r]])
  PROVE  Tells(q, h, effects[KeyOf[r]])
<1> DEFINE p == page[r]
           e == effects[KeyOf[r]]
<1>1. p \in Pages /\ p.at \in 0..N
  BY Typed DEF Pages
<1>2. \/ q = p
      \/ p.view = "login" /\ q = Page(p.at, Shown(r, p.at))
      \/ q = Page(p.at, "other")
  BY DEF Seen
<1>3. CASE q = Page(p.at, "other")
  BY <1>3, SamePlace DEF Page, Readable
<1>4. CASE p.view = "login" /\ q = Page(p.at, Shown(r, p.at))
  <2>1. q.at = p.at /\ q.view = Shown(r, p.at) /\ q.view \in {"form", "refused"}
    BY <1>4 DEF Page, Shown
  <2>2. ASSUME p.at + 1 \in Confirms, Did(h, p.at + 1) PROVE ~ q.token
    <3>1. p.at + 1 \in Unique /\ e[p.at + 1] > 0
      BY <1>4, <2>2 DEF Tells
    <3>2. Shown(r, p.at) = "refused"
      BY <3>1 DEF Shown
    <3> QED BY <1>4, <3>2 DEF Page, Readable
  <2> QED BY <2>1, <2>2 DEF Tells
<1> QED BY <1>2, <1>3, <1>4

\* The recover action of a class leaves a page that tells the truth.
LEMMA RecoversTells ==
  ASSUME Inv, NEW r \in Runs, NEW p \in Pages, NEW s, Recovers(r, p, s), NEW h,
         Tells(p, h, effects[KeyOf[r]])
  PROVE  /\ \A q \in Runs \ {r} : page'[q] = page[q]
         /\ Tells(page'[r], h, effects[KeyOf[r]])
         /\ p.view # "notice" => page'[r] = p
<1> DEFINE f == [p EXCEPT !.view = "form"]
<1>1. f.at = p.at /\ f.token = p.token /\ f.view = "form"
  BY DEF Pages
<1>2. Tells(f, h, effects[KeyOf[r]])
  BY <1>1, SamePlace
<1>3. \/ page' = [page EXCEPT ![r] = IF p.view = "notice" THEN f ELSE p]
      \/ p.view = "notice" /\ page' = [page EXCEPT ![r] = p]
  BY DEF Recovers
<1> HIDE DEF f
<1> QED BY <1>2, <1>3, Typed

\* The fields of a page that is built.
LEMMA PageFields ==
  ASSUME NEW k, NEW v
  PROVE  /\ Page(k, v).at = k /\ Page(k, v).view = v
         /\ Page(k, v).token => v \in Readable /\ k + 1 \in Confirms
  BY DEF Page

\* What a page that is asked for shows.
LEMMA LoadsAt ==
  ASSUME NEW r \in Runs, NEW k, NEW q \in Loads(r, k)
  PROVE  q.at = k /\ (q.token => k + 1 \in Confirms)
<1>1. PICK v : q = Page(k, v)
  BY DEF Loads
<1> QED BY <1>1, PageFields

\* The bank's answer, and the page it leaves when the answer is late, tell the
\* truth once the effect of the request is on record.
LEMMA RepliesTell ==
  ASSUME NEW r \in Runs, NEW n \in Steps, NEW p \in Pages, NEW g, NEW d,
         Tells(p, g, d),
         \/ Shows(n - 1, p)
         \/ n \notin Confirms /\ n = 1 /\ \A m \in Confirms : ~ Did(g, m),
         NEW reply \in Replies(r, n, p), NEW h, NEW e,
         \A m \in Confirms : d[m] > 0 => e[m] > 0,
         \A m \in Confirms : Did(h, m) => Did(g, m) \/ (reply.hit /\ m = n),
         reply.hit => e[n] > 0
  PROVE  Tells(reply.to, h, e) /\ Tells(reply.keep, h, e)
<1>1. n \in 1..N /\ \A m \in Confirms : m \in 1..N
  BY DEF Steps
<1>2. Consumed(p).at = p.at /\ ~ Consumed(p).token /\ Consumed(p).view = p.view
  BY DEF Consumed, Pages
<1>3. CASE n \notin Confirms
  <2>1. PICK q \in Loads(r, n) : reply = [to |-> q, keep |-> p, hit |-> FALSE]
    BY <1>3 DEF Replies
  <2>2. q.at = n /\ (q.token => n + 1 \in Confirms)
    BY LoadsAt
  <2>3. \A m \in Confirms : Did(h, m) => Did(g, m)
    BY <2>1
  <2>4. Tells(p, h, e)
    BY <2>3 DEF Tells
  <2>5. \A m \in Confirms : m <= n => m <= n - 1
    BY <1>1, <1>3
  <2>6. CASE Shows(n - 1, p)
    <3>1. p.at = n - 1
      BY <2>6 DEF Shows
    <3> QED BY <1>1, <2>1, <2>2, <2>4, <2>5, <3>1 DEF Tells
  <2>7. CASE n = 1 /\ \A m \in Confirms : ~ Did(g, m)
    <3>1. \A m \in Confirms : ~ (m <= n) /\ ~ Did(h, m)
      BY <1>1, <2>3, <2>5, <2>7
    <3> QED BY <2>1, <2>2, <2>4, <3>1 DEF Tells
  <2> QED BY <1>3, <2>6, <2>7
<1>4. CASE n \in Confirms
  <2>1. p.at = n - 1 /\ p.view \in Readable
    BY <1>4 DEF Shows
  <2>2. \/ \E v \in {"unavailable", "expired", "login", "relogin", "other", "refused"} :
             /\ reply.to = Page(n - 1, v) /\ reply.keep \in {p, Consumed(p)} /\ ~ reply.hit
             /\ v = "login" => n \in Unique
        \/ /\ reply.to \in Loads(r, n) /\ reply.keep = Consumed(p) /\ reply.hit
    BY <1>4 DEF Replies
  <2>3. CASE \E v \in {"unavailable", "expired", "login", "relogin", "other", "refused"} :
               /\ reply.to = Page(n - 1, v) /\ reply.keep \in {p, Consumed(p)} /\ ~ reply.hit
               /\ v = "login" => n \in Unique
    <3>1. Tells(p, h, e)
      BY <2>3 DEF Tells
    <3>2. Tells(Consumed(p), h, e)
      BY <1>2, <3>1, SamePlace
    <3>3. /\ reply.to.at = p.at /\ ~ reply.to.token
          /\ reply.to.view = "login" => n \in Unique
      <4>1. PICK v \in {"unavailable", "expired", "login", "relogin", "other", "refused"} :
              reply.to = Page(n - 1, v) /\ (v = "login" => n \in Unique)
        BY <2>3
      <4>2. reply.to.at = n - 1 /\ reply.to.view = v /\ (reply.to.token => v \in Readable)
        BY <4>1, PageFields
      <4>3. v \notin Readable
        BY DEF Readable
      <4> QED BY <2>1, <4>1, <4>2, <4>3
    <3>4. Tells(reply.to, h, e)
      <4> DEFINE q == reply.to
      <4>1. \A m \in Confirms : m <= q.at => e[m] > 0
        BY <3>1, <3>3 DEF Tells
      <4>2. ASSUME NEW m \in Confirms, Did(h, m)
            PROVE  m <= q.at + 1 /\ e[m] > 0
        BY <3>1, <3>3, <4>2 DEF Tells
      <4>3. \A m \in Confirms : m = q.at + 1 => m = n
        BY <1>1, <2>1, <3>3
      <4>4. ~ q.token /\ (q.view = "login" => n \in Unique)
        BY <3>3
      <4> HIDE DEF q
      <4>5. Tells(q, h, e)
        BY <4>1, <4>2, <4>3, <4>4 DEF Tells
      <4> QED BY <4>5 DEF q
    <3> QED BY <2>3, <3>1, <3>2, <3>4
  <2>4. CASE reply.to \in Loads(r, n) /\ reply.keep = Consumed(p) /\ reply.hit
    <3>1. reply.to.at = n /\ \A m \in Confirms : m <= n <=> (m = n \/ m <= p.at)
      <4>1. reply.to.at = n
        BY <2>4, LoadsAt
      <4>2. \A m \in Confirms : m <= n <=> (m = n \/ m <= n - 1)
        BY <1>1
      <4> QED BY <2>1, <4>1, <4>2
    <3>2. \A m \in Confirms : Did(h, m) => m <= p.at + 1 /\ e[m] > 0
      BY <1>1, <2>1, <2>4 DEF Tells
    <3>3. \A m \in Confirms : m <= n => e[m] > 0
      BY <2>4, <3>1 DEF Tells
    <3>4. Tells(reply.to, h, e)
      BY <1>1, <2>1, <3>1, <3>2, <3>3 DEF Tells
    <3>5. Tells(Consumed(p), h, e)
      BY <1>2, <2>1, <3>1, <3>2, <3>3 DEF Tells, Readable
    <3> QED BY <2>4, <3>4, <3>5
  <2> QED BY <2>2, <2>3, <2>4
<1> QED BY <1>3, <1>4

\* A request has its effect only with the token of a form that was not spent.
LEMMA HitsOnce ==
  ASSUME NEW r \in Runs, NEW n \in Steps, NEW p \in Pages, NEW h, NEW d, Tells(p, h, d),
         Shows(n - 1, p), NEW reply \in Replies(r, n, p), reply.hit
  PROVE  n \in Confirms /\ ~ Did(h, n)
<1>1. n \in Confirms /\ p.token
  BY DEF Replies
<1>2. n = p.at + 1
  BY DEF Shows, Steps
<1> QED BY <1>1, <1>2 DEF Tells

-------------------------------------------------------------------------------
(* Steps that end a run, and steps that go on. *)

\* A run that goes on, on this step or a later one.
LEMMA ProceedsTo ==
  ASSUME Inv, NEW r \in Runs, NEW q, NEW v, run' = [run EXCEPT ![r] = v],
         v.pc \notin {"idle", "restoring", "supervised"}, v.result = None,
         v.pc \in Over \/ (v.step = 1 => run[r].step = 1)
  PROVE  Proceeds(r, q)
<1>1. run'[r] = v /\ \A s \in Runs \ {r} : run'[s] = run[s]
  BY Typed
<1>2. None # "success"
  BY DEF Codes
<1> QED BY <1>1, <1>2 DEF Proceeds

\* complete() and fail(), with any other code than that of a success.
LEMMA EndProceeds ==
  ASSUME Inv, NEW r \in Runs, NEW q, NEW code, code # "success", End(r, code)
  PROVE  Proceeds(r, q)
<1> DEFINE v == [Idle EXCEPT !.pc = "ended", !.dry = run[r].dry, !.result = code]
<1>1. run'[r] = v /\ \A s \in Runs \ {r} : run'[s] = run[s]
  BY Typed DEF End
<1>2. v.pc = "ended" /\ v.result = code
  BY DEF Idle
<1> QED BY <1>1, <1>2 DEF Proceeds, Over

\* The exceptional states that end the run or go to a person.
LEMMA StopsProceeds ==
  ASSUME Inv, NEW r \in Runs, NEW p, NEW q, NEW back, Stops(r, p, back),
         p.view \in {"expired", "supervisor"} => q.view = p.view, run[r].pc \in Working
  PROVE  Proceeds(r, q)
<1>1. CASE End(r, "business") \/ End(r, "needs_human")
  BY <1>1, EndProceeds
<1>2. CASE /\ p.view \in {"expired", "supervisor"}
           /\ run' = [run EXCEPT ![r].back = back,
                           ![r].pc = IF p.view = "expired" THEN "restoring" ELSE "supervised"]
  <2> DEFINE l == IF p.view = "expired" THEN "restoring" ELSE "supervised"
             v == [run[r] EXCEPT !.back = back, !.pc = l]
  <2>1. run'[r] = v /\ \A s \in Runs \ {r} : run'[s] = run[s]
    BY <1>2, Typed
  <2>2. l # "idle" /\ q.view \notin Readable
    BY <1>2 DEF Readable
  <2> HIDE DEF l
  <2>3. run[r] \in RunType /\ run[r].result = None
    BY AtWork
  <2>4. v.pc = l /\ v.result = None /\ v.step = run[r].step
    BY <2>3 DEF RunType
  <2>5. None # "success"
    BY DEF Codes
  <2> QED BY <2>1, <2>2, <2>4, <2>5 DEF Proceeds
<1> QED BY <1>1, <1>2 DEF Stops

\* A wait ends the run, or it goes on with the same step.
LEMMA WaitsProceeds ==
  ASSUME Inv, NEW r \in Runs, NEW q, Waits(r), run[r].pc \in Working
  PROVE  Proceeds(r, q)
<1>1. CASE End(r, "transient_exhausted")
  BY <1>1, EndProceeds
<1>2. CASE run' = [run EXCEPT ![r].transients = @ + 1, ![r].pending = TRUE, ![r].pc = "observe"]
  <2> DEFINE v == [run[r] EXCEPT !.transients = @ + 1, !.pending = TRUE, !.pc = "observe"]
  <2>1. run[r] \in RunType /\ run[r].result = None
    BY AtWork
  <2>2. run' = [run EXCEPT ![r] = v]
    BY <1>2, Typed
  <2>3. v.pc = "observe" /\ v.result = None /\ v.step = run[r].step
    BY <2>1 DEF RunType
  <2> HIDE DEF v
  <2> QED BY <2>2, <2>3, ProceedsTo
<1> QED BY <1>1, <1>2 DEF Waits

\* The next label of the same step.
LEMMA LabelProceeds ==
  ASSUME Inv, NEW r \in Runs, NEW q, NEW l \in {"observe", "act", "check", "handoff"}, NEW v,
         run' = [run EXCEPT ![r] = v], run[r].pc \in Working,
         v.pc = l, v.result = run[r].result, v.step = run[r].step
  PROVE  Proceeds(r, q)
<1>1. v.result = None
  BY AtWork
<1> QED BY <1>1, ProceedsTo

\* The next step.
LEMMA NextStepProceeds ==
  ASSUME Inv, NEW r \in Runs, NEW q, run[r].pc \in Working, run[r].step \in Steps,
         run' = [run EXCEPT ![r] = AtStep(r, run[r].step + 1)]
  PROVE  Proceeds(r, q)
<1> DEFINE n == run[r].step + 1
           v == AtStep(r, n)
<1>1. n \in 1..(N + 1) /\ n # 1
  BY DEF Steps
<1>2. v.step = n /\ v.result = run[r].result /\ v.pc \in {"observe", "final"}
  BY <1>1, AtStepTyped
<1>3. v.result = None
  BY <1>2, AtWork
<1> HIDE DEF v, n
<1> QED BY <1>1, <1>2, <1>3, ProceedsTo DEF v, n

\* A step of a run at work that posts nothing.
LEMMA QuietSound ==
  ASSUME OnceInv, NEW r \in Runs, run[r].pc \in Working, Proceeds(r, page'[r]),
         \A s \in Runs \ {r} : page'[s] = page[s] /\ hist'[s] = hist[s],
         UNCHANGED effects, hist'[r].autos = hist[r].autos,
         hist'[r].byHand = hist[r].byHand, hist'[r].moved = hist[r].moved,
         ~ hist[r].moved => Tells(page'[r], hist[r], effects[KeyOf[r]])
  PROVE  \A s \in Runs : Sound(s)'
<1>1. Alone(r)
  BY DEF Alone, Proceeds
<1>2. \A n : Did(hist'[r], n) <=> Did(hist[r], n)
  BY DEF Did
<1>3. ~ hist[r].moved => Once(hist'[r]) /\ Tells(page'[r], hist'[r], effects'[KeyOf[r]])
  BY <1>2 DEF OnceInv, Sound, Once, Tells
<1> QED BY <1>1, <1>2, <1>3, GoesOnSound

\* A step of a run at work that posts nothing and only observes its page.
LEMMA ObservesSound ==
  ASSUME OnceInv, NEW r \in Runs, run[r].pc \in Working, NEW p \in Seen(r) \cup {page[r]},
         page' = [page EXCEPT ![r] = p], Proceeds(r, p), UNCHANGED <<effects, hist>>
  PROVE  \A s \in Runs : Sound(s)'
<1>1. page'[r] = p /\ \A s \in Runs \ {r} : page'[s] = page[s]
  BY Typed DEF OnceInv
<1>2. ~ hist[r].moved => Tells(p, hist[r], effects[KeyOf[r]])
  BY SeenTells DEF OnceInv, Sound
<1> QED BY <1>1, <1>2, QuietSound

\* One that leaves the page alone.
LEMMA StaysSound ==
  ASSUME OnceInv, NEW r \in Runs, run[r].pc \in Working, Proceeds(r, page[r]),
         UNCHANGED <<page, effects, hist>>
  PROVE  \A s \in Runs : Sound(s)'
  BY QuietSound DEF OnceInv, Sound

-------------------------------------------------------------------------------
(* The start of a run. *)

\* A run that starts has done nothing, and comes to the first page.
LEMMA StartsSound ==
  ASSUME OnceInv, NEW r \in Runs, run[r].pc = "idle", Proceeds(r, page'[r]),
         run'[r].pc \notin {"restoring", "supervised"},
         \A s \in Runs \ {r} : page'[s] = page[s],
         page'[r] = page[r] \/ page'[r].at \in {0, EntryPage},
         Remember(r) \/ UNCHANGED hist, UNCHANGED effects
  PROVE  \A s \in Runs : Sound(s)'
<1>1. /\ hist'[r].autos = hist[r].autos /\ hist'[r].byHand = hist[r].byHand
      /\ hist'[r].moved = hist[r].moved
      /\ \A s \in Runs \ {r} : hist'[s] = hist[s]
  <2>1. CASE UNCHANGED hist
    BY <2>1
  <2>2. CASE Remember(r)
    <3> DEFINE h == [hist[r] EXCEPT !.before = Ended]
    <3>1. hist'[r] = h /\ \A s \in Runs \ {r} : hist'[s] = hist[s]
      BY <2>2, Typed DEF OnceInv, Remember
    <3>2. hist[r] \in HistType
      BY Typed DEF OnceInv
    <3> QED BY <3>1, <3>2 DEF HistType
  <2> QED BY <2>1, <2>2
<1>2. ASSUME ~ hist[r].moved
      PROVE  /\ \A n \in Confirms : ~ Did(hist'[r], n)
             /\ Once(hist'[r]) /\ Tells(page'[r], hist'[r], effects'[KeyOf[r]])
  <2>1. \A n \in Confirms : ~ Did(hist'[r], n)
    BY <1>1, <1>2 DEF OnceInv, Sound, Knows, Did
  <2>2. Once(hist'[r])
    BY <1>1, <1>2 DEF OnceInv, Sound, Once
  <2>3. page'[r].at \in {0, EntryPage} => \A n \in Confirms : ~ (n <= page'[r].at)
    BY DEF EntryPage, Steps
  <2>4. \A n \in Confirms : n <= page[r].at => effects[KeyOf[r]][n] > 0
    BY <1>2 DEF OnceInv, Sound, Tells
  <2> QED BY <2>1, <2>2, <2>3, <2>4 DEF Tells
<1>3. Sound(r)'
  BY <1>1, <1>2 DEF Sound, Knows, Proceeds
<1>4. Alone(r)
  BY <1>1 DEF Alone, Proceeds
<1> QED BY <1>3, <1>4, OthersSound

\* A run that a gate refuses.
LEMMA GatedSound ==
  ASSUME OnceInv, NEW r \in Runs, Gated(r)
  PROVE  \A s \in Runs : Sound(s)'
<1> DEFINE v == [Idle EXCEPT !.pc = "ended", !.result = "gated"]
<1>1. run'[r] = v /\ \A s \in Runs \ {r} : run'[s] = run[s]
  BY Typed DEF Gated, OnceInv
<1>2. v.pc = "ended" /\ v.result = "gated"
  BY DEF Idle
<1> HIDE DEF v
<1>3. Proceeds(r, page'[r]) /\ run'[r].pc = "ended"
  BY <1>1, <1>2 DEF Proceeds, Over
<1> QED BY <1>3, StartsSound DEF Gated, Unstarted

\* A run that ends as it starts.
LEMMA EndsAtStart ==
  ASSUME Inv, NEW r \in Runs, NEW code, code # "success", End(r, code)
  PROVE  Proceeds(r, page'[r]) /\ run'[r].pc = "ended"
<1>1. run'[r].pc = "ended"
  BY Typed DEF End, Idle
<1> QED BY <1>1, EndProceeds

\* A run that begins, or that finds no entry page.
LEMMA BeginsSound ==
  ASSUME OnceInv, NEW r \in Runs, NEW dry \in BOOLEAN, Begins(r, dry)
  PROVE  \A s \in Runs : Sound(s)'
<1>1. Inv /\ run[r].pc = "idle" /\ run[r].result = None /\ None # "success"
  BY DEF Begins, Unstarted, OnceInv, Inv, LocalOf, Codes
<1>2. PICK q \in Loads(r, EntryPage) \cup {Page(0, "other")} :
        /\ page' = [page EXCEPT ![r] = q]
        /\ \/ \E n \in {1, EntryPage + 1} : run' = [run EXCEPT ![r] = [AtStep(r, n) EXCEPT !.dry = dry]]
           \/ End(r, "precondition")
  BY DEF Begins
<1>3. q.at \in {0, EntryPage}
  BY LoadsAt, PageFields
<1>4. page'[r] = q /\ \A s \in Runs \ {r} : page'[s] = page[s]
  BY <1>1, <1>2, Typed
<1>5. Proceeds(r, page'[r]) /\ run'[r].pc \notin {"restoring", "supervised"}
  <2>1. CASE End(r, "precondition")
    BY <1>1, <2>1, EndsAtStart
  <2>2. ASSUME NEW n \in {1, EntryPage + 1},
               run' = [run EXCEPT ![r] = [AtStep(r, n) EXCEPT !.dry = dry]]
        PROVE  Proceeds(r, page'[r]) /\ run'[r].pc \notin {"restoring", "supervised"}
    <3> DEFINE u == AtStep(r, n)
               v == [u EXCEPT !.dry = dry]
    <3>1. n \in 1..(N + 1)
      BY DEF EntryPage
    <3>2. u \in RunType /\ u.pc \in {"observe", "final"} /\ u.result = None
      BY <1>1, <3>1, AtStepTyped
    <3>3. run'[r] = v /\ \A s \in Runs \ {r} : run'[s] = run[s]
      BY <1>1, <2>2, Typed
    <3> HIDE DEF u
    <3>4. v.pc \in {"observe", "final"} /\ v.result = None
      BY <3>2 DEF RunType
    <3> QED BY <1>1, <3>3, <3>4 DEF Proceeds
  <2> QED BY <1>2, <2>1, <2>2
<1> QED BY <1>1, <1>3, <1>4, <1>5, StartsSound DEF Begins

\* Gates, the ledger and the landing page.
LEMMA StartingSound ==
  ASSUME OnceInv, NEW r \in Runs, Starts(r)
  PROVE  \A s \in Runs : Sound(s)'
<1>1. CASE Refused(r)
  <2>1. Proceeds(r, page'[r]) /\ run'[r].pc = "ended"
    BY <1>1, EndsAtStart DEF Refused, OnceInv
  <2> QED BY <1>1, <2>1, StartsSound DEF Refused, Unstarted
<1>2. CASE Conflicts(r)
  <2>1. Proceeds(r, page'[r]) /\ run'[r].pc = "ended"
    BY <1>2, EndsAtStart DEF Conflicts, OnceInv
  <2> QED BY <1>2, <2>1, StartsSound DEF Conflicts, Unstarted
<1> QED BY <1>1, <1>2, GatedSound, BeginsSound DEF Starts

-------------------------------------------------------------------------------
(* The top of the loop, and the checkpoints. *)

\* A forbidden screen, or a state that stops the run.
LEMMA TopStopsSound ==
  ASSUME OnceInv, NEW r \in Runs, NEW p, TopStops(r, p)
  PROVE  \A s \in Runs : Sound(s)'
<1>1. Inv /\ p \in Seen(r) /\ run[r].pc \in Working
  BY DEF OnceInv, TopStops, Observes, Working
<1>2. Proceeds(r, p)
  BY <1>1, EndProceeds, StopsProceeds DEF TopStops
<1> QED BY <1>1, <1>2, ObservesSound DEF TopStops

\* A dismissed dialog.
LEMMA TopDismissesSound ==
  ASSUME OnceInv, NEW r \in Runs, NEW p, TopDismisses(r, p)
  PROVE  \A s \in Runs : Sound(s)'
<1>1. Inv /\ p \in Seen(r) /\ run[r].pc \in Working /\ p \in Pages
  BY Observed DEF OnceInv, TopDismisses, Observes, Working
<1>2. ~ hist[r].moved => Tells(p, hist[r], effects[KeyOf[r]])
  BY <1>1, SeenTells DEF OnceInv, Sound
<1>3. ~ hist[r].moved => Tells(page'[r], hist[r], effects[KeyOf[r]])
  BY <1>1, <1>2, RecoversTells DEF TopDismisses
<1>4. \A s \in Runs \ {r} : page'[s] = page[s]
  BY <1>1, Typed DEF TopDismisses, Recovers
<1>5. Proceeds(r, page'[r])
  <2>1. CASE End(r, "recoverable_exhausted")
    BY <1>1, <2>1, EndProceeds
  <2>2. CASE run' = [run EXCEPT ![r].recoveries = @ + 1]
    <3> DEFINE v == [run[r] EXCEPT !.recoveries = @ + 1]
    <3>1. run' = [run EXCEPT ![r] = v] /\ run[r] \in RunType /\ run[r].pc = "observe"
      BY <1>1, <2>2, Typed DEF TopDismisses, Observes
    <3>2. v.pc = "observe" /\ v.result = run[r].result /\ v.step = run[r].step
      BY <3>1 DEF RunType
    <3> HIDE DEF v
    <3> QED BY <1>1, <3>1, <3>2, LabelProceeds
  <2> QED BY <2>1, <2>2 DEF TopDismisses
<1> QED BY <1>1, <1>3, <1>4, <1>5, QuietSound DEF TopDismisses

\* A wait.
LEMMA TopWaitsSound ==
  ASSUME OnceInv, NEW r \in Runs, NEW p, TopWaits(r, p)
  PROVE  \A s \in Runs : Sound(s)'
<1>1. Inv /\ p \in Seen(r) /\ run[r].pc \in Working
  BY DEF OnceInv, TopWaits, Observes, Working
<1> QED BY <1>1, WaitsProceeds, ObservesSound DEF TopWaits

\* A step whose checkpoint holds already.
LEMMA TopSkipsSound ==
  ASSUME OnceInv, NEW r \in Runs, NEW p, TopSkips(r, p)
  PROVE  \A s \in Runs : Sound(s)'
<1> DEFINE n == run[r].step + 1
           u == AtStep(r, n)
           v == [u EXCEPT !.reauthed = FALSE]
<1>1. Inv /\ p \in Seen(r) /\ run[r].pc \in Working /\ run[r].step \in Steps
  BY Observed DEF OnceInv, TopSkips, Observes, Working
<1>2. n \in 1..(N + 1) /\ n # 1
  BY <1>1 DEF Steps
<1>3. u \in RunType /\ u.step = n /\ u.result = None /\ u.pc \in {"observe", "final"}
  BY <1>1, <1>2, AtStepTyped, AtWork
<1>4. run' = [run EXCEPT ![r] = v]
  BY DEF TopSkips
<1> HIDE DEF u
<1>5. v.step = n /\ v.result = None /\ v.pc \in {"observe", "final"}
  BY <1>3 DEF RunType
<1> HIDE DEF v
<1>6. Proceeds(r, p)
  BY <1>1, <1>2, <1>4, <1>5, ProceedsTo
<1> QED BY <1>1, <1>6, ObservesSound DEF TopSkips

\* A dry run stops, a risky step waits for its approval, any other step acts.
LEMMA TopDecidesSound ==
  ASSUME OnceInv, NEW r \in Runs, NEW p, TopDecides(r, p)
  PROVE  \A s \in Runs : Sound(s)'
<1>1. Inv /\ p \in Seen(r) /\ run[r].pc \in Working /\ run[r] \in RunType
  BY Typed DEF OnceInv, TopDecides, Observes, Working
<1>2. CASE End(r, "dry_run") \/ End(r, "blocked")
  BY <1>1, <1>2, EndProceeds, ObservesSound DEF TopDecides
<1>3. CASE run' = [run EXCEPT ![r].pc = "handoff", ![r].pending = FALSE, ![r].entry = p.at]
  <2> DEFINE v == [run[r] EXCEPT !.pc = "handoff", !.pending = FALSE, !.entry = p.at]
  <2>1. run' = [run EXCEPT ![r] = v]
    BY <1>1, <1>3, Typed
  <2>2. v.pc = "handoff" /\ v.result = run[r].result /\ v.step = run[r].step
    BY <1>1 DEF RunType
  <2> HIDE DEF v
  <2> QED BY <1>1, <2>1, <2>2, LabelProceeds, ObservesSound DEF TopDecides
<1>4. CASE run' = [run EXCEPT ![r].pc = "act", ![r].pending = FALSE]
  <2> DEFINE v == [run[r] EXCEPT !.pc = "act", !.pending = FALSE]
  <2>1. run' = [run EXCEPT ![r] = v]
    BY <1>1, <1>4, Typed
  <2>2. v.pc = "act" /\ v.result = run[r].result /\ v.step = run[r].step
    BY <1>1 DEF RunType
  <2> HIDE DEF v
  <2> QED BY <1>1, <2>1, <2>2, LabelProceeds, ObservesSound DEF TopDecides
<1> QED BY <1>2, <1>3, <1>4 DEF TopDecides

\* A checkpoint that holds.
LEMMA PassesSound ==
  ASSUME OnceInv, NEW r \in Runs, NEW p, Passes(r, p)
  PROVE  \A s \in Runs : Sound(s)'
<1>1. /\ Inv /\ p \in Seen(r) \cup {page[r]}
      /\ run[r].pc \in Working /\ run[r].step \in Steps
  BY Acting DEF OnceInv, Passes
<1> QED BY <1>1, NextStepProceeds, ObservesSound DEF Passes

\* A state that stops the run is not changed by the recover action.
LEMMA RecoversStops ==
  ASSUME Inv, NEW r \in Runs, NEW p \in Pages, NEW s, NEW back, Recovers(r, p, s),
         Stops(r, p, back), run[r].pc \in Working
  PROVE  Proceeds(r, page'[r])
<1>1. p.view \in {"expired", "supervisor"} => page'[r] = p
  BY Typed DEF Recovers
<1> QED BY <1>1, StopsProceeds

\* The same step is observed again.
LEMMA AgainProceeds ==
  ASSUME Inv, NEW r \in Runs, NEW q, run[r].pc \in Working,
         NEW l \in {"observe", "act", "check"}, run' = [run EXCEPT ![r].pc = l]
  PROVE  Proceeds(r, q)
<1> DEFINE v == [run[r] EXCEPT !.pc = l]
<1>1. run' = [run EXCEPT ![r] = v] /\ run[r] \in RunType
  BY Typed
<1>2. v.pc = l /\ v.result = run[r].result /\ v.step = run[r].step
  BY <1>1 DEF RunType
<1> HIDE DEF v
<1> QED BY <1>1, <1>2, LabelProceeds

\* The recover action of a class, and what becomes of the run.
LEMMA RecoversSound ==
  ASSUME OnceInv, NEW r \in Runs, NEW p \in Seen(r) \cup {page[r]}, NEW s, Recovers(r, p, s),
         run[r].pc \in Working, Proceeds(r, page'[r]), UNCHANGED effects,
         \A t \in Runs \ {r} : hist'[t] = hist[t],
         hist'[r].autos = hist[r].autos, hist'[r].byHand = hist[r].byHand,
         hist'[r].moved = hist[r].moved
  PROVE  \A t \in Runs : Sound(t)'
<1>1. Inv /\ p \in Pages
  BY SeenArePages DEF OnceInv
<1>2. \A t \in Runs \ {r} : page'[t] = page[t]
  BY <1>1, Typed DEF Recovers
<1>3. ~ hist[r].moved => Tells(p, hist[r], effects[KeyOf[r]])
  BY <1>1, SeenTells DEF OnceInv, Sound
<1>4. ~ hist[r].moved => Tells(page'[r], hist[r], effects[KeyOf[r]])
  BY <1>1, <1>3, RecoversTells
<1> QED BY <1>2, <1>4, QuietSound

\* A checkpoint that does not hold.
LEMMA FailsSound ==
  ASSUME OnceInv, NEW r \in Runs, NEW p, Fails(r, p)
  PROVE  \A s \in Runs : Sound(s)'
<1>1. /\ Inv /\ p \in Seen(r) /\ p \in Pages /\ run[r].pc \in Working
      /\ Recovers(r, p, 0) /\ hist[r] \in HistType
  BY Acting, SeenArePages, Typed DEF OnceInv, Fails
<1>2. Proceeds(r, page'[r])
  <2>1. CASE Stops(r, p, "observe")
    BY <1>1, <2>1, RecoversStops
  <2>2. CASE run' = [run EXCEPT ![r].pc = "observe"]
    BY <1>1, <2>2, AgainProceeds
  <2>3. ASSUME NEW code \in {"ambiguous", "wrong_screen", "checkpoint"}, End(r, code)
        PROVE  Proceeds(r, page'[r])
    BY <1>1, <2>3, EndProceeds
  <2> QED BY <2>1, <2>2, <2>3 DEF Fails
<1>3. /\ \A s \in Runs \ {r} : hist'[s] = hist[s]
      /\ hist'[r].autos = hist[r].autos /\ hist'[r].byHand = hist[r].byHand
      /\ hist'[r].moved = hist[r].moved
  <2> DEFINE h == [hist[r] EXCEPT !.unsure = @ \/ run[r].step \in Confirms]
  <2>1. hist'[r] = h /\ \A s \in Runs \ {r} : hist'[s] = hist[s]
    BY <1>1, Typed DEF Fails
  <2> QED BY <1>1, <2>1 DEF HistType
<1> QED BY <1>1, <1>2, <1>3, RecoversSound DEF Fails

\* No locator matches.
LEMMA MissesSound ==
  ASSUME OnceInv, NEW r \in Runs, Misses(r)
  PROVE  \A s \in Runs : Sound(s)'
<1>1. Inv /\ page[r] \in Pages /\ run[r].pc \in Working
  BY Acting DEF OnceInv, Misses
<1>2. PICK s \in 0..1 : Recovers(r, page[r], s)
  BY DEF Misses
<1>3. Proceeds(r, page'[r])
  <2>1. CASE Stops(r, page[r], "observe")
    BY <1>1, <1>2, <2>1, RecoversStops
  <2>2. CASE run' = [run EXCEPT ![r].pc = "observe"]
    BY <1>1, <2>2, AgainProceeds
  <2>3. CASE End(r, "business") \/ End(r, "locator_miss")
    BY <1>1, <2>3, EndProceeds
  <2> QED BY <2>1, <2>2, <2>3 DEF Misses
<1> QED BY <1>1, <1>2, <1>3, RecoversSound DEF Misses

\* The success checkpoint is read on the last page, which tells that every
\* Confirm is on record.
LEMMA FinishesSound ==
  ASSUME OnceInv, NEW r \in Runs, Finishes(r)
  PROVE  \A s \in Runs : Sound(s)'
<1>1. Inv /\ page[r] \in Pages /\ run[r].pc \in Working /\ Recovers(r, page[r], 0)
  BY Typed DEF OnceInv, Finishes, Working
<1>2. CASE Stops(r, page[r], "final")
  BY <1>1, <1>2, RecoversStops, RecoversSound DEF Finishes
<1>3. CASE End(r, "wrong_screen") \/ End(r, "checkpoint") \/ End(r, "output_invalid")
  BY <1>1, <1>3, EndProceeds, RecoversSound DEF Finishes
<1>4. CASE Shows(N, page[r]) /\ End(r, "success")
  <2>1. run'[r].pc = "ended" /\ \A s \in Runs \ {r} : run'[s] = run[s]
    BY <1>1, <1>4, Typed DEF End, Idle
  <2>2. /\ \A s \in Runs \ {r} : page'[s] = page[s]
        /\ UNCHANGED <<effects, hist>>
    BY <1>1, Typed DEF Recovers, Finishes
  <2>3. ASSUME ~ hist[r].moved
        PROVE  \A n \in Confirms : effects[KeyOf[r]][n] > 0
    <3>1. page[r].at = N /\ \A n \in Confirms : n <= N
      BY <1>4 DEF Shows, Steps
    <3> QED BY <2>3, <3>1 DEF OnceInv, Sound, Tells
  <2>4. ~ hist[r].moved => Tells(page'[r], hist[r], effects[KeyOf[r]])
    BY <1>1, RecoversTells DEF OnceInv, Sound
  <2>5. Sound(r)'
    BY <2>1, <2>2, <2>3, <2>4 DEF OnceInv, Sound, Knows, Over
  <2>6. Alone(r)
    BY <2>1, <2>2 DEF Alone
  <2> QED BY <2>5, <2>6, OthersSound
<1> QED BY <1>2, <1>3, <1>4 DEF Finishes

-------------------------------------------------------------------------------
(* Requests. *)

\* The core's records grow, by the effect of the request at least.
LEMMA RecordsGrow ==
  ASSUME Inv, NEW r \in Runs, NEW n, NEW hit \in BOOLEAN, hit => n \in Confirms,
         Records(r, n, hit)
  PROVE  /\ \A k \in Keys, m \in Confirms : effects[k][m] > 0 => effects'[k][m] > 0
         /\ hit => effects'[KeyOf[r]][n] > 0
<1>1. CASE ~ hit
  BY <1>1 DEF Records
<1>2. CASE hit
  <2> DEFINE g == [effects[KeyOf[r]] EXCEPT ![n] = Up(@)]
  <2>1. effects \in [Keys -> [Confirms -> 0..Many]] /\ KeyOf[r] \in Keys
    BY Typed
  <2>2. effects' = [effects EXCEPT ![KeyOf[r]] = g]
    BY <1>2 DEF Records
  <2>3. g[n] > 0 /\ \A m \in Confirms : effects[KeyOf[r]][m] > 0 => g[m] > 0
    <3>1. \A x \in 0..Many : Up(x) > 0
      BY DEF Up
    <3>2. effects[KeyOf[r]] \in [Confirms -> 0..Many]
      BY <2>1
    <3> QED BY <1>2, <3>1, <3>2
  <2> HIDE DEF g
  <2> QED BY <2>1, <2>2, <2>3
<1> QED BY <1>1, <1>2

\* A request that automation or the person makes: its effect is the first one of
\* that step.
LEMMA RequestSound ==
  ASSUME OnceInv, NEW r \in Runs, run[r].pc \in Working, NEW n \in Steps,
         NEW reply \in Replies(r, n, page[r]),
         ~ hist[r].moved =>
           \/ Shows(n - 1, page[r])
           \/ n \notin Confirms /\ n = 1 /\ \A m \in Confirms : ~ Did(hist[r], m),
         page' = [page EXCEPT ![r] = reply.to] \/ page' = [page EXCEPT ![r] = reply.keep],
         Records(r, n, reply.hit), Proceeds(r, page'[r]),
         \A s \in Runs \ {r} : hist'[s] = hist[s], hist'[r].moved = hist[r].moved,
         ~ hist[r].moved => Once(hist'[r]),
         \A m \in Confirms : Did(hist'[r], m) => Did(hist[r], m) \/ (reply.hit /\ m = n),
         Navigates /\ run[r].step = 1 => ~ reply.hit
  PROVE  \A s \in Runs : Sound(s)'
<1>1. Inv /\ page[r] \in Pages /\ reply.hit \in BOOLEAN /\ (reply.hit => n \in Confirms)
  BY Typed, RepliesAreTyped DEF OnceInv
<1>2. /\ page'[r] \in {reply.to, reply.keep}
      /\ \A s \in Runs \ {r} : page'[s] = page[s]
  BY <1>1, Typed
<1>3. /\ \A k \in Keys, m \in Confirms : effects[k][m] > 0 => effects'[k][m] > 0
      /\ reply.hit => effects'[KeyOf[r]][n] > 0
  BY <1>1, RecordsGrow
<1>4. Alone(r)
  BY <1>2, <1>3 DEF Alone, Proceeds
<1>5. ASSUME ~ hist[r].moved PROVE Tells(page'[r], hist'[r], effects'[KeyOf[r]])
  <2>1. Tells(page[r], hist[r], effects[KeyOf[r]])
    BY <1>5 DEF OnceInv, Sound
  <2>2. \A m \in Confirms : effects[KeyOf[r]][m] > 0 => effects'[KeyOf[r]][m] > 0
    BY <1>3
  <2>3. /\ Tells(reply.to, hist'[r], effects'[KeyOf[r]])
        /\ Tells(reply.keep, hist'[r], effects'[KeyOf[r]])
    BY <1>1, <1>3, <1>5, <2>1, <2>2, RepliesTell, ZenonT(60)
  <2> QED BY <1>2, <2>3
<1> QED BY <1>4, <1>5, GoesOnSound

\* Automation's request.
LEMMA ActingSound ==
  ASSUME OnceInv, NEW r \in Runs, run[r].pc = "act", NEW n, n = run[r].step,
         Matches(n, page[r]), NEW reply \in Replies(r, n, page[r]),
         page' = [page EXCEPT ![r] = reply.to] \/ page' = [page EXCEPT ![r] = reply.keep],
         AutoPosts(r, n, reply.hit), Proceeds(r, page'[r])
  PROVE  \A s \in Runs : Sound(s)'
<1>1. /\ Inv /\ run[r].pc \in Working /\ n \in Steps
      /\ page[r] \in Pages /\ hist[r] \in HistType
  BY Acting, Typed DEF OnceInv
<1>2. reply.hit \in BOOLEAN /\ (reply.hit => n \in Confirms)
  BY <1>1, RepliesAreTyped
<1>3. reply.hit => Shows(n - 1, page[r]) /\ ~ (Navigates /\ n = 1)
  BY <1>2 DEF Matches
<1>4. ~ hist[r].moved =>
        \/ Shows(n - 1, page[r])
        \/ n \notin Confirms /\ n = 1 /\ \A m \in Confirms : ~ Did(hist[r], m)
  BY <1>1, AtWork DEF Matches, OnceInv, Sound, Knows
<1>5. CASE ~ reply.hit
  <2>1. UNCHANGED hist
    BY <1>5 DEF AutoPosts
  <2>2. ~ hist[r].moved => Once(hist[r])
    BY DEF OnceInv, Sound
  <2> QED BY <1>1, <1>4, <1>5, <2>1, <2>2, RequestSound DEF AutoPosts
<1>6. CASE reply.hit
  <2> DEFINE autos == [hist[r].autos EXCEPT ![n] = Up(@)]
             h == [hist[r] EXCEPT !.autos = autos]
  <2>1. hist'[r] = h /\ \A s \in Runs \ {r} : hist'[s] = hist[s]
    BY <1>1, <1>6, Typed DEF AutoPosts
  <2>2. hist[r].autos \in [Confirms -> 0..Many] /\ n \in Confirms
    BY <1>1, <1>2, <1>6 DEF HistType
  <2>3. /\ autos[n] = Up(hist[r].autos[n])
        /\ \A m \in Confirms : m # n => autos[m] = hist[r].autos[m]
    BY <2>2
  <2> HIDE DEF autos
  <2>4. h.autos = autos /\ h.byHand = hist[r].byHand /\ h.moved = hist[r].moved
    BY <1>1 DEF HistType
  <2> HIDE DEF h
  <2>5. \A m \in Confirms : Did(h, m) => Did(hist[r], m) \/ m = n
    BY <2>3, <2>4 DEF Did
  <2>6. ASSUME ~ hist[r].moved PROVE Once(h)
    <3>1. Tells(page[r], hist[r], effects[KeyOf[r]]) /\ Once(hist[r])
      BY <2>6 DEF OnceInv, Sound
    <3>2. ~ Did(hist[r], n)
      BY <1>1, <1>3, <1>6, <3>1, HitsOnce
    <3>3. hist[r].autos[n] = 0 /\ n \notin hist[r].byHand /\ Up(0) = 1
      BY <2>2, <3>2 DEF Did, Up
    <3>4. \A m \in Confirms : m # n => h.autos[m] + (IF m \in h.byHand THEN 1 ELSE 0) <= 1
      BY <2>3, <2>4, <3>1 DEF Once
    <3>5. h.autos[n] + (IF n \in h.byHand THEN 1 ELSE 0) <= 1
      BY <2>3, <2>4, <3>3
    <3> QED BY <3>4, <3>5 DEF Once
  <2> QED
    BY <1>1, <1>3, <1>4, <1>6, <2>1, <2>4, <2>5, <2>6, RequestSound, ZenonT(60)
       DEF AutoPosts
<1> QED BY <1>2, <1>5, <1>6

\* act() answers in time.
LEMMA ActsSound ==
  ASSUME OnceInv, NEW r \in Runs, Acts(r)
  PROVE  \A s \in Runs : Sound(s)'
<1>1. Inv /\ run[r].pc = "act" /\ run[r].pc \in Working /\ Matches(run[r].step, page[r])
  BY DEF OnceInv, Acts, Working
<1>2. PICK reply \in Replies(r, run[r].step, page[r]) :
        /\ page' = [page EXCEPT ![r] = reply.to]
        /\ AutoPosts(r, run[r].step, reply.hit)
        /\ Waits(r) \/ run' = [run EXCEPT ![r].pc = "check"]
  BY DEF Acts
<1>3. Proceeds(r, page'[r])
  BY <1>1, <1>2, WaitsProceeds, AgainProceeds
<1> QED BY <1>1, <1>2, <1>3, ActingSound

\* act() times out: whatever became of the request, the form is spent with it.
LEMMA TimesOutSound ==
  ASSUME OnceInv, NEW r \in Runs, TimesOut(r)
  PROVE  \A s \in Runs : Sound(s)'
<1>1. Inv /\ run[r].pc = "act" /\ run[r].pc \in Working /\ Matches(run[r].step, page[r])
  BY DEF OnceInv, TimesOut, Working
<1>2. Proceeds(r, page'[r]) /\ Proceeds(r, page[r])
  BY <1>1, WaitsProceeds DEF TimesOut
<1>3. CASE UNCHANGED <<page, effects, hist>>
  BY <1>1, <1>2, <1>3, StaysSound
<1>4. ASSUME NEW reply \in Replies(r, run[r].step, page[r]),
             page' = [page EXCEPT ![r] = reply.keep] \/ page' = [page EXCEPT ![r] = reply.to],
             AutoPosts(r, run[r].step, reply.hit)
      PROVE  \A s \in Runs : Sound(s)'
  BY <1>1, <1>2, <1>4, ActingSound
<1> QED BY <1>3, <1>4 DEF TimesOut

\* The policy, outputs that do not parse, a supervisor, a rejected await.
LEMMA FailuresSound ==
  ASSUME OnceInv, NEW r \in Runs,
         PolicyStops(r) \/ Misreads(r) \/ Supervises(r) \/ Throws(r)
  PROVE  \A s \in Runs : Sound(s)'
<1>1. Inv /\ run[r].pc \in Working
  BY LiveWorks DEF OnceInv, PolicyStops, Misreads, Supervises, Throws, Working, WithPerson
<1>2. /\ \E code \in {"policy", "output_invalid", "escalated", "uncaught"} : End(r, code)
      /\ UNCHANGED <<page, effects, hist>>
  BY DEF PolicyStops, Misreads, Supervises, Throws
<1> QED BY <1>1, <1>2, EndProceeds, StaysSound

\* A crash loses the locals, and nothing else.
LEMMA CrashesSound ==
  ASSUME OnceInv, NEW r \in Runs, Crashes(r)
  PROVE  \A s \in Runs : Sound(s)'
<1> DEFINE v == [Idle EXCEPT !.pc = "crashed", !.dry = run[r].dry]
<1>1. /\ Inv /\ run[r].pc \in Working /\ run' = [run EXCEPT ![r] = v]
      /\ UNCHANGED <<page, effects, hist>>
  BY LiveWorks DEF OnceInv, Crashes
<1>2. v.pc = "crashed" /\ v.result = None
  BY DEF Idle
<1> HIDE DEF v
<1>3. Proceeds(r, page[r])
  BY <1>1, <1>2, ProceedsTo DEF Over
<1> QED BY <1>1, <1>3, StaysSound

-------------------------------------------------------------------------------
(* The person. *)

\* The risky step is skipped, lost or done.
LEMMA ReconcilesProceeds ==
  ASSUME Inv, NEW r \in Runs, NEW q, NEW p, NEW answer, NEW held,
         Reconciles(r, p, answer, held), run[r].pc \in Working, run[r].step \in Steps
  PROVE  Proceeds(r, q)
<1>1. CASE run' = [run EXCEPT ![r] = AtStep(r, run[r].step + 1)]
  BY <1>1, NextStepProceeds
<1>2. CASE End(r, "precondition_lost")
  BY <1>2, EndProceeds
<1>3. CASE run' = [run EXCEPT ![r].pc = "act", ![r].approved = TRUE]
  <2> DEFINE v == [run[r] EXCEPT !.pc = "act", !.approved = TRUE]
  <2>1. run' = [run EXCEPT ![r] = v] /\ run[r] \in RunType
    BY <1>3, Typed
  <2>2. v.pc = "act" /\ v.result = run[r].result /\ v.step = run[r].step
    BY <2>1 DEF RunType
  <2> HIDE DEF v
  <2> QED BY <2>1, <2>2, LabelProceeds
<1> QED BY <1>1, <1>2, <1>3 DEF Reconciles

\* The step comes back from the person.
LEMMA HandsBackSound ==
  ASSUME OnceInv, NEW r \in Runs, NEW answer \in Answers, HandsBack(r, answer)
  PROVE  \A s \in Runs : Sound(s)'
<1>1. /\ Inv /\ run[r].pc = "handoff" /\ run[r].pc \in Working /\ run[r] \in RunType
      /\ run[r].step \in Steps /\ page[r] \in Pages /\ hist[r] \in HistType
  BY AtWork, Typed DEF OnceInv, HandsBack, Working, WithPerson
<1>2. /\ \A s \in Runs \ {r} : hist'[s] = hist[s]
      /\ hist'[r].autos = hist[r].autos /\ hist'[r].byHand = hist[r].byHand
      /\ hist'[r].moved = hist[r].moved
  <2> DEFINE h == [hist[r] EXCEPT !.asked = @ \cup {run[r].step}]
  <2>1. UNCHANGED hist \/ hist' = [hist EXCEPT ![r] = h]
    BY <1>1, Typed DEF HandsBack, Ask
  <2>2. h.autos = hist[r].autos /\ h.byHand = hist[r].byHand /\ h.moved = hist[r].moved
    BY <1>1 DEF HistType
  <2> HIDE DEF h
  <2> QED BY <1>1, <2>1, <2>2, Typed
<1>3. CASE UNCHANGED page /\ (End(r, "aborted") \/ Stops(r, page[r], "handback"))
  <2>1. Proceeds(r, page'[r])
    BY <1>1, <1>3, EndProceeds, StopsProceeds
  <2> QED BY <1>1, <1>2, <1>3, <2>1, QuietSound DEF HandsBack, OnceInv, Sound
<1>4. CASE /\ UNCHANGED page /\ page[r].view = "expired"
           /\ run' = [run EXCEPT ![r].pc = "restoring", ![r].back = "handback",
                                 ![r].answer = answer, ![r].entry = page[r].at]
  <2> DEFINE v == [run[r] EXCEPT !.pc = "restoring", !.back = "handback", !.answer = answer,
                                 !.entry = page[r].at]
  <2>1. run'[r] = v /\ \A s \in Runs \ {r} : run'[s] = run[s]
    BY <1>1, <1>4, Typed
  <2>2. v.pc = "restoring" /\ v.result = run[r].result /\ v.step = run[r].step
    BY <1>1 DEF RunType
  <2> HIDE DEF v
  <2>3. run[r].result = None /\ None # "success" /\ "expired" \notin Readable
    BY <1>1, AtWork DEF Codes, Readable
  <2>4. Proceeds(r, page'[r])
    BY <1>4, <2>1, <2>2, <2>3 DEF Proceeds
  <2> QED BY <1>1, <1>2, <1>4, <2>4, QuietSound DEF HandsBack, OnceInv, Sound
<1>5. CASE /\ Recovers(r, page[r], 0)
           /\ \E held \in EntryHeld(run[r].entry, page[r]) : Reconciles(r, page[r], answer, held)
  <2>1. Proceeds(r, page'[r])
    BY <1>1, <1>5, ReconcilesProceeds
  <2> QED BY <1>1, <1>2, <1>5, <2>1, RecoversSound DEF HandsBack
<1> QED BY <1>3, <1>4, <1>5 DEF HandsBack

\* The session is restored.
LEMMA RestoresSound ==
  ASSUME OnceInv, NEW r \in Runs, NEW answer, Restores(r, answer)
  PROVE  \A s \in Runs : Sound(s)'
<1>1. Inv /\ run[r].pc = "restoring" /\ run[r].pc \in Working /\ run[r] \in RunType
  BY AtWork DEF OnceInv, Restores, Working, WithPerson
<1>2. CASE End(r, "aborted") \/ End(r, "checkpoint")
  BY <1>1, <1>2, EndProceeds, StaysSound DEF Restores
<1>3. CASE run' = [run EXCEPT ![r].pc = "observe", ![r].reauthed = TRUE]
  <2> DEFINE v == [run[r] EXCEPT !.pc = "observe", !.reauthed = TRUE]
  <2>1. run' = [run EXCEPT ![r] = v]
    BY <1>1, <1>3, Typed
  <2>2. v.pc = "observe" /\ v.result = run[r].result /\ v.step = run[r].step
    BY <1>1 DEF RunType
  <2> HIDE DEF v
  <2> QED BY <1>1, <2>1, <2>2, LabelProceeds, StaysSound DEF Restores
<1>4. CASE /\ run[r].back = "handback"
           /\ Reconciles(r, Page(run[r].entry, "expired"), run[r].answer, TRUE)
  <2>1. run[r].step \in Steps
    BY <1>1, <1>4 DEF Inv, LocalOf
  <2> QED BY <1>1, <1>4, <2>1, ReconcilesProceeds, StaysSound DEF Restores
<1> QED BY <1>2, <1>3, <1>4 DEF Restores

\* The person confirms the form of a handoff; the other pages that a person is
\* asked about have none.
LEMMA PersonPostsSound ==
  ASSUME OnceInv, NEW r \in Runs, PersonPosts(r)
  PROVE  \A s \in Runs : Sound(s)'
<1> DEFINE n == page[r].at + 1
<1>1. /\ Inv /\ run[r].pc \in WithPerson /\ run[r].pc \in Working /\ n \in Confirms /\ n \in Steps
      /\ page[r] \in Pages /\ hist[r] \in HistType /\ Shows(n - 1, page[r])
  BY Typed DEF OnceInv, PersonPosts, Working
<1>2. PICK reply \in Replies(r, n, page[r]) :
        /\ page' = [page EXCEPT ![r] = reply.to]
        /\ Records(r, n, reply.hit)
        /\ hist' = IF reply.hit THEN [hist EXCEPT ![r].byHand = @ \cup {n}] ELSE hist
  BY DEF PersonPosts
<1> HIDE DEF n
<1>3. CASE hist[r].moved
  <2>1. hist'[r].moved /\ \A s \in Runs \ {r} : hist'[s] = hist[s]
    <3> DEFINE h == [hist[r] EXCEPT !.byHand = @ \cup {n}]
    <3>1. UNCHANGED hist \/ hist' = [hist EXCEPT ![r] = h]
      BY <1>1, <1>2, Typed
    <3>2. h.moved = hist[r].moved
      BY <1>1 DEF HistType
    <3> HIDE DEF h
    <3> QED BY <1>1, <1>3, <3>1, <3>2, Typed
  <2>2. reply.hit \in BOOLEAN
    BY <1>1, RepliesAreTyped
  <2>3. Alone(r)
    BY <1>1, <1>2, <2>1, <2>2, RecordsGrow, Typed DEF Alone, PersonPosts
  <2>4. Sound(r)'
    BY <2>1 DEF Sound
  <2> QED BY <2>3, <2>4, OthersSound
<1>4. CASE ~ hist[r].moved
  <2>1. run[r].pc = "handoff"
    BY <1>1, <1>4 DEF OnceInv, Sound, Knows, Shows, WithPerson
  <2>2. ~ (Navigates /\ run[r].step = 1) /\ run[r].result = None /\ None # "success"
    BY <1>1, <2>1, AtWork DEF Inv, LocalOf, Codes
  <2>3. Proceeds(r, page'[r])
    BY <2>1, <2>2 DEF Proceeds, PersonPosts
  <2>4. Once(hist[r]) /\ Tells(page[r], hist[r], effects[KeyOf[r]])
    BY <1>4 DEF OnceInv, Sound
  <2>5. CASE ~ reply.hit
    BY <1>1, <1>2, <2>2, <2>3, <2>4, <2>5, RequestSound
  <2>6. CASE reply.hit
    <3> DEFINE h == [hist[r] EXCEPT !.byHand = @ \cup {n}]
    <3>1. hist'[r] = h /\ \A s \in Runs \ {r} : hist'[s] = hist[s]
      BY <1>1, <1>2, <2>6, Typed
    <3>2. h.autos = hist[r].autos /\ h.byHand = hist[r].byHand \cup {n} /\ h.moved = hist[r].moved
      BY <1>1 DEF HistType
    <3> HIDE DEF h
    <3>3. ~ Did(hist[r], n)
      BY <1>1, <2>4, <2>6, HitsOnce
    <3>4. hist[r].autos[n] = 0
      BY <1>1, <3>3 DEF Did, HistType
    <3>5. Once(h)
      BY <2>4, <3>2, <3>4 DEF Once
    <3>6. \A m \in Confirms : Did(h, m) => Did(hist[r], m) \/ m = n
      BY <3>2 DEF Did
    <3> QED BY <1>1, <1>2, <2>2, <2>3, <2>6, <3>1, <3>2, <3>5, <3>6, RequestSound, ZenonT(60)
  <2> QED
    <3>1. reply.hit \in BOOLEAN
      BY <1>1, RepliesAreTyped
    <3> QED BY <2>5, <2>6, <3>1
<1> QED BY <1>3, <1>4

\* The person goes to another page: nothing more is said of this run.
LEMMA PersonGoesSound ==
  ASSUME OnceInv, NEW r \in Runs, NEW k, PersonGoes(r, k)
  PROVE  \A s \in Runs : Sound(s)'
<1> DEFINE h == [hist[r] EXCEPT !.moved = TRUE]
<1>1. /\ hist'[r] = h /\ hist[r] \in HistType
      /\ \A s \in Runs \ {r} : hist'[s] = hist[s] /\ page'[s] = page[s]
  BY Typed DEF OnceInv, PersonGoes
<1>2. h.moved
  BY <1>1 DEF HistType
<1>3. Sound(r)' /\ Alone(r)
  BY <1>1, <1>2 DEF Sound, Alone, PersonGoes
<1> QED BY <1>3, OthersSound

-------------------------------------------------------------------------------
(* The theorems. *)

\* Nothing is done in the first state.
LEMMA InitOnce == Init => OnceInv
<1> SUFFICES ASSUME Init PROVE OnceInv
  OBVIOUS
<1>1. ASSUME NEW r \in Runs PROVE Sound(r)
  <2>1. run[r] = Idle /\ page[r] = Page(0, "form") /\ hist[r] = NoHistory
    BY DEF Init
  <2>2. Once(hist[r]) /\ \A n \in Confirms : ~ Did(hist[r], n)
    BY <2>1 DEF NoHistory, Once, Did
  <2>3. \A n \in Confirms : ~ (n <= page[r].at)
    <3>1. page[r].at = 0
      BY <2>1, PageFields
    <3> QED BY <3>1 DEF Steps
  <2>4. Idle.pc = "idle" /\ Idle.result = None /\ None # "success"
    BY DEF Idle, Codes
  <2> QED BY <2>1, <2>2, <2>3, <2>4 DEF Sound, Tells, Knows
<1> QED BY <1>1, InitInv DEF OnceInv

\* Every step keeps the invariant.
LEMMA NextOnce == OnceInv /\ [Next]_vars => OnceInv'
<1> SUFFICES ASSUME OnceInv, [Next]_vars PROVE \A s \in Runs : Sound(s)'
  BY NextInv DEF OnceInv
<1>1. CASE UNCHANGED vars
  BY <1>1 DEF vars, OnceInv, Sound, Tells, Knows
<1>2. ASSUME NEW r \in Runs, Starts(r) PROVE \A s \in Runs : Sound(s)'
  BY <1>2, StartingSound
<1>3. ASSUME NEW r \in Runs, EngineStep(r) PROVE \A s \in Runs : Sound(s)'
  <2>1. ASSUME NEW p, TopStops(r, p) \/ TopDismisses(r, p) \/ TopWaits(r, p)
               \/ TopSkips(r, p) \/ TopDecides(r, p) \/ Passes(r, p) \/ Fails(r, p)
        PROVE  \A s \in Runs : Sound(s)'
    BY <2>1, TopStopsSound, TopDismissesSound, TopWaitsSound, TopSkipsSound, TopDecidesSound,
       PassesSound, FailsSound
  <2>2. CASE PolicyStops(r) \/ Acts(r) \/ TimesOut(r) \/ Misses(r) \/ Misreads(r)
             \/ Finishes(r) \/ Supervises(r)
    BY <2>2, FailuresSound, ActsSound, TimesOutSound, MissesSound, FinishesSound
  <2>3. ASSUME NEW answer \in Answers, HandsBack(r, answer) \/ Restores(r, answer)
        PROVE  \A s \in Runs : Sound(s)'
    BY <2>3, HandsBackSound, RestoresSound
  <2> QED BY <1>3, <2>1, <2>2, <2>3 DEF EngineStep
<1>4. ASSUME NEW r \in Runs, PersonStep(r) PROVE \A s \in Runs : Sound(s)'
  BY <1>4, PersonPostsSound, PersonGoesSound DEF PersonStep
<1>5. ASSUME NEW r \in Runs, Throws(r) \/ Crashes(r) PROVE \A s \in Runs : Sound(s)'
  BY <1>5, FailuresSound, CrashesSound
<1> QED BY <1>1, <1>2, <1>3, <1>4, <1>5 DEF Next, Done

\* The invariant holds in every state of the replay engine.
THEOREM OnceInvariant == Spec => []OnceInv
  BY InitOnce, NextOnce, PTL DEF Spec

\* One run and its person never make the core act twice for one step, unless the
\* person has left the page of the handoff: retries after a timeout and a second
\* Confirm find the form's token consumed (FormTokenStore.consume).
THEOREM OneEffect == Spec => []OnceUnlessMoved
<1>1. OnceInv => OnceUnlessMoved
  BY DEF OnceInv, Sound, Once, OnceUnlessMoved
<1> QED BY <1>1, OnceInvariant, PTL

\* A success is real: the core has a record of every Confirm of the key, unless
\* the person has gone to other pages (the success checkpoint reads the page).
THEOREM RealSuccess == Spec => []SuccessIsReal
<1>1. OnceInv => SuccessIsReal
  BY DEF OnceInv, Sound, Knows, SuccessIsReal
<1> QED BY <1>1, OnceInvariant, PTL
===============================================================================
