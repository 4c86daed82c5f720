------------------------------ MODULE BankProofs ------------------------------
(***************************************************************************)
(* Proofs about BankConsole and BankPages: the types, the agreement of the *)
(* tables, that every effect was reviewed, and what the pages show of the  *)
(* core, for any members, disputes, cards, tellers, searches, size of a    *)
(* page and number of requests that wait for their bodies.                 *)
(***************************************************************************)
EXTENDS BankPages, SubsequenceProofs, FiniteSetTheorems

---------------------------------------------------------------------------
(* Types.                                                                  *)

LEMMA InitTypes == Init => TypeOK
<1> SUFFICES ASSUME Init PROVE TypeOK
  OBVIOUS
<1>1. now \in 0..MaxClock /\ lastSid \in 0..MaxSessions /\ lastTok \in 0..MaxTokens /\ seq \in Nat
  BY BoundsAssumption DEF Init
<1>2. disputes \in [Disputes -> {"open", "filed"}] /\ cards \in [Cards -> Card]
  BY DEF Init, SeedDisputes, SeedCards, Card, NoCase
<1>3. /\ sess \in [Sids -> Session \cup {None}] /\ tokens \in [Toks -> Issued \cup {None}]
      /\ reviews \in [Toks -> Action \cup {None}] /\ filings \in [Disputes -> Members \cup {None}]
      /\ cardActions \in [Cards -> Row \cup {None}] /\ req \in [Slots -> Request \cup {None}]
  BY DEF Init
<1>4. subAccounts \in [Members -> Nat]
  BY DEF Init
<1>q. QED BY <1>1, <1>2, <1>3, <1>4 DEF TypeOK

LEMMA SeedsTyped == SeedDisputes \in [Disputes -> {"open", "filed"}] /\ SeedCards \in [Cards -> Card]
  BY DEF SeedDisputes, SeedCards, Card, NoCase

\* What the gate leaves of a session is a session or nothing.
LEMMA GateTyped ==
  ASSUME TypeOK, NEW c \in Cookies, NEW ea \in ExpireAfter
  PROVE  AfterGate(c, ea) \in [Sids -> Session \cup {None}]
<1>1. CASE RequireAuth /\ c # None
  <2>1. c \in Sids
    BY <1>1, BoundsAssumption DEF Cookies, TypeOK, Sids
  <2>2. ASSUME NEW s \in Session PROVE AfterHit(s, ea) \in Session \cup {None}
    <3>a. s.hits \in 0..HitCap /\ HitCap \in Nat
      BY BoundsAssumption DEF Session
    <3>1. (IF s.hits < HitCap THEN s.hits + 1 ELSE HitCap) \in 0..HitCap
      BY <3>a
    <3>2. (IF ea = None THEN s.limit ELSE ea) \in Limits \cup {NoLimit}
      BY DEF Session, ExpireAfter
    <3>q. QED BY <3>1, <3>2 DEF AfterHit, Session
  <2>3. AfterGet(sess[c], ea) \in Session \cup {None}
    BY <2>1, <2>2 DEF AfterGet, TypeOK
  <2>q. QED BY <1>1, <2>1, <2>3 DEF AfterGate, TypeOK
<1>2. CASE ~(RequireAuth /\ c # None)
  BY <1>2 DEF AfterGate, TypeOK
<1>q. QED BY <1>1, <1>2

\* The actions a review page may issue a token for.
Legit(a) ==
  /\ a \in Action /\ a.member \notin Restricted
  /\ a.form = "dispute" => DisputeOf[a.key] = a.member
  /\ a.form \in {"block", "reissue"} => CardOf[a.key] = a.member /\ a.key \notin Business

\* What it looks at in the card before it does.
Shown(a) ==
  /\ a.form = "block" => cards[a.key].status # "blocked"
  /\ a.form = "reissue" => cards[a.key].status = "blocked" /\ cards[a.key].ready

\* What the requests before their bodies, and all other steps but the bodies and the
\* reset, do to tokens and requests.
Idles == UNCHANGED <<tokens, lastTok, reviews, core, req>>
Arrives(r, a, tok) ==
  /\ req[r] = None /\ tokens[tok] # None
  /\ req' = [req EXCEPT ![r] = [action |-> a, tok |-> tok, card |-> Current]]
  /\ UNCHANGED <<tokens, lastTok, reviews, core>>

LEMMA StepKinds ==
  ASSUME TypeOK, [Next]_vars
  PROVE  \/ Idles
         \/ \E r \in Slots, a \in Action, tok \in Toks : Arrives(r, a, tok)
         \/ \E a : Legit(a) /\ Shown(a) /\ Issue(a)
         \/ \E r \in Slots : Body(r)
         \/ Reset
<1>1. ASSUME NEW c \in Cookies, NEW ea \in ExpireAfter, Visit(c, ea)
      PROVE  \/ Idles
             \/ \E r \in Slots, a \in Action, tok \in Toks : Arrives(r, a, tok)
             \/ \E a : Legit(a) /\ Shown(a) /\ Issue(a)
  <2>1. ASSUME NEW m \in Members, OffersSubAccount(m) 
        PROVE  Legit(SubAccountOf(m)) /\ Shown(SubAccountOf(m))
    BY <2>1 DEF OffersSubAccount, Legit, Shown, SubAccountOf, Action
  <2>2. ASSUME NEW m \in Members, NEW d \in Disputes, OffersDispute(m, d)
        PROVE  Legit(DisputeBy(m, d)) /\ Shown(DisputeBy(m, d))
    BY <2>2 DEF OffersDispute, Legit, Shown, DisputeBy, Action
  <2>3. ASSUME NEW k \in Cards
        PROVE  /\ OffersBlock(k) => Legit(CardForm("block", k)) /\ Shown(CardForm("block", k))
               /\ OffersReissue(k) => Legit(CardForm("reissue", k)) /\ Shown(CardForm("reissue", k))
    BY TablesAssumption DEF OffersBlock, OffersReissue, Legit, Shown, CardForm, Action
  <2>4. CASE Refused(c, ea) \/ Look(c, ea)
    BY <2>4 DEF Refused, Look, Idles
  <2>5. ASSUME NEW m \in Members, ReviewSubAccount(c, ea, m) PROVE \E a : Legit(a) /\ Shown(a) /\ Issue(a)
    BY <2>1, <2>5 DEF ReviewSubAccount
  <2>6. ASSUME NEW m \in Members, NEW d \in Disputes, ReviewDispute(c, ea, m, d)
        PROVE  \E a : Legit(a) /\ Shown(a) /\ Issue(a)
    BY <2>2, <2>6 DEF ReviewDispute
  <2>7. ASSUME NEW k \in Cards, ReviewBlock(c, ea, k) \/ ReviewReissue(c, ea, k)
        PROVE  \E a : Legit(a) /\ Shown(a) /\ Issue(a)
    BY <2>3, <2>7 DEF ReviewBlock, ReviewReissue
  <2>8. ASSUME NEW a \in Posts, NEW tok \in Toks, Arrive(c, ea, a, tok)
        PROVE  \E r \in Slots, b \in Action, t \in Toks : Arrives(r, b, t)
    <3>1. a \in Action
      BY PostsAssumption
    <3>2. PICK r \in Slots : /\ req[r] = None
                             /\ req' = [req EXCEPT ![r] = [action |-> a, tok |-> tok, card |-> Current]]
      BY <2>8 DEF Arrive
    <3>3. Arrives(r, a, tok)
      BY <2>8, <3>2 DEF Arrive, Arrives
    <3>q. QED BY <3>1, <3>3
  <2>q. QED BY <1>1, <2>4, <2>5, <2>6, <2>7, <2>8 DEF Visit
<1>2. ASSUME NEW cred \in Credentials, NEW ea \in ExpireAfter, Login(cred, ea) PROVE Idles
  BY <1>2 DEF Login, Idles
<1>3. ASSUME NEW c \in Cookies, Logout(c) PROVE Idles
  BY <1>3 DEF Logout, Idles
<1>4. CASE Tick
  BY <1>4 DEF Tick, Idles
<1>5. CASE UNCHANGED vars
  BY <1>5 DEF vars, Idles
<1>q. QED BY <1>1, <1>2, <1>3, <1>4, <1>5 DEF Next

\* A request with its body changes the core in one of four ways, or not at all, and is
\* gone with its token.
Effect(r) == OpenSubAccount(r) \/ FileDispute(r) \/ BlockCard(r) \/ ReissueCard(r)

LEMMA BodyKinds ==
  ASSUME NEW r \in Slots, Body(r)
  PROVE  /\ req[r] # None /\ Consume(r)
         /\ UNCHANGED core \/ Effect(r)
<1>1. CASE Effect(r)
  BY <1>1 DEF Effect, OpenSubAccount, FileDispute, BlockCard, ReissueCard, Accepted, Has
<1>2. CASE InvalidToken(r)
  BY <1>2 DEF InvalidToken
<1>3. CASE BlockIdle(r) \/ ReissueIdle(r)
  BY <1>3 DEF BlockIdle, ReissueIdle, Accepted, Has
<1>q. QED BY <1>1, <1>2, <1>3 DEF Body, Effect

\* A request whose body has an effect was accepted: its token was issued for its action.
LEMMA EffectAccepted ==
  ASSUME TypeOK, NEW r \in Slots, Effect(r)
  PROVE  /\ req[r] \in Request /\ req[r].action \in Action /\ req[r].tok \in Toks
         /\ tokens[req[r].tok] # None /\ tokens[req[r].tok].action = req[r].action
         /\ ~(tokens[req[r].tok].until < now)
         /\ Consume(r) /\ req[r] # None
<1>1. /\ req[r] # None /\ Valid(req[r].tok, req[r].action) /\ Consume(r)
  BY DEF Effect, OpenSubAccount, FileDispute, BlockCard, ReissueCard, Accepted, Has
<1>2. req[r] \in Request
  BY <1>1 DEF TypeOK
<1>q. QED BY <1>1, <1>2 DEF Valid, Request

LEMMA ActionKeys ==
  ASSUME NEW a \in Action
  PROVE  /\ a.member \in Members /\ a.form \in {"sub", "dispute", "block", "reissue"}
         /\ a.form = "dispute" => a.key \in Disputes
         /\ a.form \in {"block", "reissue"} => a.key \in Cards
  BY DEF Action

\* The ids of the table come from its sequence.
IdsInv == \A k \in Cards : cardActions[k] # None => cardActions[k].id \in 1..seq

\* A set of numbers with a bound has a last one.
LEMMA LastOne ==
  ASSUME NEW n \in Nat, NEW T \in SUBSET (1..n), T # {}
  PROVE  \E x \in T : \A y \in T : y <= x
<1> DEFINE after(i) == (i + 1)..n
           U == {after(i) : i \in T}
<1>1. U \in SUBSET FiniteSubsetsOf(1..n) /\ U # {}
  <2>1. \A i \in T : after(i) \in SUBSET (1..n) /\ IsFiniteSet(after(i))
    BY FS_Interval
  <2>q. QED BY <2>1 DEF FiniteSubsetsOf
<1>2. IsWellFoundedOn(StrictSubsetOrdering(1..n), FiniteSubsetsOf(1..n))
  BY FS_Interval, FS_StrictSubsetOrderingWellFounded
<1> HIDE DEF U
<1>3. PICK X \in U : \A Y \in U : ~(<<Y, X>> \in StrictSubsetOrdering(1..n))
  BY <1>1, <1>2, WFMin
<1>4. PICK x \in T : X = after(x)
  BY DEF U
<1>5. ASSUME NEW y \in T, y > x PROVE FALSE
  <2>1. after(y) \in U
    BY DEF U
  <2>2. after(y) \subseteq X /\ after(y) # X
    BY <1>4, <1>5
  <2>3. after(y) \subseteq 1..n /\ X \subseteq 1..n
    BY <1>4
  <2>q. QED BY <1>3, <2>1, <2>2, <2>3 DEF StrictSubsetOrdering
<1>q. QED BY <1>5

LEMMA LastIdBounds ==
  ASSUME TypeOK, IdsInv
  PROVE  LastId \in 0..seq /\ \A i \in RowIds : i \in Nat /\ i <= LastId
<1>1. seq \in Nat /\ RowIds \in SUBSET (1..seq)
  BY DEF TypeOK, IdsInv, RowIds
<1>2. CASE RowIds = {}
  BY <1>1, <1>2 DEF LastId
<1>3. CASE RowIds # {}
  <2>1. \E i \in RowIds : \A j \in RowIds : j <= i
    BY <1>1, <1>3, LastOne
  <2>2. LastId = CHOOSE i \in RowIds : \A j \in RowIds : j <= i
    BY <1>3 DEF LastId
  <2>3. LastId \in RowIds /\ \A j \in RowIds : j <= LastId
    BY <2>1, <2>2, Zenon
  <2>q. QED BY <1>1, <2>3
<1>q. QED BY <1>2, <1>3

LEMMA CoreTypes ==
  ASSUME TypeOK, IdsInv, NEW r \in Slots, Effect(r)
  PROVE  /\ disputes' \in [Disputes -> {"open", "filed"}]
         /\ filings' \in [Disputes -> Members \cup {None}]
         /\ subAccounts' \in [Members -> Nat]
         /\ cards' \in [Cards -> Card]
         /\ cardActions' \in [Cards -> Row \cup {None}] /\ seq' \in Nat
<1>1. req[r].action \in Action
  BY EffectAccepted
<1>2. CASE OpenSubAccount(r)
  BY <1>1, <1>2, ActionKeys DEF OpenSubAccount, InsertSubAccount, TypeOK
<1>3. CASE FileDispute(r)
  <2>1. req[r].action.form = "dispute"
    BY <1>3 DEF FileDispute, Accepted, Has
  <2>q. QED BY <1>1, <1>3, <2>1, ActionKeys DEF FileDispute, InsertFiling, MarkFiled, TypeOK
<1>4. CASE BlockCard(r)
  <2> DEFINE k == req[r].action.key
  <2>1. k \in Cards
    BY <1>1, <1>4, ActionKeys DEF BlockCard, Accepted, Has
  <2>2. cards[k] \in Card
    BY <2>1 DEF TypeOK
  <2>3. cards' = [cards EXCEPT ![k].status = "blocked", ![k].ready = TRUE]
    BY <1>4 DEF BlockCard, MarkBlocked
  <2>4. cards' \in [Cards -> Card]
    BY <2>1, <2>2, <2>3 DEF TypeOK, Card
  <2>q. QED BY <1>4, <2>4 DEF BlockCard, TypeOK
<1>5. CASE ReissueCard(r)
  <2> DEFINE k == req[r].action.key
  <2>1. k \in Cards
    BY <1>1, <1>5, ActionKeys DEF ReissueCard, Accepted, Has
  <2>2. CASE cardActions[k] = None
    <3>1. /\ seq' = seq + 1
          /\ cardActions' = [cardActions EXCEPT ![k] = [id |-> seq + 1, case |-> LastId + 1]]
          /\ cards' = [cards EXCEPT ![k] = [status |-> "blocked", ready |-> FALSE, case |-> LastId + 1]]
          /\ UNCHANGED <<disputes, filings, subAccounts>>
      BY <1>5, <2>2 DEF ReissueCard, InsertCardAction, MarkReissued
    <3>a. LastId + 1 \in Nat /\ seq + 1 \in Nat
      BY LastIdBounds DEF TypeOK
    <3>2. [id |-> seq + 1, case |-> LastId + 1] \in Row
      BY <3>a DEF Row
    <3>3. [status |-> "blocked", ready |-> FALSE, case |-> LastId + 1] \in Card
      BY <3>a DEF Card
    <3>b. seq' \in Nat
      BY <3>1, <3>a
    <3>q. QED BY <3>1, <3>2, <3>3, <3>b DEF TypeOK
  <2>3. CASE cardActions[k] # None
    <3>1. /\ cards' = [cards EXCEPT ![k] = [status |-> "blocked", ready |-> FALSE,
                                           case |-> cardActions[k].case]]
          /\ UNCHANGED <<disputes, filings, subAccounts, cardActions, seq>>
      BY <1>5, <2>3 DEF ReissueCard, MarkReissued
    <3>2. cardActions[k].case \in Nat
      BY <2>1, <2>3 DEF TypeOK, Row
    <3>3. [status |-> "blocked", ready |-> FALSE, case |-> cardActions[k].case] \in Card
      BY <3>2 DEF Card
    <3>q. QED BY <3>1, <3>3 DEF TypeOK
  <2>q. QED BY <2>2, <2>3
<1>q. QED BY <1>2, <1>3, <1>4, <1>5 DEF Effect

LEMMA IdsStep ==
  ASSUME TypeOK, IdsInv, [Next]_vars
  PROVE  IdsInv'
<1>1. CASE UNCHANGED <<cardActions, seq>>
  BY <1>1 DEF IdsInv
<1>2. CASE Reset
  BY <1>2 DEF Reset, IdsInv
<1>3. ASSUME NEW r \in Slots, ReissueCard(r), cardActions[req[r].action.key] = None PROVE IdsInv'
  <2> DEFINE k == req[r].action.key
  <2>1. /\ cardActions' = [cardActions EXCEPT ![k] = [id |-> seq + 1, case |-> LastId + 1]]
        /\ seq' = seq + 1
    BY <1>3 DEF ReissueCard, InsertCardAction
  <2>2. seq \in Nat /\ seq + 1 \in 1..(seq + 1) /\ 1..seq \subseteq 1..(seq + 1)
    BY DEF TypeOK
  <2>q. QED BY <2>1, <2>2 DEF IdsInv, TypeOK
<1>4. ASSUME NEW r \in Slots, Body(r) PROVE IdsInv'
  <2>1. CASE ReissueCard(r) /\ cardActions[req[r].action.key] = None
    BY <1>3, <2>1
  <2>2. CASE ReissueCard(r) /\ cardActions[req[r].action.key] # None
    BY <1>1, <2>2 DEF ReissueCard
  <2>3. CASE OpenSubAccount(r) \/ FileDispute(r) \/ BlockCard(r) \/ UNCHANGED core
    BY <1>1, <2>3 DEF OpenSubAccount, FileDispute, BlockCard, core
  <2>q. QED BY <1>4, <2>1, <2>2, <2>3, BodyKinds DEF Effect
<1>q. QED BY <1>1, <1>2, <1>4, StepKinds DEF Idles, Arrives, Issue, core

LEMMA StepTypes ==
  ASSUME TypeOK, IdsInv, [Next]_vars
  PROVE  TypeOK'
<1>1. now' \in 0..MaxClock
  <2>1. CASE Tick
    BY <2>1, BoundsAssumption DEF Tick, TypeOK
  <2>2. CASE now' = now
    BY <2>2 DEF TypeOK
  <2>3. ASSUME NEW r \in Slots, Body(r) PROVE now' = now
    BY <2>3, BodyKinds DEF Consume
  <2>4. ASSUME NEW c \in Cookies, NEW ea \in ExpireAfter, Visit(c, ea) PROVE now' = now
    BY <2>4 DEF Visit, Refused, Look, ReviewSubAccount, ReviewDispute, ReviewBlock, ReviewReissue,
                Issue, Arrive
  <2>q. QED BY <2>1, <2>2, <2>3, <2>4 DEF Next, vars, Reset, Login, Logout
<1>2. sess' \in [Sids -> Session \cup {None}] /\ lastSid' \in 0..MaxSessions
  <2>1. CASE UNCHANGED <<sess, lastSid>>
    BY <2>1 DEF TypeOK
  <2>2. ASSUME NEW r \in Slots, Body(r) PROVE UNCHANGED <<sess, lastSid>>
    BY <2>2, BodyKinds DEF Consume
  <2>3. ASSUME NEW c \in Cookies, NEW ea \in ExpireAfter, Visit(c, ea)
        PROVE  sess' = AfterGate(c, ea) /\ lastSid' = lastSid
    BY <2>3 DEF Visit, Refused, Look, ReviewSubAccount, ReviewDispute, ReviewBlock, ReviewReissue,
                Issue, Arrive, Gate
  <2>4. ASSUME NEW cred \in Credentials, NEW ea \in ExpireAfter, Login(cred, ea)
        PROVE  sess' \in [Sids -> Session \cup {None}] /\ lastSid' \in 0..MaxSessions
    <3>1. NewSession(ea) \in Session
      <4>1. now + SessionTtl \in Int /\ 0 \in 0..HitCap
        BY BoundsAssumption DEF TypeOK
      <4>2. (IF ea = None THEN NoLimit ELSE ea) \in Limits \cup {NoLimit}
        BY DEF ExpireAfter
      <4>q. QED BY <4>1, <4>2 DEF NewSession, Session
    <3>2. lastSid' \in 0..MaxSessions /\ sess' = [sess EXCEPT ![lastSid'] = NewSession(ea)]
      BY <2>4, BoundsAssumption DEF Login, TypeOK
    <3>q. QED BY <3>1, <3>2 DEF TypeOK
  <2>5. ASSUME NEW c \in Cookies, Logout(c)
        PROVE  sess' \in [Sids -> Session \cup {None}] /\ lastSid' \in 0..MaxSessions
    BY <2>5 DEF Logout, TypeOK
  <2>6. CASE Tick \/ Reset \/ UNCHANGED vars
    BY <2>1, <2>6 DEF Tick, Reset, vars
  <2>7. ASSUME NEW c \in Cookies, NEW ea \in ExpireAfter, Visit(c, ea)
        PROVE  sess' \in [Sids -> Session \cup {None}] /\ lastSid' \in 0..MaxSessions
    BY <2>3, <2>7, GateTyped DEF TypeOK
  <2>q. QED BY <2>1, <2>2, <2>4, <2>5, <2>6, <2>7 DEF Next
<1> DEFINE TokensTyped == /\ lastTok' \in 0..MaxTokens /\ tokens' \in [Toks -> Issued \cup {None}]
                          /\ reviews' \in [Toks -> Action \cup {None}]
<1>3. TokensTyped
  <2>1. CASE UNCHANGED <<tokens, lastTok, reviews>>
    BY <2>1 DEF TypeOK
  <2>2. ASSUME NEW r \in Slots, Body(r) PROVE TokensTyped
    BY <2>2, BodyKinds DEF Consume, TypeOK
  <2>3. CASE Reset
    BY <2>3 DEF Reset, TypeOK
  <2>4. ASSUME NEW a, Legit(a), Issue(a) PROVE TokensTyped
    <3>1. a \in Action /\ now + TokenTtl \in Int
      BY <2>4, BoundsAssumption DEF Legit, TypeOK
    <3>2. [action |-> a, until |-> now + TokenTtl] \in Issued
      BY <3>1 DEF Issued
    <3>3. lastTok' \in 0..MaxTokens
      BY <2>4, BoundsAssumption DEF Issue, TypeOK
    <3>q. QED BY <2>4, <3>1, <3>2, <3>3 DEF Issue, TypeOK
  <2>q. QED BY <2>1, <2>2, <2>3, <2>4, StepKinds DEF Idles, Arrives
<1> DEFINE CoreTyped == /\ disputes' \in [Disputes -> {"open", "filed"}]
                        /\ filings' \in [Disputes -> Members \cup {None}]
                        /\ subAccounts' \in [Members -> Nat]
                        /\ cards' \in [Cards -> Card]
                        /\ cardActions' \in [Cards -> Row \cup {None}] /\ seq' \in Nat
<1>4. CoreTyped
  <2>1. CASE UNCHANGED core
    BY <2>1 DEF core, TypeOK
  <2>2. CASE Reset
    BY <2>2, SeedsTyped DEF Reset, TypeOK
  <2>3. ASSUME NEW r \in Slots, Body(r) PROVE CoreTyped
    BY <2>1, <2>3, BodyKinds, CoreTypes
  <2>q. QED BY <2>1, <2>2, <2>3, StepKinds DEF Idles, Arrives, Issue
<1>5. req' \in [Slots -> Request \cup {None}]
  <2>1. CASE req' = req
    BY <2>1 DEF TypeOK
  <2>2. ASSUME NEW r \in Slots, NEW a \in Action, NEW tok \in Toks, Arrives(r, a, tok)
        PROVE  req' \in [Slots -> Request \cup {None}]
    BY <2>2 DEF Arrives, Request, TypeOK
  <2>3. ASSUME NEW r \in Slots, Body(r) PROVE req' \in [Slots -> Request \cup {None}]
    BY <2>3, BodyKinds DEF Consume, TypeOK
  <2>4. CASE Reset
    <3>1. ASSUME NEW r \in Slots, req[r] # None, req[r].action.form \in {"block", "reissue"}
          PROVE  [req[r] EXCEPT !.card = cards[req[r].action.key]] \in Request
      <4>1. req[r] \in Request /\ req[r].action \in Action
        BY <3>1 DEF TypeOK, Request
      <4>2. cards[req[r].action.key] \in Card
        BY <3>1, <4>1, ActionKeys DEF TypeOK
      <4>q. QED BY <4>1, <4>2 DEF Request
    <3>q. QED BY <2>4, <3>1 DEF Reset, TypeOK
  <2>q. QED BY <2>1, <2>2, <2>3, <2>4, StepKinds DEF Idles, Issue
<1>q. QED BY <1>1, <1>2, <1>3, <1>4, <1>5 DEF TypeOK

LEMMA Typed == Spec => [](TypeOK /\ IdsInv)
<1>1. Init => IdsInv
  BY DEF Init, IdsInv
<1>2. TypeOK /\ IdsInv /\ [Next]_vars => (TypeOK /\ IdsInv)'
  BY StepTypes, IdsStep
<1>q. QED BY <1>1, <1>2, InitTypes, PTL DEF Spec

\* Sessions, tokens, tables and waiting requests keep their shapes; that the number of a
\* case is a number at all needs the ids of the table to come from its sequence.
THEOREM TypeCorrect == Spec => []TypeOK
  BY Typed, PTL

---------------------------------------------------------------------------
(* Tokens and requests.                                                    *)

\* A live token was issued since the reset, for an action a review page offered; tokens
\* past the last one were never issued; and a request that looked its card up before a
\* reset has lost its token.
TokenInv ==
  /\ \A t \in Toks : tokens[t] # None => reviews[t] = tokens[t].action /\ Legit(tokens[t].action)
  /\ \A t \in Toks : t > lastTok => tokens[t] = None /\ reviews[t] = None
  /\ \A r \in Slots : req[r] # None =>
       req[r].tok <= lastTok /\ (req[r].card # Current => tokens[req[r].tok] = None)

LEMMA TokenStep ==
  ASSUME TypeOK, TokenInv, [Next]_vars
  PROVE  TokenInv'
<1>n. lastTok \in Nat /\ Toks \subseteq Int
  BY BoundsAssumption DEF TypeOK, Toks
<1>r. \A r \in Slots : req[r] # None => req[r] \in Request /\ req[r].tok \in Toks
  BY DEF TypeOK, Request
<1>1. CASE Idles
  BY <1>1 DEF Idles, TokenInv
<1>2. ASSUME NEW r \in Slots, NEW a \in Action, NEW tok \in Toks, Arrives(r, a, tok) PROVE TokenInv'
  <2>1. req'[r].tok = tok /\ req'[r].card = Current /\ \A q \in Slots \ {r} : req'[q] = req[q]
    BY <1>2 DEF Arrives, TypeOK
  <2>2. tok <= lastTok
    BY <1>2, <1>n DEF Arrives, TokenInv
  <2>q. QED BY <1>2, <2>1, <2>2 DEF Arrives, TokenInv
<1>3. ASSUME NEW a, Legit(a), Issue(a) PROVE TokenInv'
  <2> DEFINE t0 == lastTok'
  <2>1. t0 = lastTok + 1 /\ t0 \in Toks /\ t0 > lastTok
    BY <1>3, <1>n, BoundsAssumption DEF Issue, Toks, TypeOK
  <2>2. /\ tokens'[t0].action = a /\ reviews'[t0] = a
        /\ \A t \in Toks \ {t0} : tokens'[t] = tokens[t] /\ reviews'[t] = reviews[t]
    BY <1>3, <2>1 DEF Issue, TypeOK
  <2>a. req' = req
    BY <1>3 DEF Issue
  <2>b. ASSUME NEW r \in Slots, req[r] # None
        PROVE  req[r].tok \in Toks \ {t0} /\ req[r].tok <= t0
    <3>1. req[r].tok \in Toks /\ req[r].tok <= lastTok
      BY <1>r, <2>b DEF TokenInv
    <3>2. req[r].tok \in Int
      BY <1>n, <3>1
    <3>3. req[r].tok < lastTok + 1
      BY <1>n, <3>1, <3>2
    <3>4. req[r].tok <= t0 /\ req[r].tok # t0
      BY <1>n, <2>1, <3>2, <3>3
    <3>q. QED BY <3>1, <3>4
  <2>3. \A r \in Slots : req'[r] # None => req'[r] = req[r] /\ req[r].tok \in Toks \ {t0}
                                          /\ req[r].tok <= t0
    BY <2>a, <2>b
  <2>4. \A t \in Toks : t > t0 => t > lastTok /\ t # t0
    BY <1>n, <2>1
  <2>q. QED BY <1>3, <2>2, <2>3, <2>4 DEF TokenInv
<1>4. ASSUME NEW r \in Slots, Body(r) PROVE TokenInv'
  <2>1. /\ tokens' = [tokens EXCEPT ![req[r].tok] = None] /\ req' = [req EXCEPT ![r] = None]
        /\ UNCHANGED <<lastTok, reviews>>
    BY <1>4, BodyKinds DEF Consume
  <2>2. \A t \in Toks : tokens'[t] = None \/ tokens'[t] = tokens[t]
    BY <2>1 DEF TypeOK
  <2>3. \A t \in Toks : tokens[t] = None => tokens'[t] = None
    BY <2>1 DEF TypeOK
  <2>4. \A q \in Slots : req'[q] # None => req'[q] = req[q]
    BY <2>1 DEF TypeOK
  <2>q. QED BY <1>r, <2>1, <2>2, <2>3, <2>4 DEF TokenInv
<1>5. CASE Reset
  <2>1. \A t \in Toks : tokens'[t] = None /\ reviews'[t] = None
    BY <1>5 DEF Reset
  <2>2. \A r \in Slots : req'[r] # None => req[r] # None /\ req'[r].tok = req[r].tok
    BY <1>5, <1>r DEF Reset, Request
  <2>q. QED BY <1>5, <1>r, <2>1, <2>2 DEF Reset, TokenInv
<1>q. QED BY <1>1, <1>2, <1>3, <1>4, <1>5, StepKinds

\* A token that is spent stays spent until the reset, and a body spends its own.
LEMMA SpentGrows ==
  ASSUME TypeOK, TokenInv, [Next]_vars, ~Reset, NEW b \in Action
  PROVE  Spent(b) \subseteq Spent(b)'
<1>n. lastTok \in Nat /\ Toks \subseteq Int
  BY BoundsAssumption DEF TypeOK, Toks
<1>1. CASE UNCHANGED <<tokens, reviews>>
  BY <1>1 DEF Spent, Since
<1>2. ASSUME NEW a, Legit(a), Issue(a) PROVE Spent(b) \subseteq Spent(b)'
  <2>1. lastTok' \in Toks /\ lastTok' > lastTok
    BY <1>2, <1>n, BoundsAssumption DEF Issue, Toks, TypeOK
  <2>2. \A t \in Toks \ {lastTok'} : tokens'[t] = tokens[t] /\ reviews'[t] = reviews[t]
    BY <1>2, <2>1 DEF Issue, TypeOK
  <2>3. lastTok' \notin Spent(b)
    BY <2>1, NoneAssumption DEF TokenInv, Spent, Since
  <2>q. QED BY <2>2, <2>3 DEF Spent, Since
<1>3. ASSUME NEW r \in Slots, Body(r) PROVE Spent(b) \subseteq Spent(b)'
  BY <1>3, BodyKinds DEF Consume, Spent, Since, TypeOK
<1>q. QED BY <1>1, <1>2, <1>3, StepKinds DEF Idles, Arrives

LEMMA EffectSpends ==
  ASSUME TypeOK, TokenInv, NEW r \in Slots, Effect(r),
         NEW a, a = req[r].action, NEW t, t = req[r].tok
  PROVE  Legit(a) /\ req[r].card = Current /\ t \in Spent(a)' \ Spent(a)
<1>1. /\ req[r] # None /\ t \in Toks /\ tokens[t] # None /\ tokens[t].action = a /\ Consume(r)
  BY EffectAccepted
<1>2. reviews[t] = a /\ Legit(a) /\ req[r].card = Current
  BY <1>1 DEF TokenInv
<1>3. tokens'[t] = None /\ reviews' = reviews
  BY <1>1 DEF Consume, TypeOK
<1>q. QED BY <1>1, <1>2, <1>3 DEF Spent, Since

---------------------------------------------------------------------------
(* The core.                                                               *)

\* A case is not past the id of its row, which is not past the sequence: so the case after
\* the last id is new, though the sequence and the last id drift apart at a reset.
CasesFollowIds ==
  \A k \in Cards : cardActions[k] # None => cardActions[k].case \in 1..cardActions[k].id

\* A card is made ready as it is blocked, and stays so until it is reissued.
BlockedAreReady ==
  \A k \in Cards \ SeedBlocked :
    cards[k].status = "blocked" /\ cardActions[k] = None => cards[k].ready

Tables == TablesAgree /\ CasesFollowIds /\ BlockedAreReady

\* A card that has a row is blocked and not ready.
LEMMA RowMeansBlocked ==
  ASSUME Tables, NEW k \in Cards, cardActions[k] # None
  PROVE  cards[k].status = "blocked" /\ ~cards[k].ready
<1>1. cards[k] = [status |-> "blocked", ready |-> FALSE, case |-> cardActions[k].case]
  BY DEF Tables, TablesAgree, CardsMatchRows
<1>q. QED BY <1>1

LEMMA TablesKept ==
  ASSUME TypeOK, IdsInv, TokenInv, Tables, NEW r \in Slots, Effect(r)
  PROVE  Tables'
<1> PICK a : a = req[r].action
  OBVIOUS
<1> DEFINE k == a.key
<1>1. a \in Action /\ Legit(a) /\ req[r].card = Current
  BY EffectAccepted, EffectSpends
<1>2. SeenCard(r) = cards[k]
  BY <1>1 DEF SeenCard
<1>3. CASE OpenSubAccount(r)
  BY <1>3 DEF OpenSubAccount, Tables, TablesAgree, CardsMatchRows, DisputesMatchRows, CaseNumbersUnique,
              CasesFollowIds, BlockedAreReady
<1>4. CASE FileDispute(r)
  <2>1. k \in Disputes /\ a.member \in Members
    BY <1>1, <1>4, ActionKeys DEF FileDispute, Accepted, Has
  <2>2. /\ filings' = IF filings[k] = None THEN [filings EXCEPT ![k] = a.member] ELSE filings
        /\ disputes' = [disputes EXCEPT ![k] = "filed"]
        /\ UNCHANGED <<subAccounts, cards, cardActions, seq>>
    BY <1>4 DEF FileDispute, InsertFiling, MarkFiled
  <2>3. filings'[k] # None /\ disputes'[k] = "filed"
    BY <2>1, <2>2, MembersAssumption DEF TypeOK
  <2>4. \A d \in Disputes \ {k} : filings'[d] = filings[d] /\ disputes'[d] = disputes[d]
    BY <2>2 DEF TypeOK
  <2>5. DisputesMatchRows'
    BY <2>3, <2>4 DEF Tables, TablesAgree, DisputesMatchRows
  <2>q. QED BY <2>2, <2>5 DEF Tables, TablesAgree, CardsMatchRows, CaseNumbersUnique,
                              CasesFollowIds, BlockedAreReady
<1>5. CASE BlockCard(r)
  <2>1. k \in Cards
    BY <1>1, <1>5, ActionKeys DEF BlockCard, Accepted, Has
  <2>2. /\ cards' = [cards EXCEPT ![k].status = "blocked", ![k].ready = TRUE]
        /\ UNCHANGED <<disputes, filings, subAccounts, cardActions, seq>>
        /\ cards[k].status # "blocked"
    BY <1>2, <1>5 DEF BlockCard, MarkBlocked
  <2>a. cardActions[k] = None
    BY <2>1, <2>2, RowMeansBlocked
  <2>b. cardActions[k] = None <=> cards[k].case = NoCase
    BY <2>1 DEF Tables, TablesAgree, CardsMatchRows
  <2>3. cardActions[k] = None /\ cards[k].case = NoCase
    BY <2>a, <2>b
  <2>4. /\ cards'[k].ready /\ cards'[k].case = cards[k].case
        /\ \A j \in Cards \ {k} : cards'[j] = cards[j]
    BY <2>1, <2>2 DEF TypeOK, Card
  <2>5. CardsMatchRows'
    BY <2>2, <2>3, <2>4 DEF Tables, TablesAgree, CardsMatchRows
  <2>6. BlockedAreReady'
    BY <2>2, <2>4 DEF Tables, BlockedAreReady
  <2>q. QED BY <2>2, <2>5, <2>6 DEF Tables, TablesAgree, DisputesMatchRows, CaseNumbersUnique, CasesFollowIds
<1>6. CASE ReissueCard(r)
  <2>1. k \in Cards /\ cards[k].status = "blocked" /\ cards[k].ready
    BY <1>1, <1>2, <1>6, ActionKeys DEF ReissueCard, Accepted, Has
  <2>2. cardActions[k] = None
    BY <2>1, RowMeansBlocked
  <2> DEFINE row == [id |-> seq + 1, case |-> LastId + 1]
             card == [status |-> "blocked", ready |-> FALSE, case |-> LastId + 1]
  <2>3. /\ cardActions' = [cardActions EXCEPT ![k] = row] /\ cards' = [cards EXCEPT ![k] = card]
        /\ UNCHANGED <<disputes, filings, subAccounts>>
    BY <1>6, <2>2 DEF ReissueCard, InsertCardAction, MarkReissued
  <2>4. seq \in Nat /\ LastId \in 0..seq /\ \A i \in RowIds : i \in Nat /\ i <= LastId
    BY LastIdBounds DEF TypeOK
  <2>5. row \in Row /\ row # None /\ row.case \in 1..row.id
    BY <2>4, NoneAssumption DEF Row
  <2>6. /\ cardActions'[k] = row /\ cards'[k] = card
        /\ \A j \in Cards \ {k} : cardActions'[j] = cardActions[j] /\ cards'[j] = cards[j]
    BY <2>1, <2>3 DEF TypeOK
  <2>7. card.case = row.case /\ card.case # NoCase
    BY <2>4 DEF NoCase
  <2>8. CardsMatchRows'
    BY <2>5, <2>6, <2>7 DEF Tables, TablesAgree, CardsMatchRows
  <2>9. CasesFollowIds'
    BY <2>5, <2>6 DEF Tables, CasesFollowIds
  <2>a. BlockedAreReady'
    BY <2>5, <2>6 DEF Tables, BlockedAreReady
  <2>b. ASSUME NEW j \in Cards \ {k}, cardActions[j] # None
        PROVE  cardActions[j].case # LastId + 1
    <3>1. cardActions[j].id \in RowIds /\ cardActions[j].case \in 1..cardActions[j].id
      BY <2>b DEF RowIds, Tables, CasesFollowIds
    <3>2. cardActions[j].id \in Nat /\ cardActions[j].id <= LastId
      BY <2>4, <3>1
    <3>q. QED BY <2>4, <3>1, <3>2
  <2>c. CaseNumbersUnique'
    BY <2>6, <2>b DEF Tables, TablesAgree, CaseNumbersUnique
  <2>q. QED BY <2>3, <2>8, <2>9, <2>a, <2>c DEF Tables, TablesAgree, DisputesMatchRows
<1>q. QED BY <1>3, <1>4, <1>5, <1>6 DEF Effect

LEMMA TablesStep ==
  ASSUME TypeOK, IdsInv, TokenInv, Tables, [Next]_vars
  PROVE  Tables'
<1>1. CASE UNCHANGED core
  BY <1>1 DEF core, Tables, TablesAgree, CardsMatchRows, DisputesMatchRows, CaseNumbersUnique,
              CasesFollowIds, BlockedAreReady
<1>2. CASE Reset
  BY <1>2 DEF Reset, SeedDisputes, SeedCards, Tables, TablesAgree, CardsMatchRows, DisputesMatchRows,
              CaseNumbersUnique, CasesFollowIds, BlockedAreReady
<1>3. ASSUME NEW r \in Slots, Body(r) PROVE Tables'
  BY <1>1, <1>3, BodyKinds, TablesKept
<1>q. QED BY <1>1, <1>2, <1>3, StepKinds DEF Idles, Arrives, Issue

LEMMA TablesStand == Spec => [](TypeOK /\ IdsInv /\ TokenInv /\ Tables)
<1>1. Init => TokenInv /\ Tables
  BY DEF Init, TokenInv, SeedDisputes, SeedCards, Tables, TablesAgree, CardsMatchRows,
         DisputesMatchRows, CaseNumbersUnique, CasesFollowIds, BlockedAreReady
<1>q. QED BY <1>1, TokenStep, TablesStep, Typed, PTL DEF Spec

\* The tables and the objects the pages read agree, and no two reissues carry one case
\* number (server.ts 615-652, 786-876; card-actions.ts 59-82).
THEOREM TablesDoAgree == Spec => []TablesAgree
  BY TablesStand, PTL DEF Tables

\* An action is what its form, member and row make it.
LEMMA ActionForms ==
  /\ \A m \in Members : SubAccountOf(m) \in Action
  /\ \A m \in Members, d \in Disputes : DisputeBy(m, d) \in Action
  /\ \A k \in Cards, f \in {"block", "reissue"} : CardForm(f, k) \in Action
  /\ \A a \in Action : a.form = "sub" => a = SubAccountOf(a.member)
  /\ \A a \in Action : a.form = "dispute" => a = DisputeBy(a.member, a.key)
  /\ \A a \in Action : a.form \in {"block", "reissue"} /\ CardOf[a.key] = a.member
                         => a = CardForm(a.form, a.key)
<1>1. \A m \in Members : SubAccountOf(m) \in Action
  BY DEF SubAccountOf, Action
<1>2. \A m \in Members, d \in Disputes : DisputeBy(m, d) \in Action
  BY DEF DisputeBy, Action
<1>3. \A k \in Cards, f \in {"block", "reissue"} : CardForm(f, k) \in Action
  BY TablesAssumption DEF CardForm, Action
<1>4. \A a \in Action : a.form = "sub" => a = SubAccountOf(a.member)
  BY DEF SubAccountOf, Action
<1>5. \A a \in Action : a.form = "dispute" => a = DisputeBy(a.member, a.key)
  BY DEF DisputeBy, Action
<1>6. \A a \in Action : a.form \in {"block", "reissue"} /\ CardOf[a.key] = a.member
                         => a = CardForm(a.form, a.key)
  BY DEF CardForm, Action
<1>q. QED BY <1>1, <1>2, <1>3, <1>4, <1>5, <1>6

\* The four conjuncts of EffectsWereReviewed.
SubReviewed(m) == subAccounts[m] > 0 => m \notin Restricted /\ Spent(SubAccountOf(m)) # {}
FilingReviewed(d) ==
  filings[d] # None => /\ filings[d] = DisputeOf[d] /\ DisputeOf[d] \notin Restricted
                       /\ Spent(DisputeBy(DisputeOf[d], d)) # {}
BlockReviewed(k) ==
  cards[k] # SeedCards[k] => /\ k \notin Business /\ CardOf[k] \notin Restricted
                             /\ Spent(CardForm("block", k)) # {}
ReissueReviewed(k) == cardActions[k] # None => Spent(CardForm("reissue", k)) # {}
Reviewed ==
  /\ \A m \in Members : SubReviewed(m)
  /\ \A d \in Disputes : FilingReviewed(d)
  /\ \A k \in Cards : BlockReviewed(k) /\ ReissueReviewed(k)

\* What is reviewed stays so while the core stays and tokens only get spent.
LEMMA ReviewsStand ==
  ASSUME Reviewed, \A b \in Action : Spent(b) \subseteq Spent(b)'
  PROVE  /\ \A m \in Members : subAccounts'[m] = subAccounts[m] => SubReviewed(m)'
         /\ \A d \in Disputes : filings'[d] = filings[d] => FilingReviewed(d)'
         /\ \A k \in Cards : cards'[k] = cards[k] => BlockReviewed(k)'
         /\ \A k \in Cards : cardActions'[k] = cardActions[k] => ReissueReviewed(k)'
<1>1. ASSUME NEW m \in Members, subAccounts'[m] = subAccounts[m] PROVE SubReviewed(m)'
  BY <1>1, ActionForms DEF Reviewed, SubReviewed
<1>2. ASSUME NEW d \in Disputes, filings'[d] = filings[d] PROVE FilingReviewed(d)'
  BY <1>2, ActionForms, TablesAssumption DEF Reviewed, FilingReviewed
<1>3. ASSUME NEW k \in Cards, cards'[k] = cards[k] PROVE BlockReviewed(k)'
  BY <1>3, ActionForms DEF Reviewed, BlockReviewed, SeedCards
<1>4. ASSUME NEW k \in Cards, cardActions'[k] = cardActions[k] PROVE ReissueReviewed(k)'
  BY <1>4, ActionForms DEF Reviewed, ReissueReviewed
<1>q. QED BY <1>1, <1>2, <1>3, <1>4

LEMMA ReviewedStep ==
  ASSUME TypeOK, IdsInv, TokenInv, Tables, Reviewed, [Next]_vars
  PROVE  Reviewed'
<1>1. CASE Reset
  BY <1>1 DEF Reset, Reviewed, SubReviewed, FilingReviewed, BlockReviewed, ReissueReviewed, SeedCards
<1>2. CASE ~Reset
  <2>g. \A b \in Action : Spent(b) \subseteq Spent(b)'
    BY <1>2, SpentGrows
  <2>1. CASE UNCHANGED core
    BY <2>1, <2>g, ReviewsStand DEF core, Reviewed
  <2>2. ASSUME NEW r \in Slots, Effect(r) PROVE Reviewed'
    <3> PICK a : a = req[r].action
      OBVIOUS
    <3> PICK t : t = req[r].tok
      OBVIOUS
    <3>1. a \in Action /\ Legit(a) /\ t \in Spent(a)' /\ req[r].card = Current
      BY <2>2, EffectAccepted, EffectSpends
    <3>2. CASE OpenSubAccount(r)
      <4>1. a.form = "sub" /\ a.member \in Members
        BY <3>1, <3>2, ActionKeys DEF OpenSubAccount, Accepted, Has
      <4>2. SubReviewed(a.member)'
        BY <3>1, <4>1, ActionForms DEF SubReviewed, Legit
      <4>3. \A m \in Members \ {a.member} : subAccounts'[m] = subAccounts[m]
        BY <3>2 DEF OpenSubAccount, InsertSubAccount, TypeOK
      <4>q. QED BY <2>g, <3>2, <4>2, <4>3, ReviewsStand DEF OpenSubAccount, Reviewed
    <3>3. CASE FileDispute(r)
      <4>1. a.form = "dispute" /\ a.key \in Disputes /\ a.member = DisputeOf[a.key]
        BY <3>1, <3>3, ActionKeys DEF FileDispute, Accepted, Has, Legit
      <4>2. filings' = IF filings[a.key] = None THEN [filings EXCEPT ![a.key] = a.member] ELSE filings
        BY <3>3 DEF FileDispute, InsertFiling
      <4>3. \A d \in Disputes : d # a.key \/ filings[d] # None => filings'[d] = filings[d]
        BY <4>2 DEF TypeOK
      <4>4. filings[a.key] = None => FilingReviewed(a.key)'
        BY <3>1, <4>1, <4>2, ActionForms DEF FilingReviewed, Legit, TypeOK
      <4>5. \A d \in Disputes : FilingReviewed(d)'
        BY <2>g, <4>3, <4>4, ReviewsStand
      <4>q. QED BY <2>g, <3>3, <4>5, ReviewsStand DEF FileDispute, Reviewed
    <3>4. CASE BlockCard(r)
      <4>1. a.form = "block" /\ a.key \in Cards
        BY <3>1, <3>4, ActionKeys DEF BlockCard, Accepted, Has
      <4>2. BlockReviewed(a.key)'
        BY <3>1, <4>1, ActionForms DEF BlockReviewed, Legit
      <4>3. \A k \in Cards \ {a.key} : cards'[k] = cards[k]
        BY <3>4 DEF BlockCard, MarkBlocked, TypeOK
      <4>q. QED BY <2>g, <3>4, <4>2, <4>3, ReviewsStand DEF BlockCard, Reviewed
    <3>5. CASE ReissueCard(r)
      <4>1. /\ a.form = "reissue" /\ a.key \in Cards
            /\ cards[a.key].ready
        BY <3>1, <3>5, ActionKeys DEF ReissueCard, Accepted, Has, SeenCard
      <4>2. cards[a.key] # SeedCards[a.key]
        BY <4>1 DEF SeedCards
      <4>3. BlockReviewed(a.key)'
        <5>1. a.key \notin Business /\ CardOf[a.key] \notin Restricted
              /\ Spent(CardForm("block", a.key)) # {}
          BY <4>1, <4>2 DEF Reviewed, BlockReviewed
        <5>2. CardForm("block", a.key) \in Action
          BY <4>1, ActionForms
        <5>q. QED BY <2>g, <5>1, <5>2 DEF BlockReviewed
      <4>4. ReissueReviewed(a.key)'
        BY <3>1, <4>1, ActionForms DEF ReissueReviewed, Legit
      <4>5. \A k \in Cards \ {a.key} : cards'[k] = cards[k] /\ cardActions'[k] = cardActions[k]
        <5>1. CASE cardActions[a.key] = None
          BY <3>5, <5>1 DEF ReissueCard, MarkReissued, InsertCardAction, TypeOK
        <5>2. CASE cardActions[a.key] # None
          BY <3>5, <5>2 DEF ReissueCard, MarkReissued, TypeOK
        <5>q. QED BY <5>1, <5>2
      <4>q. QED BY <2>g, <3>5, <4>3, <4>4, <4>5, ReviewsStand DEF ReissueCard, Reviewed
    <3>q. QED BY <2>2, <3>2, <3>3, <3>4, <3>5 DEF Effect
  <2>q. QED BY <1>2, <2>1, <2>2, StepKinds, BodyKinds DEF Idles, Arrives, Issue
<1>q. QED BY <1>1, <1>2

LEMMA ReviewsHold == Spec => [](TypeOK /\ TokenInv /\ Tables /\ Reviewed)
<1>1. Init => Reviewed
  BY DEF Init, Reviewed, SubReviewed, FilingReviewed, BlockReviewed, ReissueReviewed
<1>q. QED BY <1>1, ReviewedStep, TablesStand, PTL DEF Spec

\* Whatever is in the core was confirmed on a review page since the last reset, for that very
\* row, and no restricted member was touched (server.ts 546-562, 615-652, 786-876).
THEOREM EffectsReviewed == Spec => []EffectsWereReviewed
<1>1. Reviewed => EffectsWereReviewed
  BY DEF Reviewed, EffectsWereReviewed, SubReviewed, FilingReviewed, BlockReviewed, ReissueReviewed
<1>q. QED BY <1>1, ReviewsHold, PTL

\* A card that this console blocked can be reissued until it is (server.ts 786-876).
THEOREM HalfDoneCanFinish == Spec => []HalfDoneIsFinishable
<1>1. TypeOK /\ Tables /\ Reviewed => HalfDoneIsFinishable
  <2> SUFFICES ASSUME TypeOK, Tables, Reviewed, NEW k \in Cards \ SeedBlocked,
                      cards[k].status = "blocked", cardActions[k] = None
               PROVE  OffersReissue(k)
    BY DEF HalfDoneIsFinishable
  <2>1. cards[k] # SeedCards[k]
    BY DEF SeedCards
  <2>2. k \notin Business /\ CardOf[k] \notin Restricted
    BY <2>1 DEF Reviewed, BlockReviewed
  <2>3. cards[k].ready
    BY DEF Tables, BlockedAreReady
  <2>4. cards[k].case = NoCase
    BY DEF Tables, TablesAgree, CardsMatchRows
  <2>q. QED BY <2>2, <2>3, <2>4 DEF OffersReissue
<1>q. QED BY <1>1, ReviewsHold, PTL

\* The spent tokens are finitely many.
LEMMA SpentFinite == ASSUME NEW b PROVE IsFiniteSet(Spent(b)) /\ IsFiniteSet(Spent(b)')
<1>1. IsFiniteSet(Toks)
  BY BoundsAssumption, FS_Interval DEF Toks
<1>2. Spent(b) \in SUBSET Toks /\ Spent(b)' \in SUBSET Toks
  BY DEF Spent, Since
<1>q. QED BY <1>1, <1>2, FS_Subset

\* One more is spent.
LEMMA OneMore ==
  ASSUME NEW S, NEW T, IsFiniteSet(T), NEW x, x \in T, x \notin S, S \subseteq T
  PROVE  Cardinality(S) + 1 <= Cardinality(T)
<1>1. IsFiniteSet(S) /\ S \cup {x} \in SUBSET T
  BY FS_Subset
<1>2. Cardinality(S \cup {x}) = Cardinality(S) + 1
  BY <1>1, FS_AddElement
<1>q. QED BY <1>1, <1>2, FS_Subset

LEMMA RowsStep ==
  ASSUME TypeOK, IdsInv, TokenInv, OneRowPerReview, [Next]_vars
  PROVE  OneRowPerReview'
<1>1. CASE Reset
  <2>1. ASSUME NEW m \in Members PROVE subAccounts'[m] <= Cardinality(Spent(SubAccountOf(m)))'
    <3>1. subAccounts'[m] = 0
      BY <1>1 DEF Reset
    <3>2. Cardinality(Spent(SubAccountOf(m)))' \in Nat
      BY SpentFinite, FS_CardinalityType
    <3>q. QED BY <3>1, <3>2
  <2>q. QED BY <2>1 DEF OneRowPerReview
<1>2. CASE ~Reset
  <2>g. ASSUME NEW b \in Action
        PROVE  /\ Cardinality(Spent(b)) \in Nat /\ Cardinality(Spent(b)') \in Nat
               /\ Cardinality(Spent(b)) <= Cardinality(Spent(b)')
    <3>1. Spent(b) \in SUBSET Spent(b)'
      BY <1>2, SpentGrows
    <3>q. QED BY <3>1, SpentFinite, FS_Subset, FS_CardinalityType
  <2>1. ASSUME NEW m \in Members, subAccounts'[m] = subAccounts[m]
        PROVE  subAccounts'[m] <= Cardinality(Spent(SubAccountOf(m))')
    <3>1. SubAccountOf(m) \in Action /\ subAccounts[m] \in Nat
      BY ActionForms DEF TypeOK
    <3>2. subAccounts[m] <= Cardinality(Spent(SubAccountOf(m)))
      BY DEF OneRowPerReview
    <3>q. QED BY <2>1, <2>g, <3>1, <3>2
  <2>2. CASE UNCHANGED subAccounts
    BY <2>1, <2>2 DEF OneRowPerReview
  <2>3. ASSUME NEW r \in Slots, OpenSubAccount(r) PROVE OneRowPerReview'
    <3> PICK a : a = req[r].action
      OBVIOUS
    <3> PICK t : t = req[r].tok
      OBVIOUS
    <3>1. a \in Action /\ t \in Spent(a)' \ Spent(a)
      BY <2>3, EffectAccepted, EffectSpends DEF Effect
    <3>2. a.form = "sub" /\ a.member \in Members /\ a = SubAccountOf(a.member)
      BY <2>3, <3>1, ActionKeys, ActionForms DEF OpenSubAccount, Accepted, Has
    <3>3. subAccounts' = [subAccounts EXCEPT ![a.member] = @ + 1]
      BY <2>3 DEF OpenSubAccount, InsertSubAccount
    <3>4. Cardinality(Spent(a)) + 1 <= Cardinality(Spent(a)')
      <4>1. Spent(a) \subseteq Spent(a)'
        BY <1>2, <3>1, SpentGrows
      <4>q. QED BY <3>1, <4>1, SpentFinite, OneMore
    <3>5. subAccounts[a.member] \in Nat /\ subAccounts[a.member] <= Cardinality(Spent(a))
      BY <3>2 DEF OneRowPerReview, TypeOK
    <3>6. subAccounts'[a.member] = subAccounts[a.member] + 1
      BY <3>2, <3>3 DEF TypeOK
    <3>7. subAccounts'[a.member] <= Cardinality(Spent(a)')
      BY <2>g, <3>1, <3>4, <3>5, <3>6
    <3>8. subAccounts'[a.member] <= Cardinality(Spent(SubAccountOf(a.member))')
      BY <3>2, <3>7
    <3>9. \A m \in Members \ {a.member} : subAccounts'[m] = subAccounts[m]
      BY <3>3 DEF TypeOK
    <3>q. QED BY <2>1, <3>8, <3>9 DEF OneRowPerReview
  <2>4. ASSUME NEW r \in Slots, Body(r) PROVE OneRowPerReview'
    <3>1. CASE UNCHANGED core
      BY <2>2, <3>1 DEF core
    <3>2. CASE FileDispute(r) \/ BlockCard(r) \/ ReissueCard(r)
      BY <2>2, <3>2 DEF FileDispute, BlockCard, ReissueCard
    <3>q. QED BY <2>3, <2>4, <3>1, <3>2, BodyKinds DEF Effect
  <2>q. QED BY <1>2, <2>2, <2>4, StepKinds DEF Idles, Arrives, Issue, core
<1>q. QED BY <1>1, <1>2

\* A member has at most one sub-account row for each review that was confirmed, however many
\* posts wait for their bodies at once (server.ts 546-562, tokens.ts 26-34).
THEOREM OneRowEach == Spec => []OneRowPerReview
<1>1. Init => OneRowPerReview
  <2> SUFFICES ASSUME Init, NEW m \in Members
               PROVE  subAccounts[m] <= Cardinality(Spent(SubAccountOf(m)))
    BY DEF OneRowPerReview
  <2>1. Cardinality(Spent(SubAccountOf(m))) \in Nat
    BY SpentFinite, FS_CardinalityType
  <2>q. QED BY <2>1 DEF Init
<1>q. QED BY <1>1, RowsStep, Typed, TablesStand, PTL DEF Spec

\* Every change of the core but a reset spends one live token of this reset, and acts on a
\* card as it is (server.ts 546-562, 615-652, 786-876; tokens.ts 26-34).
THEOREM EffectsSpend == Spec => EffectSpendsItsReview
<1> DEFINE Spends ==
      core' # core /\ reviews' = reviews =>
        \E t \in Toks :
          /\ tokens[t] # None /\ tokens' = [tokens EXCEPT ![t] = None]
          /\ reviews[t] # None /\ now <= tokens[t].until
          /\ \A r \in Slots : req'[r] # req[r] => req[r].card = Current
<1>1. ASSUME TypeOK, TokenInv, Tables, Reviewed, [Next]_vars PROVE Spends
  <2> SUFFICES ASSUME core' # core, reviews' = reviews PROVE Spends
    OBVIOUS
  <2>1. ASSUME NEW r \in Slots, Effect(r) PROVE Spends
    <3> PICK a : a = req[r].action
      OBVIOUS
    <3> PICK t : t = req[r].tok
      OBVIOUS
    <3>1. /\ a \in Action /\ t \in Toks /\ tokens[t] # None /\ tokens[t].action = a
          /\ ~(tokens[t].until < now) /\ Consume(r) /\ req[r].card = Current
      BY <1>1, <2>1, EffectAccepted, EffectSpends
    <3>2. tokens' = [tokens EXCEPT ![t] = None] /\ req' = [req EXCEPT ![r] = None]
      BY <3>1 DEF Consume
    <3>3. reviews[t] # None
      BY <1>1, <3>1, NoneAssumption DEF TokenInv
    <3>4. tokens[t].until \in Int /\ now \in Int
      BY <1>1, <3>1 DEF TypeOK, Issued
    <3>5. now <= tokens[t].until
      BY <3>1, <3>4
    <3>6. \A q \in Slots : req'[q] # req[q] => req[q].card = Current
      BY <1>1, <3>1, <3>2 DEF TypeOK
    <3>q. QED BY <3>1, <3>2, <3>3, <3>5, <3>6
  <2>2. CASE Reset
    <3>1. \A b \in Action : Spent(b) = {}
      BY <2>2, NoneAssumption DEF Reset, Spent, Since
    <3>2. subAccounts' = subAccounts
      <4>1. \A m \in Members : subAccounts[m] = 0
        BY <1>1, <3>1, ActionForms DEF Reviewed, SubReviewed, TypeOK
      <4>q. QED BY <1>1, <2>2, <4>1 DEF Reset, TypeOK
    <3>3. filings' = filings
      <4>1. \A d \in Disputes : filings[d] = None
        BY <1>1, <3>1, ActionForms, TablesAssumption DEF Reviewed, FilingReviewed
      <4>q. QED BY <1>1, <2>2, <4>1 DEF Reset, TypeOK
    <3>4. cards' = cards
      <4>1. \A k \in Cards : cards[k] = SeedCards[k]
        BY <1>1, <3>1, ActionForms DEF Reviewed, BlockReviewed
      <4>q. QED BY <1>1, <2>2, <4>1 DEF Reset, TypeOK, SeedCards
    <3>5. cardActions' = cardActions
      <4>1. \A k \in Cards : cardActions[k] = None
        BY <1>1, <3>1, ActionForms DEF Reviewed, ReissueReviewed
      <4>q. QED BY <1>1, <2>2, <4>1 DEF Reset, TypeOK
    <3>6. disputes' = disputes
      <4>1. \A d \in Disputes : filings[d] = None
        BY <2>2, <3>3 DEF Reset
      <4>2. \A d \in Disputes : disputes[d] = IF d \in SeedFiled THEN "filed" ELSE "open"
        BY <1>1, <4>1 DEF Tables, TablesAgree, DisputesMatchRows, TypeOK
      <4>q. QED BY <1>1, <2>2, <4>2 DEF Reset, TypeOK, SeedDisputes
    <3>q. QED BY <2>2, <3>2, <3>3, <3>4, <3>5, <3>6 DEF Reset, core
  <2>q. QED BY <1>1, <2>1, <2>2, StepKinds, BodyKinds DEF Idles, Arrives, Issue
<1>2. TypeOK /\ TokenInv /\ Tables /\ Reviewed /\ [Next]_vars => [Spends]_vars
  BY <1>1
<1>q. QED BY <1>2, ReviewsHold, PTL DEF Spec, EffectSpendsItsReview

---------------------------------------------------------------------------
(* What is accepted is done.                                               *)

\* A live token is for a block of a card that is not blocked by the seed, which no request
\* unblocks, or for a reissue of a card that is ready for it, or has had it since.
Offered(a) ==
  /\ a.form = "block" => a.key \notin SeedBlocked
  /\ a.form = "reissue" =>
       cardActions[a.key] # None \/ (cards[a.key].status = "blocked" /\ cards[a.key].ready)
OffersInv ==
  /\ \A k \in SeedBlocked : cards[k].status = "blocked"
  /\ \A t \in Toks : tokens[t] # None => Offered(tokens[t].action)

\* No request unblocks a card, or makes it less ready but by its reissue.
LEMMA CardsGoOn ==
  ASSUME TypeOK, IdsInv, NEW r \in Slots, Body(r), NEW k \in Cards
  PROVE  /\ cards[k].status = "blocked" => cards'[k].status = "blocked"
         /\ cardActions[k] # None => cardActions'[k] # None
         /\ cards[k].ready => cards'[k].ready \/ cardActions'[k] # None
<1>1. CASE UNCHANGED <<cards, cardActions>>
  BY <1>1
<1>2. CASE BlockCard(r)
  <2>1. PICK j : cards' = [cards EXCEPT ![j].status = "blocked", ![j].ready = TRUE]
    BY <1>2 DEF BlockCard, MarkBlocked
  <2>2. cards[k] \in Card /\ cardActions' = cardActions
    BY <1>2 DEF BlockCard, TypeOK
  <2> QED BY <2>1, <2>2 DEF TypeOK, Card
<1>3. CASE ReissueCard(r)
  <2> PICK j : j = req[r].action.key
    OBVIOUS
  <2>1. CASE cardActions[j] = None
    <3> PICK row : row = [id |-> seq + 1, case |-> LastId + 1]
      OBVIOUS
    <3> PICK card : card = [status |-> "blocked", ready |-> FALSE, case |-> LastId + 1]
      OBVIOUS
    <3>1. /\ cardActions' = [cardActions EXCEPT ![j] = row] /\ cards' = [cards EXCEPT ![j] = card]
      BY <1>3, <2>1 DEF ReissueCard, InsertCardAction, MarkReissued
    <3>2. row # None
      <4>1. seq + 1 \in Nat /\ LastId + 1 \in Nat
        BY LastIdBounds DEF TypeOK
      <4> QED BY <4>1, NoneAssumption DEF Row
    <3>3. card.status = "blocked"
      OBVIOUS
    <3> QED BY <3>1, <3>2, <3>3 DEF TypeOK
  <2>2. CASE cardActions[j] # None
    <3> PICK card : card = [status |-> "blocked", ready |-> FALSE, case |-> cardActions[j].case]
      OBVIOUS
    <3>1. cards' = [cards EXCEPT ![j] = card] /\ cardActions' = cardActions
      BY <1>3, <2>2 DEF ReissueCard, MarkReissued
    <3>2. card.status = "blocked"
      OBVIOUS
    <3> QED BY <2>2, <3>1, <3>2 DEF TypeOK
  <2> QED BY <2>1, <2>2
<1>4. CASE OpenSubAccount(r) \/ FileDispute(r) \/ UNCHANGED core
  BY <1>1, <1>4 DEF OpenSubAccount, FileDispute, core
<1> QED BY <1>2, <1>3, <1>4, BodyKinds DEF Effect

LEMMA OffersStep ==
  ASSUME TypeOK, IdsInv, TokenInv, OffersInv, [Next]_vars
  PROVE  OffersInv'
<1>c. SeedBlocked \subseteq Cards
  BY TablesAssumption
<1>k. \A t \in Toks : tokens[t] # None =>
        /\ tokens[t].action \in Action
        /\ tokens[t].action.form = "reissue" => tokens[t].action.key \in Cards
  BY ActionKeys DEF TypeOK, Issued
<1>1. CASE UNCHANGED <<tokens, core>>
  BY <1>1 DEF core, OffersInv, Offered
<1>2. CASE Reset
  <2>1. \A t \in Toks : tokens'[t] = None
    BY <1>2 DEF Reset
  <2>2. \A k \in SeedBlocked : cards'[k].status = "blocked"
    BY <1>2, <1>c DEF Reset, SeedCards
  <2> QED BY <2>1, <2>2 DEF OffersInv
<1>3. ASSUME NEW a, Legit(a), Shown(a), Issue(a) PROVE OffersInv'
  <2>1. lastTok' \in Toks
    BY <1>3, BoundsAssumption DEF Issue, Toks, TypeOK
  <2>2. /\ tokens'[lastTok'].action = a /\ UNCHANGED <<cards, cardActions>>
        /\ \A t \in Toks \ {lastTok'} : tokens'[t] = tokens[t]
    BY <1>3, <2>1 DEF Issue, core, TypeOK
  <2>3. Offered(a)'
    BY <1>3, <2>2 DEF Shown, Offered, OffersInv
  <2>4. ASSUME NEW t \in Toks, tokens'[t] # None PROVE Offered(tokens[t].action)'
    <3>1. CASE t = lastTok'
      BY <2>2, <2>3, <3>1 DEF Offered
    <3>2. CASE t # lastTok'
      <4>1. tokens'[t] = tokens[t] /\ tokens[t] # None
        BY <2>2, <2>4, <3>2
      <4> QED BY <2>2, <4>1 DEF OffersInv, Offered
    <3> QED BY <3>1, <3>2
  <2> QED BY <2>2, <2>4 DEF OffersInv
<1>4. ASSUME NEW r \in Slots, Body(r) PROVE OffersInv'
  <2>1. \A t \in Toks : tokens'[t] # None => tokens'[t] = tokens[t]
    BY <1>4, BodyKinds DEF Consume, TypeOK
  <2>2. \A k \in SeedBlocked : cards'[k].status = "blocked"
    BY <1>4, <1>c, CardsGoOn DEF OffersInv
  <2>3. ASSUME NEW t \in Toks, tokens'[t] # None PROVE Offered(tokens[t].action)'
    <3> PICK b : b = tokens[t].action
      OBVIOUS
    <3>0. tokens'[t].action = b
      BY <2>1, <2>3
    <3>1. Offered(b) /\ (b.form = "reissue" => b.key \in Cards)
      BY <1>k, <2>1, <2>3 DEF OffersInv
    <3>2. b.form = "reissue" =>
            cardActions'[b.key] # None \/ (cards'[b.key].status = "blocked" /\ cards'[b.key].ready)
      BY <1>4, <3>1, CardsGoOn DEF Offered
    <3> QED BY <3>0, <3>1, <3>2 DEF Offered
  <2> QED BY <2>1, <2>2, <2>3 DEF OffersInv
<1> QED BY <1>1, <1>2, <1>3, <1>4, StepKinds DEF Idles, Arrives

\* A request whose token is accepted leaves done what it asks for.
LEMMA BodyDone ==
  ASSUME TypeOK, IdsInv, TokenInv, Tables, Reviewed, OffersInv,
         NEW r \in Slots, NEW a, a = req[r].action, Valid(req[r].tok, a), Body(r)
  PROVE  Done(a)'
<1>1. /\ a \in Action /\ Legit(a) /\ Offered(a) /\ req[r].card = Current /\ SeenCard(r) = cards[a.key]
  <2>1. req[r] \in Request /\ req[r] # None
    BY BodyKinds DEF TypeOK
  <2>2. req[r].tok \in Toks /\ tokens[req[r].tok] # None /\ tokens[req[r].tok].action = a
    BY <2>1 DEF Valid, Request
  <2>3. req[r].card = Current
    BY <2>1, <2>2 DEF TokenInv
  <2> QED BY <2>1, <2>2, <2>3 DEF TokenInv, OffersInv, SeenCard, Request
<1>2. CASE OpenSubAccount(r)
  <2>1. a.form = "sub" /\ a.member \in Members
    BY <1>1, <1>2, ActionKeys DEF OpenSubAccount, Accepted, Has
  <2>2. subAccounts'[a.member] = subAccounts[a.member] + 1 /\ subAccounts[a.member] \in Nat
    BY <1>2, <2>1 DEF OpenSubAccount, InsertSubAccount, TypeOK
  <2>3. subAccounts'[a.member] > 0
    BY <2>2
  <2> QED BY <2>1, <2>3 DEF Done
<1>3. CASE FileDispute(r)
  <2>1. a.form = "dispute" /\ a.key \in Disputes /\ a.member = DisputeOf[a.key] /\ a.member # None
    BY <1>1, <1>3, ActionKeys, MembersAssumption DEF FileDispute, Accepted, Has, Legit
  <2>2. disputes'[a.key] = "filed"
    BY <1>3, <2>1 DEF FileDispute, MarkFiled, TypeOK
  <2>3. filings'[a.key] = a.member
    BY <1>3, <2>1 DEF FileDispute, InsertFiling, TypeOK, Reviewed, FilingReviewed
  <2> QED BY <2>1, <2>2, <2>3 DEF Done
<1>4. CASE a.form = "block" /\ (BlockCard(r) \/ UNCHANGED core)
  <2>1. /\ a.key \in Cards \ SeedBlocked /\ a.key \notin Business /\ CardOf[a.key] \notin Restricted
        /\ cards[a.key] \in Card
    BY <1>1, <1>4, ActionKeys DEF Legit, Offered, TypeOK
  <2>2. cardActions[a.key] = None <=> cards[a.key].case = NoCase
    BY <2>1 DEF Tables, TablesAgree, CardsMatchRows
  <2>3. CASE cards[a.key].status # "blocked"
    <3>1. BlockCard(r)
      <4>1. ~InvalidToken(r) /\ ~OpenSubAccount(r) /\ ~FileDispute(r) /\ ~ReissueCard(r) /\ ~ReissueIdle(r)
        BY <1>4 DEF InvalidToken, OpenSubAccount, FileDispute, ReissueCard, ReissueIdle, Accepted, Has
      <4>2. ~BlockIdle(r)
        BY <1>1, <2>1, <2>3 DEF BlockIdle
      <4> QED BY <4>1, <4>2 DEF Body
    <3>2. cardActions[a.key] = None
      BY <2>1, <2>3, RowMeansBlocked
    <3>3. /\ cards'[a.key].status = "blocked" /\ cards'[a.key].ready
          /\ cards'[a.key].case = cards[a.key].case /\ cardActions' = cardActions
      BY <2>1, <3>1 DEF BlockCard, MarkBlocked, TypeOK, Card
    <3> QED BY <1>4, <2>1, <2>2, <3>2, <3>3 DEF Done, OffersReissue
  <2>4. CASE cards[a.key].status = "blocked"
    <3>1. UNCHANGED <<cards, cardActions>>
      BY <1>1, <1>4, <2>4 DEF BlockCard, core
    <3>2. cardActions[a.key] = None => cards[a.key].ready
      BY <2>1, <2>4 DEF Tables, BlockedAreReady
    <3> QED BY <1>4, <2>1, <2>2, <2>4, <3>1, <3>2 DEF Done, OffersReissue
  <2> QED BY <2>3, <2>4
<1>5. CASE a.form = "reissue" /\ (ReissueCard(r) \/ UNCHANGED core)
  <2>1. a.key \in Cards /\ a.key \notin Business
    BY <1>1, <1>5, ActionKeys DEF Legit
  <2>2. CASE cardActions[a.key] # None
    <3>1. cardActions'[a.key] # None
      BY <2>1, <2>2, CardsGoOn
    <3> QED BY <1>5, <3>1 DEF Done
  <2>3. CASE cardActions[a.key] = None
    <3>1. cards[a.key].status = "blocked" /\ cards[a.key].ready
      BY <1>1, <1>5, <2>3 DEF Offered
    <3>2. ReissueCard(r)
      <4>1. ~InvalidToken(r) /\ ~OpenSubAccount(r) /\ ~FileDispute(r) /\ ~BlockCard(r) /\ ~BlockIdle(r)
        BY <1>5 DEF InvalidToken, OpenSubAccount, FileDispute, BlockCard, BlockIdle, Accepted, Has
      <4>2. ~ReissueIdle(r)
        BY <1>1, <2>1, <3>1 DEF ReissueIdle
      <4> QED BY <4>1, <4>2 DEF Body
    <3> PICK row : row = [id |-> seq + 1, case |-> LastId + 1]
      OBVIOUS
    <3>3. cardActions' = [cardActions EXCEPT ![a.key] = row]
      BY <2>3, <3>2 DEF ReissueCard, InsertCardAction
    <3>4. row # None
      <4>1. seq + 1 \in Nat /\ LastId + 1 \in Nat
        BY LastIdBounds DEF TypeOK
      <4> QED BY <4>1, NoneAssumption DEF Row
    <3>5. cardActions'[a.key] # None
      BY <2>1, <3>3, <3>4 DEF TypeOK
    <3> QED BY <1>5, <3>5 DEF Done
  <2> QED BY <2>2, <2>3
<1>6. \/ OpenSubAccount(r) \/ FileDispute(r)
      \/ a.form = "block" /\ (BlockCard(r) \/ UNCHANGED core)
      \/ a.form = "reissue" /\ (ReissueCard(r) \/ UNCHANGED core)
  BY DEF Body, InvalidToken, BlockCard, BlockIdle, ReissueCard, ReissueIdle, Accepted, Has
<1> QED BY <1>2, <1>3, <1>4, <1>5, <1>6

LEMMA OffersStand == Spec => [](TypeOK /\ IdsInv /\ TokenInv /\ Tables /\ Reviewed /\ OffersInv)
<1>1. Init => OffersInv
  BY TablesAssumption DEF Init, OffersInv, SeedCards
<1> QED BY <1>1, OffersStep, TablesStand, ReviewsHold, PTL DEF Spec

\* A confirmation that is accepted leaves done what was reviewed, whatever other posts and
\* resets do between the review, the post and its body (server.ts 546-562, 615-652, 786-876).
THEOREM AcceptedAreDone == Spec => AcceptedIsDone
<1> DEFINE Accepts ==
      \A r \in Slots, a \in Action :
        req[r] # None /\ req[r].action = a /\ Valid(req[r].tok, a) /\ req'[r] = None => Done(a)'
<1>1. ASSUME TypeOK, IdsInv, TokenInv, Tables, Reviewed, OffersInv, [Next]_vars PROVE Accepts
  <2> SUFFICES ASSUME NEW r \in Slots, NEW a \in Action, req[r] # None, req[r].action = a,
                      Valid(req[r].tok, a), req'[r] = None
               PROVE  Done(a)'
    OBVIOUS
  <2>1. \E q \in Slots : Body(q)
    <3>1. CASE Idles \/ \E b : Issue(b)
      BY <3>1 DEF Idles, Issue
    <3>2. ASSUME NEW q \in Slots, NEW b \in Action, NEW tok \in Toks, Arrives(q, b, tok) PROVE FALSE
      BY <1>1, <3>2 DEF Arrives, TypeOK
    <3>3. CASE Reset
      <4>1. req[r] \in Request /\ (req[r].action.form \in {"block", "reissue"} => req[r].action.key \in Cards)
        BY <1>1, ActionKeys DEF TypeOK
      <4>2. req'[r] \in Request
        <5>1. CASE req[r].action.form \in {"block", "reissue"} /\ req[r].card = Current
          <6>1. PICK card \in Card : card = cards[req[r].action.key]
            BY <1>1, <4>1, <5>1 DEF TypeOK
          <6>2. req'[r] = [req[r] EXCEPT !.card = card]
            BY <3>3, <5>1, <6>1 DEF Reset
          <6> QED BY <4>1, <6>2 DEF Request
        <5>2. CASE ~(req[r].action.form \in {"block", "reissue"} /\ req[r].card = Current)
          BY <3>3, <4>1, <5>2 DEF Reset
        <5> QED BY <5>1, <5>2
      <4> QED BY <4>2, NoneAssumption
    <3> QED BY <1>1, <3>1, <3>2, <3>3, StepKinds
  <2>2. PICK q \in Slots : Body(q)
    BY <2>1
  <2>3. q = r
    BY <1>1, <2>2, BodyKinds DEF Consume, TypeOK
  <2> QED BY <1>1, <2>2, <2>3, BodyDone
<1>2. TypeOK /\ IdsInv /\ TokenInv /\ Tables /\ Reviewed /\ OffersInv /\ [Next]_vars => [Accepts]_vars
  BY <1>1
<1> QED BY <1>2, OffersStand, PTL DEF Spec, AcceptedIsDone

---------------------------------------------------------------------------
(* The pages of a list.                                                    *)

\* As many pages as it takes, and no more.
LEMMA CeilBounds ==
  ASSUME NEW a \in Nat, NEW b \in Nat \ {0}
  PROVE  /\ Ceil(a, b) \in Nat
         /\ a <= Ceil(a, b) * b /\ Ceil(a, b) * b - b < a
         /\ a # 0 => Ceil(a, b) # 0
<1> DEFINE q == (a + b - 1) \div b
<1>1. q \in Int /\ q * b <= a + b - 1 /\ a + b - 1 < q * b + b
  BY SMTT(30)
<1> HIDE DEF q
<1>2. a <= q * b /\ q * b - b < a
  BY <1>1
<1>3. q >= 0
  <2>1. q <= -1 => q * b <= -b
    BY <1>1, SMTT(30)
  <2> QED BY <1>1, <1>2, <2>1
<1>4. a # 0 => q # 0
  BY <1>2
<1> QED BY <1>1, <1>2, <1>3, <1>4 DEF Ceil, q

\* Where page n of the rows ends.
Cut(rows, n) == IF n * PageSize < Len(rows) THEN n * PageSize ELSE Len(rows)

LEMMA PageCounts ==
  ASSUME NEW rows \in Seq(Members)
  PROVE  /\ PageCount(rows) \in Nat \ {0}
         /\ Len(rows) <= PageCount(rows) * PageSize
         /\ PageCount(rows) * PageSize - PageSize <= Len(rows)
<1>1. Len(rows) \in Nat /\ PageSize \in Nat \ {0}
  BY PagesAssumption
<1>2. CASE rows = <<>>
  BY <1>1, <1>2 DEF PageCount
<1>3. CASE rows # <<>>
  <2>1. Len(rows) # 0 /\ PageCount(rows) = Ceil(Len(rows), PageSize)
    BY <1>3 DEF PageCount
  <2> PICK c : c = Ceil(Len(rows), PageSize)
    OBVIOUS
  <2>2. /\ c \in Nat /\ c # 0
        /\ Len(rows) <= c * PageSize /\ c * PageSize - PageSize < Len(rows)
    BY <1>1, <2>1, CeilBounds
  <2>3. c * PageSize - PageSize <= Len(rows)
    <3>1. c * PageSize \in Int
      BY <1>1, <2>2
    <3> QED BY <1>1, <2>2, <3>1
  <2> QED BY <2>1, <2>2, <2>3
<1> QED BY <1>2, <1>3

\* Page n is what lies between the end of the page before it and its own.
LEMMA PaginateCuts ==
  ASSUME NEW rows \in Seq(Members), NEW n \in 1..PageCount(rows)
  PROVE  /\ Paginate(rows, n) = SubSeq(rows, Cut(rows, n - 1) + 1, Cut(rows, n))
         /\ Cut(rows, n - 1) \in 0..Cut(rows, n) /\ Cut(rows, n) \in 0..Len(rows)
         /\ Cut(rows, n) - Cut(rows, n - 1) <= PageSize
<1> DEFINE pages == PageCount(rows)
           start == (n - 1) * PageSize
<1>1. Len(rows) \in Nat /\ PageSize \in Nat \ {0} /\ pages \in Nat \ {0}
      /\ pages * PageSize - PageSize <= Len(rows) /\ n # None
  BY PagesAssumption, PageCounts
<1>2. n \in Int /\ 1 <= n /\ n <= pages
  BY <1>1
<1> HIDE DEF pages
<1>3. start + PageSize = n * PageSize /\ start \in Nat
  BY <1>1, <1>2, SMTT(30)
<1>4. start <= Len(rows)
  <2>1. n * PageSize <= pages * PageSize
    BY <1>1, <1>2, SMTT(30)
  <2>2. n * PageSize \in Int /\ pages * PageSize \in Int
    BY <1>1, <1>2
  <2> HIDE DEF start
  <2> QED BY <1>1, <1>3, <2>1, <2>2
<1>5. Clamp(n, PageCount(rows)) = n
  BY <1>1, <1>2 DEF Clamp, pages
<1>6. Paginate(rows, n) = SubSeq(rows, start + 1, IF start + PageSize < Len(rows) THEN start + PageSize ELSE Len(rows))
  BY <1>1, <1>5 DEF Paginate
<1>7. Cut(rows, n - 1) = start
  <2>1. Cut(rows, n - 1) = IF start < Len(rows) THEN start ELSE Len(rows)
    BY DEF Cut
  <2> HIDE DEF start
  <2> QED BY <1>1, <1>3, <1>4, <2>1
<1>8. Cut(rows, n) = IF start + PageSize < Len(rows) THEN start + PageSize ELSE Len(rows)
  BY <1>3 DEF Cut
<1> DEFINE end == IF start + PageSize < Len(rows) THEN start + PageSize ELSE Len(rows)
<1>9. start \in 0..end /\ end \in 0..Len(rows) /\ end - start <= PageSize
  <2> HIDE DEF start
  <2> QED BY <1>1, <1>3, <1>4
<1> HIDE DEF start, end
<1>10. Paginate(rows, n) = SubSeq(rows, start + 1, end) /\ Cut(rows, n - 1) = start /\ Cut(rows, n) = end
  BY <1>6, <1>7, <1>8 DEF end
<1> QED BY <1>9, <1>10

\* A page holds at most PageSize rows, whatever its number, and a number outside the pages
\* is that of the nearest page.
LEMMA PagesClamped ==
  ASSUME NEW rows \in Seq(Members), NEW n \in Int
  PROVE  /\ Len(Paginate(rows, n)) <= PageSize
         /\ n < 1 => Paginate(rows, n) = Paginate(rows, 1)
         /\ n > PageCount(rows) => Paginate(rows, n) = Paginate(rows, PageCount(rows))
<1> DEFINE pages == PageCount(rows)
<1>1. pages \in Nat \ {0} /\ n # None /\ 1 # None /\ pages # None
  BY PagesAssumption, PageCounts
<1>2. ASSUME NEW m \in Int, NEW k \in Int, Clamp(m, pages) = Clamp(k, pages)
      PROVE  Paginate(rows, m) = Paginate(rows, k)
  BY <1>2, PagesAssumption DEF Paginate, pages
<1>3. \A m \in 1..pages : Len(Paginate(rows, m)) <= PageSize
  <2> SUFFICES ASSUME NEW m \in 1..pages PROVE Len(Paginate(rows, m)) <= PageSize
    OBVIOUS
  <2>1. /\ Paginate(rows, m) = SubSeq(rows, Cut(rows, m - 1) + 1, Cut(rows, m))
        /\ Cut(rows, m - 1) \in 0..Cut(rows, m) /\ Cut(rows, m) \in 0..Len(rows)
        /\ Cut(rows, m) - Cut(rows, m - 1) <= PageSize
    BY PaginateCuts
  <2> PICK lo : lo = Cut(rows, m - 1)
    OBVIOUS
  <2> PICK hi : hi = Cut(rows, m)
    OBVIOUS
  <2>2. Len(rows) \in Nat /\ lo \in 0..hi /\ hi \in 0..Len(rows) /\ hi - lo <= PageSize
    BY <2>1
  <2>3. lo + 1 \in 1..Len(rows) + 1 /\ hi \in (lo + 1) - 1..Len(rows)
    BY <2>2
  <2>4. Len(SubSeq(rows, lo + 1, hi)) = hi - (lo + 1) + 1
    BY <2>3, Slice
  <2> QED BY <2>1, <2>2, <2>4
<1> HIDE DEF pages
<1>4. CASE n < 1
  <2>1. Clamp(n, pages) = Clamp(1, pages) /\ 1 \in 1..pages /\ ~(n > pages)
    BY <1>1, <1>4 DEF Clamp
  <2> QED BY <1>2, <1>3, <1>4, <2>1 DEF pages
<1>5. CASE n > pages
  <2>1. Clamp(n, pages) = Clamp(pages, pages) /\ pages \in 1..pages /\ pages \in Int /\ ~(n < 1)
    BY <1>1, <1>5 DEF Clamp
  <2> QED BY <1>2, <1>3, <1>5, <2>1 DEF pages
<1>6. CASE n \in 1..pages
  BY <1>3, <1>6, <1>1 DEF pages
<1> QED BY <1>1, <1>4, <1>5, <1>6

\* One page after the other is the whole list.
LEMMA PagesJoin ==
  ASSUME NEW rows \in Seq(Members)
  PROVE  LET pages == PageCount(rows)
             shown[n \in 0..pages] == IF n = 0 THEN <<>> ELSE shown[n - 1] \o Paginate(rows, n)
         IN shown[pages] = rows
<1> DEFINE pages == PageCount(rows)
           Equation(f) == f = [n \in 0..pages |->
                                 IF n = 0 THEN <<>> ELSE f[n - 1] \o Paginate(rows, n)]
           shown == CHOOSE f : Equation(f)
           upTo == [n \in 0..pages |-> SubSeq(rows, 1, Cut(rows, n))]
           T == {n \in 0..pages : shown[n] = SubSeq(rows, 1, Cut(rows, n))}
<1>1. pages \in Nat \ {0} /\ PageSize \in Nat \ {0} /\ Len(rows) \in Nat
  BY PageCounts, PagesAssumption
<1>2. Cut(rows, 0) = 0 /\ SubSeq(rows, 1, 0) = <<>>
  BY <1>1, SubSeqEmpty DEF Cut
<1>3. ASSUME NEW n \in 1..pages
      PROVE  SubSeq(rows, 1, Cut(rows, n - 1)) \o Paginate(rows, n) = SubSeq(rows, 1, Cut(rows, n))
  <2>1. /\ Paginate(rows, n) = SubSeq(rows, Cut(rows, n - 1) + 1, Cut(rows, n))
        /\ Cut(rows, n - 1) \in 0..Cut(rows, n) /\ Cut(rows, n) \in 0..Len(rows)
    BY PaginateCuts
  <2> PICK lo : lo = Cut(rows, n - 1)
    OBVIOUS
  <2> PICK hi : hi = Cut(rows, n)
    OBVIOUS
  <2>2. 1 \in 1..Len(rows) + 1 /\ lo \in 1 - 1..Len(rows) /\ hi \in lo..Len(rows)
    BY <1>1, <2>1
  <2>3. SubSeq(rows, 1, lo) \o SubSeq(rows, lo + 1, hi) = SubSeq(rows, 1, hi)
    BY <2>2, ConcatAdjacentSubSeq
  <2> QED BY <2>1, <2>3
<1>4. Equation(upTo)
  <2>1. ASSUME NEW n \in 0..pages
        PROVE  upTo[n] = IF n = 0 THEN <<>> ELSE upTo[n - 1] \o Paginate(rows, n)
    <3>1. CASE n = 0
      BY <1>2, <3>1
    <3>2. CASE n # 0
      <4>1. n \in 1..pages /\ n - 1 \in 0..pages
        BY <1>1, <3>2
      <4> QED BY <1>3, <3>2, <4>1
    <3> QED BY <3>1, <3>2
  <2> QED BY <2>1
<1>5. Equation(shown)
  <2> HIDE DEF Equation, upTo
  <2> QED BY <1>4
<1>6. shown[0] = <<>> /\ \A n \in 1..pages : shown[n] = shown[n - 1] \o Paginate(rows, n)
  <2> HIDE DEF shown
  <2>1. \A n \in 0..pages : shown[n] = IF n = 0 THEN <<>> ELSE shown[n - 1] \o Paginate(rows, n)
    BY <1>5
  <2>2. 0 \in 0..pages /\ \A n \in 1..pages : n \in 0..pages /\ n # 0
    BY <1>1
  <2> QED BY <2>1, <2>2
<1> HIDE DEF shown
<1>7. 0 \in T
  <2>1. 0 \in 0..pages
    BY <1>1
  <2>2. shown[0] = SubSeq(rows, 1, Cut(rows, 0))
    BY <1>2, <1>6
  <2> QED BY <2>1, <2>2
<1>8. ASSUME NEW n \in 1..pages, n - 1 \in T PROVE n \in T
  <2>1. n \in 0..pages
    BY <1>1
  <2> QED BY <1>3, <1>6, <1>8, <2>1
<1> HIDE DEF T
<1>9. \A n \in 0..pages : n \in T
  BY <1>1, <1>7, <1>8, Induction, Zenon
<1>10. pages \in T
  BY <1>1, <1>9
<1>11. Cut(rows, pages) = Len(rows)
  BY <1>1, PageCounts DEF Cut
<1>12. shown[pages] = rows
  BY <1>10, <1>11, SubSeqFull DEF T
<1> QED BY <1>12 DEF shown

LEMMA ListsComplete == ListsAreComplete
<1> SUFFICES ASSUME NEW q \in Queries
             PROVE  LET rows == SearchMembers(q)
                        pages == PageCount(rows)
                        shown[n \in 0..pages] == IF n = 0 THEN <<>> ELSE shown[n - 1] \o Paginate(rows, n)
                    IN /\ shown[pages] = rows
                       /\ \A n \in PageNumbers \ {None} :
                            /\ Len(Paginate(rows, n)) <= PageSize
                            /\ n < 1 => Paginate(rows, n) = Paginate(rows, 1)
                            /\ n > pages => Paginate(rows, n) = Paginate(rows, pages)
  BY Zenon DEF ListsAreComplete
<1>1. SearchMembers(q) \in Seq(Members)
  BY PagesAssumption, PickedKept DEF SearchMembers, Listed
<1>2. \A n \in PageNumbers \ {None} : n \in Int
  BY PagesAssumption DEF PageNumbers
<1> DEFINE rows == SearchMembers(q)
<1>3. ASSUME NEW n \in PageNumbers \ {None}
      PROVE  /\ Len(Paginate(rows, n)) <= PageSize
             /\ n < 1 => Paginate(rows, n) = Paginate(rows, 1)
             /\ n > PageCount(rows) => Paginate(rows, n) = Paginate(rows, PageCount(rows))
  <2>1. n \in Int /\ rows \in Seq(Members)
    BY <1>1, <1>2
  <2> HIDE DEF rows
  <2> QED BY <2>1, PagesClamped
<1>4. LET pages == PageCount(rows)
          shown[n \in 0..pages] == IF n = 0 THEN <<>> ELSE shown[n - 1] \o Paginate(rows, n)
      IN shown[pages] = rows
  <2>1. rows \in Seq(Members)
    BY <1>1
  <2> HIDE DEF rows
  <2> QED BY <2>1, PagesJoin, Zenon
<1> QED BY <1>3, <1>4, Zenon

\* Where on the pages of a list a member stands.
Stands(rows, m, n, i) ==
  /\ n \in 1..PageCount(rows) /\ i \in 1..Len(Paginate(rows, n))
  /\ Paginate(rows, n)[i] = m

\* A list has whom it is for, each once.
LEMMA ListsThem ==
  ASSUME NEW S
  PROVE  LET rows == Listed(S) IN
         /\ rows \in Seq(Members)
         /\ \A i, k \in 1..Len(rows) : rows[i] = rows[k] => i = k
         /\ \A i \in 1..Len(rows) : rows[i] \in S
         /\ \A r \in 1..Len(Roster) : Roster[r] \in S =>
              \E i \in 1..Len(rows) : rows[i] = Roster[r]
<1> DEFINE I == {i \in DOMAIN Roster : Roster[i] \in S}
           rows == Picked(Roster, I)
<1>1. Listed(S) = rows
  BY DEF Listed
<1>2. /\ Roster \in Seq(Members) /\ DOMAIN Roster = 1..Len(Roster) /\ Len(Roster) \in Nat
      /\ \A i, k \in 1..Len(Roster) : Roster[i] = Roster[k] => i = k
  BY PagesAssumption
<1>3. \A r \in 1..Len(Roster) : r \in I <=> Roster[r] \in S
  BY <1>2
<1> HIDE DEF I
<1>4. rows \in Seq(Members) /\ \E f : Places(f, rows, Len(Roster), Roster, I)
  BY <1>2, PickedKept, PickedWhole
<1> HIDE DEF rows
<1>5. PICK f : Places(f, rows, Len(Roster), Roster, I)
  BY <1>4
<1>6. /\ \A i \in 1..Len(rows) : f[i] \in 1..Len(Roster) /\ f[i] \in I /\ rows[i] = Roster[f[i]]
      /\ \A i, k \in 1..Len(rows) : i < k => f[i] < f[k]
      /\ \A r \in 1..Len(Roster) : r \in I => \E i \in 1..Len(rows) : f[i] = r
  BY <1>5 DEF Places
<1>7. ASSUME NEW i \in 1..Len(rows), NEW k \in 1..Len(rows), rows[i] = rows[k] PROVE i = k
  <2>1. f[i] = f[k] /\ f[i] \in Int
    BY <1>2, <1>6, <1>7
  <2>2. ~(f[i] < f[k]) /\ ~(f[k] < f[i])
    BY <2>1
  <2>3. ~(i < k) /\ ~(k < i) /\ Len(rows) \in Nat
    BY <1>4, <1>6, <2>2
  <2> QED BY <2>3
<1>8. \A i \in 1..Len(rows) : rows[i] \in S
  BY <1>3, <1>6
<1>9. \A r \in 1..Len(Roster) : Roster[r] \in S => \E i \in 1..Len(rows) : rows[i] = Roster[r]
  BY <1>3, <1>6
<1> QED BY <1>1, <1>4, <1>7, <1>8, <1>9

\* A list names whom it is for, each once.
IsListOf(rows, S) ==
  /\ rows \in Seq(Members) /\ Len(rows) \in Nat
  /\ \A i, k \in 1..Len(rows) : rows[i] = rows[k] => i = k
  /\ \A i \in 1..Len(rows) : rows[i] \in S
  /\ \A m \in Members \cap S : \E i \in 1..Len(rows) : rows[i] = m

LEMMA ListsAll ==
  ASSUME NEW S
  PROVE  IsListOf(Listed(S), S)
<1>1. \A m \in Members : \E r \in 1..Len(Roster) : Roster[r] = m
  BY PagesAssumption
<1>2. /\ Listed(S) \in Seq(Members)
      /\ \A i, k \in 1..Len(Listed(S)) : Listed(S)[i] = Listed(S)[k] => i = k
      /\ \A i \in 1..Len(Listed(S)) : Listed(S)[i] \in S
      /\ \A r \in 1..Len(Roster) : Roster[r] \in S =>
           \E i \in 1..Len(Listed(S)) : Listed(S)[i] = Roster[r]
  BY ListsThem
<1> HIDE DEF Listed
<1>3. Len(Listed(S)) \in Nat
  BY <1>2
<1>4. ASSUME NEW m \in Members \cap S
      PROVE  \E i \in 1..Len(Listed(S)) : Listed(S)[i] = m
  BY <1>1, <1>2, <1>4
<1> QED BY <1>2, <1>3, <1>4 DEF IsListOf

LEMMA SearchLists ==
  ASSUME NEW q \in Queries
  PROVE  LET rows == SearchMembers(q) IN
         /\ rows \in Seq(Members)
         /\ \A i, k \in 1..Len(rows) : rows[i] = rows[k] => i = k
         /\ \A i \in 1..Len(rows) : rows[i] \in Wanted(q)
         /\ \A r \in 1..Len(Roster) : Roster[r] \in Wanted(q) =>
              \E i \in 1..Len(rows) : rows[i] = Roster[r]
<1>1. SearchMembers(q) = Listed(Wanted(q))
  BY DEF SearchMembers, Wanted
<1> QED BY <1>1, ListsThem

\* A list ends no earlier on a later page.
LEMMA CutsGrow ==
  ASSUME NEW rows \in Seq(Members), NEW n \in Nat, NEW k \in Nat, n <= k
  PROVE  Cut(rows, n) <= Cut(rows, k) /\ Cut(rows, n) \in Nat
<1>1. PageSize \in Nat /\ Len(rows) \in Nat
  BY PagesAssumption
<1>2. n * PageSize <= k * PageSize /\ n * PageSize \in Nat /\ k * PageSize \in Nat
  BY <1>1, SMTT(30)
<1> QED BY <1>1, <1>2 DEF Cut

\* The rows on page n.
LEMMA PageRows ==
  ASSUME NEW rows \in Seq(Members), NEW n \in 1..PageCount(rows)
  PROVE  /\ Cut(rows, n - 1) \in Nat /\ Cut(rows, n) \in Nat
         /\ Cut(rows, n - 1) <= Cut(rows, n) /\ Cut(rows, n) <= Len(rows)
         /\ Len(Paginate(rows, n)) = Cut(rows, n) - Cut(rows, n - 1)
         /\ \A i \in 1..Cut(rows, n) - Cut(rows, n - 1) :
              Paginate(rows, n)[i] = rows[Cut(rows, n - 1) + i]
<1> PICK lo : lo = Cut(rows, n - 1)
  OBVIOUS
<1> PICK hi : hi = Cut(rows, n)
  OBVIOUS
<1>1. Paginate(rows, n) = SubSeq(rows, lo + 1, hi) /\ lo \in 0..hi /\ hi \in 0..Len(rows)
  BY PaginateCuts
<1>0. lo \in Int /\ hi \in Int /\ Len(rows) \in Nat
  BY <1>1
<1>2. /\ lo + 1 \in 1..Len(rows) + 1 /\ hi \in (lo + 1) - 1..Len(rows)
      /\ lo \in Nat /\ hi \in Nat /\ lo <= hi /\ hi <= Len(rows)
  BY <1>0, <1>1
<1>3. /\ Len(SubSeq(rows, lo + 1, hi)) = hi - (lo + 1) + 1
      /\ \A i \in 1..hi - (lo + 1) + 1 : SubSeq(rows, lo + 1, hi)[i] = rows[(lo + 1) + i - 1]
  BY <1>2, Slice
<1>4. hi - (lo + 1) + 1 = hi - lo
  BY <1>0
<1>5. Len(Paginate(rows, n)) = hi - lo
  BY <1>1, <1>3, <1>4
<1>6. ASSUME NEW i \in 1..hi - lo PROVE Paginate(rows, n)[i] = rows[lo + i]
  <2>1. SubSeq(rows, lo + 1, hi)[i] = rows[(lo + 1) + i - 1]
    BY <1>3, <1>4
  <2>2. (lo + 1) + i - 1 = lo + i
    BY <1>0
  <2> QED BY <1>1, <2>1, <2>2
<1> QED BY <1>2, <1>5, <1>6

\* Each row of a list stands on one of its pages, and on that one only.
LEMMA RowStandsOnce ==
  ASSUME NEW rows \in Seq(Members), NEW r \in 1..Len(rows),
         \A i, k \in 1..Len(rows) : rows[i] = rows[k] => i = k
  PROVE  \E n, i : /\ Stands(rows, rows[r], n, i)
                   /\ \A o, k : Stands(rows, rows[r], o, k) => o = n /\ k = i
<1> DEFINE pages == PageCount(rows)
           Ends == {n \in 0..pages : r <= Cut(rows, n)}
<1>1. /\ pages \in Nat \ {0} /\ PageSize \in Nat \ {0} /\ Len(rows) \in Nat /\ r \in Nat \ {0}
      /\ Cut(rows, 0) = 0 /\ Cut(rows, pages) = Len(rows)
  BY PageCounts, PagesAssumption DEF Cut
<1>2. ASSUME NEW n \in 1..pages
      PROVE  /\ Cut(rows, n - 1) \in Nat /\ Cut(rows, n) \in Nat
             /\ Cut(rows, n - 1) <= Cut(rows, n) /\ Cut(rows, n) <= Len(rows)
             /\ Len(Paginate(rows, n)) = Cut(rows, n) - Cut(rows, n - 1)
             /\ \A i \in 1..Cut(rows, n) - Cut(rows, n - 1) :
                  Paginate(rows, n)[i] = rows[Cut(rows, n - 1) + i]
  BY PageRows
<1>3. ASSUME NEW o, NEW k, Stands(rows, rows[r], o, k)
      PROVE  /\ o \in 1..pages /\ Cut(rows, o - 1) < r /\ r <= Cut(rows, o)
             /\ k = r - Cut(rows, o - 1)
  <2>1. o \in 1..pages /\ k \in 1..Cut(rows, o) - Cut(rows, o - 1)
        /\ rows[Cut(rows, o - 1) + k] = rows[r]
    BY <1>2, <1>3 DEF Stands
  <2>2. Cut(rows, o - 1) + k \in 1..Len(rows)
    BY <1>1, <1>2, <2>1
  <2>3. Cut(rows, o - 1) + k = r
    BY <2>1, <2>2
  <2> QED BY <1>1, <1>2, <2>1, <2>3
<1>4. PICK n \in Ends : \A m \in Ends : n <= m
  <2>1. Ends \in SUBSET Nat
    BY <1>1
  <2>2. pages \in Ends
    BY <1>1
  <2> HIDE DEF Ends
  <2> QED BY <2>1, <2>2, LeastElement
<1> HIDE DEF pages
<1>5. n \in 1..pages /\ Cut(rows, n - 1) < r /\ r <= Cut(rows, n)
  <2>1. n \in 0..pages /\ r <= Cut(rows, n) /\ n # 0
    BY <1>1, <1>4
  <2>2. n \in 1..pages /\ n - 1 \in 0..pages /\ ~(n <= n - 1)
    BY <1>1, <2>1
  <2>3. ~(r <= Cut(rows, n - 1))
    BY <1>4, <2>2
  <2> QED BY <1>1, <1>2, <2>1, <2>2, <2>3
<1> DEFINE i == r - Cut(rows, n - 1)
<1>6. Stands(rows, rows[r], n, i)
  <2>1. i \in 1..Cut(rows, n) - Cut(rows, n - 1) /\ Cut(rows, n - 1) + i = r
    BY <1>1, <1>2, <1>5
  <2> QED BY <1>2, <1>5, <2>1 DEF Stands, pages
<1>7. \A x \in Nat : \A y \in Nat : x <= y =>
        Cut(rows, x) <= Cut(rows, y) /\ Cut(rows, x) \in Nat /\ Cut(rows, y) \in Nat
  <2>1. \A y \in Nat : Cut(rows, y) \in Nat
    BY <1>1 DEF Cut
  <2> QED BY <2>1, CutsGrow, Zenon
<1>8. ASSUME NEW o, NEW k, Stands(rows, rows[r], o, k) PROVE o = n /\ k = i
  <2>1. /\ o \in 1..pages /\ Cut(rows, o - 1) < r /\ r <= Cut(rows, o)
        /\ k = r - Cut(rows, o - 1)
    BY <1>3, <1>8 DEF pages
  <2>2. /\ o \in Nat /\ n \in Nat /\ o - 1 \in Nat /\ n - 1 \in Nat
        /\ o < n => o <= n - 1
        /\ n < o => n <= o - 1
    BY <1>1, <1>5, <2>1
  <2>3. ASSUME o < n PROVE FALSE
    <3>0. o \in Nat /\ n - 1 \in Nat /\ o <= n - 1
      BY <2>2, <2>3
    <3>1. Cut(rows, o) <= Cut(rows, n - 1) /\ Cut(rows, o) \in Nat /\ Cut(rows, n - 1) \in Nat
      BY <3>0, <1>7, Zenon
    <3>2. r \in Nat
      BY <1>1
    <3> QED BY <3>1, <3>2, <2>1, <1>5
  <2>4. ASSUME n < o PROVE FALSE
    <3>0. n \in Nat /\ o - 1 \in Nat /\ n <= o - 1
      BY <2>2, <2>4
    <3>1. Cut(rows, n) <= Cut(rows, o - 1) /\ Cut(rows, n) \in Nat /\ Cut(rows, o - 1) \in Nat
      BY <3>0, <1>7, Zenon
    <3>2. r \in Nat
      BY <1>1
    <3> QED BY <3>1, <3>2, <2>1, <1>5
  <2>5. o = n
    BY <2>2, <2>3, <2>4
  <2> QED BY <2>1, <2>5
<1> QED BY <1>6, <1>8

\* Each member a search is for stands at one place of one of its pages, and nobody else is on
\* any of them (data.ts 202-223, 296-304).
THEOREM SearchShowsEachOnce ==
  ASSUME NEW q \in Queries
  PROVE  /\ \A m, n, i : Stands(SearchMembers(q), m, n, i) => m \in Wanted(q)
         /\ \A r \in 1..Len(Roster) : Roster[r] \in Wanted(q) =>
              \E n, i : /\ Stands(SearchMembers(q), Roster[r], n, i)
                       /\ \A o, k : Stands(SearchMembers(q), Roster[r], o, k) => o = n /\ k = i
<1> PICK rows : rows = SearchMembers(q)
  OBVIOUS
<1>1. /\ rows \in Seq(Members)
      /\ \A i, k \in 1..Len(rows) : rows[i] = rows[k] => i = k
      /\ \A i \in 1..Len(rows) : rows[i] \in Wanted(q)
      /\ \A r \in 1..Len(Roster) : Roster[r] \in Wanted(q) =>
           \E i \in 1..Len(rows) : rows[i] = Roster[r]
  BY SearchLists
<1>2. ASSUME NEW m, NEW n, NEW i, Stands(rows, m, n, i) PROVE m \in Wanted(q)
  <2>1. /\ n \in 1..PageCount(rows) /\ i \in 1..Len(Paginate(rows, n))
        /\ Paginate(rows, n)[i] = m
    BY <1>2 DEF Stands
  <2>2. /\ Cut(rows, n - 1) \in Nat /\ Cut(rows, n) \in Nat /\ Cut(rows, n) <= Len(rows)
        /\ Len(Paginate(rows, n)) = Cut(rows, n) - Cut(rows, n - 1)
        /\ \A k \in 1..Cut(rows, n) - Cut(rows, n - 1) :
             Paginate(rows, n)[k] = rows[Cut(rows, n - 1) + k]
    BY <1>1, <2>1, PageRows
  <2>3. m = rows[Cut(rows, n - 1) + i]
    BY <2>1, <2>2
  <2>4. Cut(rows, n - 1) + i \in 1..Len(rows)
    BY <1>1, <2>1, <2>2
  <2> QED BY <1>1, <2>3, <2>4
<1>3. ASSUME NEW r \in 1..Len(Roster), Roster[r] \in Wanted(q)
      PROVE  \E n, i : /\ Stands(rows, Roster[r], n, i)
                      /\ \A o, k : Stands(rows, Roster[r], o, k) => o = n /\ k = i
  <2>1. PICK x \in 1..Len(rows) : rows[x] = Roster[r]
    BY <1>1, <1>3
  <2>2. \E n, i : /\ Stands(rows, rows[x], n, i)
                  /\ \A o, k : Stands(rows, rows[x], o, k) => o = n /\ k = i
    BY <1>1, RowStandsOnce
  <2> QED BY <2>1, <2>2
<1> QED BY <1>2, <1>3

---------------------------------------------------------------------------
(* Searches.                                                               *)

OnPage(rows, n) == {Paginate(rows, n)[i] : i \in DOMAIN Paginate(rows, n)}

\* The pages of a list show whom it is for; no page of several shows them all.
LEMMA PagesShow ==
  ASSUME NEW S \in SUBSET Members
  PROVE  LET rows == Listed(S) IN
         /\ \A n \in 1..PageCount(rows) : OnPage(rows, n) \subseteq S
         /\ \A m \in S : \E n \in 1..PageCount(rows) : m \in OnPage(rows, n)
         /\ PageCount(rows) > 1 => \E m \in S : m \notin OnPage(rows, 1)
<1> PICK rows : rows = Listed(S)
  OBVIOUS
<1>1. /\ rows \in Seq(Members)
      /\ \A i, k \in 1..Len(rows) : rows[i] = rows[k] => i = k
      /\ \A i \in 1..Len(rows) : rows[i] \in S
      /\ \A m \in S : \E i \in 1..Len(rows) : rows[i] = m
  <2>1. IsListOf(rows, S)
    BY ListsAll
  <2> QED BY <2>1 DEF IsListOf
<1>2. /\ PageCount(rows) \in Nat \ {0} /\ Len(rows) \in Nat /\ PageSize \in Nat \ {0}
      /\ \A n \in 1..PageCount(rows) : n \in Nat
  BY <1>1, PageCounts, PagesAssumption
<1>3. ASSUME NEW n \in 1..PageCount(rows), NEW m
      PROVE  m \in OnPage(rows, n) <=> \E i : Stands(rows, m, n, i)
  <2>1. DOMAIN Paginate(rows, n) = 1..Len(Paginate(rows, n))
    <3>1. Paginate(rows, n) = SubSeq(rows, Cut(rows, n - 1) + 1, Cut(rows, n))
          /\ Cut(rows, n - 1) \in 0..Cut(rows, n) /\ Cut(rows, n) \in 0..Len(rows)
      BY <1>1, PaginateCuts
    <3> PICK lo : lo = Cut(rows, n - 1)
      OBVIOUS
    <3> PICK hi : hi = Cut(rows, n)
      OBVIOUS
    <3>2. lo + 1 \in 1..Len(rows) + 1 /\ hi \in (lo + 1) - 1..Len(rows)
      BY <1>2, <3>1
    <3>3. SubSeq(rows, lo + 1, hi) \in Seq(Members)
      BY <1>1, <3>2, SubSeqProperties
    <3> QED BY <3>1, <3>3
  <2> QED BY <1>3, <2>1 DEF OnPage, Stands
<1>4. ASSUME NEW n \in 1..PageCount(rows), NEW m \in OnPage(rows, n) PROVE m \in S
  <2>1. PICK i : Stands(rows, m, n, i)
    BY <1>3
  <2>2. i \in 1..Len(Paginate(rows, n)) /\ Paginate(rows, n)[i] = m
    BY <2>1 DEF Stands
  <2>3. /\ Cut(rows, n - 1) \in Nat /\ Cut(rows, n) \in Nat /\ Cut(rows, n) <= Len(rows)
        /\ Len(Paginate(rows, n)) = Cut(rows, n) - Cut(rows, n - 1)
        /\ \A k \in 1..Cut(rows, n) - Cut(rows, n - 1) :
             Paginate(rows, n)[k] = rows[Cut(rows, n - 1) + k]
    BY <1>1, PageRows
  <2>4. m = rows[Cut(rows, n - 1) + i] /\ Cut(rows, n - 1) + i \in 1..Len(rows)
    BY <1>2, <2>2, <2>3
  <2> QED BY <1>1, <2>4
<1>5. ASSUME NEW r \in 1..Len(rows)
      PROVE  \E n, i : /\ Stands(rows, rows[r], n, i)
                       /\ \A o, k : Stands(rows, rows[r], o, k) => o = n /\ k = i
  BY <1>1, RowStandsOnce
<1>6. ASSUME NEW m \in S PROVE \E n \in 1..PageCount(rows) : m \in OnPage(rows, n)
  <2>1. PICK r \in 1..Len(rows) : rows[r] = m
    BY <1>1
  <2>2. PICK n, i : Stands(rows, m, n, i)
    BY <1>5, <2>1
  <2> QED BY <1>3, <2>2 DEF Stands
<1>7. ASSUME PageCount(rows) > 1 PROVE \E m \in S : m \notin OnPage(rows, 1)
  <2>1. PageCount(rows) * PageSize - PageSize < Len(rows)
    <3>1. rows # <<>> /\ PageCount(rows) = Ceil(Len(rows), PageSize) /\ Len(rows) # 0
      BY <1>1, <1>7 DEF PageCount
    <3> QED BY <1>2, <3>1, CeilBounds
  <2>2. PageSize * 1 <= PageSize * (PageCount(rows) - 1)
    BY <1>2, <1>7, SMTT(30)
  <2>3. PageSize < Len(rows)
    <3>1. PageSize * (PageCount(rows) - 1) = PageCount(rows) * PageSize - PageSize
      BY <1>2, SMTT(30)
    <3>2. PageCount(rows) * PageSize \in Int
      BY <1>2
    <3> QED BY <1>2, <2>1, <2>2, <3>1, <3>2
  <2> PICK last : last = rows[Len(rows)]
    OBVIOUS
  <2>4. Len(rows) \in 1..Len(rows) /\ last \in S
    BY <1>1, <1>2, <2>3
  <2>5. ASSUME last \in OnPage(rows, 1) PROVE FALSE
    <3>1. 1 \in 1..PageCount(rows)
      BY <1>2
    <3>2. PICK i : Stands(rows, last, 1, i)
      BY <1>3, <2>5, <3>1
    <3>3. i \in 1..Len(Paginate(rows, 1)) /\ Paginate(rows, 1)[i] = last
      BY <3>2 DEF Stands
    <3>4. /\ Len(Paginate(rows, 1)) = Cut(rows, 1) - Cut(rows, 1 - 1)
          /\ \A k \in 1..Cut(rows, 1) - Cut(rows, 1 - 1) :
               Paginate(rows, 1)[k] = rows[Cut(rows, 1 - 1) + k]
      BY <1>1, <3>1, PageRows
    <3>5. Cut(rows, 1) = PageSize /\ Cut(rows, 1 - 1) = 0
      BY <1>2, <2>3 DEF Cut
    <3>6. i \in 1..PageSize /\ rows[i] = rows[Len(rows)]
      BY <1>2, <3>3, <3>4, <3>5
    <3>7. i \in 1..Len(rows) /\ i # Len(rows)
      BY <1>2, <2>3, <3>6
    <3> QED BY <1>1, <2>4, <3>6, <3>7
  <2> QED BY <2>4, <2>5
<1>8. \A n \in 1..PageCount(rows) : OnPage(rows, n) \subseteq S
  BY <1>4
<1> QED BY <1>6, <1>7, <1>8

\* A list of at most one row is one page.
LEMMA ShortLists ==
  ASSUME NEW rows \in Seq(Members), Len(rows) \in {0, 1}
  PROVE  /\ PageCount(rows) = 1
         /\ Len(rows) = 0 => OnPage(rows, 1) = {}
         /\ Len(rows) = 1 => OnPage(rows, 1) = {rows[1]}
<1>1. PageSize \in Nat \ {0}
  BY PagesAssumption
<1>2. PageCount(rows) = 1
  <2>1. CASE rows = <<>>
    BY <2>1 DEF PageCount
  <2>2. CASE rows # <<>>
    <3>1. Len(rows) = 1
      BY <1>1, <2>2
    <3>2. 1 + PageSize - 1 = PageSize /\ PageSize \div PageSize = 1
      BY <1>1, SMTT(30)
    <3> QED BY <2>2, <3>1, <3>2 DEF PageCount, Ceil
  <2> QED BY <2>1, <2>2
<1>3. Paginate(rows, 1) = SubSeq(rows, Cut(rows, 1 - 1) + 1, Cut(rows, 1))
  BY <1>2, PaginateCuts
<1>4. Cut(rows, 1 - 1) = 0 /\ Cut(rows, 1) = Len(rows)
  <2> PICK l : l = Len(rows)
    OBVIOUS
  <2>1. l \in {0, 1} /\ (1 - 1) * PageSize = 0 /\ 1 * PageSize = PageSize
    BY <1>1
  <2>2. ~(PageSize < l) /\ (0 < l \/ l = 0)
    BY <1>1, <2>1
  <2> QED BY <2>1, <2>2 DEF Cut
<1>5. Paginate(rows, 1) = rows /\ DOMAIN rows = 1..Len(rows)
  BY <1>3, <1>4, SubSeqFull
<1>6. OnPage(rows, 1) = {rows[i] : i \in 1..Len(rows)}
  BY <1>5 DEF OnPage
<1>7. 1..0 = {} /\ 1..1 = {1}
  OBVIOUS
<1> QED BY <1>2, <1>6, <1>7

\* What an answer names.
LEMMA AnswersName ==
  /\ \A kind, m : m # None => Named(Answer(kind, m)) = {m}
  /\ \A kind : Named(Answer(kind, None)) = {}
  /\ \A kind, rows : Named(Listing(kind, None, rows)) = {rows[i] : i \in DOMAIN rows}
  /\ \A kind, m : m # None => Named(Checked(m, Answer(kind, m))) = {m}
<1>1. ASSUME NEW kind, NEW m, m # None PROVE Named(Answer(kind, m)) = {m}
  BY <1>1 DEF Named, Answer
<1>2. ASSUME NEW kind PROVE Named(Answer(kind, None)) = {}
  BY DEF Named, Answer
<1>3. ASSUME NEW kind, NEW rows
      PROVE  Named(Listing(kind, None, rows)) = {rows[i] : i \in DOMAIN rows}
  <2>1. Listing(kind, None, rows).of = None /\ Listing(kind, None, rows).rows = rows
    BY DEF Listing, Answer
  <2> QED BY <2>1 DEF Named
<1>4. ASSUME NEW kind, NEW m, m # None PROVE Named(Checked(m, Answer(kind, m))) = {m}
  BY <1>1, <1>4 DEF Checked
<1> QED BY <1>1, <1>2, <1>3, <1>4

\* The answer to a search names whom the first page of its list shows.
LEMMA FoundNames ==
  ASSUME NEW q \in Queries, NEW kind
  PROVE  Named(FoundOne(q, kind, 1)) = OnPage(SearchMembers(q), 1)
<1> PICK found : found = SearchMembers(q)
  OBVIOUS
<1>1. /\ found \in Seq(Members) /\ Len(found) \in Nat
      /\ \A i, k \in 1..Len(found) : found[i] = found[k] => i = k
      /\ \A i \in 1..Len(found) : found[i] \in Wanted(q)
      /\ \A m \in Members \cap Wanted(q) : \E i \in 1..Len(found) : found[i] = m
  <2>1. SearchMembers(q) = Listed(Wanted(q))
    BY DEF SearchMembers, Wanted
  <2>2. IsListOf(found, Wanted(q))
    BY <2>1, ListsAll
  <2> QED BY <2>2 DEF IsListOf
<1>2. CASE Exact[q] # None
  <2>1. Wanted(q) = {Exact[q]} /\ Exact[q] \in Members
    BY <1>2, PagesAssumption DEF Wanted
  <2>2. \A i \in 1..Len(found) : found[i] = Exact[q]
    BY <1>1, <2>1
  <2>3. Len(found) = 1
    <3>1. Len(found) # 0
      BY <1>1, <2>1
    <3>2. ~(Len(found) > 1)
      <4>1. Len(found) > 1 => 1 \in 1..Len(found) /\ 2 \in 1..Len(found)
        BY <1>1
      <4> QED BY <1>1, <2>2, <4>1
    <3> QED BY <1>1, <3>1, <3>2
  <2>4. OnPage(found, 1) = {Exact[q]}
    <3>1. Len(found) \in {0, 1} /\ 1 \in 1..Len(found)
      BY <2>3
    <3> QED BY <1>1, <2>2, <2>3, <3>1, ShortLists
  <2>5. FoundOne(q, kind, 1) = Checked(Exact[q], Answer(kind, Exact[q]))
    BY <1>2 DEF FoundOne
  <2>6. Named(Checked(Exact[q], Answer(kind, Exact[q]))) = {Exact[q]}
    BY <1>2, AnswersName, Zenon
  <2> QED BY <2>4, <2>5, <2>6
<1>3. CASE Exact[q] = None /\ found = <<>>
  <2>1. FoundOne(q, kind, 1) = Answer("notFound", None)
    BY <1>3 DEF FoundOne
  <2>2. OnPage(found, 1) = {}
    <3>1. Len(found) = 0 /\ Len(found) \in {0, 1}
      BY <1>3
    <3> QED BY <1>1, <3>1, ShortLists
  <2> QED BY <2>1, <2>2, AnswersName
<1>4. CASE Exact[q] = None /\ found # <<>> /\ Len(found) > 1
  <2>1. FoundOne(q, kind, 1) = Listing("results", None, Paginate(found, 1))
    BY <1>4 DEF FoundOne
  <2> QED BY <2>1, AnswersName DEF OnPage
<1>5. CASE Exact[q] = None /\ found # <<>> /\ ~(Len(found) > 1)
  <2>0. Len(found) = 1
    <3>1. Len(found) # 0
      BY <1>1, <1>5
    <3>2. PICK l \in Nat : l = Len(found)
      BY <1>1
    <3>3. l # 0 /\ ~(l > 1)
      BY <1>5, <3>1, <3>2
    <3> QED BY <3>2, <3>3
  <2>1. Len(found) \in {0, 1} /\ found[1] # None
    <3>1. 1 \in 1..Len(found)
      BY <2>0
    <3>2. found[1] \in Members
      BY <1>1, <3>1
    <3> QED BY <2>0, <3>2, MembersAssumption
  <2>2. FoundOne(q, kind, 1) = Checked(found[1], Answer(kind, found[1]))
    BY <1>5 DEF FoundOne
  <2>3. OnPage(found, 1) = {found[1]}
    BY <1>1, <2>0, <2>1, ShortLists
  <2>4. Named(FoundOne(q, kind, 1)) = {found[1]}
    BY <2>1, <2>2, AnswersName
  <2> QED BY <2>3, <2>4
<1> QED BY <1>2, <1>3, <1>4, <1>5

\* The later pages, in the console and in its frames, are those of the search by name.
LEMMA NextNames ==
  ASSUME NEW q \in Queries, NEW n \in Nat \ {0}
  PROVE  \A p \in {Search(None, q, n), WorkFrame("search", None, q, n)} :
           Named(p) = IF ByLast[q] = {} THEN {} ELSE OnPage(SearchByLast(q), n)
<1>1. q # None
  BY PagesAssumption
<1>2. CASE ByLast[q] = {}
  <2> PICK rows : rows = SearchByLast(q)
    OBVIOUS
  <2>1. rows \in Seq(Members) /\ Len(rows) \in Nat /\ \A i \in 1..Len(rows) : FALSE
    BY <1>2, ListsThem DEF SearchByLast
  <2>2. Len(rows) = 0 /\ Len(rows) \in {0, 1}
    BY <2>1
  <2>3. PageCount(rows) = 1 /\ OnPage(rows, 1) = {}
    BY <2>1, <2>2, ShortLists
  <2>4. Paginate(rows, n) = Paginate(rows, 1)
    BY <2>1, <2>3, PagesClamped
  <2>5. Named(WorkFrame("search", None, q, n)) = {}
    BY <1>1, <2>3, <2>4, AnswersName DEF WorkFrame, OnPage
  <2>6. Named(Search(None, q, n)) = {}
    BY <1>1, <1>2, AnswersName DEF Search
  <2> QED BY <1>2, <2>5, <2>6
<1>3. CASE ByLast[q] # {}
  BY <1>1, <1>3, AnswersName DEF Search, WorkFrame, OnPage
<1> QED BY <1>2, <1>3

\* Every search leads to whom it is for, but one by a part whose result fills several pages.
LEMMA SearchesFind == SearchFinds
<1> SUFFICES ASSUME NEW q \in Queries, NEW found \in {Reached(q), ReachedInFrame(q)}
             PROVE  /\ found \subseteq Wanted(q)
                    /\ found = Wanted(q) <=>
                         ~(Exact[q] = None /\ ByLast[q] = {} /\ PageCount(SearchMembers(q)) > 1)
  BY DEF SearchFinds
<1> PICK rows : rows = SearchMembers(q)
  OBVIOUS
<1> PICK S : S = Wanted(q)
  OBVIOUS
<1>1. /\ q # None /\ rows = Listed(S) /\ S \in SUBSET Members
      /\ rows \in Seq(Members) /\ PageCount(rows) \in Nat \ {0}
  <2>1. q # None
    BY PagesAssumption
  <2>2. rows = Listed(S)
    BY DEF SearchMembers, Wanted
  <2>3. S \in SUBSET Members
    BY PagesAssumption DEF Wanted
  <2>4. rows \in Seq(Members)
    BY SearchLists
  <2> QED BY <2>1, <2>2, <2>3, <2>4, PageCounts
<1>2. Search(q, None, 1) = FoundOne(q, "toMember", 1)
      /\ WorkFrame("search", q, None, 1) = FoundOne(q, "member", 1)
  BY <1>1 DEF Search, WorkFrame
<1> DEFINE rest(n) == IF ByLast[q] = {} THEN {} ELSE OnPage(SearchByLast(q), n)
<1>3. found = OnPage(rows, 1) \cup UNION {rest(n) : n \in 2..PageCount(rows)}
  <2>1. \A n \in 2..PageCount(rows) :
          Named(Search(None, q, n)) = rest(n) /\ Named(WorkFrame("search", None, q, n)) = rest(n)
    BY <1>1, NextNames
  <2> HIDE DEF rest
  <2>2. UNION {Named(Search(None, q, n)) : n \in 2..PageCount(rows)}
          = UNION {rest(n) : n \in 2..PageCount(rows)}
    BY <2>1
  <2>3. UNION {Named(WorkFrame("search", None, q, n)) : n \in 2..PageCount(rows)}
          = UNION {rest(n) : n \in 2..PageCount(rows)}
    BY <2>1
  <2> QED BY <1>2, <2>2, <2>3, FoundNames DEF Reached, ReachedInFrame
<1>4. /\ \A n \in 1..PageCount(rows) : OnPage(rows, n) \subseteq S
      /\ \A m \in S : \E n \in 1..PageCount(rows) : m \in OnPage(rows, n)
      /\ PageCount(rows) > 1 => \E m \in S : m \notin OnPage(rows, 1)
      /\ 1 \in 1..PageCount(rows)
  BY <1>1, PagesShow
<1>5. CASE Exact[q] = None /\ ByLast[q] # {}
  <2>1. SearchByLast(q) = rows
    BY <1>5 DEF SearchByLast, SearchMembers
  <2>2. \A n \in 2..PageCount(rows) : rest(n) = OnPage(rows, n)
    BY <1>5, <2>1
  <2> HIDE DEF rest
  <2>3. \A n \in 1..PageCount(rows) : n = 1 \/ n \in 2..PageCount(rows)
    BY <1>1
  <2>4. \A n \in 2..PageCount(rows) : n \in 1..PageCount(rows)
    BY <1>1
  <2>5. found = S
    BY <1>3, <1>4, <2>2, <2>3, <2>4
  <2> QED BY <1>5, <2>5
<1>6. CASE Exact[q] = None /\ ByLast[q] = {}
  <2>1. found = OnPage(rows, 1)
    BY <1>3, <1>6
  <2>2. CASE PageCount(rows) > 1
    BY <1>4, <1>6, <2>1, <2>2
  <2>3. CASE ~(PageCount(rows) > 1)
    <3>1. \A n \in 1..PageCount(rows) : n = 1
      BY <1>1, <2>3
    <3>2. found = S
      BY <1>4, <2>1, <3>1
    <3> QED BY <2>3, <3>2
  <2> QED BY <2>2, <2>3
<1>7. CASE Exact[q] # None
  <2>1. S = {Exact[q]}
    BY <1>7 DEF Wanted
  <2>2. PageCount(rows) = 1
    <3>1. Len(rows) \in {0, 1}
      <4>1. /\ \A i, k \in 1..Len(rows) : rows[i] = rows[k] => i = k
            /\ \A i \in 1..Len(rows) : rows[i] = Exact[q]
        BY <2>1, SearchLists
      <4>2. Len(rows) \in Nat /\ (Len(rows) > 1 => 1 \in 1..Len(rows) /\ 2 \in 1..Len(rows))
        BY <1>1
      <4>3. PICK l \in Nat : l = Len(rows)
        BY <4>2
      <4>4. ~(l > 1)
        BY <4>1, <4>2, <4>3
      <4>5. l \in {0, 1}
        BY <4>4
      <4> QED BY <4>3, <4>5
    <3> QED BY <1>1, <3>1, ShortLists
  <2>3. found = OnPage(rows, 1)
    BY <1>3, <2>2
  <2>4. \A n \in 1..PageCount(rows) : n = 1
    BY <2>2
  <2> QED BY <1>4, <1>7, <2>1, <2>3, <2>4
<1> QED BY <1>5, <1>6, <1>7

\* The lists of a member have the rows that open.
LEMMA ListsDoOpen == ListsOpen
<1> SUFFICES ASSUME NEW m \in Members \ Restricted
             PROVE  /\ DisputeList(m).rows = <<{d \in Disputes : DisputePage(m, d).kind = "dispute"}>>
                    /\ CardList(m).rows = <<{k \in Cards : CardPage(m, k).kind = "card"}>>
  BY DEF ListsOpen
<1>1. \A answer : Checked(m, answer) = answer
  BY MembersAssumption DEF Checked
<1>2. \A kind, x : Answer(kind, x).kind = kind
  BY DEF Answer
<1>3. \A kind, rows : Listing(kind, m, rows).rows = rows
  BY DEF Listing, Answer
<1>4. \A k : About("card", k).kind = "card"
  BY DEF About, Answer
<1>5. RowsOf(m, Disputes, DisputeOf) = {d \in Disputes : DisputePage(m, d).kind = "dispute"}
  BY <1>1, <1>2 DEF RowsOf, DisputePage, OwnDispute
<1>6. RowsOf(m, Cards, CardOf) = {k \in Cards : CardPage(m, k).kind = "card"}
  BY <1>1, <1>2, <1>4 DEF RowsOf, CardPage, OwnCard
<1> QED BY <1>1, <1>3, <1>5, <1>6 DEF DisputeList, CardList

\* The form of a card is on offer exactly when posting it would change the core and its
\* member is not restricted, the pages of a reissued card all name the case of its row, a
\* dispute can be filed until it has a row, the pages of a list are the list and a search
\* finds whom it is for, whatever is done to the core, in any order, before the page is
\* asked for (server.ts 395-902, data.ts 195-227).
THEOREM PagesDoTell == Spec => []PagesTellTheCore
<1>1. ASSUME TypeOK, Tables, Reviewed PROVE PagesTellTheCore
  <2>1. ASSUME NEW k \in Cards, NEW answer
        PROVE  CardOf[k] \notin Restricted => OwnCard(CardOf[k], k, answer) = answer
    BY MembersAssumption, TablesAssumption DEF OwnCard, Checked
  <2>2. ASSUME NEW kind, NEW m
        PROVE  Answer(kind, m).kind = kind /\ Answer(kind, m).case = NoCase
    BY DEF Answer
  <2>3. ASSUME NEW k \in Cards
        PROVE  About("card", k).kind = "card" /\ About("card", k).case = cards[k].case
    BY DEF About, Answer
  <2>0. ASSUME NEW m \in Restricted, NEW answer PROVE Checked(m, answer).kind = "denied"
    BY <2>2, MembersAssumption DEF Checked
  <2>4. ASSUME NEW k \in Cards
        PROVE  BlockPage(CardOf[k], k).kind = "blockConfirm"
               <=> CardOf[k] \notin Restricted /\ k \notin Business /\ cards[k].status = "active"
    <3>1. cards[k].status \in {"active", "blocked"}
      BY <1>1 DEF TypeOK, Card
    <3>2. CASE CardOf[k] \in Restricted
      BY <2>0, <3>2 DEF BlockPage, OwnCard
    <3>3. CASE CardOf[k] \notin Restricted
      BY <2>1, <2>2, <2>3, <3>1, <3>3 DEF BlockPage
    <3> QED BY <3>2, <3>3
  <2>5. ASSUME NEW k \in Cards
        PROVE  ReissuePage(CardOf[k], k).kind = "reissueConfirm"
               <=> /\ CardOf[k] \notin Restricted /\ k \notin Business
                   /\ cards[k].status = "blocked" /\ cards[k].ready /\ cardActions[k] = None
    <3>1. cardActions[k] = None <=> cards[k].case = NoCase
      BY <1>1 DEF Tables, TablesAgree, CardsMatchRows
    <3>2. CASE CardOf[k] \in Restricted
      BY <2>0, <3>2 DEF ReissuePage, OwnCard
    <3>3. CASE CardOf[k] \notin Restricted
      BY <2>1, <2>2, <2>3, <3>1, <3>3 DEF ReissuePage
    <3> QED BY <3>2, <3>3
  <2>6. ASSUME NEW k \in Cards, cardActions[k] # None,
               NEW p \in {CardPage(CardOf[k], k), BlockPage(CardOf[k], k),
                          ReissuePage(CardOf[k], k), DonePage(CardOf[k], k)}
        PROVE  p.case = cardActions[k].case
    <3>1. cards[k] = [status |-> "blocked", ready |-> FALSE, case |-> cardActions[k].case]
      BY <1>1, <2>6 DEF Tables, TablesAgree, CardsMatchRows
    <3>2. k \notin Business
      <4>1. cards[k] # SeedCards[k]
        <5>1. cards[k].case # NoCase /\ SeedCards[k].case = NoCase
          BY <1>1, <2>6 DEF Tables, TablesAgree, CardsMatchRows, SeedCards
        <5> QED BY <5>1
      <4> QED BY <1>1, <4>1 DEF Reviewed, BlockReviewed
    <3>r. CardOf[k] \notin Restricted
      <4>1. cards[k].case # SeedCards[k].case
        BY <1>1, <2>6 DEF Tables, TablesAgree, CardsMatchRows, SeedCards
      <4> QED BY <1>1, <4>1 DEF Reviewed, BlockReviewed
    <3>3. CardPage(CardOf[k], k) = About("card", k)
      BY <2>1, <2>6, <3>r DEF CardPage
    <3>4. BlockPage(CardOf[k], k) = About("card", k)
      BY <2>1, <2>6, <3>1, <3>2, <3>r DEF BlockPage
    <3>5. ReissuePage(CardOf[k], k) = About("card", k)
      BY <2>1, <2>6, <3>2, <3>r DEF ReissuePage
    <3>6. DonePage(CardOf[k], k).case = cardActions[k].case
      BY <2>6 DEF DonePage, Answer
    <3> QED BY <2>3, <3>1, <3>3, <3>4, <3>5, <3>6
  <2>9. ASSUME NEW m \in Members
        PROVE  SubAccountPage(m, TRUE, TRUE).kind = "subAccountReview" <=> m \notin Restricted
    <3>1. CASE m \in Restricted
      BY <2>0, <3>1 DEF SubAccountPage
    <3>2. CASE m \notin Restricted
      BY <2>2, <3>2, MembersAssumption DEF SubAccountPage, Checked
    <3> QED BY <3>1, <3>2
  <2>7. ASSUME NEW d \in Disputes
        PROVE  FilePage(DisputeOf[d], d, TRUE, TRUE).kind = "disputeReview"
               <=> DisputeOf[d] \notin Restricted /\ filings[d] = None /\ d \notin SeedFiled
    <3>1. disputes[d] \in {"open", "filed"}
      BY <1>1 DEF TypeOK
    <3>2. disputes[d] = "open" <=> filings[d] = None /\ d \notin SeedFiled
      <4>1. CASE d \in SeedFiled
        BY <1>1, <4>1 DEF Tables, TablesAgree, DisputesMatchRows
      <4>2. CASE d \notin SeedFiled
        BY <1>1, <3>1, <4>2 DEF Tables, TablesAgree, DisputesMatchRows
      <4> QED BY <4>1, <4>2
    <3>r. CASE DisputeOf[d] \in Restricted
      BY <2>0, <3>r DEF FilePage, OwnDispute
    <3>3. ASSUME NEW answer, DisputeOf[d] \notin Restricted
          PROVE  OwnDispute(DisputeOf[d], d, answer) = answer
      BY <3>3, MembersAssumption, TablesAssumption DEF OwnDispute, Checked
    <3>4. CASE DisputeOf[d] \notin Restricted /\ disputes[d] = "filed"
      <4>1. FilePage(DisputeOf[d], d, TRUE, TRUE) = Answer("dispute", DisputeOf[d])
        BY <3>3, <3>4 DEF FilePage
      <4>2. Answer("dispute", DisputeOf[d]).kind = "dispute"
        BY <2>2
      <4> QED BY <3>2, <3>4, <4>1, <4>2
    <3>5. CASE DisputeOf[d] \notin Restricted /\ disputes[d] = "open"
      <4>1. FilePage(DisputeOf[d], d, TRUE, TRUE) = Answer("disputeReview", DisputeOf[d])
        BY <3>3, <3>5 DEF FilePage
      <4>2. Answer("disputeReview", DisputeOf[d]).kind = "disputeReview"
        BY <2>2
      <4> QED BY <3>2, <3>5, <4>1, <4>2
    <3> QED BY <3>1, <3>r, <3>4, <3>5
  <2>8. PagesTellTheCore
    BY <2>4, <2>5, <2>6, <2>7, <2>9, ListsComplete, ListsDoOpen, SearchesFind, Zenon
       DEF PagesTellTheCore
  <2> QED BY <2>8
<1> QED BY <1>1, ReviewsHold, PTL
=============================================================================
