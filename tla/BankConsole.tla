---------------------------- MODULE BankConsole ----------------------------
(* The bank console of apps/bank-console: teller sessions, single-use form   *)
(* tokens, and the core tables behind the forms (filings, sub-accounts,      *)
(* cards, card actions). One Node process serves every browser: a handler    *)
(* runs without interruption up to its `await readBody` and from there to    *)
(* its answer, so a POST is two steps, ArriveX and the step that has its     *)
(* body, and other requests run between them. Pages are left out except for  *)
(* which page a request is answered with.                                    *)
EXTENDS Integers, Sequences, FiniteSets

CONSTANTS
  Members, Restricted,   \* the members of the core and those of them that are restricted
  Disputes, DisputeOf, SeedFiled,
                         \* disputes, their members, and those the seed has as filed
  Cards, CardOf, Business, SeedBlocked,
                         \* cards, their members, business cards, cards the seed has as blocked
  RequireAuth,           \* options.auth
  Users,                 \* credentials that authenticate
  Credentials,           \* credentials that a login may carry
  SessionTtl, TokenTtl,  \* ttlMs of the two stores, in ticks
  Limits,                \* the numbers ?expire-after may hold
  HitCap,                \* a count of hits above every limit: more make no difference
  Slots,                 \* requests that wait for their body
  Posts,                 \* the forms that are posted, a bound of the model
  MaxClock, MaxSessions, MaxTokens, MaxSeq,  \* bounds of the model
  None                   \* undefined

ASSUME MembersAssumption == Restricted \subseteq Members /\ None \notin Members
ASSUME TablesAssumption ==
  /\ DisputeOf \in [Disputes -> Members] /\ SeedFiled \subseteq Disputes
  /\ CardOf \in [Cards -> Members] /\ Business \subseteq Cards /\ SeedBlocked \subseteq Cards
  /\ None \notin Cards /\ None \notin Disputes
ASSUME BoundsAssumption ==
  /\ SessionTtl \in Nat /\ TokenTtl \in Nat /\ Limits \subseteq Nat /\ None \notin Limits
  /\ RequireAuth \in BOOLEAN
  /\ HitCap \in Nat /\ \A l \in Limits : HitCap > l
  /\ MaxClock \in Nat /\ MaxSessions \in Nat /\ MaxTokens \in Nat /\ MaxSeq \in Nat

VARIABLES
  now,          \* Date.now(), in ticks
  sess,         \* SessionStore: session id -> session, None when it is not in the map
  lastSid,      \* sessions created
  tokens,       \* FormTokenStore: token -> issued, None when it is not in the map
  lastTok,      \* tokens issued
  reviews,      \* history: what each token issued since the last reset was issued for
  disputes,     \* the status of each dispute
  filings,      \* table filings: dispute -> member of its row, None without one
  subAccounts,  \* table sub_accounts: the number of rows of each member
  cards,        \* the cards, as lookupCard finds them
  cardActions,  \* table card_actions: card -> its row, None without one
  seq,          \* the AUTOINCREMENT sequence of card_actions
  req           \* requests past their checks that wait for their body

core == <<disputes, filings, subAccounts, cards, cardActions, seq>>
vars == <<now, sess, lastSid, tokens, lastTok, reviews, core, req>>

----------------------------------------------------------------------------
(* Shapes.                                                                   *)

Sids == 1..MaxSessions
Toks == 1..MaxTokens
NoLimit == -1
Session == [until : Int, hits : 0..HitCap, limit : Limits \cup {NoLimit}]

Action == [form : {"sub"}, member : Members, key : {None}]
          \cup [form : {"dispute"}, member : Members, key : Disputes]
          \cup [form : {"block", "reissue"}, member : Members, key : Cards]
ASSUME PostsAssumption == Posts \subseteq Action
Issued == [action : Action, until : Int]

Card == [status : {"active", "blocked"}, ready : BOOLEAN, case : Nat]
NoCase == 0
Row == [id : Nat, case : Nat]

\* The card object a request looked up: the one in the table, or, once
\* resetCards has put fresh objects there, the old one as it was.
Current == [status |-> "current", ready |-> FALSE, case |-> NoCase]
Request == [action : Action, tok : Toks, card : Card \cup {Current}]
ASSUME NoneAssumption == None \notin Action /\ None \notin Row /\ None \notin Request

TypeOK ==
  /\ now \in 0..MaxClock
  /\ sess \in [Sids -> Session \cup {None}]
  /\ lastSid \in 0..MaxSessions
  /\ tokens \in [Toks -> Issued \cup {None}]
  /\ lastTok \in 0..MaxTokens
  /\ reviews \in [Toks -> Action \cup {None}]
  /\ disputes \in [Disputes -> {"open", "filed"}]
  /\ filings \in [Disputes -> Members \cup {None}]
  /\ subAccounts \in [Members -> Nat]
  /\ cards \in [Cards -> Card]
  /\ cardActions \in [Cards -> Row \cup {None}]
  /\ seq \in Nat
  /\ req \in [Slots -> Request \cup {None}]

SeedDisputes == [d \in Disputes |-> IF d \in SeedFiled THEN "filed" ELSE "open"]
SeedCards == [k \in Cards |-> [status |-> IF k \in SeedBlocked THEN "blocked" ELSE "active",
                               ready |-> FALSE, case |-> NoCase]]

Init ==
  /\ now = 0
  /\ sess = [s \in Sids |-> None] /\ lastSid = 0
  /\ tokens = [t \in Toks |-> None] /\ lastTok = 0
  /\ reviews = [t \in Toks |-> None]
  /\ disputes = SeedDisputes
  /\ filings = [d \in Disputes |-> None]
  /\ subAccounts = [m \in Members |-> 0]
  /\ cards = SeedCards
  /\ cardActions = [k \in Cards |-> None]
  /\ seq = 0
  /\ req = [r \in Slots |-> None]

----------------------------------------------------------------------------
(* The session gate, before every page but the public ones: get() deletes a  *)
(* session whose time is over, ?expire-after may set its limit, hit() counts *)
(* the request and deletes the session that is over its limit. The time of a *)
(* session is fixed at the login: no request extends it.                     *)

\* A slip: the limit is set from the query even when the query has none.
AfterHitUnset(s, ea) == [until |-> s.until, hits |-> s.hits, limit |-> ea]

\* Session s after a request with its cookie. ea is what ?expire-after holds, None
\* without it.
AfterHit(s, ea) ==
  LET limit == IF ea = None THEN s.limit ELSE ea
      hits == IF s.hits < HitCap THEN s.hits + 1 ELSE HitCap
  IN IF limit # NoLimit /\ hits > limit THEN None
     ELSE [until |-> s.until, hits |-> hits, limit |-> limit]

AfterGet(s, ea) == IF s = None \/ now > s.until THEN None ELSE AfterHit(s, ea)

\* The request with cookie c (None without one) is let through, or shown the
\* login page or the page of an expired session.
Admits(c, ea) == \/ ~RequireAuth
                 \/ c # None /\ AfterGet(sess[c], ea) # None
AfterGate(c, ea) == IF RequireAuth /\ c # None THEN [sess EXCEPT ![c] = AfterGet(@, ea)] ELSE sess
Gate(c, ea) == Admits(c, ea) /\ sess' = AfterGate(c, ea)

Refused(c, ea) ==
  /\ ~Admits(c, ea)
  /\ sess' = AfterGate(c, ea)
  /\ UNCHANGED <<now, lastSid, tokens, lastTok, reviews, core, req>>

\* A page that only shows: member, lists, details, done pages.
Look(c, ea) ==
  /\ Gate(c, ea)
  /\ UNCHANGED <<now, lastSid, tokens, lastTok, reviews, core, req>>

NewSession(ea) ==
  [until |-> now + SessionTtl, hits |-> 0, limit |-> IF ea = None THEN NoLimit ELSE ea]

\* POST /login with credentials that authenticate; one that fails changes nothing,
\* nor does an empty form without requireAuth. Where a login lands (pendingMemberId)
\* is left out.
Login(cred, ea) ==
  /\ cred \in Users
  /\ lastSid < MaxSessions
  /\ lastSid' = lastSid + 1
  /\ sess' = [sess EXCEPT ![lastSid'] = NewSession(ea)]
  /\ UNCHANGED <<now, tokens, lastTok, reviews, core, req>>

Logout(c) ==
  /\ c # None
  /\ sess' = [sess EXCEPT ![c] = None]
  /\ UNCHANGED <<now, lastSid, tokens, lastTok, reviews, core, req>>


----------------------------------------------------------------------------
(* The review pages: each checks the member and the row, and issues a token  *)
(* bound to its action.                                                      *)

Issue(a) ==
  /\ lastTok < MaxTokens
  /\ lastTok' = lastTok + 1
  /\ tokens' = [tokens EXCEPT ![lastTok'] = [action |-> a, until |-> now + TokenTtl]]
  /\ reviews' = [reviews EXCEPT ![lastTok'] = a]
  /\ UNCHANGED <<now, lastSid, core, req>>

SubAccountOf(m) == [form |-> "sub", member |-> m, key |-> None]
DisputeBy(m, d) == [form |-> "dispute", member |-> m, key |-> d]
CardForm(f, k) == [form |-> f, member |-> CardOf[k], key |-> k]

OffersSubAccount(m) == m \notin Restricted
OffersDispute(m, d) == m \notin Restricted /\ DisputeOf[d] = m /\ disputes[d] = "open"
OffersBlock(k) ==
  /\ CardOf[k] \notin Restricted
  /\ k \notin Business
  /\ cards[k].status # "blocked"

\* A slip: the reissue of a card is on offer before its block has made it ready.
OffersReissueEarly(k) ==
  /\ CardOf[k] \notin Restricted
  /\ k \notin Business
  /\ cardActions[k] = None /\ cards[k].case = NoCase

OffersReissue(k) ==
  /\ CardOf[k] \notin Restricted
  /\ k \notin Business
  /\ cardActions[k] = None /\ cards[k].case = NoCase
  /\ cards[k].status = "blocked" /\ cards[k].ready

ReviewSubAccount(c, ea, m) ==
  Gate(c, ea) /\ OffersSubAccount(m) /\ Issue(SubAccountOf(m))
ReviewDispute(c, ea, m, d) ==
  Gate(c, ea) /\ OffersDispute(m, d) /\ Issue(DisputeBy(m, d))
ReviewBlock(c, ea, k) ==
  Gate(c, ea) /\ OffersBlock(k) /\ Issue(CardForm("block", k))
ReviewReissue(c, ea, k) ==
  Gate(c, ea) /\ OffersReissue(k) /\ Issue(CardForm("reissue", k))

----------------------------------------------------------------------------
(* The forms are posted with a token, for whatever action it was issued. A   *)
(* post without a token, or with one that is spent already, changes nothing  *)
(* but the session: it is a Look.                                            *)
(* Nothing of the member or the dispute is checked before the body; a card   *)
(* is looked up before it and used after it.                                 *)

Arrive(c, ea, a, tok) ==
  /\ Gate(c, ea)
  /\ tokens[tok] # None
  /\ a.form \in {"block", "reissue"} => CardOf[a.key] = a.member /\ a.member \notin Restricted
  /\ \E r \in Slots :
       /\ req[r] = None
       /\ req' = [req EXCEPT ![r] = [action |-> a, tok |-> tok, card |-> Current]]
  /\ UNCHANGED <<now, lastSid, tokens, lastTok, reviews, core>>

\* A slip: the token is not compared with the form it was issued for.
ValidForAny(t, a) == tokens[t] # None /\ ~(tokens[t].until < now)

\* FormTokenStore.consume: the token is gone whatever it answers.
Valid(t, a) ==
  /\ tokens[t] # None
  /\ tokens[t].action = a
  /\ ~(tokens[t].until < now)
\* A slip: a token stays in the map after it was used.
ConsumeKeeps(r) ==
  /\ req' = [req EXCEPT ![r] = None]
  /\ UNCHANGED <<now, sess, lastSid, tokens, lastTok, reviews>>

Consume(r) ==
  LET t == req[r].tok IN
  /\ tokens' = [tokens EXCEPT ![t] = None]
  /\ req' = [req EXCEPT ![r] = None]
  /\ UNCHANGED <<now, sess, lastSid, lastTok, reviews>>
Has(r, form) == req[r] # None /\ req[r].action.form = form
Accepted(r, form) == Has(r, form) /\ Valid(req[r].tok, req[r].action)

InvalidToken(r) ==
  /\ req[r] # None
  /\ ~Valid(req[r].tok, req[r].action)
  /\ Consume(r)
  /\ UNCHANGED core

InsertSubAccount(m) == subAccounts' = [subAccounts EXCEPT ![m] = @ + 1]
OpenSubAccount(r) ==
  /\ Accepted(r, "sub")
  /\ InsertSubAccount(req[r].action.member)
  /\ Consume(r)
  /\ UNCHANGED <<disputes, filings, cards, cardActions, seq>>

\* A row of filings is unique by its dispute; a second one marks the dispute and
\* shows it.
InsertFiling(d, m) == filings' = IF filings[d] = None THEN [filings EXCEPT ![d] = m] ELSE filings
MarkFiled(d) == disputes' = [disputes EXCEPT ![d] = "filed"]
FileDispute(r) ==
  LET a == req[r].action IN
  /\ Accepted(r, "dispute")
  /\ InsertFiling(a.key, a.member)
  /\ MarkFiled(a.key)
  /\ Consume(r)
  /\ UNCHANGED <<subAccounts, cards, cardActions, seq>>

\* The card object that was looked up before the body.
SeenCard(r) == IF req[r].card = Current THEN cards[req[r].action.key] ELSE req[r].card

\* A slip: a card is blocked without being made ready for its reissue.
MarkBlockedOnly(k) == cards' = [cards EXCEPT ![k].status = "blocked"]

MarkBlocked(k) == cards' = [cards EXCEPT ![k].status = "blocked", ![k].ready = TRUE]

BlockCard(r) ==
  LET k == req[r].action.key IN
  /\ Accepted(r, "block")
  /\ k \notin Business /\ SeenCard(r).status # "blocked"
  /\ MarkBlocked(k)
  /\ Consume(r)
  /\ UNCHANGED <<disputes, filings, subAccounts, cardActions, seq>>

BlockIdle(r) ==
  /\ Accepted(r, "block")
  /\ req[r].action.key \in Business \/ SeenCard(r).status = "blocked"
  /\ Consume(r)
  /\ UNCHANGED core

\* nextCaseNumber(): after the largest id in the table, not after the sequence.
RowIds == {cardActions[k].id : k \in {j \in Cards : cardActions[j] # None}}
LastId == IF RowIds = {} THEN 0 ELSE CHOOSE i \in RowIds : \A j \in RowIds : j <= i
\* A slip: the reissue does not write its case to the card.
MarkReissuedOnly(k, case) ==
  cards' = [cards EXCEPT ![k].ready = FALSE]

MarkReissued(k, case) ==
  cards' = [cards EXCEPT ![k] = [status |-> "blocked", ready |-> FALSE, case |-> case]]

InsertCardAction(k, case) == cardActions' = [cardActions EXCEPT ![k] = [id |-> seq + 1, case |-> case]]
ReissueCard(r) ==
  LET k == req[r].action.key
      case == LastId + 1
  IN
  /\ Accepted(r, "reissue")
  /\ k \notin Business /\ SeenCard(r).status = "blocked" /\ SeenCard(r).ready
  /\ seq < MaxSeq
  /\ IF cardActions[k] = None
     THEN /\ seq' = seq + 1
          /\ InsertCardAction(k, case)
          /\ MarkReissued(k, case)
     ELSE /\ MarkReissued(k, cardActions[k].case)  \* UNIQUE (member_id, last4)
          /\ UNCHANGED <<cardActions, seq>>
  /\ Consume(r)
  /\ UNCHANGED <<disputes, filings, subAccounts>>

ReissueIdle(r) ==
  /\ Accepted(r, "reissue")
  /\ \/ req[r].action.key \in Business
     \/ SeenCard(r).status # "blocked" \/ ~SeenCard(r).ready
  /\ Consume(r)
  /\ UNCHANGED core

\* A slip: the tokens outlive the reset.
ResetKeepsTokens ==
  /\ reviews' = [t \in Toks |-> None]
  /\ disputes' = SeedDisputes
  /\ filings' = [d \in Disputes |-> None]
  /\ subAccounts' = [m \in Members |-> 0]
  /\ cards' = SeedCards
  /\ cardActions' = [k \in Cards |-> None]
  /\ req' = [r \in Slots |->
               IF req[r] # None /\ req[r].action.form \in {"block", "reissue"} /\ req[r].card = Current
               THEN [req[r] EXCEPT !.card = cards[req[r].action.key]] ELSE req[r]]
  /\ UNCHANGED <<now, sess, lastSid, tokens, lastTok, seq>>

\* reset() of the server object: the tables, the tokens, fresh cards and disputes.
\* Sessions and waiting requests stay; so does the sequence, for DELETE keeps it.
Reset ==
  /\ tokens' = [t \in Toks |-> None]
  /\ reviews' = [t \in Toks |-> None]
  /\ disputes' = SeedDisputes
  /\ filings' = [d \in Disputes |-> None]
  /\ subAccounts' = [m \in Members |-> 0]
  /\ cards' = SeedCards
  /\ cardActions' = [k \in Cards |-> None]
  /\ req' = [r \in Slots |->
               IF req[r] # None /\ req[r].action.form \in {"block", "reissue"} /\ req[r].card = Current
               THEN [req[r] EXCEPT !.card = cards[req[r].action.key]] ELSE req[r]]
  /\ UNCHANGED <<now, sess, lastSid, lastTok, seq>>

Tick ==
  /\ now < MaxClock
  /\ now' = now + 1
  /\ UNCHANGED <<sess, lastSid, tokens, lastTok, reviews, core, req>>

----------------------------------------------------------------------------
Cookies == {None} \cup 1..lastSid
ExpireAfter == {None} \cup Limits

Visit(c, ea) ==
  \/ Refused(c, ea)
  \/ Look(c, ea)
  \/ \E m \in Members : ReviewSubAccount(c, ea, m)
  \/ \E m \in Members, d \in Disputes : ReviewDispute(c, ea, m, d)
  \/ \E k \in Cards : ReviewBlock(c, ea, k) \/ ReviewReissue(c, ea, k)
  \/ \E a \in Posts, tok \in Toks : Arrive(c, ea, a, tok)

Body(r) ==
  \/ InvalidToken(r)
  \/ OpenSubAccount(r)
  \/ FileDispute(r)
  \/ BlockCard(r) \/ BlockIdle(r)
  \/ ReissueCard(r) \/ ReissueIdle(r)

Next ==
  \/ Tick
  \/ Reset
  \/ \E cred \in Credentials, ea \in ExpireAfter : Login(cred, ea)
  \/ \E c \in Cookies : Logout(c) \/ \E ea \in ExpireAfter : Visit(c, ea)
  \/ \E r \in Slots : Body(r)

Spec == Init /\ [][Next]_vars

----------------------------------------------------------------------------
(* Properties.                                                               *)

Since(a) == {t \in Toks : reviews[t] = a}
Spent(a) == {t \in Since(a) : tokens[t] = None}

CardsMatchRows ==
  \A k \in Cards :
    /\ cardActions[k] = None <=> cards[k].case = NoCase
    /\ cardActions[k] # None =>
         cards[k] = [status |-> "blocked", ready |-> FALSE, case |-> cardActions[k].case]
DisputesMatchRows ==
  \A d \in Disputes :
    IF d \in SeedFiled THEN disputes[d] = "filed" ELSE disputes[d] = "filed" <=> filings[d] # None
CaseNumbersUnique ==
  \A j, k \in Cards : j # k /\ cardActions[j] # None /\ cardActions[k] # None
                        => cardActions[j].case # cardActions[k].case
\* The core keeps each fact twice, in a table and in the objects the pages read:
\* they agree, and two reissues never carry one case number, though the numbers
\* come from max(id), the ids from a sequence that a reset does not set back.
TablesAgree == CardsMatchRows /\ DisputesMatchRows /\ CaseNumbersUnique

\* Whatever is in the core was confirmed on a review page since the last reset,
\* for that very row and with a token that is spent, and no member who is
\* restricted was touched, though the POST handlers of sub-accounts and disputes
\* check neither the member nor the row.
EffectsWereReviewed ==
  /\ \A m \in Members : subAccounts[m] > 0 => m \notin Restricted /\ Spent(SubAccountOf(m)) # {}
  /\ \A d \in Disputes : filings[d] # None =>
       filings[d] = DisputeOf[d] /\ DisputeOf[d] \notin Restricted /\ Spent(DisputeBy(DisputeOf[d], d)) # {}
  /\ \A k \in Cards : cards[k] # SeedCards[k] =>
       k \notin Business /\ CardOf[k] \notin Restricted /\ Spent(CardForm("block", k)) # {}
  /\ \A k \in Cards : cardActions[k] # None => Spent(CardForm("reissue", k)) # {}

\* sub_accounts has no uniqueness: the single use of a token is all that keeps a
\* double post, two of them waiting for their bodies at once, from opening twice.
OneRowPerReview ==
  \A m \in Members : subAccounts[m] <= Cardinality(Spent(SubAccountOf(m)))

\* A card that this console blocked and did not reissue can be reissued: a run that
\* stops between the two forms leaves nothing that cannot be finished.
HalfDoneIsFinishable ==
  \A k \in Cards \ SeedBlocked :
    cards[k].status = "blocked" /\ cardActions[k] = None => OffersReissue(k)

\* Every change of the core but a reset spends one token, not older than its time,
\* issued since the reset; a card looked up before a reset is never acted on.
EffectSpendsItsReview ==
  [][core' # core /\ reviews' = reviews =>
      \E t \in Toks :
        /\ tokens[t] # None /\ tokens' = [tokens EXCEPT ![t] = None]
        /\ reviews[t] # None /\ now <= tokens[t].until
        /\ \A r \in Slots : req'[r] # req[r] => req[r].card = Current]_vars

\* What the form of an action asks for is in the core; a blocked card can go on to
\* its reissue, or has been there.
Done(a) ==
  /\ a.form = "sub" => subAccounts[a.member] > 0
  /\ a.form = "dispute" => disputes[a.key] = "filed" /\ filings[a.key] = a.member
  /\ a.form = "block" => /\ cards[a.key].status = "blocked"
                         /\ OffersReissue(a.key) \/ cardActions[a.key] # None
  /\ a.form = "reissue" => cardActions[a.key] # None

\* A confirmation whose token is accepted leaves done what was reviewed, though the
\* handlers answer a card that is blocked, or not ready, with a page and no error, and
\* other posts and resets come between the review, the post and its body.
AcceptedIsDone ==
  [][\A r \in Slots, a \in Action :
       req[r] # None /\ req[r].action = a /\ Valid(req[r].tok, a) /\ req'[r] = None
         => Done(a)']_vars
=============================================================================
