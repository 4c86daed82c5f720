----------------------------- MODULE BankPages -----------------------------
(* What the console answers a GET with, in each state of its core: one       *)
(* operator per route, its checks in the order of the code. An answer is the *)
(* kind of the page, the member it is about, and what the properties need of *)
(* its content: the rows of a list, the case number of a card.               *)
EXTENDS BankConsole, Subsequence

CONSTANTS
  Roster,               \* the members in the order a search lists them
  Queries,              \* what a search field may hold
  Exact,                \* the member whose id or full name it is, None without one
  ByLast, Matches,      \* the members with that last name, and those it is a part of
  PageSize              \* rows on one page of a list

ASSUME PagesAssumption ==
  /\ None \notin Queries \cup Int
  /\ PageSize \in Nat \ {0} /\ Roster \in Seq(Members)
  /\ \A i, k \in DOMAIN Roster : Roster[i] = Roster[k] => i = k
  /\ \A m \in Members : \E i \in DOMAIN Roster : Roster[i] = m
  /\ \A q \in Queries : /\ Exact[q] \in Members \cup {None}
                        /\ ByLast[q] \subseteq Members /\ Matches[q] \subseteq Members

Answer(kind, m) == [kind |-> kind, of |-> m, rows |-> <<>>, case |-> NoCase]
Listing(kind, m, rows) == [Answer(kind, m) EXCEPT !.rows = rows]
About(kind, k) == [Answer(kind, CardOf[k]) EXCEPT !.case = cards[k].case]

\* lookupMember and the test for a restricted member, at the head of most routes.
Checked(m, answer) ==
  CASE m = None -> Answer("notFound", None)
    [] m \in Restricted -> Answer("denied", m)
    [] OTHER -> answer

(* Lists. paginate() clamps the number of the page; a text that is no number *)
(* (None) leaves no rows.                                                    *)
Ceil(a, b) == (a + b - 1) \div b
PageCount(rows) == IF rows = <<>> THEN 1 ELSE Ceil(Len(rows), PageSize)
Clamp(page, pages) == IF page < 1 THEN 1 ELSE IF page > pages THEN pages ELSE page
\* A slip: pages are counted from zero.
PaginateFromZero(rows, page) ==
  IF page = None THEN <<>>
  ELSE LET start == Clamp(page, PageCount(rows)) * PageSize
           end == IF start + PageSize < Len(rows) THEN start + PageSize ELSE Len(rows)
       IN SubSeq(rows, start + 1, end)

Paginate(rows, page) ==
  IF page = None THEN <<>>
  ELSE LET start == (Clamp(page, PageCount(rows)) - 1) * PageSize
           end == IF start + PageSize < Len(rows) THEN start + PageSize ELSE Len(rows)
       IN SubSeq(rows, start + 1, end)

Listed(S) == Picked(Roster, {i \in DOMAIN Roster : Roster[i] \in S})
SearchByLast(q) == Listed(ByLast[q])
\* The exact id first, then the last name, then any part of the id or the name.
SearchMembers(q) ==
  Listed(IF Exact[q] # None THEN {Exact[q]}
         ELSE IF ByLast[q] # {} THEN ByLast[q] ELSE Matches[q])

----------------------------------------------------------------------------
(* Search and members, in the console and in its frames.                     *)

\* Only a page about one member is checked for a restricted one: a list of results
\* names every member it finds, with a link to the page that then denies.
FoundOne(q, kind, page) ==
  LET found == SearchMembers(q) IN
  CASE Exact[q] # None -> Checked(Exact[q], Answer(kind, Exact[q]))
    [] Exact[q] = None /\ found = <<>> -> Answer("notFound", None)
    [] Exact[q] = None /\ Len(found) > 1 -> Listing("results", None, Paginate(found, page))
    [] OTHER -> Checked(found[1], Answer(kind, found[1]))

Search(mid, last, page) ==
  CASE mid = None /\ last = None -> Answer("search", None)
    [] mid = None /\ last # None ->
         IF ByLast[last] = {} THEN Answer("notFound", None)
         ELSE Listing("results", None, Paginate(SearchByLast(last), page))
    [] OTHER -> FoundOne(mid, "toMember", page)

MemberPage(m) == Checked(m, Answer("member", m))

\* The work frame asks for a member by name of the screen, or searches; it lists
\* an empty result where the console says not found.
WorkFrame(screen, mid, last, page) ==
  CASE screen = "member" /\ mid # None -> MemberPage(Exact[mid])
    [] mid = None /\ last # None -> Listing("results", None, Paginate(SearchByLast(last), page))
    [] mid = None /\ last = None -> Answer("search", None)
    [] OTHER -> FoundOne(mid, "member", page)

----------------------------------------------------------------------------
(* Sub-accounts, disputes and cards. A d or k that is not the member's is    *)
(* not found. The pages after a confirmation are shown to whoever asks.      *)

SubAccountPage(m, review, product) ==
  Checked(m, IF review /\ product THEN Answer("subAccountReview", m) ELSE Answer("subAccountForm", m))
OpenedPage(m) == Answer("opened", m)

RowsOf(m, Rows, Owner) == {x \in Rows : Owner[x] = m}
DisputeList(m) == Checked(m, Listing("disputes", m, <<RowsOf(m, Disputes, DisputeOf)>>))
DisputeOpen(m, given) ==
  Checked(m, IF given THEN Answer("toDispute", m) ELSE Listing("disputes", m, <<RowsOf(m, Disputes, DisputeOf)>>))
OwnDispute(m, d, answer) ==
  Checked(m, IF d \in Disputes /\ DisputeOf[d] = m THEN answer ELSE Answer("disputeNotFound", m))
DisputePage(m, d) == OwnDispute(m, d, Answer("dispute", m))
FilePage(m, d, review, reason) ==
  OwnDispute(m, d,
    CASE disputes[d] = "filed" -> Answer("dispute", m)
      [] disputes[d] = "open" /\ review /\ reason -> Answer("disputeReview", m)
      [] OTHER -> Answer("disputeForm", m))
ReceiptPage(m) == Answer("receipt", m)

CardList(m) == Checked(m, Listing("cards", m, <<RowsOf(m, Cards, CardOf)>>))
CardOpen(m, given) ==
  Checked(m, IF given THEN Answer("toCard", m) ELSE Listing("cards", m, <<RowsOf(m, Cards, CardOf)>>))
OwnCard(m, k, answer) ==
  Checked(m, IF k \in Cards /\ CardOf[k] = m THEN answer ELSE Answer("cardNotFound", m))
CardPage(m, k) == OwnCard(m, k, About("card", k))
BlockPage(m, k) ==
  OwnCard(m, k,
    CASE k \in Business -> Answer("business", m)
      [] k \notin Business /\ cards[k].status = "blocked" -> About("card", k)
      [] OTHER -> Answer("blockConfirm", m))
\* A slip: a card that is reissued already is sent back to the block form.
ReissuePageBlind(m, k) ==
  OwnCard(m, k,
    IF k \in Business THEN Answer("business", m)
    ELSE IF cards[k].status # "blocked" \/ ~cards[k].ready THEN Answer("toBlock", m)
    ELSE Answer("reissueConfirm", m))

ReissuePage(m, k) ==
  OwnCard(m, k,
    IF k \in Business THEN Answer("business", m)
    ELSE IF cardActions[k] # None \/ cards[k].case # NoCase THEN About("card", k)
    ELSE IF cards[k].status # "blocked" \/ ~cards[k].ready THEN Answer("toBlock", m)
    ELSE Answer("reissueConfirm", m))
\* The case number of the row, of the card, or else the first there ever is.
DonePage(m, k) ==
  [Answer("done", m) EXCEPT !.case =
     IF k \in Cards /\ CardOf[k] = m /\ cardActions[k] # None THEN cardActions[k].case
     ELSE IF k \in Cards /\ CardOf[k] = m /\ cards[k].case # NoCase THEN cards[k].case
     ELSE 1]

----------------------------------------------------------------------------
(* Properties.                                                               *)

PageNumbers == {None} \cup -1..Len(Roster) + 1
\* The pages of a result, one after the other, are the result: no row is lost or
\* shown twice, and a number outside the pages is the nearest page.
ListsAreComplete ==
  \A q \in Queries :
    LET rows == SearchMembers(q)
        pages == PageCount(rows)
        shown[n \in 0..pages] == IF n = 0 THEN <<>> ELSE shown[n - 1] \o Paginate(rows, n)
    IN /\ shown[pages] = rows
       /\ \A n \in PageNumbers \ {None} :
            /\ Len(Paginate(rows, n)) <= PageSize
            /\ n < 1 => Paginate(rows, n) = Paginate(rows, 1)
            /\ n > pages => Paginate(rows, n) = Paginate(rows, pages)

\* The members a search is for, restricted or not, and those an answer names.
Wanted(q) ==
  IF Exact[q] # None THEN {Exact[q]} ELSE IF ByLast[q] # {} THEN ByLast[q] ELSE Matches[q]
Named(p) == IF p.of # None THEN {p.of} ELSE {p.rows[i] : i \in DOMAIN p.rows}

\* Whom the links "Next" lead to from the first page of a search, in the console and
\* in its frames. They ask for a last name, however the search was made.
Reached(q) ==
  Named(Search(q, None, 1))
  \cup UNION {Named(Search(None, q, n)) : n \in 2..PageCount(SearchMembers(q))}
ReachedInFrame(q) ==
  Named(WorkFrame("search", q, None, 1))
  \cup UNION {Named(WorkFrame("search", None, q, n)) : n \in 2..PageCount(SearchMembers(q))}

\* A search leads to the members it is for and to nobody else, over all its pages,
\* unless it went by a part of an id or a name and fills more than one page: what is
\* past the first page of such a result is lost, for its "Next" finds nobody.
SearchFinds ==
  \A q \in Queries :
    LET lost == Exact[q] = None /\ ByLast[q] = {} /\ PageCount(SearchMembers(q)) > 1
    IN \A found \in {Reached(q), ReachedInFrame(q)} :
         found \subseteq Wanted(q) /\ (found = Wanted(q) <=> ~lost)

\* A row of a list opens, and a list has every row of its member that does.
ListsOpen ==
  \A m \in Members \ Restricted :
    /\ DisputeList(m).rows = <<{d \in Disputes : DisputePage(m, d).kind = "dispute"}>>
    /\ CardList(m).rows = <<{k \in Cards : CardPage(m, k).kind = "card"}>>

\* The pages tell the core: the form of a card is on offer exactly when posting it
\* would change the core and its member is not restricted, the pages of a reissued
\* card all name the case of its row, a dispute can be filed until it has a row,
\* lists are complete and searches find whom they are for.
PagesTellTheCore ==
  /\ \A k \in Cards :
       LET m == CardOf[k]
           open == m \notin Restricted /\ k \notin Business
       IN
         /\ BlockPage(m, k).kind = "blockConfirm" <=> open /\ cards[k].status = "active"
         /\ ReissuePage(m, k).kind = "reissueConfirm" <=>
              open /\ cards[k].status = "blocked" /\ cards[k].ready /\ cardActions[k] = None
         /\ cardActions[k] # None =>
              \A p \in {CardPage(m, k), BlockPage(m, k), ReissuePage(m, k), DonePage(m, k)} :
                p.case = cardActions[k].case
  /\ \A d \in Disputes :
       LET m == DisputeOf[d] IN
         FilePage(m, d, TRUE, TRUE).kind = "disputeReview" <=>
           m \notin Restricted /\ filings[d] = None /\ d \notin SeedFiled
  /\ \A m \in Members :
       SubAccountPage(m, TRUE, TRUE).kind = "subAccountReview" <=> m \notin Restricted
  /\ ListsOpen /\ ListsAreComplete /\ SearchFinds
=============================================================================
