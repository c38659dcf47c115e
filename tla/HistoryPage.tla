------------------------------ MODULE HistoryPage ------------------------------
(***************************************************************************)
(* The transaction history: getHistory, which filters, sorts and pages the *)
(* transfers of the customer's accounts, and the page that shows its       *)
(* answers while more transfers are made. The id of a transfer is its      *)
(* place in the order of createdAt.                                        *)
(***************************************************************************)
EXTENDS Integers, FiniteSets

CONSTANTS
  Requests,   \* ids of transfers
  Mine,       \* accounts of the customer
  Limit,      \* rows of a page, at least one
  None        \* no filter, nothing shown

VARIABLES
  transactions,  \* the rows of transactions
  query,         \* the query of the page, None while it is not shown
  shown,         \* history: the answer the page shows, with its query
  error,
  fetches,       \* requests under way: a query and, once computed, its answer
  overlapped,    \* history: requests overlapped since the filters last changed
  walk           \* history: what page 1 was taken from and what was shown since

page == <<query, shown, error, fetches, overlapped, walk>>

Filters == [accountId : Mine \cup {None}, type : {"CREDIT", "DEBIT", None},
            startDate : Requests \cup {None}, endDate : Requests \cup {None}]

NoFilter == [f \in {"accountId", "type", "startDate", "endDate"} |-> None]

HistoryInit ==
  /\ query = None /\ shown = None /\ error = FALSE
  /\ fetches = {} /\ overlapped = FALSE
  /\ walk = [start |-> {}, seen |-> {}]
-----------------------------------------------------------------------------
(* getHistory *)

TargetAccountIds(filter) == IF filter.accountId = None THEN Mine ELSE {filter.accountId}

Matches(t, filter) ==
  LET ids == TargetAccountIds(filter) IN
  /\ filter.type = "DEBIT"  => t.sender \in ids
  /\ filter.type = "CREDIT" => t.receiver \in ids
  /\ t.sender \in ids \/ t.receiver \in ids
  /\ filter.startDate # None => t.id >= filter.startDate
  /\ filter.endDate # None => t.id <= filter.endDate

\* The place of a row among those that match, the youngest first.
Place(id, ids) == Cardinality({i \in ids : i >= id})

\* Mutant: pages are counted from zero.
SkipAndTakeFromZero(ids, p) ==
  {id \in ids : p * Limit < Place(id, ids) /\ Place(id, ids) <= (p + 1) * Limit}

SkipAndTake(ids, p) ==
  {id \in ids : (p - 1) * Limit < Place(id, ids) /\ Place(id, ids) <= p * Limit}

Matching(filter) == {t.id : t \in {u \in transactions : Matches(u, filter)}}

\* "all" is history: the rows that matched when the answer was computed.
GetHistory(q) ==
  LET all == Matching(q.filter) IN
  [data |-> SkipAndTake(all, q.page), total |-> Cardinality(all), page |-> q.page,
   all |-> all, query |-> q]
-----------------------------------------------------------------------------
(* useTransactionHistory *)

\* fetchHistory, which runs for every new query.
FetchHistory(q) ==
  /\ query' = q
  /\ error' = FALSE
  /\ fetches' = fetches \cup {[query |-> q, answer |-> None]}

OpenHistory ==
  /\ query = None
  /\ FetchHistory([filter |-> NoFilter, page |-> 1])
  /\ overlapped' = FALSE
  /\ UNCHANGED <<transactions, shown, walk>>

CloseHistory ==
  /\ query # None
  /\ query' = None /\ shown' = None /\ error' = FALSE
  /\ fetches' = {} /\ overlapped' = FALSE
  /\ walk' = [start |-> {}, seen |-> {}]
  /\ UNCHANGED transactions

Serve(f) ==
  /\ f \in fetches /\ f.answer = None
  /\ fetches' = (fetches \ {f}) \cup {[query |-> f.query, answer |-> GetHistory(f.query)]}
  /\ UNCHANGED <<transactions, query, shown, error, overlapped, walk>>

\* Answers are shown in the order in which they come.
SetHistory(f) ==
  /\ f \in fetches /\ f.answer # None
  /\ fetches' = fetches \ {f}
  /\ shown' = f.answer
  /\ walk' = IF f.answer.page = 1
             THEN [start |-> f.answer.all, seen |-> f.answer.data]
             ELSE [walk EXCEPT !.seen = @ \cup f.answer.data]
  /\ UNCHANGED <<transactions, query, error, overlapped>>

SetError(f) ==
  /\ f \in fetches
  /\ fetches' = fetches \ {f}
  /\ error' = TRUE
  /\ UNCHANGED <<transactions, query, shown, overlapped, walk>>
-----------------------------------------------------------------------------
(* The page: filters unless the first answer is awaited, a table unless there *)
(* is an error or nothing to show.                                            *)

FiltersAreShown == query # None /\ (shown # None \/ fetches = {})
TableIsShown == query # None /\ shown # None /\ ~error /\ shown.data # {}

\* Mutant: a new filter keeps the page.
UpdateFiltersOnPage(filter) ==
  /\ FiltersAreShown
  /\ FetchHistory([filter |-> filter, page |-> query.page])
  /\ overlapped' = (fetches # {})
  /\ UNCHANGED <<transactions, shown, walk>>

UpdateFilters(filter) ==
  /\ FiltersAreShown
  /\ FetchHistory([filter |-> filter, page |-> 1])
  /\ overlapped' = (fetches # {})
  /\ UNCHANGED <<transactions, shown, walk>>

\* One field of the filters is chosen.
Choose(field, value) == FiltersAreShown /\ UpdateFilters([query.filter EXCEPT ![field] = value])

HandleClearAll == UpdateFilters(NoFilter)

HasPrevious == shown.page # 1
HasNext == ~(shown.page * Limit >= shown.total)

ChangePage(newPage) ==
  /\ FetchHistory([query EXCEPT !.page = newPage])
  /\ overlapped' = (overlapped \/ fetches # {})
  /\ UNCHANGED <<transactions, shown, walk>>

Turn ==
  /\ TableIsShown
  /\ \/ HasPrevious /\ ChangePage(shown.page - 1)
     \/ HasNext /\ ChangePage(shown.page + 1)

\* Mutant: the account that is selected plays no part.
IsCreditOfMine(t) == t.receiver \in Mine

\* The sign of a row of the table.
IsCredit(t) ==
  IF query.filter.accountId # None THEN t.receiver = query.filter.accountId
  ELSE t.receiver \in Mine
-----------------------------------------------------------------------------
(***************************************************************************)
(* What the page promises.                                                 *)
(***************************************************************************)
Queries == [filter : Filters, page : Nat \ {0}]

Answers == [data : SUBSET Requests, total : Nat, page : Nat \ {0}, all : SUBSET Requests,
            query : Queries]

\* An answer to a query of the page, with rows that match it.
IsAnswer(a) == a \in Answers /\ a.page = a.query.page /\ a.data \subseteq a.all

HistoryTypeOK ==
  /\ IsFiniteSet(transactions)
  /\ query \in Queries \cup {None}
  /\ shown = None \/ IsAnswer(shown)
  /\ error \in BOOLEAN /\ overlapped \in BOOLEAN
  /\ \A f \in fetches : f.query \in Queries /\ (f.answer = None \/ IsAnswer(f.answer))
  /\ walk \in [start : SUBSET Requests, seen : SUBSET Requests]

\* Nothing under way, and no two requests were since the filters last changed.
\* Requests that overlap may be answered in any order, the older last.
AtRest == query # None /\ fetches = {} /\ ~overlapped /\ ~error

\* The inductive invariant behind TableAnswersQuery and WalkMissesNothing.
\* An answer is a page of the rows that matched, and rows go on matching.
IsComputed(a) ==
  /\ a.data = SkipAndTake(a.all, a.page) /\ a.total = Cardinality(a.all)
  /\ a.all \subseteq Matching(a.query.filter)

AnswersInv ==
  /\ query = None => fetches = {}
  /\ shown # None => IsComputed(shown)
  /\ \A f \in fetches : f.answer # None => f.answer.query = f.query /\ IsComputed(f.answer)

\* Of a walk w: whatever page 1 was taken from and is not seen comes after page p.
Ahead(w, ids, p) ==
  /\ w.start \subseteq ids
  /\ \A id \in w.start \ w.seen : Place(id, ids) > p * Limit

\* Page p is the first, or has a row, and the walk has passed what is before it.
Reached(w, ids, p) == p = 1 \/ ((p - 1) * Limit < Cardinality(ids) /\ Ahead(w, ids, p - 1))

\* The rows from which the page that f asks for is taken.
RowsFor(f) == IF f.answer = None THEN Matching(f.query.filter) ELSE f.answer.all

WalkInv ==
  query # None /\ ~overlapped =>
    /\ \A f, g \in fetches : f = g
    /\ \A f \in fetches : f.query = query /\ Reached(walk, RowsFor(f), query.page)
    /\ fetches = {} /\ ~error =>
         /\ shown # None /\ shown.query = query
         /\ shown.data = {} => shown.total = 0
         /\ Ahead(walk, shown.all, shown.page)

\* A row has a plus only if it brought money to an account in question, and a
\* minus only if it took money from one.
SignIsRight(t) ==
  IF IsCredit(t) THEN t.receiver \in TargetAccountIds(query.filter)
                 ELSE t.sender \in TargetAccountIds(query.filter)

\* A page at rest shows the answer to the query it has, with the right signs, and
\* shows nothing only where nothing matches: turning pages never leads behind
\* the last one.
TableAnswersQuery ==
  AtRest => /\ shown.query = query
            /\ shown.data = {} => shown.total = 0
            /\ \A t \in transactions : t.id \in shown.data => SignIsRight(t)

\* Whoever turns the pages from the first to the last has seen every transfer
\* that was there at the first, although transfers made meanwhile shift the
\* rows between the pages.
WalkMissesNothing ==
  AtRest /\ ~HasNext => walk.start \subseteq walk.seen
=============================================================================
