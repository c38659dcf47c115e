------------------------------ MODULE MCCustomer ------------------------------
(* Instances of Customer for TLC. *)
EXTENDS Customer

CONSTANTS giro, savings, shop, nobody

MCAccounts == {giro, savings, shop}
MCBalance  == [a \in MCAccounts |-> 5]

FromShop(a) == [sender |-> shop, receiver |-> a, amount |-> 1]
Between     == [sender |-> giro, receiver |-> savings, amount |-> 1]

\* Three requests of one page, retried, edited, left and refused.
MCTransfer ==
  [pages |-> {"transfer"}, chosen |-> {}, others |-> {}, overlap |-> 0,
   requests |-> {1, 2, 3}, statuses |-> {"badRequest", "serverError"},
   typed |-> {<<"receiver", shop>>, <<"amount", 1>>, <<"amount", 2>>}]

\* Both pages, and the other refusals.
MCBoth ==
  [MCTransfer EXCEPT !.pages = {"transfer", "history"}, !.overlap = 1, !.requests = {1, 2},
                     !.statuses = {"notFound", "conflict"},
                     !.typed = {<<"receiver", nobody>>, <<"receiver", savings>>,
                                <<"sender", savings>>, <<"amount", 1>>}]

\* Three pages of history while transfers come in.
MCHistory ==
  [MCTransfer EXCEPT !.pages = {"history"}, !.overlap = 1, !.typed = {}, !.statuses = {},
                     !.others = {FromShop(giro)}]

\* Fetches that overlap.
MCOverlap ==
  [MCHistory EXCEPT !.overlap = 2, !.requests = {1, 2}, !.chosen = {<<"accountId", giro>>},
                    !.others = {Between}]

\* All filters.
MCFilters ==
  [MCHistory EXCEPT !.requests = {1, 2},
                    !.chosen = {<<"type", "DEBIT">>, <<"type", "CREDIT">>,
                                <<"startDate", 2>>, <<"endDate", 1>>},
                    !.others = {FromShop(giro), Between}]

MCWorlds == {MCTransfer, MCBoth, MCHistory, MCOverlap, MCFilters}
=============================================================================
