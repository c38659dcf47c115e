-------------------------------- MODULE Customer --------------------------------
(***************************************************************************)
(* One customer with one tab: the transfer page and the history page, over *)
(* the transfer endpoint and the transfers of everybody else.              *)
(***************************************************************************)
EXTENDS TransferPage

CONSTANTS
  Limit,  \* rows of a page of history
  Worlds  \* what a behaviour has: see World

\* The pages, what may be typed into the form and chosen as a filter, as pairs
\* of a field and a value, what others pay, and bounds: requests, fetches in
\* flight, and the statuses by which the endpoint refuses.
Chosen == ({"accountId"} \X Mine) \cup ({"type"} \X {"CREDIT", "DEBIT"}) \cup
          ({"startDate", "endDate"} \X Requests)

Statuses == {"badRequest", "notFound", "conflict", "serverError"}

World == [pages : SUBSET {"transfer", "history"}, typed : SUBSET FieldValues, chosen : SUBSET Chosen,
          others : SUBSET [sender : Accounts, receiver : Numbers, amount : Amounts],
          requests : SUBSET Requests, overlap : Nat, statuses : SUBSET Statuses]

VARIABLES
  world,
  query, shown, error, fetches, overlapped, walk

H == INSTANCE HistoryPage

ASSUME CustomerAssumption ==
  /\ Worlds \subseteq World
  /\ Limit \in Nat \ {0}
  /\ None \notin {"CREDIT", "DEBIT"} \cup H!Queries \cup H!Answers

page == <<query, shown, error, fetches, overlapped, walk>>
vars == <<world, server, client, page>>

Init == world \in Worlds /\ FormInit /\ H!HistoryInit

\* The transfer endpoint, with the refusals of this world.
Serve(r) ==
  /\ Endpoint(r)
  /\ reply'[r] # None /\ reply'[r].status \in Statuses => reply'[r].status \in world.statuses
  /\ UNCHANGED <<world, page>>

OthersPay(r) ==
  /\ \E p \in world.others :
       OtherPays(r, [key |-> r, sender |-> p.sender, receiver |-> p.receiver,
                     amount |-> p.amount])
  /\ UNCHANGED <<world, page>>

\* One page at a time. Leaving it by a link, its promises go on; by a reload, not.
OnTransferPage ==
  /\ \/ "transfer" \in world.pages /\ query = None /\ OpenForm
     \/ \E heard \in BOOLEAN : CloseForm(heard)
     \/ \E e \in world.typed : HandleFormChange(e[1], e[2])
     \/ \E r \in world.requests : HandleSubmit(r)
     \/ \E a \in attempts : Hear(a)
  /\ UNCHANGED <<world, page>>

OnHistoryPage ==
  /\ \/ "history" \in world.pages /\ form = None /\ H!OpenHistory
     \/ H!CloseHistory
     \/ \E e \in world.chosen : H!Choose(e[1], e[2])
     \/ H!HandleClearAll \/ H!Turn
     \/ \E f \in fetches : H!Serve(f) \/ H!SetHistory(f) \/ H!SetError(f)
  /\ Cardinality(fetches') <= world.overlap
  /\ UNCHANGED <<world, payload, balance, ledger, events, reply, client>>

Next ==
  \/ OnTransferPage \/ OnHistoryPage
  \/ \E r \in world.requests : Serve(r) \/ OthersPay(r)

Spec == Init /\ [][Next]_vars
-----------------------------------------------------------------------------
\* The types of the variables of both pages, and what makes the payments of the
\* transfer page and the walk through the history hold.
HistoryInv == H!HistoryTypeOK /\ H!AnswersInv /\ H!WalkInv

IInv == world \in Worlds /\ FormInv /\ HistoryInv

\* The promises of the history page, which HistoryPage explains; those of the
\* transfer page are in TransferPage.
TableAnswersQuery == H!TableAnswersQuery
WalkMissesNothing == H!WalkMissesNothing
=============================================================================
