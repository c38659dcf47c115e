SPECIFICATION Spec
CONSTANTS
  Requests = {1, 2, 3}
  Accounts <- MCAccounts
  InitialBalance <- MCBalance
  Mine = {giro, savings}
  Primary = giro
  Numbers = {giro, savings, shop, nobody}
  Amounts = {1, 2}
  Limit = 1
  Worlds <- MCWorlds
  None = None
  giro = giro  savings = savings  shop = shop  nobody = nobody
INVARIANTS IInv OnePaymentPerIntent SuccessIsOfThisForm TableAnswersQuery WalkMissesNothing
CHECK_DEADLOCK FALSE
