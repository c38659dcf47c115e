# Verification of SecureCore Banking

TLA+ models of the banking back end (`src/fintech-backend`, NestJS over Postgres
and Redis) and of the parts of the React front end (`src/fintech-frontend`) that
decide what the back end is asked, with the TLC runs that check them and the
TLAPS proofs about all of them. The unit tests of the repository are generated
stubs ("should be defined"), so everything below is untested in the code.

Paths are relative to `src/`; `B/` is `fintech-backend/src/`, `F/` is
`fintech-frontend/src/`.

## 1. The system

### 1.1 Components, their state and their operations

| Component | State | Operations |
|---|---|---|
| Transfers `B/modules/transactions` | tables `transactions` (unique `idempotency_key`), `ledger_entries`; one Postgres transaction per transfer | `transfer`, `getHistory`, `getStatement`, `findByTransactionId` |
| Accounts `B/modules/accounts/services/accounts.service.ts` | table `accounts` (balance, isPrimary, version) | `createAccount`, `updateAccount`, `getAccounts`, `find*`, `updateBalance` |
| Beneficiaries `.../beneficiaries.service.ts` | table `beneficiaries`, no unique constraint | add, list, update, remove |
| Sessions `B/modules/auth` | tables `devices` (unique thumbprint), `sessions` (parent, revoked) | login, refresh with rotation and reuse detection, logout, revocation after a password reset |
| OTP `B/modules/auth/services/otp.service.ts` | Redis keys with a 300 s TTL | registration and password reset: init, verify |
| DPoP `B/modules/auth/guards`, `utils` | Redis `jti` keys with a 300 s TTL | proof check per request |
| Users `B/modules/users`, `B/modules/admin` | table `users` | create, profile and status updates, security info, admin list/lock |
| Audit log `B/modules/audit-logs` | table `audit_logs` | interceptor after a successful handler, fire and forget |
| Notifications `B/modules/notifications` | Socket.io rooms per user | join on connect, emit on `transaction.success` |
| Mail `B/modules/mail` | none | send, 500 on failure |
| Client authentication `F/api`, `F/store`, `F/utils` | access token in Redux, refresh token in localStorage, DPoP keys in IndexedDB | login, silent refresh, 401 interceptor with one refresh at a time, logout |
| Client transfer page `F/pages/UserTemplate/Transaction` | form, idempotency key | submit, keep or replace the key by the status of the answer |
| Client history page `F/pages/UserTemplate/TransactionHistoryPage` | filters, page, the answer shown | filter, turn pages |
| Other pages, modals and guards of routes `F/pages`, `F/components`, `F/routes` | the route, one answer per page | navigate, one request per form |
| Bootstrap `B/main.ts`, `B/app.module.ts`, `B/core` | none | order of guards, pipes and interceptors, exceptions as answers |

### 1.2 How they interact

A request passes the DPoP guard (Redis), the JWT strategy (no session lookup),
the controller and one service; every `await` in a service is a query after
which any other request may run. Services share state only through Postgres and
Redis; `transfer` calls `AccountsService` inside its own transaction and, after
COMMIT, emits an event that `NotificationsService` forwards to a socket room.
The front end retries: axios retries after a refresh, the user resubmits the
transfer form with the same key, a page reload refreshes the tokens.

### 1.3 What is hard here

Reads without a lock that are used several awaits later; locks taken in
different orders and upgraded; unique indexes that make a request wait for the
outcome of another; find-then-insert and get-then-delete pairs in Postgres and
Redis; `save()` of an entity read earlier, which writes back every column that
differs; retries of requests whose answer was lost; work left undone after
COMMIT; events to receivers that are not connected. `PROJECT.json` lists each of
these as a hazard with its line and the properties that are about it.

### 1.4 What makes each component correct

| Component | Properties |
|---|---|
| Transfers | a key is spent once; debit and credit together or not at all; balances agree with the ledger; answers and events tell the truth; no account below zero |
| Accounts | exactly one primary account per user; no write takes a credit back |
| Sessions | a rotated token is never good again; a family stays on its device; reuse, logout and reset leave nothing live that they should end |
| OTP | a code is redeemed once, for what it was issued for, and stays good until then |
| Beneficiaries, users | no duplicates, no lost update, nothing removed comes back |
| DPoP | a proof is accepted once |
| Client authentication | no replay of its own token; a tab shows who logged in, can go on after any rest, and leaves nothing behind at logout |
| Client pages | one payment per form; the table answers its query and misses nothing |
| Audit log, notifications | rows and events only for what happened; a connected tab hears |

## 2. The transfer service

`Bank.tla` says what the endpoint promises with no database in it; `Transfer.tla`
is `TransactionsService.transfer` over Postgres; `MCTransfer.tla` gives the
instances TLC checks; `Transfer_proofs.tla` holds the proofs.

`pc[r]` is the await at which request `r` is; the actions are named after the
step they perform:

| Action | Code |
|---|---|
| `Submit` | `TransactionsController.transfer`: no key, 400 |
| `Lookup` | lookup by key outside the transaction, `transactions.service.ts:43-62` |
| `Connect` | `createQueryRunner`, `connect`, `startTransaction`, 64-66 |
| `ReadSender`, `ReadReceiver` | the two plain reads and the checks on them, 68-105 |
| `ReserveKey` | the INSERT of the PENDING row and the unique index, 107-118 |
| `CheckForeignKey` | the FOR KEY SHARE locks of the foreign keys of that INSERT |
| `LockSender`, `DebitSender`, `LockReceiver`, `CreditReceiver` | `updateBalance`, twice: FOR UPDATE read, then `save` |
| `RecordLedger`, `MarkSuccess`, `Commit` | 132-153 |
| `Announce` | user lookup, event, answer, 155-168 |
| `Abort` | catch and finally, 169-198 |
| `DeadlockVictim`, `QueryFails`, `CommitUnacknowledged`, `Crash` | the failures |

Accounts are never deleted by the code, so the 404 of `updateBalance` cannot
happen and is left out. The version column is incremented by `save` and never
compared by it; it is left out. Account id and account number are one value.
Amounts are integers; the columns are `decimal(20,4)`, and what JavaScript numbers
do to them is not modelled (section 11).

### What it promises, and what a run can see of it

A request is in a transaction while it is between `readSender` and `commit`. Two
variables hold row locks (`keyShare`, `exclusive`), `rows`, `written` and
`entries` hold what a transaction has written and not committed, and
`balance`, `transactions` and `ledger` what is committed. `pool`, chosen once at
the start, is the number of connections; with `pool = 1` transactions do not
overlap, so one run shows both what the code guarantees under concurrency and
what it guarantees only without it.

- Lost updates: `updateBalance` reads with FOR UPDATE and saves under the lock;
  the copy is never stale when saved (`CopyIsFresh`, a conjunct of `IInv`) and has
  one writer (theorem `WritersExclude`).
- Idempotency: `KeySpentOnce`, `ReplyIsTruthful`, and that no PENDING row is ever
  visible (theorem `PendingIsInvisible`).
- Bookkeeping: `DoubleEntry`, `BooksBalance`.
- Events: only for committed transfers (`EventsAreCommitted`, in `IInv`).
- The abstract bank: `ImplementsBank`. `Bank.tla` has a transfer as one step that
  spends a key and moves the money, and repeats an answer for a spent key.
- Overdraft: `NoOverdraft` fails with two connections (run `transfer_overdraft`):
  the balance is compared on an unlocked read (`transactions.service.ts:103`) and
  never again under the lock. What holds with any number of them is
  `OverdraftWithinPool`: if no transfer is of more than `m`, an account that began
  without debt never owes more than `m` for every connection but one, because the
  money a transfer has compared and not yet debited is that of a connected one. The
  bound is met: two transfers of 2 from a balance of 2 on two connections leave -2.
  With one connection nobody owes anything (`SerialNoOverdraft`).
- Progress: `EveryRequestIsAnswered` under `FairSpec`; and without any fairness
  `SomebodyCanAdvance`, a conjunct of `IInv`: waits for a connection, for a key and
  for the locks of two accounts never stop everybody.

Two transfers that share an account always collide: the INSERT of the PENDING
row takes FOR KEY SHARE on both accounts through its foreign keys, both
transactions hold it, and each waits for the other's FOR UPDATE. `README.md:36`
says that competing transactions queue; in fact one is aborted (40P01) and
answered 500. `DeadlockVictim` models this, and `transfer_live` shows that it is
what keeps the service moving.

## 3. Accounts of one user

`Accounts.tla` is `createAccount` and `updateAccount` for the accounts of one
user; `Waits.tla` is the test for a cycle of waits that it shares with
`Transfer.tla`.

| Action | Code |
|---|---|
| `Submit` | `POST` and `PATCH /accounts/me`, `accounts.controller.ts:37-53` |
| `Connect` | `manager.transaction`, `accounts.service.ts:19`, `:68` |
| `FindExisting`, `Insert` | the accounts of the user, the new row, 20-60 |
| `LockAccount`, `CountPrimaries`, `SaveAccount` | FOR UPDATE read, count, save, 69-110 |
| `StartDemotion`, `DemoteRow`, `EndDemotion` | the UPDATE of the other primary accounts, 44-48 and 84-90: snapshot, one locked row after the other, end |
| `Credit` | `updateBalance` of a transfer, 179-196 |
| `Commit`, `Abort`, `DeadlockVictim`, `QueryFails`, `CommitUnacknowledged`, `Crash` | the end of a transaction |

The draw of a free account number (22-35) is a fresh id. The account name is
left out: no decision depends on it. An update of an
account the user does not own is the 404 of an id without a row.

`NoLostCredit`: writing the whole row back never takes a credit away, since
`updateAccount` holds the lock from its read on. `FlagMovesOnRequest` and
`AccountsFromCreates` are the action properties: which steps may move a flag or
add a row. `NoStandstill`: locks taken in opposite orders and a full pool never
leave everybody waiting (Postgres breaks the cycle). It says so of `CanAdvance`,
what the next query of a request needs, and that this is when `Advance` is enabled.
"User must always have
exactly one primary account" (`accounts.service.ts:102`) holds of one
transaction at a time (`SerialOnePrimary`), and overlapping requests leave two
primary accounts, or none (run `accounts_primary_race`): `createAccount` reads
without a lock, and each UPDATE visits only the rows of its own snapshot.

## 4. Sessions and devices

`Sessions.tla` is `login`, `refresh`, `logout` and the revocations of
`resetPasswordVerify`; none of them opens a transaction, so each query is an
action and commits by itself. `overlap` is the number of requests the server has
in hand at a time.

| Action | Code in `auth.service.ts` |
|---|---|
| `FindUser`, `FindDevice`, `CreateDevice`, `RevokeDevice` | `login`, 46-101 |
| `FindSession`, `RevokeFamily`, `Rotate` | `refresh`, 104-165, and `revokeTokenFamily` |
| `CreateSession` | `generateTokens`, 173-215 |
| `RevokeOwn` | `logout`, 168-170 |
| `SavePassword`, `FindDevices`, `RevokeNextDevice`, `EndReset` | `resetPasswordVerify`, 350-376 |
| `Expire`, `QueryFails` | thirty days, a failed query |

A session row has the id of the request that made it. Its field `password` is
history: the version of the password its login was given. Access tokens carry no
state: `logout` is the only use of their `sid`.

Under any overlap: a session with a successor is revoked, so its token, presented
again, counts as a replay (`ParentIsRevoked`, a conjunct of `IInv`), and a chain of
refreshes stays on the device and the login it began with (`FamilySharesOrigin`). A
token is exchanged at most as often as requests overlap (`SuccessorsWithinOverlap`):
whoever gets past the check of `isRevoked` does so before the first exchange has
revoked the session, so all of them are in hand at once; a copy of the token that is
presented later is refused. Four further promises of the repository hold one request
at a time (`SerialSuccessors`, which is that bound for an overlap of one,
`SerialDevices`, `SerialReuse`, `SerialReset`) and no longer when requests overlap:

| Promise | What overlap does |
|---|---|
| a replayed token is detected (`README.md:23`) | two refreshes of one token both read `isRevoked` (118-125) before either rotates (159): both succeed |
| a replay revokes the whole family (`README.md:23`) | a refresh between `Rotate` and `CreateSession` inserts a live successor after the recursive UPDATE; run `sessions_reuse_race` |
| one active session per device (85) | two logins of one device both revoke, then both insert; so do two refreshes of one token, and two of each successor again, so that no number of live sessions is a bound |
| a reset ends all sessions (366-367) | a login that compared the old hash, or a refresh that rotated, inserts its session after the loop |

`README.md:23` also says that a replay locks all sessions of the user;
`revokeTokenFamily` revokes the presented session and its descendants, and
sessions on other devices stay live.

## 5. One-time passwords

`Otp.tla` is registration and password reset in two requests each, over the
Redis keys `register:otp:<email>` and `reset:otp:<email>` and the table users.

| Action | Code |
|---|---|
| `FindApplicant`, `GetPending`, `DeletePending`, `SavePending`, `Mail` | `registerInit`, `resetPasswordInit`, `auth.service.ts:217-257`, `:286-342`, `otp.service.ts:28-74` |
| `Compare`, `Delete` | `verifyAndRetrieveData`, `verifyAndRetrieveResetData`, `otp.service.ts:83-105` |
| `FindUser`, `CreateUser`, `SavePassword` | `registerVerify`, `resetPasswordVerify`, `auth.service.ts:259-283`, `:344-364` |
| `Expire`, `Fails` | `EX 300`; a failed command, query or mail |

`issued`, `current`, `lapsed` and `redeemers` are history. A password and its
hash are one value, and the name that comes with a registration is part of its
secret; codes are drawn from a small set, so that two requests may draw the same.

Under any overlap, `IInv`: what a verification acts on is exactly what was issued
for its email, flow and code, whatever happened to the key since it was read,
and one email has one user; and `UserAsRegistered`: a new user has the secret of
the very registration that was redeemed. One OTP passes at most as often as requests
overlap (`OtpPassesWithinOverlap`), because a key that a verification has deleted
never comes back with the same OTP: once per OTP if they do not overlap. And one
request at a time an OTP that was sent stays redeemable until it
is used, replaced or expires (`SerialOtpIsRedeemable`). Overlapping requests
break both promises at one place, `otp.service.ts:102`: GET and DEL are two commands,
so two verifications that read before either deletes both pass, and the DEL of a
verification of the previous OTP removes the one just sent.

## 6. One browser

`Client.tla` is the authentication of the front end: the tabs of one browser, the
refresh token in localStorage, the key pair in IndexedDB, the requests that
travel between the tabs and AuthService, the routes, and the notification socket.
The service answers each request in one step; what overlapping requests do inside
it is the subject of section 4.

| Action | Code |
|---|---|
| `Load` | `App.tsx`: keys, then `refreshThunk` with the stored token; what the page before it had sent may still be served (`ServeOrphan`) |
| `Login`, `Logout`, `Call` | `loginThunk`, `handleLogout` of the header, any other request of a page |
| `ReceiveLogin`, `Refreshed`, `RefreshRejected`, `ReceiveLogout`, `ReceiveEnd` | the reducers and thunks of `authSlice.ts` with what `authService.ts` and the interceptor do before and after |
| `Unauthorized`, `CallEnds` | the response interceptor `axiosClient.ts:63-121`: wait for the one refresh of the tab, start it, or log out |
| `Navigate` | `routes/index.tsx` with `AuthGuard`, `GuestGuard`, `HomeRedirect` |
| `HandleConnection`, `Reconnect` | `socketService.ts`, the effect of `UserTemplate`, `notifications.gateway.ts` |
| `Serve`, `ServeFails`, `Lose`, `Expire` | `AuthService`; a query that fails after the old sessions were revoked; a lost message; fifteen minutes |
| `ResetPassword` | `resetPasswordVerify` (`auth.service.ts:344-376`), asked for in the profile page of a tab or in another browser of the user |

`disturbed`, `unclean` and `left` are history and make the promises conditional
on what the code really needs:

- `OwnTokenIsNoBreach`: a client alone with its token is never told 'Token family
  revoked'. It needs one page at a time, none left with an authentication request
  in flight, and nothing asked during a login, logout or refresh. The single
  `refreshPromise` of `axiosClient.ts:25` is one per tab: a second tab, a reload
  during a refresh, a lost answer of a refresh, a second click on Login (the
  button is not disabled), or a 401 met while a logout is under way present the
  same token twice, and the service revokes the family. The one other way to that
  answer is a change of the password: it revokes every session of the user, that
  of the tab that asked included; the tab goes on until its access token expires
  and is then told that its token was replayed.
- `UserIsWhoLoggedIn`: a tab shows the user whose password was typed, if every
  sign-in before it ended by clearing its keys. The service takes the user of a
  refresh from the owner of the device key (`auth.service.ts:72`): after a refused
  logout or a rejected refresh the keys stay, the next user of the browser logs in
  on the first one's device and becomes the first one at the next refresh.
- `LogoutLeavesNothing`: after an accepted logout no token, no used key and no
  signed-in tab is left in the browser, and no live session on the server. A logout
  with an expired token is answered 401: refresh token and keys stay in storage.
  Clearing the keys in one tab does not clear the memory of another.
- `TabAtRestCanRefresh`: an undisturbed tab at rest holds the token of its session,
  the session is live unless a change of the password ended it, and its keys
  survive a reload.
- `FreshTabsAreNotified`: a tab with a good token whose connection is settled
  hears every notification of its user. A tab whose token expires is disconnected
  for good at the next reconnection, until a refresh brings a new token.

`authService.ts:21`, `dpopService.ts:52` and `axiosClient.ts:25` are right of one
tab only. One logout of the header at a time is modelled; a token expires only
while a tab holds it, which is when it matters.

## 7. Guards, records and the audit log

`Records.tla` has the handlers that read a row, change it and `save()` it, query by
query: profile, status and password of a user, and the list of beneficiaries.
`Api.tla` puts around them what every request passes: `JwtAuthGuard`, `DPoPGuard`
with GET and SET of the jti apart, `RolesGuard`, `ValidationPipe`, the answer, and
the audit row that is written afterwards and not awaited.

| Action | Code |
|---|---|
| `CheckToken`, `GetJti`, `SetJti`, `CheckRole` | `jwt.strategy.ts`, `dpop.guard.ts:23-119`, `roles.guard.ts`, `main.ts` |
| `ReadUser`, `SelectUser`, `UpdateUser` | `users.service.ts`, `resetPasswordVerify`: read, then SELECT and UPDATE of `save()` |
| `FindAccount`, `FindExisting`, `InsertRow`; `FindRow`, `SelectRow`, `UpdateRow`; `DeleteRow`; `ListRows` | `beneficiaries.service.ts` |
| `LogAction`, `LogActionFails` | `audit-log.interceptor.ts`, `audit-logs.service.ts` |
| `JtiExpires`, `QueryFails`, `Crash` | 300 seconds; a failed query; the process ends |

Every column of a user holds the request that wrote it last, which is all that
lost updates are about. Under any overlap: a row belongs to the user who added it
(`OwnRows`), only an administrator has changed a status (`StatusByAdmins`, which
holds because nobody can: `generateTokens` signs no role, so every admin route
answers 403), and `AuditTellsTheTruth` (a row of the log is a mutating request that
was answered with success, once, under its user; a failed insert or a crash loses
rows silently). Two further promises are weaker the more requests overlap:

- `ProofsWithinOverlap`: while its jti is remembered, a proof passes at most as often
  as requests overlap. GET and SET of the jti are two commands, so requests within
  one round trip to Redis all pass; one that begins after a SET is refused. After
  300 s a proof passes again, its age not being checked.
- `BeneficiariesWithinOverlap`: adds list an account for a user at most as often as
  requests overlap (those between `FindExisting` and `InsertRow` do not see each
  other), never the user's own or one that does not exist, and a row that was removed
  is not what an add made if it is there again: only an edit whose SELECT found
  nothing inserts it. An edit may at any time move a row to an account that is listed
  already, is the user's own, or does not exist: `updateBeneficiary` checks nothing.

One request at a time:

- `SerialColumns`: a request changes its own column of a user only. When two
  overlap, `save()` writes back the columns it has read: a profile update may undo
  a password reset.
- `SerialBeneficiaries` and `SerialProofs` (conjuncts of `IInv`): no account is added
  twice, what was removed stays away, and a proof passes once while its jti is
  remembered.

A profile update without a name changes nothing and is left out;
`updateTwoFactorSecret` has no caller.

## 8. The pages of the customer

`TransferPage.tla` is the transfer page over `Bank.tla`, the abstract endpoint that
`Transfer.tla` is proved to implement; `HistoryPage.tla` is `getHistory` with the
page that shows it; `Customer.tla` is one customer who uses both while others
transfer.

| Action | Code |
|---|---|
| `HandleFormChange`, `HandleSelectBeneficiary`, `HandleSubmit` | `Transaction/index.tsx:36-75`, `useTransfer.ts` |
| `HearSuccess`, `HearConflict`, `HearRefusal`, `HearServerError`, `NetworkError` | `Transaction/index.tsx:75-121` |
| `OpenForm`, `CloseForm` | the page is shown, left by a link (its promises go on) or reloaded (they do not) |
| `Endpoint`, `OtherPays` | the transfer endpoint, as far as it promises anything; everybody else |
| `FetchHistory`, `SetHistory`, `SetError`, `UpdateFilters`, `ChangePage` | `useTransactionHistory.ts` |
| `Choose`, `HandleClearAll`, `Turn` | `TransactionFilters.tsx`, `TransactionTable.tsx` |
| `Serve` | `transactions.service.ts:204-290` |

A key is named after the first request that carries it; `intent` names the
payment the customer is at, `risky` the payments outside the promise.

- `OnePaymentPerIntent`: however often a payment is submitted again after lost,
  late or refused answers, it is made once. Two situations are outside, and the
  code meets both: a 400 or 404 redraws the key although an earlier attempt with it
  may be committed (this is the client's half of run `transfer_refused_retry`), and
  the key is lost when the page is left or reloaded while an attempt is undecided.
- `SuccessIsOfThisForm`: the success shown is the transfer made, or that of an
  earlier attempt with the same key whose form was edited since: the endpoint
  repeats the answer of a spent key whatever the new body says.
- `TableAnswersQuery`: a page at rest shows the answer to its query, with the right
  signs, and is never behind the last page. Fetches that overlap are shown in the
  order of their answers, whatever was asked last (`overlapped`); an error hides a
  good table; a page that became empty would have no way back.
- `WalkMissesNothing`: turning the pages from first to last misses nothing that was
  there at the start, though transfers that come in shift the rows by offset; it
  may show a row twice.

A transfer between the customer's own accounts has a plus in the history, also
under "Money Out", and a minus on the dashboard. `endDate` is midnight and
excludes its own day; dates are the ids of requests here, so a day is one
transfer. The description, its search, and `getStatement` (which no page uses)
are left out.

## 9. Runs

| Run | Instance | Shows |
|---|---|---|
| `transfer_safety` | 3 requests, 2 accounts with balances 2 and 1, 10 payloads, 2 keys, 1 fault, pools of 1 and of 3 | all safety properties, no standstill, and the refinement |
| `transfer_live` | 3 opposed requests, pool of 2, 1 fault | every request is answered |
| `transfer_overdraft` | 2 requests, pool of 2 | violates `NoOverdraft` |
| `transfer_refused_retry` | 2 requests, pool of 2 | violates `RefusedKeyIsUnspent` |
| `accounts_safety` | 3 requests, 4 ids, 7 operations, 1 credit per account, 1 fault, pools of 1 and of 2 | credits, flags, no standstill, the serial promise |
| `accounts_primary_race` | 2 requests, pool of 2 | violates `ExactlyOnePrimary` |
| `sessions_safety` | 4 requests, 3 browsers, 2 users (one locked), 1 reset, 1 fault, 1 or 2 at a time | rotation, families, exchanges of one token, the serial promises |
| `sessions_reuse_race` | 4 requests, 1 browser, 2 at a time | violates `ReuseKillsFamily` |
| `otp_safety` | 4 requests, 1 email, 2 secrets, 2 codes, 1 fault, 1 or 2 at a time | what is redeemed was issued and how often, the serial promise |
| `client` | seven worlds of up to 2 users, 2 tabs, 2 logins, 3 sessions, 2 keys (1.68 million states) | the promises of section 6 |
| `api` | 3 requests of 8 or of 9 kinds, 2 users, 1 fault, 1 expiry, 1 or 2 at a time (1.69 million states) | the promises of section 7 |
| `customer` | five worlds of up to 3 requests, 2 own accounts and one of somebody else, pages of one row (1.16 million states) | the promises of section 8 |

Why these bounds are enough. Transfers conflict through two accounts and one key:
two requests meet, the third retries, or waits behind both (and a pool of two is
then full). The payloads contain every refusal of the endpoint, a key used with
two bodies, both directions, and two amounts that fit alone and not together.
The races of `Accounts` are between two requests; the third starts from what
they left. A replay needs a login, a refresh and the second use of the token; the
fourth request of `Sessions` is the one in flight meanwhile. Four requests of
`Otp` are two inits and two verifications of one email; different emails share
nothing but the sizes of tables. One fault is one interrupted request at any
place; what a fault leaves behind is then met by the requests that follow.

Each world of `Client` has one thing that goes wrong: two calls that meet a 401, a
lost message, a page left while it waits, two clicks on Login by two users, two
tabs, the socket and the pages of an administrator, a change of the password. Three sessions are a login,
its refresh, and the refresh that a reused token would make; two key pairs are the
one that was cleared, or not, and the next. Requests of `Api` meet in pairs, at one
row, one column or one proof; the third comes afterwards and finds what they
left. Three requests of `Customer` are an attempt, its retry and the attempt after
a new key; three rows make three pages.

`MaxFaults`, `MaxCredits`, `MaxVersion`, `MaxLapses`, `MaxSessions`, `MaxKeys`, the
bounds of the worlds, the number of requests and of ids are the only bounds of the
models. The runs of sections 2 to 5 and of section 7 check for deadlock, and may
stop only when every request is answered (`Finished`). `client` and `customer` do
not: there the bounds on sessions, keys and requests run out in the middle of a
behaviour that goes on in the code. Requests are symmetric in the runs of sections
2 to 5, and so are codes; in `api` only the requests whose rows nobody names; in
`client` and `customer` nothing is.

Each property of a passing run has a mutant of the code (the operators marked
"Mutant" in the modules) that breaks it under the run's own instance.

Fairness is assumed by `transfer_live` alone: `FairSpec` has weak fairness on the
steps of each request. A step is a query that returns to the Node event loop, a
free connection or a free lock that is handed out, or Postgres's deadlock
detector, which runs whenever a wait lasts for `deadlock_timeout`. No fairness is
assumed of submissions or faults. A lock that is released and taken again for
ever could starve a waiter under weak fairness; the finitely many requests of a
run cannot do this. `NoStandstill` and `SomebodyCanAdvance` need no fairness.

## 10. Proofs

The proofs hold for every number of requests, accounts, payloads, browsers,
users, emails, codes, tabs, keys, sessions, connections and faults, for pages of
any length, and for every set of worlds or menus, under the ASSUME of each module:
types of the constants, `None` different from the values it stands beside, finite
sets where they are counted, and amounts that are positive
(`transfer-request.dto.ts:26-27`, enforced by `ValidationPipe`; without it an
overdraft needs no race).

Every module has one theorem `Invariance`, `Spec => []IInv` (in `Client_proofs`,
`Views`), and every safety property of a passing run follows from it in a theorem
of its own; of `NoStandstill` the first conjunct does. TLC checks each `IInv` as an invariant of the
module's run.

| Module | Theorems besides `Invariance` |
|---|---|
| `Transfer_proofs` | `NoLostUpdate`, `WritersExclude`, `Idempotency`, `DoubleEntryBookkeeping`, `BooksAlwaysBalance`, `OverdraftIsBounded`, `NoOverdraftOneByOne`, `SomebodyGoesOn`, `TruthfulAnswers`, `EventsAfterCommit`, `PendingIsInvisible`, `Refinement` |
| `Accounts_proofs` | `CreditsSurvive`, `FlagsMoveOnRequest`, `OneAccountPerCreate`, `OnePrimaryOneByOne`, `SomebodyGoesOn` |
| `Sessions_proofs` | `RotationRevokes`, `FamilyOrigin`, `ExchangesAreBounded`, `TokenExchangedOnce`, `OneSessionPerDevice`, `ReuseRevokesAll`, `ResetLogsOut` |
| `Otp_proofs` | `RegisteredAsIssued`, `OtpPassesAreBounded`, `OtpPassesOnce`, `OtpIsRedeemable` |
| `Client_proofs` | `Views`, `FreshTabsHear` |
| `ClientSession_proofs` | `SignedInAsTyped`, `OwnTokenNeverBreach`, `RestingTabRefreshes`, `LogoutIsComplete` |
| `Api_proofs` | `AuditTruth`, `ProofsAreBounded`, `ProofsPassOnce`, `ListsAreBounded`, `ListsAreRight`, `ColumnsAreOwn` |
| `Customer_proofs` | `OnePayment`, `SuccessOfForm`, `TableIsRight`, `WalkIsComplete` |

### The inductive invariants, and why they are needed

- **Transfers under concurrency** (`CoreInv`). What a transaction has written is a
  function of its place (`PendingRow`, `PendingEntries`, `PendingBalance`); who
  writes a balance holds the exclusive lock on the row (`LockInv`); an uncommitted
  key is neither committed nor anybody else's (`UnspentInv`, `ReservedInv`),
  because `ReserveKey` waits for uncommitted rows with its key.
- **The books** (`BooksInv`). A COMMIT adds one debit and one credit that were not
  in the ledger, and moves the two balances by the same amount; nothing else
  touches either. `Total` is a fold over a set. What a fold computes is shown by
  taking a set of least cardinality for which it fails (`SumExists`, `SumUnique`):
  `WFMin` is a theorem about sets and needs no operator as a parameter. From it
  come `TotalOfNone` and `TotalOfMore`, and no later proof unfolds the fold.
- **No overdraft with one connection** (`FundsInv`). One transaction is connected;
  from the check of `transactions.service.ts:103` to the debit, the sender still has
  what was compared.
- **The overdraft the pool allows** (`PoolInv`). The spenders of an account are the
  transactions that have read a balance that is enough and not yet committed their
  debit. With `n` of them the debt leaves room for `m` each, that is, it is `m` at most
  for each of the other connections but one, or it is what is left of a balance that
  one of the spenders found sufficient, with `m` taken for each connection that is not
  a spender's (`DebtInv`): a COMMIT takes `m` at most and gives its connection back,
  and whoever passes the check establishes the second case, however many came before.
  The bound on the balance alone is not inductive, since the debit comes long after
  the check.
- **Promises that weaken with the overlap** (`ExchangeInv`, `PassInv`, `OverlapInv`). A
  check that found nothing done is followed, later and not atomically, by the deed:
  `isRevoked` by the rotation, GET by DEL or SET, the search of the list by the
  INSERT. The deed counts itself out for good (a revoked session stays revoked, a
  deleted OTP is never stored again, a remembered jti stays until it lapses, a listed
  account is found), so whoever passes the check passes it before the first deed. The
  invariant is about the deeds done *and* those under way: a check passed while none
  is done finds only requests in hand, of which there are at most `overlap`, and
  every other step moves a request from those under way to the done, or leaves the
  set smaller.
- **Accounts**. A version waiting for its COMMIT is under its writer's lock and has
  the committed balance (`UncommittedInv`); the row `updateAccount` read has not
  changed since (`CopyInv`). Which flags a transaction may have moved, as a
  function of what it was asked for, is `FlagInv`. `SerialInv`: one transaction at a
  time, at each of its places, the number of primary accounts that its COMMIT would
  leave is known (`KeepsOnePrimary`), between clearing the old flag and writing the
  new one included.
- **No standstill** (`ShareInv` of Transfer, `RoomInv` of Accounts). Suppose that
  nobody can go on. Somebody is connected, or the pool would have a connection left.
  In Accounts a connected request waits for a row, since a create has an id left, or
  another create is at its COMMIT; in Transfer one has its key, or waits for one that
  has, and that one waits for a row (`StuckWaits`). What it waits for is locked by a
  transaction that is open and waits likewise (`LockInv`). In a
  finite set of transactions each of which waits for one of them, a least subset
  that these waits do not leave is mapped onto itself, so one to one, which is what
  the deadlock detector looks for (`WaitsMeet`).
- **Sessions under concurrency** (`CoreInv`). What `refresh` read of the presented
  session stays so while it works, except `isRevoked`, which only ever becomes true
  (`RefreshInv`); a session row belongs to an answered request (`PlaceInv`), so a
  row once there is never replaced.
- **Sessions one at a time** (`SerialParts`). `revokeTokenFamily` revokes the
  presented session and its descendants; that nothing live is left of the family
  needs a set of revoked sessions closed under `parentId` in both directions
  (`DeadTree`): the ancestors of the session are revoked by `ParentIsRevoked`, and as
  every session has one successor at most (`OneSuccessor`) they and the descendants
  are the whole family; and no refresh adds to it, because none continues from a
  revoked session. `ProofIsCurrent` compares the version
  of the password that a login has proven with those of the resets that ended, and
  `ResetSeesAll` keeps every device with a live session among those the loop of the
  reset has yet to visit.
- **OTP**. Entries of Redis and of the memory of a verification are what their
  request issued under that key (`EntryInv`), whatever DEL, SET and expiry do
  meanwhile. One at a time (`SerialInv`): between GET and DEL the key holds what
  was read or nothing, and no stored code was redeemed.
- **The browser** (`Client_proofs`). Two redirects settle every route; a socket is
  closed, opened or kept with the very token of its tab (`SocketInv`); a token held
  or about to be told names a row (`HeldInv`), and rows are numbered without gaps
  (`RowsInv`), so none is ever replaced.
- **Sign-ins** (`ClientSession_proofs`). Every promise has its own condition, and
  each conjunct the weakest under which it is inductive: one tab is used while
  nothing was disturbed or nothing unclean (`SoloInv`); while every sign-in cleared
  its keys, a key that has an owner is in the browser only during a sign-in
  (`CleanInv`); while nothing was disturbed, a refresh, a login and a logout travel
  one without the other, with the stored token and the key in memory, and that
  token is good unless a better one, or its end, is on the way (`QuietInv`); the
  one live session is the stored one or on its way while neither happened
  (`CurrentInv`); after an accepted logout nothing that bears a token is on its way
  (`LeftInv`).
- **Guards, records and the audit log**. A request is past the guards only when
  admitted and answered only at the end (`PlaceInv`); the object a handler holds
  belongs to its user (`EntityInv`); with one request at a time it is what is in the
  table (`SerialInv`); the jti of a proof that passed is remembered or has expired
  (`ProofInv`).
- **The transfer page**. Whatever may still pay for one payment carries one key, and
  that key is the form's as long as the payment is open (`IntentInv`); a key belongs
  to one payment (`KeyInv`); what awaits an answer belongs to the form or to a risky
  payment (`AttemptInv`); a committed transfer is what its request asked for
  (`ServerInv`).
- **The history page** (`AnswersInv`, `WalkInv`). The rows that match a filter only
  grow, and a transfer only moves back as others come (`PlaceGrows`). While no
  fetches overlap, whatever the first page was taken from and was not seen lies
  behind the page that is shown (`Ahead`), and the page that is asked for has a row
  (`Reached`): a button is shown only where the answer on the screen had that many
  rows, every place up to their number is taken (`PlaceTaken`), and there are no
  fewer when the answer comes.

`Refinement` gives `Bank.tla` the committed rows and the answers, by name:
`Publish` is its `Execute`, `Lookup` of a spent key its `Repeat`, `Announce` its
`Announce`, a 400, 404 or 409 its `Refuse`, a 500 or a crash its `Break`; every
other step inside the transaction is a stutter. With it the theorems of
`Customer_proofs`, proved over `Bank`, are promises of the pages over the transfer
service.

Only model-checked: `EveryRequestIsAnswered` (liveness, under fairness), and the
second conjunct of `NoStandstill`, that `CanAdvance` is what `Advance` needs, which
is stated with ENABLED: the prover handles neither. That `CanAdvance` of `Transfer` is
what `Step` needs rests on the guards they share (`KeyFree`, `MayShare`, `MayLock`).

## 11. Not modelled, and what comes next

- Amounts: balances are JavaScript numbers added in binary floating point over
  `decimal(20,4)` columns (`accounts.service.ts:194`). The models count in whole
  units, for which the arithmetic is exact; what rounding to 53 bits does beyond
  some 10^11 with four decimals is out of their reach.
- Handlers that only read (`getAccounts`, profile and security, the administrator's
  list, `getMyLogs`, `getStatement`, `findByTransactionId`) change no state.
- Rendering: the dashboard, the profile page, and the modals show one answer and
  send one request; what they send is in `Records`, `Accounts` and `Otp`.
- Configuration, prefix, CORS, helmet, Swagger, the shape of responses, mail
  templates, and cryptography: what a hash or a signature proves is taken as given.
- `Sessions.tla` has one user per browser key; `Client.tla` has several, with the
  service answering one request at a time. Several users on one key whose requests
  overlap are in neither.

- One request at a time only, and false when requests overlap (sections 3 to 7 say
  how): one primary account, one session per device, the end of a family or of all
  sessions, an OTP that stays redeemable, and columns that are not written back. No
  weaker promise that would hold under any overlap is stated for these.
