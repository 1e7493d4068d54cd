-------------------------------- MODULE Bank --------------------------------
(***************************************************************************)
(* The bank service (internal/bank): concurrent HTTP requests that run     *)
(* database transactions on shared tables.                                 *)
(*                                                                         *)
(* Each request is a process that takes one step per database statement    *)
(* another request can notice: the queries before the transaction, BEGIN,  *)
(* the insert of the idempotency key, each SELECT ... FOR UPDATE, COMMIT.  *)
(* The UPDATEs and INSERTs between the last of these and COMMIT touch only *)
(* rows that the transaction has locked or created, and nobody sees them   *)
(* before COMMIT: they are part of the Commit action, in their order.      *)
(*                                                                         *)
(* PostgreSQL (external) is modelled from how the repository uses it: READ *)
(* COMMITTED, row locks until the end of the transaction, an insert of a   *)
(* key that another open transaction has inserted waits for its end, and a *)
(* transaction in a cycle of waits is aborted.  Any statement may fail or  *)
(* run into the 30 s context of getDefaultContext.                         *)
(***************************************************************************)
EXTENDS Integers, FiniteSets, FiniteSetsExt

CONSTANTS
    Request,        \* the concurrent requests
    Account,        \* account IDs that NextID can return
    Currency,       \* currency IDs
    Key,            \* idempotency keys
    Bodies,         \* the request bodies that clients send
    Opening,        \* accounts at the start: account -> [currency, amount]
    MaxConns,       \* connections in the pool
    MaxAttempts,    \* bound: how often a client sends the same request
    Half,           \* int64 holds -Half .. Half - 1; 2^63 in the code
    None            \* no lock holder, no account, no parent

(* A request body.  Operations on one account name it from; valid says       *)
(* whether the JSON, the currency ID and decimals, the account name, or the  *)
(* account ID in the path, are accepted.  Amounts are of type int64.         *)
Body ==
    LET Form(ops, keys, from, to, amount, currency) ==
            [op : ops, key : keys, valid : BOOLEAN, from : from, to : to,
             amount : amount, currency : currency]
        int64 == -Half..Half - 1
    IN  Form({"CreateCurrency"}, {None}, {None}, {None}, {0}, Currency) \cup
        Form({"CreateAccount"}, Key, {None}, {None}, {0}, Currency) \cup
        Form({"Deposit", "Withdraw"}, Key, Account, {None}, int64, {None}) \cup
        Form({"Transfer"}, Key, Account, Account, int64, {None}) \cup
        Form({"GetCurrencies"}, {None}, {None}, {None}, {0}, {None}) \cup
        Form({"GetAccountInfo"}, {None}, Account \cup {None}, {None}, {0}, {None})

CreateCurrencyRequest(currency, valid) ==
    [op |-> "CreateCurrency", key |-> None, valid |-> valid, from |-> None,
     to |-> None, amount |-> 0, currency |-> currency]

CreateAccountRequest(valid, currency, key) ==
    [op |-> "CreateAccount", key |-> key, valid |-> valid, from |-> None,
     to |-> None, amount |-> 0, currency |-> currency]

DepositRequest(account, amount, key) ==
    [op |-> "Deposit", key |-> key, valid |-> TRUE, from |-> account,
     to |-> None, amount |-> amount, currency |-> None]

WithdrawRequest(account, amount, key) ==
    [op |-> "Withdraw", key |-> key, valid |-> TRUE, from |-> account,
     to |-> None, amount |-> amount, currency |-> None]

TransferRequest(from, to, amount, key) ==
    [op |-> "Transfer", key |-> key, valid |-> TRUE, from |-> from,
     to |-> to, amount |-> amount, currency |-> None]

GetCurrenciesRequest ==
    [op |-> "GetCurrencies", key |-> None, valid |-> TRUE, from |-> None,
     to |-> None, amount |-> 0, currency |-> None]

GetAccountInfoRequest(account, valid) ==
    [op |-> "GetAccountInfo", key |-> None, valid |-> valid, from |-> account,
     to |-> None, amount |-> 0, currency |-> None]

ASSUME BankAssumption ==
    /\ IsFiniteSet(Request) /\ IsFiniteSet(Account)
    /\ None \notin Request \cup Account \cup Currency \cup Key \cup Bodies \cup Int
    /\ Bodies \subseteq Body
    /\ MaxConns \in Nat \ {0} /\ MaxAttempts \in Nat \ {0} /\ Half \in Nat \ {0}
    /\ DOMAIN Opening \subseteq Account
    /\ \A a \in DOMAIN Opening :
           Opening[a].currency \in Currency /\ Opening[a].amount \in 0..Half - 1

VARIABLES
    \* committed tables
    currencies, accounts, balances, transactions, idempotencyKeys,
    \* locks: who has inserted a key or currency, who has locked a balance
    rowLock, keyLock, currencyLock,
    \* requests
    pc, body, attempt, read, newID, answer,
    \* history: the attempts whose transaction was committed
    applied

tables  == <<currencies, accounts, balances, transactions, idempotencyKeys>>
locks   == <<rowLock, keyLock, currencyLock>>
locals  == <<body, attempt, read, newID>>
vars    == <<tables, locks, pc, locals, answer, applied>>

-----------------------------------------------------------------------------
(* Errors, and the code with which api.go answers them.                      *)

OK                               == 200
ErrorCodeUnknown                 == 9000
ErrorCodeInvalidParams           == 1001
ErrorCodeInvalidOperation        == 1002
ErrorCodeDuplicateIdempotencyKey == 1003

ErrorCode ==
    {ErrorCodeUnknown, ErrorCodeInvalidParams, ErrorCodeInvalidOperation,
     ErrorCodeDuplicateIdempotencyKey}

CodeOf(err) ==
    CASE err = "invalid parameters" -> ErrorCodeInvalidParams
      [] err = "ErrIdempotencyKeyExists" -> ErrorCodeDuplicateIdempotencyKey
      [] err \in {"ErrCurrencyAlreadyExists", "ErrCurrencyNotFound",
                  "ErrAccountNotFound", "ErrInsufficientBalance",
                  "ErrTransferFromAccountNotFound",
                  "ErrTransferToAccountNotFound",
                  "ErrTransferCurrencyMismatch"} -> ErrorCodeInvalidOperation
      [] OTHER -> ErrorCodeUnknown

(* int64 arithmetic: two's complement, wrapping.                             *)
Int64(x) == ((x + Half) % (2 * Half)) - Half

-----------------------------------------------------------------------------

Transaction ==
    [id : (Request \cup Account) \X (0..MaxAttempts) \X {1, 2},
     account : Account,
     txType : {"Deposit", "Withdraw", "Transfer"},
     amount : Int,
     parentID : Request \X (1..MaxAttempts) \X {1, 2} \cup {None}]

Record(id, account, txType, amount, parentID) ==
    [id |-> id, account |-> account, txType |-> txType,
     amount |-> amount, parentID |-> parentID]

InTx == {"key", "insertCurrency", "lockFrom", "lockTo", "commit"}

TypeOK ==
    /\ currencies \subseteq Currency
    /\ DOMAIN accounts \subseteq Account
    /\ accounts \in [DOMAIN accounts -> Currency]
    /\ balances \in [DOMAIN accounts -> -Half..Half - 1]
    /\ transactions \subseteq Transaction
    /\ idempotencyKeys \subseteq Key
    /\ rowLock \in [Account -> Request \cup {None}]
    /\ keyLock \in [Key -> Request \cup {None}]
    /\ currencyLock \in [Currency -> Request \cup {None}]
    /\ pc \in [Request -> InTx \cup {"idle", "service", "toCurrency", "begin", "done"}]
    /\ body \in [Request -> Bodies \cup {None}]
    /\ attempt \in [Request -> 1..MaxAttempts]
    /\ read \in [Request -> [from : Int, to : Int]]
    /\ newID \in [Request -> Account \cup {None}]
    /\ answer \in [Request -> ErrorCode \cup {OK, None}]
    /\ applied \subseteq Request \X (1..MaxAttempts)

(* The accounts of Opening were created and funded by earlier requests.      *)
Init ==
    /\ currencies = {Opening[a].currency : a \in DOMAIN Opening}
    /\ accounts = [a \in DOMAIN Opening |-> Opening[a].currency]
    /\ balances = [a \in DOMAIN Opening |-> Opening[a].amount]
    /\ transactions = {Record(<<a, 0, 1>>, a, "Deposit", Opening[a].amount, None) :
                           a \in {x \in DOMAIN Opening : Opening[x].amount > 0}}
    /\ idempotencyKeys = {}
    /\ rowLock = [a \in Account |-> None]
    /\ keyLock = [k \in Key |-> None]
    /\ currencyLock = [c \in Currency |-> None]
    /\ pc = [r \in Request |-> "idle"]
    /\ body = [r \in Request |-> None]
    /\ attempt = [r \in Request |-> 1]
    /\ read = [r \in Request |-> [from |-> 0, to |-> 0]]
    /\ newID = [r \in Request |-> None]
    /\ answer = [r \in Request |-> None]
    /\ applied = {}

-----------------------------------------------------------------------------
(* Building blocks.                                                          *)

Goto(r, label) ==
    /\ pc' = [pc EXCEPT ![r] = label]
    /\ UNCHANGED answer

Finish(r, code) ==
    /\ pc' = [pc EXCEPT ![r] = "done"]
    /\ answer' = [answer EXCEPT ![r] = code]

(* Mutant: a request never gives its connection back.                        *)
ConnectionFree_Leaks ==
    Cardinality({r \in Request : pc[r] \in InTx \cup {"done"}}) < MaxConns

(* A pool connection is free: every open transaction holds one.              *)
ConnectionFree == Cardinality({r \in Request : pc[r] \in InTx}) < MaxConns

(* The end of r's transaction, by COMMIT or ROLLBACK, gives up its locks.    *)
Release(r) ==
    LET Freed(lock) ==
            [x \in DOMAIN lock |-> IF lock[x] = r THEN None ELSE lock[x]]
    IN  /\ rowLock' = Freed(rowLock)
        /\ keyLock' = Freed(keyLock)
        /\ currencyLock' = Freed(currencyLock)

(* The handler returns before its transaction.                               *)
Reject(r, err) ==
    /\ Finish(r, CodeOf(err))
    /\ UNCHANGED <<tables, locks, locals, applied>>

(* The transaction function returns an error: BeginTxFunc rolls back.        *)
Abort(r, err) ==
    /\ Finish(r, CodeOf(err))
    /\ Release(r)
    /\ UNCHANGED <<tables, locals, applied>>

Proceed(r, label) ==
    /\ Goto(r, label)
    /\ UNCHANGED <<tables, locks, locals, applied>>

-----------------------------------------------------------------------------
(* The client.                                                               *)

Submit(r, b) ==
    /\ pc[r] = "idle"
    /\ body' = [body EXCEPT ![r] = b]
    /\ Goto(r, "service")
    /\ UNCHANGED <<tables, locks, attempt, read, newID, applied>>

(* A client that got status 500, or no answer, sends the same body again.    *)
Retry(r) ==
    /\ pc[r] = "done"
    /\ answer[r] = ErrorCodeUnknown
    /\ attempt[r] < MaxAttempts
    /\ attempt' = [attempt EXCEPT ![r] = @ + 1]
    /\ answer' = [answer EXCEPT ![r] = None]
    /\ newID' = [newID EXCEPT ![r] = None]
    /\ pc' = [pc EXCEPT ![r] = "service"]
    /\ UNCHANGED <<tables, locks, body, read, applied>>

-----------------------------------------------------------------------------
(* The operations that only read, and the others before their transaction.   *)

(* What the handlers refuse before they ask the database: a currency or an   *)
(* account name or ID that is not accepted, or an amount.  Transfer tests    *)
(* its amount only for 0.                                                    *)
InvalidParams(b) ==
    \/ ~ b.valid
    \/ b.op \in {"Deposit", "Withdraw"} /\ b.amount <= 0
    \/ b.op = "Transfer" /\ b.amount = 0

RejectParams(r) ==
    /\ pc[r] = "service"
    /\ InvalidParams(body[r])
    /\ Reject(r, "invalid parameters")

Serves(r, ops) ==
    pc[r] = "service" /\ body[r].op \in ops /\ ~ InvalidParams(body[r])

GetCurrencies(r) ==
    /\ Serves(r, {"GetCurrencies"})
    /\ ConnectionFree
    /\ Finish(r, OK)
    /\ UNCHANGED <<tables, locks, locals, applied>>

(* One statement that joins the three tables: its row, or None.              *)
GetAccountInfoByID(a) ==
    IF a \in DOMAIN accounts \cap DOMAIN balances /\ accounts[a] \in currencies
    THEN balances[a] ELSE None

GetAccountInfo(r) ==
    LET row == GetAccountInfoByID(body[r].from)
    IN  /\ Serves(r, {"GetAccountInfo"})
        /\ ConnectionFree
        /\ \/ row = None /\ Reject(r, "ErrAccountNotFound")
           \/ /\ row # None
              /\ read' = [read EXCEPT ![r].from = row]
              /\ Finish(r, OK)
              /\ UNCHANGED <<tables, locks, body, attempt, newID, applied>>

CreateCurrency(r) ==
    /\ Serves(r, {"CreateCurrency"})
    /\ Proceed(r, "begin")

(* An ID that no other call was given.                                       *)
UnusedIDs == Account \ (DOMAIN accounts \cup {newID[q] : q \in Request})

NextID == CHOOSE a \in UnusedIDs : TRUE

CurrencyExists(c) == c \in currencies

(* CurrencyExists, then NextID.  Bound: no more calls than there are IDs.    *)
CreateAccount(r) ==
    /\ Serves(r, {"CreateAccount"})
    /\ ConnectionFree
    /\ \/ /\ ~ CurrencyExists(body[r].currency)
          /\ Reject(r, "ErrCurrencyNotFound")
       \/ /\ CurrencyExists(body[r].currency)
          /\ UnusedIDs # {}
          /\ newID' = [newID EXCEPT ![r] = NextID]
          /\ Goto(r, "begin")
          /\ UNCHANGED <<tables, locks, body, attempt, read, applied>>

DepositOrWithdraw(r) ==
    /\ Serves(r, {"Deposit", "Withdraw"})
    /\ Proceed(r, "begin")

(* None for the empty string that the code returns if there is no row.       *)
GetAccountCurrencyID(a) == IF a \in DOMAIN accounts THEN accounts[a] ELSE None

(* GetAccountCurrencyID of both accounts runs outside the transaction.       *)
Transfer(r) ==
    /\ Serves(r, {"Transfer"})
    /\ ConnectionFree
    /\ IF GetAccountCurrencyID(body[r].from) = None
       THEN Reject(r, "ErrTransferFromAccountNotFound")
       ELSE Proceed(r, "toCurrency")

(* Mutant: the currencies are not compared.                                  *)
TransferToCurrency_AnyCurrency(r) ==
    /\ pc[r] = "toCurrency"
    /\ ConnectionFree
    /\ IF GetAccountCurrencyID(body[r].to) = None
       THEN Reject(r, "ErrTransferToAccountNotFound")
       ELSE Proceed(r, "begin")

TransferToCurrency(r) ==
    LET from == GetAccountCurrencyID(body[r].from)
        to   == GetAccountCurrencyID(body[r].to)
    IN  /\ pc[r] = "toCurrency"
        /\ ConnectionFree
        /\ \/ to = None /\ Reject(r, "ErrTransferToAccountNotFound")
           \/ to \notin {None, from} /\ Reject(r, "ErrTransferCurrencyMismatch")
           \/ to = from /\ Proceed(r, "begin")

-----------------------------------------------------------------------------
(* The transaction.                                                          *)

Begin(r) ==
    /\ pc[r] = "begin"
    /\ ConnectionFree
    /\ Proceed(r, IF body[r].op = "CreateCurrency" THEN "insertCurrency" ELSE "key")

(* Mutant: the unique violation is ignored.                                  *)
InsertCurrency_IgnoresConflict(r) ==
    /\ pc[r] = "insertCurrency"
    /\ currencyLock[body[r].currency] = None
    /\ currencyLock' = [currencyLock EXCEPT ![body[r].currency] = r]
    /\ Goto(r, "commit")
    /\ UNCHANGED <<tables, rowLock, keyLock, locals, applied>>

InsertCurrency(r) ==
    LET c == body[r].currency
    IN  /\ pc[r] = "insertCurrency"
        /\ currencyLock[c] = None
        /\ \/ c \in currencies /\ Abort(r, "ErrCurrencyAlreadyExists")
           \/ /\ c \notin currencies
              /\ currencyLock' = [currencyLock EXCEPT ![c] = r]
              /\ Goto(r, "commit")
              /\ UNCHANGED <<tables, rowLock, keyLock, locals, applied>>

(* Mutant: rowsChanged = 0 is ignored.                                       *)
InsertIdempotencyKey_IgnoresConflict(r) ==
    LET k == body[r].key
    IN  /\ pc[r] = "key"
        /\ keyLock[k] = None
        /\ keyLock' = [keyLock EXCEPT ![k] = r]
        /\ Goto(r, IF body[r].op = "CreateAccount" THEN "commit" ELSE "lockFrom")
        /\ UNCHANGED <<tables, rowLock, currencyLock, locals, applied>>

(* Mutant: a key in another open transaction is taken for a duplicate.       *)
InsertIdempotencyKey_SeesUncommitted(r) ==
    LET k == body[r].key
    IN  /\ pc[r] = "key"
        /\ \/ /\ k \in idempotencyKeys \/ keyLock[k] # None
              /\ Abort(r, "ErrIdempotencyKeyExists")
           \/ /\ k \notin idempotencyKeys
              /\ keyLock[k] = None
              /\ keyLock' = [keyLock EXCEPT ![k] = r]
              /\ Goto(r, IF body[r].op = "CreateAccount" THEN "commit" ELSE "lockFrom")
              /\ UNCHANGED <<tables, rowLock, currencyLock, locals, applied>>

(* ON CONFLICT DO NOTHING: 0 rows if the key is committed.                   *)
InsertIdempotencyKey(r) ==
    LET k == body[r].key
    IN  /\ pc[r] = "key"
        /\ keyLock[k] = None
        /\ \/ k \in idempotencyKeys /\ Abort(r, "ErrIdempotencyKeyExists")
           \/ /\ k \notin idempotencyKeys
              /\ keyLock' = [keyLock EXCEPT ![k] = r]
              /\ Goto(r, IF body[r].op = "CreateAccount" THEN "commit" ELSE "lockFrom")
              /\ UNCHANGED <<tables, rowLock, currencyLock, locals, applied>>

(* Mutant: Withdraw does not test the difference.                            *)
InsufficientBalance_NotInWithdraw(b, amount) ==
    b.op = "Transfer" /\ amount < b.amount

(* Whether the balance read from the first account is too small.  Withdraw   *)
(* tests the difference, Transfer compares.                                  *)
InsufficientBalance(b, amount) ==
    \/ b.op = "Withdraw" /\ Int64(amount - b.amount) < 0
    \/ b.op = "Transfer" /\ amount < b.amount

(* Mutant: the SELECT has no FOR UPDATE.                                     *)
LockFrom_WithoutLock(r) ==
    LET b == body[r]
        a == b.from
    IN  /\ pc[r] = "lockFrom"
        /\ a \in DOMAIN balances
        /\ ~ InsufficientBalance(b, balances[a])
        /\ read' = [read EXCEPT ![r].from = balances[a]]
        /\ Goto(r, IF b.op = "Transfer" THEN "lockTo" ELSE "commit")
        /\ UNCHANGED <<tables, locks, body, attempt, newID, applied>>

(* SELECT ... FOR UPDATE returns the present balance and locks its row.      *)
GetBalanceWithLock(r, a, side) ==
    /\ rowLock' = [rowLock EXCEPT ![a] = r]
    /\ read' = [read EXCEPT ![r][side] = balances[a]]
    /\ UNCHANGED <<tables, keyLock, currencyLock, body, attempt, newID, applied>>

(* GetBalanceWithLock on the only account, or on the from account.           *)
LockFrom(r) ==
    LET b == body[r]
        a == b.from
    IN  /\ pc[r] = "lockFrom"
        /\ rowLock[a] = None
        /\ \/ /\ a \notin DOMAIN balances
              /\ Abort(r, IF b.op = "Transfer"
                          THEN "cannot find balance"
                          ELSE "ErrAccountNotFound")
           \/ /\ a \in DOMAIN balances
              /\ InsufficientBalance(b, balances[a])
              /\ Abort(r, "ErrInsufficientBalance")
           \/ /\ a \in DOMAIN balances
              /\ ~ InsufficientBalance(b, balances[a])
              /\ GetBalanceWithLock(r, a, "from")
              /\ Goto(r, IF b.op = "Transfer" THEN "lockTo" ELSE "commit")

(* GetBalanceWithLock on the to account of a Transfer.                       *)
LockTo(r) ==
    LET a == body[r].to
    IN  /\ pc[r] = "lockTo"
        /\ rowLock[a] \in {None, r}
        /\ \/ a \notin DOMAIN balances /\ Abort(r, "cannot find balance")
           \/ /\ a \in DOMAIN balances
              /\ GetBalanceWithLock(r, a, "to")
              /\ Goto(r, "commit")

(* Mutant: Transfer adds the amount to the balance of the wrong account.     *)
UpdateBalance_CreditsWrongRead(r, a) ==
    LET b == body[r]
    IN  CASE b.op = "Transfer" /\ a = b.to   -> Int64(read[r].from + b.amount)
          [] b.op = "Transfer" /\ a # b.to /\ a = b.from ->
                 Int64(read[r].from - b.amount)
          [] b.op = "Withdraw" /\ a = b.from -> Int64(read[r].from - b.amount)
          [] b.op = "Deposit"  /\ a = b.from -> Int64(read[r].from + b.amount)
          [] OTHER -> balances[a]

(* What r's UpdateBalance calls leave in the balance of account a.  Transfer *)
(* updates the from account first and the to account last.                   *)
UpdateBalance(r, a) ==
    LET b == body[r]
    IN  CASE b.op = "Transfer" /\ a = b.to   -> Int64(read[r].to + b.amount)
          [] b.op = "Transfer" /\ a # b.to /\ a = b.from ->
                 Int64(read[r].from - b.amount)
          [] b.op = "Deposit"  /\ a = b.from -> Int64(read[r].from + b.amount)
          [] b.op = "Withdraw" /\ a = b.from -> Int64(read[r].from - b.amount)
          [] OTHER -> balances[a]

(* The rows of r's InsertTransaction calls.                                  *)
InsertTransaction(r) ==
    LET b       == body[r]
        ID(leg) == <<r, attempt[r], leg>>
    IN  CASE b.op = "Deposit"  ->
                {Record(ID(1), b.from, "Deposit", b.amount, None)}
          [] b.op = "Withdraw" ->
                {Record(ID(1), b.from, "Withdraw", Int64(-b.amount), None)}
          [] b.op = "Transfer" ->
                {Record(ID(1), b.from, "Transfer", Int64(-b.amount), None),
                 Record(ID(2), b.to, "Transfer", b.amount, ID(1))}
          [] OTHER -> {}

(* Mutant: CreateAccount does not insert a balance.                          *)
Apply_NoZeroBalance(r) ==
    LET b       == body[r]
        created == IF b.op = "CreateAccount" THEN {newID[r]} ELSE {}
    IN  /\ currencies' = currencies \cup
              (IF b.op = "CreateCurrency" THEN {b.currency} ELSE {})
        /\ accounts' = [a \in DOMAIN accounts \cup created |->
                           IF a \in created THEN b.currency ELSE accounts[a]]
        /\ balances' = [a \in DOMAIN balances |-> UpdateBalance(r, a)]
        /\ transactions' = transactions \cup InsertTransaction(r)
        /\ idempotencyKeys' = idempotencyKeys \cup ({b.key} \ {None})
        /\ applied' = applied \cup {<<r, attempt[r]>>}
        /\ Release(r)
        /\ UNCHANGED locals

(* The writes of r's transaction become visible, all at once.                *)
Apply(r) ==
    LET b       == body[r]
        created == IF b.op = "CreateAccount" THEN {newID[r]} ELSE {}
    IN  /\ currencies' = currencies \cup
              (IF b.op = "CreateCurrency" THEN {b.currency} ELSE {})
        /\ accounts' = [a \in DOMAIN accounts \cup created |->
                           IF a \in created THEN b.currency ELSE accounts[a]]
        /\ balances' = [a \in DOMAIN balances \cup created |->
                           IF a \in created THEN 0 ELSE UpdateBalance(r, a)]
        /\ transactions' = transactions \cup InsertTransaction(r)
        /\ idempotencyKeys' = idempotencyKeys \cup ({b.key} \ {None})
        /\ applied' = applied \cup {<<r, attempt[r]>>}
        /\ Release(r)
        /\ UNCHANGED locals

Commit(r) ==
    /\ pc[r] = "commit"
    /\ Apply(r)
    /\ Finish(r, OK)

(* COMMIT is executed but its answer is lost: the service reports an error.  *)
CommitUnseen(r) ==
    /\ pc[r] = "commit"
    /\ Apply(r)
    /\ Finish(r, ErrorCodeUnknown)

(* A statement fails, the context expires, or the connection is lost.        *)
Fail(r) ==
    /\ pc[r] \notin {"idle", "done"}
    /\ Abort(r, "database error")

(* PostgreSQL aborts a transaction that waits in a cycle.                    *)
Holder(r) ==
    CASE pc[r] = "key"            -> keyLock[body[r].key]
      [] pc[r] = "insertCurrency" -> currencyLock[body[r].currency]
      [] pc[r] = "lockFrom"       -> rowLock[body[r].from]
      [] pc[r] = "lockTo"         -> rowLock[body[r].to]
      [] OTHER -> None

Deadlocked(r) ==
    \E cycle \in SUBSET Request :
        /\ r \in cycle
        /\ Cardinality(cycle) > 1
        /\ {Holder(q) : q \in cycle} = cycle

DeadlockVictim(r) ==
    /\ Deadlocked(r)
    /\ Abort(r, "deadlock detected")

-----------------------------------------------------------------------------

(* The steps of a request that do not fail.                                  *)
Advance(r) ==
    \/ RejectParams(r)
    \/ GetCurrencies(r)
    \/ GetAccountInfo(r)
    \/ CreateCurrency(r)
    \/ CreateAccount(r)
    \/ DepositOrWithdraw(r)
    \/ Transfer(r)
    \/ TransferToCurrency(r)
    \/ Begin(r)
    \/ InsertCurrency(r)
    \/ InsertIdempotencyKey(r)
    \/ LockFrom(r)
    \/ LockTo(r)
    \/ Commit(r)

(* Every request has been answered and will not be sent again.               *)
Terminated ==
    /\ \A r \in Request :
           /\ pc[r] = "done"
           /\ answer[r] = ErrorCodeUnknown => attempt[r] = MaxAttempts
    /\ UNCHANGED vars

Next ==
    \/ \E r \in Request, b \in Bodies : Submit(r, b)
    \/ \E r \in Request : Retry(r)
    \/ \E r \in Request : Advance(r)
    \/ \E r \in Request : CommitUnseen(r)
    \/ \E r \in Request : Fail(r)
    \/ \E r \in Request : DeadlockVictim(r)
    \/ Terminated

(* As long as some request can go on, one does: goroutines are scheduled,    *)
(* the database grants a free lock, and it detects deadlocks.  Nothing is    *)
(* assumed about failures, timeouts or clients.                              *)
Fairness == WF_vars(\E r \in Request : Advance(r) \/ DeadlockVictim(r))

Spec == Init /\ [][Next]_vars /\ Fairness

-----------------------------------------------------------------------------
(* Properties.                                                               *)

Sum(rows) == MapThenSumSet(LAMBDA t : t.amount, rows)

GetTransactionsByAccountID(a) == {t \in transactions : t.account = a}

(* Every balance is the sum of the account's transaction rows: no update is  *)
(* lost, none is applied without its row, and none is half done, whatever    *)
(* requests interleave and wherever a transaction fails.                     *)
BalancesMatchTransactions ==
    \A a \in DOMAIN balances : balances[a] = Sum(GetTransactionsByAccountID(a))

(* No account is ever overdrawn: the balance that Withdraw (service.go:288)  *)
(* and Transfer (service.go:388) check is still the balance they replace.    *)
NoOverdraft == \A a \in DOMAIN balances : balances[a] >= 0

(* In each currency, the accounts together hold what was deposited less what *)
(* was withdrawn: transfers neither create nor destroy money, nor carry it   *)
(* from one currency to another.                                             *)
MoneyConservedPerCurrency ==
    \A c \in currencies :
        LET holders == {a \in DOMAIN accounts : accounts[a] = c}
        IN  MapThenSumSet(LAMBDA a : balances[a], holders) =
            Sum({t \in transactions : t.account \in holders /\ t.txType # "Transfer"})

KeyOf(x) == body[x[1]].key

(* One idempotency key takes effect at most once, over concurrent requests   *)
(* that share it, retries, lost answers and rolled-back attempts.            *)
AppliedOncePerKey ==
    \A x, y \in applied : KeyOf(x) = KeyOf(y) /\ KeyOf(x) # None => x = y

(* The answer to r's present attempt agrees with what took effect.           *)
AnswerIsTrue(r) ==
    LET me == <<r, attempt[r]>>
    IN  /\ answer[r] = OK =>
               body[r].op \in {"GetCurrencies", "GetAccountInfo"} \/ me \in applied
        /\ answer[r] = ErrorCodeDuplicateIdempotencyKey =>
               /\ me \notin applied
               /\ \E x \in applied : KeyOf(x) = body[r].key
        /\ answer[r] \in {ErrorCodeInvalidParams, ErrorCodeInvalidOperation} =>
               me \notin applied

(* What the API answers is true: 200 for a request that took effect, or that *)
(* only reads, a duplicate key for one whose key took effect in another      *)
(* attempt, and invalid parameters or operation for one without effect.      *)
AnswersAreTrue == \A r \in Request : AnswerIsTrue(r)

(* The test "transfer deducts fromAccount, credits toAccount": a transfer    *)
(* that takes effect lowers the balance of its from account and raises that  *)
(* of its to account.                                                        *)
TransferDeductsAndCredits ==
    [][\A r \in Request :
        /\ body[r] # None
        /\ body[r].op = "Transfer"
        /\ <<r, attempt[r]>> \in applied' \ applied
        => /\ balances'[body[r].from] < balances[body[r].from]
           /\ balances'[body[r].to] > balances[body[r].to]
      ]_vars

(* What the client of r was told, and the balances in that answer.           *)
Outcome(r) ==
    CASE answer[r] = None -> "pending"
      [] answer[r] = OK -> "done"
      [] answer[r] = ErrorCodeUnknown -> "unknown"
      [] answer[r] = ErrorCodeInvalidParams -> "invalid"
      [] answer[r] = ErrorCodeInvalidOperation -> "impossible"
      [] answer[r] = ErrorCodeDuplicateIdempotencyKey -> "duplicate"

Ledger == INSTANCE BankLedger WITH
    keys    <- idempotencyKeys,
    asked   <- body,
    outcome <- [r \in Request |-> Outcome(r)],
    shown   <- [r \in Request |-> IF answer[r] = OK THEN read[r]
                                                   ELSE [from |-> 0, to |-> 0]]

(* The service implements the ledger: although a request runs many           *)
(* statements, each request takes effect or is refused at one moment, on     *)
(* balances that are the present ones, and reports those balances; the keys  *)
(* make retries harmless.  It holds for transfers of positive amounts        *)
(* between different accounts, with balances in the range of int64.          *)
ImplementsLedger == Ledger!Spec

(* Every request is answered, without relying on the timeout: transfers that *)
(* lock each other's accounts, requests that share a key and a pool with too *)
(* few connections do not block each other for good.                         *)
EveryRequestAnswered == []<>(\A r \in Request : pc[r] \in {"idle", "done"})

=============================================================================
