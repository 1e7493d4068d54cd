----------------------------- MODULE Bank_proofs -----------------------------
(***************************************************************************)
(* Theorems about Bank, for every set of requests, accounts, keys and      *)
(* bodies, every pool size and every width of the integers: first its own  *)
(* invariants, then that it implements BankLedger, then what the balances  *)
(* and the transaction rows add up to.                                     *)
(***************************************************************************)
EXTENDS Bank, FiniteSetTheorems, TLAPS

(* int64 arithmetic wraps into the range, and is exact inside it.            *)
LEMMA Int64Range ==
    ASSUME NEW x \in Int
    PROVE  /\ Int64(x) \in -Half..Half - 1
           /\ x \in -Half..Half - 1 => Int64(x) = x
  <1>1. Half \in Nat /\ Half > 0
    BY BankAssumption
  <1>2. \A y \in Int, m \in Nat \ {0} :
            /\ y % m \in 0..m - 1
            /\ y \in 0..m - 1 => y % m = y
    OBVIOUS
  <1>3. 2 * Half \in Nat \ {0} /\ x + Half \in Int
    BY <1>1
  <1>4. /\ (x + Half) % (2 * Half) \in 0..2 * Half - 1
        /\ x + Half \in 0..2 * Half - 1 => (x + Half) % (2 * Half) = x + Half
    BY <1>2, <1>3
  <1> QED
    BY <1>1, <1>4 DEF Int64

LEMMA BodyFields ==
    ASSUME NEW b \in Bodies
    PROVE  /\ b # None
           /\ b.key \in Key \cup {None}
           /\ b.amount \in -Half..Half - 1
           /\ b.amount \in Int
           /\ b.op \in {"CreateCurrency", "CreateAccount", "Deposit", "Withdraw",
                        "Transfer", "GetCurrencies", "GetAccountInfo"}
           /\ b.op \in {"CreateAccount", "Deposit", "Withdraw", "Transfer"}
                <=> b.key \in Key
           /\ b.op \in {"Deposit", "Withdraw", "Transfer"} => b.from \in Account
           /\ b.op = "Transfer" => b.to \in Account
           /\ b.op \in {"CreateCurrency", "CreateAccount"} => b.currency \in Currency
  <1>1. b \in Body /\ Half \in Nat /\ Half > 0 /\ None \notin Key /\ None \notin Bodies
    BY BankAssumption
  <1> QED
    BY <1>1 DEF Body

-----------------------------------------------------------------------------
(* The inductive invariant.                                                  *)

Moves  == {"Deposit", "Withdraw", "Transfer"}
Keyed  == Moves \cup {"CreateAccount"}
Writes == Keyed \cup {"CreateCurrency"}

(* Where request r is tells what it asks for.                                *)
PlaceInv(r) ==
    /\ pc[r] = "idle" <=> body[r] = None
    /\ pc[r] # "done" => answer[r] = None
    /\ pc[r] \in {"toCurrency", "begin"} \cup InTx =>
           /\ ~ InvalidParams(body[r])
           /\ body[r].op \in Writes
           /\ pc[r] \in {"toCurrency", "lockTo"} => body[r].op = "Transfer"
           /\ pc[r] = "insertCurrency" => body[r].op = "CreateCurrency"
           /\ pc[r] = "key" => body[r].op \in Keyed
           /\ pc[r] = "lockFrom" => body[r].op \in Moves

(* What the queries before the transaction found is still so: accounts and   *)
(* currencies never go away, and no other request uses the new ID.           *)
QueryInv(r) ==
    /\ pc[r] = "toCurrency" => body[r].from \in DOMAIN accounts
    /\ pc[r] \in {"begin"} \cup InTx =>
           /\ body[r].op = "Transfer" =>
                  /\ {body[r].from, body[r].to} \subseteq DOMAIN accounts
                  /\ accounts[body[r].from] = accounts[body[r].to]
           /\ body[r].op = "CreateAccount" =>
                  /\ newID[r] \in Account \ DOMAIN accounts
                  /\ body[r].currency \in currencies

(* r holds the lock on account a and what it has read is the stored balance. *)
Holds(r, a, amount) ==
    /\ rowLock[a] = r
    /\ a \in DOMAIN balances
    /\ balances[a] = amount

(* What r has locked stays as r has seen it until r ends its transaction.    *)
LockInv(r) ==
    /\ pc[r] \in {"lockFrom", "lockTo", "commit"} /\ body[r].op \in Keyed =>
           /\ keyLock[body[r].key] = r
           /\ body[r].key \notin idempotencyKeys
    /\ pc[r] = "commit" /\ body[r].op = "CreateCurrency" =>
           /\ currencyLock[body[r].currency] = r
           /\ body[r].currency \notin currencies
    /\ pc[r] \in {"lockTo", "commit"} /\ body[r].op \in Moves =>
           /\ Holds(r, body[r].from, read[r].from)
           /\ ~ InsufficientBalance(body[r], read[r].from)
    /\ pc[r] = "commit" /\ body[r].op = "Transfer" =>
           Holds(r, body[r].to, read[r].to)

(* A request that shows no balance has read none.                            *)
ReadInv(r) ==
    /\ body[r] = None \/ body[r].op \notin Moves \cup {"GetAccountInfo"} =>
           read[r].from = 0
    /\ body[r] = None \/ body[r].op # "Transfer" => read[r].to = 0

RequestInv(r) == PlaceInv(r) /\ QueryInv(r) /\ LockInv(r) /\ ReadInv(r)

DistinctIDs ==
    \A q, r \in Request : q # r /\ newID[q] = newID[r] => newID[r] = None

AccountsHaveCurrency == \A a \in DOMAIN accounts : accounts[a] \in currencies

(* applied holds attempts that have been made, and of the requests on their  *)
(* way only earlier ones.                                                    *)
AppliedInv ==
    \A x \in applied :
        /\ pc[x[1]] # "idle"
        /\ x[2] <= attempt[x[1]]
        /\ pc[x[1]] # "done" => x[2] # attempt[x[1]]

(* The keys in the table are those of the attempts that took effect.         *)
KeysInv ==
    /\ \A x \in applied : KeyOf(x) # None => KeyOf(x) \in idempotencyKeys
    /\ \A k \in idempotencyKeys : \E x \in applied : KeyOf(x) = k

BankInv ==
    /\ TypeOK
    /\ \A r \in Request : RequestInv(r)
    /\ DistinctIDs
    /\ AccountsHaveCurrency
    /\ AppliedInv
    /\ KeysInv
    /\ AppliedOncePerKey
    /\ AnswersAreTrue

(* Every amount that is credited fits into int64 with the balance it is      *)
(* added to.                                                                 *)
CreditsFit ==
    \A r \in Request : pc[r] = "commit" =>
        /\ body[r].op = "Deposit" => read[r].from + body[r].amount < Half
        /\ body[r].op = "Transfer" => read[r].to + body[r].amount < Half

-----------------------------------------------------------------------------
(* Steps without a commit.                                                   *)

(* A step of somebody else: q is where it was and keeps its locks.           *)
Same(q) ==
    /\ pc'[q] = pc[q]
    /\ body'[q] = body[q]
    /\ attempt'[q] = attempt[q]
    /\ read'[q] = read[q]
    /\ newID'[q] = newID[q]
    /\ answer'[q] = answer[q]
    /\ \A a \in Account : rowLock[a] = q => rowLock'[a] = q
    /\ \A k \in Key : keyLock[k] = q => keyLock'[k] = q
    /\ \A c \in Currency : currencyLock[c] = q => currencyLock'[c] = q

(* A step of r that writes nothing to the tables.                            *)
Quiet(r) ==
    /\ UNCHANGED <<tables, applied>>
    /\ \A q \in Request \ {r} : Same(q)
    /\ pc[r] # "idle" => body'[r] = body[r]

LEMMA BodyOf ==
    ASSUME BankInv, NEW r \in Request, pc[r] # "idle"
    PROVE  body[r] \in Bodies
  BY DEF BankInv, TypeOK, RequestInv, PlaceInv

LEMMA AppliedPairs ==
    ASSUME TypeOK, NEW x \in applied
    PROVE  /\ x[1] \in Request
           /\ x[2] \in 1..MaxAttempts
           /\ x = <<x[1], x[2]>>
  BY DEF TypeOK

LEMMA QuietKeepsKeys ==
    ASSUME BankInv, NEW r \in Request, Quiet(r), NEW x \in applied
    PROVE  KeyOf(x)' = KeyOf(x) /\ x \in applied'
  <1>1. x[1] \in Request /\ pc[x[1]] # "idle"
    BY AppliedPairs DEF BankInv, AppliedInv
  <1>2. body'[x[1]] = body[x[1]]
    BY <1>1 DEF Quiet, Same
  <1> QED
    BY <1>2 DEF KeyOf, Quiet

LEMMA QuietOthers ==
    ASSUME BankInv, NEW r \in Request, Quiet(r), NEW q \in Request \ {r}
    PROVE  RequestInv(q)' /\ AnswerIsTrue(q)'
  <1>1. /\ Same(q)
        /\ currencies' = currencies
        /\ accounts' = accounts
        /\ balances' = balances
        /\ idempotencyKeys' = idempotencyKeys
        /\ applied' = applied
    BY DEF Quiet, tables
  <1>2. RequestInv(q) /\ AnswerIsTrue(q)
    BY DEF BankInv, AnswersAreTrue
  <1>3. PlaceInv(q)' /\ ReadInv(q)'
    BY <1>1, <1>2 DEF Same, RequestInv, PlaceInv, ReadInv, InvalidParams
  <1>4. QueryInv(q)'
    BY <1>1, <1>2 DEF Same, RequestInv, QueryInv
  <1>5. LockInv(q)'
    <2>1. pc[q] # "idle" => body[q] \in Bodies
      BY BodyOf
    <2>2. CASE pc[q] \in InTx
      <3>1. /\ body[q].op \in Keyed => body[q].key \in Key
            /\ body[q].op \in Moves => body[q].from \in Account
            /\ body[q].op = "Transfer" => body[q].to \in Account
            /\ body[q].op = "CreateCurrency" => body[q].currency \in Currency
        BY <2>1, <2>2, BodyFields DEF InTx, Keyed, Moves
      <3> QED
        BY <1>1, <1>2, <3>1
        DEF Same, RequestInv, LockInv, Holds, InsufficientBalance
    <2>3. CASE pc[q] \notin InTx
      BY <1>1, <2>3 DEF Same, LockInv, InTx
    <2> QED
      BY <2>2, <2>3
  <1>6. AnswerIsTrue(q)'
    <2>1. \A x \in applied : KeyOf(x)' = KeyOf(x)
      BY QuietKeepsKeys
    <2> QED
      BY <1>1, <1>2, <2>1 DEF Same, AnswerIsTrue
  <1> QED
    BY <1>3, <1>4, <1>5, <1>6 DEF RequestInv

(* A quiet step of r has to keep the types and what concerns r.              *)
LEMMA QuietStep ==
    ASSUME BankInv, NEW r \in Request, Quiet(r),
           TypeOK', RequestInv(r)', AnswerIsTrue(r)', DistinctIDs',
           pc'[r] # "idle",
           attempt[r] <= attempt'[r],
           pc'[r] # "done" => <<r, attempt'[r]>> \notin applied
    PROVE  BankInv'
  <1>1. applied' = applied /\ UNCHANGED <<accounts, currencies, idempotencyKeys>>
    BY DEF Quiet, tables
  <1>2. \A x \in applied : KeyOf(x)' = KeyOf(x)
    BY QuietKeepsKeys
  <1>3. KeysInv'
    BY <1>1, <1>2 DEF BankInv, KeysInv
  <1>4. AppliedOncePerKey'
    BY <1>1, <1>2 DEF BankInv, AppliedOncePerKey
  <1>5. AccountsHaveCurrency'
    BY <1>1 DEF BankInv, AccountsHaveCurrency
  <1>6. AppliedInv'
    <2> SUFFICES ASSUME NEW x \in applied
                 PROVE  /\ pc'[x[1]] # "idle"
                        /\ x[2] <= attempt'[x[1]]
                        /\ pc'[x[1]] # "done" => x[2] # attempt'[x[1]]
      BY <1>1 DEF AppliedInv
    <2>1. x[1] \in Request /\ x[2] \in 1..MaxAttempts /\ x = <<x[1], x[2]>>
      BY AppliedPairs DEF BankInv
    <2>2. /\ pc[x[1]] # "idle"
          /\ x[2] <= attempt[x[1]]
          /\ pc[x[1]] # "done" => x[2] # attempt[x[1]]
      BY DEF BankInv, AppliedInv
    <2>3. CASE x[1] # r
      BY <2>1, <2>2, <2>3 DEF Quiet, Same
    <2>4. CASE x[1] = r
      <3>1. attempt[r] \in 1..MaxAttempts /\ attempt'[r] \in 1..MaxAttempts
        BY DEF BankInv, TypeOK
      <3>2. x[2] \in Int /\ attempt[r] \in Int /\ attempt'[r] \in Int
        BY <2>1, <3>1, BankAssumption
      <3>3. x[2] <= attempt'[r]
        BY <2>2, <2>4, <3>2
      <3> QED
        BY <2>1, <2>4, <3>3
    <2> QED
      BY <2>3, <2>4
  <1>7. \A q \in Request : RequestInv(q)' /\ AnswerIsTrue(q)'
    BY QuietOthers
  <1> QED
    BY <1>3, <1>4, <1>5, <1>6, <1>7 DEF BankInv, AnswersAreTrue

(* The types of what a step without a commit may change.                     *)
LocksType ==
    /\ rowLock \in [Account -> Request \cup {None}]
    /\ keyLock \in [Key -> Request \cup {None}]
    /\ currencyLock \in [Currency -> Request \cup {None}]

LEMMA QuietType ==
    ASSUME TypeOK, UNCHANGED <<tables, applied>>, LocksType',
           pc' \in [Request -> InTx \cup {"idle", "service", "toCurrency", "begin", "done"}],
           body' \in [Request -> Bodies \cup {None}],
           attempt' \in [Request -> 1..MaxAttempts],
           read' \in [Request -> [from : Int, to : Int]],
           newID' \in [Request -> Account \cup {None}],
           answer' \in [Request -> ErrorCode \cup {OK, None}]
    PROVE  TypeOK'
  BY DEF TypeOK, tables, LocksType

LEMMA ReleaseKeeps ==
    ASSUME TypeOK, NEW r \in Request, Release(r)
    PROVE  /\ LocksType'
           /\ \A q \in Request \ {r} :
                /\ \A a \in Account : rowLock[a] = q => rowLock'[a] = q
                /\ \A k \in Key : keyLock[k] = q => keyLock'[k] = q
                /\ \A c \in Currency : currencyLock[c] = q => currencyLock'[c] = q
  BY DEF TypeOK, Release, LocksType

LEMMA CodeType ==
    ASSUME NEW err
    PROVE  /\ CodeOf(err) \in ErrorCode
           /\ CodeOf(err) = ErrorCodeDuplicateIdempotencyKey =>
                err = "ErrIdempotencyKeyExists"
  <1>1. \/ err = "ErrIdempotencyKeyExists"
        \/ CodeOf(err) \in {ErrorCodeUnknown, ErrorCodeInvalidParams,
                            ErrorCodeInvalidOperation}
    BY DEF CodeOf
  <1>2. CodeOf("ErrIdempotencyKeyExists") = ErrorCodeDuplicateIdempotencyKey
    BY DEF CodeOf
  <1>3. ErrorCodeDuplicateIdempotencyKey \notin
            {ErrorCodeUnknown, ErrorCodeInvalidParams, ErrorCodeInvalidOperation}
    BY DEF ErrorCodeUnknown, ErrorCodeInvalidParams, ErrorCodeInvalidOperation,
           ErrorCodeDuplicateIdempotencyKey
  <1> QED
    BY <1>1, <1>2, <1>3 DEF ErrorCode

LEMMA CodesDiffer ==
    /\ None \notin ErrorCode \cup {OK}
    /\ OK \notin ErrorCode
  BY BankAssumption
  DEF ErrorCode, OK, ErrorCodeUnknown, ErrorCodeInvalidParams,
      ErrorCodeInvalidOperation, ErrorCodeDuplicateIdempotencyKey

(* r is answered with an error, before or by the end of its transaction.     *)
LEMMA ErrorStep ==
    ASSUME BankInv, NEW r \in Request, NEW code \in ErrorCode,
           pc[r] \notin {"idle", "done"},
           code = ErrorCodeDuplicateIdempotencyKey =>
               body[r].key \in idempotencyKeys,
           Finish(r, code),
           UNCHANGED <<tables, locals, applied>>,
           UNCHANGED locks \/ Release(r)
    PROVE  BankInv' /\ Quiet(r)
  <1>1. TypeOK /\ RequestInv(r) /\ body[r] \in Bodies
    BY BodyOf DEF BankInv
  <1>2. /\ pc' = [pc EXCEPT ![r] = "done"]
        /\ answer' = [answer EXCEPT ![r] = code]
        /\ body' = body
        /\ attempt' = attempt
        /\ read' = read
        /\ newID' = newID
        /\ applied' = applied
        /\ idempotencyKeys' = idempotencyKeys
    BY DEF Finish, locals, tables
  <1>3. /\ LocksType'
        /\ \A q \in Request \ {r} :
             /\ \A a \in Account : rowLock[a] = q => rowLock'[a] = q
             /\ \A k \in Key : keyLock[k] = q => keyLock'[k] = q
             /\ \A c \in Currency : currencyLock[c] = q => currencyLock'[c] = q
    <2>1. CASE UNCHANGED locks
      BY <1>1, <2>1 DEF locks, TypeOK, LocksType
    <2>2. CASE Release(r)
      BY <1>1, <2>2, ReleaseKeeps
    <2> QED
      BY <2>1, <2>2
  <1>4. Quiet(r)
    BY <1>1, <1>2, <1>3 DEF Quiet, Same, TypeOK
  <1>5. TypeOK'
    BY <1>1, <1>2, <1>3, QuietType DEF TypeOK
  <1>6. pc'[r] = "done" /\ answer'[r] = code
    BY <1>1, <1>2 DEF TypeOK
  <1>7. RequestInv(r)'
    BY <1>1, <1>2, <1>6, BodyFields
    DEF RequestInv, PlaceInv, QueryInv, LockInv, ReadInv, InTx
  <1>8. DistinctIDs'
    BY <1>2 DEF BankInv, DistinctIDs
  <1>9. <<r, attempt[r]>> \notin applied
    BY DEF BankInv, AppliedInv
  <1>10. AnswerIsTrue(r)'
    <2>1. code = ErrorCodeDuplicateIdempotencyKey =>
            \E x \in applied : KeyOf(x) = body[r].key
      BY DEF BankInv, KeysInv
    <2>2. \A x \in applied : KeyOf(x)' = KeyOf(x)
      BY <1>4, QuietKeepsKeys
    <2>3. code # OK
      BY CodesDiffer
    <2> QED
      BY <1>2, <1>6, <1>9, <2>1, <2>2, <2>3 DEF AnswerIsTrue
  <1>11. attempt[r] <= attempt'[r]
    BY <1>1, <1>2, BankAssumption DEF TypeOK
  <1> QED
    BY <1>4, <1>5, <1>6, <1>7, <1>8, <1>10, <1>11, QuietStep

LEMMA RejectStep ==
    ASSUME BankInv, NEW r \in Request, NEW err, Reject(r, err),
           pc[r] \notin {"idle", "done"},
           err # "ErrIdempotencyKeyExists"
    PROVE  BankInv' /\ Quiet(r)
  <1>1. /\ CodeOf(err) \in ErrorCode
        /\ CodeOf(err) # ErrorCodeDuplicateIdempotencyKey
    BY CodeType
  <1>2. /\ Finish(r, CodeOf(err))
        /\ UNCHANGED <<tables, locals, applied>>
        /\ UNCHANGED locks
    BY DEF Reject
  <1> QED
    BY <1>1, <1>2, ErrorStep

LEMMA AbortStep ==
    ASSUME BankInv, NEW r \in Request, NEW err, Abort(r, err),
           pc[r] \notin {"idle", "done"},
           err = "ErrIdempotencyKeyExists" => body[r].key \in idempotencyKeys
    PROVE  BankInv' /\ Quiet(r)
  <1>1. /\ CodeOf(err) \in ErrorCode
        /\ CodeOf(err) = ErrorCodeDuplicateIdempotencyKey =>
             err = "ErrIdempotencyKeyExists"
    BY CodeType
  <1>2. /\ Finish(r, CodeOf(err))
        /\ UNCHANGED <<tables, locals, applied>>
        /\ Release(r)
    BY DEF Abort
  <1> QED
    BY <1>1, <1>2, ErrorStep

(* r goes on: it is neither answered nor sent again, and its body stays.     *)
LEMMA GotoStep ==
    ASSUME BankInv, NEW r \in Request,
           NEW label \in InTx \cup {"toCurrency", "begin"}, Goto(r, label),
           pc[r] \notin {"idle", "done"},
           UNCHANGED <<tables, body, attempt, applied>>,
           LocksType',
           \A q \in Request \ {r} : Same(q),
           read' \in [Request -> [from : Int, to : Int]],
           newID' \in [Request -> Account \cup {None}],
           RequestInv(r)', DistinctIDs'
    PROVE  BankInv'
  <1>1. TypeOK
    BY DEF BankInv
  <1>2. /\ pc' = [pc EXCEPT ![r] = label]
        /\ answer' = answer
        /\ body' = body
        /\ attempt' = attempt
        /\ applied' = applied
    BY DEF Goto
  <1>3. Quiet(r)
    BY <1>2 DEF Quiet
  <1>4. pc'[r] = label /\ label \notin {"idle", "done"}
    BY <1>1, <1>2 DEF TypeOK, InTx
  <1>5. TypeOK'
    BY <1>1, <1>2, QuietType DEF TypeOK
  <1>6. answer[r] = None /\ <<r, attempt[r]>> \notin applied
    BY DEF BankInv, AppliedInv, RequestInv, PlaceInv
  <1>7. AnswerIsTrue(r)'
    BY <1>2, <1>6, CodesDiffer DEF AnswerIsTrue, ErrorCode
  <1>8. attempt[r] <= attempt'[r]
    BY <1>1, <1>2, BankAssumption DEF TypeOK
  <1> QED
    BY <1>2, <1>3, <1>4, <1>5, <1>6, <1>7, <1>8, QuietStep

LEMMA ProceedStep ==
    ASSUME BankInv, NEW r \in Request,
           NEW label \in InTx \cup {"toCurrency", "begin"}, Proceed(r, label),
           pc[r] \notin {"idle", "done"}, RequestInv(r)'
    PROVE  BankInv'
  <1>1. TypeOK
    BY DEF BankInv
  <1>2. Goto(r, label) /\ UNCHANGED <<tables, locks, locals, applied>>
    BY DEF Proceed
  <1>3. UNCHANGED <<tables, body, attempt, applied>> /\ read' = read /\ newID' = newID
    BY <1>2 DEF locals
  <1>4. LocksType'
    BY <1>1, <1>2 DEF locks, TypeOK, LocksType
  <1>5. \A q \in Request \ {r} : Same(q)
    BY <1>1, <1>2 DEF locks, locals, Goto, Same, TypeOK
  <1>6. DistinctIDs'
    BY <1>3 DEF BankInv, DistinctIDs
  <1> QED
    BY <1>1, <1>2, <1>3, <1>4, <1>5, <1>6, GotoStep DEF TypeOK

-----------------------------------------------------------------------------
(* One lemma for each action.                                                *)

LEMMA SubmitStep ==
    ASSUME BankInv, NEW r \in Request, NEW b \in Bodies, Submit(r, b)
    PROVE  BankInv'
  <1>1. TypeOK /\ RequestInv(r)
    BY DEF BankInv
  <1>2. /\ pc[r] = "idle"
        /\ pc' = [pc EXCEPT ![r] = "service"]
        /\ body' = [body EXCEPT ![r] = b]
        /\ answer' = answer
        /\ UNCHANGED <<tables, locks, attempt, read, newID, applied>>
    BY DEF Submit, Goto
  <1>3. pc'[r] = "service" /\ body'[r] = b /\ b # None
    BY <1>1, <1>2, BodyFields DEF TypeOK
  <1>4. Quiet(r)
    BY <1>1, <1>2 DEF Quiet, Same, TypeOK, locks
  <1>5. LocksType'
    BY <1>1, <1>2 DEF TypeOK, LocksType, locks
  <1>6. TypeOK'
    BY <1>1, <1>2, <1>5, QuietType DEF TypeOK
  <1>7. answer[r] = None /\ read[r].from = 0 /\ read[r].to = 0
    BY <1>1, <1>2 DEF RequestInv, PlaceInv, ReadInv
  <1>8. RequestInv(r)'
    BY <1>2, <1>3, <1>7
    DEF RequestInv, PlaceInv, QueryInv, LockInv, ReadInv, InTx
  <1>9. DistinctIDs'
    BY <1>2 DEF BankInv, DistinctIDs
  <1>10. <<r, attempt[r]>> \notin applied
    BY <1>2 DEF BankInv, AppliedInv
  <1>11. AnswerIsTrue(r)'
    BY <1>2, <1>7, CodesDiffer DEF AnswerIsTrue, ErrorCode
  <1>12. attempt[r] <= attempt'[r]
    BY <1>1, <1>2, BankAssumption DEF TypeOK
  <1> QED
    BY <1>2, <1>3, <1>4, <1>6, <1>8, <1>9, <1>10, <1>11, <1>12, QuietStep

LEMMA RetryStep ==
    ASSUME BankInv, NEW r \in Request, Retry(r)
    PROVE  BankInv'
  <1>1. TypeOK /\ RequestInv(r)
    BY DEF BankInv
  <1>2. /\ pc[r] = "done"
        /\ attempt[r] < MaxAttempts
        /\ pc' = [pc EXCEPT ![r] = "service"]
        /\ attempt' = [attempt EXCEPT ![r] = @ + 1]
        /\ answer' = [answer EXCEPT ![r] = None]
        /\ newID' = [newID EXCEPT ![r] = None]
        /\ UNCHANGED <<tables, locks, body, read, applied>>
    BY DEF Retry
  <1>3. attempt[r] \in 1..MaxAttempts /\ MaxAttempts \in Nat
    BY <1>1, BankAssumption DEF TypeOK
  <1>4. /\ pc'[r] = "service"
        /\ answer'[r] = None
        /\ newID'[r] = None
        /\ attempt'[r] = attempt[r] + 1
        /\ attempt'[r] \in 1..MaxAttempts
    BY <1>1, <1>2, <1>3 DEF TypeOK
  <1>5. Quiet(r)
    BY <1>1, <1>2 DEF Quiet, Same, TypeOK, locks
  <1>6. LocksType'
    BY <1>1, <1>2 DEF TypeOK, LocksType, locks
  <1>7. TypeOK'
    BY <1>1, <1>2, <1>4, <1>6, QuietType DEF TypeOK
  <1>8. RequestInv(r)'
    BY <1>1, <1>2, <1>4
    DEF RequestInv, PlaceInv, QueryInv, LockInv, ReadInv, InTx
  <1>9. DistinctIDs'
    BY <1>1, <1>2 DEF BankInv, DistinctIDs, TypeOK
  <1>10. <<r, attempt'[r]>> \notin applied
    <2>1. \A x \in applied : x[1] = r => x[2] <= attempt[r]
      BY DEF BankInv, AppliedInv
    <2> QED
      BY <1>3, <1>4, <2>1
  <1>11. AnswerIsTrue(r)'
    BY <1>4, CodesDiffer DEF AnswerIsTrue, ErrorCode
  <1>12. attempt[r] <= attempt'[r]
    BY <1>3, <1>4
  <1> QED
    BY <1>4, <1>5, <1>7, <1>8, <1>9, <1>10, <1>11, <1>12, QuietStep

(* A request that only reads is answered.                                    *)
LEMMA ReadsStep ==
    ASSUME BankInv, NEW r \in Request, GetCurrencies(r) \/ GetAccountInfo(r)
    PROVE  BankInv'
  <1>1. TypeOK /\ RequestInv(r)
    BY DEF BankInv
  <1>2. /\ pc[r] = "service"
        /\ body[r].op \in {"GetCurrencies", "GetAccountInfo"}
        /\ GetCurrencies(r) => body[r].op = "GetCurrencies"
        /\ GetAccountInfo(r) => body[r].op = "GetAccountInfo"
    BY DEF GetCurrencies, GetAccountInfo, Serves
  <1>3. CASE GetAccountInfo(r) /\ Reject(r, "ErrAccountNotFound")
    BY <1>2, <1>3, RejectStep
  <1>4. ASSUME NEW row \in Int,
               read' = read \/ (GetAccountInfo(r) /\ read' = [read EXCEPT ![r].from = row]),
               Finish(r, OK),
               UNCHANGED <<tables, locks, body, attempt, newID, applied>>
        PROVE  BankInv'
    <2>1. /\ pc' = [pc EXCEPT ![r] = "done"]
          /\ answer' = [answer EXCEPT ![r] = OK]
      BY <1>4 DEF Finish
    <2>2. pc'[r] = "done" /\ answer'[r] = OK
      BY <1>1, <2>1 DEF TypeOK
    <2>3. /\ read' \in [Request -> [from : Int, to : Int]]
          /\ \A q \in Request \ {r} : read'[q] = read[q]
          /\ read'[r].to = read[r].to
          /\ body[r].op = "GetCurrencies" => read'[r].from = read[r].from
      BY <1>1, <1>2, <1>4 DEF TypeOK
    <2>4. Quiet(r)
      BY <1>1, <1>4, <2>1, <2>3 DEF Quiet, Same, TypeOK, locks
    <2>5. LocksType'
      BY <1>1, <1>4 DEF TypeOK, LocksType, locks
    <2>6. TypeOK'
      BY <1>1, <1>4, <2>1, <2>3, <2>5, QuietType DEF TypeOK
    <2>7. RequestInv(r)'
      BY <1>1, <1>2, <1>4, <2>2, <2>3
      DEF RequestInv, PlaceInv, QueryInv, LockInv, ReadInv, InTx, Moves
    <2>8. DistinctIDs'
      BY <1>4 DEF BankInv, DistinctIDs
    <2>9. AnswerIsTrue(r)'
      BY <1>2, <1>4, <2>2, CodesDiffer DEF AnswerIsTrue, ErrorCode
    <2>10. attempt[r] <= attempt'[r]
      BY <1>1, <1>4, BankAssumption DEF TypeOK
    <2> QED
      BY <2>2, <2>4, <2>6, <2>7, <2>8, <2>9, <2>10, QuietStep
  <1>5. CASE GetCurrencies(r)
    BY <1>4, <1>5 DEF GetCurrencies, locals
  <1>6. CASE GetAccountInfo(r) /\ ~ Reject(r, "ErrAccountNotFound")
    <2> DEFINE row == GetAccountInfoByID(body[r].from)
    <2>1. /\ row # None
          /\ read' = [read EXCEPT ![r].from = row]
          /\ Finish(r, OK)
          /\ UNCHANGED <<tables, locks, body, attempt, newID, applied>>
      BY <1>6 DEF GetAccountInfo
    <2>2. row \in Int
      BY <1>1, <2>1, BankAssumption DEF GetAccountInfoByID, TypeOK
    <2> QED
      BY <1>4, <1>6, <2>1, <2>2
  <1> QED
    BY <1>3, <1>5, <1>6

LEMMA EarlySteps ==
    ASSUME BankInv, NEW r \in Request,
           \/ RejectParams(r) \/ CreateCurrency(r) \/ DepositOrWithdraw(r)
           \/ Transfer(r) \/ TransferToCurrency(r) \/ Begin(r)
    PROVE  BankInv'
  <1>1. TypeOK /\ RequestInv(r)
    BY DEF BankInv
  <1>2. pc[r] # "idle" => body[r] \in Bodies
    BY BodyOf
  <1>3. ASSUME NEW label, Proceed(r, label)
        PROVE  /\ pc'[r] = label
               /\ answer'[r] = answer[r]
               /\ UNCHANGED <<tables, locks, locals>>
    BY <1>1, <1>3 DEF Proceed, Goto, TypeOK
  <1>4. CASE RejectParams(r)
    BY <1>4, RejectStep DEF RejectParams
  <1>5. CASE CreateCurrency(r) \/ DepositOrWithdraw(r)
    <2>1. /\ pc[r] = "service"
          /\ body[r].op \in {"CreateCurrency", "Deposit", "Withdraw"}
          /\ ~ InvalidParams(body[r])
          /\ Proceed(r, "begin")
      BY <1>5 DEF CreateCurrency, DepositOrWithdraw, Serves
    <2>2. RequestInv(r)'
      BY <1>1, <1>3, <2>1
      DEF RequestInv, PlaceInv, QueryInv, LockInv, ReadInv, InTx, locals,
          InvalidParams, Writes, Keyed, Moves
    <2> QED
      BY <2>1, <2>2, ProceedStep
  <1>6. CASE Transfer(r)
    <2>1. /\ pc[r] = "service"
          /\ body[r].op = "Transfer"
          /\ ~ InvalidParams(body[r])
      BY <1>6 DEF Transfer, Serves
    <2>2. CASE Reject(r, "ErrTransferFromAccountNotFound")
      BY <2>1, <2>2, RejectStep
    <2>3. CASE body[r].from \in DOMAIN accounts /\ Proceed(r, "toCurrency")
      <3>1. RequestInv(r)'
        BY <1>1, <1>3, <2>1, <2>3
        DEF RequestInv, PlaceInv, QueryInv, LockInv, ReadInv, InTx, locals, tables,
            InvalidParams, Writes, Keyed, Moves
      <3> QED
        BY <2>1, <2>3, <3>1, ProceedStep
    <2> QED
      BY <1>6, <2>2, <2>3 DEF Transfer, GetAccountCurrencyID
  <1>7. CASE TransferToCurrency(r)
    <2> DEFINE from == GetAccountCurrencyID(body[r].from)
               to == GetAccountCurrencyID(body[r].to)
    <2>1. /\ pc[r] = "toCurrency"
          /\ body[r].op = "Transfer"
          /\ ~ InvalidParams(body[r])
          /\ body[r].from \in DOMAIN accounts
      BY <1>1, <1>7 DEF TransferToCurrency, RequestInv, PlaceInv, QueryInv
    <2>2. CASE \/ Reject(r, "ErrTransferToAccountNotFound")
               \/ Reject(r, "ErrTransferCurrencyMismatch")
      BY <2>1, <2>2, RejectStep
    <2>3. CASE to = from /\ Proceed(r, "begin")
      <3>1. /\ body[r].to \in DOMAIN accounts
            /\ accounts[body[r].from] = accounts[body[r].to]
        BY <1>1, <2>1, <2>3, BankAssumption DEF GetAccountCurrencyID, TypeOK
      <3>2. RequestInv(r)'
        BY <1>1, <1>3, <2>1, <2>3, <3>1
        DEF RequestInv, PlaceInv, QueryInv, LockInv, ReadInv, InTx, locals, tables,
            InvalidParams, Writes, Keyed, Moves
      <3> QED
        BY <2>1, <2>3, <3>2, ProceedStep
    <2> QED
      BY <1>7, <2>2, <2>3 DEF TransferToCurrency
  <1>8. CASE Begin(r)
    <2> DEFINE label == IF body[r].op = "CreateCurrency" THEN "insertCurrency" ELSE "key"
    <2>1. pc[r] = "begin" /\ Proceed(r, label)
      BY <1>8 DEF Begin
    <2>2. label \in {"insertCurrency", "key"} /\ label \in InTx
      BY DEF InTx
    <2>3. RequestInv(r)'
      BY <1>1, <1>3, <2>1
      DEF RequestInv, PlaceInv, QueryInv, LockInv, ReadInv, InTx, locals, tables,
          InvalidParams, Writes, Keyed
    <2> QED
      BY <2>1, <2>2, <2>3, ProceedStep
  <1> QED
    BY <1>4, <1>5, <1>6, <1>7, <1>8

LEMMA CreateAccountStep ==
    ASSUME BankInv, NEW r \in Request, CreateAccount(r)
    PROVE  BankInv'
  <1>1. TypeOK /\ RequestInv(r)
    BY DEF BankInv
  <1>2. /\ pc[r] = "service"
        /\ body[r].op = "CreateAccount"
        /\ ~ InvalidParams(body[r])
    BY DEF CreateAccount, Serves
  <1>3. CASE Reject(r, "ErrCurrencyNotFound")
    BY <1>2, <1>3, RejectStep
  <1>4. CASE /\ body[r].currency \in currencies
             /\ UnusedIDs # {}
             /\ newID' = [newID EXCEPT ![r] = NextID]
             /\ Goto(r, "begin")
             /\ UNCHANGED <<tables, locks, body, attempt, read, applied>>
    <2>1. NextID \in UnusedIDs
      BY <1>4 DEF NextID
    <2>2. /\ NextID \in Account \ DOMAIN accounts
          /\ \A q \in Request : newID[q] # NextID
      BY <2>1 DEF UnusedIDs
    <2> HIDE DEF NextID
    <2>3. /\ newID' \in [Request -> Account \cup {None}]
          /\ newID'[r] = NextID
          /\ \A q \in Request \ {r} : newID'[q] = newID[q]
      BY <1>1, <1>4, <2>2 DEF TypeOK
    <2>4. DistinctIDs'
      BY <2>2, <2>3 DEF BankInv, DistinctIDs
    <2>5. LocksType'
      BY <1>1, <1>4 DEF TypeOK, LocksType, locks
    <2>6. \A q \in Request \ {r} : Same(q)
      BY <1>1, <1>4, <2>3 DEF Same, Goto, locks, TypeOK
    <2>7. pc'[r] = "begin" /\ answer' = answer
      BY <1>1, <1>4 DEF Goto, TypeOK
    <2>8. RequestInv(r)'
      BY <1>1, <1>2, <1>4, <2>2, <2>3, <2>7
      DEF RequestInv, PlaceInv, QueryInv, LockInv, ReadInv, InTx, tables,
          InvalidParams, Writes, Keyed, Moves
    <2> QED
      BY <1>1, <1>2, <1>4, <2>3, <2>4, <2>5, <2>6, <2>8, GotoStep DEF TypeOK
  <1> QED
    BY <1>3, <1>4 DEF CreateAccount, CurrencyExists

LEMMA InsertCurrencyStep ==
    ASSUME BankInv, NEW r \in Request, InsertCurrency(r)
    PROVE  BankInv'
  <1> DEFINE c == body[r].currency
  <1>1. TypeOK /\ RequestInv(r)
    BY DEF BankInv
  <1>2. pc[r] = "insertCurrency" /\ currencyLock[c] = None
    BY DEF InsertCurrency
  <1>3. body[r] \in Bodies /\ body[r].op = "CreateCurrency" /\ c \in Currency
    BY <1>1, <1>2, BodyOf, BodyFields DEF RequestInv, PlaceInv, InTx
  <1>4. CASE Abort(r, "ErrCurrencyAlreadyExists")
    BY <1>2, <1>4, AbortStep
  <1>5. CASE /\ c \notin currencies
             /\ currencyLock' = [currencyLock EXCEPT ![c] = r]
             /\ Goto(r, "commit")
             /\ UNCHANGED <<tables, rowLock, keyLock, locals, applied>>
    <2>1. /\ currencyLock' \in [Currency -> Request \cup {None}]
          /\ currencyLock'[c] = r
          /\ \A q \in Request \ {r} : \A x \in Currency :
                currencyLock[x] = q => currencyLock'[x] = q
      BY <1>1, <1>2, <1>3, <1>5, BankAssumption DEF TypeOK
    <2>2. LocksType'
      BY <1>1, <1>5, <2>1 DEF TypeOK, LocksType
    <2>3. \A q \in Request \ {r} : Same(q)
      BY <1>1, <1>5, <2>1 DEF Same, Goto, locals, TypeOK
    <2>4. pc'[r] = "commit" /\ answer' = answer
      BY <1>1, <1>5 DEF Goto, TypeOK
    <2>5. RequestInv(r)'
      BY <1>1, <1>2, <1>3, <1>5, <2>1, <2>4
      DEF RequestInv, PlaceInv, QueryInv, LockInv, ReadInv, InTx, tables, locals,
          InvalidParams, Writes, Keyed, Moves
    <2>6. DistinctIDs'
      BY <1>5 DEF BankInv, DistinctIDs, locals
    <2>7. UNCHANGED <<tables, body, attempt, applied>> /\ read' = read /\ newID' = newID
      BY <1>5 DEF locals
    <2> QED
      BY <1>1, <1>2, <1>5, <2>2, <2>3, <2>5, <2>6, <2>7, GotoStep DEF TypeOK, InTx
  <1> QED
    BY <1>4, <1>5 DEF InsertCurrency

LEMMA InsertIdempotencyKeyStep ==
    ASSUME BankInv, NEW r \in Request, InsertIdempotencyKey(r)
    PROVE  BankInv'
  <1> DEFINE k == body[r].key
             label == IF body[r].op = "CreateAccount" THEN "commit" ELSE "lockFrom"
  <1>1. TypeOK /\ RequestInv(r)
    BY DEF BankInv
  <1>2. pc[r] = "key" /\ keyLock[k] = None
    BY DEF InsertIdempotencyKey
  <1>3. body[r] \in Bodies /\ body[r].op \in Keyed /\ k \in Key
    BY <1>1, <1>2, BodyOf, BodyFields DEF RequestInv, PlaceInv, InTx, Keyed, Moves
  <1>4. CASE k \in idempotencyKeys /\ Abort(r, "ErrIdempotencyKeyExists")
    BY <1>2, <1>4, AbortStep
  <1>5. CASE /\ k \notin idempotencyKeys
             /\ keyLock' = [keyLock EXCEPT ![k] = r]
             /\ Goto(r, label)
             /\ UNCHANGED <<tables, rowLock, currencyLock, locals, applied>>
    <2>1. /\ keyLock' \in [Key -> Request \cup {None}]
          /\ keyLock'[k] = r
          /\ \A q \in Request \ {r} : \A x \in Key :
                keyLock[x] = q => keyLock'[x] = q
      BY <1>1, <1>2, <1>3, <1>5, BankAssumption DEF TypeOK
    <2>2. LocksType'
      BY <1>1, <1>5, <2>1 DEF TypeOK, LocksType
    <2>3. \A q \in Request \ {r} : Same(q)
      BY <1>1, <1>5, <2>1 DEF Same, Goto, locals, TypeOK
    <2>4. pc'[r] = label /\ answer' = answer
      BY <1>1, <1>5 DEF Goto, TypeOK
    <2>5. RequestInv(r)'
      BY <1>1, <1>2, <1>3, <1>5, <2>1, <2>4
      DEF RequestInv, PlaceInv, QueryInv, LockInv, ReadInv, InTx, tables, locals,
          InvalidParams, Writes, Keyed, Moves
    <2>6. DistinctIDs'
      BY <1>5 DEF BankInv, DistinctIDs, locals
    <2>7. UNCHANGED <<tables, body, attempt, applied>> /\ read' = read /\ newID' = newID
      BY <1>5 DEF locals
    <2>8. label \in InTx
      BY DEF InTx
    <2> QED
      BY <1>1, <1>2, <1>5, <2>2, <2>3, <2>5, <2>6, <2>7, <2>8, GotoStep DEF TypeOK
  <1> QED
    BY <1>4, <1>5 DEF InsertIdempotencyKey

(* GetBalanceWithLock by r, on a row that nobody else has locked.            *)
LEMMA BalanceLocked ==
    ASSUME BankInv, NEW r \in Request, NEW a \in Account, a \in DOMAIN balances,
           rowLock[a] \in {None, r}, NEW side \in {"from", "to"},
           NEW label \in InTx,
           GetBalanceWithLock(r, a, side), Goto(r, label)
    PROVE  /\ LocksType'
           /\ rowLock'[a] = r
           /\ \A x \in Account : rowLock[x] = r => rowLock'[x] = r
           /\ \A q \in Request \ {r} : Same(q)
           /\ read' \in [Request -> [from : Int, to : Int]]
           /\ read'[r] = [read[r] EXCEPT ![side] = balances[a]]
           /\ pc'[r] = label
           /\ DistinctIDs'
           /\ UNCHANGED <<tables, body, attempt, applied, keyLock, currencyLock,
                          newID, answer>>
  <1>1. TypeOK
    BY DEF BankInv
  <1>2. /\ rowLock' = [rowLock EXCEPT ![a] = r]
        /\ read' = [read EXCEPT ![r][side] = balances[a]]
        /\ pc' = [pc EXCEPT ![r] = label]
        /\ UNCHANGED <<tables, body, attempt, applied, keyLock, currencyLock,
                       newID, answer>>
    BY DEF GetBalanceWithLock, Goto
  <1>3. /\ rowLock' \in [Account -> Request \cup {None}]
        /\ rowLock'[a] = r
        /\ \A x \in Account : rowLock[x] = r => rowLock'[x] = r
        /\ \A q \in Request \ {r} : \A x \in Account : rowLock[x] = q => rowLock'[x] = q
    BY <1>1, <1>2, BankAssumption DEF TypeOK
  <1>4. LocksType'
    BY <1>1, <1>2, <1>3 DEF TypeOK, LocksType
  <1>5. balances[a] \in Int
    BY <1>1, BankAssumption DEF TypeOK
  <1>6. /\ read[r] \in [from : Int, to : Int]
        /\ [read[r] EXCEPT ![side] = balances[a]] \in [from : Int, to : Int]
    BY <1>1, <1>5 DEF TypeOK
  <1>7. /\ read' = [read EXCEPT ![r] = [read[r] EXCEPT ![side] = balances[a]]]
        /\ read'[r] = [read[r] EXCEPT ![side] = balances[a]]
        /\ read' \in [Request -> [from : Int, to : Int]]
        /\ \A q \in Request \ {r} : read'[q] = read[q]
    BY <1>1, <1>2, <1>6 DEF TypeOK
  <1>8. \A q \in Request \ {r} : Same(q)
    BY <1>1, <1>2, <1>3, <1>7 DEF Same, TypeOK
  <1>9. pc'[r] = label
    BY <1>1, <1>2 DEF TypeOK
  <1>10. DistinctIDs'
    BY <1>2 DEF BankInv, DistinctIDs
  <1> QED
    BY <1>2, <1>3, <1>4, <1>7, <1>8, <1>9, <1>10

LEMMA LockFromStep ==
    ASSUME BankInv, NEW r \in Request, LockFrom(r)
    PROVE  BankInv'
  <1> DEFINE b == body[r]
             a == b.from
             label == IF b.op = "Transfer" THEN "lockTo" ELSE "commit"
  <1>1. TypeOK /\ RequestInv(r)
    BY DEF BankInv
  <1>2. pc[r] = "lockFrom" /\ rowLock[a] = None
    BY DEF LockFrom
  <1>3. b \in Bodies /\ b.op \in Moves /\ a \in Account
    BY <1>1, <1>2, BodyOf, BodyFields DEF RequestInv, PlaceInv, InTx, Moves
  <1>4. CASE \E err \in {"cannot find balance", "ErrAccountNotFound",
                         "ErrInsufficientBalance"} : Abort(r, err)
    BY <1>2, <1>4, AbortStep
  <1>5. CASE /\ a \in DOMAIN balances
             /\ ~ InsufficientBalance(b, balances[a])
             /\ GetBalanceWithLock(r, a, "from")
             /\ Goto(r, label)
    <2>1. PICK l \in InTx :
            /\ b.op = "Transfer" => l = "lockTo"
            /\ b.op # "Transfer" => l = "commit"
            /\ Goto(r, l)
      BY <1>5 DEF InTx
    <2>2. /\ a \in Account
          /\ a \in DOMAIN balances
          /\ rowLock[a] \in {None, r}
          /\ GetBalanceWithLock(r, a, "from")
      BY <1>2, <1>3, <1>5
    <2>3. /\ LocksType'
          /\ rowLock'[a] = r
          /\ \A q \in Request \ {r} : Same(q)
          /\ read' \in [Request -> [from : Int, to : Int]]
          /\ read'[r] = [read[r] EXCEPT !["from"] = balances[a]]
          /\ pc'[r] = l
          /\ DistinctIDs'
          /\ UNCHANGED <<tables, body, attempt, applied, keyLock, currencyLock,
                         newID, answer>>
      <3> HIDE DEF b, a
      <3> QED
        BY <2>1, <2>2, BalanceLocked
    <2>4. read'[r].from = balances[a] /\ read'[r].to = read[r].to
      BY <1>1, <2>3 DEF TypeOK
    <2>5. PlaceInv(r)' /\ QueryInv(r)' /\ ReadInv(r)'
      BY <1>1, <1>2, <1>3, <2>1, <2>3, <2>4
      DEF RequestInv, PlaceInv, QueryInv, ReadInv, InTx, tables,
          InvalidParams, Writes, Keyed, Moves
    <2>6. LockInv(r)'
      BY <1>1, <1>2, <1>3, <1>5, <2>1, <2>3, <2>4
      DEF RequestInv, LockInv, Holds, tables, Keyed, Moves, InsufficientBalance
    <2> QED
      BY <1>1, <1>2, <1>5, <2>1, <2>3, <2>5, <2>6, GotoStep DEF TypeOK, RequestInv
  <1> QED
    BY <1>4, <1>5 DEF LockFrom

LEMMA LockToStep ==
    ASSUME BankInv, NEW r \in Request, LockTo(r)
    PROVE  BankInv'
  <1> DEFINE b == body[r]
             a == b.to
  <1>1. TypeOK /\ RequestInv(r)
    BY DEF BankInv
  <1>2. pc[r] = "lockTo" /\ rowLock[a] \in {None, r}
    BY DEF LockTo
  <1>3. b \in Bodies /\ b.op = "Transfer" /\ a \in Account /\ b.from \in Account
    BY <1>1, <1>2, BodyOf, BodyFields DEF RequestInv, PlaceInv, InTx
  <1>4. CASE Abort(r, "cannot find balance")
    BY <1>2, <1>4, AbortStep
  <1>5. CASE /\ a \in DOMAIN balances
             /\ GetBalanceWithLock(r, a, "to")
             /\ Goto(r, "commit")
    <2>1. "commit" \in InTx
      BY DEF InTx
    <2>2. /\ LocksType'
          /\ rowLock'[a] = r
          /\ \A x \in Account : rowLock[x] = r => rowLock'[x] = r
          /\ \A q \in Request \ {r} : Same(q)
          /\ read' \in [Request -> [from : Int, to : Int]]
          /\ read'[r] = [read[r] EXCEPT !["to"] = balances[a]]
          /\ pc'[r] = "commit"
          /\ DistinctIDs'
          /\ UNCHANGED <<tables, body, attempt, applied, keyLock, currencyLock,
                         newID, answer>>
      BY <1>2, <1>3, <1>5, <2>1, BalanceLocked
    <2>3. read'[r].to = balances[a] /\ read'[r].from = read[r].from
      BY <1>1, <2>2 DEF TypeOK
    <2>4. PlaceInv(r)' /\ QueryInv(r)' /\ ReadInv(r)'
      BY <1>1, <1>2, <1>3, <2>2, <2>3
      DEF RequestInv, PlaceInv, QueryInv, ReadInv, InTx, tables,
          InvalidParams, Writes, Keyed, Moves
    <2>5. LockInv(r)'
      BY <1>1, <1>2, <1>3, <1>5, <2>2, <2>3
      DEF RequestInv, LockInv, Holds, tables, Keyed, Moves, InsufficientBalance
    <2> QED
      BY <1>1, <1>2, <1>5, <2>1, <2>2, <2>4, <2>5, GotoStep DEF TypeOK, RequestInv
  <1> QED
    BY <1>4, <1>5 DEF LockTo

LEMMA FailureSteps ==
    ASSUME BankInv, NEW r \in Request, Fail(r) \/ DeadlockVictim(r)
    PROVE  BankInv'
  <1>1. CASE Fail(r)
    BY <1>1, AbortStep DEF Fail
  <1>2. CASE DeadlockVictim(r)
    <2>1. Holder(r) \in Request
      BY <1>2 DEF DeadlockVictim, Deadlocked
    <2>2. pc[r] \in {"idle", "done"} => Holder(r) = None
      BY DEF Holder
    <2>3. pc[r] \notin {"idle", "done"}
      BY <2>1, <2>2, BankAssumption
    <2> QED
      BY <1>2, <2>3, AbortStep DEF DeadlockVictim
  <1> QED
    BY <1>1, <1>2

-----------------------------------------------------------------------------
(* COMMIT.                                                                   *)

Created(r) == IF body[r].op = "CreateAccount" THEN {newID[r]} ELSE {}

(* What the committing request knows: the locks it holds and what they keep. *)
LEMMA Committing ==
    ASSUME BankInv, NEW r \in Request, pc[r] = "commit"
    PROVE  /\ body[r] \in Bodies
           /\ body[r].op \in Writes
           /\ Created(r) \subseteq Account \ DOMAIN accounts
           /\ body[r].op = "CreateAccount" => body[r].currency \in currencies
           /\ body[r].op = "CreateCurrency" =>
                /\ body[r].key = None
                /\ currencyLock[body[r].currency] = r
                /\ body[r].currency \notin currencies
           /\ body[r].op # "CreateCurrency" =>
                /\ body[r].key \in Key
                /\ keyLock[body[r].key] = r
                /\ body[r].key \notin idempotencyKeys
           /\ body[r].op \in Moves => Holds(r, body[r].from, read[r].from)
           /\ body[r].op = "Transfer" => Holds(r, body[r].to, read[r].to)
  <1>1. RequestInv(r) /\ body[r] \in Bodies
    BY BodyOf DEF BankInv
  <1>2. body[r].op \in Writes
    BY <1>1 DEF RequestInv, PlaceInv, InTx
  <1>3. /\ body[r].op = "CreateCurrency" => body[r].key = None
        /\ body[r].op # "CreateCurrency" => body[r].op \in Keyed /\ body[r].key \in Key
    BY <1>1, <1>2, BodyFields DEF Writes, Keyed, Moves
  <1>4. Created(r) \subseteq Account \ DOMAIN accounts
    BY <1>1 DEF RequestInv, QueryInv, InTx, Created
  <1> QED
    BY <1>1, <1>2, <1>3, <1>4 DEF RequestInv, QueryInv, LockInv, InTx

(* UpdateBalance writes the accounts of the request and no others.           *)
LEMMA UpdateBalanceValue ==
    ASSUME BankInv, NEW r \in Request, pc[r] = "commit", NEW a \in DOMAIN balances
    PROVE  /\ UpdateBalance(r, a) \in -Half..Half - 1
           /\ /\ ~ (body[r].op \in Moves /\ a = body[r].from)
              /\ ~ (body[r].op = "Transfer" /\ a = body[r].to)
              => UpdateBalance(r, a) = balances[a]
  <1>1. /\ read[r].from \in Int
        /\ read[r].to \in Int
        /\ balances[a] \in -Half..Half - 1
    BY DEF BankInv, TypeOK
  <1>2. body[r].amount \in Int
    BY Committing, BodyFields
  <1>3. /\ Int64(read[r].to + body[r].amount) \in -Half..Half - 1
        /\ Int64(read[r].from + body[r].amount) \in -Half..Half - 1
        /\ Int64(read[r].from - body[r].amount) \in -Half..Half - 1
    BY <1>1, <1>2, Int64Range
  <1> QED
    BY <1>1, <1>3 DEF UpdateBalance, Moves

LEMMA InsertTransactionType ==
    ASSUME BankInv, NEW r \in Request, pc[r] = "commit"
    PROVE  InsertTransaction(r) \subseteq Transaction
  <1>1. body[r] \in Bodies
    BY Committing
  <1>2. /\ body[r].amount \in Int
        /\ Int64(-body[r].amount) \in Int
    BY <1>1, BodyFields, Int64Range, BankAssumption
  <1>3. /\ body[r].op \in Moves => body[r].from \in Account
        /\ body[r].op = "Transfer" => body[r].to \in Account
    BY <1>1, BodyFields DEF Moves
  <1>4. \A leg \in {1, 2} :
          <<r, attempt[r], leg>> \in Request \X (1..MaxAttempts) \X {1, 2}
    BY DEF BankInv, TypeOK
  <1>5. ASSUME NEW id \in Request \X (1..MaxAttempts) \X {1, 2}, NEW account \in Account,
               NEW txType \in Moves, NEW amount \in Int,
               NEW parentID \in Request \X (1..MaxAttempts) \X {1, 2} \cup {None}
        PROVE  Record(id, account, txType, amount, parentID) \in Transaction
    BY DEF Record, Transaction, Moves
  <1>6. CASE body[r].op = "Deposit"
    BY <1>2, <1>3, <1>4, <1>5, <1>6 DEF InsertTransaction, Moves
  <1>7. CASE body[r].op = "Withdraw"
    BY <1>2, <1>3, <1>4, <1>5, <1>7 DEF InsertTransaction, Moves
  <1>8. CASE body[r].op = "Transfer"
    BY <1>2, <1>3, <1>4, <1>5, <1>8 DEF InsertTransaction, Moves
  <1>9. CASE body[r].op \notin Moves
    BY <1>9 DEF InsertTransaction, Moves
  <1> QED
    BY <1>6, <1>7, <1>8, <1>9 DEF Moves

(* The tables after the commit.                                              *)
LEMMA ApplyTables ==
    ASSUME BankInv, NEW r \in Request, pc[r] = "commit", Apply(r)
    PROVE  /\ currencies' = currencies \cup
                (IF body[r].op = "CreateCurrency" THEN {body[r].currency} ELSE {})
           /\ DOMAIN accounts' = DOMAIN accounts \cup Created(r)
           /\ DOMAIN balances' = DOMAIN accounts'
           /\ DOMAIN balances = DOMAIN accounts
           /\ \A a \in DOMAIN accounts :
                accounts'[a] = accounts[a] /\ balances'[a] = UpdateBalance(r, a)
           /\ \A a \in Created(r) :
                accounts'[a] = body[r].currency /\ balances'[a] = 0
           /\ accounts' \in [DOMAIN accounts' -> Currency]
           /\ balances' \in [DOMAIN accounts' -> -Half..Half - 1]
           /\ transactions' = transactions \cup InsertTransaction(r)
           /\ idempotencyKeys' = idempotencyKeys \cup ({body[r].key} \ {None})
           /\ applied' = applied \cup {<<r, attempt[r]>>}
           /\ Release(r)
           /\ UNCHANGED <<body, attempt, read, newID>>
  <1>1. TypeOK
    BY DEF BankInv
  <1>2. /\ accounts' = [a \in DOMAIN accounts \cup Created(r) |->
                           IF a \in Created(r) THEN body[r].currency ELSE accounts[a]]
        /\ balances' = [a \in DOMAIN balances \cup Created(r) |->
                           IF a \in Created(r) THEN 0 ELSE UpdateBalance(r, a)]
        /\ UNCHANGED <<body, attempt, read, newID>>
    BY DEF Apply, Created, locals
  <1>3. DOMAIN balances = DOMAIN accounts
    BY <1>1 DEF TypeOK
  <1>4. Created(r) \cap DOMAIN accounts = {}
    BY Committing
  <1>5. Created(r) # {} => body[r].currency \in Currency
    BY Committing, BodyFields DEF Created
  <1>6. accounts' \in [DOMAIN accounts' -> Currency]
    BY <1>1, <1>2, <1>5 DEF TypeOK
  <1>7. balances' \in [DOMAIN accounts' -> -Half..Half - 1]
    <2>1. 0 \in -Half..Half - 1
      BY BankAssumption
    <2>2. \A a \in DOMAIN balances : UpdateBalance(r, a) \in -Half..Half - 1
      BY UpdateBalanceValue
    <2> QED
      BY <1>2, <1>3, <2>1, <2>2
  <1> QED
    BY <1>2, <1>3, <1>4, <1>6, <1>7 DEF Apply

LEMMA ApplyType ==
    ASSUME BankInv, NEW r \in Request, pc[r] = "commit", Apply(r),
           NEW code \in {OK, ErrorCodeUnknown}, Finish(r, code)
    PROVE  TypeOK'
  <1>1. TypeOK /\ body[r] \in Bodies
    BY Committing DEF BankInv
  <1>2. currencies' \subseteq Currency
    <2>1. currencies' = currencies \cup
             (IF body[r].op = "CreateCurrency" THEN {body[r].currency} ELSE {})
      BY ApplyTables
    <2>2. body[r].op = "CreateCurrency" => body[r].currency \in Currency
      BY <1>1, BodyFields
    <2>3. currencies \subseteq Currency
      BY <1>1 DEF TypeOK
    <2> QED
      BY <2>1, <2>2, <2>3
  <1>3. DOMAIN accounts' \subseteq Account
    <2>1. DOMAIN accounts' = DOMAIN accounts \cup Created(r)
      BY ApplyTables
    <2>2. Created(r) \subseteq Account
      BY Committing
    <2>3. DOMAIN accounts \subseteq Account
      BY <1>1 DEF TypeOK
    <2> QED
      BY <2>1, <2>2, <2>3
  <1>4. transactions' \subseteq Transaction
    <2>1. transactions' = transactions \cup InsertTransaction(r)
      BY ApplyTables
    <2>2. transactions \subseteq Transaction
      BY <1>1 DEF TypeOK
    <2> QED
      BY <2>1, <2>2, InsertTransactionType
  <1>5. idempotencyKeys' \subseteq Key
    <2>1. idempotencyKeys' = idempotencyKeys \cup ({body[r].key} \ {None})
      BY ApplyTables
    <2>2. body[r].key \in Key \cup {None}
      BY <1>1, BodyFields
    <2>3. idempotencyKeys \subseteq Key
      BY <1>1 DEF TypeOK
    <2> QED
      BY <2>1, <2>2, <2>3
  <1>6. applied' \subseteq Request \X (1..MaxAttempts)
    <2>1. applied' = applied \cup {<<r, attempt[r]>>}
      BY ApplyTables
    <2>2. /\ applied \subseteq Request \X (1..MaxAttempts)
          /\ attempt[r] \in 1..MaxAttempts
      BY <1>1 DEF TypeOK
    <2> QED
      BY <2>1, <2>2
  <1>7. LocksType'
    <2>1. Release(r)
      BY ApplyTables
    <2> QED
      BY <1>1, <2>1, ReleaseKeeps
  <1>8. /\ pc' \in [Request -> InTx \cup {"idle", "service", "toCurrency", "begin", "done"}]
        /\ answer' \in [Request -> ErrorCode \cup {OK, None}]
    BY <1>1 DEF Finish, TypeOK, ErrorCode
  <1>9. /\ body' \in [Request -> Bodies \cup {None}]
        /\ attempt' \in [Request -> 1..MaxAttempts]
        /\ read' \in [Request -> [from : Int, to : Int]]
        /\ newID' \in [Request -> Account \cup {None}]
    <2>1. UNCHANGED <<body, attempt, read, newID>>
      BY ApplyTables
    <2> QED
      BY <1>1, <2>1 DEF TypeOK
  <1>10. /\ accounts' \in [DOMAIN accounts' -> Currency]
         /\ balances' \in [DOMAIN accounts' -> -Half..Half - 1]
    BY ApplyTables
  <1> QED
    BY <1>2, <1>3, <1>4, <1>5, <1>6, <1>7, <1>8, <1>9, <1>10 DEF TypeOK, LocksType

(* A commit of r touches nothing that another request has locked or seen.    *)
LEMMA ApplyOthers ==
    ASSUME BankInv, NEW r \in Request, pc[r] = "commit", Apply(r),
           NEW code \in {OK, ErrorCodeUnknown}, Finish(r, code),
           NEW q \in Request \ {r}
    PROVE  RequestInv(q)' /\ AnswerIsTrue(q)'
  <1>1. TypeOK /\ RequestInv(q) /\ AnswerIsTrue(q)
    BY DEF BankInv, AnswersAreTrue
  <1>2. Same(q)
    <2>1. Release(r) /\ UNCHANGED <<body, attempt, read, newID>>
      BY ApplyTables
    <2>2. pc'[q] = pc[q] /\ answer'[q] = answer[q]
      BY <1>1 DEF Finish, TypeOK
    <2>3. /\ \A a \in Account : rowLock[a] = q => rowLock'[a] = q
          /\ \A k \in Key : keyLock[k] = q => keyLock'[k] = q
          /\ \A c \in Currency : currencyLock[c] = q => currencyLock'[c] = q
      BY <1>1, <2>1, ReleaseKeeps
    <2> QED
      BY <2>1, <2>2, <2>3 DEF Same
  <1>3. PlaceInv(q)' /\ ReadInv(q)'
    BY <1>1, <1>2 DEF Same, RequestInv, PlaceInv, ReadInv, InvalidParams
  <1>4. newID[q] \in Account => newID[q] \notin Created(r)
    BY BankAssumption DEF BankInv, DistinctIDs, Created
  <1>5. QueryInv(q)'
    <2>1. /\ DOMAIN accounts' = DOMAIN accounts \cup Created(r)
          /\ \A a \in DOMAIN accounts : accounts'[a] = accounts[a]
          /\ currencies \subseteq currencies'
      BY ApplyTables
    <2> QED
      BY <1>1, <1>2, <1>4, <2>1 DEF Same, RequestInv, QueryInv
  <1>6. pc[q] \in InTx =>
          /\ body[q].op \in Keyed => body[q].key \in Key
          /\ body[q].op \in Moves => body[q].from \in Account
          /\ body[q].op = "Transfer" => body[q].to \in Account
          /\ body[q].op = "CreateCurrency" => body[q].currency \in Currency
    BY BodyOf, BodyFields DEF InTx, Keyed, Moves
  <1>7. ASSUME NEW k \in Key, keyLock[k] = q, k \notin idempotencyKeys
        PROVE  k \notin idempotencyKeys'
    <2>1. idempotencyKeys' = idempotencyKeys \cup ({body[r].key} \ {None})
      BY ApplyTables
    <2>2. body[r].key # None => keyLock[body[r].key] = r
      BY Committing
    <2> QED
      BY <1>7, <2>1, <2>2
  <1>8. ASSUME NEW c \in Currency, currencyLock[c] = q, c \notin currencies
        PROVE  c \notin currencies'
    <2>1. currencies' = currencies \cup
             (IF body[r].op = "CreateCurrency" THEN {body[r].currency} ELSE {})
      BY ApplyTables
    <2>2. body[r].op = "CreateCurrency" => currencyLock[body[r].currency] = r
      BY Committing
    <2> QED
      BY <1>8, <2>1, <2>2
  <1>9. ASSUME NEW a \in Account, NEW amount, Holds(q, a, amount)
        PROVE  Holds(q, a, amount)'
    <2>1. rowLock[a] = q /\ a \in DOMAIN balances /\ balances[a] = amount
      BY <1>9 DEF Holds
    <2>2. rowLock'[a] = q
      BY <1>2, <2>1 DEF Same
    <2>3. /\ ~ (body[r].op \in Moves /\ a = body[r].from)
          /\ ~ (body[r].op = "Transfer" /\ a = body[r].to)
      BY <2>1, Committing DEF Holds
    <2>4. UpdateBalance(r, a) = balances[a]
      BY <2>1, <2>3, UpdateBalanceValue
    <2> QED
      BY <2>1, <2>2, <2>4, ApplyTables DEF Holds
  <1>10. LockInv(q)'
    <2>1. CASE pc[q] \in InTx
      BY <1>1, <1>2, <1>6, <1>7, <1>8, <1>9, <2>1
      DEF Same, RequestInv, LockInv, InsufficientBalance
    <2>2. CASE pc[q] \notin InTx
      BY <1>2, <2>2 DEF Same, LockInv, InTx
    <2> QED
      BY <2>1, <2>2
  <1>11. AnswerIsTrue(q)'
    <2>1. applied' = applied \cup {<<r, attempt[r]>>} /\ body' = body
      BY ApplyTables
    <2>2. <<q, attempt[q]>> # <<r, attempt[r]>>
      OBVIOUS
    <2> QED
      BY <1>1, <1>2, <2>1, <2>2 DEF Same, AnswerIsTrue, KeyOf
  <1> QED
    BY <1>3, <1>5, <1>10, <1>11 DEF RequestInv

LEMMA ApplyStep ==
    ASSUME BankInv, NEW r \in Request, pc[r] = "commit", Apply(r),
           NEW code \in {OK, ErrorCodeUnknown}, Finish(r, code)
    PROVE  BankInv'
  <1> DEFINE me == <<r, attempt[r]>>
  <1>1. TypeOK /\ TypeOK' /\ RequestInv(r) /\ body[r] \in Bodies
    BY ApplyType, Committing DEF BankInv
  <1>2. /\ applied' = applied \cup {me}
        /\ body' = body
        /\ attempt' = attempt
        /\ read' = read
        /\ newID' = newID
        /\ idempotencyKeys' = idempotencyKeys \cup ({body[r].key} \ {None})
    BY ApplyTables
  <1>3. /\ pc'[r] = "done"
        /\ answer'[r] = code
        /\ \A q \in Request \ {r} : pc'[q] = pc[q]
    BY <1>1 DEF Finish, TypeOK
  <1>4. RequestInv(r)'
    BY <1>1, <1>2, <1>3, BodyFields
    DEF RequestInv, PlaceInv, QueryInv, LockInv, ReadInv, InTx
  <1>5. AnswerIsTrue(r)'
    BY <1>2, <1>3 DEF AnswerIsTrue, OK, ErrorCodeUnknown, ErrorCodeInvalidParams,
       ErrorCodeInvalidOperation, ErrorCodeDuplicateIdempotencyKey
  <1>6. DistinctIDs'
    BY <1>2 DEF BankInv, DistinctIDs
  <1>7. AccountsHaveCurrency'
    <2>1. /\ DOMAIN accounts' = DOMAIN accounts \cup Created(r)
          /\ \A a \in DOMAIN accounts : accounts'[a] = accounts[a]
          /\ \A a \in Created(r) : accounts'[a] = body[r].currency
          /\ currencies \subseteq currencies'
      BY ApplyTables
    <2>2. Created(r) # {} => body[r].currency \in currencies
      BY Committing DEF Created
    <2>3. AccountsHaveCurrency
      BY DEF BankInv
    <2> QED
      BY <2>1, <2>2, <2>3 DEF AccountsHaveCurrency
  <1>8. AppliedInv'
    <2>1. \A x \in applied : x[1] \in Request
      BY <1>1, AppliedPairs
    <2>2. attempt[r] <= attempt[r]
      BY <1>1, BankAssumption DEF TypeOK
    <2> QED
      BY <1>2, <1>3, <2>1, <2>2 DEF BankInv, AppliedInv
  <1>9. \A x \in applied' : x # me => x \in applied
    BY <1>2
  <1>10. \A x \in applied' : KeyOf(x)' = KeyOf(x)
    BY <1>2 DEF KeyOf
  <1>11. KeyOf(me) = body[r].key
    BY DEF KeyOf
  <1> HIDE DEF me
  <1>12. KeysInv'
    <2>1. \A x \in applied' : KeyOf(x) # None => KeyOf(x) \in idempotencyKeys'
      BY <1>2, <1>9, <1>11 DEF BankInv, KeysInv
    <2>2. \A k \in idempotencyKeys' : \E x \in applied' : KeyOf(x) = k
      BY <1>2, <1>11 DEF BankInv, KeysInv
    <2> QED
      BY <1>10, <2>1, <2>2 DEF KeysInv
  <1>13. AppliedOncePerKey'
    <2>1. body[r].key \notin idempotencyKeys \/ body[r].key = None
      BY Committing
    <2>2. \A x \in applied : KeyOf(x) # None => KeyOf(x) # body[r].key
      BY <2>1 DEF BankInv, KeysInv
    <2>3. \A x, y \in applied' : KeyOf(x) = KeyOf(y) /\ KeyOf(x) # None => x = y
      BY <1>9, <1>11, <2>2 DEF BankInv, AppliedOncePerKey
    <2> QED
      BY <1>10, <2>3 DEF AppliedOncePerKey
  <1>14. \A q \in Request : RequestInv(q)' /\ AnswerIsTrue(q)'
    BY <1>4, <1>5, ApplyOthers
  <1> QED
    BY <1>1, <1>6, <1>7, <1>8, <1>12, <1>13, <1>14 DEF BankInv, AnswersAreTrue

-----------------------------------------------------------------------------
(* The invariant holds.                                                      *)

LEMMA AdvanceStep ==
    ASSUME BankInv, NEW r \in Request, Advance(r)
    PROVE  BankInv'
  <1>1. CASE RejectParams(r) \/ CreateCurrency(r) \/ DepositOrWithdraw(r)
             \/ Transfer(r) \/ TransferToCurrency(r) \/ Begin(r)
    BY <1>1, EarlySteps
  <1>2. CASE GetCurrencies(r) \/ GetAccountInfo(r)
    BY <1>2, ReadsStep
  <1>3. CASE CreateAccount(r)
    BY <1>3, CreateAccountStep
  <1>4. CASE InsertCurrency(r) \/ InsertIdempotencyKey(r)
    BY <1>4, InsertCurrencyStep, InsertIdempotencyKeyStep
  <1>5. CASE LockFrom(r) \/ LockTo(r)
    BY <1>5, LockFromStep, LockToStep
  <1>6. CASE Commit(r)
    BY <1>6, ApplyStep DEF Commit
  <1> QED
    BY <1>1, <1>2, <1>3, <1>4, <1>5, <1>6 DEF Advance

LEMMA UnchangedStep ==
    ASSUME BankInv, UNCHANGED vars
    PROVE  BankInv'
  <1>1. /\ UNCHANGED <<currencies, accounts, balances, transactions, idempotencyKeys>>
        /\ UNCHANGED <<rowLock, keyLock, currencyLock>>
        /\ UNCHANGED <<pc, body, attempt, read, newID, answer, applied>>
    BY DEF vars, tables, locks, locals
  <1>2. TypeOK'
    BY <1>1 DEF BankInv, TypeOK
  <1>3. \A r \in Request : RequestInv(r)'
    BY <1>1 DEF BankInv, RequestInv, PlaceInv, QueryInv, LockInv, ReadInv, Holds,
                InvalidParams, InsufficientBalance
  <1>4. DistinctIDs' /\ AccountsHaveCurrency' /\ AppliedInv'
    BY <1>1 DEF BankInv, DistinctIDs, AccountsHaveCurrency, AppliedInv
  <1>5. KeysInv' /\ AppliedOncePerKey' /\ AnswersAreTrue'
    BY <1>1 DEF BankInv, KeysInv, AppliedOncePerKey, AnswersAreTrue, AnswerIsTrue, KeyOf
  <1> QED
    BY <1>2, <1>3, <1>4, <1>5 DEF BankInv

LEMMA BankInvInit == Init => BankInv
  <1> SUFFICES ASSUME Init PROVE BankInv
    OBVIOUS
  <1>1. TypeOK
    <2>1. \A a \in DOMAIN Opening :
            /\ a \in Account
            /\ Opening[a].currency \in Currency
            /\ Opening[a].amount \in -Half..Half - 1
            /\ Opening[a].amount \in Int
      BY BankAssumption
    <2>2. transactions \subseteq Transaction
      <3>1. \A a \in DOMAIN Opening :
                <<a, 0, 1>> \in (Request \cup Account) \X (0..MaxAttempts) \X {1, 2}
        BY <2>1, BankAssumption
      <3> QED
        BY <2>1, <3>1 DEF Init, Transaction, Record
    <2>3. attempt \in [Request -> 1..MaxAttempts]
      BY BankAssumption DEF Init
    <2> QED
      BY <2>1, <2>2, <2>3 DEF Init, TypeOK
  <1>2. \A r \in Request : RequestInv(r)
    BY BankAssumption
    DEF Init, RequestInv, PlaceInv, QueryInv, LockInv, ReadInv, InTx
  <1>3. DistinctIDs /\ AccountsHaveCurrency /\ AppliedInv
    BY DEF Init, DistinctIDs, AccountsHaveCurrency, AppliedInv
  <1>4. KeysInv /\ AppliedOncePerKey
    BY DEF Init, KeysInv, AppliedOncePerKey
  <1>5. AnswersAreTrue
    <2>1. \A r \in Request : answer[r] = None
      BY DEF Init
    <2> QED
      BY <2>1, CodesDiffer DEF AnswersAreTrue, AnswerIsTrue, ErrorCode
  <1> QED
    BY <1>1, <1>2, <1>3, <1>4, <1>5 DEF BankInv

LEMMA BankInvNext == BankInv /\ [Next]_vars => BankInv'
  <1> SUFFICES ASSUME BankInv, [Next]_vars PROVE BankInv'
    OBVIOUS
  <1>1. ASSUME NEW r \in Request, NEW b \in Bodies, Submit(r, b) PROVE BankInv'
    BY <1>1, SubmitStep
  <1>2. ASSUME NEW r \in Request, Retry(r) PROVE BankInv'
    BY <1>2, RetryStep
  <1>3. ASSUME NEW r \in Request, Advance(r) PROVE BankInv'
    BY <1>3, AdvanceStep
  <1>4. ASSUME NEW r \in Request, CommitUnseen(r) PROVE BankInv'
    BY <1>4, ApplyStep DEF CommitUnseen
  <1>5. ASSUME NEW r \in Request, Fail(r) \/ DeadlockVictim(r) PROVE BankInv'
    BY <1>5, FailureSteps
  <1>6. CASE Terminated \/ UNCHANGED vars
    BY <1>6, UnchangedStep DEF Terminated
  <1> QED
    BY <1>1, <1>2, <1>3, <1>4, <1>5, <1>6 DEF Next

LEMMA BankInvariant == Spec => []BankInv
  BY BankInvInit, BankInvNext, PTL DEF Spec

(* Every table, lock, request and answer stays within its type: balances in  *)
(* the range of int64, locks held by requests, rows of known forms.          *)
THEOREM TypeCorrect == Spec => []TypeOK
  <1>1. BankInv => TypeOK
    BY DEF BankInv
  <1> QED
    BY <1>1, BankInvariant, PTL

(* Whatever requests share a key, are sent again or lose the answer of their *)
(* COMMIT, InsertIdempotencyKey lets the key take effect once.               *)
THEOREM KeysTakeEffectOnce == Spec => []AppliedOncePerKey
  <1>1. BankInv => AppliedOncePerKey
    BY DEF BankInv
  <1> QED
    BY <1>1, BankInvariant, PTL

(* The answer of every handler agrees with what its transaction did.         *)
THEOREM AnswersTrue == Spec => []AnswersAreTrue
  <1>1. BankInv => AnswersAreTrue
    BY DEF BankInv
  <1> QED
    BY <1>1, BankInvariant, PTL

-----------------------------------------------------------------------------
(* Balances.                                                                 *)

(* Clients transfer no negative amounts; the code tests only for 0.          *)
NoNegativeTransfers == \A b \in Bodies : b.op = "Transfer" => b.amount >= 0

(* Only a commit writes to the tables.                                       *)
LEMMA OnlyCommitsWrite ==
    ASSUME [Next]_vars, \A r \in Request : ~ (pc[r] = "commit" /\ Apply(r))
    PROVE  UNCHANGED <<tables, applied>>
  <1>1. ASSUME NEW r \in Request, Retry(r) \/ \E b \in Bodies : Submit(r, b)
        PROVE  UNCHANGED <<tables, applied>>
    BY <1>1 DEF Submit, Retry, tables
  <1>2. ASSUME NEW r \in Request, NEW err, Reject(r, err) \/ Abort(r, err)
        PROVE  UNCHANGED <<tables, applied>>
    BY <1>2 DEF Reject, Abort, tables
  <1>3. ASSUME NEW r \in Request, NEW label, Proceed(r, label)
        PROVE  UNCHANGED <<tables, applied>>
    BY <1>3 DEF Proceed, tables
  <1>4. ASSUME NEW r \in Request, NEW a, NEW side, GetBalanceWithLock(r, a, side)
        PROVE  UNCHANGED <<tables, applied>>
    BY <1>4 DEF GetBalanceWithLock, tables
  <1>5. ASSUME NEW r \in Request,
               \/ RejectParams(r) \/ GetCurrencies(r) \/ GetAccountInfo(r)
               \/ CreateCurrency(r) \/ CreateAccount(r) \/ DepositOrWithdraw(r)
        PROVE  UNCHANGED <<tables, applied>>
    BY <1>2, <1>3, <1>5
    DEF RejectParams, GetCurrencies, GetAccountInfo, CreateCurrency, CreateAccount,
        DepositOrWithdraw
  <1>6. ASSUME NEW r \in Request, Transfer(r) \/ TransferToCurrency(r) \/ Begin(r)
        PROVE  UNCHANGED <<tables, applied>>
    BY <1>2, <1>3, <1>6 DEF Transfer, TransferToCurrency, Begin
  <1>7. ASSUME NEW r \in Request,
               InsertCurrency(r) \/ InsertIdempotencyKey(r) \/ LockFrom(r) \/ LockTo(r)
        PROVE  UNCHANGED <<tables, applied>>
    BY <1>2, <1>4, <1>7 DEF InsertCurrency, InsertIdempotencyKey, LockFrom, LockTo
  <1>8. ASSUME NEW r \in Request, Fail(r) \/ DeadlockVictim(r)
        PROVE  UNCHANGED <<tables, applied>>
    BY <1>2, <1>8 DEF Fail, DeadlockVictim
  <1>9. ASSUME NEW r \in Request, Advance(r) PROVE UNCHANGED <<tables, applied>>
    BY <1>5, <1>6, <1>7, <1>9 DEF Advance, Commit
  <1>10. CASE Terminated \/ UNCHANGED vars
    BY <1>10 DEF Terminated, vars, tables
  <1> QED
    BY <1>1, <1>8, <1>9, <1>10 DEF Next, CommitUnseen

(* The writes of a commit are exact and leave no negative balance.           *)
LEMMA ExactUpdate ==
    ASSUME BankInv, NoNegativeTransfers, CreditsFit, NoOverdraft,
           NEW r \in Request, pc[r] = "commit", NEW a \in DOMAIN balances
    PROVE  /\ UpdateBalance(r, a) >= 0
           /\ body[r].op = "Transfer" /\ a = body[r].to =>
                UpdateBalance(r, a) = balances[a] + body[r].amount
           /\ /\ body[r].op \in {"Withdraw", "Transfer"}
              /\ a = body[r].from
              /\ ~ (body[r].op = "Transfer" /\ a = body[r].to)
              => /\ UpdateBalance(r, a) = balances[a] - body[r].amount
                 /\ balances[a] >= body[r].amount
           /\ body[r].op = "Deposit" /\ a = body[r].from =>
                UpdateBalance(r, a) = balances[a] + body[r].amount
  <1> DEFINE amount == body[r].amount
  <1>1. /\ balances[a] \in -Half..Half - 1
        /\ balances[a] >= 0
        /\ Half \in Nat /\ Half > 0
    BY BankAssumption DEF BankInv, TypeOK, NoOverdraft
  <1>2. /\ body[r] \in Bodies
        /\ body[r].op \in Moves /\ a = body[r].from => read[r].from = balances[a]
        /\ body[r].op = "Transfer" /\ a = body[r].to => read[r].to = balances[a]
    BY Committing DEF Holds
  <1>3. /\ ~ InvalidParams(body[r])
        /\ body[r].op \in Moves => ~ InsufficientBalance(body[r], read[r].from)
    BY DEF BankInv, RequestInv, PlaceInv, LockInv, InTx
  <1>4. /\ amount \in Int
        /\ amount < Half
        /\ body[r].op \in Moves => amount >= 0
    <2>1. amount \in Int /\ amount \in -Half..Half - 1
      BY <1>2, BodyFields
    <2>2. body[r].op \in Moves => amount >= 0
      BY <1>2, <1>3, <2>1 DEF InvalidParams, Moves, NoNegativeTransfers
    <2> QED
      BY <1>1, <2>1, <2>2
  <1>5. ASSUME NEW x \in Int, -Half <= x, x < Half PROVE Int64(x) = x
    <2>1. x \in -Half..Half - 1
      BY <1>1, <1>5
    <2> QED
      BY <2>1, Int64Range
  <1>6. CASE body[r].op = "Transfer" /\ a = body[r].to
    <2>1. UpdateBalance(r, a) = Int64(read[r].to + amount)
      BY <1>6 DEF UpdateBalance
    <2>2. read[r].to = balances[a] /\ amount >= 0
      BY <1>2, <1>4, <1>6 DEF Moves
    <2>3. read[r].to + amount < Half
      BY <1>6 DEF CreditsFit
    <2>4. UpdateBalance(r, a) = balances[a] + amount /\ balances[a] + amount >= 0
      BY <1>1, <1>4, <1>5, <2>1, <2>2, <2>3
    <2> QED
      BY <1>6, <2>4
  <1>7. CASE body[r].op = "Deposit" /\ a = body[r].from
    <2>1. UpdateBalance(r, a) = Int64(read[r].from + amount)
      BY <1>7 DEF UpdateBalance
    <2>2. read[r].from = balances[a] /\ amount >= 0 /\ read[r].from + amount < Half
      BY <1>2, <1>4, <1>7 DEF CreditsFit, Moves
    <2>3. UpdateBalance(r, a) = balances[a] + amount /\ balances[a] + amount >= 0
      BY <1>1, <1>4, <1>5, <2>1, <2>2
    <2> QED
      BY <1>7, <2>3
  <1>8. CASE /\ body[r].op \in {"Withdraw", "Transfer"}
             /\ a = body[r].from
             /\ ~ (body[r].op = "Transfer" /\ a = body[r].to)
    <2>1. UpdateBalance(r, a) = Int64(read[r].from - amount)
      BY <1>8 DEF UpdateBalance
    <2>2. read[r].from = balances[a] /\ amount >= 0
      BY <1>2, <1>4, <1>8 DEF Moves
    <2>3. balances[a] - amount \in Int /\ -Half <= balances[a] - amount
          /\ balances[a] - amount < Half
      BY <1>1, <1>4, <2>2
    <2>4. Int64(balances[a] - amount) = balances[a] - amount
      BY <1>5, <2>3
    <2>5. balances[a] - amount >= 0
      <3>1. CASE body[r].op = "Withdraw"
        BY <1>3, <2>2, <2>3, <2>4, <3>1 DEF InsufficientBalance, Moves
      <3>2. CASE body[r].op = "Transfer"
        BY <1>1, <1>3, <1>4, <2>2, <3>2 DEF InsufficientBalance, Moves
      <3> QED
        BY <1>8, <3>1, <3>2
    <2>6. balances[a] >= amount
      BY <1>1, <1>4, <2>5
    <2> QED
      BY <1>8, <2>1, <2>2, <2>4, <2>5, <2>6
  <1>9. CASE /\ ~ (body[r].op \in Moves /\ a = body[r].from)
             /\ ~ (body[r].op = "Transfer" /\ a = body[r].to)
    BY <1>1, <1>9, UpdateBalanceValue DEF Moves
  <1> QED
    BY <1>6, <1>7, <1>8, <1>9 DEF Moves

LEMMA OverdraftNext ==
    ASSUME BankInv, NoNegativeTransfers, CreditsFit, NoOverdraft, [Next]_vars
    PROVE  NoOverdraft'
  <1>1. CASE UNCHANGED tables
    BY <1>1 DEF tables, NoOverdraft
  <1>2. ASSUME NEW r \in Request, pc[r] = "commit", Apply(r)
        PROVE  NoOverdraft'
    <2>1. /\ DOMAIN balances' = DOMAIN balances \cup Created(r)
          /\ \A a \in DOMAIN balances : balances'[a] = UpdateBalance(r, a)
          /\ \A a \in Created(r) : balances'[a] = 0
      BY <1>2, ApplyTables
    <2>2. \A a \in DOMAIN balances : UpdateBalance(r, a) >= 0
      BY <1>2, ExactUpdate
    <2> QED
      BY <2>1, <2>2 DEF NoOverdraft
  <1> QED
    BY <1>1, <1>2, OnlyCommitsWrite

(* No interleaving of Deposit, Withdraw and Transfer overdraws an account,   *)
(* as long as no credit leaves the range of int64 and no transfer is of a    *)
(* negative amount: the balance that is checked under the row lock is the    *)
(* balance that is replaced.                                                 *)
THEOREM NeverOverdrawn ==
    ASSUME NoNegativeTransfers
    PROVE  Spec /\ []CreditsFit => []NoOverdraft
  <1>1. Init => NoOverdraft
    BY BankAssumption DEF Init, NoOverdraft
  <1>2. BankInv /\ CreditsFit /\ NoOverdraft /\ [Next]_vars => NoOverdraft'
    BY OverdraftNext
  <1> QED
    BY <1>1, <1>2, BankInvariant, PTL DEF Spec

-----------------------------------------------------------------------------
(* The bank service implements the ledger: the initial states map to an      *)
(* initial state of BankLedger and every step maps to one of its steps or    *)
(* leaves the ledger unchanged.                                              *)

(* Transfers are between different accounts; the code does not test it.      *)
NoSelfTransfers == \A b \in Bodies : b.op = "Transfer" => b.from # b.to

(* What the ledger sees of a request.                                        *)
Shown(r) == IF answer[r] = OK THEN read[r] ELSE [from |-> 0, to |-> 0]

LEMMA OutcomeOf ==
    ASSUME NEW r \in Request
    PROVE  /\ answer[r] = None => Outcome(r) = "pending"
           /\ answer[r] = OK => Outcome(r) = "done"
           /\ answer[r] = ErrorCodeUnknown => Outcome(r) = "unknown"
           /\ answer[r] = ErrorCodeInvalidParams => Outcome(r) = "invalid"
           /\ answer[r] = ErrorCodeInvalidOperation => Outcome(r) = "impossible"
           /\ answer[r] = ErrorCodeDuplicateIdempotencyKey => Outcome(r) = "duplicate"
  BY BankAssumption
  DEF Outcome, OK, ErrorCodeUnknown, ErrorCodeInvalidParams,
      ErrorCodeInvalidOperation, ErrorCodeDuplicateIdempotencyKey

(* A step that answers nobody and leaves the tables alone.                   *)
LEMMA LedgerStutters ==
    ASSUME BankInv, UNCHANGED <<tables, body, answer>>,
           \A r \in Request : answer[r] = OK => read'[r] = read[r]
    PROVE  UNCHANGED Ledger!vars
  <1>1. UNCHANGED <<currencies, accounts, balances, idempotencyKeys, body, answer>>
    BY DEF tables
  <1>2. \A r \in Request : Outcome(r)' = Outcome(r)
    BY <1>1 DEF Outcome
  <1>3. \A r \in Request : Shown(r)' = Shown(r)
    BY <1>1 DEF Shown
  <1> QED
    BY <1>1, <1>2, <1>3 DEF Ledger!vars, Shown

(* A step that changes what the client of r was told, and no other's.        *)
LEMMA LedgerTells ==
    ASSUME NEW r \in Request, body' = body,
           \A q \in Request \ {r} :
               answer'[q] = answer[q] /\ (answer[q] = OK => read'[q] = read[q]),
           NEW what, Outcome(r)' = what,
           NEW numbers, Shown(r)' = numbers
    PROVE  Ledger!Tell(r, what, numbers)
  <1>1. \A q \in Request \ {r} : Outcome(q)' = Outcome(q) /\ Shown(q)' = Shown(q)
    BY DEF Outcome, Shown
  <1>2. [q \in Request |-> Outcome(q)]' =
          [[q \in Request |-> Outcome(q)] EXCEPT ![r] = what]
    BY <1>1
  <1>3. [q \in Request |-> Shown(q)]' =
          [[q \in Request |-> Shown(q)] EXCEPT ![r] = numbers]
    BY <1>1
  <1> QED
    BY <1>2, <1>3 DEF Ledger!Tell, Shown

-----------------------------------------------------------------------------
(* Answers without an effect.                                                *)

LEMMA LedgerPending ==
    ASSUME BankInv, NEW r \in Request, pc[r] \notin {"idle", "done"}
    PROVE  /\ answer[r] = None
           /\ Ledger!Pending(r)
  <1>1. answer[r] = None /\ body[r] # None
    BY BodyOf, BankAssumption DEF BankInv, RequestInv, PlaceInv
  <1> QED
    BY <1>1, OutcomeOf DEF Ledger!Pending

(* An error is the ledger's answer if its reason holds in the ledger.        *)
LEMMA RefusalStep ==
    ASSUME BankInv, NEW r \in Request, pc[r] \notin {"idle", "done"},
           NEW code \in ErrorCode, Finish(r, code), UNCHANGED <<tables, locals>>,
           code = ErrorCodeInvalidParams => ~ Ledger!Valid(body[r]),
           code = ErrorCodeInvalidOperation => ~ Ledger!Possible(body[r]),
           code = ErrorCodeDuplicateIdempotencyKey => body[r].key \in idempotencyKeys
    PROVE  Ledger!Answer(r)
  <1>1. /\ UNCHANGED <<currencies, accounts, balances, idempotencyKeys>>
        /\ UNCHANGED <<body, read>>
    BY DEF tables, locals
  <1>2. answer'[r] = code /\ \A q \in Request \ {r} : answer'[q] = answer[q]
    BY DEF Finish, BankInv, TypeOK
  <1>3. ASSUME NEW what, Outcome(r)' = what, NEW numbers, Shown(r)' = numbers
        PROVE  Ledger!Tell(r, what, numbers)
    BY <1>1, <1>2, <1>3, LedgerTells
  <1>4. Shown(r)' = Ledger!NoBalances
    BY <1>2, CodesDiffer DEF Shown, Ledger!NoBalances
  <1>5. /\ code = ErrorCodeUnknown => Outcome(r)' = "unknown"
        /\ code = ErrorCodeInvalidParams => Outcome(r)' = "invalid"
        /\ code = ErrorCodeInvalidOperation => Outcome(r)' = "impossible"
        /\ code = ErrorCodeDuplicateIdempotencyKey => Outcome(r)' = "duplicate"
    BY <1>2 DEF Outcome, OK, ErrorCodeUnknown, ErrorCodeInvalidParams,
       ErrorCodeInvalidOperation, ErrorCodeDuplicateIdempotencyKey
  <1>6. Ledger!Pending(r)
    BY LedgerPending
  <1> QED
    BY <1>1, <1>3, <1>4, <1>5, <1>6 DEF Ledger!Answer, ErrorCode

(* The same for Reject and Abort, by the error.                              *)
LEMMA ErrorAnswers ==
    ASSUME BankInv, NEW r \in Request, pc[r] \notin {"idle", "done"},
           NEW err, Reject(r, err) \/ Abort(r, err),
           CodeOf(err) = ErrorCodeInvalidParams => ~ Ledger!Valid(body[r]),
           CodeOf(err) = ErrorCodeInvalidOperation => ~ Ledger!Possible(body[r]),
           CodeOf(err) = ErrorCodeDuplicateIdempotencyKey =>
               body[r].key \in idempotencyKeys
    PROVE  Ledger!Answer(r)
  <1>1. Finish(r, CodeOf(err)) /\ UNCHANGED <<tables, locals>>
    BY DEF Reject, Abort
  <1> QED
    BY <1>1, CodeType, RefusalStep

LEMMA ErrorCodes ==
    /\ CodeOf("invalid parameters") = ErrorCodeInvalidParams
    /\ CodeOf("ErrIdempotencyKeyExists") = ErrorCodeDuplicateIdempotencyKey
    /\ \A err \in {"ErrCurrencyAlreadyExists", "ErrCurrencyNotFound",
                   "ErrAccountNotFound", "ErrInsufficientBalance",
                   "ErrTransferFromAccountNotFound", "ErrTransferToAccountNotFound",
                   "ErrTransferCurrencyMismatch"} :
           CodeOf(err) = ErrorCodeInvalidOperation
    /\ \A err \in {"cannot find balance", "database error", "deadlock detected"} :
           CodeOf(err) = ErrorCodeUnknown
    /\ ErrorCodeUnknown \notin {ErrorCodeInvalidParams, ErrorCodeInvalidOperation,
                                ErrorCodeDuplicateIdempotencyKey}
    /\ ErrorCodeInvalidParams # ErrorCodeInvalidOperation
    /\ ErrorCodeInvalidParams # ErrorCodeDuplicateIdempotencyKey
    /\ ErrorCodeInvalidOperation # ErrorCodeDuplicateIdempotencyKey
  <1>1. CodeOf("invalid parameters") = ErrorCodeInvalidParams
    BY DEF CodeOf
  <1>2. CodeOf("ErrIdempotencyKeyExists") = ErrorCodeDuplicateIdempotencyKey
    BY DEF CodeOf
  <1>3. \A err \in {"ErrCurrencyAlreadyExists", "ErrCurrencyNotFound",
                    "ErrAccountNotFound", "ErrInsufficientBalance",
                    "ErrTransferFromAccountNotFound", "ErrTransferToAccountNotFound",
                    "ErrTransferCurrencyMismatch"} :
            CodeOf(err) = ErrorCodeInvalidOperation
    BY DEF CodeOf
  <1>4. \A err \in {"cannot find balance", "database error", "deadlock detected"} :
            CodeOf(err) = ErrorCodeUnknown
    <2>1. CodeOf("cannot find balance") = ErrorCodeUnknown
      BY DEF CodeOf
    <2>2. CodeOf("database error") = ErrorCodeUnknown
      BY DEF CodeOf
    <2>3. CodeOf("deadlock detected") = ErrorCodeUnknown
      BY DEF CodeOf
    <2> QED
      BY <2>1, <2>2, <2>3
  <1>5. /\ ErrorCodeUnknown \notin {ErrorCodeInvalidParams, ErrorCodeInvalidOperation,
                                    ErrorCodeDuplicateIdempotencyKey}
        /\ ErrorCodeInvalidParams # ErrorCodeInvalidOperation
        /\ ErrorCodeInvalidParams # ErrorCodeDuplicateIdempotencyKey
        /\ ErrorCodeInvalidOperation # ErrorCodeDuplicateIdempotencyKey
    BY DEF ErrorCodeUnknown, ErrorCodeInvalidParams, ErrorCodeInvalidOperation,
           ErrorCodeDuplicateIdempotencyKey
  <1> QED
    BY <1>1, <1>2, <1>3, <1>4, <1>5

(* The three ways to refuse a request, and the one that says nothing.        *)
LEMMA Refusals ==
    ASSUME BankInv, NEW r \in Request, pc[r] \notin {"idle", "done"},
           NEW err, Reject(r, err) \/ Abort(r, err),
           \/ err \in {"cannot find balance", "database error", "deadlock detected"}
           \/ err = "invalid parameters" /\ ~ Ledger!Valid(body[r])
           \/ err = "ErrIdempotencyKeyExists" /\ body[r].key \in idempotencyKeys
           \/ /\ err \in {"ErrCurrencyAlreadyExists", "ErrCurrencyNotFound",
                          "ErrAccountNotFound", "ErrInsufficientBalance",
                          "ErrTransferFromAccountNotFound",
                          "ErrTransferToAccountNotFound",
                          "ErrTransferCurrencyMismatch"}
              /\ ~ Ledger!Possible(body[r])
    PROVE  Ledger!Answer(r)
  <1>1. /\ CodeOf(err) = ErrorCodeInvalidParams => ~ Ledger!Valid(body[r])
        /\ CodeOf(err) = ErrorCodeInvalidOperation => ~ Ledger!Possible(body[r])
        /\ CodeOf(err) = ErrorCodeDuplicateIdempotencyKey =>
             body[r].key \in idempotencyKeys
    BY ErrorCodes
  <1> QED
    BY <1>1, ErrorAnswers

-----------------------------------------------------------------------------
(* One lemma for each kind of step.                                          *)

LEMMA SubmitAsks ==
    ASSUME BankInv, NEW r \in Request, NEW b \in Bodies, Submit(r, b)
    PROVE  Ledger!Ask(r, b)
  <1>1. body[r] = None
    BY DEF Submit, BankInv, RequestInv, PlaceInv
  <1>2. /\ UNCHANGED <<currencies, accounts, balances, idempotencyKeys, answer, read>>
        /\ body' = [body EXCEPT ![r] = b]
    BY DEF Submit, Goto, tables
  <1>3. \A q \in Request : Outcome(q)' = Outcome(q) /\ Shown(q)' = Shown(q)
    BY <1>2 DEF Outcome, Shown
  <1> QED
    BY <1>1, <1>2, <1>3 DEF Ledger!Ask, Shown

LEMMA RetryAsksAgain ==
    ASSUME BankInv, NEW r \in Request, Retry(r)
    PROVE  Ledger!AskAgain(r)
  <1>1. /\ UNCHANGED <<currencies, accounts, balances, idempotencyKeys>>
        /\ UNCHANGED <<body, read>>
    BY DEF Retry, tables
  <1>2. answer'[r] = None /\ \A q \in Request \ {r} : answer'[q] = answer[q]
    BY DEF Retry, BankInv, TypeOK
  <1>3. Outcome(r) = "unknown"
    BY OutcomeOf DEF Retry
  <1>4. Outcome(r)' = "pending"
    BY <1>2, BankAssumption
    DEF Outcome, OK, ErrorCodeUnknown, ErrorCodeInvalidParams,
        ErrorCodeInvalidOperation, ErrorCodeDuplicateIdempotencyKey
  <1>5. Shown(r)' = Ledger!NoBalances
    BY <1>2, CodesDiffer DEF Shown, Ledger!NoBalances
  <1>6. Ledger!Tell(r, "pending", Ledger!NoBalances)
    BY <1>1, <1>2, <1>4, <1>5, LedgerTells
  <1> QED
    BY <1>1, <1>3, <1>6 DEF Ledger!AskAgain

(* A request that goes on.                                                   *)
LEMMA GotoStutters ==
    ASSUME BankInv, NEW r \in Request, pc[r] \notin {"idle", "done"},
           NEW label, Goto(r, label), UNCHANGED <<tables, body>>,
           \A q \in Request \ {r} : read'[q] = read[q]
    PROVE  UNCHANGED Ledger!vars
  <1>1. answer[r] # OK
    BY LedgerPending, CodesDiffer
  <1> QED
    BY <1>1, LedgerStutters DEF Goto

LEMMA ProceedStutters ==
    ASSUME BankInv, NEW r \in Request, pc[r] \notin {"idle", "done"},
           NEW label, Proceed(r, label)
    PROVE  UNCHANGED Ledger!vars
  <1>1. Goto(r, label) /\ UNCHANGED <<tables, body>> /\ read' = read
    BY DEF Proceed, locals
  <1> QED
    BY <1>1, GotoStutters

LEMMA RejectParamsAnswers ==
    ASSUME BankInv, NEW r \in Request, RejectParams(r)
    PROVE  Ledger!Answer(r)
  <1>1. pc[r] = "service" /\ InvalidParams(body[r]) /\ Reject(r, "invalid parameters")
    BY DEF RejectParams
  <1>2. body[r] \in Bodies
    BY <1>1, BodyOf
  <1>3. body[r].amount \in Int
    BY <1>2, BodyFields
  <1>4. ~ Ledger!Valid(body[r])
    <2>1. CASE ~ body[r].valid
      BY <2>1, Zenon DEF Ledger!Valid
    <2>2. CASE /\ body[r].op \in {"Deposit", "Withdraw", "Transfer"}
               /\ ~ (body[r].amount > 0)
      BY <2>2, Zenon DEF Ledger!Valid, Ledger!Moves
    <2>3. CASE \/ body[r].op \in {"Deposit", "Withdraw"} /\ body[r].amount <= 0
               \/ body[r].op = "Transfer" /\ body[r].amount = 0
      BY <1>3, <2>2, <2>3
    <2> QED
      BY <1>1, <2>1, <2>3, Zenon DEF InvalidParams
  <1> QED
    BY <1>1, <1>4, Refusals

(* What the code accepts makes sense, if transfers are not negative.         *)
LEMMA AcceptedIsValid ==
    ASSUME NoNegativeTransfers, NEW b \in Bodies, ~ InvalidParams(b)
    PROVE  Ledger!Valid(b)
  <1>1. b.amount \in Int
    BY BodyFields
  <1> QED
    BY <1>1 DEF InvalidParams, Ledger!Valid, Ledger!Moves, NoNegativeTransfers

LEMMA GetCurrenciesAnswers ==
    ASSUME BankInv, NoNegativeTransfers, NEW r \in Request, GetCurrencies(r)
    PROVE  Ledger!Answer(r)
  <1>1. /\ pc[r] = "service"
        /\ body[r].op = "GetCurrencies"
        /\ ~ InvalidParams(body[r])
        /\ Finish(r, OK)
        /\ UNCHANGED <<currencies, accounts, balances, idempotencyKeys, body, read>>
    BY DEF GetCurrencies, Serves, tables, locals
  <1>2. /\ answer'[r] = OK
        /\ \A q \in Request \ {r} : answer'[q] = answer[q]
    BY <1>1 DEF Finish, BankInv, TypeOK
  <1>3. body[r] \in Bodies
    BY <1>1, BodyOf
  <1>4. read[r] = [from |-> 0, to |-> 0]
    BY <1>1 DEF BankInv, TypeOK, RequestInv, ReadInv, Moves
  <1>5. Shown(r)' = Ledger!BalancesOf(body[r])
    BY <1>1, <1>2, <1>4 DEF Shown, Ledger!BalancesOf, Ledger!Moves
  <1>6. Outcome(r)' = "done"
    BY <1>2, CodesDiffer
    DEF Outcome, OK, ErrorCodeUnknown, ErrorCodeInvalidParams,
        ErrorCodeInvalidOperation, ErrorCodeDuplicateIdempotencyKey
  <1>7. Ledger!Tell(r, "done", Ledger!BalancesOf(body[r]))
    <2>1. PICK numbers : numbers = Ledger!BalancesOf(body[r])
      OBVIOUS
    <2>2. Ledger!Tell(r, "done", numbers)
      BY <1>1, <1>2, <1>5, <1>6, <2>1, LedgerTells
    <2> QED
      BY <2>1, <2>2 DEF Ledger!Tell
  <1>8. Ledger!Possible(body[r])
    BY <1>1 DEF Ledger!Possible, Ledger!Moves
  <1>9. Ledger!Valid(body[r]) /\ Ledger!Pending(r)
    BY <1>1, <1>3, AcceptedIsValid, LedgerPending
  <1> QED
    BY <1>1, <1>7, <1>8, <1>9 DEF Ledger!Answer, Ledger!Reads

LEMMA GetAccountInfoAnswers ==
    ASSUME BankInv, NoNegativeTransfers, NEW r \in Request, GetAccountInfo(r)
    PROVE  Ledger!Answer(r)
  <1> DEFINE b == body[r]
             row == GetAccountInfoByID(b.from)
  <1>1. pc[r] = "service" /\ b.op = "GetAccountInfo" /\ ~ InvalidParams(b)
    BY DEF GetAccountInfo, Serves
  <1>2. TypeOK /\ b \in Bodies
    BY <1>1, BodyOf DEF BankInv
  <1>3. row = None <=> b.from \notin DOMAIN accounts
    <2>1. \A a \in DOMAIN accounts :
            /\ a \in DOMAIN balances
            /\ accounts[a] \in currencies
            /\ balances[a] \in Int
      BY <1>2, BankAssumption DEF TypeOK, BankInv, AccountsHaveCurrency
    <2> QED
      BY <2>1, BankAssumption DEF GetAccountInfoByID
  <1>4. CASE row = None
    <2>1. ~ Ledger!Possible(b)
      BY <1>1, <1>3, <1>4 DEF Ledger!Possible
    <2>2. Reject(r, "ErrAccountNotFound")
      BY <1>4 DEF GetAccountInfo
    <2> QED
      BY <1>1, <2>1, <2>2, Refusals
  <1>5. CASE row # None
    <2>1. /\ row = balances[b.from]
          /\ b.from \in DOMAIN accounts
      BY <1>3, <1>5 DEF GetAccountInfoByID
    <2>2. /\ read' = [read EXCEPT ![r].from = balances[b.from]]
          /\ Finish(r, OK)
          /\ UNCHANGED <<currencies, accounts, balances, idempotencyKeys, body>>
      BY <1>5, <2>1 DEF GetAccountInfo, tables
    <2>3. /\ answer'[r] = OK
          /\ \A q \in Request \ {r} : answer'[q] = answer[q] /\ read'[q] = read[q]
      BY <1>2, <2>2 DEF Finish, TypeOK
    <2>4. read[r].to = 0
      BY <1>1 DEF BankInv, RequestInv, ReadInv
    <2>5. read'[r] = [from |-> balances[b.from], to |-> 0]
      BY <1>2, <2>2, <2>4 DEF TypeOK
    <2>6. Shown(r)' = Ledger!BalancesOf(b)
      BY <1>1, <2>3, <2>5 DEF Shown, Ledger!BalancesOf, Ledger!Moves
    <2>7. Outcome(r)' = "done"
      BY <2>3, CodesDiffer
      DEF Outcome, OK, ErrorCodeUnknown, ErrorCodeInvalidParams,
          ErrorCodeInvalidOperation, ErrorCodeDuplicateIdempotencyKey
    <2>8. Ledger!Tell(r, "done", Ledger!BalancesOf(b))
      <3>1. PICK numbers : numbers = Ledger!BalancesOf(b)
        OBVIOUS
      <3>2. Ledger!Tell(r, "done", numbers)
        BY <2>2, <2>3, <2>6, <2>7, <3>1, LedgerTells
      <3> QED
        BY <3>1, <3>2 DEF Ledger!Tell
    <2>9. Ledger!Possible(b)
      BY <1>1, <2>1 DEF Ledger!Possible, Ledger!Moves
    <2>10. Ledger!Valid(b) /\ Ledger!Pending(r)
      BY <1>1, <1>2, AcceptedIsValid, LedgerPending
    <2> QED
      BY <1>1, <2>2, <2>8, <2>9, <2>10 DEF Ledger!Answer, Ledger!Reads
  <1> QED
    BY <1>4, <1>5

LEMMA CreateAccountAnswers ==
    ASSUME BankInv, NEW r \in Request, CreateAccount(r)
    PROVE  Ledger!Answer(r) \/ UNCHANGED Ledger!vars
  <1>1. pc[r] = "service" /\ body[r].op = "CreateAccount"
    BY DEF CreateAccount, Serves
  <1>2. CASE body[r].currency \notin currencies
    <2>1. ~ Ledger!Possible(body[r])
      BY <1>1, <1>2 DEF Ledger!Possible
    <2>2. Reject(r, "ErrCurrencyNotFound")
      BY <1>2 DEF CreateAccount, CurrencyExists
    <2> QED
      BY <1>1, <2>1, <2>2, Refusals
  <1>3. CASE body[r].currency \in currencies
    <2>1. Goto(r, "begin") /\ UNCHANGED <<tables, body>> /\ read' = read
      BY <1>3 DEF CreateAccount, CurrencyExists
    <2> QED
      BY <1>1, <2>1, GotoStutters
  <1> QED
    BY <1>2, <1>3

LEMMA TransferAnswers ==
    ASSUME BankInv, NEW r \in Request, Transfer(r) \/ TransferToCurrency(r)
    PROVE  Ledger!Answer(r) \/ UNCHANGED Ledger!vars
  <1> DEFINE b == body[r]
  <1>1. /\ pc[r] \in {"service", "toCurrency"}
        /\ b.op = "Transfer"
    BY DEF Transfer, TransferToCurrency, Serves, BankInv, RequestInv, PlaceInv
  <1>2. \A a : GetAccountCurrencyID(a) = None <=> a \notin DOMAIN accounts
    BY BankAssumption DEF GetAccountCurrencyID, BankInv, TypeOK
  <1>3. CASE Transfer(r)
    <2>1. CASE GetAccountCurrencyID(b.from) = None
      <3>1. ~ Ledger!Possible(b)
        BY <1>1, <1>2, <2>1 DEF Ledger!Possible, Ledger!Moves
      <3>2. Reject(r, "ErrTransferFromAccountNotFound")
        BY <1>3, <2>1 DEF Transfer
      <3> QED
        BY <1>1, <3>1, <3>2, Refusals
    <2>2. CASE GetAccountCurrencyID(b.from) # None
      <3>1. Proceed(r, "toCurrency")
        BY <1>3, <2>2 DEF Transfer
      <3> QED
        BY <1>1, <3>1, ProceedStutters
    <2> QED
      BY <2>1, <2>2
  <1>4. CASE TransferToCurrency(r)
    <2>1. b.from \in DOMAIN accounts
      BY <1>4 DEF TransferToCurrency, BankInv, RequestInv, QueryInv
    <2>2. CASE GetAccountCurrencyID(b.to) = None
      <3>1. ~ Ledger!Possible(b)
        BY <1>1, <1>2, <2>2 DEF Ledger!Possible
      <3>2. GetAccountCurrencyID(b.from) # None
        BY <1>2, <2>1
      <3>3. Reject(r, "ErrTransferToAccountNotFound")
        BY <1>4, <2>2, <3>2 DEF TransferToCurrency
      <3> QED
        BY <1>1, <3>1, <3>3, Refusals
    <2>3. CASE GetAccountCurrencyID(b.to) \notin {None, GetAccountCurrencyID(b.from)}
      <3>1. /\ b.to \in DOMAIN accounts
            /\ accounts[b.from] # accounts[b.to]
        BY <1>2, <2>1, <2>3 DEF GetAccountCurrencyID
      <3>2. ~ Ledger!Possible(b)
        BY <1>1, <3>1 DEF Ledger!Possible
      <3>3. Reject(r, "ErrTransferCurrencyMismatch")
        BY <1>4, <2>3 DEF TransferToCurrency
      <3> QED
        BY <1>1, <3>2, <3>3, Refusals
    <2>4. CASE /\ GetAccountCurrencyID(b.to) # None
               /\ GetAccountCurrencyID(b.to) = GetAccountCurrencyID(b.from)
      <3>1. Proceed(r, "begin")
        BY <1>4, <2>4 DEF TransferToCurrency
      <3> QED
        BY <1>1, <3>1, ProceedStutters
    <2> QED
      BY <2>2, <2>3, <2>4
  <1> QED
    BY <1>3, <1>4

LEMMA InsertCurrencyAnswers ==
    ASSUME BankInv, NEW r \in Request, InsertCurrency(r)
    PROVE  Ledger!Answer(r) \/ UNCHANGED Ledger!vars
  <1>1. pc[r] = "insertCurrency" /\ body[r].op = "CreateCurrency"
    BY DEF InsertCurrency, BankInv, RequestInv, PlaceInv, InTx
  <1>2. CASE body[r].currency \in currencies
    <2>1. ~ Ledger!Possible(body[r])
      BY <1>1, <1>2 DEF Ledger!Possible
    <2>2. Abort(r, "ErrCurrencyAlreadyExists")
      BY <1>2 DEF InsertCurrency
    <2> QED
      BY <1>1, <2>1, <2>2, Refusals
  <1>3. CASE body[r].currency \notin currencies
    <2>1. Goto(r, "commit") /\ UNCHANGED <<tables, body>> /\ read' = read
      BY <1>3 DEF InsertCurrency, locals
    <2> QED
      BY <1>1, <2>1, GotoStutters
  <1> QED
    BY <1>2, <1>3

LEMMA InsertIdempotencyKeyAnswers ==
    ASSUME BankInv, NEW r \in Request, InsertIdempotencyKey(r)
    PROVE  Ledger!Answer(r) \/ UNCHANGED Ledger!vars
  <1>1. pc[r] = "key"
    BY DEF InsertIdempotencyKey
  <1>2. CASE body[r].key \in idempotencyKeys
    <2>1. Abort(r, "ErrIdempotencyKeyExists")
      BY <1>2 DEF InsertIdempotencyKey
    <2> QED
      BY <1>1, <1>2, <2>1, Refusals
  <1>3. CASE body[r].key \notin idempotencyKeys
    <2>1. PICK label : Goto(r, label)
      BY <1>3 DEF InsertIdempotencyKey
    <2>2. UNCHANGED <<tables, body>> /\ read' = read
      BY <1>3 DEF InsertIdempotencyKey, locals
    <2> QED
      BY <1>1, <2>1, <2>2, GotoStutters
  <1> QED
    BY <1>2, <1>3

(* What the code finds insufficient is less than the amount.                 *)
LEMMA InsufficientIsImpossible ==
    ASSUME BankInv, NoOverdraft, NEW b \in Bodies, ~ InvalidParams(b),
           b.op \in {"Withdraw", "Transfer"}, b.from \in DOMAIN balances,
           InsufficientBalance(b, balances[b.from])
    PROVE  ~ Ledger!Possible(b)
  <1> DEFINE balance == balances[b.from]
  <1>1. balance \in -Half..Half - 1 /\ balance >= 0 /\ Half \in Nat
    BY BankAssumption DEF BankInv, TypeOK, NoOverdraft
  <1>2. b.amount \in Int /\ b.amount \in -Half..Half - 1
    BY BodyFields
  <1>3. balance \in Int /\ b.amount \in Int
    BY <1>1, <1>2
  <1>4. balance < b.amount
    <2>1. CASE b.op = "Withdraw"
      <3>1. b.amount > 0
        BY <1>2, <2>1 DEF InvalidParams
      <3>2. balance - b.amount \in -Half..Half - 1
        BY <1>1, <1>2, <3>1
      <3>3. Int64(balance - b.amount) = balance - b.amount
        BY <3>2, Int64Range
      <3>4. Int64(balance - b.amount) < 0
        BY <2>1 DEF InsufficientBalance
      <3> QED
        BY <1>3, <3>3, <3>4
    <2>2. CASE b.op = "Transfer"
      BY <2>2 DEF InsufficientBalance
    <2> QED
      BY <2>1, <2>2
  <1>5. ~ (balance >= b.amount)
    BY <1>3, <1>4
  <1> QED
    BY <1>5 DEF Ledger!Possible

LEMMA LockFromAnswers ==
    ASSUME BankInv, NoOverdraft, NEW r \in Request, LockFrom(r)
    PROVE  Ledger!Answer(r) \/ UNCHANGED Ledger!vars
  <1> DEFINE b == body[r]
  <1>1. pc[r] = "lockFrom" /\ b.op \in Moves /\ ~ InvalidParams(b)
    BY DEF LockFrom, BankInv, RequestInv, PlaceInv, InTx
  <1>2. b \in Bodies
    BY <1>1, BodyOf
  <1>3. CASE b.from \notin DOMAIN balances /\ b.op = "Transfer"
    <2>1. Abort(r, "cannot find balance")
      BY <1>3 DEF LockFrom
    <2> QED
      BY <1>1, <2>1, Refusals
  <1>4. CASE b.from \notin DOMAIN balances /\ b.op # "Transfer"
    <2>1. Abort(r, "ErrAccountNotFound")
      BY <1>4 DEF LockFrom
    <2>2. b.from \notin DOMAIN accounts
      BY <1>4 DEF BankInv, TypeOK
    <2>3. ~ Ledger!Possible(b)
      BY <1>1, <2>2 DEF Ledger!Possible, Ledger!Moves, Moves
    <2> QED
      BY <1>1, <2>1, <2>3, Refusals
  <1>5. CASE b.from \in DOMAIN balances /\ InsufficientBalance(b, balances[b.from])
    <2>1. Abort(r, "ErrInsufficientBalance")
      BY <1>5 DEF LockFrom
    <2>2. b.op \in {"Withdraw", "Transfer"}
      BY <1>5 DEF InsufficientBalance
    <2>3. ~ Ledger!Possible(b)
      BY <1>1, <1>2, <1>5, <2>2, InsufficientIsImpossible
    <2> QED
      BY <1>1, <2>1, <2>3, Refusals
  <1>6. CASE b.from \in DOMAIN balances /\ ~ InsufficientBalance(b, balances[b.from])
    <2>1. GetBalanceWithLock(r, b.from, "from")
      BY <1>6 DEF LockFrom
    <2>2. PICK label : Goto(r, label)
      BY <1>6 DEF LockFrom
    <2>3. UNCHANGED <<tables, body>> /\ \A q \in Request \ {r} : read'[q] = read[q]
      BY <2>1 DEF GetBalanceWithLock, BankInv, TypeOK
    <2> QED
      BY <1>1, <2>2, <2>3, GotoStutters
  <1> QED
    BY <1>3, <1>4, <1>5, <1>6

LEMMA LockToAnswers ==
    ASSUME BankInv, NEW r \in Request, LockTo(r)
    PROVE  Ledger!Answer(r) \/ UNCHANGED Ledger!vars
  <1>1. pc[r] = "lockTo"
    BY DEF LockTo
  <1>2. CASE body[r].to \notin DOMAIN balances
    <2>1. Abort(r, "cannot find balance")
      BY <1>2 DEF LockTo
    <2> QED
      BY <1>1, <2>1, Refusals
  <1>3. CASE body[r].to \in DOMAIN balances
    <2>1. GetBalanceWithLock(r, body[r].to, "to") /\ Goto(r, "commit")
      BY <1>3 DEF LockTo
    <2>2. UNCHANGED <<tables, body>> /\ \A q \in Request \ {r} : read'[q] = read[q]
      BY <2>1 DEF GetBalanceWithLock, BankInv, TypeOK
    <2> QED
      BY <1>1, <2>1, <2>2, GotoStutters
  <1> QED
    BY <1>2, <1>3

LEMMA FailureAnswers ==
    ASSUME BankInv, NEW r \in Request, Fail(r) \/ DeadlockVictim(r)
    PROVE  Ledger!Answer(r)
  <1>1. CASE Fail(r)
    BY <1>1, Refusals DEF Fail
  <1>2. CASE DeadlockVictim(r)
    <2>1. Holder(r) \in Request
      BY <1>2 DEF DeadlockVictim, Deadlocked
    <2>2. pc[r] \in {"idle", "done"} => Holder(r) = None
      BY DEF Holder
    <2>3. pc[r] \notin {"idle", "done"}
      BY <2>1, <2>2, BankAssumption
    <2> QED
      BY <1>2, <2>3, Refusals DEF DeadlockVictim
  <1> QED
    BY <1>1, <1>2

-----------------------------------------------------------------------------
(* COMMIT is the moment at which the request takes effect.                   *)

(* The locks keep the request possible until COMMIT.                         *)
LEMMA CommitIsPossible ==
    ASSUME BankInv, NoNegativeTransfers, NoSelfTransfers, CreditsFit, NoOverdraft,
           NEW r \in Request, pc[r] = "commit"
    PROVE  /\ Ledger!Possible(body[r])
           /\ Ledger!Valid(body[r])
           /\ body[r].key \notin idempotencyKeys
           /\ body[r].op \notin Ledger!Reads
  <1> DEFINE b == body[r]
  <1>1. /\ b \in Bodies
        /\ b.op \in Writes
        /\ b.op = "CreateAccount" => b.currency \in currencies
        /\ b.op = "CreateCurrency" => b.key = None /\ b.currency \notin currencies
        /\ b.op # "CreateCurrency" => b.key \notin idempotencyKeys
        /\ b.op \in Moves => b.from \in DOMAIN balances
        /\ b.op = "Transfer" => b.to \in DOMAIN balances
    BY Committing DEF Holds
  <1>2. DOMAIN balances = DOMAIN accounts
    BY DEF BankInv, TypeOK
  <1>3. ~ InvalidParams(b)
    BY DEF BankInv, RequestInv, PlaceInv, InTx
  <1>4. b.op = "Transfer" => b.from # b.to /\ accounts[b.from] = accounts[b.to]
    BY <1>1 DEF BankInv, RequestInv, QueryInv, InTx, NoSelfTransfers
  <1>5. b.op \in {"Withdraw", "Transfer"} => balances[b.from] >= b.amount
    BY <1>1, <1>4, ExactUpdate DEF Moves
  <1>6. Ledger!Possible(b)
    BY <1>1, <1>2, <1>4, <1>5 DEF Ledger!Possible, Ledger!Moves, Moves, Writes, Keyed
  <1>7. Ledger!Valid(b)
    BY <1>1, <1>3, AcceptedIsValid
  <1>8. None \notin idempotencyKeys
    BY BankAssumption DEF BankInv, TypeOK
  <1>9. b.op \notin Ledger!Reads
    BY <1>1 DEF Ledger!Reads, Writes, Keyed, Moves
  <1> QED
    BY <1>1, <1>6, <1>7, <1>8, <1>9

(* UpdateBalance writes the change that the ledger prescribes.               *)
LEMMA UpdateIsChange ==
    ASSUME BankInv, NoNegativeTransfers, NoSelfTransfers, CreditsFit, NoOverdraft,
           NEW r \in Request, pc[r] = "commit", NEW a \in DOMAIN balances
    PROVE  UpdateBalance(r, a) = balances[a] + Ledger!Change(body[r], a)
  <1> DEFINE b == body[r]
  <1>1. /\ b \in Bodies
        /\ balances[a] \in Int
    BY Committing, BankAssumption DEF BankInv, TypeOK
  <1>2. b.amount \in Int /\ (b.op = "Transfer" => b.from # b.to)
    BY <1>1, BodyFields DEF NoSelfTransfers
  <1>3. CASE b.op = "Deposit" /\ a = b.from
    <2>1. Ledger!Change(b, a) = b.amount
      BY <1>3 DEF Ledger!Change
    <2> QED
      BY <1>3, <2>1, ExactUpdate
  <1>4. CASE b.op \in {"Withdraw", "Transfer"} /\ a = b.from
    <2>1. Ledger!Change(b, a) = -b.amount
      BY <1>2, <1>4 DEF Ledger!Change
    <2>2. UpdateBalance(r, a) = balances[a] - b.amount
      BY <1>2, <1>4, ExactUpdate
    <2> QED
      BY <1>1, <1>2, <2>1, <2>2
  <1>5. CASE b.op = "Transfer" /\ a = b.to
    <2>1. Ledger!Change(b, a) = b.amount
      BY <1>2, <1>5 DEF Ledger!Change
    <2> QED
      BY <1>5, <2>1, ExactUpdate
  <1>6. CASE /\ ~ (b.op \in Moves /\ a = b.from)
             /\ ~ (b.op = "Transfer" /\ a = b.to)
    <2>1. Ledger!Change(b, a) = 0
      BY <1>6 DEF Ledger!Change, Moves
    <2>2. UpdateBalance(r, a) = balances[a]
      BY <1>6, UpdateBalanceValue
    <2> QED
      BY <1>1, <2>1, <2>2
  <1> QED
    BY <1>3, <1>4, <1>5, <1>6 DEF Moves

(* The balances that the committing request has read are the present ones.   *)
LEMMA CommitShows ==
    ASSUME BankInv, NEW r \in Request, pc[r] = "commit"
    PROVE  read[r] = Ledger!BalancesOf(body[r])
  <1> DEFINE b == body[r]
  <1>1. /\ b \in Bodies
        /\ b.op \in Writes
        /\ b.op \in Moves => read[r].from = balances[b.from]
        /\ b.op = "Transfer" => read[r].to = balances[b.to]
    BY Committing DEF Holds
  <1>2. /\ b.op \notin Moves \cup {"GetAccountInfo"} => read[r].from = 0
        /\ b.op # "Transfer" => read[r].to = 0
    BY DEF BankInv, RequestInv, ReadInv
  <1>3. read[r] \in [from : Int, to : Int]
    BY DEF BankInv, TypeOK
  <1>4. read[r] = [from |-> read[r].from, to |-> read[r].to]
    BY <1>3
  <1>5. read[r].from = IF b.op \in Ledger!Moves \cup {"GetAccountInfo"}
                       THEN balances[b.from] ELSE 0
    BY <1>1, <1>2 DEF Ledger!Moves, Moves, Writes, Keyed
  <1>6. read[r].to = IF b.op = "Transfer" THEN balances[b.to] ELSE 0
    BY <1>1, <1>2
  <1> QED
    BY <1>4, <1>5, <1>6 DEF Ledger!BalancesOf

LEMMA CommitPerforms ==
    ASSUME BankInv, NoNegativeTransfers, NoSelfTransfers, CreditsFit, NoOverdraft,
           NEW r \in Request, pc[r] = "commit", Apply(r),
           NEW code \in {OK, ErrorCodeUnknown}, Finish(r, code)
    PROVE  Ledger!Perform(r)
  <1> DEFINE b == body[r]
  <1>1. /\ currencies' = currencies \cup
             (IF b.op = "CreateCurrency" THEN {b.currency} ELSE {})
        /\ idempotencyKeys' = idempotencyKeys \cup ({b.key} \ {None})
        /\ body' = body
        /\ read' = read
    BY DEF Apply, locals
  <1>2. /\ accounts' = [a \in DOMAIN accounts \cup Created(r) |->
                           IF a \in Created(r) THEN b.currency ELSE accounts[a]]
        /\ balances' = [a \in DOMAIN balances \cup Created(r) |->
                           IF a \in Created(r) THEN 0
                           ELSE balances[a] + Ledger!Change(b, a)]
    <2>1. /\ accounts' = [a \in DOMAIN accounts \cup Created(r) |->
                             IF a \in Created(r) THEN b.currency ELSE accounts[a]]
          /\ balances' = [a \in DOMAIN balances \cup Created(r) |->
                             IF a \in Created(r) THEN 0 ELSE UpdateBalance(r, a)]
      BY DEF Apply, Created
    <2>2. \A a \in DOMAIN balances :
            UpdateBalance(r, a) = balances[a] + Ledger!Change(b, a)
      BY UpdateIsChange
    <2> QED
      BY <2>1, <2>2
  <1>3. Created(r) \in IF b.op = "CreateAccount"
                       THEN {{a} : a \in Account \ DOMAIN accounts} ELSE {{}}
    <2>1. Created(r) \subseteq Account \ DOMAIN accounts
      BY Committing
    <2> QED
      BY <2>1 DEF Created
  <1>4. /\ answer'[r] = code
        /\ \A q \in Request \ {r} : answer'[q] = answer[q]
    BY DEF Finish, BankInv, TypeOK
  <1>5. \/ Ledger!Tell(r, "done", Ledger!BalancesOf(b))
        \/ Ledger!Tell(r, "unknown", Ledger!NoBalances)
    <2>1. CASE code = OK
      <3>1. Outcome(r)' = "done"
        BY <1>4, <2>1, CodesDiffer
        DEF Outcome, OK, ErrorCodeUnknown, ErrorCodeInvalidParams,
            ErrorCodeInvalidOperation, ErrorCodeDuplicateIdempotencyKey
      <3>2. PICK numbers : numbers = Ledger!BalancesOf(b)
        OBVIOUS
      <3>3. Shown(r)' = numbers
        BY <1>1, <1>4, <2>1, <3>2, CommitShows DEF Shown
      <3>4. Ledger!Tell(r, "done", numbers)
        BY <1>1, <1>4, <3>1, <3>3, LedgerTells
      <3> QED
        BY <3>2, <3>4 DEF Ledger!Tell
    <2>2. CASE code = ErrorCodeUnknown
      <3>1. Outcome(r)' = "unknown"
        BY <1>4, <2>2, CodesDiffer
        DEF Outcome, OK, ErrorCodeUnknown, ErrorCodeInvalidParams,
            ErrorCodeInvalidOperation, ErrorCodeDuplicateIdempotencyKey
      <3>2. Shown(r)' = Ledger!NoBalances
        BY <1>4, <2>2, CodesDiffer DEF Shown, Ledger!NoBalances, ErrorCode
      <3> QED
        BY <1>1, <1>4, <3>1, <3>2, LedgerTells
    <2> QED
      BY <2>1, <2>2
  <1>6. /\ Ledger!Possible(b)
        /\ Ledger!Valid(b)
        /\ b.key \notin idempotencyKeys
        /\ b.op \notin Ledger!Reads
    BY CommitIsPossible
  <1>7. Ledger!Pending(r)
    BY LedgerPending
  <1> QED
    BY <1>1, <1>2, <1>3, <1>5, <1>6, <1>7 DEF Ledger!Perform

-----------------------------------------------------------------------------

LEMMA AdvanceMaps ==
    ASSUME BankInv, NoNegativeTransfers, NoSelfTransfers, CreditsFit, NoOverdraft,
           NEW r \in Request, Advance(r)
    PROVE  Ledger!Answer(r) \/ Ledger!Perform(r) \/ UNCHANGED Ledger!vars
  <1>1. CASE RejectParams(r) \/ GetCurrencies(r) \/ GetAccountInfo(r)
    BY <1>1, RejectParamsAnswers, GetCurrenciesAnswers, GetAccountInfoAnswers
  <1>2. CASE CreateAccount(r) \/ Transfer(r) \/ TransferToCurrency(r)
    BY <1>2, CreateAccountAnswers, TransferAnswers
  <1>3. CASE CreateCurrency(r) \/ DepositOrWithdraw(r) \/ Begin(r)
    <2>1. PICK label : pc[r] \notin {"idle", "done"} /\ Proceed(r, label)
      BY <1>3 DEF CreateCurrency, DepositOrWithdraw, Begin, Serves
    <2> QED
      BY <2>1, ProceedStutters
  <1>4. CASE InsertCurrency(r) \/ InsertIdempotencyKey(r)
    BY <1>4, InsertCurrencyAnswers, InsertIdempotencyKeyAnswers
  <1>5. CASE LockFrom(r) \/ LockTo(r)
    BY <1>5, LockFromAnswers, LockToAnswers
  <1>6. CASE Commit(r)
    BY <1>6, CommitPerforms DEF Commit
  <1> QED
    BY <1>1, <1>2, <1>3, <1>4, <1>5, <1>6 DEF Advance

LEMMA NextMaps ==
    ASSUME BankInv, NoNegativeTransfers, NoSelfTransfers, CreditsFit, NoOverdraft,
           [Next]_vars
    PROVE  [Ledger!Next]_(Ledger!vars)
  <1>1. ASSUME NEW r \in Request, NEW b \in Bodies, Submit(r, b)
        PROVE  Ledger!Next
    BY <1>1, SubmitAsks DEF Ledger!Next
  <1>2. ASSUME NEW r \in Request, Retry(r)
        PROVE  Ledger!Next
    BY <1>2, RetryAsksAgain DEF Ledger!Next
  <1>3. ASSUME NEW r \in Request, Advance(r)
        PROVE  Ledger!Next \/ UNCHANGED Ledger!vars
    BY <1>3, AdvanceMaps DEF Ledger!Next
  <1>4. ASSUME NEW r \in Request, CommitUnseen(r)
        PROVE  Ledger!Next
    BY <1>4, CommitPerforms DEF CommitUnseen, Ledger!Next
  <1>5. ASSUME NEW r \in Request, Fail(r) \/ DeadlockVictim(r)
        PROVE  Ledger!Next
    BY <1>5, FailureAnswers DEF Ledger!Next
  <1>6. CASE Terminated \/ UNCHANGED vars
    <2>1. UNCHANGED <<tables, body, answer>> /\ read' = read
      BY <1>6 DEF Terminated, vars, locals
    <2> QED
      BY <2>1, LedgerStutters
  <1> QED
    BY <1>1, <1>2, <1>3, <1>4, <1>5, <1>6 DEF Next

LEMMA InitMaps == Init => Ledger!Init
  <1> SUFFICES ASSUME Init PROVE Ledger!Init
    OBVIOUS
  <1>1. \A r \in Request : answer[r] = None
    BY DEF Init
  <1>2. \A r \in Request : Outcome(r) = "pending" /\ Shown(r) = Ledger!NoBalances
    BY <1>1, OutcomeOf, CodesDiffer DEF Shown, Ledger!NoBalances
  <1> QED
    BY <1>2 DEF Init, Ledger!Init, Shown

(* The service implements the ledger: under every interleaving, failure,     *)
(* lost answer and retry, a request takes effect at its COMMIT or is refused *)
(* for a reason that holds at that moment, and the balances it reports are   *)
(* the present ones.  Transfers must be of positive amounts between          *)
(* different accounts, which the code does not test (it refuses only 0), and *)
(* no credit may leave the range of int64.                                   *)
THEOREM ServiceImplementsLedger ==
    ASSUME NoNegativeTransfers, NoSelfTransfers
    PROVE  Spec /\ []CreditsFit => ImplementsLedger
  <1>1. Init => Ledger!Init
    BY InitMaps
  <1>2. /\ BankInv
        /\ CreditsFit
        /\ NoOverdraft
        /\ [Next]_vars
        => [Ledger!Next]_(Ledger!vars)
    BY NextMaps
  <1>3. Spec /\ []CreditsFit => []NoOverdraft
    BY NeverOverdrawn
  <1> QED
    BY <1>1, <1>2, <1>3, BankInvariant, PTL DEF Spec, ImplementsLedger, Ledger!Spec

-----------------------------------------------------------------------------
(* Sums.  MapThenSumSet folds over a set in the order of CHOOSE; what it     *)
(* computes is found by induction over the size of the set, stated as a      *)
(* property of a set of numbers because that needs no operator parameter.    *)

(* Induction, as statements about sets.                                      *)
LEMMA NatSetInduction ==
    ASSUME NEW A, 0 \in A, \A n \in Nat : n \in A => n + 1 \in A
    PROVE  \A n \in Nat : n \in A
  <1> SUFFICES ASSUME \E n \in Nat : n \notin A PROVE FALSE
    OBVIOUS
  <1> DEFINE B == {n \in Nat : n \notin A}
  <1>1. B # {} /\ B \subseteq Nat
    OBVIOUS
  <1>2. PICK v \in B : \A y \in B : ~ (<<y, v>> \in OpToRel(<, Nat))
    BY <1>1, WFMin, NatLessThanWellFounded
  <1>3. v \in Nat /\ v # 0 /\ v - 1 \in Nat /\ v - 1 < v
    OBVIOUS
  <1>4. v - 1 \in B
    <2>1. v - 1 \in A => v \in A
      BY <1>3
    <2> QED
      BY <1>3, <2>1
  <1>5. <<v - 1, v>> \in OpToRel(<, Nat)
    <2>1. OpToRel(<, Nat) = {ss \in Nat \X Nat : ss[1] < ss[2]}
      BY DEF OpToRel
    <2> QED
      BY <1>3, <2>1
  <1> QED
    BY <1>2, <1>4, <1>5

(* What holds of no elements, and of one more, holds of a finite set.        *)
LEMMA SubsetInduction ==
    ASSUME NEW S, IsFiniteSet(S), NEW G, {} \in G,
           \A T \in SUBSET S : \A x \in S \ T : T \in G => T \cup {x} \in G
    PROVE  S \in G
  <1> DEFINE A == {n \in Nat : \A T \in SUBSET S : Cardinality(T) = n => T \in G}
  <1>1. 0 \in A
    <2>1. \A T \in SUBSET S : Cardinality(T) = 0 => T = {}
      BY FS_EmptySet, FS_Subset
    <2> QED
      BY <2>1
  <1>2. ASSUME NEW n \in Nat, n \in A PROVE n + 1 \in A
    <2>1. ASSUME NEW T \in SUBSET S, Cardinality(T) = n + 1 PROVE T \in G
      <3>1. T # {} /\ IsFiniteSet(T)
        BY <2>1, FS_EmptySet, FS_Subset
      <3>2. PICK x : x \in T
        BY <3>1
      <3>3. Cardinality(T \ {x}) = n
        <4>1. Cardinality(T \ {x}) = Cardinality(T) - 1
          BY <3>1, <3>2, FS_RemoveElement
        <4> QED
          BY <2>1, <4>1
      <3>4. T \ {x} \in G
        BY <1>2, <3>3
      <3>5. (T \ {x}) \cup {x} = T
        BY <3>2
      <3> QED
        BY <3>2, <3>4, <3>5
    <2> QED
      BY <2>1
  <1> HIDE DEF A
  <1>3. \A n \in Nat : n \in A
    BY <1>1, <1>2, NatSetInduction
  <1>4. Cardinality(S) \in Nat
    BY FS_CardinalityType
  <1> QED
    BY <1>3, <1>4 DEF A

(* sum is the fold of f over the subsets of S, in the order of CHOOSE.       *)
Pick(s) == CHOOSE x \in s : TRUE

IsFold(sum, f, S) ==
    sum = [s \in SUBSET S |-> IF s = {} THEN 0 ELSE f[Pick(s)] + sum[s \ {Pick(s)}]]

IsFoldOn(sum, f, L) ==
    \A s \in L : sum[s] = IF s = {} THEN 0 ELSE f[Pick(s)] + sum[s \ {Pick(s)}]

Level(S, n) == {s \in SUBSET S : Cardinality(s) <= n}

LEMMA PickOne ==
    ASSUME NEW S, IsFiniteSet(S), NEW s \in SUBSET S
    PROVE  /\ IsFiniteSet(s) /\ Cardinality(s) \in Nat
           /\ Cardinality(s) = 0 <=> s = {}
           /\ s # {} => /\ Pick(s) \in s
                        /\ s \ {Pick(s)} \in SUBSET S
                        /\ Cardinality(s \ {Pick(s)}) = Cardinality(s) - 1
  <1>1. /\ IsFiniteSet(s) /\ Cardinality(s) \in Nat
        /\ Cardinality(s) = 0 <=> s = {}
    BY FS_Subset, FS_CardinalityType, FS_EmptySet
  <1>2. ASSUME s # {}
        PROVE  Pick(s) \in s /\ Cardinality(s \ {Pick(s)}) = Cardinality(s) - 1
    <2>1. Pick(s) \in s
      BY <1>2 DEF Pick
    <2> QED
      BY <1>1, <2>1, FS_RemoveElement
  <1> QED
    BY <1>1, <1>2

LEMMA Levels ==
    ASSUME NEW S, IsFiniteSet(S), NEW n \in Nat
    PROVE  /\ Level(S, 0) = {{}}
           /\ {} \in Level(S, n)
           /\ Level(S, n) \subseteq Level(S, n + 1)
           /\ \A s \in Level(S, n + 1) \ {{}} :
                  Pick(s) \in S /\ s \ {Pick(s)} \in Level(S, n)
           /\ Level(S, Cardinality(S)) = SUBSET S
  <1>1. \A s \in SUBSET S : Cardinality(s) \in Nat /\ (Cardinality(s) = 0 <=> s = {})
    BY PickOne
  <1>2. \A s \in SUBSET S : Cardinality(s) <= 0 => s = {}
    BY <1>1
  <1>3. {} \in SUBSET S /\ Cardinality({}) = 0
    BY <1>1
  <1>4. Level(S, 0) = {{}}
    <2>1. \A s \in Level(S, 0) : s = {}
      BY <1>2 DEF Level
    <2>2. {} \in Level(S, 0)
      BY <1>3 DEF Level
    <2> QED
      BY <2>1, <2>2
  <1>5. {} \in Level(S, n)
    BY <1>3 DEF Level
  <1>6. Level(S, n) \subseteq Level(S, n + 1)
    BY <1>1 DEF Level
  <1>7. ASSUME NEW s \in Level(S, n + 1) \ {{}}
        PROVE  Pick(s) \in S /\ s \ {Pick(s)} \in Level(S, n)
    <2>1. s \in SUBSET S /\ s # {} /\ Cardinality(s) <= n + 1 /\ Cardinality(s) \in Nat
      BY <1>1 DEF Level
    <2>2. /\ Pick(s) \in s
          /\ s \ {Pick(s)} \in SUBSET S
          /\ Cardinality(s \ {Pick(s)}) = Cardinality(s) - 1
      BY <2>1, PickOne
    <2> QED
      BY <2>1, <2>2 DEF Level
  <1>8. Level(S, Cardinality(S)) = SUBSET S
    <2>1. \A s \in SUBSET S : Cardinality(s) <= Cardinality(S)
      BY FS_Subset
    <2> QED
      BY <2>1 DEF Level
  <1> QED
    BY <1>4, <1>5, <1>6, <1>7, <1>8

LEMMA FoldUp ==
    ASSUME NEW S, NEW f \in [S -> Int], NEW L, NEW M, L \subseteq M, {} \in L,
           \A s \in M \ {{}} : Pick(s) \in S /\ s \ {Pick(s)} \in L,
           NEW g \in [L -> Int], IsFoldOn(g, f, L)
    PROVE  \E h \in [M -> Int] : IsFoldOn(h, f, M)
  <1> DEFINE h == [s \in M |-> IF s = {} THEN 0 ELSE f[Pick(s)] + g[s \ {Pick(s)}]]
  <1>1. \A s \in M \ {{}} : f[Pick(s)] \in Int /\ g[s \ {Pick(s)}] \in Int
    OBVIOUS
  <1>2. h \in [M -> Int]
    BY <1>1
  <1>3. \A s \in L : h[s] = g[s]
    BY DEF IsFoldOn
  <1>4. ASSUME NEW s \in M
        PROVE  h[s] = IF s = {} THEN 0 ELSE f[Pick(s)] + h[s \ {Pick(s)}]
    <2>1. CASE s = {}
      BY <2>1
    <2>2. CASE s # {}
      BY <1>3, <2>2
    <2> QED
      BY <2>1, <2>2
  <1> HIDE DEF h
  <1> QED
    BY <1>2, <1>4 DEF IsFoldOn

(* Some function does.                                                       *)
LEMMA FoldExists ==
    ASSUME NEW S, IsFiniteSet(S), NEW f \in [S -> Int]
    PROVE  \E sum \in [SUBSET S -> Int] : IsFold(sum, f, S)
  <1> DEFINE A == {n \in Nat : \E g \in [Level(S, n) -> Int] : IsFoldOn(g, f, Level(S, n))}
  <1>1. 0 \in A
    <2> DEFINE g == [s \in {{}} |-> 0]
    <2>1. g \in [{{}} -> Int] /\ IsFoldOn(g, f, {{}})
      BY DEF IsFoldOn
    <2>2. Level(S, 0) = {{}}
      BY Levels
    <2> HIDE DEF g
    <2>3. \E e \in [Level(S, 0) -> Int] : IsFoldOn(e, f, Level(S, 0))
      BY <2>1, <2>2
    <2> QED
      BY <2>3
  <1>2. ASSUME NEW n \in Nat, n \in A PROVE n + 1 \in A
    <2>1. PICK g \in [Level(S, n) -> Int] : IsFoldOn(g, f, Level(S, n))
      BY <1>2
    <2> DEFINE L == Level(S, n)
               M == Level(S, n + 1)
    <2>a. /\ {} \in L /\ L \subseteq M
          /\ \A s \in M \ {{}} : Pick(s) \in S /\ s \ {Pick(s)} \in L
      BY Levels
    <2> HIDE DEF L, M
    <2>2. \E h \in [M -> Int] : IsFoldOn(h, f, M)
      <3>1. g \in [L -> Int] /\ IsFoldOn(g, f, L)
        BY <2>1 DEF L
      <3> QED
        BY <2>a, <3>1, FoldUp
    <2> QED
      BY <2>2 DEF M
  <1> HIDE DEF A
  <1>3. Cardinality(S) \in Nat /\ Cardinality(S) \in A
    BY <1>1, <1>2, NatSetInduction, FS_CardinalityType
  <1>4. PICK g \in [Level(S, Cardinality(S)) -> Int] : IsFoldOn(g, f, Level(S, Cardinality(S)))
    BY <1>3 DEF A
  <1>5. g \in [SUBSET S -> Int] /\ IsFoldOn(g, f, SUBSET S)
    <2>1. Level(S, Cardinality(S)) = SUBSET S
      BY <1>3, Levels
    <2> QED
      BY <1>4, <2>1
  <1> QED
    BY <1>5 DEF IsFold, IsFoldOn

LEMMA FoldTyped ==
    ASSUME NEW S, IsFiniteSet(S), NEW f \in [S -> Int], NEW sum, IsFold(sum, f, S)
    PROVE  \A s \in SUBSET S : sum[s] \in Int
  <1> DEFINE A == {n \in Nat : \A s \in Level(S, n) : sum[s] \in Int}
  <1>0. \A s \in SUBSET S :
            sum[s] = IF s = {} THEN 0 ELSE f[Pick(s)] + sum[s \ {Pick(s)}]
    BY DEF IsFold
  <1>1. 0 \in A
    <2>1. \A s \in Level(S, 0) : s = {}
      BY Levels
    <2>2. ASSUME NEW s \in Level(S, 0) PROVE sum[s] \in Int
      <3>1. s = {} /\ s \in SUBSET S
        BY <2>1
      <3>2. sum[s] = 0
        BY <1>0, <3>1
      <3> QED
        BY <3>2
    <2> QED
      BY <2>2
  <1>2. ASSUME NEW n \in Nat, n \in A PROVE n + 1 \in A
    <2>1. ASSUME NEW s \in Level(S, n + 1) PROVE sum[s] \in Int
      <3>1. s \in SUBSET S
        BY DEF Level
      <3>2. CASE s = {}
        BY <1>0, <3>1, <3>2
      <3>3. CASE s # {}
        <4>1. Pick(s) \in S /\ s \ {Pick(s)} \in Level(S, n)
          BY <3>3, Levels
        <4>2. f[Pick(s)] \in Int /\ sum[s \ {Pick(s)}] \in Int
          BY <1>2, <4>1
        <4>3. sum[s] = f[Pick(s)] + sum[s \ {Pick(s)}]
          BY <1>0, <3>1, <3>3
        <4> QED
          BY <4>2, <4>3
      <3> QED
        BY <3>2, <3>3
    <2> QED
      BY <2>1
  <1> HIDE DEF A
  <1>3. Cardinality(S) \in Nat /\ Cardinality(S) \in A
    BY <1>1, <1>2, NatSetInduction, FS_CardinalityType
  <1>4. Level(S, Cardinality(S)) = SUBSET S
    BY <1>3, Levels
  <1> QED
    BY <1>3, <1>4 DEF A

(* The order does not matter.                                                *)
LEMMA FoldAny ==
    ASSUME NEW S, IsFiniteSet(S), NEW f \in [S -> Int], NEW sum, IsFold(sum, f, S)
    PROVE  \A s \in SUBSET S : \A y \in s : sum[s] = f[y] + sum[s \ {y}]
  <1> DEFINE Takes(s) == \A y \in s : sum[s] = f[y] + sum[s \ {y}]
             A == {n \in Nat : \A s \in Level(S, n) : Takes(s)}
  <1>0. \A s \in SUBSET S : s # {} => sum[s] = f[Pick(s)] + sum[s \ {Pick(s)}]
    BY DEF IsFold
  <1>a. \A s \in SUBSET S : sum[s] \in Int
    BY FoldTyped
  <1>1. 0 \in A
    <2>1. \A s \in Level(S, 0) : s = {}
      BY Levels
    <2> QED
      BY <2>1
  <1>2. ASSUME NEW n \in Nat, n \in A PROVE n + 1 \in A
    <2>1. ASSUME NEW s \in Level(S, n + 1), NEW y \in s
          PROVE  sum[s] = f[y] + sum[s \ {y}]
      <3> DEFINE c == Pick(s)
      <3>1. s \in SUBSET S /\ s # {} /\ IsFiniteSet(s)
        BY PickOne DEF Level
      <3>2. c \in s /\ s \ {c} \in Level(S, n)
        BY <3>1, Levels, PickOne
      <3>3. sum[s] = f[c] + sum[s \ {c}]
        BY <1>0, <3>1
      <3>4. CASE y = c
        BY <3>3, <3>4
      <3>5. CASE y # c
        <4>1. s \ {y} \in Level(S, n)
          <5>1. Cardinality(s \ {y}) = Cardinality(s) - 1
            BY <3>1, FS_RemoveElement
          <5>2. Cardinality(s \ {c}) = Cardinality(s) - 1
            BY <3>1, <3>2, FS_RemoveElement
          <5> QED
            BY <3>1, <3>2, <5>1, <5>2 DEF Level
        <4> HIDE DEF c
        <4>2. Takes(s \ {c}) /\ Takes(s \ {y})
          BY <1>2, <3>2, <4>1
        <4>3. y \in s \ {c} /\ c \in s \ {y} /\ (s \ {c}) \ {y} = (s \ {y}) \ {c}
          BY <3>2, <3>5
        <4>4. /\ sum[s \ {c}] = f[y] + sum[(s \ {c}) \ {y}]
              /\ sum[s \ {y}] = f[c] + sum[(s \ {c}) \ {y}]
          BY <4>2, <4>3
        <4>5. f[y] \in Int /\ f[c] \in Int /\ sum[(s \ {c}) \ {y}] \in Int
          BY <1>a, <3>1, <3>2
        <4> QED
          BY <3>3, <4>4, <4>5
      <3> QED
        BY <3>4, <3>5
    <2> QED
      BY <2>1
  <1> HIDE DEF A
  <1>3. Cardinality(S) \in Nat /\ Cardinality(S) \in A
    BY <1>1, <1>2, NatSetInduction, FS_CardinalityType
  <1>4. Level(S, Cardinality(S)) = SUBSET S
    BY <1>3, Levels
  <1> QED
    BY <1>3, <1>4 DEF A

LEMMA FoldEmpty ==
    ASSUME NEW S, NEW f, NEW sum, IsFold(sum, f, S)
    PROVE  sum[{}] = 0
  BY DEF IsFold

LEMMA FoldAdd ==
    ASSUME NEW S, IsFiniteSet(S), NEW f \in [S -> Int], NEW sum, IsFold(sum, f, S),
           NEW U \in SUBSET S, NEW x \in S \ U
    PROVE  sum[U \cup {x}] = f[x] + sum[U]
  <1>1. U \cup {x} \in SUBSET S /\ x \in U \cup {x} /\ (U \cup {x}) \ {x} = U
    OBVIOUS
  <1> QED
    BY <1>1, FoldAny

(* Two folds agree where their functions do.                                 *)
LEMMA FoldsAgree ==
    ASSUME NEW S, IsFiniteSet(S), NEW f \in [S -> Int], NEW g, IsFold(g, f, S),
           NEW T, IsFiniteSet(T), NEW e \in [T -> Int], NEW h, IsFold(h, e, T),
           NEW U \in SUBSET (S \cap T), \A x \in U : f[x] = e[x]
    PROVE  g[U] = h[U]
  <1> DEFINE G == {W \in SUBSET U : g[W] = h[W]}
  <1>1. {} \in G
    BY FoldEmpty
  <1>2. ASSUME NEW W \in SUBSET U, NEW x \in U \ W, W \in G PROVE W \cup {x} \in G
    <2>1. W \in SUBSET S /\ x \in S \ W /\ W \in SUBSET T /\ x \in T \ W
      OBVIOUS
    <2>2. g[W \cup {x}] = f[x] + g[W] /\ h[W \cup {x}] = e[x] + h[W]
      BY <2>1, FoldAdd
    <2>3. g[W] = h[W] /\ f[x] = e[x]
      BY <1>2
    <2> QED
      BY <2>2, <2>3
  <1>3. IsFiniteSet(U)
    BY FS_Subset
  <1> HIDE DEF G
  <1>4. U \in G
    BY <1>1, <1>2, <1>3, SubsetInduction
  <1> QED
    BY <1>4 DEF G

SumOf(f, S) == (CHOOSE sum : IsFold(sum, f, S))[S]

LEMMA SumOfFolds ==
    ASSUME NEW S, IsFiniteSet(S), NEW f \in [S -> Int]
    PROVE  \E sum : IsFold(sum, f, S) /\ SumOf(f, S) = sum[S]
  <1>1. \E sum : IsFold(sum, f, S)
    BY FoldExists
  <1>2. IsFold(CHOOSE sum : IsFold(sum, f, S), f, S)
    BY <1>1
  <1> QED
    BY <1>2 DEF SumOf

LEMMA SumOfEmpty ==
    ASSUME NEW f \in [{} -> Int]
    PROVE  SumOf(f, {}) = 0
  BY SumOfFolds, FoldEmpty, FS_EmptySet

LEMMA SumOfAdd ==
    ASSUME NEW S, IsFiniteSet(S), NEW x, x \notin S,
           NEW f \in [S -> Int], NEW e \in [S \cup {x} -> Int], \A y \in S : e[y] = f[y]
    PROVE  SumOf(e, S \cup {x}) = e[x] + SumOf(f, S) /\ SumOf(f, S) \in Int
  <1> DEFINE T == S \cup {x}
  <1>1. IsFiniteSet(T) /\ S \in SUBSET T /\ x \in T \ S /\ S \in SUBSET (S \cap T)
    BY FS_AddElement
  <1>2. PICK g : IsFold(g, f, S) /\ SumOf(f, S) = g[S]
    BY SumOfFolds
  <1> HIDE DEF T
  <1>3. e \in [T -> Int]
    BY DEF T
  <1>4. PICK h : IsFold(h, e, T) /\ SumOf(e, T) = h[T]
    BY <1>1, <1>3, SumOfFolds
  <1>5. h[S \cup {x}] = e[x] + h[S]
    BY <1>1, <1>3, <1>4, FoldAdd
  <1>6. g[S] = h[S]
    BY <1>1, <1>2, <1>3, <1>4, FoldsAgree
  <1>7. g[S] \in Int
    BY <1>2, FoldTyped
  <1> QED
    BY <1>2, <1>4, <1>5, <1>6, <1>7 DEF T

(* The community module's sum of amounts, as a fold.                         *)
LEMMA SumIsFold ==
    ASSUME NEW rows, IsFiniteSet(rows), \A t \in rows : t.amount \in Int
    PROVE  Sum(rows) = SumOf([t \in rows |-> t.amount], rows)
  <1> DEFINE f == [t \in rows |-> t.amount]
             Rec(sum) == sum = [s \in SUBSET rows |->
                 IF s = {} THEN 0 ELSE Pick(s).amount + sum[s \ {Pick(s)}]]
  <1>1. Sum(rows) = (CHOOSE sum : Rec(sum))[rows]
    BY Zenon DEF Sum, MapThenSumSet, MapThenFoldSet, Pick
  <1>2. \A sum : Rec(sum) <=> IsFold(sum, f, rows)
    <2>1. \A s \in SUBSET rows : s # {} => Pick(s).amount = f[Pick(s)]
      BY DEF Pick
    <2>2. ASSUME NEW sum
          PROVE  [s \in SUBSET rows |->
                    IF s = {} THEN 0 ELSE Pick(s).amount + sum[s \ {Pick(s)}]]
               = [s \in SUBSET rows |->
                    IF s = {} THEN 0 ELSE f[Pick(s)] + sum[s \ {Pick(s)}]]
      BY <2>1
    <2> QED
      BY <2>2 DEF IsFold
  <1> HIDE DEF Rec, f
  <1>3. (CHOOSE sum : Rec(sum)) = CHOOSE sum : IsFold(sum, f, rows)
    BY <1>2
  <1> QED
    BY <1>1, <1>3 DEF SumOf, f

(* The transaction rows and the balances, as sums.                           *)
Amounts(rows) == IsFiniteSet(rows) /\ \A t \in rows : t.amount \in Int

LEMMA SumEmpty == Sum({}) = 0
  <1>1. Sum({}) = SumOf([t \in {} |-> t.amount], {})
    BY SumIsFold, FS_EmptySet
  <1>2. [t \in {} |-> t.amount] \in [{} -> Int]
    OBVIOUS
  <1> QED
    BY <1>1, <1>2, SumOfEmpty

LEMMA SumAdd ==
    ASSUME NEW rows, Amounts(rows), NEW t, t \notin rows, t.amount \in Int
    PROVE  Sum(rows \cup {t}) = t.amount + Sum(rows) /\ Sum(rows) \in Int
  <1> DEFINE more == rows \cup {t}
             f == [u \in rows |-> u.amount]
             e == [u \in more |-> u.amount]
  <1>1. IsFiniteSet(rows) /\ f \in [rows -> Int]
    BY DEF Amounts
  <1>2. IsFiniteSet(more) /\ e \in [more -> Int] /\ \A u \in more : u.amount \in Int
    BY FS_AddElement DEF Amounts
  <1>3. e[t] = t.amount /\ \A u \in rows : e[u] = f[u]
    OBVIOUS
  <1>4. Sum(rows) = SumOf(f, rows) /\ Sum(more) = SumOf(e, more)
    BY <1>1, <1>2, SumIsFold DEF Amounts
  <1> HIDE DEF f, e
  <1>5. SumOf(e, more) = e[t] + SumOf(f, rows) /\ SumOf(f, rows) \in Int
    BY <1>1, <1>2, <1>3, SumOfAdd
  <1> QED
    BY <1>3, <1>4, <1>5

LEMMA SumTyped ==
    ASSUME NEW rows, Amounts(rows)
    PROVE  Sum(rows) \in Int
  <1> DEFINE f == [t \in rows |-> t.amount]
  <1>1. IsFiniteSet(rows) /\ f \in [rows -> Int]
    BY DEF Amounts
  <1>2. Sum(rows) = SumOf(f, rows)
    BY SumIsFold DEF Amounts
  <1> HIDE DEF f
  <1>3. PICK sum : IsFold(sum, f, rows) /\ SumOf(f, rows) = sum[rows]
    BY <1>1, SumOfFolds
  <1> QED
    BY <1>1, <1>2, <1>3, FoldTyped

(* What the accounts of H hold together.                                     *)
Held(bal, H) == MapThenSumSet(LAMBDA a : bal[a], H)

Counted(bal, H) == IsFiniteSet(H) /\ \A a \in H : bal[a] \in Int

LEMMA HeldIsFold ==
    ASSUME NEW bal, NEW H, Counted(bal, H)
    PROVE  Held(bal, H) = SumOf([a \in H |-> bal[a]], H)
  <1> DEFINE f == [a \in H |-> bal[a]]
             Rec(sum) == sum = [s \in SUBSET H |->
                 IF s = {} THEN 0 ELSE bal[Pick(s)] + sum[s \ {Pick(s)}]]
  <1>1. Held(bal, H) = (CHOOSE sum : Rec(sum))[H]
    BY Zenon DEF Held, MapThenSumSet, MapThenFoldSet, Pick
  <1>2. \A sum : Rec(sum) <=> IsFold(sum, f, H)
    <2>1. \A s \in SUBSET H : s # {} => bal[Pick(s)] = f[Pick(s)]
      BY DEF Pick
    <2>2. ASSUME NEW sum
          PROVE  [s \in SUBSET H |->
                    IF s = {} THEN 0 ELSE bal[Pick(s)] + sum[s \ {Pick(s)}]]
               = [s \in SUBSET H |->
                    IF s = {} THEN 0 ELSE f[Pick(s)] + sum[s \ {Pick(s)}]]
      BY <2>1
    <2> QED
      BY <2>2 DEF IsFold
  <1> HIDE DEF Rec, f
  <1>3. (CHOOSE sum : Rec(sum)) = CHOOSE sum : IsFold(sum, f, H)
    BY <1>2
  <1> QED
    BY <1>1, <1>3 DEF SumOf, f

LEMMA HeldEmpty ==
    ASSUME NEW bal
    PROVE  Held(bal, {}) = 0
  <1>1. Held(bal, {}) = SumOf([a \in {} |-> bal[a]], {})
    BY HeldIsFold, FS_EmptySet DEF Counted
  <1>2. [a \in {} |-> bal[a]] \in [{} -> Int]
    OBVIOUS
  <1> QED
    BY <1>1, <1>2, SumOfEmpty

LEMMA HeldSame ==
    ASSUME NEW bal, NEW new, NEW H, Counted(bal, H), \A a \in H : new[a] = bal[a]
    PROVE  Held(new, H) = Held(bal, H)
  <1>1. Counted(new, H) /\ [a \in H |-> new[a]] = [a \in H |-> bal[a]]
    BY DEF Counted
  <1> QED
    BY <1>1, HeldIsFold

LEMMA HeldAdd ==
    ASSUME NEW bal, NEW H, NEW x, x \notin H, Counted(bal, H \cup {x})
    PROVE  /\ Counted(bal, H)
           /\ Held(bal, H \cup {x}) = bal[x] + Held(bal, H)
           /\ Held(bal, H) \in Int
  <1> DEFINE more == H \cup {x}
             f == [a \in H |-> bal[a]]
             e == [a \in more |-> bal[a]]
  <1>1. H \in SUBSET more /\ IsFiniteSet(more)
    BY DEF Counted
  <1>2. Counted(bal, H) /\ IsFiniteSet(H) /\ f \in [H -> Int] /\ e \in [more -> Int]
    BY <1>1, FS_Subset DEF Counted
  <1>3. e[x] = bal[x] /\ \A a \in H : e[a] = f[a]
    OBVIOUS
  <1>4. Held(bal, H) = SumOf(f, H) /\ Held(bal, more) = SumOf(e, more)
    BY <1>2, HeldIsFold
  <1> HIDE DEF f, e
  <1>5. SumOf(e, more) = e[x] + SumOf(f, H) /\ SumOf(f, H) \in Int
    BY <1>2, <1>3, SumOfAdd
  <1> QED
    BY <1>2, <1>3, <1>4, <1>5

(* One balance changes by d.                                                 *)
LEMMA HeldChange ==
    ASSUME NEW bal, NEW new, NEW H, Counted(bal, H), NEW x \in H, NEW d \in Int,
           new[x] = bal[x] + d, \A a \in H \ {x} : new[a] = bal[a]
    PROVE  Held(new, H) = Held(bal, H) + d /\ Counted(new, H) /\ Held(bal, H) \in Int
  <1> DEFINE rest == H \ {x}
  <1>1. Counted(new, H)
    BY DEF Counted
  <1>2. rest \cup {x} = H /\ x \notin rest
    OBVIOUS
  <1> HIDE DEF rest
  <1>3. /\ Counted(bal, rest)
        /\ Held(bal, H) = bal[x] + Held(bal, rest)
        /\ Held(bal, rest) \in Int
        /\ Held(new, H) = new[x] + Held(new, rest)
    <2>1. Counted(bal, rest \cup {x}) /\ Counted(new, rest \cup {x})
      BY <1>1, <1>2
    <2> QED
      BY <1>2, <2>1, HeldAdd
  <1>4. Held(new, rest) = Held(bal, rest)
    BY <1>3, HeldSame DEF rest
  <1>5. bal[x] \in Int
    BY DEF Counted
  <1> QED
    BY <1>1, <1>3, <1>4, <1>5

-----------------------------------------------------------------------------
(* The rows of the transactions table.                                       *)

(* Rows are of accounts that exist, and of attempts that took effect if they *)
(* are not of the opening.                                                   *)
RowsInv ==
    /\ IsFiniteSet(transactions)
    /\ \A t \in transactions :
           /\ t.account \in DOMAIN accounts
           /\ t.id[2] # 0 => <<t.id[1], t.id[2]>> \in applied

RowsOf(rows, a) == {t \in rows : t.account = a}

(* What was paid in or out of the accounts of H, without the transfers.      *)
PaidIn(rows, H) == {t \in rows : t.account \in H /\ t.txType # "Transfer"}

Holders(c) == {a \in DOMAIN accounts : accounts[a] = c}

MoneyInSums ==
    \A c \in currencies :
        Held(balances, Holders(c)) = Sum(PaidIn(transactions, Holders(c)))

LEMMA PropertiesAsSums ==
    /\ BalancesMatchTransactions <=>
           \A a \in DOMAIN balances : balances[a] = Sum(RowsOf(transactions, a))
    /\ MoneyInSums <=> MoneyConservedPerCurrency
  BY DEF BalancesMatchTransactions, MoneyConservedPerCurrency, MoneyInSums, RowsOf, PaidIn,
         Holders, GetTransactionsByAccountID, Held

LEMMA RowsCounted ==
    ASSUME BankInv, RowsInv, NEW rows \in SUBSET transactions
    PROVE  Amounts(rows)
  <1>1. IsFiniteSet(rows)
    BY FS_Subset DEF RowsInv
  <1>2. \A t \in transactions : t.amount \in Int
    BY DEF BankInv, TypeOK, Transaction
  <1> QED
    BY <1>1, <1>2 DEF Amounts

LEMMA BalancesCounted ==
    ASSUME BankInv, NEW H \in SUBSET DOMAIN accounts
    PROVE  Counted(balances, H)
  <1>1. IsFiniteSet(H)
    <2>1. DOMAIN accounts \subseteq Account
      BY DEF BankInv, TypeOK
    <2> QED
      BY <2>1, BankAssumption, FS_Subset
  <1>2. \A a \in DOMAIN accounts : balances[a] \in Int
    BY BankAssumption DEF BankInv, TypeOK
  <1> QED
    BY <1>1, <1>2 DEF Counted

(* The rows that a commit inserts: one for each balance it changes.          *)
LEMMA InsertedRows ==
    ASSUME BankInv, RowsInv, NoNegativeTransfers, NoSelfTransfers,
           NEW r \in Request, pc[r] = "commit"
    PROVE  LET b == body[r]
               new == InsertTransaction(r)
           IN  /\ \A t \in new : /\ t \notin transactions
                                 /\ t.account \in DOMAIN accounts
                                 /\ t.id[1] = r /\ t.id[2] = attempt[r]
               /\ IsFiniteSet(new)
               /\ b.op \in {"Deposit", "Withdraw"} =>
                      \E t : /\ new = {t} /\ t.account = b.from /\ t.txType # "Transfer"
                             /\ t.amount = Ledger!Change(b, b.from) /\ t.amount \in Int
               /\ b.op = "Transfer" =>
                      \E t, u : /\ new = {t, u} /\ t.account = b.from /\ u.account = b.to
                                /\ t.txType = "Transfer" /\ u.txType = "Transfer"
                                /\ t.amount = Ledger!Change(b, b.from) /\ t.amount \in Int
                                /\ u.amount = Ledger!Change(b, b.to) /\ u.amount \in Int
                                /\ t # u
               /\ b.op \notin Moves => new = {}
  <1> DEFINE b == body[r]
             new == InsertTransaction(r)
             ID(leg) == <<r, attempt[r], leg>>
             t1 == Record(ID(1), b.from, "Deposit", b.amount, None)
             t2 == Record(ID(1), b.from, "Withdraw", Int64(-b.amount), None)
             t3 == Record(ID(1), b.from, "Transfer", Int64(-b.amount), None)
             t4 == Record(ID(2), b.to, "Transfer", b.amount, ID(1))
  <1>1. /\ b \in Bodies
        /\ b.op \in Moves => b.from \in DOMAIN accounts
        /\ b.op = "Transfer" => b.to \in DOMAIN accounts
    BY Committing DEF Holds, BankInv, TypeOK
  <1>2. b.amount \in -Half..Half - 1 /\ b.amount \in Int /\ Half \in Nat
    BY <1>1, BodyFields, BankAssumption
  <1>3. b.op \in {"Withdraw", "Transfer"} => Int64(-b.amount) = -b.amount
    <2>1. ~ InvalidParams(b)
      BY DEF BankInv, RequestInv, PlaceInv, InTx
    <2>2. b.op \in {"Withdraw", "Transfer"} => b.amount >= 0
      BY <1>1, <1>2, <2>1 DEF InvalidParams, NoNegativeTransfers
    <2>3. b.op \in {"Withdraw", "Transfer"} => -b.amount \in -Half..Half - 1
      BY <1>2, <2>2
    <2> QED
      BY <1>2, <2>3, Int64Range
  <1>4. attempt[r] # 0 /\ <<r, attempt[r]>> \notin applied
    <2>1. attempt[r] \in 1..MaxAttempts /\ MaxAttempts \in Nat
      BY BankAssumption DEF BankInv, TypeOK
    <2>2. \A x \in applied : pc[x[1]] # "done" => x[2] # attempt[x[1]]
      BY DEF BankInv, AppliedInv
    <2>3. pc[<<r, attempt[r]>>[1]] # "done"
      OBVIOUS
    <2> QED
      BY <2>1, <2>2, <2>3
  <1>5. ASSUME NEW t, t.id[1] = r, t.id[2] = attempt[r] PROVE t \notin transactions
    BY <1>4, <1>5 DEF RowsInv
  <1>6. CASE b.op = "Deposit"
    <2>1. new = {t1} /\ Ledger!Change(b, b.from) = b.amount
      BY <1>6 DEF InsertTransaction, Ledger!Change
    <2>2. /\ t1.account = b.from /\ t1.txType # "Transfer" /\ t1.amount = b.amount
          /\ t1.id[1] = r /\ t1.id[2] = attempt[r]
      BY DEF Record
    <2> HIDE DEF t1, new
    <2> QED
      BY <1>1, <1>2, <1>5, <1>6, <2>1, <2>2, FS_Singleton DEF Moves, new
  <1>7. CASE b.op = "Withdraw"
    <2>1. new = {t2} /\ Ledger!Change(b, b.from) = -b.amount
      BY <1>7 DEF InsertTransaction, Ledger!Change
    <2>a. -b.amount \in Int
      BY <1>2
    <2>2. /\ t2.account = b.from /\ t2.txType # "Transfer" /\ t2.amount = -b.amount
          /\ t2.id[1] = r /\ t2.id[2] = attempt[r]
      BY <1>3, <1>7 DEF Record
    <2> HIDE DEF t2, new
    <2>3. /\ t2 \notin transactions /\ b.from \in DOMAIN accounts
          /\ t2.amount = Ledger!Change(b, b.from) /\ t2.amount \in Int
      BY <1>1, <1>5, <1>7, <2>a, <2>1, <2>2 DEF Moves
    <2> QED
      BY <1>7, <2>1, <2>2, <2>3, FS_Singleton DEF Moves, new
  <1>8. CASE b.op = "Transfer"
    <2>1. b.from # b.to
      BY <1>1, <1>8 DEF NoSelfTransfers
    <2>2. new = {t3, t4} /\ Ledger!Change(b, b.from) = -b.amount
          /\ Ledger!Change(b, b.to) = b.amount
      BY <1>8, <2>1 DEF InsertTransaction, Ledger!Change
    <2>3. /\ t3.account = b.from /\ t3.txType = "Transfer" /\ t3.amount = -b.amount
          /\ t3.id[1] = r /\ t3.id[2] = attempt[r]
          /\ t4.account = b.to /\ t4.txType = "Transfer" /\ t4.amount = b.amount
          /\ t4.id[1] = r /\ t4.id[2] = attempt[r]
      BY <1>3, <1>8 DEF Record
    <2> HIDE DEF t3, t4, new
    <2>4. IsFiniteSet({t3, t4})
      <3>1. {t3, t4} = {t3} \cup {t4}
        OBVIOUS
      <3>2. IsFiniteSet({t3} \cup {t4})
        BY FS_Singleton, FS_AddElement
      <3> QED
        BY <3>1, <3>2
    <2>5. t3 # t4
      BY <2>1, <2>3
    <2> QED
      BY <1>1, <1>2, <1>5, <1>8, <2>2, <2>3, <2>4, <2>5 DEF Moves, new
  <1>9. CASE b.op \notin Moves
    <2>1. new = {}
      BY <1>9 DEF InsertTransaction, Moves
    <2> HIDE DEF new
    <2> QED
      BY <1>9, <2>1, FS_EmptySet DEF Moves, new
  <1> QED
    BY <1>6, <1>7, <1>8, <1>9 DEF Moves

(* The tables after a commit, as the sums need them.                         *)
LEMMA CommitTables ==
    ASSUME BankInv, RowsInv, NoNegativeTransfers, NoSelfTransfers, CreditsFit, NoOverdraft,
           NEW r \in Request, pc[r] = "commit", Apply(r)
    PROVE  /\ DOMAIN balances = DOMAIN accounts /\ DOMAIN balances' = DOMAIN accounts'
           /\ DOMAIN accounts' = DOMAIN accounts \cup Created(r)
           /\ Created(r) \cap DOMAIN accounts = {}
           /\ \A a \in DOMAIN accounts :
                  /\ accounts'[a] = accounts[a]
                  /\ balances'[a] = balances[a] + Ledger!Change(body[r], a)
                  /\ balances[a] \in Int
           /\ \A a \in Created(r) : accounts'[a] = body[r].currency /\ balances'[a] = 0
           /\ transactions' = transactions \cup InsertTransaction(r)
           /\ applied' = applied \cup {<<r, attempt[r]>>}
  <1>1. Created(r) \cap DOMAIN accounts = {}
    BY Committing
  <1>2. \A a \in DOMAIN accounts : balances[a] \in Int
    BY BankAssumption DEF BankInv, TypeOK
  <1>3. /\ DOMAIN accounts' = DOMAIN accounts \cup Created(r)
        /\ DOMAIN balances' = DOMAIN accounts'
        /\ DOMAIN balances = DOMAIN accounts
        /\ \A a \in DOMAIN accounts :
               accounts'[a] = accounts[a] /\ balances'[a] = UpdateBalance(r, a)
        /\ \A a \in Created(r) : accounts'[a] = body[r].currency /\ balances'[a] = 0
        /\ transactions' = transactions \cup InsertTransaction(r)
        /\ applied' = applied \cup {<<r, attempt[r]>>}
    BY ApplyTables
  <1>4. \A a \in DOMAIN balances : UpdateBalance(r, a) = balances[a] + Ledger!Change(body[r], a)
    BY UpdateIsChange
  <1> QED
    BY <1>1, <1>2, <1>3, <1>4

LEMMA RowsNext ==
    ASSUME BankInv, RowsInv, NoNegativeTransfers, NoSelfTransfers, CreditsFit, NoOverdraft,
           [Next]_vars
    PROVE  RowsInv'
  <1>1. CASE UNCHANGED <<tables, applied>>
    BY <1>1 DEF tables, RowsInv
  <1>2. ASSUME NEW r \in Request, pc[r] = "commit", Apply(r)
        PROVE  RowsInv'
    <2>1. /\ DOMAIN accounts' = DOMAIN accounts \cup Created(r)
          /\ transactions' = transactions \cup InsertTransaction(r)
          /\ applied' = applied \cup {<<r, attempt[r]>>}
      BY <1>2, CommitTables
    <2>2. /\ \A t \in InsertTransaction(r) : /\ t.account \in DOMAIN accounts
                                             /\ t.id[1] = r /\ t.id[2] = attempt[r]
          /\ IsFiniteSet(InsertTransaction(r))
      BY <1>2, InsertedRows
    <2>3. IsFiniteSet(transactions')
      BY <2>1, <2>2, FS_Union DEF RowsInv
    <2>4. \A t \in transactions' :
              /\ t.account \in DOMAIN accounts'
              /\ t.id[2] # 0 => <<t.id[1], t.id[2]>> \in applied'
      BY <2>1, <2>2 DEF RowsInv
    <2> QED
      BY <2>3, <2>4 DEF RowsInv
  <1> QED
    BY <1>1, <1>2, OnlyCommitsWrite

(* The rows of the opening, one for each account that is not empty.          *)
OpeningRow(a) == Record(<<a, 0, 1>>, a, "Deposit", Opening[a].amount, None)

LEMMA OpeningRows ==
    ASSUME Init
    PROVE  /\ RowsInv
           /\ DOMAIN accounts = DOMAIN Opening /\ DOMAIN balances = DOMAIN Opening
           /\ \A a \in DOMAIN Opening :
                  /\ balances[a] = Opening[a].amount /\ balances[a] \in Nat
                  /\ OpeningRow(a).account = a /\ OpeningRow(a).amount = Opening[a].amount
                  /\ OpeningRow(a).txType = "Deposit"
           /\ \A t : t \in transactions <=>
                         \E a \in DOMAIN Opening : Opening[a].amount > 0 /\ t = OpeningRow(a)
  <1>1. \A a : /\ OpeningRow(a).account = a /\ OpeningRow(a).amount = Opening[a].amount
               /\ OpeningRow(a).txType = "Deposit" /\ OpeningRow(a).id = <<a, 0, 1>>
    BY DEF OpeningRow, Record
  <1>2. DOMAIN accounts = DOMAIN Opening /\ DOMAIN balances = DOMAIN Opening
    BY DEF Init
  <1>3. \A a \in DOMAIN Opening : balances[a] = Opening[a].amount /\ balances[a] \in Nat
    BY BankAssumption DEF Init
  <1>4. \A t : t \in transactions <=>
            \E a \in DOMAIN Opening : Opening[a].amount > 0 /\ t = OpeningRow(a)
    BY DEF Init, OpeningRow
  <1>5. IsFiniteSet(transactions)
    <2> DEFINE f == [t \in transactions |-> t.account]
    <2>1. \A t \in transactions : t.account \in Account /\ t = OpeningRow(t.account)
      BY <1>1, <1>4, BankAssumption
    <2>2. f \in [transactions -> Account]
      BY <2>1
    <2>3. \A t, u \in transactions : f[t] = f[u] => t = u
      BY <2>1
    <2>4. f \in Injection(transactions, Account)
      BY <2>2, <2>3 DEF Injection, IsInjective
    <2> HIDE DEF f
    <2> QED
      BY <2>4, BankAssumption, FS_Injection
  <1>6. \A t \in transactions : t.account \in DOMAIN accounts /\ t.id[2] = 0
    BY <1>1, <1>2, <1>4
  <1> QED
    BY <1>1, <1>2, <1>3, <1>4, <1>5, <1>6 DEF RowsInv

-----------------------------------------------------------------------------
(* Every balance is the sum of its rows.                                     *)

LEMMA MatchInit == Init => BalancesMatchTransactions
  <1> SUFFICES ASSUME Init, NEW a \in DOMAIN balances
               PROVE  balances[a] = Sum(RowsOf(transactions, a))
    BY PropertiesAsSums
  <1> DEFINE rows == RowsOf(transactions, a)
             row  == OpeningRow(a)
  <1>1. /\ a \in DOMAIN Opening
        /\ balances[a] = Opening[a].amount /\ balances[a] \in Nat
        /\ row.account = a /\ row.amount = Opening[a].amount
        /\ \A t : t \in transactions <=>
                      \E x \in DOMAIN Opening : Opening[x].amount > 0 /\ t = OpeningRow(x)
        /\ \A x \in DOMAIN Opening : OpeningRow(x).account = x
    BY OpeningRows
  <1>2. \A t \in rows : t = row /\ Opening[a].amount > 0
    BY <1>1 DEF RowsOf
  <1>3. CASE Opening[a].amount = 0
    <2>1. rows = {}
      BY <1>2, <1>3
    <2> QED
      BY <1>1, <1>3, <2>1, SumEmpty
  <1>4. CASE Opening[a].amount # 0
    <2>1. row \in rows
      BY <1>1, <1>4 DEF RowsOf
    <2>2. rows = {} \cup {row}
      BY <1>2, <2>1
    <2>3. Amounts({})
      BY FS_EmptySet DEF Amounts
    <2> HIDE DEF row, rows
    <2>4. Sum({} \cup {row}) = row.amount + Sum({})
      BY <1>1, <2>3, SumAdd
    <2> QED
      BY <1>1, <2>2, <2>4, SumEmpty DEF rows
  <1> QED
    BY <1>3, <1>4

(* The rows that a commit adds to those of account a.                        *)
LEMMA RowsAdded ==
    ASSUME BankInv, RowsInv, NoNegativeTransfers, NoSelfTransfers,
           NEW r \in Request, pc[r] = "commit", NEW a
    PROVE  \/ RowsOf(InsertTransaction(r), a) = {} /\ Ledger!Change(body[r], a) = 0
           \/ \E t : /\ RowsOf(InsertTransaction(r), a) = {t} /\ t \notin transactions
                     /\ t.amount = Ledger!Change(body[r], a) /\ t.amount \in Int
  <1> DEFINE b == body[r]
             new == InsertTransaction(r)
  <1>0. /\ \A t \in new : t \notin transactions
        /\ b.op \in {"Deposit", "Withdraw"} =>
               \E t : /\ new = {t} /\ t.account = b.from /\ t.txType # "Transfer"
                      /\ t.amount = Ledger!Change(b, b.from) /\ t.amount \in Int
        /\ b.op = "Transfer" =>
               \E t, u : /\ new = {t, u} /\ t.account = b.from /\ u.account = b.to
                         /\ t.txType = "Transfer" /\ u.txType = "Transfer"
                         /\ t.amount = Ledger!Change(b, b.from) /\ t.amount \in Int
                         /\ u.amount = Ledger!Change(b, b.to) /\ u.amount \in Int
                         /\ t # u
        /\ b.op \notin Moves => new = {}
    BY InsertedRows
  <1>1. b.op = "Transfer" => b.from # b.to
    BY Committing DEF NoSelfTransfers
  <1>2. /\ ~ (b.op \in Moves /\ a = b.from)
        /\ ~ (b.op = "Transfer" /\ a = b.to)
        => Ledger!Change(b, a) = 0
    BY DEF Ledger!Change, Moves
  <1> HIDE DEF new, b
  <1>3. CASE b.op \in {"Deposit", "Withdraw"}
    <2>1. PICK t : /\ new = {t} /\ t.account = b.from
                   /\ t.amount = Ledger!Change(b, b.from) /\ t.amount \in Int
      BY <1>0, <1>3
    <2>2. CASE a = b.from
      <3>1. RowsOf(new, a) = {t}
        BY <2>1, <2>2 DEF RowsOf
      <3> QED
        BY <1>0, <2>1, <2>2, <3>1 DEF new, b
    <2>3. CASE a # b.from
      <3>1. RowsOf(new, a) = {}
        BY <2>1, <2>3 DEF RowsOf
      <3> QED
        BY <1>2, <1>3, <2>3, <3>1 DEF new, b
    <2> QED
      BY <2>2, <2>3
  <1>4. CASE b.op = "Transfer"
    <2>1. PICK t, u : /\ new = {t, u} /\ t.account = b.from /\ u.account = b.to
                      /\ t.amount = Ledger!Change(b, b.from) /\ t.amount \in Int
                      /\ u.amount = Ledger!Change(b, b.to) /\ u.amount \in Int
      BY <1>0, <1>4
    <2>2. CASE a = b.from
      <3>1. RowsOf(new, a) = {t}
        BY <1>1, <1>4, <2>1, <2>2 DEF RowsOf
      <3> QED
        BY <1>0, <2>1, <2>2, <3>1 DEF new, b
    <2>3. CASE a = b.to
      <3>1. RowsOf(new, a) = {u}
        BY <1>1, <1>4, <2>1, <2>3 DEF RowsOf
      <3> QED
        BY <1>0, <2>1, <2>3, <3>1 DEF new, b
    <2>4. CASE a \notin {b.from, b.to}
      <3>1. RowsOf(new, a) = {}
        BY <2>1, <2>4 DEF RowsOf
      <3> QED
        BY <1>2, <2>4, <3>1 DEF new, b
    <2> QED
      BY <2>2, <2>3, <2>4
  <1>5. CASE b.op \notin Moves
    <2>1. RowsOf(new, a) = {}
      BY <1>0, <1>5 DEF RowsOf
    <2> QED
      BY <1>2, <1>5, <2>1 DEF new, b, Moves
  <1> QED
    BY <1>3, <1>4, <1>5 DEF Moves

LEMMA MatchNext ==
    ASSUME BankInv, RowsInv, NoNegativeTransfers, NoSelfTransfers, CreditsFit, NoOverdraft,
           BalancesMatchTransactions, [Next]_vars
    PROVE  BalancesMatchTransactions'
  <1>1. CASE UNCHANGED tables
    BY <1>1 DEF tables, BalancesMatchTransactions, GetTransactionsByAccountID
  <1>2. ASSUME NEW r \in Request, pc[r] = "commit", Apply(r), NEW a \in DOMAIN balances'
        PROVE  balances'[a] = Sum(RowsOf(transactions', a))
    <2> DEFINE old == RowsOf(transactions, a)
               new == RowsOf(InsertTransaction(r), a)
               d   == Ledger!Change(body[r], a)
    <2>1. RowsOf(transactions', a) = old \cup new
      BY <1>2, CommitTables DEF RowsOf
    <2>2. \/ new = {} /\ d = 0
          \/ \E t : /\ new = {t} /\ t \notin transactions /\ t.amount = d /\ t.amount \in Int
      BY <1>2, RowsAdded
    <2>3. Amounts(old)
      BY RowsCounted DEF RowsOf
    <2>4. CASE a \in DOMAIN balances
      <3>1. balances'[a] = balances[a] + d /\ balances[a] \in Int
        BY <1>2, <2>4, CommitTables
      <3>2. balances[a] = Sum(old)
        BY <2>4, PropertiesAsSums
      <3>3. CASE new = {} /\ d = 0
        <4>1. old \cup new = old
          BY <3>3
        <4> HIDE DEF old, new, d
        <4> QED
          BY <2>1, <3>1, <3>2, <3>3, <4>1
      <3>4. ASSUME NEW t, new = {t}, t \notin transactions, t.amount = d, t.amount \in Int
            PROVE  balances'[a] = Sum(RowsOf(transactions', a))
        <4>1. t \notin old /\ old \cup new = old \cup {t}
          BY <3>4 DEF RowsOf
        <4> HIDE DEF old, new, d
        <4>2. Sum(old \cup {t}) = t.amount + Sum(old)
          BY <2>3, <3>4, <4>1, SumAdd
        <4> QED
          BY <2>1, <3>1, <3>2, <3>4, <4>1, <4>2
      <3> QED
        BY <2>2, <3>3, <3>4
    <2>5. CASE a \notin DOMAIN balances
      <3>1. balances'[a] = 0 /\ a \notin DOMAIN accounts
        BY <1>2, <2>5, CommitTables
      <3>2. \A t \in InsertTransaction(r) : t.account \in DOMAIN accounts
        BY <1>2, InsertedRows
      <3>3. old = {} /\ new = {}
        BY <3>1, <3>2 DEF RowsInv, RowsOf
      <3> QED
        BY <2>1, <3>1, <3>3, SumEmpty
    <2> QED
      BY <2>4, <2>5
  <1>3. ASSUME NEW r \in Request, pc[r] = "commit", Apply(r)
        PROVE  BalancesMatchTransactions'
    BY <1>2, <1>3 DEF BalancesMatchTransactions, GetTransactionsByAccountID, RowsOf
  <1> QED
    BY <1>1, <1>3, OnlyCommitsWrite

-----------------------------------------------------------------------------
(* The accounts of a currency hold what was paid in.                         *)

LEMMA MoneyInit == Init => MoneyInSums
  <1> SUFFICES ASSUME Init, NEW c \in currencies
               PROVE  Held(balances, Holders(c)) = Sum(PaidIn(transactions, Holders(c)))
    BY DEF MoneyInSums
  <1> DEFINE H == Holders(c)
             G == {K \in SUBSET H : Held(balances, K) = Sum(PaidIn(transactions, K))}
  <1>0. BankInv /\ RowsInv
    BY BankInvInit, OpeningRows
  <1>1. /\ DOMAIN accounts = DOMAIN Opening
        /\ \A a \in DOMAIN Opening :
               /\ balances[a] = Opening[a].amount /\ balances[a] \in Nat
               /\ OpeningRow(a).account = a /\ OpeningRow(a).amount = Opening[a].amount
               /\ OpeningRow(a).txType = "Deposit"
        /\ \A t : t \in transactions <=>
                      \E a \in DOMAIN Opening : Opening[a].amount > 0 /\ t = OpeningRow(a)
    BY OpeningRows
  <1>2. H \in SUBSET DOMAIN accounts
    BY DEF Holders
  <1>3. {} \in G
    <2>1. PaidIn(transactions, {}) = {}
      BY DEF PaidIn
    <2> QED
      BY <2>1, HeldEmpty, SumEmpty
  <1>4. ASSUME NEW K \in SUBSET H, NEW x \in H \ K, K \in G PROVE K \cup {x} \in G
    <2> DEFINE old == PaidIn(transactions, K)
               all == PaidIn(transactions, K \cup {x})
               row == OpeningRow(x)
    <2>1. x \in DOMAIN Opening /\ K \cup {x} \in SUBSET DOMAIN accounts
      BY <1>1, <1>2
    <2>2. Counted(balances, K \cup {x})
      BY <1>0, <2>1, BalancesCounted
    <2>3. Held(balances, K \cup {x}) = balances[x] + Held(balances, K)
          /\ Held(balances, K) \in Int
      BY <2>2, HeldAdd
    <2>4. Amounts(old)
      BY <1>0, RowsCounted DEF PaidIn
    <2>5. \A t \in all : t \notin old => t = row /\ Opening[x].amount > 0
      BY <1>1, <2>1 DEF PaidIn
    <2>6. old \subseteq all /\ row \notin old
      BY <1>1, <2>1 DEF PaidIn
    <2>7. Opening[x].amount > 0 => row \in all
      BY <1>1, <2>1 DEF PaidIn
    <2>8. Held(balances, K) = Sum(old)
      BY <1>4
    <2> HIDE DEF old, all, row
    <2>9. Held(balances, K \cup {x}) = Sum(all)
      <3>1. CASE Opening[x].amount > 0
        <4>1. all = old \cup {row}
          BY <2>5, <2>6, <2>7, <3>1
        <4>2. row.amount = balances[x] /\ row.amount \in Int
          BY <1>1, <2>1 DEF row
        <4>3. Sum(old \cup {row}) = row.amount + Sum(old)
          BY <2>4, <2>6, <4>2, SumAdd
        <4> QED
          BY <2>3, <2>8, <4>1, <4>2, <4>3
      <3>2. CASE ~ (Opening[x].amount > 0)
        <4>1. all = old
          BY <2>5, <2>6, <3>2
        <4>2. balances[x] = 0
          BY <1>1, <2>1, <3>2
        <4> QED
          BY <2>3, <2>8, <4>1, <4>2
      <3> QED
        BY <3>1, <3>2
    <2>10. K \cup {x} \in SUBSET H
      OBVIOUS
    <2> QED
      BY <2>9, <2>10 DEF all
  <1>5. IsFiniteSet(H)
    BY <1>0, <1>2, BalancesCounted DEF Counted
  <1> HIDE DEF G, H
  <1>6. H \in G
    BY <1>3, <1>4, <1>5, SubsetInduction
  <1> QED
    BY <1>6 DEF G, H

(* What the request pays in to or out of the accounts of H.                  *)
Paid(b, H) ==
    IF b.op \in {"Deposit", "Withdraw"} /\ b.from \in H THEN Ledger!Change(b, b.from) ELSE 0

(* H holds both accounts of a transfer, or neither.                          *)
Together(b, H) == b.op = "Transfer" => (b.from \in H <=> b.to \in H)

LEMMA CommitHeld ==
    ASSUME BankInv, RowsInv, NoNegativeTransfers, NoSelfTransfers, CreditsFit, NoOverdraft,
           NEW r \in Request, pc[r] = "commit", Apply(r),
           NEW H \in SUBSET DOMAIN accounts, Together(body[r], H)
    PROVE  /\ Held(balances', H) = Held(balances, H) + Paid(body[r], H)
           /\ Held(balances, H) \in Int /\ Counted(balances', H)
  <1> DEFINE b == body[r]
             D(a) == Ledger!Change(b, a)
  <1>1. \A a \in H : balances'[a] = balances[a] + D(a) /\ balances[a] \in Int
    BY CommitTables
  <1>2. Counted(balances, H)
    BY BalancesCounted
  <1>3. b \in Bodies /\ b.amount \in Int
    BY Committing, BodyFields
  <1>4. /\ \A a : D(a) \in Int
        /\ \A a : /\ ~ (b.op \in Moves /\ a = b.from)
                  /\ ~ (b.op = "Transfer" /\ a = b.to)
                  => D(a) = 0
        /\ b.op = "Transfer" => b.from # b.to /\ D(b.from) = -D(b.to)
    <2>1. b.op = "Transfer" => b.from # b.to
      BY <1>3 DEF NoSelfTransfers
    <2> QED
      BY <1>3, <2>1 DEF Ledger!Change, Moves
  <1> HIDE DEF D
  <1>a. Counted(balances', H)
    BY <1>1, <1>2, <1>4 DEF Counted
  <1>b. Held(balances, H) \in Int
    <2>1. CASE H = {}
      BY <2>1, HeldEmpty
    <2>2. CASE H # {}
      <3>1. PICK x \in H : TRUE
        BY <2>2
      <3>2. balances[x] = balances[x] + 0
        BY <1>1
      <3> QED
        BY <1>2, <3>1, <3>2, HeldChange
    <2> QED
      BY <2>1, <2>2
  <1>5. CASE b.op \in {"Deposit", "Withdraw"} /\ b.from \in H
    <2>1. \A a \in H \ {b.from} : balances'[a] = balances[a]
      BY <1>1, <1>4, <1>5
    <2>2. Held(balances', H) = Held(balances, H) + D(b.from)
      BY <1>1, <1>2, <1>4, <1>5, <2>1, HeldChange
    <2>3. Paid(b, H) = D(b.from)
      BY <1>5 DEF Paid, D
    <2> QED
      BY <1>a, <1>b, <2>2, <2>3
  <1>6. CASE b.op = "Transfer" /\ b.from \in H
    <2> DEFINE mid == [a \in H |-> IF a = b.from THEN balances[a] + D(a) ELSE balances[a]]
    <2>1. b.to \in H /\ b.from # b.to /\ D(b.from) = -D(b.to) /\ D(b.to) \in Int
      BY <1>4, <1>6 DEF Together
    <2>2. /\ mid[b.from] = balances[b.from] + D(b.from)
          /\ \A a \in H \ {b.from} : mid[a] = balances[a]
      BY <1>6
    <2>3. /\ balances'[b.to] = mid[b.to] + D(b.to)
          /\ \A a \in H \ {b.to} : balances'[a] = mid[a]
      BY <1>1, <1>4, <1>6, <2>1
    <2> HIDE DEF mid
    <2>4. /\ Held(mid, H) = Held(balances, H) + D(b.from)
          /\ Counted(mid, H)
      BY <1>2, <1>4, <1>6, <2>2, HeldChange
    <2>5. Held(balances', H) = Held(mid, H) + D(b.to)
      BY <2>1, <2>3, <2>4, HeldChange
    <2>6. Paid(b, H) = 0
      BY <1>6 DEF Paid
    <2> QED
      BY <1>a, <1>b, <2>1, <2>4, <2>5, <2>6
  <1>7. CASE b.op \notin Moves \/ b.from \notin H
    <2>1. \A a \in H : balances'[a] = balances[a]
      <3>1. ASSUME NEW a \in H PROVE D(a) = 0
        BY <1>4, <1>7 DEF Together, Moves
      <3> QED
        BY <1>1, <3>1
    <2>2. Held(balances', H) = Held(balances, H)
      BY <1>2, <2>1, HeldSame
    <2>3. Paid(b, H) = 0
      BY <1>7 DEF Paid, Moves
    <2> QED
      BY <1>a, <1>b, <2>2, <2>3
  <1> QED
    BY <1>5, <1>6, <1>7 DEF Moves

LEMMA CommitPaid ==
    ASSUME BankInv, RowsInv, NoNegativeTransfers, NoSelfTransfers, CreditsFit, NoOverdraft,
           NEW r \in Request, pc[r] = "commit", Apply(r), NEW H
    PROVE  Sum(PaidIn(transactions', H)) = Sum(PaidIn(transactions, H)) + Paid(body[r], H)
  <1> DEFINE b == body[r]
             new == InsertTransaction(r)
             old == PaidIn(transactions, H)
  <1>1. transactions' = transactions \cup new
    BY CommitTables
  <1>2. /\ \A t \in new : t \notin transactions
        /\ b.op \in {"Deposit", "Withdraw"} =>
               \E t : /\ new = {t} /\ t.account = b.from /\ t.txType # "Transfer"
                      /\ t.amount = Ledger!Change(b, b.from) /\ t.amount \in Int
        /\ b.op = "Transfer" =>
               \E t, u : /\ new = {t, u} /\ t.account = b.from /\ u.account = b.to
                         /\ t.txType = "Transfer" /\ u.txType = "Transfer"
                         /\ t.amount = Ledger!Change(b, b.from) /\ t.amount \in Int
                         /\ u.amount = Ledger!Change(b, b.to) /\ u.amount \in Int
                         /\ t # u
        /\ b.op \notin Moves => new = {}
    BY InsertedRows
  <1>3. PaidIn(transactions', H) = old \cup PaidIn(new, H)
    BY <1>1 DEF PaidIn
  <1>4. Amounts(old)
    BY RowsCounted DEF PaidIn
  <1>5. Sum(old) \in Int
    BY <1>4, SumTyped
  <1>6. CASE b.op \in {"Deposit", "Withdraw"} /\ b.from \in H
    <2> HIDE DEF new
    <2>1. PICK t : /\ new = {t} /\ t.account = b.from /\ t.txType # "Transfer"
                   /\ t.amount = Ledger!Change(b, b.from) /\ t.amount \in Int
      BY <1>2, <1>6
    <2>2. PaidIn(new, H) = {t} /\ t \notin old
      BY <1>2, <1>6, <2>1 DEF PaidIn
    <2> HIDE DEF old
    <2>3. Sum(old \cup {t}) = t.amount + Sum(old)
      BY <1>4, <2>1, <2>2, SumAdd
    <2>4. Paid(b, H) = t.amount
      BY <1>6, <2>1 DEF Paid
    <2>5. PaidIn(transactions', H) = old \cup {t}
      BY <1>3, <2>2
    <2>6. t.amount + Sum(old) = Sum(old) + t.amount
      BY <1>5, <2>1
    <2> QED
      BY <2>3, <2>4, <2>5, <2>6 DEF old
  <1>7. CASE ~ (b.op \in {"Deposit", "Withdraw"} /\ b.from \in H)
    <2> HIDE DEF new
    <2>1. PaidIn(new, H) = {}
      <3>1. CASE b.op \in {"Deposit", "Withdraw"}
        BY <1>2, <1>7, <3>1 DEF PaidIn
      <3>2. CASE b.op = "Transfer"
        BY <1>2, <3>2 DEF PaidIn
      <3>3. CASE b.op \notin Moves
        BY <1>2, <3>3 DEF PaidIn
      <3> QED
        BY <3>1, <3>2, <3>3 DEF Moves
    <2>2. Paid(b, H) = 0
      BY <1>7 DEF Paid
    <2>3. old \cup {} = old
      OBVIOUS
    <2> HIDE DEF old
    <2> QED
      BY <1>3, <1>5, <2>1, <2>2, <2>3 DEF old
  <1> QED
    BY <1>6, <1>7

LEMMA MoneyNext ==
    ASSUME BankInv, RowsInv, NoNegativeTransfers, NoSelfTransfers, CreditsFit, NoOverdraft,
           MoneyInSums, [Next]_vars
    PROVE  MoneyInSums'
  <1>1. CASE UNCHANGED tables
    <2>1. UNCHANGED <<currencies, accounts, balances, transactions>>
      BY <1>1 DEF tables
    <2>2. \A c : Holders(c)' = Holders(c)
      BY <2>1 DEF Holders
    <2>3. \A c \in currencies' :
              Held(balances', Holders(c)') = Sum(PaidIn(transactions', Holders(c)'))
      BY <2>1, <2>2 DEF MoneyInSums
    <2> QED
      BY <2>3 DEF MoneyInSums
  <1>2. ASSUME NEW r \in Request, pc[r] = "commit", Apply(r), NEW c \in currencies'
        PROVE  Held(balances', Holders(c)') = Sum(PaidIn(transactions', Holders(c)'))
    <2> DEFINE b == body[r]
               H == Holders(c)
               N == {a \in Created(r) : b.currency = c}
    <2>1. /\ DOMAIN accounts' = DOMAIN accounts \cup Created(r)
          /\ Created(r) \cap DOMAIN accounts = {}
          /\ \A a \in DOMAIN accounts : accounts'[a] = accounts[a]
          /\ \A a \in Created(r) : accounts'[a] = b.currency /\ balances'[a] = 0
          /\ transactions' = transactions \cup InsertTransaction(r)
      BY <1>2, CommitTables
    <2>2. Holders(c)' = H \cup N /\ H \subseteq DOMAIN accounts /\ H \cap N = {}
      BY <2>1 DEF Holders
    <2>3. Together(b, H)
      <3>1. b.op = "Transfer" => /\ {b.from, b.to} \subseteq DOMAIN accounts
                                 /\ accounts[b.from] = accounts[b.to]
        BY <1>2 DEF BankInv, RequestInv, QueryInv, InTx
      <3> QED
        BY <3>1 DEF Together, Holders
    <2>4. /\ Held(balances', H) = Held(balances, H) + Paid(b, H)
          /\ Held(balances, H) \in Int /\ Counted(balances', H)
      BY <1>2, <2>2, <2>3, CommitHeld
    <2>5. Sum(PaidIn(transactions', H)) = Sum(PaidIn(transactions, H)) + Paid(b, H)
      BY <1>2, CommitPaid
    <2>6. Held(balances, H) = Sum(PaidIn(transactions, H))
      <3>1. CASE c \in currencies
        BY <3>1 DEF MoneyInSums
      <3>2. CASE c \notin currencies
        <4>1. H = {}
          BY <3>2 DEF Holders, BankInv, AccountsHaveCurrency
        <4>2. PaidIn(transactions, H) = {}
          BY <4>1 DEF PaidIn
        <4> QED
          BY <4>1, <4>2, HeldEmpty, SumEmpty
      <3> QED
        BY <3>1, <3>2
    <2>7. PaidIn(transactions', H \cup N) = PaidIn(transactions', H)
      <3>1. \A t \in InsertTransaction(r) : t.account \in DOMAIN accounts
        BY <1>2, InsertedRows
      <3>2. \A t \in transactions' : t.account \in DOMAIN accounts
        BY <2>1, <3>1 DEF RowsInv
      <3>3. \A t \in transactions' : t.account \notin N
        BY <2>1, <3>2
      <3> QED
        BY <3>3 DEF PaidIn
    <2> HIDE DEF H, N
    <2>8. Held(balances', H \cup N) = Held(balances', H)
      <3>1. CASE N = {}
        <4>1. H \cup N = H
          BY <3>1
        <4> QED
          BY <4>1
      <3>2. CASE N # {}
        <4>1. PICK n : N = {n} /\ n \in Created(r)
          BY <3>2 DEF N, Created
        <4>2. n \notin H /\ balances'[n] = 0
          BY <2>1, <2>2, <4>1
        <4>3. Counted(balances', H \cup {n})
          BY <2>4, <4>2, FS_AddElement DEF Counted
        <4>4. /\ Held(balances', H \cup {n}) = balances'[n] + Held(balances', H)
              /\ Held(balances', H) \in Int
          BY <4>2, <4>3, HeldAdd
        <4> QED
          BY <4>1, <4>2, <4>4
      <3> QED
        BY <3>1, <3>2
    <2> QED
      BY <2>2, <2>4, <2>5, <2>6, <2>7, <2>8
  <1>3. ASSUME NEW r \in Request, pc[r] = "commit", Apply(r)
        PROVE  MoneyInSums'
    BY <1>2, <1>3 DEF MoneyInSums
  <1> QED
    BY <1>1, <1>3, OnlyCommitsWrite

-----------------------------------------------------------------------------

LEMMA RowsInvariant ==
    ASSUME NoNegativeTransfers, NoSelfTransfers
    PROVE  Spec /\ []CreditsFit => [](BankInv /\ NoOverdraft /\ RowsInv)
  <1>1. Init => RowsInv
    BY OpeningRows
  <1>2. BankInv /\ CreditsFit /\ NoOverdraft /\ RowsInv /\ [Next]_vars => RowsInv'
    BY RowsNext
  <1>3. Spec /\ []CreditsFit => []NoOverdraft
    BY NeverOverdrawn
  <1> QED
    BY <1>1, <1>2, <1>3, BankInvariant, PTL DEF Spec

(* Every balance is the sum of the account's transaction rows, for any       *)
(* number of accounts, requests and retries: what GetTransactions returns    *)
(* explains what GetAccountInfo returns.  It rests on the same conditions as *)
(* the ledger.                                                               *)
THEOREM BalancesAreSums ==
    ASSUME NoNegativeTransfers, NoSelfTransfers
    PROVE  Spec /\ []CreditsFit => []BalancesMatchTransactions
  <1>1. Init => BalancesMatchTransactions
    BY MatchInit
  <1>2. /\ BankInv /\ NoOverdraft /\ RowsInv
        /\ CreditsFit
        /\ BalancesMatchTransactions
        /\ [Next]_vars
        => BalancesMatchTransactions'
    BY MatchNext
  <1>3. Spec /\ []CreditsFit => [](BankInv /\ NoOverdraft /\ RowsInv)
    BY RowsInvariant
  <1> QED
    BY <1>1, <1>2, <1>3, PTL DEF Spec

(* The accounts of a currency together hold what was deposited less what was *)
(* withdrawn in it, for any number of accounts and currencies: no            *)
(* interleaving of transfers creates, destroys or converts money.            *)
THEOREM MoneyConserved ==
    ASSUME NoNegativeTransfers, NoSelfTransfers
    PROVE  Spec /\ []CreditsFit => []MoneyConservedPerCurrency
  <1>1. Init => MoneyInSums
    BY MoneyInit
  <1>2. /\ BankInv /\ NoOverdraft /\ RowsInv
        /\ CreditsFit
        /\ MoneyInSums
        /\ [Next]_vars
        => MoneyInSums'
    BY MoneyNext
  <1>3. Spec /\ []CreditsFit => [](BankInv /\ NoOverdraft /\ RowsInv)
    BY RowsInvariant
  <1>4. MoneyInSums <=> MoneyConservedPerCurrency
    BY PropertiesAsSums
  <1> QED
    BY <1>1, <1>2, <1>3, <1>4, PTL DEF Spec

-----------------------------------------------------------------------------

(* The request whose commit this step is has the only new effect.            *)
LEMMA NewEffect ==
    ASSUME BankInv, [Next]_vars, NEW r \in Request,
           <<r, attempt[r]>> \in applied' \ applied
    PROVE  pc[r] = "commit" /\ Apply(r)
  <1>1. PICK q \in Request : pc[q] = "commit" /\ Apply(q)
    BY OnlyCommitsWrite DEF tables
  <1>2. applied' = applied \cup {<<q, attempt[q]>>}
    BY <1>1, ApplyTables
  <1>3. q = r
    BY <1>2
  <1> QED
    BY <1>1, <1>3

LEMMA TransferNext ==
    ASSUME BankInv, RowsInv, NoNegativeTransfers, NoSelfTransfers, CreditsFit, NoOverdraft,
           [Next]_vars, NEW r \in Request, body[r].op = "Transfer",
           <<r, attempt[r]>> \in applied' \ applied
    PROVE  /\ balances'[body[r].from] < balances[body[r].from]
           /\ balances'[body[r].to] > balances[body[r].to]
  <1> DEFINE b == body[r]
  <1>1. pc[r] = "commit" /\ Apply(r)
    BY NewEffect
  <1>2. b \in Bodies /\ b.amount \in Int /\ b.from # b.to
    BY <1>1, Committing, BodyFields DEF NoSelfTransfers
  <1>3. b.amount > 0
    <2>1. ~ InvalidParams(b)
      BY <1>1 DEF BankInv, RequestInv, PlaceInv, InTx
    <2> QED
      BY <1>2, <2>1 DEF InvalidParams, NoNegativeTransfers
  <1>4. {b.from, b.to} \subseteq DOMAIN accounts
    BY <1>1 DEF BankInv, RequestInv, QueryInv, InTx
  <1>5. \A a \in {b.from, b.to} :
            balances'[a] = balances[a] + Ledger!Change(b, a) /\ balances[a] \in Int
    BY <1>1, <1>4, CommitTables
  <1>6. Ledger!Change(b, b.from) = -b.amount /\ Ledger!Change(b, b.to) = b.amount
    BY <1>2 DEF Ledger!Change
  <1> QED
    BY <1>2, <1>3, <1>5, <1>6

(* A transfer that takes effect lowers its from account and raises its to    *)
(* account, for any accounts, requests and retries: the negative amounts and *)
(* the transfers to oneself that service.go:331 lets pass, and overflow, are *)
(* the only ways for the test's claim to fail.                               *)
THEOREM TransfersDeductAndCredit ==
    ASSUME NoNegativeTransfers, NoSelfTransfers
    PROVE  Spec /\ []CreditsFit => TransferDeductsAndCredits
  <1>1. /\ BankInv /\ NoOverdraft /\ RowsInv
        /\ CreditsFit
        /\ [Next]_vars
        => [\A r \in Request :
               /\ body[r] # None
               /\ body[r].op = "Transfer"
               /\ <<r, attempt[r]>> \in applied' \ applied
               => /\ balances'[body[r].from] < balances[body[r].from]
                  /\ balances'[body[r].to] > balances[body[r].to]
           ]_vars
    BY TransferNext
  <1>2. Spec /\ []CreditsFit => [](BankInv /\ NoOverdraft /\ RowsInv)
    BY RowsInvariant
  <1> QED
    BY <1>1, <1>2, PTL DEF Spec, TransferDeductsAndCredits

=============================================================================
