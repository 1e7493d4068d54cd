----------------------------- MODULE BankLedger -----------------------------
(***************************************************************************)
(* What the bank service promises: a ledger on which every request takes   *)
(* effect at one moment, in full, at most once per idempotency key and     *)
(* only if it is possible at that moment.                                  *)
(*                                                                         *)
(* A request that is refused was impossible, or its key spent, at the      *)
(* moment of the answer, and the balances in an answer are those of the    *)
(* moment at which the request took effect.  A request whose outcome is    *)
(* unknown to its client may have taken effect or not, and may be sent     *)
(* again.  There are no transactions, locks or connections here, and       *)
(* amounts are numbers without a limit.                                    *)
(***************************************************************************)
EXTENDS Integers

CONSTANTS
    Request,        \* the requests, each of one client
    Account,        \* account IDs
    Bodies,         \* what clients may ask for
    Opening,        \* accounts at the start: account -> [currency, amount]
    None            \* nothing asked, no account, no key

VARIABLES
    currencies, accounts, balances,
    keys,           \* the idempotency keys that are spent
    asked,          \* what each request asks for
    outcome,        \* what its client was told
    shown           \* the balances in that answer

vars == <<currencies, accounts, balances, keys, asked, outcome, shown>>

NoBalances == [from |-> 0, to |-> 0]

Init ==
    /\ currencies = {Opening[a].currency : a \in DOMAIN Opening}
    /\ accounts = [a \in DOMAIN Opening |-> Opening[a].currency]
    /\ balances = [a \in DOMAIN Opening |-> Opening[a].amount]
    /\ keys = {}
    /\ asked = [r \in Request |-> None]
    /\ outcome = [r \in Request |-> "pending"]
    /\ shown = [r \in Request |-> NoBalances]

-----------------------------------------------------------------------------

Moves == {"Deposit", "Withdraw", "Transfer"}

Reads == {"GetCurrencies", "GetAccountInfo"}

(* The request makes sense by itself.                                        *)
Valid(b) == b.valid /\ (b.op \in Moves => b.amount > 0)

(* The ledger allows it now.                                                 *)
Possible(b) ==
    /\ b.op = "CreateCurrency" => b.currency \notin currencies
    /\ b.op = "CreateAccount" => b.currency \in currencies
    /\ b.op \in Moves \cup {"GetAccountInfo"} => b.from \in DOMAIN accounts
    /\ b.op = "Transfer" =>
           /\ b.to \in DOMAIN accounts \ {b.from}
           /\ accounts[b.from] = accounts[b.to]
    /\ b.op \in {"Withdraw", "Transfer"} => balances[b.from] >= b.amount

(* What the request does to the balance of account a.                        *)
Change(b, a) ==
    CASE b.op = "Deposit" /\ a = b.from                 -> b.amount
      [] b.op \in {"Withdraw", "Transfer"} /\ a = b.from -> -b.amount
      [] b.op = "Transfer" /\ a = b.to                  -> b.amount
      [] OTHER                                          -> 0

(* The balances of the accounts that the request names.                      *)
BalancesOf(b) ==
    [from |-> IF b.op \in Moves \cup {"GetAccountInfo"} THEN balances[b.from] ELSE 0,
     to   |-> IF b.op = "Transfer" THEN balances[b.to] ELSE 0]

Pending(r) == asked[r] # None /\ outcome[r] = "pending"

Tell(r, what, numbers) ==
    /\ outcome' = [outcome EXCEPT ![r] = what]
    /\ shown' = [shown EXCEPT ![r] = numbers]
    /\ UNCHANGED asked

-----------------------------------------------------------------------------

Ask(r, b) ==
    /\ asked[r] = None
    /\ asked' = [asked EXCEPT ![r] = b]
    /\ UNCHANGED <<currencies, accounts, balances, keys, outcome, shown>>

AskAgain(r) ==
    /\ outcome[r] = "unknown"
    /\ Tell(r, "pending", NoBalances)
    /\ UNCHANGED <<currencies, accounts, balances, keys>>

(* The request takes effect.  The client is told, or does not know.          *)
Perform(r) ==
    LET b == asked[r]
    IN  /\ Pending(r)
        /\ Tell(r, "done", BalancesOf(b)) \/ Tell(r, "unknown", NoBalances)
        /\ b.op \notin Reads
        /\ Valid(b) /\ Possible(b) /\ b.key \notin keys
        /\ \E created \in IF b.op = "CreateAccount"
                          THEN {{a} : a \in Account \ DOMAIN accounts} ELSE {{}} :
               /\ accounts' = [a \in DOMAIN accounts \cup created |->
                                  IF a \in created THEN b.currency ELSE accounts[a]]
               /\ balances' = [a \in DOMAIN balances \cup created |->
                                  IF a \in created THEN 0 ELSE balances[a] + Change(b, a)]
        /\ currencies' = currencies \cup
               (IF b.op = "CreateCurrency" THEN {b.currency} ELSE {})
        /\ keys' = keys \cup ({b.key} \ {None})

(* The request is answered and has no effect.                                *)
Answer(r) ==
    LET b == asked[r]
    IN  /\ Pending(r)
        /\ \/ /\ Tell(r, "done", BalancesOf(b))
              /\ b.op \in Reads /\ Valid(b) /\ Possible(b)
           \/ Tell(r, "invalid", NoBalances) /\ ~ Valid(b)
           \/ Tell(r, "impossible", NoBalances) /\ ~ Possible(b)
           \/ Tell(r, "duplicate", NoBalances) /\ b.key \in keys
           \/ Tell(r, "unknown", NoBalances)
        /\ UNCHANGED <<currencies, accounts, balances, keys>>

Next ==
    \E r \in Request :
        \/ \E b \in Bodies : Ask(r, b)
        \/ AskAgain(r)
        \/ Perform(r)
        \/ Answer(r)

Spec == Init /\ [][Next]_vars

=============================================================================
