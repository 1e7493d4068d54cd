\* One transfer from an account to itself.
SPECIFICATION Spec
CONSTANTS
    a1 = a1
    a2 = a2
    a3 = a3
    a4 = a4
    k1 = k1
    k2 = k2
    USD = USD
    TWD = TWD
    EUR = EUR
    None = None
    Account = {a1, a2}
    Currency = {USD, TWD, EUR}
    Key = {k1, k2}
    Request = {r1, r2}
    Bodies <- MCToItself
    Opening <- MCFunded
    MaxConns = 2
    MaxAttempts = 1
    Half = 8
INVARIANT
    BalancesMatchTransactions
