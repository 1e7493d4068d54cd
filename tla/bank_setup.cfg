\* Three concurrent requests that create what the others use, on two
\* connections; an ID for every CreateAccount.
SPECIFICATION Spec
CONSTANTS
    a1 = a1
    a2 = a2
    a3 = a3
    a4 = a4
    k1 = k1
    k2 = k2
    USD = USD
    TWD = TWD
    EUR = EUR
    None = None
    Account = {a1, a2, a3, a4, a5, a6}
    Currency = {USD, TWD, EUR}
    Key = {k1, k2}
    Request = {r1, r2, r3}
    Bodies <- MCSetup
    Opening <- MCTwoCurrencies
    MaxConns = 2
    MaxAttempts = 1
    Half = 8
INVARIANTS
    TypeOK
    MoneyConservedPerCurrency
PROPERTIES
    ImplementsLedger
    EveryRequestAnswered
