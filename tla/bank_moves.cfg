\* Three concurrent requests of five bodies, each sent up to twice.
SPECIFICATION Spec
CONSTANTS
    a1 = a1
    a2 = a2
    a3 = a3
    a4 = a4
    k1 = k1
    k2 = k2
    USD = USD
    TWD = TWD
    EUR = EUR
    None = None
    Account = {a1, a2}
    Currency = {USD, TWD, EUR}
    Key = {k1, k2}
    Request = {r1, r2, r3}
    Bodies <- MCMoves
    Opening <- MCFunded
    MaxConns = 3
    MaxAttempts = 2
    Half = 8
SYMMETRY RequestSymmetry
INVARIANTS
    BalancesMatchTransactions
    NoOverdraft
    AppliedOncePerKey
    AnswersAreTrue
PROPERTY
    ImplementsLedger
