------------------------------- MODULE MCBank -------------------------------
(* Request bodies and opening balances for Bank.                             *)
EXTENDS Bank, TLC

CONSTANTS a1, a2, a3, a4, k1, k2, USD, TWD, EUR

(* Two funded USD accounts.                                                  *)
MCFunded ==
    a1 :> [currency |-> USD, amount |-> 2] @@
    a2 :> [currency |-> USD, amount |-> 1]

(* Requests that contend for a1, a2, the key k1 and a currency, and one that *)
(* looks at a1.                                                              *)
MCMoves ==
    {WithdrawRequest(a1, 2, k1),
     TransferRequest(a1, a2, 2, k2),
     TransferRequest(a2, a1, 1, k1),
     CreateCurrencyRequest(EUR, TRUE),
     GetAccountInfoRequest(a1, TRUE)}

(* A TWD account beside them.                                                *)
MCTwoCurrencies == MCFunded @@ a3 :> [currency |-> TWD, amount |-> 0]

(* Requests that set up a currency and the account a4 and use it, transfers  *)
(* in opposite directions, between currencies and of nothing, and the reads. *)
MCSetup ==
    {CreateCurrencyRequest(EUR, TRUE),
     CreateAccountRequest(TRUE, EUR, k1),
     DepositRequest(a4, 1, k2),
     TransferRequest(a1, a4, 1, k2),
     TransferRequest(a1, a3, 1, k2),
     TransferRequest(a1, a2, 1, k1),
     TransferRequest(a2, a1, 1, k2),
     TransferRequest(a2, a1, 0, k2),
     GetAccountInfoRequest(a4, TRUE),
     GetCurrenciesRequest}

MCNegative == {TransferRequest(a1, a2, -1, k1)}

MCToItself == {TransferRequest(a1, a1, 1, k1)}

RequestSymmetry == Permutations(Request)

=============================================================================
