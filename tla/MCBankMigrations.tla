-------------------------- MODULE MCBankMigrations --------------------------
(* BankMigrations with the tables of migrations.go: currencies, accounts,    *)
(* balances, transactions and idempotency_keys.                              *)
EXTENDS BankMigrations, TLC

MCReferences == <<{}, {1}, {2}, {2, 4}, {}>>

ProcessSymmetry == Permutations(Process)

=============================================================================
