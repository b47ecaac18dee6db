----------------------------- MODULE MCAccounts -----------------------------
EXTENDS Accounts, TLC

\* Handlers are alike, and so are passwords.
Alike == Permutations(Handlers) \cup Permutations(Passwords)

=============================================================================
