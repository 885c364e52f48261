----------------------------- MODULE MCAccounts -----------------------------
\* Instance of Accounts for model checking: browsers, addresses and passwords
\* are interchangeable.
EXTENDS Accounts, TLC

Symmetry ==
    Permutations(Clients) \cup Permutations(Emails) \cup Permutations(Passwords)
=============================================================================
