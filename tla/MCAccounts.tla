----------------------------- MODULE MCAccounts -----------------------------
(* Instances of Accounts for TLC. *)
EXTENDS Accounts, TLC

\* One thing at a time goes wrong, which keeps the number of states in bounds.
Disorders == {{"rename"}, {"dbError"}, {"newEmail"}, {"staleSave"}}
NoDisorder == {{}}

Symmetry ==
    UNION {Permutations(S) : S \in {Ids, Emails, Identities, Tokens, Tasks}}
=============================================================================
