------------------------------ MODULE MCAccounts ------------------------------
\* Two people who register, log in and change a password, one who comes with a
\* company JWT, and an administrator who changes emails.
EXTENDS Accounts, TLC

CONSTANTS c1, c2, i1, i2
TwoCalls == {c1, c2}
TwoInstances == {i1, i2}
OneInstance == {i1}

MCRequests ==
  {[op |-> "register", email |-> "ann", pw |-> "one"],
   [op |-> "register", email |-> "bob", pw |-> "one"],
   [op |-> "login", email |-> "ann", pw |-> "one"],
   [op |-> "change", old |-> "one", pw |-> "two"],
   [op |-> "change", old |-> "one", pw |-> "three"],
   [op |-> "jwt", staff |-> "s1", email |-> "ann"],
   [op |-> "jwt", staff |-> "s1", email |-> NoEmail],
   [op |-> "grant", email |-> "bob"], [op |-> "grant", email |-> NoEmail],
   [op |-> "patCreate", expires |-> 0], [op |-> "patCreate", expires |-> 1], [op |-> "patDelete"], [op |-> "pat"]}

OneAccount == {[email |-> "ann", pw |-> "one"]}
Symmetry == Permutations(TwoCalls) \cup Permutations(Instances)
===============================================================================
