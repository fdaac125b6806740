------------------------------ MODULE MCSettings ------------------------------
(* Instances of Settings and Sessions for TLC: a file with a password in clear, *)
(* one without any password, none, and requests with every combination of good, *)
(* missing and bad fields; logins with right and wrong names and passwords.     *)
EXTENDS Sessions, TLC

CONSTANTS q1, q2, l1, l2, v1

SomeFiles == {Missing, Default, Kept("root", "secret", NoSalt, NoHash, "default")}

SomeBodies == [user : {"", "root"}, password : {"", "changed", Short}, addr : {"", "other", Bad}]

\* Logins are alike and the run checks invariants only.
LoginSymmetry == Permutations(Logins)

\* What the change that passes auth, among logins, asks for: the name or the password,
\* and it may be rejected.
AccountBodies == {b \in SomeBodies : b.addr # "other"}
NoFile == {Missing}

SomeNames == {"admin", "root"}
SomeWords == {"admin", "changed"}

=============================================================================
