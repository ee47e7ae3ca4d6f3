------------------------------- MODULE MCWallet -------------------------------
(* Small instances of Wallet for TLC.                                      *)
EXTENDS Wallet, TLC

CONSTANTS u1, c1, c2, o1, n1, n2

\* One user on two devices, one order.
Users == {u1}
Accounts1 == [c \in {c1, c2} |-> u1]
Debtors == [o \in {o1} |-> u1]
Clients == {c1, c2}
Numbers == {n1, n2}

\* Devices and numbers are interchangeable, and nothing here is about progress.
Symmetric == Permutations(Clients) \cup Permutations(Numbers)
=============================================================================
