------------------------------ MODULE MCAccount ------------------------------
(* The tasks of the instances: what a .cfg cannot write down. *)
EXTENDS Account, TLC

CONSTANTS p, q

Asks(op) == [op |-> op, password |-> q, old |-> p]

Kind(ops) == {Asks(op) : op \in ops}

ByMail == Kind({"request", "reset", "delete"})

WithCode == Kind({"signIn", "totp", "signOut", "delete"})

OfTotp == Kind({"enable", "verify", "disable"})

OfPassword == Kind({"signIn", "password", "delete"})

Each == {ByMail, WithCode, OfTotp, OfPassword}

Codes == {WithCode}

Totp == {OfTotp}

Passes == {OfPassword}
=============================================================================
