------------------------------- MODULE MCUsers -------------------------------
(* The requests of the instances: what a .cfg cannot write down. *)
EXTENDS Users, TLC

CONSTANTS f1, f2, a, b, c, dn1, x

Asks(op) == [op |-> op, user |-> None, email |-> None, admin |-> "unset", dn |-> None,
             identity |-> None]

SignUps == {[Asks("signUp") EXCEPT !.email = e] : e \in {a, b}}

Deletions == {[Asks("delete") EXCEPT !.user = u] : u \in {f1, f2}}

Promotions == {[Asks("update") EXCEPT !.user = f2, !.admin = "yes"]}

Demotions == {[Asks("update") EXCEPT !.user = u, !.admin = "no"] : u \in {f1, f2}}

Invitations == {[Asks("invite") EXCEPT !.email = b, !.admin = y] : y \in {"yes", "no"}}

Moves == {[Asks("update") EXCEPT !.user = f1, !.email = b]}

LdapUsers == {[Asks("ldap") EXCEPT !.email = e, !.dn = dn1, !.admin = "yes"] : e \in {a, b}}

OAuthUsers == {[Asks("oauth") EXCEPT !.email = b, !.identity = x, !.admin = y] :
                   y \in {"yes", "unset"}}

Linkings == {[Asks("link") EXCEPT !.user = u, !.identity = x] : u \in {f1, f2}}

Unlinkings == {[Asks("unlink") EXCEPT !.user = f1]}

Kept == SignUps \cup Deletions \cup Promotions \cup Invitations \cup Moves \cup LdapUsers
        \cup OAuthUsers \cup Linkings \cup Unlinkings
LastAdmin == Deletions \cup {[Asks("signUp") EXCEPT !.email = c]}

Demoted == LastAdmin \cup Demotions

FirstSignUps == SignUps
=============================================================================
