--------------------------- MODULE MCShareAccess ----------------------------
(* Values for the constants of ShareAccess that a .cfg cannot write down. *)
EXTENDS ShareAccess, TLC

CONSTANTS a, b, c, pw    \* three addresses and a password

Plain == NoSetting
Views(n) == [NoSetting EXCEPT !.maxViews = n]
Addresses(n) == [NoSetting EXCEPT !.maxIps = n]
Listed(A) == [NoSetting EXCEPT !.allowedIps = A]
Secret == [NoSetting EXCEPT !.password = pw]

\* Every kind of limit, alone and with others.
SteadySettings == {Plain, Addresses(1), [Secret EXCEPT !.maxIps = 1],
                   [Secret EXCEPT !.maxViews = 2, !.allowedIps = {a}]}
ChangingSettings == {Plain, Addresses(1), Listed({a})}
TokenSettings == {Plain, Addresses(1)}
ViewSettings == {Views(1)}
AddressSettings == {Addresses(1), Addresses(2)}

NoUpdates == {}
PasswordUpdates == {{"password"}}
AddressUpdates == {{"maxIps"}, {"maxIps", "allowedIps"}}

VisitSymmetry == Permutations(Visits)
=============================================================================
