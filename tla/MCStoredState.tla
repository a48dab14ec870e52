--------------------------- MODULE MCStoredState ----------------------------
(* Instances of StoredState for TLC: everybody owns an account.            *)
EXTENDS StoredState

MCSeed == [p \in BuiltIn |-> CHOOSE l \in Limits : TRUE]
MCOwner == CHOOSE f \in [Accounts -> People] : {f[a] : a \in Accounts} = People
MCRole == [u \in People |-> CHOOSE k \in Roles : TRUE]
=============================================================================
