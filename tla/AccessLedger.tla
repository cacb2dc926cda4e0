---------------------------- MODULE AccessLedger ----------------------------
(***************************************************************************)
(* What auth and user service promise together, whatever their steps: an   *)
(* account is opened for an address nobody has, and closed for good; a     *)
(* refresh token is owed only to an account that is open at that moment,   *)
(* is handed out once, and never comes back when it is over.               *)
(***************************************************************************)
CONSTANT Grants  \* what may be granted

VARIABLES
    address,  \* grant |-> the address it is asked for with; fixed
    account,  \* the account opened with a grant: "none", "live", "deleted"
    grant,    \* "none", "owed", "live" or "over"
    holder    \* grant |-> the account it is owed to: {} or {account}

vars == <<address, account, grant, holder>>

Init ==
    /\ account = [g \in Grants |-> "none"]
    /\ grant = [g \in Grants |-> "none"]
    /\ holder = [g \in Grants |-> {}]

\* An account comes with the first token owed to it.
Open(g) ==
    /\ account[g] = "none" /\ grant[g] = "none"
    /\ \A h \in Grants : account[h] # "none" => address[h] # address[g]
    /\ account' = [account EXCEPT ![g] = "live"]
    /\ grant' = [grant EXCEPT ![g] = "owed"]
    /\ holder' = [holder EXCEPT ![g] = {g}]
    /\ UNCHANGED address

Admit(g) ==
    /\ grant[g] = "none"
    /\ \E a \in Grants : account[a] = "live" /\ holder' = [holder EXCEPT ![g] = {a}]
    /\ grant' = [grant EXCEPT ![g] = "owed"]
    /\ UNCHANGED <<address, account>>

Give(g) ==
    /\ grant[g] = "owed"
    /\ grant' = [grant EXCEPT ![g] = "live"]
    /\ UNCHANGED <<address, account, holder>>

Revoke(g) ==
    /\ grant[g] \in {"owed", "live"}
    /\ grant' = [grant EXCEPT ![g] = "over"]
    /\ UNCHANGED <<address, account, holder>>

Close(a) ==
    /\ account[a] = "live"
    /\ account' = [account EXCEPT ![a] = "deleted"]
    /\ UNCHANGED <<address, grant, holder>>

Next == \E g \in Grants : Open(g) \/ Admit(g) \/ Give(g) \/ Revoke(g) \/ Close(g)

Spec == Init /\ [][Next]_vars

=============================================================================
