----------------------------- MODULE AppManager -----------------------------
(***************************************************************************)
(* The contract AppManager: apps, each with an owner and the public key    *)
(* its signatures are checked with.                                        *)
(***************************************************************************)
EXTENDS FrostVerify

CONSTANTS
    Apps,      \* app ids
    Accounts,  \* who sends transactions
    Admin,     \* the account that deployed the contract
    PublicKeys \* the numbers registered as keys, valid ones or not

ASSUME AppAssumption ==
    /\ Apps # {} /\ Admin \in Accounts
    /\ PublicKeys \subseteq Nat \X Nat

VARIABLES
    apps,
    zecFrost   \* the verifier's address

appVars == <<apps, zecFrost>>

\* The deployed ZecFrost, or another contract with its interface.
Verifiers == {"ZecFrost", "other"}
ZeroContract == "zero"

NoApp == [exists |-> FALSE]
AppInfo(owner, key) ==
    [exists |-> TRUE, appOwner |-> owner, key |-> key, signerAddr |-> Address(key[1], key[2])]

AppInfos == {AppInfo(o, key) : o \in Accounts, key \in PublicKeys}

\* constructor
AppManagerInit ==
    /\ apps = [a \in Apps |-> NoApp]
    /\ zecFrost = "ZecFrost"

onlyAppOwner(sender, a) == apps[a].exists /\ apps[a].appOwner = sender

setZecFrost(sender, contract) ==
    /\ sender = Admin
    /\ contract # ZeroContract
    /\ zecFrost' = contract
    /\ UNCHANGED apps

AddAppOver(sender, a, key) ==
    /\ apps' = [apps EXCEPT ![a] = AppInfo(sender, key)]
    /\ UNCHANGED zecFrost

addApp(sender, a, key) ==
    /\ ~apps[a].exists
    /\ apps' = [apps EXCEPT ![a] = AppInfo(sender, key)]
    /\ UNCHANGED zecFrost

UpdateKeyOnly(sender, a, key) ==
    /\ onlyAppOwner(sender, a)
    /\ apps' = [apps EXCEPT ![a].key = key]
    /\ UNCHANGED zecFrost

updateApp(sender, a, key) ==
    /\ onlyAppOwner(sender, a)
    /\ apps' = [apps EXCEPT ![a] = AppInfo(@.appOwner, key)]
    /\ UNCHANGED zecFrost

removeApp(sender, a) ==
    /\ onlyAppOwner(sender, a)
    /\ apps' = [apps EXCEPT ![a] = NoApp]
    /\ UNCHANGED zecFrost

\* verify, a view: what it may return for an app that exists.  Another verifier
\* returns whatever it likes.
verify(message, a, rx, ry, z) ==
    LET key == apps[a].key
        recovered == IF zecFrost = "ZecFrost"
                     THEN {ZecFrostVerify(message, key[1], key[2], rx, ry, z)}
                     ELSE {ZeroAddress, apps[a].signerAddr}
    IN {signer = apps[a].signerAddr : signer \in recovered}

AppManagerTypeOK ==
    /\ apps \in [Apps -> {NoApp} \cup AppInfos]
    /\ zecFrost \in Verifiers
=============================================================================
