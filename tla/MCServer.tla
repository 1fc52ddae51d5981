------------------------------ MODULE MCServer ------------------------------
(***************************************************************************)
(* Instances of Session and of what goes on around the connections for     *)
(* TLC, as parts that share no state.                                      *)
(***************************************************************************)
EXTENDS Session, Bans, Accounts, TLC

CONSTANTS t1, t2, t3, a, b, ann, bob, gm, acc1, acc2, i1, i2, c1, c2, k1, k2, x1, acc

VARIABLE part

\* The connections are alike: the one that goes on first is t1, the next one t2.
Sessions ==
    /\ Next
    /\ pc'[t1] = "auth" => pc'[t2] = "auth"
    /\ pc'[t2] = "auth" => pc'[t3] = "auth"

-----------------------------------------------------------------------------
\* Ann and Bob share an account.  One part asks who may try, one who stays out, and one what
\* becomes of the lists.
Owners == [c \in {ann, bob, gm} |-> IF c = gm THEN acc2 ELSE acc1]

Visits ==
    /\ Ask \/ Attempt \/ Tick \/ Restart
    /\ \A v \in Connection : visits'[v].name # bob

\* A single connection, from one address, with the right password.
Expelling ==
    /\ \/ BanAndKick \/ ParseBanPlayer \/ BanPlayerKicks \/ BansManagerAdd
       \/ Ask \/ Attempt \/ Login \/ LoseConnection \/ Leave
    /\ visits'[c2] = Idle
    /\ visits'[c1].from # i2 /\ visits'[c1].right = (visits'[c1].stage # "idle")
    /\ \A k \in BanKinds : \A x \in Range(bans'[k]) : x.until # Forever

Lists ==
    /\ \/ BanAndKick \/ BansManagerAdd \/ BansManagerShow \/ BansManagerRemove
       \/ SaveBans \/ Restart \/ Tick
    /\ bans'["account"] = <<>>

-----------------------------------------------------------------------------
\* The elite are knights that were promoted.
Unpromoted == [v \in {"rookie", "knight", "elite"} |-> IF v = "elite" THEN "knight" ELSE v]

\* One part has two conversations while nobody plays, one has one while others play.
Making == ClerkComes \/ ClerkGoes \/ Says \/ OpensAccount \/ InsertsFigure \/ StoresAccount
Paying == AccountsNext /\ clerks'[k2] = NoClerk

-----------------------------------------------------------------------------
Parts == {"session", "visits", "expelling", "lists", "accounts", "premium"}

ServerInit ==
    /\ part \in Parts
    /\ IF part = "session" THEN TRUE ELSE name = [t \in Conn |-> a]
    /\ Init
    /\ BansInit /\ online[gm] = i1
    /\ AccountsInit

ServerNext ==
    \/ part = "session" /\ Sessions /\ UNCHANGED <<part, banVars, accountVars>>
    \/ part = "visits" /\ Visits /\ UNCHANGED <<part, vars, accountVars>>
    \/ part = "expelling" /\ Expelling /\ UNCHANGED <<part, vars, accountVars>>
    \/ part = "lists" /\ Lists /\ UNCHANGED <<part, vars, accountVars>>
    \/ part = "accounts" /\ Making /\ UNCHANGED <<part, vars, banVars>>
    \/ part = "premium" /\ Paying /\ UNCHANGED <<part, vars, banVars>>

ServerSpec == ServerInit /\ [][ServerNext]_<<part, vars, banVars, accountVars>>

\* Every variable of the parts has its type.
ServerTypeOK == TypeOK /\ BansTypeOK /\ AccountsTypeOK
=============================================================================
