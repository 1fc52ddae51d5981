------------------------------ MODULE MCServices ------------------------------
(***************************************************************************)
(* Instances of Party, Scripts and Paths for TLC: parts of the server that *)
(* share no state, so a behaviour moves one of them and leaves the others  *)
(* where they start.                                                       *)
(***************************************************************************)
EXTENDS Party, Scripts, Paths

CONSTANTS p1, p2, p3, i1, a1, a2

VARIABLE part

Symmetry == Permutations(Player)

\* Ten tiles around a pillar, a place for a box on the short way around it, and two tiles on
\* the long way where a third creature passes.
Ground == ({0} \X (0 .. 2)) \cup {<<1, 0>>, <<1, 1>>, <<1, 3>>} \cup ({2} \X (0 .. 3))
Pillar == {<<1, 1>>}
Boxed == {<<1, 0>>}
Beside == {<<2, 2>>, <<1, 3>>}

ServicesInit ==
    /\ part \in {"party", "scripts", "paths"}
    /\ Init /\ ScriptInit /\ PathInit
    /\ hunter.distance = IF hunter.kind = "player" THEN 1 ELSE 2
    /\ part # "paths" => hunter.kind = "player" /\ stand = [self |-> <<0, 0>>, leader |-> <<2, 2>>, bystander |-> Away]

ServicesNext ==
    \/ part = "party" /\ Next /\ UNCHANGED <<part, scriptVars, pathVars>>
    \/ part = "scripts" /\ ScriptNext /\ UNCHANGED <<part, vars, pathVars>>
    \/ part = "paths" /\ PathNext /\ UNCHANGED <<part, vars, scriptVars>>

ServicesSpec == ServicesInit /\ [][ServicesNext]_<<part, vars, scriptVars, pathVars>>

\* Every variable of the parts has its type.
ServicesTypeOK == TypeOK /\ ScriptTypeOK /\ PathTypeOK
=============================================================================
