------------------------------- MODULE Party --------------------------------
(***************************************************************************)
(* Parties (party.cpp, the party packets of protocol79.cpp, the end of     *)
(* Game::removeCreature).  The packet handlers hold no lock: each runs on  *)
(* the thread of its connection, which first looks up the target and a     *)
(* Party pointer and then calls a method through it.  These two parts are  *)
(* steps of their own.  A method is one step: what two of them do to one   *)
(* std::vector at the same moment is beyond this model.                    *)
(* A pointer to a deleted object that is used, or an erase at end(), ends  *)
(* the program: broken.                                                    *)
(***************************************************************************)
EXTENDS Naturals, FiniteSets, Sequences, SequencesExt

CONSTANTS Player,      \* Player objects, and the threads that serve them
          MaxParty,    \* bound: parties ever created
          MaxSize,     \* bound: members and invitations of all parties
          MaxCall,     \* bound: threads between look-up and call
          None         \* NULL

ASSUME PartyAssumption ==
    /\ IsFiniteSet(Player)
    /\ MaxParty \in Nat
    /\ MaxSize \in Nat
    /\ MaxCall \in Nat
    /\ None \notin Player \cup Nat

VARIABLES
    listed,     \* Player::listPlayer
    freed,      \* deleted Player objects
    created,    \* parties created so far
    live,       \* parties that are not deleted
    party,      \* Player::party
    leader,     \* Party::leader
    members,    \* Party::members
    invited,    \* Party::invitedplayers: how often a player is in it
    call,       \* the method a thread is about to call
    broken      \* undefined behaviour has happened

partyVars == <<live, party, leader, members, invited>>
vars == <<listed, freed, created, partyVars, call, broken>>

PartyId == 1 .. MaxParty
Method == {"create", "invite", "revoke", "accept", "pass", "kick"}
Nobody == [q \in Player |-> 0]
NoCall == [op |-> "none", on |-> None, target |-> None]
Call == [op : Method, on : PartyId \cup {None}, target : Player]

TypeOK ==
    /\ listed \subseteq Player
    /\ freed \subseteq Player
    /\ created \in 0 .. MaxParty
    /\ live \subseteq 1 .. created
    /\ party \in [Player -> PartyId \cup {None}]
    /\ leader \in [PartyId -> Player \cup {None}]
    /\ members \in [PartyId -> Seq(Player)]
    /\ invited \in [PartyId -> [Player -> Nat]]
    /\ call \in [Player -> Call \cup {NoCall}]
    /\ broken \in BOOLEAN

Init ==
    /\ listed = Player
    /\ freed = {}
    /\ created = 0
    /\ live = {}
    /\ party = [p \in Player |-> None]
    /\ leader = [a \in PartyId |-> None]
    /\ members = [a \in PartyId |-> <<>>]
    /\ invited = [a \in PartyId |-> Nobody]
    /\ call = [p \in Player |-> NoCall]
    /\ broken = FALSE

\* What MaxSize bounds.
Size == Cardinality(UNION {{a} \X DOMAIN members[a] : a \in PartyId})
        + Cardinality({i \in PartyId \X Player \X (1 .. MaxSize) : i[3] <= invited[i[1]][i[2]]})

-----------------------------------------------------------------------------
(* The packet handlers, up to the call.                                     *)

Prepare(p, op, a, t) ==
    /\ ~broken
    /\ p \in listed /\ t \in listed
    /\ call[p] = NoCall
    /\ Cardinality({q \in Player : call[q] # NoCall}) < MaxCall
    /\ call' = [call EXCEPT ![p] = [op |-> op, on |-> a, target |-> t]]
    /\ UNCHANGED <<listed, freed, created, partyVars, broken>>

ParseInviteParty(p, t) ==
    \/ party[p] = None /\ Prepare(p, "create", None, t)
    \/ party[p] # None /\ leader[party[p]] = p /\ Prepare(p, "invite", party[p], t)

ParseRevokeParty(p, t) == party[p] # None /\ Prepare(p, "revoke", party[p], t)

ParseJoinParty(p, t) == party[t] # None /\ Prepare(p, "accept", party[t], t)

ParsePassLeadership(p, t) ==
    /\ party[p] # None
    /\ leader[party[p]] = p
    /\ Prepare(p, "pass", party[p], t)

ParseLeaveParty(p) == party[p] # None /\ Prepare(p, "kick", party[p], p)

-----------------------------------------------------------------------------
(* The methods of Party.                                                    *)

Invited(a) == {q \in Player : invited[a][q] > 0}

\* The player objects that party a is made of.
Everybody(a) == {leader[a]} \cup ToSet(members[a]) \cup Invited(a)

\* The player objects that Party::kickPlayer of q touches.
KickTouches(a, q) ==
    IF q = leader[a]
    THEN IF members[a] = <<>> \/ party[Head(members[a])] = a
         THEN Everybody(a) ELSE {Head(members[a])}
    ELSE IF members[a] = <<>> \/ q \in ToSet(members[a])
         THEN {leader[a]} \cup ToSet(members[a]) ELSE {}

\* The player objects that thread p touches in its call, on a live party.
Touches(p) ==
    LET a == call[p].on
        t == call[p].target
        op == call[p].op
    IN  CASE op = "create" -> {t}
          [] op = "invite" -> {t, leader[a]}
          [] op = "revoke" -> IF t \in Invited(a) THEN {t, leader[a]} ELSE {}
          [] op = "accept" -> IF p \in Invited(a)
                              THEN {leader[a]} \cup ToSet(members[a]) ELSE {}
          [] op = "pass"   -> IF party[t] = a THEN {t} \cup Everybody(a) ELSE {t}
          [] op = "kick"   -> KickTouches(a, p)

\* Thread p is about to call op on a party.
Calls(p, op, a, t) ==
    /\ ~broken
    /\ call[p] # NoCall
    /\ call[p].op = op /\ call[p].on = a /\ call[p].target = t

\* Mutant of Returns: the target of the call is left over.
ReturnsPartly(p) ==
    /\ call' = [call EXCEPT ![p].op = "none"]
    /\ UNCHANGED <<listed, freed, broken>>

Returns(p) ==
    /\ call' = [call EXCEPT ![p] = NoCall]
    /\ UNCHANGED <<listed, freed, broken>>

\* Neither the party of the call nor an object it touches is deleted.
Sound(p) ==
    /\ call[p].on # None => call[p].on \in live
    /\ Touches(p) \cap freed = {}

Break(p) ==
    /\ ~broken
    /\ call[p] # NoCall
    /\ ~Sound(p)
    /\ broken' = TRUE
    /\ UNCHANGED <<listed, freed, created, partyVars, call>>

\* Party::createParty and the invitation it makes; a leader who invites
\* himself is in a party by then.
CreateParty(p, t) ==
    /\ Calls(p, "create", None, t) /\ Sound(p)
    /\ \/ /\ party[t] # None
          /\ UNCHANGED <<created, partyVars>>
       \/ /\ party[t] = None
          /\ created < MaxParty
          /\ Size < MaxSize
          /\ created' = created + 1
          /\ live' = live \cup {created'}
          /\ party' = [party EXCEPT ![p] = created']
          /\ leader' = [leader EXCEPT ![created'] = p]
          /\ invited' = [invited EXCEPT ![created'] = [Nobody EXCEPT ![t] = IF t = p THEN 0 ELSE 1]]
          /\ UNCHANGED members
    /\ Returns(p)

\* Party::invitePlayer; it does not look for an earlier invitation.
InvitePlayer(p, a, t) ==
    /\ Calls(p, "invite", a, t) /\ Sound(p)
    /\ Size < MaxSize
    /\ invited' = IF party[t] # None THEN invited
                  ELSE [invited EXCEPT ![a][t] = @ + 1]
    /\ UNCHANGED <<created, live, party, leader, members>>
    /\ Returns(p)

\* Party::acceptInvitation; it does not look at p's present party.
AcceptInvitation(p, a, t) ==
    /\ Calls(p, "accept", a, t) /\ Sound(p)
    /\ \/ /\ p \notin Invited(a)
          /\ UNCHANGED partyVars
       \/ /\ p \in Invited(a)
          /\ invited' = [invited EXCEPT ![a][p] = @ - 1]
          /\ members' = [members EXCEPT ![a] = Append(@, p)]
          /\ party' = [party EXCEPT ![p] = a]
          /\ UNCHANGED <<live, leader>>
    /\ UNCHANGED created
    /\ Returns(p)

\* Mutant of Disband: the leader keeps the pointer to the party.
DisbandMembersOnly(a, r, l, m) ==
    /\ live' = live \ {a}
    /\ party' = [q \in Player |-> IF q \in ToSet(m) THEN None ELSE r[q]]
    /\ leader' = [leader EXCEPT ![a] = None]
    /\ members' = [members EXCEPT ![a] = <<>>]
    /\ invited' = [invited EXCEPT ![a] = Nobody]

\* Party::disband, when leader l and the members m are left; r is party
\* as it is before.
Disband(a, r, l, m) ==
    /\ live' = live \ {a}
    /\ party' = [q \in Player |-> IF q = l \/ q \in ToSet(m) THEN None ELSE r[q]]
    /\ leader' = [leader EXCEPT ![a] = None]
    /\ members' = [members EXCEPT ![a] = <<>>]
    /\ invited' = [invited EXCEPT ![a] = Nobody]

\* Party::revokeInvitation, by the leader or any member.
RevokeInvitation(p, a, t) ==
    /\ Calls(p, "revoke", a, t) /\ Sound(p)
    /\ LET rest == [invited[a] EXCEPT ![t] = @ - 1] IN
       \/ /\ t \notin Invited(a)
          /\ UNCHANGED partyVars
       \/ /\ t \in Invited(a)
          /\ members[a] = <<>> /\ rest = Nobody
          /\ Disband(a, party, leader[a], <<>>)
       \/ /\ t \in Invited(a)
          /\ members[a] # <<>> \/ rest # Nobody
          /\ invited' = [invited EXCEPT ![a] = rest]
          /\ UNCHANGED <<live, party, leader, members>>
    /\ UNCHANGED created
    /\ Returns(p)

\* Party::passLeadership: the old leader becomes the first member and all
\* invitations are dropped.
PassLeadership(p, a, t) ==
    /\ Calls(p, "pass", a, t) /\ Sound(p)
    /\ \/ /\ party[t] # a
          /\ UNCHANGED partyVars
       \/ /\ party[t] = a
          /\ t \in ToSet(members[a])
          /\ leader' = [leader EXCEPT ![a] = t]
          /\ members' = [members EXCEPT ![a] = <<leader[a]>> \o RemoveFirst(@, t)]
          /\ invited' = [invited EXCEPT ![a] = Nobody]
          /\ UNCHANGED <<live, party>>
    /\ UNCHANGED created
    /\ Returns(p)

\* members.erase(members.end()): the new leader is the leader already.
PassToLeader(p, a, t) ==
    /\ Calls(p, "pass", a, t) /\ Sound(p)
    /\ party[t] = a /\ t \notin ToSet(members[a])
    /\ broken' = TRUE
    /\ UNCHANGED <<listed, freed, created, partyVars, call>>

\* Party::kickPlayer of q, which hands the leadership to the first member
\* when q has it.
KickPlayer(a, q) ==
    LET m == members[a]
        passes == q = leader[a] /\ m # <<>> /\ party[m[1]] = a
        lead == IF passes THEN m[1] ELSE leader[a]
        rest == IF passes THEN <<q>> \o Tail(m) ELSE m
        inv == IF passes THEN Nobody ELSE invited[a]
        left == RemoveFirst(rest, q)
        alone == [party EXCEPT ![q] = None]
    IN
    \/ /\ m = <<>> /\ q = leader[a]
       /\ Disband(a, party, q, <<>>)
    \/ /\ m # <<>> /\ q \notin ToSet(rest)
       /\ UNCHANGED partyVars
    \/ /\ m # <<>> => q \in ToSet(rest)
       /\ m = <<>> => q # leader[a]
       /\ IF left = <<>> /\ inv = Nobody
          THEN Disband(a, alone, lead, <<>>)
          ELSE /\ party' = alone
               /\ leader' = [leader EXCEPT ![a] = lead]
               /\ members' = [members EXCEPT ![a] = left]
               /\ invited' = [invited EXCEPT ![a] = inv]
               /\ UNCHANGED live

LeaveParty(p, a) ==
    /\ Calls(p, "kick", a, p) /\ Sound(p)
    /\ KickPlayer(a, p)
    /\ UNCHANGED created
    /\ Returns(p)

-----------------------------------------------------------------------------
(* The end of a player.                                                     *)

\* The invitations to party a after the removal of q: every player of the list
\* who is in the party revokes one of q's.
Revoked(a, q) ==
    LET revokers == Cardinality({x \in listed \ {q} : party[x] = a})
    IN  [invited[a] EXCEPT ![q] = IF @ > revokers THEN @ - revokers ELSE 0]

\* The player objects that this touches.
RemoveTouches(q) ==
    IF party[q] # None THEN KickTouches(party[q], q)
    ELSE {leader[a] : a \in {b \in live : Revoked(b, q) # invited[b]}}

\* Game::removeCreature: a player in a party is kicked from it, one without
\* takes back the invitations of all parties that a listed player is in.
RemoveCreature(q) ==
    /\ ~broken
    /\ q \in listed
    /\ RemoveTouches(q) \cap freed = {}
    /\ listed' = listed \ {q}
    /\ \/ party[q] # None /\ KickPlayer(party[q], q)
       \/ /\ party[q] = None
          /\ LET ended == {a \in live : /\ members[a] = <<>>
                                        /\ invited[a] # Nobody
                                        /\ Revoked(a, q) = Nobody} IN
             /\ live' = live \ ended
             /\ party' = [x \in Player |->
                             IF \E a \in ended : leader[a] = x THEN None ELSE party[x]]
             /\ leader' = [a \in PartyId |-> IF a \in ended THEN None ELSE leader[a]]
          /\ invited' = [a \in PartyId |-> Revoked(a, q)]
          /\ UNCHANGED members
    /\ UNCHANGED <<freed, created, call, broken>>

RemoveBreaks(q) ==
    /\ ~broken
    /\ q \in listed
    /\ RemoveTouches(q) \cap freed # {}
    /\ broken' = TRUE
    /\ UNCHANGED <<listed, freed, created, partyVars, call>>

\* The last reference is released (module Session): the thread is done.
FreePlayer(q) ==
    /\ ~broken
    /\ q \notin listed /\ q \notin freed
    /\ call[q] = NoCall
    /\ freed' = freed \cup {q}
    /\ UNCHANGED <<listed, created, partyVars, call, broken>>

-----------------------------------------------------------------------------
Packet(p) ==
    \/ \E t \in Player :
          \/ ParseInviteParty(p, t) \/ ParseRevokeParty(p, t)
          \/ ParseJoinParty(p, t) \/ ParsePassLeadership(p, t)
    \/ ParseLeaveParty(p)

Execute(p) ==
    \/ Break(p)
    \/ \E t \in Player : CreateParty(p, t)
    \/ \E a \in PartyId :
          \/ LeaveParty(p, a)
          \/ \E t \in Player :
                \/ InvitePlayer(p, a, t) \/ RevokeInvitation(p, a, t)
                \/ AcceptInvitation(p, a, t)
                \/ PassLeadership(p, a, t) \/ PassToLeader(p, a, t)

Next ==
    \E p \in Player :
       \/ Packet(p) \/ Execute(p)
       \/ RemoveCreature(p) \/ RemoveBreaks(p) \/ FreePlayer(p)

Spec == Init /\ [][Next]_vars

-----------------------------------------------------------------------------
(* Properties.                                                              *)

\* Whatever the packets and their races do, the party a player points to is
\* not deleted and knows the player: getShieldClient, which reads the party
\* of everybody in sight, and the next logout never meet a deleted party.
PointerListed ==
    \A p \in Player : party[p] # None =>
        /\ party[p] \in live
        /\ leader[party[p]] = p \/ p \in ToSet(members[party[p]])

\* party.h: kickPlayer "kicks the selected player out of the party".
KickedIsOut ==
    [][\A p \in Player, a \in PartyId :
          LeaveParty(p, a) => p \notin ToSet(members[a])']_vars
=============================================================================
