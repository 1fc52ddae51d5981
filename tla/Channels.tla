------------------------------- MODULE Channels -------------------------------
(***************************************************************************)
(* Chat channels and the guilds behind some of them: who is a user of      *)
(* which channel while players come and go, are invited and excluded, and  *)
(* join and leave guilds (chat.cpp, guilds.cpp, protocol79.cpp, player.cpp, *)
(* luascript.cpp).  A channel keeps pointers to its users, so that a       *)
(* player has to be taken out of all of them when he leaves the game.  One *)
(* character is in the game once (allowclones = 0); the four public        *)
(* channels are one; founding a guild only makes an empty list.            *)
(***************************************************************************)
EXTENDS Integers, FiniteSetsExt

CONSTANTS Body,        \* Player objects: a login makes another one
          Name,        \* characters
          NameOf,      \* the character of an object
          NoName,      \* PrivateChatChannel::m_owner of a channel that is not there
          GuildId,     \* guild ids in the order of the list of guilds
          TopRoom      \* bound: private channels have the numbers 10 .. TopRoom, not 9999

\* The public channels, those of the guilds and the private ones.  The code has a map for
\* each; here their numbers differ.
Help == 4
Common == GuildId \cup {Help}
RoomId == 10 .. TopRoom

ASSUME ChannelAssumption ==
    /\ NameOf \in [Body -> Name] /\ NoName \notin Name
    /\ GuildId \subseteq Nat \ (RoomId \cup {0, Help}) /\ TopRoom \in Nat

VARIABLES
    playing,     \* players in the game
    left,        \* objects that have left it
    members,     \* Guilds::guilds
    guildId,     \* Player::guildId, 0 for none
    common,      \* users of the public channel and of the guild channels there are
    rooms,       \* private channels
    astray       \* history: who opened a channel uninvited, or has left the guild of one

channelVars == <<playing, left, members, guildId, common, rooms, astray>>

Room == [owner : Name \cup {NoName}, invites : SUBSET Name, users : SUBSET Body]
NoRoom == [owner |-> NoName, invites |-> {}, users |-> {}]

ChannelTypeOK ==
    /\ playing \subseteq Body /\ left \subseteq Body
    /\ members \in [GuildId -> SUBSET Name]
    /\ guildId \in [Body -> GuildId \cup {0}]
    /\ DOMAIN common \subseteq Common /\ \A c \in DOMAIN common : common[c] \subseteq Body
    /\ rooms \in [RoomId -> Room]
    /\ astray \subseteq (Common \cup RoomId) \X Body

Users(c) == IF c \in RoomId THEN rooms[c].users ELSE IF c \in DOMAIN common THEN common[c] ELSE {}

\* What is left of astray and S after a step.
Strays(S) == {x \in astray \cup S : x[2] \in Users(x[1])'}

\* PrivateChatChannel::isInvited.
MayEnter(r, b) == NameOf[b] \in r.invites \cup {r.owner}

\* Guilds::ReloadGuildInfo: the first guild that lists the name.
GuildOf(lists, n) ==
    LET his == {g \in GuildId : n \in lists[g]} IN IF his = {} THEN 0 ELSE Min(his)

\* Chat::getChannelList, which makes the channel of the guild if there is none.
CommonOf(b) == {Help} \cup ({guildId[b]} \ {0})
RoomsOf(b) == {i \in RoomId : rooms[i] # NoRoom /\ MayEnter(rooms[i], b)}
WithGuildOf(b) == [c \in DOMAIN common \cup CommonOf(b) |-> Users(c)]

\* Chat::getPrivateChannel: the first one.
Owned(b) == {i \in RoomId : rooms[i].owner = NameOf[b]}
OwnRoom(b) == Min(Owned(b))

ChannelInit ==
    /\ playing = {} /\ left = {}
    /\ members = [g \in GuildId |-> {}]
    /\ guildId = [b \in Body |-> 0]
    /\ common = [c \in {Help} |-> {}]
    /\ rooms = [i \in RoomId |-> NoRoom]
    /\ astray = {}

\* Game::placeCreature.
EnterGame(b) ==
    /\ b \notin playing \cup left /\ \A o \in playing : NameOf[o] # NameOf[b]
    /\ playing' = playing \cup {b}
    /\ guildId' = [guildId EXCEPT ![b] = GuildOf(members, NameOf[b])]
    /\ UNCHANGED <<left, members, common, rooms, astray>>

\* Chat::removeUserFromAllChannels, from Player::onCreatureDisappear.
RemoveUserFromAllChannels(b) ==
    /\ b \in playing
    /\ playing' = playing \ {b} /\ left' = left \cup {b}
    /\ common' = [c \in DOMAIN WithGuildOf(b) |->
                    IF c \in CommonOf(b) THEN Users(c) \ {b} ELSE Users(c)]
    /\ rooms' = [i \in RoomId |->
                    IF i \in Owned(b) THEN NoRoom
                    ELSE IF i \in RoomsOf(b) THEN [rooms[i] EXCEPT !.users = @ \ {b}] ELSE rooms[i]]
    /\ UNCHANGED <<members, guildId>>
    /\ astray' = Strays({})

\* The functions of scripts that change a guild reload what the player shows, if he is in
\* the game; he stays in the channel of the guild he leaves.
NewMembers(n, lists) ==
    LET them == {b \in playing : NameOf[b] = n}
        g == GuildOf(lists, n)
    IN /\ members' = lists
       /\ guildId' = [b \in Body |-> IF b \in them THEN g ELSE guildId[b]]
       /\ UNCHANGED <<playing, left, common, rooms>>
       /\ astray' = {x \in Strays({<<guildId[b], b>> : b \in them}) : ~(x[2] \in them /\ x[1] = g)}

SetPlayerGuild(n, g) ==
    /\ n \notin members[g]
    /\ NewMembers(n, [members EXCEPT ![g] = @ \cup {n}])

\* Guilds::ClearGuildInfo: out of the first guild that lists the name.
ClearPlayerGuild(n) ==
    /\ GuildOf(members, n) # 0
    /\ NewMembers(n, [members EXCEPT ![GuildOf(members, n)] = @ \ {n}])

ParseGetChannels(b) ==
    /\ b \in playing /\ WithGuildOf(b) # common
    /\ common' = WithGuildOf(b)
    /\ UNCHANGED <<playing, left, members, guildId, rooms, astray>>

\* Protocol79::parseOpenChannel: number 0 is the channel of one's guild, and nobody asks
\* whether one is invited to a private channel.
ParseOpenCommon(b, c) ==
    /\ b \in playing /\ c \in DOMAIN common \cap CommonOf(b) /\ b \notin common[c]
    /\ common' = [common EXCEPT ![c] = @ \cup {b}]
    /\ UNCHANGED <<playing, left, members, guildId, rooms, astray>>

ParseOpenRoom(b, i) ==
    /\ b \in playing /\ rooms[i] # NoRoom /\ b \notin rooms[i].users
    /\ rooms' = [rooms EXCEPT ![i].users = @ \cup {b}]
    /\ UNCHANGED <<playing, left, members, guildId, common>>
    /\ astray' = Strays(IF MayEnter(rooms[i], b) THEN {} ELSE {<<i, b>>})

\* Chat::removeUserFromChannel: with its owner a private channel goes.
ParseCloseCommon(b, c) ==
    /\ b \in playing /\ c \in CommonOf(b) /\ b \in Users(c)
    /\ common' = [common EXCEPT ![c] = @ \ {b}]
    /\ UNCHANGED <<playing, left, members, guildId, rooms>>
    /\ astray' = Strays({})

ParseCloseRoom(b, i) ==
    /\ b \in playing /\ b \in rooms[i].users
    /\ rooms' = [rooms EXCEPT ![i] = IF i \in Owned(b) THEN NoRoom ELSE [rooms[i] EXCEPT !.users = @ \ {b}]]
    /\ UNCHANGED <<playing, left, members, guildId, common>>
    /\ astray' = Strays({})

\* Protocol79::parseCreatePrivateChannel: the first free number, also for who has a channel.
ParseCreatePrivateChannel(b) ==
    LET free == {i \in RoomId : rooms[i] = NoRoom}
    IN /\ b \in playing /\ free # {}
       /\ rooms' = [rooms EXCEPT ![Min(free)] =
                        [owner |-> NameOf[b], invites |-> {}, users |-> {b}]]
       /\ UNCHANGED <<playing, left, members, guildId, common, astray>>

ParseChannelInvite(b, o) ==
    /\ {b, o} \subseteq playing /\ b # o /\ Owned(b) # {}
    /\ NameOf[o] \notin rooms[OwnRoom(b)].invites
    /\ rooms' = [rooms EXCEPT ![OwnRoom(b)].invites = @ \cup {NameOf[o]}]
    /\ astray' = astray \ {<<OwnRoom(b), o>>}
    /\ UNCHANGED <<playing, left, members, guildId, common>>

\* Mutation: who is excluded still listens.
ExcludedListens(r, o) == [r EXCEPT !.invites = @ \ {NameOf[o]}]

\* PrivateChatChannel::excludePlayer.
Excluded(r, o) == [r EXCEPT !.invites = @ \ {NameOf[o]}, !.users = @ \ {o}]

ParseChannelExclude(b, o) ==
    /\ {b, o} \subseteq playing /\ b # o /\ Owned(b) # {}
    /\ NameOf[o] \in rooms[OwnRoom(b)].invites
    /\ rooms' = [rooms EXCEPT ![OwnRoom(b)] = Excluded(@, o)]
    /\ UNCHANGED <<playing, left, members, guildId, common, astray>>

ChannelNext ==
    \/ \E b \in Body :
        \/ EnterGame(b) \/ RemoveUserFromAllChannels(b) \/ ParseGetChannels(b)
        \/ ParseCreatePrivateChannel(b)
    \/ \E n \in Name : ClearPlayerGuild(n) \/ \E g \in GuildId : SetPlayerGuild(n, g)
    \/ \E b \in Body, c \in Common : ParseOpenCommon(b, c) \/ ParseCloseCommon(b, c)
    \/ \E b \in Body, i \in RoomId : ParseOpenRoom(b, i) \/ ParseCloseRoom(b, i)
    \/ \E b, o \in Body : ParseChannelInvite(b, o) \/ ParseChannelExclude(b, o)

ChannelSpec == ChannelInit /\ [][ChannelNext]_channelVars

\* No channel keeps a player who has left the game, a private channel has its owner in the
\* game and only guests he still invites, and the guild a player shows is the one of the
\* lists.  Excepted are those who opened a channel uninvited, for parseOpenChannel does not
\* ask, and those who were in the channel of a guild they left: removeUserFromAllChannels
\* does not find them.
ChannelsHold ==
    /\ \A c \in DOMAIN common : \A b \in common[c] : b \in playing \/ <<c, b>> \in astray
    /\ \A i \in RoomId :
        /\ rooms[i] # NoRoom => \E b \in playing : NameOf[b] = rooms[i].owner
        /\ \A b \in rooms[i].users :
            (b \in playing /\ MayEnter(rooms[i], b)) \/ <<i, b>> \in astray
    /\ \A b \in playing : guildId[b] = GuildOf(members, NameOf[b])

=============================================================================
