------------------------------- MODULE WorldProofs -------------------------------
(***************************************************************************)
(* Proofs about what goes on in the world and what is kept of it: houses,  *)
(* chat channels, spawns, raids, the events of creatures, shopkeepers and  *)
(* the belongings of players and their beds, for any number of players,    *)
(* lists of houses, guilds, blocks, raids, creatures, customers and things. *)
(***************************************************************************)
EXTENDS MCWorld, FiniteSetTheorems, WellFoundedInduction, TLAPS

-----------------------------------------------------------------------------
(* Houses.                                                                  *)

HomeInv == HomeTypeOK /\ OnlyInvitedInside

\* A house without an owner and without lists invites nobody.
LEMMA BareInvitesNobody ==
  ASSUME HomeAssumption, NEW p \in Lodger
  PROVE  ~ IsInvited([owner |-> NoLodger, guests |-> NoText, subs |-> NoText], p)
BY DEF HomeAssumption, IsInvited, HouseLevel, IsInList, NoText

LEMMA HomeInitInv == HomeAssumption /\ HomeInit => HomeInv
BY DEF HomeAssumption, HomeInit, HomeInv, HomeTypeOK, OnlyInvitedInside

\* A new list puts out whom it leaves out.
LEMMA SetAccessListInv ==
  ASSUME HomeInv, NEW p \in Lodger, NEW t \in Texts, SetAccessList(p, t)
  PROVE  HomeInv'
<1> USE DEF HomeInv, HomeTypeOK
<1> DEFINE h == IF window[p] = "guests" THEN [house EXCEPT !.guests = t] ELSE [house EXCEPT !.subs = t]
<1>1. house' = h /\ within' = Staying(h) /\ present' = present
  BY DEF SetAccessList
<1>2. h \in [owner : Lodger \cup {NoLodger}, guests : Texts, subs : Texts]
  OBVIOUS
<1>3. window' \in [Lodger -> {"none", "guests", "subs"}]
  BY DEF SetAccessList
<1>4. OnlyInvitedInside'
  BY <1>1 DEF OnlyInvitedInside, Staying
<1> QED
  BY <1>1, <1>2, <1>3, <1>4 DEF Staying

\* A new owner finds nobody inside, unless there was none before him.
LEMMA SetHouseOwnerInv ==
  ASSUME HomeAssumption, HomeInv, NEW n \in Lodger \cup {NoLodger}, SetHouseOwner(n)
  PROVE  HomeInv'
<1> USE DEF HomeInv, HomeTypeOK
<1> DEFINE bare == [owner |-> NoLodger, guests |-> NoText, subs |-> NoText]
<1>1. UNCHANGED <<present, window>> /\ n # house.owner
  BY DEF SetHouseOwner
<1>2. CASE house.owner = NoLodger
  <2>1. house' = [house EXCEPT !.owner = n] /\ within' = within
    BY <1>2 DEF SetHouseOwner
  <2>2. ASSUME NEW q \in Lodger, IsInvited(house, q)
        PROVE  IsInvited(house', q)
    <3>1. house'.guests = house.guests /\ house'.subs = house.subs
      BY <2>1
    <3>2. q # house.owner
      BY <1>2 DEF HomeAssumption
    <3> QED
      BY <2>2, <3>1, <3>2 DEF IsInvited, HouseLevel
  <2> QED
    BY <1>1, <2>1, <2>2 DEF OnlyInvitedInside
<1>3. CASE house.owner # NoLodger
  <2>1. house' = [bare EXCEPT !.owner = n] /\ within' = Staying(bare)
    BY <1>3 DEF SetHouseOwner
  <2>2. present' \cap within' = {}
    BY <1>1, <2>1, BareInvitesNobody DEF Staying
  <2>3. house' \in [owner : Lodger \cup {NoLodger}, guests : Texts, subs : Texts]
    BY <2>1 DEF HomeAssumption
  <2> QED
    BY <1>1, <2>1, <2>2, <2>3 DEF OnlyInvitedInside, Staying
<1> QED
  BY <1>2, <1>3

LEMMA HomeNextInv == HomeAssumption /\ HomeInv /\ [HomeNext]_homeVars => HomeInv'
<1> SUFFICES ASSUME HomeAssumption, HomeInv, [HomeNext]_homeVars PROVE HomeInv'
  OBVIOUS
<1>1. ASSUME NEW p \in Lodger, AppearAtHome(p) PROVE HomeInv'
  BY <1>1 DEF AppearAtHome, HomeInv, HomeTypeOK, OnlyInvitedInside
<1>2. ASSUME NEW p \in Lodger, LeaveGame(p) PROVE HomeInv'
  BY <1>2 DEF LeaveGame, HomeInv, HomeTypeOK, OnlyInvitedInside
<1>3. ASSUME NEW p \in Lodger, StepIn(p) PROVE HomeInv'
  BY <1>3 DEF StepIn, HomeInv, HomeTypeOK, OnlyInvitedInside
<1>4. ASSUME NEW p \in Lodger, StepOut(p) PROVE HomeInv'
  BY <1>4 DEF StepOut, HomeInv, HomeTypeOK, OnlyInvitedInside
<1>5. ASSUME NEW p \in Lodger, NEW q \in Lodger, KickFromHouse(p, q) PROVE HomeInv'
  BY <1>5 DEF KickFromHouse, HomeInv, HomeTypeOK, OnlyInvitedInside
<1>6. ASSUME NEW p \in Lodger, NEW l \in {"guests", "subs"}, OpenHouseWindow(p, l) PROVE HomeInv'
  BY <1>6 DEF OpenHouseWindow, HomeInv, HomeTypeOK, OnlyInvitedInside
<1>7. CASE UNCHANGED homeVars
  BY <1>7 DEF homeVars, HomeInv, HomeTypeOK, OnlyInvitedInside
<1> QED
  BY <1>1, <1>2, <1>3, <1>4, <1>5, <1>6, <1>7, SetAccessListInv, SetHouseOwnerInv DEF HomeNext

\* Whoever is in the game and in a house is invited there (house.cpp:163, 115, map.cpp).
THEOREM OnlyInvitedInsideHolds == HomeSpec => []OnlyInvitedInside
<1>1. HomeInv => OnlyInvitedInside
  BY DEF HomeInv
<1> QED
  BY <1>1, HomeAssumption, HomeInitInv, HomeNextInv, PTL DEF HomeSpec

-----------------------------------------------------------------------------
(* Channels.                                                                *)

\* A set of numbers that is not empty has a first one.
LEMMA LeastOf ==
  ASSUME NEW I \in SUBSET Nat, I # {}
  PROVE  \E x \in I : \A y \in I : x =< y
<1> DEFINE R == {ss \in Nat \X Nat : ss[1] < ss[2]}
<1>1. IsWellFoundedOn(R, Nat)
  BY NatLessThanWellFounded DEF OpToRel
<1>2. \E x \in I : \A y \in I : ~ (<<y, x>> \in R)
  <2> HIDE DEF R
  <2> QED
    BY <1>1, WFMin
<1>3. PICK x \in I : \A y \in I : ~ (<<y, x>> \in R)
  BY <1>2
<1>4. \A y \in I : ~ (y < x)
  BY <1>3
<1> QED
  BY <1>4

LEMMA MinOfNumbers ==
  ASSUME NEW I \in SUBSET Nat, I # {}
  PROVE  Min(I) \in I
<1>1. \E x \in I : \A y \in I : x =< y
  BY LeastOf
<1> QED
  BY ONLY <1>1, Zenon DEF Min

\* The numbers of the channels do not overlap, and 0 is none of them.
LEMMA NumbersApart ==
  ASSUME ChannelAssumption
  PROVE  /\ GuildId \subseteq Nat /\ RoomId \subseteq Nat /\ Common \subseteq Nat
         /\ Common \cap RoomId = {} /\ 0 \notin Common \cup RoomId /\ Help \notin GuildId
<1>1. \A i \in RoomId : i \in Nat /\ i # 0 /\ i # 4
  BY DEF ChannelAssumption, RoomId
<1>2. \A g \in GuildId : g \in Nat /\ g # 0 /\ g # 4 /\ g \notin RoomId
  BY DEF ChannelAssumption, Help
<1> QED
  BY <1>1, <1>2 DEF Common, Help

\* The guild of a name is one that lists it, or 0.
LEMMA GuildOfType ==
  ASSUME ChannelAssumption, NEW lists, NEW n
  PROVE  GuildOf(lists, n) \in GuildId \cup {0}
<1> DEFINE his == {g \in GuildId : n \in lists[g]}
<1>1. his \in SUBSET Nat /\ his \subseteq GuildId
  BY NumbersApart
<1>2. GuildOf(lists, n) = IF his = {} THEN 0 ELSE Min(his)
  BY DEF GuildOf
<1> HIDE DEF his
<1> QED
  BY <1>1, <1>2, MinOfNumbers

\* It depends on nothing but which guilds list the name.
LEMMA GuildOfSame ==
  ASSUME NEW l1, NEW l2, NEW n, \A g \in GuildId : n \in l1[g] <=> n \in l2[g]
  PROVE  GuildOf(l1, n) = GuildOf(l2, n)
<1>1. {g \in GuildId : n \in l1[g]} = {g \in GuildId : n \in l2[g]}
  OBVIOUS
<1> QED
  BY ONLY <1>1, Zenon DEF GuildOf

\* Who has a private channel has a first one.
LEMMA OwnRoomOwned ==
  ASSUME ChannelAssumption, NEW b, Owned(b) # {}
  PROVE  OwnRoom(b) \in RoomId /\ rooms[OwnRoom(b)].owner = NameOf[b]
<1>1. Owned(b) \in SUBSET Nat
  BY NumbersApart DEF Owned
<1>2. OwnRoom(b) \in Owned(b)
  BY <1>1, MinOfNumbers, Zenon DEF OwnRoom
<1> QED
  BY <1>2 DEF Owned

\* One object of a character is in the game.
OneEach == \A b, o \in playing : NameOf[b] = NameOf[o] => b = o

\* Nobody hears a public channel or one of a guild whom a logout would not find there.
CommonFound ==
    \A c \in DOMAIN common : \A b \in common[c] :
        (b \in playing /\ c \in CommonOf(b)) \/ <<c, b>> \in astray

\* A private channel has its owner in the game ...
OwnerPlays == \A i \in RoomId : rooms[i] # NoRoom => \E b \in playing : NameOf[b] = rooms[i].owner

\* ... and guests he invites.
GuestsInvited ==
    \A i \in RoomId : \A b \in rooms[i].users :
        (b \in playing /\ MayEnter(rooms[i], b)) \/ <<i, b>> \in astray

GuildShown == \A b \in playing : guildId[b] = GuildOf(members, NameOf[b])

ChannelInv == ChannelTypeOK /\ OneEach /\ CommonFound /\ OwnerPlays /\ GuestsInvited /\ GuildShown

LEMMA ChannelInvHolds == ChannelInv => ChannelsHold
BY DEF ChannelInv, ChannelsHold, CommonFound, OwnerPlays, GuestsInvited, GuildShown

LEMMA ChannelInitInv == ChannelAssumption /\ ChannelInit => ChannelInv
<1> SUFFICES ASSUME ChannelAssumption, ChannelInit PROVE ChannelInv
  OBVIOUS
<1>1. ChannelTypeOK
  BY NumbersApart DEF ChannelAssumption, ChannelInit, ChannelTypeOK, Common, Room, NoRoom
<1> QED
  BY <1>1 DEF ChannelInit, ChannelInv, OneEach, CommonFound, OwnerPlays, GuestsInvited, GuildShown, NoRoom

\* What a step that leaves the private channels alone keeps.
LEMMA RoomsKept ==
  ASSUME ChannelAssumption, ChannelInv, UNCHANGED rooms, playing \subseteq playing',
         \A i \in RoomId, b \in Body : <<i, b>> \in astray => <<i, b>> \in astray'
  PROVE  OwnerPlays' /\ GuestsInvited'
BY DEF ChannelInv, ChannelTypeOK, OwnerPlays, GuestsInvited, Room, MayEnter

LEMMA EnterGameInv ==
  ASSUME ChannelAssumption, ChannelInv, NEW b \in Body, EnterGame(b)
  PROVE  ChannelInv'
<1> USE DEF ChannelInv
<1>1. /\ UNCHANGED <<left, members, common, rooms, astray>>
      /\ playing' = playing \cup {b}
      /\ guildId' = [guildId EXCEPT ![b] = GuildOf(members, NameOf[b])]
      /\ b \notin playing
  BY DEF EnterGame
<1>2. ChannelTypeOK'
  BY <1>1, GuildOfType DEF ChannelTypeOK
<1>3. OneEach'
  BY <1>1 DEF EnterGame, OneEach
<1>4. CommonFound'
  BY <1>1 DEF ChannelTypeOK, CommonFound, CommonOf
<1>5. GuildShown'
  BY <1>1 DEF ChannelTypeOK, GuildShown
<1> QED
  BY <1>1, <1>2, <1>3, <1>4, <1>5, RoomsKept

\* Who leaves is taken out of all channels but those in which he is astray.
LEMMA RemoveUserInv ==
  ASSUME ChannelAssumption, ChannelInv, NEW b \in Body, RemoveUserFromAllChannels(b)
  PROVE  ChannelInv'
<1> USE DEF ChannelInv
<1> DEFINE com(c) == IF c \in CommonOf(b) THEN Users(c) \ {b} ELSE Users(c)
           room(i) == IF i \in Owned(b) THEN NoRoom
                      ELSE IF i \in RoomsOf(b) THEN [rooms[i] EXCEPT !.users = @ \ {b}] ELSE rooms[i]
<1>1. /\ UNCHANGED <<members, guildId>>
      /\ b \in playing /\ playing' = playing \ {b} /\ left' = left \cup {b}
      /\ DOMAIN common' = DOMAIN common \cup CommonOf(b)
      /\ \A c \in DOMAIN common' : common'[c] = com(c)
      /\ rooms' = [i \in RoomId |-> room(i)]
      /\ astray' = {x \in astray : x[2] \in Users(x[1])'}
  BY DEF RemoveUserFromAllChannels, WithGuildOf, Strays
<1>2. CommonOf(b) \subseteq Common
  BY DEF ChannelTypeOK, CommonOf, Common
<1>3. \A c \in Common : Users(c) \subseteq Body
  BY NumbersApart DEF ChannelTypeOK, Users
<1>4. \A i \in RoomId : rooms[i] \in Room /\ room(i) \in Room
  BY DEF ChannelTypeOK, Room, NoRoom
<1>5. ChannelTypeOK'
  <2>1. DOMAIN common' \subseteq Common
    BY <1>1, <1>2 DEF ChannelTypeOK
  <2>2. \A c \in Common : com(c) \subseteq Body
    BY <1>3
  <2>3. rooms' \in [RoomId -> Room]
    BY <1>1, <1>4
  <2> HIDE DEF com
  <2> QED
    BY <1>1, <2>1, <2>2, <2>3 DEF ChannelTypeOK
<1>6. OneEach'
  BY <1>1 DEF OneEach
<1>7. CommonFound'
  <2> SUFFICES ASSUME NEW c \in DOMAIN common', NEW o \in common'[c]
               PROVE  (o \in playing' /\ c \in CommonOf(o)') \/ <<c, o>> \in astray'
    BY DEF CommonFound
  <2>1. c \in Common /\ c \notin RoomId
    BY <1>5, NumbersApart DEF ChannelTypeOK
  <2>2. c \in DOMAIN common /\ o \in common[c] /\ (o = b => c \notin CommonOf(b))
    BY <1>1, <2>1 DEF Users
  <2>3. o \in Users(c)'
    BY <2>1 DEF Users
  <2>4. CASE o \in playing /\ c \in CommonOf(o)
    BY <1>1, <2>2, <2>4 DEF CommonOf
  <2>5. CASE <<c, o>> \in astray
    BY <1>1, <2>3, <2>5
  <2> QED
    BY <2>2, <2>4, <2>5 DEF CommonFound
<1>8. OwnerPlays'
  <2> SUFFICES ASSUME NEW i \in RoomId, rooms'[i] # NoRoom
               PROVE  \E o \in playing' : NameOf[o] = rooms'[i].owner
    BY DEF OwnerPlays
  <2>1. i \notin Owned(b) /\ rooms[i] # NoRoom
    BY <1>1 DEF RoomsOf
  <2>2. rooms'[i].owner = rooms[i].owner
    BY <1>1, <1>4, <2>1 DEF Room
  <2>3. PICK o \in playing : NameOf[o] = rooms[i].owner
    BY <2>1 DEF OwnerPlays
  <2> QED
    BY <1>1, <2>1, <2>2, <2>3 DEF Owned
<1>9. GuestsInvited'
  <2> SUFFICES ASSUME NEW i \in RoomId, NEW o \in rooms'[i].users
               PROVE  (o \in playing' /\ MayEnter(rooms'[i], o)) \/ <<i, o>> \in astray'
    BY DEF GuestsInvited, MayEnter
  <2>1. /\ i \notin Owned(b) /\ o \in rooms[i].users
        /\ rooms'[i].owner = rooms[i].owner /\ rooms'[i].invites = rooms[i].invites
        /\ o = b => i \notin RoomsOf(b)
    BY <1>1, <1>4 DEF Room, NoRoom
  <2>2. rooms[i] # NoRoom
    BY <2>1 DEF NoRoom
  <2>3. o \in Users(i)'
    BY DEF Users
  <2>4. CASE o \in playing /\ MayEnter(rooms[i], o)
    BY <1>1, <2>1, <2>2, <2>4 DEF MayEnter, RoomsOf
  <2>5. CASE <<i, o>> \in astray
    BY <1>1, <2>3, <2>5
  <2> QED
    BY <2>1, <2>4, <2>5 DEF GuestsInvited
<1>10. GuildShown'
  BY <1>1 DEF GuildShown
<1> QED
  BY <1>5, <1>6, <1>7, <1>8, <1>9, <1>10

\* The channels stay as they are; who changes his guild is astray in that of his old one.
LEMMA NewMembersInv ==
  ASSUME ChannelAssumption, ChannelInv, NEW n \in Name, NEW lists \in [GuildId -> SUBSET Name],
         NewMembers(n, lists),
         \A g \in GuildId, k \in Name : k # n => (k \in lists[g] <=> k \in members[g])
  PROVE  ChannelInv'
<1> USE DEF ChannelInv
<1> DEFINE them == {b \in playing : NameOf[b] = n}
           g == GuildOf(lists, n)
<1>1. /\ UNCHANGED <<playing, left, common, rooms>>
      /\ members' = lists
      /\ guildId' = [b \in Body |-> IF b \in them THEN g ELSE guildId[b]]
      /\ astray' = {x \in astray \cup {<<guildId[b], b>> : b \in them} :
                        x[2] \in Users(x[1])' /\ ~ (x[2] \in them /\ x[1] = g)}
  BY DEF NewMembers, Strays
<1>2. g \in GuildId \cup {0} /\ them \subseteq Body
  BY GuildOfType DEF ChannelTypeOK
<1>3. \A c : Users(c)' = Users(c)
  BY <1>1 DEF Users
<1>4. ~ \E x : x \in Users(0)
  BY NumbersApart DEF ChannelTypeOK, Users
<1> HIDE DEF g
<1>5. ChannelTypeOK'
  <2>1. astray' \subseteq (Common \cup RoomId) \X Body
    <3> SUFFICES ASSUME NEW x \in astray' PROVE x \in (Common \cup RoomId) \X Body
      OBVIOUS
    <3>1. CASE x \in astray
      BY <3>1 DEF ChannelTypeOK
    <3>2. CASE x \notin astray
      <4>1. PICK b \in them : x = <<guildId[b], b>>
        BY <1>1, <3>2
      <4>2. guildId[b] # 0
        BY <1>1, <1>3, <1>4, <4>1
      <4> QED
        BY <1>2, <4>1, <4>2 DEF ChannelTypeOK, Common
    <3> QED
      BY <3>1, <3>2
  <2>2. guildId' \in [Body -> GuildId \cup {0}]
    BY <1>1, <1>2 DEF ChannelTypeOK
  <2> QED
    BY <1>1, <2>1, <2>2 DEF ChannelTypeOK
<1>6. CommonFound'
  <2> SUFFICES ASSUME NEW c \in DOMAIN common, NEW b \in common[c]
               PROVE  (b \in playing /\ c \in CommonOf(b)') \/ <<c, b>> \in astray'
    BY <1>1 DEF CommonFound
  <2>1. c \in Common /\ c \notin RoomId /\ c # 0 /\ b \in Body
    BY NumbersApart DEF ChannelTypeOK
  <2>2. b \in Users(c)'
    BY <1>3, <2>1 DEF Users
  <2>3. CASE b \notin them
    BY <1>1, <2>1, <2>2, <2>3 DEF CommonFound, CommonOf
  <2>4. CASE b \in them
    <3>1. guildId'[b] = g
      BY <1>1, <2>1, <2>4
    <3>2. CASE c = g
      BY <1>1, <2>1, <2>4, <3>1, <3>2 DEF CommonOf
    <3>3. CASE c # g /\ <<c, b>> \in astray
      BY <1>1, <2>2, <3>3
    <3>4. CASE c # g /\ b \in playing /\ c \in CommonOf(b)
      <4>1. CASE c = Help
        BY <1>1, <3>4, <4>1 DEF CommonOf
      <4>2. CASE c = guildId[b]
        BY <1>1, <2>2, <2>4, <3>4, <4>2
      <4> QED
        BY <3>4, <4>1, <4>2 DEF CommonOf
    <3> QED
      BY <3>2, <3>3, <3>4 DEF CommonFound
  <2> QED
    BY <2>3, <2>4
<1>7. OwnerPlays'
  BY <1>1 DEF OwnerPlays
<1>8. GuestsInvited'
  <2> SUFFICES ASSUME NEW i \in RoomId, NEW b \in rooms[i].users
               PROVE  (b \in playing /\ MayEnter(rooms[i], b)) \/ <<i, b>> \in astray'
    BY <1>1 DEF GuestsInvited, MayEnter
  <2>1. i # g
    BY <1>2, NumbersApart DEF Common
  <2>2. b \in Users(i)'
    BY <1>3 DEF Users
  <2> QED
    BY <1>1, <2>1, <2>2 DEF GuestsInvited
<1>9. GuildShown'
  <2> SUFFICES ASSUME NEW b \in playing PROVE guildId'[b] = GuildOf(lists, NameOf[b])
    BY <1>1 DEF GuildShown
  <2>1. b \in Body /\ NameOf[b] \in Name
    BY DEF ChannelTypeOK, ChannelAssumption
  <2>2. CASE b \in them
    BY <1>1, <2>1, <2>2 DEF g
  <2>3. CASE b \notin them
    <3>1. GuildOf(lists, NameOf[b]) = GuildOf(members, NameOf[b])
      BY <2>1, <2>3, GuildOfSame
    <3> QED
      BY <1>1, <2>1, <2>3, <3>1 DEF GuildShown
  <2> QED
    BY <2>2, <2>3
<1> QED
  BY <1>1, <1>5, <1>6, <1>7, <1>8, <1>9 DEF OneEach

\* The channels of guilds that are made are empty.
LEMMA GetChannelsInv ==
  ASSUME ChannelAssumption, ChannelInv, NEW b \in Body, ParseGetChannels(b)
  PROVE  ChannelInv'
<1> USE DEF ChannelInv
<1>1. /\ UNCHANGED <<playing, left, members, guildId, rooms, astray>>
      /\ DOMAIN common' = DOMAIN common \cup CommonOf(b)
      /\ \A c \in DOMAIN common' : common'[c] = Users(c)
  BY DEF ParseGetChannels, WithGuildOf
<1>2. CommonOf(b) \subseteq Common
  BY DEF ChannelTypeOK, CommonOf, Common
<1>3. \A c \in Common : Users(c) = IF c \in DOMAIN common THEN common[c] ELSE {}
  BY NumbersApart DEF Users
<1>4. ChannelTypeOK'
  BY <1>1, <1>2, <1>3 DEF ChannelTypeOK
<1>5. CommonFound'
  <2> SUFFICES ASSUME NEW c \in DOMAIN common', NEW o \in common'[c]
               PROVE  (o \in playing /\ c \in CommonOf(o)) \/ <<c, o>> \in astray
    BY <1>1 DEF CommonFound, CommonOf
  <2>1. c \in Common
    BY <1>4 DEF ChannelTypeOK
  <2>2. c \in DOMAIN common /\ o \in common[c]
    BY <1>1, <1>3, <2>1
  <2> QED
    BY <2>2 DEF CommonFound
<1> QED
  BY <1>1, <1>4, <1>5, RoomsKept DEF OneEach, GuildShown

LEMMA OpenCommonInv ==
  ASSUME ChannelAssumption, ChannelInv, NEW b \in Body, NEW c \in Common, ParseOpenCommon(b, c)
  PROVE  ChannelInv'
<1> USE DEF ChannelInv
<1>1. /\ UNCHANGED <<playing, left, members, guildId, rooms, astray>>
      /\ common' = [common EXCEPT ![c] = @ \cup {b}]
      /\ b \in playing /\ c \in DOMAIN common \cap CommonOf(b)
  BY DEF ParseOpenCommon
<1>2. ChannelTypeOK' /\ CommonFound'
  BY <1>1 DEF ChannelTypeOK, CommonFound, CommonOf
<1> QED
  BY <1>1, <1>2, RoomsKept DEF OneEach, GuildShown

LEMMA CloseCommonInv ==
  ASSUME ChannelAssumption, ChannelInv, NEW b \in Body, NEW c \in Common, ParseCloseCommon(b, c)
  PROVE  ChannelInv'
<1> USE DEF ChannelInv
<1>1. /\ UNCHANGED <<playing, left, members, guildId, rooms>>
      /\ common' = [common EXCEPT ![c] = @ \ {b}]
      /\ astray' = {x \in astray : x[2] \in Users(x[1])'}
  BY DEF ParseCloseCommon, Strays
<1>2. ChannelTypeOK'
  BY <1>1 DEF ChannelTypeOK
<1>3. \A i \in RoomId, o \in Body : <<i, o>> \in astray /\ o \in rooms[i].users => <<i, o>> \in astray'
  BY <1>1 DEF Users
<1>4. CommonFound'
  <2> SUFFICES ASSUME NEW d \in DOMAIN common, NEW o \in common'[d]
               PROVE  (o \in playing /\ d \in CommonOf(o)) \/ <<d, o>> \in astray'
    BY <1>1 DEF CommonFound, CommonOf
  <2>1. d \notin RoomId /\ o \in common[d]
    BY <1>1, NumbersApart DEF ChannelTypeOK
  <2>2. o \in Users(d)'
    BY <1>1, <2>1 DEF Users
  <2> QED
    BY <1>1, <2>1, <2>2 DEF CommonFound
<1>5. OwnerPlays' /\ GuestsInvited'
  BY <1>1, <1>3 DEF OwnerPlays, GuestsInvited, MayEnter, ChannelTypeOK, Room
<1> QED
  BY <1>1, <1>2, <1>4, <1>5 DEF OneEach, GuildShown

\* What a step that leaves the public channels and those of guilds alone keeps.
LEMMA CommonKept ==
  ASSUME ChannelAssumption, ChannelInv, UNCHANGED <<playing, left, members, guildId, common>>,
         \A c \in Common, b \in Body : <<c, b>> \in astray /\ b \in Users(c)' => <<c, b>> \in astray'
  PROVE  OneEach' /\ CommonFound' /\ GuildShown'
<1> USE DEF ChannelInv
<1>1. \A c \in DOMAIN common : Users(c)' = common[c]
  BY NumbersApart DEF ChannelTypeOK, Users
<1> QED
  BY <1>1 DEF OneEach, CommonFound, GuildShown, CommonOf, ChannelTypeOK

LEMMA OpenRoomInv ==
  ASSUME ChannelAssumption, ChannelInv, NEW b \in Body, NEW i \in RoomId, ParseOpenRoom(b, i)
  PROVE  ChannelInv'
<1> USE DEF ChannelInv
<1> DEFINE S == IF MayEnter(rooms[i], b) THEN {} ELSE {<<i, b>>}
<1>1. /\ UNCHANGED <<playing, left, members, guildId, common>>
      /\ b \in playing /\ rooms[i] # NoRoom
      /\ rooms' = [rooms EXCEPT ![i].users = @ \cup {b}]
      /\ astray' = {x \in astray \cup S : x[2] \in Users(x[1])'}
  BY DEF ParseOpenRoom, Strays
<1>2. /\ rooms' \in [RoomId -> Room]
      /\ \A k \in RoomId : /\ rooms'[k].owner = rooms[k].owner /\ rooms'[k].invites = rooms[k].invites
                           /\ rooms'[k].users = IF k = i THEN rooms[k].users \cup {b} ELSE rooms[k].users
                           /\ Users(k)' = rooms'[k].users
                           /\ k # i => rooms'[k] = rooms[k]
  BY <1>1 DEF ChannelTypeOK, Room, Users
<1>3. ChannelTypeOK'
  BY <1>1, <1>2 DEF ChannelTypeOK
<1>4. OwnerPlays'
  BY <1>1, <1>2 DEF OwnerPlays
<1>5. GuestsInvited'
  <2> SUFFICES ASSUME NEW k \in RoomId, NEW o \in rooms'[k].users
               PROVE  (o \in playing /\ MayEnter(rooms'[k], o)) \/ <<k, o>> \in astray'
    BY <1>1 DEF GuestsInvited, MayEnter
  <2>1. MayEnter(rooms'[k], o) <=> MayEnter(rooms[k], o)
    BY <1>2 DEF MayEnter
  <2>2. CASE o \in rooms[k].users
    BY <1>1, <1>2, <2>1, <2>2 DEF GuestsInvited
  <2>3. CASE k = i /\ o = b
    BY <1>1, <1>2, <2>1, <2>3
  <2> QED
    BY <1>2, <2>2, <2>3
<1> QED
  BY <1>1, <1>3, <1>4, <1>5, CommonKept

LEMMA CloseRoomInv ==
  ASSUME ChannelAssumption, ChannelInv, NEW b \in Body, NEW i \in RoomId, ParseCloseRoom(b, i)
  PROVE  ChannelInv'
<1> USE DEF ChannelInv
<1> DEFINE r == IF i \in Owned(b) THEN NoRoom ELSE [rooms[i] EXCEPT !.users = @ \ {b}]
<1>1. /\ UNCHANGED <<playing, left, members, guildId, common>>
      /\ b \in rooms[i].users
      /\ rooms' = [rooms EXCEPT ![i] = r]
  BY DEF ParseCloseRoom
<1>2. astray' = {x \in astray : x[2] \in Users(x[1])'}
  BY DEF ParseCloseRoom, Strays
<1>3. /\ r \in Room /\ r.users \subseteq rooms[i].users
      /\ r = NoRoom \/ (r.owner = rooms[i].owner /\ r.invites = rooms[i].invites)
  BY DEF ChannelTypeOK, Room, NoRoom
<1>4. rooms[i] # NoRoom
  BY <1>1 DEF NoRoom
<1> HIDE DEF r
<1>5. ChannelTypeOK'
  BY <1>2, <1>1, <1>3 DEF ChannelTypeOK
<1>6. OwnerPlays'
  BY <1>1, <1>3, <1>4 DEF OwnerPlays, ChannelTypeOK
<1>7. GuestsInvited'
  <2> SUFFICES ASSUME NEW k \in RoomId, NEW o \in rooms'[k].users
               PROVE  (o \in playing /\ MayEnter(rooms'[k], o)) \/ <<k, o>> \in astray'
    BY <1>1 DEF GuestsInvited, MayEnter
  <2>1. o \in rooms[k].users
    BY <1>1, <1>3 DEF ChannelTypeOK
  <2>2. MayEnter(rooms[k], o) => MayEnter(rooms'[k], o)
    BY <1>1, <1>3 DEF MayEnter, ChannelTypeOK, NoRoom
  <2>3. o \in Users(k)'
    BY DEF Users
  <2> QED
    BY <1>2, <1>1, <2>1, <2>2, <2>3 DEF GuestsInvited
<1> QED
  BY <1>2, <1>1, <1>5, <1>6, <1>7, CommonKept

LEMMA CreateRoomInv ==
  ASSUME ChannelAssumption, ChannelInv, NEW b \in Body, ParseCreatePrivateChannel(b)
  PROVE  ChannelInv'
<1> USE DEF ChannelInv
<1> DEFINE free == {i \in RoomId : rooms[i] = NoRoom}
           mine == [owner |-> NameOf[b], invites |-> {}, users |-> {b}]
<1>1. /\ UNCHANGED <<playing, left, members, guildId, common, astray>>
      /\ b \in playing /\ free # {}
      /\ rooms' = [rooms EXCEPT ![Min(free)] = mine]
  BY DEF ParseCreatePrivateChannel
<1>2. free \in SUBSET Nat
  BY NumbersApart
<1>3. Min(free) \in RoomId
  <2>1. Min(free) \in free
    BY <1>1, <1>2, MinOfNumbers, Zenon
  <2> QED
    BY <2>1
<1>4. mine \in Room
  BY DEF ChannelAssumption, Room
<1> HIDE DEF free
<1>5. ChannelTypeOK'
  BY <1>1, <1>3, <1>4 DEF ChannelTypeOK
<1>6. OwnerPlays'
  BY <1>1, <1>3 DEF OwnerPlays, ChannelTypeOK
<1>7. GuestsInvited'
  BY <1>1, <1>3 DEF GuestsInvited, ChannelTypeOK, MayEnter
<1> QED
  BY <1>1, <1>5, <1>6, <1>7, CommonKept

LEMMA InviteInv ==
  ASSUME ChannelAssumption, ChannelInv, NEW b \in Body, NEW o \in Body, ParseChannelInvite(b, o)
  PROVE  ChannelInv'
<1> USE DEF ChannelInv
<1> DEFINE i == OwnRoom(b)
<1>1. /\ UNCHANGED <<playing, left, members, guildId, common>>
      /\ {b, o} \subseteq playing
      /\ rooms' = [rooms EXCEPT ![i].invites = @ \cup {NameOf[o]}]
      /\ astray' = astray \ {<<i, o>>}
      /\ i \in RoomId
  BY OwnRoomOwned DEF ParseChannelInvite
<1> HIDE DEF i
<1>2. /\ rooms' \in [RoomId -> Room]
      /\ \A k \in RoomId : /\ rooms'[k].owner = rooms[k].owner /\ rooms'[k].users = rooms[k].users
                           /\ rooms'[k].invites = IF k = i THEN rooms[k].invites \cup {NameOf[o]} ELSE rooms[k].invites
                           /\ k # i => rooms'[k] = rooms[k]
  BY <1>1 DEF ChannelTypeOK, Room, ChannelAssumption
<1>3. rooms[i] = NoRoom => rooms'[i].users = {}
  BY <1>1, <1>2 DEF NoRoom
<1>4. i \notin Common
  BY <1>1, NumbersApart
<1>5. ChannelTypeOK'
  BY <1>1, <1>2 DEF ChannelTypeOK
<1>6. GuestsInvited'
  <2> SUFFICES ASSUME NEW k \in RoomId, NEW x \in rooms[k].users
               PROVE  (x \in playing /\ MayEnter(rooms'[k], x)) \/ <<k, x>> \in astray'
    BY <1>1, <1>2 DEF GuestsInvited, MayEnter
  <2>1. MayEnter(rooms[k], x) => MayEnter(rooms'[k], x)
    BY <1>2 DEF MayEnter
  <2>2. CASE k = i /\ x = o
    BY <1>1, <1>2, <2>2 DEF MayEnter
  <2>3. CASE ~ (k = i /\ x = o)
    BY <1>1, <2>1, <2>3 DEF GuestsInvited
  <2> QED
    BY <2>2, <2>3
<1>7. OneEach' /\ CommonFound' /\ GuildShown'
  BY <1>1, <1>4, CommonKept
<1>8. OwnerPlays'
  <2>1. rooms[i].owner = NameOf[b]
    BY OwnRoomOwned DEF ParseChannelInvite, i
  <2> QED
    BY <1>1, <1>2, <2>1 DEF OwnerPlays
<1> QED
  BY <1>5, <1>6, <1>7, <1>8

\* Who is excluded is the only one of his name in the game.
LEMMA ExcludeInv ==
  ASSUME ChannelAssumption, ChannelInv, NEW b \in Body, NEW o \in Body, ParseChannelExclude(b, o)
  PROVE  ChannelInv'
<1> USE DEF ChannelInv
<1> DEFINE i == OwnRoom(b)
<1>1. /\ UNCHANGED <<playing, left, members, guildId, common, astray>>
      /\ {b, o} \subseteq playing
      /\ rooms' = [rooms EXCEPT ![i] = Excluded(@, o)]
      /\ i \in RoomId /\ rooms[i].owner = NameOf[b]
  BY OwnRoomOwned DEF ParseChannelExclude
<1> HIDE DEF i
<1>2. /\ rooms' \in [RoomId -> Room]
      /\ \A k \in RoomId :
            /\ rooms'[k].owner = rooms[k].owner
            /\ rooms'[k].invites = IF k = i THEN rooms[k].invites \ {NameOf[o]} ELSE rooms[k].invites
            /\ rooms'[k].users = IF k = i THEN rooms[k].users \ {o} ELSE rooms[k].users
            /\ k # i => rooms'[k] = rooms[k]
  BY <1>1 DEF ChannelTypeOK, Room, Excluded
<1>3. ChannelTypeOK'
  BY <1>1, <1>2 DEF ChannelTypeOK
<1>4. OwnerPlays'
  BY <1>1, <1>2 DEF OwnerPlays
<1>5. GuestsInvited'
  <2> SUFFICES ASSUME NEW k \in RoomId, NEW x \in rooms'[k].users
               PROVE  (x \in playing /\ MayEnter(rooms'[k], x)) \/ <<k, x>> \in astray
    BY <1>1 DEF GuestsInvited, MayEnter
  <2>1. x \in rooms[k].users
    BY <1>2
  <2>2. CASE k # i
    BY <1>2, <2>1, <2>2 DEF GuestsInvited
  <2>3. CASE k = i /\ x \in playing
    <3>1. x # o
      BY <1>2, <2>3
    <3>2. NameOf[x] # NameOf[o]
      BY <1>1, <2>3, <3>1 DEF OneEach
    <3> QED
      BY <1>2, <2>1, <2>3, <3>2 DEF GuestsInvited, MayEnter
  <2> QED
    BY <2>1, <2>2, <2>3 DEF GuestsInvited
<1> QED
  BY <1>1, <1>3, <1>4, <1>5, CommonKept

LEMMA ChannelNextInv == ChannelAssumption /\ ChannelInv /\ [ChannelNext]_channelVars => ChannelInv'
<1> SUFFICES ASSUME ChannelAssumption, ChannelInv, [ChannelNext]_channelVars PROVE ChannelInv'
  OBVIOUS
<1>1. ASSUME NEW n \in Name, NEW g \in GuildId, SetPlayerGuild(n, g) PROVE ChannelInv'
  <2> DEFINE lists == [members EXCEPT ![g] = @ \cup {n}]
  <2>1. lists \in [GuildId -> SUBSET Name]
    BY DEF ChannelInv, ChannelTypeOK
  <2>2. \A k \in GuildId, x \in Name : x # n => (x \in lists[k] <=> x \in members[k])
    BY DEF ChannelInv, ChannelTypeOK
  <2>3. NewMembers(n, lists)
    BY <1>1 DEF SetPlayerGuild
  <2> HIDE DEF lists
  <2> QED
    BY <2>1, <2>2, <2>3, NewMembersInv
<1>2. ASSUME NEW n \in Name, ClearPlayerGuild(n) PROVE ChannelInv'
  <2> DEFINE lists == [members EXCEPT ![GuildOf(members, n)] = @ \ {n}]
  <2>1. lists \in [GuildId -> SUBSET Name]
    BY DEF ChannelInv, ChannelTypeOK
  <2>2. \A k \in GuildId, x \in Name : x # n => (x \in lists[k] <=> x \in members[k])
    BY DEF ChannelInv, ChannelTypeOK
  <2>3. NewMembers(n, lists)
    BY <1>2 DEF ClearPlayerGuild
  <2> HIDE DEF lists
  <2> QED
    BY <2>1, <2>2, <2>3, NewMembersInv
<1>3. CASE UNCHANGED channelVars
  BY <1>3 DEF channelVars, ChannelInv, ChannelTypeOK, OneEach, CommonFound, CommonOf, OwnerPlays,
              GuestsInvited, MayEnter, GuildShown
<1> QED
  BY <1>1, <1>2, <1>3, EnterGameInv, RemoveUserInv, GetChannelsInv, CreateRoomInv, OpenCommonInv,
     CloseCommonInv, OpenRoomInv, CloseRoomInv, InviteInv, ExcludeInv DEF ChannelNext

\* No channel keeps a player who has left the game, private channels have their owners and
\* only guests they invite, and the guild a player shows is the one of the lists
\* (chat.cpp:186, guilds.cpp).
THEOREM ChannelsHoldAlways == ChannelSpec => []ChannelsHold
BY ChannelAssumption, ChannelInitInv, ChannelNextInv, ChannelInvHolds, PTL DEF ChannelSpec

-----------------------------------------------------------------------------
(* Spawns.                                                                  *)

SpawnInv == SpawnTypeOK /\ NeverDeaf /\ strays.alive + strays.removed <= MaxStrays

\* The blocks, and the parts of them that are counted, are finitely many.
LEMMA BlocksCount ==
  ASSUME SpawnsAssumption, NEW S \in SUBSET Block
  PROVE  IsFiniteSet(S) /\ Cardinality(S) \in Nat
BY FS_Subset, FS_CardinalityType DEF SpawnsAssumption

LEMMA SpawnInitInv == SpawnsAssumption /\ SpawnInit => SpawnInv
<1> SUFFICES ASSUME SpawnsAssumption, SpawnInit PROVE SpawnInv
  OBVIOUS
<1>1. Registered \cup unplaced = Block /\ Registered \cap unplaced = {}
  BY DEF SpawnInit, Registered
<1>2. IsFiniteSet(Registered) /\ IsFiniteSet(unplaced)
  BY BlocksCount DEF SpawnInit, Registered
<1>3. Cardinality(Block) = Cardinality(Registered) + Cardinality(unplaced)
  <2>1. Cardinality(Registered \cup unplaced) =
            Cardinality(Registered) + Cardinality(unplaced) - Cardinality(Registered \cap unplaced)
    BY <1>2, FS_Union
  <2>2. Cardinality(Registered \cap unplaced) = 0
    BY <1>1, FS_EmptySet
  <2>3. Cardinality(Registered) \in Nat /\ Cardinality(unplaced) \in Nat
    BY <1>2, FS_CardinalityType
  <2>4. Cardinality(Block) = Cardinality(Registered \cup unplaced)
    BY <1>1
  <2> HIDE DEF Registered
  <2> QED
    BY <2>1, <2>2, <2>3, <2>4
<1>4. Cardinality(Registered) \in Nat /\ Cardinality(unplaced) \in Nat
  BY <1>2, FS_CardinalityType
<1>5. Size = Cardinality(Registered)
  BY <1>4 DEF SpawnInit, Size
<1>6. Size + Cardinality(unplaced) >= Cardinality(Block)
  BY <1>3, <1>4, <1>5
<1>7. spawned \in [Block -> {"none", "inZone"}] /\ unplaced \subseteq Block
  BY DEF SpawnInit
<1>8. strays \in [alive : 0 .. MaxStrays, removed : 0 .. MaxStrays] /\ strays.alive = 0 /\ strays.removed = 0
  BY DEF SpawnInit, SpawnsAssumption
<1>9. SpawnTypeOK
  BY <1>7, <1>8 DEF SpawnInit, SpawnTypeOK
<1>10. NeverDeaf
  BY <1>6, <1>7, <1>8 DEF NeverDeaf
<1> QED
  BY <1>8, <1>9, <1>10 DEF SpawnInv, SpawnsAssumption

\* The check arms itself for what is missing in number.
LEMMA CheckSpawnInv ==
  ASSUME SpawnsAssumption, SpawnInv, CheckSpawn
  PROVE  SpawnInv'
<1> DEFINE swept == [b \in Block |-> Swept(b)]
           empty == {b \in Block : swept[b] = "none"}
<1>1. /\ StraysSwept.alive <= MaxStrays /\ strays' = StraysSwept /\ unplaced' = unplaced
      /\ \E placed \in SUBSET empty :
            spawned' = [b \in Block |-> IF b \in placed THEN "inZone" ELSE swept[b]]
      /\ checkSpawnEvent' =
            (Cardinality({b \in Block : spawned'[b] # "none"}) + strays'.alive < Cardinality(Block))
  BY DEF CheckSpawn
<1>2. spawned' \in [Block -> {"none", "inZone"}]
  BY <1>1 DEF Swept
<1>3. StraysSwept.alive \in Nat /\ StraysSwept.removed = 0
  <2>1. Cardinality({b \in Block : spawned[b] = "outside"}) \in Nat
    BY BlocksCount
  <2> QED
    BY <2>1 DEF StraysSwept, SpawnInv, SpawnTypeOK
<1>4. strays' \in [alive : 0 .. MaxStrays, removed : 0 .. MaxStrays]
  BY <1>1, <1>3 DEF StraysSwept, SpawnsAssumption
<1>5. SpawnTypeOK'
  BY <1>1, <1>2, <1>4 DEF SpawnInv, SpawnTypeOK
<1>6. Registered' = {b \in Block : spawned'[b] # "none"}
  BY DEF Registered
<1>7. Cardinality(Registered') \in Nat /\ Cardinality(unplaced) \in Nat /\ Cardinality(Block) \in Nat
  BY <1>6, BlocksCount DEF SpawnInv, SpawnTypeOK
<1>8. ~ checkSpawnEvent' => Size' + Cardinality(unplaced') >= Cardinality(Block)
  <2> DEFINE there == Cardinality(Registered')
  <2>1. Size' = there + strays'.alive + strays'.removed
    BY DEF Size
  <2>2. ~ checkSpawnEvent' => ~ (there + strays'.alive < Cardinality(Block))
    BY <1>1, <1>6
  <2>3. there \in Nat /\ strays'.alive \in Nat /\ strays'.removed = 0
    BY <1>1, <1>3, <1>7
  <2> HIDE DEF there
  <2> QED
    BY <1>1, <1>7, <2>1, <2>2, <2>3
<1>9. NeverDeaf'
  BY <1>1, <1>2, <1>3, <1>8 DEF NeverDeaf
<1> QED
  BY <1>1, <1>3, <1>5, <1>9 DEF SpawnInv

LEMMA WanderInv ==
  ASSUME SpawnsAssumption, SpawnInv, Wander
  PROVE  SpawnInv'
<1>1. /\ UNCHANGED <<strays, checkSpawnEvent, unplaced>>
      /\ spawned' \in [Block -> {"none", "inZone", "outside", "removed"}]
      /\ \A b \in Block : /\ spawned'[b] = "none" <=> spawned[b] = "none"
                          /\ spawned'[b] = "removed" <=> spawned[b] = "removed"
  BY DEF Wander, SpawnInv, SpawnTypeOK
<1>2. Registered' = Registered
  BY <1>1 DEF Registered
<1>3. Size' = Size
  BY <1>1, <1>2 DEF Size
<1> QED
  BY <1>1, <1>3 DEF SpawnInv, SpawnTypeOK, NeverDeaf

LEMMA DisappearInv ==
  ASSUME SpawnsAssumption, SpawnInv, Disappear
  PROVE  SpawnInv'
<1>1. checkSpawnEvent' = TRUE /\ unplaced' = unplaced
  BY DEF Disappear, StartSpawnCheck
<1>2. CASE UNCHANGED strays
  BY <1>1, <1>2 DEF Disappear, SpawnInv, SpawnTypeOK, NeverDeaf
<1>3. CASE /\ strays.alive > 0 /\ UNCHANGED spawned
           /\ strays' = [strays EXCEPT !.alive = @ - 1, !.removed = @ + 1]
  <2>1. /\ strays.alive \in 0 .. MaxStrays /\ strays.removed \in 0 .. MaxStrays /\ MaxStrays \in Nat
        /\ strays.alive + strays.removed <= MaxStrays
    BY DEF SpawnInv, SpawnTypeOK, SpawnsAssumption
  <2>2. strays' = [alive |-> strays.alive - 1, removed |-> strays.removed + 1]
    BY <1>3 DEF SpawnInv, SpawnTypeOK
  <2>3. strays' \in [alive : 0 .. MaxStrays, removed : 0 .. MaxStrays]
    BY <1>3, <2>1, <2>2
  <2>4. strays'.alive + strays'.removed <= MaxStrays
    BY <2>1, <2>2
  <2> QED
    BY <1>1, <1>3, <2>3, <2>4 DEF SpawnInv, SpawnTypeOK, NeverDeaf
<1> QED
  BY <1>2, <1>3 DEF Disappear

LEMMA SpawnNextInv == SpawnsAssumption /\ SpawnInv /\ [SpawnNext]_spawnVars => SpawnInv'
<1> SUFFICES ASSUME SpawnsAssumption, SpawnInv, [SpawnNext]_spawnVars PROVE SpawnInv'
  OBVIOUS
<1>1. CASE UNCHANGED spawnVars
  <2>1. Size' = Size
    BY <1>1 DEF spawnVars, Size, Registered
  <2> QED
    BY <1>1, <2>1 DEF spawnVars, SpawnInv, SpawnTypeOK, NeverDeaf
<1> QED
  BY <1>1, CheckSpawnInv, WanderInv, DisappearInv DEF SpawnNext

LEMMA NeverDeafHolds == SpawnSpec => []NeverDeaf
<1>1. SpawnInv => NeverDeaf
  BY DEF SpawnInv
<1> QED
  BY <1>1, SpawnsAssumption, SpawnInitInv, SpawnNextInv, PTL DEF SpawnSpec

-----------------------------------------------------------------------------
(* Raids.                                                                   *)

\* What is told in the file of a raid are finitely many events, each with its delay.
LEMMA EventsOfRaid ==
  ASSUME RaidsAssumption, NEW r \in RaidList
  PROVE  /\ IsFiniteSet(RaidEvents(r)) /\ Length(r) \in Nat
         /\ \A i \in RaidEvents(r) : i \in Nat /\ File[r][i].delay \in 0 .. DelayWidth - 1
<1>1. File[r] \in Seq(EventNode)
  BY DEF RaidsAssumption, RaidList
<1>2. Len(File[r]) \in Nat /\ \A i \in 1 .. Len(File[r]) : File[r][i] \in EventNode
  BY <1>1
<1>3. RaidEvents(r) \in SUBSET (1 .. Len(File[r]))
  BY DEF RaidEvents
<1>4. IsFiniteSet(1 .. Len(File[r]))
  BY <1>2, FS_Interval
<1>5. IsFiniteSet(RaidEvents(r))
  BY <1>3, <1>4, FS_Subset
<1>6. Length(r) \in Nat
  BY <1>5, FS_CardinalityType DEF Length
<1>7. \A i \in RaidEvents(r) : File[r][i].delay \in 0 .. DelayWidth - 1
  BY <1>2, <1>3 DEF EventNode
<1> QED
  BY <1>2, <1>3, <1>5, <1>6, <1>7

\* Whoever comes before another has the smaller rank.
LEMMA RanksGrow ==
  ASSUME RaidsAssumption, NEW r \in RaidList, NEW i \in RaidEvents(r), NEW j \in RaidEvents(r),
         Before(r, i, j)
  PROVE  Rank(r, i) < Rank(r, j)
<1> DEFINE S == {k \in RaidEvents(r) : Before(r, k, i)}
           T == {k \in RaidEvents(r) : Before(r, k, j)}
<1>1. IsFiniteSet(RaidEvents(r))
      /\ \A k \in RaidEvents(r) : k \in Nat /\ File[r][k].delay \in Int
  BY EventsOfRaid DEF RaidsAssumption
<1>2. S \in SUBSET T
  BY <1>1 DEF Before
<1>3. i \in T /\ i \notin S
  BY <1>1 DEF Before
<1>4. IsFiniteSet(T)
  BY <1>1, FS_Subset
<1> HIDE DEF S, T
<1>5. IsFiniteSet(S) /\ Cardinality(S) <= Cardinality(T) /\ Cardinality(S) # Cardinality(T)
  BY <1>2, <1>3, <1>4, FS_Subset
<1>6. Cardinality(S) \in Nat /\ Cardinality(T) \in Nat
  BY <1>4, <1>5, FS_CardinalityType
<1> QED
  BY <1>5, <1>6 DEF Rank, S, T

\* There is an event of every rank.
LEMMA RanksAreAll ==
  ASSUME RaidsAssumption, NEW r \in RaidList, NEW k \in Nat, k < Length(r)
  PROVE  \E i \in RaidEvents(r) : Rank(r, i) = k
<1> DEFINE E == RaidEvents(r)
           N == 0 .. Length(r) - 1
           rank == [i \in E |-> Rank(r, i)]
<1>1. IsFiniteSet(E) /\ Length(r) \in Nat /\ Length(r) = Cardinality(E)
      /\ \A i \in E : i \in Nat /\ File[r][i].delay \in Int
  BY EventsOfRaid DEF RaidsAssumption, Length
<1>2. ASSUME NEW i \in E PROVE Rank(r, i) \in N
  <2> DEFINE S == {j \in E : Before(r, j, i)}
  <2>1. S \in SUBSET (E \ {i})
    BY <1>1 DEF Before
  <2>2. IsFiniteSet(E \ {i}) /\ Cardinality(E \ {i}) = Cardinality(E) - 1
    BY <1>1, <1>2, FS_RemoveElement
  <2> HIDE DEF E
  <2>3. IsFiniteSet(S) /\ Cardinality(S) <= Cardinality(E) - 1
    BY <2>1, <2>2, FS_Subset
  <2>4. Cardinality(S) \in Nat
    BY <2>3, FS_CardinalityType
  <2>5. Rank(r, i) = Cardinality(S)
    BY DEF Rank, E
  <2> HIDE DEF S
  <2> QED
    BY <1>1, <2>3, <2>4, <2>5
<1>3. ASSUME NEW i \in E, NEW j \in E, i # j PROVE Rank(r, i) # Rank(r, j)
  <2>1. Before(r, i, j) \/ Before(r, j, i)
    BY <1>1, <1>3 DEF Before
  <2>2. ASSUME NEW a \in RaidEvents(r), NEW b \in RaidEvents(r), Before(r, a, b)
        PROVE  Rank(r, a) < Rank(r, b)
    BY <2>2, RanksGrow
  <2>3. Rank(r, i) \in Int /\ Rank(r, j) \in Int
    BY <1>1, <1>2
  <2>4. Rank(r, i) < Rank(r, j) \/ Rank(r, j) < Rank(r, i)
    BY <2>1, <2>2
  <2> QED
    BY <2>3, <2>4
<1>4. IsFiniteSet(N) /\ Cardinality(N) = Cardinality(E)
  <2>1. PICK m \in Nat : m = Length(r)
    BY <1>1
  <2>2. 0 \in Int /\ m - 1 \in Int
    OBVIOUS
  <2>3. IsFiniteSet(0 .. m - 1) /\ Cardinality(0 .. m - 1) = IF 0 > m - 1 THEN 0 ELSE m - 1 - 0 + 1
    BY <2>2, FS_Interval
  <2> QED
    BY <1>1, <2>1, <2>3
<1> HIDE DEF E, N
<1>5. rank \in [E -> N] /\ \A i \in E : rank[i] = Rank(r, i)
  BY <1>2
<1> HIDE DEF rank
<1>6. rank \in Injection(E, N)
  BY <1>3, <1>5 DEF Injection, IsInjective
<1>7. rank \in Surjection(E, N)
  BY <1>1, <1>4, <1>6, FS_Injection
<1>8. k \in N
  BY <1>1 DEF N
<1> QED
  BY <1>5, <1>7, <1>8 DEF Surjection, E

\* An index in range stands for an event of its rank, and events come in the order of
\* their delays.
LEMMA EventsInOrder ==
  ASSUME RaidsAssumption, NEW r \in RaidList, NEW k \in Nat, k < Length(r)
  PROVE  /\ EventAt(r, k).delay \in 0 .. DelayWidth - 1
         /\ k + 1 < Length(r) => EventAt(r, k).delay <= EventAt(r, k + 1).delay
<1> DEFINE At(n) == CHOOSE i \in RaidEvents(r) : Rank(r, i) = n
<1>1. ASSUME NEW n \in Nat, n < Length(r)
      PROVE  /\ At(n) \in RaidEvents(r) /\ Rank(r, At(n)) = n
             /\ EventAt(r, n) = File[r][At(n)]
  <2>1. \E i \in RaidEvents(r) : Rank(r, i) = n
    BY <1>1, RanksAreAll
  <2> QED
    BY <2>1 DEF EventAt
<1>2. \A i \in RaidEvents(r) : i \in Nat /\ File[r][i].delay \in 0 .. DelayWidth - 1
  BY EventsOfRaid
<1>3. At(k) \in RaidEvents(r) /\ Rank(r, At(k)) = k /\ EventAt(r, k) = File[r][At(k)]
  BY <1>1
<1>4. ASSUME k + 1 < Length(r)
      PROVE  EventAt(r, k).delay <= EventAt(r, k + 1).delay
  <2>1. /\ At(k + 1) \in RaidEvents(r) /\ Rank(r, At(k + 1)) = k + 1
        /\ EventAt(r, k + 1) = File[r][At(k + 1)]
    BY <1>1, <1>4
  <2>2. PICK a, b : /\ a \in RaidEvents(r) /\ b \in RaidEvents(r) /\ Rank(r, a) = k /\ Rank(r, b) = k + 1
                    /\ EventAt(r, k) = File[r][a] /\ EventAt(r, k + 1) = File[r][b]
    BY <1>3, <2>1
  <2>3. ~ Before(r, b, a)
    <3>1. Before(r, b, a) => Rank(r, b) < Rank(r, a)
      BY <2>2, RanksGrow
    <3> QED
      BY <2>2, <3>1
  <2>4. ~ (File[r][b].delay < File[r][a].delay)
    BY <2>3 DEF Before
  <2>5. File[r][a].delay \in Int /\ File[r][b].delay \in Int
    BY <1>2, <2>2 DEF RaidsAssumption
  <2> QED
    BY <2>2, <2>4, <2>5
<1> QED
  BY <1>2, <1>3, <1>4

\* nextEvent is one of raidEvents, if there is any.
NextThere == \A r \in RaidList : raids.next[r] < Length(r) \/ Length(r) = 0

\* A raid that was not started twice has one event in the scheduler at most, the next one.
OneChain ==
    \A i \in Pending : chain[i].raid \notin raids.doubled =>
        /\ chain[i].index = raids.next[chain[i].raid]
        /\ \A j \in Pending : chain[j].raid = chain[i].raid => j = i

RaidInv == RaidTypeOK /\ NextThere /\ OneChain /\ RaidsMoveOn

RaidState ==
    [running : RaidList \cup {NoRaid}, executing : SUBSET RaidList, next : [RaidList -> Nat],
     doubled : SUBSET RaidList]

LEMMA RaidInitInv == RaidsAssumption /\ RaidInit => RaidInv
<1> SUFFICES ASSUME RaidsAssumption, RaidInit PROVE RaidInv
  OBVIOUS
<1>1. Pending = {}
  BY DEF RaidInit, Pending
<1>2. RaidTypeOK
  BY <1>1 DEF RaidInit, RaidTypeOK
<1>3. NextThere
  BY EventsOfRaid DEF RaidInit, NextThere
<1> QED
  BY <1>1, <1>2, <1>3 DEF RaidInit, RaidInv, OneChain, RaidsMoveOn

\* An event and what it waits for.
LEMMA NewEvent ==
  ASSUME RaidsAssumption, NEW r \in RaidList, NEW n \in Nat, n < Length(r), NEW forced \in BOOLEAN,
         NEW wait \in 0 .. DelayWidth - 1
  PROVE  LET event == [raid |-> r, index |-> n, forced |-> forced, wait |-> wait] IN
         /\ event \in RaidEvent /\ event # NoRaid
         /\ event.raid = r /\ event.index = n /\ event.wait = wait
<1> DEFINE event == [raid |-> r, index |-> n, forced |-> forced, wait |-> wait]
<1>1. event \in RaidEvent
  BY DEF RaidEvent
<1>2. event.raid = r /\ event.index = n /\ event.wait = wait
  OBVIOUS
<1> HIDE DEF event
<1>3. event # NoRaid
  BY <1>1 DEF RaidsAssumption
<1> QED
  BY <1>1, <1>2, <1>3 DEF event

LEMMA LaunchedInv ==
  ASSUME RaidsAssumption, RaidInv, NEW r \in RaidList, NEW forced \in BOOLEAN,
         Launched(r, forced), checking' \in RaidList \cup {NoRaid}
  PROVE  RaidInv'
<1> USE DEF RaidInv
<1>1. raids \in RaidState /\ raids.next \in [RaidList -> Nat]
  BY DEF RaidTypeOK, RaidState
<1>2. CASE raids.next[r] < Length(r)
  <2>1. PICK k \in Nat : k = raids.next[r]
    BY <1>1
  <2> DEFINE d == EventAt(r, k).delay
             event == [raid |-> r, index |-> k, forced |-> forced, wait |-> d]
             twice == \E i \in Pending : chain[i].raid = r
             doubled == IF twice THEN raids.doubled \cup {r} ELSE raids.doubled
  <2>2. d \in 0 .. DelayWidth - 1
    BY <1>2, <2>1, EventsInOrder
  <2>3. /\ event \in RaidEvent /\ event # NoRaid
        /\ event.raid = r /\ event.index = k /\ event.wait = d
    BY <1>2, <2>1, <2>2, NewEvent
  <2>4. /\ Pending # 1 .. MaxChains
        /\ chain' = [chain EXCEPT ![FreeChain] = event]
    BY <1>2, <2>1 DEF Launched
  <2>5. /\ raids'.running = r /\ raids'.executing = raids.executing \cup {r}
        /\ raids'.next = raids.next /\ raids'.doubled = doubled
        /\ raids' \in RaidState
    <3>1. raids' = [raids EXCEPT !.running = r, !.executing = @ \cup {r}, !.doubled = doubled]
      BY <1>1, <1>2 DEF Launched, RaidState
    <3>2. doubled \in SUBSET RaidList
      BY <1>1 DEF RaidState
    <3> HIDE DEF doubled
    <3> QED
      BY <1>1, <3>1, <3>2 DEF RaidState
  <2> HIDE DEF event, d
  <2>6. FreeChain \in 1 .. MaxChains /\ chain[FreeChain] = NoRaid
    BY <2>4 DEF FreeChain, Pending
  <2>7. PICK f : f = FreeChain
    OBVIOUS
  <2>8. /\ chain' \in [1 .. MaxChains -> RaidEvent \cup {NoRaid}]
        /\ Pending' = Pending \cup {f} /\ f \notin Pending
        /\ chain'[f] = event /\ \A i \in Pending : chain'[i] = chain[i]
    BY <2>3, <2>4, <2>6, <2>7 DEF RaidTypeOK, Pending
  <2>9. RaidTypeOK'
    BY <1>2, <2>1, <2>3, <2>5, <2>8 DEF RaidTypeOK, RaidState
  <2>10. NextThere'
    BY <2>5 DEF NextThere
  <2>11. OneChain'
    <3> SUFFICES ASSUME NEW i \in Pending', chain'[i].raid \notin doubled
                 PROVE  /\ chain'[i].index = raids.next[chain'[i].raid]
                        /\ \A j \in Pending' : chain'[j].raid = chain'[i].raid => j = i
      BY <2>5 DEF OneChain
    <3>1. CASE i = f
      <4>1. ~ twice
        BY <2>3, <2>8, <3>1
      <4> QED
        BY <2>1, <2>3, <2>8, <3>1, <4>1
    <3>2. CASE i # f
      <4>1. i \in Pending /\ chain'[i] = chain[i]
        BY <2>8, <3>2
      <4>2. chain[i].raid \notin raids.doubled /\ chain[i].raid # r
        BY <4>1
      <4> QED
        BY <2>3, <2>8, <4>1, <4>2 DEF OneChain
    <3> QED
      BY <3>1, <3>2
  <2>12. RaidsMoveOn'
    <3>1. f \in Pending' /\ chain'[f].raid = r
      BY <2>3, <2>8
    <3>2. ASSUME NEW q \in raids.executing
          PROVE  \E i \in Pending' : chain'[i].raid = q
      BY <2>8 DEF RaidsMoveOn
    <3>3. ASSUME NEW i \in Pending'
          PROVE  \/ chain'[i].raid \in raids'.doubled
                 \/ chain'[i].wait <= EventAt(chain'[i].raid, chain'[i].index).delay
      <4>1. CASE i = f
        BY <2>2, <2>3, <2>8, <4>1 DEF d, RaidsAssumption
      <4>2. CASE i # f
        <5>1. i \in Pending /\ chain'[i] = chain[i]
          BY <2>8, <4>2
        <5> QED
          BY <2>5, <5>1 DEF RaidsMoveOn
      <4> QED
        BY <4>1, <4>2
    <3> QED
      BY <2>5, <3>1, <3>2, <3>3 DEF RaidsMoveOn
  <2> QED
    BY <2>9, <2>10, <2>11, <2>12
<1>3. CASE ~ (raids.next[r] < Length(r))
  <2>1. raids' = [raids EXCEPT !.running = r] /\ chain' = chain
    BY <1>1, <1>3 DEF Launched, RaidState
  <2>2. Length(r) = 0
    BY <1>3 DEF NextThere
  <2>3. /\ raids'.running = r /\ raids'.executing = raids.executing
        /\ raids'.next = raids.next /\ raids'.doubled = raids.doubled /\ raids' \in RaidState
    BY <1>1, <2>1 DEF RaidState
  <2>4. Pending' = Pending
    BY <2>1 DEF Pending
  <2>5. RaidTypeOK'
    BY <2>1, <2>3, <2>4 DEF RaidTypeOK, RaidState
  <2>6. NextThere' /\ OneChain' /\ RaidsMoveOn'
    BY <2>1, <2>2, <2>3, <2>4 DEF NextThere, OneChain, RaidsMoveOn
  <2> QED
    BY <2>5, <2>6
<1> QED
  BY <1>2, <1>3

\* The events that are in the scheduler after one of them has been done.
LEMMA ExecuteRaidEventInv ==
  ASSUME RaidsAssumption, RaidInv, ExecuteRaidEvent
  PROVE  RaidInv'
<1> USE DEF RaidInv
<1>1. PICK i \in Pending, works \in BOOLEAN :
        LET r == chain[i].raid
            done == EventAt(r, chain[i].index)
            n == raids.next[r] + 1
            more == works /\ HasNext(r)
        IN  /\ raids' = IF more THEN [raids EXCEPT !.next[r] = @ + 1] ELSE Reset(r)
            /\ chain' = [chain EXCEPT ![i] =
                          IF more THEN [raid |-> r, index |-> n, forced |-> FALSE,
                                        wait |-> Wait(done.delay, EventAt(r, n).delay)]
                                  ELSE NoRaid]
            /\ UNCHANGED checking
  BY DEF ExecuteRaidEvent
<1>2. i \in 1 .. MaxChains /\ chain[i] \in RaidEvent /\ chain[i].index < Length(chain[i].raid)
  BY DEF RaidTypeOK, Pending
<1>3. PICK r \in RaidList, x \in Nat : r = chain[i].raid /\ x = chain[i].index
  BY <1>2 DEF RaidEvent
<1>4. raids \in RaidState /\ raids.next \in [RaidList -> Nat]
  BY DEF RaidTypeOK, RaidState
<1>5. CASE works /\ HasNext(r)
  <2>1. PICK n \in Nat : n = raids.next[r] + 1 /\ n < Length(r)
    BY <1>3, <1>4, <1>5 DEF HasNext
  <2>2. PICK a \in Nat, b \in Nat :
          /\ a = EventAt(r, x).delay /\ a < DelayWidth /\ b = EventAt(r, n).delay /\ b < DelayWidth
    <3>1. EventAt(r, x).delay \in 0 .. DelayWidth - 1
      <4>1. x < Length(r)
        BY <1>2, <1>3
      <4> QED
        BY <4>1, EventsInOrder
    <3>2. EventAt(r, n).delay \in 0 .. DelayWidth - 1
      BY <2>1, EventsInOrder
    <3>3. DelayWidth \in Nat
      BY DEF RaidsAssumption
    <3>4. PICK a, b : a = EventAt(r, x).delay /\ b = EventAt(r, n).delay
      OBVIOUS
    <3>5. a \in Nat /\ a < DelayWidth /\ b \in Nat /\ b < DelayWidth
      BY <3>1, <3>2, <3>3, <3>4
    <3> QED
      BY <3>4, <3>5
  <2>3. PICK w \in 0 .. DelayWidth - 1 : w = Wait(a, b)
    <3>1. DelayWidth \in Nat
      BY DEF RaidsAssumption
    <3>2. (IF a <= b THEN b - a ELSE b + DelayWidth - a) \in 0 .. DelayWidth - 1
      BY <2>2, <3>1
    <3> QED
      BY ONLY <3>2 DEF Wait
  <2> DEFINE event == [raid |-> r, index |-> n, forced |-> FALSE, wait |-> w]
  <2>4. /\ event \in RaidEvent /\ event # NoRaid
        /\ event.raid = r /\ event.index = n /\ event.wait = w
    <3>1. PICK f \in BOOLEAN : f = FALSE
      OBVIOUS
    <3>2. LET e == [raid |-> r, index |-> n, forced |-> f, wait |-> w] IN
          e \in RaidEvent /\ e # NoRaid /\ e.raid = r /\ e.index = n /\ e.wait = w
      BY <2>1, NewEvent
    <3> QED
      BY <3>1, <3>2
  <2>5. /\ raids' = [raids EXCEPT !.next[r] = @ + 1]
        /\ chain' = [chain EXCEPT ![i] = event] /\ UNCHANGED checking
    BY <1>1, <1>3, <1>5, <2>1, <2>2, <2>3
  <2> HIDE DEF event
  <2>6. /\ chain' \in [1 .. MaxChains -> RaidEvent \cup {NoRaid}]
        /\ Pending' = Pending /\ chain'[i] = event
        /\ \A j \in Pending : chain'[j].raid = chain[j].raid /\ (j # i => chain'[j] = chain[j])
    BY <1>2, <1>3, <2>4, <2>5 DEF RaidTypeOK, Pending
  <2>7. /\ raids'.running = raids.running /\ raids'.executing = raids.executing
        /\ raids'.doubled = raids.doubled
        /\ raids'.next = [raids.next EXCEPT ![r] = n] /\ raids' \in RaidState
    BY <1>3, <1>4, <2>1, <2>5 DEF RaidState
  <2>8. RaidTypeOK'
    <3>1. ASSUME NEW j \in Pending PROVE chain'[j].index < Length(chain'[j].raid)
      BY <2>1, <2>4, <2>6 DEF RaidTypeOK
    <3> QED
      BY <2>5, <2>6, <2>7, <3>1 DEF RaidTypeOK, RaidState
  <2>9. NextThere'
    BY <1>3, <1>4, <2>1, <2>7 DEF NextThere
  <2>10. OneChain'
    <3> SUFFICES ASSUME NEW j \in Pending, chain[j].raid \notin raids.doubled
                 PROVE  /\ chain'[j].index = raids'.next[chain[j].raid]
                        /\ \A h \in Pending : chain[h].raid = chain[j].raid => h = j
      BY <2>6, <2>7 DEF OneChain
    <3>1. \A h \in Pending : chain[h].raid = chain[j].raid => h = j
      BY DEF OneChain
    <3>2. CASE j = i
      BY <1>3, <1>4, <2>4, <2>6, <2>7, <3>1, <3>2
    <3>3. CASE j # i
      <4>1. chain[j].raid # r /\ chain'[j] = chain[j]
        BY <1>3, <2>6, <3>1, <3>3
      <4>2. chain[j].raid \in RaidList
        BY DEF RaidTypeOK, Pending, RaidEvent
      <4> QED
        BY <1>4, <2>7, <3>1, <4>1, <4>2 DEF OneChain
    <3> QED
      BY <3>2, <3>3
  <2>11. RaidsMoveOn'
    <3>1. ASSUME NEW q, \E j \in Pending : chain[j].raid = q
          PROVE  \E j \in Pending' : chain'[j].raid = q
      BY <2>6, <3>1
    <3>2. r \in raids.doubled \/ w <= b
      <4>1. r \notin raids.doubled => x = raids.next[r]
        BY <1>3 DEF OneChain
      <4>2. r \notin raids.doubled => a <= b
        <5>1. x + 1 < Length(r) => EventAt(r, x).delay <= EventAt(r, x + 1).delay
          BY <1>2, <1>3, EventsInOrder
        <5> QED
          BY <1>3, <1>4, <2>1, <2>2, <4>1, <5>1
      <4> QED
        BY <2>2, <2>3, <4>2 DEF Wait
    <3>3. ASSUME NEW j \in Pending
          PROVE  \/ chain'[j].raid \in raids.doubled
                 \/ chain'[j].wait <= EventAt(chain'[j].raid, chain'[j].index).delay
      <4>1. CASE j = i
        BY <2>2, <2>4, <2>6, <3>2, <4>1
      <4>2. CASE j # i
        BY <2>6, <4>2 DEF RaidsMoveOn
      <4> QED
        BY <4>1, <4>2
    <3> QED
      BY <2>6, <2>7, <3>1, <3>3 DEF RaidsMoveOn
  <2> QED
    BY <2>8, <2>9, <2>10, <2>11
<1>6. CASE ~ (works /\ HasNext(r))
  <2>1. raids' = Reset(r) /\ chain' = [chain EXCEPT ![i] = NoRaid] /\ UNCHANGED checking
    BY <1>1, <1>3, <1>6
  <2>2. Pending' = Pending \ {i} /\ \A j \in Pending' : chain'[j] = chain[j]
    BY <1>2, <2>1 DEF RaidTypeOK, Pending
  <2>3. /\ raids'.running = NoRaid /\ raids'.executing = raids.executing \ {r}
        /\ raids'.next = [raids.next EXCEPT ![r] = 0] /\ raids'.doubled = raids.doubled
        /\ raids' \in RaidState
    BY <1>3, <1>4, <2>1 DEF RaidState, Reset
  <2>4. RaidTypeOK'
    BY <1>2, <2>1, <2>2, <2>3 DEF RaidTypeOK, RaidState
  <2>5. NextThere'
    <3>1. Length(r) \in Nat
      BY EventsOfRaid
    <3> QED
      BY <1>3, <1>4, <2>3, <3>1 DEF NextThere
  <2>6. OneChain'
    <3> SUFFICES ASSUME NEW j \in Pending', chain[j].raid \notin raids.doubled
                 PROVE  /\ chain[j].index = raids'.next[chain[j].raid]
                        /\ \A h \in Pending' : chain[h].raid = chain[j].raid => h = j
      BY <2>2, <2>3 DEF OneChain
    <3>1. /\ chain[j].index = raids.next[chain[j].raid]
          /\ \A h \in Pending : chain[h].raid = chain[j].raid => h = j
      BY <2>2 DEF OneChain
    <3>2. chain[j].raid # r
      BY <1>3, <2>2, <3>1
    <3>3. chain[j].raid \in RaidList
      BY <2>2 DEF RaidTypeOK, Pending, RaidEvent
    <3> QED
      BY <1>4, <2>2, <2>3, <3>1, <3>2, <3>3
  <2>7. RaidsMoveOn'
    <3>1. ASSUME NEW q \in raids.executing, q # r
          PROVE  \E j \in Pending' : chain'[j].raid = q
      <4>1. PICK j \in Pending : chain[j].raid = q
        BY DEF RaidsMoveOn
      <4>2. j # i
        BY <1>3, <3>1, <4>1
      <4> QED
        BY <2>2, <4>1, <4>2
    <3>2. ASSUME NEW j \in Pending'
          PROVE  \/ chain'[j].raid \in raids'.doubled
                 \/ chain'[j].wait <= EventAt(chain'[j].raid, chain'[j].index).delay
      BY <2>2, <2>3 DEF RaidsMoveOn
    <3> QED
      BY <2>3, <3>1, <3>2 DEF RaidsMoveOn
  <2> QED
    BY <2>4, <2>5, <2>6, <2>7
<1> QED
  BY <1>5, <1>6

\* A step that leaves the events alone.
LEMMA RaidsStay ==
  ASSUME RaidInv, UNCHANGED <<raids, chain>>, checking' \in RaidList \cup {NoRaid}
  PROVE  RaidInv'
<1>1. Pending' = Pending
  BY DEF Pending
<1> QED
  BY <1>1 DEF RaidInv, RaidTypeOK, NextThere, OneChain, RaidsMoveOn

LEMMA RaidNextInv == RaidsAssumption /\ RaidInv /\ [RaidNext]_raidVars => RaidInv'
<1> SUFFICES ASSUME RaidsAssumption, RaidInv, [RaidNext]_raidVars PROVE RaidInv'
  OBVIOUS
<1>1. CASE CheckRaid
  BY <1>1, RaidsStay DEF CheckRaid
<1>2. CASE StartRaid
  BY <1>2, LaunchedInv DEF StartRaid, RaidInv, RaidTypeOK
<1>3. CASE ForceRaid
  BY <1>3, LaunchedInv DEF ForceRaid, RaidInv, RaidTypeOK
<1>4. CASE Reload
  <2>3. RaidTypeOK' /\ Pending' = {}
    BY <1>4 DEF Reload, RaidInv, RaidTypeOK, Pending
  <2>4. NextThere'
    BY <1>4, EventsOfRaid DEF Reload, NextThere
  <2> QED
    BY <1>4, <2>3, <2>4 DEF Reload, RaidInv, OneChain, RaidsMoveOn
<1>5. CASE UNCHANGED raidVars
  BY <1>5, RaidsStay DEF raidVars, RaidInv, RaidTypeOK
<1> QED
  BY <1>1, <1>2, <1>3, <1>4, <1>5, ExecuteRaidEventInv DEF RaidNext


LEMMA RaidsMoveOnHolds == RaidSpec => []RaidsMoveOn
<1>1. RaidInv => RaidsMoveOn
  BY DEF RaidInv
<1> QED
  BY <1>1, RaidsAssumption, RaidInitInv, RaidNextInv, PTL DEF RaidSpec

-----------------------------------------------------------------------------
(* The events of creatures.                                                 *)

\* The event a creature keeps the id of is in the queue or among those in P.
Held(w, P, c, k) ==
    w.slot[c][k] # NoEvent => [id |-> w.slot[c][k], walker |-> c, kind |-> k] \in w.queue \cup P

\* The id a creature keeps is that of no event but its own.
ChainsOK(w, P) ==
    /\ w.slot \in [Walker -> [EventKind -> EventId \cup {NoEvent}]]
    /\ w.queue \in SUBSET Event /\ P \in SUBSET Event
    /\ \A e \in w.queue \cup P, c \in Walker, k \in EventKind :
        w.slot[c][k] = e.id => e.walker = c /\ e.kind = k

\* Ids that nobody uses.
Spare(w) == EventId \ UsedIds(w.slot, w.queue)

\* A creature that has not been placed has no event.
NewIdle == \A c \in Walker, k \in EventKind : life[c].state = "new" => slot[c][k] = NoEvent

Life == [state : {"new", "alive", "dead", "removed"}, mended : BOOLEAN]

EventInv == EventTypeOK /\ ChainsOK(Chains, popped) /\ NewIdle /\ NoLostChain

\* What a step has to show.
LEMMA EventStep ==
  ASSUME NEW w, Become(w), ChainsOK(w, popped'), life' \in [Walker -> Life],
         \A c \in Walker, k \in EventKind :
            /\ life'[c].state = "new" => w.slot[c][k] = NoEvent
            /\ life'[c].state = "alive" /\ ~ life'[c].mended => Held(w, popped', c, k)
  PROVE  EventInv'
<1>1. slot' = w.slot /\ queue' = w.queue
  BY DEF Become
<1>2. EventTypeOK'
  BY <1>1 DEF EventTypeOK, ChainsOK, Life
<1>3. ChainsOK(Chains, popped)'
  BY <1>1 DEF ChainsOK, Chains
<1>4. NewIdle' /\ NoLostChain'
  BY <1>1 DEF NewIdle, NoLostChain, Held
<1> QED
  BY <1>2, <1>3, <1>4 DEF EventInv

\* What adding an event of c to w leaves.
AddsTo(w, v, c, k) ==
    /\ ChainsOK(v, popped)
    /\ \A d \in Walker, l \in EventKind : Held(w, popped, d, l) => Held(v, popped, d, l)
    /\ \A d \in Walker, l \in EventKind : Held(w, {}, d, l) => Held(v, {}, d, l)
    /\ w.slot[c][k] = NoEvent => Held(v, {}, c, k)
    /\ \A d \in Walker, l \in EventKind : d # c \/ l # k => v.slot[d][l] = w.slot[d][l]
    /\ \E i : Spare(w) \ {i} \subseteq Spare(v)

\* An event is added under an id that nobody uses.
LEMMA AddedOK ==
  ASSUME EventsAssumption, NEW w, ChainsOK(w, popped), Spare(w) # {},
         NEW c \in Walker, NEW k \in EventKind
  PROVE  AddsTo(w, Added(w, c, k), c, k)
<1> DEFINE v == Added(w, c, k)
<1> SUFFICES AddsTo(w, v, c, k)
  OBVIOUS
<1>1. CASE w.slot[c][k] # NoEvent
  BY <1>1 DEF Added, Held, AddsTo
<1>2. CASE w.slot[c][k] = NoEvent
  <2> DEFINE id == CHOOSE i \in EventId : i \notin UsedIds(w.slot, w.queue)
             new == [id |-> id, walker |-> c, kind |-> k]
             after == [w.slot EXCEPT ![c][k] = id]
  <2>1. v = [slot |-> after, queue |-> w.queue \cup {new}]
    BY <1>2 DEF Added
  <2>2. id \in EventId /\ id \notin UsedIds(w.slot, w.queue)
    BY DEF Spare
  <2> HIDE DEF id
  <2>3. v.slot = after /\ v.queue = w.queue \cup {new}
    BY <2>1
  <2>4. id # NoEvent
    BY <2>2 DEF EventsAssumption
  <2>5. /\ after \in [Walker -> [EventKind -> EventId \cup {NoEvent}]]
        /\ after[c][k] = id
        /\ \A d \in Walker, l \in EventKind : d # c \/ l # k => after[d][l] = w.slot[d][l]
    BY <2>2 DEF ChainsOK
  <2>6. new \in Event /\ new.id = id /\ new.walker = c /\ new.kind = k
    BY <2>2 DEF Event
  <2>7. /\ \A e \in w.queue \cup popped : e.id # id
        /\ \A d \in Walker, l \in EventKind : w.slot[d][l] # id
    BY <2>2 DEF UsedIds
  <2>8. Held(v, {}, c, k)
    BY <2>3, <2>5 DEF Held
  <2>9. ASSUME NEW P, NEW d \in Walker, NEW l \in EventKind, Held(w, P, d, l)
        PROVE  Held(v, P, d, l)
    <3>1. CASE d = c /\ l = k
      BY <2>8, <3>1 DEF Held
    <3>2. CASE d # c \/ l # k
      <4>1. v.slot[d][l] = w.slot[d][l]
        BY <2>3, <2>5, <3>2
      <4> QED
        BY <2>3, <2>9, <4>1 DEF Held
    <3> QED
      BY <3>1, <3>2
  <2> HIDE DEF after, new
  <2>10. ChainsOK(v, popped)
    BY <2>3, <2>5, <2>6, <2>7 DEF ChainsOK
  <2>11. Spare(w) \ {id} \subseteq Spare(v)
    <3> SUFFICES ASSUME NEW i \in EventId, i \notin UsedIds(w.slot, w.queue), i # id
                 PROVE  i \notin UsedIds(v.slot, v.queue)
      BY DEF Spare
    <3>1. \A e \in v.queue \cup popped : e.id # i
      BY <2>3, <2>6 DEF UsedIds
    <3>2. \A d \in Walker, l \in EventKind : v.slot[d][l] # i
      BY <2>3, <2>5 DEF UsedIds
    <3> QED
      BY <3>1, <3>2 DEF UsedIds
  <2>12. \A d \in Walker, l \in EventKind : d # c \/ l # k => v.slot[d][l] = w.slot[d][l]
    BY <2>3, <2>5 DEF after
  <2> HIDE DEF v
  <2> QED
    BY ONLY <2>8, <2>9, <2>10, <2>11, <2>12 DEF AddsTo
<1> QED
  BY <1>1, <1>2

\* Stopping an event takes no other event out of the queue.
LEMMA StoppedOK ==
  ASSUME EventsAssumption, NEW P, NEW w, ChainsOK(w, P), NEW c \in Walker, NEW k \in EventKind,
         NEW v, v = Stopped(w, c, k)
  PROVE  /\ ChainsOK(v, P)
         /\ \A d \in Walker, l \in EventKind : Held(w, P, d, l) => Held(v, P, d, l)
         /\ \A d \in Walker, l \in EventKind : v.slot[d][l] = IF d = c /\ l = k THEN NoEvent ELSE w.slot[d][l]
<1>1. /\ v.slot = [w.slot EXCEPT ![c][k] = NoEvent]
      /\ v.queue = {e \in w.queue : e.id # w.slot[c][k]}
  BY DEF Stopped
<1>2. /\ v.slot \in [Walker -> [EventKind -> EventId \cup {NoEvent}]]
      /\ \A d \in Walker, l \in EventKind : v.slot[d][l] = IF d = c /\ l = k THEN NoEvent ELSE w.slot[d][l]
  BY <1>1 DEF ChainsOK
<1>3. \A e \in w.queue \cup P : e.id # NoEvent /\ e \in Event
  BY DEF ChainsOK, Event, EventsAssumption
<1>4. ChainsOK(v, P)
  BY <1>1, <1>2, <1>3 DEF ChainsOK
<1>5. ASSUME NEW d \in Walker, NEW l \in EventKind, Held(w, P, d, l)
      PROVE  Held(v, P, d, l)
  <2>1. CASE d = c /\ l = k
    BY <1>2, <2>1 DEF Held
  <2>2. CASE d # c \/ l # k
    <3> DEFINE e == [id |-> w.slot[d][l], walker |-> d, kind |-> l]
    <3>1. v.slot[d][l] = w.slot[d][l]
      BY <1>2, <2>2
    <3>2. CASE w.slot[d][l] # NoEvent
      <4>1. e \in w.queue \cup P
        BY <1>5, <3>2 DEF Held
      <4>2. e.id = w.slot[d][l] /\ e.walker = d /\ e.kind = l
        OBVIOUS
      <4> HIDE DEF e
      <4>3. e.id # w.slot[c][k]
        BY <2>2, <4>1, <4>2 DEF ChainsOK
      <4>4. e \in v.queue \cup P
        BY <1>1, <4>1, <4>3
      <4> QED
        BY <3>1, <4>4 DEF Held, e
    <3>3. CASE w.slot[d][l] = NoEvent
      BY <3>1, <3>3 DEF Held
    <3> QED
      BY <3>2, <3>3
  <2> QED
    BY <2>1, <2>2
<1> QED
  BY <1>2, <1>4, <1>5

\* What emptying a slot of w leaves.
Empties(w, v, c, k) ==
    /\ ChainsOK(v, popped)
    /\ \A P : \A d \in Walker, l \in EventKind : Held(w, P, d, l) => Held(v, P, d, l)
    /\ \A d \in Walker, l \in EventKind : v.slot[d][l] = IF d = c /\ l = k THEN NoEvent ELSE w.slot[d][l]
    /\ Spare(w) \subseteq Spare(v)

\* A slot may be emptied while its event stays in the queue.
LEMMA EmptiedOK ==
  ASSUME EventsAssumption, NEW w, ChainsOK(w, popped), NEW c \in Walker, NEW k \in EventKind,
         NEW v, v.slot = [w.slot EXCEPT ![c][k] = NoEvent], v.queue = w.queue
  PROVE  Empties(w, v, c, k)
<1>1. /\ v.slot \in [Walker -> [EventKind -> EventId \cup {NoEvent}]]
      /\ \A d \in Walker, l \in EventKind : v.slot[d][l] = IF d = c /\ l = k THEN NoEvent ELSE w.slot[d][l]
  BY DEF ChainsOK
<1>2. \A e \in w.queue \cup popped : e.id # NoEvent
  BY DEF ChainsOK, Event, EventsAssumption
<1>3. ChainsOK(v, popped)
  BY <1>1, <1>2 DEF ChainsOK
<1>4. \A P : \A d \in Walker, l \in EventKind : Held(w, P, d, l) => Held(v, P, d, l)
  BY <1>1 DEF Held
<1>5. Spare(w) \subseteq Spare(v)
  <2> SUFFICES ASSUME NEW i \in EventId, i \notin UsedIds(w.slot, w.queue)
               PROVE  i \notin UsedIds(v.slot, v.queue)
    BY DEF Spare
  <2>1. \A d \in Walker, l \in EventKind : v.slot[d][l] # i
    BY <1>1 DEF UsedIds, EventsAssumption
  <2> QED
    BY <2>1 DEF UsedIds
<1> QED
  BY <1>1, <1>3, <1>4, <1>5 DEF Empties

\* An event that is taken out of the queue was at most the one its own slot names.
LEMMA Unpopped ==
  ASSUME NEW w, NEW e, popped = {e}, NEW d, NEW l, Held(w, popped, d, l),
         w.slot[d][l] = NoEvent \/ d # e.walker \/ l # e.kind
  PROVE  Held(w, {}, d, l)
<1> DEFINE f == [id |-> w.slot[d][l], walker |-> d, kind |-> l]
<1>1. f.walker = d /\ f.kind = l
  OBVIOUS
<1>2. Held(w, popped, d, l) = (w.slot[d][l] # NoEvent => f \in w.queue \cup popped)
  BY DEF Held
<1>3. Held(w, {}, d, l) = (w.slot[d][l] # NoEvent => f \in w.queue \cup {})
  BY DEF Held
<1> HIDE DEF f
<1> QED
  BY <1>1, <1>2, <1>3

LEMMA FewerOK ==
  ASSUME NEW w, NEW P, ChainsOK(w, P)
  PROVE  ChainsOK(w, {})
BY DEF ChainsOK

\* What an event of c that runs on leaves.
RunsTo(v, c) ==
    /\ ChainsOK(v, {})
    /\ \A d \in Walker, l \in EventKind : Held(Chains, popped, d, l) => Held(v, {}, d, l)
    /\ \A d \in Walker, l \in EventKind : d # c => v.slot[d][l] = slot[d][l]

\* An event that runs on is followed by one of its own.
LEMMA RunsOnOK ==
  ASSUME EventsAssumption, ChainsOK(Chains, popped), Spare(Chains) # {},
         NEW e, popped = {e}, e.walker \in Walker, e.kind \in EventKind,
         NEW v, v = RunsOn(Chains, e.walker, e.kind)
  PROVE  RunsTo(v, e.walker)
<1> DEFINE c == e.walker
           k == e.kind
<1>1. CASE slot[c][k] = NoEvent
  <2>1. v = Chains
    BY <1>1 DEF RunsOn, Chains
  <2>2. \A d \in Walker, l \in EventKind : Held(Chains, popped, d, l) => Held(Chains, {}, d, l)
    BY <1>1, Unpopped DEF Chains
  <2> QED
    BY <2>1, <2>2, FewerOK DEF Chains, RunsTo
<1>2. CASE slot[c][k] # NoEvent
  <2> DEFINE w == [Chains EXCEPT !.slot[c][k] = NoEvent]
  <2>1. v = Added(w, c, k)
    BY <1>2 DEF RunsOn, Chains
  <2>2. w.slot = [Chains.slot EXCEPT ![c][k] = NoEvent] /\ w.queue = Chains.queue
    BY DEF Chains
  <2>3. PICK u : u = w
    OBVIOUS
  <2> HIDE DEF w
  <2>4. Empties(Chains, u, c, k)
    BY ONLY EventsAssumption, ChainsOK(Chains, popped), e.walker \in Walker, e.kind \in EventKind,
            <2>2, <2>3, EmptiedOK
  <2>5. v = Added(u, c, k) /\ Spare(u) # {} /\ u.slot[c][k] = NoEvent /\ ChainsOK(u, popped)
    BY <2>1, <2>3, <2>4 DEF Empties
  <2>6. AddsTo(u, v, c, k)
    BY ONLY EventsAssumption, e.walker \in Walker, e.kind \in EventKind, <2>5, AddedOK
  <2>7. /\ ChainsOK(v, popped)
        /\ \A d \in Walker, l \in EventKind : Held(u, {}, d, l) => Held(v, {}, d, l)
        /\ Held(v, {}, c, k)
        /\ \A d \in Walker, l \in EventKind : d # c \/ l # k => v.slot[d][l] = u.slot[d][l]
    BY <2>6, <2>5 DEF AddsTo
  <2>8. ASSUME NEW d \in Walker, NEW l \in EventKind, Held(Chains, popped, d, l)
        PROVE  Held(v, {}, d, l)
    <3>1. CASE d = c /\ l = k
      BY <2>7, <3>1
    <3>2. CASE d # c \/ l # k
      <4>1. Held(Chains, {}, d, l)
        BY <2>8, <3>2, Unpopped
      <4> QED
        BY <2>4, <2>7, <4>1 DEF Empties
    <3> QED
      BY <3>1, <3>2
  <2>9. \A d \in Walker, l \in EventKind : d # c => v.slot[d][l] = slot[d][l]
    BY <2>4, <2>7 DEF Chains, Empties
  <2>10. ChainsOK(v, {})
    BY <2>7, FewerOK
  <2> QED
    BY <2>8, <2>9, <2>10 DEF RunsTo
<1> QED
  BY <1>1, <1>2

\* The events of a creature that starts to think and may start to walk.
LEMMA StartedOK ==
  ASSUME EventsAssumption, ChainsOK(Chains, popped), ~ Crowded, NEW c \in Walker, NEW moves \in BOOLEAN,
         NEW u, u = Added(Chains, c, "think"), NEW v, v = Added(u, c, "attack"),
         NEW w, w = IF moves THEN Added(v, c, "walk") ELSE v
  PROVE  /\ ChainsOK(w, popped)
         /\ \A d \in Walker, l \in EventKind : Held(Chains, popped, d, l) => Held(w, popped, d, l)
         /\ \A d \in Walker, l \in EventKind : d # c => w.slot[d][l] = slot[d][l]
         /\ (\A l \in EventKind : slot[c][l] = NoEvent) => \A l \in EventKind : Held(w, popped, c, l)
<1> USE DEF EventKind
<1>1. PICK i \in Spare(Chains), j \in Spare(Chains), l \in Spare(Chains) : i # j /\ j # l /\ i # l
  BY DEF Crowded, Spare, Chains
<1>2. AddsTo(Chains, u, c, "think")
  BY <1>1, AddedOK
<1>3. \E x, y \in Spare(u) : x # y
  BY <1>1, <1>2 DEF AddsTo
<1>4. AddsTo(u, v, c, "attack")
  <2>1. ChainsOK(u, popped) /\ Spare(u) # {}
    BY <1>2, <1>3 DEF AddsTo
  <2> QED
    BY <2>1, AddedOK
<1>5. Spare(v) # {} /\ ChainsOK(v, popped)
  BY <1>3, <1>4 DEF AddsTo
<1>6. /\ ChainsOK(w, popped)
      /\ \A d \in Walker, k \in EventKind : Held(v, popped, d, k) => Held(w, popped, d, k)
      /\ v.slot[c]["walk"] = NoEvent => Held(w, popped, c, "walk")
      /\ \A d \in Walker, k \in EventKind : d # c \/ k # "walk" => w.slot[d][k] = v.slot[d][k]
  <2>1. CASE moves
    <3>1. \A d, k : Held(w, {}, d, k) => Held(w, popped, d, k)
      BY DEF Held
    <3>2. AddsTo(v, w, c, "walk")
      BY <1>5, <2>1, AddedOK
    <3> QED
      BY <3>1, <3>2 DEF AddsTo
  <2>2. CASE ~ moves
    BY <1>5, <2>2 DEF Held
  <2> QED
    BY <2>1, <2>2
<1>7. ASSUME \A k \in EventKind : slot[c][k] = NoEvent, NEW k \in EventKind
      PROVE  Held(w, popped, c, k)
  <2>1. \A x, d, n : Held(x, {}, d, n) => Held(x, popped, d, n)
    BY DEF Held
  <2>2. Held(w, popped, c, "think")
    BY <1>2, <1>4, <1>6, <1>7, <2>1 DEF Chains, AddsTo
  <2>3. Held(w, popped, c, "attack")
    BY <1>2, <1>4, <1>6, <1>7, <2>1 DEF Chains, AddsTo
  <2>4. Held(w, popped, c, "walk")
    BY <1>2, <1>4, <1>6, <1>7 DEF Chains, AddsTo
  <2> QED
    BY <2>2, <2>3, <2>4
<1>8. \A d \in Walker, k \in EventKind : d # c => w.slot[d][k] = slot[d][k]
  BY <1>2, <1>4, <1>6 DEF Chains, AddsTo
<1> QED
  BY <1>2, <1>4, <1>6, <1>7, <1>8 DEF AddsTo

LEMMA EventInitInv == EventsAssumption /\ EventInit => EventInv
<1> SUFFICES ASSUME EventsAssumption, EventInit PROVE EventInv
  OBVIOUS
<1>1. EventTypeOK /\ ChainsOK(Chains, popped)
  BY DEF EventInit, EventTypeOK, ChainsOK, Chains
<1> QED
  BY <1>1 DEF EventInit, EventInv, NewIdle, NoLostChain

\* What EventInv says of the state before a step.
LEMMA EventNow ==
  ASSUME EventInv
  PROVE  /\ ChainsOK(Chains, popped) /\ life \in [Walker -> Life] /\ popped \in SUBSET Event
         /\ Chains.slot = slot /\ Chains.queue = queue
         /\ \A c \in Walker, k \in EventKind :
              /\ life[c].state = "new" => slot[c][k] = NoEvent
              /\ life[c].state = "alive" /\ ~ life[c].mended => Held(Chains, popped, c, k)
BY DEF EventInv, EventTypeOK, NewIdle, NoLostChain, Held, Chains, Life

LEMMA PlaceInv ==
  ASSUME EventsAssumption, EventInv, Place
  PROVE  EventInv'
<1>1. PICK c \in Walker, moves \in BOOLEAN :
        LET v == Added(Added(Chains, c, "think"), c, "attack") IN
        /\ life[c].state = "new" /\ ~ Crowded
        /\ Become(IF moves THEN Added(v, c, "walk") ELSE v)
        /\ life' = [life EXCEPT ![c].state = "alive"]
        /\ UNCHANGED popped
  BY DEF Place
<1>2. PICK u : u = Added(Chains, c, "think")
  OBVIOUS
<1>3. PICK v : v = Added(u, c, "attack")
  OBVIOUS
<1>4. PICK w : w = IF moves THEN Added(v, c, "walk") ELSE v
  OBVIOUS
<1>5. Become(w) /\ ~ Crowded /\ life[c].state = "new"
  BY <1>1, <1>2, <1>3, <1>4
<1>6. /\ ChainsOK(w, popped)
      /\ \A d \in Walker, l \in EventKind : Held(Chains, popped, d, l) => Held(w, popped, d, l)
      /\ \A d \in Walker, l \in EventKind : d # c => w.slot[d][l] = slot[d][l]
      /\ (\A l \in EventKind : slot[c][l] = NoEvent) => \A l \in EventKind : Held(w, popped, c, l)
  BY ONLY EventsAssumption, EventNow, EventInv, <1>2, <1>3, <1>4, <1>5, StartedOK
<1>7. /\ popped' = popped /\ life' \in [Walker -> Life]
      /\ \A d \in Walker : IF d = c THEN life'[d].state = "alive" ELSE life'[d] = life[d]
  BY <1>1, EventNow DEF Life
<1> QED
  BY ONLY EventInv, EventNow, <1>5, <1>6, <1>7, EventStep

LEMMA StartThinkingInv ==
  ASSUME EventsAssumption, EventInv, StartThinking
  PROVE  EventInv'
<1>1. PICK c \in Walker, moves \in BOOLEAN :
        LET v == Added(Added(Chains, c, "think"), c, "attack") IN
        /\ life[c].state \in {"alive", "dead"} /\ ~ Crowded
        /\ Become(IF moves THEN Added(v, c, "walk") ELSE v)
        /\ UNCHANGED <<popped, life>>
  BY DEF StartThinking
<1>2. PICK u : u = Added(Chains, c, "think")
  OBVIOUS
<1>3. PICK v : v = Added(u, c, "attack")
  OBVIOUS
<1>4. PICK w : w = IF moves THEN Added(v, c, "walk") ELSE v
  OBVIOUS
<1>5. Become(w) /\ ~ Crowded /\ life[c].state # "new"
  BY <1>1, <1>2, <1>3, <1>4
<1>6. /\ ChainsOK(w, popped)
      /\ \A d \in Walker, l \in EventKind : Held(Chains, popped, d, l) => Held(w, popped, d, l)
      /\ \A d \in Walker, l \in EventKind : d # c => w.slot[d][l] = slot[d][l]
  BY ONLY EventsAssumption, EventNow, EventInv, <1>2, <1>3, <1>4, <1>5, StartedOK
<1>7. popped' = popped /\ life' = life
  BY <1>1
<1> QED
  BY ONLY EventInv, EventNow, <1>5, <1>6, <1>7, EventStep

LEMMA WalkInv ==
  ASSUME EventsAssumption, EventInv, Walk
  PROVE  EventInv'
<1>1. PICK c \in Walker, on \in BOOLEAN :
        /\ life[c].state \in {"alive", "dead"} /\ ~ Crowded
        /\ Become(IF on THEN Added(Chains, c, "walk") ELSE Stopped(Chains, c, "walk"))
        /\ UNCHANGED <<popped, life>>
  BY DEF Walk
<1>2. PICK w : w = IF on THEN Added(Chains, c, "walk") ELSE Stopped(Chains, c, "walk")
  OBVIOUS
<1>3. "walk" \in EventKind /\ Spare(Chains) # {}
  BY <1>1 DEF EventKind, Crowded, Spare, Chains
<1>4. /\ ChainsOK(w, popped)
      /\ \A d \in Walker, l \in EventKind : Held(Chains, popped, d, l) => Held(w, popped, d, l)
      /\ \A d \in Walker, l \in EventKind : d # c => w.slot[d][l] = slot[d][l]
  <2>1. CASE on
    <3>1. AddsTo(Chains, w, c, "walk")
      BY <1>2, <1>3, <2>1, AddedOK, EventNow
    <3> QED
      BY ONLY <3>1, EventInv, EventNow DEF AddsTo
  <2>2. CASE ~ on
    <3>1. w = Stopped(Chains, c, "walk")
      BY <1>2, <2>2
    <3> QED
      BY ONLY EventsAssumption, EventInv, EventNow, <1>3, <3>1, StoppedOK
  <2> QED
    BY <2>1, <2>2
<1>5. popped' = popped /\ life' = life /\ Become(w) /\ life[c].state # "new"
  BY <1>1, <1>2
<1> QED
  BY ONLY EventInv, EventNow, <1>4, <1>5, EventStep

LEMMA PopInv ==
  ASSUME EventsAssumption, EventInv, Pop
  PROVE  EventInv'
<1>1. PICK e \in queue : popped = {} /\ popped' = {e} /\ queue' = queue \ {e} /\ UNCHANGED <<slot, life>>
  BY DEF Pop
<1> DEFINE w == [slot |-> slot, queue |-> queue \ {e}]
<1>2. Become(w) /\ w.slot = slot /\ w.queue = queue \ {e}
  BY <1>1 DEF Become
<1> HIDE DEF w
<1>3. ChainsOK(w, popped')
  BY <1>1, <1>2, EventNow DEF ChainsOK
<1>4. \A d \in Walker, l \in EventKind : Held(Chains, popped, d, l) => Held(w, popped', d, l)
  BY <1>1, <1>2, EventNow DEF Held
<1> QED
  BY ONLY EventInv, EventNow, <1>1, <1>2, <1>3, <1>4, EventStep

\* An event is over: what it leaves its own creature with, and that nothing changes for others.
LEMMA RanInv ==
  ASSUME EventsAssumption, EventInv, NEW e, popped = {e}, popped' = {},
         NEW w, Become(w), ChainsOK(w, {}), life' \in [Walker -> Life],
         \A d \in Walker, l \in EventKind : d # e.walker =>
            /\ life'[d] = life[d] /\ w.slot[d][l] = slot[d][l]
            /\ Held(Chains, popped, d, l) => Held(w, {}, d, l),
         life'[e.walker].state # "new" \/ (life' = life /\ w.slot = slot),
         \A l \in EventKind :
            life'[e.walker].state = "alive" /\ ~ life'[e.walker].mended => Held(w, {}, e.walker, l)
  PROVE  EventInv'
<1>1. ASSUME NEW c \in Walker, NEW k \in EventKind
      PROVE  /\ life'[c].state = "new" => w.slot[c][k] = NoEvent
             /\ life'[c].state = "alive" /\ ~ life'[c].mended => Held(w, popped', c, k)
  <2>1. CASE c = e.walker
    <3>1. ASSUME life'[c].state = "new" PROVE w.slot[c][k] = NoEvent
      <4>1. life' = life /\ w.slot = slot
        BY <2>1, <3>1
      <4>2. life[c].state = "new"
        BY <3>1, <4>1
      <4>3. slot[c][k] = NoEvent
        BY ONLY EventInv, <4>2, EventNow
      <4> QED
        BY ONLY <4>1, <4>3
    <3>2. ASSUME life'[c].state = "alive", ~ life'[c].mended PROVE Held(w, popped', c, k)
      BY <2>1, <3>2
    <3> QED
      BY <3>1, <3>2
  <2>2. CASE c # e.walker
    <3>1. /\ life[c].state = "new" => slot[c][k] = NoEvent
          /\ life[c].state = "alive" /\ ~ life[c].mended => Held(Chains, popped, c, k)
      BY ONLY EventInv, EventNow
    <3>2. /\ life'[c] = life[c] /\ w.slot[c][k] = slot[c][k]
          /\ Held(Chains, popped, c, k) => Held(w, popped', c, k)
      BY <2>2
    <3> QED
      BY ONLY <3>1, <3>2
  <2> QED
    BY <2>1, <2>2
<1>2. ChainsOK(w, popped')
  OBVIOUS
<1> QED
  BY ONLY <1>1, <1>2, Become(w), life' \in [Walker -> Life], EventStep

\* For an event whose creature is not alive, or of which nothing is left.
LEMMA OverInv ==
  ASSUME EventsAssumption, EventInv, NEW e \in Event, popped = {e}, popped' = {},
         UNCHANGED <<slot, queue, life>>, life[e.walker].state # "alive"
  PROVE  EventInv'
<1>1. Become(Chains) /\ ChainsOK(Chains, {}) /\ life' \in [Walker -> Life] /\ Chains.slot = slot
  BY EventNow, FewerOK DEF Become, Chains
<1>2. ASSUME NEW d \in Walker, NEW l \in EventKind, d # e.walker
      PROVE  Held(Chains, popped, d, l) => Held(Chains, {}, d, l)
  BY <1>2, Unpopped
<1> QED
  BY <1>1, <1>2, RanInv

\* An event is over that its creature has let go of, or whose creature is removed.
LEMMA EndedInv ==
  ASSUME EventsAssumption, EventInv, NEW e \in Event, popped = {e}, popped' = {},
         NEW w, Become(w), ChainsOK(w, popped), life' \in [Walker -> Life],
         \A d \in Walker, l \in EventKind : Held(Chains, popped, d, l) => Held(w, popped, d, l),
         \A d \in Walker, l \in EventKind : d # e.walker =>
            life'[d] = life[d] /\ w.slot[d][l] = slot[d][l],
         \/ life'[e.walker].state = "removed"
         \/ life' = life /\ life[e.walker].state = "alive" /\ w.slot[e.walker][e.kind] = NoEvent
  PROVE  EventInv'
<1>1. ChainsOK(w, {})
  BY FewerOK
<1>2. ASSUME NEW d \in Walker, NEW l \in EventKind, d # e.walker
      PROVE  Held(Chains, popped, d, l) => Held(w, {}, d, l)
  BY <1>2, Unpopped
<1>3. ASSUME NEW l \in EventKind, life'[e.walker].state = "alive", ~ life'[e.walker].mended
      PROVE  Held(w, {}, e.walker, l)
  <2>1. e.walker \in Walker
    BY DEF Event
  <2>2. life[e.walker].state = "alive" /\ ~ life[e.walker].mended /\ w.slot[e.walker][e.kind] = NoEvent
    BY <1>3
  <2>3. Held(Chains, popped, e.walker, l)
    BY ONLY EventInv, <2>1, <2>2, EventNow
  <2>4. Held(w, popped, e.walker, l)
    BY <2>1, <2>3
  <2>5. w.slot[e.walker][l] = NoEvent \/ e.walker # e.walker \/ l # e.kind
    BY <2>2
  <2> QED
    BY ONLY popped = {e}, <2>4, <2>5, Unpopped
<1> QED
  BY <1>1, <1>2, <1>3, RanInv

LEMMA RunThinkInv ==
  ASSUME EventsAssumption, EventInv, NEW e \in Event, popped = {e}, popped' = {}, ~ Crowded, RunThink(e)
  PROVE  EventInv'
<1> DEFINE c == e.walker
<1>1. c \in Walker /\ e.kind = "think" /\ {"think", "attack", "walk"} = EventKind
  BY DEF Event, RunThink, EventKind
<1>2. Spare(Chains) # {}
  BY DEF Crowded, Spare, Chains
<1>3. ChainsOK(Chains, popped) /\ life \in [Walker -> Life] /\ Chains.slot = slot
  BY EventNow
<1>4. PICK v : v = RunsOn(Chains, c, "think")
  OBVIOUS
<1>5. RunsTo(v, c)
  <2>1. e.walker \in Walker /\ e.kind \in EventKind /\ v = RunsOn(Chains, e.walker, e.kind)
    BY <1>1, <1>4
  <2> QED
    BY ONLY EventsAssumption, popped = {e}, <1>2, <1>3, <2>1, RunsOnOK
<1>6. CASE life[c].state \notin {"alive", "dead"} /\ UNCHANGED <<slot, queue, life>>
  BY <1>6, OverInv
<1>7. CASE life[c].state = "alive" /\ Become(v) /\ UNCHANGED life
  <2>1. \A l \in EventKind : life'[c].state = "alive" /\ ~ life'[c].mended => Held(v, {}, c, l)
    BY <1>1, <1>5, <1>7, EventNow DEF RunsTo
  <2> QED
    BY <1>3, <1>5, <1>7, <2>1, RanInv DEF RunsTo
<1>8. CASE life[c].state = "alive" /\ Become(Stopped(Stopped(Chains, c, "think"), c, "walk")) /\ UNCHANGED life
  <2>1. PICK u : u = Stopped(Chains, c, "think")
    OBVIOUS
  <2>2. PICK w : w = Stopped(u, c, "walk")
    OBVIOUS
  <2>3. /\ ChainsOK(u, popped)
        /\ \A d \in Walker, l \in EventKind : Held(Chains, popped, d, l) => Held(u, popped, d, l)
        /\ \A d \in Walker, l \in EventKind :
             u.slot[d][l] = IF d = c /\ l = "think" THEN NoEvent ELSE Chains.slot[d][l]
    BY ONLY EventsAssumption, <1>1, <1>3, <2>1, StoppedOK
  <2>4. /\ ChainsOK(w, popped)
        /\ \A d \in Walker, l \in EventKind : Held(u, popped, d, l) => Held(w, popped, d, l)
        /\ \A d \in Walker, l \in EventKind :
             w.slot[d][l] = IF d = c /\ l = "walk" THEN NoEvent ELSE u.slot[d][l]
    BY ONLY EventsAssumption, <1>1, <2>2, <2>3, StoppedOK
  <2>5. /\ \A d \in Walker, l \in EventKind : d # c => w.slot[d][l] = slot[d][l]
        /\ w.slot[c][e.kind] = NoEvent
    BY <1>1, <1>3, <2>3, <2>4
  <2>6. Become(w)
    BY <1>8, <2>1, <2>2
  <2> QED
    BY <1>3, <1>8, <2>3, <2>4, <2>5, <2>6, EndedInv
<1>9. CASE /\ life[c].state = "dead" /\ Become(v)
           /\ life' = [life EXCEPT ![c] = [state |-> "alive", mended |-> TRUE]]
  <2>1. /\ life' \in [Walker -> Life] /\ life'[c].state # "new" /\ life'[c].mended
        /\ \A d \in Walker : d # c => life'[d] = life[d]
    BY <1>1, <1>3, <1>9 DEF Life
  <2> QED
    BY <1>5, <1>9, <2>1, RanInv DEF RunsTo
<1>10. CASE life[c].state = "dead" /\ Become(Gone(Chains, c)) /\ life' = [life EXCEPT ![c].state = "removed"]
  <2>1. PICK u : u = Stopped(Chains, c, "think")
    OBVIOUS
  <2>2. PICK w : w = Stopped(u, c, "attack")
    OBVIOUS
  <2>3. /\ ChainsOK(u, popped)
        /\ \A d \in Walker, l \in EventKind : Held(Chains, popped, d, l) => Held(u, popped, d, l)
        /\ \A d \in Walker, l \in EventKind :
             u.slot[d][l] = IF d = c /\ l = "think" THEN NoEvent ELSE Chains.slot[d][l]
    BY ONLY EventsAssumption, <1>1, <1>3, <2>1, StoppedOK
  <2>4. /\ ChainsOK(w, popped)
        /\ \A d \in Walker, l \in EventKind : Held(u, popped, d, l) => Held(w, popped, d, l)
        /\ \A d \in Walker, l \in EventKind :
             w.slot[d][l] = IF d = c /\ l = "attack" THEN NoEvent ELSE u.slot[d][l]
    BY ONLY EventsAssumption, <1>1, <2>2, <2>3, StoppedOK
  <2>5. /\ \A d \in Walker, l \in EventKind : d # c => w.slot[d][l] = slot[d][l] /\ life'[d] = life[d]
        /\ life' \in [Walker -> Life] /\ life'[c].state = "removed"
    BY <1>1, <1>3, <1>10, <2>3, <2>4 DEF Life
  <2>6. Become(w)
    BY <1>10, <2>1, <2>2 DEF Gone
  <2> QED
    BY <2>3, <2>4, <2>5, <2>6, EndedInv
<1> QED
  BY <1>4, <1>6, <1>7, <1>8, <1>9, <1>10 DEF RunThink

LEMMA RunOtherInv ==
  ASSUME EventsAssumption, EventInv, NEW e \in Event, popped = {e}, popped' = {}, ~ Crowded, RunOther(e)
  PROVE  EventInv'
<1> DEFINE c == e.walker
<1>1. c \in Walker /\ e.kind \in EventKind /\ life' = life
  BY DEF Event, RunOther
<1>2. Spare(Chains) # {}
  BY DEF Crowded, Spare, Chains
<1>3. ChainsOK(Chains, popped) /\ life \in [Walker -> Life] /\ Chains.slot = slot
  BY EventNow
<1>4. CASE life[c].state # "alive" /\ UNCHANGED <<slot, queue>>
  BY <1>1, <1>4, OverInv
<1>5. CASE life[c].state = "alive" /\ Become(RunsOn(Chains, c, e.kind))
  <2>1. PICK v : v = RunsOn(Chains, c, e.kind)
    OBVIOUS
  <2>2. RunsTo(v, c)
    BY ONLY EventsAssumption, popped = {e}, <1>1, <1>2, <1>3, <2>1, RunsOnOK
  <2>3. \A l \in EventKind : life'[c].state = "alive" /\ ~ life'[c].mended => Held(v, {}, c, l)
    BY <1>1, <2>2, EventNow DEF RunsTo
  <2>4. Become(v)
    BY <1>5, <2>1
  <2> QED
    BY <1>1, <1>3, <1>5, <2>2, <2>3, <2>4, RanInv DEF RunsTo
<1>6. CASE life[c].state = "alive" /\ Become([Chains EXCEPT !.slot[c]["walk"] = NoEvent]) /\ e.kind = "walk"
  <2> DEFINE u == [Chains EXCEPT !.slot[c]["walk"] = NoEvent]
  <2>1. u.slot = [Chains.slot EXCEPT ![c]["walk"] = NoEvent] /\ u.queue = Chains.queue
    BY DEF Chains
  <2>2. PICK w : w = u
    OBVIOUS
  <2>3. Become(w)
    BY <1>6, <2>2
  <2> HIDE DEF u
  <2>4. Empties(Chains, w, c, "walk")
    BY ONLY EventsAssumption, <1>1, <1>3, <1>6, <2>1, <2>2, EmptiedOK
  <2>5. /\ ChainsOK(w, popped)
        /\ \A d \in Walker, l \in EventKind : Held(Chains, popped, d, l) => Held(w, popped, d, l)
        /\ \A d \in Walker, l \in EventKind : d # c => w.slot[d][l] = slot[d][l]
        /\ w.slot[c][e.kind] = NoEvent
    BY <1>1, <1>3, <1>6, <2>4 DEF Empties
  <2> QED
    BY <1>1, <1>3, <1>6, <2>3, <2>5, EndedInv
<1> QED
  BY <1>4, <1>5, <1>6 DEF RunOther

\* The event thread waits with one event at most.
OneWaits == \A e, f \in popped : e = f

LEMMA OneWaitsInv == OneWaits /\ [EventNext]_eventVars => OneWaits'
<1> SUFFICES ASSUME OneWaits, [EventNext]_eventVars PROVE OneWaits'
  OBVIOUS
<1>1. popped' = popped \/ popped' = {} \/ \E e : popped' = {e}
  BY DEF EventNext, eventVars, Place, StartThinking, Walk, Pop, Run, LoseHealth, TakeAway
<1> QED
  BY <1>1 DEF OneWaits

LEMMA RunInv ==
  ASSUME EventsAssumption, EventInv, OneWaits, Run
  PROVE  EventInv'
<1>1. PICK e \in popped : ~ Crowded /\ popped' = {} /\ (RunThink(e) \/ RunOther(e))
  BY DEF Run
<1>2. e \in Event /\ popped = {e}
  BY <1>1 DEF EventInv, EventTypeOK, OneWaits
<1> QED
  BY <1>1, <1>2, RunThinkInv, RunOtherInv

LEMMA LoseHealthInv ==
  ASSUME EventsAssumption, EventInv, LoseHealth
  PROVE  EventInv'
<1>1. PICK c \in Walker : /\ life[c].state = "alive" /\ life' = [life EXCEPT ![c].state = "dead"]
                          /\ UNCHANGED <<slot, queue, popped>>
  BY DEF LoseHealth
<1>2. ChainsOK(Chains, popped') /\ Become(Chains) /\ life' \in [Walker -> Life] /\ popped' = popped
  BY <1>1, EventNow DEF Become, Chains, Life
<1>3. \A d \in Walker : IF d = c THEN life'[d].state = "dead" ELSE life'[d] = life[d]
  BY <1>1, EventNow DEF Life
<1>4. ASSUME NEW d \in Walker, NEW k \in EventKind
      PROVE  /\ life'[d].state = "new" => Chains.slot[d][k] = NoEvent
             /\ life'[d].state = "alive" /\ ~ life'[d].mended => Held(Chains, popped, d, k)
  BY <1>3, EventNow
<1> QED
  BY ONLY <1>2, <1>4, EventStep

LEMMA TakeAwayInv ==
  ASSUME EventsAssumption, EventInv, TakeAway
  PROVE  EventInv'
<1>1. PICK c \in Walker : /\ life[c].state \in {"alive", "dead"}
                          /\ life' = [life EXCEPT ![c].state = "removed"]
                          /\ Become(Gone(Chains, c)) /\ UNCHANGED popped
  BY DEF TakeAway
<1>2. ChainsOK(Chains, popped) /\ Chains.slot = slot /\ {"think", "attack"} \subseteq EventKind
  BY EventNow DEF EventKind
<1>3. PICK u : u = Stopped(Chains, c, "think")
  OBVIOUS
<1>4. PICK w : w = Stopped(u, c, "attack")
  OBVIOUS
<1>5. /\ ChainsOK(u, popped)
      /\ \A d \in Walker, l \in EventKind : Held(Chains, popped, d, l) => Held(u, popped, d, l)
      /\ \A d \in Walker, l \in EventKind :
           u.slot[d][l] = IF d = c /\ l = "think" THEN NoEvent ELSE Chains.slot[d][l]
  BY ONLY EventsAssumption, <1>2, <1>3, StoppedOK
<1>6. /\ ChainsOK(w, popped)
      /\ \A d \in Walker, l \in EventKind : Held(u, popped, d, l) => Held(w, popped, d, l)
      /\ \A d \in Walker, l \in EventKind :
           w.slot[d][l] = IF d = c /\ l = "attack" THEN NoEvent ELSE u.slot[d][l]
  BY ONLY EventsAssumption, <1>2, <1>4, <1>5, StoppedOK
<1>7. Become(w) /\ popped' = popped
  BY <1>1, <1>3, <1>4 DEF Gone
<1>8. /\ life' \in [Walker -> Life]
      /\ \A d \in Walker : IF d = c THEN life'[d].state = "removed" ELSE life'[d] = life[d]
  BY <1>1, EventNow DEF Life
<1>9. ASSUME NEW d \in Walker, NEW k \in EventKind
      PROVE  /\ life'[d].state = "new" => w.slot[d][k] = NoEvent
             /\ life'[d].state = "alive" /\ ~ life'[d].mended => Held(w, popped', d, k)
  <2>1. CASE d = c
    BY <1>8, <2>1
  <2>2. CASE d # c
    <3>1. /\ life[d].state = "new" => slot[d][k] = NoEvent
          /\ life[d].state = "alive" /\ ~ life[d].mended => Held(Chains, popped, d, k)
      BY EventNow
    <3>2. life'[d] = life[d] /\ w.slot[d][k] = slot[d][k]
      BY <1>2, <1>5, <1>6, <1>8, <2>2
    <3>3. Held(Chains, popped, d, k) => Held(w, popped', d, k)
      BY <1>5, <1>6, <1>7
    <3> QED
      BY ONLY <3>1, <3>2, <3>3
  <2> QED
    BY <2>1, <2>2
<1> QED
  BY ONLY <1>6, <1>7, <1>8, <1>9, EventStep

LEMMA EventNextInv == EventsAssumption /\ EventInv /\ OneWaits /\ [EventNext]_eventVars => EventInv'
<1> SUFFICES ASSUME EventsAssumption, EventInv, OneWaits, [EventNext]_eventVars PROVE EventInv'
  OBVIOUS
<1>1. CASE UNCHANGED eventVars
  BY <1>1 DEF eventVars, EventInv, EventTypeOK, ChainsOK, Chains, NewIdle, NoLostChain
<1> QED
  BY <1>1, PlaceInv, StartThinkingInv, WalkInv, PopInv, RunInv, LoseHealthInv, TakeAwayInv DEF EventNext

\* What a live creature keeps the id of is in the scheduler or about to run.
LEMMA NoLostChainHolds == EventSpec => []NoLostChain
<1>1. EventInit => EventInv /\ OneWaits
  BY EventInitInv, EventsAssumption DEF EventInit, OneWaits
<1>2. EventInv /\ OneWaits /\ [EventNext]_eventVars => (EventInv /\ OneWaits)'
  BY EventNextInv, OneWaitsInv, EventsAssumption
<1>3. EventInv => NoLostChain
  BY DEF EventInv
<1> QED
  BY <1>1, <1>2, <1>3, PTL DEF EventSpec

-----------------------------------------------------------------------------

\* The world goes on by itself, whatever interleaving: no chain of events of a live
\* creature is lost, no spawn stays deaf after its creature is gone and a running
\* raid always has its next event waiting (Game::checkCreature, Spawn::checkSpawn,
\* Raid::executeRaidEvent).
THEOREM WorldGoesOnHolds == EventSpec /\ SpawnSpec /\ RaidSpec => []WorldGoesOn
<1>1. NoLostChain /\ NeverDeaf /\ RaidsMoveOn => WorldGoesOn
  BY DEF WorldGoesOn
<1> QED
  BY <1>1, NoLostChainHolds, NeverDeafHolds, RaidsMoveOnHolds, PTL
-----------------------------------------------------------------------------
(* An npc.  It turns to nobody before it is placed; and as long as nobody   *)
(* else spoke, the last word is the ware that was asked about or one from   *)
(* which "yes" cannot be heard.                                             *)

Quiet == shop = Away => focus = Noone /\ facing = Noone /\ line = <<>>

LineTyped == line \in Seq(Customer) /\ focus \in Customer \cup {Noone}

Deaf == {"root", "hi", "bye", "ride", "bring"}

OfferKnown == ~mixed => node \in Deaf \/ (node \in Ware /\ asked = <<node, amount>>)

NothingStray == ~broken => \A h \in Handlers : stray[h] = Noone

TurnInv == Quiet /\ LineTyped /\ shop \in Places \cup {Away} /\ NeverRooted /\ LineKept

NpcInv == TurnInv /\ OfferKnown /\ SoldAsOffered /\ NothingStray /\ OwnHandlers

LEMMA NpcFacts ==
  /\ Noone \notin Customer /\ Noone \notin Ware /\ Away \notin Places /\ Home \in Places
  /\ Ware \cap {"root", "hi", "bye", "ride", "bring", "yes", "no", "aboard", "stay"} = {}
BY NpcAssumption DEF NpcAssumption, Places, Away

\* "yes" is heard after the ware that was asked about only, unless others spoke.
LEMMA YesIsHeard ==
  ASSUME OfferKnown, ~mixed, "yes" \in Heard("yes")
  PROVE  asked = <<Above("yes"), amount>>
BY NpcFacts DEF OfferKnown, Deaf, Heard, Children, Parent, Roots, Above

\* Who is in front of the line is the next one, and nobody else waits twice.
LEMMA NextPleaseInv ==
  ASSUME LineTyped, LineKept, NextPlease
  PROVE  /\ LineTyped' /\ LineKept' /\ mixed'
         /\ facing' \in {focus', Noone} /\ (walks' <=> facing' = Noone)
<1>1. CASE Greetable # {}
  <2> DEFINE k == Next1
  <2>1. k \in DOMAIN line
    <3>1. Greetable \subseteq Nat
      BY DEF Greetable, LineTyped
    <3>2. \E i \in Greetable : \A j \in Greetable : i <= j
      BY <1>1, <3>1, LeastOf
    <3>3. Next1 \in Greetable
      BY <3>2 DEF Next1
    <3> QED
      BY <3>3 DEF Greetable
  <2> HIDE DEF k
  <2>2. focus' = line[k] /\ line' = SubSeq(line, k + 1, Len(line)) /\ passed' = FALSE /\ mixed'
        /\ SetCreatureFocus(line[k])
    BY <1>1 DEF NextPlease, ChangeFocus, k
  <2>3. k \in 1 .. Len(line) /\ line[k] \in Customer
    BY <2>1 DEF LineTyped
  <2>4. line' \in Seq(Customer) /\ Len(line') = Len(line) - k
        /\ \A i \in DOMAIN line' : line'[i] = line[i + k] /\ i + k \in DOMAIN line
    BY <2>2, <2>3 DEF LineTyped
  <2>5. \A i, j \in DOMAIN line : line[i] = line[j] => i = j
    BY DEF LineKept
  <2>6. \A i, j \in DOMAIN line' : line'[i] = line'[j] => i = j
    <3> SUFFICES ASSUME NEW i \in DOMAIN line', NEW j \in DOMAIN line', line'[i] = line'[j] PROVE i = j
      OBVIOUS
    <3>1. i + k = j + k
      BY <2>4, <2>5
    <3>2. i \in Nat /\ j \in Nat /\ k \in Nat
      BY <2>3, <2>4
    <3> QED
      BY <3>1, <3>2
  <2>7. focus' \notin Range(line')
    <3> SUFFICES ASSUME NEW i \in DOMAIN line', line'[i] = line[k] PROVE FALSE
      BY <2>2 DEF Range
    <3>1. i + k = k
      BY <2>1, <2>4, <2>5
    <3>2. i \in Nat /\ i > 0 /\ k \in Nat
      BY <2>3, <2>4
    <3> QED
      BY <3>1, <3>2
  <2> QED
    BY <2>2, <2>3, <2>4, <2>6, <2>7, NpcFacts DEF LineTyped, LineKept, SetCreatureFocus
<1>2. CASE Greetable = {}
  <2>1. focus' = Noone /\ facing' = Noone /\ walks' = TRUE /\ line' = <<>> /\ passed' = FALSE /\ mixed'
    BY <1>2 DEF NextPlease, ChangeFocus, SetCreatureFocus
  <2>2. line' \in Seq(Customer) /\ DOMAIN line' = {} /\ Range(line') = {}
    BY <2>1 DEF Range
  <2> QED
    BY <2>1, <2>2 DEF LineTyped, LineKept
<1> QED
  BY <1>1, <1>2

\* A greeting takes the npc when it is free, or a place in the line.
LEMMA OnGreetInv ==
  ASSUME LineTyped, LineKept, NEW c \in Customer, OnGreet(c), shop # Away, NeverRooted
  PROVE  /\ LineTyped' /\ LineKept' /\ (mixed' \/ mixed' = mixed)
         /\ facing' \in {focus', Noone} /\ (walks' <=> facing' = Noone)
<1>1. CASE focus = Noone /\ ChangeFocus(c) /\ mixed' = TRUE /\ UNCHANGED <<line, passed>>
  <2>1. focus' = c /\ facing' = c /\ walks' = FALSE /\ UNCHANGED <<line, passed>> /\ mixed'
    BY <1>1, NpcFacts DEF ChangeFocus, SetCreatureFocus
  <2>2. ~passed => line = <<>> /\ Range(line) = {}
    BY <1>1 DEF LineKept, Range
  <2> QED
    BY <2>1, <2>2, NpcFacts DEF LineTyped, LineKept
<1>2. CASE focus = c /\ UNCHANGED <<focus, facing, walks, line, mixed, passed>>
  BY <1>2 DEF LineTyped, LineKept, NeverRooted
<1>3. CASE /\ focus \notin {Noone, c}
           /\ line' = IF c \in Range(line) THEN line ELSE Append(line, c)
           /\ mixed' = TRUE
           /\ UNCHANGED <<focus, facing, walks, passed>>
  <2>1. CASE c \in Range(line)
    BY <1>3, <2>1 DEF LineTyped, LineKept, NeverRooted
  <2>2. CASE c \notin Range(line)
    <3>1. line' = Append(line, c) /\ line' \in Seq(Customer) /\ Len(line') = Len(line) + 1
      BY <1>3, <2>2 DEF LineTyped
    <3>2. \A i \in DOMAIN line : line'[i] = line[i] /\ line[i] # c
      BY <2>2, <3>1 DEF LineTyped, Range
    <3>3. line'[Len(line) + 1] = c /\ DOMAIN line' = DOMAIN line \cup {Len(line) + 1}
      BY <3>1 DEF LineTyped
    <3>4. \A i, j \in DOMAIN line' : line'[i] = line'[j] => i = j
      BY <3>2, <3>3 DEF LineKept
    <3>5. ~passed => focus \notin Range(line')
      BY <1>3, <3>2, <3>3 DEF LineKept, Range
    <3> QED
      BY <1>3, <3>1, <3>4, <3>5 DEF LineTyped, LineKept, NeverRooted
  <2> QED
    BY <2>1, <2>2
<1> QED
  BY <1>1, <1>2, <1>3 DEF OnGreet

\* What is left to show of the words of a customer.
LEMMA SayStep ==
  ASSUME NpcInv, shop # Away, UNCHANGED <<shop, loadVars>>,
         LineTyped', LineKept', facing' \in {focus', Noone}, walks' <=> facing' = Noone,
         OfferKnown', missold' = missold
  PROVE  NpcInv'
BY DEF NpcInv, TurnInv, Quiet, NeverRooted, SoldAsOffered, NothingStray, OwnHandlers, loadVars

LEMMA SayInv ==
  ASSUME NpcInv, OnCreatureSay
  PROVE  NpcInv'
<1>1. PICK c \in Customer :
        \/ Greeting(c) \/ Farewell(c) \/ ConfirmTrade(c) \/ Travel(c) \/ ConfirmTravel(c) \/ BringMeTo(c)
        \/ \E w \in Ware : TradeItem(c, w)
        \/ \E n \in {"no", "stay"} : Decline(c, n)
        \/ \E n \in Nodes \ {"root"} : Overheard(c, n)
  BY DEF OnCreatureSay
<1>2. shop # Away /\ UNCHANGED <<shop, loadVars>>
  BY DEF OnCreatureSay, Handled
<1>3. LineTyped /\ LineKept /\ NeverRooted /\ facing \in {focus, Noone} /\ (walks <=> facing = Noone)
  BY <1>2 DEF NpcInv, TurnInv, NeverRooted
<1>4. ASSUME UNCHANGED <<focus, facing, walks, line, passed>>
      PROVE  LineTyped' /\ LineKept' /\ facing' \in {focus', Noone} /\ (walks' <=> facing' = Noone)
  BY <1>3, <1>4 DEF LineTyped, LineKept
<1>5. CASE Greeting(c)
  <2>1. node' = "hi" /\ OnGreet(c) /\ UNCHANGED missold
    BY <1>5 DEF Greeting, TakenFor
  <2>2. OfferKnown'
    BY <2>1 DEF OfferKnown, Deaf
  <2> QED
    BY <1>2, <1>3, <2>1, <2>2, OnGreetInv, SayStep
<1>6. CASE Farewell(c)
  <2>1. NextPlease /\ UNCHANGED missold
    BY <1>6 DEF Farewell
  <2>2. /\ LineTyped' /\ LineKept' /\ mixed'
        /\ facing' \in {focus', Noone} /\ (walks' <=> facing' = Noone)
    BY <1>3, <2>1, NextPleaseInv
  <2>3. OfferKnown'
    BY <2>2 DEF OfferKnown
  <2> QED
    BY <1>2, <2>1, <2>2, <2>3, SayStep
<1>7. CASE ConfirmTrade(c)
  <2>1. node' = "root" /\ UNCHANGED <<focus, facing, walks, line, passed, mixed>>
    BY <1>7 DEF ConfirmTrade, ResetNpc
  <2>2. missold' = missold
    <3>1. "yes" \in Heard("yes") /\ missold' = (missold \/ (asked # <<Above("yes"), amount>> /\ ~mixed))
      BY <1>7 DEF ConfirmTrade
    <3>2. ~(asked # <<Above("yes"), amount>> /\ ~mixed)
      BY <3>1, YesIsHeard DEF NpcInv
    <3>3. missold = FALSE
      BY DEF NpcInv, SoldAsOffered
    <3> QED
      BY <3>1, <3>2, <3>3
  <2>3. OfferKnown'
    BY <2>1 DEF OfferKnown, Deaf
  <2> QED
    BY <1>2, <1>4, <2>1, <2>2, <2>3, SayStep
<1>8. CASE Travel(c)
  <2>1. node' = "ride" /\ UNCHANGED <<focus, facing, walks, line, passed, missold>>
    BY <1>8 DEF Travel, TakenFor
  <2>2. OfferKnown'
    BY <2>1 DEF OfferKnown, Deaf
  <2> QED
    BY <1>2, <1>4, <2>1, <2>2, SayStep
<1>9. CASE ConfirmTravel(c)
  <2>1. node' = "root" /\ UNCHANGED <<line, missold>>
    BY <1>9 DEF ConfirmTravel, ResetNpc
  <2>2. OfferKnown'
    BY <2>1 DEF OfferKnown, Deaf
  <2>3. LineTyped' /\ LineKept' /\ facing' \in {focus', Noone} /\ (walks' <=> facing' = Noone)
    <3>1. CASE ChangeFocus(Noone) /\ passed' = TRUE
      BY <1>3, <2>1, <3>1 DEF ChangeFocus, SetCreatureFocus, LineTyped, LineKept
    <3>2. CASE UNCHANGED <<at, focus, facing, walks, passed, mixed>>
      BY <1>4, <2>1, <3>2
    <3> QED
      BY <1>9, <3>1, <3>2 DEF ConfirmTravel
  <2> QED
    BY <1>2, <2>1, <2>2, <2>3, SayStep
<1>10. CASE BringMeTo(c)
  <2>1. node' = "bring" /\ UNCHANGED <<focus, facing, walks, line, passed, missold>>
    BY <1>10 DEF BringMeTo, TakenFor, Keeps
  <2>2. OfferKnown'
    BY <2>1 DEF OfferKnown, Deaf
  <2> QED
    BY <1>2, <1>4, <2>1, <2>2, SayStep
<1>11. ASSUME NEW w \in Ware, TradeItem(c, w) PROVE NpcInv'
  <2>1. node' = w /\ asked' = <<w, amount'>> /\ UNCHANGED <<focus, facing, walks, line, passed, missold>>
    BY <1>11 DEF TradeItem, TakenFor
  <2>2. OfferKnown'
    BY <2>1 DEF OfferKnown
  <2> QED
    BY <1>2, <1>4, <2>1, <2>2, SayStep
<1>12. ASSUME NEW n \in {"no", "stay"}, Decline(c, n) PROVE NpcInv'
  <2>1. node' = "root" /\ UNCHANGED <<focus, facing, walks, line, passed, missold>>
    BY <1>12 DEF Decline, ResetNpc
  <2>2. OfferKnown'
    BY <2>1 DEF OfferKnown, Deaf
  <2> QED
    BY <1>2, <1>4, <2>1, <2>2, SayStep
<1>13. ASSUME NEW n \in Nodes \ {"root"}, Overheard(c, n) PROVE NpcInv'
  <2>1. mixed' = TRUE /\ UNCHANGED <<focus, facing, walks, line, passed, missold>>
    BY <1>13 DEF Overheard
  <2>2. OfferKnown'
    BY <2>1 DEF OfferKnown
  <2> QED
    BY <1>2, <1>4, <2>1, <2>2, SayStep
<1> QED
  BY <1>1, <1>5, <1>6, <1>7, <1>8, <1>9, <1>10, <1>11, <1>12, <1>13

\* A sound script finds no functions of others, unless one failed.
LEMMA LoadNpcInv ==
  ASSUME NpcInv, LoadNpc
  PROVE  NpcInv'
<1>1. PICK s \in Script :
        IF s.sound
        THEN handles' = OwnOrStray(s) /\ stray' = [h \in Handlers |-> Noone] /\ shop' = Home
             /\ walks' = TRUE /\ UNCHANGED broken
        ELSE stray' = OwnOrStray(s) /\ broken' = (broken \/ s.defines # {})
             /\ UNCHANGED <<handles, shop, walks>>
  BY DEF LoadNpc
<1>2. shop = Away /\ UNCHANGED <<at, facing, wordVars, custVars, missold>>
  BY DEF LoadNpc
<1>3. focus = Noone /\ facing = Noone /\ line = <<>>
  BY <1>2 DEF NpcInv, TurnInv, Quiet
<1>4. TurnInv'
  BY <1>1, <1>2, <1>3, NpcFacts DEF NpcInv, TurnInv, Quiet, LineTyped, LineKept, NeverRooted, custVars
<1>5. OfferKnown' /\ SoldAsOffered'
  BY <1>2 DEF NpcInv, OfferKnown, SoldAsOffered, wordVars
<1>6. NothingStray' /\ OwnHandlers'
  <2>1. CASE s.sound
    <3>1. NothingStray'
      BY <1>1, <2>1 DEF NothingStray
    <3>2. ASSUME ~broken, NEW h \in Handlers, OwnOrStray(s)[h] # Noone
          PROVE  h \in OwnOrStray(s)[h].defines
      BY <3>2 DEF OwnOrStray, NpcInv, NothingStray
    <3> QED
      BY <1>1, <2>1, <3>1, <3>2 DEF OwnHandlers
  <2>2. CASE ~s.sound
    <3>1. OwnHandlers'
      BY <1>1, <2>2 DEF NpcInv, OwnHandlers
    <3>2. ASSUME ~broken' PROVE \A h \in Handlers : stray'[h] = Noone
      <4>1. ~broken /\ s.defines = {}
        BY <1>1, <2>2, <3>2
      <4> QED
        BY <1>1, <2>2, <4>1 DEF OwnOrStray, NpcInv, NothingStray
    <3> QED
      BY <3>1, <3>2 DEF NothingStray
  <2> QED
    BY <2>1, <2>2
<1> QED
  BY <1>4, <1>5, <1>6 DEF NpcInv

\* Time and the steps of customers.
LEMMA NpcThinksInv ==
  ASSUME NpcInv, OnThink
  PROVE  NpcInv'
<1>1. shop # Away /\ UNCHANGED <<shop, loadVars, node, under, amount, asked, missold>>
  BY DEF OnThink
<1>2. LineTyped /\ LineKept /\ NeverRooted /\ OfferKnown
  BY DEF NpcInv, TurnInv
<1>3. CASE NextPlease
  <2>1. /\ LineTyped' /\ LineKept' /\ mixed'
        /\ facing' \in {focus', Noone} /\ (walks' <=> facing' = Noone)
    BY <1>2, <1>3, NextPleaseInv
  <2>2. OfferKnown'
    BY <2>1 DEF OfferKnown
  <2> QED
    BY <1>1, <2>1, <2>2, SayStep
<1>4. CASE UNCHANGED <<custVars, mixed>> /\ (UNCHANGED <<facing, walks>> \/ (focus # Noone /\ SetCreatureFocus(focus)))
  <2>1. LineTyped' /\ LineKept' /\ OfferKnown'
    BY <1>1, <1>2, <1>4 DEF LineTyped, LineKept, OfferKnown, custVars
  <2>2. facing' \in {focus', Noone} /\ (walks' <=> facing' = Noone)
    BY <1>1, <1>2, <1>4 DEF NeverRooted, SetCreatureFocus, custVars
  <2> QED
    BY <1>1, <2>1, <2>2, SayStep
<1> QED
  BY <1>3, <1>4 DEF OnThink

LEMMA CustomerLeavesInv ==
  ASSUME NpcInv, CustomerLeaves
  PROVE  NpcInv'
<1>1. UNCHANGED <<shop, loadVars, node, under, amount, asked, missold>>
  BY DEF CustomerLeaves
<1>2. LineTyped /\ LineKept /\ NeverRooted /\ OfferKnown
  BY DEF NpcInv, TurnInv
<1>3. CASE Handled("onCreatureDisappear") /\ NextPlease
  <2>1. /\ LineTyped' /\ LineKept' /\ mixed'
        /\ facing' \in {focus', Noone} /\ (walks' <=> facing' = Noone)
    BY <1>2, <1>3, NextPleaseInv
  <2>2. OfferKnown' /\ shop # Away
    BY <1>3, <2>1 DEF OfferKnown, Handled
  <2> QED
    BY <1>1, <2>1, <2>2, SayStep
<1>4. CASE UNCHANGED <<custVars, facing, walks, mixed>>
  BY <1>1, <1>4 DEF NpcInv, TurnInv, Quiet, LineTyped, LineKept, NeverRooted, OfferKnown, SoldAsOffered, NothingStray,
     OwnHandlers, custVars, loadVars
<1> QED
  BY <1>3, <1>4 DEF CustomerLeaves

LEMMA NpcNextInv == NpcInv /\ [NpcNext]_npcVars => NpcInv'
<1> SUFFICES ASSUME NpcInv, [NpcNext]_npcVars PROVE NpcInv'
  OBVIOUS
<1>1. CASE UNCHANGED <<facing, walks, loadVars, wordVars, custVars, missold>>
           /\ (shop' = shop \/ (shop # Away /\ shop' \in Places))
  BY <1>1, NpcFacts DEF NpcInv, TurnInv, Quiet, LineTyped, LineKept, NeverRooted, OfferKnown, SoldAsOffered,
     NothingStray, OwnHandlers, custVars, loadVars, wordVars
<1>2. CASE RandomStep
  BY <1>1, <1>2 DEF RandomStep, CanWalkTo
<1>3. CASE CustomerWalks \/ CustomerComes \/ UNCHANGED npcVars
  BY <1>1, <1>3 DEF CustomerWalks, CustomerComes, npcVars
<1> QED
  BY <1>2, <1>3, LoadNpcInv, SayInv, NpcThinksInv, CustomerLeavesInv DEF NpcNext

LEMMA NpcInitInv == NpcInit => NpcInv
<1> SUFFICES ASSUME NpcInit PROVE NpcInv
  OBVIOUS
<1>1. line = <<>> /\ line \in Seq(Customer) /\ DOMAIN line = {} /\ Range(line) = {}
  BY DEF NpcInit, Range
<1>2. TurnInv
  BY <1>1 DEF NpcInit, TurnInv, Quiet, LineTyped, LineKept, NeverRooted
<1> QED
  BY <1>2 DEF NpcInit, NpcInv, OfferKnown, Deaf, SoldAsOffered, NothingStray, OwnHandlers

\* In every behaviour of a shopkeeper and its customers it is never rooted to the spot, the
\* line is kept, what is sold is what was asked about, and it runs its own script
\* (npc.cpp:411, npchandler.lua:299, keywordhandler.lua:179).
THEOREM NpcsHoldAlways == NpcSpec => []NpcsHold
<1>1. NpcInv => NpcsHold
  BY DEF NpcInv, TurnInv, NpcsHold
<1> QED
  BY <1>1, NpcInitInv, NpcNextInv, PTL DEF NpcSpec

-----------------------------------------------------------------------------
(* Belongings.                                                              *)

Worlds ==
    [owned : [Holder -> Belongings], online : SUBSET Holder, record : [Holder -> Belongings],
     estate : Building, past : Past]

\* A thing that was not spoilt is in one store, unless it was spent ...
OneStore(w) ==
    \A x \in Piece \ w.past.spoilt :
        IF x \in w.past.paid THEN Where(w, x) = {}
        ELSE \E n \in Holder \cup {NoHolder} : Where(w, x) = {n}

\* ... and there in one place.
OnePlace(w) ==
    \A x \in Piece \ w.past.spoilt, n \in Holder :
        /\ x \in w.owned[n].bag => x \notin w.owned[n].depot
        /\ x \in w.record[n].bag => x \notin w.record[n].depot

\* A restart finds it there, unless it has moved.
Recalled(w, s) ==
    \A x \in Piece \ (w.past.moved \cup w.past.spoilt) : WhereStored(w, s, x) = Where(w, x)

\* While the server is saved, the players are stored first and then the floor.
Halfway(w, s, stage) ==
    /\ stage = "players" => \A n \in w.online : w.record[n] = w.owned[n]
    /\ stage = "map" => s.floor = w.estate.floor

WorldInv(w, s, stage) ==
    /\ w \in Worlds /\ s \in Building /\ stage \in {"no", "players", "map"}
    /\ w.past.late = {}
    /\ OneStore(w) /\ OnePlace(w) /\ Recalled(w, s) /\ Halfway(w, s, stage)

StoreInv == WorldInv(World, stored, saving)

\* What n has, in the game or not.
Has(w, n) == All(Loaded(w, n))

\* What belongs to somebody is made of things.
LEMMA BelongingTyped ==
  ASSUME NEW w \in Worlds, NEW n \in Holder
  PROVE  /\ w.owned[n] \in Belongings /\ w.record[n] \in Belongings /\ Loaded(w, n) \in Belongings
         /\ Has(w, n) \subseteq Piece
BY DEF Worlds, Belongings, Loaded, Has, All

\* The stores of a thing, one by one.
LEMMA StoresOf ==
  ASSUME StoreAssumption, NEW w \in Worlds, NEW x \in Piece, NEW n
  PROVE  n \in Where(w, x) <=> (n \in Holder /\ x \in Has(w, n)) \/ (n = NoHolder /\ x \in w.estate.floor)
BY DEF StoreAssumption, Where, Has, Loaded

\* The stores in which a restart finds a thing, one by one.
LEMMA StoredStoresOf ==
  ASSUME StoreAssumption, NEW w \in Worlds, NEW s \in Building, NEW x \in Piece, NEW n
  PROVE  n \in WhereStored(w, s, x) <=>
            (n \in Holder /\ x \in All(w.record[n])) \/ (n = NoHolder /\ x \in s.floor)
BY DEF StoreAssumption, WhereStored

\* x is where it was, and where it was stored.
Rests(w, v, x) ==
    /\ \A n \in Holder : (x \in Has(v, n) <=> x \in Has(w, n))
                      /\ (x \in All(v.record[n]) <=> x \in All(w.record[n]))
    /\ x \in v.estate.floor <=> x \in w.estate.floor

\* x has gone to b from the only store it was in.
Goes(w, v, x, b) ==
    \E a \in Holder \cup {NoHolder} :
        /\ Where(w, x) = {a}
        /\ \A n \in Holder \cup {NoHolder} : n \in Where(v, x) <=> n = b

\* What may happen to things: those in S have gone elsewhere, the others rest.
Shifted(w, v, S) ==
    /\ v \in Worlds
    /\ S \subseteq Piece
    /\ v.past.moved = w.past.moved \cup S
    /\ v.past.late = IF saving = "no" THEN {} ELSE S
    /\ w.past.spoilt \subseteq v.past.spoilt
    /\ OneStore(v) /\ OnePlace(v)
    /\ \A x \in Piece \ (S \cup v.past.spoilt) : Rests(w, v, x)

\* What rests is in the same store, and found in the same store after a restart.
LEMMA RestsWhere ==
  ASSUME StoreAssumption, NEW w \in Worlds, NEW v \in Worlds, NEW x \in Piece, Rests(w, v, x)
  PROVE  Where(v, x) = Where(w, x)
<1>1. ASSUME NEW n PROVE n \in Where(v, x) <=> n \in Where(w, x)
  BY StoresOf DEF Rests
<1> QED
  BY <1>1

LEMMA RestsWhereStored ==
  ASSUME StoreAssumption, NEW w \in Worlds, NEW v \in Worlds, NEW s \in Building, NEW x \in Piece, Rests(w, v, x)
  PROVE  WhereStored(v, s, x) = WhereStored(w, s, x)
<1>1. ASSUME NEW n PROVE n \in WhereStored(v, s, x) <=> n \in WhereStored(w, s, x)
  BY StoredStoresOf DEF Rests
<1> QED
  BY <1>1

\* A world is all that Becomes sets.
LEMMA BecomesWorld ==
  ASSUME NEW v \in Worlds, Becomes(v)
  PROVE  World' = v
BY DEF Becomes, World, Worlds

\* A handler that shifts things keeps the invariant.
LEMMA ShiftedInv ==
  ASSUME StoreAssumption, NEW w, WorldInv(w, stored, saving), saving = "no", NEW S, NEW v, Shifted(w, v, S)
  PROVE  WorldInv(v, stored, saving)
<1> USE DEF WorldInv
<1>1. v.past.late = {}
  BY DEF Shifted
<1>2. ASSUME NEW x \in Piece \ (v.past.moved \cup v.past.spoilt) PROVE WhereStored(v, stored, x) = Where(v, x)
  <2>1. Rests(w, v, x) /\ x \in Piece \ (w.past.moved \cup w.past.spoilt)
    BY <1>2 DEF Shifted
  <2>2. Where(v, x) = Where(w, x) /\ WhereStored(v, stored, x) = WhereStored(w, stored, x)
    BY <2>1, RestsWhere, RestsWhereStored DEF Shifted
  <2> QED
    BY <2>1, <2>2 DEF Recalled
<1> QED
  BY <1>1, <1>2 DEF Shifted, Recalled, Halfway

\* Every thing rests, goes from one store to another, or is spent.
LEMMA OneStoreKept ==
  ASSUME StoreAssumption, NEW w \in Worlds, NEW v \in Worlds, OneStore(w),
         w.past.spoilt \subseteq v.past.spoilt,
         \A x \in Piece \ v.past.spoilt :
            \/ Rests(w, v, x) /\ (x \in v.past.paid <=> x \in w.past.paid)
            \/ x \notin v.past.paid /\ \E b \in Holder \cup {NoHolder} : Goes(w, v, x, b)
            \/ x \in v.past.paid /\ \A n \in Holder \cup {NoHolder} : n \notin Where(v, x)
  PROVE  OneStore(v)
<1> SUFFICES ASSUME NEW x \in Piece \ v.past.spoilt
             PROVE  IF x \in v.past.paid THEN Where(v, x) = {}
                    ELSE \E n \in Holder \cup {NoHolder} : Where(v, x) = {n}
  BY DEF OneStore
<1>0. Where(v, x) \subseteq Holder \cup {NoHolder}
  BY DEF Where
<1>1. CASE Rests(w, v, x) /\ (x \in v.past.paid <=> x \in w.past.paid)
  <2>1. Where(v, x) = Where(w, x)
    BY <1>1, RestsWhere
  <2> QED
    BY <1>1, <2>1 DEF OneStore
<1>2. ASSUME x \notin v.past.paid, NEW b \in Holder \cup {NoHolder}, Goes(w, v, x, b)
      PROVE  Where(v, x) = {b}
  <2>1. \A n \in Holder \cup {NoHolder} : n \in Where(v, x) <=> n = b
    BY ONLY <1>2 DEF Goes
  <2> QED
    BY ONLY <2>1, <1>0, b \in Holder \cup {NoHolder}
<1>3. CASE x \in v.past.paid /\ \A n \in Holder \cup {NoHolder} : n \notin Where(v, x)
  BY <1>0, <1>3
<1> QED
  BY <1>1, <1>2, <1>3

\* v is w with n put back as e, or w if that fails.
PutsBack(w, n, e, ok, v) ==
    /\ v \in Worlds /\ v.online = w.online /\ v.estate = w.estate /\ v.past = w.past
    /\ ok \/ n \in w.online => Loaded(v, n) = e
    /\ ~ok /\ n \notin w.online => v = w
    /\ n \in w.online => v.record = w.record /\ v.owned = [w.owned EXCEPT ![n] = e]
    /\ n \notin w.online => v.owned = w.owned /\ (ok => v.record = [w.record EXCEPT ![n] = e])
    /\ \A m \in Holder \ {n} : Loaded(v, m) = Loaded(w, m) /\ v.record[m] = w.record[m] /\ v.owned[m] = w.owned[m]
    /\ v.owned[n] \in {w.owned[n], e} /\ v.record[n] \in {w.record[n], e}

LEMMA PutBackOK ==
  ASSUME NEW w \in Worlds, NEW n \in Holder, NEW e \in Belongings, NEW ok \in BOOLEAN, NEW v, v = PutBack(w, n, e, ok)
  PROVE  PutsBack(w, n, e, ok, v)
<1> USE DEF PutsBack
<1>1. CASE n \in w.online
  <2>1. v = [w EXCEPT !.owned[n] = e]
    BY <1>1 DEF PutBack
  <2>2. v = [owned |-> [w.owned EXCEPT ![n] = e], online |-> w.online, record |-> w.record, estate |-> w.estate, past |-> w.past]
    BY <2>1 DEF Worlds
  <2> QED
    BY <1>1, <2>2 DEF Worlds, Loaded
<1>2. CASE n \notin w.online /\ ok
  <2>1. v = [w EXCEPT !.record[n] = e]
    BY <1>2 DEF PutBack
  <2>2. v = [owned |-> w.owned, online |-> w.online, record |-> [w.record EXCEPT ![n] = e], estate |-> w.estate, past |-> w.past]
    BY <2>1 DEF Worlds
  <2>3. v \in Worlds
    BY <2>2 DEF Worlds
  <2>4. w.record \in [Holder -> Belongings]
    BY DEF Worlds
  <2>5. /\ v.online = w.online /\ v.estate = w.estate /\ v.past = w.past /\ v.owned = w.owned
        /\ v.record = [w.record EXCEPT ![n] = e]
    BY ONLY <2>2
  <2>6. v.record[n] = e /\ \A m \in Holder \ {n} : v.record[m] = w.record[m]
    BY ONLY <2>4, <2>5, n \in Holder
  <2> QED
    BY <1>2, <2>3, <2>5, <2>6 DEF Loaded
<1>3. CASE n \notin w.online /\ ~ok
  BY <1>3 DEF PutBack
<1> QED
  BY <1>1, <1>2, <1>3

\* v is w with another house.
EstateIs(w, b, v) ==
    /\ v \in Worlds /\ v.owned = w.owned /\ v.online = w.online /\ v.record = w.record
    /\ v.estate = b /\ v.past = w.past

LEMMA EstateOK ==
  ASSUME NEW w \in Worlds, NEW b \in Building, NEW v, v = [w EXCEPT !.estate = b]
  PROVE  EstateIs(w, b, v)
BY DEF Worlds, EstateIs

\* v is w with other books.
PastIs(w, h, v) ==
    /\ v \in Worlds /\ v.owned = w.owned /\ v.online = w.online /\ v.record = w.record
    /\ v.estate = w.estate /\ v.past = h

LEMMA PastOK ==
  ASSUME NEW w \in Worlds, NEW h \in Past, NEW v, v = [w EXCEPT !.past = h]
  PROVE  PastIs(w, h, v)
BY DEF Worlds, PastIs

\* Only the books change when things move.
LEMMA MovesOK ==
  ASSUME NEW w \in Worlds, NEW S \in SUBSET Piece, w.past.late = {}
  PROVE  Moves(w, S) = [w EXCEPT !.past = [w.past EXCEPT !.moved = @ \cup S,
                                                         !.late = IF saving = "no" THEN {} ELSE S]]
BY DEF Worlds, Past, Moves

\* What is spoilt is noted in the books alone.
LEMMA SpoilsOK ==
  ASSUME NEW w \in Worlds, NEW S \in SUBSET Piece
  PROVE  /\ Spoils(w, S) \in Worlds
         /\ Spoils(w, S) = [w EXCEPT !.past = [w.past EXCEPT !.spoilt = @ \cup S]]
BY DEF Worlds, Past, Spoils


\* What lay on the floor of the house is lost, and nothing else is touched.
FloorLost(w, v) ==
    /\ v \in Worlds /\ v.owned = w.owned /\ v.online = w.online /\ v.record = w.record /\ v.estate.floor = {}
    /\ v.past.paid = w.past.paid /\ v.past.spoilt = w.past.spoilt \cup w.estate.floor
    /\ v.past.moved = w.past.moved \cup w.estate.floor
    /\ v.past.late = IF saving = "no" THEN {} ELSE w.estate.floor

LEMMA FloorLostOK ==
  ASSUME StoreAssumption, NEW w \in Worlds, OneStore(w), OnePlace(w), NEW v, FloorLost(w, v)
  PROVE  Shifted(w, v, w.estate.floor)
<1> DEFINE S == w.estate.floor
<1>1. S \subseteq Piece
  BY DEF Worlds, Building
<1>2. \A x \in Piece \ S : Rests(w, v, x)
  BY DEF FloorLost, Rests, Has, Loaded
<1>3. OneStore(v)
  <2>1. \A x \in Piece \ v.past.spoilt : Rests(w, v, x) /\ (x \in v.past.paid <=> x \in w.past.paid)
    BY <1>2 DEF FloorLost
  <2>2. v \in Worlds /\ w.past.spoilt \subseteq v.past.spoilt
    BY DEF FloorLost
  <2> QED
    BY <2>1, <2>2, OneStoreKept
<1>4. OnePlace(v)
  BY DEF FloorLost, OnePlace
<1> QED
  BY <1>1, <1>2, <1>3, <1>4 DEF FloorLost, Shifted

\* What lies in the house goes into the depot of its owner.
LEMMA TransferToDepotOK ==
  ASSUME StoreAssumption, NEW w \in Worlds, NEW ok \in BOOLEAN, w.estate.owner \in Holder,
         w.past.late = {}, OneStore(w), OnePlace(w), NEW v, v = TransferToDepot(w, ok)
  PROVE  /\ Shifted(w, v, w.estate.floor) /\ v.online = w.online
         /\ v.estate = [w.estate EXCEPT !.floor = {}]
         /\ v.past.paid = w.past.paid /\ v.past.spoilt \subseteq w.past.spoilt \cup w.estate.floor
         /\ w.estate.owner \notin w.online =>
                /\ v.owned = w.owned
                /\ ~ok => v.record = w.record
                /\ \A k \in Holder \ {w.estate.owner} : v.record[k] = w.record[k]
<1> DEFINE n == w.estate.owner
           S == w.estate.floor
           e == Loaded(w, n)
           f == [e EXCEPT !.depot = @ \cup S]
           m == Moves(w, S)
           p == PutBack(m, n, f, ok)
           q == IF ok \/ n \in w.online THEN p ELSE Spoils(p, S)
           past2 == [w.past EXCEPT !.moved = @ \cup S, !.late = IF saving = "no" THEN {} ELSE S]
<1>1. n \in Holder /\ S \in SUBSET Piece /\ e \in Belongings /\ f \in Belongings /\ All(f) = All(e) \cup S
  BY BelongingTyped DEF Worlds, Building, Belongings, All
<1>2. m \in Worlds /\ m = [w EXCEPT !.past = past2] /\ past2 \in Past
  <2>1. past2 \in Past
    BY <1>1 DEF Worlds, Past
  <2>2. m = [w EXCEPT !.past = past2]
    BY ONLY <1>1, MovesOK, w \in Worlds, w.past.late = {}
  <2> QED
    BY <2>1, <2>2 DEF Worlds
<1>3. m.owned = w.owned /\ m.online = w.online /\ m.record = w.record /\ m.estate = w.estate /\ m.past = past2
  BY <1>2 DEF Worlds
<1>4. v = [q EXCEPT !.estate.floor = {}]
  BY DEF TransferToDepot
<1> HIDE DEF m
<1>14. p = PutBack(m, n, f, ok) /\ n \in Holder /\ f \in Belongings /\ m \in Worlds
  BY <1>1, <1>2
<1> HIDE DEF p, f
<1>15. PutsBack(m, n, f, ok, p)
  BY ONLY <1>14, ok \in BOOLEAN, PutBackOK
<1>5. /\ p \in Worlds /\ p.online = m.online /\ p.estate = m.estate /\ p.past = m.past
      /\ ok \/ n \in m.online => Loaded(p, n) = f
      /\ ~ok /\ n \notin m.online => p = m
      /\ n \in m.online => p.record = m.record
      /\ n \notin m.online => p.owned = m.owned
      /\ \A k \in Holder \ {n} : Loaded(p, k) = Loaded(m, k) /\ p.record[k] = m.record[k] /\ p.owned[k] = m.owned[k]
      /\ p.owned[n] \in {m.owned[n], f} /\ p.record[n] \in {m.record[n], f}
  BY ONLY <1>15 DEF PutsBack
<1> USE DEF f
<1>6. \A x \in S \ w.past.spoilt : Where(w, x) = {NoHolder} /\ x \notin w.past.paid /\ x \notin All(e)
  <2> TAKE x \in S \ w.past.spoilt
  <2>1. x \in Piece /\ NoHolder \in Where(w, x)
    BY <1>1, StoresOf
  <2>2. Where(w, x) = {NoHolder} /\ x \notin w.past.paid
    BY <2>1 DEF OneStore
  <2>3. n \notin Where(w, x)
    BY <2>2, <1>1 DEF StoreAssumption
  <2> QED
    BY <2>1, <2>2, <2>3, <1>1, StoresOf DEF Has
<1>7. CASE ok \/ n \in w.online
  <2>1. v = [p EXCEPT !.estate = [w.estate EXCEPT !.floor = {}]]
    BY <1>4, <1>7, <1>3, <1>5 DEF Worlds
  <2>2. /\ v.owned = p.owned /\ v.online = w.online /\ v.record = p.record /\ v.past = past2
        /\ v.estate = [w.estate EXCEPT !.floor = {}]
    BY ONLY <2>1, <1>3, <1>5 DEF Worlds
  <2>3. v \in Worlds
    BY <2>1, <1>5 DEF Worlds, Building
  <2>4. \A k \in Holder : Loaded(v, k) = IF k = n THEN f ELSE Loaded(w, k)
    BY <1>3, <1>5, <1>7, <2>2 DEF Loaded
  <2>5. \A k \in Holder : All(v.record[k]) = All(w.record[k]) \/ (k = n /\ All(v.record[k]) = All(w.record[k]) \cup S)
    <3> TAKE k \in Holder
    <3>1. CASE k # n \/ n \in w.online
      BY <3>1, <1>3, <1>5, <2>2
    <3>2. CASE k = n /\ n \notin w.online
      <4>1. v.record[n] = f
        BY <3>2, <1>1, <1>3, <1>5, <1>7, <2>2, <2>4 DEF Loaded
      <4>2. e = w.record[n]
        BY <3>2 DEF Loaded
      <4> QED
        BY <4>1, <4>2, <3>2, <1>1
    <3> QED
      BY <3>1, <3>2
  <2>6. \A k \in Holder : Has(v, k) = IF k = n THEN All(e) \cup S ELSE Has(w, k)
    BY <2>4, <1>1 DEF Has
  <2>7. \A x \in Piece \ S : Rests(w, v, x)
    <3> TAKE x \in Piece \ S
    <3>1. \A k \in Holder : x \in Has(v, k) <=> x \in Has(w, k)
      BY <2>6 DEF Has
    <3>2. \A k \in Holder : x \in All(v.record[k]) <=> x \in All(w.record[k])
      BY <2>5
    <3>3. x \notin v.estate.floor /\ x \notin w.estate.floor
      BY <2>2 DEF Worlds, Building
    <3> QED
      BY <3>1, <3>2, <3>3 DEF Rests
  <2>8. v.past.paid = w.past.paid /\ v.past.spoilt = w.past.spoilt /\ v.past.moved = w.past.moved \cup S
        /\ v.past.late = IF saving = "no" THEN {} ELSE S
    BY <2>2 DEF Worlds, Past
  <2>9. ASSUME NEW x \in S \ w.past.spoilt PROVE x \notin v.past.paid /\ Goes(w, v, x, n)
    <3>1. x \in Piece /\ Where(w, x) = {NoHolder} /\ x \notin w.past.paid
      BY <1>6, <1>1, <2>9
    <3>2. \A k \in Holder : x \notin Has(w, k)
      BY <3>1, StoresOf DEF StoreAssumption
    <3>3. ASSUME NEW k \in Holder \cup {NoHolder} PROVE k \in Where(v, x) <=> k = n
      <4>1. k \in Where(v, x) <=> (k \in Holder /\ x \in Has(v, k)) \/ (k = NoHolder /\ x \in v.estate.floor)
        BY <3>1, <2>3, StoresOf
      <4>2. x \notin v.estate.floor
        BY <2>2 DEF Worlds, Building
      <4> QED
        BY <4>1, <4>2, <3>2, <2>6, <2>9, <1>1
    <3> QED
      BY <3>1, <3>3, <2>8 DEF Goes
  <2>10. OneStore(v)
    <3>1. \A x \in Piece \ v.past.spoilt :
            \/ Rests(w, v, x) /\ (x \in v.past.paid <=> x \in w.past.paid)
            \/ x \notin v.past.paid /\ \E b \in Holder \cup {NoHolder} : Goes(w, v, x, b)
      BY <2>7, <2>8, <2>9, <1>1
    <3> QED
      BY <3>1, <2>3, <2>8, OneStoreKept
  <2>11. OnePlace(v)
    <3> SUFFICES ASSUME NEW x \in Piece \ v.past.spoilt, NEW k \in Holder
                 PROVE  /\ x \in v.owned[k].bag => x \notin v.owned[k].depot
                        /\ x \in v.record[k].bag => x \notin v.record[k].depot
      BY DEF OnePlace
    <3>1. /\ x \in w.owned[k].bag => x \notin w.owned[k].depot
          /\ x \in w.record[k].bag => x \notin w.record[k].depot
      BY <2>8 DEF OnePlace
    <3>2. x \in f.bag => x \notin f.depot
      <4>1. x \in e.bag => x \notin e.depot
        BY <2>8, <1>1 DEF OnePlace, Loaded
      <4>2. f.bag = e.bag /\ f.depot = e.depot \cup S
        BY <1>1 DEF Belongings
      <4>3. x \in S => x \notin e.bag
        BY <1>6, <2>8 DEF All
      <4> QED
        BY <4>1, <4>2, <4>3
    <3>3. v.owned[k] \in {w.owned[k], f} /\ v.record[k] \in {w.record[k], f}
      BY <1>3, <1>5, <2>2
    <3> QED
      BY <3>1, <3>2, <3>3
  <2>12. n \notin w.online => v.owned = w.owned /\ \A k \in Holder \ {n} : v.record[k] = w.record[k]
    BY <1>3, <1>5, <2>2
  <2>13. Shifted(w, v, S)
    BY <2>2, <2>3, <2>7, <2>8, <2>10, <2>11, <1>1 DEF Shifted
  <2> QED
    BY <2>2, <2>8, <2>12, <2>13, <1>7
<1>8. CASE ~ok /\ n \notin w.online
  <2>1. p = m
    BY <1>8, <1>3, <1>5
  <2> DEFINE past3 == [past2 EXCEPT !.spoilt = @ \cup S]
  <2>2. Spoils(m, S) = [m EXCEPT !.past = past3] /\ Spoils(m, S) \in Worlds
    <3>1. Spoils(m, S) \in Worlds /\ Spoils(m, S) = [m EXCEPT !.past = [m.past EXCEPT !.spoilt = @ \cup S]]
      BY ONLY <1>1, <1>2, SpoilsOK
    <3> QED
      BY ONLY <3>1, <1>3
  <2>3. v = [Spoils(m, S) EXCEPT !.estate.floor = {}]
    BY <1>4, <1>8, <2>1
  <2>4. /\ v.owned = w.owned /\ v.online = w.online /\ v.record = w.record /\ v.past = past3
        /\ v.estate = [w.estate EXCEPT !.floor = {}]
    BY <2>2, <2>3, <1>2, <1>3 DEF Worlds
  <2>5. v \in Worlds
    <3>1. \A u \in Worlds : [u EXCEPT !.estate.floor = {}] \in Worlds
      BY DEF Worlds, Building
    <3> QED
      BY ONLY <3>1, <2>2, <2>3
  <2>6. v.past.paid = w.past.paid /\ v.past.spoilt = w.past.spoilt \cup S /\ v.past.moved = w.past.moved \cup S
        /\ v.past.late = IF saving = "no" THEN {} ELSE S
    BY <2>4 DEF Worlds, Past
  <2>7. FloorLost(w, v)
    BY <2>4, <2>5, <2>6 DEF FloorLost, Worlds, Building
  <2>8. Shifted(w, v, S)
    BY <2>7, FloorLostOK
  <2> QED
    BY <2>4, <2>6, <2>8, <1>8
<1> QED
  BY <1>7, <1>8

\* Nothing that belongs to anybody is touched between u and v.
SameThings(u, v) ==
    /\ v \in Worlds /\ v.owned = u.owned /\ v.online = u.online /\ v.record = u.record
    /\ v.estate.floor = u.estate.floor
    /\ v.past.paid = u.past.paid /\ v.past.moved = u.past.moved /\ v.past.late = u.past.late
    /\ v.past.spoilt = u.past.spoilt

LEMMA SamePlaces ==
  ASSUME NEW u \in Worlds, NEW v, SameThings(u, v)
  PROVE  /\ OneStore(u) => OneStore(v)
         /\ OnePlace(u) => OnePlace(v)
         /\ \A n \in Holder : Has(v, n) = Has(u, n)
<1>1. \A x : Where(v, x) = Where(u, x)
  BY DEF SameThings, Where
<1> QED
  BY <1>1 DEF SameThings, OneStore, OnePlace, Has, Loaded

LEMMA ShiftedSame ==
  ASSUME NEW w \in Worlds, NEW u, NEW S, Shifted(w, u, S), NEW v, SameThings(u, v)
  PROVE  Shifted(w, v, S)
<1>1. u \in Worlds
  BY DEF Shifted
<1>2. OneStore(v) /\ OnePlace(v) /\ \A n \in Holder : Has(v, n) = Has(u, n)
  BY <1>1, SamePlaces DEF Shifted
<1> QED
  BY <1>2 DEF Shifted, SameThings, Rests

\* The invariant is about nothing but things.
LEMMA SameInv ==
  ASSUME NEW w, NEW s, NEW stage, WorldInv(w, s, stage), NEW v, SameThings(w, v)
  PROVE  WorldInv(v, s, stage)
<1>1. OneStore(v) /\ OnePlace(v)
  BY SamePlaces DEF WorldInv
<1>2. \A x : Where(v, x) = Where(w, x) /\ WhereStored(v, s, x) = WhereStored(w, s, x)
  BY DEF SameThings, Where, WhereStored
<1> QED
  BY <1>1, <1>2 DEF WorldInv, SameThings, Recalled, Halfway

\* What happens seldom is counted.
LEMMA SeldomSame ==
  ASSUME StoreAssumption, NEW w \in Worlds, w.past.rare = past.rare, MayBe(1), NEW v, v = Seldom(w)
  PROVE  SameThings(w, v)
<1> DEFINE h == [w.past EXCEPT !.rare = @ + 1]
<1>1. h \in Past /\ h.paid = w.past.paid /\ h.moved = w.past.moved /\ h.late = w.past.late /\ h.spoilt = w.past.spoilt
  BY DEF StoreAssumption, Worlds, Past, MayBe
<1>2. v = [w EXCEPT !.past = h]
  BY DEF Worlds, Past, Seldom
<1> HIDE DEF h
<1>3. PastIs(w, h, v)
  BY ONLY <1>1, <1>2, w \in Worlds, PastOK
<1> QED
  BY ONLY <1>1, <1>3 DEF PastIs, SameThings

\* Where nothing is touched, nothing has gone elsewhere.
LEMMA ShiftedNone ==
  ASSUME NEW w \in Worlds, w.past.late = {}, OneStore(w), OnePlace(w), NEW v, SameThings(w, v)
  PROVE  Shifted(w, v, {})
<1>1. OneStore(v) /\ OnePlace(v) /\ \A n \in Holder : Has(v, n) = Has(w, n)
  BY SamePlaces
<1> QED
  BY <1>1 DEF Shifted, SameThings, Rests

\* A change of owner shifts at most what lies in the house.
LEMMA OwnedByOK ==
  ASSUME StoreAssumption, NEW w \in Worlds, NEW n \in Holder \cup {NoHolder}, NEW ok \in BOOLEAN,
         w.past.late = {}, OneStore(w), OnePlace(w), NEW v, v = OwnedBy(w, n, ok)
  PROVE  \E S : Shifted(w, v, S)
<1>1. CASE w.estate.owner = n
  <2>1. v = w
    BY <1>1 DEF OwnedBy
  <2>2. SameThings(w, v)
    BY <2>1 DEF SameThings
  <2> QED
    BY <2>2, ShiftedNone
<1>2. CASE w.estate.owner # n /\ w.estate.owner = NoHolder
  <2>1. v = [w EXCEPT !.estate.owner = n]
    BY <1>2 DEF OwnedBy
  <2>2. v \in Worlds /\ v.owned = w.owned /\ v.online = w.online /\ v.record = w.record /\ v.past = w.past
        /\ v.estate = [w.estate EXCEPT !.owner = n]
    BY <2>1 DEF Worlds, Building
  <2>3. SameThings(w, v)
    BY <2>2 DEF SameThings, Worlds, Building
  <2> QED
    BY <2>3, ShiftedNone
<1>3. CASE w.estate.owner # n /\ w.estate.owner # NoHolder
  <2> DEFINE u == TransferToDepot(w, ok)
             b == [owner |-> n, due |-> TRUE, warnings |-> 0, floor |-> u.estate.floor]
  <2>1. v = [u EXCEPT !.estate = b]
    BY <1>3 DEF OwnedBy
  <2>2. w.estate.owner \in Holder
    BY <1>3 DEF Worlds, Building
  <2>3. Shifted(w, u, w.estate.floor)
    BY <2>2, TransferToDepotOK
  <2> HIDE DEF u
  <2>4. u \in Worlds
    BY <2>3 DEF Shifted
  <2>5. b \in Building
    BY <2>4 DEF Worlds, Building, StoreAssumption
  <2>6. SameThings(u, v)
    <3>1. b.floor = u.estate.floor
      OBVIOUS
    <3> HIDE DEF b
    <3>2. EstateIs(u, b, v)
      BY ONLY <2>1, <2>4, <2>5, EstateOK
    <3> QED
      BY ONLY <3>1, <3>2 DEF SameThings, EstateIs
  <2>7. Shifted(w, v, w.estate.floor)
    BY ONLY <2>3, <2>6, w \in Worlds, ShiftedSame
  <2> QED
    BY ONLY <2>7
<1> QED
  BY <1>1, <1>2, <1>3

\* A piece of the depot is spent for the rent.
Spends(w, n, piece, ok) == PutBack(w, n, [Loaded(w, n) EXCEPT !.depot = @ \ {piece}], ok)
Pays(p, piece) == [Moves(p, {piece}) EXCEPT !.estate.due = FALSE, !.past.paid = @ \cup {piece}]

LEMMA PaidOK ==
  ASSUME StoreAssumption, NEW w \in Worlds, NEW n \in Holder, NEW piece \in Loaded(w, n).depot \cap Money,
         NEW ok \in BOOLEAN, ok \/ n \in w.online,
         w.past.late = {}, OneStore(w), OnePlace(w),
         NEW p, p = Spends(w, n, piece, ok), NEW v, v = Pays(p, piece)
  PROVE  Shifted(w, v, {piece})
<1> DEFINE e == Loaded(w, n)
           f == [e EXCEPT !.depot = @ \ {piece}]
           past2 == [w.past EXCEPT !.moved = @ \cup {piece}, !.late = IF saving = "no" THEN {} ELSE {piece},
                                   !.paid = @ \cup {piece}]
<1>1. e \in Belongings /\ f \in Belongings /\ f.bag = e.bag /\ f.depot = e.depot \ {piece} /\ piece \in Piece
      /\ piece \in Money
  BY BelongingTyped DEF Belongings, StoreAssumption
<1> HIDE DEF f
<1>2. PutsBack(w, n, f, ok, p)
  <2>1. p = PutBack(w, n, f, ok)
    BY DEF f, Spends
  <2> QED
    BY ONLY <2>1, <1>1, w \in Worlds, n \in Holder, ok \in BOOLEAN, PutBackOK
<1>3. /\ p \in Worlds /\ p.online = w.online /\ p.estate = w.estate /\ p.past = w.past
      /\ Loaded(p, n) = f
      /\ n \in w.online => p.record = w.record
      /\ \A k \in Holder \ {n} : Loaded(p, k) = Loaded(w, k) /\ p.record[k] = w.record[k] /\ p.owned[k] = w.owned[k]
      /\ p.owned[n] \in {w.owned[n], f} /\ p.record[n] \in {w.record[n], f}
  BY ONLY <1>2, ok \/ n \in w.online DEF PutsBack
<1>4. past2 \in Past
  BY <1>1 DEF Worlds, Past
<1> DEFINE past1 == [w.past EXCEPT !.moved = @ \cup {piece}, !.late = IF saving = "no" THEN {} ELSE {piece}]
           m == Moves(p, {piece})
           b == [w.estate EXCEPT !.due = FALSE]
<1>5. PastIs(p, past1, m)
  <2>1. past1 \in Past /\ {piece} \in SUBSET Piece
    BY <1>1 DEF Worlds, Past
  <2>2. m = [p EXCEPT !.past = past1]
    <3>1. p.past.late = {}
      BY ONLY <1>3, w.past.late = {}
    <3>2. m = [p EXCEPT !.past = [p.past EXCEPT !.moved = @ \cup {piece}, !.late = IF saving = "no" THEN {} ELSE {piece}]]
      BY ONLY <3>1, <2>1, <1>3, MovesOK, Zenon
    <3> QED
      BY ONLY <3>2, <1>3
  <2> HIDE DEF past1, m
  <2> QED
    BY ONLY <2>1, <2>2, <1>3, PastOK
<1>6. /\ v \in Worlds /\ v.owned = p.owned /\ v.online = w.online /\ v.record = p.record
      /\ v.estate.floor = w.estate.floor /\ v.past = past2
  <2>1. b \in Building /\ b.floor = w.estate.floor
    BY DEF Worlds, Building
  <2>2. m.past = past1 /\ m.estate = w.estate /\ m \in Worlds /\ m.owned = p.owned /\ m.online = w.online
        /\ m.record = p.record
    BY ONLY <1>3, <1>5 DEF PastIs
  <2>3. v = [m EXCEPT !.estate = [m.estate EXCEPT !.due = FALSE], !.past = [m.past EXCEPT !.paid = @ \cup {piece}]]
    <3>1. \A u \in Worlds : [u EXCEPT !.estate.due = FALSE, !.past.paid = @ \cup {piece}]
                = [u EXCEPT !.estate = [u.estate EXCEPT !.due = FALSE], !.past = [u.past EXCEPT !.paid = @ \cup {piece}]]
      BY ONLY TRUE DEF Worlds, Past, Building
    <3> HIDE DEF m
    <3>2. v = [m EXCEPT !.estate.due = FALSE, !.past.paid = @ \cup {piece}]
      BY DEF m, Pays
    <3> QED
      BY ONLY <3>1, <3>2, <2>2
  <2>4. [past1 EXCEPT !.paid = @ \cup {piece}] = past2
    BY DEF Worlds, Past
  <2> HIDE DEF m, past1, past2, b
  <2>5. v = [m EXCEPT !.estate = b, !.past = past2]
    BY ONLY <2>2, <2>3, <2>4 DEF b
  <2>6. \A u \in Worlds : LET z == [u EXCEPT !.estate = b, !.past = past2] IN
           z \in Worlds /\ z.owned = u.owned /\ z.online = u.online /\ z.record = u.record /\ z.estate = b /\ z.past = past2
    BY ONLY <2>1, <1>4 DEF Worlds
  <2> QED
    BY ONLY <2>1, <2>2, <2>5, <2>6
<1>7. /\ v.past.paid = w.past.paid \cup {piece} /\ v.past.spoilt = w.past.spoilt
      /\ v.past.moved = w.past.moved \cup {piece} /\ v.past.late = IF saving = "no" THEN {} ELSE {piece}
  <2>1. v.past = past2 /\ w.past \in Past
    BY <1>6 DEF Worlds
  <2> QED
    BY ONLY <2>1 DEF Past
<1> HIDE DEF past2
<1>8. \A k \in Holder : Loaded(v, k) = IF k = n THEN f ELSE Loaded(w, k)
  BY ONLY <1>3, <1>6, n \in Holder DEF Loaded
<1>9. All(f) \ {piece} = All(e) \ {piece}
  BY <1>1 DEF All
<1>10. \A x \in Piece \ {piece} : Rests(w, v, x)
  <2> TAKE x \in Piece \ {piece}
  <2>1. \A k \in Holder : x \in Has(v, k) <=> x \in Has(w, k)
    BY <1>8, <1>9 DEF Has
  <2>2. \A k \in Holder : x \in All(v.record[k]) <=> x \in All(w.record[k])
    <3> TAKE k \in Holder
    <3>1. CASE k # n \/ n \in w.online
      BY <3>1, <1>3, <1>6
    <3>2. CASE k = n /\ n \notin w.online
      <4>1. v.record[n] = f /\ e = w.record[n]
        BY <3>2, <1>6, <1>8 DEF Loaded
      <4> QED
        BY <4>1, <3>2, <1>9
    <3> QED
      BY <3>1, <3>2
  <2> QED
    BY <2>1, <2>2, <1>6 DEF Rests
<1>11. piece \notin w.past.spoilt => \A k \in Holder \cup {NoHolder} : k \notin Where(v, piece)
  <2> SUFFICES ASSUME piece \notin w.past.spoilt, NEW k \in Holder \cup {NoHolder} PROVE k \notin Where(v, piece)
    OBVIOUS
  <2>1. n \in Where(w, piece)
    BY <1>1, StoresOf DEF Has, All
  <2>2. Where(w, piece) = {n}
    BY <2>1, <1>1 DEF OneStore
  <2>3. piece \notin f.bag /\ piece \notin f.depot
    BY <1>1 DEF OnePlace, Loaded
  <2>4. k \in Where(v, piece) <=> (k \in Holder /\ piece \in Has(v, k)) \/ (k = NoHolder /\ piece \in v.estate.floor)
    BY ONLY <1>1, <1>6, StoreAssumption, StoresOf
  <2>5. \A j \in Holder : piece \in Has(v, j) => piece \in Has(w, j) /\ j # n
    BY <1>8, <2>3 DEF Has, All
  <2>6. k \in Where(w, piece) <=> (k \in Holder /\ piece \in Has(w, k)) \/ (k = NoHolder /\ piece \in w.estate.floor)
    BY <1>1, StoresOf
  <2> QED
    BY <2>2, <2>4, <2>5, <2>6, <1>6 DEF StoreAssumption
<1>12. OneStore(v)
  <2>1. \A x \in Piece \ v.past.spoilt :
            \/ Rests(w, v, x) /\ (x \in v.past.paid <=> x \in w.past.paid)
            \/ x \in v.past.paid /\ \A k \in Holder \cup {NoHolder} : k \notin Where(v, x)
    BY <1>7, <1>10, <1>11
  <2> QED
    <3>1. v \in Worlds /\ w.past.spoilt \subseteq v.past.spoilt
      BY ONLY <1>6, <1>7
    <3> QED
      BY ONLY <2>1, <3>1, w \in Worlds, OneStore(w), StoreAssumption, OneStoreKept
<1>13. OnePlace(v)
  <2> SUFFICES ASSUME NEW x \in Piece \ v.past.spoilt, NEW k \in Holder
               PROVE  /\ x \in v.owned[k].bag => x \notin v.owned[k].depot
                      /\ x \in v.record[k].bag => x \notin v.record[k].depot
    BY DEF OnePlace
  <2>1. /\ x \in w.owned[k].bag => x \notin w.owned[k].depot
        /\ x \in w.record[k].bag => x \notin w.record[k].depot
        /\ x \in e.bag => x \notin e.depot
    BY <1>7 DEF OnePlace, Loaded
  <2>2. v.owned[k] \in {w.owned[k], f} /\ v.record[k] \in {w.record[k], f}
    BY <1>3, <1>6
  <2> QED
    BY <2>1, <2>2, <1>1
<1> QED
  BY <1>1, <1>6, <1>7, <1>10, <1>12, <1>13 DEF Shifted

\* An owner who is not in the game is evicted: what his depot got is overwritten.
Evicted(w, ok) ==
    Spoils(PutBack(OwnedBy(w, NoHolder, ok), w.estate.owner, Loaded(w, w.estate.owner), ok), w.estate.floor)

LEMMA EvictedOK ==
  ASSUME StoreAssumption, NEW w \in Worlds, NEW ok \in BOOLEAN, w.estate.owner \in Holder,
         w.estate.owner \notin w.online, w.past.late = {}, OneStore(w), OnePlace(w),
         NEW v, v = Evicted(w, ok)
  PROVE  Shifted(w, v, w.estate.floor)
<1> DEFINE n == w.estate.owner
           e == Loaded(w, n)
           S == w.estate.floor
           u == TransferToDepot(w, ok)
           b == [owner |-> NoHolder, due |-> TRUE, warnings |-> 0, floor |-> u.estate.floor]
           o == OwnedBy(w, NoHolder, ok)
           r == PutBack(o, n, e, ok)
           h == [r.past EXCEPT !.spoilt = @ \cup S]
<1>0. v = Spoils(r, S)
  BY DEF Evicted
<1>1. n # NoHolder /\ S \in SUBSET Piece /\ e \in Belongings /\ e = w.record[n]
  BY BelongingTyped DEF Worlds, Building, StoreAssumption, Loaded
<1>2. /\ Shifted(w, u, S) /\ u.online = w.online /\ u.estate = [w.estate EXCEPT !.floor = {}]
      /\ u.past.paid = w.past.paid /\ u.past.spoilt \subseteq w.past.spoilt \cup S
      /\ u.owned = w.owned /\ (~ok => u.record = w.record)
      /\ \A k \in Holder \ {n} : u.record[k] = w.record[k]
  BY TransferToDepotOK
<1>3. u \in Worlds /\ u.online = w.online /\ u.past.moved = w.past.moved \cup S
      /\ u.past.late = (IF saving = "no" THEN {} ELSE S) /\ w.past.spoilt \subseteq u.past.spoilt
  BY ONLY <1>2 DEF Shifted
<1>4. EstateIs(u, b, o) /\ b.floor = {}
  <2>1. o = [u EXCEPT !.estate = b]
    BY <1>1 DEF OwnedBy
  <2>2. u.estate.floor = {}
    BY ONLY <1>2, w \in Worlds DEF Worlds, Building
  <2>3. b \in Building
    BY <2>2 DEF Building, StoreAssumption
  <2>4. b.floor = {}
    BY <2>2
  <2> HIDE DEF u, o, b
  <2> QED
    BY ONLY <2>1, <2>3, <2>4, <1>3, EstateOK
<1>5. PutsBack(o, n, e, ok, r)
  <2>1. o \in Worlds /\ r = PutBack(o, n, e, ok)
    BY <1>4 DEF EstateIs
  <2> HIDE DEF o, r
  <2> QED
    BY ONLY <2>1, <1>1, n \in Holder, ok \in BOOLEAN, PutBackOK
<1>6. /\ o \in Worlds /\ o.owned = w.owned /\ o.online = w.online /\ o.record = u.record
      /\ o.estate.floor = {} /\ o.past = u.past
  BY ONLY <1>2, <1>3, <1>4 DEF EstateIs
<1> HIDE DEF o, u, r
<1>7. r \in Worlds /\ r.owned = w.owned /\ r.online = w.online /\ r.estate.floor = {} /\ r.past = u.past
      /\ r.record = IF ok THEN [u.record EXCEPT ![n] = e] ELSE u.record
  BY ONLY <1>5, <1>6, n \notin w.online DEF PutsBack
<1>8. r.record = w.record
  <2>1. CASE ~ok
    BY ONLY <2>1, <1>2, <1>7
  <2>2. CASE ok
    <3>1. u.record \in [Holder -> Belongings] /\ w.record \in [Holder -> Belongings]
      BY ONLY <1>3, w \in Worlds DEF Worlds
    <3>2. \A k \in Holder : [u.record EXCEPT ![n] = e][k] = w.record[k]
      BY ONLY <3>1, <1>1, <1>2
    <3> QED
      BY ONLY <2>2, <3>1, <3>2, <1>7
  <2> QED
    BY <2>1, <2>2
<1>9. PastIs(r, h, v) /\ h \in Past
  <2>1. r.past \in Past
    BY ONLY <1>7 DEF Worlds
  <2>2. h \in Past
    BY ONLY <2>1, <1>1 DEF Past
  <2>3. v = [r EXCEPT !.past = h]
    BY ONLY <1>0, <1>1, <1>7, SpoilsOK
  <2> HIDE DEF h
  <2> QED
    BY ONLY <2>2, <2>3, <1>7, PastOK
<1>10. h.paid = u.past.paid /\ h.moved = u.past.moved /\ h.late = u.past.late /\ h.spoilt = u.past.spoilt \cup S
  BY ONLY <1>7 DEF Worlds, Past
<1>11. FloorLost(w, v)
  BY ONLY <1>2, <1>3, <1>7, <1>8, <1>9, <1>10 DEF FloorLost, PastIs
<1> QED
  BY ONLY <1>11, StoreAssumption, w \in Worlds, OneStore(w), OnePlace(w), FloorLostOK

\* The rent shifts at most the piece that is paid, or what lies in the house of an evicted owner.
LEMMA RentedOK ==
  ASSUME StoreAssumption, NEW w \in Worlds, NEW letters \in BOOLEAN, NEW ok \in BOOLEAN,
         w.past.late = {}, OneStore(w), OnePlace(w), NEW v, v = Rented(w, letters, ok)
  PROVE  \E S : Shifted(w, v, S)
<1> DEFINE n == w.estate.owner
           e == Loaded(w, n)
           piece == CHOOSE c \in e.depot \cap Money : TRUE
           kept == ok \/ n \in w.online
           paid == PutBack(w, n, [e EXCEPT !.depot = @ \ {piece}], ok)
<1>0. n # NoHolder => n \in Holder
  BY DEF Worlds, Building
<1>1. CASE n = NoHolder \/ ~w.estate.due \/ (e.depot \cap Money = {} /\ w.estate.warnings < WarnLimit /\ ~letters)
  <2>1. v = w
    BY <1>1 DEF Rented
  <2>2. SameThings(w, v)
    BY <2>1 DEF SameThings
  <2> QED
    BY <2>2, ShiftedNone
<1>2. CASE n # NoHolder /\ w.estate.due /\ e.depot \cap Money # {} /\ kept
  <2>1. v = Pays(paid, piece) /\ paid = Spends(w, n, piece, ok)
    BY <1>2 DEF Rented, Pays, Spends
  <2>2. piece \in Loaded(w, n).depot \cap Money /\ n \in Holder /\ (ok \/ n \in w.online)
    BY ONLY <1>0, <1>2
  <2> HIDE DEF piece, paid, n
  <2>3. Shifted(w, v, {piece})
    BY ONLY <2>1, <2>2, StoreAssumption, w \in Worlds, ok \in BOOLEAN, w.past.late = {}, OneStore(w), OnePlace(w), PaidOK
  <2> QED
    BY ONLY <2>3
<1>3. CASE n # NoHolder /\ w.estate.due /\ e.depot \cap Money # {} /\ ~kept
  <2>1. v = [paid EXCEPT !.estate.due = FALSE]
    BY <1>3 DEF Rented
  <2>2. paid = w
    BY <1>3 DEF PutBack
  <2>3. v = [w EXCEPT !.estate = [w.estate EXCEPT !.due = FALSE]]
    BY <2>1, <2>2
  <2>4. [w.estate EXCEPT !.due = FALSE] \in Building /\ [w.estate EXCEPT !.due = FALSE].floor = w.estate.floor
    BY DEF Worlds, Building
  <2>5. EstateIs(w, [w.estate EXCEPT !.due = FALSE], v)
    BY ONLY <2>3, <2>4, w \in Worlds, EstateOK
  <2>6. SameThings(w, v)
    BY <2>4, <2>5 DEF SameThings, EstateIs
  <2> QED
    BY <2>6, ShiftedNone
<1>4. CASE n # NoHolder /\ w.estate.due /\ e.depot \cap Money = {} /\ w.estate.warnings < WarnLimit /\ letters
  <2> DEFINE b == [w.estate EXCEPT !.warnings = @ + 1]
  <2>1. v = [w EXCEPT !.estate = b]
    BY <1>4 DEF Rented
  <2>2. b \in Building /\ b.floor = w.estate.floor
    BY <1>4 DEF Worlds, Building, StoreAssumption
  <2> HIDE DEF b
  <2>3. EstateIs(w, b, v)
    BY ONLY <2>1, <2>2, w \in Worlds, EstateOK
  <2>4. SameThings(w, v)
    BY <2>2, <2>3 DEF SameThings, EstateIs
  <2> QED
    BY <2>4, ShiftedNone
<1>5. CASE n # NoHolder /\ w.estate.due /\ e.depot \cap Money = {} /\ ~(w.estate.warnings < WarnLimit) /\ n \in w.online
  <2>1. v = OwnedBy(w, NoHolder, ok)
    BY <1>5 DEF Rented
  <2> QED
    BY <2>1, OwnedByOK
<1>6. CASE n # NoHolder /\ w.estate.due /\ e.depot \cap Money = {} /\ ~(w.estate.warnings < WarnLimit) /\ n \notin w.online
  <2>1. v = Evicted(w, ok)
    BY <1>6 DEF Rented, Evicted
  <2>2. w.estate.owner \in Holder /\ w.estate.owner \notin w.online
    BY ONLY <1>0, <1>6
  <2>3. Shifted(w, v, w.estate.floor)
    BY ONLY <2>1, <2>2, StoreAssumption, w \in Worlds, ok \in BOOLEAN, w.past.late = {}, OneStore(w), OnePlace(w), EvictedOK
  <2> QED
    BY ONLY <2>3
<1> QED
  BY <1>1, <1>2, <1>3, <1>4, <1>5, <1>6
\* What a handler makes of the world, the server not being saved.
LEMMA HandlerOK ==
  ASSUME NEW v, WorldInv(v, stored, saving), Becomes(v), UNCHANGED <<stored, saving>>
  PROVE  StoreInv'
<1>1. World' = v
  BY BecomesWorld DEF WorldInv
<1> QED
  BY <1>1 DEF StoreInv

\* Where everything rests, apart from what was spoilt.
LEMMA RestsInv ==
  ASSUME StoreAssumption, NEW w, NEW s, WorldInv(w, s, "no"), NEW v \in Worlds, OnePlace(v),
         v.past.paid = w.past.paid, v.past.moved = w.past.moved, v.past.late = {}, w.past.spoilt \subseteq v.past.spoilt,
         \A x \in Piece \ v.past.spoilt : Rests(w, v, x)
  PROVE  WorldInv(v, s, "no")
<1>1. w \in Worlds /\ OneStore(w) /\ Recalled(w, s) /\ s \in Building
  BY DEF WorldInv
<1>2. \A x \in Piece \ v.past.spoilt : Where(v, x) = Where(w, x) /\ WhereStored(v, s, x) = WhereStored(w, s, x)
  BY <1>1, RestsWhere, RestsWhereStored
<1>3. OneStore(v)
  BY <1>1, <1>2 DEF OneStore
<1>4. Recalled(v, s)
  BY <1>1, <1>2 DEF Recalled
<1> QED
  BY <1>1, <1>3, <1>4 DEF WorldInv, Halfway

\* The invariant of the variables, part by part.
LEMMA StoreInvParts ==
  ASSUME StoreInv
  PROVE  /\ World \in Worlds /\ OneStore(World) /\ OnePlace(World) /\ Recalled(World, stored) /\ past.late = {}
         /\ World.owned = owned /\ World.online = online /\ World.record = record /\ World.estate = estate
         /\ World.past = past
         /\ owned \in [Holder -> Belongings] /\ record \in [Holder -> Belongings] /\ online \subseteq Holder
         /\ estate \in Building /\ stored \in Building /\ past \in Past
         /\ WorldInv(World, stored, saving)
BY DEF StoreInv, WorldInv, World, Worlds

\* A player who enters the game owns what was stored for him.
LEMMA LoadOK ==
  ASSUME StoreAssumption, StoreInv, NEW n \in Holder, Load(n)
  PROVE  StoreInv'
<1> DEFINE w == World
           v == [owned |-> [owned EXCEPT ![n] = record[n]], online |-> online \cup {n}, record |-> record,
                 estate |-> estate, past |-> past]
<1>1. Becomes(v) /\ UNCHANGED <<stored, saving>> /\ saving = "no" /\ n \notin online
  BY DEF Load, Becomes
<1>2. /\ v \in Worlds /\ v.past = w.past /\ v.estate = w.estate /\ v.record = w.record
      /\ \A k \in Holder : Loaded(v, k) = Loaded(w, k)
      /\ v.owned[n] = w.record[n] /\ \A k \in Holder \ {n} : v.owned[k] = w.owned[k]
  BY <1>1, StoreInvParts DEF Worlds, Loaded, World
<1>3. OnePlace(v)
  BY <1>2, StoreInvParts DEF OnePlace
<1>4. \A x : Rests(w, v, x)
  BY <1>2 DEF Rests, Has
<1> HIDE DEF v, w
<1>5. WorldInv(v, stored, "no")
  <2>1. WorldInv(w, stored, "no") /\ w.past.late = {}
    BY <1>1, StoreInvParts DEF w
  <2> QED
    BY ONLY <1>2, <1>3, <1>4, <2>1, StoreAssumption, RestsInv
<1> QED
  BY ONLY <1>1, <1>5, HandlerOK

\* Between his bag and his depot a thing stays with its owner.
LEMMA ShelveOK ==
  ASSUME StoreAssumption, StoreInv, NEW n \in Holder, NEW x \in Piece, Shelve(n, x)
  PROVE  StoreInv'
<1> DEFINE w == World
           e == owned[n]
           f == IF x \in e.bag THEN [bag |-> e.bag \ {x}, depot |-> e.depot \cup {x}]
                               ELSE [bag |-> e.bag \cup {x}, depot |-> e.depot \ {x}]
           v == [owned |-> [owned EXCEPT ![n] = f], online |-> online, record |-> record, estate |-> estate, past |-> past]
<1>1. Becomes(v) /\ UNCHANGED <<stored, saving>> /\ saving = "no" /\ n \in online /\ x \in All(e)
  BY DEF Shelve, Becomes
<1>2. e \in Belongings /\ f \in Belongings /\ All(f) = All(e)
  BY <1>1, StoreInvParts DEF Belongings, All
<1>3. \A y \in Piece : (y \in e.bag => y \notin e.depot) => (y \in f.bag => y \notin f.depot)
  OBVIOUS
<1> HIDE DEF f
<1>4. /\ v \in Worlds /\ v.past = w.past /\ v.estate = w.estate /\ v.record = w.record
      /\ \A k \in Holder : Loaded(v, k) = IF k = n THEN f ELSE Loaded(w, k)
      /\ Loaded(w, n) = e
      /\ v.owned[n] = f /\ \A k \in Holder \ {n} : v.owned[k] = w.owned[k]
  BY <1>1, <1>2, StoreInvParts DEF Worlds, Loaded, World
<1>5. OnePlace(v)
  BY <1>3, <1>4, StoreInvParts DEF OnePlace
<1>6. \A y : Rests(w, v, y)
  BY <1>2, <1>4 DEF Rests, Has
<1> HIDE DEF v, w
<1>7. WorldInv(v, stored, "no")
  <2>1. WorldInv(w, stored, "no") /\ w.past.late = {}
    BY <1>1, StoreInvParts DEF w
  <2> QED
    BY ONLY <1>4, <1>5, <1>6, <2>1, StoreAssumption, RestsInv
<1> QED
  BY ONLY <1>1, <1>7, HandlerOK

\* A player who leaves the game and is stored keeps what he owns.
LEMMA DisconnectSavedOK ==
  ASSUME StoreAssumption, StoreInv, NEW n \in Holder, Disconnect(n, TRUE)
  PROVE  StoreInv'
<1> DEFINE w == World
           v == [owned |-> [owned EXCEPT ![n] = Nothing], online |-> online \ {n},
                 record |-> [record EXCEPT ![n] = owned[n]], estate |-> estate, past |-> past]
<1>1. Becomes(v) /\ UNCHANGED <<stored, saving>> /\ saving = "no" /\ n \in online
  <2>1. Becomes([[World EXCEPT !.online = @ \ {n}, !.owned[n] = Nothing] EXCEPT !.record[n] = owned[n]])
    BY DEF Disconnect
  <2> QED
    BY <2>1 DEF World, Disconnect
<1>2. /\ v \in Worlds /\ v.past = w.past /\ v.estate = w.estate
      /\ \A k \in Holder : Loaded(v, k) = Loaded(w, k)
      /\ v.owned[n] = Nothing /\ v.record[n] = w.owned[n]
      /\ \A k \in Holder \ {n} : v.owned[k] = w.owned[k] /\ v.record[k] = w.record[k]
  BY <1>1, StoreInvParts DEF Worlds, Belongings, Nothing, Loaded, World
<1>3. OnePlace(v)
  BY <1>2, StoreInvParts DEF OnePlace, Nothing
<1>4. w \in Worlds /\ OneStore(w) /\ Recalled(w, stored) /\ w.past.late = {} /\ stored \in Building /\ Loaded(w, n) = w.owned[n]
      /\ w.online = online
  BY <1>1, StoreInvParts DEF Loaded
<1> HIDE DEF v, w
<1>5. \A x \in Piece : Where(v, x) = Where(w, x)
  <2> TAKE x \in Piece
  <2>1. \A k : k \in Where(v, x) <=> k \in Where(w, x)
    BY ONLY <1>2, <1>4, StoreAssumption, x \in Piece, StoresOf DEF Has
  <2> QED
    BY ONLY <2>1
<1>6. OneStore(v)
  BY ONLY <1>2, <1>4, <1>5 DEF OneStore
<1>7. Recalled(v, stored)
  <2> SUFFICES ASSUME NEW x \in Piece \ (v.past.moved \cup v.past.spoilt) PROVE WhereStored(v, stored, x) = Where(v, x)
    BY DEF Recalled
  <2>1. WhereStored(w, stored, x) = Where(w, x)
    BY ONLY <1>2, <1>4, x \in Piece \ (v.past.moved \cup v.past.spoilt) DEF Recalled
  <2>2. \A k : k \in WhereStored(v, stored, x) <=> k \in WhereStored(w, stored, x)
    <3>1. n \in WhereStored(w, stored, x) <=> n \in Where(w, x)
      BY ONLY <2>1
    <3>2. x \in All(w.record[n]) <=> x \in All(w.owned[n])
      <4>1. n \in Where(w, x) <=> x \in Has(w, n)
        BY ONLY <1>4, StoreAssumption, n \in Holder, x \in Piece \ (v.past.moved \cup v.past.spoilt), StoresOf DEF StoreAssumption
      <4>2. n \in WhereStored(w, stored, x) <=> x \in All(w.record[n])
        BY ONLY <1>4, StoreAssumption, n \in Holder, x \in Piece \ (v.past.moved \cup v.past.spoilt), StoredStoresOf
          DEF StoreAssumption
      <4> QED
        BY ONLY <3>1, <4>1, <4>2, <1>4 DEF Has
    <3> QED
      BY ONLY <3>2, <1>2, <1>4, StoreAssumption, n \in Holder, x \in Piece \ (v.past.moved \cup v.past.spoilt), StoredStoresOf
  <2> QED
    BY ONLY <2>1, <2>2, <1>5, x \in Piece \ (v.past.moved \cup v.past.spoilt)
<1>8. WorldInv(v, stored, "no")
  BY ONLY <1>2, <1>3, <1>4, <1>6, <1>7 DEF WorldInv, Halfway
<1> QED
  BY ONLY <1>1, <1>8, HandlerOK

\* If he is not stored, what differs from his record is spoilt.
LEMMA DisconnectFailedOK ==
  ASSUME StoreAssumption, StoreInv, NEW n \in Holder, Disconnect(n, FALSE)
  PROVE  StoreInv'
<1> DEFINE w == World
           u == [owned |-> [owned EXCEPT ![n] = Nothing], online |-> online \ {n}, record |-> record,
                 estate |-> estate, past |-> past]
           lost == {x \in Piece : Where(u, x) # Where(w, x)}
           s == Spoils(u, lost)
           v == Seldom(s)
           h == [past EXCEPT !.spoilt = @ \cup lost]
<1>1. Becomes(v) /\ UNCHANGED <<stored, saving>> /\ saving = "no" /\ n \in online /\ MayBe(1)
  <2>1. [World EXCEPT !.online = @ \ {n}, !.owned[n] = Nothing] = u
    <3>1. PICK y : y = World /\ y \in Worlds
      BY StoreInvParts
    <3>2. PICK z : z = [y EXCEPT !.online = y.online \ {n}]
      OBVIOUS
    <3>3. z = [owned |-> y.owned, online |-> y.online \ {n}, record |-> y.record, estate |-> y.estate, past |-> y.past]
      BY ONLY <3>1, <3>2 DEF Worlds
    <3>4. [z EXCEPT !.owned = [z.owned EXCEPT ![n] = Nothing]] =
             [owned |-> [y.owned EXCEPT ![n] = Nothing], online |-> y.online \ {n}, record |-> y.record,
              estate |-> y.estate, past |-> y.past]
      BY ONLY <3>3
    <3>5. y.owned = owned /\ y.online = online /\ y.record = record /\ y.estate = estate /\ y.past = past
      BY ONLY <3>1 DEF World
    <3> QED
      BY ONLY <3>1, <3>2, <3>4, <3>5
  <2> HIDE DEF u
  <2>2. PICK t : t = [World EXCEPT !.online = @ \ {n}, !.owned[n] = Nothing]
    OBVIOUS
  <2>3. Becomes(Seldom(Spoils(t, {x \in Piece : Where(t, x) # Where(World, x)})))
    BY ONLY <2>2, Disconnect(n, FALSE) DEF Disconnect
  <2>4. t = u
    BY ONLY <2>1, <2>2
  <2>5. Becomes(v)
    BY ONLY <2>3, <2>4
  <2> QED
    BY <2>5 DEF Disconnect
<1>2. /\ u \in Worlds /\ u.past = w.past /\ u.estate = w.estate /\ u.record = w.record
      /\ u.owned[n] = Nothing /\ \A k \in Holder \ {n} : u.owned[k] = w.owned[k]
  BY <1>1, StoreInvParts DEF Worlds, Belongings, Nothing, Loaded, World
<1>3. w \in Worlds /\ OnePlace(w) /\ w.past.late = {} /\ w.past = past /\ WorldInv(w, stored, "no") /\ past \in Past
  BY <1>1, StoreInvParts
<1> HIDE DEF u, w, lost
<1>4. PastIs(u, h, s) /\ h.paid = past.paid /\ h.moved = past.moved /\ h.late = past.late /\ h.rare = past.rare
      /\ h.spoilt = past.spoilt \cup lost
  <2>1. lost \in SUBSET Piece
    BY DEF lost
  <2>2. h \in Past /\ h.paid = past.paid /\ h.moved = past.moved /\ h.late = past.late /\ h.rare = past.rare
        /\ h.spoilt = past.spoilt \cup lost
    BY ONLY <2>1, <1>3 DEF Past
  <2>3. s = [u EXCEPT !.past = h]
    BY ONLY <2>1, <1>2, <1>3, SpoilsOK
  <2> HIDE DEF h, s
  <2> QED
    BY ONLY <2>2, <2>3, <1>2, PastOK
<1> HIDE DEF s, h
<1>5. /\ s \in Worlds /\ s.past = h /\ s.estate = w.estate /\ s.record = w.record /\ s.online = u.online /\ s.owned = u.owned
      /\ s.owned[n] = Nothing /\ \A k \in Holder \ {n} : s.owned[k] = w.owned[k]
  BY ONLY <1>2, <1>4 DEF PastIs
<1>6. OnePlace(s)
  BY ONLY <1>3, <1>4, <1>5 DEF OnePlace, Nothing
<1>7. ASSUME NEW x \in Piece \ s.past.spoilt PROVE Rests(w, s, x)
  <2>1. Where(u, x) = Where(w, x)
    BY <1>4, <1>5, <1>7 DEF lost
  <2>2. \A k \in Holder : x \in Has(u, k) <=> x \in Has(w, k)
    BY ONLY <2>1, <1>2, <1>3, StoreAssumption, x \in Piece \ s.past.spoilt, StoresOf DEF StoreAssumption
  <2>3. \A k \in Holder : Has(s, k) = Has(u, k)
    BY ONLY <1>2, <1>5 DEF Has, Loaded
  <2> QED
    BY ONLY <2>2, <2>3, <1>5 DEF Rests
<1>8. WorldInv(s, stored, "no")
  <2>1. s.past.paid = w.past.paid /\ s.past.moved = w.past.moved /\ s.past.late = {} /\ w.past.spoilt \subseteq s.past.spoilt
    BY ONLY <1>3, <1>4, <1>5
  <2> QED
    BY ONLY <2>1, <1>3, <1>5, <1>6, <1>7, StoreAssumption, RestsInv
<1>9. SameThings(s, v)
  <2>1. s.past.rare = past.rare
    BY ONLY <1>4, <1>5
  <2> QED
    BY ONLY <2>1, <1>1, <1>5, StoreAssumption, SeldomSame
<1> HIDE DEF v
<1>10. WorldInv(v, stored, saving)
  BY ONLY <1>1, <1>8, <1>9, SameInv
<1> QED
  BY ONLY <1>1, <1>10, HandlerOK

\* x is carried from a to b.
LEMMA CarriedOK ==
  ASSUME StoreAssumption, NEW w \in Worlds, w.past.late = {}, OneStore(w), NEW x \in Piece,
         NEW a \in Holder \cup {NoHolder}, NEW b \in Holder \cup {NoHolder}, a \in Where(w, x),
         NEW v \in Worlds, OnePlace(v),
         v.past.moved = w.past.moved \cup {x}, v.past.late = IF saving = "no" THEN {} ELSE {x},
         v.past.paid = w.past.paid, w.past.spoilt \subseteq v.past.spoilt,
         \A y \in Piece \ {x} : Rests(w, v, y),
         x \notin v.past.spoilt => \A k \in Holder \cup {NoHolder} : k \in Where(v, x) <=> k = b
  PROVE  Shifted(w, v, {x})
<1>1. x \notin v.past.spoilt => x \notin v.past.paid /\ Where(w, x) = {a}
  BY DEF OneStore
<1>2. x \notin v.past.spoilt => Goes(w, v, x, b)
  BY ONLY <1>1, a \in Holder \cup {NoHolder},
          x \notin v.past.spoilt => \A k \in Holder \cup {NoHolder} : k \in Where(v, x) <=> k = b DEF Goes
<1>3. \A y \in Piece \ v.past.spoilt :
         \/ Rests(w, v, y) /\ (y \in v.past.paid <=> y \in w.past.paid)
         \/ y \notin v.past.paid /\ \E c \in Holder \cup {NoHolder} : Goes(w, v, y, c)
  BY <1>1, <1>2
<1>4. OneStore(v)
  BY <1>3, OneStoreKept
<1> QED
  BY <1>4 DEF Shifted

\* The books when x moves.
Books(h, x) == [h EXCEPT !.moved = @ \cup {x}, !.late = IF saving = "no" THEN {} ELSE {x}]

LEMMA BooksOK ==
  ASSUME NEW w \in Worlds, w.past.late = {}, NEW x \in Piece, NEW m, m = Moves(w, {x})
  PROVE  /\ PastIs(w, Books(w.past, x), m)
         /\ Books(w.past, x).moved = w.past.moved \cup {x}
         /\ Books(w.past, x).late = IF saving = "no" THEN {} ELSE {x}
         /\ Books(w.past, x).paid = w.past.paid /\ Books(w.past, x).spoilt = w.past.spoilt
         /\ Books(w.past, x).rare = w.past.rare
<1>1. /\ Books(w.past, x) \in Past
      /\ Books(w.past, x).moved = w.past.moved \cup {x}
      /\ Books(w.past, x).late = IF saving = "no" THEN {} ELSE {x}
      /\ Books(w.past, x).paid = w.past.paid /\ Books(w.past, x).spoilt = w.past.spoilt
      /\ Books(w.past, x).rare = w.past.rare
  BY DEF Worlds, Past, Books
<1>2. {x} \in SUBSET Piece
  OBVIOUS
<1>3. m = [w EXCEPT !.past = Books(w.past, x)]
  BY ONLY <1>2, m = Moves(w, {x}), w \in Worlds, w.past.late = {}, MovesOK DEF Books
<1> QED
  BY ONLY <1>1, <1>3, w \in Worlds, PastOK

\* m with the belongings o and the house b.
With(m, o, b) == [m EXCEPT !.owned = o, !.estate = b]

LEMMA TwoOK ==
  ASSUME NEW m \in Worlds, NEW o \in [Holder -> Belongings], NEW b \in Building,
         NEW v, v = With(m, o, b)
  PROVE  v \in Worlds /\ v.owned = o /\ v.online = m.online /\ v.record = m.record /\ v.estate = b /\ v.past = m.past
BY DEF Worlds, With

\* A thing is dropped in the house.
LEMMA DropOK ==
  ASSUME StoreAssumption, StoreInv, NEW n \in Holder, NEW x \in Piece, Drop(n, x)
  PROVE  StoreInv'
<1> DEFINE w == World
           f == [owned[n] EXCEPT !.bag = @ \ {x}]
           o == [owned EXCEPT ![n] = f]
           b == [estate EXCEPT !.floor = @ \cup {x}]
           m == Moves(w, {x})
           v == [m EXCEPT !.owned[n].bag = @ \ {x}, !.estate.floor = @ \cup {x}]
<1>1. Becomes(v) /\ UNCHANGED <<stored, saving>> /\ saving = "no" /\ n \in online /\ x \in owned[n].bag
  BY DEF Drop
<1>2. /\ w \in Worlds /\ w.past.late = {} /\ OneStore(w) /\ OnePlace(w) /\ WorldInv(w, stored, saving)
      /\ w.owned = owned /\ w.online = online /\ w.record = record /\ w.estate = estate
      /\ owned \in [Holder -> Belongings] /\ estate \in Building
  BY StoreInvParts
<1> HIDE DEF w, m
<1>3. /\ m \in Worlds /\ m.owned = owned /\ m.online = online /\ m.record = record /\ m.estate = estate
      /\ m.past.moved = w.past.moved \cup {x} /\ m.past.late = (IF saving = "no" THEN {} ELSE {x})
      /\ m.past.paid = w.past.paid /\ m.past.spoilt = w.past.spoilt
  <2>1. m = Moves(w, {x})
    BY DEF m
  <2>2. /\ PastIs(w, Books(w.past, x), m)
        /\ Books(w.past, x).moved = w.past.moved \cup {x}
        /\ Books(w.past, x).late = IF saving = "no" THEN {} ELSE {x}
        /\ Books(w.past, x).paid = w.past.paid /\ Books(w.past, x).spoilt = w.past.spoilt
    BY ONLY <2>1, <1>2, x \in Piece, BooksOK
  <2> QED
    BY ONLY <2>2, <1>2 DEF PastIs
<1>4. /\ f \in Belongings /\ f.bag = owned[n].bag \ {x} /\ f.depot = owned[n].depot
      /\ o \in [Holder -> Belongings] /\ o[n] = f /\ \A k \in Holder \ {n} : o[k] = owned[k]
      /\ b \in Building /\ b.floor = estate.floor \cup {x}
  BY <1>2 DEF Belongings, Building
<1>5. v \in Worlds /\ v.owned = o /\ v.online = online /\ v.record = record /\ v.estate = b /\ v.past = m.past
  <2>1. v = With(m, o, b)
    <3>1. \A u \in Worlds : [u EXCEPT !.owned[n].bag = @ \ {x}, !.estate.floor = @ \cup {x}] =
             [u EXCEPT !.owned = [u.owned EXCEPT ![n] = [u.owned[n] EXCEPT !.bag = @ \ {x}]],
                       !.estate = [u.estate EXCEPT !.floor = @ \cup {x}]]
      BY ONLY n \in Holder DEF Worlds, Belongings, Building
    <3>2. v = [m EXCEPT !.owned = [m.owned EXCEPT ![n] = [m.owned[n] EXCEPT !.bag = @ \ {x}]],
                        !.estate = [m.estate EXCEPT !.floor = @ \cup {x}]]
      BY ONLY <3>1, <1>3, Zenon
    <3>3. o = [m.owned EXCEPT ![n] = [m.owned[n] EXCEPT !.bag = @ \ {x}]] /\ b = [m.estate EXCEPT !.floor = @ \cup {x}]
      BY ONLY <1>3
    <3> HIDE DEF v, o, b
    <3> QED
      BY ONLY <3>2, <3>3, Zenon DEF With
  <2> HIDE DEF v, o, b
  <2> QED
    BY ONLY <2>1, <1>3, <1>4, TwoOK
<1> HIDE DEF v, o, b, f
<1>6. OnePlace(v)
  BY ONLY <1>2, <1>3, <1>4, <1>5 DEF OnePlace
<1>7. /\ \A k \in Holder \ {n} : Has(v, k) = Has(w, k)
      /\ Has(w, n) = All(owned[n]) /\ Has(v, n) = All(f)
  BY ONLY <1>1, <1>2, <1>4, <1>5, n \in Holder DEF Has, Loaded
<1>8. \A y \in Piece \ {x} : Rests(w, v, y)
  <2>1. \A y \in Piece \ {x} : y \in All(f) <=> y \in All(owned[n])
    BY ONLY <1>4 DEF All
  <2> QED
    BY ONLY <2>1, <1>2, <1>4, <1>5, <1>7 DEF Rests
<1>9. n \in Where(w, x)
  BY ONLY <1>1, <1>2, <1>7, StoreAssumption, n \in Holder, x \in Piece, StoresOf DEF All
<1>10. ASSUME x \notin v.past.spoilt, NEW k \in Holder \cup {NoHolder} PROVE k \in Where(v, x) <=> k = NoHolder
  <2>1. Where(w, x) = {n} /\ x \notin owned[n].depot
    BY ONLY <1>1, <1>2, <1>3, <1>5, <1>9, <1>10, x \in Piece, n \in Holder DEF OneStore, OnePlace
  <2>2. \A j \in Holder : j # n => x \notin Has(w, j)
    BY ONLY <2>1, <1>2, StoreAssumption, x \in Piece, StoresOf
  <2>3. x \notin All(f)
    BY ONLY <2>1, <1>4 DEF All
  <2>4. \A j \in Holder : x \notin Has(v, j)
    BY ONLY <2>2, <2>3, <1>7
  <2>5. k \in Where(v, x) <=> (k \in Holder /\ x \in Has(v, k)) \/ (k = NoHolder /\ x \in v.estate.floor)
    BY ONLY <1>5, StoreAssumption, x \in Piece, StoresOf
  <2> QED
    BY ONLY <2>4, <2>5, <1>4, <1>5
<1>11. Shifted(w, v, {x})
  <2>1. /\ v.past.moved = w.past.moved \cup {x} /\ v.past.late = IF saving = "no" THEN {} ELSE {x}
    BY ONLY <1>3, <1>5
  <2>2. v.past.paid = w.past.paid /\ w.past.spoilt \subseteq v.past.spoilt
    BY ONLY <1>3, <1>5
  <2>3. n \in Holder \cup {NoHolder} /\ NoHolder \in Holder \cup {NoHolder}
    OBVIOUS
  <2>4. x \notin v.past.spoilt => \A k \in Holder \cup {NoHolder} : k \in Where(v, x) <=> k = NoHolder
    BY ONLY <1>10
  <2> QED
    BY ONLY <2>1, <2>2, <2>3, <2>4, <1>2, <1>5, <1>6, <1>8, <1>9, StoreAssumption, x \in Piece, CarriedOK
<1> QED
  <2>1. WorldInv(v, stored, saving)
    BY ONLY <1>1, <1>2, <1>11, StoreAssumption, ShiftedInv
  <2> QED
    BY ONLY <2>1, <1>1, HandlerOK

\* A thing is picked up in the house.
LEMMA PickUpOK ==
  ASSUME StoreAssumption, StoreInv, NEW n \in Holder, NEW x \in Piece, PickUp(n, x)
  PROVE  StoreInv'
<1> DEFINE w == World
           f == [owned[n] EXCEPT !.bag = @ \cup {x}]
           o == [owned EXCEPT ![n] = f]
           b == [estate EXCEPT !.floor = @ \ {x}]
           m == Moves(w, {x})
           v == [m EXCEPT !.owned[n].bag = @ \cup {x}, !.estate.floor = @ \ {x}]
<1>1. Becomes(v) /\ UNCHANGED <<stored, saving>> /\ saving = "no" /\ n \in online /\ x \in estate.floor
  BY DEF PickUp
<1>2. /\ w \in Worlds /\ w.past.late = {} /\ OneStore(w) /\ OnePlace(w) /\ WorldInv(w, stored, saving)
      /\ w.owned = owned /\ w.online = online /\ w.record = record /\ w.estate = estate
      /\ owned \in [Holder -> Belongings] /\ estate \in Building
  BY StoreInvParts
<1> HIDE DEF w, m
<1>3. /\ m \in Worlds /\ m.owned = owned /\ m.online = online /\ m.record = record /\ m.estate = estate
      /\ m.past.moved = w.past.moved \cup {x} /\ m.past.late = (IF saving = "no" THEN {} ELSE {x})
      /\ m.past.paid = w.past.paid /\ m.past.spoilt = w.past.spoilt
  <2>1. m = Moves(w, {x})
    BY DEF m
  <2>2. /\ PastIs(w, Books(w.past, x), m)
        /\ Books(w.past, x).moved = w.past.moved \cup {x}
        /\ Books(w.past, x).late = IF saving = "no" THEN {} ELSE {x}
        /\ Books(w.past, x).paid = w.past.paid /\ Books(w.past, x).spoilt = w.past.spoilt
    BY ONLY <2>1, <1>2, x \in Piece, BooksOK
  <2> QED
    BY ONLY <2>2, <1>2 DEF PastIs
<1>4. /\ f \in Belongings /\ f.bag = owned[n].bag \cup {x} /\ f.depot = owned[n].depot
      /\ o \in [Holder -> Belongings] /\ o[n] = f /\ \A k \in Holder \ {n} : o[k] = owned[k]
      /\ b \in Building /\ b.floor = estate.floor \ {x}
  BY <1>2 DEF Belongings, Building
<1>5. v \in Worlds /\ v.owned = o /\ v.online = online /\ v.record = record /\ v.estate = b /\ v.past = m.past
  <2>1. v = With(m, o, b)
    <3>1. \A u \in Worlds : [u EXCEPT !.owned[n].bag = @ \cup {x}, !.estate.floor = @ \ {x}] =
             [u EXCEPT !.owned = [u.owned EXCEPT ![n] = [u.owned[n] EXCEPT !.bag = @ \cup {x}]],
                       !.estate = [u.estate EXCEPT !.floor = @ \ {x}]]
      BY ONLY n \in Holder DEF Worlds, Belongings, Building
    <3>2. v = [m EXCEPT !.owned = [m.owned EXCEPT ![n] = [m.owned[n] EXCEPT !.bag = @ \cup {x}]],
                        !.estate = [m.estate EXCEPT !.floor = @ \ {x}]]
      BY ONLY <3>1, <1>3, Zenon
    <3>3. o = [m.owned EXCEPT ![n] = [m.owned[n] EXCEPT !.bag = @ \cup {x}]] /\ b = [m.estate EXCEPT !.floor = @ \ {x}]
      BY ONLY <1>3
    <3> HIDE DEF v, o, b
    <3> QED
      BY ONLY <3>2, <3>3, Zenon DEF With
  <2> HIDE DEF v, o, b
  <2> QED
    BY ONLY <2>1, <1>3, <1>4, TwoOK
<1> HIDE DEF v, o, b, f
<1>6. NoHolder \in Where(w, x)
  BY ONLY <1>1, <1>2, StoreAssumption, x \in Piece, StoresOf
<1>7. x \notin w.past.spoilt => Where(w, x) = {NoHolder} /\ x \notin All(owned[n])
  <2> SUFFICES ASSUME x \notin w.past.spoilt PROVE Where(w, x) = {NoHolder} /\ x \notin All(owned[n])
    OBVIOUS
  <2>1. Where(w, x) = {NoHolder}
    BY ONLY <1>2, <1>6, x \in Piece, x \notin w.past.spoilt DEF OneStore
  <2>2. n \notin Where(w, x)
    BY ONLY <2>1, StoreAssumption, n \in Holder DEF StoreAssumption
  <2>3. x \notin Has(w, n)
    BY ONLY <2>2, <1>2, StoreAssumption, n \in Holder, x \in Piece, StoresOf
  <2> QED
    BY ONLY <2>1, <2>3, <1>1, <1>2 DEF Has, Loaded
<1>8. OnePlace(v)
  BY ONLY <1>2, <1>3, <1>4, <1>5, <1>7 DEF OnePlace, All
<1>9. /\ \A k \in Holder \ {n} : Has(v, k) = Has(w, k)
      /\ Has(w, n) = All(owned[n]) /\ Has(v, n) = All(f)
  BY ONLY <1>1, <1>2, <1>4, <1>5, n \in Holder DEF Has, Loaded
<1>10. \A y \in Piece \ {x} : Rests(w, v, y)
  <2>1. \A y \in Piece \ {x} : y \in All(f) <=> y \in All(owned[n])
    BY ONLY <1>4 DEF All
  <2> QED
    BY ONLY <2>1, <1>2, <1>4, <1>5, <1>9 DEF Rests
<1>11. ASSUME x \notin v.past.spoilt, NEW k \in Holder \cup {NoHolder} PROVE k \in Where(v, x) <=> k = n
  <2>1. Where(w, x) = {NoHolder}
    BY ONLY <1>3, <1>5, <1>7, <1>11
  <2>2. \A j \in Holder : x \notin Has(w, j)
    BY ONLY <2>1, <1>2, StoreAssumption, x \in Piece, StoresOf DEF StoreAssumption
  <2>3. x \in All(f)
    BY ONLY <1>4 DEF All
  <2>4. \A j \in Holder : x \in Has(v, j) <=> j = n
    BY ONLY <2>2, <2>3, <1>9
  <2>5. k \in Where(v, x) <=> (k \in Holder /\ x \in Has(v, k)) \/ (k = NoHolder /\ x \in v.estate.floor)
    BY ONLY <1>5, StoreAssumption, x \in Piece, StoresOf
  <2> QED
    BY ONLY <2>4, <2>5, <1>4, <1>5, n \in Holder
<1>12. Shifted(w, v, {x})
  <2>1. /\ v.past.moved = w.past.moved \cup {x} /\ v.past.late = IF saving = "no" THEN {} ELSE {x}
    BY ONLY <1>3, <1>5
  <2>2. v.past.paid = w.past.paid /\ w.past.spoilt \subseteq v.past.spoilt
    BY ONLY <1>3, <1>5
  <2>3. n \in Holder \cup {NoHolder} /\ NoHolder \in Holder \cup {NoHolder}
    OBVIOUS
  <2>4. x \notin v.past.spoilt => \A k \in Holder \cup {NoHolder} : k \in Where(v, x) <=> k = n
    BY ONLY <1>11
  <2> QED
    BY ONLY <2>1, <2>2, <2>3, <2>4, <1>2, <1>5, <1>6, <1>8, <1>10, StoreAssumption, x \in Piece, CarriedOK
<1> QED
  <2>1. WorldInv(v, stored, saving)
    BY ONLY <1>1, <1>2, <1>12, StoreAssumption, ShiftedInv
  <2> QED
    BY ONLY <2>1, <1>1, HandlerOK

\* v is w with the belongings o.
OwnedIs(w, o, v) ==
    /\ v \in Worlds /\ v.owned = o /\ v.online = w.online /\ v.record = w.record
    /\ v.estate = w.estate /\ v.past = w.past

LEMMA OwnedOK ==
  ASSUME NEW w \in Worlds, NEW o \in [Holder -> Belongings], NEW v, v = [w EXCEPT !.owned = o]
  PROVE  OwnedIs(w, o, v)
BY DEF Worlds, OwnedIs

\* x has left the bag of n and is nowhere.
Handed(w, n, x) == [Moves(w, {x}) EXCEPT !.owned[n].bag = @ \ {x}]

\* What has become of w when x was handed over.
HandedIs(w, n, x, u) ==
    /\ u \in Worlds /\ u.online = w.online /\ u.record = w.record /\ u.estate = w.estate
    /\ u.past.moved = w.past.moved \cup {x} /\ u.past.late = (IF saving = "no" THEN {} ELSE {x})
    /\ u.past.paid = w.past.paid /\ u.past.spoilt = w.past.spoilt /\ u.past.rare = w.past.rare
    /\ u.owned[n].bag = w.owned[n].bag \ {x} /\ u.owned[n].depot = w.owned[n].depot
    /\ \A k \in Holder \ {n} : u.owned[k] = w.owned[k]
    /\ OnePlace(w) => OnePlace(u)
    /\ \A y \in Piece \ {x} : Rests(w, u, y)

LEMMA HandedOK ==
  ASSUME NEW w \in Worlds, w.past.late = {}, NEW n \in w.online, NEW x \in Piece, NEW u, u = Handed(w, n, x)
  PROVE  HandedIs(w, n, x, u)
<1> DEFINE f == [w.owned[n] EXCEPT !.bag = @ \ {x}]
           o == [w.owned EXCEPT ![n] = f]
           m == Moves(w, {x})
<1>1. u = [m EXCEPT !.owned[n].bag = @ \ {x}] /\ m = Moves(w, {x}) /\ n \in Holder
  BY DEF Handed, Worlds
<1> HIDE DEF m
<1>2. /\ m \in Worlds /\ m.owned = w.owned /\ m.online = w.online /\ m.record = w.record /\ m.estate = w.estate
      /\ m.past.moved = w.past.moved \cup {x} /\ m.past.late = (IF saving = "no" THEN {} ELSE {x})
      /\ m.past.paid = w.past.paid /\ m.past.spoilt = w.past.spoilt /\ m.past.rare = w.past.rare
  <2>1. /\ PastIs(w, Books(w.past, x), m)
        /\ Books(w.past, x).moved = w.past.moved \cup {x}
        /\ Books(w.past, x).late = IF saving = "no" THEN {} ELSE {x}
        /\ Books(w.past, x).paid = w.past.paid /\ Books(w.past, x).spoilt = w.past.spoilt
        /\ Books(w.past, x).rare = w.past.rare
    BY ONLY <1>1, w \in Worlds, w.past.late = {}, x \in Piece, BooksOK
  <2> QED
    BY ONLY <2>1 DEF PastIs
<1>3. /\ f \in Belongings /\ f.bag = w.owned[n].bag \ {x} /\ f.depot = w.owned[n].depot
      /\ o \in [Holder -> Belongings] /\ o[n] = f /\ \A k \in Holder \ {n} : o[k] = w.owned[k]
  BY ONLY <1>1, w \in Worlds DEF Worlds, Belongings
<1>4. OwnedIs(m, o, u)
  <2>1. u = [m EXCEPT !.owned = [m.owned EXCEPT ![n] = [m.owned[n] EXCEPT !.bag = @ \ {x}]]]
    BY ONLY <1>1
  <2>2. o = [m.owned EXCEPT ![n] = [m.owned[n] EXCEPT !.bag = @ \ {x}]]
    BY ONLY <1>2
  <2> HIDE DEF o
  <2>3. u = [m EXCEPT !.owned = o]
    BY ONLY <2>1, <2>2
  <2> QED
    BY ONLY <2>3, <1>2, <1>3, OwnedOK
<1> HIDE DEF f, o
<1>5. /\ u \in Worlds /\ u.owned = o /\ u.online = w.online /\ u.record = w.record /\ u.estate = w.estate
      /\ u.past = m.past
  BY ONLY <1>2, <1>4 DEF OwnedIs
<1>6. OnePlace(w) => OnePlace(u)
  BY ONLY <1>1, <1>2, <1>3, <1>5 DEF OnePlace
<1>7. \A y \in Piece \ {x} : Rests(w, u, y)
  <2>1. \A y \in Piece \ {x} : y \in All(f) <=> y \in All(w.owned[n])
    BY ONLY <1>3 DEF All
  <2>2. \A k \in Holder : Loaded(u, k) = IF k = n THEN f ELSE Loaded(w, k)
    <3>1. o[n] = f /\ \A k \in Holder \ {n} : o[k] = w.owned[k]
      BY ONLY <1>3
    <3>2. \A k : Loaded(u, k) = IF k \in w.online THEN o[k] ELSE w.record[k]
      BY ONLY <1>5 DEF Loaded
    <3> QED
      BY ONLY <3>1, <3>2, n \in w.online DEF Loaded
  <2>3. Loaded(w, n) = w.owned[n]
    BY ONLY n \in w.online DEF Loaded
  <2> QED
    BY ONLY <2>1, <2>2, <2>3, <1>5 DEF Rests, Has
<1> QED
  BY ONLY <1>2, <1>3, <1>5, <1>6, <1>7 DEF HandedIs

\* A parcel to a player whose record is not stored is lost.
LEMMA SendLostOK ==
  ASSUME StoreAssumption, NEW w \in Worlds, w.past.late = {}, OneStore(w), OnePlace(w), w.past.rare = past.rare, MayBe(1),
         NEW n \in w.online, NEW x \in Piece, NEW u, HandedIs(w, n, x, u), NEW v, v = Seldom(Spoils(u, {x}))
  PROVE  Shifted(w, v, {x})
<1> DEFINE h == [u.past EXCEPT !.spoilt = @ \cup {x}]
           t == Spoils(u, {x})
<1>1. /\ u \in Worlds /\ u.past.moved = w.past.moved \cup {x} /\ u.past.late = (IF saving = "no" THEN {} ELSE {x})
      /\ u.past.paid = w.past.paid /\ u.past.spoilt = w.past.spoilt /\ u.past.rare = past.rare
      /\ OnePlace(u) /\ \A y \in Piece \ {x} : Rests(w, u, y)
  BY ONLY HandedIs(w, n, x, u), OnePlace(w), w.past.rare = past.rare DEF HandedIs
<1>2. h \in Past /\ h.spoilt = u.past.spoilt \cup {x} /\ h.moved = u.past.moved /\ h.late = u.past.late
      /\ h.paid = u.past.paid /\ h.rare = u.past.rare
  BY ONLY <1>1, x \in Piece DEF Worlds, Past
<1>3. t = [u EXCEPT !.past = h]
  BY ONLY <1>1, {x} \in SUBSET Piece, SpoilsOK
<1>4. v = Seldom(t)
  OBVIOUS
<1> HIDE DEF h, t
<1>5. PastIs(u, h, t)
  BY ONLY <1>1, <1>2, <1>3, PastOK
<1>6. /\ t \in Worlds /\ t.past = h /\ \A k \in Holder : Has(t, k) = Has(u, k) /\ t.record[k] = u.record[k]
      /\ t.estate = u.estate /\ OnePlace(t)
  BY ONLY <1>1, <1>2, <1>5 DEF PastIs, Has, Loaded, OnePlace
<1>7. \A y \in Piece \ {x} : Rests(w, t, y)
  BY ONLY <1>1, <1>6 DEF Rests
<1>8. OneStore(t)
  <2>1. \A y \in Piece \ t.past.spoilt : Rests(w, t, y) /\ (y \in t.past.paid <=> y \in w.past.paid)
    BY ONLY <1>1, <1>2, <1>6, <1>7
  <2>2. w.past.spoilt \subseteq t.past.spoilt
    BY ONLY <1>1, <1>2, <1>6
  <2> QED
    BY ONLY <2>1, <2>2, <1>6, w \in Worlds, OneStore(w), StoreAssumption, OneStoreKept
<1>9. Shifted(w, t, {x})
  BY ONLY <1>1, <1>2, <1>6, <1>7, <1>8, x \in Piece DEF Shifted
<1>10. SameThings(t, v)
  BY ONLY <1>1, <1>2, <1>4, <1>6, StoreAssumption, MayBe(1), SeldomSame
<1> QED
  BY ONLY <1>9, <1>10, w \in Worlds, ShiftedSame

\* A parcel that arrives is in one store.
LEMMA SendGivenOK ==
  ASSUME StoreAssumption, NEW w \in Worlds, w.past.late = {}, OneStore(w), OnePlace(w),
         NEW n \in w.online, NEW to \in Holder, NEW x \in Piece, x \in w.owned[n].bag,
         NEW u, HandedIs(w, n, x, u), NEW v, v = PutBack(u, to, [Loaded(u, to) EXCEPT !.depot = @ \cup {x}], TRUE)
  PROVE  Shifted(w, v, {x})
<1> DEFINE e == Loaded(u, to)
           g == [e EXCEPT !.depot = @ \cup {x}]
<1>1. /\ u \in Worlds /\ u.online = w.online /\ u.record = w.record /\ u.estate = w.estate
      /\ u.past.moved = w.past.moved \cup {x} /\ u.past.late = (IF saving = "no" THEN {} ELSE {x})
      /\ u.past.paid = w.past.paid /\ u.past.spoilt = w.past.spoilt
      /\ u.owned[n].bag = w.owned[n].bag \ {x} /\ u.owned[n].depot = w.owned[n].depot
      /\ \A k \in Holder \ {n} : u.owned[k] = w.owned[k]
      /\ OnePlace(u) /\ \A y \in Piece \ {x} : Rests(w, u, y)
  BY ONLY HandedIs(w, n, x, u), OnePlace(w) DEF HandedIs
<1>2. n \in Holder /\ e \in Belongings
  BY ONLY <1>1, n \in w.online, to \in Holder, w \in Worlds, BelongingTyped DEF Worlds
<1>3. v = PutBack(u, to, g, TRUE)
  OBVIOUS
<1> HIDE DEF e
<1>4. g \in Belongings /\ g.bag = e.bag /\ g.depot = e.depot \cup {x} /\ All(g) = All(e) \cup {x}
  BY ONLY <1>2, x \in Piece DEF Belongings, All
<1> HIDE DEF g
<1>5. PutsBack(u, to, g, TRUE, v)
  BY ONLY <1>1, <1>3, <1>4, to \in Holder, TRUE \in BOOLEAN, PutBackOK
<1>6. /\ v \in Worlds /\ v.online = u.online /\ v.estate = u.estate /\ v.past = u.past
      /\ Loaded(v, to) = g
      /\ to \in u.online => v.record = u.record
      /\ to \notin u.online => v.owned = u.owned
      /\ \A k \in Holder \ {to} : Loaded(v, k) = Loaded(u, k) /\ v.record[k] = u.record[k] /\ v.owned[k] = u.owned[k]
      /\ v.owned[to] \in {u.owned[to], g} /\ v.record[to] \in {u.record[to], g}
  BY ONLY <1>5 DEF PutsBack
<1>7. n \in Where(w, x)
  BY ONLY <1>2, StoreAssumption, w \in Worlds, n \in w.online, x \in Piece, x \in w.owned[n].bag, StoresOf DEF Has, All, Loaded
<1>8. x \notin w.past.spoilt => \A k \in Holder : x \notin Has(u, k)
  <2> SUFFICES ASSUME x \notin w.past.spoilt, NEW k \in Holder PROVE x \notin Has(u, k)
    OBVIOUS
  <2>1. Where(w, x) = {n}
    BY ONLY <1>7, w \in Worlds, OneStore(w), x \in Piece, x \notin w.past.spoilt DEF OneStore
  <2>2. x \notin w.owned[n].depot
    BY ONLY <1>2, OnePlace(w), x \in Piece, x \notin w.past.spoilt, x \in w.owned[n].bag DEF OnePlace
  <2>3. CASE k = n
    <3>1. Loaded(u, k) = u.owned[n]
      BY ONLY <2>3, <1>1, n \in w.online DEF Loaded
    <3> QED
      BY ONLY <3>1, <2>2, <1>1 DEF Has, All
  <2>4. CASE k # n
    <3>1. k \notin Where(w, x)
      BY ONLY <2>1, <2>4
    <3>2. x \notin Has(w, k)
      BY ONLY <3>1, StoreAssumption, w \in Worlds, k \in Holder, x \in Piece, StoresOf
    <3>3. Loaded(u, k) = Loaded(w, k)
      BY ONLY <2>4, <1>1, k \in Holder DEF Loaded
    <3> QED
      BY ONLY <3>2, <3>3 DEF Has
  <2> QED
    BY ONLY <2>3, <2>4
<1>9. OnePlace(v)
  <2> SUFFICES ASSUME NEW y \in Piece \ v.past.spoilt, NEW k \in Holder
               PROVE  /\ y \in v.owned[k].bag => y \notin v.owned[k].depot
                      /\ y \in v.record[k].bag => y \notin v.record[k].depot
    BY DEF OnePlace
  <2>1. y \in Piece \ u.past.spoilt
    BY ONLY <1>6, y \in Piece \ v.past.spoilt
  <2>2. /\ \A j \in Holder : y \in u.owned[j].bag => y \notin u.owned[j].depot
        /\ \A j \in Holder : y \in u.record[j].bag => y \notin u.record[j].depot
    BY ONLY <1>1, <2>1 DEF OnePlace
  <2>3. e = u.owned[to] \/ e = u.record[to]
    BY ONLY TRUE DEF e, Loaded
  <2>4. y \in e.bag => y \notin e.depot
    BY ONLY <2>2, <2>3, to \in Holder
  <2>5. y = x => y \notin e.bag
    BY ONLY <1>1, <1>8, <2>1, to \in Holder DEF Has, All, e
  <2>6. y \in g.bag => y \notin g.depot
    BY ONLY <2>4, <2>5, <1>4
  <2>7. v.owned[k] \in {u.owned[k], g} /\ v.record[k] \in {u.record[k], g}
    BY ONLY <1>6, k \in Holder
  <2> QED
    BY ONLY <2>2, <2>6, <2>7, k \in Holder
<1>10. \A y \in Piece \ {x} : Rests(w, v, y)
  <2> TAKE y \in Piece \ {x}
  <2>1. Rests(w, u, y)
    BY ONLY <1>1, y \in Piece \ {x}
  <2>2. y \in All(g) <=> y \in All(e)
    BY ONLY <1>4, y \in Piece \ {x}
  <2>3. \A k \in Holder : y \in Has(v, k) <=> y \in Has(u, k)
    BY ONLY <2>2, <1>6 DEF Has, e
  <2>4. \A k \in Holder : y \in All(v.record[k]) <=> y \in All(u.record[k])
    <3> TAKE k \in Holder
    <3>1. CASE k # to \/ to \in u.online
      BY ONLY <3>1, <1>6, k \in Holder
    <3>2. CASE k = to /\ to \notin u.online
      <4>1. v.record[to] = g /\ e = u.record[to]
        BY ONLY <3>2, <1>6 DEF Loaded, e
      <4> QED
        BY ONLY <4>1, <3>2, <2>2
    <3> QED
      BY ONLY <3>1, <3>2
  <2> QED
    BY ONLY <2>1, <2>3, <2>4, <1>6 DEF Rests
<1>11. ASSUME x \notin v.past.spoilt, NEW k \in Holder \cup {NoHolder} PROVE k \in Where(v, x) <=> k = to
  <2>1. \A j \in Holder : x \notin Has(u, j)
    BY ONLY <1>1, <1>6, <1>8, <1>11
  <2>2. \A j \in Holder : x \in Has(v, j) <=> j = to
    BY ONLY <2>1, <1>4, <1>6, to \in Holder DEF Has
  <2>3. x \notin v.estate.floor
    <3>1. Where(w, x) = {n}
      BY ONLY <1>1, <1>6, <1>7, <1>11, OneStore(w), x \in Piece DEF OneStore
    <3>2. NoHolder \notin Where(w, x)
      BY ONLY <3>1, <1>2, StoreAssumption DEF StoreAssumption
    <3>3. x \notin w.estate.floor
      BY ONLY <3>2, StoreAssumption, w \in Worlds, x \in Piece, StoresOf
    <3> QED
      BY ONLY <3>3, <1>1, <1>6
  <2>4. k \in Where(v, x) <=> (k \in Holder /\ x \in Has(v, k)) \/ (k = NoHolder /\ x \in v.estate.floor)
    BY ONLY <1>6, StoreAssumption, x \in Piece, StoresOf
  <2> QED
    BY ONLY <2>2, <2>3, <2>4, to \in Holder
<1> QED
  <2>1. /\ v.past.moved = w.past.moved \cup {x} /\ v.past.late = IF saving = "no" THEN {} ELSE {x}
    BY ONLY <1>1, <1>6
  <2>2. v.past.paid = w.past.paid /\ w.past.spoilt \subseteq v.past.spoilt
    BY ONLY <1>1, <1>6
  <2>3. n \in Holder \cup {NoHolder} /\ to \in Holder \cup {NoHolder}
    BY ONLY <1>2, to \in Holder
  <2>4. x \notin v.past.spoilt => \A k \in Holder \cup {NoHolder} : k \in Where(v, x) <=> k = to
    BY ONLY <1>11
  <2> QED
    BY ONLY <2>1, <2>2, <2>3, <2>4, <1>6, <1>7, <1>9, <1>10, StoreAssumption, w \in Worlds, w.past.late = {}, OneStore(w),
            x \in Piece, CarriedOK

LEMMA SendItemOK ==
  ASSUME StoreAssumption, StoreInv, NEW n \in Holder, NEW to \in Holder, NEW x \in Piece, NEW ok \in BOOLEAN,
         SendItem(n, to, x, ok)
  PROVE  StoreInv'
<1> DEFINE w == World
           u == Handed(w, n, x)
           p == PutBack(u, to, [Loaded(u, to) EXCEPT !.depot = @ \cup {x}], ok)
           v == IF ok THEN p ELSE Seldom(Spoils(p, {x}))
<1>1. /\ Becomes(v) /\ UNCHANGED <<stored, saving>> /\ saving = "no" /\ n \in online /\ x \in owned[n].bag
      /\ ok \/ (to \notin online /\ MayBe(1))
  BY DEF SendItem, Handed
<1>2. /\ w \in Worlds /\ w.past.late = {} /\ OneStore(w) /\ OnePlace(w) /\ WorldInv(w, stored, saving)
      /\ w.owned = owned /\ w.online = online /\ w.past = past
  BY StoreInvParts
<1>3. u = Handed(w, n, x) /\ p = PutBack(u, to, [Loaded(u, to) EXCEPT !.depot = @ \cup {x}], ok)
  OBVIOUS
<1> HIDE DEF w, u, p
<1>4. HandedIs(w, n, x, u)
  BY ONLY <1>1, <1>2, <1>3, x \in Piece, HandedOK
<1>5. Shifted(w, v, {x})
  <2>1. CASE ok = TRUE
    <3>1. p = PutBack(u, to, [Loaded(u, to) EXCEPT !.depot = @ \cup {x}], TRUE)
      BY ONLY <2>1, <1>3
    <3>2. Shifted(w, p, {x})
      BY ONLY <3>1, <1>1, <1>2, <1>4, StoreAssumption, to \in Holder, x \in Piece, SendGivenOK
    <3> QED
      BY ONLY <3>2, <2>1
  <2>2. CASE ok = FALSE
    <3>1. u.online = w.online
      BY ONLY <1>4 DEF HandedIs
    <3>2. p = u
      BY ONLY <2>2, <1>1, <1>2, <1>3, <3>1 DEF PutBack
    <3>3. v = Seldom(Spoils(u, {x}))
      BY ONLY <2>2, <3>2
    <3> HIDE DEF v
    <3> QED
      BY ONLY <3>3, <2>2, <1>1, <1>2, <1>4, StoreAssumption, x \in Piece, SendLostOK
  <2> QED
    BY ONLY <2>1, <2>2, ok \in BOOLEAN
<1> HIDE DEF v
<1> QED
  <2>1. WorldInv(v, stored, saving)
    BY ONLY <1>1, <1>2, <1>5, StoreAssumption, ShiftedInv
  <2> QED
    BY ONLY <2>1, <1>1, HandlerOK

\* The world in which something that happens seldom is about to happen.
LEMMA SeldomWorld ==
  ASSUME StoreAssumption, StoreInv, MayBe(1), NEW w, w = Seldom(World)
  PROVE  /\ SameThings(World, w) /\ WorldInv(w, stored, saving)
         /\ w \in Worlds /\ w.past.late = {} /\ OneStore(w) /\ OnePlace(w)
<1>1. World \in Worlds /\ World.past = past /\ WorldInv(World, stored, saving)
  BY StoreInvParts
<1>2. SameThings(World, w)
  <2>1. World.past.rare = past.rare
    BY ONLY <1>1
  <2> QED
    BY ONLY <2>1, <1>1, StoreAssumption, MayBe(1), w = Seldom(World), SeldomSame
<1>3. WorldInv(w, stored, saving)
  BY ONLY <1>1, <1>2, SameInv
<1> QED
  BY ONLY <1>2, <1>3 DEF WorldInv

LEMMA ChangeOwnerOK ==
  ASSUME StoreAssumption, StoreInv, NEW n \in Holder \cup {NoHolder}, NEW ok \in BOOLEAN, ChangeOwner(n, ok)
  PROVE  StoreInv'
<1> DEFINE w == Seldom(World)
           v == OwnedBy(w, n, ok)
<1>1. Becomes(v) /\ UNCHANGED <<stored, saving>> /\ saving = "no" /\ MayBe(1)
  BY DEF ChangeOwner
<1>2. /\ w \in Worlds /\ w.past.late = {} /\ OneStore(w) /\ OnePlace(w) /\ WorldInv(w, stored, saving)
  BY ONLY <1>1, StoreAssumption, StoreInv, SeldomWorld
<1>3. v = OwnedBy(w, n, ok)
  OBVIOUS
<1> HIDE DEF v, w
<1>4. PICK S : Shifted(w, v, S)
  BY ONLY <1>2, <1>3, StoreAssumption, n \in Holder \cup {NoHolder}, ok \in BOOLEAN, OwnedByOK
<1>5. WorldInv(v, stored, saving)
  BY ONLY <1>1, <1>2, <1>4, StoreAssumption, ShiftedInv
<1> QED
  BY ONLY <1>1, <1>5, HandlerOK

LEMMA PayHousesOK ==
  ASSUME StoreAssumption, StoreInv, NEW ok \in BOOLEAN, PayHouses(ok)
  PROVE  StoreInv'
<1> DEFINE w == Seldom(World)
           v == Rented(w, TRUE, ok)
<1>1. Becomes(v) /\ UNCHANGED <<stored, saving>> /\ saving = "no" /\ MayBe(1)
  BY DEF PayHouses
<1>2. /\ w \in Worlds /\ w.past.late = {} /\ OneStore(w) /\ OnePlace(w) /\ WorldInv(w, stored, saving)
  BY ONLY <1>1, StoreAssumption, StoreInv, SeldomWorld
<1>3. v = Rented(w, TRUE, ok)
  OBVIOUS
<1> HIDE DEF v, w
<1>4. PICK S : Shifted(w, v, S)
  BY ONLY <1>2, <1>3, StoreAssumption, TRUE \in BOOLEAN, ok \in BOOLEAN, RentedOK
<1>5. WorldInv(v, stored, saving)
  BY ONLY <1>1, <1>2, <1>4, StoreAssumption, ShiftedInv
<1> QED
  BY ONLY <1>1, <1>5, HandlerOK

LEMMA RentFallsDueOK ==
  ASSUME StoreAssumption, StoreInv, RentFallsDue
  PROVE  StoreInv'
<1> DEFINE w == Seldom(World)
           b == [w.estate EXCEPT !.due = TRUE]
           v == [w EXCEPT !.estate.due = TRUE]
<1>1. Becomes(v) /\ UNCHANGED <<stored, saving>> /\ saving = "no" /\ MayBe(1)
  BY DEF RentFallsDue
<1>2. w \in Worlds /\ WorldInv(w, stored, saving)
  BY ONLY <1>1, StoreAssumption, StoreInv, SeldomWorld
<1> HIDE DEF w
<1>3. b \in Building /\ b.floor = w.estate.floor
  BY ONLY <1>2 DEF Worlds, Building
<1>4. v = [w EXCEPT !.estate = b]
  OBVIOUS
<1> HIDE DEF v, b
<1>5. EstateIs(w, b, v)
  BY ONLY <1>2, <1>3, <1>4, EstateOK
<1>6. SameThings(w, v)
  BY ONLY <1>3, <1>5 DEF EstateIs, SameThings
<1>7. WorldInv(v, stored, saving)
  BY ONLY <1>2, <1>6, SameInv
<1> QED
  BY ONLY <1>1, <1>7, HandlerOK

\* When the players have been stored, so has what they own.
LEMMA SavePlayersOK ==
  ASSUME StoreAssumption, StoreInv, SavePlayers
  PROVE  StoreInv'
<1> DEFINE w == Seldom(World)
           r == [n \in Holder |-> IF n \in w.online THEN w.owned[n] ELSE w.record[n]]
           v == [w EXCEPT !.record = r]
<1>1. saving = "no" /\ MayBe(1) /\ saving' = "players" /\ stored' = stored
      /\ Becomes([w EXCEPT !.record = [n \in Holder |-> IF n \in online THEN owned[n] ELSE @[n]]])
  BY DEF SavePlayers
<1>2. /\ SameThings(World, w) /\ WorldInv(w, stored, saving)
  BY ONLY <1>1, StoreAssumption, StoreInv, SeldomWorld
<1> HIDE DEF w
<1>3. /\ w \in Worlds /\ w.past.late = {} /\ OneStore(w) /\ OnePlace(w) /\ Recalled(w, stored) /\ stored \in Building
      /\ w.owned = owned /\ w.online = online
  <2>1. World.owned = owned /\ World.online = online
    BY StoreInvParts
  <2> QED
    BY ONLY <2>1, <1>2 DEF WorldInv, SameThings
<1>4. Becomes(v)
  <2>1. r = [n \in Holder |-> IF n \in online THEN owned[n] ELSE w.record[n]]
    BY ONLY <1>3
  <2>2. v = [w EXCEPT !.record = [n \in Holder |-> IF n \in online THEN owned[n] ELSE @[n]]]
    BY ONLY <2>1
  <2> HIDE DEF v
  <2> QED
    BY ONLY <2>2, <1>1
<1>5. r \in [Holder -> Belongings] /\ \A n \in Holder : r[n] = Loaded(w, n)
  BY ONLY <1>3 DEF Worlds, Loaded
<1>6. v = [w EXCEPT !.record = r]
  OBVIOUS
<1> HIDE DEF v, r
<1>7. /\ v \in Worlds /\ v.owned = w.owned /\ v.online = w.online /\ v.record = r /\ v.estate = w.estate /\ v.past = w.past
  BY ONLY <1>3, <1>5, <1>6 DEF Worlds
<1>8. \A n \in Holder : Loaded(v, n) = Loaded(w, n) /\ v.record[n] = Loaded(w, n)
  BY ONLY <1>5, <1>7 DEF Loaded
<1>9. \A x \in Piece : Where(v, x) = Where(w, x)
  <2> TAKE x \in Piece
  <2>1. \A k : k \in Where(v, x) <=> k \in Where(w, x)
    BY ONLY <1>3, <1>7, <1>8, StoreAssumption, x \in Piece, StoresOf DEF Has
  <2> QED
    BY ONLY <2>1
<1>10. OneStore(v)
  BY ONLY <1>3, <1>7, <1>9 DEF OneStore
<1>11. OnePlace(v)
  BY ONLY <1>3, <1>7, <1>8 DEF OnePlace, Loaded
<1>12. Recalled(v, stored)
  <2> SUFFICES ASSUME NEW x \in Piece \ (v.past.moved \cup v.past.spoilt) PROVE WhereStored(v, stored, x) = Where(v, x)
    BY DEF Recalled
  <2>1. x \in Piece /\ WhereStored(w, stored, x) = Where(w, x)
    BY ONLY <1>3, <1>7, x \in Piece \ (v.past.moved \cup v.past.spoilt) DEF Recalled
  <2>2. x \in stored.floor <=> x \in w.estate.floor
    <3>1. NoHolder \in WhereStored(w, stored, x) <=> x \in stored.floor
      BY ONLY <2>1, <1>3, StoreAssumption, StoredStoresOf DEF StoreAssumption
    <3>2. NoHolder \in Where(w, x) <=> x \in w.estate.floor
      BY ONLY <2>1, <1>3, StoreAssumption, StoresOf DEF StoreAssumption
    <3> QED
      BY ONLY <2>1, <3>1, <3>2
  <2>3. \A k : k \in WhereStored(v, stored, x) <=> k \in Where(v, x)
    <3>1. \A k : k \in WhereStored(v, stored, x) <=>
                   (k \in Holder /\ x \in All(v.record[k])) \/ (k = NoHolder /\ x \in stored.floor)
      BY ONLY <2>1, <1>3, <1>7, StoreAssumption, StoredStoresOf
    <3>2. \A k : k \in Where(v, x) <=> (k \in Holder /\ x \in Has(v, k)) \/ (k = NoHolder /\ x \in v.estate.floor)
      BY ONLY <2>1, <1>7, StoreAssumption, StoresOf
    <3> QED
      BY ONLY <3>1, <3>2, <2>2, <1>7, <1>8 DEF Has
  <2> QED
    BY ONLY <2>3
<1>13. Halfway(v, stored, "players")
  BY ONLY <1>3, <1>7, <1>8 DEF Halfway, Loaded, Worlds
<1>14. WorldInv(v, stored, "players")
  BY ONLY <1>3, <1>7, <1>10, <1>11, <1>12, <1>13 DEF WorldInv
<1> QED
  <2>1. World' = v
    BY ONLY <1>4, <1>7, BecomesWorld
  <2> QED
    BY ONLY <2>1, <1>1, <1>14 DEF StoreInv

\* The rent that is paid on the way moves things after the players have been stored.
LEMMA SaveTilesOK ==
  ASSUME StoreAssumption, StoreInv, SaveTiles
  PROVE  StoreInv'
<1> DEFINE w == World
           t == Rented(World, FALSE, TRUE)
           s == [stored EXCEPT !.floor = t.estate.floor]
           v == [t EXCEPT !.past.moved = t.past.late, !.past.late = {}]
           h == [t.past EXCEPT !.moved = t.past.late, !.late = {}]
<1>1. saving = "players" /\ saving' = "map" /\ Becomes(v) /\ stored' = s
  BY DEF SaveTiles
<1>2. /\ w \in Worlds /\ w.past.late = {} /\ OneStore(w) /\ OnePlace(w) /\ stored \in Building
      /\ \A n \in w.online : w.record[n] = w.owned[n]
  <2>1. WorldInv(World, stored, saving)
    BY StoreInvParts
  <2> QED
    BY ONLY <2>1, <1>1 DEF WorldInv, Halfway
<1>3. t = Rented(w, FALSE, TRUE)
  OBVIOUS
<1> HIDE DEF t, w
<1>4. PICK S : Shifted(w, t, S)
  BY ONLY <1>2, <1>3, StoreAssumption, FALSE \in BOOLEAN, TRUE \in BOOLEAN, RentedOK
<1>5. /\ t \in Worlds /\ t.past.late = S /\ S \subseteq Piece /\ OneStore(t) /\ OnePlace(t)
      /\ \A x \in Piece \ (S \cup t.past.spoilt) : Rests(w, t, x)
  BY ONLY <1>1, <1>4 DEF Shifted
<1>6. h \in Past /\ h.paid = t.past.paid /\ h.spoilt = t.past.spoilt /\ h.moved = S /\ h.late = {}
  BY ONLY <1>5 DEF Worlds, Past
<1>7. v = [t EXCEPT !.past = h]
  BY ONLY <1>5 DEF Worlds, Past
<1>8. s \in Building /\ s.floor = t.estate.floor
  BY ONLY <1>2, <1>5 DEF Worlds, Building
<1> HIDE DEF v, h, s
<1>9. /\ v \in Worlds /\ v.owned = t.owned /\ v.online = t.online /\ v.record = t.record
      /\ v.estate = t.estate /\ v.past = h
  BY ONLY <1>5, <1>6, <1>7, PastOK DEF PastIs
<1>10. \A x : Where(v, x) = Where(t, x)
  BY ONLY <1>9 DEF Where
<1>11. OneStore(v)
  BY ONLY <1>5, <1>6, <1>9, <1>10 DEF OneStore
<1>12. OnePlace(v)
  BY ONLY <1>5, <1>6, <1>9 DEF OnePlace
<1>13. Recalled(v, s)
  <2> SUFFICES ASSUME NEW x \in Piece \ (v.past.moved \cup v.past.spoilt) PROVE WhereStored(v, s, x) = Where(v, x)
    BY DEF Recalled
  <2>1. x \in Piece /\ Rests(w, t, x)
    BY ONLY <1>5, <1>6, <1>9, x \in Piece \ (v.past.moved \cup v.past.spoilt)
  <2>2. \A k \in Holder : x \in All(v.record[k]) <=> x \in Has(v, k)
    <3> TAKE k \in Holder
    <3>1. w.record[k] = Loaded(w, k)
      BY ONLY <1>2, k \in Holder DEF Loaded
    <3>2. x \in All(t.record[k]) <=> x \in Has(t, k)
      BY ONLY <2>1, <3>1, k \in Holder DEF Rests, Has
    <3> QED
      BY ONLY <3>2, <1>9 DEF Has, Loaded
  <2>3. \A k : k \in WhereStored(v, s, x) <=> (k \in Holder /\ x \in All(v.record[k])) \/ (k = NoHolder /\ x \in s.floor)
    BY ONLY <2>1, <1>8, <1>9, StoreAssumption, StoredStoresOf
  <2>4. \A k : k \in Where(v, x) <=> (k \in Holder /\ x \in Has(v, k)) \/ (k = NoHolder /\ x \in v.estate.floor)
    BY ONLY <2>1, <1>9, StoreAssumption, StoresOf
  <2>5. \A k : k \in WhereStored(v, s, x) <=> k \in Where(v, x)
    BY ONLY <2>2, <2>3, <2>4, <1>8, <1>9
  <2> QED
    BY ONLY <2>5
<1>14. WorldInv(v, s, "map")
  BY ONLY <1>6, <1>8, <1>9, <1>11, <1>12, <1>13 DEF WorldInv, Halfway
<1> QED
  <2>1. World' = v
    BY ONLY <1>1, <1>9, BecomesWorld
  <2> QED
    BY ONLY <2>1, <1>1, <1>14 DEF StoreInv

\* The floor has been stored before the owner of the house is.
LEMMA SaveHouseInfoOK ==
  ASSUME StoreAssumption, StoreInv, SaveHouseInfo
  PROVE  StoreInv'
<1> DEFINE w == World
<1>1. saving = "map" /\ saving' = "no" /\ stored' = estate /\ World' = w
  BY DEF SaveHouseInfo, World
<1>2. WorldInv(w, stored, saving) /\ w.estate = estate /\ estate \in Building
  BY StoreInvParts
<1> HIDE DEF w
<1>3. /\ w \in Worlds /\ w.past.late = {} /\ OneStore(w) /\ OnePlace(w) /\ Recalled(w, stored)
      /\ stored \in Building /\ stored.floor = estate.floor
  BY ONLY <1>1, <1>2 DEF WorldInv, Halfway
<1>4. Recalled(w, estate)
  <2>1. \A x : WhereStored(w, estate, x) = WhereStored(w, stored, x)
    BY ONLY <1>3 DEF WhereStored
  <2> QED
    BY ONLY <2>1, <1>3 DEF Recalled
<1>5. WorldInv(w, estate, "no")
  BY ONLY <1>2, <1>3, <1>4 DEF WorldInv, Halfway
<1> QED
  BY ONLY <1>1, <1>5 DEF StoreInv

\* After a crash things are where they were stored; those that were elsewhere are spoilt.
LEMMA CrashOK ==
  ASSUME StoreAssumption, StoreInv, Crash
  PROVE  StoreInv'
<1> DEFINE w == World
           none == [n \in Holder |-> Nothing]
           h == [w.past EXCEPT !.rare = @ + 1, !.moved = {}, !.late = {}]
           lost == {x \in Piece : WhereStored(w, stored, x) # Where(w, x)}
           u == [owned |-> none, online |-> {}, record |-> w.record, estate |-> stored, past |-> h]
           v == Spoils(u, lost)
           g == [h EXCEPT !.spoilt = @ \cup lost]
<1>1. /\ w \in Worlds /\ OneStore(w) /\ OnePlace(w) /\ w.past.late = {} /\ stored \in Building /\ w.past = past
      /\ past \in Past
  BY StoreInvParts
<1>2. saving' = "no" /\ stored' = stored /\ MayBe(1) /\ Becomes(v)
  <2>1. PICK z : z = [Seldom(w) EXCEPT !.owned = none, !.online = {}, !.estate = stored, !.past.moved = {}, !.past.late = {}]
    OBVIOUS
  <2>2. Becomes(Spoils(z, lost)) /\ saving' = "no" /\ stored' = stored /\ MayBe(1)
    BY <2>1 DEF Crash
  <2> HIDE DEF w, none
  <2>3. z = u
    <3>1. \A y \in Worlds : [y EXCEPT !.past.rare = @ + 1] = [y EXCEPT !.past = [y.past EXCEPT !.rare = @ + 1]]
      OBVIOUS
    <3>2. PICK a : a = Seldom(w)
      OBVIOUS
    <3>3. a = [owned |-> w.owned, online |-> w.online, record |-> w.record, estate |-> w.estate,
               past |-> [w.past EXCEPT !.rare = @ + 1]]
      BY ONLY <3>1, <3>2, <1>1 DEF Seldom, Worlds
    <3>4. z = [[[[[a EXCEPT !.owned = none] EXCEPT !.online = {}] EXCEPT !.estate = stored]
                     EXCEPT !.past.moved = {}] EXCEPT !.past.late = {}]
      BY ONLY <2>1, <3>2
    <3>5. z = [owned |-> none, online |-> {}, record |-> w.record, estate |-> stored,
               past |-> [[[w.past EXCEPT !.rare = @ + 1] EXCEPT !.moved = {}] EXCEPT !.late = {}]]
      BY ONLY <3>3, <3>4
    <3> QED
      BY ONLY <3>5
  <2> QED
    BY ONLY <2>2, <2>3
<1> HIDE DEF w, lost
<1>3. lost \in SUBSET Piece
  BY DEF lost
<1>4. /\ h \in Past /\ h.paid = w.past.paid /\ h.spoilt = w.past.spoilt /\ h.moved = {} /\ h.late = {}
  <2>1. PICK q : q = [past EXCEPT !.rare = @ + 1]
    OBVIOUS
  <2>2. q \in Past /\ q.paid = past.paid /\ q.spoilt = past.spoilt
    BY ONLY <2>1, <1>1, <1>2, StoreAssumption DEF Past, MayBe, StoreAssumption
  <2>3. h = [q EXCEPT !.moved = {}, !.late = {}]
    BY ONLY <2>1, <1>1
  <2> HIDE DEF h
  <2> QED
    BY ONLY <2>2, <2>3, <1>1 DEF Past
<1> HIDE DEF h
<1>5. none \in [Holder -> Belongings]
  BY ONLY TRUE DEF Nothing, Belongings
<1>6. u \in Worlds /\ u.past = h
  BY ONLY <1>1, <1>4, <1>5 DEF Worlds
<1>7. g \in Past /\ g.paid = h.paid /\ g.spoilt = h.spoilt \cup lost /\ g.moved = h.moved /\ g.late = h.late
  BY ONLY <1>3, <1>4 DEF Past
<1>8. /\ v \in Worlds /\ v.owned = none /\ v.online = {} /\ v.record = w.record /\ v.estate = stored /\ v.past = g
  <2>1. u.owned = none /\ u.online = {} /\ u.record = w.record /\ u.estate = stored
    OBVIOUS
  <2>2. v = [u EXCEPT !.past = g]
    BY ONLY <1>3, <1>6, SpoilsOK
  <2> HIDE DEF u, v, g, none
  <2>3. PastIs(u, g, v)
    BY ONLY <2>2, <1>6, <1>7, PastOK
  <2> QED
    BY ONLY <2>1, <2>3 DEF PastIs
<1> HIDE DEF u, v, g
<1>9. \A x \in Piece : Where(v, x) = WhereStored(w, stored, x) /\ WhereStored(v, stored, x) = WhereStored(w, stored, x)
  BY ONLY <1>8 DEF Where, WhereStored
<1>10. \A x \in Piece \ v.past.spoilt : x \notin w.past.spoilt /\ WhereStored(w, stored, x) = Where(w, x)
  BY <1>4, <1>7, <1>8 DEF lost
<1>11. OneStore(v)
  BY ONLY <1>1, <1>4, <1>7, <1>8, <1>9, <1>10 DEF OneStore
<1>12. OnePlace(v)
  BY ONLY <1>1, <1>8, <1>10 DEF OnePlace, Nothing
<1>13. Recalled(v, stored)
  BY ONLY <1>9 DEF Recalled
<1>14. WorldInv(v, stored, "no")
  BY ONLY <1>1, <1>4, <1>7, <1>8, <1>11, <1>12, <1>13 DEF WorldInv, Halfway
<1> QED
  <2>1. World' = v
    BY ONLY <1>2, <1>8, BecomesWorld
  <2> QED
    BY ONLY <2>1, <1>2, <1>14 DEF StoreInv

LEMMA StoreInitOK ==
  ASSUME StoreAssumption, StoreInit
  PROVE  StoreInv
<1> DEFINE w == World
<1>1. PICK has \in [Piece -> Holder] :
         record = [p \in Holder |-> [Nothing EXCEPT !.bag = {x \in Piece : has[x] = p}]]
  BY DEF StoreInit
<1>2. estate \in Building /\ estate.floor = {} /\ stored = estate /\ saving = "no" /\ online = {}
  BY DEF StoreInit, StoreAssumption, Building
<1>3. past \in Past /\ past.paid = {} /\ past.moved = {} /\ past.late = {} /\ past.spoilt = {}
  BY DEF StoreInit, StoreAssumption, Past
<1>4. owned \in [Holder -> Belongings] /\ \A p \in Holder : owned[p] = Nothing
  BY DEF StoreInit, Belongings, Nothing
<1>5. /\ record \in [Holder -> Belongings]
      /\ \A p \in Holder : record[p].bag = {x \in Piece : has[x] = p} /\ record[p].depot = {}
  BY ONLY <1>1 DEF Belongings, Nothing
<1>6. w \in Worlds /\ w.owned = owned /\ w.online = online /\ w.record = record /\ w.estate = estate /\ w.past = past
  BY ONLY <1>2, <1>3, <1>4, <1>5 DEF Worlds, World
<1>7. StoreInv <=> WorldInv(w, stored, saving)
  BY <1>2 DEF StoreInv
<1> HIDE DEF w
<1>8. \A x \in Piece : Where(w, x) = {has[x]} /\ WhereStored(w, stored, x) = {has[x]}
  <2> TAKE x \in Piece
  <2>1. has[x] \in Holder
    BY ONLY <1>1, x \in Piece
  <2>2. \A n \in Holder : x \in All(record[n]) <=> n = has[x]
    BY ONLY <1>5, x \in Piece DEF All
  <2>3. Where(w, x) = {n \in Holder : x \in All(record[n])} /\ WhereStored(w, stored, x) = {n \in Holder : x \in All(record[n])}
    BY ONLY <1>2, <1>6 DEF Where, WhereStored
  <2> QED
    BY ONLY <2>1, <2>2, <2>3
<1>9. OneStore(w)
  <2>1. \A x \in Piece : has[x] \in Holder \cup {NoHolder}
    BY ONLY <1>1
  <2> QED
    BY ONLY <2>1, <1>3, <1>6, <1>8 DEF OneStore
<1>10. OnePlace(w)
  BY ONLY <1>4, <1>5, <1>6 DEF OnePlace, Nothing
<1>11. Recalled(w, stored)
  BY ONLY <1>8 DEF Recalled
<1> QED
  BY ONLY <1>2, <1>3, <1>6, <1>7, <1>9, <1>10, <1>11 DEF WorldInv, Halfway

\* Every step keeps the invariant.
LEMMA StoreNextOK ==
  ASSUME StoreAssumption, StoreInv, [StoreNext]_storeVars
  PROVE  StoreInv'
<1>1. ASSUME NEW n \in Holder, Load(n) PROVE StoreInv'
  BY ONLY <1>1, StoreAssumption, StoreInv, LoadOK
<1>2. ASSUME NEW n \in Holder, NEW ok \in BOOLEAN, Disconnect(n, ok) PROVE StoreInv'
  <2>1. CASE ok = TRUE
    BY ONLY <1>2, <2>1, StoreAssumption, StoreInv, DisconnectSavedOK
  <2>2. CASE ok = FALSE
    BY ONLY <1>2, <2>2, StoreAssumption, StoreInv, DisconnectFailedOK
  <2> QED
    BY ONLY <2>1, <2>2, ok \in BOOLEAN
<1>3. ASSUME NEW n \in Holder, NEW x \in Piece, Drop(n, x) \/ PickUp(n, x) \/ Shelve(n, x) PROVE StoreInv'
  BY ONLY <1>3, StoreAssumption, StoreInv, DropOK, PickUpOK, ShelveOK
<1>4. ASSUME NEW n \in Holder, NEW to \in Holder, NEW x \in Piece, NEW ok \in BOOLEAN, SendItem(n, to, x, ok) PROVE StoreInv'
  BY ONLY <1>4, StoreAssumption, StoreInv, SendItemOK
<1>5. ASSUME NEW n \in Holder \cup {NoHolder}, NEW ok \in BOOLEAN, ChangeOwner(n, ok) PROVE StoreInv'
  BY ONLY <1>5, StoreAssumption, StoreInv, ChangeOwnerOK
<1>6. CASE RentFallsDue
  BY ONLY <1>6, StoreAssumption, StoreInv, RentFallsDueOK
<1>7. ASSUME NEW ok \in BOOLEAN, PayHouses(ok) PROVE StoreInv'
  BY ONLY <1>7, StoreAssumption, StoreInv, PayHousesOK
<1>8. CASE SavePlayers
  BY ONLY <1>8, StoreAssumption, StoreInv, SavePlayersOK
<1>9. CASE SaveTiles
  BY ONLY <1>9, StoreAssumption, StoreInv, SaveTilesOK
<1>10. CASE SaveHouseInfo
  BY ONLY <1>10, StoreAssumption, StoreInv, SaveHouseInfoOK
<1>11. CASE Crash
  BY ONLY <1>11, StoreAssumption, StoreInv, CrashOK
<1>12. CASE UNCHANGED storeVars
  <2>1. World' = World /\ stored' = stored /\ saving' = saving
    BY ONLY <1>12 DEF storeVars, World
  <2> QED
    BY ONLY <2>1, StoreInv DEF StoreInv
<1> QED
  BY ONLY <1>1, <1>2, <1>3, <1>4, <1>5, <1>6, <1>7, <1>8, <1>9, <1>10, <1>11, <1>12, [StoreNext]_storeVars DEF StoreNext

\* The invariant is stronger than the property.
LEMMA StoreInvKeeps ==
  ASSUME StoreAssumption, StoreInv
  PROVE  BelongingsKept
<1> SUFFICES ASSUME NEW x \in Piece \ past.spoilt
             PROVE  /\ Cardinality(Where(World, x)) = (IF x \in past.paid THEN 0 ELSE 1)
                    /\ x \notin past.moved => WhereStored(World, stored, x) = Where(World, x)
  BY DEF BelongingsKept
<1>1. OneStore(World) /\ Recalled(World, stored) /\ World.past = past
  BY StoreInvParts
<1>2. CASE x \in past.paid
  <2>1. Where(World, x) = {}
    BY ONLY <1>1, <1>2, x \in Piece \ past.spoilt DEF OneStore
  <2> QED
    BY <2>1, <1>1, <1>2, FS_EmptySet DEF Recalled
<1>3. CASE x \notin past.paid
  <2>1. PICK n \in Holder \cup {NoHolder} : Where(World, x) = {n}
    BY ONLY <1>1, <1>3, x \in Piece \ past.spoilt DEF OneStore
  <2> QED
    BY <2>1, <1>1, <1>3, FS_Singleton DEF Recalled
<1> QED
  BY <1>2, <1>3

\* A thing that was not spoilt is in one store, or spent, and where a restart finds it
\* unless it has moved since the last save of the server: Stores!BelongingsKept, for any
\* number of players and things, through mail, rents, changes of owners, saves and crashes.
THEOREM BelongingsKeptHolds == StoreSpec => []BelongingsKept
<1>1. StoreInit => StoreInv
  BY StoreAssumption, StoreInitOK
<1>2. StoreInv /\ [StoreNext]_storeVars => StoreInv'
  BY StoreAssumption, StoreNextOK
<1>3. StoreInv => BelongingsKept
  BY StoreAssumption, StoreInvKeeps
<1> QED
  BY <1>1, <1>2, <1>3, PTL DEF StoreSpec

-----------------------------------------------------------------------------
(* Beds.                                                                    *)

\* The ids of a bed: the taken one leads back to the empty one, and looks the same way.
LEMMA BedLooks ==
  ASSUME NEW h \in Heads
  PROVE  /\ \A i \in {h, h + 1} :
              /\ i \in HalfId /\ OccupiedId(i) \in HalfId /\ ~ Taken(i) /\ Taken(OccupiedId(i))
              /\ OccupiedId(OccupiedId(i)) = OccupiedId(i)
              /\ EmptyId(OccupiedId(i)) = i /\ EmptyId(i) = i
         /\ Direction(OccupiedId(h)) = Direction(h)
<1>1. h \in {1754, 1756, 1758, 1760}
  BY DEF Heads
<1>2. CASE h = 1754
  BY <1>2 DEF HalfId, OccupiedId, EmptyId, Taken, Direction
<1>3. CASE h = 1756
  BY <1>3 DEF HalfId, OccupiedId, EmptyId, Taken, Direction
<1>4. CASE h = 1758
  BY <1>4 DEF HalfId, OccupiedId, EmptyId, Taken, Direction
<1>5. CASE h = 1760
  BY <1>5 DEF HalfId, OccupiedId, EmptyId, Taken, Direction
<1> QED
  BY <1>1, <1>2, <1>3, <1>4, <1>5

\* A bed has one of its two looks, and the one that tells of its sleeper.
BedRight(w, b) ==
    /\ w.head[b] \in {HeadId[b], OccupiedId(HeadId[b])}
    /\ w.foot[b] \in {HeadId[b] + 1, OccupiedId(HeadId[b] + 1)}
    /\ Taken(w.head[b]) <=> (w.sleeper[b] # Empty \/ b \in w.ghosts)
    /\ Direction(HeadId[b]) = Lies[b] => (Taken(w.foot[b]) <=> Taken(w.head[b]))

\* Both halves change together, those of other beds stay.
LEMMA MadeIs ==
  ASSUME BedAssumption, NEW w \in Beds, NEW b \in Bed, BedRight(w, b), NEW taken \in BOOLEAN
  PROVE  LET v == Made(w, b, taken) IN
         /\ v \in Beds /\ v.sleeper = w.sleeper /\ v.since = w.since /\ v.ghosts = w.ghosts
         /\ \A c \in Bed \ {b} : v.head[c] = w.head[c] /\ v.foot[c] = w.foot[c]
         /\ v.head[b] \in {HeadId[b], OccupiedId(HeadId[b])}
         /\ v.foot[b] \in {HeadId[b] + 1, OccupiedId(HeadId[b] + 1)}
         /\ Taken(v.head[b]) <=> taken
         /\ Direction(HeadId[b]) = Lies[b] => (Taken(v.foot[b]) <=> taken)
<1>1. PICK h \in Heads : h = HeadId[b]
  BY DEF BedAssumption
<1> DEFINE head == IF taken THEN OccupiedId(w.head[b]) ELSE EmptyId(w.head[b])
           foot == IF taken THEN OccupiedId(w.foot[b]) ELSE EmptyId(w.foot[b])
           end == IF Direction(head) = Lies[b] THEN foot ELSE w.foot[b]
<1>2. /\ head = IF taken THEN OccupiedId(h) ELSE h
      /\ foot = IF taken THEN OccupiedId(h + 1) ELSE h + 1
  BY <1>1, BedLooks DEF BedRight
<1>3. Direction(head) = Direction(h)
  BY <1>2, BedLooks
<1>4. head \in HalfId /\ end \in HalfId
  BY <1>2, BedLooks DEF Beds
<1>5. Made(w, b, taken) = [w EXCEPT !.head[b] = head, !.foot[b] = end]
  BY DEF Made
<1>6. /\ head \in {h, OccupiedId(h)} /\ end \in {h + 1, OccupiedId(h + 1)}
      /\ Taken(head) <=> taken
      /\ Direction(h) = Lies[b] => (Taken(end) <=> taken)
  BY <1>1, <1>2, <1>3, BedLooks DEF BedRight
<1> HIDE DEF head, end
<1>7. PICK hs \in [Bed -> HalfId], fs \in [Bed -> HalfId] :
        hs = [w.head EXCEPT ![b] = head] /\ fs = [w.foot EXCEPT ![b] = end]
  BY <1>4 DEF Beds
<1>8. PICK v : v = Made(w, b, taken)
  OBVIOUS
<1>9. w.head \in [Bed -> HalfId] /\ w.foot \in [Bed -> HalfId]
  BY DEF Beds
<1>10. PICK u : u = [w EXCEPT !.head = hs]
  OBVIOUS
<1>11. u.head = hs /\ u.foot = w.foot /\ u \in Beds
       /\ u.sleeper = w.sleeper /\ u.since = w.since /\ u.ghosts = w.ghosts
  BY <1>10 DEF Beds
<1>12. v = [u EXCEPT !.foot = fs]
  BY <1>5, <1>7, <1>8, <1>10, <1>11
<1>13. v.head = hs /\ v.foot = fs /\ v \in Beds
       /\ v.sleeper = w.sleeper /\ v.since = w.since /\ v.ghosts = w.ghosts
  BY <1>11, <1>12 DEF Beds
<1>14. v.head[b] = head /\ v.foot[b] = end
       /\ \A c \in Bed \ {b} : v.head[c] = w.head[c] /\ v.foot[c] = w.foot[c]
  BY <1>7, <1>9, <1>13
<1> QED
  BY <1>1, <1>6, <1>8, <1>13, <1>14

\* A bed after both halves and its sleeper are changed.
SleptIn(w, v, b, n) ==
    /\ v \in Beds /\ v.since = w.since /\ \A c \in Bed : BedRight(v, c)
    /\ \A c \in Bed \ {b} : v.sleeper[c] = w.sleeper[c]
    /\ v.sleeper[b] \in {n, Empty}

\* How it is changed: u has the new look, v the new sleeper m and the ghosts g too.
Changed(w, u, v, b, taken, m, g) ==
    /\ taken \in BOOLEAN /\ m \in Sleeper \cup {Empty} /\ g \in {w.ghosts \cup {b}, w.ghosts \ {b}}
    /\ u = Made(w, b, taken) /\ v = [u EXCEPT !.sleeper[b] = m, !.ghosts = g]
    /\ taken <=> (m # Empty \/ b \in g)

LEMMA SleptInIs ==
  ASSUME BedAssumption, NEW w \in Beds, NEW b \in Bed, \A c \in Bed : BedRight(w, c),
         NEW u, NEW v, NEW taken, NEW m, NEW g, Changed(w, u, v, b, taken, m, g),
         NEW n, m \in {n, Empty}
  PROVE  SleptIn(w, v, b, n)
<1> USE DEF Changed
<1>1. /\ u \in Beds /\ u.sleeper = w.sleeper /\ u.since = w.since /\ u.ghosts = w.ghosts
      /\ \A c \in Bed \ {b} : u.head[c] = w.head[c] /\ u.foot[c] = w.foot[c]
      /\ u.head[b] \in {HeadId[b], OccupiedId(HeadId[b])}
      /\ u.foot[b] \in {HeadId[b] + 1, OccupiedId(HeadId[b] + 1)}
      /\ Taken(u.head[b]) <=> taken
      /\ Direction(HeadId[b]) = Lies[b] => (Taken(u.foot[b]) <=> taken)
  BY MadeIs
<1>2. /\ v.head = u.head /\ v.foot = u.foot /\ v.since = u.since /\ v.ghosts = g
      /\ v.sleeper = [u.sleeper EXCEPT ![b] = m]
      /\ v \in Beds
  BY <1>1 DEF Beds
<1>3. u.sleeper \in [Bed -> Sleeper \cup {Empty}]
  BY <1>1 DEF Beds
<1>4. v.sleeper[b] = m /\ \A c \in Bed \ {b} : v.sleeper[c] = w.sleeper[c]
  BY <1>1, <1>2, <1>3
<1>5. BedRight(v, b)
  BY <1>1, <1>2, <1>4 DEF BedRight
<1>6. ASSUME NEW c \in Bed, c # b PROVE BedRight(v, c)
  <2>1. /\ v.head[c] = w.head[c] /\ v.foot[c] = w.foot[c] /\ v.sleeper[c] = w.sleeper[c]
        /\ c \in v.ghosts <=> c \in w.ghosts
    BY <1>1, <1>2, <1>4, <1>6
  <2> QED
    BY <2>1 DEF BedRight
<1> QED
  BY <1>1, <1>2, <1>4, <1>5, <1>6 DEF SleptIn

\* A new sleeper, or none, in one bed.
LEMMA SetSleeperIs ==
  ASSUME BedAssumption, NEW w \in Beds, NEW b \in Bed, \A c \in Bed : BedRight(w, c),
         NEW n \in Sleeper \cup {Empty}, NEW found \in BOOLEAN
  PROVE  SleptIn(w, SetSleeper(w, b, n, found), b, n)
<1> DEFINE v == SetSleeper(w, b, n, found)
<1>1. CASE n = w.sleeper[b]
  BY <1>1 DEF SetSleeper, SleptIn
<1>2. ASSUME NEW taken \in BOOLEAN
      PROVE  \E u \in Beds : u = Made(w, b, taken) /\ u.ghosts = w.ghosts /\ u.sleeper = w.sleeper
  BY MadeIs
<1>3. CASE n # w.sleeper[b] /\ n # Empty /\ found
  <2>1. PICK u \in Beds : u = Made(w, b, TRUE) /\ u.ghosts = w.ghosts /\ u.sleeper = w.sleeper
    BY <1>2
  <2>2. v = [u EXCEPT !.sleeper[b] = n, !.ghosts = w.ghosts \ {b}]
    <3>1. v = [Made(w, b, TRUE) EXCEPT !.sleeper[b] = n, !.ghosts = @ \ {b}]
      BY <1>3 DEF SetSleeper
    <3>2. v = [u EXCEPT !.sleeper[b] = n, !.ghosts = @ \ {b}]
      BY <2>1, <3>1
    <3> QED
      BY <2>1, <3>2 DEF Beds
  <2> HIDE DEF v
  <2> QED
    <3>1. PICK t \in BOOLEAN : t = TRUE
      OBVIOUS
    <3>2. Changed(w, u, v, b, t, n, w.ghosts \ {b})
      BY <1>3, <2>1, <2>2, <3>1 DEF Changed
    <3> QED
      BY <3>2, SleptInIs DEF v
<1>4. CASE n # w.sleeper[b] /\ n # Empty /\ ~ found /\ w.sleeper[b] = Empty
  <2>1. PICK u \in Beds : u = Made(w, b, TRUE) /\ u.ghosts = w.ghosts /\ u.sleeper = w.sleeper
    BY <1>2
  <2>2. v = [u EXCEPT !.ghosts = w.ghosts \cup {b}]
    <3>1. v = [Made(w, b, TRUE) EXCEPT !.ghosts = @ \cup {b}]
      BY <1>4 DEF SetSleeper
    <3> QED
      BY <2>1, <3>1
  <2>3. v = [u EXCEPT !.sleeper[b] = Empty, !.ghosts = w.ghosts \cup {b}]
    <3>1. [u.sleeper EXCEPT ![b] = Empty] = u.sleeper
      BY <1>4, <2>1 DEF Beds
    <3>2. [u EXCEPT !.sleeper = u.sleeper] = u
      BY DEF Beds
    <3> QED
      BY <2>2, <3>1, <3>2
  <2> HIDE DEF v
  <2> QED
    <3>1. PICK t \in BOOLEAN : t = TRUE
      OBVIOUS
    <3>2. Changed(w, u, v, b, t, Empty, w.ghosts \cup {b})
      BY <1>4, <2>1, <2>3, <3>1 DEF Changed
    <3> QED
      BY <3>2, SleptInIs DEF v
<1>5. CASE n # w.sleeper[b] /\ ~ (n # Empty /\ found) /\ ~ (n # Empty /\ w.sleeper[b] = Empty)
  <2>1. PICK u \in Beds : u = Made(w, b, FALSE) /\ u.ghosts = w.ghosts /\ u.sleeper = w.sleeper
    BY <1>2
  <2>2. v = [u EXCEPT !.sleeper[b] = Empty, !.ghosts = w.ghosts \ {b}]
    <3>1. v = [Made(w, b, FALSE) EXCEPT !.sleeper[b] = Empty, !.ghosts = @ \ {b}]
      BY <1>5 DEF SetSleeper
    <3>2. v = [u EXCEPT !.sleeper[b] = Empty, !.ghosts = @ \ {b}]
      BY <2>1, <3>1
    <3> QED
      BY <2>1, <3>2 DEF Beds
  <2> HIDE DEF v
  <2> QED
    <3>1. PICK t \in BOOLEAN : t = FALSE
      OBVIOUS
    <3>2. Changed(w, u, v, b, t, Empty, w.ghosts \ {b})
      BY <1>5, <2>1, <2>2, <3>1 DEF Changed
    <3> QED
      BY <3>2, SleptInIs DEF v
<1> QED
  BY <1>1, <1>3, <1>4, <1>5

LEMMA QuotientIs == ASSUME NEW u \in Nat, NEW t \in Nat \ {0} PROVE u \div t \in Nat
BY Z3

\* Nobody gains more than he lacks, and nobody pays with food he has not got.
LEMMA RestIsGood ==
  ASSUME BedAssumption, NEW v \in Vigour, NEW slept \in Nat
  PROVE  Rested(v, slept) \in Vigour
<1>1. /\ v.health \in 0 .. MaxHealth /\ v.mana \in 0 .. MaxMana /\ v.food \in 0 .. MaxFood
      /\ MaxHealth \in Nat /\ MaxMana \in Nat /\ MaxFood \in Nat /\ Ticks \in Nat \ {0}
      /\ HealthGain \in Nat /\ ManaGain \in Nat
  BY DEF Vigour, BedAssumption
<1>2. PICK used \in Nat : used = UsedFood(v, slept) /\ used <= v.food
  BY <1>1 DEF UsedFood
<1>3. used \div Ticks \in Nat
  BY <1>1, QuotientIs
<1>4. ASSUME NEW missing \in Nat, NEW each \in Nat
      PROVE  Gained(missing, each, used) \in 0 .. missing
  <2>1. PICK k \in Nat : k = used \div Ticks
    BY <1>3
  <2>2. PICK a \in Nat : a = k * each
    BY <2>1
  <2>3. PICK g \in Nat : g = a \div 2
    BY <2>2
  <2> QED
    BY <2>1, <2>2, <2>3 DEF Gained
<1>5. /\ Gained(MaxHealth - v.health, HealthGain, used) \in 0 .. (MaxHealth - v.health)
      /\ Gained(MaxMana - v.mana, ManaGain, used) \in 0 .. (MaxMana - v.mana)
  <2>1. PICK h \in Nat, m \in Nat : h = MaxHealth - v.health /\ m = MaxMana - v.mana
    BY <1>1
  <2>2. Gained(h, HealthGain, used) \in 0 .. h /\ Gained(m, ManaGain, used) \in 0 .. m
    BY <1>1, <1>4
  <2> QED
    BY <2>1, <2>2
<1>6. /\ v.health + Gained(MaxHealth - v.health, HealthGain, used) \in 0 .. MaxHealth
      /\ v.mana + Gained(MaxMana - v.mana, ManaGain, used) \in 0 .. MaxMana
      /\ v.food - used \in 0 .. MaxFood
  BY <1>1, <1>2, <1>5
<1> QED
  BY <1>2, <1>6 DEF Rested, Vigour

-----------------------------------------------------------------------------

\* The sleepers s of the beds are apart from each other and from those in the game.
Apart(s, up) ==
    /\ \A b \in Bed : s[b] \notin up
    /\ \A a, b \in Bed : a # b /\ s[a] = s[b] => s[a] = Empty

BedInv ==
    /\ BedTypeOK
    /\ \A b \in Bed : BedRight(beds, b) /\ beds.since[b] <= clock
    /\ Apart(beds.sleeper, ingame) /\ Apart(bedFile, {})

LEMMA BedInvHolds == BedInv => BedsHold
BY DEF BedInv, BedsHold, Apart, BedRight

LEMMA MapIsRight ==
  ASSUME BedAssumption
  PROVE  OnMap \in Beds /\ \A b \in Bed : BedRight(OnMap, b) /\ OnMap.sleeper[b] = Empty
<1>1. ASSUME NEW b \in Bed
      PROVE  /\ HeadId[b] \in HalfId /\ HeadId[b] + 1 \in HalfId
             /\ ~ Taken(HeadId[b]) /\ ~ Taken(HeadId[b] + 1)
  BY BedLooks DEF BedAssumption
<1>2. [b \in Bed |-> HeadId[b] + 1] \in [Bed -> HalfId] /\ HeadId \in [Bed -> HalfId]
      /\ 0 \in 0 .. MaxClock
  BY <1>1 DEF BedAssumption
<1> QED
  BY <1>1, <1>2 DEF OnMap, Beds, BedRight

LEMMA BedInitInv == BedAssumption /\ BedInit => BedInv
<1> SUFFICES ASSUME BedAssumption, BedInit PROVE BedInv
  OBVIOUS
<1>1. beds = OnMap /\ ingame = {} /\ infight = {} /\ clock = 0
      /\ bedFile = [b \in Bed |-> Empty]
  BY DEF BedInit
<1>2. vigour \in [Sleeper -> Vigour] /\ clock \in 0 .. MaxClock
  BY DEF BedInit, Vigour, BedAssumption
<1>3. \A b \in Bed : beds.since[b] = 0
  BY <1>1 DEF OnMap
<1> QED
  BY <1>1, <1>2, <1>3, MapIsRight DEF BedInv, BedTypeOK, Apart

\* Who comes into the game leaves his bed.
LEMMA PlaceSleeperInv ==
  ASSUME BedAssumption, BedInv, NEW n \in Sleeper, PlaceSleeper(n)
  PROVE  BedInv'
<1> USE DEF BedInv
<1>1. ingame' = ingame \cup {n} /\ UNCHANGED <<bedFile, infight, clock>>
  BY DEF PlaceSleeper
<1>2. CASE BedsOf(n) = {}
  <2>1. UNCHANGED <<beds, vigour>>
    BY <1>2 DEF PlaceSleeper
  <2>2. \A b \in Bed : beds.sleeper[b] # n
    BY <1>2 DEF BedsOf
  <2> QED
    BY <1>1, <2>1, <2>2 DEF BedTypeOK, Apart, BedRight
<1>3. CASE BedsOf(n) # {}
  <2>1. PICK b \in BedsOf(n) :
          /\ beds' = WakeUp(beds, b)
          /\ vigour' = [vigour EXCEPT ![n] = Rested(@, clock - beds.since[b])]
    BY <1>3 DEF PlaceSleeper
  <2>2. b \in Bed /\ beds.sleeper[b] = n /\ n # Empty
    BY DEF BedsOf, BedAssumption
  <2>3. SleptIn(beds, beds', b, Empty)
    <3>1. PICK t \in BOOLEAN : t = TRUE
      OBVIOUS
    <3>2. SleptIn(beds, SetSleeper(beds, b, Empty, t), b, Empty)
      BY <2>2, SetSleeperIs DEF BedTypeOK
    <3> QED
      BY <2>1, <3>1, <3>2 DEF WakeUp
  <2>4. vigour' \in [Sleeper -> Vigour]
    <3>1. clock \in Nat /\ beds.since[b] \in Nat /\ beds.since[b] <= clock
      BY <2>2 DEF BedTypeOK, Beds, BedAssumption
    <3>2. clock - beds.since[b] \in Nat
      BY <3>1
    <3>3. Rested(vigour[n], clock - beds.since[b]) \in Vigour
      BY <3>2, RestIsGood DEF BedTypeOK
    <3> QED
      BY <2>1, <3>3 DEF BedTypeOK
  <2>5. Apart(beds'.sleeper, ingame')
    <3>1. beds'.sleeper[b] = Empty /\ \A c \in Bed \ {b} : beds'.sleeper[c] = beds.sleeper[c]
      BY <2>3 DEF SleptIn
    <3>2. \A c \in Bed \ {b} : beds.sleeper[c] # n
      BY <2>2 DEF Apart
    <3>3. Empty \notin ingame'
      BY <1>1, <2>2 DEF BedTypeOK, BedAssumption
    <3> QED
      BY <1>1, <3>1, <3>2, <3>3 DEF Apart
  <2> QED
    BY <1>1, <2>3, <2>4, <2>5 DEF BedTypeOK, SleptIn
<1> QED
  BY <1>2, <1>3

\* Who goes to bed leaves the game.
LEMMA UseBedInv ==
  ASSUME BedAssumption, BedInv, NEW n \in Sleeper, NEW b \in Bed, NEW found \in BOOLEAN,
         UseBed(n, b, found)
  PROVE  BedInv'
<1> USE DEF BedInv
<1>1. /\ n \in ingame /\ n \notin infight /\ beds.sleeper[b] = Empty
      /\ ingame' = ingame \ {n} /\ UNCHANGED <<bedFile, infight, vigour, clock>>
  BY DEF UseBed, Kicked
<1>2. PICK w : w = SetSleeper(beds, b, n, found)
  OBVIOUS
<1>3. SleptIn(beds, w, b, n)
  BY <1>2, SetSleeperIs DEF BedTypeOK
<1>4. beds' = [w EXCEPT !.since[b] = clock]
  BY <1>2 DEF UseBed
<1>5. clock \in 0 .. MaxClock
  BY DEF BedTypeOK
<1>6. /\ beds' \in Beds /\ beds'.head = w.head /\ beds'.foot = w.foot /\ beds'.sleeper = w.sleeper
      /\ beds'.ghosts = w.ghosts
      /\ beds'.since = [beds.since EXCEPT ![b] = clock]
  <2>1. w \in Beds /\ w.since = beds.since
    BY <1>3 DEF SleptIn
  <2>2. PICK f \in [Bed -> 0 .. MaxClock] : f = [w.since EXCEPT ![b] = clock]
    BY <1>5, <2>1 DEF Beds
  <2>3. beds' = [w EXCEPT !.since = f]
    BY <1>4, <2>2
  <2> QED
    BY <2>1, <2>2, <2>3 DEF Beds
<1>7. \A c \in Bed : BedRight(beds', c) /\ beds'.since[c] <= clock
  <2>1. \A c \in Bed : BedRight(beds', c)
    BY <1>3, <1>6 DEF SleptIn, BedRight
  <2>2. beds.since \in [Bed -> 0 .. MaxClock] /\ clock <= clock
    BY <1>5 DEF BedTypeOK, Beds, BedAssumption
  <2> QED
    BY <1>6, <2>1, <2>2
<1>8. Apart(beds'.sleeper, ingame')
  <2>1. w.sleeper[b] \in {n, Empty} /\ \A c \in Bed \ {b} : w.sleeper[c] = beds.sleeper[c]
    BY <1>3 DEF SleptIn
  <2>2. Empty \notin ingame /\ \A c \in Bed : beds.sleeper[c] # n
    BY <1>1 DEF BedTypeOK, BedAssumption, Apart
  <2> QED
    BY <1>1, <1>6, <2>1, <2>2 DEF Apart
<1> QED
  BY <1>1, <1>6, <1>7, <1>8 DEF BedTypeOK

\* A restart puts those to bed who are in the file.
LEMMA RestartBedsInv ==
  ASSUME BedAssumption, BedInv, NEW found \in SUBSET Bed, RestartBeds(found)
  PROVE  BedInv'
<1> USE DEF BedInv
<1> DEFINE Set(b) == SetSleeper(OnMap, b, bedFile[b], b \in found)
<1>1. /\ beds' = LoadedBeds(found) /\ ingame' = {} /\ infight' = {}
      /\ UNCHANGED <<bedFile, vigour, clock>>
  BY DEF RestartBeds
<1>2. bedFile \in [Bed -> Sleeper \cup {Empty}] /\ clock \in 0 .. MaxClock /\ 0 \in 0 .. MaxClock
  BY DEF BedTypeOK, BedAssumption
<1>3. ASSUME NEW b \in Bed
      PROVE  /\ Set(b) \in Beds /\ BedRight(Set(b), b)
             /\ Set(b).sleeper[b] \in {bedFile[b], Empty}
  <2>1. PICK t \in BOOLEAN : SetSleeper(OnMap, b, bedFile[b], t) = Set(b)
    <3>1. CASE b \in found
      <4>1. SetSleeper(OnMap, b, bedFile[b], TRUE) = Set(b)
        BY <3>1 DEF SetSleeper
      <4> QED
        BY <4>1
    <3>2. CASE b \notin found
      <4>1. SetSleeper(OnMap, b, bedFile[b], FALSE) = Set(b)
        BY <3>2 DEF SetSleeper
      <4> QED
        BY <4>1
    <3> QED
      BY <3>1, <3>2
  <2>2. SleptIn(OnMap, SetSleeper(OnMap, b, bedFile[b], t), b, bedFile[b])
    BY <1>2, MapIsRight, SetSleeperIs
  <2> QED
    BY <2>1, <2>2 DEF SleptIn
<1> HIDE DEF Set
<1>4. /\ beds'.head = [b \in Bed |-> Set(b).head[b]] /\ beds'.foot = [b \in Bed |-> Set(b).foot[b]]
      /\ beds'.sleeper = [b \in Bed |-> Set(b).sleeper[b]]
      /\ beds'.since = [b \in Bed |-> IF bedFile[b] = Empty THEN 0 ELSE clock]
      /\ beds'.ghosts = {b \in Bed : b \in Set(b).ghosts}
      /\ beds' = [head |-> beds'.head, foot |-> beds'.foot, sleeper |-> beds'.sleeper,
                  since |-> beds'.since, ghosts |-> beds'.ghosts]
  BY <1>1 DEF LoadedBeds, Set
<1>5. ASSUME NEW b \in Bed
      PROVE  /\ Set(b).head[b] \in HalfId /\ Set(b).foot[b] \in HalfId
             /\ Set(b).sleeper[b] \in Sleeper \cup {Empty}
  BY <1>3 DEF Beds
<1>6. beds' \in Beds
  <2>1. /\ beds'.head \in [Bed -> HalfId] /\ beds'.foot \in [Bed -> HalfId]
        /\ beds'.sleeper \in [Bed -> Sleeper \cup {Empty}]
        /\ beds'.since \in [Bed -> 0 .. MaxClock] /\ beds'.ghosts \in SUBSET Bed
    BY <1>2, <1>4, <1>5
  <2> QED
    BY <1>4, <2>1 DEF Beds
<1>7. ASSUME NEW b \in Bed PROVE BedRight(beds', b) /\ beds'.since[b] <= clock
  <2>1. /\ beds'.head[b] = Set(b).head[b] /\ beds'.foot[b] = Set(b).foot[b]
        /\ beds'.sleeper[b] = Set(b).sleeper[b] /\ (b \in beds'.ghosts <=> b \in Set(b).ghosts)
    BY <1>4
  <2>2. BedRight(beds', b)
    BY <1>3, <2>1 DEF BedRight
  <2>3. beds'.since[b] <= clock
    BY <1>2, <1>4 DEF BedAssumption
  <2> QED
    BY <2>2, <2>3
<1>8. Apart(beds'.sleeper, {})
  BY <1>3, <1>4 DEF Apart
<1> QED
  BY <1>1, <1>2, <1>6, <1>7, <1>8 DEF BedTypeOK

LEMMA BedNextInv == BedAssumption /\ BedInv /\ [BedNext]_bedVars => BedInv'
<1> SUFFICES ASSUME BedAssumption, BedInv, [BedNext]_bedVars PROVE BedInv'
  OBVIOUS
<1>1. ASSUME NEW n \in Sleeper, LeaveWorld(n) PROVE BedInv'
  BY <1>1 DEF LeaveWorld, BedInv, BedTypeOK, Apart
<1>2. ASSUME NEW n \in Sleeper, NEW v \in Vigour, Live(n, v) PROVE BedInv'
  BY <1>2 DEF Live, BedInv, BedTypeOK, Apart
<1>3. CASE SaveBeds
  BY <1>3 DEF SaveBeds, BedInv, BedTypeOK, Apart, Beds
<1>4. CASE SecondPasses
  <2>1. /\ clock \in Nat /\ clock' = clock + 1 /\ clock' \in 0 .. MaxClock
        /\ UNCHANGED <<beds, bedFile, ingame, infight, vigour>>
    BY <1>4 DEF SecondPasses, BedInv, BedTypeOK, BedAssumption
  <2>2. \A b \in Bed : beds.since[b] \in Nat
    BY DEF BedInv, BedTypeOK, Beds, BedAssumption
  <2>3. \A b \in Bed : beds.since[b] <= clock'
    BY <2>1, <2>2 DEF BedInv
  <2> QED
    BY <2>1, <2>3 DEF BedInv, BedTypeOK
<1>5. CASE UNCHANGED bedVars
  BY <1>5 DEF bedVars, BedInv, BedTypeOK
<1> QED
  BY <1>1, <1>2, <1>3, <1>4, <1>5, PlaceSleeperInv, UseBedInv, RestartBedsInv DEF BedNext

\* Nobody sleeps while he is in the game, or in two beds, and a bed shows whether somebody
\* sleeps in it, for any beds and characters (beds.cpp:39, 68, 280, game.cpp:603).
THEOREM BedsHoldAlways == BedSpec => []BedsHold
BY BedAssumption, BedInitInv, BedNextInv, BedInvHolds, PTL DEF BedSpec

=============================================================================
