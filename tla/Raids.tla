---------------------------------- MODULE Raids ----------------------------------
(***************************************************************************)
(* The raids: what is read of their files, the check of each that stays in *)
(* the scheduler, the chain of events of one that runs, the raids that an  *)
(* administrator starts and the reload (raids.cpp, commands.cpp,           *)
(* admin.cpp).  checkRaid and executeRaidEvent run on the scheduler's      *)
(* thread without gameLock, the commands on the threads of the             *)
(* connections, so that checkRaid looks at the running raid in one step    *)
(* and sets it in another.  What an event does in the world is left out.   *)
(***************************************************************************)
EXTENDS Integers, Sequences, FiniteSets

CONSTANTS RaidNode, NoRaid,  \* the raids that raids.xml names
          RaidTags,      \* what it says of each
          File,          \* the events in the file of each, in their order
          Readable,      \* files that are there and are those of a raid
          DelayWidth,    \* delays and waits are of 32 bits: 2^32
          MaxChains      \* bound: of events in the scheduler at a time

\* tags are what an event says, monsters what is said of each of the monsters of an area.
EventNode ==
    [kind : {"announce", "singlespawn", "areaspawn"}, tags : SUBSET STRING,
     delay : 0 .. DelayWidth - 1, monsters : SUBSET (SUBSET STRING)]

\* Raids::loadFromXml: the file and the margin have a default.
RaidList == {r \in RaidNode : {"name", "chance", "interval"} \subseteq RaidTags[r] /\ r \in Readable}

-----------------------------------------------------------------------------
(* Raid::loadFromXml.                                                       *)

AnnounceTold(e) == {"delay", "message"} \subseteq e.tags
SingleSpawnTold(e) == {"delay", "name", "x", "y", "z"} \subseteq e.tags

\* An area is told by its middle or by two corners, and so are its monsters, each by a
\* number or by its bounds.
AreaSpawnTold(e) ==
    /\ "delay" \in e.tags
    /\ IF "radius" \in e.tags THEN {"centerx", "centery", "centerz"} \subseteq e.tags
       ELSE {"fromx", "fromy", "fromz", "tox", "toy", "toz"} \subseteq e.tags
    /\ \A m \in e.monsters : "name" \in m /\ m \cap {"minamount", "maxamount", "amount"} # {}

Told(e) ==
    CASE e.kind = "announce" -> AnnounceTold(e)
      [] e.kind = "singlespawn" -> SingleSpawnTold(e)
      [] e.kind = "areaspawn" -> AreaSpawnTold(e)

RaidEvents(r) == {i \in 1 .. Len(File[r]) : Told(File[r][i])}
Length(r) == Cardinality(RaidEvents(r))

\* They are taken from the last to the first, and each is put before the first that
\* comes later: of two at a time the last one in the file comes first.
Before(r, i, j) ==
    \/ File[r][i].delay < File[r][j].delay
    \/ File[r][i].delay = File[r][j].delay /\ i > j
Rank(r, i) == Cardinality({j \in RaidEvents(r) : Before(r, j, i)})
EventAt(r, k) == File[r][CHOOSE i \in RaidEvents(r) : Rank(r, i) = k]

-----------------------------------------------------------------------------

\* forced is an event of which the raid does not keep the id, wait the time it was
\* given in the scheduler.
RaidEvent == [raid : RaidList, index : Nat, forced : BOOLEAN, wait : 0 .. DelayWidth - 1]

ASSUME RaidsAssumption ==
    /\ NoRaid \notin RaidNode \cup RaidEvent /\ MaxChains \in Nat
    /\ DelayWidth \in Nat \ {0} /\ File \in [RaidNode -> Seq(EventNode)]

VARIABLES
    raids,      \* running, and the state and nextEvent of each raid; and history: raids
                \* that two chains of events have run at a time
    chain,      \* the raid events in the scheduler, see RaidEvent
    checking    \* the raid whose checkRaid has found that none runs

raidVars == <<raids, chain, checking>>

Pending == {i \in 1 .. MaxChains : chain[i] # NoRaid}

\* An index is one of raidEvents.
RaidTypeOK ==
    /\ raids \in [running : RaidList \cup {NoRaid}, executing : SUBSET RaidList,
                  next : [RaidList -> Nat], doubled : SUBSET RaidList]
    /\ chain \in [1 .. MaxChains -> RaidEvent \cup {NoRaid}]
    /\ \A i \in Pending : chain[i].index < Length(chain[i].raid)
    /\ checking \in RaidList \cup {NoRaid}

FreeChain == CHOOSE i \in 1 .. MaxChains : chain[i] = NoRaid

-----------------------------------------------------------------------------

RaidInit ==
    /\ raids = [running |-> NoRaid, executing |-> {}, next |-> [r \in RaidList |-> 0],
                doubled |-> {}]
    /\ chain = [i \in 1 .. MaxChains |-> NoRaid]
    /\ checking = NoRaid

\* Raid::checkRaid, up to the chance: idle, and none is running.
CheckRaid ==
    \E r \in RaidList :
        /\ checking = NoRaid /\ r \notin raids.executing /\ raids.running = NoRaid
        /\ checking' = r
        /\ UNCHANGED <<raids, chain>>

\* setRunning, getNextRaidEvent, setState, addEvent, of checkRaid and of forceRaid.
\* A raid without events keeps the place of the running one.
Launched(r, forced) ==
    LET k == raids.next[r]
        has == k < Length(r)
        twice == \E i \in Pending : chain[i].raid = r
    IN
    /\ has => Pending # 1 .. MaxChains    \* bound
    /\ raids' = [raids EXCEPT !.running = r,
                              !.executing = IF has THEN @ \cup {r} ELSE @,
                              !.doubled = IF has /\ twice THEN @ \cup {r} ELSE @]
    /\ chain' = IF has
                THEN [chain EXCEPT ![FreeChain] =
                        [raid |-> r, index |-> k, forced |-> forced, wait |-> EventAt(r, k).delay]]
                ELSE chain

StartRaid ==
    /\ checking # NoRaid
    /\ Launched(checking, FALSE)
    /\ checking' = NoRaid

\* Commands::forceRaid, and the command of the remote administration.
ForceRaid ==
    \E r \in RaidList :
        /\ raids.running = NoRaid
        /\ Launched(r, TRUE)
        /\ UNCHANGED checking

\* Raid::resetRaid.
Reset(r) ==
    [raids EXCEPT !.running = NoRaid, !.executing = @ \ {r}, !.next[r] = 0]

\* Raid::getNextRaidEvent has one more.
HasNext(r) == raids.next[r] + 1 < Length(r)

\* executeEvent: a text is always sent; a monster of no known kind, or a single one
\* without a place, ends the raid.
MayFail(e) == e.kind = "singlespawn" \/ (e.kind = "areaspawn" /\ e.monsters # {})

\* A difference of two delays, in 32 bits.
Wait(from, to) == IF from <= to THEN to - from ELSE to + DelayWidth - from

\* Raid::executeRaidEvent: the last event ends the raid.
ExecuteRaidEvent ==
    \E i \in Pending, works \in BOOLEAN :
        LET r == chain[i].raid
            done == EventAt(r, chain[i].index)
            n == raids.next[r] + 1
            more == works /\ HasNext(r)
        IN  /\ checking = NoRaid    \* one thread runs both
            /\ works \/ MayFail(done)
            /\ raids' = IF more THEN [raids EXCEPT !.next[r] = @ + 1] ELSE Reset(r)
            /\ chain' = [chain EXCEPT ![i] =
                          IF more THEN [raid |-> r, index |-> n, forced |-> FALSE,
                                        wait |-> Wait(done.delay, EventAt(r, n).delay)]
                                  ELSE NoRaid]
            /\ UNCHANGED checking

\* Raids::reload deletes the raids, stops the events whose id they keep and loads
\* them again.  Left out: what happens when an event stays behind or checkRaid is
\* on its way, for the raid it would use is freed.
Reload ==
    /\ checking = NoRaid /\ \A i \in Pending : ~chain[i].forced
    /\ \A i, j \in Pending : chain[i].raid = chain[j].raid => i = j
    /\ raids' = [running |-> NoRaid, executing |-> {}, next |-> [r \in RaidList |-> 0],
                 doubled |-> {}]
    /\ chain' = [i \in 1 .. MaxChains |-> NoRaid]
    /\ UNCHANGED checking

RaidNext == CheckRaid \/ StartRaid \/ ForceRaid \/ ExecuteRaidEvent \/ Reload

RaidSpec == RaidInit /\ [][RaidNext]_raidVars

-----------------------------------------------------------------------------

\* A running raid moves on: it has an event in the scheduler, unless it is one
\* without events, and so has every raid that is in the state of executing.
\* Without one the place of the running raid would never be free again.  And no event
\* waits longer than the file says, unless two chains have run its raid: a difference
\* below zero would be 49 days.
RaidsMoveOn ==
    /\ \A r \in raids.executing : \E i \in Pending : chain[i].raid = r
    /\ raids.running # NoRaid =>
          Length(raids.running) = 0 \/ \E i \in Pending : chain[i].raid = raids.running
    /\ \A i \in Pending :
          \/ chain[i].raid \in raids.doubled
          \/ chain[i].wait <= EventAt(chain[i].raid, chain[i].index).delay

=============================================================================
