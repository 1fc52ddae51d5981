---------------------------------- MODULE Talk ----------------------------------
(***************************************************************************)
(* What becomes of words: Game::playerSay with its spells, mutes and       *)
(* yells (game.cpp, player.cpp, talkaction.cpp).  Spells and the words     *)
(* themselves are dealt with under gameLock, the mute is asked for and the *)
(* message counted without it, so that a second of the game may pass in    *)
(* between.                                                                *)
(***************************************************************************)
EXTENDS Integers, FiniteSets

CONSTANTS Speaker, Exempt,  \* names, and those with ACCESS_PROTECT
          MaxMessages,      \* Player::maxMessageBuffer
          MuteSeconds,      \* of the first mute
          Exhausted,        \* EXHAUSTED and EXHAUSTED_ADD, in seconds
          ExhaustedAdd,
          MaxMutes          \* bound on the mutes of a name

ASSUME TalkAssumption ==
    /\ Exempt \subseteq Speaker
    /\ {MaxMessages, MuteSeconds, Exhausted, ExhaustedAdd, MaxMutes} \subseteq Nat
    /\ MuteSeconds > 2

VARIABLES
    talk,      \* the player of each name
    muteCount, \* Player::muteCountMap, less the one it starts with
    mutes,     \* history: the mutes of each name and the length of the last one
    slips      \* history: the muted ones who were heard

talkVars == <<talk, muteCount, mutes, slips>>

Types == {"say", "yell", "other"}
Fresh == [stage |-> "idle", type |-> "say", count |-> 0, ticks |-> 0, muted |-> 0, tired |-> 0, hushed |-> FALSE]

TalkInit ==
    /\ talk = [s \in Speaker |-> Fresh]
    /\ muteCount = [s \in Speaker |-> 0]
    /\ mutes = [s \in Speaker |-> [begun |-> 0, last |-> 0]]
    /\ slips = {}

TalkTypeOK ==
    /\ talk \in [Speaker -> [stage : {"idle", "asked", "counting", "telling"}, type : Types,
                              count : 0 .. MaxMessages + 2, ticks : 0 .. 1, muted : Nat, tired : Nat,
                              hushed : BOOLEAN]]
    /\ muteCount \in [Speaker -> 0 .. MaxMutes]
    /\ mutes \in [Speaker -> [begun : Nat, last : Nat]] /\ slips \subseteq Speaker

\* Player::isMuted.
IsMuted(s) == s \notin Exempt /\ talk[s].muted > 0

Becomes(s, t) == talk' = [talk EXCEPT ![s] = t]

-----------------------------------------------------------------------------

\* Spells::playerSaySpell: a cast exhausts, a failed one or words that are no spell do not.
Cast(s) == UNCHANGED talk \/ Becomes(s, [talk[s] EXCEPT !.tired = Exhausted])

\* TalkActions::playerSaySpell: an action takes the words or lets them pass.
Acted == UNCHANGED talk

\* Game::playerSaySpell: the words are dealt with here, and whoever is muted says nothing else.
SaysSpell ==
    /\ \E s \in Speaker : talk[s].stage = "idle" /\ (Acted \/ Cast(s))
    /\ UNCHANGED <<muteCount, mutes, slips>>

SaysWords ==
    /\ \E s \in Speaker, y \in Types :
        /\ talk[s].stage = "idle" /\ ~IsMuted(s)
        /\ Becomes(s, [talk[s] EXCEPT !.stage = "asked", !.type = y, !.hushed = FALSE])
    /\ UNCHANGED <<muteCount, mutes, slips>>

\* playerSay asks once more.
Asks2 ==
    /\ \E s \in Speaker :
        /\ talk[s].stage = "asked"
        /\ Becomes(s, [talk[s] EXCEPT !.stage = IF IsMuted(s) THEN "idle" ELSE "counting"])
    /\ UNCHANGED <<muteCount, mutes, slips>>

\* Mutation: the message beside the limit is let through.
Over1(n) == n > MaxMessages + 1

\* The count that mutes.
Over(n) == n > MaxMessages

\* Player::removeMessageBuffer: a longer mute each time, by name.
Counts ==
    /\ \E s \in Speaker :
        LET n == talk[s].count + 1
            length == MuteSeconds * (muteCount[s] + 1) * (muteCount[s] + 1)
            told == [talk[s] EXCEPT !.stage = "telling"]
        IN  /\ talk[s].stage = "counting"
            /\ \/ talk[s].count > MaxMessages + 1 /\ Becomes(s, told) /\ UNCHANGED <<muteCount, mutes>>
               \/ /\ talk[s].count <= MaxMessages + 1 /\ ~Over(n)
                  /\ Becomes(s, [told EXCEPT !.count = n]) /\ UNCHANGED <<muteCount, mutes>>
               \/ /\ talk[s].count <= MaxMessages + 1 /\ Over(n) /\ muteCount[s] < MaxMutes
                  /\ Becomes(s, [told EXCEPT !.count = n, !.muted = length, !.hushed = TRUE])
                  /\ muteCount' = [muteCount EXCEPT ![s] = @ + 1]
                  /\ mutes' = [mutes EXCEPT ![s] = [begun |-> @.begun + 1, last |-> length]]
    /\ UNCHANGED slips

\* playerSayDefault, playerWhisper, playerYell, playerSpeakTo, playerTalkToChannel and
\* playerBroadcastMessage: a yell exhausts, and exhausts one more who is exhausted.
Tells ==
    /\ \E s \in Speaker :
        /\ talk[s].stage = "telling"
        /\ Becomes(s, [talk[s] EXCEPT !.stage = "idle",
                            !.tired = IF talk[s].type # "yell" THEN @ ELSE IF @ = 0 THEN Exhausted ELSE @ + ExhaustedAdd])
        /\ slips' = slips \cup (IF IsMuted(s) /\ ~talk[s].hushed THEN {s} ELSE {})
    /\ UNCHANGED <<muteCount, mutes>>

\* Player::onThink each second, with a message less in every second one, then the conditions.
Less(n) == IF n > 0 THEN n - 1 ELSE 0
Thinks ==
    /\ \E s \in Speaker :
        Becomes(s, [talk[s] EXCEPT !.ticks = 1 - @, !.count = IF talk[s].ticks = 1 THEN Less(@) ELSE @,
                                   !.muted = Less(@), !.tired = Less(@)])
    /\ UNCHANGED <<muteCount, mutes, slips>>

\* A new Player object for the same name.
Relogs ==
    /\ \E s \in Speaker : talk[s].stage = "idle" /\ Becomes(s, Fresh)
    /\ UNCHANGED <<muteCount, mutes, slips>>

TalkNext == SaysSpell \/ SaysWords \/ Asks2 \/ Counts \/ Tells \/ Thinks \/ Relogs

TalkSpec == TalkInit /\ [][TalkNext]_talkVars

-----------------------------------------------------------------------------

\* Nobody who can be muted ever has so many messages that he is no longer counted: each mute
\* lasts until some are forgotten (player.cpp:1404).
AlwaysCounted == \A s \in Speaker \ Exempt : talk[s].count <= MaxMessages + 1

\* Who is muted is not heard, the message that muted him excepted (game.cpp:2489).
MutedUnheard == slips = {}

\* Mutes get longer, through logouts as well (player.cpp:1408).
MutesGrow ==
    \A s \in Speaker :
        /\ mutes[s].begun = muteCount[s]
        /\ mutes[s].last = MuteSeconds * mutes[s].begun * mutes[s].begun

TalkHold == AlwaysCounted /\ MutedUnheard /\ MutesGrow
=============================================================================
