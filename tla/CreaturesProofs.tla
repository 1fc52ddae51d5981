--------------------------- MODULE CreaturesProofs ---------------------------
(***************************************************************************)
(* Proofs about Fight: what a fight brings ends with it, for any number of *)
(* players and monsters, any times and any number of deaths.               *)
(***************************************************************************)
EXTENDS Fight, TLAPS

-----------------------------------------------------------------------------
(* The invariant is about one player at a time.  It asks more than          *)
(* EndsWithFight: also of those who are away, whom a login brings back as   *)
(* they are, that the red skull has deaths to wait for, and that who is     *)
(* away attacked nobody, because the thought and the login that take a      *)
(* skull away do not look at who was attacked.                              *)

Tolerable ==
    {r \in FighterRecord : /\ r.skull = "red" => r.frags >= 1
                           /\ r.status = "away" => r.attacked = {}}

Calm(r) ==
    /\ ~r.pzLocked /\ r.hurt = {}
    /\ r.skull # "red" => r.attacked = {}
    /\ r.skull = "white" => r.spared

Sound == {r \in Tolerable : r.fight = 0 => Calm(r)}

FightInv == fighter \in [Fighter -> Sound] /\ ring \in SUBSET Fighter

\* All are sound but perhaps p, of whom a call is under way.
ButFor(p) == {w \in [Fighter -> Tolerable] : \A q \in Fighter : q # p => w[q] \in Sound}

LEMMA FightBounds ==
  /\ FightTime \in Nat /\ FightTime > 0 /\ FragTime \in Nat /\ FragTime > 0 /\ WhiteTime \in Nat
  /\ NoOwner \notin Striker /\ OwnerOf \in [Fiend -> Fighter \cup {NoOwner}]
BY FightAssumption DEF FightAssumption

LEMMA SoundIsTolerable == Sound \subseteq Tolerable /\ Tolerable \subseteq FighterRecord
BY DEF Sound, Tolerable

LEMMA ButForSound ==
  ASSUME NEW p \in Fighter, NEW w \in ButFor(p), w[p] \in Sound
  PROVE  w \in [Fighter -> Sound]
BY DEF ButFor

LEMMA SoundButFor ==
  ASSUME NEW p \in Fighter, NEW w \in [Fighter -> Sound]
  PROVE  w \in ButFor(p)
BY SoundIsTolerable DEF ButFor

\* One record is replaced.
LEMMA PutTolerable ==
  ASSUME NEW p \in Fighter, NEW w \in ButFor(p), NEW r \in Tolerable
  PROVE  [w EXCEPT ![p] = r] \in ButFor(p) /\ [w EXCEPT ![p] = r][p] = r
BY DEF ButFor

LEMMA PutSound ==
  ASSUME NEW p \in Fighter, NEW w \in ButFor(p), NEW r \in Sound
  PROVE  [w EXCEPT ![p] = r] \in [Fighter -> Sound] /\ [w EXCEPT ![p] = r][p] = r
BY DEF ButFor

-----------------------------------------------------------------------------
(* The calls.                                                               *)

\* A skull other than the red one can be put on anybody.
LEMMA ChangeSkullTolerable ==
  ASSUME NEW p \in Fighter, NEW w \in ButFor(p), NEW s \in {"none", "white", "red"},
         s = "red" => w[p].frags >= 1
  PROVE  /\ ChangeSkull(w, p, s) \in ButFor(p)
         /\ ChangeSkull(w, p, s)[p].fight = w[p].fight
         /\ ChangeSkull(w, p, s)[p].status = w[p].status
         /\ ChangeSkull(w, p, s)[p].pzLocked = w[p].pzLocked
         /\ ChangeSkull(w, p, s)[p].hurt = w[p].hurt
         /\ ChangeSkull(w, p, s)[p].attacked = w[p].attacked
         /\ ChangeSkull(w, p, s)[p].frags = w[p].frags
         /\ p \in ring => ChangeSkull(w, p, s)[p].skull = w[p].skull /\ ChangeSkull(w, p, s)[p].spared
         /\ p \notin ring => ChangeSkull(w, p, s)[p].skull = s
<1> DEFINE r == IF p \in ring THEN [w[p] EXCEPT !.spared = TRUE] ELSE [w[p] EXCEPT !.skull = s, !.spared = FALSE]
<1>1. w[p] \in Tolerable
  BY DEF ButFor
<1>2. r \in Tolerable
  BY <1>1 DEF Tolerable, FighterRecord
<1>3. ChangeSkull(w, p, s) = [w EXCEPT ![p] = r]
  BY DEF ChangeSkull, ButFor
<1>4. /\ r.fight = w[p].fight /\ r.status = w[p].status /\ r.pzLocked = w[p].pzLocked /\ r.hurt = w[p].hurt
      /\ r.attacked = w[p].attacked /\ r.frags = w[p].frags
      /\ p \in ring => r.skull = w[p].skull /\ r.spared
      /\ p \notin ring => r.skull = s
  BY <1>1 DEF Tolerable, FighterRecord
<1> HIDE DEF r
<1>5. [w EXCEPT ![p] = r] \in ButFor(p) /\ [w EXCEPT ![p] = r][p] = r
  BY <1>2, PutTolerable
<1> QED
  BY <1>3, <1>4, <1>5

LEMMA AddFightSound ==
  ASSUME NEW p \in Fighter, NEW w \in ButFor(p), NEW time \in Nat, time > 0 \/ w[p].fight > 0
  PROVE  AddFight(w, p, time) \in [Fighter -> Sound] /\ AddFight(w, p, time)[p].fight > 0
<1>1. PICK r \in Tolerable : r = w[p]
  BY DEF ButFor
<1> DEFINE n == IF r.fight > time THEN r.fight ELSE time
<1>2. n \in Nat /\ n > 0
  BY <1>1 DEF Tolerable, FighterRecord
<1>3. AddFight(w, p, time) = [w EXCEPT ![p] = [r EXCEPT !.fight = n]]
  BY <1>1 DEF AddFight, ButFor
<1> HIDE DEF n
<1>4. [r EXCEPT !.fight = n] \in Sound /\ [r EXCEPT !.fight = n].fight = n
  BY <1>2 DEF Sound, Tolerable, FighterRecord
<1> QED
  BY <1>2, <1>3, <1>4, PutSound

LEMMA OnAttackedSound ==
  ASSUME NEW w \in [Fighter -> Sound], NEW c
  PROVE  /\ OnAttacked(w, c) \in [Fighter -> Sound]
         /\ c \in Fighter => OnAttacked(w, c)[c].fight > 0
BY SoundButFor, AddFightSound, FightBounds DEF OnAttacked

LEMMA OnAttackedCreatureSound ==
  ASSUME NEW w \in [Fighter -> Sound], NEW p \in Fighter, NEW t \in Fighter, w[p].status # "away"
  PROVE  OnAttackedCreature(w, p, t) \in [Fighter -> Sound]
<1> DEFINE blames == ~Partners(w, p, t) /\ p \notin w[t].attacked
           locked == [w EXCEPT ![p].pzLocked = TRUE]
           skulled == IF blames /\ w[t].skull = "none" /\ w[p].skull = "none"
                      THEN ChangeSkull(locked, p, "white") ELSE locked
           listed == IF blames THEN [skulled EXCEPT ![p].attacked = @ \cup {t}] ELSE skulled
<1>1. OnAttackedCreature(w, p, t) = AddFight(listed, p, FightTime)
  BY DEF OnAttackedCreature
<1>2. locked \in ButFor(p) /\ locked[p].status # "away"
  <2>1. w[p] \in Tolerable /\ w \in ButFor(p)
    BY SoundIsTolerable, SoundButFor
  <2>2. [w[p] EXCEPT !.pzLocked = TRUE] \in Tolerable /\ [w[p] EXCEPT !.pzLocked = TRUE].status # "away"
    BY <2>1 DEF Tolerable, FighterRecord
  <2>3. locked = [w EXCEPT ![p] = [w[p] EXCEPT !.pzLocked = TRUE]]
    OBVIOUS
  <2> HIDE DEF locked
  <2> QED
    BY <2>1, <2>2, <2>3, PutTolerable
<1> HIDE DEF locked, blames
<1>3. skulled \in ButFor(p) /\ skulled[p].status # "away"
  BY <1>2, ChangeSkullTolerable
<1> HIDE DEF skulled
<1>4. listed \in ButFor(p)
  <2>1. skulled[p] \in Tolerable /\ skulled[p].status # "away"
    BY <1>3 DEF ButFor
  <2>2. [skulled[p] EXCEPT !.attacked = @ \cup {t}] \in Tolerable
    BY <2>1 DEF Tolerable, FighterRecord
  <2>3. [skulled EXCEPT ![p].attacked = @ \cup {t}] = [skulled EXCEPT ![p] = [skulled[p] EXCEPT !.attacked = @ \cup {t}]]
    OBVIOUS
  <2> QED
    BY <1>3, <2>2, <2>3, PutTolerable
<1> HIDE DEF listed
<1> QED
  BY <1>1, <1>4, AddFightSound, FightBounds

\* The end of a fight leaves nothing of it: this is where the property is made.
LEMMA EndFightSound ==
  ASSUME NEW p \in Fighter, NEW w \in ButFor(p)
  PROVE  EndFight(w, p) \in [Fighter -> Sound]
<1> DEFINE over == [w EXCEPT ![p].hurt = {}, ![p].pzLocked = FALSE]
           free == [over EXCEPT ![p].attacked = {}]
<1>1. EndFight(w, p) = IF over[p].skull = "red" THEN over ELSE ChangeSkull(free, p, "none")
  BY DEF EndFight
<1>2. PICK r \in Tolerable : r = w[p]
  BY DEF ButFor
<1>3. over = [w EXCEPT ![p] = [r EXCEPT !.hurt = {}, !.pzLocked = FALSE]]
  BY <1>2 DEF ButFor
<1> DEFINE o == [r EXCEPT !.hurt = {}, !.pzLocked = FALSE]
<1>4. o \in Tolerable /\ o.hurt = {} /\ ~o.pzLocked
  BY DEF Tolerable, FighterRecord
<1>5. over = [w EXCEPT ![p] = o]
  BY <1>3
<1> HIDE DEF o, over
<1>6. over \in ButFor(p) /\ over[p] = o
  BY <1>4, <1>5, PutTolerable
<1>7. CASE over[p].skull = "red"
  <2>1. o \in Sound
    BY <1>4, <1>6, <1>7 DEF Sound, Calm
  <2> QED
    BY <1>1, <1>5, <1>7, <2>1, PutSound
<1>8. CASE over[p].skull # "red"
  <2> DEFINE f == [o EXCEPT !.attacked = {}]
  <2>1. f \in Tolerable /\ f.attacked = {} /\ f.hurt = {} /\ ~f.pzLocked
    BY <1>4 DEF Tolerable, FighterRecord
  <2>2. free = [over EXCEPT ![p] = f]
    BY <1>6
  <2> HIDE DEF f, free
  <2>3. free \in ButFor(p) /\ free[p] = f
    BY <1>6, <2>1, <2>2, PutTolerable
  <2>4. /\ ChangeSkull(free, p, "none") \in ButFor(p)
        /\ ChangeSkull(free, p, "none")[p].hurt = {} /\ ~ChangeSkull(free, p, "none")[p].pzLocked
        /\ ChangeSkull(free, p, "none")[p].attacked = {}
        /\ p \in ring => ChangeSkull(free, p, "none")[p].spared
        /\ p \notin ring => ChangeSkull(free, p, "none")[p].skull = "none"
    BY <2>1, <2>3, ChangeSkullTolerable
  <2>5. ChangeSkull(free, p, "none")[p] \in Sound
    BY <2>4 DEF Sound, Calm, ButFor
  <2> QED
    BY <1>1, <1>8, <2>4, <2>5, ButForSound
<1> QED
  BY <1>7, <1>8

\* Who leaves takes nothing along and is forgotten by the others.
LEMMA LeavesSound ==
  ASSUME NEW p \in Fighter, NEW w \in [Fighter -> Sound], NEW status \in {"away", "banned", "well", "dead"}
  PROVE  Leaves(w, p, status) \in [Fighter -> Sound]
<1>1. ASSUME NEW r \in Sound
      PROVE  [r EXCEPT !.status = status, !.fight = 0, !.pzLocked = FALSE, !.attacked = {}, !.hurt = {},
                       !.lastHit = NoOwner, !.skull = IF @ = "red" THEN @ ELSE "none",
                       !.inParty = FALSE, !.spared = FALSE] \in Sound
  <2> DEFINE k == IF r.skull = "red" THEN "red" ELSE "none"
             l == [r EXCEPT !.status = status, !.fight = 0, !.pzLocked = FALSE, !.attacked = {}, !.hurt = {},
                            !.lastHit = NoOwner, !.skull = k, !.inParty = FALSE, !.spared = FALSE]
  <2>1. k \in {"none", "white", "red"} /\ k # "white" /\ (k = "red" => r.frags >= 1) /\ r \in FighterRecord
    BY <1>1 DEF Sound, Tolerable
  <2>2. l = [r EXCEPT !.status = status, !.fight = 0, !.pzLocked = FALSE, !.attacked = {}, !.hurt = {},
                      !.lastHit = NoOwner, !.skull = IF @ = "red" THEN @ ELSE "none",
                      !.inParty = FALSE, !.spared = FALSE]
    BY <2>1 DEF FighterRecord
  <2> HIDE DEF k
  <2>3. l \in FighterRecord
    BY <2>1 DEF FighterRecord
  <2>4. l.skull = k /\ l.frags = r.frags /\ l.attacked = {} /\ l.hurt = {} /\ ~l.pzLocked
    BY <2>1 DEF FighterRecord
  <2> HIDE DEF l
  <2>5. l \in Sound
    BY <2>1, <2>3, <2>4 DEF Sound, Tolerable, Calm
  <2> QED
    BY <2>2, <2>5
<1>2. ASSUME NEW r \in Sound
      PROVE  [r EXCEPT !.attacked = @ \ {p}, !.hurt = @ \ {p}, !.lastHit = IF @ = p THEN NoOwner ELSE @] \in Sound
  BY <1>2 DEF Sound, Tolerable, Calm, FighterRecord
<1> QED
  BY <1>1, <1>2 DEF Leaves

LEMMA AddUnjustifiedDeadSound ==
  ASSUME NEW p \in Fighter, NEW w \in [Fighter -> Sound]
  PROVE  AddUnjustifiedDead(w, p) \in [Fighter -> Sound]
<1> DEFINE counted == [w EXCEPT ![p].frags = @ + FragTime]
           red == IF counted[p].frags >= RedUnjust * FragTime THEN ChangeSkull(counted, p, "red") ELSE counted
<1>1. AddUnjustifiedDead(w, p) = IF red[p].frags >= BanUnjust * FragTime THEN Leaves(red, p, "banned") ELSE red
  BY DEF AddUnjustifiedDead
<1>2. PICK r \in Sound : r = w[p]
  OBVIOUS
<1> DEFINE c == [r EXCEPT !.frags = @ + FragTime]
<1>3. c \in Sound /\ c.frags >= 1
  BY FightBounds DEF Sound, Tolerable, Calm, FighterRecord
<1>4. counted = [w EXCEPT ![p] = c]
  BY <1>2
<1> HIDE DEF c, counted
<1>5. counted \in [Fighter -> Sound] /\ counted[p] = c
  BY <1>3, <1>4
<1>6. ChangeSkull(counted, p, "red") \in [Fighter -> Sound]
  <2>1. counted \in ButFor(p) /\ counted[p].frags >= 1
    BY <1>3, <1>5, SoundButFor
  <2> DEFINE s == ChangeSkull(counted, p, "red")[p]
  <2>2. /\ s.fight = c.fight /\ s.pzLocked = c.pzLocked /\ s.hurt = c.hurt /\ s.attacked = c.attacked
        /\ p \in ring => s.skull = c.skull /\ s.spared
        /\ p \notin ring => s.skull = "red"
        /\ ChangeSkull(counted, p, "red") \in ButFor(p)
    BY <1>5, <2>1, ChangeSkullTolerable
  <2>3. s \in Tolerable
    BY <2>2 DEF ButFor
  <2> HIDE DEF s
  <2>4. s \in Sound
    BY <1>3, <2>2, <2>3 DEF Sound, Calm
  <2> QED
    BY <2>2, <2>4, ButForSound DEF s
<1>7. red \in [Fighter -> Sound]
  BY <1>5, <1>6
<1> HIDE DEF red
<1> QED
  BY <1>1, <1>7, LeavesSound

LEMMA OnKilledPlayerSound ==
  ASSUME NEW p \in Fighter, NEW t \in Fighter, NEW w \in [Fighter -> Sound]
  PROVE  OnKilledPlayer(w, p, t) \in [Fighter -> Sound]
<1> DEFINE judged == IF /\ ~Partners(w, p, t) /\ p \notin w[t].attacked
                        /\ w[t].skull = "none" /\ p \notin ring
                     THEN AddUnjustifiedDead(w, p) ELSE w
<1>1. OnKilledPlayer(w, p, t) =
        IF judged[p].fight > 0 /\ p \notin ring
        THEN AddFight([judged EXCEPT ![p].pzLocked = TRUE], p, WhiteTime) ELSE judged
  BY DEF OnKilledPlayer
<1>2. judged \in [Fighter -> Sound]
  BY AddUnjustifiedDeadSound
<1> HIDE DEF judged
<1>3. CASE judged[p].fight > 0
  <2>1. PICK r \in Tolerable : r = judged[p] /\ r.fight > 0
    BY <1>2, <1>3, SoundIsTolerable
  <2> DEFINE l == [r EXCEPT !.pzLocked = TRUE]
  <2>2. l \in Tolerable /\ l.fight > 0
    BY <2>1 DEF Tolerable, FighterRecord
  <2>3. [judged EXCEPT ![p].pzLocked = TRUE] = [judged EXCEPT ![p] = l]
    BY <1>2, <2>1
  <2> HIDE DEF l
  <2>4. [judged EXCEPT ![p] = l] \in ButFor(p) /\ [judged EXCEPT ![p] = l][p].fight > 0
    BY <1>2, <2>2, SoundButFor, PutTolerable
  <2>5. AddFight([judged EXCEPT ![p] = l], p, WhiteTime) \in [Fighter -> Sound]
    BY <2>4, AddFightSound, FightBounds
  <2> QED
    BY <1>1, <1>2, <2>3, <2>5
<1>4. CASE ~(judged[p].fight > 0)
  BY <1>1, <1>2, <1>4
<1> QED
  BY <1>3, <1>4

LEMMA OnKilledSound ==
  ASSUME NEW c \in Striker \cup {NoOwner}, NEW t \in Fighter, NEW w \in [Fighter -> Sound]
  PROVE  OnKilled(w, c, t) \in [Fighter -> Sound]
BY OnKilledPlayerSound DEF OnKilled, Here

\* A second of thought: a skull goes only when no fight is on, the fight's end takes the rest.
LEMMA ThoughtSound ==
  ASSUME NEW p \in Fighter, NEW w \in [Fighter -> Sound]
  PROVE  Thought(w, p) \in [Fighter -> Sound]
<1>1. PICK f \in Sound : f = w[p]
  OBVIOUS
<1> DEFINE counted == [w EXCEPT ![p].frags = IF @ > 1 THEN @ - 1 ELSE @]
           cleared == IF counted[p].frags < 1 /\ f.fight = 0 /\ f.skull # "none"
                      THEN ChangeSkull(counted, p, "none") ELSE counted
<1>2. Thought(w, p) = IF f.fight = 0 THEN cleared
                      ELSE IF f.fight = 1 THEN EndFight([cleared EXCEPT ![p].fight = 0], p)
                      ELSE [cleared EXCEPT ![p].fight = @ - 1]
  BY <1>1 DEF Thought
<1> DEFINE c == [f EXCEPT !.frags = IF @ > 1 THEN @ - 1 ELSE @]
<1>3. /\ c \in Sound /\ c.fight = f.fight /\ c.skull = f.skull /\ c.fight \in Nat
      /\ c.skull = "red" => c.frags >= 1
  BY DEF Sound, Tolerable, Calm, FighterRecord
<1>4. counted = [w EXCEPT ![p] = c]
  BY <1>1
<1> HIDE DEF c, counted
<1>5. counted \in [Fighter -> Sound] /\ counted[p] = c /\ counted \in ButFor(p)
  BY <1>3, <1>4, SoundButFor
<1>6. CASE f.fight = 0
  <2>1. CASE counted[p].frags < 1 /\ f.skull # "none"
    <3>1. c.skull # "red" /\ Calm(c)
      <4>1. c.frags \in Nat
        BY <1>3 DEF Sound, Tolerable, FighterRecord
      <4> QED
        BY <1>3, <1>5, <1>6, <2>1, <4>1 DEF Sound
    <3> DEFINE s == ChangeSkull(counted, p, "none")[p]
    <3>2. /\ s.pzLocked = c.pzLocked /\ s.hurt = c.hurt /\ s.attacked = c.attacked
          /\ p \in ring => s.spared
          /\ p \notin ring => s.skull = "none"
          /\ ChangeSkull(counted, p, "none") \in ButFor(p)
      BY <1>5, ChangeSkullTolerable
    <3>3. s \in Tolerable
      BY <3>2 DEF ButFor
    <3> HIDE DEF s
    <3>4. s \in Sound
      BY <3>1, <3>2, <3>3 DEF Sound, Calm
    <3>5. ChangeSkull(counted, p, "none") \in [Fighter -> Sound]
      BY <3>2, <3>4, ButForSound DEF s
    <3> QED
      BY <1>2, <1>6, <2>1, <3>5
  <2>2. CASE ~(counted[p].frags < 1 /\ f.skull # "none")
    BY <1>2, <1>5, <1>6, <2>2
  <2> QED
    BY <2>1, <2>2
<1>7. CASE f.fight # 0
  <2>1. cleared = counted
    BY <1>7
  <2>2. CASE f.fight = 1
    <3>1. [c EXCEPT !.fight = 0] \in Tolerable
      BY <1>3 DEF Sound, Tolerable, FighterRecord
    <3>2. [counted EXCEPT ![p].fight = 0] = [counted EXCEPT ![p] = [c EXCEPT !.fight = 0]]
      BY <1>5
    <3>3. [counted EXCEPT ![p].fight = 0] \in ButFor(p)
      BY <1>5, <3>1, <3>2, PutTolerable
    <3> QED
      BY <1>2, <1>7, <2>1, <2>2, <3>3, EndFightSound
  <2>3. CASE f.fight # 1
    <3>1. f.fight \in Nat /\ f.fight > 1
      BY <1>7, <2>3 DEF Sound, Tolerable, FighterRecord
    <3>2. [c EXCEPT !.fight = f.fight - 1] \in Sound
      BY <1>3, <3>1 DEF Sound, Tolerable, FighterRecord
    <3>3. [counted EXCEPT ![p].fight = @ - 1] = [counted EXCEPT ![p] = [c EXCEPT !.fight = f.fight - 1]]
      BY <1>3, <1>5
    <3> QED
      BY <1>2, <1>5, <1>7, <2>1, <2>3, <3>2, <3>3, PutSound
  <2> QED
    BY <2>2, <2>3
<1> QED
  BY <1>6, <1>7

-----------------------------------------------------------------------------
(* The steps.                                                               *)

LEMMA StrikeInv == ASSUME FightInv, Strike PROVE FightInv'
<1>1. PICK a \in Striker, t \in Here(fighter), hurts \in BOOLEAN, kills \in BOOLEAN :
        /\ a # t /\ fighter[t].status = "well"
        /\ a \in Fighter => fighter[a].status = "well"
        /\ a \in Fiend /\ OwnerOf[a] # NoOwner => OwnerOf[a] \in Here(fighter)
        /\ kills => hurts
        /\ LET blamed == IF a \in Fighter THEN OnAttackedCreature(fighter, a, t) ELSE fighter
               told == OnAttacked(OnAttacked(blamed, a), t)
           IN fighter' = IF ~hurts THEN told
                         ELSE [told EXCEPT ![t].hurt = @ \cup {a}, ![t].lastHit = a,
                                           ![t].status = IF kills THEN "dead" ELSE @]
        /\ UNCHANGED ring
  BY DEF Strike
<1> DEFINE blamed == IF a \in Fighter THEN OnAttackedCreature(fighter, a, t) ELSE fighter
           told == OnAttacked(OnAttacked(blamed, a), t)
<1>2. blamed \in [Fighter -> Sound]
  BY <1>1, OnAttackedCreatureSound DEF FightInv, Here
<1> HIDE DEF blamed
<1>3. OnAttacked(blamed, a) \in [Fighter -> Sound]
  BY <1>2, OnAttackedSound
<1>4. told \in [Fighter -> Sound] /\ told[t].fight > 0 /\ t \in Fighter
  BY <1>3, OnAttackedSound DEF Here
<1>5. fighter' = IF ~hurts THEN told
                 ELSE [told EXCEPT ![t].hurt = @ \cup {a}, ![t].lastHit = a,
                                   ![t].status = IF kills THEN "dead" ELSE @]
  BY <1>1 DEF blamed
<1> HIDE DEF told
<1>6. PICK r \in Sound : r = told[t] /\ r.fight > 0
  BY <1>4
<1> DEFINE h == [r EXCEPT !.hurt = @ \cup {a}, !.lastHit = a, !.status = IF kills THEN "dead" ELSE @]
<1>7. h \in Sound
  <2>1. r.hurt \cup {a} \in SUBSET Striker /\ (IF kills THEN "dead" ELSE r.status) \in {"away", "banned", "well", "dead"}
    BY DEF Sound, Tolerable, FighterRecord
  <2>2. h \in FighterRecord
    BY <2>1 DEF Sound, Tolerable, FighterRecord
  <2>3. h.skull = r.skull /\ h.frags = r.frags /\ h.fight = r.fight
        /\ h.attacked = r.attacked /\ (h.status = "away" => r.status = "away")
    BY DEF Sound, Tolerable, FighterRecord
  <2> HIDE DEF h
  <2> QED
    BY <1>6, <2>2, <2>3 DEF Sound, Tolerable, FighterRecord
<1>8. hurts => fighter' = [told EXCEPT ![t] = h]
  BY <1>4, <1>5, <1>6
<1> HIDE DEF h
<1>9. fighter' \in [Fighter -> Sound]
  BY <1>4, <1>5, <1>7, <1>8
<1> QED
  BY <1>9 DEF FightInv, Strike

\* The one who hit last is told, then perhaps the one who did most, who may have been banned by then.
LEMMA DieInv == ASSUME FightInv, Die PROVE FightInv'
<1>1. PICK t \in Here(fighter), most \in Striker \cup {NoOwner} :
        LET first == OnKilled(fighter, fighter[t].lastHit, t)
            both == IF most = fighter[t].lastHit THEN first ELSE OnKilled(first, most, t)
        IN  fighter' = Leaves(both, t, "away") /\ ring' = ring \cap Here(fighter')
  <2>1. \A t \in Here(fighter) : fighter[t].hurt \subseteq Striker
    BY DEF FightInv, Here, Sound, Tolerable, FighterRecord
  <2> QED
    BY <2>1 DEF Die
<1>2. t \in Fighter /\ fighter[t].lastHit \in Striker \cup {NoOwner}
  BY DEF FightInv, Here, Sound, Tolerable, FighterRecord
<1> DEFINE first == OnKilled(fighter, fighter[t].lastHit, t)
           both == IF most = fighter[t].lastHit THEN first ELSE OnKilled(first, most, t)
<1>3. first \in [Fighter -> Sound]
  BY <1>2, OnKilledSound DEF FightInv
<1>4. both \in [Fighter -> Sound]
  <2> HIDE DEF first
  <2> QED
    BY <1>2, <1>3, OnKilledSound
<1>5. fighter' = Leaves(both, t, "away") /\ ring' \subseteq ring
  BY <1>1
<1> HIDE DEF both
<1> QED
  BY <1>2, <1>4, <1>5, LeavesSound DEF FightInv

\* Nobody is read with a red skull and no deaths.
LEMMA LoginInv == ASSUME FightInv, Login PROVE FightInv'
<1>1. PICK p \in Fighter, forgotten \in BOOLEAN :
        LET left == ~forgotten /\ fighter[p].frags > 0 IN
        /\ fighter[p].status = "away"
        /\ fighter' = [fighter EXCEPT ![p].status = "well",
                                      ![p].frags = IF left THEN @ + 2 ELSE 0,
                                      ![p].skull = IF left THEN @ ELSE "none"]
        /\ UNCHANGED ring
  BY DEF Login
<1>2. PICK r \in Sound : r = fighter[p]
  BY DEF FightInv
<1> DEFINE left == ~forgotten /\ r.frags > 0
           l == [r EXCEPT !.status = "well", !.frags = IF left THEN @ + 2 ELSE 0,
                          !.skull = IF left THEN @ ELSE "none"]
<1>3. fighter' = [fighter EXCEPT ![p] = l]
  BY <1>1, <1>2 DEF FightInv
<1>4. l \in Sound
  <2>1. /\ r.frags \in Nat /\ r.fight \in Nat /\ r.skull \in {"none", "white", "red"}
        /\ r.skull = "red" => r.frags >= 1
    BY DEF Sound, Tolerable, FighterRecord
  <2>2. /\ (IF left THEN r.frags + 2 ELSE 0) \in Nat
        /\ (IF left THEN r.skull ELSE "none") \in {"none", "white", "red"}
        /\ (IF left THEN r.skull ELSE "none") = "red" => (IF left THEN r.frags + 2 ELSE 0) >= 1
    BY <2>1
  <2> DEFINE n == IF left THEN r.frags + 2 ELSE 0
             k == IF left THEN r.skull ELSE "none"
  <2>3. l = [r EXCEPT !.status = "well", !.frags = n, !.skull = k]
    BY DEF Sound, Tolerable, FighterRecord
  <2>4. k = r.skull \/ k = "none"
    OBVIOUS
  <2>5. n \in Nat /\ k \in {"none", "white", "red"} /\ (k = "red" => n >= 1)
    BY <2>2
  <2> HIDE DEF n, k, l, left
  <2>6. r.attacked = {} /\ (r.fight = 0 => Calm(r))
    BY <1>1, <1>2 DEF Sound, Tolerable
  <2>7. /\ l \in FighterRecord /\ l.frags = n /\ l.skull = k
        /\ l.fight = r.fight /\ l.pzLocked = r.pzLocked /\ l.hurt = r.hurt /\ l.attacked = r.attacked
        /\ l.spared = r.spared
    BY <2>3, <2>5 DEF Sound, Tolerable, FighterRecord
  <2> QED
    BY <2>4, <2>5, <2>6, <2>7 DEF Sound, Tolerable, Calm
<1>5. ring' = ring
  BY <1>1
<1> HIDE DEF l, left
<1> QED
  BY <1>3, <1>4, <1>5 DEF FightInv

LEMMA LogoutInv == ASSUME FightInv, Logout PROVE FightInv'
BY LeavesSound DEF FightInv, Logout, Here

LEMMA StrikeMonsterInv == ASSUME FightInv, StrikeMonster PROVE FightInv'
<1>1. PICK p \in Fighter : fighter' = AddFight(fighter, p, FightTime) /\ UNCHANGED ring
  BY DEF StrikeMonster, Here
<1> QED
  BY <1>1, SoundButFor, AddFightSound, FightBounds DEF FightInv

LEMMA OnThinkInv == ASSUME FightInv, NEW p \in Fighter, OnThink(p) PROVE FightInv'
BY ThoughtSound DEF FightInv, OnThink

LEMMA LeaveArenaInv == ASSUME FightInv, LeaveArena PROVE FightInv'
<1>1. PICK t \in Fighter :
        fighter' = [Thought(fighter, t) EXCEPT ![t].status = "well"] /\ ring' = ring \ {t}
  BY DEF LeaveArena, FightInv
<1> DEFINE w == Thought(fighter, t)
<1>2. w \in [Fighter -> Sound] /\ fighter' = [w EXCEPT ![t].status = "well"]
  BY <1>1, ThoughtSound DEF FightInv
<1> HIDE DEF w
<1>3. [w[t] EXCEPT !.status = "well"] \in Sound
  BY <1>2 DEF Sound, Tolerable, Calm, FighterRecord
<1>4. fighter' \in [Fighter -> Sound]
  BY <1>2, <1>3
<1> QED
  BY <1>1, <1>4 DEF FightInv

LEMMA ChangePartyInv == ASSUME FightInv, ChangeParty PROVE FightInv'
<1>1. PICK together \in BOOLEAN :
        fighter' = [p \in Fighter |-> [fighter[p] EXCEPT !.inParty = together /\ p \in Here(fighter)]]
        /\ UNCHANGED ring
  BY DEF ChangeParty
<1>2. ASSUME NEW p \in Fighter, NEW b \in BOOLEAN
      PROVE  [fighter[p] EXCEPT !.inParty = b] \in Sound
  BY DEF FightInv, Sound, Tolerable, Calm, FighterRecord
<1>3. \A p \in Fighter : (together /\ p \in Here(fighter)) \in BOOLEAN
  OBVIOUS
<1> QED
  BY <1>1, <1>2, <1>3 DEF FightInv

LEMMA FightNextInv == FightInv /\ [FightNext]_fightVars => FightInv'
<1> SUFFICES ASSUME FightInv, [FightNext]_fightVars PROVE FightInv'
  OBVIOUS
<1>1. CASE UNCHANGED fightVars
  BY <1>1 DEF fightVars, FightInv
<1>2. CASE StepRing
  BY <1>2 DEF StepRing, FightInv, Here
<1> QED
  BY <1>1, <1>2, LoginInv, LogoutInv, StrikeInv, StrikeMonsterInv, OnThinkInv, DieInv, LeaveArenaInv,
     ChangePartyInv DEF FightNext

LEMMA FightInitInv == FightInit => FightInv
BY DEF FightInit, FightInv, Sound, Tolerable, Calm, FighterRecord

\* What a fight brings ends with it, in every behaviour of fights, arenas, parties, deaths,
\* bans and logins (player.cpp:2761).
THEOREM EndsWithFightAlways == FightSpec => []EndsWithFight
<1>1. FightInv => EndsWithFight
  BY DEF FightInv, Sound, Calm, EndsWithFight, Here
<1> QED
  BY <1>1, FightInitInv, FightNextInv, PTL DEF FightSpec

\* Nobody has a red skull without deaths to wait for, and all that is kept of a fighter has its type.
THEOREM FightTyped == FightSpec => []FightTypeOK
<1>1. FightInv => FightTypeOK
  BY SoundIsTolerable DEF FightInv, FightTypeOK
<1> QED
  BY <1>1, FightInitInv, FightNextInv, PTL DEF FightSpec
=============================================================================
