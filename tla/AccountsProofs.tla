--------------------------- MODULE AccountsProofs ---------------------------
(***************************************************************************)
(* Proofs about Accounts, for any number of accounts, characters,          *)
(* conversations and passwords and any bounds: what the manager agreed is  *)
(* what is stored, and passwords and premium time are those announced and  *)
(* given.  The invariant says what every conversation holds while it asks, *)
(* what it has read and not yet written, and which rows of the table of    *)
(* players are being made; a race is what torn, doubled and shared record. *)
(***************************************************************************)
EXTENDS Accounts, FiniteSetTheorems, TLAPS

-----------------------------------------------------------------------------
(* The invariant.                                                          *)

Row == [id : Nat \ {0}, name : Figure, account : Account, calling : Calling]
Dialogue ==
    [on : BOOLEAN, owner : BOOLEAN, account : Account \cup {FreeNumber}, asked : SUBSET (1 .. 11),
     name : Figure \cup {NoFigure}, calling : Calling, word : Secret \cup {NoSecret}, ticks : 0 .. MaxEnd,
     row : Nat, doing : {"hear", "open", "insert", "store"}, read : Secret \cup {NoSecret}, told : Calling]
Playing == [in : BOOLEAN, ticks : 0 .. MaxEnd, calling : Calling, row : Nat, raised : BOOLEAN]

AccountsTyped ==
    /\ accounts \in [Account -> [rows : 0 .. MaxRows, password : Secret, until : 0 .. MaxEnd]]
    /\ figures \subseteq Row
    /\ clerks \in [Clerk -> Dialogue]
    /\ world \in [Figure -> Playing]
    /\ saving \in [of : Figure \cup {NoFigure}, until : 0 .. MaxEnd, read : Secret \cup {NoSecret}]
    /\ day \in 0 .. LastDay /\ talks \in 0 .. MaxTalks
    /\ granted \in [Account -> 0 .. MaxEnd] /\ chosen \in [Account -> Secret]
    /\ agreed \in [Figure -> [account : Account \cup {FreeNumber}, calling : Calling]]

\* The rows of the table of players have numbers of their own.
Numbered ==
    /\ IsFiniteSet(figures)
    /\ \A f \in figures : f.id <= Cardinality(figures)
    /\ \A f, g \in figures : f.id = g.id => f = g

\* A conversation under the free number ...
Guest(d) ==
    /\ d.on /\ ~d.owner /\ d.ticks = 0 /\ d.doing \in {"hear", "open"}
    /\ d.asked \in {{3}, {1, 3}, {2, 3}}
    /\ d.account \in (IF d.asked = {2, 3} THEN Account ELSE {FreeNumber})
    /\ d.doing = "open" => d.asked = {2, 3}

\* ... and one about an account.
Owner(d) ==
    /\ d.on /\ d.owner /\ d.account \in Account /\ d.doing # "open"
    /\ \E q \in 3 .. 11 : d.asked = {q} /\ (q \in 8 .. 11 => d.name \in Figure)
    /\ d.asked = {6} => d.word \in Secret
    /\ d.asked = {11} => d.calling = d.told /\ CallingBefore[d.told] = d.told
    /\ d.doing = "insert" => d.asked = {11}
    /\ d.doing = "store" => d.asked = {11} \/ (d.asked = {6} /\ d.read = d.word)
    /\ d.doing \in {"insert", "store"} => d.read \in Secret

Shape(d) == d = NoClerk \/ Guest(d) \/ Owner(d)
Talking == \A m \in Clerk : Shape(clerks[m])

\* A player in the game has a row.
Rowed == \A n \in Figure : world[n].in => \E f \in figures : f.id = world[n].row /\ f.name = n

\* Only accounts that are there have owners and characters, and premium time.
Opened ==
    /\ \A m \in Clerk : clerks[m].owner => accounts[clerks[m].account].rows > 0
    /\ \A f \in figures : accounts[f.account].rows > 0
    /\ \A c \in Account : accounts[c].rows = 0 => accounts[c].until = 0 /\ granted[c] = 0

Tables == AccountsTyped /\ Numbered /\ Talking /\ Rowed /\ Opened

Clean(c) == c \notin shared \cup torn \cup doubled
SavedAccount == IF saving = NotSaving THEN FreeNumber ELSE OfAccount(saving.of)

\* What is written back is what was read, and what was given.
Saves ==
    saving # NotSaving =>
        /\ saving.of \in Figure /\ world[saving.of].in /\ saving.until > day /\ saving.read \in Secret
        /\ SavedAccount \notin torn \cup doubled => saving.read = accounts[SavedAccount].password
        /\ Clean(SavedAccount) => saving.until = granted[SavedAccount]

\* A character is being made.
Making(d) == d.doing \in {"insert", "store"} /\ d.asked = {11}

ReadFresh ==
    \A m \in Clerk : Making(clerks[m]) /\ clerks[m].account \notin torn \cup doubled =>
        clerks[m].read = accounts[clerks[m].account].password

Secrets == Saves /\ ReadFresh /\ SecretKept

\* One conversation makes a character that is not doubled, and its row is there when it was inserted.
OneMakes ==
    \A m, k \in Clerk :
        Making(clerks[m]) /\ Making(clerks[k]) /\ clerks[m].name = clerks[k].name =>
            m = k \/ clerks[m].name \in doubled
RowsMade ==
    \A m \in Clerk : Making(clerks[m]) /\ clerks[m].name \notin doubled =>
        IF clerks[m].doing = "insert" THEN \A f \in figures : f.name # clerks[m].name
        ELSE \E f \in figures : f.name = clerks[m].name
OneRow == \A f, g \in figures : f.name = g.name /\ f.name \notin doubled => f = g

\* What was agreed is what is made, and what is played.
MadeAgreed ==
    doubled = {} => \A m \in Clerk : Making(clerks[m]) =>
        /\ agreed[clerks[m].name] = [account |-> clerks[m].account, calling |-> clerks[m].told]
        /\ \A f \in figures : f.name = clerks[m].name => f.account = clerks[m].account
RowAgreed ==
    doubled = {} => \A f \in figures :
        (\A m \in Clerk : Making(clerks[m]) => clerks[m].name # f.name) =>
            f.account = agreed[f.name].account /\ CallingBefore[f.calling] = agreed[f.name].calling
PlayedAgreed ==
    doubled = {} => \A n \in Figure : world[n].in =>
        /\ CallingBefore[world[n].calling] = agreed[n].calling
        /\ \A m \in Clerk : Making(clerks[m]) => clerks[m].name # n

Names == OneMakes /\ RowsMade /\ OneRow /\ MadeAgreed /\ RowAgreed /\ PlayedAgreed

\* The owner of an account that is settled knows how long it has premium time, and so do its players.
Quiet(c) == Clean(c) /\ SavedAccount # c
Known ==
    \A m \in Clerk : clerks[m].owner /\ Quiet(clerks[m].account) =>
        Ahead(clerks[m].ticks) = Ahead(granted[clerks[m].account])
KeptQuiet == \A c \in Account : Quiet(c) => Ahead(accounts[c].until) = Ahead(granted[c])
PlayedQuiet ==
    \A n \in Figure : world[n].in =>
        /\ world[n].ticks = 0 /\ ~world[n].raised => world[n].calling = CallingBefore[world[n].calling]
        /\ Quiet(OfAccount(n)) => world[n].ticks \in {0, granted[OfAccount(n)]}

Premium == Known /\ KeptQuiet /\ PlayedQuiet

AccountsInv == Tables /\ Secrets /\ Names /\ Premium

-----------------------------------------------------------------------------
(* What is asked.                                                          *)

\* The last question about a password is not that about a character.
LEMMA TwoBooks ==
    {6} # {11} /\ 6 \notin {11} /\ 11 \notin {6}
OBVIOUS

\* The open question of an owner is the only one; that of a guest is one about the new account.
LEMMA OwnerOpen ==
    ASSUME NEW d \in Dialogue, Owner(d)
    PROVE  d.asked = {Open(d)} /\ Open(d) \in 3 .. 11
<1>1. PICK q \in 3 .. 11 : d.asked = {q}
    BY DEF Owner
<1>2. d.asked \cap 3 .. 11 = {q}
    BY <1>1
<1>3. d.owner
    BY DEF Owner
<1>4. (CHOOSE x \in {q} : \A r \in {q} : r <= x) = q
    OBVIOUS
<1> QED
    BY <1>1, <1>2, <1>3, <1>4 DEF Open

\* A conversation under the free number is about a new account or waits for one.
LEMMA GuestOpen ==
    ASSUME NEW d \in Dialogue, Guest(d)
    PROVE  /\ Open(d) \in 0 .. 2 /\ Open(d) \notin 3 .. 11
           /\ d.asked = (IF Open(d) = 0 THEN {3} ELSE {Open(d), 3})
<1>1. ~d.owner /\ d.asked \in {{3}, {1, 3}, {2, 3}}
    BY DEF Guest
<1>2. CASE d.asked = {3}
    <2>1. d.asked \cap {1, 2} = {}
        BY <1>2
    <2> QED
        BY <1>1, <1>2, <2>1 DEF Open
<1>3. CASE d.asked = {1, 3}
    <2>1. d.asked \cap {1, 2} = {1}
        BY <1>3
    <2>2. (CHOOSE x \in {1} : \A r \in {1} : r <= x) = 1
        OBVIOUS
    <2> QED
        BY <1>1, <1>3, <2>1, <2>2 DEF Open
<1>4. CASE d.asked = {2, 3}
    <2>1. d.asked \cap {1, 2} = {2}
        BY <1>4
    <2>2. (CHOOSE x \in {2} : \A r \in {2} : r <= x) = 2
        OBVIOUS
    <2> QED
        BY <1>1, <1>4, <2>1, <2>2 DEF Open
<1> QED
    BY <1>1, <1>2, <1>3, <1>4

\* Only an owner is asked about a character or a password.
LEMMA OwnerAsked ==
    ASSUME AccountsInv, NEW m \in Clerk, NEW q \in 3 .. 11, Asks(m, q)
    PROVE  /\ clerks[m] \in Dialogue /\ Owner(clerks[m]) /\ clerks[m].asked = {q}
           /\ clerks[m].on /\ clerks[m].owner /\ clerks[m].doing = "hear" /\ clerks[m].account \in Account
           /\ q \in 8 .. 11 => clerks[m].name \in Figure
           /\ clerks[m].name \in Figure \cup {NoFigure} /\ clerks[m].calling \in Calling /\ clerks[m].told \in Calling
<1> DEFINE c == clerks[m]
<1>1. c \in Dialogue /\ Shape(c) /\ c.on /\ c.doing = "hear" /\ Open(c) = q /\ Open(c) \in 3 .. 11
    BY DEF AccountsInv, Tables, AccountsTyped, Talking, Asks
<1> HIDE DEF c
<1>2. ~Guest(c)
    BY <1>1, GuestOpen, Zenon
<1>3. Owner(c)
    BY <1>1, <1>2 DEF Shape, NoClerk
<1>4. c.asked = {q}
    BY <1>1, <1>3, OwnerOpen
<1>5. \A x \in 3 .. 11 : {q} = {x} => x = q
    OBVIOUS
<1>6. c.owner /\ c.account \in Account /\ (q \in 8 .. 11 => c.name \in Figure)
    BY <1>3, <1>4, <1>5 DEF Owner
<1>7. c.name \in Figure \cup {NoFigure} /\ c.calling \in Calling /\ c.told \in Calling
    BY <1>1 DEF Dialogue
<1> QED
    BY <1>1, <1>3, <1>4, <1>6, <1>7 DEF c

\* A step of a conversation that makes no character leaves the rest as it was.
TalkOnly ==
    /\ talks' \in 0 .. MaxTalks
    /\ UNCHANGED <<tables, world, saving, day, records>>

\* A step of one conversation that makes no character keeps the invariant.
LEMMA TalkStep ==
    ASSUME AccountsInv, TalkOnly, NEW m \in Clerk, NEW d \in Dialogue,
           clerks' = [clerks EXCEPT ![m] = d], Shape(d), ~Making(d), ~Making(clerks[m]),
           d.owner => accounts[d.account].rows > 0,
           d.owner /\ Quiet(d.account) => Ahead(d.ticks) = Ahead(granted[d.account])
    PROVE  AccountsInv'
<1> USE DEF TalkOnly, tables, records
<1>1. clerks \in [Clerk -> Dialogue] /\ clerks' \in [Clerk -> Dialogue]
    BY DEF AccountsInv, Tables, AccountsTyped
<1>2. /\ clerks'[m] = d
      /\ \A k \in Clerk : k # m => clerks'[k] = clerks[k]
    BY <1>1
<1>3. \A k \in Clerk : Making(clerks'[k]) => clerks'[k] = clerks[k]
    BY <1>2
<1>4. \A k \in Clerk : Making(clerks[k]) => clerks'[k] = clerks[k]
    BY <1>2
<1>5. AccountsTyped'
    BY <1>1 DEF AccountsInv, Tables, AccountsTyped
<1>6. Numbered' /\ Rowed'
    BY DEF AccountsInv, Tables, Numbered, Rowed
<1>7. Talking'
    BY <1>2 DEF AccountsInv, Tables, Talking
<1>8. Opened'
    BY <1>2 DEF AccountsInv, Tables, Opened
<1>9. /\ SavedAccount' = SavedAccount
      /\ \A n \in Figure : OfAccount(n)' = OfAccount(n)
      /\ \A c : Clean(c)' = Clean(c)
      /\ \A c : Quiet(c)' = Quiet(c)
      /\ \A x : Ahead(x)' = Ahead(x)
    BY DEF SavedAccount, OfAccount, Clean, Quiet, Ahead
<1>10. Saves' /\ SecretKept'
    BY <1>9 DEF AccountsInv, Secrets, Saves, SecretKept
<1>11. ReadFresh'
    BY <1>3 DEF AccountsInv, Secrets, ReadFresh
<1>12. OneMakes'
    BY <1>3 DEF AccountsInv, Names, OneMakes
<1>13. RowsMade'
    BY <1>3 DEF AccountsInv, Names, RowsMade
<1>14. OneRow'
    BY DEF AccountsInv, Names, OneRow
<1>15. MadeAgreed'
    BY <1>3 DEF AccountsInv, Names, MadeAgreed
<1>16. RowAgreed'
    BY <1>4 DEF AccountsInv, Names, RowAgreed
<1>17. PlayedAgreed'
    BY <1>3 DEF AccountsInv, Names, PlayedAgreed
<1>18. Known'
    BY <1>2, <1>9 DEF AccountsInv, Premium, Known
<1>19. KeptQuiet' /\ PlayedQuiet'
    BY <1>9 DEF AccountsInv, Premium, KeptQuiet, PlayedQuiet
<1> QED
    BY <1>5, <1>6, <1>7, <1>8, <1>10, <1>11, <1>12, <1>13, <1>14, <1>15, <1>16, <1>17, <1>18, <1>19
    DEF AccountsInv, Tables, Secrets, Names, Premium

\* Back to the first question.
IsFree(e, d) == e \in Dialogue /\ Owner(e) /\ ~Making(e) /\ e.owner /\ e.account = d.account /\ e.ticks = d.ticks

\* A conversation that starts over asks for nothing and makes nothing.
LEMMA FreeAsks ==
    ASSUME AccountsAssumption, NEW d \in Dialogue, d.account \in Account
    PROVE  IsFree(Free(d), d) /\ \A r \in Nat : IsFree([Free(d) EXCEPT !.row = r], d)
<1>1. {3} \subseteq 1 .. 11 /\ 3 \in 3 .. 11 /\ {3} # {6} /\ {3} # {11} /\ 3 \notin 8 .. 11
    OBVIOUS
<1>2. \A q \in 3 .. 11 : {3} = {q} => q = 3
    OBVIOUS
<1>3. NoClerk \in Dialogue
    BY <1>1 DEF NoClerk, Dialogue, AccountsAssumption
<1>4. IsFree(Free(d), d)
    <2> DEFINE e == Free(d)
    <2>1. e \in Dialogue
        BY <1>1, <1>3 DEF Free, Dialogue, NoClerk
    <2>2. e.on /\ e.owner /\ e.account = d.account /\ e.asked = {3} /\ e.doing = "hear" /\ e.ticks = d.ticks
        BY DEF Free, NoClerk
    <2> HIDE DEF e
    <2> QED
        BY <1>1, <2>1, <2>2 DEF IsFree, Owner, Making, e
<1>5. ASSUME NEW r \in Nat
      PROVE  IsFree([Free(d) EXCEPT !.row = r], d)
    <2> DEFINE e == [Free(d) EXCEPT !.row = r]
    <2>1. e \in Dialogue
        BY <1>1, <1>3 DEF Free, Dialogue, NoClerk
    <2>2. e.on /\ e.owner /\ e.account = d.account /\ e.asked = {3} /\ e.doing = "hear" /\ e.ticks = d.ticks
        BY DEF Free, NoClerk
    <2> HIDE DEF e
    <2> QED
        BY <1>1, <2>1, <2>2 DEF IsFree, Owner, Making, e
<1> QED
    BY <1>4, <1>5

\* The next question.
LEMMA TurnAsks ==
    ASSUME NEW d \in Dialogue, NEW q \in 3 .. 11, NEW r \in 3 .. 11, d.asked = {q}
    PROVE  Turn(d, q, r) \in Dialogue /\ Turn(d, q, r) = [d EXCEPT !.asked = {r}]
<1>1. (d.asked \ {q}) \cup {r} = {r} /\ {r} \subseteq 1 .. 11
    OBVIOUS
<1> QED
    BY <1>1 DEF Turn, Dialogue

\* An owner answers a question that is not about a character.
LEMMA OwnerHears ==
    ASSUME AccountsAssumption, AccountsInv, TalkOnly, NEW m \in Clerk, NEW q \in 3 .. 11, Asks(m, q),
           NEW d \in Dialogue, clerks' = [clerks EXCEPT ![m] = d],
           Owner(d), d.doing # "insert", d.doing = "store" => d.asked = {6},
           d.account = clerks[m].account, d.ticks = clerks[m].ticks
    PROVE  AccountsInv'
<1>1. clerks[m] \in Dialogue /\ Shape(clerks[m]) /\ clerks[m].on /\ clerks[m].doing = "hear"
    BY DEF AccountsInv, Tables, AccountsTyped, Talking, Asks
<1>2. ~Guest(clerks[m])
    <2>1. Open(clerks[m]) \in 3 .. 11
        BY DEF Asks
    <2> QED
        BY <1>1, <2>1, GuestOpen, Zenon
<1>3. Owner(clerks[m])
    BY <1>1, <1>2 DEF Shape, NoClerk
<1>4. clerks[m].owner /\ ~Making(clerks[m])
    BY <1>1, <1>3 DEF Owner, Making
<1>5. accounts[d.account].rows > 0
    BY <1>4 DEF AccountsInv, Tables, Opened
<1>6. Quiet(d.account) => Ahead(d.ticks) = Ahead(granted[d.account])
    BY <1>4 DEF AccountsInv, Premium, Known
<1>7. {6} # {11}
    OBVIOUS
<1>8. ~Making(d) /\ Shape(d)
    BY <1>7 DEF Making, Shape, Dialogue
<1> QED
    BY <1>4, <1>5, <1>6, <1>8, TalkStep

\* An answer under the free number.
LEMMA GuestHears ==
    ASSUME AccountsAssumption, AccountsInv, TalkOnly, NEW m \in Clerk, Guest(clerks[m]),
           NEW d \in Dialogue, clerks' = [clerks EXCEPT ![m] = d], Guest(d)
    PROVE  AccountsInv'
<1>1. ~Making(d) /\ ~Making(clerks[m]) /\ ~d.owner /\ Shape(d)
    BY DEF Guest, Making, Shape
<1> QED
    BY <1>1, TalkStep

\* Questions about a password keep the invariant.
LEMMA AboutSecretStep ==
    ASSUME AccountsAssumption, AccountsInv, NEW m \in Clerk, AboutSecret(m),
           UNCHANGED <<talks, tables, world, saving, day, granted, chosen, shared, torn>>
    PROVE  AccountsInv'
<1> DEFINE c == clerks[m]
<1>1. c \in Dialogue /\ Shape(c)
    BY DEF AccountsInv, Tables, AccountsTyped, Talking
<1>2. talks' \in 0 .. MaxTalks
    BY DEF AccountsInv, Tables, AccountsTyped
<1>3. PICK q \in 3 .. 6 : /\ Asks(m, q)
                          /\ \/ q = 3 /\ Hears(m, Turn(c, 3, 4))
                             \/ q = 4 /\ (Hears(m, Free(c)) \/ Hears(m, Turn(c, 4, 5)))
                             \/ q = 5 /\ \E w \in Secret : Hears(m, [Turn(c, 5, 6) EXCEPT !.word = w])
                             \/ q = 6 /\ (Hears(m, Free(c)) \/ Hears(m, [c EXCEPT !.doing = "store", !.read = c.word]))
    BY DEF AboutSecret
<1>4. c.on /\ c.doing = "hear" /\ Open(c) = q /\ q \in 3 .. 11
    BY <1>3 DEF Asks
<1>5. Owner(c)
    <2>1. ~Guest(c)
        BY <1>1, <1>4, GuestOpen, Zenon
    <2> QED
        BY <1>1, <1>4, <2>1 DEF Shape, NoClerk
<1>6. c.asked = {q} /\ c.account \in Account
    BY <1>1, <1>4, <1>5, OwnerOpen DEF Owner
<1>7. TalkOnly /\ \E d : clerks' = [clerks EXCEPT ![m] = d] /\ d \in {Free(c), Turn(c, 3, 4), Turn(c, 4, 5),
            [c EXCEPT !.doing = "store", !.read = c.word]} \cup {[Turn(c, 5, 6) EXCEPT !.word = w] : w \in Secret}
    BY <1>2, <1>3 DEF Hears, TalkOnly, records
<1>8. CASE Hears(m, Free(c))
    <2>1. /\ Free(c) \in Dialogue /\ Owner(Free(c)) /\ Free(c).doing = "hear"
          /\ Free(c).account = c.account /\ Free(c).ticks = c.ticks
        BY <1>1, <1>6, FreeAsks DEF IsFree, Free, NoClerk
    <2> QED
        BY <1>3, <1>4, <1>7, <1>8, <2>1, OwnerHears DEF Hears
<1>9. CASE \E r \in {4, 5} : q = r - 1 /\ Hears(m, Turn(c, r - 1, r))
    <2>1. PICK r \in {4, 5} : q = r - 1 /\ Hears(m, Turn(c, r - 1, r))
        BY <1>9
    <2> DEFINE d == Turn(c, q, r)
    <2>2. d \in Dialogue /\ d = [c EXCEPT !.asked = {r}] /\ r \in 3 .. 11
        <3>1. r \in 3 .. 11
            BY <2>1
        <3> HIDE DEF c
        <3> QED
            BY <1>1, <1>4, <1>6, <3>1, TurnAsks
    <2>3. /\ d.on /\ d.owner /\ d.account = c.account /\ d.doing = "hear" /\ d.asked = {r} /\ d.ticks = c.ticks
        BY <1>1, <1>4, <1>5, <2>2 DEF Dialogue, Owner
    <2>4. {r} # {6} /\ {r} # {11} /\ r \notin 8 .. 11
        BY <2>1
    <2>5. Owner(d)
        BY <1>6, <2>2, <2>3, <2>4 DEF Owner
    <2>6. clerks' = [clerks EXCEPT ![m] = d]
        BY <2>1 DEF Hears
    <2> HIDE DEF d
    <2> QED
        BY <1>3, <1>4, <1>7, <2>2, <2>3, <2>5, <2>6, OwnerHears
<1>10. CASE q = 5 /\ \E w \in Secret : Hears(m, [Turn(c, 5, 6) EXCEPT !.word = w])
    <2>1. PICK w \in Secret : Hears(m, [Turn(c, 5, 6) EXCEPT !.word = w])
        BY <1>10
    <2> DEFINE d == [Turn(c, 5, 6) EXCEPT !.word = w]
    <2>2. Turn(c, 5, 6) \in Dialogue /\ Turn(c, 5, 6) = [c EXCEPT !.asked = {6}]
        <3>1. 5 \in 3 .. 11 /\ 6 \in 3 .. 11
            OBVIOUS
        <3> HIDE DEF c
        <3> QED
            BY <1>1, <1>6, <1>10, <3>1, TurnAsks
    <2>3. /\ d \in Dialogue
          /\ d.on /\ d.owner /\ d.account = c.account /\ d.doing = "hear" /\ d.asked = {6} /\ d.ticks = c.ticks /\ d.word = w
        BY <1>1, <1>4, <1>5, <2>2 DEF Dialogue, Owner
    <2>4. {6} # {11} /\ 6 \notin 8 .. 11 /\ 6 \in 3 .. 11 /\ \A x \in 3 .. 11 : {6} = {x} => x = 6
        OBVIOUS
    <2>5. Owner(d)
        BY <1>6, <2>3, <2>4 DEF Owner
    <2>6. clerks' = [clerks EXCEPT ![m] = d]
        BY <2>1 DEF Hears
    <2> HIDE DEF d
    <2> QED
        BY <1>3, <1>4, <1>7, <2>3, <2>5, <2>6, OwnerHears
<1>11. CASE q = 6 /\ Hears(m, [c EXCEPT !.doing = "store", !.read = c.word])
    <2> DEFINE d == [c EXCEPT !.doing = "store", !.read = c.word]
    <2>1. c.word \in Secret
        BY <1>5, <1>6, <1>11 DEF Owner
    <2>2. /\ d \in Dialogue
          /\ d.on /\ d.owner /\ d.account = c.account /\ d.doing = "store" /\ d.asked = {6} /\ d.ticks = c.ticks
          /\ d.word = c.word /\ d.read = c.word
        BY <1>1, <1>4, <1>5, <1>6, <1>11, <2>1 DEF Dialogue, Owner
    <2>3. {6} # {11} /\ 6 \notin 8 .. 11 /\ 6 \in 3 .. 11 /\ \A x \in 3 .. 11 : {6} = {x} => x = 6
        OBVIOUS
    <2>4. Owner(d)
        BY <1>6, <2>1, <2>2, <2>3 DEF Owner
    <2>5. clerks' = [clerks EXCEPT ![m] = d]
        BY <1>11 DEF Hears
    <2> HIDE DEF d
    <2> QED
        BY <1>3, <1>4, <1>7, <2>2, <2>4, <2>5, OwnerHears
<1>12. 4 - 1 = 3 /\ 5 - 1 = 4
    OBVIOUS
<1>13. Hears(m, Free(c)) \/ (q = 3 /\ Hears(m, Turn(c, 3, 4))) \/ (q = 4 /\ Hears(m, Turn(c, 4, 5)))
       \/ (q = 5 /\ \E w \in Secret : Hears(m, [Turn(c, 5, 6) EXCEPT !.word = w]))
       \/ (q = 6 /\ Hears(m, [c EXCEPT !.doing = "store", !.read = c.word]))
    BY <1>3
<1>14. (q = 3 /\ Hears(m, Turn(c, 3, 4))) \/ (q = 4 /\ Hears(m, Turn(c, 4, 5)))
       => \E r \in {4, 5} : q = r - 1 /\ Hears(m, Turn(c, r - 1, r))
    BY <1>12
<1> HIDE DEF c
<1> QED
    BY <1>8, <1>9, <1>10, <1>11, <1>13, <1>14

\* Questions about a new account keep it.
LEMMA AboutAccountStep ==
    ASSUME AccountsAssumption, AccountsInv, NEW m \in Clerk, AboutAccount(m),
           UNCHANGED <<talks, tables, world, saving, day, granted, chosen, shared, torn>>
    PROVE  AccountsInv'
<1> DEFINE c == clerks[m]
<1>1. c \in Dialogue /\ Shape(c)
    BY DEF AccountsInv, Tables, AccountsTyped, Talking
<1>2. talks' \in 0 .. MaxTalks
    BY DEF AccountsInv, Tables, AccountsTyped
<1>3. c.on /\ c.doing = "hear" /\ ~c.owner
    BY DEF AboutAccount, Asks
<1>4. Guest(c)
    BY <1>1, <1>3 DEF Shape, NoClerk, Owner
<1>5. TalkOnly
    BY <1>2 DEF AboutAccount, Hears, TalkOnly, records
<1>6. \/ Asks(m, 0) /\ Hears(m, [c EXCEPT !.asked = @ \cup {1}])
      \/ Asks(m, 1) /\ \E a \in Account : Hears(m, [Turn(c, 1, 2) EXCEPT !.account = a])
      \/ Asks(m, 2) /\ Hears(m, [c EXCEPT !.asked = @ \ {2}, !.account = FreeNumber])
      \/ Asks(m, 2) /\ Hears(m, [c EXCEPT !.doing = "open"])
    BY DEF AboutAccount
<1>7. /\ {3} \cup {1} = {1, 3} /\ ({1, 3} \ {1}) \cup {2} = {2, 3} /\ {2, 3} \ {2} = {3} /\ {0 + 2, 3} = {2, 3}
      /\ {1, 3} \subseteq 1 .. 11 /\ {2, 3} \subseteq 1 .. 11 /\ {3} \subseteq 1 .. 11 /\ {1, 3} # {2, 3} /\ {3} # {2, 3}
    OBVIOUS
<1>8. c.asked = (IF Open(c) = 0 THEN {3} ELSE {Open(c), 3})
    <2> HIDE DEF c
    <2> QED
        BY <1>1, <1>4, GuestOpen
<1>9. CASE Asks(m, 0) /\ Hears(m, [c EXCEPT !.asked = @ \cup {1}])
    <2> DEFINE d == [c EXCEPT !.asked = @ \cup {1}]
    <2>1. c.asked = {3}
        BY <1>8, <1>9 DEF Asks
    <2>2. d \in Dialogue /\ d = [c EXCEPT !.asked = {1, 3}]
        BY <1>1, <1>7, <2>1 DEF Dialogue
    <2>3. Guest(d)
        BY <1>1, <1>3, <1>4, <1>7, <2>1, <2>2 DEF Guest, Dialogue
    <2>4. clerks' = [clerks EXCEPT ![m] = d]
        BY <1>9 DEF Hears
    <2> HIDE DEF d
    <2> QED
        BY <1>4, <1>5, <2>2, <2>3, <2>4, GuestHears
<1>10. CASE Asks(m, 1) /\ \E a \in Account : Hears(m, [Turn(c, 1, 2) EXCEPT !.account = a])
    <2>1. PICK a \in Account : Hears(m, [Turn(c, 1, 2) EXCEPT !.account = a])
        BY <1>10
    <2> DEFINE d == [Turn(c, 1, 2) EXCEPT !.account = a]
    <2>2. c.asked = {1, 3}
        BY <1>8, <1>10 DEF Asks
    <2>3. d \in Dialogue /\ d = [c EXCEPT !.asked = {2, 3}, !.account = a]
        BY <1>1, <1>7, <2>2 DEF Dialogue, Turn
    <2>4. Guest(d)
        BY <1>1, <1>3, <1>4, <1>7, <2>3 DEF Guest, Dialogue
    <2>5. clerks' = [clerks EXCEPT ![m] = d]
        BY <2>1 DEF Hears
    <2> HIDE DEF d
    <2> QED
        BY <1>4, <1>5, <2>3, <2>4, <2>5, GuestHears
<1>11. CASE Asks(m, 2) /\ Hears(m, [c EXCEPT !.asked = @ \ {2}, !.account = FreeNumber])
    <2> DEFINE d == [c EXCEPT !.asked = @ \ {2}, !.account = FreeNumber]
    <2>1. c.asked = {2, 3}
        BY <1>8, <1>11 DEF Asks
    <2>2. d \in Dialogue /\ d = [c EXCEPT !.asked = {3}, !.account = FreeNumber]
        BY <1>1, <1>7, <2>1 DEF Dialogue
    <2>3. Guest(d)
        BY <1>1, <1>3, <1>4, <1>7, <2>2 DEF Guest, Dialogue
    <2>4. clerks' = [clerks EXCEPT ![m] = d]
        BY <1>11 DEF Hears
    <2> HIDE DEF d
    <2> QED
        BY <1>4, <1>5, <2>2, <2>3, <2>4, GuestHears
<1>12. CASE Asks(m, 2) /\ Hears(m, [c EXCEPT !.doing = "open"])
    <2> DEFINE d == [c EXCEPT !.doing = "open"]
    <2>1. c.asked = {2, 3}
        BY <1>8, <1>12 DEF Asks
    <2>2. d \in Dialogue
        BY <1>1 DEF Dialogue
    <2>3. Guest(d)
        BY <1>1, <1>3, <1>4, <1>7, <2>1 DEF Guest, Dialogue
    <2>4. clerks' = [clerks EXCEPT ![m] = d]
        BY <1>12 DEF Hears
    <2> HIDE DEF d
    <2> QED
        BY <1>4, <1>5, <2>2, <2>3, <2>4, GuestHears
<1> QED
    BY <1>6, <1>9, <1>10, <1>11, <1>12

\* The conversation about a character up to the last question.
Turned(c, r, n, v, t) == [c EXCEPT !.asked = {r}, !.name = n, !.calling = v, !.told = t]

IsTurned(d, c, r, n, v, t) ==
    /\ d \in Dialogue
    /\ d.on = c.on /\ d.owner = c.owner /\ d.account = c.account /\ d.doing = c.doing
    /\ d.asked = {r} /\ d.name = n /\ d.calling = v /\ d.told = t /\ d.ticks = c.ticks

\* The fields of a conversation after such a turn.
LEMMA TurnedIs ==
    ASSUME NEW c \in Dialogue, NEW r \in 3 .. 11, NEW n \in Figure \cup {NoFigure},
           NEW v \in Calling, NEW t \in Calling
    PROVE  IsTurned(Turned(c, r, n, v, t), c, r, n, v, t)
<1>1. {r} \subseteq 1 .. 11
    OBVIOUS
<1> QED
    BY <1>1 DEF Dialogue, Turned, IsTurned

\* Turn as such a turn.
LEMMA TurnIs ==
    ASSUME NEW c \in Dialogue, NEW q \in 3 .. 11, NEW r \in 3 .. 11, c.asked = {q}
    PROVE  Turn(c, q, r) = Turned(c, r, c.name, c.calling, c.told)
<1>1. Turn(c, q, r) = [c EXCEPT !.asked = {r}]
    BY TurnAsks
<1>2. [c EXCEPT !.asked = {r}] = Turned(c, r, c.name, c.calling, c.told)
    BY DEF Turned, Dialogue
<1> QED
    BY <1>1, <1>2, Zenon

\* A turn to the next question about a character keeps the invariant.
LEMMA FigureTurnStep ==
    ASSUME AccountsAssumption, AccountsInv, TalkOnly, NEW m \in Clerk, NEW q \in 3 .. 11, Asks(m, q),
           NEW r \in 3 .. 11, r # 6, NEW n \in Figure \cup {NoFigure}, NEW v \in Calling, NEW t \in Calling,
           NEW c, c = clerks[m], clerks' = [clerks EXCEPT ![m] = Turned(c, r, n, v, t)],
           r \in 8 .. 11 => n \in Figure, r = 11 => v = t /\ CallingBefore[t] = t
    PROVE  AccountsInv'
<1> DEFINE d == Turned(c, r, n, v, t)
<1>1. c \in Dialogue /\ c.on /\ c.owner /\ c.account \in Account /\ c.doing = "hear"
    BY OwnerAsked
<1>2. /\ d \in Dialogue
      /\ d.on /\ d.owner /\ d.account = c.account /\ d.doing = "hear" /\ d.asked = {r} /\ d.name = n
      /\ d.calling = v /\ d.told = t /\ d.ticks = c.ticks
    <2>1. IsTurned(d, c, r, n, v, t)
        BY <1>1, TurnedIs
    <2> QED
        BY <1>1, <2>1 DEF IsTurned
<1>3. clerks' = [clerks EXCEPT ![m] = d]
    OBVIOUS
<1>5. {r} # {6} /\ ({r} = {11} => r = 11) /\ \A x \in 3 .. 11 : {r} = {x} => x = r
    OBVIOUS
<1> HIDE DEF d
<1>6. Owner(d)
    BY <1>1, <1>2, <1>5 DEF Owner
<1> QED
    BY <1>2, <1>3, <1>6, OwnerHears

-----------------------------------------------------------------------------
(* What is agreed.                                                         *)

\* A name is there when it has one row.
LEMMA OneThere ==
    ASSUME IsFiniteSet(figures), NEW n
    PROVE  /\ Exists(n) <=> \E f : RowsOf(n) = {f}
           /\ Exists(n) => \E f \in figures : /\ f.name = n /\ RowsOf(n) = {f}
                                               /\ \A g \in figures : g.name = n => g = f
           /\ \A f \in figures : f.name = n /\ (\A g \in figures : g.name = n => g = f) => Exists(n)
<1>1. IsFiniteSet(RowsOf(n))
    BY FS_Subset DEF RowsOf
<1>2. Exists(n) <=> \E f : RowsOf(n) = {f}
    BY <1>1, FS_Singleton DEF Exists
<1>3. Exists(n) => \E f \in figures : /\ f.name = n /\ RowsOf(n) = {f}
                                      /\ \A g \in figures : g.name = n => g = f
    <2>1. ASSUME Exists(n)
          PROVE  \E f \in figures : f.name = n /\ RowsOf(n) = {f} /\ \A g \in figures : g.name = n => g = f
        <3>1. PICK f : RowsOf(n) = {f}
            BY <1>2, <2>1
        <3>2. f \in RowsOf(n) /\ \A g \in RowsOf(n) : g = f
            BY <3>1
        <3>3. f \in figures /\ f.name = n /\ \A g \in figures : g.name = n => g = f
            BY <3>2 DEF RowsOf
        <3> QED
            BY <3>1, <3>3
    <2> QED
        BY <2>1
<1>4. ASSUME NEW f \in figures, f.name = n, \A g \in figures : g.name = n => g = f
      PROVE  Exists(n)
    <2>1. RowsOf(n) = {f}
        BY <1>4 DEF RowsOf
    <2> QED
        BY <1>2, <2>1
<1> QED
    BY <1>2, <1>3, <1>4

\* Who makes a character has an account and a name for it.
LEMMA MakerOwns ==
    ASSUME NEW d \in Dialogue, Shape(d), Making(d)
    PROVE  /\ Owner(d) /\ d.owner /\ d.on /\ d.account \in Account /\ d.name \in Figure /\ d.read \in Secret
           /\ d.calling = d.told /\ d.told \in Calling /\ CallingBefore[d.told] = d.told
<1>1. d.asked = {11} /\ d.doing \in {"insert", "store"}
    BY DEF Making
<1>2. Owner(d)
    BY <1>1 DEF Shape, Guest, NoClerk
<1>3. PICK q \in 3 .. 11 : {11} = {q} /\ (q \in 8 .. 11 => d.name \in Figure)
    BY <1>1, <1>2 DEF Owner
<1>4. q = 11
    BY <1>3
<1>5. d.name \in Figure
    BY <1>3, <1>4
<1> QED
    BY <1>1, <1>2, <1>5 DEF Owner, Dialogue

\* What is agreed in a conversation.
Said(c) == [account |-> c.account, calling |-> c.told]

\* A conversation that agrees on a character: the account is read, the row not yet there.
LEMMA AgreeStep ==
    ASSUME AccountsAssumption, AccountsInv, NEW m \in Clerk, NEW c \in Dialogue, c = clerks[m],
           Owner(c), c.asked = {11}, c.doing = "hear", ~Exists(c.name),
           NEW d \in Dialogue, d = [c EXCEPT !.doing = "insert", !.read = accounts[c.account].password],
           clerks' = [clerks EXCEPT ![m] = d], agreed' = [agreed EXCEPT ![c.name] = Said(c)],
           doubled \subseteq doubled', Rivals(m, c.name) # {} => c.name \in doubled',
           UNCHANGED <<talks, tables, world, saving, day, granted, chosen, shared, torn>>
    PROVE  AccountsInv'
<1> USE DEF tables
<1>1. \A q \in 3 .. 11 : {11} = {q} => q = 11
    OBVIOUS
<1>2. {11} # {6} /\ 11 \in 3 .. 11 /\ 11 \in 8 .. 11 /\ {11} # {} /\ {11} # {3} /\ {11} # {1, 3} /\ {11} # {2, 3}
    BY Zenon, SMT
<1>5. /\ c.on /\ c.owner /\ c.account \in Account /\ c.name \in Figure /\ c.calling = c.told
      /\ CallingBefore[c.told] = c.told /\ c.told \in Calling
    BY <1>1, <1>2 DEF Owner, Dialogue
<1>6. accounts[c.account].password \in Secret
    BY <1>5 DEF AccountsInv, Tables, AccountsTyped
<1>70. clerks \in [Clerk -> Dialogue] /\ clerks' \in [Clerk -> Dialogue]
    BY DEF AccountsInv, Tables, AccountsTyped
<1>7. /\ clerks \in [Clerk -> Dialogue] /\ clerks' \in [Clerk -> Dialogue]
      /\ clerks'[m] = d
      /\ \A k \in Clerk : k # m => clerks'[k] = clerks[k]
    BY <1>70
<1>8. /\ d.on /\ d.owner /\ d.account = c.account /\ d.asked = {11} /\ d.name = c.name /\ d.calling = c.calling
      /\ d.told = c.told /\ d.ticks = c.ticks /\ d.doing = "insert" /\ d.read = accounts[c.account].password
    BY <1>5 DEF Dialogue
<1>9. Making(d) /\ ~Making(c)
    BY <1>8 DEF Making
<1>10. Owner(d)
    BY <1>1, <1>2, <1>5, <1>6, <1>8 DEF Owner
<1>11. c.name \notin doubled => \A f \in figures : f.name # c.name
    <2>1. IsFiniteSet(figures)
        BY DEF AccountsInv, Tables, Numbered
    <2>2. \A f, g \in figures : f.name = g.name /\ f.name \notin doubled => f = g
        BY DEF AccountsInv, Names, OneRow
    <2>3. \A f \in figures : f.name = c.name /\ (\A g \in figures : g.name = c.name => g = f) => Exists(c.name)
        BY <2>1, OneThere
    <2> QED
        BY <2>2, <2>3
<1>12. \A k \in Clerk : k # m /\ Making(clerks[k]) /\ clerks[k].name = c.name => c.name \in doubled'
    <2>1. SUFFICES ASSUME NEW k \in Clerk, k # m, Making(clerks[k]), clerks[k].name = c.name, c.name \notin doubled
                   PROVE  c.name \in doubled'
        OBVIOUS
    <2>2. clerks[k].doing = "insert"
        BY <1>11, <2>1 DEF AccountsInv, Names, RowsMade, Making
    <2>3. k \in Rivals(m, c.name)
        BY <2>1, <2>2 DEF Rivals
    <2> QED
        BY <2>3
<1>16. agreed \in [Figure -> [account : Account \cup {FreeNumber}, calling : Calling]]
    BY DEF AccountsInv, Tables, AccountsTyped
<1>15. Said(c) \in [account : Account \cup {FreeNumber}, calling : Calling]
    BY <1>5 DEF Said
<1>17. /\ agreed' \in [Figure -> [account : Account \cup {FreeNumber}, calling : Calling]]
       /\ agreed'[c.name] = Said(c)
       /\ \A n \in Figure : n # c.name => agreed'[n] = agreed[n]
    BY <1>5, <1>15, <1>16
<1>18. AccountsTyped'
    BY <1>7, <1>17 DEF AccountsInv, Tables, AccountsTyped
<1>19. Numbered' /\ Rowed'
    BY DEF AccountsInv, Tables, Numbered, Rowed
<1>20. Talking'
    BY <1>7, <1>10 DEF AccountsInv, Tables, Talking, Shape
<1>21. Opened'
    BY <1>5, <1>7, <1>8 DEF AccountsInv, Tables, Opened
<1>22. /\ SavedAccount' = SavedAccount
       /\ \A n \in Figure : OfAccount(n)' = OfAccount(n)
       /\ \A a : Clean(a)' => Clean(a)
       /\ \A a : Quiet(a)' => Quiet(a)
       /\ \A x : Ahead(x)' = Ahead(x)
    BY DEF SavedAccount, OfAccount, Clean, Quiet, Ahead
<1>23. Saves' /\ SecretKept'
    BY <1>22 DEF AccountsInv, Secrets, Saves, SecretKept
<1>24. ReadFresh'
    BY <1>7, <1>8 DEF AccountsInv, Secrets, ReadFresh
<1>25. OneMakes'
    BY <1>7, <1>8, <1>12 DEF AccountsInv, Names, OneMakes
<1>26. RowsMade'
    BY <1>7, <1>8, <1>11 DEF AccountsInv, Names, RowsMade
<1>27. OneRow'
    BY DEF AccountsInv, Names, OneRow
<1>28. doubled' = {} => doubled = {} /\ \A k \in Clerk : k # m /\ Making(clerks[k]) => clerks[k].name # c.name
    BY <1>12
<1>29. doubled' = {} => \A f \in figures : f.name # c.name
    BY <1>11, <1>28
<1>30. MadeAgreed'
    <2>1. SUFFICES ASSUME doubled' = {}, NEW k \in Clerk, Making(clerks'[k])
                   PROVE  /\ agreed'[clerks'[k].name] = [account |-> clerks'[k].account, calling |-> clerks'[k].told]
                          /\ \A f \in figures : f.name = clerks'[k].name => f.account = clerks'[k].account
        BY DEF MadeAgreed
    <2>2. CASE k = m
        BY <1>7, <1>8, <1>17, <1>29, <2>1, <2>2 DEF Said
    <2>3. CASE k # m
        <3>1. /\ clerks'[k] = clerks[k] /\ Making(clerks[k]) /\ clerks[k].name # c.name
            BY <1>7, <1>28, <2>1, <2>3
        <3>2. clerks[k].name \in Figure
            BY <1>7, <3>1, MakerOwns DEF AccountsInv, Tables, Talking
        <3>3. /\ agreed[clerks[k].name] = [account |-> clerks[k].account, calling |-> clerks[k].told]
              /\ \A f \in figures : f.name = clerks[k].name => f.account = clerks[k].account
            BY <1>28, <2>1, <3>1 DEF AccountsInv, Names, MadeAgreed
        <3> QED
            BY <1>17, <3>1, <3>2, <3>3
    <2> QED
        BY <2>2, <2>3
<1>31. RowAgreed'
    <2>1. SUFFICES ASSUME doubled' = {}, NEW f \in figures,
                          \A k \in Clerk : Making(clerks'[k]) => clerks'[k].name # f.name
                   PROVE  f.account = agreed'[f.name].account /\ CallingBefore[f.calling] = agreed'[f.name].calling
        BY DEF RowAgreed
    <2>2. \A k \in Clerk : Making(clerks[k]) => clerks[k].name # f.name
        BY <1>7, <1>9, <2>1
    <2>3. f.name \in Figure
        BY DEF AccountsInv, Tables, AccountsTyped, Row
    <2> QED
        BY <1>17, <1>28, <1>29, <2>1, <2>2, <2>3 DEF AccountsInv, Names, RowAgreed
<1>32. PlayedAgreed'
    <2>1. SUFFICES ASSUME doubled' = {}, NEW n \in Figure, world[n].in
                   PROVE  /\ CallingBefore[world[n].calling] = agreed'[n].calling
                          /\ \A k \in Clerk : Making(clerks'[k]) => clerks'[k].name # n
        BY DEF PlayedAgreed
    <2>2. n # c.name
        BY <1>29, <2>1 DEF AccountsInv, Tables, Rowed
    <2> QED
        BY <1>7, <1>8, <1>17, <1>28, <2>1, <2>2 DEF AccountsInv, Names, PlayedAgreed
<1>33. Known'
    BY <1>5, <1>7, <1>8, <1>22 DEF AccountsInv, Premium, Known
<1>34. KeptQuiet' /\ PlayedQuiet'
    BY <1>22 DEF AccountsInv, Premium, KeptQuiet, PlayedQuiet
<1> QED
    BY <1>18, <1>19, <1>20, <1>21, <1>23, <1>24, <1>25, <1>26, <1>27, <1>30, <1>31, <1>32, <1>33, <1>34
    DEF AccountsInv, Tables, Secrets, Names, Premium

\* "Are you sure?" keeps the invariant, whether the name is taken or not.
LEMMA AgreeOnStep ==
    ASSUME AccountsAssumption, AccountsInv, NEW m \in Clerk, Asks(m, 11), AgreeOn(m), ~Exists(clerks[m].name),
           UNCHANGED <<talks, tables, world, saving, day, granted, chosen, shared, torn>>
    PROVE  AccountsInv'
<1> DEFINE c == clerks[m]
           d == [c EXCEPT !.doing = "insert", !.read = accounts[c.account].password]
<1>1. c \in Dialogue /\ Shape(c) /\ c.on /\ c.doing = "hear" /\ Open(c) \in 3 .. 11 /\ Open(c) = 11
    BY DEF AccountsInv, Tables, AccountsTyped, Talking, Asks
<1>2. ~Guest(c)
    <2> HIDE DEF c
    <2> QED
        BY <1>1, GuestOpen, Zenon
<1>3. Owner(c)
    BY <1>1, <1>2 DEF Shape, NoClerk
<1>4. c.asked = {11}
    <2> HIDE DEF c
    <2> QED
        BY <1>1, <1>3, OwnerOpen
<1>5. accounts[c.account].password \in Secret
    BY <1>3 DEF AccountsInv, Tables, AccountsTyped, Owner
<1>6. d \in Dialogue
    BY <1>1, <1>5 DEF Dialogue
<1>7. /\ clerks' = [clerks EXCEPT ![m].doing = "insert", ![m].read = accounts[c.account].password]
      /\ agreed' = [agreed EXCEPT ![c.name] = Said(c)]
      /\ doubled' = doubled \cup (IF Rivals(m, c.name) # {} THEN {c.name} ELSE {})
    BY DEF AgreeOn, Said
<1>8. clerks' = [clerks EXCEPT ![m] = d]
    <2>1. clerks \in [Clerk -> Dialogue]
        BY DEF AccountsInv, Tables, AccountsTyped
    <2>2. [clerks EXCEPT ![m].doing = "insert", ![m].read = accounts[c.account].password] = [clerks EXCEPT ![m] = d]
        BY <2>1
    <2> QED
        BY <1>7, <2>2
<1>9. doubled \subseteq doubled' /\ (Rivals(m, c.name) # {} => c.name \in doubled')
    BY <1>7
<1>10. d = [c EXCEPT !.doing = "insert", !.read = accounts[c.account].password]
    OBVIOUS
<1> HIDE DEF d
<1> QED
    BY <1>1, <1>3, <1>4, <1>6, <1>7, <1>8, <1>9, <1>10, AgreeStep

\* All the questions about a new character keep it.
LEMMA AboutFigureStep ==
    ASSUME AccountsAssumption, AccountsInv, NEW m \in Clerk, AboutFigure(m),
           UNCHANGED <<talks, tables, world, saving, day, granted, chosen, shared, torn>>
    PROVE  AccountsInv'
<1> DEFINE c == clerks[m]
<1>1. talks' \in 0 .. MaxTalks
    BY DEF AccountsInv, Tables, AccountsTyped
<1>2. \A d : Hears(m, d) => TalkOnly /\ clerks' = [clerks EXCEPT ![m] = d]
    BY <1>1 DEF Hears, TalkOnly, records
<1>3. \/ Asks(m, 3) /\ Hears(m, Turn(c, 3, 7))
      \/ Asks(m, 7) /\ \E n \in Figure : Hears(m, [Turn(c, 7, 8) EXCEPT !.name = n])
      \/ Asks(m, 8) /\ Hears(m, Free(c))
      \/ Asks(m, 8) /\ Hears(m, [Turn(c, 8, 7) EXCEPT !.name = NoFigure])
      \/ Asks(m, 8) /\ Hears(m, Turn(c, 8, 9))
      \/ Asks(m, 9) /\ Hears(m, Turn(c, 9, 10))
      \/ Asks(m, 10) /\ \E v \in Calling \ {Rookie} :
            CallingBefore[v] = v /\ Hears(m, [Turn(c, 10, 11) EXCEPT !.calling = v, !.told = v])
      \/ Asks(m, 11) /\ Hears(m, Free(c))
      \/ Asks(m, 11) /\ ~Exists(c.name) /\ AgreeOn(m)
    <2>1. AgreeOn(m) => Hears(m, Free(c)) \/ (~Exists(c.name) /\ AgreeOn(m))
        BY Zenon DEF AgreeOn
    <2> QED
        BY <2>1, Zenon DEF AboutFigure
<1>4. 3 \in 3 .. 11 /\ 7 \in 3 .. 11 /\ 8 \in 3 .. 11 /\ 9 \in 3 .. 11 /\ 10 \in 3 .. 11 /\ 11 \in 3 .. 11
    OBVIOUS
<1>5. ASSUME NEW q \in 3 .. 11, Asks(m, q), Hears(m, Free(c))
      PROVE  AccountsInv'
    <2>1. c \in Dialogue /\ c.account \in Account
        BY <1>5, OwnerAsked
    <2>2. /\ Free(c) \in Dialogue /\ Owner(Free(c)) /\ Free(c).doing = "hear"
          /\ Free(c).account = c.account /\ Free(c).ticks = c.ticks
        BY <2>1, FreeAsks DEF IsFree, Free, NoClerk
    <2> QED
        BY <1>2, <1>5, <2>2, OwnerHears
<1>6. ASSUME NEW q \in 3 .. 11, NEW r \in 3 .. 11, Asks(m, q), r # 6, NEW n \in Figure \cup {NoFigure},
             NEW v \in Calling, NEW t \in Calling, Hears(m, Turned(c, r, n, v, t)),
             r \in 8 .. 11 => n \in Figure, r = 11 => v = t /\ CallingBefore[t] = t
      PROVE  AccountsInv'
    <2>1. c \in Dialogue
        BY <1>6, OwnerAsked
    <2> HIDE DEF c
    <2>2. Turned(c, r, n, v, t) \in Dialogue
        BY <1>6, <2>1, TurnedIs DEF IsTurned
    <2> QED
        BY <1>2, <1>6, <2>2, FigureTurnStep DEF c
<1>7. ASSUME NEW q \in 3 .. 11, NEW r \in 3 .. 11, Asks(m, q), r # 6, r # 11, r \in 8 .. 11 => q \in 8 .. 11,
             Hears(m, Turn(c, q, r))
      PROVE  AccountsInv'
    <2>1. /\ c \in Dialogue /\ c.asked = {q} /\ (q \in 8 .. 11 => c.name \in Figure)
          /\ c.name \in Figure \cup {NoFigure} /\ c.calling \in Calling /\ c.told \in Calling
        BY <1>7, OwnerAsked
    <2> HIDE DEF c
    <2>2. Turn(c, q, r) = Turned(c, r, c.name, c.calling, c.told)
        BY <2>1, TurnIs
    <2>3. Hears(m, Turned(c, r, c.name, c.calling, c.told))
        BY <1>7, <2>2
    <2> QED
        BY <1>6, <1>7, <2>1, <2>3
<1>8. CASE Asks(m, 3) /\ Hears(m, Turn(c, 3, 7))
    <2> HIDE DEF c
    <2> QED
        BY <1>4, <1>7, <1>8
<1>9. CASE Asks(m, 7) /\ \E n \in Figure : Hears(m, [Turn(c, 7, 8) EXCEPT !.name = n])
    <2>1. PICK n \in Figure : Hears(m, [Turn(c, 7, 8) EXCEPT !.name = n])
        BY <1>9
    <2>2. c \in Dialogue /\ c.asked = {7} /\ c.calling \in Calling /\ c.told \in Calling
        BY <1>4, <1>9, OwnerAsked
    <2> HIDE DEF c
    <2>3. [Turn(c, 7, 8) EXCEPT !.name = n] = Turned(c, 8, n, c.calling, c.told)
        <3>1. Turn(c, 7, 8) = [c EXCEPT !.asked = {8}]
            BY <1>4, <2>2, TurnAsks
        <3>2. [[c EXCEPT !.asked = {8}] EXCEPT !.name = n] = Turned(c, 8, n, c.calling, c.told)
            BY <2>2 DEF Turned, Dialogue
        <3> QED
            BY <3>1, <3>2, Zenon
    <2>4. Hears(m, Turned(c, 8, n, c.calling, c.told))
        BY <2>1, <2>3, Zenon
    <2> QED
        BY <1>4, <1>6, <1>9, <2>2, <2>4
<1>10. CASE Asks(m, 8) /\ Hears(m, [Turn(c, 8, 7) EXCEPT !.name = NoFigure])
    <2>2. c \in Dialogue /\ c.asked = {8} /\ c.calling \in Calling /\ c.told \in Calling
        BY <1>4, <1>10, OwnerAsked
    <2> HIDE DEF c
    <2>3. [Turn(c, 8, 7) EXCEPT !.name = NoFigure] = Turned(c, 7, NoFigure, c.calling, c.told)
        <3>1. Turn(c, 8, 7) = [c EXCEPT !.asked = {7}]
            BY <1>4, <2>2, TurnAsks
        <3>2. [[c EXCEPT !.asked = {7}] EXCEPT !.name = NoFigure] = Turned(c, 7, NoFigure, c.calling, c.told)
            BY <2>2 DEF Turned, Dialogue
        <3> QED
            BY <3>1, <3>2, Zenon
    <2>4. Hears(m, Turned(c, 7, NoFigure, c.calling, c.told))
        BY <1>10, <2>3, Zenon
    <2> QED
        BY <1>4, <1>6, <1>10, <2>2, <2>4
<1>11. CASE Asks(m, 8) /\ Hears(m, Turn(c, 8, 9))
    <2> HIDE DEF c
    <2> QED
        BY <1>4, <1>7, <1>11
<1>12. CASE Asks(m, 9) /\ Hears(m, Turn(c, 9, 10))
    <2> HIDE DEF c
    <2> QED
        BY <1>4, <1>7, <1>12
<1>13. CASE Asks(m, 10) /\ \E v \in Calling \ {Rookie} :
                CallingBefore[v] = v /\ Hears(m, [Turn(c, 10, 11) EXCEPT !.calling = v, !.told = v])
    <2>1. PICK v \in Calling : CallingBefore[v] = v /\ Hears(m, [Turn(c, 10, 11) EXCEPT !.calling = v, !.told = v])
        BY <1>13, Zenon
    <2>2. c \in Dialogue /\ c.asked = {10} /\ c.name \in Figure
        BY <1>4, <1>13, OwnerAsked
    <2> HIDE DEF c
    <2>3. [Turn(c, 10, 11) EXCEPT !.calling = v, !.told = v] = Turned(c, 11, c.name, v, v)
        <3>1. Turn(c, 10, 11) = [c EXCEPT !.asked = {11}]
            BY <1>4, <2>2, TurnAsks
        <3>2. [[c EXCEPT !.asked = {11}] EXCEPT !.calling = v, !.told = v] = Turned(c, 11, c.name, v, v)
            BY <2>2 DEF Turned, Dialogue
        <3> QED
            BY <3>1, <3>2, Zenon
    <2>4. Hears(m, Turned(c, 11, c.name, v, v))
        BY <2>1, <2>3, Zenon
    <2> QED
        BY <1>4, <1>6, <1>13, <2>1, <2>2, <2>4
<1>14. CASE Asks(m, 11) /\ ~Exists(c.name) /\ AgreeOn(m)
    BY <1>14, AgreeOnStep
<1> QED
    BY <1>3, <1>4, <1>5, <1>8, <1>9, <1>10, <1>11, <1>12, <1>13, <1>14, Zenon

\* Whatever is said keeps the invariant.
LEMMA SaysStep ==
    ASSUME AccountsAssumption, AccountsInv, Says
    PROVE  AccountsInv'
    BY AboutFigureStep, AboutSecretStep, AboutAccountStep DEF Says

\* Conversations that begin and end keep it.
LEMMA ClerkStep ==
    ASSUME AccountsAssumption, AccountsInv, ClerkComes \/ ClerkGoes
    PROVE  AccountsInv'
<1>1. NoClerk \in Dialogue /\ Shape(NoClerk) /\ ~NoClerk.owner /\ ~Making(NoClerk)
    <2>1. {} \subseteq 1 .. 11
        OBVIOUS
    <2> QED
        BY <2>1 DEF NoClerk, Dialogue, Shape, Making, AccountsAssumption
<1>2. clerks \in [Clerk -> Dialogue] /\ talks \in 0 .. MaxTalks /\ Talking /\ MaxTalks \in Nat
    BY DEF AccountsInv, Tables, AccountsTyped, AccountsAssumption
<1>3. CASE ClerkGoes
    <2>1. PICK m \in Clerk : clerks[m].on /\ clerks[m].doing = "hear" /\ clerks' = [clerks EXCEPT ![m] = NoClerk]
        BY <1>3 DEF ClerkGoes
    <2>2. TalkOnly
        BY <1>2, <1>3 DEF ClerkGoes, TalkOnly
    <2>3. ~Making(clerks[m])
        BY <2>1 DEF Making
    <2> QED
        BY <1>1, <2>1, <2>2, <2>3, TalkStep
<1>4. CASE ClerkComes
    <2> DEFINE m == CHOOSE k \in Clerk : ~clerks[k].on
    <2>1. m \in Clerk /\ ~clerks[m].on
        BY <1>4 DEF ClerkComes
    <2>2. ~Making(clerks[m])
        BY <1>2, <2>1 DEF Talking, Shape, Guest, Owner, Making, NoClerk
    <2>3. TalkOnly
        <3>1. talks < MaxTalks /\ talks' = talks + 1 /\ UNCHANGED <<tables, world, saving, day, records>>
            BY <1>4, Zenon DEF ClerkComes
        <3> QED
            BY <1>2, <3>1 DEF TalkOnly
    <2>4. \/ clerks' = [clerks EXCEPT ![m] = [NoClerk EXCEPT !.on = TRUE, !.asked = {3}]]
          \/ \E a \in Account :
                /\ accounts[a].rows > 0
                /\ clerks' = [clerks EXCEPT ![m] = [NoClerk EXCEPT !.on = TRUE, !.owner = TRUE, !.account = a,
                                                    !.asked = {3}, !.ticks = Ahead(accounts[a].until)]]
        BY <1>4 DEF ClerkComes
    <2> HIDE DEF m
    <2>5. {3} \subseteq 1 .. 11 /\ {3} # {2, 3} /\ {3} # {6} /\ {3} # {11} /\ (\A x \in 3 .. 11 : {3} = {x} => x = 3)
          /\ 3 \in 3 .. 11 /\ 3 \notin 8 .. 11
        OBVIOUS
    <2>6. CASE clerks' = [clerks EXCEPT ![m] = [NoClerk EXCEPT !.on = TRUE, !.asked = {3}]]
        <3> DEFINE d == [NoClerk EXCEPT !.on = TRUE, !.asked = {3}]
        <3>1. d \in Dialogue /\ ~d.owner
            BY <1>1, <2>5 DEF Dialogue
        <3>2. Guest(d) /\ ~Making(d)
            BY <2>5 DEF Guest, NoClerk, Making
        <3> HIDE DEF d
        <3> QED
            BY <2>1, <2>2, <2>3, <2>6, <3>1, <3>2, TalkStep DEF Shape, d
    <2>7. ASSUME NEW a \in Account, accounts[a].rows > 0,
                 clerks' = [clerks EXCEPT ![m] = [NoClerk EXCEPT !.on = TRUE, !.owner = TRUE, !.account = a,
                                                  !.asked = {3}, !.ticks = Ahead(accounts[a].until)]]
          PROVE  AccountsInv'
        <3> DEFINE d == [NoClerk EXCEPT !.on = TRUE, !.owner = TRUE, !.account = a,
                                        !.asked = {3}, !.ticks = Ahead(accounts[a].until)]
        <3>1. Ahead(accounts[a].until) \in 0 .. MaxEnd /\ Ahead(Ahead(accounts[a].until)) = Ahead(accounts[a].until)
            <4>1. accounts[a].until \in 0 .. MaxEnd /\ day \in Nat /\ MaxEnd \in Nat
                BY DEF AccountsInv, Tables, AccountsTyped, AccountsAssumption
            <4> QED
                BY <4>1 DEF Ahead
        <3>2. d \in Dialogue
            BY <1>1, <2>5, <3>1 DEF Dialogue
        <3>3. Owner(d) /\ ~Making(d) /\ d.account = a /\ d.ticks = Ahead(accounts[a].until)
            BY <2>5 DEF Owner, NoClerk, Making
        <3>4. Quiet(a) => Ahead(accounts[a].until) = Ahead(granted[a])
            BY DEF AccountsInv, Premium, KeptQuiet
        <3>5. clerks' = [clerks EXCEPT ![m] = d]
            BY <2>7
        <3> HIDE DEF d
        <3> QED
            BY <2>1, <2>2, <2>3, <2>7, <3>1, <3>2, <3>3, <3>4, <3>5, TalkStep DEF Shape
    <2> QED
        BY <2>4, <2>6, <2>7
<1> QED
    BY <1>3, <1>4

-----------------------------------------------------------------------------
(* Rows of the table of players.                                           *)

AccountAt(F, r) == (CHOOSE f \in F : f.id = r).account

\* The row of a number is the only one.
LEMMA RowFound ==
    ASSUME NEW F, \A f, g \in F : f.id = g.id => f = g, NEW f \in F
    PROVE  AccountAt(F, f.id) = f.account
<1>1. \E g \in F : g.id = f.id
    OBVIOUS
<1>2. (CHOOSE g \in F : g.id = f.id) \in F /\ (CHOOSE g \in F : g.id = f.id).id = f.id
    BY <1>1
<1> QED
    BY <1>2 DEF AccountAt

\* The account of a player is found by his row.
LEMMA AccountOfPlayer ==
    \A n \in Figure : /\ OfAccount(n) = AccountAt(figures, world[n].row)
                       /\ OfAccount(n)' = AccountAt(figures', world'[n].row)
    BY DEF OfAccount, AccountAt

\* A player in the game and the row he came from.
Belongs(n, a) == \E f \in figures : f.id = world[n].row /\ f.name = n /\ f.account = a

\* A player in the game belongs to an account that is there.
LEMMA PlayerRow ==
    ASSUME AccountsInv, NEW n \in Figure, world[n].in
    PROVE  /\ Belongs(n, OfAccount(n)) /\ OfAccount(n) \in Account /\ accounts[OfAccount(n)].rows > 0
           /\ world[n] \in Playing /\ \A f \in figures : f.id = world[n].row => f.account = OfAccount(n) /\ f.name = n
<1>1. PICK f \in figures : f.id = world[n].row /\ f.name = n
    BY DEF AccountsInv, Tables, Rowed
<1>2. \A g, h \in figures : g.id = h.id => g = h
    BY DEF AccountsInv, Tables, Numbered
<1>3. AccountAt(figures, world[n].row) = f.account
    BY <1>1, <1>2, RowFound
<1>4. OfAccount(n) = f.account
    BY <1>3 DEF OfAccount, AccountAt
<1>5. f.account \in Account /\ accounts[f.account].rows > 0 /\ world[n] \in Playing
    BY DEF AccountsInv, Tables, AccountsTyped, Row, Opened
<1>6. \A g \in figures : g.id = world[n].row => g = f
    BY <1>1, <1>2
<1> QED
    BY <1>1, <1>4, <1>5, <1>6 DEF Belongs

\* A row that is written keeps its number, its name and its account.
SameRow(f, g) == f.id = g.id /\ f.name = g.name /\ f.account = g.account
IsKept(id, v) ==
    /\ \A f \in figures : \E g \in figures' : SameRow(f, g) /\ g.calling = (IF f.id = id THEN v ELSE f.calling)
    /\ \A g \in figures' : \E f \in figures : SameRow(f, g) /\ g.calling = (IF f.id = id THEN v ELSE f.calling)

\* savePlayer leaves the numbers, names and accounts of the rows.
LEMMA KeptStep ==
    ASSUME Tables, NEW id \in Nat, NEW v \in Calling, figures' = Kept(id, v)
    PROVE  IsKept(id, v) /\ figures' \subseteq Row /\ Numbered'
<1> DEFINE Writes(f) == IF f.id = id THEN [f EXCEPT !.calling = v] ELSE f
           W == [f \in figures |-> Writes(f)]
<1>1. figures \subseteq Row /\ IsFiniteSet(figures)
    BY DEF Tables, AccountsTyped, Numbered
<1>2. \A f \in figures : /\ Writes(f) \in Row /\ SameRow(f, Writes(f))
                         /\ Writes(f).calling = (IF f.id = id THEN v ELSE f.calling)
    BY <1>1 DEF Row, SameRow
<1>3. figures' = {Writes(f) : f \in figures}
    BY DEF Kept
<1> HIDE DEF Writes
<1>4. IsKept(id, v) /\ figures' \subseteq Row
    BY <1>2, <1>3 DEF IsKept
<1>5. \A f, g \in figures : f.id = g.id => f = g
    BY DEF Tables, Numbered
<1>6. \A f, g \in figures : Writes(f) = Writes(g) => f = g
    BY <1>2, <1>5 DEF SameRow
<1>7. W \in Bijection(figures, figures')
    <2>1. W \in [figures -> figures']
        BY <1>3
    <2>2. \A f, g \in figures : W[f] = W[g] => f = g
        BY <1>6
    <2>3. \A g \in figures' : \E f \in figures : W[f] = g
        BY <1>3
    <2> HIDE DEF W
    <2> QED
        BY <2>1, <2>2, <2>3 DEF Bijection, Injection, Surjection, IsInjective
<1>8. IsFiniteSet(figures') /\ Cardinality(figures') = Cardinality(figures)
    BY <1>1, <1>7, FS_Bijection DEF ExistsBijection
<1>9. \A f, g \in figures' : f.id = g.id => f = g
    BY <1>2, <1>3, <1>5 DEF SameRow
<1>10. \A f \in figures' : f.id <= Cardinality(figures')
    BY <1>2, <1>3, <1>8 DEF SameRow, Tables, Numbered
<1> QED
    BY <1>4, <1>8, <1>9, <1>10 DEF Numbered

\* Where the players belong is not changed by it.
LEMMA KeptPlace ==
    ASSUME AccountsInv, NEW id, NEW v, IsKept(id, v), Numbered', NEW n \in Figure, world[n].in, NEW r, r = world[n].row
    PROVE  AccountAt(figures', r) = OfAccount(n) /\ \E g \in figures' : g.id = r /\ g.name = n
<1>1. PICK f \in figures : f.id = r /\ f.name = n /\ f.account = OfAccount(n)
    BY PlayerRow DEF Belongs
<1>2. PICK g \in figures' : g.id = r /\ g.name = n /\ g.account = OfAccount(n)
    BY <1>1 DEF IsKept, SameRow
<1>3. \A f1, f2 \in figures' : f1.id = f2.id => f1 = f2
    BY DEF Numbered
<1>4. AccountAt(figures', r) = OfAccount(n)
    BY <1>2, <1>3, RowFound
<1> QED
    BY <1>2, <1>4

\* What is saved is an account.
LEMMA SavedIs ==
    ASSUME AccountsInv, AccountsAssumption, saving # NotSaving
    PROVE  /\ saving.of \in Figure /\ world[saving.of].in
           /\ SavedAccount = OfAccount(saving.of) /\ SavedAccount \in Account /\ accounts[SavedAccount].rows > 0
           /\ saving.until \in 0 .. MaxEnd /\ saving.until > day /\ saving.read \in Secret
    BY PlayerRow DEF AccountsInv, Tables, AccountsTyped, Secrets, Saves, SavedAccount

-----------------------------------------------------------------------------
(* Days and players.                                                       *)

\* A day passes: premium time that ends, ends for what was given too.
LEMMA PassesStep ==
    ASSUME AccountsAssumption, AccountsInv, Passes
    PROVE  AccountsInv'
<1> USE DEF tables, records
<1>1. /\ saving = NotSaving /\ day \in 0 .. LastDay /\ LastDay \in Nat /\ day < LastDay /\ day' = day + 1 /\ MaxEnd \in Nat
      /\ UNCHANGED <<talks, tables, clerks, world, saving, accounts, figures, records>>
    BY DEF Passes, AccountsInv, Tables, AccountsTyped, AccountsAssumption
<1>2. /\ \A a \in Account : granted[a] \in 0 .. MaxEnd /\ accounts[a].until \in 0 .. MaxEnd
      /\ \A k \in Clerk : clerks[k] \in Dialogue /\ clerks[k].ticks \in 0 .. MaxEnd
    BY DEF AccountsInv, Tables, AccountsTyped, Dialogue
<1>3. \A x, y \in 0 .. MaxEnd : Ahead(x) = Ahead(y) => Ahead(x)' = Ahead(y)'
    BY <1>1 DEF Ahead
<1>4. AccountsTyped'
    BY <1>1 DEF AccountsInv, Tables, AccountsTyped
<1>5. Numbered' /\ Talking' /\ Rowed' /\ Opened'
    BY <1>1 DEF AccountsInv, Tables, Numbered, Talking, Rowed, Opened
<1>6. Saves' /\ ReadFresh' /\ SecretKept'
    BY <1>1 DEF AccountsInv, Secrets, Saves, ReadFresh, SecretKept
<1>7. OneMakes' /\ RowsMade' /\ OneRow' /\ MadeAgreed' /\ RowAgreed' /\ PlayedAgreed'
    BY <1>1 DEF AccountsInv, Names, OneMakes, RowsMade, OneRow, MadeAgreed, RowAgreed, PlayedAgreed
<1>8. /\ SavedAccount' = SavedAccount
      /\ \A n \in Figure : OfAccount(n)' = OfAccount(n)
      /\ \A c : Clean(c)' = Clean(c)
      /\ \A c : Quiet(c)' = Quiet(c)
    BY <1>1 DEF SavedAccount, OfAccount, Clean, Quiet
<1>9. \A k \in Clerk : clerks[k].owner => clerks[k].account \in Account
    BY DEF AccountsInv, Tables, Talking, Shape, Owner, Guest, NoClerk
<1>10. Known'
    BY <1>1, <1>2, <1>3, <1>8, <1>9 DEF AccountsInv, Premium, Known
<1>11. KeptQuiet'
    BY <1>1, <1>2, <1>3, <1>8 DEF AccountsInv, Premium, KeptQuiet
<1>12. PlayedQuiet'
    BY <1>1, <1>8 DEF AccountsInv, Premium, PlayedQuiet
<1> QED
    BY <1>4, <1>5, <1>6, <1>7, <1>10, <1>11, <1>12 DEF AccountsInv, Tables, Secrets, Names, Premium

\* A promotion is noted, so that it may stay without premium time.
LEMMA PromotesStep ==
    ASSUME AccountsAssumption, AccountsInv, Promotes
    PROVE  AccountsInv'
<1> USE DEF tables, records
<1>1. saving = NotSaving /\ UNCHANGED <<talks, tables, clerks, saving, day, accounts, figures, records>>
    BY DEF Promotes
<1>2. PICK n \in Figure, v \in Calling :
        /\ world[n].in /\ CallingBefore[v] = world[n].calling
        /\ world' = [world EXCEPT ![n].calling = v, ![n].raised = TRUE]
    BY DEF Promotes
<1>3. world \in [Figure -> Playing] /\ \A c \in Calling : CallingBefore[c] \in Calling /\ CallingBefore[CallingBefore[c]] = CallingBefore[c]
    BY DEF AccountsInv, Tables, AccountsTyped, AccountsAssumption
<1>4. /\ world' \in [Figure -> Playing]
      /\ world'[n].in /\ world'[n].row = world[n].row /\ world'[n].ticks = world[n].ticks
      /\ world'[n].calling = v /\ world'[n].raised
      /\ \A k \in Figure : k # n => world'[k] = world[k]
    BY <1>2, <1>3 DEF Playing
<1>5. \A k \in Figure : world'[k].in = world[k].in /\ world'[k].row = world[k].row
    BY <1>2, <1>4
<1>6. AccountsTyped'
    BY <1>1, <1>4 DEF AccountsInv, Tables, AccountsTyped
<1>7. Numbered' /\ Talking' /\ Rowed' /\ Opened'
    BY <1>1, <1>5 DEF AccountsInv, Tables, Numbered, Talking, Rowed, Opened
<1>8. Saves' /\ ReadFresh' /\ SecretKept'
    BY <1>1 DEF AccountsInv, Secrets, Saves, ReadFresh, SecretKept
<1>9. OneMakes' /\ RowsMade' /\ OneRow' /\ MadeAgreed' /\ RowAgreed'
    BY <1>1 DEF AccountsInv, Names, OneMakes, RowsMade, OneRow, MadeAgreed, RowAgreed
<1>10. PlayedAgreed'
    BY <1>1, <1>2, <1>3, <1>4, <1>5 DEF AccountsInv, Names, PlayedAgreed
<1>11. /\ SavedAccount' = SavedAccount
       /\ \A k \in Figure : OfAccount(k)' = OfAccount(k)
       /\ \A c : Clean(c)' = Clean(c)
       /\ \A c : Quiet(c)' = Quiet(c)
       /\ \A x : Ahead(x)' = Ahead(x)
    BY <1>1, <1>5 DEF SavedAccount, OfAccount, Clean, Quiet, Ahead
<1>12. Known' /\ KeptQuiet'
    BY <1>1, <1>11 DEF AccountsInv, Premium, Known, KeptQuiet
<1>13. PlayedQuiet'
    BY <1>1, <1>2, <1>4, <1>5, <1>11 DEF AccountsInv, Premium, PlayedQuiet
<1> QED
    BY <1>6, <1>7, <1>8, <1>9, <1>10, <1>12, <1>13 DEF AccountsInv, Tables, Secrets, Names, Premium

\* No row is written twice.
LEMMA KeptOneRow ==
    ASSUME AccountsInv, NEW id, NEW v, IsKept(id, v), Numbered', UNCHANGED doubled
    PROVE  OneRow'
<1>1. SUFFICES ASSUME NEW f \in figures', NEW g \in figures', f.name = g.name, f.name \notin doubled
               PROVE  f = g
    BY DEF OneRow
<1>2. PICK f0 \in figures, g0 \in figures : SameRow(f0, f) /\ SameRow(g0, g)
    BY DEF IsKept
<1>3. f0 = g0
    BY <1>1, <1>2 DEF AccountsInv, Names, OneRow, SameRow
<1> QED
    BY <1>2, <1>3 DEF SameRow, Numbered

\* A row that is written with the vocation its player has is still what was agreed.
LEMMA KeptNames ==
    ASSUME AccountsInv, NEW id, NEW v, IsKept(id, v), Numbered', UNCHANGED <<clerks, agreed, doubled>>,
           \A f \in figures : f.id = id => (doubled = {} => CallingBefore[v] = agreed[f.name].calling)
    PROVE  OneMakes' /\ RowsMade' /\ OneRow' /\ MadeAgreed' /\ RowAgreed'
<1>1. OneMakes'
    BY DEF AccountsInv, Names, OneMakes
<1>2. RowsMade'
    BY DEF AccountsInv, Names, RowsMade, IsKept, SameRow
<1>3. OneRow'
    BY KeptOneRow
<1>4. MadeAgreed'
    BY DEF AccountsInv, Names, MadeAgreed, IsKept, SameRow
<1>5. RowAgreed'
    <2>1. SUFFICES ASSUME doubled = {}, NEW g \in figures', \A k \in Clerk : Making(clerks[k]) => clerks[k].name # g.name
                   PROVE  g.account = agreed[g.name].account /\ CallingBefore[g.calling] = agreed[g.name].calling
        BY DEF RowAgreed
    <2>2. PICK f \in figures : SameRow(f, g) /\ g.calling = (IF f.id = id THEN v ELSE f.calling)
        BY DEF IsKept
    <2>3. f.account = agreed[f.name].account /\ CallingBefore[f.calling] = agreed[f.name].calling
        BY <2>1, <2>2 DEF AccountsInv, Names, RowAgreed, SameRow
    <2> QED
        BY <2>1, <2>2, <2>3 DEF SameRow
<1> QED
    BY <1>1, <1>2, <1>3, <1>4, <1>5

\* Who leaves is saved.
LEMMA LeavesStep ==
    ASSUME AccountsAssumption, AccountsInv, Leaves
    PROVE  AccountsInv'
<1> USE DEF tables, records
<1>1. saving = NotSaving /\ UNCHANGED <<talks, accounts, clerks, saving, day, records>>
    BY DEF Leaves
<1>2. PICK n \in Figure :
        /\ world[n].in /\ figures' = Kept(world[n].row, world[n].calling)
        /\ world' = [world EXCEPT ![n] = NoPlayer]
    BY DEF Leaves
<1>3. world \in [Figure -> Playing] /\ world[n].row \in Nat /\ world[n].calling \in Calling
    BY DEF AccountsInv, Tables, AccountsTyped, Playing
<1> DEFINE id == world[n].row
           v == world[n].calling
<1>4. IsKept(id, v) /\ figures' \subseteq Row /\ Numbered'
    BY <1>2, <1>3, KeptStep DEF AccountsInv
<1>5. NoPlayer \in Playing /\ ~NoPlayer.in
    BY DEF NoPlayer, Playing, AccountsAssumption, AccountsInv, Tables, AccountsTyped
<1>6. world' \in [Figure -> Playing] /\ ~world'[n].in /\ \A k \in Figure : k # n => world'[k] = world[k]
    BY <1>2, <1>3, <1>5
<1>7. \A k \in Figure : world'[k].in => k # n /\ world[k].in /\ world'[k] = world[k]
    BY <1>6
<1>8. \A f \in figures : f.id = id => f.name = n
    BY <1>2, PlayerRow
<1> HIDE DEF id, v
<1>9. AccountsTyped'
    BY <1>1, <1>4, <1>6 DEF AccountsInv, Tables, AccountsTyped
<1>10. \A k \in Figure : world'[k].in => OfAccount(k)' = OfAccount(k) /\ \E g \in figures' : g.id = world'[k].row /\ g.name = k
    <2>1. SUFFICES ASSUME NEW k \in Figure, world'[k].in
                   PROVE  OfAccount(k)' = OfAccount(k) /\ \E g \in figures' : g.id = world'[k].row /\ g.name = k
        OBVIOUS
    <2>2. world[k].in /\ world'[k].row = world[k].row
        BY <1>7, <2>1
    <2> QED
        BY <1>4, <2>1, <2>2, KeptPlace DEF OfAccount, AccountAt
<1>11. Rowed'
    BY <1>10 DEF Rowed
<1>12. Talking' /\ Opened'
    BY <1>1, <1>4 DEF AccountsInv, Tables, Talking, Opened, IsKept, SameRow
<1>13. Saves' /\ ReadFresh' /\ SecretKept'
    BY <1>1 DEF AccountsInv, Secrets, Saves, ReadFresh, SecretKept
<1>14. OneMakes' /\ RowsMade' /\ OneRow' /\ MadeAgreed' /\ RowAgreed'
    <2>1. doubled = {} => CallingBefore[v] = agreed[n].calling
        BY <1>2 DEF AccountsInv, Names, PlayedAgreed, v
    <2> QED
        BY <1>1, <1>4, <1>8, <2>1, KeptNames
<1>19. PlayedAgreed'
    BY <1>1, <1>7 DEF AccountsInv, Names, PlayedAgreed
<1>20. /\ SavedAccount' = SavedAccount
       /\ \A c : Clean(c)' = Clean(c)
       /\ \A c : Quiet(c)' = Quiet(c)
       /\ \A x : Ahead(x)' = Ahead(x)
    BY <1>1 DEF SavedAccount, Clean, Quiet, Ahead
<1>21. Known' /\ KeptQuiet'
    BY <1>1, <1>20 DEF AccountsInv, Premium, Known, KeptQuiet
<1>22. PlayedQuiet'
    BY <1>1, <1>7, <1>10, <1>20 DEF AccountsInv, Premium, PlayedQuiet
<1> QED
    BY <1>4, <1>9, <1>11, <1>12, <1>13, <1>14, <1>19, <1>21, <1>22
    DEF AccountsInv, Tables, Secrets, Names, Premium

-----------------------------------------------------------------------------
(* Premium time.                                                           *)

\* Who is asked whether he has premium time keeps his row, and his vocation but for the promotion.
Checked(q, p, end) ==
    /\ q \in Playing /\ q.in = p.in /\ q.row = p.row
    /\ CallingBefore[q.calling] = CallingBefore[p.calling]
    /\ q.ticks = (IF end > day THEN end ELSE p.ticks)
    /\ q.ticks = 0 /\ ~q.raised => q.calling = CallingBefore[q.calling]

\* What checkPremium does to a player.
LEMMA CheckIs ==
    ASSUME AccountsAssumption, AccountsInv, NEW p \in Playing, NEW end \in 0 .. MaxEnd
    PROVE  Checked(CheckPremium(p, end), p, end)
<1>1. /\ day \in Nat /\ MaxEnd \in Nat
      /\ \A c \in Calling : CallingBefore[c] \in Calling /\ CallingBefore[CallingBefore[c]] = CallingBefore[c]
    BY DEF AccountsInv, Tables, AccountsTyped, AccountsAssumption
<1>2. CASE end > day
    <2>1. CheckPremium(p, end) = [p EXCEPT !.ticks = end]
        BY <1>2 DEF CheckPremium
    <2> QED
        BY <1>1, <1>2, <2>1 DEF Checked, Playing
<1>3. CASE ~(end > day) /\ p.ticks > 0
    <2>1. CheckPremium(p, end) = p
        BY <1>3 DEF CheckPremium
    <2> QED
        BY <1>1, <1>3, <2>1 DEF Checked, Playing
<1>4. CASE ~(end > day) /\ ~(p.ticks > 0)
    <2>1. CheckPremium(p, end) = [p EXCEPT !.calling = CallingBefore[@], !.raised = FALSE]
        BY <1>4 DEF CheckPremium
    <2>2. [p EXCEPT !.calling = CallingBefore[@], !.raised = FALSE] \in Playing
        BY <1>1 DEF Playing
    <2> QED
        BY <1>1, <1>4, <2>1, <2>2 DEF Checked, Playing
<1> QED
    BY <1>2, <1>3, <1>4

\* What a step does to the table of players, as the other players see it.
FiguresFollow ==
    /\ figures' \subseteq Row /\ Numbered'
    /\ \A g \in figures' : \E f \in figures : f.account = g.account
    /\ \A k \in Figure : world[k].in =>
        AccountAt(figures', world[k].row) = OfAccount(k) /\ \E g \in figures' : g.id = world[k].row /\ g.name = k
    /\ OneMakes' /\ RowsMade' /\ OneRow' /\ MadeAgreed' /\ RowAgreed'

\* savePremium up to the write of the account.
LEMMA SavePremiumStep ==
    ASSUME AccountsAssumption, AccountsInv, NEW n \in Figure, NEW d \in Nat, SavePremium(n, d), FiguresFollow,
           UNCHANGED <<talks, accounts, clerks, day, chosen, agreed, torn, doubled>>
    PROVE  AccountsInv'
<1> DEFINE p == world[n]
           acct == OfAccount(n)
<1>1. saving = NotSaving /\ p.in /\ shared \subseteq shared'
    BY DEF SavePremium
<1>2. /\ Belongs(n, acct) /\ acct \in Account /\ accounts[acct].rows > 0 /\ p \in Playing
    BY <1>1, PlayerRow
<1>3. /\ day \in Nat /\ MaxEnd \in Nat /\ p.ticks \in 0 .. MaxEnd
      /\ accounts[acct].until \in 0 .. MaxEnd /\ accounts[acct].password \in Secret
      /\ world \in [Figure -> Playing] /\ granted \in [Account -> 0 .. MaxEnd]
      /\ NoFigure \notin Figure /\ FreeNumber \notin Account
    BY <1>2 DEF AccountsInv, Tables, AccountsTyped, AccountsAssumption, Playing
<1>4. \/ \E u \in 0 .. MaxEnd :
            /\ saving' = [of |-> n, until |-> u, read |-> accounts[acct].password]
            /\ u > day /\ world' = world
            /\ granted' = (IF d > 0 THEN [granted EXCEPT ![acct] = u] ELSE granted)
            /\ d = 0 => u = p.ticks
      \/ world' = [world EXCEPT ![n] = CheckPremium(p, accounts[acct].until)] /\ saving' = saving /\ granted' = granted
    <2>1. CASE p.ticks > day
        <3> DEFINE u == p.ticks + d
        <3>1. u <= MaxEnd /\ saving' = [of |-> n, until |-> u, read |-> accounts[acct].password] /\ world' = world
            BY <2>1 DEF SavePremium
        <3>2. granted' = (IF d > 0 /\ saving'.of = n THEN [granted EXCEPT ![acct] = saving'.until] ELSE granted)
            BY DEF SavePremium
        <3>3. saving'.of = n /\ saving'.until = u
            BY <3>1
        <3>4. u \in 0 .. MaxEnd /\ u > day /\ (d = 0 => u = p.ticks)
            BY <1>3, <2>1, <3>1
        <3> HIDE DEF u, acct
        <3> QED
            BY <3>1, <3>2, <3>3, <3>4
    <2>2. CASE ~(p.ticks > day) /\ d > 0 /\ p.ticks = 0
        <3> DEFINE u == day + d
        <3>1. u <= MaxEnd /\ saving' = [of |-> n, until |-> u, read |-> accounts[acct].password] /\ world' = world
            BY <2>2 DEF SavePremium
        <3>2. granted' = (IF d > 0 /\ saving'.of = n THEN [granted EXCEPT ![acct] = saving'.until] ELSE granted)
            BY DEF SavePremium
        <3>3. saving'.of = n /\ saving'.until = u
            BY <3>1
        <3>4. u \in 0 .. MaxEnd /\ u > day /\ d # 0
            BY <1>3, <2>2, <3>1
        <3> HIDE DEF u, acct
        <3> QED
            BY <3>1, <3>2, <3>3, <3>4
    <2>3. CASE ~(p.ticks > day) /\ ~(d > 0 /\ p.ticks = 0)
        <3>1. world' = [world EXCEPT ![n] = CheckPremium(p, accounts[acct].until)] /\ saving' = saving
            BY <2>3 DEF SavePremium
        <3>2. saving'.of # n
            BY <1>1, <1>3, <3>1 DEF NotSaving
        <3> QED
            BY <3>1, <3>2 DEF SavePremium
    <2> QED
        BY <2>1, <2>2, <2>3
<1>5. /\ \A k \in Figure : world'[k].in = world[k].in /\ world'[k].row = world[k].row
      /\ world' \in [Figure -> Playing]
      /\ \A k \in Figure : k # n => world'[k] = world[k]
      /\ CallingBefore[world'[n].calling] = CallingBefore[p.calling]
      /\ world'[n].ticks = 0 /\ ~world'[n].raised => world'[n].calling = CallingBefore[world'[n].calling]
      /\ world'[n].ticks = p.ticks \/ (world'[n].ticks = accounts[acct].until /\ accounts[acct].until > day)
    <2>1. CASE world' = world
        BY <1>1, <1>3, <2>1 DEF AccountsInv, Premium, PlayedQuiet
    <2>2. CASE world' = [world EXCEPT ![n] = CheckPremium(p, accounts[acct].until)]
        <3> DEFINE q == CheckPremium(p, accounts[acct].until)
        <3>1. Checked(q, p, accounts[acct].until)
            BY <1>2, <1>3, CheckIs
        <3> HIDE DEF q
        <3>2. q \in Playing /\ world' = [world EXCEPT ![n] = q]
            BY <2>2, <3>1 DEF Checked, q
        <3>3. world'[n] = q /\ world' \in [Figure -> Playing] /\ \A k \in Figure : k # n => world'[k] = world[k]
            BY <1>3, <3>2
        <3> QED
            BY <3>1, <3>3 DEF Checked
    <2> QED
        BY <1>4, <2>1, <2>2
<1> HIDE DEF p, acct
<1>6. \A k \in Figure : world[k].in => OfAccount(k)' = OfAccount(k)
    BY <1>5 DEF FiguresFollow, OfAccount, AccountAt
<1>7. Rowed'
    BY <1>5 DEF FiguresFollow, Rowed
<1>8. /\ \A c : Clean(c)' => Clean(c)
      /\ \A x : Ahead(x)' = Ahead(x)
      /\ \A c \in Account : Quiet(c)' => Quiet(c)
      /\ \A c \in Account : Quiet(c) <=> Clean(c)
    BY <1>1, <1>3 DEF Clean, Ahead, Quiet, SavedAccount
<1>9. /\ granted' \in [Account -> 0 .. MaxEnd]
      /\ saving' \in [of : Figure \cup {NoFigure}, until : 0 .. MaxEnd, read : Secret \cup {NoSecret}]
      /\ \A c \in Account : c # acct => granted'[c] = granted[c]
      /\ \A c \in Account : accounts[c].rows = 0 => granted'[c] = granted[c]
    <2>1. CASE \E u \in 0 .. MaxEnd :
                    /\ saving' = [of |-> n, until |-> u, read |-> accounts[acct].password]
                    /\ granted' = (IF d > 0 THEN [granted EXCEPT ![acct] = u] ELSE granted)
        BY <1>2, <1>3, <2>1
    <2>2. CASE saving' = saving /\ granted' = granted
        BY <1>2, <1>3, <2>2 DEF AccountsInv, Tables, AccountsTyped
    <2> QED
        BY <1>4, <2>1, <2>2 DEF acct, p
<1>10. AccountsTyped'
    BY <1>5, <1>9 DEF FiguresFollow, AccountsInv, Tables, AccountsTyped
<1>11. Talking' /\ Numbered'
    BY DEF FiguresFollow, AccountsInv, Tables, Talking
<1>12. Opened'
    BY <1>9 DEF FiguresFollow, AccountsInv, Tables, Opened
<1>13. ReadFresh' /\ SecretKept'
    BY DEF AccountsInv, Secrets, ReadFresh, SecretKept
<1>14. OneMakes' /\ RowsMade' /\ OneRow' /\ MadeAgreed' /\ RowAgreed'
    BY DEF FiguresFollow
<1>15. PlayedAgreed'
    BY <1>5 DEF AccountsInv, Names, PlayedAgreed, p
<1>16. \A k \in Clerk : clerks[k].owner => clerks[k].account \in Account
    BY DEF AccountsInv, Tables, Talking, Shape, Owner, Guest, NoClerk
<1>17. world[n].in /\ Clean(acct) => p.ticks \in {0, granted[acct]}
    BY <1>2, <1>8 DEF AccountsInv, Premium, PlayedQuiet, p, acct
<1>18. ASSUME NEW u \in 0 .. MaxEnd, saving' = [of |-> n, until |-> u, read |-> accounts[acct].password],
              u > day, world' = world, granted' = (IF d > 0 THEN [granted EXCEPT ![acct] = u] ELSE granted),
              d = 0 => u = p.ticks
       PROVE  Saves' /\ Known' /\ KeptQuiet' /\ PlayedQuiet'
    <2>1. saving' # NotSaving /\ saving'.of = n /\ saving'.until = u /\ saving'.read = accounts[acct].password
        BY <1>3, <1>18 DEF NotSaving
    <2>2. SavedAccount' = acct
        BY <1>1, <1>6, <2>1 DEF SavedAccount, acct, p
    <2>3. Clean(acct) => u = granted'[acct]
        <3>1. CASE d > 0
            BY <1>2, <1>3, <1>18, <3>1
        <3>2. CASE d = 0
            BY <1>1, <1>3, <1>17, <1>18, <3>2 DEF p
        <3> QED
            BY <3>1, <3>2
    <2>4. Saves'
        BY <1>1, <1>3, <1>8, <1>18, <2>1, <2>2, <2>3 DEF Saves, p, AccountsInv
    <2>5. \A c \in Account : Quiet(c)' => c # acct /\ Quiet(c) /\ granted'[c] = granted[c]
        BY <1>8, <1>9, <2>2 DEF Quiet
    <2>6. Known'
        BY <1>8, <1>16, <2>5 DEF AccountsInv, Premium, Known
    <2>7. KeptQuiet'
        BY <1>8, <2>5 DEF AccountsInv, Premium, KeptQuiet
    <2>8. \A k \in Figure : world[k].in => OfAccount(k) \in Account
        BY PlayerRow
    <2>9. PlayedQuiet'
        BY <1>6, <1>18, <2>5, <2>8 DEF AccountsInv, Premium, PlayedQuiet
    <2> QED
        BY <2>4, <2>6, <2>7, <2>9
<1>19. ASSUME saving' = saving, granted' = granted
       PROVE  Saves' /\ Known' /\ KeptQuiet' /\ PlayedQuiet'
    <2>1. Saves'
        BY <1>1, <1>19 DEF Saves
    <2>2. Known' /\ KeptQuiet'
        BY <1>8, <1>16, <1>19 DEF AccountsInv, Premium, Known, KeptQuiet
    <2>3. Clean(acct) /\ accounts[acct].until > day => accounts[acct].until = granted[acct]
        <3>1. Clean(acct) => Ahead(accounts[acct].until) = Ahead(granted[acct])
            BY <1>2, <1>8 DEF AccountsInv, Premium, KeptQuiet
        <3>2. granted[acct] \in 0 .. MaxEnd
            BY <1>2, <1>3
        <3> QED
            BY <1>3, <3>1, <3>2 DEF Ahead
    <2>4. SUFFICES ASSUME NEW k \in Figure, world'[k].in
                   PROVE  /\ world'[k].ticks = 0 /\ ~world'[k].raised => world'[k].calling = CallingBefore[world'[k].calling]
                          /\ Quiet(OfAccount(k))' => world'[k].ticks \in {0, granted'[OfAccount(k)]}
        BY <1>5, <1>6, <2>1, <2>2 DEF PlayedQuiet
    <2>5. world[k].in /\ OfAccount(k) \in Account
        BY <1>5, <2>4, PlayerRow
    <2>6. CASE k # n
        BY <1>5, <1>6, <1>8, <1>19, <2>5, <2>6 DEF AccountsInv, Premium, PlayedQuiet
    <2>7. CASE k = n
        BY <1>5, <1>6, <1>8, <1>17, <1>19, <2>3, <2>5, <2>7 DEF acct, p
    <2> QED
        BY <2>6, <2>7
<1> QED
    BY <1>4, <1>7, <1>10, <1>11, <1>12, <1>13, <1>14, <1>15, <1>18, <1>19
    DEF AccountsInv, Tables, Secrets, Names, Premium, acct, p

\* The command that gives premium time keeps the invariant.
LEMMA AddPremiumStep ==
    ASSUME AccountsAssumption, AccountsInv, AddPremium
    PROVE  AccountsInv'
<1>1. PICK n \in Figure, d \in Days : SavePremium(n, d)
    BY DEF AddPremium
<1>2. d \in Nat
    BY DEF AccountsAssumption
<1>3. UNCHANGED <<talks, accounts, figures, clerks, day, chosen, agreed, torn, doubled>>
    BY DEF AddPremium, tables
<1>4. figures' \subseteq Row /\ Numbered' /\ \A g \in figures' : \E f \in figures : f.account = g.account
    BY <1>3 DEF AccountsInv, Tables, AccountsTyped, Numbered
<1>5. OneMakes' /\ RowsMade' /\ OneRow' /\ MadeAgreed' /\ RowAgreed'
    BY <1>3 DEF AccountsInv, Names, OneMakes, RowsMade, OneRow, MadeAgreed, RowAgreed
<1>6. \A k \in Figure : world[k].in =>
        AccountAt(figures', world[k].row) = OfAccount(k) /\ \E g \in figures' : g.id = world[k].row /\ g.name = k
    BY <1>3 DEF AccountsInv, Tables, Rowed, OfAccount, AccountAt
<1>7. FiguresFollow
    BY <1>4, <1>5, <1>6 DEF FiguresFollow
<1> QED
    BY <1>1, <1>2, <1>3, <1>7, SavePremiumStep

\* So does the save of the server.
LEMMA SavesPlayerStep ==
    ASSUME AccountsAssumption, AccountsInv, SavesPlayer
    PROVE  AccountsInv'
<1>1. PICK n \in Figure : SavePremium(n, 0) /\ figures' = Kept(world[n].row, world[n].calling)
    BY DEF SavesPlayer
<1>2. UNCHANGED <<talks, accounts, clerks, day, chosen, agreed, torn, doubled>>
    BY DEF SavesPlayer
<1>3. world[n].in /\ world[n].row \in Nat /\ world[n].calling \in Calling
    BY <1>1 DEF SavePremium, AccountsInv, Tables, AccountsTyped, Playing
<1> DEFINE id == world[n].row
           v == world[n].calling
<1>4. IsKept(id, v) /\ figures' \subseteq Row /\ Numbered'
    BY <1>1, <1>3, KeptStep DEF AccountsInv
<1>5. \A f \in figures : f.id = id => (doubled = {} => CallingBefore[v] = agreed[f.name].calling)
    BY <1>3, PlayerRow DEF AccountsInv, Names, PlayedAgreed
<1> HIDE DEF id, v
<1>6. OneMakes' /\ RowsMade' /\ OneRow' /\ MadeAgreed' /\ RowAgreed'
    BY <1>2, <1>4, <1>5, KeptNames
<1>7. \A k \in Figure : world[k].in =>
        AccountAt(figures', world[k].row) = OfAccount(k) /\ \E g \in figures' : g.id = world[k].row /\ g.name = k
    BY <1>4, KeptPlace
<1>8. \A g \in figures' : \E f \in figures : f.account = g.account
    BY <1>4 DEF IsKept, SameRow
<1>9. FiguresFollow
    BY <1>4, <1>6, <1>7, <1>8 DEF FiguresFollow
<1> QED
    BY <1>1, <1>2, <1>9, SavePremiumStep

\* Who has just entered.
Entered(c, r) == [NoPlayer EXCEPT !.in = TRUE, !.calling = c, !.row = r]

\* What a player is when he enters.
LEMMA EnteredIs ==
    ASSUME AccountsAssumption, MaxEnd \in Nat, NEW c \in Calling, NEW r \in Nat
    PROVE  /\ Entered(c, r) \in Playing /\ Entered(c, r).in /\ Entered(c, r).row = r
           /\ Entered(c, r).calling = c /\ Entered(c, r).ticks = 0
<1>1. NoPlayer \in Playing
    BY DEF NoPlayer, Playing, AccountsAssumption
<1> DEFINE e1 == [NoPlayer EXCEPT !.in = TRUE]
           e2 == [e1 EXCEPT !.calling = c]
           e3 == [e2 EXCEPT !.row = r]
<1>2. e1 \in Playing /\ e1.in /\ e1.ticks = 0
    BY <1>1 DEF Playing, NoPlayer
<1> HIDE DEF e1
<1>3. e2 \in Playing /\ e2.in /\ e2.calling = c /\ e2.ticks = 0
    BY <1>2 DEF Playing
<1> HIDE DEF e2
<1>4. e3 \in Playing /\ e3.in /\ e3.calling = c /\ e3.row = r /\ e3.ticks = 0
    BY <1>3 DEF Playing
<1>5. Entered(c, r) = e3
    BY DEF Entered, e1, e2
<1> HIDE DEF e3
<1> QED
    BY <1>4, <1>5

\* Who enters has the vocation and the premium time of his row and account.
LEMMA EntersStep ==
    ASSUME AccountsAssumption, AccountsInv, Enters
    PROVE  AccountsInv'
<1> USE DEF tables, records
<1>1. saving = NotSaving /\ UNCHANGED <<talks, accounts, figures, clerks, saving, day, granted, chosen, agreed, shared, torn>>
    BY DEF Enters
<1>2. PICK n \in Figure :
        /\ ~world[n].in /\ Exists(n)
        /\ \E f \in RowsOf(n) :
            world' = [world EXCEPT ![n] = CheckPremium([NoPlayer EXCEPT !.in = TRUE, !.calling = f.calling, !.row = f.id],
                                                       accounts[f.account].until)]
        /\ doubled' = doubled \cup (IF \E m \in Clerk : clerks[m].doing = "store" /\ clerks[m].name = n THEN {n} ELSE {})
    BY DEF Enters
<1>3. PICK f \in figures :
        /\ f.name = n /\ \A g \in figures : g.name = n => g = f
        /\ world' = [world EXCEPT ![n] = CheckPremium([NoPlayer EXCEPT !.in = TRUE, !.calling = f.calling, !.row = f.id],
                                                      accounts[f.account].until)]
    <2>1. IsFiniteSet(figures)
        BY DEF AccountsInv, Tables, Numbered
    <2>2. PICK g \in figures : g.name = n /\ \A h \in figures : h.name = n => h = g
        BY <1>2, <2>1, OneThere
    <2>3. \A h \in RowsOf(n) : h = g
        BY <2>2 DEF RowsOf
    <2> QED
        BY <1>2, <2>2, <2>3
<1> DEFINE p == [NoPlayer EXCEPT !.in = TRUE, !.calling = f.calling, !.row = f.id]
           end == accounts[f.account].until
           q == CheckPremium(p, end)
<1>4. f \in Row /\ f.account \in Account /\ end \in 0 .. MaxEnd /\ day \in Nat /\ MaxEnd \in Nat /\ f.calling \in Calling
      /\ granted[f.account] \in 0 .. MaxEnd /\ FreeNumber \notin Account
    BY DEF AccountsInv, Tables, AccountsTyped, Row, AccountsAssumption
<1>5. p \in Playing /\ p.in /\ p.row = f.id /\ p.calling = f.calling /\ p.ticks = 0
    <2>1. f.id \in Nat /\ p = Entered(f.calling, f.id)
        BY <1>4 DEF Row, Entered
    <2> HIDE DEF p
    <2> QED
        BY <1>4, <2>1, EnteredIs
<1>6. Checked(q, p, end)
    BY <1>4, <1>5, CheckIs
<1>7. world' = [world EXCEPT ![n] = q]
    BY <1>3
<1> HIDE DEF p, q, end
<1>8. /\ q \in Playing /\ q.in /\ q.row = f.id /\ CallingBefore[q.calling] = CallingBefore[f.calling]
      /\ q.ticks = (IF end > day THEN end ELSE 0)
      /\ q.ticks = 0 /\ ~q.raised => q.calling = CallingBefore[q.calling]
    BY <1>5, <1>6 DEF Checked
<1>9. /\ world' \in [Figure -> Playing] /\ world'[n] = q
      /\ \A k \in Figure : k # n => world'[k] = world[k]
    BY <1>7, <1>8 DEF AccountsInv, Tables, AccountsTyped
<1>10. doubled \subseteq doubled' /\ (doubled' = {} => doubled = {})
       /\ (doubled' = {} => \A m \in Clerk : clerks[m].doing = "store" => clerks[m].name # n)
    BY <1>2
<1>11. AccountsTyped'
    BY <1>1, <1>9 DEF AccountsInv, Tables, AccountsTyped
<1>12. Numbered' /\ Talking' /\ Opened'
    BY <1>1 DEF AccountsInv, Tables, Numbered, Talking, Opened
<1>13. Rowed'
    BY <1>1, <1>3, <1>8, <1>9 DEF AccountsInv, Tables, Rowed
<1>14. Saves' /\ ReadFresh' /\ SecretKept'
    BY <1>1, <1>10 DEF AccountsInv, Secrets, Saves, ReadFresh, SecretKept
<1>15. OneMakes' /\ RowsMade' /\ OneRow' /\ MadeAgreed' /\ RowAgreed'
    BY <1>1, <1>10 DEF AccountsInv, Names, OneMakes, RowsMade, OneRow, MadeAgreed, RowAgreed
<1>16. PlayedAgreed'
    <2>1. SUFFICES ASSUME doubled' = {}, NEW k \in Figure, world'[k].in
                   PROVE  /\ CallingBefore[world'[k].calling] = agreed[k].calling
                          /\ \A m \in Clerk : Making(clerks[m]) => clerks[m].name # k
        BY <1>1 DEF PlayedAgreed
    <2>2. CASE k # n
        BY <1>9, <1>10, <2>1, <2>2 DEF AccountsInv, Names, PlayedAgreed
    <2>3. CASE k = n
        <3>1. \A m \in Clerk : Making(clerks[m]) => clerks[m].name # n
            BY <1>3, <1>10, <2>1 DEF AccountsInv, Names, RowsMade, Making
        <3>2. CallingBefore[f.calling] = agreed[n].calling
            BY <1>3, <1>10, <2>1, <3>1 DEF AccountsInv, Names, RowAgreed
        <3> QED
            BY <1>8, <1>9, <2>3, <3>1, <3>2
    <2> QED
        BY <2>2, <2>3
<1>17. /\ \A c : Clean(c)' => Clean(c)
       /\ \A c : Quiet(c)' => Quiet(c)
       /\ \A x : Ahead(x)' = Ahead(x)
       /\ SavedAccount = FreeNumber
    BY <1>1, <1>10 DEF SavedAccount, Clean, Quiet, Ahead
<1>18. Known' /\ KeptQuiet'
    BY <1>1, <1>17 DEF AccountsInv, Premium, Known, KeptQuiet
<1>19. \A k \in Figure : k # n /\ world[k].in => OfAccount(k)' = OfAccount(k)
    BY <1>1, <1>9, AccountOfPlayer
<1>20. OfAccount(n)' = f.account
    <2>1. \A g, h \in figures : g.id = h.id => g = h
        BY DEF AccountsInv, Tables, Numbered
    <2>2. AccountAt(figures, f.id) = f.account
        BY <2>1, RowFound
    <2> QED
        BY <1>1, <1>8, <1>9, <2>2, AccountOfPlayer
<1>21. PlayedQuiet'
    <2>1. SUFFICES ASSUME NEW k \in Figure, world'[k].in
                   PROVE  /\ world'[k].ticks = 0 /\ ~world'[k].raised => world'[k].calling = CallingBefore[world'[k].calling]
                          /\ Quiet(OfAccount(k))' => world'[k].ticks \in {0, granted[OfAccount(k)']}
        BY <1>1 DEF PlayedQuiet
    <2>2. CASE k # n
        BY <1>9, <1>17, <1>19, <2>1, <2>2 DEF AccountsInv, Premium, PlayedQuiet
    <2>3. CASE k = n
        <3>1. Quiet(f.account) => Ahead(end) = Ahead(granted[f.account])
            BY <1>4 DEF AccountsInv, Premium, KeptQuiet, end
        <3>2. Quiet(f.account) /\ end > day => end = granted[f.account]
            BY <1>4, <3>1 DEF Ahead
        <3>3. Quiet(f.account)' => Quiet(f.account)
            BY <1>17
        <3> QED
            BY <1>8, <1>9, <1>20, <2>3, <3>2, <3>3
    <2> QED
        BY <2>2, <2>3
<1> QED
    BY <1>11, <1>12, <1>13, <1>14, <1>15, <1>16, <1>18, <1>21
    DEF AccountsInv, Tables, Secrets, Names, Premium

\* A write to the table of accounts.
AccountIs(a, w, end) ==
    /\ accounts' \in [Account -> [rows : 0 .. MaxRows, password : Secret, until : 0 .. MaxEnd]]
    /\ accounts'[a].password = w /\ accounts'[a].until = end
    /\ \A c \in Account : accounts'[c].rows = accounts[c].rows /\ (c # a => accounts'[c] = accounts[c])

\* The table of accounts after a write.
LEMMA SavedStep ==
    ASSUME AccountsTyped, NEW a \in Account, NEW w \in Secret, NEW end \in 0 .. MaxEnd, accounts' = Saved(a, w, end)
    PROVE  AccountIs(a, w, end)
<1> DEFINE T == [rows : 0 .. MaxRows, password : Secret, until : 0 .. MaxEnd]
<1>1. accounts \in [Account -> T]
    BY DEF AccountsTyped
<1> DEFINE x1 == [accounts EXCEPT ![a].password = w]
           x2 == [x1 EXCEPT ![a].until = end]
<1>2. /\ x1 \in [Account -> T] /\ x1[a].password = w
      /\ \A c \in Account : x1[c].rows = accounts[c].rows /\ (c # a => x1[c] = accounts[c])
    BY <1>1
<1> HIDE DEF x1
<1>3. /\ x2 \in [Account -> T] /\ x2[a].password = w /\ x2[a].until = end
      /\ \A c \in Account : x2[c].rows = x1[c].rows /\ (c # a => x2[c] = x1[c])
    BY <1>2
<1>4. accounts' = x2
    BY DEF Saved, x1
<1> HIDE DEF x2
<1> QED
    BY <1>2, <1>3, <1>4 DEF AccountIs

\* The write of premium time, which is torn when another conversation has read the account.
LEMMA StoresPremiumStep ==
    ASSUME AccountsAssumption, AccountsInv, StoresPremium
    PROVE  AccountsInv'
<1>1. saving # NotSaving
    BY DEF StoresPremium
<1>2. PICK n \in Figure, acct \in Account, u \in 0 .. MaxEnd :
        /\ n = saving.of /\ acct = OfAccount(n) /\ u = saving.until
        /\ world[n].in /\ SavedAccount = acct /\ u > day /\ saving.read \in Secret
    BY <1>1, SavedIs
<1>0. /\ saving' = NotSaving
      /\ UNCHANGED <<talks, figures, clerks, day, granted, chosen, agreed, doubled>>
      /\ accounts' = Saved(acct, saving.read, u)
      /\ world' = [world EXCEPT ![n] = CheckPremium(@, u)]
      /\ shared' = shared \cup (IF granted[acct] = u /\ SessionsOf(acct) # {n} THEN {acct} ELSE {})
      /\ torn \subseteq torn'
    BY <1>2 DEF StoresPremium
<1>3. /\ acct \notin torn \cup doubled => saving.read = accounts[acct].password
      /\ Clean(acct) => u = granted[acct]
    BY <1>1, <1>2 DEF AccountsInv, Secrets, Saves
<1>4. world[n] \in Playing /\ world \in [Figure -> Playing] /\ day \in Nat /\ MaxEnd \in Nat
    BY <1>2 DEF AccountsInv, Tables, AccountsTyped, AccountsAssumption
<1> DEFINE q == CheckPremium(world[n], u)
<1>5. Checked(q, world[n], u) /\ world' = [world EXCEPT ![n] = q]
    BY <1>0, <1>2, <1>4, CheckIs
<1> HIDE DEF q
<1>6. /\ world' \in [Figure -> Playing]
      /\ \A k \in Figure : k # n => world'[k] = world[k]
      /\ \A k \in Figure : world'[k].in = world[k].in /\ world'[k].row = world[k].row
      /\ CallingBefore[world'[n].calling] = CallingBefore[world[n].calling]
      /\ world'[n].ticks = u /\ u # 0
    <2>1. q \in Playing
        BY <1>5 DEF Checked
    <2>2. world'[n] = q /\ world' \in [Figure -> Playing] /\ \A k \in Figure : k # n => world'[k] = world[k]
        BY <1>2, <1>4, <1>5, <2>1
    <2> QED
        <3>1. /\ world'[n].in = world[n].in /\ world'[n].row = world[n].row
              /\ CallingBefore[world'[n].calling] = CallingBefore[world[n].calling] /\ world'[n].ticks = u
            BY <1>2, <1>5, <2>2 DEF Checked
        <3>2. u # 0
            BY <1>2, <1>4
        <3> QED
            BY <2>2, <3>1, <3>2
<1>7. AccountIs(acct, saving.read, u)
    BY <1>0, <1>2, SavedStep DEF AccountsInv, Tables
<1>8. /\ \A k \in Figure : OfAccount(k)' = OfAccount(k)
      /\ \A x : Ahead(x)' = Ahead(x)
      /\ \A c : Clean(c)' => Clean(c)
      /\ SavedAccount' = FreeNumber
    <2>1. \A k \in Figure : OfAccount(k)' = OfAccount(k)
        BY <1>0, <1>6, AccountOfPlayer
    <2> QED
        BY <1>0, <2>1 DEF Ahead, Clean, SavedAccount
<1>9. Clean(acct)' => SessionsOf(acct) = {n} /\ u = granted[acct]
    BY <1>0, <1>3, <1>8 DEF Clean
<1>10. \A c : c # acct /\ Quiet(c)' => Quiet(c)
    BY <1>2, <1>8 DEF Quiet
<1>11. AccountsTyped'
    <2>1. NotSaving \in [of : Figure \cup {NoFigure}, until : 0 .. MaxEnd, read : Secret \cup {NoSecret}]
        BY <1>4 DEF NotSaving
    <2>2. /\ accounts' \in [Account -> [rows : 0 .. MaxRows, password : Secret, until : 0 .. MaxEnd]]
          /\ saving' \in [of : Figure \cup {NoFigure}, until : 0 .. MaxEnd, read : Secret \cup {NoSecret}]
        BY <1>0, <1>7, <2>1 DEF AccountIs
    <2> QED
        BY <1>0, <1>6, <2>2 DEF AccountsInv, Tables, AccountsTyped
<1>12. Numbered' /\ Talking' /\ Rowed'
    BY <1>0, <1>6 DEF AccountsInv, Tables, Numbered, Talking, Rowed
<1>13. \A k \in Clerk : clerks[k].owner => clerks[k].account \in Account
    BY DEF AccountsInv, Tables, Talking, Shape, Owner, Guest, NoClerk
<1>14. Opened'
    <2>1. accounts[acct].rows > 0
        BY <1>2, PlayerRow
    <2>2. \A f \in figures : f.account \in Account
        BY DEF AccountsInv, Tables, AccountsTyped, Row
    <2>3. accounts[acct].rows \in 0 .. MaxRows
        BY <1>2 DEF AccountsInv, Tables, AccountsTyped
    <2>4. \A c \in Account : accounts'[c].rows = accounts[c].rows /\ (c # acct => accounts'[c] = accounts[c])
        BY <1>7 DEF AccountIs
    <2> QED
        BY <1>0, <1>13, <2>1, <2>2, <2>3, <2>4 DEF AccountsInv, Tables, Opened
<1>15. Saves'
    BY <1>0 DEF Saves
<1>16. \A c \in Account : c \notin torn' \cup doubled => accounts'[c].password = accounts[c].password
    BY <1>0, <1>3, <1>7 DEF AccountIs
<1>17. ReadFresh'
    <2>1. \A k \in Clerk : Making(clerks[k]) => clerks[k].account \in Account
        BY MakerOwns DEF AccountsInv, Tables, AccountsTyped, Talking
    <2> QED
        BY <1>0, <1>16, <2>1 DEF AccountsInv, Secrets, ReadFresh
<1>18. SecretKept'
    BY <1>0, <1>16 DEF AccountsInv, Secrets, SecretKept
<1>19. OneMakes' /\ RowsMade' /\ OneRow' /\ MadeAgreed' /\ RowAgreed'
    BY <1>0 DEF AccountsInv, Names, OneMakes, RowsMade, OneRow, MadeAgreed, RowAgreed
<1>20. PlayedAgreed'
    BY <1>0, <1>6 DEF AccountsInv, Names, PlayedAgreed
<1>21. Known'
    <2>1. SUFFICES ASSUME NEW k \in Clerk, clerks[k].owner, NEW c, c = clerks[k].account, Quiet(c)'
                   PROVE  Ahead(clerks[k].ticks) = Ahead(granted[c])
        BY <1>0, <1>8 DEF Known
    <2>2. c # acct
        <3>1. c = acct => k \in SessionsOf(acct)
            <4>1. clerks[k].on
                BY <2>1 DEF AccountsInv, Tables, Talking, Shape, Owner, Guest, NoClerk
            <4> QED
                BY <2>1, <4>1 DEF SessionsOf
        <3>2. k # n
            BY <1>2 DEF AccountsAssumption
        <3>3. Clean(c)'
            BY <2>1 DEF Quiet
        <3> QED
            BY <1>9, <3>1, <3>2, <3>3
    <2> QED
        BY <1>10, <2>1, <2>2 DEF AccountsInv, Premium, Known
<1>22. KeptQuiet'
    <2>1. SUFFICES ASSUME NEW c \in Account, Quiet(c)'
                   PROVE  Ahead(accounts'[c].until) = Ahead(granted[c])
        BY <1>0, <1>8 DEF KeptQuiet
    <2>2. CASE c = acct
        BY <1>7, <1>9, <2>1, <2>2 DEF Quiet, AccountIs
    <2>3. CASE c # acct
        BY <1>7, <1>10, <2>1, <2>3 DEF AccountIs, AccountsInv, Premium, KeptQuiet
    <2> QED
        BY <2>2, <2>3
<1>23. PlayedQuiet'
    <2>1. SUFFICES ASSUME NEW k \in Figure, world[k].in, NEW c, c = OfAccount(k)
                   PROVE  /\ world'[k].ticks = 0 /\ ~world'[k].raised => world'[k].calling = CallingBefore[world'[k].calling]
                          /\ Quiet(c)' => world'[k].ticks \in {0, granted[c]}
        BY <1>0, <1>6, <1>8 DEF PlayedQuiet, Quiet, Clean, SavedAccount
    <2>2. /\ world[k].ticks = 0 /\ ~world[k].raised => world[k].calling = CallingBefore[world[k].calling]
          /\ Quiet(c) => world[k].ticks \in {0, granted[c]}
        BY <2>1 DEF AccountsInv, Premium, PlayedQuiet
    <2>3. CASE k = n
        BY <1>2, <1>6, <1>9, <2>1, <2>3 DEF Quiet
    <2>4. CASE k # n /\ c # acct
        BY <1>6, <1>10, <2>2, <2>4
    <2>5. CASE k # n /\ c = acct
        <3>1. k \in SessionsOf(acct)
            <4>1. Belongs(k, OfAccount(k))
                BY <2>1, PlayerRow
            <4>2. OfAccount(k) = acct
                BY <2>1, <2>5
            <4>3. Belongs(k, acct)
                BY <4>1, <4>2, Zenon
            <4> QED
                BY <2>1, <4>3 DEF SessionsOf, Belongs
        <3>2. ~Clean(acct)'
            BY <1>9, <2>5, <3>1
        <3>3. ~Quiet(c)'
            BY <2>5, <3>2 DEF Quiet
        <3> QED
            BY <1>6, <2>2, <2>5, <3>3
    <2> QED
        BY <2>3, <2>4, <2>5
<1> QED
    BY <1>11, <1>12, <1>14, <1>15, <1>17, <1>18, <1>19, <1>20, <1>21, <1>22, <1>23
    DEF AccountsInv, Tables, Secrets, Names, Premium

-----------------------------------------------------------------------------
(* What a conversation writes.                                             *)

\* A new account, which is doubled when the number had been given.
LEMMA OpensAccountStep ==
    ASSUME AccountsAssumption, AccountsInv, OpensAccount
    PROVE  AccountsInv'
<1> USE DEF tables
<1>1. UNCHANGED <<talks, figures, world, saving, day, granted, agreed, shared, torn>>
    BY DEF OpensAccount
<1>0. PICK m \in Clerk, w \in Secret :
        /\ clerks[m].doing = "open" /\ accounts[clerks[m].account].rows < MaxRows
        /\ accounts' = [Saved(clerks[m].account, w, 0) EXCEPT ![clerks[m].account].rows = @ + 1]
        /\ doubled' = doubled \cup (IF accounts[clerks[m].account].rows > 0 THEN {clerks[m].account} ELSE {})
        /\ chosen' = [chosen EXCEPT ![clerks[m].account] = w]
        /\ clerks' = [clerks EXCEPT ![m] = Free(clerks[m])]
    BY Zenon DEF OpensAccount
<1>30. clerks[m] \in Dialogue
    BY DEF AccountsInv, Tables, AccountsTyped
<1>31. PICK d \in Dialogue, a \in Account \cup {FreeNumber} : d = clerks[m] /\ a = d.account
    BY <1>30 DEF Dialogue
<1>2. /\ d = clerks[m] /\ a = d.account
      /\ d.doing = "open" /\ accounts[a].rows < MaxRows
      /\ accounts' = [Saved(a, w, 0) EXCEPT ![a].rows = @ + 1]
      /\ doubled' = doubled \cup (IF accounts[a].rows > 0 THEN {a} ELSE {})
      /\ chosen' = [chosen EXCEPT ![a] = w]
      /\ clerks' = [clerks EXCEPT ![m] = Free(d)]
    BY <1>0, <1>31, Zenon
<1>3. Guest(d) /\ a \in Account /\ d.ticks = 0 /\ ~d.owner
    BY <1>2 DEF AccountsInv, Tables, Talking, Shape, Guest, Owner, NoClerk
<1>4. /\ Free(d) \in Dialogue /\ Owner(Free(d)) /\ ~Making(Free(d)) /\ Free(d).owner
      /\ Free(d).account = a /\ Free(d).ticks = 0
    BY <1>2, <1>3, FreeAsks DEF IsFree
<1> DEFINE e == Free(d)
<1> HIDE DEF e
<1>5. clerks' \in [Clerk -> Dialogue] /\ clerks'[m] = e /\ \A k \in Clerk : k # m => clerks'[k] = clerks[k]
    BY <1>2, <1>4 DEF AccountsInv, Tables, AccountsTyped, e
<1>6. \A k \in Clerk : Making(clerks'[k]) => clerks'[k] = clerks[k]
    BY <1>4, <1>5 DEF e
<1>7. \A k \in Clerk : Making(clerks[k]) => clerks'[k] = clerks[k]
    BY <1>2, <1>5 DEF Making
<1>8. /\ accounts' \in [Account -> [rows : 0 .. MaxRows, password : Secret, until : 0 .. MaxEnd]]
      /\ accounts'[a].rows > 0 /\ accounts'[a].password = w /\ accounts'[a].until = 0
      /\ \A c \in Account : c # a => accounts'[c] = accounts[c]
    <2> DEFINE x == Saved(a, w, 0)
               T == [rows : 0 .. MaxRows, password : Secret, until : 0 .. MaxEnd]
    <2>1. accounts \in [Account -> T] /\ 0 \in 0 .. MaxEnd /\ MaxRows \in Nat
        BY DEF AccountsInv, Tables, AccountsTyped, AccountsAssumption
    <2>2. /\ x \in [Account -> T] /\ x[a].password = w /\ x[a].until = 0 /\ x[a].rows = accounts[a].rows
          /\ \A c \in Account : c # a => x[c] = accounts[c]
        BY <1>2, <1>3, <2>1 DEF Saved
    <2>3. accounts' = [x EXCEPT ![a].rows = @ + 1]
        BY <1>2
    <2> HIDE DEF x
    <2>4. x[a].rows \in 0 .. MaxRows /\ x[a].rows + 1 \in 0 .. MaxRows /\ x[a].rows + 1 > 0
        BY <1>2, <1>3, <2>1, <2>2
    <2> QED
        BY <1>3, <2>1, <2>2, <2>3, <2>4
<1>9. doubled \subseteq doubled' /\ (accounts[a].rows > 0 => a \in doubled')
    BY <1>2
<1>10. chosen' \in [Account -> Secret] /\ chosen'[a] = w /\ \A c \in Account : c # a => chosen'[c] = chosen[c]
    BY <1>2, <1>3 DEF AccountsInv, Tables, AccountsTyped
<1>11. AccountsTyped'
    BY <1>1, <1>5, <1>8, <1>10 DEF AccountsInv, Tables, AccountsTyped
<1>12. Numbered' /\ Rowed'
    BY <1>1 DEF AccountsInv, Tables, Numbered, Rowed
<1>13. Talking'
    BY <1>4, <1>5 DEF AccountsInv, Tables, Talking, Shape, e
<1>14. \A k \in Clerk : clerks[k].owner => clerks[k].account \in Account /\ accounts[clerks[k].account].rows > 0
    BY DEF AccountsInv, Tables, Opened, Talking, Shape, Owner, Guest, NoClerk
<1>15. \A c \in Account : c \notin doubled' /\ accounts[c].rows > 0 => c # a
    BY <1>9
<1>16. Opened'
    <2>1. \A k \in Clerk : clerks'[k].owner => accounts'[clerks'[k].account].rows > 0
        BY <1>4, <1>5, <1>8, <1>14 DEF e
    <2>2. \A f \in figures : f.account \in Account /\ accounts[f.account].rows > 0
        BY DEF AccountsInv, Tables, AccountsTyped, Row, Opened
    <2>3. \A f \in figures : accounts'[f.account].rows > 0
        BY <1>8, <2>2
    <2>4. \A c \in Account : accounts'[c].rows = 0 => accounts'[c].until = 0 /\ granted[c] = 0
        <3>1. SUFFICES ASSUME NEW c \in Account, accounts'[c].rows = 0
                       PROVE  accounts'[c].until = 0 /\ granted[c] = 0
            OBVIOUS
        <3>2. c # a
            BY <1>8, <3>1
        <3> QED
            BY <1>8, <3>1, <3>2 DEF AccountsInv, Tables, Opened
    <2> QED
        BY <1>1, <2>1, <2>3, <2>4 DEF Opened
<1>17. /\ SavedAccount' = SavedAccount
       /\ \A k \in Figure : OfAccount(k)' = OfAccount(k)
       /\ \A x : Ahead(x)' = Ahead(x)
    BY <1>1 DEF SavedAccount, OfAccount, Ahead
<1>18. /\ \A c : Clean(c)' => Clean(c) /\ c \notin doubled'
       /\ \A c : Quiet(c)' => Quiet(c) /\ c \notin doubled'
    BY <1>1, <1>9, <1>17 DEF Clean, Quiet
<1>19. Saves'
    <2>1. SUFFICES ASSUME saving # NotSaving
                   PROVE  Saves'
        BY <1>1 DEF Saves
    <2>2. SavedAccount \in Account /\ accounts[SavedAccount].rows > 0
        BY <2>1, SavedIs
    <2>3. SavedAccount \notin doubled' => accounts'[SavedAccount] = accounts[SavedAccount] /\ SavedAccount \notin doubled
        BY <1>8, <1>9, <1>15, <2>2
    <2>4. Clean(SavedAccount)' => Clean(SavedAccount)
        BY <1>1, <1>9, <1>17 DEF Clean
    <2> QED
        BY <1>1, <1>17, <2>1, <2>3, <2>4 DEF Saves, AccountsInv, Secrets
<1>20. ReadFresh'
    <2>1. SUFFICES ASSUME NEW k \in Clerk, Making(clerks'[k]), clerks'[k].account \notin torn \cup doubled'
                   PROVE  clerks'[k].read = accounts'[clerks'[k].account].password
        BY <1>1 DEF ReadFresh
    <2>2. clerks'[k] = clerks[k] /\ Making(clerks[k])
        BY <1>6, <2>1
    <2>3. clerks[k].owner
        BY <2>2, MakerOwns DEF AccountsInv, Tables, AccountsTyped, Talking
    <2>4. clerks[k].account \in Account /\ clerks[k].account # a
        BY <1>14, <1>15, <2>1, <2>2, <2>3
    <2> QED
        BY <1>8, <1>9, <2>1, <2>2, <2>4 DEF AccountsInv, Secrets, ReadFresh
<1>21. SecretKept'
    <2>1. SUFFICES ASSUME NEW c \in Account, c \notin torn \cup doubled'
                   PROVE  accounts'[c].password = chosen'[c]
        BY <1>1 DEF SecretKept
    <2> QED
        BY <1>8, <1>9, <1>10, <2>1 DEF AccountsInv, Secrets, SecretKept
<1>22. OneMakes' /\ RowsMade'
    BY <1>1, <1>6, <1>9 DEF AccountsInv, Names, OneMakes, RowsMade
<1>23. OneRow' /\ MadeAgreed'
    BY <1>1, <1>6, <1>9 DEF AccountsInv, Names, OneRow, MadeAgreed
<1>24. RowAgreed' /\ PlayedAgreed'
    BY <1>1, <1>6, <1>7, <1>9 DEF AccountsInv, Names, RowAgreed, PlayedAgreed
<1>25. accounts[a].rows \in 0 .. MaxRows /\ (accounts[a].rows = 0 => granted[a] = 0)
    BY <1>3 DEF AccountsInv, Tables, AccountsTyped, Opened
<1>26. a \notin doubled' => granted[a] = 0
    BY <1>9, <1>25
<1>27. Known'
    <2>1. SUFFICES ASSUME NEW k \in Clerk, clerks'[k].owner, NEW c, c = clerks'[k].account, Quiet(c)'
                   PROVE  Ahead(clerks'[k].ticks) = Ahead(granted[c])
        BY <1>1, <1>17 DEF Known
    <2>2. Quiet(c) /\ c \notin doubled'
        BY <1>18, <2>1
    <2>3. CASE k = m
        BY <1>4, <1>5, <1>26, <2>1, <2>2, <2>3 DEF e
    <2>4. CASE k # m
        BY <1>5, <2>1, <2>2, <2>4 DEF AccountsInv, Premium, Known
    <2> QED
        BY <2>3, <2>4
<1>28. KeptQuiet'
    <2>1. SUFFICES ASSUME NEW c \in Account, Quiet(c)'
                   PROVE  Ahead(accounts'[c].until) = Ahead(granted[c])
        BY <1>1, <1>17 DEF KeptQuiet
    <2>2. Quiet(c) /\ c \notin doubled'
        BY <1>18, <2>1
    <2>3. CASE c = a
        BY <1>8, <1>26, <2>2, <2>3
    <2>4. CASE c # a
        BY <1>8, <2>2, <2>4 DEF AccountsInv, Premium, KeptQuiet
    <2> QED
        BY <2>3, <2>4
<1>29. PlayedQuiet'
    BY <1>1, <1>17, <1>18 DEF AccountsInv, Premium, PlayedQuiet
<1> QED
    BY <1>11, <1>12, <1>13, <1>16, <1>19, <1>20, <1>21, <1>22, <1>23, <1>24, <1>27, <1>28, <1>29
    DEF AccountsInv, Tables, Secrets, Names, Premium

\* A new row: the last of the numbers, and the only one of its name if nobody rivals.
LEMMA InsertsFigureStep ==
    ASSUME AccountsAssumption, AccountsInv, InsertsFigure
    PROVE  AccountsInv'
<1> USE DEF records
<1>1. UNCHANGED <<talks, accounts, world, saving, day, granted, chosen, agreed, shared, torn, doubled>>
    BY DEF InsertsFigure
<1>2. PICK m \in Clerk :
        /\ clerks[m].doing = "insert" /\ Cardinality(figures) < MaxRows
        /\ figures' = figures \cup {[id |-> Cardinality(figures) + 1, name |-> clerks[m].name,
                                     account |-> clerks[m].account, calling |-> Rookie]}
        /\ clerks' = [clerks EXCEPT ![m].doing = "store"]
    BY Zenon DEF InsertsFigure
<1>3. clerks \in [Clerk -> Dialogue] /\ Shape(clerks[m]) /\ figures \subseteq Row /\ IsFiniteSet(figures)
      /\ (\A f \in figures : f.id <= Cardinality(figures)) /\ (\A f, g \in figures : f.id = g.id => f = g)
    BY DEF AccountsInv, Tables, AccountsTyped, Talking, Numbered
<1>4. Owner(clerks[m]) /\ clerks[m].asked = {11} /\ Making(clerks[m])
    BY <1>2, <1>3 DEF Shape, Guest, Owner, NoClerk, Making
<1>40. Cardinality(figures) + 1 \in Nat \ {0}
    BY <1>3, FS_CardinalityType
<1>5. PICK d \in Dialogue, a \in Account, x \in Figure, id \in Nat \ {0}, g \in Row :
        /\ d = clerks[m] /\ a = d.account /\ x = d.name
        /\ id = Cardinality(figures) + 1
        /\ g = [id |-> id, name |-> x, account |-> a, calling |-> Rookie]
    <2>1. /\ clerks[m] \in Dialogue /\ clerks[m].account \in Account /\ clerks[m].name \in Figure
        BY <1>3, <1>4, MakerOwns
    <2>2. [id |-> Cardinality(figures) + 1, name |-> clerks[m].name, account |-> clerks[m].account,
           calling |-> Rookie] \in Row
        BY <1>40, <2>1 DEF AccountsAssumption, Row
    <2> QED
        BY <1>40, <2>1, <2>2
<1>6. /\ Owner(d) /\ d.on /\ d.owner /\ d.asked = {11} /\ Making(d) /\ d.doing = "insert" /\ d.read \in Secret
      /\ a = d.account /\ x = d.name
    BY <1>2, <1>3, <1>4, <1>5, MakerOwns
<1> DEFINE e == [d EXCEPT !.doing = "store"]
<1>7. clerks' = [clerks EXCEPT ![m] = e]
    BY <1>2, <1>5
<1>8. /\ e \in Dialogue /\ e.on /\ e.owner /\ e.asked = {11} /\ e.doing = "store" /\ e.read = d.read /\ e.word = d.word
      /\ e.account = a /\ e.name = x /\ e.told = d.told /\ e.calling = d.calling /\ e.ticks = d.ticks
    BY <1>6 DEF Dialogue
<1> HIDE DEF e
<1>9. Making(e) /\ Owner(e)
    <2>1. {11} # {6}
        BY TwoBooks
    <2> QED
        BY <1>6, <1>8, <2>1 DEF Making, Owner
<1>10. clerks' \in [Clerk -> Dialogue] /\ clerks'[m] = e /\ \A k \in Clerk : k # m => clerks'[k] = clerks[k]
    BY <1>3, <1>7, <1>8
<1>11. Cardinality(figures) \in Nat
    BY <1>3, FS_CardinalityType
<1>12. figures' = figures \cup {g} /\ g \notin figures
    BY <1>2, <1>3, <1>5, <1>11
<1>13. g \in Row /\ g.id = id /\ g.name = x /\ g.account = a /\ g.calling = Rookie /\ id = Cardinality(figures) + 1
    BY <1>5, <1>11 DEF Row, AccountsAssumption
<1>14. IsFiniteSet(figures') /\ Cardinality(figures') = Cardinality(figures) + 1
    BY <1>3, <1>12, FS_AddElement
<1>15. Numbered'
    <2>1. \A f \in figures : f.id <= Cardinality(figures) + 1 /\ f.id # g.id
        BY <1>3, <1>11, <1>13 DEF Row
    <2>2. \A f1, f2 \in figures' : f1.id = f2.id => f1 = f2
        BY <1>3, <1>12, <2>1
    <2>3. \A f \in figures' : f.id <= Cardinality(figures')
        BY <1>11, <1>12, <1>13, <1>14, <2>1
    <2> QED
        BY <1>14, <2>2, <2>3 DEF Numbered
<1>16. AccountsTyped'
    BY <1>1, <1>3, <1>10, <1>12, <1>13 DEF AccountsInv, Tables, AccountsTyped
<1>17. Talking'
    BY <1>9, <1>10 DEF AccountsInv, Tables, Talking, Shape
<1>18. Rowed'
    BY <1>1, <1>12 DEF AccountsInv, Tables, Rowed
<1>19. Opened'
    <2>1. accounts[a].rows > 0
        BY <1>5, <1>6 DEF AccountsInv, Tables, Opened
    <2> QED
        BY <1>1, <1>8, <1>10, <1>12, <1>13, <2>1 DEF AccountsInv, Tables, Opened
<1>20. \A k \in Figure : world[k].in => OfAccount(k)' = OfAccount(k)
    <2>1. SUFFICES ASSUME NEW k \in Figure, world[k].in
                   PROVE  OfAccount(k)' = OfAccount(k)
        OBVIOUS
    <2>2. Belongs(k, OfAccount(k))
        BY <2>1, PlayerRow
    <2>3. PICK f \in figures : f.id = world[k].row /\ f.account = OfAccount(k)
        BY <2>2 DEF Belongs
    <2>4. f \in figures' /\ \A f1, f2 \in figures' : f1.id = f2.id => f1 = f2
        BY <1>12, <1>15 DEF Numbered
    <2>5. AccountAt(figures', f.id) = f.account
        BY <2>4, RowFound
    <2> QED
        BY <1>1, <2>3, <2>5, AccountOfPlayer
<1>21. /\ SavedAccount' = SavedAccount
       /\ \A y : Ahead(y)' = Ahead(y)
       /\ \A c : Clean(c)' = Clean(c)
    <2>1. saving # NotSaving => OfAccount(saving.of)' = OfAccount(saving.of)
        <3>1. saving # NotSaving => saving.of \in Figure /\ world[saving.of].in
            BY SavedIs
        <3>2. \A k : k = saving.of /\ saving # NotSaving => OfAccount(k)' = OfAccount(k)
            BY <1>20, <3>1
        <3> QED
            BY <1>1, <3>1, <3>2, AccountOfPlayer
    <2> QED
        BY <1>1, <2>1 DEF SavedAccount, Ahead, Clean
<1>22. \A c : Quiet(c)' = Quiet(c)
    BY <1>21 DEF Quiet
<1>23. Saves' /\ SecretKept'
    BY <1>1, <1>21 DEF AccountsInv, Secrets, Saves, SecretKept
<1>24. \A k \in Clerk : /\ Making(clerks'[k]) <=> Making(clerks[k])
                        /\ clerks'[k].name = clerks[k].name /\ clerks'[k].account = clerks[k].account
                        /\ clerks'[k].read = clerks[k].read /\ clerks'[k].told = clerks[k].told
                        /\ clerks'[k].ticks = clerks[k].ticks /\ clerks'[k].owner = clerks[k].owner
    <2>1. TAKE k \in Clerk
    <2>2. CASE k # m
        <3>1. clerks'[k] = clerks[k]
            BY <1>10, <2>2
        <3> QED
            BY <3>1, Zenon
    <2>3. CASE k = m
        <3>1. clerks'[k] = e /\ clerks[k] = d
            BY <1>5, <1>10, <2>3
        <3>2. e.owner = d.owner
            BY <1>6, <1>8
        <3>3. e.name = d.name /\ e.account = d.account /\ e.read = d.read /\ e.told = d.told /\ e.ticks = d.ticks
            BY <1>6, <1>8
        <3> QED
            BY <1>6, <1>9, <3>1, <3>2, <3>3, Zenon
    <2> QED
        BY <2>2, <2>3
<1>25. ReadFresh'
    BY <1>1, <1>24 DEF AccountsInv, Secrets, ReadFresh
<1>26. OneMakes'
    BY <1>1, <1>24 DEF AccountsInv, Names, OneMakes
<1>27. x \notin doubled => /\ \A f \in figures : f.name # x
                           /\ \A k \in Clerk : k # m /\ Making(clerks[k]) => clerks[k].name # x
    BY <1>5, <1>6 DEF AccountsInv, Names, RowsMade, OneMakes
<1>28. RowsMade'
    <2>1. SUFFICES ASSUME NEW k \in Clerk, Making(clerks'[k]), clerks'[k].name \notin doubled
                   PROVE  IF clerks'[k].doing = "insert" THEN \A f \in figures' : f.name # clerks'[k].name
                          ELSE \E f \in figures' : f.name = clerks'[k].name
        BY <1>1 DEF RowsMade
    <2>2. CASE k = m
        BY <1>8, <1>10, <1>12, <1>13, <2>2
    <2>3. CASE k # m
        <3>1. clerks'[k] = clerks[k] /\ Making(clerks[k]) /\ clerks[k].name \notin doubled
            BY <1>10, <2>1, <2>3
        <3>2. clerks[k].name # x
            BY <1>27, <2>3, <3>1
        <3>3. IF clerks[k].doing = "insert" THEN \A f \in figures : f.name # clerks[k].name
              ELSE \E f \in figures : f.name = clerks[k].name
            BY <3>1 DEF AccountsInv, Names, RowsMade
        <3> QED
            BY <1>12, <1>13, <3>1, <3>2, <3>3
    <2> QED
        BY <2>2, <2>3
<1>29. OneRow'
    BY <1>1, <1>12, <1>13, <1>27 DEF AccountsInv, Names, OneRow
<1>30. MadeAgreed'
    <2>1. SUFFICES ASSUME doubled = {}, NEW k \in Clerk, Making(clerks[k])
                   PROVE  /\ agreed[clerks[k].name] = [account |-> clerks[k].account, calling |-> clerks[k].told]
                          /\ \A f \in figures' : f.name = clerks[k].name => f.account = clerks[k].account
        BY <1>1, <1>24 DEF MadeAgreed
    <2>2. /\ agreed[clerks[k].name] = [account |-> clerks[k].account, calling |-> clerks[k].told]
          /\ \A f \in figures : f.name = clerks[k].name => f.account = clerks[k].account
        BY <2>1 DEF AccountsInv, Names, MadeAgreed
    <2>3. g.name = clerks[k].name => g.account = clerks[k].account
        BY <1>5, <1>13, <1>27, <2>1
    <2> QED
        BY <1>12, <2>2, <2>3
<1>31. RowAgreed'
    <2>1. SUFFICES ASSUME doubled = {}, NEW f \in figures', \A k \in Clerk : Making(clerks[k]) => clerks[k].name # f.name
                   PROVE  f.account = agreed[f.name].account /\ CallingBefore[f.calling] = agreed[f.name].calling
        BY <1>1, <1>24 DEF RowAgreed
    <2>2. f # g
        BY <1>5, <1>6, <1>13, <2>1
    <2> QED
        BY <1>12, <2>1, <2>2 DEF AccountsInv, Names, RowAgreed
<1>32. PlayedAgreed'
    BY <1>1, <1>24 DEF AccountsInv, Names, PlayedAgreed
<1>33. Known'
    BY <1>1, <1>21, <1>22, <1>24 DEF AccountsInv, Premium, Known
<1>34. KeptQuiet'
    BY <1>1, <1>21, <1>22 DEF AccountsInv, Premium, KeptQuiet
<1>35. PlayedQuiet'
    BY <1>1, <1>20, <1>22 DEF AccountsInv, Premium, PlayedQuiet
<1> QED
    BY <1>15, <1>16, <1>17, <1>18, <1>19, <1>23, <1>25, <1>26, <1>28, <1>29, <1>30, <1>31, <1>32, <1>33, <1>34, <1>35
    DEF AccountsInv, Tables, Secrets, Names, Premium

\* What saveAccount does at the end of a conversation about an account.
LEMMA StoreStep ==
    ASSUME AccountsAssumption, AccountsInv, NEW m \in Clerk, NEW d \in Dialogue, d = clerks[m],
           Owner(d), d.doing = "store", NEW a \in Account, a = d.account, NEW e, IsFree(e, d),
           clerks' = [clerks EXCEPT ![m] = e], accounts' = Saved(a, d.read, d.ticks),
           torn' = torn \cup (IF Reading(a) # {m} THEN {a} ELSE {}), FiguresFollow,
           chosen' \in [Account -> Secret], \A c \in Account : c # a => chosen'[c] = chosen[c],
           a \notin torn \cup doubled => d.read = chosen'[a],
           UNCHANGED <<talks, world, saving, day, granted, agreed, shared, doubled>>
    PROVE  AccountsInv'
<1>1. /\ clerks \in [Clerk -> Dialogue] /\ d.read \in Secret /\ d.ticks \in 0 .. MaxEnd /\ d.owner /\ d.on
      /\ accounts[a].rows > 0 /\ AccountsTyped
    BY DEF AccountsInv, Tables, AccountsTyped, Opened, Owner, Dialogue
<1>2. AccountIs(a, d.read, d.ticks)
    BY <1>1, SavedStep
<1>3. e \in Dialogue /\ Owner(e) /\ ~Making(e) /\ e.owner /\ e.account = a /\ e.ticks = d.ticks
    BY DEF IsFree
<1>4. clerks' \in [Clerk -> Dialogue] /\ clerks'[m] = e /\ \A k \in Clerk : k # m => clerks'[k] = clerks[k]
    BY <1>1, <1>3
<1>5. \A k \in Clerk : Making(clerks'[k]) => clerks'[k] = clerks[k] /\ k # m
    BY <1>3, <1>4
<1>6. \A k \in Clerk : k # m /\ Making(clerks[k]) /\ clerks[k].account = a => a \in torn'
    <2>1. SUFFICES ASSUME NEW k \in Clerk, k # m, Making(clerks[k]), clerks[k].account = a
                   PROVE  a \in torn'
        OBVIOUS
    <2>2. k \in Reading(a)
        BY <2>1 DEF Reading, Making
    <2> QED
        BY <2>1, <2>2
<1>7. saving # NotSaving /\ SavedAccount = a => a \in torn'
    <2>1. SUFFICES ASSUME saving # NotSaving, SavedAccount = a
                   PROVE  a \in torn'
        OBVIOUS
    <2>2. PICK n \in Figure : n = saving.of /\ world[n].in /\ OfAccount(n) = a
        BY <2>1, SavedIs
    <2>3. Belongs(n, OfAccount(n))
        BY <2>2, PlayerRow
    <2>4. PICK f \in figures : f.id = world[n].row /\ f.name = n /\ f.account = a
        BY <2>2, <2>3 DEF Belongs
    <2>5. n \in Reading(a)
        <3>1. f \in RowsOf(n)
            BY <2>4 DEF RowsOf
        <3>2. n \in {saving.of} \ {NoFigure}
            BY <2>2 DEF AccountsAssumption
        <3> QED
            BY <2>4, <3>1, <3>2 DEF Reading
    <2>6. n # m
        BY DEF AccountsAssumption
    <2> QED
        BY <2>5, <2>6
<1>8. torn \subseteq torn'
    OBVIOUS
<1>9. \A k \in Figure : world[k].in => OfAccount(k)' = OfAccount(k)
    BY AccountOfPlayer DEF FiguresFollow
<1>10. /\ SavedAccount' = SavedAccount
       /\ \A y : Ahead(y)' = Ahead(y)
       /\ \A c : Clean(c)' => Clean(c)
    <2>1. saving # NotSaving => OfAccount(saving.of)' = OfAccount(saving.of)
        <3>1. saving # NotSaving => saving.of \in Figure /\ world[saving.of].in
            BY SavedIs
        <3>2. \A k : k = saving.of /\ saving # NotSaving => OfAccount(k)' = OfAccount(k)
            BY <1>9, <3>1
        <3> QED
            BY <3>1, <3>2, AccountOfPlayer
    <2> QED
        BY <1>8, <2>1 DEF SavedAccount, Ahead, Clean
<1>11. \A c : Quiet(c)' => Quiet(c)
    BY <1>10 DEF Quiet
<1>12. /\ accounts' \in [Account -> [rows : 0 .. MaxRows, password : Secret, until : 0 .. MaxEnd]]
       /\ accounts'[a].password = d.read /\ accounts'[a].until = d.ticks /\ accounts'[a].rows = accounts[a].rows
       /\ \A c \in Account : c # a => accounts'[c] = accounts[c]
    BY <1>2 DEF AccountIs
<1>13. AccountsTyped'
    BY <1>4, <1>12 DEF FiguresFollow, AccountsInv, Tables, AccountsTyped
<1>14. Talking'
    BY <1>3, <1>4 DEF AccountsInv, Tables, Talking, Shape
<1>15. Numbered' /\ Rowed'
    BY DEF FiguresFollow, Rowed
<1>16. Opened'
    <2>1. \A k \in Clerk : clerks[k].owner => clerks[k].account \in Account /\ accounts[clerks[k].account].rows > 0
        BY DEF AccountsInv, Tables, Opened, Talking, Shape, Owner, Guest, NoClerk
    <2>2. \A k \in Clerk : clerks'[k].owner => accounts'[clerks'[k].account].rows > 0
        BY <1>1, <1>3, <1>4, <1>12, <2>1
    <2>3. \A f \in figures : f.account \in Account /\ accounts[f.account].rows > 0
        BY DEF AccountsInv, Tables, AccountsTyped, Row, Opened
    <2>4. \A f \in figures' : accounts'[f.account].rows > 0
        BY <1>1, <1>12, <2>3 DEF FiguresFollow
    <2>5. \A c \in Account : accounts'[c].rows = 0 => accounts'[c].until = 0 /\ granted[c] = 0
        <3>1. SUFFICES ASSUME NEW c \in Account, accounts'[c].rows = 0
                       PROVE  accounts'[c].until = 0 /\ granted[c] = 0
            OBVIOUS
        <3>2. c # a
            BY <1>1, <1>12, <3>1
        <3> QED
            BY <1>12, <3>1, <3>2 DEF AccountsInv, Tables, Opened
    <2> QED
        BY <2>2, <2>4, <2>5 DEF Opened
<1>17. Saves'
    <2>1. SUFFICES ASSUME saving # NotSaving
                   PROVE  Saves'
        BY DEF Saves
    <2>2. SavedAccount \in Account
        BY <2>1, SavedIs
    <2>3. SavedAccount \notin torn' => accounts'[SavedAccount] = accounts[SavedAccount]
        BY <1>7, <1>12, <2>1, <2>2
    <2>4. Clean(SavedAccount)' => Clean(SavedAccount)
        BY <1>8, <1>10 DEF Clean
    <2> QED
        BY <1>8, <1>10, <2>1, <2>3, <2>4 DEF Saves, AccountsInv, Secrets
<1>18. ReadFresh'
    <2>1. SUFFICES ASSUME NEW k \in Clerk, Making(clerks'[k]), clerks'[k].account \notin torn' \cup doubled
                   PROVE  clerks'[k].read = accounts'[clerks'[k].account].password
        BY DEF ReadFresh
    <2>2. clerks'[k] = clerks[k] /\ k # m /\ Making(clerks[k])
        BY <1>5, <2>1
    <2>3. clerks[k].account # a
        BY <1>6, <2>1, <2>2
    <2>4. clerks[k].account \in Account
        BY <2>2, MakerOwns DEF AccountsInv, Tables, AccountsTyped, Talking
    <2> QED
        BY <1>8, <1>12, <2>1, <2>2, <2>3, <2>4 DEF AccountsInv, Secrets, ReadFresh
<1>19. SecretKept'
    <2>1. SUFFICES ASSUME NEW c \in Account, c \notin torn' \cup doubled
                   PROVE  accounts'[c].password = chosen'[c]
        BY DEF SecretKept
    <2>2. CASE c = a
        BY <1>8, <1>12, <2>1, <2>2
    <2>3. CASE c # a
        BY <1>8, <1>12, <2>1, <2>3 DEF AccountsInv, Secrets, SecretKept
    <2> QED
        BY <2>2, <2>3
<1>20. OneMakes' /\ RowsMade' /\ OneRow' /\ MadeAgreed' /\ RowAgreed'
    BY DEF FiguresFollow
<1>21. PlayedAgreed'
    BY <1>5 DEF AccountsInv, Names, PlayedAgreed
<1>22. Known'
    <2>1. SUFFICES ASSUME NEW k \in Clerk, clerks'[k].owner, NEW c, c = clerks'[k].account, Quiet(c)'
                   PROVE  Ahead(clerks'[k].ticks) = Ahead(granted[c])
        BY <1>10 DEF Known
    <2>2. Quiet(c)
        BY <1>11, <2>1
    <2>3. CASE k = m
        BY <1>1, <1>3, <1>4, <2>1, <2>2, <2>3 DEF AccountsInv, Premium, Known
    <2>4. CASE k # m
        BY <1>4, <2>1, <2>2, <2>4 DEF AccountsInv, Premium, Known
    <2> QED
        BY <2>3, <2>4
<1>23. KeptQuiet'
    <2>1. SUFFICES ASSUME NEW c \in Account, Quiet(c)'
                   PROVE  Ahead(accounts'[c].until) = Ahead(granted[c])
        BY <1>10 DEF KeptQuiet
    <2>2. Quiet(c)
        BY <1>11, <2>1
    <2>3. CASE c = a
        BY <1>1, <1>12, <2>2, <2>3 DEF AccountsInv, Premium, Known
    <2>4. CASE c # a
        BY <1>12, <2>2, <2>4 DEF AccountsInv, Premium, KeptQuiet
    <2> QED
        BY <2>3, <2>4
<1>24. PlayedQuiet'
    BY <1>9, <1>11 DEF AccountsInv, Premium, PlayedQuiet
<1> QED
    BY <1>13, <1>14, <1>15, <1>16, <1>17, <1>18, <1>19, <1>20, <1>21, <1>22, <1>23, <1>24
    DEF AccountsInv, Tables, Secrets, Names, Premium

\* The write of a character or a password, with the account as it was read.
LEMMA StoresAccountStep ==
    ASSUME AccountsAssumption, AccountsInv, StoresAccount
    PROVE  AccountsInv'
<1>1. UNCHANGED <<talks, world, saving, day, granted, agreed, shared, doubled>>
    BY DEF StoresAccount
<1>2. PICK m \in Clerk :
        /\ clerks[m].doing = "store"
        /\ \/ 11 \in clerks[m].asked /\ StoresFigure(m)
           \/ 6 \in clerks[m].asked /\ StoresSecret(m)
        /\ accounts' = Saved(clerks[m].account, clerks[m].read, clerks[m].ticks)
        /\ torn' = torn \cup (IF Reading(clerks[m].account) # {m} THEN {clerks[m].account} ELSE {})
    BY DEF StoresAccount
<1>3. clerks \in [Clerk -> Dialogue] /\ Shape(clerks[m])
    BY DEF AccountsInv, Tables, AccountsTyped, Talking
<1>4. Owner(clerks[m])
    BY <1>2, <1>3 DEF Shape, Guest, NoClerk
<1>5. PICK d \in Dialogue, a \in Account : d = clerks[m] /\ a = d.account
    BY <1>3, <1>4 DEF Owner
<1>6. /\ Owner(d) /\ d.doing = "store" /\ d.read \in Secret
      /\ accounts' = Saved(a, d.read, d.ticks)
      /\ torn' = torn \cup (IF Reading(a) # {m} THEN {a} ELSE {})
    BY <1>2, <1>4, <1>5 DEF Owner
<1>7. chosen \in [Account -> Secret]
    BY DEF AccountsInv, Tables, AccountsTyped
<1>8. CASE 6 \in d.asked /\ StoresSecret(m)
    <2>0. PICK e : e = Free(d)
        OBVIOUS
    <2>1. clerks' = [clerks EXCEPT ![m] = e] /\ chosen' = [chosen EXCEPT ![a] = d.word] /\ figures' = figures
        BY <1>5, <1>8, <2>0 DEF StoresSecret
    <2>2. IsFree(e, d)
        BY <1>5, <2>0, FreeAsks
    <2>3. d.asked = {6} /\ {6} # {11} /\ d.word \in Secret /\ d.read = d.word /\ ~Making(d)
        <3>1. {6} # {11} /\ 6 \notin {11}
            BY TwoBooks
        <3>2. d.asked = {6} /\ d.read = d.word
            BY <1>6, <1>8, <3>1 DEF Owner
        <3> QED
            BY <1>6, <3>1, <3>2 DEF Owner, Making
    <2>4. \A k \in Clerk : /\ Making(clerks'[k]) => clerks'[k] = clerks[k]
                           /\ Making(clerks[k]) => clerks'[k] = clerks[k]
        <3>1. clerks'[m] = e /\ \A k \in Clerk : k # m => clerks'[k] = clerks[k]
            BY <1>3, <2>1
        <3> QED
            BY <1>5, <2>2, <2>3, <3>1 DEF IsFree
    <2>5. figures' \subseteq Row /\ Numbered' /\ \A g \in figures' : \E f \in figures : f.account = g.account
        BY <2>1 DEF AccountsInv, Tables, AccountsTyped, Numbered
    <2>6. \A k \in Figure : world[k].in =>
            AccountAt(figures', world[k].row) = OfAccount(k) /\ \E g \in figures' : g.id = world[k].row /\ g.name = k
        BY <2>1, AccountOfPlayer DEF AccountsInv, Tables, Rowed
    <2>7. OneMakes' /\ RowsMade' /\ OneRow' /\ MadeAgreed' /\ RowAgreed'
        BY <1>1, <2>1, <2>4 DEF AccountsInv, Names, OneMakes, RowsMade, OneRow, MadeAgreed, RowAgreed
    <2>8. FiguresFollow
        BY <2>5, <2>6, <2>7 DEF FiguresFollow
    <2>9. /\ chosen' \in [Account -> Secret] /\ \A c \in Account : c # a => chosen'[c] = chosen[c]
          /\ chosen'[a] = d.read
        BY <1>7, <2>1, <2>3
    <2>10. clerks' = [clerks EXCEPT ![m] = e] /\ d = clerks[m] /\ a = d.account /\ Owner(d) /\ d.doing = "store"
        BY <1>5, <1>6, <2>1
    <2>11. /\ accounts' = Saved(a, d.read, d.ticks)
           /\ torn' = torn \cup (IF Reading(a) # {m} THEN {a} ELSE {})
           /\ (a \notin (torn \cup doubled) => d.read = chosen'[a])
        BY <1>6, <2>9
    <2> QED
        BY <1>1, <2>2, <2>8, <2>9, <2>10, <2>11, StoreStep
<1>9. CASE 11 \in d.asked /\ StoresFigure(m)
    <2>1. d.asked = {11} /\ Making(d)
        <3>1. 11 \notin {6}
            BY TwoBooks
        <3> QED
            BY <1>6, <1>9, <3>1 DEF Owner, Making
    <2>2. d.calling = d.told /\ d.calling \in Calling /\ CallingBefore[d.calling] = d.told /\ d.name \in Figure /\ d.row \in Nat
        BY <1>3, <1>5, <2>1, MakerOwns DEF Dialogue
    <2> DEFINE r == IF Exists(d.name) THEN (CHOOSE f \in RowsOf(d.name) : TRUE).id ELSE d.row
    <2>3. figures' = Kept(r, d.calling) /\ clerks' = [clerks EXCEPT ![m] = [Free(d) EXCEPT !.row = r]] /\ chosen' = chosen
        BY <1>5, <1>9 DEF StoresFigure
    <2>4. IsFiniteSet(figures) /\ figures \subseteq Row
        BY DEF AccountsInv, Tables, AccountsTyped, Numbered
    <2>5. Exists(d.name) => \E f \in figures : f.name = d.name /\ r = f.id
        <3>1. SUFFICES ASSUME Exists(d.name)
                       PROVE  \E f \in figures : f.name = d.name /\ r = f.id
            OBVIOUS
        <3>2. PICK f \in figures : f.name = d.name /\ RowsOf(d.name) = {f}
            BY <2>4, <3>1, OneThere
        <3>3. (CHOOSE g \in RowsOf(d.name) : TRUE) = f
            BY <3>2
        <3> QED
            BY <3>1, <3>2, <3>3
    <2>6. r \in Nat
        BY <2>2, <2>4, <2>5 DEF Row
    <2> HIDE DEF r
    <2>7. PICK id \in Nat, v \in Calling : id = r /\ v = d.calling
        BY <2>2, <2>6
    <2>8. IsKept(id, v) /\ figures' \subseteq Row /\ Numbered'
        BY <2>3, <2>7, KeptStep DEF AccountsInv
    <2> DEFINE e == [Free(d) EXCEPT !.row = id]
    <2>9. IsFree(e, d)
        BY <1>5, FreeAsks
    <2>10. clerks' = [clerks EXCEPT ![m] = e]
        BY <2>3, <2>7
    <2> HIDE DEF e
    <2>11. clerks'[m] = e /\ ~Making(e) /\ \A k \in Clerk : k # m => clerks'[k] = clerks[k]
        BY <1>3, <2>9, <2>10 DEF IsFree
    <2>12. \A k \in Clerk : Making(clerks'[k]) => clerks'[k] = clerks[k]
        BY <2>11
    <2>13. \A g \in figures' : \E f \in figures : f.account = g.account
        BY <2>8 DEF IsKept, SameRow
    <2>14. \A k \in Figure : world[k].in =>
            AccountAt(figures', world[k].row) = OfAccount(k) /\ \E g \in figures' : g.id = world[k].row /\ g.name = k
        BY <2>8, KeptPlace
    <2>15. OneMakes' /\ RowsMade'
        BY <1>1, <2>8, <2>12 DEF AccountsInv, Names, OneMakes, RowsMade, IsKept, SameRow
    <2>16. OneRow'
        BY <1>1, <2>8, KeptOneRow
    <2>17. MadeAgreed'
        <3>1. SUFFICES ASSUME doubled = {}, NEW k \in Clerk, Making(clerks'[k])
                       PROVE  /\ agreed[clerks'[k].name]
                                    = [account |-> clerks'[k].account, calling |-> clerks'[k].told]
                              /\ \A g \in figures' : g.name = clerks'[k].name => g.account = clerks'[k].account
            BY <1>1 DEF MadeAgreed
        <3>2. clerks'[k] = clerks[k]
            BY <2>12, <3>1
        <3>3. /\ agreed[clerks[k].name] = [account |-> clerks[k].account, calling |-> clerks[k].told]
              /\ \A f \in figures : f.name = clerks[k].name => f.account = clerks[k].account
            BY <3>1, <3>2 DEF AccountsInv, Names, MadeAgreed
        <3>4. \A g \in figures' : \E f \in figures : f.name = g.name /\ f.account = g.account
            BY <2>8 DEF IsKept, SameRow
        <3> QED
            BY <3>2, <3>3, <3>4
    <2>18. RowAgreed'
        <3>1. SUFFICES ASSUME doubled = {}, NEW g \in figures', \A k \in Clerk : Making(clerks'[k]) => clerks'[k].name # g.name
                       PROVE  g.account = agreed[g.name].account /\ CallingBefore[g.calling] = agreed[g.name].calling
            BY <1>1 DEF RowAgreed
        <3>2. PICK f \in figures : SameRow(f, g) /\ g.calling = (IF f.id = id THEN v ELSE f.calling)
            BY <2>8 DEF IsKept
        <3>3. /\ agreed[d.name] = [account |-> a, calling |-> d.told]
              /\ \A h \in figures : h.name = d.name => h.account = a
            BY <1>5, <2>1, <3>1 DEF AccountsInv, Names, MadeAgreed
        <3>4. PICK h \in figures : h.name = d.name /\ h.id = id
            <4>1. \E h \in figures : h.name = d.name
                BY <1>5, <1>6, <2>1, <3>1 DEF AccountsInv, Names, RowsMade
            <4>2. \A f1, f2 \in figures : f1.name = f2.name => f1 = f2
                BY <3>1 DEF AccountsInv, Names, OneRow
            <4>3. Exists(d.name)
                BY <2>4, <4>1, <4>2, OneThere
            <4> QED
                BY <2>5, <2>7, <4>3
        <3>5. CASE f.name = d.name
            <4>1. f = h
                BY <3>1, <3>4, <3>5 DEF AccountsInv, Names, OneRow
            <4> QED
                BY <2>2, <2>7, <3>2, <3>3, <3>4, <3>5, <4>1 DEF SameRow
        <3>6. CASE f.name # d.name
            <4>1. f.id # id
                BY <3>4, <3>6 DEF AccountsInv, Tables, Numbered
            <4>2. \A k \in Clerk : Making(clerks[k]) => clerks[k].name # f.name
                BY <1>5, <2>11, <3>1, <3>2, <3>6 DEF SameRow
            <4> QED
                BY <3>1, <3>2, <4>1, <4>2 DEF AccountsInv, Names, RowAgreed, SameRow
        <3> QED
            BY <3>5, <3>6
    <2>19. FiguresFollow
        BY <2>8, <2>13, <2>14, <2>15, <2>16, <2>17, <2>18 DEF FiguresFollow
    <2>20. a \notin torn \cup doubled => d.read = chosen[a]
        BY <1>5, <2>1 DEF AccountsInv, Secrets, ReadFresh, SecretKept
    <2> QED
        BY <1>1, <1>5, <1>6, <1>7, <2>3, <2>9, <2>10, <2>19, <2>20, StoreStep
<1> QED
    BY <1>2, <1>5, <1>8, <1>9

-----------------------------------------------------------------------------
(* Together.                                                               *)

\* The empty store.
LEMMA AccountsInitInv ==
    ASSUME AccountsAssumption, AccountsInit
    PROVE  AccountsInv
<1>1. PICK w \in Secret : accounts = [a \in Account |-> [rows |-> 0, password |-> w, until |-> 0]] /\ chosen = [a \in Account |-> w]
    BY DEF AccountsInit
<1>2. /\ figures = {} /\ clerks = [m \in Clerk |-> NoClerk] /\ talks = 0 /\ world = [n \in Figure |-> NoPlayer]
      /\ saving = NotSaving /\ day = 0 /\ granted = [a \in Account |-> 0] /\ agreed = [n \in Figure |-> Nothing]
      /\ shared = {} /\ torn = {} /\ doubled = {}
    BY DEF AccountsInit
<1>3. NoClerk \in Dialogue /\ ~Making(NoClerk) /\ ~NoClerk.owner
    BY DEF AccountsAssumption, NoClerk, Dialogue, Making
<1>4. NoPlayer \in Playing /\ ~NoPlayer.in
    BY DEF AccountsAssumption, NoPlayer, Playing
<1>5. NotSaving \in [of : Figure \cup {NoFigure}, until : 0 .. MaxEnd, read : Secret \cup {NoSecret}]
    BY DEF AccountsAssumption, NotSaving
<1>6. Nothing \in [account : Account \cup {FreeNumber}, calling : Calling]
    BY DEF AccountsAssumption, Nothing
<1>7. [rows |-> 0, password |-> w, until |-> 0] \in [rows : 0 .. MaxRows, password : Secret, until : 0 .. MaxEnd]
    BY DEF AccountsAssumption
<1>8. /\ \A m \in Clerk : clerks[m] = NoClerk
      /\ \A n \in Figure : world[n] = NoPlayer
      /\ \A c \in Account : accounts[c].rows = 0 /\ accounts[c].until = 0 /\ accounts[c].password = w
      /\ \A c \in Account : granted[c] = 0 /\ chosen[c] = w
    BY <1>1, <1>2
<1>9. AccountsTyped
    <2>1. accounts \in [Account -> [rows : 0 .. MaxRows, password : Secret, until : 0 .. MaxEnd]]
        BY <1>1, <1>7
    <2>2. clerks \in [Clerk -> Dialogue] /\ world \in [Figure -> Playing]
        BY <1>2, <1>3, <1>4
    <2>3. granted \in [Account -> 0 .. MaxEnd] /\ chosen \in [Account -> Secret]
        BY <1>1, <1>2 DEF AccountsAssumption
    <2>4. agreed \in [Figure -> [account : Account \cup {FreeNumber}, calling : Calling]]
        BY <1>2, <1>6
    <2>5. day \in 0 .. LastDay /\ talks \in 0 .. MaxTalks /\ figures \subseteq Row
        BY <1>2 DEF AccountsAssumption
    <2> QED
        BY <1>2, <1>5, <2>1, <2>2, <2>3, <2>4, <2>5 DEF AccountsTyped
<1>10. Numbered
    BY <1>2, FS_EmptySet DEF Numbered
<1>11. Talking /\ Rowed /\ Opened
    BY <1>2, <1>3, <1>4, <1>8 DEF Talking, Shape, Rowed, Opened
<1>12. Secrets
    BY <1>2, <1>3, <1>8 DEF Secrets, Saves, ReadFresh, SecretKept
<1>13. Names
    BY <1>2, <1>3, <1>4, <1>8 DEF Names, OneMakes, RowsMade, OneRow, MadeAgreed, RowAgreed, PlayedAgreed
<1>14. Premium
    BY <1>2, <1>3, <1>4, <1>8 DEF Premium, Known, KeptQuiet, PlayedQuiet, Ahead
<1> QED
    BY <1>9, <1>10, <1>11, <1>12, <1>13, <1>14 DEF AccountsInv, Tables

\* Every step keeps the invariant.
LEMMA AccountsStep ==
    ASSUME AccountsAssumption, AccountsInv, [AccountsNext]_accountVars
    PROVE  AccountsInv'
<1>1. CASE ClerkComes \/ ClerkGoes
    BY <1>1, ClerkStep
<1>2. CASE Says
    BY <1>2, SaysStep
<1>3. CASE OpensAccount
    BY <1>3, OpensAccountStep
<1>4. CASE InsertsFigure
    BY <1>4, InsertsFigureStep
<1>5. CASE StoresAccount
    BY <1>5, StoresAccountStep
<1>6. CASE Enters
    BY <1>6, EntersStep
<1>7. CASE Leaves
    BY <1>7, LeavesStep
<1>8. CASE Promotes
    BY <1>8, PromotesStep
<1>9. CASE AddPremium
    BY <1>9, AddPremiumStep
<1>10. CASE SavesPlayer
    BY <1>10, SavesPlayerStep
<1>11. CASE StoresPremium
    BY <1>11, StoresPremiumStep
<1>12. CASE Passes
    BY <1>12, PassesStep
<1>13. CASE UNCHANGED accountVars
    <2>1. /\ UNCHANGED <<accounts, figures, clerks, talks, world, saving, day>>
          /\ UNCHANGED <<granted, chosen, agreed, shared, torn, doubled>>
        BY <1>13 DEF accountVars, tables, records
    <2>2. Tables'
        BY <2>1 DEF AccountsInv, Tables, AccountsTyped, Numbered, Talking, Rowed, Opened
    <2>3. SavedAccount' = SavedAccount /\ \A c : (Clean(c))' = Clean(c)
        BY <2>1 DEF SavedAccount, OfAccount, Clean
    <2>4. Secrets'
        BY <2>1, <2>3 DEF AccountsInv, Secrets, Saves, ReadFresh, SecretKept
    <2>5. Names'
        BY <2>1 DEF AccountsInv, Names, OneMakes, RowsMade, OneRow, MadeAgreed, RowAgreed, PlayedAgreed
    <2>6. \A n : OfAccount(n)' = OfAccount(n)
        BY <2>1 DEF OfAccount
    <2>7. Premium'
        BY <2>1, <2>3, <2>6 DEF AccountsInv, Premium, Known, KeptQuiet, PlayedQuiet, Quiet, Ahead
    <2> QED
        BY <2>2, <2>4, <2>5, <2>7 DEF AccountsInv
<1> QED
    BY <1>1, <1>2, <1>3, <1>4, <1>5, <1>6, <1>7, <1>8, <1>9, <1>10, <1>11, <1>12, <1>13 DEF AccountsNext

\* The invariant has the types ...
LEMMA AccountsInvType ==
    ASSUME AccountsAssumption, AccountsInv
    PROVE  AccountsTypeOK
BY DEF AccountsInv, Tables, AccountsTyped, AccountsTypeOK, Dialogue, Playing, Row

\* An account that is settled is quiet.
LEMMA SettledQuiet ==
    ASSUME AccountsAssumption, NEW c \in Account, Settled(c)
    PROVE  Quiet(c)
BY DEF AccountsAssumption, Settled, Quiet, Clean, SavedAccount

\* ... and everything the runs check.
LEMMA AccountsInvKeep ==
    ASSUME AccountsAssumption, AccountsInv
    PROVE  AccountsKeep
<1>1. OneQuestion
    <2>1. SUFFICES ASSUME NEW m \in Clerk
                   PROVE  /\ clerks[m].owner => Cardinality(clerks[m].asked) = 1 /\ clerks[m].account \in Account
                          /\ clerks[m].asked \cap 8 .. 11 # {} => clerks[m].name # NoFigure
                          /\ clerks[m].asked \cap {2} # {} => clerks[m].account \in Account
        BY DEF OneQuestion
    <2>2. PICK d \in Dialogue : d = clerks[m] /\ Shape(d)
        BY DEF AccountsInv, Tables, AccountsTyped, Talking
    <2>3. CASE d = NoClerk
        BY <2>2, <2>3 DEF NoClerk
    <2>4. CASE Guest(d)
        <3>1. ~d.owner /\ d.asked \in {{3}, {1, 3}, {2, 3}} /\ (2 \in d.asked => d.account \in Account)
            BY <2>4 DEF Guest
        <3> QED
            BY <2>2, <3>1
    <2>5. CASE Owner(d)
        <3>1. PICK q \in 3 .. 11 : d.asked = {q} /\ (q \in 8 .. 11 => d.name \in Figure)
            BY <2>5 DEF Owner
        <3>2. Cardinality({q}) = 1
            BY FS_Singleton
        <3>3. d.account \in Account
            BY <2>5 DEF Owner
        <3>4. d.asked \cap 8 .. 11 # {} => d.name # NoFigure
            BY <3>1 DEF AccountsAssumption
        <3>5. d.asked \cap {2} = {}
            BY <3>1
        <3> QED
            BY <2>2, <3>1, <3>2, <3>3, <3>4, <3>5
    <2> QED
        BY <2>2, <2>3, <2>4, <2>5 DEF Shape
<1>2. MadeAsSaid
    <2>1. SUFFICES ASSUME NEW f \in figures
                   PROVE  /\ f.name \notin doubled => \A g \in figures : g.name = f.name => g = f
                          /\ (doubled = {} /\ \A m \in Clerk : clerks[m].doing = "store" => clerks[m].name # f.name)
                              => /\ f.account = agreed[f.name].account
                                 /\ CallingBefore[f.calling] = agreed[f.name].calling
        BY DEF MadeAsSaid
    <2>2. f.name \notin doubled => \A g \in figures : g.name = f.name => g = f
        BY DEF AccountsInv, Names, OneRow
    <2>3. ASSUME doubled = {}, \A m \in Clerk : clerks[m].doing = "store" => clerks[m].name # f.name
          PROVE  f.account = agreed[f.name].account /\ CallingBefore[f.calling] = agreed[f.name].calling
        <3>1. \A m \in Clerk : Making(clerks[m]) => clerks[m].name # f.name
            BY <2>3 DEF AccountsInv, Names, RowsMade, Making
        <3> QED
            BY <2>3, <3>1 DEF AccountsInv, Names, RowAgreed
    <2> QED
        BY <2>2, <2>3
<1>3. SecretKept
    BY DEF AccountsInv, Secrets
<1>4. PremiumKept
    BY SettledQuiet DEF AccountsInv, Premium, KeptQuiet, PremiumKept
<1>5. PremiumTrue
    <2>1. SUFFICES ASSUME NEW n \in Figure, world[n].in
                   PROVE  /\ world[n].ticks = 0 /\ ~world[n].raised => world[n].calling = CallingBefore[world[n].calling]
                          /\ Settled(OfAccount(n)) => world[n].ticks \in {0, granted[OfAccount(n)]}
        BY DEF PremiumTrue
    <2>2. OfAccount(n) \in Account
        BY <2>1, PlayerRow DEF AccountsInv
    <2> QED
        BY <2>1, <2>2, SettledQuiet DEF AccountsInv, Premium, PlayedQuiet
<1> QED
    BY <1>1, <1>2, <1>3, <1>4, <1>5 DEF AccountsKeep

\* The invariant holds in every reachable state.
LEMMA AccountsInductive == AccountsSpec => []AccountsInv
<1>1. AccountsInit => AccountsInv
    BY AccountsAssumption, AccountsInitInv
<1>2. AccountsInv /\ [AccountsNext]_accountVars => AccountsInv'
    BY AccountsAssumption, AccountsStep
<1> QED
    BY <1>1, <1>2, PTL DEF AccountsSpec

\* The variables keep their types, and premium time its bounds, in every server.
THEOREM AccountsTypeHolds == AccountsSpec => []AccountsTypeOK
<1>1. AccountsInv => AccountsTypeOK
    BY AccountsAssumption, AccountsInvType
<1> QED
    BY <1>1, AccountsInductive, PTL

\* Account manager and premium time (game.cpp:3533-3860): whatever conversations, saves and
\* days come between, the manager waits for the answer to one question, a character is what
\* was agreed about it and is there once, and passwords and premium time are those that were
\* announced and given, but where two of them wrote the same at once.
THEOREM AccountsKeepAlways == AccountsSpec => []AccountsKeep
<1>1. AccountsInv => AccountsKeep
    BY AccountsAssumption, AccountsInvKeep
<1> QED
    BY <1>1, AccountsInductive, PTL
=============================================================================
