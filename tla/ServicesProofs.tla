--------------------------- MODULE ServicesProofs ----------------------------
(***************************************************************************)
(* Proofs about Scripts, for any number of interfaces, things and slots,   *)
(* and about Party, for any number of players, parties and threads that    *)
(* are between the look-up and the call.                                   *)
(***************************************************************************)
EXTENDS Party, Scripts, FiniteSetTheorems, SequenceTheorems, WellFoundedInduction, TLAPS

-----------------------------------------------------------------------------
(* Scripts: the invariant.                                                 *)

\* A thing on the map with a unique id is the one that m_globalMap was told of.
OneUnique ==
    \A a \in Address : memory[a].state # "free" /\ memory[a].sort = "unique" =>
        a = global.at /\ memory[a].body = global.body

\* In an environment a thing has one name and a name is that of one thing, which stays in
\* memory; m is the memory.
NamesApart(e) == \A n, k \in e.names : n[1] = k[1] <=> n[2] = k[2]
NameFits(n, m) ==
    /\ m[n[2]].state # "free" /\ n[1].sort = m[n[2]].sort
    /\ n[1].sort = "creature" => n[1].number = m[n[2]].body
    /\ n[1].sort = "unique" => n[1] = NameOfUnique
    /\ n[1].sort = "item" => n[1].number \in 1 .. TopUid
NamesFit(e, m) == \A n \in e.names : NameFits(n, m)

\* What the script was told is so; u is the thing with the unique id.
ToldTrue(e, m, u) ==
    \A g \in e.given :
        /\ \A n \in e.names : n[1] = g[1] => m[n[2]].body = g[2]
        /\ g[1].sort = "unique" => g[2] = u
        /\ g[1].sort = "creature" => g[2] = g[1].number
        /\ g[1].sort = "item" => \E n \in e.names : n[1] = g[1]

\* The numbers in use are the last ones that were given, in the order of the counter.
Used(e) == {n[1].number : n \in {k \in e.names : k[1].sort = "item"}}
InOrder(e, last) ==
    \A k \in Used(e) :
        IF k <= last THEN k .. last \subseteq Used(e)
        ELSE 1 .. last \subseteq Used(e) /\ k .. TopUid \subseteq Used(e)

EnvRight(e, last, m, u) == NamesApart(e) /\ NamesFit(e, m) /\ ToldTrue(e, m, u) /\ InOrder(e, last)

EnvsRight ==
    \A d \in 1 .. Len(envs) :
        /\ EnvRight(envs[d], slots[d].uid, memory, global.body)
        /\ envs[d].kind # "script" => d = 1

\* The ids of timers and tasks grow, one of each for a timer; what is over is in no list.
TimersApart ==
    /\ \A i \in Interface : timing.last[i] <= timing.made
    /\ \A i \in Interface : \A t \in timing.timers[i] :
        t.id <= timing.last[i] /\ t.body \in 1 .. timing.made /\ t.body \notin timing.over
    /\ \A k \in timing.tasks : k.id <= timing.last[k.at] /\ k.body <= timing.made
    /\ \A i, j \in Interface : \A t \in timing.timers[i], u \in timing.timers[j] : t.body = u.body => i = j /\ t = u
    /\ \A k \in timing.tasks : \A t \in timing.timers[k.at] : t.id = k.id => t.body = k.body
    /\ \A i \in Interface : \A t, u \in timing.timers[i] : t.id = u.id => t = u
    /\ \A b \in timing.over : b <= timing.made

\* The timer that runs has its entry or none.
TimerRuns ==
    \A d \in 1 .. Len(envs) : envs[d].kind = "timer" =>
        /\ envs[d].task = envs[d].timer /\ envs[d].timer \notin timing.over /\ envs[d].timer <= timing.made
        /\ envs[d].id <= timing.last[envs[d].at]
        /\ \A i \in Interface : \A t \in timing.timers[i] :
            t.body = envs[d].timer <=> i = envs[d].at /\ t.id = envs[d].id

\* The numbers of combat objects and areas grow in the first slot.
ObjectsApart ==
    /\ \A o \in objects.map : o.id <= slots[1].object[o.kind]
    /\ \A o, p \in objects.map : o.kind = p.kind /\ o.id = p.id => o = p
    /\ \A i, j \in Interface : objects.known[i] \cap objects.known[j] # {} => i = j
    /\ \A k \in ObjectKind : slots[1].object[k] <= objects.made
    /\ \A o \in objects.map : o.body <= objects.made

Bounded == bodies + timing.made + objects.made <= MaxMade /\ \A a \in Address : memory[a].body <= bodies

Place == [state : {"there", "removed", "free"}, sort : Sort, body : Who]
Slot == [uid : 0 .. TopUid, object : [ObjectKind -> Who]]

ScriptsTyped ==
    /\ memory \in [Address -> Place] /\ bodies \in Who
    /\ envs \in Seq(Env) /\ Len(envs) <= Depth /\ astray \in BOOLEAN
    /\ slots \in [1 .. Depth -> Slot]
    /\ global \in [at : Address \cup {NoAddress}, body : Who]
    /\ timing \in [timers : [Interface -> SUBSET TimerEvent], last : [Interface -> Who], tasks : SUBSET Task,
                   over : SUBSET Who, made : Who]
    /\ objects \in [map : SUBSET Object, known : [Interface -> SUBSET Object], made : Who]

Things == Bounded /\ OneUnique
Timers == TimersApart /\ TimerRuns
Objects == ObjectsApart /\ ObjectsKept

ScriptsInv == ScriptsTyped /\ Things /\ EnvsRight /\ Timers /\ Objects

-----------------------------------------------------------------------------
(* Names and numbers.                                                      *)

\* A name is a uid and where the thing lies.
LEMMA NameIs ==
    ASSUME NEW e \in Env, NEW n \in e.names
    PROVE  n[1] \in Uid /\ n[2] \in Address /\ n = <<n[1], n[2]>>
BY DEF Env

\* More addresses than names: a number is free.
LEMMA NotAllUsed ==
    ASSUME ScriptsAssumption, NEW e \in Env, NamesApart(e), 1 .. TopUid \subseteq Used(e),
           NEW a \in Address, \A n \in e.names : n[2] # a
    PROVE  FALSE
<1>1. \A k \in 1 .. TopUid : \E n \in e.names : n[1].number = k /\ n[1].sort = "item"
    BY DEF Used
<1> DEFINE At(k) == CHOOSE n \in e.names : n[1].number = k /\ n[1].sort = "item"
<1>2. \A k \in 1 .. TopUid : At(k) \in e.names /\ At(k)[1].number = k /\ At(k)[1].sort = "item"
    BY <1>1
<1> DEFINE f == [k \in 1 .. TopUid |-> At(k)[2]]
<1> HIDE DEF At
<1>3. f \in [1 .. TopUid -> Address \ {a}]
    BY <1>2, NameIs
<1>4. \A j, k \in 1 .. TopUid : f[j] = f[k] => j = k
    <2>1. SUFFICES ASSUME NEW j \in 1 .. TopUid, NEW k \in 1 .. TopUid, At(j)[2] = At(k)[2]
                   PROVE  j = k
        OBVIOUS
    <2>2. At(j)[1] = At(k)[1]
        BY <1>2, <2>1 DEF NamesApart
    <2> QED
        BY <1>2, <2>2
<1>5. /\ IsFiniteSet(1 .. TopUid) /\ Cardinality(1 .. TopUid) = TopUid /\ TopUid \in Nat
      /\ IsFiniteSet(Address \ {a}) /\ Cardinality(Address \ {a}) = Cardinality(Address) - 1
      /\ Cardinality(Address) \in Nat
    <2>1. TopUid \in Nat \ {0}
        BY DEF ScriptsAssumption
    <2>2. IsFiniteSet(1 .. TopUid) /\ Cardinality(1 .. TopUid) = TopUid
        BY <2>1, FS_Interval
    <2>3. IsFiniteSet(Address) /\ Cardinality(Address) \in Nat
        BY FS_CardinalityType DEF ScriptsAssumption
    <2> QED
        BY <2>1, <2>2, <2>3, FS_RemoveElement
<1> HIDE DEF f
<1>6. f \in Injection(1 .. TopUid, Address \ {a})
    BY <1>3, <1>4 DEF Injection, IsInjective
<1>7. Cardinality(1 .. TopUid) <= Cardinality(Address \ {a})
    BY <1>5, <1>6, FS_Injection DEF ExistsInjection
<1> QED
    BY <1>5, <1>7 DEF ScriptsAssumption

\* The next number is the one after the last that was given.
LEMMA FreshNumber ==
    ASSUME ScriptsAssumption, NEW e \in Env, NEW last \in 0 .. TopUid, NamesApart(e), InOrder(e, last),
           \A n \in e.names : n[1].sort = "item" => n[1].number \in 1 .. TopUid,
           NEW a \in Address, \A n \in e.names : n[2] # a
    PROVE  /\ NextNumber(e.names, last) = NextNumberUsed(e.names, last)
           /\ NextNumber(e.names, last) \in 1 .. TopUid \ Used(e)
<1>1. PICK next : next = NextNumberUsed(e.names, last)
    OBVIOUS
<1>2. /\ next = (IF last >= TopUid THEN 1 ELSE last + 1)
      /\ next \in 1 .. TopUid /\ TopUid \in Nat \ {0}
    BY <1>1 DEF NextNumberUsed, ScriptsAssumption
<1>3. Used(e) \subseteq 1 .. TopUid
    BY DEF Used
<1>4. next \notin Used(e)
    <2>1. SUFFICES ASSUME next \in Used(e)
                   PROVE  1 .. TopUid \subseteq Used(e)
        BY NotAllUsed
    <2>2. CASE last >= TopUid
        <3>1. next = 1 /\ last = TopUid
            BY <1>2, <2>2
        <3> QED
            BY <1>2, <2>1, <3>1 DEF InOrder
    <2>3. CASE last < TopUid
        <3>1. next = last + 1
            BY <1>2, <2>3
        <3>2. 1 .. last \subseteq Used(e) /\ next .. TopUid \subseteq Used(e)
            BY <1>2, <2>1, <3>1 DEF InOrder
        <3>3. \A k \in 1 .. TopUid : k \in 1 .. last \/ k \in next .. TopUid
            BY <1>2, <3>1
        <3> QED
            BY <3>2, <3>3
    <2> QED
        BY <1>2, <2>2, <2>3
<1>5. PICK free : free = (next .. TopUid) \ Used(e)
    OBVIOUS
<1>6. NextNumber(e.names, last) = CHOOSE k \in free : \A m \in free : k <= m
    BY <1>1, <1>5 DEF NextNumber, Used
<1>7. next \in free /\ free \subseteq Int /\ \A m \in free : next <= m
    BY <1>2, <1>4, <1>5
<1>8. \A k \in free : (\A m \in free : k <= m) => k = next
    BY <1>7
<1>9. (CHOOSE k \in free : \A m \in free : k <= m) = next
    BY <1>7, <1>8
<1> QED
    BY <1>1, <1>2, <1>4, <1>6, <1>9

\* The numbers stay in order when the next one is given.
LEMMA InOrderNext ==
    ASSUME ScriptsAssumption, NEW e \in Env, NEW f, NEW last \in 0 .. TopUid, InOrder(e, last),
           Used(e) \subseteq 1 .. TopUid, NEW k, k = NextNumberUsed(e.names, last),
           Used(f) = Used(e) \cup {k}
    PROVE  k \in 1 .. TopUid /\ InOrder(f, k)
<1>1. k = (IF last >= TopUid THEN 1 ELSE last + 1) /\ k \in 1 .. TopUid /\ TopUid \in Nat \ {0}
    BY DEF NextNumberUsed, ScriptsAssumption
<1>2. SUFFICES ASSUME NEW j \in Used(f)
               PROVE  IF j <= k THEN j .. k \subseteq Used(f)
                      ELSE 1 .. k \subseteq Used(f) /\ j .. TopUid \subseteq Used(f)
    BY <1>1 DEF InOrder
<1>3. CASE j = k
    BY <1>1, <1>3
<1>4. CASE j # k /\ last >= TopUid
    <2>1. j \in Used(e) /\ k = 1 /\ last = TopUid /\ j > k
        BY <1>1, <1>4
    <2>2. j .. TopUid \subseteq Used(e)
        BY <2>1 DEF InOrder
    <2> QED
        BY <2>1, <2>2
<1>5. CASE j # k /\ last < TopUid
    <2>1. j \in Used(e) /\ k = last + 1 /\ j \in Nat
        BY <1>1, <1>5
    <2>2. CASE j <= last
        <3>1. j .. last \subseteq Used(e)
            BY <2>1, <2>2 DEF InOrder
        <3>2. \A x \in j .. k : x \in j .. last \/ x = k
            BY <2>1
        <3> QED
            BY <1>1, <2>1, <2>2, <3>1, <3>2
    <2>3. CASE j > last
        <3>1. 1 .. last \subseteq Used(e) /\ j .. TopUid \subseteq Used(e) /\ j > k
            BY <1>5, <2>1, <2>3 DEF InOrder
        <3>2. \A x \in 1 .. k : x \in 1 .. last \/ x = k
            BY <2>1
        <3> QED
            BY <3>1, <3>2
    <2> QED
        BY <2>1, <2>2, <2>3
<1> QED
    BY <1>1, <1>3, <1>4, <1>5

\* A name that is given to a thing, in the place of another thing that had it.
Put(e, uid, a, body) == [e EXCEPT !.names = {n \in @ : n[1] # uid} \cup {<<uid, a>>}, !.given = @ \cup {<<uid, body>>}]

\* What is told of an environment apart from its names.
SameFrame(f, e) == f.kind = e.kind /\ f.at = e.at /\ f.id = e.id /\ f.task = e.task /\ f.timer = e.timer

\* The name fits, the thing has no other, and a script that has the name means the thing.
CanPut(e, uid, a, body, m, u) ==
    /\ NamesApart(e) /\ NamesFit(e, m) /\ ToldTrue(e, m, u) /\ NameFits(<<uid, a>>, m) /\ m[a].body = body
    /\ \A n \in e.names : n[2] = a => n[1] = uid
    /\ \A g \in e.given : g[1] = uid => g[2] = body
    /\ (uid.sort = "unique" => body = u) /\ (uid.sort = "creature" => body = uid.number)
IsPut(f, e, uid, m, u) ==
    /\ f \in Env /\ SameFrame(f, e) /\ NamesApart(f) /\ NamesFit(f, m) /\ ToldTrue(f, m, u)
    /\ Used(f) = (IF uid.sort = "item" THEN Used(e) \cup {uid.number} ELSE Used(e))

\* A name that is given so keeps the environment as it should be.
LEMMA PutRight ==
    ASSUME NEW e \in Env, NEW uid \in Uid, NEW a \in Address, NEW body \in Who, NEW m, NEW u,
           CanPut(e, uid, a, body, m, u)
    PROVE  IsPut(Put(e, uid, a, body), e, uid, m, u)
<1>0. PICK f : f = Put(e, uid, a, body)
    OBVIOUS
<1>1. PICK p \in Uid \X Address : p = <<uid, a>> /\ p[1] = uid /\ p[2] = a
    <2>1. <<uid, a>> \in Uid \X Address /\ <<uid, a>>[1] = uid /\ <<uid, a>>[2] = a
        OBVIOUS
    <2> QED
        BY <2>1
<1>2. PICK h \in Uid \X Who : h = <<uid, body>> /\ h[1] = uid /\ h[2] = body
    <2>1. <<uid, body>> \in Uid \X Who /\ <<uid, body>>[1] = uid /\ <<uid, body>>[2] = body
        OBVIOUS
    <2> QED
        BY <2>1
<1>3. PICK names : names = {n \in e.names : n[1] # uid} \cup {p}
    OBVIOUS
<1>4. f = [e EXCEPT !.names = names, !.given = @ \cup {h}]
    BY <1>0, <1>1, <1>2, <1>3 DEF Put, Env
<1>5. e.names \subseteq Uid \X Address /\ e.given \subseteq Uid \X Who
    BY DEF Env
<1>6. names \subseteq Uid \X Address /\ \A n \in names : n = p \/ (n \in e.names /\ n[1] # uid)
    BY <1>3, <1>5
<1>7. /\ f.kind = e.kind /\ f.at = e.at /\ f.id = e.id /\ f.task = e.task /\ f.timer = e.timer
      /\ f.names = names /\ f.given = e.given \cup {h} /\ f \in Env
    <2>1. DOMAIN e = {"kind", "at", "names", "given", "id", "task", "timer"}
        BY DEF Env
    <2>2. f.names = names /\ f.given = e.given \cup {h}
        BY <1>4, <2>1
    <2>3. /\ f.kind = e.kind /\ f.at = e.at /\ f.id = e.id /\ f.task = e.task /\ f.timer = e.timer
        BY <1>4, <2>1
    <2>4. f \in Env
        <3>1. names \in SUBSET (Uid \X Address) /\ e.given \cup {h} \in SUBSET (Uid \X Who)
            BY <1>5, <1>6
        <3> HIDE DEF Who, Uid
        <3> QED
            BY <1>4, <3>1 DEF Env
    <2> QED
        BY <2>2, <2>3, <2>4
<1>8. NamesApart(f)
    BY <1>1, <1>6, <1>7 DEF NamesApart, CanPut
<1>9. NamesFit(f, m)
    BY <1>1, <1>6, <1>7 DEF NamesFit, CanPut
<1>10. ToldTrue(f, m, u)
    <2>1. SUFFICES ASSUME NEW g \in f.given
                   PROVE  /\ \A n \in f.names : n[1] = g[1] => m[n[2]].body = g[2]
                          /\ g[1].sort = "unique" => g[2] = u
                          /\ g[1].sort = "creature" => g[2] = g[1].number
                          /\ g[1].sort = "item" => \E n \in f.names : n[1] = g[1]
        BY DEF ToldTrue
    <2>2. CASE g[1] = uid
        <3>1. g[2] = body
            BY <1>2, <1>7, <2>2 DEF CanPut
        <3>2. \A n \in f.names : n[1] = uid => n = p
            BY <1>6, <1>7
        <3>3. p \in f.names
            BY <1>3, <1>7
        <3> QED
            BY <1>1, <2>2, <3>1, <3>2, <3>3 DEF CanPut
    <2>3. CASE g[1] # uid
        <3>1. g \in e.given
            BY <1>2, <1>7, <2>3
        <3>2. \A n \in f.names : n[1] = g[1] => n \in e.names
            BY <1>1, <1>6, <1>7, <2>3
        <3>3. \A n \in e.names : n[1] = g[1] => n \in f.names
            BY <1>3, <1>7, <2>3
        <3> QED
            BY <3>1, <3>2, <3>3 DEF ToldTrue, CanPut
    <2> QED
        BY <2>2, <2>3
<1>11. Used(f) = (IF uid.sort = "item" THEN Used(e) \cup {uid.number} ELSE Used(e))
    <2>1. CASE uid.sort = "item"
        <3>1. ASSUME NEW k \in Used(f) PROVE k \in Used(e) \cup {uid.number}
            BY <1>1, <1>6, <1>7 DEF Used
        <3>2. ASSUME NEW k \in Used(e) PROVE k \in Used(f)
            <4>1. PICK n \in e.names : n[1].sort = "item" /\ n[1].number = k
                BY DEF Used
            <4>2. CASE n[1] = uid
                BY <1>1, <1>3, <1>7, <4>1, <4>2 DEF Used
            <4>3. CASE n[1] # uid
                BY <1>3, <1>7, <4>1, <4>3 DEF Used
            <4> QED
                BY <4>2, <4>3
        <3>3. uid.number \in Used(f)
            BY <1>1, <1>3, <1>7, <2>1 DEF Used
        <3> QED
            BY <2>1, <3>1, <3>2, <3>3
    <2>2. CASE uid.sort # "item"
        <3>1. ASSUME NEW k \in Used(f) PROVE k \in Used(e)
            BY <1>1, <1>6, <1>7, <2>2 DEF Used
        <3>2. ASSUME NEW k \in Used(e) PROVE k \in Used(f)
            <4>1. PICK n \in e.names : n[1].sort = "item" /\ n[1].number = k
                BY DEF Used
            <4>2. n \in f.names
                BY <1>3, <1>7, <2>2, <4>1
            <4> QED
                BY <4>1, <4>2 DEF Used
        <3> QED
            BY <2>2, <3>1, <3>2
    <2> QED
        BY <2>1, <2>2
<1> QED
    BY <1>0, <1>7, <1>8, <1>9, <1>10, <1>11 DEF IsPut, SameFrame

\* What lies at a, and what an environment and its slot are after it has its name.
IsThing(thing, a, m, u) ==
    /\ thing.sort \in Sort /\ thing.body \in Who
    /\ m[a].state # "free" /\ m[a].sort = thing.sort /\ m[a].body = thing.body
    /\ thing.sort = "unique" => thing.body = u
IsNamed(f, s, e, slot, m, u) ==
    /\ f \in Env /\ SameFrame(f, e) /\ s \in Slot /\ s.object = slot.object
    /\ EnvRight(f, s.uid, m, u)

\* addThing gives a thing the name it has, or a new one.
LEMMA NamedRight ==
    ASSUME ScriptsAssumption, NEW e \in Env, NEW slot \in Slot, NEW a \in Address, NEW m, NEW u,
           NEW thing, IsThing(thing, a, m, u), EnvRight(e, slot.uid, m, u)
    PROVE  IsNamed(Named(e, slot, a, thing), Counted(e, slot, a, thing), e, slot, m, u)
<1>01. PICK f, s : f = Named(e, slot, a, thing) /\ s = Counted(e, slot, a, thing)
    OBVIOUS
<1>02. /\ thing.sort \in Sort /\ thing.body \in Who
       /\ m[a].state # "free" /\ m[a].sort = thing.sort /\ m[a].body = thing.body
       /\ thing.sort = "unique" => thing.body = u
    BY DEF IsThing
<1>03. SUFFICES IsNamed(f, s, e, slot, m, u)
    BY <1>01
<1>1. PICK uid : uid = UidOf(e, slot, a, thing)
    OBVIOUS
<1>2. f = Put(e, uid, a, thing.body)
    BY <1>01, <1>1 DEF Named, Put
<1>3. /\ NamesApart(e) /\ NamesFit(e, m) /\ ToldTrue(e, m, u) /\ InOrder(e, slot.uid)
      /\ \A n \in e.names : n[1].sort = "item" => n[1].number \in 1 .. TopUid
    BY DEF EnvRight, NamesFit, NameFits
<1>4. <<uid, a>>[1] = uid /\ <<uid, a>>[2] = a
    OBVIOUS
<1>5. PICK known : known = {n \in e.names : n[2] = a}
    OBVIOUS
<1>6. CASE known # {}
    <2>1. PICK n \in e.names : n[2] = a /\ known = {n}
        <3>1. PICK n \in e.names : n[2] = a
            BY <1>5, <1>6
        <3>2. ASSUME NEW k \in e.names, k[2] = a PROVE k = n
            <4>1. k[1] = n[1]
                BY <1>3, <3>1, <3>2 DEF NamesApart
            <4> QED
                BY <3>1, <3>2, <4>1, NameIs
        <3> QED
            BY <1>5, <3>1, <3>2
    <2>2. uid = n[1]
        <3>1. (CHOOSE k \in known : TRUE) = n
            BY <2>1
        <3> QED
            BY <1>1, <1>5, <1>6, <3>1 DEF UidOf
    <2>3. s = slot /\ s \in Slot
        BY <1>01, <2>1 DEF Counted
    <2>4. uid \in Uid /\ <<uid, a>> = n
        BY <2>1, <2>2, NameIs
    <2>5. NameFits(<<uid, a>>, m)
        BY <1>3, <2>4 DEF NamesFit
    <2>6. \A k \in e.names : k[2] = a => k[1] = uid
        BY <1>3, <2>1, <2>2 DEF NamesApart
    <2>7. \A g \in e.given : g[1] = uid => g[2] = thing.body
        BY <1>02, <1>3, <2>1, <2>2 DEF ToldTrue
    <2>8. (uid.sort = "unique" => thing.body = u) /\ (uid.sort = "creature" => thing.body = uid.number)
        BY <1>02, <1>4, <2>5 DEF NameFits
    <2>9. IsPut(f, e, uid, m, u)
        <3>1. CanPut(e, uid, a, thing.body, m, u)
            BY <1>02, <1>3, <2>5, <2>6, <2>7, <2>8 DEF CanPut
        <3> QED
            BY <1>2, <2>4, <3>1, <1>02, PutRight
    <2>10. Used(f) = Used(e)
        <3>1. uid.sort = "item" => uid.number \in Used(e)
            BY <2>2 DEF Used
        <3> QED
            BY <2>9, <3>1 DEF IsPut
    <2>11. InOrder(f, s.uid)
        BY <1>3, <2>3, <2>10 DEF InOrder
    <2> QED
        BY <2>3, <2>9, <2>11 DEF EnvRight, IsPut, IsNamed
<1>7. CASE known = {}
    <2>1. \A n \in e.names : n[2] # a
        BY <1>5, <1>7
    <2>2. uid = (CASE thing.sort = "creature" -> [sort |-> "creature", number |-> thing.body]
                   [] thing.sort = "unique" -> NameOfUnique
                   [] OTHER -> [sort |-> "item", number |-> NextNumber(e.names, slot.uid)])
        BY <1>1, <1>5, <1>7 DEF UidOf
    <2>3. slot.uid \in 0 .. TopUid
        BY DEF Slot
    <2>4. CASE thing.sort = "item"
        <3>1. PICK k : k = NextNumber(e.names, slot.uid)
            OBVIOUS
        <3>2. k = NextNumberUsed(e.names, slot.uid) /\ k \in 1 .. TopUid /\ k \notin Used(e)
            BY <1>3, <2>1, <2>3, <3>1, FreshNumber
        <3>3. uid = [sort |-> "item", number |-> k] /\ uid.sort = "item" /\ uid.number = k
            BY <2>2, <2>4, <3>1
        <3>4. uid \in Uid
            BY <3>2, <3>3 DEF Uid, Sort, ScriptsAssumption
        <3>5. \A n \in e.names : n[1] # uid
            BY <3>2, <3>3 DEF Used
        <3>6. s = [slot EXCEPT !.uid = k]
            BY <1>01, <2>1, <2>4, <3>1 DEF Counted
        <3>7. s.uid = k /\ s.object = slot.object /\ s \in Slot
            BY <3>2, <3>6 DEF Slot
        <3>8. NameFits(<<uid, a>>, m)
            BY <1>02, <1>4, <2>4, <3>2, <3>3 DEF NameFits
        <3>9. \A g \in e.given : g[1] = uid => g[2] = thing.body
            BY <1>02, <1>3, <3>3, <3>5 DEF ToldTrue
        <3>10. IsPut(f, e, uid, m, u)
            <4>1. CanPut(e, uid, a, thing.body, m, u)
                BY <1>02, <1>3, <2>1, <3>3, <3>4, <3>8, <3>9 DEF CanPut
            <4> QED
                BY <1>2, <1>3, <2>1, <3>3, <3>4, <3>8, <3>9, <4>1, <1>02, PutRight
        <3>11. Used(e) \subseteq 1 .. TopUid
            BY <1>3 DEF Used
        <3>12. InOrder(f, k)
            BY <1>3, <2>3, <3>2, <3>3, <3>10, <3>11, InOrderNext DEF IsPut
        <3> QED
            BY <3>7, <3>10, <3>12 DEF EnvRight, IsPut, IsNamed
    <2>5. CASE thing.sort = "creature" \/ thing.sort = "unique"
        <3>1. /\ uid.sort = thing.sort /\ (uid.sort = "creature" => thing.body = uid.number)
              /\ uid.sort # "item" /\ (uid.sort = "unique" => uid = NameOfUnique)
            BY <2>2, <2>5 DEF NameOfUnique
        <3>2. uid \in Uid
            <4>1. PICK top : top = (IF MaxMade > TopUid THEN MaxMade ELSE TopUid)
                OBVIOUS
            <4>2. top \in Nat /\ top >= MaxMade /\ MaxMade \in Nat
                BY <4>1 DEF ScriptsAssumption
            <4>3. thing.body \in 0 .. top /\ 0 \in 0 .. top
                BY <1>02, <4>2 DEF Who
            <4>4. Uid = [sort : Sort, number : 0 .. top]
                BY <4>1 DEF Uid
            <4>5. CASE thing.sort = "creature"
                BY <2>2, <4>3, <4>4, <4>5 DEF Sort
            <4>6. CASE thing.sort = "unique"
                BY <2>2, <4>3, <4>4, <4>6 DEF Sort, NameOfUnique
            <4> QED
                BY <2>5, <4>5, <4>6
        <3>3. s = slot /\ s \in Slot
            BY <1>01, <2>5 DEF Counted
        <3>4. NameFits(<<uid, a>>, m)
            BY <1>02, <1>4, <3>1 DEF NameFits
        <3>5. \A g \in e.given : g[1] = uid => g[2] = thing.body
            BY <1>02, <1>3, <2>5, <3>1 DEF ToldTrue
        <3>6. IsPut(f, e, uid, m, u)
            <4>1. CanPut(e, uid, a, thing.body, m, u)
                BY <1>02, <1>3, <2>1, <3>1, <3>2, <3>4, <3>5 DEF CanPut
            <4> QED
                BY <1>2, <1>3, <2>1, <3>1, <3>2, <3>4, <3>5, <4>1, <1>02, PutRight
        <3>7. InOrder(f, s.uid)
            BY <1>3, <3>1, <3>3, <3>6 DEF InOrder, IsPut
        <3> QED
            BY <3>3, <3>6, <3>7 DEF EnvRight, IsPut, IsNamed
    <2> QED
        BY <1>02, <2>4, <2>5 DEF Sort
<1> QED
    BY <1>6, <1>7

-----------------------------------------------------------------------------
(* Things come and go.                                                     *)

\* What is in memory stays what it is.
Stays(m, k) ==
    \A a \in Address : m[a].state # "free" => k[a].state # "free" /\ k[a].sort = m[a].sort /\ k[a].body = m[a].body

\* An environment is as it should be while what it names stays in memory.
LEMMA EnvStays ==
    ASSUME NEW e \in Env, NEW last, NEW m, NEW k, NEW u, EnvRight(e, last, m, u), Stays(m, k)
    PROVE  EnvRight(e, last, k, u)
<1>1. \A n \in e.names :
        /\ k[n[2]].state # "free" /\ k[n[2]].sort = m[n[2]].sort /\ k[n[2]].body = m[n[2]].body
    BY NameIs DEF EnvRight, NamesFit, NameFits, Stays
<1>2. NamesFit(e, k)
    BY <1>1 DEF EnvRight, NamesFit, NameFits
<1>3. ToldTrue(e, k, u)
    BY <1>1 DEF EnvRight, ToldTrue
<1> QED
    BY <1>2, <1>3 DEF EnvRight

\* New things lie where nothing was, and none of them has a unique id; new is who they are.
Change(k, new) ==
    /\ k \in [Address -> Place] /\ Stays(memory, k)
    /\ \A a \in Address : /\ k[a].state # "free" /\ k[a].sort = "unique" => memory[a].state # "free"
                          /\ k[a].body \in {memory[a].body, new}

\* A thing that is removed stays in memory.
LEMMA RemovalIs ==
    ASSUME ScriptsInv, NEW a \in There, NEW new
    PROVE  Change(FreeThing(a), new) /\ \A b \in Free : FreeThing(a)[b] = memory[b]
<1>1. memory \in [Address -> Place] /\ a \in Address /\ memory[a].state = "there" /\ memory[a] \in Place
    BY DEF ScriptsInv, ScriptsTyped, There
<1>2. PICK p \in Place : p = [memory[a] EXCEPT !.state = "removed"]
    BY <1>1 DEF Place
<1>3. p.state = "removed" /\ p.sort = memory[a].sort /\ p.body = memory[a].body
    BY <1>1, <1>2 DEF Place
<1>4. FreeThing(a) = [memory EXCEPT ![a] = p]
    BY <1>2 DEF FreeThing
<1>5. FreeThing(a) \in [Address -> Place] /\ \A b \in Address : FreeThing(a)[b] = (IF b = a THEN p ELSE memory[b])
    BY <1>1, <1>4
<1>6. Change(FreeThing(a), new)
    BY <1>1, <1>3, <1>5 DEF Change, Stays
<1> QED
    BY <1>1, <1>5, <1>6 DEF Free

\* A new thing takes a place that is free.
LEMMA PlacingIs ==
    ASSUME ScriptsInv, bodies + 1 \in Who, NEW k, Change(k, bodies + 1), NEW b \in Free, k[b] = memory[b],
           NEW state \in {"there", "removed"}, NEW sort \in {"item", "creature"},
           NEW p, p = [state |-> state, sort |-> sort, body |-> bodies + 1]
    PROVE  Change([k EXCEPT ![b] = p], bodies + 1)
<1>1. b \in Address /\ memory[b].state = "free" /\ k \in [Address -> Place]
    BY DEF Free, Change
<1>2. p \in Place /\ p.state # "free" /\ p.sort # "unique" /\ p.body = bodies + 1
    BY DEF Place, Sort
<1>3. \A a \in Address : [k EXCEPT ![b] = p][a] = (IF a = b THEN p ELSE k[a])
    BY <1>1
<1> QED
    BY <1>1, <1>2, <1>3 DEF Change, Stays

\* No new thing, where nothing changes.
LEMMA NoChange ==
    ASSUME ScriptsInv, NEW new
    PROVE  Change(memory, new)
BY DEF ScriptsInv, ScriptsTyped, Change, Stays

\* What such a change leaves.
LEMMA ChangeThings ==
    ASSUME ScriptsAssumption, ScriptsInv, NEW new \in {bodies, bodies + 1}, Change(memory', new), bodies' = new,
           new = bodies \/ CanMake, UNCHANGED <<timing, objects, global>>
    PROVE  bodies' \in Who /\ Things'
<1>1. /\ bodies \in Nat /\ timing.made \in Nat /\ objects.made \in Nat /\ MaxMade \in Nat
      /\ \A a \in Address : memory[a].body \in Nat /\ memory[a].body <= bodies
    BY DEF ScriptsInv, ScriptsTyped, Things, Bounded, Who, Place, ScriptsAssumption
<1>2. bodies' + timing'.made + objects'.made <= MaxMade /\ bodies' \in Nat
    BY <1>1 DEF ScriptsInv, Things, Bounded, CanMake
<1>3. \A a \in Address : memory'[a].body \in {memory[a].body, new}
    BY DEF Change
<1>4. Bounded'
    BY <1>1, <1>2, <1>3 DEF Bounded
<1>5. OneUnique'
    BY DEF ScriptsInv, Things, OneUnique, Change, Stays
<1> QED
    BY <1>1, <1>2, <1>4, <1>5 DEF Things, Who

\* The environments in use are of their type, each with a slot of its own.
LEMMA EnvsTyped ==
    ASSUME ScriptsAssumption, ScriptsInv, NEW d \in 1 .. Len(envs)
    PROVE  /\ Len(envs) \in Nat /\ envs[d] \in Env /\ d \in 1 .. Depth /\ slots[d] \in Slot
           /\ EnvRight(envs[d], slots[d].uid, memory, global.body)
<1>1. envs \in Seq(Env) /\ Len(envs) <= Depth /\ slots \in [1 .. Depth -> Slot]
    BY DEF ScriptsInv, ScriptsTyped
<1>2. Len(envs) \in Nat /\ \A k \in 1 .. Len(envs) : envs[k] \in Env
    BY <1>1, LenProperties, ElementOfSeq
<1>3. d \in 1 .. Depth
    BY <1>1, <1>2 DEF ScriptsAssumption
<1> QED
    BY <1>1, <1>2, <1>3 DEF ScriptsInv, EnvsRight

\* A step that changes memory and nothing that scripts and timers keep.
LEMMA MemoryStep ==
    ASSUME ScriptsAssumption, ScriptsInv, NEW new \in {bodies, bodies + 1}, Change(memory', new), bodies' = new,
           new = bodies \/ CanMake, UNCHANGED <<envs, slots, timing, objects, global>>, astray' \in BOOLEAN
    PROVE  ScriptsInv'
<1>1. bodies' \in Who /\ Things'
    BY ChangeThings
<1>2. ScriptsTyped'
    BY <1>1 DEF ScriptsInv, ScriptsTyped, Change
<1>3. EnvsRight'
    <2>1. SUFFICES ASSUME NEW d \in 1 .. Len(envs)
                   PROVE  /\ EnvRight(envs[d], slots[d].uid, memory', global.body)
                          /\ envs[d].kind # "script" => d = 1
        BY DEF EnvsRight
    <2> QED
        BY EnvsTyped, EnvStays DEF ScriptsInv, EnvsRight, Change
<1>4. Timers' /\ Objects'
    BY DEF ScriptsInv, Timers, TimersApart, TimerRuns, Objects, ObjectsApart, ObjectsKept
<1> QED
    BY <1>1, <1>2, <1>3, <1>4 DEF ScriptsInv

\* A step in which the script that runs is told of things.
LEMMA TopStep ==
    ASSUME ScriptsAssumption, ScriptsInv, NEW new \in {bodies, bodies + 1}, Change(memory', new), bodies' = new,
           new = bodies \/ CanMake, UNCHANGED <<timing, objects, global, astray>>, envs # <<>>,
           NEW d, d = Len(envs), NEW f \in Env, SameFrame(f, envs[d]), envs' = [envs EXCEPT ![d] = f],
           NEW s \in Slot, s.object = slots[d].object, slots' = [slots EXCEPT ![d] = s],
           EnvRight(f, s.uid, memory', global.body)
    PROVE  ScriptsInv'
<1>1. bodies' \in Who /\ Things'
    BY ChangeThings
<1>2. envs \in Seq(Env) /\ Len(envs) <= Depth /\ slots \in [1 .. Depth -> Slot]
    BY DEF ScriptsInv, ScriptsTyped
<1>3. d \in 1 .. Len(envs) /\ d \in 1 .. Depth /\ Len(envs) \in Nat
    <2>1. Len(envs) \in Nat /\ Len(envs) > 0
        BY <1>2, LenProperties, EmptySeq
    <2> QED
        BY <1>2, <2>1
<1>4. envs' \in Seq(Env) /\ Len(envs') = Len(envs) /\ \A k \in 1 .. Len(envs) : envs'[k] = IF k = d THEN f ELSE envs[k]
    BY <1>2, <1>3, ExceptSeq
<1>5. slots' \in [1 .. Depth -> Slot] /\ \A k \in 1 .. Depth : slots'[k] = (IF k = d THEN s ELSE slots[k])
    BY <1>2, <1>3
<1>6. ScriptsTyped'
    BY <1>1, <1>2, <1>4, <1>5 DEF ScriptsInv, ScriptsTyped, Change
<1>7. \A k \in 1 .. Len(envs) : SameFrame(envs'[k], envs[k])
    BY <1>4 DEF SameFrame
<1>8. EnvsRight'
    <2>1. SUFFICES ASSUME NEW k \in 1 .. Len(envs)
                   PROVE  /\ EnvRight(envs'[k], slots'[k].uid, memory', global.body)
                          /\ envs'[k].kind # "script" => k = 1
        BY <1>4 DEF EnvsRight
    <2>2. envs'[k].kind # "script" => k = 1
        BY <1>7 DEF ScriptsInv, EnvsRight, SameFrame
    <2>3. CASE k = d
        BY <1>3, <1>4, <1>5, <2>2, <2>3
    <2>4. CASE k # d
        <3>1. envs'[k] = envs[k] /\ slots'[k] = slots[k] /\ envs[k] \in Env
            BY <1>4, <1>5, <2>4, EnvsTyped
        <3> QED
            BY <2>2, <3>1, EnvsTyped, EnvStays DEF Change
    <2> QED
        BY <2>3, <2>4
<1>9. Timers'
    <2>1. TimersApart'
        BY DEF ScriptsInv, Timers, TimersApart
    <2>2. TimerRuns'
        BY <1>4, <1>7 DEF ScriptsInv, Timers, TimerRuns, SameFrame
    <2> QED
        BY <2>1, <2>2 DEF Timers
<1>10. Objects'
    <2>1. slots'[1].object = slots[1].object
        BY <1>3, <1>5
    <2> QED
        BY <2>1 DEF ScriptsInv, Objects, ObjectsApart, ObjectsKept
<1> QED
    BY <1>1, <1>6, <1>8, <1>9, <1>10 DEF ScriptsInv

\* A thing that is told of has its name and nothing else changes.
LEMMA FoundStep ==
    ASSUME ScriptsAssumption, ScriptsInv, NEW new \in {bodies, bodies + 1}, Change(memory', new), bodies' = new,
           new = bodies \/ CanMake, UNCHANGED <<timing, objects, global, astray>>, envs # <<>>,
           NEW a \in Address, NEW thing, memory'[a].state # "free", memory'[a].sort = thing.sort,
           memory'[a].body = thing.body, FoundThing(a, thing)
    PROVE  ScriptsInv'
<1>1. PICK d, e : d = Len(envs) /\ e = envs[d]
    OBVIOUS
<1>2. d \in 1 .. Len(envs)
    BY <1>1, EmptySeq DEF ScriptsInv, ScriptsTyped
<1>3. e \in Env /\ d \in 1 .. Depth /\ slots[d] \in Slot /\ EnvRight(e, slots[d].uid, memory, global.body)
    BY <1>1, <1>2, EnvsTyped
<1>4. PICK f, s : f = Named(e, slots[d], a, thing) /\ s = Counted(e, slots[d], a, thing)
    OBVIOUS
<1>5. bodies' \in Who /\ Things'
    BY ChangeThings
<1>6. memory' \in [Address -> Place]
    BY DEF Change
<1>7. thing.sort \in Sort /\ thing.body \in Who /\ (thing.sort = "unique" => thing.body = global.body)
    BY <1>5, <1>6 DEF Things, OneUnique, Place
<1>8. EnvRight(e, slots[d].uid, memory', global.body)
    BY <1>3, EnvStays DEF Change
<1>9. f \in Env /\ SameFrame(f, e) /\ s \in Slot /\ s.object = slots[d].object /\ EnvRight(f, s.uid, memory', global.body)
    <2>1. IsThing(thing, a, memory', global.body)
        BY <1>7 DEF IsThing
    <2>2. IsNamed(f, s, e, slots[d], memory', global.body)
        BY <1>3, <1>4, <1>8, <2>1, NamedRight
    <2> QED
        BY <2>2 DEF IsNamed
<1>10. envs' = [envs EXCEPT ![d] = f] /\ slots' = [slots EXCEPT ![d] = s]
    <2>1. /\ envs' = [envs EXCEPT ![d] = Named(@, slots[d], a, thing)]
          /\ slots' = [slots EXCEPT ![d] = Counted(e, @, a, thing)]
        BY <1>1 DEF FoundThing, Here
    <2> QED
        BY <1>1, <1>4, <2>1
<1> QED
    BY <1>1, <1>9, <1>10, TopStep

\* A script finds a thing that is there.
LEMMA FindsStep ==
    ASSUME ScriptsAssumption, ScriptsInv, NEW a \in There, Finds(a)
    PROVE  ScriptsInv'
<1>1. Change(memory, bodies)
    BY NoChange
<1>2. /\ UNCHANGED <<memory, bodies, global, timing, objects, astray>> /\ envs # <<>>
      /\ FoundThing(a, memory[a]) /\ a \in Address /\ memory[a].state # "free"
    BY DEF Finds, things, There
<1> QED
    BY <1>1, <1>2, FoundStep

\* A thing that comes to be is a new one.
LEMMA BornIs ==
    ASSUME ScriptsAssumption, ScriptsInv, NEW a \in Address, NEW sort \in {"item", "creature"}, Born(a, sort)
    PROVE  /\ CanMake /\ bodies' = bodies + 1 /\ Change(memory', bodies + 1)
           /\ memory'[a] = [state |-> "there", sort |-> sort, body |-> bodies + 1]
<1>1. CanMake /\ a \in Free /\ bodies' = bodies + 1
      /\ memory' = [memory EXCEPT ![a] = [state |-> "there", sort |-> sort, body |-> bodies + 1]]
    BY DEF Born
<1>2. Change(memory, bodies + 1)
    BY NoChange
<1>3. bodies + 1 \in Who
    BY <1>1 DEF CanMake, Who, ScriptsAssumption, ScriptsInv, ScriptsTyped
<1>4. memory \in [Address -> Place]
    BY DEF ScriptsInv, ScriptsTyped
<1> QED
    BY <1>1, <1>2, <1>3, <1>4, PlacingIs

\* A script adds an item.
LEMMA AddsStep ==
    ASSUME ScriptsAssumption, ScriptsInv, NEW a \in Address, Adds(a)
    PROVE  ScriptsInv'
<1>1. PICK t : t = [sort |-> "item", body |-> bodies + 1]
    OBVIOUS
<1>2. envs # <<>> /\ Born(a, "item") /\ FoundThing(a, t) /\ UNCHANGED <<global, timing, objects, astray>>
    BY <1>1 DEF Adds
<1>3. /\ CanMake /\ bodies' = bodies + 1 /\ Change(memory', bodies + 1)
      /\ memory'[a] = [state |-> "there", sort |-> "item", body |-> bodies + 1]
    BY <1>2, BornIs
<1>4. memory'[a].state # "free" /\ memory'[a].sort = t.sort /\ memory'[a].body = t.body
    BY <1>1, <1>3
<1> QED
    BY <1>2, <1>3, <1>4, FoundStep

\* A script summons a creature.
LEMMA SummonCreatureStep ==
    ASSUME ScriptsAssumption, ScriptsInv, SummonCreature
    PROVE  ScriptsInv'
<1>1. PICK t : t = [sort |-> "creature", body |-> bodies + 1]
    OBVIOUS
<1>2. PICK a \in Address :
        envs # <<>> /\ Born(a, "creature") /\ FoundThing(a, t) /\ UNCHANGED <<global, timing, objects, astray>>
    BY <1>1 DEF SummonCreature
<1>3. /\ CanMake /\ bodies' = bodies + 1 /\ Change(memory', bodies + 1)
      /\ memory'[a] = [state |-> "there", sort |-> "creature", body |-> bodies + 1]
    BY <1>2, BornIs
<1>4. memory'[a].state # "free" /\ memory'[a].sort = t.sort /\ memory'[a].body = t.body
    BY <1>1, <1>3
<1> QED
    BY <1>2, <1>3, <1>4, FoundStep

\* The functions that tell a script of a thing.
LEMMA ToldStep ==
    ASSUME ScriptsAssumption, ScriptsInv,
           \/ GetThingFromPos \/ GetPlayerSlotItem \/ GetContainerItem \/ RegisterCreature
           \/ DoPlayerAddItem \/ DoAddContainerItem
    PROVE  ScriptsInv'
BY FindsStep, AddsStep DEF GetThingFromPos, GetPlayerSlotItem, GetContainerItem, RegisterCreature,
    DoPlayerAddItem, DoAddContainerItem

\* What a script does to things it is not told of.
LEMMA CreateItemStep ==
    ASSUME ScriptsAssumption, ScriptsInv, CreateItem
    PROVE  ScriptsInv'
<1>1. PICK a \in Free, p \in {[state |-> "removed", sort |-> "item", body |-> bodies + 1]} :
        /\ CanMake /\ p = [state |-> "removed", sort |-> "item", body |-> bodies + 1]
        /\ memory' = [memory EXCEPT ![a] = p] /\ bodies' = bodies + 1
        /\ UNCHANGED <<global, envs, slots, timing, objects, astray>>
    BY DEF CreateItem
<1>2. bodies + 1 \in Who
    BY <1>1 DEF CanMake, Who, ScriptsAssumption, ScriptsInv, ScriptsTyped
<1>3. Change(memory', bodies + 1)
    BY <1>1, <1>2, NoChange, PlacingIs
<1> QED
    BY <1>1, <1>3, MemoryStep DEF ScriptsInv, ScriptsTyped

\* What removes a thing leaves names that find nothing.
LEMMA RemovesStep ==
    ASSUME ScriptsAssumption, ScriptsInv, DoRemoveItem \/ DoPlayerRemoveItem \/ Vanish
    PROVE  ScriptsInv'
<1>1. /\ memory' = memory \/ \E a \in There : memory' = FreeThing(a)
      /\ UNCHANGED <<bodies, global, envs, slots, timing, objects>> /\ astray' \in {astray, TRUE}
    <2>1. CASE Vanish \/ DoPlayerRemoveItem
        BY <2>1 DEF Vanish, DoPlayerRemoveItem
    <2>2. CASE DoRemoveItem
        <3>1. PICK g : Removes(g)
            BY <2>2 DEF DoRemoveItem
        <3>2. ThingByUid(Here, g[1]) \subseteq There
            BY DEF ThingByUid, There
        <3> QED
            BY <3>1, <3>2 DEF Removes
    <2> QED
        BY <2>1, <2>2
<1>2. Change(memory', bodies)
    BY <1>1, NoChange, RemovalIs
<1> QED
    BY <1>1, <1>2, MemoryStep DEF ScriptsInv, ScriptsTyped

\* What replaces an item leaves names that find nothing.
LEMMA ReplacesStep ==
    ASSUME ScriptsAssumption, ScriptsInv, DoAreaCombat \/ TransformItem
    PROVE  ScriptsInv'
<1>1. PICK a \in There, b \in Free, p \in {[state |-> "there", sort |-> "item", body |-> bodies + 1]} :
        /\ CanMake /\ p = [state |-> "there", sort |-> "item", body |-> bodies + 1]
        /\ memory' = [FreeThing(a) EXCEPT ![b] = p] /\ bodies' = bodies + 1
        /\ UNCHANGED <<global, envs, slots, timing, objects, astray>>
    <2>1. CASE DoAreaCombat
        BY <2>1 DEF DoAreaCombat
    <2>2. CASE TransformItem
        <3>1. \A uid : ThingByUid(Here, uid) \subseteq There
            BY DEF ThingByUid, There
        <3> QED
            BY <2>2, <3>1 DEF TransformItem
    <2> QED
        BY <2>1, <2>2
<1>2. bodies + 1 \in Who
    BY <1>1 DEF CanMake, Who, ScriptsAssumption, ScriptsInv, ScriptsTyped
<1>3. Change(memory', bodies + 1)
    BY <1>1, <1>2, RemovalIs, PlacingIs
<1> QED
    BY <1>1, <1>3, MemoryStep DEF ScriptsInv, ScriptsTyped

\* Outside scripts.
LEMMA NoScript ==
    ASSUME ScriptsInv, envs = <<>>
    PROVE  Len(envs) = 0 /\ 1 .. Len(envs) = {}
BY EmptySeq

\* What appears has a number of its own; of unique items there is one.
LEMMA AppearStep ==
    ASSUME ScriptsAssumption, ScriptsInv, Appear
    PROVE  ScriptsInv'
<1>1. PICK a \in Free, sort \in Sort, p \in Place :
        /\ p = [state |-> "there", sort |-> sort, body |-> bodies + 1]
        /\ envs = <<>> /\ CanMake /\ bodies' = bodies + 1 /\ memory' = [memory EXCEPT ![a] = p]
        /\ sort = "unique" => global.at = NoAddress
        /\ global' = IF sort = "unique" THEN [at |-> a, body |-> bodies + 1] ELSE global
        /\ UNCHANGED <<envs, slots, timing, objects, astray>>
    <2>1. PICK a \in Address, sort \in Sort :
            /\ envs = <<>> /\ Born(a, sort)
            /\ sort = "unique" => global.at = NoAddress
            /\ global' = IF sort = "unique" THEN [at |-> a, body |-> bodies + 1] ELSE global
            /\ UNCHANGED <<envs, slots, timing, objects, astray>>
        BY DEF Appear
    <2>2. [state |-> "there", sort |-> sort, body |-> bodies + 1] \in Place
        BY <2>1 DEF Born, CanMake, Place, Who, ScriptsAssumption, ScriptsInv, ScriptsTyped
    <2> QED
        BY <2>1, <2>2 DEF Born
<1>2. /\ memory \in [Address -> Place] /\ a \in Address /\ memory[a].state = "free"
      /\ bodies \in Nat /\ timing.made \in Nat /\ objects.made \in Nat /\ MaxMade \in Nat
      /\ \A b \in Address : memory[b].body \in Nat /\ memory[b].body <= bodies
    BY DEF Free, ScriptsInv, ScriptsTyped, Things, Bounded, Who, Place, ScriptsAssumption
<1>3. p.state = "there" /\ p.sort = sort /\ p.body = bodies + 1
    BY <1>1
<1>4. memory' \in [Address -> Place] /\ \A b \in Address : memory'[b] = (IF b = a THEN p ELSE memory[b])
    BY <1>1, <1>2
<1>5. bodies' + timing'.made + objects'.made <= MaxMade /\ bodies' \in Who
    BY <1>1, <1>2 DEF CanMake, Who
<1>6. Bounded'
    BY <1>1, <1>2, <1>3, <1>4, <1>5 DEF Bounded
<1>7. global' \in [at : Address \cup {NoAddress}, body : Who]
    BY <1>1, <1>2, <1>5 DEF ScriptsInv, ScriptsTyped
<1>8. OneUnique'
    <2>1. CASE sort = "unique"
        <3>1. global'.at = a /\ global'.body = bodies + 1 /\ global.at = NoAddress
            BY <1>1, <2>1
        <3> QED
            BY <1>3, <1>4, <3>1 DEF ScriptsInv, Things, OneUnique, ScriptsAssumption
    <2>2. CASE sort # "unique"
        BY <1>1, <1>3, <1>4, <2>2 DEF ScriptsInv, Things, OneUnique
    <2> QED
        BY <2>1, <2>2
<1>9. ScriptsTyped'
    BY <1>1, <1>4, <1>5, <1>7 DEF ScriptsInv, ScriptsTyped
<1>10. EnvsRight'
    BY <1>1, NoScript DEF EnvsRight
<1>11. Timers' /\ Objects'
    BY <1>1 DEF ScriptsInv, Timers, TimersApart, TimerRuns, Objects, ObjectsApart, ObjectsKept
<1> QED
    BY <1>6, <1>8, <1>9, <1>10, <1>11 DEF ScriptsInv, Things

\* What was removed is freed when no script runs, so that no name is left to it.
LEMMA FlushSendBuffersStep ==
    ASSUME ScriptsAssumption, ScriptsInv, FlushSendBuffers
    PROVE  ScriptsInv'
<1>1. /\ envs = <<>> /\ UNCHANGED <<bodies, global, envs, slots, timing, objects, astray>>
      /\ memory' = [a \in Address |-> IF memory[a].state = "removed"
                                      THEN [memory[a] EXCEPT !.state = "free"] ELSE memory[a]]
    BY DEF FlushSendBuffers
<1>2. memory \in [Address -> Place]
    BY DEF ScriptsInv, ScriptsTyped
<1>3. \A a \in Address :
        /\ memory'[a] \in Place /\ memory'[a].sort = memory[a].sort /\ memory'[a].body = memory[a].body
        /\ memory'[a].state # "free" => memory[a].state # "free"
    BY <1>1, <1>2 DEF Place
<1>4. memory' \in [Address -> Place]
    BY <1>1, <1>3
<1>5. ScriptsTyped'
    BY <1>1, <1>4 DEF ScriptsInv, ScriptsTyped
<1>6. Things'
    BY <1>1, <1>3 DEF ScriptsInv, Things, Bounded, OneUnique
<1>7. EnvsRight'
    BY <1>1, NoScript DEF EnvsRight
<1>8. Timers' /\ Objects'
    BY <1>1 DEF ScriptsInv, Timers, TimersApart, TimerRuns, Objects, ObjectsApart, ObjectsKept
<1> QED
    BY <1>5, <1>6, <1>7, <1>8 DEF ScriptsInv

-----------------------------------------------------------------------------
(* Environments come and go.                                               *)

\* What a timer that runs is to the books of timers.
RunsIts(e, w) ==
    e.kind = "timer" =>
        /\ e.task = e.timer /\ e.timer \notin w.over /\ e.timer <= w.made
        /\ e.id <= w.last[e.at]
        /\ \A i \in Interface : \A t \in w.timers[i] :
            t.body = e.timer <=> i = e.at /\ t.id = e.id

Timing ==
    [timers : [Interface -> SUBSET TimerEvent], last : [Interface -> Who], tasks : SUBSET Task,
     over : SUBSET Who, made : Who]

\* A new environment names nothing.
LEMMA ResetIs ==
    ASSUME ScriptsAssumption, NEW kind \in {"loading", "script", "timer"}, NEW i \in Interface, NEW last, NEW m, NEW u
    PROVE  ResetEnv(kind, i) \in Env /\ ResetEnv(kind, i).kind = kind /\ EnvRight(ResetEnv(kind, i), last, m, u)
<1>1. PICK e : e = ResetEnv(kind, i)
    OBVIOUS
<1>2. e.kind = kind /\ e.names = {} /\ e.given = {} /\ 0 \in Who
    BY <1>1 DEF ResetEnv, Who, ScriptsAssumption
<1>3. e \in Env
    <2>1. {} \in SUBSET (Uid \X Address) /\ {} \in SUBSET (Uid \X Who)
        OBVIOUS
    <2> HIDE DEF Uid, Who
    <2> QED
        BY <1>1, <1>2, <2>1 DEF ResetEnv, Env
<1>4. EnvRight(e, last, m, u)
    BY <1>2 DEF EnvRight, NamesApart, NamesFit, ToldTrue, InOrder, Used
<1> QED
    BY <1>1, <1>2, <1>3, <1>4

\* Fewer tasks, and an environment more.
LEMMA PushStep ==
    ASSUME ScriptsAssumption, ScriptsInv, UNCHANGED <<memory, bodies, global, objects, astray>>,
           NEW d, d = Len(envs) + 1, d <= Depth, NEW f \in Env, envs' = Append(envs, f),
           NEW s \in Slot, s.object = slots[d].object, slots' = [slots EXCEPT ![d] = s],
           EnvRight(f, s.uid, memory, global.body), f.kind # "script" => envs = <<>>,
           NEW tasks \in SUBSET timing.tasks, timing' = [timing EXCEPT !.tasks = tasks], RunsIts(f, timing)
    PROVE  ScriptsInv'
<1>1. envs \in Seq(Env) /\ slots \in [1 .. Depth -> Slot] /\ timing \in Timing
    BY DEF ScriptsInv, ScriptsTyped, Timing
<1>2. Len(envs) \in Nat /\ Depth \in Nat /\ d \in 1 .. Depth
    BY <1>1, LenProperties DEF ScriptsAssumption
<1>3. envs' \in Seq(Env) /\ Len(envs') = d /\ envs'[d] = f /\ \A k \in 1 .. Len(envs) : envs'[k] = envs[k]
    BY <1>1, <1>2, AppendProperties
<1>4. slots' \in [1 .. Depth -> Slot] /\ \A k \in 1 .. Depth : slots'[k] = (IF k = d THEN s ELSE slots[k])
    BY <1>1, <1>2
<1>5. /\ timing' \in Timing /\ timing'.timers = timing.timers /\ timing'.last = timing.last
      /\ timing'.over = timing.over /\ timing'.made = timing.made /\ timing'.tasks \subseteq timing.tasks
    BY <1>1 DEF Timing
<1>6. ScriptsTyped'
    BY <1>3, <1>4, <1>5 DEF ScriptsInv, ScriptsTyped, Timing
<1>7. Things'
    BY <1>5 DEF ScriptsInv, Things, Bounded, OneUnique
<1>8. \A k \in 1 .. Len(envs') : k = d \/ k \in 1 .. Len(envs)
    BY <1>2, <1>3
<1>9. EnvsRight'
    <2>1. SUFFICES ASSUME NEW k \in 1 .. Len(envs')
                   PROVE  /\ EnvRight(envs'[k], slots'[k].uid, memory, global.body)
                          /\ envs'[k].kind # "script" => k = 1
        BY DEF EnvsRight
    <2>2. CASE k = d
        <3>1. envs = <<>> => d = 1
            BY EmptySeq
        <3> QED
            BY <1>2, <1>3, <1>4, <2>2, <3>1
    <2>3. CASE k \in 1 .. Len(envs)
        <3>1. envs'[k] = envs[k] /\ slots'[k] = slots[k]
            BY <1>2, <1>3, <1>4, <2>3
        <3> QED
            BY <2>3, <3>1 DEF ScriptsInv, EnvsRight
    <2> QED
        BY <1>8, <2>2, <2>3
<1>10. TimersApart'
    BY <1>5 DEF ScriptsInv, Timers, TimersApart
<1>11. TimerRuns'
    <2>1. SUFFICES ASSUME NEW k \in 1 .. Len(envs')
                   PROVE  RunsIts(envs'[k], timing')
        BY DEF TimerRuns, RunsIts
    <2>2. \A e : RunsIts(e, timing') <=> RunsIts(e, timing)
        BY <1>5 DEF RunsIts
    <2>3. CASE k \in 1 .. Len(envs)
        BY <1>3, <2>2, <2>3 DEF ScriptsInv, Timers, TimerRuns, RunsIts
    <2> QED
        BY <1>3, <1>8, <2>2, <2>3
<1>12. Objects'
    <2>1. 1 \in 1 .. Depth /\ slots'[1].object = slots[1].object
        BY <1>2, <1>4
    <2> QED
        BY <2>1 DEF ScriptsInv, Objects, ObjectsApart, ObjectsKept
<1> QED
    BY <1>6, <1>7, <1>9, <1>10, <1>11, <1>12 DEF ScriptsInv, Timers

\* What reserveScriptEnv and the names of the caller come to.
LEMMA ReservedIs ==
    ASSUME ScriptsAssumption, ScriptsInv, NEW e \in Env, \A last : EnvRight(e, last, memory, global.body),
           NEW args \in SUBSET There, Reserved(e, args), NEW d, d = Len(envs) + 1
    PROVE  /\ d <= Depth
           /\ \E f \in Env, s \in Slot :
                /\ envs' = Append(envs, f) /\ SameFrame(f, e) /\ EnvRight(f, s.uid, memory, global.body)
                /\ slots' = [slots EXCEPT ![d] = s] /\ s.object = slots[d].object
<1>1. d \in 1 .. Depth /\ slots \in [1 .. Depth -> Slot]
    <2>1. envs \in Seq(Env) /\ slots \in [1 .. Depth -> Slot] /\ d <= Depth
        BY DEF ScriptsInv, ScriptsTyped, Reserved
    <2>2. Len(envs) \in Nat /\ Depth \in Nat
        BY <2>1, LenProperties DEF ScriptsAssumption
    <2>3. d \in 1 .. Depth
        BY <2>1, <2>2
    <2> QED
        BY <2>1, <2>3
<1>2. CASE args = {}
    <2>1. envs' = Append(envs, e) /\ slots' = slots
        BY <1>2 DEF Reserved
    <2>2. PICK s \in Slot : s = slots[d]
        BY <1>1
    <2>3. slots' = [slots EXCEPT ![d] = s] /\ s.object = slots[d].object
        BY <1>1, <2>1, <2>2
    <2>4. SameFrame(e, e)
        BY DEF SameFrame
    <2>5. EnvRight(e, s.uid, memory, global.body)
        OBVIOUS
    <2> QED
        BY <1>1, <2>1, <2>2, <2>3, <2>4, <2>5
<1>3. CASE args # {}
    <2>1. PICK a \in args :
            /\ envs' = Append(envs, Named(e, slots[d], a, memory[a]))
            /\ slots' = [slots EXCEPT ![d] = Counted(e, @, a, memory[a])]
        BY <1>3 DEF Reserved
    <2>2. PICK f, s : f = Named(e, slots[d], a, memory[a]) /\ s = Counted(e, slots[d], a, memory[a])
        OBVIOUS
    <2>3. a \in Address /\ IsThing(memory[a], a, memory, global.body)
        BY DEF There, IsThing, ScriptsInv, ScriptsTyped, Things, OneUnique, Place
    <2>4. slots[d] \in Slot /\ EnvRight(e, slots[d].uid, memory, global.body)
        BY <1>1
    <2>5. IsNamed(f, s, e, slots[d], memory, global.body)
        BY <2>2, <2>3, <2>4, NamedRight
    <2>6. envs' = Append(envs, f) /\ slots' = [slots EXCEPT ![d] = s]
        BY <2>1, <2>2
    <2>7. f \in Env /\ SameFrame(f, e) /\ s \in Slot /\ s.object = slots[d].object
          /\ EnvRight(f, s.uid, memory, global.body)
        BY <2>5 DEF IsNamed
    <2>8. d <= Depth
        BY DEF Reserved
    <2> QED
        BY <2>6, <2>7, <2>8, Zenon
<1> QED
    BY <1>2, <1>3

\* A script that starts names what it is about.
LEMMA CallScriptStep ==
    ASSUME ScriptsAssumption, ScriptsInv, CallScript
    PROVE  ScriptsInv'
<1>1. PICK i \in Interface, args \in SUBSET There :
        Reserved(ResetEnv("script", i), args) /\ UNCHANGED <<things, timing, objects, astray>>
    <2>1. PICK i \in Interface : (ActionScript(i) \/ NpcThinks(i)) /\ UNCHANGED <<things, timing, objects, astray>>
        BY DEF CallScript
    <2>2. CASE ActionScript(i)
        <3>1. PICK a \in There : Reserved(ResetEnv("script", i), {a})
            BY <2>2 DEF ActionScript
        <3>2. {a} \in SUBSET There
            OBVIOUS
        <3> QED
            BY <2>1, <3>1, <3>2
    <2>3. CASE NpcThinks(i)
        <3>1. Reserved(ResetEnv("script", i), {}) /\ {} \in SUBSET There
            BY <2>3 DEF NpcThinks
        <3> QED
            BY <2>1, <3>1
    <2> QED
        BY <2>1, <2>2, <2>3
<1>2. PICK e, d : e = ResetEnv("script", i) /\ d = Len(envs) + 1
    OBVIOUS
<1>3. e \in Env /\ e.kind = "script" /\ \A last : EnvRight(e, last, memory, global.body)
    BY <1>2, ResetIs
<1>4. /\ d <= Depth
      /\ \E f \in Env, s \in Slot :
            /\ envs' = Append(envs, f) /\ SameFrame(f, e) /\ EnvRight(f, s.uid, memory, global.body)
            /\ slots' = [slots EXCEPT ![d] = s] /\ s.object = slots[d].object
    BY <1>1, <1>2, <1>3, ReservedIs
<1>5. PICK f \in Env, s \in Slot :
        /\ envs' = Append(envs, f) /\ SameFrame(f, e) /\ EnvRight(f, s.uid, memory, global.body)
        /\ slots' = [slots EXCEPT ![d] = s] /\ s.object = slots[d].object
    BY <1>4
<1>6. f.kind = "script" /\ RunsIts(f, timing)
    BY <1>3, <1>5 DEF SameFrame, RunsIts
<1>7. PICK tasks \in SUBSET timing.tasks : timing' = [timing EXCEPT !.tasks = tasks]
    BY <1>1 DEF ScriptsInv, ScriptsTyped
<1> QED
    BY <1>1, <1>2, <1>4, <1>5, <1>6, <1>7, PushStep DEF things

\* A file is loaded when no script runs, in the first slot.
LEMMA LoadFileStep ==
    ASSUME ScriptsAssumption, ScriptsInv, LoadFile
    PROVE  ScriptsInv'
<1>1. PICK i \in Interface :
        envs = <<>> /\ Reserved(ResetEnv("loading", i), {}) /\ UNCHANGED <<things, timing, objects, astray>>
    BY DEF LoadFile
<1>2. PICK e, d : e = ResetEnv("loading", i) /\ d = Len(envs) + 1
    OBVIOUS
<1>3. e \in Env /\ e.kind = "loading" /\ \A last : EnvRight(e, last, memory, global.body)
    BY <1>2, ResetIs
<1>4. /\ d <= Depth
      /\ \E f \in Env, s \in Slot :
            /\ envs' = Append(envs, f) /\ SameFrame(f, e) /\ EnvRight(f, s.uid, memory, global.body)
            /\ slots' = [slots EXCEPT ![d] = s] /\ s.object = slots[d].object
    <2>1. PICK none \in SUBSET There : none = {}
        OBVIOUS
    <2>2. Reserved(e, {})
        BY <1>1, <1>2, Zenon
    <2>3. Reserved(e, none)
        BY <2>1, <2>2, Zenon
    <2> QED
        BY <1>2, <1>3, <2>3, ReservedIs
<1>5. PICK f \in Env, s \in Slot :
        /\ envs' = Append(envs, f) /\ SameFrame(f, e) /\ EnvRight(f, s.uid, memory, global.body)
        /\ slots' = [slots EXCEPT ![d] = s] /\ s.object = slots[d].object
    BY <1>4
<1>6. f.kind = "loading" /\ RunsIts(f, timing)
    BY <1>3, <1>5 DEF SameFrame, RunsIts
<1>7. PICK tasks \in SUBSET timing.tasks : timing' = [timing EXCEPT !.tasks = tasks]
    BY <1>1 DEF ScriptsInv, ScriptsTyped
<1> QED
    BY <1>1, <1>2, <1>4, <1>5, <1>6, <1>7, PushStep DEF things

\* The task of a timer that was stopped finds nothing.
LEMMA ExecuteTimerEventStep ==
    ASSUME ScriptsAssumption, ScriptsInv, ExecuteTimerEvent
    PROVE  ScriptsInv'
<1>1. PICK k \in timing.tasks :
        /\ envs = <<>> /\ timing' = [timing EXCEPT !.tasks = @ \ {k}]
        /\ LET found == {e \in timing.timers[k.at] : e.id = k.id} IN
           IF found = {} THEN UNCHANGED <<envs, slots>>
           ELSE \E e \in found :
                Reserved([ResetEnv("timer", k.at) EXCEPT !.id = k.id, !.task = k.body, !.timer = e.body], {})
        /\ UNCHANGED <<things, objects, astray>>
    BY DEF ExecuteTimerEvent
<1>2. timing \in Timing /\ k \in Task
    BY DEF ScriptsInv, ScriptsTyped, Timing
<1>3. PICK tasks \in SUBSET timing.tasks : tasks = timing.tasks \ {k}
    OBVIOUS
<1>4. timing' = [timing EXCEPT !.tasks = tasks]
    BY <1>1, <1>2, <1>3 DEF Timing
<1>5. CASE {e \in timing.timers[k.at] : e.id = k.id} = {}
    <2>1. UNCHANGED <<envs, slots, memory, bodies, global, objects, astray>>
        BY <1>1, <1>5 DEF things
    <2>2. /\ timing' \in Timing /\ timing'.timers = timing.timers /\ timing'.last = timing.last
          /\ timing'.over = timing.over /\ timing'.made = timing.made /\ timing'.tasks \subseteq timing.tasks
        BY <1>2, <1>4 DEF Timing
    <2>3. Timers'
        <3>1. TimersApart'
            BY <2>2 DEF ScriptsInv, Timers, TimersApart
        <3>2. TimerRuns'
            BY <1>1, <2>1, NoScript DEF TimerRuns
        <3> QED
            BY <3>1, <3>2 DEF Timers
    <2>4. ScriptsTyped' /\ Things' /\ EnvsRight' /\ Objects'
        BY <2>1, <2>2 DEF ScriptsInv, ScriptsTyped, Timing, Things, Bounded, OneUnique, EnvsRight, Objects,
                          ObjectsApart, ObjectsKept
    <2> QED
        BY <2>3, <2>4 DEF ScriptsInv
<1>6. CASE {e \in timing.timers[k.at] : e.id = k.id} # {}
    <2>1. PICK t \in timing.timers[k.at] :
            /\ t.id = k.id
            /\ Reserved([ResetEnv("timer", k.at) EXCEPT !.id = k.id, !.task = k.body, !.timer = t.body], {})
        BY <1>1, <1>6
    <2>2. PICK e, d : e = [ResetEnv("timer", k.at) EXCEPT !.id = k.id, !.task = k.body, !.timer = t.body]
                      /\ d = Len(envs) + 1
        OBVIOUS
    <2>3. k.at \in Interface /\ k.id \in Who /\ k.body \in Who /\ t \in TimerEvent /\ t.body \in Who
        BY <1>2 DEF Task, Timing, TimerEvent
    <2>4. /\ e.kind = "timer" /\ e.at = k.at /\ e.names = {} /\ e.given = {}
          /\ e.id = k.id /\ e.task = k.body /\ e.timer = t.body
        BY <2>2 DEF ResetEnv
    <2>5. e = [kind |-> "timer", at |-> k.at, names |-> {}, given |-> {}, id |-> k.id, task |-> k.body, timer |-> t.body]
        BY <2>2 DEF ResetEnv
    <2>6. e \in Env
        <3>1. {} \in SUBSET (Uid \X Address) /\ {} \in SUBSET (Uid \X Who)
            OBVIOUS
        <3> HIDE DEF Uid, Who
        <3> QED
            BY <2>3, <2>5, <3>1 DEF Env
    <2>7. \A last : EnvRight(e, last, memory, global.body)
        BY <2>4 DEF EnvRight, NamesApart, NamesFit, ToldTrue, InOrder, Used
    <2>8. /\ d <= Depth
          /\ \E f \in Env, s \in Slot :
                /\ envs' = Append(envs, f) /\ SameFrame(f, e) /\ EnvRight(f, s.uid, memory, global.body)
                /\ slots' = [slots EXCEPT ![d] = s] /\ s.object = slots[d].object
        <3>1. PICK none \in SUBSET There : none = {}
            OBVIOUS
        <3>2. Reserved(e, none)
            BY <2>1, <2>2, <3>1
        <3> QED
            BY <2>2, <2>6, <2>7, <3>2, ReservedIs
    <2>9. PICK f \in Env, s \in Slot :
            /\ envs' = Append(envs, f) /\ SameFrame(f, e) /\ EnvRight(f, s.uid, memory, global.body)
            /\ slots' = [slots EXCEPT ![d] = s] /\ s.object = slots[d].object
        BY <2>8
    <2>10. RunsIts(f, timing)
        <3>1. f.task = k.body /\ f.timer = t.body /\ f.id = k.id /\ f.at = k.at
            BY <2>4, <2>9 DEF SameFrame
        <3>2. TimersApart
            BY DEF ScriptsInv, Timers
        <3>3. t.body = k.body /\ t.body \notin timing.over /\ t.body <= timing.made /\ k.id <= timing.last[k.at]
            BY <2>1, <2>3, <3>2 DEF TimersApart
        <3>4. ASSUME NEW i \in Interface, NEW r \in timing.timers[i]
              PROVE  r.body = t.body <=> i = k.at /\ r.id = k.id
            BY <2>1, <2>3, <3>2 DEF TimersApart
        <3> QED
            BY <3>1, <3>3, <3>4 DEF RunsIts
    <2>11. UNCHANGED <<memory, bodies, global, objects, astray>>
        BY <1>1 DEF things
    <2> QED
        BY <1>1, <1>4, <2>2, <2>8, <2>9, <2>10, <2>11, PushStep
<1> QED
    BY <1>5, <1>6

\* A step after which there are fewer entries of timers and more of them are over, and no
\* environment but some of those there were.
Ended(lists, over) ==
    /\ lists \in [Interface -> SUBSET TimerEvent] /\ over \in SUBSET Who
    /\ \A i \in Interface : lists[i] \subseteq timing.timers[i]
    /\ \A b \in over : b <= timing.made
    /\ \A i \in Interface : \A t \in lists[i] : t.body \notin over

\* The timers that are left are told apart as before.
LEMMA EndedStep ==
    ASSUME ScriptsAssumption, ScriptsInv, NEW lists, NEW over, Ended(lists, over),
           timing' = [timing EXCEPT !.timers = lists, !.over = over]
    PROVE  timing' \in Timing /\ TimersApart'
<1>1. timing \in Timing
    BY DEF ScriptsInv, ScriptsTyped, Timing
<1>2. lists \in [Interface -> SUBSET TimerEvent] /\ over \in SUBSET Who
    BY DEF Ended
<1>3. /\ timing'.timers = lists /\ timing'.over = over /\ timing'.last = timing.last
      /\ timing'.made = timing.made /\ timing'.tasks = timing.tasks
    BY <1>1 DEF Timing
<1>4. timing' \in Timing
    <2> HIDE DEF Who
    <2> QED
        BY <1>1, <1>2 DEF Timing
<1>5. TimersApart
    BY DEF ScriptsInv, Timers
<1>6. ASSUME NEW i \in Interface, NEW t \in lists[i]
      PROVE  t \in timing.timers[i] /\ t.body \notin over
    BY DEF Ended
<1>7. \A b \in over : b <= timing.made
    BY DEF Ended
<1>8. \A k \in timing.tasks : k.at \in Interface
    BY <1>1 DEF Timing, Task
<1> QED
    BY <1>3, <1>4, <1>5, <1>6, <1>7, <1>8 DEF TimersApart

\* Fewer environments and nothing else but timers.
LEMMA PopStep ==
    ASSUME ScriptsAssumption, ScriptsInv, UNCHANGED <<memory, bodies, global, slots, objects>>, astray' \in BOOLEAN,
           envs' \in Seq(Env), Len(envs') <= Len(envs), \A k \in 1 .. Len(envs') : envs'[k] = envs[k],
           timing' \in Timing, timing'.made = timing.made, TimersApart', TimerRuns'
    PROVE  ScriptsInv'
<1>1. envs \in Seq(Env) /\ Len(envs) <= Depth
    BY DEF ScriptsInv, ScriptsTyped
<1>2. Len(envs) \in Nat /\ Len(envs') \in Nat /\ Depth \in Nat
    BY <1>1, LenProperties DEF ScriptsAssumption
<1>3. \A k \in 1 .. Len(envs') : k \in 1 .. Len(envs)
    BY <1>2
<1>4. ScriptsTyped'
    BY <1>1, <1>2 DEF ScriptsInv, ScriptsTyped, Timing
<1>5. Things' /\ Objects'
    BY DEF ScriptsInv, Things, Bounded, OneUnique, Objects, ObjectsApart, ObjectsKept
<1>6. EnvsRight'
    BY <1>3 DEF ScriptsInv, EnvsRight
<1> QED
    BY <1>4, <1>5, <1>6 DEF ScriptsInv, Timers

\* The timer that ran is over and its entry is gone.
LEMMA ReturnStep ==
    ASSUME ScriptsAssumption, ScriptsInv, Return
    PROVE  ScriptsInv'
<1>1. PICK d, e : d = Len(envs) /\ e = envs[d]
    OBVIOUS
<1>2. envs # <<>> /\ envs' = SubSeq(envs, 1, d - 1) /\ UNCHANGED <<memory, bodies, global, slots, objects>>
    BY <1>1 DEF Return, things
<1>3. PICK mine : mine = {t \in timing.timers[e.at] : t.id = e.id}
    OBVIOUS
<1>4. IF e.kind # "timer" THEN UNCHANGED <<timing, astray>>
      ELSE /\ astray' = (mine = {})
           /\ timing' = [timing EXCEPT !.timers[e.at] = @ \ mine, !.over = @ \cup {e.timer}]
    BY <1>1, <1>3 DEF Return, Here
<1>5. envs \in Seq(Env) /\ timing \in Timing /\ astray \in BOOLEAN /\ TimersApart /\ TimerRuns
    BY DEF ScriptsInv, ScriptsTyped, Timing, Timers
<1>6. d \in Nat /\ d > 0 /\ d \in 1 .. Len(envs) /\ e \in Env
    <2>1. Len(envs) \in Nat /\ Len(envs) > 0
        BY <1>2, <1>5, LenProperties, EmptySeq
    <2>2. d \in 1 .. Len(envs)
        BY <1>1, <2>1
    <2> QED
        BY <1>1, <1>5, <2>1, <2>2, ElementOfSeq
<1>7. envs' \in Seq(Env) /\ Len(envs') = d - 1 /\ \A k \in 1 .. Len(envs') : envs'[k] = envs[k]
    <2>1. \A k \in 1 .. d - 1 : envs[k] \in Env
        BY <1>1, <1>5, <1>6, LenProperties
    <2>2. 1 \in Int /\ d - 1 \in Int
        BY <1>6
    <2>3. PICK m \in Int : m = d - 1
        BY <2>2
    <2>4. /\ SubSeq(envs, 1, m) \in Seq(Env)
          /\ Len(SubSeq(envs, 1, m)) = IF 1 <= m THEN m - 1 + 1 ELSE 0
          /\ \A k \in 1 .. m - 1 + 1 : SubSeq(envs, 1, m)[k] = envs[1 + k - 1]
        BY <2>1, <2>2, <2>3, SubSeqProperties
    <2> QED
        BY <1>2, <1>6, <2>3, <2>4
<1>8. CASE e.kind # "timer"
    <2>1. UNCHANGED <<timing, astray>>
        BY <1>4, <1>8
    <2>2. timing' \in Timing /\ timing'.made = timing.made /\ TimersApart'
        BY <1>5, <2>1 DEF TimersApart
    <2>3. TimerRuns'
        <3>1. \A k \in 1 .. Len(envs') : k \in 1 .. Len(envs)
            BY <1>1, <1>6, <1>7
        <3> QED
            BY <1>5, <1>7, <2>1, <3>1 DEF TimerRuns
    <2> QED
        BY <1>1, <1>2, <1>5, <1>6, <1>7, <2>1, <2>2, <2>3, PopStep
<1>9. CASE e.kind = "timer"
    <2>1. d = 1 /\ Len(envs') = 0
        BY <1>1, <1>6, <1>7, <1>9 DEF ScriptsInv, EnvsRight
    <2>2. astray' \in BOOLEAN
        BY <1>4, <1>9
    <2>3. e.at \in Interface /\ e.timer \in Who
        BY <1>6 DEF Env
    <2>4. PICK lists, over :
            /\ lists = [timing.timers EXCEPT ![e.at] = @ \ mine] /\ over = timing.over \cup {e.timer}
        OBVIOUS
    <2>5. timing' = [timing EXCEPT !.timers = lists, !.over = over]
        BY <1>4, <1>5, <1>9, <2>4 DEF Timing
    <2>6. /\ e.timer <= timing.made
          /\ \A i \in Interface : \A t \in timing.timers[i] : t.body = e.timer <=> i = e.at /\ t.id = e.id
        BY <1>1, <1>5, <1>6, <1>9 DEF TimerRuns
    <2>7. timing.timers \in [Interface -> SUBSET TimerEvent] /\ timing.over \in SUBSET Who
        BY <1>5 DEF Timing
    <2>8. \A i \in Interface :
            lists[i] = (IF i = e.at THEN timing.timers[i] \ mine ELSE timing.timers[i])
        BY <2>3, <2>4, <2>7
    <2>9. lists \in [Interface -> SUBSET TimerEvent]
        BY <2>3, <2>4, <2>7
    <2>10. \A i \in Interface : \A t \in lists[i] : t.body \notin over
        <3>1. SUFFICES ASSUME NEW i \in Interface, NEW t \in lists[i]
                       PROVE  t.body \notin timing.over /\ t.body # e.timer
            BY <2>4
        <3>2. t \in timing.timers[i] /\ (i = e.at => t \notin mine)
            BY <2>8
        <3>3. i = e.at => t.id # e.id
            BY <1>3, <3>2
        <3> QED
            BY <1>5, <2>6, <3>2, <3>3 DEF TimersApart
    <2>11. Ended(lists, over)
        <3>1. over \in SUBSET Who
            BY <2>3, <2>4, <2>7
        <3>2. \A b \in over : b <= timing.made
            BY <1>5, <2>4, <2>6 DEF TimersApart
        <3>3. \A i \in Interface : lists[i] \subseteq timing.timers[i]
            BY <2>8
        <3> QED
            BY <2>9, <2>10, <3>1, <3>2, <3>3 DEF Ended
    <2>12. timing' \in Timing /\ TimersApart'
        BY <2>5, <2>11, EndedStep
    <2>13. timing'.made = timing.made
        BY <1>5, <2>5 DEF Timing
    <2>14. TimerRuns'
        BY <2>1 DEF TimerRuns
    <2> QED
        BY <1>1, <1>2, <1>6, <1>7, <2>2, <2>12, <2>13, <2>14, PopStep
<1> QED
    BY <1>8, <1>9

\* The task finds nothing any more.
LEMMA StopTimerStep ==
    ASSUME ScriptsAssumption, ScriptsInv, StopTimer
    PROVE  ScriptsInv'
<1>1. PICK j, t : j = Here.at /\ envs # <<>> /\ t \in timing.timers[j]
        /\ timing' = [timing EXCEPT !.timers[j] = @ \ {t},
                                    !.over = IF \E d \in 1 .. Len(envs) : envs[d].timer = t.body
                                             THEN @ ELSE @ \cup {t.body}]
    BY DEF StopTimer
<1>2. UNCHANGED <<memory, bodies, global, envs, slots, objects, astray>>
    BY DEF StopTimer, things
<1>3. envs \in Seq(Env) /\ timing \in Timing /\ astray \in BOOLEAN /\ TimersApart /\ TimerRuns
    BY DEF ScriptsInv, ScriptsTyped, Timing, Timers
<1>4. j \in Interface
    <2>1. Len(envs) \in 1 .. Len(envs)
        BY <1>1, <1>3, EmptySeq
    <2>2. envs[Len(envs)] \in Env
        BY <1>3, <2>1, ElementOfSeq
    <2> QED
        BY <1>1, <2>2 DEF Here, Env
<1>5. timing.timers \in [Interface -> SUBSET TimerEvent] /\ timing.over \in SUBSET Who
    BY <1>3 DEF Timing
<1>6. t \in TimerEvent /\ t.body \in Who /\ t.body <= timing.made
    BY <1>1, <1>3, <1>4, <1>5 DEF TimerEvent, TimersApart
<1>7. PICK lists, over :
        /\ lists = [timing.timers EXCEPT ![j] = @ \ {t}]
        /\ over = (IF \E d \in 1 .. Len(envs) : envs[d].timer = t.body THEN timing.over
                   ELSE timing.over \cup {t.body})
    OBVIOUS
<1>8. timing' = [timing EXCEPT !.timers = lists, !.over = over]
    BY <1>1, <1>3, <1>7 DEF Timing
<1>9. \A i \in Interface : lists[i] = (IF i = j THEN timing.timers[i] \ {t} ELSE timing.timers[i])
    BY <1>4, <1>5, <1>7
<1>10. lists \in [Interface -> SUBSET TimerEvent]
    BY <1>4, <1>5, <1>7
<1>11. \A b \in over : b \in timing.over \/ (b = t.body /\ \A d \in 1 .. Len(envs) : envs[d].timer # b)
    BY <1>7
<1>12. \A i \in Interface : \A u \in lists[i] : u \in timing.timers[i] /\ u.body # t.body
    <2>1. SUFFICES ASSUME NEW i \in Interface, NEW u \in lists[i]
                   PROVE  u \in timing.timers[i] /\ u.body # t.body
        OBVIOUS
    <2>2. u \in timing.timers[i] /\ (i = j => u # t)
        BY <1>9
    <2> QED
        BY <1>1, <1>3, <1>4, <2>2 DEF TimersApart
<1>13. Ended(lists, over)
    <2>1. over \in SUBSET Who
        BY <1>5, <1>6, <1>11
    <2>2. \A b \in over : b <= timing.made
        BY <1>3, <1>6, <1>11 DEF TimersApart
    <2>3. \A i \in Interface : \A u \in lists[i] : u.body \notin over
        BY <1>3, <1>11, <1>12 DEF TimersApart
    <2>4. \A i \in Interface : lists[i] \subseteq timing.timers[i]
        BY <1>12
    <2> QED
        BY <1>10, <2>1, <2>2, <2>3, <2>4 DEF Ended
<1>14. timing' \in Timing /\ TimersApart'
    BY <1>8, <1>13, EndedStep
<1>15. /\ timing'.timers = lists /\ timing'.over = over /\ timing'.last = timing.last
       /\ timing'.made = timing.made
    BY <1>3, <1>8 DEF Timing
<1>16. TimerRuns'
    <2>1. SUFFICES ASSUME NEW d \in 1 .. Len(envs), envs[d].kind = "timer"
                   PROVE  /\ envs[d].task = envs[d].timer /\ envs[d].timer \notin over
                          /\ envs[d].timer <= timing.made /\ envs[d].id <= timing.last[envs[d].at]
                          /\ \A i \in Interface : \A u \in lists[i] :
                                u.body = envs[d].timer <=> i = envs[d].at /\ u.id = envs[d].id
        BY <1>2, <1>15 DEF TimerRuns
    <2>2. envs[d].timer \notin over
        BY <1>3, <1>11, <2>1 DEF TimerRuns
    <2> QED
        BY <1>3, <1>12, <2>1, <2>2 DEF TimerRuns
<1> QED
    <2>1. Len(envs') <= Len(envs) /\ envs' \in Seq(Env) /\ \A k \in 1 .. Len(envs') : envs'[k] = envs[k]
        <3>1. Len(envs) \in Nat
            BY <1>3, LenProperties
        <3> QED
            BY <1>2, <1>3, <3>1
    <2> QED
        BY <1>2, <1>3, <1>14, <1>15, <1>16, <2>1, PopStep

\* The timer that is started has the next number.
LEMMA AddTimerStep ==
    ASSUME ScriptsAssumption, ScriptsInv, AddTimer
    PROVE  ScriptsInv'
<1>1. PICK j, t, k :
        /\ j = Here.at /\ t = [id |-> timing.last[j] + 1, body |-> timing.made + 1]
        /\ k = [at |-> j, id |-> t.id, body |-> t.body]
    OBVIOUS
<1>2. /\ envs # <<>> /\ CanMake
      /\ timing' = [timing EXCEPT !.last[j] = @ + 1, !.made = @ + 1, !.timers[j] = @ \cup {t}, !.tasks = @ \cup {k}]
      /\ UNCHANGED <<memory, bodies, global, envs, slots, objects, astray>>
    BY <1>1 DEF AddTimer, things
<1>3. envs \in Seq(Env) /\ timing \in Timing /\ TimersApart /\ TimerRuns
    BY DEF ScriptsInv, ScriptsTyped, Timing, Timers
<1>4. j \in Interface
    <2>1. Len(envs) \in 1 .. Len(envs)
        BY <1>2, <1>3, EmptySeq
    <2>2. envs[Len(envs)] \in Env
        BY <1>3, <2>1, ElementOfSeq
    <2> QED
        BY <1>1, <2>2 DEF Here, Env
<1>5. /\ timing.timers \in [Interface -> SUBSET TimerEvent] /\ timing.last \in [Interface -> Who]
      /\ timing.tasks \in SUBSET Task /\ timing.over \in SUBSET Who /\ timing.made \in Who
    BY <1>3 DEF Timing
<1>6. PICK last, lists, tasks, made :
        /\ last = [timing.last EXCEPT ![j] = @ + 1] /\ lists = [timing.timers EXCEPT ![j] = @ \cup {t}]
        /\ tasks = timing.tasks \cup {k} /\ made = timing.made + 1
    OBVIOUS
<1>7. timing' = [timing EXCEPT !.last = last, !.made = made, !.timers = lists, !.tasks = tasks]
    BY <1>2, <1>3, <1>6 DEF Timing
<1>8. /\ timing'.timers = lists /\ timing'.over = timing.over /\ timing'.last = last
      /\ timing'.made = made /\ timing'.tasks = tasks
    BY <1>3, <1>7 DEF Timing
<1>9. /\ bodies \in Nat /\ timing.made \in Nat /\ objects.made \in Nat /\ MaxMade \in Nat
      /\ bodies + timing.made + objects.made < MaxMade
    BY <1>2, <1>5 DEF ScriptsInv, ScriptsTyped, ScriptsAssumption, Who, CanMake
<1>10. made \in Who /\ made = timing.made + 1 /\ \A i \in Interface : timing.last[i] \in Nat /\ timing.last[i] <= timing.made
    BY <1>3, <1>5, <1>6, <1>9 DEF Who, TimersApart
<1>11. t.id = timing.last[j] + 1 /\ t.body = made /\ t.id \in Who /\ t.body \in Who /\ t.id <= made
    BY <1>1, <1>4, <1>9, <1>10 DEF Who
<1>12. k.at = j /\ k.id = t.id /\ k.body = t.body
    BY <1>1
<1>13. t \in TimerEvent /\ k \in Task
    <2> HIDE DEF Who
    <2>1. t = [id |-> t.id, body |-> t.body]
        BY <1>1
    <2> QED
        BY <1>1, <1>4, <1>11, <2>1 DEF TimerEvent, Task
<1>14. \A i \in Interface : /\ last[i] = (IF i = j THEN t.id ELSE timing.last[i])
                            /\ lists[i] = (IF i = j THEN timing.timers[i] \cup {t} ELSE timing.timers[i])
    BY <1>4, <1>5, <1>6, <1>11
<1>15. /\ last \in [Interface -> Who] /\ lists \in [Interface -> SUBSET TimerEvent] /\ tasks \in SUBSET Task
    <2>1. last \in [Interface -> Who]
        BY <1>4, <1>5, <1>6, <1>11
    <2>2. lists \in [Interface -> SUBSET TimerEvent]
        BY <1>4, <1>5, <1>6, <1>13
    <2> QED
        BY <1>5, <1>6, <1>13, <2>1, <2>2
<1>16. timing' \in Timing
    <2> HIDE DEF Who
    <2> QED
        BY <1>3, <1>7, <1>10, <1>15 DEF Timing
<1>17. ASSUME NEW i \in Interface, NEW u \in lists[i]
       PROVE  \/ i = j /\ u = t
              \/ u \in timing.timers[i] /\ u.body \in Nat /\ u.body < made /\ u.id \in Nat /\ u.id <= timing.last[i]
    <2>1. CASE u \in timing.timers[i]
        <3>1. u.body \in Who /\ u.id \in Who
            BY <1>5, <2>1 DEF TimerEvent
        <3>2. u.id <= timing.last[i] /\ u.body <= timing.made
            BY <1>3, <1>9, <2>1 DEF TimersApart
        <3> QED
            BY <1>9, <1>10, <2>1, <3>1, <3>2 DEF Who
    <2> QED
        BY <1>14, <2>1
<1>18. ASSUME NEW q \in tasks
       PROVE  \/ q = k
              \/ q \in timing.tasks /\ q.at \in Interface /\ q.id \in Nat /\ q.id <= timing.last[q.at] /\ q.body <= timing.made
    <2>1. CASE q \in timing.tasks
        BY <1>3, <1>5, <2>1 DEF TimersApart, Task, Who
    <2> QED
        BY <1>6, <2>1
<1>19. \A i \in Interface : last[i] \in Nat /\ timing.last[i] <= last[i] /\ last[i] <= made
    <2>1. SUFFICES ASSUME NEW i \in Interface
                   PROVE  last[i] \in Nat /\ timing.last[i] <= last[i] /\ last[i] <= made
        OBVIOUS
    <2>2. timing.last[i] \in Nat /\ timing.last[i] <= timing.made
        BY <1>10
    <2>3. CASE i = j
        <3>1. last[i] = timing.last[i] + 1
            BY <1>11, <1>14, <2>3
        <3> QED
            BY <1>9, <1>10, <2>2, <3>1
    <2>4. CASE i # j
        <3>1. last[i] = timing.last[i]
            BY <1>14, <2>4
        <3> QED
            BY <1>9, <1>10, <2>2, <3>1
    <2> QED
        BY <2>3, <2>4
<1>20. TimersApart'
    <2>1. \A i \in Interface : \A u \in lists[i] : u.id <= last[i] /\ u.body \in 1 .. made /\ u.body \notin timing.over
        <3>1. SUFFICES ASSUME NEW i \in Interface, NEW u \in lists[i]
                       PROVE  u.id <= last[i] /\ u.body \in 1 .. made /\ u.body \notin timing.over
            OBVIOUS
        <3>2. CASE u \in timing.timers[i] /\ u.id \in Nat /\ u.id <= timing.last[i]
            <4>1. u.body \in 1 .. timing.made /\ u.body \notin timing.over
                BY <1>3, <3>2 DEF TimersApart
            <4> QED
                BY <1>9, <1>10, <1>19, <3>2, <4>1
        <3>3. CASE i = j /\ u = t
            <4>1. \A b \in timing.over : b \in Nat /\ b <= timing.made
                BY <1>3, <1>5 DEF TimersApart, Who
            <4>2. u.id = last[i] /\ last[i] \in Nat
                BY <1>11, <1>14, <1>19, <3>3
            <4>3. u.body = timing.made + 1 /\ made = timing.made + 1
                BY <1>10, <1>11, <3>3
            <4> QED
                BY <1>9, <4>1, <4>2, <4>3
        <3> QED
            BY <1>17, <3>2, <3>3
    <2>2. \A q \in tasks : q.id <= last[q.at] /\ q.body <= made
        <3>1. SUFFICES ASSUME NEW q \in tasks
                       PROVE  q.id <= last[q.at] /\ q.body <= made
            OBVIOUS
        <3>2. CASE q = k
            <4>1. q.id = last[q.at] /\ last[q.at] \in Nat
                BY <1>4, <1>12, <1>14, <1>19, <3>2
            <4>2. q.body = made /\ made \in Nat
                BY <1>9, <1>10, <1>11, <1>12, <3>2
            <4> QED
                BY <4>1, <4>2
        <3>3. CASE q \in timing.tasks /\ q.at \in Interface /\ q.id \in Nat /\ q.id <= timing.last[q.at] /\ q.body <= timing.made
            <4>1. q.body \in Nat
                BY <1>5, <3>3 DEF Task, Who
            <4> QED
                BY <1>9, <1>10, <1>19, <3>3, <4>1
        <3> QED
            BY <1>18, <3>2, <3>3
    <2>3. \A i, h \in Interface : \A u \in lists[i], v \in lists[h] : u.body = v.body => i = h /\ u = v
        <3>1. SUFFICES ASSUME NEW i \in Interface, NEW h \in Interface, NEW u \in lists[i], NEW v \in lists[h],
                              u.body = v.body
                       PROVE  i = h /\ u = v
            OBVIOUS
        <3>2. \/ i = j /\ u = t
              \/ u \in timing.timers[i] /\ u.body \in Nat /\ u.body < made
            BY <1>17
        <3>3. \/ h = j /\ v = t
              \/ v \in timing.timers[h] /\ v.body \in Nat /\ v.body < made
            BY <1>17
        <3> QED
            BY <1>3, <1>11, <3>1, <3>2, <3>3 DEF TimersApart
    <2>4. \A q \in tasks : \A u \in lists[q.at] : u.id = q.id => u.body = q.body
        <3>1. SUFFICES ASSUME NEW q \in tasks, NEW u \in lists[q.at], u.id = q.id
                       PROVE  u.body = q.body
            OBVIOUS
        <3>2. q.at \in Interface
            BY <1>4, <1>12, <1>18
        <3>3. \/ q.at = j /\ u = t
              \/ u \in timing.timers[q.at] /\ u.id \in Nat /\ u.id <= timing.last[q.at]
            BY <1>17, <3>2
        <3>4. q = k \/ (q \in timing.tasks /\ q.id \in Nat /\ q.id <= timing.last[q.at])
            BY <1>18
        <3>5. timing.last[j] \in Nat
            BY <1>4, <1>10
        <3> QED
            BY <1>3, <1>11, <1>12, <3>1, <3>3, <3>4, <3>5 DEF TimersApart
    <2>5. \A i \in Interface : \A u, v \in lists[i] : u.id = v.id => u = v
        <3>1. SUFFICES ASSUME NEW i \in Interface, NEW u \in lists[i], NEW v \in lists[i], u.id = v.id
                       PROVE  u = v
            OBVIOUS
        <3>2. \/ i = j /\ u = t
              \/ u \in timing.timers[i] /\ u.id \in Nat /\ u.id <= timing.last[i]
            BY <1>17
        <3>3. \/ i = j /\ v = t
              \/ v \in timing.timers[i] /\ v.id \in Nat /\ v.id <= timing.last[i]
            BY <1>17
        <3>4. timing.last[j] \in Nat
            BY <1>4, <1>10
        <3> QED
            BY <1>3, <1>11, <3>1, <3>2, <3>3, <3>4 DEF TimersApart
    <2>6. \A b \in timing.over : b <= made
        BY <1>3, <1>5, <1>9, <1>10 DEF TimersApart, Who
    <2> QED
        BY <1>8, <1>19, <2>1, <2>2, <2>3, <2>4, <2>5, <2>6 DEF TimersApart
<1>21. TimerRuns'
    <2>1. SUFFICES ASSUME NEW d \in 1 .. Len(envs)
                   PROVE  RunsIts(envs[d], timing')
        BY <1>2 DEF TimerRuns, RunsIts
    <2>2. PICK e \in Env : e = envs[d]
        BY <1>3, ElementOfSeq
    <2>3. SUFFICES ASSUME e.kind = "timer"
                   PROVE  RunsIts(e, timing')
        BY <2>2 DEF RunsIts
    <2>4. e.at \in Interface /\ e.id \in Nat /\ e.timer \in Nat
        BY <2>2 DEF Env, Who
    <2>5. /\ e.task = e.timer /\ e.timer \notin timing.over /\ e.timer <= timing.made
          /\ e.id <= timing.last[e.at]
          /\ \A i \in Interface : \A u \in timing.timers[i] : u.body = e.timer <=> i = e.at /\ u.id = e.id
        BY <1>3, <2>1, <2>2, <2>3 DEF TimerRuns
    <2>6. e.timer <= made /\ e.timer # made
        BY <1>9, <1>10, <2>4, <2>5
    <2>7. e.id <= last[e.at]
        <3>1. last[e.at] \in Nat /\ timing.last[e.at] \in Nat /\ timing.last[e.at] <= last[e.at]
            BY <1>10, <1>19, <2>4
        <3> QED
            BY <2>4, <2>5, <3>1
    <2>8. e.at = j => e.id # t.id
        BY <1>10, <1>11, <2>4, <2>5
    <2>9. \A i \in Interface : \A u \in lists[i] : u.body = e.timer <=> i = e.at /\ u.id = e.id
        BY <1>11, <1>17, <2>5, <2>6, <2>8
    <2> QED
        BY <1>8, <2>5, <2>6, <2>7, <2>9 DEF RunsIts
<1>22. ScriptsTyped' /\ Things' /\ EnvsRight' /\ Objects'
    <2>1. ScriptsTyped'
        BY <1>2, <1>16 DEF ScriptsInv, ScriptsTyped, Timing
    <2>2. Things'
        <3>1. bodies + made + objects.made <= MaxMade
            BY <1>9, <1>10
        <3> QED
            BY <1>2, <1>8, <3>1 DEF ScriptsInv, Things, Bounded, OneUnique
    <2> QED
        BY <1>2, <2>1, <2>2 DEF ScriptsInv, EnvsRight, Objects, ObjectsApart, ObjectsKept
<1> QED
    BY <1>20, <1>21, <1>22 DEF ScriptsInv, Timers

\* A state that is loaded again knows no timers and no objects.
LEMMA ReInitStateStep ==
    ASSUME ScriptsAssumption, ScriptsInv, ReInitState
    PROVE  ScriptsInv'
<1>1. PICK j \in Interface :
        /\ envs = <<>> /\ timing' = Closed(timing, j) /\ objects' = [objects EXCEPT !.known[j] = {}]
        /\ UNCHANGED <<memory, bodies, global, envs, slots, astray>>
    BY DEF ReInitState, things
<1>2. timing \in Timing /\ TimersApart
    BY DEF ScriptsInv, ScriptsTyped, Timing, Timers
<1>3. timing.timers \in [Interface -> SUBSET TimerEvent] /\ timing.over \in SUBSET Who
    BY <1>2 DEF Timing
<1>4. PICK lists, over :
        /\ lists = [timing.timers EXCEPT ![j] = {}]
        /\ over = timing.over \cup {t.body : t \in timing.timers[j]}
    OBVIOUS
<1>5. timing' = [timing EXCEPT !.timers = lists, !.over = over]
    BY <1>1, <1>2, <1>4 DEF Timing, Closed
<1>6. \A i \in Interface : lists[i] = (IF i = j THEN {} ELSE timing.timers[i])
    BY <1>3, <1>4
<1>7. Ended(lists, over)
    <2>1. lists \in [Interface -> SUBSET TimerEvent]
        BY <1>3, <1>4
    <2>2. \A b \in over : b \in timing.over \/ \E t \in timing.timers[j] : b = t.body
        BY <1>4
    <2>3. \A t \in timing.timers[j] : t.body \in Who /\ t.body <= timing.made
        BY <1>2, <1>3 DEF TimersApart, TimerEvent
    <2>4. over \in SUBSET Who /\ \A b \in over : b <= timing.made
        BY <1>2, <1>3, <2>2, <2>3 DEF TimersApart
    <2>5. \A i \in Interface : \A t \in lists[i] : t.body \notin over
        BY <1>2, <1>6, <2>2 DEF TimersApart
    <2> QED
        BY <1>6, <2>1, <2>4, <2>5 DEF Ended
<1>8. timing' \in Timing /\ TimersApart'
    BY <1>5, <1>7, EndedStep
<1>9. timing'.made = timing.made
    BY <1>2, <1>5 DEF Timing
<1>10. TimerRuns'
    BY <1>1, NoScript DEF TimerRuns
<1>11. PICK known : known = [objects.known EXCEPT ![j] = {}]
    OBVIOUS
<1>12. objects \in [map : SUBSET Object, known : [Interface -> SUBSET Object], made : Who]
    BY DEF ScriptsInv, ScriptsTyped
<1>13. objects' = [objects EXCEPT !.known = known]
    BY <1>1, <1>11, <1>12
<1>14. known \in [Interface -> SUBSET Object] /\ \A i \in Interface : known[i] = (IF i = j THEN {} ELSE objects.known[i])
    BY <1>11, <1>12
<1>15. /\ objects' \in [map : SUBSET Object, known : [Interface -> SUBSET Object], made : Who]
       /\ objects'.map = objects.map /\ objects'.made = objects.made /\ objects'.known = known
    BY <1>12, <1>13, <1>14
<1>16. Objects'
    <2>1. ObjectsKept'
        BY <1>14, <1>15 DEF ScriptsInv, Objects, ObjectsKept
    <2>2. \A i, h \in Interface : known[i] \cap known[h] # {} => i = h
        <3>1. \A i \in Interface : known[i] \subseteq objects.known[i]
            BY <1>14
        <3> QED
            BY <3>1 DEF ScriptsInv, Objects, ObjectsApart
    <2>3. ObjectsApart'
        BY <1>1, <1>15, <2>2 DEF ScriptsInv, Objects, ObjectsApart
    <2> QED
        BY <2>1, <2>3 DEF Objects
<1>17. ScriptsTyped' /\ Things' /\ EnvsRight'
    <2>1. ScriptsTyped'
        BY <1>1, <1>8, <1>15 DEF ScriptsInv, ScriptsTyped, Timing
    <2>2. Things'
        BY <1>1, <1>9, <1>15 DEF ScriptsInv, Things, Bounded, OneUnique
    <2> QED
        BY <1>1, <2>1, <2>2 DEF ScriptsInv, EnvsRight
<1> QED
    BY <1>8, <1>10, <1>16, <1>17 DEF ScriptsInv, Timers

Made == [map : SUBSET Object, known : [Interface -> SUBSET Object], made : Who]

\* A step that changes objects, and numbers of the first slot.
LEMMA ObjectStep ==
    ASSUME ScriptsAssumption, ScriptsInv, UNCHANGED <<memory, bodies, global, envs, timing, astray>>,
           slots' \in [1 .. Depth -> Slot], \A d \in 1 .. Depth : slots'[d].uid = slots[d].uid,
           objects' \in Made, bodies + timing.made + objects'.made <= MaxMade, Objects'
    PROVE  ScriptsInv'
<1>1. ScriptsTyped' /\ Things' /\ Timers'
    BY DEF ScriptsInv, ScriptsTyped, Made, Things, Bounded, OneUnique, Timers, TimersApart, TimerRuns
<1>2. EnvsRight'
    <2>1. SUFFICES ASSUME NEW d \in 1 .. Len(envs)
                   PROVE  EnvRight(envs[d], slots'[d].uid, memory, global.body) /\ (envs[d].kind # "script" => d = 1)
        BY DEF EnvsRight
    <2>2. slots'[d].uid = slots[d].uid
        BY EnvsTyped
    <2> QED
        BY <2>2 DEF ScriptsInv, EnvsRight
<1> QED
    BY <1>1, <1>2 DEF ScriptsInv

\* The scripts that are loaded run in the first slot.
LEMMA LoadingIs ==
    ASSUME ScriptsAssumption, ScriptsInv, Loading
    PROVE  Len(envs) = 1 /\ 1 \in 1 .. Depth /\ Here = envs[1] /\ Here.at \in Interface
<1>1. envs \in Seq(Env) /\ envs # <<>>
    BY DEF Loading, ScriptsInv, ScriptsTyped
<1>2. Len(envs) \in 1 .. Len(envs)
    BY <1>1, EmptySeq
<1>3. envs[Len(envs)] \in Env /\ envs[Len(envs)].kind = "loading"
    BY <1>1, <1>2, ElementOfSeq DEF Loading, Here
<1>4. Len(envs) = 1
    BY <1>2, <1>3 DEF ScriptsInv, EnvsRight
<1> QED
    BY <1>2, <1>3, <1>4, EnvsTyped DEF Here, Env

\* The number that the slot gives is in use nowhere.
LEMMA MakesStep ==
    ASSUME ScriptsAssumption, ScriptsInv, Loading, NEW kind \in ObjectKind, Makes(kind)
    PROVE  ScriptsInv'
<1>1. PICK j, o : /\ j = Here.at
                  /\ o = [kind |-> kind, id |-> slots[1].object[kind] + 1, body |-> objects.made + 1, part |-> 0]
    OBVIOUS
<1>2. Len(envs) = 1 /\ 1 \in 1 .. Depth /\ j \in Interface
    BY <1>1, LoadingIs
<1>3. PICK map, known :
        /\ map = {p \in objects.map : p.kind # kind \/ p.id # o.id} \cup {o}
        /\ known = [objects.known EXCEPT ![j] = @ \cup {o}]
    OBVIOUS
<1>4. /\ CanMake /\ slots' = [slots EXCEPT ![1].object[kind] = @ + 1]
      /\ objects' = [map |-> map, made |-> objects.made + 1, known |-> known]
      /\ UNCHANGED <<memory, bodies, global, envs, timing, astray>>
    BY <1>1, <1>2, <1>3 DEF Makes, things
<1>5. /\ slots \in [1 .. Depth -> Slot] /\ objects.map \in SUBSET Object /\ objects.made \in Who
      /\ objects.known \in [Interface -> SUBSET Object]
    BY DEF ScriptsInv, ScriptsTyped
<1>6. /\ bodies \in Nat /\ timing.made \in Nat /\ objects.made \in Nat /\ MaxMade \in Nat
      /\ bodies + timing.made + objects.made < MaxMade
    BY <1>4, <1>5 DEF ScriptsInv, ScriptsTyped, ScriptsAssumption, Who, CanMake
<1>7. PICK n : n = slots[1].object[kind]
    OBVIOUS
<1>8. n \in Nat /\ n <= objects.made /\ n + 1 \in Who /\ objects.made + 1 \in Who /\ 0 \in Who
    <2>1. n \in Who
        BY <1>2, <1>5, <1>7 DEF Slot
    <2>2. n <= objects.made
        BY <1>7 DEF ScriptsInv, Objects, ObjectsApart
    <2> QED
        BY <1>6, <2>1, <2>2 DEF Who
<1>9. o.kind = kind /\ o.id = n + 1 /\ o.body = objects.made + 1 /\ o \in Object
    <2>1. o = [kind |-> kind, id |-> n + 1, body |-> objects.made + 1, part |-> 0]
        BY <1>1, <1>7
    <2> HIDE DEF Who
    <2> QED
        BY <1>8, <2>1 DEF Object
<1>10. PICK q : q = [slots[1].object EXCEPT ![kind] = n + 1]
    OBVIOUS
<1>11. q \in [ObjectKind -> Who] /\ \A h \in ObjectKind : q[h] = (IF h = kind THEN n + 1 ELSE slots[1].object[h])
    <2>1. slots[1].object \in [ObjectKind -> Who]
        BY <1>2, <1>5 DEF Slot
    <2> HIDE DEF Who, ObjectKind
    <2> QED
        BY <1>8, <1>10, <2>1
<1>12. PICK s : s = [slots[1] EXCEPT !.object = q]
    OBVIOUS
<1>13. s \in Slot /\ s.object = q /\ s.uid = slots[1].uid
    <2>1. slots[1] \in Slot
        BY <1>2, <1>5
    <2> HIDE DEF Who, ObjectKind
    <2> QED
        BY <1>11, <1>12, <2>1 DEF Slot
<1>14. slots' = [slots EXCEPT ![1] = s]
    BY <1>2, <1>4, <1>5, <1>7, <1>10, <1>12 DEF Slot
<1>15. slots' \in [1 .. Depth -> Slot] /\ \A d \in 1 .. Depth : slots'[d] = (IF d = 1 THEN s ELSE slots[d])
    BY <1>2, <1>5, <1>13, <1>14
<1>16. \A p \in objects.map : /\ p.kind \in ObjectKind /\ p.id \in Nat /\ p.id <= slots[1].object[p.kind]
                              /\ p.body \in Nat /\ p.body <= objects.made
    BY <1>5 DEF Object, Who, ScriptsInv, Objects, ObjectsApart
<1>17. \A p \in objects.map : p.kind = kind => p.id < o.id
    BY <1>7, <1>8, <1>9, <1>16
<1>18. map = objects.map \cup {o} /\ o \notin objects.map
    <2>1. \A p \in objects.map : p.kind # kind \/ p.id # o.id
        BY <1>8, <1>9, <1>16, <1>17
    <2> QED
        BY <1>3, <1>9, <2>1
<1>19. \A i \in Interface : known[i] = (IF i = j THEN objects.known[i] \cup {o} ELSE objects.known[i])
    BY <1>2, <1>3, <1>5
<1>20. ObjectsKept /\ ObjectsApart
    BY DEF ScriptsInv, Objects
<1>21. objects' \in Made /\ objects'.map = map /\ objects'.known = known /\ objects'.made = objects.made + 1
    <2>1. known \in [Interface -> SUBSET Object]
        BY <1>2, <1>3, <1>5, <1>9
    <2>2. map \in SUBSET Object
        BY <1>5, <1>9, <1>18
    <2> HIDE DEF Who
    <2> QED
        BY <1>4, <1>8, <2>1, <2>2 DEF Made
<1>22. Objects'
    <2>1. \A i \in Interface : known[i] \subseteq map
        BY <1>18, <1>19, <1>20 DEF ObjectsKept
    <2>2. \A p \in map : p.id <= q[p.kind]
        BY <1>7, <1>8, <1>9, <1>11, <1>16, <1>18
    <2>3. \A p, r \in map : p.kind = r.kind /\ p.id = r.id => p = r
        BY <1>8, <1>9, <1>16, <1>17, <1>18, <1>20 DEF ObjectsApart
    <2>4. \A i \in Interface : o \notin objects.known[i]
        BY <1>18, <1>20 DEF ObjectsKept
    <2>5. \A i, h \in Interface : known[i] \cap known[h] # {} => i = h
        <3>1. SUFFICES ASSUME NEW i \in Interface, NEW h \in Interface, NEW x, x \in known[i], x \in known[h]
                       PROVE  i = h
            OBVIOUS
        <3>2. CASE x = o
            BY <1>19, <2>4, <3>1, <3>2
        <3>3. CASE x # o
            <4>1. x \in objects.known[i] \cap objects.known[h]
                BY <1>19, <3>1, <3>3
            <4> QED
                BY <1>20, <4>1 DEF ObjectsApart
        <3> QED
            BY <3>2, <3>3
    <2>6. \A h \in ObjectKind : q[h] <= objects.made + 1
        <3>1. SUFFICES ASSUME NEW h \in ObjectKind
                       PROVE  q[h] <= objects.made + 1
            OBVIOUS
        <3>2. slots[1].object[h] <= objects.made /\ slots[1].object[h] \in Nat
            BY <1>2, <1>5, <1>20 DEF ObjectsApart, Slot, Who
        <3> QED
            BY <1>6, <1>8, <1>11, <3>2
    <2>7. \A p \in map : p.body <= objects.made + 1
        BY <1>6, <1>9, <1>16, <1>18
    <2>8. slots'[1].object = q
        BY <1>2, <1>13, <1>15
    <2>9. ObjectsApart'
        BY <1>21, <2>2, <2>3, <2>5, <2>6, <2>7, <2>8 DEF ObjectsApart
    <2>10. ObjectsKept'
        BY <1>21, <2>1 DEF ObjectsKept
    <2> QED
        BY <2>9, <2>10 DEF Objects
<1>23. \A d \in 1 .. Depth : slots'[d].uid = slots[d].uid
    BY <1>13, <1>15
<1>24. bodies + timing.made + objects'.made <= MaxMade
    BY <1>6, <1>21
<1> QED
    BY <1>4, <1>15, <1>21, <1>22, <1>23, <1>24, ObjectStep

\* The objects that are found are those that are meant.
LEMMA SetCombatAreaStep ==
    ASSUME ScriptsAssumption, ScriptsInv, SetCombatArea
    PROVE  ScriptsInv'
<1>1. PICK j : j = Here.at
    OBVIOUS
<1>2. j \in Interface
    BY <1>1, LoadingIs DEF SetCombatArea
<1>3. PICK c \in objects.known[j], p \in objects.known[j], o \in objects.map, q \in objects.map :
        /\ c.kind = "combat" /\ p.kind = "area" /\ o.kind = c.kind /\ o.id = c.id /\ q.kind = p.kind /\ q.id = p.id
        /\ objects' = [objects EXCEPT
                !.map = (@ \ {o}) \cup {[o EXCEPT !.part = q.body]},
                !.known[j] = (@ \ {c}) \cup {[c EXCEPT !.part = p.body]}]
        /\ UNCHANGED <<memory, bodies, global, envs, slots, timing, astray>>
    <2>1. PICK c \in objects.known[Here.at], p \in objects.known[Here.at] :
            /\ c.kind = "combat" /\ p.kind = "area"
            /\ \E o \in ObjectOf("combat", c.id), q \in ObjectOf("area", p.id) :
                objects' = [objects EXCEPT
                    !.map = (@ \ {o}) \cup {[o EXCEPT !.part = q.body]},
                    !.known[Here.at] = (@ \ {c}) \cup {[c EXCEPT !.part = p.body]}]
            /\ UNCHANGED <<things, envs, slots, timing, astray>>
        BY DEF SetCombatArea
    <2>2. PICK o \in ObjectOf("combat", c.id), q \in ObjectOf("area", p.id) :
            objects' = [objects EXCEPT
                !.map = (@ \ {o}) \cup {[o EXCEPT !.part = q.body]},
                !.known[Here.at] = (@ \ {c}) \cup {[c EXCEPT !.part = p.body]}]
        BY <2>1
    <2>3. /\ o \in objects.map /\ q \in objects.map
          /\ o.kind = c.kind /\ o.id = c.id /\ q.kind = p.kind /\ q.id = p.id
        BY <2>1 DEF ObjectOf
    <2>4. objects' = [objects EXCEPT
                !.map = (@ \ {o}) \cup {[o EXCEPT !.part = q.body]},
                !.known[j] = (@ \ {c}) \cup {[c EXCEPT !.part = p.body]}]
        BY <1>1, <2>2
    <2>5. UNCHANGED <<memory, bodies, global, envs, slots, timing, astray>>
        BY <2>1 DEF things
    <2>6. c \in objects.known[j] /\ p \in objects.known[j]
        BY <1>1
    <2> QED
        BY <2>1, <2>3, <2>4, <2>5, <2>6
<1>4. ObjectsKept /\ ObjectsApart
    BY DEF ScriptsInv, Objects
<1>5. c \in objects.map /\ p \in objects.map
    BY <1>2, <1>4 DEF ObjectsKept
<1>6. o = c /\ q = p
    BY <1>3, <1>4, <1>5 DEF ObjectsApart
<1>7. objects \in Made
    BY DEF ScriptsInv, ScriptsTyped, Made
<1>8. PICK b : b = [c EXCEPT !.part = p.body]
    OBVIOUS
<1>9. b \in Object /\ b.kind = c.kind /\ b.id = c.id /\ b.body = c.body
    <2>1. c \in Object /\ p.body \in Who
        BY <1>5, <1>7 DEF Made, Object
    <2> HIDE DEF Who, ObjectKind
    <2> QED
        BY <1>8, <2>1 DEF Object
<1>10. PICK map, known :
        map = (objects.map \ {c}) \cup {b} /\ known = [objects.known EXCEPT ![j] = (@ \ {c}) \cup {b}]
    OBVIOUS
<1>11. objects' = [objects EXCEPT !.map = map, !.known = known]
    BY <1>3, <1>6, <1>7, <1>8, <1>10 DEF Made
<1>12. map \in SUBSET Object /\ known \in [Interface -> SUBSET Object]
    BY <1>2, <1>7, <1>9, <1>10 DEF Made
<1>13. objects' \in Made /\ objects'.map = map /\ objects'.known = known /\ objects'.made = objects.made
    <2> HIDE DEF Who
    <2> QED
        BY <1>7, <1>11, <1>12 DEF Made
<1>14. \A i \in Interface : known[i] = (IF i = j THEN (objects.known[i] \ {c}) \cup {b} ELSE objects.known[i])
    BY <1>2, <1>7, <1>10 DEF Made
<1>15. ASSUME NEW i \in Interface, c \in objects.known[i]
       PROVE  i = j
    BY <1>2, <1>3, <1>4, <1>15 DEF ObjectsApart
<1>16. ASSUME NEW x \in objects.map, x.kind = b.kind, x.id = b.id
       PROVE  x = c
    BY <1>4, <1>5, <1>9, <1>16 DEF ObjectsApart
<1>17. ASSUME NEW i \in Interface, NEW x \in known[i]
       PROVE  x \in map /\ ((x = b /\ i = j) \/ (x \in objects.known[i] /\ x # b))
    <2>1. CASE i = j
        <3>1. x = b \/ (x \in objects.known[i] /\ x # c)
            BY <1>14, <2>1
        <3>2. objects.known[i] \subseteq objects.map
            BY <1>4 DEF ObjectsKept
        <3> QED
            BY <1>10, <2>1, <3>1, <3>2
    <2>2. CASE i # j
        <3>1. x \in objects.known[i] /\ x \in objects.map
            BY <1>4, <1>14, <2>2 DEF ObjectsKept
        <3>2. x # c
            BY <1>15, <2>2, <3>1
        <3>3. x # b
            BY <1>16, <3>1, <3>2
        <3> QED
            BY <1>10, <3>1, <3>2, <3>3
    <2> QED
        BY <2>1, <2>2
<1>18. Objects'
    <2>1. ObjectsKept'
        BY <1>13, <1>17 DEF ObjectsKept
    <2>2. \A x \in map : x.id <= slots[1].object[x.kind] /\ x.body <= objects.made
        BY <1>4, <1>5, <1>9, <1>10 DEF ObjectsApart
    <2>3. \A x, y \in map : x.kind = y.kind /\ x.id = y.id => x = y
        <3>1. SUFFICES ASSUME NEW x \in map, NEW y \in map, x.kind = y.kind, x.id = y.id
                       PROVE  x = y
            OBVIOUS
        <3>2. (x = b \/ (x \in objects.map /\ x # c)) /\ (y = b \/ (y \in objects.map /\ y # c))
            BY <1>10
        <3>3. CASE x \in objects.map /\ y \in objects.map
            BY <1>4, <3>1, <3>3 DEF ObjectsApart
        <3> QED
            BY <1>16, <3>1, <3>2, <3>3
    <2>4. \A i, h \in Interface : known[i] \cap known[h] # {} => i = h
        <3>1. SUFFICES ASSUME NEW i \in Interface, NEW h \in Interface, NEW x, x \in known[i], x \in known[h]
                       PROVE  i = h
            OBVIOUS
        <3>2. (x = b /\ i = j) \/ (x \in objects.known[i] /\ x # b)
            BY <1>17, <3>1
        <3>3. (x = b /\ h = j) \/ (x \in objects.known[h] /\ x # b)
            BY <1>17, <3>1
        <3>4. x \in objects.known[i] /\ x \in objects.known[h] => i = h
            BY <1>4 DEF ObjectsApart
        <3> QED
            BY <3>2, <3>3, <3>4
    <2>5. ObjectsApart'
        BY <1>3, <1>4, <1>13, <2>2, <2>3, <2>4 DEF ObjectsApart
    <2> QED
        BY <2>1, <2>5 DEF Objects
<1>19. bodies + timing.made + objects'.made <= MaxMade
    BY <1>13 DEF ScriptsInv, Things, Bounded
<1>20. slots' \in [1 .. Depth -> Slot] /\ \A d \in 1 .. Depth : slots'[d].uid = slots[d].uid
    BY <1>3 DEF ScriptsInv, ScriptsTyped
<1> QED
    BY <1>3, <1>13, <1>18, <1>19, <1>20, ObjectStep

\* At the start nothing is there.
LEMMA ScriptsInitInv ==
    ASSUME ScriptsAssumption, ScriptInit
    PROVE  ScriptsInv
<1>1. /\ memory = [a \in Address |-> [state |-> "free", sort |-> "item", body |-> 0]]
      /\ bodies = 0 /\ envs = <<>> /\ astray = FALSE
      /\ slots = [d \in 1 .. Depth |-> [uid |-> 0, object |-> [k \in ObjectKind |-> 0]]]
      /\ global = [at |-> NoAddress, body |-> 0]
      /\ timing = [timers |-> [i \in Interface |-> {}], last |-> [i \in Interface |-> 0],
                   tasks |-> {}, over |-> {}, made |-> 0]
      /\ objects = [map |-> {}, known |-> [i \in Interface |-> {}], made |-> 0]
    BY DEF ScriptInit
<1>2. Depth \in Nat \ {0} /\ TopUid \in Nat \ {0} /\ MaxMade \in Nat /\ 0 \in Who
    BY DEF ScriptsAssumption, Who
<1>3. envs \in Seq(Env) /\ Len(envs) = 0 /\ 1 .. Len(envs) = {}
    BY <1>1, EmptySeq
<1>4. memory \in [Address -> Place] /\ \A a \in Address : memory[a].state = "free" /\ memory[a].body = 0
    <2> HIDE DEF Who
    <2>1. [state |-> "free", sort |-> "item", body |-> 0] \in Place
        BY <1>2 DEF Place, Sort
    <2> QED
        BY <1>1, <2>1
<1>5. slots \in [1 .. Depth -> Slot] /\ \A k \in ObjectKind : slots[1].object[k] = 0
    <2>1. PICK s : s = [uid |-> 0, object |-> [k \in ObjectKind |-> 0]]
        OBVIOUS
    <2>2. s \in Slot
        <3>1. [k \in ObjectKind |-> 0] \in [ObjectKind -> Who] /\ 0 \in 0 .. TopUid
            BY <1>2
        <3> QED
            BY <2>1, <3>1 DEF Slot
    <2>3. 1 \in 1 .. Depth
        BY <1>2
    <2>4. \A d \in 1 .. Depth : slots[d] = s
        BY <1>1, <2>1
    <2>5. slots \in [1 .. Depth -> Slot]
        BY <1>1, <2>1, <2>2
    <2> QED
        BY <2>1, <2>3, <2>4, <2>5
<1>6. global \in [at : Address \cup {NoAddress}, body : Who]
    BY <1>1, <1>2
<1>7. timing \in Timing /\ TimersApart
    <2>1. timing \in Timing
        <3> HIDE DEF Who
        <3> QED
            BY <1>1, <1>2 DEF Timing
    <2> QED
        BY <1>1, <2>1 DEF TimersApart
<1>8. objects \in Made
    <2> HIDE DEF Who
    <2> QED
        BY <1>1, <1>2 DEF Made
<1>9. ScriptsTyped
    <2>1. bodies \in Who /\ Len(envs) <= Depth /\ astray \in BOOLEAN
        <3>1. Len(envs) <= Depth
            BY <1>2, <1>3
        <3>2. bodies \in Who /\ astray \in BOOLEAN
            BY <1>1, <1>2, Zenon
        <3> QED
            BY <3>1, <3>2
    <2>2. timing \in [timers : [Interface -> SUBSET TimerEvent], last : [Interface -> Who], tasks : SUBSET Task,
                      over : SUBSET Who, made : Who]
        BY <1>7 DEF Timing
    <2>3. objects \in [map : SUBSET Object, known : [Interface -> SUBSET Object], made : Who]
        BY <1>8 DEF Made
    <2>4. memory \in [Address -> Place]
        BY <1>4
    <2>5. envs \in Seq(Env)
        BY <1>3
    <2>6. slots \in [1 .. Depth -> Slot]
        BY <1>5
    <2> HIDE DEF Who
    <2> QED
        BY <1>6, <2>1, <2>2, <2>3, <2>4, <2>5, <2>6 DEF ScriptsTyped
<1>10. Things
    <2>1. bodies + timing.made + objects.made <= MaxMade
        BY <1>1, <1>2
    <2>2. Bounded
        BY <1>1, <1>4, <2>1 DEF Bounded
    <2> QED
        BY <1>4, <2>2 DEF Things, OneUnique
<1>11. EnvsRight /\ TimerRuns
    BY <1>3 DEF EnvsRight, TimerRuns
<1>12. Objects
    <2>1. objects.map = {} /\ objects.made = 0 /\ \A i \in Interface : objects.known[i] = {}
        BY <1>1
    <2> QED
        BY <1>5, <2>1 DEF Objects, ObjectsApart, ObjectsKept
<1> QED
    BY <1>7, <1>9, <1>10, <1>11, <1>12 DEF ScriptsInv, Timers

\* A step leaves the scripts alone.
LEMMA ScriptsStutter ==
    ASSUME ScriptsInv, UNCHANGED scriptVars
    PROVE  ScriptsInv'
BY DEF scriptVars, ScriptsInv, ScriptsTyped, Things, Bounded, OneUnique, EnvsRight, Timers, TimersApart, TimerRuns,
    Objects, ObjectsApart, ObjectsKept

\* Every step keeps the invariant.
LEMMA ScriptsStep ==
    ASSUME ScriptsAssumption, ScriptsInv, [ScriptNext]_scriptVars
    PROVE  ScriptsInv'
<1>1. CASE Appear
    BY <1>1, AppearStep
<1>2. CASE Vanish \/ DoRemoveItem \/ DoPlayerRemoveItem
    BY <1>2, RemovesStep
<1>3. CASE FlushSendBuffers
    BY <1>3, FlushSendBuffersStep
<1>4. CASE CallScript
    BY <1>4, CallScriptStep
<1>5. CASE Return
    BY <1>5, ReturnStep
<1>6. CASE \/ GetThingFromPos \/ GetPlayerSlotItem \/ GetContainerItem \/ RegisterCreature
           \/ DoPlayerAddItem \/ DoAddContainerItem
    BY <1>6, ToldStep
<1>7. CASE CreateItem
    BY <1>7, CreateItemStep
<1>8. CASE SummonCreature
    BY <1>8, SummonCreatureStep
<1>9. CASE DoAreaCombat \/ TransformItem
    BY <1>9, ReplacesStep
<1>10. CASE AddTimer
    BY <1>10, AddTimerStep
<1>11. CASE StopTimer
    BY <1>11, StopTimerStep
<1>12. CASE ExecuteTimerEvent
    BY <1>12, ExecuteTimerEventStep
<1>13. CASE ReInitState
    BY <1>13, ReInitStateStep
<1>14. CASE LoadFile
    BY <1>14, LoadFileStep
<1>15. CASE CreateCombatObject \/ CreateCombatArea
    BY <1>15, MakesStep DEF CreateCombatObject, CreateCombatArea, ObjectKind
<1>16. CASE SetCombatArea
    BY <1>16, SetCombatAreaStep
<1>17. CASE UNCHANGED scriptVars
    BY <1>17, ScriptsStutter
<1> QED
    BY <1>1, <1>2, <1>3, <1>4, <1>5, <1>6, <1>7, <1>8, <1>9, <1>10, <1>11, <1>12, <1>13, <1>14, <1>15, <1>16, <1>17
       DEF ScriptNext

\* What the invariant says of the names that scripts were given.
LEMMA NamesAreExact ==
    ASSUME ScriptsAssumption, ScriptsInv
    PROVE  NamesExact
<1>1. SUFFICES ASSUME NEW d \in 1 .. Len(envs), NEW g \in envs[d].given, ~Dangling(g[1]),
                      NEW a \in ThingByUid(envs[d], g[1])
               PROVE  memory[a].body = g[2]
    BY DEF NamesExact
<1>2. ToldTrue(envs[d], memory, global.body)
    BY EnvsTyped DEF EnvRight
<1>3. PICK uid : uid = g[1]
    OBVIOUS
<1>4. \/ \E n \in envs[d].names : n[1] = uid /\ n[2] = a
      \/ uid.sort = "unique" /\ a = global.at /\ global.at \in There
      \/ uid.sort = "creature" /\ memory[a].body = uid.number
    BY <1>1, <1>3 DEF ThingByUid
<1>5. CASE \E n \in envs[d].names : n[1] = uid /\ n[2] = a
    BY <1>2, <1>3, <1>5 DEF ToldTrue
<1>6. CASE uid.sort = "unique" /\ a = global.at /\ global.at \in There
    <2>1. global.at # NoAddress
        BY <1>6 DEF There, ScriptsAssumption
    <2>2. memory[global.at].body = global.body
        BY <1>1, <1>3, <1>6, <2>1 DEF Dangling
    <2> QED
        BY <1>2, <1>3, <1>6, <2>2 DEF ToldTrue
<1>7. CASE uid.sort = "creature" /\ memory[a].body = uid.number
    BY <1>2, <1>3, <1>7 DEF ToldTrue
<1> QED
    BY <1>4, <1>5, <1>6, <1>7

\* Whatever scripts run in which others, what was given a script names the thing it was
\* told of or nothing, a timer runs once and not after its end, and the combat objects of
\* the scripts are those they made (luascript.cpp:125-184, 227-302, 541-584, 4315-4377).
THEOREM ScriptsHoldAlways == ScriptSpec => []ScriptsHold
<1>1. ScriptInit => ScriptsInv
    BY ScriptsInitInv, ScriptsAssumption
<1>2. ScriptsInv /\ [ScriptNext]_scriptVars => ScriptsInv'
    BY ScriptsStep, ScriptsAssumption
<1>3. ScriptsInv => ScriptsHold
    <2>1. ScriptsInv => NamesExact
        BY NamesAreExact, ScriptsAssumption
    <2>2. ScriptsInv => TimersOnce
        BY DEF ScriptsInv, Timers, TimerRuns, TimersOnce
    <2>3. ScriptsInv => ObjectsKept
        BY DEF ScriptsInv, Objects
    <2> QED
        BY <2>1, <2>2, <2>3 DEF ScriptsHold
<1> QED
    BY <1>1, <1>2, <1>3, PTL DEF ScriptSpec

-----------------------------------------------------------------------------
(* Parties.                                                                *)

\* A living party has a leader.
LeaderThere == \A a \in live : leader[a] \in Player

IInv == TypeOK /\ PointerListed /\ LeaderThere

USE PartyAssumption DEF PartyId

-----------------------------------------------------------------------------
(* Sequences and the sets of their elements.                                *)

\* An element at a position is in the set.
LEMMA InToSet ==
  ASSUME NEW S, NEW s \in Seq(S), NEW i \in 1 .. Len(s)
  PROVE  s[i] \in ToSet(s)
BY LenProperties DEF ToSet

\* An element of the set is at a position.
LEMMA FromToSet ==
  ASSUME NEW S, NEW s \in Seq(S), NEW x \in ToSet(s)
  PROVE  \E i \in 1 .. Len(s) : x = s[i]
BY LenProperties DEF ToSet

\* A set of positions has a first one.
LEMMA MinOfPositions ==
  ASSUME NEW I \in SUBSET Nat, I # {}
  PROVE  Min(I) \in I
<1> DEFINE R == {ss \in Nat \X Nat : ss[1] < ss[2]}
<1>1. IsWellFoundedOn(R, Nat)
  BY NatLessThanWellFounded DEF OpToRel
<1>2. \E x \in I : \A y \in I : ~ (<<y, x>> \in R)
  <2> HIDE DEF R
  <2> QED
    BY <1>1, WFMin
<1>3. \E x \in I : \A y \in I : x =< y
  <2>1. PICK x \in I : \A y \in I : ~ (<<y, x>> \in R)
    BY <1>2
  <2>2. ASSUME NEW y \in I
        PROVE  x =< y
    <3>1. x \in Nat /\ y \in Nat
      OBVIOUS
    <3>2. ~ (y < x)
      BY <2>1, <3>1
    <3> QED
      BY <3>1, <3>2
  <2> QED
    BY <2>2
<1> HIDE DEF R
<1> QED
  BY ONLY <1>3, Zenon DEF Min

\* The positions of a sequence from which the k-th element is removed.
LEMMA RemoveAtPositions ==
  ASSUME NEW S, NEW s \in Seq(S), NEW k \in 1 .. Len(s)
  PROVE  /\ RemoveAt(s, k) \in Seq(S)
         /\ Len(RemoveAt(s, k)) = Len(s) - 1
         /\ \A i \in 1 .. Len(s) - 1 :
               RemoveAt(s, k)[i] = IF i < k THEN s[i] ELSE s[i + 1]
<1> DEFINE left == SubSeq(s, 1, k - 1)
           right == SubSeq(s, k + 1, Len(s))
<1>1. /\ left \in Seq(S)
      /\ Len(left) = k - 1
      /\ \A i \in 1 .. k - 1 : left[i] = s[i]
  OBVIOUS
<1>2. /\ right \in Seq(S)
      /\ Len(right) = Len(s) - k
      /\ \A i \in 1 .. Len(s) - k : right[i] = s[k + i]
  OBVIOUS
<1>3. RemoveAt(s, k) = left \o right
  BY DEF RemoveAt
<1> HIDE DEF left, right
<1>4. Len(s) \in Nat
  BY LenProperties
<1>5. /\ left \o right \in Seq(S)
      /\ Len(left \o right) = Len(left) + Len(right)
      /\ \A i \in 1 .. Len(left) + Len(right) :
            (left \o right)[i] = IF i <= Len(left) THEN left[i] ELSE right[i - Len(left)]
  BY <1>1, <1>2, ConcatProperties
<1> DEFINE rest == left \o right
<1> HIDE DEF rest
<1>6. /\ rest \in Seq(S)
      /\ Len(rest) = Len(s) - 1
      /\ \A i \in 1 .. Len(s) - 1 :
            rest[i] = IF i <= k - 1 THEN left[i] ELSE right[i - (k - 1)]
  BY <1>1, <1>2, <1>4, <1>5 DEF rest
<1>7. ASSUME NEW i \in 1 .. Len(s) - 1
      PROVE  rest[i] = IF i < k THEN s[i] ELSE s[i + 1]
  <2>1. CASE i < k
    BY <1>1, <1>4, <1>6, <2>1
  <2>2. CASE ~ (i < k)
    <3>1. /\ i - (k - 1) \in 1 .. Len(s) - k
          /\ k + (i - (k - 1)) = i + 1
          /\ ~ (i <= k - 1)
      BY <1>4, <2>2
    <3> QED
      BY <1>2, <1>6, <2>2, <3>1
  <2> QED
    BY <2>1, <2>2
<1> QED
  BY <1>3, <1>6, <1>7 DEF rest

\* What stays in a sequence when one element is removed from it.
LEMMA RemoveAtKeeps ==
  ASSUME NEW S, NEW s \in Seq(S), NEW k \in 1 .. Len(s),
         NEW i \in 1 .. Len(s), i # k
  PROVE  s[i] \in ToSet(RemoveAt(s, k))
<1> DEFINE rest == RemoveAt(s, k)
<1>1. /\ rest \in Seq(S)
      /\ Len(rest) = Len(s) - 1
      /\ \A j \in 1 .. Len(s) - 1 : rest[j] = IF j < k THEN s[j] ELSE s[j + 1]
  BY RemoveAtPositions
<1>2. Len(s) \in Nat
  BY LenProperties
<1> HIDE DEF rest
<1>3. \E j \in 1 .. Len(rest) : rest[j] = s[i]
  <2>1. CASE i < k
    BY <1>1, <1>2, <2>1
  <2>2. CASE i > k
    <3>1. i - 1 \in 1 .. Len(s) - 1 /\ ~ (i - 1 < k) /\ (i - 1) + 1 = i
      BY <1>2, <2>2
    <3> QED
      BY <1>1, <3>1
  <2>3. i < k \/ i > k
    OBVIOUS
  <2> QED
    BY <2>1, <2>2, <2>3
<1> QED
  BY <1>1, <1>3, InToSet DEF rest

\* RemoveFirst takes away at most occurrences of e.
LEMMA RemoveFirstKeeps ==
  ASSUME NEW S, NEW s \in Seq(S), NEW e
  PROVE  /\ RemoveFirst(s, e) \in Seq(S)
         /\ \A x \in ToSet(s) : x # e => x \in ToSet(RemoveFirst(s, e))
<1>1. CASE ~ \E i \in 1 .. Len(s) : s[i] = e
  BY <1>1 DEF RemoveFirst
<1>2. CASE \E i \in 1 .. Len(s) : s[i] = e
  <2> DEFINE I == {i \in 1 .. Len(s) : s[i] = e}
  <2>1. I \in SUBSET Nat /\ I # {}
    BY <1>2
  <2>2. RemoveFirst(s, e) = RemoveAt(s, Min(I))
    BY <1>2, <2>1, Zenon DEF RemoveFirst, SelectInSeq
  <2>3. Min(I) \in 1 .. Len(s) /\ s[Min(I)] = e
    BY <2>1, MinOfPositions
  <2> HIDE DEF I
  <2>4. RemoveAt(s, Min(I)) \in Seq(S)
    BY <2>3, RemoveAtPositions
  <2>5. ASSUME NEW x \in ToSet(s), x # e
        PROVE  x \in ToSet(RemoveAt(s, Min(I)))
    <3>1. PICK i \in 1 .. Len(s) : x = s[i]
      BY FromToSet
    <3> QED
      BY <2>3, <2>5, <3>1, RemoveAtKeeps
  <2> QED
    BY <2>2, <2>4, <2>5
<1> QED
  BY <1>1, <1>2

\* A sequence is its first element and the rest.
LEMMA HeadOrTail ==
  ASSUME NEW S, NEW s \in Seq(S), s # <<>>
  PROVE  /\ s[1] \in S
         /\ Tail(s) \in Seq(S)
         /\ \A x \in ToSet(s) : x = s[1] \/ x \in ToSet(Tail(s))
<1>1. Len(s) \in Nat \ {0}
  BY EmptySeq
<1>2. s[1] \in S
  BY <1>1, ElementOfSeq
<1> DEFINE rest == Tail(s)
<1>3. /\ rest \in Seq(S)
      /\ Len(rest) = Len(s) - 1
      /\ \A i \in 1 .. Len(rest) : rest[i] = s[i + 1]
  BY HeadTailProperties
<1> HIDE DEF rest
<1>4. ASSUME NEW i \in 1 .. Len(s), i # 1
      PROVE  s[i] \in ToSet(rest)
  <2>1. i - 1 \in 1 .. Len(rest) /\ (i - 1) + 1 = i
    BY <1>1, <1>3, <1>4
  <2>2. rest[i - 1] = s[i]
    BY <1>3, <2>1
  <2> QED
    BY <1>3, <2>1, <2>2, InToSet
<1>5. ASSUME NEW x \in ToSet(s)
      PROVE  x = s[1] \/ x \in ToSet(rest)
  BY <1>4, FromToSet
<1> QED
  BY <1>2, <1>3, <1>5 DEF rest

\* An element put in front of a sequence.
LEMMA Prefixed ==
  ASSUME NEW S, NEW s \in Seq(S), NEW e \in S
  PROVE  /\ <<e>> \o s \in Seq(S)
         /\ e \in ToSet(<<e>> \o s)
         /\ \A x \in ToSet(s) : x \in ToSet(<<e>> \o s)
<1>1. <<e>> \in Seq(S) /\ Len(<<e>>) = 1 /\ <<e>>[1] = e
  OBVIOUS
<1>2. Len(s) \in Nat
  BY LenProperties
<1> DEFINE t == <<e>> \o s
<1>3. /\ t \in Seq(S)
      /\ Len(t) = 1 + Len(s)
      /\ \A i \in 1 .. 1 + Len(s) : t[i] = IF i <= 1 THEN <<e>>[i] ELSE s[i - 1]
  BY <1>1, ConcatProperties
<1> HIDE DEF t
<1>4. ASSUME NEW i \in 1 .. Len(s)
      PROVE  s[i] \in ToSet(t)
  <2>1. i + 1 \in 1 .. Len(t) /\ ~ (i + 1 <= 1) /\ (i + 1) - 1 = i
    BY <1>2, <1>3
  <2>2. t[i + 1] = s[i]
    BY <1>3, <2>1
  <2> QED
    BY <1>3, <2>1, <2>2, InToSet
<1>5. e \in ToSet(t)
  <2>1. 1 \in 1 .. Len(t) /\ t[1] = e
    BY <1>1, <1>2, <1>3
  <2> QED
    BY <1>3, <2>1, InToSet
<1>6. ASSUME NEW x \in ToSet(s)
      PROVE  x \in ToSet(t)
  BY <1>4, FromToSet
<1> QED
  BY <1>3, <1>5, <1>6 DEF t

\* An element put behind a sequence.
LEMMA Appended ==
  ASSUME NEW S, NEW s \in Seq(S), NEW e \in S
  PROVE  /\ Append(s, e) \in Seq(S)
         /\ e \in ToSet(Append(s, e))
         /\ \A x \in ToSet(s) : x \in ToSet(Append(s, e))
<1> DEFINE t == Append(s, e)
<1>1. /\ t \in Seq(S)
      /\ Len(t) = Len(s) + 1
      /\ t[Len(s) + 1] = e
      /\ \A i \in 1 .. Len(s) : t[i] = s[i]
  OBVIOUS
<1>2. Len(s) \in Nat
  BY LenProperties
<1> HIDE DEF t
<1>3. e \in ToSet(t)
  BY <1>1, <1>2, InToSet
<1>4. ASSUME NEW i \in 1 .. Len(s)
      PROVE  s[i] \in ToSet(t)
  <2>1. i \in 1 .. Len(t) /\ t[i] = s[i]
    BY <1>1, <1>2
  <2> QED
    BY <1>1, <2>1, InToSet
<1>5. ASSUME NEW x \in ToSet(s)
      PROVE  x \in ToSet(t)
  BY <1>4, FromToSet
<1> QED
  BY <1>1, <1>3, <1>5 DEF t

-----------------------------------------------------------------------------
(* The parties.                                                             *)

\* The part of IInv that speaks of parties.
PartyInv ==
    /\ live \subseteq 1 .. created
    /\ party \in [Player -> PartyId \cup {None}]
    /\ leader \in [PartyId -> Player \cup {None}]
    /\ members \in [PartyId -> Seq(Player)]
    /\ invited \in [PartyId -> [Player -> Nat]]
    /\ PointerListed
    /\ LeaderThere

\* The end of a party in which nobody is left but l, m and players who point
\* elsewhere.
LEMMA DisbandPartyInv ==
  ASSUME IInv, created' = created,
         NEW a \in live, NEW r \in [Player -> PartyId \cup {None}],
         NEW l \in Player, NEW m \in Seq(Player),
         Disband(a, r, l, m),
         \A p \in Player : r[p] \in {party[p], None},
         \A p \in Player : r[p] = a => p = l \/ p \in ToSet(m)
  PROVE  PartyInv'
<1> USE DEF IInv, TypeOK
<1>1. a \in PartyId /\ created \in Nat
  OBVIOUS
<1>3. party' \in [Player -> PartyId \cup {None}]
  BY Zenon DEF Disband
<1>4. \A p \in Player : party'[p] # None => party'[p] = party[p] /\ party'[p] # a
  BY DEF Disband
<1>5. \A b \in PartyId : b # a => leader'[b] = leader[b] /\ members'[b] = members[b]
  BY DEF Disband
<1>6. PointerListed'
  BY <1>3, <1>4, <1>5, <1>1 DEF PointerListed, Disband
<1>7. LeaderThere'
  BY <1>5, <1>1 DEF LeaderThere, Disband
<1>8. /\ live' \subseteq 1 .. created'
      /\ leader' \in [PartyId -> Player \cup {None}]
  BY DEF Disband
<1>9. members' \in [PartyId -> Seq(Player)]
  BY EmptySeq DEF Disband
<1>10. invited' \in [PartyId -> [Player -> Nat]]
  BY DEF Disband, Nobody
<1> QED
  BY <1>3, <1>6, <1>7, <1>8, <1>9, <1>10 DEF PartyInv

\* The party a itself changes, and only q's pointer is reset: the others who
\* point to a are still listed.
LEMMA ChangePartyInv ==
  ASSUME IInv, created' = created, UNCHANGED live,
         NEW a \in live, NEW lead \in Player, NEW m \in Seq(Player),
         NEW inv \in [Player -> Nat],
         leader' = [leader EXCEPT ![a] = lead],
         members' = [members EXCEPT ![a] = m],
         invited' = [invited EXCEPT ![a] = inv],
         party' \in [Player -> PartyId \cup {None}],
         \A p \in Player : party'[p] \in {party[p], None},
         \A p \in Player : party'[p] = a => p = lead \/ p \in ToSet(m)
  PROVE  PartyInv'
<1> USE DEF IInv, TypeOK
<1>1. a \in PartyId /\ created \in Nat
  OBVIOUS
<1>3. \A b \in PartyId :
         IF b = a THEN leader'[b] = lead /\ members'[b] = m
         ELSE leader'[b] = leader[b] /\ members'[b] = members[b]
  BY <1>1
<1>4. PointerListed'
  BY <1>1, <1>3 DEF PointerListed
<1>5. LeaderThere'
  BY <1>1, <1>3 DEF LeaderThere
<1>6. live' \subseteq 1 .. created' /\ leader' \in [PartyId -> Player \cup {None}]
  BY <1>1
<1>7. members' \in [PartyId -> Seq(Player)]
  BY <1>1
<1>8. invited' \in [PartyId -> [Player -> Nat]]
  BY <1>1
<1> QED
  BY <1>4, <1>5, <1>6, <1>7, <1>8 DEF PartyInv

\* What IInv says of one living party.
LEMMA Listed ==
  ASSUME IInv, NEW a \in live
  PROVE  /\ a \in PartyId
         /\ members[a] \in Seq(Player)
         /\ leader[a] \in Player
         /\ invited[a] \in [Player -> Nat]
         /\ party \in [Player -> PartyId \cup {None}]
         /\ \A p \in Player : party[p] = a => p = leader[a] \/ p \in ToSet(members[a])
<1>1. a \in PartyId
  BY DEF IInv, TypeOK
<1>2. a # None
  BY <1>1
<1>3. /\ leader[a] \in Player
      /\ \A p \in Player : party[p] = a => p = leader[a] \/ p \in ToSet(members[a])
  BY <1>2, Zenon DEF IInv, PointerListed, LeaderThere
<1> QED
  BY <1>1, <1>3 DEF IInv, TypeOK

\* Nothing changes in the parties.
LEMMA SamePartyInv ==
  ASSUME IInv, created' = created, UNCHANGED partyVars
  PROVE  PartyInv'
BY DEF IInv, TypeOK, PartyInv, PointerListed, LeaderThere, partyVars

\* Party::kickPlayer.
LEMMA KickPlayerPartyInv ==
  ASSUME IInv, created' = created, NEW a \in live, NEW q \in Player, KickPlayer(a, q)
  PROVE  PartyInv'
<1> DEFINE m == members[a]
           passes == q = leader[a] /\ m # <<>> /\ party[m[1]] = a
           lead == IF passes THEN m[1] ELSE leader[a]
           rest == IF passes THEN <<q>> \o Tail(m) ELSE m
           inv == IF passes THEN Nobody ELSE invited[a]
           left == RemoveFirst(rest, q)
           alone == [party EXCEPT ![q] = None]
<1>1. /\ a \in PartyId
      /\ m \in Seq(Player)
      /\ leader[a] \in Player
      /\ invited[a] \in [Player -> Nat]
      /\ party \in [Player -> PartyId \cup {None}]
      /\ \A p \in Player : party[p] = a => p = leader[a] \/ p \in ToSet(m)
  BY Listed
<1>2. /\ rest \in Seq(Player)
      /\ lead \in Player
      /\ \A p \in Player : party[p] = a /\ p # q => p = lead \/ p \in ToSet(rest)
  <2>1. CASE passes
    <3>1. /\ m[1] \in Player
          /\ Tail(m) \in Seq(Player)
          /\ \A x \in ToSet(m) : x = m[1] \/ x \in ToSet(Tail(m))
      BY <1>1, <2>1, HeadOrTail
    <3>2. /\ <<q>> \o Tail(m) \in Seq(Player)
          /\ \A x \in ToSet(Tail(m)) : x \in ToSet(<<q>> \o Tail(m))
      BY <3>1, Prefixed
    <3>3. lead = m[1] /\ rest = <<q>> \o Tail(m) /\ q = leader[a]
      BY <2>1
    <3> HIDE DEF m, passes, lead, rest
    <3> QED
      BY <1>1, <3>1, <3>2, <3>3
  <2>2. CASE ~ passes
    BY <1>1, <2>2
  <2> QED
    BY <2>1, <2>2
<1>3. inv \in [Player -> Nat]
  BY <1>1 DEF Nobody
<1>4. \/ m = <<>> /\ q = leader[a] /\ Disband(a, party, q, <<>>)
      \/ UNCHANGED partyVars
      \/ left = <<>> /\ Disband(a, alone, lead, <<>>)
      \/ /\ party' = alone
         /\ leader' = [leader EXCEPT ![a] = lead]
         /\ members' = [members EXCEPT ![a] = left]
         /\ invited' = [invited EXCEPT ![a] = inv]
         /\ UNCHANGED live
  BY Zenon DEF KickPlayer
<1> HIDE DEF m, lead, rest, inv, passes, left, alone
<1>5. left \in Seq(Player) /\ \A x \in ToSet(rest) : x # q => x \in ToSet(left)
  BY <1>2, RemoveFirstKeeps DEF left
<1>6. \A p \in Player : alone[p] = a => p = lead \/ p \in ToSet(left)
  <2> SUFFICES ASSUME NEW p \in Player, alone[p] = a
               PROVE  p = lead \/ p \in ToSet(left)
    OBVIOUS
  <2>1. party[p] = a /\ p # q
    BY <1>1 DEF alone, IInv, TypeOK
  <2> QED
    BY <1>2, <1>5, <2>1
<1>7. /\ alone \in [Player -> PartyId \cup {None}]
       /\ \A p \in Player : alone[p] \in {party[p], None}
  BY <1>1 DEF alone
<1>8. CASE m = <<>> /\ q = leader[a] /\ Disband(a, party, q, <<>>)
  <2> DEFINE r == party
  <2>1. /\ r \in [Player -> PartyId \cup {None}]
        /\ \A p \in Player : r[p] \in {party[p], None}
        /\ \A p \in Player : r[p] = a => p = q \/ p \in ToSet(m)
        /\ Disband(a, r, q, m)
    BY <1>1, <1>8
  <2> HIDE DEF r
  <2> QED
    BY <1>1, <2>1, DisbandPartyInv
<1>9. CASE left = <<>> /\ Disband(a, alone, lead, <<>>)
  <2>1. Disband(a, alone, lead, left)
    BY <1>9
  <2> QED
    BY <1>2, <1>5, <1>6, <1>7, <2>1, DisbandPartyInv
<1>10. CASE /\ party' = alone
           /\ leader' = [leader EXCEPT ![a] = lead]
           /\ members' = [members EXCEPT ![a] = left]
           /\ invited' = [invited EXCEPT ![a] = inv]
           /\ UNCHANGED live
  BY <1>2, <1>3, <1>5, <1>6, <1>10, <1>7, ChangePartyInv
<1>11. CASE UNCHANGED partyVars
  BY <1>11, SamePartyInv
<1> QED
  BY <1>4, <1>8, <1>9, <1>10, <1>11

\* A call that is made on a party is made on a living one.
LEMMA OnLive ==
  ASSUME NEW p \in Player, NEW op, NEW a \in PartyId, NEW t,
         Calls(p, op, a, t), Sound(p)
  PROVE  a \in live
BY DEF Calls, Sound

LEMMA CreatePartyInv ==
  ASSUME IInv, NEW p \in Player, NEW t \in Player, CreateParty(p, t)
  PROVE  PartyInv'
<1> USE DEF IInv, TypeOK
<1>1. CASE UNCHANGED <<created, partyVars>>
  BY <1>1, SamePartyInv
<1>2. CASE ~ UNCHANGED <<created, partyVars>>
  <2> DEFINE n == created + 1
  <2>1. /\ n \in PartyId /\ n \notin live
        /\ created' = n
        /\ live' = live \cup {n}
        /\ party' = [party EXCEPT ![p] = n]
        /\ leader' = [leader EXCEPT ![n] = p]
        /\ invited' = [invited EXCEPT ![n] = [Nobody EXCEPT ![t] = IF t = p THEN 0 ELSE 1]]
        /\ members' = members
    <3>1. /\ created < MaxParty
          /\ created' = created + 1
          /\ live' = live \cup {created'}
          /\ party' = [party EXCEPT ![p] = created']
          /\ leader' = [leader EXCEPT ![created'] = p]
          /\ invited' = [invited EXCEPT ![created'] = [Nobody EXCEPT ![t] = IF t = p THEN 0 ELSE 1]]
          /\ members' = members
      BY <1>2, Zenon DEF CreateParty
    <3>2. n \in PartyId /\ n \notin live
      BY <3>1
    <3> QED
      BY <3>1, <3>2
  <2>2. live' \subseteq 1 .. created'
    BY <2>1
  <2>3. party' \in [Player -> PartyId \cup {None}] /\ leader' \in [PartyId -> Player \cup {None}]
    BY <2>1
  <2>4. invited' \in [PartyId -> [Player -> Nat]]
    BY <2>1 DEF Nobody
  <2>5. \A x \in Player : party'[x] = IF x = p THEN n ELSE party[x]
    BY <2>1
  <2>6. \A b \in PartyId : leader'[b] = IF b = n THEN p ELSE leader[b]
    BY <2>1
  <2> HIDE DEF n
  <2>7. PointerListed'
    <3> SUFFICES ASSUME NEW x \in Player, party'[x] # None
                 PROVE  /\ party'[x] \in live'
                        /\ leader'[party'[x]] = x \/ x \in ToSet(members'[party'[x]])
      BY Zenon DEF PointerListed
    <3>1. CASE x = p
      BY <2>1, <2>5, <2>6, <3>1
    <3>2. CASE x # p
      <4>1. party'[x] = party[x] /\ party[x] \in live
        BY <2>5, <3>2 DEF PointerListed
      <4>2. leader'[party[x]] = leader[party[x]]
        BY <2>1, <2>6, <4>1
      <4> QED
        BY <2>1, <4>1, <4>2 DEF PointerListed
    <3> QED
      BY <3>1, <3>2
  <2>8. LeaderThere'
    BY <2>1, <2>6 DEF LeaderThere
  <2> QED
    BY <2>1, <2>2, <2>3, <2>4, <2>7, <2>8 DEF PartyInv
<1> QED
  BY <1>1, <1>2

LEMMA InvitePlayerPartyInv ==
  ASSUME IInv, NEW p \in Player, NEW a \in PartyId, NEW t \in Player, InvitePlayer(p, a, t)
  PROVE  PartyInv'
<1>1. invited' \in [PartyId -> [Player -> Nat]]
  <2>1. CASE invited' = [invited EXCEPT ![a][t] = @ + 1]
    <3>1. invited[a] \in [Player -> Nat] /\ invited[a][t] + 1 \in Nat
      BY DEF IInv, TypeOK
    <3> QED
      BY <2>1, <3>1 DEF IInv, TypeOK
  <2> QED
    BY <2>1 DEF InvitePlayer, IInv, TypeOK
<1> QED
  BY <1>1 DEF InvitePlayer, IInv, TypeOK, PartyInv, PointerListed, LeaderThere

LEMMA RevokeInvitationPartyInv ==
  ASSUME IInv, NEW p \in Player, NEW a \in PartyId, NEW t \in Player, RevokeInvitation(p, a, t)
  PROVE  PartyInv'
<1>1. a \in live /\ created' = created
  BY OnLive DEF RevokeInvitation
<1>2. CASE UNCHANGED partyVars
  BY <1>1, <1>2, SamePartyInv
<1>3. CASE members[a] = <<>> /\ Disband(a, party, leader[a], <<>>)
  BY <1>1, <1>3, Listed, DisbandPartyInv
<1>4. CASE /\ t \in Invited(a)
           /\ invited' = [invited EXCEPT ![a] = [invited[a] EXCEPT ![t] = @ - 1]]
           /\ UNCHANGED <<live, party, leader, members>>
  <2>1. invited[a][t] - 1 \in Nat
    BY <1>4 DEF Invited, IInv, TypeOK
  <2>2. invited' \in [PartyId -> [Player -> Nat]]
    BY <1>4, <2>1 DEF IInv, TypeOK
  <2> QED
    BY <1>1, <1>4, <2>2 DEF IInv, TypeOK, PartyInv, PointerListed, LeaderThere
<1> QED
  BY <1>2, <1>3, <1>4, Zenon DEF RevokeInvitation

LEMMA AcceptInvitationPartyInv ==
  ASSUME IInv, NEW p \in Player, NEW a \in PartyId, NEW t \in Player, AcceptInvitation(p, a, t)
  PROVE  PartyInv'
<1> USE DEF IInv, TypeOK
<1>1. a \in live /\ created' = created
  BY OnLive DEF AcceptInvitation
<1>2. CASE UNCHANGED partyVars
  BY <1>1, <1>2, SamePartyInv
<1>3. CASE ~ UNCHANGED partyVars
  <2>1. /\ p \in Invited(a)
        /\ invited' = [invited EXCEPT ![a][p] = @ - 1]
        /\ members' = [members EXCEPT ![a] = Append(@, p)]
        /\ party' = [party EXCEPT ![p] = a]
        /\ UNCHANGED <<live, leader>>
    BY <1>3, Zenon DEF AcceptInvitation
  <2>2. invited' \in [PartyId -> [Player -> Nat]]
    <3>1. invited[a] \in [Player -> Nat] /\ invited[a][p] - 1 \in Nat
      BY <2>1 DEF Invited
    <3> QED
      BY <2>1, <3>1
  <2>3. /\ Append(members[a], p) \in Seq(Player)
        /\ p \in ToSet(Append(members[a], p))
        /\ \A x \in ToSet(members[a]) : x \in ToSet(Append(members[a], p))
    BY Appended
  <2> DEFINE m == Append(members[a], p)
  <2> HIDE DEF m
  <2>4. members' = [members EXCEPT ![a] = m]
    BY <2>1 DEF m
  <2>5. /\ members' \in [PartyId -> Seq(Player)]
        /\ \A b \in PartyId : members'[b] = IF b = a THEN m ELSE members[b]
    BY <2>3, <2>4 DEF m
  <2>6. /\ party' \in [Player -> PartyId \cup {None}]
        /\ \A x \in Player : party'[x] = IF x = p THEN a ELSE party[x]
    BY <2>1
  <2>7. PointerListed'
    <3> SUFFICES ASSUME NEW x \in Player, party'[x] # None
                 PROVE  /\ party'[x] \in live'
                        /\ leader'[party'[x]] = x \/ x \in ToSet(members'[party'[x]])
      BY Zenon DEF PointerListed
    <3>1. CASE x = p
      BY <1>1, <2>1, <2>3, <2>5, <2>6, <3>1 DEF m
    <3>2. CASE x # p
      <4>1. /\ party'[x] = party[x] /\ party[x] \in live
            /\ leader[party[x]] = x \/ x \in ToSet(members[party[x]])
        BY <2>6, <3>2 DEF PointerListed
      <4> QED
        BY <2>1, <2>3, <2>5, <4>1 DEF m
    <3> QED
      BY <3>1, <3>2
  <2> QED
    BY <1>1, <2>1, <2>2, <2>5, <2>6, <2>7 DEF PartyInv, LeaderThere
<1> QED
  BY <1>2, <1>3

LEMMA PassLeadershipPartyInv ==
  ASSUME IInv, NEW p \in Player, NEW a \in PartyId, NEW t \in Player, PassLeadership(p, a, t)
  PROVE  PartyInv'
<1>1. a \in live /\ created' = created
  BY OnLive DEF PassLeadership
<1>2. CASE UNCHANGED partyVars
  BY <1>1, <1>2, SamePartyInv
<1>3. CASE ~ UNCHANGED partyVars
  <2> DEFINE others == RemoveFirst(members[a], t)
             m == <<leader[a]>> \o others
  <2>1. /\ leader' = [leader EXCEPT ![a] = t]
        /\ members' = [members EXCEPT ![a] = m]
        /\ invited' = [invited EXCEPT ![a] = Nobody]
        /\ UNCHANGED <<live, party>>
    BY <1>3, Zenon DEF PassLeadership
  <2>2. /\ members[a] \in Seq(Player)
        /\ leader[a] \in Player
        /\ party \in [Player -> PartyId \cup {None}]
        /\ \A x \in Player : party[x] = a => x = leader[a] \/ x \in ToSet(members[a])
    BY <1>1, Listed
  <2>3. others \in Seq(Player) /\ \A x \in ToSet(members[a]) : x # t => x \in ToSet(others)
    BY <2>2, RemoveFirstKeeps
  <2> HIDE DEF others
  <2>4. /\ m \in Seq(Player)
        /\ leader[a] \in ToSet(m)
        /\ \A x \in ToSet(others) : x \in ToSet(m)
    BY <2>2, <2>3, Prefixed
  <2> HIDE DEF m
  <2>5. \A x \in Player : party'[x] = a => x = t \/ x \in ToSet(m)
    BY <2>1, <2>2, <2>3, <2>4
  <2>6. /\ party' \in [Player -> PartyId \cup {None}]
        /\ \A x \in Player : party'[x] \in {party[x], None}
        /\ UNCHANGED live
    BY <2>1, <2>2
  <2>7. Nobody \in [Player -> Nat]
    BY DEF Nobody
  <2> QED
    BY <1>1, <2>1, <2>4, <2>5, <2>6, <2>7, ChangePartyInv
<1> QED
  BY <1>2, <1>3

LEMMA LeavePartyPartyInv ==
  ASSUME IInv, NEW p \in Player, NEW a \in PartyId, LeaveParty(p, a)
  PROVE  PartyInv'
<1>1. a \in live /\ created' = created /\ KickPlayer(a, p)
  BY OnLive DEF LeaveParty
<1> QED
  BY <1>1, KickPlayerPartyInv

\* A player without a party leaves the game: its invitations are revoked.
LEMMA RemoveCreaturePartyInv ==
  ASSUME IInv, NEW q \in Player, RemoveCreature(q)
  PROVE  PartyInv'
<1> USE DEF IInv, TypeOK
<1>1. created' = created
  BY DEF RemoveCreature
<1>2. CASE party[q] # None /\ KickPlayer(party[q], q)
  <2>1. party[q] \in live
    BY <1>2 DEF PointerListed
  <2> QED
    BY <1>1, <1>2, <2>1, KickPlayerPartyInv
<1>3. CASE ~ (party[q] # None /\ KickPlayer(party[q], q))
  <2>1. PICK ended \in SUBSET live :
           /\ \A a \in ended : members[a] = <<>>
           /\ live' = live \ ended
           /\ party' = [x \in Player |->
                           IF \E a \in ended : leader[a] = x THEN None ELSE party[x]]
           /\ leader' = [a \in PartyId |-> IF a \in ended THEN None ELSE leader[a]]
    <3> DEFINE E == {a \in live : /\ members[a] = <<>>
                                  /\ invited[a] # Nobody
                                  /\ Revoked(a, q) = Nobody}
    <3>1. /\ live' = live \ E
          /\ party' = [x \in Player |->
                          IF \E a \in E : leader[a] = x THEN None ELSE party[x]]
          /\ leader' = [a \in PartyId |-> IF a \in E THEN None ELSE leader[a]]
      BY <1>3, Zenon DEF RemoveCreature
    <3>2. E \in SUBSET live /\ \A a \in E : members[a] = <<>>
      OBVIOUS
    <3> HIDE DEF E
    <3> QED
      BY <3>1, <3>2
  <2>2. /\ invited' = [a \in PartyId |-> Revoked(a, q)]
        /\ members' = members
    BY <1>3, Zenon DEF RemoveCreature
  <2>3. \A a \in PartyId : Revoked(a, q) \in [Player -> Nat]
    <3> TAKE a \in PartyId
    <3> DEFINE revokers == Cardinality({x \in listed \ {q} : party[x] = a})
    <3>1. revokers \in Nat
      BY FS_Subset, FS_CardinalityType
    <3> HIDE DEF revokers
    <3>2. invited[a] \in [Player -> Nat]
      OBVIOUS
    <3>3. Revoked(a, q) = [invited[a] EXCEPT ![q] = IF @ > revokers THEN @ - revokers ELSE 0]
      BY Zenon DEF Revoked, revokers
    <3> QED
      BY <3>1, <3>2, <3>3
  <2>4. invited' \in [PartyId -> [Player -> Nat]]
    BY <2>2, <2>3
  <2>5. /\ live' \subseteq 1 .. created'
        /\ party' \in [Player -> PartyId \cup {None}]
        /\ leader' \in [PartyId -> Player \cup {None}]
        /\ members' \in [PartyId -> Seq(Player)]
    BY <1>1, <2>1, <2>2
  <2>6. PointerListed'
    <3> SUFFICES ASSUME NEW x \in Player, party'[x] # None
                 PROVE  /\ party'[x] \in live'
                        /\ leader'[party'[x]] = x \/ x \in ToSet(members'[party'[x]])
      BY Zenon DEF PointerListed
    <3> DEFINE b == party[x]
    <3>1. party'[x] = b /\ ~ \E a \in ended : leader[a] = x
      BY <2>1
    <3>2. /\ b \in live
          /\ leader[b] = x \/ x \in ToSet(members[b])
      BY <3>1 DEF PointerListed
    <3>3. b \notin ended
      <4>1. ToSet(<<>>) = {}
        BY DEF ToSet
      <4> QED
        BY <2>1, <3>1, <3>2, <4>1
    <3>4. b \in live' /\ leader'[b] = leader[b]
      BY <2>1, <3>2, <3>3
    <3> QED
      BY <2>2, <3>1, <3>2, <3>4
  <2>7. LeaderThere'
    BY <2>1 DEF LeaderThere
  <2> QED
    BY <2>4, <2>5, <2>6, <2>7 DEF PartyInv
<1> QED
  BY <1>2, <1>3

-----------------------------------------------------------------------------
(* The specification.                                                       *)

\* The variables that are not part of a party.
RestOK ==
    /\ listed \subseteq Player
    /\ freed \subseteq Player
    /\ created \in 0 .. MaxParty
    /\ call \in [Player -> Call \cup {NoCall}]
    /\ broken \in BOOLEAN

LEMMA IInvParts == (RestOK /\ PartyInv => IInv) /\ (RestOK' /\ PartyInv' => IInv')
BY DEF RestOK, PartyInv, IInv, TypeOK

LEMMA InitIInv == Init => IInv
<1> SUFFICES ASSUME Init PROVE IInv
  OBVIOUS
<1>1. <<>> \in Seq(Player)
  OBVIOUS
<1>2. RestOK
  <2>1. call \in [Player -> Call \cup {NoCall}]
    BY Zenon DEF Init
  <2>2. created \in 0 .. MaxParty
    BY DEF Init
  <2> QED
    BY <2>1, <2>2, Zenon DEF Init, RestOK
<1>3. PartyInv
  <2>1. live \subseteq 1 .. created /\ PointerListed /\ LeaderThere
    BY DEF Init, PointerListed, LeaderThere
  <2>2. /\ party \in [Player -> PartyId \cup {None}]
        /\ leader \in [PartyId -> Player \cup {None}]
    BY DEF Init
  <2>3. members \in [PartyId -> Seq(Player)]
    BY <1>1 DEF Init
  <2>4. invited \in [PartyId -> [Player -> Nat]]
    BY DEF Init, Nobody
  <2> QED
    BY <2>1, <2>2, <2>3, <2>4 DEF PartyInv
<1> QED
  BY <1>2, <1>3, IInvParts

\* A handler that has looked things up.
LEMMA PrepareIInv ==
  ASSUME IInv, NEW p \in Player, NEW op \in Method, NEW a \in PartyId \cup {None},
         NEW t \in Player, Prepare(p, op, a, t)
  PROVE  IInv'
<1>1. [op |-> op, on |-> a, target |-> t] \in Call
  BY DEF Call
<1> HIDE DEF PartyId
<1>2. RestOK'
  BY <1>1 DEF Prepare, IInv, TypeOK, RestOK
<1>3. PartyInv'
  BY SamePartyInv DEF Prepare
<1> QED
  BY <1>2, <1>3, IInvParts

LEMMA PacketIInv ==
  ASSUME IInv, NEW p \in Player, Packet(p)
  PROVE  IInv'
<1>1. \E op \in Method, a \in PartyId \cup {None}, t \in Player : Prepare(p, op, a, t)
  <2>1. /\ None \in PartyId \cup {None}
        /\ \A t \in Player : party[t] \in PartyId \cup {None}
    BY DEF IInv, TypeOK
  <2> HIDE DEF PartyId
  <2>2. ASSUME NEW t \in Player, ParseInviteParty(p, t)
        PROVE  \E op \in Method, a \in PartyId \cup {None} : Prepare(p, op, a, t)
    BY <2>1, <2>2, Zenon DEF ParseInviteParty, Method
  <2>3. ASSUME NEW t \in Player, ParseRevokeParty(p, t)
        PROVE  \E op \in Method, a \in PartyId \cup {None} : Prepare(p, op, a, t)
    BY <2>1, <2>3, Zenon DEF ParseRevokeParty, Method
  <2>4. ASSUME NEW t \in Player, ParseJoinParty(p, t)
        PROVE  \E op \in Method, a \in PartyId \cup {None} : Prepare(p, op, a, t)
    BY <2>1, <2>4, Zenon DEF ParseJoinParty, Method
  <2>5. ASSUME NEW t \in Player, ParsePassLeadership(p, t)
        PROVE  \E op \in Method, a \in PartyId \cup {None} : Prepare(p, op, a, t)
    BY <2>1, <2>5, Zenon DEF ParsePassLeadership, Method
  <2>6. ASSUME ParseLeaveParty(p)
        PROVE  \E op \in Method, a \in PartyId \cup {None} : Prepare(p, op, a, p)
    BY <2>1, <2>6, Zenon DEF ParseLeaveParty, Method
  <2> QED
    BY <2>2, <2>3, <2>4, <2>5, <2>6, Zenon DEF Packet
<1> QED
  BY <1>1, PrepareIInv

\* The call of a method ends, and changes nothing but the parties.
LEMMA ReturnsIInv ==
  ASSUME IInv, NEW p \in Player, Returns(p), created' \in 0 .. MaxParty, PartyInv'
  PROVE  IInv'
<1>1. RestOK'
  BY DEF Returns, IInv, TypeOK, RestOK
<1> QED
  BY <1>1, IInvParts

\* Undefined behaviour leaves the last state as it is.
LEMMA BrokenIInv ==
  ASSUME IInv, broken' = TRUE, UNCHANGED <<listed, freed, created, partyVars, call>>
  PROVE  IInv'
<1>1. RestOK'
  BY DEF IInv, TypeOK, RestOK
<1>2. PartyInv'
  BY SamePartyInv
<1> QED
  BY <1>1, <1>2, IInvParts

LEMMA ExecuteIInv ==
  ASSUME IInv, NEW p \in Player, Execute(p)
  PROVE  IInv'
<1>0. created \in 0 .. MaxParty
  BY DEF IInv, TypeOK
<1>1. CASE Break(p)
  BY <1>1, BrokenIInv DEF Break
<1>2. ASSUME NEW t \in Player, CreateParty(p, t)
      PROVE  IInv'
  <2>1. created' \in 0 .. MaxParty
    BY <1>0, <1>2 DEF CreateParty
  <2> QED
    BY <1>2, <2>1, CreatePartyInv, ReturnsIInv DEF CreateParty
<1>3. ASSUME NEW a \in PartyId, LeaveParty(p, a)
      PROVE  IInv'
  BY <1>0, <1>3, LeavePartyPartyInv, ReturnsIInv DEF LeaveParty
<1>4. ASSUME NEW a \in PartyId, NEW t \in Player, InvitePlayer(p, a, t)
      PROVE  IInv'
  BY <1>0, <1>4, InvitePlayerPartyInv, ReturnsIInv DEF InvitePlayer
<1>5. ASSUME NEW a \in PartyId, NEW t \in Player, RevokeInvitation(p, a, t)
      PROVE  IInv'
  BY <1>0, <1>5, RevokeInvitationPartyInv, ReturnsIInv DEF RevokeInvitation
<1>6. ASSUME NEW a \in PartyId, NEW t \in Player, AcceptInvitation(p, a, t)
      PROVE  IInv'
  BY <1>0, <1>6, AcceptInvitationPartyInv, ReturnsIInv DEF AcceptInvitation
<1>7. ASSUME NEW a \in PartyId, NEW t \in Player, PassLeadership(p, a, t)
      PROVE  IInv'
  BY <1>0, <1>7, PassLeadershipPartyInv, ReturnsIInv DEF PassLeadership
<1>8. ASSUME NEW a \in PartyId, NEW t \in Player, PassToLeader(p, a, t)
      PROVE  IInv'
  BY <1>8, BrokenIInv DEF PassToLeader
<1> HIDE DEF PartyId
<1> QED
  BY <1>1, <1>2, <1>3, <1>4, <1>5, <1>6, <1>7, <1>8, Zenon DEF Execute

LEMMA EndIInv ==
  ASSUME IInv, NEW q \in Player,
         RemoveCreature(q) \/ RemoveBreaks(q) \/ FreePlayer(q)
  PROVE  IInv'
<1>1. CASE RemoveCreature(q)
  <2>1. RestOK'
    BY <1>1 DEF RemoveCreature, IInv, TypeOK, RestOK
  <2> QED
    BY <1>1, <2>1, RemoveCreaturePartyInv, IInvParts
<1>2. CASE RemoveBreaks(q)
  BY <1>2, BrokenIInv DEF RemoveBreaks
<1>3. CASE FreePlayer(q)
  <2>1. RestOK'
    BY <1>3 DEF FreePlayer, IInv, TypeOK, RestOK
  <2>2. PartyInv'
    BY <1>3, SamePartyInv DEF FreePlayer
  <2> QED
    BY <2>1, <2>2, IInvParts
<1> QED
  BY <1>1, <1>2, <1>3

LEMMA StutterIInv ==
  ASSUME IInv, UNCHANGED vars
  PROVE  IInv'
<1>1. RestOK'
  BY DEF vars, IInv, TypeOK, RestOK
<1>2. PartyInv'
  BY SamePartyInv DEF vars
<1> QED
  BY <1>1, <1>2, IInvParts

LEMMA NextIInv == IInv /\ [Next]_vars => IInv'
<1> SUFFICES ASSUME IInv, [Next]_vars PROVE IInv'
  OBVIOUS
<1>1. ASSUME NEW p \in Player, Packet(p) PROVE IInv'
  BY <1>1, PacketIInv
<1>2. ASSUME NEW p \in Player, Execute(p) PROVE IInv'
  BY <1>2, ExecuteIInv
<1>3. ASSUME NEW p \in Player, RemoveCreature(p) \/ RemoveBreaks(p) \/ FreePlayer(p)
      PROVE  IInv'
  BY <1>3, EndIInv
<1>4. CASE UNCHANGED vars
  BY <1>4, StutterIInv
<1> QED
  BY <1>1, <1>2, <1>3, <1>4, Zenon DEF Next

\* The inductive invariant holds in every reachable state.
THEOREM Inductive == Spec => []IInv
<1> QED
  BY InitIInv, NextIInv, PTL DEF Spec

\* The variables of the parties keep their types (Party, TypeOK).
THEOREM TypeCorrect == Spec => []TypeOK
<1>1. IInv => TypeOK
  BY DEF IInv
<1> QED
  BY <1>1, Inductive, PTL

\* Whatever the packets and their races do, a party pointer names a party
\* that is not deleted and lists the player (party.cpp, protocol79.cpp 2588).
THEOREM PointerListedHolds == Spec => []PointerListed
<1>1. IInv => PointerListed
  BY DEF IInv
<1> QED
  BY <1>1, Inductive, PTL
=============================================================================
