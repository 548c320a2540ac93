---------------------------- MODULE Room_proofs -----------------------------
(***************************************************************************)
(* Proofs about Room, for any number of sessions, nicknames and monsters,  *)
(* any hp and damage, and any number of packets.                             *)
(*                                                                         *)
(* The argument: what an object is never changes, and its hp never comes   *)
(* to 0, as a hit that would take it there removes the object.  A monster  *)
(* is waiting for its timer, in a job, in the room or dead, and never two  *)
(* of these; so the one that dies frees a slot nobody else has, and the    *)
(* slot is filled again with one monster.                                  *)
(***************************************************************************)
EXTENDS Room, SequenceTheorems, FiniteSetTheorems, TLAPS

-----------------------------------------------------------------------------
(* The inductive invariant *)

Records ==
    [kind : {"player", "monster"}, nickname : Nicknames \cup {None},
     number : Numbers \cup {None}, session : Sessions \cup {None},
     hp : Nat, pos : Positions \cup {StartPos}, room : BOOLEAN]

\* What the objects are.
Bodies ==
    /\ object \in Seq(Records)
    /\ \A i \in Ids :
          /\ IsPlayer(i) => object[i].nickname \in Nicknames /\ object[i].session \in Sessions
          /\ ~IsPlayer(i) => /\ object[i].number \in Numbers
                             /\ object[i].nickname = None /\ object[i].session = None
          /\ object[i].hp \in 1 .. Hp[object[i].kind]

JobRecords ==
    [method : Methods, id : Nat \cup {None}, arg : Nat \cup {None} \cup Positions]

\* A job has the arguments its method needs.
WellFormed(j) ==
    /\ j \in JobRecords
    /\ j.method \in {"HandleEnterPlayer", "HandleLeavePlayer", "HandleMove"} =>
          j.id \in Ids /\ IsPlayer(j.id)
    /\ j.method = "HandleEnterMonster" => j.id \in Ids /\ ~IsPlayer(j.id)
    /\ j.method = "HandleMove" => j.arg \in Positions
    /\ j.method = "HandleAttack" => j.id \in Ids /\ j.arg \in Ids
    /\ j.method = "UpdateMonster" => j = UpdateMonsterJob

\* What the handlers of packets push.
OfClient(j) == j.method \notin {"HandleEnterMonster", "UpdateMonster"}

\* The jobs, and what the sessions know.
Queued ==
    /\ jobs \in Seq(JobRecords)
    /\ \A k \in DOMAIN jobs : WellFormed(jobs[k])
    /\ DOMAIN handling = Sessions
    /\ \A s \in Sessions : handling[s] # None => WellFormed(handling[s]) /\ OfClient(handling[s])

\* What a session knows of its player.
Known ==
    /\ player \in [Sessions -> Ids \cup {None}]
    /\ \A s \in Sessions : player[s] # None => IsPlayer(player[s])

\* The rest of the types.
Typed ==
    /\ objects \subseteq Ids
    /\ DOMAIN players \subseteq Nicknames
    /\ monsters \in [Numbers -> BOOLEAN]
    /\ respawns \in Nat
    /\ connected \in [Sessions -> BOOLEAN]
    /\ DOMAIN view = Sessions /\ \A s \in Sessions : DOMAIN view[s] \subseteq Ids
    /\ rewards \in Seq(Nicknames \cup {None})

\* The monsters whose HandleEnterMonster is in the queue.
EnterAt(k) == jobs[k].method = "HandleEnterMonster"
Pushed == {jobs[k].id : k \in {k \in DOMAIN jobs : EnterAt(k)}}

\* A monster that is on its way into the room is in one place only.
OnTheWay ==
    /\ \A i \in entries \cup Pushed : i \in Ids /\ ~IsPlayer(i) /\ i \notin objects
    /\ entries \cap Pushed = {}
    /\ \A k, l \in DOMAIN jobs : EnterAt(k) /\ EnterAt(l) /\ jobs[k].id = jobs[l].id => k = l

\* A slot is taken by one monster that is alive, or free.
Slots ==
    /\ \A n \in Numbers : monsters[n] <=> \E i \in Alive : object[i].number = n
    /\ \A i, k \in Alive : object[i].number = object[k].number => i = k

IInv ==
    /\ Bodies /\ Queued /\ Known /\ Typed
    /\ IndexesAgree /\ OnTheWay /\ Slots /\ RespawnPending /\ RewardPerKill /\ ClientsSeeTheRoom

-----------------------------------------------------------------------------
(* The queue of jobs *)

\* What the objects are does not change, though there may be more of them.
Kept ==
    /\ Ids \subseteq Ids'
    /\ \A i \in Ids :
          /\ object'[i].kind = object[i].kind /\ object'[i].nickname = object[i].nickname
          /\ object'[i].number = object[i].number /\ object'[i].session = object[i].session

\* A job keeps its arguments.
LEMMA StillWellFormed ==
    ASSUME Kept, NEW j, WellFormed(j)
    PROVE  WellFormed(j)'
  BY DEF Kept, WellFormed, IsPlayer

\* Running a job takes it from the head of the queue.
LEMMA RunTakes ==
    ASSUME Queued, NEW m, Run(m)
    PROVE  /\ job = jobs[1] /\ job.method = m /\ WellFormed(job)
           /\ jobs' \in Seq(JobRecords) /\ Len(jobs) \in Nat \ {0}
           /\ DOMAIN jobs = 1 .. Len(jobs) /\ DOMAIN jobs' = 1 .. Len(jobs) - 1
           /\ \A k \in DOMAIN jobs' : k + 1 \in DOMAIN jobs /\ jobs'[k] = jobs[k + 1]
<1>1. jobs \in Seq(JobRecords) /\ jobs # <<>> /\ jobs' = Tail(jobs)
  BY DEF Queued, Run
<1>2. /\ Len(jobs) \in Nat \ {0} /\ DOMAIN jobs = 1 .. Len(jobs) /\ job = jobs[1]
      /\ jobs' \in Seq(JobRecords) /\ Len(jobs') = Len(jobs) - 1
      /\ \A k \in 1 .. Len(jobs) - 1 : jobs'[k] = jobs[k + 1]
  BY <1>1, EmptySeq, LenProperties, HeadTailProperties DEF job
<1>3. DOMAIN jobs' = 1 .. Len(jobs) - 1
  BY <1>2, LenProperties
<1>4. 1 \in DOMAIN jobs
  BY <1>2
<1>5. WellFormed(job) /\ job.method = m
  BY <1>2, <1>4 DEF Queued, Run
<1> QED
  BY <1>2, <1>3, <1>5

\* The jobs that are left, and those the handlers will push, stay as they are.
LEMMA QueuedRun ==
    ASSUME Queued, Kept, NEW m, Run(m)
    PROVE  Queued'
<1>1. jobs' \in Seq(JobRecords) /\ \A k \in DOMAIN jobs' : \E l \in DOMAIN jobs : jobs'[k] = jobs[l]
  BY RunTakes
<1>2. UNCHANGED handling
  BY DEF Run
<1>3. ASSUME NEW k \in DOMAIN jobs' PROVE WellFormed(jobs[k])'
  <2>1. PICK j : j = jobs'[k] /\ WellFormed(j)
    BY <1>1 DEF Queued
  <2>2. WellFormed(j)'
    BY <2>1, StillWellFormed
  <2> QED
    BY <2>1, <2>2 DEF WellFormed, IsPlayer
<1>4. ASSUME NEW s \in Sessions, handling'[s] # None
      PROVE  WellFormed(handling[s])' /\ OfClient(handling[s])'
  <2>1. PICK j : j = handling'[s] /\ WellFormed(j) /\ OfClient(j)
    BY <1>2, <1>4 DEF Queued
  <2>2. WellFormed(j)'
    BY <2>1, StillWellFormed
  <2> QED
    BY <2>1, <2>2 DEF WellFormed, IsPlayer, OfClient
<1> QED
  BY <1>1, <1>2, <1>3, <1>4 DEF Queued

\* Push puts a job at the end of the queue.
LEMMA PushPuts ==
    ASSUME Queued, NEW j \in JobRecords, jobs' = Append(jobs, j)
    PROVE  /\ jobs' \in Seq(JobRecords) /\ Len(jobs) \in Nat
           /\ DOMAIN jobs = 1 .. Len(jobs) /\ DOMAIN jobs' = 1 .. Len(jobs) + 1
           /\ \A k \in DOMAIN jobs : jobs'[k] = jobs[k]
           /\ jobs'[Len(jobs) + 1] = j
<1>1. jobs \in Seq(JobRecords)
  BY DEF Queued
<1> QED
  BY <1>1, AppendProperties, LenProperties

\* The monsters in the queue when a job has run that is not theirs.
LEMMA PushedRun ==
    ASSUME Queued, OnTheWay, NEW m, Run(m), m # "HandleEnterMonster"
    PROVE  /\ Pushed' = Pushed
           /\ \A k, l \in DOMAIN jobs' :
                 EnterAt(k)' /\ EnterAt(l)' /\ jobs'[k].id = jobs'[l].id => k = l
<1>1. /\ jobs[1].method = m /\ Len(jobs) \in Nat \ {0}
      /\ DOMAIN jobs = 1 .. Len(jobs) /\ DOMAIN jobs' = 1 .. Len(jobs) - 1
      /\ \A k \in DOMAIN jobs' : k + 1 \in DOMAIN jobs /\ jobs'[k] = jobs[k + 1]
  BY RunTakes
<1>2. ASSUME NEW k \in DOMAIN jobs, EnterAt(k)
      PROVE  k - 1 \in DOMAIN jobs' /\ jobs'[k - 1] = jobs[k]
  <2>1. k # 1
    BY <1>1, <1>2 DEF EnterAt
  <2> QED
    BY <1>1, <2>1
<1>3. Pushed \subseteq Pushed'
  BY <1>2 DEF Pushed, EnterAt
<1>4. Pushed' \subseteq Pushed
  BY <1>1 DEF Pushed, EnterAt
<1>5. ASSUME NEW k \in DOMAIN jobs', NEW l \in DOMAIN jobs',
             EnterAt(k)', EnterAt(l)', jobs'[k].id = jobs'[l].id
      PROVE  k = l
  <2>1. /\ k + 1 \in DOMAIN jobs /\ l + 1 \in DOMAIN jobs /\ EnterAt(k + 1) /\ EnterAt(l + 1)
        /\ jobs[k + 1].id = jobs[l + 1].id
    BY <1>1, <1>5 DEF EnterAt
  <2>2. k + 1 = l + 1
    BY <2>1 DEF OnTheWay
  <2> QED
    BY <1>1, <2>2
<1> QED
  BY <1>3, <1>4, <1>5

\* A HandleEnterMonster that has run leaves its monster in no other job.
LEMMA PushedEnter ==
    ASSUME Queued, OnTheWay, Run("HandleEnterMonster")
    PROVE  /\ Pushed' = Pushed \ {job.id} /\ job.id \in Pushed
           /\ \A k, l \in DOMAIN jobs' :
                 EnterAt(k)' /\ EnterAt(l)' /\ jobs'[k].id = jobs'[l].id => k = l
<1>1. /\ job = jobs[1] /\ job.method = "HandleEnterMonster" /\ Len(jobs) \in Nat \ {0}
      /\ DOMAIN jobs = 1 .. Len(jobs) /\ DOMAIN jobs' = 1 .. Len(jobs) - 1
      /\ \A k \in DOMAIN jobs' : k + 1 \in DOMAIN jobs /\ jobs'[k] = jobs[k + 1]
  BY RunTakes
<1>2. 1 \in DOMAIN jobs /\ EnterAt(1)
  BY <1>1 DEF EnterAt
<1>3. job.id \in Pushed
  BY <1>1, <1>2 DEF Pushed
<1>4. ASSUME NEW i \in Pushed, i # job.id PROVE i \in Pushed'
  <2>1. PICK k \in DOMAIN jobs : EnterAt(k) /\ jobs[k].id = i
    BY DEF Pushed
  <2>2. k - 1 \in DOMAIN jobs' /\ jobs'[k - 1] = jobs[k]
    BY <1>1, <1>4, <2>1
  <2> QED
    BY <2>1, <2>2 DEF Pushed, EnterAt
<1>5. ASSUME NEW i \in Pushed' PROVE i \in Pushed /\ i # job.id
  <2>1. PICK k \in DOMAIN jobs' : EnterAt(k)' /\ jobs'[k].id = i
    BY DEF Pushed, EnterAt
  <2>2. k + 1 \in DOMAIN jobs /\ EnterAt(k + 1) /\ jobs[k + 1].id = i /\ k + 1 # 1
    BY <1>1, <2>1 DEF EnterAt
  <2>3. i # job.id
    BY <1>1, <1>2, <2>2 DEF OnTheWay
  <2> QED
    BY <2>2, <2>3 DEF Pushed
<1>6. ASSUME NEW k \in DOMAIN jobs', NEW l \in DOMAIN jobs',
             EnterAt(k)', EnterAt(l)', jobs'[k].id = jobs'[l].id
      PROVE  k = l
  <2>1. /\ k + 1 \in DOMAIN jobs /\ l + 1 \in DOMAIN jobs /\ EnterAt(k + 1) /\ EnterAt(l + 1)
        /\ jobs[k + 1].id = jobs[l + 1].id
    BY <1>1, <1>6 DEF EnterAt
  <2>2. k + 1 = l + 1
    BY <2>1 DEF OnTheWay
  <2> QED
    BY <1>1, <2>2
<1> QED
  BY <1>3, <1>4, <1>5, <1>6

\* The monsters in the queue when a job has been pushed.
LEMMA PushedPush ==
    ASSUME Queued, OnTheWay, NEW j \in JobRecords, jobs' = Append(jobs, j),
           j.method = "HandleEnterMonster" => j.id \notin Pushed
    PROVE  /\ Pushed' = IF j.method = "HandleEnterMonster" THEN Pushed \cup {j.id} ELSE Pushed
           /\ \A k, l \in DOMAIN jobs' :
                 EnterAt(k)' /\ EnterAt(l)' /\ jobs'[k].id = jobs'[l].id => k = l
<1>0. PICK n : n = Len(jobs) + 1
  OBVIOUS
<1>1. /\ Len(jobs) \in Nat /\ DOMAIN jobs = 1 .. Len(jobs) /\ DOMAIN jobs' = 1 .. n
      /\ \A k \in DOMAIN jobs : jobs'[k] = jobs[k]
      /\ jobs'[n] = j
  BY <1>0, PushPuts
<1>2. \A k \in DOMAIN jobs' : k \in DOMAIN jobs \/ k = n
  BY <1>0, <1>1
<1>3. n \in DOMAIN jobs' /\ n \notin DOMAIN jobs /\ DOMAIN jobs \subseteq DOMAIN jobs'
  BY <1>0, <1>1
<1>4. \A k \in DOMAIN jobs : EnterAt(k)' <=> EnterAt(k)
  BY <1>1 DEF EnterAt
<1>5. EnterAt(n)' <=> j.method = "HandleEnterMonster"
  BY <1>1 DEF EnterAt
<1>6. Pushed' = {jobs'[k].id : k \in {k \in DOMAIN jobs' : EnterAt(k)'}}
  BY DEF Pushed, EnterAt
<1>7. Pushed' = IF j.method = "HandleEnterMonster" THEN Pushed \cup {j.id} ELSE Pushed
  BY <1>1, <1>2, <1>3, <1>4, <1>5, <1>6 DEF Pushed
<1>8. ASSUME NEW k \in DOMAIN jobs', NEW l \in DOMAIN jobs',
             EnterAt(k)', EnterAt(l)', jobs'[k].id = jobs'[l].id
      PROVE  k = l
  <2>1. CASE k \in DOMAIN jobs /\ l \in DOMAIN jobs
    BY <1>1, <1>4, <1>8, <2>1 DEF OnTheWay
  <2>2. ASSUME NEW x \in DOMAIN jobs, EnterAt(x), jobs[x].id = j.id, EnterAt(n)' PROVE FALSE
    BY <1>5, <2>2 DEF Pushed
  <2> QED
    BY <1>1, <1>2, <1>4, <1>8, <2>1, <2>2
<1> QED
  BY <1>7, <1>8

-----------------------------------------------------------------------------
(* Objects *)

\* The objects o with a field of the object i changed.
SetRoom(o, i) == [o EXCEPT ![i].room = TRUE]
ClearRoom(o, i) == [o EXCEPT ![i].room = FALSE]
SetPos(o, i, v) == [o EXCEPT ![i].pos = v]
SetHp(o, i, v) == [o EXCEPT ![i].hp = v]

\* EnterRoom sets the room pointer of an object.
LEMMA RoomEntered ==
    ASSUME NEW o \in Seq(Records), NEW i \in DOMAIN o, NEW p, p = SetRoom(o, i)
    PROVE  /\ p \in Seq(Records) /\ DOMAIN p = DOMAIN o /\ p[i].room
           /\ \A k \in DOMAIN o : k # i => p[k] = o[k]
           /\ \A k \in DOMAIN o :
                 /\ p[k].kind = o[k].kind /\ p[k].nickname = o[k].nickname
                 /\ p[k].number = o[k].number /\ p[k].session = o[k].session
                 /\ p[k].hp = o[k].hp /\ p[k].pos = o[k].pos
<1>1. Len(o) \in Nat /\ o \in [1 .. Len(o) -> Records] /\ DOMAIN o = 1 .. Len(o)
  BY LenProperties
<1>2. p \in [1 .. Len(o) -> Records]
  BY <1>1 DEF Records, SetRoom
<1>3. p \in Seq(Records)
  BY <1>1, <1>2, SeqDef
<1>4. p[i].room
  BY <1>1 DEF Records, SetRoom
<1> QED
  BY <1>1, <1>2, <1>3, <1>4 DEF Records, SetRoom

\* RemoveObject clears it.
LEMMA RoomCleared ==
    ASSUME NEW o \in Seq(Records), NEW i \in DOMAIN o, NEW p, p = ClearRoom(o, i)
    PROVE  /\ p \in Seq(Records) /\ DOMAIN p = DOMAIN o /\ ~p[i].room
           /\ \A k \in DOMAIN o : k # i => p[k] = o[k]
           /\ \A k \in DOMAIN o :
                 /\ p[k].kind = o[k].kind /\ p[k].nickname = o[k].nickname
                 /\ p[k].number = o[k].number /\ p[k].session = o[k].session
                 /\ p[k].hp = o[k].hp /\ p[k].pos = o[k].pos
<1>1. Len(o) \in Nat /\ o \in [1 .. Len(o) -> Records] /\ DOMAIN o = 1 .. Len(o)
  BY LenProperties
<1>2. p \in [1 .. Len(o) -> Records]
  BY <1>1 DEF Records, ClearRoom
<1>3. p \in Seq(Records)
  BY <1>1, <1>2, SeqDef
<1>4. ~p[i].room
  BY <1>1 DEF Records, ClearRoom
<1> QED
  BY <1>1, <1>2, <1>3, <1>4 DEF Records, ClearRoom

\* An object moves.
LEMMA PosSet ==
    ASSUME NEW o \in Seq(Records), NEW i \in DOMAIN o, NEW v \in Positions,
           NEW p, p = SetPos(o, i, v)
    PROVE  /\ p \in Seq(Records) /\ DOMAIN p = DOMAIN o /\ p[i].pos = v
           /\ \A k \in DOMAIN o : k # i => p[k] = o[k]
           /\ \A k \in DOMAIN o :
                 /\ p[k].kind = o[k].kind /\ p[k].nickname = o[k].nickname
                 /\ p[k].number = o[k].number /\ p[k].session = o[k].session
                 /\ p[k].hp = o[k].hp /\ p[k].room = o[k].room
<1>1. Len(o) \in Nat /\ o \in [1 .. Len(o) -> Records] /\ DOMAIN o = 1 .. Len(o)
  BY LenProperties
<1>2. p \in [1 .. Len(o) -> Records]
  BY <1>1 DEF Records, SetPos
<1>3. p \in Seq(Records)
  BY <1>1, <1>2, SeqDef
<1> QED
  BY <1>1, <1>2, <1>3 DEF Records, SetPos

\* An object is hit.
LEMMA HpSet ==
    ASSUME NEW o \in Seq(Records), NEW i \in DOMAIN o, NEW v \in Nat,
           NEW p, p = SetHp(o, i, v)
    PROVE  /\ p \in Seq(Records) /\ DOMAIN p = DOMAIN o /\ p[i].hp = v
           /\ \A k \in DOMAIN o : k # i => p[k] = o[k]
           /\ \A k \in DOMAIN o :
                 /\ p[k].kind = o[k].kind /\ p[k].nickname = o[k].nickname
                 /\ p[k].number = o[k].number /\ p[k].session = o[k].session
                 /\ p[k].pos = o[k].pos /\ p[k].room = o[k].room
<1>1. Len(o) \in Nat /\ o \in [1 .. Len(o) -> Records] /\ DOMAIN o = 1 .. Len(o)
  BY LenProperties
<1>2. p \in [1 .. Len(o) -> Records]
  BY <1>1 DEF Records, SetHp
<1>3. p \in Seq(Records)
  BY <1>1, <1>2, SeqDef
<1> QED
  BY <1>1, <1>2, <1>3 DEF Records, SetHp

\* The parts of the invariant that only say what objects and jobs are.
LEMMA BodiesKept ==
    ASSUME Bodies, Kept, Ids' = Ids, object' \in Seq(Records),
           \A i \in Ids : object'[i].hp \in 1 .. Hp[object[i].kind]
    PROVE  Bodies'
  BY DEF Bodies, Kept, IsPlayer

\* A session's player stays a player.
LEMMA KnownKept == Known /\ Kept /\ UNCHANGED player => Known'
  BY DEF Known, Kept, IsPlayer

-----------------------------------------------------------------------------
(* The slots of the monsters *)

Rank(n) == Cardinality({m \in Empty : m <= n})

\* The slots that are empty are numbered from 1 without a gap.
LEMMA EmptyNumbered ==
    /\ IsFiniteSet(Empty) /\ Cardinality(Empty) \in Nat
    /\ \A k \in 1 .. Cardinality(Empty) : EmptyNumber(k) \in Empty
    /\ \A k, l \in 1 .. Cardinality(Empty) : EmptyNumber(k) = EmptyNumber(l) => k = l
    /\ \A n \in Empty : \E k \in 1 .. Cardinality(Empty) : EmptyNumber(k) = n
<1> DEFINE c == Cardinality(Empty)
           f == [n \in Empty |-> Rank(n)]
           Below(n) == {m \in Empty : m <= n}
<1>1. Numbers \subseteq Int /\ Empty \in SUBSET Numbers
  BY RoomAssumption DEF Numbers, Empty
<1>2. IsFiniteSet(Numbers)
  BY RoomAssumption, FS_Interval DEF Numbers
<1>3. IsFiniteSet(Empty) /\ c \in Nat
  BY <1>1, <1>2, FS_Subset, FS_CardinalityType
<1>4. ASSUME NEW n \in Empty
      PROVE  IsFiniteSet(Below(n)) /\ Rank(n) \in 1 .. c
  <2>1. Below(n) \in SUBSET Empty /\ n \in Below(n)
    BY <1>1
  <2>2. IsFiniteSet(Below(n)) /\ Cardinality(Below(n)) <= c
    BY <1>3, <2>1, FS_Subset
  <2>3. Cardinality(Below(n)) \in Nat /\ Cardinality(Below(n)) # 0
    BY <2>1, <2>2, FS_CardinalityType, FS_EmptySet
  <2> QED
    BY <1>3, <2>2, <2>3 DEF Rank
<1>5. ASSUME NEW n \in Empty, NEW p \in Empty, n < p PROVE Rank(n) # Rank(p)
  <2>0. p <= p /\ ~(p <= n) /\ \A m \in Empty : m <= n => m <= p
    BY <1>1, <1>5
  <2>1. Below(n) \in SUBSET Below(p) /\ p \in Below(p) /\ p \notin Below(n)
    BY <2>0
  <2>2. Below(n) # Below(p) /\ IsFiniteSet(Below(p))
    BY <1>4, <2>1
  <2> QED
    BY <2>1, <2>2, FS_Subset DEF Rank
<1>6. \A n, p \in Empty : Rank(n) = Rank(p) => n = p
  BY <1>1, <1>5
<1>7. f \in Injection(Empty, 1 .. c)
  BY <1>4, <1>6 DEF Injection, IsInjective
<1>8. IsFiniteSet(1 .. c) /\ Cardinality(1 .. c) = c
  BY <1>3, FS_Interval
<1>9. f \in Surjection(Empty, 1 .. c)
  BY <1>7, <1>8, FS_Injection
<1>10. ASSUME NEW k \in 1 .. c PROVE EmptyNumber(k) \in Empty /\ Rank(EmptyNumber(k)) = k
  <2>1. \E n \in Empty : Rank(n) = k
    BY <1>9 DEF Surjection
  <2> QED
    BY <2>1 DEF EmptyNumber, Rank
<1>11. ASSUME NEW n \in Empty PROVE \E k \in 1 .. c : EmptyNumber(k) = n
  BY <1>4, <1>6, <1>10
<1> QED
  BY <1>3, <1>10, <1>11

\* UpdateMonster leaves the objects that are there and makes a monster for every
\* slot that is empty.
LEMMA MonstersMade ==
    ASSUME NEW o \in Seq(Records), UpdateMonster(o)
    PROVE  /\ object' \in Seq(Records) /\ Len(o) \in Nat /\ Cardinality(Empty) \in Nat
           /\ DOMAIN o = 1 .. Len(o) /\ DOMAIN object' = 1 .. Len(o) + Cardinality(Empty)
           /\ \A i \in DOMAIN o : object'[i] = o[i]
           /\ \A k \in 1 .. Cardinality(Empty) : object'[Len(o) + k] = NewMonster(EmptyNumber(k))
<1> DEFINE c == Cardinality(Empty)
           new == [k \in 1 .. c |-> NewMonster(EmptyNumber(k))]
<1>1. c \in Nat /\ \A k \in 1 .. c : EmptyNumber(k) \in Numbers
  BY EmptyNumbered DEF Empty
<1>2. ASSUME NEW n \in Numbers PROVE NewMonster(n) \in Records
  BY RoomAssumption DEF NewMonster, Records
<1>3. new \in [1 .. c -> Records]
  BY <1>1, <1>2
<1>4. new \in Seq(Records) /\ Len(new) = c
  BY <1>1, <1>3, SeqDef, LenProperties
<1>5. object' = o \o new
  BY DEF UpdateMonster
<1>6. \A k \in 1 .. c : new[k] = NewMonster(EmptyNumber(k))
  OBVIOUS
<1> HIDE DEF new, c
<1>7. /\ object' \in Seq(Records) /\ Len(object') = Len(o) + c
      /\ \A i \in 1 .. Len(object') :
            object'[i] = IF i <= Len(o) THEN o[i] ELSE new[i - Len(o)]
  BY <1>4, <1>5, ConcatProperties
<1>8. Len(o) \in Nat /\ DOMAIN o = 1 .. Len(o) /\ DOMAIN object' = 1 .. Len(o) + c
  BY <1>7, LenProperties
<1>9. \A i \in DOMAIN o : object'[i] = o[i]
  BY <1>1, <1>7, <1>8
<1>10. ASSUME NEW k \in 1 .. c PROVE object'[Len(o) + k] = NewMonster(EmptyNumber(k))
  <2>1. Len(o) + k \in 1 .. Len(object') /\ ~(Len(o) + k <= Len(o)) /\ (Len(o) + k) - Len(o) = k
    BY <1>1, <1>7, <1>8
  <2> QED
    BY <1>6, <1>7, <2>1
<1> QED
  BY <1>1, <1>7, <1>8, <1>9, <1>10 DEF c

-----------------------------------------------------------------------------
(* What many actions leave alone *)

\* The monsters on their way wait for a timer or are in the queue.
LEMMA ComingIs == Coming = entries \cup Pushed /\ Coming' = entries' \cup Pushed'
  BY DEF Coming, Pushed, EnterAt

\* No monster is made, comes alive or dies.
SameAlive ==
    /\ \A i \in Ids' \ Ids : object'[i].kind = "player"
    /\ \A i \in Ids : ~IsPlayer(i) => (i \in objects' \cup Coming' <=> i \in objects \cup Coming)

\* The monsters that are alive are the same then.
LEMMA AliveKept == Kept /\ SameAlive => Alive' = Alive
  BY DEF Kept, SameAlive, Alive, IsPlayer

\* So are their slots.
LEMMA SlotsKept == Kept /\ SameAlive /\ Slots /\ UNCHANGED monsters => Slots'
<1> SUFFICES ASSUME Kept, SameAlive, Slots, UNCHANGED monsters PROVE Slots'
  OBVIOUS
<1>1. Alive' = Alive /\ Alive \subseteq Ids
  BY AliveKept DEF Alive
<1> QED
  BY <1>1 DEF Slots, Kept

\* So are those that are dead, and the rewards for them.
LEMMA RewardKept == Kept /\ SameAlive /\ RewardPerKill /\ UNCHANGED rewards => RewardPerKill'
<1> SUFFICES ASSUME Kept, SameAlive, RewardPerKill, UNCHANGED rewards PROVE RewardPerKill'
  OBVIOUS
<1>1. Alive' = Alive
  BY AliveKept
<1>2. {i \in Ids : ~IsPlayer(i) /\ i \notin Alive}' = {i \in Ids : ~IsPlayer(i) /\ i \notin Alive}
  BY <1>1 DEF Kept, SameAlive, IsPlayer
<1> QED
  BY <1>2 DEF RewardPerKill

\* A timer or an UpdateMonster that waits still does.
LEMMA PendingKept ==
    ASSUME RespawnPending, Kept, SameAlive, UNCHANGED <<monsters, respawns>>,
           \A k \in DOMAIN jobs : jobs[k] = UpdateMonsterJob =>
              \E l \in DOMAIN jobs' : jobs'[l] = UpdateMonsterJob
    PROVE  RespawnPending'
<1> SUFFICES ASSUME NEW i \in Ids', ~IsPlayer(i)', NEW n \in Numbers, ~monsters'[n]
             PROVE  respawns' > 0 \/ \E k \in DOMAIN jobs' : jobs'[k] = UpdateMonsterJob
  BY DEF RespawnPending, UpdateMonsterJob, Job, Numbers, IsPlayer
<1>1. i \in Ids /\ ~IsPlayer(i)
  BY DEF Kept, SameAlive, IsPlayer
<1>2. respawns > 0 \/ \E k \in DOMAIN jobs : jobs[k] = UpdateMonsterJob
  BY <1>1 DEF RespawnPending
<1> QED
  BY <1>2

\* Running another job leaves the UpdateMonster jobs in the queue.
LEMMA UpdateWaits ==
    ASSUME Queued, NEW m, Run(m), m # "UpdateMonster"
    PROVE  \A k \in DOMAIN jobs : jobs[k] = UpdateMonsterJob =>
              \E l \in DOMAIN jobs' : jobs'[l] = UpdateMonsterJob
<1> SUFFICES ASSUME NEW k \in DOMAIN jobs, jobs[k] = UpdateMonsterJob
             PROVE  \E l \in DOMAIN jobs' : jobs'[l] = UpdateMonsterJob
  OBVIOUS
<1>1. /\ jobs[1].method = m /\ Len(jobs) \in Nat \ {0}
      /\ DOMAIN jobs = 1 .. Len(jobs) /\ DOMAIN jobs' = 1 .. Len(jobs) - 1
      /\ \A l \in DOMAIN jobs' : jobs'[l] = jobs[l + 1]
  BY RunTakes
<1>2. k # 1
  BY <1>1 DEF UpdateMonsterJob, Job
<1>3. k - 1 \in DOMAIN jobs' /\ jobs'[k - 1] = jobs[k]
  BY <1>1, <1>2
<1> QED
  BY <1>3

\* The three records of who is in the room do not change.
LEMMA IndexesKept ==
    ASSUME IndexesAgree, Typed, Kept, UNCHANGED <<objects, players>>,
           \A i \in Ids : object'[i].room = object[i].room,
           \A i \in Ids' \ Ids : ~object'[i].room
    PROVE  IndexesAgree'
<1>1. objects \subseteq Ids /\ objects' = objects /\ players' = players
  BY DEF Typed
<1>2. ASSUME NEW i \in Ids', IsPlayer(i)'
      PROVE  /\ object'[i].room <=> i \in objects'
             /\ i \in objects' => object'[i].nickname \in DOMAIN players'
                                  /\ players'[object'[i].nickname] = i
  <2>1. CASE i \in Ids
    BY <1>1, <1>2, <2>1 DEF IndexesAgree, Kept, IsPlayer
  <2>2. CASE i \notin Ids
    BY <1>1, <2>2
  <2> QED
    BY <2>1, <2>2
<1>3. ASSUME NEW n \in DOMAIN players'
      PROVE  players'[n] \in objects' /\ object'[players'[n]].nickname = n
  BY <1>1, <1>3 DEF IndexesAgree, Kept
<1> QED
  BY <1>2, <1>3 DEF IndexesAgree, IsPlayer

\* What a client shows of an object stays true.
LEMMA InfoKept ==
    ASSUME NEW i, object'[i].hp = object[i].hp, object'[i].pos = object[i].pos
    PROVE  Info(i)' = Info(i)
  BY DEF Info

\* Those who are in the room are told nothing, as nothing has changed.
LEMMA SeenKept ==
    ASSUME ClientsSeeTheRoom, Typed, Kept, UNCHANGED <<objects, view, connected>>,
           \A i \in objects : object'[i].hp = object[i].hp /\ object'[i].pos = object[i].pos
    PROVE  ClientsSeeTheRoom'
<1>1. objects \subseteq Ids /\ objects' = objects
  BY DEF Typed
<1>2. \A s \in Sessions : s \in Audience(objects)' => s \in Audience(objects)
  BY <1>1 DEF Audience, Kept, IsPlayer
<1>3. ASSUME NEW s \in Sessions, s \in Audience(objects)'
      PROVE  view'[s] = [i \in objects' |-> Info(i)']
  <2>1. view'[s] = [i \in objects |-> Info(i)]
    BY <1>2, <1>3 DEF ClientsSeeTheRoom
  <2>2. \A i \in objects : Info(i)' = Info(i)
    BY InfoKept
  <2> QED
    BY <1>1, <2>1, <2>2
<1>4. Audience(objects)' \subseteq Sessions
  BY DEF Audience
<1> QED
  BY <1>3, <1>4 DEF ClientsSeeTheRoom, Info

-----------------------------------------------------------------------------
(* The handlers of packets *)

\* A new object, in nobody's records yet.
LEMMA EnterGameStep ==
    ASSUME IInv, NEW s \in Sessions, NEW n \in Nicknames, Handle_C_ENTER_GAME(s, n)
    PROVE  IInv'
<1>0. PICK i : i = Len(object) + 1
  OBVIOUS
<1>1. /\ object' = Append(object, NewPlayer(s, n)) /\ player' = [player EXCEPT ![s] = i]
      /\ handling' = [handling EXCEPT ![s] = Job("HandleEnterPlayer", i, None)]
      /\ UNCHANGED <<roomVars, jobs, connected>>
  BY <1>0 DEF Handle_C_ENTER_GAME, Receive
<1>2. NewPlayer(s, n) \in Records
  BY RoomAssumption DEF NewPlayer, Records
<1>3. /\ object \in Seq(Records) /\ object' \in Seq(Records) /\ i \in Nat
      /\ Ids = 1 .. Len(object) /\ Ids' = 1 .. i /\ Len(object) \in Nat
      /\ \A k \in Ids : object'[k] = object[k]
      /\ object'[i] = NewPlayer(s, n)
  BY <1>0, <1>1, <1>2, AppendProperties, LenProperties DEF IInv, Bodies, Ids
<1>4. Ids' = Ids \cup {i} /\ i \notin Ids
  BY <1>0, <1>3
<1>5. Kept
  BY <1>3, <1>4 DEF Kept
<1>6. Bodies'
  <2>1. /\ object'[i].kind = "player" /\ object'[i].nickname = n /\ object'[i].session = s
        /\ object'[i].hp = Hp["player"]
    BY <1>3 DEF NewPlayer
  <2>2. Hp["player"] \in 1 .. Hp["player"]
    BY RoomAssumption
  <2>3. ASSUME NEW k \in Ids'
        PROVE  /\ IsPlayer(k)' => object'[k].nickname \in Nicknames /\ object'[k].session \in Sessions
               /\ ~IsPlayer(k)' => /\ object'[k].number \in Numbers'
                                   /\ object'[k].nickname = None /\ object'[k].session = None
               /\ object'[k].hp \in 1 .. Hp[object'[k].kind]
    <3>1. CASE k \in Ids
      BY <1>3, <3>1 DEF IInv, Bodies, IsPlayer, Numbers
    <3>2. CASE k = i
      BY <2>1, <2>2, <3>2 DEF IsPlayer
    <3> QED
      BY <1>4, <3>1, <3>2
  <2> QED
    BY <1>3, <2>3 DEF Bodies, IsPlayer
<1>7. UNCHANGED <<objects, players, monsters, entries, respawns, view, rewards, jobs>>
  BY <1>1 DEF roomVars
<1>8. Queued'
  <2> DEFINE new == Job("HandleEnterPlayer", i, None)
  <2>1. new.method = "HandleEnterPlayer" /\ new.id = i /\ new.arg = None /\ new \in JobRecords
    BY <1>3 DEF Job, JobRecords, Methods
  <2>2. i \in Ids' /\ IsPlayer(i)'
    BY <1>3, <1>4 DEF IsPlayer, NewPlayer
  <2>3. WellFormed(new)' /\ OfClient(new)
    BY <2>1, <2>2 DEF WellFormed, OfClient
  <2> HIDE DEF new
  <2>4. ASSUME NEW k \in DOMAIN jobs' PROVE WellFormed(jobs[k])'
    <3>1. PICK j : j = jobs'[k] /\ WellFormed(j)
      BY <1>7 DEF IInv, Queued
    <3> QED
      BY <1>5, <3>1, StillWellFormed DEF WellFormed, IsPlayer
  <2>5. ASSUME NEW u \in Sessions, handling'[u] # None
        PROVE  WellFormed(handling[u])' /\ OfClient(handling[u])'
    <3>1. CASE u = s
      <4>1. handling'[u] = new
        BY <1>1, <3>1 DEF IInv, Queued, new
      <4> QED
        BY <2>3, <4>1 DEF WellFormed, IsPlayer, OfClient
    <3>2. CASE u # s
      <4>1. PICK j : j = handling'[u] /\ WellFormed(j) /\ OfClient(j)
        BY <1>1, <2>5, <3>2 DEF IInv, Queued
      <4> QED
        BY <1>5, <4>1, StillWellFormed DEF WellFormed, IsPlayer, OfClient
    <3> QED
      BY <3>1, <3>2
  <2>6. jobs' \in Seq(JobRecords) /\ DOMAIN handling' = Sessions
    BY <1>1, <1>7 DEF IInv, Queued
  <2> QED
    BY <2>4, <2>5, <2>6 DEF Queued
<1>9. Known'
  BY <1>1, <1>3, <1>4, <1>5 DEF IInv, Known, Kept, IsPlayer, NewPlayer
<1>10. Typed'
  BY <1>1, <1>4, <1>7 DEF IInv, Typed, Numbers
<1>11. IndexesAgree'
  BY <1>3, <1>4, <1>5, <1>7, IndexesKept DEF IInv, NewPlayer
<1>12. Pushed' = Pushed /\ Coming' = Coming
  BY <1>7, ComingIs DEF Pushed, EnterAt
<1>13. OnTheWay'
  BY <1>5, <1>7, <1>12 DEF IInv, OnTheWay, EnterAt, Kept, IsPlayer
<1>14. SameAlive
  BY <1>3, <1>4, <1>7, <1>12 DEF SameAlive, NewPlayer
<1>15. Slots' /\ RewardPerKill'
  BY <1>5, <1>7, <1>14, SlotsKept, RewardKept DEF IInv
<1>16. RespawnPending'
  BY <1>5, <1>7, <1>14, PendingKept DEF IInv
<1>17. ClientsSeeTheRoom'
  BY <1>1, <1>3, <1>5, <1>7, SeenKept DEF IInv, Typed
<1> QED
  BY <1>6, <1>8, <1>9, <1>10, <1>11, <1>13, <1>15, <1>16, <1>17 DEF IInv

\* Only the thread of the session knows yet what it will push.
LEMMA HandleInRoomStep ==
    ASSUME IInv, NEW s \in Sessions, NEW j, WellFormed(j), OfClient(j), HandleInRoom(s, j)
    PROVE  IInv'
<1>1. /\ handling' = [handling EXCEPT ![s] = j]
      /\ UNCHANGED <<object, roomVars, jobs, player, connected>>
  BY DEF HandleInRoom, Receive
<1>2. UNCHANGED <<objects, players, monsters, entries, respawns, view, rewards>>
  BY <1>1 DEF roomVars
<1>3. Kept
  BY <1>1 DEF Kept, Ids
<1>4. Queued'
  <2>1. ASSUME NEW k \in DOMAIN jobs' PROVE WellFormed(jobs[k])'
    BY <1>1 DEF IInv, Queued, WellFormed, IsPlayer, Ids
  <2>2. ASSUME NEW u \in Sessions, handling'[u] # None
        PROVE  WellFormed(handling[u])' /\ OfClient(handling[u])'
    <3>1. PICK x : x = handling'[u] /\ WellFormed(x) /\ OfClient(x)
      BY <1>1, <2>2 DEF IInv, Queued
    <3> QED
      BY <1>3, <3>1, StillWellFormed DEF WellFormed, IsPlayer, OfClient
  <2> QED
    BY <1>1, <2>1, <2>2 DEF IInv, Queued
<1>5. Bodies' /\ Known' /\ Typed' /\ IndexesAgree'
  BY <1>1, <1>2 DEF IInv, Bodies, Known, Typed, IndexesAgree, IsPlayer, Ids, Numbers
<1>6. Coming' = Coming /\ Pushed' = Pushed
  BY <1>1, <1>2, ComingIs DEF Pushed, EnterAt
<1>7. OnTheWay'
  BY <1>1, <1>2, <1>6 DEF IInv, OnTheWay, EnterAt, IsPlayer, Ids
<1>8. SameAlive
  BY <1>1, <1>2, <1>6 DEF SameAlive, Ids
<1>9. Slots' /\ RewardPerKill' /\ RespawnPending'
  BY <1>1, <1>2, <1>3, <1>8, SlotsKept, RewardKept, PendingKept DEF IInv
<1>10. ClientsSeeTheRoom'
  BY <1>1, <1>2, <1>3, SeenKept DEF IInv
<1> QED
  BY <1>4, <1>5, <1>7, <1>9, <1>10 DEF IInv

\* The jobs of the three other handlers are well formed.
LEMMA HandlersStep ==
    ASSUME IInv, NEW s \in Sessions,
           \/ Handle_C_LEAVE_GAME(s)
           \/ \E pos \in Positions : Handle_C_MOVE(s, pos)
           \/ \E a, v \in Ids : Handle_C_ATTACK(s, a, v)
    PROVE  IInv'
<1> USE DEF OfClient, WellFormed, Job, JobRecords, Methods
<1>1. Ids \subseteq Nat
  BY LenProperties DEF IInv, Bodies, Ids
<1>2. ASSUME player[s] # None PROVE player[s] \in Ids /\ player[s] \in Nat /\ IsPlayer(player[s])
  BY <1>1, <1>2 DEF IInv, Known
<1>3. CASE Handle_C_LEAVE_GAME(s)
  <2>1. HandleInRoom(s, Job("HandleLeavePlayer", player[s], None)) /\ player[s] # None
    BY <1>3 DEF Handle_C_LEAVE_GAME, HandleInRoom
  <2>2. PICK j : j = Job("HandleLeavePlayer", player[s], None)
    OBVIOUS
  <2>3. WellFormed(j) /\ OfClient(j)
    BY <1>2, <2>1, <2>2
  <2>4. HandleInRoom(s, j)
    BY <2>1, <2>2
  <2> QED
    BY <2>3, <2>4, HandleInRoomStep
<1>4. ASSUME NEW pos \in Positions, Handle_C_MOVE(s, pos) PROVE IInv'
  <2>1. HandleInRoom(s, Job("HandleMove", player[s], pos)) /\ player[s] # None
    BY <1>4 DEF Handle_C_MOVE, HandleInRoom
  <2>2. PICK j : j = Job("HandleMove", player[s], pos)
    OBVIOUS
  <2>3. WellFormed(j) /\ OfClient(j)
    BY <1>2, <2>1, <2>2
  <2>4. HandleInRoom(s, j)
    BY <2>1, <2>2
  <2> QED
    BY <2>3, <2>4, HandleInRoomStep
<1>5. ASSUME NEW a \in Ids, NEW v \in Ids, Handle_C_ATTACK(s, a, v) PROVE IInv'
  <2>1. HandleInRoom(s, Job("HandleAttack", a, v))
    BY <1>5 DEF Handle_C_ATTACK
  <2>2. PICK j : j = Job("HandleAttack", a, v)
    OBVIOUS
  <2>3. WellFormed(j) /\ OfClient(j)
    BY <1>1, <2>2
  <2>4. HandleInRoom(s, j)
    BY <2>1, <2>2
  <2> QED
    BY <2>3, <2>4, HandleInRoomStep
<1> QED
  BY <1>3, <1>4, <1>5

\* A push changes nothing but the queue, and what was waiting to be pushed.
LEMMA PushStep ==
    ASSUME IInv, NEW j, WellFormed(j), jobs' = Append(jobs, j), UNCHANGED object,
           DOMAIN handling' = Sessions,
           \A s \in Sessions : handling'[s] = handling[s] \/ handling'[s] = None
    PROVE  /\ Queued' /\ Kept
           /\ \A k \in DOMAIN jobs : jobs[k] = UpdateMonsterJob =>
                 \E l \in DOMAIN jobs' : jobs'[l] = UpdateMonsterJob
<1>1. /\ jobs' \in Seq(JobRecords) /\ Len(jobs) \in Nat
      /\ DOMAIN jobs = 1 .. Len(jobs) /\ DOMAIN jobs' = 1 .. Len(jobs) + 1
      /\ \A k \in DOMAIN jobs : jobs'[k] = jobs[k]
      /\ jobs'[Len(jobs) + 1] = j
  BY PushPuts DEF IInv, WellFormed
<1>2. \A k \in DOMAIN jobs' : k \in DOMAIN jobs \/ k = Len(jobs) + 1
  BY <1>1
<1>3. Kept
  BY DEF Kept, Ids
<1>4. ASSUME NEW k \in DOMAIN jobs' PROVE WellFormed(jobs[k])'
  <2>1. PICK x : x = jobs'[k] /\ WellFormed(x)
    BY <1>1, <1>2 DEF IInv, Queued
  <2> QED
    BY <1>3, <2>1, StillWellFormed DEF WellFormed, IsPlayer
<1>5. ASSUME NEW u \in Sessions, handling'[u] # None
      PROVE  WellFormed(handling[u])' /\ OfClient(handling[u])'
  <2>1. PICK x : x = handling'[u] /\ WellFormed(x) /\ OfClient(x)
    BY <1>5 DEF IInv, Queued
  <2> QED
    BY <1>3, <2>1, StillWellFormed DEF WellFormed, IsPlayer, OfClient
<1>6. DOMAIN jobs \subseteq DOMAIN jobs'
  BY <1>1
<1> QED
  BY <1>1, <1>3, <1>4, <1>5, <1>6 DEF Queued

\* A job of a client comes to the queue.
LEMMA DoAsyncStep == ASSUME IInv, NEW s \in Sessions, DoAsync(s) PROVE IInv'
<1>1. PICK j : j = handling[s] /\ WellFormed(j) /\ OfClient(j)
  BY DEF DoAsync, IInv, Queued
<1>2. /\ jobs' = Append(jobs, j) /\ handling' = [handling EXCEPT ![s] = None]
      /\ UNCHANGED <<object, roomVars, player, connected>>
  BY <1>1 DEF DoAsync
<1>3. UNCHANGED <<objects, players, monsters, entries, respawns, view, rewards>>
  BY <1>2 DEF roomVars
<1>4. DOMAIN handling' = Sessions /\ \A u \in Sessions : handling'[u] \in {handling[u], None}
  BY <1>2 DEF IInv, Queued
<1>5. /\ Queued' /\ Kept
      /\ \A k \in DOMAIN jobs : jobs[k] = UpdateMonsterJob =>
            \E l \in DOMAIN jobs' : jobs'[l] = UpdateMonsterJob
  BY <1>1, <1>2, <1>4, PushStep
<1>6. /\ Pushed' = Pushed
      /\ \A k, l \in DOMAIN jobs' : EnterAt(k)' /\ EnterAt(l)' /\ jobs'[k].id = jobs'[l].id => k = l
  <2>1. j \in JobRecords /\ j.method # "HandleEnterMonster"
    BY <1>1 DEF WellFormed, OfClient
  <2> QED
    BY <1>2, <2>1, PushedPush DEF IInv
<1>7. OnTheWay'
  BY <1>2, <1>3, <1>6 DEF IInv, OnTheWay, IsPlayer, Ids, EnterAt
<1>8. Bodies' /\ Known' /\ Typed' /\ IndexesAgree'
  BY <1>2, <1>3 DEF IInv, Bodies, Known, Typed, IndexesAgree, IsPlayer, Ids, Numbers
<1>9. SameAlive
  BY <1>2, <1>3, <1>6, ComingIs DEF SameAlive, Ids
<1>10. Slots' /\ RewardPerKill' /\ RespawnPending'
  BY <1>3, <1>5, <1>9, SlotsKept, RewardKept, PendingKept DEF IInv
<1>11. ClientsSeeTheRoom'
  BY <1>2, <1>3, <1>5, SeenKept DEF IInv
<1> QED
  BY <1>5, <1>7, <1>8, <1>10, <1>11 DEF IInv

\* A client that is gone is sent nothing more.
LEMMA DisconnectStep == ASSUME IInv, NEW s \in Sessions, Disconnect(s) PROVE IInv'
<1>1. /\ connected' = [connected EXCEPT ![s] = FALSE] /\ view' = [view EXCEPT ![s] = Nothing]
      /\ UNCHANGED <<object, objects, players, monsters, jobs, entries, respawns, player,
                     handling, rewards>>
  BY DEF Disconnect
<1>2. Kept /\ Ids' = Ids
  BY <1>1 DEF Kept, Ids
<1>3. Bodies' /\ Queued' /\ Known' /\ IndexesAgree' /\ OnTheWay'
  BY <1>1, <1>2 DEF IInv, Bodies, Queued, WellFormed, OfClient, Known, IndexesAgree, OnTheWay,
     EnterAt, Pushed, IsPlayer, Numbers
<1>4. Typed'
  <2>1. DOMAIN Nothing = {}
    BY DEF Nothing
  <2> QED
    BY <1>1, <1>2, <2>1 DEF IInv, Typed, Numbers
<1>5. SameAlive
  BY <1>1 DEF SameAlive, Ids, Coming
<1>6. Slots' /\ RewardPerKill' /\ RespawnPending'
  BY <1>1, <1>2, <1>5, SlotsKept, RewardKept, PendingKept DEF IInv
<1>7. ClientsSeeTheRoom'
  <2>1. ASSUME NEW u \in Sessions, u \in Audience(objects)'
        PROVE  u # s /\ u \in Audience(objects) /\ view'[u] = view[u]
    BY <1>1, <2>1 DEF Audience, IsPlayer, IInv, Typed
  <2>2. \A i \in objects : Info(i)' = Info(i)
    BY <1>1 DEF Info
  <2>3. ASSUME NEW u \in Sessions, u \in Audience(objects)'
        PROVE  view'[u] = [i \in objects' |-> Info(i)']
    BY <1>1, <2>1, <2>2, <2>3 DEF IInv, ClientsSeeTheRoom
  <2>4. Audience(objects)' \subseteq Sessions
    BY DEF Audience
  <2> QED
    BY <2>3, <2>4 DEF ClientsSeeTheRoom, Info
<1> QED
  BY <1>3, <1>4, <1>6, <1>7 DEF IInv

-----------------------------------------------------------------------------
(* The timers *)

\* The monster goes from the timer to the queue.
LEMMA FireEntryStep == ASSUME IInv, NEW i \in entries, FireEntry(i) PROVE IInv'
<1>1. /\ jobs' = Append(jobs, Job("HandleEnterMonster", i, None)) /\ entries' = entries \ {i}
      /\ UNCHANGED <<object, objects, players, monsters, respawns, player, connected, handling,
                     view, rewards>>
  BY DEF FireEntry
<1>2. i \in Ids /\ ~IsPlayer(i) /\ i \in Nat /\ i \notin Pushed
  BY LenProperties DEF IInv, OnTheWay, Bodies, Ids
<1>3. PICK j : j = Job("HandleEnterMonster", i, None)
  OBVIOUS
<1>4. j.method = "HandleEnterMonster" /\ j.id = i /\ j \in JobRecords /\ WellFormed(j)
  BY <1>2, <1>3 DEF Job, JobRecords, Methods, WellFormed
<1>5. /\ Queued' /\ Kept
      /\ \A k \in DOMAIN jobs : jobs[k] = UpdateMonsterJob =>
            \E l \in DOMAIN jobs' : jobs'[l] = UpdateMonsterJob
  BY <1>1, <1>3, <1>4, PushStep DEF IInv, Queued
<1>6. /\ Pushed' = Pushed \cup {i}
      /\ \A k, l \in DOMAIN jobs' : EnterAt(k)' /\ EnterAt(l)' /\ jobs'[k].id = jobs'[l].id => k = l
  BY <1>1, <1>2, <1>3, <1>4, PushedPush DEF IInv
<1>7. OnTheWay'
  BY <1>1, <1>6 DEF IInv, OnTheWay, IsPlayer, Ids, EnterAt
<1>8. Bodies' /\ Known' /\ Typed' /\ IndexesAgree'
  BY <1>1 DEF IInv, Bodies, Known, Typed, IndexesAgree, IsPlayer, Ids, Numbers
<1>9. SameAlive
  BY <1>1, <1>6, ComingIs DEF SameAlive, Ids
<1>10. Slots' /\ RewardPerKill' /\ RespawnPending'
  BY <1>1, <1>5, <1>9, SlotsKept, RewardKept, PendingKept DEF IInv
<1>11. ClientsSeeTheRoom'
  BY <1>1, <1>5, SeenKept DEF IInv
<1> QED
  BY <1>5, <1>7, <1>8, <1>10, <1>11 DEF IInv

\* An UpdateMonster takes the place of its timer.
LEMMA FireRespawnStep == ASSUME IInv, FireRespawn PROVE IInv'
<1>1. /\ jobs' = Append(jobs, UpdateMonsterJob) /\ respawns > 0 /\ respawns' = respawns - 1
      /\ UNCHANGED <<object, objects, players, monsters, entries, player, connected, handling,
                     view, rewards>>
  BY DEF FireRespawn
<1>2. PICK j : j = UpdateMonsterJob
  OBVIOUS
<1>3. j.method = "UpdateMonster" /\ j \in JobRecords /\ WellFormed(j)
  BY <1>2 DEF UpdateMonsterJob, Job, JobRecords, Methods, WellFormed
<1>4. Queued' /\ Kept
  BY <1>1, <1>2, <1>3, PushStep DEF IInv, Queued
<1>5. /\ Pushed' = Pushed
      /\ \A k, l \in DOMAIN jobs' : EnterAt(k)' /\ EnterAt(l)' /\ jobs'[k].id = jobs'[l].id => k = l
  BY <1>1, <1>2, <1>3, PushedPush DEF IInv
<1>6. OnTheWay'
  BY <1>1, <1>5 DEF IInv, OnTheWay, IsPlayer, Ids, EnterAt
<1>7. Bodies' /\ Known' /\ Typed' /\ IndexesAgree'
  BY <1>1 DEF IInv, Bodies, Known, Typed, IndexesAgree, IsPlayer, Ids, Numbers
<1>8. SameAlive
  BY <1>1, <1>5, ComingIs DEF SameAlive, Ids
<1>9. Slots' /\ RewardPerKill'
  BY <1>1, <1>4, <1>8, SlotsKept, RewardKept DEF IInv
<1>10. RespawnPending'
  <2>1. Len(jobs) + 1 \in DOMAIN jobs' /\ jobs'[Len(jobs) + 1] = UpdateMonsterJob
    BY <1>1, <1>2, <1>3, PushPuts DEF IInv
  <2> QED
    BY <2>1 DEF RespawnPending, UpdateMonsterJob, Job
<1>11. ClientsSeeTheRoom'
  BY <1>1, <1>4, SeenKept DEF IInv
<1> QED
  BY <1>4, <1>6, <1>7, <1>9, <1>10, <1>11 DEF IInv

-----------------------------------------------------------------------------
(* UpdateMonster, EnterRoom and LeaveRoom *)

\* A monster that has just been made.
LEMMA MonsterFields ==
    ASSUME NEW n
    PROVE  /\ NewMonster(n).kind = "monster" /\ NewMonster(n).number = n
           /\ NewMonster(n).nickname = None /\ NewMonster(n).session = None
           /\ NewMonster(n).hp = Hp["monster"]
           /\ ~NewMonster(n).room
  BY DEF NewMonster

\* UpdateMonster, run on objects that are what they were: every slot is taken
\* afterwards, and by one monster.
LEMMA SlotsFill ==
    ASSUME IInv, NEW o \in Seq(Records), DOMAIN o = Ids, UpdateMonster(o), UNCHANGED rewards,
           \A i \in Ids :
              /\ o[i].kind = object[i].kind /\ o[i].nickname = object[i].nickname
              /\ o[i].number = object[i].number /\ o[i].session = object[i].session
              /\ o[i].hp = object[i].hp,
           objects' \subseteq Ids,
           \A i \in Ids : ~IsPlayer(i) => (i \in objects' <=> i \in objects),
           Pushed' = Pushed,
           \A k, l \in DOMAIN jobs' : EnterAt(k)' /\ EnterAt(l)' /\ jobs'[k].id = jobs'[l].id => k = l
    PROVE  /\ Kept /\ \A i \in Ids : object'[i] = o[i]
           /\ \A i \in Ids' \ Ids : ~IsPlayer(i)' /\ ~object'[i].room
           /\ monsters' \in [Numbers -> BOOLEAN]
           /\ Bodies' /\ OnTheWay' /\ Slots' /\ RespawnPending' /\ RewardPerKill'
<1>0. PICK c, L : c = Cardinality(Empty) /\ L = Len(o)
  OBVIOUS
<1> DEFINE New == L + 1 .. L + c
<1>1. /\ object' \in Seq(Records) /\ L \in Nat /\ c \in Nat
      /\ Ids = 1 .. L /\ Ids' = 1 .. L + c
      /\ \A i \in Ids : object'[i] = o[i]
      /\ \A k \in 1 .. c : object'[L + k] = NewMonster(EmptyNumber(k))
  BY <1>0, MonstersMade DEF Ids
<1>2. Ids' = Ids \cup New /\ Ids \cap New = {}
  BY <1>1
<1>3. ASSUME NEW i \in New
      PROVE  \E k \in 1 .. c : i = L + k /\ object'[i] = NewMonster(EmptyNumber(k))
  <2>1. i - L \in 1 .. c /\ i = L + (i - L)
    BY <1>1
  <2> QED
    BY <1>1, <2>1
<1>4. \A k \in 1 .. c : L + k \in New
  BY <1>1
<1>5. Kept
  BY <1>1, <1>2 DEF Kept
<1>6. \A k \in 1 .. c : EmptyNumber(k) \in Numbers /\ ~monsters[EmptyNumber(k)]
  BY <1>0, EmptyNumbered DEF Empty
<1>7. ASSUME NEW i \in New
      PROVE  /\ object'[i].kind = "monster" /\ ~IsPlayer(i)' /\ object'[i].session = None
             /\ object'[i].nickname = None
             /\ object'[i].number \in Numbers /\ ~monsters[object'[i].number]
             /\ object'[i].hp = Hp["monster"] /\ ~object'[i].room
  <2>1. PICK n : n \in Numbers /\ ~monsters[n] /\ object'[i] = NewMonster(n)
    BY <1>3, <1>6
  <2>2. /\ object'[i].kind = "monster" /\ object'[i].number = n /\ object'[i].session = None
        /\ object'[i].hp = Hp["monster"] /\ object'[i].nickname = None
    BY <2>1, MonsterFields
  <2>3. ~object'[i].room
    BY <2>1, MonsterFields, Zenon
  <2> QED
    BY <2>1, <2>2, <2>3 DEF IsPlayer
<1>8. entries' = entries \cup New /\ monsters' = [n \in Numbers |-> TRUE]
  BY <1>0 DEF UpdateMonster, SlotsFilled
<1> HIDE DEF New
<1>9. Bodies'
  <2>1. Hp["monster"] \in 1 .. Hp["monster"]
    BY RoomAssumption
  <2>2. ASSUME NEW k \in Ids'
        PROVE  /\ IsPlayer(k)' => object'[k].nickname \in Nicknames /\ object'[k].session \in Sessions
               /\ ~IsPlayer(k)' => /\ object'[k].number \in Numbers'
                                   /\ object'[k].nickname = None /\ object'[k].session = None
               /\ object'[k].hp \in 1 .. Hp[object'[k].kind]
    <3>1. CASE k \in Ids
      <4>1. object'[k].hp = object[k].hp
        BY <1>1, <3>1
      <4> QED
        BY <1>5, <3>1, <4>1 DEF IInv, Bodies, Kept, IsPlayer, Numbers
    <3>2. CASE k \in New
      BY <1>7, <2>1, <3>2 DEF Numbers
    <3> QED
      BY <1>2, <3>1, <3>2
  <2> QED
    BY <1>1, <2>2 DEF Bodies, IsPlayer
<1>10. OnTheWay'
  <2>1. ASSUME NEW i \in entries' \cup Pushed' PROVE i \in Ids' /\ ~IsPlayer(i)' /\ i \notin objects'
    <3>1. CASE i \in entries \cup Pushed
      BY <1>5, <3>1 DEF IInv, OnTheWay, Kept, IsPlayer
    <3>2. CASE i \in New
      BY <1>2, <1>7, <3>2
    <3> QED
      BY <1>8, <3>1, <3>2
  <2>2. entries' \cap Pushed' = {}
    BY <1>2, <1>8 DEF IInv, OnTheWay
  <2> QED
    BY <2>1, <2>2 DEF OnTheWay, EnterAt, IsPlayer
<1>11. Alive' = Alive \cup New
  <2>1. objects' \cup Coming' = objects' \cup Coming \cup New
    BY <1>8, ComingIs
  <2>2. ASSUME NEW i \in Ids, ~IsPlayer(i) PROVE i \in Alive' <=> i \in Alive
    BY <1>2, <1>5, <2>1, <2>2 DEF Alive, Kept, IsPlayer
  <2>3. ASSUME NEW i \in New PROVE i \in Alive'
    BY <1>2, <1>7, <2>1 DEF Alive, IsPlayer
  <2>4. ASSUME NEW i \in Alive' PROVE i \in Alive \cup New
    BY <1>2, <1>5, <2>2 DEF Alive, Kept, IsPlayer
  <2>5. Alive \subseteq Alive'
    BY <2>2 DEF Alive
  <2> QED
    BY <2>3, <2>4, <2>5
<1>12. \A i \in Alive : i \in Ids /\ object'[i].number = object[i].number
  BY <1>5 DEF Kept, Alive
<1>13. Slots'
  <2>1. ASSUME NEW n \in Numbers PROVE \E i \in Alive' : object'[i].number = n
    <3>1. CASE monsters[n]
      BY <1>11, <1>12, <3>1 DEF IInv, Slots
    <3>2. CASE ~monsters[n]
      <4>1. PICK k \in 1 .. c : EmptyNumber(k) = n
        BY <1>0, <3>2, EmptyNumbered DEF Empty
      <4>2. L + k \in New /\ object'[L + k].number = n
        BY <1>1, <1>4, <4>1, MonsterFields
      <4> QED
        BY <1>11, <4>2
    <3> QED
      BY <3>1, <3>2
  <2>2. ASSUME NEW i \in Alive', NEW k \in Alive', object'[i].number = object'[k].number
        PROVE  i = k
    <3>1. \A x \in Alive : object[x].number \in Numbers => monsters[object[x].number]
      BY DEF IInv, Slots
    <3>2. CASE i \in Alive /\ k \in Alive
      BY <1>12, <2>2, <3>2 DEF IInv, Slots
    <3>3. ASSUME NEW x \in Alive, NEW y \in New, object'[x].number = object'[y].number PROVE FALSE
      BY <1>7, <1>12, <3>1, <3>3
    <3>4. CASE i \in New /\ k \in New
      <4>1. PICK x \in 1 .. c : i = L + x /\ object'[i].number = EmptyNumber(x)
        <5>1. PICK z \in 1 .. c : i = L + z /\ object'[i] = NewMonster(EmptyNumber(z))
          BY <1>3, <3>4
        <5> QED
          BY <5>1, MonsterFields
      <4>2. PICK y \in 1 .. c : k = L + y /\ object'[k].number = EmptyNumber(y)
        <5>1. PICK z \in 1 .. c : k = L + z /\ object'[k] = NewMonster(EmptyNumber(z))
          BY <1>3, <3>4
        <5> QED
          BY <5>1, MonsterFields
      <4>3. x = y
        BY <1>0, <2>2, <4>1, <4>2, EmptyNumbered
      <4> QED
        BY <4>1, <4>2, <4>3
    <3> QED
      BY <1>11, <2>2, <3>2, <3>3, <3>4
  <2> QED
    BY <1>8, <2>1, <2>2 DEF Slots, Numbers
<1>14. RespawnPending'
  BY <1>8 DEF RespawnPending, Numbers
<1>15. RewardPerKill'
  <2>1. {i \in Ids : ~IsPlayer(i) /\ i \notin Alive}' = {i \in Ids : ~IsPlayer(i) /\ i \notin Alive}
    BY <1>2, <1>5, <1>11 DEF Kept, IsPlayer
  <2> QED
    BY <2>1 DEF IInv, RewardPerKill
<1>16. monsters' \in [Numbers -> BOOLEAN]
  BY <1>8
<1>17. \A i \in Ids' \ Ids : ~IsPlayer(i)' /\ ~object'[i].room
  BY <1>2, <1>7
<1> QED
  BY <1>1, <1>5, <1>9, <1>10, <1>13, <1>14, <1>15, <1>16, <1>17

\* The clients that were there see the new object, its own client all of them.
LEMMA EnterSeen ==
    ASSUME IInv, NEW i \in Ids, EnterRoom(i), UNCHANGED connected, Kept,
           \A k \in Ids : object'[k].hp = object[k].hp /\ object'[k].pos = object[k].pos
    PROVE  /\ ClientsSeeTheRoom' /\ DOMAIN view' = Sessions
           /\ \A s \in Sessions : DOMAIN view'[s] \subseteq Ids'
<1> DEFINE now == objects \cup {i}
<1>1. objects' = now /\ objects \subseteq Ids /\ Ids \subseteq Ids' /\ now \subseteq Ids
  BY DEF EnterRoom, IInv, Typed, Kept
<1>2. view' = [s \in Sessions |->
                  IF s \in Own(i) THEN SpawnList(i)
                  ELSE IF s \in Audience(objects) THEN Spawned(view[s], i)
                  ELSE view[s]]
  BY DEF EnterRoom
<1>3. \A k \in now : Info(k)' = Info(k)
  BY <1>1, InfoKept
<1>4. ASSUME NEW s \in Sessions, s \in Audience(objects)'
      PROVE  s \in Own(i) \/ s \in Audience(objects)
  BY <1>1, <1>4 DEF Audience, Own, Kept, IsPlayer
<1>5. SpawnList(i) = [k \in now |-> Info(k)]
  BY DEF SpawnList
<1>6. ASSUME NEW s \in Audience(objects) PROVE Spawned(view[s], i) = [k \in now |-> Info(k)]
  <2>1. view[s] = [k \in objects |-> Info(k)]
    BY DEF IInv, ClientsSeeTheRoom
  <2> QED
    BY <2>1 DEF Spawned
<1>7. ASSUME NEW s \in Sessions, s \in Audience(objects)'
      PROVE  view'[s] = [k \in objects' |-> Info(k)']
  <2>1. view'[s] = [k \in now |-> Info(k)]
    BY <1>2, <1>4, <1>5, <1>6, <1>7
  <2> QED
    BY <1>1, <1>3, <2>1
<1>8. Audience(objects)' \subseteq Sessions
  BY DEF Audience
<1>9. ASSUME NEW s \in Sessions PROVE DOMAIN view'[s] \subseteq Ids'
  <2>1. DOMAIN view[s] \subseteq Ids /\ DOMAIN Spawned(view[s], i) = DOMAIN view[s] \cup {i}
    BY DEF IInv, Typed, Spawned
  <2>2. DOMAIN SpawnList(i) = now
    BY DEF SpawnList
  <2>3. view'[s] \in {SpawnList(i), Spawned(view[s], i), view[s]}
    BY <1>2
  <2> QED
    BY <1>1, <2>1, <2>2, <2>3
<1>10. DOMAIN view' = Sessions
  BY <1>2
<1> QED
  BY <1>7, <1>8, <1>9, <1>10 DEF ClientsSeeTheRoom, Info

\* Those who stay see the object go.
LEMMA LeaveSeen ==
    ASSUME IInv, NEW i \in Ids, LeaveRoom(i), UNCHANGED connected, Kept,
           \A k \in Ids : object'[k].hp = object[k].hp /\ object'[k].pos = object[k].pos
    PROVE  /\ ClientsSeeTheRoom' /\ DOMAIN view' = Sessions
           /\ \A s \in Sessions : DOMAIN view'[s] \subseteq Ids'
<1> DEFINE now == objects \ {i}
<1>1. objects' = now /\ objects \subseteq Ids /\ Ids \subseteq Ids' /\ now \subseteq Ids
  BY DEF LeaveRoom, IInv, Typed, Kept
<1>2. view' = [s \in Sessions |->
                  IF s \in Audience(now) \cup Own(i) THEN Despawned(view[s], i) ELSE view[s]]
  BY DEF LeaveRoom
<1>3. \A k \in now : Info(k)' = Info(k)
  BY <1>1, InfoKept
<1>4. ASSUME NEW s \in Sessions, s \in Audience(objects)'
      PROVE  s \in Audience(now) /\ s \in Audience(objects)
  BY <1>1, <1>4 DEF Audience, Kept, IsPlayer
<1>5. ASSUME NEW s \in Audience(objects) PROVE Despawned(view[s], i) = [k \in now |-> Info(k)]
  <2>1. view[s] = [k \in objects |-> Info(k)]
    BY DEF IInv, ClientsSeeTheRoom
  <2> QED
    BY <2>1 DEF Despawned
<1>6. ASSUME NEW s \in Sessions, s \in Audience(objects)'
      PROVE  view'[s] = [k \in objects' |-> Info(k)']
  <2>1. view'[s] = [k \in now |-> Info(k)]
    BY <1>2, <1>4, <1>5, <1>6
  <2> QED
    BY <1>1, <1>3, <2>1
<1>7. Audience(objects)' \subseteq Sessions
  BY DEF Audience
<1>8. ASSUME NEW s \in Sessions PROVE DOMAIN view'[s] \subseteq Ids'
  <2>1. DOMAIN view[s] \subseteq Ids /\ DOMAIN Despawned(view[s], i) = DOMAIN view[s] \ {i}
    BY DEF IInv, Typed, Despawned
  <2>2. view'[s] \in {Despawned(view[s], i), view[s]}
    BY <1>2
  <2> QED
    BY <1>1, <2>1, <2>2
<1>9. DOMAIN view' = Sessions
  BY <1>2
<1> QED
  BY <1>6, <1>7, <1>8, <1>9 DEF ClientsSeeTheRoom, Info

\* Who leaves, leaves all three records.
LEMMA LeaveIndexes ==
    ASSUME IInv, NEW i \in Ids, LeaveRoom(i)
    PROVE  /\ Kept /\ Ids' = Ids /\ object' \in Seq(Records)
           /\ \A k \in Ids : object'[k].hp = object[k].hp /\ object'[k].pos = object[k].pos
           /\ IndexesAgree' /\ DOMAIN players' \subseteq Nicknames
<1>1. object \in Seq(Records) /\ objects' = objects \ {i} /\ objects \subseteq Ids
  BY DEF IInv, Bodies, Typed, LeaveRoom
<1>2. CASE i \in objects /\ IsPlayer(i)
  <2>1. /\ object' = ClearRoom(object, i)
        /\ players' = [n \in DOMAIN players \ {object[i].nickname} |-> players[n]]
    BY <1>2 DEF LeaveRoom, Found, ClearRoom
  <2>2. /\ object' \in Seq(Records) /\ Ids' = Ids /\ ~object'[i].room
        /\ \A k \in Ids : k # i => object'[k] = object[k]
        /\ \A k \in Ids :
              /\ object'[k].kind = object[k].kind /\ object'[k].nickname = object[k].nickname
              /\ object'[k].number = object[k].number /\ object'[k].session = object[k].session
              /\ object'[k].hp = object[k].hp /\ object'[k].pos = object[k].pos
    BY <1>1, <2>1, RoomCleared DEF Ids
  <2>3. Kept
    BY <2>2 DEF Kept
  <2>4. ASSUME NEW k \in Ids', IsPlayer(k)'
        PROVE  /\ object'[k].room <=> k \in objects'
               /\ k \in objects' => object'[k].nickname \in DOMAIN players'
                                    /\ players'[object'[k].nickname] = k
    <3>1. CASE k = i
      BY <1>1, <2>2, <3>1
    <3>2. CASE k # i
      BY <1>1, <1>2, <2>1, <2>2, <2>4, <3>2 DEF IInv, IndexesAgree, IsPlayer
    <3> QED
      BY <3>1, <3>2
  <2>5. ASSUME NEW n \in DOMAIN players'
        PROVE  players'[n] \in objects' /\ object'[players'[n]].nickname = n
    BY <1>1, <1>2, <2>1, <2>2 DEF IInv, IndexesAgree
  <2>6. IndexesAgree'
    BY <2>4, <2>5 DEF IndexesAgree, IsPlayer
  <2> QED
    BY <2>1, <2>2, <2>3, <2>6 DEF IInv, Typed
<1>3. CASE ~(i \in objects /\ IsPlayer(i))
  <2>1. UNCHANGED <<object, players>>
    BY <1>3 DEF LeaveRoom, Found
  <2>2. Kept /\ Ids' = Ids
    BY <2>1 DEF Kept, Ids
  <2>3. ASSUME NEW n \in DOMAIN players PROVE players[n] # i
    <3>1. players[n] \in objects /\ object[players[n]].nickname = n /\ n \in Nicknames
      BY DEF IInv, IndexesAgree, Typed
    <3> QED
      BY <1>3, <3>1, RoomAssumption DEF IInv, Bodies
  <2>4. IndexesAgree'
    BY <1>1, <1>3, <2>1, <2>2, <2>3 DEF IInv, IndexesAgree, IsPlayer
  <2> QED
    BY <1>1, <2>1, <2>2, <2>4 DEF IInv, Typed
<1> QED
  BY <1>2, <1>3

\* The monsters that are dead are finitely many.
LEMMA DeadFinite ==
    ASSUME Bodies
    PROVE  IsFiniteSet({i \in Ids : ~IsPlayer(i) /\ i \notin Alive})
<1>1. Len(object) \in Nat /\ Ids = 1 .. Len(object)
  BY LenProperties DEF Bodies, Ids
<1>2. IsFiniteSet(Ids)
  BY <1>1, FS_Interval
<1> QED
  BY <1>2, FS_Subset

\* LeaveRoom at the end of a job: of a player, there or not, or of a monster that
\* is there, with a reward.
LEMMA LeaveStep ==
    ASSUME IInv, NEW m, Run(m), m \notin {"HandleEnterMonster", "UpdateMonster"},
           NEW i \in Ids, LeaveRoom(i), IsPlayer(i) \/ i \in objects,
           NEW x \in Nicknames \cup {None},
           rewards' = IF IsPlayer(i) THEN rewards ELSE Append(rewards, x)
    PROVE  IInv'
<1>1. /\ Kept /\ Ids' = Ids /\ object' \in Seq(Records)
      /\ \A k \in Ids : object'[k].hp = object[k].hp /\ object'[k].pos = object[k].pos
      /\ IndexesAgree' /\ DOMAIN players' \subseteq Nicknames
  BY LeaveIndexes
<1>2. UNCHANGED <<player, connected, entries>>
  BY DEF Run, LeaveRoom
<1>3. /\ ClientsSeeTheRoom' /\ DOMAIN view' = Sessions
      /\ \A s \in Sessions : DOMAIN view'[s] \subseteq Ids'
  BY <1>1, <1>2, LeaveSeen
<1>4. Queued' /\ Known' /\ Bodies'
  BY <1>1, <1>2, QueuedRun, KnownKept, BodiesKept DEF IInv, Bodies
<1>5. objects' = objects \ {i} /\ objects \subseteq Ids
  BY DEF LeaveRoom, IInv, Typed
<1>6. /\ Pushed' = Pushed
      /\ \A k, l \in DOMAIN jobs' : EnterAt(k)' /\ EnterAt(l)' /\ jobs'[k].id = jobs'[l].id => k = l
  BY PushedRun DEF IInv
<1>7. OnTheWay'
  BY <1>1, <1>2, <1>5, <1>6 DEF IInv, OnTheWay, Kept, IsPlayer, EnterAt
<1>8. Coming' = Coming
  BY <1>2, <1>6, ComingIs
<1>9. CASE IsPlayer(i)
  <2>1. UNCHANGED <<monsters, rewards>> /\ respawns' = respawns + 0
    BY <1>9 DEF LeaveRoom, RespawnTimers
  <2>2. respawns' = respawns /\ respawns \in Nat
    BY <2>1 DEF IInv, Typed
  <2>3. SameAlive
    BY <1>1, <1>5, <1>8, <1>9 DEF SameAlive
  <2>4. Slots' /\ RewardPerKill' /\ RespawnPending'
    BY <1>1, <2>1, <2>2, <2>3, SlotsKept, RewardKept, PendingKept, UpdateWaits DEF IInv
  <2>5. Typed'
    BY <1>1, <1>2, <1>3, <1>5, <2>1, <2>2 DEF IInv, Typed, Numbers
  <2> QED
    BY <1>1, <1>3, <1>4, <1>7, <2>4, <2>5 DEF IInv
<1>10. CASE ~IsPlayer(i)
  <2>1. PICK n : n = object[i].number
    OBVIOUS
  <2>2. /\ i \in objects /\ n \in Numbers /\ monsters' = [monsters EXCEPT ![n] = FALSE]
        /\ rewards' = Append(rewards, x) /\ respawns' = respawns + 1
    BY <1>10, <2>1 DEF LeaveRoom, RespawnTimers, IInv, Bodies
  <2>3. i \notin Coming
    BY <2>2, ComingIs DEF IInv, OnTheWay
  <2>4. i \in Alive /\ Alive' = Alive \ {i}
    BY <1>1, <1>5, <1>8, <1>10, <2>2, <2>3 DEF Alive, Kept, IsPlayer
  <2>5. \A k \in Alive : object'[k].number = object[k].number
    BY <1>1 DEF Kept, Alive
  <2>6. monsters'[n] = FALSE /\ \A p \in Numbers : p # n => monsters'[p] = monsters[p]
    BY <2>2 DEF IInv, Typed
  <2>7. Slots'
    <3>1. ASSUME NEW p \in Numbers PROVE monsters'[p] <=> \E k \in Alive' : object'[k].number = p
      <4>1. CASE p = n
        BY <2>1, <2>4, <2>5, <2>6, <4>1 DEF IInv, Slots
      <4>2. CASE p # n
        BY <2>1, <2>4, <2>5, <2>6, <4>2 DEF IInv, Slots
      <4> QED
        BY <4>1, <4>2
    <3>2. \A k, l \in Alive' : object'[k].number = object'[l].number => k = l
      BY <2>4, <2>5 DEF IInv, Slots
    <3> QED
      BY <3>1, <3>2 DEF Slots, Numbers
  <2>8. respawns \in Nat /\ respawns' > 0 /\ respawns' \in Nat
    BY <2>2 DEF IInv, Typed
  <2>9. RespawnPending'
    BY <2>8 DEF RespawnPending
  <2>10. RewardPerKill'
    <3> DEFINE Dead == {k \in Ids : ~IsPlayer(k) /\ k \notin Alive}
    <3>1. Dead' = Dead \cup {i} /\ i \notin Dead
      BY <1>1, <1>10, <2>4 DEF Kept, IsPlayer
    <3>2. IsFiniteSet(Dead)
      BY DeadFinite DEF IInv
    <3>3. Len(rewards) = Cardinality(Dead) /\ rewards \in Seq(Nicknames \cup {None})
      BY DEF IInv, RewardPerKill, Typed
    <3>4. Len(rewards') = Len(rewards) + 1
      BY <2>2, <3>3, AppendProperties
    <3> HIDE DEF Dead
    <3>5. Cardinality(Dead \cup {i}) = Cardinality(Dead) + 1
      BY <3>1, <3>2, FS_AddElement
    <3>6. Cardinality(Dead') = Cardinality(Dead) + 1
      BY <3>1, <3>5
    <3> QED
      BY <3>3, <3>4, <3>6 DEF Dead, RewardPerKill
  <2>11. Typed'
    <3>1. rewards' \in Seq(Nicknames \cup {None})
      BY <2>2, AppendProperties DEF IInv, Typed
    <3>2. monsters' \in [Numbers -> BOOLEAN]
      BY <2>2 DEF IInv, Typed
    <3> QED
      BY <1>1, <1>2, <1>3, <1>5, <2>8, <3>1, <3>2 DEF IInv, Typed, Numbers
  <2> QED
    BY <1>1, <1>3, <1>4, <1>7, <2>7, <2>9, <2>10, <2>11 DEF IInv
<1> QED
  BY <1>9, <1>10

\* Who enters, enters all three records.
LEMMA EnterIndexes ==
    ASSUME IInv, NEW i \in Ids, CanAdd(i), EnterRoom(i), Kept,
           object'[i].room, \A k \in Ids : k # i => object'[k] = object[k],
           \A k \in Ids' \ Ids : ~IsPlayer(k)'
    PROVE  IndexesAgree' /\ DOMAIN players' \subseteq Nicknames
<1>1. /\ objects' = objects \cup {i} /\ objects \subseteq Ids /\ i \notin objects
      /\ DOMAIN players \subseteq Nicknames
  BY DEF IInv, Typed, EnterRoom, CanAdd
<1>2. CASE IsPlayer(i)
  <2>1. PICK x : x = object[i].nickname
    OBVIOUS
  <2>2. /\ x \in Nicknames /\ x \notin DOMAIN players
        /\ players' = [n \in DOMAIN players \cup {x} |-> IF n = x THEN i ELSE players[n]]
    BY <1>2, <2>1 DEF IInv, Bodies, CanAdd, EnterRoom
  <2>3. /\ DOMAIN players' = DOMAIN players \cup {x} /\ players'[x] = i
        /\ \A n \in DOMAIN players : players'[n] = players[n] /\ n # x
    BY <2>2
  <2>4. ASSUME NEW k \in Ids', IsPlayer(k)'
        PROVE  /\ object'[k].room <=> k \in objects'
               /\ k \in objects' => object'[k].nickname \in DOMAIN players'
                                    /\ players'[object'[k].nickname] = k
    <3>1. k \in Ids /\ object'[k].nickname = object[k].nickname /\ IsPlayer(k)
      BY <2>4 DEF Kept, IsPlayer
    <3>2. CASE k = i
      BY <1>1, <2>1, <2>3, <3>1, <3>2
    <3>3. CASE k # i
      <4>1. object'[k].room <=> k \in objects
        BY <3>1, <3>3 DEF IInv, IndexesAgree
      <4>2. k \in objects => object[k].nickname \in DOMAIN players /\ players[object[k].nickname] = k
        BY <3>1 DEF IInv, IndexesAgree
      <4> QED
        BY <1>1, <2>3, <3>1, <3>3, <4>1, <4>2
    <3> QED
      BY <3>2, <3>3
  <2>5. ASSUME NEW n \in DOMAIN players'
        PROVE  players'[n] \in objects' /\ object'[players'[n]].nickname = n
    BY <1>1, <2>1, <2>3 DEF IInv, IndexesAgree, Kept
  <2> QED
    BY <1>1, <2>2, <2>3, <2>4, <2>5 DEF IndexesAgree, IsPlayer
<1>3. CASE ~IsPlayer(i)
  <2>1. players' = players
    BY <1>3 DEF EnterRoom
  <2>2. ASSUME NEW k \in Ids', IsPlayer(k)'
        PROVE  /\ object'[k].room <=> k \in objects'
               /\ k \in objects' => object'[k].nickname \in DOMAIN players'
                                    /\ players'[object'[k].nickname] = k
    <3>1. k \in Ids /\ k # i /\ object'[k] = object[k] /\ IsPlayer(k)
      BY <1>3, <2>2 DEF Kept, IsPlayer
    <3> QED
      BY <1>1, <2>1, <3>1 DEF IInv, IndexesAgree
  <2>3. ASSUME NEW n \in DOMAIN players'
        PROVE  players'[n] \in objects' /\ object'[players'[n]].nickname = n
    BY <1>1, <2>1 DEF IInv, IndexesAgree, Kept
  <2> QED
    BY <1>1, <2>1, <2>2, <2>3 DEF IndexesAgree, IsPlayer
<1> QED
  BY <1>2, <1>3

-----------------------------------------------------------------------------
(* The jobs of the room *)

\* A job that finds nothing to do: a player refused, an object that is gone.
LEMMA RunNothing ==
    ASSUME IInv, NEW m, Run(m), m \notin {"HandleEnterMonster", "UpdateMonster"},
           UNCHANGED <<object, roomVars>>
    PROVE  IInv'
<1>1. UNCHANGED <<object, objects, players, monsters, entries, respawns, view, rewards,
                  player, connected>>
  BY DEF Run, roomVars
<1>2. Kept /\ Ids' = Ids
  BY <1>1 DEF Kept, Ids
<1>3. Queued'
  BY <1>2, QueuedRun DEF IInv
<1>4. /\ Pushed' = Pushed
      /\ \A k, l \in DOMAIN jobs' : EnterAt(k)' /\ EnterAt(l)' /\ jobs'[k].id = jobs'[l].id => k = l
  BY PushedRun DEF IInv
<1>5. OnTheWay'
  BY <1>1, <1>4 DEF IInv, OnTheWay, IsPlayer, Ids, EnterAt
<1>6. Bodies' /\ Known' /\ Typed' /\ IndexesAgree'
  BY <1>1 DEF IInv, Bodies, Known, Typed, IndexesAgree, IsPlayer, Ids, Numbers
<1>7. SameAlive
  BY <1>1, <1>4, ComingIs DEF SameAlive, Ids
<1>8. Slots' /\ RewardPerKill' /\ RespawnPending'
  BY <1>1, <1>2, <1>7, SlotsKept, RewardKept, PendingKept, UpdateWaits DEF IInv
<1>9. ClientsSeeTheRoom'
  BY <1>1, <1>2, SeenKept DEF IInv
<1> QED
  BY <1>3, <1>5, <1>6, <1>8, <1>9 DEF IInv

\* A player enters, and the empty slots are filled; or it is refused.
LEMMA HandleEnterPlayerStep == ASSUME IInv, HandleEnterPlayer PROVE IInv'
<1>1. PICK i : i = job.id
  OBVIOUS
<1>2. Run("HandleEnterPlayer")
  BY DEF HandleEnterPlayer
<1>3. i \in Ids /\ IsPlayer(i)
  BY <1>1, <1>2, RunTakes DEF IInv, WellFormed
<1>4. CASE CanAdd(i) /\ EnterRoom(i) /\ UpdateMonster(Entered(i)) /\ UNCHANGED rewards
  <2>1. PICK o : o = SetRoom(object, i)
    OBVIOUS
  <2>2. UpdateMonster(o)
    BY <1>4, <2>1 DEF Entered, SetRoom
  <2>3. /\ o \in Seq(Records) /\ DOMAIN o = Ids /\ o[i].room
        /\ \A k \in Ids : k # i => o[k] = object[k]
        /\ \A k \in Ids :
              /\ o[k].kind = object[k].kind /\ o[k].nickname = object[k].nickname
              /\ o[k].number = object[k].number /\ o[k].session = object[k].session
              /\ o[k].hp = object[k].hp /\ o[k].pos = object[k].pos
    BY <1>3, <2>1, RoomEntered DEF IInv, Bodies, Ids
  <2>4. objects' = objects \cup {i} /\ objects \subseteq Ids
    BY <1>4 DEF EnterRoom, IInv, Typed
  <2>5. /\ Pushed' = Pushed
        /\ \A k, l \in DOMAIN jobs' :
              EnterAt(k)' /\ EnterAt(l)' /\ jobs'[k].id = jobs'[l].id => k = l
    BY <1>2, PushedRun DEF IInv
  <2>6. /\ Kept /\ \A k \in Ids : object'[k] = o[k]
        /\ \A k \in Ids' \ Ids : ~IsPlayer(k)' /\ ~object'[k].room
        /\ monsters' \in [Numbers -> BOOLEAN]
        /\ Bodies' /\ OnTheWay' /\ Slots' /\ RespawnPending' /\ RewardPerKill'
    <3>1. \A k \in Ids : ~IsPlayer(k) => (k \in objects' <=> k \in objects)
      BY <1>3, <2>4
    <3>2. objects' \subseteq Ids /\ UNCHANGED rewards
      BY <1>3, <1>4, <2>4
    <3> QED
      BY <2>2, <2>3, <2>5, <3>1, <3>2, SlotsFill
  <2>7. UNCHANGED <<player, connected, respawns>>
    BY <1>2, <2>2 DEF Run, UpdateMonster
  <2>8. Queued' /\ Known'
    BY <1>2, <2>6, <2>7, QueuedRun, KnownKept DEF IInv
  <2>9. /\ ClientsSeeTheRoom' /\ DOMAIN view' = Sessions
        /\ \A s \in Sessions : DOMAIN view'[s] \subseteq Ids'
    <3>1. \A k \in Ids : object'[k].hp = object[k].hp /\ object'[k].pos = object[k].pos
      BY <2>3, <2>6
    <3> QED
      BY <1>3, <1>4, <2>6, <2>7, <3>1, EnterSeen
  <2>10. IndexesAgree' /\ DOMAIN players' \subseteq Nicknames
    <3>1. object'[i].room
      BY <1>3, <2>3, <2>6, Zenon
    <3>2. \A k \in Ids : k # i => object'[k] = object[k]
      BY <2>3, <2>6
    <3> QED
      BY <1>3, <1>4, <2>6, <3>1, <3>2, EnterIndexes
  <2>11. Ids \subseteq Ids'
    BY <2>6 DEF Kept
  <2>12. Typed'
    BY <1>3, <1>4, <2>4, <2>6, <2>7, <2>9, <2>10, <2>11 DEF IInv, Typed, Numbers
  <2> QED
    BY <2>6, <2>8, <2>9, <2>10, <2>12 DEF IInv
<1>5. CASE UNCHANGED <<object, roomVars>>
  BY <1>2, <1>5, RunNothing
<1> QED
  BY <1>1, <1>4, <1>5 DEF HandleEnterPlayer

\* A monster goes from the queue into the room.
LEMMA HandleEnterMonsterStep == ASSUME IInv, HandleEnterMonster PROVE IInv'
<1>1. PICK i : i = job.id
  OBVIOUS
<1>2. Run("HandleEnterMonster")
  BY DEF HandleEnterMonster
<1>3. /\ Pushed' = Pushed \ {i} /\ i \in Pushed
      /\ \A k, l \in DOMAIN jobs' : EnterAt(k)' /\ EnterAt(l)' /\ jobs'[k].id = jobs'[l].id => k = l
  BY <1>1, <1>2, PushedEnter DEF IInv
<1>4. i \in Ids /\ ~IsPlayer(i) /\ i \notin objects /\ CanAdd(i) /\ i \notin entries
  BY <1>3 DEF IInv, OnTheWay, CanAdd
<1>5. /\ EnterRoom(i) /\ object' = SetRoom(object, i)
      /\ UNCHANGED <<monsters, entries, respawns, rewards, player, connected>>
  BY <1>1, <1>2, <1>4 DEF HandleEnterMonster, Run, Entered, SetRoom
<1>6. /\ object' \in Seq(Records) /\ Ids' = Ids /\ object'[i].room
      /\ \A k \in Ids : k # i => object'[k] = object[k]
      /\ \A k \in Ids :
            /\ object'[k].kind = object[k].kind /\ object'[k].nickname = object[k].nickname
            /\ object'[k].number = object[k].number /\ object'[k].session = object[k].session
            /\ object'[k].hp = object[k].hp /\ object'[k].pos = object[k].pos
  BY <1>4, <1>5, RoomEntered DEF IInv, Bodies, Ids
<1>7. Kept
  BY <1>6 DEF Kept
<1>8. Bodies' /\ Queued' /\ Known'
  BY <1>2, <1>5, <1>6, <1>7, BodiesKept, QueuedRun, KnownKept DEF IInv, Bodies
<1>9. objects' = objects \cup {i} /\ objects \subseteq Ids
  BY <1>5 DEF EnterRoom, IInv, Typed
<1>10. OnTheWay'
  BY <1>3, <1>4, <1>5, <1>6, <1>7, <1>9 DEF IInv, OnTheWay, Kept, IsPlayer, EnterAt
<1>11. objects' \cup Coming' = objects \cup Coming
  BY <1>3, <1>5, <1>9, ComingIs
<1>12. SameAlive
  BY <1>6, <1>11 DEF SameAlive
<1>13. Slots' /\ RewardPerKill' /\ RespawnPending'
  BY <1>2, <1>5, <1>7, <1>12, SlotsKept, RewardKept, PendingKept, UpdateWaits DEF IInv
<1>14. /\ ClientsSeeTheRoom' /\ DOMAIN view' = Sessions
       /\ \A s \in Sessions : DOMAIN view'[s] \subseteq Ids'
  BY <1>4, <1>5, <1>6, <1>7, EnterSeen
<1>15. IndexesAgree' /\ DOMAIN players' \subseteq Nicknames
  BY <1>4, <1>5, <1>6, <1>7, EnterIndexes
<1>16. Typed'
  BY <1>4, <1>5, <1>6, <1>9, <1>14, <1>15 DEF IInv, Typed, Numbers
<1> QED
  BY <1>8, <1>10, <1>13, <1>14, <1>15, <1>16 DEF IInv

\* A player leaves, or has left before.
LEMMA HandleLeavePlayerStep == ASSUME IInv, HandleLeavePlayer PROVE IInv'
<1>1. PICK i : i = job.id
  OBVIOUS
<1>2. Run("HandleLeavePlayer") /\ LeaveRoom(i) /\ UNCHANGED rewards
  BY <1>1 DEF HandleLeavePlayer
<1>3. i \in Ids /\ IsPlayer(i)
  BY <1>1, <1>2, RunTakes DEF IInv, WellFormed
<1>4. None \in Nicknames \cup {None} /\ rewards' = IF IsPlayer(i) THEN rewards ELSE Append(rewards, None)
  BY <1>2, <1>3
<1> QED
  BY <1>2, <1>3, <1>4, LeaveStep

\* The empty slots are filled, which nobody in the room notices yet.
LEMMA RunUpdateMonsterStep == ASSUME IInv, RunUpdateMonster PROVE IInv'
<1>1. /\ Run("UpdateMonster") /\ UpdateMonster(object)
      /\ UNCHANGED <<objects, players, view, rewards>>
  BY DEF RunUpdateMonster
<1>2. PICK o : o = object
  OBVIOUS
<1>3. o \in Seq(Records) /\ DOMAIN o = Ids /\ UpdateMonster(o) /\ objects \subseteq Ids
  BY <1>1, <1>2 DEF IInv, Bodies, Ids, Typed
<1>4. /\ Pushed' = Pushed
      /\ \A k, l \in DOMAIN jobs' : EnterAt(k)' /\ EnterAt(l)' /\ jobs'[k].id = jobs'[l].id => k = l
  BY <1>1, PushedRun DEF IInv
<1>5. /\ Kept /\ \A k \in Ids : object'[k] = o[k]
      /\ \A k \in Ids' \ Ids : ~IsPlayer(k)' /\ ~object'[k].room
      /\ monsters' \in [Numbers -> BOOLEAN]
      /\ Bodies' /\ OnTheWay' /\ Slots' /\ RespawnPending' /\ RewardPerKill'
  BY <1>1, <1>2, <1>3, <1>4, SlotsFill
<1>6. UNCHANGED <<player, connected, respawns>>
  BY <1>1 DEF Run, UpdateMonster
<1>7. Queued' /\ Known'
  BY <1>1, <1>5, <1>6, QueuedRun, KnownKept DEF IInv
<1>8. \A k \in Ids : object'[k] = object[k]
  BY <1>2, <1>5
<1>9. ClientsSeeTheRoom'
  BY <1>1, <1>3, <1>5, <1>6, <1>8, SeenKept DEF IInv
<1>10. IndexesAgree'
  BY <1>1, <1>5, <1>8, IndexesKept DEF IInv
<1>11. Ids \subseteq Ids'
  BY <1>5 DEF Kept
<1>12. Typed'
  BY <1>1, <1>5, <1>6, <1>11 DEF IInv, Typed, Numbers
<1> QED
  BY <1>5, <1>7, <1>9, <1>10, <1>12 DEF IInv

\* An object in the room gets another position or another hp, and those who are
\* there are told.
LEMMA ChangeStep ==
    ASSUME IInv, NEW m, Run(m), m \notin {"HandleEnterMonster", "UpdateMonster"},
           object' \in Seq(Records), Ids' = Ids,
           \A k \in Ids :
              /\ object'[k].kind = object[k].kind /\ object'[k].nickname = object[k].nickname
              /\ object'[k].number = object[k].number /\ object'[k].session = object[k].session
              /\ object'[k].room = object[k].room /\ object'[k].hp \in 1 .. Hp[object[k].kind],
           UNCHANGED <<objects, players, monsters, entries, respawns, rewards>>,
           DOMAIN view' = Sessions,
           \A s \in Sessions : DOMAIN view'[s] = DOMAIN view[s],
           \A s \in Audience(objects) : view'[s] = [k \in objects |-> Info(k)']
    PROVE  IInv'
<1>1. UNCHANGED <<player, connected>>
  BY DEF Run
<1>2. Kept
  BY DEF Kept
<1>3. Bodies' /\ Queued' /\ Known'
  BY <1>1, <1>2, BodiesKept, QueuedRun, KnownKept DEF IInv
<1>4. /\ Pushed' = Pushed
      /\ \A k, l \in DOMAIN jobs' : EnterAt(k)' /\ EnterAt(l)' /\ jobs'[k].id = jobs'[l].id => k = l
  BY PushedRun DEF IInv
<1>5. OnTheWay'
  BY <1>2, <1>4 DEF IInv, OnTheWay, Kept, IsPlayer, EnterAt
<1>6. SameAlive
  BY <1>4, ComingIs DEF SameAlive
<1>7. Slots' /\ RewardPerKill' /\ RespawnPending'
  BY <1>2, <1>6, SlotsKept, RewardKept, PendingKept, UpdateWaits DEF IInv
<1>8. IndexesAgree'
  BY <1>2, IndexesKept DEF IInv
<1>9. Typed'
  BY <1>1 DEF IInv, Typed, Numbers
<1>10. Audience(objects)' \subseteq Audience(objects)
  BY <1>1 DEF Audience, IsPlayer, IInv, Typed
<1>11. ClientsSeeTheRoom'
  BY <1>10 DEF ClientsSeeTheRoom, Info
<1> QED
  BY <1>3, <1>5, <1>7, <1>8, <1>9, <1>11 DEF IInv

\* An object in the room moves.
LEMMA HandleMoveStep == ASSUME IInv, HandleMove PROVE IInv'
<1>1. PICK i, v : i = job.id /\ v = job.arg
  OBVIOUS
<1>2. Run("HandleMove") /\ UNCHANGED <<objects, players, monsters, entries, respawns, rewards>>
  BY DEF HandleMove
<1>3. i \in Ids /\ v \in Positions
  BY <1>1, <1>2, RunTakes DEF IInv, WellFormed
<1>4. CASE i \in objects
  <2>1. /\ object' = SetPos(object, i, v)
        /\ view' = [s \in Sessions |->
                       IF s \in Audience(objects) /\ i \in DOMAIN view[s]
                       THEN [view[s] EXCEPT ![i].pos = v] ELSE view[s]]
    BY <1>1, <1>4 DEF HandleMove, SetPos
  <2>2. /\ object' \in Seq(Records) /\ Ids' = Ids /\ object'[i].pos = v
        /\ \A k \in Ids : k # i => object'[k] = object[k]
        /\ \A k \in Ids :
              /\ object'[k].kind = object[k].kind /\ object'[k].nickname = object[k].nickname
              /\ object'[k].number = object[k].number /\ object'[k].session = object[k].session
              /\ object'[k].hp = object[k].hp /\ object'[k].room = object[k].room
    BY <1>3, <2>1, PosSet DEF IInv, Bodies, Ids
  <2>3. \A k \in Ids : object'[k].hp \in 1 .. Hp[object[k].kind]
    BY <2>2 DEF IInv, Bodies
  <2>4. ASSUME NEW s \in Audience(objects) PROVE view'[s] = [k \in objects |-> Info(k)']
    <3>1. view[s] = [k \in objects |-> Info(k)] /\ s \in Sessions
      BY DEF IInv, ClientsSeeTheRoom, Audience
    <3>2. view'[s] = [view[s] EXCEPT ![i].pos = v]
      BY <1>4, <2>1, <3>1
    <3>3. [Info(i) EXCEPT !.pos = v] = Info(i)'
      BY <1>3, <2>2 DEF Info
    <3>4. ASSUME NEW k \in objects, k # i PROVE Info(k)' = Info(k)
      BY <2>2, <3>4 DEF Info, IInv, Typed
    <3>5. view'[s] = [k \in objects |-> IF k = i THEN [Info(i) EXCEPT !.pos = v] ELSE Info(k)]
      BY <1>4, <3>1, <3>2
    <3> QED
      BY <3>3, <3>4, <3>5
  <2>5. DOMAIN view' = Sessions /\ \A s \in Sessions : DOMAIN view'[s] = DOMAIN view[s]
    BY <2>1
  <2> QED
    BY <1>2, <2>2, <2>3, <2>4, <2>5, ChangeStep
<1>5. CASE i \notin objects
  <2>1. UNCHANGED <<object, roomVars>>
    BY <1>1, <1>2, <1>5 DEF HandleMove, roomVars
  <2> QED
    BY <1>2, <2>1, RunNothing
<1> QED
  BY <1>4, <1>5

\* An attack misses, kills or hurts.
LEMMA HandleAttackStep == ASSUME IInv, HandleAttack PROVE IInv'
<1>1. PICK a, i, d : a = job.id /\ i = job.arg /\ d = Damage[object[a].kind]
  OBVIOUS
<1>2. Run("HandleAttack")
  BY DEF HandleAttack
<1>3. a \in Ids /\ i \in Ids
  BY <1>1, <1>2, RunTakes DEF IInv, WellFormed
<1>4. object[a] \in Records /\ object[i] \in Records
  BY <1>3, ElementOfSeq, LenProperties DEF IInv, Bodies, Ids
<1>5. d \in Nat /\ object[a].nickname \in Nicknames \cup {None} /\ object[i].hp \in Nat
  <2>1. object[a].kind \in {"player", "monster"}
    BY <1>4 DEF Records
  <2>2. d \in Nat
    BY <1>1, <2>1, RoomAssumption
  <2> QED
    BY <1>4, <2>2 DEF Records
<1>6. CASE UNCHANGED <<object, roomVars>>
  BY <1>2, <1>6, RunNothing
<1>7. CASE /\ BothPresent(a, i) /\ LeaveRoom(i)
           /\ rewards' = IF IsPlayer(i) THEN rewards ELSE Append(rewards, object[a].nickname)
  <2>1. PICK x \in Nicknames \cup {None} : x = object[a].nickname
    BY <1>5
  <2>2. i \in objects /\ rewards' = IF IsPlayer(i) THEN rewards ELSE Append(rewards, x)
    BY <1>7, <2>1 DEF BothPresent
  <2> QED
    BY <1>2, <1>3, <1>7, <2>2, LeaveStep
<1>8. CASE /\ BothPresent(a, i) /\ ~Dies(object[i].hp, d)
           /\ object' = [object EXCEPT ![i].hp = object[i].hp - d]
           /\ view' = [s \in Sessions |->
                          IF s \in Audience(objects) /\ i \in DOMAIN view[s]
                          THEN [view[s] EXCEPT ![i].hp = object[i].hp - d] ELSE view[s]]
           /\ UNCHANGED <<objects, players, monsters, entries, respawns, rewards>>
  <2>1. PICK h : h = object[i].hp - d
    OBVIOUS
  <2>2. i \in objects /\ h \in Nat /\ h \in 1 .. Hp[object[i].kind]
    <3>1. i \in objects /\ ~(object[i].hp <= d) /\ object[i].hp \in 1 .. Hp[object[i].kind]
      BY <1>3, <1>8 DEF BothPresent, Dies, IInv, Bodies
    <3>2. Hp[object[i].kind] \in Nat
      BY <1>4, RoomAssumption DEF Records
    <3> QED
      BY <1>5, <2>1, <3>1, <3>2
  <2>3. /\ object' = SetHp(object, i, h)
        /\ view' = [s \in Sessions |->
                       IF s \in Audience(objects) /\ i \in DOMAIN view[s]
                       THEN [view[s] EXCEPT ![i].hp = h] ELSE view[s]]
    BY <1>8, <2>1 DEF SetHp
  <2>4. /\ object' \in Seq(Records) /\ Ids' = Ids /\ object'[i].hp = h
        /\ \A k \in Ids : k # i => object'[k] = object[k]
        /\ \A k \in Ids :
              /\ object'[k].kind = object[k].kind /\ object'[k].nickname = object[k].nickname
              /\ object'[k].number = object[k].number /\ object'[k].session = object[k].session
              /\ object'[k].pos = object[k].pos /\ object'[k].room = object[k].room
    BY <1>3, <2>2, <2>3, HpSet DEF IInv, Bodies, Ids
  <2>5. \A k \in Ids : object'[k].hp \in 1 .. Hp[object[k].kind]
    BY <2>2, <2>4 DEF IInv, Bodies
  <2>6. ASSUME NEW s \in Audience(objects) PROVE view'[s] = [k \in objects |-> Info(k)']
    <3>1. view[s] = [k \in objects |-> Info(k)] /\ s \in Sessions
      BY DEF IInv, ClientsSeeTheRoom, Audience
    <3>2. view'[s] = [view[s] EXCEPT ![i].hp = h]
      BY <2>2, <2>3, <3>1
    <3>3. [Info(i) EXCEPT !.hp = h] = Info(i)'
      BY <1>3, <2>4 DEF Info
    <3>4. ASSUME NEW k \in objects, k # i PROVE Info(k)' = Info(k)
      BY <2>4, <3>4 DEF Info, IInv, Typed
    <3>5. view'[s] = [k \in objects |-> IF k = i THEN [Info(i) EXCEPT !.hp = h] ELSE Info(k)]
      BY <2>2, <3>1, <3>2
    <3> QED
      BY <3>3, <3>4, <3>5
  <2>7. DOMAIN view' = Sessions /\ \A s \in Sessions : DOMAIN view'[s] = DOMAIN view[s]
    BY <2>3
  <2> QED
    BY <1>2, <1>8, <2>4, <2>5, <2>6, <2>7, ChangeStep
<1> QED
  BY <1>1, <1>6, <1>7, <1>8 DEF HandleAttack

-----------------------------------------------------------------------------
(* The invariant and what follows from it *)

\* An empty room.
LEMMA InitIInv == Init => IInv
<1> SUFFICES ASSUME Init PROVE IInv
  OBVIOUS
<1>1. object = <<>> /\ jobs = <<>> /\ Ids = {} /\ DOMAIN jobs = {} /\ objects = {} /\ entries = {}
  BY DEF Init, Ids
<1>2. Bodies /\ Queued
  BY <1>1 DEF Init, Bodies, Queued
<1>3. DOMAIN Nothing = {}
  BY DEF Nothing
<1>4. Known /\ Typed
  BY <1>1, <1>3 DEF Init, Known, Typed
<1>5. Pushed = {} /\ Alive = {} /\ Coming = {}
  BY <1>1 DEF Pushed, Alive, Coming
<1>6. IndexesAgree /\ OnTheWay /\ RespawnPending
  BY <1>1, <1>3, <1>5 DEF Init, IndexesAgree, OnTheWay, RespawnPending
<1>7. Slots
  BY <1>5 DEF Init, Slots
<1>8. RewardPerKill
  <2>1. {i \in Ids : ~IsPlayer(i) /\ i \notin Alive} = {}
    BY <1>1
  <2>2. rewards = <<>> /\ Len(rewards) = 0
    BY DEF Init
  <2> QED
    BY <2>1, <2>2, FS_EmptySet DEF RewardPerKill
<1>9. ClientsSeeTheRoom
  BY <1>1 DEF ClientsSeeTheRoom, Audience
<1> QED
  BY <1>2, <1>4, <1>6, <1>7, <1>8, <1>9 DEF IInv

\* Nothing happens.
LEMMA StutterStep == IInv /\ UNCHANGED vars => IInv'
  BY DEF IInv, Bodies, Queued, Known, Typed, IndexesAgree, OnTheWay, Slots, RespawnPending,
     RewardPerKill, ClientsSeeTheRoom, vars, Ids, IsPlayer, WellFormed, OfClient, Numbers, EnterAt,
     Pushed, Coming, Alive, Audience, Info, UpdateMonsterJob, Job

\* Every step keeps the invariant.
THEOREM Inductive == Spec => []IInv
<1>1. IInv /\ [Next]_vars => IInv'
  <2> SUFFICES ASSUME IInv, [Next]_vars PROVE IInv'
    OBVIOUS
  <2>1. ASSUME NEW s \in Sessions, NEW n \in Nicknames, Handle_C_ENTER_GAME(s, n) PROVE IInv'
    BY <2>1, EnterGameStep
  <2>2. ASSUME NEW s \in Sessions,
               \/ Handle_C_LEAVE_GAME(s)
               \/ \E pos \in Positions : Handle_C_MOVE(s, pos)
               \/ \E a, v \in Ids : Handle_C_ATTACK(s, a, v)
        PROVE  IInv'
    BY <2>2, HandlersStep
  <2>3. ASSUME NEW s \in Sessions, DoAsync(s) PROVE IInv'
    BY <2>3, DoAsyncStep
  <2>4. ASSUME NEW s \in Sessions, Disconnect(s) PROVE IInv'
    BY <2>4, DisconnectStep
  <2>5. CASE Fire
    BY <2>5, FireRespawnStep, FireEntryStep DEF Fire
  <2>6. CASE RunJob
    BY <2>6, HandleEnterPlayerStep, HandleLeavePlayerStep, HandleEnterMonsterStep,
       RunUpdateMonsterStep, HandleMoveStep, HandleAttackStep DEF RunJob
  <2>7. CASE UNCHANGED vars
    BY <2>7, StutterStep
  <2> QED
    BY <2>1, <2>2, <2>3, <2>4, <2>5, <2>6, <2>7 DEF Next
<1> QED
  BY <1>1, InitIInv, PTL DEF Spec

\* Objects, jobs and timers are what the room takes them for: a job finds the
\* object it was made for, a monster has a slot, a player a session.
THEOREM TypeCorrect == Spec => []TypeOK
<1>1. IInv => TypeOK
  <2> SUFFICES ASSUME IInv PROVE TypeOK
    OBVIOUS
  <2>1. ASSUME NEW i \in Ids PROVE object[i] \in Records
    BY ElementOfSeq, LenProperties DEF IInv, Bodies, Ids
  <2>2. ASSUME NEW i \in Ids
        PROVE  /\ object[i].kind \in {"player", "monster"} /\ object[i].hp \in Nat
               /\ object[i].room \in BOOLEAN
    BY <2>1 DEF Records
  <2>3. ASSUME NEW i \in Ids
        PROVE  /\ IsPlayer(i) => object[i].nickname \in Nicknames /\ object[i].session \in Sessions
               /\ ~IsPlayer(i) => object[i].number \in Numbers
    BY DEF IInv, Bodies
  <2>4. ASSUME NEW k \in DOMAIN jobs PROVE jobs[k].method \in Methods /\ jobs[k].id \in Ids \cup {None}
    <3>1. WellFormed(jobs[k])
      BY DEF IInv, Queued
    <3> QED
      BY <3>1 DEF WellFormed, JobRecords, Methods, UpdateMonsterJob, Job
  <2>5. ASSUME NEW n \in DOMAIN players PROVE players[n] \in Ids
    BY DEF IInv, IndexesAgree, Typed
  <2>6. entries \subseteq Ids
    BY DEF IInv, OnTheWay
  <2>7. \A k \in DOMAIN rewards : rewards[k] \in Nicknames \cup {None}
    BY ElementOfSeq, LenProperties DEF IInv, Typed
  <2>8. player \in [Sessions -> Ids \cup {None}] /\ DOMAIN handling = Sessions
    BY DEF IInv, Known, Queued
  <2> QED
    BY <2>2, <2>3, <2>4, <2>5, <2>6, <2>7, <2>8 DEF IInv, Typed, TypeOK
<1> QED
  BY <1>1, Inductive, PTL

\* _objects, _players and the room pointer of a player agree, whatever the order
\* of the jobs: no handler lets a player act that RemoveObject has taken out.
THEOREM IndexesAgreeHolds == Spec => []IndexesAgree
<1>1. IInv => IndexesAgree
  BY DEF IInv
<1> QED
  BY <1>1, Inductive, PTL

\* A slot of _monsters is taken exactly when there is one monster of that number,
\* in the room or on its way: UpdateMonster makes no second one.
THEOREM SlotsAccurateHolds == Spec => []SlotsAccurate
<1>1. IInv => SlotsAccurate
  <2> SUFFICES ASSUME IInv, NEW n \in Numbers
               PROVE  Cardinality({i \in Alive : object[i].number = n}) = IF monsters[n] THEN 1 ELSE 0
    BY DEF SlotsAccurate
  <2>1. CASE monsters[n]
    <3>1. PICK i \in Alive : object[i].number = n
      BY <2>1 DEF IInv, Slots
    <3>2. {k \in Alive : object[k].number = n} = {i}
      BY <3>1 DEF IInv, Slots
    <3> QED
      BY <2>1, <3>2, FS_Singleton
  <2>2. CASE ~monsters[n]
    <3>1. {k \in Alive : object[k].number = n} = {}
      BY <2>2 DEF IInv, Slots
    <3> QED
      BY <2>2, <3>1, FS_EmptySet
  <2> QED
    BY <2>1, <2>2
<1> QED
  BY <1>1, Inductive, PTL

\* Once there have been monsters, an empty slot has a timer or a job to fill it.
THEOREM RespawnPendingHolds == Spec => []RespawnPending
<1>1. IInv => RespawnPending
  BY DEF IInv
<1> QED
  BY <1>1, Inductive, PTL

\* HandleAttack leaves nobody in the room without hp.
THEOREM AliveHasHpHolds == Spec => []AliveHasHp
<1>1. IInv => AliveHasHp
  BY DEF IInv, Typed, Bodies, AliveHasHp
<1> QED
  BY <1>1, Inductive, PTL

\* HandleAttack asks for one reward for every monster that dies.
THEOREM RewardPerKillHolds == Spec => []RewardPerKill
<1>1. IInv => RewardPerKill
  BY DEF IInv
<1> QED
  BY <1>1, Inductive, PTL

\* What the room sends keeps the clients in it up to date.
THEOREM ClientsSeeTheRoomHolds == Spec => []ClientsSeeTheRoom
<1>1. IInv => ClientsSeeTheRoom
  BY DEF IInv
<1> QED
  BY <1>1, Inductive, PTL
=============================================================================
