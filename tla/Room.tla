-------------------------------- MODULE Room --------------------------------
(***************************************************************************)
(* The game: GRoom with its players and monsters, the handlers that turn   *)
(* the packets of a client into jobs of the room, the timers that bring    *)
(* monsters in, and what the clients are told.                             *)
(*                                                                         *)
(* The room is a job queue; its jobs run one at a time in the order of     *)
(* their Push, which JobQueue shows of the scheduler, so a job is one step.*)
(* A handler runs on the thread that received the packet, concurrently     *)
(* with the room: it looks at the player in one step and calls DoAsync in  *)
(* another.  A timer may fire at any time after DoTimer, in any order.     *)
(***************************************************************************)
EXTENDS Integers, Sequences, FiniteSets

CONSTANTS
    Sessions,            \* the connections of clients; a reconnect is a new one
    Nicknames,           \* the nicknames of players
    TOTAL_MONSTER_COUNT, \* Room::TOTAL_MONSTER_COUNT (4)
    Hp, Damage,          \* [{"player", "monster"} -> Nat]: hp and damage of GameData
    StartPos,            \* where GameData places an object
    Positions,           \* where clients move to
    MaxPackets,          \* bound of the model: how many packets clients send
    None                 \* nullptr, or a field an object does not have

ASSUME RoomAssumption ==
    /\ TOTAL_MONSTER_COUNT \in Nat
    /\ Hp \in [{"player", "monster"} -> Nat \ {0}]
    /\ Damage \in [{"player", "monster"} -> Nat]
    /\ MaxPackets \in Nat
    /\ None \notin Sessions \cup Nicknames \cup Nat

VARIABLES
    object,    \* every Object created, at the index that is its object_id
    objects,   \* the keys of Room::_objects
    players,   \* Room::_players, nickname -> object_id
    monsters,  \* Room::_monsters, monster_number -> BOOLEAN
    jobs,      \* the jobs of the room, in the order of their Push
    entries,   \* the monsters for which a HandleEnterMonster timer runs
    respawns,  \* how many UpdateMonster timers run
    player,    \* [Sessions -> GameSession::player]
    connected, \* [Sessions -> BOOLEAN]
    handling,  \* [Sessions -> the job a handler is about to push, or None]
    view,      \* [Sessions -> what the client shows: object_id -> hp and position]
    rewards,   \* the nicknames passed to HandleIncreaseExp
    packets    \* how many packets were sent

roomVars == <<objects, players, monsters, entries, respawns, view, rewards>>
vars == <<object, objects, players, monsters, jobs, entries, respawns, player, connected,
          handling, view, rewards, packets>>

Numbers == 0 .. TOTAL_MONSTER_COUNT - 1
Ids == DOMAIN object
IsPlayer(i) == object[i].kind = "player"

NewPlayer(s, nickname) ==
    [kind |-> "player", nickname |-> nickname, number |-> None, session |-> s,
     hp |-> Hp["player"], pos |-> StartPos, room |-> FALSE]
NewMonster(n) ==
    [kind |-> "monster", nickname |-> None, number |-> n, session |-> None,
     hp |-> Hp["monster"], pos |-> StartPos, room |-> FALSE]

\* A job: its method, the object it is for, and the other argument.
Job(method, id, arg) == [method |-> method, id |-> id, arg |-> arg]
UpdateMonsterJob == Job("UpdateMonster", None, None)

Nothing == [i \in {} |-> 0]

Init ==
    /\ object = <<>>
    /\ objects = {}
    /\ players = Nothing
    /\ monsters = [n \in Numbers |-> FALSE]
    /\ jobs = <<>>
    /\ entries = {}
    /\ respawns = 0
    /\ player = [s \in Sessions |-> None]
    /\ connected = [s \in Sessions |-> TRUE]
    /\ handling = [s \in Sessions |-> None]
    /\ view = [s \in Sessions |-> Nothing]
    /\ rewards = <<>>
    /\ packets = 0

-----------------------------------------------------------------------------
(* ServerPacketHandler: the thread that received a packet of session s *)

Receive(s) ==
    /\ connected[s] /\ handling[s] = None
    /\ packets < MaxPackets
    /\ packets' = packets + 1
    /\ UNCHANGED <<roomVars, jobs, connected>>

\* CreatePlayer: object_id is s_idGenerator.fetch_add(1).
Handle_C_ENTER_GAME(s, nickname) ==
    /\ Receive(s)
    /\ object' = Append(object, NewPlayer(s, nickname))
    /\ player' = [player EXCEPT ![s] = Len(object) + 1]
    /\ handling' = [handling EXCEPT ![s] = Job("HandleEnterPlayer", Len(object) + 1, None)]

\* Every other handler returns unless the session has a player that is in the
\* room by now; it then goes on to DoAsync.
HandleInRoom(s, job) ==
    /\ Receive(s)
    /\ player[s] # None /\ object[player[s]].room
    /\ handling' = [handling EXCEPT ![s] = job]
    /\ UNCHANGED <<object, player>>

Handle_C_LEAVE_GAME(s) == HandleInRoom(s, Job("HandleLeavePlayer", player[s], None))

\* The object_id of the packet must be that of the player.
Handle_C_MOVE(s, pos) == HandleInRoom(s, Job("HandleMove", player[s], pos))

\* The ids are taken from the packet and not tested; a client is assumed to name
\* what it shows.
Handle_C_ATTACK(s, attacker, victim) ==
    /\ attacker \in DOMAIN view[s] /\ victim \in DOMAIN view[s]
    /\ HandleInRoom(s, Job("HandleAttack", attacker, victim))

\* DoAsync, at the end of a handler.
DoAsync(s) ==
    /\ handling[s] # None
    /\ jobs' = Append(jobs, handling[s])
    /\ handling' = [handling EXCEPT ![s] = None]
    /\ UNCHANGED <<object, roomVars, player, connected, packets>>

\* OnDisconnected does nothing; the weak_ptr to the session expires.
Disconnect(s) ==
    /\ connected[s]
    /\ connected' = [connected EXCEPT ![s] = FALSE]
    /\ view' = [view EXCEPT ![s] = Nothing]
    /\ UNCHANGED <<object, objects, players, monsters, jobs, entries, respawns, player,
                   handling, rewards, packets>>

-----------------------------------------------------------------------------
(* JobTimer: DistributeReservedJobs pushes the job of a timer *)

FireEntry(i) ==
    /\ i \in entries
    /\ entries' = entries \ {i}
    /\ jobs' = Append(jobs, Job("HandleEnterMonster", i, None))
    /\ UNCHANGED <<object, objects, players, monsters, respawns, player, connected, handling,
                   view, rewards, packets>>

FireRespawn ==
    /\ respawns > 0
    /\ respawns' = respawns - 1
    /\ jobs' = Append(jobs, UpdateMonsterJob)
    /\ UNCHANGED <<object, objects, players, monsters, entries, player, connected, handling,
                   view, rewards, packets>>

-----------------------------------------------------------------------------
(* Sending: what a packet changes at the client.  S_ENTER_GAME starts a new   *)
(* scene; the packets of one session arrive in order.                         *)

\* The sessions Broadcast reaches when the room holds the objects os.
Audience(os) ==
    {s \in Sessions : connected[s] /\ \E i \in os : IsPlayer(i) /\ object[i].session = s}

\* The session of an object, if it is that of a player whose client is there.
Own(i) == {s \in Sessions : connected[s] /\ object[i].session = s}

Info(i) == [hp |-> object[i].hp, pos |-> object[i].pos]

\* Mutant: the new player is sent its own object only.
SpawnListSelf(i) == [k \in {i} |-> Info(k)]
\* S_SPAWN of _objects, with i added, for the new player i.
SpawnList(i) == [k \in objects \cup {i} |-> Info(k)]

Spawned(v, i) == [k \in DOMAIN v \cup {i} |-> IF k = i THEN Info(i) ELSE v[k]]
Despawned(v, i) == [k \in DOMAIN v \ {i} |-> v[k]]

-----------------------------------------------------------------------------
(* Room: AddObject, RemoveObject, EnterRoom, LeaveRoom, UpdateMonster *)

\* AddObject succeeds: neither the object_id nor the nickname is there.
CanAdd(i) ==
    /\ i \notin objects
    /\ IsPlayer(i) => object[i].nickname \notin DOMAIN players

Entered(i) == [object EXCEPT ![i].room = TRUE]

EnterRoom(i) ==
    /\ objects' = objects \cup {i}
    /\ players' = IF IsPlayer(i)
                  THEN [n \in DOMAIN players \cup {object[i].nickname} |->
                           IF n = object[i].nickname THEN i ELSE players[n]]
                  ELSE players
    /\ view' = [s \in Sessions |->
                   IF s \in Own(i) THEN SpawnList(i)
                   ELSE IF s \in Audience(objects) THEN Spawned(view[s], i)
                   ELSE view[s]]

\* Mutant: RemoveObject does not look whether the object is there.
FoundAnyway(i) == TRUE
\* RemoveObject finds the object.
Found(i) == i \in objects

\* Mutant: no timer is started when a monster dies.
NoRespawnTimer(i) == 0
\* How many timers LeaveRoom starts for an object.
RespawnTimers(i) == IF IsPlayer(i) THEN 0 ELSE 1

LeaveRoom(i) ==
    /\ objects' = objects \ {i}
    /\ players' = IF Found(i) /\ IsPlayer(i)
                  THEN [n \in DOMAIN players \ {object[i].nickname} |-> players[n]]
                  ELSE players
    /\ object' = IF Found(i) /\ IsPlayer(i) THEN [object EXCEPT ![i].room = FALSE] ELSE object
    /\ view' = [s \in Sessions |->
                   IF s \in Audience(objects \ {i}) \cup Own(i)
                   THEN Despawned(view[s], i) ELSE view[s]]
    /\ monsters' = IF IsPlayer(i) THEN monsters ELSE [monsters EXCEPT ![object[i].number] = FALSE]
    /\ respawns' = respawns + RespawnTimers(i)
    /\ UNCHANGED entries

\* The k-th monster without an object in the room, in the order of _monsters.
Empty == {n \in Numbers : ~monsters[n]}
EmptyNumber(k) == CHOOSE n \in Empty : Cardinality({m \in Empty : m <= n}) = k

\* Mutant: the slot is not marked when its monster is made.
SlotsUnmarked == monsters
SlotsFilled == [n \in Numbers |-> TRUE]

\* UpdateMonster, when objs are the objects so far: one monster with a timer for
\* every slot that is empty.
UpdateMonster(objs) ==
    /\ object' = objs \o [k \in 1 .. Cardinality(Empty) |-> NewMonster(EmptyNumber(k))]
    /\ entries' = entries \cup (Len(objs) + 1 .. Len(objs) + Cardinality(Empty))
    /\ monsters' = SlotsFilled
    /\ UNCHANGED respawns

-----------------------------------------------------------------------------
(* The jobs of the room.  job is the one at the head of the queue. *)

job == Head(jobs)

Run(method) ==
    /\ jobs # <<>> /\ job.method = method
    /\ jobs' = Tail(jobs)
    /\ UNCHANGED <<player, connected, handling, packets>>

HandleEnterPlayer ==
    /\ Run("HandleEnterPlayer")
    /\ \/ /\ CanAdd(job.id)
          /\ EnterRoom(job.id)
          /\ UpdateMonster(Entered(job.id))
          /\ UNCHANGED rewards
       \/ /\ ~CanAdd(job.id)
          /\ UNCHANGED <<object, roomVars>>

HandleLeavePlayer ==
    /\ Run("HandleLeavePlayer")
    /\ LeaveRoom(job.id)
    /\ UNCHANGED rewards

\* AddObject cannot fail: a monster is added once, under a new object_id.
HandleEnterMonster ==
    /\ Run("HandleEnterMonster")
    /\ IF CanAdd(job.id)
       THEN EnterRoom(job.id) /\ object' = Entered(job.id)
       ELSE UNCHANGED <<objects, players, view, object>>
    /\ UNCHANGED <<monsters, entries, respawns, rewards>>

RunUpdateMonster ==
    /\ Run("UpdateMonster")
    /\ UpdateMonster(object)
    /\ UNCHANGED <<objects, players, view, rewards>>

\* S_MOVE goes to everyone, the mover included.
HandleMove ==
    /\ Run("HandleMove")
    /\ \/ /\ job.id \in objects
          /\ object' = [object EXCEPT ![job.id].pos = job.arg]
          /\ view' = [s \in Sessions |->
                         IF s \in Audience(objects) /\ job.id \in DOMAIN view[s]
                         THEN [view[s] EXCEPT ![job.id].pos = job.arg] ELSE view[s]]
       \/ /\ job.id \notin objects
          /\ UNCHANGED <<object, view>>
    /\ UNCHANGED <<objects, players, monsters, entries, respawns, rewards>>

\* Mutant: only the attacker is looked up.
AttackerPresent(attacker, victim) == attacker \in objects
BothPresent(attacker, victim) == attacker \in objects /\ victim \in objects

\* Mutant: the test for death is off by one.
DiesBelow(hp, damage) == hp < damage
\* Mutant: only an exact hit kills.
DiesAtZero(hp, damage) == hp = damage
Dies(hp, damage) == hp <= damage

\* S_ATTACK with the new hp goes to everyone.
HandleAttack ==
    LET attacker == job.id
        victim == job.arg
        damage == Damage[object[attacker].kind]
        newHp == object[victim].hp - damage
    IN  /\ Run("HandleAttack")
        /\ \/ /\ ~BothPresent(attacker, victim)
              /\ UNCHANGED <<object, roomVars>>
           \/ /\ BothPresent(attacker, victim)
              /\ Dies(object[victim].hp, damage)
              /\ rewards' = IF IsPlayer(victim) THEN rewards
                            ELSE Append(rewards, object[attacker].nickname)
              /\ LeaveRoom(victim)
           \/ /\ BothPresent(attacker, victim)
              /\ ~Dies(object[victim].hp, damage)
              /\ object' = [object EXCEPT ![victim].hp = newHp]
              /\ view' = [s \in Sessions |->
                             IF s \in Audience(objects) /\ victim \in DOMAIN view[s]
                             THEN [view[s] EXCEPT ![victim].hp = newHp] ELSE view[s]]
              /\ UNCHANGED <<objects, players, monsters, entries, respawns, rewards>>

RunJob ==
    \/ HandleEnterPlayer
    \/ HandleLeavePlayer
    \/ HandleEnterMonster
    \/ RunUpdateMonster
    \/ HandleMove
    \/ HandleAttack

Fire == FireRespawn \/ \E i \in entries : FireEntry(i)

Next ==
    \/ \E s \in Sessions :
          \/ \E n \in Nicknames : Handle_C_ENTER_GAME(s, n)
          \/ Handle_C_LEAVE_GAME(s)
          \/ \E pos \in Positions : Handle_C_MOVE(s, pos)
          \/ \E a, v \in Ids : Handle_C_ATTACK(s, a, v)
          \/ DoAsync(s)
          \/ Disconnect(s)
    \/ Fire
    \/ RunJob

Spec == Init /\ [][Next]_vars

\* The worker threads take jobs, timers and the packets they received in turns
\* for ever (DoWorkerJob, and EveryJobRuns of JobQueue).
FairSpec ==
    /\ Spec
    /\ WF_vars(RunJob)
    /\ WF_vars(FireRespawn)
    /\ \A i \in 1 .. MaxPackets + TOTAL_MONSTER_COUNT : WF_vars(FireEntry(i))

-----------------------------------------------------------------------------
(* Properties *)

Methods == {"HandleEnterPlayer", "HandleLeavePlayer", "HandleEnterMonster", "UpdateMonster",
            "HandleMove", "HandleAttack"}

\* Every variable has its type.
TypeOK ==
    /\ \A i \in Ids :
          /\ object[i].kind \in {"player", "monster"}
          /\ object[i].hp \in Nat /\ object[i].room \in BOOLEAN
          /\ IsPlayer(i) => object[i].nickname \in Nicknames /\ object[i].session \in Sessions
          /\ ~IsPlayer(i) => object[i].number \in Numbers
    /\ objects \subseteq Ids
    /\ DOMAIN players \subseteq Nicknames /\ \A n \in DOMAIN players : players[n] \in Ids
    /\ monsters \in [Numbers -> BOOLEAN]
    /\ \A k \in DOMAIN jobs : jobs[k].method \in Methods /\ jobs[k].id \in Ids \cup {None}
    /\ entries \subseteq Ids
    /\ respawns \in Nat
    /\ player \in [Sessions -> Ids \cup {None}]
    /\ connected \in [Sessions -> BOOLEAN]
    /\ DOMAIN handling = Sessions
    /\ \A s \in Sessions : DOMAIN view[s] \subseteq Ids
    /\ \A k \in DOMAIN rewards : rewards[k] \in Nicknames \cup {None}

\* The three records of who is in the room agree: _objects, _players and the
\* room pointer that the handlers test.  A LeavePlayer job may find its player
\* gone, killed or left before, and its nickname taken by another.
IndexesAgree ==
    /\ \A i \in Ids : IsPlayer(i) =>
          /\ object[i].room <=> i \in objects
          /\ i \in objects => object[i].nickname \in DOMAIN players
                              /\ players[object[i].nickname] = i
    /\ \A n \in DOMAIN players :
          players[n] \in objects /\ object[players[n]].nickname = n

\* The monsters that are in the room or on their way into it.
Coming ==
    entries \cup {jobs[k].id : k \in {k \in DOMAIN jobs : jobs[k].method = "HandleEnterMonster"}}
Alive == {i \in Ids : ~IsPlayer(i) /\ i \in objects \cup Coming}

\* A slot of _monsters is taken exactly when one monster of its number is alive:
\* neither a player who enters nor a respawn timer makes a second one while the
\* first is on its way.
SlotsAccurate ==
    \A n \in Numbers :
        Cardinality({i \in Alive : object[i].number = n}) = IF monsters[n] THEN 1 ELSE 0

\* An empty slot is never forgotten: once monsters have been made, a timer or a
\* job that fills it is on the way.
RespawnPending ==
    (\E i \in Ids : ~IsPlayer(i)) /\ (\E n \in Numbers : ~monsters[n]) =>
        respawns > 0 \/ \E k \in DOMAIN jobs : jobs[k] = UpdateMonsterJob

\* Nobody is in the room without hp, however many attacks were queued.
AliveHasHp == \A i \in objects : object[i].hp \in 1 .. Hp[object[i].kind]

\* A monster's death is rewarded once, though several attacks on it may wait.
RewardPerKill ==
    Len(rewards) = Cardinality({i \in Ids : ~IsPlayer(i) /\ i \notin Alive})

\* A client with a player in the room shows just what is there: the packets of
\* EnterRoom, LeaveRoom, HandleMove and HandleAttack add up to the state of the
\* room, for those who were there and for those who came later.
ClientsSeeTheRoom ==
    \A s \in Audience(objects) : view[s] = [i \in objects |-> Info(i)]

\* A monster that is missing comes (back): the respawn timer, UpdateMonster and
\* the entry timer together bring it into the room.
MonsterInRoom(n) == \E i \in objects : object[i].number = n
MonstersReturn ==
    \A n \in Numbers : (\E i \in Ids : ~IsPlayer(i)) /\ ~MonsterInRoom(n) ~> MonsterInRoom(n)

\* RemoveObject, Room.cpp:261: "if it is not there, something is wrong".
LeavesPresent ==
    jobs # <<>> /\ job.method = "HandleLeavePlayer" => job.id \in objects

\* AddObject, Room.cpp:239: a player is refused if one is connected by that
\* nickname.  So a nickname of somebody who is gone is free sooner or later.
Ghost(n) == n \in DOMAIN players /\ ~connected[object[players[n]].session]
GhostsLeave == \A n \in Nicknames : Ghost(n) ~> ~Ghost(n)
=============================================================================
