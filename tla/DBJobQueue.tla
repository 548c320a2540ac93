----------------------------- MODULE DBJobQueue -----------------------------
(***************************************************************************)
(* The jobs of GDBJobQueue and what they share: the pool with the one      *)
(* connection that main opens, and the table users, which has no unique    *)
(* constraint on nickname and is read and then written in two statements.  *)
(*                                                                         *)
(* The jobs are scheduled by SerialExecutor, which JobQueue implements.    *)
(* One step is one SQL statement or one critical section of the pool.      *)
(* Nobody looks at the result of Fetch: a job whose Fetch fails goes on    *)
(* with the initial value of the variable it wanted filled.                *)
(***************************************************************************)
EXTENDS Integers, Sequences, FiniteSets, SequencesExt

CONSTANTS
    Jobs,        \* requests: [id, kind, nickname, password, rewardExp] records
    Empty,       \* the empty string, as nickname or password
    Connections, \* the connections that Connect opens
    NoJob,       \* no job is running
    NoConnection \* nullptr

ASSUME JobsAssumption ==
    /\ \A j \in Jobs : j.kind \in {"join", "login", "exp"}
    /\ \A j \in Jobs : j.kind = "exp" => j.rewardExp \in Nat
    /\ IsFiniteSet(Connections) /\ Connections # {} /\ NoConnection \notin Connections
    /\ NoJob \notin Jobs

GDBJobQueue == "GDBJobQueue"

VARIABLES
    pending, running, done, \* the state of the executor
    step,        \* where in the running job
    dbConn,      \* its local variable dbConn
    currentExp,  \* its local variable currentExp
    connections, \* DBConnectionPool::_connections
    cursors,     \* the connections whose statement has results not yet closed
    users,       \* the rows of [dbo].[users], in the order of their id
    reply,       \* [Jobs -> what SEND_PACKET told the client]
    misread,     \* the jobs whose Fetch has failed
    crashed      \* why CRASH ended the server, or "no"

vars == <<pending, running, done, step, dbConn, currentExp, connections, cursors, users, reply,
          misread, crashed>>

Executor == INSTANCE SerialExecutor WITH Queues <- {GDBJobQueue}

job == running[GDBJobQueue]

Steps == {"idle", "begin", "exists", "again", "insert", "password", "exp", "update"}

\* main has created the table over a connection, and may have left the results
\* of that batch unread.
Init ==
    /\ Executor!Init
    /\ step = "idle"
    /\ dbConn = NoConnection
    /\ currentExp = 0
    /\ connections = SetToSeq(Connections)
    /\ cursors \in SUBSET Connections
    /\ users = <<>>
    /\ reply = [j \in Jobs |-> "none"]
    /\ misread = {}
    /\ crashed = "no"

-----------------------------------------------------------------------------
(* Helpers: the pool, the table, the end of a job *)

\* Mutant: Unbind resets the bindings but does not close the cursor.
KeepCursor(open, c) == open
\* DBConnection::Unbind; the bindings it resets are all made anew by its callers.
Unbind(open, c) == open \ {c}

\* DBConnectionPool::Pop, with the test of every caller (no connection, CRASH) and
\* the Unbind, BindParam and BindCol that follow.
PopConnection(next) ==
    IF connections = <<>>
    THEN /\ crashed' = "no connection"
         /\ UNCHANGED <<step, dbConn, connections, cursors>>
    ELSE /\ dbConn' = Last(connections)
         /\ connections' = Front(connections)
         /\ cursors' = Unbind(cursors, Last(connections))
         /\ step' = next
         /\ UNCHANGED crashed

\* DBConnectionPool::Push.
PushConnection ==
    /\ connections' = Append(connections, dbConn)
    /\ dbConn' = NoConnection

Row(nickname, password) == [nickname |-> nickname, password |-> password, exp |-> 0]
RowsOf(nickname) == {i \in DOMAIN users : users[i].nickname = nickname}
\* Mutant: the nickname of the new row is not compared with all rows.
ExistsInLast(nickname) == users # <<>> /\ Last(users).nickname = nickname
\* exists > 0 after SELECT COUNT(*) ... WHERE nickname.
Exists(nickname) == RowsOf(nickname) # {}

\* DBConnection::Execute of a SELECT: the cursor stays open, whatever Fetch does.
Select == cursors \cup {dbConn}

\* DBConnection::Fetch, which returns false on SQL_ERROR; its callers go on.
Fetch(ok) == misread' = IF ok THEN misread ELSE misread \cup {job}

\* The rows of which Fetch may get one: without an ORDER BY any that is selected,
\* and none if there is none or Fetch fails.
Fetched(nickname, ok) == IF ok THEN RowsOf(nickname) ELSE {}

\* outPassword after SELECT password ... WHERE nickname: its length stays 0 if no
\* row was fetched.
OutPassword(rows) == IF rows = {} THEN {Empty} ELSE {users[i].password : i \in rows}

\* currentExp after SELECT exp ... WHERE nickname: it stays 0 if no row was fetched.
OutExp(rows) == IF rows = {} THEN {0} ELSE {users[i].exp : i \in rows}

FinishJob == Executor!Finish(GDBJobQueue) /\ step' = "idle"

Answer(result) == reply' = [reply EXCEPT ![job] = result]

\* The steps that execute a statement.
Executing == {"exists", "insert", "password", "exp", "update"}

\* A binding or a statement that fails (the connection is lost, a value longer
\* than its column, an UPDATE that finds no row and returns SQL_NO_DATA) ends the
\* server: ASSERT_CRASH(dbConn->Execute(...)).
ExecuteFails ==
    /\ crashed = "no"
    /\ step \in Executing
    /\ crashed' = "statement"
    /\ UNCHANGED <<pending, running, done, step, dbConn, currentExp, connections, cursors, users,
                   reply, misread>>

-----------------------------------------------------------------------------
(* DoAsync, and the executor *)

\* Handle_C_JOIN, Handle_C_LOGIN, and Room::HandleAttack when a monster dies.
DoAsync(j) ==
    /\ crashed = "no"
    /\ Executor!Submit(GDBJobQueue, j)
    /\ UNCHANGED <<step, dbConn, currentExp, connections, cursors, users, reply, misread,
                   crashed>>

StartJob ==
    /\ crashed = "no"
    /\ Executor!Start(GDBJobQueue)
    /\ step' = "begin"
    /\ UNCHANGED <<dbConn, currentExp, connections, cursors, users, reply, misread, crashed>>

\* The head of each handler: empty fields are refused, else a connection is taken.
Begin ==
    /\ crashed = "no" /\ step = "begin"
    /\ \/ /\ job.kind # "exp" /\ (job.nickname = Empty \/ job.password = Empty)
          /\ Answer("fail")
          /\ FinishJob
          /\ UNCHANGED <<dbConn, connections, cursors, crashed>>
       \/ /\ job.kind = "exp" \/ (job.nickname # Empty /\ job.password # Empty)
          /\ PopConnection(CASE job.kind = "join" -> "exists"
                             [] job.kind = "login" -> "password"
                             [] job.kind = "exp" -> "exp")
          /\ UNCHANGED <<pending, running, done, reply>>
    /\ UNCHANGED <<currentExp, users, misread>>

-----------------------------------------------------------------------------
(* DBJobQueue::HandleJoin *)

\* The first block: SELECT COUNT(*), return the connection, refuse or go on.  When
\* Fetch fails exists is 0, and the nickname counts as free.
JoinExists ==
    /\ crashed = "no" /\ step = "exists"
    /\ cursors' = Select
    /\ PushConnection
    /\ \E ok \in BOOLEAN :
          /\ Fetch(ok)
          /\ \/ /\ ok /\ Exists(job.nickname)
                /\ Answer("fail")
                /\ FinishJob
             \/ /\ ~(ok /\ Exists(job.nickname))
                /\ step' = "again"
                /\ UNCHANGED <<pending, running, done, reply>>
    /\ UNCHANGED <<currentExp, users, crashed>>

\* The second block takes a connection again.
JoinAgain ==
    /\ crashed = "no" /\ step = "again"
    /\ PopConnection("insert")
    /\ UNCHANGED <<pending, running, done, currentExp, users, reply, misread>>

JoinInsert ==
    /\ crashed = "no" /\ step = "insert"
    /\ users' = Append(users, Row(job.nickname, job.password))
    /\ PushConnection
    /\ Answer("ok")
    /\ FinishJob
    /\ UNCHANGED <<currentExp, cursors, misread, crashed>>

-----------------------------------------------------------------------------
(* DBJobQueue::HandleLogin *)

LoginPassword ==
    /\ crashed = "no" /\ step = "password"
    /\ cursors' = Select
    /\ PushConnection
    /\ \E ok \in BOOLEAN :
          /\ Fetch(ok)
          /\ \E outPassword \in OutPassword(Fetched(job.nickname, ok)) :
                Answer(IF outPassword = job.password THEN "ok" ELSE "fail")
    /\ FinishJob
    /\ UNCHANGED <<currentExp, users, crashed>>

-----------------------------------------------------------------------------
(* DBJobQueue::HandleIncreaseExp *)

\* SELECT exp, Unbind, and the parameters of the UPDATE.
ReadExp ==
    /\ crashed = "no" /\ step = "exp"
    /\ \E ok \in BOOLEAN :
          /\ Fetch(ok)
          /\ currentExp' \in OutExp(Fetched(job.nickname, ok))
    /\ cursors' = Unbind(Select, dbConn)
    /\ step' = "update"
    /\ UNCHANGED <<pending, running, done, dbConn, connections, users, reply, crashed>>

\* Mutant: the reward replaces the exp.
OnlyReward(reward) == reward
\* Mutant: the reward is taken away.
MinusReward(reward) == currentExp - reward
NewExp(reward) == currentExp + reward

\* UPDATE exp of every row with the nickname, return the connection.
WriteExp ==
    /\ crashed = "no" /\ step = "update"
    /\ users' = [i \in DOMAIN users |->
                    IF users[i].nickname = job.nickname
                    THEN [users[i] EXCEPT !.exp = NewExp(job.rewardExp)]
                    ELSE users[i]]
    /\ PushConnection
    /\ currentExp' = 0
    /\ FinishJob
    /\ UNCHANGED <<cursors, reply, misread, crashed>>

-----------------------------------------------------------------------------
RunJob ==
    \/ Begin
    \/ JoinExists \/ JoinAgain \/ JoinInsert
    \/ LoginPassword
    \/ ReadExp \/ WriteExp

Next ==
    \/ \E j \in Jobs : DoAsync(j)
    \/ StartJob \/ RunJob \/ ExecuteFails

Spec == Init /\ [][Next]_vars

-----------------------------------------------------------------------------
(* Properties *)

\* Every variable has its type.
TypeOK ==
    /\ pending \in [{GDBJobQueue} -> Seq(Jobs)]
    /\ running \in [{GDBJobQueue} -> Jobs \cup {NoJob}]
    /\ done \subseteq Jobs
    /\ step \in Steps
    /\ (step = "idle") <=> (job = NoJob)
    /\ dbConn \in Connections \cup {NoConnection}
    /\ currentExp \in Nat
    /\ connections \in Seq(Connections)
    /\ cursors \subseteq Connections
    /\ \A i \in DOMAIN users : users[i].exp \in Nat
    /\ reply \in [Jobs -> {"none", "ok", "fail"}]
    /\ misread \subseteq Jobs
    /\ crashed \in {"no", "no connection", "statement"}

\* No job ever finds the pool empty, though main opens a single connection and
\* four threads may come to run GDBJobQueue: every connection is in the pool or in
\* the hands of the running job, none twice.  And no job executes a statement over
\* the cursor an earlier one has left open, which ODBC refuses.
ConnectionReady ==
    /\ crashed # "no connection"
    /\ IsInjective(connections)
    /\ ToSet(connections) = Connections \ {dbConn}
    /\ step \in Executing => dbConn \in Connections \ cursors

\* HandleJoin checks in one statement and inserts in another, and the table has
\* no unique constraint: still a nickname gets a second row only from a join whose
\* own Fetch has failed.
DuplicatesAreMisread ==
    \A i, k \in DOMAIN users :
        i < k /\ users[i].nickname = users[k].nickname =>
            \E j \in misread : /\ j.kind = "join" /\ j.nickname = users[k].nickname
                               /\ j.password = users[k].password

\* The jobs not yet finished, the running one first.
Waiting == (IF job = NoJob THEN <<>> ELSE <<job>>) \o pending[GDBJobQueue]

\* The clients and Room see requests served at once and in order, though a job
\* checks and inserts, or reads and updates, in two statements: no registration
\* and no reward is lost between them, a login sees every earlier join.  A job
\* whose Fetch failed, and no other, is served as if its nickname had no account.
Abstract == INSTANCE Accounts WITH
    waiting <- Waiting,
    accounts <- users,
    misread <- misread \cap done
ImplementsAccounts == Abstract!Spec

\* HandleJoin, DBJobQueue.cpp:34: "check whether the ID exists already".
UniqueNicknames ==
    \A i, k \in DOMAIN users : users[i].nickname = users[k].nickname => i = k
=============================================================================
