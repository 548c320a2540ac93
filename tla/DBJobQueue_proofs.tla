------------------------- MODULE DBJobQueue_proofs --------------------------
(***************************************************************************)
(* Proofs about DBJobQueue, for any set of requests and any number of      *)
(* connections, and the proof that it implements Accounts.                 *)
(*                                                                         *)
(* The argument: what a job has read is still so when it writes, because   *)
(* no other job runs in between.  So the invariant says of every step of   *)
(* the running job what it knows: that it holds a connection without an    *)
(* open cursor, that the nickname it is about to insert is free or its own *)
(* Fetch has failed, that currentExp is the exp of a row that it is about  *)
(* to update or, after a failed Fetch, 0.  A job that is not yet done or   *)
(* running is not in misread, so that misread blames nobody else.          *)
(***************************************************************************)
EXTENDS DBJobQueue, SequenceLemmas, FiniteSetTheorems, TLAPS

-----------------------------------------------------------------------------
(* The inductive invariant *)

Rows == [nickname : {j.nickname : j \in Jobs}, password : {j.password : j \in Jobs}, exp : Nat]

\* The rows of the table come from requests.
Table == users \in Seq(Rows)

\* The requests whose fields are not empty.
Accepted(j) == j.kind = "exp" \/ (j.nickname # Empty /\ j.password # Empty)

\* The steps of a job are the steps of its handler.
Handler ==
    /\ step \in {"exists", "again", "insert"} => job.kind = "join" /\ Accepted(job)
    /\ step = "password" => job.kind = "login" /\ Accepted(job)
    /\ step \in {"exp", "update"} => job.kind = "exp"

\* The connections are in the pool, but for the one of a job that executes.
Pool ==
    /\ crashed # "no connection"
    /\ IsInjective(connections)
    /\ ToSet(connections) = Connections \ {dbConn}
    /\ step \in Executing => dbConn \in Connections \ cursors
    /\ step \notin Executing => dbConn = NoConnection

\* A job comes once, and its Fetch fails only while it runs.
Unread ==
    LET waiting == pending[GDBJobQueue] IN
    /\ IsInjective(waiting)
    /\ Range(waiting) \cap (misread \cup done) = {}
    /\ job \notin Range(waiting) /\ job \notin done
    /\ misread \subseteq done \cup {job}
    /\ step \in {"begin", "exists", "password", "exp"} => job \notin misread

\* What the running job has read is still so, unless its Fetch has failed.
Reads ==
    /\ step \in {"again", "insert"} => job \in misread \/ ~Exists(job.nickname)
    /\ step = "update" => currentExp \in OutExp(Fetched(job.nickname, job \notin misread))

IInv == TypeOK /\ Table /\ Handler /\ Pool /\ DuplicatesAreMisread /\ Unread /\ Reads

-----------------------------------------------------------------------------
(* The pool *)

\* A finite set has an enumeration.
LEMMA Enumeration ==
    ASSUME NEW S, IsFiniteSet(S)
    PROVE  SetToSeq(S) \in Seq(S) /\ IsInjective(SetToSeq(S)) /\ ToSet(SetToSeq(S)) = S
<1> DEFINE n == Cardinality(S)
           f == SetToSeq(S)
<1>1. n \in Nat /\ \E g \in [1 .. n -> S] : IsInjective(g)
  BY FS_CardinalityType DEF ExistsBijection, Bijection, Injection
<1>2. f \in [1 .. n -> S] /\ IsInjective(f)
  BY <1>1 DEF SetToSeq
<1>3. f \in Injection(1 .. n, S)
  BY <1>2 DEF Injection
<1>4. Cardinality(1 .. n) = n
  BY <1>1, FS_Interval
<1>5. f \in Surjection(1 .. n, S)
  BY <1>3, <1>4, FS_Injection
<1>6. ToSet(f) = S
  BY <1>2, <1>5 DEF Surjection, ToSet
<1>7. f \in Seq(S)
  BY <1>1, <1>2
<1> QED
  BY <1>2, <1>6, <1>7

\* Pop takes the last connection out.
LEMMA PopProperties ==
    ASSUME NEW S, NEW s \in Seq(S), s # <<>>, IsInjective(s)
    PROVE  /\ Last(s) \in ToSet(s) /\ Last(s) \in S
           /\ Front(s) \in Seq(S) /\ IsInjective(Front(s))
           /\ ToSet(Front(s)) = ToSet(s) \ {Last(s)}
<1>1. Len(s) \in Nat \ {0} /\ DOMAIN s = 1 .. Len(s) /\ \A i \in 1 .. Len(s) : s[i] \in S
  BY EmptySeq, LenProperties, ElementOfSeq
<1>2. /\ Front(s) \in Seq(S) /\ Len(Front(s)) = Len(s) - 1
      /\ \A i \in 1 .. Len(s) - 1 : Front(s)[i] = s[i]
  BY <1>1 DEF Front
<1>3. DOMAIN Front(s) = 1 .. Len(s) - 1
  BY <1>2, LenProperties
<1>4. Last(s) = s[Len(s)] /\ Len(s) \in DOMAIN s
  BY <1>1 DEF Last
<1>5. IsInjective(Front(s))
  BY <1>1, <1>2, <1>3 DEF IsInjective
<1>6. ToSet(Front(s)) = ToSet(s) \ {Last(s)}
  BY <1>1, <1>2, <1>3, <1>4 DEF ToSet, IsInjective
<1> QED
  BY <1>1, <1>2, <1>4, <1>5, <1>6 DEF ToSet

\* Push puts a connection back that is not in the pool.
LEMMA PushProperties ==
    ASSUME NEW S, NEW s \in Seq(S), IsInjective(s), NEW e \in S, e \notin ToSet(s)
    PROVE  /\ Append(s, e) \in Seq(S) /\ IsInjective(Append(s, e))
           /\ ToSet(Append(s, e)) = ToSet(s) \cup {e}
<1>1. Len(s) \in Nat /\ DOMAIN s = 1 .. Len(s)
  BY LenProperties
<1>2. /\ Append(s, e) \in Seq(S) /\ DOMAIN Append(s, e) = 1 .. Len(s) + 1
      /\ \A i \in 1 .. Len(s) : Append(s, e)[i] = s[i]
      /\ Append(s, e)[Len(s) + 1] = e
  BY AppendProperties, LenProperties
<1>3. \A i \in 1 .. Len(s) : s[i] # e
  BY <1>1 DEF ToSet
<1>4. IsInjective(Append(s, e))
  BY <1>1, <1>2, <1>3 DEF IsInjective
<1>5. ToSet(Append(s, e)) = ToSet(s) \cup {e}
  BY <1>1, <1>2 DEF ToSet
<1> QED
  BY <1>2, <1>4, <1>5

\* A pool without connections is empty.
LEMMA EmptyPool == ToSet(<<>>) = {}
<1>1. \A i \in DOMAIN <<>> : FALSE
  OBVIOUS
<1> QED
  BY <1>1 DEF ToSet

\* Taking a connection: the pool is never empty, and the cursor is closed.
LEMMA PopStep ==
    ASSUME IInv, step \notin Executing, NEW next \in Executing, PopConnection(next)
    PROVE  /\ step' = next /\ crashed' = crashed
           /\ dbConn' \in Connections /\ connections' \in Seq(Connections)
           /\ cursors' \subseteq Connections
           /\ Pool'
<1> USE DEF IInv, TypeOK, Pool
<1>1. connections # <<>>
  <2>1. ToSet(connections) = Connections
    BY JobsAssumption
  <2> QED
    BY <2>1, EmptyPool, JobsAssumption
<1>2. /\ dbConn' = Last(connections) /\ connections' = Front(connections)
      /\ cursors' = cursors \ {Last(connections)} /\ step' = next /\ crashed' = crashed
  BY <1>1 DEF PopConnection, Unbind
<1>3. /\ Last(connections) \in Connections
      /\ Front(connections) \in Seq(Connections) /\ IsInjective(Front(connections))
      /\ ToSet(Front(connections)) = ToSet(connections) \ {Last(connections)}
  BY <1>1, PopProperties
<1>4. ToSet(connections') = Connections \ {dbConn'}
  BY <1>2, <1>3, JobsAssumption
<1> QED
  BY <1>2, <1>3, <1>4

\* Giving it back.
LEMMA PushStep ==
    ASSUME IInv, step \in Executing, PushConnection, step' \notin Executing, crashed' = crashed
    PROVE  dbConn' = NoConnection /\ connections' \in Seq(Connections) /\ Pool'
<1>1. dbConn' = NoConnection /\ connections' = Append(connections, dbConn)
  BY DEF PushConnection
<1>2. /\ dbConn \in Connections /\ dbConn \notin ToSet(connections)
      /\ connections \in Seq(Connections) /\ IsInjective(connections)
  BY DEF IInv, TypeOK, Pool
<1>3. /\ Append(connections, dbConn) \in Seq(Connections)
      /\ IsInjective(Append(connections, dbConn))
      /\ ToSet(Append(connections, dbConn)) = ToSet(connections) \cup {dbConn}
  BY <1>2, PushProperties
<1>4. ToSet(connections') = Connections \ {dbConn'}
  BY <1>1, <1>2, <1>3, JobsAssumption DEF IInv, Pool
<1> QED
  BY <1>1, <1>3, <1>4 DEF IInv, Pool

-----------------------------------------------------------------------------
(* The table *)

\* A value of exp that Fetch may get is a number.
LEMMA OutExpType ==
    ASSUME TypeOK, NEW n, NEW ok \in BOOLEAN
    PROVE  OutExp(Fetched(n, ok)) \subseteq Nat
<1> DEFINE rows == Fetched(n, ok)
<1>1. rows \subseteq DOMAIN users
  BY DEF Fetched, RowsOf
<1>2. \A i \in rows : users[i].exp \in Nat
  BY <1>1 DEF TypeOK
<1> HIDE DEF rows
<1>3. CASE rows = {}
  BY <1>3 DEF OutExp, rows
<1>4. CASE rows # {}
  <2>1. OutExp(rows) = {users[i].exp : i \in rows}
    BY <1>4 DEF OutExp
  <2> QED
    BY <1>2, <2>1 DEF rows
<1> QED
  BY <1>3, <1>4

\* More failed Fetches excuse no less.
LEMMA StillMisread ==
    ASSUME DuplicatesAreMisread, users' = users, misread \subseteq misread'
    PROVE  DuplicatesAreMisread'
  BY DEF DuplicatesAreMisread

\* INSERT of a row.
LEMMA InsertRow ==
    ASSUME Table, NEW r \in Rows, users' = Append(users, r)
    PROVE  /\ Table' /\ DOMAIN users' = 1 .. Len(users) + 1 /\ DOMAIN users = 1 .. Len(users)
           /\ Len(users) \in Nat
           /\ \A i \in DOMAIN users : users'[i] = users[i]
           /\ users'[Len(users) + 1] = r
  BY AppendProperties, LenProperties DEF Table

\* The table after UPDATE exp of the rows of a nickname.
Updated(n, e) ==
    [i \in DOMAIN users |-> IF users[i].nickname = n THEN [users[i] EXCEPT !.exp = e] ELSE users[i]]

\* UPDATE changes the exp of the rows of a nickname.
LEMMA UpdateRows ==
    ASSUME Table, NEW n, NEW e \in Nat, users' = Updated(n, e)
    PROVE  /\ Table' /\ DOMAIN users' = DOMAIN users
           /\ \A i \in DOMAIN users :
                 /\ users'[i].nickname = users[i].nickname
                 /\ users'[i].password = users[i].password
                 /\ users'[i].exp = IF users[i].nickname = n THEN e ELSE users[i].exp
<1>1. DOMAIN users = 1 .. Len(users) /\ Len(users) \in Nat /\ \A i \in DOMAIN users : users[i] \in Rows
  BY LenProperties, ElementOfSeq DEF Table
<1>2. \A i \in DOMAIN users : users'[i] \in Rows
  BY <1>1 DEF Rows, Updated
<1>3. users' \in Seq(Rows)
  BY <1>1, <1>2 DEF Updated
<1>4. \A i \in DOMAIN users :
          /\ users'[i].nickname = users[i].nickname
          /\ users'[i].password = users[i].password
          /\ users'[i].exp = IF users[i].nickname = n THEN e ELSE users[i].exp
  BY <1>1 DEF Rows, Updated
<1> QED
  BY <1>1, <1>3, <1>4 DEF Table, Updated

-----------------------------------------------------------------------------
(* The steps *)

\* The initial state.
LEMMA InitIInv == Init => IInv
<1> SUFFICES ASSUME Init PROVE IInv
  OBVIOUS
<1>1. /\ pending = [q \in {GDBJobQueue} |-> <<>>] /\ running = [q \in {GDBJobQueue} |-> NoJob]
      /\ done = {}
  BY DEF Init, Executor!Init
<1>2. /\ connections \in Seq(Connections) /\ IsInjective(connections)
      /\ ToSet(connections) = Connections
  BY Enumeration, JobsAssumption DEF Init
<1>3. step = "idle" /\ users = <<>> /\ dbConn = NoConnection /\ job = NoJob
  BY <1>1 DEF Init, job
<1>4. TypeOK
  BY <1>1, <1>2, <1>3 DEF Init, TypeOK, Steps
<1>5. Table /\ DuplicatesAreMisread
  BY <1>3, EmptySeq DEF Table, DuplicatesAreMisread
<1>7. Unread
  BY <1>1, <1>3, EmptyRange DEF Init, Unread
<1>6. Pool
  BY <1>2, <1>3, JobsAssumption DEF Init, Pool, Executing
<1> QED
  BY <1>3, <1>4, <1>5, <1>6, <1>7 DEF IInv, Handler, Reads

\* A running job is a request.
LEMMA JobRuns ==
    ASSUME IInv, step # "idle"
    PROVE  /\ job \in Jobs /\ job # NoJob /\ job.kind \in {"join", "login", "exp"}
           /\ job.kind = "exp" => job.rewardExp \in Nat
  BY JobsAssumption DEF IInv, TypeOK, job

\* A job that ends leaves the executor idle.
LEMMA FinishStep ==
    ASSUME IInv, step # "idle", FinishJob
    PROVE  /\ step' = "idle" /\ job' = NoJob /\ pending' = pending
           /\ running' \in [{GDBJobQueue} -> Jobs \cup {NoJob}]
           /\ done' = done \cup {job} /\ done' \subseteq Jobs
<1>1. running \in [{GDBJobQueue} -> Jobs \cup {NoJob}]
  BY DEF IInv, TypeOK
<1>2. /\ step' = "idle" /\ pending' = pending /\ done' = done \cup {job}
      /\ running' = [running EXCEPT ![GDBJobQueue] = NoJob]
  BY DEF FinishJob, Executor!Finish, job
<1> QED
  BY <1>1, <1>2, JobRuns DEF IInv, TypeOK, job

\* The answer to a request.
LEMMA AnswerType ==
    ASSUME IInv, NEW result \in {"ok", "fail"}, Answer(result)
    PROVE  reply' \in [Jobs -> {"none", "ok", "fail"}]
  BY DEF IInv, TypeOK, Answer

\* A job that ends is done, and its Fetch cannot fail any more.
LEMMA UnreadFinish ==
    ASSUME IInv, step # "idle", FinishJob, misread' = misread \/ misread' = misread \cup {job}
    PROVE  Unread' /\ misread' \subseteq Jobs
<1>1. /\ step' = "idle" /\ job' = NoJob /\ pending' = pending /\ done' = done \cup {job}
      /\ done' \subseteq Jobs
  BY FinishStep
<1>2. /\ IsInjective(pending[GDBJobQueue]) /\ job \notin Range(pending[GDBJobQueue])
      /\ Range(pending[GDBJobQueue]) \cap (misread \cup done) = {}
      /\ misread \subseteq done \cup {job} /\ misread \subseteq Jobs
  BY DEF IInv, Unread, TypeOK
<1>3. NoJob \notin Range(pending[GDBJobQueue])
  <2>1. pending[GDBJobQueue] \in Seq(Jobs)
    BY DEF IInv, TypeOK
  <2>2. \A i \in DOMAIN pending[GDBJobQueue] : pending[GDBJobQueue][i] \in Jobs
    BY <2>1
  <2> QED
    BY <2>2, JobsAssumption DEF Range
<1>4. job \in Jobs
  BY JobRuns
<1> QED
  BY <1>1, <1>2, <1>3, <1>4, JobsAssumption DEF Unread

\* A step inside a job, which has not read yet or whose Fetch may just have failed.
LEMMA UnreadInside ==
    ASSUME IInv, step # "idle", UNCHANGED <<pending, running, done>>,
           misread' = misread \/ misread' = misread \cup {job},
           step' \in {"begin", "exists", "password", "exp"} => job \notin misread'
    PROVE  Unread' /\ misread' \subseteq Jobs
<1>1. job' = job /\ job \in Jobs
  BY JobRuns DEF job
<1> QED
  BY <1>1 DEF IInv, TypeOK, Unread

\* DoAsync and StartJob touch the executor only.
LEMMA ScheduleStep ==
    ASSUME IInv, StartJob \/ \E j \in Jobs : DoAsync(j)
    PROVE  IInv'
<1>0. /\ pending[GDBJobQueue] \in Seq(Jobs) /\ IsInjective(pending[GDBJobQueue])
      /\ pending \in [{GDBJobQueue} -> Seq(Jobs)]
  BY DEF IInv, TypeOK, Unread
<1>1. ASSUME NEW j \in Jobs, DoAsync(j) PROVE IInv'
  <2>1. /\ pending' = [pending EXCEPT ![GDBJobQueue] = Append(@, j)]
        /\ j \notin done /\ job # j /\ j \notin Range(pending[GDBJobQueue])
        /\ UNCHANGED <<running, done>>
    BY <1>1 DEF DoAsync, Executor!Submit, Executor!Known, Range, job
  <2>2. pending'[GDBJobQueue] = Append(pending[GDBJobQueue], j)
    BY <1>0, <2>1
  <2>3. /\ pending'[GDBJobQueue] \in Seq(Jobs) /\ IsInjective(pending'[GDBJobQueue])
        /\ Range(pending'[GDBJobQueue]) = Range(pending[GDBJobQueue]) \cup {j}
    BY <1>0, <2>1, <2>2, AppendNew
  <2>4. pending' \in [{GDBJobQueue} -> Seq(Jobs)]
    BY <1>0, <2>1, <2>2, <2>3
  <2>5. job' = job /\ UNCHANGED <<step, misread, done>>
    BY <1>1, <2>1 DEF DoAsync, job
  <2>6. j \notin misread
    BY <2>1 DEF IInv, Unread
  <2>7. Unread'
    BY <2>1, <2>3, <2>5, <2>6 DEF IInv, Unread
  <2>8. Reads'
    BY <1>1, <2>5 DEF DoAsync, IInv, Reads, Exists, OutExp, Fetched, RowsOf
  <2> QED
    BY <1>1, <2>1, <2>4, <2>5, <2>7, <2>8
    DEF DoAsync, IInv, TypeOK, Table, Handler, Accepted, Pool, DuplicatesAreMisread
<1>2. ASSUME StartJob PROVE IInv'
  <2>1. /\ running[GDBJobQueue] = NoJob /\ pending[GDBJobQueue] # <<>>
        /\ running' = [running EXCEPT ![GDBJobQueue] = Head(pending[GDBJobQueue])]
        /\ pending' = [pending EXCEPT ![GDBJobQueue] = Tail(@)]
        /\ step' = "begin"
        /\ UNCHANGED <<done, dbConn, currentExp, connections, cursors, users, reply, misread, crashed>>
    BY <1>2 DEF StartJob, Executor!Start
  <2>2. step = "idle" /\ job = NoJob
    BY <2>1 DEF IInv, TypeOK, job
  <2>3. /\ Head(pending[GDBJobQueue]) \in Jobs /\ Tail(pending[GDBJobQueue]) \in Seq(Jobs)
        /\ Head(pending[GDBJobQueue]) \in Range(pending[GDBJobQueue])
        /\ IsInjective(Tail(pending[GDBJobQueue]))
        /\ Range(Tail(pending[GDBJobQueue]))
              = Range(pending[GDBJobQueue]) \ {Head(pending[GDBJobQueue])}
    BY <1>0, <2>1, TailInjective
  <2>4. TypeOK'
    BY <1>0, <2>1, <2>2, <2>3, JobsAssumption DEF IInv, TypeOK, Steps, job
  <2>5. Pool' /\ Handler' /\ Reads'
    BY <2>1, <2>2 DEF IInv, Pool, Handler, Reads, Executing
  <2>6. job' = Head(pending[GDBJobQueue]) /\ pending'[GDBJobQueue] = Tail(pending[GDBJobQueue])
    BY <1>0, <2>1 DEF IInv, TypeOK, job
  <2>7. NoJob \notin misread /\ misread \subseteq done \cup {job}
    BY JobsAssumption DEF IInv, TypeOK, Unread
  <2>8. Unread'
    BY <2>1, <2>2, <2>3, <2>6, <2>7 DEF IInv, Unread
  <2> QED
    BY <2>1, <2>4, <2>5, <2>8 DEF IInv, Table, DuplicatesAreMisread
<1> QED
  BY <1>1, <1>2

\* The head of the handlers.
LEMMA BeginStep == ASSUME IInv, Begin PROVE IInv'
<1>1. step = "begin" /\ crashed = "no" /\ UNCHANGED <<currentExp, users, misread>>
  BY DEF Begin
<1>2. step \notin Executing /\ dbConn = NoConnection
  BY <1>1 DEF IInv, Pool, Executing
<1>3. ASSUME Answer("fail"), FinishJob, UNCHANGED <<dbConn, connections, cursors, crashed>>
      PROVE  IInv'
  <2>1. Unread' /\ misread' \subseteq Jobs
    BY <1>1, <1>3, UnreadFinish
  <2>2. TypeOK'
    BY <1>1, <1>3, <2>1, FinishStep, AnswerType DEF IInv, TypeOK, Steps
  <2>3. Pool' /\ Handler' /\ Reads'
    BY <1>1, <1>2, <1>3, FinishStep DEF IInv, Pool, Handler, Reads, Executing
  <2> QED
    BY <1>1, <2>1, <2>2, <2>3 DEF IInv, Table, DuplicatesAreMisread
<1>4. ASSUME Accepted(job), NEW next \in Executing, PopConnection(next),
             next = CASE job.kind = "join" -> "exists"
                      [] job.kind = "login" -> "password"
                      [] job.kind = "exp" -> "exp",
             UNCHANGED <<pending, running, done, reply>>
      PROVE  IInv'
  <2>1. /\ step' = next /\ crashed' = crashed
        /\ dbConn' \in Connections /\ connections' \in Seq(Connections)
        /\ cursors' \subseteq Connections /\ Pool'
    BY <1>2, <1>4, PopStep
  <2>2. Unread' /\ misread' \subseteq Jobs
    <3>1. job \notin misread'
      BY <1>1 DEF IInv, Unread
    <3> QED
      BY <1>1, <1>4, <3>1, UnreadInside
  <2>3. TypeOK'
    BY <1>1, <1>4, <2>1, <2>2 DEF IInv, TypeOK, Steps, Executing, job
  <2>4. Handler' /\ Reads'
    BY <1>1, <1>4, <2>1, JobRuns DEF Handler, Reads, Accepted, job
  <2> QED
    BY <1>1, <2>1, <2>2, <2>3, <2>4 DEF IInv, Table, DuplicatesAreMisread
<1>5. (CASE job.kind = "join" -> "exists"
         [] job.kind = "login" -> "password"
         [] job.kind = "exp" -> "exp") \in Executing
  BY <1>1, JobRuns DEF Executing
<1> QED
  BY <1>3, <1>4, <1>5 DEF Begin, Accepted

\* HandleJoin: from the SELECT to the INSERT the nickname is free, or the job is
\* one whose Fetch has failed.
LEMMA JoinStep == ASSUME IInv, JoinExists \/ JoinAgain \/ JoinInsert PROVE IInv'
<1>1. ASSUME JoinExists PROVE IInv'
  <2>1. step = "exists" /\ step \in Executing
    BY <1>1 DEF JoinExists, Executing
  <2>2. UNCHANGED <<currentExp, users, crashed>> /\ PushConnection /\ cursors' = cursors \cup {dbConn}
    BY <1>1 DEF JoinExists, Select
  <2>3. cursors' \subseteq Connections
    BY <2>1, <2>2 DEF IInv, TypeOK, Pool
  <2>4. PICK ok \in BOOLEAN :
           /\ Fetch(ok)
           /\ \/ ok /\ Exists(job.nickname) /\ Answer("fail") /\ FinishJob
              \/ /\ ~(ok /\ Exists(job.nickname))
                 /\ step' = "again" /\ UNCHANGED <<pending, running, done, reply>>
    BY <1>1 DEF JoinExists
  <2>5. misread' = misread \/ misread' = misread \cup {job}
    BY <2>4 DEF Fetch
  <2>6. DuplicatesAreMisread' /\ Table'
    BY <2>2, <2>5, StillMisread DEF IInv, Table
  <2>7. CASE Answer("fail") /\ FinishJob
    <3>1. step' = "idle"
      BY <2>1, <2>7, FinishStep
    <3>2. dbConn' = NoConnection /\ connections' \in Seq(Connections) /\ Pool'
      BY <2>1, <2>2, <3>1, PushStep DEF Executing
    <3>3. Unread' /\ misread' \subseteq Jobs
      BY <2>1, <2>5, <2>7, UnreadFinish
    <3>4. TypeOK'
      BY <2>1, <2>2, <2>3, <2>7, <3>2, <3>3, FinishStep, AnswerType DEF IInv, TypeOK, Steps
    <3> QED
      BY <2>6, <3>1, <3>2, <3>3, <3>4 DEF IInv, Handler, Reads
  <2>8. CASE ~(ok /\ Exists(job.nickname)) /\ step' = "again" /\ UNCHANGED <<pending, running, done, reply>>
    <3>1. dbConn' = NoConnection /\ connections' \in Seq(Connections) /\ Pool'
      BY <2>1, <2>2, <2>8, PushStep DEF Executing
    <3>2. Unread' /\ misread' \subseteq Jobs
      BY <2>1, <2>5, <2>8, UnreadInside
    <3>3. TypeOK'
      BY <2>1, <2>2, <2>3, <2>8, <3>1, <3>2 DEF IInv, TypeOK, Steps, job
    <3>4. job \in misread' \/ ~Exists(job.nickname)
      BY <2>4, <2>8 DEF Fetch
    <3>5. Handler' /\ Reads'
      BY <2>1, <2>2, <2>8, <3>4 DEF IInv, Handler, Reads, Accepted, Exists, RowsOf, job
    <3> QED
      BY <2>6, <3>1, <3>2, <3>3, <3>5 DEF IInv
  <2> QED
    BY <2>4, <2>7, <2>8
<1>2. ASSUME JoinAgain PROVE IInv'
  <2>1. /\ step = "again" /\ step \notin Executing /\ "insert" \in Executing
        /\ PopConnection("insert")
        /\ UNCHANGED <<pending, running, done, currentExp, users, reply, misread>>
    BY <1>2 DEF JoinAgain, Executing
  <2>2. /\ step' = "insert" /\ crashed' = crashed
        /\ dbConn' \in Connections /\ connections' \in Seq(Connections)
        /\ cursors' \subseteq Connections /\ Pool'
    BY <2>1, PopStep
  <2>3. Unread' /\ misread' \subseteq Jobs
    BY <2>1, <2>2, UnreadInside
  <2>4. TypeOK'
    BY <2>1, <2>2, <2>3 DEF IInv, TypeOK, Steps, job
  <2>5. Handler' /\ Reads'
    BY <2>1, <2>2 DEF IInv, Handler, Reads, Accepted, Exists, RowsOf, job
  <2> QED
    BY <2>1, <2>2, <2>3, <2>4, <2>5 DEF IInv, Table, DuplicatesAreMisread
<1>3. ASSUME JoinInsert PROVE IInv'
  <2>1. /\ step = "insert" /\ step \in Executing
        /\ users' = Append(users, Row(job.nickname, job.password))
        /\ PushConnection /\ Answer("ok") /\ FinishJob
        /\ UNCHANGED <<currentExp, cursors, misread, crashed>>
    BY <1>3 DEF JoinInsert, Executing
  <2>2. step' = "idle" /\ step' \notin Executing
    BY <2>1, FinishStep DEF Executing
  <2>3. dbConn' = NoConnection /\ connections' \in Seq(Connections) /\ Pool'
    BY <2>1, <2>2, PushStep
  <2>4. Row(job.nickname, job.password) \in Rows
    BY <2>1, JobRuns DEF Rows, Row
  <2>5. /\ Table' /\ DOMAIN users' = 1 .. Len(users) + 1 /\ DOMAIN users = 1 .. Len(users)
        /\ Len(users) \in Nat
        /\ \A i \in DOMAIN users : users'[i] = users[i]
        /\ users'[Len(users) + 1] = Row(job.nickname, job.password)
    BY <2>1, <2>4, InsertRow DEF IInv
  <2>6. PICK j : j = job
    OBVIOUS
  <2>7. /\ j \in misread \/ \A i \in DOMAIN users : users[i].nickname # j.nickname
        /\ j.kind = "join"
    BY <2>1, <2>6 DEF IInv, Reads, Handler, Exists, RowsOf
  <2>8. /\ users'[Len(users) + 1].nickname = j.nickname
        /\ users'[Len(users) + 1].password = j.password
    BY <2>5, <2>6 DEF Row
  <2>9. DuplicatesAreMisread'
    <3> SUFFICES ASSUME NEW i \in DOMAIN users', NEW k \in DOMAIN users', i < k,
                        users'[i].nickname = users'[k].nickname
                 PROVE  \E l \in misread : /\ l.kind = "join" /\ l.nickname = users'[k].nickname
                                           /\ l.password = users'[k].password
      BY <2>1 DEF DuplicatesAreMisread
    <3>1. CASE k \in DOMAIN users
      <4>1. i \in DOMAIN users
        BY <2>5, <3>1
      <4> QED
        BY <2>5, <3>1, <4>1 DEF IInv, DuplicatesAreMisread
    <3>2. CASE k \notin DOMAIN users
      <4>1. k = Len(users) + 1 /\ i \in DOMAIN users
        BY <2>5, <3>2
      <4> QED
        BY <2>5, <2>7, <2>8, <4>1
    <3> QED
      BY <3>1, <3>2
  <2>10. \A i \in DOMAIN users' : users'[i].exp \in Nat
    <3>1. \A i \in DOMAIN users : users[i].exp \in Nat
      BY DEF IInv, TypeOK
    <3> QED
      BY <2>5, <3>1 DEF Row
  <2>11. Unread' /\ misread' \subseteq Jobs
    BY <2>1, UnreadFinish
  <2>12. TypeOK'
    BY <2>1, <2>2, <2>3, <2>10, <2>11, FinishStep, AnswerType DEF IInv, TypeOK, Steps
  <2> QED
    BY <2>2, <2>3, <2>5, <2>9, <2>11, <2>12 DEF IInv, Handler, Reads
<1> QED
  BY <1>1, <1>2, <1>3

\* HandleLogin reads only.
LEMMA LoginStep == ASSUME IInv, LoginPassword PROVE IInv'
<1>1. /\ step = "password" /\ step \in Executing /\ cursors' = cursors \cup {dbConn}
      /\ PushConnection /\ FinishJob
      /\ UNCHANGED <<currentExp, users, crashed>>
  BY DEF LoginPassword, Executing, Select
<1>2. step' = "idle" /\ step' \notin Executing
  BY <1>1, FinishStep DEF Executing
<1>3. dbConn' = NoConnection /\ connections' \in Seq(Connections) /\ Pool'
  BY <1>1, <1>2, PushStep
<1>4. cursors' \subseteq Connections
  BY <1>1 DEF IInv, TypeOK, Pool
<1>5. reply' \in [Jobs -> {"none", "ok", "fail"}]
  BY AnswerType DEF LoginPassword
<1>6. misread' = misread \/ misread' = misread \cup {job}
  BY DEF LoginPassword, Fetch
<1>7. Unread' /\ misread' \subseteq Jobs
  BY <1>1, <1>6, UnreadFinish
<1>8. TypeOK'
  BY <1>1, <1>2, <1>3, <1>4, <1>5, <1>7, FinishStep DEF IInv, TypeOK, Steps
<1>9. DuplicatesAreMisread'
  BY <1>1, <1>6, StillMisread DEF IInv
<1> QED
  BY <1>1, <1>2, <1>3, <1>7, <1>8, <1>9 DEF IInv, Table, Handler, Reads

\* HandleIncreaseExp: what Fetch has got is so until the UPDATE.
LEMMA ExpStep == ASSUME IInv, ReadExp \/ WriteExp PROVE IInv'
<1>1. ASSUME ReadExp PROVE IInv'
  <2>1. /\ step = "exp" /\ step' = "update" /\ step \in Executing /\ step' \in Executing
        /\ cursors' = (cursors \cup {dbConn}) \ {dbConn}
        /\ UNCHANGED <<pending, running, done, dbConn, connections, users, reply, crashed>>
    BY <1>1 DEF ReadExp, Executing, Select, Unbind
  <2>2. PICK ok \in BOOLEAN : Fetch(ok) /\ currentExp' \in OutExp(Fetched(job.nickname, ok))
    BY <1>1 DEF ReadExp
  <2>3. misread' = misread \/ misread' = misread \cup {job}
    BY <2>2 DEF Fetch
  <2>4. ok <=> job \notin misread'
    BY <2>1, <2>2 DEF Fetch, IInv, Unread
  <2>5. currentExp' \in Nat
    BY <2>2, OutExpType DEF IInv
  <2>6. Unread' /\ misread' \subseteq Jobs
    BY <2>1, <2>3, UnreadInside
  <2>7. TypeOK'
    BY <2>1, <2>5, <2>6 DEF IInv, TypeOK, Steps, job
  <2>8. Pool'
    BY <2>1 DEF IInv, Pool
  <2>9. Handler'
    BY <2>1 DEF IInv, Handler, job
  <2>10. Reads'
    <3>1. job' = job
      BY <2>1 DEF job
    <3>2. currentExp' \in OutExp(Fetched(job.nickname, job \notin misread))'
      BY <2>1, <2>2, <2>4, <3>1 DEF OutExp, Fetched, RowsOf
    <3> QED
      BY <2>1, <3>2 DEF Reads
  <2>11. DuplicatesAreMisread'
    BY <2>1, <2>3, StillMisread DEF IInv
  <2> QED
    BY <2>1, <2>6, <2>7, <2>8, <2>9, <2>10, <2>11 DEF IInv, Table
<1>2. ASSUME WriteExp PROVE IInv'
  <2> DEFINE e == currentExp + job.rewardExp
             n == job.nickname
  <2>1. /\ step = "update" /\ step \in Executing /\ PushConnection /\ FinishJob
        /\ currentExp' = 0 /\ UNCHANGED <<cursors, reply, misread, crashed>>
    BY <1>2 DEF WriteExp, Executing
  <2>2. currentExp \in Nat /\ job.rewardExp \in Nat
    BY <2>1, JobRuns DEF IInv, TypeOK, Handler
  <2>E. e \in Nat
    BY <2>2
  <2>U. users' = Updated(n, e)
    BY <1>2 DEF WriteExp, NewExp, Updated
  <2>T. Table
    BY DEF IInv
  <2> HIDE DEF e, n
  <2>3. /\ Table' /\ DOMAIN users' = DOMAIN users
        /\ \A i \in DOMAIN users :
              /\ users'[i].nickname = users[i].nickname
              /\ users'[i].password = users[i].password
              /\ users'[i].exp = IF users[i].nickname = n THEN e ELSE users[i].exp
    BY <2>E, <2>U, <2>T, UpdateRows
  <2>4. DuplicatesAreMisread' /\ \A i \in DOMAIN users' : users'[i].exp \in Nat
    <3>1. \A i \in DOMAIN users' : users'[i].exp \in Nat
      <4>1. \A i \in DOMAIN users : users[i].exp \in Nat
        BY DEF IInv, TypeOK
      <4> QED
        BY <2>E, <2>3, <4>1
    <3>2. misread' = misread /\ DuplicatesAreMisread
      BY <2>1 DEF IInv
    <3>3. DuplicatesAreMisread'
      BY <2>3, <3>2 DEF DuplicatesAreMisread
    <3> QED
      BY <3>1, <3>3
  <2>5. step' = "idle" /\ step' \notin Executing
    BY <2>1, FinishStep DEF Executing
  <2>6. dbConn' = NoConnection /\ connections' \in Seq(Connections) /\ Pool'
    BY <2>1, <2>5, PushStep
  <2>7. Unread' /\ misread' \subseteq Jobs
    BY <2>1, UnreadFinish
  <2>8. TypeOK'
    BY <2>1, <2>4, <2>5, <2>6, <2>7, FinishStep DEF IInv, TypeOK, Steps
  <2> QED
    BY <2>3, <2>4, <2>5, <2>6, <2>7, <2>8 DEF IInv, Handler, Reads
<1> QED
  BY <1>1, <1>2

\* A statement that fails ends the server.
LEMMA FailStep == ASSUME IInv, ExecuteFails \/ UNCHANGED vars PROVE IInv'
<1>1. /\ crashed' \in {crashed, "statement"}
      /\ UNCHANGED <<pending, running, done, step, dbConn, currentExp, connections, cursors, users,
                     reply, misread>>
  BY DEF ExecuteFails, vars
<1>2. TypeOK' /\ Pool'
  BY <1>1 DEF IInv, TypeOK, Pool, job
<1>3. Unread'
  BY <1>1 DEF IInv, Unread, job
<1>4. Reads'
  BY <1>1 DEF IInv, Reads, Exists, OutExp, Fetched, RowsOf, job
<1> QED
  BY <1>1, <1>2, <1>3, <1>4 DEF IInv, Table, DuplicatesAreMisread, Handler, Accepted, job

\* Each step keeps the invariant.
LEMMA NextStep == IInv /\ [Next]_vars => IInv'
  BY ScheduleStep, BeginStep, JoinStep, LoginStep, ExpStep, FailStep DEF Next, RunJob

-----------------------------------------------------------------------------
(* Theorems about the state *)

\* The parts together are inductive: what a job has read is still so when it
\* writes, unless its own Fetch has failed.
THEOREM Inductive == Spec => []IInv
  BY InitIInv, NextStep, PTL DEF Spec

\* The variables keep their types.
THEOREM TypeCorrect == Spec => []TypeOK
  BY Inductive, PTL DEF IInv

\* A job always finds a connection, and never one with an open cursor.
THEOREM ConnectionReadyHolds == Spec => []ConnectionReady
<1>1. IInv => ConnectionReady
  BY DEF IInv, Pool, ConnectionReady
<1> QED
  BY <1>1, Inductive, PTL

\* A nickname is registered a second time only by a join whose Fetch has failed.
THEOREM DuplicatesAreMisreadHolds == Spec => []DuplicatesAreMisread
  BY Inductive, PTL DEF IInv

-----------------------------------------------------------------------------
(* The refinement *)

\* The end of a job takes the first of the requests not yet served.
LEMMA ServeFirst ==
    ASSUME IInv, step # "idle", FinishJob
    PROVE  /\ Waiting # <<>> /\ job = Head(Waiting) /\ Waiting' = Tail(Waiting)
           /\ done' = done \cup {job} /\ job \in Jobs
<1>1. pending[GDBJobQueue] \in Seq(Jobs)
  BY DEF IInv, TypeOK
<1>2. job \in Jobs /\ job # NoJob
  BY JobRuns
<1>3. job' = NoJob /\ pending' = pending /\ done' = done \cup {job}
  BY FinishStep
<1>4. Waiting = <<job>> \o pending[GDBJobQueue]
  BY <1>2 DEF Waiting
<1>5. Waiting' = pending[GDBJobQueue]
  BY <1>1, <1>3, ConcatEmptySeq DEF Waiting
<1>6. /\ <<job>> \o pending[GDBJobQueue] # <<>>
      /\ Head(<<job>> \o pending[GDBJobQueue]) = job
      /\ Tail(<<job>> \o pending[GDBJobQueue]) = pending[GDBJobQueue]
  BY <1>1, <1>2
<1> QED
  BY <1>2, <1>3, <1>4, <1>5, <1>6

\* The requests of Accounts that were served without reading: the job that ends is
\* one of them exactly when its Fetch has failed.
LEMMA MisreadServed ==
    ASSUME IInv, done' = done \cup {job}, misread' = misread \/ misread' = misread \cup {job}
    PROVE  /\ job \in misread' => (misread \cap done)' = (misread \cap done) \cup {job}
           /\ job \notin misread' => (misread \cap done)' = misread \cap done
  BY DEF IInv, Unread

\* A step inside a job is none of Accounts.
LEMMA InsideJob ==
    ASSUME IInv, UNCHANGED <<pending, running, done, users, reply>>,
           misread' = misread \/ misread' = misread \cup {job}
    PROVE  UNCHANGED Abstract!vars
<1>1. Waiting' = Waiting
  BY DEF Waiting, job
<1>2. (misread \cap done)' = misread \cap done
  BY DEF IInv, Unread
<1> QED
  BY <1>1, <1>2 DEF Abstract!vars

\* DoAsync submits, and the start of a job is none of Accounts.
LEMMA ScheduleMaps ==
    ASSUME IInv
    PROVE  /\ \A j \in Jobs : DoAsync(j) => Abstract!Submit(j)
           /\ StartJob => UNCHANGED Abstract!vars
<1>0. pending \in [{GDBJobQueue} -> Seq(Jobs)] /\ running \in [{GDBJobQueue} -> Jobs \cup {NoJob}]
  BY DEF IInv, TypeOK
<1> DEFINE p == pending[GDBJobQueue]
<1>1. p \in Seq(Jobs)
  BY <1>0
<1>2. ASSUME NEW j \in Jobs, DoAsync(j) PROVE Abstract!Submit(j)
  <2>1. /\ j \notin done /\ job # j /\ \A i \in DOMAIN p : p[i] # j
        /\ pending' = [pending EXCEPT ![GDBJobQueue] = Append(@, j)]
        /\ UNCHANGED <<running, done, users, reply, misread>>
    BY <1>2 DEF DoAsync, Executor!Submit, Executor!Known, job
  <2>2. pending'[GDBJobQueue] = Append(p, j) /\ job' = job
    BY <1>0, <2>1 DEF job
  <2>3. Waiting' = Append(Waiting, j) /\ \A i \in DOMAIN Waiting : Waiting[i] # j
    <3>1. CASE job = NoJob
      <4>1. Waiting = p /\ Waiting' = Append(p, j)
        BY <1>1, <2>2, <3>1 DEF Waiting
      <4> QED
        BY <2>1, <4>1
    <3>2. CASE job # NoJob
      <4>1. Waiting = <<job>> \o p /\ Waiting' = <<job>> \o Append(p, j)
        BY <2>2, <3>2 DEF Waiting
      <4>2. job \in Jobs
        BY <1>0, <3>2 DEF job
      <4>3. <<job>> \o Append(p, j) = Append(<<job>> \o p, j)
        BY <1>1, <4>2
      <4>4. \A i \in DOMAIN (<<job>> \o p) : (<<job>> \o p)[i] # j
        BY <1>1, <2>1, <4>2
      <4> QED
        BY <4>1, <4>3, <4>4
    <3> QED
      BY <3>1, <3>2
  <2> QED
    BY <2>1, <2>3 DEF Abstract!Submit
<1>3. ASSUME StartJob PROVE UNCHANGED Abstract!vars
  <2>1. /\ running[GDBJobQueue] = NoJob /\ p # <<>>
        /\ running' = [running EXCEPT ![GDBJobQueue] = Head(p)]
        /\ pending' = [pending EXCEPT ![GDBJobQueue] = Tail(p)]
        /\ UNCHANGED <<done, users, reply, misread>>
    BY <1>3 DEF StartJob, Executor!Start
  <2>2. job = NoJob /\ job' = Head(p) /\ pending'[GDBJobQueue] = Tail(p)
    BY <1>0, <2>1 DEF job
  <2>3. Head(p) # NoJob /\ p = <<Head(p)>> \o Tail(p)
    BY <1>1, <2>1, JobsAssumption
  <2>4. Waiting = p /\ Waiting' = p
    BY <1>1, <2>2, <2>3 DEF Waiting
  <2> QED
    BY <2>1, <2>4 DEF Abstract!vars
<1> QED
  BY <1>2, <1>3

\* The job that ends is served by Accounts, with what it found: all the accounts of
\* its nickname, or none after a failed Fetch.
LEMMA ServedMaps ==
    ASSUME IInv, step # "idle", FinishJob,
           misread' = misread \/ misread' = misread \cup {job},
           \/ job \in misread' /\ Abstract!Process(job, {})
           \/ job \notin misread' /\ Abstract!Process(job, Abstract!AccountsOf(job))
    PROVE  Abstract!Next
<1>1. /\ Waiting # <<>> /\ job = Head(Waiting) /\ Waiting' = Tail(Waiting)
      /\ done' = done \cup {job} /\ job \in Jobs
  BY ServeFirst
<1>2. /\ job \in misread' => (misread \cap done)' = (misread \cap done) \cup {job}
      /\ job \notin misread' => (misread \cap done)' = misread \cap done
  BY <1>1, MisreadServed
<1>3. Abstract!Serve(job)
  BY <1>1, <1>2 DEF Abstract!Serve
<1> QED
  BY <1>1, <1>3 DEF Abstract!Next

\* The empty fields are refused at once.
LEMMA BeginMaps == IInv /\ Begin => Abstract!Next \/ UNCHANGED Abstract!vars
<1> SUFFICES ASSUME IInv, Begin PROVE Abstract!Next \/ UNCHANGED Abstract!vars
  OBVIOUS
<1>1. /\ step = "begin" /\ users' = users /\ misread' = misread
      /\ job \in Jobs /\ job.kind \in {"join", "login", "exp"}
  BY JobRuns DEF Begin
<1>2. ASSUME job.kind # "exp", job.nickname = Empty \/ job.password = Empty, Answer("fail"), FinishJob
      PROVE  Abstract!Next
  <2>1. job \notin misread'
    BY <1>1 DEF IInv, Unread
  <2>2. /\ Waiting # <<>> /\ job = Head(Waiting) /\ Waiting' = Tail(Waiting)
        /\ done' = done \cup {job}
    BY <1>1, <1>2, ServeFirst
  <2>3. (misread \cap done)' = misread \cap done
    BY <1>1, <2>1, <2>2, MisreadServed
  <2>4. Abstract!RefuseEmpty(job)
    BY <1>1, <1>2, <2>3 DEF Abstract!RefuseEmpty, Abstract!Valid, Abstract!Answer, Answer
  <2> QED
    BY <1>1, <2>2, <2>4 DEF Abstract!Next, Abstract!Serve
<1>3. ASSUME UNCHANGED <<pending, running, done, reply>> PROVE UNCHANGED Abstract!vars
  BY <1>1, <1>3, InsideJob
<1> QED
  BY <1>2, <1>3 DEF Begin

\* The INSERT registers the nickname, which is free since the SELECT unless Fetch
\* has failed.
LEMMA JoinMaps ==
    IInv /\ (JoinExists \/ JoinAgain \/ JoinInsert) => Abstract!Next \/ UNCHANGED Abstract!vars
<1> SUFFICES ASSUME IInv, JoinExists \/ JoinAgain \/ JoinInsert
             PROVE  Abstract!Next \/ UNCHANGED Abstract!vars
  OBVIOUS
<1>1. ASSUME JoinExists PROVE Abstract!Next \/ UNCHANGED Abstract!vars
  <2>1. /\ step = "exists" /\ users' = users /\ job \in Jobs /\ job.kind = "join" /\ Accepted(job)
        /\ job \notin misread
    BY <1>1, JobRuns DEF JoinExists, IInv, Handler, Unread
  <2>2. PICK ok \in BOOLEAN :
           /\ Fetch(ok)
           /\ \/ ok /\ Exists(job.nickname) /\ Answer("fail") /\ FinishJob
              \/ UNCHANGED <<pending, running, done, reply>>
    BY <1>1 DEF JoinExists
  <2>3. misread' = misread \/ misread' = misread \cup {job}
    BY <2>2 DEF Fetch
  <2>4. CASE ok /\ Exists(job.nickname) /\ Answer("fail") /\ FinishJob
    <3>1. job \notin misread'
      BY <2>1, <2>2, <2>4 DEF Fetch
    <3>2. Abstract!AccountsOf(job) # {}
      BY <2>4 DEF Abstract!AccountsOf, Exists, RowsOf
    <3>3. Abstract!Process(job, Abstract!AccountsOf(job))
      BY <2>1, <2>4, <3>2
      DEF Abstract!Process, Abstract!Refuse, Abstract!Valid, Abstract!Answer, Answer, Accepted
    <3> QED
      BY <2>1, <2>3, <2>4, <3>1, <3>3, ServedMaps
  <2>5. CASE UNCHANGED <<pending, running, done, reply>>
    BY <2>1, <2>3, <2>5, InsideJob
  <2> QED
    BY <2>2, <2>4, <2>5
<1>2. ASSUME JoinAgain PROVE UNCHANGED Abstract!vars
  BY <1>2, InsideJob DEF JoinAgain
<1>3. ASSUME JoinInsert PROVE Abstract!Next
  <2>1. /\ step = "insert" /\ users' = Append(users, Row(job.nickname, job.password))
        /\ Answer("ok") /\ FinishJob /\ misread' = misread
        /\ job.kind = "join" /\ Accepted(job) /\ (job \in misread \/ ~Exists(job.nickname))
    BY <1>3 DEF JoinInsert, IInv, Handler, Reads
  <2>2. \A found : found = {} => Abstract!Process(job, found)
    BY <2>1 DEF Abstract!Process, Abstract!Register, Abstract!Valid, Abstract!Answer, Answer, Accepted, Row
  <2>3. ~Exists(job.nickname) => Abstract!AccountsOf(job) = {}
    BY DEF Abstract!AccountsOf, Exists, RowsOf
  <2> QED
    BY <2>1, <2>2, <2>3, ServedMaps
<1> QED
  BY <1>1, <1>2, <1>3

\* A login compares with the password of a row; one that has fetched no row compares
\* with the empty string, which the password of the request is not.
LEMMA LoginMaps == IInv /\ LoginPassword => Abstract!Next
<1> SUFFICES ASSUME IInv, LoginPassword PROVE Abstract!Next
  OBVIOUS
<1>1. /\ step = "password" /\ users' = users /\ FinishJob /\ job \notin misread
      /\ job \in Jobs /\ job.kind = "login" /\ job.nickname # Empty /\ job.password # Empty
  BY JobRuns DEF LoginPassword, IInv, Handler, Accepted, Unread
<1>2. PICK ok \in BOOLEAN :
         /\ Fetch(ok)
         /\ \E w \in OutPassword(Fetched(job.nickname, ok)) :
               Answer(IF w = job.password THEN "ok" ELSE "fail")
  BY DEF LoginPassword
<1>3. misread' = misread \/ misread' = misread \cup {job}
  BY <1>2 DEF Fetch
<1>4. PICK found : found = Fetched(job.nickname, ok)
  OBVIOUS
<1>5. \/ job \in misread' /\ found = {}
      \/ job \notin misread' /\ found = Abstract!AccountsOf(job)
  BY <1>1, <1>2, <1>4 DEF Fetch, Fetched, RowsOf, Abstract!AccountsOf
<1>6. Abstract!Process(job, found)
  <2>0. PICK w \in OutPassword(found) : Answer(IF w = job.password THEN "ok" ELSE "fail")
    BY <1>2, <1>4
  <2>1. \/ found = {} /\ w = Empty
        \/ \E i \in found : users[i].password = w
    BY <2>0 DEF OutPassword
  <2>2. CASE w = job.password
    BY <1>1, <2>0, <2>1, <2>2
    DEF Abstract!Process, Abstract!Admit, Abstract!Valid, Abstract!Answer, Answer
  <2>3. CASE w # job.password
    BY <1>1, <2>0, <2>1, <2>3
    DEF Abstract!Process, Abstract!Refuse, Abstract!Valid, Abstract!Answer, Answer
  <2> QED
    BY <2>2, <2>3
<1> QED
  BY <1>1, <1>3, <1>5, <1>6, ServedMaps

\* The UPDATE adds the reward to the exp that Fetch has got, or to 0 if it failed.
LEMMA ExpMaps == IInv /\ (ReadExp \/ WriteExp) => Abstract!Next \/ UNCHANGED Abstract!vars
<1> SUFFICES ASSUME IInv, ReadExp \/ WriteExp
             PROVE  Abstract!Next \/ UNCHANGED Abstract!vars
  OBVIOUS
<1>1. ASSUME ReadExp PROVE UNCHANGED Abstract!vars
  <2>1. misread' = misread \/ misread' = misread \cup {job}
    BY <1>1 DEF ReadExp, Fetch
  <2> QED
    BY <1>1, <2>1, InsideJob DEF ReadExp
<1>2. ASSUME WriteExp PROVE Abstract!Next
  <2>1. /\ step = "update" /\ FinishJob /\ reply' = reply /\ misread' = misread
        /\ job.kind = "exp"
    BY <1>2 DEF WriteExp, IInv, Handler
  <2>2. users' = [i \in DOMAIN users |->
                    IF users[i].nickname = job.nickname
                    THEN [users[i] EXCEPT !.exp = currentExp + job.rewardExp] ELSE users[i]]
    BY <1>2 DEF WriteExp, NewExp
  <2>3. PICK found : found = Fetched(job.nickname, job \notin misread)
    OBVIOUS
  <2>4. \/ job \in misread' /\ found = {}
        \/ job \notin misread' /\ found = Abstract!AccountsOf(job)
    BY <2>1, <2>3 DEF Fetched, RowsOf, Abstract!AccountsOf
  <2>5. currentExp \in IF found = {} THEN {0} ELSE {users[i].exp : i \in found}
    BY <2>1, <2>3 DEF IInv, Reads, OutExp
  <2>6. Abstract!Process(job, found)
    BY <2>1, <2>2, <2>5 DEF Abstract!Process, Abstract!Reward
  <2> QED
    BY <2>1, <2>4, <2>6, ServedMaps
<1> QED
  BY <1>1, <1>2

\* DBJobQueue, whose handlers read and write in two statements and share a table
\* without a constraint, implements requests that are served in one step each; the
\* ones whose Fetch failed, and no others, are served as if there were no account.
THEOREM ImplementsAccountsHolds == Spec => ImplementsAccounts
<1>1. Init => Abstract!Init
  <2> SUFFICES ASSUME Init PROVE Abstract!Init
    OBVIOUS
  <2>1. pending[GDBJobQueue] = <<>> /\ job = NoJob /\ done = {} /\ users = <<>>
        /\ reply = [j \in Jobs |-> "none"] /\ misread = {}
    BY DEF Init, Executor!Init, job
  <2>2. Waiting = <<>>
    BY <2>1 DEF Waiting
  <2> QED
    BY <2>1, <2>2 DEF Abstract!Init
<1>2. IInv /\ [Next]_vars => [Abstract!Next]_(Abstract!vars)
  <2> SUFFICES ASSUME IInv, [Next]_vars PROVE Abstract!Next \/ UNCHANGED Abstract!vars
    OBVIOUS
  <2>1. CASE \E j \in Jobs : DoAsync(j)
    BY <2>1, ScheduleMaps DEF Abstract!Next
  <2>2. CASE StartJob
    BY <2>2, ScheduleMaps
  <2>3. CASE RunJob
    BY <2>3, BeginMaps, JoinMaps, LoginMaps, ExpMaps DEF RunJob
  <2>4. CASE ExecuteFails \/ UNCHANGED vars
    BY <2>4, InsideJob DEF ExecuteFails, vars
  <2> QED
    BY <2>1, <2>2, <2>3, <2>4 DEF Next
<1> QED
  BY <1>1, <1>2, Inductive, PTL DEF Spec, ImplementsAccounts, Abstract!Spec
=============================================================================
