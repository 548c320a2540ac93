------------------------------ MODULE Accounts ------------------------------
(***************************************************************************)
(* What DBJobQueue promises to the packet handlers and to Room: requests   *)
(* are served one after the other in the order in which they were made,    *)
(* each in one step, on a list of accounts.  A request that could not read *)
(* the list is served as if it held no account of the nickname.            *)
(***************************************************************************)
EXTENDS Integers, Sequences

CONSTANTS Jobs,  \* requests: [kind, nickname, password, rewardExp] records
          Empty  \* the empty string

VARIABLES waiting,  \* the requests not yet served, in order
          done,     \* the requests served
          accounts, \* the accounts, a sequence of [nickname, password, exp]
          reply,    \* [Jobs -> {"none", "ok", "fail"}]
          misread   \* the requests served without having read the accounts

vars == <<waiting, done, accounts, reply, misread>>

Init ==
    /\ waiting = <<>> /\ done = {} /\ misread = {}
    /\ accounts = <<>>
    /\ reply = [j \in Jobs |-> "none"]

Submit(j) ==
    /\ j \notin done /\ \A i \in DOMAIN waiting : waiting[i] # j
    /\ waiting' = Append(waiting, j)
    /\ UNCHANGED <<done, accounts, reply, misread>>

Valid(j) == j.nickname # Empty /\ j.password # Empty
Answer(j, answer) == reply' = [reply EXCEPT ![j] = answer]

\* The accounts that a request finds.
AccountsOf(j) == {i \in DOMAIN accounts : accounts[i].nickname = j.nickname}

Register(j, found) ==
    /\ j.kind = "join" /\ Valid(j) /\ found = {}
    /\ accounts' = Append(accounts, [nickname |-> j.nickname, password |-> j.password, exp |-> 0])
    /\ Answer(j, "ok")

Admit(j, found) ==
    /\ j.kind = "login" /\ Valid(j)
    /\ \E i \in found : accounts[i].password = j.password
    /\ Answer(j, "ok")
    /\ UNCHANGED accounts

Refuse(j, found) ==
    /\ \/ j.kind = "join" /\ Valid(j) /\ found # {}
       \/ j.kind = "login" /\ Valid(j) /\ found = {}
       \/ j.kind = "login" /\ Valid(j) /\ \E i \in found : accounts[i].password # j.password
    /\ Answer(j, "fail")
    /\ UNCHANGED accounts

\* The reward is added to the exp of an account that was found, and the sum is
\* that of every account of the nickname.
Reward(j, found) ==
    /\ j.kind = "exp"
    /\ \E exp \in IF found = {} THEN {0} ELSE {accounts[i].exp : i \in found} :
          accounts' = [i \in DOMAIN accounts |->
                          IF accounts[i].nickname = j.nickname
                          THEN [accounts[i] EXCEPT !.exp = exp + j.rewardExp]
                          ELSE accounts[i]]
    /\ UNCHANGED reply

\* A request with an empty field is refused before anything is read.
RefuseEmpty(j) ==
    /\ j.kind # "exp" /\ ~Valid(j)
    /\ Answer(j, "fail")
    /\ UNCHANGED <<accounts, misread>>

Process(j, found) ==
    Register(j, found) \/ Admit(j, found) \/ Refuse(j, found) \/ Reward(j, found)

Serve(j) ==
    /\ waiting # <<>> /\ j = Head(waiting)
    /\ waiting' = Tail(waiting)
    /\ done' = done \cup {j}
    /\ \/ RefuseEmpty(j)
       \/ Process(j, AccountsOf(j)) /\ UNCHANGED misread
       \/ Process(j, {}) /\ misread' = misread \cup {j}

Next == \E j \in Jobs : Submit(j) \/ Serve(j)

Spec == Init /\ [][Next]_vars
=============================================================================
