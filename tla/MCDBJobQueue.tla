---------------------------- MODULE MCDBJobQueue ----------------------------
(***************************************************************************)
(* DBJobQueue for TLC: two joins under one nickname, one under another and *)
(* one with an empty field, a login and two rewards for the first          *)
(* nickname, in every order of submission, with any Fetch failing.         *)
(***************************************************************************)
EXTENDS DBJobQueue

CONSTANTS conn1, alice, bob, secret, other

Request(id, kind, nickname, password, rewardExp) ==
    [id |-> id, kind |-> kind, nickname |-> nickname, password |-> password,
     rewardExp |-> rewardExp]

MCJobs ==
    {Request(1, "join", alice, secret, 0), Request(2, "join", alice, other, 0),
     Request(3, "join", bob, Empty, 0), Request(4, "join", bob, other, 0),
     Request(5, "login", alice, secret, 0),
     Request(6, "exp", alice, NoJob, 5), Request(7, "exp", alice, NoJob, 7)}
=============================================================================
