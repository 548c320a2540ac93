------------------------------- MODULE MCRoom -------------------------------
(***************************************************************************)
(* Room for TLC: two clients, two nicknames they may both ask for, and hp  *)
(* and damage such that a hit of a player kills a monster, the second hit  *)
(* another player.                                                         *)
(***************************************************************************)
EXTENDS Room, TLC

CONSTANTS s1, s2, alice, bob

MCHp == [kind \in {"player", "monster"} |-> IF kind = "player" THEN 2 ELSE 1]
MCDamage == [kind \in {"player", "monster"} |-> IF kind = "player" THEN 1 ELSE 3]

Symmetric == Permutations({s1, s2}) \cup Permutations({alice, bob})
=============================================================================
