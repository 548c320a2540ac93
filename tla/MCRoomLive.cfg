SPECIFICATION FairSpec
CONSTANTS
    s1 = s1
    s2 = s2
    alice = alice
    bob = bob
    None = None
    Sessions = {s1, s2}
    Nicknames = {alice, bob}
    TOTAL_MONSTER_COUNT = 2
    Hp <- MCHp
    Damage <- MCDamage
    StartPos = 0
    Positions = {1}
    MaxPackets = 3
\* The clients may be silent or gone for good.
CHECK_DEADLOCK FALSE
PROPERTY
    MonstersReturn
