SPECIFICATION Spec
CONSTANTS
    Keys = {k1, k2}
    ActionEntries = {a1}
    TableSize = 1
    MaxMembers = 2
    MaxGroups = 1
    CountMod = 8
    MaxDrift = 1
INVARIANTS HitFindsMember MembersOfGroupsStay MissFindsMember
           GroupsLookedUpAreNotEmpty GroupHandlesMatchVector
CHECK_DEADLOCK FALSE
