---------------------------- MODULE MCTableManager ----------------------------
EXTENDS TableManager, TLC

CONSTANTS g1, g2, g3, g4, g5

MCNames == {<<1>>, <<1, 2>>, <<3>>}
MCLong == <<9, 9, 9>>
MCSchemas == {<<<<4>>, <<5>>>>, <<<<4>>, MCLong>>}
MCOversized == {<<3>>, MCLong}
MCGroups == {g1, g2, g3, g4, g5}
GroupsAlike == Permutations(MCGroups)
=============================================================================
