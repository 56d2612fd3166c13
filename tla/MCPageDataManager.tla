--------------------------- MODULE MCPageDataManager ---------------------------
(* Records of one and of three cells in pages of five: two small ones share *)
(* a page, and where one of them was a large one does not fit.             *)
EXTENDS PageDataManager

CONSTANTS a, b, c
ThreeRecords == {a, b, c}
MCSizeOf == [t \in Items |-> IF t = c THEN 3 ELSE 1]
SmallRecords == Permutations({a, b})
=============================================================================
