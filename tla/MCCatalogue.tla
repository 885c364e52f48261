------------------------------ MODULE MCCatalogue ------------------------------
(* Instances of Catalogue for TLC.                                         *)
EXTENDS Catalogue

CONSTANTS A, B, ann, bob, eve

\* What the archives of an upload hold: every level, nothing, the second level
\* only, or an entry besides the first level.
Archives(e, f) == [t \in RobotTypes |-> IF t = "randoop" THEN e ELSE f]
All == Archives({1, 2}, {1, 2})
Kept == {All, Archives({}, {1}), Archives({2}, {}), Archives({1}, {0, 1})}

Item(k, n, m, a, c) ==
    [kind |-> k, name |-> n, to |-> m, by |-> a, holds |-> All, company |-> c]
With(item) == {[item EXCEPT !.holds = h] : h \in Kept}
MCMenu ==
    <<{Item("upload", A, A, ann, 0)} \cup With(Item("uploadTest", A, A, ann, 0)),
      {Item("upload", A, A, bob, 1), Item("uploadTest", A, A, bob, 0),
       Item("upload", B, B, bob, 1), Item("delete", A, A, bob, 1),
       Item("deleteFile", A, A, bob, 1), Item("insert", A, A, ann, 1),
       Item("update", A, B, ann, 1)}>>
=============================================================================
