--------------------------- MODULE MCMeasuringServer ---------------------------
(***************************************************************************)
(* An instance of MeasuringServer for TLC.  Two requests, which may be     *)
(* processed at the same time, are followed by a third that arrives when   *)
(* they have ended, and finds what they left.  The first is for class A    *)
(* and turn 1: which names they are makes no difference.                   *)
(***************************************************************************)
EXTENDS MeasuringServer

MCMaxVersion == [c \in Classes |-> IF c = "A" THEN 2 ELSE 1]

A1 == [class |-> "A", turn |-> 1, runs |-> "ends"]
A2 == [class |-> "A", turn |-> 2, runs |-> "ends"]
B1 == [class |-> "B", turn |-> 1, runs |-> "ends"]
B2 == [class |-> "B", turn |-> 2, runs |-> "ends"]
Looping(a) == [a EXCEPT !.runs = "loops"]
Flooding(a) == [a EXCEPT !.runs = "floods"]
MCAttempts == <<{A1}, {A2, Looping(B2), Flooding(B2)}, {A1}>>
MCCompany == <<0, 1, 0>>
=============================================================================
