-------------------------------- MODULE MCLog -------------------------------
(* FermentLog on small plans. *)
EXTENDS FermentLog

CONSTANT g1

Sequential(steps) == [group |-> NoGroup, steps |-> steps]
Grouped(steps) == [group |-> g1, steps |-> steps]

LogPlans == {<<Grouped(<<NoGroup>>), Sequential(<<>>), Grouped(<<>>)>>,
             <<Sequential(<<g1, g1>>)>>}
LogLists == {<<>>}

SmallPlans == {<<Grouped(<<>>), Grouped(<<>>)>>}
SmallLists == {<<>>}
=============================================================================
