------------------------------ MODULE MCDriver ------------------------------
(* FermentDriver on small plans, sequential and parallel. *)
EXTENDS FermentDriver

CONSTANT g1

Sequential(steps) == [group |-> NoGroup, steps |-> steps]
Grouped(steps) == [group |-> g1, steps |-> steps]

SequentialPlans ==
    {<<Sequential(<<NoGroup, NoGroup>>), Sequential(<<>>), Sequential(<<g1, g1>>)>>,
     <<Sequential(<<g1, NoGroup>>)>>}
SequentialLists == {<<NoGroup>>, <<g1, g1>>}
=============================================================================
