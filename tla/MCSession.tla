------------------------------ MODULE MCSession -----------------------------
(***************************************************************************)
(* Small plans for FermentSession: one instance for the tools, with the    *)
(* menu beside them on the smaller plans, and a ferment to abandon.        *)
(***************************************************************************)
EXTENDS FermentSession, FiniteSets

CONSTANT g1

Sequential(steps) == [group |-> NoGroup, steps |-> steps]
Grouped(steps) == [group |-> g1, steps |-> steps]

(* A phase with a cohort of two steps around a sequential one, a parallel  *)
(* group around a sequential phase with the only step; and two or three    *)
(* phases, grouped or not, that are small enough for the menu.             *)
SessionPlans == {<<Sequential(<<g1, NoGroup, g1>>)>>,
                 <<Grouped(<<>>), Sequential(<<NoGroup>>), Grouped(<<>>)>>,
                 <<Grouped(<<>>), Sequential(<<>>), Grouped(<<>>)>>,
                 <<Grouped(<<NoGroup>>), Grouped(<<>>)>>,
                 <<Sequential(<<NoGroup>>), Sequential(<<>>)>>}
SessionLists == {<<>>}

(* Bound: the menu stays open only where phases and steps are three at     *)
(* most; /ferment abandon is asked about everywhere.                       *)
MaxMenuItems == 3
SmallMenu ==
    menu \notin {NoCommand, Plain("abandon")} =>
        Cardinality(Present(f))
          + Cardinality({i \in Phases \X Steps : i[2] \in StepsOf(f, i[1])}) <= MaxMenuItems

(* The smallest plan: one phase with one step. *)
OnePhasePlans == {<<Sequential(<<NoGroup>>)>>}
OnePhaseLists == {<<NoGroup>>}
=============================================================================
