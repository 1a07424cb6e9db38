---------------------------- MODULE MCBiasSweep ----------------------------
(***************************************************************************)
(* Plans for TLC: one curve walked straight and in a mixed order, two or   *)
(* three curves of a step voltage, and sweeps around a floating node with  *)
(* a constant supply.                                                      *)
(***************************************************************************)
EXTENDS BiasSweep

Plan(sweep, steps, constants, floating) ==
    [sweep |-> sweep, steps |-> steps, constants |-> constants, floating |-> floating]

G(v) == << <<"g", v>> >>
D(v) == << <<"d", v>> >>

SmallPlans ==
    { Plan(<<0, 3, 9, 17>>, <<G(9), G(0), G(2)>>, D(5), FALSE),
      Plan(<<12, 4, 0>>, << <<>> >>, D(10), FALSE),
      Plan(<<0, 12, 8, 11>>, <<G(0), G(3)>>, <<>>, FALSE),
      Plan(<<0, 4, 8, 16>>, << <<>> >>, D(9), TRUE),
      Plan(<<4, 0, 8>>, <<G(10), G(0)>>, D(2), TRUE) }
=============================================================================
