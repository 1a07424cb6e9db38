----------------------------- MODULE BiasSweep -----------------------------
(***************************************************************************)
(* The bias sweep of a device simulation (docker/devsim/run.py: class      *)
(* Solver and run) and what the host makes of it (devsim/service.py:       *)
(* _read_dataset; devsim/payload.py and spec.py for the plan).             *)
(*                                                                         *)
(* The solver is the environment: a solve succeeds, or it fails and may    *)
(* leave its last, meaningless values in the nodes (comment of snapshot).  *)
(* What a solution is, is the bias point it was solved at, or Garbage.     *)
(* restore() puts node values back, not the voltage of a floating circuit  *)
(* node, so the two are apart here.  A voltage is a whole number of the    *)
(* smallest step, MAX_BIAS_STEP / 2^MAX_BISECTIONS; Newton counters are    *)
(* left out.                                                               *)
(* The one bound is the set of Plans.  A definition before one that it    *)
(* varies is a slip a change could make.                                   *)
(***************************************************************************)
EXTENDS Integers, Sequences, FiniteSets

CONSTANTS
    Plans,          \* plan of device.json: [sweep, steps, constants, floating]
    MAX_BIAS_STEP, MAX_BISECTIONS,
    Garbage         \* values that solve no bias point

Size(v) == IF v < 0 THEN -v ELSE v
Values(s) == {s[i] : i \in 1..Len(s)}
Lowest(s)  == CHOOSE v \in Values(s) : \A w \in Values(s) : v <= w
Highest(s) == CHOOSE v \in Values(s) : \A w \in Values(s) : v >= w

Sweep == "sweep"
NamesIn(combination) == {combination[i][1] : i \in 1..Len(combination)}
BiasesOf(p) == {Sweep} \cup NamesIn(p.constants) \cup NamesIn(p.steps[1])

ASSUME SweepAssumption ==
    /\ MAX_BISECTIONS \in Nat /\ MAX_BIAS_STEP \in Nat \ {0}
    /\ MAX_BIAS_STEP = 2 ^ MAX_BISECTIONS
    /\ \A p \in Plans :
          LET Moves == Seq(BiasesOf(p) \X Int) IN
          /\ p.sweep \in Seq(Int) \ {<<>>} /\ p.constants \in Moves
          \* step_combinations: dictionaries of the same names in the same order
          /\ p.steps \in Seq(Moves) \ {<<>>}
          /\ \A c \in 1..Len(p.steps) :
                /\ Len(p.steps[c]) = Len(p.steps[1])
                /\ \A i, j \in 1..Len(p.steps[1]) :
                      p.steps[c][i][1] = p.steps[1][j][1] <=> i = j
          /\ p.floating \in BOOLEAN
          \* the middle of a sweep around a floating node is a whole number
          /\ p.floating => (Lowest(p.sweep) + Highest(p.sweep)) % 2 = 0
          /\ Garbage \notin [BiasesOf(p) -> Int]

VARIABLES
    plan,
    stage,      \* "start", "lead_in", "to_curve", "fallen", "giving_up", "aim", "walk",
                \* and then "done" (iv.json is written), "broken" (exit 2) or
                \* "killed" (time-out, cancel or watchdog)
    moves,      \* what is still to be ramped to: <<bias, target>>, ...
    step, shrinks,  \* of Solver.reached
    applied,    \* Solver.applied
    device,     \* the contact parameters as DevSim has them
    nodes,      \* node values: the bias point they solve, or Garbage
    circuit,    \* voltages of the floating nodes: the same
    baseline,   \* [nodes, applied]
    curve_start,\* [nodes, applied], or NoStart
    curve, index,   \* position in plan.steps and in the walk
    stream      \* iv.jsonl: [curve, value, kind, solved]

solver == <<applied, device, nodes, circuit>>
place  == <<curve, index>>
saved  == <<baseline, curve_start>>
sweepVars == <<plan, stage, moves, step, shrinks, solver, saved, place, stream>>

NoStart == [nodes |-> Garbage, applied |-> Garbage]
Ended   == {"done", "broken", "killed"}

(* ------------------------------------------------------------- the plan --- *)
Biases == BiasesOf(plan)
total  == Len(plan.sweep) * Len(plan.steps)

\* With a floating node the sweep is walked from its middle: up, then down.  sorted()
\* puts a value at the place Rank gives it; equal values keep their order.
Middle(s) == (Lowest(s) + Highest(s)) \div 2
Farness(s, i) == Size(s[i] - Middle(s))
NotAfter(s, j, i) == Farness(s, j) < Farness(s, i) \/ (Farness(s, j) = Farness(s, i) /\ j <= i)
Rank(s, I, i) == Cardinality({j \in I : NotAfter(s, j, i)})
Outwards(s, I) == [n \in 1..Cardinality(I) |-> s[CHOOSE i \in I : Rank(s, I, i) = n]]
warm == Middle(plan.sweep)
upper == Outwards(plan.sweep, {i \in 1..Len(plan.sweep) : plan.sweep[i] >= warm})
lowerTwice == Outwards(plan.sweep, {i \in 1..Len(plan.sweep) : plan.sweep[i] <= warm})
lower == Outwards(plan.sweep, {i \in 1..Len(plan.sweep) : plan.sweep[i] < warm})
walk  == IF plan.floating THEN upper \o lower ELSE plan.sweep
turn  == IF plan.floating THEN Len(upper) ELSE 0

SweepInit ==
    /\ plan \in Plans
    /\ stage = "start" /\ moves = <<>> /\ step = MAX_BIAS_STEP /\ shrinks = 0
    /\ applied = [b \in Biases |-> 0] /\ device = applied
    /\ nodes = Garbage /\ circuit = Garbage
    /\ baseline = NoStart /\ curve_start = NoStart
    /\ curve = 0 /\ index = 0 /\ stream = <<>>

(* ------------------------------------------------------- class Solver --- *)
\* A solve at point p: it holds, or it fails and the values may be lost.
Solves(p) == nodes' = p /\ circuit' = p
Fails == \/ UNCHANGED <<nodes, circuit>>
         \/ nodes' = Garbage /\ circuit' = Garbage

Goal   == Head(moves)[2]
Driven == Head(moves)[1]
Remaining == Goal - applied[Driven]
WholeStep == step
Reach     == IF Size(Remaining) < step THEN Size(Remaining) ELSE step
Footing   == applied[Driven] + (IF Remaining > 0 THEN Reach ELSE -Reach)

\* The moves of `reached` begin anew with every target.
Towards(todo) ==
    /\ moves' = todo
    /\ step' = MAX_BIAS_STEP /\ shrinks' = 0

PutBack(p) == applied

\* `reached` is at work and not yet at the target.
Ramps == stage \in {"lead_in", "to_curve", "walk"} /\ moves # <<>> /\ Remaining # 0

\* _try: a step that is solved is kept; one that is not is taken back, and the
\* next one is half as long.
StepHolds ==
    /\ Ramps
    /\ device' = [device EXCEPT ![Driven] = Footing]
    /\ Solves(device')
    /\ applied' = [applied EXCEPT ![Driven] = Footing]
    /\ UNCHANGED <<plan, stage, moves, step, shrinks, saved, place, stream>>

MayShrinkAlways == step > 0
MayShrink == shrinks < MAX_BISECTIONS

StepFails ==
    /\ Ramps /\ MayShrink
    /\ Fails
    /\ device' = PutBack([device EXCEPT ![Driven] = Footing])
    /\ step' = IF step = 1 THEN 1 ELSE step \div 2
    /\ shrinks' = shrinks + 1
    /\ UNCHANGED <<plan, stage, moves, applied, saved, place, stream>>

\* The last, shortest step fails as well: `reached` returns where it stands.
LastStepFails ==
    /\ Ramps /\ ~MayShrink
    /\ Fails
    /\ device' = PutBack([device EXCEPT ![Driven] = Footing])

Arrived == moves # <<>> /\ Remaining = 0

(* ------------------------------------------------------------------ run --- *)
\* The equilibrium and the first drift-diffusion solve, all contacts at 0.
Begin ==
    /\ stage = "start"
    /\ Solves(applied)
    /\ stage' = "lead_in"
    /\ UNCHANGED <<applied, device>>
    /\ Towards((IF plan.floating THEN << <<Sweep, warm>> >> ELSE <<>>) \o plan.constants)
    /\ UNCHANGED <<plan, saved, place, stream>>

BeginFails ==
    /\ stage = "start"
    /\ Fails
    /\ stage' = "broken"
    /\ UNCHANGED <<plan, moves, step, shrinks, applied, device, saved, place, stream>>

\* ramp_to outside every try: run() ends with the exception.
LeadInFails ==
    /\ stage = "lead_in" /\ LastStepFails
    /\ stage' = "broken"
    /\ UNCHANGED <<plan, moves, step, shrinks, applied, saved, place, stream>>

NextMove ==
    /\ stage \in {"lead_in", "to_curve"} /\ Arrived
    /\ UNCHANGED solver
    /\ Towards(Tail(moves))
    /\ UNCHANGED <<plan, stage, saved, place, stream>>

Line(c, value, kind, solved) == [curve |-> c, value |-> value, kind |-> kind, solved |-> solved]
Start  == [nodes |-> nodes, applied |-> applied]

\* restore(state) and reset_to: node values and voltages, not the circuit.
VoltagesOnly(s) ==
    /\ UNCHANGED <<nodes, circuit>>
    /\ applied' = s.applied /\ device' = s.applied
BackTo(s) ==
    /\ nodes' = s.nodes /\ UNCHANGED circuit
    /\ applied' = s.applied /\ device' = s.applied

\* The next combination of step voltages, from the start of the curve before it.
GoToCurve(base, start, c) ==
    /\ c <= Len(plan.steps)
    /\ curve' = c /\ index' = 0
    /\ IF start = NoStart THEN UNCHANGED solver ELSE BackTo(start)
    /\ stream' = IF plan.steps[c] # <<>> \/ start # NoStart
                THEN Append(stream, Line(c, 0, "moving", TRUE)) ELSE stream
    /\ Towards(plan.steps[c] \o << <<Sweep, walk[1]>> >>)
    /\ stage' = "to_curve"
    /\ baseline' = base /\ curve_start' = start
    /\ UNCHANGED plan

\* iv.json holds what the stream holds; the exit code is 0 when there is a row.
EndRun(base, start, c) ==
    /\ c > Len(plan.steps)
    /\ stage' = "done"
    /\ baseline' = base /\ curve_start' = start
    /\ UNCHANGED <<plan, moves, step, shrinks, solver, place, stream>>

FirstCurve ==
    /\ stage = "lead_in" /\ moves = <<>>
    /\ GoToCurve(Start, NoStart, 1)

\* ramp_to fails inside the try: back to the baseline, no point of this curve.
CurveFails ==
    /\ stage = "to_curve" /\ LastStepFails
    /\ stage' = "fallen" /\ moves' = <<>>
    /\ UNCHANGED <<plan, step, shrinks, applied, saved, place, stream>>

FallBack ==
    /\ stage = "fallen"
    /\ BackTo(baseline)
    /\ curve_start' = NoStart
    /\ stage' = "giving_up" /\ index' = 1
    /\ UNCHANGED <<plan, moves, step, shrinks, baseline, curve, stream>>

GiveUpCurve ==
    /\ stage = "giving_up" /\ index <= Len(plan.sweep)
    /\ stream' = Append(stream, Line(curve, plan.sweep[index], "failed", TRUE))
    /\ index' = index + 1
    /\ UNCHANGED <<plan, stage, moves, step, shrinks, solver, saved, curve>>

CurveStarts ==
    /\ stage = "to_curve" /\ moves = <<>>
    /\ curve_start' = Start
    /\ stage' = "aim" /\ index' = 1
    /\ UNCHANGED <<plan, moves, step, shrinks, solver, baseline, curve, stream>>

\* At the turn the lower half is walked from the start of the curve again.
Aim ==
    /\ stage = "aim" /\ index <= Len(walk)
    /\ IF turn # 0 /\ index = turn + 1 THEN BackTo(curve_start) ELSE UNCHANGED solver
    /\ Towards(<< <<Sweep, walk[index]>> >>)
    /\ stage' = "walk"
    /\ UNCHANGED <<plan, saved, place, stream>>

\* A row holds the currents and the floating voltages of the moment.
Solved == nodes = applied /\ (plan.floating => circuit = applied)

Record ==
    /\ stage = "walk" /\ Arrived
    /\ stream' = Append(stream, Line(curve, walk[index], "row", Solved))
    /\ stage' = "aim" /\ index' = index + 1 /\ moves' = <<>>
    /\ UNCHANGED <<plan, step, shrinks, solver, saved, curve>>

\* The point is skipped; the next one goes on from where this one got stuck.
Stuck ==
    /\ stage = "walk" /\ LastStepFails
    /\ stream' = Append(stream, Line(curve, walk[index], "failed", TRUE))
    /\ stage' = "aim" /\ index' = index + 1 /\ moves' = <<>>
    /\ UNCHANGED <<plan, step, shrinks, applied, saved, curve>>

CurveOver ==
    \/ stage = "aim" /\ index > Len(walk)
    \/ stage = "giving_up" /\ index > Len(plan.sweep)

NextCurve ==
    /\ CurveOver
    /\ GoToCurve(baseline, curve_start, curve + 1) \/ EndRun(baseline, curve_start, curve + 1)

Kill ==
    /\ stage \notin Ended
    /\ stage' = "killed"
    /\ UNCHANGED <<plan, moves, step, shrinks, solver, saved, place, stream>>

Work ==
    \/ Begin \/ BeginFails \/ StepHolds \/ StepFails \/ LeadInFails \/ NextMove
    \/ FirstCurve \/ CurveFails \/ FallBack \/ GiveUpCurve \/ CurveStarts
    \/ Aim \/ Record \/ Stuck \/ NextCurve

SweepNext == Work \/ Kill

SweepSpec     == SweepInit /\ [][SweepNext]_sweepVars
FairSweep == SweepSpec /\ WF_sweepVars(Work)

(* What _read_dataset saves of a run that was cut short, and what the progress
   counts: the points, apart from the marks for moving (scan_devsim_progress). *)
done == Cardinality({i \in 1..Len(stream) : stream[i].kind # "moving"})

(* ------------------------------------------------------------ properties --- *)
Points == [Biases -> Int]
SweepTypes ==
    /\ stage \in Ended \cup {"start", "lead_in", "to_curve", "fallen", "giving_up", "aim", "walk"}
    /\ applied \in Points /\ device \in Points
    /\ nodes \in Points \cup {Garbage} /\ circuit \in Points \cup {Garbage}
    /\ step \in 1..MAX_BIAS_STEP /\ shrinks \in 0..MAX_BISECTIONS
    /\ index \in 0..(Len(plan.sweep) + 1)

\* The values go one way (a floating sweep sorts them), so that a walk that got
\* stuck on its way never stands on a later value; no two curves have the same step
\* voltages; and around a floating node no step voltage is that of the sweep itself
\* under the same name, which DeviceSpec does not rule out.
Straight ==
    LET s == plan.sweep
        n == Len(s)
    IN  /\ \/ \A i, j \in 1..n : i < j => s[i] < s[j]
           \/ \A i, j \in 1..n : i < j => s[i] > s[j]
           \/ plan.floating /\ \A i, j \in 1..n : i # j => s[i] # s[j]
        /\ \A c, d \in 1..Len(plan.steps) : c # d => plan.steps[c] # plan.steps[d]
        /\ plan.floating => Sweep \notin NamesIn(plan.steps[1])

\* A row of the result holds what was solved at its own voltages, never the rest of
\* a solve that did not converge or the solution of another point.  With a floating
\* node only until a whole curve was given up: restore() leaves the circuit.
GivenUp(c) == curve > c /\ \A i \in 1..Len(stream) : stream[i].curve = c => stream[i].kind # "row"
RowsAreSolved ==
    \A i \in 1..Len(stream) :
       /\ stream[i].kind = "row" /\ Straight
       /\ plan.floating => \A c \in 1..(stream[i].curve - 1) : ~GivenUp(c)
       => stream[i].solved

\* Every point of the plan is either a row or a failure, once, in the file of a
\* run that ended, and the progress shown never passes the total.
EveryPointOnce ==
    /\ done <= total
    /\ stage = "done" =>
          /\ done = total
          /\ \A c \in 1..Len(plan.steps), v \in Values(plan.sweep) :
                Straight => Cardinality({i \in 1..Len(stream) :
                   stream[i].kind # "moving" /\ stream[i].curve = c /\ stream[i].value = v}) = 1

\* The sweep comes to an end whatever does not converge.
SweepEnds == <>(stage \in Ended)
=============================================================================
