------------------------------ MODULE Schedule ------------------------------
(***************************************************************************)
(* The order of the systems: core/schedule.cpp.  Systems are registered    *)
(* with a label, a phase and the labels they run before and after; the     *)
(* build places them phase by phase, always the first registered of those  *)
(* that wait for nobody.  An index is a system's place in the order of     *)
(* registration (reg_index), counted from 1.                               *)
(***************************************************************************)
EXTENDS Integers, SequencesExt

CONSTANTS
    PhaseCount,  \* PHASE_COUNT
    MaxSystems,  \* MAX_SYSTEMS
    Labels,      \* the labels that descriptors give and ask for
    Programs     \* bound: the sequences of descriptors that are registered

VARIABLES
    to_register, \* the descriptors still to be registered
    systems,     \* Schedule.systems: [label, phase, before, after]
    order,       \* Schedule.order
    phase_begin, \* Schedule.phase_begin
    indeg, done, \* of the build: edges still to be met, systems placed
    stage        \* "register", "build", "built", or the TL_FATAL

schedule_vars == <<to_register, systems, order, phase_begin, indeg, done, stage>>

Phases == 0 .. PhaseCount - 1
Descriptors ==
    [label : Labels, phase : Phases, before : SUBSET Labels, after : SUBSET Labels]

ASSUME ScheduleAssumption ==
    PhaseCount \in Nat \ {0} /\ MaxSystems \in Nat /\ Programs \subseteq Seq(Descriptors)

Registered == DOMAIN systems
Members(p) == {i \in Registered : systems[i].phase = p}

\* An edge demands that u runs before v: either of them may have asked, or both.
AskedLater(u, v) == systems[u].label \in systems[v].after
AskedSooner(u, v) == systems[v].label \in systems[u].before
Edge(u, v) == AskedLater(u, v) \/ AskedSooner(u, v)

\* How many edges end in v, from those of U.
EdgesFrom(U, v) ==
    Cardinality({u \in U : AskedLater(u, v)}) + Cardinality({u \in U : AskedSooner(u, v)})

ScheduleOf(program) ==
    /\ to_register = program
    /\ systems = <<>> /\ order = <<>> /\ phase_begin = <<>>
    /\ indeg = <<>> /\ done = {} /\ stage = "register"
ScheduleInit == \E program \in Programs : ScheduleOf(program)

\* schedule_register.
Duplicate(d) == \E i \in Registered : systems[i].label = d.label
ScheduleRegister ==
    /\ stage = "register" /\ to_register # <<>>
    /\ LET d == Head(to_register) IN
        IF Len(systems) = MaxSystems THEN stage' = "MAX_SYSTEMS" /\ UNCHANGED systems
        ELSE IF Duplicate(d) THEN stage' = "duplicate label" /\ UNCHANGED systems
        ELSE systems' = Append(systems, d) /\ UNCHANGED stage
    /\ to_register' = Tail(to_register)
    /\ UNCHANGED <<order, phase_begin, indeg, done>>

\* sched_resolve, of every label in turn: known, and of the same phase.
Resolves(i, label) ==
    \E j \in Registered : systems[j].label = label /\ systems[j].phase = systems[i].phase
AllResolve == \A i \in Registered : \A l \in systems[i].before \cup systems[i].after : Resolves(i, l)

InDegrees == [v \in Registered |-> EdgesFrom(Registered, v)]

\* schedule_build, down to the in-degrees.
ResolveEdges ==
    /\ stage = "register" /\ to_register = <<>>
    /\ stage' = IF AllResolve THEN "build" ELSE "unresolved label"
    /\ indeg' = IF AllResolve THEN InDegrees ELSE indeg
    /\ order' = <<>> /\ phase_begin' = <<0>> /\ done' = {}
    /\ UNCHANGED <<to_register, systems>>

Current == Len(phase_begin) - 1
Ready == {i \in Members(Current) \ done : indeg[i] = 0}

Bug_Lowest(S) ==
    LET later == {i \in S : order # <<>> /\ i > Last(order)}
    IN  IF later # {} THEN Min(later) ELSE Min(S)
Lowest(S) == Min(S)

\* The first registered of those that are ready, or nobody is: a cycle.
Emit ==
    /\ stage = "build" /\ Members(Current) \ done # {}
    /\ IF Ready = {}
       THEN stage' = "cycle" /\ UNCHANGED <<order, indeg, done>>
       ELSE LET pick == Lowest(Ready)
            IN  /\ order' = Append(order, pick)
                /\ done' = done \cup {pick}
                /\ indeg' = [v \in Registered |-> indeg[v] - EdgesFrom({pick}, v)]
                /\ UNCHANGED stage
    /\ UNCHANGED <<to_register, systems, phase_begin>>

\* A phase is placed: the next one begins, or the schedule is built.
EndPhase ==
    /\ stage = "build" /\ Members(Current) \subseteq done
    /\ phase_begin' = Append(phase_begin, Len(order))
    /\ stage' = IF Current + 1 = PhaseCount THEN "built" ELSE stage
    /\ UNCHANGED <<to_register, systems, order, indeg, done>>

ScheduleNext == ScheduleRegister \/ ResolveEdges \/ Emit \/ EndPhase

ScheduleSpec == ScheduleInit /\ [][ScheduleNext]_schedule_vars

-----------------------------------------------------------------------------
\* The orders of a phase that break no edge.
Orders(p) ==
    {s \in SetToSeqs(Members(p)) :
        \A m, n \in DOMAIN s : Edge(s[m], s[n]) => m < n}
Before(s, t) == \E n \in DOMAIN s : s[n] < t[n] /\ \A m \in 1 .. n - 1 : s[m] = t[m]

\* What run_phase runs for a phase.
Slice(p) == SubSeq(order, phase_begin[p + 1] + 1, phase_begin[p + 2])

\* "Registration order, refined by before/after ... topo-sorted with registration
\* order as the tie-break (total, reproducible)" (docs/ECS.md section 3): of all
\* orders of a phase that break no edge, the one least by registration, whatever
\* other phases hold; and a schedule is refused just when there is none.
ScheduleInv ==
    /\ stage = "built" =>
          \A p \in Phases : Slice(p) \in Orders(p) /\ \A s \in Orders(p) : ~Before(s, Slice(p))
    /\ stage = "cycle" => \E p \in Phases : Orders(p) = {}
    /\ stage = "built" =>
          \A i, j \in Registered : Edge(i, j) => systems[i].phase = systems[j].phase
=============================================================================
