-------------------------- MODULE PatternCompiler --------------------------
(***************************************************************************)
(* compile_pattern: the automaton of a MATCH pattern.                      *)
(*                                                                         *)
(* A pattern is a sequence of steps                                        *)
(*   [types:   event types that match it (more than one: an alternation),  *)
(*    repeat:  "once", "plus" or "star",                                   *)
(*    without: event types excluded between it and the next step,          *)
(*    bound:   whether it has the condition `column = $variable`].         *)
(* A step predicate is part of what an event type is.  A variable is bound *)
(* by the first step or not used.  The automaton has one state for each    *)
(* step, in which the step was the last to match, and the start state 0.   *)
(***************************************************************************)
EXTENDS Integers, Sequences, FiniteSets, FiniteSetsExt, SequencesExt

Repeats(step) == step.repeat # "once"

\* A state's own transitions: a repeated step loops, the next step leads on.
StepTransitions(pattern, i) ==
    (IF i > 0 /\ Repeats(pattern[i])
     THEN <<[types |-> pattern[i].types, bound |-> pattern[i].bound, target |-> i]>>
     ELSE <<>>)
    \o (IF i < Len(pattern)
        THEN <<[types |-> pattern[i + 1].types, bound |-> pattern[i + 1].bound, target |-> i + 1]>>
        ELSE <<>>)

\* Epsilon elimination: a step that may be left out passes on the transitions
\* of its own state.
Transitions(pattern) ==
    LET of[i \in 0..Len(pattern)] ==
            StepTransitions(pattern, i)
            \o (IF i < Len(pattern) /\ pattern[i + 1].repeat = "star" THEN of[i + 1] ELSE <<>>)
    IN  of

\* The state that the compiler takes for the source of a step: it follows the
\* first transitions, which do not lead out of a loop.
StepSource(pattern, step) ==
    LET loops == {i \in 1..step - 1 : Repeats(pattern[i])}
    IN  IF loops = {} THEN step - 1 ELSE Min(loops)

\* The event types that kill the candidates of a state.
Poisons(pattern) ==
    LET trans == Transitions(pattern)
        Targets(step) == {t.target : t \in Range(trans[StepSource(pattern, step)])}
    IN  [i \in 0..Len(pattern) |->
            UNION {pattern[k].without : k \in {k \in DOMAIN pattern : i \in Targets(k)}}]

\* Number of transitions on the shortest way to a state.
StateToStep(pattern) ==
    LET trans == Transitions(pattern)
        dist[i \in 0..Len(pattern)] ==
            IF i = 0 THEN 0
            ELSE 1 + Min({dist[j] : j \in {j \in 0..i - 1 :
                                        \E t \in Range(trans[j]) : t.target = i}})
    IN  dist

RelevantTypes(pattern) == UNION {step.types \cup step.without : step \in Range(pattern)}

Compile(pattern) ==
    [trans    |-> Transitions(pattern),
     poison   |-> Poisons(pattern),
     step     |-> StateToStep(pattern),
     accept   |-> Len(pattern),
     relevant |-> RelevantTypes(pattern),
     bindings |-> \E step \in Range(pattern) : step.bound]

\* Patterns without repetition and alternation take the step counter.
SelectStrategy(pattern) ==
    IF \E step \in Range(pattern) : Repeats(step) \/ Cardinality(step.types) > 1
    THEN "Nfa" ELSE "StepCounter"
=============================================================================
