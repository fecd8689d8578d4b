----------------------------- MODULE MCCommand -----------------------------
(***************************************************************************)
(* Instances of Command for TLC: a shell that starts one process.  Lines   *)
(* are numbered in the order in which their process writes them.           *)
(***************************************************************************)
EXTENDS Command, FiniteSets, SequencesExt

CONSTANTS bash, child

MCChildren == {child}

MCLines == {<<p, i>> : p \in {bash, child}, i \in 1 .. 3}

\* The streams that a process's lines go to.
Outputs(limit) == UNION {[1 .. n -> Streams] : n \in 0 .. limit}

Program(p, streams) == [i \in DOMAIN streams |-> [to |-> streams[i], line |-> <<p, i>>]]

AllPrograms ==
  {[p \in Processes |-> IF p = bash THEN Program(p, f) ELSE Program(p, g)] :
     f \in Outputs(3), g \in Outputs(2)}

StderrLines(program) ==
  Cardinality({<<p, i>> \in Processes \X (1 .. 3) :
                 i \in DOMAIN program[p] /\ program[p][i].to = "stderr"})

\* What the commands write to their standard error fits into a pipe.
QuietPrograms == {program \in AllPrograms : StderrLines(program) <= Capacity}
=============================================================================
