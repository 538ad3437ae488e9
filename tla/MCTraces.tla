------------------------------- MODULE MCTraces -------------------------------
(* Keys are numbers, and a trace uses them in order of first appearance: a   *)
(* trace and its renamings behave alike.                                    *)
EXTENDS Traces

Input(length) == { t \in [1 .. length -> Keys] :
                     \A n \in 1 .. length : t[n] <= 1 + Max({0} \cup { t[j] : j \in 1 .. n - 1 }) }

Inputs == Input(8) \cup { <<>> }
=============================================================================
