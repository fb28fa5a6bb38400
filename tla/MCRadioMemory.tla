---------------------------- MODULE MCRadioMemory ----------------------------
(***************************************************************************)
(* RadioMemory with two networks and one slot for them.                    *)
(***************************************************************************)
EXTENDS RadioMemory

CONSTANTS home, cafe \* credentials

MCSsid == [c \in {home, cafe} |-> IF c = home THEN "home" ELSE "cafe"]

\* Bound: after two commands or losses of power, a third comes only while the
\* radio is off and a scan is in flight, where configure() refuses, and to a
\* device that did not start.
ThirdStep ==
    steps = 2 /\ steps' = 3 => \/ scan.flying /\ link.radio = "off"
                              \/ pc = "halted"

MCSpec == Init /\ [][Next /\ ThirdStep]_vars /\ Fairness
=============================================================================
