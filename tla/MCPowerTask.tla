----------------------------- MODULE MCPowerTask -----------------------------
EXTENDS PowerTask, TLC

\* Callers are interchangeable; only runs without liveness use it.
CallerSymmetry == Permutations(Callers)

\* Two callers and three requests with board I/O and hardware faults; one caller
\* and two requests with overheating and changes of the overheat setting, or with
\* pools that come and go, across resets.
Surroundings ==
    {[callers |-> Callers, calls |-> 3, around |-> {"io", "fault"}]}
    \union {[callers |-> {c}, calls |-> 2, around |-> around] :
              c \in Callers,
              around \in {{"heat", "settings", "reset"}, {"pools", "reset"}}}

\* Three requests and nothing else.
Quiet == {[callers |-> Callers, calls |-> 3, around |-> {}]}
=============================================================================
