--------------------------- MODULE MCEventHistory ---------------------------
EXTENDS EventHistory

Budget(input, recording, stop, milestone, play, halt) ==
    [input |-> input, record |-> recording, stop |-> stop, milestone |-> milestone,
     play |-> play, halt |-> halt]

\* A recording with milestones, played back; a recording that is played back,
\* continued or overwritten, and played back again; a playback that is halted.
MCBudgets == {Budget(2, 1, 1, 2, 1, 0), Budget(1, 2, 2, 0, 2, 0), Budget(2, 1, 1, 0, 1, 1)}
=============================================================================
