---------------------------- MODULE MCSpiLink -----------------------------
EXTENDS SpiLink

\* One request of each kind: setNetwork with an END as its network name,
\* getConnectionStatus, and sendData, whose lengths take two bytes, with data
\* whose rest still adds up to a frame when a pause cuts it off.
MCCalls == {[cmd |-> 16, params |-> <<<<END>>>>],
            [cmd |-> 32, params |-> <<>>],
            [cmd |-> 68, params |-> <<<<0>>, <<0, START, 0, END>>>>]}

\* The requests above meet the condition of Genuine.
ASSUME MCCallsAssumption == NoFrameInside
=============================================================================
