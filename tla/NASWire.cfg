\* Four kinds of message, up to three optional elements in any order, cut
\* anywhere, with a security header and without.
CONSTANTS
    Starts <- MCStarts
    Elements <- MCElements
    MaxIEs = 3
    Config <- MCConfig
    Timers <- MCTimers
    Allowed <- MCAllowed
SPECIFICATION Spec
INVARIANTS  Truncated 
