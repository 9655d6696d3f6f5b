----------------------------- MODULE MCTsSwitch -----------------------------
(***************************************************************************)
(* The command lines of tsswitch which TLC checks.                         *)
(***************************************************************************)
EXTENDS TsSwitch

Line(m, p, n, cmds, max, fails) ==
    [mode |-> m, primary |-> p, terminate |-> FALSE, cycle |-> n, commands |-> cmds,
     timeouts |-> max, failures |-> fails]

NoPrimary == NInputs

\* Two cycles without user action, --infinite, and --terminate.
CycleLines ==
    LET infinite == {Line(m, NoPrimary, 0, {}, 0, {"start"}) : m \in {"default", "delayed"}}
    IN  {Line("default", NoPrimary, 2, {}, 0, {"start"})} \cup infinite
        \cup {[l EXCEPT !.terminate = TRUE, !.cycle = 1] : l \in infinite}

\* Any remote command with failures in default mode, a switch during the first or the second
\* cycle of --delayed-switch, and a primary input with --receive-timeout.
SwitchLines ==
    {Line("default", NoPrimary, 1, {"set", "next", "prev", "quit"}, 0, {"start", "send"}),
     Line("delayed", NoPrimary, 2, {"set"}, 0, {"start"})}
    \cup {Line(m, 1, 1, {}, 1, {}) : m \in {"default", "fast"}}

\* One cycle with an output which may fail; and the command to exit.
StopLines ==
    {Line("default", NoPrimary, 1, {}, 0, {"send"}), Line("default", NoPrimary, 0, {"quit"}, 0, {})}

\* One remote command in --fast-switch mode.
FastLines == {Line("fast", NoPrimary, 1, {"next"}, 0, {})}
=============================================================================
