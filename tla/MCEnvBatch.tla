------------------------------ MODULE MCEnvBatch ------------------------------
(* Small control graphs for TLC. *)
EXTENDS EnvBatch

Node(kind, children, count) ==
    [kind |-> kind, children |-> children, count |-> count, timeout |-> 0,
     predicate |-> FALSE]
MCStage(timeout)         == [Node("SubTask", << >>, 0) EXCEPT !.timeout = timeout,
                                                            !.predicate = TRUE]
MCPass(timeout)          == [Node("SubTask", << >>, 0) EXCEPT !.timeout = timeout]
MCSequence(children)     == Node("Sequence", children, 0)
MCBranch(yes, no)        == Node("Branch", <<yes, no>>, 0)
MCRepeat(body, count)    == Node("Repeat", <<body>>, count)

\* pick, then twice (move, or an empty arm), then place
MCAssembly ==
    <<MCSequence(<<2, 3, 7>>), MCStage(3), MCRepeat(4, 2), MCBranch(5, 6),
      MCPass(2), MCSequence(<< >>), MCStage(2)>>

\* retry a two-stage body until it is good
MCRetry == <<MCRepeat(2, 0), MCSequence(<<3, 4>>), MCStage(2), MCStage(2)>>

\* a loop over nothing, which only the bound on the walk ends
MCSpin == <<MCSequence(<<2, 3>>), MCStage(2), MCRepeat(4, 0), MCSequence(<< >>)>>

MCGraphs == {MCAssembly, MCRetry, MCSpin}

\* two stages that are to take one step each
MCOneStep == {<<MCSequence(<<2, 3>>), MCPass(2), MCPass(1)>>}
=============================================================================
