---------------------------- MODULE EmbeddedCore ----------------------------
(***************************************************************************)
(* The no_std control loop, es-runtime-embedded/src/core_rt.rs: the        *)
(* plane, the buffered chunk and the replan counter.  The robot's runtime, *)
(* the HIL link and the log replay all drive this one `step`.              *)
(***************************************************************************)
EXTENDS PlaneSteps

\* with_plane: `every` is control ticks per inference, 0 read as 1.
NewCore(every) ==
    [plane |-> NewPlane,
     chunk |-> [seq |-> 0, rows |-> << >>, mode |-> Mode],
     seq |-> 0, consumed |-> 0, started |-> FALSE,
     every |-> IF every = 0 THEN 1 ELSE every]

\* Variants named Wrong* are the plausible slips each property is run against.
WrongShouldReplan(core) == ~core.started \/ core.consumed > core.every

ShouldReplan(core) == ~core.started \/ core.consumed >= core.every

WrongBufferNumbersTicks(core, rows) ==
    LET next == [core EXCEPT !.seq = @ + 1, !.chunk.seq = core.seq + 1]
    IN  IF rows = None THEN next
        ELSE [next EXCEPT !.chunk.rows = rows, !.consumed = 0, !.started = TRUE]

\* A new chunk gets the next seq, an old one is submitted again under its own.
Buffer(core, rows) ==
    IF rows = None THEN core
    ELSE [core EXCEPT !.seq = @ + 1,
                      !.chunk = [seq |-> core.seq + 1, rows |-> rows, mode |-> Mode],
                      !.consumed = 0, !.started = TRUE]

\* step, as [core, action].
CoreStep(core, rows, tick, age) ==
    LET buffered == Buffer(core, rows)
        validated == PlaneValidate(buffered.plane, buffered.chunk, age, tick)
    IN  [core |-> [buffered EXCEPT !.plane = validated.plane, !.consumed = @ + 1],
         action |-> validated.action]
=============================================================================
