------------------------------ MODULE HeldChunk ------------------------------
(***************************************************************************)
(* The chunk a Safety Plane holds, and the cursor it walks over its rows:  *)
(* `accept` and the head of `validate` in es-safety/src/plane.rs.          *)
(***************************************************************************)
EXTENDS Integers, Sequences

CONSTANT ExecuteChunk       \* K: how many rows of a chunk may be executed

Modes == {"RecedingHorizon", "TemporalEnsemble"}

NoSeq == -1   \* last_seq = None

NothingHeld == [seq |-> NoSeq, rows |-> << >>, mode |-> "RecedingHorizon",
                cursor |-> 0, tick |-> 0]

Fresh(chunk, tick) == [seq |-> chunk.seq, rows |-> chunk.rows,
                       mode |-> chunk.mode, cursor |-> 0, tick |-> tick]

\* Rows past K are predictions, not commands, under a receding horizon.
ExecutableLen(held) ==
    IF held.mode = "RecedingHorizon" /\ Len(held.rows) > ExecuteChunk
      THEN ExecuteChunk ELSE Len(held.rows)

Underrun(held) == held.cursor >= ExecutableLen(held)
Candidate(held) == held.rows[held.cursor + 1]
Advance(held) == [held EXCEPT !.cursor = @ + 1]

\* Variants named Wrong* are the plausible slips each property is run against.
WrongAcceptRepeat(held, chunk, tick) ==
    IF chunk.seq >= held.seq THEN Fresh(chunk, tick) ELSE held

WrongAcceptWhenSpent(held, chunk, tick) ==
    IF chunk.seq > held.seq /\ Underrun(held) THEN Fresh(chunk, tick) ELSE held

\* accept: a chunk is new iff its seq is strictly greater; content never counts.
Accept(held, chunk, tick) ==
    IF chunk.seq > held.seq THEN Fresh(chunk, tick) ELSE held
=============================================================================
