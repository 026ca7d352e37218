--------------------------- MODULE WaitingSource ---------------------------
(***************************************************************************)
(* What a data source that waits promises the pipeline: it delivers the    *)
(* items of a script, in order, none twice and none left out, and unless   *)
(* it is cut short it ends after the last.  Module Bench implements it     *)
(* with a paced replay.                                                    *)
(***************************************************************************)
EXTENDS Sequences, Naturals

VARIABLES
    script,     \* what there is to deliver
    delivered,  \* what was
    cut,        \* cancelled, refused downstream, or unable to read on
    over        \* the source has returned

sourceVars == <<script, delivered, cut, over>>

SourceInit ==
    /\ delivered = <<>>
    /\ cut = FALSE
    /\ over = FALSE

Deliver ==
    /\ ~over
    /\ Len(delivered) < Len(script)
    /\ delivered' = Append(delivered, script[Len(delivered) + 1])
    /\ UNCHANGED <<script, cut, over>>

Cut ==
    /\ ~cut
    /\ cut' = TRUE
    /\ UNCHANGED <<script, delivered, over>>

Return ==
    /\ ~over
    /\ cut \/ delivered = script
    /\ over' = TRUE
    /\ UNCHANGED <<script, delivered, cut>>

SourceSpec == SourceInit /\ [][Deliver \/ Cut \/ Return]_sourceVars
=============================================================================
