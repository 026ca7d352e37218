-------------------------------- MODULE Live --------------------------------
(***************************************************************************)
(* The live command: the pipeline behind the Yellowstone client (src/      *)
(* main.rs).  The client does not wait for room in Carbon's channel, it    *)
(* discards.  Everything that happens behind the channel waits, so this is *)
(* where a slow database makes the program lose, and the only place.       *)
(***************************************************************************)
EXTENDS Pipeline

VARIABLES
    coming,     \* updates the node has not sent yet
    discarded   \* history: updates the client threw away

liveVars == <<pipelineVars, coming, discarded>>

LiveInit ==
    /\ PipelineInit
    /\ coming = Updates
    /\ discarded = {}

----------------------------------------------------------------------------
(* The Yellowstone client: try_send, and the update is gone when it fails. *)

Arrive(u) ==
    /\ u \in coming
    /\ Offer(u)
    /\ coming' = coming \ {u}
    /\ UNCHANGED discarded

Discard(u) ==
    /\ u \in coming
    /\ ~ended
    /\ ~receiving \/ Len(updates) >= ChannelCap
    /\ coming' = coming \ {u}
    /\ discarded' = discarded \union {u}
    /\ UNCHANGED pipelineVars

(* The client stops at the cancellation, and does not otherwise.           *)
ClientStops ==
    /\ cancelled \/ ~receiving
    /\ SourceEnds
    /\ UNCHANGED <<coming, discarded>>

----------------------------------------------------------------------------
LiveInside == PipelineNext /\ UNCHANGED <<coming, discarded>>

(* The command has ended: nothing is left to do.                           *)
LiveOver ==
    /\ stage \in {"returned", "error"}
    /\ ended
    /\ UNCHANGED liveVars

LiveNext ==
    \/ \E u \in Updates : Arrive(u) \/ Discard(u)
    \/ ClientStops
    \/ LiveInside
    \/ LiveOver

LiveSpec == LiveInit /\ [][LiveNext]_liveVars

LiveFairSpec == LiveSpec /\ PipelineFairness /\ WF_liveVars(ClientStops)

----------------------------------------------------------------------------
(* Properties.                                                             *)

LiveTypeOK ==
    /\ PipelineTypeOK
    /\ coming \in SUBSET Updates /\ discarded \in SUBSET Updates

(* Each event of an update that Carbon's channel took is somewhere: in a   *)
(* channel, at hand, with the writer, stored, or in a batch that was given *)
(* up and reported.  What the program loses in silence, it loses in front  *)
(* of that channel.                                                        *)
EventsAccounted ==
    \A u \in Range(taken) : \A r \in TradeRows(u) :
        Waiting(r) \/ Settled(r) \/ stage = "error"

(* A stop that returns has lost nothing that was taken: the channels are   *)
(* empty, and each event is stored or in a batch that was given up.        *)
StopLosesNothing ==
    stage = "returned" =>
        \A u \in Range(taken) : \A r \in TradeRows(u) : Settled(r)

(* What is taken is settled in the end, however far the database falls     *)
(* behind, as long as its statements end: nothing in the chain of waits    *)
(* waits for itself.                                                       *)
TakenSettles ==
    \A u \in Updates : \A r \in TradeRows(u) :
        u \in Range(taken) ~> Settled(r) \/ stage = "error"

(* Ctrl+C ends the command.                                                *)
InterruptEnds == cancelled ~> stage \in {"returned", "error"}
=============================================================================
