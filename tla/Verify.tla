------------------------------- MODULE Verify -------------------------------
(***************************************************************************)
(* The commands verify and verify-range (src/verify.rs): the events of a   *)
(* file, or of the blocks of a range of slots, are collected in an         *)
(* EventLog by a pipeline without a database, then the rows of the same    *)
(* scope are read from the table, and the two sets are compared.  Beside   *)
(* it the chain goes on and other processes write: the live command what   *)
(* has happened, the benchmark rows of its own making.                     *)
(*                                                                         *)
(* Event identities (src/identity.rs) are model values.  A source that     *)
(* cannot be read to its end ends early, and the pipeline with it: Carbon  *)
(* reports the error of a source and does not return it.                   *)
(***************************************************************************)
EXTENDS Integers, Sequences, FiniteSets

CONSTANTS
    Ids,       \* event identities
    Real,      \* those of events of the chain; the others are made up
    Sigs,      \* transaction signatures
    SigOf,     \* the signature of an identity
    SlotOf,    \* the slot a row with it names
    File,      \* the signatures on the lines of the file
    From, To,  \* the range of slots
    LastSlot   \* bound of the model: where the chain ends

Modes == {"file", "range"}

ASSUME VerifyAssumption ==
    /\ Real \subseteq Ids
    /\ SlotOf \in [Ids -> Nat] /\ SigOf \in [Ids -> Sigs]
    /\ File \in Seq(Sigs)
    /\ From \in Nat /\ To \in Nat /\ From <= To
    /\ LastSlot \in Nat

VARIABLES
    mode,     \* which of the two commands runs
    head,     \* the newest slot of the chain
    events,   \* the table: identities
    place,    \* where the command is
    todo,     \* lines, or blocks, the source has not come to
    log,      \* EventLog
    missing,  \* what report prints
    extra,
    fetched,  \* history: the lines or blocks that were read whole
    settled,  \* history: the table when the source was last read
    queried   \* history: the table when it was queried

chainVars == <<head, events>>
commandVars == <<mode, place, todo, log, missing, extra, fetched, settled,
                 queried>>
vars == <<chainVars, commandVars>>

IdsAt(u) ==
    {id \in Real : IF mode = "file" THEN SigOf[id] = File[u] ELSE SlotOf[id] = u}

Init ==
    /\ mode \in Modes
    /\ head \in 0 .. LastSlot
    /\ events \in SUBSET {id \in Ids : SlotOf[id] <= head}
    /\ place = "start"
    /\ todo = {} /\ log = {} /\ missing = {} /\ extra = {}
    /\ fetched = {} /\ settled = {} /\ queried = {}

----------------------------------------------------------------------------
(* Mistakes the properties below tell from the code.                       *)

(* getBlocks without an end.                                               *)
BlocksFrom == {s \in From .. LastSlot : s <= head}

(* Counts instead of sets: as many are missing as there are too many.      *)
CleanByCount == Cardinality(missing) = Cardinality(extra)

(* The range of the query is padded, as that of recover is.                *)
ScopePadded ==
    IF mode = "file"
    THEN {id \in Ids : \E e \in log : SigOf[e] = SigOf[id]}
    ELSE {id \in Ids : SlotOf[id] \in From - 1 .. To + 1}

----------------------------------------------------------------------------
(* The rest of the world.                                                  *)

SlotPasses ==
    /\ head < LastSlot
    /\ head' = head + 1
    /\ UNCHANGED <<events, commandVars>>

(* A commit of another process: no row is ever deleted.                    *)
Store(id) ==
    /\ SlotOf[id] <= head
    /\ events' = events \union {id}
    /\ UNCHANGED <<head, commandVars>>

----------------------------------------------------------------------------
(* The sources.                                                            *)

(* getBlocks: the node has no block of a slot that is still to come.       *)
Blocks == {s \in From .. To : s <= head}

Begin ==
    /\ place = "start"
    /\ place' = "fetch"
    /\ todo' = IF mode = "file" THEN DOMAIN File ELSE Blocks
    /\ UNCHANGED <<chainVars, mode, log, missing, extra, fetched, settled,
                   queried>>

IsNext(u) == u \in todo /\ \A v \in todo : u <= v

(* The processors append to the log what a line or a block decodes to.     *)
Fetch(u) ==
    /\ place = "fetch"
    /\ IsNext(u)
    /\ log' = log \union IdsAt(u)
    /\ fetched' = fetched \union {u}
    /\ settled' = events
    /\ todo' = todo \ {u}
    /\ UNCHANGED <<chainVars, mode, place, missing, extra, queried>>

(* Of a block the transactions that do not decode, have no metadata, or    *)
(* none that can be converted, or no signature are passed over in silence, *)
(* as is a block that comes without its transactions.                      *)
FetchPart(u) ==
    /\ place = "fetch" /\ mode = "range"
    /\ IsNext(u)
    /\ \E usable \in SUBSET Sigs :
          log' = log \union {id \in IdsAt(u) : SigOf[id] \in usable}
    /\ settled' = events
    /\ todo' = todo \ {u}
    /\ UNCHANGED <<chainVars, mode, place, missing, extra, fetched, queried>>

(* A line that cannot be decoded, or a block the node refuses four times.  *)
SkipUnit(u) ==
    /\ place = "fetch"
    /\ IsNext(u)
    /\ todo' = todo \ {u}
    /\ UNCHANGED <<chainVars, mode, place, log, missing, extra, fetched,
                   settled, queried>>

(* Ctrl+C, a file that cannot be read on, or a node without an answer to   *)
(* getBlocks.                                                              *)
CutShort ==
    /\ place = "fetch"
    /\ todo # {}
    /\ todo' = {}
    /\ UNCHANGED <<chainVars, mode, place, log, missing, extra, fetched,
                   settled, queried>>

PipelineEnds ==
    /\ place = "fetch"
    /\ todo = {}
    /\ place' = "query"
    /\ UNCHANGED <<chainVars, mode, todo, log, missing, extra, fetched,
                   settled, queried>>

----------------------------------------------------------------------------
(* The comparison.                                                         *)

(* The WHERE clause: the signatures of the log, or the slots.              *)
Scope ==
    IF mode = "file"
    THEN {id \in Ids : \E e \in log : SigOf[e] = SigOf[id]}
    ELSE {id \in Ids : SlotOf[id] \in From .. To}

Query ==
    /\ place = "query"
    /\ missing' = log \ events
    /\ extra' = (events \intersect Scope) \ log
    /\ queried' = events
    /\ place' = "report"
    /\ UNCHANGED <<chainVars, mode, todo, log, fetched, settled>>

Clean == missing = {} /\ extra = {}

Report ==
    /\ place = "report"
    /\ place' = IF Clean THEN "clean" ELSE "different"
    /\ UNCHANGED <<chainVars, mode, todo, log, missing, extra, fetched,
                   settled, queried>>

(* run_pipeline or the query returns an error, and the ? the command.      *)
Fails ==
    /\ place \in {"fetch", "query"}
    /\ place' = "failed"
    /\ UNCHANGED <<chainVars, mode, todo, log, missing, extra, fetched,
                   settled, queried>>

----------------------------------------------------------------------------
Next ==
    \/ SlotPasses
    \/ \E id \in Ids : Store(id)
    \/ Begin
    \/ \E u \in todo : Fetch(u) \/ FetchPart(u) \/ SkipUnit(u)
    \/ CutShort \/ PipelineEnds \/ Query \/ Report \/ Fails

Spec == Init /\ [][Next]_vars

----------------------------------------------------------------------------
(* Properties.                                                             *)

Places == {"start", "fetch", "query", "report", "clean", "different", "failed"}
Units == IF mode = "file" THEN DOMAIN File ELSE From .. To

TypeOK ==
    /\ mode \in Modes
    /\ head \in 0 .. LastSlot /\ events \in SUBSET Ids
    /\ place \in Places
    /\ todo \in SUBSET Units /\ fetched \in SUBSET Units
    /\ log \in SUBSET Real
    /\ missing \in SUBSET Ids /\ extra \in SUBSET Ids
    /\ settled \in SUBSET Ids /\ queried \in SUBSET Ids

(* The rows the command is asked about: those of a transaction the file    *)
(* has an event of, or of a slot of the range.                             *)
AskedAbout(id) ==
    IF mode = "file"
    THEN \E e \in Real : SigOf[e] = SigOf[id] /\ SigOf[e] \in {File[u] : u \in DOMAIN File}
    ELSE SlotOf[id] \in From .. To

(* A clean result of a source that was read whole is right, whatever was   *)
(* written meanwhile: of what it was asked about the table held all that   *)
(* has happened, and nothing that has not.                                 *)
CleanIsExact ==
    place = "clean" /\ fetched = Units =>
        \A id \in Ids : AskedAbout(id) => (id \in queried <=> id \in Real)

(* What is reported is so: nothing is called missing that was stored while *)
(* the source was read, and nothing is called extra that a line or a block *)
(* accounts for that was read whole; of a whole source, nothing real.      *)
DifferencesAreReal ==
    place = "different" =>
        /\ missing \intersect settled = {}
        /\ \A u \in fetched : extra \intersect IdsAt(u) = {}
        /\ fetched = Units => extra \intersect Real = {}
=============================================================================
