------------------------------- MODULE Bench --------------------------------
(***************************************************************************)
(* The benchmark (src/bench.rs): a replay behind a channel of one, a       *)
(* forwarder that paces what comes out of it and gives every transaction a *)
(* signature of its own, the pipeline behind both, and the verdict on the  *)
(* run.  It composes Replay and Pipeline; the two futures of the source    *)
(* are joined in one task, so one of them that never ends holds the other. *)
(*                                                                         *)
(* A signature is a number below Words, the first 64 bits that the program *)
(* changes.  Time is left out: whether the pace was kept is a choice.      *)
(***************************************************************************)
EXTENDS Pipeline

CONSTANTS
    Lines, Good,            \* as in Replay
    Repeat, FileMayFail,
    Files,                  \* the files that may be replayed
    Contents,               \* the kinds of instructions on a good line
    SigOf,                  \* the signature on a good line
    Words,                  \* how many numbers there are of a signature's bits
    XorBits(_, _),          \* the bitwise exclusive or
    Salt,                   \* signature_salt
    EventsPerPass,          \* what the operator says a pass holds
    MaxSent                 \* bound of the model: updates sent

(* run_benchmark refuses a repeat of 0.  Two lines of a file are not a     *)
(* salt apart: signatures are random, and differ in more than a counter.   *)
Masks == {(Salt + n) % Words : n \in 0 .. MaxSent - 1}

ASSUME BenchAssumption ==
    /\ Good \subseteq Lines
    /\ Repeat \in Nat \ {0} /\ FileMayFail \in BOOLEAN
    /\ MaxSent \in Nat
    /\ \A f \in Files : f \in Seq(Lines) /\ Len(f) * Repeat <= MaxSent
ASSUME SignatureAssumption ==
    /\ Words \in Nat \ {0} /\ MaxSent <= Words
    /\ Salt \in 0 .. Words - 1
    /\ SigOf \in [Good -> 0 .. Words - 1]
    /\ \A a, b \in Good : \A m, n \in Masks :
          XorBits(SigOf[a], m) = XorBits(SigOf[b], n) => a = b
ASSUME XorAssumption ==
    \A a, b \in 0 .. Words - 1 :
        XorBits(a, b) \in 0 .. Words - 1 /\ XorBits(a, XorBits(a, b)) = b

VARIABLES
    file, inner, innerOpen, pass, line, reader, skipped, unreadable, \* Replay
    forwarder,   \* where the forwarder is
    carried,     \* the line it has received and not sent
    verdict      \* field falling_behind of the report, once there is one

(* A mistake VerdictIsHonest tells from UniqueSig: one signature for every  *)
(* pass over the file.                                                     *)
SaltedSig(l, n) == XorBits(SigOf[l], Salt)

(* make_signature_unique: the first 64 bits, exclusive or the salt plus    *)
(* the number of updates sent before, wrapping.                            *)
UniqueSig(l, n) == XorBits(SigOf[l], (Salt + n) % Words)

Sendable == Good \X (0 .. MaxSent - 1)

BodyOf(u) ==
    [k \in DOMAIN Contents[u[1]] |->
        [kind |-> Contents[u[1]][k], id |-> <<UniqueSig(u[1], u[2]), k>>]]

(* What the pipeline behind the forwarder is given.                        *)
ASSUME SentAssumption ==
    /\ Body = [u \in Sendable |-> BodyOf(u)]
    /\ Ids = (0 .. Words - 1) \X UNION {DOMAIN Contents[l] : l \in Good}

R == INSTANCE Replay WITH out <- inner, outOpen <- innerOpen, OutCap <- 1,
                          stopped <- cancelled

replayVars ==
    <<file, inner, innerOpen, pass, line, reader, skipped, unreadable>>
forwarderVars == <<forwarder, carried>>
vars == <<pipelineVars, replayVars, forwarderVars, verdict>>

Init ==
    /\ PipelineInit
    /\ R!ReplayInit(Files)
    /\ forwarder = "recv" /\ carried = <<>>
    /\ verdict = "none"

----------------------------------------------------------------------------
(* Mistakes the properties below tell from the code.                       *)

(* The forwarder leaves its loop with the channel open.                    *)
RefusedOpen ==
    /\ forwarder = "send"
    /\ ~receiving
    /\ carried' = <<>>
    /\ forwarder' = "done"
    /\ UNCHANGED <<pipelineVars, replayVars, verdict>>

----------------------------------------------------------------------------
(* The forwarder, PacedReplayDatasource::consume.                          *)

ForwarderReceives ==
    /\ forwarder = "recv"
    /\ inner # <<>>
    /\ ~cancelled
    /\ carried' = <<Head(inner)>>
    /\ inner' = Tail(inner)
    /\ forwarder' = "sleep"
    /\ UNCHANGED <<pipelineVars, file, innerOpen, pass, line, reader,
                   skipped, unreadable, verdict>>

(* The update that shows the cancellation is dropped.                      *)
ForwarderStops ==
    /\ forwarder = "recv"
    /\ inner # <<>>
    /\ cancelled
    /\ inner' = Tail(inner)
    /\ innerOpen' = FALSE
    /\ forwarder' = "done"
    /\ UNCHANGED <<pipelineVars, file, pass, line, reader, skipped,
                   unreadable, carried, verdict>>

(* sleep_until the time the pace gives the update.                         *)
Paced ==
    /\ forwarder = "sleep"
    /\ forwarder' = "send"
    /\ UNCHANGED <<pipelineVars, replayVars, carried, verdict>>

Forwarded ==
    /\ forwarder = "send"
    /\ Offer(<<carried[1], Len(taken)>>)
    /\ carried' = <<>>
    /\ forwarder' = "recv"
    /\ UNCHANGED <<replayVars, verdict>>

Refused ==
    /\ forwarder = "send"
    /\ ~receiving
    /\ carried' = <<>>
    /\ innerOpen' = FALSE
    /\ forwarder' = "done"
    /\ UNCHANGED <<pipelineVars, file, inner, pass, line, reader, skipped,
                   unreadable, verdict>>

(* recv returns None: the channel is empty and the producer has dropped    *)
(* its sender.                                                             *)
ForwarderEnds ==
    /\ forwarder = "recv"
    /\ inner = <<>> /\ reader = "ended"
    /\ forwarder' = "done"
    /\ UNCHANGED <<pipelineVars, replayVars, carried, verdict>>

(* join! is over when both futures are.                                    *)
SourceReturns ==
    /\ forwarder = "done" /\ reader = "ended"
    /\ SourceEnds
    /\ UNCHANGED <<replayVars, forwarderVars, verdict>>

----------------------------------------------------------------------------
(* run_benchmark.                                                          *)

(* What the counters say: nothing missing, unexpected, uncommitted,        *)
(* skipped or given up.                                                    *)
CountersAgree ==
    /\ Cardinality(decoded) = EventsPerPass * Repeat
    /\ Cardinality(flushed) >= Cardinality(decoded)
    /\ skipped = 0
    /\ failed = {}

(* The pace and the counters of the pool cache can only speak against the  *)
(* run.                                                                    *)
Judge ==
    /\ stage = "returned"
    /\ verdict = "none"
    /\ verdict' \in IF CountersAgree THEN {"keeps_up", "behind"} ELSE {"behind"}
    /\ UNCHANGED <<pipelineVars, replayVars, forwarderVars>>

----------------------------------------------------------------------------
Producer == R!Read /\ UNCHANGED <<pipelineVars, forwarderVars, verdict>>

Forwarder ==
    \/ ForwarderReceives \/ ForwarderStops \/ Paced \/ Forwarded \/ Refused
    \/ ForwarderEnds

Inside == PipelineNext /\ UNCHANGED <<replayVars, forwarderVars, verdict>>

(* The command has ended.                                                  *)
Over ==
    /\ ended
    /\ stage = "error" \/ verdict # "none"
    /\ UNCHANGED vars

Next == Producer \/ Forwarder \/ SourceReturns \/ Inside \/ Judge \/ Over

Spec == Init /\ [][Next]_vars

(* Both futures are polled, and the pipeline moves on.                     *)
FairSpec ==
    /\ Spec
    /\ PipelineFairness
    /\ WF_vars(Producer) /\ WF_vars(Forwarder) /\ WF_vars(SourceReturns)
    /\ WF_vars(Judge)

----------------------------------------------------------------------------
(* Properties.                                                             *)

TypeOK ==
    /\ PipelineTypeOK
    /\ R!ReplayTypeOK
    /\ forwarder \in {"recv", "sleep", "send", "done"}
    /\ carried \in Seq(Good)
    /\ forwarder \in {"sleep", "send"} <=> carried # <<>>
    /\ verdict \in {"none", "keeps_up", "behind"}

(* A run that is said to keep up has put every event of every pass into    *)
(* the database as a row of its own: no two transactions of the run have   *)
(* become one by the signatures they were given.                           *)
VerdictIsHonest ==
    verdict = "keeps_up" => Cardinality(events) = EventsPerPass * Repeat

(* The source and the command end, whatever is cancelled, refused or       *)
(* unreadable: neither future is left waiting for the other.               *)
BenchEnds == <>(ended /\ (stage = "error" \/ verdict # "none"))

(* The good lines of file f, Repeat times over, and the k-th of them.      *)
Wanted(f) == {p \in (1 .. Repeat) \X (1 .. Len(f)) : f[p[2]] \in Good}
UpTo(f, p) ==
    {q \in Wanted(f) : q[1] < p[1] \/ (q[1] = p[1] /\ q[2] <= p[2])}
Script(f) ==
    [k \in 1 .. Cardinality(Wanted(f)) |->
        f[(CHOOSE p \in Wanted(f) : Cardinality(UpTo(f, p)) = k)[2]]]

(* The paced replay is a source that waits: what Carbon's channel takes is *)
(* the file in order, pass after pass, nothing twice and nothing left out. *)
Source == INSTANCE WaitingSource WITH
    script <- Script(file),
    delivered <- [i \in DOMAIN taken |-> taken[i][1]],
    cut <- cancelled \/ unreadable \/ ~receiving,
    over <- ended
SourceSpec == Source!SourceSpec
=============================================================================
