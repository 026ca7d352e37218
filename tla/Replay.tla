------------------------------- MODULE Replay -------------------------------
(***************************************************************************)
(* The replay data source (src/datasources/replay.rs): it reads a file     *)
(* line by line, Repeat times over, skips what it cannot decode, and waits *)
(* for room in the channel it sends into.  That channel is Carbon's, or    *)
(* the channel of one in front of the forwarder of module Bench.           *)
(***************************************************************************)
EXTENDS Integers, Sequences, Functions

CONSTANTS
    Lines,         \* what a line of a file can be
    Good,          \* the lines a transaction can be decoded from
    Repeat,        \* passes over the file, 0 for no end
    OutCap,        \* capacity of the channel it sends into
    FileMayFail    \* the file cannot be opened, or read on

VARIABLES
    file,        \* the lines of the file; never changes
    out,         \* the channel it sends into
    outOpen,     \* its receiver takes messages
    stopped,     \* the cancellation token
    pass,        \* passes that are over
    line,        \* the line it is at
    reader,      \* where consume is
    skipped,     \* lines counted in REPLAY_SKIPPED
    unreadable   \* consume returned an error

replayVars == <<file, out, outOpen, pass, line, reader, skipped, unreadable>>

ReaderPlaces == {"pass", "line", "send", "ended"}

ReplayInit(files) ==
    /\ file \in files
    /\ out = <<>> /\ outOpen = TRUE
    /\ pass = 0 /\ line = 1 /\ reader = "pass"
    /\ skipped = 0 /\ unreadable = FALSE

----------------------------------------------------------------------------
(* Mistakes the properties of Bench tell from the code.                    *)

(* One pass too many: pass > repeat.                                       *)
LastPassOver == Repeat # 0 /\ pass + 1 > Repeat

(* A line that cannot be decoded ends the pass.                            *)
SkipPass ==
    /\ reader = "line"
    /\ line <= Len(file) /\ file[line] \notin Good
    /\ ~stopped
    /\ skipped' = skipped + 1
    /\ line' = Len(file) + 1
    /\ UNCHANGED <<file, out, outOpen, pass, reader, unreadable>>

----------------------------------------------------------------------------
(* The token is looked at before each pass and before each line.           *)
Stops ==
    /\ reader \in {"pass", "line"}
    /\ reader = "line" => line <= Len(file)
    /\ stopped
    /\ reader' = "ended"
    /\ UNCHANGED <<file, out, outOpen, pass, line, skipped, unreadable>>

Opens ==
    /\ reader = "pass"
    /\ ~stopped
    /\ line' = 1
    /\ reader' = "line"
    /\ UNCHANGED <<file, out, outOpen, pass, skipped, unreadable>>

(* File::open fails, or the reader returns an error, at the end included.  *)
ReadFails ==
    /\ FileMayFail
    /\ reader \in {"pass", "line"}
    /\ ~stopped
    /\ unreadable' = TRUE
    /\ reader' = "ended"
    /\ UNCHANGED <<file, out, outOpen, pass, line, skipped>>

SkipLine ==
    /\ reader = "line"
    /\ line <= Len(file) /\ file[line] \notin Good
    /\ ~stopped
    /\ skipped' = skipped + 1
    /\ line' = line + 1
    /\ UNCHANGED <<file, out, outOpen, pass, reader, unreadable>>

ReadLine ==
    /\ reader = "line"
    /\ line <= Len(file) /\ file[line] \in Good
    /\ ~stopped
    /\ reader' = "send"
    /\ UNCHANGED <<file, out, outOpen, pass, line, skipped, unreadable>>

SendLine ==
    /\ reader = "send"
    /\ outOpen /\ Len(out) < OutCap
    /\ out' = Append(out, file[line])
    /\ line' = line + 1
    /\ reader' = "line"
    /\ UNCHANGED <<file, outOpen, pass, skipped, unreadable>>

(* The receiver is closed: the update is dropped and the loop is left.     *)
SendRefused ==
    /\ reader = "send"
    /\ ~outOpen
    /\ reader' = "ended"
    /\ UNCHANGED <<file, out, outOpen, pass, line, skipped, unreadable>>

LastPass == Repeat # 0 /\ pass + 1 >= Repeat

PassEnds ==
    /\ reader = "line"
    /\ line > Len(file)
    /\ pass' = pass + 1
    /\ reader' = IF LastPass THEN "ended" ELSE "pass"
    /\ UNCHANGED <<file, out, outOpen, line, skipped, unreadable>>

Read ==
    \/ Stops \/ Opens \/ ReadFails \/ SkipLine \/ ReadLine \/ SendLine
    \/ SendRefused \/ PassEnds

ReplayTypeOK ==
    /\ file \in Seq(Lines)
    /\ out \in Seq(Good) /\ Len(out) <= OutCap
    /\ outOpen \in BOOLEAN /\ stopped \in BOOLEAN
    /\ pass \in Nat /\ (Repeat # 0 => pass <= Repeat)
    /\ line \in 1 .. Len(file) + 1
    /\ reader \in ReaderPlaces
    /\ reader = "send" => line <= Len(file) /\ file[line] \in Good
    /\ skipped \in Nat /\ unreadable \in BOOLEAN
=============================================================================
