----------------------------- MODULE SessionStore -----------------------------
(***************************************************************************)
(* One session of one agent on disk: the transcript, its archives, its     *)
(* metadata and its lock file (pkg/session/store.go, compaction.go,        *)
(* lock.go), and the agent that works on it (internal/agent/runtime.go,    *)
(* handleMessage; commands.go, /new and /compact).                         *)
(*                                                                         *)
(* The agent handles one delivery at a time (prefetch 1).  It may crash    *)
(* between any two file operations; the broker then redelivers what was    *)
(* not acknowledged and a new process finds the files as they are, a lock  *)
(* file of the dead process included.                                      *)
(***************************************************************************)
EXTENDS Integers, Sequences, FiniteSets, Functions

CONSTANTS
    Turn, KindOf,   \* deliveries and what they ask for
    NoTurn,
    KeepLines,      \* lines that survive a compaction
    MaxFaults,      \* bound on crashes and failed file operations
    MaxSecond       \* bound on the wall clock, in seconds

ASSUME SessionAssumption ==
    /\ KindOf \in [Turn -> {"chat", "compact", "new"}]
    /\ NoTurn \notin Turn
    /\ KeepLines \in Nat \ {0}
    /\ MaxFaults \in Nat
    /\ MaxSecond \in Nat \ {0}

VARIABLES
    pending, settled,   \* deliveries in the queue, acknowledged deliveries
    turn, pc,           \* the delivery at hand and where its handler is
    sessMeta,           \* sess.Metadata, read when the delivery was started
    loaded,             \* the lines Compact read
    exists, transcript, \* the transcript file
    meta,               \* meta.json
    lockFile,           \* the lock file
    archives,           \* second -> lines of the archive named after it
    compacted,          \* contents of the compaction archives
    second,             \* wall clock
    faults,             \* history: crashes and failed file operations so far
    written,            \* history: all lines written, in order
    missed,             \* history: lines whose append failed
    overwritten,        \* history: lines in archives that a rename replaced
    compactions         \* history: compactions since the session was created

memory == <<turn, pc, sessMeta, loaded>>
files == <<exists, transcript, meta, archives, compacted>>
history == <<written, missed, overwritten, compactions>>
vars == <<pending, settled, memory, files, lockFile, second, faults, history>>

\* An attempt at a turn is named by the faults before it: a new attempt
\* follows a crash, and each attempt has its own run ID.
Line == [turn : Turn, run : Nat, role : {"user", "assistant"}]

Status == {"none", "active", "archived"}
Meta == [status : Status, messages : Nat, compactions : Nat]
FreshMeta == [status |-> "active", messages |-> 0, compactions |-> 0]
NoMeta == [status |-> "none", messages |-> 0, compactions |-> 0]

Init ==
    /\ pending = Turn /\ settled = {}
    /\ turn = NoTurn /\ pc = "idle" /\ sessMeta = NoMeta /\ loaded = <<>>
    /\ exists = FALSE /\ transcript = <<>> /\ meta = NoMeta
    /\ archives = [s \in 1 .. MaxSecond |-> <<>>]
    /\ compacted = {}
    /\ lockFile = "none"
    /\ second = 1
    /\ faults = 0
    /\ written = <<>> /\ missed = {} /\ overwritten = {} /\ compactions = 0

(***************************************************************************)
(* The lock.  "held" and "done" are the running agent's, before and after  *)
(* its write; "orphan" was left by a crash, "stale" is an orphan older     *)
(* than staleLockThreshold.                                                *)
(***************************************************************************)

LockedSteps == {"appendUser", "appendAssistant", "compactRename", "archive"}

\* The handler is at p, and p needs no lock or has not got it.
At(p) == pc = p /\ lockFile \notin {"held", "done"}

\* The handler is at p inside the critical section.
In(p) == pc = p /\ lockFile = "held"

\* Lock succeeds: there is no lock file, or a stale one that it removes.
Acquire ==
    /\ pc \in LockedSteps
    /\ lockFile \in {"none", "stale"}
    /\ lockFile' = "held"
    /\ UNCHANGED <<pending, settled, memory, files, second, faults, history>>

\* Mutant: a path out of the critical section does not release the lock.
UnlockForgotten ==
    /\ lockFile = "done"
    /\ lockFile' = "orphan"
    /\ UNCHANGED <<pending, settled, memory, files, second, faults, history>>

\* The deferred Unlock, on every path out of the critical section.
Unlock ==
    /\ lockFile = "done"
    /\ lockFile' = "none"
    /\ UNCHANGED <<pending, settled, memory, files, second, faults, history>>

\* Lock waits lockMaxWait for a lock file that is not stale, then fails.
GivesUpOn(p) == At(p) /\ lockFile = "orphan"
-----------------------------------------------------------------------------
(***************************************************************************)
(* handleMessage and the commands.                                         *)
(***************************************************************************)

FirstStep(t) == CASE KindOf[t] = "chat" -> "load"
                  [] KindOf[t] = "compact" -> "compactLoad"
                  [] KindOf[t] = "new" -> "archive"

Receive(t) ==
    /\ At("idle")
    /\ t \in pending
    /\ pending' = pending \ {t}
    /\ turn' = t
    /\ pc' = FirstStep(t)
    /\ UNCHANGED <<settled, sessMeta, loaded, files, lockFile, second, faults,
                   history>>

\* CreateSession: fresh metadata; a transcript file that is there is kept.
CreateSession ==
    /\ meta' = FreshMeta
    /\ exists' = TRUE
    /\ compactions' = 0
    /\ UNCHANGED <<transcript, archives, compacted>>

\* loadOrCreateSession.  The context is then above the threshold for
\* auto-compaction or not: that depends on the model's token counts.
LoadSession ==
    /\ At("load")
    /\ pc' \in {"compactLoad", "generate"}
    /\ IF meta.status = "none" THEN CreateSession
       ELSE UNCHANGED <<files, compactions>>
    /\ sessMeta' = meta'
    /\ UNCHANGED <<pending, settled, turn, loaded, lockFile, second, faults,
                   written, missed, overwritten>>

\* Where Compact returns to: the chat turn goes on, the command is answered.
AfterCompact == IF KindOf[turn] = "chat" THEN "generate" ELSE "report"

\* Compact reads the transcript, without the lock, and returns when there
\* is none (an error) or too little of it.
CompactLoad ==
    /\ At("compactLoad")
    /\ loaded' = transcript
    /\ pc' = IF exists /\ Len(transcript) > KeepLines THEN "compactArchive"
             ELSE AfterCompact
    /\ UNCHANGED <<pending, settled, turn, sessMeta, files, lockFile, second,
                   faults, history>>

SplitAt == Len(loaded) - KeepLines
ToArchive == SubSeq(loaded, 1, SplitAt)

\* Mutant: the oldest lines are kept instead of the newest.
ToKeepOldest == SubSeq(loaded, 1, KeepLines)

ToKeep == SubSeq(loaded, SplitAt + 1, Len(loaded))

\* writeCompactionArchive, then the temporary file with the lines to keep.
CompactArchive ==
    /\ At("compactArchive")
    /\ compacted' = compacted \cup {ToArchive}
    /\ pc' = "compactRename"
    /\ UNCHANGED <<pending, settled, turn, sessMeta, loaded, exists,
                   transcript, meta, archives, lockFile, second, faults,
                   history>>

\* rewriteTranscript: the rename, under the lock.
CompactRename ==
    /\ In("compactRename")
    /\ transcript' = ToKeep
    /\ exists' = TRUE
    /\ lockFile' = "done"
    /\ pc' = "compactMeta"
    /\ UNCHANGED <<pending, settled, turn, sessMeta, loaded, meta, archives,
                   compacted, second, faults, history>>

\* rewriteTranscript cannot get the lock: the temporary file is removed.
CompactLockFails ==
    /\ GivesUpOn("compactRename")
    /\ pc' = AfterCompact
    /\ UNCHANGED <<pending, settled, turn, sessMeta, loaded, files, lockFile,
                   second, faults, history>>

\* GetSession and UpdateMeta at the end of Compact (an error without meta).
CompactMeta ==
    /\ At("compactMeta")
    /\ meta' = IF meta.status = "none" THEN meta
               ELSE [meta EXCEPT !.compactions = @ + 1, !.messages = Len(ToKeep)]
    /\ compactions' = compactions + 1
    /\ pc' = AfterCompact
    /\ UNCHANGED <<pending, settled, turn, sessMeta, loaded, exists,
                   transcript, archives, compacted, lockFile, second, faults,
                   written, missed, overwritten>>

\* The model answers, or fails and an error event is published.
Generate ==
    /\ At("generate")
    /\ pc' \in {"appendUser", "report"}
    /\ UNCHANGED <<pending, settled, turn, sessMeta, loaded, files, lockFile,
                   second, faults, history>>

TheLine == [turn |-> turn, run |-> faults,
            role |-> IF pc = "appendUser" THEN "user" ELSE "assistant"]

AfterAppend == IF pc = "appendUser" THEN "appendAssistant" ELSE "updateMeta"

\* Mutant: the file is opened with O_TRUNC.
AppendTruncates ==
    /\ In("appendUser") \/ In("appendAssistant")
    /\ exists' = TRUE
    /\ transcript' = <<TheLine>>
    /\ written' = Append(written, TheLine)
    /\ lockFile' = "done"
    /\ pc' = AfterAppend
    /\ UNCHANGED <<pending, settled, turn, sessMeta, loaded, meta, archives,
                   compacted, second, faults, missed, overwritten,
                   compactions>>

\* AppendTranscript: O_APPEND write, under the lock.
AppendTranscript ==
    /\ In("appendUser") \/ In("appendAssistant")
    /\ exists' = TRUE
    /\ transcript' = Append(transcript, TheLine)
    /\ written' = Append(written, TheLine)
    /\ lockFile' = "done"
    /\ pc' = AfterAppend
    /\ UNCHANGED <<pending, settled, turn, sessMeta, loaded, meta, archives,
                   compacted, second, faults, missed, overwritten,
                   compactions>>

\* Mutant: a failed append is retried until it succeeds.
AppendRetriesForever ==
    /\ GivesUpOn("appendUser") \/ GivesUpOn("appendAssistant")
    /\ UNCHANGED vars

\* AppendTranscript cannot get the lock: the handler logs it and goes on.
AppendFails ==
    /\ GivesUpOn("appendUser") \/ GivesUpOn("appendAssistant")
    /\ missed' = missed \cup {TheLine}
    /\ pc' = AfterAppend
    /\ UNCHANGED <<pending, settled, turn, sessMeta, loaded, files, lockFile,
                   second, faults, written, overwritten, compactions>>

\* Step 8: the metadata read at the start of the turn is written back.
UpdateMeta ==
    /\ At("updateMeta")
    /\ meta' = IF meta.status = "none" THEN meta
               ELSE [sessMeta EXCEPT !.status = meta.status, !.messages = @ + 2]
    /\ pc' = "report"
    /\ UNCHANGED <<pending, settled, turn, sessMeta, loaded, exists,
                   transcript, archives, compacted, lockFile, second, faults,
                   history>>

\* Mutant: the archive is written without moving the transcript away.
ArchiveCopies ==
    /\ In("archive")
    /\ archives' = IF exists THEN [archives EXCEPT ![second] = transcript]
                   ELSE archives
    /\ overwritten' = overwritten \cup
         (IF exists THEN Range(archives[second]) ELSE {})
    /\ pc' = "archiveMeta"
    /\ UNCHANGED <<pending, settled, turn, sessMeta, loaded, exists,
                   transcript, meta, compacted, lockFile, second, faults,
                   written, missed, compactions>>

\* ArchiveSession: the transcript is renamed to an archive named after the
\* current second; os.Rename replaces a file that has the name.
ArchiveRename ==
    /\ In("archive")
    /\ archives' = IF exists THEN [archives EXCEPT ![second] = transcript]
                   ELSE archives
    /\ overwritten' = overwritten \cup
         (IF exists THEN Range(archives[second]) ELSE {})
    /\ exists' = FALSE
    /\ transcript' = <<>>
    /\ pc' = "archiveMeta"
    /\ UNCHANGED <<pending, settled, turn, sessMeta, loaded, meta, compacted,
                   lockFile, second, faults, written, missed, compactions>>

\* ArchiveSession: the metadata, still under the lock.
ArchiveMeta ==
    /\ In("archiveMeta")
    /\ meta' = IF meta.status = "none" THEN meta
               ELSE [meta EXCEPT !.status = "archived"]
    /\ lockFile' = "done"
    /\ pc' = "create"
    /\ UNCHANGED <<pending, settled, turn, sessMeta, loaded, exists,
                   transcript, archives, compacted, second, faults, history>>

\* ArchiveSession cannot get the lock: /new logs it and goes on.
ArchiveFails ==
    /\ GivesUpOn("archive")
    /\ pc' = "create"
    /\ UNCHANGED <<pending, settled, turn, sessMeta, loaded, files, lockFile,
                   second, faults, history>>

\* /new re-creates the session under the same key.
CreateAgain ==
    /\ At("create")
    /\ CreateSession
    /\ pc' = "report"
    /\ UNCHANGED <<pending, settled, turn, sessMeta, loaded, lockFile, second,
                   faults, written, missed, overwritten>>

\* The terminal event is published and the delivery acknowledged.
Settle ==
    /\ At("report")
    /\ settled' = settled \cup {turn}
    /\ turn' = NoTurn
    /\ pc' = "idle"
    /\ UNCHANGED <<pending, sessMeta, loaded, files, lockFile, second, faults,
                   history>>
-----------------------------------------------------------------------------
\* The agent process dies.  Only its files survive, its lock file included;
\* the broker redelivers.
Crash ==
    /\ faults < MaxFaults
    /\ turn # NoTurn
    /\ faults' = faults + 1
    /\ pending' = pending \cup {turn}
    /\ turn' = NoTurn /\ pc' = "idle" /\ sessMeta' = NoMeta /\ loaded' = <<>>
    /\ lockFile' = IF lockFile \in {"held", "done"} THEN "orphan" ELSE lockFile
    /\ UNCHANGED <<settled, files, second, history>>

\* Where the handler goes on when a file operation at pc fails.
AfterFailure ==
    CASE pc \in {"load", "updateMeta", "create"} -> "report"
      [] pc \in {"appendUser", "appendAssistant"} -> AfterAppend
      [] pc \in {"archive", "archiveMeta"} -> "create"
      [] OTHER -> AfterCompact

\* The handler is about to create the session.
Creates == pc = "create" \/ (pc = "load" /\ meta.status = "none")

\* A file operation fails.  What precedes it stays: the compaction archive
\* when the temporary file cannot be written, the session's files when the
\* index cannot; the lock is released.
FileOperationFails ==
    /\ faults < MaxFaults
    /\ pc \notin {"idle", "generate", "report"} /\ lockFile # "done"
    /\ faults' = faults + 1
    /\ pc' = AfterFailure
    /\ lockFile' = IF lockFile = "held" THEN "done" ELSE lockFile
    /\ missed' = IF pc \in {"appendUser", "appendAssistant"}
                 THEN missed \cup {TheLine} ELSE missed
    /\ \/ UNCHANGED <<files, compactions>>
       \/ Creates /\ CreateSession
       \/ /\ pc = "compactArchive"
          /\ compacted' = compacted \cup {ToArchive}
          /\ UNCHANGED <<exists, transcript, meta, archives, compactions>>
    /\ UNCHANGED <<pending, settled, turn, sessMeta, loaded, second, written,
                   overwritten>>

\* More than staleLockThreshold passes after a crash.
LockAges ==
    /\ lockFile = "orphan"
    /\ lockFile' = "stale"
    /\ UNCHANGED <<pending, settled, memory, files, second, faults, history>>

Tick ==
    /\ second < MaxSecond
    /\ second' = second + 1
    /\ UNCHANGED <<pending, settled, memory, files, lockFile, faults, history>>

AgentStep ==
    \/ \E t \in Turn : Receive(t)
    \/ Acquire \/ Unlock
    \/ LoadSession \/ Generate \/ AppendTranscript \/ AppendFails \/ UpdateMeta
    \/ CompactLoad \/ CompactArchive \/ CompactRename \/ CompactLockFails
    \/ CompactMeta
    \/ ArchiveRename \/ ArchiveMeta \/ ArchiveFails \/ CreateAgain
    \/ Settle

Next == AgentStep \/ Crash \/ FileOperationFails \/ LockAges \/ Tick

Spec == Init /\ [][Next]_vars

\* A running agent works on its delivery.  Nothing is assumed about when a
\* lock file grows stale.
FairSpec == Spec /\ WF_vars(AgentStep)
-----------------------------------------------------------------------------
Step == {"idle", "load", "generate", "updateMeta", "compactLoad",
         "compactArchive", "compactMeta", "archiveMeta", "create", "report"}
        \cup LockedSteps

\* The variables keep their types.
TypeOK ==
    /\ pending \subseteq Turn /\ settled \subseteq Turn
    /\ turn \in Turn \cup {NoTurn} /\ pc \in Step
    /\ sessMeta \in Meta /\ loaded \in Seq(Line)
    /\ exists \in BOOLEAN /\ transcript \in Seq(Line) /\ meta \in Meta
    /\ archives \in [1 .. MaxSecond -> Seq(Line)]
    /\ compacted \subseteq Seq(Line)
    /\ lockFile \in {"none", "held", "done", "orphan", "stale"}
    /\ second \in 1 .. MaxSecond
    /\ faults \in Nat
    /\ written \in Seq(Line) /\ missed \subseteq Line
    /\ overwritten \subseteq Line /\ compactions \in Nat

Archived == (UNION {Range(archives[s]) : s \in 1 .. MaxSecond})
            \cup (UNION {Range(c) : c \in compacted})

\* The transcript is an uninterrupted end of everything ever written:
\* neither a compaction, nor /new, nor a crash in one of them, leaves a hole
\* in it or changes its order.
TranscriptIsRecentHistory ==
    /\ Len(transcript) <= Len(written)
    /\ \A i \in 1 .. Len(transcript) :
         transcript[i] = written[Len(written) - Len(transcript) + i]

\* The session is the journal it promises to be: the transcript is its end, a
\* line leaves the transcript only into an archive and never comes back,
\* whatever Compact, ArchiveSession, a failure or a crash do in between.
Promise == INSTANCE Journal WITH
    Entry <- [turn : Turn, run : 0 .. MaxFaults, role : {"user", "assistant"}],
    journal <- written,
    recent <- transcript,
    shelf <- Archived \cup overwritten

ImplementsJournal == Promise!Spec

\* A line that was written is in the transcript or in an archive, wherever
\* the agent crashed; the only lines that are gone were in an archive that
\* a later /new of the same second replaced.
LinesAreKept ==
    Range(written) \subseteq Range(transcript) \cup Archived \cup overwritten

\* Without a fault no line is in two places, except while a compaction has
\* archived the lines it is about to cut off.
OnePlaceUnlessFault ==
    faults = 0 /\ pc # "compactRename" => Range(transcript) \cap Archived = {}

\* A line is missed only after a fault: no other path out of a critical
\* section leaves the lock file behind, and without one Lock never waits.
MissedOnlyAfterFault == missed # {} => faults > 0

\* Every delivery is handled and acknowledged, although a lock file of a
\* crashed process may never grow stale: waiting for the lock ends.
EveryTurnSettles == \A t \in Turn : <>(t \in settled)

\* commands.go:147 tells the user of /new "Your conversation history has
\* been archived.": no archived line is destroyed.
HistoryIsArchived == overwritten = {}

\* compaction.go:20, "Session metadata is updated with the new compaction
\* count and message count.": between two turns the metadata of a session
\* that saw no fault counts its compactions.
MetaCountsCompactions ==
    pc = "idle" /\ faults = 0 => meta.compactions = compactions
=============================================================================
