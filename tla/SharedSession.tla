---------------------------- MODULE SharedSession ----------------------------
(***************************************************************************)
(* Two agent processes on the files of one session (pkg/session: lock.go,  *)
(* compaction.go, store.go): an agent started twice, or the old process    *)
(* and the one that replaces it.  SessionStore has one process and whole   *)
(* operations; here every system call is a step.  The transcript and the   *)
(* compactor's ".compact.tmp" are names of files, so that a process may    *)
(* hold a file whose name has gone to another.                             *)
(***************************************************************************)
EXTENDS Naturals, Sequences, SequencesExt

CONSTANTS Process,
          KeepLines,   \* of Compact
          MaxLine,     \* bound on appended lines, which are 1 .. MaxLine
          MaxFile,     \* bound on transcript files ever created
          MaxUpset     \* bound on crashes, short writes and processes stopped in the lock
Nobody == "nobody"
ASSUME SharedAssumption == KeepLines \in Nat \ {0} /\ MaxFile \in Nat \ {0} /\ Nobody \notin Process

NoFile == 0

VARIABLES holder,     \* whose lock file is there
          aged,       \* it is older than staleLockThreshold
          content,    \* of each file: the lines one can read
          torn,       \* files that end in half a line, without its newline
          transcript, temp,  \* the files of these names
          files,      \* files created so far
          archived,   \* lines in the archive directory, but for
          latest,     \* those of the archive of /new that is named by the present second
          proc,       \* the processes
          issued,     \* lines begun
          stored,     \* lines whose append returned no error
          excused,    \* of those, lines that met a gap the code leaves open
          robbed,     \* a lock was taken from a process that was using it
          crossed,    \* two compactions overlapped
          upsets

sharedVars == <<holder, aged, content, torn, transcript, temp, files, archived, latest, proc, issued,
                stored, excused, robbed, crossed, upsets>>

Idle == [at |-> "idle", goal |-> "append", line |-> 0, lines |-> <<>>, file |-> NoFile]

SharedInit ==
    /\ holder = Nobody /\ aged = FALSE
    /\ content = [f \in 1 .. MaxFile |-> <<>>] /\ torn = {}
    /\ transcript = 1 /\ temp = NoFile /\ files = 1
    /\ archived = {} /\ latest = {} /\ proc = [p \in Process |-> Idle]
    /\ issued = 0 /\ stored = {} /\ excused = {} /\ robbed = FALSE /\ crossed = FALSE /\ upsets = 0

\* LoadTranscript skips what it cannot parse.
TranscriptLines == IF transcript = NoFile THEN <<>> ELSE content[transcript]

Inside(p) == proc[p].at \in {"open", "write", "rename", "move", "unlock"}
\* From its read of the transcript to its rename.
Compacting(p) == proc[p].at # "idle" /\ proc[p].goal = "compact" /\ proc[p].at # "unlock"
OtherCompacts(p) == \E q \in Process \ {p} : Compacting(q)

Proceeds(p, to) == proc' = [proc EXCEPT ![p].at = to]
Files == <<content, torn, transcript, temp, files, archived, latest>>
Told == <<issued, stored, excused>>
Lock == <<holder, aged>>

BeginAppend(p) ==
    /\ proc[p].at = "idle" /\ issued < MaxLine
    /\ issued' = issued + 1
    /\ proc' = [proc EXCEPT ![p] = [Idle EXCEPT !.at = "link", !.line = issued + 1]]
    /\ UNCHANGED <<Lock, Files, stored, excused, robbed, crossed, upsets>>
\* /new: ArchiveSession moves the transcript under the lock.
BeginArchiveSession(p) ==
    /\ proc[p].at = "idle"
    /\ proc' = [proc EXCEPT ![p] = [Idle EXCEPT !.at = "link", !.goal = "archive"]]
    /\ UNCHANGED <<Lock, Files, Told, robbed, crossed, upsets>>
\* Compact reads the transcript without the lock and stops if it is short.
LoadForCompaction(p) ==
    /\ proc[p].at = "idle" /\ Len(TranscriptLines) > KeepLines
    /\ proc' = [proc EXCEPT ![p] = [Idle EXCEPT !.at = "save", !.goal = "compact", !.lines = TranscriptLines]]
    /\ crossed' = (crossed \/ OtherCompacts(p))
    /\ UNCHANGED <<Lock, Files, Told, robbed, upsets>>

SplitAt(p) == Len(proc[p].lines) - KeepLines
WriteCompactionArchive(p) ==
    /\ proc[p].at = "save"
    /\ archived' = archived \cup ToSet(SubSeq(proc[p].lines, 1, SplitAt(p)))
    /\ Proceeds(p, "create")
    /\ UNCHANGED <<Lock, content, torn, transcript, temp, files, latest, Told, robbed, crossed, upsets>>
\* O_CREATE | O_TRUNC: a temp file that is there is used again.
OpenTemp(p) ==
    /\ proc[p].at = "create"
    /\ IF temp = NoFile
       THEN files < MaxFile /\ files' = files + 1 /\ temp' = files + 1 /\ UNCHANGED <<content, torn>>
       ELSE content' = [content EXCEPT ![temp] = <<>>] /\ torn' = torn \ {temp} /\ UNCHANGED <<files, temp>>
    /\ proc' = [proc EXCEPT ![p].at = "fill", ![p].file = temp']
    /\ UNCHANGED <<Lock, transcript, archived, latest, Told, robbed, crossed, upsets>>
\* The lines are written from the start of the open file, whatever its name is
\* by now.
WriteTemp(p) ==
    /\ proc[p].at = "fill"
    /\ LET kept == SubSeq(proc[p].lines, SplitAt(p) + 1, Len(proc[p].lines))
           f == proc[p].file
       IN  /\ content' = [content EXCEPT ![f] = kept \o SubSeq(@, KeepLines + 1, Len(@))]
           /\ torn' = IF Len(content[f]) < KeepLines THEN torn \ {f} ELSE torn
    /\ Proceeds(p, "link")
    /\ UNCHANGED <<Lock, transcript, temp, files, archived, latest, Told, robbed, crossed, upsets>>

----------------------------------------------------------------------------
\* FileLock

Entry(p) == CASE proc[p].goal = "append" -> "open" [] proc[p].goal = "compact" -> "rename"
              [] OTHER -> "move"
\* Mutant: the link replaces the lock file that is there.
LinkOver(p) ==
    /\ proc[p].at = "link"
    /\ holder' = p /\ aged' = FALSE /\ Proceeds(p, Entry(p))
    /\ UNCHANGED <<Files, Told, robbed, crossed, upsets>>
\* os.Link takes the lock or reports that the file exists.
Link(p) ==
    /\ proc[p].at = "link"
    /\ IF holder = Nobody
       THEN holder' = p /\ aged' = FALSE /\ Proceeds(p, Entry(p))
       ELSE Proceeds(p, "check") /\ UNCHANGED Lock
    /\ UNCHANGED <<Files, Told, robbed, crossed, upsets>>
\* A lock file that is gone counts as stale, like an old one.  Otherwise wait
\* and link again, or give up after lockMaxWait; the compactor then removes
\* the temp file.
LockFileIsStale(p) ==
    /\ proc[p].at = "check"
    /\ IF holder = Nobody \/ aged
       THEN Proceeds(p, "remove") /\ UNCHANGED temp
       ELSE \/ Proceeds(p, "link") /\ UNCHANGED temp
            \/ /\ proc' = [proc EXCEPT ![p] = Idle]
               /\ temp' = IF proc[p].goal = "compact" THEN NoFile ELSE temp
    /\ UNCHANGED <<Lock, content, torn, transcript, files, archived, latest, Told, robbed, crossed, upsets>>
\* The removal takes whatever lock file is there by now.
RemoveStale(p) ==
    /\ proc[p].at = "remove"
    /\ holder' = Nobody /\ aged' = FALSE /\ Proceeds(p, "link")
    /\ robbed' = (robbed \/ (holder # Nobody /\ Inside(holder)))
    /\ UNCHANGED <<Files, Told, crossed, upsets>>
Unlock(p) ==
    /\ proc[p].at = "unlock"
    /\ holder' = Nobody /\ aged' = FALSE /\ proc' = [proc EXCEPT ![p] = Idle]
    /\ UNCHANGED <<Files, Told, robbed, crossed, upsets>>

----------------------------------------------------------------------------
\* Under the lock

\* O_CREATE | O_APPEND
OpenTranscript(p) ==
    /\ proc[p].at = "open"
    /\ IF transcript = NoFile
       THEN files < MaxFile /\ files' = files + 1 /\ transcript' = files + 1
       ELSE UNCHANGED <<files, transcript>>
    /\ proc' = [proc EXCEPT ![p].at = "write", ![p].file = transcript']
    /\ UNCHANGED <<Lock, content, torn, temp, archived, latest, Told, robbed, crossed, upsets>>

\* A line after half a line becomes one with it, and nobody can read either.
WriteLine(p) ==
    /\ proc[p].at = "write"
    /\ LET f == proc[p].file
           lost == f \in torn
       IN  /\ content' = IF lost THEN content ELSE [content EXCEPT ![f] = Append(@, proc[p].line)]
           /\ torn' = torn \ {f}
           /\ excused' = IF lost \/ OtherCompacts(p) THEN excused \cup {proc[p].line} ELSE excused
    /\ stored' = stored \cup {proc[p].line}
    /\ Proceeds(p, "unlock")
    /\ UNCHANGED <<Lock, transcript, temp, files, archived, latest, issued, robbed, crossed, upsets>>
\* The disk is full: the append returns an error.
ShortWrite(p) ==
    /\ proc[p].at = "write" /\ upsets < MaxUpset /\ upsets' = upsets + 1
    /\ torn' = torn \cup {proc[p].file}
    /\ Proceeds(p, "unlock")
    /\ UNCHANGED <<Lock, content, transcript, temp, files, archived, latest, Told, robbed, crossed>>
RenameTemp(p) ==
    /\ proc[p].at = "rename"
    /\ IF temp = NoFile THEN UNCHANGED <<transcript, temp>> ELSE transcript' = temp /\ temp' = NoFile
    /\ Proceeds(p, "unlock")
    /\ UNCHANGED <<Lock, content, torn, files, archived, latest, Told, robbed, crossed, upsets>>
\* The archive is named by the second: os.Rename replaces the one of an
\* earlier /new in the same second.  Without a transcript nothing is moved.
ArchiveSession(p) ==
    /\ proc[p].at = "move" /\ transcript' = NoFile
    /\ IF transcript = NoFile
       THEN UNCHANGED <<latest, excused>>
       ELSE latest' = ToSet(TranscriptLines) /\ excused' = excused \cup latest
    /\ Proceeds(p, "unlock")
    /\ UNCHANGED <<Lock, content, torn, temp, files, archived, issued, stored, robbed, crossed, upsets>>
SecondPasses ==
    /\ latest # {} /\ latest' = {} /\ archived' = archived \cup latest
    /\ UNCHANGED <<Lock, content, torn, transcript, temp, files, proc, Told, robbed, crossed, upsets>>

\* A process is stopped for half an hour, or its lock outlives it.
LockAges ==
    /\ holder # Nobody /\ ~aged /\ aged' = TRUE
    /\ IF Inside(holder) THEN upsets < MaxUpset /\ upsets' = upsets + 1 ELSE UNCHANGED upsets
    /\ UNCHANGED <<holder, Files, proc, Told, robbed, crossed>>
\* A process ends where it stands; the files stay, and it starts again.
Crash(p) ==
    /\ proc[p].at # "idle" /\ upsets < MaxUpset /\ upsets' = upsets + 1
    /\ proc' = [proc EXCEPT ![p] = Idle]
    /\ UNCHANGED <<Lock, Files, Told, robbed, crossed>>

SharedStep(p) ==
    \/ BeginAppend(p) \/ BeginArchiveSession(p) \/ LoadForCompaction(p)
    \/ WriteCompactionArchive(p) \/ OpenTemp(p) \/ WriteTemp(p)
    \/ Link(p) \/ LockFileIsStale(p) \/ RemoveStale(p) \/ Unlock(p)
    \/ OpenTranscript(p) \/ WriteLine(p) \/ ShortWrite(p) \/ RenameTemp(p) \/ ArchiveSession(p)
    \/ Crash(p)
SharedNext == LockAges \/ SecondPasses \/ \E p \in Process : SharedStep(p)

SharedTypeOK ==
    /\ holder \in Process \cup {Nobody} /\ aged \in BOOLEAN
    /\ content \in [1 .. MaxFile -> Seq(1 .. MaxLine)] /\ torn \subseteq 1 .. MaxFile
    /\ transcript \in 0 .. MaxFile /\ temp \in 0 .. MaxFile
    /\ stored \subseteq 1 .. MaxLine /\ excused \subseteq stored

\* As long as no lock was taken from a process inside it (lock.go:76 removes
\* what may be a fresh lock) and no two compactions overlapped, at most one
\* process is inside and every line whose append succeeded is in the
\* transcript or the archive, whoever crashed at whichever system call; except
\* a line appended after half a line, or while the other process was between
\* its read and its rename of a compaction (compaction.go:49), or one whose
\* archive was replaced by that of another /new, of either process, in the
\* same second (store.go:329).
LinesOutliveProcesses ==
    \/ robbed \/ crossed
    \/ /\ \A p, q \in Process : Inside(p) /\ Inside(q) => p = q
       /\ stored \subseteq ToSet(TranscriptLines) \cup archived \cup latest \cup excused
=============================================================================
