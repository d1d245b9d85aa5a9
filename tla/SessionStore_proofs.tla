------------------------- MODULE SessionStore_proofs -------------------------
(***************************************************************************)
(* Proofs about SessionStore, for every set of deliveries, every number of *)
(* lines kept by a compaction and any number of crashes and failed file    *)
(* operations.                                                             *)
(***************************************************************************)
EXTENDS SessionStore, SequenceTheorems, TLAPS

(***************************************************************************)
(* The inductive invariant.  Types alone are not inductive: a line is a    *)
(* line only because the handler has a delivery at hand.  The transcript's *)
(* shape is not either: a compaction replaces it by the end of what the    *)
(* handler read before it had the lock.                                    *)
(***************************************************************************)

\* A handler that is under way has a delivery at hand.
WorksOnTurn == pc # "idle" => turn \in Turn

\* From its decision to compact until its rename, Compact's copy is the
\* transcript; it is longer than what is kept.
CompactsWhatItRead ==
    /\ pc \in {"compactArchive", "compactRename"} => loaded = transcript
    /\ pc \in {"compactArchive", "compactRename", "compactMeta"} =>
         Len(loaded) > KeepLines

\* When the rename is due, the lines it cuts off are in an archive.
ArchivedBeforeRename == pc = "compactRename" => ToArchive \in compacted

\* Lines are in a file: ArchiveSession, which moves the file if there is
\* one, leaves none behind.
LinesAreInFile == transcript # <<>> => exists

IInv == /\ TypeOK
        /\ WorksOnTurn
        /\ CompactsWhatItRead
        /\ ArchivedBeforeRename
        /\ LinesAreInFile
        /\ TranscriptIsRecentHistory
        /\ LinesAreKept
-----------------------------------------------------------------------------
\* Cutting a sequence in two loses nothing: what Compact archives and what
\* it keeps.
LEMMA CutInTwo ==
    ASSUME NEW S, NEW s \in Seq(S), NEW n \in Nat, n < Len(s)
    PROVE  LET m == Len(s) - n
               head == SubSeq(s, 1, m)
               end == SubSeq(s, m + 1, Len(s))
           IN  /\ head \in Seq(S) /\ end \in Seq(S)
               /\ Len(end) = n
               /\ \A i \in 1 .. n : end[i] = s[m + i]
               /\ Range(s) \subseteq Range(head) \cup Range(end)
<1> DEFINE m == Len(s) - n
           head == SubSeq(s, 1, m)
           end == SubSeq(s, m + 1, Len(s))
<1>1. m \in Nat /\ m > 0 /\ Len(s) \in Nat /\ m + n = Len(s)
  OBVIOUS
<1>2. /\ head \in Seq(S) /\ Len(head) = m
      /\ \A i \in 1 .. m : head[i] = s[i]
  <2>1. \A i \in 1 .. m : s[i] \in S
    BY <1>1
  <2>2. /\ head \in Seq(S)
        /\ Len(head) = IF 1 <= m THEN m - 1 + 1 ELSE 0
        /\ \A i \in 1 .. m - 1 + 1 : head[i] = s[1 + i - 1]
    BY <1>1, <2>1, SubSeqProperties
  <2> HIDE DEF head, m
  <2>3. QED
    BY <1>1, <2>2
<1>3. /\ end \in Seq(S) /\ Len(end) = n
      /\ \A i \in 1 .. n : end[i] = s[m + i]
  <2>1. \A i \in m + 1 .. Len(s) : s[i] \in S
    BY <1>1
  <2>2. /\ end \in Seq(S)
        /\ Len(end) = IF m + 1 <= Len(s) THEN Len(s) - (m + 1) + 1 ELSE 0
        /\ \A i \in 1 .. Len(s) - (m + 1) + 1 : end[i] = s[(m + 1) + i - 1]
    BY <1>1, <2>1, SubSeqProperties
  <2> HIDE DEF end
  <2>3. QED
    BY <1>1, <2>2
<1> HIDE DEF head, end
<1>4. ASSUME NEW i \in 1 .. Len(s) PROVE s[i] \in Range(head) \cup Range(end)
  <2>1. CASE i <= m
    BY <1>1, <1>2, <2>1 DEF Range
  <2>2. CASE i > m
    <3>1. i - m \in 1 .. n /\ s[i] = end[i - m]
      BY <1>1, <1>3, <2>2
    <3>2. QED
      BY <1>3, <3>1, SMTT(40) DEF Range
  <2>3. QED
    BY <1>1, <2>1, <2>2
<1>5. Range(s) \subseteq Range(head) \cup Range(end)
  BY <1>4 DEF Range
<1>6. QED
  BY <1>2, <1>3, <1>5 DEF head, end

\* The lines of a transcript after an append.
LEMMA AppendRange ==
    ASSUME NEW S, NEW s \in Seq(S), NEW e \in S
    PROVE  Range(Append(s, e)) = Range(s) \cup {e}
<1> DEFINE a == Append(s, e)
<1>1. /\ a \in Seq(S) /\ Len(a) = Len(s) + 1 /\ Len(s) \in Nat
      /\ \A i \in 1 .. Len(s) : a[i] = s[i]
      /\ a[Len(s) + 1] = e
  BY AppendProperties
<1> HIDE DEF a
<1>2. DOMAIN a = 1 .. Len(s) + 1 /\ DOMAIN s = 1 .. Len(s)
  BY <1>1
<1>3. Range(a) \subseteq Range(s) \cup {e}
  BY <1>1, <1>2 DEF Range
<1>4. Range(s) \cup {e} \subseteq Range(a)
  BY <1>1, <1>2 DEF Range
<1>5. QED
  BY <1>3, <1>4 DEF a
-----------------------------------------------------------------------------
\* The metadata that CreateSession writes, and that stands for none.
LEMMA MetaTypes == FreshMeta \in Meta /\ NoMeta \in Meta
BY DEF FreshMeta, NoMeta, Meta, Status

\* The updates of the metadata by UpdateMeta, Compact and ArchiveSession.
LEMMA MetaUpdates ==
    ASSUME NEW m \in Meta, NEW n \in Nat, NEW st \in Status
    PROVE  /\ [m EXCEPT !.status = st] \in Meta
           /\ [m EXCEPT !.status = st, !.messages = @ + 2] \in Meta
           /\ [m EXCEPT !.compactions = @ + 1, !.messages = n] \in Meta
<1> USE DEF Meta
<1>1. m.messages + 2 \in Nat /\ m.compactions + 1 \in Nat
  OBVIOUS
<1>2. QED
  BY <1>1

\* What Compact cuts off and what it keeps.
LEMMA CompactCuts ==
    ASSUME TypeOK, CompactsWhatItRead,
           pc \in {"compactArchive", "compactRename", "compactMeta"}
    PROVE  /\ ToArchive \in Seq(Line) /\ ToKeep \in Seq(Line)
           /\ Len(ToKeep) = KeepLines
           /\ \A i \in 1 .. KeepLines :
                ToKeep[i] = loaded[Len(loaded) - KeepLines + i]
           /\ Range(loaded) \subseteq Range(ToArchive) \cup Range(ToKeep)
<1>1. loaded \in Seq(Line) /\ KeepLines \in Nat /\ KeepLines < Len(loaded)
  BY SessionAssumption DEF TypeOK, CompactsWhatItRead
<1>2. QED
  BY <1>1, CutInTwo DEF ToArchive, ToKeep, SplitAt

\* The variables of SessionStore keep their types in every step, if the
\* control part of the invariant holds.
LEMMA TypeStep ==
    ASSUME TypeOK, WorksOnTurn, CompactsWhatItRead, [Next]_vars
    PROVE  TypeOK'
<1> USE SessionAssumption
<1> USE DEF TypeOK, memory, files, history, At, In, GivesUpOn
<1>1. ASSUME NEW t \in Turn, Receive(t) PROVE TypeOK'
  BY <1>1 DEF Receive, FirstStep, Step, LockedSteps
<1>2. CASE Acquire
  BY <1>2 DEF Acquire
<1>3. CASE Unlock
  BY <1>3 DEF Unlock
<1>4. CASE LoadSession
  <2>1. CASE meta.status = "none"
    BY <1>4, <2>1, MetaTypes DEF LoadSession, CreateSession, Step
  <2>2. CASE meta.status # "none"
    BY <1>4, <2>2 DEF LoadSession, Step
  <2>3. QED
    BY <2>1, <2>2
<1>5. CASE Generate
  BY <1>5 DEF Generate, Step, LockedSteps
<1>6. CASE AppendTranscript
  <2>1. TheLine \in Line
    BY <1>6 DEF AppendTranscript, TheLine, Line, WorksOnTurn
  <2>2. transcript' \in Seq(Line) /\ written' \in Seq(Line)
    BY <1>6, <2>1, AppendProperties DEF AppendTranscript
  <2>3. QED
    BY <1>6, <2>2 DEF AppendTranscript, AfterAppend, Step, LockedSteps
<1>7. CASE AppendFails
  <2>1. TheLine \in Line
    BY <1>7 DEF AppendFails, TheLine, Line, WorksOnTurn
  <2>2. QED
    BY <1>7, <2>1 DEF AppendFails, AfterAppend, Step, LockedSteps
<1>8. CASE UpdateMeta
  <2>1. meta' \in Meta
    <3>1. meta.status \in Status
      BY DEF Meta
    <3>2. QED
      BY <1>8, <3>1, MetaUpdates DEF UpdateMeta
  <2>2. QED
    BY <1>8, <2>1 DEF UpdateMeta, Step
<1>9. CASE CompactLoad
  BY <1>9 DEF CompactLoad, AfterCompact, Step
<1>10. CASE CompactArchive
  BY <1>10, CompactCuts DEF CompactArchive, Step, LockedSteps
<1>11. CASE CompactRename
  BY <1>11, CompactCuts DEF CompactRename, Step
<1>12. CASE CompactLockFails
  BY <1>12 DEF CompactLockFails, AfterCompact, Step
<1>13. CASE CompactMeta
  <2>1. Len(ToKeep) \in Nat
    BY <1>13, CompactCuts DEF CompactMeta
  <2>2. meta' \in Meta
    <3>1. meta.status \in Status
      BY DEF Meta
    <3>2. QED
      BY <1>13, <2>1, <3>1, MetaUpdates DEF CompactMeta
  <2>3. QED
    BY <1>13, <2>2 DEF CompactMeta, AfterCompact, Step
<1>14. CASE ArchiveRename
  <2>1. Range(archives[second]) \subseteq Line
    BY DEF Range
  <2>2. overwritten' \subseteq Line
    BY <1>14, <2>1 DEF ArchiveRename
  <2>3. archives' \in [1 .. MaxSecond -> Seq(Line)]
    BY <1>14 DEF ArchiveRename
  <2>4. exists' \in BOOLEAN /\ transcript' \in Seq(Line) /\ pc' \in Step
    <3>1. exists' \in BOOLEAN
      BY <1>14 DEF ArchiveRename
    <3>2. transcript' \in Seq(Line)
      BY <1>14 DEF ArchiveRename
    <3>3. pc' \in Step
      BY <1>14 DEF ArchiveRename, Step
    <3>4. QED
      BY <3>1, <3>2, <3>3
  <2>5. UNCHANGED <<pending, settled, turn, sessMeta, loaded, meta, compacted,
                    lockFile, second, faults, written, missed, compactions>>
    BY <1>14 DEF ArchiveRename
  <2>6. QED
    BY <2>2, <2>3, <2>4, <2>5
<1>15. CASE ArchiveMeta
  <2>1. meta' \in Meta
    BY <1>15 DEF ArchiveMeta, Meta, Status
  <2>2. QED
    BY <1>15, <2>1 DEF ArchiveMeta, Step
<1>16. CASE ArchiveFails
  BY <1>16 DEF ArchiveFails, Step
<1>17. CASE CreateAgain
  BY <1>17, MetaTypes DEF CreateAgain, CreateSession, Step
<1>18. CASE Settle
  BY <1>18 DEF Settle, Step, WorksOnTurn
<1>19. CASE Crash
  BY <1>19, MetaTypes DEF Crash, Step
<1>20. CASE FileOperationFails
  <2>1. missed' \subseteq Line
    BY <1>20 DEF FileOperationFails, TheLine, Line, WorksOnTurn
  <2>2. pc' \in Step
    BY <1>20 DEF FileOperationFails, AfterFailure, AfterAppend, AfterCompact,
                 Step, LockedSteps
  <2>3. /\ exists' \in BOOLEAN /\ transcript' \in Seq(Line) /\ meta' \in Meta
        /\ archives' \in [1 .. MaxSecond -> Seq(Line)]
        /\ compacted' \subseteq Seq(Line)
        /\ compactions' \in Nat
    <3>1. CASE UNCHANGED <<files, compactions>>
      BY <3>1
    <3>2. CASE Creates /\ CreateSession
      BY <3>2, MetaTypes DEF CreateSession
    <3>3. CASE /\ pc = "compactArchive"
               /\ compacted' = compacted \cup {ToArchive}
               /\ UNCHANGED <<exists, transcript, meta, archives, compactions>>
      BY <3>3, CompactCuts
    <3>4. QED
      BY <1>20, <3>1, <3>2, <3>3 DEF FileOperationFails
  <2>4. QED
    BY <1>20, <2>1, <2>2, <2>3 DEF FileOperationFails
<1>21. CASE LockAges
  BY <1>21 DEF LockAges
<1>22. CASE Tick
  BY <1>22 DEF Tick
<1>23. CASE UNCHANGED vars
  BY <1>23 DEF vars
<1>24. QED
  BY <1>1, <1>2, <1>3, <1>4, <1>5, <1>6, <1>7, <1>8, <1>9, <1>10, <1>11,
     <1>12, <1>13, <1>14, <1>15, <1>16, <1>17, <1>18, <1>19, <1>20, <1>21,
     <1>22, <1>23 DEF Next, AgentStep

\* Compact works on what it read: no step of SessionStore moves the
\* transcript under it, and the lines it cuts off are archived first.
LEMMA ControlStep ==
    ASSUME TypeOK, WorksOnTurn, CompactsWhatItRead, ArchivedBeforeRename,
           [Next]_vars
    PROVE  (WorksOnTurn /\ CompactsWhatItRead /\ ArchivedBeforeRename)'
<1> DEFINE Leaves == pc' \notin {"compactArchive", "compactRename", "compactMeta"}
           HasTurn == pc' # "idle" => turn' \in Turn
<1> USE DEF WorksOnTurn, CompactsWhatItRead, ArchivedBeforeRename,
            memory, files, history, At, In, GivesUpOn
<1>1. ASSUME Leaves, HasTurn
      PROVE (WorksOnTurn /\ CompactsWhatItRead /\ ArchivedBeforeRename)'
  BY <1>1
<1>2. ASSUME pc' = pc, UNCHANGED <<turn, loaded, transcript, compacted>>
      PROVE (WorksOnTurn /\ CompactsWhatItRead /\ ArchivedBeforeRename)'
  BY <1>2 DEF ToArchive, SplitAt
<1>3. ASSUME NEW t \in Turn, Receive(t) PROVE Leaves /\ HasTurn
  BY <1>3, SessionAssumption DEF Receive, FirstStep
<1>4. ASSUME Acquire \/ Unlock \/ LockAges \/ Tick \/ UNCHANGED vars
      PROVE pc' = pc /\ UNCHANGED <<turn, loaded, transcript, compacted>>
  BY <1>4 DEF Acquire, Unlock, LockAges, Tick, vars
<1>5. ASSUME LoadSession \/ Generate \/ AppendTranscript \/ AppendFails
             \/ UpdateMeta
      PROVE Leaves /\ HasTurn
  BY <1>5 DEF LoadSession, Generate, AppendTranscript, AppendFails,
              UpdateMeta, AfterAppend
<1>6. ASSUME CompactLockFails \/ CompactMeta
      PROVE Leaves /\ HasTurn
  BY <1>6 DEF CompactLockFails, CompactMeta, AfterCompact
<1>7. ASSUME ArchiveRename \/ ArchiveMeta \/ ArchiveFails \/ CreateAgain
      PROVE Leaves /\ HasTurn
  BY <1>7 DEF ArchiveRename, ArchiveMeta, ArchiveFails, CreateAgain
<1>8. ASSUME Settle \/ Crash PROVE Leaves /\ HasTurn
  BY <1>8 DEF Settle, Crash
<1>9. ASSUME FileOperationFails PROVE Leaves /\ HasTurn
  BY <1>9 DEF FileOperationFails, AfterFailure, AfterAppend, AfterCompact,
              TypeOK, Step, LockedSteps
<1>10. ASSUME CompactLoad
       PROVE (WorksOnTurn /\ CompactsWhatItRead /\ ArchivedBeforeRename)'
  BY <1>10 DEF CompactLoad, AfterCompact
<1>11. ASSUME CompactArchive
       PROVE (WorksOnTurn /\ CompactsWhatItRead /\ ArchivedBeforeRename)'
  <2>1. ToArchive' = ToArchive
    BY <1>11 DEF CompactArchive, ToArchive, SplitAt
  <2>2. QED
    BY <1>11, <2>1 DEF CompactArchive
<1>12. ASSUME CompactRename
       PROVE (WorksOnTurn /\ CompactsWhatItRead /\ ArchivedBeforeRename)'
  BY <1>12 DEF CompactRename
<1> HIDE DEF Leaves, HasTurn
<1>13. QED
  BY <1>1, <1>2, <1>3, <1>4, <1>5, <1>6, <1>7, <1>8, <1>9, <1>10, <1>11,
     <1>12 DEF Next, AgentStep

\* A step that touches neither transcript nor archives, or only adds a
\* compaction archive.
Quiet == /\ UNCHANGED <<transcript, written, archives, overwritten>>
         /\ compacted \subseteq compacted'

\* Most steps of SessionStore are quiet: what is written changes only in
\* AppendTranscript, what is kept only in a compaction's or an archive's
\* rename.
LEMMA QuietSteps ==
    ASSUME [Next]_vars, ~AppendTranscript, ~CompactRename, ~ArchiveRename
    PROVE  Quiet
<1> USE DEF Quiet, memory, files, history
<1>1. ASSUME NEW t \in Turn, Receive(t) PROVE Quiet
  BY <1>1 DEF Receive
<1>2. CASE Acquire \/ Unlock \/ LockAges \/ Tick \/ UNCHANGED vars
  BY <1>2 DEF Acquire, Unlock, LockAges, Tick, vars
<1>3. CASE LoadSession \/ CreateAgain
  BY <1>3 DEF LoadSession, CreateAgain, CreateSession
<1>4. CASE Generate \/ AppendFails \/ UpdateMeta \/ Settle \/ Crash
  BY <1>4 DEF Generate, AppendFails, UpdateMeta, Settle, Crash
<1>5. CASE CompactLoad \/ CompactArchive \/ CompactLockFails \/ CompactMeta
  BY <1>5 DEF CompactLoad, CompactArchive, CompactLockFails, CompactMeta
<1>6. CASE ArchiveMeta \/ ArchiveFails
  BY <1>6 DEF ArchiveMeta, ArchiveFails
<1>7. CASE FileOperationFails
  BY <1>7 DEF FileOperationFails, CreateSession
<1> HIDE DEF Quiet
<1>8. QED
  BY <1>1, <1>2, <1>3, <1>4, <1>5, <1>6, <1>7 DEF Next, AgentStep

\* No step of SessionStore leaves lines without a file.
LEMMA FileStep ==
    ASSUME LinesAreInFile, [Next]_vars
    PROVE  LinesAreInFile'
<1> USE DEF LinesAreInFile, memory, files, history
<1>1. ASSUME NEW t \in Turn, Receive(t) PROVE LinesAreInFile'
  BY <1>1 DEF Receive
<1>2. CASE Acquire \/ Unlock \/ LockAges \/ Tick \/ UNCHANGED vars
  BY <1>2 DEF Acquire, Unlock, LockAges, Tick, vars
<1>3. CASE LoadSession \/ CreateAgain
  BY <1>3 DEF LoadSession, CreateAgain, CreateSession
<1>4. CASE Generate \/ AppendFails \/ UpdateMeta \/ Settle \/ Crash
  BY <1>4 DEF Generate, AppendFails, UpdateMeta, Settle, Crash
<1>5. CASE CompactLoad \/ CompactArchive \/ CompactLockFails \/ CompactMeta
  BY <1>5 DEF CompactLoad, CompactArchive, CompactLockFails, CompactMeta
<1>6. CASE ArchiveRename \/ ArchiveMeta \/ ArchiveFails
  BY <1>6 DEF ArchiveRename, ArchiveMeta, ArchiveFails
<1>7. CASE AppendTranscript \/ CompactRename
  BY <1>7 DEF AppendTranscript, CompactRename
<1>8. CASE FileOperationFails
  BY <1>8 DEF FileOperationFails, CreateSession
<1> HIDE DEF LinesAreInFile
<1>9. QED
  BY <1>1, <1>2, <1>3, <1>4, <1>5, <1>6, <1>7, <1>8 DEF Next, AgentStep

\* No step of SessionStore leaves a hole in the transcript.
LEMMA TranscriptStep ==
    ASSUME TypeOK, WorksOnTurn, CompactsWhatItRead, TranscriptIsRecentHistory,
           [Next]_vars
    PROVE  TranscriptIsRecentHistory'
<1> USE DEF TranscriptIsRecentHistory
<1>1. CASE AppendTranscript
  <2>1. TheLine \in Line
    BY <1>1 DEF AppendTranscript, In, TheLine, Line, WorksOnTurn, TypeOK
  <2>2. transcript \in Seq(Line) /\ written \in Seq(Line)
    BY DEF TypeOK
  <2>3. /\ transcript' = Append(transcript, TheLine)
        /\ written' = Append(written, TheLine)
    BY <1>1 DEF AppendTranscript
  <2> HIDE DEF TheLine
  <2>4. /\ Len(transcript') = Len(transcript) + 1
        /\ Len(written') = Len(written) + 1
        /\ \A i \in 1 .. Len(transcript) : transcript'[i] = transcript[i]
        /\ \A i \in 1 .. Len(written) : written'[i] = written[i]
        /\ transcript'[Len(transcript) + 1] = TheLine
        /\ written'[Len(written) + 1] = TheLine
    BY <2>1, <2>2, <2>3, AppendProperties
  <2>5. Len(transcript) \in Nat /\ Len(written) \in Nat
    BY <2>2
  <2>6. ASSUME NEW i \in 1 .. Len(transcript')
        PROVE transcript'[i] = written'[Len(written') - Len(transcript') + i]
    <3>1. CASE i = Len(transcript) + 1
      BY <2>4, <2>5, <3>1
    <3>2. CASE i \in 1 .. Len(transcript)
      <4>1. Len(written) - Len(transcript) + i \in 1 .. Len(written)
        BY <2>5, <3>2
      <4>2. QED
        BY <2>4, <2>5, <3>2, <4>1
    <3>3. QED
      BY <2>4, <2>5, <3>1, <3>2
  <2>7. QED
    BY <2>4, <2>5, <2>6
<1>2. CASE CompactRename
  <2>1. /\ transcript' = ToKeep /\ written' = written /\ loaded = transcript
        /\ Len(loaded) > KeepLines
    BY <1>2 DEF CompactRename, In, history, CompactsWhatItRead
  <2>2. /\ Len(ToKeep) = KeepLines
        /\ \A i \in 1 .. KeepLines :
             ToKeep[i] = loaded[Len(loaded) - KeepLines + i]
    BY <1>2, CompactCuts DEF CompactRename, In
  <2>3. Len(transcript) \in Nat /\ Len(written) \in Nat /\ KeepLines \in Nat
    BY SessionAssumption DEF TypeOK
  <2> HIDE DEF ToKeep
  <2>4. ASSUME NEW i \in 1 .. KeepLines
        PROVE ToKeep[i] = written[Len(written) - KeepLines + i]
    <3>1. Len(transcript) - KeepLines + i \in 1 .. Len(transcript)
      BY <2>1, <2>3
    <3>2. transcript[Len(transcript) - KeepLines + i] =
            written[Len(written) - Len(transcript)
                      + (Len(transcript) - KeepLines + i)]
      BY <3>1
    <3>3. Len(written) - Len(transcript) + (Len(transcript) - KeepLines + i)
            = Len(written) - KeepLines + i
      BY <2>3
    <3>4. QED
      BY <2>1, <2>2, <3>2, <3>3
  <2>5. QED
    BY <2>1, <2>2, <2>3, <2>4
<1>3. CASE ArchiveRename
  <2>1. transcript' = <<>> /\ written' = written /\ Len(written) \in Nat
    BY <1>3 DEF ArchiveRename, TypeOK
  <2>2. QED
    BY <2>1
<1>4. CASE Quiet
  BY <1>4 DEF Quiet
<1>5. QED
  BY <1>1, <1>2, <1>3, <1>4, QuietSteps

\* No step of SessionStore destroys a line, except one in an archive that
\* is replaced.
LEMMA LinesStep ==
    ASSUME TypeOK, WorksOnTurn, CompactsWhatItRead, ArchivedBeforeRename,
           LinesAreInFile, LinesAreKept, [Next]_vars
    PROVE  LinesAreKept'
<1> USE DEF LinesAreKept
<1>1. CASE AppendTranscript
  <2>1. TheLine \in Line
    BY <1>1 DEF AppendTranscript, In, TheLine, Line, WorksOnTurn, TypeOK
  <2>2. transcript \in Seq(Line) /\ written \in Seq(Line)
    BY DEF TypeOK
  <2>3. /\ Range(transcript') = Range(transcript) \cup {TheLine}
        /\ Range(written') = Range(written) \cup {TheLine}
    BY <1>1, <2>1, <2>2, AppendRange DEF AppendTranscript
  <2>4. Archived' = Archived /\ overwritten' = overwritten
    BY <1>1 DEF AppendTranscript, Archived
  <2>5. QED
    BY <2>3, <2>4
<1>2. CASE CompactRename
  <2>1. /\ transcript' = ToKeep /\ written' = written /\ loaded = transcript
        /\ ToArchive \in compacted
    BY <1>2 DEF CompactRename, In, history, CompactsWhatItRead,
                ArchivedBeforeRename
  <2>2. Archived' = Archived /\ overwritten' = overwritten
    BY <1>2 DEF CompactRename, history, Archived
  <2>3. Range(ToArchive) \subseteq Archived
    BY <2>1 DEF Archived
  <2>4. Range(loaded) \subseteq Range(ToArchive) \cup Range(ToKeep)
    BY <1>2, CompactCuts DEF CompactRename, In
  <2> HIDE DEF ToKeep, ToArchive
  <2>5. QED
    BY <2>1, <2>2, <2>3, <2>4
<1>3. CASE ArchiveRename
  <2>1. written' = written /\ compacted' = compacted /\ transcript' = <<>>
    BY <1>3 DEF ArchiveRename
  <2>2. CASE exists
    <3>1. /\ archives' = [archives EXCEPT ![second] = transcript]
          /\ overwritten' = overwritten \cup Range(archives[second])
      BY <1>3, <2>2 DEF ArchiveRename
    <3>2. /\ second \in 1 .. MaxSecond
          /\ archives'[second] = transcript
          /\ \A s \in 1 .. MaxSecond :
               s # second => archives'[s] = archives[s]
      BY <3>1 DEF TypeOK
    <3>3. Range(transcript) \subseteq Archived'
      BY <3>2 DEF Archived
    <3>4. Archived \subseteq Archived' \cup overwritten'
      BY <2>1, <3>1, <3>2 DEF Archived
    <3>5. QED
      BY <2>1, <3>1, <3>3, <3>4
  <2>3. CASE ~exists
    <3>1. /\ archives' = archives /\ overwritten' = overwritten
          /\ transcript = <<>>
      BY <1>3, <2>3 DEF ArchiveRename, LinesAreInFile
    <3>2. QED
      BY <2>1, <3>1 DEF Archived
  <2>4. QED
    BY <2>2, <2>3
<1>4. CASE Quiet
  BY <1>4 DEF Quiet, Archived
<1>5. QED
  BY <1>1, <1>2, <1>3, <1>4, QuietSteps
-----------------------------------------------------------------------------
\* The conjunction above is an invariant of the session store.
THEOREM Inductive == Spec => []IInv
<1>1. Init => IInv
  <2> SUFFICES ASSUME Init PROVE IInv
    OBVIOUS
  <2> USE SessionAssumption DEF Init
  <2>1. TypeOK
    <3>1. /\ pending \subseteq Turn /\ settled \subseteq Turn
          /\ turn \in Turn \cup {NoTurn} /\ pc \in Step
          /\ sessMeta \in Meta /\ meta \in Meta
      BY MetaTypes DEF Step
    <3>2. /\ loaded \in Seq(Line) /\ transcript \in Seq(Line)
          /\ written \in Seq(Line)
          /\ archives \in [1 .. MaxSecond -> Seq(Line)]
      OBVIOUS
    <3>3. exists \in BOOLEAN
      OBVIOUS
    <3>4. /\ compacted \subseteq Seq(Line)
          /\ lockFile \in {"none", "held", "done", "orphan", "stale"}
          /\ missed \subseteq Line /\ overwritten \subseteq Line
      OBVIOUS
    <3>5. second \in 1 .. MaxSecond /\ faults \in Nat /\ compactions \in Nat
      OBVIOUS
    <3>6. QED
      BY <3>1, <3>2, <3>3, <3>4, <3>5 DEF TypeOK
  <2>2. WorksOnTurn /\ CompactsWhatItRead /\ ArchivedBeforeRename
    BY DEF WorksOnTurn, CompactsWhatItRead, ArchivedBeforeRename
  <2>3. LinesAreInFile /\ TranscriptIsRecentHistory
    BY DEF LinesAreInFile, TranscriptIsRecentHistory
  <2>4. LinesAreKept
    BY DEF LinesAreKept
  <2>5. QED
    BY <2>1, <2>2, <2>3, <2>4 DEF IInv
<1>2. IInv /\ [Next]_vars => IInv'
  BY TypeStep, ControlStep, FileStep, TranscriptStep, LinesStep DEF IInv
<1>3. QED
  BY <1>1, <1>2, PTL DEF Spec

\* The files, the agent's memory and the history keep their types.
THEOREM TypeCorrect == Spec => []TypeOK
<1>1. IInv => TypeOK
  BY DEF IInv
<1>2. QED
  BY <1>1, Inductive, PTL

\* The transcript file always is an uninterrupted end of everything that
\* AppendTranscript ever wrote, wherever Compact, ArchiveSession or a
\* handler failed or the process died.
THEOREM NoHoleInTranscript == Spec => []TranscriptIsRecentHistory
<1>1. IInv => TranscriptIsRecentHistory
  BY DEF IInv
<1>2. QED
  BY <1>1, Inductive, PTL

\* A line that AppendTranscript wrote stays in the transcript or in an
\* archive, unless ArchiveSession replaced the archive it was in.
THEOREM NothingForgotten == Spec => []LinesAreKept
<1>1. IInv => LinesAreKept
  BY DEF IInv
<1>2. QED
  BY <1>1, Inductive, PTL
-----------------------------------------------------------------------------
\* A lock file that is nobody's was left by a crash.
OrphanOnlyAfterFault == lockFile \in {"orphan", "stale"} => faults > 0

\* Neither is a lock file left behind nor a line missed before a fault:
\* every path through Lock and Unlock gives the lock back.
LEMMA LockDiscipline ==
    Spec => [](OrphanOnlyAfterFault /\ MissedOnlyAfterFault)
<1> DEFINE Inv == OrphanOnlyAfterFault /\ MissedOnlyAfterFault
<1>1. Init => Inv
  BY DEF Init, OrphanOnlyAfterFault, MissedOnlyAfterFault
<1>2. TypeOK /\ Inv /\ [Next]_vars => Inv'
  <2> SUFFICES ASSUME TypeOK, Inv, [Next]_vars PROVE Inv'
    OBVIOUS
  <2> USE DEF OrphanOnlyAfterFault, MissedOnlyAfterFault, memory, files, history
  <2>1. ASSUME NEW t \in Turn, Receive(t) PROVE Inv'
    BY <2>1 DEF Receive
  <2>2. CASE Acquire \/ Unlock \/ LockAges \/ Tick \/ UNCHANGED vars
    BY <2>2 DEF Acquire, Unlock, LockAges, Tick, vars
  <2>3. CASE LoadSession \/ CreateAgain
    BY <2>3 DEF LoadSession, CreateAgain
  <2>4. CASE Generate \/ UpdateMeta \/ Settle \/ AppendTranscript
    BY <2>4 DEF Generate, UpdateMeta, Settle, AppendTranscript
  <2>5. CASE AppendFails
    BY <2>5 DEF AppendFails, GivesUpOn
  <2>6. CASE CompactLoad \/ CompactArchive \/ CompactRename
             \/ CompactLockFails \/ CompactMeta
    BY <2>6 DEF CompactLoad, CompactArchive, CompactRename, CompactLockFails,
                CompactMeta
  <2>7. CASE ArchiveRename \/ ArchiveMeta \/ ArchiveFails
    BY <2>7 DEF ArchiveRename, ArchiveMeta, ArchiveFails
  <2>8. CASE Crash \/ FileOperationFails
    <3>1. faults' = faults + 1 /\ faults \in Nat
      BY <2>8 DEF Crash, FileOperationFails, TypeOK
    <3>2. QED
      BY <3>1
  <2>9. QED
    BY <2>1, <2>2, <2>3, <2>4, <2>5, <2>6, <2>7, <2>8 DEF Next, AgentStep
<1>3. QED
  BY <1>1, <1>2, TypeCorrect, PTL DEF Spec

\* Only a crash leaves a lock file behind (Unlock on every path).
LEMMA OrphansComeFromFaults == Spec => []OrphanOnlyAfterFault
BY LockDiscipline, PTL

\* AppendTranscript loses a line only after a crash or a failed file
\* operation: every path through Lock and Unlock gives the lock back.
THEOREM LockIsGivenBack == Spec => []MissedOnlyAfterFault
BY LockDiscipline, PTL
-----------------------------------------------------------------------------
(***************************************************************************)
(* No line in two places.  Disjointness of transcript and archives is not  *)
(* inductive: it needs that lines are told apart, that is, that no line is *)
(* written twice, which in turn depends on where the handler of its        *)
(* delivery is.                                                            *)
(***************************************************************************)

\* The delivery at hand is not in the queue: the broker redelivers it only
\* when the agent has lost it.
HeldIsNotQueued == turn \notin pending

\* Without a fault no line is written twice: a delivery in the queue has no
\* lines, the one at hand those that its handler has got to.
WrittenOnce ==
    faults = 0 =>
      /\ IsInjective(written)
      /\ \A l \in Range(written) :
           /\ l.turn \notin pending
           /\ l.turn = turn =>
                \/ pc \in {"updateMeta", "report"}
                \/ pc = "appendAssistant" /\ l.role = "user"

\* Archives hold what was written.
ArchivedWasWritten == Archived \subseteq Range(written)

\* OnePlaceUnlessFault, and what takes its place while a compaction is
\* about to cut the transcript: the lines that stay are not archived.
Separate ==
    faults = 0 =>
      IF pc = "compactRename" THEN Range(ToKeep) \cap Archived = {}
      ELSE Range(transcript) \cap Archived = {}

\* The transcript's lines were written, and no line is in it twice unless
\* it was written twice.
LEMMA TranscriptOfWritten ==
    ASSUME TypeOK, TranscriptIsRecentHistory
    PROVE  /\ Range(transcript) \subseteq Range(written)
           /\ IsInjective(written) => IsInjective(transcript)
<1> DEFINE off == Len(written) - Len(transcript)
<1>1. /\ DOMAIN transcript = 1 .. Len(transcript)
      /\ DOMAIN written = 1 .. Len(written)
      /\ Len(transcript) \in Nat /\ Len(written) \in Nat
  BY DEF TypeOK
<1>2. off \in Nat
  BY <1>1 DEF TranscriptIsRecentHistory
<1>3. \A i \in 1 .. Len(transcript) :
         off + i \in 1 .. Len(written) /\ transcript[i] = written[off + i]
  BY <1>1 DEF TranscriptIsRecentHistory
<1> HIDE DEF off
<1>4. Range(transcript) \subseteq Range(written)
  BY <1>1, <1>3 DEF Range
<1>5. ASSUME IsInjective(written) PROVE IsInjective(transcript)
  <2> SUFFICES ASSUME NEW i \in 1 .. Len(transcript),
                      NEW j \in 1 .. Len(transcript),
                      transcript[i] = transcript[j]
               PROVE  i = j
    BY <1>1 DEF IsInjective
  <2>1. off + i = off + j
    BY <1>1, <1>3, <1>5 DEF IsInjective
  <2>2. QED
    BY <1>2, <2>1
<1>6. QED
  BY <1>4, <1>5

\* What a compaction archives and what it keeps have no line in common.
LEMMA CutsApart ==
    ASSUME TypeOK, CompactsWhatItRead, pc = "compactArchive",
           IsInjective(transcript)
    PROVE  /\ Range(ToArchive) \cap Range(ToKeep) = {}
           /\ Range(ToArchive) \subseteq Range(transcript)
           /\ Range(ToKeep) \subseteq Range(transcript)
<1> DEFINE m == Len(loaded) - KeepLines
<1>1. /\ loaded = transcript /\ loaded \in Seq(Line)
      /\ KeepLines \in Nat /\ KeepLines < Len(loaded)
  BY SessionAssumption DEF TypeOK, CompactsWhatItRead
<1>2. m \in Nat /\ m > 0 /\ Len(loaded) \in Nat /\ m + KeepLines = Len(loaded)
  BY <1>1
<1>3. /\ ToArchive \in Seq(Line) /\ Len(ToArchive) = m
      /\ \A i \in 1 .. m : ToArchive[i] = loaded[i]
  <2>1. \A i \in 1 .. m : loaded[i] \in Line
    BY <1>1, <1>2
  <2> DEFINE cut == SubSeq(loaded, 1, m)
  <2>2. /\ cut \in Seq(Line)
        /\ Len(cut) = IF 1 <= m THEN m - 1 + 1 ELSE 0
        /\ \A i \in 1 .. m - 1 + 1 : cut[i] = loaded[1 + i - 1]
    BY <1>2, <2>1, SubSeqProperties
  <2> HIDE DEF cut, m
  <2>3. /\ cut \in Seq(Line) /\ Len(cut) = m
        /\ \A i \in 1 .. m : cut[i] = loaded[i]
    BY <1>2, <2>2
  <2>4. QED
    BY <2>3 DEF cut, m, ToArchive, SplitAt
<1>4. /\ ToKeep \in Seq(Line) /\ Len(ToKeep) = KeepLines
      /\ \A i \in 1 .. KeepLines : ToKeep[i] = loaded[m + i]
  BY CompactCuts
<1>5. /\ DOMAIN loaded = 1 .. m + KeepLines
      /\ DOMAIN ToArchive = 1 .. m
      /\ DOMAIN ToKeep = 1 .. KeepLines
  BY <1>1, <1>2, <1>3, <1>4
<1> HIDE DEF m
<1>6. \A i \in 1 .. m, j \in 1 .. KeepLines : ToArchive[i] # ToKeep[j]
  <2> SUFFICES ASSUME NEW i \in 1 .. m, NEW j \in 1 .. KeepLines,
                      ToArchive[i] = ToKeep[j]
               PROVE  FALSE
    OBVIOUS
  <2>1. i \in DOMAIN loaded /\ m + j \in DOMAIN loaded /\ i # m + j
    BY <1>1, <1>2, <1>5
  <2>2. loaded[i] = loaded[m + j]
    BY <1>3, <1>4
  <2>3. QED
    BY <1>1, <2>1, <2>2 DEF IsInjective
<1>7. /\ \A i \in 1 .. m : ToArchive[i] \in Range(transcript)
      /\ \A j \in 1 .. KeepLines : ToKeep[j] \in Range(transcript)
  <2>1. \A i \in 1 .. m : i \in DOMAIN loaded
    BY <1>1, <1>2, <1>5
  <2>2. \A j \in 1 .. KeepLines : m + j \in DOMAIN loaded
    BY <1>1, <1>2, <1>5
  <2>3. QED
    BY <1>1, <1>3, <1>4, <2>1, <2>2 DEF Range
<1>8. QED
  BY <1>5, <1>6, <1>7 DEF Range

\* A step that leaves no fault behind is neither a crash nor a failed file
\* operation, and finds no fault.
LEMMA FaultFree ==
    ASSUME TypeOK, OrphanOnlyAfterFault, [Next]_vars, faults' = 0
    PROVE  /\ faults = 0 /\ ~Crash /\ ~FileOperationFails
           /\ ~CompactLockFails
<1> USE DEF memory, files, history, TypeOK
<1>1. ASSUME Crash \/ FileOperationFails PROVE FALSE
  BY <1>1 DEF Crash, FileOperationFails
<1>2. faults = 0
  <2>1. ASSUME NEW t \in Turn, Receive(t) PROVE faults' = faults
    BY <2>1 DEF Receive
  <2>2. CASE Acquire \/ Unlock \/ LockAges \/ Tick \/ UNCHANGED vars
    BY <2>2 DEF Acquire, Unlock, LockAges, Tick, vars
  <2>3. CASE LoadSession \/ CreateAgain
    BY <2>3 DEF LoadSession, CreateAgain
  <2>4. CASE Generate \/ UpdateMeta \/ Settle \/ AppendTranscript \/ AppendFails
    BY <2>4 DEF Generate, UpdateMeta, Settle, AppendTranscript, AppendFails
  <2>5. CASE CompactLoad \/ CompactArchive \/ CompactRename
             \/ CompactLockFails \/ CompactMeta
    BY <2>5 DEF CompactLoad, CompactArchive, CompactRename, CompactLockFails,
                CompactMeta
  <2>6. CASE ArchiveRename \/ ArchiveMeta \/ ArchiveFails
    BY <2>6 DEF ArchiveRename, ArchiveMeta, ArchiveFails
  <2>7. QED
    BY <1>1, <2>1, <2>2, <2>3, <2>4, <2>5, <2>6 DEF Next, AgentStep
<1>3. ~CompactLockFails
  BY <1>2 DEF CompactLockFails, GivesUpOn, OrphanOnlyAfterFault
<1>4. QED
  BY <1>1, <1>2, <1>3

\* No step of SessionStore writes a line a second time, as long as nothing
\* crashes and no file operation fails: AppendTranscript is reached once for
\* each role of a delivery, and a delivery is received once.
LEMMA WrittenOnceStep ==
    ASSUME TypeOK, WorksOnTurn, OrphanOnlyAfterFault, HeldIsNotQueued,
           WrittenOnce, [Next]_vars
    PROVE  WrittenOnce'
<1> SUFFICES ASSUME faults' = 0
             PROVE  /\ IsInjective(written')
                    /\ \A l \in Range(written') :
                         /\ l.turn \notin pending'
                         /\ l.turn = turn' =>
                              \/ pc' \in {"updateMeta", "report"}
                              \/ pc' = "appendAssistant" /\ l.role = "user"
  BY DEF WrittenOnce
<1> DEFINE Goal == /\ IsInjective(written')
                   /\ \A l \in Range(written') :
                         /\ l.turn \notin pending'
                         /\ l.turn = turn' =>
                              \/ pc' \in {"updateMeta", "report"}
                              \/ pc' = "appendAssistant" /\ l.role = "user"
<1>1. faults = 0 /\ ~Crash /\ ~FileOperationFails
  BY FaultFree
<1>2. \A l \in Range(written) : l \in Line /\ l.turn # NoTurn
  <2>1. \A l \in Range(written) : l \in Line
    BY DEF TypeOK, Range
  <2>2. QED
    BY <2>1, SessionAssumption DEF Line
<1>3. /\ IsInjective(written)
      /\ \A l \in Range(written) :
           /\ l.turn \notin pending
           /\ l.turn = turn =>
                \/ pc \in {"updateMeta", "report"}
                \/ pc = "appendAssistant" /\ l.role = "user"
  BY <1>1 DEF WrittenOnce
<1> USE DEF memory, files, history, At, In, GivesUpOn
<1>4. ASSUME NEW t \in Turn, Receive(t) PROVE Goal
  <2>1. /\ t \in pending /\ pending' = pending \ {t} /\ turn' = t
        /\ written' = written
    BY <1>4 DEF Receive
  <2>2. QED
    BY <1>3, <2>1
<1>5. ASSUME UNCHANGED <<pending, turn, pc, written>> PROVE Goal
  BY <1>3, <1>5
<1>6. ASSUME Acquire \/ Unlock \/ LockAges \/ Tick \/ UNCHANGED vars
      PROVE  UNCHANGED <<pending, turn, pc, written>>
  BY <1>6 DEF Acquire, Unlock, LockAges, Tick, vars
<1>7. ASSUME UNCHANGED <<pending, turn, written>>,
             pc \notin {"updateMeta", "report", "appendAssistant"}
      PROVE  Goal
  BY <1>3, <1>7
<1>8. ASSUME LoadSession \/ CreateAgain \/ Generate \/ CompactLoad
             \/ CompactArchive \/ CompactRename \/ CompactLockFails
             \/ CompactMeta \/ ArchiveRename \/ ArchiveMeta \/ ArchiveFails
      PROVE  /\ UNCHANGED <<pending, turn, written>>
             /\ pc \notin {"updateMeta", "report", "appendAssistant"}
  BY <1>8 DEF LoadSession, CreateAgain, Generate, CompactLoad, CompactArchive,
              CompactRename, CompactLockFails, CompactMeta, ArchiveRename,
              ArchiveMeta, ArchiveFails
<1>9. ASSUME UpdateMeta PROVE Goal
  BY <1>3, <1>9 DEF UpdateMeta
<1>10. ASSUME Settle PROVE Goal
  BY <1>2, <1>3, <1>10 DEF Settle
<1>11. ASSUME AppendFails PROVE Goal
  <2>1. lockFile = "orphan"
    BY <1>11 DEF AppendFails
  <2>2. QED
    BY <1>1, <2>1 DEF OrphanOnlyAfterFault
<1>12. ASSUME AppendTranscript PROVE Goal
  <2>1. TheLine \in Line /\ turn \in Turn
    BY <1>12 DEF AppendTranscript, TheLine, Line, WorksOnTurn, TypeOK
  <2>2. TheLine.turn = turn
    BY DEF TheLine
  <2>3. /\ pc \in {"appendUser", "appendAssistant"}
        /\ written' = Append(written, TheLine)
        /\ pending' = pending /\ turn' = turn
        /\ pc = "appendUser" => pc' = "appendAssistant"
        /\ pc = "appendAssistant" => pc' = "updateMeta"
    BY <1>12 DEF AppendTranscript, AfterAppend
  <2>4. TheLine \notin Range(written)
    BY <1>3, <2>3 DEF TheLine
  <2>5. /\ pc = "appendUser" => TheLine.role = "user"
        /\ turn \notin pending
    BY DEF TheLine, HeldIsNotQueued
  <2> HIDE DEF TheLine
  <2>6. Range(written') = Range(written) \cup {TheLine}
    BY <2>1, <2>3, AppendRange DEF TypeOK
  <2>7. IsInjective(written')
    <3>1. /\ DOMAIN written' = 1 .. Len(written) + 1
          /\ DOMAIN written = 1 .. Len(written)
          /\ Len(written) \in Nat
          /\ written'[Len(written) + 1] = TheLine
          /\ \A i \in 1 .. Len(written) : written'[i] = written[i]
      BY <2>1, <2>3, AppendProperties DEF TypeOK
    <3>2. QED
      BY <1>3, <2>4, <3>1 DEF Range, IsInjective
  <2>8. QED
    BY <1>3, <2>2, <2>3, <2>5, <2>6, <2>7
<1> HIDE DEF Goal
<1>13. Goal
  BY <1>1, <1>4, <1>5, <1>6, <1>7, <1>8, <1>9, <1>10, <1>11, <1>12
     DEF Next, AgentStep
<1>14. QED
  BY <1>13 DEF Goal

\* Whatever an archive holds was written: Compact archives a part of the
\* transcript and ArchiveSession all of it.
LEMMA ArchivedWasWrittenStep ==
    ASSUME TypeOK, WorksOnTurn, CompactsWhatItRead, TranscriptIsRecentHistory,
           ArchivedWasWritten, [Next]_vars
    PROVE  ArchivedWasWritten'
<1> USE DEF ArchivedWasWritten
<1>1. Range(transcript) \subseteq Range(written)
  BY TranscriptOfWritten
<1>2. ASSUME pc = "compactArchive", compacted' = compacted \cup {ToArchive},
             written' = written, archives' = archives
      PROVE  ArchivedWasWritten'
  <2>1. Range(ToArchive) \subseteq Range(loaded)
    <3> DEFINE m == Len(loaded) - KeepLines
               cut == SubSeq(loaded, 1, m)
    <3>1. loaded \in Seq(Line) /\ m \in Nat /\ m > 0 /\ m <= Len(loaded)
      BY <1>2, SessionAssumption DEF TypeOK, CompactsWhatItRead
    <3>2. /\ cut \in Seq(Line)
          /\ Len(cut) = IF 1 <= m THEN m - 1 + 1 ELSE 0
          /\ \A i \in 1 .. m - 1 + 1 : cut[i] = loaded[1 + i - 1]
      <4>1. \A i \in 1 .. m : loaded[i] \in Line
        BY <3>1
      <4>2. QED
        BY <3>1, <4>1, SubSeqProperties
    <3> HIDE DEF cut, m
    <3>3. \A i \in DOMAIN cut : i \in DOMAIN loaded /\ cut[i] = loaded[i]
      BY <3>1, <3>2
    <3>4. Range(cut) \subseteq Range(loaded)
      BY <3>3 DEF Range
    <3>5. QED
      BY <3>4 DEF cut, m, ToArchive, SplitAt
  <2>2. Range(loaded) \subseteq Range(written)
    BY <1>1, <1>2 DEF CompactsWhatItRead
  <2> HIDE DEF ToArchive
  <2>3. QED
    BY <1>2, <2>1, <2>2 DEF Archived
<1>3. ASSUME UNCHANGED <<compacted, archives, written>>
      PROVE  ArchivedWasWritten'
  BY <1>3 DEF Archived
<1> USE DEF memory, files, history, At, In, GivesUpOn
<1>4. CASE ArchiveRename
  <2>1. written' = written /\ compacted' = compacted
    BY <1>4 DEF ArchiveRename
  <2>2. \A s \in 1 .. MaxSecond :
          archives'[s] = archives[s] \/ archives'[s] = transcript
    BY <1>4 DEF ArchiveRename, TypeOK
  <2>3. QED
    BY <1>1, <2>1, <2>2 DEF Archived
<1>5. CASE AppendTranscript
  <2>1. TheLine \in Line
    BY <1>5 DEF AppendTranscript, TheLine, Line, WorksOnTurn, TypeOK
  <2>2. Range(written') = Range(written) \cup {TheLine}
    BY <1>5, <2>1, AppendRange DEF AppendTranscript, TypeOK
  <2>3. Archived' = Archived
    BY <1>5 DEF AppendTranscript, Archived
  <2>4. QED
    BY <2>2, <2>3
<1>6. CASE CompactArchive
  BY <1>2, <1>6 DEF CompactArchive
<1>7. CASE FileOperationFails
  <2>1. written' = written
    BY <1>7 DEF FileOperationFails
  <2>2. CASE UNCHANGED <<files, compactions>>
    BY <1>3, <2>1, <2>2
  <2>3. CASE Creates /\ CreateSession
    BY <1>3, <2>1, <2>3 DEF CreateSession
  <2>4. CASE /\ pc = "compactArchive"
             /\ compacted' = compacted \cup {ToArchive}
             /\ UNCHANGED <<exists, transcript, meta, archives, compactions>>
    BY <1>2, <2>1, <2>4
  <2>5. QED
    BY <1>7, <2>2, <2>3, <2>4 DEF FileOperationFails
<1>8. ASSUME NEW t \in Turn, Receive(t)
      PROVE  UNCHANGED <<compacted, archives, written>>
  BY <1>8 DEF Receive
<1>9. ASSUME Acquire \/ Unlock \/ LockAges \/ Tick \/ UNCHANGED vars \/ Crash
      PROVE  UNCHANGED <<compacted, archives, written>>
  BY <1>9 DEF Acquire, Unlock, LockAges, Tick, vars, Crash
<1>10. ASSUME LoadSession \/ CreateAgain
       PROVE  UNCHANGED <<compacted, archives, written>>
  BY <1>10 DEF LoadSession, CreateAgain, CreateSession
<1>11. ASSUME \/ Generate \/ AppendFails \/ UpdateMeta \/ Settle \/ CompactLoad
              \/ CompactRename \/ CompactLockFails \/ CompactMeta
              \/ ArchiveMeta \/ ArchiveFails
       PROVE  UNCHANGED <<compacted, archives, written>>
  BY <1>11 DEF Generate, AppendFails, UpdateMeta, Settle, CompactLoad,
               CompactRename, CompactLockFails, CompactMeta, ArchiveMeta,
               ArchiveFails
<1> HIDE DEF ArchivedWasWritten
<1>12. QED
  BY <1>3, <1>4, <1>5, <1>6, <1>7, <1>8, <1>9, <1>10, <1>11
     DEF Next, AgentStep

\* Without a fault no step of SessionStore leaves a line in the transcript
\* and in an archive, but for the moment between a compaction's archive and
\* its rename.
LEMMA SeparateStep ==
    ASSUME IInv, OrphanOnlyAfterFault, WrittenOnce, ArchivedWasWritten,
           Separate, [Next]_vars
    PROVE  Separate'
<1> SUFFICES ASSUME faults' = 0
             PROVE  IF pc' = "compactRename"
                    THEN Range(ToKeep') \cap Archived' = {}
                    ELSE Range(transcript') \cap Archived' = {}
  BY DEF Separate
<1> DEFINE Goal == IF pc' = "compactRename"
                   THEN Range(ToKeep') \cap Archived' = {}
                   ELSE Range(transcript') \cap Archived' = {}
<1>1. faults = 0 /\ ~Crash /\ ~FileOperationFails /\ ~CompactLockFails
  BY FaultFree DEF IInv
<1>2. IF pc = "compactRename" THEN Range(ToKeep) \cap Archived = {}
      ELSE Range(transcript) \cap Archived = {}
  BY <1>1 DEF Separate
<1> USE DEF memory, files, history, At, In, GivesUpOn
<1>3. ASSUME UNCHANGED <<pc, loaded, transcript, archives, compacted>>
      PROVE  Goal
  BY <1>2, <1>3 DEF Archived, ToKeep, SplitAt
<1>4. ASSUME pc # "compactRename", pc' # "compactRename",
             UNCHANGED <<transcript, archives, compacted>>
      PROVE  Goal
  BY <1>2, <1>4 DEF Archived
<1>5. ASSUME CompactArchive PROVE Goal
  <2>1. IsInjective(transcript)
    BY <1>1, TranscriptOfWritten DEF WrittenOnce, IInv
  <2>2. pc = "compactArchive"
    BY <1>5 DEF CompactArchive
  <2>3. /\ Range(ToArchive) \cap Range(ToKeep) = {}
        /\ Range(ToKeep) \subseteq Range(transcript)
    BY <2>1, <2>2, CutsApart DEF IInv
  <2>4. ToKeep' = ToKeep /\ pc' = "compactRename"
    BY <1>5 DEF CompactArchive, ToKeep, SplitAt
  <2>5. Archived' = Archived \cup Range(ToArchive)
    <3> HIDE DEF ToArchive
    <3>1. compacted' = compacted \cup {ToArchive} /\ archives' = archives
      BY <1>5 DEF CompactArchive
    <3>2. QED
      BY <3>1 DEF Archived
  <2> HIDE DEF ToArchive, ToKeep
  <2>6. QED
    BY <1>2, <2>2, <2>3, <2>4, <2>5
<1>6. ASSUME CompactRename PROVE Goal
  <2>1. /\ pc = "compactRename" /\ pc' # "compactRename"
        /\ transcript' = ToKeep
    BY <1>6 DEF CompactRename
  <2>2. Archived' = Archived
    BY <1>6 DEF CompactRename, Archived
  <2> HIDE DEF ToKeep
  <2>3. QED
    BY <1>2, <2>1, <2>2
<1>7. ASSUME ArchiveRename PROVE Goal
  <2>1. transcript' = <<>> /\ pc' # "compactRename"
    BY <1>7 DEF ArchiveRename
  <2>2. Range(transcript') = {}
    BY <2>1 DEF Range
  <2>3. QED
    BY <2>1, <2>2
<1>8. ASSUME AppendTranscript PROVE Goal
  <2>1. TheLine \in Line
    BY <1>8 DEF AppendTranscript, TheLine, Line, WorksOnTurn, TypeOK, IInv
  <2>2. TheLine \notin Range(written)
    BY <1>1, <1>8 DEF AppendTranscript, WrittenOnce, TheLine
  <2>3. Range(transcript') = Range(transcript) \cup {TheLine}
    BY <1>8, <2>1, AppendRange DEF AppendTranscript, TypeOK, IInv
  <2>4. Archived' = Archived
    BY <1>8 DEF AppendTranscript, Archived
  <2>5. pc # "compactRename" /\ pc' # "compactRename"
    BY <1>8 DEF AppendTranscript, AfterAppend
  <2>6. QED
    BY <1>2, <2>2, <2>3, <2>4, <2>5 DEF ArchivedWasWritten
<1>9. ASSUME NEW t \in Turn, Receive(t)
      PROVE  /\ pc # "compactRename" /\ pc' # "compactRename"
             /\ UNCHANGED <<transcript, archives, compacted>>
  BY <1>9, SessionAssumption DEF Receive, FirstStep
<1>10. ASSUME Acquire \/ Unlock \/ LockAges \/ Tick \/ UNCHANGED vars
       PROVE  UNCHANGED <<pc, loaded, transcript, archives, compacted>>
  BY <1>10 DEF Acquire, Unlock, LockAges, Tick, vars
<1>11. ASSUME LoadSession \/ CreateAgain
       PROVE  /\ pc # "compactRename" /\ pc' # "compactRename"
              /\ UNCHANGED <<transcript, archives, compacted>>
  BY <1>11 DEF LoadSession, CreateAgain, CreateSession
<1>12. ASSUME \/ Generate \/ AppendFails \/ UpdateMeta \/ Settle \/ CompactLoad
              \/ CompactMeta \/ ArchiveMeta \/ ArchiveFails
       PROVE  /\ pc # "compactRename" /\ pc' # "compactRename"
              /\ UNCHANGED <<transcript, archives, compacted>>
  BY <1>12 DEF Generate, AppendFails, UpdateMeta, Settle, CompactLoad,
               CompactMeta, ArchiveMeta, ArchiveFails, AfterAppend,
               AfterCompact
<1> HIDE DEF Goal
<1>13. Goal
  BY <1>1, <1>3, <1>4, <1>5, <1>6, <1>7, <1>8, <1>9, <1>10, <1>11, <1>12
     DEF Next, AgentStep
<1>14. QED
  BY <1>13 DEF Goal

\* The broker redelivers only what the agent has lost: Receive takes a
\* delivery out of the queue, and only a crash puts it back.
LEMMA HeldIsNotQueuedStep ==
    ASSUME TypeOK, HeldIsNotQueued, [Next]_vars
    PROVE  HeldIsNotQueued'
<1> USE SessionAssumption DEF HeldIsNotQueued, TypeOK, memory, files, history
<1>1. ASSUME NEW t \in Turn, Receive(t) PROVE HeldIsNotQueued'
  BY <1>1 DEF Receive
<1>2. CASE Acquire \/ Unlock \/ LockAges \/ Tick \/ UNCHANGED vars
  BY <1>2 DEF Acquire, Unlock, LockAges, Tick, vars
<1>3. CASE LoadSession \/ CreateAgain
  BY <1>3 DEF LoadSession, CreateAgain
<1>4. CASE Generate \/ UpdateMeta \/ AppendTranscript \/ AppendFails
  BY <1>4 DEF Generate, UpdateMeta, AppendTranscript, AppendFails
<1>5. CASE Settle \/ Crash
  <2>1. NoTurn \notin pending \cup {turn} \/ turn = NoTurn
    OBVIOUS
  <2>2. QED
    BY <1>5, <2>1 DEF Settle, Crash
<1>6. CASE CompactLoad \/ CompactArchive \/ CompactRename
           \/ CompactLockFails \/ CompactMeta
  BY <1>6 DEF CompactLoad, CompactArchive, CompactRename, CompactLockFails,
              CompactMeta
<1>7. CASE ArchiveRename \/ ArchiveMeta \/ ArchiveFails
  BY <1>7 DEF ArchiveRename, ArchiveMeta, ArchiveFails
<1>8. CASE FileOperationFails
  BY <1>8 DEF FileOperationFails
<1> HIDE DEF HeldIsNotQueued
<1>9. QED
  BY <1>1, <1>2, <1>3, <1>4, <1>5, <1>6, <1>7, <1>8 DEF Next, AgentStep

\* As long as nothing crashed and no file operation failed, no line of the
\* session is both in the transcript and in an archive, except while Compact
\* is about to cut it off: neither Compact nor ArchiveSession copies what it
\* should move.
THEOREM NoLineTwice == Spec => []OnePlaceUnlessFault
<1> DEFINE Inv == HeldIsNotQueued /\ WrittenOnce /\ ArchivedWasWritten
                  /\ Separate
<1>1. Init => Inv
  <2> SUFFICES ASSUME Init PROVE Inv
    OBVIOUS
  <2>1. Range(<<>>) = {} /\ IsInjective(<<>>)
    BY DEF Range, IsInjective
  <2>2. HeldIsNotQueued
    BY SessionAssumption DEF Init, HeldIsNotQueued
  <2>3. WrittenOnce
    BY <2>1 DEF Init, WrittenOnce
  <2>4. Archived = {}
    BY <2>1 DEF Init, Archived
  <2>5. ArchivedWasWritten /\ Separate
    BY <2>4 DEF Init, ArchivedWasWritten, Separate
  <2>6. QED
    BY <2>2, <2>3, <2>5
<1>2. IInv /\ OrphanOnlyAfterFault /\ Inv /\ [Next]_vars => Inv'
  BY HeldIsNotQueuedStep, WrittenOnceStep, ArchivedWasWrittenStep,
     SeparateStep DEF IInv
<1>3. Inv => OnePlaceUnlessFault
  BY DEF Separate, OnePlaceUnlessFault
<1> HIDE DEF Inv
<1>4. QED
  BY <1>1, <1>2, <1>3, Inductive, OrphansComeFromFaults, PTL DEF Spec
-----------------------------------------------------------------------------
(***************************************************************************)
(* The session store implements the journal.                               *)
(***************************************************************************)

FaultsAreBounded == faults \in 0 .. MaxFaults

\* Attempts are named by numbers up to the bound on faults.
LEMMA FaultsStep ==
    ASSUME FaultsAreBounded, [Next]_vars
    PROVE  FaultsAreBounded'
<1> USE SessionAssumption DEF FaultsAreBounded, memory, files, history
<1>1. ASSUME NEW t \in Turn, Receive(t) PROVE FaultsAreBounded'
  BY <1>1 DEF Receive
<1>2. CASE Acquire \/ Unlock \/ LockAges \/ Tick \/ UNCHANGED vars
  BY <1>2 DEF Acquire, Unlock, LockAges, Tick, vars
<1>3. CASE LoadSession \/ CreateAgain \/ Generate \/ AppendFails \/ UpdateMeta \/ Settle
  BY <1>3 DEF LoadSession, CreateAgain, Generate, AppendFails, UpdateMeta, Settle
<1>4. CASE CompactLoad \/ CompactArchive \/ CompactLockFails \/ CompactMeta
  BY <1>4 DEF CompactLoad, CompactArchive, CompactLockFails, CompactMeta
<1>5. CASE ArchiveRename \/ ArchiveMeta \/ ArchiveFails
  BY <1>5 DEF ArchiveRename, ArchiveMeta, ArchiveFails
<1>6. CASE AppendTranscript \/ CompactRename
  BY <1>6 DEF AppendTranscript, CompactRename
<1>7. CASE Crash \/ FileOperationFails
  BY <1>7 DEF Crash, FileOperationFails
<1>8. QED
  BY <1>1, <1>2, <1>3, <1>4, <1>5, <1>6, <1>7 DEF Next, AgentStep

\* A quiet step of SessionStore adds to the compaction archives what Compact
\* cuts off, or nothing.
LEMMA QuietArchives ==
    ASSUME [Next]_vars, ~AppendTranscript, ~CompactRename, ~ArchiveRename
    PROVE  \/ compacted' = compacted
           \/ pc = "compactArchive" /\ compacted' = compacted \cup {ToArchive}
<1> DEFINE Goal == \/ compacted' = compacted
                   \/ pc = "compactArchive" /\ compacted' = compacted \cup {ToArchive}
<1> SUFFICES Goal
  OBVIOUS
<1> USE DEF memory, files, history
<1>1. ASSUME NEW t \in Turn, Receive(t) PROVE Goal
  BY <1>1 DEF Receive
<1>2. CASE Acquire \/ Unlock \/ LockAges \/ Tick \/ UNCHANGED vars
  BY <1>2 DEF Acquire, Unlock, LockAges, Tick, vars
<1>3. CASE LoadSession \/ CreateAgain
  BY <1>3 DEF LoadSession, CreateAgain, CreateSession
<1>4. CASE Generate \/ AppendFails \/ UpdateMeta \/ Settle \/ Crash
  BY <1>4 DEF Generate, AppendFails, UpdateMeta, Settle, Crash
<1>5. CASE CompactLoad \/ CompactArchive \/ CompactLockFails \/ CompactMeta
  BY <1>5 DEF CompactLoad, CompactArchive, CompactLockFails, CompactMeta, At
<1>6. CASE ArchiveMeta \/ ArchiveFails
  BY <1>6 DEF ArchiveMeta, ArchiveFails
<1>7. CASE FileOperationFails
  BY <1>7 DEF FileOperationFails, CreateSession
<1> HIDE DEF Goal
<1>8. QED
  BY <1>1, <1>2, <1>3, <1>4, <1>5, <1>6, <1>7 DEF Next, AgentStep

\* The two parts of a cut sequence, entry by entry.
LEMMA CutEntries ==
    ASSUME NEW S, NEW s \in Seq(S), NEW m \in 0 .. Len(s)
    PROVE  /\ \A i \in 1 .. m : s[i] \in Range(SubSeq(s, 1, m))
           /\ \A e \in Range(SubSeq(s, 1, m)) : \E i \in 1 .. Len(s) : e = s[i]
<1> DEFINE h == SubSeq(s, 1, m)
<1>1. m \in Nat /\ Len(s) \in Nat
  OBVIOUS
<1>2. Len(h) = m /\ DOMAIN h = 1 .. m /\ \A i \in 1 .. m : h[i] = s[i]
  BY <1>1
<1> HIDE DEF h
<1>3. Range(h) = {h[i] : i \in 1 .. m}
  BY <1>2 DEF Range
<1>4. \A i \in 1 .. m : i \in 1 .. Len(s)
  BY <1>1
<1>5. QED
  BY <1>2, <1>3, <1>4 DEF h

\* Every step of SessionStore is a step of the journal or none.
LEMMA JournalStep ==
    ASSUME IInv, FaultsAreBounded, [Next]_vars
    PROVE  [Promise!Next]_(Promise!vars)
<1> DEFINE Shelf == Archived \cup overwritten
<1>0. transcript \in Seq(Line) /\ written \in Seq(Line) /\ loaded \in Seq(Line) /\ Len(transcript) \in Nat
  BY DEF IInv, TypeOK
<1>1. CASE AppendTranscript
  <2>1. TheLine \in [turn : Turn, run : 0 .. MaxFaults, role : {"user", "assistant"}]
    BY <1>1 DEF AppendTranscript, In, TheLine, IInv, WorksOnTurn, FaultsAreBounded
  <2>2. /\ transcript' = Append(transcript, TheLine) /\ written' = Append(written, TheLine)
        /\ Shelf' = Shelf
    BY <1>1 DEF AppendTranscript, Archived
  <2> HIDE DEF TheLine, Shelf
  <2>3. Promise!Write(TheLine)
    BY <2>2 DEF Promise!Write, Shelf
  <2>4. QED
    BY <2>1, <2>3 DEF Promise!Next
<1>2. CASE CompactRename
  <2>1. /\ transcript' = ToKeep /\ written' = written /\ loaded = transcript
        /\ ToArchive \in compacted /\ Len(loaded) > KeepLines /\ Shelf' = Shelf
    BY <1>2 DEF CompactRename, In, history, IInv, CompactsWhatItRead, ArchivedBeforeRename, Archived
  <2>2. SplitAt \in 0 .. Len(transcript) /\ SplitAt \in Nat
    BY <1>0, <2>1, SessionAssumption DEF SplitAt
  <2>3. Range(ToArchive) \subseteq Shelf
    BY <2>1 DEF Archived
  <2>4. \A i \in 1 .. SplitAt : transcript[i] \in Shelf'
    BY <1>0, <2>1, <2>2, <2>3, CutEntries DEF ToArchive
  <2>5. transcript' = SubSeq(transcript, SplitAt + 1, Len(transcript))
    BY <2>1 DEF ToKeep
  <2> HIDE DEF Shelf
  <2>6. Promise!Leave(SplitAt)
    BY <2>1, <2>4, <2>5 DEF Promise!Leave, Shelf
  <2>7. QED
    BY <2>2, <2>6 DEF Promise!Next
<1>3. CASE ArchiveRename
  <2>1. written' = written /\ compacted' = compacted /\ transcript' = <<>>
    BY <1>3 DEF ArchiveRename
  <2>2. CASE exists
    <3>1. /\ archives' = [archives EXCEPT ![second] = transcript]
          /\ overwritten' = overwritten \cup Range(archives[second])
      BY <1>3, <2>2 DEF ArchiveRename
    <3>2. /\ second \in 1 .. MaxSecond
          /\ archives'[second] = transcript
          /\ \A s \in 1 .. MaxSecond : s # second => archives'[s] = archives[s]
      BY <3>1 DEF IInv, TypeOK
    <3>3. Range(transcript) \subseteq Archived'
      BY <3>2 DEF Archived
    <3>4. Archived \subseteq Shelf'
      BY <2>1, <3>1, <3>2 DEF Archived
    <3>5. Shelf' \subseteq Shelf \cup Range(transcript)
      <4>1. Archived' \subseteq Archived \cup Range(transcript)
        BY <2>1, <3>2 DEF Archived
      <4>2. Range(archives[second]) \subseteq Archived
        BY <3>2 DEF Archived
      <4>3. QED
        BY <3>1, <4>1, <4>2
    <3>6. Range(transcript) = {transcript[i] : i \in 1 .. Len(transcript)}
      BY <1>0 DEF Range
    <3>7. SubSeq(transcript, Len(transcript) + 1, Len(transcript)) = <<>>
      BY <1>0, SubSeqEmpty
    <3>8. Shelf \subseteq Shelf'
      BY <3>1, <3>4
    <3>9. \A i \in 1 .. Len(transcript) : transcript[i] \in Shelf'
      BY <3>3, <3>6
    <3>10. \A e \in Shelf' \ Shelf : \E i \in 1 .. Len(transcript) : e = transcript[i]
      BY <3>5, <3>6
    <3> HIDE DEF Shelf
    <3>11. Promise!Leave(Len(transcript))
      BY <2>1, <3>7, <3>8, <3>9, <3>10 DEF Promise!Leave, Shelf
    <3>12. Len(transcript) \in 0 .. Len(transcript)
      BY <1>0
    <3>13. QED
      BY <3>11, <3>12 DEF Promise!Next
  <2>3. CASE ~exists
    <3>1. archives' = archives /\ overwritten' = overwritten /\ transcript = <<>>
      BY <1>3, <2>3 DEF ArchiveRename, IInv, LinesAreInFile
    <3>2. QED
      BY <2>1, <3>1 DEF Archived, Promise!vars
  <2>4. QED
    BY <2>2, <2>3
<1>4. CASE ~AppendTranscript /\ ~CompactRename /\ ~ArchiveRename
  <2>1. UNCHANGED <<transcript, written, archives, overwritten>>
    BY <1>4, QuietSteps DEF Quiet
  <2>2. CASE compacted' = compacted
    BY <2>1, <2>2 DEF Archived, Promise!vars
  <2>3. CASE pc = "compactArchive" /\ compacted' = compacted \cup {ToArchive}
    <3>1. Archived' = Archived \cup Range(ToArchive)
      BY <2>1, <2>3 DEF Archived
    <3>2. loaded = transcript /\ Len(loaded) > KeepLines
      BY <2>3 DEF IInv, CompactsWhatItRead
    <3>3. SplitAt \in 0 .. Len(transcript)
      BY <1>0, <3>2, SessionAssumption DEF SplitAt
    <3>4. \A e \in Range(ToArchive) : \E i \in 1 .. Len(transcript) : e = transcript[i]
      BY <1>0, <3>2, <3>3, CutEntries DEF ToArchive
    <3>5. SubSeq(transcript, 1, Len(transcript)) = transcript
      BY <1>0, SubSeqFull
    <3>6. Shelf \subseteq Shelf' /\ \A e \in Shelf' \ Shelf : \E i \in 1 .. Len(transcript) : e = transcript[i]
      BY <2>1, <3>1, <3>4
    <3> HIDE DEF Shelf
    <3>7. Promise!Leave(0)
      BY <2>1, <3>5, <3>6 DEF Promise!Leave, Shelf
    <3>8. QED
      BY <1>0, <3>7 DEF Promise!Next
  <2>4. QED
    BY <1>4, <2>2, <2>3, QuietArchives
<1>5. QED
  BY <1>1, <1>2, <1>3, <1>4

\* For every set of deliveries, whatever fails and wherever the process
\* dies: what AppendTranscript, Compact and ArchiveSession make of a session
\* is an append-only journal of which the transcript is the most recent
\* part; a line leaves it only into an archive and never comes back.
THEOREM SessionIsJournal == Spec => ImplementsJournal
<1>1. Init => Promise!Init /\ FaultsAreBounded
  <2> SUFFICES ASSUME Init PROVE Promise!Init /\ FaultsAreBounded
    OBVIOUS
  <2>1. Archived \cup overwritten = {}
    BY DEF Init, Archived, Range
  <2>2. QED
    BY <2>1, SessionAssumption DEF Init, Promise!Init, FaultsAreBounded
<1>2. FaultsAreBounded /\ [Next]_vars => FaultsAreBounded'
  BY FaultsStep
<1>3. IInv /\ FaultsAreBounded /\ [Next]_vars => [Promise!Next]_(Promise!vars)
  BY JournalStep
<1>4. QED
  BY <1>1, <1>2, <1>3, Inductive, PTL DEF Spec, ImplementsJournal, Promise!Spec
=============================================================================
