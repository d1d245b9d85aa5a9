---------------------------- MODULE ContextWindow ----------------------------
(***************************************************************************)
(* How the agent keeps a session inside the model's context window         *)
(* (runtime.go, usage.go, commands.go): the prompt size the server reports *)
(* is kept in memory per session, and a turn whose predecessor filled more *)
(* than a percentage of the window compacts the transcript first.  Sizes   *)
(* are in units of the window; a line of the transcript is its size.       *)
(***************************************************************************)
EXTENDS Naturals, Sequences, SequencesExt

CONSTANTS WindowMax,   \* what the server takes
          TrainedMax,  \* the model's own limit, which the server may not offer
          Configured,  \* ContextWindowSize of the configuration, 0 if not set
          ThresholdPct,\* AutoCompactionThresholdPercent
          Bases,       \* sizes of a system prompt with its tools
          CompactKeep, \* CompactKeepLines
          CommandKeep, \* lines that /compact keeps
          Size,        \* sizes of messages, answers and tool results
          MaxHistory   \* bound on the transcript's lines
ASSUME WindowAssumption ==
    /\ {WindowMax, TrainedMax} \subseteq Nat \ {0} /\ Configured \in Nat
    /\ {ThresholdPct, CompactKeep, CommandKeep} \subseteq Nat \ {0}
    /\ Size \subseteq Nat \ {0} /\ Bases \subseteq Nat

VARIABLES window,   \* contextWindowMax of the running agent, 0 if unknown
          reports,  \* the server reports token usage
          history,  \* the transcript
          fill,     \* LastPromptTokens of the usage tracker, 0 without an entry
          counted,  \* of which the system prompt and the tools were this much
          asking,   \* size of this turn's message, 0 between turns
          base,     \* and of its system prompt and tools
          prompt,   \* of the next model call
          due,      \* this turn found the window too full
          current   \* the tracker was not emptied since the transcript's last line

windowVars == <<window, reports, history, fill, counted, asking, base, prompt, due, current>>

\* /models reports the server's limit or what the model was trained for, by
\* one of three fields, or neither.
ModelObjectToCapabilities == {WindowMax, TrainedMax, 0}
\* /props, where there is one, reports what the server runs with.
ProbeModelCapabilities == {WindowMax} \cup ModelObjectToCapabilities
\* The probe wins over the configuration.
ContextWindowMax(probed) == IF probed # 0 THEN probed ELSE Configured
Windows == {ContextWindowMax(p) : p \in ProbeModelCapabilities}

WindowInit ==
    /\ window \in Windows
    /\ reports \in BOOLEAN /\ history = <<>> /\ fill = 0 /\ counted = 0
    /\ asking = 0 /\ base = 0 /\ prompt = 0 /\ due = FALSE /\ current = TRUE

threshold == (window * ThresholdPct) \div 100
\* Mutant: the percentage is not applied.
WholeWindow == window # 0 /\ fill > window
\* Nothing is due in a window of unknown size.
Due == window # 0 /\ fill > threshold

\* The size of the first i lines, for every i.
Sums(h) == LET upTo[i \in 0 .. Len(h)] == IF i = 0 THEN 0 ELSE upTo[i - 1] + h[i] IN upTo
TotalSize(h) == Sums(h)[Len(h)]
\* history and the user message, behind the system prompt
FirstPrompt(b, h, m) == b + TotalSize(h) + m
Compacted(h, keep) == IF Len(h) > keep THEN SubSeq(h, Len(h) - keep + 1, Len(h)) ELSE h

\* The turn compacts first if it is due; a compaction that fails is logged and
\* the turn goes on with the history it has.  The system prompt (profile,
\* skills, tool hints) and the tools (those of the servers that are connected,
\* or that match the message) are put together anew.
BeginTurn(m) ==
    /\ asking = 0 /\ Len(history) + 2 <= MaxHistory
    /\ asking' = m /\ due' = Due
    /\ history' \in IF Due THEN {history, Compacted(history, CompactKeep)} ELSE {history}
    /\ base' \in Bases /\ prompt' = FirstPrompt(base', history', m)
    /\ UNCHANGED <<window, reports, fill, counted, current>>

\* One step of the ReAct loop: the result is part of the next prompt.
ToolStep(r) ==
    /\ asking # 0 /\ prompt <= WindowMax
    /\ prompt' = prompt + r
    /\ UNCHANGED <<window, reports, history, fill, counted, asking, base, due, current>>
\* A call fails, as one that does not fit must, and the attempt starts over, at
\* times with a recovery hint or with the tools of a reconnected server.
RetryTurn ==
    /\ asking # 0
    /\ base' \in Bases /\ prompt' = FirstPrompt(base', history, asking)
    /\ UNCHANGED <<window, reports, history, fill, counted, asking, due, current>>

\* UsageTracker.Record
Recorded(p) == IF reports /\ window # 0 THEN p ELSE fill
Between == asking' = 0 /\ base' = 0 /\ prompt' = 0 /\ due' = FALSE
\* The accumulator's last call is recorded, then both lines are appended, each
\* of which may fail.
RecordAnswer(a) ==
    /\ asking # 0 /\ prompt <= WindowMax
    /\ fill' = Recorded(prompt) /\ counted' = IF reports /\ window # 0 THEN base ELSE counted
    /\ \E said \in {<<>>, <<asking>>}, got \in {<<>>, <<a>>} : history' = history \o said \o got
    /\ current' = (current \/ (reports /\ window # 0))
    /\ Between /\ UNCHANGED <<window, reports>>
\* After the last attempt nothing is recorded and nothing appended.
GiveUpTurn ==
    /\ asking # 0 /\ Between
    /\ UNCHANGED <<window, reports, history, fill, counted, current>>

\* /new: the tracker is reset also when the transcript could not be archived,
\* and kept when the new session cannot be created.
CmdNew ==
    /\ asking = 0
    /\ \E archives, creates \in BOOLEAN :
          /\ history' = IF archives THEN <<>> ELSE history
          /\ fill' = IF creates THEN 0 ELSE fill
          /\ counted' = IF creates THEN 0 ELSE counted
          /\ current' = (history' = <<>> \/ (current /\ ~creates))
    /\ UNCHANGED <<window, reports, asking, base, prompt, due>>
\* /compact leaves the tracker alone.
CmdCompact ==
    /\ asking = 0 /\ history' = Compacted(history, CommandKeep)
    /\ UNCHANGED <<window, reports, fill, counted, asking, base, prompt, due, current>>
\* The usage tracker is in memory only.
RestartAgent ==
    /\ history # <<>> /\ fill' = 0 /\ counted' = 0 /\ current' = FALSE
    /\ window' \in Windows
    /\ Between /\ UNCHANGED <<reports, history>>

WindowNext ==
    \/ RetryTurn \/ GiveUpTurn \/ CmdNew \/ CmdCompact \/ RestartAgent
    \/ \E s \in Size : BeginTurn(s) \/ ToolStep(s) \/ RecordAnswer(s)

WindowTypeOK ==
    /\ window \in Windows /\ reports \in BOOLEAN /\ history \in Seq(Size)
    /\ {fill, counted, prompt, base} \subseteq Nat
    /\ asking \in Size \cup {0} /\ due \in BOOLEAN /\ current \in BOOLEAN

\* The first prompt of a turn fits the window, whatever tools, failed turns,
\* lost lines and commands came before, unless the agent does not know the
\* window or takes it for larger than it is, the server reports no usage, a
\* restart or a /new that could not archive has forgotten it, the turn was due
\* and compaction did not free enough, the message would not fit a new session
\* either, or the message, the last line and what the system prompt and the
\* tools have grown by since the tracker's last entry need more than the room
\* above the threshold (handleMessage step 2.5, UsageTracker,
\* buildSystemPrompt, ProbeModelCapabilities).
PromptsFitTheWindow ==
    \/ asking = 0 \/ due
    \/ window = 0 \/ window > WindowMax \/ ~reports \/ ~current
    \/ FirstPrompt(base, history, asking) <= WindowMax \/ base + asking > WindowMax
    \/ history # <<>> /\ Last(history) + asking + base > (WindowMax - threshold) + counted
=============================================================================
