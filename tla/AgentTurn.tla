------------------------------ MODULE AgentTurn ------------------------------
(***************************************************************************)
(* One message in the agent (runtime.go, tooldedup.go, commands.go): the   *)
(* ReAct loop of model and tool calls, its three attempts with their       *)
(* recoveries, the cleaning of the answer, and the events that end the     *)
(* turn.  Transcript and metadata are SessionStore's; here a turn's lines  *)
(* are only counted.                                                       *)
(***************************************************************************)
EXTENDS Naturals, Sequences, SequencesExt

CONSTANTS Native,    \* the agent's own tools: "bash", "skill_exec", ...
          MaxStep,   \* model steps of one Generate (cfg.MaxSteps)
          MaxAsked   \* bound on messages
ASSUME TurnAssumption == MaxStep \in Nat \ {0} /\ "mcp" \notin Native

maxLLMAttempts == 3
maxIdenticalToolCalls == 4
maxIdenticalSkillExecCalls == 2

\* Tools, each with one set of arguments.
Tool == Native \cup {"mcp"}

\* What Generate can fail with, by what the classifiers tell apart; "skill" is
\* a call of a name that is no tool but an MCP-only skill, "other" includes a
\* call of any other unknown name and 429, which only waits longer.
Failure == {"images", "transport", "skill", "leak", "other"}

\* An answer is a sequence of: readable text, a text of at most three runes,
\* a <think> block, one that is not closed, a <|...|> token, filler that makes
\* the whole answer garbled, and narration.
Segment == {"text", "word", "think", "open", "token", "junk", "narration"}
Fallback == <<"fallback">>

VARIABLES lean,      \* LeanMCPTools
          vision,    \* the model has not refused images (~visionUnsupported)
          phase, asked,
          inlined,   \* the input carries the image
          attempt, step,
          kit,       \* agentCfg.ToolsConfig: which tools, and whether wrapped
          agent,     \* the same for the agent that runs
          count,     \* toolCallTracker.calls
          ran,       \* calls that reached the tool, in this message
          failure,   \* what the last Generate failed with
          shown,     \* text of the done event
          wordless,  \* the model's answer had no text in it
          outcome,   \* done and error events of this message
          toolErrors,\* failures of native tools in this message
          lost       \* the turn ended without its event

turnVars == <<lean, vision, phase, asked, inlined, attempt, step, kit, agent, count, ran,
              failure, shown, wordless, outcome, toolErrors, lost>>

NoCalls == [t \in Tool |-> 0]
Kit == [tools : SUBSET Tool, wrapped : BOOLEAN]
NoKit == [tools |-> {}, wrapped |-> TRUE]

TurnInit ==
    /\ lean \in BOOLEAN /\ vision = TRUE
    /\ phase = "ended" /\ asked = 0 /\ inlined = FALSE
    /\ attempt = 0 /\ step = 0 /\ kit = NoKit /\ agent = NoKit
    /\ count = NoCalls /\ ran = NoCalls /\ failure = "other"
    /\ shown = Fallback /\ wordless = FALSE /\ outcome = <<"done">> /\ toolErrors = 0 /\ lost = FALSE

\* The locals of handleMessage end with their use.
Forget ==
    /\ attempt' = 0 /\ step' = 0 /\ kit' = NoKit /\ agent' = NoKit /\ inlined' = FALSE
    /\ count' = NoCalls /\ ran' = NoCalls /\ failure' = "other"

NewMessage ==
    /\ phase = "ended" /\ asked < MaxAsked
    /\ asked' = asked + 1 /\ Forget
    /\ shown' = Fallback /\ wordless' = FALSE /\ toolErrors' = 0
    /\ UNCHANGED <<lean, vision>>

\* A slash command is answered at once; nothing follows if the publish fails.
HandleCommand ==
    /\ NewMessage
    /\ phase' = "ended"
    /\ \E ok \in BOOLEAN : outcome' = (IF ok THEN <<"done">> ELSE <<>>) /\ lost' = ~ok

\* loadOrCreateSession; without a session the message is given up silently.
LoadSession ==
    /\ NewMessage
    /\ outcome' = <<>>
    /\ \E ok \in BOOLEAN : phase' = (IF ok THEN "loaded" ELSE "ended") /\ lost' = ~ok

\* What a matcher finds in the message: by words, by similarity, or both.  The
\* embedding endpoint may fail; the hybrid then has the words alone.
KeywordMatch == SUBSET {"mcp"}
EmbeddingMatch == [ok : {TRUE}, names : SUBSET {"mcp"}] \cup [ok : {FALSE}, names : {{}}]
HybridMatch == {k \cup (IF e.ok THEN e.names ELSE {}) : k \in KeywordMatch, e \in EmbeddingMatch}
\* The MCP tools that the activated skills declare.
MatchSkillsByMessage == SUBSET {"mcp"}
\* A matcher's failure is ignored; the skills' tools come on top.
MatchedTools ==
    {m \cup s : m \in KeywordMatch \cup {e.names : e \in EmbeddingMatch} \cup HybridMatch,
               s \in MatchSkillsByMessage}
\* Lean mode binds the MCP tools that the message's words or skills match.
AssembleTools(matched) == [tools |-> IF lean THEN Native \cup matched ELSE Tool, wrapped |-> TRUE]

\* A small image is sent as it is, a large one only if it can be decoded.
PrepareVisionImage(small, decodes) == small \/ decodes
\* The first image of the message, if it can be fetched and encoded; otherwise
\* the message goes as text.
WithInlineImages ==
    {image /\ fetched /\ PrepareVisionImage(small, decodes) :
        image \in BOOLEAN, fetched \in BOOLEAN, small \in BOOLEAN, decodes \in BOOLEAN}

\* The input with or without the image's pixels, the prompt and the agent.
Prepare ==
    /\ phase = "loaded"
    /\ \E pixels \in WithInlineImages : inlined' = (pixels /\ vision)
    /\ \E matched \in MatchedTools : kit' = AssembleTools(matched)
    /\ agent' = kit' /\ attempt' = 1 /\ phase' = "running"
    /\ UNCHANGED <<lean, vision, asked, step, count, ran, failure, shown, wordless, outcome, toolErrors, lost>>
\* react.NewAgent refuses (agent_init_error).
InitFails ==
    /\ phase = "loaded"
    /\ phase' = "ended" /\ outcome' = Append(outcome, "error")
    /\ UNCHANGED <<lean, vision, asked, inlined, attempt, step, kit, agent, count, ran, failure,
                   shown, wordless, toolErrors, lost>>

Limit(t) == IF t = "skill_exec" THEN maxIdenticalSkillExecCalls ELSE maxIdenticalToolCalls
\* toolCallTracker.check
Exceeded(t) == count[t] + 1 > Limit(t)

\* A native tool's error is published (OnError of the tool callback) and ends
\* Generate.
ToolFails ==
    /\ phase' = "failed" /\ failure' \in {"transport", "other"}
    /\ outcome' = Append(outcome, "error") /\ toolErrors' = toolErrors + 1

\* The model calls a tool of the agent.  A wrapped tool that was called too
\* often answers by itself; an MCP tool turns its errors into results.
CallTool(t) ==
    /\ phase = "running" /\ step < MaxStep /\ t \in agent.tools
    /\ step' = step + 1
    /\ count' = IF agent.wrapped THEN [count EXCEPT ![t] = @ + 1] ELSE count
    /\ \/ /\ agent.wrapped /\ Exceeded(t)
          /\ UNCHANGED <<ran, phase, failure, outcome, toolErrors>>
       \/ /\ ~(agent.wrapped /\ Exceeded(t))
          /\ ran' = [ran EXCEPT ![t] = @ + 1]
          /\ \/ UNCHANGED <<phase, failure, outcome, toolErrors>>
             \/ t \in Native /\ ToolFails
    /\ UNCHANGED <<lean, vision, asked, inlined, attempt, kit, agent, shown, wordless, lost>>

\* The endpoint fails or refuses, the model calls what is not there, or the
\* steps are used up.
GenerateFails(f) ==
    /\ phase = "running"
    /\ f = "images" => inlined
    /\ step = MaxStep => f = "other"
    /\ phase' = "failed" /\ failure' = f
    /\ UNCHANGED <<lean, vision, asked, inlined, attempt, step, kit, agent, count, ran, shown,
                   wordless, outcome, toolErrors, lost>>

NextAttempt == attempt' = attempt + 1 /\ step' = 0 /\ phase' = "running"

\* The same attempt again, without the image; images are off from now on.
RetryWithoutImages ==
    /\ phase = "failed" /\ failure = "images" /\ inlined
    /\ vision' = FALSE /\ inlined' = FALSE /\ step' = 0 /\ phase' = "running"
    /\ UNCHANGED <<lean, asked, attempt, kit, agent, count, ran, failure, shown, wordless, outcome, toolErrors, lost>>

\* A transport error: wait ten seconds and build the agent from all current
\* tools, neither wrapped nor selected.  If that fails the old agent goes on.
RebuildAfterReconnect ==
    /\ phase = "failed" /\ failure = "transport" /\ attempt < maxLLMAttempts
    /\ kit' = [tools |-> Tool, wrapped |-> FALSE]
    /\ agent' \in {kit', agent}
    /\ NextAttempt
    /\ UNCHANGED <<lean, vision, asked, inlined, count, ran, failure, shown, wordless, outcome, toolErrors, lost>>

\* Mutant: the recovery hint comes with a new tracker.
RebuildAfresh ==
    /\ phase = "failed" /\ failure \in {"skill", "leak"} /\ attempt < maxLLMAttempts
    /\ agent' = kit /\ count' = NoCalls
    /\ NextAttempt
    /\ UNCHANGED <<lean, vision, asked, inlined, kit, ran, failure, shown, wordless, outcome, toolErrors, lost>>
\* A missing tool that is an MCP-only skill, or leaked template tokens: build
\* the agent again with a hint in the prompt.
RebuildWithHint ==
    /\ phase = "failed" /\ failure \in {"skill", "leak"} /\ attempt < maxLLMAttempts
    /\ agent' = kit
    /\ NextAttempt
    /\ UNCHANGED <<lean, vision, asked, inlined, kit, count, ran, failure, shown, wordless, outcome, toolErrors, lost>>

\* The failures that fall through to the backoff: what no branch above takes,
\* and the hints whose new agent cannot be built.
FallsThrough == attempt < maxLLMAttempts /\ ~(failure = "images" /\ inlined) /\ failure # "transport"
\* Mutant: every failed attempt is reported.
BackoffReports ==
    /\ phase = "failed" /\ FallsThrough
    /\ NextAttempt /\ outcome' = Append(outcome, "error")
    /\ UNCHANGED <<lean, vision, asked, inlined, kit, agent, count, ran, failure, shown, wordless, toolErrors, lost>>
Backoff ==
    /\ phase = "failed" /\ FallsThrough
    /\ NextAttempt
    /\ UNCHANGED <<lean, vision, asked, inlined, kit, agent, count, ran, failure, shown, wordless, outcome, toolErrors, lost>>
\* The agent is stopped while it waits: no event.
CancelledInBackoff ==
    /\ phase = "failed" /\ attempt < maxLLMAttempts /\ ~(failure = "images" /\ inlined)
    /\ phase' = "ended" /\ lost' = TRUE /\ Forget
    /\ UNCHANGED <<lean, vision, asked, shown, wordless, outcome, toolErrors>>
\* agent_run_error
GiveUp ==
    /\ phase = "failed" /\ attempt = maxLLMAttempts /\ ~(failure = "images" /\ inlined)
    /\ phase' = "ended" /\ outcome' = Append(outcome, "error") /\ Forget
    /\ UNCHANGED <<lean, vision, asked, shown, wordless, toolErrors, lost>>

----------------------------------------------------------------------------
\* The cleaning of an answer, in the order of handleMessage.

\* The segments of c that are not gone, in order.
Without(c, gone) ==
    LET upTo[i \in 0 .. Len(c)] ==
            IF i = 0 THEN <<>> ELSE IF c[i] \in gone THEN upTo[i - 1] ELSE Append(upTo[i - 1], c[i])
    IN  upTo[Len(c)]
\* stripThinkTags: closed blocks go, and all that follows an open one.
StripThinkTags(c) ==
    LET upTo == IF Contains(c, "open") THEN SelectInSeq(c, LAMBDA s : s = "open") - 1 ELSE Len(c)
    IN  Without(SubSeq(c, 1, upTo), {"think"})
StripChatTemplateTokens(c) == Without(c, {"token"})
IsGarbledOutput(c) == Contains(c, "junk")
\* isGarbledLine, isReasoningNarration
Noise == {"junk", "narration"}
\* salvageCleanSuffix: the paragraphs after the last filler or narration, if
\* they are at least ten runes together.
SalvageCleanSuffix(c) ==
    LET last == SelectLastInSeq(c, LAMBDA s : s \in Noise)
        tail == SubSeq(c, last + 1, Len(c))
    IN  IF Contains(tail, "text") THEN tail ELSE <<>>
\* An empty answer is replaced, before it is cleaned.
OrFallback(c) == IF c = <<>> THEN Fallback ELSE c
Clean(c) ==
    LET read == StripChatTemplateTokens(StripThinkTags(OrFallback(c)))
        good == SalvageCleanSuffix(read)
    IN  IF ~IsGarbledOutput(read) THEN read ELSE IF good # <<>> THEN good ELSE Fallback

\* Generate reads a stream to its end and joins the chunks; a stream of none
\* is an empty answer.
Answers == SeqOf(Segment, 2)
\* What the user is shown of an answer, and whether all it said was reasoning
\* or template tokens.
Wordless(c) == c # <<>> /\ ToSet(StripThinkTags(c)) \subseteq {"token"}
Readings == {[shown |-> Clean(c), wordless |-> Wordless(c)] : c \in Answers}

\* The model answers: the answer is cleaned, both lines are appended and the
\* metadata updated (SessionStore), and done is published last.
GenerateAnswers(r) ==
    /\ phase = "running"
    /\ shown' = r.shown /\ wordless' = r.wordless
    /\ phase' = "answered" /\ Forget
    /\ UNCHANGED <<lean, vision, asked, outcome, toolErrors, lost>>
PublishDone ==
    /\ phase = "answered" /\ phase' = "ended"
    /\ \E ok \in BOOLEAN : outcome' = (IF ok THEN Append(outcome, "done") ELSE outcome) /\ lost' = ~ok
    /\ UNCHANGED <<lean, vision, asked, inlined, attempt, step, kit, agent, count, ran, failure,
                   shown, wordless, toolErrors>>

Recovers == RetryWithoutImages \/ RebuildAfterReconnect \/ RebuildWithHint \/ Backoff \/ CancelledInBackoff \/ GiveUp
TurnNext ==
    \/ HandleCommand \/ LoadSession \/ Prepare \/ InitFails \/ Recovers \/ PublishDone
    \/ \E t \in Tool : CallTool(t)
    \/ \E f \in Failure : GenerateFails(f)
    \/ \E r \in Readings : GenerateAnswers(r)

TurnTypeOK ==
    /\ phase \in {"ended", "loaded", "running", "failed", "answered"} /\ asked \in 0 .. MaxAsked
    /\ attempt \in 0 .. maxLLMAttempts /\ step \in 0 .. MaxStep /\ kit \in Kit /\ agent \in Kit
    /\ ran \in [Tool -> Nat] /\ count \in [Tool -> Nat] /\ failure \in Failure
    /\ outcome \in Seq({"done", "error"})

\* The events of a message: one when it is over, none before, besides one
\* error for each native tool that failed (handleMessage, buildToolCallback).
OneEventPerTurn ==
    /\ phase # "ended" => Len(outcome) = toolErrors
    /\ (phase = "ended" /\ ~lost) => Len(outcome) = toolErrors + 1

\* A message ends with exactly one done or error event, however many attempts
\* and recoveries it took, besides one error for each native tool that failed
\* (each of those takes a delivery context of the dispatcher); none is
\* published before the end, and a done event has a text unless all the model
\* said was reasoning or template tokens (handleMessage, buildToolCallback).
OneOutcomePerTurn ==
    /\ OneEventPerTurn
    /\ (phase = "ended" /\ shown = <<>>) => wordless

\* A call with the same arguments reaches its tool at most four times in one
\* message (skill_exec twice), over all attempts, unless the agent was rebuilt
\* after a transport error (dedupTool; runtime.go rebuilds without it).
RepeatsAreBounded == agent.wrapped => \A t \in Tool : ran[t] <= Limit(t)
=============================================================================
