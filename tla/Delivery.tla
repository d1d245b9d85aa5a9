------------------------------- MODULE Delivery -------------------------------
(***************************************************************************)
(* From an agent's events to what the user sees: the dispatcher's text     *)
(* accumulator, typing flags, retries and cleanup loop                     *)
(* (internal/gateway/dispatcher.go) and the delivery clients of the        *)
(* channels (internal/channels/{slack,whatsapp,mqtt,rabbitmq}).  The event *)
(* consumer dispatches one event at a time; only the cleanup loop runs     *)
(* beside it.  One session of one channel is modelled; "broadcast" is a    *)
(* cron session that answers to a WhatsApp and a Slack identity.           *)
(***************************************************************************)
EXTENDS Naturals, Sequences, SequencesExt

CONSTANTS MaxTurns,      \* turns of the session
          MaxText,       \* characters of an answer
          ChunkLen,      \* characters WhatsApp takes in one message (4000)
          MaxRetries,    \* deliveryMaxRetries
          MaxPostFaults  \* bound on failing calls of a channel's API

ASSUME DeliveryAssumption ==
    /\ {MaxTurns, MaxText, ChunkLen, MaxRetries} \subseteq Nat \ {0}
    /\ MaxPostFaults \in Nat

VARIABLES via,        \* channel of the session
          turn,       \* number of the current turn
          stage,      \* "idle", "running" or "delivering"
          said,       \* the agent's answer in this turn
          sent,       \* how much of it went out as delta events
          known,      \* the registry has a delivery context for this turn
          image,      \* the inbound message had an image
          acc,        \* accumulated delta text of the session
          typingSent, \* the session's typing flag
          reaction,   \* turns whose message shows the typing reaction
          job,        \* delivery under way
          view,       \* what the user saw in the current attempt, by chunk number
          ended,      \* how the last turn ended
          postFaults,
          disturbed   \* history: turns the cleanup loop, a lost context or a failed call met

deliveryVars == <<via, turn, stage, said, sent, known, image, acc, typingSent, reaction,
                  job, view, ended, postFaults, disturbed>>

\* A character is the number of the turn it was written in; 0 is a newline.
Texts(t) == UNION {[1 .. n -> {0, t}] : n \in 1 .. MaxText}
Picture == <<MaxTurns + 1>>
NoJob == [to |-> <<>>, text |-> <<>>, chunks |-> <<>>, next |-> 1, attempt |-> 1, failed |-> FALSE]

DeliveryInit ==
    /\ via \in {"slack", "whatsapp", "mqtt", "rabbitmq", "broadcast"}
    /\ turn = 0 /\ stage = "idle" /\ said = <<>> /\ sent = 0 /\ known = FALSE /\ image = FALSE
    /\ acc = <<>> /\ typingSent = FALSE /\ reaction = {}
    /\ job = NoJob /\ view = <<>> /\ ended = "none" /\ postFaults = 0 /\ disturbed = {}

PostFault == postFaults < MaxPostFaults /\ postFaults' = postFaults + 1
Disturb == disturbed' = disturbed \cup {turn}

(***************************************************************************)
(* Events of a turn.                                                       *)
(***************************************************************************)

TurnStarts ==
    /\ stage = "idle" /\ turn < MaxTurns
    /\ turn' = turn + 1 /\ stage' = "running" /\ sent' = 0 /\ ended' = "none"
    /\ said' \in Texts(turn') /\ known' \in BOOLEAN /\ image' \in {FALSE, via = "whatsapp"}
    /\ job' = NoJob /\ view' = <<>>
    /\ disturbed' = IF known' THEN disturbed ELSE disturbed \cup {turn'}
    /\ UNCHANGED <<via, acc, typingSent, reaction, postFaults>>

\* Another terminal event, or a restart, took the context of this turn.
ContextGone ==
    /\ stage = "running" /\ known /\ known' = FALSE /\ Disturb
    /\ UNCHANGED <<via, turn, stage, said, sent, image, acc, typingSent, reaction, job, view, ended, postFaults>>

\* The first thinking or tool_start event; Slack shows a reaction, and the
\* flag is set whether the call succeeds or not.
MaybeSendTypingIndicator ==
    /\ stage = "running" /\ known /\ ~typingSent
    /\ typingSent' = TRUE
    /\ \/ reaction' = (IF via = "slack" THEN reaction \cup {turn} ELSE reaction) /\ UNCHANGED postFaults
       \/ UNCHANGED reaction /\ PostFault
    /\ UNCHANGED <<via, turn, stage, said, sent, known, image, acc, job, view, ended, disturbed>>

\* A channel without streaming accumulates; Slack's DeliverEvent does nothing,
\* because an event carries no Slack metadata.
HandleDelta ==
    /\ stage = "running" /\ sent < Len(said)
    /\ sent' = sent + 1
    /\ acc' = IF known /\ via # "slack" THEN Append(acc, said[sent']) ELSE acc
    /\ UNCHANGED <<via, turn, stage, said, known, image, typingSent, reaction, job, view, ended,
                   postFaults, disturbed>>

\* Mutant: the flag is dropped and the reaction stays.
ForgetTyping ==
    /\ typingSent' = FALSE
    /\ UNCHANGED <<reaction, postFaults, disturbed>>
\* Only a session with the flag has its reaction removed.
ClearTypingSent ==
    /\ typingSent' = FALSE
    /\ \/ /\ reaction' = IF typingSent THEN reaction \ {turn} ELSE reaction
          /\ UNCHANGED <<postFaults, disturbed>>
       \/ typingSent /\ via = "slack" /\ PostFault /\ Disturb /\ UNCHANGED reaction

\* The accumulated text, or else that of the done event; Slack takes the latter.
AssembleText == IF acc # <<>> /\ via # "slack" THEN acc ELSE said
\* One chunk off the text: all of it when it fits, else up to the last newline
\* that is not the first character, or up to the limit.  A newline at the cut
\* is left out.
CutChunk(s) ==
    LET newlines == {i \in 2 .. ChunkLen : s.text[i] = 0}
        cut == IF newlines = {} THEN ChunkLen
               ELSE (CHOOSE i \in newlines : \A j \in newlines : j <= i) - 1
        next == IF s.text[cut + 1] = 0 THEN cut + 2 ELSE cut + 1
    IN IF Len(s.text) <= ChunkLen THEN [chunks |-> Append(s.chunks, s.text), text |-> <<>>]
       ELSE [chunks |-> Append(s.chunks, SubSeq(s.text, 1, cut)), text |-> SubSeq(s.text, next, Len(s.text))]
\* A text within the limit is sent as it is; the loop ends when no text is left.
SplitTextChunks(s) ==
    LET loop[i \in 0 .. Len(s)] ==
            IF i = 0 THEN [chunks |-> <<>>, text |-> s]
            ELSE IF loop[i - 1].text = <<>> THEN loop[i - 1]
            ELSE CutChunk(loop[i - 1])
    IN IF Len(s) <= ChunkLen THEN <<s>> ELSE loop[Len(s)].chunks

\* Mutant: a text within the limit plus one is not split.
PostsUncut(channel, text) ==
    IF channel # "whatsapp" \/ Len(text) <= ChunkLen + 1 THEN <<text>>
    ELSE SplitTextChunks(text) \o (IF image /\ via = "whatsapp" THEN <<Picture>> ELSE <<>>)
\* What the client of a channel posts for a text, in order; WhatsApp gets the
\* inbound image back.
Posts(channel, text) ==
    IF channel # "whatsapp" THEN <<text>>
    ELSE SplitTextChunks(text) \o (IF image /\ via = "whatsapp" THEN <<Picture>> ELSE <<>>)
Deliver(to, text) ==
    /\ job' = [NoJob EXCEPT !.to = to, !.text = text, !.chunks = Posts(Head(to), text)]
    /\ view' = <<>> /\ stage' = "delivering"

\* A broadcast returns before the typing flag is looked at.
HandleDone ==
    /\ stage = "running" /\ known /\ sent \in {0, Len(said)}
    /\ known' = FALSE
    /\ IF via = "broadcast"
       THEN Deliver(<<"whatsapp", "slack">>, AssembleText)
            /\ UNCHANGED <<typingSent, reaction, postFaults, disturbed>>
       ELSE Deliver(<<via>>, AssembleText) /\ ClearTypingSent
    /\ UNCHANGED <<via, turn, said, sent, image, acc, ended>>
\* An error is delivered as text by the buffering channels.  Slack ignores it,
\* like every event, and the cron adapter delivers nothing.
HandleError ==
    /\ stage = "running" /\ known
    /\ known' = FALSE
    /\ ClearTypingSent
    /\ IF via \in {"slack", "broadcast"}
       THEN /\ stage' = "idle" /\ ended' = "ignored"
            /\ acc' = IF via = "slack" THEN acc ELSE <<>>
            /\ UNCHANGED <<said, sent, job, view>>
       ELSE /\ said' = <<turn>> /\ sent' = 0 /\ Deliver(<<via>>, <<turn>>)
            /\ UNCHANGED <<acc, ended>>
    /\ UNCHANGED <<via, turn, image>>
\* No context: the event is dropped, flag and accumulator stay as they are.
NoContext ==
    /\ stage = "running" /\ ~known
    /\ stage' = "idle" /\ ended' = "dropped"
    /\ disturbed' = IF acc # <<>> THEN disturbed \cup {turn, turn + 1} ELSE disturbed
    /\ UNCHANGED <<via, turn, said, sent, known, image, acc, typingSent, reaction, job, view, postFaults>>

(***************************************************************************)
(* deliverWithRetry and the clients' calls.                                *)
(***************************************************************************)

\* A call succeeds; the user may have seen an earlier try of it as well.
PostOK ==
    /\ stage = "delivering" /\ job.next <= Len(job.chunks)
    /\ job' = [job EXCEPT !.next = @ + 1]
    /\ \/ view' = Append(view, job.next) /\ UNCHANGED postFaults
       \/ view' = view \o <<job.next, job.next>> /\ PostFault
    /\ UNCHANGED <<via, turn, stage, said, sent, known, image, acc, typingSent, reaction, ended, disturbed>>
\* A call fails, seen or not: the remaining text is skipped, an image still sent.
PostFails ==
    /\ stage = "delivering" /\ job.next <= Len(job.chunks) /\ PostFault
    /\ job' = [job EXCEPT !.failed = TRUE,
                          !.next = IF job.chunks[Len(job.chunks)] = Picture /\ job.next < Len(job.chunks)
                                   THEN Len(job.chunks) ELSE Len(job.chunks) + 1]
    /\ view' \in {view, Append(view, job.next)}
    /\ UNCHANGED <<via, turn, stage, said, sent, known, image, acc, typingSent, reaction, ended, disturbed>>

AttemptOver == stage = "delivering" /\ job.next > Len(job.chunks)
\* The whole response again, from its first chunk.
Retry ==
    /\ AttemptOver /\ job.failed /\ job.attempt < MaxRetries
    /\ job' = [job EXCEPT !.attempt = @ + 1, !.next = 1, !.failed = FALSE]
    /\ view' = <<>>
    /\ UNCHANGED <<via, turn, stage, said, sent, known, image, acc, typingSent, reaction, ended,
                   postFaults, disturbed>>
\* Delivered or given up; then the next channel, or the accumulator is cleared.
DeliveryEnds ==
    /\ AttemptOver /\ (job.failed => job.attempt = MaxRetries)
    /\ IF Len(job.to) > 1
       THEN Deliver(Tail(job.to), job.text) /\ UNCHANGED <<acc, ended>>
       ELSE /\ stage' = "idle" /\ ended' = IF job.failed THEN "given up" ELSE "delivered"
            /\ acc' = IF via = "slack" THEN acc ELSE <<>>
            /\ UNCHANGED <<job, view>>
    /\ UNCHANGED <<via, turn, said, sent, known, image, typingSent, reaction, postFaults, disturbed>>

\* The cleanup loop: an accumulator may be older than five minutes, and the
\* flag of every session without one is dropped.
EvictStaleAccumulators ==
    /\ stage = "running" \/ acc # <<>> \/ typingSent
    /\ \E old \in BOOLEAN :
          /\ acc' = IF old THEN <<>> ELSE acc
          /\ typingSent' = (typingSent /\ acc' # <<>>)
    /\ acc' # acc \/ typingSent' # typingSent
    /\ Disturb
    /\ UNCHANGED <<via, turn, stage, said, sent, known, image, reaction, job, view, ended, postFaults>>

DeliveryNext ==
    \/ TurnStarts \/ ContextGone \/ MaybeSendTypingIndicator \/ HandleDelta
    \/ HandleDone \/ HandleError \/ NoContext
    \/ PostOK \/ PostFails \/ Retry \/ DeliveryEnds \/ EvictStaleAccumulators

DeliveryTypeOK ==
    /\ stage \in {"idle", "running", "delivering"} /\ turn \in 0 .. MaxTurns
    /\ {known, image, typingSent} \subseteq BOOLEAN
    /\ acc \in Seq(0 .. MaxTurns) /\ reaction \cup disturbed \subseteq 0 .. MaxTurns + 1
    /\ job.attempt \in 1 .. MaxRetries /\ postFaults \in 0 .. MaxPostFaults

\* A text without its newlines.
Letters(s) ==
    LET letters[i \in 0 .. Len(s)] ==
            IF i = 0 THEN <<>>
            ELSE IF s[i] = 0 THEN letters[i - 1]
            ELSE Append(letters[i - 1], s[i])
    IN letters[Len(s)]

\* The posts of a response but for the image at the end.
TextChunks(posts) ==
    IF posts[Len(posts)] = Picture THEN SubSeq(posts, 1, Len(posts) - 1) ELSE posts

\* When a delivery succeeds the user has seen the whole answer of this turn
\* and no other: every chunk in order in the last attempt, repeated at most,
\* the chunks within the channel's limit and together the text; unless the
\* cleanup loop or a lost context met the turn (handleBufferedEvent,
\* splitTextChunks, deliverWithRetry).
AnswersArriveWhole ==
    ended = "delivered" /\ turn \notin disturbed =>
        LET text == TextChunks(job.chunks)
        IN /\ Letters(FlattenSeq(text)) = Letters(said)
           /\ job.to = <<"whatsapp">> => \A i \in 1 .. Len(text) : Len(text[i]) <= ChunkLen
           /\ view[1] = 1 /\ view[Len(view)] = Len(job.chunks)
           /\ \A i \in 1 .. Len(view) - 1 : view[i + 1] \in {view[i], view[i] + 1}

\* The typing reaction of a turn is gone when the turn is over, done or
\* error, unless Slack refused the call, the context was lost or the cleanup
\* loop dropped the flag of a turn that had sent no text yet
\* (maybeSendTypingIndicator, clearTypingSent, evictStaleAccumulators).
TypingEnds == stage = "idle" => reaction \subseteq disturbed
=============================================================================
