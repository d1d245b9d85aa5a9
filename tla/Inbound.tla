------------------------------- MODULE Inbound -------------------------------
(***************************************************************************)
(* What a channel's payload becomes and where its answer goes: the webhook *)
(* endpoints (internal/gateway/webhook.go), the normalizers and the target *)
(* selection of the delivery clients of WhatsApp, Slack, MQTT and the      *)
(* RabbitMQ channel (internal/channels).  One payload is followed from its *)
(* arrival to the address its answer is posted to, and what the channel    *)
(* sends back for that post is a payload again.                            *)
(***************************************************************************)
EXTENDS Naturals, Sequences

CONSTANTS Person, Room,                     \* people and groups on WhatsApp
          SlackUser, Conversation, Thread,  \* on Slack
          User, Address                     \* of MQTT and RabbitMQ, and where they want answers

None == "none"

ASSUME InboundAssumption ==
    None \notin UNION {Person, Room, SlackUser, Conversation, Thread, User, Address}

VARIABLES payload,  \* what the channel sent
          inbound,  \* "waiting", "refused", "ignored", "rejected", "routed" or "answered"
          message,  \* the NipperMessage, as far as the answer needs it
          target,   \* where the answer went
          echoed    \* the payload is the channel's copy of our own answer

inboundVars == <<payload, inbound, message, target, echoed>>

(***************************************************************************)
(* WhatsApp.  An address is a number and a domain; a person has a phone    *)
(* number and, under the newer addressing, a "lid"; device suffixes are    *)
(* stripped from every address before it is used.                          *)
(***************************************************************************)

Jid(number, domain) == [number |-> number, domain |-> domain]
NoJid == Jid(<<None, None>>, None)
Phone(w) == Jid(<<"phone", w>>, "s.whatsapp.net")
Lid(w) == Jid(<<"lid", w>>, "lid")
Group(r) == Jid(<<"group", r>>, "g.us")

\* The nested MessageSource wins over the flat fields, SenderAlt over both.
ResolvedChat(i) == IF i.source.chat # NoJid THEN i.source.chat ELSE i.flat.chat
ResolvedSender(i) ==
    IF i.senderAlt # NoJid THEN i.senderAlt
    ELSE IF i.source.sender # NoJid THEN i.source.sender ELSE i.flat.sender
ResolvedIsFromMe(i) == IF i.source.chat # NoJid THEN i.source.fromMe ELSE i.flat.fromMe

\* Mutant: a chat under the newer addressing is answered as it is.
TargetIsChat(m) == m.chat
\* Groups and phone numbers are answered where they wrote; any other chat
\* falls back to the sender.
ResolveTargetJID(m) ==
    IF m.chat.domain \in {"g.us", "s.whatsapp.net"} THEN m.chat
    ELSE IF m.sender # NoJid THEN m.sender ELSE m.chat

\* The first kind of content present; anything else is routed without text.
ContentOrder == <<"conversation", "extendedText", "image", "audio", "video", "document", "sticker",
                  "location", "contact">>
ExtractContent(kinds) ==
    LET present == SelectSeq(ContentOrder, LAMBDA k : k \in kinds)
    IN IF present = <<>> THEN "empty" ELSE Head(present)
BuildMediaContent(kinds, s3) ==
    IF ExtractContent(kinds) \in {"image", "sticker"} /\ s3 THEN "image" ELSE None

NormalizeWhatsApp(p) ==
    [user |-> ResolvedSender(p.info), chat |-> ResolvedChat(p.info), sender |-> ResolvedSender(p.info),
     content |-> ExtractContent(p.kinds), media |-> BuildMediaContent(p.kinds, p.s3)]

Source(chat, sender, me) == [chat |-> chat, sender |-> sender, fromMe |-> me]
NoSource == Source(NoJid, NoJid, FALSE)
\* Sources the bridge can report for a person w who writes in a room, or in a
\* direct chat (None), by phone or lid.
Sources(w, room) ==
    IF room # None THEN {Source(Group(room), s, FALSE) : s \in {Phone(w), Lid(w)}}
    ELSE {Source(Phone(w), Phone(w), FALSE), Source(Lid(w), Phone(w), FALSE), Source(Lid(w), Lid(w), FALSE)}
\* The source is nested or flat.
Infos(w, room) ==
    {[source |-> x, flat |-> NoSource, senderAlt |-> a] : x \in Sources(w, room), a \in {NoJid, Phone(w)}}
    \cup
    {[source |-> NoSource, flat |-> x, senderAlt |-> a] : x \in Sources(w, room), a \in {NoJid, Phone(w)}}
WrittenBy(w, room) ==
    {[channel |-> "whatsapp", from |-> w, room |-> room, event |-> e, info |-> i, kinds |-> k, s3 |-> s3] :
        e \in {"Message", "ReadReceipt"}, i \in Infos(w, room), s3 \in BOOLEAN,
        k \in {{"conversation"}, {"extendedText", "image"}, {"image"}, {"sticker"}, {"audio"}, {"poll"}}}
WhatsAppPayloads == UNION {WrittenBy(w, room) : w \in Person, room \in Room \cup {None}}

(***************************************************************************)
(* Slack.                                                                  *)
(***************************************************************************)

\* Messages of people only: no bots, no edits, joins or file notices.
IsUserMessage(p) ==
    /\ p.event = "message" /\ p.bot = None /\ p.user # None
    /\ p.subtype \notin {"message_changed", "file_share"}
NormalizeSlack(p) ==
    [user |-> p.user, chat |-> p.conversation, thread |-> p.thread,
     content |-> IF p.files THEN "files" ELSE "text", media |-> None]
SlackPayloads ==
    {[channel |-> "slack", event |-> e, subtype |-> s, bot |-> None, user |-> u,
      conversation |-> c, thread |-> t, files |-> f] :
        e \in {"message", "reaction_added", "url_verification"}, f \in BOOLEAN,
        s \in {None, "message_changed", "file_share"}, u \in SlackUser \cup {None},
        c \in Conversation, t \in Thread \cup {None}}

(***************************************************************************)
(* MQTT and RabbitMQ.  The user is the one in the topic; RabbitMQ asks a   *)
(* header, the routing key and the queue's name, in this order.            *)
(***************************************************************************)

ResolveUserID(p) ==
    IF p.header # None THEN p.header ELSE IF p.routingKey # None THEN p.routingKey ELSE p.queue
NormalizeMQTT(p) == [user |-> p.topic, replyTo |-> p.responseTopic, content |-> p.text, media |-> None]
NormalizeRabbitMQ(p) ==
    [user |-> ResolveUserID(p), content |-> p.text, media |-> None,
     replyTo |-> IF p.replyTo # None THEN p.replyTo ELSE p.replyHeader]
MQTTPayloads ==
    {[channel |-> "mqtt", text |-> x, topic |-> t, responseTopic |-> r] :
        x \in {"text", "empty", "malformed"}, t \in User \cup {None}, r \in Address \cup {None}}
RabbitMQPayloads ==
    {[channel |-> "rabbitmq", text |-> x, header |-> h, routingKey |-> k, queue |-> q, replyTo |-> r,
      replyHeader |-> rh] :
        x \in {"text", "empty", "malformed"}, h \in User \cup {None}, k \in User \cup {None},
        q \in User \cup {None}, r \in Address \cup {None}, rh \in Address \cup {None}}

(***************************************************************************)
(* The path of a payload.                                                  *)
(***************************************************************************)

NoMessage == [user |-> None]
Payloads == WhatsAppPayloads \cup SlackPayloads \cup MQTTPayloads \cup RabbitMQPayloads
InboundInit ==
    /\ payload \in Payloads
    /\ inbound = "waiting" /\ message = NoMessage /\ target = <<>> /\ echoed = FALSE

Ends(how) == inbound = "waiting" /\ inbound' = how /\ UNCHANGED <<payload, message, target, echoed>>
Routes(m) == inbound = "waiting" /\ inbound' = "routed" /\ message' = m /\ UNCHANGED <<payload, target, echoed>>

\* The signature does not match: 401 and nothing else.
VerifySignature == payload.channel \in {"whatsapp", "slack"} /\ ~echoed /\ Ends("refused")

HandleWebhookWhatsApp ==
    /\ payload.channel = "whatsapp"
    /\ IF payload.event = "Message" /\ ~ResolvedIsFromMe(payload.info)
       THEN Routes(NormalizeWhatsApp(payload)) ELSE Ends("ignored")
HandleWebhookSlack ==
    /\ payload.channel = "slack"
    /\ IF IsUserMessage(payload) THEN Routes(NormalizeSlack(payload)) ELSE Ends("ignored")
\* The topic is looked at before the payload.
OnMessage ==
    /\ payload.channel = "mqtt"
    /\ CASE payload.topic = None \/ payload.text = "malformed" -> Ends("rejected")
         [] payload.topic # None /\ payload.text = "empty" -> Ends("ignored")
         [] OTHER -> Routes(NormalizeMQTT(payload))
\* The text is looked at before the user.
HandleDelivery ==
    /\ payload.channel = "rabbitmq"
    /\ CASE payload.text = "malformed" -> Ends("rejected")
         [] payload.text = "empty" -> Ends("ignored")
         [] payload.text = "text" /\ ResolveUserID(payload) = None -> Ends("rejected")
         [] OTHER -> Routes(NormalizeRabbitMQ(payload))

ResolveTarget(m) ==
    CASE payload.channel = "whatsapp" -> <<"number", ResolveTargetJID(m).number>>  \* phoneFromJID
      [] payload.channel = "slack" -> <<m.chat, m.thread>>
      [] OTHER -> IF m.replyTo # None THEN <<"reply", m.replyTo>> ELSE <<"outbox", m.user>>
Answer ==
    /\ inbound = "routed"
    /\ inbound' = "answered" /\ target' = ResolveTarget(message)
    /\ UNCHANGED <<payload, message, echoed>>

\* WhatsApp and Slack report our own post back, in the layout of the original.
Echo ==
    /\ inbound = "answered" /\ ~echoed /\ payload.channel \in {"whatsapp", "slack"}
    /\ echoed' = TRUE /\ inbound' = "waiting"
    /\ payload' = IF payload.channel = "slack" THEN [payload EXCEPT !.bot = "B1"]
                  ELSE [payload EXCEPT !.info.source.fromMe = (@ \/ payload.info.source # NoSource),
                                       !.info.flat.fromMe = (@ \/ payload.info.flat # NoSource)]
    /\ message' = NoMessage /\ target' = <<>>

InboundNext ==
    \/ VerifySignature \/ HandleWebhookWhatsApp \/ HandleWebhookSlack \/ OnMessage \/ HandleDelivery
    \/ Answer \/ Echo

InboundTypeOK ==
    /\ inbound \in {"waiting", "refused", "ignored", "rejected", "routed", "answered"}
    /\ echoed \in BOOLEAN

\* An answer goes back to the conversation it answers and to nobody else's:
\* the WhatsApp group, or the phone of the person who wrote, the Slack channel
\* and thread, one of the reply addresses the message asked for or the outbox
\* of a user it names; and our own answer, reported back by the channel, is
\* never taken for a message (NormalizeInbound, resolveTargetJID,
\* resolveTarget).  Only a person known by a lid alone is answered at the
\* number of the lid.
ByPhone(p) == Phone(p.from) \in {p.info.senderAlt, ResolvedChat(p.info), ResolvedSender(p.info)}
Home(p) ==
    IF p.room # None THEN Group(p.room) ELSE IF ByPhone(p) THEN Phone(p.from) ELSE Lid(p.from)
Asked(p) == (IF p.channel = "mqtt" THEN {p.responseTopic} ELSE {p.replyTo, p.replyHeader}) \ {None}
Named(p) == (IF p.channel = "mqtt" THEN {p.topic} ELSE {p.header, p.routingKey, p.queue}) \ {None}
AnswersGoHome ==
    /\ echoed => inbound \in {"waiting", "ignored"}
    /\ inbound = "answered" =>
        CASE payload.channel = "whatsapp" -> target = <<"number", Home(payload).number>>
          [] payload.channel = "slack" -> target = <<payload.conversation, payload.thread>>
          [] OTHER -> IF Asked(payload) = {} THEN target[1] = "outbox" /\ target[2] \in Named(payload)
                      ELSE target[1] = "reply" /\ target[2] \in Asked(payload)
=============================================================================
