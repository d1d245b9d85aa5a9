---------------------------- MODULE MCSessionStore ----------------------------
(***************************************************************************)
(* Instances of SessionStore for TLC: chat turns, /compact and /new,       *)
(* delivered in any order.                                                 *)
(***************************************************************************)
EXTENDS SessionStore

CONSTANTS chat1, chat2, compact1, new1, new2

KindByName(T) == [t \in T |->
    CASE t \in {chat1, chat2} -> "chat"
      [] t = compact1 -> "compact"
      [] t \in {new1, new2} -> "new"]

\* Everything once, and two chats so that a compaction has something to cut.
MCTurn == {chat1, chat2, compact1, new1}
MCKindOf == KindByName(MCTurn)

\* Two /new after a chat.
TwoNewTurn == {chat1, new1, new2}
TwoNewKindOf == KindByName(TwoNewTurn)

\* Chats only: compaction happens by itself.
ChatTurn == {chat1, chat2}
ChatKindOf == KindByName(ChatTurn)
=============================================================================
