--------------------------- MODULE MCConversations ---------------------------
(* A small instance of Conversations: ann writes to the bot in two chats,   *)
(* and shares one of them with bob; she has written to it before.           *)
EXTENDS Conversations

SharedGroup == {<<"ann", "group">>, <<"ann", "private">>, <<"bob", "group">>}
Ann == <<"ann">>
=============================================================================
