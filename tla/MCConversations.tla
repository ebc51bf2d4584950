--------------------------- MODULE MCConversations ---------------------------
(***************************************************************************)
(* Chats t and u on Telegram, d on Discord.                                *)
(***************************************************************************)
EXTENDS Conversations
=============================================================================
