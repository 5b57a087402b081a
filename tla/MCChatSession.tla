---------------------------- MODULE MCChatSession ----------------------------
EXTENDS ChatSession
=============================================================================
