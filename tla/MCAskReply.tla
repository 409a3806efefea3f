---------------------------- MODULE MCAskReply -----------------------------
(***************************************************************************)
(* Instances of AskReply for TLC: the sets of asker commands its runs use. *)
(***************************************************************************)
EXTENDS AskReply

AllCommands == {"new", "mcpnew", "follow", "mcpfollow", "poll", "await", "close"}
OneAsk == {"new"}
=============================================================================
