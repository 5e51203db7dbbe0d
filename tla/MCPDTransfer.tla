------------------------------ MODULE MCPDTransfer ------------------------------
(***************************************************************************)
(* Four requests, a decode worker of three blocks of two tokens: the first *)
(* request grows into a block the second waits for, the third fills the    *)
(* worker alone; the last one may end with its first token.                *)
(***************************************************************************)
EXTENDS PDTransfer

MCPrompt == <<2, 3, 5, 1>>
MCLimits == {<<3, 2, 2, 2>>, <<3, 2, 2, 1>>}
=============================================================================
