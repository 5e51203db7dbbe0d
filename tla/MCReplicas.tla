-------------------------------- MODULE MCReplicas -------------------------------
(***************************************************************************)
(* Two replicas of three blocks of two tokens, and four requests: the      *)
(* second token of a two-token prompt needs a new block, the first and the *)
(* third prompt share their first block, the third fills a replica.        *)
(***************************************************************************)
EXTENDS Replicas

MCPrompt == <<3, 2, 5, 2>>
MCLimit == <<2, 2, 1, 1>>
MCPrefixGroup == <<1, 2, 1, 3>>
MCRouters == {"round_robin", "resource_aware", "prefix_aware"}
=============================================================================
