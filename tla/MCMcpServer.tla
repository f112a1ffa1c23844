---------------------------- MODULE MCMcpServer ----------------------------
(* The three kinds of manager; the MCP server against a sidecar that checks *)
(* JWTs, with either behaviour of the decoder, or the shared secret.        *)
EXTENDS McpServer

Setup(m, g, s, e) == [manager |-> m, guard |-> g, strict |-> s, entitled |-> e]
MCSetups == {
    Setup("key", "open", TRUE, TRUE), Setup("sidecar", "open", TRUE, TRUE),
    Setup("mcp", "jwt", TRUE, TRUE), Setup("mcp", "jwt", FALSE, TRUE),
    Setup("mcp", "shared", FALSE, FALSE), Setup("mcp", "open", TRUE, FALSE)}
===========================================================================
