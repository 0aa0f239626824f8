---------------------------- MODULE MCMcpClient -----------------------------
EXTENDS McpClient

CONSTANTS c1, c2
MCCallers == {c1, c2}
=============================================================================
