--------------------------- MODULE MCMcpUpstream ----------------------------
EXTENDS McpUpstream

CONSTANTS c1, A, B
MCCallers == {c1}
MCCatalogs == {A, B}
MCTransports == {"stdio", "sse"}
=============================================================================
