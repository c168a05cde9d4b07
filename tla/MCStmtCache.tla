---------------------------- MODULE MCStmtCache ----------------------------
(* StmtCache with two callers, three queries and room for two statements:  *)
(* a third query evicts.  A fourth handle lets both callers hold one that  *)
(* is not cached.                                                          *)
EXTENDS StmtCache

MCMaxCached == 2
=============================================================================
