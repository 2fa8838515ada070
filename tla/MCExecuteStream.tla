--------------------------- MODULE MCExecuteStream ---------------------------
(* Four events, read one to three at a time, and room for two body pieces. *)
EXTENDS ExecuteStream

MCPieces == 1..4
MCSource == <<1, 2, 3, 4>>
=============================================================================
