---------------------------- MODULE MCPstWriter ----------------------------
(* Small stores for PstWriter: two message shapes and a table heap with    *)
(* room for two rows, so that the third message of a folder is refused.    *)
EXTENDS PstWriter

MCShapes == {[unread |-> TRUE, atts |-> <<>>], [unread |-> FALSE, atts |-> <<"file", "message">>]}
=============================================================================
