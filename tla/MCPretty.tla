------------------------------ MODULE MCPretty ------------------------------
(* Pretty for TLC: a short and a long word, and a keyword longer than both. *)
EXTENDS PrettyLayouts, TLC

MCDocuments == Any
MCLeaves == {Text("a", 1), Text("bb", 2)}
MCLabels == {Text("KEY", 3)}
=============================================================================
