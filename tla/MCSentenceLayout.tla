-------------------------- MODULE MCSentenceLayout --------------------------
(***************************************************************************)
(* SentenceLayout for TLC: two words, and phrases that begin with one      *)
(* another at a distance of two words, and overlap.                        *)
(***************************************************************************)
EXTENDS SentenceLayout, TLC

CONSTANTS a, b

MCPhrases == {<<a, b>>, <<b, a>>, <<a, b, a, a>>}
=============================================================================
