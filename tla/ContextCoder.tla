---------------------------- MODULE ContextCoder ----------------------------
(***************************************************************************)
(* What the windowed model state promises: every symbol is coded under the *)
(* distribution of the current window of the tokens coded before it, as    *)
(* if that window had just been evaluated from nothing.  A byte escape is  *)
(* coded under it too and leaves the tokens as they are.                   *)
(***************************************************************************)
EXTENDS ContextWindow

CONSTANT Tokens

VARIABLES
  tokens,   \* the tokens coded so far
  used      \* the context the last symbol was coded under

cvars == <<tokens, used>>

Init == tokens = <<>> /\ used = <<>>

CodeToken(token) ==
  /\ used' = WindowOf(tokens)
  /\ tokens' = Append(tokens, token)

CodeEscape ==
  /\ used' = WindowOf(tokens)
  /\ UNCHANGED tokens

Next == (\E token \in Tokens : CodeToken(token)) \/ CodeEscape

Spec == Init /\ [][Next]_cvars
=============================================================================
