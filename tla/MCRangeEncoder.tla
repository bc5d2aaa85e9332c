--------------------------- MODULE MCRangeEncoder ---------------------------
EXTENDS RangeEncoder

\* Of a word of Digits digits; the document's 2^32 for the code's u64.
DocumentedThreshold == Base ^ (Digits \div 2)

(***************************************************************************)
(* detllm-design.md, section 8.1: renormalisation emits a digit when the   *)
(* range has fallen below 2^32.                                            *)
(***************************************************************************)
EmitsBelowDocumentedThreshold ==
  [][pc = "renorm" /\ out' # out => range < DocumentedThreshold]_vars
=============================================================================
