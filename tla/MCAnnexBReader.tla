--------------------------- MODULE MCAnnexBReader ----------------------------
(* AnnexBReader for TLC: every stream up to MaxLen bytes, every chunking.   *)
EXTENDS AnnexBReader
==============================================================================
