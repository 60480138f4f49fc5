----------------------------- MODULE ScriptSizes -----------------------------
(***************************************************************************)
(* The sizes that tell the standard scripts from others.                   *)
(***************************************************************************)
CONSTANTS
  HashSize,       \* bytes of a short hash (20)
  LongHashSize,   \* bytes of a long hash (32)
  MaxPush         \* the longest push with a length byte only (75)
=============================================================================
