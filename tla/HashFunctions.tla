--------------------------- MODULE HashFunctions ---------------------------
(***************************************************************************)
(* The two hash functions of kernel/hash.c, for keys whose characters are  *)
(* below 128 and strings too short for the hash to overflow.               *)
(***************************************************************************)
EXTENDS Integers, SequencesExt, Bitwise

hash_direct_hfunc(key) == key

hash_string_hfunc(s) == FoldLeft(LAMBDA hash, c : (hash * 33) ^^ c, 5381, s)
=============================================================================
