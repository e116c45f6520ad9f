--------------------------- MODULE MCLangServerPool ---------------------------
(* Small instances of LangServerPool. *)
EXTENDS LangServerPool

CONSTANTS default, c1, s1
=============================================================================
