-------------------------- MODULE MCProfileService --------------------------
(***************************************************************************)
(* Small instances of ProfileService for TLC.                              *)
(***************************************************************************)
EXTENDS ProfileService, TLC

CONSTANTS Hello  \* the one sanitised, non-empty text

\* Markup as bio sanitises to the empty text; a URL may have markup in it.
Good == [first_name |-> Hello, bio |-> Markup, website |-> Tagged]
Bad  == [first_name |-> Empty, bio |-> Null,   website |-> Null]
MCCreateBodies == { Good, Bad }

\* No valid key, a NULL for a NOT NULL column, texts to be cleaned.
MCPatchBodies ==
    { [k \in {"other"} |-> Hello],
      [k \in {"first_name"} |-> Null],
      [k \in {"bio", "website"} |-> Tagged] }

\* Two good profiles; one good behind a bad one; only a bad one.
MCBulkBodies == { <<Good, Good>>, <<Bad, Good>>, <<Bad>> }

Symmetry == Permutations(Workers) \cup Permutations(Ids) \cup Permutations(Users)
=============================================================================
