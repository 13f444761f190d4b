---------------------------- MODULE MCStructure -----------------------------
(***************************************************************************)
(* Two members, one with a role in a category, and two commands under way. *)
(***************************************************************************)
EXTENDS Structure

Alike == Permutations(Commands) \cup Permutations(Keys)

CategoryRole ==
    {Cap("create-channel", Network), Cap("manage-channel", 11), Cap("manage-channel", Network)}
=============================================================================
