--------------------------- MODULE MCSystemMessages ---------------------------
(***************************************************************************)
(* Model checking instance of SystemMessages.                              *)
(***************************************************************************)
EXTENDS SystemMessages

CONSTANTS added, n1, n2

\* A template with words of its own and a name, and one that is just the name.
MCShows == [t \in Templates |-> {added}]

\* A contact is shown by its name, or else by its username.
MCProfiles == {[name |-> n1, username |-> n2], [name |-> Blank, username |-> n2]}
=============================================================================
