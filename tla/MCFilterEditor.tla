--------------------------- MODULE MCFilterEditor ---------------------------
(***************************************************************************)
(* FilterEditor on small instances: two titles and three actions, so that  *)
(* the list can be sorted and rules differ in what the panel does and does *)
(* not announce; two rules to begin with and room for a third; a window    *)
(* that rules tell from another, pinned one.  Three inputs of the user are *)
(* enough to select, change and move a rule while windows are listed.      *)
(***************************************************************************)
EXTENDS FilterEditor

A == <<"a">>
Rule(title, action) == [DefaultFilter EXCEPT !.window_title = title, !.action = action]

MCRules == {DefaultFilter, Rule(<<Newline>>, "Pin"), Rule(A, "Move"), Rule(A, "Disabled")}
MCStartRules == <<Rule(<<Newline>>, "Pin"), Rule(A, "Move")>>
MCImportedRules == <<Rule(A, "Move")>>
MCTextOrder == <<<<Newline>>, A>>
MCOpenWindows == <<[title |-> A, process_name |-> A, desktop |-> Some(0)],
                   [title |-> <<>>, process_name |-> A, desktop |-> None]>>
=============================================================================
