---------------------------- MODULE MCTextFields ----------------------------
(***************************************************************************)
(* TextFields with two letters and one digit; shortcuts with a key that    *)
(* starts another, with no key, and none; and all titles of up to three    *)
(* letters, so that a pattern's lines can occur in more than one place.    *)
(***************************************************************************)
EXTENDS TextFields

MCLetters == {"a", "b"}
MCElsewhere ==
    {[key \in {} |-> 0], [key \in {<<>>} |-> 11],
     [key \in {<<>>, <<"a">>, <<"a", "b">>} |-> 1]}
MCTitles == UNION {[1..k -> MCLetters] : k \in 0..3}
=============================================================================
