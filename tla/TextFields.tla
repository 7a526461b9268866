----------------------------- MODULE TextFields -----------------------------
(***************************************************************************)
(* What the configuration window's texts are for: every text that gets     *)
(* into the field for shortcuts can also be written in a rule, as the      *)
(* pattern that titles have to match.  The operators of WindowRules are    *)
(* stated against what they are meant to compute, for these patterns.      *)
(***************************************************************************)
EXTENDS ShortcutsField

CONSTANTS
    Titles,         \* of windows, and names of processes
    Indexes         \* of desktops and windows in a rule

ASSUME TextFieldsAssumption ==
    /\ Titles \subseteq Seq(Letters \cup Digits \cup {Newline, Return})
    /\ Indexes \subseteq Nat
-----------------------------------------------------------------------------
(* The lines of the pattern have places in the text, in their order and    *)
(* without overlap, the first at the start and the last at the end.        *)
PlacedIn(lines, title) ==
    \E place \in [DOMAIN lines -> 0..Len(title)] :
        /\ place[1] = 0
        /\ place[Len(lines)] + Len(lines[Len(lines)]) = Len(title)
        /\ \A k \in DOMAIN lines : OccursAt(lines[k], title, place[k])
        /\ \A k \in 1..Len(lines) - 1 : place[k] + Len(lines[k]) <= place[k + 1]

(* A title matches a pattern iff it is the pattern's lines with anything   *)
(* between them: taking the ends first and the earliest place for each     *)
(* other line (TextPattern.check_newline_glob) misses no way to do it.     *)
GlobIsSplit ==
    \A title \in Titles :
        CheckNewlineGlob(text, title) <=>
            \/ text = <<Newline>> \/ text = <<Return, Newline>>
            \/ PlacedIn(SplitNewlineGlob(text), title)
-----------------------------------------------------------------------------
SameTitles(p, q) == \A title \in Titles : CheckNewlineGlob(p, title) <=> CheckNewlineGlob(q, title)

(* Carriage returns are only part of line ends. *)
IsPlain(pattern) ==
    \A i \in DOMAIN pattern :
        pattern[i] = Return => i < Len(pattern) /\ pattern[i + 1] = Newline

Bounds == {None} \cup {Some(index) : index \in Indexes}

(* What the rule does, and to windows with which indexes. *)
XmlKeepsActions ==
    \A action \in FilterActions, lower, upper \in Bounds, target \in Indexes :
        LET bounds == [lower_bound |-> lower, upper_bound |-> upper]
            read == FromXml(ToXml([DefaultFilter EXCEPT
                        !.window_index = bounds, !.desktop_index = bounds,
                        !.action = action, !.target_desktop = target]))
        IN /\ read.window_index = bounds /\ read.desktop_index = bounds
           /\ read.action = IF action = "Nothing" THEN "Disabled" ELSE action
           /\ action \in {"Move", "UnpinAndMove", "Pin"} => read.target_desktop = target

(* A rule that is exported to the older program's XML and imported again   *)
(* (serialize_to_xml, deserialize_from_xml) applies to the same windows    *)
(* and does the same to them; a rule that keeps windows where they are     *)
(* comes back disabled, and an empty title as one that allows every title. *)
XmlKeepsRules ==
    /\ IsPlain(text) =>
        LET read == FromXml(ToXml([DefaultFilter EXCEPT !.window_title = text,
                                                        !.process_name = text]))
        IN /\ text = <<>> \/ SameTitles(read.window_title, text)
           /\ SameTitles(read.process_name, text)
    /\ XmlKeepsActions
=============================================================================
