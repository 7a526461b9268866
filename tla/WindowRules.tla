----------------------------- MODULE WindowRules -----------------------------
(***************************************************************************)
(* The rules for windows (window_filter.rs): which windows a rule applies  *)
(* to, which rule of a list decides, and what is left of a rule that was   *)
(* written to the XML of the older program and read again.                 *)
(*                                                                         *)
(* A text is a sequence of characters, an Option is a set of at most one   *)
(* element, indexes are zero-based as in the code.                         *)
(***************************************************************************)
EXTENDS Integers, Sequences, FiniteSets, SequencesExt

Some(v) == {v}
None == {}

Newline == "\n"
Return == "\r"
-----------------------------------------------------------------------------
(* IntegerRange.contains: a bound that is not there allows everything. *)
Allows(range, value) ==
    /\ \A lower \in range.lower_bound : lower <= value
    /\ \A upper \in range.upper_bound : value <= upper

Anything == [lower_bound |-> None, upper_bound |-> None]

(* The text without some characters. *)
Without(text, characters) ==
    LET Rest[k \in 0..Len(text)] ==
            IF k = 0 THEN <<>>
            ELSE IF text[k] \in characters THEN Rest[k - 1]
            ELSE Append(Rest[k - 1], text[k])
    IN Rest[Len(text)]

(* The last character of a line that is not a carriage return. *)
TrimEnd(line) ==
    LET kept == {i \in 1..Len(line) : line[i] # Return}
    IN SubSeq(line, 1, IF kept = {} THEN 0 ELSE CHOOSE i \in kept : \A j \in kept : j <= i)

(* Lines that go on with a character. *)
GoOn(lines, c) ==
    IF c = Newline THEN Append(lines, <<>>)
    ELSE [lines EXCEPT ![Len(lines)] = Append(@, c)]

(* The parts of a text between its newlines: at least one. *)
SplitLines(text) ==
    LET Lines[k \in 0..Len(text)] ==
            IF k = 0 THEN <<<<>>>> ELSE GoOn(Lines[k - 1], text[k])
    IN Lines[Len(text)]

(* split_newline_glob *)
SplitNewlineGlob(pattern) ==
    LET lines == SplitLines(pattern) IN [k \in DOMAIN lines |-> TrimEnd(lines[k])]

OccursAt(line, text, start) ==
    /\ start + Len(line) <= Len(text)
    /\ SubSeq(text, start + 1, start + Len(line)) = line

StripPrefix(text, line) ==
    IF OccursAt(line, text, 0) THEN Some(SubSeq(text, Len(line) + 1, Len(text))) ELSE None

StripSuffix(text, line) ==
    LET start == Len(text) - Len(line)
    IN IF start >= 0 /\ OccursAt(line, text, start) THEN Some(SubSeq(text, 1, start)) ELSE None

(* Mutant: what follows the last occurrence of the line. *)
AfterLast(text, line) ==
    LET starts == {i \in 0..Len(text) : OccursAt(line, text, i)}
    IN { SubSeq(text, i + Len(line) + 1, Len(text)) :
            i \in {i \in starts : \A j \in starts : j <= i} }

(* split_once: what follows the first occurrence of the line. *)
After(text, line) ==
    LET starts == {i \in 0..Len(text) : OccursAt(line, text, i)}
    IN { SubSeq(text, i + Len(line) + 1, Len(text)) :
            i \in {i \in starts : \A j \in starts : i <= j} }

FindNext(rests, line) == UNION {After(rest, line) : rest \in rests}

(* The first line is stripped from the start of the text, the last from    *)
(* the end of what is left, the others are looked for in between.          *)
LinesAreIn(lines, text) ==
    LET first == StripPrefix(text, lines[1])
        ends == UNION {StripSuffix(rest, lines[Len(lines)]) : rest \in first}
        Left[k \in 0..Len(lines) - 2] ==
            IF k = 0 THEN ends ELSE FindNext(Left[k - 1], lines[k + 1])
    IN  IF Len(lines) = 1 THEN first = Some(<<>>) ELSE Left[Len(lines) - 2] # None

(* check_newline_glob *)
CheckNewlineGlob(pattern, text) ==
    \/ pattern \in {<<Newline>>, <<Return, Newline>>}
    \/ LinesAreIn(SplitNewlineGlob(pattern), text)
-----------------------------------------------------------------------------
FilterActions == {"Move", "UnpinAndMove", "Unpin", "Pin", "Nothing", "Disabled"}

(* WindowFilter::default *)
DefaultFilter ==
    [window_index |-> Anything, desktop_index |-> Anything,
     window_title |-> <<Newline>>, process_name |-> <<Newline>>,
     action |-> "Disabled", target_desktop |-> 0]

(* check_window: a window that is on no desktop of its own, as it is       *)
(* pinned, passes every range of desktops.                                 *)
CheckWindow(filter, window_index, window) ==
    /\ Allows(filter.window_index, window_index)
    /\ \A index \in window.desktop : Allows(filter.desktop_index, index)
    /\ CheckNewlineGlob(filter.window_title, window.title)
    /\ CheckNewlineGlob(filter.process_name, window.process_name)

(* The rules that apply to a window, disabled ones too; `checked` are those *)
(* for which check_window is true.                                         *)
ActiveFilters(filters, checked) == {i \in DOMAIN filters : filters[i] \in checked}

(* find_first_action, as the place of the rule. *)
FindFirstAction(filters, checked) ==
    LET enabled == {i \in ActiveFilters(filters, checked) : filters[i].action # "Disabled"}
    IN {i \in enabled : \A j \in enabled : i <= j}
-----------------------------------------------------------------------------
(* The numbers of the XML: -1 stands for none. *)
ToNumber(bound) == IF bound = None THEN -1 ELSE CHOOSE v \in bound : TRUE
FromNumber(v) == IF v >= 0 THEN Some(v) ELSE None

JoinLines(lines) ==
    LET Joined[k \in 0..Len(lines) - 1] ==
            IF k = 0 THEN lines[1] ELSE Joined[k - 1] \o <<Newline>> \o lines[k + 1]
    IN Joined[Len(lines) - 1]

(* serialize_to_xml, for one rule. *)
ToXml(filter) ==
    LET moves == filter.action \in {"Move", "UnpinAndMove"} IN
    [index |-> [lower |-> ToNumber(filter.window_index.lower_bound),
                upper |-> ToNumber(filter.window_index.upper_bound)],
     desktop |-> [lower |-> ToNumber(filter.desktop_index.lower_bound),
                  upper |-> ToNumber(filter.desktop_index.upper_bound)],
     title |-> SplitLines(Without(filter.window_title, {Return})),
     process |-> SplitLines(Without(filter.process_name, {Return})),
     allow_unpin |-> filter.action \in {"Unpin", "UnpinAndMove"},
     should_pin |-> filter.action = "Pin",
     target |-> IF moves \/ filter.action = "Pin" THEN filter.target_desktop ELSE -1]

(* Mutant: a target is looked for before pinning is. *)
TargetFirst(xml) ==
    IF xml.target >= 0 THEN IF xml.allow_unpin THEN "UnpinAndMove" ELSE "Move"
    ELSE IF xml.should_pin THEN "Pin"
    ELSE IF xml.allow_unpin THEN "Unpin" ELSE "Disabled"

(* The action that desktopTargetAdv stands for. *)
XmlAction(xml) ==
    IF xml.should_pin THEN "Pin"
    ELSE IF xml.target >= 0 THEN IF xml.allow_unpin THEN "UnpinAndMove" ELSE "Move"
    ELSE IF xml.allow_unpin THEN "Unpin" ELSE "Disabled"

(* deserialize_from_xml, for one rule that has a desktopTargetAdv.  A      *)
(* title of one empty line allows every title, as the older program had it.*)
FromXml(xml) ==
    [window_index |-> [lower_bound |-> FromNumber(xml.index.lower),
                       upper_bound |-> FromNumber(xml.index.upper)],
     desktop_index |-> [lower_bound |-> FromNumber(xml.desktop.lower),
                        upper_bound |-> FromNumber(xml.desktop.upper)],
     window_title |-> IF xml.title = <<<<>>>> THEN <<Newline>> ELSE JoinLines(xml.title),
     process_name |-> JoinLines(xml.process),
     action |-> XmlAction(xml),
     target_desktop |-> IF xml.target >= 0 THEN xml.target ELSE 0]
=============================================================================
