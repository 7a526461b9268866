--------------------------- MODULE ShortcutsField ---------------------------
(***************************************************************************)
(* The configuration window's field for the quick switch menu's shortcuts  *)
(* (program_settings.rs): a line for each key with the number of its       *)
(* desktop.  What the user types is parsed when the message about it is    *)
(* handled, and the settings that follow are written back to the field: if *)
(* the text has an error, what the settings were takes its place.          *)
(*                                                                         *)
(* Characters are one byte each.  Indexes of the selection are zero-based. *)
(* Keys that others set are of letters: a settings file edited by hand     *)
(* could hold digits or line ends, which would be read back differently.   *)
(***************************************************************************)
EXTENDS WindowRules

CONSTANTS
    Letters,        \* what the keys are made of
    TypedDigits,    \* the digits that are typed
    MaxTarget,      \* bound: u32::MAX
    MaxText,        \* bound: the length of what is typed
    Elsewhere       \* what others set the shortcuts to, with keys of letters only

VARIABLES
    shortcuts,      \* quick_switch_menu_shortcuts of the settings
    text,           \* of the field
    selection,      \* where the program has put it, until the user moves it
    posted          \* whether WM_SETTING_CHANGED is on its way

field_vars == <<shortcuts, text, selection, posted>>
-----------------------------------------------------------------------------
DigitSeq == <<"0", "1", "2", "3", "4", "5", "6", "7", "8", "9">>
Digits == ToSet(DigitSeq)

ASSUME FieldAssumption ==
    /\ Letters \cap (Digits \cup {Newline, Return}) = {}
    /\ TypedDigits \subseteq Digits
    /\ MaxTarget \in Nat
    /\ \A map \in Elsewhere :
           /\ IsFiniteSet(DOMAIN map) /\ DOMAIN map \subseteq Seq(Letters)
           /\ map \in [DOMAIN map -> 0..MaxTarget]
-----------------------------------------------------------------------------
Number(digits) ==
    LET ValueOf(c) == CHOOSE d \in 0..9 : DigitSeq[d + 1] = c
        Value[k \in 0..Len(digits)] ==
            IF k = 0 THEN 0 ELSE 10 * Value[k - 1] + ValueOf(digits[k])
    IN Value[Len(digits)]

DigitsOf[n \in 0..MaxTarget] ==
    IF n < 10 THEN <<DigitSeq[n + 1]>> ELSE Append(DigitsOf[n \div 10], DigitSeq[(n % 10) + 1])

(* The lines that are not empty, each as its digits and what else it has. *)
Entries(field) ==
    LET lines == SplitLines(field)
        line == [k \in DOMAIN lines |-> Without(lines[k], {Return})]
    IN [k \in {k \in DOMAIN lines : line[k] # <<>>} |->
            [key |-> Without(line[k], Digits),
             digits |-> Without(line[k], ToSet(line[k]) \ Digits)]]

Keys(entries) == {entries[k].key : k \in DOMAIN entries}

(* get_quick_switch_menu_shortcuts returns Ok: every carriage return is at *)
(* the end of its line, every line has a number, and no two the same key.  *)
IsValid(field) ==
    LET entries == Entries(field) IN
    /\ \A k \in DOMAIN SplitLines(field) : Return \notin ToSet(TrimEnd(SplitLines(field)[k]))
    /\ \A k \in DOMAIN entries :
           entries[k].digits # <<>> /\ Number(entries[k].digits) <= MaxTarget
    /\ \A j, k \in DOMAIN entries : entries[j].key = entries[k].key => j = k

Parsed(field) ==
    LET entries == Entries(field)
    IN [key \in Keys(entries) |->
            Number(entries[CHOOSE k \in DOMAIN entries : entries[k].key = key].digits)]

(* The text that set_quick_switch_menu_shortcuts writes.  The keys are in  *)
(* the order of a BTreeMap, of which only matters that there is one.       *)
Format(map) ==
    LET keys == SetToSeq(DOMAIN map)
        Line(key) == Without(key, {Newline, Return}) \o DigitsOf[map[key]] \o <<Return, Newline>>
        Written[k \in 0..Len(keys)] ==
            IF k = 0 THEN <<>> ELSE Written[k - 1] \o Line(keys[k])
    IN Written[Len(keys)]

AtMost(a, b) == IF a < b THEN a ELSE b

(* Mutant: the old places are only kept within the text. *)
OldPlaces(field, first, past_last) ==
    <<AtMost(first, Len(field)), AtMost(past_last, Len(field))>>

(* The selection again, in a text that may be another one: if an end of it *)
(* is between a carriage return and its newline, it is moved from there.   *)
NewSelection(field, first, past_last) ==
    LET start == AtMost(first, Len(field))
        end == AtMost(past_last, Len(field))
        around == SubSeq(field, (IF start = 0 THEN 0 ELSE start - 1) + 1, end)
        splits == around # <<>> /\ Head(around) = Return
        new_start == IF splits /\ start > 0 THEN start - 1 ELSE start
    IN IF Len(around) > 1 /\ Last(around) = Return
       THEN <<new_start, AtMost(end + 1, Len(field))>>
       ELSE <<new_start, IF splits /\ Len(around) = 1 THEN end - 1 ELSE end>>
-----------------------------------------------------------------------------
(* Mutant: a text that has an error is left as it is. *)
LeaveErrors(map) ==
    IF IsValid(text) => Parsed(text) = map
    THEN UNCHANGED <<text, selection>>
    ELSE /\ text' = Format(map)
         /\ \E first, past_last \in 0..Len(text) :
                /\ first <= past_last
                /\ selection' = Some(NewSelection(Format(map), first, past_last))

(* set_quick_switch_menu_shortcuts, with events suppressed. *)
SetShortcuts(map) ==
    IF IsValid(text) /\ Parsed(text) = map
    THEN UNCHANGED <<text, selection>>
    ELSE /\ text' = Format(map)
         /\ \E first, past_last \in 0..Len(text) :
                /\ first <= past_last
                /\ selection' = Some(NewSelection(Format(map), first, past_last))

(* on_setting_change *)
OnSettingChange ==
    /\ posted
    /\ posted' = FALSE
    /\ LET new == IF IsValid(text) THEN Parsed(text) ELSE shortcuts
       IN  shortcuts' = new /\ SetShortcuts(new)

(* on_notice_settings: the settings were changed by someone else. *)
OnNoticeSettings ==
    \E map \in Elsewhere :
        /\ map # shortcuts
        /\ shortcuts' = map
        /\ SetShortcuts(map)
        /\ UNCHANGED posted

(* en_change and post_change. *)
Edit(new) ==
    /\ text' = new
    /\ selection' = None
    /\ posted' = TRUE
    /\ UNCHANGED shortcuts

Keystrokes == {<<c>> : c \in Letters \cup TypedDigits} \cup {<<Return, Newline>>}

Type ==
    \E typed \in Keystrokes, place \in 0..Len(text) :
        /\ Len(text) + Len(typed) <= MaxText
        /\ Edit(SubSeq(text, 1, place) \o typed \o SubSeq(text, place + 1, Len(text)))

Erase ==
    \E place \in 1..Len(text) :
        Edit(SubSeq(text, 1, place - 1) \o SubSeq(text, place + 1, Len(text)))

(* Any other control of the panel. *)
ChangeOtherSetting ==
    /\ posted' = TRUE
    /\ UNCHANGED <<shortcuts, text, selection>>
-----------------------------------------------------------------------------
InitField ==
    /\ shortcuts \in Elsewhere
    /\ text = Format(shortcuts)
    /\ selection = None
    /\ posted = FALSE

NextField == OnSettingChange \/ OnNoticeSettings \/ Type \/ Erase \/ ChangeOtherSetting

FieldSpec == InitField /\ [][NextField]_field_vars
-----------------------------------------------------------------------------
(* Once the messages are handled the field shows the shortcuts that are    *)
(* set: what was written to it is read back as the same shortcuts, also by *)
(* the change of another control, which writes all that the panel shows.   *)
FieldShowsShortcuts == ~posted => IsValid(text) /\ Parsed(text) = shortcuts

(* "Previous cursor position might now be in the middle of a \r\n": not    *)
(* after the program has written the text, and it is in the text.          *)
SelectionOffNewlines ==
    \A range \in selection :
        /\ range[1] <= range[2] /\ range[2] <= Len(text)
        /\ \A i \in {1, 2} : range[i] > 0 => text[range[i]] # Return
=============================================================================
