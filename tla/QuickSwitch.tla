---------------------------- MODULE QuickSwitch ----------------------------
(***************************************************************************)
(* The quick switch menu (quick_switch.rs): a tree of submenus in which    *)
(* the digits of a desktop's number are access keys that lead to it.  When *)
(* there are fewer submenus than digits, the digits that are left lead to  *)
(* the first numbers: with 59 desktops, 6 to 06.                           *)
(*                                                                         *)
(* Numbers of desktops are one-based, indexes of desktops zero-based.  A   *)
(* menu is its place in tray_submenus, the menu they are all in is 0.  A   *)
(* key is its digit or, for others, the code of its character.             *)
(***************************************************************************)
EXTENDS Integers, Sequences, FiniteSets, SequencesExt, FiniteSetsExt

CONSTANTS
    DesktopCounts,  \* how many desktops there may be
    Shortcuts       \* keys the user has chosen, and the index each is for

(* 10_u32.pow *)
Powers == <<1, 10, 100, 1000, 10000, 100000, 1000000, 10000000, 100000000, 1000000000>>
TenTo(k) == Powers[k + 1]

(* With ten digits the products of create_submenus overflow their u32.     *)
ASSUME QuickSwitchAssumption ==
    /\ \A desktops \in DesktopCounts : desktops \in Nat \ {0} /\ desktops + 1 < TenTo(9)
    /\ \A shortcut \in Shortcuts : shortcut.key \in Nat \ 0..9 /\ shortcut.index \in Nat

VARIABLES
    desktop_count,          \* one more than there are desktops
    shortcuts_only_in_root,
    items,                  \* tray_virtual_desktops_quick, each in a menu and with a key
    submenus,               \* tray_submenus
    call_queue,             \* menus to fill
    here,                   \* the submenu that is open
    typed,                  \* history: the digits that lead to it
    chosen                  \* the desktop that was chosen, and by which keys

built == <<desktop_count, shortcuts_only_in_root, items, submenus, call_queue>>
menu_vars == <<built, here, typed, chosen>>

Root == 0
Digits == 0..9
Space == 32
-----------------------------------------------------------------------------
Larger(a, b) == IF a > b THEN a ELSE b
Smaller(a, b) == IF a < b THEN a ELSE b

(* ilog10() + 1 *)
Width(n) == CHOOSE w \in 1..9 : TenTo(w - 1) <= n /\ n < TenTo(w)

(* Mutant: the subtraction does not stop at zero. *)
IndexBelow(first, unit) == (first \div (unit * 10)) * 10 + ((first % (unit * 10)) % 10) - 1

(* The number a space stands for in a submenu that begins with `first`,    *)
(* as the index of a desktop.                                              *)
IndexSoFar(first, unit) ==
    Larger((first \div (unit * 10)) * 10 + ((first % (unit * 10)) % 10) - 1, 0)

(* Mutant: the end is taken for the last number. *)
EndTooEarly(prefix, unit) == Smaller((prefix + 1) * unit * 10, desktop_count - 1)

EndOf(prefix, unit) == Smaller((prefix + 1) * unit * 10, desktop_count)

(* create_submenus: one for each digit from start_digit on that the next   *)
(* digit of a number that begins with the prefix can be.                   *)
CreateSubmenus(menu, prefix, remaining_digits, start_digit) ==
    LET unit == TenTo(remaining_digits - 1)
        start == Larger((prefix * 10 + start_digit) * unit, 1)
        end_digit == ((EndOf(prefix, unit) - 1) \div unit) % 10
        First(digit) == IF digit = start_digit THEN start ELSE (prefix * 10 + digit) * unit
    IN [k \in 1..Larger(end_digit + 1 - start_digit, 0) |->
           LET digit == start_digit + k - 1 IN
           [menu |-> menu, prefix |-> prefix * 10 + digit, remaining_digits |-> remaining_digits - 1,
            key |-> (First(digit) % (unit * 10)) \div unit,
            index |-> IndexSoFar(First(digit), unit)]]

(* Mutant: the index of an item is its number. *)
CreateOneBased(menu, start, end) ==
    {[menu |-> menu, key |-> number % 10, index |-> number] : number \in start..end - 1}

(* try_create_leaf_items, for the numbers from start to before end: none   *)
(* when two of them have the same last digit.                              *)
TryCreateLeafItems(menu, start, end) ==
    IF \E i, j \in start..end - 1 : i # j /\ i % 10 = j % 10 THEN {}
    ELSE {[menu |-> menu, key |-> number % 10, index |-> number - 1] : number \in start..end - 1}

(* create_shortcut_items *)
CreateShortcutItems(menu) ==
    IF shortcuts_only_in_root /\ menu # Root THEN {}
    ELSE {[menu |-> menu, key |-> shortcut.key, index |-> shortcut.index] : shortcut \in Shortcuts}

(* The menus to fill next: what was put into the queue last comes first. *)
QueueOf(created) ==
    [k \in DOMAIN created |->
        [menu |-> Len(submenus) + k, prefix |-> created[k].prefix,
         remaining_digits |-> created[k].remaining_digits]]

Called == call_queue[Len(call_queue)]

Fill(created, leafs) ==
    /\ submenus' = submenus \o created
    /\ items' = items \cup leafs
    /\ call_queue' = Front(call_queue) \o QueueOf(created)
    /\ UNCHANGED <<desktop_count, shortcuts_only_in_root, here, typed, chosen>>

(* _create_quick_switch_menu, for the last digit. *)
CreateLeafMenu ==
    LET prefix == Called.prefix IN
    /\ call_queue # <<>>
    /\ Called.remaining_digits = 1
    /\ Fill(<<>>, TryCreateLeafItems(Called.menu, Larger(prefix * 10, 1),
                                     Smaller((prefix + 1) * 10, desktop_count))
                  \cup CreateShortcutItems(Called.menu))

Submenus == CreateSubmenus(Called.menu, Called.prefix, Called.remaining_digits, 0)

(* Every digit is in use. *)
CreateFullMenu ==
    /\ call_queue # <<>>
    /\ Called.remaining_digits > 1
    /\ Len(Submenus) >= 10 /\ Called.prefix # 0
    /\ Fill(Submenus, {})

HasTrailing ==
    /\ call_queue # <<>>
    /\ Len(Submenus) < 10 \/ Called.prefix = 0

(* The digits that are left lead to the numbers with a zero before them. *)
CreateTrailingItems ==
    LET prefix == Called.prefix IN
    /\ HasTrailing
    /\ Called.remaining_digits = 2
    /\ Fill(Submenus, TryCreateLeafItems(Called.menu, Larger(prefix * 100 + Len(Submenus), 1),
                                         Smaller((prefix * 10 + 1) * 10, desktop_count))
                      \cup CreateShortcutItems(Called.menu))

CreateTrailingSubmenus ==
    /\ HasTrailing
    /\ Called.remaining_digits > 2
    /\ Fill(Submenus \o CreateSubmenus(Called.menu, Called.prefix * 10,
                                       Called.remaining_digits - 1, Len(Submenus)),
            CreateShortcutItems(Called.menu))
-----------------------------------------------------------------------------
IsBuilt == call_queue = <<>>

ItemsOf(menu, key) == {item \in items : item.menu = menu /\ item.key = key}
SubmenusOf(menu, key) == {m \in DOMAIN submenus : submenus[m].menu = menu /\ submenus[m].key = key}

(* The key leads to nothing else in the menu: otherwise Windows would only *)
(* select what it leads to.                                                *)
IsOnly(menu, key) == Cardinality(ItemsOf(menu, key)) + Cardinality(SubmenusOf(menu, key)) = 1

(* The menu is opened: only its root is visible. *)
ShowRoot ==
    /\ here' = Root
    /\ typed' = <<>>
    /\ UNCHANGED built

Descend(key) ==
    /\ IsOnly(here, key)
    /\ here' \in SubmenusOf(here, key)
    /\ typed' = Append(typed, key)
    /\ UNCHANGED <<built, chosen>>

(* BackspaceAsEscapeAlias, in a submenu. *)
Backspace ==
    /\ here # Root
    /\ here' = submenus[here].menu
    /\ typed' = Front(typed)
    /\ UNCHANGED <<built, chosen>>

(* get_clicked_desktop_index, by an item's access key. *)
ChooseItem(key) ==
    /\ IsOnly(here, key)
    /\ \E item \in ItemsOf(here, key) :
           chosen' = [index |-> item.index, keys |-> Append(typed, key)]
    /\ UNCHANGED <<built, here, typed>>

(* on_menu_key_press, for a space in a submenu: the desktop that was typed *)
(* so far.                                                                 *)
ChooseSoFar ==
    /\ here # Root
    /\ chosen' = [index |-> submenus[here].index, keys |-> Append(typed, Space)]
    /\ UNCHANGED <<built, here, typed>>

NoChoice == [index |-> 0, keys |-> <<>>]

InitMenu ==
    /\ \E desktops \in DesktopCounts : desktop_count = desktops + 1
    /\ shortcuts_only_in_root \in BOOLEAN
    /\ items = {} /\ submenus = <<>>
    /\ call_queue = <<[menu |-> Root, prefix |-> 0, remaining_digits |-> Width(desktop_count)]>>
    /\ here = Root
    /\ typed = <<>>
    /\ chosen = NoChoice

BuildMenu == CreateLeafMenu \/ CreateFullMenu \/ CreateTrailingItems \/ CreateTrailingSubmenus
-----------------------------------------------------------------------------
Number(keys) == FoldLeft(LAMBDA number, key : 10 * number + key, 0, keys)

IsTyped(keys) == keys # <<>> /\ \A k \in DOMAIN keys : keys[k] \in Digits

(* The last digits of a number, with zeros before it when it has fewer.    *)
Padded(number, width) == [k \in 1..width |-> (number \div TenTo(width - k)) % 10]

(* The keys are the digits, or what is left of them without some zeros.    *)
IsWithoutSomeZeros(keys, digits) ==
    \E place \in [DOMAIN keys -> DOMAIN digits] :
        /\ \A i, j \in DOMAIN keys : i < j => place[i] < place[j]
        /\ \A i \in DOMAIN keys : keys[i] = digits[place[i]]
        /\ \A k \in DOMAIN digits : digits[k] # 0 => \E i \in DOMAIN keys : place[i] = k

(* A menu that is complete leads to every desktop by its number, with      *)
(* leading zeros: wherever its first digits have led, the next digit leads *)
(* on, the last one to the desktop, and no digit on the way stands for two *)
(* things (leafs and submenus of one menu come from two ranges that must   *)
(* not overlap, and the ranges from where the number of desktops ends, at  *)
(* each power of ten).                                                     *)
EveryDesktopIsReached ==
    LET width == Width(desktop_count)
        next == Len(typed) + 1
    IN  IsBuilt /\ next <= width =>
            \A number \in 1..desktop_count - 1 :
                LET keys == Padded(number, width) IN
                (\A k \in DOMAIN typed : typed[k] = keys[k]) =>
                    /\ IsOnly(here, keys[next])
                    /\ IF next < width THEN SubmenusOf(here, keys[next]) # {}
                       ELSE \E item \in ItemsOf(here, keys[next]) : item.index = number - 1

(* Whichever digits lead to a desktop, they are those of its number: all   *)
(* of them, or without some of its zeros where a digit that would          *)
(* otherwise lead nowhere is used as a shortcut.                           *)
DigitsAreTheNumber ==
    IsTyped(chosen.keys) =>
        /\ chosen.index < desktop_count - 1
        /\ IsWithoutSomeZeros(chosen.keys, Padded(chosen.index + 1, Width(desktop_count)))

(* The comment on tray_submenus.push: "we want to be taken to the number   *)
(* that the user has entered on their keypad (when this menu is selected   *)
(* that includes the first digit in the suffix)".                          *)
SpaceIsTheNumberSoFar ==
    LET keys == chosen.keys IN
    keys # <<>> /\ keys[Len(keys)] = Space =>
        chosen.index = Larger(Number(Front(keys)) - 1, 0)
=============================================================================
