--------------------------- MODULE DuplicateTable ---------------------------
(***************************************************************************)
(* The table of recently acknowledged frames (Seen _seen[], _seenNext) as  *)
(* a function from slots to entries, and the two operations on it.  An     *)
(* entry records the frame's source, sequence number and CRC (its key) and *)
(* its age: age stands for now - timeMs, so that no absolute clock is      *)
(* needed.  Free stands for an entry whose valid flag is false.            *)
(***************************************************************************)
EXTENDS Integers

CONSTANTS
    DupTableSize,   \* LORA_LINK_DUP_TABLE_SIZE
    Free            \* an entry that is not valid

Slots == 0 .. DupTableSize - 1

EmptyTable == [i \in Slots |-> Free]

Live(entry, window) == entry # Free /\ entry.age <= window

Matches(table, i, key, window) == Live(table[i], window) /\ table[i].key = key

IsDuplicate(table, key, window) == \E i \in Slots : Matches(table, i, key, window)

(* The table isDuplicate() leaves behind.  The scan stops at the first     *)
(* match and refreshes it (the sliding window); on its way it invalidates  *)
(* every expired entry.                                                    *)
Scanned(table, key, window) ==
    LET reached(i) == \A j \in Slots : j < i => ~Matches(table, j, key, window)
    IN  [i \in Slots |->
            IF reached(i) /\ Matches(table, i, key, window) THEN [table[i] EXCEPT !.age = 0]
            ELSE IF reached(i) /\ ~Live(table[i], window) THEN Free
            ELSE table[i]]

AlwaysFirstSlot(table, next, i) == i = 0    \* seeded fault: no slot is looked for

(* remember() writes to the first free slot, otherwise to the round-robin one. *)
IsRememberSlot(table, next, i) ==
    IF \E j \in Slots : table[j] = Free
    THEN table[i] = Free /\ \A j \in Slots : j < i => table[j] # Free
    ELSE i = next

Remembered(table, next, key) ==
    [i \in Slots |->
        IF IsRememberSlot(table, next, i) THEN [key |-> key, age |-> 0] ELSE table[i]]

NextAfterRemember(table, next) ==
    IF IsRememberSlot(table, next, next) THEN (next + 1) % DupTableSize ELSE next

(* One tick of the clock: every entry grows older, up to the age past *)
(* which no window reaches.                                           *)
Aged(table, oldest) ==
    [i \in Slots |->
        IF table[i] = Free THEN Free
        ELSE [table[i] EXCEPT !.age = IF @ < oldest THEN @ + 1 ELSE @]]
=============================================================================
