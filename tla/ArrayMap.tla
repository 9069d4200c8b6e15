------------------------------ MODULE ArrayMap ------------------------------
(* The map in a fixed array of usb/arraymap.hpp.                           *)
EXTENDS FiniteSetsExt, Integers

NoValue == -1
EmptyTable(N) == [i \in 1 .. N |-> [used |-> FALSE, key |-> NoValue, value |-> NoValue]]

Places(table, key) == {i \in DOMAIN table : table[i].used /\ table[i].key = key}

\* The first entry with the key counts.
Get(table, key) ==
  IF Places(table, key) = {} THEN NoValue ELSE table[Min(Places(table, key))].value

\* An entry that finds no free place is dropped; an equal key is not looked for.
Put(table, key, value) ==
  LET free == {i \in DOMAIN table : ~table[i].used}
  IN  IF free = {} THEN table
      ELSE [table EXCEPT ![Min(free)] = [used |-> TRUE, key |-> key, value |-> value]]

\* Wrong: the entry stays.
Delete_Keeps(table, key) == table

Delete(table, key) ==
  IF Places(table, key) = {} THEN table
  ELSE [table EXCEPT ![Min(Places(table, key))].used = FALSE]
=============================================================================
