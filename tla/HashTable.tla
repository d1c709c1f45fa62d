----------------------------- MODULE HashTable ------------------------------
(***************************************************************************)
(* The hash tables of lib/hash.c, in which HyperDoc finds its pages,       *)
(* macros, patches, links and windows, and the graphs' library its         *)
(* associations: chains of entries, the newest first.                      *)
(*                                                                         *)
(* Entries are numbered in the order in which they are inserted, which the *)
(* code does not record.  A copied entry keeps the number of the original. *)
(***************************************************************************)
EXTENDS Integers, Sequences, SequencesExt

CONSTANTS
    Table,          \* places for tables
    Key, Data,
    Code,           \* the sum of the characters of a key, or its window
    Size,
    MaxInserts

ASSUME HashAssumption ==
    /\ Code \in [Key -> Int]
    /\ Size \in Nat \ {0}
    /\ MaxInserts \in Nat

VARIABLES
    existing,       \* the tables that were initialised and not freed
    table,          \* their chains
    num_entries,
    inserts,        \* how many entries were ever inserted
    result,         \* the entries that the last call gave to its caller
    strayed         \* a chain was looked for outside the table

hashVars == <<existing, table, num_entries, inserts, result, strayed>>

Chains == 0 .. Size - 1
HashEntry == [key : Key, data : Data, at : Nat]

HashTypeOK ==
    /\ existing \subseteq Table
    /\ table \in [Table -> [Chains -> Seq(HashEntry)]]
    /\ num_entries \in [Table -> Int]
    /\ inserts \in Nat
    /\ result \subseteq HashEntry
    /\ strayed \in BOOLEAN

\* The remainder as C computes it.
Remainder(a, b) == IF a >= 0 THEN a % b ELSE -((-a) % b)

\* string_hash, window_code and TrivHash_code.  char is signed, so that a
\* name with characters beyond the first 128 may have a negative code.
hash_code(k) == Remainder(Code[k], Size)

Index(k) == Remainder(hash_code(k), Size)

\* Where entries for k stand in a chain, and where the walk along it stops.
Matches(chain, k) == {i \in DOMAIN chain : chain[i].key = k}

\* Mutant: the walk goes on to the end.
First_Last(chain, k) ==
    CHOOSE i \in Matches(chain, k) : \A j \in Matches(chain, k) : j <= i

First(chain, k) == CHOOSE i \in Matches(chain, k) : \A j \in Matches(chain, k) : i <= j

TableEntries(t) == UNION {Range(table[t][c]) : c \in Chains}

Empty == [c \in Chains |-> <<>>]

hash_init(t) ==
    /\ t \notin existing
    /\ existing' = existing \union {t}
    /\ table' = [table EXCEPT ![t] = Empty]
    /\ num_entries' = [num_entries EXCEPT ![t] = 0]
    /\ result' = {}
    /\ UNCHANGED <<inserts, strayed>>

\* A key that has a chain; with another one memory is read, and written,
\* that is not the table's.
InTable(t, k) == t \in existing /\ Index(k) \in Chains

Outside(t, k) ==
    /\ t \in existing /\ Index(k) \notin Chains
    /\ strayed' = TRUE
    /\ UNCHANGED <<existing, table, num_entries, inserts, result>>

\* The key is not looked for.
hash_insert(t, k, d) ==
    LET entry == [key |-> k, data |-> d, at |-> inserts]
    IN  /\ InTable(t, k) /\ inserts < MaxInserts
        /\ table' = [table EXCEPT ![t][Index(k)] = <<entry>> \o @]
        /\ num_entries' = [num_entries EXCEPT ![t] = @ + 1]
        /\ inserts' = inserts + 1
        /\ result' = {entry}
        /\ UNCHANGED <<existing, strayed>>

hash_find(t, k) ==
    LET chain == table[t][Index(k)]
    IN  /\ InTable(t, k)
        /\ result' = IF Matches(chain, k) = {} THEN {} ELSE {chain[First(chain, k)]}
        /\ UNCHANGED <<existing, table, num_entries, inserts, strayed>>

hash_replace(t, k, d) ==
    LET chain == table[t][Index(k)]
        i == First(chain, k)
    IN  /\ InTable(t, k)
        /\ \/ /\ Matches(chain, k) = {}
              /\ result' = {}
              /\ UNCHANGED table
           \/ /\ Matches(chain, k) # {}
              /\ table' = [table EXCEPT ![t][Index(k)][i].data = d]
              /\ result' = {[chain[i] EXCEPT !.data = d]}
        /\ UNCHANGED <<existing, num_entries, inserts, strayed>>

hash_delete(t, k) ==
    LET chain == table[t][Index(k)]
        i == First(chain, k)
    IN  /\ InTable(t, k)
        /\ \/ /\ Matches(chain, k) = {}
              /\ result' = {}
              /\ UNCHANGED <<table, num_entries>>
           \/ /\ Matches(chain, k) # {}
              /\ table' = [table EXCEPT ![t][Index(k)] = RemoveAt(@, i)]
              /\ num_entries' = [num_entries EXCEPT ![t] = @ - 1]
              /\ result' = {chain[i]}
        /\ UNCHANGED <<existing, inserts, strayed>>

hash_map(t) ==
    /\ t \in existing
    /\ result' = TableEntries(t)
    /\ UNCHANGED <<existing, table, num_entries, inserts, strayed>>

\* Entries are copied, keys and data are shared.
hash_copy_table(s, t) ==
    /\ s \in existing /\ t \notin existing
    /\ existing' = existing \union {t}
    /\ table' = [table EXCEPT ![t] = table[s]]
    /\ num_entries' = [num_entries EXCEPT ![t] = num_entries[s]]
    /\ result' = {}
    /\ UNCHANGED <<inserts, strayed>>

free_hash(t) ==
    /\ t \in existing
    /\ existing' = existing \ {t}
    /\ table' = [table EXCEPT ![t] = Empty]
    /\ num_entries' = [num_entries EXCEPT ![t] = 0]
    /\ result' = TableEntries(t)
    /\ UNCHANGED <<inserts, strayed>>

HashInit ==
    /\ existing = {}
    /\ table = [t \in Table |-> Empty]
    /\ num_entries = [t \in Table |-> 0]
    /\ inserts = 0 /\ result = {} /\ strayed = FALSE

HashNext ==
    /\ ~strayed
    /\ \/ \E t \in Table : hash_init(t) \/ hash_map(t) \/ free_hash(t)
       \/ \E t \in Table, k \in Key : hash_find(t, k) \/ hash_delete(t, k) \/ Outside(t, k)
       \/ \E t \in Table, k \in Key, d \in Data : hash_insert(t, k, d) \/ hash_replace(t, k, d)
       \/ \E s, t \in Table : hash_copy_table(s, t)

HashSpec == HashInit /\ [][HashNext]_hashVars
-----------------------------------------------------------------------------
Dictionaries ==
    INSTANCE Dictionary WITH
        definitions <- [t \in Table |-> TableEntries(t)],
        count <- num_entries,
        Plain <- {k \in Key : Code[k] >= 0}

\* Every table is a dictionary in which the last definition of a key counts
\* until it is deleted, and a copy of a table goes its own way; num_entries,
\* by which HyperDoc knows that it closes its last window, is the number of
\* its entries.  A name of 7-bit characters never leads out of the table.
TablesAreDictionaries == Dictionaries!DictionarySpec
=============================================================================
