----------------------------- MODULE Dictionary -----------------------------
(***************************************************************************)
(* What the hash tables of lib/hash.c promise: dictionaries in which a key *)
(* may be defined several times.  The last definition counts until it is   *)
(* removed, and then the one before it.  A copy goes its own way, and the  *)
(* number of definitions is known.                                         *)
(***************************************************************************)
EXTENDS Integers, FiniteSets

CONSTANTS Table, Key, Data,
          Plain             \* the keys that can be relied upon

VARIABLES
    existing,       \* the dictionaries that there are
    definitions,    \* of each of them
    count,          \* how many
    inserts,        \* definitions are numbered
    result,         \* the definitions that the last operation was about
    strayed         \* a key that cannot be relied upon was used

dictionaryVars == <<existing, definitions, count, inserts, result, strayed>>

Of(S, k) == {e \in S : e.key = k}
Newest(S, k) == CHOOSE e \in Of(S, k) : \A f \in Of(S, k) : f.at <= e.at

\* The definition of k, if there is one.
Lookup(S, k) == IF Of(S, k) = {} THEN {} ELSE {Newest(S, k)}

Redefined(S, d) == {[e EXCEPT !.data = d] : e \in S}

Make(t) ==
    /\ t \notin existing
    /\ existing' = existing \union {t}
    /\ definitions' = [definitions EXCEPT ![t] = {}]
    /\ result' = {}
    /\ UNCHANGED inserts

Define(t, k, d) ==
    LET e == [key |-> k, data |-> d, at |-> inserts]
    IN  /\ t \in existing
        /\ definitions' = [definitions EXCEPT ![t] = @ \union {e}]
        /\ inserts' = inserts + 1
        /\ result' = {e}
        /\ UNCHANGED existing

Find(t, k) ==
    /\ t \in existing
    /\ result' = Lookup(definitions[t], k)
    /\ UNCHANGED <<existing, definitions, inserts>>

Redefine(t, k, d) ==
    LET old == Lookup(definitions[t], k)
    IN  /\ t \in existing
        /\ definitions' = [definitions EXCEPT ![t] = (@ \ old) \union Redefined(old, d)]
        /\ result' = Redefined(old, d)
        /\ UNCHANGED <<existing, inserts>>

Remove(t, k) ==
    LET old == Lookup(definitions[t], k)
    IN  /\ t \in existing
        /\ definitions' = [definitions EXCEPT ![t] = @ \ old]
        /\ result' = old
        /\ UNCHANGED <<existing, inserts>>

Visit(t) ==
    /\ t \in existing
    /\ result' = definitions[t]
    /\ UNCHANGED <<existing, definitions, inserts>>

Copy(s, t) ==
    /\ s \in existing /\ t \notin existing
    /\ existing' = existing \union {t}
    /\ definitions' = [definitions EXCEPT ![t] = definitions[s]]
    /\ result' = {}
    /\ UNCHANGED inserts

Discard(t) ==
    /\ t \in existing
    /\ existing' = existing \ {t}
    /\ definitions' = [definitions EXCEPT ![t] = {}]
    /\ result' = definitions[t]
    /\ UNCHANGED inserts

Operation ==
    \/ \E t \in Table : Make(t) \/ Visit(t) \/ Discard(t)
    \/ \E t \in Table, k \in Key : Find(t, k) \/ Remove(t, k)
    \/ \E t \in Table, k \in Key, d \in Data : Define(t, k, d) \/ Redefine(t, k, d)
    \/ \E s, t \in Table : Copy(s, t)

Stray ==
    /\ Plain # Key
    /\ strayed' = TRUE
    /\ UNCHANGED <<existing, definitions, count, inserts, result>>

DictionaryInit ==
    /\ existing = {}
    /\ definitions = [t \in Table |-> {}]
    /\ count = [t \in Table |-> 0]
    /\ inserts = 0 /\ result = {} /\ strayed = FALSE

DictionaryNext ==
    /\ ~strayed
    /\ \/ /\ Operation
          /\ count' = [t \in Table |-> Cardinality(definitions'[t])]
          /\ strayed' = FALSE
       \/ Stray

DictionarySpec == DictionaryInit /\ [][DictionaryNext]_dictionaryVars
=============================================================================
