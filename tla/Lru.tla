-------------------------------- MODULE Lru --------------------------------
(***************************************************************************)
(* The least-recently-used cache of hashicorp/golang-lru as the code uses  *)
(* it: a sequence of entries, the least recently used first.               *)
(***************************************************************************)
EXTENDS Naturals, Sequences

LOCAL Entry(key, val) == [key |-> key, val |-> val]

Has(cache, key) == \E j \in DOMAIN cache : cache[j].key = key

\* The value of a key that is there.
Peek(cache, key) == cache[CHOOSE j \in DOMAIN cache : cache[j].key = key].val

Remove(cache, key) == SelectSeq(cache, LAMBDA e : e.key # key)

\* Add or replace, as the most recent; beyond the size the oldest goes.
Add(cache, size, key, val) ==
  LET longer == Append(Remove(cache, key), Entry(key, val))
  IN  IF Len(longer) > size THEN Tail(longer) ELSE longer

\* Get makes the entry the most recent one.
Touch(cache, key) ==
  IF Has(cache, key) THEN Append(Remove(cache, key), Entry(key, Peek(cache, key))) ELSE cache

\* Neither ContainsOrAdd nor PeekOrAdd changes the order of what is there.
ContainsOrAdd(cache, size, key, val) ==
  IF Has(cache, key) THEN cache ELSE Add(cache, size, key, val)
=============================================================================
