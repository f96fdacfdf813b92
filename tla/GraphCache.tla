----------------------------- MODULE GraphCache -----------------------------
(***************************************************************************)
(* The bounded cache of compiled graphs (langgraph/graphs.py GraphCache):  *)
(* an ordered dictionary, here a sequence of [key, graph] from the least   *)
(* to the most recently used.                                              *)
(***************************************************************************)
EXTENDS Naturals, Sequences, SequencesExt, Listings

KeysOf(cache) == {cache[n].key : n \in DOMAIN cache}
Without(cache, key) == Filtered(cache, {entry \in Range(cache) : entry.key # key})
Lookup(cache, key) == CHOOSE entry \in Range(cache) : entry.key = key

\* get: a hit makes the entry the most recently used.
Touched(cache, key) == Append(Without(cache, key), Lookup(cache, key))

\* put: the entry is the most recently used, and the least recently used ones
\* go while there are too many; nothing is kept when max is 0.
Put(cache, key, graph, max) ==
  LET put == Append(Without(cache, key), [key |-> key, graph |-> graph])
  IN IF Len(put) <= max THEN put ELSE SubSeq(put, Len(put) - max + 1, Len(put))

\* invalidate: the entries of one agent go.
Invalidated(cache, agent) == Filtered(cache, {entry \in Range(cache) : entry.key.agent # agent})
=============================================================================
