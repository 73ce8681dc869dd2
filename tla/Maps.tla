---------------------------------- MODULE Maps ----------------------------------
(***************************************************************************)
(* Optional values and finite maps, as the Rust code uses Option and       *)
(* BTreeMap: an optional value is a sequence of at most one element.       *)
(***************************************************************************)
EXTENDS Naturals, Sequences

None == << >>
Some(x) == <<x>>
Is(o) == o # None
The(o) == o[1]

EmptyMap == [x \in {} |-> x]
Put(f, k, v) == [x \in DOMAIN f \cup {k} |-> IF x = k THEN v ELSE f[x]]
Without(f, S) == [x \in DOMAIN f \ S |-> f[x]]
Entry(f, k) == IF k \in DOMAIN f THEN Some(f[k]) ELSE None

=================================================================================
