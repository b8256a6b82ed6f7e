-------------------------------- MODULE Mapping --------------------------------
(***************************************************************************)
(* ink! storage mappings, as the contract uses them: a mapping is a        *)
(* function whose domain is the set of keys that hold a value.             *)
(*   map.get(k)         m[k], defined when k \in DOMAIN m                  *)
(*   map.contains(k)    k \in DOMAIN m                                     *)
(***************************************************************************)

\* Mapping::default(): no key holds a value
EmptyMapping == [k \in {} |-> {}]

\* map.insert(k, v): overwrites whatever k held
MapInsert(m, k, v) == [x \in DOMAIN m \cup {k} |-> IF x = k THEN v ELSE m[x]]

\* map.remove(k)
MapRemove(m, k) == [x \in DOMAIN m \ {k} |-> m[x]]

================================================================================
