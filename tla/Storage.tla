------------------------------- MODULE Storage -------------------------------
(***************************************************************************)
(* The Soroban host, as the contracts use it.  A contract's instance       *)
(* storage is a finite map from keys to values; a key that was never set   *)
(* is not in the map's domain.  An invocation is atomic: a panic or an Err *)
(* restores the storage, so a rejected call is not a step.                 *)
(***************************************************************************)
EXTENDS Integers, Sequences, FiniteSets, Functions

\* storage().set(key, value)
Put(map, key, value) ==
    [k \in DOMAIN map \cup {key} |-> IF k = key THEN value ELSE map[k]]

\* storage().get(key).unwrap_or(default)
GetOr(map, key, default) == IF key \in DOMAIN map THEN map[key] ELSE default

\* storage().remove(key)
Drop(map, key) == [k \in DOMAIN map \ {key} |-> map[k]]

\* The storage of a contract that has just been deployed.
EmptyMap == [k \in {} |-> 0]

\* i128 division, which rounds toward zero; d is positive.
Quot(n, d) == IF n >= 0 THEN n \div d ELSE -((-n) \div d)

\* The sum of F(k) over a finite set of keys.
SumOver(F(_), keys) ==
    SumFunction([k \in keys |-> F(k)])

\* The elements of a Vec that belong to a set, pushed onto a new Vec in order.
Kept(vec, set) ==
    LET kept[i \in 0..Len(vec)] ==
            IF i = 0 THEN <<>>
            ELSE IF vec[i] \in set THEN Append(kept[i - 1], vec[i])
            ELSE kept[i - 1]
    IN  kept[Len(vec)]
=============================================================================
