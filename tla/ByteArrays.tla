----------------------------- MODULE ByteArrays -----------------------------
(***************************************************************************)
(* Files and buffers as functions from 0 .. n-1 to bytes.                  *)
(***************************************************************************)
EXTENDS Integers, FiniteSetsExt

Length(f) == Cardinality(DOMAIN f)

\* A function on 0 .. n-1, as a file has it: what is not there is zero.
Zeros(n) == [i \in 0 .. n - 1 |-> 0]

\* The file f with the bytes s at p.
Put(f, p, s) ==
    [i \in 0 .. Max({Length(f), p + Length(s)}) - 1 |->
        IF i - p \in DOMAIN s THEN s[i - p] ELSE IF i \in DOMAIN f THEN f[i] ELSE 0]

\* The bytes of f from p on, n at the most.
Slice(f, p, n) == [i \in 0 .. Max({0, Min({n, Length(f) - p})}) - 1 |-> f[p + i]]
=============================================================================
