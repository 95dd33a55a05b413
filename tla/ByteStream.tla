----------------------------- MODULE ByteStream -----------------------------
(***************************************************************************)
(* What a stream over a file promises (LVStream): writes put bytes at the  *)
(* position and reads give them back, whatever is cached in between.       *)
(***************************************************************************)
EXTENDS ByteArrays

CONSTANTS Words,        \* what is written,
          Positions,    \* where the stream is positioned,
          Counts        \* and how many bytes are read

VARIABLES
    content,    \* the bytes of the file, a function on 0 .. size-1
    pos,        \* the position of the stream
    got,        \* the bytes of the last read
    short       \* a stream was closed and left its file without some of its last bytes

Seek(p) == pos' = p /\ got' = Zeros(0) /\ UNCHANGED <<content, short>>

Write(s) ==
    /\ content' = Put(content, pos, s)
    /\ pos' = pos + Length(s)
    /\ got' = Zeros(0)
    /\ UNCHANGED short

\* A read ends early where the file ends, or in front of a zero.
Read(n) ==
    \E k \in 0 .. n :
        /\ got' = Slice(content, pos, k)
        /\ k < n /\ pos + k \in DOMAIN content => content[pos + k] = 0
        /\ pos' = pos + Length(got')
        /\ UNCHANGED <<content, short>>

EndsInZero(f) == f # Zeros(0) /\ f[Length(f) - 1] = 0

\* The file is closed and opened: it has all that was written and is no shorter,
\* unless what was written ends in a zero.
Reopen ==
    /\ pos' = 0 /\ got' = Zeros(0)
    /\ \/ UNCHANGED <<content, short>>
       \/ EndsInZero(content) /\ short'

\* A file that was left too short: no promise holds for it any more.
Anything == short /\ short'

Init ==
    /\ content = Zeros(0)
    /\ pos = 0 /\ got = Zeros(0)
    /\ short = FALSE

Next ==
    \/ \E p \in Positions : Seek(p)
    \/ \E s \in Words : Write(s)
    \/ \E n \in Counts : Read(n)
    \/ Reopen
    \/ Anything

Spec == Init /\ [][Next]_<<content, pos, got, short>>
=============================================================================
