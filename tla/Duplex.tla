------------------------------- MODULE Duplex -------------------------------
(***************************************************************************)
(* What one proxied session promises its two endpoints: two independent    *)
(* byte pipes.  What comes out of a pipe is, at every moment, a prefix of  *)
(* what was put into it (nothing lost in the middle, repeated, reordered   *)
(* or invented), and a pipe that has broken delivers nothing any more.     *)
(***************************************************************************)
EXTENDS Sequences, SequencesExt

CONSTANT Pipes

VARIABLES
  put,   \* [Pipes -> sequence of bytes]: what was put into each pipe
  got,   \* [Pipes -> sequence of bytes]: what came out of it
  live   \* [Pipes -> BOOLEAN]: whether it still delivers

vars == << put, got, live >>

Init == /\ put = [p \in Pipes |-> <<>>]
        /\ got = [p \in Pipes |-> <<>>]
        /\ live = [p \in Pipes |-> TRUE]

OnlyAt(f, p) == \A q \in Pipes \ {p} : f[q]' = f[q]

\* An endpoint puts further bytes into pipe p.
Put(p) == /\ put[p] # put[p]'
          /\ IsPrefix(put[p], put'[p])
          /\ OnlyAt(put, p)
          /\ UNCHANGED << got, live >>

\* The next bytes come out of pipe p.
Deliver(p) == /\ live[p]
              /\ got'[p] # got[p]
              /\ IsPrefix(got[p], got'[p])
              /\ IsPrefix(got'[p], put[p])
              /\ OnlyAt(got, p)
              /\ UNCHANGED << put, live >>

\* Pipe p breaks or ends; this is final.
Break(p) == /\ live[p]
            /\ live' = [live EXCEPT ![p] = FALSE]
            /\ UNCHANGED << put, got >>

Next == \E p \in Pipes : Put(p) \/ Deliver(p) \/ Break(p)

Spec == Init /\ [][Next]_vars
=============================================================================
