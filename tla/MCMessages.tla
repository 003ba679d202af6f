----------------------------- MODULE MCMessages -----------------------------
(***************************************************************************)
(* Small instances of StellarMessages for TLC: nodes p, q and r, of which  *)
(* r may send anything; the address a is that of p, and b that of q.       *)
(***************************************************************************)
EXTENDS StellarMessages

CONSTANTS a, b, kp, kq, kr, v1, v2, h1, h2

OwnKeyOf == [i \in Addr |-> IF i = a THEN kp ELSE kq]

\* One of p and an inner set of both q and r.
Nested == {{kp}, {kq, kr}}

OfOne == {{kp}}

SCP(i, n, s, val, ha) ==
    [id |-> i, node |-> n, slot |-> s, value |-> val, hash |-> ha, signed |-> TRUE]

\* r externalizes another value than p and q for the second ledger, which p
\* follows by the third. The signature of q also comes with another statement,
\* of the first ledger, for which it is not valid.
LedgerEnvelopes ==
    {SCP(1, kp, 2, v1, h1), SCP(2, kq, 2, v1, h1), SCP(3, kr, 2, v2, h1),
     SCP(4, kp, 3, v1, h1),
     [SCP(2, kq, 1, v2, h1) EXCEPT !.signed = FALSE]}

\* Statements that announce quorum sets: p changes its own and q shares one.
\* Each may be relayed before its author connects, if it ever does.
HashEnvelopes ==
    {SCP(1, kp, 1, None, h1), SCP(2, kp, 1, None, h2), SCP(3, kq, 1, None, h1)}

\* p externalizes the same value in two messages.
RepeatEnvelopes == {SCP(1, kp, 1, v1, h1), SCP(2, kp, 1, v1, h1)}
=============================================================================
