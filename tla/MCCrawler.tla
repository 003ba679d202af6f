----------------------------- MODULE MCCrawler -----------------------------
(***************************************************************************)
(* Small instances of Crawler for TLC: at most one top tier node t, peers  *)
(* a, b and x. a and b may present the same public key, and x one that is  *)
(* blacklisted.                                                            *)
(***************************************************************************)
EXTENDS Crawler

CONSTANTS t, a, b, x, kt, ka, kb, kx

KeyOf == [i \in Addr |-> CASE i = t -> kt [] i = a -> ka [] i = b -> kb [] i = x -> kx]

\* a and b present the same key
SharedKeyOf == [i \in Addr |-> CASE i = t -> kt [] i = a -> ka [] i = b -> ka [] i = x -> kx]
=============================================================================
