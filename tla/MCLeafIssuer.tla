---------------------------- MODULE MCLeafIssuer ----------------------------
(***************************************************************************)
(* Two processes on one CA directory, or two connections asking one issuer *)
(* for leaves of three hosts with a cache of two.                          *)
(***************************************************************************)
EXTENDS LeafIssuer

Cert(id, key, nb, na, flaw) == [id |-> id, key |-> key, nb |-> nb, na |-> na, flaw |-> flaw]

MCCandidates ==
    { [cert |-> Cert(101, 101, 0, 4, "none"), key |-> 101],
      [cert |-> Cert(102, 102, 0, 4, "none"), key |-> 101],
      [cert |-> Cert(103, 103, 0, 4, "not ca"), key |-> 103],
      [cert |-> Cert(104, 104, -5, -2, "none"), key |-> 104] }

MCAuthorities == {Cert(201, 201, 0, 4, "none"), Cert(202, 202, -4, 0, "none")}

MCCreateOptions == {[name |-> 1, days |-> 6], [name |-> 0, days |-> 6], [name |-> 1, days |-> 9]}
=============================================================================
