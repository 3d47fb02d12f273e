--------------------------- MODULE MCTrustedPeers ----------------------------
(* Two operators with the key of one trustor, for TLC. *)
EXTENDS TrustedPeers

CONSTANTS t1, p1, p2, x, y

Command(type, peers) == [type |-> type, peers |-> peers]

MixedCommands ==
    {Command("create", {x}), Command("create", {y}), Command("revoke", {x}),
     Command("reset", {y})}
=============================================================================
