------------------------------ MODULE MCGRPC ------------------------------
(* Streams of up to two messages, with or without an empty one.            *)
EXTENDS GRPC

(* A list of up to two messages of these lengths, one behind the other.    *)
Kinds == {k \in [compressed : BOOLEAN, sound : BOOLEAN] : k.compressed \/ k.sound}
Placed(p, l, k) == [at |-> p, len |-> l, compressed |-> k.compressed, sound |-> k.sound]
Lists(lens) ==
  {<<>>} \cup {<<Placed(0, l, k)>> : l \in lens, k \in Kinds}
    \cup {<<Placed(0, l1, k1), Placed(Prefix + l1, l2, k2)>> :
            l1 \in lens, l2 \in lens, k1 \in Kinds, k2 \in Kinds}

MCMessageLists == Lists({1, 2})
MCEmptyMessages == Lists({0, 1})

=============================================================================
