--------------------------- MODULE MCProxyHeader ---------------------------
(* Lines around the lengths the parser treats apart, cut or whole, and     *)
(* headers with up to three TLVs.                                          *)
EXTENDS ProxyHeader

MCLines == {15, 16, 22, 23, 31, 32, 33, 34, 24, 25, 26, 106, 107, 108}
MCArrives == {12, 20, 4096}
TLV(type, at, len) == [type |-> type, at |-> at, len |-> len]
MCTLVLists ==
  {<<>>} \cup {<<TLV(3, 0, k), TLV(4, 3 + k, l)>> : k \in {0, 1}, l \in {0, 1}}
    \cup {<<TLV(3, 0, 1), TLV(4, 4, 1), TLV(5, 8, 1)>>, <<TLV(3, 0, 300)>>, <<TLV(3, 0, 1), TLV(3, 4, 1)>>}

=============================================================================
