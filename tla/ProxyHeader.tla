---------------------------- MODULE ProxyHeader ----------------------------
(* proxyproto: the PROXY protocol header itself, versions 1 and 2, read    *)
(* off a connection whose further bytes belong to the client.  The parser  *)
(* must stop at the header's last byte: it is given no way to put a byte   *)
(* back.  Addresses and ports are abstracted to whether they parse; every  *)
(* length is the code's.                                                   *)
EXTENDS Integers, Sequences, FiniteSetsExt

CONSTANTS
  Lines,      \* lengths of version 1 lines, with their CRLF
  Arrives,    \* bytes that arrive before the peer closes
  TLVLists    \* the TLVs of version 2 headers: sequences of [type, at, len]

VARIABLES
  wire,   \* what the peer sends
  hdr,    \* what ReadHeader returned, <<>> before
  cursor, \* offset and map of ParseTLVs
  tlvs    \* what it returned, <<>> before

headerVars == <<wire, hdr, cursor, tlvs>>

(* A TLV on the wire is a type, two bytes of length and the value; at is   *)
(* where it begins in the bytes that hold them, one behind the other.      *)
Past(tlv) == tlv.at + 3 + tlv.len

ASSUME HeaderAssumption ==
  /\ Lines \subseteq Nat /\ Arrives \subseteq Nat
  /\ \A q \in TLVLists :
       /\ q \in Seq([type : Nat, at : Nat, len : Nat])
       /\ q # <<>> => q[1].at = 0
       /\ \A i, j \in DOMAIN q : i < j => Past(q[i]) <= q[j].at
       /\ \A i \in DOMAIN q : i + 1 \in DOMAIN q => Past(q[i]) = q[i + 1].at

V1Wires ==
  [v : {1}, proto : {"TCP4", "TCP6", "UNKNOWN", "OTHER"}, len : Lines,
   fields : {"four", "three", "five", "bad"}, crlf : BOOLEAN, arrives : Arrives]

V2Wires ==
  [v : {2}, two : BOOLEAN, cmd : {"LOCAL", "PROXY", "other"},
   family : {"ip4", "ip6", "unix", "unspec"}, addr : {0, 12, 36, 216, 2040},
   list : TLVLists, arrives : Arrives]

Failed(n) == [ok |-> FALSE, used |-> n, local |-> FALSE, addrs |-> FALSE, raw |-> <<>>]

Parsed(n, local, addrs, raw) ==
  [ok |-> TRUE, used |-> n, local |-> local, addrs |-> addrs, raw |-> raw]

-----------------------------------------------------------------------------
(* Where a CRLF ends: with the line, and maybe two bytes later, in what    *)
(* the client sends itself.                                                *)
Ends(w) == {w.len} \cup IF w.crlf THEN {w.len + 2} ELSE {}

(* parseV1Header and split: four fields that parse, any others ignored.    *)
(* A line that was read past its end has the CRLF in its last field.       *)
parseV1Header(w, end) ==
  IF end = w.len /\ w.fields \in {"four", "five"}
  THEN Parsed(end, FALSE, TRUE, <<>>) ELSE Failed(end)

(* Mutant: the last of the 107 bytes is not looked at. *)
readUntilCRLFShort(w, idx) ==
  LET found == {p \in Ends(w) : p > idx /\ p < 107 /\ p <= w.arrives}
  IN IF found = {} THEN 0 ELSE Min(found)

(* The first CRLF that ends beyond the bytes already read: 0 if there is   *)
(* none in the 107 bytes a line may have, or the peer closes before.       *)
readUntilCRLF(w, idx) ==
  LET found == {p \in Ends(w) : p > idx /\ p <= 107 /\ p <= w.arrives}
  IN IF found = {} THEN 0 ELSE Min(found)

(* 13 bytes are read already; an address line is read up to the shortest   *)
(* line of its kind, and then byte by byte.                                *)
readV1Header(w) ==
  LET idx == CASE w.proto = "TCP4" -> 32 [] w.proto = "TCP6" -> 24 [] OTHER -> 13
      end == IF idx \in Ends(w) /\ w.proto # "UNKNOWN" THEN idx ELSE readUntilCRLF(w, idx)
  IN IF w.proto = "OTHER" \/ w.arrives < idx THEN Failed(idx)
     ELSE IF end = 0 THEN Failed(107)
     ELSE IF w.proto = "UNKNOWN" THEN Parsed(end, TRUE, FALSE, <<>>)
     ELSE parseV1Header(w, end)

-----------------------------------------------------------------------------
(* The bytes of the TLVs.                                                  *)
EncodedLen(list) == IF list = <<>> THEN 0 ELSE Past(list[Len(list)])

ByteAt(list, p) ==
  LET t == list[CHOOSE i \in DOMAIN list : list[i].at < p /\ p <= Past(list[i])] IN
  CASE p = t.at + 2 -> t.len \div 256
    [] p = t.at + 3 -> t.len % 256
    [] OTHER -> t.type

Encode(list) == [p \in 1 .. EncodedLen(list) |-> ByteAt(list, p)]

(* The rest of a version 2 header: addresses, then TLVs. *)
Trailing(w) == [i \in 1..w.addr |-> 0] \o Encode(w.list)

readV2Header(w) ==
  LET tr == Trailing(w)
      length == Len(tr)
      offset == CASE w.cmd = "PROXY" /\ w.family = "ip4" -> 12
                  [] w.cmd = "PROXY" /\ w.family = "ip6" -> 36
                  [] OTHER -> 0
  IN IF w.arrives < 16 \/ ~w.two \/ length > 2048 THEN Failed(16)
     ELSE IF w.arrives < 16 + length THEN Failed(w.arrives)
     ELSE IF w.cmd = "PROXY" /\ (length = 0 \/ length < offset \/ w.family = "unix")
     THEN Failed(16 + length)
     ELSE Parsed(16 + length, w.cmd = "LOCAL", offset > 0,
                 SubSeq(tr, offset + 1, length))

-----------------------------------------------------------------------------
HeaderInit ==
  /\ wire \in V1Wires \cup V2Wires \cup [v : {0}, arrives : Arrives]
  /\ hdr = <<>> /\ cursor = [offset |-> 0, map |-> {}] /\ tlvs = <<>>

(* ReadHeader: the first 13 bytes tell the version. *)
ReadHeader ==
  /\ hdr = <<>>
  /\ hdr' = IF wire.arrives < 13 \/ wire.v = 0 THEN Failed(13)
            ELSE IF wire.v = 2 THEN readV2Header(wire) ELSE readV1Header(wire)
  /\ UNCHANGED <<wire, cursor, tlvs>>

(* A turn of the loop of ParseTLVs.  The next offset adds the end of the   *)
(* value, which counts from the start, to the offset; an error is the map  *)
(* {<<>>}.                                                                 *)
ParseTLVs ==
  /\ hdr # <<>> /\ tlvs = <<>>
  /\ hdr.ok /\ wire.v = 2
  /\ LET raw == hdr.raw
         offset == cursor.offset
         begin == offset + 3
         end == begin + raw[offset + 2] * 256 + raw[offset + 3]
     IN IF ~(begin < Len(raw)) THEN tlvs' = <<cursor.map>> /\ UNCHANGED cursor
        ELSE IF end > Len(raw) THEN tlvs' = <<{<<>>}>> /\ UNCHANGED cursor
        ELSE /\ cursor' = [offset |-> offset + end,
                           map |-> {m \in cursor.map : m[1] # raw[offset + 1]}
                                     \cup {<<raw[offset + 1], SubSeq(raw, begin + 1, end)>>}]
             /\ UNCHANGED tlvs
  /\ UNCHANGED <<wire, hdr>>

HeaderNext == ReadHeader \/ ParseTLVs

HeaderSpec == HeaderInit /\ [][HeaderNext]_headerVars

(* RemoteAddr of the connection (LocalAddr alike): its own without a       *)
(* header or with a local one, else the header's, which may be nil.        *)
RemoteAddr ==
  IF ~hdr.ok \/ hdr.local THEN "conn" ELSE IF hdr.addrs THEN "header" ELSE "nil"

-----------------------------------------------------------------------------
(* A header as the protocol has it.  The address block of a LOCAL command  *)
(* and of the family unspec is the sender's affair: there may be one.      *)
WellFormed(w) ==
  CASE w.v = 1 -> /\ w.len <= 107
                  /\ \/ w.proto = "UNKNOWN" /\ w.len >= 15
                     \/ w.proto = "TCP4" /\ w.fields = "four" /\ w.len >= 32
                     \/ w.proto = "TCP6" /\ w.fields = "four" /\ w.len >= 22
    [] w.v = 2 -> /\ w.two
                  /\ \/ w.cmd = "LOCAL"
                     \/ w.cmd = "PROXY" /\ w.family = "ip4" /\ w.addr = 12
                     \/ w.cmd = "PROXY" /\ w.family = "ip6" /\ w.addr = 36
                     \/ w.cmd = "PROXY" /\ w.family = "unix" /\ w.addr = 216
                     \/ w.cmd = "PROXY" /\ w.family = "unspec"
    [] OTHER -> FALSE

HeaderLength(w) == IF w.v = 1 THEN w.len ELSE 16 + Len(Trailing(w))

(* The headers of the protocol that the code has no place for: a TCP6 line *)
(* shorter than `PROXY TCP6 ::1 ::1 2 3` (proxyproto/v1.go:53 takes that   *)
(* for the shortest; :: is shorter than ::1), more than 2048 bytes         *)
(* (proxyproto/v2.go:57), a PROXY command with nothing behind it           *)
(* (proxyproto/v2.go:81), which the family unspec allows, and UNIX         *)
(* addresses (proxyproto/v2.go:127).                                       *)
Unsupported(w) ==
  IF w.v = 1 THEN w.proto = "TCP6" /\ w.len < 24
  ELSE \/ Len(Trailing(w)) > 2048
       \/ w.cmd = "PROXY" /\ (w.family = "unix" \/ Len(Trailing(w)) = 0)

Local(w) == IF w.v = 1 THEN w.proto = "UNKNOWN" ELSE w.cmd = "LOCAL"

Addressed(w) ==
  IF w.v = 1 THEN w.proto # "UNKNOWN" ELSE w.cmd = "PROXY" /\ w.family \in {"ip4", "ip6"}

(* The TLVs the loop of ParseTLVs comes to: not an empty one at the end,   *)
(* as it stops where no more than three bytes are left                     *)
(* (proxyproto/proxy.go:55).                                               *)
Seen(list) ==
  IF list # <<>> /\ list[Len(list)].len = 0 THEN Len(list) - 1 ELSE Len(list)

(* At most two, of different types.  A third is looked for at the wrong    *)
(* place: the offset is advanced by the end of the value (:67), which      *)
(* counts from the start, so that what ParseTLVs makes of three or more is *)
(* not the TLV map its comment (:50) speaks of.                            *)
Short(list) ==
  /\ Len(list) <= 2
  /\ \A i, j \in DOMAIN list : list[i].type = list[j].type => i = j

Entry(tlv) == <<tlv.type, [k \in 1 .. tlv.len |-> tlv.type]>>

TLVsParsed ==
  Short(wire.list) => tlvs[1] = {Entry(wire.list[i]) : i \in 1 .. Seen(wire.list)}

(* HeaderExact (ReadHeader, proxyproto/proxy.go:72): a header of the       *)
(* protocol that arrives in full is accepted, but for the four kinds of    *)
(* Unsupported, and exactly its bytes are consumed, so that the client's   *)
(* first byte is the next one, whatever it is; every other is refused.  It *)
(* is local, or has addresses, as it says; it is neither, and RemoteAddr   *)
(* (proxyproto/net.go:55) then answers nil, exactly for a PROXY command of *)
(* the family unspec.  The TLVs handed on are those sent, behind the bytes *)
(* of an address block that is not read, if there is one; two of them at   *)
(* most are in the map of ParseTLVs, less an empty one at the end.         *)
HeaderExact ==
  hdr # <<>> /\ WellFormed(wire) =>
    IF HeaderLength(wire) <= wire.arrives /\ ~Unsupported(wire)
    THEN /\ hdr.ok /\ hdr.used = HeaderLength(wire)
         /\ hdr.local = Local(wire) /\ hdr.addrs = Addressed(wire)
         /\ RemoteAddr = "nil" <=> ~Local(wire) /\ ~Addressed(wire)
         /\ wire.v = 2 => hdr.raw = IF Addressed(wire) THEN Encode(wire.list) ELSE Trailing(wire)
         /\ tlvs # <<>> /\ (Addressed(wire) \/ wire.addr = 0) => TLVsParsed
    ELSE ~hdr.ok

=============================================================================
