------------------------------ MODULE IPNetwork ------------------------------
(***************************************************************************)
(* ppl7::IPAddress and ppl7::IPNetwork: addresses of two families, and the *)
(* networks that an address and the length of a prefix, or a netmask, name.*)
(*                                                                         *)
(* An address is a sequence of bytes of ByteBits bits.  Writing it as text *)
(* and reading it, which inet_ntop(3) and inet_pton(3) do, is left out: a  *)
(* text is an address, or none.                                            *)
(***************************************************************************)
EXTENDS Integers

CONSTANTS
    ByteBits,      \* 8
    IPv4Bytes,     \* 4
    IPv6Bytes      \* 16

ASSUME NetworkAssumption ==
    ByteBits \in Nat \ {0} /\ IPv4Bytes \in Nat \ {0} /\ IPv6Bytes \in Nat \ {0}

VARIABLES
    addr,          \* an IPAddress
    net,           \* an IPNetwork
    given          \* history: the address and prefix length that net was made of

\* The families, in the order in which they are compared.
UNKNOWN == 0
IPv4 == 4
IPv6 == 6

addr_len(family) == IF family = IPv4 THEN IPv4Bytes ELSE IPv6Bytes

\* Powers of two, up to the number of values of a byte.
Pow2[n \in 0..ByteBits] == IF n = 0 THEN 1 ELSE 2 * Pow2[n - 1]

ByteValues == 0..(Pow2[ByteBits] - 1)

IPAddresses == UNION {[family : {f}, bytes : [1..addr_len(f) -> ByteValues]] : f \in {IPv4, IPv6}}

\* An address that could not be read has no family; what its bytes are is not used.
NoAddress == [family |-> UNKNOWN, bytes |-> <<>>]
NoNetwork == [addr |-> NoAddress, prefixlen |-> -1]

NetworkInit == addr = NoAddress /\ net = NoNetwork /\ given = NoNetwork

-----------------------------------------------------------------------------
(* Masks                                                                   *)

\* The highest n bits of a byte
bytemask(n) == Pow2[ByteBits] - Pow2[ByteBits - n]

\* byte & bytemask(n)
masked(byte, n) == (byte \div Pow2[ByteBits - n]) * Pow2[ByteBits - n]

\* Bits of the prefix that are in byte i, of which the first is byte 1.
BitsIn(prefixlen, i) ==
    LET rest == prefixlen - (i - 1) * ByteBits
    IN  IF rest < 0 THEN 0 ELSE IF rest > ByteBits THEN ByteBits ELSE rest

\* Mutant of mask: the byte in which the prefix ends is kept whole.
maskWholeBytes(a, prefixlen) ==
    [a EXCEPT !.bytes = [i \in DOMAIN @ |-> IF BitsIn(prefixlen, i) > 0 THEN @[i] ELSE 0]]

\* From the last byte up: those behind the prefix are 0, the one in which it ends
\* is masked, and the ones before are left.
mask(a, prefixlen) ==
    [a EXCEPT !.bytes = [i \in DOMAIN @ |-> masked(@[i], BitsIn(prefixlen, i))]]

netmask(n) ==
    [family |-> n.addr.family,
     bytes  |-> [i \in DOMAIN n.addr.bytes |-> bytemask(BitsIn(n.prefixlen, i))]]

validateNetmaskByte(byte) ==
    IF \E n \in 0..(ByteBits - 1) : bytemask(n) = byte
    THEN CHOOSE n \in 0..(ByteBits - 1) : bytemask(n) = byte ELSE -1

\* Full bytes are counted until one is not full, and what follows that has to be 0;
\* -1 if it throws.
getPrefixlenFromNetmask(a) ==
    LET IsFull(i) == a.bytes[i] = Pow2[ByteBits] - 1
        len       == addr_len(a.family)
        stop      == CHOOSE i \in 1..len : ~IsFull(i) /\ \A k \in 1..(i - 1) : IsFull(k)
        bits      == validateNetmaskByte(a.bytes[stop])
    IN  IF \A i \in 1..len : IsFull(i) THEN len * ByteBits
        ELSE IF bits = -1 \/ \E i \in (stop + 1)..len : a.bytes[i] # 0 THEN -1
        ELSE (stop - 1) * ByteBits + bits

-----------------------------------------------------------------------------
(* Comparing                                                               *)

\* memcmp(3) of the bytes, after the families
Less(a, b) ==
    \/ a.family < b.family
    \/ /\ a.family = b.family
       /\ \E i \in DOMAIN a.bytes :
             a.bytes[i] < b.bytes[i] /\ \A k \in 1..(i - 1) : a.bytes[k] = b.bytes[k]

cmp_addr(a, b) == IF Less(a, b) THEN -1 ELSE IF Less(b, a) THEN 1 ELSE 0

first(n) == n.addr

\* "r[i]+=255-adr[i]", in a byte
last(n) ==
    [n.addr EXCEPT !.bytes = [i \in DOMAIN @ |->
        (@[i] + Pow2[ByteBits] - 1 - netmask(n).bytes[i]) % Pow2[ByteBits]]]

contains(n, a) == cmp_addr(a, first(n)) >= 0 /\ cmp_addr(a, last(n)) <= 0

-----------------------------------------------------------------------------
(* Operations.  One that throws leaves the network as it is.               *)

ValidPrefixlen(a, prefixlen) ==
    a.family # UNKNOWN /\ prefixlen >= 0 /\ prefixlen <= addr_len(a.family) * ByteBits

\* IPAddress::set(); without a valid text the address of before is lost.
SetAddress ==
    /\ addr' \in IPAddresses \cup {NoAddress}
    /\ UNCHANGED <<net, given>>

setNetwork(a, prefixlen) ==
    IF ValidPrefixlen(a, prefixlen)
    THEN /\ net' = [addr |-> mask(a, prefixlen), prefixlen |-> prefixlen]
         /\ given' = [addr |-> a, prefixlen |-> prefixlen]
         /\ UNCHANGED addr
    ELSE UNCHANGED <<addr, net, given>>

\* set(address, prefixlen), and a text with the number behind the slash
SetByLength ==
    \E prefixlen \in -1..(IPv6Bytes * ByteBits + 1) : setNetwork(addr, prefixlen)

\* A text with a netmask behind the slash, which may be of the other family; it
\* throws for an address that is no netmask.
SetByNetmask ==
    \E m \in IPAddresses :
        LET prefixlen == getPrefixlenFromNetmask(m)
        IN  setNetwork(addr, prefixlen)

NetworkNext == SetAddress \/ SetByLength \/ SetByNetmask

NetworkSpec == NetworkInit /\ [][NetworkNext]_<<addr, net, given>>

-----------------------------------------------------------------------------
(* Properties                                                              *)

\* Bit k of an address, of which the first is bit 0
Bit(a, k) == (a.bytes[k \div ByteBits + 1] \div Pow2[ByteBits - 1 - (k % ByteBits)]) % 2

\* A network contains exactly the addresses of its family that have the first
\* bits of the one it was made of, its last address is not before the first, and
\* its netmask has the length that it was made with.
MembersShareThePrefix ==
    net.prefixlen >= 0 =>
        /\ contains(net, addr) <=>
              /\ addr.family = given.addr.family
              /\ \A k \in 0..(given.prefixlen - 1) : Bit(addr, k) = Bit(given.addr, k)
        /\ cmp_addr(first(net), last(net)) <= 0
        /\ getPrefixlenFromNetmask(netmask(net)) = given.prefixlen

=============================================================================
