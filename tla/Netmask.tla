------------------------------- MODULE Netmask ------------------------------
(***************************************************************************)
(* The netmask that tuntap_set_ip computes for an IPv4 address, on words   *)
(* of W bits (32 in the code; a W of four bytes of one bit or more here),  *)
(* and the prefix it should stand for.                                     *)
(***************************************************************************)
EXTENDS Integers

CONSTANT W    \* width of uint32_t; a multiple of 4, the number of its bytes

ASSUME WidthAssumption == W \in Nat \ {0} /\ W % 4 = 0
\* What a power of two is, which the provers do not know.
ASSUME PowersAssumption == 2^0 = 1 /\ \A n \in 0..(W - 1) : 2^(n + 1) = 2 * 2^n

Byte == 2^(W \div 4)
Ones == Byte * Byte * Byte * Byte - 1
Words == 0..Ones
Not(x) == Ones - x
ShiftRight(x, n) == x \div 2^n

\* A little-endian host reverses the four bytes of the word.
htonl(x) == LET byte0 == x % Byte
                byte1 == (x \div Byte) % Byte
                byte2 == (x \div (Byte * Byte)) % Byte
                byte3 == (x \div (Byte * Byte * Byte)) % Byte
            IN  ((byte0 * Byte + byte1) * Byte + byte2) * Byte + byte3

\* The only test on the prefix length is IPv6's, for both families.
NetmaskRefused(netmask) == netmask < 0 \/ netmask > 4 * W

plain_shift(netmask) == {htonl(Not(ShiftRight(Ones, netmask % W)))} \* mutant of Masks
wide_shift(netmask) ==                                             \* mutant of Masks
  {Ones * 2^(IF netmask <= W THEN W - netmask ELSE 0)}
\* The word passed to tuntap_sys_set_ipv4. To shift by more than the width is
\* undefined: the builds either shift modulo the width or give 0.
Masks(netmask) ==
  IF netmask = W THEN {htonl(Ones)}
  ELSE IF netmask < W THEN {htonl(Not(ShiftRight(Ones, netmask)))}
  ELSE {htonl(Not(ShiftRight(Ones, netmask % W))), htonl(Not(0))}

\* Reference: read in network order, the netmask bits at the top are set.
Bit(x, k) == (x \div 2^k) % 2
IsPrefix(mask, netmask) ==
  \A k \in 0..(W - 1) : Bit(htonl(mask), k) = 1 <=> k >= W - netmask
=============================================================================
