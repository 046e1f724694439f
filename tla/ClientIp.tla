------------------------------- MODULE ClientIp -------------------------------
(***************************************************************************)
(* net.rs: the address for which a request is counted.  It is the peer of  *)
(* the connection, unless that is a proxy the server trusts; then the      *)
(* header X-Forwarded-For is read from its end for the first address that  *)
(* is not one.                                                             *)
(*                                                                         *)
(* The proxies are part of the model: a client writes what it likes into   *)
(* the headers, and each proxy that passes its request on appends the      *)
(* address from which it got it.                                           *)
(***************************************************************************)
EXTENDS Integers, Sequences, FiniteSetsExt

CONSTANTS
    Narrow,         \* bits of an IPv4 address: 32
    Wide,           \* bits of an IPv6 address, and of the register: 128
    Unparsable,     \* an entry that is no address
    Opaque,         \* an entry with characters that HeaderValue::to_str refuses
    Configured,     \* the values TRUSTED_PROXIES may have: sets of [base, prefix]
    MostEntries     \* bound of the model: the length of X-Forwarded-For

Addresses ==
    [family : {"v4"}, bits : 0 .. 2 ^ Narrow - 1] \cup [family : {"v6"}, bits : 0 .. 2 ^ Wide - 1]
Width(ip) == IF ip.family = "v4" THEN Narrow ELSE Wide
Entries == [base : Addresses, prefix : Nat]

ASSUME ClientIpAssumption ==
    /\ Narrow \in Nat /\ Wide \in Nat /\ 0 < Narrow /\ Narrow < Wide
    /\ Unparsable \notin Addresses /\ Opaque \notin Addresses
    /\ \A entries \in Configured : entries \subseteq Entries
    /\ MostEntries \in Nat

\* An address without a prefix has that of its full width; a prefix beyond it is dropped
\* with its entry.
ParseTrustedProxies(entries) == {e \in entries : e.prefix <= Width(e.base)}

\* A comparison of the bits behind the prefix.
SharesPrefixShort(ip, base, prefix) ==
    LET shift == prefix % Wide
    IN  ip.bits \div 2 ^ shift = base.bits \div 2 ^ shift
\* A register shifts by a count modulo its width, in a build without overflow checks: by
\* 0 for an IPv6 prefix of 0.  (With the checks of a debug build the request panics.)
SharesPrefix(ip, base, prefix) ==
    LET shift == (Width(ip) - prefix) % Wide
    IN  ip.bits \div 2 ^ shift = base.bits \div 2 ^ shift
IsTrustedProxy(ip, trusted) ==
    \E proxy \in trusted :
        proxy.base.family = ip.family /\ SharesPrefix(ip, proxy.base, proxy.prefix)

\* A walk from the front of the header.
PickFirst(places) == Min(places)
\* The last of the places of the header that the walk from its end meets first.
Pick(places) == Max(places)

\* The places of the header that have an address; none when it cannot be read.
AddressesIn(forwarded) ==
    {i \in DOMAIN forwarded :
        forwarded[i] # Unparsable /\ \A j \in DOMAIN forwarded : forwarded[j] # Opaque}

ClientIp(peer, forwarded, realIp, trusted) ==
    LET candidates == AddressesIn(forwarded)
        untrusted == {i \in candidates : ~ IsTrustedProxy(forwarded[i], trusted)}
    IN  IF ~ IsTrustedProxy(peer, trusted) THEN peer
        ELSE IF untrusted # {} THEN forwarded[Pick(untrusted)]
        ELSE IF candidates # {} THEN forwarded[Min(candidates)]
        ELSE IF realIp # Unparsable THEN realIp
        ELSE peer

-----------------------------------------------------------------------------
VARIABLES
    trusted,    \* AppState.trusted_proxies
    sender,     \* who made the request: no trusted proxy
    realIp,     \* the header X-Real-IP, as the sender wrote it
    forwarded,  \* the header X-Forwarded-For
    peer        \* whose connection the request is on

chain == <<trusted, sender, realIp, forwarded, peer>>

ChainInit ==
    /\ trusted \in {ParseTrustedProxies(entries) : entries \in Configured}
    /\ sender \in {ip \in Addresses : ~ IsTrustedProxy(ip, trusted)}
    /\ realIp \in Addresses \cup {Unparsable}
    /\ forwarded = << >>
    /\ peer = sender

\* The sender puts an entry of its own into the header.
Write(entry) ==
    /\ peer = sender
    /\ Len(forwarded) < MostEntries
    /\ forwarded' = Append(forwarded, entry)
    /\ UNCHANGED <<trusted, sender, realIp, peer>>

\* A trusted proxy passes the request on.
PassOn(proxy) ==
    /\ IsTrustedProxy(proxy, trusted)
    /\ Len(forwarded) < MostEntries
    /\ forwarded' = Append(forwarded, peer)
    /\ peer' = proxy
    /\ UNCHANGED <<trusted, sender, realIp>>

ChainNext ==
    \/ \E entry \in Addresses \cup {Unparsable, Opaque} : Write(entry)
    \/ \E proxy \in Addresses : PassOn(proxy)
ChainSpec == ChainInit /\ [][ChainNext]_chain

-----------------------------------------------------------------------------
\* Whatever addresses the sender wrote into its headers, and however many trusted
\* proxies the request went through, it is counted for the sender's own address: as long
\* as X-Forwarded-For can be read at all, for X-Real-IP stands in when it cannot.
CountedForItsSender ==
    (\A i \in DOMAIN forwarded : forwarded[i] # Opaque) =>
        ClientIp(peer, forwarded, realIp, trusted) = sender

\* The reference: the same family, and the same leading bits.
Bit(ip, k) == (ip.bits \div 2 ^ (Width(ip) - k)) % 2
InNetwork(ip, proxy) ==
    /\ ip.family = proxy.base.family
    /\ \A k \in 1 .. proxy.prefix : Bit(ip, k) = Bit(proxy.base, k)

\* The shifts decide as the reference does, for every prefix but 0 of IPv6.
TrustIsByPrefix ==
    (\A proxy \in trusted : proxy.base.family = "v6" => proxy.prefix > 0) =>
        \A ip \in Addresses :
            IsTrustedProxy(ip, trusted) <=> \E proxy \in trusted : InNetwork(ip, proxy)
=============================================================================
