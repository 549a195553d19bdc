----------------------------- MODULE AddrFilter -----------------------------
(***************************************************************************)
(* Which address messages concern the daemon: the choice of the address    *)
(* among the attributes of an ifaddr message, the flag mask, and the       *)
(* ignore_ips and ignore_cidrs filters.  Constant operators; both the      *)
(* address events and the resync snapshot go through them.                 *)
(*                                                                         *)
(* An address is a family and a number of W4 or W6 bits (32 and 128 in the *)
(* code); the IPv6 numbers whose upper bits are MapTag are IPv4-mapped.    *)
(***************************************************************************)
EXTENDS Integers, Sequences, Functions

CONSTANTS W4, W6, MapTag,
          Local4, Local6    \* the loopback and link-local numbers of each family

\* Powers of two.
pow2[n \in Nat] == IF n = 0 THEN 1 ELSE 2 * pow2[n - 1]

ASSUME WidthAssumption ==
    /\ W4 \in Nat /\ W4 > 1
    /\ W6 \in Nat /\ W6 > W4
    /\ MapTag \in 0 .. pow2[W6 - W4] - 1

Width(family) == IF family = 4 THEN W4 ELSE W6
Addr(family)  == [family : {family}, value : 0 .. pow2[Width(family)] - 1]
IpAddr == Addr(4) \cup Addr(6)

NoAddr == [family |-> 0, value |-> 0]

\* Neither unspecified nor loopback nor link-local.
is_valid_addr(a) ==
    a.value # 0 /\ a.value \notin (IF a.family = 4 THEN Local4 ELSE Local6)

\* An IPv4-mapped IPv6 address is the IPv4 address.
unmap_addr(a) ==
    IF a.family = 6 /\ a.value \div pow2[W4] = MapTag
    THEN [family |-> 4, value |-> a.value % pow2[W4]] ELSE a

\* Mutant: no special case for the empty prefix, whose shift is by the full width.
MaskAnyPrefix(value, prefix, w) == value - (value % pow2[(w - prefix) % w])

\* The upper bits of a value.  The shift that builds the mask is taken modulo the
\* width, as in the release build, so the empty prefix is a case of its own.
mask(value, prefix, w) ==
    IF prefix = 0 THEN 0 ELSE value - (value % pow2[(w - prefix) % w])

\* CidrMatcher::new: a set of masked networks per family and prefix length.
CidrMatcher(cidrs) ==
    [family \in {4, 6} |->
        LET of == {c \in cidrs : c[1].family = family}
        IN [prefix \in {c[2] : c \in of} |->
               {mask(c[1].value, prefix, Width(family)) :
                   c \in {d \in of : d[2] = prefix}}]]

contains(matcher, a) ==
    LET b == matcher[a.family]
    IN \E prefix \in DOMAIN b : mask(a.value, prefix, Width(a.family)) \in b[prefix]

\* The filters of a configuration: ips are unmapped, networks are kept as written.
IgnoreFilters(ips, cidrs, flag_mask) ==
    [ip_set |-> {unmap_addr(ip) : ip \in ips},
     cidr_matcher |-> CidrMatcher(cidrs),
     flag_mask |-> flag_mask]

should_ignore_addr(f, a) ==
    \/ unmap_addr(a) \in f.ip_set
    \/ contains(f.cidr_matcher, unmap_addr(a))

\* Mutant: IFA_ADDRESS is taken whether or not an address was seen.
AttrStepLast(family, r, attr) ==
    CASE attr.type = "IFA_FLAGS" -> [r EXCEPT !.flags = attr.flags]
      [] attr.type = "IFA_LOCAL" /\ family = 4 -> [r EXCEPT !.addr = attr.addr]
      [] attr.type = "IFA_ADDRESS" -> [r EXCEPT !.addr = attr.addr]
      [] OTHER -> r

\* One attribute of an ifaddr message: IFA_FLAGS replaces the flags of the header,
\* IFA_LOCAL is the address of an IPv4 message, IFA_ADDRESS of any other and of an
\* IPv4 message as long as no address was seen.
AttrStep(family, r, attr) ==
    CASE attr.type = "IFA_FLAGS" -> [r EXCEPT !.flags = attr.flags]
      [] attr.type = "IFA_LOCAL" /\ family = 4 -> [r EXCEPT !.addr = attr.addr]
      [] attr.type = "IFA_ADDRESS" /\ (family # 4 \/ r.addr = NoAddr) ->
            [r EXCEPT !.addr = attr.addr]
      [] OTHER -> r

\* What is known after n attributes.
AttrsRead(ifa) ==
    LET r[n \in 0 .. Len(ifa.attrs)] ==
            IF n = 0 THEN [flags |-> ifa.flags, addr |-> NoAddr]
            ELSE AttrStep(ifa.family, r[n - 1], ifa.attrs[n])
    IN r

parse_ifaddr_attrs(ifa) == AttrsRead(ifa)[Len(ifa.attrs)]

\* The key a message stands for; NoAddr if it does not concern the daemon.
parse_addr_from_ifaddr(ifa, parsed, ipv6, f) ==
    LET a == unmap_addr(parsed.addr)
    IN IF \/ ifa.scope # 0
          \/ ifa.family = 6 /\ ~ipv6
          \/ parsed.flags \cap f.flag_mask # {}
          \/ ~is_valid_addr(a)
          \/ should_ignore_addr(f, a)
       THEN NoAddr ELSE a

\* An event: an error if there is no address, nothing if it is filtered, else an
\* operation.  RTM_DELADDR passes through the same filters as RTM_NEWADDR.
parse_addr_event(type, ifa, ipv6, f) ==
    LET parsed == parse_ifaddr_attrs(ifa)
        a == parse_addr_from_ifaddr(ifa, parsed, ipv6, f)
    IN IF parsed.addr = NoAddr THEN [kind |-> "error"]
       ELSE IF a = NoAddr THEN [kind |-> "none"]
       ELSE [kind |-> "op", addr |-> a,
             action |-> IF type = "RTM_DELADDR" THEN "Delete" ELSE "Add"]

\* The keys of a snapshot: the dump's messages of the families asked for, the ones
\* that cannot be parsed skipped.
snapshot_interface_keys(ifas, ipv6, f) ==
    {parse_addr_from_ifaddr(ifa, parse_ifaddr_attrs(ifa), ipv6, f) :
        ifa \in {x \in ifas : /\ x.family = 6 => ipv6
                              /\ parse_ifaddr_attrs(x).addr # NoAddr}} \ {NoAddr}

-----------------------------------------------------------------------------
(* The inputs that are enumerated.                                          *)

Cidr == UNION {Addr(family) \X (0 .. Width(family)) : family \in {4, 6}}

\* The messages of a family with at most one attribute of each type, in any order.
Messages(family) ==
    LET flags == SUBSET {"temporary"}
        attr  == [type : {"IFA_LOCAL", "IFA_ADDRESS"}, addr : Addr(family)]
                    \cup [type : {"IFA_FLAGS"}, flags : flags]
        attrs == {s \in UNION {[1 .. n -> attr] : n \in 0 .. 3} :
                     \A i, j \in DOMAIN s : s[i].type = s[j].type => i = j}
    IN [family : {family}, scope : {0, 1}, flags : flags, attrs : attrs]
=============================================================================
