------------------------------- MODULE LookupAddr -------------------------------
(***************************************************************************)
(* lookup_addr.c as main() of raw_udp.c and of raw_ibverbs.c use it: the   *)
(* addresses of the sender come from the list of network interfaces        *)
(* (lookup_local_addr), those of the receiver from getaddrinfo and the ARP *)
(* table of the kernel (lookup_remote_addr); for the FPGA both come from   *)
(* strings (addr_from_strings).                                            *)
(*                                                                         *)
(* What the system answers is arbitrary.  An address is a number, 0 if     *)
(* all its bytes are zero, as they are in a struct addr that has not been  *)
(* filled in and in the MAC address of the loopback interface.  Four       *)
(* results are not checked by the code: that of getaddrinfo, after whose   *)
(* failure res is an uninitialised pointer, that of ether_aton, which may  *)
(* be NULL, ifa_addr, which is NULL for an interface that has no address,  *)
(* and arp_flags, which tell whether an ARP entry is complete: for an      *)
(* incomplete one SIOCGARP succeeds with a MAC address that is all zero.   *)
(***************************************************************************)
EXTENDS Naturals, Sequences

CONSTANTS
  Interface,   \* the name of the interface to be used
  Names,       \* names of network interfaces
  Values,      \* addresses of each family that are not all zero
  MaxEntries   \* bound: length of the interface list

ASSUME LookupAssumption ==
  /\ Interface \in Names
  /\ Values \subseteq Nat \ {0}
  /\ MaxEntries \in Nat

VARIABLES
  lookup_pc, \* where the caller and the lookups stand
  if_addrs,  \* the list of getifaddrs
  curr,      \* place in that list
  host,      \* the IPv4 address of the host the user named
  res,       \* the IPv4 address res points to
  resolved,  \* history: getaddrinfo succeeded
  arp,       \* the ARP table: MAC addresses by interface and IPv4 address
  local,     \* struct addr of the sender
  remote     \* struct addr of the receiver

lookupVars == <<lookup_pc, if_addrs, curr, host, res, resolved, arp, local, remote>>

(* The families of an entry's address; NULL for an entry without one. *)
Families == {"AF_INET", "AF_INET6", "AF_PACKET", "other", "NULL"}

Entries == [name: Names, family: Families, value: Values \cup {0}]

(* All interface lists of up to MaxEntries entries. *)
IfLists == UNION {[1 .. n -> Entries] : n \in 0 .. MaxEntries}

(* struct addr, and one that is all zero. *)
Addr == [mac: Values \cup {0}, ipv4: Values \cup {0}, ipv6: Values \cup {0}]

(* The ARP tables: entries for some of the addresses on each interface,    *)
(* with the MAC address 0 where the entry is incomplete.                   *)
ArpTables == UNION {[known -> Values \cup {0}] : known \in SUBSET (Names \X Values)}

ZeroAddr == [mac |-> 0, ipv4 |-> 0, ipv6 |-> 0]

LookupInit ==
  /\ lookup_pc = "main"
  /\ if_addrs = << >>
  /\ curr = 1
  /\ host \in Values
  /\ res = 0
  /\ resolved = FALSE
  /\ arp = << >>
  /\ local = ZeroAddr
  /\ remote = ZeroAddr

(* Where the lookups have ended: exit(EXIT_FAILURE), an access through an  *)
(* invalid pointer, and back in main() with both addresses.                *)
Ends == {"exited", "crashed", "found"}

--------------------------------------------------------------------------------
(* lookup_local_addr *)

GetIfAddrs ==
  /\ lookup_pc = "main"
  /\ \/ /\ if_addrs' \in IfLists
        /\ lookup_pc' = "local"
     \/ /\ lookup_pc' = "exited"
        /\ UNCHANGED if_addrs
  /\ UNCHANGED <<curr, host, res, resolved, arp, local, remote>>

(* Mutant of Filled: the first address of a family is kept. *)
FilledOnce(addr, entry) ==
  CASE entry.family = "AF_INET" /\ addr.ipv4 = 0  -> [addr EXCEPT !.ipv4 = entry.value]
    [] entry.family = "AF_INET6" /\ addr.ipv6 = 0 -> [addr EXCEPT !.ipv6 = entry.value]
    [] entry.family = "AF_PACKET"                 -> [addr EXCEPT !.mac = entry.value]
    [] OTHER                                      -> addr

(* The switch over the family of an address. *)
Filled(addr, entry) ==
  CASE entry.family = "AF_INET"   -> [addr EXCEPT !.ipv4 = entry.value]
    [] entry.family = "AF_INET6"  -> [addr EXCEPT !.ipv6 = entry.value]
    [] entry.family = "AF_PACKET" -> [addr EXCEPT !.mac = entry.value]
    [] entry.family = "other"     -> addr

(* One round of the loop over the list, and its end with freeifaddrs. *)
ScanEntry ==
  /\ lookup_pc = "local"
  /\ curr <= Len(if_addrs)
  /\ if_addrs[curr].name = Interface => if_addrs[curr].family # "NULL"
  /\ local' = IF if_addrs[curr].name = Interface THEN Filled(local, if_addrs[curr]) ELSE local
  /\ curr' = curr + 1
  /\ UNCHANGED <<lookup_pc, if_addrs, host, res, resolved, arp, remote>>

(* The switch reads the family through a NULL pointer. *)
ScanNull ==
  /\ lookup_pc = "local"
  /\ curr <= Len(if_addrs)
  /\ if_addrs[curr].name = Interface
  /\ if_addrs[curr].family = "NULL"
  /\ lookup_pc' = "crashed"
  /\ UNCHANGED <<if_addrs, curr, host, res, resolved, arp, local, remote>>

EndOfList ==
  /\ lookup_pc = "local"
  /\ curr > Len(if_addrs)
  /\ lookup_pc' = "resolve"
  /\ UNCHANGED <<if_addrs, curr, host, res, resolved, arp, local, remote>>

--------------------------------------------------------------------------------
(* lookup_remote_addr *)

(* getaddrinfo; its failure is only reported and leaves res as it was,     *)
(* uninitialised.                                                          *)
GetAddrInfo ==
  /\ lookup_pc = "resolve"
  /\ \/ resolved' = TRUE /\ res' = host
     \/ resolved' = FALSE /\ res' \in Values
  /\ arp' \in ArpTables
  /\ lookup_pc' = "arp"
  /\ UNCHANGED <<if_addrs, curr, host, local, remote>>

(* Following res crashes the program when it is not a valid pointer. *)
FollowRes ==
  /\ lookup_pc = "arp"
  /\ ~resolved
  /\ lookup_pc' = "crashed"
  /\ UNCHANGED <<if_addrs, curr, host, res, resolved, arp, local, remote>>

(* socket or ioctl fails; an address without an ARP entry is one reason.   *)
ArpFails ==
  /\ lookup_pc = "arp"
  /\ lookup_pc' = "exited"
  /\ UNCHANGED <<if_addrs, curr, host, res, resolved, arp, local, remote>>

(* Mutant of ArpAnswers: arp_dev is not set, and the entry may be one of   *)
(* another interface.                                                      *)
ArpOfAnyDevice ==
  /\ lookup_pc = "arp"
  /\ \E device \in Names, ipv6 \in Values \cup {0} :
       /\ <<device, res>> \in DOMAIN arp
       /\ remote' = [mac |-> arp[<<device, res>>], ipv4 |-> res, ipv6 |-> ipv6]
  /\ lookup_pc' = "found"
  /\ UNCHANGED <<if_addrs, curr, host, res, resolved, arp, local>>

(* The ioctl SIOCGARP finds an entry for the interface, complete or not;   *)
(* res may be anything if it was never set.  The IPv6 address stays zero   *)
(* without an argument and with one that inet_pton cannot read.            *)
ArpAnswers ==
  /\ lookup_pc = "arp"
  /\ <<Interface, res>> \in DOMAIN arp
  /\ \E ipv6 \in Values \cup {0} :
       remote' = [mac |-> arp[<<Interface, res>>], ipv4 |-> res, ipv6 |-> ipv6]
  /\ lookup_pc' = "found"
  /\ UNCHANGED <<if_addrs, curr, host, res, resolved, arp, local>>

--------------------------------------------------------------------------------
(* addr_from_strings, for both addresses.  A malformed IPv4 or IPv6 string *)
(* leaves zeros, a malformed MAC address is a NULL pointer.                *)
FromStrings ==
  /\ lookup_pc = "main"
  /\ \/ /\ local' \in Addr
        /\ remote' \in Addr
        /\ lookup_pc' = "found"
     \/ /\ lookup_pc' = "crashed"
        /\ UNCHANGED <<local, remote>>
  /\ UNCHANGED <<if_addrs, curr, host, res, resolved, arp>>

--------------------------------------------------------------------------------
Lookup ==
  \/ GetIfAddrs \/ ScanEntry \/ ScanNull \/ EndOfList \/ GetAddrInfo \/ FollowRes
  \/ ArpFails \/ ArpAnswers \/ FromStrings

LookupEnded == lookup_pc \in Ends /\ UNCHANGED lookupVars

LookupNext == Lookup \/ LookupEnded

LookupSpec == LookupInit /\ [][LookupNext]_lookupVars

--------------------------------------------------------------------------------
(* The places of the entries of one family for the interface. *)
Places(family) ==
  {k \in 1 .. Len(if_addrs) : if_addrs[k].name = Interface /\ if_addrs[k].family = family}

LastOf(family) ==
  IF Places(family) = {} THEN 0
  ELSE if_addrs[CHOOSE k \in Places(family) : \A j \in Places(family) : j <= k].value

(* The sender's addresses are those of the interface asked for and of no   *)
(* other: of each family the last one in the list, and zero when the       *)
(* interface has none or does not exist, which nobody reports.             *)
LocalIsLastListed ==
  lookup_pc \in {"resolve", "arp"} =>
    local = [mac |-> LastOf("AF_PACKET"), ipv4 |-> LastOf("AF_INET"), ipv6 |-> LastOf("AF_INET6")]

(* A receiver found over a resolved name is the host the user named, as    *)
(* the ARP table of the sender's own interface knows it: its MAC address   *)
(* is never that of another station or of the same IPv4 address on another *)
(* interface, and it is zero only if the entry is incomplete, which the    *)
(* code does not look at.  Over a name that was not resolved the receiver  *)
(* may be any station.                                                     *)
RemoteIsNamedHost ==
  lookup_pc = "found" /\ resolved =>
    /\ remote.ipv4 = host
    /\ <<Interface, host>> \in DOMAIN arp
    /\ remote.mac = arp[<<Interface, host>>]

================================================================================
