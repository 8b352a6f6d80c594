--------------------------- MODULE BsdConfigProofs --------------------------
(***************************************************************************)
(* The properties of BsdConfig for any number of devices, addresses, masks *)
(* and descriptions, on each system and with any faults.                   *)
(***************************************************************************)
EXTENDS BsdConfig, TLAPS

\* Between the deletion and the ioctl that sets the address there is none;
\* between the address and its mask there is that address alone.
HalfSet == ~disputed => /\ pc = "set" => addrs = {}
                        /\ pc = "mask" => /\ sys = "freebsd"
                                          /\ addrs = {ClassAddress(req.addr)}
\* Darwin's kernel was given no mask.
Ended == pc = "idle" /\ ~disputed /\ last = "done"
NoMask == sys = "darwin" /\ Ended => addrs = {ClassAddress(req.addr)}
AddrInv == SettledAddress /\ HalfSet /\ NoMask

\* A description in the buffer has been its interface's.
Known == /\ \A h \in Handles : descr[h] \in had[h]
         /\ OwnDescription

BsdInv == TypeOK /\ AddrInv /\ Known

-----------------------------------------------------------------------------
\* The first state satisfies the invariant.
LEMMA InitBsdInv == Init => BsdInv
<1> SUFFICES ASSUME Init PROVE BsdInv
  OBVIOUS
<1>1. TypeOK
  BY NoTextAssumption DEF Init, TypeOK
<1>2. AddrInv
  BY DEF Init, AddrInv, HalfSet, SettledAddress, NoMask, Ended
<1>3. Known
  BY DEF Init, Known, OwnDescription, Text
<1>4. QED BY <1>1, <1>2, <1>3 DEF BsdInv

\* An address with the mask of its class is an address.
LEMMA ClassAddressType == \A a \in Addrs : ClassAddress(a) \in Addresses
  BY DEF ClassAddress, Addresses

\* A deletion leaves some of the addresses.
LEMMA DeletedType == ASSUME TypeOK, NEW rest \in Deleted PROVE rest \in SUBSET addrs
  BY DEF Deleted, TypeOK

\* One address at most is left without by a deletion.
LEMMA DeletedOne == ASSUME NEW a, addrs \subseteq {a}, NEW rest \in Deleted PROVE rest = {}
<1>1. CASE addrs = {}
  BY <1>1 DEF Deleted
<1>2. CASE addrs # {}
  BY <1>2 DEF Deleted
<1>3. QED BY <1>1, <1>2

\* Every step keeps the types.
LEMMA TypeStep == ASSUME TypeOK, [Next]_vars PROVE TypeOK'
<1> USE DEF TypeOK, addrVars, descrVars, Goto, Return
<1>1. ASSUME NEW r \in Requests, tuntap_sys_set_ipv4(r) PROVE TypeOK'
  BY <1>1, DeletedType DEF tuntap_sys_set_ipv4
<1>2. CASE add_alias
  BY <1>2 DEF add_alias, Requests, Addresses
<1>3. CASE set_addr
  <2>1. PICK rest \in Deleted : addrs' = rest \cup {ClassAddress(req.addr)}
    BY <1>3 DEF set_addr
  <2>2. addrs' \in SUBSET Addresses
    BY <2>1, DeletedType, ClassAddressType DEF Requests
  <2>3. QED BY <1>3, <2>2 DEF set_addr
<1>4. CASE set_mask
  BY <1>4 DEF set_mask, Requests, Addresses
<1>5. CASE ioctl_fails
  BY <1>5 DEF ioctl_fails
<1>6. CASE AdminAdds \/ AdminDeletes
  BY <1>6, ClassAddressType DEF AdminAdds, AdminDeletes
<1>7. ASSUME NEW h \in Handles, Description(h) PROVE TypeOK'
  <2>1. ASSUME NEW d \in Descrs, tuntap_sys_set_descr(h, d) PROVE TypeOK'
    BY <2>1 DEF tuntap_sys_set_descr
  <2>2. CASE tuntap_sys_get_descr(h)
    BY <2>2 DEF tuntap_sys_get_descr
  <2>3. CASE no_descr(h)
    BY <2>3 DEF no_descr
  <2>4. QED BY <1>7, <2>1, <2>2, <2>3 DEF Description
<1>8. CASE UNCHANGED vars
  BY <1>8 DEF vars
<1>9. QED BY <1>1, <1>2, <1>3, <1>4, <1>5, <1>6, <1>7, <1>8 DEF Next, Address

\* Every ioctl leaves the addresses as the next one expects them.
LEMMA AddrStep == ASSUME BsdInv, [Next]_vars PROVE AddrInv'
<1> USE DEF BsdInv, AddrInv, SettledAddress, HalfSet, NoMask, Ended, Replaced, addrVars,
            descrVars, Goto, Return
<1> USE DEF TypeOK
<1>1. ASSUME NEW r \in Requests, tuntap_sys_set_ipv4(r) PROVE AddrInv'
  <2>1. PICK rest \in Deleted : addrs' = rest /\ disputed' = (disputed /\ rest # {})
    BY <1>1 DEF tuntap_sys_set_ipv4
  <2>2. pc = "idle" /\ pc' = "set"
    BY <1>1 DEF tuntap_sys_set_ipv4
  <2>3. ~disputed => \E a : addrs \subseteq {a}
    BY <2>2
  <2>4. ~disputed' => addrs' = {}
    BY <2>1, <2>3, DeletedOne
  <2>5. QED BY <2>2, <2>4
<1>2. CASE add_alias
  BY <1>2 DEF add_alias
<1>3. CASE set_addr
  <2>1. PICK rest \in Deleted : addrs' = rest \cup {ClassAddress(req.addr)}
    BY <1>3 DEF set_addr
  <2>2. ~disputed => addrs' = {ClassAddress(req'.addr)}
    BY <1>3, <2>1 DEF set_addr, Deleted
  <2>3. CASE sys = "freebsd"
    BY <1>3, <2>2, <2>3 DEF set_addr
  <2>4. CASE sys = "darwin"
    <3>1. pc' = "idle" /\ last' = "done" /\ UNCHANGED <<sys, req, disputed>>
      BY <1>3, <2>4 DEF set_addr
    <3>2. ClassAddress(req'.addr).addr = req'.addr
      BY DEF ClassAddress
    <3>3. SettledAddress'
      BY <2>2, <2>4, <3>1, <3>2
    <3>4. HalfSet' /\ NoMask'
      BY <2>2, <3>1
    <3>5. QED BY <3>3, <3>4
  <2>5. QED BY <1>3, <2>3, <2>4 DEF set_addr
<1>4. CASE set_mask
  <2>1. pc = "mask" /\ pc' = "idle" /\ last' = "done" /\ UNCHANGED <<sys, req, disputed>>
    BY <1>4 DEF set_mask
  <2>2. ASSUME ~disputed PROVE addrs' = {req'} /\ sys' # "darwin"
    <3>1. addrs = {ClassAddress(req.addr)} /\ sys = "freebsd"
      BY <2>1, <2>2
    <3>2. addrs' = {[ClassAddress(req.addr) EXCEPT !.mask = req.mask]}
      BY <1>4, <3>1 DEF set_mask
    <3>3. [ClassAddress(req.addr) EXCEPT !.mask = req.mask] = req
      BY DEF ClassAddress, Requests
    <3>4. QED BY <2>1, <3>1, <3>2, <3>3
  <2>3. QED BY <2>1, <2>2
<1>5. CASE ioctl_fails
  BY <1>5 DEF ioctl_fails
<1>6. CASE AdminAdds \/ AdminDeletes
  BY <1>6 DEF AdminAdds, AdminDeletes
<1>7. ASSUME NEW h \in Handles, Description(h) PROVE AddrInv'
  BY <1>7 DEF Description, tuntap_sys_set_descr, tuntap_sys_get_descr, no_descr
<1>8. CASE UNCHANGED vars
  BY <1>8 DEF vars
<1>9. QED BY <1>1, <1>2, <1>3, <1>4, <1>5, <1>6, <1>7, <1>8 DEF Next, Address

\* Every step keeps a description among those the interface has had.
LEMMA KnownStep == ASSUME BsdInv, [Next]_vars PROVE Known'
<1> USE DEF BsdInv, TypeOK, Known, OwnDescription, Text, descrVars
<1>1. CASE Address \/ UNCHANGED vars
  <2>1. UNCHANGED descrVars
    BY <1>1 DEF Address, vars, tuntap_sys_set_ipv4, add_alias, set_addr, set_mask, ioctl_fails,
       AdminAdds, AdminDeletes
  <2>2. QED BY <2>1
<1>2. ASSUME NEW h \in Handles, NEW d \in Descrs, tuntap_sys_set_descr(h, d) PROVE Known'
  BY <1>2 DEF tuntap_sys_set_descr
<1>3. ASSUME NEW h \in Handles, tuntap_sys_get_descr(h) PROVE Known'
  BY <1>3 DEF tuntap_sys_get_descr
<1>4. ASSUME NEW h \in Handles, no_descr(h) PROVE Known'
  BY <1>4 DEF no_descr
<1>5. QED BY <1>1, <1>2, <1>3, <1>4 DEF Next, Description

\* The inductive invariant holds in every reachable state.
THEOREM Invariance == Spec => []BsdInv
<1>1. BsdInv /\ [Next]_vars => BsdInv'
  BY TypeStep, AddrStep, KnownStep DEF BsdInv
<1>2. QED BY <1>1, InitBsdInv, PTL DEF Spec

\* An interface that nobody else configures never collects addresses, and
\* ends with the one asked for, on Darwin under any mask, or, after a failure,
\* without the old one.
THEOREM AddressSettles == Spec => []SettledAddress
<1>1. BsdInv => SettledAddress
  BY DEF BsdInv, AddrInv
<1>2. QED BY <1>1, Invariance, PTL

\* What doc/api.md says of tuntap_set_ip is false on Darwin of every call that
\* succeeds, unless the mask asked for is the one of the address's class:
\* SIOCSIFADDR, given a struct ifaliasreq, does not read the mask.
THEOREM DarwinNeverReplaces ==
  ASSUME ClassMask \notin Masks
  PROVE  Spec => [](sys = "darwin" /\ Ended => ~Replaced)
<1>1. BsdInv => (sys = "darwin" /\ Ended => ~Replaced)
  <2> SUFFICES ASSUME BsdInv, sys = "darwin", Ended PROVE ~Replaced
    OBVIOUS
  <2>1. addrs = {ClassAddress(req.addr)} /\ req.mask \in Masks
    BY DEF BsdInv, AddrInv, NoMask, TypeOK, Requests
  <2>2. ClassAddress(req.addr) # req
    BY <2>1 DEF ClassAddress
  <2>3. QED BY <2>1, <2>2 DEF Replaced
<1>2. QED BY <1>1, Invariance, PTL

\* tuntap_get_descr shows a description of the device's own interface until
\* a call on another device fills the shared buffer.
THEOREM DescriptionIsOwn == Spec => []OwnDescription
<1>1. BsdInv => OwnDescription
  BY DEF BsdInv, Known
<1>2. QED BY <1>1, Invariance, PTL
=============================================================================
