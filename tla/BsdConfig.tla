------------------------------ MODULE BsdConfig -----------------------------
(***************************************************************************)
(* tuntap_set_ip, tuntap_set_descr and tuntap_get_descr on the BSDs and    *)
(* Darwin, where an IPv4 address is set by deleting one and adding one,    *)
(* and a description is answered in one static buffer.  The addresses are  *)
(* those of one device, used by one thread, while an administrator changes *)
(* them; the buffer is shared by all devices.  How a call finds its        *)
(* interface is in IfConfig.                                               *)
(***************************************************************************)
EXTENDS Integers, FiniteSets

CONSTANTS Handles,   \* started devices, each on its own interface
          Addrs,
          Masks,     \* the masks asked for
          ClassMask, \* the mask that the kernel gives an address
          Descrs, NoText,
          Systems, Faults,
          MaxAdded   \* addresses that an interface has when one is added

ASSUME NoTextAssumption == NoText \in Descrs
ASSUME SystemsAssumption == Systems \subseteq {"openbsd", "netbsd", "freebsd", "darwin"}

VARIABLES sys,        \* the system; it never changes
          addrs,      \* the addresses of the interface
          pc, req,    \* the next ioctl of a tuntap_set_ip, its arguments
          last,       \* how the last tuntap_set_ip ended
          disputed,   \* ghost: the administrator has put an address in
          descr,      \* the description of each interface
          ifdescr,    \* tuntap_sys_get_descr's static buffer
          answer,     \* what tuntap_get_descr returned a pointer to
          had,        \* ghost: the descriptions each interface has had
          overwritten \* ghost: another handle's call has filled ifdescr since
addrVars == <<addrs, pc, req, last, disputed>>
descrVars == <<descr, ifdescr, answer, had, overwritten>>
vars == <<sys, addrVars, descrVars>>

Addresses == [addr : Addrs, mask : Masks \cup {ClassMask}]
Requests == [addr : Addrs, mask : Masks]

TypeOK == /\ sys \in Systems
          /\ addrs \in SUBSET Addresses
          /\ pc \in {"idle", "set", "mask"}
          /\ req \in Requests
          /\ last \in {"never", "done", "failed"}
          /\ disputed \in BOOLEAN
          /\ descr \in [Handles -> Descrs] /\ ifdescr \in Descrs
          /\ answer \in [Handles -> {"ifdescr", "empty"}]
          /\ had \in [Handles -> SUBSET Descrs]
          /\ overwritten \in [Handles -> BOOLEAN]

-----------------------------------------------------------------------------
Goto(step) == pc' = step
Return(outcome) == Goto("idle") /\ last' = outcome
ClassAddress(a) == [addr |-> a, mask |-> ClassMask]

\* SIOCDIFADDR deletes an address, which one is the kernel's business; its
\* result is ignored.
none_deleted == {addrs}                          \* mutant of Deleted
Deleted == IF addrs = {} THEN {{}} ELSE {addrs \ {a} : a \in addrs}

tuntap_sys_set_ipv4(r) ==
  /\ pc = "idle"
  /\ \E rest \in Deleted :
       /\ addrs' = rest
       /\ disputed' = (disputed /\ rest # {})
  /\ req' = r
  /\ Goto("set")
  /\ UNCHANGED <<sys, last, descrVars>>

\* SIOCAIFADDR: address and mask, or a new mask for an address that is there.
add_alias ==
  /\ pc = "set" /\ sys \in {"openbsd", "netbsd"}
  /\ addrs' = {a \in addrs : a.addr # req.addr} \cup {req}
  /\ Return("done")
  /\ UNCHANGED <<sys, req, disputed, descrVars>>

\* SIOCSIFADDR replaces an address by one with the mask of its class.
\* Darwin's call is given a struct ifaliasreq, of which the kernel reads the
\* part that is a struct ifreq: the name and the address, not the mask.
set_addr ==
  /\ pc = "set" /\ sys \in {"freebsd", "darwin"}
  /\ \E rest \in Deleted :
       addrs' = rest \cup {ClassAddress(req.addr)}
  /\ IF sys = "freebsd" THEN Goto("mask") /\ last' = last ELSE Return("done")
  /\ UNCHANGED <<sys, req, disputed, descrVars>>

\* SIOCSIFNETMASK, on FreeBSD.
set_mask ==
  /\ pc = "mask"
  /\ \E a \in addrs :
       addrs' = (addrs \ {a}) \cup {[a EXCEPT !.mask = req.mask]}
  /\ Return("done")
  /\ UNCHANGED <<sys, req, disputed, descrVars>>

ioctl_fails ==
  /\ \/ pc = "set" /\ sys \in {"openbsd", "netbsd"} /\ "SIOCAIFADDR" \in Faults
     \/ pc = "set" /\ sys \in {"freebsd", "darwin"} /\ "SIOCSIFADDR" \in Faults
     \/ pc = "mask" /\ (addrs = {} \/ "SIOCSIFNETMASK" \in Faults)
  /\ Return("failed")
  /\ UNCHANGED <<sys, addrs, req, disputed, descrVars>>

\* The administrator adds or deletes an address.
AdminAdds ==
  /\ Cardinality(addrs) < MaxAdded
  /\ \E a \in Addrs : addrs' = addrs \cup {ClassAddress(a)}
  /\ disputed' = TRUE
  /\ UNCHANGED <<sys, pc, req, last, descrVars>>
AdminDeletes ==
  /\ \E a \in addrs : addrs' = addrs \ {a}
  /\ disputed' = TRUE
  /\ UNCHANGED <<sys, pc, req, last, descrVars>>

-----------------------------------------------------------------------------
HasDescr == sys \in {"openbsd", "freebsd"}

\* SIOCSIFDESCR; the other systems refuse, like a call that fails.
tuntap_sys_set_descr(h, d) ==
  /\ HasDescr
  /\ descr' = [descr EXCEPT ![h] = d] /\ had' = [had EXCEPT ![h] = @ \cup {d}]
  /\ UNCHANGED <<sys, addrVars, ifdescr, answer, overwritten>>

\* SIOCGIFDESCR into the static buffer, to which a pointer is returned.
tuntap_sys_get_descr(h) ==
  /\ HasDescr
  /\ ifdescr' = descr[h]
  /\ answer' = [answer EXCEPT ![h] = "ifdescr"]
  /\ overwritten' = [g \in Handles |-> g # h]
  /\ UNCHANGED <<sys, addrVars, descr, had>>

buffer_anyway(h) ==                              \* mutant of no_descr
  /\ ~HasDescr \/ "SIOCGIFDESCR" \in Faults
  /\ answer' = [answer EXCEPT ![h] = "ifdescr"]
  /\ overwritten' = [overwritten EXCEPT ![h] = FALSE]
  /\ UNCHANGED <<sys, addrVars, descr, ifdescr, had>>

\* Without descriptions, or when the ioctl fails, it is a pointer to "".
no_descr(h) ==
  /\ ~HasDescr \/ "SIOCGIFDESCR" \in Faults
  /\ answer' = [answer EXCEPT ![h] = "empty"]
  /\ UNCHANGED <<sys, addrVars, descr, ifdescr, had, overwritten>>

Text(h) == IF answer[h] = "ifdescr" THEN ifdescr ELSE NoText

-----------------------------------------------------------------------------
Init == /\ sys \in Systems
        /\ addrs = {}
        /\ pc = "idle"
        /\ req \in Requests
        /\ last = "never"
        /\ disputed = FALSE
        /\ descr = [h \in Handles |-> NoText] /\ ifdescr = NoText
        /\ answer = [h \in Handles |-> "empty"]
        /\ had = [h \in Handles |-> {NoText}]
        /\ overwritten = [h \in Handles |-> FALSE]

Address == \/ \E r \in Requests : tuntap_sys_set_ipv4(r)
           \/ add_alias \/ set_addr \/ set_mask \/ ioctl_fails
           \/ AdminAdds \/ AdminDeletes
Description(h) == \/ \E d \in Descrs : tuntap_sys_set_descr(h, d)
                  \/ tuntap_sys_get_descr(h) \/ no_descr(h)

Next == Address \/ \E h \in Handles : Description(h)
Spec == Init /\ [][Next]_vars

-----------------------------------------------------------------------------
\* What doc/api.md promises of a call that succeeded: it "replaces the IP
\* address of the interface (...) with the given address addr and netmask".
Replaced == addrs = {req}

\* However many calls are made, and whichever ioctls fail, an interface that
\* nobody else configures never collects addresses: after a tuntap_set_ip
\* that succeeded it has the one asked for and no other, under the mask asked
\* for; after one that failed the old address is gone and at most the new one
\* is there, without its mask.  Darwin is left out of what is said of the
\* mask: there the promise is broken (DarwinNeverReplaces in BsdConfigProofs).
\* An address that somebody else put in is forgotten once a call has left none.
SettledAddress ==
  pc = "idle" /\ ~disputed =>
    CASE last = "never" -> addrs = {}
      [] last = "done" -> /\ \E a \in addrs : addrs = {a} /\ a.addr = req.addr
                          /\ sys # "darwin" => Replaced
      [] last = "failed" -> addrs \subseteq {ClassAddress(req.addr)}

\* The text behind the pointer that tuntap_get_descr returned is one that the
\* device's own interface has had, or empty, until a call on another device
\* fills the buffer: one that failed never shows what another device left.
OwnDescription ==
  \A h \in Handles : overwritten[h] \/ Text(h) \in had[h] \cup {NoText}
=============================================================================
