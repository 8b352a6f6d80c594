# Verification of libtuntap

libtuntap is a small C library that creates and configures tun/tap interfaces
on Linux, the BSDs, Darwin and Windows, with a C++ binding. This directory holds
TLA+ models of it, translated from the code, the TLC configurations that check
them on small instances, and proofs that hold for instances of any size.

    tlc -workers 2 -config linux_one.cfg MCTunTapLinux
    tlc -workers 2 -config config_addr.cfg MCIfConfig
    tlc -workers 2 -config io.cfg MCDeviceIO
    tlapm TunTapLinuxRefinement.tla
    tlapm DeviceIOProofs.tla

The module of each run is in section 4.

## 1. The system

| Part | Code | State | Operations |
|---|---|---|---|
| Handle lifecycle | `tuntap.c`, `tuntap-unix.c` | `struct device`: `tun_fd`, `ctrl_sock`, `if_name` (`flags`, `hwaddr`) | `tuntap_init`, `tuntap_start`, `tuntap_set_ifname`, `tuntap_release`, `tuntap_destroy` |
| Linux back-end | `tuntap-unix-linux.c` | locals of `tuntap_sys_start`: `fd`, `ifr` | `tuntap_sys_start`, `tuntap_sys_destroy`, `tuntap_sys_set_ifname`, set address |
| BSD and Darwin back-ends | `tuntap-unix-{openbsd,netbsd,freebsd,darwin,bsd}.c` | locals of `tuntap_sys_start`: `fd`, `tun`; one static buffer `ifdescr` | the same functions on `/dev/tunN` nodes, descriptions |
| Interface configuration | `tuntap.c`, `tuntap-unix.c`, back-ends | cached `flags` and `hwaddr`; the kernel's flags, MTU, addresses | `up`, `down`, MTU, MAC, IP, description |
| Packet I/O | `tuntap-unix.c` | none of its own; the packet queue, the blocking mode | `read`, `write`, their `_tm` forms, `get_readable`, `set_nonblocking`, `set_debug` |
| Windows back-end | `tuntap-windows.c` | `tun_fd`, one `OVERLAPPED` per call | the whole API, over the registry and overlapped I/O |
| Logging | `tuntap_log.c` | the call-back `tuntap_log` | `log_set_cb`, default log, `hexdump`, `chksum` |
| C++ binding | `bindings/cpp` | a `unique_ptr` and the persistence bit of its deleter | constructor, move, `release`, destructor, getters and setters |

How the parts interact. The client calls the portable half, which calls the
back-end's `tuntap_sys_*` functions directly; there are no call-backs except the
log's and no threads of the library's own. What two handles, two threads or the
rest of the application share is in the kernel: the descriptor table of the
process, where `close` frees a number and the next `open` or `socket` takes the
lowest free one, and the interfaces of the system, found by descriptor (an
attached file) or by name (an ioctl on the control socket with the cached
`if_name`). The interfaces also outlive the process when they are persistent.

What is hard. Nothing the library does is atomic: `tuntap_start` is up to seven
system calls, each may fail, and another thread may run between any two.
The kernel state is reached through cached keys, a descriptor number and
a name, that may have gone stale. `tuntap_destroy` is two calls or more. A crash
leaves the interfaces that were made persistent. Timed reads and writes are
guarded by a `select` that another thread can make obsolete. On Windows every
operation on a handle signals every other.

What makes each part correct.

- Lifecycle and back-ends: a started device owns one descriptor, one socket and
  one interface, alone, under the name it reports; every failure path gives
  back what it took; persistence lasts until `tuntap_destroy` and no longer;
  no descriptor of anybody else is ever touched.
- Configuration: the cached flags, address and name agree with the interface
  or the call said it failed; a failed call leaves a known configuration; the
  netmask of every prefix length is right.
- Packet I/O: a timed call ends when its time has passed; a buffer of the size
  asked for is large enough; a call on a non-blocking device ends.
- Windows: a device has an adapter to itself; an operation does not outlive its
  call.
- C++ binding: each handle is given back exactly once, in the way its
  persistence bit says.

`PROJECT.json` lists the hazards of this code at the lines where they bite,
with the properties that cover them, or why none can.

## 2. What is modelled

| Module | Models | Extends |
|---|---|---|
| `DeviceLifecycle` | the abstract promise of `tuntap.h`: devices, the interface each holds, the persistent ones; `SpecByName`, what is left of it on the BSDs | |
| `Kernel` | the descriptor table and the interfaces, from how the library uses them | external |
| `TunTapUnix` | the half of the lifecycle that every Unix shares | `Kernel` |
| `TunTapLinux` | the lifecycle on Linux: the back-end, the clients, crash and restart, the properties, the refinement mapping to `DeviceLifecycle` | `TunTapUnix` |
| `TunTapBSD` | the lifecycle on OpenBSD, NetBSD, FreeBSD and Darwin, with a mapping to `DeviceLifecycle` | `TunTapUnix` |
| `Netmask` | the mask `tuntap_set_ip` computes, and the prefix it should stand for | |
| `IfConfig` | the configuration of started devices on Linux beside an administrator | `Netmask` |
| `BsdConfig` | IPv4 addresses and descriptions on the BSDs and Darwin | |
| `DeviceIO` | packets on one Unix device used by several threads | |
| `TunTapWindows` | the Windows back-end: choice of the adapter, overlapped operations | |
| `Binding` | the C++ objects | `DeviceLifecycle` |
| `MC...` | instances for TLC of the module of that name | that module |
| `...Proofs`, `TunTapLinuxRefinement` | inductive invariants, theorems, proofs | that module |

How they compose. `TunTapUnix` is completed by a back-end, `TunTapLinux` or
`TunTapBSD`, over one `Kernel`. `Binding` is a client of `DeviceLifecycle`, and
`TunTapLinux` is shown to implement `DeviceLifecycle`: what the binding relies on
is what the library does, up to the first theft of a descriptor. `TunTapBSD`
implements a weaker form of it, `SpecByName`: there `tuntap_destroy` finds its
interface by name, in FreeBSD after the device has let go of it (`Unkeep`), so
that the persistent interface it ends is one that no other device holds, its own
or not. `IfConfig`,
`BsdConfig` and `DeviceIO` are further views of devices that are started: there a
start or a release is one step, and the interfaces have flags, addresses and an
MTU, or packets, which the lifecycle leaves out.

### Lifecycle on Unix: `TunTapUnix`, `TunTapLinux`, `TunTapBSD`

`tun_fd`, `ctrl_sock` and `if_name` are the fields of each handle's
`struct device`; `arg` holds the arguments of the start under way or last
successful. `pc[h]` names the system call the thread that uses handle `h` makes
next: `null` (no device), `idle` (between two calls of the client), `clean`
(inside `tuntap_start`), `release` (`tuntap_destroy` after its ioctl),
`close_sock` (inside `tuntap_release`), and the steps of the back-end.
`fd`, with `ifr` on Linux and `unit` on the BSDs, are the locals of
`tuntap_sys_start`.

`files` is the descriptor table: each open file has a kind (a socket, a tun
descriptor, a file of the application), the interface it is attached to and a
ghost owner. `iface` is the table of interfaces: type, name, persistence.
`stolen` is a ghost that says whether some `close` hit a descriptor its caller
had not opened.

Names are data of which only the length and the equality matter: `<<"tun", 3>>`
is tun3, `<<"user", n>>` one name of n characters, `<<"user", 0>>` the empty
string. The lengths are what `tuntap_set_ifname` tests (16 is accepted, 17 is
not) and what the kernel cuts (15).

One action is one system call with the code around it, so every interleaving
of system calls of different handles is explored.

| Code | Actions |
|---|---|
| `tuntap_init` | `tuntap_init`, `tuntap_init_fails` |
| `tuntap_start` | `tuntap_start` (the guard, `socket`, the persistent wild card), `clean`, `StartSucceeds` |
| `tuntap_sys_start` (Linux) | `open_clone` (arguments, `open`, the unit's name), `setiff_ok`/`setiff_fails`, `set_persist`, `get_flags_ok`/`get_flags_fails` |
| `tuntap_sys_start` (BSDs, Darwin) | `sys_start` (checks), `create_dev`, `recreate_dev`, `open_unit`, `open_scan`, `open_clone`, `get_name`, `get_flags`, `set_flags` |
| `tuntap_set_ifname` | `tuntap_set_ifname` with `SysSetIfname` and `CacheName` |
| `tuntap_release` | `tuntap_release` (first `close`), `release_ctrl_sock` (second `close`, `free`) |
| `tuntap_destroy` | Linux: `tuntap_destroy` (the ioctl); FreeBSD: `close_early`, `sys_destroy`; OpenBSD, NetBSD: `sys_destroy`; Darwin: `sys_destroy_nothing`; then the two of `tuntap_release` |
| the application | `AppOpen`, `AppClose` (with `TunTapLinux`) |
| `exit`, a crash | `exit`: every file is closed, persistent interfaces stay, a new process starts |

A system call fails where the kernel must refuse it (no free descriptor, a name
in use, a stale descriptor) and, for the calls listed in the constant `Faults`,
also for reasons of its own. A descriptor's number is the lowest free one, as
POSIX says: that is what makes a stale number come back.

`TunTapBSD` is one module for four systems: `os`, chosen in the first state,
says which; `CreatesFirst`, `Scans`, `AsksName` and `Invalid` say in which of the
four a call is made and what is checked before it. An interface is a node
`<<"tun", N>>` or `<<"tap", N>>`, `TUNTAP_ID_MAX` stands for the 256 of the
scans, which compare it once with the unit and once with the descriptor, as the
code does.

### Configuration on Linux: `IfConfig`

`tun_fd[h]` is the interface the descriptor of handle `h` is attached to (or
`None`, or `Gone` when that interface was deleted under it); `if_name`, `flags`
and `hwaddr` are the cached fields of `struct device`. `link` holds what the
kernel knows of an interface. `pc`, `req` and `sock6` are where a
`tuntap_set_ip` under way is, its locals, and its IPv6 socket. `foreign` is a
ghost: the attributes of an interface that somebody other than its device wrote
last; a name stays in it, because the cached one may be stale ever after.

| Code | Actions |
|---|---|
| what `tuntap_sys_start` saves | `tuntap_start` with `SaveHwaddr` |
| `tuntap_release`, `tuntap_destroy` | `tuntap_release`, the interface removed or kept |
| `tuntap_up`, `tuntap_down` | `SetFlags` |
| `tuntap_set_mtu`, `tuntap_set_hwaddr`, `tuntap_set_ifname` | the actions of these names |
| `tuntap_set_ip`, `tuntap_sys_set_ipv4` | `set_ipv4_addr`, `set_ipv4_mask`: one per ioctl |
| `tuntap_sys_set_ipv6` | `set_ipv6_socket`, `get_index_ok`/`get_index_fails`, `del_addr6`, `set_addr6` |
| another process | `AdminSets`, `AdminDeletes`, `AdminCreates` |

A shift by more than the width of `uint32_t` (an IPv4 netmask of 33 to 128) is
undefined in C: `Masks` returns what either kind of build gives.

### Configuration on the BSDs: `BsdConfig`

`addrs` is the addresses of one interface; `pc` and `req` are the next ioctl of
the `tuntap_set_ip` under way and its locals. `SIOCDIFADDR`
(`tuntap_sys_set_ipv4`), `SIOCAIFADDR` (`add_alias`, OpenBSD and NetBSD),
`SIOCSIFADDR` (`set_addr`, FreeBSD and Darwin) and `SIOCSIFNETMASK` (`set_mask`,
FreeBSD) are an action each. `ifdescr` is the static buffer, `answer[h]` what
`tuntap_get_descr` returned a pointer to. A Darwin call passes a
`struct ifaliasreq` where the kernel reads a `struct ifreq`: its mask is lost.

### Packet I/O: `DeviceIO`

One device, several threads. A packet is its length. `pc[t]` is the system call
a thread is in (`select`, `read`, `write`) or `sleep` when that call found
nothing and blocks; `call[t]` its arguments; `asked[t]` the last answer of
`tuntap_get_readable`, forgotten when a packet is read. `inq` and `room` are the
two queues of the interface, `nonblock` the `FIONBIO` flag of `tun_fd`.

| Code | Actions |
|---|---|
| `tuntap_read`, `tuntap_write` and the `_tm` forms | `tuntap_read_tm`, `tuntap_write_tm` (a negative time-out means none), then `read_packet`, `write_packet`, `wait`, `would_block`, `call_fails` |
| `wait_ready_event_or_timeout` | `select_ready`, `select_times_out`, `call_fails` (a signal) |
| `tuntap_get_readable` | `tuntap_get_readable`, with `FIONREAD` or the MTU |
| `tuntap_set_nonblocking` | `tuntap_set_nonblocking` |
| start, kernel, `tuntap_set_mtu` | `Start`, `Arrive`, `Drain`, `SetMtu` |

### Windows: `TunTapWindows`

`step`, `asked` and `ids` are where the start of a handle is, its argument and
the rest of the list of `reg_query`; `tun_fd` the adapter it has open. A thread's
call is `pc`, `on` (the handle), `timed`, `op` (its `OVERLAPPED`); `signalled` is
the state of the file objects, `late` the operations that outlived their call.

| Code | Actions |
|---|---|
| `tuntap_init`, `tuntap_start`, `reg_query` | `tuntap_init`, `tuntap_start`, `create_file`, `create_file_fails`, `no_adapter` |
| `tuntap_release`, `tuntap_destroy` | `tuntap_release` |
| `tuntap_read`, `tuntap_write` and the `_tm` forms | `issue` (`ReadFile`, `WriteFile`), `result` |
| `wait_completion_or_timeout` | `wait_signalled`, `woken`, `times_out` (with `CancelIo`) |
| the driver | `complete`, `complete_late` |
| calls that go through `DeviceIoControl` | `device_io_control` |

### C++: `Binding`

`ptr[o]` and `persist[o]` are the `unique_ptr` of an object and its deleter; `pc`
says how far its life has come. `construct`, `start_keeps`, `start_ok`,
`start_throws` are the constructor, `move` the move constructor, `release` the
method of that name, `destruct`, `delete_device`, `delete_nothing` and
`free_device` destruction, by the end of a scope or by a throw. `call` is any
other method on an object without a device: the pointer is null, and the process
dies. On an object with one it changes nothing of the object.

### Assumptions

- One thread at a time uses a handle (`struct device` has no lock); different
  handles are used concurrently. In `DeviceIO` and `TunTapWindows`, whose calls
  only read `struct device`, several threads use one device; the client does not
  release it while one of them is inside a call.
- In the lifecycle modules the interfaces are touched by this process and its
  predecessors only; in `IfConfig` and `BsdConfig` an administrator touches them.
- A client does not use a handle that it has released.
- The kernel behaves as `Kernel` says: `TUNSETIFF` refuses an interface in
  use or of the other type, creates one otherwise, and picks the lowest free
  unit when no name is given; an interface that is not persistent goes with its
  last descriptor; multi-queue interfaces (which the library never asks for)
  are left out. Units picked by the kernel are bounded by `MaxUnit`.
- On the BSDs a node is opened by one file at a time, and opening the node of a
  missing interface fails or creates it, for good or until it is closed, as the
  system likes. `SIOCIFDESTROY` blocks on FreeBSD while the node is open. There
  the application's own descriptors are not modelled (`AppOpen` and `AppClose`
  are not in `Next` of `TunTapBSD`): a second handle takes numbers as they do.
- In `IfConfig` the kernel refuses an MTU outside 68..65521, a link-layer
  address on a tun interface, a multicast or zero one on a tap, a name in use;
  it may refuse to rename an interface that is up (older kernels do). A new
  IPv4 address comes with the mask of its class. Names are all of legal length:
  the others are in `TunTapLinux`.
- `SIOCDIFADDR` on a BSD with several addresses deletes one of them, any.
- Left out of the lifecycle modules: `dev->flags`, `dev->hwaddr` and the ioctls
  that fill `hwaddr`, which are in `IfConfig`. Left out everywhere: the log; the
  integer width of `tun` (it is only compared and printed).

## 3. Properties

Each module states one `TypeOK` (checked where a run lists it, proved or not).
The others:

`TunTapLinux`

- `Intact`: a started device is whole (own tun descriptor attached to an
  interface of the requested type under the cached name, own open socket).
- `ExclusiveInterface`: two started devices share neither interface nor name.
- `SocketsNeverLeak`: every open control socket is in the `ctrl_sock` of the
  handle that opened it, and that handle still has a reason to hold it.
- `PersistHonoured`: a device started persistent has a persistent interface
  until it is destroyed.
- `OnlyDestroyUnpersists` (action property): only `tuntap_destroy` by the
  attached handle ends an interface's persistence.
- `FirstTheft` (action property): the first `close` of a foreign descriptor is
  the one of a stale `ctrl_sock` in `tuntap_release`.
- `DestroyRemoves` (action property): if `TUNSETPERSIST` cannot fail, the
  interface of a started device is gone after `tuntap_destroy`'s `close`.
- `LostToAnIoctlOrByNumber` (action property): the descriptor of a start is lost
  where `TUNSETIFF` or a later ioctl fails, or where a unit is asked for and the
  descriptor's number is above `TUNTAP_ID_MAX`; the unit itself never costs one.
- `Lives` (refinement): every step is a step of `DeviceLifecycle` or a stutter.
  A handle is `none`, `idle` or `closing` by its `pc` (`Stage`); it holds the
  interface of `tun_fd` between calls (`Holds`); the kept interfaces are the
  persistent ones (`Kept`); `broken` is `stolen`. So `TUNSETPERSIST` inside a
  start that then fails is a step `Keep`, seen; `TUNSETIFF` is a stutter until
  `tuntap_start` returns 0.

`Intact`, `ExclusiveInterface`, `PersistHonoured`, `DestroyRemoves` and `Lives`
are stated as long as nothing was stolen. This is the strongest form that is
true: once a `close` has hit a foreign descriptor anything may happen to
anybody, and `FirstTheft` says exactly which call starts that.
`SocketsNeverLeak`, `OnlyDestroyUnpersists` and `LostToAnIoctlOrByNumber` hold with
no such condition.

`TunTapBSD`

- `Intact`: as on Linux, and the interface has the type and the unit asked for;
  a unit outside the range comes only from the two searches that have no bound.
  The cached name is the interface's unless the scan got descriptor 0 for its
  last node (`ZeroAtTheEnd`): it then goes on with the unit after it.
- `ExclusiveInterface`: as on Linux, for started devices found by scanning, by
  name or by the system's choice; a scan that ended on descriptor 0 has a name of
  no unit, and still no other device's.
- `PersistHonoured`: as on Linux, unless another handle's `tuntap_destroy` came
  between the creation of the interface and the `open` of its node (`undone`;
  NetBSD's second creation is in that window).
- `LostToAnIoctlOrByNumber` (action property): the descriptor of a start is lost
  where a later ioctl fails, in a scan by its number (that of the end of the
  scan, or 0 in a scan for the wild card), and nowhere else.
- `DestroyNotBlockedByOwn`: FreeBSD's `SIOCIFDESTROY` does not wait for a
  descriptor of the device itself, except one that an earlier start lost.
- `LivesByName` (refinement): every step is a step of `DeviceLifecycle!SpecByName`
  or a stutter, by the mapping of Linux; `ifdestroy`, where FreeBSD has closed the
  node and not yet destroyed the interface, is `closing`.

`IfConfig`

- `FlagsKnown`: the cached flags, which `tuntap_up` and `tuntap_down` write
  back, are those of the interface until somebody else changes them or the
  name.
- `HwaddrKnown`: the same for the cached address of a tap, except one that the
  kernel refused, where `SIOCGIFHWADDR` and `SIOCSIFHWADDR` fail only for a reason.
- `NeverAstray` (action property): a configuration call changes an interface
  other than its device's only after somebody else renamed or deleted the
  device's. The renames of `tuntap_set_ifname` never lead a call astray.
- `AddressUnderPrefix` (action property): after the second ioctl of an IPv4
  `tuntap_set_ip` the interface has the new address, under the prefix asked for
  or as the first ioctl left it. The prefix is checked bit by bit (`IsPrefix`).
- `NoSocketLeft`: the IPv6 socket is closed on every way out.

`BsdConfig`

- `SettledAddress`: calls never collect addresses. One that succeeded leaves the
  address asked for and no other, under the mask asked for except on Darwin
  (`Replaced`, what `doc/api.md:202` promises); after one that failed at most
  the new address is there, with the mask of its class. Darwin's calls break the
  promise, so the property says nothing of their mask; see section 4.
- `OwnDescription`: the text behind the pointer is one the device has had, until
  a call on another device fills the buffer.

`DeviceIO`

- `StuckOnlyIfOvertaken`: a timed call sleeps in `read` or `write` only if
  another thread took what its `select` had seen.
- `SizedReadWhole`: with `FIONREAD`, a buffer of the size `tuntap_get_readable`
  gave fits the packet, until another packet is read.
- `TimedCallEnds` (liveness): a timed call ends, or was overtaken and sleeps.
- `NonblockingEnds` (liveness): once the device is non-blocking for good, every
  call ends, except one that slept before.

`TunTapWindows`

- `AdapterMine`: a started device has the adapter asked for, alone.
- `LateOnlyIfCrossedOrExpired` (action property): an operation outlives its call
  only after a time-out, or when another operation crossed it on the handle.
- `TimedCallEnds` (liveness): a call with a time-out ends whatever the driver
  and the other threads do.

`Binding`

- `OneOwner`: an allocated device has exactly one owning object, or `release`
  let go of it: none leaks in a throw, none is destroyed twice.
- `OwnedStarted`: a method of a live object reaches a started device (the C
  functions report success on one that is not started); a device let go of stays
  started.
- `DestructionHonoursMode` (action property): an interface loses its persistence
  only to the destruction of an object whose device was started without it,
  whatever it was moved through.

Each property was confirmed to depend on the code by a mutant: a definition
named "mutant of" next to the one it changes (a forgotten `close`, the cache
updated before the ioctl, a swapped order in `tuntap_destroy`, a deleter left
behind by the move, ...) under which TLC reports it violated.

## 4. Runs

| Run | Module | Instance |
|---|---|---|
| `linux_two` | `MCTunTapLinux` | 2 handles, 2 interfaces, descriptors 0..3, `TUNTAP_ID_MAX` = 2, tun with and without persistence, unit 0 and the wild card, renames to a 16-character name and to a unit's name, `TUNSETIFF` may fail; stops at the first theft |
| `linux_one` | `MCTunTapLinux` | 1 handle, 2 interfaces, descriptors 0..2, `TUNTAP_ID_MAX` = 1, all combinations of the mode bits, units -1, 0, wild card and above, names of 0, 15, 16, 17 characters, any call may fail; thefts and what follows included |
| `bsd` | `MCTunTapBSD` | the four systems, 2 handles, one tun and three tap nodes, descriptors 0..3, `TUNTAP_ID_MAX` = 2, tun and tap persistent and tap plain, unit 0, the refused unit `TUNTAP_ID_MAX` and the wild card, a rename; bounded as below |
| `config_addr` | `MCIfConfig` | 1 handle, words of W = 4 bits, every netmask from -1 to 4W + 1, two IPv4 addresses, one flag besides UP, three link-layer addresses of which the kernel refuses one, a good and a refused MTU; four ioctls may fail; an administrator sets flags and addresses |
| `config_names` | `MCIfConfig` | 2 handles, 2 tun interfaces, 2 names, an IPv6 address; the calls of its setting may fail; an administrator renames, deletes and creates interfaces |
| `bsd_config` | `BsdConfig` | OpenBSD, FreeBSD, Darwin; 2 devices, 2 addresses, 2 masks besides the class's, 2 texts; every ioctl may fail; at most 2 addresses when an administrator adds one |
| `io` | `MCDeviceIO` | 2 threads, a queue of 2 packets in, 1 out, MTUs 1 and 2, with and without time-outs, `FIONREAD` supported |
| `windows` | `TunTapWindows` | 2 handles, 2 threads, adapters 0 and 1, units 1, 2 (of no adapter) and the wild card |
| `cpp` | `MCBinding` | 2 objects, 3 devices, 2 interfaces; valid and invalid modes, units -1, 0, the wild card, above it |
| `doc_close`, `doc_ipv6`, `doc_overlapped` | `MCTunTapLinux`, `MCIfConfig`, `TunTapWindows` | what a document or a comment says and the code does not do: each finds a counterexample |

The properties of each run are those of its `.cfg`. Deadlock is checked in all.

Why these bounds. Two handles give every race between two devices; the
properties speak of at most two at once. A start needs two descriptors, so
0..3 lets two devices be started together, and with the application's files
the table also fills up; 0..2 keeps it full most of the time. `TUNTAP_ID_MAX`
is below the greatest descriptor so that the comparison of a descriptor with it
goes both ways. Two interfaces and `MaxUnit` = 2 let the wild card find a unit
taken, and the kernel run out of room. Handles and interfaces are
interchangeable where a property singles none out, and there their symmetry is
used (never with a liveness property). `linux_two` cuts the exploration at the
first theft (`UpToTheft`) because its properties say nothing afterwards: the
step into the theft is still checked; `linux_one` has no such cut, and the
theorems have no bounds.

`bsd` explores up to and including the first state where a theft or an undone
creation has happened, two interfaces are left that nobody has open, or a
descriptor is lost while two handles are alive (`Bounds`). But for one, its properties say nothing after the first two, or nothing of
persistence; the last two are bounds of size: one leftover and
one lost descriptor are enough to make a unit taken, a number stale and
FreeBSD's destroy block, which is what the properties are about.
`LostToAnIoctlOrByNumber` does hold after a theft: there the theorem speaks for it.

A call goes astray when a name moves from one interface to another, for which
two of each are enough. A word of 4 bits has 4 bytes of one bit, so that
`htonl` does reverse something, and every prefix length, the width itself, and
lengths beyond it occur. `bsd_config` leaves out NetBSD, whose
`tuntap_sys_set_ipv4` is OpenBSD's and which has no descriptions (as Darwin). In
`io` two packets of two lengths are enough for a packet to be taken from under a
`select` and for an answer to be about another packet; three threads add nothing
to a property of one thread against the others. Without `FIONREAD` the answer is
the MTU and `SizedReadWhole` promises nothing; that case, any number of threads
and any queue are covered by the proofs. In `windows` two operations on one
handle cross, two starts race for one adapter, and a unit without an adapter is
asked for. In `cpp` a third device lets an object be built while two are let go
of by `release`.

### Fairness

`DeviceIO` and `TunTapWindows` state weak fairness of `Progress(t)`, for each
thread: the operating system eventually runs a thread whose system call can
return, and a time-out passes. This is what `select`, `read` on a ready
descriptor and `GetOverlappedResultEx` with a time-out promise, and all of it:
nothing is assumed of packets that come or go, of signals, of the driver's
completions, or of the calls the clients make. A read without time-out may then
sleep for ever, and no property says otherwise. No fairness is assumed elsewhere:
the library has no thread or timer of its own and a client may stop at any point,
so that nothing must happen.

### What the code does not do as documented

With a run:

- `doc_close`: `tuntap_start` fails, the number of its closed socket stays in
  `ctrl_sock`, the application opens a file and gets that number,
  `tuntap_release` closes it (`tuntap-unix.c:98`).
- `doc_ipv6`: the old address is deleted through a zeroed argument, that is,
  not at all (`tuntap-unix-linux.c:220`): addresses pile up.
- `doc_overlapped`: a read waits on the file handle, so the late completion of an
  earlier, cancelled one ends it while its own operation is pending
  (`tuntap-windows.c:393`).

With a theorem:

- Darwin's netmask is never read (`tuntap-unix-darwin.c:203`), although the code
  fills it in (`:186` to `:200`) and `doc/api.md:202` promises an interface with
  "the given address `addr` and `netmask`". The theorem
  `DarwinNeverReplaces` says that a call that succeeds never leaves what the
  document promises (`Replaced`), unless the mask asked for is the one of the
  address's class.

Met while reading, and facts of the models rather than properties:

- The bound check of Linux looks at `fd` where `tun` is meant
  (`tuntap-unix-linux.c:88`): a unit above the bound is accepted, and a process
  with many descriptors is refused any.
- After `open` each `return -1` of `tuntap_sys_start` leaks the descriptor, and
  with it the interface it may be attached to (`tuntap-unix-linux.c:88` to
  `:113`; the BSD back-ends alike). `LostToAnIoctlOrByNumber` says that nothing
  else does.
- A 16-character name is accepted and cached whole, the kernel keeps 15
  characters (`tuntap-unix.c:132`).
- `tuntap_up` writes all the flags as it last knew them, and so takes back a flag
  that an administrator set (`tuntap-unix.c:195`).
- The link-layer address is cached before the ioctl that may refuse it
  (`tuntap-unix.c:180`); on a tun interface it always does.
- `TUNTAP_MODE_PERSIST` with `TUNTAP_ID_ANY`, an example of `doc/api.md:123`,
  always fails (`tuntap-unix.c:69`, a comment there asks why).
- Without `FIONREAD`, `tuntap_get_readable` answers the MTU, without the link
  header of a tap (`tuntap-unix.c:408`).
- `tuntap_get_descr` answers every device in one static buffer
  (`tuntap-unix-openbsd.c:248`, and FreeBSD).
- OpenBSD checks a unit after it has created its interface, NetBSD the mode too:
  a refused persistent start leaves an interface.
- Descriptor 0, opened for the last unit of a scan, is kept under the name of
  unit 256 (`tuntap-unix-openbsd.c:99` and `:111`).
- A FreeBSD start that fails after `open` keeps the node open, and a later
  `SIOCIFDESTROY` of it blocks.

## 5. Proofs

The theorems hold for any sets of handles, threads, descriptors, interfaces,
modes, units, names and faults, from the named assumptions of the modules (which
TLC evaluates on the runs). Nothing is assumed besides them.

| Module | Theorem | Property |
|---|---|---|
| `TunTapLinuxProofs` | `Invariance` | `Spec => []Inv` |
| | `TypeCorrectness` | `TypeOK` |
| | `StartedIntact` | `Intact` |
| | `InterfacesExclusive` | `ExclusiveInterface` |
| | `NoSocketLeak` | `SocketsNeverLeak` |
| | `Persistence` | `PersistHonoured` |
| | `TheftIsStaleSocket` | `FirstTheft` |
| | `UnpersistOnlyByDestroy` | `OnlyDestroyUnpersists` |
| | `DestroyLeavesNothing` | `DestroyRemoves` |
| | `LostOnlyThere` | `LostToAnIoctlOrByNumber` |
| `TunTapLinuxRefinement` | `Implementation` | `Lives` |
| `TunTapBSDProofs` | `Invariance` | `Spec => []Inv` |
| | `TypeCorrectness` | `TypeOK` |
| | `StartedIntact` | `Intact` |
| | `Persistence` | `PersistHonoured` |
| | `DestroyNotBlocked` | `DestroyNotBlockedByOwn` |
| | `LostOnlyThere` | `LostToAnIoctlOrByNumber` |
| | `InterfacesExclusive` | `ExclusiveInterface` |
| | `Implementation` | `LivesByName` |
| `IfConfigProofs` | `Invariance` | `Spec => []Inv` |
| | `CallsStayHome` | `NeverAstray` |
| | `FlagsAreKnown` | `FlagsKnown` |
| | `HwaddrIsKnown` | `HwaddrKnown` |
| | `SocketClosed` | `NoSocketLeft` |
| | `MaskIsPrefix` | about `Masks` of `Netmask` |
| | `AddressIsUnderPrefix` | `AddressUnderPrefix` |
| | `TypeCorrectness` | `TypeOK` |
| `BsdConfigProofs` | `Invariance` | `Spec => []BsdInv` |
| | `AddressSettles` | `SettledAddress` |
| | `DarwinNeverReplaces` | the negation of `Replaced`, on Darwin |
| | `DescriptionIsOwn` | `OwnDescription` |
| `DeviceIOProofs` | `Invariance` | `Spec => []Inv` |
| | `TypeCorrectness` | `TypeOK` |
| | `StuckIsOvertaken` | `StuckOnlyIfOvertaken` |
| | `AnswerFits` | `SizedReadWhole` |
| `TunTapWindowsProofs` | `Invariance` | `Spec => []Inv` |
| | `TypeCorrectness` | `TypeOK` |
| | `AdapterIsMine` | `AdapterMine` |
| | `AbandonedOnlyIfCrossed` | `LateOnlyIfCrossedOrExpired` |
| `BindingProofs` | `Invariance` | `BindSpec => []BindInv` |
| | `OwnedOnce` | `OneOwner` |
| | `LiveIsStarted` | `OwnedStarted` |
| | `ModeHonoured` | `DestructionHonoursMode` |

### `TunTapLinuxProofs`

The properties are not inductive: that a started device is intact depends on
what the start under way of another handle may do to its interface, and that on
which descriptor it holds at each step. `Inv` has these parts:

1. `TypeOK`.
2. `KernelInv`, facts about the kernel's tables alone: an attached interface
   exists and has one descriptor, names are unique, cut and not empty, an
   absent interface is not persistent. Each call on the tables keeps it
   (`CloseKernel`, `SetIffKernel`, `RenameKernel`, ...).
3. `HandleInv(h)`, facts about one handle that survive a theft: a device that
   is starting has no `tun_fd`, one that is attaching has an `fd`, good
   arguments and a name that is not cut.
4. `SocketsNeverLeak`, inductive with the types.
5. `OwnInv(h)`, as long as nothing was stolen: which file and which interface
   the handle owns at each value of `pc`.

`OwnInv` is the heart. A step of handle `h` re-establishes `OwnInv(h)`
(`OwnStep`), and leaves alone whatever another handle owns
(`Undisturbed`, `UndisturbedStep`, `OthersStay`), because every operation
touches a free descriptor, the handle's own, or an interface nobody is attached
to. The only exception is a `close` of a foreign descriptor, which sets
`stolen`; `OwnInv(h)` says the socket and tun descriptor closed by a handle are
its own except for the stale `ctrl_sock` of a device that is not started, which
is `FirstTheft`. TLC checked `Inv` as an invariant of both instances before it
was proved.

`LostOnlyThere` holds after thefts too, so `OwnInv` is of no use to it. `TunInv(h)`
takes its place: the local `fd` is set only between `open` and the end of
`tuntap_sys_start`, and between the two `close`s of `tuntap_release` the device's
`tun_fd` is no tun descriptor of its own any more. New ones come only from the
`open` of a start (`NewTun`).

### `TunTapLinuxRefinement`

On top of `Inv`: what a started device holds is its own (`HoldsOwn`), what a
start under way has attached is held by no device (`NotHeld`), and a step of one
handle changes stage and interface of no other (`UndisturbedSame`, `Moved`).
Then each action is shown to be a stutter (most), or `New`, `Keep`, `Start`,
`Release`, `Destroy`, `Free` or `Exit`, and a theft a step into `broken`.

### `TunTapBSDProofs`

The same plan, for the four systems at once. What differs from Linux is how a
handle's name can be trusted, because `tuntap_destroy` reaches an interface by
it. `KernelInv` adds `NamesFixed` (only FreeBSD's interfaces are ever renamed)
and `InRange` (where nodes are scanned, none above the last unit is open).
`OwnInv(h)` then says that a cached name, also of a handle whose start failed,
is that of an interface the handle itself has open (`Held`), or of the unit
above the last one (`EndName`), of which no interface is open. From this
`OwnName`: what `SIOCIFDESTROY` or FreeBSD's rename hits is open by nobody else,
so that a step of one handle disturbs no other (`StepFrame`), theft aside.
`CreatedInv` holds the interface of a persistent start from `SIOCIFCREATE` to
the `open`, as long as `undone` is false, and `PersistKept` shows that nothing
but a destroy ends it. `HandleInv` bounds the unit of a scan, which is what
keeps `unit` of its type. `OpenStep` says once what the three ways to open a
node come to. `LostOnlyThere`, thefts included, rests on an invariant of its own
like that of Linux (`TunClosed`). `InterfacesExclusive` is `OwnName` for two
devices, with `EndName` where a scan ended on descriptor 0: such a name is of no
interface that is open, and only one file has number 0. `Implementation` goes
action by action: a `SIOCIFDESTROY` is `LeaveByName`, or `Unkeep` on FreeBSD, and
that the interface of the name is held by nobody else is `OwnName` again; a
creation that is persistent from the start, or made so by an `open`, is `Keep`.
TLC checked `Inv` on the instance of `bsd` first, and the
proof found what the instance had missed: the name after `ZeroAtTheEnd`, the
interface that a persistent start of a refused unit leaves on OpenBSD, and the
second creation on NetBSD; the modes and units of `bsd` now include them.

### `IfConfigProofs`

`Inv` says that names are unique (`UniqueNames`), that a descriptor is alone
on an interface that exists (`AttachedAlone`), that the cached name is the
interface's unless it is marked as renamed by somebody else (`NameKnown`), and
that an interface index looked up by `tuntap_sys_set_ipv6` is the device's or
was found under a name gone astray (`IndexKnown`). `ReachesOwn` follows: what a
handle reaches by name is its own interface, or its own was renamed or deleted.
Most calls concern no name (`Inert`), so only start, release, renames,
deletions and creations have a step of their own. `FlagsKnown` is proved on
top of `Inv`: a `SIOCSIFFLAGS` that went elsewhere marks the foreign interface.
`HwaddrKnown` likewise, action by action: only `tuntap_start`,
`tuntap_set_hwaddr` and somebody else touch either side. For `TypeOK` the masks
are what is hard: `WordsHold` shows that `Masks` gives words of `W` bits for every
prefix length, from lemmas on the digits that `htonl` permutes
(`Digit`, `Quotient`, `AppendDigit`, `HtonlWord`) and from `PowersAssumption`,
the definition of the powers of two, which the provers do not know and TLC
evaluates.

`MaskIsPrefix` is the netmask for every prefix length up to the width and for every
width of four bytes. `htonl` undoes itself (`HtonlReverses`, `HtonlTwice`), so that
the word in question is `2^W - 2^(W - n)`; a shift of all ones leaves `2^(W - n) - 1`
(`Division`, `PowerSum`), and the bits of the word are those from `W - n` on
(`TopBits`). Induction over data is out of the provers' reach, so that
facts of all exponents (`PowerPositive`, `PowerGrows`, `PowerSum`) are proved by the
least counterexample instead (`LeastNumber`, from the well-founded order of the
naturals). `AddressIsUnderPrefix` adds
`AllHalfway`: between the two ioctls of a `tuntap_set_ip` the interface has the
address asked for, and the mask to come is one of `Masks`, unless somebody else
has set its address or name. TLC checked `Inv` on `config_addr` and `config_names` first.

### The others

- `BsdConfigProofs`: `SettledAddress` speaks of the moments between calls;
  `HalfSet` adds what is there between the ioctls of one (nothing after the
  deletion, the new address with the mask of its class before the third), and
  `NoMask` what a Darwin call leaves, from which `DarwinNeverReplaces` follows.
  `Known` adds that the description of an interface is among those it has had.
- `DeviceIOProofs`: `InOwnCall` (a thread in `read` or `write` is in the call it
  made), `StuckOnlyIfOvertaken`, and `AnswersHold` (an answer of
  `tuntap_get_readable` that is not outdated fits the first packet). A packet
  that arrives does not change the first one (`Arrival`).
- `TunTapWindowsProofs`: `Starting` (a start under way has only adapters that
  match), `Calling` (what a thread inside and outside a call has) and
  `SignalledByAnother`: an operation that is pending while its file is signalled,
  or its thread woken, was crossed. Liveness aside, `Spec` is used only through
  its safety part.
- `BindingProofs`: `Unique` (one owner), `Valid` (a pointer is to an allocated
  device), `Reached`, `Phase(o)` (what the pointer, the deleter and the device of
  an object are at each `pc`), `LetGo` (released devices stay started) and
  `Unallocated`. Each step moves one object and one device; a move hands the
  whole of `Phase` over.

Only model-checked: the liveness properties `TimedCallEnds` (of two modules) and
`NonblockingEnds`, which are out of the prover's reach. The runs that expect a
violation have nothing to prove. Every other property of a run is a theorem.

## 6. Not modelled, and why

- Logging (`tuntap_log.c`): formatting. The call-back is set once; `hexdump` and
  `chksum` only write text, and a unit test reaches their boundaries.
- `tuntap_set_debug`: flips a switch of the driver that nothing else reads.
- `tuntap_sys_set_hwaddr` of the BSDs (one ioctl, as on Linux, where it is
  modelled) and the address that their starts save.
- The Windows functions that only refuse (`tuntap_set_mtu`, `set_hwaddr`,
  `set_descr`, `set_ifname`, IPv6, ...): they change nothing.
- Writes outside an object (a descriptor from `FD_SETSIZE` on, `tuntap-unix.c:301`)
  and the null list of `reg_query` (`tuntap-windows.c:198`): the outcome is not a
  state of the library.
- Regression tests, examples and build files: no program logic. They were read
  as documentation of the intended behaviour.

Possible further work: `SpecByName` tells no more of a destroy than the name does;
with the histories of interfaces it could say which destroys reach their own.
