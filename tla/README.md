# A TLA+ model of Zygisk-Assistant

Zygisk-Assistant is a Zygisk module. Zygisk loads it into every process that
Android's Zygote forks; in the apps on the denylist it gives the process a mount
namespace of its own and takes the root solution's mounts out of it, before the
app's first line of code runs. This directory models the parts of it where
processes, system calls and failures interleave, checks them with TLC and proves
the central facts with TLAPS. Paths below are relative to `src/module/`.

## The system

| Part | Source | State | Operations |
|---|---|---|---|
| Module in the app | `jni/main.cpp` 18-168, `jni/utils.cpp` 34-55 | `callbackFunction`, `old_unshare`, `old_setresuid`, the PLT slots of `libandroid_runtime.so`, `companionFd` | `onLoad`, `preAppSpecialize`, `new_unshare`, `new_setresuid`, the callback, `preServerSpecialize`, `postAppSpecialize` |
| Root companion | `jni/main.cpp` 170-188, `jni/utils.cpp` 57-84 | one handler thread per connection, one forked child per request | `zygisk_companion_handler`, `forkAndInvoke`, `switchMountNS` |
| Descriptor reopening | `jni/fd_reopener.cpp` | the descriptors captured | constructor, destructor |
| Unmounting | `jni/modules.cpp` 25-87 | none of its own; the kernel's mount table | `shouldUnmount`, `doUnmount` |
| mountinfo parser | `jni/mountinfo_parser.cpp` | the parsed entries, device -> mount point | `parseSelfMountinfo`, `mountinfo_root_resolver` |
| atexit replacement | `jni/atexit.cpp` | `g_array`, `capacity`, `count` | `__cxa_atexit`, `__cxa_finalize` |
| Remounting /data | `jni/modules.cpp` 89-119, `jni/utils.cpp` 86-129 | the superblock's `errors=` | `doRemount`, `getExtErrorsBehavior` |
| Property rewriting | `jni/modules.cpp` 170-222, `jni/utils.cpp` 20-32 | the property areas | `doMrProp`, `shouldResetProperty` |
| nativebridge patch | `jni/modules.cpp` 126-168, `jni/map_parser.cpp` | one byte of a `.bss`, the cached maps | `doHideZygisk`, `parseSelfMaps` |
| Boot scripts | `template/*.sh` | system properties | `post-fs-data.sh`, `service.sh` |

How they interact. Zygote forks a process; Zygisk calls `preAppSpecialize`,
which hooks `unshare` and `setresuid`, connects to the companion and arms
`callbackFunction`. Whichever hooked call Zygote makes first runs the callback:
it makes a mount namespace and turns its root MS_SLAVE, sends its pid through the
socket and waits. The companion's handler forks a child (setns needs a single
thread), the child enters the namespace of that pid, unmounts, remounts and
rewrites properties, and exits; the handler answers whether it exited. Without a
good answer the callback unmounts by itself. `setresuid` then drops the
capabilities, `postAppSpecialize` points the slots back and the library is
unmapped, which runs `__cxa_finalize`.

What is hard about it: any of about fifteen calls may fail and most failures are
only logged, so the state after a partial failure matters; the app, the handler,
the child, Zygote's own activity and mount propagation run at the same time;
the pid and the mount table are read at one time and used at another; the app
must not wait for ever on a companion that died.

Correct means, part by part:

- module: a process to be hidden is hidden before it loses its capabilities or a
  failure was logged; Zygote is not lied to about its namespace; no descriptor is
  left behind, no slot points into unmapped memory, the root companion's socket
  is not inherited by the app, specialisation ends;
- companion: a child works in its requester's namespace only, never in Zygote's,
  and while the requester waits; every handler returns;
- unmounting: what is recognised is gone afterwards, and nothing else is;
- property rewriting: traces of changes are gone, values and other properties
  are what they were;
- remounting: `errors=` is what the superblock says, the mount's other options
  stay;
- nativebridge patch: `had_error` is reset and nothing outside `.bss` is written;
- boot scripts: the properties they went past have the values they ask for;
- atexit: the C++ ABI's order, each function once, inside the memory allocated.

## Modules

| Module | What it models |
|---|---|
| `Platform` | kernel and Zygisk as the code uses them (external): mount namespaces `ns`, their propagation `slave`, the namespaces `clean` that have been through doUnmount, the socket `sock` with the processes that hold its ends, descriptor kinds; which calls may fail (`Faults`) |
| `ZygiskModule` | `app[p]`: a forked process from onLoad to its end |
| `Companion` | `comp[p]`: the handler thread for p's connection and its child |
| `Assistant` | the two over one `Platform`, fairness, and the properties |
| `Hiding` | the abstract specification: what the library promises for a process it hides from |
| `MountInfo` | option texts, the parsed entries, the root resolver and `shouldUnmount`, as operators |
| `Unmount` | `doUnmount` by several processes over a changing mount table |
| `MrProp` | `doMrProp` by several children over shared property memory |
| `StringCopy` | `safeStringCopy` as an operator on bytes |
| `BootScripts` | `post-fs-data.sh` and `service.sh` beside `MrProp`'s children |
| `HideZygisk` | `doHideZygisk` over an address space, with `parseSelfMaps` and its cache |
| `Remount` | `doRemount` by several children over one filesystem |
| `Atexit` | `atexit.cpp` |
| `AtexitOrder` | the abstract specification: what the ABI asks of it |
| `MCAssistant`, `MCUnmount`, `MCMrProp`, `MCRemount`, `MCAtexit`, `MCHideZygisk` | instances for TLC |
| `AssistantProofs`, `AssistantCourseProofs`, `AssistantHidingProofs` | theorems about `Assistant` and their proofs, each on top of the one before |
| `AtexitProofs`, `UnmountProofs`, `RemountProofs`, `MrPropProofs`, `HideZygiskProofs` | theorems about `Atexit`, `Unmount` with `MountInfo`, `Remount`, `MrProp` with `BootScripts`, and `HideZygisk` |

### ZygiskModule, Companion, Assistant

A handler that nothing can be seen in the middle of is one action
(`PreAppSpecialize`, `PostAppSpecialize`, `PreServerSpecialize`). The callback
makes system calls that other processes see, so it is one action per such call:
`EnterHook` (the assignment that disarms it, and the capture of descriptors),
`NewMountNs` (unshare and MS_SLAVE, with failure of either), `WritePid`,
`ReadResult`, `CloseFd`, `DoUnmount`, `DoHideZygisk`; each return of the callback
runs `LeaveScope`, the destructor of `ScopedRegularReopener`. `stage` is the
program counter and says what happens next; `errs` has what ASSERT_LOG and
ASSERT_DO have logged, and the properties use it to say which failure excuses
what. `CallUnshare` and `CallSetresuid` are Zygote's calls: the kernel's function
where the slot is the original, the hook where it was replaced. A failed
`pltHookCommit` may or may not have replaced the slot. `RegisterFails` is the
early return of `entry_impl` (zygisk.hpp), after which no handler ever runs.
`CRem` is C's remainder: a negative uid keeps its sign and belongs to no app. What
Zygisk was asked for, the flags and the uid, stays in `asked`, for the properties:
`ToBeHidden` says of it, in terms of its own (`OfUserApp` divides the uids among
users), who is to be hidden. `HiddenUnlessLogged` is about those, and
`UserAppsOnly` about all others: not `target`, which the code's own test sets.

`Hiding` says what all of this is for, in four phases: a chosen process is isolated,
then emptied, and only then an app, unless it is excused. `HidesInOrder` states
that `Assistant` implements it: `Phase` reads the phase off the capabilities, the
slave root and `clean`, and a process is excused (`GivenUp`) when a hook or
`new_mount_ns` failed, a child that could not switch namespace was taken for
success, or the callback held another file's descriptor. Every other failure,
of the companion above all, must leave the order intact.

The handler is `Accept`, `HandlerRead`, `HandlerFork`, `HandlerWait`,
`HandlerReply`; the child is `ChildSwitchMountNS`, `ChildUnmount`, `ChildFinish`.
`WaitStatus` and `WIFEXITED` keep the status word's encoding, because the answer
is computed from it. A forked child calls no exec, so it inherits the daemon's end
of every connection that is open at the fork (`Inherit`) and has it until it ends
(`EndChild`): the app reads an end of file only when the daemon's end and all the
inherited ones are closed (`HungUp`). `DaemonDies` closes the daemon's ends and
leaves children running, with theirs. That is why `ChildWorksOnlyWhileAppWaits`
holds though the daemon may die; what it excepts is a read that fails of itself (the
run that checks it has no such failure), and an answer that a failed waitpid has
let the handler give too early. `doUnmount` is abstracted here to `clean`: the
namespaces it reaches, Zygote's included where the namespace is still a peer of it;
`Unmount` models its
inside. `doRemount` and `doMrProp` are single steps of the child here, and
`Remount` and `MrProp` model their insides; `doHideZygisk` is a single step, and
`HideZygisk` models its inside.

Assumptions, beyond Platform's:

- the assignment to `callbackFunction` inside the callback (main.cpp:116)
  destroys the closure that is running. libc++ keeps a closure of one int inside
  the std::function object and leaves its bytes, so the captured `fd` is taken
  to survive;
- SIGPIPE is blocked, as the Android runtime does: a write to a socket whose
  other end is closed returns an error;
- the four bytes of the pid and the one byte of the answer are written and read
  whole;
- a pid names a dead process, or one process at a time.

### MountInfo, Unmount

Strings are sequences of tokens, so that concatenation is `\o` and `starts_with`
is `IsPrefix`: `/data/adb2` starts with `/data/adb`, as it does in C++. A mount's
`at` is the chain of mount ids from the root mount to it, which is what the
kernel's path walk and MNT_DETACH need. `Parse` reads the whole table at once
(the kernel may show a table that changes between two reads; that is left out),
each `Step` is one pass of the loop with its `umount2`, and `PropagatedMount`,
`PropagatedUmount` and `Killed` may come between any two. `disturbed[u]` has the
mount points that others changed since u's snapshot, for the properties.
umount2 failing for reasons other than the path (EPERM, EBUSY) is left out, and so
is the kernel slipping a propagated mount under one at the very same place
(`PlacesFor`). A name with a backslash, which the kernel escapes as it does a space,
is left out of `Path`.

`parseMountOptions` is an operator from an option text to a function on keys:
tokens end at commas, a key at the first `=`. `Parsed` drops the lines the parser
skips; of the lines the kernel writes these are the ones of mounts without a
source, which have one word too few for `operator>>`. A mount table is what the
kernel has, `parseSelfMountinfo` of it what the code sees; `OverlaysRecognised`
compares the two. A table is a function from numbers that ascend in the file's
order, with gaps where mounts have gone, and the reverse iterator is the set of
entries it has still to reach, of which it takes the greatest: in that form lemmas
about finite sets and functions apply to them. `UnmountAssumption` says what a mount
table is (`Namespace`: each mount comes after those it is mounted on, and they are at
its directory or above it) and that overlayfs shows each of its directories once
(`ShownOnce`); `Tokens` is whatever strings are made of. The order is the one a
namespace that unshare has made begins with, because the copy of the tree goes from
a mount to those on it; what is mounted later is listed last.

umount2 is given a path and detaches the mount that is seen there. `BystandersStay`
and `ModuleMountsGone` say what that comes to, and name what they depend on:

- `Disturbed`: something was mounted or unmounted on the way since the table was
  read;
- `Covered`: a mount that doUnmount has set out to unmount, there or higher up, was
  hidden already when the table was read, by one that stays or by one that comes
  before it in the table, which the walk from the end reaches later. umount2 of its
  path then fails or detaches the mount that is seen. A mount that hides another
  and comes after it, both to go, is no exception: the walk from `rbegin()` is right
  for those;
- for the second, a space in the path, which the kernel has escaped.

### MrProp, StringCopy

A property is `serial[p]` (the low 24 bits of its serial, odd while it is being
written) and `value[p]`, PROP_VALUE_MAX bytes. `Visit` is `shouldResetProperty`,
`Copy` is `safeStringCopy` to the stack, and `__system_property_update` (external:
the system_properties submodule) is `UpdateBegins` and `UpdateEnds`, because a
child may be killed or another may look between the two. `SetBegins` and `SetEnds`
are somebody else's set, whose first byte is there before the rest. `raced` and
`touched` are for the properties: sets that fell between a copy and its update,
and writes by others that a worker may not have seen.

`safeStringCopy` works on memory: the source goes on behind the string or the piece
of it that is meant, because strncat looks for a NUL and its bound and for no other
end. `SourceRead` is how far it reads, `Returned` what it returns, and
`KeepsContract` the whole comment of utils.hpp: bytes written, bytes read,
termination, result. `CopyContract` asks for that on every piece of a copied value,
with a byte of any kind repeated behind it, and for sizes up to one more than the
buffer's.

### BootScripts

The shell goes through a list of commands; a command reads its property (`Read`),
tests what it has read and sets it (`TestAndSet`, whose `resetprop -n` is a
`SetBegins` of `MrProp`). post-fs-data.sh has ended before Zygote, and so any
child, starts; the part of service.sh in braces waits until it has seen
boot_completed (`BootCompletes`). The lists are constants, `Scripts`: only which
test, which kind of property and which phase matter. Properties are not deleted,
as with the file `skipdelprop` in place. A read-only property is read without
looking at its serial, as bionic does. Every step of `BootSpec` is a step of
`MrProp`'s `Spec` or leaves its variables alone, so what holds of the one holds of
the other; `BootIsMrProp` proves it. `overtaken` is for `Sanitised`: names that
others have set since the script read them, and a set that had begun before the
read and ends after it is one of them. `ScriptsAssumption` says what the two
scripts have in common: `resetprop_if_diff` sets what it expects, the new value of
`resetprop_if_match` does not contain the text it looks for, and no property is the
business of two commands.

### HideZygisk

One process, from its first hook to the end of `doHideZygisk`. Memory is a byte
per address; `maps` are the mappings, as a set because /proc/self/maps is in the
order of addresses; a build of libnativebridge.so (`Images`) is its segments, its
`.bss` and the place of `had_error`. The maps are parsed, and cached, at the
first hook (`HookPLTByName`; opening the file may fail, a line whose inode does
not fit `ino_t` is skipped); other libraries come and go (`MapsChange`); the
callback's unmounting may take the file away or bring another to light
(`Callback`); and `doHideZygisk` combines the cached start address with the
section table of the file that is there now. An access to what is not mapped, or
a write to what is not writable, is `"crashed"`. Assumed: libnativebridge.so
stays where it is (Zygote never unloads it), and nothing else runs in the process
while `doHideZygisk` does (a process that is being specialised has one thread).

### Remount

`errors` and `ro` belong to the filesystem, `flags[w]` to the mount in child w's
namespace. `Parse`, `ReadSuperblock` and `DoMount` are steps of their own, since
another child may remount in between. `Remounted` is what Linux does with the
flags of a remount: it takes those given, keeps the atime options where none is
given, and adds relatime otherwise. One mount at /data is assumed.

### Atexit

Every access is made under `g_atexit_mutex`, so an action is a critical section:
a registration, the start of `__cxa_finalize` up to its first call, and what
follows the return of each function. `block` is the size of the memory behind
`g_array`, separately from `capacity`. A use of `g_array` after `free` ends
the behaviour, and `fault` says whose it was: a registration's, another call's, or
that of a call which goes on after the function it had called. malloc and realloc
do not fail; `MaxDepth` is how
deep `__cxa_finalize` may be called by what it calls. Nothing is registered once
the outermost call has returned, because the library's code is gone then.

## Runs

| Run | Instance | Shows |
|---|---|---|
| `assistant` | 1 process, uids at the edges of both ranges and below zero, up to 2 unshare calls, every fault but pid reuse; 372 k states | all invariants of `Assistant` but `ChildServesRequester` and `ChildWorksOnlyWhileAppWaits`, the refinement `HidesInOrder`, and both liveness properties |
| `assistant_pids` | 2 processes, 2 pids, 1 unshare call each, kills, pid reuse, daemon death, failing waitpid; symmetry; 3.1 M states | `ChildServesRequester`, `ChildWorksOnlyWhileAppWaits`, and `UserAppsOnly` between processes |
| `assistant_setns` | setns may fail | violation: finding 1 |
| `assistant_hook` | a hook may fail | violation: finding 2 |
| `atexit` | capacity 1, 6 registrations, recursion three deep; 13 k states | `CalledOnce`, `AllCalled`, `WithinBlock`, `UnloadEnds` and the refinement `RunsInOrder` |
| `atexit_recursive` | depth 2 | violation: finding 3 |
| `unmount` | 2 unmounters, 5 tables, 1 event; 313 k states | `BystandersStay`, `ModuleMountsGone`, `ModuleMountsRecognised`, `OverlaysRecognised` |
| `unmount_left` | 1 unmounter, nobody else at work | violation: findings 4, 5 and 6 in one final state |
| `mrprop` | 2 children, a short and a long read-only property and a read-write one, 2 scripts, 2 sets in all; symmetry; 2.1 M states | `ValuesKept`, `TracesGone`, `OthersUntouched`, `Sanitised`, and `CopyContract` for safeStringCopy |
| `remount` | 2 children, every set of options, ext4 and f2fs, 1 remount by another; symmetry; 1.9 M states | `OptionsKept`, `ErrorsMatchSuperblock`, `WritableOnlyWithNeed` |
| `hide` | 4 builds of libnativebridge.so as lld links it, 4 other mappings; 19 k states | `HideReturns`, `OnlyBssWritten`, `HadErrorReset` |
| `hide_layout` | a build with the ELF header in the text segment | violation: finding 7 |

Why the bounds are enough. Processes meet only in pids, in Zygote's namespace, in
the daemon and in the sockets its children inherit: two processes show every meeting of a request with another
process, and one process shows every failure within a request; the theorems
cover any number. Two unshare calls are one that runs the callback and one after
it; between processes only the first matters. In `atexit` an initial capacity of 1
(8 in the source) makes the array move
three times within six registrations, and three nested calls are an inner one, one
around it and one around both. The mount tables have a bind mount over a
system mount, nested overlays with a system mount on one of them, a tmpfs with a
mount on it, a mount that covers one which goes, one that covers two stacked ones,
and a module's file that two system mounts beside it hide; one event is enough to make
a snapshot stale at any point, and the second unmounter makes it stale again.
In `mrprop` values of three bytes hold the empty string and one of full length,
so that a shorter string leaves bytes of a longer one behind it, and two sets put
one before a child begins and one into its window. The scripts are one with an
early command, and one with a command while Zygote runs and a late one, on both
kinds of property. In `hide` the other mappings lie just below, just behind and
beyond the library, the builds differ in where `.bss` is and whether there is one,
`had_error` is the last byte of `.bss`, and the bytes before it are anything.

Fairness. Zygote goes on with a specialisation it has begun, and the daemon's
threads and their children are scheduled: weak fairness of each process's steps,
each handler's and each child's. Nothing obliges a process to be forked, to die,
or a call to succeed, and a blocking read or waitpid is obliged to return only
when what it waits for is there (`AppUnblocked`, `HandlerUnblocked`), never by
failing. In `Atexit`, the functions that `__cxa_finalize` calls return
(weak fairness of `EntryReturns`); nothing obliges the library to be unloaded. The deadlock check is on in every run; `Terminated` is the stuttering of
a system with nothing left to do.

Each property has a mutant: a plausible slip in the definition that models the
code (a dropped guard, sockets closed in the child, a forgotten reset, the loop turned round) under
which the run finds the property violated. Mutants stand in the modules before
the definition they change.

## Findings

1. `assistant_setns`: the handler answers `WIFEXITED(...)`, which is true for a
   child that exits with 1 because `switchMountNS` failed. The app logs
   "Invoking the companion was successful.", skips the fallback, and nothing was
   unmounted.
2. `assistant_hook`: when the unshare hook is in and the setresuid hook fails,
   the empty callback runs and `new_unshare` still drops Zygote's CLONE_NEWNS, so
   the process stays in Zygote's namespace though "we always call unshare".
3. `atexit_recursive`: a recursive `__cxa_finalize`, which a comment says is
   provided for, frees the array; the outer call goes on with it. In the run the
   one registered function calls `__cxa_finalize` and registers nothing; the inner
   call frees the array and the outer one, at i == 0, frees it again. The run checks
   `ResumesSafely`, so a late registration, which would use the freed array
   too, is not what it shows.
4. `unmount_left`: a space in a mount point is `\040` in mountinfo; umount2 is
   given that text and fails.
5. `unmount_left`: where a device is mounted as a whole twice, the last one
   decides, and a module's bind mount is not recognised.
6. `unmount_left`: the line of a mount without a source does not parse, and the
   mount is never looked at.
7. `hide_layout`: "First ro page should be the ELF header" is not tested. Where it
   is not, `doHideZygisk` searches beyond `.bss`, in memory that may not be mapped
   or not be its own, though "the state should remain relatively safe".

The passing properties also name what they depend on. `ZygoteNamespaceIntact`
needs pids that are not reused within a request: with reuse the child may enter
the namespace of a process that has not left Zygote's (TLC finds this when
"pidreuse" is added to the faults). `HiddenUnlessLogged` has a disjunct for a
descriptor whose exemption failed and whose number was reused.
`CompanionFdReleased` and `HandlerReturns` except a failed `new_mount_ns`, whose
early return skips the `close`. `BystandersStay` excepts paths that changed after
the snapshot, or lay under a mount that hid a module's. `ValuesKept` excepts a set that falls between a child's copy of a
property and its update, which doMrProp does not notice; `Sanitised` excepts the
same for the scripts' sets, so that a late one may be lost to an app that starts
at that moment. `OnlyBssWritten` and `HideReturns` except a file that unmounting
has put in the place of the library's (TLC finds both violated without the
exception). `UnloadEnds` and the other properties of `Atexit` hold with recursion
up to the use of freed memory of finding 3, where a behaviour ends. `OptionsKept` excepts
`ro`, which is not in `mount_flags_procfs`, so that a remount makes a read-only
/data writable.

## Proofs

Proved with TLAPS for every value of the constants that satisfies the named
assumptions (`PlatformAssumption`, `AtexitAssumption`, `TokensAssumption`,
`UnmountAssumption`, `RemountAssumption`,
`MrPropAssumption`, `ScriptsAssumption`, `HideAssumption`; TLC evaluates them
too). Each invariant is an inductive one first; TLC has checked the inductive
invariants on the runs' instances before they were proved.

### The module and the companion

The proofs stand on one another, and each layer adds one conjunct to the
inductive invariant.

- `AssistantProofs!TypeCorrect`: `Spec => []TypeOK`.
- `AssistantProofs!ServesRequester`: `Spec => []ChildServesRequester`, for any
  processes and any faults, pid reuse included. The property is not inductive:
  that the child is in the right namespace depends on the pid it was given, so
  `IInv` adds that living processes have different pids (`PidInv`), that a pid in
  the socket or in the handler is its connection's and was sent after MS_SLAVE
  (`RequestInv`), and that the rest of the callback runs in such a namespace
  which its process never leaves (`NsInv`). Most steps touch none of this; they
  are shown to be `Quiet`, and the seven others are treated one by one.
- `AssistantProofs!ZygoteSafe`: `Spec => []ZygoteNamespaceIntact` if
  `"pidreuse" \notin Faults`. `ZygoteInv` adds that pids are then unique among
  dead processes too, so that the child is in its requester's namespace even
  after the requester has died.
- `AssistantCourseProofs`: `CallbackIsPrivileged`, `NothingDangles`,
  `CompanionFdIsReleased`, `DescriptorsFollowed`. They are about
  one process's record, which only that process changes; `CourseInv` says what its
  slots, callback, descriptors and capabilities are at every stage: for instance
  that the callback is armed only while both slots point to the hooks and neither
  has run (`ArmedOnce`), which is why it can never run without capabilities.
- `AssistantHidingProofs`: `ChildWorksAlone`, `OnlyUserApps`, `UnshareIsHonoured`,
  `Hidden` (`Spec => []HiddenUnlessLogged`) and `ImplementsHiding` (`Spec => HidesInOrder`,
  the refinement of `Hiding`). `ServeInv` follows a request through socket,
  handler and child: an answer that means success is there only after the child
  has been through doUnmount in its requester's namespace, or has failed to switch
  to it. `PlaceInv` says in which namespace a process is at each stage and what
  excuses it where it is not emptied. `ConnInv` says who has an end of a connection:
  a handler at work and its child each have one, so a read that met a hang-up has
  outlived the child, which is `ChildWorksAlone`. `StaleInv` says that a child is in
  a namespace its requester's pid led to, so that a namespace of a process that
  was left alone is emptied only if that pid was given twice, which is
  `OnlyUserApps`; that the code's test picks exactly the processes that are to be
  hidden, for every integer, is `UserAppUids`. `Hidden` needs no
  assumption about pids. The
  refinement has `"pidreuse" \notin Faults`, as `ZygoteSafe`: with reuse a child may
  empty the namespace of a process that it does not serve and that `Hiding` has not
  isolated; `CleanInv` says that without it a namespace is emptied only in turn.
  Then each action is shown to be one action of `Hiding` or to change no phase.

### The others

- `AtexitProofs`: `TypeCorrect`, `CallsOnce`, `CallsAll`, `NoOverrun`, `NoFault`
  and `Refinement` (`Spec => RunsInOrder`), for any capacity, any number of
  registrations and any depth of recursion; `NoFault` (no use of the freed array, by
  anyone, `ResumesSafely` included) alone has MaxDepth = 1, and is false without it
  (finding 3). The inductive invariant relates block, capacity and
  count and says that the array is freed only when nothing in it is live
  (`MemoryInv`), that in every call of `__cxa_finalize` that is under way nothing
  between its i and its total is live, because an inner call only takes entries out
  and a registration only adds above count (`FrameInv`), and that an entry is live
  until it is called once (`CallInv`); refinement follows from it step by step. For
  `NoFault`, `SoloInv` adds that the array is freed only by a call that is the only
  one.
- `RemountProofs`: `Typed`, `NoOptionIsLost`, `ErrorsAreTheSuperblocks`,
  `WritableWithNeed`. The comparison and the remount are not atomic, so `IInv` says
  what a child that is under way may rely on though another has remounted since:
  its own mount's options (`OwnOptions`), the behaviour the superblock asks for
  (`Wanted`), and that errors= is what it has seen or what it will make it
  (`Current`).
- `MrPropProofs`: `ValuesSurvive`, `NoTraceIsLeft`, `CopyKeepsContract`,
  `OthersAreUntouched` under `Spec`, `BootTyped` and `ScriptsSanitise` under
  `BootSpec`, and `BootIsMrProp` (`BootSpec => Spec`), which carries the first four
  over. Strings end at their first NUL, so the proofs rest on lemmas about C
  strings (`StrNLenIs`, `SafeCopyIs`, `WrittenIs`): a copy and an update give a
  value with the same string and zeroes behind it. `SafeCopyKeepsContract` is the
  contract of `safeStringCopy` for every size and any memory that holds what is
  read; `CopyKeepsContract` applies it to the values that are copied. `PInv` says what
  is in memory
  while a set or an update is half done and what the buffer of a child holds
  meanwhile; `BInv` adds, for the scripts, that what a command has read is what the
  property has, unless it is `overtaken`.
- `UnmountProofs`: `UnmountTyped`, `ModulesRecognised` (`Spec =>
  []ModuleMountsRecognised`) and `OverlaysFound` (`Spec => []OverlaysRecognised`), for
  every table, every mount that propagates in and any number of processes that
  unmount. `IInv` says that whatever is unmounted or propagates in the table stays a
  mount table, order included (umount2 takes all that is on a mount along,
  `DetachKeeps`), and that
  the entries each process works with are what the parser made of a table at one
  moment (`Reading`). The rest are lemmas about the parser: what `UpTo` reads
  (`UpToIs`), that an option's directory is found under its key wherever it stands
  in the text (`OptionIsParsed`), that the kernel's escapes neither move an option
  nor hide a directory of `mountdir_list` (`MangledStarts`, `DirSurvives`), and that
  the resolver puts a path together as the kernel would (`ModuleRecognised`).
  `BystandersKept` (`Spec => []BystandersStay`) and `ModulesGone` (`Spec =>
  []ModuleMountsGone`) follow from `WalkInductive`, which adds for each process that
  the iterator goes from the last entry to the first (`OrderInv`); that the table
  holds what was read without what this process has detached, except where
  others were at work (`AccountInv`); that what it has detached was on a mount whose
  turn had come (`HitInv`); and that what is left though its turn has come could not
  be found (`GoneInv`). The step that matters is one umount2. If the path leads to
  another mount than the one that was read, one of the two hides the other, since
  they have the same path (`TwoAtOnePath`: where the two chains of mounts part, one
  of the mounts lies over the way to the other). What hides a mount now has
  hidden it when the table was read (`HiddenBefore`); and a hiding mount that is
  flagged and listed later has had its turn, so that by `GoneInv` it is there
  only if it could not be found, which the property excuses
  (`HiddenAtItsTurn`). `StepHits` and `StepLeaves` put this together for the two
  properties, and `OthersKeep` shows that whatever else happens to the table is in
  `disturbed`.
- `HideZygiskProofs`: `HideTyped`, `HideDoesReturn`, `BssOnly`, `ErrorIsReset`. The
  last three are about builds that lld has linked (`LldLinked`: the ELF header in a
  read-only segment of its own, .bss in writable ones), which the code relies on
  and does not test; without it they are false, as run `hide_layout` shows. `IInv`
  says that the cached mappings of the library stay those of the library
  (`Cached`), whatever else is mapped meanwhile, because the library stays mapped
  and nothing else has its name (`Mapped`); the start that is computed is then the
  true one (`StartIs`).

The proofs have found two things that the runs had not. `Sanitised` did not excuse a
set by others that had begun before the script's read and ended after it. TLC's
instance had no room for such a set beside the scripts' own; `overtaken` keeps such
a name now. The attempt on `ModuleMountsGone` has found that a mount may be hidden,
when the table is read, by one that does not sit on it (a system mount over /system,
put there later, with a mount at the same path in it): umount2 then takes the mount that is seen. The tables of the run had no such
mount; they have one now, and the properties name the case (`Covered`).

Only model-checked: liveness (`SpecializationEnds`, `HandlerReturns` and
`UnloadEnds`, under fairness and so out of TLAPS's reach). Every safety property
and both refinements of the passing runs are proved; what the violation runs check
is false.

## Not modelled

- Deletion of properties by the boot scripts (`delprop_if_exist`): what happens to
  the property trie is resetprop's doing, not this repository's; and service.sh's
  chmod of two files that nothing else here looks at.
- `zygisk.hpp` beyond `entry_impl` and the flags, and `android_filesystem_config.h`
  beyond the four bounds: vendored interfaces without behaviour, modelled where
  they are used.
- The system_properties, fd_utils and ELFIO submodules, which are external: only
  what the code here asks of them is modelled.
- The bytes of the closure that `callbackFunction` destroys while it runs
  (main.cpp:116): whether they survive is libc++'s business; see the assumptions.
- Logging, build files, CI and the installer: no state of the running system
  (`errs` has what is logged where a property needs it).

## Plan

The order was: the core (`ZygiskModule`, `Companion`, `Assistant`) first, because
what can go wrong for a whole device goes wrong there, then `Atexit` with its
refinement, `Unmount` with `MountInfo`, the first proofs, `MrProp` and `Remount`,
then `HideZygisk`, the parsers, `Hiding` and `BootScripts`, then the proofs about
all of these. The walk of `Unmount` and the recursion of `Atexit` came last, and nothing of the plan is left.
