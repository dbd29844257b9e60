------------------------------- MODULE Atexit -------------------------------
(***************************************************************************)
(* src/module/jni/atexit.cpp: the library's own __cxa_atexit and            *)
(* __cxa_finalize.  Every access to their state is made with                *)
(* g_atexit_mutex held, so an action is one critical section; between two   *)
(* of __cxa_finalize's, with the mutex released, a registered function      *)
(* runs, and it or another thread may register more.                        *)
(*                                                                          *)
(* count never decreases, so the k-th function registered is entry k, at    *)
(* index k - 1 of g_array.  Reading, writing or freeing g_array once it is  *)
(* freed is undefined: fault says who does it and the model stops.          *)
(***************************************************************************)
EXTENDS Naturals, Sequences

CONSTANTS
  InitialCapacity,  \* 8 in the source
  MaxCount,         \* bound on the number of registrations
  MaxDepth          \* 1: __cxa_finalize is not called by what it calls

ASSUME AtexitAssumption ==
  /\ InitialCapacity \in Nat \ {0}
  /\ MaxCount \in Nat
  /\ MaxDepth \in Nat

VARIABLES
  g_array,   \* the pointer: "null", "live" or "freed"
  block,     \* how many entries the memory it points to holds
  live,      \* entries of g_array whose fn is not nullptr
  capacity, count,
  frames,    \* calls of __cxa_finalize, the innermost last
  called,    \* the entries called, in order
  unloaded,  \* the outermost __cxa_finalize has returned
  fault      \* who used g_array after it was freed, one of Faults

vars == <<g_array, block, live, capacity, count, frames, called, unloaded, fault>>

Frames == [total : Nat, i : Nat]   \* its locals; i counts from 1

(* Nobody; a late registration, which writes to the array; another call of   *)
(* __cxa_finalize, which reads it; the loop of a call that was interrupted   *)
(* by the one that freed it, which reads it or frees it again.               *)
Faults == {"none", "register", "finalize", "resume"}

TypeOK ==
  /\ g_array \in {"null", "live", "freed"}
  /\ block \in Nat
  /\ live \in SUBSET (1..count)
  /\ capacity \in Nat \ {0}
  /\ count \in 0..MaxCount
  /\ frames \in Seq(Frames)
  /\ called \in Seq(1..count)
  /\ unloaded \in BOOLEAN
  /\ fault \in Faults

Init ==
  /\ g_array = "null" /\ block = 0 /\ live = {}
  /\ capacity = InitialCapacity /\ count = 0
  /\ frames = <<>> /\ called = <<>>
  /\ unloaded = FALSE /\ fault = "none"

-----------------------------------------------------------------------------
(* Use of the freed array by who. *)
Fault(who) ==
  /\ fault' = who
  /\ UNCHANGED <<g_array, block, live, capacity, count, frames, called, unloaded>>

(* A mutant: count is compared before it is incremented. *)
GrownLate(n) == IF n - 1 > capacity THEN 2 * capacity ELSE capacity

(* The capacity __cxa_atexit goes on with once count is n. *)
Grown(n) == IF n > capacity THEN 2 * capacity ELSE capacity

(* A mutant: g_array[count]. *)
EntryAfter(n) == n + 1

(* The entry written once count is n: g_array[count - 1]. *)
EntryAt(n) == n

(* __cxa_atexit with a function: by the library's code in any thread, a      *)
(* registered function included, until the library is unloaded.  (With       *)
(* nullptr it returns -1 and changes nothing.)                               *)
cxa_atexit ==
  /\ ~unloaded /\ fault = "none"
  /\ count < MaxCount
  /\ \/ /\ g_array = "freed"
        /\ Fault("register")
     \/ /\ g_array # "freed"
        /\ count' = count + 1
        /\ capacity' = Grown(count + 1)
        /\ block' = IF g_array = "null" \/ capacity' > capacity
                      THEN capacity' ELSE block
        /\ g_array' = "live"
        /\ live' = live \cup {EntryAt(count + 1)}
        /\ UNCHANGED <<frames, called, unloaded, fault>>

-----------------------------------------------------------------------------
(* __cxa_finalize.                                                          *)

Outer == SubSeq(frames, 1, Len(frames) - 1)
Top   == frames[Len(frames)]

(* A mutant: the entry is not cleared. *)
TakeEntryNotCleared(j) ==
  /\ called' = Append(called, j)
  /\ UNCHANGED <<g_array, live>>

(* Entry j is copied and cleared before the mutex is released to call it. *)
TakeEntry(j) ==
  /\ live' = live \ {j}
  /\ called' = Append(called, j)
  /\ UNCHANGED g_array

(* The loop from entry i down, in a call whose callers' frames are below:    *)
(* the first entry it finds is taken and called ...                          *)
CallEntry(below, total, i) ==
  \E j \in 1..i \cap live :
    /\ \A k \in 1..i \cap live : k <= j
    /\ TakeEntry(j)
    /\ frames' = Append(below, [total |-> total, i |-> j])
    /\ UNCHANGED <<block, capacity, count, unloaded, fault>>

(* ... and when there is none the array is freed and the call returns. *)
Free(below, i) ==
  /\ 1..i \cap live = {}
  /\ g_array' = "freed"
  /\ frames' = below
  /\ unloaded' = (below = <<>>)
  /\ UNCHANGED <<block, live, capacity, count, called, fault>>

(* A mutant: the loop does not end where entry 0 is found cleared. *)
ScanForever(below, total, i) == CallEntry(below, total, i)

Scan(below, total, i) == CallEntry(below, total, i) \/ Free(below, i)

(* A mutant: the last entry is left out. *)
RestartShort(below) == Scan(below, count, count - 1)

(* From the label restart, which is reached with count > 0. *)
Restart(below) == Scan(below, count, count)

(* The call, by dlclose or by a function that is running. *)
cxa_finalize ==
  /\ ~unloaded /\ fault = "none"
  /\ Len(frames) < MaxDepth
  /\ \/ /\ count = 0
        /\ unloaded' = (frames = <<>>)
        /\ UNCHANGED <<g_array, block, live, capacity, count, frames, called, fault>>
     \/ /\ count > 0
        /\ IF g_array = "freed" THEN Fault("finalize") ELSE Restart(frames)

(* A mutant: the loop is not started again. *)
AfterCallGoesOn == Scan(Outer, Top.total, Top.i - 1)

(* A function has returned: the loop starts again if anything was registered *)
(* meanwhile, and goes on with the next entry otherwise.                     *)
AfterCall ==
  IF count # Top.total THEN Restart(Outer) ELSE Scan(Outer, Top.total, Top.i - 1)

EntryReturns ==
  /\ frames # <<>> /\ fault = "none"
  /\ IF g_array = "freed" THEN Fault("resume") ELSE AfterCall

Terminated == (unloaded \/ fault # "none") /\ UNCHANGED vars

Next ==
  \/ cxa_atexit
  \/ cxa_finalize
  \/ EntryReturns
  \/ Terminated

(* The functions that __cxa_finalize calls return. *)
Spec     == Init /\ [][Next]_vars
FairSpec == Spec /\ WF_vars(EntryReturns)

-----------------------------------------------------------------------------
(* No function is called twice, however often the loop starts again or the   *)
(* array moves.                                                              *)
CalledOnce ==
  \A a, b \in DOMAIN called : called[a] = called[b] => a = b

(* Every function registered has been called when the array is freed: one    *)
(* that registers while the last one runs is not left out.                   *)
AllCalled ==
  g_array = "freed" /\ fault = "none"
    => \A e \in 1..count : \E a \in DOMAIN called : called[a] = e

(* __cxa_atexit writes inside the memory it has allocated: the entries       *)
(* counted fit the block, however often it has been doubled.                 *)
WithinBlock ==
  g_array = "live" => count <= block

(* g_array is not used once it has been freed: not by a late registration,   *)
(* not by another call of __cxa_finalize and not by a loop that goes on.  It *)
(* holds where nothing that __cxa_finalize calls calls it again.             *)
NoUseAfterFree == fault = "none"

(* "Clear the entry in the array to avoid calling an entry again if          *)
(* __cxa_finalize is called recursively." (atexit.cpp:91): a call that was   *)
(* interrupted by a recursive one goes on safely when that one has returned. *)
ResumesSafely == fault # "resume"

(* The ABI's order: see AtexitOrder. *)
Order == INSTANCE AtexitOrder
           WITH registered <- count, pending <- live, gone <- unloaded
RunsInOrder == Order!Spec

(* Once begun, unloading ends if the functions return, though each of them   *)
(* may register more and make the loop start again, or call __cxa_finalize;  *)
(* only the use of freed memory, after which anything may happen, is left.   *)
UnloadEnds == frames # <<>> ~> unloaded \/ fault # "none"
=============================================================================
