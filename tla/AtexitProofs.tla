---------------------------- MODULE AtexitProofs ----------------------------
(***************************************************************************)
(* Proofs about Atexit for every initial capacity, every number of          *)
(* registrations and, but for NoFault, however deep the functions it calls  *)
(* call __cxa_finalize again.                                               *)
(***************************************************************************)
EXTENDS Atexit, TLAPS

(* The array's memory: allocated at the first registration, as long as       *)
(* capacity says, and freed only when nothing is left in it; from then until *)
(* the outermost call returns its use is the fault.                          *)
MemoryInv ==
  /\ g_array = "null" => count = 0
  /\ g_array = "live" => block = capacity /\ count <= capacity
  /\ g_array = "freed" => live = {}
  /\ unloaded => frames = <<>> /\ live = {}
  /\ g_array = "freed" /\ ~unloaded => frames # <<>>
  /\ fault # "none" => g_array = "freed"

(* In each of the calls s of __cxa_finalize nothing from its i to its total  *)
(* is left; what was registered since lies above total.                      *)
Scanned(s) ==
  \A f \in DOMAIN s :
    /\ s[f].i \in 1..s[f].total
    /\ s[f].total <= count
    /\ \A k \in s[f].i..s[f].total : k \notin live

FrameInv == Scanned(frames)

(* An entry is live until it is called, and called once. *)
CallInv ==
  /\ \A a \in DOMAIN called : called[a] \notin live
  /\ \A e \in 1..count : e \in live \/ \E a \in DOMAIN called : called[a] = e
  /\ CalledOnce

IInv == TypeOK /\ MemoryInv /\ FrameInv /\ CallInv

LEMMA InitIInv == Init => IInv
<1> SUFFICES ASSUME Init PROVE IInv
  OBVIOUS
<1>1. TypeOK
  <2>1. live \in SUBSET (1..count) /\ count \in 0..MaxCount /\ called \in Seq(1..count)
    BY AtexitAssumption DEF Init
  <2>2. capacity \in Nat \ {0} /\ block \in Nat /\ frames \in Seq(Frames)
    BY AtexitAssumption DEF Init
  <2>3. unloaded \in BOOLEAN /\ fault \in Faults
    BY DEF Init, Faults
  <2>4. g_array \in {"null", "live", "freed"}
    BY DEF Init
  <2> QED BY <2>1, <2>2, <2>3, <2>4, Zenon DEF TypeOK
<1>2. MemoryInv /\ FrameInv
  BY DEF Init, MemoryInv, FrameInv, Scanned
<1>3. DOMAIN called = {} /\ 1..count = {}
  BY DEF Init
<1>4. CallInv
  BY <1>3 DEF CallInv, CalledOnce
<1> QED BY <1>1, <1>2, <1>4 DEF IInv

(* The use of the freed array changes nothing else. *)
LEMMA FaultStep ==
  ASSUME IInv, g_array = "freed", NEW who \in Faults, Fault(who)
  PROVE  IInv' /\ UNCHANGED <<count, live, unloaded>>
<1>1. /\ fault' = who /\ fault' \in Faults
      /\ UNCHANGED <<g_array, block, live, capacity, count, frames, called, unloaded>>
  BY DEF Fault
<1>2. TypeOK'
  BY <1>1 DEF IInv, TypeOK
<1>3. MemoryInv' /\ FrameInv'
  BY <1>1 DEF IInv, MemoryInv, FrameInv, Scanned
<1>4. CallInv'
  BY <1>1 DEF IInv, CallInv, CalledOnce
<1> QED BY <1>1, <1>2, <1>3, <1>4 DEF IInv

(* A registration changes neither the calls made nor the frames. *)
LEMMA AtexitStep ==
  ASSUME IInv, cxa_atexit
  PROVE  IInv' /\ [Order!Register]_<<count, live, unloaded>>
<1> USE DEF IInv, TypeOK, MemoryInv
<1>1. CASE g_array = "freed" /\ Fault("register")
  BY <1>1, FaultStep DEF Faults
<1>2. CASE /\ g_array # "freed"
           /\ count' = count + 1
           /\ capacity' = Grown(count + 1)
           /\ block' = IF g_array = "null" \/ capacity' > capacity
                         THEN capacity' ELSE block
           /\ g_array' = "live"
           /\ live' = live \cup {count + 1}
           /\ UNCHANGED <<frames, called, unloaded, fault>>
           /\ count < MaxCount /\ ~unloaded /\ fault = "none"
  <2>1. TypeOK'
    <3>1. called' \in Seq(1..count')
      <4>1. called \in Seq(1..count) /\ 1..count \subseteq 1..(count + 1)
        OBVIOUS
      <4> QED BY <1>2, <4>1
    <3>2. capacity' \in Nat \ {0} /\ block' \in Nat
      BY <1>2 DEF Grown
    <3> QED BY <1>2, <3>1, <3>2, AtexitAssumption
  <2>2. MemoryInv'
    BY <1>2 DEF Grown
  <2>3. FrameInv'
    <3> SUFFICES ASSUME NEW f \in DOMAIN frames
                 PROVE  /\ frames[f].i \in 1..frames[f].total
                        /\ frames[f].total <= count + 1
                        /\ \A k \in frames[f].i..frames[f].total : k \notin live'
      BY <1>2 DEF FrameInv, Scanned
    <3>1. /\ frames[f].i \in 1..frames[f].total /\ frames[f].total <= count
          /\ \A k \in frames[f].i..frames[f].total : k \notin live
      BY DEF FrameInv, Scanned
    <3>2. frames[f] \in Frames
      OBVIOUS
    <3>3. frames[f].total \in Nat /\ frames[f].i \in Nat
      BY <3>2 DEF Frames
    <3> QED BY <1>2, <3>1, <3>3
  <2>4. CallInv'
    <3>1. /\ called' = called /\ live' = live \cup {count + 1}
          /\ 1..count' = (1..count) \cup {count + 1}
          /\ \A a \in DOMAIN called : called[a] \in 1..count
          /\ count + 1 \notin 1..count
      BY <1>2
    <3> HIDE DEF IInv, TypeOK, MemoryInv
    <3> QED BY <3>1 DEF IInv, CallInv, CalledOnce
  <2>5. Order!Register
    BY <1>2 DEF Order!Register
  <2> QED BY <2>1, <2>2, <2>3, <2>4, <2>5
<1> QED BY <1>1, <1>2 DEF cxa_atexit, EntryAt

(* The loop, started with nothing left between i and the total it is for, in *)
(* a call whose callers' frames are below.                                   *)
LEMMA ScanStep ==
  ASSUME IInv, g_array = "live", ~unloaded, fault = "none",
         NEW below \in Seq(Frames), Scanned(below),
         NEW i \in 0..count,
         \A k \in (i + 1)..count : k \notin live,
         Scan(below, count, i)
  PROVE  IInv' /\ [Order!Run \/ Order!Finish]_<<count, live, unloaded>>
<1> USE DEF IInv, TypeOK, MemoryInv
<1>1. CASE CallEntry(below, count, i)
  <2>1. PICK j \in 1..i \cap live :
          /\ \A k \in 1..i \cap live : k <= j
          /\ live' = live \ {j}
          /\ called' = Append(called, j)
          /\ frames' = Append(below, [total |-> count, i |-> j])
          /\ UNCHANGED <<g_array, block, capacity, count, unloaded, fault>>
    <3> HIDE DEF IInv, TypeOK, MemoryInv
    <3> QED BY <1>1, Zenon DEF CallEntry, TakeEntry
  <2>2. \A k \in live : k <= j
    BY <2>1
  <2> DEFINE top == [total |-> count, i |-> j]
  <2>3. /\ top \in Frames /\ frames' = Append(below, top)
        /\ top.total = count /\ top.i = j /\ j \in 1..count
    BY <2>1 DEF Frames
  <2> HIDE DEF top
  <2>4. TypeOK'
    <3>1. frames' \in Seq(Frames)
      BY <2>3
    <3>2. called' \in Seq(1..count')
      BY <2>1
    <3> QED BY <2>1, <3>1, <3>2
  <2>5. MemoryInv'
    BY <2>1
  <2>6. FrameInv'
    <3> SUFFICES ASSUME NEW f \in DOMAIN frames'
                 PROVE  /\ frames'[f].i \in 1..frames'[f].total
                        /\ frames'[f].total <= count
                        /\ \A k \in frames'[f].i..frames'[f].total : k \notin live'
      BY <2>1 DEF FrameInv, Scanned
    <3>1. \/ f \in DOMAIN below /\ frames'[f] = below[f]
          \/ frames'[f] = top
      BY <2>3
    <3>2. CASE f \in DOMAIN below /\ frames'[f] = below[f]
      <4>1. live' \subseteq live
        BY <2>1
      <4> HIDE DEF IInv, TypeOK, MemoryInv
      <4> QED BY <3>2, <4>1 DEF Scanned
    <3>3. CASE frames'[f] = top
      BY <2>1, <2>2, <2>3, <3>3
    <3> QED BY <3>1, <3>2, <3>3
  <2>7. CallInv'
    <3>1. /\ DOMAIN called' = DOMAIN called \cup {Len(called) + 1}
          /\ \A a \in DOMAIN called : called'[a] = called[a]
          /\ called'[Len(called) + 1] = j
          /\ Len(called) + 1 \notin DOMAIN called
      BY <2>1
    <3> HIDE DEF IInv, TypeOK, MemoryInv
    <3>2. CallInv /\ j \in live /\ j \in 1..count /\ live' = live \ {j} /\ count' = count
      BY <2>1 DEF IInv, TypeOK
    <3>3. (\A a \in DOMAIN called : called[a] \notin live)'
      BY <3>1, <3>2, Zenon DEF CallInv
    <3>4. (\A e \in 1..count : e \in live \/ \E a \in DOMAIN called : called[a] = e)'
      BY <3>1, <3>2, Zenon DEF CallInv
    <3>5. CalledOnce'
      BY <3>1, <3>2, Zenon DEF CallInv, CalledOnce
    <3> QED BY <3>3, <3>4, <3>5 DEF CallInv
  <2>8. Order!Run
    BY <2>1, <2>2 DEF Order!Run
  <2> QED BY <2>4, <2>5, <2>6, <2>7, <2>8
<1>2. CASE Free(below, i)
  <2>1. /\ 1..i \cap live = {}
        /\ g_array' = "freed" /\ frames' = below /\ unloaded' = (below = <<>>)
        /\ UNCHANGED <<block, live, capacity, count, called, fault>>
    BY <1>2 DEF Free
  <2>2. live = {}
    BY <2>1
  <2>3. unloaded' \in BOOLEAN /\ (unloaded' <=> frames' = <<>>)
    BY <2>1, Zenon
  <2>4. TypeOK' /\ MemoryInv'
    BY <2>1, <2>2, <2>3
  <2>5. FrameInv'
    BY <2>1 DEF FrameInv, Scanned
  <2>6. CallInv'
    BY <2>1 DEF CallInv, CalledOnce
  <2>7. CASE unloaded'
    <3>1. unloaded' = TRUE
      BY <2>3, <2>7
    <3>2. Order!Finish
      BY <2>1, <2>2, <3>1 DEF Order!Finish
    <3> QED BY <2>4, <2>5, <2>6, <3>2
  <2>8. CASE ~unloaded'
    <3>1. UNCHANGED <<count, live, unloaded>>
      BY <2>1, <2>3, <2>8
    <3> QED BY <2>4, <2>5, <2>6, <3>1
  <2> QED BY <2>7, <2>8
<1> QED BY <1>1, <1>2 DEF Scan

(* The call of __cxa_finalize, and the steps it takes when a function has    *)
(* returned.                                                                 *)
LEMMA FinalizeStep ==
  ASSUME IInv, cxa_finalize
  PROVE  IInv' /\ [Order!Run \/ Order!Finish]_<<count, live, unloaded>>
<1> USE DEF IInv, TypeOK, MemoryInv
<1>1. ~unloaded /\ fault = "none"
  BY DEF cxa_finalize
<1>2. CASE /\ count = 0
           /\ unloaded' = (frames = <<>>)
           /\ UNCHANGED <<g_array, block, live, capacity, count, frames, called, fault>>
  <2>1. live = {} /\ frames = <<>> /\ frames' = <<>>
    <3>1. live = {}
      BY <1>2
    <3>2. 1 \notin DOMAIN frames
      <4>1. \A f \in DOMAIN frames : frames[f] \in Frames
        OBVIOUS
      <4>2. \A f \in DOMAIN frames : frames[f].total \in Nat
        BY <4>1 DEF Frames
      <4> QED BY <1>2, <4>2 DEF FrameInv, Scanned
    <3> QED BY <1>2, <3>1, <3>2
  <2>2. unloaded' = TRUE
    BY <1>2, <2>1, Zenon
  <2>3. TypeOK' /\ MemoryInv' /\ FrameInv'
    BY <1>1, <1>2, <2>1, <2>2 DEF FrameInv, Scanned
  <2>4. CallInv'
    <3>1. called' = called /\ live' = live /\ count' = count
      BY <1>2
    <3> HIDE DEF TypeOK, MemoryInv
    <3> QED BY <3>1 DEF CallInv, CalledOnce
  <2>5. Order!Finish
    BY <1>1, <1>2, <2>1, <2>2 DEF Order!Finish
  <2> QED BY <2>3, <2>4, <2>5
<1>3. CASE count > 0 /\ g_array = "freed" /\ Fault("finalize")
  BY <1>3, FaultStep DEF Faults
<1>4. CASE count > 0 /\ g_array # "freed" /\ Restart(frames)
  <2>1. g_array = "live"
    BY <1>4
  <2>2. Scan(frames, count, count) /\ count \in 0..count
    BY <1>4 DEF Restart
  <2>3. \A k \in (count + 1)..count : k \notin live
    OBVIOUS
  <2>4. frames \in Seq(Frames) /\ Scanned(frames)
    BY DEF FrameInv
  <2> QED BY <1>1, <2>1, <2>2, <2>3, <2>4, ScanStep
<1> QED BY <1>2, <1>3, <1>4 DEF cxa_finalize

LEMMA EntryReturnsStep ==
  ASSUME IInv, EntryReturns
  PROVE  IInv' /\ [Order!Run \/ Order!Finish]_<<count, live, unloaded>>
<1> USE DEF IInv, TypeOK, MemoryInv
<1>1. frames # <<>> /\ ~unloaded /\ fault = "none"
  BY DEF EntryReturns
<1>2. CASE g_array = "freed" /\ Fault("resume")
  BY <1>2, FaultStep DEF Faults
<1>3. CASE g_array # "freed" /\ AfterCall
  <2>1. /\ Outer \in Seq(Frames) /\ DOMAIN Outer \subseteq DOMAIN frames
        /\ \A f \in DOMAIN Outer : Outer[f] = frames[f]
        /\ Len(frames) \in DOMAIN frames
    BY <1>1 DEF Outer
  <2>2. Scanned(Outer)
    <3> HIDE DEF TypeOK, MemoryInv
    <3> QED BY <2>1 DEF FrameInv, Scanned
  <2>3. /\ Top \in Frames /\ Top.i \in 1..Top.total /\ Top.total <= count
        /\ \A k \in Top.i..Top.total : k \notin live
    BY <2>1 DEF FrameInv, Scanned, Top
  <2>4. Top.total \in Nat /\ Top.i \in Nat
    BY <2>3 DEF Frames
  <2>5. g_array = "live"
    BY <1>3, <2>3, <2>4
  <2>6. CASE count # Top.total
    <3>1. Scan(Outer, count, count) /\ count \in 0..count
      BY <1>3, <2>6 DEF AfterCall, Restart
    <3>2. \A k \in (count + 1)..count : k \notin live
      OBVIOUS
    <3> QED BY <1>1, <2>1, <2>2, <2>5, <3>1, <3>2, ScanStep
  <2>7. CASE count = Top.total
    <3>1. Scan(Outer, count, Top.i - 1) /\ Top.i - 1 \in 0..count
      BY <1>3, <2>3, <2>4, <2>7 DEF AfterCall
    <3>2. \A k \in (Top.i - 1 + 1)..count : k \notin live
      BY <2>3, <2>4, <2>7
    <3> QED BY <1>1, <2>1, <2>2, <2>5, <3>1, <3>2, ScanStep
  <2> QED BY <2>6, <2>7
<1> QED BY <1>2, <1>3 DEF EntryReturns

LEMMA StutterStep ==
  ASSUME IInv, UNCHANGED vars
  PROVE  IInv' /\ UNCHANGED <<count, live, unloaded>>
  BY DEF IInv, TypeOK, MemoryInv, FrameInv, Scanned, CallInv, CalledOnce, vars

LEMMA NextStep ==
  ASSUME IInv, [Next]_vars
  PROVE  IInv' /\ [Order!Next]_<<count, live, unloaded>>
<1>1. CASE cxa_atexit
  BY <1>1, AtexitStep DEF Order!Next
<1>2. CASE cxa_finalize
  BY <1>2, FinalizeStep DEF Order!Next
<1>3. CASE EntryReturns
  BY <1>3, EntryReturnsStep DEF Order!Next
<1>4. CASE UNCHANGED vars
  BY <1>4, StutterStep
<1> QED BY <1>1, <1>2, <1>3, <1>4 DEF Next, Terminated

-----------------------------------------------------------------------------
(* The inductive invariant holds: functions registered and called are        *)
(* accounted for and __cxa_finalize's locals describe what is left.          *)
THEOREM Inductive == Spec => []IInv
<1>1. Init => IInv
  BY InitIInv
<1>2. IInv /\ [Next]_vars => IInv'
  BY NextStep
<1> QED BY <1>1, <1>2, PTL DEF Spec

(* Type correctness of the registry. *)
THEOREM TypeCorrect == Spec => []TypeOK
<1>1. IInv => TypeOK
  BY DEF IInv
<1> QED BY <1>1, Inductive, PTL

(* __cxa_finalize calls no function twice. *)
THEOREM CallsOnce == Spec => []CalledOnce
<1>1. IInv => CalledOnce
  BY DEF IInv, CallInv
<1> QED BY <1>1, Inductive, PTL

(* Every function registered has been called when the array is freed. *)
THEOREM CallsAll == Spec => []AllCalled
<1>1. IInv => AllCalled
  BY DEF IInv, TypeOK, MemoryInv, CallInv, AllCalled
<1> QED BY <1>1, Inductive, PTL

(* __cxa_atexit writes inside the allocated block, for every initial         *)
(* capacity and however often it is doubled.                                 *)
THEOREM NoOverrun == Spec => []WithinBlock
<1>1. IInv => WithinBlock
  BY DEF IInv, MemoryInv, WithinBlock
<1> QED BY <1>1, Inductive, PTL

(* Where what __cxa_finalize calls does not call it again, the array is      *)
(* freed only by the call that unloads the library.                          *)
SoloInv ==
  /\ Len(frames) <= 1
  /\ fault = "none"
  /\ g_array = "freed" => frames = <<>>

LEMMA SoloScan ==
  ASSUME NEW total, NEW i, SoloInv, g_array # "freed", Scan(<<>>, total, i)
  PROVE  SoloInv'
<1>1. CASE CallEntry(<<>>, total, i)
  <2>1. PICK j \in 1..i \cap live :
          /\ TakeEntry(j)
          /\ frames' = Append(<<>>, [total |-> total, i |-> j])
          /\ UNCHANGED <<block, capacity, count, unloaded, fault>>
    BY <1>1, Zenon DEF CallEntry
  <2>2. g_array' = g_array /\ fault' = fault
    BY <2>1 DEF TakeEntry
  <2>3. Len(frames') = 1
    BY <2>1
  <2> QED BY <2>2, <2>3 DEF SoloInv
<1>2. CASE Free(<<>>, i)
  BY <1>2 DEF Free, SoloInv
<1> QED BY <1>1, <1>2 DEF Scan

LEMMA SoloStep ==
  ASSUME IInv, SoloInv, MaxDepth = 1, [Next]_vars
  PROVE  SoloInv'
<1>1. CASE cxa_atexit
  <2>1. g_array # "freed"
    BY <1>1 DEF cxa_atexit, IInv, MemoryInv, SoloInv
  <2> QED BY <1>1, <2>1 DEF cxa_atexit, SoloInv
<1>2. CASE cxa_finalize
  <2>1. g_array # "freed" /\ fault = "none" /\ frames = <<>>
    <3>1. frames = <<>>
      BY <1>2 DEF cxa_finalize, IInv, TypeOK
    <3> QED BY <1>2, <3>1 DEF cxa_finalize, IInv, MemoryInv
  <2>2. CASE count = 0
    BY <1>2, <2>1, <2>2 DEF cxa_finalize, SoloInv
  <2>3. CASE count # 0
    <3>1. Scan(<<>>, count, count)
      BY <1>2, <2>1, <2>3 DEF cxa_finalize, Restart
    <3> QED BY <2>1, <3>1, SoloScan
  <2> QED BY <2>2, <2>3
<1>3. CASE EntryReturns
  <2>1. g_array # "freed" /\ Outer = <<>>
    BY <1>3 DEF EntryReturns, SoloInv, IInv, TypeOK, Outer
  <2>2. \/ Scan(<<>>, count, count)
        \/ Scan(<<>>, Top.total, Top.i - 1)
    BY <1>3, <2>1 DEF EntryReturns, AfterCall, Restart
  <2> QED BY <2>1, <2>2, SoloScan
<1>4. CASE UNCHANGED vars
  BY <1>4 DEF SoloInv, vars
<1> QED BY <1>1, <1>2, <1>3, <1>4 DEF Next, Terminated

(* The array is not used once freed unless __cxa_finalize is called by what  *)
(* it calls: not by a late registration, by a second call or by the loop of  *)
(* a call that goes on.                                                      *)
THEOREM NoFault ==
  ASSUME MaxDepth = 1
  PROVE  Spec => [](NoUseAfterFree /\ ResumesSafely)
<1>1. Init => SoloInv
  BY DEF Init, SoloInv
<1>2. IInv /\ SoloInv /\ [Next]_vars => SoloInv'
  BY SoloStep
<1>3. SoloInv => NoUseAfterFree /\ ResumesSafely
  BY DEF SoloInv, NoUseAfterFree, ResumesSafely
<1> QED BY <1>1, <1>2, <1>3, Inductive, PTL DEF Spec

(* __cxa_atexit and __cxa_finalize implement the ABI's order. *)
THEOREM Refinement == Spec => RunsInOrder
<1>1. Init => Order!Init
  BY DEF Init, Order!Init
<1>2. IInv /\ [Next]_vars => [Order!Next]_<<count, live, unloaded>>
  BY NextStep
<1> QED BY <1>1, <1>2, Inductive, PTL DEF Spec, RunsInOrder, Order!Spec
=============================================================================
